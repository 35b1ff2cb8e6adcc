------------------------------ MODULE Timesheets ------------------------------
(***************************************************************************)
(* The timesheets of one half-month: that of a department and the personal *)
(* one of its manager, who reports the people assigned to him by name.     *)
(* They are submitted, reviewed, opened for corrections and closed again;  *)
(* each approval and each closing of an approved timesheet fixes a         *)
(* version, and 1C pays by the latest versions of the approved ones.       *)
(*                                                                         *)
(* What makes this hard: the hours are corrected by many people, and a     *)
(* version is built from a snapshot of the database.  Corrections hold an  *)
(* advisory lock of (employee, month); reviews take the locks of the whole *)
(* roster before their snapshot (REPEATABLE READ) begins, and the row of   *)
(* the timesheet after it.  Everything here is about what falls between.   *)
(***************************************************************************)
EXTENDS Integers

CONSTANTS
  Emps,       \* employees
  Reports,    \* those assigned to the manager by name, the manager included
  Corrected,  \* bound: those whose hours change, the others have some
  Procs,      \* connections that run reviews, closings and rebuilds
  Managers,   \* requests that submit
  MaxTries,   \* attempts of a snapshot transaction (MAX_ATTEMPTS)
  MaxRequests, \* bound on what is asked of the system
  None

ASSUME ReportsAreEmployees == Reports \subseteq Emps /\ Corrected \subseteq Emps
ASSUME TriesAreCounted == MaxTries \in Nat \ {0} /\ MaxRequests \in Nat

VARIABLES
  row,      \* timesheet_approvals: status, open (unlocked_at), dirty, seq
  roster,   \* timesheet_approval_employees
  version,  \* the hours of the latest of timesheet_versions
  hours,    \* the hours of an employee, 0 when there is no activity
  staff,    \* employees assigned to the department in the half-month
  edit,     \* the correction of an employee that is in a transaction
  tx,       \* the snapshot transactions
  desk,     \* the submissions
  zone,     \* the recalculation after a change of an access zone
  sound,    \* history: the last closing had the locks and the roster of its version
  checked,  \* history: the version was compared with the other under covering locks
  requests

vars == <<row, roster, version, hours, staff, edit, tx, desk, zone, sound, checked, requests>>

Scopes == {"department", "personal"}
Statuses == {"draft", "submitted", "approved", "rejected", "returned"}
Hours == 0 .. 1
Bodies == UNION {[S -> Hours] : S \in SUBSET Emps}
EmptyBody == [e \in {} |-> 0]

(* An approval, a refusal, a return and a closing by personnel; the three that
   closing a month makes of a department; the rebuilding of a marked version. *)
Kinds == {"approve", "reject", "return", "close", "relock", "monthApprove", "force", "rebuild"}
(* Month closing speaks of departments only. *)
ScopesOf(kind) == IF kind \in {"relock", "monthApprove", "force"} THEN {"department"} ELSE Scopes
(* These write a version when they leave the timesheet approved. *)
Fixes(kind) == kind \notin {"reject", "return"}

(* A snapshot transaction: what it was asked, the employees it locks, the mark it
   saw, its attempt, the hours and the approved days of its snapshot; stale: the
   row has changed since, raced: the hours have. *)
IdleTx == [pc |-> "idle", kind |-> None, scope |-> None, list |-> {}, seq |-> 0, tries |-> 0,
           body |-> EmptyBody, busy |-> {}, stale |-> FALSE, raced |-> FALSE]
(* A submission: the status and the roster it has read. *)
IdleDesk == [pc |-> "idle", scope |-> None, seen |-> None, ids |-> {}]
IdleZone == [pc |-> "idle", emp |-> None, rows |-> {}]

-----------------------------------------------------------------------------
(* Locks *)

Closed(s) == row[s].status \in {"submitted", "approved"} /\ ~row[s].open

(* The lock of a closed timesheet on an employee: by the roster, or by the
   department although the employee was assigned after the submission. *)
Locked(e) == \E s \in Scopes : Closed(s) /\ (e \in roster[s] \/ (s = "department" /\ e \in staff))

(* The advisory lock of (employee, month) is not taken. *)
Free(e) == /\ edit[e] = None
           /\ \A q \in Procs : tx[q].pc \in {"wait", "hold"} => e \notin tx[q].list

(* Nobody holds the row of the timesheet (FOR UPDATE until the end of a transaction). *)
Unheld(s) == \A q \in Procs : tx[q].pc = "hold" => tx[q].scope # s

(* The row has a new version: a transaction that has its snapshot and waits
   for the row will be refused (40001). *)
Updated(t, S) ==
  [q \in Procs |-> IF t[q].pc = "wait" /\ t[q].scope \in S THEN [t[q] EXCEPT !.stale = TRUE] ELSE t[q]]

(* Employees whose hours 1C already has from the timesheet, if it is approved. *)
Counted(s) == IF row[s].status # "approved" THEN {}
              ELSE {e \in DOMAIN version[s] : version[s][e] > 0}

(* The timesheet that may have the same days. *)
Other(s) == IF s = "department" THEN "personal" ELSE "department"

-----------------------------------------------------------------------------
(* Corrections *)

(* A request is made. *)
Asked == requests < MaxRequests /\ requests' = requests + 1

(* assertNotLockedInTx comes after the advisory lock, in the transaction of the
   correction; its hours are seen by others when it commits. *)
BeginEdit(e) ==
  /\ Asked
  /\ Free(e)
  /\ ~Locked(e)
  /\ edit' = [edit EXCEPT ![e] = 1 - hours[e]]
  /\ UNCHANGED <<row, roster, version, hours, staff, tx, desk, zone, sound, checked>>

CommitEdit(e) ==
  /\ edit[e] # None
  /\ hours' = [hours EXCEPT ![e] = edit[e]]
  /\ edit' = [edit EXCEPT ![e] = None]
  /\ UNCHANGED <<row, roster, version, staff, tx, desk, zone, sound, checked, requests>>

(* Personnel assigns an employee to the department, effective in the past. *)
Assign(e) ==
  /\ e \notin staff
  /\ staff' = staff \cup {e}
  /\ UNCHANGED <<row, roster, version, hours, edit, tx, desk, zone, sound, checked, requests>>

-----------------------------------------------------------------------------
(* Submission *)

(* The personal timesheet leaves out whom the department has submitted. *)
Composition ==
  IF row["department"].status \in {"submitted", "approved", "returned"}
  THEN Reports \ roster["department"] ELSE Reports

(* The row, and the roster of a personal timesheet, are read before the
   transaction; an approved one is refused here and nowhere else. *)
ReadForSubmit(m, s) ==
  /\ Asked
  /\ desk[m].pc = "idle"
  /\ row[s].status # "approved"
  /\ s = "personal" => Composition # {}
  /\ desk' = [desk EXCEPT ![m] = [pc |-> "submit", scope |-> s, seen |-> row[s].status,
                                  ids |-> IF s = "personal" THEN Composition ELSE {}]]
  /\ UNCHANGED <<row, roster, version, hours, staff, edit, tx, zone, sound, checked>>

SubmitIds(m) == IF desk[m].scope = "personal" THEN desk[m].ids ELSE staff

\* mutant: the timesheet is submitted without the locks of its employees
LocksSkipped(m) == TRUE

(* lockTimesheetMonthsOnClient, before the row is written. *)
LocksTaken(m) == \A e \in SubmitIds(m) : Free(e)

(* After the submission of a department the manager's own one is reconciled. *)
AfterSubmit(m) == desk' = [desk EXCEPT ![m] = IF @.scope = "personal" THEN IdleDesk
                                              ELSE [IdleDesk EXCEPT !.pc = "self"]]

(* The UPDATE has no guard on the status it finds. *)
Submit(m) ==
  LET s == desk[m].scope
  IN /\ desk[m].pc = "submit"
     /\ desk[m].seen # "submitted"
     /\ LocksTaken(m)
     /\ Unheld(s)
     /\ row' = [row EXCEPT ![s].status = "submitted", ![s].open = FALSE]
     /\ roster' = [roster EXCEPT ![s] = SubmitIds(m)]
     /\ sound' = [sound EXCEPT ![s] = TRUE]
     /\ tx' = Updated(tx, {s})
     /\ AfterSubmit(m)
     /\ UNCHANGED <<version, hours, staff, edit, zone, checked, requests>>

(* A timesheet read as submitted has its roster rebuilt, whatever it is now;
   the row itself is not locked. *)
Resubmit(m) ==
  LET s == desk[m].scope
      changed == roster[s] # SubmitIds(m)
  IN /\ desk[m].pc = "submit"
     /\ desk[m].seen = "submitted"
     /\ LocksTaken(m)
     /\ roster' = [roster EXCEPT ![s] = SubmitIds(m)]
     /\ sound' = [sound EXCEPT ![s] = IF changed THEN row[s].status # "approved" ELSE @]
     /\ AfterSubmit(m)
     /\ UNCHANGED <<row, version, hours, staff, edit, tx, zone, checked, requests>>

(* ensureManagerSelfApprovalForRange: what it reads before its transaction. *)
SelfRead(m) ==
  LET seen == row["personal"].status
      idle == IF Composition = {} THEN seen \notin {"submitted", "rejected"} ELSE seen = "approved"
  IN /\ desk[m].pc = "self"
     /\ desk' = [desk EXCEPT ![m] = IF idle THEN IdleDesk
                                    ELSE [pc |-> "write", scope |-> "personal", seen |-> seen, ids |-> Composition]]
     /\ UNCHANGED <<row, roster, version, hours, staff, edit, tx, zone, sound, checked, requests>>

\* mutant: the correction mode survives the recall
DraftStillOpen(r) == [r EXCEPT !.status = "draft"]

(* RECALL_TO_DRAFT_SET_SQL *)
Draft(r) == [r EXCEPT !.status = "draft", !.open = FALSE]

(* Its transaction: each case is guarded by the status that was read, and none
   takes the advisory locks. *)
SelfWrite(m) ==
  LET ids == desk[m].ids
      seen == desk[m].seen
      met == row["personal"].status = seen
      to == IF ids = {} THEN Draft(row["personal"]) ELSE [row["personal"] EXCEPT !.status = "submitted"]
      writes == met /\ (ids = {} \/ seen # "submitted")
  IN /\ desk[m].pc = "write"
     /\ Unheld("personal")
     /\ row' = IF writes THEN [row EXCEPT !["personal"] = to] ELSE row
     /\ roster' = IF met THEN [roster EXCEPT !["personal"] = ids] ELSE roster
     /\ sound' = IF met /\ (roster["personal"] # ids \/ writes)
                 THEN [sound EXCEPT !["personal"] = FALSE] ELSE sound
     /\ tx' = IF writes THEN Updated(tx, {"personal"}) ELSE tx
     /\ desk' = [desk EXCEPT ![m] = IdleDesk]
     /\ UNCHANGED <<version, hours, staff, edit, zone, checked, requests>>

(* The manager takes a submission back, personnel an approved one; the personal
   timesheet goes along if the author of the department's is its manager. *)
Recall(s) ==
  \E cascade \in BOOLEAN :
    LET back == {s} \cup (IF cascade THEN {"personal"} ELSE {})
    IN /\ Asked
       /\ row[s].status \in {"submitted", "approved"}
       /\ cascade => s = "department" /\ row["personal"].status = "submitted"
       /\ \A t \in back : Unheld(t)
       /\ row' = [t \in Scopes |-> IF t \in back THEN Draft(row[t]) ELSE row[t]]
       /\ tx' = Updated(tx, back)
       /\ UNCHANGED <<roster, version, hours, staff, edit, desk, zone, sound, checked>>

OpenPeriod(s) ==
  /\ Asked
  /\ Closed(s)
  /\ Unheld(s)
  /\ row' = [row EXCEPT ![s].open = TRUE]
  /\ tx' = Updated(tx, {s})
  /\ UNCHANGED <<roster, version, hours, staff, edit, desk, zone, sound, checked>>

-----------------------------------------------------------------------------
(* Snapshot transactions *)

(* What the timesheet must be, before the transaction and again under the row's lock. *)
Admits(kind, s) ==
  CASE kind \in {"approve", "reject"} -> row[s].status = "submitted" /\ ~row[s].open
    [] kind = "return" -> row[s].status = "approved" /\ ~row[s].open
    [] kind = "close" -> row[s].open
    [] kind = "relock" -> row[s].status = "approved" /\ row[s].open
    [] kind = "monthApprove" -> row[s].status = "submitted"
    [] kind = "force" -> row[s].status \notin {"submitted", "approved"}
    [] kind = "rebuild" -> row[s].status = "approved" /\ ~row[s].open /\ row[s].dirty

(* The employees to lock are read before the locks are taken: the roster, or for
   a timesheet approved in place of the manager, the staff. *)
LockList(kind, s) == CASE ~Fixes(kind) -> {} [] kind = "force" -> staff [] OTHER -> roster[s]

Start(p, kind, s) ==
  /\ tx[p].pc = "idle"
  /\ s \in ScopesOf(kind)
  /\ Admits(kind, s)
  /\ IF kind = "rebuild" THEN UNCHANGED requests ELSE Asked
  /\ kind = "force" => staff # {}
  /\ tx' = [tx EXCEPT ![p] = [IdleTx EXCEPT !.pc = "list", !.kind = kind, !.scope = s, !.tries = 1,
                                            !.list = LockList(kind, s), !.seq = row[s].seq]]
  /\ UNCHANGED <<row, roster, version, hours, staff, edit, desk, zone, sound, checked>>

\* mutant: the snapshot is taken before the locks are granted
SnapshotFirst(t) == TRUE

(* lockTimesheetMonthsSession *)
LocksGranted(t) == \A e \in t.list : Free(e)

(* The locks, then BEGIN and the snapshot. *)
Begin(p) ==
  LET t == tx[p]
      S == IF t.kind = "force" THEN t.list ELSE roster[t.scope]
  IN /\ t.pc = "list"
     /\ LocksGranted(t)
     /\ tx' = [tx EXCEPT ![p] =
                 IF Fixes(t.kind)
                 THEN [t EXCEPT !.pc = "wait", !.body = [e \in S |-> hours[e]], !.busy = Counted(Other(t.scope))]
                 ELSE [t EXCEPT !.pc = "wait"]]
     /\ UNCHANGED <<row, roster, version, hours, staff, edit, desk, zone, sound, checked, requests>>

(* An error worth repeating: rolled back, the locks given up, and from the start again
   with the same list, MaxTries times in all. *)
Again(t) == IF t.tries < MaxTries
            THEN [t EXCEPT !.pc = "list", !.tries = @ + 1, !.body = EmptyBody, !.busy = {},
                           !.stale = FALSE, !.raced = FALSE]
            ELSE IdleTx

(* The row's lock: a row that was updated since the snapshot fails the transaction. *)
Acquire(p) ==
  LET t == tx[p]
  IN /\ t.pc = "wait"
     /\ Unheld(t.scope)
     /\ tx' = [tx EXCEPT ![p] =
                 IF t.stale THEN Again(t)
                 ELSE IF Admits(t.kind, t.scope) /\ (t.kind = "rebuild" => row[t.scope].seq = t.seq)
                      THEN [t EXCEPT !.pc = "hold"] ELSE IdleTx]
     /\ UNCHANGED <<row, roster, version, hours, staff, edit, desk, zone, sound, checked, requests>>

(* The transaction ends: undecided weekends, an error, a lost connection; or a deadlock
   or a second version of the same number, counted as a request, and it is repeated. *)
Refuse(p) ==
  /\ tx[p].pc \in {"wait", "hold"}
  /\ \/ tx' = [tx EXCEPT ![p] = IdleTx] /\ UNCHANGED requests
     \/ tx' = [tx EXCEPT ![p] = Again(tx[p])] /\ Asked
  /\ UNCHANGED <<row, roster, version, hours, staff, edit, desk, zone, sound, checked>>

(* The end of a transaction that writes the row: the others see it. *)
Leave(p) == tx' = Updated([tx EXCEPT ![p] = IdleTx], {tx[p].scope})

(* The same hours are no new version: numbers of versions are left out. *)
Materialize(s, body) == version' = [version EXCEPT ![s] = body]

(* The locks held are those of the whole roster, the roster is still that of the
   snapshot and the hours have not been recalculated since. *)
Covers(t, body) == /\ DOMAIN body \subseteq t.list
                   /\ roster'[t.scope] = DOMAIN body
                   /\ ~t.raced

\* mutant: days approved elsewhere are not looked for
ConflictsIgnored(t) == {}

(* findApprovedDayConflicts, in the snapshot. *)
Conflicts(t) == {e \in DOMAIN t.body : t.body[e] > 0} \cap t.busy

(* A later approval of an employee that this one has locked sees this one. *)
Compared(t) == [checked EXCEPT ![t.scope] = DOMAIN t.body \subseteq t.list]
(* A version that is replaced without being compared. *)
Uncompared(t) == [checked EXCEPT ![t.scope] = @ /\ version' = version]

(* changeApprovalReviewState to rejected or returned *)
Review(p) ==
  LET t == tx[p]
  IN /\ t.pc = "hold"
     /\ t.kind \in {"reject", "return"}
     /\ row' = [row EXCEPT ![t.scope].status = IF t.kind = "reject" THEN "rejected" ELSE "returned"]
     /\ Leave(p)
     /\ UNCHANGED <<roster, version, hours, staff, edit, desk, zone, sound, checked, requests>>

(* Approval by personnel, or at the closing of the month, where it closes the
   timesheet as well.  Days that another approved timesheet has undo it all. *)
Approve(p) ==
  LET t == tx[p]
  IN /\ t.pc = "hold"
     /\ t.kind \in {"approve", "monthApprove"}
     /\ t.body # EmptyBody
     /\ Conflicts(t) = {}
     /\ row' = [row EXCEPT ![t.scope].status = "approved", ![t.scope].open = FALSE, ![t.scope].dirty = FALSE]
     /\ Materialize(t.scope, t.body)
     /\ UNCHANGED roster
     /\ sound' = [sound EXCEPT ![t.scope] = Covers(t, t.body)]
     /\ checked' = Compared(t)
     /\ Leave(p)
     /\ UNCHANGED <<hours, staff, edit, desk, zone, requests>>

(* forceApprove: the staff is the roster, less those whose days are approved elsewhere. *)
ForceApprove(p) ==
  LET t == tx[p]
      body == [e \in DOMAIN t.body \ Conflicts(t) |-> t.body[e]]
  IN /\ t.pc = "hold"
     /\ t.kind = "force"
     /\ body # EmptyBody
     /\ row' = [row EXCEPT ![t.scope].status = "approved", ![t.scope].open = FALSE, ![t.scope].dirty = FALSE]
     /\ roster' = [roster EXCEPT ![t.scope] = DOMAIN body]
     /\ Materialize(t.scope, body)
     /\ sound' = [sound EXCEPT ![t.scope] = Covers(t, body)]
     /\ checked' = Compared(t)
     /\ Leave(p)
     /\ UNCHANGED <<hours, staff, edit, desk, zone, requests>>

(* closeApprovalPeriod and relockApproved: conflicts are not looked for. *)
Close(p) ==
  LET t == tx[p]
      approved == row[t.scope].status = "approved"
  IN /\ t.pc = "hold"
     /\ t.kind \in {"close", "relock"}
     /\ approved => t.body # EmptyBody
     /\ row' = [row EXCEPT ![t.scope].open = FALSE, ![t.scope].dirty = @ /\ ~approved]
     /\ IF approved THEN Materialize(t.scope, t.body) ELSE UNCHANGED version
     /\ UNCHANGED roster
     /\ sound' = [sound EXCEPT ![t.scope] = Covers(t, t.body)]
     /\ checked' = Uncompared(t)
     /\ Leave(p)
     /\ UNCHANGED <<hours, staff, edit, desk, zone, requests>>

(* rebuildOne *)
Rebuild(p) ==
  LET t == tx[p]
  IN /\ t.pc = "hold"
     /\ t.kind = "rebuild"
     /\ t.body # EmptyBody
     /\ row' = [row EXCEPT ![t.scope].dirty = FALSE]
     /\ Materialize(t.scope, t.body)
     /\ UNCHANGED roster
     /\ sound' = [sound EXCEPT ![t.scope] = Covers(t, t.body)]
     /\ checked' = Uncompared(t)
     /\ Leave(p)
     /\ UNCHANGED <<hours, staff, edit, desk, zone, requests>>

-----------------------------------------------------------------------------
(* Recalculation after a change of an access zone: the hours of whoever used it
   change without a lock, then the closed approved timesheets are looked up and
   marked for the worker. *)

Recalculate(e) ==
  /\ zone.pc = "idle"
  /\ Asked
  /\ hours' = [hours EXCEPT ![e] = 1 - @]
  /\ zone' = [pc |-> "select", emp |-> e, rows |-> {}]
  /\ tx' = [q \in Procs |-> IF tx[q].pc \in {"wait", "hold"} /\ e \in DOMAIN tx[q].body
                            THEN [tx[q] EXCEPT !.raced = TRUE] ELSE tx[q]]
  /\ UNCHANGED <<row, roster, version, staff, edit, desk, sound, checked>>

SelectMarked ==
  /\ zone.pc = "select"
  /\ zone' = [zone EXCEPT !.pc = "mark",
                          !.rows = {s \in Scopes : row[s].status = "approved" /\ ~row[s].open /\ zone.emp \in roster[s]}]
  /\ UNCHANGED <<row, roster, version, hours, staff, edit, tx, desk, sound, checked, requests>>

(* markVersionDirtyForOperatorRebuild *)
MarkDirty ==
  LET S == {s \in zone.rows : row[s].status = "approved" /\ ~row[s].open}
  IN /\ zone.pc = "mark"
     /\ \A s \in S : Unheld(s)
     /\ row' = [s \in Scopes |-> IF s \in S THEN [row[s] EXCEPT !.dirty = TRUE, !.seq = @ + 1] ELSE row[s]]
     /\ tx' = Updated(tx, S)
     /\ zone' = IdleZone
     /\ UNCHANGED <<roster, version, hours, staff, edit, desk, sound, checked, requests>>

-----------------------------------------------------------------------------
Init ==
  /\ row = [s \in Scopes |-> [status |-> "draft", open |-> FALSE, dirty |-> FALSE, seq |-> 0]]
  /\ roster = [s \in Scopes |-> {}]
  /\ version = [s \in Scopes |-> EmptyBody]
  /\ hours \in {h \in [Emps -> Hours] : \A e \in Emps \ Corrected : h[e] = 1}
  /\ staff \in {S \in SUBSET Emps : Emps \ Reports \subseteq S}
  /\ edit = [e \in Emps |-> None]
  /\ tx = [p \in Procs |-> IdleTx]
  /\ desk = [m \in Managers |-> IdleDesk]
  /\ zone = IdleZone
  /\ sound = [s \in Scopes |-> TRUE]
  /\ checked = [s \in Scopes |-> TRUE]
  /\ requests = 0

Run(p) == Review(p) \/ Approve(p) \/ ForceApprove(p) \/ Close(p) \/ Rebuild(p)

Next ==
  \/ \E e \in Emps : Assign(e)
  \/ \E e \in Corrected : BeginEdit(e) \/ CommitEdit(e) \/ Recalculate(e)
  \/ \E m \in Managers : \/ \E s \in Scopes : ReadForSubmit(m, s)
                         \/ Submit(m) \/ Resubmit(m) \/ SelfRead(m) \/ SelfWrite(m)
  \/ \E s \in Scopes : Recall(s) \/ OpenPeriod(s)
  \/ \E p \in Procs : \/ \E kind \in Kinds, s \in Scopes : Start(p, kind, s)
                      \/ Begin(p) \/ Acquire(p) \/ Refuse(p) \/ Run(p)
  \/ SelectMarked
  \/ MarkDirty

Spec == Init /\ [][Next]_vars

-----------------------------------------------------------------------------
TxTypes == [pc : {"idle", "list", "wait", "hold"}, kind : Kinds \cup {None}, scope : Scopes \cup {None},
            list : SUBSET Emps, seq : Nat, tries : Nat, body : Bodies, busy : SUBSET Emps,
            stale : BOOLEAN, raced : BOOLEAN]
DeskTypes == [pc : {"idle", "submit", "self", "write"}, scope : Scopes \cup {None},
              seen : Statuses \cup {None}, ids : SUBSET Emps]
ZoneTypes == [pc : {"idle", "select", "mark"}, emp : Emps \cup {None}, rows : SUBSET Scopes]

(* The types, and that the correction mode belongs to a timesheet that is
   submitted or approved: a review, a recall or a new submission ends it. *)
TypeOK ==
  /\ row \in [Scopes -> [status : Statuses, open : BOOLEAN, dirty : BOOLEAN, seq : Nat]]
  /\ roster \in [Scopes -> SUBSET Emps]
  /\ version \in [Scopes -> Bodies]
  /\ hours \in [Emps -> Hours]
  /\ staff \subseteq Emps
  /\ edit \in [Emps -> Hours \cup {None}]
  /\ tx \in [Procs -> TxTypes]
  /\ desk \in [Managers -> DeskTypes]
  /\ zone \in ZoneTypes
  /\ sound \in [Scopes -> BOOLEAN]
  /\ checked \in [Scopes -> BOOLEAN]
  /\ requests \in Nat
  /\ \A s \in Scopes : row[s].open => row[s].status \in {"submitted", "approved"}

(* What 1C is given of an approved and closed timesheet are the present hours of
   its present roster (public-timesheets), or it is marked for a rebuild, or the
   recalculation that changed them is still on its way to mark it: no correction
   slips between the snapshot and the lock, however reviews, closings, rebuilds
   and submissions interleave.  Only the cases that no lock covers are excepted:
   the list of locks was outdated when they were granted, the roster has been
   rewritten, the zone was recalculated while the version was being built. *)
ClosedIsExact ==
  \A s \in Scopes :
    /\ row[s].status = "approved" /\ ~row[s].open /\ ~row[s].dirty
    /\ sound[s]
    /\ zone.pc = "idle" \/ zone.emp \notin roster[s]
    => version[s] = [e \in roster[s] |-> hours[e]]

(* "One employee's day is in no more than one approved timesheet": two approvals
   of different timesheets at the same moment do not both miss the other.
   Versions rebuilt or closed again later are not compared by the code. *)
CountedOnce == (\A s \in Scopes : checked[s]) => Counted("department") \cap Counted("personal") = {}

(* A correction that began before a timesheet was closed does not land after it,
   unless the timesheet was closed without the lock of its employee. *)
FrozenWhileClosed ==
  [][\A e \in Emps : CommitEdit(e) => \A s \in Scopes : Closed(s) /\ e \in roster[s] => ~sound[s]]_vars
=============================================================================
