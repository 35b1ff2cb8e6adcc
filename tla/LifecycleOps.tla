---------------------------- MODULE LifecycleOps ----------------------------
(***************************************************************************)
(* The durable operations of one employee's life cycle: dismissal,         *)
(* reinstatement ("rehire") and repair of the access-control card.         *)
(*                                                                         *)
(* PostgreSQL and Sigur share no transaction, so each change is a row of   *)
(* employee_lifecycle_operations whose steps are idempotent.  Whoever      *)
(* executes it (a request, the scheduler, the Sigur sync) holds a lease,   *)
(* calls Sigur, records the step under the lease, and finally applies the  *)
(* change by a compare-and-set on employees.lifecycle_revision.            *)
(*                                                                         *)
(* Source: services/employee-lifecycle-operations.service.ts, the fire,    *)
(* cancelDismissal and rehire handlers and dismissal-scheduler.service.ts. *)
(* One employee is modelled: no operation touches the row of another.      *)
(***************************************************************************)
EXTENDS Naturals, FiniteSets

CONSTANTS
  Runs,         \* executions of runOperation that may be under way at once
  Schedulers,   \* server processes running the dismissal scheduler
  WorkDepts,    \* working departments, the same ones in the portal and Sigur
  Archive,      \* the archive department ("dismissed")
  Gone,         \* "place" of a card that was deleted in Sigur
  OpIds,        \* operation rows that may be opened: the bound on operations
  Nobody,       \* no lease owner, no claimant
  Portal,       \* the claimant that stands for a request or the sync
  MaxRevision,  \* bound on lifecycle_revision
  MaxFaults,    \* bound on crashes, failed calls and lost answers
  Overrun,      \* TRUE: a live run may outlast its 30-minute lease or claim
  Stall,        \* TRUE: a whole reinstatement may fit between the scheduler's
                \*   claim of an employee and its opening of the dismissal
  ManualSql,    \* TRUE: an administrator may change employees by hand
  CardDeletes   \* TRUE: the card may be deleted in Sigur at any moment

ASSUME ConstantsAssumption ==
  /\ MaxRevision \in Nat /\ MaxFaults \in Nat
  /\ {Overrun, Stall, ManualSql, CardDeletes} \subseteq BOOLEAN
  /\ Archive \notin WorkDepts /\ Gone \notin WorkDepts /\ Gone # Archive
  /\ Nobody \notin Runs /\ Nobody \notin Schedulers \cup OpIds
  /\ Portal \notin Schedulers /\ Portal # Nobody

VARIABLES
  emp,     \* the row of employees
  ops,     \* rows of employee_lifecycle_operations
  events,  \* operation_id values of employee_dismissal_events
  card,    \* the card in Sigur
  run,     \* what each execution holds in memory
  sched,   \* where each scheduler process is between claim and open
  faults   \* faults injected so far

vars == <<emp, ops, events, card, run, sched, faults>>

Depts == WorkDepts \cup {Archive}
Claimants == Schedulers \cup {Portal}

(***************************************************************************)
(* The Sigur steps an operation needs and those it has done.               *)
(***************************************************************************)
Flags == [moveReq: BOOLEAN, accessReq: BOOLEAN,
          moved: BOOLEAN, toggled: BOOLEAN, detached: BOOLEAN]

Needs(move, access) ==
  [moveReq |-> move, accessReq |-> access,
   moved |-> FALSE, toggled |-> FALSE, detached |-> FALSE]

Kinds == {"dismiss", "rehire", "repair_sigur"}

Operations ==
  [kind: Kinds, status: {"absent", "pending", "applied", "cancelled"},
   base: Nat, target: Depts, flags: Flags,
   owner: Runs \cup {Nobody}, leased: BOOLEAN, snapshot: SUBSET Depts]

NoOperation ==
  [kind |-> "dismiss", status |-> "absent", base |-> 0, target |-> Archive,
   flags |-> Needs(FALSE, FALSE), owner |-> Nobody, leased |-> FALSE,
   snapshot |-> {}]

Employees ==
  [status: {"active", "fired"}, revision: Nat, dept: Depts, linked: BOOLEAN,
   dated: BOOLEAN, claim: Claimants \cup {Nobody}, claimStale: BOOLEAN,
   access: SUBSET Depts]

Cards == [place: Depts \cup {Gone}, blocked: BOOLEAN]

Steps == {"idle", "target", "move", "moved", "access", "toggled", "detach",
          "refresh", "dept", "grant", "probe", "apply"}

Memories == [pc: Steps, op: OpIds \cup {Nobody}, flags: Flags]
Idle == [pc |-> "idle", op |-> Nobody, flags |-> Needs(FALSE, FALSE)]

TypeOK ==
  /\ emp \in Employees
  /\ ops \in [OpIds -> Operations]
  /\ events \subseteq OpIds
  /\ card \in Cards
  /\ run \in [Runs -> Memories]
  /\ sched \in [Schedulers -> {"idle", "claimed", "loaded"}]
  /\ faults \in Nat

IsPending(o) == ops[o].status = "pending"
NoPending == \A o \in OpIds : ~IsPending(o)

\* The first step an execution has still to take, from its copy of the row.
NextStep(kind, f) ==
  CASE kind = "dismiss" ->
         IF f.moveReq /\ ~f.moved THEN "target"
         ELSE IF f.accessReq /\ ~f.toggled THEN "access" ELSE "dept"
    [] kind = "rehire" ->
         IF f.moveReq /\ ~f.moved THEN "move"
         ELSE IF f.accessReq /\ ~f.toggled THEN "access"
         ELSE IF f.moveReq \/ f.accessReq THEN "refresh" ELSE "dept"
    [] OTHER -> IF f.moved THEN "probe" ELSE "move"

Init ==
  /\ \E d \in WorkDepts, linked \in BOOLEAN, rights \in SUBSET WorkDepts :
       /\ emp = [status |-> "active", revision |-> 0, dept |-> d,
                 linked |-> linked, dated |-> FALSE, claim |-> Nobody,
                 claimStale |-> FALSE, access |-> rights \cup {d}]
       /\ card = [place |-> IF linked THEN d ELSE Gone, blocked |-> FALSE]
  /\ ops = [o \in OpIds |-> NoOperation]
  /\ events = {}
  /\ run = [x \in Runs |-> Idle]
  /\ sched = [s \in Schedulers |-> "idle"]
  /\ faults = 0

-----------------------------------------------------------------------------
(***************************************************************************)
(* Opening an operation: one transaction, with the employee row locked.    *)
(***************************************************************************)
Insert(o, kind, target, needs) ==
  /\ ops[o].status = "absent"
  /\ emp.revision < MaxRevision
  /\ ops' = [ops EXCEPT ![o] =
       [NoOperation EXCEPT !.kind = kind, !.status = "pending",
                           !.base = emp.revision, !.target = target,
                           !.flags = needs]]

\* Mutant: a claim left behind by a crash is never taken over.
ClaimFreeNever == emp.claim = Nobody
ClaimFree == emp.claim = Nobody \/ emp.claimStale

\* Mutant: the search for a pending operation is forgotten.
OpenDismissBeside(o, needs) ==
  /\ emp.status = "active" /\ ClaimFree
  /\ emp' = [emp EXCEPT !.claim = Portal, !.claimStale = FALSE, !.dated = TRUE]
  /\ Insert(o, "dismiss", Archive, needs)

\* openDismissOperation without a claim of the caller's: takes the claim too.
OpenDismissClaiming(o, needs) ==
  /\ emp.status = "active"
  /\ NoPending
  /\ ClaimFree
  /\ emp' = [emp EXCEPT !.claim = Portal, !.claimStale = FALSE, !.dated = TRUE]
  /\ Insert(o, "dismiss", Archive, needs)

\* fire(), an immediate dismissal; also a contractor's removal request.
FireNow(o) ==
  /\ OpenDismissClaiming(o, Needs(emp.linked, emp.linked))
  /\ UNCHANGED <<events, card, run, sched, faults>>

\* What the UPDATEs of the next two handlers ask of the row.
\* Mutant: without dismissal_apply_started_at IS NULL.
UnclaimedOrNot == emp.status = "active"
Unclaimed == emp.status = "active" /\ emp.claim = Nobody

\* fire() with a date ahead: nothing but the date and the revision.
FireLater ==
  /\ Unclaimed
  /\ emp.revision < MaxRevision
  /\ emp' = [emp EXCEPT !.dated = TRUE, !.revision = @ + 1]
  /\ UNCHANGED <<ops, events, card, run, sched, faults>>

CancelDismissal ==
  /\ Unclaimed /\ emp.dated
  /\ emp.revision < MaxRevision
  /\ emp' = [emp EXCEPT !.dated = FALSE, !.revision = @ + 1]
  /\ UNCHANGED <<ops, events, card, run, sched, faults>>

\* openRehireOperation: a second request for the same department opens
\* nothing, it only executes the pending row, which Acquire covers.
OpenRehire(o, d) ==
  /\ emp.status = "fired"
  /\ NoPending
  /\ Insert(o, "rehire", d, Needs(emp.linked, emp.linked))

\* rehire(), to a department that has its counterpart in Sigur.
Rehire(o, d) ==
  /\ Stall \/ \A s \in Schedulers : sched[s] = "idle"
  /\ OpenRehire(o, d)
  /\ UNCHANGED <<emp, events, card, run, sched, faults>>

\* openRepairOperation: the sync asks for the card of an active employee to
\* be put back; nothing is opened while another operation is pending.
OpenRepair(o, d) ==
  /\ emp.status = "active" /\ emp.linked
  /\ NoPending
  /\ Insert(o, "repair_sigur", d, Needs(TRUE, FALSE))
  /\ UNCHANGED <<emp, events, card, run, sched, faults>>

-----------------------------------------------------------------------------
(***************************************************************************)
(* The dismissal scheduler: claim a due employee, reload it, open.         *)
(***************************************************************************)
SchedClaim(s) ==
  /\ sched[s] = "idle"
  /\ emp.status = "active" /\ emp.dated /\ ClaimFree
  /\ emp' = [emp EXCEPT !.claim = s, !.claimStale = FALSE]
  /\ sched' = [sched EXCEPT ![s] = "claimed"]
  /\ UNCHANGED <<ops, events, card, run, faults>>

\* applyForEmployee rereads the row; releaseClaim clears only its own claim.
SchedLoad(s) ==
  LET due == emp.status = "active" /\ emp.dated
      mine == emp.status = "active" /\ emp.claim = s
  IN /\ sched[s] = "claimed"
     /\ sched' = [sched EXCEPT ![s] = IF due THEN "loaded" ELSE "idle"]
     /\ emp' = IF ~due /\ mine
               THEN [emp EXCEPT !.claim = Nobody, !.claimStale = FALSE]
               ELSE emp
     /\ UNCHANGED <<ops, events, card, run, faults>>

\* openDismissOperation with the claim already held: neither the claim nor
\* the date read before is looked at again.
SchedOpen(s, o) ==
  /\ sched[s] = "loaded"
  /\ emp.status = "active" /\ NoPending
  /\ Insert(o, "dismiss", Archive, Needs(emp.linked, emp.linked))
  /\ sched' = [sched EXCEPT ![s] = "idle"]
  /\ UNCHANGED <<emp, events, card, run, faults>>

\* The 409 of openDismissOperation: the claim is held until it expires.
SchedRefused(s) ==
  /\ sched[s] = "loaded"
  /\ emp.status # "active" \/ ~NoPending
  /\ sched' = [sched EXCEPT ![s] = "idle"]
  /\ UNCHANGED <<emp, ops, events, card, run, faults>>

-----------------------------------------------------------------------------
(***************************************************************************)
(* Leases and claims.  Their 30 minutes outlast any live run unless        *)
(* Overrun lets a slow one be overtaken.                                   *)
(***************************************************************************)
\* The end of a run. An error leaves the operation pending and its lease held
\* (recordFailure), as a crash does.
Stop(x) == run' = [run EXCEPT ![x] = Idle]
Working(x, o) == run[x].pc # "idle" /\ run[x].op = o
Holds(x) == IsPending(run[x].op) /\ ops[run[x].op].owner = x

\* Mutants: the lease is not looked at; a lease once taken is never free again.
LeaseFreeAlways(o) == o \in OpIds
LeaseFreeOnce(o) == ops[o].owner = Nobody
LeaseFree(o) == ops[o].owner = Nobody \/ ~ops[o].leased

\* acquireLease, by executeOperation or resumeExpiredOperations.
Acquire(x, o) ==
  /\ run[x].pc = "idle"
  /\ IsPending(o) /\ LeaseFree(o)
  /\ ops' = [ops EXCEPT ![o].owner = x, ![o].leased = TRUE]
  /\ run' = [run EXCEPT ![x] = [pc |-> NextStep(ops[o].kind, ops[o].flags),
                                op |-> o, flags |-> ops[o].flags]]
  /\ UNCHANGED <<emp, events, card, sched, faults>>

LeaseExpires(o) ==
  /\ IsPending(o) /\ ops[o].leased
  /\ Overrun \/ \A x \in Runs : ~Working(x, o)
  /\ ops' = [ops EXCEPT ![o].leased = FALSE]
  /\ UNCHANGED <<emp, events, card, run, sched, faults>>

ClaimExpires ==
  /\ emp.claim # Nobody /\ ~emp.claimStale
  /\ Overrun \/ /\ \A s \in Schedulers : sched[s] = "idle"
                /\ \A x \in Runs : run[x].pc = "idle"
  /\ emp' = [emp EXCEPT !.claimStale = TRUE]
  /\ UNCHANGED <<ops, events, card, run, sched, faults>>

Crash(x) ==
  /\ run[x].pc # "idle" /\ faults < MaxFaults
  /\ Stop(x)
  /\ faults' = faults + 1
  /\ UNCHANGED <<emp, ops, events, card, sched>>

SchedCrash(s) ==
  /\ sched[s] # "idle" /\ faults < MaxFaults
  /\ sched' = [sched EXCEPT ![s] = "idle"]
  /\ faults' = faults + 1
  /\ UNCHANGED <<emp, ops, events, card, run>>

-----------------------------------------------------------------------------
(***************************************************************************)
(* Executing an operation.  A call to Sigur and the row update that        *)
(* records it are two steps: the process may stop between them.            *)
(***************************************************************************)
OpOf(x) == ops[run[x].op]
KindOf(x) == OpOf(x).kind
Goto(x, step) == run' = [run EXCEPT ![x].pc = step]

\* writeStep: the columns a step sets, in the row and in the copy.
Patch(step, f) ==
  CASE step = "moved" -> [f EXCEPT !.moved = TRUE]
    [] step = "toggled" -> [f EXCEPT !.toggled = TRUE]
    [] step = "detach" -> [f EXCEPT !.detached = TRUE, !.moveReq = FALSE,
                                    !.accessReq = FALSE]
    [] OTHER -> f

\* runDismiss records the archive department before the move ("target").
WriteStep(x) ==
  LET step == run[x].pc
      copy == Patch(step, run[x].flags)
  IN /\ step \in {"target", "moved", "toggled", "detach"}
     /\ IF Holds(x)
        THEN /\ ops' = [ops EXCEPT ![run[x].op].flags = Patch(step, @)]
             /\ run' = [run EXCEPT ![x].flags = copy,
                          ![x].pc = IF step = "target" THEN "move"
                                    ELSE NextStep(KindOf(x), copy)]
        ELSE Stop(x) /\ UNCHANGED ops
     /\ UNCHANGED <<emp, events, card, sched, faults>>

\* Mutant: the access is flipped, not set, so a call made again undoes itself.
CallFlips(x) ==
  IF run[x].pc = "move" THEN [card EXCEPT !.place = OpOf(x).target]
                        ELSE [card EXCEPT !.blocked = ~card.blocked]

\* The effect of the call a run is about to make on an existing card.
CallEffect(x) ==
  IF run[x].pc = "move" THEN [card EXCEPT !.place = OpOf(x).target]
                        ELSE [card EXCEPT !.blocked = KindOf(x) = "dismiss"]

Calling(x) == run[x].pc \in {"move", "access"}

SigurCall(x) ==
  /\ Calling(x) /\ card.place # Gone
  /\ card' = CallEffect(x)
  /\ Goto(x, IF run[x].pc = "move" THEN "moved" ELSE "toggled")
  /\ UNCHANGED <<emp, ops, events, sched, faults>>

\* Mutant: the error is swallowed and the step recorded as done.
SigurCallFailsUnseen(x) ==
  /\ Calling(x) /\ faults < MaxFaults
  /\ Goto(x, IF run[x].pc = "move" THEN "moved" ELSE "toggled")
  /\ faults' = faults + 1
  /\ UNCHANGED <<emp, ops, events, card, sched>>

\* Timeout or 5xx; the change may have been made all the same.
SigurCallFails(x) ==
  /\ Calling(x) /\ faults < MaxFaults
  /\ card' \in IF card.place = Gone THEN {card} ELSE {card, CallEffect(x)}
  /\ Stop(x)
  /\ faults' = faults + 1
  /\ UNCHANGED <<emp, ops, events, sched>>

\* 404: a dismissal detaches once a probe confirms the deletion, a rehire
\* detaches on the move only; a repair and the unblocking of a rehire fail.
DetachesOn404(x) ==
  KindOf(x) = "dismiss" \/ (KindOf(x) = "rehire" /\ run[x].pc = "move")

SigurCallNotFound(x) ==
  /\ Calling(x) /\ card.place = Gone
  /\ IF DetachesOn404(x) THEN Goto(x, "detach") ELSE Stop(x)
  /\ UNCHANGED <<emp, ops, events, card, sched, faults>>

\* Mutant: the card is taken to be there.
RefreshUnchecked(x) ==
  /\ run[x].pc = "refresh"
  /\ emp' = [emp EXCEPT !.dept = card.place]
  /\ Goto(x, "dept")
  /\ UNCHANGED <<ops, events, card, sched, faults>>

\* syncLinkedEmployeeFromSigur: the portal's department follows the card.
Refresh(x) ==
  /\ run[x].pc = "refresh"
  /\ IF card.place = Gone
     THEN Stop(x) /\ UNCHANGED emp
     ELSE /\ emp' = [emp EXCEPT !.dept = card.place]
          /\ Goto(x, "dept")
  /\ UNCHANGED <<ops, events, card, sched, faults>>

\* changeDepartment: no lease check. The row keeps its department when the
\* move takes effect later or the assignment exists already.
ChangeDept(x) ==
  /\ run[x].pc = "dept"
  /\ \E d \in {emp.dept, OpOf(x).target} : emp' = [emp EXCEPT !.dept = d]
  /\ Goto(x, IF KindOf(x) = "rehire" THEN "grant" ELSE "apply")
  /\ UNCHANGED <<ops, events, card, sched, faults>>

\* upsertTechnicalDepartmentAccess of a rehire: no lease check either.
GrantAccess(x) ==
  /\ run[x].pc = "grant"
  /\ emp' = [emp EXCEPT !.access = @ \cup {OpOf(x).target}]
  /\ Goto(x, "apply")
  /\ UNCHANGED <<ops, events, card, sched, faults>>

\* probeSigurCard of a repair: anything but a working department is an error.
Probe(x) ==
  /\ run[x].pc = "probe"
  /\ IF card.place \in WorkDepts THEN Goto(x, "apply") ELSE Stop(x)
  /\ UNCHANGED <<emp, ops, events, card, sched, faults>>

-----------------------------------------------------------------------------
(***************************************************************************)
(* The final transaction.                                                  *)
(***************************************************************************)
CasHolds(o) ==
  /\ emp.status = IF ops[o].kind = "rehire" THEN "fired" ELSE "active"
  /\ emp.revision = ops[o].base

\* findLastAppliedDismissOperationId and restoreFromSnapshot.
AppliedDismissals == {o \in OpIds : ops[o].kind = "dismiss" /\ ops[o].status = "applied"}
IsLastDismissal(o) ==
  o \in AppliedDismissals /\ \A p \in AppliedDismissals : ops[p].base <= ops[o].base
RestoredRights == UNION {ops[o].snapshot : o \in {p \in OpIds : IsLastDismissal(p)}}

\* Mutant: the rights stay where they are.
RightsLost == emp.access
RightsRestored == emp.access \cup RestoredRights

\* Mutant: lifecycle_revision + 1 is forgotten.
Uncounted == emp
Counted == [emp EXCEPT !.revision = @ + 1]

EmployeeAfter(x) ==
  CASE KindOf(x) = "dismiss" ->
         [Counted EXCEPT !.status = "fired", !.dept = OpOf(x).target,
                         !.dated = TRUE, !.claim = Nobody,
                         !.claimStale = FALSE, !.access = {}]
    [] KindOf(x) = "rehire" ->
         [Counted EXCEPT !.status = "active", !.dept = OpOf(x).target,
                         !.linked = @ /\ ~run[x].flags.detached,
                         !.dated = FALSE, !.claim = Nobody,
                         !.claimStale = FALSE, !.access = RightsRestored]
    [] OTHER -> Counted

\* revokeDepartmentAccessWithSnapshot and its two siblings: what a dismissal
\* takes away it writes down.
Revoked(x) == IF KindOf(x) = "dismiss" THEN emp.access ELSE {}

\* The compare-and-set succeeds and markApplied finds the lease still ours.
Apply(x) ==
  LET o == run[x].op
  IN /\ run[x].pc = "apply"
     /\ CasHolds(o) /\ Holds(x) /\ o \notin events
     /\ emp' = EmployeeAfter(x)
     /\ ops' = [ops EXCEPT ![o].status = "applied", ![o].owner = Nobody,
                           ![o].snapshot = Revoked(x)]
     /\ events' = IF KindOf(x) = "repair_sigur" THEN events ELSE events \cup {o}
     /\ Stop(x)
     /\ UNCHANGED <<card, sched, faults>>

\* Everything else rolls the transaction back: the lease is lost, another run
\* has written the event, or the revision moved on. In the last case the
\* UPDATE of resolveCasConflict is rolled back with the rest, because the
\* caller throws inside the same withTransaction. Only a repair, which
\* returns instead of throwing, commits its own cancellation.
ApplyRefused(x) ==
  LET o == run[x].op
      cancels == KindOf(x) = "repair_sigur" /\ ~CasHolds(o) /\ Holds(x)
  IN /\ run[x].pc = "apply"
     /\ ~(CasHolds(o) /\ Holds(x) /\ o \notin events)
     /\ ops' = IF cancels
               THEN [ops EXCEPT ![o].status = "cancelled", ![o].owner = Nobody]
               ELSE ops
     /\ Stop(x)
     /\ UNCHANGED <<emp, events, card, sched, faults>>

-----------------------------------------------------------------------------
(***************************************************************************)
(* The environment.                                                        *)
(***************************************************************************)
\* A support engineer reverses the status by hand and counts the transition.
EditByHand ==
  /\ ManualSql /\ faults < MaxFaults /\ emp.revision < MaxRevision
  /\ emp' = [emp EXCEPT !.status = IF @ = "fired" THEN "active" ELSE "fired",
                        !.revision = @ + 1]
  /\ faults' = faults + 1
  /\ UNCHANGED <<ops, events, card, run, sched>>

\* A Sigur operator deletes the card.
DeleteCard ==
  /\ CardDeletes /\ card.place # Gone
  /\ card' = [card EXCEPT !.place = Gone]
  /\ UNCHANGED <<emp, ops, events, run, sched, faults>>

Requests ==
  \/ FireLater \/ CancelDismissal
  \/ \E o \in OpIds : FireNow(o)
  \/ \E o \in OpIds, d \in WorkDepts : Rehire(o, d) \/ OpenRepair(o, d)

SchedulerStep(s) ==
  \/ SchedClaim(s) \/ SchedLoad(s) \/ SchedRefused(s)
  \/ \E o \in OpIds : SchedOpen(s, o)

\* What a run does next, whatever Sigur answers.
RunStep(x) ==
  \/ WriteStep(x) \/ SigurCall(x) \/ SigurCallFails(x) \/ SigurCallNotFound(x)
  \/ Refresh(x) \/ ChangeDept(x) \/ GrantAccess(x) \/ Probe(x)
  \/ Apply(x) \/ ApplyRefused(x)

Resume(o) == \E x \in Runs : Acquire(x, o)

Next ==
  \/ Requests
  \/ \E s \in Schedulers : SchedulerStep(s) \/ SchedCrash(s)
  \/ \E x \in Runs : RunStep(x) \/ Crash(x)
  \/ \E o \in OpIds : Resume(o) \/ LeaseExpires(o)
  \/ ClaimExpires
  \/ EditByHand
  \/ DeleteCard

Spec == Init /\ [][Next]_vars

\* The tick comes every five minutes, leases and claims run out, a run that
\* is not stopped goes on. Requests, crashes and deletions are not promised.
Fairness ==
  /\ \A x \in Runs : WF_vars(RunStep(x))
  /\ \A s \in Schedulers : WF_vars(SchedulerStep(s))
  /\ \A o \in OpIds : WF_vars(Resume(o)) /\ WF_vars(LeaseExpires(o))
  /\ WF_vars(ClaimExpires)

FairSpec == Spec /\ Fairness

-----------------------------------------------------------------------------
(***************************************************************************)
(* What the operations must guarantee.                                     *)
(***************************************************************************)
\* A pending dismissal or reinstatement owns the employee: nothing the portal
\* does meanwhile changes the status or the revision it was opened at, so its
\* compare-and-set can only succeed. A repair only keeps the employee active.
\* (The claim of openDismissOperation and the 409s of the other handlers.)
PendingOwnsState ==
  \A o \in OpIds : IsPending(o) =>
    CASE ops[o].kind = "dismiss" -> CasHolds(o) /\ emp.claim # Nobody
      [] ops[o].kind = "rehire" -> CasHolds(o)
      [] OTHER -> emp.status = "active" /\ ops[o].base <= emp.revision

\* "One operation is executed by exactly one executor at a time" (migration
\* 261), crashes, retries of the button and the scheduler included.
OneExecutor ==
  \A o \in OpIds : \A x, y \in Runs :
    IsPending(o) /\ Working(x, o) /\ Working(y, o) => x = y

\* No revision is used twice: two changes of status recorded in the history
\* were decided on different states of the employee, even when runs overtake
\* each other and the row is edited by hand (the one pending row and the count
\* in the final transaction).
OneChangePerRevision ==
  \A o, p \in events : o # p => ops[o].base # ops[p].base

\* Nobody is dismissed twice without a reinstatement in between, nor the
\* other way round: applied changes of status alternate along the revisions.
ChangesAlternate ==
  \A o, p \in events :
    o # p /\ ops[o].kind = ops[p].kind /\ ops[o].base <= ops[p].base =>
      \E q \in events : /\ ops[q].kind # ops[o].kind
                        /\ ops[o].base < ops[q].base /\ ops[q].base < ops[p].base

\* With nothing pending the card agrees with the portal: a dismissed
\* employee's card lies in the archive and is blocked, an active employee's
\* card is in a working department and opens doors.
CardFollowsStatus ==
  NoPending /\ emp.linked /\ card.place # Gone =>
    IF emp.status = "fired" THEN card.place = Archive /\ card.blocked
                            ELSE card.place \in WorkDepts /\ ~card.blocked

\* With nothing pending a dismissed employee has no department rights left and
\* sits in the archive; a reinstated one has every right the last dismissal
\* took away (the snapshot written and read in the final transactions).
RightsFollowStatus ==
  NoPending =>
    IF emp.status = "fired" THEN emp.access = {} /\ emp.dept = Archive
                            ELSE emp.dept \in WorkDepts /\ RestoredRights \subseteq emp.access

\* What is pending decides the abstract state, otherwise the status does.
AbstractState ==
  IF NoPending THEN emp.status
  ELSE LET o == CHOOSE p \in OpIds : IsPending(p)
       IN CASE ops[o].kind = "dismiss" -> "dismissing"
            [] ops[o].kind = "rehire" -> "rehiring"
            [] OTHER -> "repairing"

Promise == INSTANCE Employment WITH state <- AbstractState, revision <- emp.revision

\* The operations implement Employment: a dismissal or a reinstatement once
\* opened is never lost, cancelled or overtaken, it only ends by being applied.
ImplementsEmployment == Promise!Spec

\* A blocked card is only ever unblocked for a reinstatement that is pending.
UnblockedOnlyToRehire ==
  [][card.blocked /\ ~card'.blocked =>
       \E o \in OpIds : IsPending(o) /\ ops[o].kind = "rehire"]_vars

\* Every operation is brought to an end: a crash at any step is taken over
\* once the lease has run out (resumeExpiredOperations in each tick).
PendingEnds == \A o \in OpIds : IsPending(o) ~> ~IsPending(o)

\* A scheduled dismissal is carried out or withdrawn, unless the rows or the
\* revisions of the instance are used up.
RoomLeft == emp.revision < MaxRevision /\ \E o \in OpIds : ops[o].status = "absent"
ScheduledEnds == (emp.dated /\ emp.status = "active") ~>
                   (emp.status = "fired" \/ ~emp.dated \/ ~RoomLeft)

\* "Otherwise the state was changed past the operations: cancelled + Sentry"
\* (resolveCasConflict): an operation refused by the compare-and-set while its
\* run holds the lease ends cancelled.
ConflictCancels ==
  [][\A x \in Runs :
       LET o == run[x].op
       IN ApplyRefused(x) /\ Holds(x) /\ ~CasHolds(o) /\ o \notin events =>
            ops'[o].status = "cancelled"]_vars
=============================================================================
