------------------------------ MODULE SigurSync ------------------------------
(***************************************************************************)
(* The employee phase of the Sigur synchronisation beside the life-cycle   *)
(* operations: dismissal by the archive folder, dismissal of those missing *)
(* from Sigur (two strikes), transfers, and the move of dismissed          *)
(* employees' cards to the archive with its compensation.                  *)
(*                                                                         *)
(* Source: services/sigur-sync-employees.service.ts (syncEmployees), seen  *)
(* from one employee.  One synchronisation runs at a time; it decides on a *)
(* paged export and on a row read at its start, both stale when it writes. *)
(***************************************************************************)
EXTENDS LifecycleOps

CONSTANTS
  OperatorMoves,  \* TRUE: Sigur's operators move the card to another working
                  \*   department or to the archive, never out of the archive
  SyncCrashes     \* TRUE: the process may stop in the middle of a sync

ASSUME SyncAssumption == {OperatorMoves, SyncCrashes} \subseteq BOOLEAN

VARIABLES
  sync,       \* what the running synchronisation holds in memory
  mark,       \* the row of employee_sigur_absence_marks, or NoMark
  graceOver,  \* reinstatements applied more than REHIRE_GRACE_MINUTES ago
  slipped     \* history: a move to the archive that no check follows

syncVars == <<sync, mark, graceOver, slipped>>
allVars == <<vars, syncVars>>

\* aged: the second strike is due (AUTO_FIRE_CONFIRM_DELAY_MS has passed).
Marks == [revision: Nat, aged: BOOLEAN]
NoMark == [revision |-> MaxRevision + 1, aged |-> FALSE]

SyncSteps == {"idle", "start", "guard", "probe", "fire", "transfer", "cards",
              "move", "check", "reset", "repair", "absent", "confirm", "autofire"}

NoSync == [pc |-> "idle", seen |-> Gone, row |-> [dept |-> Archive, fireable |-> FALSE],
           revision |-> 0, op |-> Nobody, dept |-> Archive, confirmed |-> FALSE]

SyncMemories ==
  [pc: SyncSteps, seen: Depts \cup {Gone}, row: [dept: Depts, fireable: BOOLEAN],
   revision: Nat, op: OpIds \cup {Nobody}, dept: Depts, confirmed: BOOLEAN]

SyncTypeOK ==
  /\ TypeOK
  /\ sync \in SyncMemories
  /\ mark \in Marks
  /\ graceOver \subseteq OpIds
  /\ slipped \in BOOLEAN

SyncInit ==
  Init /\ sync = NoSync /\ mark = NoMark /\ graceOver = {} /\ slipped = FALSE

End == sync' = NoSync
Step(step) == sync' = [sync EXCEPT !.pc = step]

\* isLifecycleProtected: something pending, or a recent reinstatement.
Applied(kind) == {o \in OpIds : ops[o].kind = kind /\ ops[o].status = "applied"}
Protected == ~NoPending \/ Applied("rehire") \ graceOver # {}

-----------------------------------------------------------------------------
(***************************************************************************)
(* The export of the cards and the rows loaded with it. Pagination may     *)
(* lose a card that exists; that is a fault.                               *)
(***************************************************************************)
SyncStart(lost) ==
  /\ sync.pc = "idle" /\ emp.linked
  /\ lost => faults < MaxFaults /\ card.place # Gone
  /\ sync' = [NoSync EXCEPT
       !.pc = "start",
       !.seen = IF lost THEN Gone ELSE card.place,
       !.row = [dept |-> emp.dept, fireable |-> emp.status = "active" /\ ~emp.dated]]
  /\ faults' = IF lost THEN faults + 1 ELSE faults
  /\ UNCHANGED <<emp, ops, events, card, run, sched, mark, graceOver, slipped>>

\* Mutant: a card missing from the export is taken for one seen elsewhere.
ExportedOrNot == TRUE
Exported == sync.seen # Gone

\* openDismissOperation with expectedRevision. Mutant: without it.
ExpectedNot == TRUE
Expected == emp.revision = sync.revision

\* decideDeptSyncAction on the row just reread: whether the employee is to
\* follow the card at all, and whether that is a dismissal.
ToArchive == sync.seen = Archive
FollowsCard ==
  /\ emp.status = "active" /\ emp.dept # sync.seen
  /\ ToArchive => ~emp.dated /\ emp.claim = Nobody

\* The update phase rereads the row of a card seen elsewhere than expected.
\* The absence mark of an employee seen in Sigur goes, unless the safety
\* thresholds have called the phase of the missing off.
SyncRow ==
  LET applies == sync.seen # sync.row.dept /\ FollowsCard
  IN /\ sync.pc = "start" /\ Exported
     /\ sync' = [sync EXCEPT !.pc = IF ~applies THEN "cards"
                                    ELSE IF ToArchive THEN "guard" ELSE "transfer",
                             !.revision = emp.revision, !.dept = emp.dept]
     /\ mark' \in {mark, NoMark}
     /\ UNCHANGED <<vars, graceOver, slipped>>

\* changeDepartment and upsertTechnicalDepartmentAccess, on the row read in
\* SyncRow; nothing is compared again. An assignment to come is left alone
\* (defer, or a skip of changeDepartment), one in force only corrects the row
\* (snapshot-only); a manual right to the old department stays.
SyncTransfer ==
  /\ sync.pc = "transfer"
  /\ \/ UNCHANGED emp
     \/ \E rights \in {emp.access, emp.access \cup {sync.seen},
                       (emp.access \ {sync.dept}) \cup {sync.seen}} :
          emp' = [emp EXCEPT !.dept = sync.seen, !.access = rights]
  /\ Step("cards")
  /\ UNCHANGED <<ops, events, card, run, sched, faults, mark, graceOver, slipped>>

(***************************************************************************)
(* fireByArchiveFolder: guards, a probe of the card itself, and an opening *)
(* that expects the revision of the row reread by SyncRow.                 *)
(***************************************************************************)
ArchiveGuard ==
  /\ sync.pc = "guard"
  /\ IF Protected THEN Step("cards") ELSE Step("probe")
  /\ UNCHANGED <<vars, mark, graceOver, slipped>>

ArchiveProbe ==
  /\ sync.pc = "probe"
  /\ IF card.place = Archive THEN Step("fire") ELSE Step("cards")
  /\ UNCHANGED <<vars, mark, graceOver, slipped>>

ArchiveFire(o) ==
  /\ sync.pc = "fire" /\ Expected
  /\ OpenDismissClaiming(o, Needs(FALSE, emp.linked))
  /\ Step("cards")
  /\ UNCHANGED <<events, card, run, sched, faults, mark, graceOver, slipped>>

\* The 409s of openDismissOperation.
MayOpen == emp.status = "active" /\ Expected /\ NoPending /\ ClaimFree

FireRefused ==
  /\ sync.pc \in {"fire", "autofire"} /\ ~MayOpen
  /\ IF sync.pc = "fire" THEN Step("cards") ELSE End
  /\ UNCHANGED <<vars, mark, graceOver, slipped>>

-----------------------------------------------------------------------------
(***************************************************************************)
(* Auto-fire: a card missing from the export is probed; the first 404 sets *)
(* a mark, a later sync that finds the mark at the same revision dismisses.*)
(***************************************************************************)
\* The second strike. Mutant: the first one is enough.
ConfirmedAtOnce == TRUE
Confirmed == mark.revision = emp.revision /\ mark.aged

AbsentGuard ==
  LET candidate == sync.row.fireable
  IN /\ sync.pc = "start" /\ ~Exported
     /\ sync' = IF candidate /\ ~Protected
                THEN [sync EXCEPT !.pc = "absent", !.revision = emp.revision,
                        !.confirmed = Confirmed]
                ELSE NoSync
     /\ mark' = IF candidate THEN mark ELSE NoMark
     /\ UNCHANGED <<vars, graceOver, slipped>>

\* evaluateAutoFireSafety: too thin an export or too many missing, and nobody
\* is dismissed; the marks stay as they are.
AbsentCalledOff ==
  /\ sync.pc = "start" /\ ~Exported
  /\ End
  /\ UNCHANGED <<vars, mark, graceOver, slipped>>

AbsentProbePresent ==
  /\ sync.pc = "absent" /\ card.place # Gone
  /\ mark' = NoMark
  /\ End
  /\ UNCHANGED <<vars, graceOver, slipped>>

\* 404: for a deleted card, or once in a while for a card that exists.
AbsentProbe404 ==
  /\ sync.pc = "absent"
  /\ IF card.place = Gone THEN UNCHANGED faults
     ELSE faults < MaxFaults /\ faults' = faults + 1
  /\ IF sync.confirmed
     THEN Step("autofire") /\ UNCHANGED mark
     ELSE /\ End
          /\ mark' = IF mark.revision = sync.revision THEN mark
                     ELSE [revision |-> sync.revision, aged |-> FALSE]
  /\ UNCHANGED <<emp, ops, events, card, run, sched, graceOver, slipped>>

\* The mark goes when the execution that follows succeeds at once.
AutoFire(o) ==
  /\ sync.pc = "autofire" /\ Expected
  /\ OpenDismissClaiming(o, Needs(FALSE, FALSE))
  /\ mark' \in {mark, NoMark}
  /\ End
  /\ UNCHANGED <<events, card, run, sched, faults, graceOver, slipped>>

MarkAges ==
  /\ mark # NoMark /\ ~mark.aged
  /\ mark' = [mark EXCEPT !.aged = TRUE]
  /\ UNCHANGED <<vars, sync, graceOver, slipped>>

GraceEnds(o) ==
  /\ o \in Applied("rehire") \ graceOver
  /\ graceOver' = graceOver \cup {o}
  /\ UNCHANGED <<vars, sync, mark, slipped>>

-----------------------------------------------------------------------------
(***************************************************************************)
(* The cards of dismissed employees are moved to the archive in a batch.   *)
(* The check before it and the check after it are separate reads.          *)
(***************************************************************************)
\* A quick synchronisation of single cards ends without this phase.
MoveGuard ==
  /\ sync.pc = "cards"
  /\ \/ End
     \/ /\ sync.seen \in WorkDepts
        /\ emp.status = "fired" /\ emp.linked /\ NoPending
        /\ sync' = [sync EXCEPT !.pc = "move", !.revision = emp.revision]
  /\ UNCHANGED <<vars, mark, graceOver, slipped>>

MoveCard ==
  /\ sync.pc = "move"
  /\ IF card.place = Gone
     THEN End /\ UNCHANGED card
     ELSE /\ card' = [card EXCEPT !.place = Archive]
          /\ Step("check")
  /\ UNCHANGED <<emp, ops, events, run, sched, faults, mark, graceOver, slipped>>

\* A timeout or an error: the card may have moved, and is not checked again.
MoveFails ==
  /\ sync.pc = "move" /\ faults < MaxFaults
  /\ faults' = faults + 1
  /\ \/ UNCHANGED <<card, slipped>>
     \/ /\ card.place # Gone
        /\ card' = [card EXCEPT !.place = Archive]
        /\ slipped' = TRUE
  /\ End
  /\ UNCHANGED <<emp, ops, events, run, sched, mark, graceOver>>

\* compensateArchiveMove sends the card back to where the last reinstatement
\* put it, or else to the employee's department.
LastRehire == {o \in Applied("rehire") : \A p \in Applied("rehire") : ops[p].base <= ops[o].base}
CompensationDepts ==
  IF Applied("rehire") = {} THEN {emp.dept} \ {Archive} ELSE {ops[o].target : o \in LastRehire}

\* Mutant: only a finished reinstatement counts as a race.
RacedWhenActive == emp.status = "active"
Raced ==
  \/ emp.status = "active" \/ emp.revision # sync.revision
  \/ \E o \in OpIds : IsPending(o) /\ ops[o].kind = "rehire"

MoveCheck ==
  /\ sync.pc = "check"
  /\ \/ /\ ~Raced
        /\ End
     \/ \E o \in OpIds :
          /\ Raced /\ IsPending(o)
          /\ IF ops[o].kind = "rehire"
             THEN sync' = [sync EXCEPT !.pc = "reset", !.op = o]
             ELSE End
     \/ /\ Raced /\ NoPending
        /\ IF CompensationDepts = {} THEN End
           ELSE \E d \in CompensationDepts :
                  sync' = [sync EXCEPT !.pc = "repair", !.dept = d]
  /\ UNCHANGED <<vars, mark, graceOver, slipped>>

\* The reinstatement is over, or its run has the move behind it.
TooLate(o) ==
  ~IsPending(o) \/ \E x \in Runs : Working(x, o) /\ run[x].pc # "move"

\* resetPendingRehireSigurMove: the row only, not the copy of a running run.
MoveReset ==
  LET o == sync.op
  IN /\ sync.pc = "reset"
     /\ ops' = IF IsPending(o) /\ ops[o].kind = "rehire"
               THEN [ops EXCEPT ![o].flags.moved = FALSE] ELSE ops
     /\ slipped' = (slipped \/ TooLate(o))
     /\ End
     /\ UNCHANGED <<emp, events, card, run, sched, faults, mark, graceOver>>

MoveRepair ==
  /\ sync.pc = "repair"
  /\ IF emp.status = "active" /\ emp.linked /\ NoPending
     THEN \E o \in OpIds : OpenRepair(o, sync.dept)
     ELSE UNCHANGED vars
  /\ End
  /\ UNCHANGED <<mark, graceOver, slipped>>

-----------------------------------------------------------------------------
SyncCrash ==
  /\ SyncCrashes /\ sync.pc # "idle" /\ faults < MaxFaults
  /\ faults' = faults + 1
  /\ slipped' = (slipped \/ sync.pc \in {"check", "reset", "repair"})
  /\ End
  /\ UNCHANGED <<emp, ops, events, card, run, sched, mark, graceOver>>

OperatorMovesCard(d) ==
  /\ OperatorMoves /\ faults < MaxFaults
  /\ card.place \in WorkDepts /\ d # card.place
  /\ card' = [card EXCEPT !.place = d]
  /\ slipped' = (slipped \/ d = Archive)
  /\ faults' = faults + 1
  /\ UNCHANGED <<emp, ops, events, run, sched, sync, mark, graceOver>>

SyncStep ==
  \/ SyncStart(FALSE) \/ SyncRow \/ SyncTransfer
  \/ ArchiveGuard \/ ArchiveProbe \/ FireRefused
  \/ \E o \in OpIds : ArchiveFire(o) \/ AutoFire(o)
  \/ AbsentGuard \/ AbsentCalledOff \/ AbsentProbePresent \/ AbsentProbe404
  \/ MoveGuard \/ MoveCard \/ MoveFails \/ MoveCheck \/ MoveReset \/ MoveRepair

\* What LifecycleOps does without being asked by the sync: a repair is opened
\* by MoveRepair alone.
PortalStep ==
  \/ FireLater \/ CancelDismissal
  \/ \E o \in OpIds : FireNow(o)
  \/ \E o \in OpIds, d \in WorkDepts : Rehire(o, d)
  \/ \E s \in Schedulers : SchedulerStep(s) \/ SchedCrash(s)
  \/ \E x \in Runs : RunStep(x) \/ Crash(x)
  \/ \E o \in OpIds : Resume(o) \/ LeaseExpires(o)
  \/ ClaimExpires
  \/ DeleteCard

SyncNext ==
  \/ PortalStep /\ UNCHANGED syncVars
  \/ SyncStep
  \/ SyncStart(TRUE)
  \/ MarkAges
  \/ \E o \in OpIds : GraceEnds(o)
  \/ SyncCrash
  \/ \E d \in Depts : OperatorMovesCard(d)

SyncSpec == SyncInit /\ [][SyncNext]_allVars

-----------------------------------------------------------------------------
(***************************************************************************)
(* What the synchronisation must guarantee.                                *)
(***************************************************************************)
\* The sync dismisses for the archive folder only an employee whose card lies
\* in no working department at that moment, although it probed the card before:
\* a repair that brought the card back since has raised the revision.
ArchiveFireJustified ==
  [][\A o \in OpIds : ArchiveFire(o) => card.place \notin WorkDepts]_allVars

\* Two strikes: one wrong answer of Sigur (a card lost by the paged export and
\* a 404 for a card that exists count as one each) never costs anyone the job.
AutoFireJustified ==
  [][\A o \in OpIds : AutoFire(o) => card.place = Gone]_allVars

\* A dismissal scheduled for a date is left to the scheduler: the sync never
\* dismisses at once somebody whose dismissal is scheduled.
ScheduledNotPreempted ==
  [][\A o \in OpIds : ArchiveFire(o) \/ AutoFire(o) => ~emp.dated]_allVars

\* Once nothing is pending and no sync runs, the card agrees with the portal,
\* whichever way the batch move and a reinstatement overtook each other. The
\* exceptions are the moves in slipped: the answer was lost, the process
\* stopped before the check, the reset came after the run's own move, or an
\* operator of Sigur put the card into the archive by hand.
CardSettles == sync.pc = "idle" /\ ~slipped => CardFollowsStatus
=============================================================================
