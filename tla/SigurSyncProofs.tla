--------------------------- MODULE SigurSyncProofs ---------------------------
(***************************************************************************)
(* Proofs about SigurSync for any number of runs, schedulers, departments  *)
(* and operations: the synchronisation beside the life-cycle operations    *)
(* takes the employee away from no pending operation, and dismisses only   *)
(* whom it should.                                                         *)
(***************************************************************************)
EXTENDS SigurSync, LifecycleOutcomeProofs

-----------------------------------------------------------------------------
(***************************************************************************)
(* Types.                                                                  *)
(***************************************************************************)
\* A transfer goes to the department the card was seen in; a move is reset for
\* an operation that was found.
SyncAims ==
  /\ sync.pc = "transfer" => sync.seen # Gone
  /\ sync.pc = "reset" => sync.op \in OpIds

SyncTypeInv == SyncTypeOK /\ RunsHaveOperations /\ SyncAims

\* Opening a dismissal or a repair keeps the types, whoever opens it.
LEMMA OpeningType ==
  ASSUME TypeInv, NEW o \in OpIds,
         \/ \E needs \in Flags : OpenDismissClaiming(o, needs) /\ UNCHANGED <<events, card, run, sched, faults>>
         \/ \E d \in Depts : OpenRepair(o, d)
  PROVE  TypeInv'
<1> USE DEF TypeInv, TypeOK, RunsHaveOperations
<1>1. ASSUME NEW needs \in Flags, OpenDismissClaiming(o, needs),
             UNCHANGED <<events, card, run, sched, faults>>
      PROVE  TypeInv'
  <2>1. emp' \in Employees
    BY <1>1, Constructors DEF OpenDismissClaiming, Employees
  <2>2. ops' \in [OpIds -> Operations]
    BY <1>1, InsertType, Constructors DEF OpenDismissClaiming, Kinds
  <2> QED BY <1>1, <2>1, <2>2
<1>2. ASSUME NEW d \in Depts, OpenRepair(o, d) PROVE TypeInv'
  <2>1. ops' \in [OpIds -> Operations]
    BY <1>2, InsertType, Constructors DEF OpenRepair, Kinds
  <2> QED BY <1>2, <2>1 DEF OpenRepair
<1> QED BY <1>1, <1>2

\* What the portal does of itself are steps of LifecycleOps, none by hand.
LEMMA PortalSteps ==
  ASSUME TypeInv, PortalStep
  PROVE  Next /\ ~EditByHand
<1>1. Next
  BY DEF PortalStep, Next, Requests
<1>2. emp \in Employees /\ faults \in Nat
  BY DEF TypeInv, TypeOK
<1>3. EditByHand => emp' # emp /\ faults' # faults
  <2>1. EditByHand => emp'.revision = emp.revision + 1 /\ faults' = faults + 1
    BY <1>2 DEF EditByHand, Employees
  <2> QED BY <1>2, <2>1 DEF Employees
<1>4. emp' = emp \/ faults' = faults
  <2>1. FireLater \/ CancelDismissal \/ ClaimExpires \/ DeleteCard => faults' = faults
    BY DEF FireLater, CancelDismissal, ClaimExpires, DeleteCard
  <2>2. \A o \in OpIds : FireNow(o) \/ LeaseExpires(o) \/ Resume(o) => faults' = faults
    BY DEF FireNow, LeaseExpires, Resume, Acquire
  <2>3. \A o \in OpIds, d \in WorkDepts : Rehire(o, d) => faults' = faults
    BY DEF Rehire
  <2>4. \A s \in Schedulers : SchedulerStep(s) \/ SchedCrash(s) => emp' = emp \/ faults' = faults
    BY DEF SchedulerStep, SchedClaim, SchedLoad, SchedOpen, SchedRefused, SchedCrash
  <2>5. \A x \in Runs : RunStep(x) \/ Crash(x) => emp' = emp \/ faults' = faults
    BY DEF RunStep, Crash, WriteStep, SigurCall, SigurCallFails, SigurCallNotFound,
           Refresh, ChangeDept, GrantAccess, Probe, Apply, ApplyRefused
  <2> QED BY <2>1, <2>2, <2>3, <2>4, <2>5 DEF PortalStep
<1> QED BY <1>1, <1>3, <1>4

\* What a sync does beside opening operations: it transfers the employee,
\* moves the card, and resets the move of a pending reinstatement.
Beside ==
  /\ UNCHANGED <<events, run, sched>>
  /\ emp'.status = emp.status /\ emp'.revision = emp.revision
  /\ emp'.linked = emp.linked /\ emp'.dated = emp.dated
  /\ emp'.claim = emp.claim /\ emp'.claimStale = emp.claimStale
  /\ \A o \in OpIds :
       /\ ops'[o].kind = ops[o].kind /\ ops'[o].status = ops[o].status
       /\ ops'[o].base = ops[o].base /\ ops'[o].target = ops[o].target
       /\ ops'[o].owner = ops[o].owner /\ ops'[o].leased = ops[o].leased
       /\ ops'[o].snapshot = ops[o].snapshot

\* The dismissals it opens: by the archive folder, or of those missing.
Dismisses(o) ==
  /\ \/ ArchiveFire(o) \/ AutoFire(o)
  /\ \E access \in BOOLEAN : OpenDismissClaiming(o, Needs(FALSE, access))
  /\ UNCHANGED <<events, card, run, sched, faults>>

\* The repairs it opens, for compensation.
Repairs(o) == MoveRepair /\ OpenRepair(o, sync.dept)

LEMMA SyncOpens ==
  ASSUME TypeInv, NEW o \in OpIds, ArchiveFire(o) \/ AutoFire(o)
  PROVE  Dismisses(o)
<1>1. emp.linked \in BOOLEAN
  BY DEF TypeInv, TypeOK, Employees
<1> QED BY <1>1 DEF ArchiveFire, AutoFire, Dismisses

\* A step of the system is a step of the portal, of the sync, or neither.
SyncOnly ==
  \/ \E lost \in BOOLEAN : SyncStart(lost)
  \/ SyncRow \/ SyncTransfer \/ ArchiveGuard \/ ArchiveProbe \/ FireRefused
  \/ AbsentGuard \/ AbsentCalledOff \/ AbsentProbePresent \/ AbsentProbe404
  \/ MoveGuard \/ MoveCard \/ MoveFails \/ MoveCheck \/ MoveReset
  \/ MoveRepair /\ UNCHANGED vars
  \/ MarkAges \/ (\E o \in OpIds : GraceEnds(o)) \/ SyncCrash
  \/ (\E d \in Depts : OperatorMovesCard(d)) \/ UNCHANGED allVars

LEMMA StepsOfSync ==
  ASSUME TypeInv, [SyncNext]_allVars
  PROVE  \/ PortalStep /\ Next /\ ~EditByHand /\ UNCHANGED syncVars
         \/ SyncOnly
         \/ \E o \in OpIds : Dismisses(o) \/ Repairs(o)
<1>1. MoveRepair => (MoveRepair /\ UNCHANGED vars) \/ \E o \in OpIds : Repairs(o)
  BY DEF MoveRepair, Repairs
<1>2. SyncStart(TRUE) \/ SyncStart(FALSE) => \E lost \in BOOLEAN : SyncStart(lost)
  OBVIOUS
<1> QED BY <1>1, <1>2, PortalSteps, SyncOpens DEF SyncNext, SyncStep, SyncOnly

LEMMA SyncOnlyBeside ==
  ASSUME TypeInv, SyncOnly, sync.pc = "transfer" => sync.seen # Gone, sync \in SyncMemories,
         sync.pc = "reset" => sync.op \in OpIds
  PROVE  TypeInv' /\ Beside
<1> USE DEF TypeInv, TypeOK, RunsHaveOperations
<1>1. ASSUME UNCHANGED <<ops, events, emp, run, sched>>, faults' \in Nat, card' \in Cards
      PROVE  TypeInv' /\ Beside
  BY <1>1 DEF Beside
<1>2. ASSUME NEW lost \in BOOLEAN, SyncStart(lost) PROVE TypeInv' /\ Beside
  BY <1>1, <1>2 DEF SyncStart
<1>3. CASE SyncTransfer
  <2>1. \/ emp' = emp
        \/ \E rights \in SUBSET Depts : emp' = [emp EXCEPT !.dept = sync.seen, !.access = rights]
    BY <1>3 DEF SyncTransfer, SyncMemories, Employees
  <2>2. emp' \in Employees
    BY <1>3, <2>1 DEF SyncTransfer, SyncMemories, Employees
  <2> QED BY <1>3, <2>1, <2>2 DEF SyncTransfer, Beside, Employees
<1>4. CASE MoveReset
  <2> DEFINE o == sync.op
             reset == [ops EXCEPT ![o].flags.moved = FALSE]
  <2>1. o \in OpIds
    BY <1>4 DEF MoveReset
  <2>2. reset \in [OpIds -> Operations]
    <3> DEFINE f == [ops[o].flags EXCEPT !.moved = FALSE]
    <3>1. ops[o] \in Operations /\ ops[o].flags \in Flags
      BY <2>1 DEF Operations
    <3>2. f \in Flags
      BY <3>1 DEF Flags
    <3>3. reset = [ops EXCEPT ![o] = [ops[o] EXCEPT !.flags = f]]
      OBVIOUS
    <3> HIDE DEF f
    <3>4. [ops[o] EXCEPT !.flags = f] \in Operations
      BY <3>1, <3>2 DEF Operations
    <3> HIDE DEF reset
    <3> QED BY <2>1, <3>3, <3>4
  <2>3. \A p \in OpIds :
          /\ reset[p].kind = ops[p].kind /\ reset[p].status = ops[p].status
          /\ reset[p].base = ops[p].base /\ reset[p].target = ops[p].target
          /\ reset[p].owner = ops[p].owner /\ reset[p].leased = ops[p].leased
          /\ reset[p].snapshot = ops[p].snapshot
    BY <2>1 DEF Operations
  <2>4. ops' = reset \/ ops' = ops
    BY <1>4 DEF MoveReset
  <2> QED BY <1>4, <2>2, <2>3, <2>4 DEF MoveReset, Beside
<1>5. CASE SyncRow \/ ArchiveGuard \/ ArchiveProbe \/ FireRefused \/ AbsentGuard \/ AbsentCalledOff
           \/ AbsentProbePresent \/ MoveGuard \/ MoveCheck \/ (MoveRepair /\ UNCHANGED vars)
           \/ MarkAges \/ (\E o \in OpIds : GraceEnds(o)) \/ UNCHANGED allVars
  <2>1. UNCHANGED vars
    BY <1>5 DEF SyncRow, ArchiveGuard, ArchiveProbe, FireRefused, AbsentGuard, AbsentCalledOff,
                AbsentProbePresent, MoveGuard, MoveCheck, MarkAges, GraceEnds, allVars
  <2> QED BY <1>1, <2>1 DEF vars
<1>6. CASE AbsentProbe404 \/ SyncCrash
  BY <1>1, <1>6 DEF AbsentProbe404, SyncCrash
<1>7. CASE MoveCard \/ MoveFails
  <2>1. card' \in Cards
    BY <1>7, Constructors DEF MoveCard, MoveFails, Cards
  <2> QED BY <1>1, <1>7, <2>1 DEF MoveCard, MoveFails
<1>8. ASSUME NEW d \in Depts, OperatorMovesCard(d) PROVE TypeInv' /\ Beside
  <2>1. card' \in Cards
    BY <1>8 DEF OperatorMovesCard, Cards
  <2> QED BY <1>1, <1>8, <2>1 DEF OperatorMovesCard
<1> QED BY <1>2, <1>3, <1>4, <1>5, <1>6, <1>7, <1>8 DEF SyncOnly

\* The synchronisation's own memory keeps its type.
LEMMA NoSyncType == NoSync \in SyncMemories /\ NoMark \in Marks
<1>1. NoMark \in Marks
  BY ConstantsAssumption DEF NoMark, Marks
<1>2. NoSync \in SyncMemories
  BY Constructors DEF NoSync, SyncMemories, SyncSteps
<1> QED BY <1>1, <1>2

\* Where a synchronisation goes on, or ends.
LEMMA StepTypes ==
  ASSUME sync \in SyncMemories
  PROVE  /\ \A step \in SyncSteps \ {"transfer", "reset"} :
              Step(step) => sync' \in SyncMemories /\ SyncAims'
         /\ End => sync' \in SyncMemories /\ SyncAims'
<1>1. ASSUME NEW step \in SyncSteps \ {"transfer", "reset"}, Step(step)
      PROVE  sync' \in SyncMemories /\ SyncAims'
  BY <1>1 DEF Step, SyncMemories, SyncAims
<1>2. End => sync' \in SyncMemories /\ SyncAims'
  BY NoSyncType DEF End, NoSync, SyncAims
<1> QED BY <1>1, <1>2

LEMMA SyncMemoryType ==
  ASSUME SyncTypeInv, SyncOnly \/ \E o \in OpIds : Dismisses(o) \/ Repairs(o)
  PROVE  /\ sync' \in SyncMemories /\ SyncAims'
         /\ mark' \in Marks /\ graceOver' \subseteq OpIds /\ slipped' \in BOOLEAN
<1> DEFINE Typed == /\ sync' \in SyncMemories /\ SyncAims'
                    /\ mark' \in Marks /\ graceOver' \subseteq OpIds /\ slipped' \in BOOLEAN
<1>t. /\ sync \in SyncMemories /\ SyncAims /\ mark \in Marks /\ NoMark \in Marks
      /\ graceOver \subseteq OpIds /\ slipped \in BOOLEAN
      /\ emp \in Employees /\ card \in Cards /\ ops \in [OpIds -> Operations]
  BY NoSyncType DEF SyncTypeInv, SyncTypeOK, TypeOK
<1>s. SyncSteps = {"idle", "start", "guard", "probe", "fire", "transfer", "cards",
                   "move", "check", "reset", "repair", "absent", "confirm", "autofire"}
  BY DEF SyncSteps
<1>1. ASSUME NEW lost \in BOOLEAN, SyncStart(lost) PROVE Typed
  <2> DEFINE row == [dept |-> emp.dept, fireable |-> emp.status = "active" /\ ~emp.dated]
  <2>0. (emp.status = "active" /\ ~emp.dated) \in BOOLEAN
    OBVIOUS
  <2>1. row \in [dept: Depts, fireable: BOOLEAN]
    BY <1>t, <2>0 DEF Employees
  <2>2. Gone \in Depts \cup {Gone} /\ card.place \in Depts \cup {Gone}
    BY <1>t DEF Cards
  <2>3. \A r \in [dept: Depts, fireable: BOOLEAN], seen \in Depts \cup {Gone} :
          [NoSync EXCEPT !.pc = "start", !.seen = seen, !.row = r] \in SyncMemories
    BY NoSyncType DEF SyncMemories, SyncSteps
  <2>4. \E seen \in Depts \cup {Gone} : sync' = [NoSync EXCEPT !.pc = "start", !.seen = seen, !.row = row]
    BY <1>1, <2>2 DEF SyncStart
  <2> HIDE DEF row
  <2>5. sync' \in SyncMemories /\ sync'.pc = "start"
    BY <2>1, <2>3, <2>4, NoSyncType DEF SyncMemories
  <2>6. SyncAims'
    BY <2>5 DEF SyncAims
  <2> QED BY <1>t, <1>1, <2>5, <2>6 DEF SyncStart
<1>2. CASE SyncRow
  <2>1. sync' \in SyncMemories /\ SyncAims'
    BY <1>t, <1>2 DEF SyncRow, Exported, SyncMemories, SyncSteps, SyncAims, Employees
  <2> QED BY <1>t, <1>2, <2>1 DEF SyncRow
<1>3. CASE SyncTransfer \/ ArchiveGuard \/ ArchiveProbe \/ FireRefused \/ AbsentCalledOff
  BY <1>t, <1>s, <1>3, StepTypes
     DEF SyncTransfer, ArchiveGuard, ArchiveProbe, FireRefused, AbsentCalledOff
<1>4. CASE AbsentGuard
  <2>1. sync' \in SyncMemories /\ SyncAims'
    BY <1>t, <1>4, NoSyncType DEF AbsentGuard, Confirmed, SyncMemories, SyncSteps, SyncAims, Employees, NoSync
  <2> QED BY <1>t, <1>4, <2>1 DEF AbsentGuard
<1>5. CASE AbsentProbePresent
  BY <1>t, <1>5, StepTypes DEF AbsentProbePresent
<1>6. CASE AbsentProbe404
  <2>1. sync' \in SyncMemories /\ SyncAims'
    BY <1>t, <1>s, <1>6, StepTypes DEF AbsentProbe404
  <2>2. mark' \in Marks
    <3>1. [revision |-> sync.revision, aged |-> FALSE] \in Marks
      BY <1>t DEF Marks, SyncMemories
    <3> QED BY <1>t, <1>6, <3>1 DEF AbsentProbe404
  <2> QED BY <1>t, <1>6, <2>1, <2>2 DEF AbsentProbe404
<1>7. CASE MoveGuard
  <2>1. sync' \in SyncMemories /\ SyncAims'
    BY <1>t, <1>7, StepTypes DEF MoveGuard, SyncMemories, SyncSteps, SyncAims, Employees
  <2> QED BY <1>t, <1>7, <2>1 DEF MoveGuard
<1>8. CASE MoveCard \/ MoveFails
  BY <1>t, <1>s, <1>8, StepTypes DEF MoveCard, MoveFails
<1>9. CASE MoveCheck
  <2>1. CompensationDepts \subseteq Depts
    BY <1>t DEF CompensationDepts, LastRehire, Applied, Employees, Operations
  <2>2. \A o \in OpIds : [sync EXCEPT !.pc = "reset", !.op = o] \in SyncMemories
    BY <1>t DEF SyncMemories, SyncSteps
  <2>3. \A d \in Depts : [sync EXCEPT !.pc = "repair", !.dept = d] \in SyncMemories
    BY <1>t DEF SyncMemories, SyncSteps
  <2>4. ASSUME NEW o \in OpIds, sync' = [sync EXCEPT !.pc = "reset", !.op = o] PROVE SyncAims'
    BY <1>t, <2>4 DEF SyncAims, SyncMemories
  <2>5. ASSUME NEW d \in Depts, sync' = [sync EXCEPT !.pc = "repair", !.dept = d] PROVE SyncAims'
    BY <1>t, <2>5 DEF SyncAims, SyncMemories
  <2>6. sync' \in SyncMemories /\ SyncAims'
    BY <1>9, <2>1, <2>2, <2>3, <2>4, <2>5, <1>t, StepTypes DEF MoveCheck
  <2> QED BY <1>t, <1>9, <2>6 DEF MoveCheck
<1>10. CASE MoveReset
  BY <1>t, <1>10, StepTypes DEF MoveReset, TooLate
<1>11. CASE MoveRepair
  BY <1>t, <1>11, StepTypes DEF MoveRepair
<1>12. CASE MarkAges
  BY <1>t, <1>12 DEF MarkAges, Marks, SyncAims
<1>13. ASSUME NEW o \in OpIds, GraceEnds(o) PROVE Typed
  BY <1>t, <1>13 DEF GraceEnds, SyncAims
<1>14. CASE SyncCrash
  BY <1>t, <1>14, StepTypes DEF SyncCrash
<1>15. ASSUME NEW d \in Depts, OperatorMovesCard(d) PROVE Typed
  BY <1>t, <1>15 DEF OperatorMovesCard, SyncAims
<1>16. CASE UNCHANGED allVars
  BY <1>t, <1>16 DEF allVars, syncVars, SyncAims
<1>17. ASSUME NEW o \in OpIds, ArchiveFire(o) \/ AutoFire(o) PROVE Typed
  BY <1>t, <1>s, <1>17, StepTypes DEF ArchiveFire, AutoFire
<1> QED BY <1>1, <1>2, <1>3, <1>4, <1>5, <1>6, <1>7, <1>8, <1>9, <1>10, <1>11, <1>12, <1>13,
           <1>14, <1>15, <1>16, <1>17 DEF SyncOnly, Dismisses, Repairs

LEMMA SyncTypeInit == SyncInit => SyncTypeInv
<1> SUFFICES ASSUME SyncInit PROVE SyncTypeInv
  OBVIOUS
<1>1. TypeInv
  BY TypeInit DEF SyncInit
<1>2. sync \in SyncMemories /\ mark \in Marks /\ graceOver \subseteq OpIds /\ slipped \in BOOLEAN
  BY NoSyncType DEF SyncInit
<1>3. SyncAims
  BY DEF SyncInit, NoSync, SyncAims
<1> QED BY <1>1, <1>2, <1>3 DEF SyncTypeInv, SyncTypeOK, TypeInv

LEMMA SyncTypeNext ==
  ASSUME SyncTypeInv, [SyncNext]_allVars
  PROVE  SyncTypeInv'
<1>0. TypeInv /\ sync \in SyncMemories /\ SyncAims
  BY DEF SyncTypeInv, SyncTypeOK, TypeInv
<1>1. CASE Next /\ UNCHANGED syncVars
  <2>1. TypeInv'
    BY <1>0, <1>1, TypeNext
  <2> QED BY <1>1, <2>1 DEF SyncTypeInv, SyncTypeOK, TypeInv, syncVars, SyncAims
<1>2. CASE SyncOnly
  BY <1>0, <1>2, SyncOnlyBeside, SyncMemoryType DEF SyncTypeInv, SyncTypeOK, TypeInv, SyncAims
<1>3. ASSUME NEW o \in OpIds, Dismisses(o) \/ Repairs(o) PROVE SyncTypeInv'
  <2>1. \A access \in BOOLEAN : Needs(FALSE, access) \in Flags
    BY Constructors
  <2>2. sync.dept \in Depts
    BY <1>0 DEF SyncMemories
  <2>3. TypeInv'
    BY <1>0, <1>3, <2>1, <2>2, OpeningType DEF Dismisses, Repairs
  <2> QED BY <1>3, <2>3, SyncMemoryType DEF SyncTypeInv, SyncTypeOK, TypeInv
<1> QED BY <1>0, <1>1, <1>2, <1>3, StepsOfSync

\* Beside the synchronisation, too, a run works on a row that exists.
LEMMA SyncTypesHold == SyncSpec => []SyncTypeInv
BY SyncTypeInit, SyncTypeNext, PTL DEF SyncSpec

\* SyncTypeOK: the state of the synchronisation and of the operations beside
\* it keeps its types, whatever the synchronisation finds in Sigur.
THEOREM SyncTypes == SyncSpec => []SyncTypeOK
<1>1. SyncTypeInv => SyncTypeOK
  BY DEF SyncTypeInv
<1> QED BY <1>1, SyncTypesHold, PTL

-----------------------------------------------------------------------------
(***************************************************************************)
(* The operations beside the synchronisation.                              *)
(***************************************************************************)
\* What the synchronisation opens, and on what employee.
LEMMA OpenedBySync ==
  ASSUME TypeInv, NEW o \in OpIds, Dismisses(o) \/ Repairs(o)
  PROVE  /\ NoPending /\ emp.status = "active" /\ ops[o].status = "absent"
         /\ \A p \in OpIds : p # o => ops'[p] = ops[p]
         /\ ops'[o].status = "pending" /\ ops'[o].base = emp.revision
         /\ emp.revision < MaxRevision
         /\ UNCHANGED <<events, card, run, sched, faults>>
         /\ emp'.status = emp.status /\ emp'.revision = emp.revision
         /\ emp'.linked = emp.linked /\ emp'.dept = emp.dept /\ emp'.access = emp.access
         /\ Dismisses(o) => /\ ops'[o].kind = "dismiss" /\ ops'[o].target = Archive
                            /\ ClaimFree /\ emp'.dated /\ emp'.claim = Portal
                            /\ \E access \in BOOLEAN :
                                 Insert(o, "dismiss", Archive, Needs(FALSE, access))
         /\ Repairs(o) => /\ ops'[o].kind = "repair_sigur" /\ emp' = emp
                          /\ ops'[o].target = sync.dept
                          /\ Insert(o, "repair_sigur", sync.dept, Needs(TRUE, FALSE))
<1>t. emp \in Employees /\ ops \in [OpIds -> Operations]
  BY DEF TypeInv, TypeOK
<1>1. ASSUME NEW k, NEW t, NEW needs, Insert(o, k, t, needs)
      PROVE  /\ ops[o].status = "absent" /\ emp.revision < MaxRevision
             /\ \A p \in OpIds : p # o => ops'[p] = ops[p]
             /\ ops'[o].status = "pending" /\ ops'[o].base = emp.revision
             /\ ops'[o].kind = k /\ ops'[o].target = t
  BY <1>t, <1>1 DEF Insert, NoOperation
<1>2. CASE Dismisses(o)
  <2>1. PICK access \in BOOLEAN : OpenDismissClaiming(o, Needs(FALSE, access))
    BY <1>2 DEF Dismisses
  <2>2. /\ NoPending /\ emp.status = "active" /\ ClaimFree
        /\ emp' = [emp EXCEPT !.claim = Portal, !.claimStale = FALSE, !.dated = TRUE]
        /\ Insert(o, "dismiss", Archive, Needs(FALSE, access))
    BY <2>1 DEF OpenDismissClaiming
  <2>3. /\ emp'.status = emp.status /\ emp'.revision = emp.revision
        /\ emp'.linked = emp.linked /\ emp'.dept = emp.dept /\ emp'.access = emp.access
        /\ emp'.dated /\ emp'.claim = Portal
    BY <1>t, <2>2 DEF Employees
  <2>4. UNCHANGED <<events, card, run, sched, faults>>
    BY <1>2 DEF Dismisses
  <2>5. ~Repairs(o)
    <3>1. ops'[o].kind = "dismiss"
      BY <1>1, <2>2
    <3>2. Repairs(o) => ops'[o].kind = "repair_sigur"
      BY <1>1 DEF Repairs, OpenRepair
    <3> QED BY <3>1, <3>2
  <2> QED BY <1>1, <2>2, <2>3, <2>4, <2>5
<1>3. CASE Repairs(o)
  <2>1. /\ NoPending /\ emp.status = "active" /\ UNCHANGED <<emp, events, card, run, sched, faults>>
        /\ Insert(o, "repair_sigur", sync.dept, Needs(TRUE, FALSE))
    BY <1>3 DEF Repairs, OpenRepair
  <2>2. ~Dismisses(o)
    <3>1. ops'[o].kind = "repair_sigur"
      BY <1>1, <2>1
    <3>2. Dismisses(o) => ops'[o].kind = "dismiss"
      BY <1>1 DEF Dismisses, OpenDismissClaiming
    <3> QED BY <3>1, <3>2
  <2> QED BY <1>1, <2>1, <2>2
<1> QED BY <1>2, <1>3

\* A step of the sync gives no run anything to execute, and takes nothing away.
LEMMA SyncExecNext ==
  ASSUME ~Overrun, SyncTypeInv, ExecInv, [SyncNext]_allVars
  PROVE  ExecInv'
<1>0. TypeInv /\ sync \in SyncMemories /\ SyncAims
  BY DEF SyncTypeInv, SyncTypeOK, TypeInv
<1>1. CASE Next
  BY <1>0, <1>1, ExecNext
<1>2. CASE SyncOnly
  BY <1>0, <1>2, SyncOnlyBeside, ExecKept DEF Beside, IsPending, SyncAims
<1>3. ASSUME NEW o \in OpIds, Dismisses(o) \/ Repairs(o) PROVE ExecInv'
  BY <1>0, <1>3, OpenedBySync, ExecKept DEF IsPending
<1> QED BY <1>0, <1>1, <1>2, <1>3, StepsOfSync

LEMMA SyncExecHolds == ASSUME ~Overrun PROVE SyncSpec => []ExecInv
<1>1. SyncInit => ExecInv
  BY ExecInit DEF SyncInit
<1>2. SyncTypeInv /\ ExecInv /\ [SyncNext]_allVars => ExecInv'
  BY SyncExecNext
<1> QED BY <1>1, <1>2, SyncTypesHold, PTL DEF SyncSpec

\* What the sync opens owns the employee as what a request opens does.
LEMMA SyncPendingNext ==
  ASSUME ~Overrun, ~Stall, SyncTypeInv, PendingInv, [SyncNext]_allVars
  PROVE  PendingInv'
<1>0. TypeInv /\ sync \in SyncMemories /\ SyncAims /\ emp.revision \in Nat
  BY DEF SyncTypeInv, SyncTypeOK, TypeInv, TypeOK, Employees
<1>1. CASE Next /\ ~EditByHand
  BY <1>0, <1>1, PendingNext
<1>2. CASE SyncOnly
  <2>1. SameRows
    BY <1>0, <1>2, SyncOnlyBeside DEF Beside, SameRows, SyncAims
  <2> QED BY <1>0, <1>2, <2>1, SyncOnlyBeside, PendingAside DEF Beside, SyncAims
<1>3. ASSUME NEW o \in OpIds, Dismisses(o) PROVE PendingInv'
  <2>1. ClaimsHold'
    BY <1>0, <1>3, OpenedBySync, ConstantsAssumption DEF PendingInv, ClaimsHold, ClaimFree
  <2>2. Owns(o)'
    BY <1>0, <1>3, OpenedBySync, ConstantsAssumption DEF Owns
  <2> QED BY <1>0, <1>3, <2>1, <2>2, OpenedBySync, PendingOpens
<1>4. ASSUME NEW o \in OpIds, Repairs(o) PROVE PendingInv'
  <2>1. ClaimsHold'
    BY <1>0, <1>4, OpenedBySync DEF PendingInv, ClaimsHold
  <2>2. ops'[o].kind = "repair_sigur" /\ ops'[o].base = emp.revision
        /\ emp'.status = "active" /\ emp'.revision = emp.revision
    BY <1>0, <1>4, OpenedBySync
  <2>3. Owns(o)'
    BY <1>0, <2>2 DEF Owns
  <2> QED BY <1>0, <1>4, <2>1, <2>3, OpenedBySync, PendingOpens
<1> QED BY <1>0, <1>1, <1>2, <1>3, <1>4, StepsOfSync

LEMMA SyncPendingHolds == ASSUME ~Overrun, ~Stall PROVE SyncSpec => []PendingInv
<1>1. SyncInit => PendingInv
  BY PendingInit DEF SyncInit
<1>2. SyncTypeInv /\ PendingInv /\ [SyncNext]_allVars => PendingInv'
  BY SyncPendingNext
<1> QED BY <1>1, <1>2, SyncTypesHold, PTL DEF SyncSpec

\* PendingOwnsState, with the synchronisation running beside the operations:
\* neither its dismissals nor its repairs nor its transfers take the employee
\* from the operation that is pending.
THEOREM PendingOwnsBesideSync ==
  ASSUME ~Overrun, ~Stall PROVE SyncSpec => []PendingOwnsState
<1>1. SyncTypeInv => TypeInv
  BY DEF SyncTypeInv, SyncTypeOK, TypeInv
<1> QED BY <1>1, SyncPendingHolds, SyncTypesHold, PendingImplies, PTL

LEMMA SyncStepsImplement ==
  ASSUME SyncTypeInv, PendingInv, PendingInv', [SyncNext]_allVars
  PROVE  Stutter \/ Promise!Next
<1>0. TypeInv /\ sync \in SyncMemories /\ SyncAims
  BY DEF SyncTypeInv, SyncTypeOK, TypeInv
<1>1. CASE Next /\ ~EditByHand
  BY <1>0, <1>1, StepsImplement
<1>2. CASE SyncOnly
  <2>1. SameRows /\ emp'.status = emp.status /\ emp'.revision = emp.revision
    BY <1>0, <1>2, SyncOnlyBeside DEF Beside, SameRows, SyncAims
  <2> QED BY <2>1, AbstractKept DEF PendingInv, Stutter
<1>3. ASSUME NEW o \in OpIds, Dismisses(o) \/ Repairs(o) PROVE Promise!Next
  <2>1. /\ NoPending /\ emp.status = "active" /\ emp'.revision = emp.revision
        /\ \E k \in {"dismiss", "repair_sigur"} : \E t, needs : Insert(o, k, t, needs)
    BY <1>0, <1>3, OpenedBySync
  <2> QED BY <1>0, <2>1, OpeningBegins DEF Kinds
<1> QED BY <1>0, <1>1, <1>2, <1>3, StepsOfSync

\* The operations still implement Employment when the synchronisation opens
\* some of them and resets others: what has begun ends by being applied.
THEOREM SyncImplementsEmployment ==
  ASSUME ~Overrun, ~Stall PROVE SyncSpec => ImplementsEmployment
<1>1. SyncInit => Promise!Init
  <2> SUFFICES ASSUME SyncInit PROVE Promise!Init
    OBVIOUS
  <2>1. NoPending
    BY DEF SyncInit, Init, NoPending, IsPending, NoOperation
  <2> QED BY <2>1, AbstractNone DEF SyncInit, Init, Promise!Init
<1>2. SyncTypeInv /\ PendingInv /\ PendingInv' /\ [SyncNext]_allVars =>
        [Promise!Next]_<<AbstractState, emp.revision>>
  BY SyncStepsImplement DEF Stutter
<1> QED BY <1>1, <1>2, SyncPendingHolds, SyncTypesHold, PTL
          DEF SyncSpec, ImplementsEmployment, Promise!Spec

-----------------------------------------------------------------------------
(***************************************************************************)
(* What a revision says: while it stays the status stays, and no date is   *)
(* set but by opening a dismissal.                                         *)
(***************************************************************************)
DismissalPending == \E o \in OpIds : IsPending(o) /\ ops[o].kind = "dismiss"
Undated == ~emp.dated \/ DismissalPending

RevisionStep ==
  \/ /\ emp'.revision = emp.revision /\ emp'.status = emp.status
     /\ Undated => Undated'
  \/ emp'.revision = emp.revision + 1

\* Steps that end no dismissal and set no date.
LEMMA RevisionKept ==
  ASSUME emp'.revision = emp.revision, emp'.status = emp.status, emp'.dated = emp.dated,
         \A o \in OpIds :
           ops[o].kind = "dismiss" => ops'[o].kind = "dismiss" /\ ops'[o].status = ops[o].status
  PROVE  RevisionStep
<1>1. DismissalPending => DismissalPending'
  BY DEF DismissalPending, IsPending
<1> QED BY <1>1 DEF RevisionStep, Undated

\* Steps that open an operation.
LEMMA RevisionOpens ==
  ASSUME TypeInv, NEW o \in OpIds, NEW k, NEW t, NEW needs, Insert(o, k, t, needs),
         emp'.revision = emp.revision, emp'.status = emp.status,
         k = "dismiss" \/ emp'.dated = emp.dated
  PROVE  RevisionStep
<1>1. /\ \A p \in OpIds : p # o => ops'[p] = ops[p]
      /\ ops[o].status = "absent" /\ ops'[o].status = "pending" /\ ops'[o].kind = k
  BY InsertKeeps
<1>2. DismissalPending => DismissalPending'
  BY <1>1 DEF DismissalPending, IsPending
<1>3. k = "dismiss" => DismissalPending'
  BY <1>1 DEF DismissalPending, IsPending
<1> QED BY <1>2, <1>3 DEF RevisionStep, Undated

\* An application and a request that plans or withdraws count the revision.
LEMMA RevisionCounts ==
  ASSUME TypeInv,
         \/ FireLater \/ CancelDismissal
         \/ \E x \in Runs : Apply(x)
  PROVE  RevisionStep
<1>1. emp \in Employees
  BY DEF TypeInv, TypeOK
<1>2. CASE FireLater \/ CancelDismissal
  BY <1>1, <1>2 DEF FireLater, CancelDismissal, Employees, RevisionStep
<1>3. ASSUME NEW x \in Runs, Apply(x) PROVE RevisionStep
  BY <1>3, ApplyEffect DEF RevisionStep
<1> QED BY <1>2, <1>3

LEMMA RevisionOfLifecycle ==
  ASSUME TypeInv, Next, ~EditByHand
  PROVE  RevisionStep
<1>t. emp \in Employees /\ ops \in [OpIds -> Operations]
  BY DEF TypeInv, TypeOK
<1>k. ASSUME ops' = ops, emp'.revision = emp.revision, emp'.status = emp.status,
             emp'.dated = emp.dated
      PROVE  RevisionStep
  BY <1>k, RevisionKept
<1>1. CASE Requests
  <2>1. ASSUME NEW o \in OpIds, FireNow(o) PROVE RevisionStep
    <3>1. emp'.revision = emp.revision /\ emp'.status = emp.status
      BY <1>t, <2>1 DEF FireNow, OpenDismissClaiming, Employees
    <3> QED BY <2>1, <3>1, RevisionOpens DEF FireNow, OpenDismissClaiming
  <2>2. ASSUME NEW o \in OpIds, NEW d \in WorkDepts, Rehire(o, d) \/ OpenRepair(o, d)
        PROVE  RevisionStep
    BY <2>2, RevisionOpens DEF Rehire, OpenRehire, OpenRepair
  <2> QED BY <1>1, <2>1, <2>2, RevisionCounts DEF Requests
<1>2. ASSUME NEW s \in Schedulers, SchedulerStep(s) \/ SchedCrash(s) PROVE RevisionStep
  <2>1. ASSUME NEW o \in OpIds, SchedOpen(s, o) PROVE RevisionStep
    BY <2>1, RevisionOpens DEF SchedOpen
  <2>2. CASE SchedClaim(s) \/ SchedLoad(s)
    <3>1. /\ emp'.revision = emp.revision /\ emp'.status = emp.status /\ emp'.dated = emp.dated
          /\ ops' = ops
      BY <1>t, <2>2 DEF SchedClaim, SchedLoad, Employees
    <3> QED BY <1>k, <3>1
  <2>3. CASE SchedRefused(s) \/ SchedCrash(s)
    BY <1>k, <2>3 DEF SchedRefused, SchedCrash
  <2> QED BY <1>2, <2>1, <2>2, <2>3 DEF SchedulerStep
<1>3. ASSUME NEW x \in Runs, RunStep(x) \/ Crash(x) PROVE RevisionStep
  <2>1. CASE WriteStep(x)
    <3>1. SameRows
      BY <2>1, <1>t DEF WriteStep, SameRows, Operations
    <3> QED BY <2>1, <3>1, RevisionKept DEF WriteStep, SameRows
  <2>2. CASE SigurCall(x) \/ SigurCallFails(x) \/ SigurCallNotFound(x) \/ Probe(x) \/ Crash(x)
    BY <2>2, <1>k DEF SigurCall, SigurCallFails, SigurCallNotFound, Probe, Crash
  <2>3. CASE Refresh(x) \/ ChangeDept(x) \/ GrantAccess(x)
    <3>1. emp'.status = emp.status /\ emp'.revision = emp.revision /\ emp'.dated = emp.dated
      BY <2>3, <1>t DEF Refresh, ChangeDept, GrantAccess, Employees
    <3>2. ops' = ops
      BY <2>3 DEF Refresh, ChangeDept, GrantAccess
    <3> QED BY <1>k, <3>1, <3>2
  <2>4. CASE Apply(x)
    BY <2>4, RevisionCounts
  <2>5. CASE ApplyRefused(x)
    <3>1. emp' = emp
      BY <2>5 DEF ApplyRefused
    <3>2. CASE ops' = ops
      BY <1>k, <3>1, <3>2
    <3>3. CASE ops' # ops
      <4>1. PICK o \in OpIds :
              /\ ops[o].kind = "repair_sigur"
              /\ ops' = [ops EXCEPT ![o].status = "cancelled", ![o].owner = Nobody]
        BY <2>5, <3>3 DEF ApplyRefused, KindOf, OpOf, TypeInv, RunsHaveOperations
      <4>2. /\ ops'[o].status = "cancelled" /\ ops'[o].kind = ops[o].kind
            /\ ops'[o].base = ops[o].base
            /\ \A p \in OpIds : p # o => ops'[p] = ops[p]
        BY <1>t, <4>1 DEF Operations
      <4> QED BY <3>1, <4>1, <4>2, RevisionKept
    <3> QED BY <3>2, <3>3
  <2> QED BY <1>3, <2>1, <2>2, <2>3, <2>4, <2>5 DEF RunStep
<1>4. ASSUME NEW o \in OpIds, Resume(o) \/ LeaseExpires(o) PROVE RevisionStep
  <2>1. SameRows
    <3>1. ASSUME NEW x \in Runs, Acquire(x, o) PROVE SameRows
      <4>1. /\ \A q \in OpIds : q # o => ops'[q] = ops[q]
            /\ ops'[o].kind = ops[o].kind /\ ops'[o].status = ops[o].status
            /\ ops'[o].base = ops[o].base
        BY <1>t, <3>1 DEF Acquire, Operations
      <4> QED BY <4>1 DEF SameRows
    <3>2. CASE LeaseExpires(o)
      BY <1>t, <3>2 DEF LeaseExpires, SameRows, Operations
    <3> QED BY <1>4, <3>1, <3>2 DEF Resume
  <2>2. emp' = emp
    BY <1>4 DEF Resume, Acquire, LeaseExpires
  <2> QED BY <2>1, <2>2, RevisionKept DEF SameRows
<1>5. CASE ClaimExpires
  <2>1. /\ emp'.revision = emp.revision /\ emp'.status = emp.status /\ emp'.dated = emp.dated
        /\ ops' = ops
    BY <1>t, <1>5 DEF ClaimExpires, Employees
  <2> QED BY <1>k, <2>1
<1>6. CASE DeleteCard
  BY <1>k, <1>6 DEF DeleteCard
<1> QED BY <1>1, <1>2, <1>3, <1>4, <1>5, <1>6 DEF Next

LEMMA RevisionSteps ==
  ASSUME SyncTypeInv, [SyncNext]_allVars
  PROVE  RevisionStep
<1>0. TypeInv /\ sync \in SyncMemories /\ SyncAims
  BY DEF SyncTypeInv, SyncTypeOK, TypeInv
<1>1. CASE Next /\ ~EditByHand
  BY <1>0, <1>1, RevisionOfLifecycle
<1>2. CASE SyncOnly
  BY <1>0, <1>2, SyncOnlyBeside, RevisionKept DEF Beside, SyncAims
<1>3. ASSUME NEW o \in OpIds, Dismisses(o) \/ Repairs(o) PROVE RevisionStep
  <2>1. /\ emp'.revision = emp.revision /\ emp'.status = emp.status
        /\ \E k : /\ \E t, needs : Insert(o, k, t, needs)
                  /\ k = "dismiss" \/ emp'.dated = emp.dated
    BY <1>0, <1>3, OpenedBySync
  <2> QED BY <1>0, <2>1, RevisionOpens
<1> QED BY <1>0, <1>1, <1>2, <1>3, StepsOfSync

-----------------------------------------------------------------------------
(***************************************************************************)
(* Scheduled dismissals.                                                   *)
(***************************************************************************)
\* The sync has decided to dismiss, at the revision it holds.
Decided ==
  \/ sync.pc \in {"guard", "probe", "fire", "autofire"}
  \/ sync.pc = "absent" /\ sync.confirmed

\* What the sync and the mark hold of the revisions is of the past, and while
\* it is still of the present no date has been set: a mark may be of a revision
\* with a date, but then the row read at the start had the date too.
ReadInv ==
  /\ sync.revision <= emp.revision
  /\ mark # NoMark => mark.revision <= emp.revision
  /\ Decided /\ sync.revision = emp.revision => Undated
  /\ sync.pc = "start" /\ sync.row.fireable /\ mark # NoMark /\ mark.revision = emp.revision
       => Undated

LEMMA RevisionNumbers ==
  ASSUME SyncTypeInv
  PROVE  emp.revision \in Nat /\ sync.revision \in Nat /\ mark.revision \in Nat
BY DEF SyncTypeInv, SyncTypeOK, TypeOK, Employees, SyncMemories, Marks

\* Steps that leave the sync and the mark alone.
LEMMA ReadKept ==
  ASSUME SyncTypeInv, ReadInv, RevisionStep, sync' = sync, mark' = mark
  PROVE  ReadInv'
BY RevisionNumbers DEF ReadInv, RevisionStep, Decided

\* Steps of a sync that decide nothing.
LEMMA ReadGoesOn ==
  ASSUME SyncTypeInv, ReadInv, RevisionStep, sync'.revision = sync.revision,
         sync'.pc # "start", Decided' => Decided,
         mark' \in {mark, NoMark}
  PROVE  ReadInv'
BY RevisionNumbers DEF ReadInv, RevisionStep

\* The end of a sync, which may leave a mark.
LEMMA ReadEnds ==
  ASSUME SyncTypeInv, ReadInv, RevisionStep, End,
         mark' \in {mark, NoMark} \/ mark'.revision = sync.revision
  PROVE  ReadInv'
<1>1. sync'.pc = "idle" /\ sync'.revision = 0 /\ ~Decided'
  BY DEF End, NoSync, Decided
<1> QED BY <1>1, RevisionNumbers DEF ReadInv, RevisionStep

LEMMA ReadNext ==
  ASSUME SyncTypeInv, ReadInv, [SyncNext]_allVars
  PROVE  ReadInv'
<1>0. TypeInv /\ sync \in SyncMemories /\ SyncAims
  BY DEF SyncTypeInv, SyncTypeOK, TypeInv
<1>r. RevisionStep
  BY RevisionSteps
\* Going on to a step that is no decision of its own.
<1>g. ASSUME NEW step \in SyncSteps \ {"start", "absent"}, Step(step), mark' \in {mark, NoMark},
             step \in {"guard", "probe", "fire", "autofire"} => Decided
      PROVE  ReadInv'
  <2>1. sync'.pc = step /\ sync'.revision = sync.revision
    BY <1>0, <1>g DEF Step, SyncMemories
  <2> QED BY <1>r, <1>g, <2>1, ReadGoesOn DEF Decided
<1>s. {"cards", "probe", "fire", "check", "autofire"} \subseteq SyncSteps \ {"start", "absent"}
  BY DEF SyncSteps
<1>1. CASE UNCHANGED <<sync, mark>>
  BY <1>r, <1>1, ReadKept
<1>2. ASSUME NEW lost \in BOOLEAN, SyncStart(lost) PROVE ReadInv'
  <2>1. /\ sync'.pc = "start" /\ sync'.revision = 0 /\ emp' = emp /\ mark' = mark
        /\ sync'.row.fireable => ~emp.dated
    BY <1>2 DEF SyncStart, NoSync
  <2> QED BY <2>1, RevisionNumbers DEF ReadInv, Decided, Undated
<1>3. CASE SyncRow
  <2>1. /\ sync'.pc \in {"cards", "guard", "transfer"} /\ sync'.revision = emp.revision
        /\ emp' = emp /\ mark' \in {mark, NoMark}
        /\ sync'.pc = "guard" => ~emp.dated
    BY <1>0, <1>3 DEF SyncRow, FollowsCard, SyncMemories, vars
  <2> QED BY <2>1, RevisionNumbers DEF ReadInv, Decided, Undated
<1>4. CASE SyncTransfer \/ ArchiveGuard \/ ArchiveProbe \/ (FireRefused /\ ~End)
           \/ \E o \in OpIds : ArchiveFire(o)
  BY <1>g, <1>s, <1>4
     DEF SyncTransfer, ArchiveGuard, ArchiveProbe, FireRefused, ArchiveFire, Decided
<1>5. CASE AbsentCalledOff \/ AbsentProbePresent \/ (FireRefused /\ End)
           \/ (\E o \in OpIds : AutoFire(o)) \/ MoveFails \/ MoveReset \/ MoveRepair \/ SyncCrash
  <2>1. End /\ mark' \in {mark, NoMark}
    BY <1>5 DEF AbsentCalledOff, AbsentProbePresent, FireRefused, AutoFire, MoveFails,
                MoveReset, MoveRepair, SyncCrash
  <2> QED BY <1>r, <2>1, ReadEnds
<1>6. CASE AbsentGuard
  <2>1. CASE sync' = NoSync
    BY <1>r, <1>6, <2>1, ReadEnds DEF AbsentGuard, End
  <2>2. CASE sync' # NoSync
    <3>1. /\ sync' = [sync EXCEPT !.pc = "absent", !.revision = emp.revision, !.confirmed = Confirmed]
          /\ sync.pc = "start" /\ sync.row.fireable /\ emp' = emp /\ ops' = ops /\ mark' = mark
      BY <1>6, <2>2 DEF AbsentGuard, vars
    <3>2. sync'.pc = "absent" /\ sync'.revision = emp.revision /\ sync'.confirmed = Confirmed
      BY <1>0, <3>1 DEF SyncMemories
    <3>3. Confirmed => mark # NoMark /\ mark.revision = emp.revision
      BY DEF Confirmed, NoMark
    <3>4. Confirmed => Undated
      BY <3>1, <3>3 DEF ReadInv
    <3>5. Undated' <=> Undated
      BY <3>1 DEF Undated, DismissalPending, IsPending
    <3> QED BY <3>1, <3>2, <3>4, <3>5, RevisionNumbers DEF ReadInv, Decided
  <2> QED BY <2>1, <2>2
<1>7. CASE AbsentProbe404
  <2>1. CASE sync.confirmed
    BY <1>g, <1>s, <1>7, <2>1 DEF AbsentProbe404, Decided
  <2>2. CASE ~sync.confirmed
    BY <1>r, <1>7, <2>2, ReadEnds DEF AbsentProbe404
  <2> QED BY <2>1, <2>2
<1>8. CASE MoveGuard
  <2>1. CASE End
    BY <1>r, <1>8, <2>1, ReadEnds DEF MoveGuard
  <2>2. CASE ~End
    <3>1. /\ sync'.pc = "move" /\ sync'.revision = emp.revision /\ emp' = emp /\ mark' = mark
      BY <1>0, <1>8, <2>2 DEF MoveGuard, SyncMemories, vars
    <3> QED BY <3>1, RevisionNumbers DEF ReadInv, Decided
  <2> QED BY <2>1, <2>2
<1>9. CASE MoveCard
  <2>1. CASE End
    BY <1>r, <1>9, <2>1, ReadEnds DEF MoveCard
  <2>2. CASE ~End
    BY <1>g, <1>s, <1>9, <2>2 DEF MoveCard
  <2> QED BY <2>1, <2>2
<1>10. CASE MoveCheck
  <2>1. CASE End
    BY <1>r, <1>10, <2>1, ReadEnds DEF MoveCheck
  <2>2. CASE ~End
    <3>1. \/ \E o \in OpIds : sync' = [sync EXCEPT !.pc = "reset", !.op = o]
          \/ \E d : sync' = [sync EXCEPT !.pc = "repair", !.dept = d]
      BY <1>10, <2>2 DEF MoveCheck
    <3>2. sync'.pc \in {"reset", "repair"} /\ sync'.revision = sync.revision
      BY <1>0, <3>1 DEF SyncMemories
    <3> QED BY <1>r, <1>10, <3>2, ReadGoesOn DEF MoveCheck, Decided
  <2> QED BY <2>1, <2>2
<1>11. CASE MarkAges
  <2>1. sync' = sync /\ emp' = emp /\ ops' = ops /\ mark # NoMark /\ mark'.revision = mark.revision
    BY <1>11 DEF MarkAges, vars, SyncTypeInv, SyncTypeOK, Marks
  <2>2. Undated' <=> Undated
    BY <2>1 DEF Undated, DismissalPending, IsPending
  <2> QED BY <2>1, <2>2 DEF ReadInv, Decided
<1>12. CASE (\E o \in OpIds : GraceEnds(o)) \/ (\E d \in Depts : OperatorMovesCard(d))
            \/ UNCHANGED allVars \/ UNCHANGED syncVars
  BY <1>1, <1>12 DEF GraceEnds, OperatorMovesCard, allVars, syncVars
<1>13. SyncOnly => ReadInv'
  BY <1>2, <1>3, <1>4, <1>5, <1>6, <1>7, <1>8, <1>9, <1>10, <1>11, <1>12 DEF SyncOnly
<1>14. ASSUME NEW o \in OpIds, Dismisses(o) \/ Repairs(o) PROVE ReadInv'
  BY <1>4, <1>5, <1>14 DEF Dismisses, Repairs
<1> QED BY <1>0, <1>12, <1>13, <1>14, StepsOfSync

LEMMA ReadHolds == SyncSpec => []ReadInv
<1>1. SyncInit => ReadInv
  <2> SUFFICES ASSUME SyncInit PROVE ReadInv
    OBVIOUS
  <2>1. emp.revision = 0 /\ sync.revision = 0 /\ sync.pc = "idle" /\ mark = NoMark
    BY DEF SyncInit, Init, NoSync
  <2> QED BY <2>1 DEF ReadInv, Decided
<1>2. SyncTypeInv /\ ReadInv /\ [SyncNext]_allVars => ReadInv'
  BY ReadNext
<1> QED BY <1>1, <1>2, SyncTypesHold, PTL DEF SyncSpec

\* ScheduledNotPreempted: the sync dismisses nobody whose dismissal is
\* scheduled, however old what it has read, with no assumption on leases or
\* schedulers: the revision it expects excludes a date set since.
THEOREM ScheduledAreLeft == SyncSpec => ScheduledNotPreempted
<1>1. ASSUME ReadInv, NEW o \in OpIds, ArchiveFire(o) \/ AutoFire(o) PROVE ~emp.dated
  <2>1. NoPending /\ emp.revision = sync.revision /\ Decided
    BY <1>1 DEF ArchiveFire, AutoFire, Expected, OpenDismissClaiming, Decided
  <2> QED BY <1>1, <2>1 DEF ReadInv, Undated, DismissalPending, NoPending
<1>2. ReadInv /\ [SyncNext]_allVars =>
        [\A o \in OpIds : ArchiveFire(o) \/ AutoFire(o) => ~emp.dated]_allVars
  BY <1>1
<1> QED BY <1>2, ReadHolds, PTL DEF SyncSpec, ScheduledNotPreempted

-----------------------------------------------------------------------------
(***************************************************************************)
(* Two strikes.                                                            *)
(***************************************************************************)
\* Faults are counted, up to their bound, and a deleted card stays deleted.
FaultStep ==
  /\ faults' \in Nat /\ faults' >= faults
  /\ faults <= MaxFaults => faults' <= MaxFaults
  /\ card'.place # Gone => card.place # Gone

LEMMA FaultSteps ==
  ASSUME SyncTypeInv, [SyncNext]_allVars
  PROVE  FaultStep
<1>0. TypeInv /\ faults \in Nat /\ MaxFaults \in Nat /\ card \in Cards
  BY ConstantsAssumption DEF SyncTypeInv, SyncTypeOK, TypeInv, TypeOK
<1>f. ASSUME faults' = faults \/ (faults < MaxFaults /\ faults' = faults + 1)
      PROVE  faults' \in Nat /\ faults' >= faults /\ (faults <= MaxFaults => faults' <= MaxFaults)
  BY <1>0, <1>f
<1>k. ASSUME UNCHANGED <<card, faults>> PROVE FaultStep
  BY <1>0, <1>k DEF FaultStep
<1>1. CASE Requests \/ (\E o \in OpIds : LeaseExpires(o) \/ Resume(o)) \/ ClaimExpires
  <2>1. UNCHANGED <<card, faults>>
    BY <1>1 DEF Requests, FireLater, CancelDismissal, FireNow, Rehire, OpenRepair, LeaseExpires,
                Resume, Acquire, ClaimExpires
  <2> QED BY <1>k, <2>1
<1>2. ASSUME NEW s \in Schedulers, SchedulerStep(s) \/ SchedCrash(s) PROVE FaultStep
  <2>1. /\ card' = card
        /\ faults' = faults \/ (faults < MaxFaults /\ faults' = faults + 1)
    BY <1>2 DEF SchedulerStep, SchedClaim, SchedLoad, SchedOpen, SchedRefused, SchedCrash
  <2> QED BY <1>f, <2>1 DEF FaultStep
<1>3. ASSUME NEW x \in Runs, RunStep(x) \/ Crash(x) PROVE FaultStep
  <2>1. card' = card \/ card.place # Gone
    BY <1>3 DEF RunStep, Crash, WriteStep, SigurCall, SigurCallFails, SigurCallNotFound,
                Refresh, ChangeDept, GrantAccess, Probe, Apply, ApplyRefused
  <2>2. faults' = faults \/ (faults < MaxFaults /\ faults' = faults + 1)
    BY <1>3 DEF RunStep, Crash, WriteStep, SigurCall, SigurCallFails, SigurCallNotFound,
                Refresh, ChangeDept, GrantAccess, Probe, Apply, ApplyRefused
  <2> QED BY <1>f, <2>1, <2>2 DEF FaultStep
<1>4. CASE DeleteCard
  BY <1>0, <1>4 DEF DeleteCard, FaultStep, Cards
<1>5. Next /\ ~EditByHand => FaultStep
  BY <1>1, <1>2, <1>3, <1>4 DEF Next
<1>6. CASE SyncOnly
  <2>1. card' = card \/ card.place # Gone
    <3>1. CASE MoveCard \/ MoveFails
      BY <3>1 DEF MoveCard, MoveFails
    <3>2. ASSUME NEW d \in Depts, OperatorMovesCard(d) PROVE card.place # Gone
      BY <3>2, ConstantsAssumption DEF OperatorMovesCard
    <3>3. CASE ~MoveCard /\ ~MoveFails /\ ~\E d \in Depts : OperatorMovesCard(d)
      BY <1>6, <3>3 DEF SyncOnly, SyncStart, SyncRow, SyncTransfer, ArchiveGuard, ArchiveProbe, FireRefused,
           AbsentGuard, AbsentCalledOff, AbsentProbePresent, AbsentProbe404, MoveGuard, MoveCheck,
           MoveReset, MarkAges, GraceEnds, SyncCrash, allVars, vars
    <3> QED BY <3>1, <3>2, <3>3
  <2>2. faults' = faults \/ (faults < MaxFaults /\ faults' = faults + 1)
    BY <1>6 DEF SyncOnly, SyncStart, SyncRow, SyncTransfer, ArchiveGuard, ArchiveProbe, FireRefused,
         AbsentGuard, AbsentCalledOff, AbsentProbePresent, AbsentProbe404, MoveGuard, MoveCard,
         MoveFails, MoveCheck, MoveReset, MarkAges, GraceEnds, SyncCrash, OperatorMovesCard,
         allVars, vars
  <2> QED BY <1>f, <2>1, <2>2 DEF FaultStep
<1>7. ASSUME NEW o \in OpIds, Dismisses(o) \/ Repairs(o) PROVE FaultStep
  BY <1>0, <1>k, <1>7, OpenedBySync
<1> QED BY <1>0, <1>5, <1>6, <1>7, StepsOfSync

\* What it takes, of a card that exists, to come to the dismissal of those
\* missing: an export that lost it and a 404 for the mark, and both again.
Missing == sync.pc = "absent" \/ (sync.pc = "start" /\ ~Exported)

StrikesInv ==
  /\ faults <= MaxFaults
  /\ sync.pc = "absent" /\ sync.confirmed => mark # NoMark
  /\ card.place # Gone =>
       /\ mark # NoMark => faults >= 2
       /\ Missing => faults >= IF mark = NoMark THEN 1 ELSE 3
       /\ sync.pc = "autofire" => faults >= 4

\* Steps of a sync that is not at the missing, and its end.
LEMMA StrikesKept ==
  ASSUME SyncTypeInv, StrikesInv, FaultStep, mark' \in {mark, NoMark},
         (sync' = sync /\ mark' = mark) \/ sync'.pc \notin {"start", "absent", "autofire"}
  PROVE  StrikesInv'
<1>1. faults \in Nat /\ faults' \in Nat /\ faults' >= faults /\ faults' <= MaxFaults
      /\ (card'.place # Gone => card.place # Gone)
  BY DEF SyncTypeInv, SyncTypeOK, TypeOK, FaultStep, StrikesInv
<1> QED BY <1>1 DEF StrikesInv, Missing, Exported

LEMMA StrikesNext ==
  ASSUME SyncTypeInv, StrikesInv, [SyncNext]_allVars
  PROVE  StrikesInv'
<1>0. TypeInv /\ sync \in SyncMemories /\ SyncAims /\ mark \in Marks /\ faults \in Nat
  BY DEF SyncTypeInv, SyncTypeOK, TypeInv, TypeOK
<1>r. FaultStep /\ faults' <= MaxFaults
  BY FaultSteps DEF FaultStep, StrikesInv
<1>e. End => sync'.pc = "idle"
  BY DEF End, NoSync
<1>g. \A step : Step(step) => sync'.pc = step
  BY <1>0 DEF Step, SyncMemories
<1>1. CASE UNCHANGED <<sync, mark>>
  BY <1>r, <1>1, StrikesKept
<1>2. ASSUME NEW lost \in BOOLEAN, SyncStart(lost) PROVE StrikesInv'
  <2>1. /\ sync'.pc = "start" /\ mark' = mark /\ card' = card
        /\ faults' = IF lost THEN faults + 1 ELSE faults
        /\ sync'.seen = IF lost THEN Gone ELSE card.place
    BY <1>2 DEF SyncStart, NoSync
  <2> QED BY <1>0, <1>r, <2>1 DEF StrikesInv, Missing, Exported
<1>3. CASE SyncRow
  <2>1. sync'.pc \in {"cards", "guard", "transfer"} /\ mark' \in {mark, NoMark}
    BY <1>0, <1>3 DEF SyncRow, SyncMemories
  <2> QED BY <1>r, <2>1, StrikesKept
<1>4. CASE SyncTransfer \/ ArchiveGuard \/ ArchiveProbe \/ FireRefused \/ AbsentCalledOff
           \/ AbsentProbePresent \/ MoveCard \/ MoveFails \/ MoveReset \/ MoveRepair \/ SyncCrash
           \/ \E o \in OpIds : ArchiveFire(o) \/ AutoFire(o)
  <2>1. End \/ Step("cards") \/ Step("probe") \/ Step("fire") \/ Step("check")
    BY <1>4 DEF SyncTransfer, ArchiveGuard, ArchiveProbe, FireRefused, AbsentCalledOff,
                AbsentProbePresent, MoveCard, MoveFails, MoveReset, MoveRepair, SyncCrash,
                ArchiveFire, AutoFire
  <2>2. mark' \in {mark, NoMark}
    BY <1>4 DEF SyncTransfer, ArchiveGuard, ArchiveProbe, FireRefused, AbsentCalledOff,
                AbsentProbePresent, MoveCard, MoveFails, MoveReset, MoveRepair, SyncCrash,
                ArchiveFire, AutoFire
  <2>3. sync'.pc \notin {"start", "absent", "autofire"}
    BY <1>e, <1>g, <2>1
  <2> QED BY <1>r, <2>2, <2>3, StrikesKept
<1>5. CASE AbsentGuard
  <2>1. CASE sync' = NoSync
    <3>1. sync'.pc = "idle"
      BY <2>1 DEF NoSync
    <3>2. mark' \in {mark, NoMark}
      BY <1>5 DEF AbsentGuard
    <3> QED BY <1>r, <3>1, <3>2, StrikesKept
  <2>2. CASE sync' # NoSync
    <3>1. /\ sync' = [sync EXCEPT !.pc = "absent", !.revision = emp.revision, !.confirmed = Confirmed]
          /\ sync.pc = "start" /\ ~Exported /\ mark' = mark /\ card' = card /\ faults' = faults
      BY <1>5, <2>2 DEF AbsentGuard, vars
    <3>2. sync'.pc = "absent" /\ sync'.confirmed = Confirmed
      BY <1>0, <3>1 DEF SyncMemories
    <3>3. Confirmed => mark # NoMark
      BY DEF Confirmed, NoMark
    <3> QED BY <1>0, <1>r, <3>1, <3>2, <3>3 DEF StrikesInv, Missing
  <2> QED BY <2>1, <2>2
<1>6. CASE AbsentProbe404
  <2>1. /\ sync.pc = "absent" /\ card' = card
        /\ card.place # Gone => faults' = faults + 1
    BY <1>6 DEF AbsentProbe404
  <2>2. CASE sync.confirmed
    <3>1. sync'.pc = "autofire" /\ mark' = mark
      BY <1>6, <1>g, <2>2 DEF AbsentProbe404
    <3> QED BY <1>0, <1>r, <2>1, <2>2, <3>1 DEF StrikesInv, Missing
  <2>3. CASE ~sync.confirmed
    <3>1. sync'.pc = "idle"
      BY <1>6, <1>e, <2>3 DEF AbsentProbe404
    <3>2. card.place # Gone => faults' >= 2
      BY <1>0, <2>1 DEF StrikesInv, Missing
    <3> QED BY <1>r, <2>1, <3>1, <3>2 DEF StrikesInv, Missing
  <2> QED BY <2>2, <2>3
<1>7. CASE MoveGuard \/ MoveCheck
  <2>1. \/ End
        \/ sync' = [sync EXCEPT !.pc = "move", !.revision = emp.revision]
        \/ \E o \in OpIds : sync' = [sync EXCEPT !.pc = "reset", !.op = o]
        \/ \E d : sync' = [sync EXCEPT !.pc = "repair", !.dept = d]
    BY <1>7 DEF MoveGuard, MoveCheck
  <2>2. sync'.pc \in {"idle", "move", "reset", "repair"}
    BY <1>0, <1>e, <2>1 DEF SyncMemories
  <2> QED BY <1>r, <1>7, <2>2, StrikesKept DEF MoveGuard, MoveCheck
<1>8. CASE MarkAges
  <2>1. sync' = sync /\ card' = card /\ faults' = faults /\ mark # NoMark /\ mark'.aged
    BY <1>0, <1>8 DEF MarkAges, vars, Marks
  <2>2. mark' # NoMark
    BY <2>1 DEF NoMark
  <2> QED BY <1>r, <2>1, <2>2 DEF StrikesInv, Missing, Exported
<1>9. CASE (\E o \in OpIds : GraceEnds(o)) \/ (\E d \in Depts : OperatorMovesCard(d))
           \/ UNCHANGED allVars \/ UNCHANGED syncVars
  BY <1>1, <1>9 DEF GraceEnds, OperatorMovesCard, allVars, syncVars
<1>10. SyncOnly => StrikesInv'
  BY <1>2, <1>3, <1>4, <1>5, <1>6, <1>7, <1>8, <1>9 DEF SyncOnly
<1>11. ASSUME NEW o \in OpIds, Dismisses(o) \/ Repairs(o) PROVE StrikesInv'
  BY <1>4, <1>11 DEF Dismisses, Repairs
<1> QED BY <1>0, <1>9, <1>10, <1>11, StepsOfSync

LEMMA StrikesHold == SyncSpec => []StrikesInv
<1>1. SyncInit => StrikesInv
  BY ConstantsAssumption DEF SyncInit, Init, NoSync, StrikesInv, Missing
<1>2. SyncTypeInv /\ StrikesInv /\ [SyncNext]_allVars => StrikesInv'
  BY StrikesNext
<1> QED BY <1>1, <1>2, SyncTypesHold, PTL DEF SyncSpec

\* AutoFireJustified: it takes four wrong answers of Sigur, two lost exports and
\* two 404s for a card that exists, to dismiss somebody for a missing card. With
\* three faults of any kind nobody is.
THEOREM StrikesProtect ==
  ASSUME MaxFaults < 4 PROVE SyncSpec => AutoFireJustified
<1>1. ASSUME SyncTypeInv, StrikesInv, NEW o \in OpIds, AutoFire(o) PROVE card.place = Gone
  <2>1. faults \in Nat /\ MaxFaults \in Nat /\ sync.pc = "autofire"
    BY <1>1, ConstantsAssumption DEF SyncTypeInv, SyncTypeOK, TypeOK, AutoFire
  <2> QED BY <1>1, <2>1 DEF StrikesInv
<1>2. SyncTypeInv /\ StrikesInv /\ [SyncNext]_allVars =>
        [\A o \in OpIds : AutoFire(o) => card.place = Gone]_allVars
  BY <1>1
<1> QED BY <1>2, StrikesHold, SyncTypesHold, PTL DEF SyncSpec, AutoFireJustified

-----------------------------------------------------------------------------
(***************************************************************************)
(* Where operations lead, and the archive folder.                          *)
(***************************************************************************)
\* An execution keeps what every row is for, and opens none.
LEMMA RunRows ==
  ASSUME TypeInv, NEW x \in Runs,
         RunStep(x) \/ Crash(x) \/ \E o \in OpIds : Acquire(x, o)
  PROVE  \A o \in OpIds :
           /\ ops'[o].kind = ops[o].kind /\ ops'[o].target = ops[o].target /\ ops'[o].base = ops[o].base
           /\ \/ ops'[o].status = ops[o].status
              \/ ops[o].status = "pending" /\ ops'[o].status \in {"applied", "cancelled"}
<1> DEFINE Same == \A o \in OpIds :
                     /\ ops'[o].kind = ops[o].kind /\ ops'[o].target = ops[o].target /\ ops'[o].base = ops[o].base
                     /\ \/ ops'[o].status = ops[o].status
                        \/ ops[o].status = "pending" /\ ops'[o].status \in {"applied", "cancelled"}
<1>t. ops \in [OpIds -> Operations]
  BY DEF TypeInv, TypeOK
<1>1. ASSUME NEW o \in OpIds, Acquire(x, o) PROVE Same
  BY <1>t, <1>1 DEF Acquire, Operations
<1>2. CASE WriteStep(x)
  BY <1>t, <1>2 DEF WriteStep, Operations
<1>3. CASE SigurCall(x) \/ SigurCallFails(x) \/ SigurCallNotFound(x) \/ Probe(x) \/ Crash(x)
           \/ Refresh(x) \/ ChangeDept(x) \/ GrantAccess(x)
  BY <1>3 DEF SigurCall, SigurCallFails, SigurCallNotFound, Probe, Crash, Refresh, ChangeDept,
              GrantAccess
<1>4. CASE Apply(x)
  <2>1. PICK o \in OpIds :
          /\ IsPending(o)
          /\ ops' = [ops EXCEPT ![o].status = "applied", ![o].owner = Nobody,
                                ![o].snapshot = Revoked(x)]
    BY <1>4 DEF Apply, Holds, TypeInv, RunsHaveOperations
  <2>2. /\ ops'[o].status = "applied" /\ ops'[o].kind = ops[o].kind /\ ops'[o].target = ops[o].target /\ ops'[o].base = ops[o].base
        /\ \A q \in OpIds : q # o => ops'[q] = ops[q]
    BY <1>t, <2>1 DEF Operations
  <2> QED BY <2>1, <2>2 DEF IsPending
<1>5. CASE ApplyRefused(x)
  <2>1. CASE ops' = ops
    BY <2>1
  <2>2. CASE ops' # ops
    <3>1. PICK o \in OpIds :
            /\ IsPending(o)
            /\ ops' = [ops EXCEPT ![o].status = "cancelled", ![o].owner = Nobody]
      BY <1>5, <2>2 DEF ApplyRefused, Holds, TypeInv, RunsHaveOperations
    <3>2. /\ ops'[o].status = "cancelled" /\ ops'[o].kind = ops[o].kind /\ ops'[o].target = ops[o].target /\ ops'[o].base = ops[o].base
          /\ \A q \in OpIds : q # o => ops'[q] = ops[q]
      BY <1>t, <3>1 DEF Operations
    <3> QED BY <3>1, <3>2 DEF IsPending
  <2> QED BY <2>1, <2>2
<1> QED BY <1>1, <1>2, <1>3, <1>4, <1>5 DEF RunStep

\* The portal itself opens no repair.
LEMMA PortalOpens ==
  ASSUME TypeInv, PortalStep, NEW o \in OpIds, ops[o].status = "absent",
         ops'[o].status = "pending"
  PROVE  ops'[o].kind # "repair_sigur"
<1>t. ops \in [OpIds -> Operations]
  BY DEF TypeInv, TypeOK
<1>1. ASSUME NEW p \in OpIds, NEW k, NEW t, NEW needs, Insert(p, k, t, needs), k # "repair_sigur"
      PROVE  ops'[o].kind # "repair_sigur"
  BY <1>1, InsertKeeps
<1>2. ASSUME NEW p \in OpIds, FireNow(p) PROVE ops'[o].kind # "repair_sigur"
  BY <1>1, <1>2 DEF FireNow, OpenDismissClaiming
<1>3. ASSUME NEW p \in OpIds, NEW d \in WorkDepts, Rehire(p, d) PROVE ops'[o].kind # "repair_sigur"
  BY <1>1, <1>3 DEF Rehire, OpenRehire
<1>4. ASSUME NEW p \in OpIds, NEW s \in Schedulers, SchedOpen(s, p) PROVE ops'[o].kind # "repair_sigur"
  BY <1>1, <1>4 DEF SchedOpen
<1>5. ASSUME NEW p \in OpIds, LeaseExpires(p) PROVE FALSE
  <2>1. ops'[o].status = ops[o].status
    BY <1>t, <1>5 DEF LeaseExpires, Operations
  <2> QED BY <2>1
<1>6. FireLater \/ CancelDismissal \/ ClaimExpires \/ DeleteCard => ops' = ops
  BY DEF FireLater, CancelDismissal, ClaimExpires, DeleteCard
<1>7. \A s \in Schedulers : SchedClaim(s) \/ SchedLoad(s) \/ SchedRefused(s) \/ SchedCrash(s) => ops' = ops
  BY DEF SchedClaim, SchedLoad, SchedRefused, SchedCrash
<1>8. ASSUME NEW x \in Runs, RunStep(x) \/ Crash(x) \/ \E p \in OpIds : Acquire(x, p) PROVE FALSE
  BY <1>8, RunRows
<1> QED BY <1>2, <1>3, <1>4, <1>5, <1>6, <1>7, <1>8 DEF PortalStep, SchedulerStep, Resume

\* Dismissals lead to the archive; reinstatements, and the repairs that make up
\* for a raced move, to a working department.
TargetsInv ==
  /\ Targets
  /\ \A o \in OpIds : ops[o].kind = "rehire" => ops[o].target \in WorkDepts
  /\ sync.pc = "repair" => sync.dept \in WorkDepts
  /\ sync.pc = "reset" => ops[sync.op].kind = "rehire" /\ ops[sync.op].status # "absent"

\* Steps that open nothing and leave the sync alone, or end it or take it on.
LEMMA TargetsKept ==
  ASSUME TypeInv, SyncAims, TargetsInv,
         \A o \in OpIds :
           /\ ops'[o].kind = ops[o].kind /\ ops'[o].target = ops[o].target
           /\ ops'[o].status = "pending" <=> ops[o].status = "pending" /\ ops'[o].status = "pending"
           /\ ops[o].status # "absent" => ops'[o].status # "absent",
         sync' = sync \/ sync'.pc \notin {"reset", "repair"}
  PROVE  TargetsInv'
BY DEF SyncAims, TargetsInv, Targets, IsPending

\* Openings, which leave every other row alone.
LEMMA TargetsOpen ==
  ASSUME TypeInv, SyncAims, TargetsInv, NEW o \in OpIds, ops[o].status = "absent",
         \A p \in OpIds : p # o => ops'[p] = ops[p],
         ops'[o].status = "pending",
         IF ops'[o].kind = "dismiss" THEN ops'[o].target = Archive ELSE ops'[o].target \in WorkDepts,
         sync' = sync \/ sync'.pc \notin {"reset", "repair"}
  PROVE  TargetsInv'
BY DEF SyncAims, TargetsInv, Targets, IsPending

LEMMA TargetsNext ==
  ASSUME SyncTypeInv, TargetsInv, [SyncNext]_allVars
  PROVE  TargetsInv'
<1>0. TypeInv /\ sync \in SyncMemories /\ SyncAims /\ emp \in Employees
  BY DEF SyncTypeInv, SyncTypeOK, TypeInv, TypeOK
<1>1. CASE Next /\ ~EditByHand /\ UNCHANGED syncVars
  <2>0. sync' = sync
    BY <1>1 DEF syncVars
  <2>1. CASE Aside
    BY <1>0, <2>0, <2>1, TargetsKept DEF Aside
  <2>2. ASSUME NEW o \in OpIds, Opening(o) PROVE TargetsInv'
    BY <1>0, <2>0, <2>2, TargetsOpen DEF Opening
  <2>3. ASSUME NEW x \in Runs, RunStep(x) \/ Crash(x) \/ \E o \in OpIds : Acquire(x, o) PROVE TargetsInv'
    BY <1>0, <2>0, <2>3, RunRows, TargetsKept
  <2> QED BY <1>0, <1>1, <2>1, <2>2, <2>3, KindsOfSteps
<1>2. CASE SyncOnly
  <2>0. \A o \in OpIds : /\ ops'[o].kind = ops[o].kind /\ ops'[o].target = ops[o].target
                         /\ ops'[o].status = ops[o].status
    BY <1>0, <1>2, SyncOnlyBeside DEF Beside, SyncAims
  <2>1. CASE MoveCheck
    <3>1. ops' = ops
      BY <2>1 DEF MoveCheck, vars
    <3>2. Targets' /\ \A o \in OpIds : ops'[o].kind = "rehire" => ops'[o].target \in WorkDepts
      BY <3>1 DEF TargetsInv, Targets, IsPending
    <3>3. CompensationDepts \subseteq WorkDepts
      BY <1>0 DEF TargetsInv, CompensationDepts, LastRehire, Applied, Employees, Depts
    <3>4. CASE End
      BY <3>2, <3>4 DEF End, NoSync, TargetsInv
    <3>5. ASSUME NEW d \in CompensationDepts, sync' = [sync EXCEPT !.pc = "repair", !.dept = d]
          PROVE  TargetsInv'
      <4>1. sync'.pc = "repair" /\ sync'.dept = d
        BY <1>0, <3>5 DEF SyncMemories
      <4> QED BY <3>2, <3>3, <4>1 DEF TargetsInv
    <3>6. ASSUME NEW o \in OpIds, IsPending(o), ops[o].kind = "rehire",
                 sync' = [sync EXCEPT !.pc = "reset", !.op = o]
          PROVE  TargetsInv'
      <4>1. sync'.pc = "reset" /\ sync'.op = o
        BY <1>0, <3>6 DEF SyncMemories
      <4> QED BY <3>1, <3>2, <3>6, <4>1 DEF TargetsInv, IsPending
    <3> QED BY <2>1, <3>4, <3>5, <3>6 DEF MoveCheck
  <2>2. CASE ~MoveCheck
    <3>1. \/ UNCHANGED sync \/ End \/ sync'.pc \in {"start", "cards", "guard", "transfer", "absent", "move"}
          \/ Step("cards") \/ Step("probe") \/ Step("fire") \/ Step("check") \/ Step("autofire")
      <4>1. \A lost \in BOOLEAN : SyncStart(lost) => sync'.pc = "start"
        BY DEF SyncStart, NoSync
      <4>2. SyncRow => sync'.pc \in {"cards", "guard", "transfer"}
        BY <1>0 DEF SyncRow, SyncMemories
      <4>3. AbsentGuard => sync'.pc = "absent" \/ End
        BY <1>0 DEF AbsentGuard, SyncMemories, End
      <4>4. MoveGuard => sync'.pc = "move" \/ End
        BY <1>0 DEF MoveGuard, SyncMemories
      <4>5. SyncTransfer \/ ArchiveGuard \/ ArchiveProbe \/ FireRefused \/ AbsentCalledOff
            \/ AbsentProbePresent \/ AbsentProbe404 \/ MoveCard \/ MoveFails \/ MoveReset
            \/ MoveRepair \/ SyncCrash
              => End \/ Step("cards") \/ Step("probe") \/ Step("fire") \/ Step("check") \/ Step("autofire")
        BY DEF SyncTransfer, ArchiveGuard, ArchiveProbe, FireRefused, AbsentCalledOff,
               AbsentProbePresent, AbsentProbe404, MoveCard, MoveFails, MoveReset, MoveRepair,
               SyncCrash
      <4>6. MarkAges \/ (\E o \in OpIds : GraceEnds(o)) \/ (\E d \in Depts : OperatorMovesCard(d))
            \/ UNCHANGED allVars => UNCHANGED sync
        BY DEF MarkAges, GraceEnds, OperatorMovesCard, allVars, syncVars
      <4> QED BY <1>2, <2>2, <4>1, <4>2, <4>3, <4>4, <4>5, <4>6 DEF SyncOnly
    <3>2. sync' = sync \/ sync'.pc \notin {"reset", "repair"}
      BY <1>0, <3>1 DEF End, NoSync, Step, SyncMemories
    <3> QED BY <1>0, <2>0, <3>2, TargetsKept
  <2> QED BY <2>1, <2>2
<1>3. ASSUME NEW o \in OpIds, Dismisses(o) \/ Repairs(o) PROVE TargetsInv'
  <2>1. sync'.pc \notin {"reset", "repair"}
    <3>1. End \/ Step("cards")
      BY <1>3 DEF Dismisses, Repairs, ArchiveFire, AutoFire, MoveRepair
    <3> QED BY <1>0, <3>1 DEF End, NoSync, Step, SyncMemories
  <2>2. IF ops'[o].kind = "dismiss" THEN ops'[o].target = Archive ELSE ops'[o].target \in WorkDepts
    <3>1. Repairs(o) => sync.dept \in WorkDepts
      BY DEF Repairs, MoveRepair, TargetsInv
    <3> QED BY <1>0, <1>3, <3>1, OpenedBySync
  <2> QED BY <1>0, <1>3, <2>1, <2>2, OpenedBySync, TargetsOpen
<1> QED BY <1>0, <1>1, <1>2, <1>3, StepsOfSync

LEMMA TargetsHold == SyncSpec => []TargetsInv
<1>1. SyncInit => TargetsInv
  BY DEF SyncInit, Init, NoSync, NoOperation, TargetsInv, Targets, IsPending
<1>2. SyncTypeInv /\ TargetsInv /\ [SyncNext]_allVars => TargetsInv'
  BY TargetsNext
<1> QED BY <1>1, <1>2, SyncTypesHold, PTL DEF SyncSpec

\* Between the decision of the archive folder and the dismissal, as long as the
\* revision stays: the employee is active, nothing but a dismissal is pending,
\* and a card that has left the working departments comes back to none.
FolderInv ==
  sync.revision = emp.revision =>
    /\ sync.pc \in {"guard", "probe", "fire"} => emp.status = "active"
    /\ sync.pc \in {"probe", "fire"} => \A o \in OpIds : IsPending(o) => ops[o].kind = "dismiss"
    /\ sync.pc = "fire" => card.place \notin WorkDepts

\* What a step of an execution does to the card.
LEMMA RunMovesCard ==
  ASSUME TypeInv, ExecInv, TargetsInv, NEW x \in Runs,
         RunStep(x) \/ Crash(x) \/ \E o \in OpIds : Acquire(x, o),
         \A o \in OpIds : IsPending(o) => ops[o].kind = "dismiss"
  PROVE  card'.place = card.place \/ card'.place = Archive
<1>1. card' = card \/ (Calling(x) /\ card' = CallEffect(x))
  BY DEF RunStep, Crash, Acquire, WriteStep, SigurCall, SigurCallFails, SigurCallNotFound,
         Refresh, ChangeDept, GrantAccess, Probe, Apply, ApplyRefused
<1>2. ASSUME Calling(x), card' = CallEffect(x), run[x].pc = "move"
      PROVE  card'.place = Archive
  <2>1. run[x].op \in OpIds /\ IsPending(run[x].op)
    BY <1>2 DEF TypeInv, RunsHaveOperations, ExecInv, RunsHold
  <2>2. OpOf(x).target = Archive
    BY <2>1 DEF TargetsInv, Targets, OpOf
  <2> QED BY <1>2, <2>2 DEF CallEffect, TypeInv, TypeOK, Cards
<1>3. run[x].pc # "move" => CallEffect(x).place = card.place
  BY DEF CallEffect, TypeInv, TypeOK, Cards
<1> QED BY <1>1, <1>2, <1>3

\* Steps that leave the sync as it is, or take it away from the folder.
LEMMA FolderKept ==
  ASSUME SyncTypeInv, ReadInv, FolderInv, RevisionStep,
         \/ sync'.pc \notin {"guard", "probe", "fire"}
         \/ /\ sync' = sync
            /\ emp'.revision = emp.revision /\ sync.revision = emp.revision =>
                 /\ sync.pc \in {"probe", "fire"} =>
                      \A o \in OpIds : IsPending(o)' => ops'[o].kind = "dismiss"
                 /\ sync.pc = "fire" => card'.place \notin WorkDepts
  PROVE  FolderInv'
BY RevisionNumbers DEF FolderInv, ReadInv, RevisionStep

LEMMA FolderNext ==
  ASSUME SyncTypeInv, ReadInv, ExecInv, TargetsInv, FolderInv, [SyncNext]_allVars
  PROVE  FolderInv'
<1>0. TypeInv /\ sync \in SyncMemories /\ SyncAims /\ Archive \notin WorkDepts /\ Gone \notin WorkDepts
  BY ConstantsAssumption DEF SyncTypeInv, SyncTypeOK, TypeInv
<1>r. RevisionStep
  BY RevisionSteps
<1>1. CASE PortalStep /\ Next /\ ~EditByHand /\ UNCHANGED syncVars
  <2>0. sync' = sync
    BY <1>1 DEF syncVars
  <2>1. CASE Aside
    BY <1>0, <1>r, <2>0, <2>1, FolderKept DEF Aside, FolderInv, IsPending
  <2>2. ASSUME NEW o \in OpIds, Opening(o) PROVE FolderInv'
    <3>1. ops[o].status = "absent" /\ ops'[o].status = "pending" /\ card' = card
          /\ \A p \in OpIds : p # o => ops'[p] = ops[p]
      BY <2>2 DEF Opening
    <3>2. emp.status = "active" => ops'[o].kind = "dismiss"
      BY <1>0, <1>1, <2>2, <3>1, PortalOpens DEF Opening
    <3> QED BY <1>r, <2>0, <3>1, <3>2, FolderKept DEF FolderInv, IsPending
  <2>3. ASSUME NEW x \in Runs, RunStep(x) \/ Crash(x) \/ \E o \in OpIds : Acquire(x, o) PROVE FolderInv'
    <3>1. \A o \in OpIds : ops'[o].kind = ops[o].kind /\ (IsPending(o)' => IsPending(o))
      BY <1>0, <2>3, RunRows DEF IsPending
    <3>2. (\A o \in OpIds : IsPending(o) => ops[o].kind = "dismiss")
            => card'.place = card.place \/ card'.place = Archive
      BY <1>0, <2>3, RunMovesCard
    <3> QED BY <1>0, <1>r, <2>0, <3>1, <3>2, FolderKept DEF FolderInv
  <2> QED BY <1>0, <1>1, <2>1, <2>2, <2>3, KindsOfSteps
<1>e. ASSUME sync'.pc \notin {"guard", "probe", "fire"} PROVE FolderInv'
  BY <1>r, <1>e, FolderKept
<1>s. /\ End => sync'.pc = "idle"
      /\ \A step : Step(step) => sync'.pc = step /\ sync'.revision = sync.revision
  BY <1>0 DEF End, NoSync, Step, SyncMemories
<1>2. CASE SyncRow
  <2>1. sync'.pc = "guard" => emp.status = "active"
    BY <1>0, <1>2 DEF SyncRow, FollowsCard, SyncMemories
  <2>2. sync'.pc \in {"cards", "guard", "transfer"} /\ emp' = emp
    BY <1>0, <1>2 DEF SyncRow, SyncMemories, vars
  <2> QED BY <2>1, <2>2 DEF FolderInv
<1>3. CASE ArchiveGuard
  <2>1. CASE Protected
    BY <1>3, <1>e, <1>s, <2>1 DEF ArchiveGuard
  <2>2. CASE ~Protected
    <3>1. /\ sync.pc = "guard" /\ sync'.pc = "probe" /\ sync'.revision = sync.revision
          /\ NoPending /\ UNCHANGED <<emp, ops>>
      BY <1>3, <1>s, <2>2 DEF ArchiveGuard, Protected, vars
    <3> QED BY <3>1 DEF FolderInv, NoPending, IsPending
  <2> QED BY <2>1, <2>2
<1>4. CASE ArchiveProbe
  <2>1. CASE card.place = Archive
    <3>1. /\ sync.pc = "probe" /\ sync'.pc = "fire" /\ sync'.revision = sync.revision
          /\ UNCHANGED <<emp, ops, card>>
      BY <1>4, <1>s, <2>1 DEF ArchiveProbe, vars
    <3> QED BY <1>0, <2>1, <3>1 DEF FolderInv, IsPending
  <2>2. CASE card.place # Archive
    BY <1>4, <1>e, <1>s, <2>2 DEF ArchiveProbe
  <2> QED BY <2>1, <2>2
<1>5. ASSUME NEW lost \in BOOLEAN, SyncStart(lost) PROVE FolderInv'
  BY <1>5, <1>e DEF SyncStart, NoSync
<1>6. CASE SyncTransfer \/ FireRefused \/ AbsentCalledOff \/ AbsentProbePresent \/ AbsentProbe404
           \/ MoveCard \/ MoveFails \/ MoveReset \/ MoveRepair \/ SyncCrash
           \/ \E o \in OpIds : ArchiveFire(o) \/ AutoFire(o)
  <2>1. End \/ Step("cards") \/ Step("check") \/ Step("autofire")
    BY <1>6 DEF SyncTransfer, FireRefused, AbsentCalledOff, AbsentProbePresent, AbsentProbe404,
                MoveCard, MoveFails, MoveReset, MoveRepair, SyncCrash, ArchiveFire, AutoFire
  <2> QED BY <1>e, <1>s, <2>1
<1>7. CASE AbsentGuard \/ MoveGuard \/ MoveCheck
  <2>1. \/ End \/ sync' = NoSync
        \/ sync' = [sync EXCEPT !.pc = "absent", !.revision = emp.revision, !.confirmed = Confirmed]
        \/ sync' = [sync EXCEPT !.pc = "move", !.revision = emp.revision]
        \/ \E o \in OpIds : sync' = [sync EXCEPT !.pc = "reset", !.op = o]
        \/ \E d : sync' = [sync EXCEPT !.pc = "repair", !.dept = d]
    BY <1>7 DEF AbsentGuard, MoveGuard, MoveCheck
  <2>2. sync'.pc \in {"idle", "absent", "move", "reset", "repair"}
    BY <1>0, <1>s, <2>1 DEF SyncMemories, End
  <2> QED BY <1>e, <2>2
<1>8. CASE MarkAges \/ (\E o \in OpIds : GraceEnds(o)) \/ UNCHANGED allVars
  <2>1. sync' = sync /\ UNCHANGED <<emp, ops, card>>
    BY <1>8 DEF MarkAges, GraceEnds, allVars, syncVars, vars
  <2> QED BY <2>1 DEF FolderInv, IsPending
<1>9. ASSUME NEW d \in Depts, OperatorMovesCard(d) PROVE FolderInv'
  <2>1. sync' = sync /\ UNCHANGED <<emp, ops>> /\ card.place \in WorkDepts
    BY <1>9 DEF OperatorMovesCard
  <2> QED BY <2>1 DEF FolderInv, IsPending
<1>10. SyncOnly => FolderInv'
  BY <1>2, <1>3, <1>4, <1>5, <1>6, <1>7, <1>8, <1>9 DEF SyncOnly
<1>11. ASSUME NEW o \in OpIds, Dismisses(o) \/ Repairs(o) PROVE FolderInv'
  BY <1>6, <1>11 DEF Dismisses, Repairs
<1> QED BY <1>0, <1>1, <1>10, <1>11, StepsOfSync

LEMMA FolderHolds == ASSUME ~Overrun PROVE SyncSpec => []FolderInv
<1>1. SyncInit => FolderInv
  BY DEF SyncInit, NoSync, FolderInv
<1>2. SyncTypeInv /\ ReadInv /\ ExecInv /\ TargetsInv /\ FolderInv /\ [SyncNext]_allVars => FolderInv'
  BY FolderNext
<1> QED BY <1>1, <1>2, SyncTypesHold, ReadHolds, SyncExecHolds, TargetsHold, PTL DEF SyncSpec

\* ArchiveFireJustified: when the sync dismisses for the archive folder, the
\* card lies in no working department, though the probe is some steps old: only
\* a reinstatement or a repair brings a card back, and either is seen in the
\* revision, in the rows that are pending, or in the status.
THEOREM FolderDismissesOutsiders == ASSUME ~Overrun PROVE SyncSpec => ArchiveFireJustified
<1>1. FolderInv /\ [SyncNext]_allVars =>
        [\A o \in OpIds : ArchiveFire(o) => card.place \notin WorkDepts]_allVars
  BY DEF FolderInv, ArchiveFire, Expected
<1> QED BY <1>1, FolderHolds, PTL DEF SyncSpec, ArchiveFireJustified

-----------------------------------------------------------------------------
(***************************************************************************)
(* The batch move of the cards, and its check.                             *)
(***************************************************************************)
\* There is a last reinstatement: operations are applied at revisions that grow.
LastInv ==
  /\ Applied("rehire") # {} => LastRehire # {}
  /\ \A o \in Applied("rehire") : ops[o].base <= emp.revision

LEMMA LastKept ==
  ASSUME SyncTypeInv, LastInv, RevisionStep,
         \A p \in OpIds : p \in Applied("rehire") =>
           (p \in Applied("rehire"))' /\ ops'[p].base = ops[p].base,
         \A p \in OpIds : (p \in Applied("rehire"))' =>
           p \in Applied("rehire") \/ ops'[p].base = emp.revision
  PROVE  LastInv'
<1>0. emp.revision \in Nat /\ Applied("rehire") \subseteq OpIds /\ Applied("rehire")' \subseteq OpIds
      /\ \A p \in OpIds : ops[p].base \in Nat
  BY RevisionNumbers DEF Applied, SyncTypeInv, SyncTypeOK, TypeOK, Operations
<1>1. \A p \in Applied("rehire")' : ops'[p].base <= emp.revision
  BY <1>0 DEF LastInv
<1>2. emp'.revision >= emp.revision /\ emp'.revision \in Nat
  BY <1>0 DEF RevisionStep
<1>3. ASSUME NEW o \in Applied("rehire")', o \notin Applied("rehire") PROVE o \in LastRehire'
  <2>1. ops'[o].base = emp.revision
    BY <1>0, <1>3
  <2> QED BY <1>1, <1>3, <2>1 DEF LastRehire
<1>4. ASSUME Applied("rehire")' = Applied("rehire"), Applied("rehire") # {} PROVE LastRehire' # {}
  <2>1. PICK o \in LastRehire : TRUE
    BY <1>4 DEF LastInv
  <2>2. \A p \in Applied("rehire") : ops'[p].base = ops[p].base
    BY <1>0
  <2>3. o \in LastRehire'
    BY <1>4, <2>1, <2>2 DEF LastRehire
  <2> QED BY <2>3
<1>5. Applied("rehire")' # {} => LastRehire' # {}
  BY <1>0, <1>3, <1>4
<1>6. \A p \in Applied("rehire")' : ops'[p].base <= emp'.revision
  <2> TAKE p \in Applied("rehire")'
  <2>1. ops'[p].base <= emp.revision /\ ops'[p].base \in Nat
    BY <1>0, <1>1
  <2> QED BY <1>0, <1>2, <2>1
<1> QED BY <1>5, <1>6 DEF LastInv

LEMMA LastNext ==
  ASSUME SyncTypeInv, PendingInv, LastInv, [SyncNext]_allVars
  PROVE  LastInv'
<1>0. TypeInv /\ sync \in SyncMemories /\ SyncAims
  BY DEF SyncTypeInv, SyncTypeOK, TypeInv
<1>r. RevisionStep
  BY RevisionSteps
<1>k. ASSUME \A o \in OpIds : /\ ops'[o].kind = ops[o].kind /\ ops'[o].status = ops[o].status
                              /\ ops'[o].base = ops[o].base
      PROVE  LastInv'
  BY <1>r, <1>k, LastKept DEF Applied
<1>o. ASSUME NEW o \in OpIds, ops[o].status = "absent", ops'[o].status = "pending",
             \A p \in OpIds : p # o => ops'[p] = ops[p]
      PROVE  LastInv'
  BY <1>r, <1>o, LastKept DEF Applied
<1>1. CASE Next /\ ~EditByHand
  <2>1. CASE Aside
    BY <1>k, <2>1 DEF Aside
  <2>2. ASSUME NEW o \in OpIds, Opening(o) PROVE LastInv'
    BY <1>o, <2>2 DEF Opening
  <2>3. ASSUME NEW x \in Runs, RunStep(x) \/ Crash(x) \/ \E o \in OpIds : Acquire(x, o) PROVE LastInv'
    <3>1. \A p \in OpIds : p \in Applied("rehire") =>
            (p \in Applied("rehire"))' /\ ops'[p].base = ops[p].base
      BY <1>0, <2>3, RunRows DEF Applied
    <3>2. ASSUME NEW p \in OpIds, (p \in Applied("rehire"))', p \notin Applied("rehire")
          PROVE  ops'[p].base = emp.revision
      <4>1. IsPending(p) /\ ops[p].kind = "rehire" /\ ops'[p].base = ops[p].base
        BY <1>0, <2>3, <3>2, RunRows DEF Applied, IsPending
      <4> QED BY <4>1 DEF PendingInv, Owns
    <3> QED BY <1>r, <3>1, <3>2, LastKept
  <2> QED BY <1>0, <1>1, <2>1, <2>2, <2>3, KindsOfSteps
<1>2. CASE SyncOnly
  BY <1>0, <1>2, <1>k, SyncOnlyBeside DEF Beside, SyncAims
<1>3. ASSUME NEW o \in OpIds, Dismisses(o) \/ Repairs(o) PROVE LastInv'
  BY <1>0, <1>3, <1>o, OpenedBySync
<1> QED BY <1>0, <1>1, <1>2, <1>3, StepsOfSync

LEMMA LastHolds == ASSUME ~Overrun, ~Stall PROVE SyncSpec => []LastInv
<1>1. SyncInit => LastInv
  BY DEF SyncInit, Init, NoOperation, LastInv, Applied
<1>2. SyncTypeInv /\ PendingInv /\ LastInv /\ [SyncNext]_allVars => LastInv'
  BY LastNext
<1> QED BY <1>1, <1>2, SyncTypesHold, SyncPendingHolds, PTL DEF SyncSpec

\* From the guard before the batch move to the end of its compensation no repair
\* is pending, and who is active meanwhile has been reinstated.
Moving == {"move", "check", "reset", "repair"}

RaceInv ==
  sync.pc \in Moving =>
    /\ \A o \in OpIds : IsPending(o) => ops[o].kind # "repair_sigur"
    /\ emp.status = "active" => Applied("rehire") # {}

\* An execution makes nobody active but by applying a reinstatement.
LEMMA RunStatus ==
  ASSUME TypeInv, NEW x \in Runs, RunStep(x) \/ Crash(x) \/ \E o \in OpIds : Acquire(x, o)
  PROVE  emp'.status \in {emp.status, "fired"} \/ Applied("rehire")' # {}
<1>1. CASE Apply(x)
  <2>1. PICK o \in OpIds : /\ o = run[x].op /\ ops'[o].status = "applied"
                           /\ emp'.status = IF ops[o].kind = "dismiss" THEN "fired" ELSE "active"
                           /\ ops[o].kind = "repair_sigur" => emp'.status = emp.status
    BY <1>1, ApplyEffect
  <2>2. ops'[o].kind = ops[o].kind /\ ops[o].kind \in Kinds
    BY <1>1, RunRows DEF TypeInv, TypeOK, Operations
  <2>3. ops[o].kind = "rehire" => o \in Applied("rehire")'
    BY <2>1, <2>2 DEF Applied
  <2> QED BY <2>1, <2>2, <2>3 DEF Kinds
<1>2. CASE ~Apply(x)
  <2>1. emp'.status = emp.status
    BY <1>2 DEF RunStep, Crash, Acquire, WriteStep, SigurCall, SigurCallFails, SigurCallNotFound,
               Refresh, ChangeDept, GrantAccess, Probe, ApplyRefused, TypeInv, TypeOK, Employees
  <2> QED BY <2>1
<1> QED BY <1>1, <1>2

LEMMA RaceKept ==
  ASSUME TypeInv, RaceInv, sync'.pc \in Moving => sync.pc \in Moving,
         emp'.status \in {emp.status, "fired"} \/ Applied("rehire")' # {},
         \A o \in OpIds :
           /\ IsPending(o)' /\ ops'[o].kind = "repair_sigur" => IsPending(o) /\ ops[o].kind = "repair_sigur"
           /\ o \in Applied("rehire") => (o \in Applied("rehire"))'
  PROVE  RaceInv'
<1>1. Applied("rehire") # {} => Applied("rehire")' # {}
  BY DEF Applied
<1> QED BY <1>1 DEF RaceInv

LEMMA RaceNext ==
  ASSUME SyncTypeInv, RaceInv, [SyncNext]_allVars
  PROVE  RaceInv'
<1>0. TypeInv /\ sync \in SyncMemories /\ SyncAims
  BY DEF SyncTypeInv, SyncTypeOK, TypeInv
<1>1. CASE PortalStep /\ Next /\ ~EditByHand /\ UNCHANGED syncVars
  <2>0. sync' = sync
    BY <1>1 DEF syncVars
  <2>1. CASE Aside
    BY <1>0, <2>0, <2>1, RaceKept DEF Aside, SameEmployee, Applied, IsPending
  <2>2. ASSUME NEW o \in OpIds, Opening(o) PROVE RaceInv'
    <3>1. /\ ops[o].status = "absent" /\ ops'[o].status = "pending" /\ emp'.status = emp.status
          /\ \A p \in OpIds : p # o => ops'[p] = ops[p]
      BY <2>2 DEF Opening, SameEmployee
    <3>2. ops'[o].kind # "repair_sigur"
      BY <1>0, <1>1, <3>1, PortalOpens
    <3> QED BY <1>0, <2>0, <3>1, <3>2, RaceKept DEF Applied, IsPending
  <2>3. ASSUME NEW x \in Runs, RunStep(x) \/ Crash(x) \/ \E o \in OpIds : Acquire(x, o) PROVE RaceInv'
    BY <1>0, <2>0, <2>3, RunRows, RunStatus, RaceKept DEF Applied, IsPending
  <2> QED BY <1>0, <1>1, <2>1, <2>2, <2>3, KindsOfSteps
<1>2. CASE SyncOnly
  <2>1. /\ emp'.status = emp.status
        /\ \A o \in OpIds : ops'[o].kind = ops[o].kind /\ ops'[o].status = ops[o].status
    BY <1>0, <1>2, SyncOnlyBeside DEF Beside, SyncAims
  <2>2. CASE MoveGuard /\ ~End
    <3>1. emp.status = "fired" /\ NoPending
      BY <2>2 DEF MoveGuard
    <3> QED BY <2>1, <3>1 DEF RaceInv, NoPending, IsPending
  <2>3. CASE ~(MoveGuard /\ ~End)
    <3>1. sync'.pc \in Moving => sync.pc \in Moving
      <4>e. End => sync'.pc = "idle"
        BY DEF End, NoSync
      <4>g. \A step : Step(step) => sync'.pc = step
        BY <1>0 DEF Step, SyncMemories
      <4>1. ASSUME NEW lost \in BOOLEAN, SyncStart(lost) PROVE sync'.pc = "start"
        BY <4>1 DEF SyncStart, NoSync
      <4>2. SyncRow => sync'.pc \in {"cards", "guard", "transfer"}
        BY <1>0 DEF SyncRow, SyncMemories
      <4>3. SyncTransfer \/ ArchiveGuard \/ ArchiveProbe \/ FireRefused \/ AbsentCalledOff
            \/ AbsentProbePresent \/ AbsentProbe404 \/ SyncCrash \/ MoveFails \/ MoveReset \/ MoveRepair
              => sync'.pc \in {"cards", "probe", "fire", "idle", "autofire"}
        <5>1. SyncTransfer \/ ArchiveGuard \/ ArchiveProbe \/ FireRefused \/ AbsentCalledOff
              \/ AbsentProbePresent \/ AbsentProbe404 \/ SyncCrash \/ MoveFails \/ MoveReset \/ MoveRepair
                => End \/ Step("cards") \/ Step("probe") \/ Step("fire") \/ Step("autofire")
          BY DEF SyncTransfer, ArchiveGuard, ArchiveProbe, FireRefused, AbsentCalledOff,
                 AbsentProbePresent, AbsentProbe404, SyncCrash, MoveFails, MoveReset, MoveRepair
        <5> QED BY <4>e, <4>g, <5>1
      <4>4. AbsentGuard => sync'.pc \in {"absent", "idle"}
        <5>1. AbsentGuard => sync' = NoSync \/
                sync' = [sync EXCEPT !.pc = "absent", !.revision = emp.revision, !.confirmed = Confirmed]
          BY DEF AbsentGuard
        <5> QED BY <1>0, <4>e, <5>1 DEF SyncMemories, End
      <4>5. MoveCard \/ MoveCheck => sync.pc \in Moving
        BY DEF MoveCard, MoveCheck, Moving
      <4>6. MarkAges \/ (\E o \in OpIds : GraceEnds(o)) \/ (\E d \in Depts : OperatorMovesCard(d))
            \/ UNCHANGED allVars => UNCHANGED sync
        BY DEF MarkAges, GraceEnds, OperatorMovesCard, allVars, syncVars
      <4> QED BY <1>2, <2>3, <4>e, <4>1, <4>2, <4>3, <4>4, <4>5, <4>6 DEF SyncOnly, Moving
    <3> QED BY <1>0, <2>1, <3>1, RaceKept DEF Applied, IsPending
  <2> QED BY <2>2, <2>3
<1>3. ASSUME NEW o \in OpIds, Dismisses(o) \/ Repairs(o) PROVE RaceInv'
  <2>1. End \/ Step("cards")
    BY <1>3 DEF Dismisses, Repairs, ArchiveFire, AutoFire, MoveRepair
  <2>2. sync'.pc \in {"idle", "cards"}
    BY <1>0, <2>1 DEF End, NoSync, Step, SyncMemories
  <2> QED BY <2>2 DEF RaceInv, Moving
<1> QED BY <1>0, <1>1, <1>2, <1>3, StepsOfSync

LEMMA RaceHolds == SyncSpec => []RaceInv
<1>1. SyncInit => RaceInv
  BY DEF SyncInit, NoSync, RaceInv, Moving
<1>2. SyncTypeInv /\ RaceInv /\ [SyncNext]_allVars => RaceInv'
  BY RaceNext
<1> QED BY <1>1, <1>2, SyncTypesHold, PTL DEF SyncSpec

-----------------------------------------------------------------------------
(***************************************************************************)
(* The card beside the synchronisation.                                    *)
(***************************************************************************)
\* Between the batch move and the end of its check the card of a reinstatement
\* may lie in the archive, until the compensation that of an active employee;
\* unless a move has slipped past the check, nothing else may.
SettleInv ==
  ~slipped =>
    /\ RunsFollow
    /\ sync.pc \in {"check", "reset"} => CardFits(TRUE, TRUE)
    /\ sync.pc = "repair" => CardFits(FALSE, TRUE)
    /\ sync.pc \notin {"check", "reset", "repair"} => CardFits(FALSE, FALSE)

LEMMA FitsLooser ==
  CardFits(FALSE, FALSE) => CardFits(FALSE, TRUE) /\ CardFits(TRUE, TRUE)
<1>1. \A o \in OpIds : RowSays(o, FALSE) => RowSays(o, TRUE)
  BY DEF RowSays
<1>2. \A x \in Runs : RunSays(x, FALSE) => RunSays(x, TRUE)
  BY DEF RunSays
<1>3. RestSays(FALSE) => RestSays(TRUE)
  BY DEF RestSays
<1> QED BY <1>1, <1>2, <1>3 DEF CardFits

\* What is late can only be a reinstatement's, what is lost only an active
\* employee's with nothing pending.
LEMMA FitsTighter ==
  ASSUME TypeInv, ExecInv, CardFits(TRUE, TRUE),
         \A o \in OpIds : IsPending(o) => ops[o].kind # "rehire"
  PROVE  /\ CardFits(FALSE, TRUE)
         /\ ~NoPending \/ emp.status = "fired" => CardFits(FALSE, FALSE)
<1>1. \A o \in OpIds : IsPending(o) /\ RowSays(o, TRUE) => RowSays(o, FALSE)
  BY DEF RowSays
<1>2. ASSUME NEW x \in Runs, Busy(x), RunSays(x, TRUE) PROVE RunSays(x, FALSE)
  <2>1. KindOf(x) # "rehire"
    BY <1>2 DEF Busy, TypeInv, RunsHaveOperations, ExecInv, RunsHold, KindOf, OpOf
  <2> QED BY <1>2, <2>1 DEF RunSays
<1>3. RestSays(TRUE) /\ (~NoPending \/ emp.status = "fired") => RestSays(FALSE)
  BY DEF RestSays
<1> QED BY <1>1, <1>2, <1>3 DEF CardFits

\* The steps of the operations themselves, as they are without a sync.
LEMMA FitsNext ==
  ASSUME TypeInv, ExecInv, PendingInv, StepInv, Next, ~EditByHand,
         NEW late \in BOOLEAN, NEW lost \in BOOLEAN, late => lost, CardFits(late, lost)
  PROVE  CardFits(late, lost)'
<1>1. CASE Aside \/ \E o \in OpIds : Opening(o)
  BY <1>1, CardAside
<1>2. ASSUME NEW x \in Runs, RunStep(x) \/ Crash(x) PROVE CardFits(late, lost)'
  BY <1>2, CardRuns
<1>3. ASSUME NEW x \in Runs, NEW o \in OpIds, Acquire(x, o) PROVE CardFits(late, lost)'
  BY <1>3, CardAcquire
<1> QED BY <1>1, <1>2, <1>3, KindsOfSteps

LEMMA FollowNext ==
  ASSUME TypeInv, ExecInv, PendingInv, StepInv, Next, ~EditByHand
  PROVE  RunsFollow'
<1>1. ASSUME StepInv' PROVE RunsFollow'
  BY <1>1 DEF StepInv
<1>2. ASSUME NEW x \in Runs, RunStep(x) \/ Crash(x) PROVE StepInv'
  BY <1>2, StepRuns
<1>3. ASSUME NEW x \in Runs, NEW o \in OpIds, Acquire(x, o) PROVE StepInv'
  BY <1>3, StepAcquire
<1> QED BY <1>1, <1>2, <1>3, StepAside, KindsOfSteps

\* Steps that leave the executions and their rows alone.
LEMMA FollowKept ==
  ASSUME TypeInv, RunsFollow, run' = run, card.place = Gone => card'.place = Gone,
         \A o \in OpIds : ops'[o].kind = ops[o].kind /\ ops'[o].flags = ops[o].flags
  PROVE  RunsFollow'
<1>1. \A x \in Runs : Busy(x) => run[x].op \in OpIds
  BY DEF TypeInv, RunsHaveOperations, Busy
<1> QED BY <1>1 DEF RunsFollow, Busy, KindOf, OpOf

\* Steps of a sync that has no move to check, and none to answer for after it.
LEMMA SettleKept ==
  ASSUME TypeInv, SettleInv, slipped' = slipped,
         sync.pc \notin {"check", "reset", "repair"}, sync'.pc \notin {"check", "reset", "repair"},
         run' = run, card' = card, emp'.status = emp.status, emp'.linked = emp.linked, ops' = ops
  PROVE  SettleInv'
<1>1. CardFits(FALSE, FALSE) => CardFits(FALSE, FALSE)'
  BY CardKept
<1>2. RunsFollow => RunsFollow'
  BY FollowKept
<1> QED BY <1>1, <1>2 DEF SettleInv

\* Steps that leave the sync, the employee and the operations as they are.
LEMMA SettleStays ==
  ASSUME TypeInv, SettleInv, sync' = sync, slipped' = slipped, UNCHANGED <<emp, ops, card, run>>
  PROVE  SettleInv'
<1>1. \A late, lost \in BOOLEAN : CardFits(late, lost) => CardFits(late, lost)'
  BY CardKept
<1>2. RunsFollow => RunsFollow'
  BY FollowKept
<1> QED BY <1>1, <1>2 DEF SettleInv

\* The batch move takes a card to the archive, whoever wants it elsewhere.
LEMMA SettleMove ==
  ASSUME TypeInv, ExecInv, RaceInv, SettleInv, MoveCard, sync \in SyncMemories
  PROVE  SettleInv'
<1>s. sync.pc = "move" /\ UNCHANGED <<emp, ops, run, slipped>>
  BY DEF MoveCard
<1>e. End => sync'.pc = "idle"
  BY DEF End, NoSync
<1>1. CASE card.place = Gone
  BY <1>s, <1>e, <1>1, SettleKept DEF MoveCard
<1>2. CASE card.place # Gone
  <2>1. /\ sync'.pc = "check" /\ card'.place = Archive /\ card'.blocked = card.blocked
    BY <1>2 DEF MoveCard, Step, SyncMemories, TypeInv, TypeOK, Cards
  <2> SUFFICES ASSUME ~slipped PROVE RunsFollow' /\ CardFits(TRUE, TRUE)'
    BY <1>s, <2>1 DEF SettleInv
  <2>2. RunsFollow'
    BY <1>2, <1>s, FollowKept DEF SettleInv
  <2> SUFFICES ASSUME OnPortal' PROVE CardFits(TRUE, TRUE)'
    BY <2>2 DEF CardFits
  <2>3. OnPortal /\ CardFits(FALSE, FALSE)
    BY <1>2, <1>s DEF OnPortal, SettleInv
  <2>4. \A o \in OpIds : IsPending(o) => ops[o].kind # "repair_sigur"
    BY <1>s DEF RaceInv, Moving
  <2>5. RestSays(TRUE)'
    BY <1>s, <2>1, <2>3 DEF CardFits, RestSays, NoPending, IsPending
  <2>6. ASSUME NEW o \in OpIds, IsPending(o)' PROVE RowSays(o, TRUE)'
    <3>1. IsPending(o) /\ RowSays(o, FALSE)
      BY <1>s, <2>3, <2>6 DEF CardFits, IsPending
    <3> QED BY <1>s, <2>1, <3>1 DEF RowSays
  <2>7. ASSUME NEW x \in Runs, Busy(x)' PROVE RunSays(x, TRUE)'
    <3>1. Busy(x) /\ RunSays(x, FALSE) /\ KindOf(x) # "repair_sigur"
      BY <1>s, <2>3, <2>4, <2>7
         DEF CardFits, Busy, TypeInv, RunsHaveOperations, ExecInv, RunsHold, KindOf, OpOf
    <3> QED BY <1>s, <2>1, <3>1 DEF RunSays, KindOf, OpOf
  <2> QED BY <2>5, <2>6, <2>7 DEF CardFits
<1> QED BY <1>1, <1>2

\* The check: nothing raced, or a pending reinstatement is to move the card
\* again, or an active employee's card is to be repaired.
LEMMA SettleCheck ==
  ASSUME TypeInv, ExecInv, PendingInv, RaceInv, LastInv, SettleInv, MoveCheck, sync \in SyncMemories
  PROVE  SettleInv'
<1>s. sync.pc = "check" /\ UNCHANGED <<emp, ops, card, run, slipped>>
  BY DEF MoveCheck, vars
<1> SUFFICES ASSUME ~slipped PROVE SettleInv'
  BY <1>s DEF SettleInv
<1>f. RunsFollow'
  BY <1>s, FollowKept DEF SettleInv
<1>c. CardFits(TRUE, TRUE)
  BY <1>s DEF SettleInv
<1>k. \A late, lost \in BOOLEAN : CardFits(late, lost) => CardFits(late, lost)'
  BY <1>s, CardKept
<1>e. ASSUME End, CardFits(FALSE, FALSE) PROVE SettleInv'
  <2>1. sync'.pc = "idle"
    BY <1>e DEF End, NoSync
  <2> QED BY <1>f, <1>k, <1>e, <2>1 DEF SettleInv
<1>1. ASSUME ~Raced, End PROVE SettleInv'
  <2>1. emp.status = "fired" /\ \A o \in OpIds : IsPending(o) => ops[o].kind # "rehire"
    BY <1>1 DEF Raced, TypeInv, TypeOK, Employees
  <2> QED BY <1>c, <1>e, <1>1, <2>1, FitsTighter
<1>2. ASSUME NEW o \in OpIds, IsPending(o),
             IF ops[o].kind = "rehire" THEN sync' = [sync EXCEPT !.pc = "reset", !.op = o] ELSE End
      PROVE  SettleInv'
  <2>1. CASE ops[o].kind = "rehire"
    <3>1. sync'.pc = "reset"
      BY <1>2, <2>1 DEF SyncMemories
    <3> QED BY <1>f, <1>c, <1>k, <3>1 DEF SettleInv
  <2>2. CASE ops[o].kind # "rehire"
    <3>1. ~NoPending /\ \A p \in OpIds : IsPending(p) => ops[p].kind # "rehire"
      BY <1>2, <2>2 DEF PendingInv, OnePending, NoPending
    <3> QED BY <1>c, <1>e, <1>2, <2>2, <3>1, FitsTighter
  <2> QED BY <2>1, <2>2
<1>3. ASSUME NoPending,
             IF CompensationDepts = {} THEN End
             ELSE \E d \in CompensationDepts : sync' = [sync EXCEPT !.pc = "repair", !.dept = d]
      PROVE  SettleInv'
  <2>1. \A p \in OpIds : IsPending(p) => ops[p].kind # "rehire"
    BY <1>3 DEF NoPending
  <2>2. CASE CompensationDepts = {}
    <3>1. emp.status # "active"
      <4>1. ASSUME emp.status = "active" PROVE FALSE
        <5>1. Applied("rehire") # {} /\ LastRehire # {}
          BY <1>s, <4>1 DEF RaceInv, Moving, LastInv
        <5>2. PICK o \in LastRehire : TRUE
          BY <5>1
        <5>3. ops[o].target \in CompensationDepts
          BY <5>1, <5>2 DEF CompensationDepts
        <5> QED BY <2>2, <5>3
      <4> QED BY <4>1
    <3>2. emp.status = "fired"
      BY <3>1 DEF TypeInv, TypeOK, Employees
    <3> QED BY <1>c, <1>e, <1>3, <2>1, <2>2, <3>2, FitsTighter
  <2>3. CASE CompensationDepts # {}
    <3>1. sync'.pc = "repair"
      BY <1>3, <2>3 DEF SyncMemories
    <3>2. CardFits(FALSE, TRUE)
      BY <1>c, <2>1, FitsTighter
    <3> QED BY <1>f, <1>k, <3>1, <3>2 DEF SettleInv
  <2> QED BY <2>2, <2>3
<1> QED BY <1>1, <1>2, <1>3 DEF MoveCheck

\* The reset in time: the run, if there is one, has the move still before it.
LEMMA SettleReset ==
  ASSUME TypeInv, ExecInv, PendingInv, TargetsInv, SettleInv, MoveReset, sync.op \in OpIds
  PROVE  SettleInv'
<1>o. PICK o \in OpIds : o = sync.op
  OBVIOUS
<1>s. /\ sync.pc = "reset" /\ UNCHANGED <<emp, card, run>>
      /\ slipped' = (slipped \/ TooLate(o))
  BY <1>o DEF MoveReset
<1>p. sync'.pc = "idle"
  BY DEF MoveReset, End, NoSync
<1> SUFFICES ASSUME ~slipped, ~TooLate(o) PROVE RunsFollow' /\ CardFits(FALSE, FALSE)'
  BY <1>s, <1>p DEF SettleInv
<1>1. /\ IsPending(o) /\ ops[o].kind = "rehire"
      /\ \A x \in Runs : Working(x, o) => run[x].pc = "move"
  BY <1>o, <1>s DEF TooLate, TargetsInv
<1>2. ops' = [ops EXCEPT ![o].flags.moved = FALSE]
  BY <1>o, <1>1 DEF MoveReset
<1>3. \A p \in OpIds : IsPending(p) => p = o
  BY <1>1 DEF PendingInv, OnePending
<1>4. ops[o] \in Operations /\ ops[o].flags \in Flags /\ ops \in [OpIds -> Operations]
  BY DEF TypeInv, TypeOK, Operations
<1> DEFINE f == [ops[o].flags EXCEPT !.moved = FALSE]
<1>5. /\ ~f.moved /\ f.moveReq = ops[o].flags.moveReq /\ f.accessReq = ops[o].flags.accessReq
      /\ f.toggled = ops[o].flags.toggled
      /\ ~ops[o].flags.moved => f = ops[o].flags
  BY <1>4 DEF Flags
<1>6. ops' = [ops EXCEPT ![o] = [ops[o] EXCEPT !.flags = f]]
  BY <1>2
<1> HIDE DEF f
<1>7. /\ \A p \in OpIds : p # o => ops'[p] = ops[p]
      /\ ops'[o].flags = f /\ ops'[o].kind = "rehire" /\ ops'[o].status = "pending"
  BY <1>1, <1>4, <1>6 DEF Operations, IsPending
<1>8. \A x \in Runs : Busy(x) => run[x].op = o /\ run[x].pc = "move"
  BY <1>1, <1>3 DEF Busy, Working, TypeInv, RunsHaveOperations, ExecInv, RunsHold
<1>9. RunsFollow'
  <2> SUFFICES ASSUME NEW x \in Runs, Busy(x)
               PROVE  run[x].flags = ops'[o].flags /\ ~run[x].flags.moved
    BY <1>s, <1>7, <1>8 DEF RunsFollow, Busy, KindOf, OpOf
  <2>1. run[x].flags = ops[o].flags /\ ~run[x].flags.moved
    BY <1>s, <1>8 DEF SettleInv, RunsFollow, OpOf
  <2> QED BY <1>5, <1>7, <2>1
<1>10. CardFits(FALSE, FALSE)'
  <2> SUFFICES ASSUME OnPortal PROVE CardFits(FALSE, FALSE)'
    BY <1>s DEF CardFits, OnPortal
  <2>1. RowSays(o, TRUE)
    BY <1>s, <1>1 DEF SettleInv, CardFits
  <2>2. RowSays(o, FALSE)'
    BY <1>s, <1>1, <1>5, <1>7, <2>1 DEF RowSays
  <2>3. ~NoPending'
    BY <1>7 DEF NoPending, IsPending
  <2>4. \A p \in OpIds : IsPending(p)' => p = o
    BY <1>3, <1>7 DEF IsPending
  <2>5. \A x \in Runs : Busy(x)' => RunSays(x, FALSE)'
    BY <1>s, <1>8 DEF Busy, RunSays
  <2> QED BY <2>2, <2>3, <2>4, <2>5 DEF CardFits, RestSays
<1> QED BY <1>9, <1>10

\* A compensation that has nothing left to repair.
LEMMA SettleNoRepair ==
  ASSUME TypeInv, SettleInv, MoveRepair, UNCHANGED vars
  PROVE  SettleInv'
<1>1. sync.pc = "repair" /\ slipped' = slipped /\ UNCHANGED <<emp, ops, card, run>>
  BY DEF MoveRepair, vars
<1>2. sync'.pc = "idle"
  BY DEF MoveRepair, End, NoSync
<1>3. ~(emp.status = "active" /\ emp.linked /\ NoPending)
  <2>1. ASSUME NEW o \in OpIds, OpenRepair(o, sync.dept) PROVE FALSE
    <3>1. ops[o].status = "absent" /\ ops'[o].status = "pending"
      BY <2>1, InsertOpens DEF OpenRepair
    <3> QED BY <1>1, <3>1
  <2> QED BY <2>1 DEF MoveRepair
<1>4. CardFits(FALSE, TRUE) => CardFits(FALSE, FALSE)
  BY <1>3 DEF CardFits, RestSays, OnPortal, TypeInv, TypeOK, Employees
<1>5. CardFits(FALSE, FALSE) => CardFits(FALSE, FALSE)'
  BY <1>1, CardKept
<1>6. RunsFollow => RunsFollow'
  BY <1>1, FollowKept
<1> QED BY <1>1, <1>2, <1>4, <1>5, <1>6 DEF SettleInv

\* An operator of Sigur moves the card among the working departments.
LEMMA SettleOperator ==
  ASSUME TypeInv, SettleInv, NEW d \in Depts, OperatorMovesCard(d)
  PROVE  SettleInv'
<1>1. /\ sync' = sync /\ UNCHANGED <<emp, ops, run>> /\ card.place \in WorkDepts
      /\ slipped' = (slipped \/ d = Archive)
  BY DEF OperatorMovesCard
<1>2. card'.place = d /\ card'.blocked = card.blocked
  BY DEF OperatorMovesCard, TypeInv, TypeOK, Cards
<1>0. Archive \notin WorkDepts /\ Gone \notin WorkDepts /\ Gone # Archive
  BY ConstantsAssumption
<1>3. CASE d = Archive
  BY <1>1, <1>3 DEF SettleInv
<1>4. ASSUME d # Archive PROVE SettleInv'
  <2>1. card'.place \in WorkDepts
    BY <1>2, <1>4 DEF Depts
  <2>2. ASSUME NEW late \in BOOLEAN, NEW lost \in BOOLEAN, CardFits(late, lost)
        PROVE  CardFits(late, lost)'
    <3> SUFFICES ASSUME OnPortal' PROVE CardFits(late, lost)'
      BY DEF CardFits
    <3>0. OnPortal
      BY <1>0, <1>1 DEF OnPortal
    <3>1. RestSays(lost)'
      BY <1>0, <1>1, <1>2, <2>1, <2>2, <3>0 DEF CardFits, RestSays, NoPending, IsPending
    <3>2. ASSUME NEW o \in OpIds, IsPending(o)' PROVE RowSays(o, late)'
      <4>1. RowSays(o, late)
        BY <1>1, <2>2, <3>0, <3>2 DEF CardFits, IsPending
      <4> QED BY <1>0, <1>1, <1>2, <2>1, <4>1 DEF RowSays
    <3>3. ASSUME NEW x \in Runs, Busy(x)' PROVE RunSays(x, late)'
      <4>1. RunSays(x, late)
        BY <1>1, <2>2, <3>0, <3>3 DEF CardFits, Busy
      <4> QED BY <1>0, <1>1, <1>2, <2>1, <4>1 DEF RunSays, KindOf, OpOf
    <3> QED BY <3>1, <3>2, <3>3 DEF CardFits
  <2>3. RunsFollow => RunsFollow'
    BY <1>0, <1>1, FollowKept
  <2> QED BY <1>1, <2>2, <2>3 DEF SettleInv
<1> QED BY <1>3, <1>4

\* Dismissals by the archive folder are of cards in the archive, those of the
\* missing of deleted cards; a repair is opened for an active employee.
LEMMA SettleOpens ==
  ASSUME MaxFaults < 4, SyncTypeInv, ExecInv, FolderInv, StrikesInv, SettleInv,
         NEW o \in OpIds, Dismisses(o) \/ Repairs(o)
  PROVE  SettleInv'
<1>0. /\ TypeInv /\ sync \in SyncMemories /\ card \in Cards /\ Archive \notin WorkDepts
      /\ faults \in Nat /\ MaxFaults \in Nat
  BY ConstantsAssumption DEF SyncTypeInv, SyncTypeOK, TypeInv, TypeOK
<1>1. /\ NoPending /\ emp.status = "active" /\ ops[o].status = "absent"
      /\ \A p \in OpIds : p # o => ops'[p] = ops[p]
      /\ ops'[o].status = "pending" /\ card' = card /\ run' = run
      /\ emp'.status = emp.status /\ emp'.linked = emp.linked
  BY <1>0, OpenedBySync
<1>2. sync.pc \in {"fire", "autofire", "repair"} /\ slipped' = slipped
  BY DEF Dismisses, Repairs, ArchiveFire, AutoFire, MoveRepair
<1>3. sync'.pc \in {"idle", "cards"}
  <2>1. End \/ Step("cards")
    BY DEF Dismisses, Repairs, ArchiveFire, AutoFire, MoveRepair
  <2> QED BY <1>0, <2>1 DEF End, NoSync, Step, SyncMemories
<1> SUFFICES ASSUME ~slipped PROVE RunsFollow' /\ CardFits(FALSE, FALSE)'
  BY <1>2, <1>3 DEF SettleInv
<1>4. \A x \in Runs : ~Busy(x)'
  BY <1>0, <1>1, NoRun DEF Busy
<1>5. RunsFollow'
  BY <1>4 DEF RunsFollow
<1> SUFFICES ASSUME OnPortal' PROVE RowSays(o, FALSE)'
  <2>1. ~NoPending' /\ \A p \in OpIds : IsPending(p)' => p = o
    BY <1>1 DEF NoPending, IsPending
  <2> QED BY <1>4, <1>5, <2>1 DEF CardFits, RestSays
<1>6. OnPortal /\ ~card.blocked
  BY <1>1, <1>2 DEF OnPortal, SettleInv, CardFits, RestSays
<1>7. CASE ArchiveFire(o)
  <2>1. card.place = Archive
    <3>1. card.place \notin WorkDepts
      BY <1>7 DEF ArchiveFire, Expected, FolderInv
    <3> QED BY <1>0, <1>6, <3>1 DEF Cards, Depts, OnPortal
  <2>2. ops'[o].kind = "dismiss" /\ ops'[o].flags = Needs(FALSE, emp.linked)
    BY <1>0, <1>7, InsertOpens DEF ArchiveFire, OpenDismissClaiming
  <2> QED BY <1>1, <1>6, <2>1, <2>2 DEF RowSays, Needs, OnPortal
<1>8. CASE AutoFire(o)
  <2>1. sync.pc = "autofire"
    BY <1>8 DEF AutoFire
  <2> QED BY <1>0, <1>6, <2>1 DEF StrikesInv, OnPortal
<1>9. CASE Repairs(o)
  <2>1. ops'[o].kind = "repair_sigur"
    BY <1>0, <1>9, OpenedBySync
  <2> QED BY <1>1, <1>6, <2>1 DEF RowSays
<1> QED BY <1>7, <1>8, <1>9 DEF Dismisses

LEMMA SettleNext ==
  ASSUME MaxFaults < 4, SyncTypeInv, ExecInv, PendingInv, TargetsInv, FolderInv, StrikesInv,
         RaceInv, LastInv, SettleInv, [SyncNext]_allVars
  PROVE  SettleInv'
<1>0. TypeInv /\ sync \in SyncMemories /\ SyncAims
  BY DEF SyncTypeInv, SyncTypeOK, TypeInv
<1>1. CASE Next /\ ~EditByHand /\ UNCHANGED syncVars
  <2>1. sync' = sync /\ slipped' = slipped
    BY <1>1 DEF syncVars
  <2> SUFFICES ASSUME ~slipped PROVE SettleInv'
    BY <2>1 DEF SettleInv
  <2>2. StepInv
    BY DEF SettleInv, StepInv, TargetsInv
  <2>3. RunsFollow'
    BY <1>0, <1>1, <2>2, FollowNext
  <2>4. /\ CardFits(TRUE, TRUE) => CardFits(TRUE, TRUE)'
        /\ CardFits(FALSE, TRUE) => CardFits(FALSE, TRUE)'
        /\ CardFits(FALSE, FALSE) => CardFits(FALSE, FALSE)'
    BY <1>0, <1>1, <2>2, FitsNext
  <2> QED BY <2>1, <2>3, <2>4 DEF SettleInv
<1>e. End => sync'.pc = "idle"
  BY DEF End, NoSync
<1>g. \A step : Step(step) => sync'.pc = step
  BY <1>0 DEF Step, SyncMemories
<1>2. ASSUME NEW lost \in BOOLEAN, SyncStart(lost) PROVE SettleInv'
  <2>1. /\ sync.pc = "idle" /\ sync'.pc = "start" /\ slipped' = slipped
        /\ UNCHANGED <<emp, ops, card, run>>
    BY <1>2 DEF SyncStart, NoSync
  <2> QED BY <1>0, <2>1, SettleKept
<1>3. CASE SyncRow
  <2>1. /\ sync.pc = "start" /\ sync'.pc \in {"cards", "guard", "transfer"} /\ slipped' = slipped
        /\ UNCHANGED <<emp, ops, card, run>>
    BY <1>0, <1>3 DEF SyncRow, SyncMemories, vars
  <2> QED BY <1>0, <2>1, SettleKept
<1>4. CASE SyncTransfer \/ ArchiveGuard \/ ArchiveProbe \/ FireRefused \/ AbsentCalledOff
           \/ AbsentProbePresent \/ AbsentProbe404
  <2>1. End \/ Step("cards") \/ Step("probe") \/ Step("fire") \/ Step("autofire")
    BY <1>4 DEF SyncTransfer, ArchiveGuard, ArchiveProbe, FireRefused, AbsentCalledOff,
                AbsentProbePresent, AbsentProbe404
  <2>2. sync.pc \in {"transfer", "guard", "probe", "fire", "autofire", "start", "absent"}
    BY <1>4 DEF SyncTransfer, ArchiveGuard, ArchiveProbe, FireRefused, AbsentCalledOff,
                AbsentProbePresent, AbsentProbe404
  <2>3. slipped' = slipped /\ UNCHANGED <<ops, card, run>>
    BY <1>4 DEF SyncTransfer, ArchiveGuard, ArchiveProbe, FireRefused, AbsentCalledOff,
                AbsentProbePresent, AbsentProbe404, vars
  <2>4. emp'.status = emp.status /\ emp'.linked = emp.linked
    <3>1. SyncOnly
      BY <1>4 DEF SyncOnly
    <3> QED BY <1>0, <3>1, SyncOnlyBeside DEF Beside, SyncAims
  <2>5. sync'.pc \notin {"check", "reset", "repair"}
    BY <1>e, <1>g, <2>1
  <2> QED BY <1>0, <2>2, <2>3, <2>4, <2>5, SettleKept
<1>5. CASE AbsentGuard \/ MoveGuard
  <2>1. \/ End \/ sync' = NoSync
        \/ sync' = [sync EXCEPT !.pc = "absent", !.revision = emp.revision, !.confirmed = Confirmed]
        \/ sync' = [sync EXCEPT !.pc = "move", !.revision = emp.revision]
    BY <1>5 DEF AbsentGuard, MoveGuard
  <2>2. sync'.pc \in {"idle", "absent", "move"}
    BY <1>0, <1>e, <2>1 DEF SyncMemories, End
  <2>3. sync.pc \in {"start", "cards"} /\ slipped' = slipped /\ UNCHANGED <<emp, ops, card, run>>
    BY <1>5 DEF AbsentGuard, MoveGuard, vars
  <2> QED BY <1>0, <2>2, <2>3, SettleKept
<1>6. CASE MoveFails \/ SyncCrash
  <2>1. /\ sync'.pc = "idle" /\ UNCHANGED <<emp, ops, run>>
        /\ \/ slipped'
           \/ slipped' = slipped /\ card' = card /\ sync.pc \notin {"check", "reset", "repair"}
    BY <1>6, <1>e DEF MoveFails, SyncCrash, SyncTypeInv, SyncTypeOK
  <2>2. CASE slipped'
    BY <2>2 DEF SettleInv
  <2> QED BY <1>0, <2>1, <2>2, SettleKept
<1>7. CASE MarkAges \/ (\E o \in OpIds : GraceEnds(o)) \/ UNCHANGED allVars
  <2>1. sync' = sync /\ slipped' = slipped /\ UNCHANGED <<emp, ops, card, run>>
    BY <1>7 DEF MarkAges, GraceEnds, allVars, syncVars, vars
  <2> QED BY <1>0, <2>1, SettleStays
<1>8. CASE MoveCard
  BY <1>0, <1>8, SettleMove
<1>9. CASE MoveCheck
  BY <1>0, <1>9, SettleCheck
<1>10. CASE MoveReset
  BY <1>0, <1>10, SettleReset DEF SyncAims, MoveReset
<1>11. CASE MoveRepair /\ UNCHANGED vars
  BY <1>0, <1>11, SettleNoRepair
<1>12. ASSUME NEW d \in Depts, OperatorMovesCard(d) PROVE SettleInv'
  BY <1>0, <1>12, SettleOperator
<1>13. SyncOnly => SettleInv'
  BY <1>2, <1>3, <1>4, <1>5, <1>6, <1>7, <1>8, <1>9, <1>10, <1>11, <1>12 DEF SyncOnly
<1>14. ASSUME NEW o \in OpIds, Dismisses(o) \/ Repairs(o) PROVE SettleInv'
  BY <1>14, SettleOpens
<1> QED BY <1>0, <1>1, <1>13, <1>14, StepsOfSync

\* CardSettles: with nothing pending and no sync under way the card agrees with
\* the portal, whichever way a batch move, its check and its compensation are
\* overtaken by reinstatements, dismissals and operators of Sigur.
THEOREM CardsSettle ==
  ASSUME ~Overrun, ~Stall, MaxFaults < 4 PROVE SyncSpec => []CardSettles
<1>1. SyncInit => SettleInv
  <2> SUFFICES ASSUME SyncInit PROVE SettleInv
    OBVIOUS
  <2>1. OutcomeInv /\ sync.pc = "idle"
    BY OutcomeInit DEF SyncInit, NoSync
  <2> QED BY <2>1 DEF OutcomeInv, StepInv, CardInv, SettleInv
<1>2. SyncTypeInv /\ ExecInv /\ PendingInv /\ TargetsInv /\ FolderInv /\ StrikesInv
      /\ RaceInv /\ LastInv /\ SettleInv /\ [SyncNext]_allVars => SettleInv'
  BY SettleNext
<1>3. SettleInv => CardSettles
  BY DEF SettleInv, CardFits, RestSays, OnPortal, CardSettles, CardFollowsStatus
<1>4. SyncSpec => []SettleInv
  BY <1>1, <1>2, SyncTypesHold, SyncExecHolds, SyncPendingHolds, TargetsHold, FolderHolds,
     StrikesHold, RaceHolds, LastHolds, PTL DEF SyncSpec
<1> QED BY <1>3, <1>4, PTL

=============================================================================
