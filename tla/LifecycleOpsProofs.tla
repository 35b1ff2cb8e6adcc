------------------------- MODULE LifecycleOpsProofs -------------------------
(***************************************************************************)
(* Proofs about LifecycleOps for any number of runs, schedulers,           *)
(* departments and operations.                                             *)
(***************************************************************************)
EXTENDS LifecycleOps, TLAPS

-----------------------------------------------------------------------------
(***************************************************************************)
(* Types.                                                                  *)
(***************************************************************************)
\* A run that is not idle executes a row that exists.
RunsHaveOperations == \A x \in Runs : run[x].pc # "idle" => run[x].op \in OpIds
TypeInv == TypeOK /\ RunsHaveOperations

\* The values from which states are built have their types.
LEMMA Constructors ==
  /\ Archive \in Depts /\ WorkDepts \subseteq Depts
  /\ \A move, access \in BOOLEAN : Needs(move, access) \in Flags
  /\ NoOperation \in Operations
  /\ Idle \in Memories
  /\ Portal \in Claimants /\ Schedulers \subseteq Claimants
<1>1. \A move, access \in BOOLEAN : Needs(move, access) \in Flags
  BY DEF Needs, Flags
<1>2. Archive \in Depts /\ WorkDepts \subseteq Depts
  BY DEF Depts
<1>3. NoOperation \in Operations
  BY <1>1, <1>2 DEF NoOperation, Operations, Kinds
<1>4. Idle \in Memories
  BY <1>1 DEF Idle, Memories, Steps
<1> QED
  BY <1>1, <1>2, <1>3, <1>4 DEF Claimants

\* The next step of an operation is a step, and never the idle one.
LEMMA NextStepType ==
  ASSUME NEW k \in Kinds, NEW f \in Flags
  PROVE  NextStep(k, f) \in Steps \ {"idle"}
BY DEF NextStep, Steps, Kinds

\* Recording a step keeps the type of the flags.
LEMMA PatchType ==
  ASSUME NEW step, NEW f \in Flags
  PROVE  Patch(step, f) \in Flags
BY DEF Patch, Flags

\* The initial states are well typed, with no run at work.
LEMMA TypeInit == Init => TypeInv
<1> SUFFICES ASSUME Init PROVE TypeInv
  OBVIOUS
<1>1. PICK d \in WorkDepts, linked \in BOOLEAN, rights \in SUBSET WorkDepts :
        /\ emp = [status |-> "active", revision |-> 0, dept |-> d,
                  linked |-> linked, dated |-> FALSE, claim |-> Nobody,
                  claimStale |-> FALSE, access |-> rights \cup {d}]
        /\ card = [place |-> IF linked THEN d ELSE Gone, blocked |-> FALSE]
  BY DEF Init
<1>2. emp \in Employees
  BY <1>1, Constructors DEF Employees
<1>3. card \in Cards
  BY <1>1, Constructors DEF Cards
<1>4. ops \in [OpIds -> Operations] /\ run \in [Runs -> Memories]
  BY Constructors DEF Init
<1>5. RunsHaveOperations
  BY DEF Init, RunsHaveOperations, Idle
<1> QED
  BY <1>2, <1>3, <1>4, <1>5 DEF Init, TypeInv, TypeOK

\* Inserting a row keeps the type of the table.
LEMMA InsertType ==
  ASSUME TypeInv, NEW o \in OpIds, NEW k \in Kinds, NEW t \in Depts,
         NEW needs \in Flags, Insert(o, k, t, needs)
  PROVE  ops' \in [OpIds -> Operations]
<1>1. emp.revision \in Nat
  BY DEF TypeInv, TypeOK, Employees
<1>2. [NoOperation EXCEPT !.kind = k, !.status = "pending",
                          !.base = emp.revision, !.target = t,
                          !.flags = needs] \in Operations
  BY <1>1, Constructors DEF Operations
<1> QED
  BY <1>2 DEF Insert, TypeInv, TypeOK

\* Taking or dropping a lease keeps the type of the row.
LEMMA Unleased ==
  \A r \in Operations : [r EXCEPT !.leased = FALSE] \in Operations
BY DEF Operations

\* The requests, the scheduler and the environment leave the runs alone.
LEMMA TypeOutside ==
  ASSUME TypeInv,
         \/ Requests
         \/ \E s \in Schedulers : SchedulerStep(s) \/ SchedCrash(s)
         \/ \E o \in OpIds : LeaseExpires(o)
         \/ ClaimExpires \/ EditByHand \/ DeleteCard
  PROVE  TypeInv'
<1> USE DEF TypeInv, TypeOK, RunsHaveOperations
<1>n. emp.revision + 1 \in Nat /\ faults + 1 \in Nat
  BY DEF Employees
<1>b. \A needs \in BOOLEAN : Needs(needs, needs) \in Flags
  BY Constructors
<1>e. emp.linked \in BOOLEAN
  BY DEF Employees
<1>1. CASE FireLater
  BY <1>1, <1>n DEF Unclaimed, FireLater, Employees
<1>2. CASE CancelDismissal
  BY <1>2, <1>n DEF Unclaimed, CancelDismissal, Employees
<1>3. ASSUME NEW o \in OpIds, FireNow(o) PROVE TypeInv'
  <2>1. emp' \in Employees
    BY <1>3, Constructors DEF FireNow, OpenDismissClaiming, Employees
  <2>2. ops' \in [OpIds -> Operations]
    BY <1>3, <1>b, <1>e, InsertType, Constructors DEF FireNow, OpenDismissClaiming, Kinds
  <2> QED
    BY <1>3, <2>1, <2>2 DEF FireNow
<1>4. ASSUME NEW o \in OpIds, NEW d \in WorkDepts, Rehire(o, d) PROVE TypeInv'
  <2>1. ops' \in [OpIds -> Operations]
    BY <1>4, <1>b, <1>e, InsertType, Constructors DEF Rehire, OpenRehire, Kinds
  <2> QED
    BY <1>4, <2>1 DEF Rehire, OpenRehire
<1>5. ASSUME NEW o \in OpIds, NEW d \in WorkDepts, OpenRepair(o, d) PROVE TypeInv'
  <2>1. ops' \in [OpIds -> Operations]
    BY <1>5, InsertType, Constructors DEF OpenRepair, Kinds
  <2> QED
    BY <1>5, <2>1 DEF OpenRepair
<1>6. ASSUME NEW s \in Schedulers, SchedClaim(s) PROVE TypeInv'
  BY <1>6, Constructors DEF SchedClaim, Employees
<1>7. ASSUME NEW s \in Schedulers, SchedLoad(s) PROVE TypeInv'
  BY <1>7 DEF SchedLoad, Employees
<1>8. ASSUME NEW s \in Schedulers, NEW o \in OpIds, SchedOpen(s, o) PROVE TypeInv'
  <2>1. ops' \in [OpIds -> Operations]
    BY <1>8, <1>b, <1>e, InsertType, Constructors DEF SchedOpen, Kinds
  <2> QED
    BY <1>8, <2>1 DEF SchedOpen
<1>9. ASSUME NEW s \in Schedulers, SchedRefused(s) \/ SchedCrash(s) PROVE TypeInv'
  BY <1>9 DEF SchedRefused, SchedCrash
<1>10. ASSUME NEW o \in OpIds, LeaseExpires(o) PROVE TypeInv'
  <2>1. [ops[o] EXCEPT !.leased = FALSE] \in Operations
    BY Unleased
  <2>2. ops' = [ops EXCEPT ![o] = [ops[o] EXCEPT !.leased = FALSE]]
    BY <1>10 DEF LeaseExpires
  <2>3. ops' \in [OpIds -> Operations]
    BY <2>1, <2>2
  <2> QED
    BY <1>10, <2>3 DEF LeaseExpires
<1>11. CASE ClaimExpires
  BY <1>11 DEF ClaimExpires, Employees
<1>12. CASE EditByHand
  <2>1. \A st \in {"active", "fired"} :
          [emp EXCEPT !.status = st, !.revision = emp.revision + 1] \in Employees
    BY <1>n DEF Employees
  <2>2. emp' \in Employees
    BY <1>12, <2>1 DEF EditByHand
  <2> QED
    BY <1>12, <1>n, <2>2 DEF EditByHand
<1>13. CASE DeleteCard
  BY <1>13 DEF DeleteCard, Cards
<1> QED
  BY <1>1, <1>2, <1>3, <1>4, <1>5, <1>6, <1>7, <1>8, <1>9, <1>10, <1>11, <1>12, <1>13
     DEF Requests, SchedulerStep

\* So does what the executions do.
LEMMA TypeRuns ==
  ASSUME TypeInv, NEW x \in Runs,
         RunStep(x) \/ Crash(x) \/ \E o \in OpIds : Acquire(x, o)
  PROVE  TypeInv'
<1> USE DEF TypeInv, TypeOK, RunsHaveOperations
<1>i. Idle \in Memories /\ Idle.pc = "idle"
  BY Constructors DEF Idle
<1>s. Stop(x) => run' \in [Runs -> Memories] /\ RunsHaveOperations'
  BY <1>i DEF Stop
<1>g. ASSUME NEW step \in Steps, Goto(x, step), run[x].pc # "idle"
      PROVE  run' \in [Runs -> Memories] /\ RunsHaveOperations'
  BY <1>g DEF Goto, Memories
<1>o. run[x].pc # "idle" => OpOf(x) \in Operations
  BY DEF OpOf
<1>1. CASE WriteStep(x)
  <2> DEFINE step == run[x].pc
             copy == Patch(step, run[x].flags)
  <2>0. step # "idle" /\ run[x].op \in OpIds /\ run[x].flags \in Flags
    BY <1>1 DEF WriteStep, Memories
  <2>1. copy \in Flags /\ Patch(step, ops[run[x].op].flags) \in Flags
    BY <2>0, PatchType DEF Operations
  <2>2. NextStep(KindOf(x), copy) \in Steps
    BY <2>0, <2>1, <1>o, NextStepType DEF KindOf, Operations
  <2>3. ops' \in [OpIds -> Operations]
    BY <1>1, <2>0, <2>1 DEF WriteStep, Operations
  <2>4. run' \in [Runs -> Memories] /\ RunsHaveOperations'
    <3>1. CASE Holds(x)
      BY <1>1, <3>1, <2>0, <2>1, <2>2 DEF WriteStep, Memories, Steps
    <3>2. CASE ~Holds(x)
      BY <1>1, <3>2, <1>s DEF WriteStep
    <3> QED
      BY <3>1, <3>2
  <2> QED
    BY <1>1, <2>3, <2>4 DEF WriteStep
<1>2. CASE SigurCall(x)
  <2>1. run[x].pc # "idle"
    BY <1>2 DEF SigurCall, Calling
  <2>2. card' \in Cards
    BY <1>2, <2>1, <1>o DEF SigurCall, CallEffect, Cards, Operations
  <2>3. run' \in [Runs -> Memories] /\ RunsHaveOperations'
    BY <1>2, <2>1, <1>g DEF SigurCall, Steps
  <2> QED
    BY <1>2, <2>2, <2>3 DEF SigurCall
<1>3. CASE SigurCallFails(x)
  <2>1. run[x].pc # "idle"
    BY <1>3 DEF SigurCallFails, Calling
  <2>2. card' \in Cards
    BY <1>3, <2>1, <1>o DEF SigurCallFails, CallEffect, Cards, Operations
  <2> QED
    BY <1>3, <2>2, <1>s DEF SigurCallFails
<1>4. CASE SigurCallNotFound(x)
  <2>1. run[x].pc # "idle"
    BY <1>4 DEF SigurCallNotFound, Calling
  <2> QED
    BY <1>4, <2>1, <1>s, <1>g DEF SigurCallNotFound, Steps
<1>5. CASE Refresh(x)
  <2>1. emp' \in Employees
    BY <1>5 DEF Refresh, Employees, Cards
  <2>2. run' \in [Runs -> Memories] /\ RunsHaveOperations'
    BY <1>5, <1>s, <1>g DEF Refresh, Steps
  <2> QED
    BY <1>5, <2>1, <2>2 DEF Refresh
<1>6. CASE ChangeDept(x)
  <2>1. emp' \in Employees
    BY <1>6, <1>o DEF ChangeDept, Employees, Operations
  <2>2. run' \in [Runs -> Memories] /\ RunsHaveOperations'
    BY <1>6, <1>g DEF ChangeDept, Steps
  <2> QED
    BY <1>6, <2>1, <2>2 DEF ChangeDept
<1>7. CASE GrantAccess(x)
  <2>1. emp' \in Employees
    BY <1>7, <1>o DEF GrantAccess, Employees, Operations
  <2>2. run' \in [Runs -> Memories] /\ RunsHaveOperations'
    BY <1>7, <1>g DEF GrantAccess, Steps
  <2> QED
    BY <1>7, <2>1, <2>2 DEF GrantAccess
<1>8. CASE Probe(x)
  BY <1>8, <1>s, <1>g DEF Probe, Steps
<1>9. CASE Apply(x)
  <2>1. run[x].op \in OpIds /\ OpOf(x) \in Operations
    BY <1>9, <1>o DEF Apply
  <2>2. RestoredRights \subseteq Depts
    BY DEF RestoredRights, Operations
  <2>3. emp' \in Employees
    <3> DEFINE bumped == [emp EXCEPT !.revision = emp.revision + 1]
    <3>1. bumped \in Employees
      BY DEF Employees
    <3>2. OpOf(x).target \in Depts /\ RestoredRights \cup bumped.access \in SUBSET Depts
      BY <2>1, <2>2, <3>1 DEF Operations, Employees
    <3>3. CASE KindOf(x) = "dismiss"
      BY <1>9, <3>1, <3>2, <3>3 DEF Apply, EmployeeAfter, Counted, RightsRestored, Employees
    <3>4. CASE KindOf(x) = "rehire"
      <4>1. (bumped.linked /\ ~run[x].flags.detached) \in BOOLEAN
        OBVIOUS
      <4>2. \A b \in BOOLEAN, r \in SUBSET Depts :
              [bumped EXCEPT !.status = "active", !.dept = OpOf(x).target,
                             !.linked = b, !.dated = FALSE, !.claim = Nobody,
                             !.claimStale = FALSE, !.access = r] \in Employees
        BY <3>1, <3>2 DEF Employees
      <4>3. bumped.access \cup RestoredRights \in SUBSET Depts
        BY <3>2
      <4>4. emp' = [bumped EXCEPT
                     !.status = "active", !.dept = OpOf(x).target,
                     !.linked = bumped.linked /\ ~run[x].flags.detached,
                     !.dated = FALSE, !.claim = Nobody, !.claimStale = FALSE,
                     !.access = bumped.access \cup RestoredRights]
        BY <1>9, <3>4 DEF Apply, EmployeeAfter, Counted, RightsRestored
      <4> QED
        BY <4>1, <4>2, <4>3, <4>4
    <3>5. CASE KindOf(x) = "repair_sigur"
      BY <1>9, <3>1, <3>5 DEF Apply, EmployeeAfter, Counted, RightsRestored
    <3> QED
      BY <2>1, <3>3, <3>4, <3>5 DEF KindOf, Operations, Kinds
  <2>4. ops' \in [OpIds -> Operations]
    BY <1>9, <2>1 DEF Apply, Revoked, Operations, Employees
  <2>5. events' \subseteq OpIds
    BY <1>9, <2>1 DEF Apply
  <2> QED
    BY <1>9, <2>3, <2>4, <2>5, <1>s DEF Apply
<1>10. CASE ApplyRefused(x)
  <2>1. ops' \in [OpIds -> Operations]
    BY <1>10 DEF ApplyRefused, Operations
  <2> QED
    BY <1>10, <2>1, <1>s DEF ApplyRefused
<1>11. CASE Crash(x)
  BY <1>11, <1>s DEF Crash
<1>12. ASSUME NEW o \in OpIds, Acquire(x, o) PROVE TypeInv'
  <2>1. NextStep(ops[o].kind, ops[o].flags) \in Steps /\ ops[o].flags \in Flags
    BY NextStepType DEF Operations
  <2>2. ops' \in [OpIds -> Operations]
    BY <1>12 DEF Acquire, Operations
  <2>3. run' \in [Runs -> Memories] /\ RunsHaveOperations'
    BY <1>12, <2>1 DEF Acquire, Memories
  <2> QED
    BY <1>12, <2>2, <2>3 DEF Acquire
<1> QED
  BY <1>1, <1>2, <1>3, <1>4, <1>5, <1>6, <1>7, <1>8, <1>9, <1>10, <1>11, <1>12 DEF RunStep

\* Every step keeps the types.
LEMMA TypeNext == TypeInv /\ [Next]_vars => TypeInv'
<1>1. ASSUME TypeInv, Next PROVE TypeInv'
  BY <1>1, TypeOutside, TypeRuns DEF Next, Resume
<1>2. ASSUME TypeInv, UNCHANGED vars PROVE TypeInv'
  BY <1>2 DEF TypeInv, TypeOK, RunsHaveOperations, vars
<1> QED
  BY <1>1, <1>2

\* Every reachable state is well typed, and no run works on a missing row.
THEOREM TypesHold == Spec => []TypeInv
BY TypeInit, TypeNext, PTL DEF Spec

\* Every reachable state is well typed: no row, card, run or claim leaves the
\* values the code gives it.
THEOREM TypeCorrect == Spec => []TypeOK
<1>1. TypeInv => TypeOK
  BY DEF TypeInv
<1> QED
  BY <1>1, TypesHold, PTL

-----------------------------------------------------------------------------
(***************************************************************************)
(* No revision is used twice.  This needs nothing but the final            *)
(* compare-and-set: leases may be overrun and the row edited by hand.      *)
(***************************************************************************)
\* Every recorded change was applied at a revision that has been left behind.
EventsPast ==
  \A o \in events : ops[o].status = "applied" /\ ops[o].base < emp.revision

EventsInv == EventsPast /\ OneChangePerRevision

\* Steps that apply nothing: recorded rows stay as they are.
LEMMA EventsKept ==
  ASSUME TypeInv, EventsInv, events' = events, emp'.revision >= emp.revision,
         emp'.revision \in Nat,
         \A o \in OpIds : ops[o].status = "applied" =>
           ops'[o].status = "applied" /\ ops'[o].base = ops[o].base
  PROVE  EventsInv'
<1>1. \A o \in events : o \in OpIds /\ ops[o].status = "applied"
  BY DEF TypeInv, TypeOK, EventsInv, EventsPast
<1>2. \A o \in events : ops[o].base \in Nat /\ emp.revision \in Nat
  BY <1>1 DEF TypeInv, TypeOK, Operations, Employees
<1>3. \A o \in events : ops'[o].status = "applied" /\ ops'[o].base = ops[o].base
  BY <1>1
<1> QED
  BY <1>2, <1>3 DEF EventsInv, EventsPast, OneChangePerRevision

\* An application that passes the compare-and-set raises the revision, so
\* the event it records is the only one of its revision.
LEMMA EventsApply ==
  ASSUME TypeInv, EventsInv, NEW x \in Runs, Apply(x)
  PROVE  EventsInv'
<1> DEFINE o == run[x].op
<1>1. o \in OpIds /\ ops[o].base = emp.revision /\ emp.revision \in Nat
  BY DEF Apply, CasHolds, TypeInv, TypeOK, RunsHaveOperations, Employees
<1>2. emp'.revision = emp.revision + 1
  <2>1. /\ emp' = EmployeeAfter(x)
        /\ emp \in [status: {"active", "fired"}, revision: Nat, dept: Depts,
                    linked: BOOLEAN, dated: BOOLEAN,
                    claim: Claimants \cup {Nobody}, claimStale: BOOLEAN,
                    access: SUBSET Depts]
    BY DEF Apply, TypeInv, TypeOK, Employees
  <2> QED
    BY <2>1 DEF EmployeeAfter, Counted, RightsRestored
<1>3. \A p \in OpIds : ops'[p].base = ops[p].base
  BY <1>1 DEF Apply, TypeInv, TypeOK, Operations
<1>4. /\ ops'[o].status = "applied"
      /\ \A p \in OpIds : ops[p].status = "applied" => ops'[p].status = "applied"
  BY <1>1 DEF Apply, TypeInv, TypeOK, Operations
<1>5. \A p \in events : p \in OpIds /\ ops[p].base \in Nat /\ ops[p].base < emp.revision
  BY DEF TypeInv, TypeOK, EventsInv, EventsPast, Operations
<1>6. events' \subseteq events \cup {o}
  BY DEF Apply
<1>7. EventsPast'
  BY <1>1, <1>2, <1>3, <1>4, <1>5, <1>6 DEF EventsInv, EventsPast
<1>8. \A p, q \in events \cup {o} : p # q => ops[p].base # ops[q].base
  BY <1>1, <1>5 DEF EventsInv, OneChangePerRevision
<1>9. OneChangePerRevision'
  BY <1>1, <1>3, <1>5, <1>6, <1>8 DEF OneChangePerRevision
<1> QED
  BY <1>7, <1>9 DEF EventsInv

\* An insertion fills an absent row only.
LEMMA InsertKeeps ==
  ASSUME TypeInv, NEW o \in OpIds, NEW k, NEW t, NEW needs, Insert(o, k, t, needs)
  PROVE  /\ \A p \in OpIds : p # o => ops'[p] = ops[p]
         /\ ops[o].status = "absent"
         /\ ops'[o].kind = k /\ ops'[o].status = "pending"
         /\ ops'[o].base = emp.revision /\ ops'[o].owner = Nobody
BY DEF Insert, TypeInv, TypeOK, NoOperation

\* Every step keeps the recorded revisions apart and in the past.
LEMMA EventsNext ==
  TypeInv /\ EventsInv /\ [Next]_vars => EventsInv'
<1> SUFFICES ASSUME TypeInv, EventsInv, [Next]_vars PROVE EventsInv'
  OBVIOUS
<1>r. emp.revision \in Nat
  BY DEF TypeInv, TypeOK, Employees
<1>o. \A o \in OpIds : ops[o] \in Operations
  BY DEF TypeInv, TypeOK
<1>t. TypeInv'
  BY TypeNext
<1>e. emp'.revision \in Nat
  BY <1>t DEF TypeInv, TypeOK, Employees
<1> DEFINE Kept == \A o \in OpIds : ops[o].status = "applied" =>
                     ops'[o].status = "applied" /\ ops'[o].base = ops[o].base
<1>1. CASE UNCHANGED <<emp, ops, events>>
  BY <1>1, <1>r, EventsKept
<1>2. ASSUME NEW o \in OpIds, NEW k, NEW t, NEW needs, Insert(o, k, t, needs),
             emp'.revision = emp.revision, events' = events
      PROVE  EventsInv'
  <2>1. Kept
    BY <1>2, InsertKeeps
  <2> QED
    BY <1>2, <1>r, <1>e, <2>1, EventsKept
<1>3. ASSUME UNCHANGED <<ops, events>>, emp'.revision >= emp.revision PROVE EventsInv'
  BY <1>3, <1>e, EventsKept
<1>4. CASE Requests
  <2>1. CASE FireLater \/ CancelDismissal
    <3>1. emp'.revision = emp.revision + 1
      BY <2>1 DEF Unclaimed, FireLater, CancelDismissal, TypeInv, TypeOK, Employees
    <3> QED
      BY <2>1, <3>1, <1>r, <1>3 DEF Unclaimed, FireLater, CancelDismissal
  <2>2. ASSUME NEW o \in OpIds, FireNow(o) PROVE EventsInv'
    BY <2>2, <1>2 DEF FireNow, OpenDismissClaiming, TypeInv, TypeOK, Employees
  <2>3. ASSUME NEW o \in OpIds, NEW d \in WorkDepts, Rehire(o, d) \/ OpenRepair(o, d)
        PROVE  EventsInv'
    BY <2>3, <1>2 DEF Rehire, OpenRehire, OpenRepair
  <2> QED
    BY <1>4, <2>1, <2>2, <2>3 DEF Requests
<1>5. ASSUME NEW s \in Schedulers, SchedulerStep(s) \/ SchedCrash(s) PROVE EventsInv'
  <2>1. CASE SchedClaim(s) \/ SchedLoad(s)
    <3>1. emp'.revision = emp.revision
      BY <2>1 DEF SchedClaim, SchedLoad, TypeInv, TypeOK, Employees
    <3> QED
      BY <2>1, <3>1, <1>r, <1>3 DEF SchedClaim, SchedLoad
  <2>2. ASSUME NEW o \in OpIds, SchedOpen(s, o) PROVE EventsInv'
    BY <2>2, <1>2 DEF SchedOpen
  <2>3. CASE SchedRefused(s) \/ SchedCrash(s)
    BY <2>3, <1>1 DEF SchedRefused, SchedCrash
  <2> QED
    BY <1>5, <2>1, <2>2, <2>3 DEF SchedulerStep
<1>6. ASSUME NEW x \in Runs, RunStep(x) \/ Crash(x) PROVE EventsInv'
  <2>1. CASE WriteStep(x)
    <3>1. Kept
      BY <2>1, <1>o DEF WriteStep, TypeInv, TypeOK, Operations
    <3> QED
      BY <2>1, <3>1, <1>r, EventsKept DEF WriteStep
  <2>2. CASE SigurCall(x) \/ SigurCallFails(x) \/ SigurCallNotFound(x) \/ Probe(x) \/ Crash(x)
    BY <2>2, <1>1 DEF SigurCall, SigurCallFails, SigurCallNotFound, Probe, Crash
  <2>3. CASE Refresh(x) \/ ChangeDept(x) \/ GrantAccess(x)
    <3>1. emp'.revision = emp.revision
      BY <2>3 DEF Refresh, ChangeDept, GrantAccess, TypeInv, TypeOK, Employees
    <3> QED
      BY <2>3, <3>1, <1>r, <1>3 DEF Refresh, ChangeDept, GrantAccess
  <2>4. CASE Apply(x)
    BY <2>4, EventsApply
  <2>5. CASE ApplyRefused(x)
    <3>1. Kept
      BY <2>5, <1>o DEF ApplyRefused, Holds, IsPending, TypeInv, TypeOK, Operations
    <3>2. UNCHANGED <<emp, events>>
      BY <2>5 DEF ApplyRefused
    <3> QED
      BY <3>1, <3>2, <1>r, EventsKept
  <2> QED
    BY <1>6, <2>1, <2>2, <2>3, <2>4, <2>5 DEF RunStep
<1>7. ASSUME NEW o \in OpIds, Resume(o) \/ LeaseExpires(o) PROVE EventsInv'
  <2>1. UNCHANGED <<emp, events>>
    BY <1>7 DEF Resume, Acquire, LeaseExpires
  <2>2. Resume(o) => Kept
    BY <1>o DEF Resume, Acquire, TypeInv, TypeOK, Operations
  <2>3. LeaseExpires(o) => Kept
    BY <1>o DEF LeaseExpires, TypeInv, TypeOK, Operations
  <2>4. Kept
    BY <1>7, <2>2, <2>3
  <2> QED
    BY <2>1, <2>4, <1>r, EventsKept
<1>8. CASE ClaimExpires \/ EditByHand
  <2>1. UNCHANGED <<ops, events>>
    BY <1>8 DEF ClaimExpires, EditByHand
  <2>2. ClaimExpires => emp'.revision >= emp.revision
    BY <1>r DEF ClaimExpires, TypeInv, TypeOK, Employees
  <2>3. EditByHand => emp'.revision >= emp.revision
    BY <1>r DEF EditByHand, TypeInv, TypeOK, Employees
  <2> QED
    BY <1>8, <2>1, <2>2, <2>3, <1>3
<1>9. CASE DeleteCard \/ UNCHANGED vars
  BY <1>9, <1>1 DEF DeleteCard, vars
<1> QED
  BY <1>4, <1>5, <1>6, <1>7, <1>8, <1>9 DEF Next

\* Two recorded changes of status never carry the same revision, whatever
\* overtakes what and whatever is edited by hand.
THEOREM RevisionsAreUsedOnce == Spec => []OneChangePerRevision
<1>1. Init => EventsInv
  BY DEF Init, EventsInv, EventsPast, OneChangePerRevision
<1>2. EventsInv => OneChangePerRevision
  BY DEF EventsInv
<1> QED
  BY <1>1, <1>2, EventsNext, TypesHold, PTL DEF Spec
=============================================================================
