---------------------- MODULE LifecycleOwnershipProofs ----------------------
(***************************************************************************)
(* Who owns what, when leases and claims outlast the runs that hold them:  *)
(* one run executes an operation, one operation owns the employee, and the *)
(* operations implement Employment.  And, without leases, the history.     *)
(***************************************************************************)
EXTENDS LifecycleOpsProofs

-----------------------------------------------------------------------------
(***************************************************************************)
(* One executor.                                                           *)
(***************************************************************************)
\* What a run executes is pending and leased to it.
RunsHold ==
  \A x \in Runs : run[x].pc # "idle" =>
    /\ IsPending(run[x].op)
    /\ ops[run[x].op].owner = x
    /\ ops[run[x].op].leased

\* A repair moves the card and never touches its access.
RepairsOnlyMove ==
  \A x \in Runs : run[x].pc = "access" => KindOf(x) # "repair_sigur"

ExecInv == RunsHold /\ RepairsOnlyMove

\* Steps that leave the runs and every row a run may be executing alone.
LEMMA ExecKept ==
  ASSUME TypeInv, ExecInv, run' = run,
         \A o \in OpIds : IsPending(o) =>
           /\ ops'[o].status = "pending" /\ ops'[o].kind = ops[o].kind
           /\ ops'[o].owner = ops[o].owner
           /\ (\E x \in Runs : Working(x, o)) => ops'[o].leased = ops[o].leased
  PROVE  ExecInv'
<1> SUFFICES ASSUME NEW x \in Runs, run[x].pc # "idle"
             PROVE  LET o == run[x].op
                    IN /\ ops'[o].status = "pending" /\ ops'[o].owner = x
                       /\ ops'[o].leased
                       /\ run[x].pc = "access" => ops'[o].kind # "repair_sigur"
  BY DEF ExecInv, RunsHold, RepairsOnlyMove, IsPending, KindOf, OpOf
<1>1. run[x].op \in OpIds /\ IsPending(run[x].op) /\ Working(x, run[x].op)
  BY DEF TypeInv, RunsHaveOperations, ExecInv, RunsHold, Working
<1> QED
  BY <1>1 DEF ExecInv, RunsHold, RepairsOnlyMove, KindOf, OpOf

\* Steps of one run: the other runs execute other rows, which stay as they are.
LEMMA ExecOthers ==
  ASSUME TypeInv, ExecInv, NEW x \in Runs,
         \A y \in Runs : y # x => run'[y] = run[y],
         \A o \in OpIds : o # run[x].op => ops'[o] = ops[o],
         run[x].pc # "idle",
         run'[x].pc # "idle" =>
           /\ run'[x].op = run[x].op
           /\ LET o == run[x].op
              IN /\ ops'[o].status = "pending" /\ ops'[o].owner = x
                 /\ ops'[o].leased
                 /\ run'[x].pc = "access" => ops'[o].kind # "repair_sigur"
  PROVE  ExecInv'
<1>1. \A y \in Runs : y # x /\ run[y].pc # "idle" =>
        run[y].op \in OpIds /\ run[y].op # run[x].op
  BY DEF TypeInv, RunsHaveOperations, ExecInv, RunsHold
<1>2. \A y \in Runs : run'[y].pc # "idle" =>
        LET o == run'[y].op
        IN /\ ops'[o].status = "pending" /\ ops'[o].owner = y
           /\ ops'[o].leased
           /\ run'[y].pc = "access" => ops'[o].kind # "repair_sigur"
  <2> TAKE y \in Runs
  <2>1. CASE y = x
    BY <2>1
  <2>2. CASE y # x
    BY <1>1, <2>2 DEF ExecInv, RunsHold, RepairsOnlyMove, IsPending, KindOf, OpOf
  <2> QED
    BY <2>1, <2>2
<1> QED
  BY <1>2 DEF ExecInv, RunsHold, RepairsOnlyMove, IsPending, KindOf, OpOf

\* A repair never comes to the step that blocks or unblocks the card.
LEMMA NextStepOfRepair ==
  ASSUME NEW f
  PROVE  NextStep("repair_sigur", f) # "access"
BY DEF NextStep

\* A run that goes on keeps holding what it executes.
LEMMA ExecRuns ==
  ASSUME TypeInv, ExecInv, NEW x \in Runs, RunStep(x) \/ Crash(x)
  PROVE  ExecInv'
<1> DEFINE o == run[x].op
<1>i. Idle.pc = "idle"
  BY DEF Idle
<1>r. run[x] \in Memories /\ run \in [Runs -> Memories] /\ ops \in [OpIds -> Operations]
  BY DEF TypeInv, TypeOK
<1>b. run[x].pc # "idle"
  BY DEF RunStep, WriteStep, SigurCall, SigurCallFails, SigurCallNotFound, Calling,
         Refresh, ChangeDept, GrantAccess, Probe, Apply, ApplyRefused, Crash
<1>h. o \in OpIds /\ ops[o].status = "pending" /\ ops[o].owner = x /\ ops[o].leased
  BY <1>b DEF TypeInv, RunsHaveOperations, ExecInv, RunsHold, IsPending
<1>s. ASSUME Stop(x), \A p \in OpIds : p # o => ops'[p] = ops[p] PROVE ExecInv'
  <2>1. run'[x].pc = "idle" /\ \A y \in Runs : y # x => run'[y] = run[y]
    BY <1>s, <1>i, <1>r DEF Stop
  <2> QED
    BY <1>s, <1>b, <2>1, ExecOthers
<1>g. ASSUME NEW step, Goto(x, step), step # "access", ops' = ops PROVE ExecInv'
  <2>1. run'[x].pc = step /\ run'[x].op = o /\ \A y \in Runs : y # x => run'[y] = run[y]
    BY <1>g, <1>r DEF Goto, Memories
  <2> QED
    BY <1>g, <1>b, <1>h, <2>1, ExecOthers
<1>1. CASE WriteStep(x)
  <2>1. CASE Holds(x)
    <3> DEFINE copy == Patch(run[x].pc, run[x].flags)
    <3>1. \A p \in OpIds : p # o => ops'[p] = ops[p]
      BY <1>1, <2>1, <1>h, <1>r DEF WriteStep
    <3>2. /\ ops'[o].status = "pending" /\ ops'[o].owner = x
          /\ ops'[o].leased /\ ops'[o].kind = ops[o].kind
      BY <1>1, <2>1, <1>h, <1>r DEF WriteStep, Operations
    <3>3. \A y \in Runs : y # x => run'[y] = run[y]
      BY <1>1, <2>1, <1>r DEF WriteStep
    <3>4. /\ run'[x].op = o
          /\ run'[x].pc = "move" \/ run'[x].pc = NextStep(ops[o].kind, copy)
      BY <1>1, <2>1, <1>r DEF WriteStep, Memories, KindOf, OpOf
    <3>5. run'[x].pc = "access" => ops'[o].kind # "repair_sigur"
      BY <3>2, <3>4, NextStepOfRepair
    <3> QED
      BY <1>b, <3>1, <3>2, <3>3, <3>4, <3>5, ExecOthers
  <2>2. CASE ~Holds(x)
    BY <1>1, <2>2, <1>s DEF WriteStep
  <2> QED
    BY <2>1, <2>2
<1>2. CASE SigurCall(x)
  BY <1>2, <1>g DEF SigurCall
<1>3. CASE SigurCallFails(x) \/ Crash(x)
  BY <1>3, <1>s DEF SigurCallFails, Crash
<1>4. CASE SigurCallNotFound(x)
  BY <1>4, <1>g, <1>s DEF SigurCallNotFound
<1>5. CASE Refresh(x)
  BY <1>5, <1>g, <1>s DEF Refresh
<1>6. CASE ChangeDept(x) \/ GrantAccess(x)
  BY <1>6, <1>g DEF ChangeDept, GrantAccess
<1>7. CASE Probe(x)
  BY <1>7, <1>g, <1>s DEF Probe
<1>8. CASE Apply(x)
  <2>1. \A p \in OpIds : p # o => ops'[p] = ops[p]
    BY <1>8, <1>h, <1>r DEF Apply
  <2> QED
    BY <1>8, <2>1, <1>s DEF Apply
<1>9. CASE ApplyRefused(x)
  <2>1. \A p \in OpIds : p # o => ops'[p] = ops[p]
    BY <1>9, <1>h, <1>r DEF ApplyRefused
  <2> QED
    BY <1>9, <2>1, <1>s DEF ApplyRefused
<1> QED
  BY <1>1, <1>2, <1>3, <1>4, <1>5, <1>6, <1>7, <1>8, <1>9 DEF RunStep

\* A run takes a row over only when no other run holds it.
LEMMA ExecAcquire ==
  ASSUME TypeInv, ExecInv, NEW x \in Runs, NEW o \in OpIds, Acquire(x, o)
  PROVE  ExecInv'
<1>1. \A y \in Runs : run[y].pc # "idle" => run[y].op \in OpIds /\ run[y].op # o
  BY ConstantsAssumption
     DEF TypeInv, RunsHaveOperations, ExecInv, RunsHold, Acquire, LeaseFree
<1>2. \A p \in OpIds : p # o => ops'[p] = ops[p]
  BY DEF Acquire, TypeInv, TypeOK
<1>3. /\ ops'[o].status = "pending" /\ ops'[o].owner = x /\ ops'[o].leased
      /\ ops'[o].kind = ops[o].kind
  BY DEF Acquire, TypeInv, TypeOK, Operations, IsPending
<1>4. \A y \in Runs : y # x => run'[y] = run[y]
  BY DEF Acquire, TypeInv, TypeOK
<1>5. run'[x].op = o /\ run'[x].pc = NextStep(ops[o].kind, ops[o].flags)
  BY DEF Acquire, TypeInv, TypeOK
<1>6. \A y \in Runs : run'[y].pc # "idle" =>
        LET p == run'[y].op
        IN /\ ops'[p].status = "pending" /\ ops'[p].owner = y /\ ops'[p].leased
           /\ run'[y].pc = "access" => ops'[p].kind # "repair_sigur"
  <2> TAKE y \in Runs
  <2>1. CASE y = x
    BY <2>1, <1>3, <1>5, NextStepOfRepair
  <2>2. CASE y # x
    BY <2>2, <1>1, <1>2, <1>4
       DEF ExecInv, RunsHold, RepairsOnlyMove, IsPending, KindOf, OpOf
  <2> QED
    BY <2>1, <2>2
<1> QED
  BY <1>6 DEF ExecInv, RunsHold, RepairsOnlyMove, IsPending, KindOf, OpOf

\* Every step keeps each run the holder of what it executes.
LEMMA ExecNext ==
  ASSUME ~Overrun, TypeInv, ExecInv, [Next]_vars
  PROVE  ExecInv'
<1> DEFINE Alike(o) == /\ ops'[o].status = "pending" /\ ops'[o].kind = ops[o].kind
                       /\ ops'[o].owner = ops[o].owner
                       /\ (\E x \in Runs : Working(x, o)) => ops'[o].leased = ops[o].leased
           Kept == \A o \in OpIds : IsPending(o) => Alike(o)
<1>1. CASE UNCHANGED <<ops, run>>
  BY <1>1, ExecKept DEF IsPending
<1>2. ASSUME NEW o \in OpIds, NEW k, NEW t, NEW needs, Insert(o, k, t, needs),
             run' = run
      PROVE  ExecInv'
  <2>1. Kept
    BY <1>2, InsertKeeps DEF IsPending
  <2> QED
    BY <1>2, <2>1, ExecKept
<1>3. ASSUME NEW o \in OpIds, LeaseExpires(o) PROVE ExecInv'
  <2>1. ~\E x \in Runs : Working(x, o)
    BY <1>3 DEF LeaseExpires
  <2>2. \A p \in OpIds : p # o => ops'[p] = ops[p]
    BY <1>3 DEF LeaseExpires, TypeInv, TypeOK
  <2>3. /\ ops'[o].status = ops[o].status /\ ops'[o].kind = ops[o].kind
        /\ ops'[o].owner = ops[o].owner
    BY <1>3 DEF LeaseExpires, TypeInv, TypeOK, Operations
  <2>4. Kept
    BY <2>1, <2>2, <2>3 DEF IsPending
  <2> QED
    BY <1>3, <2>4, ExecKept DEF LeaseExpires
<1>4. CASE Requests
  <2>1. CASE FireLater \/ CancelDismissal
    BY <2>1, <1>1 DEF Unclaimed, FireLater, CancelDismissal
  <2>2. ASSUME NEW o \in OpIds, FireNow(o) PROVE ExecInv'
    BY <2>2, <1>2 DEF FireNow, OpenDismissClaiming
  <2>3. ASSUME NEW o \in OpIds, NEW d \in WorkDepts, Rehire(o, d) \/ OpenRepair(o, d)
        PROVE  ExecInv'
    BY <2>3, <1>2 DEF Rehire, OpenRehire, OpenRepair
  <2> QED
    BY <1>4, <2>1, <2>2, <2>3 DEF Requests
<1>5. ASSUME NEW s \in Schedulers, SchedulerStep(s) \/ SchedCrash(s) PROVE ExecInv'
  <2>1. ASSUME NEW o \in OpIds, SchedOpen(s, o) PROVE ExecInv'
    BY <2>1, <1>2 DEF SchedOpen
  <2>2. CASE SchedClaim(s) \/ SchedLoad(s) \/ SchedRefused(s) \/ SchedCrash(s)
    BY <2>2, <1>1 DEF SchedClaim, SchedLoad, SchedRefused, SchedCrash
  <2> QED
    BY <1>5, <2>1, <2>2 DEF SchedulerStep
<1>6. CASE ClaimExpires \/ EditByHand \/ DeleteCard \/ UNCHANGED vars
  BY <1>6, <1>1 DEF ClaimExpires, EditByHand, DeleteCard, vars
<1> QED
  BY <1>3, <1>4, <1>5, <1>6, ExecRuns, ExecAcquire DEF Next, Resume

\* At first no run executes anything.
LEMMA ExecInit == Init => ExecInv
BY DEF Init, ExecInv, RunsHold, RepairsOnlyMove, Idle

\* In every reachable state a run holds what it executes.
LEMMA ExecHolds == ASSUME ~Overrun PROVE Spec => []ExecInv
<1>1. TypeInv /\ ExecInv /\ [Next]_vars => ExecInv'
  BY ExecNext
<1> QED
  BY <1>1, ExecInit, TypesHold, PTL DEF Spec

\* While leases outlast the runs that hold them, an operation is never
\* executed by two runs at once.
THEOREM OneExecutorAtATime == ASSUME ~Overrun PROVE Spec => []OneExecutor
<1>1. ExecInv => OneExecutor
  BY DEF ExecInv, RunsHold, OneExecutor, Working
<1> QED
  BY <1>1, ExecHolds, PTL

\* A blocked card opens doors again only for a reinstatement that is pending:
\* no late or repeated call of a run unblocks the card of a dismissed employee.
THEOREM CardsAreUnblockedToRehire == ASSUME ~Overrun PROVE Spec => UnblockedOnlyToRehire
<1> DEFINE ToRehire == card.blocked /\ ~card'.blocked =>
                         \E o \in OpIds : IsPending(o) /\ ops[o].kind = "rehire"
<1>1. ASSUME TypeInv, ExecInv, NEW x \in Runs, Calling(x),
             card' = card \/ card' = CallEffect(x)
      PROVE  ToRehire
  <2> DEFINE o == run[x].op
  <2>1. o \in OpIds /\ IsPending(o) /\ ops[o].kind \in Kinds
    BY <1>1 DEF Calling, TypeInv, TypeOK, RunsHaveOperations, ExecInv, RunsHold, Operations
  <2>2. run[x].pc = "access" => ops[o].kind # "repair_sigur"
    BY <1>1 DEF ExecInv, RepairsOnlyMove, KindOf, OpOf
  <2>3. CASE run[x].pc = "move" /\ card' = CallEffect(x)
    BY <1>1, <2>3 DEF CallEffect, TypeInv, TypeOK, Cards
  <2>4. CASE run[x].pc = "access" /\ card' = CallEffect(x) /\ ops[o].kind = "dismiss"
    BY <1>1, <2>4 DEF CallEffect, TypeInv, TypeOK, Cards, KindOf, OpOf
  <2>5. ops[o].kind = "rehire" => ToRehire
    BY <2>1
  <2> QED
    BY <1>1, <2>1, <2>2, <2>3, <2>4, <2>5 DEF Calling, Kinds
<1>2. ASSUME TypeInv, DeleteCard PROVE ToRehire
  BY <1>2 DEF DeleteCard, TypeInv, TypeOK, Cards
<1>3. card' = card => ToRehire
  OBVIOUS
<1>4. ASSUME TypeInv, ExecInv, Next PROVE ToRehire
  <2>1. ASSUME NEW x \in Runs, RunStep(x) PROVE ToRehire
    <3>1. CASE SigurCall(x)
      BY <1>4, <3>1, <1>1 DEF SigurCall
    <3>2. CASE SigurCallFails(x)
      BY <1>4, <3>2, <1>1 DEF SigurCallFails
    <3>3. ~SigurCall(x) /\ ~SigurCallFails(x) => card' = card
      BY <2>1 DEF RunStep, WriteStep, SigurCallNotFound, Refresh, ChangeDept, GrantAccess,
                  Probe, Apply, ApplyRefused
    <3> QED
      BY <3>1, <3>2, <3>3, <1>3
  <2>2. Requests => card' = card
    BY DEF Unclaimed, Requests, FireLater, CancelDismissal, FireNow, Rehire, OpenRehire, OpenRepair
  <2>3. \A s \in Schedulers : SchedulerStep(s) \/ SchedCrash(s) => card' = card
    BY DEF SchedulerStep, SchedClaim, SchedLoad, SchedRefused, SchedOpen, SchedCrash
  <2>4. \A o \in OpIds : Resume(o) \/ LeaseExpires(o) => card' = card
    BY DEF Resume, Acquire, LeaseExpires
  <2>5. ClaimExpires \/ EditByHand \/ (\E x \in Runs : Crash(x)) => card' = card
    BY DEF ClaimExpires, EditByHand, Crash
  <2> QED
    BY <1>4, <1>2, <1>3, <2>1, <2>2, <2>3, <2>4, <2>5 DEF Next
<1>5. TypeInv /\ ExecInv /\ [Next]_vars => [ToRehire]_vars
  BY <1>4
<1> QED
  BY <1>5, ExecHolds, TypesHold, PTL DEF Spec, UnblockedOnlyToRehire

-----------------------------------------------------------------------------
(***************************************************************************)
(* One owner of the employee.                                              *)
(***************************************************************************)
\* The unique index on pending operations: at most one.
OnePending == \A o, p \in OpIds : IsPending(o) /\ IsPending(p) => o = p

\* A scheduler between its claim and its opening holds the claim of an active
\* employee whose date is set, or has been forestalled by a dismissal.
ClaimsHold ==
  \A s \in Schedulers : sched[s] # "idle" =>
    emp.status = "fired" \/ (emp.claim = s /\ ~emp.claimStale /\ emp.dated)

\* A pending dismissal also keeps its date, so nobody releases its claim; a
\* pending reinstatement has no scheduler beside it.
Owns(o) ==
  CASE ops[o].kind = "dismiss" ->
         emp.status = "active" /\ emp.revision = ops[o].base /\ emp.dated /\ emp.claim # Nobody
    [] ops[o].kind = "rehire" ->
         /\ emp.status = "fired" /\ emp.revision = ops[o].base
         /\ \A s \in Schedulers : sched[s] = "idle"
    [] OTHER -> emp.status = "active" /\ ops[o].base <= emp.revision

PendingInv == OnePending /\ ClaimsHold /\ \A o \in OpIds : IsPending(o) => Owns(o)

\* The inductive invariant is at least as strong as the property.
LEMMA PendingImplies == TypeInv /\ PendingInv => PendingOwnsState
BY DEF TypeInv, TypeOK, Operations, Kinds, PendingInv, Owns, PendingOwnsState, CasHolds

\* Steps that open and end nothing keep what is pending.
SameRows == \A o \in OpIds : /\ ops'[o].kind = ops[o].kind
                             /\ ops'[o].status = ops[o].status
                             /\ ops'[o].base = ops[o].base

\* Steps that end nothing, and leave what the pending operation owns alone.
LEMMA PendingKept ==
  ASSUME PendingInv, SameRows, ClaimsHold',
         emp'.status = emp.status,
         \A o \in OpIds : IsPending(o) =>
           CASE ops[o].kind = "dismiss" ->
                  emp'.revision = emp.revision /\ emp'.dated /\ emp'.claim # Nobody
             [] ops[o].kind = "rehire" ->
                  emp'.revision = emp.revision /\ \A s \in Schedulers : sched'[s] = "idle"
             [] OTHER -> ops[o].base <= emp'.revision
  PROVE  PendingInv'
<1>1. OnePending'
  BY DEF PendingInv, OnePending, SameRows, IsPending
<1>2. ASSUME NEW o \in OpIds, IsPending(o)' PROVE Owns(o)'
  <2>1. IsPending(o) /\ Owns(o)
    BY <1>2 DEF SameRows, IsPending, PendingInv
  <2>2. ops'[o].kind = ops[o].kind /\ ops'[o].base = ops[o].base
    BY DEF SameRows
  <2>3. CASE ops[o].kind = "dismiss"
    BY <2>1, <2>2, <2>3 DEF Owns
  <2>4. CASE ops[o].kind = "rehire"
    BY <2>1, <2>2, <2>4 DEF Owns
  <2>5. CASE ops[o].kind \notin {"dismiss", "rehire"}
    BY <2>1, <2>2, <2>5 DEF Owns
  <2> QED
    BY <2>3, <2>4, <2>5
<1> QED
  BY <1>1, <1>2 DEF PendingInv

\* An opening while nothing is pending owns the employee.
LEMMA PendingOpens ==
  ASSUME TypeInv, NoPending, NEW o \in OpIds, NEW k, NEW t, NEW needs,
         Insert(o, k, t, needs), ClaimsHold', Owns(o)'
  PROVE  PendingInv'
BY InsertKeeps DEF PendingInv, OnePending, NoPending, IsPending

\* When the pending operation ends nothing is pending.
LEMMA PendingCloses ==
  ASSUME PendingInv, NEW o \in OpIds, IsPending(o), ClaimsHold',
         \A p \in OpIds : p # o => ops'[p] = ops[p],
         ops'[o].status # "pending"
  PROVE  PendingInv'
BY DEF PendingInv, OnePending, IsPending

\* Steps on the rows' leases and flags, on the card or in a run's memory, and
\* those that change nothing of employees but department and rights.
LEMMA PendingAside ==
  ASSUME PendingInv, SameRows, sched' = sched,
         emp'.status = emp.status, emp'.revision = emp.revision,
         emp'.dated = emp.dated, emp'.claim = emp.claim,
         emp'.claimStale = emp.claimStale
  PROVE  PendingInv'
<1>1. ClaimsHold'
  BY DEF PendingInv, ClaimsHold
<1> QED
  BY <1>1, PendingKept DEF PendingInv, Owns

\* The requests open an operation only when nothing is pending, and plan a
\* dismissal only when no dismissal is.
LEMMA PendingRequests ==
  ASSUME TypeInv, PendingInv, ~Stall, Requests
  PROVE  PendingInv'
<1> USE DEF TypeInv, TypeOK
<1>n. \A s \in Schedulers : s # Nobody /\ s # Portal
  BY ConstantsAssumption
<1>1. CASE FireLater
  <2>1. /\ emp'.status = "active" /\ emp.status = "active" /\ emp'.dated
        /\ emp.claim = Nobody /\ emp'.revision = emp.revision + 1 /\ emp.revision \in Nat
        /\ ops' = ops /\ sched' = sched
    BY <1>1 DEF Unclaimed, FireLater, Employees
  <2>2. ClaimsHold'
    BY <1>n, <2>1 DEF PendingInv, ClaimsHold
  <2>3. \A o \in OpIds : IsPending(o) => ops[o].kind \notin {"dismiss", "rehire"}
    BY <2>1 DEF PendingInv, Owns
  <2>4. \A o \in OpIds : IsPending(o) => ops[o].base <= emp'.revision
    BY <2>1, <2>3 DEF PendingInv, Owns, Operations
  <2> QED
    BY <2>1, <2>2, <2>3, <2>4, PendingKept DEF SameRows
<1>2. CASE CancelDismissal
  <2>1. /\ emp'.status = "active" /\ emp.status = "active"
        /\ emp.claim = Nobody /\ emp'.revision = emp.revision + 1 /\ emp.revision \in Nat
        /\ ops' = ops /\ sched' = sched
    BY <1>2 DEF Unclaimed, CancelDismissal, Employees
  <2>2. ClaimsHold'
    BY <1>n, <2>1 DEF PendingInv, ClaimsHold
  <2>3. \A o \in OpIds : IsPending(o) => ops[o].kind \notin {"dismiss", "rehire"}
    BY <2>1 DEF PendingInv, Owns
  <2>4. \A o \in OpIds : IsPending(o) => ops[o].base <= emp'.revision
    BY <2>1, <2>3 DEF PendingInv, Owns, Operations
  <2> QED
    BY <2>1, <2>2, <2>3, <2>4, PendingKept DEF SameRows
<1>3. ASSUME NEW o \in OpIds, FireNow(o) PROVE PendingInv'
  <2>1. /\ Insert(o, "dismiss", Archive, Needs(emp.linked, emp.linked))
        /\ NoPending /\ emp.status = "active" /\ ClaimFree /\ sched' = sched
        /\ emp'.status = "active" /\ emp'.revision = emp.revision
        /\ emp'.dated /\ emp'.claim = Portal
    BY <1>3 DEF FireNow, OpenDismissClaiming, Employees
  <2>2. ClaimsHold'
    BY <1>n, <2>1 DEF PendingInv, ClaimsHold, ClaimFree
  <2>3. Owns(o)'
    BY <2>1, InsertKeeps, ConstantsAssumption DEF Owns
  <2> QED
    BY <2>1, <2>2, <2>3, PendingOpens
<1>4. ASSUME NEW o \in OpIds, NEW d \in WorkDepts, Rehire(o, d) PROVE PendingInv'
  <2>1. /\ Insert(o, "rehire", d, Needs(emp.linked, emp.linked))
        /\ NoPending /\ emp.status = "fired" /\ emp' = emp /\ sched' = sched
        /\ \A s \in Schedulers : sched[s] = "idle"
    BY <1>4 DEF Rehire, OpenRehire
  <2>2. Owns(o)'
    BY <2>1, InsertKeeps DEF Owns
  <2> QED
    BY <2>1, <2>2, PendingOpens DEF PendingInv, ClaimsHold
<1>5. ASSUME NEW o \in OpIds, NEW d \in WorkDepts, OpenRepair(o, d) PROVE PendingInv'
  <2>1. /\ Insert(o, "repair_sigur", d, Needs(TRUE, FALSE))
        /\ NoPending /\ emp.status = "active" /\ emp' = emp /\ sched' = sched
        /\ emp.revision \in Nat
    BY <1>5 DEF OpenRepair, Employees
  <2>2. Owns(o)'
    <3>1. ops'[o].kind = "repair_sigur" /\ ops'[o].base = emp.revision
      BY <2>1, InsertKeeps
    <3> QED
      BY <2>1, <3>1 DEF Owns
  <2> QED
    BY <2>1, <2>2, PendingOpens DEF PendingInv, ClaimsHold
<1> QED
  BY <1>1, <1>2, <1>3, <1>4, <1>5 DEF Requests

\* The scheduler opens a dismissal only under a claim it holds.
LEMMA PendingScheduler ==
  ASSUME TypeInv, PendingInv, NEW s \in Schedulers, SchedulerStep(s) \/ SchedCrash(s)
  PROVE  PendingInv'
<1> USE DEF TypeInv, TypeOK
<1>n. \A q \in Schedulers : q # Nobody
  BY ConstantsAssumption
<1>1. CASE SchedClaim(s)
  <2>1. /\ emp.status = "active" /\ emp.dated /\ ClaimFree /\ ops' = ops
        /\ emp'.status = "active" /\ emp'.dated /\ emp'.claim = s /\ ~emp'.claimStale
        /\ emp'.revision = emp.revision
        /\ \A q \in Schedulers : q # s => sched'[q] = sched[q]
    BY <1>1 DEF SchedClaim, Employees
  <2>2. ClaimsHold'
    BY <1>n, <2>1 DEF PendingInv, ClaimsHold, ClaimFree
  <2> QED
    BY <1>n, <2>1, <2>2, PendingKept DEF PendingInv, Owns, SameRows
<1>2. CASE SchedLoad(s)
  <2>1. /\ emp'.status = emp.status /\ emp'.revision = emp.revision
        /\ emp'.dated = emp.dated /\ ops' = ops
        /\ emp' = emp \/ (emp.status = "active" /\ ~emp.dated)
    BY <1>2 DEF SchedLoad, Employees
  <2>2. \A q \in Schedulers : sched'[q] # "idle" =>
          sched[q] # "idle" /\ emp.status \in {"active", "fired"}
    BY <1>2 DEF SchedLoad, Employees
  <2>3. ClaimsHold'
    BY <2>1, <2>2 DEF PendingInv, ClaimsHold
  <2>4. \A o \in OpIds : IsPending(o) /\ ops[o].kind = "dismiss" => emp' = emp /\ emp.dated
    BY <2>1 DEF PendingInv, Owns
  <2>5. \A o \in OpIds : IsPending(o) /\ ops[o].kind = "rehire" =>
          \A q \in Schedulers : sched'[q] = "idle"
    BY <2>2 DEF PendingInv, Owns
  <2> QED
    BY <2>1, <2>3, <2>4, <2>5, PendingKept DEF PendingInv, Owns, SameRows
<1>3. ASSUME NEW o \in OpIds, SchedOpen(s, o) PROVE PendingInv'
  <2>1. /\ Insert(o, "dismiss", Archive, Needs(emp.linked, emp.linked))
        /\ NoPending /\ emp.status = "active" /\ emp' = emp /\ sched[s] # "idle"
        /\ \A q \in Schedulers : sched'[q] # "idle" => sched[q] # "idle"
    BY <1>3 DEF SchedOpen
  <2>2. emp.claim = s /\ emp.dated
    BY <2>1 DEF PendingInv, ClaimsHold
  <2>3. Owns(o)'
    BY <1>n, <2>1, <2>2, InsertKeeps DEF Owns
  <2>4. ClaimsHold'
    BY <2>1 DEF PendingInv, ClaimsHold
  <2> QED
    BY <2>1, <2>3, <2>4, PendingOpens
<1>4. CASE SchedRefused(s) \/ SchedCrash(s)
  <2>1. /\ emp' = emp /\ ops' = ops
        /\ \A q \in Schedulers : sched'[q] # "idle" => sched[q] # "idle"
    BY <1>4 DEF SchedRefused, SchedCrash
  <2>2. ClaimsHold'
    BY <2>1 DEF PendingInv, ClaimsHold
  <2> QED
    BY <2>1, <2>2, PendingKept DEF PendingInv, Owns, SameRows
<1> QED
  BY <1>1, <1>2, <1>3, <1>4 DEF SchedulerStep

\* What an application does to the fields that decide who owns the employee.
LEMMA ApplyEffect ==
  ASSUME TypeInv, NEW x \in Runs, Apply(x)
  PROVE  LET o == run[x].op
         IN /\ o \in OpIds /\ IsPending(o) /\ ops'[o].status = "applied"
            /\ \A p \in OpIds : p # o => ops'[p] = ops[p]
            /\ emp'.revision = emp.revision + 1
            /\ emp'.status = IF ops[o].kind = "dismiss" THEN "fired" ELSE "active"
            /\ ops[o].kind = "repair_sigur" =>
                 /\ emp'.claim = emp.claim /\ emp'.claimStale = emp.claimStale
                 /\ emp'.dated = emp.dated /\ emp'.status = emp.status
<1> DEFINE o == run[x].op
<1>1. /\ o \in OpIds /\ IsPending(o) /\ emp' = EmployeeAfter(x) /\ CasHolds(o)
      /\ emp \in Employees /\ ops \in [OpIds -> Operations]
  BY DEF Apply, Holds, TypeInv, TypeOK, RunsHaveOperations
<1>2. ops'[o].status = "applied" /\ \A p \in OpIds : p # o => ops'[p] = ops[p]
  BY <1>1 DEF Apply, Operations
<1>3. CASE ops[o].kind = "dismiss"
  BY <1>1, <1>2, <1>3 DEF EmployeeAfter, Counted, RightsRestored, KindOf, OpOf, Employees
<1>4. CASE ops[o].kind = "rehire"
  BY <1>1, <1>2, <1>4 DEF EmployeeAfter, Counted, RightsRestored, KindOf, OpOf, Employees
<1>5. CASE ops[o].kind = "repair_sigur"
  BY <1>1, <1>2, <1>5 DEF EmployeeAfter, Counted, RightsRestored, KindOf, OpOf, Employees, CasHolds
<1> QED
  BY <1>1, <1>3, <1>4, <1>5 DEF Operations, Kinds

\* Executing an operation changes the employee only by applying it.
LEMMA PendingRuns ==
  ASSUME TypeInv, PendingInv, NEW x \in Runs,
         RunStep(x) \/ Crash(x) \/ \E o \in OpIds : Acquire(x, o)
  PROVE  PendingInv'
<1> DEFINE o == run[x].op
<1>t. emp \in Employees /\ ops \in [OpIds -> Operations]
  BY DEF TypeInv, TypeOK
<1>1. CASE WriteStep(x) \/ \E p \in OpIds : Acquire(x, p)
  <2>a. WriteStep(x) => SameRows
    BY <1>t DEF WriteStep, SameRows, Operations
  <2>b. ASSUME NEW p \in OpIds, Acquire(x, p) PROVE SameRows
    <3>1. \A q \in OpIds : q # p => ops'[q] = ops[q]
      BY <1>t, <2>b DEF Acquire
    <3>2. /\ ops'[p].kind = ops[p].kind /\ ops'[p].status = ops[p].status
          /\ ops'[p].base = ops[p].base
      BY <1>t, <2>b DEF Acquire, Operations
    <3> QED
      BY <3>1, <3>2 DEF SameRows
  <2>1. SameRows
    BY <1>1, <2>a, <2>b
  <2> QED
    BY <1>1, <2>1, PendingAside DEF WriteStep, Acquire
<1>2. CASE SigurCall(x) \/ SigurCallFails(x) \/ SigurCallNotFound(x) \/ Probe(x) \/ Crash(x)
  <2>1. UNCHANGED <<emp, ops, sched>>
    BY <1>2 DEF SigurCall, SigurCallFails, SigurCallNotFound, Probe, Crash
  <2> QED
    BY <2>1, PendingAside DEF SameRows
<1>3. CASE Refresh(x) \/ ChangeDept(x) \/ GrantAccess(x)
  <2>1. UNCHANGED <<ops, sched>>
    BY <1>3 DEF Refresh, ChangeDept, GrantAccess
  <2>2. /\ emp'.status = emp.status /\ emp'.revision = emp.revision
        /\ emp'.dated = emp.dated /\ emp'.claim = emp.claim
        /\ emp'.claimStale = emp.claimStale
    BY <1>3, <1>t DEF Refresh, ChangeDept, GrantAccess, Employees
  <2> QED
    BY <2>1, <2>2, PendingAside DEF SameRows
<1>4. CASE Apply(x)
  <2>1. o \in OpIds /\ IsPending(o) /\ ops[o].kind \in Kinds /\ sched' = sched
    BY <1>4, <1>t, ApplyEffect DEF Apply, Operations
  <2>2. ClaimsHold'
    <3>1. CASE ops[o].kind = "dismiss"
      BY <1>4, <3>1, ApplyEffect DEF ClaimsHold
    <3>2. CASE ops[o].kind = "rehire"
      BY <2>1, <3>2 DEF PendingInv, Owns, ClaimsHold
    <3>3. CASE ops[o].kind = "repair_sigur"
      BY <1>4, <2>1, <3>3, ApplyEffect DEF PendingInv, ClaimsHold
    <3> QED
      BY <2>1, <3>1, <3>2, <3>3 DEF Kinds
  <2> QED
    BY <1>4, <2>1, <2>2, ApplyEffect, PendingCloses
<1>5. CASE ApplyRefused(x)
  <2>1. emp' = emp /\ sched' = sched
    BY <1>5 DEF ApplyRefused
  <2>2. CASE ops' = ops
    BY <2>1, <2>2, PendingAside DEF SameRows
  <2>3. CASE ops' # ops
    <3>1. /\ o \in OpIds /\ IsPending(o)
          /\ ops' = [ops EXCEPT ![o].status = "cancelled", ![o].owner = Nobody]
      BY <1>5, <2>3 DEF ApplyRefused, Holds, TypeInv, RunsHaveOperations
    <3>2. ops'[o].status = "cancelled" /\ \A p \in OpIds : p # o => ops'[p] = ops[p]
      BY <3>1, <1>t DEF Operations
    <3> QED
      BY <2>1, <3>1, <3>2, PendingCloses DEF PendingInv, ClaimsHold
  <2> QED
    BY <2>2, <2>3
<1> QED
  BY <1>1, <1>2, <1>3, <1>4, <1>5 DEF RunStep

\* Every step leaves the employee to the operation that is pending.
LEMMA PendingNext ==
  ASSUME ~Overrun, ~Stall, ~EditByHand, TypeInv, PendingInv, [Next]_vars
  PROVE  PendingInv'
<1>1. ASSUME NEW o \in OpIds, LeaseExpires(o) PROVE PendingInv'
  <2>1. SameRows
    BY <1>1 DEF LeaseExpires, SameRows, TypeInv, TypeOK, Operations
  <2> QED
    BY <1>1, <2>1, PendingAside DEF LeaseExpires
<1>2. CASE ClaimExpires
  <2>1. /\ \A s \in Schedulers : sched[s] = "idle"
        /\ UNCHANGED <<ops, sched>>
        /\ emp'.status = emp.status /\ emp'.revision = emp.revision
        /\ emp'.dated = emp.dated /\ emp'.claim = emp.claim
    BY <1>2 DEF ClaimExpires, TypeInv, TypeOK, Employees
  <2>2. ClaimsHold'
    BY <2>1 DEF ClaimsHold
  <2> QED
    BY <2>1, <2>2, PendingKept DEF PendingInv, Owns, SameRows
<1>3. CASE DeleteCard \/ UNCHANGED vars
  <2>1. UNCHANGED <<emp, ops, sched>>
    BY <1>3 DEF DeleteCard, vars
  <2> QED
    BY <2>1, PendingAside DEF SameRows
<1> QED
  BY <1>1, <1>2, <1>3, PendingRequests, PendingScheduler, PendingRuns DEF Next, Resume

\* At first nothing is pending.
LEMMA PendingInit == Init => PendingInv
BY DEF Init, PendingInv, OnePending, ClaimsHold, IsPending, NoOperation

\* In every reachable state the pending operation owns the employee.
LEMMA PendingHolds == ASSUME ~Overrun, ~Stall, ~ManualSql PROVE Spec => []PendingInv
<1>1. TypeInv /\ PendingInv /\ [Next]_vars => PendingInv'
  BY PendingNext DEF EditByHand
<1> QED
  BY <1>1, PendingInit, TypesHold, PTL DEF Spec

\* While claims outlast their holders and nobody edits the row by hand, the
\* compare-and-set of a pending dismissal or reinstatement can only succeed.
THEOREM PendingOwns == ASSUME ~Overrun, ~Stall, ~ManualSql PROVE Spec => []PendingOwnsState
BY PendingHolds, PendingImplies, TypesHold, PTL

-----------------------------------------------------------------------------
(***************************************************************************)
(* The operations implement Employment.                                    *)
(***************************************************************************)
\* The abstract state a pending operation of this kind stands for.
StateOf(kind) == CASE kind = "dismiss" -> "dismissing"
                   [] kind = "rehire" -> "rehiring"
                   [] OTHER -> "repairing"

\* The operation that is pending decides the abstract state ...
LEMMA AbstractPending ==
  ASSUME OnePending, NEW o \in OpIds, IsPending(o)
  PROVE  AbstractState = StateOf(ops[o].kind)
<1>1. \A p \in OpIds : IsPending(p) => p = o
  BY DEF OnePending
<1>2. (CHOOSE p \in OpIds : IsPending(p)) = o
  BY <1>1
<1>3. ~NoPending
  BY DEF NoPending
<1> QED
  BY <1>2, <1>3 DEF AbstractState, StateOf

\* ... and the status does when none is.
LEMMA AbstractNone ==
  ASSUME NoPending
  PROVE  AbstractState = emp.status
BY DEF AbstractState

\* The same of the state after a step ...
LEMMA AbstractPendingNext ==
  ASSUME OnePending', NEW o \in OpIds, ops'[o].status = "pending"
  PROVE  AbstractState' = StateOf(ops'[o].kind)
<1>1. \A p \in OpIds : IsPending(p)' => p = o
  BY DEF OnePending, IsPending
<1>2. (CHOOSE p \in OpIds : IsPending(p)') = o
  BY <1>1 DEF IsPending
<1>3. ~NoPending'
  BY DEF NoPending, IsPending
<1> QED
  BY <1>2, <1>3 DEF AbstractState, StateOf

\* ... when none is pending there.
LEMMA AbstractNoneNext ==
  ASSUME NoPending'
  PROVE  AbstractState' = emp'.status
BY DEF AbstractState

\* Steps that open and end nothing leave the abstract state alone.
LEMMA AbstractKept ==
  ASSUME OnePending, OnePending', SameRows, emp'.status = emp.status
  PROVE  AbstractState' = AbstractState
<1>1. CASE NoPending
  <2>1. NoPending'
    BY <1>1 DEF NoPending, IsPending, SameRows
  <2> QED
    BY <1>1, <2>1, AbstractNone, AbstractNoneNext
<1>2. ASSUME NEW o \in OpIds, IsPending(o) PROVE AbstractState' = AbstractState
  <2>1. ops'[o].status = "pending" /\ ops'[o].kind = ops[o].kind
    BY <1>2 DEF SameRows, IsPending
  <2> QED
    BY <1>2, <2>1, AbstractPending, AbstractPendingNext
<1> QED
  BY <1>1, <1>2 DEF NoPending

Stutter == AbstractState' = AbstractState /\ emp'.revision = emp.revision

\* Opening an operation begins the change it is for.
LEMMA OpeningBegins ==
  ASSUME TypeInv, PendingInv', NoPending, NEW o \in OpIds, NEW k \in Kinds, NEW t,
         NEW needs, Insert(o, k, t, needs), emp'.revision = emp.revision,
         emp.status = IF k = "rehire" THEN "fired" ELSE "active"
  PROVE  Promise!Next
<1>1. ops'[o].status = "pending" /\ ops'[o].kind = k
  BY InsertKeeps
<1>2. AbstractState' = StateOf(k)
  BY <1>1, AbstractPendingNext DEF PendingInv
<1>3. AbstractState = emp.status
  BY AbstractNone
<1>4. CASE k = "dismiss"
  BY <1>2, <1>3, <1>4 DEF StateOf, Promise!Next, Promise!Begin
<1>5. CASE k = "rehire"
  BY <1>2, <1>3, <1>5 DEF StateOf, Promise!Next, Promise!Begin
<1>6. CASE k = "repair_sigur"
  BY <1>2, <1>3, <1>6 DEF StateOf, Promise!Next, Promise!Begin
<1> QED
  BY <1>4, <1>5, <1>6 DEF Kinds

\* Applying an operation ends the change it is for.
LEMMA ApplyingEnds ==
  ASSUME TypeInv, PendingInv, NEW x \in Runs, Apply(x)
  PROVE  Promise!Next
<1> DEFINE o == run[x].op
<1>1. o \in OpIds /\ IsPending(o) /\ ops[o].kind \in Kinds
  BY ApplyEffect DEF TypeInv, TypeOK, Operations
<1>2. NoPending'
  BY <1>1, ApplyEffect DEF NoPending, IsPending, PendingInv, OnePending
<1>3. AbstractState' = IF ops[o].kind = "dismiss" THEN "fired" ELSE "active"
  BY <1>2, AbstractNoneNext, ApplyEffect
<1>4. AbstractState = StateOf(ops[o].kind)
  BY <1>1, AbstractPending DEF PendingInv
<1>5. emp'.revision = emp.revision + 1
  BY ApplyEffect
<1>6. CASE ops[o].kind = "dismiss"
  BY <1>3, <1>4, <1>5, <1>6 DEF StateOf, Promise!Next, Promise!End
<1>7. CASE ops[o].kind = "rehire"
  BY <1>3, <1>4, <1>5, <1>7 DEF StateOf, Promise!Next, Promise!End
<1>8. CASE ops[o].kind = "repair_sigur"
  BY <1>3, <1>4, <1>5, <1>8 DEF StateOf, Promise!Next, Promise!End
<1> QED
  BY <1>1, <1>6, <1>7, <1>8 DEF Kinds

\* The compare-and-set never refuses a dismissal or a reinstatement, so what
\* is cancelled is a repair.
LEMMA RefusalDrops ==
  ASSUME TypeInv, PendingInv, PendingInv', NEW x \in Runs, ApplyRefused(x)
  PROVE  Stutter \/ Promise!Next
<1> DEFINE o == run[x].op
<1>1. emp' = emp
  BY DEF ApplyRefused
<1>2. CASE ops' = ops
  <2>1. OnePending /\ OnePending' /\ SameRows
    BY <1>2 DEF PendingInv, SameRows
  <2> QED
    BY <1>1, <2>1, AbstractKept DEF Stutter
<1>3. CASE ops' # ops
  <2>1. /\ o \in OpIds /\ IsPending(o) /\ ops[o].kind = "repair_sigur"
        /\ ops' = [ops EXCEPT ![o].status = "cancelled", ![o].owner = Nobody]
    BY <1>3 DEF ApplyRefused, Holds, KindOf, OpOf, TypeInv, RunsHaveOperations
  <2>2. ops'[o].status = "cancelled" /\ \A p \in OpIds : p # o => ops'[p] = ops[p]
    BY <2>1 DEF TypeInv, TypeOK, Operations
  <2>3. NoPending'
    BY <2>1, <2>2 DEF NoPending, IsPending, PendingInv, OnePending
  <2>4. emp.status = "active"
    BY <2>1 DEF PendingInv, Owns
  <2>5. AbstractState = "repairing" /\ AbstractState' = "active"
    BY <1>1, <2>1, <2>3, <2>4, AbstractPending, AbstractNoneNext DEF PendingInv, StateOf
  <2> QED
    BY <1>1, <2>5 DEF Promise!Next, Promise!Begin
<1> QED
  BY <1>2, <1>3

\* A dismissal is only planned or withdrawn while none is pending.
LEMMA PlanningPlans ==
  ASSUME TypeInv, PendingInv, PendingInv', FireLater \/ CancelDismissal
  PROVE  Promise!Next
<1>1. /\ emp.status = "active" /\ emp.claim = Nobody /\ emp'.status = emp.status
      /\ emp'.revision = emp.revision + 1 /\ ops' = ops
  BY DEF Unclaimed, FireLater, CancelDismissal, TypeInv, TypeOK, Employees
<1>2. AbstractState' = AbstractState
  BY <1>1, AbstractKept DEF PendingInv, SameRows
<1>3. CASE NoPending
  BY <1>1, <1>2, <1>3, AbstractNone DEF Promise!Next, Promise!Plan
<1>4. ASSUME NEW o \in OpIds, IsPending(o) PROVE Promise!Next
  <2>1. ops[o].kind \notin {"dismiss", "rehire"}
    BY <1>1, <1>4 DEF PendingInv, Owns
  <2>2. AbstractState = "repairing"
    BY <1>4, <2>1, AbstractPending DEF PendingInv, StateOf
  <2> QED
    BY <1>1, <1>2, <2>2 DEF Promise!Next, Promise!Plan
<1> QED
  BY <1>3, <1>4 DEF NoPending

\* Every step is a step of Employment or leaves its variables alone.
LEMMA StepsImplement ==
  ASSUME ~EditByHand, TypeInv, PendingInv, PendingInv', [Next]_vars
  PROVE  Stutter \/ Promise!Next
<1>t. emp \in Employees /\ ops \in [OpIds -> Operations]
  BY DEF TypeInv, TypeOK
<1>k. ASSUME SameRows, emp'.status = emp.status, emp'.revision = emp.revision PROVE Stutter
  BY <1>k, AbstractKept DEF PendingInv, Stutter
<1>u. UNCHANGED <<emp, ops>> => Stutter
  BY <1>k DEF SameRows
<1>1. CASE Requests
  <2>1. CASE FireLater \/ CancelDismissal
    BY <2>1, PlanningPlans
  <2>2. ASSUME NEW o \in OpIds, FireNow(o) PROVE Promise!Next
    <3>1. /\ Insert(o, "dismiss", Archive, Needs(emp.linked, emp.linked)) /\ NoPending
          /\ emp.status = "active" /\ emp'.revision = emp.revision
      BY <2>2, <1>t DEF FireNow, OpenDismissClaiming, Employees
    <3> QED
      BY <3>1, OpeningBegins DEF Kinds
  <2>3. ASSUME NEW o \in OpIds, NEW d \in WorkDepts, Rehire(o, d) PROVE Promise!Next
    BY <2>3, OpeningBegins DEF Rehire, OpenRehire, Kinds
  <2>4. ASSUME NEW o \in OpIds, NEW d \in WorkDepts, OpenRepair(o, d) PROVE Promise!Next
    BY <2>4, OpeningBegins DEF OpenRepair, Kinds
  <2> QED
    BY <1>1, <2>1, <2>2, <2>3, <2>4 DEF Requests
<1>2. ASSUME NEW s \in Schedulers, SchedulerStep(s) \/ SchedCrash(s)
      PROVE  Stutter \/ Promise!Next
  <2>1. ASSUME NEW o \in OpIds, SchedOpen(s, o) PROVE Promise!Next
    BY <2>1, OpeningBegins DEF SchedOpen, Kinds
  <2>2. CASE SchedClaim(s) \/ SchedLoad(s)
    <3>1. emp'.status = emp.status /\ emp'.revision = emp.revision /\ ops' = ops
      BY <2>2, <1>t DEF SchedClaim, SchedLoad, Employees
    <3> QED
      BY <3>1, <1>k DEF SameRows
  <2>3. CASE SchedRefused(s) \/ SchedCrash(s)
    BY <2>3, <1>u DEF SchedRefused, SchedCrash
  <2> QED
    BY <1>2, <2>1, <2>2, <2>3 DEF SchedulerStep
<1>3. ASSUME NEW x \in Runs, RunStep(x) \/ Crash(x) PROVE Stutter \/ Promise!Next
  <2>1. CASE WriteStep(x)
    <3>1. SameRows
      BY <2>1, <1>t DEF WriteStep, SameRows, Operations
    <3> QED
      BY <2>1, <3>1, <1>k DEF WriteStep
  <2>2. CASE SigurCall(x) \/ SigurCallFails(x) \/ SigurCallNotFound(x) \/ Probe(x) \/ Crash(x)
    BY <2>2, <1>u DEF SigurCall, SigurCallFails, SigurCallNotFound, Probe, Crash
  <2>3. CASE Refresh(x) \/ ChangeDept(x) \/ GrantAccess(x)
    <3>1. emp'.status = emp.status /\ emp'.revision = emp.revision
      BY <2>3, <1>t DEF Refresh, ChangeDept, GrantAccess, Employees
    <3>2. ops' = ops
      BY <2>3 DEF Refresh, ChangeDept, GrantAccess
    <3> QED
      BY <3>1, <3>2, <1>k DEF SameRows
  <2>4. CASE Apply(x)
    BY <2>4, ApplyingEnds
  <2>5. CASE ApplyRefused(x)
    BY <2>5, RefusalDrops
  <2> QED
    BY <1>3, <2>1, <2>2, <2>3, <2>4, <2>5 DEF RunStep
<1>4. ASSUME NEW o \in OpIds, NEW x \in Runs, Acquire(x, o) PROVE Stutter
  <2>1. \A q \in OpIds : q # o => ops'[q] = ops[q]
    BY <1>t, <1>4 DEF Acquire
  <2>2. /\ ops'[o].kind = ops[o].kind /\ ops'[o].status = ops[o].status
        /\ ops'[o].base = ops[o].base
    BY <1>t, <1>4 DEF Acquire, Operations
  <2> QED
    BY <1>4, <2>1, <2>2, <1>k DEF Acquire, SameRows
<1>5. ASSUME NEW o \in OpIds, LeaseExpires(o) PROVE Stutter
  <2>1. SameRows
    BY <1>5, <1>t DEF LeaseExpires, SameRows, Operations
  <2> QED
    BY <1>5, <2>1, <1>k DEF LeaseExpires
<1>6. CASE ClaimExpires
  <2>1. emp'.status = emp.status /\ emp'.revision = emp.revision /\ ops' = ops
    BY <1>6, <1>t DEF ClaimExpires, Employees
  <2> QED
    BY <2>1, <1>k DEF SameRows
<1>7. CASE DeleteCard \/ UNCHANGED vars
  BY <1>7, <1>u DEF DeleteCard, vars
<1> QED
  BY <1>1, <1>2, <1>3, <1>4, <1>5, <1>6, <1>7 DEF Next, Resume

\* While claims outlast their holders and nobody edits the row by hand, the
\* operations implement Employment: what has begun ends by being applied, and
\* nothing else moves the revision meanwhile.
THEOREM OperationsImplementEmployment ==
  ASSUME ~Overrun, ~Stall, ~ManualSql PROVE Spec => ImplementsEmployment
<1>1. Init => Promise!Init
  <2> SUFFICES ASSUME Init PROVE Promise!Init
    OBVIOUS
  <2>1. NoPending
    BY DEF Init, NoPending, IsPending, NoOperation
  <2> QED
    BY <2>1, AbstractNone DEF Init, Promise!Init
<1>2. TypeInv /\ PendingInv /\ PendingInv' /\ [Next]_vars =>
        [Promise!Next]_<<AbstractState, emp.revision>>
  BY StepsImplement DEF Stutter, EditByHand
<1> QED
  BY <1>1, <1>2, PendingHolds, TypesHold, PTL DEF Spec, ImplementsEmployment, Promise!Spec

-----------------------------------------------------------------------------
(***************************************************************************)
(* The history: dismissals and reinstatements alternate, however long runs *)
(* and schedulers stall.  Leases play no part in this: it follows from the *)
(* final compare-and-set alone.                                            *)
(***************************************************************************)
\* A change of status that ended in the status the employee has now.
Agrees(o) == (ops[o].kind = "dismiss") <=> (emp.status = "fired")

\* The status is the one the last recorded change has led to: a change that
\* led to the other one has been followed by one that agrees.
LastChangeAgrees ==
  \A o \in events :
    /\ ops[o].kind # "repair_sigur"
    /\ ~Agrees(o) => \E q \in events : Agrees(q) /\ ops[o].base < ops[q].base

HistoryInv == LastChangeAgrees /\ ChangesAlternate

\* What a step that applies nothing leaves alone.
HistoryKept ==
  /\ events' = events /\ emp'.status = emp.status
  /\ \A o \in OpIds : ops[o].status = "applied" =>
       ops'[o].kind = ops[o].kind /\ ops'[o].base = ops[o].base

\* Steps that apply nothing keep the alternation.
LEMMA HistoryCarries ==
  ASSUME TypeInv, EventsInv, HistoryInv, HistoryKept
  PROVE  HistoryInv'
<1>1. \A o \in events : ops'[o].kind = ops[o].kind /\ ops'[o].base = ops[o].base
  BY DEF TypeInv, TypeOK, EventsInv, EventsPast, HistoryKept
<1>2. \A o \in events : Agrees(o)' <=> Agrees(o)
  BY <1>1 DEF Agrees, HistoryKept
<1>3. LastChangeAgrees'
  BY <1>1, <1>2 DEF HistoryInv, LastChangeAgrees, HistoryKept
<1>4. ChangesAlternate'
  BY <1>1 DEF HistoryInv, ChangesAlternate, HistoryKept
<1> QED
  BY <1>3, <1>4 DEF HistoryInv

\* A repair is recorded in no history and changes no status.
LEMMA RepairKeepsHistory ==
  ASSUME TypeInv, NEW x \in Runs, Apply(x), KindOf(x) = "repair_sigur"
  PROVE  HistoryKept
<1> DEFINE o == run[x].op
<1>1. /\ o \in OpIds /\ IsPending(o)
      /\ \A p \in OpIds : p # o => ops'[p] = ops[p]
      /\ emp'.status = emp.status
  BY ApplyEffect DEF KindOf, OpOf
<1>2. events' = events
  BY DEF Apply
<1> QED
  BY <1>1, <1>2 DEF HistoryKept, IsPending

\* A dismissal or a reinstatement is applied to an employee of the opposite
\* status, at a revision above all recorded ones.
LEMMA ChangeExtendsHistory ==
  ASSUME TypeInv, EventsInv, HistoryInv, NEW x \in Runs, Apply(x),
         NEW o \in OpIds, o = run[x].op, ops[o].kind # "repair_sigur"
  PROVE  HistoryInv'
<1>1. /\ \A p \in OpIds : p # o => ops'[p] = ops[p]
      /\ emp'.status = IF ops[o].kind = "dismiss" THEN "fired" ELSE "active"
  BY ApplyEffect
<1>2. /\ events' = events \cup {o} /\ o \notin events
      /\ ops[o].base = emp.revision /\ emp.revision \in Nat
      /\ emp.status = IF ops[o].kind = "rehire" THEN "fired" ELSE "active"
  BY DEF Apply, KindOf, OpOf, CasHolds, TypeInv, TypeOK, Employees
<1>3. ops[o].kind \in {"dismiss", "rehire"}
  BY DEF TypeInv, TypeOK, Operations, Kinds
<1>4. ops'[o].kind = ops[o].kind /\ ops'[o].base = ops[o].base
  BY <1>1 DEF Apply, TypeInv, TypeOK, Operations
<1>5. \A p \in events : /\ p \in OpIds /\ p # o
                        /\ ops[p].base \in Nat /\ ops[p].base < ops[o].base
                        /\ ops[p].kind \in {"dismiss", "rehire"}
  BY <1>2 DEF TypeInv, TypeOK, EventsInv, EventsPast, Operations, Kinds,
              HistoryInv, LastChangeAgrees
<1>6. \A p \in events' : ops'[p].kind = ops[p].kind /\ ops'[p].base = ops[p].base
  BY <1>1, <1>2, <1>4, <1>5
<1>7. Agrees(o)'
  BY <1>1, <1>3, <1>4 DEF Agrees
<1>8. LastChangeAgrees'
  BY <1>2, <1>3, <1>4, <1>5, <1>6, <1>7 DEF LastChangeAgrees
<1>9. ASSUME NEW p \in events, ops[p].kind = ops[o].kind
      PROVE  \E q \in events : /\ ops[q].kind # ops[o].kind
                               /\ ops[p].base < ops[q].base /\ ops[q].base < ops[o].base
  <2>1. ~Agrees(p)
    BY <1>2, <1>3, <1>9 DEF Agrees
  <2>2. PICK q \in events : Agrees(q) /\ ops[p].base < ops[q].base
    BY <2>1 DEF HistoryInv, LastChangeAgrees
  <2>3. ops[q].kind # ops[o].kind
    BY <1>2, <1>3, <1>5, <2>2 DEF Agrees
  <2> QED
    BY <1>5, <2>2, <2>3
<1>10. ChangesAlternate'
  <2> SUFFICES ASSUME NEW p \in events', NEW r \in events', p # r,
                      ops[p].kind = ops[r].kind, ops[p].base <= ops[r].base
               PROVE  \E q \in events' : /\ ops[q].kind # ops[p].kind
                                         /\ ops[p].base < ops[q].base
                                         /\ ops[q].base < ops[r].base
    BY <1>6 DEF ChangesAlternate
  <2>1. p \in events
    BY <1>2, <1>5
  <2>2. CASE r = o
    BY <1>2, <1>9, <2>1, <2>2
  <2>3. CASE r \in events
    BY <1>2, <2>1, <2>3 DEF HistoryInv, ChangesAlternate
  <2> QED
    BY <1>2, <2>2, <2>3
<1> QED
  BY <1>8, <1>10 DEF HistoryInv

\* Without manual edits only an application touches status and history.
LEMMA OnlyApplyChanges ==
  ASSUME ~ManualSql, TypeInv, [Next]_vars
  PROVE  HistoryKept \/ \E x \in Runs : Apply(x)
<1> USE DEF TypeInv, TypeOK
<1>1. CASE Requests
  <2>1. CASE FireLater \/ CancelDismissal
    BY <2>1 DEF FireLater, CancelDismissal, Unclaimed, Employees, HistoryKept
  <2>2. ASSUME NEW o \in OpIds, FireNow(o) PROVE HistoryKept
    BY <2>2 DEF FireNow, OpenDismissClaiming, Insert, Employees, HistoryKept
  <2>3. ASSUME NEW o \in OpIds, NEW d \in WorkDepts, Rehire(o, d) \/ OpenRepair(o, d)
        PROVE  HistoryKept
    BY <2>3 DEF Rehire, OpenRehire, OpenRepair, Insert, HistoryKept
  <2> QED
    BY <1>1, <2>1, <2>2, <2>3 DEF Requests
<1>2. ASSUME NEW s \in Schedulers, SchedulerStep(s) \/ SchedCrash(s) PROVE HistoryKept
  BY <1>2 DEF SchedulerStep, SchedCrash, SchedClaim, SchedLoad, SchedOpen, SchedRefused,
              Insert, Employees, HistoryKept
<1>3. ASSUME NEW x \in Runs, RunStep(x) \/ Crash(x), ~Apply(x) PROVE HistoryKept
  <2>1. CASE SigurCall(x) \/ SigurCallFails(x) \/ SigurCallNotFound(x) \/ Probe(x) \/ Crash(x)
    BY <2>1 DEF SigurCall, SigurCallFails, SigurCallNotFound, Probe, Crash, HistoryKept
  <2>2. CASE WriteStep(x)
    BY <2>2 DEF WriteStep, Operations, HistoryKept
  <2>3. CASE Refresh(x) \/ ChangeDept(x) \/ GrantAccess(x)
    BY <2>3 DEF Refresh, ChangeDept, GrantAccess, Employees, HistoryKept
  <2>4. CASE ApplyRefused(x)
    BY <2>4 DEF ApplyRefused, Operations, HistoryKept
  <2> QED
    BY <1>3, <2>1, <2>2, <2>3, <2>4 DEF RunStep
<1>4. ASSUME NEW o \in OpIds, Resume(o) \/ LeaseExpires(o) PROVE HistoryKept
  <2>1. ASSUME NEW x \in Runs, Acquire(x, o) PROVE HistoryKept
    BY <1>4, <2>1 DEF Acquire, Operations, HistoryKept
  <2>2. CASE LeaseExpires(o)
    BY <2>2 DEF LeaseExpires, Operations, HistoryKept
  <2> QED
    BY <1>4, <2>1, <2>2 DEF Resume
<1>5. CASE ClaimExpires \/ DeleteCard \/ UNCHANGED vars
  BY <1>5 DEF ClaimExpires, DeleteCard, vars, Employees, HistoryKept
<1>6. ~EditByHand
  BY DEF EditByHand
<1> QED
  BY <1>1, <1>2, <1>3, <1>4, <1>5, <1>6 DEF Next

\* Dismissals and reinstatements alternate, with no assumption on leases,
\* claims or the time a scheduler takes: a slow executor applies its change
\* to the state it was decided on or not at all.
THEOREM ChangesOfStatusAlternate ==
  ASSUME ~ManualSql PROVE Spec => []ChangesAlternate
<1>1. Init => EventsInv /\ HistoryInv
  BY DEF Init, EventsInv, EventsPast, OneChangePerRevision, HistoryInv,
         LastChangeAgrees, ChangesAlternate
<1>2. TypeInv /\ EventsInv /\ HistoryInv /\ [Next]_vars => EventsInv' /\ HistoryInv'
  <2> SUFFICES ASSUME TypeInv, EventsInv, HistoryInv, [Next]_vars PROVE HistoryInv'
    BY EventsNext
  <2>1. CASE HistoryKept
    BY <2>1, HistoryCarries
  <2>2. ASSUME NEW x \in Runs, Apply(x) PROVE HistoryInv'
    BY <2>2, ApplyEffect, RepairKeepsHistory, HistoryCarries, ChangeExtendsHistory
       DEF KindOf, OpOf
  <2> QED
    BY <2>1, <2>2, OnlyApplyChanges
<1>3. EventsInv /\ HistoryInv => ChangesAlternate
  BY DEF HistoryInv
<1> QED
  BY <1>1, <1>2, <1>3, TypesHold, PTL DEF Spec
=============================================================================
