----------------------- MODULE LifecycleOutcomeProofs -----------------------
(***************************************************************************)
(* What the operations leave behind: with nothing pending, the card, the   *)
(* department and the rights agree with the status of the employee.        *)
(***************************************************************************)
EXTENDS LifecycleOwnershipProofs

Busy(x) == run[x].pc # "idle"

-----------------------------------------------------------------------------
(***************************************************************************)
(* The kinds of steps.                                                     *)
(***************************************************************************)
SameEmployee == /\ emp'.status = emp.status /\ emp'.linked = emp.linked
                /\ emp'.dept = emp.dept /\ emp'.access = emp.access

\* Leases, claims, dates and schedulers; the card may be deleted.
Aside ==
  /\ SameEmployee /\ run' = run
  /\ card' = card \/ card'.place = Gone
  /\ \A o \in OpIds : /\ ops'[o].kind = ops[o].kind /\ ops'[o].status = ops[o].status
                      /\ ops'[o].target = ops[o].target /\ ops'[o].flags = ops[o].flags
                      /\ ops'[o].base = ops[o].base /\ ops'[o].snapshot = ops[o].snapshot

\* An operation is opened on an employee in the status it starts from.
Opening(o) ==
  /\ SameEmployee /\ run' = run /\ card' = card
  /\ NoPending /\ ops[o].status = "absent"
  /\ \A p \in OpIds : p # o => ops'[p] = ops[p]
  /\ ops'[o].status = "pending"
  /\ \/ /\ ops'[o].kind = "dismiss" /\ emp.status = "active" /\ ops'[o].target = Archive
        /\ ops'[o].flags = Needs(emp.linked, emp.linked)
     \/ /\ ops'[o].kind = "rehire" /\ emp.status = "fired" /\ ops'[o].target \in WorkDepts
        /\ ops'[o].flags = Needs(emp.linked, emp.linked)
     \/ /\ ops'[o].kind = "repair_sigur" /\ emp.status = "active" /\ ops'[o].target \in WorkDepts

LEMMA InsertOpens ==
  ASSUME TypeInv, NEW o \in OpIds, NEW k, NEW t, NEW needs, Insert(o, k, t, needs)
  PROVE  /\ ops[o].status = "absent" /\ ops'[o].status = "pending"
         /\ ops'[o].kind = k /\ ops'[o].target = t /\ ops'[o].flags = needs
         /\ \A p \in OpIds : p # o => ops'[p] = ops[p]
BY DEF Insert, TypeInv, TypeOK, NoOperation

\* Every step is one of these, or a step of an execution.
LEMMA KindsOfSteps ==
  ASSUME ~EditByHand, TypeInv, [Next]_vars
  PROVE  \/ Aside
         \/ \E o \in OpIds : Opening(o)
         \/ \E x \in Runs : RunStep(x) \/ Crash(x) \/ \E o \in OpIds : Acquire(x, o)
<1>t. emp \in Employees /\ ops \in [OpIds -> Operations]
  BY DEF TypeInv, TypeOK
<1>1. ASSUME SameEmployee, UNCHANGED <<ops, run, card>> PROVE Aside
  BY <1>1 DEF Aside
<1>2. CASE Requests
  <2>1. CASE FireLater \/ CancelDismissal
    <3>1. SameEmployee
      BY <1>t, <2>1 DEF FireLater, CancelDismissal, SameEmployee, Employees
    <3> QED BY <1>1, <2>1, <3>1 DEF FireLater, CancelDismissal
  <2>2. ASSUME NEW o \in OpIds, FireNow(o) PROVE Opening(o)
    <3>1. SameEmployee
      BY <1>t, <2>2 DEF FireNow, OpenDismissClaiming, SameEmployee, Employees
    <3> QED BY <2>2, <3>1, InsertOpens DEF FireNow, OpenDismissClaiming, Opening
  <2>3. ASSUME NEW o \in OpIds, NEW d \in WorkDepts, Rehire(o, d) PROVE Opening(o)
    BY <2>3, InsertOpens DEF Rehire, OpenRehire, SameEmployee, Opening
  <2>4. ASSUME NEW o \in OpIds, NEW d \in WorkDepts, OpenRepair(o, d) PROVE Opening(o)
    BY <2>4, InsertOpens DEF OpenRepair, SameEmployee, Opening
  <2> QED BY <1>2, <2>1, <2>2, <2>3, <2>4 DEF Requests
<1>3. ASSUME NEW s \in Schedulers, SchedulerStep(s) \/ SchedCrash(s)
      PROVE  Aside \/ \E o \in OpIds : Opening(o)
  <2>1. ASSUME NEW o \in OpIds, SchedOpen(s, o) PROVE Opening(o)
    BY <2>1, InsertOpens DEF SchedOpen, SameEmployee, Opening
  <2>2. CASE SchedClaim(s) \/ SchedLoad(s)
    <3>1. SameEmployee
      BY <1>t, <2>2 DEF SchedClaim, SchedLoad, SameEmployee, Employees
    <3> QED BY <1>1, <2>2, <3>1 DEF SchedClaim, SchedLoad
  <2>3. CASE SchedRefused(s) \/ SchedCrash(s)
    BY <1>1, <2>3 DEF SchedRefused, SchedCrash, SameEmployee
  <2> QED BY <1>3, <2>1, <2>2, <2>3 DEF SchedulerStep
<1>4. ASSUME NEW o \in OpIds, LeaseExpires(o) PROVE Aside
  <2>1. \A p \in OpIds : /\ ops'[p].kind = ops[p].kind /\ ops'[p].status = ops[p].status
                         /\ ops'[p].target = ops[p].target /\ ops'[p].flags = ops[p].flags
                         /\ ops'[p].base = ops[p].base /\ ops'[p].snapshot = ops[p].snapshot
    BY <1>t, <1>4 DEF LeaseExpires, Operations
  <2> QED BY <1>4, <2>1 DEF LeaseExpires, Aside, SameEmployee
<1>5. CASE ClaimExpires
  <2>1. SameEmployee
    BY <1>t, <1>5 DEF ClaimExpires, SameEmployee, Employees
  <2> QED BY <1>1, <1>5, <2>1 DEF ClaimExpires
<1>6. CASE DeleteCard
  <2>1. card'.place = Gone
    BY <1>6 DEF DeleteCard, TypeInv, TypeOK, Cards
  <2> QED BY <1>6, <2>1 DEF DeleteCard, Aside, SameEmployee
<1>7. CASE UNCHANGED vars
  BY <1>1, <1>7 DEF vars, SameEmployee
<1> QED BY <1>2, <1>3, <1>4, <1>5, <1>6, <1>7 DEF Next, Resume

\* There is one execution at a time, of the one operation that is pending.
LEMMA OnlyRun ==
  ASSUME TypeInv, ExecInv, PendingInv, NEW x \in Runs, Busy(x)
  PROVE  /\ run[x].op \in OpIds /\ IsPending(run[x].op)
         /\ \A o \in OpIds : IsPending(o) => o = run[x].op
         /\ \A y \in Runs : Busy(y) => y = x
<1>1. \A y \in Runs : Busy(y) => /\ run[y].op \in OpIds /\ IsPending(run[y].op)
                                /\ ops[run[y].op].owner = y
  BY DEF Busy, TypeInv, RunsHaveOperations, ExecInv, RunsHold
<1> QED BY <1>1 DEF PendingInv, OnePending

\* No execution is under way when nothing is pending.
LEMMA NoRun ==
  ASSUME TypeInv, ExecInv, NoPending
  PROVE  \A x \in Runs : ~Busy(x)
BY DEF Busy, TypeInv, RunsHaveOperations, ExecInv, RunsHold, NoPending

-----------------------------------------------------------------------------
(***************************************************************************)
(* The steps of the one execution there is.                                *)
(***************************************************************************)
\* A dismissal leads to the archive, everything else to a working department.
Targets ==
  \A o \in OpIds : IsPending(o) =>
    IF ops[o].kind = "dismiss" THEN ops[o].target = Archive ELSE ops[o].target \in WorkDepts

\* The copy of the flags an execution holds is the row's; who is about to move
\* the card has not recorded the move; a repair only moves the card; whoever
\* detaches a card has seen that it is gone.
RunsFollow ==
  \A x \in Runs : Busy(x) =>
    /\ run[x].flags = OpOf(x).flags
    /\ run[x].pc \in {"target", "move"} => ~run[x].flags.moved
    /\ KindOf(x) = "repair_sigur" => run[x].pc \in {"move", "moved", "probe", "apply"}
    /\ run[x].pc = "probe" => KindOf(x) = "repair_sigur"
    /\ run[x].pc = "detach" => card.place = Gone

StepInv == Targets /\ RunsFollow

\* Where an execution goes on when it has read or written the flags.
LEMMA NextSteps ==
  ASSUME NEW f
  PROVE  /\ NextStep("repair_sigur", f) \in {"move", "probe"}
         /\ \A kind \in Kinds : NextStep(kind, f) = "probe" => kind = "repair_sigur"
         /\ \A kind \in Kinds : NextStep(kind, f) \in {"target", "move"} => ~f.moved
         /\ \A kind \in Kinds : NextStep(kind, f) \notin {"idle", "moved", "toggled", "detach", "apply", "grant"}
         /\ \A kind \in Kinds \ {"repair_sigur"} :
              f.accessReq /\ NextStep(kind, f) \in {"refresh", "dept"} =>
                (f.moved \/ ~f.moveReq) /\ f.toggled
BY DEF NextStep, Kinds

LEMMA StepAside ==
  ASSUME TypeInv, ExecInv, StepInv, Aside \/ \E o \in OpIds : Opening(o) PROVE StepInv'
<1>t. ops \in [OpIds -> Operations] /\ \A x \in Runs : Busy(x) => run[x].op \in OpIds
  BY DEF TypeInv, TypeOK, RunsHaveOperations, Busy
<1>1. CASE Aside
  <2>1. Targets'
    BY <1>1 DEF Aside, StepInv, Targets, IsPending
  <2>2. RunsFollow'
    BY <1>1, <1>t DEF Aside, StepInv, RunsFollow, Busy, OpOf, KindOf
  <2> QED BY <2>1, <2>2 DEF StepInv
<1>2. ASSUME NEW o \in OpIds, Opening(o) PROVE StepInv'
  <2>1. Targets'
    BY <1>2 DEF Opening, StepInv, Targets, IsPending
  <2>2. RunsFollow'
    BY <1>2, NoRun DEF Opening, RunsFollow, Busy
  <2> QED BY <2>1, <2>2 DEF StepInv
<1> QED BY <1>1, <1>2

\* What remains to be shown of a step of the execution.
LEMMA StepOnly ==
  ASSUME TypeInv, ExecInv, PendingInv, StepInv, NEW x \in Runs, Busy(x),
         \A y \in Runs : y # x => run'[y] = run[y],
         \A p \in OpIds : p # run[x].op => ops'[p] = ops[p],
         ops'[run[x].op].kind = KindOf(x), ops'[run[x].op].target = OpOf(x).target,
         run'[x].pc # "idle" =>
           /\ run'[x].op = run[x].op /\ run'[x].flags = ops'[run[x].op].flags
           /\ run'[x].pc \in {"target", "move"} => ~run'[x].flags.moved
           /\ KindOf(x) = "repair_sigur" => run'[x].pc \in {"move", "moved", "probe", "apply"}
           /\ run'[x].pc = "probe" => KindOf(x) = "repair_sigur"
           /\ run'[x].pc = "detach" => card'.place = Gone
  PROVE  StepInv'
<1>1. /\ run[x].op \in OpIds /\ IsPending(run[x].op)
      /\ \A y \in Runs : Busy(y) => y = x
  BY OnlyRun
<1>2. Targets'
  BY <1>1 DEF StepInv, Targets, IsPending, KindOf, OpOf
<1>3. RunsFollow'
  BY <1>1 DEF RunsFollow, Busy, OpOf, KindOf
<1> QED BY <1>2, <1>3 DEF StepInv

LEMMA StepRuns ==
  ASSUME TypeInv, ExecInv, PendingInv, StepInv, NEW x \in Runs, RunStep(x) \/ Crash(x)
  PROVE  StepInv'
<1> DEFINE o == run[x].op
<1>i. Idle.pc = "idle"
  BY DEF Idle
<1>t. /\ run[x] \in Memories /\ run \in [Runs -> Memories] /\ ops \in [OpIds -> Operations]
  BY DEF TypeInv, TypeOK
<1>b. Busy(x)
  BY DEF Busy, RunStep, WriteStep, SigurCall, SigurCallFails, SigurCallNotFound, Calling,
         Refresh, ChangeDept, GrantAccess, Probe, Apply, ApplyRefused, Crash
<1>o. /\ o \in OpIds /\ KindOf(x) \in Kinds /\ run[x].flags = OpOf(x).flags
      /\ KindOf(x) = "repair_sigur" => run[x].pc \in {"move", "moved", "probe", "apply"}
  BY <1>b, <1>t, OnlyRun DEF StepInv, RunsFollow, KindOf, OpOf, Operations
<1>s. ASSUME Stop(x), \A p \in OpIds : p # o => ops'[p] = ops[p],
             ops'[o].kind = KindOf(x), ops'[o].target = OpOf(x).target
      PROVE  StepInv'
  <2>1. run'[x].pc = "idle" /\ \A y \in Runs : y # x => run'[y] = run[y]
    BY <1>s, <1>i, <1>t DEF Stop
  <2> QED BY <1>s, <1>b, <2>1, StepOnly
<1>g. ASSUME NEW step, Goto(x, step), ops' = ops, step \notin {"target", "move"},
             KindOf(x) = "repair_sigur" => step \in {"move", "moved", "probe", "apply"},
             step = "probe" => KindOf(x) = "repair_sigur",
             step = "detach" => card'.place = Gone
      PROVE  StepInv'
  <2>1. /\ run'[x].pc = step /\ run'[x].op = o /\ run'[x].flags = run[x].flags
        /\ \A y \in Runs : y # x => run'[y] = run[y]
    BY <1>g, <1>t DEF Goto, Memories
  <2> QED BY <1>g, <1>b, <1>o, <2>1, StepOnly DEF KindOf, OpOf
<1>n. ops' = ops => ops'[o].kind = KindOf(x) /\ ops'[o].target = OpOf(x).target
  BY DEF KindOf, OpOf
<1>1. CASE WriteStep(x)
  <2>1. CASE Holds(x)
    <3> DEFINE copy == Patch(run[x].pc, run[x].flags)
    <3>1. /\ \A p \in OpIds : p # o => ops'[p] = ops[p]
          /\ ops'[o].kind = KindOf(x) /\ ops'[o].target = OpOf(x).target /\ ops'[o].flags = copy
      BY <1>1, <2>1, <1>o, <1>t DEF WriteStep, Operations, KindOf, OpOf
    <3>2. /\ \A y \in Runs : y # x => run'[y] = run[y]
          /\ run'[x].op = o /\ run'[x].flags = copy
          /\ \/ run[x].pc = "target" /\ run'[x].pc = "move"
             \/ run'[x].pc = NextStep(KindOf(x), copy)
      BY <1>1, <2>1, <1>t DEF WriteStep, Memories
    <3>3. /\ KindOf(x) = "repair_sigur" => run'[x].pc \in {"move", "moved", "probe", "apply"}
          /\ run'[x].pc = "probe" => KindOf(x) = "repair_sigur"
          /\ run'[x].pc # "detach"
      BY <1>o, <3>2, NextSteps
    <3>4. run'[x].pc \in {"target", "move"} => ~copy.moved
      <4>1. run[x].pc = "target" => copy = run[x].flags /\ ~run[x].flags.moved
        BY <1>b DEF Patch, StepInv, RunsFollow
      <4> QED BY <1>o, <3>2, <4>1, NextSteps
    <3> QED BY <1>b, <3>1, <3>2, <3>3, <3>4, StepOnly
  <2>2. CASE ~Holds(x)
    BY <1>1, <2>2, <1>n, <1>s DEF WriteStep
  <2> QED BY <2>1, <2>2
<1>2. CASE SigurCall(x)
  BY <1>2, <1>o, <1>g DEF SigurCall, Calling
<1>3. CASE SigurCallFails(x) \/ Crash(x)
  BY <1>3, <1>n, <1>s DEF SigurCallFails, Crash
<1>4. CASE SigurCallNotFound(x)
  BY <1>4, <1>n, <1>g, <1>s DEF SigurCallNotFound, DetachesOn404
<1>5. CASE Refresh(x) \/ ChangeDept(x) \/ GrantAccess(x)
  BY <1>5, <1>o, <1>n, <1>g, <1>s DEF Refresh, ChangeDept, GrantAccess
<1>6. CASE Probe(x)
  BY <1>6, <1>n, <1>g, <1>s DEF Probe
<1>7. CASE Apply(x) \/ ApplyRefused(x)
  <2>1. /\ \A p \in OpIds : p # o => ops'[p] = ops[p]
        /\ ops'[o].kind = KindOf(x) /\ ops'[o].target = OpOf(x).target
    BY <1>7, <1>o, <1>t DEF Apply, ApplyRefused, Operations, KindOf, OpOf
  <2> QED BY <1>7, <2>1, <1>s DEF Apply, ApplyRefused
<1> QED BY <1>1, <1>2, <1>3, <1>4, <1>5, <1>6, <1>7 DEF RunStep

\* What an execution starts from.
LEMMA AcquireFacts ==
  ASSUME TypeInv, ExecInv, PendingInv, NEW x \in Runs, NEW o \in OpIds, Acquire(x, o)
  PROVE  /\ IsPending(o) /\ \A y \in Runs : ~Busy(y)
         /\ \A p \in OpIds : p # o => ops'[p] = ops[p]
         /\ ops'[o].status = "pending" /\ ops'[o].kind = ops[o].kind /\ ops[o].kind \in Kinds
         /\ ops'[o].target = ops[o].target /\ ops'[o].flags = ops[o].flags
         /\ \A y \in Runs : y # x => run'[y] = run[y]
         /\ run'[x].op = o /\ run'[x].flags = ops[o].flags
         /\ run'[x].pc = NextStep(ops[o].kind, ops[o].flags)
<1>1. /\ IsPending(o) /\ LeaseFree(o) /\ ops \in [OpIds -> Operations] /\ run \in [Runs -> Memories]
  BY DEF Acquire, TypeInv, TypeOK
<1>2. ASSUME NEW y \in Runs, Busy(y) PROVE FALSE
  <2>1. run[y].op = o
    BY <1>1, <1>2, OnlyRun
  <2>2. ops[o].owner = y /\ ops[o].leased
    BY <1>2, <2>1 DEF Busy, ExecInv, RunsHold
  <2> QED BY <1>1, <2>2, ConstantsAssumption DEF LeaseFree
<1> QED BY <1>1, <1>2 DEF Acquire, Operations, IsPending

LEMMA StepAcquire ==
  ASSUME TypeInv, ExecInv, PendingInv, StepInv, NEW x \in Runs, NEW o \in OpIds, Acquire(x, o)
  PROVE  StepInv'
<1>1. Targets'
  BY AcquireFacts DEF StepInv, Targets, IsPending
<1>2. RunsFollow'
  BY AcquireFacts, NextSteps DEF RunsFollow, Busy, OpOf, KindOf
<1> QED BY <1>1, <1>2 DEF StepInv

-----------------------------------------------------------------------------
(***************************************************************************)
(* The card.                                                               *)
(***************************************************************************)
OnPortal == emp.linked /\ card.place # Gone

\* What the flags of the pending row say of the card. If late, somebody else
\* may have taken the card out of the department of a reinstatement. (A row that
\* asks for no move was opened for a card already in the archive.)
RowSays(o, late) ==
  LET f == ops[o].flags
  IN CASE ops[o].kind = "dismiss" ->
            /\ f.accessReq
            /\ f.moved \/ ~f.moveReq => card.place = Archive
            /\ f.toggled => card.blocked
       [] ops[o].kind = "rehire" ->
            /\ f.moveReq /\ f.accessReq
            /\ f.moved /\ ~late => card.place \in WorkDepts
            /\ f.toggled => ~card.blocked
       [] OTHER -> ~card.blocked

\* What the place in an execution says of the card and of the flags.
RunSays(x, late) ==
  /\ KindOf(x) = "dismiss" /\ run[x].pc = "moved" => card.place = Archive
  /\ KindOf(x) = "rehire" /\ run[x].pc = "moved" /\ ~late => card.place \in WorkDepts
  /\ KindOf(x) = "repair_sigur" /\ run[x].pc = "apply" => card.place \in WorkDepts
  /\ KindOf(x) # "repair_sigur" /\ run[x].pc = "toggled" => card.blocked = (KindOf(x) = "dismiss")
  /\ KindOf(x) # "repair_sigur" /\ run[x].pc \in {"refresh", "dept", "grant", "apply"} =>
       run[x].flags.toggled /\ (run[x].flags.moved \/ ~run[x].flags.moveReq)

\* What holds when nothing is pending. If lost, somebody else may have taken the
\* card of an active employee out of the working departments.
RestSays(lost) ==
  NoPending => IF emp.status = "fired" THEN card.place = Archive /\ card.blocked
               ELSE (lost \/ card.place \in WorkDepts) /\ ~card.blocked

\* Of the operations alone nothing is late or lost; the synchronisation beside
\* them may make it so.
CardFits(late, lost) ==
  OnPortal => /\ RestSays(lost)
              /\ \A o \in OpIds : IsPending(o) => RowSays(o, late)
              /\ \A x \in Runs : Busy(x) => RunSays(x, late)

CardInv == CardFits(FALSE, FALSE)

\* Steps that touch neither the card nor what speaks of it.
LEMMA CardKept ==
  ASSUME TypeInv, NEW late \in BOOLEAN, NEW lost \in BOOLEAN, CardFits(late, lost),
         run' = run, card' = card, emp'.status = emp.status, emp'.linked = emp.linked,
         \A o \in OpIds : /\ ops'[o].kind = ops[o].kind /\ ops'[o].status = ops[o].status
                          /\ ops'[o].flags = ops[o].flags
  PROVE  CardFits(late, lost)'
<1>t. \A x \in Runs : Busy(x) => run[x].op \in OpIds
  BY DEF TypeInv, RunsHaveOperations, Busy
<1>1. NoPending' <=> NoPending
  BY DEF NoPending, IsPending
<1>2. ASSUME NEW o \in OpIds, RowSays(o, late) PROVE RowSays(o, late)'
  BY <1>2 DEF RowSays
<1>3. ASSUME NEW x \in Runs, Busy(x), RunSays(x, late) PROVE RunSays(x, late)'
  BY <1>3, <1>t DEF RunSays, Busy, KindOf, OpOf
<1>4. RestSays(lost) => RestSays(lost)'
  BY <1>1 DEF RestSays
<1> QED BY <1>2, <1>3, <1>4 DEF CardFits, OnPortal, IsPending, Busy

LEMMA CardAside ==
  ASSUME TypeInv, ExecInv, NEW late \in BOOLEAN, NEW lost \in BOOLEAN, CardFits(late, lost),
         Aside \/ \E o \in OpIds : Opening(o)
  PROVE  CardFits(late, lost)'
<1> SUFFICES ASSUME OnPortal' PROVE CardFits(late, lost)'
  BY DEF CardFits
<1>p. OnPortal /\ card' = card
  BY DEF OnPortal, Aside, Opening, SameEmployee
<1>1. CASE Aside
  BY <1>p, <1>1, CardKept DEF Aside, SameEmployee
<1>2. ASSUME NEW o \in OpIds, Opening(o) PROVE CardFits(late, lost)'
  <2>1. ~NoPending'
    BY <1>2 DEF Opening, NoPending, IsPending
  <2>2. RowSays(o, late)'
    <3>1. emp.status = "active" => ~card.blocked
      BY <1>p, <1>2 DEF Opening, CardFits, RestSays
    <3> QED BY <1>p, <1>2, <3>1 DEF Opening, RowSays, Needs, OnPortal
  <2>3. \A p \in OpIds : IsPending(p)' => p = o
    BY <1>2 DEF Opening, NoPending, IsPending
  <2>4. \A x \in Runs : ~Busy(x)'
    BY <1>2, NoRun DEF Opening, Busy
  <2> QED BY <2>1, <2>2, <2>3, <2>4 DEF CardFits, RestSays
<1> QED BY <1>1, <1>2

LEMMA CardAcquire ==
  ASSUME TypeInv, ExecInv, PendingInv, NEW late \in BOOLEAN, NEW lost \in BOOLEAN,
         CardFits(late, lost), NEW x \in Runs, NEW o \in OpIds, Acquire(x, o)
  PROVE  CardFits(late, lost)'
<1>1. emp' = emp /\ card' = card
  BY DEF Acquire
<1> SUFFICES ASSUME OnPortal
             PROVE  /\ RestSays(lost)'
                    /\ \A p \in OpIds : IsPending(p)' => RowSays(p, late)'
                    /\ \A y \in Runs : Busy(y)' => RunSays(y, late)'
  BY <1>1 DEF CardFits, OnPortal
<1>2. ~NoPending'
  BY AcquireFacts DEF NoPending, IsPending
<1>3. \A p \in OpIds : IsPending(p)' => RowSays(p, late)'
  BY <1>1, AcquireFacts DEF CardFits, RowSays, IsPending
<1>4. \A y \in Runs : Busy(y)' => y = x
  BY AcquireFacts DEF Busy
<1>5. RunSays(x, late)'
  <2>1. ops[o].kind # "repair_sigur" => ops[o].flags.accessReq
    BY AcquireFacts DEF CardFits, RowSays, Kinds
  <2> QED BY <2>1, AcquireFacts, NextSteps DEF RunSays, KindOf, OpOf
<1> QED BY <1>2, <1>3, <1>4, <1>5 DEF RestSays

\* What remains to be shown of a step of the execution that ends nothing.
LEMMA CardOnly ==
  ASSUME TypeInv, ExecInv, PendingInv, NEW late \in BOOLEAN, NEW lost \in BOOLEAN,
         NEW x \in Runs, Busy(x), NEW o \in OpIds, o = run[x].op,
         \A y \in Runs : y # x => run'[y] = run[y],
         \A p \in OpIds : p # o => ops'[p] = ops[p],
         ops'[o].status = "pending",
         OnPortal' => RowSays(o, late)' /\ (run'[x].pc # "idle" => RunSays(x, late)')
  PROVE  CardFits(late, lost)'
<1>1. /\ \A p \in OpIds : IsPending(p) => p = o
      /\ \A y \in Runs : Busy(y) => y = x
  BY OnlyRun
<1>2. ~NoPending'
  BY <1>1 DEF NoPending, IsPending
<1>3. \A p \in OpIds : IsPending(p)' => p = o
  BY <1>1 DEF IsPending
<1>4. \A y \in Runs : Busy(y)' => y = x
  BY <1>1 DEF Busy
<1>5. Busy(x)' => run'[x].pc # "idle"
  BY DEF Busy
<1> QED BY <1>2, <1>3, <1>4, <1>5 DEF CardFits, RestSays

LEMMA CardRuns ==
  ASSUME TypeInv, ExecInv, PendingInv, StepInv, NEW late \in BOOLEAN, NEW lost \in BOOLEAN,
         late => lost, CardFits(late, lost), NEW x \in Runs, RunStep(x) \/ Crash(x)
  PROVE  CardFits(late, lost)'
<1>i. Idle.pc = "idle"
  BY DEF Idle
<1>t. /\ run[x] \in Memories /\ run \in [Runs -> Memories] /\ ops \in [OpIds -> Operations]
      /\ emp \in Employees /\ card \in Cards
  BY DEF TypeInv, TypeOK
<1>b. Busy(x)
  BY DEF Busy, RunStep, WriteStep, SigurCall, SigurCallFails, SigurCallNotFound, Calling,
         Refresh, ChangeDept, GrantAccess, Probe, Apply, ApplyRefused, Crash
<1>1. PICK o \in OpIds : o = run[x].op
  BY <1>b, OnlyRun
<1>o. /\ IsPending(o) /\ ops[o].status = "pending" /\ KindOf(x) = ops[o].kind /\ OpOf(x) = ops[o]
      /\ ops[o].kind \in Kinds /\ ops[o].flags \in Flags /\ Holds(x)
      /\ run[x].flags = ops[o].flags
      /\ ops[o].kind = "repair_sigur" => run[x].pc \in {"move", "moved", "probe", "apply"}
      /\ run[x].pc = "probe" => ops[o].kind = "repair_sigur"
      /\ run[x].pc = "detach" => card.place = Gone
      /\ IF ops[o].kind = "dismiss" THEN ops[o].target = Archive ELSE ops[o].target \in WorkDepts
  BY <1>b, <1>t, <1>1, OnlyRun
     DEF StepInv, RunsFollow, Targets, KindOf, OpOf, Operations, IsPending, Holds, ExecInv, RunsHold, Busy
<1>m. run[x].pc = "move" => ~ops[o].flags.moved
  BY <1>b, <1>o DEF StepInv, RunsFollow
<1>c. OnPortal => RowSays(o, late) /\ RunSays(x, late)
  BY <1>b, <1>o DEF CardFits
<1>s. ASSUME Stop(x), ops' = ops, OnPortal' => RowSays(o, late)' PROVE CardFits(late, lost)'
  <2>1. run'[x].pc = "idle" /\ \A y \in Runs : y # x => run'[y] = run[y]
    BY <1>s, <1>i, <1>t DEF Stop
  <2> QED BY <1>s, <1>b, <1>1, <1>o, <2>1, CardOnly
<1>g. ASSUME NEW step, Goto(x, step), ops' = ops,
             OnPortal' =>
               /\ RowSays(o, late)'
               /\ step = "moved" /\ ops[o].kind = "dismiss" => card'.place = Archive
               /\ step = "moved" /\ ops[o].kind = "rehire" => card'.place \in WorkDepts
               /\ step = "apply" /\ ops[o].kind = "repair_sigur" => card'.place \in WorkDepts
               /\ ops[o].kind # "repair_sigur" =>
                    /\ step = "toggled" => card'.blocked = (ops[o].kind = "dismiss")
                    /\ step \in {"refresh", "dept", "grant", "apply"} =>
                         run[x].flags.toggled /\ (run[x].flags.moved \/ ~run[x].flags.moveReq)
      PROVE  CardFits(late, lost)'
  <2>1. /\ run'[x].pc = step /\ run'[x].op = o /\ run'[x].flags = run[x].flags
        /\ \A y \in Runs : y # x => run'[y] = run[y]
    BY <1>g, <1>t, <1>1 DEF Goto, Memories
  <2>2. OnPortal' => RunSays(x, late)'
    BY <1>g, <2>1 DEF RunSays, KindOf, OpOf
  <2> QED BY <1>g, <1>b, <1>1, <1>o, <2>1, <2>2, CardOnly
\* Steps that leave the card as it is.
<1>k. ASSUME card' = card, emp'.linked = emp.linked, ops' = ops
      PROVE  OnPortal' => OnPortal /\ RowSays(o, late)'
  BY <1>c, <1>k DEF OnPortal, RowSays
\* The call to Sigur.
<1>e. ASSUME Calling(x), card.place # Gone, card' = CallEffect(x), emp' = emp, ops' = ops, OnPortal'
      PROVE  /\ RowSays(o, late)'
             /\ run[x].pc = "move" => card'.place = ops[o].target
             /\ run[x].pc = "access" => card'.blocked = (ops[o].kind = "dismiss")
  <2>0. OnPortal
    BY <1>e DEF OnPortal
  <2>1. CASE run[x].pc = "move"
    <3>1. card'.place = ops[o].target /\ card'.blocked = card.blocked
      BY <1>t, <1>o, <1>e, <2>1 DEF CallEffect, Cards
    <3> QED BY <1>c, <1>o, <1>e, <2>0, <2>1, <3>1 DEF RowSays, Kinds
  <2>2. CASE run[x].pc = "access"
    <3>1. card'.place = card.place /\ card'.blocked = (ops[o].kind = "dismiss")
      BY <1>t, <1>o, <1>e, <2>2 DEF CallEffect, Cards
    <3> QED BY <1>c, <1>o, <1>e, <2>0, <2>2, <3>1 DEF RowSays, Kinds
  <2> QED BY <1>e, <2>1, <2>2 DEF Calling
<1>2. CASE WriteStep(x)
  <2> DEFINE copy == Patch(run[x].pc, run[x].flags)
  <2>1. /\ \A p \in OpIds : p # o => ops'[p] = ops[p]
        /\ ops'[o].status = "pending" /\ ops'[o].kind = ops[o].kind
        /\ ops'[o].target = ops[o].target /\ ops'[o].flags = copy
    BY <1>2, <1>1, <1>o, <1>t DEF WriteStep, Operations
  <2>2. /\ \A y \in Runs : y # x => run'[y] = run[y]
        /\ run'[x].op = o /\ run'[x].flags = copy
        /\ \/ run'[x].pc = "move"
           \/ run'[x].pc = NextStep(ops[o].kind, copy)
    BY <1>2, <1>1, <1>o, <1>t DEF WriteStep, Memories
  <2>3. UNCHANGED <<emp, card>> /\ run[x].pc \in {"target", "moved", "toggled", "detach"}
    BY <1>2 DEF WriteStep
  <2> HIDE DEF copy
  <2>4. ASSUME OnPortal
        PROVE  /\ copy.moveReq = ops[o].flags.moveReq /\ copy.accessReq = ops[o].flags.accessReq
               /\ copy.moved => ops[o].flags.moved \/ run[x].pc = "moved"
               /\ copy.toggled => ops[o].flags.toggled \/ run[x].pc = "toggled"
               /\ run[x].pc = "moved" => copy.moved
    <3>1. run[x].pc # "detach"
      BY <1>o, <2>4 DEF OnPortal
    <3> QED BY <1>o, <3>1 DEF copy, Patch, Flags
  <2>5. OnPortal' => RowSays(o, late)' /\ RunSays(x, late)'
    <3> SUFFICES ASSUME OnPortal PROVE RowSays(o, late)' /\ RunSays(x, late)'
      BY <2>3 DEF OnPortal
    <3>0. RowSays(o, late) /\ RunSays(x, late)
      BY <1>c
    <3>1. RowSays(o, late)'
      <4>1. CASE ops[o].kind = "dismiss"
        BY <1>o, <2>1, <2>3, <2>4, <3>0, <4>1 DEF RowSays, RunSays
      <4>2. CASE ops[o].kind = "rehire"
        BY <1>o, <2>1, <2>3, <2>4, <3>0, <4>2 DEF RowSays, RunSays
      <4>3. CASE ops[o].kind = "repair_sigur"
        BY <2>1, <2>3, <3>0, <4>3 DEF RowSays
      <4> QED BY <1>o, <4>1, <4>2, <4>3 DEF Kinds
    <3>2. ops[o].kind # "repair_sigur" => copy.accessReq
      BY <1>o, <2>4, <3>0 DEF RowSays, Kinds
    <3>3. RunSays(x, late)'
      BY <1>o, <2>1, <2>2, <3>2, NextSteps DEF RunSays, KindOf, OpOf
    <3> QED BY <3>1, <3>3
  <2> QED BY <1>b, <1>1, <2>1, <2>2, <2>5, CardOnly
<1>3. CASE SigurCall(x)
  <2>1. /\ Calling(x) /\ card.place # Gone /\ card' = CallEffect(x) /\ emp' = emp /\ ops' = ops
        /\ Goto(x, IF run[x].pc = "move" THEN "moved" ELSE "toggled")
    BY <1>3 DEF SigurCall
  <2>2. OnPortal' =>
          /\ RowSays(o, late)'
          /\ run[x].pc = "move" => card'.place = ops[o].target
          /\ run[x].pc = "access" => card'.blocked = (ops[o].kind = "dismiss")
    BY <1>e, <2>1
  <2>3. CASE run[x].pc = "move"
    BY <1>g, <1>o, <2>1, <2>2, <2>3
  <2>4. CASE run[x].pc = "access"
    BY <1>g, <1>o, <2>1, <2>2, <2>4
  <2> QED BY <2>1, <2>3, <2>4 DEF Calling
<1>4. CASE SigurCallFails(x) \/ Crash(x)
  <2>1. /\ Stop(x) /\ ops' = ops /\ emp' = emp
        /\ card' = card \/ (Calling(x) /\ card.place # Gone /\ card' = CallEffect(x))
    BY <1>4 DEF SigurCallFails, Crash
  <2> QED BY <1>e, <1>k, <1>s, <2>1
<1>5. CASE SigurCallNotFound(x)
  <2>1. ~OnPortal'
    BY <1>5 DEF SigurCallNotFound, OnPortal
  <2> QED BY <1>5, <1>g, <1>s, <2>1 DEF SigurCallNotFound
<1>6. CASE Refresh(x) \/ ChangeDept(x) \/ GrantAccess(x) \/ Probe(x)
  <2>1. card' = card /\ ops' = ops /\ emp'.linked = emp.linked
    BY <1>6, <1>t DEF Refresh, ChangeDept, GrantAccess, Probe, Employees
  <2>2. OnPortal' => OnPortal /\ RowSays(o, late)'
    BY <1>k, <2>1
  <2>3. OnPortal' /\ ops[o].kind # "repair_sigur" /\ ~Probe(x) =>
          run[x].flags.toggled /\ (run[x].flags.moved \/ ~run[x].flags.moveReq)
    BY <1>6, <1>c, <1>o, <2>2 DEF RunSays, Refresh, ChangeDept, GrantAccess
  <2>4. Probe(x) => ops[o].kind = "repair_sigur" /\ (Stop(x) \/ card.place \in WorkDepts)
    BY <1>o DEF Probe
  <2>5. CASE Stop(x)
    BY <1>s, <2>1, <2>2, <2>5
  <2>6. ~Probe(x) => ops[o].kind # "repair_sigur"
    BY <1>6, <1>o DEF Refresh, ChangeDept, GrantAccess
  <2>7. ASSUME NEW step \in {"dept", "grant", "apply"}, Goto(x, step), ~Stop(x)
        PROVE  CardFits(late, lost)'
    BY <1>g, <2>1, <2>2, <2>3, <2>4, <2>6, <2>7
  <2> QED BY <1>6, <2>5, <2>7 DEF Refresh, ChangeDept, GrantAccess, Probe
\* The end: nothing is pending, and nothing is executed.
<1>n. ASSUME Stop(x), \A p \in OpIds : p # o => ops'[p] = ops[p], ops'[o].status # "pending",
             OnPortal' => IF emp'.status = "fired" THEN card.place = Archive /\ card.blocked
                          ELSE (lost \/ card.place \in WorkDepts) /\ ~card.blocked,
             card' = card
      PROVE  CardFits(late, lost)'
  <2>1. run'[x].pc = "idle" /\ \A y \in Runs : y # x => run'[y] = run[y]
    BY <1>n, <1>i, <1>t DEF Stop
  <2>2. (\A p \in OpIds : ~IsPending(p)') /\ (\A y \in Runs : ~Busy(y)')
    BY <1>n, <1>b, <1>1, <2>1, OnlyRun DEF IsPending, Busy
  <2> QED BY <1>n, <2>2 DEF CardFits, RestSays
<1>7. CASE Apply(x)
  <2>1. /\ Stop(x) /\ card' = card /\ run[x].pc = "apply"
        /\ (\A p \in OpIds : p # o => ops'[p] = ops[p]) /\ ops'[o].status = "applied"
        /\ emp'.status = IF ops[o].kind = "dismiss" THEN "fired" ELSE "active"
    BY <1>7, <1>1, ApplyEffect DEF Apply
  <2>2. emp'.linked => emp.linked
    BY <1>7, <1>t, <1>o DEF Apply, EmployeeAfter, Counted, RightsRestored, Employees, Kinds
  <2>3. ASSUME OnPortal'
        PROVE  IF emp'.status = "fired" THEN card.place = Archive /\ card.blocked
               ELSE (lost \/ card.place \in WorkDepts) /\ ~card.blocked
    <3>1. RowSays(o, late) /\ RunSays(x, late)
      BY <1>c, <2>1, <2>2, <2>3 DEF OnPortal
    <3>2. CASE ops[o].kind = "repair_sigur"
      BY <1>o, <2>1, <3>1, <3>2 DEF RowSays, RunSays
    <3>3. CASE ops[o].kind # "repair_sigur"
      <4>1. ops[o].flags.toggled /\ (ops[o].flags.moved \/ ~ops[o].flags.moveReq)
        BY <1>o, <2>1, <3>1, <3>3 DEF RunSays
      <4> QED BY <1>o, <2>1, <3>1, <3>3, <4>1 DEF RowSays, Kinds
    <3> QED BY <3>2, <3>3
  <2> QED BY <1>n, <2>1, <2>3
<1>8. CASE ApplyRefused(x)
  <2>1. Stop(x) /\ card' = card /\ emp' = emp /\ run[x].pc = "apply"
    BY <1>8 DEF ApplyRefused
  <2>2. CASE ops' = ops
    BY <1>k, <1>s, <2>1, <2>2
  <2>3. CASE ops' # ops
    <3>1. /\ ops[o].kind = "repair_sigur"
          /\ ops' = [ops EXCEPT ![o].status = "cancelled", ![o].owner = Nobody]
      BY <1>8, <1>1, <1>o, <2>3 DEF ApplyRefused
    <3>2. ops'[o].status = "cancelled" /\ \A p \in OpIds : p # o => ops'[p] = ops[p]
      BY <1>t, <3>1 DEF Operations
    <3>3. emp.status = "active"
      BY <1>o, <3>1 DEF PendingInv, Owns
    <3>4. OnPortal => card.place \in WorkDepts /\ ~card.blocked
      BY <1>c, <1>o, <2>1, <3>1 DEF RowSays, RunSays
    <3>5. OnPortal' => OnPortal
      BY <2>1 DEF OnPortal
    <3> QED BY <1>n, <2>1, <3>2, <3>3, <3>4, <3>5
  <2> QED BY <2>2, <2>3
<1> QED BY <1>2, <1>3, <1>4, <1>5, <1>6, <1>7, <1>8 DEF RunStep


-----------------------------------------------------------------------------
(***************************************************************************)
(* Department and rights.                                                  *)
(***************************************************************************)
RightsInv ==
  /\ emp.status = "active" => RestoredRights \subseteq emp.access
  /\ emp.status = "fired" /\ NoPending => emp.access = {} /\ emp.dept = Archive
  /\ emp.status = "active" /\ (\A o \in OpIds : IsPending(o) => ops[o].kind # "dismiss")
       => emp.dept \in WorkDepts

\* A step of no applied dismissal leaves what they took away as it is.
LEMMA RestoredRightsKept ==
  ASSUME \A o \in OpIds :
           /\ (o \in AppliedDismissals)' <=> o \in AppliedDismissals
           /\ o \in AppliedDismissals => ops'[o].base = ops[o].base /\ ops'[o].snapshot = ops[o].snapshot
  PROVE  RestoredRights' = RestoredRights
<1>1. AppliedDismissals' = AppliedDismissals /\ AppliedDismissals \subseteq OpIds
  BY DEF AppliedDismissals
<1>2. \A o \in OpIds : IsLastDismissal(o)' <=> IsLastDismissal(o)
  BY <1>1 DEF IsLastDismissal
<1>3. \A o \in OpIds : IsLastDismissal(o) => ops'[o].snapshot = ops[o].snapshot
  BY <1>1 DEF IsLastDismissal
<1>4. ASSUME NEW d PROVE d \in RestoredRights' <=> d \in RestoredRights
  <2>1. d \in RestoredRights' <=> \E o \in OpIds : IsLastDismissal(o)' /\ d \in ops'[o].snapshot
    BY DEF RestoredRights
  <2>2. d \in RestoredRights <=> \E o \in OpIds : IsLastDismissal(o) /\ d \in ops[o].snapshot
    BY DEF RestoredRights
  <2> QED BY <1>2, <1>3, <2>1, <2>2
<1> QED BY <1>4 DEF RestoredRights

\* Steps that neither end an operation nor touch department, rights and status.
LEMMA RightsKept ==
  ASSUME TypeInv, RightsInv, SameEmployee,
         \A o \in OpIds : /\ (o \in AppliedDismissals)' <=> o \in AppliedDismissals
                          /\ o \in AppliedDismissals => ops'[o].base = ops[o].base /\ ops'[o].snapshot = ops[o].snapshot
                          /\ IsPending(o) => IsPending(o)' /\ ops'[o].kind = ops[o].kind
  PROVE  RightsInv'
<1>1. RestoredRights' = RestoredRights
  BY RestoredRightsKept
<1>2. NoPending' => NoPending
  BY DEF NoPending
<1>3. (\A o \in OpIds : IsPending(o) => ops[o].kind # "dismiss")'
        => (\A o \in OpIds : IsPending(o) => ops[o].kind # "dismiss")
  OBVIOUS
<1> QED BY <1>1, <1>2, <1>3 DEF RightsInv, SameEmployee

LEMMA RightsAside ==
  ASSUME TypeInv, RightsInv, Aside \/ \E o \in OpIds : Opening(o) PROVE RightsInv'
<1>1. CASE Aside
  BY <1>1, RightsKept DEF Aside, AppliedDismissals, IsPending
<1>2. ASSUME NEW o \in OpIds, Opening(o) PROVE RightsInv'
  BY <1>2, RightsKept DEF Opening, AppliedDismissals, IsPending
<1> QED BY <1>1, <1>2

LEMMA RightsRuns ==
  ASSUME TypeInv, ExecInv, PendingInv, StepInv, RightsInv,
         NEW x \in Runs, RunStep(x) \/ Crash(x) \/ \E o \in OpIds : Acquire(x, o)
  PROVE  RightsInv'
<1>t. /\ emp \in Employees /\ ops \in [OpIds -> Operations]
  BY DEF TypeInv, TypeOK
<1>k. ASSUME emp' = emp, ops' = ops PROVE RightsInv'
  BY <1>k, RightsKept DEF SameEmployee, AppliedDismissals, IsPending
<1>1. ASSUME NEW o \in OpIds, Acquire(x, o) PROVE RightsInv'
  <2>1. \A p \in OpIds : /\ ops'[p].kind = ops[p].kind /\ ops'[p].status = ops[p].status
                         /\ ops'[p].base = ops[p].base /\ ops'[p].snapshot = ops[p].snapshot
    BY <1>t, <1>1 DEF Acquire, Operations
  <2> QED BY <1>1, <2>1, RightsKept DEF Acquire, SameEmployee, AppliedDismissals, IsPending
<1>2. CASE WriteStep(x)
  <2>1. \A p \in OpIds : /\ ops'[p].kind = ops[p].kind /\ ops'[p].status = ops[p].status
                         /\ ops'[p].base = ops[p].base /\ ops'[p].snapshot = ops[p].snapshot
    BY <1>t, <1>2 DEF WriteStep, Operations
  <2> QED BY <1>2, <2>1, RightsKept DEF WriteStep, SameEmployee, AppliedDismissals, IsPending
<1>3. CASE SigurCall(x) \/ SigurCallFails(x) \/ SigurCallNotFound(x) \/ Probe(x) \/ Crash(x)
  BY <1>3, <1>k DEF SigurCall, SigurCallFails, SigurCallNotFound, Probe, Crash
<1>b. ASSUME run[x].pc # "idle"
      PROVE  \E o \in OpIds : /\ o = run[x].op /\ IsPending(o) /\ \A p \in OpIds : IsPending(p) => p = o
                              /\ KindOf(x) = ops[o].kind /\ OpOf(x) = ops[o] /\ ops[o].kind \in Kinds
  BY <1>b, <1>t, OnlyRun DEF Busy, KindOf, OpOf, Operations
\* Department and rights change before the end only while what is pending
\* excuses them.
<1>4. CASE Refresh(x) \/ ChangeDept(x) \/ GrantAccess(x)
  <2>1. run[x].pc \in {"refresh", "dept", "grant"}
    BY <1>4 DEF Refresh, ChangeDept, GrantAccess
  <2>2. PICK o \in OpIds : /\ IsPending(o) /\ KindOf(x) = ops[o].kind /\ ops[o].kind \in Kinds
    BY <1>b, <2>1
  <2>3. ops[o].kind # "repair_sigur"
    BY <2>1, <2>2 DEF StepInv, RunsFollow, Busy
  <2>4. ops' = ops /\ emp'.status = emp.status /\ emp.access \subseteq emp'.access
    BY <1>4, <1>t DEF Refresh, ChangeDept, GrantAccess, Employees
  <2>5. RestoredRights' = RestoredRights
    BY <2>4, RestoredRightsKept DEF AppliedDismissals
  <2>6. ~NoPending'
    BY <2>2, <2>4 DEF NoPending, IsPending
  <2>7. CASE ops[o].kind = "dismiss"
    <3>1. ~(\A p \in OpIds : IsPending(p) => ops[p].kind # "dismiss")'
      BY <2>2, <2>4, <2>7 DEF IsPending
    <3> QED BY <2>4, <2>5, <2>6, <3>1 DEF RightsInv
  <2>8. CASE ops[o].kind = "rehire"
    <3>1. emp'.status = "fired"
      BY <2>2, <2>4, <2>8 DEF PendingInv, Owns
    <3> QED BY <2>6, <3>1 DEF RightsInv
  <2> QED BY <2>2, <2>3, <2>7, <2>8 DEF Kinds
<1>5. CASE Apply(x)
  <2>1. PICK o \in OpIds : /\ o = run[x].op /\ IsPending(o) /\ \A p \in OpIds : IsPending(p) => p = o
                           /\ KindOf(x) = ops[o].kind /\ OpOf(x) = ops[o] /\ ops[o].kind \in Kinds
    BY <1>b, <1>5 DEF Apply
  <2>2. /\ \A p \in OpIds : p # o => ops'[p] = ops[p]
        /\ ops'[o].kind = ops[o].kind /\ emp' = EmployeeAfter(x)
        /\ IF ops[o].kind = "dismiss" THEN ops[o].target = Archive ELSE ops[o].target \in WorkDepts
    BY <1>5, <1>t, <2>1 DEF Apply, Operations, StepInv, Targets
  <2>3. ops[o].kind # "dismiss" => RestoredRights' = RestoredRights
    BY <2>1, <2>2, RestoredRightsKept DEF AppliedDismissals
  <2>4. CASE ops[o].kind = "dismiss"
    <3>1. emp'.status = "fired" /\ emp'.access = {} /\ emp'.dept = Archive
      BY <1>t, <2>1, <2>2, <2>4 DEF EmployeeAfter, Counted, Employees
    <3> QED BY <3>1 DEF RightsInv
  <2>5. CASE ops[o].kind = "rehire"
    <3>1. emp'.status = "active" /\ emp'.access = RightsRestored /\ emp'.dept \in WorkDepts
      BY <1>t, <2>1, <2>2, <2>5 DEF EmployeeAfter, Counted, Employees
    <3> QED BY <2>3, <2>5, <3>1 DEF RightsInv, RightsRestored
  <2>6. CASE ops[o].kind = "repair_sigur"
    <3>1. /\ emp'.status = emp.status /\ emp'.access = emp.access /\ emp'.dept = emp.dept
      BY <1>t, <2>1, <2>2, <2>6 DEF EmployeeAfter, Counted, Employees
    <3>2. emp.status = "active"
      BY <2>1, <2>6 DEF PendingInv, Owns
    <3>3. emp.dept \in WorkDepts
      BY <2>1, <2>6, <3>2 DEF RightsInv
    <3> QED BY <2>3, <2>6, <3>1, <3>2, <3>3 DEF RightsInv
  <2> QED BY <2>1, <2>4, <2>5, <2>6 DEF Kinds
<1>6. CASE ApplyRefused(x)
  <2>1. CASE ops' = ops
    BY <1>6, <1>k, <2>1 DEF ApplyRefused
  <2>2. CASE ops' # ops
    <3>1. PICK o \in OpIds : /\ o = run[x].op /\ IsPending(o) /\ \A p \in OpIds : IsPending(p) => p = o
                             /\ KindOf(x) = ops[o].kind
      BY <1>b, <1>6 DEF ApplyRefused
    <3>2. /\ ops[o].kind = "repair_sigur"
          /\ ops' = [ops EXCEPT ![o].status = "cancelled", ![o].owner = Nobody] /\ emp' = emp
      BY <1>6, <2>2, <3>1 DEF ApplyRefused
    <3>3. /\ \A p \in OpIds : p # o => ops'[p] = ops[p]
          /\ ops'[o].kind = "repair_sigur"
      BY <1>t, <3>2 DEF Operations
    <3>4. emp.status = "active"
      BY <3>1, <3>2 DEF PendingInv, Owns
    <3>5. emp.dept \in WorkDepts
      BY <3>1, <3>2, <3>4 DEF RightsInv
    <3>6. RestoredRights' = RestoredRights
      BY <3>2, <3>3, RestoredRightsKept DEF AppliedDismissals
    <3> QED BY <3>2, <3>4, <3>5, <3>6 DEF RightsInv
  <2> QED BY <2>1, <2>2
<1> QED BY <1>1, <1>2, <1>3, <1>4, <1>5, <1>6 DEF RunStep

-----------------------------------------------------------------------------
(***************************************************************************)
(* The theorems.                                                           *)
(***************************************************************************)
OutcomeInv == StepInv /\ CardInv /\ RightsInv

LEMMA OutcomeInit == Init => OutcomeInv
<1> SUFFICES ASSUME Init PROVE OutcomeInv
  OBVIOUS
<1>1. /\ \A o \in OpIds : ops[o].status = "absent"
      /\ \A x \in Runs : ~Busy(x)
  BY DEF Init, NoOperation, Idle, Busy
<1>2. StepInv
  BY <1>1 DEF StepInv, Targets, RunsFollow, IsPending
<1>3. CardInv
  <2>1. OnPortal => emp.status = "active" /\ card.place \in WorkDepts /\ ~card.blocked
    BY DEF Init, OnPortal
  <2> QED BY <1>1, <2>1 DEF CardInv, CardFits, RestSays, IsPending
<1>4. RightsInv
  <2>1. RestoredRights = {}
    BY <1>1 DEF RestoredRights, IsLastDismissal, AppliedDismissals
  <2> QED BY <2>1 DEF Init, RightsInv
<1> QED BY <1>2, <1>3, <1>4 DEF OutcomeInv

LEMMA OutcomeNext ==
  ASSUME ~EditByHand, TypeInv, ExecInv, PendingInv, OutcomeInv, [Next]_vars
  PROVE  OutcomeInv'
<1>1. CASE Aside \/ \E o \in OpIds : Opening(o)
  BY <1>1, StepAside, CardAside, RightsAside DEF OutcomeInv, CardInv
<1>2. ASSUME NEW x \in Runs, RunStep(x) \/ Crash(x) PROVE OutcomeInv'
  BY <1>2, StepRuns, CardRuns, RightsRuns DEF OutcomeInv, CardInv
<1>3. ASSUME NEW x \in Runs, NEW o \in OpIds, Acquire(x, o) PROVE OutcomeInv'
  BY <1>3, StepAcquire, CardAcquire, RightsRuns DEF OutcomeInv, CardInv
<1> QED BY <1>1, <1>2, <1>3, KindsOfSteps

LEMMA OutcomeHolds == ASSUME ~Overrun, ~Stall, ~ManualSql PROVE Spec => []OutcomeInv
<1>1. TypeInv /\ ExecInv /\ PendingInv /\ OutcomeInv /\ [Next]_vars => OutcomeInv'
  BY OutcomeNext DEF EditByHand
<1>2. Spec => []ExecInv
  BY ExecHolds
<1>3. Spec => []PendingInv
  BY PendingHolds
<1> QED BY <1>1, <1>2, <1>3, OutcomeInit, TypesHold, PTL DEF Spec

\* CardFollowsStatus: crashes, failed calls and lost answers included, with
\* nothing pending the card lies where the status says and is blocked or not
\* accordingly, unless it was deleted or detached.
THEOREM CardsFollow == ASSUME ~Overrun, ~Stall, ~ManualSql PROVE Spec => []CardFollowsStatus
<1>1. OutcomeInv => CardFollowsStatus
  BY DEF OutcomeInv, CardInv, CardFits, RestSays, CardFollowsStatus, OnPortal
<1> QED BY <1>1, OutcomeHolds, PTL

\* RightsFollowStatus: with nothing pending a dismissed employee has no rights
\* left, and a reinstated one all those the last dismissal took away.
THEOREM RightsFollow == ASSUME ~Overrun, ~Stall, ~ManualSql PROVE Spec => []RightsFollowStatus
<1>1. TypeInv /\ OutcomeInv => RightsFollowStatus
  <2> SUFFICES ASSUME TypeInv, RightsInv, NoPending PROVE RightsFollowStatus
    BY DEF OutcomeInv, RightsFollowStatus
  <2>1. emp.status \in {"active", "fired"}
    BY DEF TypeInv, TypeOK, Employees
  <2> QED BY <2>1 DEF RightsInv, RightsFollowStatus, NoPending
<1> QED BY <1>1, OutcomeHolds, TypesHold, PTL
=============================================================================
