---------------------------- MODULE ForwardingOps ----------------------------
(***************************************************************************)
(* Call-forwarding operations of one mobile number ("My SIM").             *)
(*                                                                         *)
(* The operator (MTS) takes an order by POST and carries it out later, so  *)
(* the answer may be lost while the order stands.  Each change is a row of *)
(* mts_forwarding_operations that first connects the forwarding service,   *)
(* then removes the rules in the way one by one, then sets the rule asked. *)
(* The request that created the row takes the first steps, the background  *)
(* workers the others; an order is sent only by who wins claimSend, and an *)
(* order whose fate is unknown is only looked up, never sent again.        *)
(*                                                                         *)
(* Source: services/mts-forwarding-operations.{service,runner,flow,worker} *)
(* and the handlers setMyForwarding and deleteMyForwarding.                *)
(***************************************************************************)
EXTENDS Naturals, FiniteSets

CONSTANTS
  Workers,      \* server processes with the background worker
  OpIds,        \* operations that may be reserved; each names its request too
  Types,        \* forwarding types: CFU, CFNRY, CFNRC
  Addrs,        \* numbers to forward to
  None,         \* no type, no address, no lease owner, no operation
  MaxAttempts,  \* MAX_RULE_ATTEMPTS
  QuotaMax,     \* FORWARDING_CHANGES_PER_HOUR
  MaxCycles,    \* synchronous cycles of a request
  MaxFaults,    \* bound on crashes, lost answers, failed reads and overruns
  MaxOutside,   \* bound on changes of the rules made past the operations
  SlowReads     \* FALSE: who wins claimSend has read the rules since the row's
                \*   last order, which claimSend itself does not look at

ASSUME ForwardingAssumption ==
  /\ {MaxAttempts, QuotaMax, MaxCycles, MaxFaults, MaxOutside} \subseteq Nat
  /\ SlowReads \in BOOLEAN
  /\ None \notin Workers \cup OpIds \cup Types \cup Addrs
  /\ Workers \cap OpIds = {}

VARIABLES
  op,       \* rows of mts_forwarding_operations
  pc,       \* where each process is inside its step
  at,       \* the operation a process works on
  cur,      \* its copy of the row
  seen,     \* what it last read at the operator
  cycles,   \* synchronous cycles a request has left
  used,     \* operations of the user counted within the hour, on any number
  bound,    \* the number is still bound to the employee
  service,  \* the forwarding service is active at the operator
  rules,    \* the forwarding rules at the operator
  orders,   \* orders sent and not refused; open while they may take effect
  faults, outside

remote == <<service, rules, orders>>
vars == <<op, pc, at, cur, seen, cycles, used, bound, remote, faults, outside>>

Procs == Workers \cup OpIds

Final == {"done", "failed", "cancelled", "expired"}
NotSent == {"service_reserved", "rule_ready"}
Sending == {"service_sending", "rule_sending", "rule_clear_sending"}
Verifying == {"rule_verifying", "rule_clear_verifying"}
Awaiting == {"service_accepted", "service_unknown"}
Due == NotSent \cup Awaiting \cup Verifying \cup {"rule_confirmed", "unconfirmed"}
States == {"absent"} \cup Due \cup Sending \cup Final

RuleSets == [Types -> Addrs \cup {None}]

Rows ==
  [state: States, type: Types \cup {None}, addr: Addrs \cup {None},
   gen: Nat, action: Types \cup {None}, attempts: Nat,
   owner: Procs \cup {None}, live: BOOLEAN, late: BOOLEAN, old: BOOLEAN,
   counted: BOOLEAN, from: States]

NoRow ==
  [state |-> "absent", type |-> None, addr |-> None, gen |-> 0,
   action |-> None, attempts |-> 0, owner |-> None, live |-> FALSE,
   late |-> FALSE, old |-> FALSE, counted |-> FALSE, from |-> "absent"]

\* What a reading gave, and the rules if it gave them.
Reading(answer, rs) == [answer |-> answer, rules |-> rs]
NoReading == Reading("none", [t \in Types |-> None])

Orders ==
  [op: OpIds, gen: Nat, do: {"service", "delete", "create"},
   type: Types \cup {None}, addr: Addrs \cup {None}, open: BOOLEAN]

Open == {m \in orders : m.open}

Active(o) == op[o].state \notin Final \cup {"absent"}
LeaseFree(r) == r.owner = None \/ ~r.live

\* Mutant: a rule of another type is in nobody's way.
AllAgree(r, rs) == {}

\* The rules in the way of a request, and whether its mode is reached.
Conflicts(r, rs) == {t \in Types : rs[t] # None /\ t # r.type}
Reached(r, rs) ==
  Conflicts(r, rs) = {} /\ (r.type # None => rs[r.type] = r.addr)

Init ==
  /\ op = [o \in OpIds |-> NoRow]
  /\ pc = [p \in Procs |-> "idle"]
  /\ at = [p \in Procs |-> None]
  /\ cur = [p \in Procs |-> NoRow]
  /\ seen = [p \in Procs |-> NoReading]
  /\ cycles = [o \in OpIds |-> 0]
  /\ used \in 0..QuotaMax
  /\ bound = TRUE
  /\ service \in BOOLEAN
  /\ rules \in RuleSets
  /\ orders = {}
  /\ faults = 0 /\ outside = 0

-----------------------------------------------------------------------------
(***************************************************************************)
(* Transitions of the row.  The copy's generation and action are always    *)
(* compared, the lease only if the copy carries the process's own.         *)
(***************************************************************************)
Guard(p) ==
  LET r == op[at[p]]
  IN  /\ r.gen = cur[p].gen
      /\ r.action = cur[p].action
      /\ cur[p].owner = p => r.owner = p

\* A change of state that drops the lease; deadlines start anew.  Of a
\* finished row nobody reads more than what was asked and how it ended.
Move(r, s) ==
  IF s \in Final
  THEN [NoRow EXCEPT !.state = s, !.type = r.type, !.addr = r.addr,
                     !.counted = r.counted]
  ELSE [r EXCEPT !.state = s, !.owner = None, !.live = FALSE, !.late = FALSE]

Drop(r) == [r EXCEPT !.owner = None, !.live = FALSE]

\* A copy of the row: the clock, not the copy, tells what has run out.
Copy(r) == [r EXCEPT !.live = FALSE, !.late = FALSE, !.old = FALSE]

Rest(p) ==
  /\ pc' = [pc EXCEPT ![p] = "idle"]
  /\ at' = [at EXCEPT ![p] = None]
  /\ cur' = [cur EXCEPT ![p] = NoRow]
  /\ seen' = [seen EXCEPT ![p] = NoReading]
  /\ cycles' = IF p \in OpIds THEN [cycles EXCEPT ![p] = 0] ELSE cycles

Resume(p, step, r) ==
  /\ pc' = [pc EXCEPT ![p] = step]
  /\ cur' = [cur EXCEPT ![p] = Copy(r)]
  /\ seen' = [seen EXCEPT ![p] = NoReading]
  /\ UNCHANGED at

(***************************************************************************)
(* The end of a step that returned row r.  A worker is done with the row;  *)
(* a request checks what it has just sent and takes the cycles it has left.*)
(***************************************************************************)
Return(p, r) ==
  LET checks == cur[p].state \notin Verifying /\ r.state \in Verifying
      again == r.state = "rule_ready" /\ cycles[p] > 1
  IN  IF p \in OpIds /\ cycles[p] > 0 /\ (checks \/ again)
      THEN /\ Resume(p, "step", r)
           /\ cycles' = [cycles EXCEPT ![p] = IF again THEN @ - 1 ELSE @]
      ELSE Rest(p)

\* UPDATE ... WHERE state = ANY(from) and the guard; else the row as it is.
Update(p, from, r) ==
  IF op[at[p]].state \in from /\ Guard(p) THEN r ELSE op[at[p]]

Transition(p, from, r) ==
  /\ op' = [op EXCEPT ![at[p]] = Update(p, from, r)]
  /\ Return(p, Update(p, from, r))

Fault == faults < MaxFaults /\ faults' = faults + 1
NoFault == UNCHANGED faults

-----------------------------------------------------------------------------
(***************************************************************************)
(* Reservation: the partial unique index keeps one unfinished operation.   *)
(***************************************************************************)
Reserve(o, t, a) ==
  /\ op[o] = NoRow /\ bound
  /\ \A x \in OpIds : ~Active(x)
  /\ LET first == t = None \/ service
         r == [NoRow EXCEPT !.state = IF first THEN "rule_ready"
                                      ELSE "service_reserved",
                            !.type = t, !.addr = a]
     IN  /\ op' = [op EXCEPT ![o] = r]
         /\ pc' = [pc EXCEPT ![o] = "step"]
         /\ at' = [at EXCEPT ![o] = o]
         /\ cur' = [cur EXCEPT ![o] = Copy(r)]
         /\ cycles' = [cycles EXCEPT ![o] = IF first THEN MaxCycles ELSE 0]
  /\ NoFault
  /\ UNCHANGED <<seen, used, bound, remote, outside>>

AskSet(o) == \E t \in Types, a \in Addrs : Reserve(o, t, a)
AskRemove(o) == Reserve(o, None, None)

\* The worker takes a due row whose lease is free; taking it from a process
\* that is still at work on it is counted as a fault (that process is slow).
ClaimDue(w, o) ==
  /\ pc[w] = "idle"
  /\ op[o].state \in Due /\ LeaseFree(op[o])
  /\ LET r == [op[o] EXCEPT !.owner = w, !.live = TRUE]
     IN  /\ op' = [op EXCEPT ![o] = r]
         /\ cur' = [cur EXCEPT ![w] = Copy(r)]
  /\ pc' = [pc EXCEPT ![w] = "step"]
  /\ at' = [at EXCEPT ![w] = o]
  /\ IF \E p \in Procs : at[p] = o THEN Fault ELSE NoFault
  /\ UNCHANGED <<seen, cycles, used, bound, remote, outside>>

\* Mutants: an order without an answer is taken for one never sent, or refused.
Unasked(s) == IF s = "service_sending" THEN "service_reserved" ELSE "rule_ready"
GivenUp(s) == "failed"

\* An order whose fate is unknown is looked up, not repeated.
Unknown(s) ==
  CASE s = "service_sending" -> "service_unknown"
    [] s = "rule_clear_sending" -> "rule_clear_verifying"
    [] s = "rule_sending" -> "rule_verifying"

\* An order whose sender's lease ran out may have gone: it is only checked.
RecoverStale(o) ==
  /\ op[o].state \in Sending /\ ~op[o].live
  /\ op' = [op EXCEPT ![o] = Move(@, Unknown(@.state))]
  /\ NoFault
  /\ UNCHANGED <<pc, at, cur, seen, cycles, used, bound, remote, outside>>

-----------------------------------------------------------------------------
(***************************************************************************)
(* The steps of processOperation, and of the request's cycles.             *)
(***************************************************************************)
\* A worker that finds the number bound elsewhere gives up what is not sent.
CancelRebound(w) ==
  /\ pc[w] = "step" /\ cur[w].state \in NotSent /\ ~bound
  /\ Transition(w, {cur[w].state}, Move(op[at[w]], "cancelled"))
  /\ NoFault
  /\ UNCHANGED <<used, bound, remote, outside>>

\* Whose fate an unconfirmed operation waits for; otherwise its own state.
Stage(r) == IF r.state = "unconfirmed" THEN r.from ELSE r.state

ReadRules(p) ==
  /\ pc[p] = "step"
  /\ Stage(cur[p]) \in Verifying \cup {"rule_ready"}
  /\ cur[p].state \in NotSent /\ p \in Workers => bound
  /\ cur[p].state = "unconfirmed" => ~op[at[p]].old
  /\ \/ seen' = [seen EXCEPT ![p] = Reading("rules", rules)] /\ NoFault
     \/ seen' = [seen EXCEPT ![p].answer = "failed"] /\ Fault
  /\ pc' = [pc EXCEPT ![p] = "decide"]
  /\ UNCHANGED <<op, at, cur, cycles, used, bound, remote, outside>>

\* getProductInfo, then the status of the request when it was accepted.
ReadServices(p) ==
  /\ pc[p] = "step" /\ Stage(cur[p]) \in Awaiting
  /\ cur[p].state = "unconfirmed" => ~op[at[p]].old
  /\ \/ /\ seen' = [seen EXCEPT ![p].answer =
              IF service THEN "active"
              ELSE IF /\ cur[p].state = "service_accepted"
                      /\ \A m \in Open : m.op # at[p]
                   THEN "faulted" ELSE "absent"]
        /\ NoFault
     \/ seen' = [seen EXCEPT ![p].answer = "failed"] /\ Fault
  /\ pc' = [pc EXCEPT ![p] = "decide"]
  /\ UNCHANGED <<op, at, cur, cycles, used, bound, remote, outside>>

\* Mutant: the deadline of the check is never looked at.
NeverOverdue(r) == FALSE
Overdue(r) == r.late

\* checkService
DecideService(p) ==
  LET r == op[at[p]]
  IN  /\ pc[p] = "decide" /\ Stage(cur[p]) \in Awaiting
      /\ CASE seen[p].answer = "active" ->
                Transition(p, Awaiting \cup {"unconfirmed"},
                           [Move(r, "rule_ready") EXCEPT !.from = "absent"])
           [] seen[p].answer = "faulted" ->
                Transition(p, {"service_accepted"}, Move(r, "failed"))
           [] cur[p].state = "unconfirmed" ->
                Transition(p, {"unconfirmed"}, Drop(r))
           [] OTHER ->
                Transition(p, Awaiting,
                  IF Overdue(r) THEN [Move(r, "unconfirmed") EXCEPT
                                    !.from = cur[p].state]
                  ELSE Drop(r))
      /\ NoFault
      /\ UNCHANGED <<used, bound, remote, outside>>

\* The mode is reached: rule_confirmed keeps the lease for finalizeOperation.
Confirm(p, from) ==
  LET o == at[p]
      r == [op[o] EXCEPT !.state = "rule_confirmed", !.late = FALSE]
  IN  IF op[o].state \in from /\ Guard(p)
      THEN /\ op' = [op EXCEPT ![o] = r]
           /\ Resume(p, "step", r)
           /\ UNCHANGED cycles
      ELSE UNCHANGED op /\ Return(p, op[o])

\* postponeCheck, then the end of reconcileUnconfirmed.  It returns the copy,
\* not the row: a request that did not see its order confirmed is over.
Postpone(p, state) ==
  LET r == op[at[p]]
      later == IF cur[p].state # "unconfirmed" /\ Overdue(r)
               THEN [Move(r, "unconfirmed") EXCEPT !.from = state] ELSE Drop(r)
  IN  /\ op' = [op EXCEPT ![at[p]] = Update(p, {cur[p].state}, later)]
      /\ Rest(p)

\* Mutant: the rules can be read, so the order has been carried out.
Answered(p) == seen[p].answer = "rules"
Applied(p) == seen[p].answer = "rules" /\ Reached(cur[p], seen[p].rules)

\* verifyRule and verifyClear
DecideVerified(p) ==
  LET stage == Stage(cur[p])
  IN  /\ pc[p] = "decide" /\ stage \in Verifying
      /\ CASE stage = "rule_verifying" /\ Applied(p) ->
                Confirm(p, {"rule_verifying", "unconfirmed"})
           [] /\ stage = "rule_clear_verifying" /\ seen[p].answer = "rules"
              /\ seen[p].rules[cur[p].action] = None ->
                Transition(p, {"rule_clear_verifying", "unconfirmed"},
                  [Move(op[at[p]], "rule_ready") EXCEPT
                     !.action = None, !.attempts = 0, !.from = "absent"])
           [] OTHER -> Postpone(p, stage)
      /\ NoFault
      /\ UNCHANGED <<used, bound, remote, outside>>

\* stepRule after its reading
DecideRule(p) ==
  /\ pc[p] = "decide" /\ cur[p].state = "rule_ready"
  /\ CASE seen[p].answer = "failed" ->
            Transition(p, {"rule_ready"}, Drop(op[at[p]]))
       [] Applied(p) -> Confirm(p, {"rule_ready"})
       [] OTHER -> /\ pc' = [pc EXCEPT ![p] = "quota"]
                   /\ UNCHANGED <<op, at, cur, seen, cycles>>
  /\ NoFault
  /\ UNCHANGED <<used, bound, remote, outside>>

StartService(p) ==
  /\ pc[p] = "step" /\ cur[p].state = "service_reserved"
  /\ p \in Workers => bound
  /\ pc' = [pc EXCEPT ![p] = "quota"]
  /\ NoFault
  /\ UNCHANGED <<op, at, cur, seen, cycles, used, bound, remote, outside>>

\* Mutant: the limit is not looked at.
QuotaIgnored == TRUE
QuotaLeft == used < QuotaMax

\* ensureQuota: the operation is counted once, before its first order.
EnsureQuota(p) ==
  LET o == at[p]
      free == cur[p].counted \/ op[o].counted
  IN  /\ pc[p] = "quota"
      /\ IF free \/ QuotaLeft
         THEN /\ op' = [op EXCEPT ![o].counted = @ \/ ~free]
              /\ used' = IF free THEN used ELSE used + 1
              /\ pc' = [pc EXCEPT ![p] = "claim"]
              /\ UNCHANGED <<at, cur, seen, cycles>>
         ELSE /\ Transition(p, {cur[p].state}, Move(op[o], "cancelled"))
              /\ UNCHANGED used
      /\ NoFault
      /\ UNCHANGED <<bound, remote, outside>>

-----------------------------------------------------------------------------
(***************************************************************************)
(* Sending: claimSend, the POST, and its answer.                           *)
(***************************************************************************)
\* The right to send: it compares the state and the lease, and starts the
\* next generation.  What the order is follows from the rules read before.
\* The generation of the copy is not compared: a process that has been
\* overtaken since its reading orders by that reading (SlowReads).
ClaimSend(p) ==
  LET o == at[p]
      r == op[o]
      ready == cur[p].state
      claims(s, t) ==
        [r EXCEPT !.state = s, !.owner = p, !.live = TRUE, !.action = t,
                  !.late = FALSE, !.gen = @ + 1,
                  !.attempts = IF s = "service_sending" THEN @ ELSE @ + 1]
  IN  /\ pc[p] = "claim"
      /\ r.state = ready => SlowReads \/ r.gen = cur[p].gen
      /\ IF r.state = ready /\ (LeaseFree(r) \/ r.owner = p)
         THEN \E row \in
                IF ready = "service_reserved" THEN {claims("service_sending", None)}
                ELSE IF Conflicts(cur[p], seen[p].rules) = {}
                     THEN {claims("rule_sending", None)}
                     ELSE {claims("rule_clear_sending", t) :
                             t \in Conflicts(cur[p], seen[p].rules)} :
                /\ op' = [op EXCEPT ![o] = row]
                /\ Resume(p, "post", row)
                /\ UNCHANGED cycles
         ELSE UNCHANGED op /\ Return(p, r)
      /\ NoFault
      /\ UNCHANGED <<used, bound, remote, outside>>

OrderOf(p) ==
  [op |-> at[p], gen |-> cur[p].gen,
   do |-> CASE cur[p].state = "service_sending" -> "service"
            [] cur[p].state = "rule_clear_sending" -> "delete"
            [] OTHER -> "create",
   type |-> CASE cur[p].state = "service_sending" -> None
              [] cur[p].state = "rule_clear_sending" -> cur[p].action
              [] OTHER -> cur[p].type,
   addr |-> IF cur[p].state = "rule_sending" THEN cur[p].addr ELSE None,
   open |-> TRUE]

Post(p) ==
  /\ pc[p] = "post"
  /\ orders' = orders \cup {OrderOf(p)}
  /\ pc' = [pc EXCEPT ![p] = "sent"]
  /\ NoFault
  /\ UNCHANGED <<op, at, cur, seen, cycles, used, bound, service, rules, outside>>

Accepted(p) ==
  LET s == cur[p].state
  IN  /\ pc[p] = "sent"
      /\ Transition(p, {s}, Move(op[at[p]],
           IF s = "service_sending" THEN "service_accepted" ELSE Unknown(s)))
      /\ NoFault
      /\ UNCHANGED <<used, bound, remote, outside>>

\* No answer, or a 5xx: the operator may have taken the order.
Unanswered(p) ==
  LET s == cur[p].state
  IN  /\ pc[p] = "sent"
      /\ Transition(p, {s}, Move(op[at[p]], Unknown(s)))
      /\ Fault
      /\ UNCHANGED <<used, bound, remote, outside>>

\* The operator refuses: a transient refusal of a rule is tried again.
Refused(p) ==
  LET s == cur[p].state
      retry == s # "service_sending" /\ cur[p].attempts < MaxAttempts
  IN  /\ pc[p] = "sent" /\ OrderOf(p) \in orders
      /\ orders' = orders \ {OrderOf(p)}
      /\ \E next \in {"failed"} \cup (IF retry THEN {"rule_ready"} ELSE {}) :
           Transition(p, {s}, Move(op[at[p]], next))
      /\ NoFault
      /\ UNCHANGED <<used, bound, service, rules, outside>>

\* finalizeOperation: snapshot, audit and done in one transaction.
Finalize(p) ==
  LET r == op[at[p]]
  IN  /\ pc[p] = "step" /\ cur[p].state = "rule_confirmed"
      /\ \/ Transition(p, {"rule_confirmed"}, Move(r, "done")) /\ NoFault
         \/ Transition(p, {"rule_confirmed"}, Drop(r)) /\ Fault
      /\ UNCHANGED <<used, bound, remote, outside>>

\* reconcileUnconfirmed a day after the request
Expire(w) ==
  /\ pc[w] = "step" /\ cur[w].state = "unconfirmed" /\ op[at[w]].old
  /\ Transition(w, {"unconfirmed"}, Move(op[at[w]], "expired"))
  /\ NoFault
  /\ UNCHANGED <<used, bound, remote, outside>>

\* The process stops, or its step throws: the row keeps its lease.
Abort(p) ==
  /\ pc[p] # "idle"
  /\ Rest(p) /\ Fault
  /\ UNCHANGED <<op, used, bound, remote, outside>>

-----------------------------------------------------------------------------
(***************************************************************************)
(* Time, the operator, and those who change the number past the portal.    *)
(***************************************************************************)
\* A lease that ends under its holder's hands is a fault.
LeaseEnds(o) ==
  /\ op[o].live
  /\ op' = [op EXCEPT ![o].live = FALSE]
  /\ IF at[op[o].owner] = o THEN Fault ELSE NoFault
  /\ UNCHANGED <<pc, at, cur, seen, cycles, used, bound, remote, outside>>

DeadlinePasses(o) ==
  /\ op[o].state \in Awaiting \cup Verifying /\ ~op[o].late
  /\ op' = [op EXCEPT ![o].late = TRUE]
  /\ NoFault
  /\ UNCHANGED <<pc, at, cur, seen, cycles, used, bound, remote, outside>>

\* A day has passed since the row was created, whenever its orders were sent.
\* Only an unconfirmed operation looks at its age.
DayPasses(o) ==
  /\ op[o].state = "unconfirmed" /\ ~op[o].old
  /\ op' = [op EXCEPT ![o].old = TRUE]
  /\ NoFault
  /\ UNCHANGED <<pc, at, cur, seen, cycles, used, bound, remote, outside>>

HourPasses ==
  /\ used > 0 /\ used' = used - 1
  /\ NoFault
  /\ UNCHANGED <<op, pc, at, cur, seen, cycles, bound, remote, outside>>

\* The operator carries an order out, or drops it without a word.
Settle(m) ==
  /\ orders' = (orders \ {m}) \cup {[m EXCEPT !.open = FALSE]}
  /\ \/ /\ m.do = "service" /\ service' = TRUE /\ UNCHANGED rules
     \/ /\ m.do # "service" /\ UNCHANGED service
        /\ rules' = [rules EXCEPT ![m.type] = m.addr]
     \/ UNCHANGED <<service, rules>>
  /\ NoFault
  /\ UNCHANGED <<op, pc, at, cur, seen, cycles, used, bound, outside>>

ChangeOutside ==
  /\ outside < MaxOutside /\ outside' = outside + 1
  /\ \E t \in Types, a \in Addrs \cup {None} :
       rules[t] # a /\ rules' = [rules EXCEPT ![t] = a]
  /\ NoFault
  /\ UNCHANGED <<op, pc, at, cur, seen, cycles, used, bound, service, orders>>

Rebind ==
  /\ bound' = ~bound
  /\ NoFault
  /\ UNCHANGED <<op, pc, at, cur, seen, cycles, used, remote, outside>>

-----------------------------------------------------------------------------
\* What a process does by itself once it holds a row.
Step(p) ==
  \/ ReadRules(p) \/ ReadServices(p)
  \/ DecideService(p) \/ DecideVerified(p) \/ DecideRule(p)
  \/ StartService(p) \/ EnsureQuota(p) \/ ClaimSend(p) \/ Post(p)
  \/ Accepted(p) \/ Unanswered(p) \/ Refused(p)
  \/ Finalize(p)
  \/ p \in Workers /\ (CancelRebound(p) \/ Expire(p))

Next ==
  \/ \E o \in OpIds : AskSet(o) \/ AskRemove(o)
  \/ \E w \in Workers, o \in OpIds : ClaimDue(w, o)
  \/ \E p \in Procs : Step(p) \/ Abort(p)
  \/ \E o \in OpIds : \/ RecoverStale(o) \/ LeaseEnds(o)
                       \/ DeadlinePasses(o) \/ DayPasses(o)
  \/ \E m \in Open : Settle(m)
  \/ ChangeOutside \/ Rebind \/ HourPasses

Spec == Init /\ [][Next]_vars

(***************************************************************************)
(* Workers tick every 30 s; time, and the operator within a day, go on.    *)
(***************************************************************************)
Fairness ==
  /\ \A p \in Procs : WF_vars(Step(p))
  /\ \A o \in OpIds :
       /\ WF_vars(\E w \in Workers : ClaimDue(w, o))
       /\ WF_vars(RecoverStale(o))
       /\ WF_vars(LeaseEnds(o) /\ UNCHANGED faults)
       /\ WF_vars(DeadlinePasses(o))
       /\ WF_vars(DayPasses(o))
  /\ WF_vars(\E m \in Open : Settle(m))

FairSpec == Spec /\ Fairness

TypeOK ==
  /\ op \in [OpIds -> Rows]
  /\ pc \in [Procs -> {"idle", "step", "decide", "quota", "claim", "post", "sent"}]
  /\ at \in [Procs -> OpIds \cup {None}]
  /\ cur \in [Procs -> Rows]
  /\ seen \in [Procs ->
       [answer: {"none", "failed", "rules", "active", "faulted", "absent"},
        rules: RuleSets]]
  /\ cycles \in [OpIds -> 0..MaxCycles]
  /\ used \in 0..QuotaMax
  /\ bound \in BOOLEAN /\ service \in BOOLEAN
  /\ rules \in RuleSets
  /\ orders \subseteq Orders
  /\ faults \in Nat /\ outside \in Nat

(***************************************************************************)
(* Properties.                                                             *)
(***************************************************************************)
\* Nothing changed the rules past the operations, and no operation was given
\* up after a day with the fate of its order unknown.
Quiet == outside = 0 /\ \A o \in OpIds : op[o].state # "expired"

\* The operator never holds two orders for the number whose fate is open: a
\* removal is confirmed before the next order is sent (stepRule, verifyClear,
\* recoverStale), through crashes, lost answers and a change of executor.
OneOrderAtATime == Quiet => Cardinality(Open) <= 1

\* Within one operation the service and the rule asked are never ordered a
\* second time unless the operator refused the first order, however slow the
\* processes are and whoever else changes the rules (claimSend, recoverStale).
SentOnce ==
  \A m, n \in orders : m.op = n.op /\ m.do = n.do /\ m.do # "delete" => m = n

\* While the order for a rule is open the service is active and no rule of
\* another type stands: a conditional rule under a CFU would have no effect.
CreateMeetsNoConflict ==
  Quiet => \A m \in Open : m.do = "create" =>
             service /\ \A t \in Types \ {m.type} : rules[t] = None

\* An operation that frees the number leaves no open order behind: the next
\* operation of the number starts from settled rules.
EndsSettled == Quiet => \A m \in Open : Active(m.op)

\* The step that writes done finds the mode asked at the operator, although
\* the rules were read some steps before and by another process perhaps.
DoneMeansApplied ==
  [][\A o \in OpIds :
       op[o].state # "done" /\ op'[o].state = "done" /\ Quiet
         => Reached(op[o], rules)]_vars

\* Every operation ends and frees the number.
Ends == \A o \in OpIds : Active(o) ~> ~Active(o)

=============================================================================
