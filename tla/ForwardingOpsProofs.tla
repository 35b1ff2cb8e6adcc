-------------------------- MODULE ForwardingOpsProofs --------------------------
(***************************************************************************)
(* Proofs about ForwardingOps for any number of workers, operations, types *)
(* and addresses, with processes as slow as they like.                     *)
(***************************************************************************)
EXTENDS ForwardingOps, TLAPS

-----------------------------------------------------------------------------
(***************************************************************************)
(* Types.                                                                  *)
(***************************************************************************)
\* A process at work has an operation, and the copy that its place calls for.
Working ==
  \A p \in Procs :
    /\ pc[p] # "idle" => at[p] \in OpIds
    /\ pc[p] \in {"quota", "claim"} => cur[p].state \in NotSent
    /\ pc[p] \in {"post", "sent"} => cur[p].state \in Sending

\* What the processes hold, apart from the tables.
LocalType ==
  /\ pc \in [Procs -> {"idle", "step", "decide", "quota", "claim", "post", "sent"}]
  /\ at \in [Procs -> OpIds \cup {None}]
  /\ cur \in [Procs -> Rows]
  /\ seen \in [Procs ->
       [answer: {"none", "failed", "rules", "active", "faulted", "absent"},
        rules: RuleSets]]
  /\ cycles \in [OpIds -> 0..MaxCycles]
  /\ Working

TypeInv == TypeOK /\ Working

\* The ways a row is rewritten keep its type.
LEMMA RowTypes ==
  /\ NoRow \in Rows
  /\ \A r \in Rows : Drop(r) \in Rows /\ Copy(r) \in Rows /\ Copy(r).state = r.state
  /\ \A r \in Rows, s \in States : Move(r, s) \in Rows /\ Move(r, s).state = s
<1>1. NoRow \in Rows
  BY DEF NoRow, Rows, States
<1>2. \A r \in Rows : Drop(r) \in Rows /\ Copy(r) \in Rows /\ Copy(r).state = r.state
  BY DEF Rows, Drop, Copy
<1>3. ASSUME NEW r \in Rows, NEW s \in States
      PROVE  Move(r, s) \in Rows /\ Move(r, s).state = s
  <2>1. CASE s \in Final
    BY <2>1, <1>1 DEF Move, Rows, NoRow
  <2>2. CASE s \notin Final
    BY <2>2 DEF Move, Rows
  <2> QED
    BY <2>1, <2>2
<1> QED
  BY <1>1, <1>2, <1>3

\* Other rewritings of a row.
LEMMA RowEdits ==
  ASSUME NEW r \in Rows
  PROVE  /\ [r EXCEPT !.state = "rule_confirmed", !.late = FALSE] \in Rows
         /\ \A p \in Procs : [r EXCEPT !.owner = p, !.live = TRUE] \in Rows
         /\ \A s \in States : [r EXCEPT !.from = s] \in Rows
         /\ [r EXCEPT !.live = FALSE] \in Rows /\ [r EXCEPT !.late = TRUE] \in Rows
         /\ [r EXCEPT !.old = TRUE] \in Rows
         /\ \A b \in BOOLEAN : [r EXCEPT !.counted = b] \in Rows
<1>1. "rule_confirmed" \in States
  BY DEF States, Due
<1> QED
  BY <1>1 DEF Rows

\* The states of a row.
LEMMA StateSets ==
  /\ Final \subseteq States /\ Due \subseteq States /\ Sending \subseteq States
  /\ NotSent \subseteq Due /\ Awaiting \subseteq Due /\ Verifying \subseteq Due
  /\ \A s \in Sending : Unknown(s) \in States
BY DEF Final, Due, Sending, States, NotSent, Awaiting, Verifying, Unknown

LEMMA NoReadingType ==
  NoReading \in [answer: {"none", "failed", "rules", "active", "faulted", "absent"},
                 rules: RuleSets]
BY DEF NoReading, Reading, RuleSets

\* The end of a step, whichever way a process goes on.
LEMMA RestType ==
  ASSUME TypeInv, NEW p \in Procs, Rest(p)
  PROVE  LocalType'
<1>1. cycles' \in [OpIds -> 0..MaxCycles]
  BY ForwardingAssumption DEF Rest, TypeInv, TypeOK
<1>2. Working'
  BY DEF Rest, TypeInv, TypeOK, Working
<1> QED
  BY <1>1, <1>2, RowTypes, NoReadingType DEF Rest, TypeInv, TypeOK, LocalType

LEMMA ResumeType ==
  ASSUME TypeInv, NEW p \in Procs, NEW r \in Rows, NEW step \in {"step", "post"},
         at[p] \in OpIds, step = "post" => r.state \in Sending,
         Resume(p, step, r), cycles' \in [OpIds -> 0..MaxCycles]
  PROVE  LocalType'
<1>1. Working'
  BY RowTypes DEF Resume, TypeInv, TypeOK, Working
<1> QED
  BY <1>1, RowTypes, NoReadingType DEF Resume, TypeInv, TypeOK, LocalType

LEMMA ReturnType ==
  ASSUME TypeInv, NEW p \in Procs, NEW r \in Rows, at[p] \in OpIds, Return(p, r)
  PROVE  LocalType'
<1> DEFINE again == r.state = "rule_ready" /\ cycles[p] > 1
<1>1. CASE Rest(p)
  BY <1>1, RestType
<1>2. CASE /\ p \in OpIds /\ Resume(p, "step", r)
           /\ cycles' = [cycles EXCEPT ![p] = IF again THEN @ - 1 ELSE @]
  <2>1. cycles[p] \in 0..MaxCycles /\ MaxCycles \in Nat
    BY <1>2, ForwardingAssumption DEF TypeInv, TypeOK
  <2>2. (IF again THEN cycles[p] - 1 ELSE cycles[p]) \in 0..MaxCycles
    BY <2>1
  <2>3. cycles' \in [OpIds -> 0..MaxCycles]
    BY <1>2, <2>2 DEF TypeInv, TypeOK
  <2> QED
    BY <1>2, <2>3, ResumeType
<1> QED
  BY <1>1, <1>2 DEF Return

\* A compare-and-set of a row keeps the type of the table, and so does the end
\* of the step that made it.
LEMMA UpdateType ==
  ASSUME TypeInv, NEW p \in Procs, at[p] \in OpIds, NEW from, NEW r \in Rows
  PROVE  Update(p, from, r) \in Rows
BY DEF Update, TypeInv, TypeOK

LEMMA TransitionType ==
  ASSUME TypeInv, NEW p \in Procs, at[p] \in OpIds, NEW from, NEW r \in Rows,
         Transition(p, from, r)
  PROVE  op' \in [OpIds -> Rows] /\ LocalType'
<1>1. Update(p, from, r) \in Rows
  BY UpdateType
<1> QED
  BY <1>1, ReturnType DEF Transition, TypeInv, TypeOK

LEMMA ConfirmType ==
  ASSUME TypeInv, NEW p \in Procs, at[p] \in OpIds, NEW from, Confirm(p, from)
  PROVE  op' \in [OpIds -> Rows] /\ LocalType'
<1> DEFINE r == [op[at[p]] EXCEPT !.state = "rule_confirmed", !.late = FALSE]
<1>1. op[at[p]] \in Rows /\ r \in Rows
  BY RowEdits DEF TypeInv, TypeOK
<1>2. CASE /\ op' = [op EXCEPT ![at[p]] = r]
           /\ Resume(p, "step", r) /\ UNCHANGED cycles
  BY <1>1, <1>2, ResumeType DEF TypeInv, TypeOK
<1>3. CASE UNCHANGED op /\ Return(p, op[at[p]])
  BY <1>1, <1>3, ReturnType DEF TypeInv, TypeOK
<1> QED
  BY <1>2, <1>3 DEF Confirm

\* Giving a check up for later: what becomes of the row.
LEMMA PostponeType ==
  ASSUME TypeInv, NEW p \in Procs, at[p] \in OpIds, NEW s \in States, Postpone(p, s)
  PROVE  op' \in [OpIds -> Rows] /\ LocalType'
<1> DEFINE r == op[at[p]]
           later == IF cur[p].state # "unconfirmed" /\ Overdue(r)
                    THEN [Move(r, "unconfirmed") EXCEPT !.from = s] ELSE Drop(r)
<1>1. r \in Rows /\ "unconfirmed" \in States
  BY DEF TypeInv, TypeOK, States, Due
<1>2. [Move(r, "unconfirmed") EXCEPT !.from = s] \in Rows
  BY <1>1, RowTypes DEF Rows
<1>3. later \in Rows
  BY <1>1, <1>2, RowTypes
<1>4. Update(p, {cur[p].state}, later) \in Rows
  BY <1>3, UpdateType
<1> QED
  BY <1>4, RestType DEF Postpone, TypeInv, TypeOK

\* Every step of a process keeps the types.
LEMMA TypeProcess ==
  ASSUME TypeInv, NEW p \in Procs, Step(p) \/ Abort(p)
  PROVE  TypeInv'
<1> DEFINE row == op[at[p]]
<1>p. pc[p] # "idle" /\ at[p] \in OpIds
  BY DEF Step, Abort, ReadRules, ReadServices, DecideService, DecideVerified,
         DecideRule, StartService, EnsureQuota, ClaimSend, Post, Accepted,
         Unanswered, Refused, Finalize, CancelRebound, Expire, TypeInv, Working
<1>r. row \in Rows /\ cur[p] \in Rows /\ cur[p].state \in States
  BY <1>p DEF TypeInv, TypeOK, Rows
<1>e. /\ {"absent", "rule_ready", "unconfirmed", "failed", "cancelled", "done",
         "expired", "service_accepted"} \subseteq States
      /\ \A s \in Sending : Unknown(s) \in States
  BY StateSets DEF States, Due, Final, NotSent, Awaiting
<1>d. Drop(row) \in Rows
  BY <1>r, RowTypes
<1>m. \A s \in States : Move(row, s) \in Rows /\ [Move(row, s) EXCEPT !.from = "absent"] \in Rows
                        /\ [Move(row, s) EXCEPT !.from = cur[p].state] \in Rows
  BY <1>r, <1>e, RowTypes, RowEdits
<1>t. ASSUME NEW from, NEW r \in Rows, Transition(p, from, r)
      PROVE  op' \in [OpIds -> Rows] /\ LocalType'
  BY <1>t, <1>p, TransitionType
<1>c. ASSUME op' \in [OpIds -> Rows] /\ LocalType',
             UNCHANGED <<used, bound, service, rules, outside>>,
             orders' \subseteq orders, Fault \/ NoFault
      PROVE  TypeInv'
  BY <1>c DEF LocalType, TypeInv, TypeOK, Fault, NoFault
<1>1. CASE ReadRules(p)
  BY <1>1, <1>p DEF ReadRules, Reading, Fault, NoFault, remote, TypeInv, TypeOK, Working
<1>2. CASE ReadServices(p)
  BY <1>2, <1>p DEF ReadServices, Fault, NoFault, remote, TypeInv, TypeOK, Working
<1>3. CASE DecideService(p)
  <2>1. op' \in [OpIds -> Rows] /\ LocalType'
    BY <1>3, <1>t, <1>m, <1>d, <1>e DEF DecideService
  <2> QED
    BY <1>3, <2>1, <1>c DEF DecideService, remote
<1>4. CASE DecideVerified(p)
  <2> DEFINE cleared == [Move(row, "rule_ready") EXCEPT
                           !.action = None, !.attempts = 0, !.from = "absent"]
  <2>1. cleared \in Rows
    <3>1. \A r \in Rows : [r EXCEPT !.action = None, !.attempts = 0, !.from = "absent"] \in Rows
      BY <1>e DEF Rows
    <3> QED
      BY <3>1, <1>m, <1>e
  <2>2. Stage(cur[p]) \in States
    BY <1>r DEF Stage, Rows
  <2>3. op' \in [OpIds -> Rows] /\ LocalType'
    BY <1>4, <1>t, <1>p, <2>1, <2>2, ConfirmType, PostponeType DEF DecideVerified
  <2> QED
    BY <1>4, <2>3, <1>c DEF DecideVerified, remote
<1>5. CASE DecideRule(p)
  <2>1. op' \in [OpIds -> Rows] /\ LocalType'
    <3>1. CASE /\ pc' = [pc EXCEPT ![p] = "quota"] /\ cur[p].state = "rule_ready"
               /\ UNCHANGED <<op, at, cur, seen, cycles>>
      <4>1. Working'
        BY <3>1, <1>p DEF TypeInv, TypeOK, Working, NotSent
      <4> QED
        BY <3>1, <4>1 DEF TypeInv, TypeOK, LocalType
    <3>2. CASE Transition(p, {"rule_ready"}, Drop(row)) \/ Confirm(p, {"rule_ready"})
      BY <3>2, <1>t, <1>d, <1>p, ConfirmType
    <3> QED
      BY <1>5, <3>1, <3>2 DEF DecideRule
  <2> QED
    BY <1>5, <2>1, <1>c DEF DecideRule, remote
<1>6. CASE StartService(p)
  BY <1>6, <1>p DEF StartService, NoFault, remote, TypeInv, TypeOK, Working, NotSent
<1>7. CASE EnsureQuota(p)
  <2>1. CASE /\ op' = [op EXCEPT ![at[p]].counted = @ \/ ~(cur[p].counted \/ op[at[p]].counted)]
             /\ used' \in {used, used + 1} /\ used' \in 0..QuotaMax
             /\ pc' = [pc EXCEPT ![p] = "claim"] /\ pc[p] = "quota"
             /\ UNCHANGED <<at, cur, seen, cycles>>
    <3>1. row.counted \in BOOLEAN /\ cur[p].counted \in BOOLEAN
      BY <1>r DEF Rows
    <3>2. op' \in [OpIds -> Rows]
      BY <2>1, <3>1, <1>p, <1>r, RowEdits DEF TypeInv, TypeOK
    <3> QED
      BY <1>7, <2>1, <3>2 DEF EnsureQuota, NoFault, remote, TypeInv, TypeOK, Working
  <2>2. CASE Transition(p, {cur[p].state}, Move(row, "cancelled")) /\ UNCHANGED used
    <3>1. op' \in [OpIds -> Rows] /\ LocalType'
      BY <2>2, <1>t, <1>m, <1>e
    <3> QED
      BY <1>7, <2>2, <3>1, <1>c DEF EnsureQuota, remote
  <2>3. QuotaLeft => used + 1 \in 0..QuotaMax
    BY ForwardingAssumption DEF QuotaLeft, TypeInv, TypeOK
  <2> QED
    BY <1>7, <2>1, <2>2, <2>3 DEF EnsureQuota, TypeInv, TypeOK
<1>8. CASE ClaimSend(p)
  <2>2. ASSUME NEW r \in Rows, r.state \in Sending,
               op' = [op EXCEPT ![at[p]] = r], Resume(p, "post", r), UNCHANGED cycles
        PROVE  op' \in [OpIds -> Rows] /\ LocalType'
    BY <2>2, <1>p, ResumeType DEF TypeInv, TypeOK
  <2>4. ASSUME NEW s \in Sending, NEW t \in Types \cup {None}, NEW r,
               r = [row EXCEPT !.state = s, !.owner = p, !.live = TRUE, !.action = t,
                      !.late = FALSE, !.gen = @ + 1,
                      !.attempts = IF s = "service_sending" THEN @ ELSE @ + 1]
        PROVE  r \in Rows /\ r.state \in Sending
    <3> DEFINE n == IF s = "service_sending" THEN row.attempts ELSE row.attempts + 1
               claim(x, g, k) ==
                 [x EXCEPT !.state = s, !.owner = p, !.live = TRUE, !.action = t,
                    !.late = FALSE, !.gen = g, !.attempts = k]
    <3>1. n \in Nat /\ row.gen + 1 \in Nat /\ s \in States
      BY <1>r, StateSets DEF Rows
    <3>2. r = claim(row, row.gen + 1, n)
      BY <2>4
    <3>3. ASSUME NEW x \in Rows, NEW g \in Nat, NEW k \in Nat
          PROVE  claim(x, g, k) \in Rows /\ claim(x, g, k).state = s
      BY StateSets DEF Rows
    <3> HIDE DEF n, claim
    <3> QED
      BY <3>1, <3>2, <3>3, <1>r
  <2>5. op' \in [OpIds -> Rows] /\ LocalType'
    <3>1. {"service_sending", "rule_sending", "rule_clear_sending"} \subseteq Sending
      BY DEF Sending
    <3>2. CASE ~(UNCHANGED op /\ Return(p, row))
      <4>1. PICK s \in Sending, t \in Types \cup {None} : \E r :
              /\ r = [row EXCEPT !.state = s, !.owner = p, !.live = TRUE, !.action = t,
                        !.late = FALSE, !.gen = @ + 1,
                        !.attempts = IF s = "service_sending" THEN @ ELSE @ + 1]
              /\ op' = [op EXCEPT ![at[p]] = r]
              /\ Resume(p, "post", r) /\ UNCHANGED cycles
        BY <1>8, <3>1, <3>2 DEF ClaimSend, Conflicts
      <4> QED
        BY <4>1, <2>2, <2>4
    <3> QED
      BY <3>2, <1>p, <1>r, ReturnType DEF TypeInv, TypeOK
  <2> QED
    BY <1>8, <2>5, <1>c DEF ClaimSend, remote
<1>9. CASE Post(p)
  <2>1. OrderOf(p) \in Orders
    BY <1>p, <1>r DEF OrderOf, Orders, Rows
  <2> QED
    BY <1>9, <2>1 DEF Post, NoFault, TypeInv, TypeOK, Working
<1>10. CASE Accepted(p) \/ Unanswered(p)
  <2>1. cur[p].state \in Sending
    BY <1>10 DEF Accepted, Unanswered, TypeInv, Working
  <2>2. op' \in [OpIds -> Rows] /\ LocalType'
    BY <1>10, <2>1, <1>t, <1>m, <1>e DEF Accepted, Unanswered
  <2> QED
    BY <1>10, <2>2, <1>c DEF Accepted, Unanswered, remote
<1>11. CASE Refused(p)
  <2>1. op' \in [OpIds -> Rows] /\ LocalType'
    BY <1>11, <1>t, <1>m, <1>e DEF Refused
  <2> QED
    BY <1>11, <2>1, <1>c DEF Refused
<1>12. CASE Finalize(p)
  <2>1. op' \in [OpIds -> Rows] /\ LocalType'
    BY <1>12, <1>t, <1>m, <1>d, <1>e DEF Finalize
  <2> QED
    BY <1>12, <2>1, <1>c DEF Finalize, remote
<1>13. CASE CancelRebound(p) \/ Expire(p)
  <2>1. op' \in [OpIds -> Rows] /\ LocalType'
    BY <1>13, <1>t, <1>m, <1>e DEF CancelRebound, Expire
  <2> QED
    BY <1>13, <2>1, <1>c DEF CancelRebound, Expire, remote
<1>14. CASE Abort(p)
  <2>1. LocalType' /\ op' \in [OpIds -> Rows]
    BY <1>14, RestType DEF Abort, TypeInv, TypeOK
  <2> QED
    BY <1>14, <2>1, <1>c DEF Abort, remote
<1> QED
  BY <1>1, <1>2, <1>3, <1>4, <1>5, <1>6, <1>7, <1>8, <1>9, <1>10, <1>11, <1>12,
     <1>13, <1>14 DEF Step

LEMMA TypeReserve ==
  ASSUME TypeInv, NEW o \in OpIds, NEW t \in Types \cup {None},
         NEW a \in Addrs \cup {None}, Reserve(o, t, a)
  PROVE  TypeInv'
<1>1. ASSUME NEW s \in {"rule_ready", "service_reserved"}
      PROVE  [NoRow EXCEPT !.state = s, !.type = t, !.addr = a] \in Rows
  <2>1. s \in States
    BY StateSets DEF NotSent
  <2>2. \A x \in Rows : [x EXCEPT !.state = s, !.type = t, !.addr = a] \in Rows
    BY <2>1 DEF Rows
  <2> QED
    BY <2>2, RowTypes
<1>2. PICK r \in Rows, n \in {0, MaxCycles} :
         /\ op' = [op EXCEPT ![o] = r] /\ pc' = [pc EXCEPT ![o] = "step"]
         /\ at' = [at EXCEPT ![o] = o] /\ cur' = [cur EXCEPT ![o] = Copy(r)]
         /\ cycles' = [cycles EXCEPT ![o] = n]
  <2> DEFINE s == IF t = None \/ service THEN "rule_ready" ELSE "service_reserved"
             n == IF t = None \/ service THEN MaxCycles ELSE 0
  <2>1. [NoRow EXCEPT !.state = s, !.type = t, !.addr = a] \in Rows
    BY <1>1
  <2> QED
    BY <2>1 DEF Reserve
<1>3. Working' /\ op' \in [OpIds -> Rows] /\ cur' \in [Procs -> Rows]
  BY <1>2, RowTypes DEF TypeInv, TypeOK, Working
<1>4. cycles' \in [OpIds -> 0..MaxCycles]
  BY <1>2, ForwardingAssumption DEF TypeInv, TypeOK
<1> QED
  BY <1>2, <1>3, <1>4 DEF Reserve, NoFault, remote, TypeInv, TypeOK, Procs

LEMMA TypeClaimDue ==
  ASSUME TypeInv, NEW w \in Workers, NEW o \in OpIds, ClaimDue(w, o)
  PROVE  TypeInv'
<1> DEFINE r == [op[o] EXCEPT !.owner = w, !.live = TRUE]
<1>1. w \in Procs
  BY DEF Procs
<1>2. r \in Rows /\ Copy(r) \in Rows
  BY <1>1, RowEdits, RowTypes DEF TypeInv, TypeOK
<1>3. op' = [op EXCEPT ![o] = r] /\ cur' = [cur EXCEPT ![w] = Copy(r)]
  BY DEF ClaimDue
<1>4. Working'
  BY <1>3, <1>1 DEF ClaimDue, TypeInv, TypeOK, Working
<1> QED
  BY <1>1, <1>2, <1>3, <1>4 DEF ClaimDue, Fault, NoFault, remote, TypeInv, TypeOK

\* What time does to a row.
LEMMA TypeClock ==
  ASSUME TypeInv, NEW o \in OpIds,
         RecoverStale(o) \/ LeaseEnds(o) \/ DeadlinePasses(o) \/ DayPasses(o)
  PROVE  TypeInv'
<1>1. op[o] \in Rows
  BY DEF TypeInv, TypeOK
<1>2. RecoverStale(o) => Move(op[o], Unknown(op[o].state)) \in Rows
  BY <1>1, RowTypes, StateSets DEF RecoverStale
<1>3. PICK r \in Rows : op' = [op EXCEPT ![o] = r]
  BY <1>1, <1>2, RowEdits DEF RecoverStale, LeaseEnds, DeadlinePasses, DayPasses
<1>4. UNCHANGED <<pc, at, cur, seen, cycles, used, bound, remote, outside>> /\ (Fault \/ NoFault)
  BY DEF RecoverStale, LeaseEnds, DeadlinePasses, DayPasses
<1> QED
  BY <1>3, <1>4 DEF Fault, NoFault, remote, TypeInv, TypeOK, Working

LEMMA TypeOutside ==
  ASSUME TypeInv, (\E m \in Open : Settle(m)) \/ ChangeOutside \/ Rebind \/ HourPasses
  PROVE  TypeInv'
<1>1. CASE \E m \in Open : Settle(m)
  <2>1. PICK m \in Open : Settle(m)
    BY <1>1
  <2>2. m \in Orders /\ [m EXCEPT !.open = FALSE] \in Orders
    BY DEF Open, Orders, TypeInv, TypeOK
  <2>3. orders' \subseteq Orders
    BY <2>1, <2>2 DEF Settle, TypeInv, TypeOK
  <2>4. rules' \in RuleSets /\ service' \in BOOLEAN
    BY <2>1, <2>2 DEF Settle, RuleSets, Orders, TypeInv, TypeOK
  <2> QED
    BY <2>1, <2>3, <2>4 DEF Settle, NoFault, TypeInv, TypeOK, Working
<1>2. CASE ChangeOutside
  BY <1>2 DEF ChangeOutside, NoFault, RuleSets, TypeInv, TypeOK, Working
<1>3. CASE Rebind
  BY <1>3 DEF Rebind, NoFault, remote, TypeInv, TypeOK, Working
<1>4. CASE HourPasses
  <2>1. used' \in 0..QuotaMax
    BY <1>4, ForwardingAssumption DEF HourPasses, TypeInv, TypeOK
  <2> QED
    BY <1>4, <2>1 DEF HourPasses, NoFault, remote, TypeInv, TypeOK, Working
<1> QED
  BY <1>1, <1>2, <1>3, <1>4

LEMMA TypeInit == Init => TypeInv
<1> SUFFICES ASSUME Init PROVE TypeInv
  OBVIOUS
<1>1. \A p \in Procs : pc[p] = "idle"
  BY DEF Init
<1> QED
  BY <1>1, RowTypes, NoReadingType, ForwardingAssumption
     DEF Init, TypeInv, TypeOK, Working

LEMMA TypeStep == TypeInv /\ [Next]_vars => TypeInv'
<1> SUFFICES ASSUME TypeInv, [Next]_vars PROVE TypeInv'
  OBVIOUS
<1>1. CASE \E o \in OpIds : AskSet(o) \/ AskRemove(o)
  BY <1>1, TypeReserve DEF AskSet, AskRemove
<1>2. CASE \E w \in Workers, o \in OpIds : ClaimDue(w, o)
  BY <1>2, TypeClaimDue
<1>3. CASE \E p \in Procs : Step(p) \/ Abort(p)
  BY <1>3, TypeProcess
<1>4. CASE \E o \in OpIds : \/ RecoverStale(o) \/ LeaseEnds(o)
                            \/ DeadlinePasses(o) \/ DayPasses(o)
  BY <1>4, TypeClock
<1>5. CASE (\E m \in Open : Settle(m)) \/ ChangeOutside \/ Rebind \/ HourPasses
  BY <1>5, TypeOutside
<1>6. CASE UNCHANGED vars
  BY <1>6 DEF vars, remote, TypeInv, TypeOK, Working
<1> QED
  BY <1>1, <1>2, <1>3, <1>4, <1>5, <1>6 DEF Next

LEMMA TypeInvariant == Spec => []TypeInv
BY TypeInit, TypeStep, PTL DEF Spec

\* Every variable keeps its type, whatever the number of workers and requests
\* and however slow they are.
THEOREM ForwardingTypeCorrect == Spec => []TypeOK
<1>1. TypeInv => TypeOK
  BY DEF TypeInv
<1> QED
  BY <1>1, TypeInvariant, PTL

-----------------------------------------------------------------------------
(***************************************************************************)
(* No order is sent twice.                                                 *)
(*                                                                         *)
(* A row goes through stages; claimSend alone starts a generation.  Within *)
(* a generation the order is first in doubt and then known to have worked  *)
(* or not, and no process, however old its copy, can lead the row back.    *)
(* So who wins claimSend for a rule finds no earlier order of it unless it *)
(* was refused, and nobody else is about to send one.                      *)
(***************************************************************************)
InService == {"service_sending"} \cup Awaiting
InClear == {"rule_clear_sending", "rule_clear_verifying"}
InCreate == {"rule_sending", "rule_verifying"}
Ended == Final \cup {"absent"}

\* The stages that may follow one another within a generation.
Goes(s, t) ==
  \/ s = t
  \/ \E G \in {InService, InClear, InCreate} :
       s \in G /\ t \in G \cup {"rule_ready", "rule_confirmed"}
  \/ s = "rule_ready" /\ t = "rule_confirmed"

\* Row x is what copy c can have become.
Ahead(c, x) ==
  \/ x.state \in Final
  \/ c.gen < x.gen
  \/ c.gen = x.gen /\ Goes(Stage(c), Stage(x))

SameStage(r, x) == x.state = r.state /\ x.from = r.from /\ x.gen = r.gen

\* What every step but a claim does with a row, and what those do that are no
\* refusal either.
Forth(r, x) ==
  \/ SameStage(r, x)
  \/ /\ r.state \notin Ended /\ x.state # "absent"
     /\ x.state \in Final \/ (x.gen = r.gen /\ Goes(Stage(r), Stage(x)))

Forward(r, x) ==
  \/ SameStage(r, x)
  \/ /\ r.state \notin Ended /\ x.state # "absent"
     /\ \/ x.state \in Final
        \/ /\ x.gen = r.gen /\ Goes(Stage(r), Stage(x))
           /\ Stage(r) \in InCreate => Stage(x) # "rule_ready"

\* An unconfirmed row knows the order it waits for.
Known(r) == r.state = "unconfirmed" => r.from \in Awaiting \cup Verifying

\* The row still answers for the rule ordered in generation g.
Holds(g, r) ==
  \/ r.state \in Final
  \/ r.gen = g /\ Stage(r) \in InCreate \cup {"rule_confirmed"}

Sender(p) == pc[p] \in {"post", "sent"}
Sends(p) == OrderOf(p).do

\* Copies are old pictures of the rows.
CopiesFollow ==
  /\ \A o \in OpIds : Known(op[o])
  /\ \A p \in Procs : pc[p] # "idle" =>
       /\ op[at[p]].state # "absent"
       /\ cur[p].state \notin Ended /\ Known(cur[p])
       /\ Ahead(cur[p], op[at[p]])

\* Orders and those about to send them agree with the row.
RowAnswers(d, g, r) ==
  /\ r.state # "absent"
  /\ d = "service" => r.state # "service_reserved"
  /\ d = "create" => Holds(g, r)

OrdersAnswered ==
  /\ \A m \in orders : RowAnswers(m.do, m.gen, op[m.op])
  /\ \A p \in Procs : Sender(p) => RowAnswers(Sends(p), cur[p].gen, op[at[p]])

\* One process at a time sends, and it has not sent before.
OneSender ==
  \A p, q \in Procs :
    Sender(p) /\ Sender(q) /\ at[p] = at[q] /\ Sends(p) = Sends(q)
      /\ Sends(p) # "delete" => p = q

NotYetSent ==
  \A p \in Procs, m \in orders :
    pc[p] = "post" /\ at[p] = m.op /\ Sends(p) = m.do => m.do = "delete"

SendInv ==
  CopiesFollow /\ OrdersAnswered /\ OneSender /\ NotYetSent /\ SentOnce

LEMMA StageFacts ==
  /\ Final \cap Due = {} /\ Final \cap Sending = {} /\ NotSent \subseteq Due
  /\ Awaiting \subseteq Due /\ Verifying \subseteq Due
  /\ Awaiting \cup Verifying \cup Sending \subseteq InService \cup InClear \cup InCreate
  /\ Sending \cap NotSent = {} /\ "absent" \notin Final \cup Due \cup Sending
  /\ "unconfirmed" \notin Awaiting \cup Verifying \cup Sending \cup NotSent \cup Final
BY DEF Final, Due, Sending, NotSent, Awaiting, Verifying, InService, InClear, InCreate

\* Stages only go forward, so what a copy can have become stays so.
LEMMA GoesOn ==
  /\ \A s, t, u : Goes(s, t) /\ Goes(t, u) => Goes(s, u)
  /\ \A s : Goes(s, s)
BY DEF Goes, InService, InClear, InCreate, Awaiting

LEMMA AheadForth ==
  ASSUME NEW c \in Rows, NEW r \in Rows, NEW x \in Rows, Ahead(c, r), Forth(r, x)
  PROVE  Ahead(c, x)
<1>1. CASE SameStage(r, x)
  BY <1>1 DEF SameStage, Ahead, Stage
<1>2. CASE x.state \in Final
  BY <1>2 DEF Ahead
<1>3. CASE r.state \notin Final /\ x.gen = r.gen /\ Goes(Stage(r), Stage(x))
  BY <1>3, GoesOn DEF Ahead
<1> QED
  BY <1>1, <1>2, <1>3 DEF Forth, Ended

LEMMA AnswersForward ==
  ASSUME NEW r \in Rows, NEW x \in Rows, Known(r), Forward(r, x),
         NEW d, NEW g, RowAnswers(d, g, r)
  PROVE  RowAnswers(d, g, x)
<1>1. CASE SameStage(r, x)
  BY <1>1 DEF SameStage, RowAnswers, Holds, Stage
<1>2. CASE ~SameStage(r, x)
  <2>1. r.state \notin Ended /\ x.state # "absent"
    BY <1>2 DEF Forward
  <2>2. CASE x.state \in Final
    BY <2>1, <2>2 DEF RowAnswers, Holds, Final
  <2>3. CASE /\ x.gen = r.gen /\ Goes(Stage(r), Stage(x))
             /\ Stage(r) \in InCreate => Stage(x) # "rule_ready"
    <3>1. x.state = "service_reserved" => r.state = "service_reserved"
      BY <2>3 DEF Known, Stage, Goes, InService, InClear, InCreate, Awaiting, Verifying
    <3>2. Stage(r) \in InCreate \cup {"rule_confirmed"}
            => Stage(x) \in InCreate \cup {"rule_confirmed"}
      BY <2>3 DEF Goes, InService, InClear, InCreate, Awaiting
    <3> QED
      BY <2>1, <2>3, <3>1, <3>2 DEF RowAnswers, Holds, Ended
  <2> QED
    BY <1>2, <2>2, <2>3 DEF Forward
<1> QED
  BY <1>1, <1>2

\* A process that goes on with its copy is no new sender; one that takes a copy
\* of the row anew has sent nothing yet.
GoesOnWith(q, o, x) ==
  \/ pc'[q] = "idle"
  \/ /\ pc'[q] = "step" /\ at'[q] = o /\ cur'[q] = Copy(x)
     /\ x.state \notin Ended
  \/ /\ pc[q] # "idle" /\ at'[q] = at[q] /\ cur'[q] = cur[q]
     /\ pc'[q] = pc[q] \/ pc'[q] \notin {"idle", "post", "sent"}

LEMMA CopiesOn ==
  ASSUME TypeInv, CopiesFollow, NEW o \in OpIds, NEW x \in Rows,
         op' = [op EXCEPT ![o] = x], Forth(op[o], x), Known(x),
         \A q \in Procs : GoesOnWith(q, o, x)
  PROVE  CopiesFollow'
<1>1. ASSUME NEW y \in OpIds
      PROVE  op[y] \in Rows /\ op'[y] \in Rows /\ Forth(op[y], op'[y])
             /\ Known(op[y]) /\ Known(op'[y])
  BY DEF TypeInv, TypeOK, CopiesFollow, Forth, SameStage
<1>2. ASSUME NEW q \in Procs, pc'[q] # "idle"
      PROVE  /\ op'[at'[q]].state # "absent"
             /\ cur'[q].state \notin Ended /\ Known(cur'[q])
             /\ Ahead(cur'[q], op'[at'[q]])
  <2>1. CASE at'[q] = o /\ cur'[q] = Copy(x) /\ x.state \notin Ended
    <3>1. op'[o] = x
      BY DEF TypeInv, TypeOK
    <3>2. Copy(x).state = x.state /\ Copy(x).gen = x.gen /\ Copy(x).from = x.from
      BY DEF Copy, Rows
    <3> QED
      BY <2>1, <3>1, <3>2, GoesOn DEF Known, Ahead, Stage, Ended
  <2>2. CASE pc[q] # "idle" /\ at'[q] = at[q] /\ cur'[q] = cur[q]
    <3>1. at[q] \in OpIds /\ cur[q] \in Rows
      BY <2>2 DEF TypeInv, TypeOK, Working
    <3>2. op[at[q]].state # "absent" /\ cur[q].state \notin Ended
          /\ Known(cur[q]) /\ Ahead(cur[q], op[at[q]])
      BY <2>2 DEF CopiesFollow
    <3>3. op'[at[q]].state # "absent"
      BY <3>1, <3>2, <1>1 DEF Forth, SameStage
    <3> QED
      BY <2>2, <3>1, <3>2, <3>3, <1>1, AheadForth
  <2> QED
    BY <1>2, <2>1, <2>2 DEF GoesOnWith
<1> QED
  BY <1>1, <1>2 DEF CopiesFollow

\* Who is about to send after such a step was so before.
LEMMA SendersOn ==
  ASSUME NEW o, NEW x, NEW q \in Procs, GoesOnWith(q, o, x), (Sender(q))'
  PROVE  Sender(q) /\ pc'[q] = pc[q] /\ at'[q] = at[q] /\ cur'[q] = cur[q]
         /\ Sends(q)' = Sends(q)
BY DEF GoesOnWith, Sender, Sends, OrderOf

\* A step that takes row o forward and sends nothing.
LEMMA Onward ==
  ASSUME TypeInv, SendInv, NEW o \in OpIds, NEW x \in Rows,
         op' = [op EXCEPT ![o] = x], Forward(op[o], x), Known(x), orders' = orders,
         \A q \in Procs : GoesOnWith(q, o, x)
  PROVE  SendInv'
<1>1. ASSUME NEW y \in OpIds
      PROVE  op[y] \in Rows /\ op'[y] \in Rows /\ Forward(op[y], op'[y]) /\ Known(op[y])
  BY DEF TypeInv, TypeOK, SendInv, CopiesFollow, Forward, SameStage
<1>2. CopiesFollow'
  BY CopiesOn DEF Forward, Forth, SendInv
<1>3. ASSUME NEW q \in Procs, (Sender(q))'
      PROVE  Sender(q) /\ pc'[q] = pc[q] /\ at'[q] = at[q] /\ cur'[q] = cur[q]
             /\ Sends(q)' = Sends(q)
  BY <1>3, SendersOn
<1>4. OrdersAnswered'
  <2>1. ASSUME NEW m \in orders'
        PROVE  RowAnswers(m.do, m.gen, op'[m.op])
    BY <1>1, AnswersForward DEF SendInv, OrdersAnswered, TypeInv, TypeOK, Orders
  <2>2. ASSUME NEW q \in Procs, Sender(q)'
        PROVE  RowAnswers(Sends(q)', cur'[q].gen, op'[at'[q]])
    <3>1. at[q] \in OpIds
      BY <1>3, <2>2 DEF Sender, TypeInv, Working
    <3>2. RowAnswers(Sends(q), cur[q].gen, op[at[q]])
      BY <1>3, <2>2 DEF SendInv, OrdersAnswered
    <3> QED
      BY <1>1, <1>3, <2>2, <3>1, <3>2, AnswersForward
  <2> QED
    BY <2>1, <2>2 DEF OrdersAnswered
<1>5. OneSender'
  BY <1>3 DEF SendInv, OneSender
<1>6. NotYetSent'
  BY <1>3 DEF SendInv, NotYetSent, Sender
<1> QED
  BY <1>2, <1>4, <1>5, <1>6 DEF SendInv, SentOnce

\* The ends of a step start no sending.
LEMMA RestGoes ==
  ASSUME TypeInv, NEW p \in Procs, Rest(p), NEW o, NEW x
  PROVE  \A q \in Procs : GoesOnWith(q, o, x)
BY DEF Rest, GoesOnWith, TypeInv, TypeOK

LEMMA ResumeGoes ==
  ASSUME TypeInv, NEW p \in Procs, NEW x, x.state \notin Ended,
         Resume(p, "step", x)
  PROVE  \A q \in Procs : GoesOnWith(q, at[p], x)
BY DEF Resume, GoesOnWith, TypeInv, TypeOK

LEMMA ReturnGoes ==
  ASSUME TypeInv, NEW p \in Procs, NEW x, Return(p, x)
  PROVE  \A q \in Procs : GoesOnWith(q, at[p], x)
<1>1. CASE Rest(p)
  BY <1>1, RestGoes
<1>2. CASE Resume(p, "step", x) /\ x.state \in Verifying \cup {"rule_ready"}
  BY <1>2, ResumeGoes DEF Ended, Final, Verifying
<1> QED
  BY <1>1, <1>2 DEF Return

\* A compare-and-set, whether it finds the row as expected or not.
LEMMA TransitionOn ==
  ASSUME TypeInv, SendInv, NEW p \in Procs, pc[p] # "idle", NEW from, NEW r \in Rows,
         Transition(p, from, r), orders' = orders,
         /\ op[at[p]].state \in from /\ op[at[p]].gen = cur[p].gen
         => Forward(op[at[p]], r) /\ Known(r)
  PROVE  SendInv'
<1> DEFINE row == op[at[p]]
           x == Update(p, from, r)
<1>1. at[p] \in OpIds /\ row \in Rows /\ Known(row)
  BY DEF TypeInv, TypeOK, Working, SendInv, CopiesFollow
<1>2. x \in Rows /\ Forward(row, x) /\ Known(x)
  BY <1>1 DEF Update, Guard, Forward, SameStage
<1>3. op' = [op EXCEPT ![at[p]] = x] /\ Return(p, x)
  BY DEF Transition
<1>4. \A q \in Procs : GoesOnWith(q, at[p], x)
  BY <1>3, ReturnGoes
<1> QED
  BY <1>1, <1>2, <1>3, <1>4, Onward

\* A step that leaves the rows alone and no process with something to send.
LEMMA Aside ==
  ASSUME TypeInv, SendInv, NEW p \in Procs, pc[p] # "idle", UNCHANGED op, orders' = orders,
         \A q \in Procs : GoesOnWith(q, at[p], op[at[p]])
  PROVE  SendInv'
<1>1. at[p] \in OpIds /\ op[at[p]] \in Rows /\ Known(op[at[p]])
      /\ op' = [op EXCEPT ![at[p]] = op[at[p]]]
  BY DEF TypeInv, TypeOK, Working, SendInv, CopiesFollow
<1>2. Forward(op[at[p]], op[at[p]])
  BY DEF Forward, SameStage
<1> QED
  BY <1>1, <1>2, Onward

\* What a move of the row comes to.
LEMMA MoveForward ==
  ASSUME NEW r \in Rows, r.state \notin Ended, Known(r), NEW s \in States
  PROVE  /\ Move(r, s).state = s
         /\ s \notin Final => Move(r, s).gen = r.gen /\ Move(r, s).from = r.from
         /\ s \in Final => Forward(r, Move(r, s)) /\ Known(Move(r, s))
         /\ Forward(r, Drop(r)) /\ Known(Drop(r))
<1>1. Move(r, s) \in Rows /\ Move(r, s).state = s
  BY RowTypes
<1>2. s \notin Final => Move(r, s).gen = r.gen /\ Move(r, s).from = r.from
  BY DEF Move, Rows
<1>3. s \in Final => Forward(r, Move(r, s)) /\ Known(Move(r, s))
  BY <1>1 DEF Forward, Known, Final
<1>4. Forward(r, Drop(r)) /\ Known(Drop(r))
  BY DEF Forward, SameStage, Known, Drop, Rows
<1> QED
  BY <1>1, <1>2, <1>3, <1>4

\* The row, when the compare-and-set of a process finds it in one of its states.
LEMMA RowAhead ==
  ASSUME TypeInv, SendInv, NEW p \in Procs, pc[p] # "idle"
  PROVE  /\ at[p] \in OpIds /\ op[at[p]] \in Rows /\ cur[p] \in Rows
         /\ Known(op[at[p]]) /\ Known(cur[p])
         /\ op[at[p]].state # "absent" /\ cur[p].state \notin Ended
         /\ op[at[p]].gen = cur[p].gen /\ op[at[p]].state \notin Ended
            => Goes(Stage(cur[p]), Stage(op[at[p]]))
BY DEF TypeInv, TypeOK, Working, SendInv, CopiesFollow, Ahead, Ended, Rows

\* The check of an order ends in rule_ready, or is put off with its stage kept.
LEMMA CheckedForward ==
  ASSUME NEW r \in Rows, r.state \notin Ended, Known(r),
         NEW s \in States, s \notin Ended, NEW f \in States,
         NEW x, x.state = s, x.from = f, x.gen = r.gen,
         Goes(Stage(r), Stage(x)), Stage(r) \in InCreate => Stage(x) # "rule_ready",
         s = "unconfirmed" => f \in Awaiting \cup Verifying
  PROVE  Forward(r, x) /\ Known(x)
BY DEF Forward, Known, Ended

LEMMA FromEdit ==
  ASSUME NEW y \in Rows, NEW f \in States
  PROVE  /\ [y EXCEPT !.from = f] \in Rows /\ [y EXCEPT !.from = f].state = y.state
         /\ [y EXCEPT !.from = f].gen = y.gen /\ [y EXCEPT !.from = f].from = f
BY DEF Rows

LEMMA SendDecideService ==
  ASSUME TypeInv, SendInv, NEW p \in Procs, DecideService(p)
  PROVE  SendInv'
<1> DEFINE row == op[at[p]]
           ready == [Move(row, "rule_ready") EXCEPT !.from = "absent"]
           later == [Move(row, "unconfirmed") EXCEPT !.from = cur[p].state]
           Met(from) == row.state \in from /\ row.gen = cur[p].gen
<1>1. pc[p] # "idle" /\ Stage(cur[p]) \in Awaiting /\ orders' = orders
  BY DEF DecideService, remote
<1>2. /\ row \in Rows /\ cur[p] \in Rows /\ Known(row) /\ Known(cur[p])
      /\ row.gen = cur[p].gen /\ row.state \notin Ended => Goes(Stage(cur[p]), Stage(row))
      /\ row.state # "absent" /\ cur[p].state \notin Ended
  BY <1>1, RowAhead
<1>3. {"rule_ready", "unconfirmed", "failed", "absent"} \subseteq States /\ "failed" \in Final
      /\ "rule_ready" \notin Ended /\ "unconfirmed" \notin Ended
      /\ cur[p].state \in States
  BY <1>2 DEF States, Due, NotSent, Final, Ended, Rows
<1>4. ready \in Rows /\ later \in Rows /\ Drop(row) \in Rows /\ Move(row, "failed") \in Rows
  BY <1>2, <1>3, RowTypes, RowEdits
<1>5. /\ ready.state = "rule_ready" /\ ready.from = "absent"
      /\ later.state = "unconfirmed" /\ later.from = cur[p].state
      /\ row.state \notin Ended => ready.gen = row.gen /\ later.gen = row.gen
  <2>1. Move(row, "rule_ready") \in Rows /\ Move(row, "unconfirmed") \in Rows
    BY <1>2, <1>3, RowTypes
  <2> QED
    <3>1. /\ Move(row, "rule_ready").state = "rule_ready"
          /\ Move(row, "unconfirmed").state = "unconfirmed"
      BY <1>2, <1>3, RowTypes
    <3>2. row.state \notin Ended => /\ Move(row, "rule_ready").gen = row.gen
                                   /\ Move(row, "unconfirmed").gen = row.gen
      BY <1>2, <1>3, MoveForward DEF Ended
    <3>3. /\ ready.state = Move(row, "rule_ready").state
          /\ ready.gen = Move(row, "rule_ready").gen /\ ready.from = "absent"
      BY <2>1, <1>3, FromEdit
    <3>4. /\ later.state = Move(row, "unconfirmed").state
          /\ later.gen = Move(row, "unconfirmed").gen /\ later.from = cur[p].state
      BY <2>1, <1>3, FromEdit
    <3> QED
      BY <3>1, <3>2, <3>3, <3>4
<1>6. Met(Awaiting \cup {"unconfirmed"}) => Forward(row, ready) /\ Known(ready)
  <2> SUFFICES ASSUME Met(Awaiting \cup {"unconfirmed"})
               PROVE  Forward(row, ready) /\ Known(ready)
    OBVIOUS
  <2>1. row.state \notin Ended
    BY StageFacts DEF Ended, Awaiting, Final
  <2>2. Stage(row) \in Awaiting \cup Verifying
    BY <1>2 DEF Known, Stage
  <2>3. Stage(row) \in InService
    BY <1>1, <1>2, <2>1, <2>2
       DEF Goes, InService, InClear, InCreate, Awaiting, Verifying
  <2>4. Stage(ready) = "rule_ready"
    BY <1>5 DEF Stage
  <2>5. Goes(Stage(row), Stage(ready)) /\ Stage(row) \notin InCreate
    BY <2>3, <2>4 DEF Goes, InService, InCreate, Awaiting
  <2> QED
    BY <1>2, <1>3, <1>5, <2>1, <2>5, CheckedForward
<1>7. Met(Awaiting) /\ cur[p].state \in Awaiting => Forward(row, later) /\ Known(later)
  <2> SUFFICES ASSUME Met(Awaiting), cur[p].state \in Awaiting
               PROVE  Forward(row, later) /\ Known(later)
    OBVIOUS
  <2>1. row.state \notin Ended
    BY DEF Ended, Awaiting, Final
  <2>2. Stage(row) = row.state /\ Stage(later) = cur[p].state
    BY <1>5 DEF Stage, Awaiting
  <2>3. Goes(Stage(row), Stage(later)) /\ Stage(row) \notin InCreate
    BY <2>2 DEF Goes, InService, InCreate, Awaiting
  <2> QED
    BY <1>2, <1>3, <1>5, <2>1, <2>3, CheckedForward
<1>8. row.state \notin Ended => /\ Forward(row, Drop(row)) /\ Known(Drop(row))
                                /\ Forward(row, Move(row, "failed")) /\ Known(Move(row, "failed"))
  BY <1>2, <1>3, MoveForward
<1>9. /\ row.state \in Awaiting \cup {"unconfirmed"} => row.state \notin Ended
      /\ cur[p].state # "unconfirmed" => cur[p].state \in Awaiting
      /\ "service_accepted" \in Awaiting
  BY <1>1 DEF Awaiting, Ended, Final, Stage
<1>a. CASE Transition(p, Awaiting \cup {"unconfirmed"}, ready)
  BY <1>a, <1>1, <1>4, <1>6, TransitionOn
<1>b. CASE Transition(p, {"service_accepted"}, Move(row, "failed"))
  BY <1>b, <1>1, <1>4, <1>8, <1>9, TransitionOn
<1>c. CASE Transition(p, {"unconfirmed"}, Drop(row))
  BY <1>c, <1>1, <1>4, <1>8, <1>9, TransitionOn
<1>d. CASE /\ Transition(p, Awaiting, IF Overdue(row) THEN later ELSE Drop(row))
           /\ cur[p].state # "unconfirmed"
  <2>1. CASE Overdue(row)
    BY <1>d, <2>1, <1>1, <1>4, <1>7, <1>9, TransitionOn
  <2>2. CASE ~Overdue(row)
    BY <1>d, <2>2, <1>1, <1>4, <1>8, <1>9, TransitionOn
  <2> QED
    BY <2>1, <2>2
<1> QED
  BY <1>a, <1>b, <1>c, <1>d DEF DecideService

LEMMA ConfirmOn ==
  ASSUME TypeInv, SendInv, NEW p \in Procs, pc[p] # "idle", NEW from, Confirm(p, from),
         orders' = orders,
         op[at[p]].state \in from /\ op[at[p]].gen = cur[p].gen
         => op[at[p]].state \notin Ended /\ Goes(Stage(op[at[p]]), "rule_confirmed")
  PROVE  SendInv'
<1> DEFINE row == op[at[p]]
           x == [row EXCEPT !.state = "rule_confirmed", !.late = FALSE]
<1>1. at[p] \in OpIds /\ row \in Rows /\ Known(row)
  BY RowAhead
<1>2. x \in Rows /\ x.state = "rule_confirmed" /\ x.gen = row.gen /\ x.from = row.from
  <2>1. "rule_confirmed" \in States
    BY DEF States, Due
  <2> QED
    BY <1>1, <2>1 DEF Rows
<1>3. "rule_confirmed" \notin Ended
  BY DEF Ended, Final
<1>4. CASE /\ row.state \in from /\ Guard(p)
           /\ op' = [op EXCEPT ![at[p]] = x] /\ Resume(p, "step", x)
  <2>1. row.state \notin Ended /\ Goes(Stage(row), "rule_confirmed") /\ x.gen = row.gen
    BY <1>2, <1>4 DEF Guard
  <2>2. Stage(x) = "rule_confirmed" /\ Known(x)
    BY <1>2 DEF Stage, Known
  <2>3. Forward(row, x)
    BY <1>2, <1>3, <2>1, <2>2 DEF Forward, Ended
  <2>4. \A q \in Procs : GoesOnWith(q, at[p], x)
    BY <1>2, <1>3, <1>4, ResumeGoes
  <2> QED
    BY <1>1, <1>2, <1>4, <2>2, <2>3, <2>4, Onward
<1>5. CASE UNCHANGED op /\ Return(p, row)
  <2>1. \A q \in Procs : GoesOnWith(q, at[p], row)
    BY <1>5, ReturnGoes
  <2> QED
    BY <1>5, <2>1, Aside
<1> QED
  BY <1>4, <1>5 DEF Confirm

LEMMA PostponeOn ==
  ASSUME TypeInv, SendInv, NEW p \in Procs, pc[p] # "idle", Stage(cur[p]) \in Verifying,
         Postpone(p, Stage(cur[p])), orders' = orders
  PROVE  SendInv'
<1> DEFINE row == op[at[p]]
           s == Stage(cur[p])
           put == [Move(row, "unconfirmed") EXCEPT !.from = s]
           later == IF cur[p].state # "unconfirmed" /\ Overdue(row) THEN put ELSE Drop(row)
           x == Update(p, {cur[p].state}, later)
<1>1. at[p] \in OpIds /\ row \in Rows /\ cur[p] \in Rows /\ Known(row)
  BY RowAhead
<1>2. s \in States /\ "unconfirmed" \in States /\ "unconfirmed" \notin Ended
      /\ s \in InClear \cup InCreate /\ s # "rule_ready"
  BY DEF States, Due, Verifying, Ended, Final, InClear, InCreate
<1>3. cur[p].state \in Verifying \cup {"unconfirmed"} /\ cur[p].state \notin Ended
  BY DEF Stage, Verifying, Ended, Final
<1>4. put \in Rows /\ Drop(row) \in Rows
  BY <1>1, <1>2, RowTypes, RowEdits
<1>5. row.state = cur[p].state /\ row.state # "unconfirmed" => Forward(row, put) /\ Known(put)
  <2> SUFFICES ASSUME row.state = cur[p].state, row.state # "unconfirmed"
               PROVE  Forward(row, put) /\ Known(put)
    OBVIOUS
  <2>1. Move(row, "unconfirmed") \in Rows /\ Move(row, "unconfirmed").state = "unconfirmed"
        /\ Move(row, "unconfirmed").gen = row.gen
    BY <1>1, <1>2, <1>3, RowTypes, MoveForward DEF Ended
  <2>2. put.state = "unconfirmed" /\ put.gen = row.gen /\ put.from = s
    BY <1>2, <2>1, FromEdit
  <2>3. Stage(put) = s /\ Stage(row) = s /\ Goes(s, s)
    BY <2>2, GoesOn DEF Stage
  <2> QED
    BY <1>1, <1>2, <1>3, <2>2, <2>3, CheckedForward
<1>6. row.state = cur[p].state => Forward(row, Drop(row)) /\ Known(Drop(row))
  BY <1>1, <1>2, <1>3, MoveForward
<1>7. x \in Rows /\ Forward(row, x) /\ Known(x)
  <2>1. later \in Rows /\ (row.state = cur[p].state => Forward(row, later) /\ Known(later))
    BY <1>4, <1>5, <1>6
  <2> HIDE DEF later
  <2> QED
    BY <1>1, <2>1 DEF Update, Forward, SameStage
<1>8. op' = [op EXCEPT ![at[p]] = x] /\ Rest(p)
  BY DEF Postpone
<1>9. \A q \in Procs : GoesOnWith(q, at[p], x)
  BY <1>8, RestGoes
<1> QED
  BY <1>1, <1>7, <1>8, <1>9, Onward

LEMMA SendDecideVerified ==
  ASSUME TypeInv, SendInv, NEW p \in Procs, DecideVerified(p)
  PROVE  SendInv'
<1> DEFINE row == op[at[p]]
           s == Stage(cur[p])
           x == [Move(row, "rule_ready") EXCEPT !.action = None, !.attempts = 0,
                                                !.from = "absent"]
<1>1. pc[p] # "idle" /\ s \in Verifying /\ orders' = orders
  BY DEF DecideVerified, remote
<1>2. /\ row \in Rows /\ cur[p] \in Rows /\ Known(row) /\ Known(cur[p])
      /\ row.gen = cur[p].gen /\ row.state \notin Ended => Goes(s, Stage(row))
  BY <1>1, RowAhead
<1>3. ASSUME NEW v \in Verifying, s = v, row.state \in {v, "unconfirmed"},
             row.gen = cur[p].gen
      PROVE  /\ row.state \notin Ended
             /\ v = "rule_verifying" => Stage(row) \in InCreate
             /\ v = "rule_clear_verifying" => Stage(row) \in InClear
  <2>1. row.state \notin Ended
    BY <1>3 DEF Ended, Final, Verifying
  <2>2. Stage(row) \in Awaiting \cup Verifying
    BY <1>2, <1>3 DEF Known, Stage
  <2> QED
    BY <1>2, <1>3, <2>1, <2>2
       DEF Goes, InService, InClear, InCreate, Awaiting, Verifying
<1>4. CASE s = "rule_verifying" /\ Confirm(p, {"rule_verifying", "unconfirmed"})
  <2>1. row.state \in {"rule_verifying", "unconfirmed"} /\ row.gen = cur[p].gen
        => row.state \notin Ended /\ Goes(Stage(row), "rule_confirmed")
    BY <1>1, <1>3, <1>4 DEF Goes
  <2> QED
    BY <1>1, <1>4, <2>1, ConfirmOn
<1>5. CASE /\ s = "rule_clear_verifying"
           /\ Transition(p, {"rule_clear_verifying", "unconfirmed"}, x)
  <2>1. "rule_ready" \in States /\ "absent" \in States /\ "rule_ready" \notin Ended
    BY DEF States, Due, NotSent, Ended, Final
  <2>2. Move(row, "rule_ready") \in Rows /\ Move(row, "rule_ready").state = "rule_ready"
    BY <1>2, <2>1, RowTypes
  <2>3. \A y \in Rows :
          LET z == [y EXCEPT !.action = None, !.attempts = 0, !.from = "absent"]
          IN  z \in Rows /\ z.state = y.state /\ z.gen = y.gen /\ z.from = "absent"
    BY <2>1 DEF Rows
  <2>4. x \in Rows /\ x.state = "rule_ready" /\ x.from = "absent"
        /\ x.gen = Move(row, "rule_ready").gen
    BY <2>2, <2>3
  <2>5. row.state \in {"rule_clear_verifying", "unconfirmed"} /\ row.gen = cur[p].gen
        => Forward(row, x) /\ Known(x)
    <3> SUFFICES ASSUME row.state \in {"rule_clear_verifying", "unconfirmed"},
                        row.gen = cur[p].gen
                 PROVE  Forward(row, x) /\ Known(x)
      OBVIOUS
    <3>1. row.state \notin Ended /\ Stage(row) \in InClear
      BY <1>1, <1>3, <1>5
    <3>2. x.gen = row.gen
      BY <1>2, <2>1, <2>4, <3>1, MoveForward DEF Ended
    <3>3. Goes(Stage(row), Stage(x)) /\ Stage(row) \notin InCreate
      BY <2>4, <3>1 DEF Goes, Stage, InClear, InCreate
    <3> HIDE DEF x
    <3> QED
      BY <1>2, <2>1, <2>4, <3>1, <3>2, <3>3, CheckedForward
  <2> HIDE DEF x
  <2> QED
    BY <1>1, <1>5, <2>4, <2>5, TransitionOn
<1>6. CASE Postpone(p, s)
  BY <1>1, <1>6, PostponeOn
<1> QED
  BY <1>4, <1>5, <1>6 DEF DecideVerified

\* A process that goes on to its next step with the copy it has.
LEMMA NextGoes ==
  ASSUME TypeInv, NEW p \in Procs, pc[p] # "idle",
         NEW k \in {"decide", "quota", "claim"},
         pc' = [pc EXCEPT ![p] = k], UNCHANGED <<at, cur>>, NEW o, NEW x
  PROVE  \A q \in Procs : GoesOnWith(q, o, x)
BY DEF GoesOnWith, TypeInv, TypeOK

LEMMA SendReads ==
  ASSUME TypeInv, SendInv, NEW p \in Procs,
         ReadRules(p) \/ ReadServices(p) \/ StartService(p)
  PROVE  SendInv'
<1>1. PICK k \in {"decide", "quota", "claim"} : pc' = [pc EXCEPT ![p] = k]
  BY DEF ReadRules, ReadServices, StartService
<1>2. pc[p] # "idle" /\ UNCHANGED <<op, at, cur, orders>>
  BY DEF ReadRules, ReadServices, StartService, remote
<1> QED
  BY <1>1, <1>2, NextGoes, Aside

LEMMA SendDecideRule ==
  ASSUME TypeInv, SendInv, NEW p \in Procs, DecideRule(p)
  PROVE  SendInv'
<1> DEFINE row == op[at[p]]
<1>1. pc[p] # "idle" /\ orders' = orders
  BY DEF DecideRule, remote
<1>2. row \in Rows /\ Known(row) /\ "rule_ready" \notin Ended
      /\ "rule_ready" \in States
  BY <1>1, RowAhead DEF Ended, Final, States, Due, NotSent
<1>3. CASE Transition(p, {"rule_ready"}, Drop(row))
  <2>1. row.state = "rule_ready" => Forward(row, Drop(row)) /\ Known(Drop(row))
    BY <1>2, MoveForward
  <2> QED
    BY <1>1, <1>2, <1>3, <2>1, RowTypes, TransitionOn
<1>4. CASE Confirm(p, {"rule_ready"})
  <2>1. row.state = "rule_ready" => Goes(Stage(row), "rule_confirmed")
    BY DEF Stage, Goes
  <2> QED
    BY <1>1, <1>2, <1>4, <2>1, ConfirmOn
<1>5. CASE pc' = [pc EXCEPT ![p] = "quota"] /\ UNCHANGED <<op, at, cur>>
  BY <1>1, <1>5, NextGoes, Aside
<1> QED
  BY <1>3, <1>4, <1>5 DEF DecideRule

\* Steps that end the row, or leave it where it is.
LEMMA EndOn ==
  ASSUME TypeInv, SendInv, NEW p \in Procs, pc[p] # "idle", NEW from, NEW r,
         from \cap Ended = {}, orders' = orders,
         r = Drop(op[at[p]]) \/ \E s \in Final : r = Move(op[at[p]], s),
         Transition(p, from, r)
  PROVE  SendInv'
<1> DEFINE row == op[at[p]]
<1>1. row \in Rows /\ Known(row) /\ Final \subseteq States
  BY RowAhead, StateSets
<1>2. r \in Rows
  BY <1>1, RowTypes
<1>3. row.state \in from => Forward(row, r) /\ Known(r)
  <2> SUFFICES ASSUME row.state \in from PROVE Forward(row, r) /\ Known(r)
    OBVIOUS
  <2>1. row.state \notin Ended
    OBVIOUS
  <2>2. CASE r = Drop(row)
    <3>1. "done" \in States
      BY <1>1 DEF Final
    <3> QED
      BY <1>1, <2>1, <2>2, <3>1, MoveForward
  <2>3. CASE \E s \in Final : r = Move(row, s)
    BY <1>1, <2>1, <2>3, MoveForward
  <2> QED
    BY <2>2, <2>3
<1> QED
  BY <1>2, <1>3, TransitionOn

LEMMA SendEnsureQuota ==
  ASSUME TypeInv, SendInv, NEW p \in Procs, EnsureQuota(p)
  PROVE  SendInv'
<1> DEFINE row == op[at[p]]
<1>1. pc[p] = "quota" /\ cur[p].state \in NotSent /\ orders' = orders
  BY DEF EnsureQuota, remote, TypeInv, Working
<1>2. at[p] \in OpIds /\ row \in Rows /\ Known(row)
  BY <1>1, RowAhead
<1>3. CASE Transition(p, {cur[p].state}, Move(row, "cancelled"))
  <2>1. "cancelled" \in Final /\ {cur[p].state} \cap Ended = {}
    BY <1>1 DEF Final, Ended, NotSent
  <2> HIDE DEF row
  <2> QED
    BY <1>1, <1>3, <2>1, EndOn DEF row
<1>4. ASSUME NEW b \in BOOLEAN, op' = [op EXCEPT ![at[p]].counted = b],
             pc' = [pc EXCEPT ![p] = "claim"], UNCHANGED <<at, cur>>
      PROVE  SendInv'
  <2> DEFINE x == [row EXCEPT !.counted = b]
  <2>1. op' = [op EXCEPT ![at[p]] = x]
    BY <1>2, <1>4 DEF TypeInv, TypeOK
  <2>2. x \in Rows /\ SameStage(row, x)
    BY <1>2 DEF SameStage, Rows
  <2>3. Forward(row, x) /\ Known(x)
    BY <1>2, <2>2 DEF Forward, Known, SameStage
  <2> HIDE DEF x
  <2> QED
    BY <1>1, <1>2, <1>4, <2>1, <2>2, <2>3, NextGoes, Onward
<1>5. row.counted \in BOOLEAN /\ cur[p].counted \in BOOLEAN
  BY <1>1, RowAhead DEF Rows
<1> QED
  BY <1>3, <1>4, <1>5 DEF EnsureQuota

LEMMA SendAnswered ==
  ASSUME TypeInv, SendInv, NEW p \in Procs, Accepted(p) \/ Unanswered(p)
  PROVE  SendInv'
<1> DEFINE row == op[at[p]]
           s == cur[p].state
<1>1. pc[p] = "sent" /\ s \in Sending /\ orders' = orders
  BY DEF Accepted, Unanswered, remote, TypeInv, Working
<1>2. at[p] \in OpIds /\ row \in Rows /\ Known(row)
  BY <1>1, RowAhead
<1>3. PICK next \in States :
        /\ Transition(p, {s}, Move(row, next))
        /\ next \notin Ended /\ next # "unconfirmed"
        /\ \E G \in {InService, InClear, InCreate} : s \in G /\ next \in G
  <2>1. PICK next : /\ Transition(p, {s}, Move(row, next))
                    /\ \/ next = Unknown(s)
                       \/ (s = "service_sending" /\ next = "service_accepted")
    BY DEF Accepted, Unanswered
  <2>2. next \in States /\ next \notin Ended /\ next # "unconfirmed"
        /\ \E G \in {InService, InClear, InCreate} : s \in G /\ next \in G
    BY <1>1, <2>1 DEF Sending, Unknown, States, Due, Awaiting, Verifying, Ended, Final,
                      InService, InClear, InCreate
  <2> QED
    BY <2>1, <2>2
<1>4. Move(row, next) \in Rows
  BY <1>2, <1>3, RowTypes
<1>5. row.state = s => Forward(row, Move(row, next)) /\ Known(Move(row, next))
  <2> DEFINE x == Move(row, next)
  <2> SUFFICES ASSUME row.state = s PROVE Forward(row, x) /\ Known(x)
    OBVIOUS
  <2>1. row.state \notin Ended /\ row.state # "unconfirmed"
    BY <1>1 DEF Sending, Ended, Final
  <2>2. x.state = next /\ x.gen = row.gen /\ x.from = row.from
    BY <1>2, <1>3, <2>1, MoveForward DEF Ended
  <2>3. Stage(row) = s /\ Stage(x) = next
    BY <1>3, <2>1, <2>2 DEF Stage
  <2>4. Goes(s, next) /\ next # "rule_ready"
    BY <1>3 DEF Goes, InService, InClear, InCreate, Awaiting
  <2>5. row.from \in States
    BY <1>2 DEF Rows
  <2> HIDE DEF x
  <2> QED
    BY <1>2, <1>3, <2>1, <2>2, <2>3, <2>4, <2>5, CheckedForward
<1> QED
  BY <1>1, <1>3, <1>4, <1>5, TransitionOn

LEMMA SendFinish ==
  ASSUME TypeInv, SendInv, NEW p \in Procs,
         Finalize(p) \/ CancelRebound(p) \/ Expire(p)
  PROVE  SendInv'
<1> DEFINE row == op[at[p]]
<1>1. PICK from, r : /\ Transition(p, from, r) /\ from \cap Ended = {}
                     /\ r = Drop(row) \/ \E s \in Final : r = Move(row, s)
  BY DEF Finalize, CancelRebound, Expire, Ended, Final, NotSent
<1>2. pc[p] # "idle" /\ orders' = orders
  BY DEF Finalize, CancelRebound, Expire, remote
<1> QED
  BY <1>1, <1>2, EndOn

LEMMA SendAbort ==
  ASSUME TypeInv, SendInv, NEW p \in Procs, Abort(p)
  PROVE  SendInv'
<1>1. pc[p] # "idle" /\ UNCHANGED <<op, orders>> /\ Rest(p)
  BY DEF Abort, remote
<1>2. \A q \in Procs : GoesOnWith(q, at[p], op[at[p]])
  BY <1>1, RestGoes
<1> QED
  BY <1>1, <1>2, Aside

\* Of a row that may be claimed no order is in doubt that the claim would repeat.
LEMMA NothingPrior ==
  ASSUME NEW r \in Rows, r.state \in NotSent, NEW d, NEW g, RowAnswers(d, g, r)
  PROVE  d # "create" /\ (r.state = "service_reserved" => d # "service")
BY DEF RowAnswers, Holds, Stage, NotSent, Final, InCreate

\* What a process sends follows from its copy.
LEMMA SendsWhat ==
  ASSUME NEW p
  PROVE  /\ cur[p].state = "service_sending" <=> Sends(p) = "service"
         /\ cur[p].state = "rule_clear_sending" <=> Sends(p) = "delete"
         /\ cur[p].state \notin {"service_sending", "rule_clear_sending"}
            <=> Sends(p) = "create"
         /\ OrderOf(p).op = at[p] /\ OrderOf(p).gen = cur[p].gen
         /\ OrderOf(p).open = TRUE
BY DEF Sends, OrderOf

LEMMA SendClaims ==
  ASSUME TypeInv, SendInv, NEW p \in Procs, pc[p] = "claim", NEW row \in Rows,
         row.state \in Sending, row.gen = op[at[p]].gen + 1,
         op[at[p]].state \in NotSent,
         row.state = "service_sending" => op[at[p]].state = "service_reserved",
         op' = [op EXCEPT ![at[p]] = row], Resume(p, "post", row), orders' = orders
  PROVE  SendInv'
<1> DEFINE o == at[p]
           r == op[at[p]]
<1>1. o \in OpIds /\ r \in Rows /\ Known(r)
  BY RowAhead
<1>2. op'[o] = row /\ \A y \in OpIds \ {o} : op'[y] = op[y]
  BY <1>1 DEF TypeInv, TypeOK
<1>3. /\ pc'[p] = "post" /\ at'[p] = o /\ cur'[p] = Copy(row)
      /\ \A q \in Procs \ {p} : pc'[q] = pc[q] /\ at'[q] = at[q] /\ cur'[q] = cur[q]
  BY DEF Resume, TypeInv, TypeOK
<1>4. Copy(row).state = row.state /\ Copy(row).gen = row.gen /\ Copy(row).from = row.from
  BY DEF Copy, Rows
<1>5. /\ row.state \notin Ended /\ row.state # "unconfirmed"
      /\ row.state # "service_reserved" /\ r.state \notin Final
  BY DEF Sending, Ended, Final, NotSent
<1>6. CopiesFollow'
  <2>1. ASSUME NEW y \in OpIds PROVE Known(op'[y])
    BY <1>2, <1>5 DEF Known, SendInv, CopiesFollow
  <2>2. /\ op'[at'[p]].state # "absent" /\ cur'[p].state \notin Ended /\ Known(cur'[p])
        /\ Ahead(cur'[p], op'[at'[p]])
    BY <1>2, <1>3, <1>4, <1>5, GoesOn DEF Ahead, Known, Ended, Stage
  <2>3. ASSUME NEW q \in Procs \ {p}, pc[q] # "idle"
        PROVE  /\ op'[at[q]].state # "absent" /\ cur[q].state \notin Ended /\ Known(cur[q])
               /\ Ahead(cur[q], op'[at[q]])
    <3>1. /\ at[q] \in OpIds /\ cur[q] \in Rows /\ op[at[q]].state # "absent"
          /\ cur[q].state \notin Ended /\ Known(cur[q]) /\ Ahead(cur[q], op[at[q]])
      BY <2>3, RowAhead DEF SendInv, CopiesFollow
    <3>2. CASE at[q] = o
      <4>1. cur[q].gen \in Nat /\ r.gen \in Nat
        BY <1>1, <3>1 DEF Rows
      <4>2. cur[q].gen < row.gen
        BY <1>5, <3>1, <3>2, <4>1 DEF Ahead
      <4> QED
        BY <1>2, <1>5, <3>1, <3>2, <4>2 DEF Ahead, Ended
    <3>3. CASE at[q] # o
      BY <1>2, <3>1, <3>3
    <3> QED
      BY <3>2, <3>3
  <2> QED
    BY <1>3, <2>1, <2>2, <2>3 DEF CopiesFollow
<1>7. /\ Sends(p)' = "service" => r.state = "service_reserved"
      /\ Sends(p)' \in {"service", "delete", "create"}
      /\ Sends(p)' = "create" => row.state = "rule_sending"
  BY <1>3, <1>4 DEF Sends, OrderOf, Sending
<1>8. ASSUME NEW q \in Procs \ {p}
      PROVE  /\ (Sender(q))' = Sender(q) /\ Sends(q)' = Sends(q)
             /\ at'[q] = at[q] /\ cur'[q] = cur[q] /\ pc'[q] = pc[q]
  BY <1>3 DEF Sender, Sends, OrderOf
<1>9. ASSUME NEW d, NEW g, NEW y \in OpIds, RowAnswers(d, g, op[y])
      PROVE  RowAnswers(d, g, op'[y]) /\ (y = o /\ d = Sends(p)' => d = "delete")
  <2>1. CASE y = o
    BY <1>1, <1>2, <1>5, <1>7, <1>9, <2>1, NothingPrior DEF RowAnswers, Ended
  <2>2. CASE y # o
    BY <1>2, <1>9, <2>2
  <2> QED
    BY <2>1, <2>2
<1>10. ASSUME NEW m \in orders
       PROVE  m.op \in OpIds /\ RowAnswers(m.do, m.gen, op[m.op])
  BY DEF TypeInv, TypeOK, Orders, SendInv, OrdersAnswered
<1>11. ASSUME NEW q \in Procs, Sender(q)
       PROVE  at[q] \in OpIds /\ RowAnswers(Sends(q), cur[q].gen, op[at[q]])
  BY <1>11 DEF Sender, TypeInv, Working, SendInv, OrdersAnswered
<1>12. OrdersAnswered'
  <2>1. RowAnswers(Sends(p)', cur'[p].gen, op'[at'[p]])
    BY <1>2, <1>3, <1>4, <1>5, <1>7 DEF RowAnswers, Holds, Stage, Ended, InCreate
  <2>2. ASSUME NEW q \in Procs \ {p}, Sender(q)
        PROVE  RowAnswers(Sends(q)', cur'[q].gen, op'[at'[q]])
    BY <1>8, <1>9, <1>11, <2>2
  <2>3. \A m \in orders : RowAnswers(m.do, m.gen, op'[m.op])
    BY <1>9, <1>10
  <2> QED
    BY <1>8, <2>1, <2>2, <2>3 DEF OrdersAnswered
<1>13. OneSender'
  <2>1. ASSUME NEW q \in Procs \ {p}, Sender(q), at[q] = o, Sends(q) = Sends(p)'
        PROVE  Sends(q) = "delete"
    BY <1>9, <1>11, <2>1
  <2> QED
    BY <1>3, <1>8, <2>1 DEF SendInv, OneSender
<1>14. NotYetSent'
  <2>1. ASSUME NEW m \in orders, m.op = o, m.do = Sends(p)' PROVE m.do = "delete"
    BY <1>9, <1>10, <2>1
  <2> QED
    BY <1>3, <1>8, <2>1 DEF SendInv, NotYetSent
<1> QED
  BY <1>6, <1>12, <1>13, <1>14 DEF SendInv, SentOnce

LEMMA SendClaimSend ==
  ASSUME TypeInv, TypeInv', SendInv, NEW p \in Procs, ClaimSend(p)
  PROVE  SendInv'
<1> DEFINE r == op[at[p]]
<1>1. pc[p] = "claim" /\ cur[p].state \in NotSent /\ orders' = orders
  BY DEF ClaimSend, remote, TypeInv, Working
<1>2. at[p] \in OpIds /\ r \in Rows
  BY <1>1, RowAhead
<1>3. CASE UNCHANGED op /\ Return(p, r)
  BY <1>1, <1>3, ReturnGoes, Aside
<1>4. CASE ~(UNCHANGED op /\ Return(p, r))
  <2> DEFINE claim(s, t) ==
               [r EXCEPT !.state = s, !.owner = p, !.live = TRUE, !.action = t,
                 !.late = FALSE, !.gen = @ + 1,
                 !.attempts = IF s = "service_sending" THEN @ ELSE @ + 1]
  <2>1. ASSUME NEW s, NEW t
        PROVE  claim(s, t).state = s /\ claim(s, t).gen = r.gen + 1
    BY <1>2 DEF Rows
  <2>2. PICK row : /\ op' = [op EXCEPT ![at[p]] = row] /\ Resume(p, "post", row)
                   /\ r.state = cur[p].state
                   /\ \/ (/\ cur[p].state = "service_reserved"
                          /\ row = claim("service_sending", None))
                      \/ row = claim("rule_sending", None)
                      \/ \E t \in Types : row = claim("rule_clear_sending", t)
    <3> DEFINE found == Conflicts(cur[p], seen[p].rules)
               S == IF cur[p].state = "service_reserved"
                    THEN {claim("service_sending", None)}
                    ELSE IF found = {} THEN {claim("rule_sending", None)}
                         ELSE {claim("rule_clear_sending", t) : t \in found}
    <3>1. r.state = cur[p].state /\ \E row \in S : op' = [op EXCEPT ![at[p]] = row]
                                                   /\ Resume(p, "post", row)
      BY <1>4 DEF ClaimSend
    <3>2. found \subseteq Types
      BY DEF Conflicts
    <3> HIDE DEF claim, found
    <3> QED
      BY <3>1, <3>2
  <2>3. row \in Rows
    BY <1>2, <2>2 DEF TypeInv, TypeOK
  <2>4. /\ row.state \in Sending /\ row.gen = r.gen + 1
        /\ row.state = "service_sending" => r.state = "service_reserved"
    <3> HIDE DEF claim
    <3> QED
      BY <2>1, <2>2 DEF Sending
  <2> QED
    BY <1>1, <2>2, <2>3, <2>4, SendClaims
<1> QED
  BY <1>3, <1>4

LEMMA SendPost ==
  ASSUME TypeInv, SendInv, NEW p \in Procs, Post(p)
  PROVE  SendInv'
<1>1. /\ pc[p] = "post" /\ pc' = [pc EXCEPT ![p] = "sent"]
      /\ orders' = orders \cup {OrderOf(p)} /\ UNCHANGED <<op, at, cur>>
  BY DEF Post
<1>2. at[p] \in OpIds
  BY <1>1, RowAhead
<1>3. \A q \in Procs : /\ (Sender(q))' = Sender(q) /\ Sends(q)' = Sends(q)
                       /\ pc'[q] = "post" => pc[q] = "post" /\ q # p
                       /\ pc'[q] = "idle" <=> pc[q] = "idle"
  BY <1>1 DEF Sender, Sends, OrderOf, TypeInv, TypeOK
<1>4. CopiesFollow'
  BY <1>1, <1>3 DEF SendInv, CopiesFollow
<1>5. OrdersAnswered'
  <2>1. RowAnswers(OrderOf(p).do, OrderOf(p).gen, op[OrderOf(p).op])
    BY <1>1, SendsWhat DEF SendInv, OrdersAnswered, Sender, Sends
  <2> QED
    BY <1>1, <1>3, <2>1 DEF SendInv, OrdersAnswered
<1>6. OneSender'
  BY <1>1, <1>3 DEF SendInv, OneSender
<1>7. NotYetSent'
  <2>1. ASSUME NEW q \in Procs, pc'[q] = "post", at[q] = at[p], Sends(q) = Sends(p)
        PROVE  Sends(p) = "delete"
    BY <1>1, <1>3, <2>1 DEF SendInv, OneSender, Sender
  <2>2. OrderOf(p).op = at[p] /\ OrderOf(p).do = Sends(p)
    BY SendsWhat DEF Sends
  <2> QED
    BY <1>1, <1>3, <2>1, <2>2 DEF SendInv, NotYetSent
<1>8. SentOnce'
  <2>1. OrderOf(p).op = at[p] /\ OrderOf(p).do = Sends(p)
    BY SendsWhat DEF Sends
  <2>2. ASSUME NEW m \in orders, m.op = OrderOf(p).op, m.do = OrderOf(p).do
        PROVE  m.do = "delete"
    BY <1>1, <2>1, <2>2 DEF SendInv, NotYetSent
  <2> QED
    BY <1>1, <2>2 DEF SendInv, SentOnce
<1> QED
  BY <1>4, <1>5, <1>6, <1>7, <1>8 DEF SendInv

\* A refusal takes the order away and may lead the row back to rule_ready: no
\* other order of the kind is left, and no other process is about to send one.
LEMMA SendRefused ==
  ASSUME TypeInv, TypeInv', SendInv, NEW p \in Procs, Refused(p)
  PROVE  SendInv'
<1> DEFINE o == at[p]
           row == op[o]
           s == cur[p].state
           x == op'[o]
<1>1. pc[p] = "sent" /\ OrderOf(p) \in orders /\ orders' = orders \ {OrderOf(p)}
  BY DEF Refused
<1>2. o \in OpIds /\ row \in Rows /\ Known(row) /\ cur[p] \in Rows /\ s \in Sending
      /\ row.state # "absent"
  BY <1>1, RowAhead DEF TypeInv, Working
<1>3. PICK next \in {"failed", "rule_ready"} :
        /\ Transition(p, {s}, Move(row, next))
        /\ s = "service_sending" => next = "failed"
  BY DEF Refused
<1>4. op' = [op EXCEPT ![o] = x] /\ Return(p, x)
      /\ x = Update(p, {s}, Move(row, next))
  BY <1>2, <1>3 DEF Transition, TypeInv, TypeOK
<1>5. \A q \in Procs : GoesOnWith(q, o, x)
  BY <1>4, ReturnGoes
<1>6. x \in Rows /\ x.state # "absent" /\ Known(x)
      /\ \/ x = row
         \/ /\ row.state = s /\ x.state = next
            /\ x.gen = row.gen \/ x.state \in Final
  <2>1. CASE x = row
    BY <1>2, <2>1
  <2>2. CASE x = Move(row, next) /\ row.state = s
    <3>1. next \in States /\ row.state \notin Ended /\ next # "absent" /\ next # "unconfirmed"
          /\ (next = "failed" => next \in Final) /\ "rule_ready" \notin Final
      BY <1>2, <2>2 DEF States, Due, NotSent, Final, Sending, Ended
    <3>2. x \in Rows /\ x.state = next /\ (next \notin Final => x.gen = row.gen)
      BY <1>2, <2>2, <3>1, RowTypes, MoveForward
    <3> QED
      BY <2>2, <3>1, <3>2 DEF Known
  <2> QED
    BY <1>4, <2>1, <2>2 DEF Update
<1>7. row.state = s => row.state \notin Ended /\ Stage(row) = s /\ Goes(s, "rule_ready")
  BY <1>2 DEF Sending, Ended, Final, Stage, Goes, InService, InClear, InCreate
<1>8. CopiesFollow'
  <2>1. Forth(row, x)
    BY <1>3, <1>6, <1>7 DEF Forth, SameStage, Stage, Ended, Final
  <2> QED
    BY <1>2, <1>4, <1>5, <1>6, <2>1, CopiesOn DEF SendInv
<1>9. ASSUME NEW q \in Procs, (Sender(q))'
      PROVE  q # p /\ Sender(q) /\ pc'[q] = pc[q] /\ at'[q] = at[q] /\ cur'[q] = cur[q]
             /\ Sends(q)' = Sends(q)
  <2>1. q # p
    BY <1>4, <1>9 DEF Return, Rest, Resume, Sender, TypeInv, TypeOK
  <2> QED
    BY <1>5, <1>9, <2>1, SendersOn
<1>10. ASSUME NEW d, NEW g, RowAnswers(d, g, row), d = "create" => s # "rule_sending"
       PROVE  RowAnswers(d, g, x)
  <2>1. CASE x = row
    BY <1>10, <2>1
  <2>2. CASE x.state \in Final
    BY <1>6, <2>2 DEF RowAnswers, Holds, Final
  <2>3. CASE row.state = s /\ x.state = "rule_ready"
    <3>1. s \notin InCreate \cup {"rule_confirmed"} \/ s = "rule_sending"
      BY <1>2 DEF Sending, InCreate
    <3>2. d # "create"
      BY <1>7, <1>10, <2>3, <3>1 DEF RowAnswers, Holds, Ended
    <3> QED
      BY <2>3, <3>2 DEF RowAnswers
  <2> QED
    BY <1>3, <1>6, <2>1, <2>2, <2>3 DEF Final
<1>11. /\ OrderOf(p).op = o /\ OrderOf(p).do = Sends(p)
       /\ s = "rule_sending" => Sends(p) = "create"
  BY SendsWhat DEF Sends
<1>12. OrdersAnswered'
  <2>1. ASSUME NEW m \in orders' PROVE RowAnswers(m.do, m.gen, op'[m.op])
    <3>1. m \in orders /\ m # OrderOf(p) /\ m.op \in OpIds /\ RowAnswers(m.do, m.gen, op[m.op])
      BY <1>1 DEF SendInv, OrdersAnswered, TypeInv, TypeOK, Orders
    <3>2. CASE m.op = o
      <4>1. m.do = "create" => s # "rule_sending"
        BY <1>1, <1>11, <3>1, <3>2 DEF SendInv, SentOnce
      <4> QED
        BY <1>10, <3>1, <3>2, <4>1
    <3>3. CASE m.op # o
      BY <1>2, <1>4, <3>1, <3>3 DEF TypeInv, TypeOK
    <3> QED
      BY <3>2, <3>3
  <2>2. ASSUME NEW q \in Procs, (Sender(q))'
        PROVE  RowAnswers(Sends(q)', cur'[q].gen, op'[at'[q]])
    <3>1. /\ q # p /\ Sender(q) /\ at'[q] = at[q] /\ cur'[q] = cur[q] /\ Sends(q)' = Sends(q)
          /\ at[q] \in OpIds /\ RowAnswers(Sends(q), cur[q].gen, op[at[q]])
      BY <1>9, <2>2 DEF Sender, SendInv, OrdersAnswered, TypeInv, Working
    <3>2. CASE at[q] = o
      <4>1. Sends(q) = "create" => s # "rule_sending"
        BY <1>1, <1>11, <3>1, <3>2 DEF SendInv, OneSender, Sender
      <4> QED
        BY <1>10, <3>1, <3>2, <4>1
    <3>3. CASE at[q] # o
      BY <1>2, <1>4, <3>1, <3>3 DEF TypeInv, TypeOK
    <3> QED
      BY <3>2, <3>3
  <2> QED
    BY <2>1, <2>2 DEF OrdersAnswered
<1>13. OneSender'
  BY <1>9 DEF SendInv, OneSender
<1>14. NotYetSent'
  BY <1>1, <1>9 DEF SendInv, NotYetSent, Sender
<1> QED
  BY <1>1, <1>8, <1>12, <1>13, <1>14 DEF SendInv, SentOnce

LEMMA SendProcess ==
  ASSUME TypeInv, TypeInv', SendInv, NEW p \in Procs, Step(p) \/ Abort(p)
  PROVE  SendInv'
BY SendReads, SendDecideService, SendDecideVerified, SendDecideRule, SendEnsureQuota,
   SendClaimSend, SendPost, SendAnswered, SendRefused, SendFinish, SendAbort DEF Step

\* A worker takes a row; time passes over a row.
LEMMA SendRows ==
  ASSUME TypeInv, SendInv, NEW o \in OpIds,
         \/ \E w \in Workers : ClaimDue(w, o)
         \/ RecoverStale(o) \/ LeaseEnds(o) \/ DeadlinePasses(o) \/ DayPasses(o)
  PROVE  SendInv'
<1>1. op[o] \in Rows /\ Known(op[o]) /\ orders' = orders
  BY DEF TypeInv, TypeOK, SendInv, CopiesFollow, remote, ClaimDue, RecoverStale,
         LeaseEnds, DeadlinePasses, DayPasses
<1>2. ASSUME NEW x \in Rows, SameStage(op[o], x) PROVE Forward(op[o], x) /\ Known(x)
  BY <1>1, <1>2 DEF Forward, Known, SameStage
<1>3. CASE \E w \in Workers : ClaimDue(w, o)
  <2>1. PICK w \in Workers : ClaimDue(w, o)
    BY <1>3
  <2> DEFINE x == [op[o] EXCEPT !.owner = w, !.live = TRUE]
  <2>2. w \in Procs
    BY DEF Procs
  <2>3. x \in Rows /\ SameStage(op[o], x)
    BY <1>1, <2>2 DEF SameStage, Rows
  <2>4. op' = [op EXCEPT ![o] = x] /\ cur' = [cur EXCEPT ![w] = Copy(x)]
        /\ pc' = [pc EXCEPT ![w] = "step"] /\ at' = [at EXCEPT ![w] = o]
    BY <2>1 DEF ClaimDue
  <2>5. x.state \notin Ended
    BY <2>1, <2>3 DEF ClaimDue, SameStage, Due, NotSent, Awaiting, Verifying, Ended, Final
  <2> HIDE DEF x
  <2>6. \A q \in Procs : GoesOnWith(q, o, x)
    BY <2>2, <2>4, <2>5 DEF GoesOnWith, TypeInv, TypeOK
  <2> QED
    BY <1>1, <1>2, <2>3, <2>4, <2>6, Onward
<1>4. CASE RecoverStale(o) \/ LeaseEnds(o) \/ DeadlinePasses(o) \/ DayPasses(o)
  <2>1. UNCHANGED <<pc, at, cur>>
    BY <1>4 DEF RecoverStale, LeaseEnds, DeadlinePasses, DayPasses
  <2>2. \A q \in Procs : \A x : GoesOnWith(q, o, x)
    BY <2>1 DEF GoesOnWith
  <2>3. PICK x \in Rows : op' = [op EXCEPT ![o] = x] /\ Forward(op[o], x) /\ Known(x)
    <3>1. CASE LeaseEnds(o) \/ DeadlinePasses(o) \/ DayPasses(o)
      <4>1. \/ op' = [op EXCEPT ![o] = [op[o] EXCEPT !.live = FALSE]]
            \/ op' = [op EXCEPT ![o] = [op[o] EXCEPT !.late = TRUE]]
            \/ op' = [op EXCEPT ![o] = [op[o] EXCEPT !.old = TRUE]]
        BY <3>1 DEF LeaseEnds, DeadlinePasses, DayPasses
      <4>2. \A x \in Rows : /\ SameStage(x, [x EXCEPT !.live = FALSE])
                            /\ SameStage(x, [x EXCEPT !.late = TRUE])
                            /\ SameStage(x, [x EXCEPT !.old = TRUE])
        BY DEF SameStage, Rows
      <4> QED
        BY <1>1, <1>2, <4>1, <4>2, RowEdits
    <3>2. CASE RecoverStale(o)
      <4> DEFINE s == op[o].state
                 x == Move(op[o], Unknown(s))
      <4>1. s \in Sending /\ op' = [op EXCEPT ![o] = x] /\ s \notin Ended /\ s # "unconfirmed"
        BY <3>2 DEF RecoverStale, Sending, Ended, Final
      <4>2. Unknown(s) \in States /\ Unknown(s) \notin Ended /\ Unknown(s) # "unconfirmed"
            /\ Goes(s, Unknown(s)) /\ Unknown(s) # "rule_ready"
        BY <4>1 DEF Sending, Unknown, States, Due, Awaiting, Verifying, Ended, Final,
                    Goes, InService, InClear, InCreate
      <4>3. x \in Rows /\ x.state = Unknown(s) /\ x.gen = op[o].gen /\ x.from = op[o].from
        BY <1>1, <4>1, <4>2, RowTypes, MoveForward DEF Ended
      <4>4. Stage(op[o]) = s /\ Stage(x) = Unknown(s) /\ op[o].from \in States
        BY <1>1, <4>1, <4>2, <4>3 DEF Stage, Rows
      <4> HIDE DEF x
      <4> QED
        BY <1>1, <4>1, <4>2, <4>3, <4>4, CheckedForward
    <3> QED
      BY <1>4, <3>1, <3>2
  <2> QED
    BY <1>1, <2>2, <2>3, Onward
<1> QED
  BY <1>3, <1>4

\* Nobody has a copy or an order of a row that is only now inserted.
LEMMA SendReserve ==
  ASSUME TypeInv, SendInv, NEW o \in OpIds, NEW t, NEW a, Reserve(o, t, a)
  PROVE  SendInv'
<1>1. op[o].state = "absent" /\ orders' = orders /\ o \in Procs
  BY DEF Reserve, NoRow, remote, Procs
<1>2. PICK r : /\ op' = [op EXCEPT ![o] = r] /\ pc' = [pc EXCEPT ![o] = "step"]
               /\ at' = [at EXCEPT ![o] = o] /\ cur' = [cur EXCEPT ![o] = Copy(r)]
               /\ r.state \in NotSent
               /\ Copy(r).state = r.state /\ Copy(r).gen = r.gen /\ Copy(r).from = r.from
  <2> DEFINE s == IF t = None \/ service THEN "rule_ready" ELSE "service_reserved"
             r == [NoRow EXCEPT !.state = s, !.type = t, !.addr = a]
  <2>1. r.state \in NotSent /\ Copy(r).state = r.state /\ Copy(r).gen = r.gen
        /\ Copy(r).from = r.from
    BY DEF NoRow, NotSent, Copy
  <2>2. /\ op' = [op EXCEPT ![o] = r] /\ pc' = [pc EXCEPT ![o] = "step"]
        /\ at' = [at EXCEPT ![o] = o] /\ cur' = [cur EXCEPT ![o] = Copy(r)]
    BY DEF Reserve
  <2> HIDE DEF r
  <2> QED
    BY <2>1, <2>2
<1>3. r.state \notin Ended /\ r.state # "unconfirmed"
  BY <1>2 DEF NotSent, Ended, Final
<1>4. ASSUME NEW q \in Procs, pc[q] # "idle" PROVE at[q] \in OpIds /\ at[q] # o
  BY <1>1, <1>4 DEF TypeInv, Working, SendInv, CopiesFollow
<1>5. /\ op'[o] = r /\ \A y \in OpIds \ {o} : op'[y] = op[y]
      /\ pc'[o] = "step" /\ at'[o] = o /\ cur'[o] = Copy(r)
      /\ \A q \in Procs \ {o} : pc'[q] = pc[q] /\ at'[q] = at[q] /\ cur'[q] = cur[q]
  BY <1>1, <1>2 DEF TypeInv, TypeOK
<1>6. CopiesFollow'
  <2>1. \A y \in OpIds : Known(op'[y])
    BY <1>3, <1>5 DEF Known, SendInv, CopiesFollow
  <2>2. op'[at'[o]].state # "absent" /\ cur'[o].state \notin Ended /\ Known(cur'[o])
        /\ Ahead(cur'[o], op'[at'[o]])
    BY <1>2, <1>3, <1>5, GoesOn DEF Ahead, Known, Stage, Ended
  <2>3. ASSUME NEW q \in Procs \ {o}, pc'[q] # "idle"
        PROVE  /\ op'[at'[q]].state # "absent" /\ cur'[q].state \notin Ended
               /\ Known(cur'[q]) /\ Ahead(cur'[q], op'[at'[q]])
    BY <1>4, <1>5, <2>3 DEF SendInv, CopiesFollow
  <2> QED
    BY <2>1, <2>2, <2>3 DEF CopiesFollow
<1>7. ASSUME NEW q \in Procs, (Sender(q))'
      PROVE  q # o /\ Sender(q) /\ pc'[q] = pc[q] /\ at'[q] = at[q] /\ cur'[q] = cur[q]
             /\ Sends(q)' = Sends(q)
  BY <1>5, <1>7 DEF Sender, Sends, OrderOf
<1>8. OrdersAnswered'
  <2>1. ASSUME NEW m \in orders PROVE m.op \in OpIds /\ m.op # o
    BY <1>1 DEF SendInv, OrdersAnswered, RowAnswers, TypeInv, TypeOK, Orders
  <2>2. ASSUME NEW q \in Procs, (Sender(q))' PROVE op'[at'[q]] = op[at[q]]
    BY <1>4, <1>5, <1>7, <2>2 DEF Sender
  <2> QED
    BY <1>1, <1>5, <1>7, <2>1, <2>2 DEF SendInv, OrdersAnswered
<1>9. OneSender' /\ NotYetSent' /\ SentOnce'
  BY <1>1, <1>7 DEF SendInv, OneSender, NotYetSent, SentOnce, Sender
<1> QED
  BY <1>6, <1>8, <1>9 DEF SendInv

\* The operator closes an order; nothing else of it changes.
LEMMA SendSettle ==
  ASSUME TypeInv, SendInv, NEW m \in Open, Settle(m)
  PROVE  SendInv'
<1> DEFINE closed == [m EXCEPT !.open = FALSE]
<1>1. m \in orders /\ m \in Orders /\ UNCHANGED <<op, pc, at, cur>>
      /\ orders' = (orders \ {m}) \cup {closed}
  BY DEF Settle, Open, TypeInv, TypeOK
<1>2. closed.op = m.op /\ closed.gen = m.gen /\ closed.do = m.do
  BY <1>1 DEF Orders
<1> HIDE DEF closed
<1>3. \A q : (Sender(q))' = Sender(q) /\ Sends(q)' = Sends(q)
  BY <1>1 DEF Sender, Sends, OrderOf
<1>4. CopiesFollow' /\ OneSender'
  BY <1>1, <1>3 DEF SendInv, CopiesFollow, OneSender
<1>5. OrdersAnswered' /\ NotYetSent'
  BY <1>1, <1>2, <1>3 DEF SendInv, OrdersAnswered, NotYetSent
<1>6. SentOnce'
  BY <1>1, <1>2 DEF SendInv, SentOnce
<1> QED
  BY <1>4, <1>5, <1>6 DEF SendInv

LEMMA SendInit == Init => SendInv
BY DEF Init, SendInv, CopiesFollow, OrdersAnswered, OneSender, NotYetSent, SentOnce,
       Known, NoRow, Sender

LEMMA SendStep == TypeInv /\ TypeInv' /\ SendInv /\ [Next]_vars => SendInv'
<1> SUFFICES ASSUME TypeInv, TypeInv', SendInv, [Next]_vars PROVE SendInv'
  OBVIOUS
<1>1. CASE \E o \in OpIds : AskSet(o) \/ AskRemove(o)
  BY <1>1, SendReserve DEF AskSet, AskRemove
<1>2. CASE \E p \in Procs : Step(p) \/ Abort(p)
  BY <1>2, SendProcess
<1>3. CASE \E o \in OpIds : \/ \E w \in Workers : ClaimDue(w, o)
                            \/ RecoverStale(o) \/ LeaseEnds(o)
                            \/ DeadlinePasses(o) \/ DayPasses(o)
  BY <1>3, SendRows
<1>4. CASE \E m \in Open : Settle(m)
  BY <1>4, SendSettle
<1>5. CASE UNCHANGED <<op, pc, at, cur, orders>>
  <2>1. \A q : (Sender(q))' = Sender(q) /\ Sends(q)' = Sends(q)
    BY <1>5 DEF Sender, Sends, OrderOf
  <2> QED
    BY <1>5, <2>1 DEF SendInv, CopiesFollow, OrdersAnswered, OneSender, NotYetSent, SentOnce
<1>6. CASE ChangeOutside \/ Rebind \/ HourPasses \/ UNCHANGED vars
  BY <1>5, <1>6 DEF ChangeOutside, Rebind, HourPasses, vars, remote
<1> QED
  BY <1>1, <1>2, <1>3, <1>4, <1>6 DEF Next

\* The service and the rule of an operation are ordered once, however many
\* workers there are, whatever they crash over or lose, and however slow they
\* are between claimSend and the answer (SlowReads may be TRUE).
THEOREM OrdersAreSentOnce == Spec => []SentOnce
<1>1. SendInv => SentOnce
  BY DEF SendInv
<1> QED
  BY <1>1, TypeInvariant, SendInit, SendStep, PTL DEF Spec
=============================================================================
