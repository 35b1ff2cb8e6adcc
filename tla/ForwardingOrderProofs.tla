------------------------- MODULE ForwardingOrderProofs -------------------------
(***************************************************************************)
(* What the orders of ForwardingOps come to, for any number of workers,    *)
(* operations, types and addresses, when nobody wins claimSend by rules    *)
(* read before the row's last order (~SlowReads): forwarding_stale_read    *)
(* shows that the code does not exclude it.                                *)
(*                                                                         *)
(* An order whose fate is open belongs to the generation its row is in,    *)
(* and has not taken effect.  A reading of the rules that shows the effect *)
(* therefore shows that the order is settled, and since only an open order *)
(* can change the rules (Quiet), what a process has read in the generation *)
(* of the row still holds when it decides.                                 *)
(***************************************************************************)
EXTENDS ForwardingOpsProofs, FiniteSetTheorems

-----------------------------------------------------------------------------
(***************************************************************************)
(* The inductive invariant.                                                *)
(***************************************************************************)
\* Orders that may yet take effect: open ones and those about to be posted.
Posting == {p \in Procs : pc[p] = "post"}
Pending == Open \cup {OrderOf(p) : p \in Posting}
Clear(o) == \A m \in Pending : m.op # o

\* Order m is the one that row r waits for, down to its particulars.
IsAt(m, r) ==
  /\ r.state \notin Ended /\ m.gen = r.gen
  /\ \/ m.do = "service" /\ Stage(r) \in InService /\ m.type = None /\ m.addr = None
     \/ m.do = "delete" /\ Stage(r) \in InClear /\ m.type = r.action /\ m.addr = None
     \/ m.do = "create" /\ Stage(r) \in InCreate /\ m.type = r.type /\ m.addr = r.addr

PendingAtRow == \A m \in Pending : IsAt(m, op[m.op])

\* It has not taken effect, and a rule is ordered only where it will work.
NoEffectYet ==
  \A m \in Pending :
    /\ m.do # "service" => m.type \in Types
    /\ m.do = "service" => ~service
    /\ m.do = "delete" => rules[m.type] # None
    /\ m.do = "create" => /\ service /\ rules[m.type] # m.addr
                          /\ \A t \in Types \ {m.type} : rules[t] = None

\* The partial unique index.
OneActive == \A x, y \in OpIds : Active(x) /\ Active(y) => x = y

\* The copy of p is of the generation the row is in.
Current(p) == cur[p].gen = op[at[p]].gen /\ op[at[p]].state \notin Ended

\* A copy asks for what the row asks for, and for the same removal.
CopiesAsk ==
  \A p \in Procs : pc[p] # "idle" =>
    /\ cur[p].type = op[at[p]].type /\ cur[p].addr = op[at[p]].addr
    /\ Current(p) /\ Stage(cur[p]) \in InClear /\ Stage(op[at[p]]) \in InClear
       => cur[p].action = op[at[p]].action

\* One order a generation.
GensApart ==
  /\ \A p, q \in Procs :
       Sender(p) /\ Sender(q) /\ at[p] = at[q] /\ cur[p].gen = cur[q].gen => p = q
  /\ \A p \in Posting, m \in orders : m.op = at[p] => m.gen # cur[p].gen
  /\ \A m \in orders : op[m.op].state \notin Final => m.gen <= op[m.op].gen

\* A service that was accepted is not about to be ordered.
AcceptedWasSent ==
  \A p \in Posting : Sends(p) = "service" =>
    /\ op[at[p]].state # "service_accepted"
    /\ \A q \in Procs : pc[q] # "idle" /\ at[q] = at[p]
                          => cur[q].state # "service_accepted"

\* The service is ordered before anything else.
ReservedIsFirst == \A o \in OpIds : op[o].state = "service_reserved" => op[o].gen = 0

\* The service is active once a row with a rule to set is past it.
ServiceFirst ==
  \A o \in OpIds :
    /\ op[o].state = "service_reserved" => ~service
    /\ /\ op[o].state \notin Ended \cup {"service_reserved"} /\ op[o].type # None
       /\ Stage(op[o]) \notin InService
       => service

\* What a process has read still tells.
Reads(p) == pc[p] = "decide" /\ seen[p].answer = "rules" /\ Current(p)

ReadingTells(p) ==
  /\ seen[p].answer = "active" => service
  /\ /\ pc[p] = "decide" /\ seen[p].answer = "faulted" /\ Current(p)
     => Clear(at[p])
  /\ Reads(p) /\ Stage(cur[p]) = "rule_verifying" /\ Reached(cur[p], seen[p].rules)
     => Clear(at[p]) /\ Reached(cur[p], rules)
  /\ /\ Reads(p) /\ Stage(cur[p]) = "rule_clear_verifying"
     /\ seen[p].rules[cur[p].action] = None
     => Clear(at[p])
  /\ /\ pc[p] \in {"decide", "quota", "claim"} /\ seen[p].answer = "rules"
     /\ cur[p].state = "rule_ready" /\ Current(p)
     => seen[p].rules = rules
  /\ pc[p] = "decide" /\ cur[p].state = "rule_ready"
     => seen[p].answer \in {"rules", "failed"}
  /\ pc[p] \in {"quota", "claim"} /\ cur[p].state = "rule_ready"
     => seen[p].answer = "rules" /\ ~Reached(cur[p], seen[p].rules)

ReadingsHold == \A p \in Procs : ReadingTells(p)

ConfirmedIsApplied ==
  \A o \in OpIds : op[o].state = "rule_confirmed" => Reached(op[o], rules)

\* The part that holds whatever happens past the operations, and the rest.
RowsInv ==
  OneActive /\ CopiesAsk /\ GensApart /\ AcceptedWasSent /\ ReservedIsFirst

RulesInv ==
  PendingAtRow /\ NoEffectYet /\ ServiceFirst /\ ReadingsHold /\ ConfirmedIsApplied

OrderInv == RowsInv /\ (Quiet => RulesInv)

-----------------------------------------------------------------------------
(***************************************************************************)
(* Stages and pending orders.                                              *)
(***************************************************************************)
LEMMA StageGroups ==
  /\ InService \cap InClear = {} /\ InService \cap InCreate = {} /\ InClear \cap InCreate = {}
  /\ {"rule_ready", "rule_confirmed", "service_reserved"} \cap
       (InService \cup InClear \cup InCreate) = {}
  /\ \A G \in {InService, InClear, InCreate} : \A s, t :
       /\ Goes(s, t) /\ t \in G => s \in G
       /\ Goes(s, t) /\ s \in G => t \in G \cup {"rule_ready", "rule_confirmed"}
  /\ \A t : Goes("rule_ready", t) => t \in {"rule_ready", "rule_confirmed"}
  /\ \A s : Goes(s, "service_reserved") => s = "service_reserved"
BY DEF InService, InClear, InCreate, Awaiting, Goes

LEMMA OrderOfType ==
  ASSUME TypeInv, NEW p \in Procs, pc[p] # "idle"
  PROVE  /\ OrderOf(p) \in Orders /\ OrderOf(p).open = TRUE /\ OrderOf(p).op = at[p]
         /\ OrderOf(p).gen = cur[p].gen /\ OrderOf(p).do = Sends(p)
<1>1. at[p] \in OpIds /\ cur[p] \in Rows
  BY DEF TypeInv, TypeOK, Working
<1>2. OrderOf(p) \in Orders
  BY <1>1 DEF OrderOf, Orders, Rows
<1> QED
  BY <1>2 DEF OrderOf, Sends

LEMMA PendingType ==
  ASSUME TypeInv
  PROVE  \A m \in Pending : m \in Orders /\ m.open = TRUE /\ m.op \in OpIds
<1>1. ASSUME NEW m \in Open PROVE m \in Orders /\ m.open = TRUE
  BY DEF Open, Orders, TypeInv, TypeOK
<1>2. ASSUME NEW p \in Posting PROVE OrderOf(p) \in Orders /\ OrderOf(p).open = TRUE
  BY OrderOfType DEF Posting
<1>3. \A m \in Orders : m.op \in OpIds
  BY DEF Orders
<1> QED
  BY <1>1, <1>2, <1>3 DEF Pending

\* The row tells everything about the order it waits for.
LEMMA RowTellsOrder ==
  ASSUME NEW r, NEW m \in Orders, NEW n \in Orders, IsAt(m, r), IsAt(n, r),
         m.op = n.op, m.open = n.open
  PROVE  m = n
BY StageGroups DEF IsAt, Orders

LEMMA OnePending ==
  ASSUME TypeInv, OneActive, PendingAtRow
  PROVE  \A m, n \in Pending : m = n
<1> SUFFICES ASSUME NEW m \in Pending, NEW n \in Pending PROVE m = n
  OBVIOUS
<1>1. /\ m \in Orders /\ n \in Orders /\ m.open = n.open /\ m.op \in OpIds /\ n.op \in OpIds
      /\ IsAt(m, op[m.op]) /\ IsAt(n, op[n.op])
  BY PendingType DEF PendingAtRow
<1>2. m.op = n.op
  BY <1>1 DEF IsAt, Ended, OneActive, Active
<1> QED
  BY <1>1, <1>2, RowTellsOrder

\* A row that waits for no order has none.
LEMMA NothingPending ==
  ASSUME PendingAtRow, NEW o,
         op[o].state \in Ended \/ Stage(op[o]) \notin InService \cup InClear \cup InCreate
  PROVE  Clear(o)
BY DEF PendingAtRow, IsAt, Clear

\* Who is at work on an operation that waits for nothing has read its rules
\* well; those of other operations have nothing at stake.
LEMMA ReachedSame ==
  ASSUME NEW r, NEW x, NEW rs, x.type = r.type, x.addr = r.addr
  PROVE  Reached(x, rs) <=> Reached(r, rs)
BY DEF Reached, Conflicts

LEMMA CopySame ==
  ASSUME NEW x \in Rows
  PROVE  /\ Copy(x).state = x.state /\ Copy(x).gen = x.gen /\ Copy(x).from = x.from
         /\ Copy(x).type = x.type /\ Copy(x).addr = x.addr /\ Copy(x).action = x.action
         /\ Stage(Copy(x)) = Stage(x) /\ Copy(x) \in Rows
BY DEF Copy, Rows, Stage

-----------------------------------------------------------------------------
(***************************************************************************)
(* Steps that send nothing.                                                *)
(***************************************************************************)
\* A process keeps what it has, or has done with it, or takes row x of o anew.
Keeps(q, o, x) ==
  /\ seen'[q] \in {seen[q], NoReading}
  /\ \/ pc'[q] = "idle"
     \/ pc'[q] = "step" /\ at'[q] = o /\ cur'[q] = Copy(x) /\ x.state \notin Ended
     \/ /\ pc[q] # "idle" /\ at'[q] = at[q] /\ cur'[q] = cur[q] /\ seen'[q] = seen[q]
        /\ pc'[q] = pc[q] \/ (pc[q] = "quota" /\ pc'[q] = "claim")

LEMMA KeepsGoes ==
  ASSUME NEW q, NEW o, NEW x, Keeps(q, o, x)
  PROVE  GoesOnWith(q, o, x)
BY DEF Keeps, GoesOnWith

\* What such a step does with a row.
Alike(r, x) ==
  /\ SameStage(r, x)
  /\ x.type = r.type /\ x.addr = r.addr /\ x.action = r.action

Moves(r, x) ==
  /\ r.state \notin Ended /\ x.state \notin Ended \cup {"service_reserved"}
  /\ x.gen = r.gen /\ Goes(Stage(r), Stage(x))
  /\ Stage(x) \in InClear => x.action = r.action
  /\ x.type = r.type /\ x.addr = r.addr

Stops(r, x) ==
  r.state \notin Ended /\ x.state \in Final /\ x.type = r.type /\ x.addr = r.addr

\* Nobody is about to order the service for operation o.
ServiceSent(o) == \A q \in Posting : at[q] = o => Sends(q) # "service"

StepOn(o, x) ==
  /\ op' = [op EXCEPT ![o] = x] /\ orders' \subseteq orders
  /\ \A q \in Procs : Keeps(q, o, x)
  /\ Alike(op[o], x) \/ Moves(op[o], x) \/ Stops(op[o], x)
  /\ x.state = "service_accepted" => op[o].state = "service_accepted" \/ ServiceSent(o)

\* Who is about to post was so before.
LEMMA PostingOn ==
  ASSUME NEW o, NEW x, StepOn(o, x)
  PROVE  /\ \A p \in Procs : (Sender(p))' =>
                /\ Sender(p) /\ pc'[p] = pc[p] /\ at'[p] = at[p] /\ cur'[p] = cur[p]
                /\ Sends(p)' = Sends(p) /\ OrderOf(p)' = OrderOf(p)
         /\ Posting' \subseteq Posting /\ Pending' \subseteq Pending
<1>1. ASSUME NEW p \in Procs, (Sender(p))'
      PROVE  /\ Sender(p) /\ pc'[p] = pc[p] /\ at'[p] = at[p] /\ cur'[p] = cur[p]
             /\ Sends(p)' = Sends(p) /\ OrderOf(p)' = OrderOf(p)
  <2>1. Sender(p) /\ pc'[p] = pc[p] /\ at'[p] = at[p] /\ cur'[p] = cur[p]
    BY <1>1 DEF StepOn, Keeps, Sender
  <2> QED
    BY <2>1 DEF Sends, OrderOf
<1>2. ASSUME NEW p \in Posting' PROVE p \in Posting /\ OrderOf(p)' = OrderOf(p)
  BY <1>1 DEF Posting, Sender
<1>3. Open' \subseteq Open
  BY DEF StepOn, Open
<1> QED
  BY <1>1, <1>2, <1>3 DEF Pending

\* The rows of the other operations, and what becomes of the row itself.
LEMMA RowOn ==
  ASSUME TypeInv, CopiesFollow, NEW o \in OpIds, NEW x \in Rows, StepOn(o, x)
  PROVE  /\ op'[o] = x /\ \A y \in OpIds \ {o} : op'[y] = op[y]
         /\ op[o] \in Rows /\ x.type = op[o].type /\ x.addr = op[o].addr
         /\ x.state \notin Ended =>
              /\ op[o].state \notin Ended /\ x.gen = op[o].gen
              /\ Goes(Stage(op[o]), Stage(x))
              /\ Stage(x) \in InClear => x.action = op[o].action
         /\ x.state \notin Final => op[o].state \notin Final /\ x.gen = op[o].gen
<1>1. Stage(x) = Stage(op[o]) \/ ~SameStage(op[o], x)
  BY DEF Stage, SameStage
<1> QED
  BY <1>1, GoesOn DEF StepOn, Alike, Moves, Stops, SameStage, Ended, TypeInv, TypeOK

LEMMA RowsOn ==
  ASSUME TypeInv, SendInv, RowsInv, NEW o \in OpIds, NEW x \in Rows, StepOn(o, x)
  PROVE  RowsInv'
<1>1. /\ op'[o] = x /\ \A y \in OpIds \ {o} : op'[y] = op[y]
      /\ op[o] \in Rows /\ x.type = op[o].type /\ x.addr = op[o].addr
      /\ x.state \notin Ended =>
           /\ op[o].state \notin Ended /\ x.gen = op[o].gen
           /\ Goes(Stage(op[o]), Stage(x))
           /\ Stage(x) \in InClear => x.action = op[o].action
      /\ x.state \notin Final => op[o].state \notin Final /\ x.gen = op[o].gen
  BY RowOn DEF SendInv
<1>2. OneActive'
  BY <1>1 DEF RowsInv, OneActive, Active, Ended
<1>3. CopiesAsk'
  <2>1. ASSUME NEW q \in Procs, pc'[q] # "idle"
        PROVE  /\ cur'[q].type = op'[at'[q]].type /\ cur'[q].addr = op'[at'[q]].addr
               /\ (Current(q))' /\ Stage(cur'[q]) \in InClear /\ Stage(op'[at'[q]]) \in InClear
                  => cur'[q].action = op'[at'[q]].action
    <3>1. CASE at'[q] = o /\ cur'[q] = Copy(x)
      BY <1>1, <3>1, CopySame
    <3>2. CASE pc[q] # "idle" /\ at'[q] = at[q] /\ cur'[q] = cur[q]
      <4>1. /\ cur[q].type = op[at[q]].type /\ cur[q].addr = op[at[q]].addr
            /\ Current(q) /\ Stage(cur[q]) \in InClear /\ Stage(op[at[q]]) \in InClear
               => cur[q].action = op[at[q]].action
        BY <3>2 DEF RowsInv, CopiesAsk
      <4>2. at[q] \in OpIds
        BY <3>2 DEF TypeInv, Working
      <4>3. CASE at[q] # o
        BY <1>1, <3>2, <4>1, <4>2, <4>3 DEF Current
      <4>4. CASE at[q] = o
        BY <1>1, <3>2, <4>1, <4>4, StageGroups DEF Current
      <4> QED
        BY <4>3, <4>4
    <3> QED
      BY <2>1, <3>1, <3>2 DEF StepOn, Keeps
  <2> QED
    BY <2>1 DEF CopiesAsk
<1>4. GensApart'
  <2>1. \A p \in Procs : (Sender(p))' => Sender(p) /\ at'[p] = at[p] /\ cur'[p] = cur[p]
    BY PostingOn
  <2>2. Posting' \subseteq Posting /\ orders' \subseteq orders
    BY PostingOn DEF StepOn
  <2>3. ASSUME NEW m \in orders', op'[m.op].state \notin Final PROVE m.gen <= op'[m.op].gen
    <3>1. m \in orders /\ m.op \in OpIds
      BY <2>2 DEF TypeInv, TypeOK, Orders
    <3> QED
      BY <1>1, <2>3, <3>1 DEF RowsInv, GensApart
  <2>4. \A p \in Posting' : at'[p] = at[p] /\ cur'[p] = cur[p]
    BY <2>1 DEF Posting, Sender
  <2> QED
    BY <2>1, <2>2, <2>3, <2>4 DEF RowsInv, GensApart
<1>5. AcceptedWasSent'
  <2>1. ASSUME NEW p \in Posting', Sends(p)' = "service"
        PROVE  /\ op'[at'[p]].state # "service_accepted"
               /\ \A q \in Procs : pc'[q] # "idle" /\ at'[q] = at'[p]
                                     => cur'[q].state # "service_accepted"
    <3>1. p \in Posting /\ at'[p] = at[p] /\ Sends(p) = "service" /\ at[p] \in OpIds
      BY <2>1, PostingOn DEF Posting, Sender, TypeInv, Working
    <3>2. /\ op[at[p]].state # "service_accepted"
          /\ \A q \in Procs : pc[q] # "idle" /\ at[q] = at[p]
                                => cur[q].state # "service_accepted"
      BY <3>1 DEF RowsInv, AcceptedWasSent
    <3>3. op'[at[p]].state # "service_accepted"
      BY <1>1, <3>1, <3>2 DEF StepOn, ServiceSent
    <3> QED
      BY <1>1, <3>1, <3>2, <3>3, CopySame DEF StepOn, Keeps
  <2> QED
    BY <2>1 DEF AcceptedWasSent
<1>6. ReservedIsFirst'
  BY <1>1 DEF RowsInv, ReservedIsFirst, StepOn, Alike, SameStage, Moves, Stops, Final
<1> QED
  BY <1>2, <1>3, <1>4, <1>5, <1>6 DEF RowsInv

LEMMA QuietBefore ==
  ASSUME TypeInv, NEW o \in OpIds, NEW x \in Rows, StepOn(o, x), UNCHANGED outside, Quiet'
  PROVE  Quiet
<1>1. op'[o] = x /\ \A y \in OpIds \ {o} : op'[y] = op[y]
  BY DEF StepOn, TypeInv, TypeOK
<1>2. op[o].state = "expired" => x.state = "expired"
  BY DEF StepOn, Alike, SameStage, Moves, Stops, Ended, Final
<1> QED
  BY <1>1, <1>2 DEF Quiet

\* A step by which a row leaves the order it waits for needs that order settled;
\* the other obligations are what confirmed rows and active services stand for.
LEMMA RulesOn ==
  ASSUME TypeInv, SendInv, RowsInv, RulesInv, NEW o \in OpIds, NEW x \in Rows,
         StepOn(o, x), Known(x), UNCHANGED <<service, rules>>,
         \/ Alike(op[o], x) \/ Clear(o) \/ Clear(o)'
         \/ x.state \notin Final /\ Stage(x) \in InService \cup InClear \cup InCreate,
         x.state = "rule_confirmed" => Reached(x, rules),
         x.state \notin Ended /\ Stage(op[o]) \in InService
           => Stage(x) \in InService \/ service
  PROVE  RulesInv'
<1>1. /\ op'[o] = x /\ \A y \in OpIds \ {o} : op'[y] = op[y]
      /\ op[o] \in Rows /\ x.type = op[o].type /\ x.addr = op[o].addr
      /\ x.state \notin Ended =>
           /\ op[o].state \notin Ended /\ x.gen = op[o].gen
           /\ Goes(Stage(op[o]), Stage(x))
           /\ Stage(x) \in InClear => x.action = op[o].action
  BY RowOn DEF SendInv
<1>2. Pending' \subseteq Pending /\ \A y : Clear(y) => Clear(y)'
  BY PostingOn DEF Clear
<1>3. PendingAtRow'
  <2>1. ASSUME NEW m \in Pending' PROVE IsAt(m, op'[m.op])
    <3>1. m \in Pending /\ IsAt(m, op[m.op]) /\ m.op \in OpIds
      BY <1>2, PendingType DEF RulesInv, PendingAtRow
    <3>2. CASE m.op # o
      BY <1>1, <3>1, <3>2
    <3>3. CASE m.op = o
      <4>1. ~Clear(o) /\ ~Clear(o)'
        BY <2>1, <3>1, <3>3 DEF Clear
      <4>2. CASE Alike(op[o], x)
        BY <1>1, <3>1, <3>3, <4>2 DEF IsAt, Alike, SameStage, Stage
      <4>3. CASE x.state \notin Final /\ ~Alike(op[o], x)
        <5>1. x.state \notin Ended /\ Stage(x) \in InService \cup InClear \cup InCreate
          BY <4>1, <4>3 DEF StepOn, Moves, Stops
        <5>2. \A G \in {InService, InClear, InCreate} : Stage(op[o]) \in G => Stage(x) \in G
          BY <1>1, <5>1, StageGroups
        <5>3. Stage(x) \in InClear => x.action = op[o].action
          BY <1>1, <5>1
        <5> QED
          BY <1>1, <3>1, <3>3, <5>1, <5>2, <5>3 DEF IsAt
      <4> QED
        BY <4>1, <4>2, <4>3
    <3> QED
      BY <3>2, <3>3
  <2> QED
    BY <2>1 DEF PendingAtRow
<1>4. NoEffectYet'
  BY <1>2 DEF RulesInv, NoEffectYet
<1>5. ServiceFirst'
  <2>1. x.state = "service_reserved" => op[o].state = "service_reserved"
    BY DEF StepOn, Alike, SameStage, Moves, Stops, Final
  <2>2. x.state \notin Ended \cup {"service_reserved"} => op[o].state # "service_reserved"
    <3>1. Stage(x) = "service_reserved" => x.state = "service_reserved"
      BY DEF Stage, Known, Awaiting, Verifying
    <3>2. op[o].state = "service_reserved" => Stage(op[o]) = "service_reserved"
      BY DEF Stage
    <3>3. Goes("service_reserved", Stage(x)) => Stage(x) = "service_reserved"
      BY DEF Goes, InService, InClear, InCreate, Awaiting
    <3> QED
      BY <1>1, <3>1, <3>2, <3>3
  <2>3. x.state \notin Ended \cup {"service_reserved"} /\ x.type # None
          /\ Stage(x) \notin InService => service
    BY <1>1, <2>2 DEF RulesInv, ServiceFirst
  <2> QED
    BY <1>1, <2>1, <2>3 DEF RulesInv, ServiceFirst
<1>6. ReadingsHold'
  <2> SUFFICES ASSUME NEW q \in Procs
      PROVE
        /\ seen'[q].answer = "active" => service
        /\ pc'[q] \in {"decide", "quota", "claim"} =>
             /\ pc'[q] = pc[q] \/ (pc[q] = "quota" /\ pc'[q] = "claim")
             /\ at'[q] = at[q] /\ cur'[q] = cur[q] /\ seen'[q] = seen[q]
             /\ (Current(q))' => Current(q)
    BY <1>2 DEF RulesInv, ReadingsHold, ReadingTells, Reads
  <2>1. seen'[q].answer = "active" => service
    BY DEF StepOn, Keeps, NoReading, Reading, RulesInv, ReadingsHold, ReadingTells
  <2>2. ASSUME pc'[q] \in {"decide", "quota", "claim"}
        PROVE  /\ pc'[q] = pc[q] \/ (pc[q] = "quota" /\ pc'[q] = "claim")
               /\ at'[q] = at[q] /\ cur'[q] = cur[q] /\ seen'[q] = seen[q] /\ pc[q] # "idle"
    BY <2>2 DEF StepOn, Keeps
  <2>3. ASSUME pc'[q] \in {"decide", "quota", "claim"}, (Current(q))' PROVE Current(q)
    <3>1. at[q] \in OpIds
      BY <2>2, <2>3 DEF TypeInv, Working
    <3> QED
      BY <1>1, <2>2, <2>3, <3>1 DEF Current
  <2> QED
    BY <2>1, <2>2, <2>3
<1>7. ConfirmedIsApplied'
  BY <1>1 DEF RulesInv, ConfirmedIsApplied
<1> QED
  BY <1>3, <1>4, <1>5, <1>6, <1>7 DEF RulesInv

\* All that such a step has to show of the row it writes.
Fits(o, x) ==
  /\ x \in Rows /\ Known(x)
  /\ Alike(op[o], x) \/ Moves(op[o], x) \/ Stops(op[o], x)
  /\ x.state = "service_accepted" => op[o].state = "service_accepted" \/ ServiceSent(o)
  /\ Quiet /\ RulesInv /\ x.state # "expired" =>
       /\ \/ Alike(op[o], x) \/ Clear(o)
          \/ x.state \notin Final /\ Stage(x) \in InService \cup InClear \cup InCreate
       /\ x.state = "rule_confirmed" => Reached(x, rules)
       /\ x.state \notin Ended /\ Stage(op[o]) \in InService
            => Stage(x) \in InService \/ service

LEMMA OrderOn ==
  ASSUME TypeInv, SendInv, OrderInv, NEW o \in OpIds, NEW x, Fits(o, x),
         op' = [op EXCEPT ![o] = x], UNCHANGED <<remote, outside>>,
         \A q \in Procs : Keeps(q, o, x)
  PROVE  OrderInv'
<1>1. StepOn(o, x) /\ UNCHANGED <<service, rules, outside>> /\ x \in Rows
  BY DEF StepOn, Fits, remote
<1>2. Quiet' => x.state # "expired"
  BY DEF Quiet, TypeInv, TypeOK
<1> QED
  BY <1>1, <1>2, RowsOn, RulesOn, QuietBefore DEF OrderInv, Fits

\* A row whose stage and request stay.
LEMMA FitsAlike ==
  ASSUME SendInv, NEW o \in OpIds, NEW x \in Rows, Alike(op[o], x)
  PROVE  Fits(o, x)
<1>1. Known(x) /\ Stage(x) = Stage(op[o])
  BY DEF SendInv, CopiesFollow, Known, Alike, SameStage, Stage
<1>2. RulesInv /\ x.state = "rule_confirmed" => Reached(x, rules)
  BY ReachedSame DEF RulesInv, ConfirmedIsApplied, Alike, SameStage
<1> QED
  BY <1>1, <1>2 DEF Fits, Alike, SameStage

\* A row that ends with its orders settled.
LEMMA FitsStop ==
  ASSUME NEW o \in OpIds, NEW x \in Rows, Stops(op[o], x),
         Quiet /\ RulesInv /\ x.state # "expired" => Clear(o)
  PROVE  Fits(o, x)
BY DEF Fits, Stops, Known, Final, Ended

LEMMA MoveKeeps ==
  ASSUME NEW r \in Rows, NEW s \in States
  PROVE  /\ Move(r, s) \in Rows /\ Move(r, s).state = s
         /\ Move(r, s).type = r.type /\ Move(r, s).addr = r.addr
         /\ s \notin Final => /\ Move(r, s).gen = r.gen /\ Move(r, s).from = r.from
                              /\ Move(r, s).action = r.action
         /\ Alike(r, Drop(r)) /\ Drop(r) \in Rows /\ Alike(r, r)
<1>1. Move(r, s) \in Rows /\ Move(r, s).state = s /\ Drop(r) \in Rows
  BY RowTypes
<1>2. Move(r, s).type = r.type /\ Move(r, s).addr = r.addr
  BY DEF Move, Rows, NoRow
<1>3. s \notin Final => /\ Move(r, s).gen = r.gen /\ Move(r, s).from = r.from
                        /\ Move(r, s).action = r.action
  BY DEF Move, Rows
<1>4. Alike(r, Drop(r)) /\ Alike(r, r)
  BY DEF Alike, SameStage, Drop, Rows
<1> QED
  BY <1>1, <1>2, <1>3, <1>4

-----------------------------------------------------------------------------
(***************************************************************************)
(* The ends of a step, and the compare-and-set.                            *)
(***************************************************************************)
LEMMA RestKeeps ==
  ASSUME TypeInv, NEW p \in Procs, Rest(p), NEW o, NEW x
  PROVE  \A q \in Procs : Keeps(q, o, x)
BY DEF Rest, Keeps, TypeInv, TypeOK

LEMMA ResumeKeeps ==
  ASSUME TypeInv, NEW p \in Procs, NEW x, x.state \notin Ended, Resume(p, "step", x)
  PROVE  \A q \in Procs : Keeps(q, at[p], x)
BY DEF Resume, Keeps, TypeInv, TypeOK

LEMMA ReturnKeeps ==
  ASSUME TypeInv, NEW p \in Procs, NEW x, Return(p, x)
  PROVE  \A q \in Procs : Keeps(q, at[p], x)
<1>1. CASE Rest(p)
  BY <1>1, RestKeeps
<1>2. CASE Resume(p, "step", x) /\ x.state \in Verifying \cup {"rule_ready"}
  BY <1>2, ResumeKeeps DEF Ended, Final, Verifying
<1> QED
  BY <1>1, <1>2 DEF Return

LEMMA TransitionOrder ==
  ASSUME TypeInv, SendInv, OrderInv, NEW p \in Procs, pc[p] # "idle", NEW from, NEW r,
         Transition(p, from, r), UNCHANGED <<remote, outside>>,
         op[at[p]].state \in from /\ Guard(p) => Fits(at[p], r)
  PROVE  OrderInv'
<1> DEFINE row == op[at[p]]
           x == Update(p, from, r)
<1>1. at[p] \in OpIds /\ row \in Rows
  BY RowAhead
<1>2. Fits(at[p], row)
  BY <1>1, FitsAlike DEF Alike, SameStage
<1>3. Fits(at[p], x)
  BY <1>2 DEF Update
<1>4. op' = [op EXCEPT ![at[p]] = x] /\ Return(p, x)
  BY DEF Transition
<1>5. \A q \in Procs : Keeps(q, at[p], x)
  BY <1>4, ReturnKeeps
<1> QED
  BY <1>1, <1>3, <1>4, <1>5, OrderOn

\* A step that leaves every row alone.
LEMMA ReturnOrder ==
  ASSUME TypeInv, SendInv, OrderInv, NEW p \in Procs, pc[p] # "idle", UNCHANGED op,
         UNCHANGED <<remote, outside>>, Return(p, op[at[p]]) \/ Rest(p)
  PROVE  OrderInv'
<1>1. at[p] \in OpIds /\ op[at[p]] \in Rows /\ op' = [op EXCEPT ![at[p]] = op[at[p]]]
  BY RowAhead DEF TypeInv, TypeOK
<1>2. Fits(at[p], op[at[p]])
  BY <1>1, FitsAlike DEF Alike, SameStage
<1>3. \A q \in Procs : Keeps(q, at[p], op[at[p]])
  BY ReturnKeeps, RestKeeps
<1> QED
  BY <1>1, <1>2, <1>3, OrderOn

\* A step that only changes what its process has read or where it is.
LEMMA ReadOrder ==
  ASSUME TypeInv, SendInv, OrderInv, NEW p \in Procs, pc[p] \in {"step", "decide"},
         NEW k \in {"decide", "quota"}, pc' = [pc EXCEPT ![p] = k],
         UNCHANGED <<op, at, cur, remote, outside>>,
         \A q \in Procs \ {p} : seen'[q] = seen[q],
         Quiet /\ RulesInv => ReadingTells(p)'
  PROVE  OrderInv'
<1>1. /\ \A q \in Procs \ {p} : pc'[q] = pc[q]
      /\ \A q \in Procs : (Sender(q))' = Sender(q) /\ Sends(q)' = Sends(q)
                          /\ OrderOf(q)' = OrderOf(q) /\ (pc'[q] = "idle" <=> pc[q] = "idle")
      /\ Posting' = Posting /\ Posting \subseteq Procs
      /\ \A q : (Current(q))' = Current(q)
  BY DEF Sender, Sends, OrderOf, Posting, Current, TypeInv, TypeOK
<1>2. Pending' = Pending /\ UNCHANGED <<service, rules, orders>>
  BY <1>1 DEF Pending, Open, remote
<1>3. RowsInv'
  <2>1. OneActive' /\ CopiesAsk' /\ ReservedIsFirst'
    BY <1>1 DEF OrderInv, RowsInv, OneActive, Active, CopiesAsk, ReservedIsFirst
  <2>2. GensApart'
    BY <1>1, <1>2 DEF OrderInv, RowsInv, GensApart
  <2>3. AcceptedWasSent'
    BY <1>1 DEF OrderInv, RowsInv, AcceptedWasSent
  <2> QED
    BY <2>1, <2>2, <2>3 DEF RowsInv
<1>4. Quiet' = Quiet
  BY DEF Quiet
<1>5. ASSUME Quiet, RulesInv PROVE RulesInv'
  <2>1. PendingAtRow' /\ NoEffectYet' /\ ServiceFirst' /\ ConfirmedIsApplied'
    BY <1>2, <1>5 DEF RulesInv, PendingAtRow, NoEffectYet, ServiceFirst, ConfirmedIsApplied
  <2>2. \A y : Clear(y)' = Clear(y)
    BY <1>2 DEF Clear
  <2>3. ASSUME NEW q \in Procs \ {p} PROVE ReadingTells(q)'
    <3>1. ReadingTells(q)
      BY <1>5 DEF RulesInv, ReadingsHold
    <3>2. seen'[q] = seen[q] /\ pc'[q] = pc[q]
      BY <1>1
    <3> QED
      BY <1>1, <1>2, <2>2, <3>1, <3>2 DEF ReadingTells, Reads
  <2>4. ReadingsHold'
    BY <1>5, <2>3 DEF ReadingsHold
  <2> QED
    BY <2>1, <2>4 DEF RulesInv
<1> QED
  BY <1>3, <1>4, <1>5 DEF OrderInv

-----------------------------------------------------------------------------
(***************************************************************************)
(* Readings.                                                               *)
(***************************************************************************)
\* What may be pending when a copy of the row's generation is at a stage.
LEMMA PendingStage ==
  ASSUME TypeInv, SendInv, RulesInv, NEW p \in Procs, pc[p] # "idle", Current(p),
         NEW m \in Pending, m.op = at[p]
  PROVE  /\ IsAt(m, op[at[p]])
         /\ Stage(cur[p]) \in InService => m.do = "service"
         /\ Stage(cur[p]) \in InClear => m.do = "delete" /\ Stage(op[at[p]]) \in InClear
         /\ Stage(cur[p]) \in InCreate => m.do = "create"
         /\ Stage(cur[p]) # "rule_ready"
<1>1. IsAt(m, op[at[p]])
  BY DEF RulesInv, PendingAtRow
<1>2. Goes(Stage(cur[p]), Stage(op[at[p]]))
  BY RowAhead DEF Current
<1>3. Stage(op[at[p]]) \in InService \cup InClear \cup InCreate
  BY <1>1 DEF IsAt
<1> QED
  BY <1>1, <1>2, <1>3, StageGroups DEF IsAt

LEMMA OrderReadRules ==
  ASSUME TypeInv, SendInv, OrderInv, NEW p \in Procs, ReadRules(p)
  PROVE  OrderInv'
<1>1. /\ pc[p] = "step" /\ pc' = [pc EXCEPT ![p] = "decide"]
      /\ UNCHANGED <<op, at, cur, remote, outside>>
      /\ \A q \in Procs \ {p} : seen'[q] = seen[q]
      /\ \/ seen'[p].answer = "rules" /\ seen'[p].rules = rules
         \/ seen'[p].answer = "failed"
  BY DEF ReadRules, Reading, TypeInv, TypeOK
<1>2. pc'[p] = "decide" /\ (Current(p))' = Current(p) /\ UNCHANGED rules
  BY <1>1 DEF Current, remote, TypeInv, TypeOK
<1>3. \A y : Clear(y)' = Clear(y)
  <2>1. Posting' = Posting /\ \A q : OrderOf(q)' = OrderOf(q)
    BY <1>1 DEF Posting, OrderOf, TypeInv, TypeOK
  <2> QED
    BY <1>1, <2>1 DEF Clear, Pending, Open, remote
<1>4. ASSUME Quiet, RulesInv, seen'[p].answer = "rules", seen'[p].rules = rules, Current(p)
      PROVE  /\ Stage(cur[p]) = "rule_verifying" /\ Reached(cur[p], rules) => Clear(at[p])
             /\ Stage(cur[p]) = "rule_clear_verifying" /\ rules[cur[p].action] = None
                => Clear(at[p])
  <2>1. ASSUME NEW m \in Pending, m.op = at[p], Stage(cur[p]) = "rule_verifying",
               Reached(cur[p], rules)
        PROVE  FALSE
    <3>1. m.do = "create" /\ IsAt(m, op[at[p]])
      BY <1>1, <1>4, <2>1, PendingStage DEF InCreate
    <3>2. m.type = cur[p].type /\ m.addr = cur[p].addr
      BY <1>1, <3>1 DEF IsAt, OrderInv, RowsInv, CopiesAsk
    <3>3. m.type \in Types /\ rules[m.type] # m.addr
      BY <1>4, <3>1 DEF RulesInv, NoEffectYet
    <3> QED
      BY <2>1, <3>2, <3>3, ForwardingAssumption DEF Reached
  <2>2. ASSUME NEW m \in Pending, m.op = at[p], Stage(cur[p]) = "rule_clear_verifying",
               rules[cur[p].action] = None
        PROVE  FALSE
    <3>1. m.do = "delete" /\ IsAt(m, op[at[p]]) /\ Stage(op[at[p]]) \in InClear
      BY <1>1, <1>4, <2>2, PendingStage DEF InClear
    <3>2. m.type = cur[p].action
      BY <1>1, <1>4, <2>2, <3>1 DEF IsAt, OrderInv, RowsInv, CopiesAsk, InClear
    <3> QED
      BY <1>4, <2>2, <3>1, <3>2 DEF RulesInv, NoEffectYet
  <2> QED
    BY <2>1, <2>2 DEF Clear
<1>5. Quiet /\ RulesInv => ReadingTells(p)'
  <2> SUFFICES ASSUME Quiet, RulesInv PROVE ReadingTells(p)'
    OBVIOUS
  <2>1. CASE seen'[p].answer = "failed"
    BY <1>2, <2>1 DEF ReadingTells, Reads
  <2>2. CASE seen'[p].answer = "rules" /\ seen'[p].rules = rules
    BY <1>1, <1>2, <1>3, <1>4, <2>2 DEF ReadingTells, Reads
  <2> QED
    BY <1>1, <2>1, <2>2
<1> QED
  BY <1>1, <1>5, ReadOrder

LEMMA OrderReadServices ==
  ASSUME TypeInv, SendInv, OrderInv, NEW p \in Procs, ReadServices(p)
  PROVE  OrderInv'
<1>1. /\ pc[p] = "step" /\ pc' = [pc EXCEPT ![p] = "decide"]
      /\ UNCHANGED <<op, at, cur, remote, outside>>
      /\ \A q \in Procs \ {p} : seen'[q] = seen[q]
      /\ seen'[p].answer \in {"active", "faulted", "absent", "failed"}
      /\ seen'[p].answer = "active" => service
      /\ seen'[p].answer = "faulted" => /\ cur[p].state = "service_accepted"
                                        /\ \A m \in Open : m.op # at[p]
  BY DEF ReadServices, TypeInv, TypeOK
<1>2. pc'[p] = "decide" /\ (Current(p))' = Current(p) /\ UNCHANGED service
  BY <1>1 DEF Current, remote, TypeInv, TypeOK
<1>3. \A y : Clear(y)' = Clear(y)
  <2>1. Posting' = Posting /\ \A q : OrderOf(q)' = OrderOf(q)
    BY <1>1 DEF Posting, OrderOf, TypeInv, TypeOK
  <2> QED
    BY <1>1, <2>1 DEF Clear, Pending, Open, remote
<1>4. ASSUME Quiet, RulesInv, seen'[p].answer = "faulted", Current(p) PROVE Clear(at[p])
  <2>1. ASSUME NEW q \in Posting, OrderOf(q).op = at[p] PROVE FALSE
    <3>1. q \in Procs /\ at[q] = at[p] /\ OrderOf(q).do = Sends(q) /\ OrderOf(q) \in Pending
      BY <2>1, OrderOfType DEF Posting, Pending
    <3>2. Stage(cur[p]) \in InService
      BY <1>1, <1>4 DEF Stage, InService, Awaiting
    <3>3. Sends(q) = "service"
      BY <1>1, <1>4, <2>1, <3>1, <3>2, PendingStage
    <3> QED
      BY <1>1, <1>4, <3>1, <3>3 DEF OrderInv, RowsInv, AcceptedWasSent
  <2> QED
    BY <1>1, <1>4, <2>1 DEF Clear, Pending
<1>5. Stage(cur[p]) \in Awaiting
  BY DEF ReadServices
<1>6. cur[p].state # "rule_ready"
  BY <1>5 DEF Stage, Awaiting
<1>7. Quiet /\ RulesInv => ReadingTells(p)'
  BY <1>1, <1>2, <1>3, <1>4, <1>6 DEF ReadingTells, Reads
<1> QED
  BY <1>1, <1>7, ReadOrder

LEMMA OrderStartService ==
  ASSUME TypeInv, SendInv, OrderInv, NEW p \in Procs, StartService(p)
  PROVE  OrderInv'
<1>1. /\ pc[p] = "step" /\ pc' = [pc EXCEPT ![p] = "quota"]
      /\ cur[p].state = "service_reserved"
      /\ UNCHANGED <<op, at, cur, seen, remote, outside>>
  BY DEF StartService
<1>2. Quiet /\ RulesInv => ReadingTells(p)'
  BY <1>1 DEF ReadingTells, Reads, RulesInv, ReadingsHold, TypeInv, TypeOK, remote
<1> QED
  BY <1>1, <1>2, ReadOrder

-----------------------------------------------------------------------------
(***************************************************************************)
(* Decisions.                                                              *)
(***************************************************************************)
\* The stage of a row found where the copy is.
LEMMA FoundStage ==
  ASSUME TypeInv, SendInv, NEW p \in Procs, pc[p] # "idle", Guard(p),
         op[at[p]].state \in Awaiting \cup Verifying \cup {"unconfirmed"}
  PROVE  /\ op[at[p]].state \notin Ended /\ Current(p)
         /\ \A G \in {InService, InClear, InCreate} :
              Stage(cur[p]) \in G => Stage(op[at[p]]) \in G
<1>1. op[at[p]].state \notin Ended /\ Current(p)
  BY DEF Guard, Current, Awaiting, Verifying, Ended, Final
<1>2. Goes(Stage(cur[p]), Stage(op[at[p]])) /\ Known(op[at[p]])
  BY <1>1, RowAhead DEF Current
<1>3. Stage(op[at[p]]) \in Awaiting \cup Verifying
  BY <1>2 DEF Known, Stage
<1>4. Stage(op[at[p]]) \notin {"rule_ready", "rule_confirmed"}
  BY <1>3 DEF Awaiting, Verifying
<1> QED
  BY <1>1, <1>2, <1>4, StageGroups

LEMMA OrderDecideService ==
  ASSUME TypeInv, SendInv, OrderInv, NEW p \in Procs, DecideService(p)
  PROVE  OrderInv'
<1> DEFINE row == op[at[p]]
           ready == [Move(row, "rule_ready") EXCEPT !.from = "absent"]
           later == [Move(row, "unconfirmed") EXCEPT !.from = cur[p].state]
<1>1. pc[p] = "decide" /\ Stage(cur[p]) \in Awaiting /\ UNCHANGED <<remote, outside>>
  BY DEF DecideService
<1>2. at[p] \in OpIds /\ row \in Rows /\ cur[p] \in Rows /\ Stage(cur[p]) \in InService
      /\ cur[p].state \in States
  BY <1>1, RowAhead DEF InService, Rows
<1>3. {"rule_ready", "unconfirmed", "failed", "absent"} \subseteq States /\ "failed" \in Final
      /\ {"rule_ready", "unconfirmed"} \cap (Ended \cup {"service_reserved"}) = {}
  BY DEF States, Due, NotSent, Final, Ended
<1>4. \A f \in States, y \in Rows :
        LET x == [y EXCEPT !.from = f]
        IN  /\ x \in Rows /\ x.state = y.state /\ x.gen = y.gen /\ x.from = f
            /\ x.type = y.type /\ x.addr = y.addr /\ x.action = y.action
  BY DEF Rows
<1>5. /\ ready \in Rows /\ ready.state = "rule_ready" /\ ready.from = "absent"
      /\ ready.gen = row.gen /\ ready.type = row.type /\ ready.addr = row.addr
  <2>1. /\ Move(row, "rule_ready") \in Rows /\ Move(row, "rule_ready").state = "rule_ready"
        /\ Move(row, "rule_ready").gen = row.gen /\ Move(row, "rule_ready").type = row.type
        /\ Move(row, "rule_ready").addr = row.addr
    BY <1>2, <1>3, MoveKeeps DEF Ended
  <2> QED
    BY <1>3, <1>4, <2>1
<1>6. /\ later \in Rows /\ later.state = "unconfirmed" /\ later.from = cur[p].state
      /\ later.gen = row.gen /\ later.type = row.type /\ later.addr = row.addr
      /\ later.action = row.action
  <2>1. LET y == Move(row, "unconfirmed")
        IN  /\ y \in Rows /\ y.state = "unconfirmed" /\ y.gen = row.gen
            /\ y.type = row.type /\ y.addr = row.addr /\ y.action = row.action
    BY <1>2, <1>3, MoveKeeps DEF Ended
  <2> QED
    BY <1>2, <1>4, <2>1
<1>7. Fits(at[p], Drop(row))
  BY <1>2, <1>3, MoveKeeps, FitsAlike
<1>8. ASSUME seen[p].answer = "active", row.state \in Awaiting \cup {"unconfirmed"}, Guard(p)
      PROVE  Fits(at[p], ready)
  <2>1. row.state \notin Ended /\ Stage(row) \in InService
    BY <1>1, <1>2, <1>8, FoundStage
  <2>2. Known(ready) /\ Stage(ready) = "rule_ready"
    BY <1>5 DEF Known, Stage
  <2>3. Moves(row, ready)
    BY <1>3, <1>5, <2>1, <2>2, StageGroups DEF Moves, Goes
  <2>4. Quiet /\ RulesInv => service /\ Clear(at[p])
    <3>1. Quiet /\ RulesInv => service
      BY <1>8 DEF RulesInv, ReadingsHold, ReadingTells
    <3>2. ASSUME NEW m \in Pending, m.op = at[p], RulesInv, service PROVE FALSE
      <4>1. IsAt(m, row)
        BY <3>2 DEF RulesInv, PendingAtRow
      <4>2. m.do = "service"
        BY <2>1, <4>1, StageGroups DEF IsAt
      <4> QED
        BY <3>2, <4>2 DEF RulesInv, NoEffectYet
    <3> QED
      BY <3>1, <3>2 DEF Clear
  <2> HIDE DEF ready
  <2> QED
    BY <1>5, <2>2, <2>3, <2>4 DEF Fits
<1>9. ASSUME seen[p].answer = "faulted", row.state = "service_accepted", Guard(p)
      PROVE  Fits(at[p], Move(row, "failed"))
  <2>1. row.state \notin Ended /\ Current(p)
    BY <1>1, <1>9, FoundStage DEF Awaiting
  <2>2. Quiet /\ RulesInv => Clear(at[p])
    BY <1>1, <1>9, <2>1 DEF RulesInv, ReadingsHold, ReadingTells
  <2>3. Stops(row, Move(row, "failed")) /\ Move(row, "failed") \in Rows
    BY <1>2, <1>3, <2>1, MoveKeeps DEF Stops
  <2> QED
    BY <1>2, <2>2, <2>3, FitsStop
<1>10. ASSUME cur[p].state # "unconfirmed", row.state \in Awaiting, Guard(p)
       PROVE  Fits(at[p], later)
  <2>1. row.state \notin Ended /\ cur[p].state \in Awaiting
        /\ Stage(row) = row.state
    BY <1>1, <1>10 DEF Stage, Ended, Awaiting, Final
  <2>2. Known(later) /\ Stage(later) = cur[p].state
    BY <1>6, <2>1 DEF Known, Stage
  <2>3. Moves(row, later) /\ Stage(later) \in InService
    BY <1>3, <1>6, <1>10, <2>1, <2>2 DEF Moves, Goes, InService
  <2> HIDE DEF later
  <2> QED
    BY <1>3, <1>6, <2>2, <2>3 DEF Fits, Ended
<1>a. CASE /\ Transition(p, Awaiting \cup {"unconfirmed"}, ready)
           /\ seen[p].answer = "active"
  BY <1>a, <1>1, <1>8, TransitionOrder
<1>b. CASE /\ Transition(p, {"service_accepted"}, Move(row, "failed"))
           /\ seen[p].answer = "faulted"
  BY <1>b, <1>1, <1>9, TransitionOrder
<1>c. CASE Transition(p, {"unconfirmed"}, Drop(row))
  BY <1>c, <1>1, <1>7, TransitionOrder
<1>d. CASE /\ Transition(p, Awaiting, IF Overdue(row) THEN later ELSE Drop(row))
           /\ cur[p].state # "unconfirmed"
  <2>1. CASE Overdue(row)
    BY <1>d, <2>1, <1>1, <1>10, TransitionOrder
  <2>2. CASE ~Overdue(row)
    BY <1>d, <2>2, <1>1, <1>7, TransitionOrder
  <2> QED
    BY <2>1, <2>2
<1> QED
  BY <1>a, <1>b, <1>c, <1>d DEF DecideService

LEMMA ConfirmOrder ==
  ASSUME TypeInv, SendInv, OrderInv, NEW p \in Procs, pc[p] # "idle", NEW from,
         Confirm(p, from), UNCHANGED <<remote, outside>>,
         op[at[p]].state \in from /\ Guard(p) =>
           /\ op[at[p]].state \notin Ended /\ Goes(Stage(op[at[p]]), "rule_confirmed")
           /\ Stage(op[at[p]]) \notin InService
           /\ Quiet /\ RulesInv => Clear(at[p]) /\ Reached(cur[p], rules)
  PROVE  OrderInv'
<1> DEFINE row == op[at[p]]
           x == [row EXCEPT !.state = "rule_confirmed", !.late = FALSE]
<1>1. at[p] \in OpIds /\ row \in Rows
  BY RowAhead
<1>2. /\ x \in Rows /\ x.state = "rule_confirmed" /\ x.gen = row.gen /\ x.action = row.action
      /\ x.type = row.type /\ x.addr = row.addr
  <2>1. "rule_confirmed" \in States
    BY DEF States, Due
  <2> QED
    BY <1>1, <2>1 DEF Rows
<1>3. "rule_confirmed" \notin Ended \cup {"service_reserved", "unconfirmed", "service_accepted"}
  BY DEF Ended, Final
<1>4. CASE /\ row.state \in from /\ Guard(p)
           /\ op' = [op EXCEPT ![at[p]] = x] /\ Resume(p, "step", x)
  <2>1. Known(x) /\ Stage(x) = "rule_confirmed"
    BY <1>2 DEF Known, Stage
  <2>2. Moves(row, x)
    BY <1>2, <1>3, <1>4, <2>1 DEF Moves
  <2>3. cur[p].type = row.type /\ cur[p].addr = row.addr
    BY DEF OrderInv, RowsInv, CopiesAsk
  <2>4. Quiet /\ RulesInv => Clear(at[p]) /\ Reached(x, rules)
    BY <1>2, <1>4, <2>3, ReachedSame
  <2>5. \A q \in Procs : Keeps(q, at[p], x)
    BY <1>2, <1>3, <1>4, ResumeKeeps
  <2>6. Fits(at[p], x)
    <3> HIDE DEF x
    <3> QED
      BY <1>2, <1>3, <1>4, <2>1, <2>2, <2>4 DEF Fits
  <2> QED
    BY <1>1, <1>4, <2>5, <2>6, OrderOn
<1>5. CASE UNCHANGED op /\ Return(p, row)
  BY <1>5, ReturnOrder
<1> QED
  BY <1>4, <1>5 DEF Confirm

LEMMA PostponeOrder ==
  ASSUME TypeInv, SendInv, OrderInv, NEW p \in Procs, pc[p] # "idle",
         Stage(cur[p]) \in Verifying, Postpone(p, Stage(cur[p])),
         UNCHANGED <<remote, outside>>
  PROVE  OrderInv'
<1> DEFINE row == op[at[p]]
           s == Stage(cur[p])
           put == [Move(row, "unconfirmed") EXCEPT !.from = s]
           later == IF cur[p].state # "unconfirmed" /\ Overdue(row) THEN put ELSE Drop(row)
           x == Update(p, {cur[p].state}, later)
<1>1. at[p] \in OpIds /\ row \in Rows /\ cur[p] \in Rows
  BY RowAhead
<1>2. s \in States /\ "unconfirmed" \in States
      /\ "unconfirmed" \notin Ended \cup {"service_reserved"}
      /\ s \in InClear \cup InCreate
  BY DEF States, Due, Verifying, Ended, Final, InClear, InCreate
<1>3. cur[p].state # "unconfirmed" => cur[p].state = s
  BY DEF Stage
<1>4. /\ put \in Rows /\ put.state = "unconfirmed" /\ put.from = s /\ put.gen = row.gen
      /\ put.type = row.type /\ put.addr = row.addr /\ put.action = row.action
  <2>1. \A y \in Rows :
        LET z == [y EXCEPT !.from = s]
        IN  /\ z \in Rows /\ z.state = y.state /\ z.gen = y.gen /\ z.from = s
            /\ z.type = y.type /\ z.addr = y.addr /\ z.action = y.action
    BY <1>2 DEF Rows
  <2> QED
    BY <1>1, <1>2, <2>1, MoveKeeps DEF Ended
<1>5. ASSUME row.state = cur[p].state, cur[p].state # "unconfirmed"
      PROVE  Fits(at[p], put)
  <2>1. row.state = s /\ Stage(row) = s /\ Stage(put) = s /\ Known(put)
    BY <1>3, <1>4, <1>5 DEF Stage, Known
  <2>2. row.state \notin Ended /\ Goes(s, s)
    BY <2>1, GoesOn DEF Verifying, Ended, Final
  <2>3. Moves(row, put)
    BY <1>2, <1>4, <2>1, <2>2 DEF Moves
  <2> HIDE DEF put, s
  <2> QED
    BY <1>2, <1>4, <2>1, <2>3, StageGroups DEF Fits, Ended
<1>6. Fits(at[p], Drop(row)) /\ Fits(at[p], row)
  BY <1>1, <1>2, MoveKeeps, FitsAlike
<1>7. Fits(at[p], x)
  BY <1>5, <1>6 DEF Update
<1>8. op' = [op EXCEPT ![at[p]] = x] /\ Rest(p)
  BY DEF Postpone
<1>9. \A q \in Procs : Keeps(q, at[p], x)
  BY <1>8, RestKeeps
<1> QED
  BY <1>1, <1>7, <1>8, <1>9, OrderOn

LEMMA OrderDecideVerified ==
  ASSUME TypeInv, SendInv, OrderInv, NEW p \in Procs, DecideVerified(p)
  PROVE  OrderInv'
<1> DEFINE row == op[at[p]]
           s == Stage(cur[p])
           x == [Move(row, "rule_ready") EXCEPT !.action = None, !.attempts = 0,
                                                !.from = "absent"]
<1>1. pc[p] = "decide" /\ s \in Verifying /\ UNCHANGED <<remote, outside>>
  BY DEF DecideVerified
<1>2. at[p] \in OpIds /\ row \in Rows /\ cur[p] \in Rows
  BY <1>1, RowAhead
<1>3. CASE /\ s = "rule_verifying" /\ Applied(p)
           /\ Confirm(p, {"rule_verifying", "unconfirmed"})
  <2>1. ASSUME row.state \in {"rule_verifying", "unconfirmed"}, Guard(p)
        PROVE  /\ row.state \notin Ended /\ Goes(Stage(row), "rule_confirmed")
               /\ Stage(row) \notin InService
               /\ Quiet /\ RulesInv => Clear(at[p]) /\ Reached(cur[p], rules)
    <3>1. row.state \notin Ended /\ Current(p) /\ Stage(row) \in InCreate
      BY <1>1, <1>3, <2>1, FoundStage DEF Verifying, InCreate
    <3>2. Quiet /\ RulesInv => Clear(at[p]) /\ Reached(cur[p], rules)
      BY <1>1, <1>3, <3>1 DEF Applied, RulesInv, ReadingsHold, ReadingTells, Reads
    <3> QED
      BY <3>1, <3>2, StageGroups DEF Goes
  <2> QED
    BY <1>1, <1>3, <2>1, ConfirmOrder
<1>4. CASE /\ s = "rule_clear_verifying" /\ seen[p].answer = "rules"
           /\ seen[p].rules[cur[p].action] = None
           /\ Transition(p, {"rule_clear_verifying", "unconfirmed"}, x)
  <2>1. /\ x \in Rows /\ x.state = "rule_ready" /\ x.from = "absent" /\ x.gen = row.gen
        /\ x.type = row.type /\ x.addr = row.addr
    <3>0. "absent" \in States
      BY DEF States
    <3>1. \A y \in Rows :
            LET z == [y EXCEPT !.action = None, !.attempts = 0, !.from = "absent"]
            IN  /\ z \in Rows /\ z.state = y.state /\ z.gen = y.gen /\ z.from = "absent"
                /\ z.type = y.type /\ z.addr = y.addr
      BY <3>0 DEF Rows
    <3>2. "rule_ready" \in States /\ "rule_ready" \notin Final
      BY DEF States, Due, NotSent, Final
    <3>3. LET y == Move(row, "rule_ready")
          IN  /\ y \in Rows /\ y.state = "rule_ready" /\ y.gen = row.gen
              /\ y.type = row.type /\ y.addr = row.addr
      BY <1>2, <3>2, MoveKeeps
    <3> QED
      BY <3>1, <3>3
  <2>2. ASSUME row.state \in {"rule_clear_verifying", "unconfirmed"}, Guard(p)
        PROVE  Fits(at[p], x)
    <3>1. row.state \notin Ended /\ Current(p) /\ Stage(row) \in InClear
      BY <1>1, <1>4, <2>2, FoundStage DEF Verifying, InClear
    <3>2. Quiet /\ RulesInv => Clear(at[p])
      BY <1>1, <1>4, <3>1 DEF RulesInv, ReadingsHold, ReadingTells, Reads
    <3>3. Known(x) /\ Stage(x) = "rule_ready" /\ "rule_ready" \notin Ended
      BY <2>1 DEF Known, Stage, Ended, Final
    <3>4. Moves(row, x)
      BY <2>1, <3>1, <3>3, StageGroups DEF Moves, Goes
    <3> HIDE DEF x
    <3> QED
      BY <2>1, <3>1, <3>2, <3>3, <3>4, StageGroups DEF Fits
  <2> HIDE DEF x
  <2> QED
    BY <1>1, <1>4, <2>2, TransitionOrder
<1>5. CASE Postpone(p, s)
  BY <1>1, <1>5, PostponeOrder
<1> QED
  BY <1>3, <1>4, <1>5 DEF DecideVerified

LEMMA OrderDecideRule ==
  ASSUME TypeInv, SendInv, OrderInv, NEW p \in Procs, DecideRule(p)
  PROVE  OrderInv'
<1> DEFINE row == op[at[p]]
<1>1. pc[p] = "decide" /\ cur[p].state = "rule_ready" /\ UNCHANGED <<remote, outside>>
  BY DEF DecideRule
<1>2. at[p] \in OpIds /\ row \in Rows /\ "done" \in States
  BY <1>1, RowAhead DEF States, Final
<1>3. CASE Transition(p, {"rule_ready"}, Drop(row))
  BY <1>1, <1>2, <1>3, MoveKeeps, FitsAlike, TransitionOrder
<1>4. CASE Applied(p) /\ Confirm(p, {"rule_ready"})
  <2>1. ASSUME row.state = "rule_ready", Guard(p)
        PROVE  /\ row.state \notin Ended /\ Goes(Stage(row), "rule_confirmed")
               /\ Stage(row) \notin InService
               /\ Quiet /\ RulesInv => Clear(at[p]) /\ Reached(cur[p], rules)
    <3>1. row.state \notin Ended /\ Stage(row) = "rule_ready" /\ Current(p)
      BY <2>1 DEF Ended, Final, Stage, Current, Guard
    <3>2. RulesInv => Clear(at[p])
      BY <3>1, StageGroups, NothingPending DEF RulesInv
    <3>3. RulesInv => seen[p].rules = rules
      BY <1>1, <1>4, <3>1 DEF Applied, RulesInv, ReadingsHold, ReadingTells
    <3> QED
      BY <1>4, <3>1, <3>2, <3>3, StageGroups DEF Goes, Applied
  <2> QED
    BY <1>1, <1>4, <2>1, ConfirmOrder
<1>5. CASE /\ pc' = [pc EXCEPT ![p] = "quota"] /\ UNCHANGED <<op, at, cur, seen, cycles>>
           /\ seen[p].answer # "failed" /\ ~Applied(p)
  <2>1. UNCHANGED rules /\ (Current(p))' = Current(p) /\ pc'[p] = "quota"
    BY <1>1, <1>5 DEF Current, remote, TypeInv, TypeOK
  <2>2. Quiet /\ RulesInv => ReadingTells(p)'
    BY <1>1, <1>5, <2>1 DEF ReadingTells, Reads, RulesInv, ReadingsHold, Applied, remote
  <2> QED
    BY <1>1, <1>5, <2>2, ReadOrder
<1> QED
  BY <1>3, <1>4, <1>5 DEF DecideRule

LEMMA OrderEnsureQuota ==
  ASSUME TypeInv, SendInv, OrderInv, NEW p \in Procs, EnsureQuota(p)
  PROVE  OrderInv'
<1> DEFINE row == op[at[p]]
<1>1. pc[p] = "quota" /\ cur[p].state \in NotSent /\ UNCHANGED <<remote, outside>>
  BY DEF EnsureQuota, TypeInv, Working
<1>2. at[p] \in OpIds /\ row \in Rows /\ cur[p] \in Rows
  BY <1>1, RowAhead
<1>3. CASE Transition(p, {cur[p].state}, Move(row, "cancelled"))
  <2>1. ASSUME row.state = cur[p].state PROVE Fits(at[p], Move(row, "cancelled"))
    <3>1. row.state \notin Ended /\ Stage(row) \in {"rule_ready", "service_reserved"}
      BY <1>1, <2>1 DEF NotSent, Ended, Final, Stage
    <3>2. RulesInv => Clear(at[p])
      BY <3>1, StageGroups, NothingPending DEF RulesInv
    <3>3. "cancelled" \in States /\ "cancelled" \in Final
      BY DEF States, Final
    <3> QED
      BY <1>2, <3>1, <3>2, <3>3, MoveKeeps, FitsStop DEF Stops
  <2> QED
    BY <1>1, <1>3, <2>1, TransitionOrder
<1>4. CASE \E b \in BOOLEAN : /\ op' = [op EXCEPT ![at[p]].counted = b]
                              /\ pc' = [pc EXCEPT ![p] = "claim"] /\ UNCHANGED <<at, cur, seen>>
  <2>1. PICK b \in BOOLEAN : /\ op' = [op EXCEPT ![at[p]].counted = b]
                             /\ pc' = [pc EXCEPT ![p] = "claim"] /\ UNCHANGED <<at, cur, seen>>
    BY <1>4
  <2> DEFINE x == [row EXCEPT !.counted = b]
  <2>2. op' = [op EXCEPT ![at[p]] = x]
    BY <1>2, <2>1 DEF TypeInv, TypeOK
  <2>3. x \in Rows /\ Alike(row, x)
    BY <1>2 DEF Rows, Alike, SameStage
  <2> HIDE DEF x
  <2>4. Fits(at[p], x)
    BY <1>2, <2>3, FitsAlike
  <2>5. \A q \in Procs : Keeps(q, at[p], x)
    BY <1>1, <2>1 DEF Keeps, TypeInv, TypeOK
  <2> QED
    BY <1>1, <1>2, <2>2, <2>4, <2>5, OrderOn
<1>5. row.counted \in BOOLEAN /\ cur[p].counted \in BOOLEAN
  BY <1>2 DEF Rows
<1> QED
  BY <1>3, <1>4, <1>5 DEF EnsureQuota

LEMMA OrderAnswered ==
  ASSUME TypeInv, SendInv, OrderInv, NEW p \in Procs, Accepted(p) \/ Unanswered(p)
  PROVE  OrderInv'
<1> DEFINE row == op[at[p]]
           s == cur[p].state
<1>1. pc[p] = "sent" /\ s \in Sending /\ UNCHANGED <<remote, outside>>
  BY DEF Accepted, Unanswered, TypeInv, Working
<1>2. at[p] \in OpIds /\ row \in Rows
  BY <1>1, RowAhead
<1>3. PICK next \in States :
        /\ Transition(p, {s}, Move(row, next))
        /\ next \notin Ended \cup {"unconfirmed", "service_reserved"}
        /\ \E G \in {InService, InClear, InCreate} : s \in G /\ next \in G
        /\ next = "service_accepted" => s = "service_sending"
  <2>1. PICK next : /\ Transition(p, {s}, Move(row, next))
                    /\ \/ next = Unknown(s)
                       \/ (s = "service_sending" /\ next = "service_accepted")
    BY DEF Accepted, Unanswered
  <2>2. /\ next \in States /\ next \notin Ended \cup {"unconfirmed", "service_reserved"}
        /\ \E G \in {InService, InClear, InCreate} : s \in G /\ next \in G
        /\ next = "service_accepted" => s = "service_sending"
    BY <1>1, <2>1 DEF Sending, Unknown, States, Due, Awaiting, Verifying, Ended, Final,
                      InService, InClear, InCreate
  <2> QED
    BY <2>1, <2>2
<1> DEFINE x == Move(row, next)
<1>4. ASSUME row.state = s PROVE Fits(at[p], x)
  <2>1. /\ x \in Rows /\ x.state = next /\ x.gen = row.gen /\ x.action = row.action
        /\ x.type = row.type /\ x.addr = row.addr
    BY <1>2, <1>3, MoveKeeps DEF Ended
  <2>2. row.state \notin Ended /\ Stage(row) = s /\ Stage(x) = next /\ Known(x)
    BY <1>1, <1>3, <1>4, <2>1 DEF Sending, Ended, Final, Stage, Known
  <2>3. Moves(row, x)
    BY <1>3, <2>1, <2>2 DEF Moves, Goes
  <2>4. next = "service_accepted" => ServiceSent(at[p])
    <3>1. s = "service_sending" => Sends(p) = "service"
      BY SendsWhat
    <3> QED
      BY <1>1, <1>3, <3>1 DEF ServiceSent, Posting, SendInv, OneSender, Sender
  <2>5. /\ Stage(x) \in InService \cup InClear \cup InCreate
        /\ Stage(row) \in InService => Stage(x) \in InService
    BY <1>3, <2>2, StageGroups
  <2>6. x.state \notin Final \cup {"rule_confirmed"}
    BY <1>3, <2>1 DEF Ended, InService, InClear, InCreate, Awaiting
  <2> HIDE DEF x
  <2> QED
    BY <2>1, <2>2, <2>3, <2>4, <2>5, <2>6 DEF Fits
<1> QED
  BY <1>1, <1>3, <1>4, TransitionOrder

LEMMA OrderFinish ==
  ASSUME TypeInv, SendInv, OrderInv, NEW p \in Procs,
         Finalize(p) \/ CancelRebound(p) \/ Expire(p)
  PROVE  OrderInv'
<1> DEFINE row == op[at[p]]
<1>1. pc[p] = "step" /\ UNCHANGED <<remote, outside>>
  BY DEF Finalize, CancelRebound, Expire
<1>2. at[p] \in OpIds /\ row \in Rows
  BY <1>1, RowAhead
<1>3. {"done", "cancelled", "expired"} \subseteq States \cap Final
  BY DEF States, Final
<1>4. ASSUME row.state \in NotSent \cup {"rule_confirmed"}, NEW s \in {"done", "cancelled"}
      PROVE  Fits(at[p], Move(row, s))
  <2>1. /\ row.state \notin Ended
        /\ Stage(row) \in {"rule_ready", "service_reserved", "rule_confirmed"}
    BY <1>4 DEF NotSent, Ended, Final, Stage
  <2>2. RulesInv => Clear(at[p])
    BY <2>1, StageGroups, NothingPending DEF RulesInv
  <2>3. Stops(row, Move(row, s)) /\ Move(row, s) \in Rows
    BY <1>2, <1>3, <2>1, MoveKeeps DEF Stops
  <2> QED
    BY <1>2, <2>2, <2>3, FitsStop
<1>5. ASSUME row.state = "unconfirmed" PROVE Fits(at[p], Move(row, "expired"))
  <2>1. row.state \notin Ended
    BY <1>5 DEF Ended, Final
  <2>2. /\ Stops(row, Move(row, "expired")) /\ Move(row, "expired") \in Rows
        /\ Move(row, "expired").state = "expired"
    BY <1>2, <1>3, <2>1, MoveKeeps DEF Stops
  <2> QED
    BY <1>2, <2>2, FitsStop
<1>6. Fits(at[p], Drop(row))
  BY <1>2, <1>3, MoveKeeps, FitsAlike
<1>7. CASE Finalize(p)
  BY <1>1, <1>4, <1>6, <1>7, TransitionOrder DEF Finalize
<1>8. CASE CancelRebound(p)
  BY <1>1, <1>4, <1>8, TransitionOrder DEF CancelRebound
<1>9. CASE Expire(p)
  BY <1>1, <1>5, <1>9, TransitionOrder DEF Expire
<1> QED
  BY <1>7, <1>8, <1>9

LEMMA OrderAbort ==
  ASSUME TypeInv, SendInv, OrderInv, NEW p \in Procs, Abort(p)
  PROVE  OrderInv'
BY ReturnOrder DEF Abort

\* A worker takes a row; time passes over a row.
LEMMA OrderRows ==
  ASSUME TypeInv, SendInv, OrderInv, NEW o \in OpIds,
         \/ \E w \in Workers : ClaimDue(w, o)
         \/ RecoverStale(o) \/ LeaseEnds(o) \/ DeadlinePasses(o) \/ DayPasses(o)
  PROVE  OrderInv'
<1> DEFINE row == op[o]
<1>1. row \in Rows /\ UNCHANGED <<remote, outside>>
  BY DEF TypeInv, TypeOK, ClaimDue, RecoverStale, LeaseEnds, DeadlinePasses, DayPasses
<1>2. CASE \E w \in Workers : ClaimDue(w, o)
  <2>1. PICK w \in Workers : ClaimDue(w, o)
    BY <1>2
  <2> DEFINE x == [row EXCEPT !.owner = w, !.live = TRUE]
  <2>2. w \in Procs
    BY DEF Procs
  <2>3. x \in Rows /\ Alike(row, x)
    BY <1>1, <2>2 DEF Rows, Alike, SameStage
  <2>4. /\ op' = [op EXCEPT ![o] = x] /\ cur' = [cur EXCEPT ![w] = Copy(x)]
        /\ pc' = [pc EXCEPT ![w] = "step"] /\ at' = [at EXCEPT ![w] = o] /\ UNCHANGED seen
    BY <2>1 DEF ClaimDue
  <2>5. x.state \notin Ended
    BY <2>1, <2>3, StageFacts DEF ClaimDue, Alike, SameStage, Ended
  <2> HIDE DEF x
  <2>6. \A q \in Procs : Keeps(q, o, x)
    BY <2>2, <2>4, <2>5 DEF Keeps, TypeInv, TypeOK
  <2> QED
    BY <1>1, <2>3, <2>4, <2>6, FitsAlike, OrderOn
<1>3. CASE RecoverStale(o) \/ LeaseEnds(o) \/ DeadlinePasses(o) \/ DayPasses(o)
  <2>1. \A q \in Procs : \A x : Keeps(q, o, x)
    BY <1>3 DEF RecoverStale, LeaseEnds, DeadlinePasses, DayPasses, Keeps
  <2>2. CASE LeaseEnds(o) \/ DeadlinePasses(o) \/ DayPasses(o)
    <3>1. PICK x \in Rows : op' = [op EXCEPT ![o] = x] /\ Alike(row, x)
      <4>1. \/ op' = [op EXCEPT ![o] = [op[o] EXCEPT !.live = FALSE]]
            \/ op' = [op EXCEPT ![o] = [op[o] EXCEPT !.late = TRUE]]
            \/ op' = [op EXCEPT ![o] = [op[o] EXCEPT !.old = TRUE]]
        BY <2>2 DEF LeaseEnds, DeadlinePasses, DayPasses
      <4>2. \A x \in Rows : /\ Alike(x, [x EXCEPT !.live = FALSE])
                            /\ Alike(x, [x EXCEPT !.late = TRUE])
                            /\ Alike(x, [x EXCEPT !.old = TRUE])
        BY DEF Alike, SameStage, Rows
      <4> QED
        BY <1>1, <4>1, <4>2, RowEdits
    <3> QED
      BY <1>1, <2>1, <3>1, FitsAlike, OrderOn
  <2>3. CASE RecoverStale(o)
    <3> DEFINE s == row.state
               x == Move(row, Unknown(s))
    <3>1. s \in Sending /\ op' = [op EXCEPT ![o] = x]
      BY <2>3 DEF RecoverStale
    <3>2. /\ Unknown(s) \in States /\ s \notin Ended \cup {"unconfirmed"}
          /\ Unknown(s) \notin Ended \cup {"unconfirmed", "service_reserved", "service_accepted",
                                           "rule_confirmed"}
          /\ \E G \in {InService, InClear, InCreate} : s \in G /\ Unknown(s) \in G
      BY <3>1 DEF Sending, Unknown, States, Due, Awaiting, Verifying, Ended, Final,
                  InService, InClear, InCreate
    <3>3. /\ x \in Rows /\ x.state = Unknown(s) /\ x.gen = row.gen /\ x.action = row.action
          /\ x.type = row.type /\ x.addr = row.addr
      BY <1>1, <3>2, MoveKeeps DEF Ended
    <3>4. Stage(row) = s /\ Stage(x) = Unknown(s) /\ Known(x)
      BY <3>2, <3>3 DEF Stage, Known
    <3>5. Moves(row, x)
      BY <3>2, <3>3, <3>4 DEF Moves, Goes
    <3>6. /\ Stage(x) \in InService \cup InClear \cup InCreate
          /\ Stage(row) \in InService => Stage(x) \in InService
      BY <3>2, <3>4, StageGroups
    <3> HIDE DEF x
    <3>7. Fits(o, x)
      BY <3>2, <3>3, <3>4, <3>5, <3>6 DEF Fits, Ended
    <3> QED
      BY <1>1, <2>1, <3>1, <3>7, OrderOn
  <2> QED
    BY <1>3, <2>2, <2>3
<1> QED
  BY <1>2, <1>3

-----------------------------------------------------------------------------
(***************************************************************************)
(* Orders on their way.                                                    *)
(***************************************************************************)
LEMMA OrderPost ==
  ASSUME TypeInv, SendInv, OrderInv, NEW p \in Procs, Post(p)
  PROVE  OrderInv'
<1>1. /\ pc[p] = "post" /\ pc' = [pc EXCEPT ![p] = "sent"]
      /\ orders' = orders \cup {OrderOf(p)}
      /\ UNCHANGED <<op, at, cur, seen, service, rules, outside>>
  BY DEF Post
<1>2. /\ at[p] \in OpIds /\ op[at[p]] \in Rows /\ cur[p] \in Rows
      /\ OrderOf(p).open = TRUE /\ OrderOf(p).op = at[p] /\ OrderOf(p).gen = cur[p].gen
  BY <1>1, RowAhead, OrderOfType
<1>3. /\ p \in Posting /\ Sender(p) /\ Posting' = Posting \ {p} /\ Posting \subseteq Procs
      /\ \A q \in Procs : (Sender(q))' = Sender(q) /\ (pc'[q] = "idle" <=> pc[q] = "idle")
      /\ \A q \in Procs \ {p} : pc'[q] = pc[q]
      /\ \A q : Sends(q)' = Sends(q) /\ OrderOf(q)' = OrderOf(q) /\ (Current(q))' = Current(q)
  BY <1>1 DEF Sender, Sends, OrderOf, Posting, Current, TypeInv, TypeOK
<1>4. Pending' = Pending
  <2>1. Open' = Open \cup {OrderOf(p)}
    BY <1>1, <1>2 DEF Open
  <2>2. {OrderOf(q) : q \in Posting} = {OrderOf(q) : q \in Posting'} \cup {OrderOf(p)}
    BY <1>3
  <2>3. Pending' = Open' \cup {OrderOf(q) : q \in Posting'}
    BY <1>3 DEF Pending
  <2> QED
    BY <2>1, <2>2, <2>3 DEF Pending
<1>5. RowsInv'
  <2>1. OneActive' /\ CopiesAsk' /\ ReservedIsFirst'
    BY <1>1, <1>3 DEF OrderInv, RowsInv, OneActive, Active, CopiesAsk, ReservedIsFirst
  <2>2. ASSUME op[at[p]].state \notin Final PROVE cur[p].gen <= op[at[p]].gen
    <3>1. Ahead(cur[p], op[at[p]])
      BY <1>1 DEF SendInv, CopiesFollow
    <3>2. cur[p].gen \in Nat /\ op[at[p]].gen \in Nat
      BY <1>2 DEF Rows
    <3> QED
      BY <2>2, <3>1, <3>2 DEF Ahead
  <2>3. ASSUME NEW q \in Posting', OrderOf(p).op = at[q] PROVE OrderOf(p).gen # cur[q].gen
    <3>1. q \in Procs /\ q # p /\ Sender(q)
      BY <1>3 DEF Posting, Sender
    <3> QED
      BY <1>2, <1>3, <2>3, <3>1 DEF OrderInv, RowsInv, GensApart
  <2>4. GensApart'
    BY <1>1, <1>2, <1>3, <2>2, <2>3 DEF OrderInv, RowsInv, GensApart
  <2>5. AcceptedWasSent'
    BY <1>1, <1>3 DEF OrderInv, RowsInv, AcceptedWasSent
  <2> QED
    BY <2>1, <2>4, <2>5 DEF RowsInv
<1>6. Quiet' = Quiet
  BY <1>1 DEF Quiet
<1>7. ASSUME RulesInv PROVE RulesInv'
  <2>1. PendingAtRow' /\ NoEffectYet' /\ ServiceFirst' /\ ConfirmedIsApplied'
    BY <1>1, <1>4, <1>7 DEF RulesInv, PendingAtRow, NoEffectYet, ServiceFirst,
                            ConfirmedIsApplied
  <2>2. \A y : Clear(y)' = Clear(y)
    BY <1>4 DEF Clear
  <2>3. ASSUME NEW q \in Procs PROVE ReadingTells(q)'
    <3>1. ReadingTells(q)
      BY <1>7 DEF RulesInv, ReadingsHold
    <3>2. pc'[q] = pc[q] \/ pc'[q] = "sent"
      BY <1>1, <1>3 DEF TypeInv, TypeOK
    <3> QED
      BY <1>1, <1>3, <2>2, <3>1, <3>2 DEF ReadingTells, Reads
  <2> QED
    BY <2>1, <2>3 DEF RulesInv, ReadingsHold
<1> QED
  BY <1>5, <1>6, <1>7 DEF OrderInv

\* The order of p was the only one, and it is gone.
LEMMA OrderRefused ==
  ASSUME TypeInv, SendInv, OrderInv, NEW p \in Procs, Refused(p)
  PROVE  OrderInv'
<1> DEFINE row == op[at[p]]
           s == cur[p].state
<1>1. /\ pc[p] = "sent" /\ s \in Sending /\ UNCHANGED <<service, rules, outside>>
      /\ OrderOf(p) \in orders /\ orders' = orders \ {OrderOf(p)}
  BY DEF Refused, TypeInv, Working
<1>2. at[p] \in OpIds /\ row \in Rows /\ Known(row)
  BY <1>1, RowAhead
<1>3. PICK next \in {"failed", "rule_ready"} :
        /\ Transition(p, {s}, Move(row, next))
        /\ next = "rule_ready" => s # "service_sending"
  BY DEF Refused
<1> DEFINE x == Update(p, {s}, Move(row, next))
<1>4. /\ x \in Rows /\ Known(x)
      /\ Alike(row, x) \/ Moves(row, x) \/ Stops(row, x)
      /\ x.state # "service_accepted" \/ x = row
      /\ x.state # "rule_confirmed" \/ x = row
      /\ Stage(row) \in InService => x.state \in Ended \/ x = row
      /\ x.state = "expired" => x = row
  <2>1. CASE x = row
    <3> HIDE DEF x
    <3> QED
      BY <1>2, <2>1 DEF Alike, SameStage
  <2>2. CASE x = Move(row, next) /\ row.state = s
    <3>1. next \in States /\ s \notin Ended \cup {"unconfirmed"} /\ "failed" \in Final
          /\ "rule_ready" \notin Ended \cup {"service_reserved", "unconfirmed"}
      BY <1>1, <1>3 DEF States, Due, NotSent, Final, Sending, Ended
    <3>2. /\ x \in Rows /\ x.state = next /\ x.type = row.type /\ x.addr = row.addr
          /\ next = "rule_ready" => x.gen = row.gen
      BY <1>2, <2>2, <3>1, MoveKeeps DEF Ended
    <3>3. Stage(row) = s /\ Known(x) /\ (next = "rule_ready" => Stage(x) = "rule_ready")
      BY <1>3, <2>2, <3>1, <3>2 DEF Stage, Known
    <3>4. next = "rule_ready" => s \in InClear \cup InCreate
      BY <1>1, <1>3 DEF Sending, InClear, InCreate
    <3>5. next = "rule_ready" => Moves(row, x)
      BY <2>2, <3>1, <3>2, <3>3, <3>4, StageGroups DEF Moves, Goes
    <3>6. next = "failed" => Stops(row, x)
      BY <2>2, <3>1, <3>2 DEF Stops
    <3>7. Stage(row) \in InService => x.state \in Ended
      BY <1>3, <3>1, <3>2, <3>3, <3>4, StageGroups DEF Ended
    <3> HIDE DEF x
    <3> QED
      BY <1>3, <3>2, <3>3, <3>5, <3>6, <3>7
  <2> QED
    BY <2>1, <2>2 DEF Update
<1>5. op' = [op EXCEPT ![at[p]] = x] /\ \A q \in Procs : Keeps(q, at[p], x)
  BY <1>3, ReturnKeeps DEF Transition
<1> HIDE DEF x
<1>6. StepOn(at[p], x)
  BY <1>1, <1>4, <1>5 DEF StepOn
<1>7. RowsInv'
  BY <1>2, <1>4, <1>6, RowsOn DEF OrderInv
<1>8. ASSUME Quiet' PROVE RulesInv'
  <2>1. RulesInv
    BY <1>1, <1>2, <1>4, <1>6, <1>8, QuietBefore DEF OrderInv
  <2>2. OrderOf(p).open = TRUE /\ OrderOf(p).op = at[p] /\ OrderOf(p).gen = cur[p].gen
    BY <1>1, OrderOfType
  <2>3. OrderOf(p) \in Pending
    BY <1>1, <2>2 DEF Pending, Open
  <2>4. \A m \in Pending : m = OrderOf(p)
    BY <2>1, <2>3, OnePending DEF OrderInv, RowsInv, RulesInv
  <2>5. OrderOf(p) \notin Pending'
    <3>1. OrderOf(p) \notin Open'
      BY <1>1 DEF Open
    <3>2. ASSUME NEW q \in Posting', OrderOf(q)' = OrderOf(p) PROVE FALSE
      <4>1. q \in Posting /\ OrderOf(q)' = OrderOf(q) /\ q \in Procs /\ pc[q] # "idle"
        BY <1>6, PostingOn DEF Posting, Sender
      <4>2. OrderOf(q).op = at[q] /\ OrderOf(q).gen = cur[q].gen
        BY <4>1, OrderOfType
      <4> QED
        BY <1>1, <2>2, <3>2, <4>1, <4>2 DEF OrderInv, RowsInv, GensApart
    <3> QED
      BY <3>1, <3>2 DEF Pending
  <2>6. PICK o \in OpIds : o = at[p]
    BY <1>2
  <2>7. Clear(o)'
    BY <1>6, <2>4, <2>5, PostingOn DEF Clear
  <2>8. x.state = "rule_confirmed" => Reached(x, rules)
    BY <1>2, <1>4, <2>1 DEF RulesInv, ConfirmedIsApplied
  <2>9. /\ RowsInv /\ UNCHANGED <<service, rules>>
        /\ x.state \notin Ended /\ Stage(row) \in InService
             => Stage(x) \in InService \/ service
    BY <1>1, <1>4 DEF OrderInv
  <2> QED
    BY <1>4, <1>6, <2>1, <2>6, <2>7, <2>8, <2>9, RulesOn
<1> QED
  BY <1>7, <1>8 DEF OrderInv

\* The one order left is carried out or dropped: nothing is pending any more.
LEMMA OrderSettle ==
  ASSUME TypeInv, SendInv, OrderInv, NEW m \in Open, Settle(m)
  PROVE  OrderInv'
<1> DEFINE closed == [m EXCEPT !.open = FALSE]
<1>1. /\ m \in orders /\ m \in Orders /\ UNCHANGED <<op, pc, at, cur, seen, outside>>
      /\ orders' = (orders \ {m}) \cup {closed}
      /\ service' = service \/ (service' = TRUE /\ m.do = "service")
      /\ rules' = rules \/ m.do # "service"
  BY DEF Settle, Open, TypeInv, TypeOK
<1>2. closed.op = m.op /\ closed.gen = m.gen /\ closed.open = FALSE
  BY <1>1 DEF Orders
<1> HIDE DEF closed
<1>3. /\ \A q : /\ (Sender(q))' = Sender(q) /\ Sends(q)' = Sends(q)
                /\ OrderOf(q)' = OrderOf(q) /\ (Current(q))' = Current(q)
      /\ Posting' = Posting /\ Posting \subseteq Procs
  BY <1>1 DEF Sender, Sends, OrderOf, Posting, Current
<1>4. RowsInv'
  <2>1. OneActive' /\ CopiesAsk' /\ ReservedIsFirst'
    BY <1>1, <1>3 DEF OrderInv, RowsInv, OneActive, Active, CopiesAsk, ReservedIsFirst
  <2>2. GensApart'
    BY <1>1, <1>2, <1>3 DEF OrderInv, RowsInv, GensApart
  <2>3. AcceptedWasSent'
    BY <1>1, <1>3 DEF OrderInv, RowsInv, AcceptedWasSent
  <2> QED
    BY <2>1, <2>2, <2>3 DEF RowsInv
<1>5. Quiet' = Quiet
  BY <1>1 DEF Quiet
<1>6. ASSUME RulesInv PROVE RulesInv'
  <2>1. m \in Pending /\ \A n \in Pending : n = m
    BY <1>6, OnePending DEF OrderInv, RowsInv, RulesInv, Pending
  <2>2. Posting = {}
    <3>1. ASSUME NEW q \in Posting PROVE FALSE
      <4>1. q \in Procs /\ pc[q] # "idle" /\ OrderOf(q) \in Pending
        BY DEF Posting, Pending
      <4>2. OrderOf(q) = m /\ OrderOf(q).op = at[q] /\ OrderOf(q).gen = cur[q].gen
        BY <2>1, <4>1, OrderOfType
      <4> QED
        BY <1>1, <4>2 DEF OrderInv, RowsInv, GensApart
    <3> QED
      BY <3>1
  <2>3. Pending' = {}
    <3>1. Open' = {}
      BY <1>1, <1>2, <2>1 DEF Pending, Open
    <3> QED
      BY <1>3, <2>2, <3>1 DEF Pending
  <2>4. m.op \in OpIds /\ IsAt(m, op[m.op]) /\ op[m.op].state \notin Ended
    BY <1>1, <1>6, <2>1 DEF Orders, RulesInv, PendingAtRow, IsAt
  <2>5. ASSUME NEW o \in OpIds, op[o].state \notin Ended PROVE o = m.op
    BY <2>4, <2>5 DEF OrderInv, RowsInv, OneActive, Active, Ended
  <2>6. op[m.op].state \notin {"service_reserved", "rule_confirmed"}
    BY <2>4, StageGroups DEF IsAt, Stage
  <2>7. PendingAtRow' /\ NoEffectYet'
    BY <2>3 DEF PendingAtRow, NoEffectYet
  <2>8. ServiceFirst'
    <3>1. \A o \in OpIds : op[o].state # "service_reserved"
      BY <2>5, <2>6 DEF Ended, Final
    <3> QED
      BY <1>1, <1>6, <3>1 DEF RulesInv, ServiceFirst
  <2>9. ASSUME NEW q \in Procs PROVE ReadingTells(q)'
    <3>1. ReadingTells(q) /\ \A y : Clear(y)'
      BY <1>6, <2>3 DEF RulesInv, ReadingsHold, Clear
    <3>2. ASSUME pc[q] # "idle", Current(q) PROVE at[q] = m.op
      BY <2>5, <3>2, RowAhead DEF Current
    <3>3. ASSUME Reads(q), Clear(at[q]) PROVE FALSE
      BY <2>1, <3>2, <3>3 DEF Reads, Clear
    <3>4. ASSUME pc[q] # "idle", Current(q), cur[q].state = "rule_ready" PROVE FALSE
      BY <1>6, <2>1, <3>2, <3>4, PendingStage DEF Stage
    <3>5. pc[q] \in {"decide", "quota", "claim"} => pc[q] # "idle"
      OBVIOUS
    <3>6. (Reads(q))' = Reads(q)
      BY <1>1, <1>3 DEF Reads
    <3> QED
      BY <1>1, <1>3, <3>1, <3>3, <3>4, <3>5, <3>6 DEF ReadingTells
  <2>10. ConfirmedIsApplied'
    <3>1. \A o \in OpIds : op[o].state # "rule_confirmed"
      BY <2>5, <2>6 DEF Ended, Final
    <3> QED
      BY <1>1, <3>1 DEF ConfirmedIsApplied
  <2> QED
    BY <2>7, <2>8, <2>9, <2>10 DEF RulesInv, ReadingsHold
<1> QED
  BY <1>4, <1>5, <1>6 DEF OrderInv

-----------------------------------------------------------------------------
(***************************************************************************)
(* The next order.                                                         *)
(***************************************************************************)
\* What claimSend writes: the order follows from what the process has read.
Claims(p, r, x) ==
  /\ r.state = cur[p].state /\ r.state \in NotSent
  /\ x \in Rows /\ x.gen = r.gen + 1 /\ x.type = r.type /\ x.addr = r.addr
  /\ \/ r.state = "service_reserved" /\ x.state = "service_sending"
     \/ /\ r.state = "rule_ready" /\ x.state = "rule_sending"
        /\ Conflicts(cur[p], seen[p].rules) = {}
     \/ /\ r.state = "rule_ready" /\ x.state = "rule_clear_sending"
        /\ x.action \in Conflicts(cur[p], seen[p].rules)

LEMMA ClaimWrites ==
  ASSUME TypeInv, TypeInv', SendInv, NEW p \in Procs, ClaimSend(p),
         ~(UNCHANGED op /\ Return(p, op[at[p]]))
  PROVE  \E x : /\ Claims(p, op[at[p]], x)
                /\ op' = [op EXCEPT ![at[p]] = x] /\ Resume(p, "post", x)
<1> DEFINE r == op[at[p]]
           found == Conflicts(cur[p], seen[p].rules)
           claim(s, t) ==
             [r EXCEPT !.state = s, !.owner = p, !.live = TRUE, !.action = t,
               !.late = FALSE, !.gen = @ + 1,
               !.attempts = IF s = "service_sending" THEN @ ELSE @ + 1]
           S == IF cur[p].state = "service_reserved"
                THEN {claim("service_sending", None)}
                ELSE IF found = {} THEN {claim("rule_sending", None)}
                     ELSE {claim("rule_clear_sending", t) : t \in found}
<1>1. pc[p] = "claim" /\ cur[p].state \in NotSent
  BY DEF ClaimSend, TypeInv, Working
<1>2. at[p] \in OpIds /\ r \in Rows
  BY <1>1, RowAhead
<1>3. r.state = cur[p].state /\ \E x \in S : op' = [op EXCEPT ![at[p]] = x]
                                               /\ Resume(p, "post", x)
  BY DEF ClaimSend
<1>4. ASSUME NEW s, NEW t
      PROVE  /\ claim(s, t).state = s /\ claim(s, t).gen = r.gen + 1
             /\ claim(s, t).type = r.type /\ claim(s, t).addr = r.addr
             /\ claim(s, t).action = t
  BY <1>2 DEF Rows
<1>5. PICK x \in S : op' = [op EXCEPT ![at[p]] = x] /\ Resume(p, "post", x)
  BY <1>3
<1>6. x \in Rows
  BY <1>2, <1>5 DEF TypeInv, TypeOK
<1> HIDE DEF claim, found
<1>7. \E s, t : /\ x = claim(s, t)
                /\ \/ cur[p].state = "service_reserved" /\ s = "service_sending"
                   \/ cur[p].state # "service_reserved" /\ s = "rule_sending" /\ found = {}
                   \/ cur[p].state # "service_reserved" /\ s = "rule_clear_sending" /\ t \in found
  BY <1>5
<1>8. Claims(p, r, x)
  BY <1>1, <1>3, <1>4, <1>6, <1>7 DEF Claims, NotSent, found
<1> QED
  BY <1>5, <1>8

\* A new generation: no copy and no order is of it yet.
LEMMA ClaimRows ==
  ASSUME TypeInv, SendInv, RowsInv, NEW p \in Procs, pc[p] = "claim", UNCHANGED orders,
         NEW o \in OpIds, o = at[p], NEW x, Claims(p, op[o], x),
         op' = [op EXCEPT ![o] = x], Resume(p, "post", x)
  PROVE  /\ \A q \in Procs : pc[q] # "idle" /\ at[q] = o => cur[q].gen <= op[o].gen
         /\ RowsInv'
<1> DEFINE r == op[o]
<1>1. r \in Rows /\ x \in Rows /\ r.gen \in Nat /\ x.gen = r.gen + 1
      /\ r.state \in NotSent /\ x.state \in Sending
      /\ r.state \notin Ended /\ x.state \notin Ended /\ x.state \notin NotSent
      /\ Stage(r) = r.state /\ Stage(x) = x.state
      /\ x.type = r.type /\ x.addr = r.addr
  BY DEF TypeInv, TypeOK, Claims, Rows, Sending, NotSent, Ended, Final, Stage
<1>2. op'[o] = x /\ \A y \in OpIds \ {o} : op'[y] = op[y]
  BY DEF TypeInv, TypeOK
<1>3. /\ pc'[p] = "post" /\ at'[p] = o /\ cur'[p] = Copy(x)
      /\ \A q \in Procs \ {p} : pc'[q] = pc[q] /\ at'[q] = at[q] /\ cur'[q] = cur[q]
  BY DEF Resume, TypeInv, TypeOK
<1>4. ASSUME NEW q \in Procs, pc[q] # "idle"
      PROVE  /\ at[q] \in OpIds /\ cur[q].gen \in Nat
             /\ at[q] = o => cur[q].gen <= r.gen
  <2>1. at[q] \in OpIds /\ cur[q] \in Rows /\ Ahead(cur[q], op[at[q]])
    BY <1>4, RowAhead DEF SendInv, CopiesFollow
  <2> QED
    BY <1>1, <2>1 DEF Ahead, Rows, Ended
<1>5. /\ Copy(x).state = x.state /\ Copy(x).gen = x.gen /\ Copy(x).type = x.type
      /\ Copy(x).addr = x.addr /\ Copy(x).action = x.action
  BY <1>1, CopySame
<1>6. OneActive'
  BY <1>1, <1>2 DEF RowsInv, OneActive, Active, Ended
<1>7. CopiesAsk'
  <2>1. ASSUME NEW q \in Procs \ {p}, pc[q] # "idle"
        PROVE  /\ cur[q].type = op'[at[q]].type /\ cur[q].addr = op'[at[q]].addr
               /\ at[q] = o => cur[q].gen # op'[at[q]].gen
    BY <1>1, <1>2, <1>4, <2>1 DEF RowsInv, CopiesAsk
  <2>2. ASSUME NEW q \in Procs \ {p}, pc'[q] # "idle"
        PROVE  /\ cur'[q].type = op'[at'[q]].type /\ cur'[q].addr = op'[at'[q]].addr
               /\ (Current(q))' /\ Stage(cur'[q]) \in InClear /\ Stage(op'[at'[q]]) \in InClear
                  => cur'[q].action = op'[at'[q]].action
    <3>1. CASE at[q] = o
      BY <1>3, <2>1, <2>2, <3>1 DEF Current
    <3>2. CASE at[q] # o
      <4>1. op'[at[q]] = op[at[q]]
        BY <1>2, <1>3, <1>4, <2>2, <3>2
      <4> QED
        BY <1>3, <2>1, <2>2, <4>1 DEF Current, RowsInv, CopiesAsk
    <3> QED
      BY <3>1, <3>2
  <2>3. /\ cur'[p].type = op'[at'[p]].type /\ cur'[p].addr = op'[at'[p]].addr
        /\ cur'[p].action = op'[at'[p]].action
    BY <1>2, <1>3, <1>5
  <2> QED
    BY <2>2, <2>3 DEF CopiesAsk
<1>8. \A q \in Procs \ {p} : /\ (Sender(q))' = Sender(q) /\ Sends(q)' = Sends(q)
                             /\ (q \in Posting)' <=> q \in Posting
  BY <1>3 DEF Sender, Sends, OrderOf, Posting
<1>9. GensApart'
  <2>1. ASSUME NEW m \in orders
        PROVE  /\ m.op \in OpIds /\ m.gen \in Nat /\ (m.op = o => m.gen <= r.gen)
               /\ op'[m.op].state \notin Final => m.gen <= op'[m.op].gen
    <3>1. m.op \in OpIds /\ m.gen \in Nat
      BY DEF TypeInv, TypeOK, Orders
    <3>2. op[m.op].state \notin Final => m.gen <= op[m.op].gen
      BY DEF RowsInv, GensApart
    <3> QED
      BY <1>1, <1>2, <3>1, <3>2 DEF Ended
  <2>2. ASSUME NEW q \in Procs \ {p}, Sender(q), at[q] = o PROVE cur[q].gen # x.gen
    BY <1>1, <1>4, <2>2 DEF Sender
  <2>3. \A q, u \in Procs : (Sender(q))' /\ (Sender(u))' /\ at'[q] = at'[u]
                              /\ cur'[q].gen = cur'[u].gen => q = u
    BY <1>3, <1>5, <1>8, <2>2 DEF RowsInv, GensApart
  <2>4. \A q \in Posting', m \in orders' : m.op = at'[q] => m.gen # cur'[q].gen
    <3>1. ASSUME NEW m \in orders, m.op = o PROVE m.gen # x.gen
      BY <1>1, <2>1, <3>1
    <3>2. ASSUME NEW q \in Posting', NEW m \in orders, m.op = at'[q]
          PROVE  m.gen # cur'[q].gen
      BY <1>3, <1>5, <1>8, <3>1, <3>2 DEF Posting, RowsInv, GensApart
    <3> QED
      BY <3>2
  <2> QED
    BY <2>1, <2>3, <2>4 DEF GensApart
<1>10. AcceptedWasSent'
  <2>1. x.state # "service_accepted" /\ x.state \in {"service_sending"} \cup (Sending \ {"service_sending"})
    BY <1>1 DEF Sending
  <2>2. ASSUME NEW q \in Procs \ {p}, q \in Posting, Sends(q) = "service"
        PROVE  /\ op'[at[q]].state # "service_accepted"
               /\ \A u \in Procs : pc[u] # "idle" /\ at[u] = at[q]
                                     => cur[u].state # "service_accepted"
    BY <1>2, <1>4, <2>1, <2>2 DEF RowsInv, AcceptedWasSent, Posting
  <2>3. ASSUME Sends(p)' = "service", NEW u \in Procs \ {p}, pc[u] # "idle", at[u] = o
        PROVE  cur[u].state # "service_accepted"
    <3>1. x.state = "service_sending"
      BY <1>3, <1>5, <2>3 DEF Sends, OrderOf
    <3>2. r.state = "service_reserved" /\ r.gen = 0
      BY <3>1 DEF Claims, RowsInv, ReservedIsFirst
    <3>3. cur[u].gen = 0 /\ Ahead(cur[u], r)
      BY <1>1, <1>4, <2>3, <3>2 DEF SendInv, CopiesFollow
    <3>4. Goes(Stage(cur[u]), "service_reserved")
      BY <1>1, <3>2, <3>3 DEF Ahead, Ended
    <3>5. Stage(cur[u]) = "service_reserved"
      BY <3>4, StageGroups
    <3> QED
      BY <3>5 DEF Stage
  <2>4. op'[o].state # "service_accepted" /\ cur'[p].state # "service_accepted"
    BY <1>2, <1>3, <1>5, <2>1
  <2>5. ASSUME NEW q \in Posting', Sends(q)' = "service"
        PROVE  /\ op'[at'[q]].state # "service_accepted"
               /\ \A u \in Procs : pc'[u] # "idle" /\ at'[u] = at'[q]
                                     => cur'[u].state # "service_accepted"
    <3>1. CASE q = p
      BY <1>3, <2>3, <2>4, <2>5, <3>1
    <3>2. CASE q # p
      <4>1. q \in Procs \ {p} /\ q \in Posting /\ Sends(q) = "service" /\ at'[q] = at[q]
        BY <1>3, <1>8, <2>5, <3>2 DEF Posting
      <4> QED
        BY <1>3, <2>2, <2>4, <4>1
    <3> QED
      BY <3>1, <3>2
  <2> QED
    BY <2>5 DEF AcceptedWasSent
<1>11. ReservedIsFirst'
  BY <1>1, <1>2 DEF RowsInv, ReservedIsFirst, NotSent
<1> QED
  BY <1>4, <1>6, <1>7, <1>9, <1>10, <1>11 DEF RowsInv

LEMMA ClaimRules ==
  ASSUME TypeInv, SendInv, RowsInv, RulesInv, NEW p \in Procs, pc[p] = "claim",
         UNCHANGED <<remote>>, NEW o \in OpIds, o = at[p], NEW x, Claims(p, op[o], x),
         op[o].gen = cur[p].gen, op' = [op EXCEPT ![o] = x], Resume(p, "post", x)
  PROVE  RulesInv'
<1> DEFINE r == op[o]
<1>1. r \in Rows /\ x \in Rows /\ r.gen \in Nat /\ x.gen = r.gen + 1
      /\ r.state \in NotSent /\ x.state \in Sending
      /\ r.state \notin Ended /\ x.state \notin Ended /\ x.state \notin NotSent
      /\ x.state # "rule_confirmed"
      /\ Stage(r) = r.state /\ Stage(x) = x.state
      /\ x.type = r.type /\ x.addr = r.addr
  BY DEF TypeInv, TypeOK, Claims, Rows, Sending, NotSent, Ended, Final, Stage
<1>2. op'[o] = x /\ \A y \in OpIds \ {o} : op'[y] = op[y]
  BY DEF TypeInv, TypeOK
<1>3. /\ pc'[p] = "post" /\ at'[p] = o /\ cur'[p] = Copy(x) /\ seen'[p] = NoReading
      /\ \A q \in Procs \ {p} : /\ pc'[q] = pc[q] /\ at'[q] = at[q] /\ cur'[q] = cur[q]
                                /\ seen'[q] = seen[q]
  BY DEF Resume, TypeInv, TypeOK
<1>4. UNCHANGED <<service, rules, orders>>
  BY DEF remote
<1>5. Pending = {}
  <2>1. ASSUME NEW m \in Pending PROVE FALSE
    <3>1. m.op \in OpIds /\ IsAt(m, op[m.op])
      BY PendingType DEF RulesInv, PendingAtRow
    <3>2. m.op = o
      BY <1>1, <3>1 DEF IsAt, RowsInv, OneActive, Active, Ended
    <3> QED
      BY <1>1, <3>1, <3>2, StageGroups DEF IsAt, NotSent
  <2> QED
    BY <2>1
<1>6. \A m \in Pending' : m = OrderOf(p)'
  <2>1. Posting' \subseteq Posting \cup {p} /\ \A q \in Procs \ {p} : OrderOf(q)' = OrderOf(q)
    BY <1>3 DEF Posting, OrderOf
  <2>2. \A q \in Posting : OrderOf(q) \in Pending
    BY DEF Pending
  <2>3. Posting = {} /\ Open = {}
    BY <1>5, <2>2 DEF Pending
  <2> QED
    BY <1>4, <2>1, <2>3 DEF Pending, Open
<1> DEFINE n == OrderOf(p)'
<1>7. /\ n.op = o /\ n.gen = x.gen
      /\ x.state = "service_sending" => n.do = "service" /\ n.type = None /\ n.addr = None
      /\ x.state = "rule_clear_sending"
           => n.do = "delete" /\ n.type = x.action /\ n.addr = None
      /\ x.state = "rule_sending" => n.do = "create" /\ n.type = x.type /\ n.addr = x.addr
  <2>1. /\ Copy(x).state = x.state /\ Copy(x).gen = x.gen /\ Copy(x).type = x.type
        /\ Copy(x).addr = x.addr /\ Copy(x).action = x.action
    BY <1>1, CopySame
  <2> QED
    BY <1>3, <2>1 DEF OrderOf
<1>8. PendingAtRow'
  <2>1. IsAt(n, x)
    BY <1>1, <1>7 DEF IsAt, Sending, InService, InClear, InCreate
  <2> HIDE DEF n
  <2>2. \A m \in Pending' : IsAt(m, op'[m.op])
    BY <1>2, <1>6, <1>7, <2>1 DEF n
  <2> QED
    BY <2>2 DEF PendingAtRow
<1>9. r.state = "rule_ready" =>
        /\ seen[p].rules = rules /\ ~Reached(cur[p], rules)
        /\ cur[p].type = r.type /\ cur[p].addr = r.addr
        /\ r.type # None => service
  <2>1. r.state = "rule_ready" => seen[p].rules = rules /\ ~Reached(cur[p], seen[p].rules)
    <3>1. ReadingTells(p) /\ Current(p) /\ cur[p].state = r.state
      BY <1>1 DEF RulesInv, ReadingsHold, Current, Claims
    <3> QED
      BY <3>1 DEF ReadingTells
  <2>2. cur[p].type = r.type /\ cur[p].addr = r.addr
    BY DEF RowsInv, CopiesAsk
  <2>3. r.state = "rule_ready" /\ r.type # None => service
    BY <1>1 DEF RulesInv, ServiceFirst, InService, Awaiting
  <2> QED
    BY <2>1, <2>2, <2>3
<1>10. NoEffectYet'
  <2>1. x.state = "service_sending" => ~service
    BY <1>1 DEF Claims, RulesInv, ServiceFirst
  <2>2. x.state = "rule_clear_sending" => x.action \in Types /\ rules[x.action] # None
    BY <1>9 DEF Claims, Conflicts
  <2>3. x.state = "rule_sending" =>
          /\ service /\ x.type \in Types /\ rules[x.type] # x.addr
          /\ \A t \in Types \ {x.type} : rules[t] = None
    <3>1. x.type \in Types \cup {None}
      BY <1>1 DEF Rows
    <3> QED
      BY <1>1, <1>9, <3>1 DEF Claims, Conflicts, Reached
  <2> HIDE DEF n
  <2>4. x.state \in {"service_sending", "rule_clear_sending", "rule_sending"}
    BY <1>1 DEF Sending
  <2>5. \A m \in Pending' :
          /\ m.do # "service" => m.type \in Types
          /\ m.do = "service" => ~service
          /\ m.do = "delete" => rules[m.type] # None
          /\ m.do = "create" => /\ service /\ rules[m.type] # m.addr
                                /\ \A t \in Types \ {m.type} : rules[t] = None
    BY <1>6, <1>7, <2>1, <2>2, <2>3, <2>4 DEF n
  <2> QED
    BY <1>4, <2>5 DEF NoEffectYet
<1>11. ServiceFirst'
  <2>1. x.state # "service_reserved"
        /\ (x.type # None /\ Stage(x) \notin InService => service)
    BY <1>1, <1>9 DEF Claims, NotSent, InService
  <2> QED
    BY <1>2, <1>4, <2>1 DEF RulesInv, ServiceFirst
<1>12. ASSUME NEW q \in Procs PROVE ReadingTells(q)'
  <2>1. CASE q = p
    BY <1>3, <2>1 DEF ReadingTells, Reads, NoReading, Reading
  <2>2. CASE q # p
    <3>1. ReadingTells(q)
      BY DEF RulesInv, ReadingsHold
    <3>2. pc'[q] = pc[q] /\ at'[q] = at[q] /\ cur'[q] = cur[q] /\ seen'[q] = seen[q]
      BY <1>3, <2>2
    <3>3. ASSUME pc[q] # "idle", (Current(q))'
          PROVE  Current(q) /\ at[q] # o
      <4>1. at[q] \in OpIds /\ cur[q] \in Rows
        BY <3>3, RowAhead
      <4>2. at[q] = o => cur[q].gen <= r.gen /\ cur[q].gen \in Nat
        BY <1>4, <3>3, <4>1, ClaimRows DEF Rows
      <4>3. at[q] = o => cur[q].gen = x.gen
        BY <1>2, <3>2, <3>3 DEF Current
      <4>4. at[q] # o
        BY <1>1, <4>2, <4>3
      <4> QED
        BY <1>2, <3>2, <3>3, <4>1, <4>4 DEF Current
    <3>4. at[q] # o => (Clear(at[q]))'
      <4> HIDE DEF n
      <4> QED
        BY <1>6, <1>7, <3>2 DEF Clear, n
    <3>5. pc[q] \in {"decide", "quota", "claim"} => pc[q] # "idle"
      OBVIOUS
    <3> QED
      BY <1>4, <3>1, <3>2, <3>3, <3>4, <3>5 DEF ReadingTells, Reads
  <2> QED
    BY <2>1, <2>2
<1>13. ConfirmedIsApplied'
  BY <1>1, <1>2, <1>4 DEF RulesInv, ConfirmedIsApplied
<1> QED
  BY <1>8, <1>10, <1>11, <1>12, <1>13 DEF RulesInv, ReadingsHold

LEMMA OrderClaimSend ==
  ASSUME ~SlowReads, TypeInv, TypeInv', SendInv, OrderInv, NEW p \in Procs, ClaimSend(p)
  PROVE  OrderInv'
<1>1. pc[p] = "claim" /\ UNCHANGED <<remote, outside>>
  BY DEF ClaimSend
<1>2. CASE UNCHANGED op /\ Return(p, op[at[p]])
  BY <1>1, <1>2, ReturnOrder
<1>3. CASE ~(UNCHANGED op /\ Return(p, op[at[p]]))
  <2>1. PICK x : /\ Claims(p, op[at[p]], x)
                 /\ op' = [op EXCEPT ![at[p]] = x] /\ Resume(p, "post", x)
    BY <1>3, ClaimWrites
  <2>2. PICK o \in OpIds : o = at[p]
    BY <1>1, RowAhead
  <2>3. op[o].gen = cur[p].gen
    BY <2>1, <2>2 DEF ClaimSend, Claims
  <2>4. RowsInv'
    BY <1>1, <2>1, <2>2, ClaimRows DEF OrderInv, remote
  <2>5. Quiet' => Quiet
    BY <1>1, <2>1, <2>2 DEF Quiet, Claims, NotSent, TypeInv, TypeOK
  <2>6. Quiet' => RulesInv'
    BY <1>1, <2>1, <2>2, <2>3, <2>5, ClaimRules DEF OrderInv
  <2> QED
    BY <2>4, <2>6 DEF OrderInv
<1> QED
  BY <1>2, <1>3

\* A new operation starts when none is active, and so with no order pending.
LEMMA OrderReserve ==
  ASSUME TypeInv, SendInv, OrderInv, NEW o \in OpIds, NEW t, NEW a, Reserve(o, t, a)
  PROVE  OrderInv'
<1>1. /\ op[o] = NoRow /\ o \in Procs /\ \A y \in OpIds : ~Active(y)
      /\ UNCHANGED <<seen, service, rules, orders, outside>>
  BY DEF Reserve, remote, Procs
<1>2. PICK r : /\ op' = [op EXCEPT ![o] = r] /\ pc' = [pc EXCEPT ![o] = "step"]
               /\ at' = [at EXCEPT ![o] = o] /\ cur' = [cur EXCEPT ![o] = Copy(r)]
               /\ r.state \in NotSent /\ r.type = t /\ r.addr = a /\ r.gen = 0
               /\ Copy(r).type = t /\ Copy(r).addr = a /\ Copy(r).action = r.action
               /\ Copy(r).state = r.state
               /\ r.state = "service_reserved" => ~service
               /\ r.state = "rule_ready" /\ t # None => service
  <2> DEFINE s == IF t = None \/ service THEN "rule_ready" ELSE "service_reserved"
             r == [NoRow EXCEPT !.state = s, !.type = t, !.addr = a]
  <2>1. /\ r.state = s /\ r.type = t /\ r.addr = a /\ r.gen = 0
        /\ Copy(r).type = t /\ Copy(r).addr = a /\ Copy(r).action = r.action
        /\ Copy(r).state = r.state
    BY DEF NoRow, Copy
  <2>2. /\ s \in NotSent /\ (s = "service_reserved" => ~service)
        /\ s = "rule_ready" /\ t # None => service
    BY DEF NotSent
  <2>3. /\ op' = [op EXCEPT ![o] = r] /\ pc' = [pc EXCEPT ![o] = "step"]
        /\ at' = [at EXCEPT ![o] = o] /\ cur' = [cur EXCEPT ![o] = Copy(r)]
    BY DEF Reserve
  <2> HIDE DEF r
  <2> QED
    BY <2>1, <2>2, <2>3
<1>3. /\ op'[o] = r /\ \A y \in OpIds \ {o} : op'[y] = op[y]
      /\ pc'[o] = "step" /\ at'[o] = o /\ cur'[o] = Copy(r)
      /\ \A q \in Procs \ {o} : pc'[q] = pc[q] /\ at'[q] = at[q] /\ cur'[q] = cur[q]
  BY <1>1, <1>2 DEF TypeInv, TypeOK
<1>4. \A y \in OpIds : op[y].state \in Ended
  BY <1>1 DEF Active, Ended
<1>5. r.state \notin Ended \cup {"rule_confirmed"} /\ op[o].state = "absent"
  BY <1>1, <1>2 DEF NotSent, Ended, Final, NoRow
<1>6. ASSUME NEW q \in Procs, pc[q] # "idle" PROVE at[q] \in OpIds /\ at[q] # o
  BY <1>5, <1>6 DEF TypeInv, Working, SendInv, CopiesFollow
<1>7. ASSUME NEW q \in Procs, (Sender(q))'
      PROVE  /\ q # o /\ Sender(q) /\ pc'[q] = pc[q] /\ at'[q] = at[q] /\ cur'[q] = cur[q]
             /\ Sends(q)' = Sends(q) /\ at[q] \in OpIds /\ at[q] # o
  BY <1>3, <1>6, <1>7 DEF Sender, Sends, OrderOf
<1>8. RowsInv'
  <2>1. OneActive'
    BY <1>3, <1>4 DEF OneActive, Active, Ended
  <2>2. CopiesAsk'
    <3>1. ASSUME NEW q \in Procs, q # o, pc'[q] # "idle"
          PROVE  /\ cur'[q].type = op'[at'[q]].type /\ cur'[q].addr = op'[at'[q]].addr
                 /\ op'[at'[q]].state \in Ended
      BY <1>3, <1>4, <1>6, <3>1 DEF OrderInv, RowsInv, CopiesAsk
    <3>2. /\ cur'[o].type = op'[at'[o]].type /\ cur'[o].addr = op'[at'[o]].addr
          /\ cur'[o].action = op'[at'[o]].action
      BY <1>2, <1>3
    <3> QED
      BY <3>1, <3>2 DEF CopiesAsk, Current
  <2>3. GensApart'
    <3>1. ASSUME NEW m \in orders PROVE m.op \in OpIds /\ m.op # o
      BY <1>5 DEF SendInv, OrdersAnswered, RowAnswers, TypeInv, TypeOK, Orders
    <3>2. \A m \in orders : op'[m.op].state \notin Final => m.gen <= op'[m.op].gen
      BY <1>3, <3>1 DEF OrderInv, RowsInv, GensApart
    <3>3. \A q, u \in Procs : (Sender(q))' /\ (Sender(u))' /\ at'[q] = at'[u]
                                /\ cur'[q].gen = cur'[u].gen => q = u
      BY <1>7 DEF OrderInv, RowsInv, GensApart
    <3>4. ASSUME NEW q \in Posting', NEW m \in orders, m.op = at'[q]
          PROVE  m.gen # cur'[q].gen
      BY <1>7, <3>4 DEF Posting, Sender, OrderInv, RowsInv, GensApart
    <3> QED
      BY <1>1, <3>2, <3>3, <3>4 DEF GensApart
  <2>4. AcceptedWasSent'
    <3>1. ASSUME NEW q \in Posting', Sends(q)' = "service"
          PROVE  /\ op'[at'[q]].state # "service_accepted"
                 /\ \A u \in Procs : pc'[u] # "idle" /\ at'[u] = at'[q]
                                       => cur'[u].state # "service_accepted"
      <4>1. /\ q \in Posting /\ at'[q] = at[q] /\ Sends(q) = "service"
            /\ at[q] \in OpIds /\ at[q] # o
        BY <1>7, <3>1 DEF Posting, Sender
      <4>2. /\ op[at[q]].state # "service_accepted"
            /\ \A u \in Procs : pc[u] # "idle" /\ at[u] = at[q]
                                  => cur[u].state # "service_accepted"
        BY <4>1 DEF OrderInv, RowsInv, AcceptedWasSent
      <4> QED
        BY <1>3, <4>1, <4>2
    <3> QED
      BY <3>1 DEF AcceptedWasSent
  <2>5. ReservedIsFirst'
    BY <1>2, <1>3 DEF OrderInv, RowsInv, ReservedIsFirst
  <2> QED
    BY <2>1, <2>2, <2>3, <2>4, <2>5 DEF RowsInv
<1>9. Quiet' => Quiet
  BY <1>1, <1>3, <1>5 DEF Quiet
<1>10. ASSUME RulesInv PROVE RulesInv'
  <2>1. Pending = {}
    <3>1. ASSUME NEW m \in Pending PROVE FALSE
      BY <1>4, <1>10, PendingType DEF RulesInv, PendingAtRow, IsAt
    <3> QED
      BY <3>1
  <2>2. Pending' = {}
    <3>1. \A q \in Posting' : q \in Posting
      BY <1>7 DEF Posting, Sender
    <3>2. \A q \in Posting : OrderOf(q) \in Pending
      BY DEF Pending
    <3>3. Posting' = {} /\ Open' = {}
      BY <1>1, <2>1, <3>1, <3>2 DEF Pending, Open
    <3> QED
      BY <3>3 DEF Pending
  <2>3. PendingAtRow' /\ NoEffectYet'
    BY <2>2 DEF PendingAtRow, NoEffectYet
  <2>4. ServiceFirst'
    <3>1. r.state \notin Ended \cup {"service_reserved"} => r.state = "rule_ready"
      BY <1>2 DEF NotSent
    <3> QED
      BY <1>1, <1>2, <1>3, <1>10, <3>1 DEF RulesInv, ServiceFirst
  <2>5. ASSUME NEW q \in Procs PROVE ReadingTells(q)'
    <3>1. ReadingTells(q) /\ (Clear(at[q]))'
      BY <1>10, <2>2 DEF RulesInv, ReadingsHold, Clear
    <3>2. CASE q = o
      BY <1>1, <1>3, <3>1, <3>2 DEF ReadingTells, Reads
    <3>3. CASE q # o
      <4>1. pc'[q] = pc[q] /\ at'[q] = at[q] /\ cur'[q] = cur[q] /\ seen'[q] = seen[q]
        BY <1>1, <1>3, <3>3
      <4>2. pc[q] # "idle" => ~(Current(q))'
        BY <1>3, <1>4, <1>6, <4>1 DEF Current
      <4>3. pc[q] \in {"decide", "quota", "claim"} => pc[q] # "idle"
        OBVIOUS
      <4> QED
        BY <1>1, <3>1, <4>1, <4>2, <4>3 DEF ReadingTells, Reads
    <3> QED
      BY <3>2, <3>3
  <2>6. ConfirmedIsApplied'
    BY <1>1, <1>3, <1>5, <1>10 DEF RulesInv, ConfirmedIsApplied
  <2> QED
    BY <2>3, <2>4, <2>5, <2>6 DEF RulesInv, ReadingsHold
<1> QED
  BY <1>8, <1>9, <1>10 DEF OrderInv

\* Steps that touch neither the operations nor, when it is quiet, the operator.
LEMMA OrderAside ==
  ASSUME TypeInv, OrderInv, UNCHANGED <<op, pc, at, cur, seen, orders>>,
         UNCHANGED <<remote, outside>> \/ ~Quiet'
  PROVE  OrderInv'
<1>1. /\ \A q : /\ (Sender(q))' = Sender(q) /\ Sends(q)' = Sends(q)
                /\ OrderOf(q)' = OrderOf(q) /\ (Current(q))' = Current(q)
      /\ Posting' = Posting /\ Pending' = Pending
  BY DEF Sender, Sends, OrderOf, Posting, Current, Pending, Open
<1>2. RowsInv'
  <2>1. OneActive' /\ CopiesAsk' /\ ReservedIsFirst'
    BY <1>1 DEF OrderInv, RowsInv, OneActive, Active, CopiesAsk, ReservedIsFirst
  <2>2. GensApart' /\ AcceptedWasSent'
    BY <1>1 DEF OrderInv, RowsInv, GensApart, AcceptedWasSent
  <2> QED
    BY <2>1, <2>2 DEF RowsInv
<1>3. ASSUME Quiet' PROVE RulesInv'
  <2>1. UNCHANGED <<service, rules>> /\ RulesInv
    BY <1>3 DEF remote, OrderInv, Quiet
  <2>2. PendingAtRow' /\ NoEffectYet' /\ ServiceFirst' /\ ConfirmedIsApplied'
    BY <1>1, <2>1 DEF RulesInv, PendingAtRow, NoEffectYet, ServiceFirst, ConfirmedIsApplied
  <2>3. \A y : Clear(y)' = Clear(y)
    BY <1>1 DEF Clear
  <2>4. \A q \in Procs : ReadingTells(q)' = ReadingTells(q)
    BY <1>1, <2>1, <2>3 DEF ReadingTells, Reads
  <2> QED
    BY <2>1, <2>2, <2>4 DEF RulesInv, ReadingsHold
<1> QED
  BY <1>2, <1>3 DEF OrderInv

-----------------------------------------------------------------------------
(***************************************************************************)
(* All steps.                                                              *)
(***************************************************************************)
LEMMA OrderInit == Init => OrderInv
<1> SUFFICES ASSUME Init PROVE OrderInv
  OBVIOUS
<1>1. Pending = {} /\ \A p \in Procs : pc[p] = "idle" /\ seen[p].answer = "none"
  BY DEF Init, Pending, Posting, Open, NoReading, Reading
<1>2. orders = {} /\ \A o \in OpIds : op[o].state = "absent"
  BY DEF Init, NoRow
<1>3. RowsInv
  BY <1>1, <1>2 DEF RowsInv, OneActive, Active, CopiesAsk, GensApart, AcceptedWasSent,
                    ReservedIsFirst, Sender, Posting
<1>4. PendingAtRow /\ NoEffectYet /\ ServiceFirst /\ ConfirmedIsApplied
  BY <1>1, <1>2 DEF PendingAtRow, NoEffectYet, ServiceFirst, ConfirmedIsApplied, Ended
<1>5. ReadingsHold
  BY <1>1 DEF ReadingsHold, ReadingTells, Reads
<1> QED
  BY <1>3, <1>4, <1>5 DEF OrderInv, RulesInv

LEMMA OrderStep ==
  ASSUME ~SlowReads, TypeInv, TypeInv', SendInv, OrderInv, [Next]_vars
  PROVE  OrderInv'
<1>1. CASE \E o \in OpIds : AskSet(o) \/ AskRemove(o)
  BY <1>1, OrderReserve DEF AskSet, AskRemove
<1>2. CASE \E p \in Procs : Step(p) \/ Abort(p)
  BY <1>2, OrderReadRules, OrderReadServices, OrderDecideService, OrderDecideVerified,
     OrderDecideRule, OrderStartService, OrderEnsureQuota, OrderClaimSend, OrderPost,
     OrderAnswered, OrderRefused, OrderFinish, OrderAbort DEF Step
<1>3. CASE \E o \in OpIds : \/ \E w \in Workers : ClaimDue(w, o)
                            \/ RecoverStale(o) \/ LeaseEnds(o)
                            \/ DeadlinePasses(o) \/ DayPasses(o)
  BY <1>3, OrderRows
<1>4. CASE \E m \in Open : Settle(m)
  BY <1>4, OrderSettle
<1>5. CASE ChangeOutside
  <2>1. ~Quiet'
    BY <1>5 DEF ChangeOutside, Quiet, TypeInv, TypeOK
  <2> QED
    BY <1>5, <2>1, OrderAside DEF ChangeOutside
<1>6. CASE Rebind \/ HourPasses \/ UNCHANGED vars
  BY <1>6, OrderAside DEF Rebind, HourPasses, vars, remote
<1> QED
  BY <1>1, <1>2, <1>3, <1>4, <1>5, <1>6 DEF Next

LEMMA OrderInvariant ==
  ASSUME ~SlowReads PROVE Spec => [](TypeInv /\ SendInv /\ OrderInv)
<1>1. Init => TypeInv /\ SendInv /\ OrderInv
  BY TypeInit, SendInit, OrderInit
<1>2. TypeInv /\ SendInv /\ OrderInv /\ [Next]_vars => (TypeInv /\ SendInv /\ OrderInv)'
  BY TypeStep, SendStep, OrderStep
<1> QED
  BY <1>1, <1>2, PTL DEF Spec

-----------------------------------------------------------------------------
(***************************************************************************)
(* What the orders come to.                                                *)
(***************************************************************************)
\* Of the orders sent for a number at most one has its fate open: nobody
\* orders anything before the last order is known to have worked, to have been
\* refused, or to have been dropped (stepRule, verifyClear, recoverStale).
THEOREM OneOrderIsOpen == ASSUME ~SlowReads PROVE Spec => []OneOrderAtATime
<1>1. Spec => [](TypeInv /\ SendInv /\ OrderInv)
  BY OrderInvariant
<1>2. TypeInv /\ OrderInv => OneOrderAtATime
  <2> SUFFICES ASSUME TypeInv, OrderInv, Quiet PROVE Cardinality(Open) <= 1
    BY DEF OneOrderAtATime
  <2>1. \A m, n \in Open : m = n
    BY OnePending DEF OrderInv, RowsInv, RulesInv, Pending
  <2>2. CASE Open = {}
    BY <2>2, FS_EmptySet
  <2>3. CASE Open # {}
    <3>1. PICK m : Open = {m}
      BY <2>1, <2>3
    <3>2. Cardinality(Open) = 1
      BY <3>1, FS_Singleton
    <3> QED
      BY <3>2
  <2> QED
    BY <2>2, <2>3
<1> QED
  BY <1>1, <1>2, PTL

\* A rule is ordered, and its order stays open, only while the service is
\* active and no rule of another type stands (stepRule sends the removals first).
THEOREM CreateAloneInForce == ASSUME ~SlowReads PROVE Spec => []CreateMeetsNoConflict
<1>1. Spec => [](TypeInv /\ SendInv /\ OrderInv)
  BY OrderInvariant
<1>2. OrderInv => CreateMeetsNoConflict
  BY DEF CreateMeetsNoConflict, OrderInv, RulesInv, NoEffectYet, Pending
<1> QED
  BY <1>1, <1>2, PTL

\* An operation that frees the number (done, failed or cancelled) has no order
\* open, so the next one, reserved at once, starts from settled rules.
THEOREM FreedIsSettled == ASSUME ~SlowReads PROVE Spec => []EndsSettled
<1>1. Spec => [](TypeInv /\ SendInv /\ OrderInv)
  BY OrderInvariant
<1>2. OrderInv => EndsSettled
  BY DEF EndsSettled, OrderInv, RulesInv, PendingAtRow, Pending, IsAt, Ended, Active
<1> QED
  BY <1>1, <1>2, PTL

\* Only finalizeOperation writes done, and only over rule_confirmed.
LEMMA DoneFromConfirmed ==
  ASSUME TypeInv, SendInv, [Next]_vars,
         NEW o \in OpIds, op[o].state # "done", op'[o].state = "done"
  PROVE  op[o].state = "rule_confirmed"
<1>1. CASE \E y \in OpIds : AskSet(y) \/ AskRemove(y)
  <2>0. PICK y \in OpIds : \E t, a : Reserve(y, t, a)
    BY <1>1 DEF AskSet, AskRemove
  <2>1. PICK t, a : Reserve(y, t, a)
    BY <2>0
  <2> DEFINE s == IF t = None \/ service THEN "rule_ready" ELSE "service_reserved"
             r == [NoRow EXCEPT !.state = s, !.type = t, !.addr = a]
  <2>2. r.state = s /\ s # "done"
    BY DEF NoRow
  <2>3. op' = [op EXCEPT ![y] = r]
    BY <2>1 DEF Reserve
  <2> HIDE DEF r
  <2> QED
    BY <2>2, <2>3 DEF TypeInv, TypeOK
<1>2. CASE \E p \in Procs : Step(p) \/ Abort(p)
  <2>1. PICK p \in Procs : Step(p) \/ Abort(p)
    BY <1>2
  <2> DEFINE row == op[at[p]]
  <2>2. CASE UNCHANGED op
    BY <2>2
  <2>3. CASE ~UNCHANGED op
    <3>1. pc[p] # "idle"
      BY <2>1 DEF Step, Abort, ReadRules, ReadServices, DecideService, DecideVerified,
                  DecideRule, StartService, EnsureQuota, ClaimSend, Post, Accepted,
                  Unanswered, Refused, Finalize, CancelRebound, Expire
    <3>2. /\ at[p] \in OpIds /\ row \in Rows /\ cur[p] \in Rows /\ row.state \in States
          /\ cur[p].state \in States
      BY <3>1, RowAhead DEF Rows
    <3>3. /\ {"rule_ready", "unconfirmed", "failed", "cancelled", "expired",
              "service_accepted", "absent"} \subseteq States
          /\ \A s \in Sending : Unknown(s) \in States \ {"done"}
      BY DEF States, Due, NotSent, Awaiting, Final, Sending, Unknown, Verifying
    <3>4. \A s \in States, f \in States :
            /\ Move(row, s).state = s /\ [Move(row, s) EXCEPT !.from = f].state = s
            /\ [Move(row, s) EXCEPT !.action = None, !.attempts = 0, !.from = f].state = s
            /\ Drop(row).state = row.state
      <4>1. \A x \in Rows : \A f :
              /\ [x EXCEPT !.from = f].state = x.state
              /\ [x EXCEPT !.action = None, !.attempts = 0, !.from = f].state = x.state
        BY DEF Rows
      <4>2. ASSUME NEW s \in States PROVE Move(row, s) \in Rows /\ Move(row, s).state = s
        BY <3>2, RowTypes
      <4>3. Drop(row).state = row.state
        BY <3>2 DEF Drop, Rows
      <4> QED
        BY <4>1, <4>2, <4>3
    <3>5. ASSUME NEW from, NEW x, Transition(p, from, x),
                 x.state # "done" \/ x.state = row.state \/ from = {"rule_confirmed"}
          PROVE  op[o].state = "rule_confirmed"
      BY <3>2, <3>5 DEF Transition, Update, TypeInv, TypeOK
    <3>6. ASSUME NEW x, op' = [op EXCEPT ![at[p]] = x], x.state # "done" \/ x.state = row.state
          PROVE  FALSE
      BY <3>2, <3>6 DEF TypeInv, TypeOK
    <3>7. ASSUME DecideService(p) PROVE op[o].state = "rule_confirmed"
      <4>1. PICK from, x :
              /\ Transition(p, from, x)
              /\ x \in {[Move(row, "rule_ready") EXCEPT !.from = "absent"],
                        Move(row, "failed"), Drop(row),
                        [Move(row, "unconfirmed") EXCEPT !.from = cur[p].state]}
        BY <3>7 DEF DecideService
      <4>2. /\ [Move(row, "rule_ready") EXCEPT !.from = "absent"].state = "rule_ready"
            /\ Move(row, "failed").state = "failed" /\ Drop(row).state = row.state
            /\ [Move(row, "unconfirmed") EXCEPT !.from = cur[p].state].state = "unconfirmed"
        BY <3>2, <3>3, <3>4
      <4>3. x.state # "done" \/ x.state = row.state
        BY <4>1, <4>2
      <4> QED
        BY <3>5, <4>1, <4>3
    <3>8. ASSUME NEW from, Confirm(p, from) PROVE FALSE
      <4>1. [row EXCEPT !.state = "rule_confirmed", !.late = FALSE].state = "rule_confirmed"
        BY <3>2 DEF Rows
      <4> QED
        BY <2>3, <3>6, <3>8, <4>1 DEF Confirm
    <3>9. ASSUME NEW s \in States, Postpone(p, s) PROVE FALSE
      BY <3>2, <3>3, <3>4, <3>6, <3>9 DEF Postpone, Update
    <3>10. ASSUME DecideVerified(p) PROVE op[o].state = "rule_confirmed"
      <4>1. Stage(cur[p]) \in States
        BY <3>2 DEF Stage, Rows
      <4> DEFINE x == [Move(row, "rule_ready") EXCEPT
                         !.action = None, !.attempts = 0, !.from = "absent"]
      <4>2. x.state # "done"
        BY <3>3, <3>4
      <4>3. \/ \E from : Confirm(p, from)
            \/ \E from : Transition(p, from, x)
            \/ Postpone(p, Stage(cur[p]))
        BY <3>10 DEF DecideVerified
      <4> HIDE DEF x
      <4> QED
        BY <3>5, <3>8, <3>9, <4>1, <4>2, <4>3
    <3>11. ASSUME DecideRule(p) PROVE op[o].state = "rule_confirmed"
      BY <2>3, <3>3, <3>4, <3>5, <3>8, <3>11 DEF DecideRule
    <3>12. ASSUME EnsureQuota(p) PROVE op[o].state = "rule_confirmed"
      <4>1. \A b : [row EXCEPT !.counted = b].state = row.state
        BY <3>2 DEF Rows
      <4>2. CASE \E b : op' = [op EXCEPT ![at[p]] = [row EXCEPT !.counted = b]]
        BY <3>6, <4>1, <4>2
      <4>3. CASE Transition(p, {cur[p].state}, Move(row, "cancelled"))
        BY <3>3, <3>4, <3>5, <4>3
      <4> QED
        BY <3>12, <4>2, <4>3 DEF EnsureQuota
    <3>13. ASSUME ClaimSend(p) PROVE op[o].state = "rule_confirmed"
      <4> DEFINE claim(s, t) ==
                   [row EXCEPT !.state = s, !.owner = p, !.live = TRUE, !.action = t,
                     !.late = FALSE, !.gen = @ + 1,
                     !.attempts = IF s = "service_sending" THEN @ ELSE @ + 1]
      <4>1. \A t : \A s \in Sending : claim(s, t).state = s /\ s # "done"
        BY <3>2 DEF Rows, Sending
      <4>2. {"service_sending", "rule_sending", "rule_clear_sending"} \subseteq Sending
        BY DEF Sending
      <4> DEFINE found == Conflicts(cur[p], seen[p].rules)
                 S == IF cur[p].state = "service_reserved"
                      THEN {claim("service_sending", None)}
                      ELSE IF found = {} THEN {claim("rule_sending", None)}
                           ELSE {claim("rule_clear_sending", t) : t \in found}
      <4>3. \E x \in S : op' = [op EXCEPT ![at[p]] = x]
        BY <2>3, <3>13 DEF ClaimSend
      <4>4. \A x \in S : \E s \in Sending : \E t : x = claim(s, t)
        <5> HIDE DEF claim, found
        <5> QED
          BY <4>2
      <4> HIDE DEF claim, S
      <4> QED
        BY <3>6, <4>1, <4>3, <4>4
    <3>14. ASSUME Accepted(p) \/ Unanswered(p) \/ Refused(p)
           PROVE  op[o].state = "rule_confirmed"
      <4>1. cur[p].state \in Sending
        BY <3>14 DEF Accepted, Unanswered, Refused, TypeInv, Working
      <4> QED
        BY <3>3, <3>4, <3>5, <3>14, <4>1 DEF Accepted, Unanswered, Refused
    <3>15. ASSUME Finalize(p) \/ CancelRebound(p) \/ Expire(p)
           PROVE  op[o].state = "rule_confirmed"
      BY <3>3, <3>4, <3>5, <3>15 DEF Finalize, CancelRebound, Expire
    <3> QED
      BY <2>1, <2>3, <3>7, <3>10, <3>11, <3>12, <3>13, <3>14, <3>15
         DEF Step, Abort, ReadRules, ReadServices, StartService, Post
  <2> QED
    BY <2>2, <2>3
<1>3. CASE \E y \in OpIds, w \in Workers : ClaimDue(w, y)
  BY <1>3 DEF ClaimDue, TypeInv, TypeOK, Rows
<1>4. CASE \E y \in OpIds : RecoverStale(y)
  <2>1. PICK y \in OpIds : RecoverStale(y)
    BY <1>4
  <2>2. Unknown(op[y].state) \in States /\ Unknown(op[y].state) # "done"
    BY <2>1 DEF RecoverStale, Sending, Unknown, States, Due, Awaiting, Verifying
  <2>3. Move(op[y], Unknown(op[y].state)).state # "done"
    BY <2>2, RowTypes DEF TypeInv, TypeOK
  <2> QED
    BY <2>1, <2>3 DEF RecoverStale, TypeInv, TypeOK
<1>5. CASE \E y \in OpIds : LeaseEnds(y) \/ DeadlinePasses(y) \/ DayPasses(y)
  <2>1. PICK y \in OpIds : LeaseEnds(y) \/ DeadlinePasses(y) \/ DayPasses(y)
    BY <1>5
  <2>2. \A x \in Rows : /\ [x EXCEPT !.live = FALSE].state = x.state
                         /\ [x EXCEPT !.late = TRUE].state = x.state
                         /\ [x EXCEPT !.old = TRUE].state = x.state
    BY DEF Rows
  <2>3. \E x : op' = [op EXCEPT ![y] = x] /\ x.state = op[y].state
    BY <2>1, <2>2 DEF LeaseEnds, DeadlinePasses, DayPasses, TypeInv, TypeOK
  <2> QED
    BY <2>3 DEF TypeInv, TypeOK
<1>6. CASE UNCHANGED op
  BY <1>6
<1> QED
  BY <1>1, <1>2, <1>3, <1>4, <1>5, <1>6
     DEF Next, Settle, ChangeOutside, Rebind, HourPasses, vars

\* Whoever writes done does it with the mode asked in force, however long ago
\* and by whomever the rules were read (stepRule, verifyRule, finalizeOperation).
THEOREM DoneIsApplied == ASSUME ~SlowReads PROVE Spec => DoneMeansApplied
<1>1. Spec => [](TypeInv /\ SendInv /\ OrderInv)
  BY OrderInvariant
<1>2. TypeInv /\ SendInv /\ OrderInv /\ [Next]_vars
        => [\A o \in OpIds :
              op[o].state # "done" /\ op'[o].state = "done" /\ Quiet
                => Reached(op[o], rules)]_vars
  BY DoneFromConfirmed DEF OrderInv, RulesInv, ConfirmedIsApplied
<1> QED
  BY <1>1, <1>2, PTL DEF Spec, DoneMeansApplied
================================================================================
