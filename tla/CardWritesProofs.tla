--------------------------- MODULE CardWritesProofs ---------------------------
(***************************************************************************)
(* Proofs about CardWrites for any number of cards, bulk extensions, saves,*)
(* rollbacks and server processes.                                         *)
(*                                                                         *)
(* As long as nothing has happened that the lock does not cover (loose is  *)
(* empty), whoever is at work holds sigur:card-write, and so is alone.     *)
(* What it has read of a card therefore stays true until its own PATCH     *)
(* lands, the journal holds the terms that the operation will find, and    *)
(* the rollback, which knows the journal only, gives them back.            *)
(***************************************************************************)
EXTENDS CardWrites, TLAPS

-----------------------------------------------------------------------------
(***************************************************************************)
(* The inductive invariant.                                                *)
(***************************************************************************)
\* Steps of an item from the reading of the card to the writing of its pass;
\* those that only a sender of PATCHes has.
Busy == {"ready", "sent", "landed", "refused", "verify", "confirmed"}
Sending == Busy \ {"confirmed"}

\* What an item says of the place of its process.
Placed(p) ==
  \A c \in Cards :
    LET e == item[p][c]
    IN  /\ e.step \in Busy => pc[p] = "write"
        /\ e.step = "todo" => pc[p] \in {"read", "write"}
        /\ p \in Syncs => e.step \notin Sending \cup {"expected"}
        /\ p \notin Syncs /\ e.step \in Busy \cup {"expected", "todo"} => e.to \in Terms

TypeInv == TypeOK /\ \A p \in Procs : Placed(p)

Working(p) == pc[p] \in {"held", "read", "write"}
Locks(p) == Working(p) => Holds(p, "card")

Wrote(p, c) == \E w \in written : w.by = p /\ w.card = c

\* The card is as an item of the process says.
Known(p, c, e) ==
  LET t == card[c].term
  IN  /\ p \in Bulks /\ e.step = "todo" => t = e.from
      /\ e.step = "ready" => t = e.from
      /\ e.step = "sent" => t = e.from \/ (t = e.to /\ Wrote(p, c))
      /\ p \notin Syncs /\ e.step \in {"landed", "confirmed"} => t = e.to
      /\ p \in Syncs /\ e.step = "confirmed" => DayOf(t) = e.passTo

Knows(p) == \A c \in Cards : Known(p, c, item[p][c])

\* The journal holds the terms that a bulk extension finds when it writes.
Plans(b) ==
  /\ pc[b] \in {"idle", "asked", "held", "read"} =>
       started[b] = NoPlan /\ \A w \in written : w.by # b
  /\ pc[b] = "write" => \A c \in Cards : started[b][c].from = item[b][c].from
  /\ \A w \in written : w.by = b => w.from = started[b][w.card].from
  /\ \A c \in Cards : item[b][c].step \in Busy \cup {"expected", "todo"}
                        => item[b][c].passTo = DayOf(item[b][c].to)

\* A rollback gives back the terms in the journal.
Reverts(r) ==
  pc[r] \in {"read", "write"} =>
    /\ undoes[r] \in Bulks
    /\ \A c \in Cards : item[r][c].step # "none"
                          => item[r][c].to = started[undoes[r]][c].from

\* A PATCH on its way is the one its sender waits for.
Awaited(m) ==
  /\ m.by \notin Syncs /\ pc[m.by] = "write"
  /\ LET e == item[m.by][m.card]
     IN  e.step = "sent" /\ e.from = m.from /\ e.to = m.to /\ e.start = m.start

InStep(p) ==
  Locks(p) /\ Knows(p) /\ (p \in Bulks => Plans(p)) /\ (p \in Rollbacks => Reverts(p))

LockInv ==
  loose = {} => (\A p \in Procs : InStep(p)) /\ (\A m \in flight : Awaited(m))

-----------------------------------------------------------------------------
(***************************************************************************)
(* Types.                                                                  *)
(***************************************************************************)
Places == {"idle", "asked", "night", "held", "read", "write", "close", "mark", "over"}

LocalOK ==
  /\ pc \in [Procs -> Places]
  /\ item \in [Procs -> [Cards -> Items]]
  /\ \A p \in Procs : Placed(p)

RestOK ==
  /\ card \in [Cards -> [term: Terms \cup {None}, start: Starts]]
  /\ pass \in [Cards -> Days \cup {None}]
  /\ started \in [Bulks -> [Cards -> Items]]
  /\ undoes \in [Rollbacks -> Bulks \cup {None}]
  /\ lost \in [Procs -> BOOLEAN]
  /\ lease \in [Keys -> Rows]
  /\ day \in [counted: BOOLEAN, waits: BOOLEAN]
  /\ flight \subseteq Patches
  /\ written \subseteq
       [by: Bulks \cup Saves \cup Rollbacks, card: Cards, from: Terms \cup {None}]
  /\ loose \subseteq {"lapse", "stray", "assign", "manager"}
  /\ faults \in 0..MaxFaults /\ outside \in 0..MaxOutside
  /\ assigned \in 0..MaxAssigns

LEMMA TypeParts == TypeInv <=> LocalOK /\ RestOK
BY DEF TypeInv, TypeOK, LocalOK, RestOK, Places

LEMMA DayFacts ==
  /\ None \notin Terms /\ Terms \subseteq Nat
  /\ \A t \in Terms \cup {None} : DayOf(t) \in Days \cup {None}
  /\ \A d \in Targets : d \in Days /\ EndOf(d) \in Terms /\ DayOf(EndOf(d)) = d
<1>1. None \notin Terms /\ Terms \subseteq Nat
  BY CardAssumption
<1>2. \A t \in Terms \cup {None} : DayOf(t) \in Days \cup {None}
  BY DEF Days, DayOf
<1>3. ASSUME NEW d \in Targets
      PROVE  d \in Days /\ EndOf(d) \in Terms /\ DayOf(EndOf(d)) = d
  <2>1. d \in Days /\ EndOf(d) \in Terms
    BY DEF Targets
  <2>2. PICK t \in Terms : d = t \div 2
    BY <1>1, <2>1 DEF Days, DayOf
  <2>3. d \in Nat
    BY <1>1, <2>2
  <2>4. EndOf(d) # None
    BY <1>1, <2>1
  <2>5. (2 * d + 1) \div 2 = d
    BY <2>3
  <2> QED
    BY <2>1, <2>4, <2>5 DEF EndOf, DayOf
<1> QED
  BY <1>1, <1>2, <1>3

LEMMA Apart ==
  /\ Procs = Bulks \cup Saves \cup Rollbacks \cup Syncs
  /\ Bulks \cap Saves = {} /\ Bulks \cap Rollbacks = {} /\ Bulks \cap Syncs = {}
  /\ Saves \cap Rollbacks = {} /\ Saves \cap Syncs = {} /\ Rollbacks \cap Syncs = {}
  /\ None \notin Procs
BY CardAssumption DEF Procs

LEMMA ItemTypes ==
  /\ NoItem \in Items /\ NoPlan \in [Cards -> Items]
  /\ \A e \in Items, s \in Steps :
       LET x == [e EXCEPT !.step = s]
       IN  /\ x \in Items /\ x.step = s /\ x.from = e.from /\ x.start = e.start
           /\ x.to = e.to /\ x.passFrom = e.passFrom /\ x.passTo = e.passTo
<1>1. NoItem \in Items
  BY CardAssumption DEF NoItem, Items, Steps
<1>2. \A e \in Items, s \in Steps :
        LET x == [e EXCEPT !.step = s]
        IN  /\ x \in Items /\ x.step = s /\ x.from = e.from /\ x.start = e.start
            /\ x.to = e.to /\ x.passFrom = e.passFrom /\ x.passTo = e.passTo
  BY DEF Items
<1> QED
  BY <1>1, <1>2 DEF NoPlan

\* What the item of a process may be at place k.
Fits(p, k, e) ==
  /\ e \in Items
  /\ e.step \in Busy => k = "write"
  /\ e.step = "todo" => k \in {"read", "write"}
  /\ p \in Syncs => e.step \notin Sending \cup {"expected"}
  /\ p \notin Syncs /\ e.step \in Busy \cup {"expected", "todo"} => e.to \in Terms

LEMMA FitsNow ==
  ASSUME LocalOK, NEW p \in Procs, NEW c \in Cards
  PROVE  Fits(p, pc[p], item[p][c])
BY DEF LocalOK, Placed, Fits

\* One item changes.
LEMMA ItemLocal ==
  ASSUME LocalOK, NEW p \in Procs, NEW c \in Cards, NEW e, UNCHANGED pc,
         Becomes(p, c, e), Fits(p, pc[p], e)
  PROVE  LocalOK'
<1>1. item' \in [Procs -> [Cards -> Items]]
  BY DEF LocalOK, Becomes, Fits
<1>2. ASSUME NEW q \in Procs, NEW x \in Cards
      PROVE  item'[q][x] = IF q = p /\ x = c THEN e ELSE item[q][x]
  BY DEF LocalOK, Becomes
<1>3. ASSUME NEW q \in Procs, NEW x \in Cards PROVE Fits(q, pc[q], item'[q][x])
  BY <1>2, FitsNow
<1>4. \A q \in Procs : Placed(q)'
  BY <1>3 DEF Placed, Fits
<1> QED
  BY <1>1, <1>4 DEF LocalOK

\* A process goes to another place with another plan.
LEMMA PlanLocal ==
  ASSUME LocalOK, NEW p \in Procs, NEW k \in Places, NEW f,
         pc' = [pc EXCEPT ![p] = k], item' = [item EXCEPT ![p] = f],
         f = [c \in Cards |-> f[c]], \A c \in Cards : Fits(p, k, f[c])
  PROVE  LocalOK'
<1>1. f \in [Cards -> Items]
  BY DEF Fits
<1>2. item' \in [Procs -> [Cards -> Items]] /\ pc' \in [Procs -> Places]
  BY <1>1 DEF LocalOK
<1>3. ASSUME NEW q \in Procs, NEW x \in Cards PROVE Fits(q, pc'[q], item'[q][x])
  BY FitsNow DEF LocalOK
<1>4. \A q \in Procs : Placed(q)'
  BY <1>3 DEF Placed, Fits
<1> QED
  BY <1>2, <1>4 DEF LocalOK

\* A process goes to a place where it may keep its plan.
LEMMA PlaceLocal ==
  ASSUME LocalOK, NEW p \in Procs, NEW k \in Places,
         pc' = [pc EXCEPT ![p] = k], UNCHANGED item,
         \A c \in Cards : Fits(p, k, item[p][c])
  PROVE  LocalOK'
<1>1. item' = [item EXCEPT ![p] = item[p]] /\ item[p] = [c \in Cards |-> item[p][c]]
  BY DEF LocalOK
<1> QED
  BY <1>1, PlanLocal

LEMMA LeaseTypes ==
  ASSUME RestOK, NEW k \in Keys, NEW p \in Procs
  PROVE  /\ Released(k, p) \in [Keys -> Rows]
         /\ [lease EXCEPT ![k] = [owner |-> p, live |-> TRUE]] \in [Keys -> Rows]
         /\ [lease EXCEPT ![k].live = FALSE] \in [Keys -> Rows]
         /\ [lease EXCEPT ![k].owner = "stopped"] \in [Keys -> Rows]
         /\ [x \in Keys |-> IF lease[x].owner = p THEN [lease[x] EXCEPT !.owner = "stopped"]
                            ELSE lease[x]] \in [Keys -> Rows]
<1>1. FreeRow \in Rows /\ [owner |-> p, live |-> TRUE] \in Rows
      /\ \A x \in Rows : [x EXCEPT !.owner = "stopped"] \in Rows
                         /\ [x EXCEPT !.live = FALSE] \in Rows
  BY DEF FreeRow, Rows
<1> QED
  BY <1>1 DEF RestOK, Released

LEMMA RestOn ==
  ASSUME RestOK, Fault \/ NoFault, UNCHANGED <<card, written, counters>>,
         pass' \in [Cards -> Days \cup {None}], started' \in [Bulks -> [Cards -> Items]],
         undoes' \in [Rollbacks -> Bulks \cup {None}], lost' \in [Procs -> BOOLEAN],
         lease' \in [Keys -> Rows], day' \in [counted: BOOLEAN, waits: BOOLEAN],
         flight' \subseteq Patches, loose' \subseteq {"lapse", "stray", "assign", "manager"}
  PROVE  RestOK'
BY CardAssumption DEF RestOK, Fault, NoFault, counters

LEMMA RestSame ==
  ASSUME RestOK, Fault \/ NoFault, UNCHANGED <<card, written, counters>>,
         UNCHANGED <<pass, started, undoes, day, flight, loose>>,
         lost' \in [Procs -> BOOLEAN], lease' \in [Keys -> Rows]
  PROVE  RestOK'
BY RestOn DEF RestOK

\* What becomes of an item.
LEMMA StepFits ==
  ASSUME LocalOK, NEW p \in Procs, NEW c \in Cards, NEW s \in Steps,
         s \in Busy => pc[p] = "write", s \notin {"todo", "expected"},
         p \in Syncs => s \notin Sending,
         p \notin Syncs /\ s \in Busy => item[p][c].to \in Terms
  PROVE  Fits(p, pc[p], [item[p][c] EXCEPT !.step = s])
BY FitsNow, ItemTypes DEF Fits

LEMMA Goes1 ==
  ASSUME LocalOK, NEW p \in Procs, NEW c \in Cards, NEW s, Goes(p, c, s),
         s \in Steps, UNCHANGED pc,
         s \in Busy => item[p][c].step \in Busy,
         s \notin {"todo", "expected"}, p \in Syncs => s \notin Sending
  PROVE  LocalOK'
<1>1. Fits(p, pc[p], item[p][c])
  BY FitsNow
<1>2. Fits(p, pc[p], [item[p][c] EXCEPT !.step = s])
  BY <1>1, StepFits DEF Fits
<1> QED
  BY <1>2, ItemLocal DEF Goes

-----------------------------------------------------------------------------
(***************************************************************************)
(* Steps of all kinds keep the types.                                      *)
(***************************************************************************)
LEMMA TypeItem ==
  ASSUME LocalOK, RestOK, NEW p \in Procs, NEW c \in Cards,
         \/ p \in Bulks /\ BulkReread(p, c)
         \/ p \in Rollbacks /\ RollbackReread(p, c)
         \/ p \in Syncs /\ SyncReread(p, c)
         \/ Answered(p, c) \/ Failed(p, c) \/ Verify(p, c)
  PROVE  LocalOK' /\ RestOK'
<1> DEFINE e == item[p][c]
<1>1. Fits(p, pc[p], e) /\ UNCHANGED pc
  BY FitsNow DEF BulkReread, RollbackReread, SyncReread, Answered, Failed, Verify
<1>2. {"ready", "confirmed", "verify", "done", "missed"} \subseteq Steps \ {"todo", "expected"}
      /\ {"done", "missed"} \cap Busy = {} /\ "confirmed" \notin Sending
      /\ Sending \subseteq Busy
  BY DEF Steps, Busy, Sending
<1>3. CASE p \in Bulks /\ BulkReread(p, c)
  <2>1. p \notin Syncs /\ card[c].term \in Terms \cup {None}
    BY <1>3, Apart DEF RestOK
  <2>2. e.step = "todo" /\ pc[p] = "write"
    BY <1>3 DEF BulkReread
  <2>3. ASSUME Goes(p, c, "done")
       PROVE  LocalOK'
    BY <1>1, <1>2, <2>3, Goes1
  <2>4. ASSUME Becomes(p, c, [e EXCEPT !.step = "ready", !.from = card[c].term])
       PROVE  LocalOK'
    <3>1. \A x \in Items, t \in Terms \cup {None} :
            LET y == [x EXCEPT !.step = "ready", !.from = t]
            IN  y \in Items /\ y.step = "ready" /\ y.to = x.to
      BY <1>2 DEF Items
    <3>2. Fits(p, pc[p], [e EXCEPT !.step = "ready", !.from = card[c].term])
      BY <1>1, <2>1, <2>2, <3>1 DEF Fits
    <3> QED
      BY <1>1, <2>4, <3>2, ItemLocal
  <2>5. LocalOK'
    BY <1>3, <2>3, <2>4 DEF BulkReread
  <2> QED
    BY <1>3, <2>5, RestSame DEF BulkReread, RestOK
<1>4. CASE p \in Rollbacks /\ RollbackReread(p, c)
  <2>1. p \notin Syncs /\ card[c].start \in Starts
    BY <1>4, Apart DEF RestOK
  <2>2. e.step = "todo" /\ pc[p] = "write"
    BY <1>4 DEF RollbackReread
  <2>3. ASSUME Goes(p, c, "done")
       PROVE  LocalOK'
    BY <1>1, <1>2, <2>3, Goes1
  <2>4. ASSUME Becomes(p, c, [e EXCEPT !.step = "ready", !.start = card[c].start])
       PROVE  LocalOK'
    <3>1. \A x \in Items, t \in Starts :
            LET y == [x EXCEPT !.step = "ready", !.start = t]
            IN  y \in Items /\ y.step = "ready" /\ y.to = x.to
      BY <1>2 DEF Items
    <3>2. Fits(p, pc[p], [e EXCEPT !.step = "ready", !.start = card[c].start])
      BY <1>1, <2>1, <2>2, <3>1 DEF Fits
    <3> QED
      BY <1>1, <2>4, <3>2, ItemLocal
  <2>5. LocalOK'
    BY <1>4, <2>3, <2>4 DEF RollbackReread
  <2> QED
    BY <1>4, <2>5, RestSame DEF RollbackReread, RestOK
<1>5. CASE p \in Syncs /\ SyncReread(p, c)
  <2>1. Fits(p, pc[p], [e EXCEPT !.step = "confirmed"])
    BY <1>1, <1>2, <1>5, StepFits DEF SyncReread
  <2>2. ASSUME Goes(p, c, "confirmed")
       PROVE  LocalOK'
    BY <1>1, <2>1, <2>2, ItemLocal DEF Goes
  <2>3. ASSUME Goes(p, c, "missed")
       PROVE  LocalOK'
    BY <1>1, <1>2, <2>3, Goes1
  <2>4. LocalOK'
    BY <1>5, <2>2, <2>3 DEF SyncReread
  <2> QED
    BY <1>5, <2>4, RestSame DEF SyncReread, RestOK
<1>6. CASE Answered(p, c)
  <2>1. LocalOK'
    BY <1>1, <1>2, <1>6, Goes1 DEF Answered, Busy
  <2> QED
    BY <1>6, <2>1, RestSame DEF Answered, RestOK
<1>7. CASE Failed(p, c)
  <2>1. p \notin Syncs /\ e.step \in Busy
    BY <1>1, <1>7 DEF Failed, Fits, Sending, Busy
  <2>2. LocalOK'
    BY <1>1, <1>2, <1>7, <2>1, Goes1 DEF Failed
  <2> QED
    BY <1>7, <2>2, RestOn DEF Failed, RestOK
<1>8. CASE Verify(p, c)
  <2>1. LocalOK'
    BY <1>1, <1>2, <1>8, Goes1 DEF Verify, Busy
  <2> QED
    BY <1>8, <2>1, RestSame DEF Verify, RestOK
<1> QED
  BY <1>3, <1>4, <1>5, <1>6, <1>7, <1>8

LEMMA TypePass ==
  ASSUME LocalOK, RestOK, NEW p \in Procs, NEW c \in Cards, WritePass(p, c)
  PROVE  LocalOK' /\ RestOK'
<1> DEFINE e == item[p][c]
           after == IF WritesPass(p, e) /\ SamePass(p, c)
                    THEN [pass EXCEPT ![c] = e.passTo] ELSE pass
<1>1. Fits(p, pc[p], e) /\ e \in Items /\ UNCHANGED pc
  BY FitsNow DEF WritePass, Fits
<1>2. {"done", "missed"} \subseteq Steps \ (Busy \cup {"todo", "expected"})
  BY DEF Steps, Busy
<1>3. \E s \in {"done", "missed"} : Goes(p, c, s)
  BY DEF WritePass
<1>4. ASSUME NEW s \in {"done", "missed"}, Goes(p, c, s) PROVE LocalOK'
  BY <1>1, <1>2, <1>4, Goes1 DEF Sending
<1>5. after \in [Cards -> Days \cup {None}]
  BY <1>1 DEF RestOK, Items
<1>6. pass' \in {pass, after}
  BY DEF WritePass
<1> QED
  BY <1>3, <1>4, <1>5, <1>6, RestOn DEF WritePass, RestOK

LEMMA TypeFlight ==
  ASSUME LocalOK, RestOK,
         \/ \E p \in Procs, c \in Cards : Send(p, c)
         \/ \E m \in flight : Land(m) \/ Refuse(m)
  PROVE  LocalOK' /\ RestOK'
<1>1. {"sent", "landed", "refused"} \subseteq Busy \cap (Steps \ {"todo", "expected"})
  BY DEF Steps, Busy
<1>2. ASSUME NEW p \in Procs, NEW c \in Cards, Send(p, c) PROVE LocalOK' /\ RestOK'
  <2> DEFINE e == item[p][c]
  <2>1. Fits(p, pc[p], e) /\ e \in Items /\ UNCHANGED pc /\ e.step = "ready"
        /\ p \notin Syncs /\ p \in Bulks \cup Saves \cup Rollbacks
    BY <1>2, FitsNow DEF Send, Fits, Procs
  <2>2. LocalOK'
    BY <1>1, <1>2, <2>1, Goes1 DEF Send, Busy
  <2>3. [by |-> p, card |-> c, from |-> e.from, to |-> e.to, start |-> e.start] \in Patches
    BY <2>1 DEF Fits, Busy, Items, Patches
  <2> QED
    BY <1>2, <2>2, <2>3, RestOn DEF Send, RestOK
<1>3. ASSUME NEW m \in flight, Land(m) \/ Refuse(m) PROVE LocalOK' /\ RestOK'
  <2>1. m \in Patches /\ m.by \in Procs /\ m.by \notin Syncs /\ m.card \in Cards
        /\ UNCHANGED pc
    BY <1>3, Apart DEF RestOK, Patches, Land, Refuse
  <2>2. \/ UNCHANGED item
        \/ \E s \in {"landed", "refused"} : /\ item[m.by][m.card].step = "sent"
                                            /\ Goes(m.by, m.card, s)
    BY <1>3 DEF Land, Refuse, Reply, Tell
  <2>3. LocalOK'
    <3>1. CASE UNCHANGED item
      BY <2>1, <3>1 DEF LocalOK, Placed
    <3>2. ASSUME NEW s \in {"landed", "refused"}, item[m.by][m.card].step = "sent",
                 Goes(m.by, m.card, s)
          PROVE  LocalOK'
      BY <1>1, <2>1, <3>2, Goes1
    <3> QED
      BY <2>2, <3>1, <3>2
  <2>4. CASE Land(m)
    <3>1. card' \in [Cards -> [term: Terms \cup {None}, start: Starts]]
      BY <2>1, <2>4 DEF Land, RestOK, Patches
    <3>2. [by |-> m.by, card |-> m.card, from |-> card[m.card].term]
            \in [by: Bulks \cup Saves \cup Rollbacks, card: Cards, from: Terms \cup {None}]
      BY <2>1 DEF RestOK, Patches
    <3>3. written' \subseteq
            [by: Bulks \cup Saves \cup Rollbacks, card: Cards, from: Terms \cup {None}]
      BY <2>4, <3>2 DEF Land, RestOK
    <3>4. flight' \subseteq Patches /\ (Fault \/ NoFault)
          /\ UNCHANGED <<pass, started, undoes, lost, lease, day, counters>>
          /\ loose' \subseteq {"lapse", "stray", "assign", "manager"}
      BY <2>4 DEF Land, Reply, RestOK
    <3> QED
      BY <2>3, <3>1, <3>3, <3>4, CardAssumption DEF RestOK, Fault, NoFault, counters
  <2>5. CASE Refuse(m)
    <3>1. flight' \subseteq Patches /\ (Fault \/ NoFault)
          /\ UNCHANGED <<card, pass, started, undoes, lost, lease, day, written, counters>>
          /\ loose' \subseteq {"lapse", "stray", "assign", "manager"}
      BY <2>5 DEF Refuse, Reply, RestOK
    <3> QED
      BY <2>3, <3>1, CardAssumption DEF RestOK, Fault, NoFault, counters
  <2> QED
    BY <1>3, <2>4, <2>5
<1> QED
  BY <1>2, <1>3

\* A process goes on to another place with the plan it has.
LEMMA TypeMove ==
  ASSUME LocalOK, RestOK, NEW p \in Procs,
         \/ p \in Bulks /\ AcquireBulk(p)
         \/ WriteStarted(p)
         \/ p \in Syncs /\ (SyncTick(p) \/ SyncAcquire(p) \/ SyncDeferred(p))
  PROVE  LocalOK' /\ RestOK'
<1> USE DEF Places
<1>1. \A c \in Cards : Fits(p, pc[p], item[p][c])
  BY FitsNow
<1>2. lost' \in [Procs -> BOOLEAN] /\ lease' \in [Keys -> Rows]
  <2>1. "card" \in Keys /\ "night" \in Keys
    BY DEF Keys
  <2>2. lost' \in [Procs -> BOOLEAN]
    BY DEF RestOK, AcquireBulk, WriteStarted, SyncTick, SyncAcquire, SyncDeferred
  <2>3. \/ UNCHANGED lease \/ Take("card", p) \/ Take("night", p)
        \/ lease' = Released("night", p)
    BY DEF AcquireBulk, WriteStarted, SyncTick, SyncAcquire, SyncDeferred
  <2>4. UNCHANGED lease => lease' \in [Keys -> Rows]
    BY DEF RestOK
  <2>5. ASSUME NEW k \in Keys, Take(k, p) \/ lease' = Released(k, p)
        PROVE  lease' \in [Keys -> Rows]
    <3>1. /\ Released(k, p) \in [Keys -> Rows]
          /\ [lease EXCEPT ![k] = [owner |-> p, live |-> TRUE]] \in [Keys -> Rows]
      BY LeaseTypes
    <3> QED
      BY <2>5, <3>1 DEF Take
  <2> QED
    BY <2>1, <2>2, <2>3, <2>4, <2>5
<1>3. CASE p \in Bulks /\ AcquireBulk(p)
  <2>1. \A c \in Cards : Fits(p, "held", item[p][c])
    BY <1>1, <1>3 DEF AcquireBulk, Fits
  <2>2. LocalOK'
    BY <1>3, <2>1, PlaceLocal DEF AcquireBulk
  <2> QED
    BY <1>2, <1>3, <2>2, RestSame DEF AcquireBulk
<1>4. CASE WriteStarted(p)
  <2>1. \A c \in Cards : Fits(p, "write", item[p][c])
    BY <1>1, <1>4 DEF WriteStarted, Fits
  <2>2. LocalOK'
    BY <1>4, <2>1, PlaceLocal DEF WriteStarted
  <2>3. started' \in [Bulks -> [Cards -> Items]]
    BY <1>4 DEF WriteStarted, RestOK, LocalOK
  <2> QED
    BY <1>2, <1>4, <2>2, <2>3, RestOn DEF WriteStarted, RestOK
<1>5. CASE p \in Syncs /\ SyncTick(p)
  <2>1. \A c \in Cards : Fits(p, "night", item[p][c])
    BY <1>1, <1>5 DEF SyncTick, Fits
  <2>2. LocalOK'
    BY <1>5, <2>1, PlaceLocal DEF SyncTick
  <2> QED
    BY <1>2, <1>5, <2>2, RestSame DEF SyncTick
<1>6. CASE p \in Syncs /\ SyncAcquire(p)
  <2>1. \A c \in Cards : Fits(p, "held", item[p][c])
    BY <1>1, <1>6 DEF SyncAcquire, Fits
  <2>2. LocalOK'
    BY <1>6, <2>1, PlaceLocal DEF SyncAcquire
  <2> QED
    BY <1>2, <1>6, <2>2, RestSame DEF SyncAcquire
<1>7. CASE p \in Syncs /\ SyncDeferred(p)
  <2>1. \A c \in Cards : Fits(p, "idle", item[p][c])
    BY <1>1, <1>7 DEF SyncDeferred, Fits
  <2>2. LocalOK'
    BY <1>7, <2>1, PlaceLocal DEF SyncDeferred
  <2> QED
    BY <1>2, <1>7, <2>2, RestSame DEF SyncDeferred
<1> QED
  BY <1>3, <1>4, <1>5, <1>6, <1>7

\* A process that holds nothing about a card may be anywhere.
LEMMA FitsNone ==
  ASSUME NEW p \in Procs, NEW k, NEW s \in {"none", "done", "missed"}, NEW e \in Items,
         e.step = s
  PROVE  Fits(p, k, e)
BY DEF Fits, Busy, Sending

\* A process drops its plan.
LEMMA TypeDrop ==
  ASSUME LocalOK, RestOK, NEW p \in Procs,
         \/ Abandon(p) \/ Crash(p) \/ (SyncMark(p) /\ p \in Syncs) \/ Finish(p)
  PROVE  LocalOK' /\ RestOK'
<1> USE DEF Places
<1>1. \A c \in Cards : Fits(p, pc[p], item[p][c])
  BY FitsNow
<1>2. NoPlan = [c \in Cards |-> NoPlan[c]] /\ \A k : \A c \in Cards : Fits(p, k, NoPlan[c])
  BY ItemTypes, FitsNone DEF NoPlan, NoItem
<1>3. lost' \in [Procs -> BOOLEAN] /\ lease' \in [Keys -> Rows]
  <2>1. "card" \in Keys /\ "night" \in Keys
    BY DEF Keys
  <2>2. lost' \in [Procs -> BOOLEAN]
    BY DEF RestOK, Abandon, Crash, SyncMark, Finish
  <2>3. \/ UNCHANGED lease \/ \E k \in Keys : lease' = Released(k, p)
        \/ lease' = [lease EXCEPT !["card"].owner = "stopped"]
        \/ lease' = [x \in Keys |-> IF lease[x].owner = p
                                   THEN [lease[x] EXCEPT !.owner = "stopped"]
                                   ELSE lease[x]]
    BY <2>1 DEF Abandon, Crash, SyncMark, Finish
  <2>4. UNCHANGED lease => lease' \in [Keys -> Rows]
    BY DEF RestOK
  <2>5. ASSUME NEW k \in Keys, lease' = Released(k, p)
        PROVE  lease' \in [Keys -> Rows]
    BY <2>5, LeaseTypes
  <2>6. /\ [lease EXCEPT !["card"].owner = "stopped"] \in [Keys -> Rows]
        /\ [x \in Keys |-> IF lease[x].owner = p THEN [lease[x] EXCEPT !.owner = "stopped"]
                           ELSE lease[x]] \in [Keys -> Rows]
    BY <2>1, LeaseTypes
  <2> QED
    BY <2>2, <2>3, <2>4, <2>5, <2>6
<1>4. CASE Abandon(p)
  <2> DEFINE f == [c \in Cards |-> [NoItem EXCEPT !.step = "missed"]]
  <2>1. \A c \in Cards : Fits(p, "close", f[c])
    BY ItemTypes, FitsNone DEF Steps
  <2>2. LocalOK'
    BY <1>4, <2>1, PlanLocal DEF Abandon
  <2> QED
    BY <1>3, <1>4, <2>2, RestSame DEF Abandon
<1>5. CASE Crash(p)
  <2>1. LocalOK'
    <3>1. CASE p \in Syncs
      BY <1>2, <1>5, <3>1, PlanLocal DEF Crash
    <3>2. CASE p \notin Syncs
      BY <1>2, <1>5, <3>2, PlanLocal DEF Crash
    <3> QED
      BY <3>1, <3>2
  <2>2. loose' \subseteq {"lapse", "stray", "assign", "manager"}
    BY <1>5 DEF Crash, RestOK
  <2> QED
    BY <1>3, <1>5, <2>1, <2>2, RestOn DEF Crash, RestOK
<1>6. CASE SyncMark(p) /\ p \in Syncs
  <2>1. LocalOK'
    BY <1>2, <1>6, PlanLocal DEF SyncMark
  <2>2. day' \in [counted: BOOLEAN, waits: BOOLEAN]
    <3> DEFINE partial == \E c \in Cards : item[p][c].step = "missed"
               result == [counted |-> day.counted \/ ~partial, waits |-> partial]
    <3>1. partial \in BOOLEAN /\ (day.counted \/ ~partial) \in BOOLEAN
      OBVIOUS
    <3>2. result \in [counted: BOOLEAN, waits: BOOLEAN]
      <4> HIDE DEF partial
      <4> QED
        BY <3>1
    <3>3. day' \in {day, result}
      BY <1>6 DEF SyncMark
    <3> HIDE DEF result
    <3> QED
      BY <3>2, <3>3 DEF RestOK
  <2>3. Fault \/ NoFault
    BY <1>6 DEF SyncMark
  <2> QED
    BY <1>3, <1>6, <2>1, <2>2, <2>3, RestOn DEF SyncMark, RestOK
<1>7. CASE Finish(p)
  <2>1. LocalOK'
    <3>1. CASE p \in Syncs
      <4>1. \A c \in Cards : Fits(p, "mark", item[p][c])
        BY <1>1, <1>7, <3>1 DEF Finish, Fits, Resting, Busy
      <4> QED
        BY <1>7, <3>1, <4>1, PlaceLocal DEF Finish
    <3>2. CASE p \notin Syncs
      BY <1>2, <1>7, <3>2, PlanLocal DEF Finish
    <3> QED
      BY <3>1, <3>2
  <2>2. Fault \/ NoFault
    BY <1>7 DEF Finish
  <2> QED
    BY <1>3, <1>7, <2>1, <2>2, RestSame DEF Finish
<1> QED
  BY <1>4, <1>5, <1>6, <1>7

\* A bulk extension makes its plan.
LEMMA TypeBulk ==
  ASSUME LocalOK, RestOK, NEW p \in Bulks, Preview(p) \/ Snapshot(p)
  PROVE  LocalOK' /\ RestOK'
<1> USE DEF Places
<1>1. p \in Procs /\ p \notin Syncs
  BY Apart
<1>2. \A c \in Cards : /\ Fits(p, pc[p], item[p][c])
                       /\ card[c].term \in Terms \cup {None}
                       /\ card[c].start \in Starts
                       /\ pass[c] \in Days \cup {None}
  BY <1>1, FitsNow DEF RestOK
<1>3. CASE Preview(p)
  <2>1. PICK d \in Targets :
          item' = [item EXCEPT ![p] = [c \in Cards |->
            [NoItem EXCEPT
               !.step = IF Extendable(card[c], EndOf(d)) THEN "expected" ELSE "none",
               !.from = card[c].term, !.start = card[c].start,
               !.to = EndOf(d), !.passTo = d]]]
    BY <1>3 DEF Preview
  <2> DEFINE f == [c \in Cards |->
            [NoItem EXCEPT
               !.step = IF Extendable(card[c], EndOf(d)) THEN "expected" ELSE "none",
               !.from = card[c].term, !.start = card[c].start,
               !.to = EndOf(d), !.passTo = d]]
  <2>2. ASSUME NEW c \in Cards PROVE Fits(p, "asked", f[c])
    <3>1. d \in Days /\ EndOf(d) \in Terms
      BY DayFacts
    <3>2. f[c] = [step |-> IF Extendable(card[c], EndOf(d)) THEN "expected" ELSE "none",
                  from |-> card[c].term, start |-> card[c].start, to |-> EndOf(d),
                  passFrom |-> None, passTo |-> d]
      BY DEF NoItem
    <3>3. f[c] \in Items /\ f[c].step \in {"expected", "none"} /\ f[c].to \in Terms
      BY <1>2, <3>1, <3>2 DEF Items, Steps
    <3> HIDE DEF f
    <3> QED
      BY <1>1, <3>3 DEF Fits, Busy
  <2>3. LocalOK'
    <3>1. item' = [item EXCEPT ![p] = f] /\ f = [c \in Cards |-> f[c]]
      BY <2>1
    <3> HIDE DEF f
    <3> QED
      BY <1>1, <1>3, <2>2, <3>1, PlanLocal DEF Preview
  <2> QED
    BY <1>3, <2>3, RestSame DEF Preview, RestOK
<1>4. CASE Snapshot(p)
  <2>1. PICK confirm \in BOOLEAN, unread \in SUBSET Cards :
          /\ IF unread = {} THEN NoFault ELSE Fault
          /\ item' = [item EXCEPT ![p] = [c \in Cards |->
            IF c \in unread THEN NoItem
            ELSE [item[p][c] EXCEPT
                    !.step = IF Candidate(c, item[p][c], confirm)
                             THEN "todo" ELSE "done",
                    !.from = card[c].term, !.start = card[c].start,
                    !.passFrom = pass[c]]]]
    BY <1>4 DEF Snapshot
  <2> DEFINE f == [c \in Cards |->
            IF c \in unread THEN NoItem
            ELSE [item[p][c] EXCEPT
                    !.step = IF Candidate(c, item[p][c], confirm)
                             THEN "todo" ELSE "done",
                    !.from = card[c].term, !.start = card[c].start,
                    !.passFrom = pass[c]]]
  <2>2. ASSUME NEW c \in Cards PROVE Fits(p, "read", f[c])
    <3>1. CASE c \in unread
      BY <1>1, <3>1, ItemTypes, FitsNone DEF NoItem
    <3>2. CASE c \notin unread
      <4>1. item[p][c] \in Items
        BY <1>2 DEF Fits
      <4>2. /\ f[c] \in Items /\ f[c].step \in {"todo", "done"}
            /\ f[c].step = "todo" => Candidate(c, item[p][c], confirm)
            /\ f[c].to = item[p][c].to
        BY <1>2, <3>2, <4>1 DEF Items, Steps
      <4>3. f[c].step = "todo" => f[c].to \in Terms
        BY <1>1, <1>2, <4>2 DEF Candidate, Fits
      <4> HIDE DEF f
      <4> QED
        BY <1>1, <4>2, <4>3 DEF Fits, Busy
    <3> QED
      BY <3>1, <3>2
  <2>3. LocalOK'
    <3>1. item' = [item EXCEPT ![p] = f] /\ f = [c \in Cards |-> f[c]]
      BY <2>1
    <3> HIDE DEF f
    <3> QED
      BY <1>1, <1>4, <2>2, <3>1, PlanLocal DEF Snapshot
  <2> QED
    BY <1>4, <2>1, <2>3, RestSame DEF Snapshot, RestOK
<1> QED
  BY <1>3, <1>4

\* A save reads its card.
LEMMA TypeSave ==
  ASSUME LocalOK, RestOK, NEW p \in Saves, Save(p)
  PROVE  LocalOK' /\ RestOK'
<1> USE DEF Places
<1>1. p \in Procs /\ p \notin Syncs /\ pc[p] = "idle" /\ "card" \in Keys
  BY Apart DEF Save, Keys
<1>2. PICK c \in Cards, t \in Terms, begin \in Starts :
        Becomes(p, c, [NoItem EXCEPT !.step = "ready", !.from = card[c].term,
                                     !.start = begin, !.to = t])
  BY DEF Save
<1> DEFINE e == [NoItem EXCEPT !.step = "ready", !.from = card[c].term,
                               !.start = begin, !.to = t]
           f == [item[p] EXCEPT ![c] = e]
<1>3. e \in Items /\ e.step = "ready" /\ e.to \in Terms
  <2>1. card[c].term \in Terms \cup {None}
    BY DEF RestOK
  <2> QED
    BY <2>1 DEF NoItem, Items, Steps
<1>4. item' = [item EXCEPT ![p] = f] /\ f = [x \in Cards |-> f[x]]
  BY <1>1, <1>2 DEF Becomes, LocalOK
<1>5. ASSUME NEW x \in Cards PROVE Fits(p, "write", f[x])
  <2>1. f[x] = IF x = c THEN e ELSE item[p][x]
    BY <1>1 DEF LocalOK
  <2>2. Fits(p, "idle", item[p][x]) /\ Fits(p, "write", e)
    BY <1>1, <1>3, FitsNow DEF Fits
  <2> HIDE DEF f, e
  <2> QED
    BY <2>1, <2>2 DEF Fits
<1>6. LocalOK'
  <2> HIDE DEF f
  <2> QED
    BY <1>1, <1>4, <1>5, PlanLocal DEF Save
<1>7. lease' \in [Keys -> Rows]
  BY <1>1, LeaseTypes DEF Save, Take
<1> QED
  BY <1>6, <1>7, RestSame DEF Save, RestOK

\* A rollback turns the journal round.
LEMMA TypeRollback ==
  ASSUME LocalOK, RestOK, NEW p \in Rollbacks, NEW b \in Bulks, Rollback(p, b)
  PROVE  LocalOK' /\ RestOK'
<1> USE DEF Places
<1> DEFINE f == [c \in Cards |-> Undo(started[b][c])]
<1>1. p \in Procs /\ p \notin Syncs /\ "card" \in Keys
  BY Apart DEF Keys
<1>2. ASSUME NEW c \in Cards PROVE Fits(p, "read", f[c])
  <2> DEFINE e == started[b][c]
  <2>1. e \in Items /\ f[c] = Undo(e)
    BY DEF RestOK
  <2>2. CASE e.from = None
    BY <1>1, <2>1, <2>2, ItemTypes, FitsNone DEF Undo, NoItem
  <2>3. CASE e.from # None
    <3>1. f[c] \in Items /\ f[c].step = "todo" /\ f[c].to \in Terms
      BY <2>1, <2>3 DEF Undo, Items, Steps
    <3> QED
      BY <1>1, <3>1 DEF Fits, Busy
  <2> QED
    BY <2>2, <2>3
<1>3. LocalOK'
  <2>1. item' = [item EXCEPT ![p] = f] /\ f = [c \in Cards |-> f[c]]
    BY DEF Rollback
  <2> HIDE DEF f
  <2> QED
    BY <1>1, <1>2, <2>1, PlanLocal DEF Rollback
<1>4. lease' \in [Keys -> Rows]
  BY <1>1, LeaseTypes DEF Rollback, Take
<1>5. undoes' \in [Rollbacks -> Bulks \cup {None}]
  BY DEF Rollback, RestOK
<1> QED
  BY <1>3, <1>4, <1>5, RestOn DEF Rollback, RestOK

\* The mirror makes its plan.
LEMMA TypeSync ==
  ASSUME LocalOK, RestOK, NEW p \in Syncs, LoadPasses(p) \/ ReadCards(p)
  PROVE  LocalOK' /\ RestOK'
<1> USE DEF Places
<1>1. p \in Procs
  BY Apart
<1>2. \A c \in Cards : /\ Fits(p, pc[p], item[p][c]) /\ item[p][c] \in Items
                       /\ card[c].term \in Terms \cup {None}
                       /\ pass[c] \in Days \cup {None}
  BY <1>1, FitsNow DEF RestOK, Fits
<1>3. CASE LoadPasses(p)
  <2> DEFINE f == [c \in Cards |-> [NoItem EXCEPT !.passFrom = pass[c]]]
  <2>1. ASSUME NEW c \in Cards PROVE Fits(p, "read", f[c])
    <3>1. f[c] \in Items /\ f[c].step = "none"
      BY <1>2, ItemTypes DEF NoItem, Items
    <3> QED
      BY <1>1, <3>1, FitsNone
  <2>2. LocalOK'
    <3>1. item' = [item EXCEPT ![p] = f] /\ f = [c \in Cards |-> f[c]]
      BY <1>3 DEF LoadPasses
    <3> HIDE DEF f
    <3> QED
      BY <1>1, <1>3, <2>1, <3>1, PlanLocal DEF LoadPasses
  <2> QED
    BY <1>3, <2>2, RestSame DEF LoadPasses, RestOK
<1>4. CASE ReadCards(p)
  <2> DEFINE to(c) == DayOf(card[c].term)
  <2>1. PICK unread \in SUBSET Cards :
          LET changes == {c \in Cards \ unread : to(c) # item[p][c].passFrom}
              stop == MassChange(changes)
          IN  /\ IF unread = {} THEN NoFault ELSE Fault
              /\ item' = [item EXCEPT ![p] = [c \in Cards |->
                   [item[p][c] EXCEPT
                      !.step = IF stop THEN "done"
                               ELSE IF c \in unread THEN "missed"
                               ELSE IF c \in changes THEN "todo" ELSE "done",
                      !.passTo = IF c \in changes THEN to(c) ELSE @]]]
    BY <1>4 DEF ReadCards
  <2> DEFINE changes == {c \in Cards \ unread : to(c) # item[p][c].passFrom}
             stop == MassChange(changes)
             f == [c \in Cards |->
                   [item[p][c] EXCEPT
                      !.step = IF stop THEN "done"
                               ELSE IF c \in unread THEN "missed"
                               ELSE IF c \in changes THEN "todo" ELSE "done",
                      !.passTo = IF c \in changes THEN to(c) ELSE @]]
  <2>2. ASSUME NEW c \in Cards PROVE Fits(p, "read", f[c])
    <3>1. to(c) \in Days \cup {None}
      BY <1>2, DayFacts
    <3>2. f[c] \in Items /\ f[c].step \in {"done", "missed", "todo"}
      <4> HIDE DEF changes, stop, to
      <4> QED
        BY <1>2, <3>1 DEF Items, Steps
    <3> HIDE DEF f
    <3> QED
      BY <1>1, <3>2 DEF Fits, Busy, Sending
  <2>3. LocalOK'
    <3>1. item' = [item EXCEPT ![p] = f] /\ f = [c \in Cards |-> f[c]]
      BY <2>1
    <3>2. pc' = [pc EXCEPT ![p] = "write"]
      BY <1>4 DEF ReadCards
    <3>3. \A c \in Cards : Fits(p, "write", f[c])
      <4> HIDE DEF f
      <4> QED
        BY <2>2 DEF Fits
    <3> HIDE DEF f
    <3> QED
      BY <1>1, <3>1, <3>2, <3>3, PlanLocal
  <2> QED
    BY <1>4, <2>1, <2>3, RestSame DEF ReadCards, RestOK
<1> QED
  BY <1>3, <1>4

\* The world around the processes.
LEMMA TypeWorld ==
  ASSUME LocalOK, RestOK,
         \/ \E p \in Procs : HeartbeatFails(p)
         \/ \E k \in Keys : Lapse(k)
         \/ NightFalls \/ RetryComes
         \/ \E c \in Cards : Assign(c) \/ ChangeInManager(c)
  PROVE  LocalOK' /\ RestOK'
<1>1. UNCHANGED <<pc, item>>
  BY DEF HeartbeatFails, Lapse, NightFalls, RetryComes, Assign, ChangeInManager, work
<1>2. LocalOK'
  BY <1>1 DEF LocalOK, Placed
<1>3. CASE \E p \in Procs : HeartbeatFails(p)
  <2>1. PICK p \in Procs : HeartbeatFails(p)
    BY <1>3
  <2>2. Fault \/ NoFault
    BY <2>1 DEF HeartbeatFails
  <2>3. lost' \in [Procs -> BOOLEAN] /\ lease' \in [Keys -> Rows]
    BY <2>1 DEF HeartbeatFails, RestOK
  <2>4. UNCHANGED <<card, written, counters>>
        /\ UNCHANGED <<pass, started, undoes, day, flight, loose>>
    BY <2>1 DEF HeartbeatFails
  <2>5. RestOK'
    BY <2>2, <2>3, <2>4, RestSame
  <2> QED
    BY <1>2, <2>5
<1>4. CASE \E k \in Keys : Lapse(k)
  <2>1. PICK k \in Keys : Lapse(k)
    BY <1>4
  <2>2. Fault \/ NoFault
    BY <2>1 DEF Lapse
  <2>3. lease' = [lease EXCEPT ![k].live = FALSE] /\ loose' \subseteq loose \cup {"lapse"}
        /\ UNCHANGED <<card, pass, started, work, day, flight, written, counters>>
    BY <2>1 DEF Lapse
  <2>4. lease' \in [Keys -> Rows]
    BY <2>3 DEF RestOK, Rows
  <2>5. UNCHANGED <<undoes, lost>> /\ loose' \subseteq {"lapse", "stray", "assign", "manager"}
    BY <2>3 DEF work, RestOK
  <2>6. UNCHANGED <<card, written, counters>> /\ UNCHANGED <<pass, started, day, flight>>
    BY <2>3
  <2>7. RestOK'
    BY <2>2, <2>4, <2>5, <2>6, RestOn DEF RestOK
  <2> QED
    BY <1>2, <2>7
<1>5. CASE NightFalls \/ RetryComes
  <2>1. UNCHANGED <<undoes, lost>> /\ UNCHANGED <<card, written, counters>>
        /\ UNCHANGED <<pass, started, lease, flight, loose>> /\ NoFault
    BY <1>5 DEF NightFalls, RetryComes, work
  <2>2. day' \in [counted: BOOLEAN, waits: BOOLEAN]
    BY <1>5 DEF NightFalls, RetryComes, RestOK
  <2>3. RestOK'
    BY <2>1, <2>2, RestOn DEF RestOK
  <2> QED
    BY <1>2, <2>3
<1>6. ASSUME NEW c \in Cards, Assign(c) PROVE RestOK'
  <2>1. assigned' \in 0..MaxAssigns /\ assigned + 1 = assigned'
    BY <1>6, CardAssumption DEF Assign, RestOK
  <2>2. card' \in [Cards -> [term: Terms \cup {None}, start: Starts]]
    BY <1>6 DEF Assign, RestOK
  <2> QED
    BY <1>6, <2>1, <2>2 DEF Assign, RestOK, NoFault, work
<1>7. ASSUME NEW c \in Cards, ChangeInManager(c) PROVE RestOK'
  <2>1. outside' \in 0..MaxOutside
    BY <1>7, CardAssumption DEF ChangeInManager, RestOK
  <2>2. card' \in [Cards -> [term: Terms \cup {None}, start: Starts]]
    BY <1>7 DEF ChangeInManager, RestOK
  <2> QED
    BY <1>7, <2>1, <2>2 DEF ChangeInManager, RestOK, NoFault, work
<1> QED
  BY <1>2, <1>3, <1>4, <1>5, <1>6, <1>7

LEMMA TypeInit == Init => TypeInv
<1> SUFFICES ASSUME Init PROVE LocalOK /\ RestOK
  BY TypeParts
<1>1. LocalOK
  BY ItemTypes DEF Init, LocalOK, Placed, Places, NoPlan, NoItem, Busy, Sending
<1>2. lease \in [Keys -> Rows]
  BY DEF Init, FreeRow, Rows
<1>3. card \in [Cards -> [term: Terms \cup {None}, start: Starts]]
  BY CardAssumption DEF Init
<1>4. day \in [counted: BOOLEAN, waits: BOOLEAN]
  BY DEF Init
<1> QED
  BY <1>1, <1>2, <1>3, <1>4, ItemTypes, CardAssumption DEF Init, RestOK

\* The steps by their kind.
LEMMA NextKinds ==
  ASSUME Next
  PROVE  \/ \E p \in Procs, c \in Cards :
              \/ p \in Bulks /\ BulkReread(p, c)
              \/ p \in Rollbacks /\ RollbackReread(p, c)
              \/ p \in Syncs /\ SyncReread(p, c)
              \/ Answered(p, c) \/ Failed(p, c) \/ Verify(p, c)
         \/ \E p \in Procs, c \in Cards : WritePass(p, c)
         \/ \E p \in Procs, c \in Cards : Send(p, c)
         \/ \E m \in flight : Land(m) \/ Refuse(m)
         \/ \E p \in Procs :
              \/ p \in Bulks /\ AcquireBulk(p)
              \/ WriteStarted(p) /\ p \in Bulks \cup Rollbacks
              \/ p \in Syncs /\ (SyncTick(p) \/ SyncAcquire(p) \/ SyncDeferred(p))
         \/ \E p \in Procs :
              \/ Abandon(p) \/ Crash(p) \/ (SyncMark(p) /\ p \in Syncs) \/ Finish(p)
         \/ \E p \in Bulks : Preview(p) \/ Snapshot(p)
         \/ \E p \in Saves : Save(p)
         \/ \E p \in Rollbacks, b \in Bulks : Rollback(p, b)
         \/ \E p \in Syncs : LoadPasses(p) \/ ReadCards(p)
         \/ \E p \in Procs : HeartbeatFails(p)
         \/ \E k \in Keys : Lapse(k)
         \/ NightFalls \/ RetryComes
         \/ \E c \in Cards : Assign(c) \/ ChangeInManager(c)
<1>1. CASE \/ \E b \in Bulks : Preview(b) \/ AcquireBulk(b)
           \/ \E s \in Saves : Save(s)
           \/ \E r \in Rollbacks, b \in Bulks : Rollback(r, b)
  BY <1>1, Apart
<1>2. ASSUME NEW p \in Procs, Step(p) \/ HeartbeatFails(p) \/ Crash(p)
      PROVE  \/ HeartbeatFails(p)
             \/ \E c \in Cards :
                  \/ p \in Bulks /\ BulkReread(p, c)
                  \/ p \in Rollbacks /\ RollbackReread(p, c)
                  \/ p \in Syncs /\ SyncReread(p, c)
                  \/ Answered(p, c) \/ Failed(p, c) \/ Verify(p, c)
             \/ \E c \in Cards : WritePass(p, c)
             \/ \E c \in Cards : Send(p, c)
             \/ WriteStarted(p) /\ p \in Bulks \cup Rollbacks
             \/ p \in Syncs /\ (SyncTick(p) \/ SyncAcquire(p) \/ SyncDeferred(p))
             \/ Abandon(p) \/ Crash(p) \/ (SyncMark(p) /\ p \in Syncs) \/ Finish(p)
             \/ p \in Bulks /\ Snapshot(p)
             \/ p \in Syncs /\ (LoadPasses(p) \/ ReadCards(p))
  <2>1. CASE Step(p)
    <3>1. CASE \E c \in Cards : \/ p \in Bulks /\ BulkReread(p, c)
                                \/ p \in Rollbacks /\ RollbackReread(p, c)
                                \/ p \in Syncs /\ SyncReread(p, c)
      BY <3>1
    <3>2. CASE \E c \in Cards : \/ Send(p, c) \/ Answered(p, c) \/ Failed(p, c)
                                \/ Verify(p, c) \/ WritePass(p, c)
      BY <3>2
    <3> QED
      BY <2>1, <3>1, <3>2 DEF Step
  <2> QED
    BY <1>2, <2>1
<1>3. CASE \E p \in Procs : Step(p) \/ HeartbeatFails(p) \/ Crash(p)
  <2>1. PICK p \in Procs : Step(p) \/ HeartbeatFails(p) \/ Crash(p)
    BY <1>3
  <2> QED
    BY <1>2, <2>1
<1>4. CASE \/ \E k \in Keys : Lapse(k)
           \/ \E m \in flight : Land(m) \/ Refuse(m)
           \/ NightFalls \/ RetryComes
           \/ \E c \in Cards : Assign(c) \/ ChangeInManager(c)
  BY <1>4
<1> QED
  BY <1>1, <1>3, <1>4 DEF Next

LEMMA TypeStep == TypeInv /\ [Next]_vars => TypeInv'
<1> SUFFICES ASSUME LocalOK, RestOK, [Next]_vars PROVE LocalOK' /\ RestOK'
  BY TypeParts, PTL
<1>1. CASE UNCHANGED vars
  BY <1>1 DEF vars, work, counters, LocalOK, Placed, RestOK
<1>2. CASE Next
  BY <1>2, NextKinds, TypeItem, TypePass, TypeFlight, TypeMove, TypeDrop, TypeBulk,
     TypeSave, TypeRollback, TypeSync, TypeWorld
<1> QED
  BY <1>1, <1>2

LEMMA TypeInvariant == Spec => []TypeInv
BY TypeInit, TypeStep, PTL DEF Spec

\* Every value keeps its type, and what a process holds about a card is of the
\* kind its place allows: nothing is written before the journal.
THEOREM CardTypes == Spec => []TypeOK
<1>1. TypeInv => TypeOK
  BY DEF TypeInv
<1> QED
  BY <1>1, TypeInvariant, PTL

-----------------------------------------------------------------------------
(***************************************************************************)
(* The lock.                                                               *)
(***************************************************************************)
LEMMA LockParts ==
  ASSUME LockInv, loose = {}
  PROVE  /\ \A p \in Procs : InStep(p) /\ Locks(p)
         /\ \A m \in flight : Awaited(m)
BY DEF LockInv, InStep

\* Whoever is at work is alone.
LEMMA OneWorks ==
  ASSUME LockInv, loose = {}, NEW p \in Procs, NEW q \in Procs, Working(p),
         Working(q) \/ Holds(q, "card")
  PROVE  p = q
BY LockParts DEF Locks, Holds

LEMMA FreeMeansIdle ==
  ASSUME LockInv, loose = {}, NEW p \in Procs, NEW q \in Procs, q # p, Free("card", p)
  PROVE  ~Working(q)
BY LockParts DEF Locks, Holds, Free

\* Whoever is not at work knows nothing.
LEMMA IdleKnows ==
  ASSUME LocalOK, NEW p \in Procs, ~Working(p), NEW c \in Cards
  PROVE  item[p][c].step \notin Busy \cup {"todo"}
BY DEF LocalOK, Placed, Working

\* The step of another leaves a process as it is.
LEMMA OthersStay ==
  ASSUME LocalOK, RestOK, NEW q \in Procs, InStep(q), UNCHANGED <<card, written>>,
         pc'[q] = pc[q], item'[q] = item[q],
         Working(q) /\ Holds(q, "card") => Holds(q, "card")',
         q \in Bulks => started'[q] = started[q],
         q \in Rollbacks => undoes'[q] = undoes[q],
         q \in Rollbacks /\ Working(q) => UNCHANGED started
  PROVE  InStep(q)'
<1>1. Locks(q)'
  BY DEF InStep, Locks, Working
<1>2. Knows(q)'
  BY DEF InStep, Knows, Known, Wrote
<1>3. q \in Bulks => Plans(q)'
  BY DEF InStep, Plans
<1>4. q \in Rollbacks => Reverts(q)'
  BY DEF InStep, Reverts, Working
<1> QED
  BY <1>1, <1>2, <1>3, <1>4 DEF InStep

\* Every other process stays in step when p neither writes a card nor takes a
\* lease from anybody.
LEMMA OthersInStep ==
  ASSUME LocalOK, RestOK, LockInv, loose = {}, NEW p \in Procs,
         UNCHANGED <<card, written>>,
         \A q \in Procs \ {p} : /\ pc'[q] = pc[q] /\ item'[q] = item[q]
                                /\ q \in Bulks => started'[q] = started[q]
                                /\ q \in Rollbacks => undoes'[q] = undoes[q],
         UNCHANGED started \/ Working(p),
         \/ UNCHANGED lease
         \/ Free("card", p) /\ Take("card", p)
         \/ lease'["card"] = lease["card"]
         \/ lease["card"].owner = p
  PROVE  \A q \in Procs \ {p} : InStep(q)'
<1> SUFFICES ASSUME NEW q \in Procs \ {p} PROVE InStep(q)'
  OBVIOUS
<1>1. InStep(q)
  BY LockParts
<1>2. Working(q) /\ Holds(q, "card") => Holds(q, "card")'
  <2>1. Free("card", p) => ~Working(q)
    BY FreeMeansIdle
  <2> QED
    BY <2>1 DEF Holds
<1>3. Working(q) => UNCHANGED started
  BY OneWorks
<1> QED
  BY <1>1, <1>2, <1>3, OthersStay

\* PATCHes on their way do not notice the step of one who waits for none.
LEMMA FlightStays ==
  ASSUME LocalOK, RestOK, LockInv, loose = {}, NEW p \in Procs, flight' \subseteq flight,
         \A q \in Procs \ {p} : pc'[q] = pc[q] /\ item'[q] = item[q],
         \A m \in flight : m.by # p
  PROVE  \A m \in flight' : Awaited(m)'
<1>1. \A m \in flight : m.by \in Procs /\ Awaited(m)
  BY LockParts DEF RestOK, Patches, Procs
<1> QED
  BY <1>1 DEF Awaited

LEMMA NoneOnTheWay ==
  ASSUME LocalOK, RestOK, LockInv, loose = {}, NEW p \in Procs,
         \/ pc[p] # "write"
         \/ p \in Syncs
         \/ \A c \in Cards : item[p][c].step # "sent"
  PROVE  \A m \in flight : m.by # p
<1>1. \A m \in flight : m.card \in Cards /\ Awaited(m)
  BY LockParts DEF RestOK, Patches
<1> QED
  BY <1>1 DEF Awaited

-----------------------------------------------------------------------------
\* One item goes on.
LEMMA ItemInStep ==
  ASSUME LocalOK, RestOK, LockInv, loose = {}, NEW p \in Procs, NEW c \in Cards, NEW e,
         Becomes(p, c, e), Known(p, c, e),
         item[p][c].step \in Busy \cup {"todo"}, item[p][c].step # "sent",
         e.from = item[p][c].from, e.to = item[p][c].to, e.passTo = item[p][c].passTo,
         UNCHANGED <<card, started, pc, undoes, lease, written>>
  PROVE  /\ \A q \in Procs : InStep(q)'
         /\ \A m \in flight : Awaited(m)'
<1>1. ASSUME NEW q \in Procs, NEW x \in Cards
      PROVE  item'[q][x] = IF q = p /\ x = c THEN e ELSE item[q][x]
  BY DEF LocalOK, Becomes
<1>2. \A q \in Procs \ {p} : item'[q] = item[q]
  BY DEF LocalOK, Becomes
<1>3. \A q \in Procs \ {p} : InStep(q)'
  BY <1>2, OthersInStep
<1>4. InStep(p)'
  <2>1. InStep(p)
    BY LockParts
  <2>2. Locks(p)'
    BY <2>1 DEF InStep, Locks, Working, Holds
  <2>3. Knows(p)'
    <3>1. \A x \in Cards : Known(p, x, item'[p][x])
      BY <1>1, <2>1 DEF InStep, Knows
    <3> QED
      BY <3>1 DEF Knows, Known, Wrote
  <2>4. p \in Bulks => Plans(p)'
    BY <1>1, <2>1 DEF InStep, Plans
  <2>5. p \in Rollbacks => Reverts(p)'
    BY <1>1, <2>1 DEF InStep, Reverts, Busy
  <2> QED
    BY <2>2, <2>3, <2>4, <2>5 DEF InStep
<1>5. ASSUME NEW m \in flight PROVE Awaited(m)'
  <2>1. Awaited(m) /\ m.by \in Procs /\ m.card \in Cards
    BY LockParts DEF RestOK, Patches, Procs
  <2>2. item'[m.by][m.card] = item[m.by][m.card]
    BY <1>1, <2>1 DEF Awaited
  <2> QED
    BY <2>1, <2>2 DEF Awaited
<1> QED
  BY <1>3, <1>4, <1>5

\* One item takes another step.
LEMMA GoesInStep ==
  ASSUME LocalOK, RestOK, LockInv, loose = {}, NEW p \in Procs, NEW c \in Cards,
         NEW s \in Steps, Goes(p, c, s), Known(p, c, [item[p][c] EXCEPT !.step = s]),
         item[p][c].step \in Busy \cup {"todo"}, item[p][c].step # "sent",
         UNCHANGED <<card, started, pc, undoes, lease, written>>
  PROVE  /\ \A q \in Procs : InStep(q)'
         /\ \A m \in flight : Awaited(m)'
<1>1. item[p][c] \in Items
  BY DEF LocalOK
<1> QED
  BY <1>1, ItemTypes, ItemInStep DEF Goes

\* An item that is dealt with says nothing of its card.
LEMMA SettledInStep ==
  ASSUME LocalOK, RestOK, LockInv, loose = {}, NEW p \in Procs, NEW c \in Cards,
         NEW s \in {"done", "missed", "verify", "refused"}, Goes(p, c, s),
         item[p][c].step \in Busy \cup {"todo"}, item[p][c].step # "sent",
         UNCHANGED <<card, started, pc, undoes, lease, written>>
  PROVE  /\ \A q \in Procs : InStep(q)'
         /\ \A m \in flight : Awaited(m)'
<1>1. s \in Steps /\ item[p][c] \in Items
  BY DEF Steps, LocalOK
<1>2. Known(p, c, [item[p][c] EXCEPT !.step = s])
  BY <1>1, ItemTypes DEF Known
<1> QED
  BY <1>1, <1>2, GoesInStep

LEMMA LockItem ==
  ASSUME LocalOK, RestOK, LockInv, loose' = {}, NEW p \in Procs, NEW c \in Cards,
         \/ p \in Bulks /\ BulkReread(p, c)
         \/ p \in Rollbacks /\ RollbackReread(p, c)
         \/ p \in Syncs /\ SyncReread(p, c)
         \/ Answered(p, c) \/ Failed(p, c) \/ Verify(p, c) \/ WritePass(p, c)
  PROVE  LockInv'
<1> DEFINE e == item[p][c]
<1>1. loose = {} /\ UNCHANGED flight
      /\ UNCHANGED <<card, started, pc, undoes, lease, written>>
  BY DEF BulkReread, RollbackReread, SyncReread, Answered, Failed, Verify, WritePass
<1>2. e.step \in Busy \cup {"todo"} /\ e.step # "sent"
  BY <1>1 DEF BulkReread, RollbackReread, SyncReread, Answered, Failed, Verify,
              WritePass, Busy
<1>3. SUFFICES (\A q \in Procs : InStep(q)') /\ (\A m \in flight : Awaited(m)')
  BY <1>1 DEF LockInv
<1>4. e \in Items /\ Known(p, c, e) /\ {"confirmed", "ready"} \subseteq Steps
  BY <1>1, LockParts DEF LocalOK, InStep, Knows, Steps
<1>5. ASSUME NEW s \in {"done", "missed", "verify"}, Goes(p, c, s)
      PROVE  (\A q \in Procs : InStep(q)') /\ (\A m \in flight : Awaited(m)')
  BY <1>1, <1>2, <1>5, SettledInStep
<1>6. ASSUME Goes(p, c, "confirmed"), p \notin Syncs => card[c].term = e.to,
             p \in Syncs => DayOf(card[c].term) = e.passTo
      PROVE  (\A q \in Procs : InStep(q)') /\ (\A m \in flight : Awaited(m)')
  <2>1. Known(p, c, [e EXCEPT !.step = "confirmed"])
    BY <1>4, <1>6, ItemTypes DEF Known
  <2> QED
    BY <1>1, <1>2, <1>4, <1>6, <2>1, GoesInStep
<1>7. ASSUME p \in Bulks, BulkReread(p, c)
      PROVE  (\A q \in Procs : InStep(q)') /\ (\A m \in flight : Awaited(m)')
  <2>1. ASSUME Becomes(p, c, [e EXCEPT !.step = "ready", !.from = card[c].term])
        PROVE  (\A q \in Procs : InStep(q)') /\ (\A m \in flight : Awaited(m)')
    <3> DEFINE x == [e EXCEPT !.step = "ready", !.from = card[c].term]
    <3>1. card[c].term = e.from
      BY <1>4, <1>7 DEF Known, BulkReread
    <3>2. x.step = "ready" /\ x.from = e.from /\ x.to = e.to /\ x.passTo = e.passTo
      BY <1>4, <3>1 DEF Items
    <3>3. Known(p, c, x)
      BY <3>1, <3>2 DEF Known
    <3> HIDE DEF x
    <3> QED
      BY <1>1, <1>2, <2>1, <3>2, <3>3, ItemInStep DEF x
  <2> QED
    BY <1>5, <1>7, <2>1 DEF BulkReread
<1>8. ASSUME p \in Rollbacks, RollbackReread(p, c)
      PROVE  (\A q \in Procs : InStep(q)') /\ (\A m \in flight : Awaited(m)')
  <2>1. ASSUME Becomes(p, c, [e EXCEPT !.step = "ready", !.start = card[c].start]),
               card[c].term = e.from
        PROVE  (\A q \in Procs : InStep(q)') /\ (\A m \in flight : Awaited(m)')
    <3> DEFINE x == [e EXCEPT !.step = "ready", !.start = card[c].start]
    <3>1. x.step = "ready" /\ x.from = e.from /\ x.to = e.to /\ x.passTo = e.passTo
      BY <1>4 DEF Items
    <3>2. Known(p, c, x)
      BY <2>1, <3>1 DEF Known
    <3> HIDE DEF x
    <3> QED
      BY <1>1, <1>2, <2>1, <3>1, <3>2, ItemInStep DEF x
  <2> QED
    BY <1>5, <1>8, <2>1 DEF RollbackReread
<1>9. ASSUME p \in Syncs, SyncReread(p, c)
      PROVE  (\A q \in Procs : InStep(q)') /\ (\A m \in flight : Awaited(m)')
  BY <1>5, <1>6, <1>9 DEF SyncReread
<1>10. ASSUME Answered(p, c)
       PROVE  (\A q \in Procs : InStep(q)') /\ (\A m \in flight : Awaited(m)')
  <2>1. e.step = "landed" /\ p \notin Syncs
    BY <1>10, FitsNow DEF Answered, Fits, Sending, Busy
  <2>2. card[c].term = e.to
    BY <1>4, <2>1 DEF Known
  <2> QED
    BY <1>5, <1>6, <1>10, <2>1, <2>2 DEF Answered
<1>11. ASSUME Failed(p, c)
       PROVE  (\A q \in Procs : InStep(q)') /\ (\A m \in flight : Awaited(m)')
  BY <1>5, <1>11 DEF Failed
<1>12. ASSUME Verify(p, c)
       PROVE  (\A q \in Procs : InStep(q)') /\ (\A m \in flight : Awaited(m)')
  <2>1. p \notin Syncs
    BY <1>12, FitsNow DEF Verify, Fits, Sending, Busy
  <2> QED
    BY <1>5, <1>6, <1>12, <2>1 DEF Verify
<1>13. ASSUME WritePass(p, c)
       PROVE  (\A q \in Procs : InStep(q)') /\ (\A m \in flight : Awaited(m)')
  <2>1. Goes(p, c, "done") \/ Goes(p, c, "missed")
    BY <1>13 DEF WritePass
  <2> QED
    BY <1>5, <2>1
<1> QED
  BY <1>7, <1>8, <1>9, <1>10, <1>11, <1>12, <1>13

LEMMA LockSend ==
  ASSUME LocalOK, RestOK, LockInv, loose' = {}, NEW p \in Procs, NEW c \in Cards, Send(p, c)
  PROVE  LockInv'
<1> DEFINE e == item[p][c]
           n == [by |-> p, card |-> c, from |-> e.from, to |-> e.to, start |-> e.start]
<1>1. loose = {} /\ e.step = "ready" /\ e \in Items /\ Known(p, c, e)
      /\ p \notin Syncs /\ pc[p] = "write" /\ "sent" \in Steps
  BY LockParts DEF Send, LocalOK, InStep, Knows, Steps
<1>2. Known(p, c, [e EXCEPT !.step = "sent"])
  BY <1>1, ItemTypes DEF Known
<1>3. UNCHANGED <<card, started, pc, undoes, lease, written>> /\ flight' = flight \cup {n}
      /\ Goes(p, c, "sent")
  BY DEF Send
<1>4. (\A q \in Procs : InStep(q)') /\ (\A m \in flight : Awaited(m)')
  BY <1>1, <1>2, <1>3, GoesInStep DEF Busy
<1>5. ASSUME NEW m, m = n PROVE Awaited(m)'
  <2>1. item'[p][c] = [e EXCEPT !.step = "sent"]
    BY <1>3 DEF Goes, Becomes, LocalOK
  <2> QED
    <3>1. /\ m.by = p /\ m.card = c /\ m.from = e.from /\ m.to = e.to
          /\ m.start = e.start
      BY <1>5
    <3>2. LET y == item'[p][c]
          IN  y.step = "sent" /\ y.from = e.from /\ y.to = e.to /\ y.start = e.start
      BY <1>1, <2>1, ItemTypes
    <3> QED
      BY <1>1, <1>3, <3>1, <3>2 DEF Awaited
<1> QED
  BY <1>3, <1>4, <1>5 DEF LockInv

\* As long as nobody has left the lock, an answer leaves nothing on its way.
LEMMA ReplyEnds ==
  ASSUME NEW m, NEW step, Reply(m, step), loose' = {}
  PROVE  Tell(m, step) /\ flight' = flight \ {m} /\ UNCHANGED loose
BY DEF Reply

\* Sigur carries a PATCH out or refuses it.
LEMMA LockLand ==
  ASSUME LocalOK, RestOK, LockInv, loose' = {}, NEW m \in flight, Land(m)
  PROVE  LockInv'
<1> DEFINE p == m.by
           c == m.card
<1>1. /\ loose = {} /\ UNCHANGED <<started, pc, undoes, lease>>
      /\ p \in Procs /\ p \notin Syncs /\ c \in Cards /\ m \in Patches
  BY Apart, ReplyEnds DEF Land, RestOK, Patches
<1>2. /\ pc[p] = "write" /\ item[p][c].step = "sent" /\ item[p][c].from = m.from
      /\ item[p][c].to = m.to /\ item[p][c].start = m.start /\ item[p][c] \in Items
  BY <1>1, LockParts DEF Awaited, LocalOK
<1>3. card' = [card EXCEPT ![c] = [term |-> m.to, start |-> m.start]]
  BY DEF Land
<1>4. /\ written \subseteq written'
      /\ \A w \in written' \ written : /\ w.by = p /\ w.card = c /\ ~Wrote(p, c)
                                       /\ w.from = card[c].term
      /\ Wrote(p, c)'
  <2> DEFINE n == [by |-> m.by, card |-> m.card, from |-> card[m.card].term]
  <2>1. n.by = p /\ n.card = c /\ n.from = card[c].term
    OBVIOUS
  <2>2. CASE Wrote(p, c)
    <3>1. written' = written
      BY <2>2 DEF Land, Wrote
    <3> QED
      BY <2>2, <3>1 DEF Wrote
  <2>3. CASE ~Wrote(p, c)
    <3>1. written' = written \cup {n}
      BY <2>3 DEF Land, Wrote
    <3> HIDE DEF n
    <3> QED
      BY <2>1, <2>3, <3>1 DEF Wrote
  <2> QED
    BY <2>2, <2>3
<1>5. \/ flight' = flight \ {m} /\ Goes(p, c, "landed")
      \/ UNCHANGED <<flight, item>>
  BY <1>2, ReplyEnds DEF Land, Tell
<1>6. ASSUME NEW q \in Procs, NEW x \in Cards
      PROVE  item'[q][x] = IF q = p /\ x = c
                           THEN [item[p][c] EXCEPT !.step = item'[p][c].step]
                           ELSE item[q][x]
  <2>1. CASE Goes(p, c, "landed")
    BY <1>1, <2>1 DEF Goes, Becomes, LocalOK, Items
  <2>2. CASE UNCHANGED item
    BY <1>2, <2>2 DEF Items
  <2> QED
    BY <1>5, <2>1, <2>2
<1>7. item'[p][c].step \in {"sent", "landed"}
  <2>1. CASE Goes(p, c, "landed")
    BY <1>1, <2>1 DEF Goes, Becomes, LocalOK, Items
  <2>2. CASE UNCHANGED item
    BY <1>2, <2>2
  <2> QED
    BY <1>5, <2>1, <2>2
<1>8. /\ item'[p][c].from = m.from /\ item'[p][c].to = m.to
      /\ item'[p][c].start = m.start /\ item'[p][c].passTo = item[p][c].passTo
  BY <1>1, <1>2, <1>6 DEF Items
<1>9. Working(p) /\ InStep(p)
  BY <1>1, <1>2, LockParts DEF Working
<1>10. ASSUME NEW q \in Procs \ {p} PROVE InStep(q)'
  <2>1. InStep(q) /\ ~Working(q)
    BY <1>1, <1>9, LockParts, OneWorks
  <2>2. \A x \in Cards : item'[q][x] = item[q][x] /\ item[q][x].step \notin Busy \cup {"todo"}
    BY <1>6, <2>1, IdleKnows
  <2>3. Locks(q)' /\ (q \in Rollbacks => Reverts(q)')
    BY <1>1, <2>1 DEF Locks, Reverts, Working
  <2>4. Knows(q)'
    BY <2>2 DEF Knows, Known, Busy
  <2>5. q \in Bulks => Plans(q)'
    BY <1>1, <1>4, <2>1, <2>2 DEF InStep, Plans, Working
  <2> QED
    BY <2>3, <2>4, <2>5 DEF InStep
<1>11. InStep(p)'
  <2>1. Locks(p)'
    BY <1>1, <1>9 DEF InStep, Locks, Working, Holds
  <2>2. ASSUME NEW x \in Cards PROVE Known(p, x, item[p][x])'
    <3>1. CASE x = c
      <4>1. card'[c].term = m.to
        BY <1>1, <1>3 DEF RestOK
      <4> QED
        BY <1>1, <1>4, <1>7, <1>8, <3>1, <4>1 DEF Known
    <3>2. CASE x # c
      <4>1. card'[x] = card[x] /\ item'[p][x] = item[p][x] /\ Known(p, x, item[p][x])
        BY <1>1, <1>3, <1>6, <1>9, <3>2 DEF RestOK, InStep, Knows
      <4> QED
        BY <1>4, <4>1 DEF Known, Wrote
    <3> QED
      BY <3>1, <3>2
  <2>3. p \in Bulks => Plans(p)'
    <3> SUFFICES ASSUME p \in Bulks PROVE Plans(p)'
      OBVIOUS
    <3>1. Plans(p) /\ Known(p, c, item[p][c])
      BY <1>1, <1>9 DEF InStep, Knows
    <3>2. \A x \in Cards : /\ item'[p][x].from = item[p][x].from
                           /\ item'[p][x].to = item[p][x].to
                           /\ item'[p][x].passTo = item[p][x].passTo
      BY <1>1, <1>2, <1>6, <1>8
    <3>3. \A x \in Cards : item'[p][x].step \in Busy \cup {"expected", "todo"}
                             => item[p][x].step \in Busy \cup {"expected", "todo"}
      BY <1>1, <1>2, <1>6 DEF Busy
    <3>4. \A w \in written' : w.by = p => w.from = started[p][w.card].from
      <4>1. ASSUME NEW w \in written' \ written PROVE w.from = started[p][w.card].from
        BY <1>1, <1>2, <1>4, <3>1, <4>1 DEF Known, Plans
      <4> QED
        BY <3>1, <4>1 DEF Plans
    <3> QED
      BY <1>1, <1>2, <3>1, <3>2, <3>3, <3>4 DEF Plans
  <2>4. p \in Rollbacks => Reverts(p)'
    <3>1. \A x \in Cards : item'[p][x].to = item[p][x].to
                           /\ (item'[p][x].step # "none" => item[p][x].step # "none")
      BY <1>1, <1>2, <1>6, <1>8
    <3> QED
      BY <1>1, <1>9, <3>1 DEF InStep, Reverts
  <2>5. Knows(p)'
    BY <2>2 DEF Knows
  <2> QED
    BY <2>1, <2>3, <2>4, <2>5 DEF InStep
<1>12. ASSUME NEW o \in flight' PROVE Awaited(o)'
  <2>1. o \in Patches /\ o.by \in Procs /\ o.card \in Cards /\ Awaited(o)
    BY <1>1, <1>5, LockParts DEF RestOK, Patches, Procs
  <2>2. CASE UNCHANGED item
    BY <1>1, <2>1, <2>2 DEF Awaited
  <2>3. CASE flight' = flight \ {m}
    <3>1. o # m
      BY <2>3
    <3>2. ~(o.by = p /\ o.card = c)
      BY <1>1, <1>2, <2>1, <3>1 DEF Awaited, Patches
    <3>3. item'[o.by][o.card] = item[o.by][o.card]
      BY <1>6, <2>1, <3>2
    <3> QED
      BY <1>1, <2>1, <3>3 DEF Awaited
  <2> QED
    BY <1>5, <2>2, <2>3
<1>13. \A q \in Procs : InStep(q)'
  BY <1>10, <1>11
<1> QED
  BY <1>12, <1>13 DEF LockInv

LEMMA LockRefuse ==
  ASSUME LocalOK, RestOK, LockInv, loose' = {}, NEW m \in flight, Refuse(m)
  PROVE  LockInv'
<1> DEFINE p == m.by
           c == m.card
<1>1. /\ loose = {} /\ UNCHANGED <<card, started, pc, undoes, lease, written>>
      /\ p \in Procs /\ c \in Cards /\ m \in Patches /\ p \notin Syncs
      /\ flight' = flight \ {m}
  BY Apart, ReplyEnds DEF Refuse, RestOK, Patches
<1>2. /\ pc[p] = "write" /\ item[p][c].step = "sent" /\ item[p][c].from = m.from
      /\ item[p][c].to = m.to /\ item[p][c].start = m.start /\ item[p][c] \in Items
  BY <1>1, LockParts DEF Awaited, LocalOK
<1>3. Goes(p, c, "refused")
  BY <1>2, ReplyEnds DEF Refuse, Tell
<1>4. ASSUME NEW q \in Procs, NEW x \in Cards
      PROVE  item'[q][x] = IF q = p /\ x = c
                           THEN [item[p][c] EXCEPT !.step = "refused"]
                           ELSE item[q][x]
  BY <1>1, <1>3 DEF Goes, Becomes, LocalOK
<1>5. LET y == item'[p][c]
      IN  /\ y.step = "refused" /\ y.from = item[p][c].from /\ y.to = item[p][c].to
          /\ y.passTo = item[p][c].passTo
  BY <1>1, <1>2, <1>4 DEF Items
<1>6. \A q \in Procs \ {p} : InStep(q)'
  <2>1. \A q \in Procs \ {p} : item'[q] = item[q]
    BY <1>1, <1>3 DEF Goes, Becomes, LocalOK
  <2> QED
    BY <1>1, <2>1, OthersInStep
<1>7. InStep(p)'
  <2>1. InStep(p)
    BY <1>1, LockParts
  <2>2. Locks(p)'
    BY <1>1, <2>1 DEF InStep, Locks, Working, Holds
  <2>3. Knows(p)'
    <3>1. \A x \in Cards : Known(p, x, item'[p][x])
      BY <1>1, <1>4, <1>5, <2>1 DEF InStep, Knows, Known
    <3> QED
      BY <1>1, <3>1 DEF Knows, Known, Wrote
  <2>4. p \in Bulks => Plans(p)'
    BY <1>1, <1>2, <1>4, <1>5, <2>1 DEF InStep, Plans, Busy
  <2>5. p \in Rollbacks => Reverts(p)'
    BY <1>1, <1>2, <1>4, <1>5, <2>1 DEF InStep, Reverts
  <2> QED
    BY <2>2, <2>3, <2>4, <2>5 DEF InStep
<1>8. ASSUME NEW o \in flight' PROVE Awaited(o)'
  <2>1. o \in Patches /\ o.by \in Procs /\ o.card \in Cards /\ Awaited(o) /\ o # m
    BY <1>1, LockParts DEF RestOK, Patches, Procs
  <2>2. ~(o.by = p /\ o.card = c)
    BY <1>1, <1>2, <2>1 DEF Awaited, Patches
  <2>3. item'[o.by][o.card] = item[o.by][o.card]
    BY <1>4, <2>1, <2>2
  <2> QED
    BY <1>1, <2>1, <2>3 DEF Awaited
<1>9. \A q \in Procs : InStep(q)'
  BY <1>6, <1>7
<1> QED
  BY <1>8, <1>9 DEF LockInv

-----------------------------------------------------------------------------
\* What is left to show of a step that changes one process and no card: that
\* this process is in step.
LEMMA OnlyActor ==
  ASSUME LocalOK, RestOK, LockInv, loose = {}, NEW p \in Procs, UNCHANGED <<card, written>>,
         flight' \subseteq flight,
         \A q \in Procs \ {p} : /\ pc'[q] = pc[q] /\ item'[q] = item[q]
                                /\ q \in Bulks => started'[q] = started[q]
                                /\ q \in Rollbacks => undoes'[q] = undoes[q],
         UNCHANGED started \/ Working(p),
         \/ UNCHANGED lease
         \/ Free("card", p) /\ Take("card", p)
         \/ lease'["card"] = lease["card"]
         \/ lease["card"].owner = p,
         \A m \in flight : m.by # p,
         InStep(p)'
  PROVE  LockInv'
<1>1. \A q \in Procs : InStep(q)'
  BY OthersInStep
<1>2. \A m \in flight' : Awaited(m)'
  BY FlightStays
<1> QED
  BY <1>1, <1>2 DEF LockInv

\* A process that is not at work afterwards and keeps nothing about a card.
LEMMA RestInStep ==
  ASSUME NEW p \in Procs, pc'[p] \notin {"held", "read", "write"},
         \A c \in Cards : item'[p][c].step \notin Busy \cup {"todo"},
         p \in Bulks => Plans(p)'
  PROVE  InStep(p)'
<1>1. Locks(p)' /\ (p \in Rollbacks => Reverts(p)')
  BY DEF Locks, Working, Reverts
<1>2. Knows(p)'
  BY DEF Knows, Known, Busy
<1> QED
  BY <1>1, <1>2 DEF InStep

\* A run of the mirror that has confirmed nothing.
LEMMA SyncInStep ==
  ASSUME NEW p \in Syncs, Locks(p)', \A c \in Cards : item'[p][c].step \notin Busy
  PROVE  InStep(p)'
<1>1. p \notin Bulks /\ p \notin Rollbacks
  BY Apart
<1>2. Knows(p)'
  BY <1>1 DEF Knows, Known, Busy
<1> QED
  BY <1>1, <1>2 DEF InStep

\* What the mirror makes of an item when it reads the cards.
LEMMA ReadItems ==
  ASSUME LocalOK, NEW p \in Syncs, p \in Procs, ReadCards(p), NEW c \in Cards
  PROVE  \E s \in {"done", "missed", "todo"} :
           \E d : item'[p][c] = [item[p][c] EXCEPT !.step = s, !.passTo = d]
<1> DEFINE to(x) == DayOf(card[x].term)
<1>1. PICK unread \in SUBSET Cards :
        LET changes == {x \in Cards \ unread : to(x) # item[p][x].passFrom}
            stop == MassChange(changes)
        IN  item' = [item EXCEPT ![p] = [x \in Cards |->
              [item[p][x] EXCEPT
                 !.step = IF stop THEN "done"
                          ELSE IF x \in unread THEN "missed"
                          ELSE IF x \in changes THEN "todo" ELSE "done",
                 !.passTo = IF x \in changes THEN to(x) ELSE @]]]
  BY DEF ReadCards
<1> DEFINE changes == {x \in Cards \ unread : to(x) # item[p][x].passFrom}
           stop == MassChange(changes)
           s == IF stop THEN "done" ELSE IF c \in unread THEN "missed"
                ELSE IF c \in changes THEN "todo" ELSE "done"
           d == IF c \in changes THEN to(c) ELSE item[p][c].passTo
<1>2. item'[p][c] = [item[p][c] EXCEPT !.step = s, !.passTo = d]
  <2> HIDE DEF changes, stop, to
  <2> QED
    BY <1>1 DEF LocalOK, changes, stop, to
<1>3. s \in {"done", "missed", "todo"}
  OBVIOUS
<1> HIDE DEF s, d
<1> QED
  BY <1>2, <1>3

LEMMA LockSync ==
  ASSUME LocalOK, RestOK, LockInv, loose' = {}, NEW p \in Syncs,
         SyncTick(p) \/ SyncAcquire(p) \/ SyncDeferred(p) \/ LoadPasses(p) \/ ReadCards(p)
         \/ SyncMark(p)
  PROVE  LockInv'
<1>1. /\ loose = {} /\ UNCHANGED <<card, written, flight, started, undoes>>
      /\ p \in Procs /\ p \notin Bulks /\ p \notin Rollbacks
  BY Apart DEF SyncTick, SyncAcquire, SyncDeferred, LoadPasses, ReadCards, SyncMark
<1>2. \A q \in Procs \ {p} : pc'[q] = pc[q] /\ item'[q] = item[q]
  BY DEF SyncTick, SyncAcquire, SyncDeferred, LoadPasses, ReadCards, SyncMark, LocalOK
<1>3. \/ UNCHANGED lease
      \/ Free("card", p) /\ Take("card", p)
      \/ lease'["card"] = lease["card"]
  BY DEF SyncTick, SyncAcquire, SyncDeferred, LoadPasses, ReadCards, SyncMark, Take,
         Released, RestOK, Keys
<1>4. \A m \in flight : m.by # p
  BY <1>1, NoneOnTheWay
<1>5. InStep(p)'
  <2>1. \A c \in Cards : item[p][c].step \in Busy => pc[p] = "write"
    BY <1>1 DEF LocalOK, Placed
  <2>2. CASE SyncTick(p) \/ SyncAcquire(p) \/ SyncDeferred(p)
    <3>1. \A c \in Cards : item'[p][c].step \notin Busy
      BY <2>1, <2>2 DEF SyncTick, SyncAcquire, SyncDeferred
    <3>2. Locks(p)'
      BY <1>1, <2>2 DEF SyncTick, SyncAcquire, SyncDeferred, Locks, Working, Holds, Take,
                        LocalOK, RestOK, Keys
    <3> QED
      BY <3>1, <3>2, SyncInStep
  <2>3. CASE LoadPasses(p) \/ ReadCards(p)
    <3>1. \A c \in Cards : item'[p][c].step \notin Busy
      <4>1. CASE LoadPasses(p)
        BY <1>1, <4>1 DEF LoadPasses, NoItem, Busy, LocalOK
      <4>2. CASE ReadCards(p)
        <5>1. ASSUME NEW c \in Cards PROVE item'[p][c].step \in {"done", "missed", "todo"}
          <6>1. PICK s \in {"done", "missed", "todo"} :
                  \E d : item'[p][c] = [item[p][c] EXCEPT !.step = s, !.passTo = d]
            BY <1>1, <4>2, ReadItems
          <6> QED
            BY <1>1, <6>1 DEF LocalOK, Items
        <5> QED
          BY <5>1 DEF Busy
      <4> QED
        BY <2>3, <4>1, <4>2
    <3>2. Locks(p)'
      BY <1>1, <2>3, LockParts DEF LoadPasses, ReadCards, Locks, Working, Holds
    <3> QED
      BY <3>1, <3>2, SyncInStep
  <2>4. CASE SyncMark(p)
    <3>1. \A c \in Cards : item'[p][c].step \notin Busy
      BY <1>1, <2>4 DEF SyncMark, NoPlan, NoItem, Busy, LocalOK
    <3>2. Locks(p)'
      BY <1>1, <2>4 DEF SyncMark, Locks, Working, LocalOK
    <3> QED
      BY <3>1, <3>2, SyncInStep
  <2> QED
    BY <2>2, <2>3, <2>4
<1> QED
  BY <1>1, <1>2, <1>3, <1>4, <1>5, OnlyActor

\* A plan that is dropped.
LEMMA LockDrop ==
  ASSUME LocalOK, RestOK, LockInv, loose' = {}, NEW p \in Procs,
         Abandon(p) \/ Crash(p) \/ Finish(p)
  PROVE  LockInv'
<1>1. loose = {} /\ UNCHANGED <<card, written, flight, started, undoes>>
  BY DEF Abandon, Crash, Finish
<1>2. \A q \in Procs \ {p} : pc'[q] = pc[q] /\ item'[q] = item[q]
  BY DEF Abandon, Crash, Finish, LocalOK
<1>3. UNCHANGED lease \/ lease'["card"] = lease["card"] \/ lease["card"].owner = p
  BY DEF Abandon, Crash, Finish, Released, Holds, RestOK, Keys
<1>4. \A m \in flight : m.by # p
  <2>1. CASE Abandon(p)
    BY <1>1, <2>1, NoneOnTheWay DEF Abandon
  <2>2. CASE Crash(p)
    BY <2>2 DEF Crash
  <2>3. CASE Finish(p)
    BY <1>1, <2>3, NoneOnTheWay DEF Finish, Resting
  <2> QED
    BY <2>1, <2>2, <2>3
<1>5. pc'[p] \notin {"held", "read", "write"}
      /\ (p \in Bulks => pc'[p] \in {"close", "over"})
  BY Apart DEF Abandon, Crash, Finish, LocalOK
<1>6. \A c \in Cards : item'[p][c].step \in {"none", "missed"}
                       \/ (p \in Syncs /\ item'[p][c].step \notin Busy \cup {"todo"})
  <2>1. CASE Abandon(p)
    BY <2>1 DEF Abandon, LocalOK, NoItem
  <2>2. CASE Crash(p)
    BY <2>2 DEF Crash, LocalOK, NoPlan, NoItem
  <2>3. CASE Finish(p) /\ p \notin Syncs
    BY <2>3 DEF Finish, LocalOK, NoPlan, NoItem
  <2>4. CASE Finish(p) /\ p \in Syncs
    BY <2>4 DEF Finish, LocalOK, Placed, Resting, Busy
  <2> QED
    BY <2>1, <2>2, <2>3, <2>4
<1>7. p \in Bulks => Plans(p)'
  <2>1. p \in Bulks => Plans(p)
    BY <1>1, LockParts DEF InStep
  <2> QED
    BY <1>1, <1>5, <1>6, <2>1, Apart DEF Plans, Busy
<1>8. InStep(p)'
  BY <1>5, <1>6, <1>7, RestInStep DEF Busy
<1> QED
  BY <1>1, <1>2, <1>3, <1>4, <1>8, OnlyActor

LEMMA LockBulk ==
  ASSUME LocalOK, RestOK, LockInv, loose' = {}, NEW p \in Bulks,
         Preview(p) \/ AcquireBulk(p) \/ Snapshot(p)
  PROVE  LockInv'
<1>1. /\ loose = {} /\ UNCHANGED <<card, written, flight, started, undoes>>
      /\ p \in Procs /\ p \notin Syncs /\ p \notin Rollbacks
  BY Apart DEF Preview, AcquireBulk, Snapshot
<1>2. \A q \in Procs \ {p} : pc'[q] = pc[q] /\ item'[q] = item[q]
  BY DEF Preview, AcquireBulk, Snapshot, LocalOK
<1>3. UNCHANGED lease \/ (Free("card", p) /\ Take("card", p))
  BY DEF Preview, AcquireBulk, Snapshot
<1>4. pc[p] \in {"idle", "asked", "held"} /\ \A m \in flight : m.by # p
  <2>1. pc[p] \in {"idle", "asked", "held"}
    BY DEF Preview, AcquireBulk, Snapshot
  <2> QED
    BY <1>1, <2>1, NoneOnTheWay
<1>5. InStep(p) /\ Plans(p) /\ Locks(p) /\ started[p] = NoPlan
      /\ (\A w \in written : w.by # p)
  BY <1>1, <1>4, LockParts DEF InStep, Plans
<1>6. ASSUME pc'[p] \in {"idle", "asked", "held", "read"},
             \A c \in Cards : item'[p][c].step \in Busy \cup {"expected", "todo"}
                                => item'[p][c].passTo = DayOf(item'[p][c].to)
      PROVE  Plans(p)'
  BY <1>1, <1>5, <1>6 DEF Plans
<1>7. InStep(p)'
  <2>1. CASE Preview(p)
    <3>1. PICK d \in Targets :
            item' = [item EXCEPT ![p] = [c \in Cards |->
              [NoItem EXCEPT
                 !.step = IF Extendable(card[c], EndOf(d)) THEN "expected" ELSE "none",
                 !.from = card[c].term, !.start = card[c].start,
                 !.to = EndOf(d), !.passTo = d]]]
      BY <2>1 DEF Preview
    <3>2. ASSUME NEW c \in Cards
          PROVE  /\ item'[p][c].step \in {"expected", "none"}
                 /\ item'[p][c].to = EndOf(d) /\ item'[p][c].passTo = d
      <4>1. item'[p][c] =
              [step |-> IF Extendable(card[c], EndOf(d)) THEN "expected" ELSE "none",
               from |-> card[c].term, start |-> card[c].start, to |-> EndOf(d),
               passFrom |-> None, passTo |-> d]
        BY <1>1, <3>1 DEF LocalOK, NoItem
      <4> QED
        BY <4>1
    <3>3. pc'[p] = "asked"
      BY <1>1, <2>1 DEF Preview, LocalOK
    <3>4. Plans(p)'
      BY <1>6, <3>2, <3>3, DayFacts
    <3> QED
      BY <1>1, <3>2, <3>3, <3>4, RestInStep DEF Busy
  <2>2. CASE AcquireBulk(p)
    <3>1. pc'[p] = "held" /\ item'[p] = item[p] /\ pc[p] = "asked"
      BY <1>1, <2>2 DEF AcquireBulk, LocalOK
    <3>2. Locks(p)'
      BY <2>2 DEF AcquireBulk, Locks, Holds, Take, RestOK, Keys
    <3>3. Plans(p)'
      BY <1>5, <1>6, <3>1 DEF Plans
    <3>4. Knows(p)'
      BY <1>1, <1>5, <3>1 DEF InStep, Knows, Known, Wrote
    <3> QED
      BY <1>1, <3>2, <3>3, <3>4 DEF InStep
  <2>3. CASE Snapshot(p)
    <3>1. PICK confirm \in BOOLEAN, unread \in SUBSET Cards :
            item' = [item EXCEPT ![p] = [c \in Cards |->
              IF c \in unread THEN NoItem
              ELSE [item[p][c] EXCEPT
                      !.step = IF Candidate(c, item[p][c], confirm)
                               THEN "todo" ELSE "done",
                      !.from = card[c].term, !.start = card[c].start,
                      !.passFrom = pass[c]]]]
      BY <2>3 DEF Snapshot
    <3>2. ASSUME NEW c \in Cards, item'[p][c].step \notin {"none", "done"}
          PROVE  /\ item'[p][c].step = "todo" /\ item[p][c].step = "expected"
                 /\ item'[p][c].from = card[c].term
                 /\ item'[p][c].to = item[p][c].to
                 /\ item'[p][c].passTo = item[p][c].passTo
      <4>1. item[p][c] \in Items
        BY <1>1 DEF LocalOK
      <4>2. c \notin unread
        BY <1>1, <3>1, <3>2 DEF LocalOK, NoItem
      <4>3. item'[p][c] =
              [item[p][c] EXCEPT
                 !.step = IF Candidate(c, item[p][c], confirm) THEN "todo" ELSE "done",
                 !.from = card[c].term, !.start = card[c].start, !.passFrom = pass[c]]
        BY <1>1, <3>1, <4>2 DEF LocalOK
      <4>4. Candidate(c, item[p][c], confirm)
        BY <3>2, <4>1, <4>3 DEF Items
      <4> QED
        BY <4>1, <4>3, <4>4 DEF Items, Candidate
    <3>3. pc'[p] = "read" /\ pc[p] = "held"
      BY <1>1, <2>3 DEF Snapshot, LocalOK
    <3>4. Locks(p)'
      BY <1>5, <2>3, <3>3 DEF Snapshot, Locks, Working, Holds
    <3>5. Knows(p)'
      BY <1>1, <3>2 DEF Knows, Known
    <3>6. Plans(p)'
      BY <1>5, <1>6, <3>2, <3>3 DEF Plans, Busy
    <3> QED
      BY <1>1, <3>4, <3>5, <3>6 DEF InStep
  <2> QED
    BY <2>1, <2>2, <2>3
<1> QED
  BY <1>1, <1>2, <1>3, <1>4, <1>7, OnlyActor

LEMMA LockStart ==
  ASSUME LocalOK, RestOK, LockInv, loose' = {}, NEW p \in Procs,
         p \in Bulks \cup Rollbacks, WriteStarted(p)
  PROVE  LockInv'
<1>1. /\ loose = {} /\ UNCHANGED <<card, written, flight, undoes, item, lease>>
      /\ pc[p] = "read" /\ pc'[p] = "write" /\ Working(p)
      /\ p \notin Syncs
  BY Apart DEF WriteStarted, LocalOK, Working
<1>2. \A q \in Procs \ {p} : /\ pc'[q] = pc[q] /\ item'[q] = item[q]
                             /\ q \in Bulks => started'[q] = started[q]
                             /\ q \in Rollbacks => undoes'[q] = undoes[q]
  BY <1>1 DEF WriteStarted, LocalOK, RestOK
<1>3. \A m \in flight : m.by # p
  BY <1>1, NoneOnTheWay
<1>4. InStep(p)
  BY <1>1, LockParts
<1>5. InStep(p)'
  <2>1. Locks(p)' /\ Knows(p)'
    BY <1>1, <1>4 DEF InStep, Locks, Working, Holds, Knows, Known, Wrote
  <2>2. p \in Bulks => Plans(p)'
    <3> SUFFICES ASSUME p \in Bulks PROVE Plans(p)'
      OBVIOUS
    <3>1. started'[p] = item[p] /\ Plans(p)
      BY <1>4 DEF WriteStarted, RestOK, InStep
    <3> QED
      BY <1>1, <3>1 DEF Plans
  <2>3. p \in Rollbacks => Reverts(p)'
    <3> SUFFICES ASSUME p \in Rollbacks PROVE Reverts(p)'
      OBVIOUS
    <3>1. UNCHANGED started /\ Reverts(p)
      BY <1>4, Apart DEF WriteStarted, InStep
    <3> QED
      BY <1>1, <3>1 DEF Reverts
  <2> QED
    BY <2>1, <2>2, <2>3 DEF InStep
<1> QED
  BY <1>1, <1>2, <1>3, <1>5, OnlyActor

LEMMA LockSave ==
  ASSUME LocalOK, RestOK, LockInv, loose' = {}, NEW p \in Saves, Save(p)
  PROVE  LockInv'
<1>1. /\ loose = {} /\ UNCHANGED <<card, written, flight, started, undoes>>
      /\ p \in Procs /\ p \notin Syncs /\ p \notin Bulks /\ p \notin Rollbacks
      /\ pc[p] = "idle" /\ pc'[p] = "write" /\ Free("card", p) /\ Take("card", p)
  BY Apart DEF Save, LocalOK
<1>2. PICK c \in Cards, t \in Terms, begin \in Starts :
        Becomes(p, c, [NoItem EXCEPT !.step = "ready", !.from = card[c].term,
                                     !.start = begin, !.to = t])
  BY DEF Save
<1>3. \A q \in Procs \ {p} : pc'[q] = pc[q] /\ item'[q] = item[q]
  BY <1>2 DEF Save, Becomes, LocalOK
<1>4. \A m \in flight : m.by # p
  BY <1>1, NoneOnTheWay
<1>5. Locks(p)'
  BY <1>1 DEF Locks, Holds, Take, RestOK, Keys
<1>6. ASSUME NEW x \in Cards PROVE Known(p, x, item[p][x])'
  <2>1. CASE x = c
    <3>1. item'[p][c].step = "ready" /\ item'[p][c].from = card[c].term
      BY <1>1, <1>2 DEF Becomes, LocalOK, NoItem
    <3> QED
      BY <1>1, <2>1, <3>1 DEF Known
  <2>2. CASE x # c
    <3>1. item'[p][x] = item[p][x] /\ item[p][x].step \notin Busy
      BY <1>1, <1>2, <2>2 DEF Becomes, LocalOK, Placed
    <3> QED
      BY <1>1, <3>1 DEF Known, Busy
  <2> QED
    BY <2>1, <2>2
<1>7. InStep(p)'
  BY <1>1, <1>5, <1>6 DEF InStep, Knows
<1> QED
  BY <1>1, <1>3, <1>4, <1>7, OnlyActor

LEMMA LockRollback ==
  ASSUME LocalOK, RestOK, LockInv, loose' = {}, NEW p \in Rollbacks, NEW b \in Bulks,
         Rollback(p, b)
  PROVE  LockInv'
<1>1. /\ loose = {} /\ UNCHANGED <<card, written, flight, started>>
      /\ p \in Procs /\ p \notin Syncs /\ p \notin Bulks
      /\ pc[p] = "idle" /\ pc'[p] = "read" /\ Free("card", p) /\ Take("card", p)
      /\ undoes'[p] = b
  BY Apart DEF Rollback, LocalOK, RestOK
<1>2. \A c \in Cards : item'[p][c] = Undo(started[b][c])
  BY <1>1 DEF Rollback, LocalOK
<1>3. \A q \in Procs \ {p} : /\ pc'[q] = pc[q] /\ item'[q] = item[q]
                             /\ q \in Rollbacks => undoes'[q] = undoes[q]
  BY DEF Rollback, LocalOK, RestOK
<1>4. \A m \in flight : m.by # p
  BY <1>1, NoneOnTheWay
<1>5. Locks(p)'
  BY <1>1 DEF Locks, Holds, Take, RestOK, Keys
<1>6. ASSUME NEW c \in Cards
      PROVE  /\ item'[p][c].step \in {"none", "todo"}
             /\ item'[p][c].step # "none" => item'[p][c].to = started[b][c].from
  <2>1. item'[p][c] = Undo(started[b][c])
    BY <1>2
  <2>2. CASE started[b][c].from = None
    BY <2>1, <2>2 DEF Undo, NoItem
  <2>3. CASE started[b][c].from # None
    BY <2>1, <2>3 DEF Undo
  <2> QED
    BY <2>2, <2>3
<1>7. Knows(p)'
  BY <1>1, <1>6 DEF Knows, Known
<1>8. Reverts(p)'
  BY <1>1, <1>6 DEF Reverts
<1>9. InStep(p)'
  BY <1>1, <1>5, <1>7, <1>8 DEF InStep
<1> QED
  BY <1>1, <1>3, <1>4, <1>9, OnlyActor

LEMMA LockWorld ==
  ASSUME LocalOK, RestOK, LockInv, loose' = {},
         \/ \E p \in Procs : HeartbeatFails(p)
         \/ \E k \in Keys : Lapse(k)
         \/ NightFalls \/ RetryComes
         \/ \E c \in Cards : Assign(c) \/ ChangeInManager(c)
  PROVE  LockInv'
<1>1. CASE (\E p \in Procs : HeartbeatFails(p)) \/ NightFalls \/ RetryComes
  <2>1. UNCHANGED <<card, pc, item, started, undoes, lease, flight, written, loose>>
    BY <1>1 DEF HeartbeatFails, NightFalls, RetryComes, work
  <2> QED
    BY <2>1 DEF LockInv, InStep, Locks, Working, Holds, Knows, Known, Wrote, Plans,
                Reverts, Awaited
<1>2. ASSUME NEW k \in Keys, Lapse(k) PROVE LockInv'
  <2>1. /\ loose = {} /\ UNCHANGED <<card, pc, item, started, undoes, flight, written>>
        /\ lease' = [lease EXCEPT ![k].live = FALSE]
        /\ ~\E p \in Procs : lease[k].owner = p /\ k \in Needs(p)
    BY <1>2 DEF Lapse, work
  <2>2. ASSUME NEW q \in Procs PROVE InStep(q)'
    <3>1. InStep(q)
      BY <2>1, LockParts
    <3>2. Working(q) /\ Holds(q, "card") => k # "card"
      BY <2>1 DEF Working, Holds, Needs
    <3>3. Working(q) /\ Holds(q, "card") => Holds(q, "card")'
      BY <2>1, <3>2 DEF Holds, RestOK, Keys
    <3> QED
      BY <2>1, <3>1, <3>3, OthersStay
  <2>3. \A m \in flight : Awaited(m)'
    BY <2>1, LockParts DEF Awaited
  <2> QED
    BY <2>1, <2>2, <2>3 DEF LockInv
<1>3. CASE \E c \in Cards : Assign(c) \/ ChangeInManager(c)
  BY <1>3 DEF Assign, ChangeInManager
<1> QED
  BY <1>1, <1>2, <1>3

LEMMA LockInit == Init => LockInv
<1> SUFFICES ASSUME Init PROVE (\A p \in Procs : InStep(p)) /\ (\A m \in flight : Awaited(m))
  BY DEF LockInv
<1>1. flight = {} /\ written = {} /\ \A p \in Procs : pc[p] = "idle" /\ item[p] = NoPlan
  BY DEF Init
<1>2. ASSUME NEW p \in Procs PROVE InStep(p)
  <2>1. \A c \in Cards : item[p][c].step = "none"
    BY <1>1 DEF NoPlan, NoItem
  <2>2. Locks(p) /\ Knows(p) /\ Reverts(p)
    BY <1>1, <2>1 DEF Locks, Working, Knows, Known, Reverts
  <2>3. p \in Bulks => Plans(p)
    <3>1. p \in Bulks => started[p] = NoPlan
      BY DEF Init
    <3> QED
      BY <1>1, <2>1, <3>1 DEF Plans, Busy
  <2> QED
    BY <2>2, <2>3 DEF InStep
<1> QED
  BY <1>1, <1>2

LEMMA LockStep == TypeInv /\ LockInv /\ [Next]_vars => LockInv'
<1> SUFFICES ASSUME LocalOK, RestOK, LockInv, [Next]_vars, loose' = {} PROVE LockInv'
  BY TypeParts DEF LockInv
<1>1. CASE UNCHANGED vars
  <2>1. UNCHANGED <<card, pc, item, started, undoes, lease, flight, written, loose>>
    BY <1>1 DEF vars, work
  <2> QED
    BY <2>1 DEF LockInv, InStep, Locks, Working, Holds, Knows, Known, Wrote, Plans,
                Reverts, Awaited
<1>2. CASE Next
  <2>1. \A p \in Bulks : p \in Procs
    BY Apart
  <2> QED
    BY <1>2, <2>1, NextKinds, LockItem, LockSend, LockLand, LockRefuse, LockSync, LockDrop,
       LockBulk, LockStart, LockSave, LockRollback, LockWorld
<1> QED
  BY <1>1, <1>2

LEMMA LockInvariant == Spec => [](TypeInv /\ LockInv)
BY TypeInit, TypeStep, LockInit, LockStep, PTL DEF Spec

\* As long as nobody leaves the lock, a PATCH meets the term that its sender
\* read under sigur:card-write, or the one it wrote itself.
THEOREM PatchesMeetTheirReading == Spec => []PatchMeetsItsReading
<1>1. TypeInv /\ LockInv => PatchMeetsItsReading
  <2> SUFFICES ASSUME TypeInv, LockInv, loose = {}, NEW m \in flight
               PROVE  card[m.card].term \in {m.from, m.to}
    BY DEF PatchMeetsItsReading
  <2>1. m.by \in Procs /\ m.card \in Cards
    BY DEF TypeInv, TypeOK, Patches, Procs
  <2>2. Awaited(m) /\ Known(m.by, m.card, item[m.by][m.card])
    BY <2>1, LockParts DEF InStep, Knows
  <2> QED
    BY <2>2 DEF Awaited, Known
<1> QED
  BY <1>1, LockInvariant, PTL

\* As long as nobody leaves the lock, a rollback gives a card the very term that
\* the operation it undoes found there.
THEOREM RollbacksRestore == Spec => []RollbackRestores
<1>1. TypeInv /\ LockInv => RollbackRestores
  <2> SUFFICES ASSUME TypeInv, LockInv, loose = {},
                      NEW m \in flight, m.by \in Rollbacks,
                      NEW w \in written, w.by = undoes[m.by], w.card = m.card
               PROVE  w.from = m.to
    BY DEF RollbackRestores
  <2>1. m.by \in Procs /\ m.card \in Cards
    BY DEF TypeInv, TypeOK, Patches, Procs
  <2>2. Awaited(m) /\ Reverts(m.by)
    BY <2>1, LockParts DEF InStep
  <2>3. w.by \in Bulks /\ m.to = started[w.by][m.card].from
    BY <2>1, <2>2 DEF Awaited, Reverts
  <2>4. Plans(w.by)
    BY <2>3, Apart, LockParts DEF InStep
  <2> QED
    BY <2>3, <2>4 DEF Plans
<1> QED
  BY <1>1, LockInvariant, PTL

\* As long as nobody leaves the lock, a bulk extension and the nightly mirror
\* write a pass only to the day on which its card ends at that moment.
THEOREM PassesFollowCards == Spec => PassFollowsCard
<1>1. TypeInv /\ LockInv /\ [Next]_vars =>
        [\A p \in Bulks \cup Syncs, c \in Cards :
           WritePass(p, c) /\ pass' # pass /\ loose = {}
             => pass'[c] = DayOf(card[c].term)]_vars
  <2> SUFFICES ASSUME TypeInv, LockInv, NEW p \in Bulks \cup Syncs, NEW c \in Cards,
                      WritePass(p, c), pass' # pass, loose = {}
               PROVE  pass'[c] = DayOf(card[c].term)
    OBVIOUS
  <2> DEFINE e == item[p][c]
  <2>1. LocalOK /\ RestOK /\ p \in Procs
    BY TypeParts, Apart
  <2>2. InStep(p) /\ Known(p, c, e)
    BY <2>1, LockParts DEF InStep, Knows
  <2>3. e.step = "confirmed" /\ pass' = [pass EXCEPT ![c] = e.passTo]
    BY DEF WritePass
  <2>4. pass'[c] = e.passTo
    BY <2>1, <2>3 DEF RestOK
  <2>5. CASE p \in Bulks
    <3>1. e.passTo = DayOf(e.to)
      BY <2>2, <2>3, <2>5 DEF InStep, Plans, Busy
    <3>2. card[c].term = e.to
      BY <2>2, <2>3, <2>5, Apart DEF Known
    <3> QED
      BY <2>4, <3>1, <3>2
  <2>6. CASE p \in Syncs
    BY <2>2, <2>3, <2>4, <2>6 DEF Known
  <2> QED
    BY <2>5, <2>6
<1> QED
  BY <1>1, LockInvariant, PTL DEF Spec, PassFollowsCard
================================================================================
