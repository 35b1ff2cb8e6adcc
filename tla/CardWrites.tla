------------------------------ MODULE CardWrites ------------------------------
(***************************************************************************)
(* The terms of access cards: who writes them, and how the contractor      *)
(* passes of the portal follow.                                            *)
(*                                                                         *)
(* The term of a card lives in Sigur, a copy of its day in                 *)
(* contractor_passes.  The bulk extension, the save of one card, the       *)
(* rollback of a bulk extension and the nightly mirror of the terms take   *)
(* one lease, sigur:card-write, re-read a card and then write it.  The     *)
(* lease is a row with a time to live: a process that stops leaves it      *)
(* behind, one that is slow may lose it.  A PATCH may be refused, carried  *)
(* out twice by the retries, or when its sender no longer waits for it.    *)
(*                                                                         *)
(* Source: services/sigur-card-lease, sigur-runtime-state, sigur-bulk-     *)
(* cards, sigur-bulk-cards-rollback, sigur-live-cards, contractor-pass-    *)
(* expiry-sync.{service,scheduler} and the handlers of sigur-admin.        *)
(***************************************************************************)
EXTENDS Naturals, FiniteSets

CONSTANTS
  Cards,       \* cards, each with one employee and one linked pass
  Bulks,       \* bulk extensions (a preview and the operation)
  Saves,       \* saves of one card from the sidebar
  Rollbacks,   \* runs of the rollback
  Syncs,       \* server processes with the nightly scheduler
  None,        \* no term: for ever; no owner
  Terms,       \* moments a card may end at; moment 2d+1 is the end of day d
  Starts,      \* moments a binding may begin at; 0 is where the cards begin
  Now,         \* cards that end before Now have expired
  MassMin,     \* MASS_CHANGE_MIN
  MaxFaults,   \* bound on crashes, failed calls and leases that run out
  MaxOutside,  \* bound on changes made in Sigur Manager
  MaxAssigns   \* bound on cards assigned by the portal, which takes no lease

ASSUME CardAssumption ==
  /\ Terms \subseteq Nat
  /\ {Now, MassMin, MaxFaults, MaxOutside, MaxAssigns} \subseteq Nat
  /\ None \notin Nat /\ 0 \in Starts
  /\ {None, "stopped"} \cap (Bulks \cup Saves \cup Rollbacks \cup Syncs) = {}
  /\ Bulks \cap Saves = {} /\ (Bulks \cup Saves) \cap Rollbacks = {}
  /\ (Bulks \cup Saves \cup Rollbacks) \cap Syncs = {}

VARIABLES
  card,     \* the binding in Sigur: its term and its start
  pass,     \* contractor_passes.expires_at
  started,  \* the plans in audit_logs: bulk_extend_cards_started
  pc,       \* how far each process is
  item,     \* what it holds about each card
  undoes,   \* the operation a rollback undoes
  lost,     \* its heartbeat has told it that the lease is gone
  lease,    \* rows of sigur_runtime_state: the card lock, the nightly run
  day,      \* meta of the nightly row: the day is counted, a retry is due later
  flight,   \* PATCHes Sigur has still to carry out or refuse
  written,  \* history: the term each operation found when it wrote a card
  loose,    \* history: what the lock does not cover and has happened
  faults, outside, assigned

work == <<pc, item, undoes, lost>>
counters == <<outside, assigned>>
vars == <<card, pass, started, work, lease, day, flight, written, loose,
          faults, counters>>

Procs == Bulks \cup Saves \cup Rollbacks \cup Syncs
Keys == {"card", "night"}

\* sigurExpirationToMoscowDate and moscowEndOfDayIso
DayOf(t) == IF t = None THEN None ELSE t \div 2
EndOf(d) == 2 * d + 1
Days == {DayOf(t) : t \in Terms}
\* A bulk extension ends at the end of a day to come.
Targets == {d \in Days : EndOf(d) \in Terms /\ EndOf(d) > Now}

NoItem ==
  [step |-> "none", from |-> None, start |-> 0, to |-> None,
   passFrom |-> None, passTo |-> None]
NoPlan == [c \in Cards |-> NoItem]

Steps == {"none", "expected", "todo", "ready", "sent", "landed", "refused",
          "verify", "confirmed", "done", "missed"}
Resting == {"none", "expected", "todo", "done", "missed"}

FreeRow == [owner |-> None, live |-> FALSE]

Init ==
  /\ card \in [Cards -> [term: Terms \cup {None}, start: {0}]]
  /\ pass \in [Cards -> Days \cup {None}]
  /\ started = [b \in Bulks |-> NoPlan]
  /\ pc = [p \in Procs |-> "idle"]
  /\ item = [p \in Procs |-> NoPlan]
  /\ undoes = [r \in Rollbacks |-> None]
  /\ lost = [p \in Procs |-> FALSE]
  /\ lease = [k \in Keys |-> FreeRow]
  /\ day = [counted |-> FALSE, waits |-> FALSE]
  /\ flight = {} /\ written = {} /\ loose = {}
  /\ faults = 0 /\ outside = 0 /\ assigned = 0

Fault == faults < MaxFaults /\ faults' = faults + 1
NoFault == UNCHANGED faults

-----------------------------------------------------------------------------
(***************************************************************************)
(* The lease.  try_acquire takes a row that has run out or is one's own.   *)
(***************************************************************************)
Holds(p, k) == lease[k].owner = p /\ lease[k].live
\* Mutant: the lease is not looked at.
LeaseIgnored(k, p) == TRUE
Free(k, p) == ~lease[k].live \/ lease[k].owner = p
Take(k, p) == lease' = [lease EXCEPT ![k] = [owner |-> p, live |-> TRUE]]

\* A release frees one's own row only.
Released(k, p) ==
  IF lease[k].owner = p THEN [lease EXCEPT ![k] = FreeRow] ELSE lease

Needs(p) ==
  (IF pc[p] \in {"held", "read", "write"} THEN {"card"} ELSE {}) \cup
  (IF p \in Syncs /\ pc[p] # "idle" THEN {"night"} ELSE {})

\* The heartbeat finds a lease gone, or fails; a single save has none.
HeartbeatFails(p) ==
  /\ p \notin Saves /\ Needs(p) # {} /\ ~lost[p]
  /\ lost' = [lost EXCEPT ![p] = TRUE]
  /\ IF \A k \in Needs(p) : Holds(p, k) THEN Fault ELSE NoFault
  /\ UNCHANGED <<card, pass, started, pc, item, undoes, lease, day, flight,
                 written, loose, counters>>

\* A lease that runs out under its holder is a fault.
Lapse(k) ==
  LET held == \E p \in Procs : lease[k].owner = p /\ k \in Needs(p)
  IN  /\ lease[k].live
      /\ lease' = [lease EXCEPT ![k].live = FALSE]
      /\ IF held THEN Fault ELSE NoFault
      /\ loose' = loose \cup (IF held THEN {"lapse"} ELSE {})
      /\ UNCHANGED <<card, pass, started, work, day, flight, written, counters>>

\* The process stops.  The row keeps its owner, whom nobody else is: owners are
\* unique to an operation or to a run of the server.
Crash(p) ==
  /\ pc[p] \notin {"idle", "asked", "over"} /\ Fault
  /\ pc' = [pc EXCEPT ![p] = IF p \in Syncs THEN "idle" ELSE "over"]
  /\ item' = [item EXCEPT ![p] = NoPlan]
  /\ lost' = [lost EXCEPT ![p] = FALSE]
  /\ lease' = [k \in Keys |-> IF lease[k].owner = p
                              THEN [lease[k] EXCEPT !.owner = "stopped"]
                              ELSE lease[k]]
  /\ loose' = loose \cup
       (IF \E m \in flight : m.by = p THEN {"stray"} ELSE {})
  /\ UNCHANGED <<card, pass, started, undoes, day, flight, written, counters>>

-----------------------------------------------------------------------------
(***************************************************************************)
(* Bulk extension.                                                         *)
(***************************************************************************)
Extendable(k, to) == k.term # None /\ k.term < to

\* previewBulkExtendCards: what the user confirms is bound to a token.
Preview(b) ==
  /\ pc[b] = "idle"
  /\ \E d \in Targets :
       item' = [item EXCEPT ![b] = [c \in Cards |->
         [NoItem EXCEPT
            !.step = IF Extendable(card[c], EndOf(d)) THEN "expected" ELSE "none",
            !.from = card[c].term, !.start = card[c].start,
            !.to = EndOf(d), !.passTo = d]]]
  /\ pc' = [pc EXCEPT ![b] = "asked"]
  /\ NoFault
  /\ UNCHANGED <<card, pass, started, undoes, lost, lease, day, flight, written,
                 loose, counters>>

\* prepareBulkExtendOperation: the lease before the snapshot.
AcquireBulk(b) ==
  /\ pc[b] = "asked" /\ Free("card", b) /\ Take("card", b)
  /\ pc' = [pc EXCEPT ![b] = "held"]
  /\ NoFault
  /\ UNCHANGED <<card, pass, started, item, undoes, lost, day, flight, written,
                 loose, counters>>

Candidate(c, e, confirm) ==
  /\ Extendable(card[c], e.to)
  /\ card[c].term < Now => confirm
  /\ e.step = "expected" /\ e.from = card[c].term /\ e.start = card[c].start

\* Mutant: the plan is the preview, not what the lease protects.
PlanIsPreview(b) ==
  /\ pc[b] = "held"
  /\ item' = [item EXCEPT ![b] = [c \in Cards |->
       [item[b][c] EXCEPT !.step = IF @ = "expected" THEN "todo" ELSE "done",
                          !.passFrom = pass[c]]]]
  /\ pc' = [pc EXCEPT ![b] = "read"]
  /\ NoFault
  /\ UNCHANGED <<card, pass, started, undoes, lost, lease, day, flight, written,
                 loose, counters>>

\* The cards that cannot be read stay out of the plan.
Snapshot(b) ==
  /\ pc[b] = "held"
  /\ \E confirm \in BOOLEAN, unread \in SUBSET Cards :
       /\ IF unread = {} THEN NoFault ELSE Fault
       /\ item' = [item EXCEPT ![b] = [c \in Cards |->
            IF c \in unread THEN NoItem
            ELSE [item[b][c] EXCEPT
                    !.step = IF Candidate(c, item[b][c], confirm)
                             THEN "todo" ELSE "done",
                    !.from = card[c].term, !.start = card[c].start,
                    !.passFrom = pass[c]]]]
  /\ pc' = [pc EXCEPT ![b] = "read"]
  /\ UNCHANGED <<card, pass, started, undoes, lost, lease, day, flight, written,
                 loose, counters>>

\* The intent goes to the journal before the first PATCH, a bulk extension's
\* with the plan.
WriteStarted(p) ==
  /\ pc[p] = "read"
  /\ started' = IF p \in Bulks THEN [started EXCEPT ![p] = item[p]] ELSE started
  /\ pc' = [pc EXCEPT ![p] = "write"]
  /\ NoFault
  /\ UNCHANGED <<card, pass, item, undoes, lost, lease, day, flight, written,
                 loose, counters>>

\* The reading, the plan or the journal fails: nothing is written.
Abandon(p) ==
  /\ pc[p] \in {"held", "read"} /\ Fault
  /\ item' = [item EXCEPT ![p] = [c \in Cards |-> [NoItem EXCEPT !.step = "missed"]]]
  /\ pc' = [pc EXCEPT ![p] = "close"]
  /\ UNCHANGED <<card, pass, started, undoes, lost, lease, day, flight, written,
                 loose, counters>>

Becomes(p, c, e) == item' = [item EXCEPT ![p][c] = e]
Goes(p, c, step) == Becomes(p, c, [item[p][c] EXCEPT !.step = step])

\* The card is read again right before its PATCH, unless the lease is lost.
BulkReread(b, c) ==
  LET e == item[b][c]
      fit == card[c].start = e.start /\ Extendable(card[c], e.to)
  IN  /\ pc[b] = "write" /\ e.step = "todo"
      /\ \/ /\ ~lost[b] /\ fit
            /\ Becomes(b, c, [e EXCEPT !.step = "ready", !.from = card[c].term])
            /\ NoFault
         \/ /\ lost[b] \/ ~fit
            /\ Goes(b, c, "done") /\ NoFault
         \/ ~lost[b] /\ Goes(b, c, "done") /\ Fault
      /\ UNCHANGED <<card, pass, started, pc, undoes, lost, lease, day, flight,
                     written, loose, counters>>

(***************************************************************************)
(* Save of one card (withSigurCardWriteLease), of its term alone or of its *)
(* start as well (updateEmployeeCardBinding).                              *)
(***************************************************************************)
Save(s) ==
  /\ pc[s] = "idle" /\ Free("card", s) /\ Take("card", s)
  /\ \E c \in Cards, t \in Terms, begin \in Starts :
       Becomes(s, c, [NoItem EXCEPT !.step = "ready", !.from = card[c].term,
                                    !.start = begin, !.to = t])
  /\ pc' = [pc EXCEPT ![s] = "write"]
  /\ NoFault
  /\ UNCHANGED <<card, pass, started, undoes, lost, day, flight, written, loose,
                 counters>>

(***************************************************************************)
(* Rollback: every card of the plan that had a term, whatever became of it.*)
(***************************************************************************)
\* Mutant: a card without a term is undone like the others.
UndoAll(e) ==
  [step |-> "todo", from |-> e.to, start |-> e.start, to |-> e.from,
   passFrom |-> e.passTo, passTo |-> e.passFrom]

Undo(e) ==
  IF e.from = None THEN NoItem
  ELSE [step |-> "todo", from |-> e.to, start |-> e.start, to |-> e.from,
        passFrom |-> e.passTo, passTo |-> e.passFrom]

Rollback(r, b) ==
  /\ pc[r] = "idle" /\ started[b] # NoPlan
  /\ Free("card", r) /\ Take("card", r)
  /\ undoes' = [undoes EXCEPT ![r] = b]
  /\ item' = [item EXCEPT ![r] = [c \in Cards |-> Undo(started[b][c])]]
  /\ pc' = [pc EXCEPT ![r] = "read"]
  /\ NoFault
  /\ UNCHANGED <<card, pass, started, lost, day, flight, written, loose, counters>>

\* One card after another.
Alone(p, c) == \A x \in Cards \ {c} : item[p][x].step \in Resting

RollbackReread(r, c) ==
  LET e == item[r][c]
      same == card[c].term = e.from
  IN  /\ pc[r] = "write" /\ e.step = "todo" /\ Alone(r, c)
      /\ \/ /\ same
            /\ Becomes(r, c, [e EXCEPT !.step = "ready", !.start = card[c].start])
            /\ NoFault
         \/ ~same /\ Goes(r, c, "done") /\ NoFault
         \/ Goes(r, c, "done") /\ Fault
      /\ UNCHANGED <<card, pass, started, pc, undoes, lost, lease, day, flight,
                     written, loose, counters>>

-----------------------------------------------------------------------------
(***************************************************************************)
(* The PATCH (applyCardExpirationChange) and what the sender makes of it.  *)
(***************************************************************************)
Send(p, c) ==
  LET e == item[p][c]
  IN  /\ pc[p] = "write" /\ p \notin Syncs /\ e.step = "ready"
      /\ flight' = flight \cup {[by |-> p, card |-> c, from |-> e.from,
                                 to |-> e.to, start |-> e.start]}
      /\ Goes(p, c, "sent")
      /\ NoFault
      /\ UNCHANGED <<card, pass, started, pc, undoes, lost, lease, day, written,
                     loose, counters>>

\* The sender waits for the answer unless it has given the PATCH up.
Tell(m, step) ==
  IF item[m.by][m.card].step = "sent" THEN Goes(m.by, m.card, step)
  ELSE UNCHANGED item

\* The answer to a PATCH.  An earlier attempt that timed out may still be on its
\* way when a later one is answered, and nobody waits for it any more.
Reply(m, step) ==
  /\ Tell(m, step)
  /\ \/ flight' = flight \ {m} /\ NoFault /\ UNCHANGED loose
     \/ /\ item[m.by][m.card].step = "sent" /\ Fault
        /\ UNCHANGED flight /\ loose' = loose \cup {"stray"}

\* Sigur carries a PATCH out; a retry of the client repeats it.
Land(m) ==
  /\ card' = [card EXCEPT ![m.card] = [term |-> m.to, start |-> m.start]]
  /\ written' =
       IF \E w \in written : w.by = m.by /\ w.card = m.card THEN written
       ELSE written \cup {[by |-> m.by, card |-> m.card,
                           from |-> card[m.card].term]}
  /\ \/ Reply(m, "landed")
     \/ UNCHANGED <<flight, item, loose>> /\ Fault
  /\ UNCHANGED <<pass, started, pc, undoes, lost, lease, day, counters>>

Refuse(m) ==
  /\ Reply(m, "refused")
  /\ UNCHANGED <<card, pass, started, pc, undoes, lost, lease, day, written, counters>>

Answered(p, c) ==
  /\ item[p][c].step = "landed"
  /\ Goes(p, c, IF p \in Saves THEN "done" ELSE "confirmed")
  /\ NoFault
  /\ UNCHANGED <<card, pass, started, pc, undoes, lost, lease, day, flight,
                 written, loose, counters>>

\* An error: refused, or the answer is lost and the PATCH may still land.
Failed(p, c) ==
  LET step == item[p][c].step
  IN  /\ step \in {"refused", "sent", "landed"}
      /\ IF step = "refused" THEN NoFault ELSE Fault
      /\ Goes(p, c, IF p \in Saves THEN "done" ELSE "verify")
      /\ loose' = loose \cup (IF step = "sent" THEN {"stray"} ELSE {})
      /\ UNCHANGED <<card, pass, started, pc, undoes, lost, lease, day, flight,
                     written, counters>>

\* Mutant: a card that can be read again is taken for written.
AnyTermVerifies(p, c) ==
  /\ item[p][c].step = "verify" /\ Goes(p, c, "confirmed") /\ NoFault
  /\ UNCHANGED <<card, pass, started, pc, undoes, lost, lease, day, flight,
                 written, loose, counters>>

\* classifyWriteFailure, and the same of the rollback
Verify(p, c) ==
  LET e == item[p][c]
  IN  /\ e.step = "verify"
      /\ \/ Goes(p, c, IF card[c].term = e.to THEN "confirmed" ELSE "done")
            /\ NoFault
         \/ Goes(p, c, "done") /\ Fault
      /\ UNCHANGED <<card, pass, started, pc, undoes, lost, lease, day, flight,
                     written, loose, counters>>

WritesPass(p, e) ==
  CASE p \in Bulks -> e.passFrom # None /\ e.passFrom < e.passTo
    [] p \in Rollbacks -> e.passTo # None
    [] OTHER -> ~lost[p]

\* Mutant: = in place of IS NOT DISTINCT FROM.
NullUnequal(p, c) == pass[c] # None /\ pass[c] = item[p][c].passFrom
SamePass(p, c) == pass[c] = item[p][c].passFrom

\* syncLinkedPass, restoreLinkedPass and writeChange: compare and set.  An
\* error does not tell whether the update was made.
WritePass(p, c) ==
  LET e == item[p][c]
      writes == WritesPass(p, e) /\ SamePass(p, c)
      after == IF writes THEN [pass EXCEPT ![c] = e.passTo] ELSE pass
      missed == IF p \in Syncs THEN "missed" ELSE "done"
  IN  /\ e.step = "confirmed"
      /\ \/ pass' = after /\ Goes(p, c, IF writes THEN "done" ELSE missed) /\ NoFault
         \/ pass' \in {pass, after} /\ Goes(p, c, missed) /\ Fault
      /\ UNCHANGED <<card, started, pc, undoes, lost, lease, day, flight, written,
                     loose, counters>>

\* Every card is dealt with: the lease is released, or the release fails.
Finish(p) ==
  /\ \/ pc[p] = "close"
     \/ pc[p] = "write" /\ \A c \in Cards : item[p][c].step \in Resting \ {"todo"}
  /\ pc' = [pc EXCEPT ![p] = IF p \in Syncs THEN "mark" ELSE "over"]
  /\ item' = IF p \in Syncs THEN item ELSE [item EXCEPT ![p] = NoPlan]
  /\ \/ lease' = Released("card", p) /\ NoFault
     \/ /\ Holds(p, "card") /\ Fault
        /\ lease' = [lease EXCEPT !["card"].owner = "stopped"]
  /\ UNCHANGED <<card, pass, started, undoes, lost, day, flight, written, loose,
                 counters>>

-----------------------------------------------------------------------------
(***************************************************************************)
(* The nightly mirror of the terms (contractor-pass-expiry-sync).          *)
(***************************************************************************)
SyncTick(y) ==
  /\ pc[y] = "idle" /\ ~day.counted /\ ~day.waits
  /\ Free("night", y) /\ Take("night", y)
  /\ pc' = [pc EXCEPT ![y] = "night"]
  /\ NoFault
  /\ UNCHANGED <<card, pass, started, item, undoes, lost, day, flight, written,
                 loose, counters>>

SyncAcquire(y) ==
  /\ pc[y] = "night" /\ Free("card", y) /\ Take("card", y)
  /\ pc' = [pc EXCEPT ![y] = "held"]
  /\ NoFault
  /\ UNCHANGED <<card, pass, started, item, undoes, lost, day, flight, written,
                 loose, counters>>

\* The card lock is taken: put off to the next tick.
SyncDeferred(y) ==
  /\ pc[y] = "night" /\ ~Free("card", y)
  /\ lease' = Released("night", y)
  /\ pc' = [pc EXCEPT ![y] = "idle"]
  /\ lost' = [lost EXCEPT ![y] = FALSE]
  /\ NoFault
  /\ UNCHANGED <<card, pass, started, item, undoes, day, flight, written, loose,
                 counters>>

LoadPasses(y) ==
  /\ pc[y] = "held"
  /\ item' = [item EXCEPT ![y] = [c \in Cards |->
                [NoItem EXCEPT !.passFrom = pass[c]]]]
  /\ pc' = [pc EXCEPT ![y] = "read"]
  /\ NoFault
  /\ UNCHANGED <<card, pass, started, undoes, lost, lease, day, flight, written,
                 loose, counters>>

\* isMassChange: more than MassMin changes and more than half of the passes
MassChange(changes) ==
  Cardinality(changes) > MassMin /\ 2 * Cardinality(changes) > Cardinality(Cards)

\* planPassExpiryChanges behind the fuse against a shift of all the dates
ReadCards(y) ==
  /\ pc[y] = "read" /\ y \in Syncs
  /\ \E unread \in SUBSET Cards :
       LET to(c) == DayOf(card[c].term)
           changes == {c \in Cards \ unread : to(c) # item[y][c].passFrom}
           stop == MassChange(changes)
       IN  /\ IF unread = {} THEN NoFault ELSE Fault
           /\ item' = [item EXCEPT ![y] = [c \in Cards |->
                [item[y][c] EXCEPT
                   !.step = IF stop THEN "done"
                            ELSE IF c \in unread THEN "missed"
                            ELSE IF c \in changes THEN "todo" ELSE "done",
                   !.passTo = IF c \in changes THEN to(c) ELSE @]]]
  /\ pc' = [pc EXCEPT ![y] = "write"]
  /\ UNCHANGED <<card, pass, started, undoes, lost, lease, day, flight, written,
                 loose, counters>>

\* confirmLiveExpiration between two looks at the leases
SyncReread(y, c) ==
  LET e == item[y][c]
      same == DayOf(card[c].term) = e.passTo
  IN  /\ pc[y] = "write" /\ y \in Syncs /\ e.step = "todo" /\ Alone(y, c)
      /\ \/ Goes(y, c, IF same /\ ~lost[y] THEN "confirmed" ELSE "missed") /\ NoFault
         \/ Goes(y, c, "missed") /\ Fault
      /\ UNCHANGED <<card, pass, started, pc, undoes, lost, lease, day, flight,
                     written, loose, counters>>

\* saveState is refused while another process owns the row, or fails; then the
\* release.
SyncMark(y) ==
  LET mine == lease["night"].owner \in {None, y}
      partial == \E c \in Cards : item[y][c].step = "missed"
      result == [counted |-> day.counted \/ ~partial, waits |-> partial]
  IN  /\ pc[y] = "mark"
      /\ \/ /\ day' = IF mine THEN result ELSE day
            /\ lease' = Released("night", y)
            /\ NoFault
         \/ /\ Fault
            /\ \/ day' = (IF mine THEN result ELSE day) /\ UNCHANGED lease
               \/ UNCHANGED day /\ lease' = Released("night", y)
      /\ pc' = [pc EXCEPT ![y] = "idle"]
      /\ item' = [item EXCEPT ![y] = NoPlan]
      /\ lost' = [lost EXCEPT ![y] = FALSE]
      /\ UNCHANGED <<card, pass, started, undoes, flight, written, loose, counters>>

-----------------------------------------------------------------------------
(***************************************************************************)
(* Time, and those who write a term without the lease.                     *)
(***************************************************************************)
NightFalls ==
  /\ day.counted /\ day' = [day EXCEPT !.counted = FALSE]
  /\ NoFault
  /\ UNCHANGED <<card, pass, started, work, lease, flight, written, loose, counters>>

RetryComes ==
  /\ day.waits /\ day' = [day EXCEPT !.waits = FALSE]
  /\ NoFault
  /\ UNCHANGED <<card, pass, started, work, lease, flight, written, loose, counters>>

\* assignSigurEmployeeCardBinding: a card of the employee's own gets a start and
\* a term.
Assign(c) ==
  /\ assigned < MaxAssigns /\ assigned' = assigned + 1
  /\ \E t \in Terms, begin \in Starts :
       card' = [card EXCEPT ![c] = [term |-> t, start |-> begin]]
  /\ loose' = loose \cup {"assign"}
  /\ NoFault
  /\ UNCHANGED <<pass, started, work, lease, day, flight, written, outside>>

ChangeInManager(c) ==
  /\ outside < MaxOutside /\ outside' = outside + 1
  /\ \E t \in Terms \cup {None} : card' = [card EXCEPT ![c].term = t]
  /\ loose' = loose \cup {"manager"}
  /\ NoFault
  /\ UNCHANGED <<pass, started, work, lease, day, flight, written, assigned>>

-----------------------------------------------------------------------------
\* What a process does by itself once it holds the lease.
Step(p) ==
  \/ p \in Bulks /\ (Snapshot(p) \/ \E c \in Cards : BulkReread(p, c))
  \/ p \in Bulks \cup Rollbacks /\ WriteStarted(p)
  \/ p \notin Saves /\ Abandon(p)
  \/ p \in Rollbacks /\ \E c \in Cards : RollbackReread(p, c)
  \/ \E c \in Cards : \/ Send(p, c) \/ Answered(p, c) \/ Failed(p, c)
                      \/ Verify(p, c) \/ WritePass(p, c)
  \/ Finish(p)
  \/ p \in Syncs /\ (\/ SyncTick(p) \/ SyncAcquire(p) \/ SyncDeferred(p)
                     \/ LoadPasses(p) \/ ReadCards(p) \/ SyncMark(p)
                     \/ \E c \in Cards : SyncReread(p, c))

Next ==
  \/ \E b \in Bulks : Preview(b) \/ AcquireBulk(b)
  \/ \E s \in Saves : Save(s)
  \/ \E r \in Rollbacks, b \in Bulks : Rollback(r, b)
  \/ \E p \in Procs : Step(p) \/ HeartbeatFails(p) \/ Crash(p)
  \/ \E k \in Keys : Lapse(k)
  \/ \E m \in flight : Land(m) \/ Refuse(m)
  \/ NightFalls \/ RetryComes
  \/ \E c \in Cards : Assign(c) \/ ChangeInManager(c)

Spec == Init /\ [][Next]_vars

(***************************************************************************)
(* Every process goes on, Sigur settles every PATCH, an abandoned lease    *)
(* runs out, nights and retries come.                                      *)
(***************************************************************************)
Fairness ==
  /\ \A p \in Procs : WF_vars(Step(p))
  /\ WF_vars(\E m \in flight : Land(m) \/ Refuse(m))
  /\ \A k \in Keys : WF_vars(Lapse(k) /\ UNCHANGED faults)
  /\ WF_vars(NightFalls) /\ WF_vars(RetryComes)

FairSpec == Spec /\ Fairness

-----------------------------------------------------------------------------
Rows == [owner: Procs \cup {None, "stopped"}, live: BOOLEAN]
Items ==
  [step: Steps, from: Terms \cup {None}, start: Starts,
   to: Terms \cup {None}, passFrom: Days \cup {None}, passTo: Days \cup {None}]
Patches ==
  [by: Bulks \cup Saves \cup Rollbacks, card: Cards, from: Terms \cup {None},
   to: Terms, start: Starts]

TypeOK ==
  /\ card \in [Cards -> [term: Terms \cup {None}, start: Starts]]
  /\ pass \in [Cards -> Days \cup {None}]
  /\ started \in [Bulks -> [Cards -> Items]]
  /\ pc \in [Procs -> {"idle", "asked", "night", "held", "read", "write", "close",
                       "mark", "over"}]
  /\ item \in [Procs -> [Cards -> Items]]
  /\ undoes \in [Rollbacks -> Bulks \cup {None}]
  /\ lost \in [Procs -> BOOLEAN]
  /\ lease \in [Keys -> Rows]
  /\ day \in [counted: BOOLEAN, waits: BOOLEAN]
  /\ flight \subseteq Patches
  /\ written \subseteq
       [by: Bulks \cup Saves \cup Rollbacks, card: Cards, from: Terms \cup {None}]
  /\ loose \subseteq {"lapse", "stray", "assign", "manager"}
  /\ faults \in 0..MaxFaults /\ outside \in 0..MaxOutside
  /\ assigned \in 0..MaxAssigns

(***************************************************************************)
(* Properties.                                                             *)
(***************************************************************************)
\* Between the reading of a card and the end of its PATCH nobody else writes
\* it (sigur:card-write): a PATCH meets the term its sender read, or the one it
\* wrote itself, through crashes, retries and failed calls.  Not covered: a
\* lease that runs out under its holder, a PATCH on its way that nobody waits for
\* any more, and whoever takes no lease.
PatchMeetsItsReading ==
  loose = {} => \A m \in flight : card[m.card].term \in {m.from, m.to}

\* A rollback gives a card that the operation wrote the very term the operation
\* found on it, although it knows only the plan written before the first PATCH.
RollbackRestores ==
  loose = {} =>
    \A m \in flight : m.by \in Rollbacks =>
      \A w \in written : w.by = undoes[m.by] /\ w.card = m.card => w.from = m.to

\* A rollback touches no card whose term somebody else has set: only what the
\* operation wrote (rollbackBulkExtendOperation).
RollbackTouchesOwn ==
  loose = {} =>
    \A m \in flight : m.by \in Rollbacks /\ m.from # m.to =>
      \E w \in written : w.by = undoes[m.by] /\ w.card = m.card

\* Whoever holds the lock writes a pass only to the day its card ends at that
\* moment; a rollback writes back what it found.
PassFollowsCard ==
  [][\A p \in Bulks \cup Syncs, c \in Cards :
       WritePass(p, c) /\ pass' # pass /\ loose = {}
         => pass'[c] = DayOf(card[c].term)]_vars

Unlike == {c \in Cards : pass[c] # DayOf(card[c].term)}

\* The mirror catches up with every change of a term, by the portal or past
\* it, through crashes, lost leases and failed runs, unless the fuse stops it.
MirrorCatchesUp == <>[](Unlike = {}) \/ <>[]MassChange(Unlike)

=============================================================================
