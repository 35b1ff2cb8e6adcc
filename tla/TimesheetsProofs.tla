-------------------------- MODULE TimesheetsProofs --------------------------
(***************************************************************************)
(* Theorems about Timesheets, for any employees, connections, submissions, *)
(* attempts and requests: types, that no correction lands behind a lock,   *)
(* that closed timesheets are exact and that no day is counted twice.      *)
(***************************************************************************)
EXTENDS Timesheets, TLAPS

-----------------------------------------------------------------------------
(***************************************************************************)
(* Types.                                                                  *)
(***************************************************************************)
Locking(q) == tx[q].pc \in {"wait", "hold"}

(* Who is at work has something to work on; the row of a timesheet has one
   holder, and is what he found it to be. *)
Working ==
  /\ \A p \in Procs : tx[p].pc # "idle" => tx[p].kind \in Kinds /\ tx[p].scope \in Scopes
  /\ \A m \in Managers : desk[m].pc \in {"submit", "write"} => desk[m].scope \in Scopes
  /\ zone.pc # "idle" => zone.emp \in Emps
  /\ \A p, q \in Procs : tx[p].pc = "hold" /\ tx[q].pc = "hold" /\ tx[p].scope = tx[q].scope => p = q
  /\ \A p \in Procs : tx[p].pc = "hold" => Admits(tx[p].kind, tx[p].scope)

TypeInv == TypeOK /\ Working

RowTypes == [status : Statuses, open : BOOLEAN, dirty : BOOLEAN, seq : Nat]

LEMMA BodyFacts ==
  /\ EmptyBody \in Bodies
  /\ \A b \in Bodies : DOMAIN b \subseteq Emps /\ b = [e \in DOMAIN b |-> b[e]]
  /\ \A b \in Bodies : \A e \in DOMAIN b : b[e] \in Hours
  /\ \A S \in SUBSET Emps : \A h \in [Emps -> Hours] : [e \in S |-> h[e]] \in Bodies
  /\ \A C : \A b \in Bodies : [e \in DOMAIN b \ C |-> b[e]] \in Bodies
<1>1. \A S \in SUBSET Emps : \A f \in [S -> Hours] : f \in Bodies
  BY DEF Bodies
<1>2. \A b \in Bodies : \E S \in SUBSET Emps : b \in [S -> Hours]
  BY DEF Bodies
<1>3. EmptyBody \in [{} -> Hours]
  BY DEF EmptyBody
<1>4. ASSUME NEW S \in SUBSET Emps, NEW h \in [Emps -> Hours]
      PROVE  [e \in S |-> h[e]] \in [S -> Hours]
  OBVIOUS
<1>5. ASSUME NEW b \in Bodies, NEW C
      PROVE  [e \in DOMAIN b \ C |-> b[e]] \in Bodies
  <2>1. PICK S \in SUBSET Emps : b \in [S -> Hours]
    BY <1>2
  <2>2. [e \in DOMAIN b \ C |-> b[e]] \in [DOMAIN b \ C -> Hours]
    BY <2>1
  <2>3. DOMAIN b \ C \in SUBSET Emps
    BY <2>1
  <2> QED BY <2>2, <2>3, <1>1
<1>6. \A b \in Bodies : DOMAIN b \subseteq Emps /\ b = [e \in DOMAIN b |-> b[e]]
  BY <1>2
<1>7. \A b \in Bodies : \A e \in DOMAIN b : b[e] \in Hours
  BY <1>2
<1> QED BY <1>1, <1>3, <1>4, <1>5, <1>6, <1>7

LEMMA IdleTypes == /\ IdleTx \in TxTypes /\ IdleDesk \in DeskTypes /\ IdleZone \in ZoneTypes
                   /\ IdleTx.pc = "idle" /\ ~IdleTx.raced
BY BodyFacts DEF IdleTx, TxTypes, IdleDesk, DeskTypes, IdleZone, ZoneTypes

(* What has changed about a transaction that still locks its employees. *)
SameWork(u, t) == /\ u.pc = t.pc /\ u.kind = t.kind /\ u.scope = t.scope /\ u.list = t.list
                  /\ u.body = t.body /\ u.busy = t.busy /\ u.raced = t.raced

LEMMA UpdatedFacts ==
  ASSUME NEW t \in [Procs -> TxTypes], NEW S
  PROVE  /\ Updated(t, S) \in [Procs -> TxTypes]
         /\ \A q \in Procs : SameWork(Updated(t, S)[q], t[q])
<1>1. \A r \in TxTypes : [r EXCEPT !.stale = TRUE] \in TxTypes /\ SameWork([r EXCEPT !.stale = TRUE], r)
  BY DEF TxTypes, SameWork
<1>2. \A r \in TxTypes : SameWork(r, r)
  BY DEF SameWork
<1> QED BY <1>1, <1>2 DEF Updated

LEMMA LeaveFacts ==
  ASSUME tx \in [Procs -> TxTypes], NEW p \in Procs, Leave(p)
  PROVE  /\ tx' \in [Procs -> TxTypes]
         /\ tx'[p].pc = "idle"
         /\ \A q \in Procs \ {p} : SameWork(tx'[q], tx[q])
<1> DEFINE t == [tx EXCEPT ![p] = IdleTx]
<1>1. t \in [Procs -> TxTypes] /\ t[p] = IdleTx /\ \A q \in Procs \ {p} : t[q] = tx[q]
  BY IdleTypes
<1>2. tx' = Updated(t, {tx[p].scope})
  BY DEF Leave
<1> HIDE DEF t
<1> QED BY <1>1, <1>2, UpdatedFacts, IdleTypes DEF SameWork

LEMMA TypesInit == Init => TypeInv
<1> SUFFICES ASSUME Init PROVE TypeInv
  OBVIOUS
<1>1. Reports \subseteq Emps
  BY ReportsAreEmployees
<1>2. row \in [Scopes -> RowTypes] /\ \A s \in Scopes : ~row[s].open
  BY DEF Init, RowTypes, Statuses
<1>3. version \in [Scopes -> Bodies]
  BY BodyFacts DEF Init
<1>4. tx \in [Procs -> TxTypes] /\ desk \in [Managers -> DeskTypes] /\ zone \in ZoneTypes
  BY IdleTypes DEF Init
<1>5. (\A p \in Procs : tx[p].pc = "idle") /\ (\A m \in Managers : desk[m].pc = "idle") /\ zone.pc = "idle"
  BY DEF Init, IdleTx, IdleDesk, IdleZone
<1>6. /\ roster \in [Scopes -> SUBSET Emps] /\ hours \in [Emps -> Hours] /\ staff \subseteq Emps
      /\ edit \in [Emps -> Hours \cup {None}] /\ sound \in [Scopes -> BOOLEAN]
      /\ checked \in [Scopes -> BOOLEAN] /\ requests \in Nat
  BY DEF Init
<1>7. TypeOK
  BY <1>2, <1>3, <1>4, <1>6 DEF TypeOK, RowTypes
<1>8. Working
  BY <1>5 DEF Working
<1> QED BY <1>7, <1>8 DEF TypeInv

(* Rows that somebody holds do not change, and he does not either. *)
LEMMA HoldersStay ==
  ASSUME TypeInv,
         \A q \in Procs : tx'[q].pc = "hold" =>
           /\ tx[q].pc = "hold" /\ tx'[q].kind = tx[q].kind /\ tx'[q].scope = tx[q].scope
           /\ row'[tx[q].scope] = row[tx[q].scope]
  PROVE  /\ \A p, q \in Procs : tx'[p].pc = "hold" /\ tx'[q].pc = "hold" /\ tx'[p].scope = tx'[q].scope => p = q
         /\ \A p \in Procs : tx'[p].pc = "hold" => Admits(tx[p].kind, tx[p].scope)'
<1>1. ASSUME NEW p \in Procs, tx'[p].pc = "hold"
      PROVE  Admits(tx[p].kind, tx[p].scope)'
  <2>1. /\ tx'[p].kind = tx[p].kind /\ tx'[p].scope = tx[p].scope
        /\ row'[tx[p].scope] = row[tx[p].scope] /\ Admits(tx[p].kind, tx[p].scope)
    BY <1>1 DEF TypeInv, Working
  <2> QED BY <2>1 DEF Admits
<1>2. \A p, q \in Procs : tx'[p].pc = "hold" /\ tx'[q].pc = "hold" /\ tx'[p].scope = tx'[q].scope => p = q
  BY DEF TypeInv, Working
<1> QED BY <1>1, <1>2

(* The part of the types that an action on the rows disturbs. *)
RowInv == /\ row \in [Scopes -> RowTypes]
          /\ \A s \in Scopes : row[s].open => row[s].status \in {"submitted", "approved"}

LEMMA WorkIsTyped ==
  ASSUME TypeInv, NEW p \in Procs, tx[p].pc # "idle"
  PROVE  /\ tx[p] \in TxTypes /\ tx[p].kind \in Kinds /\ tx[p].scope \in Scopes
         /\ tx[p].list \subseteq Emps /\ tx[p].body \in Bodies /\ tx[p].busy \subseteq Emps
BY DEF TypeInv, TypeOK, Working, TxTypes

(* The rest of a step on the tables, when the transactions only end or become stale. *)
LEMMA TypesKept ==
  ASSUME TypeInv, RowInv', roster' \in [Scopes -> SUBSET Emps], version' \in [Scopes -> Bodies],
         tx' \in [Procs -> TxTypes], desk' \in [Managers -> DeskTypes],
         sound' \in [Scopes -> BOOLEAN], checked' \in [Scopes -> BOOLEAN], requests' \in Nat,
         UNCHANGED <<hours, staff, edit, zone>>,
         \A m \in Managers : desk'[m].pc \in {"submit", "write"} => desk'[m].scope \in Scopes,
         \A q \in Procs : tx'[q].pc = "idle" \/ SameWork(tx'[q], tx[q]),
         \A q \in Procs : tx'[q].pc = "hold" => row'[tx[q].scope] = row[tx[q].scope]
  PROVE  TypeInv'
<1>1. TypeOK'
  BY DEF TypeInv, TypeOK, RowInv, RowTypes
<1>2. /\ \A p, q \in Procs : tx'[p].pc = "hold" /\ tx'[q].pc = "hold" /\ tx'[p].scope = tx'[q].scope => p = q
      /\ \A p \in Procs : tx'[p].pc = "hold" => Admits(tx[p].kind, tx[p].scope)'
  BY HoldersStay DEF SameWork
<1>3. \A p \in Procs : tx'[p].pc # "idle" => tx'[p].kind \in Kinds /\ tx'[p].scope \in Scopes
  BY DEF TypeInv, Working, SameWork
<1>4. zone'.pc # "idle" => zone'.emp \in Emps
  BY DEF TypeInv, Working
<1> QED BY <1>1, <1>2, <1>3, <1>4 DEF TypeInv, Working

LEMMA AskedCounts == ASSUME TypeInv, Asked PROVE requests' \in Nat
BY DEF TypeInv, TypeOK, Asked

(* A timesheet that is left by its holder, with a version or without. *)
LEMMA TypesLeave ==
  ASSUME TypeInv, NEW p \in Procs, tx[p].pc = "hold", Leave(p), RowInv',
         row' = [row EXCEPT ![tx[p].scope] = row'[tx[p].scope]],
         roster' \in [Scopes -> SUBSET Emps], version' \in [Scopes -> Bodies],
         sound' \in [Scopes -> BOOLEAN], checked' \in [Scopes -> BOOLEAN],
         UNCHANGED <<hours, staff, edit, desk, zone, requests>>
  PROVE  TypeInv'
<1>1. /\ tx' \in [Procs -> TxTypes]
      /\ tx'[p].pc = "idle"
      /\ \A q \in Procs \ {p} : SameWork(tx'[q], tx[q])
  BY LeaveFacts DEF TypeInv, TypeOK
<1>2. ASSUME NEW q \in Procs, tx'[q].pc = "hold"
      PROVE  row'[tx[q].scope] = row[tx[q].scope]
  <2>1. q # p /\ tx[q].pc = "hold"
    BY <1>1, <1>2 DEF SameWork
  <2>2. tx[q].scope # tx[p].scope
    BY <2>1 DEF TypeInv, Working
  <2>3. tx[q].scope \in Scopes
    BY <2>1, WorkIsTyped
  <2>4. row \in [Scopes -> RowTypes]
    BY DEF TypeInv, TypeOK, RowTypes
  <2> QED BY <2>2, <2>3, <2>4
<1>3. /\ desk' \in [Managers -> DeskTypes] /\ requests' \in Nat
      /\ \A m \in Managers : desk'[m].pc \in {"submit", "write"} => desk'[m].scope \in Scopes
  BY DEF TypeInv, TypeOK, Working
<1>4. \A q \in Procs : tx'[q].pc = "idle" \/ SameWork(tx'[q], tx[q])
  BY <1>1
<1> QED BY <1>1, <1>2, <1>3, <1>4, TypesKept

LEMMA TypesCorrections ==
  ASSUME TypeInv, NEW e \in Emps,
         Assign(e) \/ BeginEdit(e) \/ CommitEdit(e) \/ Recalculate(e)
  PROVE  TypeInv'
<1>1. CASE Assign(e)
  BY <1>1 DEF TypeInv, TypeOK, Working, Assign, Admits
<1>2. CASE BeginEdit(e)
  <2>1. hours[e] \in Hours /\ 1 - hours[e] \in Hours
    BY DEF TypeInv, TypeOK, Hours
  <2>2. edit' \in [Emps -> Hours \cup {None}] /\ requests' \in Nat
    BY <1>2, <2>1, AskedCounts DEF BeginEdit, TypeInv, TypeOK
  <2> QED BY <1>2, <2>2 DEF TypeInv, TypeOK, Working, BeginEdit, Admits
<1>3. CASE CommitEdit(e)
  <2>1. hours' \in [Emps -> Hours] /\ edit' \in [Emps -> Hours \cup {None}]
    BY <1>3 DEF CommitEdit, TypeInv, TypeOK
  <2> QED BY <1>3, <2>1 DEF TypeInv, TypeOK, Working, CommitEdit, Admits
<1>4. CASE Recalculate(e)
  <2>1. hours' \in [Emps -> Hours] /\ requests' \in Nat
    BY <1>4, AskedCounts DEF Recalculate, TypeInv, TypeOK, Hours
  <2>2. zone' \in ZoneTypes /\ zone'.pc = "select" /\ zone'.emp = e
    BY <1>4 DEF Recalculate, ZoneTypes
  <2>3. \A r \in TxTypes : /\ [r EXCEPT !.raced = TRUE] \in TxTypes
                           /\ [r EXCEPT !.raced = TRUE].pc = r.pc
                           /\ [r EXCEPT !.raced = TRUE].kind = r.kind
                           /\ [r EXCEPT !.raced = TRUE].scope = r.scope
    BY DEF TxTypes
  <2>4. tx \in [Procs -> TxTypes]
    BY DEF TypeInv, TypeOK
  <2>5. /\ tx' \in [Procs -> TxTypes]
        /\ \A q \in Procs : tx'[q].pc = tx[q].pc /\ tx'[q].kind = tx[q].kind /\ tx'[q].scope = tx[q].scope
    BY <1>4, <2>3, <2>4 DEF Recalculate
  <2>6. UNCHANGED <<row, roster, version, staff, edit, desk, sound, checked>>
    BY <1>4 DEF Recalculate
  <2>7. TypeOK'
    BY <2>1, <2>2, <2>5, <2>6 DEF TypeInv, TypeOK
  <2>8. /\ \A p, q \in Procs : tx'[p].pc = "hold" /\ tx'[q].pc = "hold" /\ tx'[p].scope = tx'[q].scope => p = q
        /\ \A p \in Procs : tx'[p].pc = "hold" => Admits(tx[p].kind, tx[p].scope)'
    BY <2>5, <2>6, HoldersStay
  <2> QED BY <2>2, <2>5, <2>6, <2>7, <2>8 DEF TypeInv, Working
<1> QED BY <1>1, <1>2, <1>3, <1>4

LEMMA TypesZone == ASSUME TypeInv, SelectMarked \/ MarkDirty PROVE TypeInv'
<1>1. CASE SelectMarked
  <2>1. zone' \in ZoneTypes /\ zone'.emp = zone.emp /\ zone'.pc = "mark"
    BY <1>1 DEF SelectMarked, TypeInv, TypeOK, ZoneTypes
  <2>2. zone'.emp \in Emps
    BY <1>1, <2>1 DEF SelectMarked, TypeInv, Working
  <2> QED BY <1>1, <2>1, <2>2 DEF TypeInv, TypeOK, Working, SelectMarked, Admits
<1>2. CASE MarkDirty
  <2> DEFINE S == {s \in zone.rows : row[s].status = "approved" /\ ~row[s].open}
  <2>1. /\ \A s \in S : Unheld(s)
        /\ row' = [s \in Scopes |-> IF s \in S THEN [row[s] EXCEPT !.dirty = TRUE, !.seq = @ + 1] ELSE row[s]]
        /\ tx' = Updated(tx, S) /\ zone' = IdleZone
        /\ UNCHANGED <<roster, version, hours, staff, edit, desk, sound, checked, requests>>
    BY <1>2 DEF MarkDirty
  <2> HIDE DEF S
  <2>2. ASSUME NEW r \in RowTypes
        PROVE  /\ [r EXCEPT !.dirty = TRUE, !.seq = r.seq + 1] \in RowTypes
               /\ [r EXCEPT !.dirty = TRUE, !.seq = r.seq + 1].status = r.status
               /\ [r EXCEPT !.dirty = TRUE, !.seq = r.seq + 1].open = r.open
    <3>1. r.seq + 1 \in Nat
      BY DEF RowTypes
    <3> QED BY <3>1 DEF RowTypes
  <2>3. row \in [Scopes -> RowTypes] /\ tx \in [Procs -> TxTypes]
    BY DEF TypeInv, TypeOK, RowTypes
  <2>4. RowInv'
    BY <2>1, <2>2, <2>3 DEF RowInv, TypeInv, TypeOK
  <2>5. tx' \in [Procs -> TxTypes] /\ \A q \in Procs : SameWork(tx'[q], tx[q])
    BY <2>1, <2>3, UpdatedFacts
  <2>6. ASSUME NEW q \in Procs, tx'[q].pc = "hold"
        PROVE  row'[tx[q].scope] = row[tx[q].scope]
    <3>1. tx[q].pc = "hold"
      BY <2>5, <2>6 DEF SameWork
    <3>2. tx[q].scope \notin S
      BY <2>1, <3>1 DEF Unheld
    <3>3. tx[q].scope \in Scopes
      BY <3>1, WorkIsTyped
    <3> QED BY <2>1, <3>2, <3>3
  <2>7. TypeOK'
    BY <2>1, <2>4, <2>5, IdleTypes DEF TypeInv, TypeOK, RowInv, RowTypes
  <2>8. /\ \A p, q \in Procs : tx'[p].pc = "hold" /\ tx'[q].pc = "hold" /\ tx'[p].scope = tx'[q].scope => p = q
        /\ \A p \in Procs : tx'[p].pc = "hold" => Admits(tx[p].kind, tx[p].scope)'
    BY <2>5, <2>6, HoldersStay DEF SameWork
  <2>9. zone'.pc = "idle"
    BY <2>1 DEF IdleZone
  <2> QED BY <2>1, <2>5, <2>7, <2>8, <2>9 DEF TypeInv, Working, SameWork
<1> QED BY <1>1, <1>2

LEMMA TypesLeaving ==
  ASSUME TypeInv, NEW p \in Procs, Run(p)
  PROVE  TypeInv'
<1> DEFINE t == tx[p]
           s == tx[p].scope
           ended == [row EXCEPT ![s].status = "approved", ![s].open = FALSE, ![s].dirty = FALSE]
<1>1. t.pc = "hold" /\ Leave(p) /\ UNCHANGED <<hours, staff, edit, desk, zone, requests>>
  BY DEF Run, Review, Approve, ForceApprove, Close, Rebuild
<1>2. /\ t \in TxTypes /\ s \in Scopes /\ t.list \subseteq Emps /\ t.body \in Bodies
      /\ DOMAIN t.body \subseteq Emps
  BY <1>1, WorkIsTyped, BodyFacts
<1>3. RowInv /\ roster \in [Scopes -> SUBSET Emps] /\ version \in [Scopes -> Bodies]
      /\ sound \in [Scopes -> BOOLEAN] /\ checked \in [Scopes -> BOOLEAN]
  BY DEF TypeInv, TypeOK, RowInv, RowTypes
<1>4. Admits(t.kind, s)
  BY <1>1 DEF TypeInv, Working
<1>5. \A b \in Bodies : Materialize(s, b) => version' \in [Scopes -> Bodies]
  BY <1>2, <1>3 DEF Materialize
<1>6. checked' \in [Scopes -> BOOLEAN] /\ sound' \in [Scopes -> BOOLEAN]
  BY <1>3 DEF Run, Review, Approve, ForceApprove, Close, Rebuild, Compared, Uncompared, Covers
<1>7. ended \in [Scopes -> RowTypes] /\ \A u \in Scopes : ended[u] = IF u = s THEN ended[s] ELSE row[u]
  <2>1. row[s] \in RowTypes
    BY <1>2, <1>3 DEF RowInv
  <2> DEFINE new == [row[s] EXCEPT !.status = "approved", !.open = FALSE, !.dirty = FALSE]
  <2>2. ended = [row EXCEPT ![s] = new]
    BY <1>2, <1>3, <2>1 DEF RowInv, RowTypes
  <2>3. new \in RowTypes
    BY <2>1 DEF RowTypes, Statuses
  <2> HIDE DEF ended, new
  <2> QED BY <1>2, <1>3, <2>2, <2>3 DEF RowInv
<1>8. CASE Review(p)
  <2>1. row' = [row EXCEPT ![s].status = IF t.kind = "reject" THEN "rejected" ELSE "returned"]
        /\ ~row[s].open
    BY <1>4, <1>8 DEF Review, Admits
  <2> DEFINE new == [row[s] EXCEPT !.status = IF t.kind = "reject" THEN "rejected" ELSE "returned"]
  <2>2. row' = [row EXCEPT ![s] = new]
    BY <2>1, <1>2, <1>3 DEF RowInv, RowTypes
  <2>3. new \in RowTypes /\ ~new.open
    BY <2>1, <1>2, <1>3 DEF RowInv, RowTypes, Statuses
  <2> HIDE DEF new
  <2>4. RowInv' /\ row' = [row EXCEPT ![s] = row'[s]]
    BY <2>2, <2>3, <1>2, <1>3 DEF RowInv
  <2> QED BY <1>1, <1>3, <1>6, <1>8, <2>4, TypesLeave DEF Review
<1>9. ASSUME row' = ended
      PROVE  RowInv' /\ row' = [row EXCEPT ![s] = row'[s]]
  <2>1. ended[s].status = "approved" /\ ~ended[s].open
    BY <1>2, <1>3 DEF RowInv, RowTypes
  <2> HIDE DEF ended
  <2> QED BY <1>2, <1>3, <1>7, <1>9, <2>1 DEF RowInv
<1>10. CASE Approve(p)
  BY <1>1, <1>2, <1>3, <1>5, <1>6, <1>9, <1>10, TypesLeave DEF Approve
<1>11. CASE ForceApprove(p)
  <2> DEFINE b == [e \in DOMAIN t.body \ Conflicts(t) |-> t.body[e]]
  <2>1. b \in Bodies /\ DOMAIN b \subseteq Emps
    BY <1>2, BodyFacts
  <2>2. row' = ended /\ roster' = [roster EXCEPT ![s] = DOMAIN b] /\ Materialize(s, b)
    BY <1>11 DEF ForceApprove
  <2> HIDE DEF b
  <2>3. roster' \in [Scopes -> SUBSET Emps]
    BY <1>3, <2>1, <2>2
  <2> QED BY <1>1, <1>5, <1>6, <1>9, <2>1, <2>2, <2>3, TypesLeave
<1>12. CASE Close(p)
  <2> DEFINE new == [row[s] EXCEPT !.open = FALSE, !.dirty = row[s].dirty /\ ~(row[s].status = "approved")]
  <2>1. row' = [row EXCEPT ![s] = new]
    BY <1>2, <1>3, <1>12 DEF Close, RowInv, RowTypes
  <2>2. new \in RowTypes /\ ~new.open
    BY <1>2, <1>3 DEF RowInv, RowTypes
  <2> HIDE DEF new
  <2>4. RowInv' /\ row' = [row EXCEPT ![s] = row'[s]]
    BY <2>1, <2>2, <1>2, <1>3 DEF RowInv
  <2>3. roster' = roster /\ version' \in [Scopes -> Bodies]
    BY <1>2, <1>3, <1>5, <1>12 DEF Close
  <2> QED BY <1>1, <1>3, <1>6, <2>4, <2>3, TypesLeave
<1>13. CASE Rebuild(p)
  <2> DEFINE new == [row[s] EXCEPT !.dirty = FALSE]
  <2>1. row' = [row EXCEPT ![s] = new]
    BY <1>2, <1>3, <1>13 DEF Rebuild, RowInv
  <2>2. new \in RowTypes /\ new.open = row[s].open /\ new.status = row[s].status
    BY <1>2, <1>3 DEF RowInv, RowTypes
  <2> HIDE DEF new
  <2>4. RowInv' /\ row' = [row EXCEPT ![s] = row'[s]]
    BY <2>1, <2>2, <1>2, <1>3 DEF RowInv
  <2>3. roster' = roster /\ version' \in [Scopes -> Bodies]
    BY <1>2, <1>5, <1>13 DEF Rebuild
  <2> QED BY <1>1, <1>3, <1>6, <2>4, <2>3, TypesLeave
<1> QED BY <1>8, <1>10, <1>11, <1>12, <1>13 DEF Run

LEMMA DraftFacts == \A r \in RowTypes : Draft(r) \in RowTypes /\ Draft(r).status = "draft" /\ ~Draft(r).open
BY DEF Draft, RowTypes, Statuses

LEMMA DeskIsTyped ==
  ASSUME TypeInv, NEW m \in Managers
  PROVE  /\ desk[m] \in DeskTypes /\ desk[m].ids \subseteq Emps
         /\ desk[m].pc \in {"submit", "write"} => desk[m].scope \in Scopes
         /\ SubmitIds(m) \subseteq Emps /\ Composition \subseteq Emps
<1>1. desk[m] \in DeskTypes /\ staff \subseteq Emps /\ Reports \subseteq Emps
  BY ReportsAreEmployees DEF TypeInv, TypeOK
<1> QED BY <1>1 DEF TypeInv, Working, DeskTypes, SubmitIds, Composition

LEMMA TypesSubmission ==
  ASSUME TypeInv, NEW m \in Managers,
         (\E s \in Scopes : ReadForSubmit(m, s)) \/ Submit(m) \/ Resubmit(m) \/ SelfRead(m) \/ SelfWrite(m)
  PROVE  TypeInv'
<1> DEFINE d == desk[m]
<1>1. /\ RowInv /\ tx \in [Procs -> TxTypes] /\ desk \in [Managers -> DeskTypes]
      /\ roster \in [Scopes -> SUBSET Emps] /\ version \in [Scopes -> Bodies]
      /\ sound \in [Scopes -> BOOLEAN] /\ checked \in [Scopes -> BOOLEAN] /\ requests \in Nat
      /\ \A n \in Managers : desk[n].pc \in {"submit", "write"} => desk[n].scope \in Scopes
  BY DEF TypeInv, TypeOK, RowInv, RowTypes, Working
<1>2. /\ d \in DeskTypes /\ d.ids \subseteq Emps
      /\ d.pc \in {"submit", "write"} => d.scope \in Scopes
      /\ SubmitIds(m) \subseteq Emps /\ Composition \subseteq Emps
  BY DeskIsTyped
<1>3. ASSUME NEW x \in DeskTypes, desk' = [desk EXCEPT ![m] = x], x.pc \in {"submit", "write"} => x.scope \in Scopes
      PROVE  /\ desk' \in [Managers -> DeskTypes]
             /\ \A n \in Managers : desk'[n].pc \in {"submit", "write"} => desk'[n].scope \in Scopes
  BY <1>1, <1>3
<1>4. \A q \in Procs : SameWork(tx[q], tx[q])
  BY DEF SameWork
<1>5. \A s \in Scopes : row[s].status \in Statuses
  BY <1>1 DEF RowInv, RowTypes
<1>6. AfterSubmit(m) => /\ desk' \in [Managers -> DeskTypes]
                        /\ \A n \in Managers : desk'[n].pc \in {"submit", "write"} => desk'[n].scope \in Scopes
  <2>1. [IdleDesk EXCEPT !.pc = "self"] \in DeskTypes /\ [IdleDesk EXCEPT !.pc = "self"].pc = "self"
    BY IdleTypes DEF IdleDesk, DeskTypes
  <2>2. IdleDesk.pc = "idle"
    BY DEF IdleDesk
  <2> QED BY <1>3, <2>1, <2>2, IdleTypes DEF AfterSubmit
<1>7. ASSUME NEW s \in Scopes, ReadForSubmit(m, s)
      PROVE  TypeInv'
  <2> DEFINE x == [pc |-> "submit", scope |-> s, seen |-> row[s].status,
                   ids |-> IF s = "personal" THEN Composition ELSE {}]
  <2>1. x \in DeskTypes /\ x.scope \in Scopes
    BY <1>2, <1>5 DEF DeskTypes
  <2>2. desk' = [desk EXCEPT ![m] = x] /\ requests' \in Nat
    BY <1>7, AskedCounts DEF ReadForSubmit
  <2>3. UNCHANGED <<row, roster, version, hours, staff, edit, tx, zone, sound, checked>>
    BY <1>7 DEF ReadForSubmit
  <2> HIDE DEF x
  <2> QED BY <1>1, <1>3, <1>4, <2>1, <2>2, <2>3, TypesKept DEF RowInv
<1>8. CASE Submit(m)
  <2> DEFINE s == d.scope
             new == [row[s] EXCEPT !.status = "submitted", !.open = FALSE]
  <2>1. s \in Scopes /\ Unheld(s) /\ roster' = [roster EXCEPT ![s] = SubmitIds(m)]
        /\ row' = [row EXCEPT ![s].status = "submitted", ![s].open = FALSE]
        /\ sound' = [sound EXCEPT ![s] = TRUE] /\ tx' = Updated(tx, {s}) /\ AfterSubmit(m)
        /\ UNCHANGED <<version, hours, staff, edit, zone, checked, requests>>
    BY <1>2, <1>8 DEF Submit
  <2>2. row' = [row EXCEPT ![s] = new]
    BY <1>1, <2>1 DEF RowInv, RowTypes
  <2>3. new \in RowTypes /\ ~new.open
    BY <1>1, <2>1 DEF RowInv, RowTypes, Statuses
  <2>4. tx' \in [Procs -> TxTypes] /\ \A q \in Procs : SameWork(tx'[q], tx[q])
    BY <1>1, <2>1, UpdatedFacts
  <2>5. roster' \in [Scopes -> SUBSET Emps] /\ sound' \in [Scopes -> BOOLEAN]
    BY <1>1, <1>2, <2>1
  <2> HIDE DEF new
  <2>6. RowInv'
    BY <1>1, <2>2, <2>3 DEF RowInv
  <2>7. ASSUME NEW q \in Procs, tx'[q].pc = "hold"
        PROVE  row'[tx[q].scope] = row[tx[q].scope]
    <3>1. tx[q].pc = "hold"
      BY <2>4, <2>7 DEF SameWork
    <3>2. tx[q].scope # s /\ tx[q].scope \in Scopes
      BY <2>1, <3>1, WorkIsTyped DEF Unheld
    <3> QED BY <1>1, <2>1, <2>2, <3>2 DEF RowInv
  <2> QED BY <1>1, <1>6, <2>1, <2>4, <2>5, <2>6, <2>7, TypesKept
<1>9. CASE Resubmit(m)
  <2> DEFINE s == d.scope
  <2>1. s \in Scopes /\ roster' = [roster EXCEPT ![s] = SubmitIds(m)] /\ AfterSubmit(m)
        /\ UNCHANGED <<row, version, hours, staff, edit, tx, zone, checked, requests>>
    BY <1>2, <1>9 DEF Resubmit
  <2>2. roster' \in [Scopes -> SUBSET Emps]
    BY <1>1, <1>2, <2>1
  <2>3. sound' \in [Scopes -> BOOLEAN]
    BY <1>1, <1>9 DEF Resubmit
  <2> QED BY <1>1, <1>4, <1>6, <2>1, <2>2, <2>3, TypesKept DEF RowInv
<1>10. CASE SelfRead(m)
  <2> DEFINE x == [pc |-> "write", scope |-> "personal", seen |-> row["personal"].status, ids |-> Composition]
  <2>1. x \in DeskTypes /\ x.scope \in Scopes
    BY <1>2, <1>5 DEF DeskTypes, Scopes
  <2>2. /\ desk' = [desk EXCEPT ![m] = IdleDesk] \/ desk' = [desk EXCEPT ![m] = x]
        /\ UNCHANGED <<row, roster, version, hours, staff, edit, tx, zone, sound, checked, requests>>
    BY <1>10 DEF SelfRead
  <2>3. IdleDesk.pc = "idle"
    BY DEF IdleDesk
  <2> HIDE DEF x
  <2>4. /\ desk' \in [Managers -> DeskTypes]
        /\ \A n \in Managers : desk'[n].pc \in {"submit", "write"} => desk'[n].scope \in Scopes
    BY <1>3, <2>1, <2>2, <2>3, IdleTypes
  <2> QED BY <1>1, <1>4, <2>2, <2>4, TypesKept DEF RowInv
<1>11. CASE SelfWrite(m)
  <2> DEFINE met == row["personal"].status = d.seen
             writes == met /\ (d.ids = {} \/ d.seen # "submitted")
             to == IF d.ids = {} THEN Draft(row["personal"]) ELSE [row["personal"] EXCEPT !.status = "submitted"]
  <2>1. /\ Unheld("personal")
        /\ row' = IF writes THEN [row EXCEPT !["personal"] = to] ELSE row
        /\ roster' = IF met THEN [roster EXCEPT !["personal"] = d.ids] ELSE roster
        /\ tx' = IF writes THEN Updated(tx, {"personal"}) ELSE tx
        /\ desk' = [desk EXCEPT ![m] = IdleDesk]
        /\ UNCHANGED <<version, hours, staff, edit, zone, checked, requests>>
    BY <1>11 DEF SelfWrite
  <2>2. sound' \in [Scopes -> BOOLEAN]
    BY <1>1, <1>11 DEF SelfWrite
  <2>3. to \in RowTypes /\ (to.open => to.status = "submitted")
    BY <1>1, DraftFacts DEF RowInv, RowTypes, Statuses, Scopes
  <2>4. IdleDesk.pc = "idle" /\ "personal" \in Scopes
    BY DEF IdleDesk, Scopes
  <2>5. tx' \in [Procs -> TxTypes] /\ \A q \in Procs : SameWork(tx'[q], tx[q])
    BY <1>1, <1>4, <2>1, UpdatedFacts
  <2>6. roster' \in [Scopes -> SUBSET Emps]
    BY <1>1, <1>2, <2>1
  <2> HIDE DEF to, writes, met
  <2>7. RowInv'
    BY <1>1, <2>1, <2>3, <2>4 DEF RowInv
  <2>8. \A q \in Procs : tx'[q].pc = "hold" => row'[tx[q].scope] = row[tx[q].scope]
    BY <1>1, <2>1, <2>4, <2>5, WorkIsTyped DEF Unheld, SameWork, RowInv
  <2>9. /\ desk' \in [Managers -> DeskTypes]
        /\ \A n \in Managers : desk'[n].pc \in {"submit", "write"} => desk'[n].scope \in Scopes
    BY <1>3, <2>1, <2>4, IdleTypes
  <2> QED BY <1>1, <2>1, <2>2, <2>5, <2>6, <2>7, <2>8, <2>9, TypesKept
<1> QED BY <1>7, <1>8, <1>9, <1>10, <1>11

LEMMA TypesRequests ==
  ASSUME TypeInv, NEW s \in Scopes, Recall(s) \/ OpenPeriod(s)
  PROVE  TypeInv'
<1>1. /\ RowInv /\ tx \in [Procs -> TxTypes] /\ desk \in [Managers -> DeskTypes]
      /\ roster \in [Scopes -> SUBSET Emps] /\ version \in [Scopes -> Bodies]
      /\ sound \in [Scopes -> BOOLEAN] /\ checked \in [Scopes -> BOOLEAN]
      /\ \A n \in Managers : desk[n].pc \in {"submit", "write"} => desk[n].scope \in Scopes
  BY DEF TypeInv, TypeOK, RowInv, RowTypes, Working
<1>2. ASSUME NEW S \in SUBSET Scopes, NEW f, \A u \in S : Unheld(u), tx' = Updated(tx, S),
             row' = [u \in Scopes |-> IF u \in S THEN f[u] ELSE row[u]], requests' \in Nat,
             \A u \in S : f[u] \in RowTypes /\ (f[u].open => f[u].status \in {"submitted", "approved"}),
             UNCHANGED <<roster, version, hours, staff, edit, desk, zone, sound, checked>>
      PROVE  TypeInv'
  <2>1. RowInv'
    BY <1>1, <1>2 DEF RowInv
  <2>2. tx' \in [Procs -> TxTypes] /\ \A q \in Procs : SameWork(tx'[q], tx[q])
    BY <1>1, <1>2, UpdatedFacts
  <2>3. \A q \in Procs : tx'[q].pc = "hold" => row'[tx[q].scope] = row[tx[q].scope]
    BY <1>1, <1>2, <2>2, WorkIsTyped DEF Unheld, SameWork
  <2> QED BY <1>1, <1>2, <2>1, <2>2, <2>3, TypesKept
<1>3. CASE Recall(s)
  <2>1. PICK cascade \in BOOLEAN :
          LET back == {s} \cup (IF cascade THEN {"personal"} ELSE {})
          IN /\ \A t \in back : Unheld(t)
             /\ row' = [t \in Scopes |-> IF t \in back THEN Draft(row[t]) ELSE row[t]]
             /\ tx' = Updated(tx, back)
    BY <1>3 DEF Recall
  <2> DEFINE back == {s} \cup (IF cascade THEN {"personal"} ELSE {})
             f == [t \in Scopes |-> Draft(row[t])]
  <2>2. back \in SUBSET Scopes
    BY DEF Scopes
  <2>3. \A u \in back : f[u] \in RowTypes /\ ~f[u].open
    BY <1>1, <2>2, DraftFacts DEF RowInv
  <2>4. requests' \in Nat /\ UNCHANGED <<roster, version, hours, staff, edit, desk, zone, sound, checked>>
    BY <1>3, AskedCounts DEF Recall
  <2>5. row' = [u \in Scopes |-> IF u \in back THEN f[u] ELSE row[u]]
    BY <2>1
  <2>6. (\A u \in back : Unheld(u)) /\ tx' = Updated(tx, back)
    BY <2>1
  <2> HIDE DEF back, f
  <2> QED BY <1>2, <2>2, <2>3, <2>4, <2>5, <2>6
<1>4. CASE OpenPeriod(s)
  <2> DEFINE f == [t \in Scopes |-> [row[t] EXCEPT !.open = TRUE]]
  <2>1. Unheld(s) /\ tx' = Updated(tx, {s}) /\ requests' \in Nat /\ row[s].status \in {"submitted", "approved"}
        /\ UNCHANGED <<roster, version, hours, staff, edit, desk, zone, sound, checked>>
    BY <1>4, AskedCounts DEF OpenPeriod, Closed
  <2>2. row' = [u \in Scopes |-> IF u \in {s} THEN f[u] ELSE row[u]]
    BY <1>1, <1>4 DEF OpenPeriod, RowInv
  <2>3. f[s] \in RowTypes /\ f[s].status \in {"submitted", "approved"}
    BY <1>1, <2>1 DEF RowInv, RowTypes
  <2> HIDE DEF f
  <2> QED BY <1>2, <2>1, <2>2, <2>3
<1> QED BY <1>3, <1>4

(* What the transactions become before they end; nothing else moves. *)
LEMMA TypesTx ==
  ASSUME TypeInv, NEW p \in Procs, NEW x \in TxTypes, tx' = [tx EXCEPT ![p] = x], requests' \in Nat,
         UNCHANGED <<row, roster, version, hours, staff, edit, desk, zone, sound, checked>>,
         x.pc # "idle" => x.kind \in Kinds /\ x.scope \in Scopes,
         x.pc = "hold" => Unheld(x.scope) /\ Admits(x.kind, x.scope)
  PROVE  TypeInv'
<1>1. tx' \in [Procs -> TxTypes] /\ tx'[p] = x /\ \A q \in Procs \ {p} : tx'[q] = tx[q]
  BY DEF TypeInv, TypeOK
<1>2. TypeOK'
  BY <1>1 DEF TypeInv, TypeOK
<1>3. \A q \in Procs : tx'[q].pc # "idle" => tx'[q].kind \in Kinds /\ tx'[q].scope \in Scopes
  BY <1>1 DEF TypeInv, Working
<1>4. \A q, r \in Procs : tx'[q].pc = "hold" /\ tx'[r].pc = "hold" /\ tx'[q].scope = tx'[r].scope => q = r
  BY <1>1 DEF TypeInv, Working, Unheld
<1>5. ASSUME NEW q \in Procs, tx'[q].pc = "hold"
      PROVE  Admits(tx[q].kind, tx[q].scope)'
  <2>1. CASE q = p
    <3>1. Admits(x.kind, x.scope) /\ tx'[q].kind = x.kind /\ tx'[q].scope = x.scope
      BY <1>1, <1>5, <2>1
    <3> QED BY <3>1 DEF Admits
  <2>2. CASE q # p
    <3>1. Admits(tx[q].kind, tx[q].scope) /\ tx'[q].kind = tx[q].kind /\ tx'[q].scope = tx[q].scope
      BY <1>1, <1>5, <2>2 DEF TypeInv, Working
    <3> QED BY <3>1 DEF Admits
  <2> QED BY <2>1, <2>2
<1>6. /\ \A m \in Managers : desk'[m].pc \in {"submit", "write"} => desk'[m].scope \in Scopes
      /\ zone'.pc # "idle" => zone'.emp \in Emps
  BY DEF TypeInv, Working
<1> QED BY <1>2, <1>3, <1>4, <1>5, <1>6 DEF TypeInv, Working

LEMMA CountedTypes == ASSUME TypeInv, NEW s \in Scopes PROVE Counted(s) \subseteq Emps
BY BodyFacts DEF TypeInv, TypeOK, Counted

LEMMA OtherScope == \A s \in Scopes : Other(s) \in Scopes /\ Other(s) # s /\ Other(Other(s)) = s
BY DEF Other, Scopes

(* What Begin makes of the transaction. *)
Snapshot(p) == [e \in (IF tx[p].kind = "force" THEN tx[p].list ELSE roster[tx[p].scope]) |-> hours[e]]

(* A repetition is the same work before its locks, or none. *)
LEMMA AgainFacts ==
  ASSUME NEW t \in TxTypes
  PROVE  /\ Again(t) \in TxTypes
         /\ \/ Again(t).pc = "list" /\ Again(t).kind = t.kind /\ Again(t).scope = t.scope
            \/ Again(t).pc = "idle"
<1>1. CASE t.tries < MaxTries
  <2>1. Again(t) = [t EXCEPT !.pc = "list", !.tries = t.tries + 1, !.body = EmptyBody, !.busy = {},
                             !.stale = FALSE, !.raced = FALSE]
    BY <1>1 DEF Again
  <2>2. t.tries + 1 \in Nat /\ EmptyBody \in Bodies
    BY BodyFacts DEF TxTypes
  <2> QED BY <2>1, <2>2 DEF TxTypes
<1>2. CASE ~(t.tries < MaxTries)
  BY <1>2, IdleTypes DEF Again
<1> QED BY <1>1, <1>2

LEMMA TypesSnapshotTx ==
  ASSUME TypeInv, NEW p \in Procs,
         (\E kind \in Kinds, s \in Scopes : Start(p, kind, s)) \/ Begin(p) \/ Acquire(p) \/ Refuse(p)
  PROVE  TypeInv'
<1> DEFINE t == tx[p]
<1>1. /\ tx \in [Procs -> TxTypes] /\ t \in TxTypes /\ row \in [Scopes -> RowTypes] /\ requests \in Nat
      /\ roster \in [Scopes -> SUBSET Emps] /\ staff \subseteq Emps /\ hours \in [Emps -> Hours]
  BY DEF TypeInv, TypeOK, RowTypes
<1>2. ASSUME NEW kind \in Kinds, NEW s \in Scopes, Start(p, kind, s)
      PROVE  TypeInv'
  <2> DEFINE x == [IdleTx EXCEPT !.pc = "list", !.kind = kind, !.scope = s, !.tries = 1,
                                 !.list = LockList(kind, s), !.seq = row[s].seq]
  <2>1. LockList(kind, s) \subseteq Emps
    BY <1>1 DEF LockList
  <2>2. row[s].seq \in Nat
    BY <1>1 DEF RowTypes
  <2>3. x \in TxTypes /\ x.pc = "list" /\ x.kind = kind /\ x.scope = s
    BY <2>1, <2>2, BodyFacts DEF IdleTx, TxTypes
  <2>4. tx' = [tx EXCEPT ![p] = x]
        /\ UNCHANGED <<row, roster, version, hours, staff, edit, desk, zone, sound, checked>>
    BY <1>2 DEF Start
  <2>5. requests' \in Nat
    BY <1>1, <1>2, AskedCounts DEF Start
  <2> HIDE DEF x
  <2> QED BY <2>3, <2>4, <2>5, TypesTx
<1>3. CASE Begin(p)
  <2> DEFINE body == Snapshot(p)
             busy == Counted(Other(t.scope))
             x == [t EXCEPT !.pc = "wait", !.body = body, !.busy = busy]
             y == [t EXCEPT !.pc = "wait"]
  <2>1. t.pc = "list" /\ requests' = requests
        /\ UNCHANGED <<row, roster, version, hours, staff, edit, desk, zone, sound, checked>>
    BY <1>3 DEF Begin
  <2>2. t.kind \in Kinds /\ t.scope \in Scopes /\ t.list \subseteq Emps
    BY <2>1, WorkIsTyped
  <2>3. body \in Bodies /\ busy \subseteq Emps
    BY <1>1, <2>2, BodyFacts, CountedTypes, OtherScope DEF Snapshot
  <2>4. tx' = [tx EXCEPT ![p] = x] \/ tx' = [tx EXCEPT ![p] = y]
    BY <1>3 DEF Begin, Snapshot
  <2> HIDE DEF body, busy
  <2>5. /\ x \in TxTypes /\ x.pc = "wait" /\ x.kind = t.kind /\ x.scope = t.scope
        /\ y \in TxTypes /\ y.pc = "wait" /\ y.kind = t.kind /\ y.scope = t.scope
    BY <1>1, <2>3 DEF TxTypes
  <2> HIDE DEF x, y
  <2> QED BY <1>1, <2>1, <2>2, <2>4, <2>5, TypesTx
<1>4. CASE Acquire(p)
  <2> DEFINE y == [t EXCEPT !.pc = "hold"]
  <2>1. t.pc = "wait" /\ Unheld(t.scope) /\ requests' = requests
        /\ UNCHANGED <<row, roster, version, hours, staff, edit, desk, zone, sound, checked>>
    BY <1>4 DEF Acquire
  <2>2. t.kind \in Kinds /\ t.scope \in Scopes
    BY <2>1, WorkIsTyped
  <2>3. \/ tx' = [tx EXCEPT ![p] = Again(t)] \/ tx' = [tx EXCEPT ![p] = IdleTx]
        \/ tx' = [tx EXCEPT ![p] = y] /\ Admits(t.kind, t.scope)
    BY <1>4 DEF Acquire
  <2>4. y \in TxTypes /\ y.pc = "hold" /\ y.kind = t.kind /\ y.scope = t.scope
    BY <1>1 DEF TxTypes
  <2> HIDE DEF y
  <2>5. CASE tx' = [tx EXCEPT ![p] = Again(t)]
    BY <1>1, <2>1, <2>2, <2>5, AgainFacts, TypesTx
  <2>6. CASE tx' = [tx EXCEPT ![p] = IdleTx]
    BY <1>1, <2>1, <2>6, IdleTypes, TypesTx
  <2>7. CASE tx' = [tx EXCEPT ![p] = y] /\ Admits(t.kind, t.scope)
    BY <1>1, <2>1, <2>2, <2>4, <2>7, TypesTx
  <2> QED BY <2>3, <2>5, <2>6, <2>7
<1>5. CASE Refuse(p)
  <2>1. /\ t.pc \in {"wait", "hold"} /\ requests' \in Nat
        /\ tx' = [tx EXCEPT ![p] = IdleTx] \/ tx' = [tx EXCEPT ![p] = Again(t)]
        /\ UNCHANGED <<row, roster, version, hours, staff, edit, desk, zone, sound, checked>>
    BY <1>1, <1>5, AskedCounts DEF Refuse
  <2>2. t.kind \in Kinds /\ t.scope \in Scopes
    BY <2>1, WorkIsTyped
  <2>3. CASE tx' = [tx EXCEPT ![p] = IdleTx]
    BY <1>1, <2>1, <2>3, IdleTypes, TypesTx
  <2>4. CASE tx' = [tx EXCEPT ![p] = Again(t)]
    BY <1>1, <2>1, <2>2, <2>4, AgainFacts, TypesTx
  <2> QED BY <2>1, <2>3, <2>4
<1> QED BY <1>2, <1>3, <1>4, <1>5

LEMMA TypesStep == ASSUME TypeInv, [Next]_vars PROVE TypeInv'
<1>1. CASE UNCHANGED vars
  BY <1>1 DEF vars, TypeInv, TypeOK, Working, Admits
<1>2. ASSUME NEW e \in Emps, Assign(e) PROVE TypeInv'
  BY <1>2, TypesCorrections
<1>3. ASSUME NEW e \in Corrected, BeginEdit(e) \/ CommitEdit(e) \/ Recalculate(e) PROVE TypeInv'
  BY <1>3, TypesCorrections, ReportsAreEmployees
<1>4. ASSUME NEW m \in Managers,
             (\E s \in Scopes : ReadForSubmit(m, s)) \/ Submit(m) \/ Resubmit(m) \/ SelfRead(m) \/ SelfWrite(m)
      PROVE  TypeInv'
  BY <1>4, TypesSubmission
<1>5. ASSUME NEW s \in Scopes, Recall(s) \/ OpenPeriod(s) PROVE TypeInv'
  BY <1>5, TypesRequests
<1>6. ASSUME NEW p \in Procs,
             (\E kind \in Kinds, s \in Scopes : Start(p, kind, s)) \/ Begin(p) \/ Acquire(p) \/ Refuse(p)
      PROVE  TypeInv'
  BY <1>6, TypesSnapshotTx
<1>7. ASSUME NEW p \in Procs, Run(p) PROVE TypeInv'
  BY <1>7, TypesLeaving
<1>8. ASSUME SelectMarked \/ MarkDirty PROVE TypeInv'
  BY <1>8, TypesZone
<1> QED BY <1>1, <1>2, <1>3, <1>4, <1>5, <1>6, <1>7, <1>8 DEF Next

(* TypeOK: the types, and that the correction mode belongs to a timesheet that is
   submitted or approved, for every number of employees, connections and requests. *)
THEOREM TimesheetsTypeCorrect == Spec => []TypeOK
<1>1. Init => TypeInv
  BY TypesInit
<1>2. TypeInv /\ [Next]_vars => TypeInv'
  BY TypesStep
<1>3. TypeInv => TypeOK
  BY DEF TypeInv
<1> QED BY <1>1, <1>2, <1>3, PTL DEF Spec

-----------------------------------------------------------------------------
(***************************************************************************)
(* The advisory locks.                                                     *)
(***************************************************************************)
(* An employee is locked by one transaction, and not while he is corrected. *)
LocksHeld ==
  /\ \A p \in Procs : \A e \in Emps : Locking(p) /\ e \in tx[p].list => edit[e] = None
  /\ \A p, q \in Procs : \A e \in Emps :
       Locking(p) /\ Locking(q) /\ e \in tx[p].list /\ e \in tx[q].list => p = q

(* A transaction that has its locks after a step had them before, with the same
   snapshot. *)
Kept(q) ==
  Locking(q)' => /\ Locking(q)
                 /\ tx'[q].kind = tx[q].kind /\ tx'[q].scope = tx[q].scope /\ tx'[q].list = tx[q].list
                 /\ tx'[q].body = tx[q].body /\ tx'[q].busy = tx[q].busy
                 /\ tx[q].raced => tx'[q].raced

LEMMA SameWorkIsKept ==
  ASSUME NEW q \in Procs, tx'[q].pc = "idle" \/ SameWork(tx'[q], tx[q]) PROVE Kept(q)
BY DEF Kept, Locking, SameWork

LEMMA OnlyBeginLocks ==
  ASSUME TypeInv, [Next]_vars, \A p \in Procs : ~Begin(p)
  PROVE  \A q \in Procs : Kept(q)
<1> SUFFICES ASSUME NEW q \in Procs PROVE Kept(q)
  OBVIOUS
<1> USE DEF Locking
<1>0. tx \in [Procs -> TxTypes] /\ tx[q] \in TxTypes
  BY DEF TypeInv, TypeOK
<1>1. tx'[q] = tx[q] => Kept(q)
  BY DEF Kept
<1>2. ASSUME NEW S, tx' = Updated(tx, S) PROVE Kept(q)
  BY <1>0, <1>2, UpdatedFacts, SameWorkIsKept
<1>3. CASE UNCHANGED vars
  BY <1>1, <1>3 DEF vars
<1>4. ASSUME NEW e \in Emps, Assign(e) PROVE Kept(q)
  BY <1>1, <1>4 DEF Assign
<1>5. ASSUME NEW e \in Corrected, BeginEdit(e) \/ CommitEdit(e) \/ Recalculate(e) PROVE Kept(q)
  <2>1. CASE BeginEdit(e) \/ CommitEdit(e)
    BY <1>1, <2>1 DEF BeginEdit, CommitEdit
  <2>2. CASE Recalculate(e)
    <3>1. tx'[q] = tx[q] \/ tx'[q] = [tx[q] EXCEPT !.raced = TRUE]
      BY <2>2 DEF Recalculate
    <3> QED BY <1>0, <3>1 DEF Kept, TxTypes
  <2> QED BY <1>5, <2>1, <2>2
<1>6. ASSUME NEW m \in Managers,
             (\E s \in Scopes : ReadForSubmit(m, s)) \/ Submit(m) \/ Resubmit(m) \/ SelfRead(m) \/ SelfWrite(m)
      PROVE  Kept(q)
  <2>1. CASE (\E s \in Scopes : ReadForSubmit(m, s)) \/ Resubmit(m) \/ SelfRead(m)
    BY <1>1, <2>1 DEF ReadForSubmit, Resubmit, SelfRead
  <2>2. CASE Submit(m)
    BY <1>2, <2>2 DEF Submit
  <2>3. CASE SelfWrite(m)
    <3>1. tx' = Updated(tx, {"personal"}) \/ tx' = tx
      BY <2>3 DEF SelfWrite
    <3> QED BY <1>1, <1>2, <3>1
  <2> QED BY <1>6, <2>1, <2>2, <2>3
<1>7. ASSUME NEW s \in Scopes, Recall(s) \/ OpenPeriod(s) PROVE Kept(q)
  BY <1>2, <1>7 DEF Recall, OpenPeriod
<1>8. ASSUME NEW p \in Procs,
             (\E kind \in Kinds, s \in Scopes : Start(p, kind, s)) \/ Acquire(p) \/ Refuse(p)
      PROVE  Kept(q)
  <2>1. CASE q # p
    <3>1. tx'[q] = tx[q]
      BY <1>0, <1>8, <2>1 DEF Start, Acquire, Refuse
    <3> QED BY <1>1, <3>1
  <2>2. CASE q = p
    <3>1. ASSUME NEW kind \in Kinds, NEW s \in Scopes, Start(p, kind, s) PROVE tx'[q].pc = "list"
      BY <1>0, <2>2, <3>1 DEF Start, IdleTx
    <3>2. Refuse(p) => tx'[q].pc \in {"list", "idle"}
      BY <1>0, <2>2, IdleTypes, AgainFacts DEF Refuse
    <3>3. CASE Acquire(p)
      <4>1. \/ tx'[q].pc \in {"list", "idle"}
            \/ tx[q].pc = "wait" /\ tx'[q] = [tx[q] EXCEPT !.pc = "hold"]
        BY <1>0, <2>2, <3>3, IdleTypes, AgainFacts DEF Acquire
      <4> QED BY <1>0, <4>1 DEF Kept, TxTypes
    <3> QED BY <1>8, <3>1, <3>2, <3>3 DEF Kept
  <2> QED BY <2>1, <2>2
<1>9. ASSUME NEW p \in Procs, Run(p) PROVE Kept(q)
  <2>1. Leave(p)
    BY <1>9 DEF Run, Review, Approve, ForceApprove, Close, Rebuild
  <2> QED BY <1>0, <2>1, LeaveFacts, SameWorkIsKept
<1>10. ASSUME SelectMarked \/ MarkDirty PROVE Kept(q)
  BY <1>1, <1>2, <1>10 DEF SelectMarked, MarkDirty
<1> QED BY <1>3, <1>4, <1>5, <1>6, <1>7, <1>8, <1>9, <1>10 DEF Next

LEMMA BeginFacts ==
  ASSUME TypeInv, NEW p \in Procs, Begin(p)
  PROVE  /\ \A q \in Procs \ {p} : tx'[q] = tx[q]
         /\ tx[p].pc = "list" /\ tx'[p].pc = "wait" /\ tx'[p].kind = tx[p].kind
         /\ tx'[p].scope = tx[p].scope /\ tx'[p].list = tx[p].list /\ \A e \in tx[p].list : Free(e)
         /\ Fixes(tx[p].kind) => tx'[p].body = Snapshot(p) /\ tx'[p].busy = Counted(Other(tx[p].scope))
         /\ UNCHANGED <<row, roster, version, hours, staff, edit, desk, zone, sound, checked, requests>>
<1>1. tx \in [Procs -> TxTypes] /\ tx[p] \in TxTypes
  BY DEF TypeInv, TypeOK
<1>2. tx' = [tx EXCEPT ![p] =
                 IF Fixes(tx[p].kind)
                 THEN [tx[p] EXCEPT !.pc = "wait", !.body = Snapshot(p), !.busy = Counted(Other(tx[p].scope))]
                 ELSE [tx[p] EXCEPT !.pc = "wait"]]
  BY DEF Begin, Snapshot
<1>3. /\ tx[p].pc = "list" /\ \A e \in tx[p].list : Free(e)
      /\ UNCHANGED <<row, roster, version, hours, staff, edit, desk, zone, sound, checked, requests>>
  BY DEF Begin, LocksGranted
<1> QED BY <1>1, <1>2, <1>3 DEF TxTypes

LEMMA EditsBegin ==
  ASSUME TypeInv, [Next]_vars, NEW e \in Emps
  PROVE  edit'[e] = None \/ edit'[e] = edit[e] \/ (e \in Corrected /\ BeginEdit(e))
<1>1. edit \in [Emps -> Hours \cup {None}] /\ Corrected \subseteq Emps
  BY ReportsAreEmployees DEF TypeInv, TypeOK
<1>2. ASSUME NEW d \in Corrected, BeginEdit(d) \/ CommitEdit(d)
      PROVE  edit'[e] = None \/ edit'[e] = edit[e] \/ (e \in Corrected /\ BeginEdit(e))
  BY <1>1, <1>2 DEF BeginEdit, CommitEdit
<1>3. CASE UNCHANGED edit
  BY <1>3
<1> QED BY <1>2, <1>3 DEF Next, vars, Assign, Recalculate, ReadForSubmit, Submit, Resubmit, SelfRead, SelfWrite,
      Recall, OpenPeriod, Start, Begin, Acquire, Refuse, Run, Review, Approve, ForceApprove, Close, Rebuild,
      SelectMarked, MarkDirty

LEMMA LocksInit == Init => LocksHeld
BY DEF Init, LocksHeld, Locking, IdleTx

LEMMA LocksStep == ASSUME TypeInv, LocksHeld, [Next]_vars PROVE LocksHeld'
<1>1. CASE \E p \in Procs : Begin(p)
  <2>1. PICK p \in Procs : Begin(p)
    BY <1>1
  <2>2. /\ \A q \in Procs \ {p} : tx'[q] = tx[q]
        /\ tx'[p].list = tx[p].list /\ (\A e \in tx[p].list : Free(e)) /\ edit' = edit
    BY <2>1, BeginFacts
  <2> QED BY <2>2 DEF LocksHeld, Locking, Free
<1>2. CASE \A p \in Procs : ~Begin(p)
  <2>1. \A q \in Procs : Kept(q)
    BY <1>2, OnlyBeginLocks
  <2>2. ASSUME NEW p \in Procs, NEW e \in Emps, Locking(p)', e \in tx'[p].list
        PROVE  edit'[e] = None
    <3>1. Locking(p) /\ e \in tx[p].list /\ edit[e] = None
      BY <2>1, <2>2 DEF Kept, LocksHeld
    <3>2. ~BeginEdit(e)
      BY <3>1 DEF BeginEdit, Free, Locking
    <3> QED BY <3>1, <3>2, EditsBegin
  <2>3. ASSUME NEW p \in Procs, NEW q \in Procs, NEW e \in Emps,
               Locking(p)', Locking(q)', e \in tx'[p].list, e \in tx'[q].list
        PROVE  p = q
    BY <2>1, <2>3 DEF Kept, LocksHeld
  <2> QED BY <2>2, <2>3 DEF LocksHeld, Locking
<1> QED BY <1>1, <1>2

-----------------------------------------------------------------------------
(***************************************************************************)
(* What a step does to a timesheet.                                        *)
(***************************************************************************)
(* Nothing, but perhaps the count of its marks. *)
Untouched(s) == /\ row'[s].status = row[s].status /\ row'[s].open = row[s].open /\ row'[s].dirty = row[s].dirty
                /\ roster'[s] = roster[s] /\ version'[s] = version[s]
                /\ sound'[s] = sound[s] /\ checked'[s] = checked[s]

(* It is opened, taken back, sent back or marked. *)
Loosened(s) == /\ ~Closed(s)' \/ (row'[s].status = row[s].status /\ row'[s].open = row[s].open /\ row'[s].dirty)
               /\ row'[s].status = "approved" => row[s].status = "approved"
               /\ roster'[s] = roster[s] /\ version'[s] = version[s]
               /\ sound'[s] = sound[s] /\ checked'[s] = checked[s]

(* It is handed in: an approved one only has its roster rewritten. *)
HandedIn(s) == /\ row'[s].status = "approved" => row'[s] = row[s] /\ ~sound'[s]
               /\ sound'[s] => \A e \in roster'[s] : edit[e] = None
               /\ version'[s] = version[s] /\ checked'[s] = checked[s]

(* It is closed with the hours b, those of the snapshot. *)
ClosedBy(p, s, b) ==
  /\ tx[p].pc = "hold" /\ tx[p].scope = s /\ Fixes(tx[p].kind)
  /\ \A e \in DOMAIN b : e \in DOMAIN tx[p].body /\ b[e] = tx[p].body[e]
  /\ sound'[s] => roster'[s] = DOMAIN b /\ DOMAIN b \subseteq tx[p].list /\ ~tx[p].raced
  /\ row'[s].status = "approved" => version'[s] = b
  /\ hours' = hours /\ edit' = edit

(* It is approved, and its days have been compared. *)
Approved(p, s) ==
  /\ checked'[s] => Counted(s)' \subseteq tx[p].list
  /\ Counted(s)' \cap tx[p].busy = {}

(* Or it is closed again, which compares nothing. *)
Reclosed(s) ==
  checked'[s] => checked[s] /\ version'[s] = version[s] /\ row'[s].status = row[s].status

Left(p, s, b) == ClosedBy(p, s, b) /\ (Approved(p, s) \/ Reclosed(s))

Outcome(s) == Untouched(s) \/ Loosened(s) \/ HandedIn(s) \/ \E p \in Procs, b \in Bodies : Left(p, s, b)

LEMMA RunLeavesOthers ==
  ASSUME TypeInv, NEW p \in Procs, Run(p), NEW s \in Scopes, s # tx[p].scope
  PROVE  Untouched(s)
<1>1. tx[p].scope \in Scopes
  BY WorkIsTyped DEF Run, Review, Approve, ForceApprove, Close, Rebuild
<1>2. /\ row \in [Scopes -> RowTypes] /\ roster \in [Scopes -> SUBSET Emps] /\ version \in [Scopes -> Bodies]
      /\ sound \in [Scopes -> BOOLEAN] /\ checked \in [Scopes -> BOOLEAN]
  BY DEF TypeInv, TypeOK, RowTypes
<1>3. row'[s] = row[s]
  BY <1>1, <1>2 DEF Run, Review, Approve, ForceApprove, Close, Rebuild
<1>4. roster'[s] = roster[s] /\ version'[s] = version[s]
  BY <1>1, <1>2 DEF Run, Review, Approve, ForceApprove, Close, Rebuild, Materialize
<1>5. sound'[s] = sound[s]
  BY <1>1, <1>2 DEF Run, Review, Approve, ForceApprove, Close, Rebuild
<1>6. checked'[s] = checked[s]
  BY <1>1, <1>2 DEF Run, Review, Approve, ForceApprove, Close, Rebuild, Compared, Uncompared
<1> QED BY <1>3, <1>4, <1>5, <1>6 DEF Untouched

LEMMA RunOutcome ==
  ASSUME TypeInv, NEW p \in Procs, Run(p), NEW s \in Scopes, s = tx[p].scope
  PROVE  Outcome(s)
<1> DEFINE t == tx[p]
<1>1. t.pc = "hold" /\ t.kind \in Kinds /\ s \in Scopes /\ t.body \in Bodies
  BY WorkIsTyped DEF Run, Review, Approve, ForceApprove, Close, Rebuild
<1>2. /\ row \in [Scopes -> RowTypes] /\ roster \in [Scopes -> SUBSET Emps] /\ version \in [Scopes -> Bodies]
      /\ sound \in [Scopes -> BOOLEAN] /\ checked \in [Scopes -> BOOLEAN]
  BY DEF TypeInv, TypeOK, RowTypes
<1>3. Admits(t.kind, s)
  BY <1>1 DEF TypeInv, Working
<1>4. CASE Review(p)
  <2>1. row' = [row EXCEPT ![s].status = IF t.kind = "reject" THEN "rejected" ELSE "returned"]
        /\ UNCHANGED <<roster, version, sound, checked>>
    BY <1>4 DEF Review
  <2>2. row'[s].status \notin {"submitted", "approved"}
    BY <1>1, <1>2, <2>1 DEF RowTypes
  <2> QED BY <2>1, <2>2 DEF Outcome, Loosened, Closed
<1>5. ASSUME NEW b \in Bodies, Materialize(s, b), row'[s].status = "approved",
             checked' = Compared(t), \A e \in DOMAIN b : b[e] > 0 => e \notin t.busy,
             DOMAIN b \subseteq DOMAIN t.body
      PROVE  Approved(p, s)
  <2>1. version'[s] = b
    BY <1>1, <1>2, <1>5 DEF Materialize
  <2>2. Counted(s)' = {e \in DOMAIN b : b[e] > 0}
    BY <1>5, <2>1 DEF Counted
  <2>3. checked'[s] => DOMAIN t.body \subseteq t.list
    BY <1>1, <1>2, <1>5 DEF Compared
  <2> QED BY <1>5, <2>2, <2>3 DEF Approved
<1>6. CASE Approve(p)
  <2>1. /\ row' = [row EXCEPT ![s].status = "approved", ![s].open = FALSE, ![s].dirty = FALSE]
        /\ Materialize(s, t.body) /\ roster' = roster /\ t.kind \in {"approve", "monthApprove"}
        /\ sound' = [sound EXCEPT ![s] = Covers(t, t.body)] /\ checked' = Compared(t)
        /\ Conflicts(t) = {} /\ hours' = hours /\ edit' = edit
    BY <1>6 DEF Approve
  <2>2. row'[s].status = "approved" /\ version'[s] = t.body
    BY <1>1, <1>2, <2>1 DEF RowTypes, Materialize
  <2>3. sound'[s] => roster'[s] = DOMAIN t.body /\ DOMAIN t.body \subseteq t.list /\ ~t.raced
    BY <1>1, <1>2, <2>1 DEF Covers
  <2>4. Approved(p, s)
    BY <1>1, <1>5, <2>1, <2>2 DEF Conflicts
  <2>5. ClosedBy(p, s, t.body)
    BY <1>1, <2>1, <2>2, <2>3 DEF ClosedBy, Fixes
  <2> QED BY <1>1, <2>4, <2>5 DEF Outcome, Left
<1>7. CASE ForceApprove(p)
  <2> DEFINE b == [e \in DOMAIN t.body \ Conflicts(t) |-> t.body[e]]
  <2>1. /\ row' = [row EXCEPT ![s].status = "approved", ![s].open = FALSE, ![s].dirty = FALSE]
        /\ Materialize(s, b) /\ t.kind = "force"
        /\ sound' = [sound EXCEPT ![s] = Covers(t, b)] /\ checked' = Compared(t)
        /\ hours' = hours /\ edit' = edit
    BY <1>7 DEF ForceApprove
  <2>2. b \in Bodies
    BY <1>1, BodyFacts
  <2>3. \A e \in DOMAIN b : e \in DOMAIN t.body /\ b[e] = t.body[e] /\ (b[e] > 0 => e \notin t.busy)
    BY DEF Conflicts
  <2>4. DOMAIN b \subseteq DOMAIN t.body
    OBVIOUS
  <2> HIDE DEF b
  <2>5. row'[s].status = "approved" /\ version'[s] = b
    BY <1>1, <1>2, <2>1 DEF RowTypes, Materialize
  <2>6. sound'[s] => roster'[s] = DOMAIN b /\ DOMAIN b \subseteq t.list /\ ~t.raced
    BY <1>1, <1>2, <2>1 DEF Covers
  <2>7. Approved(p, s)
    BY <1>5, <2>1, <2>2, <2>3, <2>4, <2>5
  <2>8. ClosedBy(p, s, b)
    BY <1>1, <2>1, <2>3, <2>5, <2>6 DEF ClosedBy, Fixes
  <2> QED BY <1>1, <2>2, <2>7, <2>8 DEF Outcome, Left
<1>8. ASSUME Close(p) \/ Rebuild(p)
      PROVE  Outcome(s)
  <2>1. /\ row'[s].status = row[s].status
        /\ row[s].status = "approved" => Materialize(s, t.body)
        /\ roster' = roster /\ t.kind \in {"close", "relock", "rebuild"}
        /\ sound' = [sound EXCEPT ![s] = Covers(t, t.body)] /\ checked' = Uncompared(t)
        /\ hours' = hours /\ edit' = edit
    BY <1>1, <1>2, <1>8 DEF Close, Rebuild, RowTypes
  <2>2. row[s].status = "approved" => version'[s] = t.body
    BY <1>1, <1>2, <2>1 DEF Materialize
  <2>3. sound'[s] => roster'[s] = DOMAIN t.body /\ DOMAIN t.body \subseteq t.list /\ ~t.raced
    BY <1>1, <1>2, <2>1 DEF Covers
  <2>4. Reclosed(s)
    BY <1>1, <1>2, <2>1 DEF Reclosed, Uncompared
  <2>5. ClosedBy(p, s, t.body)
    BY <1>1, <2>1, <2>2, <2>3 DEF ClosedBy, Fixes
  <2> QED BY <1>1, <2>4, <2>5 DEF Outcome, Left
<1> QED BY <1>4, <1>6, <1>7, <1>8 DEF Run

(* A step that leaves the tables alone, or writes the row only to mark or loosen. *)
LEMMA SameTables ==
  ASSUME UNCHANGED <<row, roster, version, sound, checked>>, NEW s \in Scopes PROVE Outcome(s)
BY DEF Outcome, Untouched

LEMMA SubmissionOutcome ==
  ASSUME TypeInv, NEW m \in Managers, Submit(m) \/ Resubmit(m) \/ SelfWrite(m), NEW s \in Scopes
  PROVE  Outcome(s)
<1> DEFINE d == desk[m]
<1>1. /\ row \in [Scopes -> RowTypes] /\ roster \in [Scopes -> SUBSET Emps]
      /\ sound \in [Scopes -> BOOLEAN]
  BY DEF TypeInv, TypeOK, RowTypes
<1>2. Submit(m) \/ Resubmit(m) => d.scope \in Scopes
  BY DeskIsTyped DEF Submit, Resubmit
<1>3. UNCHANGED <<version, checked>>
  BY DEF Submit, Resubmit, SelfWrite
<1>4. LocksTaken(m) => \A e \in SubmitIds(m) : edit[e] = None
  BY DEF LocksTaken, Free
<1>5. CASE Submit(m)
  <2>1. /\ row' = [row EXCEPT ![d.scope].status = "submitted", ![d.scope].open = FALSE]
        /\ roster' = [roster EXCEPT ![d.scope] = SubmitIds(m)]
        /\ sound' = [sound EXCEPT ![d.scope] = TRUE] /\ LocksTaken(m)
    BY <1>5 DEF Submit
  <2>2. CASE s = d.scope
    <3>1. row'[s].status = "submitted"
      BY <1>1, <2>1, <2>2 DEF RowTypes
    <3>2. roster'[s] = SubmitIds(m)
      BY <1>1, <2>1, <2>2
    <3> QED BY <1>3, <1>4, <2>1, <3>1, <3>2 DEF Outcome, HandedIn
  <2>3. CASE s # d.scope
    BY <1>1, <1>2, <1>3, <1>5, <2>1, <2>3 DEF Outcome, Untouched
  <2> QED BY <2>2, <2>3
<1>6. CASE Resubmit(m)
  <2> DEFINE changed == roster[d.scope] # SubmitIds(m)
  <2>1. /\ row' = row /\ roster' = [roster EXCEPT ![d.scope] = SubmitIds(m)] /\ LocksTaken(m)
        /\ sound' = [sound EXCEPT ![d.scope] = IF changed THEN row[d.scope].status # "approved" ELSE sound[d.scope]]
    BY <1>6 DEF Resubmit
  <2>2. CASE s = d.scope /\ changed
    <3>1. roster'[s] = SubmitIds(m) /\ sound'[s] = (row[s].status # "approved")
      BY <1>1, <2>1, <2>2
    <3> QED BY <1>3, <1>4, <2>1, <3>1 DEF Outcome, HandedIn
  <2>3. CASE s # d.scope \/ ~changed
    BY <1>1, <1>2, <1>3, <1>6, <2>1, <2>3 DEF Outcome, Untouched
  <2> QED BY <2>2, <2>3
<1>7. CASE SelfWrite(m)
  <2> DEFINE met == row["personal"].status = d.seen
             writes == met /\ (d.ids = {} \/ d.seen # "submitted")
             to == IF d.ids = {} THEN Draft(row["personal"]) ELSE [row["personal"] EXCEPT !.status = "submitted"]
  <2>1. /\ row' = IF writes THEN [row EXCEPT !["personal"] = to] ELSE row
        /\ roster' = IF met THEN [roster EXCEPT !["personal"] = d.ids] ELSE roster
        /\ sound' = IF met /\ (roster["personal"] # d.ids \/ writes)
                    THEN [sound EXCEPT !["personal"] = FALSE] ELSE sound
    BY <1>7 DEF SelfWrite
  <2>2. "personal" \in Scopes
    BY DEF Scopes
  <2>3. to.status \in {"draft", "submitted"}
    BY <1>1, <2>2, DraftFacts DEF RowTypes
  <2>4. writes => met
    OBVIOUS
  <2> HIDE DEF to, writes, met
  <2>5. CASE s = "personal" /\ met /\ (roster["personal"] # d.ids \/ writes)
    <3>1. ~sound'[s]
      BY <1>1, <2>1, <2>2, <2>5
    <3>2. row'[s].status = "approved" => row'[s] = row[s]
      BY <1>1, <2>1, <2>2, <2>3, <2>5
    <3> QED BY <1>3, <3>1, <3>2 DEF Outcome, HandedIn
  <2>6. CASE ~(s = "personal" /\ met /\ (roster["personal"] # d.ids \/ writes))
    <3>1. row'[s] = row[s] /\ roster'[s] = roster[s] /\ sound'[s] = sound[s]
      BY <1>1, <2>1, <2>2, <2>4, <2>6
    <3> QED BY <1>3, <3>1 DEF Outcome, Untouched
  <2> QED BY <2>5, <2>6
<1> QED BY <1>5, <1>6, <1>7

LEMMA StepOutcome ==
  ASSUME TypeInv, [Next]_vars, NEW s \in Scopes
  PROVE  Outcome(s)
<1>0. row \in [Scopes -> RowTypes]
  BY DEF TypeInv, TypeOK, RowTypes
<1>1. CASE UNCHANGED vars
  BY <1>1, SameTables DEF vars
<1>2. ASSUME NEW e \in Emps, Assign(e) PROVE Outcome(s)
  BY <1>2, SameTables DEF Assign
<1>3. ASSUME NEW e \in Corrected, BeginEdit(e) \/ CommitEdit(e) \/ Recalculate(e) PROVE Outcome(s)
  BY <1>3, SameTables DEF BeginEdit, CommitEdit, Recalculate
<1>4. ASSUME NEW m \in Managers, (\E u \in Scopes : ReadForSubmit(m, u)) \/ SelfRead(m) PROVE Outcome(s)
  BY <1>4, SameTables DEF ReadForSubmit, SelfRead
<1>5. ASSUME NEW m \in Managers, Submit(m) \/ Resubmit(m) \/ SelfWrite(m) PROVE Outcome(s)
  BY <1>5, SubmissionOutcome
<1>6. ASSUME NEW u \in Scopes, Recall(u) PROVE Outcome(s)
  <2>1. /\ row'[s] = row[s] \/ row'[s] = Draft(row[s])
        /\ UNCHANGED <<roster, version, sound, checked>>
    BY <1>6 DEF Recall
  <2>2. Draft(row[s]).status = "draft"
    BY <1>0, DraftFacts
  <2> QED BY <2>1, <2>2 DEF Outcome, Untouched, Loosened, Closed
<1>7. ASSUME NEW u \in Scopes, OpenPeriod(u) PROVE Outcome(s)
  <2>1. row' = [row EXCEPT ![u].open = TRUE] /\ UNCHANGED <<roster, version, sound, checked>>
    BY <1>7 DEF OpenPeriod
  <2>2. row'[s] = row[s] \/ (row'[s].open /\ row'[s].status = row[s].status)
    BY <1>0, <2>1 DEF RowTypes
  <2> QED BY <2>1, <2>2 DEF Outcome, Untouched, Loosened, Closed
<1>8. ASSUME NEW p \in Procs,
             (\E kind \in Kinds, u \in Scopes : Start(p, kind, u)) \/ Begin(p) \/ Acquire(p) \/ Refuse(p)
      PROVE  Outcome(s)
  BY <1>8, SameTables DEF Start, Begin, Acquire, Refuse
<1>9. ASSUME NEW p \in Procs, Run(p) PROVE Outcome(s)
  BY <1>9, RunOutcome, RunLeavesOthers DEF Outcome
<1>10. CASE SelectMarked
  BY <1>10, SameTables DEF SelectMarked
<1>11. CASE MarkDirty
  <2>1. /\ row'[s] = row[s] \/ row'[s] = [row[s] EXCEPT !.dirty = TRUE, !.seq = row[s].seq + 1]
        /\ UNCHANGED <<roster, version, sound, checked>>
    BY <1>11 DEF MarkDirty
  <2>2. \/ row'[s] = row[s]
        \/ row'[s].status = row[s].status /\ row'[s].open = row[s].open /\ row'[s].dirty
    BY <1>0, <2>1 DEF RowTypes
  <2> QED BY <2>1, <2>2 DEF Outcome, Untouched, Loosened
<1> QED BY <1>1, <1>2, <1>3, <1>4, <1>5, <1>6, <1>7, <1>8, <1>9, <1>10, <1>11 DEF Next

-----------------------------------------------------------------------------
(***************************************************************************)
(* No correction lands behind the lock.                                    *)
(***************************************************************************)
(* Nobody corrects the employees of a timesheet closed under their locks. *)
Frozen == \A s \in Scopes : \A e \in Emps :
            Closed(s) /\ sound[s] /\ e \in roster[s] => edit[e] = None

LEMMA FrozenStep ==
  ASSUME TypeInv, LocksHeld, Frozen, [Next]_vars
  PROVE  Frozen'
<1> SUFFICES ASSUME NEW s \in Scopes, NEW e \in Emps, Closed(s)', sound'[s], e \in roster'[s]
             PROVE  edit'[e] = None
  BY DEF Frozen
<1>1. Outcome(s)
  BY StepOutcome
<1>2. edit[e] = None
  <2>1. CASE Untouched(s)
    BY <2>1 DEF Untouched, Frozen, Closed
  <2>2. CASE Loosened(s)
    BY <2>2 DEF Loosened, Frozen, Closed
  <2>3. CASE HandedIn(s)
    BY <2>3 DEF HandedIn
  <2>4. ASSUME NEW p \in Procs, NEW b \in Bodies, Left(p, s, b) PROVE edit[e] = None
    BY <2>4 DEF Left, ClosedBy, LocksHeld, Locking
  <2> QED BY <1>1, <2>1, <2>2, <2>3, <2>4 DEF Outcome
<1>3. ~BeginEdit(e)
  BY DEF BeginEdit, Locked, Closed
<1> QED BY <1>2, <1>3, EditsBegin

LEMMA FrozenInit == Init => Frozen
BY DEF Init, Frozen

(* FrozenWhileClosed: a correction that began before a timesheet was closed does
   not land after it, unless it was closed without the lock of its employee. *)
THEOREM CorrectionsStayOut == Spec => FrozenWhileClosed
<1> DEFINE Inv == TypeInv /\ LocksHeld /\ Frozen
<1>1. Init => Inv
  BY TypesInit, LocksInit, FrozenInit
<1>2. Inv /\ [Next]_vars => Inv'
  BY TypesStep, LocksStep, FrozenStep
<1>3. Inv /\ [Next]_vars =>
        [\A e \in Emps : CommitEdit(e) => \A s \in Scopes : Closed(s) /\ e \in roster[s] => ~sound[s]]_vars
  BY DEF Frozen, CommitEdit
<1> QED BY <1>1, <1>2, <1>3, PTL DEF Spec, FrozenWhileClosed

-----------------------------------------------------------------------------
(***************************************************************************)
(* A closed timesheet is exact.                                            *)
(***************************************************************************)
LEMMA HoursChange ==
  ASSUME TypeInv, [Next]_vars, NEW e \in Emps
  PROVE  hours'[e] = hours[e] \/ CommitEdit(e) \/ Recalculate(e)
<1>1. hours \in [Emps -> Hours] /\ Corrected \subseteq Emps
  BY ReportsAreEmployees DEF TypeInv, TypeOK
<1>2. ASSUME NEW d \in Corrected, CommitEdit(d) \/ Recalculate(d)
      PROVE  hours'[e] = hours[e] \/ CommitEdit(e) \/ Recalculate(e)
  BY <1>1, <1>2 DEF CommitEdit, Recalculate
<1>3. CASE UNCHANGED hours
  BY <1>3
<1> QED BY <1>2, <1>3 DEF Next, vars, Assign, BeginEdit, ReadForSubmit, Submit, Resubmit, SelfRead, SelfWrite,
      Recall, OpenPeriod, Start, Begin, Acquire, Refuse, Run, Review, Approve, ForceApprove, Close, Rebuild,
      SelectMarked, MarkDirty

LEMMA ZoneChange ==
  ASSUME TypeInv, [Next]_vars
  PROVE  zone' = zone \/ SelectMarked \/ MarkDirty \/ zone.pc = "idle"
BY DEF Next, vars, Assign, BeginEdit, CommitEdit, Recalculate, ReadForSubmit, Submit, Resubmit, SelfRead,
      SelfWrite, Recall, OpenPeriod, Start, Begin, Acquire, Refuse, Run, Review, Approve, ForceApprove, Close,
      Rebuild

(* The snapshot of a transaction holds the present hours of whom it locks, unless
   they have been recalculated. *)
SnapshotsTrue ==
  \A q \in Procs : \A e \in Emps :
    Locking(q) /\ Fixes(tx[q].kind) /\ ~tx[q].raced /\ e \in tx[q].list /\ e \in DOMAIN tx[q].body
      => tx[q].body[e] = hours[e]

LEMMA SnapshotsInit == Init => SnapshotsTrue
BY DEF Init, SnapshotsTrue, Locking, IdleTx

LEMMA SnapshotsStep ==
  ASSUME TypeInv, LocksHeld, SnapshotsTrue, [Next]_vars
  PROVE  SnapshotsTrue'
<1> SUFFICES ASSUME NEW q \in Procs, NEW e \in Emps, Locking(q)', Fixes(tx'[q].kind), ~tx'[q].raced,
                    e \in tx'[q].list, e \in DOMAIN tx'[q].body
             PROVE  tx'[q].body[e] = hours'[e]
  BY DEF SnapshotsTrue, Fixes
<1>1. CASE \E p \in Procs : Begin(p)
  <2>1. PICK p \in Procs : Begin(p)
    BY <1>1
  <2>2. /\ \A r \in Procs \ {p} : tx'[r] = tx[r]
        /\ tx'[p].kind = tx[p].kind /\ hours' = hours
        /\ Fixes(tx[p].kind) => tx'[p].body = Snapshot(p)
    BY <2>1, BeginFacts
  <2>3. CASE q = p
    BY <2>2, <2>3 DEF Snapshot
  <2>4. CASE q # p
    BY <2>2, <2>4 DEF SnapshotsTrue, Locking
  <2> QED BY <2>3, <2>4
<1>2. CASE \A p \in Procs : ~Begin(p)
  <2>1. Kept(q)
    BY <1>2, OnlyBeginLocks
  <2>2. /\ Locking(q) /\ e \in tx[q].list /\ e \in DOMAIN tx[q].body /\ tx'[q].body = tx[q].body
        /\ tx[q].body[e] = hours[e] /\ edit[e] = None
    BY <2>1 DEF Kept, SnapshotsTrue, LocksHeld
  <2>3. ~CommitEdit(e)
    BY <2>2 DEF CommitEdit
  <2>4. ~Recalculate(e)
    <3>1. SUFFICES ASSUME Recalculate(e) PROVE tx'[q].raced
      OBVIOUS
    <3>2. tx'[q] = [tx[q] EXCEPT !.raced = TRUE]
      BY <2>2, <3>1 DEF Recalculate, Locking
    <3>3. tx[q] \in TxTypes
      BY DEF TypeInv, TypeOK
    <3> QED BY <3>2, <3>3 DEF TxTypes
  <2> QED BY <2>2, <2>3, <2>4, HoursChange
<1> QED BY <1>1, <1>2

(* What 1C reads must be exact. *)
Answers(s) == row[s].status = "approved" /\ ~row[s].open /\ ~row[s].dirty /\ sound[s]

(* A recalculation is on its way to mark the timesheet. *)
ToMark(s, e) == zone.emp = e /\ (zone.pc = "select" \/ (zone.pc = "mark" /\ s \in zone.rows))

ExactOrMarked ==
  \A s \in Scopes : Answers(s) =>
    /\ DOMAIN version[s] = roster[s]
    /\ \A e \in roster[s] : version[s][e] = hours[e] \/ ToMark(s, e)

LEMMA ExactInit == Init => ExactOrMarked
BY DEF Init, ExactOrMarked, Answers

(* The mark arrives, or is still on its way. *)
LEMMA MarksArrive ==
  ASSUME TypeInv, [Next]_vars, NEW s \in Scopes, NEW e \in roster[s],
         Answers(s), ~row'[s].dirty, ToMark(s, e)
  PROVE  ToMark(s, e)'
<1>1. zone.pc # "idle" /\ row \in [Scopes -> RowTypes] /\ zone \in ZoneTypes
  BY DEF ToMark, TypeInv, TypeOK, RowTypes
<1>2. CASE SelectMarked
  BY <1>1, <1>2 DEF SelectMarked, ToMark, Answers, ZoneTypes
<1>3. ~MarkDirty
  <2> SUFFICES ASSUME MarkDirty PROVE row'[s].dirty
    OBVIOUS
  <2>1. row'[s] = [row[s] EXCEPT !.dirty = TRUE, !.seq = row[s].seq + 1]
    BY DEF MarkDirty, ToMark, Answers
  <2> QED BY <1>1, <2>1 DEF RowTypes
<1>4. CASE zone' = zone
  BY <1>4 DEF ToMark
<1> QED BY <1>1, <1>2, <1>3, <1>4, ZoneChange

LEMMA ExactStep ==
  ASSUME TypeInv, LocksHeld, Frozen, SnapshotsTrue, ExactOrMarked, [Next]_vars
  PROVE  ExactOrMarked'
<1> SUFFICES ASSUME NEW s \in Scopes, Answers(s)'
             PROVE  /\ DOMAIN version'[s] = roster'[s]
                    /\ \A e \in roster'[s] : version'[s][e] = hours'[e] \/ ToMark(s, e)'
  BY DEF ExactOrMarked
<1>1. row'[s].status = "approved" /\ ~row'[s].open /\ ~row'[s].dirty /\ sound'[s]
  BY DEF Answers
<1>2. Closed(s)'
  BY <1>1 DEF Closed
<1>3. ~Loosened(s) /\ ~HandedIn(s)
  BY <1>1, <1>2 DEF Loosened, HandedIn
<1>4. CASE Untouched(s)
  <2>1. /\ Answers(s) /\ Closed(s) /\ version'[s] = version[s] /\ roster'[s] = roster[s]
        /\ DOMAIN version[s] = roster[s] /\ roster[s] \subseteq Emps
    BY <1>1, <1>4 DEF Untouched, Answers, Closed, ExactOrMarked, TypeInv, TypeOK
  <2>2. ASSUME NEW e \in roster[s]
        PROVE  version[s][e] = hours'[e] \/ ToMark(s, e)'
    <3>1. edit[e] = None
      BY <2>1 DEF Frozen, Answers
    <3>2. ~CommitEdit(e)
      BY <3>1 DEF CommitEdit
    <3>3. Recalculate(e) => ToMark(s, e)'
      BY DEF Recalculate, ToMark
    <3>4. ToMark(s, e) => ToMark(s, e)'
      BY <1>1, <2>1, MarksArrive
    <3>5. version[s][e] = hours[e] \/ ToMark(s, e)
      BY <2>1 DEF ExactOrMarked
    <3> QED BY <2>1, <3>2, <3>3, <3>4, <3>5, HoursChange
  <2> QED BY <2>1, <2>2
<1>5. ASSUME NEW p \in Procs, NEW b \in Bodies, Left(p, s, b)
      PROVE  /\ DOMAIN version'[s] = roster'[s]
             /\ \A e \in roster'[s] : version'[s][e] = hours'[e]
  <2>1. /\ tx[p].pc = "hold" /\ Fixes(tx[p].kind) /\ version'[s] = b /\ hours' = hours
        /\ roster'[s] = DOMAIN b /\ DOMAIN b \subseteq tx[p].list /\ ~tx[p].raced
        /\ \A e \in DOMAIN b : e \in DOMAIN tx[p].body /\ b[e] = tx[p].body[e]
    BY <1>1, <1>5 DEF Left, ClosedBy
  <2>2. DOMAIN b \subseteq Emps
    BY BodyFacts
  <2> QED BY <2>1, <2>2 DEF SnapshotsTrue, Locking
<1>6. Outcome(s)
  BY StepOutcome
<1> QED BY <1>3, <1>4, <1>5, <1>6 DEF Outcome

(* ClosedIsExact: what 1C is given of an approved and closed timesheet are the
   present hours of its roster, or a rebuild has been marked or is about to be. *)
THEOREM ClosedTimesheetsAreExact == Spec => []ClosedIsExact
<1> DEFINE Inv == TypeInv /\ LocksHeld /\ Frozen /\ SnapshotsTrue /\ ExactOrMarked
<1>1. Init => Inv
  BY TypesInit, LocksInit, FrozenInit, SnapshotsInit, ExactInit
<1>2. Inv /\ [Next]_vars => Inv'
  BY TypesStep, LocksStep, FrozenStep, SnapshotsStep, ExactStep
<1>3. Inv => ClosedIsExact
  <2> SUFFICES ASSUME Inv, NEW s \in Scopes, Answers(s), zone.pc = "idle" \/ zone.emp \notin roster[s]
               PROVE  version[s] = [e \in roster[s] |-> hours[e]]
    BY DEF ClosedIsExact, Answers
  <2>1. version[s] = [e \in DOMAIN version[s] |-> version[s][e]]
    BY BodyFacts DEF TypeInv, TypeOK
  <2>2. DOMAIN version[s] = roster[s] /\ \A e \in roster[s] : version[s][e] = hours[e]
    BY DEF ExactOrMarked, ToMark
  <2> QED BY <2>1, <2>2
<1> QED BY <1>1, <1>2, <1>3, PTL DEF Spec

-----------------------------------------------------------------------------
(***************************************************************************)
(* No day is counted twice.                                                *)
(***************************************************************************)
(* A transaction that will fix a version knows which of the employees it locks
   have been counted in the other timesheet. *)
BusyKnown ==
  \A q \in Procs : \A s \in Scopes :
    Locking(q) /\ Fixes(tx[q].kind) /\ tx[q].scope = Other(s) /\ checked[s]
      => \A e \in tx[q].list : e \in Counted(s) => e \in tx[q].busy

LEMMA BusyInit == Init => BusyKnown
BY DEF Init, BusyKnown, Locking, IdleTx

(* The counted employees of a timesheet become more by its approval only. *)
LEMMA CountedChange ==
  ASSUME TypeInv, [Next]_vars, NEW s \in Scopes, checked'[s]
  PROVE  \/ checked[s] /\ Counted(s)' \subseteq Counted(s)
         \/ \E p \in Procs : /\ tx[p].pc = "hold" /\ tx[p].scope = s /\ Fixes(tx[p].kind)
                             /\ Counted(s)' \subseteq tx[p].list /\ Counted(s)' \cap tx[p].busy = {}
<1>1. Outcome(s)
  BY StepOutcome
<1>2. CASE Untouched(s) \/ Loosened(s) \/ HandedIn(s) \/ Reclosed(s)
  BY <1>2 DEF Untouched, Loosened, HandedIn, Reclosed, Counted
<1>3. ASSUME NEW p \in Procs, NEW b \in Bodies, ClosedBy(p, s, b), Approved(p, s)
      PROVE  /\ tx[p].pc = "hold" /\ tx[p].scope = s /\ Fixes(tx[p].kind)
             /\ Counted(s)' \subseteq tx[p].list /\ Counted(s)' \cap tx[p].busy = {}
  BY <1>3 DEF ClosedBy, Approved
<1> QED BY <1>1, <1>2, <1>3 DEF Outcome, Left

LEMMA BusyStep ==
  ASSUME TypeInv, LocksHeld, BusyKnown, [Next]_vars
  PROVE  BusyKnown'
<1> SUFFICES ASSUME NEW q \in Procs, NEW s \in Scopes, NEW e \in tx'[q].list,
                    Locking(q)', Fixes(tx'[q].kind), tx'[q].scope = Other(s), checked'[s], e \in Counted(s)'
             PROVE  e \in tx'[q].busy
  BY DEF BusyKnown, Fixes, Other
<1>1. CASE \E p \in Procs : Begin(p)
  <2>1. PICK p \in Procs : Begin(p)
    BY <1>1
  <2>2. /\ \A r \in Procs \ {p} : tx'[r] = tx[r]
        /\ tx'[p].kind = tx[p].kind /\ tx'[p].scope = tx[p].scope
        /\ Fixes(tx[p].kind) => tx'[p].busy = Counted(Other(tx[p].scope))
        /\ UNCHANGED <<row, version, checked>>
    BY <2>1, BeginFacts
  <2>3. Counted(s)' = Counted(s)
    BY <2>2 DEF Counted
  <2>4. CASE q = p
    BY <2>2, <2>3, <2>4, OtherScope
  <2>5. CASE q # p
    BY <2>2, <2>3, <2>5 DEF BusyKnown, Locking
  <2> QED BY <2>4, <2>5
<1>2. CASE \A p \in Procs : ~Begin(p)
  <2>1. Kept(q)
    BY <1>2, OnlyBeginLocks
  <2>2. /\ Locking(q) /\ e \in tx[q].list /\ tx'[q].busy = tx[q].busy
        /\ Fixes(tx[q].kind) /\ tx[q].scope = Other(s)
    BY <2>1 DEF Kept
  <2>3. CASE checked[s] /\ Counted(s)' \subseteq Counted(s)
    BY <2>2, <2>3 DEF BusyKnown
  <2>4. ASSUME NEW p \in Procs, tx[p].pc = "hold", tx[p].scope = s, Counted(s)' \subseteq tx[p].list
        PROVE  FALSE
    <3>1. Locking(p) /\ e \in tx[p].list /\ e \in Emps
      BY <2>4, WorkIsTyped DEF Locking
    <3>2. p = q
      BY <2>2, <3>1 DEF LocksHeld
    <3> QED BY <2>2, <2>4, <3>2, OtherScope
  <2> QED BY <2>3, <2>4, CountedChange
<1> QED BY <1>1, <1>2

LEMMA CountedOnceStep ==
  ASSUME TypeInv, LocksHeld, BusyKnown, CountedOnce, [Next]_vars
  PROVE  CountedOnce'
<1> SUFFICES ASSUME NEW e, \A s \in Scopes : checked'[s], e \in Counted("department")', e \in Counted("personal")'
             PROVE  FALSE
  BY DEF CountedOnce
<1> DEFINE By(p, s) == /\ tx[p].pc = "hold" /\ tx[p].scope = s /\ Fixes(tx[p].kind)
                       /\ e \in tx[p].list /\ e \notin tx[p].busy
<1>1. ASSUME NEW s \in Scopes, e \in Counted(s)'
      PROVE  (checked[s] /\ e \in Counted(s)) \/ \E p \in Procs : By(p, s)
  BY <1>1, CountedChange
<1>2. ASSUME NEW p \in Procs, NEW s \in Scopes, By(p, s)
      PROVE  ~(checked[Other(s)] /\ e \in Counted(Other(s)))
  BY <1>2, OtherScope DEF BusyKnown, Locking
<1>3. ASSUME NEW p \in Procs, NEW q \in Procs, By(p, "department"), By(q, "personal")
      PROVE  FALSE
  <2>1. e \in Emps /\ p = q
    BY <1>3, WorkIsTyped DEF LocksHeld, Locking
  <2> QED BY <1>3, <2>1
<1>4. /\ "department" \in Scopes /\ "personal" \in Scopes
      /\ Other("department") = "personal" /\ Other("personal") = "department"
  BY DEF Scopes, Other
<1>5. ~(checked["department"] /\ checked["personal"] /\ e \in Counted("department") /\ e \in Counted("personal"))
  BY <1>4 DEF CountedOnce, Scopes
<1> HIDE DEF By
<1>6. (checked["department"] /\ e \in Counted("department")) \/ \E p \in Procs : By(p, "department")
  BY <1>1, <1>4
<1>7. (checked["personal"] /\ e \in Counted("personal")) \/ \E p \in Procs : By(p, "personal")
  BY <1>1, <1>4
<1>8. ASSUME NEW p \in Procs, By(p, "department") PROVE ~(checked["personal"] /\ e \in Counted("personal"))
  BY <1>2, <1>4, <1>8
<1>9. ASSUME NEW p \in Procs, By(p, "personal") PROVE ~(checked["department"] /\ e \in Counted("department"))
  BY <1>2, <1>4, <1>9
<1> QED BY <1>3, <1>5, <1>6, <1>7, <1>8, <1>9

LEMMA CountedOnceInit == Init => CountedOnce
BY DEF Init, CountedOnce, Counted, Scopes

(* CountedOnce: two timesheets approved at the same moment do not both pay a day. *)
THEOREM DaysAreCountedOnce == Spec => []CountedOnce
<1> DEFINE Inv == TypeInv /\ LocksHeld /\ BusyKnown /\ CountedOnce
<1>1. Init => Inv
  BY TypesInit, LocksInit, BusyInit, CountedOnceInit
<1>2. Inv /\ [Next]_vars => Inv'
  BY TypesStep, LocksStep, BusyStep, CountedOnceStep
<1>3. Inv => CountedOnce
  OBVIOUS
<1> QED BY <1>1, <1>2, <1>3, PTL DEF Spec
=============================================================================
