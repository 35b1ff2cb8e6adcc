----------------------------- MODULE Employment -----------------------------
(***************************************************************************)
(* What the life-cycle operations promise for one employee, with Sigur,    *)
(* leases and executors left out.  A dismissal or a reinstatement that has *)
(* begun ends in exactly one way, and nothing moves the revision until     *)
(* then.  A repair of the card may also be dropped: a scheduled dismissal  *)
(* may still be planned or withdrawn beside it.                            *)
(***************************************************************************)
EXTENDS Naturals

VARIABLES state, revision

States == {"active", "dismissing", "fired", "rehiring", "repairing"}

Init == state = "active" /\ revision = 0

\* A change of state that has been asked for, at the revision it was asked at.
Begin(from, to) == state = from /\ state' = to /\ UNCHANGED revision

\* A change of state that has been applied: the revision counts it.
End(from, to) == state = from /\ state' = to /\ revision' = revision + 1

\* Scheduling a dismissal for later, or withdrawing it.
Plan ==
  /\ state \in {"active", "repairing"}
  /\ revision' = revision + 1
  /\ UNCHANGED state

Next ==
  \/ Begin("active", "dismissing") \/ End("dismissing", "fired")
  \/ Begin("fired", "rehiring") \/ End("rehiring", "active")
  \/ Begin("active", "repairing") \/ End("repairing", "active")
  \/ Begin("repairing", "active")
  \/ Plan

Spec == Init /\ [][Next]_<<state, revision>>
=============================================================================
