-------------------------- MODULE MCAlertDelivery --------------------------
(***************************************************************************)
(* AlertDelivery for TLC: users, sessions and alerts are interchangeable.  *)
(***************************************************************************)
EXTENDS AlertDelivery, TLC

Symmetry == Permutations(Users) \cup Permutations(Sessions) \cup Permutations(Alerts)
=============================================================================
