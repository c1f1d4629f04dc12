-------------------------- MODULE MCAuthenticator --------------------------
(***************************************************************************)
(* Authenticator for TLC: sessions and users are interchangeable.          *)
(***************************************************************************)
EXTENDS Authenticator, TLC

Symmetry == Permutations(Users) \cup Permutations(Sessions)
=============================================================================
