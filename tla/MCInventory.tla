----------------------------- MODULE MCInventory ----------------------------
(* A small instance of Inventory: two sessions of different clients.       *)
EXTENDS Inventory, TLC

CONSTANTS s1, s2, wA, wB, meat, water

TwoClients == s1 :> wA @@ s2 :> wB
SomeQuantities == {-1, 0, 1}
=============================================================================
