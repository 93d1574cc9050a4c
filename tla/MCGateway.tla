----------------------------- MODULE MCGateway -----------------------------
(* Instances of Gateway for TLC. *)
EXTENDS Gateway, TLC

CONSTANTS c1, m1, k1, s1, r1, r2

Slots == Permutations(Requests)
=============================================================================
