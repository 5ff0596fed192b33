---------------------------- MODULE MCRequests ----------------------------
(* Small instances of Requests for TLC. *)
EXTENDS Requests, TLC

CONSTANTS r1, r2, r3, s1, s2

CallSymmetry == Permutations(Call) \cup Permutations(Selector)
=============================================================================
