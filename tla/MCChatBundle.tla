---------------------------- MODULE MCChatBundle ----------------------------
(* Instances of ChatBundle for TLC. *)
EXTENDS ChatBundle, TLC

CONSTANTS p1, p2, r1, r2, r3, n1, n2, n3

Symmetric == Permutations(Procs) \cup Permutations(Requests) \cup Permutations(Runs)
=============================================================================
