-------------------------- MODULE MCVoiceMemoryJob --------------------------
(* Instances of VoiceMemoryJob for TLC. *)
EXTENDS VoiceMemoryJob, TLC

CONSTANTS c1, c2, w1, w2

OneCall == [j \in Jobs |-> c1]
TwoCalls == [j \in Jobs |-> IF j = 1 THEN c1 ELSE c2]
Symmetric == Permutations(Workers)
=============================================================================
