--------------------------- MODULE MCAllocators ---------------------------
(* The two components that give out something scarce under contention: slots  *)
(* for calls (VoiceLease) and numbers of a timeline (TimelineSeq).  They share *)
(* no variable, so a behaviour of the pair is checked as one of either.  Three *)
(* users compete for two slots, one of them with two calls, so that a finished *)
(* and a newer call are both about; three writers compete for the row.         *)
EXTENDS VoiceLease, TimelineSeq, TLC

CONSTANTS u1, u2, u3, c1, c2, c3, c4, w1, w2, w3, chat, agent

MCUsers == {u1, u2, u3}
MCCalls == {c1, c2, c3, c4}
MCUserOf == (c1 :> u1) @@ (c2 :> u1) @@ (c3 :> u2) @@ (c4 :> u3)

VARIABLE part

Symmetric == Permutations(Writers) \cup Permutations(Sources)

Init == LeaseInit /\ SeqInit /\ part \in {"lease", "timeline"}

Next ==
    \/ part = "lease" /\ LeaseNext /\ UNCHANGED <<seqVars, part>>
    \/ part = "timeline" /\ SeqNext /\ UNCHANGED <<leaseVars, part>>

Spec == Init /\ [][Next]_<<leaseVars, seqVars, part>>
=============================================================================
