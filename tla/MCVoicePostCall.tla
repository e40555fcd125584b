-------------------------- MODULE MCVoicePostCall --------------------------
(* What is left to do after a call: its memories (VoiceMemoryJob), and its    *)
(* summary and the message that comes back to it (VoiceFollowup).  The two    *)
(* share no variable here, so a behaviour of the pair is checked as one of    *)
(* either; before its call has ended neither has anything to do.              *)
EXTENDS VoiceMemoryJob, VoiceFollowup

CONSTANTS c1, w1, w2, s1, d1, d2

OneCall == [j \in Jobs |-> c1]

VARIABLE part

postVars == <<vars, followVars, part>>

PostInit ==
    /\ Init /\ FollowInit /\ part \in {"memory", "followup"}
    /\ part = "memory" => window

PostNext ==
    \/ part = "memory" /\ Next /\ UNCHANGED <<followVars, part>>
    \/ part = "followup" /\ FollowNext /\ UNCHANGED <<vars, part>>

PostSpec == PostInit /\ [][PostNext]_postVars /\ Fairness /\ FollowFairness
=============================================================================
