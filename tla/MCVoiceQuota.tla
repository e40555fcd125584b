---------------------------- MODULE MCVoiceQuota ----------------------------
(* Instances of VoiceQuota for TLC. *)
EXTENDS VoiceQuota, TLC

CONSTANTS c1, c2

Symmetric == Permutations(Calls)

\* One call runs over two midnights, with the microphone switched up to shortly before
\* the second; another one joins only up to the first midnight and without the switch.
TwoCallsAreShort ==
    /\ now' + 2 <= 2 * DayLen \/ \A c \in Calls : ~meter'[c].muted
    /\ \/ Cardinality({c \in Calls : status'[c] # "none"}) <= 1
       \/ now' <= DayLen /\ \A c \in Calls : ~meter'[c].muted
=============================================================================
