---------------------------- MODULE MCVoiceTurn ----------------------------
(* Instances of VoiceTurn for TLC. *)
EXTENDS VoiceTurn

\* The number the turn service waits for went with a failed send.
Gap ==
    /\ deliver.by = "nobody" /\ applied < stream.seq
    /\ applied + 1 \notin {f.seq : f \in held \cup queue}

\* The stream is longer than ShortSeq events only while a frame is held, or after a
\* loss until the reorder buffer is full; no fairness is assumed of the provider.
ShortSeq == 4
LongWhereItMatters ==
    stream'.seq <= ShortSeq \/ stream'.seq = stream.seq \/ held # {} \/ (trouble > 0 /\ Gap)
=============================================================================
