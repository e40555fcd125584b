-------------------------- MODULE MCVoiceLifecycle --------------------------
(* Instances of VoiceLifecycle for TLC. *)
EXTENDS VoiceLifecycle, TLC

CONSTANTS u1, c1, c2, p1, p2, h1, k1, k2

OwnedByOne == [c \in Calls |-> u1]

\* Redialling is about the creation of the second call, which stops at its row,
\* and about the status and the keys of the first, not about its bill:
\* no step is taken from a state in which a metered second has been observed.
OnlyFirstCallStreams == sess[c2].run = "none" /\ meter[c1] = 0

\* Requests reach p1 and the reconciler runs in p2: nobody who ends a call for its
\* owner can reach the owner's handle.  Creating and streaming are promised by no
\* fairness, and the reconciler's can be met in p2 whenever it can in p1.
ServedAndReconciledApart ==
    /\ \A c \in Calls : sess[c].home # p2
    /\ \A u \in Users : UserLocked(u) => creating[u].proc # p2
    /\ fin[Reconciler].home # p1

Symmetric == Permutations(Procs) \cup Permutations(Keys)
=============================================================================
