------------------------ MODULE VoiceLifecycle_proofs ------------------------
(***************************************************************************)
(* The lease scripts first.  KeysAgree carries them: the scripts check one *)
(* key each, and only because the three keys agree does that check protect *)
(* the other two.                                                          *)
(*                                                                         *)
(* The composed system for every number of users, calls, keys, processes,  *)
(* handlers and faults.  Every step is described once, by what it does to  *)
(* the layers below it: the leases (a step of VoiceLease or none), the     *)
(* rows (RowStep, or the insert of create) and admission.  Types, the      *)
(* implementation of the lease specification and the invariants of one     *)
(* call per user and of the ledger follow from that description.           *)
(*                                                                         *)
(* Then the layers above: what a row may still become while a session, a   *)
(* meter or a finalizer holds what it read of it (AgreedInv), from which   *)
(* come the final status, the metering, the handles, the strict hang-up,   *)
(* the single session of a ticket and the promise of a call.               *)
(***************************************************************************)
EXTENDS VoiceLifecycle, FiniteSetTheorems, TLAPS

-----------------------------------------------------------------------------
(* The leases. *)

LeaseInv == LeaseTypeOK /\ KeysAgree

\* Every script, and the passing of time, keeps the variables in their types.
LEMMA TypeStep ==
    ASSUME LeaseTypeOK, [LeaseNext]_leaseVars
    PROVE  LeaseTypeOK'
<1> USE LeaseAssumption DEF LeaseTypeOK, Live, Expired
<1>1. ASSUME NEW c \in Calls, AcquireRefused(c)
      PROVE  LeaseTypeOK'
  BY <1>1 DEF AcquireRefused
<1>2. ASSUME NEW c \in Calls, NEW ttl \in Ttls, AcquireGranted(c, ttl)
      PROVE  LeaseTypeOK'
  BY <1>2 DEF AcquireGranted
<1>3. ASSUME NEW c \in Calls, NEW ttl \in Ttls, Renew(c, ttl)
      PROVE  LeaseTypeOK'
  BY <1>3 DEF Renew
<1>4. ASSUME NEW c \in Calls, Release(c)
      PROVE  LeaseTypeOK'
  BY <1>4 DEF Release
<1>5. ASSUME NEW u \in Users, NEW ticks \in 0..CooldownTicks, Cooldown(u, ticks)
      PROVE  LeaseTypeOK'
  BY <1>5 DEF Cooldown
<1>6. CASE PruneExpired
  BY <1>6 DEF PruneExpired
<1>7. CASE LeaseTick
  BY <1>7 DEF LeaseTick
<1>8. CASE UNCHANGED leaseVars
  BY <1>8 DEF leaseVars
<1>9. QED
  BY <1>1, <1>2, <1>3, <1>4, <1>5, <1>6, <1>7, <1>8 DEF LeaseNext

\* No script lets the keys disagree.
LEMMA AgreementStep ==
    ASSUME LeaseInv, [LeaseNext]_leaseVars
    PROVE  KeysAgree'
<1> USE LeaseAssumption DEF LeaseInv, LeaseTypeOK, KeysAgree, Live, Expired
<1>1. ASSUME NEW c \in Calls, AcquireRefused(c)
      PROVE  KeysAgree'
  BY <1>1 DEF AcquireRefused
<1>2. ASSUME NEW c \in Calls, NEW ttl \in Ttls, AcquireGranted(c, ttl)
      PROVE  KeysAgree'
  <2>1. userKey[UserOf[c]] \in {NoCall, c}
    BY <1>2 DEF AcquireGranted, AcquireVerdict
  <2> QED
    BY <1>2, <2>1 DEF AcquireGranted
<1>3. ASSUME NEW c \in Calls, NEW ttl \in Ttls, Renew(c, ttl)
      PROVE  KeysAgree'
  BY <1>3 DEF Renew, RenewSucceeds
<1>4. ASSUME NEW c \in Calls, Release(c)
      PROVE  KeysAgree'
  BY <1>4 DEF Release
<1>5. ASSUME NEW u \in Users, NEW ticks \in 0..CooldownTicks, Cooldown(u, ticks)
      PROVE  KeysAgree'
  BY <1>5 DEF Cooldown
<1>6. CASE PruneExpired
  BY <1>6 DEF PruneExpired
<1>7. CASE LeaseTick
  BY <1>7 DEF LeaseTick
<1>8. CASE UNCHANGED leaseVars
  BY <1>8 DEF leaseVars
<1>9. QED
  BY <1>1, <1>2, <1>3, <1>4, <1>5, <1>6, <1>7, <1>8 DEF LeaseNext

\* Type correctness and the agreement of the three keys (ACQUIRE, RENEW,
\* RELEASE, PRUNE_EXPIRED and expiry) are invariants.
THEOREM KeysAlwaysAgree == LeaseSpec => [](LeaseTypeOK /\ KeysAgree)
<1>1. LeaseInit => LeaseInv
  BY LeaseAssumption DEF LeaseInit, LeaseInv, LeaseTypeOK, KeysAgree
<1>2. LeaseInv /\ [LeaseNext]_leaseVars => LeaseInv'
  BY TypeStep, AgreementStep DEF LeaseInv
<1>3. LeaseInv <=> LeaseTypeOK /\ KeysAgree
  BY DEF LeaseInv
<1>4. QED
  BY <1>1, <1>2, <1>3, PTL DEF LeaseSpec

\* A user has at most one unexpired lease: it holds the user's one key.
THEOREM OneLease == LeaseSpec => []OneLeasePerUser
<1>1. KeysAgree => OneLeasePerUser
  BY DEF KeysAgree, OneLeasePerUser, Live
<1>2. QED
  BY <1>1, KeysAlwaysAgree, PTL

\* No script hands a user's key from one call to another: the repeated cleanup
\* of an old call cannot take a newer call's lease.
THEOREM NoStealing == LeaseSpec => NoLeaseStealing
<1>1. LeaseInv /\ [LeaseNext]_leaseVars =>
        [\A u \in Users :
            userKey[u] \notin {NoCall, userKey'[u]} =>
                /\ userKey'[u] = NoCall
                /\ userKey[u] \notin Live']_leaseVars
  <2> SUFFICES ASSUME LeaseInv, LeaseNext, NEW u \in Users,
                      userKey[u] \notin {NoCall, userKey'[u]}
               PROVE  userKey'[u] = NoCall /\ userKey[u] \notin Live'
    OBVIOUS
  <2> USE LeaseAssumption DEF LeaseInv, LeaseTypeOK, KeysAgree, Live, Expired
  <2>1. ASSUME NEW c \in Calls, AcquireRefused(c)
        PROVE  FALSE
    BY <2>1 DEF AcquireRefused
  <2>2. ASSUME NEW c \in Calls, NEW ttl \in Ttls, AcquireGranted(c, ttl)
        PROVE  FALSE
    BY <2>2 DEF AcquireGranted, AcquireVerdict
  <2>3. ASSUME NEW c \in Calls, NEW ttl \in Ttls, Renew(c, ttl)
        PROVE  FALSE
    BY <2>3 DEF Renew
  <2>4. ASSUME NEW c \in Calls, Release(c)
        PROVE  userKey'[u] = NoCall /\ userKey[u] \notin Live'
    BY <2>4 DEF Release
  <2>5. ASSUME NEW v \in Users, NEW ticks \in 0..CooldownTicks, Cooldown(v, ticks)
        PROVE  FALSE
    BY <2>5 DEF Cooldown
  <2>6. CASE PruneExpired
    BY <2>6 DEF PruneExpired
  <2>7. CASE LeaseTick
    BY <2>7 DEF LeaseTick
  <2>8. QED
    BY <2>1, <2>2, <2>3, <2>4, <2>5, <2>6, <2>7 DEF LeaseNext
<1>2. LeaseSpec => []LeaseInv
  BY KeysAlwaysAgree DEF LeaseInv
<1>3. QED
  BY <1>1, <1>2, PTL DEF LeaseSpec, NoLeaseStealing

\* What is live is finite, so that its size can be compared.
LEMMA LiveIsFinite ==
    ASSUME LeaseTypeOK
    PROVE  IsFiniteSet(Live) /\ Cardinality(Live) \in Nat
<1>1. Live \subseteq Calls
  BY DEF LeaseTypeOK, Live
<1>2. QED
  BY <1>1, LeaseAssumption, FS_Subset, FS_CardinalityType

\* No step takes one lease more than concurrency.global_limit.
LEMMA CapacityStep ==
    ASSUME LeaseInv, CapacityRespected, [LeaseNext]_leaseVars
    PROVE  CapacityRespected'
<1> USE LeaseAssumption DEF LeaseInv
<1>1. IsFiniteSet(Live) /\ Cardinality(Live) \in Nat
  BY LiveIsFinite
<1>2. ASSUME Live' \subseteq Live
      PROVE  CapacityRespected'
  <2>1. Cardinality(Live') \in Nat /\ Cardinality(Live') <= Cardinality(Live)
    BY <1>1, <1>2, FS_Subset, FS_CardinalityType
  <2>2. QED
    BY <1>1, <2>1 DEF CapacityRespected
<1>3. ASSUME NEW c \in Calls, NEW ttl \in Ttls, AcquireGranted(c, ttl)
      PROVE  CapacityRespected'
  <2>1. Live' = Live \cup {c}
    BY <1>3 DEF AcquireGranted, Live, LeaseTypeOK
  <2>2. CASE c \in Live
    BY <1>2, <2>1, <2>2
  <2>3. CASE c \notin Live
    <3>1. userKey[UserOf[c]] = NoCall
      BY <1>3, <2>3 DEF AcquireGranted, AcquireVerdict, KeysAgree, Live, LeaseTypeOK
    <3>2. ~(Cardinality(Live) >= Capacity)
      BY <1>3, <3>1 DEF AcquireGranted, AcquireVerdict
    <3>3. Cardinality(Live') = Cardinality(Live) + 1
      BY <1>1, <2>1, <2>3, FS_AddElement
    <3>4. QED
      BY <1>1, <3>2, <3>3 DEF CapacityRespected
  <2>4. QED
    BY <2>2, <2>3
<1> USE DEF LeaseTypeOK, Live
<1>4. ASSUME NEW c \in Calls, AcquireRefused(c)
      PROVE  Live' \subseteq Live
  BY <1>4 DEF AcquireRefused
<1>5. ASSUME NEW c \in Calls, NEW ttl \in Ttls, Renew(c, ttl)
      PROVE  Live' \subseteq Live
  BY <1>5 DEF Renew, RenewSucceeds
<1>6. ASSUME NEW c \in Calls, Release(c)
      PROVE  Live' \subseteq Live
  BY <1>6 DEF Release
<1>7. ASSUME NEW u \in Users, NEW ticks \in 0..CooldownTicks, Cooldown(u, ticks)
      PROVE  Live' \subseteq Live
  BY <1>7 DEF Cooldown
<1>8. ASSUME PruneExpired
      PROVE  Live' \subseteq Live
  BY <1>8 DEF PruneExpired
<1>9. ASSUME LeaseTick
      PROVE  Live' \subseteq Live
  BY <1>9 DEF LeaseTick
<1>10. ASSUME UNCHANGED leaseVars
       PROVE  Live' \subseteq Live
  BY <1>10 DEF leaseVars
<1>11. QED
  BY <1>2, <1>3, <1>4, <1>5, <1>6, <1>7, <1>8, <1>9, <1>10 DEF LeaseNext

\* ACQUIRE's count bounds the unexpired leases of all users together.
THEOREM CapacityKept == LeaseSpec => []CapacityRespected
<1>1. LeaseInit => CapacityRespected
  <2>1. LeaseInit => Live = {}
    BY DEF LeaseInit, Live
  <2>2. QED
    BY <2>1, FS_EmptySet, LeaseAssumption DEF CapacityRespected
<1>2. LeaseInv /\ CapacityRespected /\ [LeaseNext]_leaseVars => CapacityRespected'
  BY CapacityStep
<1>3. LeaseSpec => []LeaseInv
  BY KeysAlwaysAgree DEF LeaseInv
<1>4. QED
  BY <1>1, <1>2, <1>3, PTL DEF LeaseSpec

-----------------------------------------------------------------------------
(* The rows. *)

RowStep ==
    \/ \E c \in Calls, expected \in SUBSET ACTIVE,
          target \in {"none"} \cup ACTIVE \cup TERMINAL : transition_call(c, expected, target)
    \/ \E c \in Calls, reason \in Reasons : stage_final_state(c, reason)
    \/ RowTick
    \/ UNCHANGED rowVars

\* transition_call and stage_final_state only write statuses of the table.
LEMMA RowTypes ==
    ASSUME StateTypeOK, RowStep
    PROVE  StateTypeOK'
<1> USE StateAssumption DEF StateTypeOK
<1>1. ASSUME NEW c \in Calls, NEW expected \in SUBSET ACTIVE,
             NEW target \in {"none"} \cup ACTIVE \cup TERMINAL,
             transition_call(c, expected, target)
      PROVE  StateTypeOK'
  BY <1>1 DEF transition_call
<1>2. ASSUME NEW c \in Calls, NEW reason \in Reasons, stage_final_state(c, reason)
      PROVE  StateTypeOK'
  BY <1>2 DEF stage_final_state, final_status, TERMINAL
<1>3. CASE RowTick
  BY <1>3 DEF RowTick
<1>4. CASE UNCHANGED rowVars
  BY <1>4 DEF rowVars
<1>5. QED
  BY <1>1, <1>2, <1>3, <1>4 DEF RowStep

-----------------------------------------------------------------------------
(* The leases. *)

\* COOLDOWN for a call that ended longer ago than the window writes nothing.
LEMMA CooldownStep ==
    ASSUME LeaseTypeOK, NEW u \in Users, NEW n \in Nat, Cooldown(u, n)
    PROVE  [LeaseNext]_leaseVars
<1>1. CASE n \in 0..CooldownTicks
  BY <1>1 DEF LeaseNext
<1>2. CASE n \notin 0..CooldownTicks
  <2>1. ~(CooldownTicks - n > 0)
    BY <1>2, LeaseAssumption
  <2>2. QED
    BY <2>1 DEF Cooldown, leaseVars
<1>3. QED
  BY <1>1, <1>2

-----------------------------------------------------------------------------
(* Admission. *)

AdmissionStep ==
    \/ \E u \in Users :
          \/ \E k \in Keys, p \in Procs : CreateChecks(u, k, p)
          \/ \E c \in Calls, ttl \in Ttls : CreateLeases(u, c, ttl)
          \/ \E c \in Calls : CreateRefused(u, c)
          \/ CreateRejected(u) \/ CreateCommits(u) \/ CreateRollsBack(u)
          \/ CreateAbandons(u) \/ CreateCommitAnswerLost(u)
          \/ \E k \in Keys : ReplayExpires(u, k)
    \/ \E c \in Calls : TicketExpires(c) \/ ConsumeTicket(c)

\* What a create transaction carries from its checks to its insert.
LEMMA Carried ==
    ASSUME AdmissionTypeOK, NEW u \in Users
    PROVE  /\ creating[u].phase = "checked" =>
                creating[u].key \in Keys /\ creating[u].proc \in Procs
           /\ creating[u].phase = "leased" =>
                /\ creating[u].call \in Calls
                /\ creating[u].key \in Keys
                /\ creating[u].proc \in Procs
  BY DEF AdmissionTypeOK, Creation, Idle

\* create, consume_voice_ticket and the expiries run the lease scripts only.
LEMMA AdmissionLeases ==
    ASSUME AdmissionTypeOK, AdmissionStep
    PROVE  [LeaseNext]_leaseVars
<1>1. ASSUME NEW u \in Users, NEW c \in Calls, NEW ttl \in Ttls, CreateLeases(u, c, ttl)
      PROVE  LeaseNext
  BY <1>1 DEF CreateLeases, LeaseNext
<1>2. ASSUME NEW u \in Users, NEW c \in Calls, CreateRefused(u, c)
      PROVE  LeaseNext
  BY <1>2 DEF CreateRefused, LeaseNext
<1>3. ASSUME NEW u \in Users, CreateRollsBack(u) \/ CreateCommitAnswerLost(u)
      PROVE  LeaseNext
  BY <1>3, Carried DEF CreateRollsBack, CreateCommitAnswerLost, LeaseNext
<1>4. QED
  BY <1>1, <1>2, <1>3
  DEF AdmissionStep, CreateChecks, CreateRejected, CreateCommits, CreateAbandons,
      ReplayExpires, TicketExpires, ConsumeTicket

\* They insert a row as "deciding" or leave the rows alone.
LEMMA AdmissionRows ==
    ASSUME AdmissionTypeOK, AdmissionStep
    PROVE  \/ UNCHANGED rowVars
           \/ \E u \in Users : creating[u].phase = "leased" /\ InsertCall(u)
<1>1. ASSUME NEW u \in Users, CreateCommits(u) \/ CreateCommitAnswerLost(u)
      PROVE  creating[u].phase = "leased" /\ InsertCall(u)
  BY <1>1 DEF CreateCommits, CreateCommitAnswerLost
<1>2. QED
  BY <1>1
  DEF AdmissionStep, CreateChecks, CreateLeases, CreateRefused, CreateRejected,
      CreateRollsBack, CreateAbandons, ReplayExpires, TicketExpires, ConsumeTicket, rowVars

\* Admission keeps the rows and its own variables in their types.
LEMMA AdmissionTypes ==
    ASSUME StateTypeOK, AdmissionTypeOK, AdmissionStep
    PROVE  StateTypeOK' /\ AdmissionTypeOK'
<1>1. StateTypeOK'
  <2>1. CASE UNCHANGED rowVars
    BY <2>1, RowTypes DEF RowStep
  <2>2. ASSUME NEW u \in Users, creating[u].phase = "leased", InsertCall(u)
        PROVE  StateTypeOK'
    BY <2>2, Carried DEF InsertCall, StateTypeOK, ACTIVE
  <2>3. QED
    BY <2>1, <2>2, AdmissionRows
<1>2. AdmissionTypeOK'
  <2> USE DEF AdmissionTypeOK
  <2>1. ASSUME NEW u \in Users, NEW k \in Keys, NEW p \in Procs, CreateChecks(u, k, p)
        PROVE  AdmissionTypeOK'
    BY <2>1 DEF CreateChecks, Creation
  <2>2. ASSUME NEW u \in Users, NEW c \in Calls, NEW ttl \in Ttls, CreateLeases(u, c, ttl)
        PROVE  AdmissionTypeOK'
    BY <2>2, Carried DEF CreateLeases, Creation
  <2>3. ASSUME NEW u \in Users, NEW c \in Calls, CreateRefused(u, c)
        PROVE  AdmissionTypeOK'
    BY <2>3 DEF CreateRefused
  <2>4. ASSUME NEW u \in Users,
               CreateRejected(u) \/ CreateAbandons(u) \/ CreateRollsBack(u)
        PROVE  AdmissionTypeOK'
    BY <2>4 DEF CreateRejected, CreateAbandons, CreateRollsBack
  <2>5. ASSUME NEW u \in Users, CreateCommits(u) \/ CreateCommitAnswerLost(u)
        PROVE  AdmissionTypeOK'
    BY <2>5, Carried DEF CreateCommits, CreateCommitAnswerLost, InsertCall
  <2>6. ASSUME NEW u \in Users, NEW k \in Keys, ReplayExpires(u, k)
        PROVE  AdmissionTypeOK'
    BY <2>6 DEF ReplayExpires
  <2>7. ASSUME NEW c \in Calls, TicketExpires(c) \/ ConsumeTicket(c)
        PROVE  AdmissionTypeOK'
    BY <2>7 DEF TicketExpires, ConsumeTicket
  <2>8. QED
    BY <2>1, <2>2, <2>3, <2>4, <2>5, <2>6, <2>7 DEF AdmissionStep
<1>3. QED
  BY <1>1, <1>2

-----------------------------------------------------------------------------
(* Sessions, finalizers, meters. *)

LifeTypeOK ==
    /\ sess \in [Calls -> Session]
    /\ fin \in [Actors -> Finalizer]
    /\ registry \in [Procs -> SUBSET Calls]
    /\ talk \in [Calls -> 0..HardLimit]
    /\ metering \in [Calls -> BOOLEAN]
    /\ meter \in [Calls -> 0..HardLimit]
    /\ ckpt \in [Calls -> {NoCkpt} \cup 0..HardLimit]
    /\ billed \in [Calls -> 0..HardLimit]
    /\ faults \in 0..MaxFaults

\* What every step of a session, a finalizer, reconcile or the clock does to
\* the layers below.
LifeStep ==
    /\ [LeaseNext]_leaseVars
    /\ RowStep
    /\ UNCHANGED admissionVars
    /\ LifeTypeOK'

\* A fault counts one, within its bound.
LEMMA FaultCounts ==
    ASSUME LifeTypeOK, Fault
    PROVE  faults' \in 0..MaxFaults
  BY LifecycleAssumption DEF LifeTypeOK, Fault

\* The audio of a session is stopped, then one of its tasks moves on: still a
\* session.
LEMMA Stopped ==
    ASSUME NEW s \in Session
    PROVE  /\ StoppedSession(s) \in Session
           /\ [StoppedSession(s) EXCEPT !.lc = "done"] \in Session
           /\ [StoppedSession(s) EXCEPT !.hb = "idle"] \in Session
<1>1. StoppedSession(s) \in Session
  BY DEF Session, StoppedSession
<1>2. ASSUME NEW t \in Session
      PROVE  [t EXCEPT !.lc = "done"] \in Session /\ [t EXCEPT !.hb = "idle"] \in Session
  BY DEF Session, Stages, Beats
<1>3. QED
  BY <1>1, <1>2

\* An observation, a stop and a checkpoint keep the meters in range.
LEMMA Metered ==
    ASSUME LifeTypeOK, NEW c \in Calls
    PROVE  /\ \A b \in BOOLEAN : Observe(c, b) =>
                /\ meter' \in [Calls -> 0..HardLimit] /\ metering' \in [Calls -> BOOLEAN]
                /\ talk' = talk /\ billed' = billed
           /\ StopLocal(c) =>
                /\ meter' \in [Calls -> 0..HardLimit] /\ metering' \in [Calls -> BOOLEAN]
                /\ talk' = talk /\ billed' = billed
           /\ \A n \in 0..HardLimit :
                Checkpointed(c, n) \in [Calls -> {NoCkpt} \cup 0..HardLimit]
  BY StateAssumption DEF LifeTypeOK, Observe, StopLocal, Checkpointed, NoCkpt

\* The lifecycle task.
LEMMA LifecycleStep ==
    ASSUME TypeOK, NEW c \in Calls, Lifecycle(c) \/ Lose(c)
    PROVE  LifeStep
<1>1. LifeTypeOK /\ sess[c] \in Session
  BY DEF TypeOK, LifeTypeOK
<1>2. ASSUME NEW answer \in {"ringing", "missed"}, Decide(c, answer)
      PROVE  LifeStep
  BY <1>1, <1>2 DEF Decide, LifeStep, LifeTypeOK, RowStep, Session, Stages, meterVars
<1>3. ASSUME NEW verdict \in {"connected", "failed"}, Gate(c, verdict)
      PROVE  LifeStep
  BY <1>1, <1>3 DEF Gate, LifeStep, LifeTypeOK, RowStep, Session, Stages, meterVars
<1>4. CASE DecideCommits(c)
  <2>1. RowStep
    BY <1>1, <1>4 DEF DecideCommits, RowStep, Session, ACTIVE, TERMINAL
  <2>2. QED
    BY <1>1, <1>4, <2>1 DEF DecideCommits, LifeStep, LifeTypeOK, Session, Stages, meterVars
<1>5. CASE GateCommits(c)
  <2>1. RowStep
    BY <1>1, <1>5 DEF GateCommits, RowStep, Session, ACTIVE, TERMINAL
  <2>2. QED
    BY <1>1, <1>5, <2>1 DEF GateCommits, LifeStep, LifeTypeOK, Session, Stages, meterVars
<1>6. CASE StartMeter(c)
  <2>1. sess' \in [Calls -> Session]
    <3>1. [sess[c] EXCEPT !.lc = "done"] \in Session
          /\ [sess[c] EXCEPT !.lc = "metered"] \in Session
      BY <1>1 DEF Session, Stages
    <3>2. QED
      BY <1>1, <1>6, <3>1 DEF StartMeter, LifeTypeOK
  <2>2. QED
    BY <1>1, <1>6, <2>1, Metered DEF StartMeter, LifeStep, LifeTypeOK, RowStep
<1>7. CASE FirstCheckpoint(c)
  <2>1. sess' \in [Calls -> Session]
    BY <1>1, <1>7 DEF FirstCheckpoint, LifeTypeOK, Session, Stages
  <2>2. QED
    BY <1>1, <1>7, <2>1, Metered DEF FirstCheckpoint, LifeStep, LifeTypeOK, RowStep
<1>8. CASE LoseCommits(c)
  <2>1. RowStep
    BY <1>8 DEF LoseCommits, RowStep, ACTIVE
  <2>2. QED
    BY <1>1, <1>8, <2>1 DEF LoseCommits, LifeStep, LifeTypeOK, Session, Stages, meterVars
<1>9. CASE RestoreCommits(c)
  <2>1. RowStep
    BY <1>9 DEF RestoreCommits, RowStep, ACTIVE
  <2>2. QED
    BY <1>1, <1>9, <2>1 DEF RestoreCommits, LifeStep, LifeTypeOK, Session, Stages, meterVars
<1>10. CASE RestoreObserves(c)
  <2>1. sess' \in [Calls -> Session]
    BY <1>1, <1>10 DEF RestoreObserves, LifeTypeOK, Session, Stages
  <2>2. QED
    BY <1>1, <1>10, <2>1, Metered DEF RestoreObserves, LifeStep, LifeTypeOK, RowStep
<1>11. CASE RecoveryFails(c)
  <2>1. [StoppedSession(sess[c]) EXCEPT !.lc = "done"] \in Session
    BY <1>1, Stopped
  <2>2. sess' \in [Calls -> Session]
    BY <1>1, <1>11, <2>1 DEF RecoveryFails, LifeTypeOK
  <2>3. QED
    BY <1>1, <1>11, <2>2, Metered DEF RecoveryFails, LifeStep, LifeTypeOK, RowStep
<1>12. CASE TalkEnds(c)
  BY <1>1, <1>12 DEF TalkEnds, LifeStep, LifeTypeOK, RowStep, Session, Stages, meterVars
<1>13. CASE Lose(c)
  <2>1. sess' \in [Calls -> Session]
    BY <1>1, <1>13 DEF Lose, LifeTypeOK, Session, Stages
  <2>2. QED
    BY <1>1, <1>13, <2>1, Metered DEF Lose, LifeStep, LifeTypeOK, RowStep
<1>14. QED
  BY <1>2, <1>3, <1>4, <1>5, <1>6, <1>7, <1>8, <1>9, <1>10, <1>11, <1>12, <1>13 DEF Lifecycle

\* The heartbeat and the clock task.
LEMMA HeartbeatStep ==
    ASSUME TypeOK, NEW c \in Calls, Heartbeat(c) \/ HeartbeatCannotRenew(c) \/ ClockObserves(c)
    PROVE  LifeStep
<1>1. LifeTypeOK /\ sess[c] \in Session
  BY DEF TypeOK, LifeTypeOK
<1>2. StoppedSession(sess[c]) \in Session
      /\ [StoppedSession(sess[c]) EXCEPT !.hb = "idle"] \in Session
  BY <1>1, Stopped
<1>3. CASE HeartbeatReads(c)
  <2>1. [sess[c] EXCEPT !.hb = "renew"] \in Session
    BY <1>1 DEF Session, Beats
  <2>2. sess' \in [Calls -> Session]
    BY <1>1, <1>2, <1>3, <2>1 DEF HeartbeatReads, LifeTypeOK
  <2>3. QED
    BY <1>1, <1>3, <2>2, Metered DEF HeartbeatReads, LifeStep, LifeTypeOK, RowStep
<1>4. ASSUME NEW ttl \in Ttls, HeartbeatRenews(c, ttl)
      PROVE  LifeStep
  <2>1. sess' \in [Calls -> Session] /\ sess[c].live \in BOOLEAN
    BY <1>1, <1>4 DEF HeartbeatRenews, LifeTypeOK, Session, Beats
  <2>2. LeaseNext
    BY <1>4 DEF HeartbeatRenews, LeaseNext
  <2>3. meter' \in [Calls -> 0..HardLimit] /\ metering' \in [Calls -> BOOLEAN]
        /\ talk' = talk /\ billed' = billed
    BY <1>1, <1>4, <2>1, Metered DEF HeartbeatRenews
  <2>4. ckpt' \in [Calls -> {NoCkpt} \cup 0..HardLimit]
    BY <1>1, <1>4, <2>3, Metered DEF HeartbeatRenews
  <2>5. QED
    BY <1>1, <1>4, <2>1, <2>2, <2>3, <2>4 DEF HeartbeatRenews, LifeStep, LifeTypeOK, RowStep
<1>5. CASE HeartbeatLosesLease(c)
  <2>1. sess' \in [Calls -> Session]
    BY <1>1, <1>2, <1>5 DEF HeartbeatLosesLease, LifeTypeOK
  <2>2. QED
    BY <1>1, <1>5, <2>1, Metered DEF HeartbeatLosesLease, LifeStep, LifeTypeOK, RowStep
<1>6. CASE HeartbeatCannotRenew(c)
  <2>1. sess' \in [Calls -> Session]
    BY <1>1, <1>2, <1>6 DEF HeartbeatCannotRenew, LifeTypeOK
  <2>2. faults' \in 0..MaxFaults
    BY <1>1, <1>6, FaultCounts DEF HeartbeatCannotRenew
  <2>3. QED
    BY <1>1, <1>6, <2>1, <2>2, Metered
    DEF HeartbeatCannotRenew, LifeStep, LifeTypeOK, RowStep
<1>7. CASE ClockObserves(c)
  <2>1. sess[c].live \in BOOLEAN
    BY <1>1 DEF Session
  <2>2. QED
    BY <1>1, <1>7, <2>1, Metered DEF ClockObserves, LifeStep, LifeTypeOK, RowStep
<1>8. QED
  BY <1>3, <1>4, <1>5, <1>6, <1>7 DEF Heartbeat

\* A finalizer of well-typed parts.
LEMMA Finalizing ==
    ASSUME LifeTypeOK, NEW c \in Calls, NEW p \in Procs \cup {NoProc}, NEW phase \in Phases,
           NEW b \in BOOLEAN, NEW reason \in Reasons, NEW strict \in BOOLEAN
    PROVE  [phase |-> phase, call |-> c, home |-> p, local |-> b,
            reason |-> reason, strict |-> strict] \in Finalizer
  BY DEF Finalizer

\* run() and the stream endpoint.
LEMMA RunStep ==
    ASSUME TypeOK, NEW c \in Calls,
           Run(c) \/ StreamRejects(c) \/ UserCancels(c) \/ TaskEnds(c) \/ SessionFails(c)
    PROVE  LifeStep
<1>1. LifeTypeOK /\ sess[c] \in Session /\ c \in Actors
  BY DEF TypeOK, LifeTypeOK, Actors
<1>2. StoppedSession(sess[c]) \in Session
  BY <1>1, Stopped
<1>3. CASE Register(c)
  BY <1>1, <1>3 DEF Register, LifeStep, LifeTypeOK, RowStep, Session, Runs, Stages, meterVars
<1>4. CASE UserCancels(c)
  BY <1>1, <1>4 DEF UserCancels, LifeStep, LifeTypeOK, RowStep, Session, Runs, meterVars
<1>5. CASE TaskEnds(c)
  BY <1>1, <1>5 DEF TaskEnds, LifeStep, LifeTypeOK, RowStep, Session, Runs, meterVars
<1>6. ASSUME Rescue(c)
      PROVE  LifeStep
  <2>1. RowStep
    BY <1>6 DEF Rescue, RowStep, ACTIVE, TERMINAL
  <2>2. sess' \in [Calls -> Session]
    BY <1>1, <1>6 DEF Rescue, LifeTypeOK, Session, Runs
  <2>3. fin' \in [Actors -> Finalizer]
    BY <1>1, <1>6 DEF Rescue, LifeTypeOK, Session, Finalizer, Phases, Reasons
  <2>4. QED
    BY <1>1, <1>6, <2>1, <2>2, <2>3 DEF Rescue, LifeStep, LifeTypeOK, meterVars
<1>7. CASE CloseTransition(c)
  <2>1. RowStep
    BY <1>7 DEF CloseTransition, RowStep, ACTIVE, TERMINAL
  <2>2. sess' \in [Calls -> Session]
    BY <1>1, <1>7 DEF CloseTransition, LifeTypeOK, Session, Runs
  <2>3. UNCHANGED <<leaseVars, admissionVars, fin, registry, meterVars, faults>>
    BY <1>7 DEF CloseTransition
  <2>4. LifeTypeOK'
    BY <1>1, <2>2, <2>3 DEF LifeTypeOK, meterVars
  <2>5. [LeaseNext]_leaseVars
    BY <2>3
  <2>6. QED
    BY <2>1, <2>3, <2>4, <2>5 DEF LifeStep
<1>8. CASE CloseStops(c)
  <2>1. sess' \in [Calls -> Session]
    <3> DEFINE s == StoppedSession(sess[c])
    <3>1. sess' = [sess EXCEPT ![c] = [s EXCEPT !.run = "finalizing", !.lc = "done",
                                               !.hb = "idle", !.choice = "none"]]
      BY <1>8 DEF CloseStops
    <3> HIDE DEF s
    <3>2. s \in Session
      BY <1>2 DEF s
    <3>3. "finalizing" \in Runs /\ "done" \in Stages /\ "idle" \in Beats
      BY DEF Runs, Stages, Beats
    <3>4. [s EXCEPT !.run = "finalizing", !.lc = "done", !.hb = "idle", !.choice = "none"] \in Session
      BY <3>2, <3>3 DEF Session
    <3> QED
      BY <1>1, <3>1, <3>4 DEF LifeTypeOK
  <2>2. fin' \in [Actors -> Finalizer]
    BY <1>1, <1>8 DEF CloseStops, LifeTypeOK, Session, Finalizer, Phases, Reasons
  <2>3. QED
    BY <1>1, <1>8, <2>1, <2>2, Metered DEF CloseStops, LifeStep, LifeTypeOK, RowStep
<1>9. CASE FirstCheckpointFails(c)
  <2>1. faults' \in 0..MaxFaults
    BY <1>1, <1>9, FaultCounts DEF FirstCheckpointFails
  <2>2. QED
    BY <1>1, <1>9, <2>1
    DEF FirstCheckpointFails, LifeStep, LifeTypeOK, RowStep, Session, Stages, meterVars
<1>10. CASE CloseTransitionFails(c)
  <2>1. faults' \in 0..MaxFaults
    BY <1>1, <1>10, FaultCounts DEF CloseTransitionFails
  <2>2. QED
    BY <1>1, <1>10, <2>1
    DEF CloseTransitionFails, LifeStep, LifeTypeOK, RowStep, Session, Runs, meterVars
<1>11. CASE CloseStopsUnobserved(c)
  <2>1. faults' \in 0..MaxFaults
    BY <1>1, <1>11, FaultCounts DEF CloseStopsUnobserved
  <2>2. QED
    BY <1>1, <1>2, <1>11, <2>1
    DEF CloseStopsUnobserved, LifeStep, LifeTypeOK, RowStep, meterVars
<1>12. CASE HeartbeatCannotRenew(c)
  BY <1>12, HeartbeatStep
<1>13. QED
  BY <1>3, <1>4, <1>5, <1>6, <1>7, <1>8, <1>9, <1>10, <1>11, <1>12
  DEF Run, RunWakes, StreamRescues, StreamRejects, SessionFails

\* Everybody who begins an end_call.
LEMMA BeginStep ==
    ASSUME TypeOK, NEW a \in Actors, NEW c \in Calls, NEW p \in Procs,
           NEW phase \in Phases, NEW reason \in Reasons, NEW strict \in BOOLEAN,
           Begin(a, c, p, phase, reason, strict)
    PROVE  LifeStep
<1>1. LifeTypeOK
  BY DEF TypeOK, LifeTypeOK
<1>2. fin' \in [Actors -> Finalizer]
  BY <1>1 DEF Begin, LifeTypeOK, Finalizer
<1>3. QED
  BY <1>1, <1>2 DEF Begin, LifeStep, LifeTypeOK, RowStep, meterVars

\* Users, administrators and reconcile.
LEMMA CallerStep ==
    ASSUME TypeOK,
           \/ Reconcile
           \/ \E c \in Calls, h \in Handlers, p \in Procs :
                 ForceEnd(h, c, p) \/ \E strict \in BOOLEAN : HangUp(h, c, p, strict)
    PROVE  LifeStep
<1>1. Reconciler \in Actors /\ Handlers \subseteq Actors
  BY DEF Actors
<1>2. {"cancel", "stop", "cooldown"} \subseteq Phases
  BY DEF Phases
<1>3. {"user_hangup", "other"} \subseteq Reasons
  BY DEF Reasons
<1>4. ASSUME NEW c \in Calls, NEW p \in Procs, ReconcileEnds(c, p) \/ ReconcileCleans(c, p)
      PROVE  LifeStep
  BY <1>1, <1>2, <1>3, <1>4, BeginStep DEF ReconcileEnds, ReconcileCleans
<1>5. CASE ReconcilePrunes
  BY <1>5 DEF ReconcilePrunes, LeaseNext, LifeStep, RowStep, TypeOK, LifeTypeOK, lifeVars
<1>6. ASSUME NEW c \in Calls, NEW h \in Handlers, NEW p \in Procs, ForceEnd(h, c, p)
      PROVE  LifeStep
  BY <1>1, <1>2, <1>3, <1>6, BeginStep DEF ForceEnd
<1>7. ASSUME NEW c \in Calls, NEW h \in Handlers, NEW p \in Procs, NEW strict \in BOOLEAN,
             HangUp(h, c, p, strict)
      PROVE  LifeStep
  BY <1>1, <1>2, <1>3, <1>7, BeginStep DEF HangUp
<1>8. QED
  BY <1>4, <1>5, <1>6, <1>7 DEF Reconcile

\* An actor that leaves end_call is idle again; run() is closed or failed.
LEMMA Left ==
    ASSUME LifeTypeOK, NEW a \in Actors, NEW ok \in BOOLEAN, Leave(a, ok)
    PROVE  sess' \in [Calls -> Session] /\ fin' \in [Actors -> Finalizer]
<1>1. NoFinalizer \in Finalizer
  BY DEF NoFinalizer, Finalizer, Phases, Reasons
<1>2. Gone \in Session
  BY DEF Gone, NoSession, Session, Runs, Stages, Beats
<1>3. \A s \in Session : [s EXCEPT !.run = "failed"] \in Session
  BY DEF Session, Runs
<1>4. QED
  BY <1>1, <1>2, <1>3 DEF Leave, LifeTypeOK

\* A finalizer at work has a call, and moves on as a finalizer.
LEMMA AtWork ==
    ASSUME NEW f \in Finalizer, f.phase # "idle"
    PROVE  /\ f.call \in Calls /\ f.local \in BOOLEAN /\ f.reason \in Reasons
           /\ \A phase \in Phases, b \in BOOLEAN :
                /\ [f EXCEPT !.phase = phase] \in Finalizer
                /\ [f EXCEPT !.phase = phase, !.local = b] \in Finalizer
<1> DEFINE Busy == [phase : Phases, call : Calls, home : Procs \cup {NoProc},
                    local : BOOLEAN, reason : Reasons, strict : BOOLEAN]
<1>1. f \in Busy
  BY DEF Finalizer, NoFinalizer
<1>2. f.call \in Calls /\ f.local \in BOOLEAN /\ f.reason \in Reasons
  BY <1>1
<1>3. ASSUME NEW phase \in Phases, NEW b \in BOOLEAN
      PROVE  /\ [f EXCEPT !.phase = phase] \in Busy
             /\ [f EXCEPT !.phase = phase, !.local = b] \in Busy
  BY <1>1
<1>4. Busy \subseteq Finalizer
  BY DEF Finalizer
<1>5. QED
  BY <1>2, <1>3, <1>4

\* end_call, once begun.
LEMMA EndStep ==
    ASSUME TypeOK, NEW a \in Actors,
           End(a) \/ EndFails(a) \/ EndStopsUnobserved(a) \/ CleanFails(a)
    PROVE  LifeStep
<1> DEFINE c == fin[a].call
<1>1. LifeTypeOK /\ LeaseTypeOK /\ StateTypeOK /\ fin[a] \in Finalizer
  BY DEF TypeOK, LifeTypeOK
<1>2. fin[a].phase # "idle"
  BY DEF End, RouterCancels, EndStops, EndCommits, CheckpointMissing, CleanCooldown,
         CleanLease, EndReturns, EndFails, EndStopsUnobserved, CleanFails
<1>3. c \in Calls /\ UserOf[c] \in Users /\ sess[c] \in Session
  BY <1>1, <1>2, AtWork, LeaseAssumption DEF LifeTypeOK
<1>4. \A phase \in {"stop", "commit", "cooldown", "lease"}, b \in BOOLEAN :
         /\ [fin[a] EXCEPT !.phase = phase] \in Finalizer
         /\ [fin[a] EXCEPT !.phase = phase, !.local = b] \in Finalizer
  BY <1>1, <1>2, AtWork DEF Phases
<1>5. NoFinalizer \in Finalizer
  BY DEF Finalizer
<1>6. StoppedSession(sess[c]) \in Session
  BY <1>3, Stopped
<1>7. CASE RouterCancels(a)
  <2>1. RowStep
    BY <1>3, <1>7 DEF RouterCancels, RowStep, ACTIVE, TERMINAL
  <2>2. fin' \in [Actors -> Finalizer]
    <3> DEFINE found == c \in registry[fin[a].home]
               next == [fin[a] EXCEPT !.phase = "stop", !.local = found]
    <3>1. next \in Finalizer
      <4>1. found \in BOOLEAN
        OBVIOUS
      <4> HIDE DEF found
      <4>2. QED
        BY <1>4, <4>1
    <3>2. fin' \in {[fin EXCEPT ![a] = NoFinalizer], [fin EXCEPT ![a] = next]}
      BY <1>7 DEF RouterCancels
    <3> HIDE DEF next
    <3>3. QED
      BY <1>1, <1>5, <3>1, <3>2 DEF LifeTypeOK
  <2>3. QED
    BY <1>1, <1>7, <2>1, <2>2 DEF RouterCancels, LifeStep, LifeTypeOK, meterVars
<1>8. CASE EndStops(a)
  <2>1. fin' \in [Actors -> Finalizer]
    BY <1>1, <1>4, <1>8 DEF EndStops, LifeTypeOK
  <2>2. sess' \in [Calls -> Session]
    BY <1>1, <1>3, <1>6, <1>8 DEF EndStops, LifeTypeOK
  <2>3. QED
    BY <1>1, <1>3, <1>8, <2>1, <2>2, Metered DEF EndStops, LifeStep, LifeTypeOK, RowStep
<1>9. CASE EndCommits(a)
  <2>1. RowStep
    BY <1>1, <1>2, <1>3, <1>9, AtWork DEF EndCommits, RowStep
  <2>2. fin' \in [Actors -> Finalizer]
    BY <1>1, <1>4, <1>9 DEF EndCommits, LifeTypeOK
  <2>3. MustSettle(c) => Evidence(a) \in 0..HardLimit
    BY <1>1, <1>3, <1>9 DEF EndCommits, HasEvidence, Evidence, LifeTypeOK
  <2>4. billed' \in [Calls -> 0..HardLimit]
    BY <1>1, <1>3, <1>9, <2>3 DEF EndCommits, LifeTypeOK
  <2>5. QED
    BY <1>1, <1>9, <2>1, <2>2, <2>4 DEF EndCommits, LifeStep, LifeTypeOK
<1>10. CASE CheckpointMissing(a)
  BY <1>1, <1>10, Left DEF CheckpointMissing, LifeStep, LifeTypeOK, RowStep, meterVars
<1>11. CASE CleanCooldown(a)
  <2>1. [LeaseNext]_leaseVars
    BY <1>1, <1>3, <1>11, CooldownStep, StateAssumption DEF CleanCooldown, StateTypeOK
  <2>2. fin' \in [Actors -> Finalizer]
    BY <1>1, <1>4, <1>11 DEF CleanCooldown, LifeTypeOK
  <2>3. QED
    BY <1>1, <1>11, <2>1, <2>2 DEF CleanCooldown, LifeStep, LifeTypeOK, RowStep, meterVars
<1>12. ASSUME NEW released \in BOOLEAN, EndReturns(a, released), faults' \in 0..MaxFaults
       PROVE  LifeStep
  <2>1. [LeaseNext]_leaseVars
    BY <1>3, <1>12 DEF EndReturns, LeaseNext
  <2>2. registry' \in [Procs -> SUBSET Calls]
    BY <1>1, <1>12 DEF EndReturns, LifeTypeOK
  <2>3. QED
    BY <1>1, <1>12, <2>1, <2>2, Left DEF EndReturns, LifeStep, LifeTypeOK, RowStep, meterVars
<1>13. CASE CleanLease(a)
  BY <1>1, <1>12, <1>13 DEF CleanLease, LifeTypeOK
<1>14. CASE EndFails(a)
  BY <1>1, <1>14, Left, FaultCounts DEF EndFails, LifeStep, LifeTypeOK, RowStep, meterVars
<1>15. CASE EndStopsUnobserved(a)
  <2>1. sess' \in [Calls -> Session] /\ fin' \in [Actors -> Finalizer]
    BY <1>1, <1>3, <1>5, <1>6, <1>15 DEF EndStopsUnobserved, LifeTypeOK
  <2>2. QED
    BY <1>1, <1>15, <2>1, FaultCounts
    DEF EndStopsUnobserved, LifeStep, LifeTypeOK, RowStep, meterVars
<1>16. CASE CleanFails(a)
  <2>1. faults' \in 0..MaxFaults
    BY <1>1, <1>16, FaultCounts DEF CleanFails
  <2>2. CASE EndReturns(a, FALSE)
    BY <1>12, <2>1, <2>2
  <2>3. CASE ~EndReturns(a, FALSE)
    <3>1. fin' \in [Actors -> Finalizer]
      BY <1>1, <1>4, <1>16, <2>3 DEF CleanFails, LifeTypeOK
    <3>2. QED
      BY <1>1, <1>16, <2>1, <2>3, <3>1 DEF CleanFails, LifeStep, LifeTypeOK, RowStep, meterVars
  <2>4. QED
    BY <2>2, <2>3
<1>17. QED
  BY <1>7, <1>8, <1>9, <1>10, <1>11, <1>13, <1>14, <1>15, <1>16 DEF End

\* One unit of time.
LEMMA TickStep ==
    ASSUME TypeOK, Tick
    PROVE  LifeStep
<1>1. LifeTypeOK
  BY DEF TypeOK, LifeTypeOK
<1>2. talk' \in [Calls -> 0..HardLimit]
  BY <1>1, StateAssumption DEF Tick, LifeTypeOK
<1>3. QED
  BY <1>1, <1>2 DEF Tick, LeaseNext, LifeStep, LifeTypeOK, RowStep

\* A step of admission that leaves the sessions to themselves, or starts one.
AdmittedStep == AdmissionStep /\ LifeTypeOK'

LEMMA AdmitStep ==
    ASSUME TypeOK, Admit \/ AdmitFails \/ \E c \in Calls, p \in Procs : Stream(c, p)
    PROVE  AdmittedStep
<1>1. LifeTypeOK
  BY DEF TypeOK, LifeTypeOK
<1>2. CASE Admit
  BY <1>1, <1>2 DEF Admit, AdmittedStep, AdmissionStep, LifeTypeOK, lifeVars
<1>3. CASE AdmitFails
  BY <1>1, <1>3, FaultCounts DEF AdmitFails, AdmittedStep, AdmissionStep, LifeTypeOK, meterVars
<1>4. ASSUME NEW c \in Calls, NEW p \in Procs, Stream(c, p)
      PROVE  AdmittedStep
  <2>1. [NoSession EXCEPT !.run = "accepted", !.home = p] \in Session
    BY DEF NoSession, Session, Runs, Stages, Beats
  <2>2. sess' \in [Calls -> Session]
    BY <1>1, <1>4, <2>1 DEF Stream, LifeTypeOK
  <2>3. QED
    BY <1>1, <1>4, <2>2 DEF Stream, AdmittedStep, AdmissionStep, LifeTypeOK, meterVars
<1>5. QED
  BY <1>2, <1>3, <1>4

\* A crash leaves rows, keys and records; open transactions are rolled back.
CrashStep ==
    /\ UNCHANGED <<leaseVars, rowVars, record, tickets, minted>>
    /\ creating' \in [Users -> {Idle} \cup Creation]
    /\ \A u \in Users : creating'[u] \in {Idle, creating[u]}
    /\ LifeTypeOK'

LEMMA CrashStepped ==
    ASSUME TypeOK, NEW p \in Procs, Crash(p)
    PROVE  CrashStep
<1>1. LifeTypeOK /\ AdmissionTypeOK
  BY DEF TypeOK, LifeTypeOK
<1>2. Gone \in Session /\ NoFinalizer \in Finalizer
  BY DEF Gone, NoSession, Session, Runs, Stages, Beats, Finalizer
<1>3. sess' \in [Calls -> Session] /\ fin' \in [Actors -> Finalizer]
  BY <1>1, <1>2 DEF Crash, LifeTypeOK
<1>4. metering' \in [Calls -> BOOLEAN] /\ registry' \in [Procs -> SUBSET Calls]
  BY <1>1 DEF Crash, LifeTypeOK
<1>5. faults' \in 0..MaxFaults
  BY <1>1, FaultCounts DEF Crash
<1>6. LifeTypeOK'
  BY <1>1, <1>3, <1>4, <1>5 DEF Crash, LifeTypeOK
<1>7. QED
  BY <1>1, <1>6 DEF Crash, CrashStep, AdmissionTypeOK

\* Every step of the system is one of the three.
LEMMA EveryStep ==
    ASSUME TypeOK, Next
    PROVE  LifeStep \/ AdmittedStep \/ CrashStep
<1>1. CASE Admit \/ AdmitFails
  BY <1>1, AdmitStep
<1>2. CASE Reconcile
  BY <1>2, CallerStep
<1>3. CASE Tick
  BY <1>3, TickStep
<1>4. ASSUME NEW c \in Calls,
             Lifecycle(c) \/ Heartbeat(c) \/ Run(c) \/ Outside(c) \/ SessionFails(c)
      PROVE  LifeStep \/ AdmittedStep
  <2>1. CASE Outside(c)
    BY <2>1, AdmitStep, CallerStep, RunStep, LifecycleStep, HeartbeatStep DEF Outside
  <2>2. QED
    BY <1>4, <2>1, LifecycleStep, HeartbeatStep, RunStep
<1>5. ASSUME NEW a \in Actors,
             End(a) \/ EndFails(a) \/ EndStopsUnobserved(a) \/ CleanFails(a)
      PROVE  LifeStep
  BY <1>5, EndStep
<1>6. ASSUME NEW p \in Procs, Crash(p)
      PROVE  CrashStep
  BY <1>6, CrashStepped
<1>7. QED
  BY <1>1, <1>2, <1>3, <1>4, <1>5, <1>6 DEF Next

-----------------------------------------------------------------------------
(* Types, and the leases of the whole system. *)

\* Every step runs one lease script, lets time pass, or leaves the keys alone.
LEMMA LeasesStep ==
    ASSUME TypeOK, [Next]_vars
    PROVE  [LeaseNext]_leaseVars
<1>1. CASE Next
  <2>1. CASE AdmittedStep
    BY <2>1, AdmissionLeases DEF TypeOK, AdmittedStep
  <2>2. QED
    BY <1>1, <2>1, EveryStep DEF LifeStep, CrashStep
<1>2. CASE UNCHANGED vars
  BY <1>2 DEF vars
<1>3. QED
  BY <1>1, <1>2

LEMMA TypesStep ==
    ASSUME TypeOK, [Next]_vars
    PROVE  TypeOK'
<1>1. LeaseTypeOK'
  BY LeasesStep, TypeStep DEF TypeOK
<1>2. TypeOK <=> LeaseTypeOK /\ StateTypeOK /\ AdmissionTypeOK /\ LifeTypeOK
  BY DEF TypeOK, LifeTypeOK
<1>3. StateTypeOK' /\ AdmissionTypeOK' /\ LifeTypeOK'
  <2>1. CASE LifeStep
    BY <1>2, <2>1, RowTypes DEF LifeStep, AdmissionTypeOK, admissionVars
  <2>2. CASE AdmittedStep
    BY <1>2, <2>2, AdmissionTypes DEF AdmittedStep
  <2>3. CASE CrashStep
    BY <1>2, <2>3, RowTypes DEF CrashStep, AdmissionTypeOK, RowStep
  <2>4. CASE UNCHANGED vars
    BY <1>2, <2>4, RowTypes
    DEF vars, lifeVars, meterVars, AdmissionTypeOK, LifeTypeOK, RowStep, admissionVars
  <2>5. QED
    BY <2>1, <2>2, <2>3, <2>4, EveryStep
<1>4. TypeOK'
  BY <1>1, <1>3 DEF TypeOK, LifeTypeOK
<1>5. QED
  BY <1>4

LEMMA TypesInit == Init => TypeOK
<1> SUFFICES ASSUME Init PROVE TypeOK
  OBVIOUS
<1>1. LeaseTypeOK
  BY LeaseAssumption DEF Init, LeaseInit, LeaseTypeOK
<1>2. StateTypeOK
  BY StateAssumption DEF Init, StateInit, StateTypeOK
<1>3. AdmissionTypeOK
  BY DEF Init, AdmissionInit, AdmissionTypeOK
<1>4. NoSession \in Session /\ NoFinalizer \in Finalizer
  BY DEF NoSession, Session, Runs, Stages, Beats, Finalizer
<1>5. QED
  BY <1>1, <1>2, <1>3, <1>4, StateAssumption, LifecycleAssumption DEF Init, TypeOK

\* The rows, keys, sessions, finalizers and meters keep their types.
THEOREM TypeCorrect == Spec => []TypeOK
<1>1. TypeOK /\ [Next]_vars => TypeOK'
  BY TypesStep
<1>2. QED
  BY <1>1, TypesInit, PTL DEF Spec

\* Whatever gateways, finalizers, handlers and crashes do, the Redis keys see
\* nothing but the five scripts: everything proved of the lease specification
\* holds in the whole system.
THEOREM ImplementsLeases == Spec => LeaseSpec
<1>1. Init => LeaseInit
  BY DEF Init
<1>2. TypeOK /\ [Next]_vars => [LeaseNext]_leaseVars
  BY LeasesStep
<1>3. QED
  BY <1>1, <1>2, TypeCorrect, PTL DEF Spec, LeaseSpec

\* In particular no cleanup that is late or repeated takes a newer lease.
THEOREM SystemNeverStealsLeases == Spec => NoLeaseStealing /\ []OneLeasePerUser
  BY ImplementsLeases, NoStealing, OneLease

-----------------------------------------------------------------------------
(* One call in progress per user.  The lease cannot carry this, because it *)
(* expires under a call that lasts; what carries it is that between the    *)
(* existing-call query and the insert nobody can make a call of the user   *)
(* active, the lock being held.                                            *)

Reserved ==
    \A u \in Users : creating[u].phase = "leased" =>
        /\ UserOf[creating[u].call] = u
        /\ \A d \in CallsOf(u) : status[d] \notin ACTIVE

OneCallInv == TypeOK /\ Reserved /\ OneActiveCallPerUser

\* No writer but the insert makes a row active.
LEMMA NoRevival ==
    ASSUME StateTypeOK, RowStep, NEW c \in Calls, status'[c] \in ACTIVE
    PROVE  status[c] \in ACTIVE
<1> USE DEF StateTypeOK
<1>1. ASSUME NEW d \in Calls, NEW expected \in SUBSET ACTIVE,
             NEW target \in {"none"} \cup ACTIVE \cup TERMINAL,
             transition_call(d, expected, target)
      PROVE  status[c] \in ACTIVE
  BY <1>1 DEF transition_call, Transits
<1>2. ASSUME NEW d \in Calls, NEW reason \in Reasons, stage_final_state(d, reason)
      PROVE  status[c] \in ACTIVE
  BY <1>2 DEF stage_final_state
<1>3. CASE RowTick
  BY <1>3 DEF RowTick
<1>4. CASE UNCHANGED rowVars
  BY <1>4 DEF rowVars
<1>5. QED
  BY <1>1, <1>2, <1>3, <1>4 DEF RowStep

LEMMA OneCallStep ==
    ASSUME OneCallInv, [Next]_vars
    PROVE  Reserved' /\ OneActiveCallPerUser'
<1> USE DEF OneCallInv
<1>1. LeaseTypeOK /\ StateTypeOK /\ AdmissionTypeOK
  BY DEF TypeOK
<1>2. ASSUME \A c \in Calls : status'[c] \in ACTIVE => status[c] \in ACTIVE,
             \A u \in Users : creating'[u] \in {Idle, creating[u]}
      PROVE  Reserved' /\ OneActiveCallPerUser'
  BY <1>2 DEF Reserved, OneActiveCallPerUser, CallsOf, Idle
<1>3. CASE LifeStep
  <2>1. \A c \in Calls : status'[c] \in ACTIVE => status[c] \in ACTIVE
    BY <1>1, <1>3, NoRevival DEF LifeStep
  <2>2. QED
    BY <1>2, <1>3, <2>1 DEF LifeStep, admissionVars
<1>4. CASE CrashStep
  BY <1>2, <1>4 DEF CrashStep, rowVars
<1>5. CASE UNCHANGED vars
  BY <1>2, <1>5 DEF vars, rowVars, admissionVars
<1>6. CASE AdmittedStep
  <2>1. ASSUME NEW u \in Users, NEW c \in Calls, NEW ttl \in Ttls, CreateLeases(u, c, ttl)
        PROVE  Reserved' /\ OneActiveCallPerUser'
    BY <1>1, <2>1
    DEF CreateLeases, Reserved, OneActiveCallPerUser, CallsOf, rowVars, AdmissionTypeOK
  <2>2. ASSUME NEW u \in Users, creating[u].phase = "leased", InsertCall(u)
        PROVE  Reserved' /\ OneActiveCallPerUser'
    <3>1. creating[u].call \in Calls /\ UserOf[creating[u].call] = u
      BY <1>1, <2>2, Carried DEF Reserved
    <3>2. \A d \in Calls : d # creating[u].call => status'[d] = status[d]
      BY <1>1, <2>2 DEF InsertCall, StateTypeOK
    <3>3. creating' = [creating EXCEPT ![u] = Idle]
      BY <2>2 DEF InsertCall
    <3>4. OneActiveCallPerUser'
      BY <2>2, <3>1, <3>2 DEF Reserved, OneActiveCallPerUser, CallsOf
    <3>5. Reserved'
      BY <1>1, <3>1, <3>2, <3>3 DEF Reserved, CallsOf, Idle, AdmissionTypeOK
    <3>6. QED
      BY <3>4, <3>5
  <2>3. ASSUME NEW u \in Users,
               \/ \E k \in Keys, p \in Procs : CreateChecks(u, k, p)
               \/ \E c \in Calls : CreateRefused(u, c)
               \/ CreateRejected(u) \/ CreateRollsBack(u) \/ CreateAbandons(u)
        PROVE  Reserved' /\ OneActiveCallPerUser'
    <3>1. UNCHANGED rowVars
      BY <2>3 DEF CreateChecks, CreateRefused, CreateRejected, CreateRollsBack, CreateAbandons
    <3>2. \A v \in Users : creating'[v].phase = "leased" => creating'[v] = creating[v]
      BY <1>1, <2>3
      DEF CreateChecks, CreateRefused, CreateRejected, CreateRollsBack, CreateAbandons,
          AdmissionTypeOK, Idle
    <3>3. QED
      BY <3>1, <3>2 DEF Reserved, OneActiveCallPerUser, CallsOf, rowVars
  <2>4. ASSUME \/ \E u \in Users, k \in Keys : ReplayExpires(u, k)
               \/ \E c \in Calls : TicketExpires(c) \/ ConsumeTicket(c)
        PROVE  Reserved' /\ OneActiveCallPerUser'
    BY <1>2, <2>4 DEF ReplayExpires, TicketExpires, ConsumeTicket, rowVars
  <2>5. QED
    BY <1>6, <2>1, <2>2, <2>3, <2>4
    DEF AdmittedStep, AdmissionStep, CreateCommits, CreateCommitAnswerLost
<1>7. QED
  BY <1>3, <1>4, <1>5, <1>6, EveryStep

\* A user never has two calls in progress: not with two devices, retried
\* requests, lost COMMIT answers, expired leases or crashes.
THEOREM OneCall == Spec => []OneActiveCallPerUser
<1>1. Init => OneCallInv
  BY TypesInit DEF Init, StateInit, AdmissionInit, OneCallInv, Reserved,
                   OneActiveCallPerUser, Idle, ACTIVE
<1>2. OneCallInv /\ [Next]_vars => OneCallInv'
  BY OneCallStep, TypesStep DEF OneCallInv
<1>3. OneCallInv => OneActiveCallPerUser
  BY DEF OneCallInv
<1>4. QED
  BY <1>1, <1>2, <1>3, PTL DEF Spec

-----------------------------------------------------------------------------
(* One dial per key.  The key of an open create transaction has no record  *)
(* from its look-up to its insert, however long the requests in between:   *)
(* only that transaction writes records of its user, the lock being held.  *)

FreshKeys ==
    \A u \in Users : creating[u].phase \in {"checked", "leased"}
                     => record[u][creating[u].key] = NoCall

\* What a step may do to the record of a key: give it up, or fill it.
Dialled(u, k) == record[u][k] # NoCall => record'[u][k] \in {NoCall, record[u][k]}

LEMMA KeyStep ==
    ASSUME TypeOK, FreshKeys, [Next]_vars
    PROVE  FreshKeys' /\ \A u \in Users, k \in Keys : Dialled(u, k)
<1>1. AdmissionTypeOK
  BY DEF TypeOK
<1> DEFINE Goal == FreshKeys' /\ \A u \in Users, k \in Keys : Dialled(u, k)
<1>2. ASSUME record' = record, \A u \in Users : creating'[u] \in {Idle, creating[u]}
      PROVE  Goal
  BY <1>2 DEF FreshKeys, Dialled, Idle
<1>3. CASE LifeStep \/ CrashStep \/ UNCHANGED vars
  BY <1>2, <1>3 DEF LifeStep, CrashStep, vars, admissionVars
<1>4. ASSUME NEW u \in Users, NEW k \in Keys, NEW p \in Procs, CreateChecks(u, k, p)
      PROVE  Goal
  BY <1>1, <1>4 DEF CreateChecks, FreshKeys, Dialled, AdmissionTypeOK
<1>5. ASSUME NEW u \in Users, NEW c \in Calls, NEW ttl \in Ttls, CreateLeases(u, c, ttl)
      PROVE  Goal
  BY <1>1, <1>5 DEF CreateLeases, FreshKeys, Dialled, AdmissionTypeOK
<1>6. ASSUME NEW u \in Users, creating[u].phase = "leased", InsertCall(u)
      PROVE  Goal
  <2>1. creating[u].key \in Keys /\ record[u][creating[u].key] = NoCall
    BY <1>1, <1>6, Carried DEF FreshKeys
  <2>2. \A v \in Users, k \in Keys :
           <<v, k>> # <<u, creating[u].key>> => record'[v][k] = record[v][k]
    BY <1>1, <1>6 DEF InsertCall, AdmissionTypeOK
  <2>3. \A v \in Users : creating'[v] = IF v = u THEN Idle ELSE creating[v]
    BY <1>1, <1>6 DEF InsertCall, AdmissionTypeOK
  <2>4. \A v \in Users, k \in Keys : Dialled(v, k)
    BY <2>1, <2>2 DEF Dialled
  <2>5. \A v \in Users : creating'[v].phase \in {"checked", "leased"}
                         => v # u /\ creating'[v] = creating[v] /\ creating[v].key \in Keys
    BY <1>1, <2>3, Carried DEF Idle
  <2>6. FreshKeys'
    BY <2>2, <2>5 DEF FreshKeys
  <2> QED
    BY <2>4, <2>6
<1>7. ASSUME NEW u \in Users,
             \/ \E c \in Calls : CreateRefused(u, c)
             \/ CreateRejected(u) \/ CreateRollsBack(u) \/ CreateAbandons(u)
      PROVE  Goal
  BY <1>1, <1>2, <1>7
  DEF CreateRefused, CreateRejected, CreateRollsBack, CreateAbandons, AdmissionTypeOK
<1>8. ASSUME NEW u \in Users, NEW k \in Keys, ReplayExpires(u, k)
      PROVE  Goal
  <2>1. \A v \in Users, j \in Keys : record'[v][j] \in {NoCall, record[v][j]}
    BY <1>1, <1>8 DEF ReplayExpires, AdmissionTypeOK
  <2>2. \A v \in Users : creating[v].phase \in {"checked", "leased"} => creating[v].key \in Keys
    BY <1>1, Carried
  <2>3. creating' = creating
    BY <1>8 DEF ReplayExpires
  <2> QED
    BY <2>1, <2>2, <2>3 DEF FreshKeys, Dialled
<1>9. ASSUME NEW c \in Calls, TicketExpires(c) \/ ConsumeTicket(c)
      PROVE  Goal
  BY <1>2, <1>9 DEF TicketExpires, ConsumeTicket
<1>10. CASE AdmittedStep
  BY <1>4, <1>5, <1>6, <1>7, <1>8, <1>9, <1>10
  DEF AdmittedStep, AdmissionStep, CreateCommits, CreateCommitAnswerLost
<1> QED
  BY <1>3, <1>10, EveryStep

\* A retried request never dials twice, although its key is looked up several awaits before
\* its record is written: a record is given up before the key stands for another call.
THEOREM KeysDialOnce == Spec => KeyDialsOnce
<1>1. Init => TypeOK /\ FreshKeys
  BY TypesInit DEF Init, AdmissionInit, FreshKeys, Idle
<1>2. TypeOK /\ FreshKeys /\ [Next]_vars
      => (TypeOK /\ FreshKeys)' /\ \A u \in Users, k \in Keys : Dialled(u, k)
  BY TypesStep, KeyStep
<1> QED
  BY <1>1, <1>2, PTL DEF Spec, KeyDialsOnce, Dialled

-----------------------------------------------------------------------------
(* No overcharge.  The meter, the checkpoint and the bill are three copies *)
(* of the metered time taken at different moments; none may run ahead.     *)

Behind == \A c \in Calls : meter[c] <= talk[c] /\ ckpt[c] <= talk[c] /\ billed[c] <= talk[c]

BehindInv == TypeOK /\ Behind

\* The steps that leave the three copies as they are.
LEMMA UnmeteredStep ==
    ASSUME BehindInv, UNCHANGED <<talk, meter, ckpt, billed>>
    PROVE  Behind'
  BY DEF Behind, BehindInv

\* An observation or a stop takes the time in; a checkpoint keeps the later of
\* two times that have passed.
LEMMA ObservedStep ==
    ASSUME BehindInv, NEW c \in Calls,
           \/ \E b \in BOOLEAN : Observe(c, b)
           \/ StopLocal(c),
           ckpt' = ckpt \/ ckpt' = Checkpointed(c, meter'[c])
    PROVE  Behind'
<1> USE DEF BehindInv, Behind, TypeOK, NoCkpt
<1>1. talk' = talk /\ billed' = billed
  BY DEF Observe, StopLocal
<1>2. meter' = [meter EXCEPT ![c] = talk[c]] \/ meter' = meter
  BY DEF Observe, StopLocal
<1>3. \A d \in Calls : meter'[d] <= talk[d] /\ meter'[d] \in 0..HardLimit
  BY <1>2
<1>4. \A d \in Calls : ckpt'[d] <= talk[d]
  BY <1>3 DEF Checkpointed
<1>5. QED
  BY <1>1, <1>3, <1>4

\* The tasks of a session meter and checkpoint, and never bill.
LEMMA SessionBehind ==
    ASSUME BehindInv, NEW c \in Calls,
           \/ Lifecycle(c) \/ Heartbeat(c) \/ Run(c) \/ SessionFails(c)
           \/ StreamRejects(c) \/ Lose(c) \/ UserCancels(c) \/ TaskEnds(c) \/ ClockObserves(c)
    PROVE  Behind'
<1>1. sess[c].live \in BOOLEAN
  BY DEF BehindInv, TypeOK, Session
<1>2. CASE StartMeter(c)
  BY <1>2, ObservedStep, UnmeteredStep DEF StartMeter
<1>3. CASE FirstCheckpoint(c)
  <2>1. meter'[c] = meter[c]
    BY <1>3 DEF FirstCheckpoint
  <2>2. ckpt' = Checkpointed(c, meter[c])
    BY <1>3 DEF FirstCheckpoint
  <2>3. \A d \in Calls : ckpt'[d] <= talk[d]
    BY <2>2 DEF Checkpointed, BehindInv, Behind, TypeOK, NoCkpt
  <2>4. QED
    BY <1>3, <2>3 DEF FirstCheckpoint, BehindInv, Behind
<1>4. CASE Lose(c)
  BY <1>4, ObservedStep DEF Lose
<1>5. CASE RestoreObserves(c)
  BY <1>5, ObservedStep DEF RestoreObserves
<1>6. CASE RecoveryFails(c)
  BY <1>6, ObservedStep DEF RecoveryFails
<1>7. CASE HeartbeatReads(c)
  BY <1>7, ObservedStep, UnmeteredStep DEF HeartbeatReads
<1>8. ASSUME NEW ttl \in Ttls, HeartbeatRenews(c, ttl)
      PROVE  Behind'
  BY <1>1, <1>8, ObservedStep DEF HeartbeatRenews
<1>9. CASE HeartbeatLosesLease(c) \/ HeartbeatCannotRenew(c)
  BY <1>9, ObservedStep DEF HeartbeatLosesLease, HeartbeatCannotRenew
<1>10. CASE ClockObserves(c)
  BY <1>1, <1>10, ObservedStep DEF ClockObserves
<1>11. CASE CloseStops(c)
  BY <1>11, ObservedStep DEF CloseStops
<1>12. CASE \/ \E answer \in {"ringing", "missed"} : Decide(c, answer)
            \/ \E verdict \in {"connected", "failed"} : Gate(c, verdict)
            \/ DecideCommits(c) \/ GateCommits(c) \/ LoseCommits(c)
            \/ RestoreCommits(c) \/ TalkEnds(c)
  BY <1>12, UnmeteredStep
  DEF Decide, Gate, DecideCommits, GateCommits, LoseCommits, RestoreCommits, TalkEnds, meterVars
<1>13. CASE \/ Register(c) \/ CloseTransition(c) \/ UserCancels(c) \/ TaskEnds(c) \/ Rescue(c)
            \/ FirstCheckpointFails(c) \/ CloseTransitionFails(c) \/ CloseStopsUnobserved(c)
  BY <1>13, UnmeteredStep
  DEF Register, CloseTransition, UserCancels, TaskEnds, Rescue, FirstCheckpointFails,
      CloseTransitionFails, CloseStopsUnobserved, meterVars
<1>14. QED
  BY <1>2, <1>3, <1>4, <1>5, <1>6, <1>7, <1>8, <1>9, <1>10, <1>11, <1>12, <1>13
  DEF Lifecycle, Heartbeat, Run, RunWakes, StreamRescues, StreamRejects, SessionFails

\* A finalizer bills a copy that is behind.
LEMMA EndBehind ==
    ASSUME BehindInv, NEW a \in Actors,
           End(a) \/ EndFails(a) \/ EndStopsUnobserved(a) \/ CleanFails(a)
    PROVE  Behind'
<1> DEFINE c == fin[a].call
<1>1. fin[a].phase # "idle" => c \in Calls
  BY AtWork DEF BehindInv, TypeOK
<1>2. CASE EndStops(a)
  BY <1>1, <1>2, ObservedStep, UnmeteredStep DEF EndStops
<1>3. CASE EndCommits(a)
  <2>1. c \in Calls
    BY <1>1, <1>3 DEF EndCommits
  <2>2. MustSettle(c) => Evidence(a) <= talk[c]
    BY <2>1 DEF Evidence, BehindInv, Behind
  <2>3. \A d \in Calls : billed'[d] <= talk[d]
    BY <1>3, <2>1, <2>2 DEF EndCommits, BehindInv, Behind, TypeOK
  <2>4. QED
    BY <1>3, <2>3 DEF EndCommits, BehindInv, Behind
<1>4. CASE RouterCancels(a) \/ CheckpointMissing(a) \/ CleanCooldown(a) \/ CleanLease(a)
           \/ EndFails(a) \/ EndStopsUnobserved(a) \/ CleanFails(a)
  BY <1>4, UnmeteredStep
  DEF RouterCancels, CheckpointMissing, CleanCooldown, CleanLease, EndReturns, EndFails,
      EndStopsUnobserved, CleanFails, meterVars
<1>5. QED
  BY <1>2, <1>3, <1>4 DEF End

LEMMA BehindStep ==
    ASSUME BehindInv, [Next]_vars
    PROVE  Behind'
<1>1. CASE Tick
  <2>1. \A c \in Calls : talk[c] <= talk'[c]
    BY <1>1, StateAssumption DEF Tick, BehindInv, TypeOK
  <2>2. \A c \in Calls : /\ talk[c] \in Int /\ talk'[c] \in Int
                        /\ meter[c] \in Int /\ ckpt[c] \in Int /\ billed[c] \in Int
    BY <1>1, TypesStep, StateAssumption DEF BehindInv, TypeOK, NoCkpt
  <2>3. QED
    BY <1>1, <2>1, <2>2 DEF Tick, BehindInv, Behind
<1>2. CASE Admit \/ AdmitFails
  BY <1>2, UnmeteredStep DEF Admit, AdmitFails, lifeVars, meterVars
<1>3. CASE Reconcile
  BY <1>3, UnmeteredStep
  DEF Reconcile, ReconcileEnds, ReconcileCleans, ReconcilePrunes, Begin, lifeVars, meterVars
<1>4. ASSUME NEW c \in Calls,
             Lifecycle(c) \/ Heartbeat(c) \/ Run(c) \/ Outside(c) \/ SessionFails(c)
      PROVE  Behind'
  <2>1. CASE \E p \in Procs : Stream(c, p)
    BY <2>1, UnmeteredStep DEF Stream, meterVars
  <2>2. CASE \E h \in Handlers, p \in Procs :
               ForceEnd(h, c, p) \/ \E strict \in BOOLEAN : HangUp(h, c, p, strict)
    BY <2>2, UnmeteredStep DEF ForceEnd, HangUp, Begin, meterVars
  <2>3. QED
    BY <1>4, <2>1, <2>2, SessionBehind DEF Outside
<1>5. ASSUME NEW a \in Actors,
             End(a) \/ EndFails(a) \/ EndStopsUnobserved(a) \/ CleanFails(a)
      PROVE  Behind'
  BY <1>5, EndBehind
<1>6. ASSUME NEW p \in Procs, Crash(p)
      PROVE  Behind'
  BY <1>6, UnmeteredStep DEF Crash
<1>7. CASE UNCHANGED vars
  BY <1>7, UnmeteredStep DEF vars, lifeVars, meterVars
<1>8. QED
  BY <1>1, <1>2, <1>3, <1>4, <1>5, <1>6, <1>7 DEF Next

\* Whoever settles a call, and from whichever evidence, its user is charged no
\* more than the meter ran.
THEOREM NoOvercharge == Spec => []NeverOvercharged
<1>1. Init => BehindInv
  BY TypesInit, StateAssumption DEF Init, BehindInv, Behind, NoCkpt
<1>2. BehindInv /\ [Next]_vars => BehindInv'
  BY BehindStep, TypesStep DEF BehindInv
<1>3. BehindInv => NeverOvercharged
  BY DEF BehindInv, Behind, NeverOvercharged
<1>4. QED
  BY <1>1, <1>2, <1>3, PTL DEF Spec

-----------------------------------------------------------------------------
(* The rows, the sessions and the finalizers agree.  What a session may    *)
(* still do to its row, its meter and its registry entry follows from      *)
(* where its tasks are; what a finalizer may still do, from its phase.     *)

\* connected_at tells how far a row came; nothing enters "ending".
RowsAgree ==
    \A c \in Calls :
        /\ status[c] # "ending"
        /\ connectedAt[c] <=> status[c] \in {"connected", "reconnecting", "ended"}

\* A call id that ACQUIRE has not run with, or whose create is not committed, has no row.
FreshCalls ==
    /\ \A c \in Calls : status[c] # "none" => c \in minted
    /\ \A u \in Users : creating[u].phase = "leased" =>
          creating[u].call \in minted /\ status[creating[u].call] = "none"

SessionInv(c) ==
    /\ sess[c].run = "none" => sess[c].home = NoProc
    /\ sess[c].run \notin {"none", "gone"} => sess[c].home \in Procs
    /\ sess[c].run # "none" => status[c] # "none" /\ c \notin tickets
    /\ sess[c].run = "accepted" => sess[c].lc = "idle"
    /\ TasksRun(c) => c \in registry[sess[c].home] \/ status[c] \in TERMINAL
    /\ sess[c].lc = "decided" => sess[c].choice \in {"ringing", "missed", "cancelled"}
    /\ sess[c].lc = "gated" => sess[c].choice \in {"connected", "failed", "cancelled"}

\* Where lifecycle may start the meter, where "live" makes the other tasks keep it on,
\* and where it is on, the row is connected or was.
MeterInv(c) ==
    /\ sess[c].lc \in {"won", "metered", "restored"} \/ sess[c].live \/ metering[c] =>
          connectedAt[c] /\ status[c] # "reconnecting"
    /\ sess[c].live => sess[c].lc \in {"talking", "done"}
    /\ sess[c].lc = "losing" => ~metering[c]

FinalizerInv(a) ==
    LET c == fin[a].call IN
    fin[a].phase # "idle" =>
        /\ status[c] # "none"
        /\ a \in Calls => /\ c = a /\ fin[a].home = sess[a].home
                          /\ sess[a].run \in {"finalizing", "rescuing"}
        /\ fin[a].phase \in {"cooldown", "lease"} => status[c] \in TERMINAL
        /\ fin[a].strict /\ fin[a].phase # "cancel" => status[c] \in TERMINAL

Agreed ==
    /\ RowsAgree /\ FreshCalls
    /\ \A c \in Calls : SessionInv(c) /\ MeterInv(c)
    /\ \A a \in Actors : FinalizerInv(a)

AgreedInv == TypeOK /\ Reserved /\ OneActiveCallPerUser /\ Agreed

RowsKept == UNCHANGED <<status, connectedAt>>

\* What a transition and a final state do to a row.
Moves(c) ==
    \E s \in {"ringing", "connected", "reconnecting"} \cup TERMINAL :
        /\ status[c] \in ACTIVE /\ status' = [status EXCEPT ![c] = s]
        /\ connectedAt' = [connectedAt EXCEPT ![c] = @ \/ s = "connected"]
        /\ s = "ringing" => status[c] = "deciding"
        /\ s = "connected" => status[c] \in {"ringing", "reconnecting"}
        /\ s = "reconnecting" => status[c] = "connected"
        /\ s \in TERMINAL => (s = "ended" <=> connectedAt[c])

\* The transitions that the gateway, the router and the endpoint ask for.
Asked(expected, target) ==
    \/ expected = {"deciding", "ringing"} /\ target \in {"cancelled", "failed"}
    \/ expected = {"deciding"} /\ target \in {"ringing", "missed", "cancelled"}
    \/ expected = {"ringing"} /\ target \in {"connected", "failed", "cancelled"}
    \/ expected = {"connected"} /\ target = "reconnecting"
    \/ expected = {"reconnecting"} /\ target = "connected"

LEMMA TransitionMoves ==
    ASSUME StateTypeOK, RowsAgree, NEW c \in Calls, NEW expected, NEW target,
           transition_call(c, expected, target), Asked(expected, target)
    PROVE  /\ ~Transits(c, expected) => RowsKept
           /\ Transits(c, expected) => Moves(c) /\ status'[c] = target /\ target # "ended"
<1> USE DEF StateTypeOK, transition_call, Transits, Asked
<1>1. CASE ~Transits(c, expected)
  BY <1>1 DEF RowsKept
<1>2. CASE Transits(c, expected)
  <2>1. status' = [status EXCEPT ![c] = target] /\ status[c] \in expected /\ status'[c] = target
    BY <1>2
  <2>2. target \in {"ringing", "connected", "reconnecting"} \cup TERMINAL /\ status[c] \in ACTIVE
    BY <2>1 DEF TERMINAL, ACTIVE
  <2>3. connectedAt' = [connectedAt EXCEPT ![c] = @ \/ target = "connected"]
    <3>1. CASE target = "connected"
      BY <1>2, <3>1
    <3>2. CASE target # "connected"
      BY <1>2, <3>2
    <3> QED
      BY <3>1, <3>2
  <2>4. /\ target = "ringing" => status[c] = "deciding"
        /\ target = "connected" => status[c] \in {"ringing", "reconnecting"}
        /\ target = "reconnecting" => status[c] = "connected"
    BY <2>1
  <2>5. target \in TERMINAL => (target = "ended" <=> connectedAt[c])
    BY <2>1 DEF TERMINAL, RowsAgree
  <2> QED
    BY <1>2, <2>1, <2>2, <2>3, <2>4, <2>5 DEF Moves
<1> QED
  BY <1>1, <1>2

LEMMA FinalStateMoves ==
    ASSUME StateTypeOK, NEW c \in Calls, NEW reason \in Reasons, stage_final_state(c, reason)
    PROVE  /\ status[c] \notin ACTIVE => RowsKept
           /\ status[c] \in ACTIVE => Moves(c) /\ status'[c] \in TERMINAL
<1>1. CASE status[c] \notin ACTIVE
  BY <1>1 DEF stage_final_state, RowsKept
<1>2. CASE status[c] \in ACTIVE
  <2> DEFINE s == final_status(c, reason)
  <2>1. s \in TERMINAL /\ (s = "ended" <=> connectedAt[c]) /\ s # "connected"
        /\ s \notin {"ringing", "connected", "reconnecting"}
    BY DEF final_status, TERMINAL
  <2>2. status' = [status EXCEPT ![c] = s] /\ connectedAt' = connectedAt
    BY <1>2 DEF stage_final_state
  <2> HIDE DEF s
  <2>3. connectedAt' = [connectedAt EXCEPT ![c] = @ \/ s = "connected"]
    BY <2>1, <2>2 DEF StateTypeOK
  <2> QED
    BY <1>2, <2>1, <2>2, <2>3 DEF Moves, StateTypeOK
<1> QED
  BY <1>1, <1>2

\* A move keeps the rows in agreement, and what is over or was never begun so.
LEMMA MovesKeep ==
    ASSUME StateTypeOK, RowsAgree, NEW c \in Calls, RowsKept \/ Moves(c)
    PROVE  /\ RowsAgree'
           /\ \A d \in Calls : /\ status[d] = "none" <=> status'[d] = "none"
                               /\ status[d] \in TERMINAL => status'[d] = status[d]
                               /\ connectedAt[d] => connectedAt'[d]
                               /\ d # c => status'[d] = status[d] /\ connectedAt'[d] = connectedAt[d]
<1>1. CASE RowsKept
  BY <1>1 DEF RowsKept, RowsAgree
<1>2. CASE Moves(c)
  <2>1. PICK s \in {"ringing", "connected", "reconnecting"} \cup TERMINAL :
          /\ status[c] \in ACTIVE /\ status' = [status EXCEPT ![c] = s]
          /\ connectedAt' = [connectedAt EXCEPT ![c] = @ \/ s = "connected"]
          /\ s = "ringing" => status[c] = "deciding"
          /\ s = "connected" => status[c] \in {"ringing", "reconnecting"}
          /\ s = "reconnecting" => status[c] = "connected"
          /\ s \in TERMINAL => (s = "ended" <=> connectedAt[c])
    BY <1>2 DEF Moves
  <2>2. \A d \in Calls : d # c => status'[d] = status[d] /\ connectedAt'[d] = connectedAt[d]
    BY <2>1 DEF StateTypeOK
  <2>3. status'[c] = s /\ (connectedAt'[c] <=> connectedAt[c] \/ s = "connected")
    BY <2>1 DEF StateTypeOK
  <2>4. s # "none" /\ s # "ending" /\ (s = "ended" => s \in TERMINAL) /\ status[c] \notin TERMINAL \cup {"none"}
    BY <2>1 DEF ACTIVE, TERMINAL
  <2>5. connectedAt'[c] <=> s \in {"connected", "reconnecting", "ended"}
    BY <2>1, <2>3, <2>4 DEF RowsAgree, TERMINAL
  <2>6. RowsAgree'
    BY <2>2, <2>3, <2>4, <2>5 DEF RowsAgree
  <2> QED
    BY <2>2, <2>3, <2>4, <2>6
<1> QED
  BY <1>1, <1>2

\* A step of actor a and of call c's session and row, seen from everybody else.
LEMMA StepKeeps ==
    ASSUME AgreedInv, NEW c \in Calls, NEW a \in Actors,
           RowsKept \/ Moves(c),
           UNCHANGED <<minted, creating>>, tickets' \subseteq tickets,
           \A d \in Calls \ {c} :
              /\ sess'[d] = sess[d] /\ metering'[d] = metering[d]
              /\ \A p \in Procs : d \in registry[p] => d \in registry'[p],
           \A b \in Actors \ {a} : fin'[b] = fin[b],
           a # c => sess'[c].run = sess[c].run /\ sess'[c].home = sess[c].home,
           SessionInv(c)', MeterInv(c)', FinalizerInv(a)'
    PROVE  Agreed'
<1>1. StateTypeOK /\ RowsAgree /\ FreshCalls /\ AdmissionTypeOK
      /\ (\A d \in Calls : SessionInv(d) /\ MeterInv(d)) /\ (\A b \in Actors : FinalizerInv(b))
      /\ fin \in [Actors -> Finalizer]
  BY DEF AgreedInv, Agreed, TypeOK
<1>2. /\ RowsAgree'
      /\ \A d \in Calls : /\ status[d] = "none" <=> status'[d] = "none"
                          /\ status[d] \in TERMINAL => status'[d] = status[d]
                          /\ d # c => status'[d] = status[d] /\ connectedAt'[d] = connectedAt[d]
  BY <1>1, MovesKeep
<1>3. FreshCalls'
  BY <1>1, <1>2, Carried DEF FreshCalls
<1>4. \A d \in Calls : SessionInv(d)' /\ MeterInv(d)'
  <2> SUFFICES ASSUME NEW d \in Calls \ {c} PROVE SessionInv(d)' /\ MeterInv(d)'
    OBVIOUS
  <2>1. SessionInv(d)'
    <3>1. TasksRun(d) => sess[d].home \in Procs
      BY <1>1 DEF SessionInv, TasksRun
    <3> QED
      BY <1>1, <1>2, <3>1 DEF SessionInv, TasksRun
  <2>2. MeterInv(d)'
    BY <1>1, <1>2 DEF MeterInv
  <2> QED
    BY <2>1, <2>2
<1>5. \A b \in Actors : FinalizerInv(b)'
  <2> SUFFICES ASSUME NEW b \in Actors \ {a} PROVE FinalizerInv(b)'
    OBVIOUS
  <2>1. fin[b].phase # "idle" => fin[b].call \in Calls
    <3>1. fin[b] \in Finalizer
      BY <1>1
    <3> QED
      BY <3>1 DEF Finalizer, NoFinalizer
  <2>2. b \in Calls => sess'[b].run = sess[b].run /\ sess'[b].home = sess[b].home
    OBVIOUS
  <2> QED
    BY <1>1, <1>2, <2>1, <2>2 DEF FinalizerInv
<1> QED
  BY <1>2, <1>3, <1>4, <1>5 DEF Agreed

\* What every task of a session knows.
LEMMA SessionKnown ==
    ASSUME AgreedInv, NEW c \in Calls
    PROVE  /\ StateTypeOK /\ RowsAgree /\ c \in Actors
           /\ sess[c] \in Session /\ sess \in [Calls -> Session]
           /\ metering[c] \in BOOLEAN /\ metering \in [Calls -> BOOLEAN]
           /\ SessionInv(c) /\ MeterInv(c) /\ FinalizerInv(c)
           /\ sess[c].run \notin {"finalizing", "rescuing"} => fin[c].phase = "idle"
<1>1. /\ StateTypeOK /\ RowsAgree /\ c \in Actors
      /\ SessionInv(c) /\ MeterInv(c) /\ FinalizerInv(c)
      /\ sess \in [Calls -> Session] /\ metering \in [Calls -> BOOLEAN]
  BY DEF AgreedInv, Agreed, TypeOK, Actors
<1> QED
  BY <1>1 DEF FinalizerInv

\* A task of the session of c acts: nobody else's session, finalizer or registry entry moves.
Alone(c) ==
    /\ UNCHANGED <<minted, creating, tickets, registry, fin>>
    /\ \E s \in Session : sess' = [sess EXCEPT ![c] = s] /\ s.home = sess[c].home
    /\ metering' \in {[metering EXCEPT ![c] = b] : b \in BOOLEAN}

LEMMA AloneKeeps ==
    ASSUME AgreedInv, NEW c \in Calls, RowsKept \/ Moves(c), Alone(c),
           TasksRun(c), sess'[c].run \in {sess[c].run, "closing", "stopping"},
           sess'[c].lc = "decided" => sess'[c].choice \in {"ringing", "missed", "cancelled"},
           sess'[c].lc = "gated" => sess'[c].choice \in {"connected", "failed", "cancelled"},
           MeterInv(c)'
    PROVE  Agreed'
<1>1. /\ StateTypeOK /\ RowsAgree /\ c \in Actors /\ SessionInv(c) /\ fin[c].phase = "idle"
      /\ sess \in [Calls -> Session] /\ metering \in [Calls -> BOOLEAN]
  BY SessionKnown DEF TasksRun
<1>2. PICK s \in Session : sess' = [sess EXCEPT ![c] = s] /\ s.home = sess[c].home
  BY DEF Alone
<1>3. sess'[c] = s /\ \A d \in Calls \ {c} : sess'[d] = sess[d]
  BY <1>1, <1>2
<1>4. \A d \in Calls \ {c} : metering'[d] = metering[d]
  BY <1>1 DEF Alone
<1>5. UNCHANGED <<minted, creating, tickets, registry, fin>>
  BY DEF Alone
<1>6. /\ status[c] = "none" <=> status'[c] = "none"
      /\ status[c] \in TERMINAL => status'[c] = status[c]
  BY <1>1, MovesKeep
<1>7. SessionInv(c)'
  BY <1>1, <1>2, <1>3, <1>5, <1>6 DEF SessionInv, TasksRun
<1>8. FinalizerInv(c)'
  BY <1>1, <1>5 DEF FinalizerInv
<1> QED
  BY <1>1, <1>3, <1>4, <1>5, <1>7, <1>8, StepKeeps

\* What the observations of a session do to its metering, and nobody else's.
LEMMA MeteringAfter ==
    ASSUME AgreedInv, NEW c \in Calls
    PROVE  /\ \A b \in BOOLEAN : Observe(c, b) =>
                 metering' = [metering EXCEPT ![c] = b] /\ metering'[c] = b
           /\ StopLocal(c) => \/ metering' = [metering EXCEPT ![c] = FALSE] /\ metering'[c] = FALSE
                              \/ metering' = metering
           /\ metering = [metering EXCEPT ![c] = metering[c]] /\ metering[c] \in BOOLEAN
<1>1. metering \in [Calls -> BOOLEAN]
  BY SessionKnown
<1> QED
  BY <1>1 DEF Observe, StopLocal

\* lifecycle decides, waits for the ring gate and commits what came of it.
LEMMA DecideKeeps ==
    ASSUME AgreedInv, NEW c \in Calls,
           \/ \E answer \in {"ringing", "missed"} : Decide(c, answer)
           \/ \E verdict \in {"connected", "failed"} : Gate(c, verdict)
           \/ DecideCommits(c) \/ GateCommits(c)
    PROVE  Agreed'
<1>1. /\ StateTypeOK /\ RowsAgree /\ sess[c] \in Session /\ sess \in [Calls -> Session]
      /\ SessionInv(c) /\ MeterInv(c)
  BY SessionKnown
<1>2. metering = [metering EXCEPT ![c] = metering[c]] /\ metering[c] \in BOOLEAN
  BY MeteringAfter
<1>3. ASSUME NEW lc \in {"decided", "gated", "done", "ringing", "won"},
             NEW choice \in {"none", "ringing", "connected", "missed", "failed", "cancelled"},
             sess' = [sess EXCEPT ![c] = [sess[c] EXCEPT !.lc = lc, !.choice = choice]],
             UNCHANGED <<minted, creating, tickets, registry, fin, metering>>,
             RowsKept \/ Moves(c), status'[c] = "reconnecting" => status[c] = "reconnecting",
             TasksRun(c), sess[c].lc \notin {"talking", "done", "losing"},
             lc = "decided" => choice \in {"ringing", "missed", "cancelled"},
             lc = "gated" => choice \in {"connected", "failed", "cancelled"},
             lc = "won" => status'[c] = "connected"
      PROVE  Agreed'
  <2>1. [sess[c] EXCEPT !.lc = lc, !.choice = choice] \in Session
    BY <1>1, <1>3 DEF Session, Stages
  <2>2. sess'[c] = [sess[c] EXCEPT !.lc = lc, !.choice = choice]
    BY <1>1, <1>3
  <2>3. /\ sess'[c].run = sess[c].run /\ sess'[c].home = sess[c].home /\ sess'[c].lc = lc
        /\ sess'[c].choice = choice /\ sess'[c].live = sess[c].live
    BY <1>1, <2>2 DEF Session
  <2>4. Alone(c)
    BY <1>2, <1>3, <2>1, <2>2, <2>3 DEF Alone
  <2>5. (connectedAt[c] => connectedAt'[c]) /\ RowsAgree'
    BY <1>1, <1>3, MovesKeep
  <2>6. lc = "won" => connectedAt'[c] /\ status'[c] # "reconnecting"
    BY <1>3, <2>5 DEF RowsAgree
  <2>7. MeterInv(c)'
    BY <1>1, <1>3, <2>3, <2>5, <2>6 DEF MeterInv
  <2> QED
    BY <1>3, <2>3, <2>4, <2>7, AloneKeeps
<1>4. ASSUME NEW answer \in {"ringing", "missed"}, Decide(c, answer)
      PROVE  Agreed'
  <2> DEFINE choice == IF Cancelled(c) THEN "cancelled" ELSE answer
  <2>1. choice \in {"ringing", "missed", "cancelled"}
    OBVIOUS
  <2>2. sess' = [sess EXCEPT ![c] = [sess[c] EXCEPT !.lc = "decided", !.choice = choice]]
    BY <1>1, <1>4 DEF Decide
  <2>3. /\ UNCHANGED <<status, connectedAt, minted, creating, tickets, registry, fin, metering>>
        /\ TasksRun(c) /\ sess[c].lc = "deciding"
    BY <1>4 DEF Decide, rowVars, admissionVars, meterVars
  <2> HIDE DEF choice
  <2> QED
    BY <1>3, <2>1, <2>2, <2>3 DEF RowsKept
<1>5. ASSUME NEW verdict \in {"connected", "failed"}, Gate(c, verdict)
      PROVE  Agreed'
  <2> DEFINE choice == IF sess[c].stopped THEN sess[c].choice
                       ELSE IF Cancelled(c) THEN "cancelled" ELSE verdict
  <2> DEFINE lc == IF sess[c].stopped THEN "done" ELSE "gated"
  <2>1. /\ choice \in {"none", "ringing", "connected", "missed", "failed", "cancelled"}
        /\ lc \in {"done", "gated"}
        /\ lc = "gated" => choice \in {"connected", "failed", "cancelled"}
    BY <1>1 DEF Session
  <2>2. sess' = [sess EXCEPT ![c] = [sess[c] EXCEPT !.lc = lc, !.choice = choice]]
    BY <1>1, <1>5 DEF Gate, Session
  <2>3. /\ UNCHANGED <<status, connectedAt, minted, creating, tickets, registry, fin, metering>>
        /\ TasksRun(c) /\ sess[c].lc = "ringing"
    BY <1>5 DEF Gate, rowVars, admissionVars, meterVars
  <2> HIDE DEF choice, lc
  <2> QED
    BY <1>3, <2>1, <2>2, <2>3 DEF RowsKept
<1>6. CASE DecideCommits(c)
  <2> DEFINE lc == IF Transits(c, {"deciding"}) /\ sess[c].choice = "ringing"
                   THEN "ringing" ELSE "done"
  <2>1. sess' = [sess EXCEPT ![c] = [sess[c] EXCEPT !.lc = lc, !.choice = "none"]]
    BY <1>1, <1>6 DEF DecideCommits
  <2>2. /\ UNCHANGED <<minted, creating, tickets, registry, fin, metering>>
        /\ TasksRun(c) /\ sess[c].lc = "decided" /\ lc \in {"ringing", "done"}
    BY <1>6 DEF DecideCommits, admissionVars, meterVars
  <2>3. /\ RowsKept \/ Moves(c)
        /\ status'[c] \in {status[c], "ringing", "missed", "cancelled"}
    <3>1. sess[c].choice \in {"ringing", "missed", "cancelled"}
      BY <1>1, <2>2 DEF SessionInv
    <3>2. transition_call(c, {"deciding"}, sess[c].choice)
      BY <1>6 DEF DecideCommits
    <3> QED
      BY <1>1, <3>1, <3>2, TransitionMoves DEF Asked, RowsKept
  <2> HIDE DEF lc
  <2> QED
    BY <1>3, <2>1, <2>2, <2>3
<1>7. CASE GateCommits(c)
  <2> DEFINE lc == IF Transits(c, {"ringing"}) /\ sess[c].choice = "connected"
                   THEN "won" ELSE "done"
  <2>1. sess' = [sess EXCEPT ![c] = [sess[c] EXCEPT !.lc = lc, !.choice = "none"]]
    BY <1>1, <1>7 DEF GateCommits
  <2>2. /\ UNCHANGED <<minted, creating, tickets, registry, fin, metering>>
        /\ TasksRun(c) /\ sess[c].lc = "gated" /\ lc \in {"won", "done"}
    BY <1>7 DEF GateCommits, admissionVars, meterVars
  <2>3. /\ RowsKept \/ Moves(c)
        /\ status'[c] \in {status[c], "connected", "failed", "cancelled"}
        /\ lc = "won" => status'[c] = "connected"
    <3>1. sess[c].choice \in {"connected", "failed", "cancelled"}
      BY <1>1, <2>2 DEF SessionInv
    <3>2. transition_call(c, {"ringing"}, sess[c].choice)
      BY <1>7 DEF GateCommits
    <3> QED
      BY <1>1, <3>1, <3>2, TransitionMoves DEF Asked, RowsKept
  <2> HIDE DEF lc
  <2> QED
    BY <1>3, <2>1, <2>2, <2>3
<1> QED
  BY <1>4, <1>5, <1>6, <1>7

\* A task of a session acts: it may move its stage, stop the audio, observe, move the row,
\* and take the session towards its close.
LEMMA SessionMoves ==
    ASSUME AgreedInv, NEW c \in Calls, TasksRun(c), RowsKept \/ Moves(c),
           UNCHANGED <<minted, creating, tickets, registry, fin>>,
           NEW s \in Session, sess' = [sess EXCEPT ![c] = s],
           s.run \in {sess[c].run, "closing", "stopping"},
           s.home = sess[c].home, s.choice = sess[c].choice,
           s.lc \notin {"decided", "gated"} \/ s.lc = sess[c].lc,
           NEW b \in BOOLEAN, metering' = [metering EXCEPT ![c] = b],
           s.lc \in {"won", "metered", "restored"} \/ s.live \/ b =>
              connectedAt'[c] /\ status'[c] # "reconnecting",
           s.live => s.lc \in {"talking", "done"},
           s.lc = "losing" => ~b
    PROVE  Agreed'
<1>1. sess \in [Calls -> Session] /\ metering \in [Calls -> BOOLEAN] /\ SessionInv(c)
  BY SessionKnown
<1>2. sess'[c] = s /\ metering'[c] = b
  BY <1>1
<1>3. Alone(c)
  BY DEF Alone
<1>4. /\ s.lc = "decided" => s.choice \in {"ringing", "missed", "cancelled"}
      /\ s.lc = "gated" => s.choice \in {"connected", "failed", "cancelled"}
  BY <1>1 DEF SessionInv
<1>5. MeterInv(c)'
  BY <1>2 DEF MeterInv
<1> QED
  BY <1>2, <1>3, <1>4, <1>5, AloneKeeps

\* The row stays, or moves from "connected" to "reconnecting" with the meter paused; the
\* audio goes on or stops: what the meter may do is what it might have done before.
LEMMA SessionGoesOn ==
    ASSUME AgreedInv, NEW c \in Calls, TasksRun(c), UNCHANGED <<status, connectedAt>>,
           UNCHANGED <<minted, creating, tickets, registry, fin>>,
           NEW s \in Session, sess' = [sess EXCEPT ![c] = s],
           s.run \in {sess[c].run, "closing", "stopping"},
           s.home = sess[c].home, s.choice = sess[c].choice,
           s.lc = "done" \/ s.lc = sess[c].lc,
           s.live => sess[c].live,
           metering' \in {metering, [metering EXCEPT ![c] = FALSE],
                          [metering EXCEPT ![c] = sess[c].live]}
    PROVE  Agreed'
<1>1. MeterInv(c) /\ metering \in [Calls -> BOOLEAN] /\ sess[c] \in Session
  BY SessionKnown
<1>2. sess[c].live \in BOOLEAN /\ metering[c] \in BOOLEAN
  BY <1>1 DEF Session
<1>3. PICK b \in BOOLEAN : /\ metering' = [metering EXCEPT ![c] = b]
                           /\ b => metering[c] \/ sess[c].live
  BY <1>1, <1>2
<1>4. /\ s.lc \in {"won", "metered", "restored"} \/ s.live \/ b =>
           connectedAt'[c] /\ status'[c] # "reconnecting"
      /\ s.live => s.lc \in {"talking", "done"}
      /\ s.lc = "losing" => ~b
  BY <1>1, <1>3 DEF MeterInv
<1> QED
  BY <1>3, <1>4, SessionMoves DEF RowsKept

\* lifecycle once the row is connected: the meter, the talk, its loss and its recovery.
LEMMA TalkKeeps ==
    ASSUME AgreedInv, NEW c \in Calls,
           \/ StartMeter(c) \/ FirstCheckpoint(c) \/ FirstCheckpointFails(c) \/ Lose(c)
           \/ LoseCommits(c) \/ RestoreCommits(c) \/ RestoreObserves(c)
           \/ RecoveryFails(c) \/ TalkEnds(c)
    PROVE  Agreed'
<1>1. /\ StateTypeOK /\ RowsAgree /\ sess[c] \in Session /\ MeterInv(c)
  BY SessionKnown
<1>2. metering = [metering EXCEPT ![c] = metering[c]] /\ metering[c] \in BOOLEAN
  BY MeteringAfter
<1>3. CASE (StartMeter(c) /\ sess[c].stopped) \/ FirstCheckpointFails(c) \/ TalkEnds(c)
  <2> DEFINE s == [sess[c] EXCEPT !.lc = "done"]
  <2>1. /\ sess' = [sess EXCEPT ![c] = s] /\ metering' = metering /\ TasksRun(c)
        /\ UNCHANGED <<minted, creating, tickets, registry, fin, status, connectedAt>>
    <3>1. CASE StartMeter(c) /\ sess[c].stopped
      BY <3>1 DEF StartMeter, rowVars, admissionVars
    <3>2. CASE FirstCheckpointFails(c) \/ TalkEnds(c)
      BY <3>2 DEF FirstCheckpointFails, TalkEnds, rowVars, admissionVars, meterVars
    <3> QED
      BY <1>3, <3>1, <3>2
  <2>2. /\ s \in Session /\ s.run = sess[c].run /\ s.home = sess[c].home
        /\ s.choice = sess[c].choice /\ s.lc = "done" /\ (s.live => sess[c].live)
    BY <1>1 DEF Session, Stages
  <2> HIDE DEF s
  <2> QED
    BY <2>1, <2>2, SessionGoesOn
<1>4. CASE StartMeter(c) /\ ~sess[c].stopped
  <2> DEFINE s == [sess[c] EXCEPT !.lc = "metered"]
  <2>1. /\ sess' = [sess EXCEPT ![c] = s] /\ metering' = [metering EXCEPT ![c] = TRUE]
        /\ TasksRun(c) /\ sess[c].lc = "won"
        /\ UNCHANGED <<minted, creating, tickets, registry, fin, status, connectedAt>>
    BY <1>4 DEF StartMeter, Observe, rowVars, admissionVars
  <2>2. /\ s \in Session /\ s.run = sess[c].run /\ s.home = sess[c].home
        /\ s.choice = sess[c].choice /\ s.lc = "metered" /\ s.live = sess[c].live
    BY <1>1 DEF Session, Stages
  <2> HIDE DEF s
  <2>3. ~sess[c].live /\ connectedAt'[c] /\ status'[c] # "reconnecting"
    BY <1>1, <2>1 DEF MeterInv
  <2> QED
    BY <2>1, <2>2, <2>3, SessionMoves DEF RowsKept
<1>5. CASE FirstCheckpoint(c)
  <2> DEFINE s == [sess[c] EXCEPT !.lc = "talking", !.live = TRUE]
  <2>1. /\ sess' = [sess EXCEPT ![c] = s] /\ metering' = metering
        /\ TasksRun(c) /\ sess[c].lc = "metered"
        /\ UNCHANGED <<minted, creating, tickets, registry, fin, status, connectedAt>>
    BY <1>5 DEF FirstCheckpoint, rowVars, admissionVars
  <2>2. /\ s \in Session /\ s.run = sess[c].run /\ s.home = sess[c].home
        /\ s.choice = sess[c].choice /\ s.lc = "talking" /\ s.live = TRUE
    BY <1>1 DEF Session, Stages
  <2> HIDE DEF s
  <2>3. connectedAt'[c] /\ status'[c] # "reconnecting"
    BY <1>1, <2>1 DEF MeterInv
  <2> QED
    BY <1>2, <2>1, <2>2, <2>3, SessionMoves DEF RowsKept
<1>6. CASE Lose(c)
  <2> DEFINE s == [sess[c] EXCEPT !.lc = "losing", !.live = FALSE]
  <2>1. /\ sess' = [sess EXCEPT ![c] = s] /\ metering' = [metering EXCEPT ![c] = FALSE]
        /\ TasksRun(c)
        /\ UNCHANGED <<minted, creating, tickets, registry, fin, status, connectedAt>>
    BY <1>6 DEF Lose, Observe, rowVars, admissionVars
  <2>2. /\ s \in Session /\ s.run = sess[c].run /\ s.home = sess[c].home
        /\ s.choice = sess[c].choice /\ s.lc = "losing" /\ s.live = FALSE
    BY <1>1 DEF Session, Stages
  <2> HIDE DEF s
  <2> QED
    BY <2>1, <2>2, SessionMoves DEF RowsKept
<1>7. CASE LoseCommits(c)
  <2> DEFINE lc == IF Transits(c, {"connected"}) THEN "recovering" ELSE "done"
             s == [sess[c] EXCEPT !.lc = lc]
  <2>1. /\ sess' = [sess EXCEPT ![c] = s] /\ metering' = metering
        /\ TasksRun(c) /\ sess[c].lc = "losing" /\ lc \in {"recovering", "done"}
        /\ UNCHANGED <<minted, creating, tickets, registry, fin>>
        /\ transition_call(c, {"connected"}, "reconnecting")
    BY <1>7 DEF LoseCommits, admissionVars, meterVars
  <2> HIDE DEF lc
  <2>2. /\ s \in Session /\ s.run = sess[c].run /\ s.home = sess[c].home
        /\ s.choice = sess[c].choice /\ s.lc = lc /\ s.live = sess[c].live
    BY <1>1, <2>1 DEF Session, Stages
  <2> HIDE DEF s
  <2>3. RowsKept \/ Moves(c)
    BY <1>1, <2>1, TransitionMoves DEF Asked
  <2>4. ~metering[c] /\ ~sess[c].live
    BY <1>1, <2>1 DEF MeterInv
  <2> QED
    BY <1>2, <2>1, <2>2, <2>3, <2>4, SessionMoves
<1>8. CASE RestoreCommits(c)
  <2> DEFINE s == [sess[c] EXCEPT !.lc = "restored"]
  <2>1. /\ sess' = [sess EXCEPT ![c] = s] /\ metering' = metering
        /\ TasksRun(c) /\ sess[c].lc = "recovering" /\ status[c] = "reconnecting"
        /\ UNCHANGED <<minted, creating, tickets, registry, fin>>
        /\ transition_call(c, {"reconnecting"}, "connected")
    BY <1>8 DEF RestoreCommits, admissionVars, meterVars
  <2>2. /\ s \in Session /\ s.run = sess[c].run /\ s.home = sess[c].home
        /\ s.choice = sess[c].choice /\ s.lc = "restored" /\ s.live = sess[c].live
    BY <1>1 DEF Session, Stages
  <2> HIDE DEF s
  <2>3. Moves(c) /\ status'[c] = "connected"
    BY <1>1, <2>1, TransitionMoves DEF Asked, Transits
  <2>4. connectedAt'[c]
    BY <1>1, <2>3, MovesKeep DEF RowsAgree
  <2>5. ~metering[c] /\ ~sess[c].live
    BY <1>1, <2>1 DEF MeterInv
  <2> QED
    BY <1>2, <2>1, <2>2, <2>3, <2>4, <2>5, SessionMoves
<1>9. CASE RestoreObserves(c)
  <2> DEFINE s == [sess[c] EXCEPT !.lc = "talking", !.live = TRUE]
  <2>1. /\ sess' = [sess EXCEPT ![c] = s] /\ metering' = [metering EXCEPT ![c] = TRUE]
        /\ TasksRun(c) /\ sess[c].lc = "restored"
        /\ UNCHANGED <<minted, creating, tickets, registry, fin, status, connectedAt>>
    BY <1>9 DEF RestoreObserves, Observe, rowVars, admissionVars
  <2>2. /\ s \in Session /\ s.run = sess[c].run /\ s.home = sess[c].home
        /\ s.choice = sess[c].choice /\ s.lc = "talking" /\ s.live = TRUE
    BY <1>1 DEF Session, Stages
  <2> HIDE DEF s
  <2>3. connectedAt'[c] /\ status'[c] # "reconnecting"
    BY <1>1, <2>1 DEF MeterInv
  <2> QED
    BY <2>1, <2>2, <2>3, SessionMoves DEF RowsKept
<1>10. CASE RecoveryFails(c)
  <2> DEFINE s == [StoppedSession(sess[c]) EXCEPT !.lc = "done"]
  <2>1. /\ sess' = [sess EXCEPT ![c] = s] /\ TasksRun(c)
        /\ metering' \in {metering, [metering EXCEPT ![c] = FALSE]}
        /\ UNCHANGED <<minted, creating, tickets, registry, fin, status, connectedAt>>
    BY <1>10 DEF RecoveryFails, StopLocal, Observe, rowVars, admissionVars
  <2>2. /\ s \in Session /\ s.run = sess[c].run /\ s.home = sess[c].home
        /\ s.choice = sess[c].choice /\ s.lc = "done" /\ (s.live => sess[c].live)
    BY <1>1 DEF StoppedSession, Session, Stages
  <2> HIDE DEF s
  <2> QED
    BY <2>1, <2>2, SessionGoesOn
<1> QED
  BY <1>3, <1>4, <1>5, <1>6, <1>7, <1>8, <1>9, <1>10

\* heartbeat, the clock, and what takes run() to its close.
LEMMA TasksKeep ==
    ASSUME AgreedInv, NEW c \in Calls,
           \/ HeartbeatReads(c) \/ HeartbeatLosesLease(c) \/ HeartbeatCannotRenew(c)
           \/ \E ttl \in Ttls : HeartbeatRenews(c, ttl)
           \/ ClockObserves(c) \/ UserCancels(c) \/ TaskEnds(c)
           \/ CloseTransition(c) \/ CloseTransitionFails(c) \/ CloseStopsUnobserved(c)
    PROVE  Agreed'
<1>1. /\ StateTypeOK /\ RowsAgree /\ sess[c] \in Session /\ sess \in [Calls -> Session]
      /\ MeterInv(c)
  BY SessionKnown
<1>2. metering = [metering EXCEPT ![c] = metering[c]] /\ metering[c] \in BOOLEAN
  BY MeteringAfter
<1>3. ASSUME NEW s,
             \/ s = [sess[c] EXCEPT !.hb = "renew"] \/ s = [sess[c] EXCEPT !.hb = "idle"]
             \/ s = StoppedSession(sess[c]) \/ s = [StoppedSession(sess[c]) EXCEPT !.hb = "idle"]
             \/ s = [sess[c] EXCEPT !.userCancelled = TRUE, !.run = "closing"]
             \/ s = [sess[c] EXCEPT !.run = "closing"]
             \/ s = [sess[c] EXCEPT !.run = "stopping"]
      PROVE  /\ s \in Session /\ s.run \in {sess[c].run, "closing", "stopping"}
             /\ s.home = sess[c].home /\ s.choice = sess[c].choice
             /\ s.lc = sess[c].lc /\ (s.live => sess[c].live)
  <2>1. CASE \/ s = [sess[c] EXCEPT !.hb = "renew"] \/ s = [sess[c] EXCEPT !.hb = "idle"]
             \/ s = [sess[c] EXCEPT !.run = "closing"]
             \/ s = [sess[c] EXCEPT !.run = "stopping"]
    BY <1>1, <2>1 DEF Session, Beats, Runs
  <2>2. CASE s = [sess[c] EXCEPT !.userCancelled = TRUE, !.run = "closing"]
    BY <1>1, <2>2 DEF Session, Runs
  <2>3. CASE s = StoppedSession(sess[c])
    BY <1>1, <2>3 DEF StoppedSession, Session
  <2>4. CASE s = [StoppedSession(sess[c]) EXCEPT !.hb = "idle"]
    <3> DEFINE r == StoppedSession(sess[c])
    <3>1. /\ r \in Session /\ r.run = sess[c].run /\ r.home = sess[c].home
          /\ r.choice = sess[c].choice /\ r.lc = sess[c].lc /\ (r.live => sess[c].live)
      BY <1>1 DEF StoppedSession, Session
    <3> HIDE DEF r
    <3> QED
      <4>1. s = [r EXCEPT !.hb = "idle"]
        BY <2>4 DEF r
      <4> QED
        BY <3>1, <4>1 DEF Session, Beats
  <2> QED
    BY <1>3, <2>1, <2>2, <2>3, <2>4
<1>4. ASSUME NEW s,
             \/ s = [sess[c] EXCEPT !.hb = "renew"] \/ s = [sess[c] EXCEPT !.hb = "idle"]
             \/ s = StoppedSession(sess[c]) \/ s = [StoppedSession(sess[c]) EXCEPT !.hb = "idle"]
             \/ s = [sess[c] EXCEPT !.userCancelled = TRUE, !.run = "closing"]
             \/ s = [sess[c] EXCEPT !.run = "closing"]
             \/ s = [sess[c] EXCEPT !.run = "stopping"],
             sess' = [sess EXCEPT ![c] = s], TasksRun(c), UNCHANGED <<status, connectedAt>>,
             UNCHANGED <<minted, creating, tickets, registry, fin>>,
             metering' \in {metering, [metering EXCEPT ![c] = FALSE],
                            [metering EXCEPT ![c] = sess[c].live]}
      PROVE  Agreed'
  BY <1>3, <1>4, SessionGoesOn
<1>5. CASE HeartbeatReads(c)
  <2>1. /\ TasksRun(c)
        /\ UNCHANGED <<minted, creating, tickets, registry, fin, status, connectedAt>>
    BY <1>5 DEF HeartbeatReads, rowVars, admissionVars
  <2>2. CASE status[c] \in {"deciding", "ringing", "connected", "reconnecting"}
    <3>1. sess' = [sess EXCEPT ![c] = [sess[c] EXCEPT !.hb = "renew"]] /\ metering' = metering
      BY <1>5, <2>2 DEF HeartbeatReads
    <3> QED
      BY <1>4, <2>1, <3>1
  <2>3. CASE status[c] \notin {"deciding", "ringing", "connected", "reconnecting"}
    <3>1. /\ sess' = [sess EXCEPT ![c] = StoppedSession(sess[c])]
          /\ metering' \in {metering, [metering EXCEPT ![c] = FALSE]}
      BY <1>5, <2>3 DEF HeartbeatReads, StopLocal, Observe
    <3> QED
      BY <1>4, <2>1, <3>1
  <2> QED
    BY <2>2, <2>3
<1>6. ASSUME NEW ttl \in Ttls, HeartbeatRenews(c, ttl)
      PROVE  Agreed'
  <2>1. /\ TasksRun(c) /\ sess' = [sess EXCEPT ![c] = [sess[c] EXCEPT !.hb = "idle"]]
        /\ metering' = [metering EXCEPT ![c] = sess[c].live]
        /\ UNCHANGED <<minted, creating, tickets, registry, fin, status, connectedAt>>
    BY <1>6 DEF HeartbeatRenews, Observe, rowVars, admissionVars
  <2> QED
    BY <1>4, <2>1
<1>7. CASE HeartbeatLosesLease(c) \/ HeartbeatCannotRenew(c)
  <2>1. /\ TasksRun(c)
        /\ sess' = [sess EXCEPT ![c] = [StoppedSession(sess[c]) EXCEPT !.hb = "idle"]]
        /\ metering' \in {metering, [metering EXCEPT ![c] = FALSE]}
        /\ UNCHANGED <<minted, creating, tickets, registry, fin, status, connectedAt>>
    BY <1>7
    DEF HeartbeatLosesLease, HeartbeatCannotRenew, StopLocal, Observe, rowVars, admissionVars
  <2> QED
    BY <1>4, <2>1
<1>8. CASE ClockObserves(c)
  <2>1. /\ TasksRun(c) /\ sess' = sess /\ metering' = [metering EXCEPT ![c] = sess[c].live]
        /\ UNCHANGED <<minted, creating, tickets, registry, fin, status, connectedAt>>
    BY <1>8 DEF ClockObserves, Observe, rowVars, admissionVars
  <2>2. sess' = [sess EXCEPT ![c] = sess[c]]
    BY <1>1, <2>1
  <2> QED
    BY <1>1, <2>1, <2>2, SessionGoesOn
<1>9. CASE UserCancels(c) \/ TaskEnds(c)
  <2>1. /\ TasksRun(c) /\ metering' = metering
        /\ UNCHANGED <<minted, creating, tickets, registry, fin, status, connectedAt>>
        /\ \/ sess' = [sess EXCEPT ![c] = [sess[c] EXCEPT !.userCancelled = TRUE, !.run = "closing"]]
           \/ sess' = [sess EXCEPT ![c] = [sess[c] EXCEPT !.run = "closing"]]
    BY <1>9 DEF UserCancels, TaskEnds, TasksRun, rowVars, admissionVars, meterVars
  <2> QED
    BY <1>4, <2>1
<1>10. CASE (CloseTransition(c) /\ sess[c].live) \/ CloseTransitionFails(c)
  <2>1. /\ TasksRun(c) /\ metering' = metering
        /\ sess' = [sess EXCEPT ![c] = [sess[c] EXCEPT !.run = "stopping"]]
        /\ UNCHANGED <<minted, creating, tickets, registry, fin, status, connectedAt>>
    BY <1>10
    DEF CloseTransition, CloseTransitionFails, TasksRun, rowVars, admissionVars, meterVars
  <2> QED
    BY <1>4, <2>1
<1>11. CASE CloseTransition(c) /\ ~sess[c].live
  <2> DEFINE s == [sess[c] EXCEPT !.run = "stopping"]
             target == IF sess[c].userCancelled THEN "cancelled" ELSE "failed"
  <2>1. /\ sess' = [sess EXCEPT ![c] = s] /\ metering' = metering /\ TasksRun(c)
        /\ UNCHANGED <<minted, creating, tickets, registry, fin>>
        /\ target \in {"cancelled", "failed"}
        /\ transition_call(c, {"deciding", "ringing"}, target)
    BY <1>11 DEF CloseTransition, TasksRun, admissionVars, meterVars
  <2>2. /\ s \in Session /\ s.run \in {sess[c].run, "closing", "stopping"}
        /\ s.home = sess[c].home /\ s.choice = sess[c].choice
        /\ s.lc = sess[c].lc /\ (s.live => sess[c].live)
    BY <1>3
  <2> HIDE DEF s, target
  <2>3. (RowsKept \/ Moves(c)) /\ status'[c] \in {status[c], "cancelled", "failed"}
    BY <1>1, <2>1, TransitionMoves DEF Asked, RowsKept
  <2>4. connectedAt[c] => connectedAt'[c]
    BY <1>1, <2>3, MovesKeep
  <2>5. /\ s.lc \in {"won", "metered", "restored"} \/ s.live \/ metering[c] =>
             connectedAt'[c] /\ status'[c] # "reconnecting"
        /\ s.live => s.lc \in {"talking", "done"}
        /\ s.lc = "losing" => ~metering[c]
    BY <1>1, <2>2, <2>3, <2>4 DEF MeterInv
  <2> QED
    BY <1>2, <2>1, <2>2, <2>3, <2>5, SessionMoves
<1>12. CASE CloseStopsUnobserved(c)
  <2>1. /\ TasksRun(c) /\ metering' = metering
        /\ sess' = [sess EXCEPT ![c] = StoppedSession(sess[c])]
        /\ UNCHANGED <<minted, creating, tickets, registry, fin, status, connectedAt>>
    BY <1>12 DEF CloseStopsUnobserved, TasksRun, rowVars, admissionVars, meterVars
  <2> QED
    BY <1>4, <2>1
<1> QED
  BY <1>5, <1>6, <1>7, <1>8, <1>9, <1>10, <1>11, <1>12

\* Whoever moves the row, and whether or not the audio stops for it: the session itself
\* knows what it knew.
LEMMA SessionAfter ==
    ASSUME AgreedInv, NEW c \in Calls, RowsKept \/ Moves(c),
           status'[c] = "reconnecting" => status[c] = "reconnecting",
           sess'[c].run = sess[c].run, sess'[c].home = sess[c].home,
           sess'[c].choice = sess[c].choice, sess'[c].lc = sess[c].lc,
           sess'[c].live => sess[c].live, metering'[c] => metering[c],
           tickets' = tickets,
           (\A p \in Procs : c \in registry[p] => c \in registry'[p]) \/ status[c] \in TERMINAL
    PROVE  SessionInv(c)' /\ MeterInv(c)'
<1>1. StateTypeOK /\ RowsAgree /\ SessionInv(c) /\ MeterInv(c)
  BY SessionKnown
<1>2. /\ status[c] = "none" <=> status'[c] = "none"
      /\ status[c] \in TERMINAL => status'[c] = status[c]
      /\ connectedAt[c] => connectedAt'[c]
  BY <1>1, MovesKeep
<1>3. TasksRun(c)' => TasksRun(c)
  BY DEF TasksRun
<1>4. TasksRun(c) => sess[c].home \in Procs
  BY <1>1 DEF SessionInv, TasksRun
<1>5. SessionInv(c)'
  BY <1>1, <1>2, <1>3, <1>4 DEF SessionInv
<1>6. MeterInv(c)'
  BY <1>1, <1>2 DEF MeterInv
<1> QED
  BY <1>5, <1>6

\* The socket is accepted: this call has had no session before.
LEMMA StreamKeeps ==
    ASSUME AgreedInv, NEW c \in Calls, NEW p \in Procs, Stream(c, p)
    PROVE  Agreed' /\ sess[c].run = "none"
<1>1. /\ sess \in [Calls -> Session] /\ c \in Actors
      /\ SessionInv(c) /\ MeterInv(c) /\ FinalizerInv(c)
      /\ sess[c].run \notin {"finalizing", "rescuing"} => fin[c].phase = "idle"
  BY SessionKnown
<1>2. /\ sess' = [sess EXCEPT ![c] = [NoSession EXCEPT !.run = "accepted", !.home = p]]
      /\ tickets' = tickets \ {c} /\ c \in tickets
      /\ UNCHANGED <<status, connectedAt, minted, creating, registry, fin, metering>>
  BY DEF Stream, ConsumeTicket, Consumable, rowVars, meterVars
<1>3. /\ sess'[c].run = "accepted" /\ sess'[c].home = p /\ sess'[c].lc = "idle"
      /\ sess'[c].live = FALSE
  BY <1>1, <1>2 DEF NoSession
<1>4. sess[c].run = "none"
  BY <1>1, <1>2 DEF SessionInv
<1>5. SessionInv(c)'
  <2>1. status[c] # "none"
    BY DEF Stream, ConsumeTicket, Consumable
  <2> QED
    BY <1>2, <1>3, <2>1 DEF SessionInv, TasksRun
<1>6. MeterInv(c)'
  BY <1>1, <1>2, <1>3 DEF MeterInv
<1>7. FinalizerInv(c)'
  BY <1>1, <1>2, <1>4 DEF FinalizerInv
<1>8. \A d \in Calls \ {c} : sess'[d] = sess[d]
  BY <1>1, <1>2
<1> QED
  BY <1>1, <1>2, <1>4, <1>5, <1>6, <1>7, <1>8, StepKeeps DEF RowsKept

LEMMA RegisterKeeps ==
    ASSUME AgreedInv, NEW c \in Calls, Register(c)
    PROVE  Agreed'
<1>1. /\ sess \in [Calls -> Session] /\ sess[c] \in Session /\ c \in Actors
      /\ SessionInv(c) /\ MeterInv(c) /\ FinalizerInv(c)
      /\ sess[c].run \notin {"finalizing", "rescuing"} => fin[c].phase = "idle"
  BY SessionKnown
<1>2. registry \in [Procs -> SUBSET Calls] /\ sess[c].home \in Procs
  BY <1>1 DEF AgreedInv, TypeOK, Register, SessionInv
<1>3. /\ sess' = [sess EXCEPT ![c] = [sess[c] EXCEPT !.run = "running", !.lc = "deciding"]]
      /\ registry' = [registry EXCEPT ![sess[c].home] = @ \cup {c}]
      /\ sess[c].run = "accepted"
      /\ UNCHANGED <<status, connectedAt, minted, creating, tickets, fin, metering>>
  BY DEF Register, rowVars, admissionVars, meterVars
<1>4. /\ sess'[c].run = "running" /\ sess'[c].home = sess[c].home /\ sess'[c].lc = "deciding"
      /\ sess'[c].live = sess[c].live
  BY <1>1, <1>3 DEF Session
<1>5. c \in registry'[sess[c].home] /\ \A p \in Procs : registry[p] \subseteq registry'[p]
  BY <1>2, <1>3
<1>6. SessionInv(c)'
  BY <1>1, <1>2, <1>3, <1>4, <1>5 DEF SessionInv
<1>7. ~sess[c].live
  BY <1>1, <1>3 DEF SessionInv, MeterInv
<1>8. MeterInv(c)'
  BY <1>1, <1>3, <1>4, <1>7 DEF MeterInv
<1>9. FinalizerInv(c)'
  BY <1>1, <1>3 DEF FinalizerInv
<1>10. \A d \in Calls \ {c} : sess'[d] = sess[d]
  BY <1>1, <1>3
<1> QED
  BY <1>1, <1>3, <1>5, <1>6, <1>8, <1>9, <1>10, StepKeeps DEF RowsKept

\* The endpoint fails what never connected and takes up end_call once more.
LEMMA RescueKeeps ==
    ASSUME AgreedInv, NEW c \in Calls, Rescue(c), sess[c].run \in {"accepted", "failed"}
    PROVE  Agreed'
<1>1. /\ StateTypeOK /\ RowsAgree /\ c \in Actors
      /\ sess \in [Calls -> Session] /\ sess[c] \in Session
      /\ SessionInv(c) /\ MeterInv(c)
  BY SessionKnown
<1>2. fin \in [Actors -> Finalizer]
  BY DEF AgreedInv, TypeOK
<1> DEFINE f == [phase |-> "stop", call |-> c, home |-> sess[c].home,
                 local |-> c \in registry[sess[c].home], reason |-> "other", strict |-> FALSE]
<1>3. /\ sess' = [sess EXCEPT ![c] = [sess[c] EXCEPT !.run = "rescuing"]]
      /\ fin' = [fin EXCEPT ![c] = f]
      /\ transition_call(c, {"deciding", "ringing"}, "failed")
      /\ UNCHANGED <<minted, creating, tickets, registry, metering>>
  BY DEF Rescue, admissionVars, meterVars
<1>4. (RowsKept \/ Moves(c)) /\ status'[c] \in {status[c], "failed"}
  BY <1>1, <1>3, TransitionMoves DEF Asked, RowsKept
<1>5. /\ status[c] = "none" <=> status'[c] = "none"
      /\ connectedAt[c] => connectedAt'[c]
  BY <1>1, <1>4, MovesKeep
<1>6. /\ sess'[c].run = "rescuing" /\ sess'[c].home = sess[c].home /\ sess'[c].lc = sess[c].lc
      /\ sess'[c].live = sess[c].live /\ sess'[c].choice = sess[c].choice
  BY <1>1, <1>3 DEF Session
<1>7. SessionInv(c)'
  BY <1>1, <1>3, <1>5, <1>6 DEF SessionInv, TasksRun
<1>8. MeterInv(c)'
  BY <1>1, <1>3, <1>4, <1>5, <1>6 DEF MeterInv
<1>9. FinalizerInv(c)'
  <2>1. fin'[c] = f
    BY <1>1, <1>2, <1>3
  <2>2. status'[c] # "none"
    BY <1>1, <1>5 DEF SessionInv
  <2> QED
    BY <1>1, <1>6, <2>1, <2>2 DEF FinalizerInv
<1>10. \A d \in Calls \ {c} : sess'[d] = sess[d]
  BY <1>1, <1>3
<1>11. \A b \in Actors \ {c} : fin'[b] = fin[b]
  BY <1>2, <1>3
<1> QED
  BY <1>1, <1>3, <1>4, <1>7, <1>8, <1>9, <1>10, <1>11, StepKeeps

\* run() stops its own audio and becomes the call's finalizer.
LEMMA CloseStopsKeeps ==
    ASSUME AgreedInv, NEW c \in Calls, CloseStops(c)
    PROVE  Agreed'
<1>1. /\ c \in Actors /\ sess \in [Calls -> Session] /\ sess[c] \in Session
      /\ metering \in [Calls -> BOOLEAN] /\ SessionInv(c) /\ MeterInv(c)
  BY SessionKnown
<1>2. fin \in [Actors -> Finalizer]
  BY DEF AgreedInv, TypeOK
<1> DEFINE s == [StoppedSession(sess[c]) EXCEPT !.run = "finalizing", !.lc = "done",
                                                !.hb = "idle", !.choice = "none"]
           f == [phase |-> "stop", call |-> c, home |-> sess[c].home,
                 local |-> c \in registry[sess[c].home],
                 reason |-> IF sess[c].userCancelled THEN "user_hangup" ELSE "other",
                 strict |-> FALSE]
<1>3. /\ sess' = [sess EXCEPT ![c] = s] /\ fin' = [fin EXCEPT ![c] = f]
      /\ sess[c].run = "stopping"
      /\ metering' \in {metering, [metering EXCEPT ![c] = FALSE]}
      /\ UNCHANGED <<status, connectedAt, minted, creating, tickets, registry>>
  BY DEF CloseStops, StopLocal, Observe, rowVars, admissionVars
<1>4. /\ s.run = "finalizing" /\ s.home = sess[c].home /\ s.lc = "done"
      /\ (s.live => sess[c].live)
  <2> DEFINE r == StoppedSession(sess[c])
  <2>1. r \in Session /\ r.home = sess[c].home /\ (r.live => sess[c].live)
    BY <1>1 DEF StoppedSession, Session
  <2>2. s = [r EXCEPT !.run = "finalizing", !.lc = "done", !.hb = "idle", !.choice = "none"]
    OBVIOUS
  <2> HIDE DEF r, s
  <2> QED
    BY <2>1, <2>2 DEF Session
<1>5. /\ f.phase = "stop" /\ f.call = c /\ f.home = sess[c].home /\ f.strict = FALSE
  OBVIOUS
<1> HIDE DEF s, f
<1>6. sess'[c] = s /\ \A d \in Calls \ {c} : sess'[d] = sess[d]
  BY <1>1, <1>3
<1>7. fin'[c] = f /\ \A b \in Actors \ {c} : fin'[b] = fin[b]
  BY <1>1, <1>2, <1>3
<1>8. (metering'[c] => metering[c]) /\ \A d \in Calls \ {c} : metering'[d] = metering[d]
  BY <1>1, <1>3
<1>9. SessionInv(c)'
  BY <1>1, <1>3, <1>4, <1>6 DEF SessionInv, TasksRun
<1>10. MeterInv(c)'
  BY <1>1, <1>3, <1>4, <1>6, <1>8 DEF MeterInv
<1>11. FinalizerInv(c)'
  BY <1>1, <1>3, <1>4, <1>5, <1>6, <1>7 DEF FinalizerInv, SessionInv
<1> QED
  BY <1>1, <1>3, <1>6, <1>7, <1>8, <1>9, <1>10, <1>11, StepKeeps DEF RowsKept

\* What every finalizer at work knows.
LEMMA FinalizerKnown ==
    ASSUME AgreedInv, NEW a \in Actors, fin[a].phase # "idle"
    PROVE  /\ fin[a] \in Finalizer /\ fin \in [Actors -> Finalizer]
           /\ fin[a].call \in Calls /\ fin[a].reason \in Reasons
           /\ FinalizerInv(a) /\ status[fin[a].call] # "none"
           /\ a \in Calls => fin[a].call = a /\ sess[a].run \in {"finalizing", "rescuing"}
<1>1. fin[a] \in Finalizer /\ fin \in [Actors -> Finalizer] /\ FinalizerInv(a)
  BY DEF AgreedInv, Agreed, TypeOK
<1>2. fin[a].call \in Calls /\ fin[a].reason \in Reasons
  BY <1>1 DEF Finalizer, NoFinalizer
<1>3. /\ status[fin[a].call] # "none"
      /\ a \in Calls => fin[a].call = a /\ sess[a].run \in {"finalizing", "rescuing"}
  BY <1>1 DEF FinalizerInv
<1> QED
  BY <1>1, <1>2, <1>3

\* An end_call moves on: its phase, the row of its call, the audio of its call.
LEMMA EndMoves ==
    ASSUME AgreedInv, NEW a \in Actors, NEW c \in Calls, c = fin[a].call,
           fin[a].phase # "idle",
           RowsKept \/ Moves(c), status'[c] = "reconnecting" => status[c] = "reconnecting",
           UNCHANGED <<minted, creating, tickets, registry>>,
           sess' \in {sess, [sess EXCEPT ![c] = StoppedSession(sess[c])]},
           metering' \in {metering, [metering EXCEPT ![c] = FALSE]},
           NEW f, fin' = [fin EXCEPT ![a] = f],
           \/ f = NoFinalizer
           \/ /\ f.phase \in {"stop", "commit", "cooldown", "lease"}
              /\ f.call = c /\ f.home = fin[a].home /\ f.strict = fin[a].strict
              /\ f.phase \in {"cooldown", "lease"} \/ f.strict => status'[c] \in TERMINAL
    PROVE  Agreed'
<1>1. /\ StateTypeOK /\ RowsAgree
      /\ sess \in [Calls -> Session] /\ sess[c] \in Session
      /\ metering \in [Calls -> BOOLEAN]
  BY SessionKnown
<1>2. fin \in [Actors -> Finalizer] /\ FinalizerInv(a) /\ status[c] # "none"
  BY FinalizerKnown
<1>3. /\ StoppedSession(sess[c]).run = sess[c].run /\ StoppedSession(sess[c]).home = sess[c].home
      /\ StoppedSession(sess[c]).choice = sess[c].choice /\ StoppedSession(sess[c]).lc = sess[c].lc
      /\ (StoppedSession(sess[c]).live => sess[c].live)
  BY <1>1 DEF StoppedSession, Session
<1>4. /\ sess'[c].run = sess[c].run /\ sess'[c].home = sess[c].home
      /\ sess'[c].choice = sess[c].choice /\ sess'[c].lc = sess[c].lc
      /\ (sess'[c].live => sess[c].live)
      /\ \A d \in Calls \ {c} : sess'[d] = sess[d]
  BY <1>1, <1>3
<1>5. (metering'[c] => metering[c]) /\ \A d \in Calls \ {c} : metering'[d] = metering[d]
  BY <1>1
<1>6. SessionInv(c)' /\ MeterInv(c)'
  BY <1>4, <1>5, SessionAfter
<1>7. fin'[a] = f /\ \A b \in Actors \ {a} : fin'[b] = fin[b]
  BY <1>2
<1>8. FinalizerInv(a)'
  <2>1. status[c] = "none" <=> status'[c] = "none"
    BY <1>1, MovesKeep
  <2>2. CASE f = NoFinalizer
    BY <1>7, <2>2 DEF FinalizerInv, NoFinalizer
  <2>3. CASE f # NoFinalizer
    BY <1>2, <1>4, <1>7, <2>1, <2>3 DEF FinalizerInv
  <2> QED
    BY <2>2, <2>3
<1> QED
  BY <1>4, <1>5, <1>6, <1>7, <1>8, StepKeeps

\* An end_call returns or raises: the session whose own it was is closed or failed, and
\* the handle goes only with a call that is over.
LEMMA EndLeaves ==
    ASSUME AgreedInv, NEW a \in Actors, NEW c \in Calls, c = fin[a].call,
           fin[a].phase # "idle", NEW ok \in BOOLEAN, Leave(a, ok),
           UNCHANGED <<status, connectedAt, minted, creating, tickets, metering>>,
           registry' = registry
           \/ /\ registry' = [registry EXCEPT ![fin[a].home] = @ \ {c}]
              /\ fin[a].phase = "lease"
    PROVE  Agreed'
<1>1. /\ FinalizerInv(a) /\ status[c] # "none"
      /\ fin \in [Actors -> Finalizer]
      /\ a \in Calls => c = a /\ sess[a].run \in {"finalizing", "rescuing"}
  BY FinalizerKnown
<1>2. /\ sess \in [Calls -> Session] /\ sess[c] \in Session
      /\ SessionInv(c) /\ MeterInv(c)
  BY <1>1, SessionKnown
<1>3. registry \in [Procs -> SUBSET Calls]
  BY DEF AgreedInv, TypeOK
<1>4. fin'[a] = NoFinalizer /\ \A b \in Actors \ {a} : fin'[b] = fin[b]
  BY <1>1 DEF Leave
<1>5. FinalizerInv(a)'
  BY <1>4 DEF FinalizerInv, NoFinalizer
<1>6. /\ \A p \in Procs, d \in Calls \ {c} : d \in registry[p] => d \in registry'[p]
      /\ (\A p \in Procs : c \in registry[p] => c \in registry'[p]) \/ status[c] \in TERMINAL
  <2>1. CASE registry' = registry
    BY <2>1
  <2>2. CASE registry' # registry
    <3>1. status[c] \in TERMINAL
      BY <1>1, <2>2 DEF FinalizerInv
    <3> QED
      BY <1>3, <2>2, <3>1
  <2> QED
    BY <2>1, <2>2
<1>7. CASE a \notin Calls
  <2>1. sess' = sess
    BY <1>7 DEF Leave
  <2>2. SessionInv(c)' /\ MeterInv(c)'
    BY <1>1, <1>6, <2>1, SessionAfter DEF RowsKept
  <2> QED
    BY <1>1, <1>4, <1>5, <1>6, <2>1, <2>2, StepKeeps DEF RowsKept
<1>8. CASE a \in Calls
  <2> DEFINE s == IF ~ok /\ sess[a].run = "finalizing"
                  THEN [sess[a] EXCEPT !.run = "failed"] ELSE Gone
  <2>1. sess' = [sess EXCEPT ![a] = s] /\ c = a
    BY <1>1, <1>8 DEF Leave
  <2>2. /\ s.run \in {"failed", "gone"} /\ (s.run = "failed" => s.home = sess[a].home)
        /\ s.lc \in {sess[a].lc, "idle"} /\ s.choice \in {sess[a].choice, "none"}
        /\ (s.live => sess[a].live /\ s.lc = sess[a].lc)
        /\ (s.lc \in {"decided", "gated"} => s.choice = sess[a].choice)
    BY <1>2, <2>1 DEF Session, Gone, NoSession
  <2> HIDE DEF s
  <2>3. sess'[c] = s /\ \A d \in Calls \ {c} : sess'[d] = sess[d]
    BY <1>2, <2>1
  <2>4. SessionInv(c)'
    BY <1>1, <1>2, <2>1, <2>2, <2>3 DEF SessionInv, TasksRun
  <2>5. MeterInv(c)'
    BY <1>2, <2>1, <2>2, <2>3 DEF MeterInv
  <2> QED
    BY <1>1, <1>4, <1>5, <1>6, <2>1, <2>3, <2>4, <2>5, StepKeeps DEF RowsKept
<1> QED
  BY <1>7, <1>8

\* end_call, step by step.
LEMMA EndKeeps ==
    ASSUME AgreedInv, NEW a \in Actors,
           End(a) \/ EndFails(a) \/ EndStopsUnobserved(a) \/ CleanFails(a)
    PROVE  Agreed'
<1> DEFINE c == fin[a].call
<1>1. fin[a].phase # "idle"
  BY DEF End, RouterCancels, EndStops, EndCommits, CheckpointMissing, CleanCooldown,
         CleanLease, EndReturns, EndFails, EndStopsUnobserved, CleanFails
<1>2. /\ c \in Calls /\ fin[a] \in Finalizer /\ fin[a].reason \in Reasons
      /\ FinalizerInv(a) /\ status[c] # "none"
  BY <1>1, FinalizerKnown
<1>3. StateTypeOK /\ RowsAgree
  BY <1>2, SessionKnown
<1>4. ASSUME NEW phase \in {"stop", "commit", "cooldown", "lease"}, NEW b
      PROVE  /\ [fin[a] EXCEPT !.phase = phase].phase = phase
             /\ [fin[a] EXCEPT !.phase = phase].call = c
             /\ [fin[a] EXCEPT !.phase = phase].home = fin[a].home
             /\ [fin[a] EXCEPT !.phase = phase].strict = fin[a].strict
             /\ [fin[a] EXCEPT !.phase = phase, !.local = b].phase = phase
             /\ [fin[a] EXCEPT !.phase = phase, !.local = b].call = c
             /\ [fin[a] EXCEPT !.phase = phase, !.local = b].home = fin[a].home
             /\ [fin[a] EXCEPT !.phase = phase, !.local = b].strict = fin[a].strict
  BY <1>2 DEF Finalizer, NoFinalizer
<1>5. CASE RouterCancels(a)
  <2> DEFINE found == c \in registry[fin[a].home]
             refused == /\ fin[a].strict /\ ~Transits(c, {"deciding", "ringing"})
                        /\ connectedAt[c] \/ status[c] \notin TERMINAL
             f == IF refused THEN NoFinalizer
                  ELSE [fin[a] EXCEPT !.phase = "stop", !.local = found]
  <2>1. /\ fin' = [fin EXCEPT ![a] = f] /\ sess' = sess /\ metering' = metering
        /\ transition_call(c, {"deciding", "ringing"}, "cancelled")
        /\ UNCHANGED <<minted, creating, tickets, registry>>
    BY <1>5 DEF RouterCancels, admissionVars, meterVars
  <2>2. /\ RowsKept \/ Moves(c)
        /\ Transits(c, {"deciding", "ringing"}) => status'[c] = "cancelled"
        /\ ~Transits(c, {"deciding", "ringing"}) => status'[c] = status[c]
    BY <1>2, <1>3, <2>1, TransitionMoves DEF Asked, RowsKept
  <2>3. status'[c] = "reconnecting" => status[c] = "reconnecting"
    BY <2>2
  <2>4. ~refused /\ fin[a].strict => status'[c] \in TERMINAL
    BY <2>2 DEF TERMINAL
  <2>5. \/ f = NoFinalizer
        \/ /\ f.phase = "stop" /\ f.call = c /\ f.home = fin[a].home /\ f.strict = fin[a].strict
           /\ f.strict => status'[c] \in TERMINAL
    <3>1. CASE refused
      BY <3>1
    <3>2. CASE ~refused
      <4> DEFINE g == [fin[a] EXCEPT !.phase = "stop", !.local = found]
      <4>1. f = g
        BY <3>2
      <4>2. g.phase = "stop" /\ g.call = c /\ g.home = fin[a].home /\ g.strict = fin[a].strict
        BY <1>4
      <4> HIDE DEF f, g
      <4> QED
        BY <2>4, <3>2, <4>1, <4>2
    <3> QED
      BY <3>1, <3>2
  <2> HIDE DEF f
  <2> QED
    BY <1>1, <1>2, <2>1, <2>2, <2>3, <2>5, EndMoves
<1>6. CASE EndStops(a)
  <2> DEFINE f == [fin[a] EXCEPT !.phase = "commit"]
  <2>1. /\ fin' = [fin EXCEPT ![a] = f] /\ fin[a].phase = "stop"
        /\ sess' \in {sess, [sess EXCEPT ![c] = StoppedSession(sess[c])]}
        /\ metering' \in {metering, [metering EXCEPT ![c] = FALSE]}
        /\ UNCHANGED <<status, connectedAt, minted, creating, tickets, registry>>
    BY <1>6 DEF EndStops, StopLocal, Observe, rowVars, admissionVars
  <2>2. f.phase = "commit" /\ f.call = c /\ f.home = fin[a].home /\ f.strict = fin[a].strict
    BY <1>4
  <2>3. fin[a].strict => status'[c] \in TERMINAL
    BY <1>2, <2>1 DEF FinalizerInv
  <2> HIDE DEF f
  <2> QED
    BY <1>1, <1>2, <2>1, <2>2, <2>3, EndMoves DEF RowsKept
<1>7. CASE EndStopsUnobserved(a)
  BY <1>1, <1>2, <1>7, EndMoves
  DEF EndStopsUnobserved, RowsKept, rowVars, admissionVars, meterVars
<1>8. CASE EndCommits(a)
  <2> DEFINE f == [fin[a] EXCEPT !.phase = "cooldown"]
  <2>1. /\ fin' = [fin EXCEPT ![a] = f] /\ sess' = sess /\ metering' = metering
        /\ stage_final_state(c, fin[a].reason)
        /\ UNCHANGED <<minted, creating, tickets, registry>>
    BY <1>8 DEF EndCommits, admissionVars
  <2>2. f.phase = "cooldown" /\ f.call = c /\ f.home = fin[a].home /\ f.strict = fin[a].strict
    BY <1>4
  <2>3. (RowsKept \/ Moves(c)) /\ status'[c] \in TERMINAL
    <3>1. status[c] \in ACTIVE \cup TERMINAL
      BY <1>2, <1>3 DEF StateTypeOK
    <3> QED
      BY <1>2, <1>3, <2>1, <3>1, FinalStateMoves DEF RowsKept
  <2>4. status'[c] # "reconnecting"
    BY <2>3 DEF TERMINAL
  <2> HIDE DEF f
  <2> QED
    BY <1>1, <1>2, <2>1, <2>2, <2>3, <2>4, EndMoves
<1>9. CASE CheckpointMissing(a) \/ EndFails(a)
  BY <1>1, <1>2, <1>9, EndLeaves
  DEF CheckpointMissing, EndFails, rowVars, admissionVars, meterVars
<1>10. CASE \/ CleanCooldown(a)
            \/ CleanFails(a) /\ ~EndReturns(a, FALSE)
  <2> DEFINE f == [fin[a] EXCEPT !.phase = "lease"]
  <2>1. /\ fin' = [fin EXCEPT ![a] = f] /\ fin[a].phase = "cooldown"
        /\ sess' = sess /\ metering' = metering
        /\ UNCHANGED <<status, connectedAt, minted, creating, tickets, registry>>
    BY <1>10 DEF CleanCooldown, CleanFails, rowVars, admissionVars, meterVars
  <2>2. f.phase = "lease" /\ f.call = c /\ f.home = fin[a].home /\ f.strict = fin[a].strict
    BY <1>4
  <2>3. status'[c] \in TERMINAL
    BY <1>2, <2>1 DEF FinalizerInv
  <2> HIDE DEF f
  <2> QED
    BY <1>1, <1>2, <2>1, <2>2, <2>3, EndMoves DEF RowsKept
<1>11. ASSUME NEW released \in BOOLEAN, EndReturns(a, released)
       PROVE  Agreed'
  BY <1>1, <1>2, <1>11, EndLeaves DEF EndReturns, rowVars, admissionVars, meterVars
<1> QED
  BY <1>5, <1>6, <1>7, <1>8, <1>9, <1>10, <1>11 DEF End, CleanLease, CleanFails

\* Whoever begins an end_call has seen a row, and one that cleans has seen it over.
LEMMA BeginKeeps ==
    ASSUME AgreedInv, NEW a \in Actors \ Calls, NEW c \in Calls, NEW p \in Procs,
           NEW phase \in Phases, NEW reason \in Reasons, NEW strict \in BOOLEAN,
           Begin(a, c, p, phase, reason, strict), status[c] # "none",
           phase \in {"cooldown", "lease"} \/ (strict /\ phase # "cancel") => status[c] \in TERMINAL
    PROVE  Agreed'
<1> DEFINE f == [phase |-> phase, call |-> c, home |-> p,
                 local |-> phase # "cooldown" /\ c \in registry[p],
                 reason |-> reason, strict |-> strict]
<1>1. /\ fin' = [fin EXCEPT ![a] = f] /\ sess' = sess /\ metering' = metering
      /\ UNCHANGED <<status, connectedAt, minted, creating, tickets, registry>>
  BY DEF Begin, rowVars, admissionVars, meterVars
<1>2. f.phase = phase /\ f.call = c /\ f.strict = strict
  OBVIOUS
<1> HIDE DEF f
<1>3. fin'[a] = f /\ \A b \in Actors \ {a} : fin'[b] = fin[b]
  BY <1>1 DEF AgreedInv, TypeOK
<1>4. SessionInv(c)' /\ MeterInv(c)'
  BY <1>1, SessionAfter DEF RowsKept
<1>5. FinalizerInv(a)'
  BY <1>1, <1>2, <1>3 DEF FinalizerInv
<1> QED
  BY <1>1, <1>3, <1>4, <1>5, StepKeeps DEF RowsKept

\* Users, administrators and reconcile; time; steps that see no row, session or finalizer.
LEMMA CallersKeep ==
    ASSUME AgreedInv,
           \/ Reconcile \/ Tick \/ UNCHANGED vars
           \/ \E c \in Calls, h \in Handlers, p \in Procs :
                 ForceEnd(h, c, p) \/ \E strict \in BOOLEAN : HangUp(h, c, p, strict)
    PROVE  Agreed'
<1>1. Reconciler \in Actors \ Calls /\ Handlers \subseteq Actors \ Calls
  BY LifecycleAssumption DEF Actors
<1>2. /\ {"cancel", "stop", "cooldown"} \subseteq Phases /\ {"user_hangup", "other"} \subseteq Reasons
      /\ "none" \notin ACTIVE \cup TERMINAL
  BY DEF Phases, Reasons, ACTIVE, TERMINAL
<1>3. ASSUME NEW c \in Calls, NEW p \in Procs, ReconcileEnds(c, p) \/ ReconcileCleans(c, p)
      PROVE  Agreed'
  <2>1. CASE ReconcileEnds(c, p)
    BY <1>1, <1>2, <2>1, BeginKeeps DEF ReconcileEnds
  <2>2. CASE ReconcileCleans(c, p)
    BY <1>1, <1>2, <2>2, BeginKeeps DEF ReconcileCleans
  <2> QED
    BY <1>3, <2>1, <2>2
<1>4. ASSUME NEW c \in Calls, NEW h \in Handlers, NEW p \in Procs, ForceEnd(h, c, p)
      PROVE  Agreed'
  BY <1>1, <1>2, <1>4, BeginKeeps DEF ForceEnd
<1>5. ASSUME NEW c \in Calls, NEW h \in Handlers, NEW p \in Procs, NEW strict \in BOOLEAN,
             HangUp(h, c, p, strict)
      PROVE  Agreed'
  <2> DEFINE phase == IF strict \/ status[c] \in {"deciding", "ringing"} THEN "cancel" ELSE "stop"
  <2>1. /\ phase \in {"cancel", "stop"} /\ (strict => phase = "cancel")
        /\ status[c] # "none" /\ Begin(h, c, p, phase, "user_hangup", strict)
    BY <1>5 DEF HangUp
  <2> HIDE DEF phase
  <2> QED
    BY <1>1, <1>2, <2>1, BeginKeeps
<1>6. CASE ReconcilePrunes \/ Tick \/ UNCHANGED vars
  <2>1. UNCHANGED <<status, connectedAt, minted, creating, tickets, registry, fin, sess, metering>>
    BY <1>6
    DEF ReconcilePrunes, Tick, RowTick, vars, lifeVars, meterVars, rowVars, admissionVars
  <2>2. Agreed
    BY DEF AgreedInv
  <2> QED
    BY <2>1, <2>2
    DEF Agreed, RowsAgree, FreshCalls, SessionInv, MeterInv, FinalizerInv, TasksRun
<1> QED
  BY <1>3, <1>4, <1>5, <1>6 DEF Reconcile

\* A crash ends the sessions, finalizers and creates of a process at once.
LEMMA CrashKeeps ==
    ASSUME AgreedInv, NEW p \in Procs, Crash(p)
    PROVE  Agreed'
<1>1. /\ Agreed /\ fin \in [Actors -> Finalizer] /\ sess \in [Calls -> Session]
      /\ registry \in [Procs -> SUBSET Calls] /\ creating \in [Users -> {Idle} \cup Creation]
  BY DEF AgreedInv, TypeOK, AdmissionTypeOK
<1>2. UNCHANGED <<status, connectedAt, tickets, minted>>
  BY DEF Crash, rowVars
<1>3. /\ \A c \in Calls : sess'[c] = IF sess[c].home = p THEN Gone ELSE sess[c]
      /\ \A c \in Calls : metering'[c] => metering[c]
      /\ \A a \in Actors : fin'[a] = IF fin[a].home = p THEN NoFinalizer ELSE fin[a]
      /\ \A q \in Procs \ {p} : registry'[q] = registry[q]
      /\ \A u \in Users : creating'[u] \in {Idle, creating[u]}
  BY <1>1 DEF Crash
<1>4. RowsAgree' /\ FreshCalls'
  BY <1>1, <1>2, <1>3 DEF Agreed, RowsAgree, FreshCalls, Idle
<1>5. /\ Gone.run = "gone" /\ Gone.home = NoProc /\ Gone.lc = "idle" /\ Gone.live = FALSE
      /\ NoFinalizer.phase = "idle"
  BY DEF Gone, NoSession, NoFinalizer
<1>6. ASSUME NEW c \in Calls PROVE SessionInv(c)' /\ MeterInv(c)'
  <2>1. SessionInv(c) /\ MeterInv(c)
    BY <1>1 DEF Agreed
  <2>2. CASE sess[c].home = p
    <3>1. sess[c].run # "none"
      BY <2>1, <2>2, LifecycleAssumption DEF SessionInv
    <3>2. SessionInv(c)'
      BY <1>2, <1>3, <1>5, <2>1, <2>2, <3>1 DEF SessionInv, TasksRun
    <3>3. MeterInv(c)'
      BY <1>2, <1>3, <1>5, <2>1, <2>2 DEF MeterInv
    <3> QED
      BY <3>2, <3>3
  <2>3. CASE sess[c].home # p
    <3>1. sess'[c] = sess[c]
      BY <1>3, <2>3
    <3>2. SessionInv(c)'
      BY <1>2, <1>3, <2>1, <2>3, <3>1 DEF SessionInv, TasksRun
    <3>3. MeterInv(c)'
      BY <1>2, <1>3, <2>1, <3>1 DEF MeterInv
    <3> QED
      BY <3>2, <3>3
  <2> QED
    BY <2>2, <2>3
<1>7. ASSUME NEW a \in Actors PROVE FinalizerInv(a)'
  <2>1. FinalizerInv(a)
    BY <1>1 DEF Agreed
  <2>2. CASE fin[a].home = p
    BY <1>3, <1>5, <2>2 DEF FinalizerInv
  <2>3. CASE fin[a].home # p
    <3>1. fin'[a] = fin[a]
      BY <1>3, <2>3
    <3>2. a \in Calls /\ fin[a].phase # "idle" => sess'[a] = sess[a]
      BY <1>3, <2>1, <2>3 DEF FinalizerInv
    <3> QED
      BY <1>2, <2>1, <3>1, <3>2 DEF FinalizerInv
  <2> QED
    BY <2>2, <2>3
<1> QED
  BY <1>4, <1>6, <1>7 DEF Agreed

\* create inserts the row of a call that nobody has touched yet.
LEMMA InsertKeeps ==
    ASSUME AgreedInv, NEW u \in Users, creating[u].phase = "leased", InsertCall(u),
           UNCHANGED <<sess, fin, registry, metering>>
    PROVE  Agreed'
<1>1. /\ StateTypeOK /\ AdmissionTypeOK /\ Agreed /\ Reserved
      /\ creating \in [Users -> {Idle} \cup Creation] /\ fin \in [Actors -> Finalizer]
  BY DEF AgreedInv, TypeOK, AdmissionTypeOK
<1>2. PICK c \in Calls : c = creating[u].call
  BY <1>1, Carried
<1>3. /\ status' = [status EXCEPT ![c] = "deciding"] /\ tickets' = tickets \cup {c}
      /\ creating' = [creating EXCEPT ![u] = Idle] /\ UNCHANGED <<connectedAt, minted>>
  BY <1>2 DEF InsertCall
<1>4. c \in minted /\ status[c] = "none" /\ UserOf[c] = u
  BY <1>1, <1>2 DEF Agreed, FreshCalls, Reserved
<1>5. status'[c] = "deciding" /\ \A d \in Calls \ {c} : status'[d] = status[d]
  BY <1>1, <1>3 DEF StateTypeOK
<1>6. RowsAgree'
  BY <1>1, <1>3, <1>4, <1>5 DEF Agreed, RowsAgree
<1>7. FreshCalls'
  <2>1. \A d \in Calls : status'[d] # "none" => d \in minted
    BY <1>1, <1>4, <1>5 DEF Agreed, FreshCalls
  <2>2. ASSUME NEW v \in Users, creating'[v].phase = "leased"
        PROVE  creating'[v].call \in minted /\ status'[creating'[v].call] = "none"
    <3>1. v # u /\ creating'[v] = creating[v]
      BY <1>1, <1>3, <2>2 DEF Idle
    <3>2. creating[v].call \in Calls \ {c}
      BY <1>1, <1>4, <2>2, <3>1, Carried DEF Reserved
    <3> QED
      BY <1>1, <1>5, <2>2, <3>1, <3>2 DEF Agreed, FreshCalls
  <2> QED
    BY <1>3, <2>1, <2>2 DEF FreshCalls
<1>8. ASSUME NEW d \in Calls PROVE SessionInv(d)' /\ MeterInv(d)'
  <2>1. SessionInv(d) /\ MeterInv(d)
    BY <1>1 DEF Agreed
  <2>2. CASE d = c
    <3>1. sess[d].run = "none"
      BY <1>4, <2>1, <2>2 DEF SessionInv
    <3>2. SessionInv(d)'
      BY <2>1, <3>1 DEF SessionInv, TasksRun
    <3>3. MeterInv(d)'
      BY <1>3, <1>5, <2>1, <2>2 DEF MeterInv
    <3> QED
      BY <3>2, <3>3
  <2>3. CASE d # c
    BY <1>3, <1>5, <2>1, <2>3 DEF SessionInv, MeterInv, TasksRun
  <2> QED
    BY <2>2, <2>3
<1>9. ASSUME NEW a \in Actors PROVE FinalizerInv(a)'
  <2>1. FinalizerInv(a) /\ (fin[a].phase # "idle" => fin[a].call # c)
    BY <1>1, <1>4 DEF Agreed, FinalizerInv
  <2>2. fin[a].phase # "idle" => fin[a].call \in Calls \ {c}
    <3>1. fin[a] \in Finalizer
      BY <1>1
    <3> QED
      BY <2>1, <3>1 DEF Finalizer, NoFinalizer
  <2> QED
    BY <1>5, <2>1, <2>2 DEF FinalizerInv
<1> QED
  BY <1>6, <1>7, <1>8, <1>9 DEF Agreed

\* create, up to its insert, and the expiries.
LEMMA AdmitKeeps ==
    ASSUME AgreedInv, Admit \/ AdmitFails
    PROVE  Agreed'
<1>1. /\ Agreed /\ creating \in [Users -> {Idle} \cup Creation]
  BY DEF AgreedInv, TypeOK, AdmissionTypeOK
<1>2. UNCHANGED <<sess, fin, registry, metering>>
  BY DEF Admit, AdmitFails, lifeVars, meterVars
<1>3. ASSUME UNCHANGED <<status, connectedAt>>, tickets' \subseteq tickets, minted \subseteq minted',
             \A u \in Users : creating'[u].phase = "leased" =>
                \/ creating'[u] = creating[u]
                \/ creating'[u].call \in minted' /\ status[creating'[u].call] = "none"
      PROVE  Agreed'
  <2>1. RowsAgree' /\ FreshCalls'
    BY <1>1, <1>3 DEF Agreed, RowsAgree, FreshCalls
  <2>2. \A c \in Calls : SessionInv(c)' /\ MeterInv(c)'
    BY <1>1, <1>2, <1>3 DEF Agreed, SessionInv, MeterInv, TasksRun
  <2>3. \A a \in Actors : FinalizerInv(a)'
    BY <1>1, <1>2, <1>3 DEF Agreed, FinalizerInv
  <2> QED
    BY <2>1, <2>2, <2>3 DEF Agreed
<1>4. ASSUME NEW u \in Users, CreateCommits(u) \/ CreateCommitAnswerLost(u)
      PROVE  Agreed'
  BY <1>2, <1>4, InsertKeeps DEF CreateCommits, CreateCommitAnswerLost
<1>5. ASSUME NEW u \in Users, NEW c \in Calls, NEW ttl \in Ttls, CreateLeases(u, c, ttl)
      PROVE  Agreed'
  <2>1. /\ UNCHANGED <<status, connectedAt, tickets>> /\ minted' = minted \cup {c}
        /\ c \notin minted
        /\ \A v \in Users : creating'[v] # creating[v] => creating'[v].call = c
    BY <1>1, <1>5 DEF CreateLeases, rowVars
  <2>2. status[c] = "none"
    BY <1>1, <2>1 DEF Agreed, FreshCalls
  <2> QED
    BY <1>3, <2>1, <2>2
<1>6. ASSUME NEW u \in Users,
             \/ \E k \in Keys, p \in Procs : CreateChecks(u, k, p)
             \/ \E c \in Calls : CreateRefused(u, c)
             \/ CreateRejected(u) \/ CreateRollsBack(u) \/ CreateAbandons(u)
             \/ \E k \in Keys : ReplayExpires(u, k)
      PROVE  Agreed'
  <2>1. UNCHANGED <<status, connectedAt, minted>> /\ tickets' \subseteq tickets
    BY <1>6
    DEF CreateChecks, CreateRefused, CreateRejected, CreateRollsBack, CreateAbandons,
        ReplayExpires, rowVars
  <2>2. \A v \in Users : creating'[v].phase = "leased" => creating'[v] = creating[v]
    BY <1>1, <1>6
    DEF CreateChecks, CreateRefused, CreateRejected, CreateRollsBack, CreateAbandons,
        ReplayExpires, Idle
  <2> QED
    BY <1>3, <2>1, <2>2
<1>7. ASSUME NEW c \in Calls, TicketExpires(c)
      PROVE  Agreed'
  BY <1>3, <1>7 DEF TicketExpires, rowVars
<1> QED
  BY <1>4, <1>5, <1>6, <1>7 DEF Admit, AdmitFails

\* Every step keeps the rows, the sessions and the finalizers in agreement.
LEMMA AgreedStep ==
    ASSUME AgreedInv, [Next]_vars
    PROVE  AgreedInv'
<1>1. TypeOK' /\ Reserved' /\ OneActiveCallPerUser'
  BY TypesStep, OneCallStep DEF AgreedInv, OneCallInv
<1>2. ASSUME NEW c \in Calls,
             Lifecycle(c) \/ Heartbeat(c) \/ Run(c) \/ Outside(c) \/ SessionFails(c)
      PROVE  Agreed'
  <2>1. CASE Lifecycle(c) \/ Lose(c) \/ FirstCheckpointFails(c)
    BY <2>1, DecideKeeps, TalkKeeps DEF Lifecycle
  <2>2. CASE Heartbeat(c) \/ HeartbeatCannotRenew(c) \/ ClockObserves(c)
    BY <2>2, TasksKeep DEF Heartbeat
  <2>3. CASE StreamRejects(c) \/ StreamRescues(c)
    BY <2>3, RescueKeeps DEF StreamRejects, StreamRescues
  <2>4. CASE \/ Run(c) \/ UserCancels(c) \/ TaskEnds(c)
             \/ CloseTransitionFails(c) \/ CloseStopsUnobserved(c)
    BY <2>3, <2>4, TasksKeep, RegisterKeeps, CloseStopsKeeps DEF Run, RunWakes
  <2>5. CASE Outside(c)
    BY <2>1, <2>2, <2>3, <2>4, <2>5, StreamKeeps, CallersKeep DEF Outside
  <2> QED
    BY <1>2, <2>1, <2>2, <2>4, <2>5 DEF SessionFails
<1>3. ASSUME Admit \/ AdmitFails \/ Reconcile \/ Tick \/ UNCHANGED vars
      PROVE  Agreed'
  BY <1>3, AdmitKeeps, CallersKeep
<1>4. ASSUME NEW a \in Actors,
             End(a) \/ EndFails(a) \/ EndStopsUnobserved(a) \/ CleanFails(a)
      PROVE  Agreed'
  BY <1>4, EndKeeps
<1>5. ASSUME NEW p \in Procs, Crash(p)
      PROVE  Agreed'
  BY <1>5, CrashKeeps
<1>6. Agreed'
  BY <1>2, <1>3, <1>4, <1>5 DEF Next
<1> QED
  BY <1>1, <1>6 DEF AgreedInv

LEMMA AgreedInit == Init => AgreedInv
<1> SUFFICES ASSUME Init PROVE AgreedInv
  OBVIOUS
<1>1. TypeOK
  BY TypesInit
<1>2. /\ \A c \in Calls : status[c] = "none" /\ connectedAt[c] = FALSE /\ sess[c] = NoSession
                          /\ metering[c] = FALSE
      /\ \A a \in Actors : fin[a] = NoFinalizer
      /\ \A u \in Users : creating[u] = Idle
      /\ tickets = {}
  BY DEF Init, StateInit, AdmissionInit
<1>3. "none" \notin ACTIVE /\ Idle.phase = "idle" /\ NoFinalizer.phase = "idle"
  BY DEF ACTIVE, Idle, NoFinalizer
<1>4. /\ NoSession.run = "none" /\ NoSession.home = NoProc /\ NoSession.lc = "idle"
      /\ NoSession.live = FALSE
  BY DEF NoSession
<1>5. Reserved /\ OneActiveCallPerUser /\ FreshCalls
  BY <1>2, <1>3 DEF Reserved, OneActiveCallPerUser, FreshCalls
<1>6. RowsAgree
  BY <1>2 DEF RowsAgree
<1>7. \A c \in Calls : SessionInv(c) /\ MeterInv(c)
  BY <1>2, <1>4 DEF SessionInv, MeterInv, TasksRun
<1>8. \A a \in Actors : FinalizerInv(a)
  BY <1>2, <1>3 DEF FinalizerInv
<1> QED
  BY <1>1, <1>5, <1>6, <1>7, <1>8 DEF AgreedInv, Agreed

LEMMA AgreedAlways == Spec => []AgreedInv
<1>1. AgreedInv /\ [Next]_vars => AgreedInv'
  BY AgreedStep
<1> QED
  BY <1>1, AgreedInit, PTL DEF Spec

\* However a finalizer's decision crosses the last transition of the lifecycle, a call ends
\* as "ended" exactly when it had connected.
THEOREM FinalStates == Spec => []FinalStateMatchesConnection
<1>1. AgreedInv => FinalStateMatchesConnection
  BY DEF AgreedInv, Agreed, RowsAgree, FinalStateMatchesConnection
<1> QED
  BY <1>1, AgreedAlways, PTL

\* No heartbeat, clock or microphone frame turns a meter on before its call connects or
\* while it reconnects.
THEOREM MeteredWhenConnected == Spec => []MeteredOnlyWhenConnected
<1>1. AgreedInv => MeteredOnlyWhenConnected
  BY DEF AgreedInv, Agreed, MeterInv, MeteredOnlyWhenConnected
<1> QED
  BY <1>1, AgreedAlways, PTL

\* While the tasks of a session run, its process can find it to stop it, unless the call is
\* over: no finalizer, late, repeated or of another process, drops the handle early.
THEOREM HandlesOutliveCalls == Spec => []HandleOutlivesCall
<1>1. AgreedInv => HandleOutlivesCall
  BY DEF AgreedInv, Agreed, SessionInv, HandleOutlivesCall
<1> QED
  BY <1>1, AgreedAlways, PTL

\* A hang-up that asked for an unconnected call never ends one that connected meanwhile.
THEOREM StrictHangUpsOnlyClean == Spec => []StrictHangUpOnlyCleans
<1>1. AgreedInv => StrictHangUpOnlyCleans
  <2> SUFFICES ASSUME AgreedInv, NEW h \in Handlers, fin[h].strict,
                      fin[h].phase \in {"stop", "commit", "cooldown", "lease"}
               PROVE  status[fin[h].call] \in TERMINAL
    BY DEF StrictHangUpOnlyCleans
  <2>1. h \in Actors
    BY DEF Actors
  <2> QED
    BY <2>1, FinalizerKnown DEF FinalizerInv
<1> QED
  BY <1>1, AgreedAlways, PTL

\* The writers of the rows, the meters' truth and the bill: transitions that settle nothing,
\* the insert of create, the commit of end_call, and time.
LEMMA RowWriters ==
    ASSUME AgreedInv, [Next]_vars
    PROVE  \/ /\ RowsKept \/ \E c \in Calls : Moves(c) /\ status'[c] # "ended"
              /\ UNCHANGED <<talk, billed>>
           \/ \E u \in Users : /\ creating[u].phase = "leased" /\ InsertCall(u)
                               /\ UNCHANGED <<talk, billed>>
           \/ \E a \in Actors : EndCommits(a)
           \/ Tick
<1> DEFINE Unsettled == /\ RowsKept \/ \E c \in Calls : Moves(c) /\ status'[c] # "ended"
                        /\ UNCHANGED <<talk, billed>>
<1>1. StateTypeOK /\ RowsAgree
  BY DEF AgreedInv, Agreed, TypeOK
<1>2. ASSUME UNCHANGED <<status, connectedAt, talk, billed>>
      PROVE  Unsettled
  BY <1>2 DEF RowsKept
<1>3. ASSUME NEW c \in Calls, NEW expected, NEW target, Asked(expected, target),
             transition_call(c, expected, target), UNCHANGED <<talk, billed>>
      PROVE  Unsettled
  BY <1>1, <1>3, TransitionMoves
<1> HIDE DEF Unsettled
<1>4. ASSUME NEW c \in Calls,
             Lifecycle(c) \/ Heartbeat(c) \/ Run(c) \/ Outside(c) \/ SessionFails(c)
      PROVE  Unsettled
  <2>1. sess[c] \in Session /\ SessionInv(c)
    BY SessionKnown
  <2>2. CASE DecideCommits(c)
    <3>1. /\ transition_call(c, {"deciding"}, sess[c].choice) /\ UNCHANGED <<talk, billed>>
          /\ sess[c].choice \in {"ringing", "missed", "cancelled"}
      BY <2>1, <2>2 DEF DecideCommits, SessionInv, meterVars
    <3> QED
      BY <1>3, <3>1 DEF Asked
  <2>3. CASE GateCommits(c)
    <3>1. /\ transition_call(c, {"ringing"}, sess[c].choice) /\ UNCHANGED <<talk, billed>>
          /\ sess[c].choice \in {"connected", "failed", "cancelled"}
      BY <2>1, <2>3 DEF GateCommits, SessionInv, meterVars
    <3> QED
      BY <1>3, <3>1 DEF Asked
  <2>4. CASE LoseCommits(c) \/ RestoreCommits(c)
    BY <1>3, <2>4 DEF LoseCommits, RestoreCommits, Asked, meterVars
  <2>5. CASE StreamRejects(c) \/ StreamRescues(c)
    BY <1>3, <2>5 DEF StreamRejects, StreamRescues, Rescue, Asked, meterVars
  <2>6. CASE CloseTransition(c)
    <3>1. CASE sess[c].live
      BY <1>2, <2>6, <3>1 DEF CloseTransition, rowVars, meterVars
    <3>2. CASE ~sess[c].live
      <4> DEFINE target == IF sess[c].userCancelled THEN "cancelled" ELSE "failed"
      <4>1. /\ transition_call(c, {"deciding", "ringing"}, target) /\ UNCHANGED <<talk, billed>>
            /\ target \in {"cancelled", "failed"}
        BY <2>6, <3>2 DEF CloseTransition, meterVars
      <4> HIDE DEF target
      <4> QED
        BY <1>3, <4>1 DEF Asked
    <3> QED
      BY <3>1, <3>2
  <2>7. CASE \/ \E answer \in {"ringing", "missed"} : Decide(c, answer)
             \/ \E verdict \in {"connected", "failed"} : Gate(c, verdict)
             \/ FirstCheckpoint(c) \/ TalkEnds(c) \/ Register(c) \/ UserCancels(c)
             \/ TaskEnds(c) \/ FirstCheckpointFails(c) \/ CloseTransitionFails(c)
             \/ CloseStopsUnobserved(c) \/ \E p \in Procs : Stream(c, p)
    BY <1>2, <2>7
    DEF Decide, Gate, FirstCheckpoint, TalkEnds, Register, UserCancels, TaskEnds,
        FirstCheckpointFails, CloseTransitionFails, CloseStopsUnobserved, Stream,
        ConsumeTicket, rowVars, meterVars
  <2>8. CASE \/ StartMeter(c) \/ Lose(c) \/ RestoreObserves(c) \/ RecoveryFails(c)
             \/ HeartbeatReads(c) \/ HeartbeatLosesLease(c) \/ HeartbeatCannotRenew(c)
             \/ \E ttl \in Ttls : HeartbeatRenews(c, ttl)
             \/ ClockObserves(c) \/ CloseStops(c)
    <3>1. UNCHANGED rowVars
      BY <2>8
      DEF StartMeter, Lose, RestoreObserves, RecoveryFails, HeartbeatReads, HeartbeatLosesLease,
          HeartbeatCannotRenew, HeartbeatRenews, ClockObserves, CloseStops
    <3>2. (\E b : Observe(c, b)) \/ StopLocal(c) \/ UNCHANGED <<talk, billed>>
      BY <2>8
      DEF StartMeter, Lose, RestoreObserves, RecoveryFails, HeartbeatReads, HeartbeatLosesLease,
          HeartbeatCannotRenew, HeartbeatRenews, ClockObserves, CloseStops
    <3>3. UNCHANGED <<talk, billed>>
      BY <3>2 DEF Observe, StopLocal
    <3> QED
      BY <1>2, <3>1, <3>3 DEF rowVars
  <2>9. CASE \E h \in Handlers, p \in Procs :
               ForceEnd(h, c, p) \/ \E strict \in BOOLEAN : HangUp(h, c, p, strict)
    BY <1>2, <2>9 DEF ForceEnd, HangUp, Begin, rowVars, meterVars
  <2> QED
    BY <1>4, <2>2, <2>3, <2>4, <2>5, <2>6, <2>7, <2>8, <2>9
    DEF Lifecycle, Heartbeat, Run, RunWakes, Outside, SessionFails
<1>5. ASSUME Reconcile \/ UNCHANGED vars \/ \E p \in Procs : Crash(p)
      PROVE  Unsettled
  BY <1>2, <1>5
  DEF Reconcile, ReconcileEnds, ReconcileCleans, Begin, ReconcilePrunes, Crash,
      vars, rowVars, lifeVars, meterVars
<1>6. ASSUME Admit \/ AdmitFails,
             ~\E u \in Users : creating[u].phase = "leased" /\ InsertCall(u)
      PROVE  Unsettled
  <2>1. AdmissionStep /\ AdmissionTypeOK
    BY <1>6, AdmitStep DEF AdmittedStep, AgreedInv, TypeOK
  <2>2. UNCHANGED rowVars
    BY <1>6, <2>1, AdmissionRows
  <2>3. UNCHANGED <<talk, billed>>
    BY <1>6 DEF Admit, AdmitFails, lifeVars, meterVars
  <2> QED
    BY <1>2, <2>2, <2>3 DEF rowVars
<1>7. ASSUME Admit \/ AdmitFails
      PROVE  UNCHANGED <<talk, billed>>
  BY <1>7 DEF Admit, AdmitFails, lifeVars, meterVars
<1>8. ASSUME NEW a \in Actors,
             End(a) \/ EndFails(a) \/ EndStopsUnobserved(a) \/ CleanFails(a), ~EndCommits(a)
      PROVE  Unsettled
  <2>1. CASE RouterCancels(a)
    <3>1. /\ transition_call(fin[a].call, {"deciding", "ringing"}, "cancelled")
          /\ fin[a].phase # "idle" /\ UNCHANGED <<talk, billed>>
      BY <2>1 DEF RouterCancels, meterVars
    <3>2. fin[a].call \in Calls
      BY <3>1, FinalizerKnown
    <3> QED
      BY <1>3, <3>1, <3>2 DEF Asked
  <2>2. CASE EndStops(a)
    BY <1>2, <2>2 DEF EndStops, StopLocal, Observe, rowVars
  <2>3. CASE \/ CheckpointMissing(a) \/ CleanCooldown(a) \/ CleanLease(a) \/ EndFails(a)
             \/ EndStopsUnobserved(a) \/ CleanFails(a)
    BY <1>2, <2>3
    DEF CheckpointMissing, CleanCooldown, CleanLease, EndReturns, EndFails, EndStopsUnobserved,
        CleanFails, rowVars, meterVars
  <2> QED
    BY <1>8, <2>1, <2>2, <2>3 DEF End
<1> QED
  BY <1>4, <1>5, <1>6, <1>7, <1>8 DEF Next, Unsettled

-----------------------------------------------------------------------------
(* What was durable is charged.  Both evidences of a settlement cover the  *)
(* last checkpoint: the checkpoint itself, and the local meter, which every *)
(* checkpoint was taken from and which only moves on.                      *)

Saved == \A c \in Calls : ckpt[c] <= meter[c]

SavedInv == AgreedInv /\ Behind /\ Saved

\* The types of the three copies, before and after a step.
LEMMA Copies ==
    ASSUME TypeOK, [Next]_vars
    PROVE  \A c \in Calls : /\ talk[c] \in Nat /\ meter[c] \in Nat /\ ckpt[c] \in Int
                            /\ talk'[c] \in Nat /\ meter'[c] \in Nat /\ ckpt'[c] \in Int
  BY TypesStep, StateAssumption DEF TypeOK, NoCkpt

LEMMA SavedKept ==
    ASSUME Saved, UNCHANGED <<meter, ckpt>>
    PROVE  Saved'
  BY DEF Saved

\* An observation takes the meter up to a time that no checkpoint is ahead of.
LEMMA SavedObserved ==
    ASSUME SavedInv, NEW c \in Calls, (\E b \in BOOLEAN : Observe(c, b)) \/ StopLocal(c),
           ckpt' = ckpt \/ ckpt' = Checkpointed(c, meter'[c])
    PROVE  Saved'
<1>1. /\ meter \in [Calls -> 0..HardLimit] /\ ckpt \in [Calls -> {NoCkpt} \cup 0..HardLimit]
      /\ talk \in [Calls -> 0..HardLimit] /\ HardLimit \in Nat
  BY StateAssumption DEF SavedInv, AgreedInv, TypeOK
<1>2. meter' = [meter EXCEPT ![c] = talk[c]] \/ meter' = meter
  BY DEF Observe, StopLocal
<1>3. \A d \in Calls : /\ meter'[d] \in Int /\ ckpt[d] \in Int /\ ckpt[d] <= meter'[d]
  BY <1>1, <1>2 DEF SavedInv, Saved, Behind, NoCkpt
<1>4. CASE ckpt' = ckpt
  BY <1>3, <1>4 DEF Saved
<1>5. CASE ckpt' = Checkpointed(c, meter'[c])
  <2>1. \A d \in Calls : ckpt'[d] \in {ckpt[d], meter'[d]}
    BY <1>1, <1>5 DEF Checkpointed
  <2> QED
    BY <1>3, <2>1 DEF Saved
<1> QED
  BY <1>4, <1>5

LEMMA SavedStep ==
    ASSUME SavedInv, [Next]_vars
    PROVE  Saved'
<1>1. Saved /\ TypeOK
  BY DEF SavedInv, AgreedInv
<1>2. ASSUME NEW c \in Calls,
             Lifecycle(c) \/ Heartbeat(c) \/ Run(c) \/ Outside(c) \/ SessionFails(c)
      PROVE  Saved'
  <2>1. sess[c].live \in BOOLEAN
    BY <1>1 DEF TypeOK, Session
  <2>2. CASE FirstCheckpoint(c)
    <3>1. meter' = meter /\ ckpt' = Checkpointed(c, meter[c])
      BY <2>2 DEF FirstCheckpoint
    <3>2. \A d \in Calls : ckpt'[d] \in {ckpt[d], meter[d]}
      BY <1>1, <3>1 DEF Checkpointed, TypeOK
    <3> QED
      BY <1>1, <3>1, <3>2, StateAssumption DEF Saved, TypeOK
  <2>3. CASE \E ttl \in Ttls : HeartbeatRenews(c, ttl)
    BY <2>1, <2>3, SavedObserved DEF HeartbeatRenews
  <2>4. CASE StartMeter(c) \/ HeartbeatReads(c)
    <3>1. ckpt' = ckpt /\ ((\E b \in BOOLEAN : Observe(c, b)) \/ StopLocal(c) \/ meter' = meter)
      BY <2>4 DEF StartMeter, HeartbeatReads
    <3> QED
      BY <1>1, <3>1, SavedObserved, SavedKept
  <2>5. CASE \/ Lose(c) \/ RestoreObserves(c) \/ RecoveryFails(c) \/ HeartbeatLosesLease(c)
             \/ HeartbeatCannotRenew(c) \/ ClockObserves(c) \/ CloseStops(c)
    <3>1. ckpt' = ckpt /\ ((\E b \in BOOLEAN : Observe(c, b)) \/ StopLocal(c))
      BY <2>1, <2>5
      DEF Lose, RestoreObserves, RecoveryFails, HeartbeatLosesLease, HeartbeatCannotRenew,
          ClockObserves, CloseStops
    <3> QED
      BY <3>1, SavedObserved
  <2>6. CASE \/ \E answer \in {"ringing", "missed"} : Decide(c, answer)
             \/ \E verdict \in {"connected", "failed"} : Gate(c, verdict)
             \/ DecideCommits(c) \/ GateCommits(c) \/ LoseCommits(c) \/ RestoreCommits(c)
             \/ TalkEnds(c) \/ Register(c) \/ CloseTransition(c) \/ UserCancels(c)
             \/ TaskEnds(c) \/ Rescue(c) \/ FirstCheckpointFails(c)
             \/ CloseTransitionFails(c) \/ CloseStopsUnobserved(c)
    <3>1. UNCHANGED meterVars
      BY <2>6
      DEF Decide, Gate, DecideCommits, GateCommits, LoseCommits, RestoreCommits, TalkEnds,
          Register, CloseTransition, UserCancels, TaskEnds, Rescue, FirstCheckpointFails,
          CloseTransitionFails, CloseStopsUnobserved
    <3> QED
      BY <1>1, <3>1, SavedKept DEF meterVars
  <2>7. CASE \/ \E p \in Procs : Stream(c, p)
             \/ \E h \in Handlers, p \in Procs :
                  ForceEnd(h, c, p) \/ \E strict \in BOOLEAN : HangUp(h, c, p, strict)
    <3>1. UNCHANGED meterVars
      BY <2>7 DEF Stream, ForceEnd, HangUp, Begin
    <3> QED
      BY <1>1, <3>1, SavedKept DEF meterVars
  <2> QED
    BY <1>2, <2>2, <2>3, <2>4, <2>5, <2>6, <2>7
    DEF Lifecycle, Heartbeat, Run, RunWakes, StreamRescues, StreamRejects, Outside, SessionFails
<1>3. CASE \/ Admit \/ AdmitFails \/ Reconcile \/ Tick \/ UNCHANGED vars
           \/ \E p \in Procs : Crash(p)
  <2>1. UNCHANGED <<meter, ckpt>>
    BY <1>3
    DEF Admit, AdmitFails, Reconcile, ReconcileEnds, ReconcileCleans, Begin, ReconcilePrunes,
        Tick, Crash, vars, lifeVars, meterVars
  <2> QED
    BY <1>1, <2>1, SavedKept
<1>4. ASSUME NEW a \in Actors,
             End(a) \/ EndFails(a) \/ EndStopsUnobserved(a) \/ CleanFails(a)
      PROVE  Saved'
  <2>1. CASE EndStops(a)
    <3>1. fin[a].call \in Calls
      BY <2>1, FinalizerKnown DEF EndStops, SavedInv
    <3>2. ckpt' = ckpt /\ (StopLocal(fin[a].call) \/ meter' = meter)
      BY <2>1 DEF EndStops
    <3> QED
      BY <1>1, <3>1, <3>2, SavedObserved, SavedKept
  <2>2. CASE ~EndStops(a)
    <3>1. UNCHANGED <<meter, ckpt>>
      BY <1>4, <2>2
      DEF End, RouterCancels, EndCommits, CheckpointMissing, CleanCooldown, CleanLease,
          EndReturns, EndFails, EndStopsUnobserved, CleanFails, meterVars
    <3> QED
      BY <1>1, <3>1, SavedKept
  <2> QED
    BY <2>1, <2>2
<1> QED
  BY <1>2, <1>3, <1>4 DEF Next

LEMMA SavedAlways == Spec => []SavedInv
<1>1. Init => SavedInv
  <2>1. Init => Behind /\ Saved
    BY StateAssumption DEF Init, Behind, Saved, NoCkpt
  <2> QED
    BY <2>1, AgreedInit DEF SavedInv
<1>2. SavedInv /\ [Next]_vars => SavedInv'
  <2> SUFFICES ASSUME SavedInv, [Next]_vars PROVE SavedInv'
    OBVIOUS
  <2>1. AgreedInv /\ BehindInv
    BY DEF SavedInv, AgreedInv, BehindInv
  <2>2. AgreedInv' /\ Behind'
    BY <2>1, AgreedStep, BehindStep
  <2> QED
    BY <2>2, SavedStep DEF SavedInv
<1> QED
  BY <1>1, <1>2, PTL DEF Spec

\* What a commit of end_call does to a call in progress.
LEMMA CommitSettles ==
    ASSUME AgreedInv, NEW a \in Actors, NEW c \in Calls, c = fin[a].call, EndCommits(a)
    PROVE  /\ \A d \in Calls \ {c} : status'[d] = status[d]
           /\ UNCHANGED <<connectedAt, talk>>
           /\ ~MustSettle(c) => billed' = billed
           /\ MustSettle(c) => /\ status'[c] = "ended" /\ HasEvidence(a)
                               /\ billed' = [billed EXCEPT ![c] = Evidence(a)]
           /\ status[c] \in ACTIVE /\ ~connectedAt[c] =>
                status'[c] \in {"missed", "failed", "cancelled"}
           /\ status[c] \notin ACTIVE => status' = status
<1>1. status \in [Calls -> {"none"} \cup ACTIVE \cup TERMINAL]
  BY DEF AgreedInv, TypeOK, StateTypeOK
<1>2. /\ stage_final_state(c, fin[a].reason) /\ UNCHANGED talk
      /\ MustSettle(c) => HasEvidence(a)
      /\ billed' = IF MustSettle(c) THEN [billed EXCEPT ![c] = Evidence(a)] ELSE billed
  BY DEF EndCommits
<1>3. /\ \A d \in Calls \ {c} : status'[d] = status[d]
      /\ status[c] \in ACTIVE => status'[c] = final_status(c, fin[a].reason)
      /\ status[c] \notin ACTIVE => status' = status
      /\ connectedAt' = connectedAt
  BY <1>1, <1>2 DEF stage_final_state
<1> QED
  BY <1>2, <1>3 DEF final_status, MustSettle

\* A process that crashed is charged for its last checkpoint and an owner for what its own
\* meter had counted: no finalizer bills less than was already durable.
THEOREM ChargesCoverCheckpoints == Spec => ChargeCoversCheckpoint
<1>1. ASSUME SavedInv, [Next]_vars, NEW c \in Calls, status[c] \in ACTIVE, status'[c] = "ended"
      PROVE  ckpt[c] <= billed'[c]
  <2>1. AgreedInv /\ StateTypeOK /\ RowsAgree
    BY <1>1 DEF SavedInv, AgreedInv, Agreed, TypeOK
  <2>2. status[c] # "ended"
    BY <1>1 DEF ACTIVE
  <2>3. \A d \in Calls : Moves(d) /\ d # c => status'[c] = status[c]
    BY <2>1, MovesKeep
  <2>4. ~RowsKept /\ ~Tick
    BY <1>1, <2>2 DEF RowsKept, Tick, RowTick
  <2>5. ~\E d \in Calls : Moves(d) /\ status'[d] # "ended"
    BY <1>1, <2>2, <2>3
  <2>6. ~\E u \in Users : creating[u].phase = "leased" /\ InsertCall(u)
    <3>1. ASSUME NEW u \in Users, InsertCall(u) PROVE status'[c] \in {status[c], "deciding"}
      BY <2>1, <3>1 DEF InsertCall, StateTypeOK
    <3> QED
      BY <1>1, <2>2, <3>1
  <2>7. PICK a \in Actors : EndCommits(a)
    BY <1>1, <2>1, <2>4, <2>5, <2>6, RowWriters
  <2>8. PICK d \in Calls : d = fin[a].call
    BY <2>1, <2>7, FinalizerKnown DEF EndCommits
  <2>9. d = c /\ MustSettle(c)
    BY <1>1, <2>1, <2>2, <2>7, <2>8, CommitSettles DEF MustSettle
  <2>10. billed' = [billed EXCEPT ![c] = Evidence(a)]
    BY <2>1, <2>7, <2>8, <2>9, CommitSettles
  <2>11. billed'[c] \in {meter[c], ckpt[c]}
    BY <2>1, <2>8, <2>9, <2>10 DEF Evidence, AgreedInv, TypeOK
  <2>12. ckpt[c] \in Int /\ ckpt[c] <= meter[c]
    BY <1>1, <2>1, Copies DEF SavedInv, Saved, AgreedInv
  <2> QED
    BY <2>11, <2>12
<1>2. SavedInv /\ [Next]_vars =>
        \A c \in Calls : status[c] \in ACTIVE /\ status'[c] = "ended" => ckpt[c] <= billed'[c]
  BY <1>1
<1> QED
  BY <1>2, SavedAlways, PTL DEF Spec, ChargeCoversCheckpoint

-----------------------------------------------------------------------------
(* One ticket, one session. *)

\* Nothing but the stream endpoint makes a session, whatever a task, a finalizer or a crash
\* makes of the one that is there.
LEMMA AcceptedBefore ==
    ASSUME TypeOK, [Next]_vars, NEW c \in Calls, sess'[c].run = "accepted",
           ~\E p \in Procs : Stream(c, p)
    PROVE  sess[c].run = "accepted"
<1>1. sess \in [Calls -> Session] /\ sess[c] \in Session
  BY DEF TypeOK
<1>2. Gone.run = "gone"
  BY DEF Gone, NoSession
<1>3. ASSUME NEW d \in Calls
      PROVE  /\ StoppedSession(sess[d]).run = sess[d].run
             /\ [StoppedSession(sess[d]) EXCEPT !.hb = "idle"].run = sess[d].run
             /\ [StoppedSession(sess[d]) EXCEPT !.lc = "done"].run = sess[d].run
  <2>1. sess[d] \in Session
    BY <1>1
  <2>2. StoppedSession(sess[d]) \in Session /\ StoppedSession(sess[d]).run = sess[d].run
    BY <2>1 DEF StoppedSession, Session
  <2> QED
    BY <2>2 DEF Session
<1>4. ASSUME NEW d \in Calls, NEW s, sess' = [sess EXCEPT ![d] = s],
             s.run \in {sess[d].run, "running", "closing", "stopping", "finalizing", "failed",
                        "rescuing", "gone"}
      PROVE  sess[c].run = "accepted"
  BY <1>1, <1>4
<1>5. ASSUME NEW d \in Calls, Lifecycle(d) \/ Lose(d) \/ FirstCheckpointFails(d)
      PROVE  sess[c].run = "accepted"
  <2>1. CASE RecoveryFails(d)
    BY <1>3, <1>4, <2>1 DEF RecoveryFails
  <2>2. CASE \/ \E answer \in {"ringing", "missed"} : Decide(d, answer)
             \/ \E verdict \in {"connected", "failed"} : Gate(d, verdict)
    BY <1>1, <2>2 DEF Decide, Gate, Session
  <2>3. CASE DecideCommits(d) \/ GateCommits(d) \/ LoseCommits(d) \/ RestoreCommits(d)
    BY <1>1, <2>3 DEF DecideCommits, GateCommits, LoseCommits, RestoreCommits, Session
  <2>4. CASE StartMeter(d)
    <3>1. \/ sess' = [sess EXCEPT ![d] = [sess[d] EXCEPT !.lc = "done"]]
          \/ sess' = [sess EXCEPT ![d] = [sess[d] EXCEPT !.lc = "metered"]]
      BY <2>4 DEF StartMeter
    <3> QED
      BY <1>1, <3>1 DEF Session
  <2>5. CASE FirstCheckpoint(d) \/ Lose(d) \/ RestoreObserves(d)
    <3>1. \/ sess' = [sess EXCEPT ![d] = [sess[d] EXCEPT !.lc = "talking", !.live = TRUE]]
          \/ sess' = [sess EXCEPT ![d] = [sess[d] EXCEPT !.lc = "losing", !.live = FALSE]]
      BY <2>5 DEF FirstCheckpoint, Lose, RestoreObserves
    <3>2. /\ [sess[d] EXCEPT !.lc = "talking", !.live = TRUE].run = sess[d].run
          /\ [sess[d] EXCEPT !.lc = "losing", !.live = FALSE].run = sess[d].run
      BY <1>1 DEF Session
    <3> QED
      BY <1>4, <3>1, <3>2
  <2>6. CASE FirstCheckpointFails(d) \/ TalkEnds(d)
    BY <1>1, <2>6 DEF FirstCheckpointFails, TalkEnds, Session
  <2> QED
    BY <1>5, <2>1, <2>2, <2>3, <2>4, <2>5, <2>6 DEF Lifecycle
<1>6. ASSUME NEW d \in Calls, Heartbeat(d) \/ HeartbeatCannotRenew(d) \/ ClockObserves(d)
      PROVE  sess[c].run = "accepted"
  <2>1. CASE HeartbeatReads(d)
    <3>1. \/ sess' = [sess EXCEPT ![d] = [sess[d] EXCEPT !.hb = "renew"]]
          \/ sess' = [sess EXCEPT ![d] = StoppedSession(sess[d])]
      BY <2>1 DEF HeartbeatReads
    <3>2. [sess[d] EXCEPT !.hb = "renew"].run = sess[d].run
      BY <1>1 DEF Session
    <3> QED
      BY <1>3, <1>4, <3>1, <3>2
  <2>2. CASE HeartbeatLosesLease(d) \/ HeartbeatCannotRenew(d)
    BY <1>3, <1>4, <2>2 DEF HeartbeatLosesLease, HeartbeatCannotRenew
  <2>3. CASE (\E ttl \in Ttls : HeartbeatRenews(d, ttl)) \/ ClockObserves(d)
    BY <1>1, <2>3 DEF HeartbeatRenews, ClockObserves, Session
  <2> QED
    BY <1>6, <2>1, <2>2, <2>3 DEF Heartbeat
<1>7. ASSUME NEW d \in Calls,
             \/ Run(d) \/ StreamRejects(d) \/ UserCancels(d) \/ TaskEnds(d)
             \/ CloseTransitionFails(d) \/ CloseStopsUnobserved(d)
      PROVE  sess[c].run = "accepted"
  <2>1. CASE Register(d) \/ Rescue(d) \/ UserCancels(d) \/ TaskEnds(d)
             \/ CloseTransition(d) \/ CloseTransitionFails(d)
    BY <1>1, <2>1
    DEF Register, Rescue, UserCancels, TaskEnds, CloseTransition, CloseTransitionFails, Session
  <2>2. CASE CloseStopsUnobserved(d)
    BY <1>3, <1>4, <2>2 DEF CloseStopsUnobserved
  <2>3. CASE CloseStops(d)
    <3> DEFINE r == StoppedSession(sess[d])
               s == [r EXCEPT !.run = "finalizing", !.lc = "done", !.hb = "idle", !.choice = "none"]
    <3>1. sess' = [sess EXCEPT ![d] = s]
      BY <2>3 DEF CloseStops
    <3>2. r \in Session
      BY <1>1 DEF StoppedSession, Session
    <3> HIDE DEF r
    <3>3. s.run = "finalizing"
      BY <3>2 DEF Session
    <3> HIDE DEF s
    <3> QED
      BY <1>4, <3>1, <3>3
  <2> QED
    BY <1>7, <2>1, <2>2, <2>3 DEF Run, RunWakes, StreamRejects, StreamRescues
<1>8. ASSUME NEW d \in Calls, NEW p \in Procs, Stream(d, p)
      PROVE  sess[c].run = "accepted"
  <2>1. d # c
    BY <1>8
  <2> DEFINE s == [NoSession EXCEPT !.run = "accepted", !.home = p]
  <2>2. sess' = [sess EXCEPT ![d] = s]
    BY <1>8, Zenon DEF Stream
  <2> HIDE DEF s
  <2> QED
    BY <1>1, <2>1, <2>2
<1>9. ASSUME NEW a \in Actors,
             End(a) \/ EndFails(a) \/ EndStopsUnobserved(a) \/ CleanFails(a)
      PROVE  sess[c].run = "accepted"
  <2>1. CASE EndStops(a) \/ EndStopsUnobserved(a)
    <3>1. fin[a].phase = "stop" /\ (sess' = sess \/
             sess' = [sess EXCEPT ![fin[a].call] = StoppedSession(sess[fin[a].call])])
      BY <2>1 DEF EndStops, EndStopsUnobserved
    <3>2. fin[a].call \in Calls
      <4>1. fin[a] \in Finalizer
        BY DEF TypeOK
      <4> QED
        BY <3>1, <4>1 DEF Finalizer, NoFinalizer
    <3> QED
      BY <1>3, <1>4, <3>1, <3>2
  <2>2. ASSUME NEW ok \in BOOLEAN, Leave(a, ok)
        PROVE  sess[c].run = "accepted"
    <3>1. CASE a \notin Calls
      BY <2>2, <3>1 DEF Leave
    <3>2. CASE a \in Calls
      <4>1. \/ sess' = [sess EXCEPT ![a] = Gone]
            \/ sess' = [sess EXCEPT ![a] = [sess[a] EXCEPT !.run = "failed"]]
        BY <2>2, <3>2 DEF Leave
      <4>2. [sess[a] EXCEPT !.run = "failed"].run = "failed"
        BY <1>1, <3>2 DEF Session
      <4> QED
        BY <1>2, <1>4, <3>2, <4>1, <4>2
    <3> QED
      BY <3>1, <3>2
  <2>3. CASE \/ RouterCancels(a) \/ EndCommits(a) \/ CleanCooldown(a)
             \/ CleanFails(a) /\ ~EndReturns(a, FALSE)
    BY <2>3 DEF RouterCancels, EndCommits, CleanCooldown, CleanFails
  <2>4. CASE CheckpointMissing(a) \/ EndFails(a) \/ CleanLease(a) \/ EndReturns(a, FALSE)
    BY <2>2, <2>4 DEF CheckpointMissing, EndFails, CleanLease, EndReturns
  <2> QED
    BY <1>9, <2>1, <2>3, <2>4 DEF End, CleanFails
<1>10. ASSUME NEW p \in Procs, Crash(p)
       PROVE  sess[c].run = "accepted"
  BY <1>1, <1>2, <1>10 DEF Crash
<1>11. CASE \/ Admit \/ AdmitFails \/ Reconcile \/ Tick \/ UNCHANGED vars
            \/ \E d \in Calls, h \in Handlers, p \in Procs :
                 ForceEnd(h, d, p) \/ \E strict \in BOOLEAN : HangUp(h, d, p, strict)
  <2>1. sess' = sess
    BY <1>11
    DEF Admit, AdmitFails, Reconcile, ReconcileEnds, ReconcileCleans, ReconcilePrunes, Tick,
        ForceEnd, HangUp, Begin, vars, lifeVars
  <2> QED
    BY <2>1
<1> QED
  BY <1>5, <1>6, <1>7, <1>8, <1>9, <1>10, <1>11 DEF Next, Outside, SessionFails

\* A ticket opens one session: consumed, it is gone, and a call that had a session in any
\* process, whatever became of it, never gets another one.
THEOREM OneSession == Spec => SessionStartsOnce
<1>1. ASSUME AgreedInv, [Next]_vars, NEW c \in Calls, sess'[c].run = "accepted"
      PROVE  sess[c].run \in {"none", "accepted"}
  <2>1. CASE \E p \in Procs : Stream(c, p)
    BY <1>1, <2>1, StreamKeeps
  <2>2. CASE ~\E p \in Procs : Stream(c, p)
    BY <1>1, <2>2, AcceptedBefore DEF AgreedInv
  <2> QED
    BY <2>1, <2>2
<1>2. AgreedInv /\ [Next]_vars =>
        \A c \in Calls : sess'[c].run = "accepted" => sess[c].run \in {"none", "accepted"}
  BY <1>1
<1> QED
  BY <1>2, AgreedAlways, PTL DEF Spec, SessionStartsOnce

-----------------------------------------------------------------------------
(* The promise.  A row is the call's phase, the metered time is the time   *)
(* spoken, the ledger is the charge.                                       *)

PhaseOf == [c \in Calls |-> Phase(c)]

\* A step that moves one call's phase, or none.
LEMMA PhaseMoves ==
    ASSUME NEW c \in Calls, NEW x, Phase(c)' = x,
           \A d \in Calls \ {c} : status'[d] = status[d]
    PROVE  /\ PhaseOf' = [PhaseOf EXCEPT ![c] = x]
           /\ x = Phase(c) => PhaseOf' = PhaseOf
<1>1. \A d \in Calls \ {c} : Phase(d)' = Phase(d)
  BY DEF Phase
<1> QED
  BY <1>1 DEF PhaseOf

\* A transition answers a call that is being set up, gives it up, or does not show.
LEMMA MovePromised ==
    ASSUME AgreedInv, NEW c \in Calls, Moves(c), status'[c] # "ended",
           UNCHANGED <<talk, billed>>
    PROVE  Promise!Answer(c) \/ Promise!GiveUp(c) \/ UNCHANGED Promise!absVars
<1>1. StateTypeOK /\ RowsAgree
  BY DEF AgreedInv, Agreed, TypeOK
<1>2. PICK s \in {"ringing", "connected", "reconnecting"} \cup TERMINAL :
        /\ status[c] \in ACTIVE /\ status' = [status EXCEPT ![c] = s]
        /\ s = "ringing" => status[c] = "deciding"
        /\ s = "connected" => status[c] \in {"ringing", "reconnecting"}
        /\ s = "reconnecting" => status[c] = "connected"
        /\ s \in TERMINAL => (s = "ended" <=> connectedAt[c])
  BY DEF Moves
<1>3. status'[c] = s /\ \A d \in Calls \ {c} : status'[d] = status[d]
  BY <1>1, <1>2 DEF StateTypeOK
<1>4. PhaseOf[c] = Phase(c)
  BY DEF PhaseOf
<1>5. CASE s \in TERMINAL
  <2>1. status[c] \in {"deciding", "ringing"}
    BY <1>1, <1>2, <1>3, <1>5 DEF RowsAgree, ACTIVE
  <2>2. Phase(c) = "setup" /\ Phase(c)' = "done"
    BY <1>3, <1>5, <2>1 DEF Phase, TERMINAL
  <2> QED
    BY <1>3, <1>4, <2>2, PhaseMoves DEF Promise!GiveUp, PhaseOf
<1>6. CASE s = "connected" /\ status[c] = "ringing"
  <2>1. Phase(c) = "setup" /\ Phase(c)' = "live"
    BY <1>3, <1>6 DEF Phase
  <2> QED
    BY <1>3, <1>4, <2>1, PhaseMoves DEF Promise!Answer, PhaseOf
<1>7. CASE s \notin TERMINAL /\ ~(s = "connected" /\ status[c] = "ringing")
  <2>1. Phase(c)' = Phase(c)
    BY <1>2, <1>3, <1>7 DEF Phase
  <2> QED
    BY <1>3, <2>1, PhaseMoves DEF Promise!absVars, PhaseOf
<1> QED
  BY <1>5, <1>6, <1>7

\* create places a call of a user who has no other.
LEMMA InsertPromised ==
    ASSUME AgreedInv, NEW u \in Users, creating[u].phase = "leased", InsertCall(u),
           UNCHANGED <<talk, billed>>
    PROVE  \E c \in Calls : Promise!Place(c)
<1>1. StateTypeOK /\ AdmissionTypeOK /\ RowsAgree /\ FreshCalls /\ Reserved
  BY DEF AgreedInv, Agreed, TypeOK
<1>2. PICK c \in Calls : c = creating[u].call
  BY <1>1, Carried
<1>3. /\ status[c] = "none" /\ UserOf[c] = u
      /\ \A d \in Calls : UserOf[d] = u => status[d] \in {"none"} \cup TERMINAL
  BY <1>1, <1>2 DEF FreshCalls, Reserved, CallsOf, StateTypeOK
<1>4. status'[c] = "deciding" /\ \A d \in Calls \ {c} : status'[d] = status[d]
  BY <1>1, <1>2 DEF InsertCall, StateTypeOK
<1>5. Phase(c) = "none" /\ Phase(c)' = "setup"
  BY <1>3, <1>4 DEF Phase
<1>6. \A d \in Calls : UserOf[d] = UserOf[c] => Phase(d) \in {"none", "done"}
  BY <1>3 DEF Phase, TERMINAL
<1>7. PhaseOf' = [PhaseOf EXCEPT ![c] = "setup"]
  BY <1>4, <1>5, PhaseMoves
<1> QED
  BY <1>5, <1>6, <1>7 DEF Promise!Place, PhaseOf

\* The commit of end_call settles a call that connected, at most for what it was metered,
\* gives up one that did not, and leaves a finished one.
LEMMA CommitPromised ==
    ASSUME AgreedInv, Behind, Behind', TypeOK', NEW a \in Actors, EndCommits(a)
    PROVE  (\E c \in Calls : Promise!Settle(c) \/ Promise!GiveUp(c)) \/ UNCHANGED Promise!absVars
<1>1. PICK c \in Calls : c = fin[a].call
  BY FinalizerKnown DEF EndCommits
<1>2. /\ status \in [Calls -> {"none"} \cup ACTIVE \cup TERMINAL] /\ RowsAgree
      /\ billed \in [Calls -> 0..HardLimit] /\ billed' \in [Calls -> 0..HardLimit]
      /\ talk \in [Calls -> 0..HardLimit] /\ HardLimit \in Nat
  BY StateAssumption DEF AgreedInv, Agreed, TypeOK, StateTypeOK
<1>3. /\ \A d \in Calls \ {c} : status'[d] = status[d]
      /\ UNCHANGED <<connectedAt, talk>>
      /\ ~MustSettle(c) => billed' = billed
      /\ MustSettle(c) => /\ status'[c] = "ended"
                          /\ billed' = [billed EXCEPT ![c] = Evidence(a)]
      /\ status[c] \in ACTIVE /\ ~connectedAt[c] => status'[c] \in {"missed", "failed", "cancelled"}
      /\ status[c] \notin ACTIVE => status' = status
  BY <1>1, CommitSettles
<1>4. PhaseOf[c] = Phase(c)
  BY DEF PhaseOf
<1>5. CASE MustSettle(c)
  <2>1. status[c] \in {"connected", "reconnecting"}
    BY <1>2, <1>5 DEF MustSettle, RowsAgree, ACTIVE
  <2>2. Phase(c) = "live" /\ Phase(c)' = "done"
    BY <1>3, <1>5, <2>1 DEF Phase
  <2>3. Evidence(a) \in 0..talk[c] /\ billed' = [billed EXCEPT ![c] = Evidence(a)]
    <3>1. billed'[c] = Evidence(a)
      BY <1>2, <1>3, <1>5
    <3>2. billed'[c] \in Nat /\ talk[c] \in Nat /\ billed'[c] <= talk[c]
      BY <1>2, <1>3 DEF Behind
    <3> QED
      BY <1>3, <1>5, <3>1, <3>2
  <2>4. PhaseOf' = [PhaseOf EXCEPT ![c] = "done"]
    BY <1>3, <2>2, PhaseMoves
  <2> QED
    BY <1>3, <1>4, <2>2, <2>3, <2>4 DEF Promise!Settle, PhaseOf
<1>6. CASE status[c] \in ACTIVE /\ ~connectedAt[c]
  <2>1. status[c] \in {"deciding", "ringing"}
    BY <1>2, <1>6 DEF RowsAgree, ACTIVE
  <2>2. Phase(c) = "setup" /\ Phase(c)' = "done"
    BY <1>3, <1>6, <2>1 DEF Phase
  <2>3. PhaseOf' = [PhaseOf EXCEPT ![c] = "done"]
    BY <1>3, <2>2, PhaseMoves
  <2> QED
    BY <1>3, <1>4, <1>6, <2>2, <2>3 DEF Promise!GiveUp, PhaseOf, MustSettle
<1>7. CASE status[c] \notin ACTIVE
  <2>1. status' = status /\ billed' = billed
    BY <1>3, <1>7 DEF MustSettle
  <2>2. PhaseOf' = PhaseOf
    BY <2>1 DEF PhaseOf, Phase
  <2> QED
    BY <1>3, <2>1, <2>2 DEF Promise!absVars, PhaseOf
<1> QED
  BY <1>5, <1>6, <1>7 DEF MustSettle

\* Time is spoken in calls that connected; a meter may run on until its owner knows.
LEMMA TickPromised ==
    ASSUME AgreedInv, Tick
    PROVE  Promise!Speak
<1>1. talk \in [Calls -> 0..HardLimit] /\ \A c \in Calls : MeterInv(c)
  BY DEF AgreedInv, Agreed, TypeOK
<1> DEFINE S == {c \in Calls : metering[c] /\ talk[c] < HardLimit}
<1>2. \A c \in S : Phase(c) \in {"live", "done"}
  <2>1. ASSUME NEW c \in S PROVE status[c] \in {"connected", "reconnecting", "ended"}
    BY <1>1, <2>1 DEF MeterInv, AgreedInv, Agreed, RowsAgree
  <2> QED
    BY <2>1 DEF Phase
<1>3. talk' = [c \in Calls |-> IF c \in S THEN talk[c] + 1 ELSE talk[c]]
  BY DEF Tick
<1>4. PhaseOf' = PhaseOf /\ billed' = billed
  BY DEF Tick, RowTick, PhaseOf, Phase
<1>5. S \in SUBSET {c \in Calls : PhaseOf[c] \in {"live", "done"}}
  BY <1>2 DEF PhaseOf
<1> HIDE DEF S
<1> QED
  BY <1>3, <1>4, <1>5 DEF Promise!Speak, PhaseOf

\* What the whole system does to a call - its gateway, its finalizers, its leases, time and
\* crashes - is what the promise allows.
THEOREM KeepsPromise == Spec => ImplementsPromise
<1>1. Init => Promise!AbsInit
  <2> SUFFICES ASSUME Init PROVE Promise!AbsInit
    OBVIOUS
  <2>1. \A c \in Calls : Phase(c) = "none"
    BY DEF Init, StateInit, Phase
  <2> QED
    BY <2>1 DEF Init, Promise!AbsInit
<1>2. AgreedInv /\ Behind /\ [Next]_vars => [Promise!AbsNext]_(Promise!absVars)
  <2> SUFFICES ASSUME AgreedInv, Behind, [Next]_vars
               PROVE  [Promise!AbsNext]_(Promise!absVars)
    OBVIOUS
  <2>1. TypeOK' /\ Behind'
    BY TypesStep, BehindStep DEF AgreedInv, BehindInv
  <2>2. CASE RowsKept /\ UNCHANGED <<talk, billed>>
    BY <2>2 DEF RowsKept, Promise!absVars, Phase
  <2>3. ASSUME NEW c \in Calls, Moves(c), status'[c] # "ended", UNCHANGED <<talk, billed>>
        PROVE  [Promise!AbsNext]_(Promise!absVars)
    BY <2>3, MovePromised DEF Promise!AbsNext
  <2>4. ASSUME NEW u \in Users, creating[u].phase = "leased", InsertCall(u),
               UNCHANGED <<talk, billed>>
        PROVE  [Promise!AbsNext]_(Promise!absVars)
    BY <2>4, InsertPromised DEF Promise!AbsNext
  <2>5. ASSUME NEW a \in Actors, EndCommits(a)
        PROVE  [Promise!AbsNext]_(Promise!absVars)
    BY <2>1, <2>5, CommitPromised DEF Promise!AbsNext
  <2>6. CASE Tick
    BY <2>6, TickPromised DEF Promise!AbsNext
  <2> QED
    BY <2>2, <2>3, <2>4, <2>5, <2>6, RowWriters
<1>3. SavedInv => AgreedInv /\ Behind
  BY DEF SavedInv
<1> QED
  BY <1>1, <1>2, <1>3, SavedAlways, PTL DEF Spec, ImplementsPromise, Promise!AbsSpec
=============================================================================
