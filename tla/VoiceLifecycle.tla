--------------------------- MODULE VoiceLifecycle ---------------------------
(***************************************************************************)
(* One voice call from its socket to its settlement, and everybody who may *)
(* touch it on the way:                                                    *)
(*   - the gateway session that owns it (realtime_voice_gateway_service):  *)
(*     the tasks receiver, heartbeat and lifecycle run side by side, run() *)
(*     waits for the first to finish and then closes the call;             *)
(*   - finalizers (VoiceOpsService.end_call): the session's own one, the   *)
(*     request handlers of any process, and reconcile;                     *)
(*   - the create transactions and the Redis scripts of VoiceAdmission and *)
(*     VoiceLease;                                                         *)
(*   - time, and processes that crash.                                     *)
(* Every await at which another task, process or transaction can get in    *)
(* between is a step boundary; what is decided before one and written      *)
(* after it is carried in the session or in the finalizer.                 *)
(***************************************************************************)
EXTENDS VoiceAdmission

CONSTANTS
    Handlers,   \* request handlers that end calls (users, administrators)
    Reconciler, \* the voice_reconcile_task job
    NoProc,
    MaxFaults   \* bound on crashes and failed database or Redis operations

ASSUME LifecycleAssumption ==
    /\ Handlers \cap Calls = {}
    /\ Reconciler \notin Handlers \cup Calls
    /\ NoProc \notin Procs
    /\ MaxFaults \in Nat

VARIABLES
    sess,       \* the gateway session of a call
    fin,        \* end_call in progress, per actor
    registry,   \* local_voice_calls of every process
    talk,       \* ticks the call was really metered (truth, nobody reads it)
    metering,   \* meter.connected of the session's ConnectedMeter
    meter,      \* what that meter had counted at its last observation
    ckpt,       \* the Redis checkpoint voice:quota:{call}, NoCkpt when absent
    billed,     \* what the usage ledger charges the call
    faults      \* faults so far

meterVars == <<talk, metering, meter, ckpt, billed>>
lifeVars == <<sess, fin, registry, talk, metering, meter, ckpt, billed, faults>>
vars == <<leaseVars, rowVars, admissionVars, lifeVars>>

NoCkpt == -1
Actors == Calls \cup Handlers \cup {Reconciler}

Runs == {"none", "accepted", "running", "closing", "stopping",
         "finalizing", "failed", "rescuing", "gone"}
Stages == {"idle", "deciding", "decided", "ringing", "gated", "won", "metered",
           "talking", "losing", "recovering", "restored", "done"}
Beats == {"idle", "renew"}
Phases == {"cancel", "stop", "commit", "cooldown", "lease"}

Session ==
    [run : Runs, lc : Stages, hb : Beats, home : Procs \cup {NoProc},
     choice : {"none", "ringing", "connected", "missed", "failed", "cancelled"},
     stopped : BOOLEAN, live : BOOLEAN, userCancelled : BOOLEAN]

NoSession ==
    [run |-> "none", lc |-> "idle", hb |-> "idle", home |-> NoProc,
     choice |-> "none", stopped |-> FALSE, live |-> FALSE, userCancelled |-> FALSE]

Gone == [NoSession EXCEPT !.run = "gone", !.stopped = TRUE]

NoFinalizer ==
    [phase |-> "idle", call |-> NoCall, home |-> NoProc,
     local |-> FALSE, reason |-> "other", strict |-> FALSE]

Finalizer ==
    [phase : Phases, call : Calls, home : Procs \cup {NoProc},
     local : BOOLEAN, reason : Reasons, strict : BOOLEAN] \cup {NoFinalizer}

TypeOK ==
    /\ LeaseTypeOK /\ StateTypeOK /\ AdmissionTypeOK
    /\ sess \in [Calls -> Session]
    /\ fin \in [Actors -> Finalizer]
    /\ registry \in [Procs -> SUBSET Calls]
    /\ talk \in [Calls -> 0..HardLimit]
    /\ metering \in [Calls -> BOOLEAN]
    /\ meter \in [Calls -> 0..HardLimit]
    /\ ckpt \in [Calls -> {NoCkpt} \cup 0..HardLimit]
    /\ billed \in [Calls -> 0..HardLimit]
    /\ faults \in 0..MaxFaults

Init ==
    /\ LeaseInit /\ StateInit /\ AdmissionInit
    /\ sess = [c \in Calls |-> NoSession]
    /\ fin = [a \in Actors |-> NoFinalizer]
    /\ registry = [p \in Procs |-> {}]
    /\ talk = [c \in Calls |-> 0]
    /\ metering = [c \in Calls |-> FALSE]
    /\ meter = [c \in Calls |-> 0]
    /\ ckpt = [c \in Calls |-> NoCkpt]
    /\ billed = [c \in Calls |-> 0]
    /\ faults = 0

Fault == faults < MaxFaults /\ faults' = faults + 1

-----------------------------------------------------------------------------
(* Pieces of the gateway. *)

\* The tasks of the session have not been cancelled yet.
TasksRun(c) == sess[c].run \in {"running", "closing", "stopping"}

\* self.cancel: stop_local sets it, and so does the client's cancel frame.
Cancelled(c) == sess[c].stopped \/ sess[c].userCancelled

\* observe(connected): the meter takes in the time since the last observation.
Observe(c, connected) ==
    /\ meter' = [meter EXCEPT ![c] = talk[c]]
    /\ metering' = [metering EXCEPT ![c] = connected]
    /\ UNCHANGED <<talk, billed>>

\* stop_local on the session s of call c: the first caller stops the audio and
\* observes the stop instant, every later one finds it done.
StopLocal(c) ==
    IF sess[c].stopped
    THEN UNCHANGED <<talk, metering, meter, billed>>
    ELSE Observe(c, FALSE)

StoppedSession(s) == IF s.stopped THEN s ELSE [s EXCEPT !.stopped = TRUE, !.live = FALSE]

\* CHECKPOINT_LUA keeps the later of two observations.
Checkpointed(c, seconds) == [ckpt EXCEPT ![c] = IF @ > seconds THEN @ ELSE seconds]

-----------------------------------------------------------------------------
(* The stream endpoint and run(). *)

Stream(c, p) ==
    /\ ConsumeTicket(c)
    /\ sess' = [sess EXCEPT ![c] = [NoSession EXCEPT !.run = "accepted", !.home = p]]
    /\ UNCHANGED <<fin, registry, meterVars, faults>>

\* Mutant: run() starts its tasks without local_voice_calls.
Register_Unlisted(c) ==
    /\ sess[c].run = "accepted"
    /\ sess' = [sess EXCEPT ![c].run = "running", ![c].lc = "deciding"]
    /\ UNCHANGED <<leaseVars, rowVars, admissionVars, fin, registry, meterVars, faults>>

Register(c) ==
    /\ sess[c].run = "accepted"
    /\ c \notin registry[sess[c].home]
    /\ registry' = [registry EXCEPT ![sess[c].home] = @ \cup {c}]
    /\ sess' = [sess EXCEPT ![c].run = "running", ![c].lc = "deciding"]
    /\ UNCHANGED <<leaseVars, rowVars, admissionVars, fin, meterVars, faults>>

\* The endpoint's except-branch: an unconnected call is failed, then end_call
\* is tried (once more).
Rescue(c) ==
    /\ ~CallLocked(c)
    /\ transition_call(c, {"deciding", "ringing"}, "failed")
    /\ sess' = [sess EXCEPT ![c].run = "rescuing"]
    /\ fin' = [fin EXCEPT ![c] =
                 [phase |-> "stop", call |-> c, home |-> sess[c].home,
                  local |-> c \in registry[sess[c].home],
                  reason |-> "other", strict |-> FALSE]]
    /\ UNCHANGED <<leaseVars, admissionVars, registry, meterVars, faults>>

\* The socket could not be accepted.
StreamRejects(c) == sess[c].run = "accepted" /\ Rescue(c)

\* run() raised.
StreamRescues(c) == sess[c].run = "failed" /\ Rescue(c)

\* lifecycle: CALL-01 has answered; the target is chosen before the lock is.
Decide(c, answer) ==
    /\ TasksRun(c) /\ sess[c].lc = "deciding"
    /\ sess' = [sess EXCEPT ![c].lc = "decided",
                            ![c].choice = IF Cancelled(c) THEN "cancelled" ELSE answer]
    /\ UNCHANGED <<leaseVars, rowVars, admissionVars, fin, registry, meterVars, faults>>

DecideCommits(c) ==
    /\ TasksRun(c) /\ sess[c].lc = "decided"
    /\ ~CallLocked(c)
    /\ transition_call(c, {"deciding"}, sess[c].choice)
    /\ sess' = [sess EXCEPT ![c].lc = IF Transits(c, {"deciding"}) /\ sess[c].choice = "ringing"
                                      THEN "ringing" ELSE "done",
                            ![c].choice = "none"]
    /\ UNCHANGED <<leaseVars, admissionVars, fin, registry, meterVars, faults>>

\* RingGate's verdict: cancel wins, then a ready provider or its failure.
Gate(c, verdict) ==
    /\ TasksRun(c) /\ sess[c].lc = "ringing"
    /\ sess' = IF sess[c].stopped
               THEN [sess EXCEPT ![c].lc = "done"]
               ELSE [sess EXCEPT ![c].lc = "gated",
                                 ![c].choice = IF Cancelled(c) THEN "cancelled" ELSE verdict]
    /\ UNCHANGED <<leaseVars, rowVars, admissionVars, fin, registry, meterVars, faults>>

GateCommits(c) ==
    /\ TasksRun(c) /\ sess[c].lc = "gated"
    /\ ~CallLocked(c)
    /\ transition_call(c, {"ringing"}, sess[c].choice)
    /\ sess' = [sess EXCEPT ![c].lc = IF Transits(c, {"ringing"}) /\ sess[c].choice = "connected"
                                      THEN "won" ELSE "done",
                            ![c].choice = "none"]
    /\ UNCHANGED <<leaseVars, admissionVars, fin, registry, meterVars, faults>>

\* The row is connected; metering starts only now, unless stopped meanwhile.
StartMeter(c) ==
    /\ TasksRun(c) /\ sess[c].lc = "won"
    /\ IF sess[c].stopped
       THEN /\ sess' = [sess EXCEPT ![c].lc = "done"]
            /\ UNCHANGED <<talk, metering, meter, billed>>
       ELSE /\ sess' = [sess EXCEPT ![c].lc = "metered"]
            /\ Observe(c, TRUE)
    /\ UNCHANGED <<leaseVars, rowVars, admissionVars, fin, registry, ckpt, faults>>

FirstCheckpoint(c) ==
    /\ TasksRun(c) /\ sess[c].lc = "metered"
    /\ ckpt' = Checkpointed(c, meter[c])
    /\ sess' = [sess EXCEPT ![c].lc = "talking", ![c].live = TRUE]
    /\ UNCHANGED <<leaseVars, rowVars, admissionVars, fin, registry,
                   talk, metering, meter, billed, faults>>

FirstCheckpointFails(c) ==
    /\ TasksRun(c) /\ sess[c].lc = "metered"
    /\ Fault
    /\ sess' = [sess EXCEPT ![c].lc = "done"]
    /\ UNCHANGED <<leaseVars, rowVars, admissionVars, fin, registry, meterVars>>

\* Mutant: the meter is left running through the reconnect.
Lose_Unpaused(c) ==
    /\ TasksRun(c) /\ sess[c].lc = "talking" /\ ~sess[c].stopped
    /\ sess' = [sess EXCEPT ![c].lc = "losing", ![c].live = FALSE]
    /\ UNCHANGED <<leaseVars, rowVars, admissionVars, fin, registry, meterVars, faults>>

\* A transport or the provider is lost: metering pauses, then the row follows.
Lose(c) ==
    /\ TasksRun(c) /\ sess[c].lc = "talking" /\ ~sess[c].stopped
    /\ sess' = [sess EXCEPT ![c].lc = "losing", ![c].live = FALSE]
    /\ Observe(c, FALSE)
    /\ UNCHANGED <<leaseVars, rowVars, admissionVars, fin, registry, ckpt, faults>>

LoseCommits(c) ==
    /\ TasksRun(c) /\ sess[c].lc = "losing"
    /\ ~CallLocked(c)
    /\ transition_call(c, {"connected"}, "reconnecting")
    /\ sess' = [sess EXCEPT ![c].lc = IF Transits(c, {"connected"}) THEN "recovering" ELSE "done"]
    /\ UNCHANGED <<leaseVars, admissionVars, fin, registry, meterVars, faults>>

\* restored() re-reads the lease under the row locks before it moves the row.
RestoreCommits(c) ==
    /\ TasksRun(c) /\ sess[c].lc = "recovering" /\ ~sess[c].stopped
    /\ ~CallLocked(c)
    /\ userKey[UserOf[c]] = c
    /\ status[c] = "reconnecting"
    /\ transition_call(c, {"reconnecting"}, "connected")
    /\ sess' = [sess EXCEPT ![c].lc = "restored"]
    /\ UNCHANGED <<leaseVars, admissionVars, fin, registry, meterVars, faults>>

RestoreObserves(c) ==
    /\ TasksRun(c) /\ sess[c].lc = "restored" /\ ~sess[c].stopped
    /\ sess' = [sess EXCEPT ![c].lc = "talking", ![c].live = TRUE]
    /\ Observe(c, TRUE)
    /\ UNCHANGED <<leaseVars, rowVars, admissionVars, fin, registry, ckpt, faults>>

\* Deadline, provider failure, lost lease, row moved on: failed() requests the
\* end.  A session stopped by somebody else has its recovery cancelled.
RecoveryFails(c) ==
    /\ TasksRun(c) /\ sess[c].lc \in {"recovering", "restored"}
    /\ sess' = [sess EXCEPT ![c] = [StoppedSession(@) EXCEPT !.lc = "done"]]
    /\ StopLocal(c)
    /\ UNCHANGED <<leaseVars, rowVars, admissionVars, fin, registry, ckpt, faults>>

\* The conversation loop leaves when it finds itself stopped or cancelled.
TalkEnds(c) ==
    /\ TasksRun(c) /\ sess[c].lc = "talking" /\ Cancelled(c)
    /\ sess' = [sess EXCEPT ![c].lc = "done"]
    /\ UNCHANGED <<leaseVars, rowVars, admissionVars, fin, registry, meterVars, faults>>

\* Mutant: a row that is not in progress makes the loop skip the beat.
HeartbeatReads_SkipsBeat(c) ==
    /\ TasksRun(c) /\ sess[c].hb = "idle" /\ ~sess[c].stopped
    /\ status[c] \in {"deciding", "ringing", "connected", "reconnecting"}
    /\ sess' = [sess EXCEPT ![c].hb = "renew"]
    /\ UNCHANGED <<leaseVars, rowVars, admissionVars, fin, registry, meterVars, faults>>

\* heartbeat: durable status first; a row somebody else ended stops the audio.
HeartbeatReads(c) ==
    /\ TasksRun(c) /\ sess[c].hb = "idle" /\ ~sess[c].stopped
    /\ IF status[c] \in {"deciding", "ringing", "connected", "reconnecting"}
       THEN /\ sess' = [sess EXCEPT ![c].hb = "renew"]
            /\ UNCHANGED <<talk, metering, meter, billed>>
       ELSE /\ sess' = [sess EXCEPT ![c] = StoppedSession(@)]
            /\ StopLocal(c)
    /\ UNCHANGED <<leaseVars, rowVars, admissionVars, fin, registry, ckpt, faults>>

\* A renewed lease, then the meter and its checkpoint (no other actor reads or
\* writes anything that would tell the three apart).
HeartbeatRenews(c, ttl) ==
    /\ TasksRun(c) /\ sess[c].hb = "renew"
    /\ Renew(c, ttl)
    /\ sess' = [sess EXCEPT ![c].hb = "idle"]
    /\ Observe(c, sess[c].live)
    /\ ckpt' = Checkpointed(c, meter'[c])
    /\ UNCHANGED <<rowVars, admissionVars, fin, registry, faults>>

\* renew answered 0: leases.end_call is request_end here, which stops.
HeartbeatLosesLease(c) ==
    /\ TasksRun(c) /\ sess[c].hb = "renew"
    /\ ~RenewSucceeds(c)
    /\ sess' = [sess EXCEPT ![c] = [StoppedSession(@) EXCEPT !.hb = "idle"]]
    /\ StopLocal(c)
    /\ UNCHANGED <<leaseVars, rowVars, admissionVars, fin, registry, ckpt, faults>>

\* renew raised: treated exactly like a refusal although the lease may be held.
HeartbeatCannotRenew(c) ==
    /\ TasksRun(c) /\ sess[c].hb = "renew"
    /\ Fault
    /\ sess' = [sess EXCEPT ![c] = [StoppedSession(@) EXCEPT !.hb = "idle"]]
    /\ StopLocal(c)
    /\ UNCHANGED <<leaseVars, rowVars, admissionVars, fin, registry, ckpt>>

\* ending_clock four times a second and every microphone_state frame: the
\* meter moves on without its checkpoint, also in a session just stopped.
ClockObserves(c) ==
    /\ TasksRun(c)
    /\ Observe(c, sess[c].live)
    /\ UNCHANGED <<leaseVars, rowVars, admissionVars, sess, fin, registry, ckpt, faults>>

\* The client's cancel frame: the receiver returns.
UserCancels(c) ==
    /\ sess[c].run = "running" /\ ~sess[c].stopped
    /\ sess' = [sess EXCEPT ![c].userCancelled = TRUE, ![c].run = "closing"]
    /\ UNCHANGED <<leaseVars, rowVars, admissionVars, fin, registry, meterVars, faults>>

\* A task returns or raises for a reason the model does not tell apart: lost
\* socket, missed client heartbeats, bad frame, goodbye, silence, quota.
TaskEnds(c) ==
    /\ sess[c].run = "running"
    /\ sess' = [sess EXCEPT ![c].run = "closing"]
    /\ UNCHANGED <<leaseVars, rowVars, admissionVars, fin, registry, meterVars, faults>>

\* Of these, what run() cannot fail to notice: lifecycle has returned, or the
\* loops find the session stopped.
RunWakes(c) ==
    /\ sess[c].lc = "done" \/ sess[c].stopped
    /\ TaskEnds(c)

\* run()'s finally: settle an unconnected row, stop, cancel the tasks, end.
CloseTransition(c) ==
    /\ sess[c].run = "closing"
    /\ IF sess[c].live
       THEN UNCHANGED rowVars
       ELSE /\ ~CallLocked(c)
            /\ transition_call(c, {"deciding", "ringing"},
                               IF sess[c].userCancelled THEN "cancelled" ELSE "failed")
    /\ sess' = [sess EXCEPT ![c].run = "stopping"]
    /\ UNCHANGED <<leaseVars, admissionVars, fin, registry, meterVars, faults>>

CloseTransitionFails(c) ==
    /\ sess[c].run = "closing" /\ ~sess[c].live
    /\ Fault
    /\ sess' = [sess EXCEPT ![c].run = "stopping"]
    /\ UNCHANGED <<leaseVars, rowVars, admissionVars, fin, registry, meterVars>>

CloseStops(c) ==
    /\ sess[c].run = "stopping"
    /\ StopLocal(c)
    /\ sess' = [sess EXCEPT ![c] = [StoppedSession(@) EXCEPT !.run = "finalizing", !.lc = "done",
                                                            !.hb = "idle", !.choice = "none"]]
    /\ fin' = [fin EXCEPT ![c] =
                 [phase |-> "stop", call |-> c, home |-> sess[c].home,
                  local |-> c \in registry[sess[c].home],
                  reason |-> IF sess[c].userCancelled THEN "user_hangup" ELSE "other",
                  strict |-> FALSE]]
    /\ UNCHANGED <<leaseVars, rowVars, admissionVars, registry, ckpt, faults>>

\* The stop's own observation raised: the audio is off, the meter was not told.
CloseStopsUnobserved(c) ==
    /\ sess[c].run = "stopping" /\ ~sess[c].stopped
    /\ Fault
    /\ sess' = [sess EXCEPT ![c] = StoppedSession(@)]
    /\ UNCHANGED <<leaseVars, rowVars, admissionVars, fin, registry, meterVars>>

-----------------------------------------------------------------------------
(* end_call, for whoever calls it. *)

Begin(a, c, p, phase, reason, strict) ==
    /\ fin[a].phase = "idle"
    /\ fin' = [fin EXCEPT ![a] = [phase |-> phase, call |-> c, home |-> p,
                                  local |-> phase # "cooldown" /\ c \in registry[p],
                                  reason |-> reason, strict |-> strict]]
    /\ UNCHANGED <<leaseVars, rowVars, admissionVars, sess, registry, meterVars, faults>>

\* POST /calls/{id}/end: the status read here only picks the way in.
HangUp(h, c, p, strict) ==
    /\ status[c] # "none"
    /\ Begin(h, c, p, IF strict \/ status[c] \in {"deciding", "ringing"} THEN "cancel" ELSE "stop",
             "user_hangup", strict)

\* force-end, and each fixed target of hard-stop.
ForceEnd(h, c, p) ==
    /\ status[c] # "none"
    /\ Begin(h, c, p, "stop", "other", FALSE)

\* Mutant: only the hard limit makes reconcile end a call.
ReconcileEnds_OverdueOnly(c, p) ==
    /\ status[c] \in ACTIVE
    /\ connectedAt[c] /\ age[c] = HardLimit
    /\ Begin(Reconciler, c, p, "stop", "other", FALSE)

ReconcileEnds(c, p) ==
    /\ status[c] \in ACTIVE
    /\ (connectedAt[c] /\ age[c] = HardLimit) \/ userKey[UserOf[c]] # c
    /\ Begin(Reconciler, c, p, "stop", "other", FALSE)

ReconcileCleans(c, p) ==
    /\ status[c] \in TERMINAL /\ sinceEnd[c] < RecentTicks
    /\ Begin(Reconciler, c, p, "cooldown", "other", FALSE)

ReconcilePrunes ==
    /\ fin[Reconciler].phase = "idle"
    /\ PruneExpired
    /\ UNCHANGED <<rowVars, admissionVars, lifeVars>>

\* Where an actor is after its end_call returned (ok) or raised.  run() lets
\* the exception out into the endpoint, which tries once more.
Leave(a, ok) ==
    /\ fin' = [fin EXCEPT ![a] = NoFinalizer]
    /\ sess' = IF a \notin Calls THEN sess
               ELSE [sess EXCEPT ![a] = IF ~ok /\ @.run = "finalizing"
                                        THEN [@ EXCEPT !.run = "failed"] ELSE Gone]

\* Mutant: only_if_unconnected forgets that a call may be reconnecting.
RouterCancels_ConnectedOnly(a) ==
    LET c == fin[a].call
        refused == fin[a].strict /\ status[c] = "connected"
    IN  /\ fin[a].phase = "cancel"
        /\ ~CallLocked(c)
        /\ transition_call(c, {"deciding", "ringing"}, "cancelled")
        /\ fin' = [fin EXCEPT ![a] = IF refused THEN NoFinalizer
                                     ELSE [@ EXCEPT !.phase = "stop",
                                                    !.local = c \in registry[fin[a].home]]]
        /\ UNCHANGED <<leaseVars, admissionVars, sess, registry, meterVars, faults>>

\* The router cancels an unconnected call first; only_if_unconnected answers
\* 409 instead of ending a call that connected or is still in progress.
RouterCancels(a) ==
    LET c == fin[a].call
        refused == /\ fin[a].strict /\ ~Transits(c, {"deciding", "ringing"})
                   /\ connectedAt[c] \/ status[c] \notin TERMINAL
    IN  /\ fin[a].phase = "cancel"
        /\ ~CallLocked(c)
        /\ transition_call(c, {"deciding", "ringing"}, "cancelled")
        /\ fin' = [fin EXCEPT ![a] = IF refused THEN NoFinalizer
                                     ELSE [@ EXCEPT !.phase = "stop",
                                                    !.local = c \in registry[fin[a].home]]]
        /\ UNCHANGED <<leaseVars, admissionVars, sess, registry, meterVars, faults>>

\* The audio of a local session stops before anything can fail.
EndStops(a) ==
    LET c == fin[a].call
    IN  /\ fin[a].phase = "stop"
        /\ fin' = [fin EXCEPT ![a].phase = "commit"]
        /\ IF fin[a].local
           THEN /\ sess' = [sess EXCEPT ![c] = StoppedSession(@)]
                /\ StopLocal(c)
           ELSE UNCHANGED <<sess, talk, metering, meter, billed>>
        /\ UNCHANGED <<leaseVars, rowVars, admissionVars, registry, ckpt, faults>>

EndStopsUnobserved(a) ==
    LET c == fin[a].call
    IN  /\ fin[a].phase = "stop" /\ fin[a].local /\ a \notin Calls
        /\ ~sess[c].stopped
        /\ Fault
        /\ sess' = [sess EXCEPT ![c] = StoppedSession(@)]
        /\ fin' = [fin EXCEPT ![a] = NoFinalizer]
        /\ UNCHANGED <<leaseVars, rowVars, admissionVars, registry, meterVars>>

\* Billable time is the local meter, else the Redis checkpoint, never a guess.
HasEvidence(a) == fin[a].local \/ ckpt[fin[a].call] # NoCkpt

\* Mutant: guesses the time from connected_at when there is no local meter.
Evidence_WallClock(a) == IF fin[a].local THEN meter[fin[a].call] ELSE age[fin[a].call]

\* Mutant: no local meter counts as no time.
Evidence_LocalOnly(a) == IF fin[a].local THEN meter[fin[a].call] ELSE 0

Evidence(a) == IF fin[a].local THEN meter[fin[a].call] ELSE ckpt[fin[a].call]

\* Mutant: a finished call is settled again.
MustSettle_Replayed(c) == status[c] # "none" /\ connectedAt[c]

MustSettle(c) == status[c] \in ACTIVE /\ connectedAt[c]

\* Settlement and terminal state are one transaction.
EndCommits(a) ==
    LET c == fin[a].call
    IN  /\ fin[a].phase = "commit"
        /\ ~CallLocked(c)
        /\ MustSettle(c) => HasEvidence(a)
        /\ billed' = IF MustSettle(c) THEN [billed EXCEPT ![c] = Evidence(a)] ELSE billed
        /\ stage_final_state(c, fin[a].reason)
        /\ fin' = [fin EXCEPT ![a].phase = "cooldown"]
        /\ UNCHANGED <<leaseVars, admissionVars, sess, registry, talk, metering, meter, ckpt, faults>>

CheckpointMissing(a) ==
    LET c == fin[a].call
    IN  /\ fin[a].phase = "commit"
        /\ ~CallLocked(c)
        /\ MustSettle(c) /\ ~HasEvidence(a)
        /\ Leave(a, FALSE)
        /\ UNCHANGED <<leaseVars, rowVars, admissionVars, registry, meterVars, faults>>

\* Mutant: the ledger was committed by a transaction of its own.
EndFails_HalfCommitted(a) ==
    /\ fin[a].phase = "commit"
    /\ Fault
    /\ MustSettle(fin[a].call) /\ HasEvidence(a)
    /\ billed' = [billed EXCEPT ![fin[a].call] = Evidence(a)]
    /\ Leave(a, FALSE)
    /\ UNCHANGED <<leaseVars, rowVars, admissionVars, registry, talk, metering, meter, ckpt>>

\* The transaction raised (four deadlocks, a lost connection, a hook,
\* quota_changed_before_settlement): nothing is written.
EndFails(a) ==
    /\ fin[a].phase = "commit"
    /\ Fault
    /\ Leave(a, FALSE)
    /\ UNCHANGED <<leaseVars, rowVars, admissionVars, registry, meterVars>>

\* _cleanup_ended: each action is tried whatever became of the one before.
CleanCooldown(a) ==
    LET c == fin[a].call
    IN  /\ fin[a].phase = "cooldown"
        /\ Cooldown(UserOf[c], sinceEnd[c])
        /\ fin' = [fin EXCEPT ![a].phase = "lease"]
        /\ UNCHANGED <<rowVars, admissionVars, sess, registry, meterVars, faults>>

\* The lease, the context and, by a finalizer that found it, the local handle.
EndReturns(a, released) ==
    /\ fin[a].phase = "lease"
    /\ IF released THEN Release(fin[a].call) ELSE UNCHANGED leaseVars
    /\ registry' = IF fin[a].local
                   THEN [registry EXCEPT ![fin[a].home] = @ \ {fin[a].call}]
                   ELSE registry
    /\ Leave(a, TRUE)
    /\ UNCHANGED <<rowVars, admissionVars, meterVars>>

CleanLease(a) ==
    /\ EndReturns(a, TRUE)
    /\ UNCHANGED faults

CleanFails(a) ==
    /\ Fault
    /\ \/ EndReturns(a, FALSE)
       \/ /\ fin[a].phase = "cooldown"
          /\ fin' = [fin EXCEPT ![a].phase = "lease"]
          /\ UNCHANGED <<leaseVars, rowVars, admissionVars, sess, registry, meterVars>>

-----------------------------------------------------------------------------
(* Time and crashes. *)

\* Time passes for every clock at once.  talk is counted up to HardLimit.
Tick ==
    /\ LeaseTick /\ RowTick
    /\ talk' = [c \in Calls |-> IF metering[c] /\ talk[c] < HardLimit
                                THEN talk[c] + 1 ELSE talk[c]]
    /\ UNCHANGED <<admissionVars, sess, fin, registry, metering, meter, ckpt, billed, faults>>

\* A process takes its sessions, finalizers, registry and open transactions
\* with it; rows and Redis keys stay.
Crash(p) ==
    /\ Fault
    /\ sess' = [c \in Calls |-> IF sess[c].home = p THEN Gone ELSE sess[c]]
    /\ metering' = [c \in Calls |-> metering[c] /\ sess[c].home # p]
    /\ fin' = [a \in Actors |-> IF fin[a].home = p THEN NoFinalizer ELSE fin[a]]
    /\ registry' = [registry EXCEPT ![p] = {}]
    /\ creating' = [u \in Users |-> IF creating[u] # Idle /\ creating[u].proc = p
                                    THEN Idle ELSE creating[u]]
    /\ UNCHANGED <<leaseVars, rowVars, record, tickets, minted,
                   talk, meter, ckpt, billed>>

-----------------------------------------------------------------------------
Admit ==
    /\ \/ \E u \in Users :
            \/ \E k \in Keys, p \in Procs : CreateChecks(u, k, p)
            \/ \E c \in Calls, ttl \in Ttls : CreateLeases(u, c, ttl)
            \/ \E c \in Calls : CreateRefused(u, c)
            \/ CreateRejected(u) \/ CreateCommits(u) \/ CreateRollsBack(u)
            \/ \E k \in Keys : ReplayExpires(u, k)
       \/ \E c \in Calls : TicketExpires(c)
    /\ UNCHANGED lifeVars

AdmitFails ==
    /\ \E u \in Users : CreateAbandons(u) \/ CreateCommitAnswerLost(u)
    /\ Fault
    /\ UNCHANGED <<sess, fin, registry, meterVars>>

Lifecycle(c) ==
    \/ \E answer \in {"ringing", "missed"} : Decide(c, answer)
    \/ \E verdict \in {"connected", "failed"} : Gate(c, verdict)
    \/ DecideCommits(c) \/ GateCommits(c) \/ StartMeter(c) \/ FirstCheckpoint(c)
    \/ LoseCommits(c) \/ RestoreCommits(c) \/ RestoreObserves(c)
    \/ RecoveryFails(c) \/ TalkEnds(c)

Heartbeat(c) ==
    \/ HeartbeatReads(c) \/ HeartbeatLosesLease(c)
    \/ \E ttl \in Ttls : HeartbeatRenews(c, ttl)

Run(c) ==
    \/ Register(c) \/ RunWakes(c) \/ CloseTransition(c) \/ CloseStops(c)
    \/ StreamRescues(c)

End(a) ==
    \/ RouterCancels(a) \/ EndStops(a) \/ EndCommits(a) \/ CheckpointMissing(a)
    \/ CleanCooldown(a) \/ CleanLease(a)

Reconcile ==
    \/ \E c \in Calls, p \in Procs : ReconcileEnds(c, p) \/ ReconcileCleans(c, p)
    \/ ReconcilePrunes

Outside(c) ==
    \/ \E p \in Procs : Stream(c, p)
    \/ StreamRejects(c) \/ Lose(c) \/ UserCancels(c) \/ TaskEnds(c) \/ ClockObserves(c)
    \/ \E h \in Handlers, p \in Procs :
          ForceEnd(h, c, p) \/ \E strict \in BOOLEAN : HangUp(h, c, p, strict)

SessionFails(c) ==
    \/ FirstCheckpointFails(c) \/ HeartbeatCannotRenew(c)
    \/ CloseTransitionFails(c) \/ CloseStopsUnobserved(c)

Next ==
    \/ Admit \/ AdmitFails \/ Reconcile \/ Tick
    \/ \E c \in Calls : Lifecycle(c) \/ Heartbeat(c) \/ Run(c) \/ Outside(c) \/ SessionFails(c)
    \/ \E a \in Actors : End(a) \/ EndFails(a) \/ EndStopsUnobserved(a) \/ CleanFails(a)
    \/ \E p \in Procs : Crash(p)

Spec == Init /\ [][Next]_vars

\* Time passes, event loops run their ready tasks, reconcile comes round every
\* five seconds, and InnoDB grants a contended row lock in queue order, so
\* that a transaction that keeps asking for it gets it (strong fairness).
\* Nothing is assumed of users, administrators, the provider or the network.
Fairness ==
    /\ WF_vars(Tick)
    /\ WF_vars(Admit /\ \E u \in Users : UserLocked(u) /\ creating'[u] = Idle)
    /\ \A c \in Calls :
          /\ SF_vars(Lifecycle(c)) /\ WF_vars(Heartbeat(c)) /\ SF_vars(Run(c))
          /\ WF_vars(\E p \in Procs : ReconcileEnds(c, p))
          /\ WF_vars(\E p \in Procs : ReconcileCleans(c, p))
    /\ \A a \in Actors : SF_vars(End(a))

FairSpec == Spec /\ Fairness

-----------------------------------------------------------------------------
(* Safety. *)

\* No user pays for more than the meter ran, whoever settles, from whichever
\* evidence, and after however many crashes, replays and late checkpoints.
NeverOvercharged == \A c \in Calls : billed[c] <= talk[c]

\* A process that crashed is charged for at least its last checkpoint, and so
\* is a call that its owner settles: no finalizer bills less than what was
\* already durable.
ChargeCoversCheckpoint ==
    [][\A c \in Calls : status[c] \in ACTIVE /\ status'[c] = "ended" =>
          ckpt[c] <= billed'[c]]_vars

\* Ringing, connecting and reconnecting are not metered, although heartbeats
\* and microphone frames observe the meter in every state of the call.
MeteredOnlyWhenConnected ==
    \A c \in Calls : metering[c] => connectedAt[c] /\ status[c] # "reconnecting"

\* "register before CONNECTED and remove only after end commits": while the
\* owner lives, a call in progress can be stopped in its process.
HandleOutlivesCall ==
    \A c \in Calls :
        TasksRun(c) => c \in registry[sess[c].home] \/ status[c] \in TERMINAL

\* One ticket, one session: a call that ever had a session never gets another
\* one, in any process, whatever the first one came to.
SessionStartsOnce ==
    [][\A c \in Calls : sess'[c].run = "accepted" => sess[c].run \in {"none", "accepted"}]_vars

\* only_if_unconnected never ends a call that connected while the request was
\* under way: once past the cancel it can only clean up after a finished one.
StrictHangUpOnlyCleans ==
    \A h \in Handlers :
        fin[h].strict /\ fin[h].phase \in {"stop", "commit", "cooldown", "lease"} =>
            status[fin[h].call] \in TERMINAL

\* "<3s: blocked, no call is created" (STEP-009): no call is created within
\* the cooldown of the user's previous one.
NoRedialInsideCooldown ==
    [][\A c \in Calls : status[c] = "none" /\ status'[c] # "none" =>
          \A d \in CallsOf(UserOf[c]) :
              status[d] \in TERMINAL => sinceEnd[d] >= CooldownTicks]_vars

\* The promise, implemented.
Phase(c) ==
    CASE status[c] = "none" -> "none"
      [] status[c] \in {"deciding", "ringing"} -> "setup"
      [] status[c] \in {"connected", "reconnecting", "ending"} -> "live"
      [] OTHER -> "done"

Promise == INSTANCE VoiceCallAbstract WITH
    phase <- [c \in Calls |-> Phase(c)], spoken <- talk, charge <- billed

ImplementsPromise == Promise!AbsSpec

-----------------------------------------------------------------------------
(* Liveness, under FairSpec. *)

\* The call connected, its owner is gone, and no checkpoint was ever written.
EvidenceLost(c) ==
    /\ MustSettle(c)
    /\ ckpt[c] = NoCkpt
    /\ \A p \in Procs : c \notin registry[p]

\* Over, silent in its owner's process, and its user free to dial again.
AtRest(c) ==
    /\ status[c] \in TERMINAL
    /\ TasksRun(c) => sess[c].stopped
    /\ userKey[UserOf[c]] # c

\* Every call comes to rest, by itself, by the hard limit, by lease expiry or after a
\* crash - unless the evidence is lost.  Whoever ended it, an owner in another process
\* notices and stops its audio; and the lease is freed, although cleanup is tried only
\* after the commit and may fail, and heartbeats may still renew it meanwhile.
CallsComeToRest == \A c \in Calls : status[c] \in ACTIVE ~> AtRest(c) \/ EvidenceLost(c)

\* "a crashed process is settled from its last heartbeat" (STEP-008).
CallsEnd == \A c \in Calls : status[c] \in ACTIVE ~> status[c] \in TERMINAL
=============================================================================
