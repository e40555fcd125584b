--------------------------- MODULE VoiceReconnect ---------------------------
(***************************************************************************)
(* The reconnect window of one connected call, in the process that owns it: *)
(* ReconnectCoordinator (backend/services/realtime_voice_reconnect_service  *)
(* .py) and what the gateway does in disconnected, rebuild, restored and    *)
(* failed.  Four tasks run beside the recovery: the receiver reads the      *)
(* client's socket, lifecycle reads the provider, heartbeat and             *)
(* ending_clock (the Senders) write to the client.  Each await is a step    *)
(* boundary.  VoiceLifecycle has the rows, leases and charges of all calls; *)
(* here the row is only connected, reconnecting or over.                    *)
(***************************************************************************)
EXTENDS Integers

CONSTANTS
    Senders,        \* heartbeat, ending_clock
    MaxSockets,     \* bound: sockets the client opens
    MaxTickets,     \* bound: tickets the client asks for
    MaxFailures     \* bound: provider failures, failed steps, outside endings

ASSUME ReconnectAssumption ==
    /\ MaxSockets \in Nat \ {0} /\ MaxTickets \in Nat /\ MaxFailures \in Nat
    /\ Senders \cap {"receiver", "lifecycle", "none", "recover"} = {}

Tasks == {"receiver", "lifecycle"} \cup Senders
Sockets == 1..MaxSockets
Tickets == 1..MaxTickets
Nothing == 0        \* no socket, no ticket

VARIABLES
    co,         \* the coordinator: active, need_socket, socket, ready, jti, and
                \* whether its deadline has passed
    lock,       \* who holds its lock across an await
    rec,        \* where the newest _recover is
    at,         \* where each task is
    lost,       \* the client_lost with which a task calls begin
    reading,    \* the socket whose receive_text the receiver awaits
    socket,     \* self.socket of the gateway
    connected,  \* self.connected
    stop,       \* stop_local: no, running, done; gone when run has returned
    row,        \* voice_call.status
    provider,   \* whether a session with the provider is open
    net,        \* each socket: unopened, up, stuck (writes time out, a frame
                \* may still come in), down
    issued,     \* tickets issued so far
    failures    \* bound

coVars == <<co, lock, rec>>
taskVars == <<at, lost, reading>>
callVars == <<socket, connected, stop, row, provider>>
clientVars == <<net, issued>>
vars == <<coVars, taskVars, callVars, clientVars, failures>>

Coordinator ==
    [active : BOOLEAN, need : BOOLEAN, socket : Sockets \cup {Nothing},
     ready : BOOLEAN, jti : Tickets \cup {Nothing}, expired : BOOLEAN]

InRecovery == {"rebuild", "check", "wait", "restore", "resume", "announce"}

\* The lock is held across the awaits of disconnected and of restored, no longer.
LockHeld ==
    /\ lock = "recover" <=> rec \in {"restore", "resume", "announce"}
    /\ \A t \in Tasks : lock = t <=> at[t] = "disconnect"

\* Types, and who may hold the coordinator's lock: cancel and a failing restored
\* must leave it free for begin, issue and attach.
TypeOK ==
    /\ co \in Coordinator
    /\ lock \in {"none", "recover"} \cup Tasks /\ LockHeld
    /\ rec \in InRecovery \cup {"none", "failing", "done"}
    /\ at \in [Tasks -> {"work", "sending", "begin", "disconnect", "await", "over"}]
    /\ lost \in [Tasks -> BOOLEAN]
    /\ reading \in Sockets /\ socket \in Sockets
    /\ connected \in BOOLEAN
    /\ stop \in {"no", "running", "done", "gone"}
    /\ row \in {"connected", "reconnecting", "over"}
    /\ provider \in BOOLEAN
    /\ net \in [Sockets -> {"unopened", "up", "stuck", "down"}]
    /\ issued \in {Nothing} \cup Tickets
    /\ failures \in 0..MaxFailures

Idle == [active |-> FALSE, need |-> FALSE, socket |-> Nothing, ready |-> FALSE,
         jti |-> Nothing, expired |-> FALSE]

Init ==
    /\ co = Idle /\ lock = "none" /\ rec = "none"
    /\ at = [t \in Tasks |-> "work"] /\ lost = [t \in Tasks |-> FALSE]
    /\ reading = 1 /\ socket = 1 /\ connected = TRUE /\ stop = "no"
    /\ row = "connected" /\ provider = TRUE
    /\ net = [s \in Sockets |-> IF s = 1 THEN "up" ELSE "unopened"]
    /\ issued = Nothing /\ failures = 0

Stopped == stop # "no"
Detached == co.active /\ co.need
Recovering == rec \in InRecovery
Fail == failures < MaxFailures /\ failures' = failures + 1

\* Task t moves to "place"; if that is begin, with this client_lost.
Goes(t, place, clientLost) ==
    /\ at' = [at EXCEPT ![t] = place]
    /\ lost' = [lost EXCEPT ![t] = clientLost]

\* Where a task goes when its begin has returned: the senders go on, the others
\* await the recovery task.
AfterBegin(t) == IF t \in Senders THEN "work" ELSE "await"

Unlocked(holders) == IF lock \in holders THEN "none" ELSE lock

-----------------------------------------------------------------------------
(* The tasks of the session *)

\* A frame came in; the loop asks the socket that is then self.socket.
Receives ==
    /\ at["receiver"] = "work" /\ net[reading] \in {"up", "stuck"} /\ ~Stopped
    /\ reading # socket /\ reading' = socket
    /\ UNCHANGED <<coVars, at, lost, callVars, clientVars, failures>>

\* receive_text raised.  Connected or recovering, the receiver calls begin;
\* otherwise the failure ends the task.
ReceiveFails ==
    /\ at["receiver"] = "work" /\ net[reading] = "down"
    /\ IF Stopped \/ (~connected /\ ~co.active)
       THEN Goes("receiver", "over", FALSE)
       ELSE Goes("receiver", "begin", TRUE)
    /\ UNCHANGED <<coVars, reading, callVars, clientVars, failures>>

\* The provider fails, under receive_event or under send_audio.
ProviderFails(t) ==
    /\ at[t] = "work" /\ ~Stopped
    /\ \/ t = "lifecycle"
       \/ t = "receiver" /\ connected /\ ~co.active /\ net[reading] = "up"
    /\ IF provider THEN Fail ELSE UNCHANGED failures
    /\ Goes(t, "begin", FALSE)
    /\ UNCHANGED <<coVars, reading, callVars, clientVars>>

\* What came in makes lifecycle or the receiver send, and that fails.
ForwardFails(t) ==
    /\ at[t] = "work" /\ ~Stopped /\ ~co.active /\ net[socket] # "up"
    /\ t = "lifecycle" \/ (t = "receiver" /\ connected /\ net[reading] = "up")
    /\ Goes(t, "begin", TRUE)
    /\ UNCHANGED <<coVars, reading, callVars, clientVars, failures>>

\* The loop of lifecycle awaits a recovery that is active.
LifecycleAwaits ==
    /\ at["lifecycle"] = "work" /\ co.active /\ rec # "none"
    /\ Goes("lifecycle", "await", FALSE)
    /\ UNCHANGED <<coVars, reading, callVars, clientVars, failures>>

\* heartbeat and ending_clock look at need_socket, then wait for the send lock.
SendStarts(t) ==
    /\ at[t] = "work" /\ ~Stopped /\ ~Detached
    /\ Goes(t, "sending", FALSE)
    /\ UNCHANGED <<coVars, reading, callVars, clientVars, failures>>

Sent(t) ==
    /\ at[t] = "sending" /\ ~Detached /\ net[socket] = "up"
    /\ Goes(t, "work", FALSE)
    /\ UNCHANGED <<coVars, reading, callVars, clientVars, failures>>

\* ConnectionError from send: with self.connected it begins a recovery, without
\* it the exception ends the task and with it the call.
SendFails(t) ==
    /\ at[t] = "sending" /\ (Detached \/ net[socket] # "up")
    /\ IF connected THEN Goes(t, "begin", TRUE) ELSE Goes(t, "over", FALSE)
    /\ UNCHANGED <<coVars, reading, callVars, clientVars, failures>>

\* await self.reconnector.task; a task that was cancelled, or never created
\* because the session had stopped, raises.
AwaitReturns(t) ==
    /\ at[t] = "await" /\ ~Recovering /\ rec # "failing"
    /\ Goes(t, IF Stopped THEN "over" ELSE "work", FALSE)
    /\ reading' = IF t = "receiver" /\ ~Stopped THEN socket ELSE reading
    /\ UNCHANGED <<coVars, callVars, clientVars, failures>>

-----------------------------------------------------------------------------
(* begin *)

\* Mutant: a recovery can be begun in a session that has stopped.
NothingToBegin_Stopped == co.active

\* The session has stopped, or a recovery is active.
NothingToBegin == Stopped \/ co.active

\* Mutant: the ready event keeps the value of the lost attachment.
LostAgain_Ready == [co EXCEPT !.need = TRUE, !.socket = Nothing]

LostAgain == [co EXCEPT !.need = TRUE, !.socket = Nothing, !.ready = FALSE]

Activated(clientLost) == [Idle EXCEPT !.active = TRUE, !.need = clientLost]

\* begin has the lock and returns at once.
BeginJoins(t) ==
    /\ at[t] = "begin" /\ lock = "none" /\ NothingToBegin
    /\ co' = IF lost[t] /\ co.active /\ ~Stopped THEN LostAgain ELSE co
    /\ Goes(t, AfterBegin(t), FALSE)
    /\ UNCHANGED <<lock, rec, reading, callVars, clientVars, failures>>

\* begin opens the window and enters disconnected, which clears connected first.
BeginActivates(t) ==
    /\ at[t] = "begin" /\ lock = "none" /\ ~NothingToBegin
    /\ co' = Activated(lost[t]) /\ lock' = t
    /\ Goes(t, "disconnect", lost[t])
    /\ connected' = FALSE
    /\ UNCHANGED <<rec, reading, socket, stop, row, provider, clientVars, failures>>

\* The row moves, the state frame is sent, the recovery task is created.
Disconnected(t) ==
    /\ at[t] = "disconnect" /\ row = "connected"
    /\ row' = "reconnecting" /\ rec' = "rebuild" /\ lock' = "none"
    /\ co' = IF ~lost[t] /\ net[socket] # "up" THEN [co EXCEPT !.need = TRUE] ELSE co
    /\ Goes(t, AfterBegin(t), FALSE)
    /\ UNCHANGED <<reading, socket, connected, stop, provider, clientVars, failures>>

\* call_not_reconnectable: begin closes the window and the task ends.
DisconnectRefused(t) ==
    /\ at[t] = "disconnect" /\ row # "connected"
    /\ co' = [co EXCEPT !.active = FALSE] /\ lock' = "none"
    /\ Goes(t, "over", FALSE)
    /\ UNCHANGED <<rec, reading, callVars, clientVars, failures>>

-----------------------------------------------------------------------------
(* _recover *)

\* rebuild closes the old provider session, then opens another.
RebuildCloses ==
    /\ rec = "rebuild" /\ provider /\ provider' = FALSE
    /\ UNCHANGED <<coVars, taskVars, socket, connected, stop, row, clientVars, failures>>

Rebuilt ==
    /\ rec = "rebuild" /\ ~provider /\ provider' = TRUE
    /\ rec' = "check"
    /\ UNCHANGED <<co, lock, taskVars, socket, connected, stop, row, clientVars, failures>>

\* Mutant: restored begins although a socket is still needed.
ClientBack_Always == TRUE

ClientBack == ~co.need

\* The loop, under the lock: stopped, a socket is needed, or restored begins.
Checks ==
    /\ rec = "check" /\ lock = "none"
    /\ rec' = IF Stopped THEN "done" ELSE IF ClientBack THEN "restore" ELSE "wait"
    /\ lock' = IF rec' = "restore" THEN "recover" ELSE "none"
    /\ socket' = IF rec' = "restore" /\ co.socket # Nothing THEN co.socket ELSE socket
    /\ UNCHANGED <<co, taskVars, connected, stop, row, provider, clientVars, failures>>

Wakes ==
    /\ rec = "wait" /\ co.ready /\ rec' = "check"
    /\ UNCHANGED <<co, lock, taskVars, callVars, clientVars, failures>>

RestoreCommits ==
    /\ rec = "restore" /\ row = "reconnecting"
    /\ row' = "connected" /\ rec' = "resume"
    /\ UNCHANGED <<co, lock, taskVars, socket, connected, stop, provider, clientVars, failures>>

RestoreResumes ==
    /\ rec = "resume" /\ rec' = "announce" /\ connected' = TRUE
    /\ UNCHANGED <<co, lock, taskVars, socket, stop, row, provider, clientVars, failures>>

Restored ==
    /\ rec = "announce" /\ net[socket] = "up" /\ rec' = "done"
    /\ co' = [co EXCEPT !.active = FALSE] /\ lock' = "none"
    /\ UNCHANGED <<taskVars, callVars, clientVars, failures>>

\* Mutant: the deadline bounds rebuild and restored, not the wait for a socket.
TimedOut_Waiting == co.expired /\ rec # "wait"

TimedOut == co.expired

\* What makes _recover fail at the step where it is.
RecoveryTrouble ==
    \/ TimedOut /\ UNCHANGED failures
    \/ rec = "restore" /\ row # "reconnecting" /\ UNCHANGED failures
    \/ rec = "announce" /\ net[socket] # "up" /\ UNCHANGED failures
    \/ rec \in {"rebuild", "restore", "announce"} /\ Fail

\* cancel.
Cancelled == [co EXCEPT !.active = FALSE, !.jti = Nothing, !.ready = TRUE]

\* _recover fails: active, then failed(), which reaches stop_local's flags
\* without an await in between.
RecoveryFails ==
    /\ Recovering /\ RecoveryTrouble
    /\ co' = IF Stopped THEN [co EXCEPT !.active = FALSE] ELSE Cancelled
    /\ lock' = Unlocked({"recover"}) /\ rec' = "failing"
    /\ stop' = IF Stopped THEN stop ELSE "running"
    /\ connected' = FALSE
    /\ UNCHANGED <<taskVars, socket, row, provider, clientVars>>

\* failed() returns when stop_local has.
FailedReturns ==
    /\ rec = "failing" /\ stop \in {"done", "gone"} /\ rec' = "done"
    /\ UNCHANGED <<co, lock, taskVars, callVars, clientVars, failures>>

-----------------------------------------------------------------------------
(* Tickets and sockets of the client *)

\* issue: a new ticket replaces the one before.
Issue ==
    /\ lock = "none" /\ ~Stopped /\ Detached /\ ~co.expired
    /\ issued < MaxTickets /\ issued' = issued + 1
    /\ co' = [co EXCEPT !.jti = issued']
    /\ UNCHANGED <<lock, rec, taskVars, callVars, net, failures>>

Attached(s) ==
    [co EXCEPT !.jti = Nothing, !.socket = s, !.need = FALSE, !.ready = TRUE]

\* attach, with a ticket that may have been presented before.
Attach(s) ==
    /\ lock = "none" /\ ~Stopped /\ Detached /\ ~co.expired
    /\ co.jti # Nothing
    /\ net[s] = "unopened" /\ net' = [net EXCEPT ![s] = "up"]
    /\ co' = Attached(s)
    /\ UNCHANGED <<lock, rec, taskVars, callVars, issued, failures>>

Breaks(s, how) ==
    /\ net[s] \in {"up", "stuck"} /\ net[s] # how
    /\ net' = [net EXCEPT ![s] = how]
    /\ UNCHANGED <<coVars, taskVars, callVars, issued, failures>>

DeadlinePasses ==
    /\ co.active /\ ~co.expired /\ co' = [co EXCEPT !.expired = TRUE]
    /\ UNCHANGED <<lock, rec, taskVars, callVars, clientVars, failures>>

-----------------------------------------------------------------------------
(* The end of the session *)

\* A finalizer of another process ends the call.
EndedElsewhere ==
    /\ row # "over" /\ Fail /\ row' = "over"
    /\ UNCHANGED <<coVars, taskVars, socket, connected, stop, provider, clientVars>>

CancelledTask == IF Recovering THEN "done" ELSE rec

MustStop == row = "over" \/ \E t \in Tasks : at[t] = "over"

\* stop_local: a task has ended, heartbeat finds the row over, or somebody hangs
\* up.  cancel() also cancels the recovery task there is at that moment.
StopLocal ==
    /\ stop = "no"
    /\ (MustStop /\ UNCHANGED failures) \/ Fail
    /\ stop' = "running" /\ connected' = FALSE /\ co' = Cancelled
    /\ rec' = CancelledTask /\ lock' = Unlocked({"recover"})
    /\ UNCHANGED <<taskVars, socket, row, provider, clientVars>>

\* Its end: the socket and the provider session are closed.
StopEnds ==
    /\ stop = "running" /\ stop' = "done" /\ provider' = FALSE
    /\ net' = [net EXCEPT ![socket] = "down"]
    /\ UNCHANGED <<coVars, taskVars, socket, connected, row, issued, failures>>

\* run cancels its tasks, one of which may be in begin, and ends the call.
RunReturns ==
    /\ stop = "done" /\ stop' = "gone" /\ row' = "over"
    /\ at' = [t \in Tasks |-> "over"]
    /\ lock' = Unlocked(Tasks)
    /\ co' = IF lock \in Tasks THEN [co EXCEPT !.active = FALSE] ELSE co
    /\ UNCHANGED <<rec, lost, reading, socket, connected, provider, clientVars, failures>>

-----------------------------------------------------------------------------
Begins(t) == BeginJoins(t) \/ BeginActivates(t) \/ Disconnected(t) \/ DisconnectRefused(t)
Sends(t) == SendStarts(t) \/ Sent(t) \/ SendFails(t)
Breakdown(t) == ProviderFails(t) \/ ForwardFails(t)
Recovers ==
    \/ RebuildCloses \/ Rebuilt \/ Checks \/ Wakes \/ RestoreCommits
    \/ RestoreResumes \/ Restored \/ FailedReturns

Next ==
    \/ Receives \/ ReceiveFails \/ LifecycleAwaits
    \/ \E t \in Senders : Sends(t)
    \/ \E t \in Tasks : Breakdown(t) \/ AwaitReturns(t) \/ Begins(t)
    \/ Recovers \/ RecoveryFails \/ DeadlinePasses
    \/ Issue \/ \E s \in Sockets : Attach(s)
    \/ \E s \in Sockets, how \in {"stuck", "down"} : Breaks(s, how)
    \/ EndedElsewhere \/ StopLocal \/ StopEnds \/ RunReturns

Spec == Init /\ [][Next]_vars

\* The event loop runs every task that can go on; a deadline passes; a task that
\* has ended makes run stop the session.  Clients, networks and faults owe nothing.
FairSpec ==
    /\ Spec
    /\ \A t \in Tasks : WF_vars(Begins(t)) /\ WF_vars(AwaitReturns(t))
    /\ WF_vars(Recovers) /\ WF_vars(DeadlinePasses)
    /\ WF_vars(co.expired /\ RecoveryFails)
    /\ WF_vars(MustStop /\ StopLocal) /\ WF_vars(StopEnds) /\ WF_vars(RunReturns)

-----------------------------------------------------------------------------
(* Properties *)

\* A recovery begins only when no recovery task is under way: the coordinator
\* never has two tasks that rebuild the provider and take the socket, although
\* begin is called by four tasks and active is cleared outside the lock.
OneRecovery == [][co'.active /\ ~co.active => ~Recovering /\ rec # "failing"]_vars

\* The recovery task sleeps exactly while a socket is needed.  Otherwise either the
\* wakeup by attach is lost and a returned client waits for the deadline, or the
\* loop of _recover spins without ever leaving the event loop.
SleepsWhileDetached == rec = "wait" => (co.ready <=> ~co.need \/ Stopped)

\* Once the client is known to be lost, the call is connected again only over a
\* socket attached since: begin, attach and restored keep need_socket, the pending
\* socket and self.socket consistent.
RestoredOverAttachedSocket ==
    connected /\ co.active => ~co.need /\ co.socket \in {Nothing, socket}

\* A stopped session is not connected by a recovery that was on its way.
StoppedStaysDisconnected == Stopped => ~connected

\* A session that is neither connected nor stopped does not stay so.
ConnectedOrStopped == ~connected ~> (connected \/ Stopped)

\* "断线立即进入 reconnecting；心跳超时只兜底僵尸" (docs/design/realtime_voice/P1/
\* steps-verified.md:2287): while the window of a recovery is open, no task ends
\* the call because a write to the client failed.  The code: heartbeat and
\* ending_clock re-raise ConnectionError whenever connected is already false.
LossOnlyRecovers ==
    [][\A t \in Senders : at[t] = "sending" /\ at'[t] = "over" => ~co.active]_vars

\* "新 Session + 补小包 + 衔接语，回到“在听”" (steps-verified.md:2289): when the call is
\* connected again, the receiver listens to the socket the gateway writes to.  The
\* code: a recovery that a sender began leaves the receiver on the old socket.
ListensToItsSocket ==
    connected /\ ~co.active /\ at["receiver"] = "work" => net[reading] = "up" \/ reading = socket

\* "提供 final flush 与资源释放顺序，覆盖进程取消和迟到事件" (steps-verified.md:1913): a session
\* that is gone leaves no provider session open.  The code: a begin that is still
\* in disconnected when stop_local cancels creates the recovery task afterwards.
ProviderReleased == (stop = "gone") ~> (stop = "gone" /\ ~provider)
=============================================================================
