------------------------ MODULE VoiceReconnect_proofs ------------------------
(***************************************************************************)
(* Proofs about VoiceReconnect, for any number of senders, sockets, tickets *)
(* and faults: one recovery at a time, no lost wakeup, and no return over a *)
(* socket that is known to be lost.                                         *)
(***************************************************************************)
EXTENDS VoiceReconnect, TLAPS

\* A session without an open window has no recovery under way, but for one that a
\* begin creates after stop_local's cancel and that ends at its next look.
ClosedMeansIdle ==
    /\ ~Stopped /\ ~co.active => rec \in {"none", "done"}
    /\ Stopped => rec \in {"none", "done", "failing", "rebuild", "check"}
    /\ rec = "failing" => Stopped

\* While begin is in disconnected, the window is open and nothing has come of it yet.
BeginUnderWay ==
    \A t \in Tasks : at[t] = "disconnect" /\ ~Stopped =>
        co.active /\ ~co.ready /\ rec \in {"none", "done"}

\* The event of the coordinator follows need_socket.
ReadyFollowsNeed ==
    /\ ~Stopped /\ co.need => ~co.ready
    /\ rec = "wait" => (co.ready <=> ~co.need)

\* What restored relies on, from its start to its end.
SocketSettled ==
    rec \in {"restore", "resume", "announce"} =>
        ~co.need /\ co.socket \in {Nothing, socket}

\* Connected with an open window is a session whose restored is at its last step.
ConnectedWhen ==
    /\ co.active /\ connected => rec = "announce"
    /\ Stopped => ~connected

IInv == /\ TypeOK /\ ClosedMeansIdle /\ BeginUnderWay
        /\ ReadyFollowsNeed /\ SocketSettled /\ ConnectedWhen

\* The tasks have different names.
LEMMA TaskNames == "none" \notin Tasks /\ "recover" \notin Tasks
    BY ReconnectAssumption DEF Tasks

\* Initially the call is connected and nothing is under way.
LEMMA InductiveInit == Init => IInv
    BY TaskNames, ReconnectAssumption DEF Init, IInv, TypeOK, LockHeld, Idle, Coordinator, Sockets, Tickets, Nothing,
       InRecovery, ClosedMeansIdle, BeginUnderWay, ReadyFollowsNeed, SocketSettled, ConnectedWhen,
       Stopped

\* A task that moves on outside disconnected leaves the lock where it is.
LEMMA MovesOutside ==
    ASSUME TypeOK, NEW t \in Tasks, NEW place \in {"work", "sending", "begin", "await", "over"},
           NEW clientLost \in BOOLEAN, at[t] # "disconnect", Goes(t, place, clientLost)
    PROVE  /\ at' \in [Tasks -> {"work", "sending", "begin", "disconnect", "await", "over"}]
           /\ lost' \in [Tasks -> BOOLEAN]
           /\ \A u \in Tasks : at'[u] = "disconnect" <=> at[u] = "disconnect"
    BY DEF TypeOK, Goes

\* The types in two parts: the coordinator with the places of the tasks, and the rest.
HoldersTyped ==
    /\ co \in Coordinator
    /\ lock \in {"none", "recover"} \cup Tasks /\ LockHeld
    /\ rec \in InRecovery \cup {"none", "failing", "done"}
    /\ at \in [Tasks -> {"work", "sending", "begin", "disconnect", "await", "over"}]

RestTyped ==
    /\ lost \in [Tasks -> BOOLEAN]
    /\ reading \in Sockets /\ socket \in Sockets
    /\ connected \in BOOLEAN
    /\ stop \in {"no", "running", "done", "gone"}
    /\ row \in {"connected", "reconnecting", "over"}
    /\ provider \in BOOLEAN
    /\ net \in [Sockets -> {"unopened", "up", "stuck", "down"}]
    /\ issued \in {Nothing} \cup Tickets
    /\ failures \in 0..MaxFailures

LEMMA TypeParts == /\ TypeOK <=> HoldersTyped /\ RestTyped
                   /\ TypeOK' <=> HoldersTyped' /\ RestTyped'
    BY DEF TypeOK, HoldersTyped, RestTyped

\* A step that leaves the coordinator and the places alone keeps the first part.
LEMMA SameHolders ==
    ASSUME HoldersTyped, UNCHANGED <<co, lock, rec, at>>
    PROVE  HoldersTyped'
    BY DEF HoldersTyped, LockHeld

\* A step that leaves the call, the client and the bound alone keeps the second part.
LEMMA SameRest ==
    ASSUME RestTyped, lost' \in [Tasks -> BOOLEAN], reading' \in Sockets,
           UNCHANGED <<callVars, clientVars, failures>>
    PROVE  RestTyped'
    BY DEF RestTyped, callVars, clientVars

\* Every step of every task, the client and the outside keeps the invariant.
LEMMA InductiveNext == IInv /\ [Next]_vars => IInv'
<1> SUFFICES ASSUME IInv, [Next]_vars PROVE IInv'
    OBVIOUS
<1> USE TaskNames, ReconnectAssumption DEF TypeOK, ClosedMeansIdle, BeginUnderWay, ReadyFollowsNeed, SocketSettled,
    ConnectedWhen, coVars, taskVars, callVars, clientVars, Goes, Stopped, Detached, Fail,
    Unlocked, AfterBegin, Coordinator, Idle, InRecovery, Recovering, LockHeld, Nothing,
    NothingToBegin, LostAgain, Activated, ClientBack, TimedOut, RecoveryTrouble, Cancelled,
    CancelledTask, Attached, MustStop
<1>0. TypeOK /\ HoldersTyped /\ RestTyped
    BY TypeParts DEF IInv
<1>1. ASSUME Receives PROVE IInv'
  <2>1. TypeOK'
      BY <1>0, <1>1 DEF Receives
  <2>2. ClosedMeansIdle'
      BY <1>1 DEF IInv, Receives
  <2>3. BeginUnderWay'
      BY <1>1 DEF IInv, Receives
  <2>4. ReadyFollowsNeed'
      BY <1>1 DEF IInv, Receives
  <2>5. SocketSettled'
      BY <1>1 DEF IInv, Receives
  <2>6. ConnectedWhen'
      BY <1>1 DEF IInv, Receives
  <2> QED
      BY <2>1, <2>2, <2>3, <2>4, <2>5, <2>6 DEF IInv
<1>2. ASSUME ReceiveFails PROVE IInv'
  <2>1. TypeOK'
    <3>1. TypeOK /\ at["receiver"] # "disconnect" /\ "receiver" \in Tasks
        BY <1>2 DEF IInv, ReceiveFails, Tasks
    <3>2. /\ at' \in [Tasks -> {"work", "sending", "begin", "disconnect", "await", "over"}]
          /\ lost' \in [Tasks -> BOOLEAN]
          /\ \A u \in Tasks : at'[u] = "disconnect" <=> at[u] = "disconnect"
      <4>1. Goes("receiver", "over", FALSE) \/ Goes("receiver", "begin", TRUE)
          BY <1>2 DEF ReceiveFails
      <4> HIDE DEF TypeOK, Goes
      <4> QED
          BY <3>1, <4>1, MovesOutside
    <3>3. UNCHANGED <<coVars, reading, callVars, clientVars, failures>>
        BY <1>2 DEF ReceiveFails
    <3> QED
        BY <3>1, <3>2, <3>3
  <2>2. ClosedMeansIdle'
      BY <1>2 DEF IInv, ReceiveFails
  <2>3. BeginUnderWay'
      BY <1>2 DEF IInv, ReceiveFails
  <2>4. ReadyFollowsNeed'
      BY <1>2 DEF IInv, ReceiveFails
  <2>5. SocketSettled'
      BY <1>2 DEF IInv, ReceiveFails
  <2>6. ConnectedWhen'
      BY <1>2 DEF IInv, ReceiveFails
  <2> QED
      BY <2>1, <2>2, <2>3, <2>4, <2>5, <2>6 DEF IInv
<1>3. ASSUME LifecycleAwaits PROVE IInv'
  <2>1. TypeOK'
    <3>1. TypeOK /\ at["lifecycle"] # "disconnect" /\ "lifecycle" \in Tasks
        BY <1>3 DEF IInv, LifecycleAwaits, Tasks
    <3>2. /\ at' \in [Tasks -> {"work", "sending", "begin", "disconnect", "await", "over"}]
          /\ lost' \in [Tasks -> BOOLEAN]
          /\ \A u \in Tasks : at'[u] = "disconnect" <=> at[u] = "disconnect"
      <4>1. Goes("lifecycle", "await", FALSE)
          BY <1>3 DEF LifecycleAwaits
      <4> HIDE DEF TypeOK, Goes
      <4> QED
          BY <3>1, <4>1, MovesOutside
    <3>3. UNCHANGED <<coVars, reading, callVars, clientVars, failures>>
        BY <1>3 DEF LifecycleAwaits
    <3> QED
        BY <3>1, <3>2, <3>3
  <2>2. ClosedMeansIdle'
      BY <1>3 DEF IInv, LifecycleAwaits
  <2>3. BeginUnderWay'
      BY <1>3 DEF IInv, LifecycleAwaits
  <2>4. ReadyFollowsNeed'
      BY <1>3 DEF IInv, LifecycleAwaits
  <2>5. SocketSettled'
      BY <1>3 DEF IInv, LifecycleAwaits
  <2>6. ConnectedWhen'
      BY <1>3 DEF IInv, LifecycleAwaits
  <2> QED
      BY <2>1, <2>2, <2>3, <2>4, <2>5, <2>6 DEF IInv
<1>4. ASSUME NEW t \in Senders, SendStarts(t) PROVE IInv'
  <2>1. TypeOK'
    <3>1. TypeOK /\ at[t] # "disconnect" /\ t \in Tasks
        BY <1>0, <1>4 DEF SendStarts, Tasks
    <3>2. /\ at' \in [Tasks -> {"work", "sending", "begin", "disconnect", "await", "over"}]
          /\ lost' \in [Tasks -> BOOLEAN]
          /\ \A u \in Tasks : at'[u] = "disconnect" <=> at[u] = "disconnect"
      <4>1. Goes(t, "sending", FALSE)
          BY <1>4 DEF SendStarts
      <4> HIDE DEF TypeOK, Goes
      <4> QED
          BY <3>1, <4>1, MovesOutside
    <3>3. UNCHANGED <<coVars, reading, callVars, clientVars, failures>>
        BY <1>4 DEF SendStarts
    <3> QED
        BY <3>1, <3>2, <3>3
  <2>2. ClosedMeansIdle'
      BY <1>4 DEF IInv, SendStarts
  <2>3. BeginUnderWay'
      BY <1>4 DEF IInv, SendStarts
  <2>4. ReadyFollowsNeed'
      BY <1>4 DEF IInv, SendStarts
  <2>5. SocketSettled'
      BY <1>4 DEF IInv, SendStarts
  <2>6. ConnectedWhen'
      BY <1>4 DEF IInv, SendStarts
  <2> QED
      BY <2>1, <2>2, <2>3, <2>4, <2>5, <2>6 DEF IInv
<1>5. ASSUME NEW t \in Senders, Sent(t) PROVE IInv'
  <2>1. TypeOK'
    <3>1. TypeOK /\ at[t] # "disconnect" /\ t \in Tasks
        BY <1>5 DEF IInv, Sent, Tasks
    <3>2. /\ at' \in [Tasks -> {"work", "sending", "begin", "disconnect", "await", "over"}]
          /\ lost' \in [Tasks -> BOOLEAN]
          /\ \A u \in Tasks : at'[u] = "disconnect" <=> at[u] = "disconnect"
      <4>1. Goes(t, "work", FALSE)
          BY <1>5 DEF Sent
      <4> HIDE DEF TypeOK, Goes
      <4> QED
          BY <3>1, <4>1, MovesOutside
    <3>3. UNCHANGED <<coVars, reading, callVars, clientVars, failures>>
        BY <1>5 DEF Sent
    <3> QED
        BY <3>1, <3>2, <3>3
  <2>2. ClosedMeansIdle'
      BY <1>5 DEF IInv, Sent
  <2>3. BeginUnderWay'
      BY <1>5 DEF IInv, Sent
  <2>4. ReadyFollowsNeed'
      BY <1>5 DEF IInv, Sent
  <2>5. SocketSettled'
      BY <1>5 DEF IInv, Sent
  <2>6. ConnectedWhen'
      BY <1>5 DEF IInv, Sent
  <2> QED
      BY <2>1, <2>2, <2>3, <2>4, <2>5, <2>6 DEF IInv
<1>6. ASSUME NEW t \in Senders, SendFails(t) PROVE IInv'
  <2>1. TypeOK'
    <3>1. TypeOK /\ at[t] # "disconnect" /\ t \in Tasks
        BY <1>6 DEF IInv, SendFails, Tasks
    <3>2. /\ at' \in [Tasks -> {"work", "sending", "begin", "disconnect", "await", "over"}]
          /\ lost' \in [Tasks -> BOOLEAN]
          /\ \A u \in Tasks : at'[u] = "disconnect" <=> at[u] = "disconnect"
      <4>1. Goes(t, "begin", TRUE) \/ Goes(t, "over", FALSE)
          BY <1>6 DEF SendFails
      <4> HIDE DEF TypeOK, Goes
      <4> QED
          BY <3>1, <4>1, MovesOutside
    <3>3. UNCHANGED <<coVars, reading, callVars, clientVars, failures>>
        BY <1>6 DEF SendFails
    <3> QED
        BY <3>1, <3>2, <3>3
  <2>2. ClosedMeansIdle'
      BY <1>6 DEF IInv, SendFails
  <2>3. BeginUnderWay'
      BY <1>6 DEF IInv, SendFails
  <2>4. ReadyFollowsNeed'
      BY <1>6 DEF IInv, SendFails
  <2>5. SocketSettled'
      BY <1>6 DEF IInv, SendFails
  <2>6. ConnectedWhen'
      BY <1>6 DEF IInv, SendFails
  <2> QED
      BY <2>1, <2>2, <2>3, <2>4, <2>5, <2>6 DEF IInv
<1>7. ASSUME NEW t \in Tasks, ProviderFails(t) PROVE IInv'
  <2>1. TypeOK'
      BY <1>0, <1>7 DEF ProviderFails
  <2>2. ClosedMeansIdle'
      BY <1>7 DEF IInv, ProviderFails
  <2>3. BeginUnderWay'
      BY <1>7 DEF IInv, ProviderFails
  <2>4. ReadyFollowsNeed'
      BY <1>7 DEF IInv, ProviderFails
  <2>5. SocketSettled'
      BY <1>7 DEF IInv, ProviderFails
  <2>6. ConnectedWhen'
      BY <1>7 DEF IInv, ProviderFails
  <2> QED
      BY <2>1, <2>2, <2>3, <2>4, <2>5, <2>6 DEF IInv
<1>8. ASSUME NEW t \in Tasks, ForwardFails(t) PROVE IInv'
  <2>1. TypeOK'
      BY <1>0, <1>8 DEF ForwardFails
  <2>2. ClosedMeansIdle'
      BY <1>8 DEF IInv, ForwardFails
  <2>3. BeginUnderWay'
      BY <1>8 DEF IInv, ForwardFails
  <2>4. ReadyFollowsNeed'
      BY <1>8 DEF IInv, ForwardFails
  <2>5. SocketSettled'
      BY <1>8 DEF IInv, ForwardFails
  <2>6. ConnectedWhen'
      BY <1>8 DEF IInv, ForwardFails
  <2> QED
      BY <2>1, <2>2, <2>3, <2>4, <2>5, <2>6 DEF IInv
<1>9. ASSUME NEW t \in Tasks, AwaitReturns(t) PROVE IInv'
  <2>1. TypeOK'
      BY <1>0, <1>9 DEF AwaitReturns
  <2>2. ClosedMeansIdle'
      BY <1>9 DEF IInv, AwaitReturns
  <2>3. BeginUnderWay'
      BY <1>9 DEF IInv, AwaitReturns
  <2>4. ReadyFollowsNeed'
      BY <1>9 DEF IInv, AwaitReturns
  <2>5. SocketSettled'
      BY <1>9 DEF IInv, AwaitReturns
  <2>6. ConnectedWhen'
      BY <1>9 DEF IInv, AwaitReturns
  <2> QED
      BY <2>1, <2>2, <2>3, <2>4, <2>5, <2>6 DEF IInv
<1>10. ASSUME NEW t \in Tasks, BeginJoins(t) PROVE IInv'
  <2>1. TypeOK'
    <3>1. at[t] # "disconnect" /\ Goes(t, AfterBegin(t), FALSE)
          /\ UNCHANGED <<lock, rec, reading, callVars, clientVars, failures>>
        BY <1>10 DEF BeginJoins
    <3>2. co' \in Coordinator
        BY <1>0, <1>10 DEF BeginJoins
    <3>3. /\ at' \in [Tasks -> {"work", "sending", "begin", "disconnect", "await", "over"}]
          /\ lost' \in [Tasks -> BOOLEAN]
          /\ \A u \in Tasks : at'[u] = "disconnect" <=> at[u] = "disconnect"
      <4>1. AfterBegin(t) \in {"work", "await"}
          OBVIOUS
      <4> HIDE DEF TypeOK, Goes, AfterBegin
      <4> QED
          BY <1>0, <1>10, <3>1, <4>1, MovesOutside
    <3> HIDE DEF TypeOK, Coordinator, InRecovery, Goes
    <3>4. HoldersTyped'
        BY <1>0, <3>1, <3>2, <3>3 DEF HoldersTyped
    <3>5. RestTyped'
        BY <1>0, <3>1, <3>3 DEF RestTyped
    <3> QED
        BY <3>4, <3>5, TypeParts
  <2>2. ClosedMeansIdle'
      BY <1>10 DEF IInv, BeginJoins
  <2>3. BeginUnderWay'
      BY <1>10 DEF IInv, BeginJoins
  <2>4. ReadyFollowsNeed'
      BY <1>10 DEF IInv, BeginJoins
  <2>5. SocketSettled'
      BY <1>10 DEF IInv, BeginJoins
  <2>6. ConnectedWhen'
      BY <1>10 DEF IInv, BeginJoins
  <2> QED
      BY <2>1, <2>2, <2>3, <2>4, <2>5, <2>6 DEF IInv
<1>11. ASSUME NEW t \in Tasks, BeginActivates(t) PROVE IInv'
  <2>1. TypeOK'
      BY <1>0, <1>11 DEF BeginActivates
  <2>2. ClosedMeansIdle'
      BY <1>11 DEF IInv, BeginActivates
  <2>3. BeginUnderWay'
      BY <1>11 DEF IInv, BeginActivates
  <2>4. ReadyFollowsNeed'
      BY <1>11 DEF IInv, BeginActivates
  <2>5. SocketSettled'
      BY <1>11 DEF IInv, BeginActivates
  <2>6. ConnectedWhen'
      BY <1>11 DEF IInv, BeginActivates
  <2> QED
      BY <2>1, <2>2, <2>3, <2>4, <2>5, <2>6 DEF IInv
<1>12. ASSUME NEW t \in Tasks, Disconnected(t) PROVE IInv'
  <2>1. TypeOK'
      BY <1>0, <1>12 DEF Disconnected
  <2>2. ClosedMeansIdle'
      BY <1>12 DEF IInv, Disconnected
  <2>3. BeginUnderWay'
      BY <1>12 DEF IInv, Disconnected
  <2>4. ReadyFollowsNeed'
      BY <1>12 DEF IInv, Disconnected
  <2>5. SocketSettled'
      BY <1>12 DEF IInv, Disconnected
  <2>6. ConnectedWhen'
      BY <1>12 DEF IInv, Disconnected
  <2> QED
      BY <2>1, <2>2, <2>3, <2>4, <2>5, <2>6 DEF IInv
<1>13. ASSUME NEW t \in Tasks, DisconnectRefused(t) PROVE IInv'
  <2>1. TypeOK'
    <3>1. at' = [at EXCEPT ![t] = "over"] /\ lost' = [lost EXCEPT ![t] = FALSE]
          /\ lock = t /\ lock' = "none" /\ UNCHANGED <<rec, reading, callVars, clientVars, failures>>
        BY <1>0, <1>13 DEF DisconnectRefused
    <3>2. co' \in Coordinator
        BY <1>0, <1>13 DEF DisconnectRefused
    <3>3. /\ at' \in [Tasks -> {"work", "sending", "begin", "disconnect", "await", "over"}]
          /\ lost' \in [Tasks -> BOOLEAN]
        BY <1>0, <3>1
    <3>4. LockHeld'
        BY <1>0, <1>13, <3>1
    <3> HIDE DEF TypeOK, Coordinator, InRecovery, LockHeld
    <3>5. HoldersTyped'
        BY <1>0, <3>1, <3>2, <3>3, <3>4 DEF HoldersTyped
    <3>6. RestTyped'
        BY <1>0, <3>1, <3>3 DEF RestTyped
    <3> QED
        BY <3>5, <3>6, TypeParts
  <2>2. ClosedMeansIdle'
      BY <1>13 DEF IInv, DisconnectRefused
  <2>3. BeginUnderWay'
      BY <1>13 DEF IInv, DisconnectRefused
  <2>4. ReadyFollowsNeed'
      BY <1>13 DEF IInv, DisconnectRefused
  <2>5. SocketSettled'
      BY <1>13 DEF IInv, DisconnectRefused
  <2>6. ConnectedWhen'
      BY <1>13 DEF IInv, DisconnectRefused
  <2> QED
      BY <2>1, <2>2, <2>3, <2>4, <2>5, <2>6 DEF IInv
<1>14. ASSUME RebuildCloses PROVE IInv'
  <2>1. TypeOK'
    <3>1. provider' \in BOOLEAN /\ UNCHANGED <<co, lock, rec, at>>
          /\ UNCHANGED <<lost, reading, socket, connected, stop, row, clientVars, failures>>
        BY <1>14 DEF RebuildCloses
    <3> HIDE DEF TypeOK, Coordinator, LockHeld, InRecovery
    <3>2. HoldersTyped'
        BY <1>0, <3>1, SameHolders
    <3>3. RestTyped'
        BY <1>0, <3>1 DEF RestTyped
    <3> QED
        BY <3>2, <3>3, TypeParts
  <2>2. ClosedMeansIdle'
      BY <1>14 DEF IInv, RebuildCloses
  <2>3. BeginUnderWay'
      BY <1>14 DEF IInv, RebuildCloses
  <2>4. ReadyFollowsNeed'
      BY <1>14 DEF IInv, RebuildCloses
  <2>5. SocketSettled'
      BY <1>14 DEF IInv, RebuildCloses
  <2>6. ConnectedWhen'
      BY <1>14 DEF IInv, RebuildCloses
  <2> QED
      BY <2>1, <2>2, <2>3, <2>4, <2>5, <2>6 DEF IInv
<1>15. ASSUME Rebuilt PROVE IInv'
  <2>1. TypeOK'
      BY <1>0, <1>15 DEF Rebuilt
  <2>2. ClosedMeansIdle'
      BY <1>15 DEF IInv, Rebuilt
  <2>3. BeginUnderWay'
      BY <1>15 DEF IInv, Rebuilt
  <2>4. ReadyFollowsNeed'
      BY <1>15 DEF IInv, Rebuilt
  <2>5. SocketSettled'
      BY <1>15 DEF IInv, Rebuilt
  <2>6. ConnectedWhen'
      BY <1>15 DEF IInv, Rebuilt
  <2> QED
      BY <2>1, <2>2, <2>3, <2>4, <2>5, <2>6 DEF IInv
<1>16. ASSUME Checks PROVE IInv'
  <2>1. TypeOK'
      BY <1>0, <1>16 DEF Checks
  <2>2. ClosedMeansIdle'
      BY <1>16 DEF IInv, Checks
  <2>3. BeginUnderWay'
      BY <1>16 DEF IInv, Checks
  <2>4. ReadyFollowsNeed'
      BY <1>16 DEF IInv, Checks
  <2>5. SocketSettled'
      BY <1>16 DEF IInv, Checks
  <2>6. ConnectedWhen'
      BY <1>16 DEF IInv, Checks
  <2> QED
      BY <2>1, <2>2, <2>3, <2>4, <2>5, <2>6 DEF IInv
<1>17. ASSUME Wakes PROVE IInv'
  <2>1. TypeOK'
      BY <1>0, <1>17 DEF Wakes
  <2>2. ClosedMeansIdle'
      BY <1>17 DEF IInv, Wakes
  <2>3. BeginUnderWay'
      BY <1>17 DEF IInv, Wakes
  <2>4. ReadyFollowsNeed'
      BY <1>17 DEF IInv, Wakes
  <2>5. SocketSettled'
      BY <1>17 DEF IInv, Wakes
  <2>6. ConnectedWhen'
      BY <1>17 DEF IInv, Wakes
  <2> QED
      BY <2>1, <2>2, <2>3, <2>4, <2>5, <2>6 DEF IInv
<1>18. ASSUME RestoreCommits PROVE IInv'
  <2>1. TypeOK'
      BY <1>0, <1>18 DEF RestoreCommits
  <2>2. ClosedMeansIdle'
      BY <1>18 DEF IInv, RestoreCommits
  <2>3. BeginUnderWay'
      BY <1>18 DEF IInv, RestoreCommits
  <2>4. ReadyFollowsNeed'
      BY <1>18 DEF IInv, RestoreCommits
  <2>5. SocketSettled'
      BY <1>18 DEF IInv, RestoreCommits
  <2>6. ConnectedWhen'
      BY <1>18 DEF IInv, RestoreCommits
  <2> QED
      BY <2>1, <2>2, <2>3, <2>4, <2>5, <2>6 DEF IInv
<1>19. ASSUME RestoreResumes PROVE IInv'
  <2>1. TypeOK'
      BY <1>0, <1>19 DEF RestoreResumes
  <2>2. ClosedMeansIdle'
      BY <1>19 DEF IInv, RestoreResumes
  <2>3. BeginUnderWay'
      BY <1>19 DEF IInv, RestoreResumes
  <2>4. ReadyFollowsNeed'
      BY <1>19 DEF IInv, RestoreResumes
  <2>5. SocketSettled'
      BY <1>19 DEF IInv, RestoreResumes
  <2>6. ConnectedWhen'
      BY <1>19 DEF IInv, RestoreResumes
  <2> QED
      BY <2>1, <2>2, <2>3, <2>4, <2>5, <2>6 DEF IInv
<1>20. ASSUME Restored PROVE IInv'
  <2>1. TypeOK'
    <3>1. co' \in Coordinator
        BY <1>0, <1>20 DEF Restored
    <3>2. /\ lock' \in {"none", "recover"} \cup Tasks /\ LockHeld'
          /\ rec' \in InRecovery \cup {"none", "failing", "done"}
          /\ UNCHANGED <<at, lost, reading, callVars, clientVars, failures>>
        BY <1>0, <1>20 DEF Restored
    <3> HIDE DEF TypeOK, Coordinator, LockHeld, InRecovery, callVars, clientVars
    <3>3. HoldersTyped'
        BY <1>0, <3>1, <3>2 DEF HoldersTyped
    <3>4. RestTyped'
        BY <1>0, <3>2 DEF RestTyped, callVars, clientVars
    <3> QED
        BY <3>3, <3>4, TypeParts
  <2>2. ClosedMeansIdle'
      BY <1>20 DEF IInv, Restored
  <2>3. BeginUnderWay'
      BY <1>20 DEF IInv, Restored
  <2>4. ReadyFollowsNeed'
      BY <1>20 DEF IInv, Restored
  <2>5. SocketSettled'
      BY <1>20 DEF IInv, Restored
  <2>6. ConnectedWhen'
      BY <1>20 DEF IInv, Restored
  <2> QED
      BY <2>1, <2>2, <2>3, <2>4, <2>5, <2>6 DEF IInv
<1>21. ASSUME FailedReturns PROVE IInv'
  <2>1. TypeOK'
      BY <1>0, <1>21 DEF FailedReturns
  <2>2. ClosedMeansIdle'
      BY <1>21 DEF IInv, FailedReturns
  <2>3. BeginUnderWay'
      BY <1>21 DEF IInv, FailedReturns
  <2>4. ReadyFollowsNeed'
      BY <1>21 DEF IInv, FailedReturns
  <2>5. SocketSettled'
      BY <1>21 DEF IInv, FailedReturns
  <2>6. ConnectedWhen'
      BY <1>21 DEF IInv, FailedReturns
  <2> QED
      BY <2>1, <2>2, <2>3, <2>4, <2>5, <2>6 DEF IInv
<1>22. ASSUME RecoveryFails PROVE IInv'
  <2>1. TypeOK'
    <3>1. co' \in Coordinator /\ failures' \in 0..MaxFailures
      <4>1. co' \in Coordinator
          BY <1>22 DEF IInv, RecoveryFails
      <4>2. failures \in 0..MaxFailures /\ (failures' = failures \/ Fail)
          BY <1>22 DEF IInv, RecoveryFails
      <4>3. failures' \in 0..MaxFailures
          BY <4>2, ReconnectAssumption DEF Fail
      <4> QED
          BY <4>1, <4>3
    <3>2. /\ lock' \in {"none", "recover"} \cup Tasks /\ rec' = "failing" /\ LockHeld'
          /\ stop' \in {"no", "running", "done", "gone"} /\ connected' = FALSE
        BY <1>22 DEF IInv, RecoveryFails
    <3>3. UNCHANGED <<taskVars, socket, row, provider, clientVars>>
        BY <1>22 DEF RecoveryFails
    <3> QED
        BY <3>1, <3>2, <3>3 DEF IInv
  <2>2. ClosedMeansIdle'
      BY <1>22 DEF IInv, RecoveryFails
  <2>3. BeginUnderWay'
      BY <1>22 DEF IInv, RecoveryFails
  <2>4. ReadyFollowsNeed'
      BY <1>22 DEF IInv, RecoveryFails
  <2>5. SocketSettled'
      BY <1>22 DEF IInv, RecoveryFails
  <2>6. ConnectedWhen'
      BY <1>22 DEF IInv, RecoveryFails
  <2> QED
      BY <2>1, <2>2, <2>3, <2>4, <2>5, <2>6 DEF IInv
<1>23. ASSUME DeadlinePasses PROVE IInv'
  <2>1. TypeOK'
    <3>1. co' \in Coordinator
        BY <1>0, <1>23 DEF DeadlinePasses
    <3>2. UNCHANGED <<lock, rec, taskVars, callVars, clientVars, failures>>
        BY <1>23 DEF DeadlinePasses
    <3> HIDE DEF TypeOK, Coordinator, InRecovery
    <3>3. HoldersTyped'
        BY <1>0, <3>1, <3>2 DEF HoldersTyped
    <3>4. RestTyped'
        BY <1>0, <3>2 DEF RestTyped
    <3> QED
        BY <3>3, <3>4, TypeParts
  <2>2. ClosedMeansIdle'
      BY <1>23 DEF IInv, DeadlinePasses
  <2>3. BeginUnderWay'
      BY <1>23 DEF IInv, DeadlinePasses
  <2>4. ReadyFollowsNeed'
      BY <1>23 DEF IInv, DeadlinePasses
  <2>5. SocketSettled'
      BY <1>23 DEF IInv, DeadlinePasses
  <2>6. ConnectedWhen'
      BY <1>23 DEF IInv, DeadlinePasses
  <2> QED
      BY <2>1, <2>2, <2>3, <2>4, <2>5, <2>6 DEF IInv
<1>24. ASSUME Issue PROVE IInv'
  <2>1. TypeOK'
    <3> DEFINE next == issued + 1
    <3>1. next \in Tickets /\ issued' = next
      <4>1. issued \in {Nothing} \cup Tickets /\ issued < MaxTickets /\ issued' = next
          BY <1>24 DEF IInv, Issue
      <4> QED
          BY <4>1, ReconnectAssumption DEF Tickets
    <3>2. co' = [co EXCEPT !.jti = next]
        BY <1>24, <3>1 DEF Issue
    <3>3. UNCHANGED <<lock, rec, taskVars, callVars, net, failures>>
        BY <1>24 DEF Issue
    <3> HIDE DEF next
    <3>4. co' \in Coordinator
        BY <3>1, <3>2 DEF IInv
    <3> QED
        BY <3>1, <3>3, <3>4 DEF IInv
  <2>2. ClosedMeansIdle'
      BY <1>24 DEF IInv, Issue
  <2>3. BeginUnderWay'
      BY <1>24 DEF IInv, Issue
  <2>4. ReadyFollowsNeed'
      BY <1>24 DEF IInv, Issue
  <2>5. SocketSettled'
      BY <1>24 DEF IInv, Issue
  <2>6. ConnectedWhen'
      BY <1>24 DEF IInv, Issue
  <2> QED
      BY <2>1, <2>2, <2>3, <2>4, <2>5, <2>6 DEF IInv
<1>25. ASSUME NEW s \in Sockets, Attach(s) PROVE IInv'
  <2>1. TypeOK'
      BY <1>0, <1>25 DEF Attach
  <2>2. ClosedMeansIdle'
      BY <1>25 DEF IInv, Attach
  <2>3. BeginUnderWay'
      BY <1>25 DEF IInv, Attach
  <2>4. ReadyFollowsNeed'
      BY <1>25 DEF IInv, Attach
  <2>5. SocketSettled'
      BY <1>25 DEF IInv, Attach
  <2>6. ConnectedWhen'
      BY <1>25 DEF IInv, Attach
  <2> QED
      BY <2>1, <2>2, <2>3, <2>4, <2>5, <2>6 DEF IInv
<1>26. ASSUME NEW s \in Sockets, NEW how \in {"stuck", "down"}, Breaks(s, how) PROVE IInv'
  <2>1. TypeOK'
      BY <1>0, <1>26 DEF Breaks
  <2>2. ClosedMeansIdle'
      BY <1>26 DEF IInv, Breaks
  <2>3. BeginUnderWay'
      BY <1>26 DEF IInv, Breaks
  <2>4. ReadyFollowsNeed'
      BY <1>26 DEF IInv, Breaks
  <2>5. SocketSettled'
      BY <1>26 DEF IInv, Breaks
  <2>6. ConnectedWhen'
      BY <1>26 DEF IInv, Breaks
  <2> QED
      BY <2>1, <2>2, <2>3, <2>4, <2>5, <2>6 DEF IInv
<1>27. ASSUME EndedElsewhere PROVE IInv'
  <2>1. TypeOK'
      BY <1>0, <1>27 DEF EndedElsewhere
  <2>2. ClosedMeansIdle'
      BY <1>27 DEF IInv, EndedElsewhere
  <2>3. BeginUnderWay'
      BY <1>27 DEF IInv, EndedElsewhere
  <2>4. ReadyFollowsNeed'
      BY <1>27 DEF IInv, EndedElsewhere
  <2>5. SocketSettled'
      BY <1>27 DEF IInv, EndedElsewhere
  <2>6. ConnectedWhen'
      BY <1>27 DEF IInv, EndedElsewhere
  <2> QED
      BY <2>1, <2>2, <2>3, <2>4, <2>5, <2>6 DEF IInv
<1>28. ASSUME StopLocal PROVE IInv'
  <2>1. TypeOK'
    <3>1. co' \in Coordinator
        BY <1>28 DEF IInv, StopLocal
    <3>2. failures' \in 0..MaxFailures
      <4>1. failures \in 0..MaxFailures /\ (failures' = failures \/ Fail)
          BY <1>28 DEF IInv, StopLocal
      <4> QED
          BY <4>1, ReconnectAssumption DEF Fail
    <3>3. /\ lock' \in {"none", "recover"} \cup Tasks /\ LockHeld'
          /\ rec' \in InRecovery \cup {"none", "failing", "done"}
          /\ stop' = "running" /\ connected' = FALSE
        BY <1>28 DEF IInv, StopLocal
    <3>4. UNCHANGED <<taskVars, socket, row, provider, clientVars>>
        BY <1>28 DEF StopLocal
    <3> QED
        BY <3>1, <3>2, <3>3, <3>4 DEF IInv
  <2>2. ClosedMeansIdle'
      BY <1>28 DEF IInv, StopLocal
  <2>3. BeginUnderWay'
      BY <1>28 DEF IInv, StopLocal
  <2>4. ReadyFollowsNeed'
      BY <1>28 DEF IInv, StopLocal
  <2>5. SocketSettled'
      BY <1>28 DEF IInv, StopLocal
  <2>6. ConnectedWhen'
      BY <1>28 DEF IInv, StopLocal
  <2> QED
      BY <2>1, <2>2, <2>3, <2>4, <2>5, <2>6 DEF IInv
<1>29. ASSUME StopEnds PROVE IInv'
  <2>1. TypeOK'
    <3>1. provider' \in BOOLEAN /\ stop' = "done" /\ UNCHANGED <<co, lock, rec, at>>
          /\ UNCHANGED <<lost, reading, socket, connected, row, issued, failures>>
        BY <1>29 DEF StopEnds
    <3>2. net' \in [Sockets -> {"unopened", "up", "stuck", "down"}]
        BY <1>0, <1>29 DEF StopEnds
    <3> HIDE DEF TypeOK, Coordinator, LockHeld, InRecovery
    <3>3. HoldersTyped'
        BY <1>0, <3>1, SameHolders
    <3>4. RestTyped'
        BY <1>0, <3>1, <3>2 DEF RestTyped
    <3> QED
        BY <3>3, <3>4, TypeParts
  <2>2. ClosedMeansIdle'
      BY <1>29 DEF IInv, StopEnds
  <2>3. BeginUnderWay'
      BY <1>29 DEF IInv, StopEnds
  <2>4. ReadyFollowsNeed'
      BY <1>29 DEF IInv, StopEnds
  <2>5. SocketSettled'
      BY <1>29 DEF IInv, StopEnds
  <2>6. ConnectedWhen'
      BY <1>29 DEF IInv, StopEnds
  <2> QED
      BY <2>1, <2>2, <2>3, <2>4, <2>5, <2>6 DEF IInv
<1>30. ASSUME RunReturns PROVE IInv'
  <2>1. TypeOK'
    <3>1. co' \in Coordinator
        BY <1>0, <1>30 DEF RunReturns
    <3>2. /\ lock' \in {"none", "recover"} \cup Tasks /\ LockHeld'
          /\ rec' \in InRecovery \cup {"none", "failing", "done"}
          /\ at' \in [Tasks -> {"work", "sending", "begin", "disconnect", "await", "over"}]
        BY <1>0, <1>30 DEF RunReturns
    <3>3. stop' = "gone" /\ row' = "over"
          /\ UNCHANGED <<lost, reading, socket, connected, provider, clientVars, failures>>
        BY <1>30 DEF RunReturns
    <3> HIDE DEF TypeOK, Coordinator, LockHeld, InRecovery
    <3>4. HoldersTyped'
        BY <3>1, <3>2 DEF HoldersTyped
    <3>5. RestTyped'
        BY <1>0, <3>3 DEF RestTyped
    <3> QED
        BY <3>4, <3>5, TypeParts
  <2>2. ClosedMeansIdle'
      BY <1>30 DEF IInv, RunReturns
  <2>3. BeginUnderWay'
      BY <1>30 DEF IInv, RunReturns
  <2>4. ReadyFollowsNeed'
      BY <1>30 DEF IInv, RunReturns
  <2>5. SocketSettled'
      BY <1>30 DEF IInv, RunReturns
  <2>6. ConnectedWhen'
      BY <1>30 DEF IInv, RunReturns
  <2> QED
      BY <2>1, <2>2, <2>3, <2>4, <2>5, <2>6 DEF IInv
<1>31. CASE UNCHANGED vars
    BY <1>31 DEF IInv, vars
<1> QED
    BY <1>1, <1>2, <1>3, <1>4, <1>5, <1>6, <1>7, <1>8, <1>9, <1>10, <1>11, <1>12, <1>13, <1>14, <1>15, <1>16, <1>17, <1>18, <1>19, <1>20, <1>21, <1>22, <1>23, <1>24, <1>25, <1>26, <1>27, <1>28, <1>29, <1>30, <1>31 DEF Next, Begins, Sends, Breakdown, Recovers

\* The inductive invariant holds.
THEOREM Inductive == Spec => []IInv
    BY InductiveInit, InductiveNext, PTL DEF Spec

\* Types, and the coordinator's lock is held exactly across the awaits of disconnected
\* and of restored: whatever cancels them leaves it free.
THEOREM TypeCorrect == Spec => []TypeOK
<1>1. IInv => TypeOK
    BY DEF IInv
<1> QED
    BY <1>1, Inductive, PTL

\* No wakeup is lost and no loop spins: _recover waits for a socket exactly while one is
\* needed.
THEOREM NoLostWakeup == Spec => []SleepsWhileDetached
<1>1. IInv => SleepsWhileDetached
    BY DEF IInv, TypeOK, ClosedMeansIdle, ReadyFollowsNeed, SleepsWhileDetached
<1> QED
    BY <1>1, Inductive, PTL

\* A call that lost its client is connected again over a socket attached since.
THEOREM RestoresOverAttached == Spec => []RestoredOverAttachedSocket
<1>1. IInv => RestoredOverAttachedSocket
    BY DEF IInv, SocketSettled, ConnectedWhen, RestoredOverAttachedSocket
<1> QED
    BY <1>1, Inductive, PTL

\* stop_local is final: no recovery on its way connects the session again.
THEOREM StopIsFinal == Spec => []StoppedStaysDisconnected
<1>1. IInv => StoppedStaysDisconnected
    BY DEF IInv, ConnectedWhen, StoppedStaysDisconnected
<1> QED
    BY <1>1, Inductive, PTL

\* begin opens a window only when no recovery task is under way, although four tasks
\* call it and active is cleared outside the lock.
THEOREM OneAtATime == Spec => OneRecovery
<1>1. IInv /\ [Next]_vars => [co'.active /\ ~co.active => ~Recovering /\ rec # "failing"]_vars
  <2> SUFFICES ASSUME IInv, Next, co'.active, ~co.active PROVE ~Recovering /\ rec # "failing"
      BY DEF vars
  <2>1. co \in Coordinator
      BY DEF IInv, TypeOK
  <2>2. ~Stopped
    <3>1. \E t \in Tasks : BeginActivates(t)
        BY <2>1 DEF Next, Receives, ReceiveFails, LifecycleAwaits, Sends, SendStarts, Sent,
           SendFails, Breakdown, ProviderFails, ForwardFails, AwaitReturns, Begins, BeginJoins,
           Disconnected, DisconnectRefused, Recovers, RebuildCloses, Rebuilt, Checks, Wakes,
           RestoreCommits, RestoreResumes, Restored, FailedReturns, RecoveryFails,
           DeadlinePasses, Issue, Attach, Breaks, EndedElsewhere, StopLocal, StopEnds,
           RunReturns, Coordinator, coVars, LostAgain, Cancelled, Attached, Detached
    <3> QED
        BY <3>1 DEF BeginActivates, NothingToBegin
  <2> QED
      BY <2>2 DEF IInv, ClosedMeansIdle, Recovering, InRecovery
<1> QED
    BY <1>1, Inductive, PTL DEF Spec, OneRecovery

=============================================================================
