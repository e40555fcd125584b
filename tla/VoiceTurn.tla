----------------------------- MODULE VoiceTurn -----------------------------
(***************************************************************************)
(* From the provider's events to the turns in the database, within one     *)
(* session of a call: the backchannel filter (backend/services/realtime_    *)
(* voice_backchannel_service.py), the reorder buffer and the drafts of the  *)
(* turn service (..._turn_service.py), the playback ledger that bounds what *)
(* a client may report (..._playback_service.py), and how the gateway ties   *)
(* them together and stops them (..._gateway_service.py).                   *)
(*                                                                         *)
(* Four tasks interleave: the lifecycle task that hands over each event,    *)
(* the filter's timeout that releases held frames, the receiver with the    *)
(* client's reports, and stop_local.  A piece stands for the text, the      *)
(* sentence boundaries and the audio of a stretch of a reply; a question    *)
(* has one reply.  What the safety gates withhold is left out.              *)
(***************************************************************************)
EXTENDS Integers, FiniteSets

CONSTANTS
    MaxQuestions, MaxPieces, MaxSeq,    \* bounds of the provider's stream
    Hold,                               \* 64: frames held, and the sequence window
    Window,                             \* 128: reorder limit of the turn service
    MaxTrouble,                         \* bound: transactions that fail
    SendFails                           \* may a send fail on a socket that stays?

ASSUME TurnAssumption ==
    /\ MaxQuestions \in Nat \ {0} /\ MaxPieces \in Nat \ {0} /\ MaxSeq \in Nat
    /\ Hold \in Nat \ {0} /\ Window \in Nat /\ Hold <= Window
    /\ MaxTrouble \in Nat /\ SendFails \in BOOLEAN

Questions == 1..MaxQuestions
NoQuestion == 0

VARIABLES
    stream,     \* the adapter: events numbered, current question, preserved ones, replies
    state,      \* BackchannelFilter.states
    held,       \* BackchannelFilter.buffers
    deliver,    \* the task that has the filter's lock, the frame it delivers and what is
                \* to follow: the frames of an overdue buffer, then the others
    applied,    \* VoiceTurnService._sequence
    queue,      \* VoiceTurnService._pending
    draft,      \* VoiceTurnService._drafts
    lock,       \* VoiceTurnService._lock
    row,        \* voice_call_turn
    ledger,     \* PlaybackEvidence.replies
    apply,      \* apply_effective in the receiver and in stop_local
    stop,       \* stop_local and the finalizer
    accepted,   \* history: questions whose speech reached the gateway before the stop
    why,        \* what ended the call
    trouble     \* bound

inVars == <<stream, state, held, deliver>>
turnVars == <<applied, queue, draft, lock, row>>
vars == <<inVars, turnVars, ledger, apply, stop, accepted, why, trouble>>

Kinds == {"started", "control", "final", "piece", "finished", "filtered"}
Frame == [seq : 1..MaxSeq, kind : Kinds, q : Questions]
Stream == [seq : 0..MaxSeq, current : Questions \cup {NoQuestion}, kept : SUBSET Questions,
           final : SUBSET Questions, pieces : [Questions -> 0..MaxPieces],
           finished : SUBSET Questions]
Draft == [at : {"none", "open", "closed"}, final : BOOLEAN, reply : BOOLEAN,
          text : Nat, finished : BOOLEAN]
Turn == [status : {"none", "collecting", "finalized", "interrupted", "aborted"},
         user : BOOLEAN, text : Nat]
Reply == [known : BOOLEAN, pieces : Nat, finished : BOOLEAN, played : Nat,
          over : {"no", "completed", "interrupted"}]
Result == [q : Questions \cup {NoQuestion}, text : Nat,
           over : {"no", "completed", "interrupted"}]

NoFrame == [seq |-> 0, kind |-> "control", q |-> NoQuestion]
NoDraft == [at |-> "none", final |-> FALSE, reply |-> FALSE, text |-> 0, finished |-> FALSE]
NoRow == [status |-> "none", user |-> FALSE, text |-> 0]
NoReply == [known |-> FALSE, pieces |-> 0, finished |-> FALSE, played |-> 0, over |-> "no"]
NoResult == [q |-> NoQuestion, text |-> 0, over |-> "no"]
Nobody == [by |-> "nobody", at |-> "consume", freed |-> {}, given |-> {}, frame |-> NoFrame]

TypeOK ==
    /\ stream \in Stream /\ state \in [Questions -> {"none", "candidate", "valid", "blocked"}]
    /\ held \in SUBSET Frame /\ \A f \in held : state[f.q] = "candidate"
    /\ deliver \in [by : {"nobody", "lifecycle", "timeout"},
                    at : {"consume", "handle", "forward"}, freed : SUBSET Frame,
                    given : SUBSET Frame, frame : Frame \cup {NoFrame}]
    /\ applied \in 0..MaxSeq /\ queue \in SUBSET Frame
    /\ draft \in [Questions -> Draft] /\ row \in [Questions -> Turn]
    /\ lock \in {"free", "deliver", "receiver", "stop"}
    /\ ledger \in [Questions -> Reply]
    /\ \A q \in Questions : ledger[q].played <= ledger[q].pieces
    /\ apply \in [{"receiver", "stop"} -> [at : {"idle", "asks", "store"}, result : Result]]
    /\ stop \in [at : {"no", "evidence", "freeze", "frozen", "over"}, todo : SUBSET Questions,
                 known : SUBSET Questions]
    /\ accepted \in SUBSET Questions /\ trouble \in 0..MaxTrouble
    /\ why \in {"none", "hangup", "reorder", "report", "transport"}

Init ==
    /\ stream = [seq |-> 0, current |-> NoQuestion, kept |-> {}, final |-> {},
                 pieces |-> [q \in Questions |-> 0], finished |-> {}]
    /\ state = [q \in Questions |-> "none"] /\ held = {} /\ deliver = Nobody
    /\ applied = 0 /\ queue = {} /\ lock = "free"
    /\ draft = [q \in Questions |-> NoDraft] /\ row = [q \in Questions |-> NoRow]
    /\ ledger = [q \in Questions |-> NoReply]
    /\ apply = [t \in {"receiver", "stop"} |-> [at |-> "idle", result |-> NoResult]]
    /\ stop = [at |-> "no", todo |-> {}, known |-> {}]
    /\ accepted = {} /\ why = "none" /\ trouble = 0

Trouble == trouble < MaxTrouble /\ trouble' = trouble + 1
Stopped == stop.at # "no"
Frozen == stop.at \in {"freeze", "frozen", "over"}
Known == {q \in Questions : ledger[q].known}

-----------------------------------------------------------------------------
(* The filter *)

HeldOf(q) == {f \in held : f.q = q}
Tombstones(S) == {[f EXCEPT !.kind = "filtered"] : f \in S}

\* Mutant: only the question's own frames are counted.
Overdue_Never(seq) == {}

\* Buffers whose first frame is Hold numbers old: one at most, since numbers have no gaps.
Overdue(seq) == {q \in Questions : \E f \in HeldOf(q) : seq - f.seq >= Hold}

\* BackchannelFilter.consume: the new states, what is held now, and what is delivered.
Filtered(e, playing, ack) ==
    LET due == Overdue(e.seq)
        freed == {f \in held : f.q \in due}
        before == [q \in Questions |-> IF q \in due THEN "valid" ELSE state[q]]
        mine == HeldOf(e.q) \ freed
        now == IF e.kind = "started" /\ playing # NoQuestion /\ before[e.q] = "none"
               THEN "candidate" ELSE before[e.q]
        out == e.kind \in {"piece", "finished"}
        Outcome(verdict, keep, give) ==
            [state |-> [before EXCEPT ![e.q] = verdict],
             held |-> ((held \ freed) \ mine) \cup keep,
             freed |-> freed, given |-> give]
    IN CASE now = "candidate" /\ e.kind = "final" /\ ack ->
              Outcome("blocked", {}, Tombstones(mine \cup {e}))
         [] now = "candidate" /\ e.kind = "final" /\ ~ack -> Outcome("valid", {}, mine \cup {e})
         [] now = "candidate" /\ out /\ Cardinality(mine) + 1 >= Hold ->
              Outcome("valid", {}, mine \cup {e})
         [] now = "candidate" /\ out -> Outcome(now, mine \cup {e}, {})
         [] now = "blocked" /\ (out \/ e.kind = "final") -> Outcome(now, {}, Tombstones({e}))
         [] OTHER -> Outcome(now, mine, {e})

\* What the task that has the lock is to deliver now.
Delivery(task, freed, given) ==
    IF freed \cup given = {} THEN Nobody
    ELSE [by |-> task, at |-> "consume", freed |-> freed, given |-> given, frame |-> NoFrame]

\* The frame whose turn it is, if any is left.
Upcoming ==
    LET ahead == IF deliver.freed # {} THEN deliver.freed ELSE deliver.given
    IN  {f \in ahead : \A g \in ahead : f.seq <= g.seq}

-----------------------------------------------------------------------------
(* The lifecycle task: receive_event and process_provider_event *)

\* What the adapter lets through: a new question, the current question's final, and
\* output of the current question or of one that was preserved while it played.
Next_Event(kind, q) ==
    \/ kind \in {"started", "control"} /\ q = stream.current + 1
    \/ kind = "final" /\ q = stream.current /\ q \notin stream.final \cup stream.finished
    \/ /\ kind = "piece" /\ q \in {stream.current} \cup stream.kept
       /\ q \notin stream.finished /\ stream.pieces[q] < MaxPieces
    \/ /\ kind = "finished" /\ q \in {stream.current} \cup stream.kept
       /\ q \notin stream.finished /\ stream.pieces[q] > 0

\* Replies the client has reported on in the last half second, or none.
Playing ==
    {NoQuestion} \cup {q \in Questions : ledger[q].played > 0 /\ ledger[q].over = "no"}

Arrives(kind, q, playing, ack) ==
    LET e == [seq |-> stream.seq + 1, kind |-> kind, q |-> q]
        after == Filtered(e, playing, ack) IN
    /\ ~Stopped /\ deliver.by = "nobody" /\ stream.seq < MaxSeq
    /\ Next_Event(kind, q)
    /\ stream' = [stream EXCEPT !.seq = @ + 1,
          !.current = IF kind \in {"started", "control"} THEN q ELSE @,
          !.kept = IF kind = "started" THEN @ \cup ({playing} \ {NoQuestion}) ELSE @,
          !.final = IF kind = "final" THEN @ \cup {q} ELSE @,
          !.pieces[q] = IF kind = "piece" THEN @ + 1 ELSE @,
          !.finished = IF kind = "finished" THEN @ \cup {q} ELSE @]
    /\ state' = after.state /\ held' = after.held
    /\ deliver' = Delivery("lifecycle", after.freed, after.given)
    /\ accepted' = IF kind = "final" /\ after.state[q] # "blocked" THEN accepted \cup {q}
                   ELSE accepted
    /\ UNCHANGED <<turnVars, ledger, apply, stop, why, trouble>>

\* Two seconds after the question began.
TimedOut(q) == state[q] = "candidate"

TimesOut(q) ==
    /\ ~Stopped /\ deliver.by = "nobody" /\ TimedOut(q)
    /\ state' = [state EXCEPT ![q] = "valid"]
    /\ held' = held \ HeldOf(q)
    /\ deliver' = Delivery("timeout", {}, HeldOf(q))
    /\ UNCHANGED <<stream, turnVars, ledger, apply, stop, accepted, why, trouble>>

-----------------------------------------------------------------------------
(* Delivering: turns.consume, then forward_provider_event *)

Delivered(f) == Delivery(deliver.by, deliver.freed \ {f}, deliver.given \ {f})

\* What stop_local does first, whoever calls it: the filter's timeout is cancelled
\* wherever it is, and nothing is held any more.
Stopping(reason) ==
    /\ why' = reason /\ held' = {}
    /\ stop' = [at |-> "evidence", todo |-> Known, known |-> Known]

Busy(seq) == seq > applied + Window \/ Cardinality(queue) >= Window

Consumes ==
  \E f \in Upcoming :
    /\ deliver.by # "nobody" /\ deliver.at = "consume" /\ lock = "free"
    /\ IF Frozen \/ (Stopped /\ f.kind # "filtered")
       THEN deliver' = Delivered(f) /\ UNCHANGED <<lock, queue>>
       ELSE /\ ~Busy(f.seq)
            /\ queue' = queue \cup {f} /\ lock' = "deliver"
            /\ deliver' = [deliver EXCEPT !.at = "handle", !.frame = f,
                                          !.freed = @ \ {f}, !.given = @ \ {f}]
    /\ UNCHANGED <<stream, state, held, applied, draft, row, ledger, apply, stop, accepted,
                   why, trouble>>

\* voice_event_reorder_limit: the lifecycle task ends, and the call; the filter's
\* timeout ends unnoticed.
Overflows ==
    /\ deliver.by # "nobody" /\ deliver.at = "consume" /\ lock = "free" /\ ~Stopped
    /\ \E f \in Upcoming : Busy(f.seq)
    /\ deliver' = Nobody
    /\ IF deliver.by = "lifecycle" THEN Stopping("reorder") ELSE UNCHANGED <<why, held, stop>>
    /\ UNCHANGED <<stream, state, turnVars, ledger, apply, accepted, trouble>>

\* Mutant: whatever has come is handled.
NextInOrder_Any == queue

NextInOrder == {f \in queue : f.seq = applied + 1}

\* _write_text for the user: a row is made if there is none.
Heard(q, saved) ==
    IF saved /\ row[q].status \in {"none", "collecting"}
    THEN [row EXCEPT ![q].status = "collecting", ![q].user = TRUE] ELSE row

\* _handle, one event after another, as long as the next number is there.
Handles(f, saved) ==
    LET d == draft[f.q] IN
    /\ deliver.at = "handle" /\ lock = "deliver" /\ f \in NextInOrder
    /\ IF saved THEN UNCHANGED trouble ELSE f.kind = "final" /\ Trouble
    /\ queue' = queue \ {f} /\ applied' = f.seq
    /\ draft' = [draft EXCEPT ![f.q] =
          IF f.kind = "filtered"
          THEN IF d.final \/ d.text > 0 \/ d.reply THEN d ELSE NoDraft
          ELSE IF f.kind = "control" \/ d.at = "closed" THEN d
          ELSE [at |-> "open", final |-> d.final \/ f.kind = "final",
                reply |-> d.reply \/ f.kind \in {"piece", "finished"},
                text |-> IF f.kind = "piece" THEN d.text + 1 ELSE d.text,
                finished |-> d.finished \/ f.kind = "finished"]]
    /\ row' = IF f.kind = "final" /\ d.at # "closed" /\ ~d.final THEN Heard(f.q, saved) ELSE row
    /\ UNCHANGED <<inVars, lock, ledger, apply, stop, accepted, why>>

Handled ==
    /\ deliver.at = "handle" /\ lock = "deliver" /\ NextInOrder = {}
    /\ lock' = "free"
    /\ deliver' = IF Stopped \/ deliver.frame.kind = "filtered" THEN Delivered(deliver.frame)
                  ELSE [deliver EXCEPT !.at = "forward"]
    /\ UNCHANGED <<stream, state, held, applied, queue, draft, row, ledger, apply, stop,
                   accepted, why, trouble>>

\* feed, after the frame has been sent.
Fed(r, kind) ==
    IF r.over # "no" THEN r
    ELSE [r EXCEPT !.known = TRUE, !.pieces = IF kind = "piece" THEN @ + 1 ELSE @,
                   !.finished = @ \/ kind = "finished"]

Forwards ==
    LET f == deliver.frame IN
    /\ deliver.at = "forward"
    /\ ledger' = IF f.kind \in {"piece", "finished"}
                 THEN [ledger EXCEPT ![f.q] = Fed(@, f.kind)] ELSE ledger
    /\ deliver' = Delivered(f)
    /\ UNCHANGED <<stream, state, held, turnVars, apply, stop, accepted, why, trouble>>

\* The send takes more than three seconds.  In the lifecycle task a recovery begins,
\* which gives these services up; in the filter's timeout the frames are lost.
ForwardFails ==
    /\ SendFails /\ deliver.at = "forward" /\ ~Stopped /\ Trouble
    /\ deliver' = Nobody
    /\ IF deliver.by = "lifecycle" THEN Stopping("transport") ELSE UNCHANGED <<why, held, stop>>
    /\ UNCHANGED <<stream, state, turnVars, ledger, apply, accepted>>

-----------------------------------------------------------------------------
(* The receiver: an honest client reports on what it was sent *)

\* Mutant: everything that was sent counts as heard.
Provable_Sent(r) == r.pieces

\* snapshot: the sentences up to the position the client has reported.
Provable(r) == IF r.over = "completed" THEN r.pieces ELSE r.played

Snapshot(q, r) == [q |-> q, text |-> Provable(r), over |-> r.over]

Reports(q, played, over) ==
    LET r == [ledger[q] EXCEPT !.played = played, !.over = over] IN
    /\ ~Stopped /\ apply["receiver"].at = "idle" /\ ledger[q].known /\ ledger[q].over = "no"
    /\ played \in ledger[q].played..ledger[q].pieces
    /\ over = "completed" => ledger[q].finished /\ played = ledger[q].pieces
    /\ over = "no" => played > ledger[q].played
    /\ ledger' = [ledger EXCEPT ![q] = r]
    /\ apply' = [apply EXCEPT !["receiver"] = [at |-> "asks", result |-> Snapshot(q, r)]]
    /\ UNCHANGED <<inVars, turnVars, stop, accepted, why, trouble>>

-----------------------------------------------------------------------------
(* apply_effective, in the receiver and in stop_local *)

Idle(t) == apply' = [apply EXCEPT ![t] = [at |-> "idle", result |-> NoResult]]

Rejects(res) ==
    LET d == draft[res.q] IN
    \/ ~d.reply
    \/ d.at # "closed" /\ res.over = "completed" /\ (~d.finished \/ d.text # res.text)

\* The turn is closed, or nothing is taken any more.
AppliesNothing(t) ==
    LET res == apply[t].result IN
    /\ apply[t].at = "asks" /\ lock = "free"
    /\ Frozen \/ (~Rejects(res) /\ draft[res.q].at = "closed")
    /\ Idle(t)
    /\ UNCHANGED <<inVars, turnVars, ledger, stop, accepted, why, trouble>>

\* A ValueError: of a client's report it ends the call (playback_event_invalid); in
\* stop_local it ends the loop over the replies.
AppliesRaises(t) ==
    /\ apply[t].at = "asks" /\ lock = "free" /\ ~Frozen /\ Rejects(apply[t].result)
    /\ Idle(t)
    /\ IF t = "stop"
       THEN stop' = [stop EXCEPT !.at = "freeze", !.todo = {}] /\ UNCHANGED <<why, held, deliver>>
       ELSE IF Stopped THEN UNCHANGED <<stop, why, held, deliver>>
       ELSE /\ Stopping("report")
            /\ deliver' = IF deliver.by = "timeout" THEN Nobody ELSE deliver
    /\ UNCHANGED <<stream, state, turnVars, ledger, accepted, trouble>>

AppliesBegins(t) ==
    LET res == apply[t].result IN
    /\ apply[t].at = "asks" /\ lock = "free" /\ ~Frozen
    /\ ~Rejects(res) /\ draft[res.q].at # "closed"
    /\ lock' = t /\ apply' = [apply EXCEPT ![t].at = "store"]
    /\ UNCHANGED <<inVars, applied, queue, draft, row, ledger, stop, accepted, why, trouble>>

Statuses == [no |-> "collecting", completed |-> "finalized", interrupted |-> "interrupted"]

\* _stage_effective and the commit, or its failure.
AppliesStores(t, saved) ==
    LET res == apply[t].result  q == apply[t].result.q IN
    /\ apply[t].at = "store" /\ lock = t
    /\ IF saved THEN UNCHANGED trouble ELSE Trouble
    /\ row' = IF saved /\ row[q].status \in {"none", "collecting"}
              THEN [row EXCEPT ![q].status = Statuses[res.over], ![q].text = res.text] ELSE row
    /\ draft' = [draft EXCEPT ![q] = IF saved /\ res.over = "no" THEN @
                                     ELSE [@ EXCEPT !.at = "closed", !.text = 0]]
    /\ lock' = "free" /\ Idle(t)
    /\ UNCHANGED <<inVars, applied, queue, ledger, stop, accepted, why>>

-----------------------------------------------------------------------------
(* stop_local, freeze, final_flush *)

HangsUp ==
    /\ ~Stopped /\ Stopping("hangup")
    /\ deliver' = IF deliver.by = "timeout" THEN Nobody ELSE deliver
    /\ lock' = IF deliver.by = "timeout" /\ lock = "deliver" THEN "free" ELSE lock
    /\ UNCHANGED <<stream, state, applied, queue, draft, row, ledger, apply, accepted, trouble>>

\* A reply that is fed meanwhile ends the loop (the dictionary changed size).
TakesEvidence ==
    /\ stop.at = "evidence" /\ apply["stop"].at = "idle"
    /\ stop.todo # {} /\ stop.known = Known
    /\ \E q \in stop.todo :
         /\ \A p \in stop.todo : q <= p
         /\ stop' = [stop EXCEPT !.todo = @ \ {q}]
         /\ apply' = [apply EXCEPT !["stop"] = [at |-> "asks", result |-> Snapshot(q, ledger[q])]]
    /\ UNCHANGED <<inVars, turnVars, ledger, accepted, why, trouble>>

BeginsFreeze ==
    /\ stop.at = "evidence" /\ apply["stop"].at = "idle"
    /\ stop.todo = {} \/ stop.known # Known
    /\ stop' = [stop EXCEPT !.at = "freeze", !.todo = {}]
    /\ UNCHANGED <<inVars, turnVars, ledger, apply, accepted, why, trouble>>

Freezes ==
    /\ stop.at = "freeze" /\ lock = "free"
    /\ stop' = [stop EXCEPT !.at = "frozen"] /\ queue' = {}
    /\ UNCHANGED <<inVars, applied, draft, lock, row, ledger, apply, accepted, why, trouble>>

\* Mutant: only turns that have a reply are marked.
Unclosed_Answered == {q \in Questions : draft[q].at = "open" /\ draft[q].reply}

\* Drafts that were not closed.
Unclosed == {q \in Questions : draft[q].at = "open"}

\* final_flush in the finalizer's transaction; it may fail and be tried again.
Flushes ==
    /\ stop.at = "frozen"
    /\ stop' = [stop EXCEPT !.at = "over"]
    /\ row' = [q \in Questions |->
          IF q \in Unclosed /\ row[q].status \in {"none", "collecting"}
          THEN [row[q] EXCEPT !.status = "aborted"] ELSE row[q]]
    /\ UNCHANGED <<inVars, applied, queue, draft, lock, ledger, apply, accepted, why, trouble>>

-----------------------------------------------------------------------------
Applies(t) ==
    \/ AppliesNothing(t) \/ AppliesRaises(t) \/ AppliesBegins(t)
    \/ \E saved \in BOOLEAN : AppliesStores(t, saved)

Delivers ==
    \/ Consumes \/ Overflows \/ Handled \/ Forwards \/ ForwardFails
    \/ \E f \in queue, saved \in BOOLEAN : Handles(f, saved)

Stops == TakesEvidence \/ BeginsFreeze \/ Freezes \/ Flushes

Next ==
    \/ \E kind \in Kinds \ {"filtered"}, q \in Questions, playing \in Playing, ack \in BOOLEAN :
         /\ kind # "started" => playing = NoQuestion
         /\ kind # "final" => ~ack
         /\ Arrives(kind, q, playing, ack)
    \/ \E q \in Questions : TimesOut(q)
    \/ Delivers
    \/ \E q \in Questions, played \in 0..MaxPieces, over \in {"no", "completed", "interrupted"} :
         Reports(q, played, over)
    \/ \E t \in {"receiver", "stop"} : Applies(t)
    \/ HangsUp \/ Stops

Spec == Init /\ [][Next]_vars

-----------------------------------------------------------------------------
(* Properties *)

\* "Stay below the turn service's 128-event reorder bound" (realtime_voice_
\* backchannel_service.py:82): however the filter holds frames back, what waits in the
\* reorder buffer waits for a number that is still held, in delivery or queued with it,
\* so that the timeout brings it on; and the buffer never fills.  A send that fails is
\* excepted: a released frame takes those behind it along, and leaves a gap.
NothingWaitsForLost ==
    trouble = 0 =>
        /\ why # "reorder"
        /\ queue # {} /\ ~Stopped =>
              applied + 1 \in {f.seq : f \in held \cup queue \cup deliver.freed \cup deliver.given}

\* No text is stored that the client has not reported as played, and a turn that counts
\* as heard out has all of it ("未播放部分永不回填", docs/design/realtime_voice/P1/
\* steps-verified.md:2078).
StoredIsHeard ==
    \A q \in Questions :
        /\ row[q].text <= ledger[q].played
        /\ row[q].status = "finalized" => row[q].text = ledger[q].pieces

\* "final flush 后补齐或标残缺" (docs/design/realtime_voice/P1/steps-verified.md:2002):
\* once the finalizer has flushed, no turn of the call is left collecting.  The code:
\* evidence that could not be committed closes the draft, and the flush skips it.
FlushedCloses ==
    stop.at = "over" => \A q \in Questions : row[q].status # "collecting"

\* Without a failed transaction the flush closes every turn, whatever was being written
\* when the call was stopped, and none is opened afterwards.
FlushedUnlessFailed == trouble = 0 => FlushedCloses

\* "Stay below the turn service's 128-event reorder bound" (realtime_voice_
\* backchannel_service.py:82): the buffer of the turn service never fills.  The code:
\* a released frame whose send fails takes those behind it along, and leaves a gap.
WindowKept == why # "reorder"

\* "挂断时最后回合未闭环 | final flush 后补齐或标残缺" (docs/design/realtime_voice/P1/
\* steps-verified.md:2002): a question whose final has reached the gateway has a row
\* in the end.  The code: what waits behind held frames is dropped, drafts and all.
TurnsAccounted ==
    stop.at = "over" => \A q \in accepted : row[q].status # "none"

\* "完整回复且客户端 completed | effective 为完整回复，证据 full" (docs/design/realtime_
\* voice/P1/steps-verified.md:2075): an honest report never ends the call.  The code: the
\* client is sent frames that the turn service still queues behind held ones.
HonestReports == why # "report"

=============================================================================
