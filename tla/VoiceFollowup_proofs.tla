------------------------ MODULE VoiceFollowup_proofs ------------------------
(***************************************************************************)
(* Proofs about VoiceFollowup, for any number of workers, texts, later      *)
(* calls and faults: one message at most, before anything the user writes,  *)
(* counted once, and nothing kept of a deleted call.                        *)
(***************************************************************************)
EXTENDS VoiceFollowup, TLAPS

\* The job of the message, of a call that still runs or not, deleted or not.
JobOK(f, live, gone) ==
    /\ f \in FollowupJob
    /\ f.status = "sent" <=> f.message
    /\ live => f.status = "absent"
    /\ gone => f.status \notin Ongoing /\ ~f.content

Job == JobOK(followup, call.status = "live", call.deleted)

\* The call and the job of its summary.
SourceOK(c, s) ==
    /\ c \in CallRow /\ s \in SummaryJob
    /\ c.status = "live" => s.status = "absent"
    /\ c.deleted => ~c.text /\ s.status \notin {"pending", "processing"}

Source == SourceOK(call, summaryJob)

\* A dispatcher on its way to the timeline has the job, one that counts has a message.
DispatcherOK(d, f, w) ==
    /\ d \in Dispatching
    /\ d.at = "sequence" => Mine(f, w)
    /\ d.at \in {"count", "counted"} => f.message

Crew ==
    /\ dispatcher \in [Dispatchers -> Dispatching] /\ summarizer \in [Summarizers -> Summarizing]
    /\ \A w \in Dispatchers : DispatcherOK(dispatcher[w], followup, w)

Story ==
    /\ timeline \in Seq({"text", "message"})
    /\ \A i, j \in DOMAIN timeline : timeline[i] = "message" /\ timeline[j] = "message" => i = j
    /\ followup.message <=> \E i \in DOMAIN timeline : timeline[i] = "message"
    /\ NeverAfterUserWrote

Counted ==
    /\ redis \in [count : Nat, marked : BOOLEAN]
    /\ redis.count = IF redis.marked THEN 1 ELSE 0
    /\ redis.marked => followup.message

Others ==
    /\ storing \in BOOLEAN /\ later \in 0..MaxLater /\ window \in BOOLEAN /\ overdue \in BOOLEAN
    /\ mishaps \in 0..MaxMishaps

IInv == Job /\ Source /\ Crew /\ Story /\ Counted /\ Others

-----------------------------------------------------------------------------
(* The job *)

\* What a worker makes of the job keeps it in order.
LEMMA JobChanges ==
    ASSUME NEW f, NEW live \in BOOLEAN, NEW gone \in BOOLEAN, JobOK(f, live, gone),
           NEW w \in Dispatchers
    PROVE  /\ f.status = "processing" =>
                 /\ JobOK(Cancelled(f), live, gone)
                 /\ JobOK([Released(f) EXCEPT !.status = "pending", !.wait = TRUE], live, gone)
                 /\ JobOK(Sent(f), live, gone)
           /\ Accounting(f) =>
                 JobOK([f EXCEPT !.owner = w, !.lease = TRUE, !.status = "sent", !.counting = TRUE],
                       live, gone)
           /\ f.status \in {"pending", "processing"} /\ ~Accounting(f) =>
                 JobOK([f EXCEPT !.owner = w, !.lease = TRUE, !.status = "processing"], live, gone)
<1> USE DEF JobOK, FollowupJob, Ongoing
<1>1. ASSUME f.status = "processing"
      PROVE  /\ JobOK(Cancelled(f), live, gone)
             /\ JobOK([Released(f) EXCEPT !.status = "pending", !.wait = TRUE], live, gone)
             /\ JobOK(Sent(f), live, gone)
    BY <1>1 DEF Cancelled, Released, Sent
<1>2. ASSUME Accounting(f)
      PROVE  JobOK([f EXCEPT !.owner = w, !.lease = TRUE, !.status = "sent", !.counting = TRUE],
                   live, gone)
    BY <1>2 DEF Accounting
<1>3. ASSUME f.status \in {"pending", "processing"}, ~Accounting(f)
      PROVE  JobOK([f EXCEPT !.owner = w, !.lease = TRUE, !.status = "processing"], live, gone)
    BY <1>3 DEF Accounting
<1> QED
    BY <1>1, <1>2, <1>3

\* None of them but the sending makes or unmakes a message.
LEMMA MessageStays ==
    ASSUME NEW f \in FollowupJob, NEW w \in Dispatchers, NEW b \in BOOLEAN, NEW c \in BOOLEAN
    PROVE  /\ [Released(f) EXCEPT !.counting = b, !.wait = c].message = f.message
           /\ Cancelled(f).message = f.message
           /\ [Released(f) EXCEPT !.status = "pending", !.wait = TRUE].message = f.message
           /\ [f EXCEPT !.owner = w, !.lease = TRUE, !.status = "sent", !.counting = TRUE].message = f.message
           /\ [f EXCEPT !.owner = w, !.lease = TRUE, !.status = "processing"].message = f.message
    BY DEF FollowupJob, Released, Cancelled

\* A job that is planned, where there was none.
LEMMA JobPlanned ==
    ASSUME NEW fits \in BOOLEAN
    PROVE  JobOK(Planned(fits), FALSE, FALSE) /\ ~Planned(fits).message
    BY DEF JobOK, Planned, NoFollowup, FollowupJob, Nobody

-----------------------------------------------------------------------------
(* The frame *)

\* Who moves on, without a message sent or a counter called; a job changes hands only
\* while nobody is on his way to the timeline.
Steady ==
    /\ JobOK(followup', call'.status = "live", call'.deleted)
    /\ followup'.message = followup.message
    /\ CallFree \/ (followup'.status = followup.status /\ followup'.owner = followup.owner)
    /\ dispatcher' \in [Dispatchers -> Dispatching]
    /\ \A w \in Dispatchers :
          \/ dispatcher'[w] = dispatcher[w]
          \/ dispatcher'[w].at \notin {"sequence", "count", "counted"}
          \/ DispatcherOK(dispatcher'[w], followup', w)
    /\ summarizer' \in [Summarizers -> Summarizing]

LEMMA SteadyKeeps ==
    ASSUME IInv, Steady, SourceOK(call, summaryJob)', UNCHANGED <<timeline, redis>>, Others'
    PROVE  IInv'
<1>1. Job' /\ Source'
    BY DEF Steady, Job, Source
<1>2. Crew'
  <2>1. ASSUME NEW w \in Dispatchers
        PROVE  DispatcherOK(dispatcher'[w], followup', w)
    <3>1. DispatcherOK(dispatcher[w], followup, w) /\ dispatcher'[w] \in Dispatching
        BY DEF IInv, Crew, Steady
    <3>2. CASE dispatcher'[w] = dispatcher[w]
        BY <3>1, <3>2 DEF Steady, DispatcherOK, Mine, CallFree
    <3> QED
        BY <3>1, <3>2 DEF Steady, DispatcherOK
  <2> QED
      BY <2>1 DEF Crew, Steady
<1>3. Story'
    BY DEF IInv, Steady, Story, NeverAfterUserWrote
<1>4. Counted'
    BY DEF IInv, Steady, Counted
<1> QED
    BY <1>1, <1>2, <1>3, <1>4 DEF IInv

\* One dispatcher's step.
LEMMA OneDispatcher ==
    ASSUME dispatcher \in [Dispatchers -> Dispatching], NEW w \in Dispatchers, NEW d \in Dispatching,
           dispatcher' = [dispatcher EXCEPT ![w] = d]
    PROVE  /\ dispatcher' \in [Dispatchers -> Dispatching] /\ dispatcher'[w] = d
           /\ \A v \in Dispatchers \ {w} : dispatcher'[v] = dispatcher[v]
    OBVIOUS

LEMMA RestsTyped ==
    /\ DispatcherRests \in Dispatching /\ SummarizerRests \in Summarizing
    /\ DispatcherRests.at = "idle"
    /\ NoSummaryJob \in SummaryJob /\ NoFollowup \in FollowupJob
    BY FollowupAssumption DEF DispatcherRests, SummarizerRests, Dispatching, Summarizing,
       NoSummaryJob, NoFollowup, SummaryJob, FollowupJob
-----------------------------------------------------------------------------
(* The call and its summary *)

\* A step that leaves the job of the message and the dispatchers alone.
LEMMA AwayFromMessage ==
    ASSUME IInv, UNCHANGED <<followup, dispatcher, timeline, redis>>,
           summarizer' \in [Summarizers -> Summarizing], SourceOK(call, summaryJob)', Others',
           call'.status = call.status, call'.deleted = call.deleted
    PROVE  IInv'
<1>1. Steady
    BY DEF Steady, IInv, Job, Crew
<1> QED
    BY <1>1, SteadyKeeps

\* How a summary job ends or begins again.
LEMMA SummaryJobs ==
    ASSUME IInv
    PROVE  /\ \A status \in {"pending", "success", "failed", "cancelled"} :
                 SummaryOver(status) \in SummaryJob /\ SummaryOver(status).status = status
           /\ [summaryJob EXCEPT !.status = "pending"] \in SummaryJob
    BY DEF IInv, Source, SourceOK, SummaryOver, SummaryJob

LEMMA CallEndsKeeps ==
    ASSUME IInv, NEW status \in {"ended", "missed"}, NEW fits \in BOOLEAN, CallEnds(status, fits)
    PROVE  IInv'
<1>1. /\ call \in CallRow /\ call.status = "live" /\ followup.status = "absent" /\ CallFree
      /\ followup \in FollowupJob /\ ~followup.message
    BY DEF CallEnds, IInv, Job, JobOK, Source, SourceOK
<1>2. /\ call' \in CallRow /\ call'.status = status /\ call'.deleted = call.deleted
      /\ call'.text = call.text
    BY <1>1 DEF CallEnds, CallRow
<1>3. SourceOK(call, summaryJob)'
    BY <1>2 DEF CallEnds, IInv, Source, SourceOK
<1>4. JobOK(followup', FALSE, call'.deleted) /\ ~followup'.message
  <2>1. CASE status = "missed" /\ ~call.deleted
      BY <1>2, <2>1, JobPlanned DEF CallEnds, CallRow, JobOK
  <2>2. CASE ~(status = "missed" /\ ~call.deleted)
      BY <1>1, <1>2, <2>2 DEF CallEnds, IInv, Job, JobOK
  <2> QED
      BY <2>1, <2>2
<1>5. JobOK(followup', call'.status = "live", call'.deleted)
    BY <1>2, <1>4 DEF JobOK
<1>6. dispatcher' = dispatcher /\ summarizer' = summarizer /\ followup'.message = followup.message
    BY <1>1, <1>4, <1>5 DEF CallEnds, JobOK, FollowupJob
<1>7. Steady
    BY <1>1, <1>5, <1>6 DEF Steady, IInv, Crew
<1> QED
    BY <1>3, <1>7, SteadyKeeps DEF CallEnds, IInv, Others

LEMMA SummarySavesKeeps ==
    ASSUME IInv, NEW w \in Summarizers, NEW fits \in BOOLEAN, SummarySaves(w, fits)
    PROVE  IInv'
<1>1. call \in CallRow /\ summaryJob \in SummaryJob /\ CallFree
    BY DEF SummarySaves, IInv, Source, SourceOK
<1>2. summarizer' \in [Summarizers -> Summarizing]
    BY RestsTyped DEF SummarySaves, IInv, Crew
<1>3. Owned(w) => call.status # "live"
    BY DEF Owned, IInv, Source, SourceOK
<1>4. CASE ~Owned(w)
  <2>1. UNCHANGED <<call, summaryJob, followup, dispatcher, timeline, redis>> /\ Others'
      BY <1>4 DEF SummarySaves, IInv, Others
  <2> QED
      BY <1>2, <2>1, AwayFromMessage DEF IInv, Source, SourceOK
<1>5. CASE Owned(w) /\ (call.deleted \/ call.expired)
  <2>1. call' \in CallRow /\ call'.status = call.status /\ call'.deleted = call.deleted
        /\ call'.text = call.text
      BY <1>1, <1>5 DEF SummarySaves, CallRow
  <2>2. UNCHANGED <<followup, dispatcher, timeline, redis>> /\ Others'
      BY <1>5 DEF SummarySaves, IInv, Others
  <2>3. SourceOK(call, summaryJob)'
      BY <1>5, <1>3, <2>1, SummaryJobs DEF SummarySaves, IInv, Source, SourceOK
  <2> QED
      BY <1>2, <2>1, <2>2, <2>3, AwayFromMessage
<1>6. CASE Owned(w) /\ ~call.deleted /\ ~call.expired
  <2>1. call' \in CallRow /\ call'.status = call.status /\ ~call'.deleted
      BY <1>1, <1>6 DEF SummarySaves, CallRow
  <2>2. SourceOK(call, summaryJob)'
      BY <1>6, <1>3, <2>1, SummaryJobs DEF SummarySaves, SourceOK
  <2>3. call.status # "live" /\ (call'.status = "live") = FALSE /\ call'.deleted = FALSE
      BY <1>1, <1>6, <1>3, <2>1 DEF CallRow
  <2>4. followup \in FollowupJob /\ JobOK(followup, FALSE, FALSE)
      BY <2>3 DEF IInv, Job, JobOK
  <2>5. JobOK(followup', FALSE, FALSE) /\ followup'.message = followup.message
    <3>1. CASE followup.status = "absent"
        BY <1>6, <2>4, <3>1, JobPlanned DEF SummarySaves, JobOK, FollowupJob
    <3>2. CASE followup.status # "absent"
        BY <1>6, <2>4, <3>2 DEF SummarySaves
    <3> QED
        BY <3>1, <3>2
  <2>6. JobOK(followup', call'.status = "live", call'.deleted)
      BY <2>3, <2>5 DEF JobOK
  <2>7. dispatcher' = dispatcher
      BY DEF SummarySaves
  <2>8. Steady
      BY <1>1, <1>2, <2>5, <2>6, <2>7 DEF Steady, IInv, Crew
  <2>9. UNCHANGED <<timeline, redis>> /\ Others'
      BY DEF SummarySaves, IInv, Others
  <2> QED
      BY <2>2, <2>8, <2>9, SteadyKeeps
<1> QED
    BY <1>4, <1>5, <1>6

\* A job of the summary is written, or written back by an administrator.
LEMMA SummaryQueuedKeeps == ASSUME IInv, SummaryEnqueued \/ SummaryRetried PROVE IInv'
<1> USE DEF IInv, Source, SourceOK
<1>1. call \in CallRow /\ summaryJob \in SummaryJob /\ summarizer \in [Summarizers -> Summarizing]
    BY DEF Crew
<1>2. UNCHANGED <<followup, dispatcher, timeline, redis, summarizer>> /\ Others'
    BY FollowupAssumption DEF SummaryEnqueued, SummaryRetried, Mishap, Others
<1>3. CASE SummaryEnqueued
    BY <1>1, <1>2, <1>3, SummaryJobs, AwayFromMessage DEF SummaryEnqueued, Summarizable, CallRow
<1>4. CASE SummaryRetried
  <2>1. /\ call' \in CallRow /\ call'.status = call.status /\ call'.deleted = call.deleted
        /\ call'.text = call.text /\ ~call.deleted
      BY <1>1, <1>4 DEF SummaryRetried, CallRow
  <2> QED
      BY <1>1, <1>2, <1>4, <2>1, SummaryJobs, AwayFromMessage DEF SummaryRetried
<1> QED
    BY <1>3, <1>4

\* The other steps of a summarizer touch neither the message nor what is kept.
LEMMA SummaryKeeps ==
    ASSUME IInv, NEW w \in Summarizers,
           \/ SummaryTaken(w) \/ SummaryFails(w) \/ SummaryRollsBack(w)
           \/ \E eligible \in BOOLEAN : SummarySettles(w, eligible)
           \/ \E candidate \in BOOLEAN : SummaryAnswers(w, candidate)
    PROVE  IInv'
<1> USE DEF IInv, Source, SourceOK
<1>1. /\ call \in CallRow /\ summaryJob \in SummaryJob /\ MaxMishaps \in Nat
      /\ summarizer \in [Summarizers -> Summarizing] /\ mishaps \in 0..MaxMishaps
    BY FollowupAssumption DEF Crew, Others
<1>2. UNCHANGED <<followup, dispatcher, timeline, redis>> /\ Others'
    BY <1>1 DEF SummaryTaken, SummaryFails, SummaryRollsBack,
       SummarySettles, SummaryAnswers, Mishap, Smooth, Others
<1>3. CASE SummaryTaken(w)
  <2>1. summaryJob' \in SummaryJob /\ summarizer' \in [Summarizers -> Summarizing]
      BY <1>1, <1>3 DEF SummaryTaken, SummaryJob, Summarizing
  <2> QED
      BY <1>1, <1>2, <1>3, <2>1, AwayFromMessage DEF SummaryTaken, CallRow
<1>4. CASE SummaryFails(w)
  <2>1. summarizer' \in [Summarizers -> Summarizing]
      BY <1>1, <1>4, RestsTyped DEF SummaryFails
  <2>2. CASE ~Owned(w)
      BY <1>1, <1>2, <1>4, <2>1, <2>2, AwayFromMessage DEF SummaryFails
  <2>3. CASE Owned(w)
    <3>1. /\ call' \in CallRow /\ call'.status = call.status /\ call'.deleted = call.deleted
          /\ call'.text = call.text /\ call.status # "live"
        BY <1>1, <1>4, <2>3 DEF SummaryFails, CallRow, Owned
    <3>2. SourceOK(call, summaryJob)'
        BY <1>1, <1>4, <2>3, <3>1, SummaryJobs DEF SummaryFails
    <3> QED
        BY <1>2, <2>1, <3>1, <3>2, AwayFromMessage
  <2> QED
      BY <2>2, <2>3
<1>5. CASE SummaryRollsBack(w)
  <2>1. summarizer' \in [Summarizers -> Summarizing]
      BY <1>1, <1>5 DEF SummaryRollsBack, Summarizing
  <2> QED
      BY <1>1, <1>2, <1>5, <2>1, AwayFromMessage DEF SummaryRollsBack
<1>6. ASSUME NEW eligible \in BOOLEAN, SummarySettles(w, eligible) PROVE IInv'
  <2>1. /\ call' \in CallRow /\ call'.status = call.status /\ call'.deleted = call.deleted
        /\ call'.text = call.text /\ call.status # "live"
      BY <1>1, <1>6 DEF SummarySettles, SummaryWorkerGone, CallRow
  <2>2. SourceOK(call, summaryJob)'
      BY <1>1, <1>6, <2>1, SummaryJobs DEF SummarySettles
  <2>3. summarizer' = summarizer
      BY <1>6 DEF SummarySettles
  <2> QED
      BY <1>1, <1>2, <2>1, <2>2, <2>3, AwayFromMessage
<1>7. ASSUME NEW candidate \in BOOLEAN, SummaryAnswers(w, candidate) PROVE IInv'
  <2>1. summarizer' \in [Summarizers -> Summarizing]
      BY <1>1, <1>7 DEF SummaryAnswers, Summarizing
  <2> QED
      BY <1>1, <1>2, <1>7, <2>1, AwayFromMessage DEF SummaryAnswers
<1> QED
    BY <1>3, <1>4, <1>5, <1>6, <1>7

-----------------------------------------------------------------------------
(* The dispatchers *)

\* A dispatcher's step that neither sends nor counts nor sets out for the timeline.
LEMMA DispatcherMoves ==
    ASSUME IInv, NEW w \in Dispatchers, NEW d \in Dispatching,
           dispatcher' = [dispatcher EXCEPT ![w] = d], d.at \notin {"sequence", "count", "counted"},
           JobOK(followup', call.status = "live", call.deleted),
           followup'.message = followup.message,
           CallFree \/ followup' = followup,
           UNCHANGED <<call, summaryJob, timeline, redis, summarizer>>, Others'
    PROVE  IInv'
<1>1. /\ dispatcher' \in [Dispatchers -> Dispatching] /\ dispatcher'[w] = d
      /\ \A v \in Dispatchers \ {w} : dispatcher'[v] = dispatcher[v]
    BY OneDispatcher DEF IInv, Crew
<1>2. Steady
    BY <1>1 DEF Steady, IInv, Crew
<1>3. SourceOK(call, summaryJob)'
    BY DEF IInv, Source
<1> QED
    BY <1>2, <1>3, SteadyKeeps

\* What every step of a dispatcher knows.
LEMMA Known ==
    ASSUME IInv, NEW w \in Dispatchers
    PROVE  /\ followup \in FollowupJob /\ JobOK(followup, call.status = "live", call.deleted)
           /\ dispatcher \in [Dispatchers -> Dispatching] /\ dispatcher[w] \in Dispatching
           /\ DispatcherOK(dispatcher[w], followup, w)
           /\ mishaps \in 0..MaxMishaps /\ MaxMishaps \in Nat /\ MaxLater \in Nat
           /\ (call.status = "live") \in BOOLEAN /\ call.deleted \in BOOLEAN
    BY FollowupAssumption DEF IInv, Job, JobOK, Crew, Others, Source, SourceOK, CallRow

\* What the worker that has the job may make of it.
LEMMA MineChanges ==
    ASSUME IInv, NEW w \in Dispatchers, Mine(followup, w)
    PROVE  /\ JobOK(Cancelled(followup), call.status = "live", call.deleted)
           /\ JobOK([Released(followup) EXCEPT !.status = "pending", !.wait = TRUE],
                    call.status = "live", call.deleted)
           /\ JobOK(Sent(followup), call.status = "live", call.deleted)
           /\ Sent(followup).message
<1> DEFINE live == call.status = "live"
<1>1. live \in BOOLEAN /\ call.deleted \in BOOLEAN /\ followup \in FollowupJob
      /\ JobOK(followup, live, call.deleted) /\ followup.status = "processing"
    BY Known DEF Mine
<1> HIDE DEF live
<1>2. /\ JobOK(Cancelled(followup), live, call.deleted)
      /\ JobOK([Released(followup) EXCEPT !.status = "pending", !.wait = TRUE], live, call.deleted)
      /\ JobOK(Sent(followup), live, call.deleted)
    BY <1>1, JobChanges
<1>3. Sent(followup).message
    BY <1>1 DEF Sent, FollowupJob
<1> QED
    BY <1>2, <1>3 DEF live

\* A dispatcher goes on to another step.
LEMMA GoesOn ==
    ASSUME NEW d \in Dispatching,
           NEW at \in {"topic", "dispatch", "open", "sequence", "failing", "account", "count", "counted"}
    PROVE  [d EXCEPT !.at = at] \in Dispatching /\ [d EXCEPT !.at = at].at = at
    BY DEF Dispatching

LEMMA DispatchClaimsKeeps == ASSUME IInv, NEW w \in Dispatchers, DispatchClaims(w) PROVE IInv'
<1> DEFINE d(at) == [DispatcherRests EXCEPT !.at = at]
<1>1. d("account") \in Dispatching /\ d("account").at = "account"
      /\ d("topic") \in Dispatching /\ d("topic").at = "topic"
    BY RestsTyped, GoesOn
<1>2. UNCHANGED <<call, summaryJob, timeline, redis, summarizer>> /\ Others' /\ CallFree
    BY DEF DispatchClaims, IInv, Others
<1>3. CASE Accounting(followup)
  <2>1. /\ followup' = [followup EXCEPT !.owner = w, !.lease = TRUE, !.status = "sent", !.counting = TRUE]
        /\ dispatcher' = [dispatcher EXCEPT ![w] = d("account")]
      BY <1>3, Known DEF DispatchClaims, FollowupJob
  <2>2. JobOK(followup', call.status = "live", call.deleted)
      BY <1>3, <2>1, Known, JobChanges
  <2>3. followup'.message = followup.message
      BY <2>1, Known, MessageStays
  <2> QED
      BY <1>1, <1>2, <2>1, <2>2, <2>3, DispatcherMoves
<1>4. CASE ~Accounting(followup)
  <2>1. /\ followup.status \in {"pending", "processing"}
        /\ followup' = [followup EXCEPT !.owner = w, !.lease = TRUE, !.status = "processing"]
        /\ dispatcher' = [dispatcher EXCEPT ![w] = d("topic")]
      BY <1>4, Known DEF DispatchClaims, FollowupJob
  <2>2. JobOK(followup', call.status = "live", call.deleted)
      BY <1>4, <2>1, Known, JobChanges
  <2>3. followup'.message = followup.message
      BY <2>1, Known, MessageStays
  <2> QED
      BY <1>1, <1>2, <2>1, <2>2, <2>3, DispatcherMoves
<1> QED
    BY <1>3, <1>4

LEMMA PreparesTopicKeeps ==
    ASSUME IInv, NEW w \in Dispatchers, NEW continued \in BOOLEAN, PreparesTopic(w, continued)
    PROVE  IInv'
<1>1. PICK d \in Dispatching :
          dispatcher' = [dispatcher EXCEPT ![w] = d] /\ d.at \in {"dispatch", "failing"}
  <2> DEFINE asked == /\ Mine(followup, w) /\ ~call.deleted /\ ~call.expired
                      /\ ~overdue /\ window /\ later > 0
  <2> DEFINE e == [dispatcher[w] EXCEPT !.at = "dispatch", !.topic = IF asked THEN later ELSE 0,
                                        !.continued = asked /\ continued]
  <2>1. later \in 0..MaxLater /\ dispatcher[w] \in Dispatching /\ asked \in BOOLEAN
        /\ dispatcher \in [Dispatchers -> Dispatching]
      BY Known DEF IInv, Others, Source, SourceOK, CallRow, Mine
  <2>2. e \in Dispatching /\ e.at = "dispatch"
    <3> DEFINE n == IF asked THEN later ELSE 0
    <3> DEFINE c == asked /\ continued
    <3>1. n \in 0..MaxLater /\ c \in BOOLEAN
        BY <2>1, Known
    <3> HIDE DEF n, c, asked
    <3>2. [dispatcher[w] EXCEPT !.at = "dispatch", !.topic = n, !.continued = c] \in Dispatching
        BY <2>1, <3>1 DEF Dispatching
    <3>3. [dispatcher[w] EXCEPT !.at = "dispatch", !.topic = n, !.continued = c].at = "dispatch"
        BY <2>1 DEF Dispatching
    <3> QED
        BY <3>2, <3>3 DEF n, c
  <2>3. CASE dispatcher' = [dispatcher EXCEPT ![w] = e]
      BY <2>2, <2>3
  <2>4. CASE dispatcher' = [dispatcher EXCEPT ![w].at = "failing"]
      BY <2>1, <2>4, GoesOn
  <2> QED
      BY <2>1, <2>3, <2>4 DEF PreparesTopic
<1>2. UNCHANGED <<call, summaryJob, followup, timeline, redis, summarizer>>
    BY DEF PreparesTopic
<1>3. Others'
    BY Known DEF PreparesTopic, IInv, Others, Mishap, Smooth
<1> QED
    BY <1>1, <1>2, <1>3, Known, DispatcherMoves

LEMMA DispatchOpensKeeps == ASSUME IInv, NEW w \in Dispatchers, DispatchOpens(w) PROVE IInv'
<1> DEFINE d == [dispatcher[w] EXCEPT !.at = "open", !.saw = Wrote]
<1>1. d \in Dispatching /\ d.at = "open"
  <2>1. Wrote \in BOOLEAN
      BY DEF Wrote
  <2> HIDE DEF Wrote
  <2> QED
      BY <2>1, Known DEF Dispatching
<1>2. dispatcher' = [dispatcher EXCEPT ![w] = d]
    BY Known DEF DispatchOpens
<1>3. UNCHANGED <<call, summaryJob, followup, timeline, redis, summarizer>> /\ Others'
    BY DEF DispatchOpens, IInv, Others
<1> QED
    BY <1>1, <1>2, <1>3, Known, DispatcherMoves

LEMMA DispatchChecksKeeps ==
    ASSUME IInv, NEW w \in Dispatchers, NEW beyond \in BOOLEAN, DispatchChecks(w, beyond)
    PROVE  IInv'
<1> DEFINE failing == [dispatcher[w] EXCEPT !.at = "failing"]
<1> DEFINE sequence == [dispatcher[w] EXCEPT !.at = "sequence"]
<1> DEFINE closed == [Released(followup) EXCEPT !.status = "pending", !.wait = TRUE]
<1>1. UNCHANGED <<call, summaryJob, timeline, redis, summarizer>> /\ Others' /\ CallFree
    BY DEF DispatchChecks, IInv, Others
<1>2. \/ ~Mine(followup, w) /\ followup' = followup /\ dispatcher' = [dispatcher EXCEPT ![w] = DispatcherRests]
      \/ followup' = followup /\ dispatcher' = [dispatcher EXCEPT ![w] = failing]
      \/ /\ Mine(followup, w) /\ followup' \in {Cancelled(followup), closed}
         /\ dispatcher' = [dispatcher EXCEPT ![w] = DispatcherRests]
      \/ Mine(followup, w) /\ followup' = followup /\ dispatcher' = [dispatcher EXCEPT ![w] = sequence]
  <2>1. dispatcher \in [Dispatchers -> Dispatching]
      BY Known
  <2> QED
      BY <2>1 DEF DispatchChecks
<1>3. CASE followup' = followup /\ dispatcher' \in {[dispatcher EXCEPT ![w] = DispatcherRests], [dispatcher EXCEPT ![w] = failing]}
  <2>1. failing \in Dispatching /\ failing.at = "failing"
      BY Known, GoesOn
  <2> QED
      BY <1>1, <1>3, <2>1, RestsTyped, Known, DispatcherMoves
<1>4. CASE /\ Mine(followup, w) /\ followup' \in {Cancelled(followup), closed}
           /\ dispatcher' = [dispatcher EXCEPT ![w] = DispatcherRests]
  <2>1. JobOK(followup', call.status = "live", call.deleted)
      BY <1>4, MineChanges
  <2>2. followup'.message = followup.message
      BY <1>4, Known, MessageStays
  <2> QED
      BY <1>1, <1>4, <2>1, <2>2, RestsTyped, DispatcherMoves
<1>5. CASE Mine(followup, w) /\ followup' = followup /\ dispatcher' = [dispatcher EXCEPT ![w] = sequence]
  <2>1. sequence \in Dispatching /\ sequence.at = "sequence"
      BY Known, GoesOn
  <2>2. /\ dispatcher' \in [Dispatchers -> Dispatching] /\ dispatcher'[w] = sequence
        /\ \A v \in Dispatchers \ {w} : dispatcher'[v] = dispatcher[v]
      BY <1>5, <2>1, OneDispatcher, Known
  <2>3. DispatcherOK(dispatcher'[w], followup', w)
      BY <1>5, <2>1, <2>2 DEF DispatcherOK
  <2>4. Steady
      BY <1>1, <1>5, <2>2, <2>3, Known DEF Steady, IInv, Crew
  <2>5. SourceOK(call, summaryJob)'
      BY <1>1 DEF IInv, Source
  <2> QED
      BY <1>1, <2>4, <2>5, SteadyKeeps
<1> QED
    BY <1>2, <1>3, <1>4, <1>5

\* With the sequence row and no text of the user, the message is the first of its kind.
LEMMA DispatchSendsKeeps == ASSUME IInv, NEW w \in Dispatchers, DispatchSends(w) PROVE IInv'
<1> DEFINE failing == [dispatcher[w] EXCEPT !.at = "failing"]
<1> DEFINE account == [dispatcher[w] EXCEPT !.at = "account"]
<1>1. /\ UNCHANGED <<call, summaryJob, redis, summarizer>> /\ Others'
      /\ dispatcher[w].at = "sequence" /\ Mine(followup, w)
    BY Known DEF DispatchSends, IInv, Others, DispatcherOK, Mishap, Smooth
<1>2. /\ failing \in Dispatching /\ failing.at = "failing"
      /\ account \in Dispatching /\ account.at = "account"
    BY Known, GoesOn
\* Nobody else is on his way: he would have the job as well.
<1>3. \A v \in Dispatchers \ {w} : dispatcher[v].at # "sequence"
    BY <1>1 DEF IInv, Crew, DispatcherOK, Mine
<1>4. CASE followup' = followup /\ timeline' = timeline /\ dispatcher' = [dispatcher EXCEPT ![w] = failing]
    BY <1>1, <1>2, <1>4, Known, DispatcherMoves
<1>5. CASE /\ followup' = Cancelled(followup) /\ timeline' = timeline
           /\ dispatcher' = [dispatcher EXCEPT ![w] = DispatcherRests]
  <2>1. JobOK(followup', call.status = "live", call.deleted) /\ followup'.message = followup.message
      BY <1>1, <1>5, Known, MineChanges, MessageStays
  <2>2. /\ dispatcher' \in [Dispatchers -> Dispatching] /\ dispatcher'[w] = DispatcherRests
        /\ \A v \in Dispatchers \ {w} : dispatcher'[v] = dispatcher[v]
      BY <1>5, RestsTyped, OneDispatcher, Known
  <2>3. Crew'
    <3>1. ASSUME NEW v \in Dispatchers PROVE DispatcherOK(dispatcher'[v], followup', v)
        BY <1>3, <2>1, <2>2, RestsTyped DEF IInv, Crew, DispatcherOK
    <3> QED
        BY <1>1, <2>2, <3>1 DEF IInv, Crew
  <2>4. Story' /\ Counted' /\ Job' /\ Source'
      BY <1>1, <1>5, <2>1 DEF IInv, Story, NeverAfterUserWrote, Counted, Job, Source
  <2> QED
      BY <1>1, <2>3, <2>4 DEF IInv
<1>6. CASE /\ followup' = Sent(followup) /\ timeline' = Append(timeline, "message") /\ ~Wrote
           /\ dispatcher' \in {[dispatcher EXCEPT ![w] = failing], [dispatcher EXCEPT ![w] = account]}
  <2>1. JobOK(followup', call.status = "live", call.deleted) /\ followup'.message
      BY <1>1, <1>6, MineChanges
  <2>2. /\ dispatcher' \in [Dispatchers -> Dispatching] /\ dispatcher'[w] \in {failing, account}
        /\ \A v \in Dispatchers \ {w} : dispatcher'[v] = dispatcher[v]
      BY <1>2, <1>6, OneDispatcher, Known
  <2>3. Crew'
    <3>1. ASSUME NEW v \in Dispatchers PROVE DispatcherOK(dispatcher'[v], followup', v)
        BY <1>2, <1>3, <2>1, <2>2 DEF IInv, Crew, DispatcherOK
    <3> QED
        BY <1>1, <2>2, <3>1 DEF IInv, Crew
  <2>4. ~followup.message
      BY <1>1, Known DEF JobOK, Mine
  <2>5. timeline \in Seq({"text", "message"}) /\ \A i \in DOMAIN timeline : timeline[i] \notin {"text", "message"}
      BY <1>6, <2>4 DEF IInv, Story, Wrote
  <2>6. timeline' \in Seq({"text", "message"}) /\ DOMAIN timeline' = 1..(Len(timeline) + 1)
        /\ timeline'[Len(timeline) + 1] = "message"
        /\ \A i \in 1..Len(timeline) : timeline'[i] = timeline[i]
      BY <1>6, <2>5
  <2>7. Len(timeline) \in Nat /\ DOMAIN timeline = 1..Len(timeline)
      BY <2>5
  <2>8. \A i \in DOMAIN timeline' : timeline'[i] \in {"text", "message"} => i = Len(timeline) + 1
      BY <2>5, <2>6, <2>7
  <2>9. Story'
      BY <2>1, <2>6, <2>7, <2>8 DEF Story, NeverAfterUserWrote
  <2>10. Counted' /\ Job' /\ Source'
      BY <1>1, <2>1 DEF IInv, Counted, Job, Source
  <2> QED
      BY <1>1, <2>3, <2>9, <2>10 DEF IInv
<1> QED
  <2>1. dispatcher \in [Dispatchers -> Dispatching]
      BY Known
  <2>2. Verdict(w, WroteByNow(w)) = "go" => ~Wrote
      BY DEF Verdict, WroteByNow
  <2>3. \/ /\ followup' = Cancelled(followup) /\ timeline' = timeline
           /\ dispatcher' = [dispatcher EXCEPT ![w] = DispatcherRests]
        \/ followup' = followup /\ timeline' = timeline /\ dispatcher' = [dispatcher EXCEPT ![w] = failing]
        \/ /\ followup' = Sent(followup) /\ timeline' = Append(timeline, "message") /\ ~Wrote
           /\ dispatcher' \in {[dispatcher EXCEPT ![w] = failing], [dispatcher EXCEPT ![w] = account]}
      BY <2>1, <2>2 DEF DispatchSends
  <2> QED
      BY <1>4, <1>5, <1>6, <2>3

LEMMA DispatchFailsKeeps ==
    ASSUME IInv, NEW w \in Dispatchers, DispatchFails(w) \/ DispatchRollsBack(w)
    PROVE  IInv'
<1> DEFINE failing == [dispatcher[w] EXCEPT !.at = "failing"]
<1> DEFINE again == [Released(followup) EXCEPT !.status = "pending", !.wait = TRUE]
<1>1. UNCHANGED <<call, summaryJob, timeline, redis, summarizer>> /\ Others'
    BY Known DEF DispatchFails, DispatchRollsBack, IInv, Others, Mishap
<1>2. CASE DispatchRollsBack(w)
  <2>1. failing \in Dispatching /\ failing.at = "failing"
      BY Known, GoesOn
  <2>2. followup' = followup /\ dispatcher' = [dispatcher EXCEPT ![w] = failing]
      BY <1>2, Known DEF DispatchRollsBack
  <2> QED
      BY <1>1, <2>1, <2>2, Known, DispatcherMoves
<1>3. CASE DispatchFails(w)
  <2>1. CallFree /\ dispatcher' = [dispatcher EXCEPT ![w] = DispatcherRests]
        /\ followup' = IF Mine(followup, w) THEN again ELSE followup
      BY <1>3 DEF DispatchFails
  <2>2. JobOK(followup', call.status = "live", call.deleted) /\ followup'.message = followup.message
      BY <2>1, Known, MineChanges, MessageStays
  <2> QED
      BY <1>1, <2>1, <2>2, RestsTyped, DispatcherMoves
<1> QED
    BY <1>2, <1>3

\* The counter is called for a message that is there, and counts it once.
LEMMA AccountReadsKeeps == ASSUME IInv, NEW w \in Dispatchers, AccountReads(w) PROVE IInv'
<1> DEFINE count == [dispatcher[w] EXCEPT !.at = "count"]
<1>1. UNCHANGED <<call, summaryJob, followup, timeline, redis, summarizer>> /\ Others'
    BY DEF AccountReads, IInv, Others
<1>2. CASE Counting(w)
  <2>1. count \in Dispatching /\ count.at = "count" /\ dispatcher' = [dispatcher EXCEPT ![w] = count]
      BY <1>2, Known, GoesOn DEF AccountReads
  <2>2. /\ dispatcher' \in [Dispatchers -> Dispatching] /\ dispatcher'[w] = count
        /\ \A v \in Dispatchers \ {w} : dispatcher'[v] = dispatcher[v]
      BY <2>1, OneDispatcher, Known
  <2>3. DispatcherOK(dispatcher'[w], followup', w)
      BY <1>1, <1>2, <2>1, <2>2, Known DEF DispatcherOK, Counting, JobOK
  <2>4. Steady
      BY <1>1, <2>2, <2>3, Known DEF Steady, IInv, Crew
  <2>5. SourceOK(call, summaryJob)'
      BY <1>1 DEF IInv, Source
  <2> QED
      BY <1>1, <2>4, <2>5, SteadyKeeps
<1>3. CASE ~Counting(w)
    BY <1>1, <1>3, Known, RestsTyped, DispatcherMoves DEF AccountReads
<1> QED
    BY <1>2, <1>3

LEMMA CountsKeeps == ASSUME IInv, NEW w \in Dispatchers, Counts(w) PROVE IInv'
<1>1. UNCHANGED <<call, summaryJob, followup, timeline, summarizer>> /\ Others'
    BY Known DEF Counts, IInv, Others, Mishap, Smooth
<1>2. followup.message
    BY Known DEF Counts, DispatcherOK
<1>3. PICK d \in Dispatching : dispatcher' = [dispatcher EXCEPT ![w] = d] /\ d.at = "counted"
  <2>1. \A ok \in BOOLEAN : /\ [dispatcher[w] EXCEPT !.at = "counted", !.ok = ok] \in Dispatching
                            /\ [dispatcher[w] EXCEPT !.at = "counted", !.ok = ok].at = "counted"
      BY Known DEF Dispatching
  <2>2. \E ok \in BOOLEAN : dispatcher' = [dispatcher EXCEPT ![w] = [dispatcher[w] EXCEPT !.at = "counted", !.ok = ok]]
      BY Known DEF Counts
  <2> QED
      BY <2>1, <2>2
<1>4. Counted'
  <2>1. redis' \in {redis, CountOnce(redis)}
      BY DEF Counts
  <2>2. redis \in [count : Nat, marked : BOOLEAN] /\ redis.count = IF redis.marked THEN 1 ELSE 0
      BY DEF IInv, Counted
  <2>3. /\ CountOnce(redis) \in [count : Nat, marked : BOOLEAN]
        /\ CountOnce(redis).count = IF CountOnce(redis).marked THEN 1 ELSE 0
      BY <2>2 DEF CountOnce
  <2> QED
      BY <1>1, <1>2, <2>1, <2>2, <2>3 DEF Counted
<1>5. /\ dispatcher' \in [Dispatchers -> Dispatching] /\ dispatcher'[w].at = "counted"
      /\ \A v \in Dispatchers \ {w} : dispatcher'[v] = dispatcher[v]
    BY <1>3, OneDispatcher, Known
<1>6. Crew'
  <2>1. ASSUME NEW v \in Dispatchers PROVE DispatcherOK(dispatcher'[v], followup', v)
      BY <1>1, <1>2, <1>5 DEF IInv, Crew, DispatcherOK
  <2> QED
      BY <1>1, <1>5, <2>1 DEF IInv, Crew
<1> QED
    BY <1>1, <1>4, <1>6 DEF IInv, Job, Source, Story, NeverAfterUserWrote

LEMMA AccountsKeeps == ASSUME IInv, NEW w \in Dispatchers, Accounts(w) PROVE IInv'
<1> DEFINE ok == dispatcher[w].ok
<1>1. UNCHANGED <<call, summaryJob, timeline, redis, summarizer>> /\ Others' /\ CallFree
      /\ dispatcher' = [dispatcher EXCEPT ![w] = DispatcherRests]
    BY DEF Accounts, IInv, Others
<1>2. ok \in BOOLEAN
    BY Known DEF Dispatching
<1>3. followup' = followup \/ followup' = [Released(followup) EXCEPT !.counting = ~ok, !.wait = ~ok]
    BY DEF Accounts
<1>4. JobOK(followup', call.status = "live", call.deleted) /\ followup'.message = followup.message
  <2> DEFINE live == call.status = "live"
  <2> DEFINE no == ~ok
  <2>1. live \in BOOLEAN /\ no \in BOOLEAN /\ JobOK(followup, live, call.deleted)
        /\ followup' \in {followup, [Released(followup) EXCEPT !.counting = no, !.wait = no]}
      BY <1>2, <1>3, Known
  <2>2. followup \in FollowupJob
      BY Known
  <2> HIDE DEF live, no, ok
  <2>3. JobOK([Released(followup) EXCEPT !.counting = no, !.wait = no], live, call.deleted)
      BY <2>1, <2>2 DEF JobOK, Released, FollowupJob
  <2>4. [Released(followup) EXCEPT !.counting = no, !.wait = no].message = followup.message
      BY <2>1, <2>2, MessageStays
  <2> QED
      BY <2>1, <2>3, <2>4 DEF live
<1> QED
    BY <1>1, <1>4, RestsTyped, DispatcherMoves

-----------------------------------------------------------------------------
(* The user, administrators, time and faults *)

\* The user's text comes after the message, if there is one.
LEMMA TextStoredKeeps == ASSUME IInv, TextStored PROVE IInv'
<1>1. /\ UNCHANGED <<call, summaryJob, followup, redis, summarizer, dispatcher>>
      /\ timeline' = Append(timeline, "text") /\ Others'
    BY DEF TextStored, IInv, Others
<1>2. timeline \in Seq({"text", "message"}) /\ Len(timeline) \in Nat /\ DOMAIN timeline = 1..Len(timeline)
    BY DEF IInv, Story
<1>3. /\ timeline' \in Seq({"text", "message"}) /\ DOMAIN timeline' = 1..(Len(timeline) + 1)
      /\ timeline'[Len(timeline) + 1] = "text"
      /\ \A i \in 1..Len(timeline) : timeline'[i] = timeline[i]
    BY <1>1, <1>2
<1>4. \A j \in DOMAIN timeline' : timeline'[j] = "message" => j \in DOMAIN timeline /\ timeline[j] = "message"
    BY <1>2, <1>3
<1>5. NeverAfterUserWrote'
  <2>1. ASSUME NEW i \in DOMAIN timeline', NEW j \in DOMAIN timeline',
               timeline'[i] = "text", timeline'[j] = "message"
        PROVE  j < i
    <3>1. j \in DOMAIN timeline /\ timeline[j] = "message"
        BY <1>4, <2>1
    <3>2. CASE i \in DOMAIN timeline
        BY <1>2, <1>3, <2>1, <3>1, <3>2 DEF IInv, Story, NeverAfterUserWrote
    <3>3. CASE i = Len(timeline) + 1
        BY <1>2, <3>1, <3>3
    <3> QED
        BY <1>2, <1>3, <3>2, <3>3
  <2> QED
      BY <2>1 DEF NeverAfterUserWrote
<1>6. Story'
  <2>1. \A i \in DOMAIN timeline : i \in DOMAIN timeline' /\ timeline'[i] = timeline[i]
      BY <1>2, <1>3
  <2> QED
      BY <1>1, <1>3, <1>4, <1>5, <2>1 DEF IInv, Story
<1> QED
    BY <1>1, <1>6 DEF IInv, Job, Source, Crew, Counted

\* A sweep closes the jobs and clears the text of the message.
LEMMA SweepsKeep == ASSUME IInv, Deletes \/ SweepsExpired PROVE IInv'
<1>1. /\ CallFree /\ UNCHANGED <<timeline, redis, summarizer, dispatcher>> /\ Others'
      /\ followup' = Swept(followup)
      /\ summaryJob' = IF summaryJob.status \in Ongoing THEN SummaryOver("cancelled") ELSE summaryJob
    BY DEF Deletes, SweepsExpired, Sweeps, SweptStatus, IInv, Others
<1>2. call \in CallRow /\ summaryJob \in SummaryJob /\ followup \in FollowupJob
    BY DEF IInv, Job, JobOK, Source, SourceOK
<1>3. /\ call' \in CallRow /\ call'.status = call.status
      /\ \/ call'.deleted /\ ~call'.text
         \/ call' = call
    BY <1>2 DEF Deletes, SweepsExpired, CallRow
<1>4. JobOK(followup', call'.status = "live", call'.deleted) /\ followup'.message = followup.message
  <2> DEFINE live == call.status = "live"
  <2>1. live \in BOOLEAN /\ call.deleted \in BOOLEAN /\ JobOK(followup, live, call.deleted)
      BY <1>2 DEF IInv, Job, CallRow
  <2> HIDE DEF live
  <2>2. JobOK(followup', live, TRUE)
      BY <1>1, <1>2, <2>1 DEF JobOK, Swept, SweptStatus, Released, FollowupJob, Ongoing
  <2>3. JobOK(followup', live, call'.deleted)
      BY <1>2, <1>3, <2>2 DEF JobOK, CallRow
  <2>4. followup'.message = followup.message
      BY <1>1, <1>2 DEF Swept, Released, FollowupJob
  <2> QED
      BY <1>3, <2>3, <2>4 DEF live
<1>5. SourceOK(call, summaryJob)'
    BY <1>1, <1>2, <1>3, SummaryJobs DEF IInv, Source, SourceOK, Ongoing
<1>6. Steady
    BY <1>1, <1>4 DEF Steady, IInv, Crew
<1> QED
    BY <1>1, <1>5, <1>6, SteadyKeeps

\* Time passes for the job of the message.
LEMMA FollowupTimeKeeps == ASSUME IInv, FollowupFallsDue \/ FollowupLeaseEnds PROVE IInv'
<1>1. followup \in FollowupJob /\ MaxMishaps \in Nat
    BY FollowupAssumption DEF IInv, Job, JobOK
<1>2. UNCHANGED <<call, summaryJob, timeline, redis, summarizer, dispatcher>> /\ Others'
    BY <1>1 DEF FollowupFallsDue, FollowupLeaseEnds, IInv, Others, Mishap, Smooth
<1>3. /\ followup' \in {[followup EXCEPT !.wait = FALSE], [followup EXCEPT !.lease = FALSE]}
    BY DEF FollowupFallsDue, FollowupLeaseEnds
<1>4. /\ followup' \in FollowupJob /\ followup'.message = followup.message
      /\ followup'.status = followup.status /\ followup'.owner = followup.owner
      /\ followup'.content = followup.content
    BY <1>1, <1>3 DEF FollowupJob
<1>5. JobOK(followup', call'.status = "live", call'.deleted)
    BY <1>2, <1>4 DEF IInv, Job, JobOK
<1>6. Steady
    BY <1>2, <1>4, <1>5 DEF Steady, IInv, Crew
<1>7. SourceOK(call, summaryJob)'
    BY <1>2 DEF IInv, Source
<1> QED
    BY <1>2, <1>6, <1>7, SteadyKeeps

LEMMA SummaryLeaseEndsKeeps == ASSUME IInv, SummaryLeaseEnds PROVE IInv'
<1>1. summaryJob \in SummaryJob /\ MaxMishaps \in Nat
    BY FollowupAssumption DEF IInv, Source, SourceOK
<1>2. UNCHANGED <<call, followup, timeline, redis, summarizer, dispatcher>> /\ Others'
    BY <1>1 DEF SummaryLeaseEnds, IInv, Others, Mishap, Smooth
<1>3. summaryJob' \in SummaryJob /\ summaryJob'.status = summaryJob.status
    BY <1>1 DEF SummaryLeaseEnds, SummaryJob
<1>4. SourceOK(call, summaryJob)'
    BY <1>2, <1>3 DEF IInv, Source, SourceOK
<1> QED
    BY <1>2, <1>4, AwayFromMessage DEF IInv, Crew

LEMMA WorkerDiesKeeps == ASSUME IInv, WorkerDies PROVE IInv'
<1>1. UNCHANGED <<call, summaryJob, followup, timeline, redis>> /\ Others'
    BY FollowupAssumption DEF WorkerDies, IInv, Others, Mishap
<1>2. CASE \E w \in Dispatchers : dispatcher' = [dispatcher EXCEPT ![w] = DispatcherRests] /\ summarizer' = summarizer
    BY <1>1, <1>2, Known, RestsTyped, DispatcherMoves
<1>3. CASE \E w \in Summarizers : summarizer' = [summarizer EXCEPT ![w] = SummarizerRests] /\ dispatcher' = dispatcher
  <2>1. summarizer' \in [Summarizers -> Summarizing]
      BY <1>3, RestsTyped DEF IInv, Crew
  <2> QED
      BY <1>1, <1>3, <2>1, AwayFromMessage DEF IInv, Source
<1> QED
    BY <1>2, <1>3 DEF WorkerDies

\* The rest touches neither jobs nor workers.
LEMMA WorldKeeps ==
    ASSUME IInv, \/ TextBegins \/ LaterCallTalks \/ SourceExpires \/ WindowTurns \/ DeadlinePasses
    PROVE  IInv'
<1>1. UNCHANGED <<summaryJob, followup, timeline, redis, summarizer, dispatcher>>
    BY DEF TextBegins, LaterCallTalks, SourceExpires, WindowTurns, DeadlinePasses
<1>2. Others'
  <2>1. later' \in 0..MaxLater /\ mishaps' \in 0..MaxMishaps
      BY FollowupAssumption DEF TextBegins, LaterCallTalks, SourceExpires, WindowTurns, DeadlinePasses, IInv, Others
  <2>2. storing' \in BOOLEAN /\ window' \in BOOLEAN /\ overdue' \in BOOLEAN
      BY DEF TextBegins, LaterCallTalks, SourceExpires, WindowTurns, DeadlinePasses, IInv, Others
  <2> QED
      BY <2>1, <2>2 DEF Others
<1>3. /\ call' \in CallRow /\ call'.status = call.status /\ call'.deleted = call.deleted
      /\ call'.text = call.text
    BY DEF TextBegins, LaterCallTalks, SourceExpires, WindowTurns, DeadlinePasses, IInv, Source, SourceOK, CallRow
<1>4. SourceOK(call, summaryJob)'
    BY <1>1, <1>3 DEF IInv, Source, SourceOK
<1> QED
    BY <1>1, <1>2, <1>3, <1>4, AwayFromMessage DEF IInv, Crew

-----------------------------------------------------------------------------
(* The invariant *)

LEMMA InitHolds == ASSUME FollowInit PROVE IInv
<1>1. Job /\ Source
    BY RestsTyped DEF FollowInit, Job, JobOK, Source, SourceOK, CallRow, NoFollowup, NoSummaryJob, Ongoing
<1>2. Crew
    BY RestsTyped DEF FollowInit, Crew, DispatcherOK
<1>3. Story /\ Counted
    BY DEF FollowInit, Story, Counted, NeverAfterUserWrote, NoFollowup
<1>4. Others
  <2>1. later \in 0..MaxLater /\ mishaps \in 0..MaxMishaps
      BY FollowupAssumption DEF FollowInit
  <2>2. storing \in BOOLEAN /\ window \in BOOLEAN /\ overdue \in BOOLEAN
      BY DEF FollowInit
  <2> QED
      BY <2>1, <2>2 DEF Others
<1> QED
    BY <1>1, <1>2, <1>3, <1>4 DEF IInv

LEMMA NextKeeps == ASSUME IInv, [FollowNext]_followVars PROVE IInv'
<1>1. CASE UNCHANGED followVars
    BY <1>1 DEF followVars, IInv, Job, Source, Crew, Story, Counted, Others, NeverAfterUserWrote,
       SourceOK, DispatcherOK, Mine
<1>2. CASE FollowNext
  <2>1. ASSUME NEW w \in Summarizers, Summarizes(w) \/ SummaryRollsBack(w) PROVE IInv'
      BY <2>1, SummaryKeeps, SummarySavesKeeps DEF Summarizes
  <2>2. ASSUME NEW w \in Dispatchers, Dispatches(w) \/ DispatchRollsBack(w) PROVE IInv'
      BY <2>2, DispatchClaimsKeeps, PreparesTopicKeeps, DispatchOpensKeeps, DispatchChecksKeeps,
         DispatchSendsKeeps, DispatchFailsKeeps, AccountReadsKeeps, CountsKeeps, AccountsKeeps
         DEF Dispatches
  <2> QED
      BY <1>2, <2>1, <2>2, SummaryQueuedKeeps, CallEndsKeeps, TextStoredKeeps, SweepsKeep, FollowupTimeKeeps,
         SummaryLeaseEndsKeeps, WorkerDiesKeeps, WorldKeeps DEF FollowNext
<1> QED
    BY <1>1, <1>2

\* The invariant holds in every reachable state.
THEOREM Invariant == FollowSpec => []IInv
    BY InitHolds, NextKeeps, PTL DEF FollowSpec

-----------------------------------------------------------------------------
(* Theorems *)

\* Every variable keeps its type, for any number of workers, texts and faults.
THEOREM FollowTypeCorrect == FollowSpec => []FollowTypeOK
<1>1. IInv => FollowTypeOK
    BY DEF IInv, Job, JobOK, Source, SourceOK, Crew, Story, Counted, Others, FollowTypeOK
<1> QED
    BY <1>1, Invariant, PTL

\* The message never comes after a text that the user wrote after the call: _stage_message
\* looks again behind the lock of the sequence row, and a worker that has lost the job
\* does not get there.
THEOREM NeverLate == FollowSpec => []NeverAfterUserWrote
<1>1. IInv => NeverAfterUserWrote
    BY DEF IInv, Story
<1> QED
    BY <1>1, Invariant, PTL

\* One message at most, and counted once, whatever workers die, commit without an answer
\* or lose their lease.
THEOREM SentOnce == FollowSpec => []SentAndCountedOnce
<1>1. IInv => SentAndCountedOnce
    BY DEF IInv, Story, Counted, SentAndCountedOnce
<1> QED
    BY <1>1, Invariant, PTL

\* A deleted call keeps no summary, no text of a message and no job that could bring
\* them back.
THEOREM DeletionHolds == FollowSpec => []DeletedKeepsNothing
<1>1. IInv => DeletedKeepsNothing
    BY DEF IInv, Job, JobOK, Source, SourceOK, DeletedKeepsNothing
<1> QED
    BY <1>1, Invariant, PTL
=============================================================================
