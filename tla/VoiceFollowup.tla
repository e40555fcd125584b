--------------------------- MODULE VoiceFollowup ---------------------------
(***************************************************************************)
(* What is done about a call after it: its summary (backend/services/      *)
(* realtime_voice_summary_job_service.py) and the message by which the      *)
(* companion comes back to it (realtime_voice_followup_job_service.py),     *)
(* with the sweep that deletes (realtime_voice_retention_service.py).  The  *)
(* message must not come after the user has written, nor twice, nor for a   *)
(* call that was deleted, and must be counted once.                         *)
(*                                                                         *)
(* One call.  Whoever changes its jobs holds the call's lock; only the      *)
(* transaction that sends holds it over several steps.  What the models     *)
(* answer is an input.                                                      *)
(***************************************************************************)
EXTENDS Naturals, Sequences

CONSTANTS
    Summarizers,    \* VoiceSummaryJobService.process under way at a time
    Dispatchers,    \* VoiceFollowupJobService.process under way at a time
    MaxTexts,       \* bound: texts the user writes after the call
    MaxLater,       \* bound: texts of later calls
    MaxMishaps      \* bound: failures, crashes, leases that run out, administrator's retries

Nobody == "nobody"
ASSUME FollowupAssumption ==
    /\ Nobody \notin Summarizers \cup Dispatchers
    /\ MaxTexts \in Nat /\ MaxLater \in Nat /\ MaxMishaps \in Nat

VARIABLES
    call,           \* the voice_call row
    summaryJob,     \* its voice_postprocess_job
    followup,       \* its voice_followup_job
    timeline,       \* since the end of the call: texts of the user, and the message
    storing,        \* a text of the user holds the timeline's sequence row
    later,          \* texts of calls after this one
    window,         \* the allowed window is open
    overdue,        \* latest_due_at has passed
    redis,          \* the counter of the day and the marker of the message
    summarizer, dispatcher,
    mishaps         \* bound

followVars == <<call, summaryJob, followup, timeline, storing, later, window, overdue,
                redis, summarizer, dispatcher, mishaps>>

CallRow ==
    [status : {"live", "ended", "missed"}, deleted : BOOLEAN, expired : BOOLEAN,
     summary : {"pending", "ready", "failed", "not_applicable"}, text : BOOLEAN]
SummaryJob ==
    [status : {"absent", "pending", "processing", "success", "failed", "cancelled"},
     owner : Summarizers \cup {Nobody}, lease : BOOLEAN]
FollowupJob ==
    [status : {"absent", "pending", "processing", "sent", "cancelled"},
     owner : Dispatchers \cup {Nobody}, lease : BOOLEAN,
     wait : BOOLEAN,        \* not before due_at, next_retry_at
     counting : BOOLEAN,    \* fail_reason count_pending
     content : BOOLEAN, message : BOOLEAN]
Summarizing == [at : {"idle", "model", "save", "fail"}, candidate : BOOLEAN]
Dispatching ==
    [at : {"idle", "topic", "dispatch", "open", "sequence", "failing", "account", "count", "counted"},
     topic : 0..MaxLater, continued : BOOLEAN, saw : BOOLEAN, ok : BOOLEAN]

NoSummaryJob == [status |-> "absent", owner |-> Nobody, lease |-> FALSE]
NoFollowup ==
    [status |-> "absent", owner |-> Nobody, lease |-> FALSE, wait |-> FALSE,
     counting |-> FALSE, content |-> FALSE, message |-> FALSE]
SummarizerRests == [at |-> "idle", candidate |-> FALSE]
DispatcherRests == [at |-> "idle", topic |-> 0, continued |-> FALSE, saw |-> FALSE, ok |-> FALSE]

FollowInit ==
    /\ call = [status |-> "live", deleted |-> FALSE, expired |-> FALSE,
               summary |-> "pending", text |-> FALSE]
    /\ summaryJob = NoSummaryJob /\ followup = NoFollowup
    /\ timeline = <<>> /\ storing = FALSE /\ later = 0
    /\ window \in BOOLEAN /\ overdue = FALSE
    /\ redis = [count |-> 0, marked |-> FALSE]
    /\ summarizer = [w \in Summarizers |-> SummarizerRests]
    /\ dispatcher = [w \in Dispatchers |-> DispatcherRests]
    /\ mishaps = 0

Mishap == mishaps < MaxMishaps /\ mishaps' = mishaps + 1
Smooth == UNCHANGED mishaps

\* lock_call and _locked: a dispatcher on its way to the timeline has the call's lock.
CallFree == \A w \in Dispatchers : dispatcher[w].at # "sequence"

Ongoing == {"pending", "processing", "failed"}

FollowTypeOK ==
    /\ call \in CallRow /\ summaryJob \in SummaryJob /\ followup \in FollowupJob
    /\ timeline \in Seq({"text", "message"})
    /\ storing \in BOOLEAN /\ later \in 0..MaxLater
    /\ window \in BOOLEAN /\ overdue \in BOOLEAN
    /\ redis \in [count : Nat, marked : BOOLEAN]
    /\ summarizer \in [Summarizers -> Summarizing]
    /\ dispatcher \in [Dispatchers -> Dispatching] /\ mishaps \in 0..MaxMishaps

-----------------------------------------------------------------------------
(* The end of the call, and its summary *)

\* _stage_followup: the schedule may find no time for it.
Planned(fits) ==
    [NoFollowup EXCEPT !.status = IF fits THEN "pending" ELSE "cancelled",
                       !.wait = fits, !.content = TRUE]

\* The terminal transaction explains a missed call at once.
CallEnds(status, fits) ==
    /\ call.status = "live" /\ CallFree
    /\ call' = [call EXCEPT !.status = status,
                            !.summary = IF status = "missed" THEN "not_applicable" ELSE @]
    /\ followup' = IF status = "missed" /\ ~call.deleted THEN Planned(fits) ELSE followup
    /\ UNCHANGED <<summaryJob, timeline, storing, later, window, overdue, redis,
                   summarizer, dispatcher, mishaps>>

Summarizable(c) == c.status = "ended" /\ ~c.deleted

\* poll finds an ended call without a job.
SummaryEnqueued ==
    /\ summaryJob.status = "absent" /\ Summarizable(call) /\ CallFree
    /\ summaryJob' = [summaryJob EXCEPT !.status = "pending"]
    /\ UNCHANGED <<call, followup, timeline, storing, later, window, overdue, redis,
                   summarizer, dispatcher, mishaps>>

SummaryOver(status) == [summaryJob EXCEPT !.status = status, !.owner = Nobody, !.lease = FALSE]

\* Mutant: a job whose worker has died is left as it is.
SummaryWorkerGone_Never == FALSE

SummaryWorkerGone == summaryJob.status = "processing" /\ ~summaryJob.lease

\* process up to its first commit, when it does not take the job; the list that poll
\* read may be old.
SummarySettles(w, eligible) ==
    /\ summarizer[w].at = "idle" /\ CallFree
    /\ \/ /\ summaryJob.status # "absent" /\ call.deleted
          /\ summaryJob' = SummaryOver("cancelled") /\ UNCHANGED call
       \/ /\ SummaryWorkerGone /\ ~call.deleted
          /\ summaryJob' = SummaryOver("failed")
          /\ call' = [call EXCEPT !.summary = "failed"]
       \/ /\ summaryJob.status = "pending" /\ ~call.deleted /\ ~eligible
          /\ summaryJob' = SummaryOver("success")
          /\ call' = [call EXCEPT !.summary = "not_applicable"]
       \/ /\ summaryJob.status = "pending" /\ ~call.deleted /\ eligible /\ call.expired
          /\ summaryJob' = SummaryOver("cancelled")
          /\ call' = [call EXCEPT !.summary = "failed"]
    /\ UNCHANGED <<followup, timeline, storing, later, window, overdue, redis,
                   summarizer, dispatcher, mishaps>>

SummaryTaken(w) ==
    /\ summarizer[w].at = "idle" /\ CallFree
    /\ summaryJob.status = "pending" /\ ~call.deleted /\ ~call.expired
    /\ summaryJob' = [status |-> "processing", owner |-> w, lease |-> TRUE]
    /\ summarizer' = [summarizer EXCEPT ![w].at = "model"]
    /\ UNCHANGED <<call, followup, timeline, storing, later, window, overdue, redis,
                   dispatcher, mishaps>>

\* generate_summary, without any lock.
SummaryAnswers(w, candidate) ==
    /\ summarizer[w].at = "model"
    /\ \/ summarizer' = [summarizer EXCEPT ![w] = [at |-> "save", candidate |-> candidate]] /\ Smooth
       \/ summarizer' = [summarizer EXCEPT ![w].at = "fail"] /\ Mishap
    /\ UNCHANGED <<call, summaryJob, followup, timeline, storing, later, window, overdue,
                   redis, dispatcher>>

\* _owned_job
Owned(w) == summaryJob.status = "processing" /\ summaryJob.owner = w /\ summaryJob.lease

\* The summary and the job of the message are one transaction.
SummarySaves(w, fits) ==
    /\ summarizer[w].at = "save" /\ CallFree
    /\ \/ /\ ~Owned(w) /\ UNCHANGED <<call, summaryJob, followup>>
       \/ /\ Owned(w) /\ (call.deleted \/ call.expired)
          /\ summaryJob' = SummaryOver("cancelled")
          /\ call' = [call EXCEPT !.summary = IF call.deleted THEN @ ELSE "failed"]
          /\ UNCHANGED followup
       \/ /\ Owned(w) /\ ~call.deleted /\ ~call.expired
          /\ summaryJob' = SummaryOver("success")
          /\ call' = [call EXCEPT !.summary = "ready", !.text = TRUE]
          /\ followup' = IF summarizer[w].candidate /\ followup.status = "absent"
                         THEN Planned(fits) ELSE followup
    /\ summarizer' = [summarizer EXCEPT ![w] = SummarizerRests]
    /\ UNCHANGED <<timeline, storing, later, window, overdue, redis, dispatcher, mishaps>>

SummaryRollsBack(w) ==
    /\ summarizer[w].at = "save" /\ Owned(w) /\ Mishap
    /\ summarizer' = [summarizer EXCEPT ![w].at = "fail"]
    /\ UNCHANGED <<call, summaryJob, followup, timeline, storing, later, window, overdue,
                   redis, dispatcher>>

\* _failure
SummaryFails(w) ==
    /\ summarizer[w].at = "fail" /\ CallFree
    /\ IF Owned(w)
       THEN /\ summaryJob' = SummaryOver(IF call.deleted THEN "cancelled" ELSE "failed")
            /\ call' = [call EXCEPT !.summary = IF call.deleted THEN @ ELSE "failed"]
       ELSE UNCHANGED <<call, summaryJob>>
    /\ summarizer' = [summarizer EXCEPT ![w] = SummarizerRests]
    /\ UNCHANGED <<followup, timeline, storing, later, window, overdue, redis, dispatcher, mishaps>>

\* retry_summary_job
SummaryRetried ==
    /\ summaryJob.status = "failed" /\ ~call.deleted /\ ~call.expired /\ CallFree /\ Mishap
    /\ summaryJob' = SummaryOver("pending")
    /\ call' = [call EXCEPT !.summary = "pending"]
    /\ UNCHANGED <<followup, timeline, storing, later, window, overdue, redis,
                   summarizer, dispatcher>>

-----------------------------------------------------------------------------
(* The message *)

\* Mutant: whoever has begun goes on.
Mine_Unchecked(f, w) == TRUE

Mine(f, w) == f.status = "processing" /\ f.owner = w

Released(f) == [f EXCEPT !.owner = Nobody, !.lease = FALSE]
Cancelled(f) == [Released(f) EXCEPT !.status = "cancelled", !.counting = FALSE, !.wait = FALSE]

\* Mutant: a message that was sent is nobody's business any more.
Accounting_Never(f) == FALSE

\* The message is there, but may not have been counted.
Accounting(f) ==
    \/ f.status = "sent" /\ f.counting
    \/ f.status \in {"pending", "processing"} /\ f.message

\* process: the first transaction.
DispatchClaims(w) ==
    LET due == ~followup.wait /\ ~followup.lease
        taken == [followup EXCEPT !.owner = w, !.lease = TRUE] IN
    /\ dispatcher[w].at = "idle" /\ due /\ CallFree
    /\ \/ /\ Accounting(followup)
          /\ followup' = [taken EXCEPT !.status = "sent", !.counting = TRUE]
          /\ dispatcher' = [dispatcher EXCEPT ![w] = [DispatcherRests EXCEPT !.at = "account"]]
       \/ /\ ~Accounting(followup) /\ followup.status \in {"pending", "processing"}
          /\ followup' = [taken EXCEPT !.status = "processing"]
          /\ dispatcher' = [dispatcher EXCEPT ![w] = [DispatcherRests EXCEPT !.at = "topic"]]
    /\ UNCHANGED <<call, summaryJob, timeline, storing, later, window, overdue, redis,
                   summarizer, mishaps>>

\* _prepare_topic: a model says whether the user has since talked about it, in the later
\* texts that are read here.
PreparesTopic(w, continued) ==
    LET asked == /\ Mine(followup, w) /\ ~call.deleted /\ ~call.expired
                 /\ ~overdue /\ window /\ later > 0 IN
    /\ dispatcher[w].at = "topic"
    /\ \/ /\ dispatcher' = [dispatcher EXCEPT ![w].at = "dispatch",
                                ![w].topic = IF asked THEN later ELSE 0,
                                ![w].continued = asked /\ continued]
          /\ Smooth
       \/ asked /\ dispatcher' = [dispatcher EXCEPT ![w].at = "failing"] /\ Mishap
    /\ UNCHANGED <<call, summaryJob, followup, timeline, storing, later, window, overdue,
                   redis, summarizer>>

Wrote == \E i \in DOMAIN timeline : timeline[i] = "text"

\* The second transaction begins: its plain reads will see the timeline as it is now.
DispatchOpens(w) ==
    /\ dispatcher[w].at = "dispatch"
    /\ dispatcher' = [dispatcher EXCEPT ![w].at = "open", ![w].saw = Wrote]
    /\ UNCHANGED <<call, summaryJob, followup, timeline, storing, later, window, overdue,
                   redis, summarizer, mishaps>>

SourceGone == call.deleted \/ call.expired \/ overdue \/ ~followup.content

\* _ineligible and _next_window; wrote says whether the user is seen to have written.
Verdict(w, wrote) ==
    IF SourceGone \/ wrote THEN "cancel"
    ELSE IF ~window THEN "closed"
    ELSE IF later > 0 /\ dispatcher[w].topic # later THEN "fail"
    ELSE IF later > 0 /\ dispatcher[w].continued THEN "cancel"
    ELSE "go"

\* process from _locked to the first check, and the quota of the day, which may be used
\* up; who goes on keeps the locks.
DispatchChecks(w, beyond) ==
    LET verdict == Verdict(w, dispatcher[w].saw)
        ends(f) == followup' = f /\ dispatcher' = [dispatcher EXCEPT ![w] = DispatcherRests]
        moves(at) == dispatcher' = [dispatcher EXCEPT ![w].at = at] /\ UNCHANGED followup IN
    /\ dispatcher[w].at = "open" /\ CallFree
    /\ \/ ~Mine(followup, w) /\ ends(followup)
       \/ /\ Mine(followup, w)
          /\ \/ ~followup.lease /\ moves("failing")
             \/ followup.lease /\ verdict = "cancel" /\ ends(Cancelled(followup))
             \/ /\ followup.lease /\ verdict = "closed"
                /\ ends(IF beyond THEN Cancelled(followup)
                        ELSE [Released(followup) EXCEPT !.status = "pending", !.wait = TRUE])
             \/ followup.lease /\ verdict = "fail" /\ moves("failing")
             \/ followup.lease /\ verdict = "go" /\ (moves("sequence") \/ ends(Cancelled(followup)))
    /\ UNCHANGED <<call, summaryJob, timeline, storing, later, window, overdue, redis,
                   summarizer, mishaps>>

\* Mutant: the second look is a plain read.
WroteByNow_Snapshot(w) == dispatcher[w].saw

WroteByNow(w) == Wrote

Sent(f) == [f EXCEPT !.status = "sent", !.message = TRUE, !.counting = TRUE, !.wait = FALSE]

\* _stage_message: with the sequence row, after whoever held it, everything is looked at
\* again; and the commit.
DispatchSends(w) ==
    LET verdict == Verdict(w, WroteByNow(w)) IN
    /\ dispatcher[w].at = "sequence" /\ ~storing
    /\ \/ /\ verdict = "cancel"
          /\ followup' = Cancelled(followup)
          /\ dispatcher' = [dispatcher EXCEPT ![w] = DispatcherRests]
          /\ UNCHANGED timeline /\ Smooth
       \/ /\ verdict \in {"closed", "fail"} \/ (verdict = "go" /\ ~followup.lease)
          /\ dispatcher' = [dispatcher EXCEPT ![w].at = "failing"]
          /\ UNCHANGED <<followup, timeline>> /\ Smooth
       \/ /\ verdict = "go" /\ followup.lease
          /\ followup' = Sent(followup) /\ timeline' = Append(timeline, "message")
          /\ \/ dispatcher' = [dispatcher EXCEPT ![w].at = "account"] /\ Smooth
             \/ dispatcher' = [dispatcher EXCEPT ![w].at = "failing"] /\ Mishap
    /\ UNCHANGED <<call, summaryJob, storing, later, window, overdue, redis, summarizer>>

\* The transaction that sends fails and rolls back.
DispatchRollsBack(w) ==
    /\ dispatcher[w].at = "sequence" /\ Mishap
    /\ dispatcher' = [dispatcher EXCEPT ![w].at = "failing"]
    /\ UNCHANGED <<call, summaryJob, followup, timeline, storing, later, window, overdue,
                   redis, summarizer>>

\* _failure: another time, if it is still this worker's.
DispatchFails(w) ==
    /\ dispatcher[w].at = "failing" /\ CallFree
    /\ followup' = IF Mine(followup, w)
                   THEN [Released(followup) EXCEPT !.status = "pending", !.wait = TRUE]
                   ELSE followup
    /\ dispatcher' = [dispatcher EXCEPT ![w] = DispatcherRests]
    /\ UNCHANGED <<call, summaryJob, timeline, storing, later, window, overdue, redis,
                   summarizer, mishaps>>

\* _account
Counting(w) == followup.status = "sent" /\ followup.owner = w

AccountReads(w) ==
    /\ dispatcher[w].at = "account" /\ CallFree
    /\ dispatcher' = IF Counting(w) THEN [dispatcher EXCEPT ![w].at = "count"]
                     ELSE [dispatcher EXCEPT ![w] = DispatcherRests]
    /\ UNCHANGED <<call, summaryJob, followup, timeline, storing, later, window, overdue,
                   redis, summarizer, mishaps>>

\* Mutant: every call of the counter counts.
CountOnce_Unmarked(r) == [count |-> r.count + 1, marked |-> TRUE]

\* COUNT_ONCE_LUA
CountOnce(r) == IF r.marked THEN r ELSE [count |-> r.count + 1, marked |-> TRUE]

Counts(w) ==
    /\ dispatcher[w].at = "count"
    /\ \/ /\ redis' = CountOnce(redis) /\ Smooth
          /\ dispatcher' = [dispatcher EXCEPT ![w].at = "counted", ![w].ok = TRUE]
       \/ /\ redis' \in {redis, CountOnce(redis)} /\ Mishap
          /\ dispatcher' = [dispatcher EXCEPT ![w].at = "counted", ![w].ok = FALSE]
    /\ UNCHANGED <<call, summaryJob, followup, timeline, storing, later, window, overdue, summarizer>>

Accounts(w) ==
    /\ dispatcher[w].at = "counted" /\ CallFree
    /\ followup' = IF Counting(w)
                   THEN [Released(followup) EXCEPT !.counting = ~dispatcher[w].ok,
                                                   !.wait = ~dispatcher[w].ok]
                   ELSE followup
    /\ dispatcher' = [dispatcher EXCEPT ![w] = DispatcherRests]
    /\ UNCHANGED <<call, summaryJob, timeline, storing, later, window, overdue, redis,
                   summarizer, mishaps>>

-----------------------------------------------------------------------------
(* The user, administrators, time and faults *)

Texts == Len(SelectSeq(timeline, LAMBDA e : e = "text"))

\* enqueue_send: the number first, which holds the row until the commit.
TextBegins ==
    /\ call.status # "live" /\ ~storing /\ Texts < MaxTexts
    /\ storing' = TRUE
    /\ UNCHANGED <<call, summaryJob, followup, timeline, later, window, overdue, redis,
                   summarizer, dispatcher, mishaps>>

TextStored ==
    /\ storing /\ storing' = FALSE
    /\ timeline' = Append(timeline, "text")
    /\ UNCHANGED <<call, summaryJob, followup, later, window, overdue, redis,
                   summarizer, dispatcher, mishaps>>

LaterCallTalks ==
    /\ call.status # "live" /\ later < MaxLater /\ later' = later + 1
    /\ UNCHANGED <<call, summaryJob, followup, timeline, storing, window, overdue, redis,
                   summarizer, dispatcher, mishaps>>

SweptStatus == Ongoing

\* _purge_call closes the jobs and clears the content.
Swept(f) ==
    LET g == [f EXCEPT !.content = FALSE] IN
    IF f.status \in SweptStatus THEN [Released(g) EXCEPT !.status = "cancelled", !.wait = FALSE] ELSE g

Sweeps ==
    /\ followup' = Swept(followup)
    /\ summaryJob' = IF summaryJob.status \in SweptStatus THEN SummaryOver("cancelled") ELSE summaryJob
    /\ UNCHANGED <<timeline, storing, later, window, overdue, redis, summarizer, dispatcher, mishaps>>

\* An administrator deletes the call, which may still be running.
Deletes ==
    /\ ~call.deleted /\ CallFree
    /\ call' = [call EXCEPT !.deleted = TRUE, !.text = FALSE]
    /\ Sweeps

SweepsExpired == call.expired /\ CallFree /\ UNCHANGED call /\ Sweeps

SourceExpires ==
    /\ call.status # "live" /\ ~call.expired /\ call' = [call EXCEPT !.expired = TRUE]
    /\ UNCHANGED <<summaryJob, followup, timeline, storing, later, window, overdue, redis,
                   summarizer, dispatcher, mishaps>>

WindowTurns ==
    /\ followup.status \in Ongoing /\ window' = ~window
    /\ UNCHANGED <<call, summaryJob, followup, timeline, storing, later, overdue, redis,
                   summarizer, dispatcher, mishaps>>

DeadlinePasses ==
    /\ followup.status \in Ongoing /\ ~overdue /\ overdue' = TRUE
    /\ UNCHANGED <<call, summaryJob, followup, timeline, storing, later, window, redis,
                   summarizer, dispatcher, mishaps>>

FollowupFallsDue ==
    /\ followup.wait /\ followup' = [followup EXCEPT !.wait = FALSE]
    /\ UNCHANGED <<call, summaryJob, timeline, storing, later, window, overdue, redis,
                   summarizer, dispatcher, mishaps>>

FollowupLeaseEnds ==
    /\ followup.lease /\ followup' = [followup EXCEPT !.lease = FALSE]
    /\ IF dispatcher[followup.owner].at # "idle" THEN Mishap ELSE Smooth
    /\ UNCHANGED <<call, summaryJob, timeline, storing, later, window, overdue, redis,
                   summarizer, dispatcher>>

SummaryLeaseEnds ==
    /\ summaryJob.lease /\ summaryJob' = [summaryJob EXCEPT !.lease = FALSE]
    /\ IF summarizer[summaryJob.owner].at # "idle" THEN Mishap ELSE Smooth
    /\ UNCHANGED <<call, followup, timeline, storing, later, window, overdue, redis,
                   summarizer, dispatcher>>

\* A process dies; its open transaction is rolled back.
WorkerDies ==
    /\ Mishap
    /\ \/ /\ \E w \in Dispatchers :
                /\ dispatcher[w].at # "idle"
                /\ dispatcher' = [dispatcher EXCEPT ![w] = DispatcherRests]
          /\ UNCHANGED summarizer
       \/ /\ \E w \in Summarizers :
                /\ summarizer[w].at # "idle"
                /\ summarizer' = [summarizer EXCEPT ![w] = SummarizerRests]
          /\ UNCHANGED dispatcher
    /\ UNCHANGED <<call, summaryJob, followup, timeline, storing, later, window, overdue, redis>>

-----------------------------------------------------------------------------
Summarizes(w) ==
    \/ \E eligible \in BOOLEAN : SummarySettles(w, eligible)
    \/ SummaryTaken(w) \/ SummaryFails(w)
    \/ \E candidate \in BOOLEAN : SummaryAnswers(w, candidate)
    \/ \E fits \in BOOLEAN : SummarySaves(w, fits)

Dispatches(w) ==
    \/ DispatchClaims(w) \/ DispatchOpens(w) \/ DispatchSends(w) \/ DispatchFails(w)
    \/ AccountReads(w) \/ Counts(w) \/ Accounts(w)
    \/ \E continued \in BOOLEAN : PreparesTopic(w, continued)
    \/ \E beyond \in BOOLEAN : DispatchChecks(w, beyond)

FollowNext ==
    \/ \E status \in {"ended", "missed"}, fits \in BOOLEAN : CallEnds(status, fits)
    \/ SummaryEnqueued \/ SummaryRetried
    \/ \E w \in Summarizers : Summarizes(w) \/ SummaryRollsBack(w)
    \/ \E w \in Dispatchers : Dispatches(w) \/ DispatchRollsBack(w)
    \/ TextBegins \/ TextStored \/ LaterCallTalks
    \/ Deletes \/ SweepsExpired \/ SourceExpires
    \/ WindowTurns \/ DeadlinePasses \/ FollowupFallsDue
    \/ FollowupLeaseEnds \/ SummaryLeaseEnds \/ WorkerDies

FollowSpec == FollowInit /\ [][FollowNext]_followVars

\* Both jobs are polled every second (tasks/scheduler.py:292, :297); a worker goes on,
\* a text that has its number is stored, time passes.  The call's lock is contended only
\* by transactions that come to an end.
FollowFairness ==
    /\ WF_followVars(SummaryEnqueued) /\ WF_followVars(TextStored)
    /\ \A w \in Summarizers : WF_followVars(Summarizes(w))
    /\ \A w \in Dispatchers : WF_followVars(Dispatches(w))
    /\ WF_followVars(DeadlinePasses) /\ WF_followVars(FollowupFallsDue)
    /\ WF_followVars(FollowupLeaseEnds) /\ WF_followVars(SummaryLeaseEnds)

-----------------------------------------------------------------------------
(* Properties *)

\* "执行前重查...用户新消息" (docs/contract/current/realtime-voice/data.md:435): in the order
\* the user reads them, the message never follows a text he wrote after the call, however
\* the text's transaction and the dispatcher's cross each other.
NeverAfterUserWrote ==
    \A i, j \in DOMAIN timeline : timeline[i] = "text" /\ timeline[j] = "message" => j < i

\* "sent后的count_pending补偿只补计数，不再发送消息" (data.md:435): whatever workers die, commit
\* without an answer or lose their lease, there is one message, counted once.
SentAndCountedOnce ==
    /\ \A i, j \in DOMAIN timeline : timeline[i] = "message" /\ timeline[j] = "message" => i = j
    /\ followup.message <=> \E i \in DOMAIN timeline : timeline[i] = "message"
    /\ redis.count <= (IF followup.message THEN 1 ELSE 0)

\* A deleted call keeps neither its summary nor the text of its message nor a job that
\* could still bring them back, although workers may be under way with both.
DeletedKeepsNothing ==
    call.deleted =>
        /\ ~call.text /\ ~followup.content
        /\ followup.status \notin Ongoing /\ summaryJob.status \notin {"pending", "processing"}

\* Every job comes to its end, and a message that was sent is counted.
PostprocessSettles ==
    /\ summaryJob.status \in {"pending", "processing"} ~> summaryJob.status \notin {"pending", "processing"}
    /\ followup.status # "absent" ~> (followup.status = "cancelled" \/ redis.count = 1)
=============================================================================
