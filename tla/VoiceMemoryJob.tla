--------------------------- MODULE VoiceMemoryJob ---------------------------
(***************************************************************************)
(* The jobs that turn closed turns into long-term memories (backend/       *)
(* services/realtime_voice_memory_service.py): leased rows, workers that    *)
(* extract without locks and write item by item to a vector store outside   *)
(* the database, retries, the administrator's retry and the deletion fence. *)
(*                                                                         *)
(* A job is numbered by the age of its turn: a larger number is a later     *)
(* turn, of the same call or of a later one.  A transaction that takes the  *)
(* call's lock is one step; the write of an item holds the job's row and    *)
(* the document's lock over several.  Texts are left out: an extraction     *)
(* yields a set of documents.                                               *)
(***************************************************************************)
EXTENDS Integers

CONSTANTS
    Jobs, Calls, CallOf,    \* jobs of calls
    Docs,                   \* documents of the user's memory
    Workers,                \* process_next under way at a time
    MaxRetries,             \* max_retries of the published script
    MaxAdminRetries,        \* bound: administrator's retries of a job
    MaxTrouble,             \* bound: leases that run out, crashes, failed calls
    LateWrites              \* may a write that was given up still be applied?

ASSUME MemoryAssumption ==
    /\ Jobs \subseteq Nat \ {0} /\ CallOf \in [Jobs -> Calls]
    /\ MaxRetries \in Nat /\ MaxAdminRetries \in Nat /\ MaxTrouble \in Nat
    /\ LateWrites \in BOOLEAN

NoJob == 0
NoOne == "nobody"
ASSUME WorkerAssumption == NoOne \notin Workers

VARIABLES
    job,        \* the voice_memory_job rows; status absent before they are staged
    fenced,     \* calls with deletion_fence_at
    expired,    \* calls whose transcript has expired
    traces,     \* voice_memory_trace: <<job, doc>>
    vector,     \* the job whose content the vector store has under each document
    late,       \* writes given up that the store may yet apply
    worker,     \* each process_next
    retried,    \* history: administrator's retries of each job
    trouble     \* bound

vars == <<job, fenced, expired, traces, vector, late, worker, retried, trouble>>

Statuses == {"absent", "pending", "processing", "failed", "success", "skipped", "cancelled"}
Open == {"pending", "processing", "failed"}

MemoryJob ==
    [status : Statuses, owner : Workers \cup {NoOne}, lease : BOOLEAN,
     attempts : Nat, retry : {"no", "later", "due"},
     snapshot : {"none", "extracting", "ready"}, items : SUBSET Docs]

ProcessNext ==
    [job : Jobs \cup {NoJob}, todo : SUBSET Docs, wrote : BOOLEAN,
     at : {"idle", "claim", "extract", "items", "write", "trace", "success", "failed", "skipped"}]

Absent == [status |-> "absent", owner |-> NoOne, lease |-> FALSE, attempts |-> 0,
           retry |-> "no", snapshot |-> "none", items |-> {}]
Resting == [job |-> NoJob, at |-> "idle", todo |-> {}, wrote |-> FALSE]

Init ==
    /\ job = [j \in Jobs |-> Absent] /\ fenced = {} /\ expired = {}
    /\ traces = {} /\ vector = [d \in Docs |-> NoJob] /\ late = {}
    /\ worker = [w \in Workers |-> Resting]
    /\ retried = [j \in Jobs |-> 0] /\ trouble = 0

Trouble == trouble < MaxTrouble /\ trouble' = trouble + 1
Calm == UNCHANGED trouble

\* _write_atom holds the job's row and the document's lock; it writes the documents
\* of its list one after another.
Writing(w) == worker[w].at \in {"write", "trace"}
First(docs) == CHOOSE d \in docs : TRUE
DocOf(w) == First(worker[w].todo)
RowLocked(j) == \E w \in Workers : Writing(w) /\ worker[w].job = j
DocLocked(d) == \E w \in Workers : Writing(w) /\ DocOf(w) = d

\* The lease of the worker is valid.
Holds(w, j) == job[j].status = "processing" /\ job[j].owner = w /\ job[j].lease

\* Types, and that the columns of the lease and of the retry are set exactly in the
\* states that use them: _finish, the fence, retention and recovery clear them.
TypeOK ==
    /\ job \in [Jobs -> MemoryJob]
    /\ \A j \in Jobs :
         /\ job[j].owner # NoOne <=> job[j].status = "processing"
         /\ job[j].lease => job[j].status = "processing"
         /\ job[j].retry # "no" => job[j].status = "failed"
    /\ fenced \in SUBSET Calls /\ expired \in SUBSET Calls
    /\ traces \in SUBSET (Jobs \X Docs) /\ late \in SUBSET (Jobs \X Docs)
    /\ vector \in [Docs -> Jobs \cup {NoJob}]
    /\ worker \in [Workers -> ProcessNext]
    /\ retried \in [Jobs -> Nat] /\ trouble \in 0..MaxTrouble

-----------------------------------------------------------------------------
(* The row *)

\* Over: success, skipped or cancelled.  Nothing of the extraction is kept.
Closed(r, status) ==
    [r EXCEPT !.status = status, !.owner = NoOne, !.lease = FALSE, !.retry = "no",
              !.snapshot = "none", !.items = {}]

RetryAllowed(r) == r.attempts <= MaxRetries

Failed(r) ==
    [r EXCEPT !.status = "failed", !.owner = NoOne, !.lease = FALSE,
              !.retry = IF RetryAllowed(r) THEN "later" ELSE "no"]

\* Mutant: nobody looks at the lease of a job that is being processed.
LeaseOver_Never(r) == FALSE

LeaseOver(r) == r.status = "processing" /\ ~r.lease

SnapshotLost(r) == (LeaseOver(r) \/ r.status = "failed") /\ r.snapshot = "none"
Due(r) == r.status = "pending" \/ (r.status = "failed" /\ r.retry = "due")

\* stage_job: with the closing of the turn, or later by enqueue and compensate.
Stage(j, eligible) ==
    /\ job[j].status = "absent"
    /\ job' = [job EXCEPT ![j].status =
                  IF CallOf[j] \in fenced THEN "cancelled"
                  ELSE IF eligible THEN "pending" ELSE "skipped"]
    /\ UNCHANGED <<fenced, expired, traces, vector, late, worker, retried, trouble>>

-----------------------------------------------------------------------------
(* process_next *)

Candidates(c) ==
    {j \in Jobs : CallOf[j] = c /\ (job[j].status \in {"pending", "processing"}
                                    \/ (job[j].status = "failed" /\ job[j].retry # "no"))}

\* poll has found the call; the first read of lock_call fixes what the transaction
\* sees, so the candidate may be old when the lock is there.
Looks(w, c) ==
    /\ worker[w].at = "idle"
    /\ \E j \in Candidates(c) : Due(job[j]) \/ LeaseOver(job[j])
    /\ \E j \in Candidates(c) :
          /\ \A k \in Candidates(c) : j <= k
          /\ worker' = [worker EXCEPT ![w] = [Resting EXCEPT !.at = "claim", !.job = j]]
    /\ UNCHANGED <<job, fenced, expired, traces, vector, late, retried, trouble>>

\* Mutant: the claim does not skip a row that a writer holds.
Skips_Never(j) == FALSE

Skips(j) == RowLocked(j)

\* What the claim makes of the row, unless it takes or leaves it.
Settled(r, c) ==
    IF c \in fenced THEN Closed(r, "cancelled")
    ELSE IF SnapshotLost(r) THEN [Failed(r) EXCEPT !.retry = "no"]
    ELSE IF LeaseOver(r) THEN Failed(r)
    ELSE IF Due(r) /\ c \in expired THEN Closed(r, "cancelled")
    ELSE r

ClaimSettles(w) ==
    LET j == worker[w].job IN
    /\ worker[w].at = "claim"
    /\ Skips(j) \/ CallOf[j] \in fenced \/ CallOf[j] \in expired
       \/ SnapshotLost(job[j]) \/ ~Due(job[j])
    /\ job' = [job EXCEPT ![j] = IF Skips(j) THEN @ ELSE Settled(@, CallOf[j])]
    /\ worker' = [worker EXCEPT ![w] = Resting]
    /\ UNCHANGED <<fenced, expired, traces, vector, late, retried, trouble>>

\* One attempt more, with the extraction of an earlier one if it was kept.
Taken(r, w) ==
    [r EXCEPT !.status = "processing", !.owner = w, !.lease = TRUE, !.retry = "no",
              !.attempts = @ + 1, !.snapshot = IF @ = "none" THEN "extracting" ELSE @]

ClaimTakes(w, eligible) ==
    LET j == worker[w].job  r == job[worker[w].job] IN
    /\ worker[w].at = "claim" /\ ~Skips(j)
    /\ CallOf[j] \notin fenced \cup expired /\ ~SnapshotLost(r) /\ Due(r)
    /\ IF eligible
       THEN /\ job' = [job EXCEPT ![j] = Taken(r, w)]
            /\ worker' = [worker EXCEPT ![w].todo = r.items,
                              ![w].at = IF r.snapshot = "ready" THEN "items" ELSE "extract"]
       ELSE /\ job' = [job EXCEPT ![j] = Closed(r, "skipped")]
            /\ worker' = [worker EXCEPT ![w] = Resting]
    /\ UNCHANGED <<fenced, expired, traces, vector, late, retried, trouble>>

SaveAllowed(w, j) ==
    /\ Holds(w, j) /\ job[j].snapshot = "extracting"
    /\ CallOf[j] \notin fenced \cup expired

\* The model has answered; _save_snapshot keeps the items before any is written.
Extracts(w, items) ==
    LET j == worker[w].job IN
    /\ worker[w].at = "extract" /\ ~RowLocked(j)
    /\ IF SaveAllowed(w, j)
       THEN /\ job' = [job EXCEPT ![j].snapshot = "ready", ![j].items = items]
            /\ worker' = [worker EXCEPT ![w].at = "items", ![w].todo = items]
       ELSE /\ worker' = [worker EXCEPT ![w] = Resting] /\ UNCHANGED job
    /\ UNCHANGED <<fenced, expired, traces, vector, late, retried, trouble>>

\* The model does not answer, or says nothing that can be kept.
ExtractsNothing(w, verdict) ==
    /\ worker[w].at = "extract"
    /\ (verdict = "failed" /\ Trouble) \/ (verdict = "skipped" /\ Calm)
    /\ worker' = [worker EXCEPT ![w].at = verdict]
    /\ UNCHANGED <<job, fenced, expired, traces, vector, late, retried>>

\* Mutant: only the same turn's own trace counts.
Newer_Never(j, d) == FALSE

\* A later turn has already left its trace on the document.
Newer(j, d) == \E k \in Jobs : k > j /\ <<k, d>> \in traces

WriteRefused(w, j) == CallOf[j] \in fenced \/ ~Holds(w, j)

Advanced(w, wrote) ==
    [worker EXCEPT ![w].todo = @ \ {DocOf(w)}, ![w].wrote = @ \/ wrote, ![w].at = "items"]

\* _write_atom up to the write: what the locked row, the fence and the traces say.
BeginsItem(w) ==
    LET j == worker[w].job  d == DocOf(w) IN
    /\ worker[w].at = "items" /\ worker[w].todo # {} /\ ~RowLocked(j)
    /\ IF DocLocked(d) THEN worker' = [worker EXCEPT ![w].at = "failed"] /\ UNCHANGED job
       ELSE IF WriteRefused(w, j) THEN
            /\ worker' = [worker EXCEPT ![w] = Resting]
            /\ job' = IF CallOf[j] \in fenced /\ job[j].status \in Open
                      THEN [job EXCEPT ![j] = Closed(@, "cancelled")] ELSE job
       ELSE IF CallOf[j] \in expired THEN
            /\ worker' = [worker EXCEPT ![w] = Resting]
            /\ job' = [job EXCEPT ![j] = Closed(@, "cancelled")]
       ELSE /\ UNCHANGED job
            /\ worker' = IF Newer(j, d) THEN Advanced(w, FALSE)
                         ELSE IF <<j, d>> \in traces THEN Advanced(w, TRUE)
                         ELSE [worker EXCEPT ![w].at = "write"]
    /\ UNCHANGED <<fenced, expired, traces, vector, late, retried, trouble>>

\* The safety gate drops an item.
DropsItem(w) ==
    /\ worker[w].at = "items" /\ worker[w].todo # {}
    /\ worker' = Advanced(w, FALSE)
    /\ UNCHANGED <<job, fenced, expired, traces, vector, late, retried, trouble>>

\* The upsert returns; the trace is committed after it.
Upserts(w) ==
    /\ worker[w].at = "write"
    /\ vector' = [vector EXCEPT ![DocOf(w)] = worker[w].job]
    /\ worker' = [worker EXCEPT ![w].at = "trace"]
    /\ UNCHANGED <<job, fenced, expired, traces, late, retried, trouble>>

CommitsTrace(w) ==
    /\ worker[w].at = "trace"
    /\ traces' = traces \cup {<<worker[w].job, DocOf(w)>>}
    /\ worker' = Advanced(w, TRUE)
    /\ UNCHANGED <<job, fenced, expired, vector, late, retried, trouble>>

\* The upsert is given up after 20 s, or its commit fails: the rollback frees the
\* locks, while the request may still be on its way to the store.
WriteFails(w) ==
    /\ Writing(w) /\ Trouble
    /\ late' = IF LateWrites /\ worker[w].at = "write"
               THEN late \cup {<<worker[w].job, DocOf(w)>>} ELSE late
    /\ worker' = [worker EXCEPT ![w].at = "failed"]
    /\ UNCHANGED <<job, fenced, expired, traces, vector, retried>>

LateWriteLands(j, d) ==
    /\ <<j, d>> \in late
    /\ late' = late \ {<<j, d>>} /\ vector' = [vector EXCEPT ![d] = j]
    /\ UNCHANGED <<job, fenced, expired, traces, worker, retried, trouble>>

ListVerdict(w) == IF worker[w].wrote THEN "success" ELSE "skipped"

ListDone(w) ==
    /\ worker[w].at = "items" /\ worker[w].todo = {}
    /\ worker' = [worker EXCEPT ![w].at = ListVerdict(w)]
    /\ UNCHANGED <<job, fenced, expired, traces, vector, late, retried, trouble>>

\* _finish, without effect for a worker whose lease is gone.
Finishes(w) ==
    LET j == worker[w].job  verdict == worker[w].at IN
    /\ verdict \in {"success", "failed", "skipped"} /\ ~RowLocked(j)
    /\ job' = IF ~Holds(w, j) THEN job
              ELSE [job EXCEPT ![j] = IF CallOf[j] \in fenced THEN Closed(@, "cancelled")
                                      ELSE IF verdict = "failed" THEN Failed(@)
                                      ELSE Closed(@, verdict)]
    /\ worker' = [worker EXCEPT ![w] = Resting]
    /\ UNCHANGED <<fenced, expired, traces, vector, late, retried, trouble>>

\* A process dies; a write it has sent may still reach the store.
Crash(w) ==
    /\ worker[w].at # "idle" /\ Trouble
    /\ late' = IF LateWrites /\ worker[w].at = "write"
               THEN late \cup {<<worker[w].job, DocOf(w)>>} ELSE late
    /\ worker' = [worker EXCEPT ![w] = Resting]
    /\ UNCHANGED <<job, fenced, expired, traces, vector, retried>>

-----------------------------------------------------------------------------
(* Everybody else *)

LeaseRunsOut(j) ==
    /\ job[j].status = "processing" /\ job[j].lease
    /\ IF \E w \in Workers : worker[w].job = j /\ job[j].owner = w /\ worker[w].at # "claim"
       THEN Trouble ELSE Calm
    /\ job' = [job EXCEPT ![j].lease = FALSE]
    /\ UNCHANGED <<fenced, expired, traces, vector, late, worker, retried>>

RetryFallsDue(j) ==
    /\ job[j].retry = "later"
    /\ job' = [job EXCEPT ![j].retry = "due"]
    /\ UNCHANGED <<fenced, expired, traces, vector, late, worker, retried, trouble>>

TranscriptExpires(c) ==
    /\ c \notin expired /\ expired' = expired \cup {c}
    /\ UNCHANGED <<job, fenced, traces, vector, late, worker, retried, trouble>>

\* Mutant: the fence does not wait for writes under way.
FenceWaits_Not(c) == FALSE

FenceWaits(c) == \E j \in Jobs : CallOf[j] = c /\ RowLocked(j)

\* stage_deletion_fence: all jobs of the call are locked, then the fence is set.
Fence(c) ==
    /\ c \notin fenced /\ ~FenceWaits(c)
    /\ fenced' = fenced \cup {c}
    /\ job' = [j \in Jobs |-> IF CallOf[j] = c /\ job[j].status \in Open
                              THEN Closed(job[j], "cancelled") ELSE job[j]]
    /\ UNCHANGED <<expired, traces, vector, late, worker, retried, trouble>>

\* purge_expired_snapshots and the retention sweep.
Purge(j) ==
    /\ CallOf[j] \in expired /\ ~RowLocked(j) /\ job[j].status \in Open
    /\ job' = [job EXCEPT ![j] = Closed(@, "cancelled")]
    /\ UNCHANGED <<fenced, expired, traces, vector, late, worker, retried, trouble>>

\* retry_memory_job: one explicit attempt more, while no job of the call is processed.
AdminRetry(j) ==
    /\ CallOf[j] \notin fenced \cup expired
    /\ job[j].status = "failed" /\ job[j].snapshot # "none"
    /\ \A k \in Jobs : CallOf[k] = CallOf[j] => job[k].status # "processing"
    /\ retried[j] < MaxAdminRetries /\ retried' = [retried EXCEPT ![j] = @ + 1]
    /\ job' = [job EXCEPT ![j].status = "pending", ![j].retry = "no"]
    /\ UNCHANGED <<fenced, expired, traces, vector, late, worker, trouble>>

-----------------------------------------------------------------------------
Claims(w) == ClaimSettles(w) \/ \E eligible \in BOOLEAN : ClaimTakes(w, eligible)

Works(w) ==
    \/ Claims(w) \/ BeginsItem(w) \/ Upserts(w) \/ CommitsTrace(w)
    \/ ListDone(w) \/ Finishes(w)
    \/ \E items \in SUBSET Docs : Extracts(w, items)

Next ==
    \/ \E j \in Jobs, eligible \in BOOLEAN : Stage(j, eligible)
    \/ \E w \in Workers, c \in Calls : Looks(w, c)
    \/ \E w \in Workers, verdict \in {"failed", "skipped"} : ExtractsNothing(w, verdict)
    \/ \E w \in Workers : Works(w) \/ DropsItem(w) \/ WriteFails(w) \/ Crash(w)
    \/ \E j \in Jobs, d \in Docs : LateWriteLands(j, d)
    \/ \E j \in Jobs : LeaseRunsOut(j) \/ RetryFallsDue(j) \/ Purge(j) \/ AdminRetry(j)
    \/ \E c \in Calls : TranscriptExpires(c) \/ Fence(c)

Spec == Init /\ [][Next]_vars

\* The scheduler polls every second and works on all calls it finds (gather); time
\* passes; a worker goes on.  Administrators, fences and faults owe nothing.
Fairness ==
    /\ \A w \in Workers : WF_vars(Works(w)) /\ \A c \in Calls : SF_vars(Looks(w, c))
    /\ \A j \in Jobs : WF_vars(LeaseRunsOut(j)) /\ WF_vars(RetryFallsDue(j))

FairSpec == Spec /\ Fairness

-----------------------------------------------------------------------------
(* Properties *)

\* Only the worker that owns the row leaves a trace: one whose lease ran out and
\* whose job another worker has claimed writes nothing more, wherever it was.
OnlyOwnerWrites ==
    \A w \in Workers : Writing(w) =>
        job[worker[w].job].status = "processing" /\ job[worker[w].job].owner = w

\* The write of document d applied in this step is one that a worker had given up.
Landed(d) == <<vector'[d], d>> \in late \ late'

\* A document that a later turn has traced is never set back to an earlier turn's
\* content, whatever retries, crashes and overlapping workers do; but a vector write
\* given up after its 20 s is beyond the locks of _write_atom.
NewestTraceWins ==
    [][\A j \in Jobs, d \in Docs :
           <<j, d>> \in traces /\ vector[d] >= j => vector'[d] >= j \/ Landed(d)]_vars

\* "删除先锁所有记忆任务再设围栏，防止迟到写回" (docs/contract/current/realtime-voice/
\* data.md:426): nothing is written to the vector store for a call once it has been
\* fenced, but for a write that had been given up (NothingLateAfterFence).
NothingAfterFence ==
    [][\A d \in Docs : vector'[d] # vector[d] =>
           CallOf[vector'[d]] \notin fenced \/ Landed(d)]_vars

\* The same without the exception.  The code: after 20 s the locks go, the request
\* does not.
NothingLateAfterFence ==
    [][\A d \in Docs : vector'[d] # vector[d] => CallOf[vector'[d]] \notin fenced]_vars

\* A deleted call keeps neither work to do nor anything that was extracted from it.
FencedForgets ==
    \A j \in Jobs : CallOf[j] \in fenced =>
        job[j].status \notin Open /\ job[j].snapshot = "none" /\ job[j].items = {}

\* A job that reports success has left a trace, also when the attempt that succeeded
\* found everything written by an attempt before it.
SuccessHasTrace ==
    \A j \in Jobs : job[j].status = "success" => \E d \in Docs : <<j, d>> \in traces

\* Automatic attempts stay within max_retries; an administrator's retry is one
\* attempt more and does not refill the budget ("one explicit extra attempt; it never
\* replenishes an exhausted auto budget", realtime_voice_job_service.py:62).
AttemptsWithinBudget ==
    \A j \in Jobs : job[j].attempts <= MaxRetries + 1 + retried[j]

\* Every job comes to rest: over, or failed without a retry of its own.
JobsSettle ==
    \A j \in Jobs : job[j].status # "absent" ~>
        (job[j].status \notin {"pending", "processing"} /\ job[j].retry = "no")

\* "cancel only uncommitted work; successful vectors/traces remain"
\* (realtime_voice_memory_service.py:507): a job that succeeded stays successful.
\* The code: a claim whose candidate was read before the lock cancels whatever row
\* it then finds under a fence.
SuccessStays ==
    [][\A j \in Jobs : job[j].status = "success" => job'[j].status = "success"]_vars

=============================================================================
