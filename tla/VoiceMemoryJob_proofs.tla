------------------------ MODULE VoiceMemoryJob_proofs ------------------------
(***************************************************************************)
(* Proofs about VoiceMemoryJob, for any number of jobs, calls, documents,   *)
(* workers and faults: who may write, what a fence leaves, and that a       *)
(* document never goes back to an earlier turn.  The invariant has a part   *)
(* for each row, one for each worker, and one for those who write.          *)
(***************************************************************************)
EXTENDS VoiceMemoryJob, TLAPS

\* A row, of a call that is fenced or not, whose job has left a trace or not, with the
\* administrator's retries it has had.
RowOK(r, gone, traced, extra) ==
    /\ r \in MemoryJob
    /\ r.owner # NoOne <=> r.status = "processing"
    /\ r.lease => r.status = "processing"
    /\ r.retry # "no" => r.status = "failed" /\ r.attempts <= MaxRetries
    /\ r.status \notin Open => r.snapshot = "none" /\ r.items = {}
    /\ r.status = "absent" => r.attempts = 0
    /\ gone => r.status \notin Open
    /\ r.status = "success" => traced
    /\ r.status = "pending" => r.attempts <= MaxRetries + extra
    /\ r.attempts <= MaxRetries + 1 + extra

Gone(j) == CallOf[j] \in fenced
Traced(j) == \E d \in Docs : <<j, d>> \in traces

\* A worker has a job, a writer has a document, and success means a trace.
WorkerOK(k, left) ==
    /\ k \in ProcessNext
    /\ k.at # "idle" => k.job # NoJob
    /\ k.at \in {"write", "trace"} => k.todo # {}
    /\ k.at = "success" => k.wrote
    /\ k.wrote => \E d \in Docs : <<k.job, d>> \in left

\* What holds from BeginsItem to the commit of the trace.
WriterOK(w) ==
    LET j == worker[w].job IN
    /\ job[j].status = "processing" /\ job[j].owner = w
    /\ CallOf[j] \notin fenced /\ ~Newer(j, DocOf(w))
    /\ \A v \in Workers \ {w} : Writing(v) => DocOf(v) # DocOf(w)

Rows == job \in [Jobs -> MemoryJob] /\ \A j \in Jobs : RowOK(job[j], Gone(j), Traced(j), retried[j])
Crew == worker \in [Workers -> ProcessNext] /\ \A w \in Workers : WorkerOK(worker[w], traces)
Writers == \A w \in Workers : Writing(w) => WriterOK(w)
Others ==
    /\ fenced \in SUBSET Calls /\ expired \in SUBSET Calls
    /\ traces \in SUBSET (Jobs \X Docs) /\ late \in SUBSET (Jobs \X Docs)
    /\ vector \in [Docs -> Jobs \cup {NoJob}]
    /\ retried \in [Jobs -> Nat] /\ trouble \in 0..MaxTrouble

IInv == Rows /\ Crew /\ Writers /\ Others

\* The document at hand is one of the list.
LEMMA FirstBelongs == ASSUME NEW S, S # {} PROVE First(S) \in S
    BY DEF First

\* A writer's job and document, and the job of any worker that is not idle.
LEMMA WorkersJob ==
    ASSUME IInv, NEW w \in Workers, worker[w].at # "idle"
    PROVE  /\ worker[w] \in ProcessNext /\ worker[w].job \in Jobs
           /\ worker[w].todo # {} => DocOf(w) \in Docs
<1>1. WorkerOK(worker[w], traces)
    BY DEF IInv, Crew
<1>2. worker[w].todo # {} => DocOf(w) \in worker[w].todo
    BY FirstBelongs DEF DocOf
<1> QED
    BY <1>1, <1>2 DEF WorkerOK, ProcessNext

-----------------------------------------------------------------------------
(* Rows *)

\* What closes, fails, takes or postpones a row keeps it in order.
LEMMA RowChanges ==
    ASSUME NEW r, NEW gone \in BOOLEAN, NEW traced \in BOOLEAN, NEW extra \in Nat,
           RowOK(r, gone, traced, extra)
    PROVE  /\ \A status \in {"skipped", "cancelled"} :
                 RowOK(Closed(r, status), gone, traced, extra)
           /\ traced => RowOK(Closed(r, "success"), gone, traced, extra)
           /\ ~gone => RowOK(Failed(r), gone, traced, extra)
           /\ ~gone => RowOK([Failed(r) EXCEPT !.retry = "no"], gone, traced, extra)
<1>1. r \in MemoryJob /\ r.attempts \in Nat /\ MaxRetries \in Nat
    BY MemoryAssumption DEF RowOK, MemoryJob
<1>2. ASSUME NEW status \in {"skipped", "cancelled"}
      PROVE  RowOK(Closed(r, status), gone, traced, extra)
  <2>1. Closed(r, status) \in MemoryJob
      BY <1>1 DEF Closed, MemoryJob, Statuses
  <2>2. /\ Closed(r, status).status = status /\ Closed(r, status).owner = NoOne
        /\ ~Closed(r, status).lease /\ Closed(r, status).retry = "no"
        /\ Closed(r, status).snapshot = "none" /\ Closed(r, status).items = {}
        /\ Closed(r, status).attempts = r.attempts
      BY <1>1 DEF Closed, MemoryJob
  <2> QED
      BY <1>1, <2>1, <2>2 DEF RowOK, Open
<1>3. ASSUME traced PROVE RowOK(Closed(r, "success"), gone, traced, extra)
  <2>1. Closed(r, "success") \in MemoryJob
      BY <1>1 DEF Closed, MemoryJob, Statuses
  <2>2. /\ Closed(r, "success").status = "success" /\ Closed(r, "success").owner = NoOne
        /\ ~Closed(r, "success").lease /\ Closed(r, "success").retry = "no"
        /\ Closed(r, "success").snapshot = "none" /\ Closed(r, "success").items = {}
        /\ Closed(r, "success").attempts = r.attempts
      BY <1>1 DEF Closed, MemoryJob
  <2> QED
      BY <1>1, <1>3, <2>1, <2>2 DEF RowOK, Open
<1>4. ASSUME ~gone
      PROVE  /\ RowOK(Failed(r), gone, traced, extra)
             /\ RowOK([Failed(r) EXCEPT !.retry = "no"], gone, traced, extra)
  <2> DEFINE f == Failed(r)
  <2> DEFINE n == [Failed(r) EXCEPT !.retry = "no"]
  <2>1. f \in MemoryJob /\ n \in MemoryJob
      BY <1>1 DEF Failed, MemoryJob, Statuses
  <2>2. /\ f.status = "failed" /\ f.owner = NoOne /\ ~f.lease /\ f.attempts = r.attempts
        /\ f.retry # "no" => r.attempts <= MaxRetries
      BY <1>1 DEF Failed, MemoryJob, RetryAllowed
  <2>3. /\ n.status = "failed" /\ n.owner = NoOne /\ ~n.lease /\ n.attempts = r.attempts
        /\ n.retry = "no"
      BY <1>1 DEF Failed, MemoryJob
  <2> HIDE DEF f, n
  <2>4. RowOK(f, gone, traced, extra)
      BY <1>1, <1>4, <2>1, <2>2 DEF RowOK, Open
  <2>5. RowOK(n, gone, traced, extra)
      BY <1>1, <1>4, <2>1, <2>3 DEF RowOK, Open
  <2> QED
      BY <2>4, <2>5 DEF f, n
<1> QED
    BY <1>2, <1>3, <1>4

\* A claim takes a row that is due, for one attempt more.
LEMMA RowTaken ==
    ASSUME NEW r, NEW gone \in BOOLEAN, NEW traced \in BOOLEAN, NEW extra \in Nat,
           RowOK(r, gone, traced, extra), ~gone, Due(r), NEW w \in Workers
    PROVE  RowOK(Taken(r, w), gone, traced, extra)
<1> DEFINE n == r.attempts + 1
<1> DEFINE s == IF r.snapshot = "none" THEN "extracting" ELSE r.snapshot
<1> DEFINE t == Taken(r, w)
<1>1. r \in MemoryJob /\ r.attempts \in Nat /\ MaxRetries \in Nat /\ n \in Nat
    BY MemoryAssumption DEF RowOK, MemoryJob
<1>2. r.attempts <= MaxRetries + extra
    BY <1>1 DEF RowOK, Due
<1>3. n <= MaxRetries + 1 + extra
    BY <1>1, <1>2
<1>4. s \in {"none", "extracting", "ready"}
    BY <1>1 DEF MemoryJob
<1>5. t = [r EXCEPT !.status = "processing", !.owner = w, !.lease = TRUE, !.retry = "no",
                    !.attempts = n, !.snapshot = s]
    BY DEF Taken
<1> HIDE DEF n, s, t
<1>6. t \in MemoryJob /\ t.status = "processing" /\ t.owner = w /\ t.retry = "no" /\ t.attempts = n
    BY <1>1, <1>4, <1>5 DEF MemoryJob, Statuses
<1>7. RowOK(t, gone, traced, extra)
    BY <1>1, <1>3, <1>6, WorkerAssumption DEF RowOK, Open
<1> QED
    BY <1>7 DEF t

\* One row changes, the circumstances do not.
LEMMA OneRow ==
    ASSUME IInv, NEW j \in Jobs, NEW r, RowOK(r, Gone(j), Traced(j), retried[j]),
           job' = [job EXCEPT ![j] = r], UNCHANGED <<fenced, traces, retried>>
    PROVE  Rows'
<1>1. r \in MemoryJob /\ job \in [Jobs -> MemoryJob]
    BY DEF IInv, Rows, RowOK
<1>2. job' \in [Jobs -> MemoryJob]
    BY <1>1
<1>3. \A k \in Jobs : RowOK(job[k], Gone(k), Traced(k), retried[k])
    BY DEF IInv, Rows
<1>4. \A k \in Jobs : Gone(k)' = Gone(k) /\ Traced(k)' = Traced(k) /\ retried'[k] = retried[k]
    BY DEF Gone, Traced
<1>5. \A k \in Jobs : job'[k] = IF k = j THEN r ELSE job[k]
    BY <1>1
<1>6. \A k \in Jobs : RowOK(job'[k], Gone(k), Traced(k), retried[k])
    BY <1>3, <1>5
<1>7. \A k \in Jobs : RowOK(job'[k], Gone(k)', Traced(k)', retried'[k])
    BY <1>4, <1>6
<1> QED
    BY <1>2, <1>7 DEF Rows

\* No row changes; traces may come.
LEMMA NoRow ==
    ASSUME IInv, UNCHANGED <<job, fenced, retried>>, traces \subseteq traces'
    PROVE  Rows'
<1>1. job \in [Jobs -> MemoryJob] /\ \A k \in Jobs : RowOK(job[k], Gone(k), Traced(k), retried[k])
    BY DEF IInv, Rows
<1>2. \A k \in Jobs : Gone(k)' = Gone(k) /\ (Traced(k) => Traced(k)')
    BY DEF Gone, Traced
<1>3. \A k \in Jobs : RowOK(job[k], Gone(k)', Traced(k)', retried[k])
    BY <1>1, <1>2 DEF RowOK
<1> QED
    BY <1>1, <1>3 DEF Rows

-----------------------------------------------------------------------------
(* Workers *)

\* One worker moves; traces may come.
LEMMA OneWorker ==
    ASSUME IInv, NEW w \in Workers, NEW k, worker' = [worker EXCEPT ![w] = k],
           traces \subseteq traces', WorkerOK(k, traces')
    PROVE  Crew'
<1>1. worker \in [Workers -> ProcessNext] /\ \A v \in Workers : WorkerOK(worker[v], traces)
    BY DEF IInv, Crew
<1>2. k \in ProcessNext
    BY DEF WorkerOK
<1>3. \A v \in Workers : worker'[v] = IF v = w THEN k ELSE worker[v]
    BY <1>1
<1>4. \A v \in Workers : WorkerOK(worker[v], traces')
    BY <1>1 DEF WorkerOK
<1>5. \A v \in Workers : WorkerOK(worker'[v], traces')
    BY <1>3, <1>4
<1>6. worker' \in [Workers -> ProcessNext]
    BY <1>1, <1>2
<1> QED
    BY <1>5, <1>6 DEF Crew

\* A worker that rests is always in order.
LEMMA AtRest == ASSUME NEW left PROVE WorkerOK(Resting, left)
    BY DEF Resting, WorkerOK, ProcessNext, NoJob

\* No worker moves.
LEMMA NoWorker == ASSUME IInv, UNCHANGED <<worker, traces>> PROVE Crew'
    BY DEF IInv, Crew

\* Nobody begins to write, no trace and no fence comes, and the rows of those who write
\* stay in their hands.
LEMMA WritersStay ==
    ASSUME IInv, UNCHANGED <<fenced, traces>>,
           \A w \in Workers : Writing(w)' =>
               /\ Writing(w)
               /\ worker'[w].job = worker[w].job /\ worker'[w].todo = worker[w].todo
               /\ job'[worker[w].job].status = job[worker[w].job].status
               /\ job'[worker[w].job].owner = job[worker[w].job].owner
    PROVE  Writers'
<1> SUFFICES ASSUME NEW w \in Workers, Writing(w)' PROVE WriterOK(w)'
    BY DEF Writers
<1>1. WriterOK(w) /\ Writing(w)
    BY DEF IInv, Writers
<1>2. /\ worker'[w].job = worker[w].job /\ DocOf(w)' = DocOf(w)
      /\ job'[worker[w].job].status = job[worker[w].job].status
      /\ job'[worker[w].job].owner = job[worker[w].job].owner
    BY DEF DocOf
<1>3. \A v \in Workers : Writing(v)' => Writing(v) /\ DocOf(v)' = DocOf(v)
    BY DEF DocOf
<1>4. ~Newer(worker[w].job, DocOf(w))'
    BY <1>1, <1>2 DEF WriterOK, Newer
<1> QED
    BY <1>1, <1>2, <1>3, <1>4 DEF WriterOK

\* The row of a job that nobody writes for is nobody's business.
LEMMA FreeRow ==
    ASSUME IInv, NEW j \in Jobs, ~RowLocked(j), NEW r, job' = [job EXCEPT ![j] = r],
           NEW w \in Workers, Writing(w)
    PROVE  job'[worker[w].job] = job[worker[w].job]
<1>1. worker[w].job # j
    BY DEF RowLocked
<1>2. job \in [Jobs -> MemoryJob]
    BY DEF IInv, Rows
<1> QED
    BY <1>1, <1>2

\* A job that is not being processed has no writer.
LEMMA ProcessedWhileWritten ==
    ASSUME IInv, NEW j \in Jobs, job[j].status # "processing"
    PROVE  ~RowLocked(j)
    BY DEF IInv, Writers, WriterOK, RowLocked

-----------------------------------------------------------------------------
(* The steps *)

\* There is no job in the beginning.
LEMMA InductiveInit == Init => IInv
<1> SUFFICES ASSUME Init PROVE IInv
    OBVIOUS
<1>1. Absent \in MemoryJob /\ Resting \in ProcessNext
    BY DEF Absent, MemoryJob, Statuses, Resting, ProcessNext, NoJob
<1>2. \A gone, traced \in BOOLEAN : RowOK(Absent, gone, traced, 0)
    BY <1>1, MemoryAssumption DEF RowOK, Absent, Open
<1>3. \A j \in Jobs : Traced(j) \in BOOLEAN /\ Gone(j) \in BOOLEAN
    BY DEF Traced, Gone
<1>4. Rows
    BY <1>1, <1>2, <1>3 DEF Init, Rows
<1>5. Crew
    BY <1>1, AtRest DEF Init, Crew
<1>6. Writers
    BY DEF Init, Writers, Writing, Resting
<1>7. Others
    BY MemoryAssumption DEF Init, Others
<1> QED
    BY <1>4, <1>5, <1>6, <1>7 DEF IInv

\* What is known of a row.
LEMMA RowFacts ==
    ASSUME IInv, NEW j \in Jobs
    PROVE  /\ RowOK(job[j], Gone(j), Traced(j), retried[j]) /\ job[j] \in MemoryJob
           /\ retried[j] \in Nat /\ Gone(j) \in BOOLEAN /\ Traced(j) \in BOOLEAN
           /\ job[j].attempts \in Nat /\ MaxRetries \in Nat
<1>1. RowOK(job[j], Gone(j), Traced(j), retried[j])
    BY DEF IInv, Rows
<1>2. job[j] \in MemoryJob
    BY <1>1 DEF RowOK
<1>3. job[j].attempts \in Nat
    BY <1>2 DEF MemoryJob
<1>4. retried[j] \in Nat /\ MaxRetries \in Nat
    BY MemoryAssumption DEF IInv, Others
<1>5. Gone(j) \in BOOLEAN /\ Traced(j) \in BOOLEAN
    BY DEF Gone, Traced
<1> QED
    BY <1>1, <1>2, <1>3, <1>4, <1>5

\* What may become of a row that exists, by RowChanges.
LEMMA JobChanges ==
    ASSUME IInv, NEW j \in Jobs
    PROVE  /\ \A status \in {"skipped", "cancelled"} :
                 RowOK(Closed(job[j], status), Gone(j), Traced(j), retried[j])
           /\ Traced(j) => RowOK(Closed(job[j], "success"), Gone(j), Traced(j), retried[j])
           /\ ~Gone(j) => RowOK(Failed(job[j]), Gone(j), Traced(j), retried[j])
           /\ ~Gone(j) => RowOK([Failed(job[j]) EXCEPT !.retry = "no"],
                                 Gone(j), Traced(j), retried[j])
<1>1. /\ RowOK(job[j], Gone(j), Traced(j), retried[j])
      /\ Gone(j) \in BOOLEAN /\ Traced(j) \in BOOLEAN /\ retried[j] \in Nat
    BY RowFacts
<1> QED
    BY <1>1, RowChanges

\* Steps of one worker that leave the rows, the fences and the traces alone, and after
\* which it writes only if it did before.
LEMMA WorkerSteps ==
    ASSUME IInv, NEW w \in Workers, NEW k, WorkerOK(k, traces),
           worker' = [worker EXCEPT ![w] = k], UNCHANGED <<job, fenced, traces, retried>>,
           k.at \in {"write", "trace"} =>
               Writing(w) /\ k.job = worker[w].job /\ k.todo = worker[w].todo,
           Others'
    PROVE  IInv'
<1>1. Rows'
    BY NoRow
<1>2. Crew'
    BY OneWorker
<1>3. \A v \in Workers : worker'[v] = IF v = w THEN k ELSE worker[v]
    BY DEF IInv, Crew
<1>4. Writers'
    BY <1>3, WritersStay DEF Writing
<1> QED
    BY <1>1, <1>2, <1>4 DEF IInv

\* Steps that change one row and leave its status and its owner alone if somebody writes.
LEMMA RowSteps ==
    ASSUME IInv, NEW j \in Jobs, NEW r, RowOK(r, Gone(j), Traced(j), retried[j]),
           job' = [job EXCEPT ![j] = r], UNCHANGED <<worker, fenced, traces, retried>>,
           RowLocked(j) => r.status = job[j].status /\ r.owner = job[j].owner,
           Others'
    PROVE  IInv'
<1>1. Rows'
    BY OneRow
<1>2. Crew'
    BY NoWorker
<1>3. job \in [Jobs -> MemoryJob]
    BY DEF IInv, Rows
<1>4. ASSUME NEW w \in Workers, Writing(w)
      PROVE  /\ job'[worker[w].job].status = job[worker[w].job].status
             /\ job'[worker[w].job].owner = job[worker[w].job].owner
  <2>1. CASE worker[w].job = j
      BY <1>3, <1>4, <2>1 DEF RowLocked
  <2>2. CASE worker[w].job # j
      BY <1>3, <2>2
  <2> QED
      BY <2>1, <2>2
<1>5. Writers'
    BY <1>4, WritersStay DEF Writing
<1> QED
    BY <1>1, <1>2, <1>5 DEF IInv

\* Steps of a worker on a row that nobody writes for, after which it does not write.
LEMMA JointSteps ==
    ASSUME IInv, NEW w \in Workers, NEW k, WorkerOK(k, traces), k.at \notin {"write", "trace"},
           worker' = [worker EXCEPT ![w] = k],
           NEW j \in Jobs, ~RowLocked(j), NEW r, RowOK(r, Gone(j), Traced(j), retried[j]),
           job' = [job EXCEPT ![j] = r], UNCHANGED <<fenced, traces, retried>>, Others'
    PROVE  IInv'
<1>1. Rows'
    BY OneRow
<1>2. Crew'
    BY OneWorker
<1>3. \A v \in Workers : worker'[v] = IF v = w THEN k ELSE worker[v]
    BY DEF IInv, Crew
<1>4. \A v \in Workers : Writing(v) => job'[worker[v].job] = job[worker[v].job]
    BY FreeRow
<1>5. Writers'
    BY <1>3, <1>4, WritersStay DEF Writing
<1> QED
    BY <1>1, <1>2, <1>5 DEF IInv

\* A worker at its list that is done with a document.
LEMMA AdvancedOK ==
    ASSUME IInv, NEW w \in Workers, worker[w].at # "idle", NEW wrote \in BOOLEAN, NEW left,
           traces \subseteq left, wrote => \E d \in Docs : <<worker[w].job, d>> \in left
    PROVE  \E k : /\ Advanced(w, wrote) = [worker EXCEPT ![w] = k]
                  /\ WorkerOK(k, left) /\ k.at = "items"
<1> DEFINE k == [worker[w] EXCEPT !.todo = @ \ {DocOf(w)}, !.wrote = @ \/ wrote, !.at = "items"]
<1>1. WorkerOK(worker[w], traces) /\ worker[w] \in ProcessNext
    BY DEF IInv, Crew, WorkerOK
<1>2. k \in ProcessNext /\ k.at = "items" /\ k.job = worker[w].job
      /\ (k.wrote => worker[w].wrote \/ wrote)
    BY <1>1 DEF ProcessNext
<1>3. Advanced(w, wrote) = [worker EXCEPT ![w] = k]
    BY DEF Advanced
<1> HIDE DEF k
<1>4. WorkerOK(k, left)
    BY <1>1, <1>2 DEF WorkerOK
<1> QED
    BY <1>2, <1>3, <1>4

\* Rows: stage_job, time, retention, the administrator.
LEMMA StageKeeps ==
    ASSUME IInv, NEW j \in Jobs, NEW eligible \in BOOLEAN, Stage(j, eligible) PROVE IInv'
<1> DEFINE st == IF CallOf[j] \in fenced THEN "cancelled" ELSE IF eligible THEN "pending" ELSE "skipped"
<1> DEFINE r == [job[j] EXCEPT !.status = st]
<1>1. st \in {"cancelled", "pending", "skipped"} /\ (Gone(j) => st = "cancelled")
    BY DEF Gone
<1>2. job' = [job EXCEPT ![j].status = st] /\ job[j].status = "absent"
    BY DEF Stage
<1>3. /\ RowOK(job[j], Gone(j), Traced(j), retried[j]) /\ job[j] \in MemoryJob
      /\ retried[j] \in Nat /\ MaxRetries \in Nat
    BY RowFacts
<1> HIDE DEF st
<1>4. r \in MemoryJob
    BY <1>1, <1>3 DEF MemoryJob, Statuses
<1>5. /\ r.status = st /\ r.owner = job[j].owner /\ r.lease = job[j].lease /\ r.retry = job[j].retry
      /\ r.snapshot = job[j].snapshot /\ r.items = job[j].items /\ r.attempts = job[j].attempts
    BY <1>3 DEF MemoryJob
<1>6. job' = [job EXCEPT ![j] = r]
    BY <1>2
<1> HIDE DEF r
<1>7. RowOK(r, Gone(j), Traced(j), retried[j])
    BY <1>1, <1>2, <1>3, <1>4, <1>5 DEF RowOK, Open
<1>8. ~RowLocked(j)
    BY <1>2, ProcessedWhileWritten
<1>9. Others'
    BY DEF IInv, Others, Stage
<1> QED
    BY <1>6, <1>7, <1>8, <1>9, RowSteps DEF Stage

\* The lease of a row runs out: status and owner stay.
LEMMA LeaseRunsOutKeeps ==
    ASSUME IInv, NEW j \in Jobs, LeaseRunsOut(j) PROVE IInv'
<1> DEFINE r == [job[j] EXCEPT !.lease = FALSE]
<1>1. /\ RowOK(job[j], Gone(j), Traced(j), retried[j]) /\ job[j] \in MemoryJob
    BY RowFacts
<1>2. r \in MemoryJob
    BY <1>1 DEF MemoryJob
<1>3. /\ r.status = job[j].status /\ r.owner = job[j].owner /\ ~r.lease /\ r.retry = job[j].retry
      /\ r.snapshot = job[j].snapshot /\ r.items = job[j].items /\ r.attempts = job[j].attempts
    BY <1>1 DEF MemoryJob
<1>4. job' = [job EXCEPT ![j] = r]
    BY DEF LeaseRunsOut
<1> HIDE DEF r
<1>5. RowOK(r, Gone(j), Traced(j), retried[j])
    BY <1>1, <1>2, <1>3 DEF RowOK
<1>6. trouble' \in 0..MaxTrouble
  <2>1. trouble \in 0..MaxTrouble /\ MaxTrouble \in Nat /\ (Trouble \/ Calm)
      BY MemoryAssumption DEF IInv, Others, LeaseRunsOut
  <2> QED
      BY <2>1 DEF Trouble, Calm
<1>7. Others'
    BY <1>6 DEF IInv, Others, LeaseRunsOut
<1> QED
    BY <1>3, <1>4, <1>5, <1>7, RowSteps DEF LeaseRunsOut

\* A retry falls due.
LEMMA RetryFallsDueKeeps ==
    ASSUME IInv, NEW j \in Jobs, RetryFallsDue(j) PROVE IInv'
<1> DEFINE r == [job[j] EXCEPT !.retry = "due"]
<1>1. /\ RowOK(job[j], Gone(j), Traced(j), retried[j]) /\ job[j] \in MemoryJob
    BY RowFacts
<1>2. r \in MemoryJob
    BY <1>1 DEF MemoryJob
<1>3. /\ r.status = job[j].status /\ r.owner = job[j].owner /\ r.lease = job[j].lease
      /\ r.retry = "due" /\ job[j].retry = "later"
      /\ r.snapshot = job[j].snapshot /\ r.items = job[j].items /\ r.attempts = job[j].attempts
    BY <1>1 DEF MemoryJob, RetryFallsDue
<1>4. job' = [job EXCEPT ![j] = r]
    BY DEF RetryFallsDue
<1> HIDE DEF r
<1>5. RowOK(r, Gone(j), Traced(j), retried[j])
    BY <1>1, <1>2, <1>3 DEF RowOK
<1>6. Others'
    BY DEF IInv, Others, RetryFallsDue
<1> QED
    BY <1>3, <1>4, <1>5, <1>6, RowSteps DEF RetryFallsDue

\* Retention waits for whoever writes.
LEMMA PurgeKeeps ==
    ASSUME IInv, NEW j \in Jobs, Purge(j) PROVE IInv'
<1>1. RowOK(Closed(job[j], "cancelled"), Gone(j), Traced(j), retried[j])
    BY JobChanges
<1>2. job' = [job EXCEPT ![j] = Closed(job[j], "cancelled")] /\ ~RowLocked(j)
    BY DEF Purge
<1>3. Others'
    BY DEF IInv, Others, Purge
<1> QED
    BY <1>1, <1>2, <1>3, RowSteps DEF Purge

\* retry_memory_job: one attempt more, for a job that failed.
LEMMA AdminRetryKeeps ==
    ASSUME IInv, NEW j \in Jobs, AdminRetry(j) PROVE IInv'
<1> DEFINE r == [job[j] EXCEPT !.status = "pending", !.retry = "no"]
<1> DEFINE extra == retried[j] + 1
<1>1. /\ RowOK(job[j], Gone(j), Traced(j), retried[j]) /\ job[j] \in MemoryJob
      /\ retried[j] \in Nat /\ MaxRetries \in Nat /\ job[j].attempts \in Nat
    BY RowFacts
<1>2. r \in MemoryJob
    BY <1>1 DEF MemoryJob, Statuses
<1>3. /\ r.status = "pending" /\ r.owner = job[j].owner /\ r.lease = job[j].lease
      /\ r.retry = "no" /\ r.attempts = job[j].attempts
    BY <1>1 DEF MemoryJob
<1>4. job' = [job EXCEPT ![j] = r] /\ retried' = [retried EXCEPT ![j] = extra]
    BY DEF AdminRetry
<1>5. job[j].status = "failed" /\ ~Gone(j)
    BY DEF AdminRetry, Gone
<1>6. extra = retried[j] + 1 /\ extra \in Nat
    BY <1>1
<1> HIDE DEF r, extra
<1>7. RowOK(r, Gone(j), Traced(j), extra)
    BY <1>1, <1>2, <1>3, <1>5, <1>6 DEF RowOK, Open
<1>8. \A k \in Jobs : Gone(k)' = Gone(k) /\ Traced(k)' = Traced(k)
    BY DEF AdminRetry, Gone, Traced
<1>9. \A k \in Jobs : /\ job'[k] = IF k = j THEN r ELSE job[k]
                      /\ retried'[k] = IF k = j THEN extra ELSE retried[k]
    BY <1>4 DEF IInv, Rows, Others
<1>10. \A k \in Jobs : RowOK(job'[k], Gone(k)', Traced(k)', retried'[k])
    BY <1>7, <1>8, <1>9, RowFacts
<1>11. job' \in [Jobs -> MemoryJob] /\ retried' \in [Jobs -> Nat]
    BY <1>2, <1>4, <1>6 DEF IInv, Rows, Others
<1>12. Rows'
    BY <1>10, <1>11 DEF Rows
<1>13. Crew'
    BY NoWorker DEF AdminRetry
<1>14. ~RowLocked(j)
    BY <1>5, ProcessedWhileWritten
<1>15. \A w \in Workers : Writing(w) => job'[worker[w].job] = job[worker[w].job]
    BY <1>4, <1>14, FreeRow
<1>16. Writers'
    BY <1>15, WritersStay DEF AdminRetry, Writing
<1>17. Others'
    BY <1>11 DEF IInv, Others, AdminRetry
<1> QED
    BY <1>12, <1>13, <1>16, <1>17 DEF IInv

\* A worker finds a candidate.
LEMMA LooksKeeps ==
    ASSUME IInv, NEW w \in Workers, NEW c \in Calls, Looks(w, c) PROVE IInv'
<1>1. PICK j \in Candidates(c) :
         worker' = [worker EXCEPT ![w] = [Resting EXCEPT !.at = "claim", !.job = j]]
    BY DEF Looks
<1> DEFINE k == [Resting EXCEPT !.at = "claim", !.job = j]
<1>2. j \in Jobs /\ j # NoJob
    BY MemoryAssumption DEF Candidates, NoJob
<1>3. WorkerOK(k, traces) /\ k.at = "claim"
    BY <1>2 DEF Resting, WorkerOK, ProcessNext
<1> HIDE DEF k
<1>4. Others'
    BY DEF IInv, Others, Looks
<1> QED
    BY <1>1, <1>3, <1>4, WorkerSteps DEF Looks, k

\* The model does not answer, or says nothing that can be kept.
LEMMA ExtractsNothingKeeps ==
    ASSUME IInv, NEW w \in Workers, NEW verdict \in {"failed", "skipped"},
           ExtractsNothing(w, verdict)
    PROVE  IInv'
<1> DEFINE k == [worker[w] EXCEPT !.at = verdict]
<1>1. WorkerOK(worker[w], traces) /\ worker[w].at = "extract"
    BY DEF IInv, Crew, ExtractsNothing
<1>2. k \in ProcessNext /\ k.at = verdict /\ k.job = worker[w].job /\ k.wrote = worker[w].wrote
    BY <1>1 DEF WorkerOK, ProcessNext
<1>3. worker' = [worker EXCEPT ![w] = k]
    BY DEF ExtractsNothing
<1> HIDE DEF k
<1>4. WorkerOK(k, traces)
    BY <1>1, <1>2 DEF WorkerOK
<1>5. trouble' \in 0..MaxTrouble
  <2>1. trouble \in 0..MaxTrouble /\ MaxTrouble \in Nat /\ (Trouble \/ Calm)
      BY MemoryAssumption DEF IInv, Others, ExtractsNothing
  <2> QED
      BY <2>1 DEF Trouble, Calm
<1>6. Others'
    BY <1>5 DEF IInv, Others, ExtractsNothing
<1> QED
    BY <1>2, <1>3, <1>4, <1>6, WorkerSteps DEF ExtractsNothing

\* The safety gate drops an item of the list.
LEMMA DropsItemKeeps ==
    ASSUME IInv, NEW w \in Workers, DropsItem(w) PROVE IInv'
<1>1. PICK k : worker' = [worker EXCEPT ![w] = k] /\ WorkerOK(k, traces) /\ k.at = "items"
    BY AdvancedOK DEF DropsItem
<1>2. Others'
    BY DEF IInv, Others, DropsItem
<1> QED
    BY <1>1, <1>2, WorkerSteps DEF DropsItem

\* The write of an item returns; the worker still holds its locks.
LEMMA UpsertsKeeps ==
    ASSUME IInv, NEW w \in Workers, Upserts(w) PROVE IInv'
<1> DEFINE k == [worker[w] EXCEPT !.at = "trace"]
<1>1. WorkerOK(worker[w], traces) /\ worker[w].at = "write"
    BY DEF IInv, Crew, Upserts
<1>2. /\ k \in ProcessNext /\ k.at = "trace" /\ k.job = worker[w].job /\ k.wrote = worker[w].wrote
      /\ k.todo = worker[w].todo
    BY <1>1 DEF WorkerOK, ProcessNext
<1>3. worker' = [worker EXCEPT ![w] = k]
    BY DEF Upserts
<1> HIDE DEF k
<1>4. WorkerOK(k, traces)
    BY <1>1, <1>2 DEF WorkerOK
<1>5. worker[w].job \in Jobs
    BY <1>1, WorkersJob
<1>6. vector' \in [Docs -> Jobs \cup {NoJob}]
    BY <1>5 DEF IInv, Others, Upserts
<1>7. Others'
    BY <1>6 DEF IInv, Others, Upserts
<1> QED
    BY <1>1, <1>2, <1>3, <1>4, <1>7, WorkerSteps DEF Upserts, Writing

\* A write is given up: the worker writes no more.
LEMMA WriteFailsKeeps ==
    ASSUME IInv, NEW w \in Workers, WriteFails(w) PROVE IInv'
<1> DEFINE k == [worker[w] EXCEPT !.at = "failed"]
<1>1. WorkerOK(worker[w], traces) /\ Writing(w) /\ worker[w].at \in {"write", "trace"}
    BY DEF IInv, Crew, WriteFails, Writing
<1>2. k \in ProcessNext /\ k.at = "failed" /\ k.job = worker[w].job /\ k.wrote = worker[w].wrote
    BY <1>1 DEF WorkerOK, ProcessNext
<1>3. worker' = [worker EXCEPT ![w] = k]
    BY DEF WriteFails
<1> HIDE DEF k
<1>4. WorkerOK(k, traces)
    BY <1>1, <1>2 DEF WorkerOK
<1>5. worker[w].job \in Jobs /\ DocOf(w) \in Docs
    BY <1>1, WorkersJob DEF WorkerOK
<1>6. late' \in SUBSET (Jobs \X Docs)
    BY <1>5 DEF IInv, Others, WriteFails
<1>7. trouble' \in 0..MaxTrouble
  <2>1. trouble \in 0..MaxTrouble /\ MaxTrouble \in Nat /\ Trouble
      BY MemoryAssumption DEF IInv, Others, WriteFails
  <2> QED
      BY <2>1 DEF Trouble
<1>8. Others'
    BY <1>6, <1>7 DEF IInv, Others, WriteFails
<1> QED
    BY <1>2, <1>3, <1>4, <1>8, WorkerSteps DEF WriteFails

\* The end of the list: success only for a worker that wrote.
LEMMA ListDoneKeeps ==
    ASSUME IInv, NEW w \in Workers, ListDone(w) PROVE IInv'
<1> DEFINE k == [worker[w] EXCEPT !.at = ListVerdict(w)]
<1>1. WorkerOK(worker[w], traces) /\ worker[w].at = "items"
    BY DEF IInv, Crew, ListDone
<1>2. ListVerdict(w) \in {"success", "skipped"} /\ (ListVerdict(w) = "success" => worker[w].wrote)
    BY DEF ListVerdict
<1>3. /\ k \in ProcessNext /\ k.at = ListVerdict(w) /\ k.job = worker[w].job
      /\ k.wrote = worker[w].wrote
    BY <1>1, <1>2 DEF WorkerOK, ProcessNext
<1>4. worker' = [worker EXCEPT ![w] = k]
    BY DEF ListDone
<1> HIDE DEF k
<1>5. WorkerOK(k, traces)
    BY <1>1, <1>2, <1>3 DEF WorkerOK
<1>6. Others'
    BY DEF IInv, Others, ListDone
<1> QED
    BY <1>2, <1>3, <1>4, <1>5, <1>6, WorkerSteps DEF ListDone

\* A worker dies.
LEMMA CrashKeeps ==
    ASSUME IInv, NEW w \in Workers, Crash(w) PROVE IInv'
<1>1. Resting.at = "idle"
    BY DEF Resting
<1>2. late' \in SUBSET (Jobs \X Docs)
  <2>1. CASE worker[w].at = "write"
    <3>1. worker[w].job \in Jobs /\ worker[w].todo # {}
        BY <2>1, WorkersJob DEF IInv, Crew, WorkerOK
    <3>2. DocOf(w) \in Docs
        BY <2>1, <3>1, WorkersJob
    <3> QED
        BY <3>1, <3>2 DEF IInv, Others, Crash
  <2>2. CASE worker[w].at # "write"
      BY <2>2 DEF IInv, Others, Crash
  <2> QED
      BY <2>1, <2>2
<1>3. trouble' \in 0..MaxTrouble
  <2>1. trouble \in 0..MaxTrouble /\ MaxTrouble \in Nat /\ Trouble
      BY MemoryAssumption DEF IInv, Others, Crash
  <2> QED
      BY <2>1 DEF Trouble
<1>4. Others'
    BY <1>2, <1>3 DEF IInv, Others, Crash
<1> QED
    BY <1>1, <1>4, AtRest, WorkerSteps DEF Crash

\* The claim settles a row, unless a writer holds it.
LEMMA ClaimSettlesKeeps ==
    ASSUME IInv, NEW w \in Workers, ClaimSettles(w) PROVE IInv'
<1> DEFINE j == worker[w].job
<1>1. j \in Jobs /\ Resting.at = "idle"
    BY WorkersJob DEF ClaimSettles, Resting
<1>2. worker' = [worker EXCEPT ![w] = Resting]
    BY DEF ClaimSettles
<1>3. Others'
    BY DEF IInv, Others, ClaimSettles
<1>4. CASE Skips(j)
  <2>1. job' = job
      BY <1>1, <1>4 DEF ClaimSettles, IInv, Rows
  <2> QED
      BY <1>1, <1>2, <1>3, <2>1, AtRest, WorkerSteps DEF ClaimSettles
<1>5. CASE ~Skips(j)
  <2> DEFINE r == Settled(job[j], CallOf[j])
  <2>1. job' = [job EXCEPT ![j] = r] /\ ~RowLocked(j)
      BY <1>5 DEF ClaimSettles, Skips
  <2>2. RowOK(r, Gone(j), Traced(j), retried[j])
    <3>1. RowOK(job[j], Gone(j), Traced(j), retried[j])
        BY <1>1, RowFacts
    <3>2. CASE Gone(j)
        BY <1>1, <3>2, JobChanges DEF Settled, Gone
    <3>3. CASE ~Gone(j)
      <4>1. /\ RowOK(Failed(job[j]), Gone(j), Traced(j), retried[j])
            /\ RowOK([Failed(job[j]) EXCEPT !.retry = "no"], Gone(j), Traced(j), retried[j])
            /\ RowOK(Closed(job[j], "cancelled"), Gone(j), Traced(j), retried[j])
          BY <1>1, <3>3, JobChanges
      <4>2. CallOf[j] \notin fenced
          BY <3>3 DEF Gone
      <4> QED
          BY <3>1, <4>1, <4>2 DEF Settled
    <3> QED
        BY <3>2, <3>3
  <2> HIDE DEF r
  <2> QED
      BY <1>1, <1>2, <1>3, <2>1, <2>2, AtRest, JointSteps DEF ClaimSettles
<1> QED
    BY <1>4, <1>5

\* The claim takes a row that is due.
LEMMA ClaimTakesKeeps ==
    ASSUME IInv, NEW w \in Workers, NEW eligible \in BOOLEAN, ClaimTakes(w, eligible) PROVE IInv'
<1> DEFINE j == worker[w].job
<1> DEFINE at == IF job[j].snapshot = "ready" THEN "items" ELSE "extract"
<1> DEFINE k == [worker[w] EXCEPT !.todo = job[j].items, !.at = at]
<1>1. j \in Jobs /\ Resting.at = "idle" /\ worker[w].at = "claim" /\ WorkerOK(worker[w], traces)
    BY WorkersJob DEF ClaimTakes, Resting, IInv, Crew
<1>2. ~RowLocked(j) /\ ~Gone(j) /\ Due(job[j])
    BY DEF ClaimTakes, Skips, Gone
<1>3. Others'
    BY DEF IInv, Others, ClaimTakes
<1>4. CASE eligible
  <2>1. RowOK(Taken(job[j], w), Gone(j), Traced(j), retried[j])
      BY <1>1, <1>2, RowFacts, RowTaken
  <2>2. job' = [job EXCEPT ![j] = Taken(job[j], w)] /\ worker' = [worker EXCEPT ![w] = k]
      BY <1>4 DEF ClaimTakes
  <2>3. at \in {"items", "extract"} /\ job[j].items \in SUBSET Docs
      BY <1>1, RowFacts DEF MemoryJob
  <2> HIDE DEF at
  <2>4. k \in ProcessNext /\ k.at = at /\ k.job = j /\ k.wrote = worker[w].wrote
      BY <1>1, <2>3 DEF WorkerOK, ProcessNext
  <2> HIDE DEF k
  <2>5. WorkerOK(k, traces) /\ k.at \notin {"write", "trace"}
      BY <1>1, <2>3, <2>4 DEF WorkerOK
  <2> HIDE DEF j
  <2> QED
      BY <1>1, <1>2, <1>3, <2>1, <2>2, <2>5, JointSteps DEF ClaimTakes
<1>5. CASE ~eligible
  <2>1. RowOK(Closed(job[j], "skipped"), Gone(j), Traced(j), retried[j])
      BY <1>1, JobChanges
  <2>2. job' = [job EXCEPT ![j] = Closed(job[j], "skipped")] /\ worker' = [worker EXCEPT ![w] = Resting]
      BY <1>5 DEF ClaimTakes
  <2> QED
      BY <1>1, <1>2, <1>3, <2>1, <2>2, AtRest, JointSteps DEF ClaimTakes
<1> QED
    BY <1>4, <1>5

\* The extraction is kept by the worker that holds the lease.
LEMMA ExtractsKeeps ==
    ASSUME IInv, NEW w \in Workers, NEW items \in SUBSET Docs, Extracts(w, items) PROVE IInv'
<1> DEFINE j == worker[w].job
<1> DEFINE r == [job[j] EXCEPT !.snapshot = "ready", !.items = items]
<1> DEFINE k == [worker[w] EXCEPT !.at = "items", !.todo = items]
<1>1. /\ j \in Jobs /\ Resting.at = "idle" /\ worker[w].at = "extract"
      /\ WorkerOK(worker[w], traces) /\ ~RowLocked(j)
    BY WorkersJob DEF Extracts, Resting, IInv, Crew
<1>2. Others'
    BY DEF IInv, Others, Extracts
<1>3. CASE SaveAllowed(w, j)
  <2>1. job[j].status = "processing" /\ ~Gone(j)
      BY <1>3 DEF SaveAllowed, Holds, Gone
  <2>2. RowOK(job[j], Gone(j), Traced(j), retried[j]) /\ job[j] \in MemoryJob
      BY <1>1, RowFacts
  <2>3. r \in MemoryJob
      BY <2>2 DEF MemoryJob
  <2>4. /\ r.status = job[j].status /\ r.owner = job[j].owner /\ r.lease = job[j].lease
        /\ r.retry = job[j].retry /\ r.attempts = job[j].attempts
      BY <2>2 DEF MemoryJob
  <2>5. k \in ProcessNext /\ k.at = "items" /\ k.job = j /\ k.wrote = worker[w].wrote
      BY <1>1 DEF WorkerOK, ProcessNext
  <2>6. job' = [job EXCEPT ![j] = r] /\ worker' = [worker EXCEPT ![w] = k]
      BY <1>3 DEF Extracts
  <2> HIDE DEF r, k
  <2>7. RowOK(r, Gone(j), Traced(j), retried[j])
      BY <2>1, <2>2, <2>3, <2>4 DEF RowOK, Open
  <2>8. WorkerOK(k, traces) /\ k.at \notin {"write", "trace"}
      BY <1>1, <2>5 DEF WorkerOK
  <2> HIDE DEF j
  <2> QED
      BY <1>1, <1>2, <2>6, <2>7, <2>8, JointSteps DEF Extracts
<1>4. CASE ~SaveAllowed(w, j)
  <2>1. job' = job /\ worker' = [worker EXCEPT ![w] = Resting]
      BY <1>4 DEF Extracts
  <2> QED
      BY <1>1, <1>2, <2>1, AtRest, WorkerSteps DEF Extracts
<1> QED
    BY <1>3, <1>4

\* _finish changes the row only for the worker that holds the lease.
LEMMA FinishesKeeps ==
    ASSUME IInv, NEW w \in Workers, Finishes(w) PROVE IInv'
<1> DEFINE j == worker[w].job
<1> DEFINE verdict == worker[w].at
<1>1. /\ verdict \in {"success", "failed", "skipped"} /\ ~RowLocked(j)
      /\ worker' = [worker EXCEPT ![w] = Resting]
    BY DEF Finishes
<1>2. j \in Jobs /\ Resting.at = "idle" /\ WorkerOK(worker[w], traces)
    BY <1>1, WorkersJob DEF Resting, IInv, Crew
<1>3. Others'
    BY DEF IInv, Others, Finishes
<1>4. CASE ~Holds(w, j)
  <2>1. job' = job
      BY <1>4 DEF Finishes
  <2> QED
      BY <1>1, <1>2, <1>3, <2>1, AtRest, WorkerSteps DEF Finishes
<1>5. CASE Holds(w, j)
  <2> DEFINE r == IF CallOf[j] \in fenced THEN Closed(job[j], "cancelled")
                  ELSE IF verdict = "failed" THEN Failed(job[j]) ELSE Closed(job[j], verdict)
  <2>1. job' = [job EXCEPT ![j] = r]
      BY <1>5 DEF Finishes
  <2>2. verdict = "success" => Traced(j)
      BY <1>2 DEF WorkerOK, Traced
  <2>3. RowOK(r, Gone(j), Traced(j), retried[j])
    <3>1. CASE CallOf[j] \in fenced
        BY <1>2, <3>1, JobChanges
    <3>2. CASE CallOf[j] \notin fenced
      <4>1. ~Gone(j)
          BY <3>2 DEF Gone
      <4>2. CASE verdict = "failed"
          BY <1>2, <3>2, <4>1, <4>2, JobChanges
      <4>3. CASE verdict = "success"
          BY <1>2, <2>2, <3>2, <4>3, JobChanges
      <4>4. CASE verdict = "skipped"
          BY <1>2, <3>2, <4>4, JobChanges
      <4> QED
          BY <1>1, <4>2, <4>3, <4>4
    <3> QED
        BY <3>1, <3>2
  <2> HIDE DEF r, j, verdict
  <2> QED
      BY <1>1, <1>2, <1>3, <2>1, <2>3, AtRest, JointSteps DEF Finishes
<1> QED
    BY <1>4, <1>5

\* _write_atom up to the write.
LEMMA BeginsItemKeeps ==
    ASSUME IInv, NEW w \in Workers, BeginsItem(w) PROVE IInv'
<1> DEFINE j == worker[w].job
<1> DEFINE d == DocOf(w)
<1>1. /\ j \in Jobs /\ Resting.at = "idle" /\ worker[w].at = "items" /\ worker[w].todo # {}
      /\ WorkerOK(worker[w], traces) /\ ~RowLocked(j) /\ d \in Docs
    BY WorkersJob DEF BeginsItem, Resting, IInv, Crew
<1>2. Others'
    BY DEF IInv, Others, BeginsItem
<1>3. CASE DocLocked(d)
  <2> DEFINE k == [worker[w] EXCEPT !.at = "failed"]
  <2>1. k \in ProcessNext /\ k.at = "failed" /\ k.job = j /\ k.wrote = worker[w].wrote
      BY <1>1 DEF WorkerOK, ProcessNext
  <2>2. job' = job /\ worker' = [worker EXCEPT ![w] = k]
      BY <1>3 DEF BeginsItem
  <2> HIDE DEF k
  <2>3. WorkerOK(k, traces)
      BY <1>1, <2>1 DEF WorkerOK
  <2> QED
      BY <1>2, <2>1, <2>2, <2>3, WorkerSteps DEF BeginsItem
<1>4. CASE /\ ~DocLocked(d) /\ worker' = [worker EXCEPT ![w] = Resting]
           /\ job' = job \/ job' = [job EXCEPT ![j] = Closed(job[j], "cancelled")]
  <2>1. CASE job' = job
      BY <1>1, <1>2, <1>4, <2>1, AtRest, WorkerSteps DEF BeginsItem
  <2>2. CASE job' = [job EXCEPT ![j] = Closed(job[j], "cancelled")]
    <3>1. RowOK(Closed(job[j], "cancelled"), Gone(j), Traced(j), retried[j])
        BY <1>1, JobChanges
    <3> QED
        BY <1>1, <1>2, <1>4, <2>2, <3>1, AtRest, JointSteps DEF BeginsItem
  <2> QED
      BY <1>4, <2>1, <2>2
<1>5. CASE /\ job' = job
           /\ worker' = Advanced(w, FALSE)
              \/ (worker' = Advanced(w, TRUE) /\ <<j, d>> \in traces)
  <2>1. PICK k : worker' = [worker EXCEPT ![w] = k] /\ WorkerOK(k, traces) /\ k.at = "items"
    <3>1. CASE worker' = Advanced(w, FALSE)
        BY <1>1, <3>1, AdvancedOK
    <3>2. CASE worker' = Advanced(w, TRUE) /\ <<j, d>> \in traces
        BY <1>1, <3>2, AdvancedOK
    <3> QED
        BY <1>5, <3>1, <3>2
  <2> QED
      BY <1>2, <1>5, <2>1, WorkerSteps DEF BeginsItem
<1>6. CASE /\ ~DocLocked(d) /\ ~WriteRefused(w, j) /\ ~Newer(j, d) /\ job' = job
           /\ worker' = [worker EXCEPT ![w].at = "write"]
  <2> DEFINE k == [worker[w] EXCEPT !.at = "write"]
  <2>1. /\ k \in ProcessNext /\ k.at = "write" /\ k.job = j /\ k.wrote = worker[w].wrote
        /\ k.todo = worker[w].todo
      BY <1>1 DEF WorkerOK, ProcessNext
  <2>2. worker' = [worker EXCEPT ![w] = k] /\ worker \in [Workers -> ProcessNext]
      BY <1>6 DEF IInv, Crew
  <2>3. UNCHANGED <<fenced, traces, retried>>
      BY DEF BeginsItem
  <2> HIDE DEF k
  <2>4. WorkerOK(k, traces)
      BY <1>1, <2>1 DEF WorkerOK
  <2>5. Rows' /\ Crew'
      BY <1>6, <2>2, <2>3, <2>4, NoRow, OneWorker
  <2>6. \A v \in Workers : /\ worker'[v].job = worker[v].job /\ DocOf(v)' = DocOf(v)
                           /\ v # w => (Writing(v)' <=> Writing(v))
      BY <2>1, <2>2 DEF DocOf, Writing
  <2>7. \A v \in Workers : Writing(v) => DocOf(v) # d
      BY <1>6 DEF DocLocked
  <2>8. WriterOK(w)'
    <3>1. job[j].status = "processing" /\ job[j].owner = w /\ CallOf[j] \notin fenced
        BY <1>6 DEF WriteRefused, Holds
    <3>2. worker'[w].job = j /\ DocOf(w)' = d
        BY <2>6
    <3>3. \A i \in Jobs : ~(i > j /\ <<i, d>> \in traces')
        BY <1>6, <2>3 DEF Newer
    <3>4. ~Newer(worker[w].job, DocOf(w))'
        BY <3>2, <3>3 DEF Newer
    <3>5. \A v \in Workers \ {w} : Writing(v)' => DocOf(v)' # DocOf(w)'
        BY <2>6, <2>7
    <3> QED
        BY <1>6, <2>3, <3>1, <3>2, <3>4, <3>5 DEF WriterOK
  <2>9. ASSUME NEW v \in Workers \ {w}, Writing(v)' PROVE WriterOK(v)'
    <3>1. Writing(v) /\ WriterOK(v)
        BY <2>6, <2>9 DEF IInv, Writers
    <3>2. \A u \in Workers \ {v} : Writing(u)' => DocOf(u)' # DocOf(v)'
        BY <2>6, <2>7, <3>1 DEF WriterOK
    <3>3. ~Newer(worker[v].job, DocOf(v))'
        BY <2>3, <2>6, <3>1 DEF WriterOK, Newer
    <3> QED
        BY <1>6, <2>3, <2>6, <3>1, <3>2, <3>3 DEF WriterOK
  <2>10. Writers'
      BY <2>8, <2>9 DEF Writers
  <2> QED
      BY <1>2, <2>5, <2>10 DEF IInv
<1> QED
  <2>1. CASE DocLocked(d)
      BY <1>3, <2>1
  <2>2. CASE ~DocLocked(d) /\ WriteRefused(w, j)
      BY <1>4, <2>2 DEF BeginsItem
  <2>3. CASE ~DocLocked(d) /\ ~WriteRefused(w, j)
      BY <1>4, <1>5, <1>6, <2>3 DEF BeginsItem
  <2> QED
      BY <2>1, <2>2, <2>3

\* The trace of a written document: no other writer has that document in hand.
LEMMA CommitsTraceKeeps ==
    ASSUME IInv, NEW w \in Workers, CommitsTrace(w) PROVE IInv'
<1> DEFINE j == worker[w].job
<1> DEFINE d == DocOf(w)
<1>1. worker[w].at = "trace" /\ Writing(w) /\ j \in Jobs /\ worker[w].todo # {}
    BY WorkersJob DEF CommitsTrace, Writing, IInv, Crew, WorkerOK
<1>2. d \in Docs /\ traces' = traces \cup {<<j, d>>} /\ UNCHANGED <<job, fenced, retried>>
    BY <1>1, WorkersJob DEF CommitsTrace
<1>3. PICK k : worker' = [worker EXCEPT ![w] = k] /\ WorkerOK(k, traces') /\ k.at = "items"
    BY <1>1, <1>2, AdvancedOK DEF CommitsTrace
<1>4. Rows' /\ Crew'
    BY <1>2, <1>3, NoRow, OneWorker
<1>5. \A v \in Workers \ {w} : worker'[v] = worker[v]
    BY <1>3 DEF IInv, Crew
<1>6. ~Writing(w)'
    BY <1>3 DEF IInv, Crew, Writing
<1>7. ASSUME NEW v \in Workers, Writing(v)' PROVE WriterOK(v)'
  <2>1. v # w /\ Writing(v) /\ WriterOK(v) /\ worker'[v] = worker[v]
      BY <1>5, <1>6, <1>7 DEF Writing, IInv, Writers
  <2>2. \A u \in Workers \ {w} : DocOf(u)' = DocOf(u) /\ (Writing(u)' => Writing(u))
      BY <1>5 DEF DocOf, Writing
  <2>3. DocOf(v) # d
      BY <1>1, <2>1 DEF WriterOK
  <2>4. ~Newer(worker[v].job, DocOf(v))'
      BY <1>2, <2>1, <2>2, <2>3 DEF WriterOK, Newer
  <2>5. \A u \in Workers \ {v} : Writing(u)' => DocOf(u)' # DocOf(v)'
      BY <1>6, <2>1, <2>2 DEF WriterOK
  <2> QED
      BY <1>2, <2>1, <2>4, <2>5 DEF WriterOK
<1>8. Writers'
    BY <1>7 DEF Writers
<1>9. Others'
    BY <1>1, <1>2 DEF IInv, Others, CommitsTrace
<1> QED
    BY <1>4, <1>8, <1>9 DEF IInv

\* The fence closes the rows of its call, none of which anybody writes for.
LEMMA FenceKeeps ==
    ASSUME IInv, NEW c \in Calls, Fence(c) PROVE IInv'
<1>1. /\ fenced' = fenced \cup {c} /\ UNCHANGED <<expired, traces, vector, late, worker, retried, trouble>>
      /\ job' = [j \in Jobs |-> IF CallOf[j] = c /\ job[j].status \in Open
                                THEN Closed(job[j], "cancelled") ELSE job[j]]
    BY DEF Fence
<1>2. ASSUME NEW j \in Jobs PROVE RowOK(job'[j], Gone(j)', Traced(j)', retried'[j])
  <2> DEFINE r == Closed(job[j], "cancelled")
  <2>1. RowOK(job[j], Gone(j), Traced(j), retried[j])
      BY RowFacts
  <2>2. RowOK(r, Gone(j), Traced(j), retried[j])
      BY JobChanges
  <2>3. r.status = "cancelled"
      BY RowFacts DEF Closed, MemoryJob
  <2>4. (Gone(j)' <=> Gone(j) \/ CallOf[j] = c) /\ Traced(j)' = Traced(j)
      BY <1>1 DEF Gone, Traced
  <2>5. job'[j] = IF CallOf[j] = c /\ job[j].status \in Open THEN r ELSE job[j]
      BY <1>1
  <2> HIDE DEF r
  <2>6. RowOK(job'[j], Gone(j), Traced(j), retried[j])
      BY <2>1, <2>2, <2>5
  <2>7. Gone(j)' => job'[j].status \notin Open
      BY <2>1, <2>3, <2>4, <2>5 DEF RowOK, Open
  <2> QED
      BY <1>1, <2>4, <2>6, <2>7 DEF RowOK
<1>3. job' \in [Jobs -> MemoryJob]
    BY <1>1, <1>2 DEF RowOK
<1>4. Rows'
    BY <1>2, <1>3 DEF Rows
<1>5. Crew'
    BY <1>1, NoWorker
<1>6. ASSUME NEW w \in Workers, Writing(w)' PROVE WriterOK(w)'
  <2>1. Writing(w) /\ WriterOK(w)
      BY <1>1, <1>6 DEF Writing, IInv, Writers
  <2>2. worker[w].job \in Jobs /\ CallOf[worker[w].job] # c
      BY <2>1, WorkersJob DEF Fence, FenceWaits, RowLocked, Writing
  <2>3. job'[worker[w].job] = job[worker[w].job]
      BY <1>1, <2>2
  <2> QED
      BY <1>1, <2>1, <2>2, <2>3 DEF WriterOK, Newer, DocOf, Writing
<1>7. Writers'
    BY <1>6 DEF Writers
<1>8. Others'
    BY <1>1 DEF IInv, Others
<1> QED
    BY <1>4, <1>5, <1>7, <1>8 DEF IInv

\* Steps that touch neither rows nor workers nor traces nor fences.
LEMMA OutsideKeeps ==
    ASSUME IInv, UNCHANGED <<job, fenced, traces, worker, retried>>, Others' PROVE IInv'
<1>1. Rows' /\ Crew'
    BY NoRow, NoWorker
<1>2. Writers'
    BY WritersStay DEF Writing
<1> QED
    BY <1>1, <1>2 DEF IInv

\* Every step of the workers, the users, the administrators and of time keeps it.
LEMMA InductiveNext == IInv /\ [Next]_vars => IInv'
<1> SUFFICES ASSUME IInv, [Next]_vars PROVE IInv'
    OBVIOUS
<1>1. ASSUME NEW j \in Jobs, NEW d \in Docs, LateWriteLands(j, d) PROVE IInv'
  <2>1. vector' \in [Docs -> Jobs \cup {NoJob}]
      BY <1>1 DEF LateWriteLands, IInv, Others
  <2>2. Others'
      BY <1>1, <2>1 DEF LateWriteLands, IInv, Others
  <2> QED
      BY <1>1, <2>2, OutsideKeeps DEF LateWriteLands
<1>2. ASSUME NEW c \in Calls, TranscriptExpires(c) PROVE IInv'
  <2>1. Others'
      BY <1>2 DEF TranscriptExpires, IInv, Others
  <2> QED
      BY <1>2, <2>1, OutsideKeeps DEF TranscriptExpires
<1>3. CASE UNCHANGED vars
  <2>1. Others'
      BY <1>3 DEF vars, IInv, Others
  <2> QED
      BY <1>3, <2>1, OutsideKeeps DEF vars
<1>4. ASSUME NEW w \in Workers, Works(w) PROVE IInv'
    BY <1>4, ClaimSettlesKeeps, ClaimTakesKeeps, BeginsItemKeeps, UpsertsKeeps,
       CommitsTraceKeeps, ListDoneKeeps, FinishesKeeps, ExtractsKeeps DEF Works, Claims
<1> QED
    BY <1>1, <1>2, <1>3, <1>4, StageKeeps, LooksKeeps, ExtractsNothingKeeps, DropsItemKeeps,
       WriteFailsKeeps, CrashKeeps, LeaseRunsOutKeeps, RetryFallsDueKeeps, PurgeKeeps,
       AdminRetryKeeps, FenceKeeps DEF Next

\* The inductive invariant holds.
THEOREM Inductive == Spec => []IInv
    BY InductiveInit, InductiveNext, PTL DEF Spec

-----------------------------------------------------------------------------
(* What follows *)

\* Types; the columns of the lease and of the retry are set exactly in the states that
\* use them.
THEOREM TypeCorrect == Spec => []TypeOK
<1>1. IInv => TypeOK
    BY DEF IInv, Rows, Crew, Others, RowOK, TypeOK
<1> QED
    BY <1>1, Inductive, PTL

\* _write_atom: a worker that lost its lease and its row to another one writes nothing.
THEOREM OwnersWrite == Spec => []OnlyOwnerWrites
<1>1. IInv => OnlyOwnerWrites
    BY DEF IInv, Writers, WriterOK, OnlyOwnerWrites
<1> QED
    BY <1>1, Inductive, PTL

\* stage_deletion_fence: a deleted call keeps nothing to do and nothing extracted.
THEOREM FenceForgets == Spec => []FencedForgets
<1>1. IInv => FencedForgets
    BY DEF IInv, Rows, RowOK, Gone, FencedForgets
<1> QED
    BY <1>1, Inductive, PTL

\* _finish: a job reports success only with a trace.
THEOREM SuccessTraced == Spec => []SuccessHasTrace
<1>1. IInv => SuccessHasTrace
    BY DEF IInv, Rows, RowOK, Traced, SuccessHasTrace
<1> QED
    BY <1>1, Inductive, PTL

\* retry_policy and retry_memory_job: the budget of automatic attempts is never refilled.
THEOREM AttemptsBounded == Spec => []AttemptsWithinBudget
<1>1. IInv => AttemptsWithinBudget
    BY DEF IInv, Rows, RowOK, AttemptsWithinBudget
<1> QED
    BY <1>1, Inductive, PTL

\* Who writes to the store in a step: a worker that holds the document, or a write that
\* had been given up.
LEMMA WhoWrites ==
    ASSUME IInv, [Next]_vars, NEW d \in Docs, vector'[d] # vector[d]
    PROVE  \/ \E w \in Workers : /\ Writing(w) /\ DocOf(w) = d
                                 /\ vector'[d] = worker[w].job
           \/ Landed(d)
<1>1. vector \in [Docs -> Jobs \cup {NoJob}]
    BY DEF IInv, Others
<1>2. ASSUME NEW w \in Workers, Upserts(w)
      PROVE  Writing(w) /\ DocOf(w) = d /\ vector'[d] = worker[w].job
    BY <1>1, <1>2 DEF Upserts, Writing
<1>3. ASSUME NEW j \in Jobs, NEW e \in Docs, LateWriteLands(j, e) PROVE Landed(d)
  <2>1. /\ <<j, e>> \in late /\ late' = late \ {<<j, e>>}
        /\ vector' = [vector EXCEPT ![e] = j]
      BY <1>3 DEF LateWriteLands
  <2>2. d = e /\ vector'[d] = j
      BY <1>1, <2>1
  <2> QED
      BY <2>1, <2>2 DEF Landed
<1>4. (\E w \in Workers : Upserts(w)) \/ (\E j \in Jobs, e \in Docs : LateWriteLands(j, e))
    BY DEF Next, vars, Stage, Looks, ExtractsNothing, Works, Claims, ClaimSettles, ClaimTakes,
       BeginsItem, CommitsTrace, ListDone, Finishes, Extracts, DropsItem, WriteFails, Crash,
       LeaseRunsOut, RetryFallsDue, Purge, AdminRetry, TranscriptExpires, Fence
<1> QED
    BY <1>2, <1>3, <1>4

\* _write_atom and stage_deletion_fence: nothing is written for a fenced call, but for
\* writes that were given up before.
THEOREM NothingWrittenAfterFence == Spec => NothingAfterFence
<1>1. IInv /\ [Next]_vars =>
         [\A d \in Docs : vector'[d] # vector[d] =>
              CallOf[vector'[d]] \notin fenced \/ Landed(d)]_vars
  <2> SUFFICES ASSUME IInv, [Next]_vars, NEW d \in Docs, vector'[d] # vector[d], ~Landed(d)
               PROVE  CallOf[vector'[d]] \notin fenced
      OBVIOUS
  <2>1. PICK w \in Workers : Writing(w) /\ vector'[d] = worker[w].job
      BY WhoWrites
  <2> QED
      BY <2>1 DEF IInv, Writers, WriterOK
<1> QED
    BY <1>1, Inductive, PTL DEF Spec, NothingAfterFence

\* _write_atom looks for traces of later turns under the document's lock: no document
\* that such a turn has traced goes back.
THEOREM NewestWins == Spec => NewestTraceWins
<1>1. IInv /\ [Next]_vars =>
         [\A j \in Jobs, d \in Docs :
              <<j, d>> \in traces /\ vector[d] >= j => vector'[d] >= j \/ Landed(d)]_vars
  <2> SUFFICES ASSUME IInv, [Next]_vars, NEW j \in Jobs, NEW d \in Docs,
                      <<j, d>> \in traces, vector[d] >= j, ~Landed(d)
               PROVE  vector'[d] >= j
      OBVIOUS
  <2>1. CASE vector'[d] = vector[d]
      BY <2>1
  <2>2. CASE vector'[d] # vector[d]
    <3>1. PICK w \in Workers : Writing(w) /\ DocOf(w) = d /\ vector'[d] = worker[w].job
        BY <2>2, WhoWrites
    <3>2. worker[w].job \in Jobs /\ ~Newer(worker[w].job, d)
        BY <3>1, WorkersJob DEF IInv, Writers, WriterOK, Writing
    <3>3. ~(j > worker[w].job) /\ j \in Nat /\ worker[w].job \in Nat
        BY <3>2, MemoryAssumption DEF Newer
    <3> QED
        BY <3>1, <3>3
  <2> QED
      BY <2>1, <2>2
<1> QED
    BY <1>1, Inductive, PTL DEF Spec, NewestTraceWins
=============================================================================
