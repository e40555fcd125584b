----------------------------- MODULE ChatBundle -----------------------------
(***************************************************************************)
(* How text messages are queued, packed and answered (backend/routers/     *)
(* chat.py, services/chat_service.py, services/chat_queue_service.py), for *)
(* one user and several processes.                                          *)
(*                                                                         *)
(* A send stores its row and arms a debounced run; a resend starts a run    *)
(* at once; a run that finds itself superseded, and a poll that finds the   *)
(* queue stuck, start a guarded run.  Each run packs the rows after the     *)
(* last reply, calls the model and stores a reply, if its generation is     *)
(* still the current one.  An await is a step boundary.  The index of a row *)
(* in log is its sort_seq: rows are numbered under a row lock that is held  *)
(* until the commit (TimelineSeq).  Texts are left out.                     *)
(***************************************************************************)
EXTENDS Integers, FiniteSets, Sequences

LOCAL INSTANCE FiniteSetsExt

CONSTANTS
    Procs, Requests,        \* each request is sent once
    Runs,                   \* tasks that may exist at a time
    QueueLimit, PackLimit,  \* 5 open rows, 10 packed rows
    MaxResends,             \* two per minute and batch
    MaxTrouble,             \* bound: exceptions, crashes, locks outlived
    SilentWeek              \* may the generation key expire (after seven days)?

ASSUME ChatAssumption ==
    /\ QueueLimit \in Nat \ {0} /\ PackLimit \in Nat \ {0}
    /\ MaxResends \in Nat /\ MaxTrouble \in Nat /\ SilentWeek \in BOOLEAN

NoRun == "no run"
ASSUME RunAssumption == NoRun \notin Runs /\ IsFiniteSet(Runs)

VARIABLES
    log,        \* conversation_log in the order of sort_seq
    gen,        \* chat:gen, 0 when absent
    made,       \* history: generations made, so that the next one is fresh
    token,      \* chat:debounce_tok: the run it was made for
    local,      \* _debounce_tasks of each process
    lock,       \* chat:bundle:lock
    resent,     \* chat:resend: of each batch in the current minute
    request,    \* each request, and what its future holds
    run,        \* each run
    trouble     \* bound

redisVars == <<gen, made, token, lock, resent>>
taskVars == <<local, request, run>>
vars == <<log, redisVars, taskVars, trouble>>

Row == [role : {"user", "assistant"},
        status : {"pending_llm", "delivered", "failed_timeout", "failed_blocked", "none"},
        gen : Nat, pack : SUBSET Nat]
Request ==
    [at : {"new", "old", "set", "row", "token", "runner", "wait", "done"},
     proc : Procs \cup {NoRun}, resend : BOOLEAN, old : Nat, gen : Nat,
     run : Runs \cup {NoRun},
     future : {"none", "answered", "failed", "blocked", "obsolete", "refused"}]
Run ==
    [at : {"free", "sleep", "lock", "gen", "rows", "prompt", "llm", "marking", "polish",
           "tell", "unlock"},
     proc : Procs \cup {NoRun}, guarded : BOOLEAN, gen : Nat, pack : SUBSET Nat]

Free == [at |-> "free", proc |-> NoRun, guarded |-> FALSE, gen |-> 0, pack |-> {}]
Unsent == [at |-> "new", proc |-> NoRun, resend |-> FALSE, old |-> 0, gen |-> 0,
           run |-> NoRun, future |-> "none"]

TypeOK ==
    /\ log \in Seq(Row) /\ gen \in 0..made /\ made \in Nat
    /\ token \in Runs \cup {NoRun} /\ lock \in BOOLEAN
    /\ local \in [Procs -> Runs \cup {NoRun}]
    /\ \A i \in DOMAIN resent : i \in DOMAIN log /\ resent[i] \in Nat
    /\ request \in [Requests -> Request] /\ run \in [Runs -> Run]
    /\ trouble \in 0..MaxTrouble

Init ==
    /\ log = <<>> /\ gen = 0 /\ made = 0 /\ token = NoRun /\ lock = FALSE
    /\ resent = <<>> /\ local = [p \in Procs |-> NoRun]
    /\ request = [r \in Requests |-> Unsent] /\ run = [n \in Runs |-> Free] /\ trouble = 0

Trouble == trouble < MaxTrouble /\ trouble' = trouble + 1
Calm == UNCHANGED trouble

-----------------------------------------------------------------------------
(* The open window *)

LastReply == Max({0} \cup {i \in DOMAIN log : log[i].role = "assistant"})

OpenRows == {i \in DOMAIN log : i > LastReply}

Undelivered == {i \in OpenRows : log[i].status # "delivered"}
HasBang == \E i \in OpenRows : log[i].status = "failed_timeout"

QueueFull == Cardinality(Undelivered) >= QueueLimit /\ ~HasBang

Stuck == QueueFull /\ \A i \in Undelivered : log[i].status = "pending_llm"

\* The last PackLimit rows; the earlier ones are marked skipped_in_prompt.
Packed == {i \in OpenRows : Cardinality({j \in OpenRows : j > i}) < PackLimit}

Marked(pack, status) ==
    [i \in DOMAIN log |-> IF i \in pack THEN [log[i] EXCEPT !.status = status] ELSE log[i]]

-----------------------------------------------------------------------------
(* Futures: one per generation, in the process of its request *)

Resolvable(r, p, g) ==
    /\ request[r].proc = p /\ request[r].gen = g /\ g # 0
    /\ request[r].at \notin {"new", "old", "set", "done"} /\ request[r].future = "none"

\* resolve_generation_future and _invalidate_generation_future.
Resolved(reqs, p, g, outcome) ==
    [r \in Requests |-> IF Resolvable(r, p, g) THEN [reqs[r] EXCEPT !.future = outcome]
                        ELSE reqs[r]]

-----------------------------------------------------------------------------
(* Runs that start and end *)

Starts(runs, n, p, at) == [runs EXCEPT ![n] = [Free EXCEPT !.at = at, !.proc = p]]

\* schedule_recovery_bundle.  Where Runs has no place left, the new task would find
\* the lock taken.
Recovery(runs, p) ==
    {Starts(runs, n, p, "lock") : n \in {n \in Runs : runs[n] = Free}}
    \cup (IF lock /\ \A n \in Runs : runs[n] # Free THEN {runs} ELSE {})

\* The end of _execute_llm_bundle: a guarded run still has to give its lock back.
Over(n) == [run EXCEPT ![n] = IF @.guarded THEN [@ EXCEPT !.at = "unlock"] ELSE Free]

-----------------------------------------------------------------------------
(* Requests *)

\* POST /send: check_send_quota.
SendChecks(r, p) ==
    /\ request[r] = Unsent
    /\ request' = [request EXCEPT ![r].proc = p,
                       ![r].at = IF QueueFull THEN "done" ELSE "old",
                       ![r].future = IF QueueFull THEN "refused" ELSE "none"]
    /\ IF Stuck THEN run' \in Recovery(run, p) ELSE UNCHANGED run
    /\ UNCHANGED <<log, redisVars, local, trouble>>

\* POST /resend: a window with a failed row, and try_consume_resend_quota.
ResendChecks(r, p) ==
    /\ request[r] = Unsent /\ HasBang
    /\ \E batch \in OpenRows :
          LET sofar == IF batch \in DOMAIN resent THEN resent[batch] ELSE 0 IN
          /\ \A i \in OpenRows : batch <= i
          /\ resent' = [i \in DOMAIN resent \cup {batch} |->
                           IF i = batch THEN sofar + 1 ELSE resent[i]]
          /\ request' = [request EXCEPT ![r].proc = p, ![r].resend = TRUE,
                             ![r].at = IF sofar < MaxResends THEN "old" ELSE "done",
                             ![r].future = IF sofar < MaxResends THEN "none" ELSE "refused"]
    /\ UNCHANGED <<log, gen, made, token, lock, local, run, trouble>>

\* new_generation_for_user reads the old generation ...
ReadsOld(r) ==
    /\ request[r].at = "old"
    /\ request' = [request EXCEPT ![r].old = gen, ![r].at = "set"]
    /\ UNCHANGED <<log, redisVars, local, run, trouble>>

Invalidated(r) == Resolved(request, request[r].proc, request[r].old, "obsolete")

\* ... and replaces it; the waiter of the old one is told so, if it waits here.
SetsGeneration(r) ==
    /\ request[r].at = "set"
    /\ made' = made + 1 /\ gen' = made + 1
    /\ request' = [Invalidated(r) EXCEPT ![r].gen = made + 1, ![r].old = 0,
                       ![r].at = IF request[r].resend THEN "runner" ELSE "row"]
    /\ UNCHANGED <<log, token, lock, resent, local, run, trouble>>

\* allocate_sort_seq, the row and the commit.
InsertsRow(r) ==
    /\ request[r].at = "row"
    /\ log' = Append(log, [role |-> "user", status |-> "pending_llm",
                           gen |-> request[r].gen, pack |-> {}])
    /\ request' = [request EXCEPT ![r].at = "token"]
    /\ UNCHANGED <<redisVars, local, run, trouble>>

\* The insert fails, for one because two first messages both make the sequence row.
InsertFails(r) ==
    /\ request[r].at = "row" /\ Trouble
    /\ request' = [request EXCEPT ![r].at = "done", ![r].future = "failed"]
    /\ UNCHANGED <<log, redisVars, local, run>>

\* schedule_debounced: the token is written ...
SetsToken(r, n) ==
    /\ request[r].at = "token" /\ run[n] = Free
    /\ \A q \in Requests : request[q].run # n
    /\ token' = n
    /\ request' = [request EXCEPT ![r].run = n, ![r].at = "runner"]
    /\ UNCHANGED <<log, gen, made, lock, resent, local, run, trouble>>

\* ... then the local task, asleep or not, is cancelled and another one is made.
StartsDebounced(r) ==
    LET n == request[r].run  p == request[r].proc  old == local[request[r].proc] IN
    /\ request[r].at = "runner" /\ ~request[r].resend /\ run[n] = Free
    /\ run' = Starts([m \in Runs |-> IF m = old THEN Free ELSE run[m]], n, p, "sleep")
    /\ local' = [local EXCEPT ![p] = n]
    /\ request' = [request EXCEPT ![r].run = NoRun, ![r].at = "wait"]
    /\ UNCHANGED <<log, redisVars, trouble>>

StartsAtOnce(r, n) ==
    /\ request[r].at = "runner" /\ request[r].resend /\ run[n] = Free
    /\ \A q \in Requests : request[q].run # n
    /\ run' = Starts(run, n, request[r].proc, "gen")
    /\ request' = [request EXCEPT ![r].at = "wait"]
    /\ UNCHANGED <<log, redisVars, local, trouble>>

\* await_bundle_payload: an outcome, the 120 s, or a client that has gone.
WaitEnds(r) ==
    /\ request[r].at = "wait"
    /\ request' = [request EXCEPT ![r].at = "done"]
    /\ UNCHANGED <<log, redisVars, local, run, trouble>>

\* GET /timeline without a cursor.
Polls(p) ==
    /\ Stuck /\ run' \in Recovery(run, p)
    /\ UNCHANGED <<log, redisVars, local, request, trouble>>

-----------------------------------------------------------------------------
(* A run *)

Forgotten(n) == [p \in Procs |-> IF local[p] = n THEN NoRun ELSE local[p]]

\* Only the last message's runner goes on.
Wakes(n) ==
    /\ run[n].at = "sleep"
    /\ IF token = n THEN /\ run' = [run EXCEPT ![n].at = "gen"] /\ UNCHANGED local
                    ELSE /\ run' = [run EXCEPT ![n] = Free] /\ local' = Forgotten(n)
    /\ UNCHANGED <<log, redisVars, request, trouble>>

\* Mutant: the lock is taken whoever holds it.
LockFree_Always == TRUE

LockFree == ~lock

TriesLock(n) ==
    /\ run[n].at = "lock"
    /\ IF LockFree THEN /\ lock' = TRUE
                        /\ run' = [run EXCEPT ![n].at = "gen", ![n].guarded = TRUE]
                   ELSE /\ run' = [run EXCEPT ![n] = Free] /\ UNCHANGED lock
    /\ UNCHANGED <<log, gen, made, token, resent, local, request, trouble>>

\* DEL, whoever holds the lock by now.
Unlocks(n) ==
    /\ run[n].at = "unlock"
    /\ lock' = FALSE /\ run' = [run EXCEPT ![n] = Free]
    /\ UNCHANGED <<log, gen, made, token, resent, local, request, trouble>>

ReadsGeneration(n) ==
    /\ run[n].at = "gen"
    /\ IF gen = 0 THEN run' = Over(n) /\ local' = Forgotten(n)
       ELSE run' = [run EXCEPT ![n].gen = gen, ![n].at = "rows"] /\ UNCHANGED local
    /\ UNCHANGED <<log, redisVars, request, trouble>>

ReadsRows(n) ==
    /\ run[n].at = "rows"
    /\ IF OpenRows = {} THEN run' = Over(n) /\ local' = Forgotten(n)
       ELSE run' = [run EXCEPT ![n].pack = Packed, ![n].at = "prompt"] /\ UNCHANGED local
    /\ UNCHANGED <<log, redisVars, request, trouble>>

Current(n) == gen = run[n].gen

\* The comparison before and after the call of the model.
Goes(n, from, to) ==
    /\ run[n].at = from /\ Current(n)
    /\ run' = [run EXCEPT ![n].at = to]
    /\ UNCHANGED <<log, redisVars, local, request, trouble>>

Superseded(n) ==
    /\ run[n].at \in {"prompt", "llm"} /\ ~Current(n)
    /\ run' \in Recovery(Over(n), run[n].proc)
    /\ local' = Forgotten(n)
    /\ UNCHANGED <<log, redisVars, request, trouble>>

\* Step5 raises after the generation has changed: the run ends without a word.
FailsSuperseded(n) ==
    /\ run[n].at = "llm" /\ ~Current(n)
    /\ run' = Over(n) /\ local' = Forgotten(n)
    /\ UNCHANGED <<log, redisVars, request, trouble>>

\* _mark_pack_failed, after a failure of the model or of the safety check, and the
\* outcome to the waiter.
Marks(n, from, status, outcome) ==
    /\ run[n].at = from
    /\ log' = Marked(run[n].pack, status)
    /\ request' = Resolved(request, run[n].proc, run[n].gen, outcome)
    /\ run' = Over(n) /\ local' = Forgotten(n)
    /\ UNCHANGED <<redisVars, trouble>>

\* _persist_bundle_success.
Persists(n) ==
    /\ run[n].at = "polish"
    /\ log' = Append(Marked(run[n].pack, "delivered"),
                     [role |-> "assistant", status |-> "none", gen |-> run[n].gen,
                      pack |-> run[n].pack])
    /\ run' = [run EXCEPT ![n].at = "tell"]
    /\ UNCHANGED <<redisVars, local, request, trouble>>

\* Mutant: the waiter of whatever generation is current gets the reply.
ToldTo_Current(n) == gen

ToldTo(n) == run[n].gen

Tells(n) ==
    /\ run[n].at = "tell"
    /\ request' = Resolved(request, run[n].proc, ToldTo(n), "answered")
    /\ run' = Over(n) /\ local' = Forgotten(n)
    /\ UNCHANGED <<log, redisVars, trouble>>

\* An exception in between: the waiter of the generation that is now current is told.
Breaks(n) ==
    /\ run[n].at \in {"gen", "rows", "prompt", "polish"} /\ Trouble
    /\ request' = Resolved(request, run[n].proc, gen, "failed")
    /\ run' = Over(n) /\ local' = Forgotten(n)
    /\ UNCHANGED <<log, redisVars>>

-----------------------------------------------------------------------------
(* Time and processes *)

\* Mutant: SET without EX.
LockLapses_Never == FALSE

\* SET with EX.
LockLapses == TRUE

\* Ninety seconds; a run that is still at work has outlived its lock.
LockExpires ==
    /\ lock /\ LockLapses /\ lock' = FALSE
    /\ IF \E n \in Runs : run[n].guarded THEN Trouble ELSE Calm
    /\ UNCHANGED <<log, gen, made, token, resent, taskVars>>

ResendMinuteEnds(i) ==
    /\ i \in DOMAIN resent
    /\ resent' = [j \in DOMAIN resent \ {i} |-> resent[j]]
    /\ UNCHANGED <<log, gen, made, token, lock, taskVars, trouble>>

\* Seven days after the last message: nothing is under way any more.
GenerationExpires ==
    /\ SilentWeek /\ gen # 0 /\ gen' = 0
    /\ \A n \in Runs : run[n] = Free
    /\ \A r \in Requests : request[r].at \in {"new", "done"}
    /\ UNCHANGED <<log, made, token, lock, resent, taskVars, trouble>>

Crash(p) ==
    /\ Trouble
    /\ request' = [r \in Requests |->
          IF request[r].proc = p THEN [request[r] EXCEPT !.at = "done", !.run = NoRun]
          ELSE request[r]]
    /\ run' = [n \in Runs |-> IF run[n].proc = p THEN Free ELSE run[n]]
    /\ local' = [local EXCEPT ![p] = NoRun]
    /\ UNCHANGED <<log, redisVars>>

-----------------------------------------------------------------------------
Works(n) ==
    \/ Wakes(n) \/ TriesLock(n) \/ Unlocks(n) \/ ReadsGeneration(n) \/ ReadsRows(n)
    \/ Goes(n, "prompt", "llm") \/ Goes(n, "llm", "polish") \/ Superseded(n)
    \/ Goes(n, "llm", "marking") \/ Marks(n, "marking", "failed_timeout", "failed")
    \/ Marks(n, "polish", "failed_blocked", "blocked") \/ FailsSuperseded(n)
    \/ Persists(n) \/ Tells(n)

Proceeds(r) ==
    \/ ReadsOld(r) \/ SetsGeneration(r) \/ InsertsRow(r) \/ StartsDebounced(r)
    \/ \E n \in Runs : SetsToken(r, n) \/ StartsAtOnce(r, n)

Next ==
    \/ \E r \in Requests, p \in Procs : SendChecks(r, p) \/ ResendChecks(r, p)
    \/ \E r \in Requests : Proceeds(r) \/ InsertFails(r) \/ WaitEnds(r)
    \/ \E n \in Runs : Works(n) \/ Breaks(n)
    \/ \E p \in Procs : Polls(p) \/ Crash(p)
    \/ \E i \in DOMAIN log : ResendMinuteEnds(i)
    \/ LockExpires \/ GenerationExpires

Spec == Init /\ [][Next]_vars

\* Tasks and requests go on, keys expire, and the user opens the page now and then.
\* Strongly, where a step waits for a place in Runs: the code has no such bound.
FairSpec ==
    /\ Spec
    /\ \A n \in Runs : SF_vars(Works(n))
    /\ \A r \in Requests : SF_vars(Proceeds(r)) /\ WF_vars(WaitEnds(r))
    /\ WF_vars(LockExpires) /\ SF_vars(\E p \in Procs : Polls(p))

-----------------------------------------------------------------------------
(* Properties *)

\* A request that is answered finds its own generation's reply in the timeline: the
\* reply is committed before the future is resolved, and no other reply resolves it.
AnsweredIsStored ==
    \A r \in Requests : request[r].future = "answered" =>
        \E i \in DOMAIN log : log[i].role = "assistant" /\ log[i].gen = request[r].gen

\* Guarded runs exclude each other, but for locks that were outlived: each of those
\* lets in one more at most, although DEL frees whatever lock there is.
RecoveriesExclusive ==
    Cardinality({n \in Runs : run[n].guarded}) <= 1 + trouble

\* A full queue in which every row waits for the model is worked off when the user
\* opens the page again, whatever had stopped its runs ("刷新页可自愈死锁",
\* backend/routers/chat.py:835) - unless Redis has forgotten the user's generation:
\* _execute_llm_bundle returns at once without one (line 382).
FullQueueRecovers == Stuck ~> ~Stuck \/ gen = 0

\* "新 user 打断时旧代作废，旧 LLM 返回后不得写 assistant" (src/docs/refactor/chat/
\* chat-refactor-agent-tasks.md:131): no reply of an old generation is stored.
\* The code: the last comparison comes before the safety checks, Step5.5 and the commit.
OldGenerationSilent ==
    [][\A i \in DOMAIN log' \ DOMAIN log :
          log'[i].role = "assistant" => log'[i].gen = gen]_vars

\* "同用户 bundle 互斥（恢复补跑与并发防抖错开）" (backend/services/
\* chat_queue_service.py:82): no message is answered twice.  The code: only recoveries
\* take the lock; a debounced run and a recovery of one generation both pass.
AnsweredOnce ==
    \A i, j \in DOMAIN log : i # j => log[i].pack \cap log[j].pack = {}

\* "delay_ms 后仅 token 仍匹配的那次执行 coro" (backend/services/
\* chat_queue_service.py:55): the runner whose token matches wakes and runs.  The code:
\* the local task is cancelled without a look at its token.
TokenHolderRuns ==
    [][\A n \in Runs : run[n].at = "sleep" /\ token = n => run'[n].at \in {"sleep", "gen"}]_vars

\* "failed_blocked 时须重新 send，不可 resend" (src/docs/design/openapi/
\* PRD-OpenAPI-APIKey-v1.md:320): with nothing under way, the user can send, resend, or
\* open the page to have the queue worked off.  The code: blocked rows fill the queue,
\* are no reason for a resend, and keep it from counting as stuck.
NeverWedged ==
    (\A n \in Runs : run[n] = Free) => ~QueueFull \/ HasBang \/ Stuck

=============================================================================
