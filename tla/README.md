# Verification of the realtime voice call and of the text chat

This directory holds TLA+ models of the core of the backend: how a realtime voice
call is admitted, run, metered, ended and settled by several server processes that
share MySQL and Redis; how its seconds are taken from its user's account; how it survives
a lost connection; how what was said and heard becomes turns, memories, a summary and a
message; and how text messages are queued, answered and numbered. TLC checks the models on
small instances; TLAPS proves the central safety properties for every value of the constants.

    tlc -config MCFaults.cfg MCVoiceLifecycle.tla
    tlapm VoiceLifecycle_proofs.tla

`PROJECT.json` lists components, runs, hazards, theorems and, definition by
definition, the source lines each model definition stands for.

## 1. Inventory

The repository is a FastAPI backend (`src/backend`) with an admin console, a web
client, migrations and design documents. Its hard behaviour is in the voice
subsystem: long-lived WebSocket sessions with several asyncio tasks each, Redis
leases that expire, money-like quota, and finalizers in any process.

| component | source (`src/backend/`) | state | operations | correct when | module |
|---|---|---|---|---|---|
| lease | `services/realtime_voice_lease_service.py` | user key, ZSET of scores, HASH of owners, cooldown key | ACQUIRE, RENEW, RELEASE, PRUNE_EXPIRED, COOLDOWN | the keys agree; global limit; one lease per user; nobody's lease is taken away | `VoiceLease` |
| call state | `…state_service.py` | `voice_call.status`, `connected_at`, `ended_at` | `transition_call`, `stage_final_state` | terminal is final; the final state says whether the call connected | `VoiceState` |
| creation | `…create_service.py` | idempotency record, new row, lease | `create` | one active call per user; a retried key never dials twice; no call inside the cooldown | `VoiceAdmission` |
| ticket | `…ticket_service.py` | `ticket_consumed_at` | `consume_voice_ticket` | one session per ticket | `VoiceAdmission` |
| gateway session | `…gateway_service.py`, `…local_runtime.py` | `stopped`, `connected`, `cancel`, the meter, `local_voice_calls` | `run`, `receiver`, `heartbeat`, `lifecycle`, `ending_clock`, `stop_local` | the handle outlives the call; meters only connected time; falls silent when ended elsewhere | `VoiceLifecycle` |
| reconnect | `…reconnect_service.py`, gateway `disconnected`/`restored` | recovery task, socket, one-time ticket | `begin`, `_recover`, `issue`, `attach`, `cancel` | at most one recovery; no lost wakeup; comes back over the attached socket, or ends | `VoiceReconnect` |
| ops | `…ops_service.py` | (transactions) | `end_call`, `reconcile`, hard stop, force-end, soft stop | charges once and with the end; replays harmlessly; every call ends | `VoiceLifecycle`, promise in `VoiceCallAbstract` |
| quota | `…quota_service.py` | meter slices, Redis checkpoint, account, ledger | `observe`, `checkpoint`, `recover`, `settle`, `grant_extra` | charge ≤ metered time; a checkpoint is a lower bound; nothing refused, lost or given twice | `VoiceQuota` |
| endpoints | `routers/realtime_voice.py` | – | create, stream, end, reconnect | `only_if_unconnected` never ends a connected call | `VoiceLifecycle` |
| turns, backchannel, playback evidence | `…turn_service.py`, `…backchannel_service.py`, `…playback_service.py` | held frames, reorder window, drafts, ledger of what was heard | `consume`, `apply_effective`, `freeze`, `final_flush` | in order; only heard text is stored; the flush closes every turn | `VoiceTurn` |
| memory jobs | `…memory_service.py`, `…job_service.py` | leased rows, traces, vectors, deletion fence | `process_next`, `_write_atom`, `_finish`, fence, retry | a superseded worker writes nothing; later turns win; nothing after deletion | `VoiceMemoryJob` |
| summary and follow-up jobs | `…summary_job_service.py`, `…followup_job_service.py`, `…followup_counter_service.py` | leased rows, the message, the day's counter | `poll`, `process`, `_account` | not after the user wrote, once, counted once; every job settles | `VoiceFollowup` |
| text chat | `services/chat_queue_service.py`, `routers/chat.py`, `services/chat_service.py` | generation, debounce token, bundle lock, open window | send, resend, `_execute_llm_bundle`, recovery | who is answered finds the reply; a full queue is worked off | `ChatBundle` |
| timeline | `services/timeline_seq_service.py`, `timeline_read_service.py` | `next_seq` | `allocate_sort_seq`, `get_timeline` | unique, in commit order; a walk over pages is exact | `TimelineSeq` |
| barge-in, ending policy, recall, provider, configuration, safety, metrics | `…barge_in_service.py`, `…ending_service.py`, … | – | event handlers, publish, classify | one end reason; cache and database agree | – |
| agent messages | `services/agent_service.py`, `agent_aware_service.py` | queue rows | claim, generate, send | sent once, not lost | – |
| relationship, memory, feed, diary, accounts, open API | other `services/` | rows | request handlers, scheduled generation | mostly data | – |

Interaction: the stream endpoint turns a ticket into a gateway session; the session
owns the meter and registers a handle in `local_voice_calls`; everybody who ends a
call goes through `VoiceOpsService.end_call`, which stops the local session if the
handle is in its own process, otherwise settles from the Redis checkpoint; row locks
on the user, then on the call, serialize all writers; a Redis lease, renewed by the
session's heartbeat, tells reconcile whether an owner is alive; cleanup (cooldown,
lease, context) follows the commit and is repeated by reconcile for 180 s. Inside a
session, events go from the provider's adapter through the backchannel filter into the
turn service and from there to the client, whose reports come back as evidence. When a
turn closes, a memory job is staged in its transaction; when the call has ended, a poll
stages the summary job, whose success may stage the message; both jobs are rows with a
lease that any process may take. Text messages and that message share one timeline, whose
numbers are given out under the lock of the user's sequence row.

What is hard: the four tasks of a session interleave at every await; the connected
flag, the meter and the row change at different moments; finalizers of different
processes race; a lease can expire under a live owner; processes die; COMMIT answers
get lost; cleanup fails half-way and is replayed late, when the user may already have
another call; jobs are taken over while their first worker still writes to a store outside
the database; what was checked before a lock is used after it. `PROJECT.json` ("hazards") names each of these at its line.

## 2. Modules

| module | models | uses |
|---|---|---|
| `VoiceLease` | the five Lua scripts and Redis time | – |
| `VoiceState` | the row: transition table, `transition_call`, `final_status`, `stage_final_state` | extends `VoiceLease` |
| `VoiceAdmission` | `create` as steps under the user's row lock; ticket consumption | extends `VoiceState` |
| `VoiceLifecycle` | gateway session, finalizers, reconcile, time, crashes; the composed system | extends `VoiceAdmission` |
| `VoiceCallAbstract` | the promise about a user's calls and their charges | instantiated by `VoiceLifecycle` |
| `VoiceQuota` | the account, the pools, the meter, the settlement, grants and publications | – |
| `VoiceReconnect` | the reconnect window of one session: coordinator, recovery task, sockets, tickets | – |
| `VoiceTurn` | filter, reorder buffer, drafts, playback evidence and the stop of one session | – |
| `VoiceMemoryJob` | memory jobs, their workers, the vector store, deletion | – |
| `VoiceFollowup` | summary job, message job, its counter, the user's texts, deletion | – |
| `ChatBundle` | text messages: generations, debounce, runs, the bundle lock, recovery | – |
| `TimelineSeq` | numbers of a user's timeline and the walk over its pages | – |
| `VoiceLifecycle_proofs` (with the leases), `VoiceQuota_proofs`, `VoiceReconnect_proofs`, `VoiceTurn_proofs`, `VoiceMemoryJob_proofs`, `VoiceFollowup_proofs`, `ChatBundle_proofs`, `TimelineSeq_proofs` | theorems | |
| `MCVoiceLifecycle`, `MCVoiceQuota`, `MCVoiceReconnect`, `MCVoiceTurn`, `MCVoiceMemoryJob`, `MCChatBundle` | constants and constraints for TLC | |
| `MCAllocators`, `MCVoicePostCall` | two components in one run: `VoiceLease` and `TimelineSeq`, `VoiceMemoryJob` and `VoiceFollowup` | |

`VoiceQuota` stands beside `VoiceLifecycle`, not on it. `VoiceLifecycle` decides when a call
may end, in which process and with which evidence, and calls what is billed "charged time";
`VoiceQuota` lets any process end a connected call at any time, with the owner's meter or
with the checkpoint, and follows the seconds. What it shows therefore holds under the
discipline of `VoiceLifecycle` too. In the same way `VoiceReconnect` and `VoiceTurn` look
into one connected session, of which `VoiceLifecycle` has the row and the meter, and the jobs
begin when it has ended. `ChatBundle` takes from `TimelineSeq` that rows are numbered in the
order of their commits.

Definitions named `X_Suffix` just above a definition `X`, with a comment that begins
"Mutant", are wrong variants of `X`. No specification uses them; each one, put in the
place of `X`, makes a run fail, which shows that the property depends on that code.

### VoiceLease
A script is one action, as Redis runs it. A deadline is a remaining lifetime counted
down by `LeaseTick`, because the scripts only compare deadlines with Redis TIME. The
user key disappears when its PX lifetime ends; the ZSET member and hash field stay
until a script prunes them. (Redis drops a PX key a millisecond after the instant at
which the scripts already regard the score as expired; the model has one instant.)
`LeaseNext` allows any caller any script at any time, so the results do not depend on
the discipline of callers, with one exception: a call id belongs to one user.

### VoiceState
`transition_call` and `stage_final_state` are operators; the modules that use them add
the guard `~CallLocked(c)`, because both lock the user's and the call's row. Reasons
are reduced to what `final_status` distinguishes. `age` and `sinceEnd` are the server
clock seen through `connected_at` and `ended_at`.

### VoiceAdmission
`create` holds the user's lock from its first query to its commit, with awaits on
Redis and configuration in between. It is three steps - `CreateChecks` (record and
cooldown read), `CreateLeases` (existing-call query, then ACQUIRE), `CreateCommits` -
with the ways out of it: `CreateRejected`, `CreateRefused`, `CreateRollsBack`,
`CreateAbandons` (the release is never sent: cancellation while ACQUIRE is awaited, or
a failing release) and `CreateCommitAnswerLost`. While the lock is held, no other
transaction on that user moves, but Redis scripts and time do.

### VoiceLifecycle
- `sess[c]` is the gateway session. `run` is where `run()` is, `lc` where `lifecycle()`
  (and the reconnect it waits for) is, `hb` where `heartbeat()` is; `stopped`, `live`
  (`self.connected`) and `userCancelled` are the flags of the class; `choice` is a target
  that was chosen before the row lock was obtained. `run` goes `accepted`, `running`,
  `closing` (a task has finished), `stopping`, `finalizing` (its own `end_call`), and on
  an exception `failed`, `rescuing` (the except-branch of the stream endpoint).
- `fin[a]` is an `end_call` in progress, for a session (`a` is its call), for a handler
  or for reconcile: `cancel` (the endpoint's `transition_call`), `stop`, `commit`,
  `cooldown`, `lease`. `local` is the handle found at the start, used to the end.
- `talk` is the truth nobody in the code can read: ticks that were really metered.
  `meter` is what the session's `ConnectedMeter` had taken in at its last observation,
  `ckpt` the Redis copy of it, `billed` the ledger. The four move apart and the
  properties relate them.
- `EndCommits` is the whole transaction: settlement, final state, and `CheckpointMissing`
  or `EndFails` when it cannot be carried out. Cleanup steps follow one by one.
- `Crash(p)` removes sessions, finalizers, handles and open transactions of a process.
  Rows and Redis keys stay.
- `Fault` bounds crashes and failed operations to `MaxFaults`.

Abstractions worth knowing. Why a task ends (lost socket, missing client heartbeat,
goodbye, silence, exhausted quota) is `TaskEnds`, possible at any time. The verdicts of
the answering model and of the provider are inputs. Renewal, observation and checkpoint
of one beat are one step. A reconcile pass is modelled call by call: the list it
read may be stale by the time a call's turn comes, and the only effect is a replayed
`end_call` on a finished call, which `ForceEnd` also does and `MCHandlers` checks.
Days, free and extra seconds and grace are abstracted to "charged time".

### VoiceQuota
- `account` is the row of `voice_quota_account`; `open` says whether it exists, `day` and
  `free` are `free_quota_date` and `free_remaining_seconds`. `ledger[c]` holds the sums of the
  call's ledger rows and the columns of its row; `usedOn` and `rowsOn` are what `balance` and
  `grant_extra` read of the ledger by date: the sum of free seconds and whether a row exists.
- `meter[c]` is the `ConnectedMeter` of the session, its slices summed by date (`free`, whose
  dates matter), in all (`extra`, `grace`, `billed`) and as a set of `dates`. `ckpt[c]` is
  its last checkpoint.
- `observed` is `observe`: `Portion` is one turn of its loop - seconds counted with the carried
  half, charged to the free pool of the date, then to the extra pool, until both are `Dry` - and
  `Connected` the loop, cut at midnight; `Graced` adds the grace seconds, `Grown` the growth.
  `ObserveRefused` is the condition under which it raises.
- `settle` is `_settle`: `SettleRefused` collects its three errors, `Debited` is the new account.
  It happens only inside `EndByOwner` and `EndByRecovery`, as in the transaction of `end_call`.
- `Create` is the balance gate of `create` with `apply_published_balance`; `GrantExtra` the
  administrator's handler with the version he was shown.
- The gateway (`Start`, `Connect`, `Observe`, `Stop`, `ObserveStopped`, `ObserveRaises`,
  `Checkpoint`, `Crash`, `Leave`) is what the meter sees of it. `ObserveStopped` is the turn of
  `ending_clock` that was asleep when the session stopped.
- `talked` and `spoken` are what really happened, `granted` what administrators gave: history
  the code does not keep, against which the properties compare its books.

A tick is half a second, so that a second has a fraction to carry. One clock drives the
monotonic and the wall time of all processes; what happens if a server's clock is set back is
visible only as `quota_clock_reversed`, which the theorems show unreachable without that.
The published daily seconds may differ each time a handler loads the configuration. `create`
is one step here, so midnight does not fall between its balance query and its commit.

### VoiceCallAbstract
A call is placed, answered or given up, spoken in, and settled; only one unfinished call
per user; a charge appears in the settling step alone and is at most what was spoken.
`VoiceLifecycle!ImplementsPromise` maps `status` to phases, `talk` to `spoken` and
`billed` to `charge`.

### VoiceReconnect
- `co` is the `ReconnectCoordinator` (`active`, `need_socket`, `socket`, `ready`, `jti`, the
  deadline), `lock` its lock where it is held across an await, `rec` where `_recover` is:
  `rebuild`, `check`, `wait` for the event, `restore`, `resume`, `announce`.
- `at[t]` is where each of four tasks is. The receiver and lifecycle await the recovery, the
  `Senders` (heartbeat, `ending_clock`) go on; a task whose failed send finds the session
  disconnected ends, and with it the call. `begin` is `BeginJoins` or `BeginActivates` and
  then `Disconnected`; between the two the coordinator's lock is held and `stop_local` may run.
- `net[s]` is what each socket really does: `stuck` is a connection that died without a close
  frame, on which writes time out. `reading` is the socket the receiver awaits, `socket` is
  `self.socket`: they come apart.
- `StopLocal`, `StopEnds`, `RunReturns` are `stop_local` up to its first await, its end, and
  the cancellation of the tasks by `run`.

The row is `connected`, `reconnecting` or `over`; `EndedElsewhere` is everybody else. What the
new provider session is told is left out.

### VoiceTurn
- `stream` is the adapter: which question is current, which earlier ones keep their output. A
  `Frame` is a numbered event; `piece` stands for a stretch of a reply with its sentence ends
  and audio.
- `Arrives` is `BackchannelFilter.consume` for one event (`Filtered`: buffers that are
  `Overdue` are freed first, then the event's own question is decided), `TimesOut` the filter's
  timer. What they release is delivered by `deliver`, the overdue buffer (`freed`) before the rest
  (`given`) and each in the order of its numbers: `Consumes` (`turns.consume` takes the
  lock and queues), `Handles` event by event while the next number is there, `Handled`, and
  `Forwards`, which sends to the client and feeds the `ledger` of playback.
- `Reports` is what an honest client sends back; `Applies` is `apply_effective`, in the receiver
  and again in `stop_local` for what is left. Its transaction may fail.
- `stop` is `stop_local` and the finalizer: `TakesEvidence` reply by reply, `Freezes`,
  `Flushes`. `Stopping` is what happens before the first await, whoever calls it.

One reply per question. What the safety gates withhold, rejected frames of the client and
reply identities are left out.

### VoiceMemoryJob
- `job[j]` is a `voice_memory_job` row, numbered by the age of its turn; `worker[w]` a
  `process_next` under way. `Looks` reads the candidate before the lock (the transaction's
  snapshot), `ClaimSettles` and `ClaimTakes` are the claim, `Extracts` is the model's answer with
  `_save_snapshot`, `BeginsItem` `_write_atom` up to the write, `Upserts` the vector store,
  `CommitsTrace` the commit behind it, `Finishes` `_finish`.
- `RowLocked` and `DocLocked` are the row and the document lock that `_write_atom` holds over
  these steps; `Skips` is SKIP LOCKED, `FenceWaits` the fence that locks all jobs first.
- `late` are writes given up after 20 s or by a crash; `LateWriteLands` when the store applies
  them all the same.

What a text yields is a set of documents, chosen freely.

### VoiceFollowup
- `summaryJob` and `followup` are the two job rows of one call, `summarizer` and `dispatcher` the
  workers with what they keep between their transactions.
- The dispatcher has three of them: `DispatchClaims`; then `PreparesTopic` asks a model without
  a lock; then `DispatchOpens` (the first plain read fixes the snapshot, `saw`),
  `DispatchChecks` under the call's lock and `DispatchSends` with the timeline's sequence row,
  where everything is looked at again by locking reads (`WroteByNow`); then `AccountReads`,
  `Counts` (the Lua script, whose answer may be lost) and `Accounts`.
- `timeline` holds the user's texts and the message in the order of their numbers;
  `storing` is a text whose transaction has the sequence row. `DispatchSends` may commit and go on
  as if it had failed: a lost answer.
- `Mine` and `Owned` decide who may still change the row; the first asks for the owner, the
  second for an unexpired lease too, as the two services do.
- `Sweeps` is `_purge_call`, by an administrator or when the source has expired.

One call; later calls are the count of their texts, `later`, which the topic check reads. Left
out: invalid snapshots and configurations, the check for missing memory jobs that precedes a
summary, and the deletion of old job rows.

### ChatBundle
- `log` is `conversation_log` by number, `gen`, `token`, `lock` and `resent` are the Redis keys,
  `local` each process's `_debounce_tasks`, `request[r]` a send or resend with its future,
  `run[n]` a task that executes a bundle.
- A request is `SendChecks`, `ReadsOld` and `SetsGeneration` (two Redis calls), `InsertsRow`,
  `SetsToken` and `StartsDebounced` (an await in between), `WaitEnds`; a resend skips the row.
- A run is `Wakes` (the token is compared), or `TriesLock` for a recovery, then `ReadsGeneration`,
  `ReadsRows`, the comparisons around the model (`Goes`, `Superseded`), `Marks` for a failure,
  `Persists`, `Tells`, and `Unlocks` for who took the lock.
- `Recovery` is `schedule_recovery_bundle`. `Runs` bounds the tasks that may exist at a time; where
  there is no place left a start waits, except a recovery that would find the lock taken.

One user. Histories, prompts, media and billing are left out.

### TimelineSeq
`Locks`, `FindsNone`, `MakesRow` and `LosesRace` are `allocate_sort_seq` with the race of two first
messages; `holder` keeps the row until `Commits` or `RollsBack`. `ReadsPage` is `get_timeline`: from
each source the newest `FetchLimit` rows before the cursor, merged and cut. The tables that carry
numbers are `Sources`. It shares no step with its users, whose transactions are `Begins` to
`Commits`.

## 3. Runs

| run | instance | what it shows |
|---|---|---|
| `allocators` | leases: 3 users, 4 calls, 2 slots, lifetimes 1 and 3; numbers: 3 writers, 2 tables, pages of 2 rows, 6 numbers | the three keys agree, the limit holds, no lease is stolen; rows become visible in the order of their numbers, and a walk is exact while others write |
| `faults` | 1 call, 2 processes, hard limit 2 ticks, 1 fault | the single-call consistency properties and the abstract promise, with a crash or failure at every step |
| `handlers` | 1 call, 1 process, 1 handler, no fault | `only_if_unconnected`, plain hang-up and force-end at every await |
| `redial` | 2 calls of one user, 2 keys, 1 fault | admission races a call that is running, ending, being cleaned up or abandoned |
| `liveness` | 1 call, 2 processes, 1 fault | every call ends unless its evidence is lost, the owner's audio stops, the lease comes free |
| `stuck` (violation) | 1 call, 1 process, 1 fault | a crash before the first checkpoint leaves a call that cannot end |
| `quota` | 2 calls, days of 4 half seconds, 3 of them, pools of 0 or 1 s, grace 1 s, mute, one second to grant | what is billed, earned and given as grace is what was talked; nothing refused, given twice or lost |
| `reconnect` | 1 session, 3 sockets, 2 tickets, 1 failure, one task that sends | one recovery at a time, no lost wakeup, back over the attached socket, and an end to every outage |
| `memory` | memory jobs: 2 turns of a call, 2 workers, 1 document, 1 retry and 1 by an administrator, 1 trouble, late writes; follow-up: 1 summarizer, 2 dispatchers, 1 text, 1 later call, 1 mishap | the owner alone writes, later turns win, nothing after the fence; the message once, never after the user wrote, counted once; every job settles |
| `chat` | 2 processes, 2 requests, 2 runs, 1 trouble, a silent week | who is answered finds the reply; recoveries exclude each other but for outlived locks |
| `chat_full` | 2 processes, 1 request fills the queue, 2 runs, 2 troubles | a full queue is worked off when the page is opened |
| `turn` | 2 questions of at most 3 pieces, 8 events, hold 3, window 3, 1 trouble, sends may fail | nothing waits for a number that is not on its way; only heard text is stored; the flush closes every turn |

Two pairs of components share a run (`MCAllocators`, `MCVoicePostCall`). They have no variable in
common, so each behaviour of the run moves one of them, chosen by `part` in the first state: the
run is the sum of two instances, and the product of their states is never built. In
`MCVoicePostCall` the fairness of both is assumed, which costs the resting one nothing.

Bounds. One tick of lifetime, of hard limit and of cooldown is enough to distinguish
"before" and "after" each deadline in every order; the hard limit of 2 in `faults`
lets the meter, the checkpoint and the truth take three different values. A second fault
mostly repeats the first, because reconcile's state is not durable; one fault already
reaches every failure action. `talk`, `age` and `sinceEnd` stop counting at their bounds
(`HardLimit`, `RecentTicks`), where the code no longer distinguishes later instants.
Two processes are needed for a finalizer that has no local handle; processes and keys
are interchangeable, so the safety runs use symmetry; the liveness runs do not.
- `redial`: in `OnlyFirstCallStreams` the second call stops at its row and the first when its meter
  has observed a second: the run asks about rows and keys, not about bills.
- `liveness`: `ServedAndReconciledApart` keeps requests in the first process and the reconciler in
  the second. Its mirror image is left out, and reconcile in the owner's process, which
  `faults` and `stuck` have; no fairness is assumed of creating or streaming a call.
- `quota`: a day has two seconds, so a call with one free second runs dry inside the day, with a
  granted second on top exactly at midnight, and with the next day's pool after it.
  `TwoCallsAreShort` lets one call run over two midnights, to the pools of three dates, and a second
  one join up to the first midnight. `OneMidnight` is the one bound in a guard that is not a
  counter: a running session is observed before a second midnight passes, which
  `ending_clock` does four times a second. `MaxDay` and `MaxNow` end the run.
- `reconnect`: three sockets are the one that is lost, the one attached, and one more after that is
  lost too, during the recovery or after it. A second task that sends is in `MCReconnectSend`
  (section 4), where it ends the call.
- `turn`: `Hold` and `Window` are 64 and 128 in the code. What matters is that the buffer is not
  larger than the window, so that a held number always comes free before the window is
  full; 3 and 3 is the tightest instance. `LongWhereItMatters` lets the stream pass 4 events only
  while a frame is held, or after a loss until the buffer overflows.
- `chat`: two requests and two runs give a message that arrives at any point of the run before it,
  a resend, and a recovery beside a debounced run. `QueueLimit` (5) and `PackLimit` (10) are 2.
- `memory`: one document suffices to let two turns compete; two workers to have one superseded.
Deadlock checking is off because each of these systems may stop when its users do.

Fairness. Nothing is assumed of users, administrators, the network, the provider, deletions,
faults or the answers of models, except that answers or their timeouts come.
- `VoiceLifecycle!FairSpec`: time passes. The tasks of an event loop that are ready run (weak
  fairness of heartbeat and run; strong fairness where a row lock is needed,
  because InnoDB grants a contended lock in queue order, but another holder may come in
  between and disable the step for a while). Reconcile comes round every five seconds
  (`tasks/scheduler.py:277`) and takes every call that qualifies. A create transaction that
  holds the lock gets on. A session may stay connected until the hard limit, when reconcile
  ends it.
- `VoiceReconnect!FairSpec`: ready tasks run, the deadline passes, a task that has ended makes `run` stop
  the session, and an expired window makes the recovery fail. All weak.
- `VoiceMemoryJob!Fairness`: weakly, workers go on, leases and retry times end; strongly, a worker
  looks at each call: the scheduler polls every second and works on all the calls it finds at
  once (`gather`), so that a candidate which comes and goes with other workers' claims is met.
- `VoiceFollowup!FollowFairness`: both jobs are polled every second (`tasks/scheduler.py:292`, `:297`); workers
  go on, leases and deadlines end. All weak.
- `ChatBundle!FairSpec`: the lock's lifetime ends; strongly, runs and requests go on and the page is
  opened now and then - strongly because a step may wait for a place in `Runs`, a bound the code
  does not have.

## 4. What the code does not keep

`stuck` is a run of its own: `recover` refuses to settle without a checkpoint, by design ("never
guess billable time"), so a process that dies between the connected commit and the first
checkpoint leaves an active row, and the user cannot dial again. The design says such a
call is settled from its last heartbeat; TD-038 tracks a repair. All other crashes are
covered: `CallsComeToRest` passes.

The following instances are kept beside the runs. In each, TLC finds the named property violated;
the property states what the quoted document or comment says. Several are rare or were accepted
by the authors; they are here so that a change of the code can be tried against them.

| configuration (module) | property | stated by | what the code does |
|---|---|---|---|
| `MCCooldown` (`MCVoiceLifecycle`) | `NoRedialInsideCooldown` | `steps-verified.md:1529` "`<3s` 返回误触阻断" | `create` reads the cooldown key once (`…create_service.py:95`); the last call's cleanup writes it after its commit, possibly between that read and the new row |
| `MCQuotaPublished` (`MCVoiceQuota`) | `PublishedDailyShown` | `data.md:394` "旧daily值不会屏蔽新发布额度" | an account opened by a grant while 0 s a day were published shows 0 free seconds after a positive value is published that day; the comment at `…quota_service.py:121` makes the exception deliberate |
| `MCReconnectSend` (`MCVoiceReconnect`) | `LossOnlyRecovers` | `steps-verified.md:2287` "断线立即进入 reconnecting" | a send that fails while a recovery is under way raises in heartbeat or `ending_clock` (`…gateway_service.py:399`): the call ends |
| `MCReconnectListen` (`MCVoiceReconnect`) | `ListensToItsSocket` | `steps-verified.md:2289` "回到“在听”" | after a recovery begun by a sender the receiver still awaits the old socket (`:322`) |
| `MCReconnectLeak` (`MCVoiceReconnect`) | `ProviderReleased` | `steps-verified.md:1913` "资源释放顺序，覆盖进程取消和迟到事件" | a `begin` inside `disconnected` creates its recovery task after `stop_local` has cancelled (`…reconnect_service.py:87`): a provider session stays open |
| `MCMemoryLate` (`MCVoiceMemoryJob`) | `NothingLateAfterFence` | `data.md:426` "防止迟到写回" | a vector write is given up after 20 s (`…memory_service.py:769`) and its locks are released; the store may apply it after the fence |
| `MCMemorySuccess` (`MCVoiceMemoryJob`) | `SuccessStays` | comment, `…memory_service.py:507` "successful vectors/traces remain" | a candidate read before the lock is cancelled under a fence whatever its status is by then (`:551`) |
| `MCChatOld` (`MCChatBundle`) | `OldGenerationSilent` | `chat-refactor-agent-tasks.md:131` "旧 LLM 返回后不得写 assistant" | the last comparison of generations (`chat.py:488`) comes before the safety checks and the commit |
| `MCChatTwice` (`MCChatBundle`) | `AnsweredOnce` | docstring, `chat_queue_service.py:82` "同用户 bundle 互斥" | a debounced run takes no lock (`chat_service.py:280`): it and a recovery answer the same rows |
| `MCChatToken` (`MCChatBundle`) | `TokenHolderRuns` | docstring, `chat_queue_service.py:55` "仅 token 仍匹配的那次执行" | the local task is replaced after an await, without a look at its token (`:76`): the holder may be cancelled |
| `MCChatWedged` (`MCChatBundle`) | `NeverWedged` | `PRD-OpenAPI-APIKey-v1.md:320` "failed_blocked 时须重新 send" | blocked rows fill the queue, allow no resend, and keep it from counting as stuck (`chat_service.py:109`, `:121`) |
| `MCTurnWindow` (`MCVoiceTurn`) | `WindowKept` | comment, `…backchannel_service.py:82` "Stay below the turn service's 128-event reorder bound" | a send that fails in the filter's timeout loses the frames behind it (`:33`): the gap fills the buffer, the call ends |
| `MCTurnFlush` (`MCVoiceTurn`) | `FlushedCloses` | `steps-verified.md:2002` "final flush 后补齐或标残缺" | evidence that could not be committed closes the draft (`…turn_service.py:341`), and the flush skips it |
| `MCTurnAccounted` (`MCVoiceTurn`) | `TurnsAccounted` | the same | events that wait behind held frames are dropped by `freeze` (`:405`) before they made a draft |
| `MCTurnReport` (`MCVoiceTurn`) | `HonestReports` | `steps-verified.md:2075` "完整回复且客户端 completed" | the client is sent frames the turn service still queues (`:327`); its honest report is then refused and ends the call |

(`steps-verified.md` is `docs/design/realtime_voice/P1/steps-verified.md`, `data.md`
`docs/contract/current/realtime-voice/data.md`; each property's comment has the full path.)
`FullQueueRecovers` excepts a forgotten generation for the same reason: `_execute_llm_bundle`
returns at once without one (`chat.py:382`), so a full queue older than a week is not worked off by
a refresh. `NewestTraceWins` and `NothingAfterFence` except the late writes, `NothingWaitsForLost`
and `FlushedUnlessFailed` the failures above.

## 5. Proofs

Assumptions are the named ASSUMEs of the modules: `LeaseAssumption`, `StateAssumption`,
`LifecycleAssumption`, `QuotaAssumption`, `ReconnectAssumption`, `MemoryAssumption`,
`WorkerAssumption`, `FollowupAssumption`, `ChatAssumption`, `RunAssumption`,
`TurnAssumption`, `TimelineAssumption`, `NoWriterAssumption`. They say: finitely many calls, each with one
user; positive lifetimes, limits and bounds; distinct actors; finitely many runs; a grace period that is at most
a day; frames held at most as many as the reorder window takes (64 and 128 in the code). All
fault bounds are arbitrary, so the results hold for any number of crashes and failures. The
type invariants are proved and not checked again by the runs.

`VoiceLifecycle_proofs`, the leases
- `KeysAlwaysAgree`: `LeaseTypeOK /\ KeysAgree` is inductive as it stands. Agreement of
  the three keys is the strengthening from which the rest follows:
- `OneLease`: two unexpired leases of one user would both hold the user's key.
- `NoStealing`: ACQUIRE refuses a held key, RELEASE compares it, expiry frees it.
- `CapacityKept`: a granted ACQUIRE either renews a call that is already counted or adds
  one to a set whose cardinality was below the limit; every other script only shrinks
  `Live`. It uses the library's theorems on finite cardinalities.

`VoiceLifecycle_proofs`, the composed system
- `TypeCorrect`: `TypeOK`, action by action.
- `ImplementsLeases`: every step of the composed system is a step of `LeaseSpec` or leaves
  the Redis keys alone, so the theorems on leases carry over (`SystemNeverStealsLeases`).
- `OneCall`: the invariant is `OneActiveCallPerUser` strengthened with `Reserved`: while a
  create transaction has passed the existing-call query and not committed, its user has
  no active call. It is kept because an inactive row never becomes active except
  by that transaction (`NoRevival`), and the row lock admits one create per user. Note
  that the Redis lease plays no part: it may expire.
- `NoOvercharge`: meter, checkpoint and ledger are each at most `talk` (`BehindInv`). They
  are copies taken at different moments of a value that never decreases.
- `KeysDialOnce`: from the look-up of a key to the insert of its record the key has none
  (`FreshKeys`); two fields written several awaits apart agree because only the holder of the
  user's lock fills a record of the user.
- `FinalStates`, `MeteredWhenConnected`, `HandlesOutliveCalls`, `StrictHangUpsOnlyClean` come from one
  invariant, `AgreedInv`, because each needs the others to be inductive: tasks and finalizers act on what
  they read of a row before an await, so the invariant says what the row may have become
  meanwhile. `RowsAgree` ties a status to `connected_at` (and no row is "ending", which nothing writes);
  `FreshCalls` keeps a call without a committed create without a row; `SessionInv` says which of its
  transitions a session may still ask for and that a running session is registered or its call is over;
  `MeterInv` where a meter can be on, or be put on by a task that is about to; `FinalizerInv` what
  the row is in each phase of `end_call`. `Moves` describes every write of an existing row; the insert is
  the other one (`InsertKeeps`).
- `ChargesCoverCheckpoints`: `SavedInv` adds that no checkpoint is ahead of its meter, so both kinds of
  evidence cover it.
- `OneSession`: a session is accepted with a ticket that is there, and `AgreedInv` has no ticket
  of a call that ever had a session.
- `KeepsPromise`: the system refines `VoiceCallAbstract`. `RowWriters` sorts the steps by whether they insert
  a row, move one, settle one, let time pass or write none; each is `Place`, `Answer`, `GiveUp`, `Settle`, `Speak`
  or a stutter of the promise. That `Settle` charges at most what was spoken is `BehindInv`, that only a call
  that was connected is charged is `RowsAgree`.

`VoiceQuota_proofs` - for any number of calls, any length of day, any published values and grants:
- `QuotaInv` relates what an active call has reserved to the account. `Sound`: per date within
  the pool of the date, in all within the extra pool, never on a date before the account's.
  `PoolInv`: today's pool is at most the call's daily seconds less what the ledger has of
  today - or the account's date is over and the call has not billed it. `UsedInv`:
  no ledger row is later than the account's date. `MeterInv`, `ClockInv` and `OneActive` tie
  meters to the clock and allow one active call. It is inductive because no step takes from
  the account while a call is active, except that call's settlement: a grant only adds, or
  waits for the call if it would open the account; a publication is applied before the call.
- `ObservedSound` shows that an observation keeps `Sound`, one portion at a time (`PortionSound`):
  what a portion charges is what was left of the pools, and a portion touches only its date.
- `SettlementAlwaysPossible` and `ObservationAlwaysPossible` follow from `Sound` (`SoundSettles`):
  the refusals in `settle` and `observe` are defensive, none can be met.
- `FreePoolOnce`: `PoolOnce` adds a call's free seconds of a date to those of the calls before.
- `VersionsMove`: from the types and the three writers of the row.
- `ExtraNeitherLostNorTwice`: `ExtraUsed` has an element for each second a ledger took, so that a
  settlement adds as many (`MoreUsed`) as it takes from the pool (`SettleMoves`); `settle` refuses a negative debit,
  and nothing but a grant and a settlement changes either side.
- `BillingIsExact`, `GrowthIsEarned`: `TimeInv` says that a running meter has billed or carries (the rest,
  and what is still to be observed since `last`) the whole of the talk, up to grace, and likewise the growth for
  the unmuted part. A meter stays connected after `stop` only when its last observation raised
  (`Raised`): then the account is past the meter's date for good, and the time it leaves out can
  only make the bill smaller. `Within` keeps checkpoint and ledger behind the meter.
  `TurnTimes` does one turn of the loop of `observe`, `ObservedTimes` all of an observation.
- `GraceAfterPools`: grace begins in a portion that runs dry, and a portion that runs dry has
  spent both pools (`PortionSpends`); a midnight that refills the free pool postpones it.

`VoiceReconnect_proofs` - for any number of sockets, tickets, failures and sending tasks. `IInv` adds to the
types: without an open window there is no recovery under way, but for one that `begin` creates after
`stop_local` (`ClosedMeansIdle`); inside `disconnected` the window is open and nothing has come of it
(`BeginUnderWay`); the event follows `need_socket` (`ReadyFollowsNeed`); from the start of `restored`
no socket is needed and the attached one is in use (`SocketSettled`). `OneAtATime` (`OneRecovery`) follows
because `begin` looks at `active` and `stopped` under the lock; `NoLostWakeup`, `RestoresOverAttached`
and `StopIsFinal` are conjuncts.

`VoiceTurn_proofs` - for any stream of events, any `Hold` and `Window` that fit together and any number of
failures. `FilterSorts` says once what the filter may do to the frames of a question (hold all, give all on,
turn all into tombstones, give on the event alone); `Locked` that only the holder of the turn lock stores, and
nobody once it is frozen. On these rest three invariants:
- `NothingLost`: `Numbered` (no number twice between filter and drafts), `Kept` (none missing from the one the
  turn service waits for to the last one sent) and `Near` (no held frame is `Hold` numbers old, so the
  turn service is never more than `Hold` behind, and one more only while the last event is still on its way).
  `RoomForNext` concludes that the buffer has room for whatever comes next: its numbers are distinct,
  and all in an interval of fewer than `Hold`. `Kept` and `Near` hold until something fails;
  `MCTurnWindow` shows why no longer.
- `StoresWhatWasHeard`: `Reported` bounds not only the rows but every result that waits for the lock by what
  the client has reported since, which never shrinks; a reply that is over is not fed any more.
- `FlushCloses`: `Collecting` gives every collecting turn an open draft, which the flush looks for; evidence
  that is being stored has one too, and a late event never reopens what is closed.

`VoiceMemoryJob_proofs` - for any jobs, calls, documents and workers. `IInv` is `Rows` (what each row may
hold in each status, with the budget of attempts and the trace behind a success), `Crew` (what a worker
knows), `Writers` and `Others`. The heart is `Writers`: from `BeginsItem` to the commit a writer owns the
row, its call is not fenced, no later turn has traced its document and nobody else writes
it. It holds because everybody else needs the row lock, or skips the row. `OwnersWrite` is a conjunct;
`WhoWrites` says that a change of the store is a writer's or a late one, from which
`NothingWrittenAfterFence` and `NewestWins` follow. `FenceForgets`, `SuccessTraced` and
`AttemptsBounded` come from `Rows`.

`VoiceFollowup_proofs` - for any number of workers, texts, later calls and mishaps. `IInv` is `Job` (sent
exactly when there is a message; absent while the call runs; nothing in progress once deleted),
`Source` (the same for the summary), `Crew`, `Story`, `Counted` and `Others`. `Crew` carries the
argument: who is on the way to the timeline still owns the job, and there is one owner, so two dispatchers
never append; who counts has a message. `Story` then needs only that the append comes
after a look behind the sequence row (`NeverLate`), and `Counted` that the marker and the counter change
together (`SentOnce`). `SteadyKeeps` is the frame lemma of the steps that leave the message alone;
`MineChanges` moves a job by its owner. `DeletionHolds` says that a deleted call keeps no summary, no text and
no job, workers under way notwithstanding.

`ChatBundle_proofs` - for any number of requests, processes and messages:
- `RecoveriesExclude`: `ExclusiveInv` counts - the guarded runs are at most one if the lock is set, and one more
  per outlived lock, because only a guarded run deletes the lock; `Fits` marks the steps that
  guard nothing new.
- `AnswersAreStored`: `ReplyInv` - whoever is about to tell has stored the reply of that generation, and rows
  are never deleted (`RepliesStay`).

`TimelineSeq_proofs` - for any number of writers and tables and any length of page. `IInv` says that committed
numbers are below the next one (`Below`) and that the holder starts where the row stands (`HolderAtBase`);
`UniqueNumbers` and `OrderedCommits` follow, with the first-use race included. `WalkExact` takes two steps:
- about a page, whatever the rows: one that the merge leaves out lies below more than a page of others
  (`MergedFills`, which needs the one row more that each table is asked for), so that a page leaves no gap
  (`PageCloses`), and without `has_more` it is all that is left (`PageEnds`). Newest and
  oldest rows exist because numbers have a least one (`Least`, `NewestRow`);
- about the walk (`WInv`): between two pages a reader has, of what was there when it began, exactly the
  rows from its cursor on, and what has come since is above the cursor (`Between`), since rows
  become visible in the order of their numbers.

Only model-checked: liveness under fairness (`CallsComeToRest`, `ConnectedOrStopped`, `PostprocessSettles`,
`JobsSettle`, `FullQueueRecovers`), which like ENABLED is out of the proof system's reach. Every
invariant and every action property of the passing runs is stated by a theorem. No
module declares a RECURSIVE operator, and none needs a fold: the one sum, of the used extra seconds, is
the size of a set.

## 6. Not modelled

- Voice barge-in: the controller decides a metric and a log line; the interruption itself
  reaches the system as a client's report, which `VoiceTurn` has.
- Voice ending policy: it decides the reason with which its session calls `end_call`.
  `VoiceLifecycle` leaves reason and moment open, so its results cover every decision; which of goodbye,
  silence, quota and hard limit wins is not checked.
- Voice configuration, runtime configuration and capability checks, by far the longest files: they
  validate documents field by field, a function of the input, and publish versions; a call runs
  on the snapshot of its creation. The soft stop of the ops service publishes too. The
  compensation of a publication that fails between database and cache is not modelled.
- Agent messages and awareness: a queue with claims like that of the voice jobs. A worker that dies
  after its claim leaves the row `generating` (`agent_aware_service.py:205`); it is listed as a hazard
  without a property.
- Voice recall and session context, safety and crisis, metrics, the provider's binary protocol, prompts
  and model calls, relationship growth, retrieval of text memories, feed, diary and planner,
  accounts, the open API's façade, administration pages, the web client, migrations and scripts: data,
  classification or I/O without a protocol of their own.
- Inside the modelled parts, what is left out is named in the subsections of section 2 and in the notes of
  `PROJECT.json`: which admission gate refuses, the order of quota slices, the content of a recovered
  session, what safety gates withhold from turns, invalid snapshots of jobs and the age at which rows are
  deleted.
