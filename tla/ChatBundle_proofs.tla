------------------------- MODULE ChatBundle_proofs -------------------------
(***************************************************************************)
(* Proofs about ChatBundle, for any number of processes, requests, tasks,   *)
(* rows and faults: guarded runs exclude each other but for outlived locks, *)
(* and who is answered finds the reply of its generation in the timeline.   *)
(***************************************************************************)
EXTENDS ChatBundle, TLAPS, FiniteSetTheorems, SequenceTheorems

\* A sequence of rows is a function on 1..n.
LEMMA RowsAsFunction ==
    ASSUME NEW n \in Nat, NEW f \in [1..n -> Row]
    PROVE  f \in Seq(Row) /\ Len(f) = n /\ DOMAIN f = 1..n
<1>1. f \in Seq(Row)
    BY SeqDef
<1> QED
    BY <1>1, LenProperties

\* Marking rows changes neither their number, nor their role, generation and pack.
LEMMA MarkedRows ==
    ASSUME log \in Seq(Row), NEW pack, NEW status \in {"delivered", "failed_timeout", "failed_blocked"}
    PROVE  /\ Marked(pack, status) \in Seq(Row)
           /\ DOMAIN Marked(pack, status) = DOMAIN log
           /\ Len(Marked(pack, status)) = Len(log)
           /\ \A i \in DOMAIN log :
                 /\ Marked(pack, status)[i].role = log[i].role
                 /\ Marked(pack, status)[i].gen = log[i].gen
<1>1. Len(log) \in Nat /\ DOMAIN log = 1..Len(log) /\ log \in [1..Len(log) -> Row]
    BY LenProperties
<1>2. \A i \in DOMAIN log : log[i] \in Row
    BY <1>1
<1>3. \A i \in DOMAIN log : [log[i] EXCEPT !.status = status] \in Row
    BY <1>2 DEF Row
<1>4. Marked(pack, status) \in [1..Len(log) -> Row]
    BY <1>1, <1>2, <1>3 DEF Marked
<1>5. \A i \in DOMAIN log : /\ Marked(pack, status)[i].role = log[i].role
                            /\ Marked(pack, status)[i].gen = log[i].gen
    BY <1>2 DEF Marked, Row
<1> QED
    BY <1>1, <1>4, <1>5, RowsAsFunction

\* A recovery, for whatever process, leaves runs of the right shape.
LEMMA RecoveryShape ==
    ASSUME NEW runs \in [Runs -> Run], NEW p \in Procs \cup {NoRun},
           NEW rec \in Recovery(runs, p)
    PROVE  rec \in [Runs -> Run]
<1>1. [Free EXCEPT !.at = "lock", !.proc = p] \in Run
    BY DEF Free, Run
<1>2. \A n \in Runs : Starts(runs, n, p, "lock") \in [Runs -> Run]
    BY <1>1 DEF Starts
<1> QED
    BY <1>2 DEF Recovery

\* A row is appended behind the others.
LEMMA LogGrowsByAppend ==
    ASSUME NEW old \in Seq(Row), NEW row \in Row
    PROVE  /\ Append(old, row) \in Seq(Row)
           /\ DOMAIN old \subseteq DOMAIN Append(old, row)
           /\ \A i \in DOMAIN old : Append(old, row)[i] = old[i]
           /\ Len(old) + 1 \in DOMAIN Append(old, row)
           /\ Append(old, row)[Len(old) + 1] = row
<1>1. Len(old) \in Nat /\ DOMAIN old = 1..Len(old)
    BY LenProperties
<1> QED
    BY <1>1, AppendProperties

\* A future is resolved without touching what else a request is.
LEMMA ResolvedShape ==
    ASSUME NEW reqs \in [Requests -> Request], NEW p, NEW g,
           NEW outcome \in {"answered", "failed", "blocked", "obsolete"}
    PROVE  Resolved(reqs, p, g, outcome) \in [Requests -> Request]
<1>1. \A r \in Requests : reqs[r] \in Request /\ [reqs[r] EXCEPT !.future = outcome] \in Request
    BY DEF Request
<1> QED
    BY <1>1 DEF Resolved

\* A request, or a run, that goes on keeps its shape.
LEMMA RequestGoesOn ==
    ASSUME NEW q \in Request,
           NEW at \in {"new", "old", "set", "row", "token", "runner", "wait", "done"}
    PROVE  [q EXCEPT !.at = at] \in Request
    BY DEF Request

LEMMA RunGoesOn ==
    ASSUME NEW q \in Run, NEW g \in Nat, NEW pack \in SUBSET Nat,
           NEW at \in {"free", "sleep", "lock", "gen", "rows", "prompt", "llm", "marking",
                        "polish", "tell", "unlock"}
    PROVE  /\ [q EXCEPT !.at = at] \in Run
           /\ [q EXCEPT !.gen = g, !.at = at] \in Run
           /\ [q EXCEPT !.pack = pack, !.at = at] \in Run
    BY DEF Run

\* The type invariant of the queue.
THEOREM TypeCorrect == Spec => []TypeOK
<1>1. Init => TypeOK
  <2> SUFFICES ASSUME Init PROVE TypeOK
      OBVIOUS
  <2>1. Unsent \in Request /\ Free \in Run
      BY DEF Unsent, Request, Free, Run
  <2>2. log \in Seq(Row) /\ DOMAIN resent = {}
      BY DEF Init
  <2>3. gen \in 0..made /\ made \in Nat /\ trouble \in 0..MaxTrouble
      BY ChatAssumption DEF Init
  <2>4. request \in [Requests -> Request] /\ run \in [Runs -> Run]
      BY <2>1 DEF Init
  <2>5. token \in Runs \cup {NoRun} /\ local \in [Procs -> Runs \cup {NoRun}] /\ lock \in BOOLEAN
      BY DEF Init
  <2> QED
      BY <2>2, <2>3, <2>4, <2>5 DEF TypeOK
<1>2. TypeOK /\ [Next]_vars => TypeOK'
  <2> SUFFICES ASSUME TypeOK, [Next]_vars PROVE TypeOK'
      OBVIOUS
  <2> USE DEF TypeOK
  <2>0. MaxTrouble \in Nat
      BY ChatAssumption
  <2>1. \A r \in Requests : request[r] \in Request
      OBVIOUS
  <2>2. \A n \in Runs : run[n] \in Run
      OBVIOUS
  <2>3. ASSUME NEW r \in Requests, NEW p \in Procs, SendChecks(r, p) PROVE TypeOK'
    <3>1. request' \in [Requests -> Request]
      <4> DEFINE at == IF QueueFull THEN "done" ELSE "old"
      <4> DEFINE future == IF QueueFull THEN "refused" ELSE "none"
      <4>1. [request[r] EXCEPT !.proc = p, !.at = at, !.future = future] \in Request
        <5>1. at \in {"old", "done"} /\ future \in {"none", "refused"}
            OBVIOUS
        <5>2. request[r] \in Request /\ p \in Procs
            BY <2>1
        <5> HIDE DEF at, future, TypeOK
        <5> QED
            BY <5>1, <5>2 DEF Request
      <4>2. request' = [request EXCEPT ![r].proc = p, ![r].at = at, ![r].future = future]
          BY <2>3 DEF SendChecks
      <4> HIDE DEF at, future
      <4> QED
          BY <4>1, <4>2
    <3>2. run' \in [Runs -> Run]
        BY <2>3, RecoveryShape DEF SendChecks
    <3> QED
        BY <2>3, <3>1, <3>2 DEF SendChecks, redisVars
  <2>4. ASSUME NEW r \in Requests, NEW p \in Procs, ResendChecks(r, p) PROVE TypeOK'
    <3>1. request' \in [Requests -> Request]
      <4> PICK batch \in OpenRows :
             LET sofar == IF batch \in DOMAIN resent THEN resent[batch] ELSE 0 IN
             request' = [request EXCEPT ![r].proc = p, ![r].resend = TRUE,
                            ![r].at = IF sofar < MaxResends THEN "old" ELSE "done",
                            ![r].future = IF sofar < MaxResends THEN "none" ELSE "refused"]
          BY <2>4 DEF ResendChecks
      <4> DEFINE sofar == IF batch \in DOMAIN resent THEN resent[batch] ELSE 0
      <4> DEFINE at == IF sofar < MaxResends THEN "old" ELSE "done"
      <4> DEFINE future == IF sofar < MaxResends THEN "none" ELSE "refused"
      <4>1. [request[r] EXCEPT !.proc = p, !.resend = TRUE, !.at = at, !.future = future] \in Request
        <5>1. at \in {"old", "done"} /\ future \in {"none", "refused"}
            OBVIOUS
        <5> HIDE DEF at, future
        <5> QED
            BY <2>1, <5>1 DEF Request
      <4>2. request' = [request EXCEPT ![r].proc = p, ![r].resend = TRUE, ![r].at = at,
                                       ![r].future = future]
          OBVIOUS
      <4> HIDE DEF at, future
      <4> QED
          BY <4>1, <4>2
    <3>2. \A i \in DOMAIN resent' : i \in DOMAIN log /\ resent'[i] \in Nat
        BY <2>4 DEF ResendChecks, OpenRows
    <3> QED
        BY <2>4, <3>1, <3>2 DEF ResendChecks
  <2>5. ASSUME NEW r \in Requests, ReadsOld(r) PROVE TypeOK'
    <3>1. request' \in [Requests -> Request]
        BY <2>1, <2>5 DEF ReadsOld, Request
    <3> QED
        BY <2>5, <3>1 DEF ReadsOld, redisVars
  <2>6. ASSUME NEW r \in Requests, SetsGeneration(r) PROVE TypeOK'
    <3> DEFINE next == made + 1
    <3>1. next \in Nat /\ made' = next /\ gen' = next
        BY <2>6 DEF SetsGeneration
    <3>2. Invalidated(r) \in [Requests -> Request]
        BY ResolvedShape DEF Invalidated
    <3>3. request' = [Invalidated(r) EXCEPT ![r].gen = next, ![r].old = 0,
                         ![r].at = IF request[r].resend THEN "runner" ELSE "row"]
        BY <2>6 DEF SetsGeneration
    <3> HIDE DEF next
    <3>4. Invalidated(r)[r] \in Request
        BY <3>2
    <3>5. request' \in [Requests -> Request]
        BY <3>1, <3>2, <3>3, <3>4 DEF Request
    <3>6. gen' \in 0..made'
        BY <3>1
    <3> QED
        BY <2>6, <3>1, <3>5, <3>6 DEF SetsGeneration
  <2>7. ASSUME NEW r \in Requests, InsertsRow(r) PROVE TypeOK'
    <3> DEFINE row == [role |-> "user", status |-> "pending_llm",
                       gen |-> request[r].gen, pack |-> {}]
    <3>1. row \in Row
        BY <2>1 DEF Row, Request
    <3>2. log' = Append(log, row)
        BY <2>7 DEF InsertsRow
    <3> HIDE DEF row
    <3>3. log' \in Seq(Row) /\ DOMAIN log \subseteq DOMAIN log'
        BY <3>1, <3>2, LogGrowsByAppend
    <3>4. request' \in [Requests -> Request]
      <4>1. [request[r] EXCEPT !.at = "token"] \in Request
          BY <2>1, RequestGoesOn
      <4>2. request' = [request EXCEPT ![r].at = "token"]
          BY <2>7 DEF InsertsRow
      <4> QED
          BY <4>1, <4>2
    <3> QED
        BY <2>7, <3>3, <3>4 DEF InsertsRow, redisVars
  <2>8. ASSUME NEW r \in Requests, InsertFails(r) PROVE TypeOK'
    <3>1. request' \in [Requests -> Request]
      <4>1. [request[r] EXCEPT !.at = "done", !.future = "failed"] \in Request
          BY <2>1 DEF Request
      <4> QED
          BY <2>8, <4>1 DEF InsertFails
    <3> QED
        BY <2>0, <2>8, <3>1 DEF InsertFails, Trouble, redisVars
  <2>9. ASSUME NEW r \in Requests, NEW n \in Runs, SetsToken(r, n) PROVE TypeOK'
    <3>1. request' \in [Requests -> Request]
      <4>1. [request[r] EXCEPT !.run = n, !.at = "runner"] \in Request
          BY <2>1 DEF Request
      <4> QED
          BY <2>9, <4>1 DEF SetsToken
    <3> QED
        BY <2>9, <3>1 DEF SetsToken
  <2>10. ASSUME NEW r \in Requests, StartsDebounced(r) PROVE TypeOK'
    <3> DEFINE n == request[r].run
    <3> DEFINE p == request[r].proc
    <3> DEFINE cleared == [m \in Runs |-> IF m = local[p] THEN Free ELSE run[m]]
    <3>1. request' \in [Requests -> Request]
      <4>1. [request[r] EXCEPT !.run = NoRun, !.at = "wait"] \in Request
          BY <2>1 DEF Request
      <4> QED
          BY <2>10, <4>1 DEF StartsDebounced
    <3>2. p \in Procs \cup {NoRun} /\ n \in Runs \cup {NoRun}
        BY <2>1 DEF Request
    <3>3. cleared \in [Runs -> Run]
        BY <2>2 DEF Free, Run
    <3>4. run' = Starts(cleared, n, p, "sleep")
        BY <2>10 DEF StartsDebounced
    <3>5. local' = [local EXCEPT ![p] = n]
        BY <2>10 DEF StartsDebounced
    <3> HIDE DEF n, p, cleared
    <3>6. [Free EXCEPT !.at = "sleep", !.proc = p] \in Run
        BY <3>2 DEF Free, Run
    <3>7. run' \in [Runs -> Run]
        BY <3>3, <3>4, <3>6 DEF Starts
    <3>8. local' \in [Procs -> Runs \cup {NoRun}]
        BY <3>2, <3>5
    <3> QED
        BY <2>10, <3>1, <3>7, <3>8 DEF StartsDebounced, redisVars
  <2>11. ASSUME NEW r \in Requests, NEW n \in Runs, StartsAtOnce(r, n) PROVE TypeOK'
    <3>1. request' \in [Requests -> Request]
      <4>1. [request[r] EXCEPT !.at = "wait"] \in Request
          BY <2>1, RequestGoesOn
      <4>2. request' = [request EXCEPT ![r].at = "wait"]
          BY <2>11 DEF StartsAtOnce
      <4> QED
          BY <4>1, <4>2
    <3>2. [Free EXCEPT !.at = "gen", !.proc = request[r].proc] \in Run
        BY <2>1 DEF Free, Run, Request
    <3>3. run' \in [Runs -> Run]
        BY <2>11, <3>2 DEF StartsAtOnce, Starts
    <3> QED
        BY <2>11, <3>1, <3>3 DEF StartsAtOnce, redisVars
  <2>12. ASSUME NEW r \in Requests, WaitEnds(r) PROVE TypeOK'
    <3>1. request' \in [Requests -> Request]
      <4>1. [request[r] EXCEPT !.at = "done"] \in Request
          BY <2>1, RequestGoesOn
      <4>2. request' = [request EXCEPT ![r].at = "done"]
          BY <2>12 DEF WaitEnds
      <4> QED
          BY <4>1, <4>2
    <3> QED
        BY <2>12, <3>1 DEF WaitEnds, redisVars
  <2>13. ASSUME NEW p \in Procs, Polls(p) PROVE TypeOK'
    <3>1. run' \in [Runs -> Run]
        BY <2>13, RecoveryShape DEF Polls
    <3> QED
        BY <2>13, <3>1 DEF Polls, redisVars
  <2>14. ASSUME NEW n \in Runs, Wakes(n) PROVE TypeOK'
    <3>1. run' \in [Runs -> Run]
      <4>1. Free \in Run /\ [run[n] EXCEPT !.at = "gen"] \in Run
          BY <2>2 DEF Free, Run
      <4> QED
          BY <2>14, <4>1 DEF Wakes
    <3>2. local' \in [Procs -> Runs \cup {NoRun}]
        BY <2>14 DEF Wakes, Forgotten
    <3> QED
        BY <2>14, <3>1, <3>2 DEF Wakes, redisVars
  <2>15. ASSUME NEW n \in Runs, TriesLock(n) PROVE TypeOK'
    <3>1. run' \in [Runs -> Run]
      <4>1. Free \in Run /\ [run[n] EXCEPT !.at = "gen", !.guarded = TRUE] \in Run
          BY <2>2 DEF Free, Run
      <4> QED
          BY <2>15, <4>1 DEF TriesLock
    <3> QED
        BY <2>15, <3>1 DEF TriesLock
  <2>16. ASSUME NEW n \in Runs, Unlocks(n) PROVE TypeOK'
    <3>1. run' \in [Runs -> Run]
        BY <2>2, <2>16 DEF Unlocks, Free, Run
    <3> QED
        BY <2>16, <3>1 DEF Unlocks
  <2>17. ASSUME NEW n \in Runs PROVE Forgotten(n) \in [Procs -> Runs \cup {NoRun}]
      BY DEF Forgotten
  <2>18. ASSUME NEW n \in Runs PROVE Over(n) \in [Runs -> Run]
    <3>1. Free \in Run /\ [run[n] EXCEPT !.at = "unlock"] \in Run
        BY <2>2 DEF Free, Run
    <3> QED
        BY <3>1 DEF Over
  <2>19. ASSUME NEW n \in Runs, ReadsGeneration(n) PROVE TypeOK'
    <3>1. gen \in Nat
        OBVIOUS
    <3>2. [run EXCEPT ![n].gen = gen, ![n].at = "rows"] \in [Runs -> Run]
      <4>1. [run[n] EXCEPT !.gen = gen, !.at = "rows"] \in Run
          BY <2>2, <3>1, RunGoesOn
      <4> QED
          BY <4>1
    <3> QED
        BY <2>17, <2>18, <2>19, <3>2 DEF ReadsGeneration, redisVars
  <2>20. ASSUME NEW n \in Runs, ReadsRows(n) PROVE TypeOK'
    <3>1. Packed \in SUBSET Nat
      <4>1. DOMAIN log \subseteq Nat
          BY LenProperties
      <4> QED
          BY <4>1 DEF Packed, OpenRows
    <3>2. [run EXCEPT ![n].pack = Packed, ![n].at = "prompt"] \in [Runs -> Run]
      <4>1. [run[n] EXCEPT !.pack = Packed, !.at = "prompt"] \in Run
          BY <2>2, <3>1, RunGoesOn
      <4> QED
          BY <4>1
    <3> QED
        BY <2>17, <2>18, <2>20, <3>2 DEF ReadsRows, redisVars
  <2>21. ASSUME NEW n \in Runs, NEW from, NEW to \in {"llm", "polish", "marking"}, Goes(n, from, to)
         PROVE TypeOK'
    <3>1. [run EXCEPT ![n].at = to] \in [Runs -> Run]
      <4>1. [run[n] EXCEPT !.at = to] \in Run
          BY <2>2, RunGoesOn
      <4> QED
          BY <4>1
    <3> QED
        BY <2>21, <3>1 DEF Goes, redisVars
  <2>22. ASSUME NEW n \in Runs, Superseded(n) PROVE TypeOK'
    <3>1. run[n].proc \in Procs \cup {NoRun}
        BY <2>2 DEF Run
    <3>2. \A rec \in Recovery(Over(n), run[n].proc) : rec \in [Runs -> Run]
        BY <2>18, <3>1, RecoveryShape
    <3> QED
        BY <2>17, <2>22, <3>2 DEF Superseded, redisVars
  <2>23. ASSUME NEW n \in Runs, FailsSuperseded(n) PROVE TypeOK'
      BY <2>17, <2>18, <2>23 DEF FailsSuperseded, redisVars
  <2>24. ASSUME NEW n \in Runs, NEW from, NEW status \in {"failed_timeout", "failed_blocked"},
                NEW outcome \in {"failed", "blocked"}, Marks(n, from, status, outcome)
         PROVE TypeOK'
      BY <2>17, <2>18, <2>24, MarkedRows, ResolvedShape DEF Marks, redisVars
  <2>25. ASSUME NEW n \in Runs, Persists(n) PROVE TypeOK'
    <3> DEFINE old == Marked(run[n].pack, "delivered")
    <3> DEFINE row == [role |-> "assistant", status |-> "none", gen |-> run[n].gen,
                       pack |-> run[n].pack]
    <3>1. old \in Seq(Row) /\ DOMAIN old = DOMAIN log
        BY MarkedRows
    <3>2. row \in Row
        BY <2>2 DEF Row, Run
    <3>3. log' = Append(old, row)
        BY <2>25 DEF Persists
    <3> HIDE DEF old, row
    <3>4. log' \in Seq(Row) /\ DOMAIN log \subseteq DOMAIN log'
        BY <3>1, <3>2, <3>3, LogGrowsByAppend
    <3>5. run' \in [Runs -> Run]
      <4>1. [run[n] EXCEPT !.at = "tell"] \in Run
          BY <2>2, RunGoesOn
      <4>2. run' = [run EXCEPT ![n].at = "tell"]
          BY <2>25 DEF Persists
      <4> QED
          BY <4>1, <4>2
    <3> QED
        BY <2>25, <3>4, <3>5 DEF Persists, redisVars
  <2>26. ASSUME NEW n \in Runs, Tells(n) PROVE TypeOK'
      BY <2>17, <2>18, <2>26, ResolvedShape DEF Tells, redisVars
  <2>27. ASSUME NEW n \in Runs, Breaks(n) PROVE TypeOK'
      BY <2>0, <2>17, <2>18, <2>27, ResolvedShape DEF Breaks, Trouble, redisVars
  <2>28. ASSUME NEW p \in Procs, Crash(p) PROVE TypeOK'
    <3>1. request' \in [Requests -> Request]
      <4>1. \A r \in Requests : [request[r] EXCEPT !.at = "done", !.run = NoRun] \in Request
        <5> SUFFICES ASSUME NEW q \in Request
                     PROVE  [q EXCEPT !.at = "done", !.run = NoRun] \in Request
            BY <2>1
        <5> HIDE DEF TypeOK
        <5> QED
            BY DEF Request
      <4> QED
          BY <2>1, <2>28, <4>1 DEF Crash
    <3>2. run' \in [Runs -> Run]
        BY <2>2, <2>28 DEF Crash, Free, Run
    <3>3. local' \in [Procs -> Runs \cup {NoRun}]
        BY <2>28 DEF Crash
    <3> QED
      <4>1. trouble' \in 0..MaxTrouble
        <5>1. Trouble
            BY <2>28 DEF Crash
        <5> QED
            BY <2>0, <5>1 DEF Trouble
      <4> QED
          BY <2>28, <3>1, <3>2, <3>3, <4>1 DEF Crash, redisVars
  <2>29. ASSUME NEW i \in DOMAIN log, ResendMinuteEnds(i) PROVE TypeOK'
      BY <2>29 DEF ResendMinuteEnds, taskVars
  <2>30. CASE LockExpires
    <3>1. trouble' \in 0..MaxTrouble /\ lock' = FALSE
      <4>1. CASE Trouble
          BY <2>0, <2>30, <4>1 DEF LockExpires, Trouble
      <4>2. CASE Calm
          BY <2>0, <2>30, <4>2 DEF LockExpires, Calm
      <4> QED
          BY <2>30, <4>1, <4>2 DEF LockExpires
    <3> QED
        BY <2>30, <3>1 DEF LockExpires, taskVars
  <2>31. CASE GenerationExpires
      BY <2>31 DEF GenerationExpires, taskVars
  <2>32. CASE UNCHANGED vars
      BY <2>32 DEF vars, redisVars, taskVars
  <2>33. ASSUME NEW n \in Runs, Works(n) PROVE TypeOK'
      BY <2>14, <2>15, <2>16, <2>19, <2>20, <2>21, <2>22, <2>23, <2>24, <2>25, <2>26, <2>33
      DEF Works
  <2>34. ASSUME NEW r \in Requests, Proceeds(r) PROVE TypeOK'
      BY <2>5, <2>6, <2>7, <2>9, <2>10, <2>11, <2>34 DEF Proceeds
  <2> HIDE DEF TypeOK
  <2> QED
      BY <2>3, <2>4, <2>8, <2>12, <2>13, <2>27, <2>28, <2>29, <2>30, <2>31, <2>32, <2>33, <2>34
      DEF Next
<1> QED
    BY <1>1, <1>2, PTL DEF Spec

-----------------------------------------------------------------------------
(* Guarded runs *)

Guarded == {n \in Runs : run[n].guarded}

\* The inductive form: the lock accounts for one guarded run, every outlived lock for
\* one more, and only a guarded run gives a lock back.
ExclusiveInv ==
    /\ \A n \in Runs : run[n].at = "unlock" => run[n].guarded
    /\ Cardinality(Guarded) <= (IF lock THEN 1 ELSE 0) + trouble

\* Runs among which nothing new is guarded.
Fits(runs) ==
    \A n \in Runs : /\ runs[n].guarded => run[n].guarded
                    /\ runs[n].at = "unlock" => runs[n].guarded

\* There are finitely many guarded runs.
LEMMA GuardedFinite == IsFiniteSet(Guarded) /\ Cardinality(Guarded) \in Nat
<1>1. Guarded \subseteq Runs
    BY DEF Guarded
<1> QED
    BY <1>1, RunAssumption, FS_Subset, FS_CardinalityType

\* A step after which nothing new is guarded, and that leaves the lock alone.
LEMMA QuietStep ==
    ASSUME TypeOK, TypeOK', ExclusiveInv, lock' = lock, trouble' >= trouble, Fits(run')
    PROVE  ExclusiveInv'
<1>1. Guarded' \subseteq Guarded
    BY DEF Guarded, Fits
<1>2. Cardinality(Guarded') <= Cardinality(Guarded) /\ Cardinality(Guarded') \in Nat
    BY <1>1, GuardedFinite, FS_Subset, FS_CardinalityType
<1>3. Cardinality(Guarded)' = Cardinality(Guarded')
    OBVIOUS
<1>4. \A n \in Runs : run'[n].at = "unlock" => run'[n].guarded
    BY DEF Fits
<1>5. trouble \in Nat /\ trouble' \in Nat /\ Cardinality(Guarded) \in Nat
    BY ChatAssumption, GuardedFinite DEF TypeOK
<1>6. Cardinality(Guarded) <= (IF lock THEN 1 ELSE 0) + trouble
    BY DEF ExclusiveInv
<1>7. Cardinality(Guarded') <= (IF lock' THEN 1 ELSE 0) + trouble'
    BY <1>2, <1>5, <1>6
<1> QED
    BY <1>3, <1>4, <1>7 DEF ExclusiveInv

\* The ways in which runs change guard nothing.
LEMMA FittingRuns ==
    ASSUME TypeOK, ExclusiveInv
    PROVE  /\ Fits(run)
           /\ \A n \in Runs : Fits(Over(n))
           /\ \A n \in Runs, to \in {"gen", "llm", "polish", "marking", "rows", "prompt", "tell"} :
                 Fits([run EXCEPT ![n].at = to])
           /\ \A n \in Runs : Fits([run EXCEPT ![n] = Free])
<1>1. run \in [Runs -> Run] /\ \A n \in Runs : run[n] \in Run
    BY DEF TypeOK
<1>2. \A n \in Runs : run[n].at = "unlock" => run[n].guarded
    BY DEF ExclusiveInv
<1>3. ~Free.guarded /\ Free.at = "free"
    BY DEF Free
<1>4. ASSUME NEW n \in Runs PROVE Fits(Over(n))
    BY <1>1, <1>2, <1>3 DEF Fits, Over, Run
<1>5. ASSUME NEW n \in Runs, NEW to \in {"gen", "llm", "polish", "marking", "rows", "prompt", "tell"}
      PROVE  Fits([run EXCEPT ![n].at = to])
    BY <1>1, <1>2 DEF Fits, Run
<1> QED
    BY <1>1, <1>2, <1>3, <1>4, <1>5 DEF Fits

\* Nor does the start of a recovery or of any other run.
LEMMA StartFits ==
    ASSUME NEW runs \in [Runs -> Run], Fits(runs), NEW n \in Runs, NEW p,
           NEW at \in {"sleep", "lock", "gen"}
    PROVE  Fits(Starts(runs, n, p, at))
<1> DEFINE new == [Free EXCEPT !.at = at, !.proc = p]
<1>1. ~new.guarded /\ new.at # "unlock"
    BY DEF Free
<1>2. Starts(runs, n, p, at) = [runs EXCEPT ![n] = new]
    BY DEF Starts
<1> HIDE DEF new
<1> QED
    BY <1>1, <1>2 DEF Fits

\* A recovery guards nothing before it holds the lock.
LEMMA RecoveryFits ==
    ASSUME NEW runs \in [Runs -> Run], Fits(runs), NEW p, NEW rec \in Recovery(runs, p)
    PROVE  Fits(rec)
<1>1. \A n \in Runs : Fits(Starts(runs, n, p, "lock"))
    BY StartFits
<1> QED
    BY <1>1 DEF Recovery

\* But for locks that were outlived, guarded runs exclude each other
\* (schedule_recovery_bundle): each such lock lets in one more at most.
THEOREM RecoveriesExclude == Spec => []RecoveriesExclusive
<1>1. Init => ExclusiveInv
  <2> SUFFICES ASSUME Init PROVE ExclusiveInv
      OBVIOUS
  <2>1. Guarded = {}
      BY DEF Init, Guarded, Free
  <2>2. Cardinality(Guarded) = 0
      BY <2>1, FS_EmptySet
  <2> QED
      BY <2>2 DEF Init, ExclusiveInv, Free
<1>2. TypeOK /\ TypeOK' /\ ExclusiveInv /\ [Next]_vars => ExclusiveInv'
  <2> SUFFICES ASSUME TypeOK, TypeOK', ExclusiveInv, [Next]_vars PROVE ExclusiveInv'
      OBVIOUS
  <2>1. /\ run \in [Runs -> Run] /\ (\A n \in Runs : run[n] \in Run)
        /\ trouble \in Nat /\ trouble' \in Nat /\ Cardinality(Guarded) \in Nat
      BY ChatAssumption, GuardedFinite DEF TypeOK
  <2>2. \A n \in Runs : Over(n) \in [Runs -> Run]
    <3>1. Free \in Run /\ \A n \in Runs : [run[n] EXCEPT !.at = "unlock"] \in Run
        BY <2>1 DEF Free, Run
    <3> QED
        BY <2>1, <3>1 DEF Over
  <2>3. ASSUME NEW r \in Requests, NEW p \in Procs, SendChecks(r, p) PROVE ExclusiveInv'
    <3>1. Fits(run')
        BY <2>1, <2>3, FittingRuns, RecoveryFits DEF SendChecks
    <3> QED
        BY <2>1, <2>3, <3>1, QuietStep DEF SendChecks, redisVars
  <2>4. ASSUME NEW r \in Requests, NEW p \in Procs, ResendChecks(r, p) PROVE ExclusiveInv'
      BY <2>1, <2>4, FittingRuns, QuietStep DEF ResendChecks
  <2>5. ASSUME NEW r \in Requests,
               ReadsOld(r) \/ SetsGeneration(r) \/ InsertsRow(r) \/ WaitEnds(r)
               \/ \E n \in Runs : SetsToken(r, n)
        PROVE  ExclusiveInv'
    <3>1. run' = run /\ lock' = lock /\ trouble' = trouble
        BY <2>5 DEF ReadsOld, SetsGeneration, InsertsRow, WaitEnds, SetsToken, redisVars
    <3> QED
        BY <2>1, <3>1, FittingRuns, QuietStep
  <2>6. ASSUME NEW r \in Requests, InsertFails(r) PROVE ExclusiveInv'
    <3>1. run' = run /\ lock' = lock /\ trouble' = trouble + 1
        BY <2>6 DEF InsertFails, Trouble, redisVars
    <3> QED
        BY <2>1, <3>1, FittingRuns, QuietStep
  <2>7. ASSUME NEW r \in Requests, StartsDebounced(r) PROVE ExclusiveInv'
    <3> DEFINE n == request[r].run
    <3> DEFINE p == request[r].proc
    <3> DEFINE cleared == [m \in Runs |-> IF m = local[p] THEN Free ELSE run[m]]
    <3>1. run' = Starts(cleared, n, p, "sleep")
        BY <2>7 DEF StartsDebounced
    <3>2. cleared \in [Runs -> Run]
        BY <2>1 DEF Free, Run
    <3>3. Fits(cleared)
      <4>1. ~Free.guarded /\ Free.at = "free"
          BY DEF Free
      <4> QED
          BY <4>1, FittingRuns DEF Fits
    <3>4. n \in Runs \cup {NoRun}
        BY DEF TypeOK, Request
    <3> HIDE DEF n, p, cleared
    <3>5. Fits(run')
      <4>1. CASE n \in Runs
          BY <3>1, <3>2, <3>3, <4>1, StartFits
      <4>2. CASE n = NoRun
        <5>1. run' = cleared
            BY <3>1, <3>2, <4>2, RunAssumption DEF Starts
        <5> QED
            BY <3>3, <5>1
      <4> QED
          BY <3>4, <4>1, <4>2
    <3> QED
        BY <2>1, <2>7, <3>5, QuietStep DEF StartsDebounced, redisVars
  <2>8. ASSUME NEW r \in Requests, NEW n \in Runs, StartsAtOnce(r, n) PROVE ExclusiveInv'
    <3>1. Fits(run')
        BY <2>1, <2>8, FittingRuns, StartFits DEF StartsAtOnce
    <3> QED
        BY <2>1, <2>8, <3>1, QuietStep DEF StartsAtOnce, redisVars
  <2>9. ASSUME NEW p \in Procs, Polls(p) PROVE ExclusiveInv'
    <3>1. Fits(run')
        BY <2>1, <2>9, FittingRuns, RecoveryFits DEF Polls
    <3> QED
        BY <2>1, <2>9, <3>1, QuietStep DEF Polls, redisVars
  <2>10. ASSUME NEW n \in Runs, Wakes(n) PROVE ExclusiveInv'
    <3>1. Fits(run')
        BY <2>10, FittingRuns DEF Wakes
    <3> QED
        BY <2>1, <2>10, <3>1, QuietStep DEF Wakes, redisVars
  <2>11. ASSUME NEW n \in Runs, TriesLock(n) PROVE ExclusiveInv'
    <3>1. CASE LockFree
      <4> DEFINE new == [run EXCEPT ![n].at = "gen", ![n].guarded = TRUE]
      <4>1. run' = new /\ lock' = TRUE /\ trouble' = trouble /\ ~lock
          BY <2>11, <3>1 DEF TriesLock, LockFree
      <4>2. Guarded' \subseteq Guarded \cup {n}
          BY <2>1, <4>1 DEF Guarded, Run
      <4>3. Cardinality(Guarded \cup {n}) <= Cardinality(Guarded) + 1
        <5>1. Cardinality(Guarded) \in Nat /\ IsFiniteSet(Guarded)
            BY GuardedFinite
        <5>2. Cardinality(Guarded \cup {n})
              = IF n \in Guarded THEN Cardinality(Guarded) ELSE Cardinality(Guarded) + 1
            BY <5>1, FS_AddElement
        <5> QED
            BY <5>1, <5>2
      <4>4. IsFiniteSet(Guarded \cup {n}) /\ Cardinality(Guarded \cup {n}) \in Nat
          BY GuardedFinite, FS_AddElement, FS_CardinalityType
      <4>5. Cardinality(Guarded') <= Cardinality(Guarded \cup {n}) /\ Cardinality(Guarded') \in Nat
          BY <4>2, <4>4, FS_Subset, FS_CardinalityType
      <4>6. Cardinality(Guarded) <= trouble
          BY <2>1, <4>1 DEF ExclusiveInv
      <4>7. Cardinality(Guarded)' <= (IF lock' THEN 1 ELSE 0) + trouble'
          BY <2>1, <4>1, <4>3, <4>4, <4>5, <4>6
      <4>8. \A m \in Runs : run'[m].at = "unlock" => run'[m].guarded
          BY <2>1, <4>1 DEF ExclusiveInv, Run
      <4> QED
          BY <4>7, <4>8 DEF ExclusiveInv
    <3>2. CASE ~LockFree
      <4>1. Fits(run') /\ lock' = lock /\ trouble' = trouble
          BY <2>11, <3>2, FittingRuns DEF TriesLock
      <4> QED
          BY <2>1, <4>1, QuietStep
    <3> QED
        BY <3>1, <3>2
  <2>12. ASSUME NEW n \in Runs, Unlocks(n) PROVE ExclusiveInv'
    <3>1. run' = [run EXCEPT ![n] = Free] /\ lock' = FALSE /\ trouble' = trouble
        BY <2>12 DEF Unlocks
    <3>2. n \in Guarded
        BY <2>12 DEF Unlocks, ExclusiveInv, Guarded
    <3>3. Guarded' = Guarded \ {n}
        BY <2>1, <3>1 DEF Guarded, Free
    <3>4. Cardinality(Guarded') = Cardinality(Guarded) - 1
        BY <3>2, <3>3, GuardedFinite, FS_RemoveElement
    <3>5. Cardinality(Guarded) <= 1 + trouble
        BY <2>1 DEF ExclusiveInv
    <3>6. Cardinality(Guarded)' <= (IF lock' THEN 1 ELSE 0) + trouble'
        BY <2>1, <3>1, <3>4, <3>5
    <3>7. \A m \in Runs : run'[m].at = "unlock" => run'[m].guarded
        BY <3>1, FittingRuns DEF Fits
    <3> QED
        BY <3>6, <3>7 DEF ExclusiveInv
  <2>13. ASSUME NEW n \in Runs, ReadsGeneration(n) PROVE ExclusiveInv'
    <3>1. Fits([run EXCEPT ![n].gen = gen, ![n].at = "rows"])
        BY <2>1 DEF Fits, Run, ExclusiveInv
    <3>2. Fits(run')
        BY <2>13, <3>1, FittingRuns DEF ReadsGeneration
    <3> QED
        BY <2>1, <2>13, <3>2, QuietStep DEF ReadsGeneration, redisVars
  <2>14. ASSUME NEW n \in Runs, ReadsRows(n) PROVE ExclusiveInv'
    <3>1. Fits([run EXCEPT ![n].pack = Packed, ![n].at = "prompt"])
        BY <2>1 DEF Fits, Run, ExclusiveInv
    <3>2. Fits(run')
        BY <2>14, <3>1, FittingRuns DEF ReadsRows
    <3> QED
        BY <2>1, <2>14, <3>2, QuietStep DEF ReadsRows, redisVars
  <2>15. ASSUME NEW n \in Runs, NEW from, NEW to \in {"llm", "polish", "marking"}, Goes(n, from, to)
         PROVE ExclusiveInv'
    <3>1. run' = [run EXCEPT ![n].at = to] /\ lock' = lock /\ trouble' = trouble
        BY <2>15 DEF Goes, redisVars
    <3>2. Fits([run EXCEPT ![n].at = to])
        BY FittingRuns
    <3> QED
        BY <2>1, <3>1, <3>2, QuietStep
  <2>16. ASSUME NEW n \in Runs, Superseded(n) PROVE ExclusiveInv'
    <3>1. Fits(run')
        BY <2>2, <2>16, FittingRuns, RecoveryFits DEF Superseded
    <3> QED
        BY <2>1, <2>16, <3>1, QuietStep DEF Superseded, redisVars
  <2>17. ASSUME NEW n \in Runs, FailsSuperseded(n) PROVE ExclusiveInv'
      BY <2>1, <2>17, FittingRuns, QuietStep DEF FailsSuperseded, redisVars
  <2>18. ASSUME NEW n \in Runs, NEW from, NEW status, NEW outcome,
                Marks(n, from, status, outcome)
         PROVE ExclusiveInv'
      BY <2>1, <2>18, FittingRuns, QuietStep DEF Marks, redisVars
  <2>19. ASSUME NEW n \in Runs, Persists(n) PROVE ExclusiveInv'
    <3>1. run' = [run EXCEPT ![n].at = "tell"] /\ lock' = lock /\ trouble' = trouble
        BY <2>19 DEF Persists, redisVars
    <3>2. Fits([run EXCEPT ![n].at = "tell"])
        BY FittingRuns
    <3> QED
        BY <2>1, <3>1, <3>2, QuietStep
  <2>20. ASSUME NEW n \in Runs, Tells(n) PROVE ExclusiveInv'
      BY <2>1, <2>20, FittingRuns, QuietStep DEF Tells, redisVars
  <2>21. ASSUME NEW n \in Runs, Breaks(n) PROVE ExclusiveInv'
    <3>1. run' = Over(n) /\ lock' = lock /\ trouble' = trouble + 1
        BY <2>21 DEF Breaks, Trouble, redisVars
    <3> QED
        BY <2>1, <3>1, FittingRuns, QuietStep
  <2>22. ASSUME NEW p \in Procs, Crash(p) PROVE ExclusiveInv'
    <3>1. lock' = lock /\ trouble' = trouble + 1
        BY <2>22 DEF Crash, Trouble, redisVars
    <3>2. \A n \in Runs : run'[n] = run[n] \/ run'[n] = Free
        BY <2>22 DEF Crash
    <3>3. Fits(run')
        BY <3>2, FittingRuns DEF Fits, Free
    <3> QED
        BY <2>1, <3>1, <3>3, QuietStep
  <2>23. ASSUME NEW i \in DOMAIN log, ResendMinuteEnds(i) PROVE ExclusiveInv'
      BY <2>1, <2>23, FittingRuns, QuietStep DEF ResendMinuteEnds, taskVars
  <2>24. CASE LockExpires
    <3>1. run' = run /\ lock' = FALSE
        BY <2>24 DEF LockExpires, taskVars
    <3>2. Guarded' = Guarded
        BY <3>1 DEF Guarded
    <3>3. Cardinality(Guarded) <= trouble'
      <4>1. CASE \E n \in Runs : run[n].guarded
        <5>1. trouble' = trouble + 1
            BY <2>24, <4>1 DEF LockExpires, Trouble
        <5>2. Cardinality(Guarded) <= 1 + trouble
            BY <2>1 DEF ExclusiveInv
        <5> QED
            BY <2>1, <5>1, <5>2
      <4>2. CASE ~\E n \in Runs : run[n].guarded
        <5>1. Guarded = {}
            BY <4>2 DEF Guarded
        <5> QED
            BY <2>1, <5>1, FS_EmptySet
      <4> QED
          BY <4>1, <4>2
    <3> QED
        BY <2>1, <3>1, <3>2, <3>3 DEF ExclusiveInv
  <2>25. CASE GenerationExpires
      BY <2>1, <2>25, FittingRuns, QuietStep DEF GenerationExpires, taskVars
  <2>26. CASE UNCHANGED vars
      BY <2>1, <2>26, FittingRuns, QuietStep DEF vars, redisVars, taskVars
  <2>27. ASSUME NEW n \in Runs, Works(n) PROVE ExclusiveInv'
      BY <2>10, <2>11, <2>12, <2>13, <2>14, <2>15, <2>16, <2>17, <2>18, <2>19, <2>20, <2>27
      DEF Works
  <2>28. ASSUME NEW r \in Requests, Proceeds(r) PROVE ExclusiveInv'
      BY <2>5, <2>7, <2>8, <2>28 DEF Proceeds
  <2> QED
      BY <2>3, <2>4, <2>5, <2>6, <2>9, <2>21, <2>22, <2>23, <2>24, <2>25, <2>26, <2>27, <2>28
      DEF Next
<1>3. TypeOK /\ ExclusiveInv => RecoveriesExclusive
  <2> SUFFICES ASSUME TypeOK, ExclusiveInv PROVE RecoveriesExclusive
      OBVIOUS
  <2>1. trouble \in Nat /\ Cardinality(Guarded) \in Nat
      BY ChatAssumption, GuardedFinite DEF TypeOK
  <2> QED
      BY <2>1 DEF ExclusiveInv, RecoveriesExclusive, Guarded
<1> QED
    BY <1>1, <1>2, <1>3, TypeCorrect, PTL DEF Spec

-----------------------------------------------------------------------------
(* Replies *)

HasReply(g) == \E i \in DOMAIN log : log[i].role = "assistant" /\ log[i].gen = g

\* Requests that claim an answer only if the reply is there, and not before they have
\* got their generation.
Honest(reqs) ==
    \A r \in Requests :
        /\ reqs[r].future = "answered" => HasReply(reqs[r].gen)
        /\ reqs[r].at \in {"new", "old", "set"} => reqs[r].future # "answered"

\* Runs that are about to tell their waiter have stored their reply.
Stored(runs) == \A n \in Runs : runs[n].at = "tell" => HasReply(runs[n].gen)

ReplyInv == Honest(request) /\ Stored(run)

\* No reply is taken away.
RepliesStay == \A g : HasReply(g) => HasReply(g)'

\* What steps that store no reply have to show.
LEMMA ReplyStep ==
    ASSUME RepliesStay, Honest(request'), Stored(run')
    PROVE  ReplyInv'
<1>1. \A g : HasReply(g) => HasReply(g)'
    BY DEF RepliesStay
<1>2. \A r \in Requests :
         /\ request'[r].future = "answered" => HasReply(request'[r].gen)
         /\ request'[r].at \in {"new", "old", "set"} => request'[r].future # "answered"
    BY DEF Honest
<1>3. \A n \in Runs : run'[n].at = "tell" => HasReply(run'[n].gen)
    BY DEF Stored
<1>4. \A r \in Requests : request'[r].future = "answered" => HasReply(request[r].gen)'
    BY <1>1, <1>2 DEF HasReply
<1>5. \A n \in Runs : run'[n].at = "tell" => HasReply(run[n].gen)'
    BY <1>1, <1>3 DEF HasReply
<1> QED
    BY <1>2, <1>4, <1>5 DEF ReplyInv, Honest, Stored

\* The timeline as it is.
LEMMA SameLog == ASSUME log' = log PROVE RepliesStay
    BY DEF RepliesStay, HasReply

\* Ends and starts of runs, and all moves but the one to "tell", claim nothing.
LEMMA StoredRuns ==
    ASSUME TypeOK, Stored(run)
    PROVE  /\ \A n \in Runs : Stored(Over(n)) /\ Stored([run EXCEPT ![n] = Free])
           /\ \A n \in Runs, to \in {"gen", "llm", "polish", "marking", "rows", "prompt"} :
                 Stored([run EXCEPT ![n].at = to])
<1>1. run \in [Runs -> Run] /\ \A n \in Runs : run[n] \in Run
    BY DEF TypeOK
<1>2. Free.at = "free"
    BY DEF Free
<1>3. ASSUME NEW n \in Runs PROVE Stored(Over(n)) /\ Stored([run EXCEPT ![n] = Free])
  <2>1. \A m \in Runs : \/ Over(n)[m] = run[m]
                        \/ Over(n)[m].at \in {"free", "unlock"}
      BY <1>1, <1>2 DEF Over, Run
  <2>2. \A m \in Runs : \/ [run EXCEPT ![n] = Free][m] = run[m]
                        \/ [run EXCEPT ![n] = Free][m].at = "free"
      BY <1>1, <1>2
  <2> QED
      BY <2>1, <2>2 DEF Stored
<1>4. ASSUME NEW n \in Runs, NEW to \in {"gen", "llm", "polish", "marking", "rows", "prompt"}
      PROVE  Stored([run EXCEPT ![n].at = to])
  <2>1. \A m \in Runs : \/ [run EXCEPT ![n].at = to][m] = run[m]
                        \/ [run EXCEPT ![n].at = to][m].at = to
      BY <1>1 DEF Run
  <2> QED
      BY <2>1 DEF Stored
<1> QED
    BY <1>3, <1>4

\* Nor does a new run.
LEMMA StoredStart ==
    ASSUME NEW runs \in [Runs -> Run], Stored(runs), NEW n \in Runs, NEW p,
           NEW at \in {"sleep", "lock", "gen"}
    PROVE  Stored(Starts(runs, n, p, at))
<1> DEFINE new == [Free EXCEPT !.at = at, !.proc = p]
<1>1. new.at # "tell"
    BY DEF Free
<1>2. Starts(runs, n, p, at) = [runs EXCEPT ![n] = new]
    BY DEF Starts
<1> HIDE DEF new
<1> QED
    BY <1>1, <1>2 DEF Stored

\* Nor a recovery.
LEMMA StoredRecovery ==
    ASSUME NEW runs \in [Runs -> Run], Stored(runs), NEW p, NEW rec \in Recovery(runs, p)
    PROVE  Stored(rec)
<1>1. \A n \in Runs : Stored(Starts(runs, n, p, "lock"))
    BY StoredStart
<1> QED
    BY <1>1 DEF Recovery

\* An outcome is for the waiters of one generation that are still without one.
LEMMA HonestResolved ==
    ASSUME TypeOK, Honest(request), NEW p, NEW g,
           NEW outcome \in {"answered", "failed", "blocked", "obsolete"},
           outcome = "answered" => HasReply(g)
    PROVE  Honest(Resolved(request, p, g, outcome))
<1> SUFFICES ASSUME NEW r \in Requests
             PROVE  LET q == Resolved(request, p, g, outcome)[r] IN
                    /\ q.future = "answered" => HasReply(q.gen)
                    /\ q.at \in {"new", "old", "set"} => q.future # "answered"
    BY DEF Honest
<1>1. request[r] \in Request
    BY DEF TypeOK
<1>2. CASE Resolvable(r, p, g)
  <2> DEFINE q == [request[r] EXCEPT !.future = outcome]
  <2>1. Resolved(request, p, g, outcome)[r] = q
      BY <1>2 DEF Resolved
  <2>2. q.future = outcome /\ q.gen = request[r].gen /\ q.at = request[r].at
      BY <1>1 DEF Request
  <2>3. request[r].gen = g /\ request[r].at \notin {"new", "old", "set"}
      BY <1>2 DEF Resolvable
  <2> HIDE DEF q
  <2> QED
      BY <2>1, <2>2, <2>3
<1>3. CASE ~Resolvable(r, p, g)
    BY <1>3 DEF Resolved, Honest
<1> QED
    BY <1>2, <1>3

\* A request that moves on without a new outcome and a new generation.
LEMMA HonestMove ==
    ASSUME TypeOK, Honest(request), NEW reqs,
           \A r \in Requests :
               \/ reqs[r] = request[r]
               \/ /\ reqs[r].future # "answered"
               \/ /\ reqs[r].future = request[r].future /\ reqs[r].gen = request[r].gen
                  /\ reqs[r].at \in {"new", "old", "set"} => request[r].at \in {"new", "old", "set"}
    PROVE  Honest(reqs)
    BY DEF Honest

\* Who is answered finds the reply of the own generation in the timeline
\* (_persist_bundle_success commits before resolve_generation_future).
THEOREM AnswersAreStored == Spec => []AnsweredIsStored
<1>1. Init => ReplyInv
    BY DEF Init, ReplyInv, Honest, Stored, Unsent, Free
<1>2. TypeOK /\ ReplyInv /\ [Next]_vars => ReplyInv'
  <2> SUFFICES ASSUME TypeOK, ReplyInv, [Next]_vars PROVE ReplyInv'
      OBVIOUS
  <2>1. /\ run \in [Runs -> Run] /\ (\A n \in Runs : run[n] \in Run)
        /\ request \in [Requests -> Request] /\ (\A r \in Requests : request[r] \in Request)
        /\ log \in Seq(Row)
      BY DEF TypeOK
  <2>2. Honest(request) /\ Stored(run)
      BY DEF ReplyInv
  <2>3. \A n \in Runs : Over(n) \in [Runs -> Run]
    <3>1. Free \in Run /\ \A n \in Runs : [run[n] EXCEPT !.at = "unlock"] \in Run
        BY <2>1 DEF Free, Run
    <3> QED
        BY <2>1, <3>1 DEF Over
  <2>4. ASSUME NEW r \in Requests, NEW p \in Procs, SendChecks(r, p) PROVE ReplyInv'
    <3>1. \A q \in Requests : request'[q] = request[q] \/ request'[q].future # "answered"
        BY <2>1, <2>4 DEF SendChecks, Request
    <3>2. Honest(request')
        BY <2>2, <3>1, HonestMove
    <3>3. Stored(run')
        BY <2>1, <2>2, <2>4, StoredRecovery DEF SendChecks
    <3> QED
        BY <2>4, <3>2, <3>3, SameLog, ReplyStep DEF SendChecks
  <2>5. ASSUME NEW r \in Requests, NEW p \in Procs, ResendChecks(r, p) PROVE ReplyInv'
    <3>1. \A q \in Requests : request'[q] = request[q] \/ request'[q].future # "answered"
        BY <2>1, <2>5 DEF ResendChecks, Request
    <3>2. Honest(request') /\ run' = run /\ log' = log
        BY <2>2, <2>5, <3>1, HonestMove DEF ResendChecks
    <3> QED
        BY <2>2, <3>2, SameLog, ReplyStep
  <2>6. ASSUME NEW r \in Requests, ReadsOld(r) PROVE ReplyInv'
    <3>1. \A q \in Requests : \/ request'[q] = request[q]
                              \/ /\ request'[q].future = request[q].future
                                 /\ request'[q].gen = request[q].gen
                                 /\ request[q].at = "old"
        BY <2>1, <2>6 DEF ReadsOld, Request
    <3>2. Honest(request') /\ run' = run /\ log' = log
        BY <2>2, <2>6, <3>1, HonestMove DEF ReadsOld
    <3> QED
        BY <2>2, <3>2, SameLog, ReplyStep
  <2>7. ASSUME NEW r \in Requests, SetsGeneration(r) PROVE ReplyInv'
    <3> DEFINE next == made + 1
    <3>1. request' = [Invalidated(r) EXCEPT ![r].gen = next, ![r].old = 0,
                         ![r].at = IF request[r].resend THEN "runner" ELSE "row"]
        BY <2>7 DEF SetsGeneration
    <3>2. Invalidated(r) \in [Requests -> Request] /\ Honest(Invalidated(r))
        BY <2>1, <2>2, ResolvedShape, HonestResolved DEF Invalidated
    <3>3. Invalidated(r)[r] = request[r] /\ request[r].future # "answered"
        BY <2>2, <2>7 DEF SetsGeneration, Invalidated, Resolved, Resolvable, Honest
    <3> HIDE DEF next
    <3>4. request'[r].future = Invalidated(r)[r].future
        BY <3>1, <3>2 DEF Request
    <3>5. \A q \in Requests \ {r} : request'[q] = Invalidated(r)[q]
        BY <3>1, <3>2
    <3>6. Honest(request')
        BY <3>2, <3>3, <3>4, <3>5 DEF Honest
    <3>7. run' = run /\ log' = log
        BY <2>7 DEF SetsGeneration
    <3> QED
        BY <2>2, <3>6, <3>7, SameLog, ReplyStep
  <2>8. ASSUME NEW r \in Requests, InsertsRow(r) PROVE ReplyInv'
    <3> DEFINE row == [role |-> "user", status |-> "pending_llm",
                       gen |-> request[r].gen, pack |-> {}]
    <3>1. row \in Row
        BY <2>1 DEF Row, Request
    <3>2. log' = Append(log, row)
        BY <2>8 DEF InsertsRow
    <3> HIDE DEF row
    <3>3. RepliesStay
        BY <2>1, <3>1, <3>2, LogGrowsByAppend DEF RepliesStay, HasReply
    <3>4. \A q \in Requests : \/ request'[q] = request[q]
                              \/ /\ request'[q].future = request[q].future
                                 /\ request'[q].gen = request[q].gen
                                 /\ request'[q].at = "token"
        BY <2>1, <2>8 DEF InsertsRow, Request
    <3>5. Honest(request') /\ run' = run
        BY <2>2, <2>8, <3>4, HonestMove DEF InsertsRow
    <3> QED
        BY <2>2, <3>3, <3>5, ReplyStep
  <2>9. ASSUME NEW r \in Requests, InsertFails(r) PROVE ReplyInv'
    <3>1. \A q \in Requests : request'[q] = request[q] \/ request'[q].future # "answered"
        BY <2>1, <2>9 DEF InsertFails, Request
    <3>2. Honest(request') /\ run' = run /\ log' = log
        BY <2>2, <2>9, <3>1, HonestMove DEF InsertFails
    <3> QED
        BY <2>2, <3>2, SameLog, ReplyStep
  <2>10. ASSUME NEW r \in Requests, NEW n \in Runs, SetsToken(r, n) PROVE ReplyInv'
    <3>1. \A q \in Requests : \/ request'[q] = request[q]
                              \/ /\ request'[q].future = request[q].future
                                 /\ request'[q].gen = request[q].gen
                                 /\ request'[q].at = "runner"
        BY <2>1, <2>10 DEF SetsToken, Request
    <3>2. Honest(request') /\ run' = run /\ log' = log
        BY <2>2, <2>10, <3>1, HonestMove DEF SetsToken
    <3> QED
        BY <2>2, <3>2, SameLog, ReplyStep
  <2>11. ASSUME NEW r \in Requests, StartsDebounced(r) PROVE ReplyInv'
    <3> DEFINE n == request[r].run
    <3> DEFINE p == request[r].proc
    <3> DEFINE cleared == [m \in Runs |-> IF m = local[p] THEN Free ELSE run[m]]
    <3>1. \A q \in Requests : \/ request'[q] = request[q]
                              \/ /\ request'[q].future = request[q].future
                                 /\ request'[q].gen = request[q].gen
                                 /\ request'[q].at = "wait"
        BY <2>1, <2>11 DEF StartsDebounced, Request
    <3>2. Honest(request') /\ log' = log
        BY <2>2, <2>11, <3>1, HonestMove DEF StartsDebounced
    <3>3. run' = Starts(cleared, n, p, "sleep")
        BY <2>11 DEF StartsDebounced
    <3>4. cleared \in [Runs -> Run]
        BY <2>1 DEF Free, Run
    <3>5. Stored(cleared)
      <4>1. Free.at = "free"
          BY DEF Free
      <4> QED
          BY <2>2, <4>1 DEF Stored
    <3>6. n \in Runs \cup {NoRun}
        BY <2>1 DEF Request
    <3> HIDE DEF n, p, cleared
    <3>7. Stored(run')
      <4>1. CASE n \in Runs
          BY <3>3, <3>4, <3>5, <4>1, StoredStart
      <4>2. CASE n = NoRun
        <5>1. run' = cleared
            BY <3>3, <3>4, <4>2, RunAssumption DEF Starts
        <5> QED
            BY <3>5, <5>1
      <4> QED
          BY <3>6, <4>1, <4>2
    <3> QED
        BY <3>2, <3>7, SameLog, ReplyStep
  <2>12. ASSUME NEW r \in Requests, NEW n \in Runs, StartsAtOnce(r, n) PROVE ReplyInv'
    <3>1. \A q \in Requests : \/ request'[q] = request[q]
                              \/ /\ request'[q].future = request[q].future
                                 /\ request'[q].gen = request[q].gen
                                 /\ request'[q].at = "wait"
        BY <2>1, <2>12 DEF StartsAtOnce, Request
    <3>2. Honest(request') /\ log' = log
        BY <2>2, <2>12, <3>1, HonestMove DEF StartsAtOnce
    <3>3. Stored(run')
        BY <2>1, <2>2, <2>12, StoredStart DEF StartsAtOnce
    <3> QED
        BY <3>2, <3>3, SameLog, ReplyStep
  <2>13. ASSUME NEW r \in Requests, WaitEnds(r) PROVE ReplyInv'
    <3>1. \A q \in Requests : \/ request'[q] = request[q]
                              \/ /\ request'[q].future = request[q].future
                                 /\ request'[q].gen = request[q].gen
                                 /\ request'[q].at = "done"
        BY <2>1, <2>13 DEF WaitEnds, Request
    <3>2. Honest(request') /\ run' = run /\ log' = log
        BY <2>2, <2>13, <3>1, HonestMove DEF WaitEnds
    <3> QED
        BY <2>2, <3>2, SameLog, ReplyStep
  <2>14. ASSUME NEW p \in Procs, Polls(p) PROVE ReplyInv'
    <3>1. Stored(run') /\ request' = request /\ log' = log
        BY <2>1, <2>2, <2>14, StoredRecovery DEF Polls
    <3> QED
        BY <2>2, <3>1, SameLog, ReplyStep
  <2>15. ASSUME NEW n \in Runs, Wakes(n) \/ TriesLock(n) \/ Unlocks(n) PROVE ReplyInv'
    <3>1. request' = request /\ log' = log
        BY <2>15 DEF Wakes, TriesLock, Unlocks
    <3>2. Stored([run EXCEPT ![n].at = "gen", ![n].guarded = TRUE])
      <4>1. \A m \in Runs : LET now == [run EXCEPT ![n].at = "gen", ![n].guarded = TRUE] IN
                            now[m] = run[m] \/ now[m].at = "gen"
          BY <2>1 DEF Run
      <4> QED
          BY <2>2, <4>1 DEF Stored
    <3>3. Stored([run EXCEPT ![n] = Free]) /\ Stored([run EXCEPT ![n].at = "gen"])
        BY <2>2, StoredRuns
    <3>4. Stored(run')
        BY <2>15, <3>2, <3>3 DEF Wakes, TriesLock, Unlocks
    <3> QED
        BY <2>2, <3>1, <3>4, SameLog, ReplyStep
  <2>16. ASSUME NEW n \in Runs, ReadsGeneration(n) \/ ReadsRows(n) PROVE ReplyInv'
    <3>1. request' = request /\ log' = log
        BY <2>16 DEF ReadsGeneration, ReadsRows
    <3>2. \A m \in Runs : /\ \/ [run EXCEPT ![n].gen = gen, ![n].at = "rows"][m] = run[m]
                             \/ [run EXCEPT ![n].gen = gen, ![n].at = "rows"][m].at = "rows"
                          /\ \/ [run EXCEPT ![n].pack = Packed, ![n].at = "prompt"][m] = run[m]
                             \/ [run EXCEPT ![n].pack = Packed, ![n].at = "prompt"][m].at = "prompt"
        BY <2>1 DEF Run
    <3>3. /\ Stored([run EXCEPT ![n].gen = gen, ![n].at = "rows"])
          /\ Stored([run EXCEPT ![n].pack = Packed, ![n].at = "prompt"])
        BY <2>2, <3>2 DEF Stored
    <3>4. Stored(Over(n))
        BY <2>2, StoredRuns
    <3>5. Stored(run')
        BY <2>16, <3>3, <3>4 DEF ReadsGeneration, ReadsRows
    <3> QED
        BY <2>2, <3>1, <3>5, SameLog, ReplyStep
  <2>17. ASSUME NEW n \in Runs, NEW from, NEW to \in {"llm", "polish", "marking"}, Goes(n, from, to)
         PROVE ReplyInv'
    <3>1. request' = request /\ log' = log /\ run' = [run EXCEPT ![n].at = to]
        BY <2>17 DEF Goes
    <3>2. Stored([run EXCEPT ![n].at = to])
        BY <2>2, StoredRuns
    <3> QED
        BY <2>2, <3>1, <3>2, SameLog, ReplyStep
  <2>18. ASSUME NEW n \in Runs, Superseded(n) PROVE ReplyInv'
    <3>1. request' = request /\ log' = log
        BY <2>18 DEF Superseded
    <3>2. Stored(Over(n))
        BY <2>2, StoredRuns
    <3>3. Stored(run')
        BY <2>3, <2>18, <3>2, StoredRecovery DEF Superseded
    <3> QED
        BY <2>2, <3>1, <3>3, SameLog, ReplyStep
  <2>19. ASSUME NEW n \in Runs, FailsSuperseded(n) PROVE ReplyInv'
    <3>1. request' = request /\ log' = log /\ Stored(run')
        BY <2>2, <2>19, StoredRuns DEF FailsSuperseded
    <3> QED
        BY <2>2, <3>1, SameLog, ReplyStep
  <2>20. ASSUME NEW n \in Runs, NEW from, NEW status \in {"failed_timeout", "failed_blocked"},
                NEW outcome \in {"failed", "blocked"}, Marks(n, from, status, outcome)
         PROVE ReplyInv'
    <3>1. RepliesStay
      <4> DEFINE marked == Marked(run[n].pack, status)
      <4>1. /\ DOMAIN marked = DOMAIN log
            /\ \A i \in DOMAIN log : marked[i].role = log[i].role /\ marked[i].gen = log[i].gen
          BY <2>1, MarkedRows
      <4>2. log' = marked
          BY <2>20 DEF Marks
      <4> HIDE DEF marked
      <4> QED
          BY <4>1, <4>2 DEF RepliesStay, HasReply
    <3>2. Honest(request')
        BY <2>2, <2>20, HonestResolved DEF Marks
    <3>3. Stored(run')
        BY <2>2, <2>20, StoredRuns DEF Marks
    <3> QED
        BY <3>1, <3>2, <3>3, ReplyStep
  <2>21. ASSUME NEW n \in Runs, Persists(n) PROVE ReplyInv'
    <3> DEFINE old == Marked(run[n].pack, "delivered")
    <3> DEFINE row == [role |-> "assistant", status |-> "none", gen |-> run[n].gen,
                       pack |-> run[n].pack]
    <3>1. /\ old \in Seq(Row) /\ DOMAIN old = DOMAIN log
          /\ \A i \in DOMAIN log : old[i].role = log[i].role /\ old[i].gen = log[i].gen
        BY <2>1, MarkedRows
    <3>2. row \in Row /\ row.role = "assistant" /\ row.gen = run[n].gen
        BY <2>1 DEF Row, Run
    <3>3. log' = Append(old, row)
        BY <2>21 DEF Persists
    <3> HIDE DEF old, row
    <3>4. RepliesStay
        BY <3>1, <3>2, <3>3, LogGrowsByAppend DEF RepliesStay, HasReply
    <3>5. \E i \in DOMAIN log' : log'[i].role = "assistant" /\ log'[i].gen = run[n].gen
        BY <3>1, <3>2, <3>3, LogGrowsByAppend
    <3>6. request' = request /\ run' = [run EXCEPT ![n].at = "tell"]
        BY <2>21 DEF Persists
    <3>7. \A m \in Runs : run'[m].gen = run[m].gen /\ (m # n => run'[m].at = run[m].at)
        BY <2>1, <3>6 DEF Run
    <3>8. \A g : HasReply(g) => HasReply(g)'
        BY <3>4 DEF RepliesStay
    <3>9. Stored(run)'
      <4> SUFFICES ASSUME NEW m \in Runs, run'[m].at = "tell"
                   PROVE  \E i \in DOMAIN log' : log'[i].role = "assistant" /\ log'[i].gen = run'[m].gen
          BY DEF Stored, HasReply
      <4>1. CASE m = n
          BY <3>5, <3>7, <4>1
      <4>2. CASE m # n
        <5>1. HasReply(run[m].gen)
            BY <2>2, <3>7, <4>2 DEF Stored
        <5> QED
            BY <3>7, <3>8, <5>1 DEF HasReply
      <4> QED
          BY <4>1, <4>2
    <3>10. Honest(request)'
        BY <2>2, <3>6, <3>8 DEF Honest, HasReply
    <3> QED
        BY <3>9, <3>10 DEF ReplyInv
  <2>22. ASSUME NEW n \in Runs, Tells(n) PROVE ReplyInv'
    <3>1. HasReply(run[n].gen)
        BY <2>2, <2>22 DEF Tells, Stored
    <3>2. Honest(request')
        BY <2>2, <2>22, <3>1, HonestResolved DEF Tells, ToldTo
    <3>3. Stored(run') /\ log' = log
        BY <2>2, <2>22, StoredRuns DEF Tells
    <3> QED
        BY <3>2, <3>3, SameLog, ReplyStep
  <2>23. ASSUME NEW n \in Runs, Breaks(n) PROVE ReplyInv'
    <3>1. Honest(request')
        BY <2>2, <2>23, HonestResolved DEF Breaks
    <3>2. Stored(run') /\ log' = log
        BY <2>2, <2>23, StoredRuns DEF Breaks
    <3> QED
        BY <3>1, <3>2, SameLog, ReplyStep
  <2>24. ASSUME NEW p \in Procs, Crash(p) PROVE ReplyInv'
    <3>1. \A q \in Requests : \/ request'[q] = request[q]
                              \/ /\ request'[q].future = request[q].future
                                 /\ request'[q].gen = request[q].gen
                                 /\ request'[q].at = "done"
        BY <2>1, <2>24 DEF Crash, Request
    <3>2. Honest(request') /\ log' = log
        BY <2>2, <2>24, <3>1, HonestMove DEF Crash
    <3>3. \A n \in Runs : run'[n] = run[n] \/ run'[n].at = "free"
        BY <2>24 DEF Crash, Free
    <3>4. Stored(run')
        BY <2>2, <3>3 DEF Stored
    <3> QED
        BY <3>2, <3>4, SameLog, ReplyStep
  <2>25. ASSUME log' = log, request' = request, run' = run PROVE ReplyInv'
      BY <2>2, <2>25, SameLog, ReplyStep
  <2>26. ASSUME NEW i \in DOMAIN log, ResendMinuteEnds(i) PROVE ReplyInv'
      BY <2>25, <2>26 DEF ResendMinuteEnds, taskVars
  <2>27. CASE LockExpires \/ GenerationExpires \/ UNCHANGED vars
      BY <2>25, <2>27 DEF LockExpires, GenerationExpires, vars, taskVars
  <2>28. ASSUME NEW n \in Runs, Works(n) PROVE ReplyInv'
      BY <2>15, <2>16, <2>17, <2>18, <2>19, <2>20, <2>21, <2>22, <2>28 DEF Works
  <2>29. ASSUME NEW r \in Requests, Proceeds(r) PROVE ReplyInv'
      BY <2>6, <2>7, <2>8, <2>10, <2>11, <2>12, <2>29 DEF Proceeds
  <2> QED
      BY <2>4, <2>5, <2>9, <2>13, <2>14, <2>23, <2>24, <2>26, <2>27, <2>28, <2>29 DEF Next
<1>3. ReplyInv => AnsweredIsStored
    BY DEF ReplyInv, Honest, HasReply, AnsweredIsStored
<1> QED
    BY <1>1, <1>2, <1>3, TypeCorrect, PTL DEF Spec

=============================================================================
