---------------------------- MODULE TimelineSeq ----------------------------
(***************************************************************************)
(* The numbers that order one user's timeline (backend/services/           *)
(* timeline_seq_service.py) and the pages read by them (services/          *)
(* timeline_read_service.py).  Writers of three tables take consecutive     *)
(* numbers under the lock of the user's sequence row, which they hold until *)
(* they commit or roll back; a reader walks back page by page.              *)
(***************************************************************************)
EXTENDS Integers, FiniteSets

CONSTANTS
    Writers,        \* transactions, one after another per writer
    Sources,        \* conversation_log, agent_message, voice_call
    MaxCount,       \* rows of one transaction
    Limit,          \* rows of a page
    MaxSeq          \* bound: numbers given out

ASSUME TimelineAssumption ==
    MaxCount \in Nat \ {0} /\ Limit \in Nat \ {0} /\ MaxSeq \in Nat

NoWriter == "nobody"
ASSUME NoWriterAssumption == NoWriter \notin Writers

VARIABLES
    next,       \* user_timeline_seq.next_seq, 0 while there is no row
    holder,     \* who holds the lock of the row, or inserts it
    txn,        \* each writer's transaction
    rows,       \* what is committed: [seq, source]
    walk        \* a reader, page after page

seqVars == <<next, holder, txn, rows, walk>>

Item == [seq : Nat, source : Sources]
Txn == [at : {"idle", "asks", "first", "holds"}, source : Sources, count : 1..MaxCount,
        start : Nat]
Walk == [at : {"idle", "walks", "over"}, cursor : Nat, seen : SUBSET Item,
         began : SUBSET Item, twice : BOOLEAN]

SeqTypeOK ==
    /\ next \in Nat /\ holder \in Writers \cup {NoWriter}
    /\ txn \in [Writers -> Txn] /\ rows \in SUBSET Item /\ walk \in Walk
    /\ \A w \in Writers : txn[w].at = "holds" <=> holder = w

SeqInit ==
    /\ next = 0 /\ holder = NoWriter /\ rows = {}
    /\ txn \in [Writers -> {[at |-> "idle", source |-> s, count |-> 1, start |-> 0] :
                            s \in Sources}]
    /\ walk = [at |-> "idle", cursor |-> 0, seen |-> {}, began |-> {}, twice |-> FALSE]

\* A transaction that will write count rows of a source.
Begins(w, source, count) ==
    /\ txn[w].at = "idle" /\ next + count <= MaxSeq
    /\ txn' = [txn EXCEPT ![w] = [at |-> "asks", source |-> source, count |-> count,
                                  start |-> 0]]
    /\ UNCHANGED <<next, holder, rows, walk>>

\* Mutant: SELECT without FOR UPDATE.
RowFree_Always == TRUE

RowFree == holder = NoWriter

\* allocate_sort_seq: SELECT ... FOR UPDATE finds the row, or finds none.
Locks(w) ==
    /\ txn[w].at = "asks" /\ next # 0 /\ RowFree
    /\ holder' = w
    /\ txn' = [txn EXCEPT ![w].at = "holds", ![w].start = next]
    /\ UNCHANGED <<next, rows, walk>>

FindsNone(w) ==
    /\ txn[w].at = "asks" /\ next = 0 /\ holder = NoWriter
    /\ txn' = [txn EXCEPT ![w].at = "first"]
    /\ UNCHANGED <<next, holder, rows, walk>>

\* The row is made with next_seq = 1 ...
MakesRow(w) ==
    /\ txn[w].at = "first" /\ next = 0 /\ holder = NoWriter
    /\ holder' = w
    /\ txn' = [txn EXCEPT ![w].at = "holds", ![w].start = 1]
    /\ UNCHANGED <<next, rows, walk>>

\* ... unless somebody else has made it: a duplicate key, or the victim of a deadlock.
LosesRace(w) ==
    /\ txn[w].at = "first"
    /\ next # 0 \/ holder # NoWriter \/ \E v \in Writers \ {w} : txn[v].at = "first"
    /\ txn' = [txn EXCEPT ![w].at = "idle"]
    /\ UNCHANGED <<next, holder, rows, walk>>

\* The numbers of a transaction.
Given(w) == txn[w].start..(txn[w].start + txn[w].count - 1)

Commits(w) ==
    /\ txn[w].at = "holds"
    /\ rows' = rows \cup {[seq |-> i, source |-> txn[w].source] : i \in Given(w)}
    /\ next' = txn[w].start + txn[w].count
    /\ holder' = NoWriter
    /\ txn' = [txn EXCEPT ![w].at = "idle"]
    /\ UNCHANGED walk

RollsBack(w) ==
    /\ txn[w].at = "holds"
    /\ holder' = NoWriter
    /\ txn' = [txn EXCEPT ![w].at = "idle"]
    /\ UNCHANGED <<next, rows, walk>>

-----------------------------------------------------------------------------
(* get_timeline *)

Before(cursor) == {i \in rows : cursor = 0 \/ i.seq < cursor}
Newest(items, n) == {i \in items : Cardinality({j \in items : j.seq > i.seq}) < n}

\* Mutant: no row more than the page is fetched.
FetchLimit_Page == Limit

FetchLimit == Limit + 1

Fetched(cursor) ==
    UNION {Newest({i \in Before(cursor) : i.source = s}, FetchLimit) : s \in Sources}

Oldest(items) == CHOOSE n \in {i.seq : i \in items} : \A i \in items : n <= i.seq

\* A page, and the cursor of the next one.
ReadsPage ==
    LET merged == Fetched(walk.cursor)
        page == Newest(merged, Limit)
        more == Cardinality(merged) > Limit IN
    /\ walk.at # "over"
    /\ walk' = [at |-> IF more THEN "walks" ELSE "over",
                cursor |-> IF more THEN Oldest(page) ELSE 0,
                seen |-> walk.seen \cup page,
                began |-> IF walk.at = "idle" THEN rows ELSE walk.began,
                twice |-> walk.twice \/ walk.seen \cap page # {}]
    /\ UNCHANGED <<next, holder, txn, rows>>

StartsAgain ==
    /\ walk.at = "over"
    /\ walk' = [at |-> "idle", cursor |-> 0, seen |-> {}, began |-> {}, twice |-> FALSE]
    /\ UNCHANGED <<next, holder, txn, rows>>

-----------------------------------------------------------------------------
SeqNext ==
    \/ \E w \in Writers :
         \/ \E s \in Sources, n \in 1..MaxCount : Begins(w, s, n)
         \/ Locks(w) \/ FindsNone(w) \/ MakesRow(w) \/ LosesRace(w)
         \/ Commits(w) \/ RollsBack(w)
    \/ ReadsPage \/ StartsAgain

SeqSpec == SeqInit /\ [][SeqNext]_seqVars

-----------------------------------------------------------------------------
(* Properties *)

\* No two rows of a user, of whatever tables, have the same number: not after a
\* roll-back, and not when two first messages race for the sequence row.
NumbersUnique == \A i, j \in rows : i.seq = j.seq => i = j

\* A row that becomes visible is newer than all that were visible before: numbers are
\* given out in the order of the commits, so that "after the last reply" means after it.
CommitsInOrder ==
    [][\A i \in rows' \ rows, j \in rows : j.seq < i.seq]_seqVars

\* A walk over all pages yields what was there when it began, each row once, whatever
\* is written meanwhile ("跨页实际多重集完全相等；同毫秒并发无重复/丢失",
\* src/docs/design/realtime_voice/P1/steps-verified.md:2473).
WalkIsExact == ~walk.twice /\ (walk.at = "over" => walk.seen = walk.began)

=============================================================================
