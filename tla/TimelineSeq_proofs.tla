------------------------- MODULE TimelineSeq_proofs -------------------------
(***************************************************************************)
(* Proofs about TimelineSeq: numbers are unique, and given out in the       *)
(* order of the commits, and a walk over the pages is exact, for any number *)
(* of writers, sources and rows and any length of page.                     *)
(*                                                                         *)
(* The invariant says where the next number stands: above every committed   *)
(* row, and exactly where the one transaction that holds the row begins.    *)
(* That of the walk (WInv) says what a reader has between two pages: its    *)
(* rows from the cursor on, while all that is new is above the cursor.      *)
(***************************************************************************)
EXTENDS TimelineSeq, FiniteSetTheorems, TLAPS

\* The next number: that of the row, or 1 for the row that is about to be made.
Base == IF next = 0 THEN 1 ELSE next

\* SeqTypeOK without the reader.
WriterTypes ==
    /\ next \in Nat /\ holder \in Writers \cup {NoWriter}
    /\ txn \in [Writers -> Txn] /\ rows \in SUBSET Item
    /\ \A w \in Writers : txn[w].at = "holds" <=> holder = w

Below == \A i \in rows : i.seq < next
HolderAtBase == \A w \in Writers : txn[w].at = "holds" => txn[w].start = Base

IInv == WriterTypes /\ Below /\ HolderAtBase /\ NumbersUnique

\* The empty timeline has no number to be confused.
LEMMA InitInv == SeqInit => IInv
<1> SUFFICES ASSUME SeqInit PROVE IInv
    OBVIOUS
<1>1. PICK f \in [Writers -> {[at |-> "idle", source |-> s, count |-> 1, start |-> 0] :
                              s \in Sources}] : txn = f
    BY DEF SeqInit
<1>2. ASSUME NEW w \in Writers PROVE txn[w] \in Txn /\ txn[w].at = "idle"
    BY <1>1, TimelineAssumption DEF Txn
<1>3. txn \in [Writers -> Txn]
    BY <1>1, <1>2
<1> QED
    BY <1>2, <1>3, NoWriterAssumption
    DEF SeqInit, IInv, WriterTypes, Below, HolderAtBase, NumbersUnique, NoWriter

\* A transaction that holds the row and commits: its numbers lie between the old and
\* the new next number.
LEMMA CommitRange ==
    ASSUME IInv, NEW w \in Writers, Commits(w)
    PROVE  /\ next' \in Nat /\ next < next'
           /\ rows' \in SUBSET Item
           /\ \A i \in rows' \ rows : next <= i.seq /\ i.seq < next'
           /\ \A i, j \in rows' \ rows : i.seq = j.seq => i = j
<1> DEFINE t == txn[w]
           New == {[seq |-> i, source |-> t.source] : i \in Given(w)}
<1>1. t \in Txn
    BY DEF IInv, WriterTypes
<1>2. t.start \in Nat /\ t.count \in Nat \ {0} /\ t.source \in Sources
    BY <1>1, TimelineAssumption DEF Txn
<1>3. next \in Nat /\ t.start >= next
    BY DEF IInv, WriterTypes, HolderAtBase, Base, Commits
<1>4. next' = t.start + t.count /\ rows' = rows \cup New
    BY DEF Commits
<1>5. Given(w) = t.start..(t.start + t.count - 1)
    BY DEF Given
<1> HIDE DEF t
<1>6. \A i \in Given(w) : i \in Nat /\ next <= i /\ i < next'
    BY <1>2, <1>3, <1>4, <1>5
<1>7. New \subseteq Item
    BY <1>2, <1>6 DEF Item
<1>8. \A x \in New : x.seq \in Given(w) /\ x = [seq |-> x.seq, source |-> t.source]
    OBVIOUS
<1>9. rows \subseteq Item
    BY DEF IInv, WriterTypes
<1>10. rows' \subseteq Item
    BY <1>4, <1>7, <1>9
<1>11. next' \in Nat /\ next < next'
    BY <1>2, <1>3, <1>4
<1>12. \A i \in rows' \ rows : next <= i.seq /\ i.seq < next'
    BY <1>4, <1>6, <1>8
<1>13. \A i, j \in rows' \ rows : i.seq = j.seq => i = j
    <2> TAKE i \in rows' \ rows, j \in rows' \ rows
    <2> HAVE i.seq = j.seq
    <2>1. i \in New /\ j \in New
        BY <1>4
    <2>2. i = [seq |-> i.seq, source |-> t.source] /\ j = [seq |-> j.seq, source |-> t.source]
        BY <2>1, <1>8
    <2> QED
        BY <2>2
<1> QED
    BY <1>10, <1>11, <1>12, <1>13

\* What a step does to one writer's transaction, when the rows stay.
LEMMA OneWriter ==
    ASSUME IInv, NEW w \in Writers, NEW t \in Txn, txn' = [txn EXCEPT ![w] = t],
           UNCHANGED <<next, rows>>, holder' \in Writers \cup {NoWriter},
           holder' = w <=> t.at = "holds",
           \A v \in Writers \ {w} : holder' = v <=> holder = v,
           t.at = "holds" => t.start = Base
    PROVE  IInv'
<1>1. txn \in [Writers -> Txn]
    BY DEF IInv, WriterTypes
<1>2. txn' \in [Writers -> Txn]
    BY <1>1
<1>3. \A v \in Writers : txn'[v] = IF v = w THEN t ELSE txn[v]
    BY <1>1
<1>4. WriterTypes'
    BY <1>2, <1>3 DEF IInv, WriterTypes
<1>5. HolderAtBase'
    BY <1>3 DEF IInv, HolderAtBase, Base
<1> QED
    BY <1>4, <1>5 DEF IInv, Below, NumbersUnique

\* Every step keeps the invariant.
LEMMA StepInv == IInv /\ [SeqNext]_seqVars => IInv'
<1> SUFFICES ASSUME IInv, [SeqNext]_seqVars PROVE IInv'
    OBVIOUS
<1> USE TimelineAssumption, NoWriterAssumption
<1>t. /\ txn \in [Writers -> Txn] /\ next \in Nat /\ holder \in Writers \cup {NoWriter}
      /\ \A w \in Writers : txn[w].at = "holds" <=> holder = w
    BY DEF IInv, WriterTypes
<1>1. ASSUME NEW w \in Writers, NEW s \in Sources, NEW n \in 1..MaxCount, Begins(w, s, n)
      PROVE IInv'
    <2> DEFINE t == [at |-> "asks", source |-> s, count |-> n, start |-> 0]
    <2>1. t \in Txn /\ t.at # "holds"
        BY DEF Txn
    <2>2. txn' = [txn EXCEPT ![w] = t] /\ UNCHANGED <<next, rows, holder>> /\ holder # w
        BY <1>1, <1>t DEF Begins
    <2> HIDE DEF t
    <2> QED
        BY <2>1, <2>2, <1>t, OneWriter
<1>2. ASSUME NEW w \in Writers, Locks(w) PROVE IInv'
    <2> DEFINE t == [txn[w] EXCEPT !.at = "holds", !.start = next]
    <2>1. txn[w] \in Txn
        BY <1>t
    <2>2. t \in Txn /\ t.at = "holds" /\ t.start = next
        BY <2>1, <1>t DEF Txn
    <2>3. txn' = [txn EXCEPT ![w] = t] /\ UNCHANGED <<next, rows>> /\ holder' = w
          /\ holder = NoWriter /\ next # 0
        BY <1>2 DEF Locks, RowFree
    <2> HIDE DEF t
    <2>4. t.start = Base
        BY <2>2, <2>3 DEF Base
    <2> QED
        BY <2>2, <2>3, <2>4, OneWriter
<1>3. ASSUME NEW w \in Writers, FindsNone(w) PROVE IInv'
    <2> DEFINE t == [txn[w] EXCEPT !.at = "first"]
    <2>1. txn[w] \in Txn /\ txn[w].at = "asks"
        BY <1>t, <1>3 DEF FindsNone
    <2>2. t \in Txn /\ t.at # "holds" /\ holder # w
        BY <2>1, <1>t DEF Txn
    <2>3. txn' = [txn EXCEPT ![w] = t] /\ UNCHANGED <<next, rows, holder>>
        BY <1>3 DEF FindsNone
    <2> HIDE DEF t
    <2> QED
        BY <2>2, <2>3, <1>t, OneWriter
<1>4. ASSUME NEW w \in Writers, MakesRow(w) PROVE IInv'
    <2> DEFINE t == [txn[w] EXCEPT !.at = "holds", !.start = 1]
    <2>1. txn[w] \in Txn
        BY <1>t
    <2>2. t \in Txn /\ t.at = "holds" /\ t.start = 1
        BY <2>1 DEF Txn
    <2>3. txn' = [txn EXCEPT ![w] = t] /\ UNCHANGED <<next, rows>> /\ holder' = w
          /\ holder = NoWriter /\ next = 0
        BY <1>4 DEF MakesRow
    <2> HIDE DEF t
    <2>4. t.start = Base
        BY <2>2, <2>3 DEF Base
    <2> QED
        BY <2>2, <2>3, <2>4, OneWriter
<1>5. ASSUME NEW w \in Writers, LosesRace(w) \/ RollsBack(w) PROVE IInv'
    <2> DEFINE t == [txn[w] EXCEPT !.at = "idle"]
    <2>1. txn[w] \in Txn
        BY <1>t
    <2>2. t \in Txn /\ t.at # "holds"
        BY <2>1 DEF Txn
    <2>3. txn' = [txn EXCEPT ![w] = t] /\ UNCHANGED <<next, rows>>
        BY <1>5 DEF LosesRace, RollsBack
    <2>4. CASE LosesRace(w)
        <3>1. holder' = holder /\ holder # w
            BY <2>4, <1>t DEF LosesRace
        <3> HIDE DEF t
        <3> QED
            BY <2>2, <2>3, <3>1, <1>t, OneWriter
    <2>5. CASE RollsBack(w)
        <3>1. holder' = NoWriter /\ holder = w
            BY <2>5, <1>t DEF RollsBack
        <3> HIDE DEF t
        <3> QED
            BY <2>2, <2>3, <3>1, <1>t, OneWriter
    <2> QED
        BY <1>5, <2>4, <2>5
<1>6. ASSUME NEW w \in Writers, Commits(w) PROVE IInv'
    <2> DEFINE t == [txn[w] EXCEPT !.at = "idle"]
    <2>1. txn[w] \in Txn
        BY <1>t
    <2>2. t \in Txn /\ t.at # "holds"
        BY <2>1 DEF Txn
    <2>3. txn' = [txn EXCEPT ![w] = t] /\ holder' = NoWriter /\ holder = w
        BY <1>6, <1>t DEF Commits
    <2> HIDE DEF t
    <2>4. txn' \in [Writers -> Txn]
        BY <2>2, <2>3, <1>t
    <2>5. \A v \in Writers : txn'[v].at # "holds"
        BY <2>2, <2>3, <1>t
    <2>6. rows' \in SUBSET Item /\ next' \in Nat
        BY <1>6, CommitRange
    <2>7. WriterTypes'
        BY <2>3, <2>4, <2>5, <2>6 DEF WriterTypes
    <2>8. HolderAtBase'
        BY <2>5 DEF HolderAtBase
    <2>9. \A i \in rows : i.seq \in Nat /\ i.seq < next
        BY DEF IInv, WriterTypes, Below, Item
    <2>10. Below'
        BY <1>6, <2>6, <2>9, <1>t, CommitRange DEF Below, Item
    <2>11. NumbersUnique'
        <3> SUFFICES ASSUME NEW i \in rows', NEW j \in rows', i.seq = j.seq PROVE i = j
            BY DEF NumbersUnique
        <3>1. CASE i \in rows /\ j \in rows
            BY <3>1 DEF IInv, NumbersUnique
        <3>2. CASE i \notin rows /\ j \notin rows
            BY <3>2, <1>6, CommitRange
        <3>3. CASE i \in rows /\ j \notin rows
            <4>1. next <= j.seq
                BY <3>3, <1>6, CommitRange
            <4> QED
                BY <3>3, <4>1, <2>9, <1>t
        <3>4. CASE i \notin rows /\ j \in rows
            <4>1. next <= i.seq
                BY <3>4, <1>6, CommitRange
            <4> QED
                BY <3>4, <4>1, <2>9, <1>t
        <3> QED
            BY <3>1, <3>2, <3>3, <3>4
    <2> QED
        BY <2>7, <2>8, <2>10, <2>11 DEF IInv
<1>7. CASE UNCHANGED <<next, holder, txn, rows>>
    BY <1>7 DEF IInv, WriterTypes, Below, HolderAtBase, Base, NumbersUnique
<1>8. CASE ReadsPage \/ StartsAgain \/ UNCHANGED seqVars
    BY <1>8, <1>7 DEF ReadsPage, StartsAgain, seqVars
<1> QED
    BY <1>1, <1>2, <1>3, <1>4, <1>5, <1>6, <1>8 DEF SeqNext

\* The invariant holds in every reachable state.
LEMMA Invariant == SeqSpec => []IInv
    BY InitInv, StepInv, PTL DEF SeqSpec

\* No number is given to two rows, whoever races, commits or rolls back.
THEOREM UniqueNumbers == SeqSpec => []NumbersUnique
<1>1. IInv => NumbersUnique
    BY DEF IInv
<1> QED
    BY <1>1, Invariant, PTL

\* What becomes visible is newer than all that was visible.
THEOREM OrderedCommits == SeqSpec => CommitsInOrder
<1> DEFINE A == \A i \in rows' \ rows, j \in rows : j.seq < i.seq
<1>1. IInv /\ [SeqNext]_seqVars => [A]_seqVars
    <2> SUFFICES ASSUME IInv, SeqNext PROVE A
        OBVIOUS
    <2>1. ASSUME NEW w \in Writers, Commits(w) PROVE A
        <3> TAKE i \in rows' \ rows, j \in rows
        <3>1. next \in Nat /\ j.seq \in Nat /\ j.seq < next
            BY DEF IInv, WriterTypes, Below, Item
        <3>2. i \in Item
            BY <2>1, CommitRange
        <3>3. i.seq \in Nat /\ next <= i.seq
            BY <2>1, <3>2, CommitRange DEF Item
        <3> QED
            BY <3>1, <3>3
    <2>2. CASE rows' = rows
        BY <2>2
    <2> QED
        BY <2>1, <2>2
        DEF SeqNext, Begins, Locks, FindsNone, MakesRow, LosesRace, RollsBack, ReadsPage, StartsAgain
<1> QED
    BY <1>1, Invariant, PTL DEF SeqSpec, CommitsInOrder

-----------------------------------------------------------------------------
(* Pages.  A page is the newest rows before the cursor, though it is merged *)
(* from the newest of each source.                                          *)

\* The rows of a set that are newer than one.
Above(items, i) == {j \in items : j.seq > i.seq}

\* A set of natural numbers that is not empty has a least one.
LEMMA Least ==
    ASSUME NEW S \in SUBSET Nat, S # {}
    PROVE  \E n \in S : \A m \in S : n <= m
<1>1. PICK n \in S : \A m \in S : ~ (<<m, n>> \in OpToRel(<, Nat))
    BY NatLessThanWellFounded, WFMin, Zenon
<1>2. ASSUME NEW m \in S PROVE n <= m
    <2>1. m \in Nat /\ n \in Nat
        OBVIOUS
    <2>2. m < n => <<m, n>> \in {ss \in Nat \X Nat : ss[1] < ss[2]}
        BY <2>1
    <2>3. ~(m < n)
        BY <1>1, <2>2 DEF OpToRel
    <2> QED
        BY <2>1, <2>3
<1> QED
    BY <1>2

\* A finite set of rows that is not empty has a newest one: the one with the fewest above.
LEMMA NewestRow ==
    ASSUME NEW D \in SUBSET Item, IsFiniteSet(D), D # {}
    PROVE  \E m \in D : \A k \in D : k.seq <= m.seq
<1> DEFINE Sizes == {Cardinality(Above(D, k)) : k \in D}
<1>1. \A k \in D : Above(D, k) \subseteq D /\ IsFiniteSet(Above(D, k))
    BY FS_Subset DEF Above
<1>2. Sizes \in SUBSET Nat /\ Sizes # {}
    BY <1>1, FS_CardinalityType
<1>3. PICK n \in Sizes : \A m \in Sizes : n <= m
    BY <1>2, Least
<1>4. PICK m \in D : n = Cardinality(Above(D, m))
    BY <1>3
<1>5. ASSUME NEW k \in D, ~(k.seq <= m.seq) PROVE FALSE
    <2>1. k.seq \in Nat /\ m.seq \in Nat
        BY DEF Item
    <2>2. Above(D, k) \in SUBSET Above(D, m)
        BY <1>5, <2>1 DEF Above, Item
    <2>3. k \in Above(D, m) /\ k \notin Above(D, k)
        BY <1>5, <2>1 DEF Above
    <2>4. Cardinality(Above(D, k)) # Cardinality(Above(D, m))
        BY <1>1, <2>2, <2>3, FS_Subset
    <2>5. Cardinality(Above(D, k)) <= Cardinality(Above(D, m))
        BY <1>1, <2>2, FS_Subset
    <2>6. n <= Cardinality(Above(D, k))
        BY <1>3
    <2> QED
        BY <1>1, <1>4, <2>4, <2>5, <2>6, FS_CardinalityType
<1> QED
    BY <1>5

\* The oldest number of a page is that of one of its rows.
LEMMA OldestRow ==
    ASSUME NEW D \in SUBSET Item, D # {}
    PROVE  /\ \E i \in D : Oldest(D) = i.seq
           /\ \A i \in D : Oldest(D) <= i.seq
<1> DEFINE S == {i.seq : i \in D}
<1>1. S \in SUBSET Nat /\ S # {}
    BY DEF Item
<1>2. \E n \in S : \A m \in S : n <= m
    BY <1>1, Least
<1>3. \E n \in S : \A i \in D : n <= i.seq
    BY <1>2
<1>4. Oldest(D) \in S /\ \A i \in D : Oldest(D) <= i.seq
    BY <1>3 DEF Oldest
<1> QED
    BY <1>4

\* What Newest takes is closed upwards, and leaves a row out only for n newer ones.
LEMMA NewestCloses ==
    ASSUME NEW B \in SUBSET Item, IsFiniteSet(B), NEW n \in Nat,
           NEW i \in Newest(B, n), NEW j \in B, j.seq > i.seq
    PROVE  j \in Newest(B, n)
<1>1. i \in B /\ Cardinality(Above(B, i)) < n
    BY DEF Newest, Above
<1>2. i.seq \in Nat /\ j.seq \in Nat
    BY <1>1 DEF Item
<1>3. Above(B, i) \in SUBSET B /\ Above(B, j) \in SUBSET Above(B, i)
    BY <1>2 DEF Above, Item
<1>4. IsFiniteSet(Above(B, i)) /\ IsFiniteSet(Above(B, j))
    BY <1>3, FS_Subset
<1>5. Cardinality(Above(B, j)) <= Cardinality(Above(B, i))
    BY <1>3, <1>4, FS_Subset
<1>6. Cardinality(Above(B, j)) < n
    BY <1>1, <1>4, <1>5, FS_CardinalityType
<1> QED
    BY <1>6 DEF Newest, Above

LEMMA NewestFills ==
    ASSUME NEW B \in SUBSET Item, IsFiniteSet(B), NEW n \in Nat,
           NEW j \in B, j \notin Newest(B, n)
    PROVE  Cardinality(Above(Newest(B, n), j)) >= n
<1> DEFINE D == {k \in B \ Newest(B, n) : k.seq >= j.seq}
           U == Above(Newest(B, n), j)
<1>1. D \in SUBSET Item /\ D \in SUBSET B /\ j \in D
    BY DEF Item
<1>2. IsFiniteSet(D)
    BY <1>1, FS_Subset
<1>3. PICK m \in D : \A k \in D : k.seq <= m.seq
    BY <1>1, <1>2, NewestRow
<1>4. m \in B /\ m.seq >= j.seq /\ ~(Cardinality(Above(B, m)) < n)
    BY DEF Newest, Above
<1>5. Above(B, m) \in SUBSET U
    BY <1>1, <1>3, <1>4 DEF Above, Item
<1>6. Newest(B, n) \in SUBSET B
    BY DEF Newest
<1>7. U \in SUBSET B /\ Above(B, m) \in SUBSET B
    BY <1>6 DEF Above
<1>8. IsFiniteSet(U) /\ IsFiniteSet(Above(B, m))
    BY <1>7, FS_Subset
<1>9. Cardinality(Above(B, m)) <= Cardinality(U)
    BY <1>5, <1>8, FS_Subset
<1> HIDE DEF D, U
<1>10. Cardinality(U) >= n
    BY <1>4, <1>8, <1>9, FS_CardinalityType
<1> QED
    BY <1>10 DEF U

\* One source's newest rows, and those of all sources.
Ours(B, s) == {i \in B : i.source = s}
Merged(B) == UNION {Newest(Ours(B, s), FetchLimit) : s \in Sources}
Page(B) == Newest(Merged(B), Limit)

LEMMA FetchedIsMerged == \A cursor : Fetched(cursor) = Merged(Before(cursor))
    BY DEF Fetched, Merged, Ours

\* A row that the merge leaves out is below a whole page and one more.
LEMMA MergedFills ==
    ASSUME NEW B \in SUBSET Item, IsFiniteSet(B)
    PROVE  /\ Merged(B) \in SUBSET B /\ IsFiniteSet(Merged(B))
           /\ \A j \in B \ Merged(B) : Cardinality(Above(Merged(B), j)) > Limit
<1>1. FetchLimit = Limit + 1 /\ FetchLimit \in Nat /\ Limit \in Nat
    BY TimelineAssumption DEF FetchLimit
<1>2. \A s \in Sources : Newest(Ours(B, s), FetchLimit) \subseteq B
    BY DEF Newest, Ours
<1>3. Merged(B) \in SUBSET B
    BY <1>2 DEF Merged
<1>4. IsFiniteSet(Merged(B))
    BY <1>3, FS_Subset
<1>5. ASSUME NEW j \in B \ Merged(B)
      PROVE  Cardinality(Above(Merged(B), j)) > Limit
    <2> DEFINE O == Ours(B, j.source)
    <2>1. j.source \in Sources /\ j \in O /\ O \in SUBSET B /\ O \in SUBSET Item
        BY DEF Ours, Item
    <2>2. Newest(O, FetchLimit) \in SUBSET Merged(B)
        BY <2>1 DEF Merged
    <2>3. j \notin Newest(O, FetchLimit) /\ IsFiniteSet(O)
        BY <2>1, <2>2, FS_Subset
    <2> HIDE DEF O
    <2>4. Cardinality(Above(Newest(O, FetchLimit), j)) >= FetchLimit
        BY <1>1, <2>1, <2>3, NewestFills
    <2>5. Above(Newest(O, FetchLimit), j) \in SUBSET Above(Merged(B), j)
        BY <2>2 DEF Above
    <2>6. Above(Merged(B), j) \in SUBSET Merged(B)
        BY DEF Above
    <2>7. IsFiniteSet(Above(Merged(B), j)) /\ IsFiniteSet(Above(Newest(O, FetchLimit), j))
        BY <1>4, <2>5, <2>6, FS_Subset
    <2>8. Cardinality(Above(Newest(O, FetchLimit), j)) <= Cardinality(Above(Merged(B), j))
        BY <2>5, <2>7, FS_Subset
    <2> QED
        BY <1>1, <2>4, <2>7, <2>8, FS_CardinalityType
<1> QED
    BY <1>3, <1>4, <1>5

\* A page leaves no gap: what is newer than one of its rows is on it.
LEMMA PageCloses ==
    ASSUME NEW B \in SUBSET Item, IsFiniteSet(B),
           NEW i \in Page(B), NEW j \in B, j.seq > i.seq
    PROVE  j \in Page(B)
<1> DEFINE M == Merged(B)
<1>1. /\ M \in SUBSET B /\ M \in SUBSET Item /\ IsFiniteSet(M)
      /\ \A k \in B \ M : Cardinality(Above(M, k)) > Limit
    BY MergedFills
<1>2. i \in M /\ i \in Newest(M, Limit) /\ Cardinality(Above(M, i)) < Limit
    BY DEF Page, Newest, Above
<1> HIDE DEF M
<1>3. j \in M
    <2> SUFFICES ASSUME j \notin M PROVE FALSE
        OBVIOUS
    <2>1. Cardinality(Above(M, j)) > Limit
        BY <1>1
    <2>2. i.seq \in Nat /\ j.seq \in Nat
        BY <1>1, <1>2 DEF Item
    <2>3. Above(M, j) \in SUBSET Above(M, i) /\ Above(M, i) \in SUBSET M
        BY <1>1, <2>2 DEF Above, Item
    <2>4. IsFiniteSet(Above(M, i)) /\ IsFiniteSet(Above(M, j))
        BY <1>1, <2>3, FS_Subset
    <2>5. Cardinality(Above(M, j)) <= Cardinality(Above(M, i))
        BY <2>3, <2>4, FS_Subset
    <2> QED
        BY <1>2, <2>1, <2>4, <2>5, FS_CardinalityType, TimelineAssumption
<1>4. j \in Newest(M, Limit)
    BY <1>1, <1>2, <1>3, NewestCloses, TimelineAssumption
<1> QED
    BY <1>4 DEF Page, M

\* The last page has all that is left, and a page before the last is not empty.
LEMMA PageEnds ==
    ASSUME NEW B \in SUBSET Item, IsFiniteSet(B)
    PROVE  /\ Page(B) \in SUBSET B
           /\ Cardinality(Merged(B)) > Limit => Page(B) # {}
           /\ ~(Cardinality(Merged(B)) > Limit) => Page(B) = B
<1> DEFINE M == Merged(B)
<1>1. /\ M \in SUBSET B /\ M \in SUBSET Item /\ IsFiniteSet(M)
      /\ \A k \in B \ M : Cardinality(Above(M, k)) > Limit
    BY MergedFills
<1>2. Page(B) = {i \in M : Cardinality(Above(M, i)) < Limit}
    BY DEF Page, Newest, Above
<1>3. Limit \in Nat \ {0} /\ Cardinality(M) \in Nat
    BY <1>1, TimelineAssumption, FS_CardinalityType
<1> HIDE DEF M
<1>4. ASSUME NEW i PROVE /\ IsFiniteSet(Above(M, i)) /\ Cardinality(Above(M, i)) \in Nat
                         /\ Cardinality(Above(M, i)) <= Cardinality(M)
    <2>1. Above(M, i) \in SUBSET M
        BY DEF Above
    <2> QED
        BY <1>1, <2>1, FS_Subset, FS_CardinalityType
<1>5. ASSUME Cardinality(M) > Limit PROVE Page(B) # {}
    <2>1. M # {}
        BY <1>3, <1>5, FS_EmptySet
    <2>2. PICK m \in M : \A k \in M : k.seq <= m.seq
        BY <1>1, <2>1, NewestRow
    <2>3. Above(M, m) = {}
        BY <1>1, <2>2 DEF Above, Item
    <2>4. Cardinality(Above(M, m)) < Limit
        BY <1>3, <2>3, FS_EmptySet
    <2> QED
        BY <1>2, <2>4
<1>6. ASSUME ~(Cardinality(M) > Limit) PROVE Page(B) = B
    <2>1. Cardinality(M) <= Limit
        BY <1>3, <1>6
    <2>2. ASSUME NEW k \in B PROVE k \in M
        <3> SUFFICES ASSUME k \notin M PROVE FALSE
            OBVIOUS
        <3>1. Cardinality(Above(M, k)) > Limit
            BY <1>1
        <3>2. Cardinality(Above(M, k)) \in Nat /\ Cardinality(Above(M, k)) <= Cardinality(M)
            BY <1>4
        <3> QED
            BY <1>3, <2>1, <3>1, <3>2
    <2>3. ASSUME NEW k \in M PROVE Cardinality(Above(M, k)) < Limit
        <3>1. Above(M, k) \in SUBSET M /\ k \notin Above(M, k)
            BY <1>1 DEF Above, Item
        <3>2. Cardinality(Above(M, k)) # Cardinality(M)
            BY <1>1, <3>1, FS_Subset
        <3>3. Cardinality(Above(M, k)) \in Nat /\ Cardinality(Above(M, k)) <= Cardinality(M)
            BY <1>4
        <3> QED
            BY <1>3, <2>1, <3>2, <3>3
    <2> QED
        BY <1>1, <1>2, <2>2, <2>3
<1> QED
    BY <1>1, <1>2, <1>5, <1>6 DEF M

-----------------------------------------------------------------------------
(* The walk. *)

\* A reader between two pages has seen what was there when it began down to its cursor,
\* and what has come since is above.
Between ==
    walk.at = "walks" =>
      /\ 1 <= walk.cursor /\ walk.cursor <= next
      /\ walk.began \subseteq rows
      /\ walk.seen = {i \in walk.began : i.seq >= walk.cursor}
      /\ \A i \in rows \ walk.began : i.seq >= walk.cursor

RowsCount == IsFiniteSet(rows) /\ \A i \in rows : i.seq >= 1
Fresh == walk.at = "idle" => walk.cursor = 0 /\ walk.seen = {} /\ walk.began = {}

WInv == walk \in Walk /\ RowsCount /\ Fresh /\ Between /\ WalkIsExact

LEMMA InitWalk == SeqInit => WInv
<1> SUFFICES ASSUME SeqInit PROVE WInv
    OBVIOUS
<1>1. /\ rows = {}
      /\ walk = [at |-> "idle", cursor |-> 0, seen |-> {}, began |-> {}, twice |-> FALSE]
    BY DEF SeqInit
<1>2. RowsCount
    BY <1>1, FS_EmptySet DEF RowsCount
<1>3. walk \in Walk
    BY <1>1 DEF Walk
<1> QED
    BY <1>1, <1>2, <1>3 DEF WInv, Fresh, Between, WalkIsExact

\* A commit adds finitely many rows.
LEMMA CommitCount ==
    ASSUME IInv, RowsCount, NEW w \in Writers, Commits(w)
    PROVE  RowsCount' /\ rows \subseteq rows'
<1> DEFINE t == txn[w]
           New == {[seq |-> i, source |-> t.source] : i \in Given(w)}
           f == [i \in Given(w) |-> [seq |-> i, source |-> t.source]]
<1>1. t \in Txn /\ t.at = "holds"
    BY DEF IInv, WriterTypes, Commits
<1>2. t.start \in Nat /\ t.count \in Nat /\ t.start >= 1
    BY <1>1, TimelineAssumption DEF Txn, IInv, HolderAtBase, Base, WriterTypes
<1>3. Given(w) = t.start..(t.start + t.count - 1) /\ rows' = rows \cup New
    BY DEF Given, Commits
<1> HIDE DEF t
<1>4. IsFiniteSet(Given(w))
    <2>1. t.start \in Int /\ t.start + t.count - 1 \in Int
        BY <1>2
    <2> QED
        BY <1>3, <2>1, FS_Interval
<1>5. f \in Surjection(Given(w), New)
    BY DEF Surjection
<1>6. IsFiniteSet(New)
    BY <1>4, <1>5, FS_Surjection
<1>7. \A i \in New : i.seq >= 1
    BY <1>2, <1>3
<1> HIDE DEF New
<1>8. IsFiniteSet(rows')
    BY <1>3, <1>6, FS_Union DEF RowsCount
<1> QED
    BY <1>3, <1>7, <1>8 DEF RowsCount

\* What is before the cursor is what the reader has not seen of its rows.
LEMMA PageRead ==
    ASSUME IInv, WInv, ReadsPage
    PROVE  WInv'
<1> DEFINE B == Before(walk.cursor)
           P == Page(B)
           more == Cardinality(Merged(B)) > Limit
           began == IF walk.at = "idle" THEN rows ELSE walk.began
<1>1. /\ walk.at # "over" /\ rows' = rows /\ next' = next
      /\ walk' = [at |-> IF more THEN "walks" ELSE "over",
                  cursor |-> IF more THEN Oldest(P) ELSE 0,
                  seen |-> walk.seen \cup P, began |-> began,
                  twice |-> walk.twice \/ walk.seen \cap P # {}]
    BY FetchedIsMerged DEF ReadsPage, Page
<1>2. /\ walk \in Walk /\ rows \in SUBSET Item /\ next \in Nat /\ IsFiniteSet(rows)
      /\ ~walk.twice /\ NumbersUnique
      /\ \A i \in rows : i.seq >= 1 /\ i.seq < next
    BY DEF WInv, RowsCount, WalkIsExact, IInv, WriterTypes, Below
<1>3. walk.at \in {"idle", "walks"} /\ walk.cursor \in Nat
    BY <1>1, <1>2 DEF Walk
<1>4. /\ began \in SUBSET rows
      /\ B = began \ walk.seen /\ walk.seen \in SUBSET began
      /\ \A i \in B : walk.at = "walks" => i.seq < walk.cursor
      /\ \A i \in walk.seen : walk.at = "walks" /\ i.seq >= walk.cursor
      /\ \A i \in rows \ began : walk.at = "walks" /\ i.seq >= walk.cursor
    <2>1. CASE walk.at = "idle"
        BY <2>1 DEF WInv, Fresh, Before
    <2>2. CASE walk.at = "walks"
        <3>1. /\ 1 <= walk.cursor /\ walk.began \subseteq rows
              /\ walk.seen = {i \in walk.began : i.seq >= walk.cursor}
              /\ \A i \in rows \ walk.began : i.seq >= walk.cursor
            BY <2>2 DEF WInv, Between
        <3>2. B = {i \in rows : i.seq < walk.cursor}
            BY <1>3, <3>1 DEF Before
        <3>3. \A i \in rows : i.seq \in Nat
            BY <1>2 DEF Item
        <3> QED
            BY <1>3, <2>2, <3>1, <3>2, <3>3
    <2> QED
        BY <1>3, <2>1, <2>2
<1>5. B \in SUBSET Item /\ B \in SUBSET rows /\ IsFiniteSet(B)
    <2>1. B \in SUBSET rows
        BY DEF Before
    <2> QED
        BY <1>2, <2>1, FS_Subset
<1> HIDE DEF B
<1>6. P \in SUBSET B /\ (more => P # {}) /\ (~more => P = B)
    BY <1>5, PageEnds
<1>7. \A i \in P, j \in B : j.seq > i.seq => j \in P
    BY <1>5, PageCloses
<1> HIDE DEF P, began, more
<1>8. walk.seen \cap P = {}
    BY <1>4, <1>6
<1>9. CASE more
    <2>1. P \in SUBSET Item /\ P # {}
        BY <1>5, <1>6, <1>9
    <2>2. PICK m \in P : Oldest(P) = m.seq
        BY <2>1, OldestRow
    <2>3. \A i \in P : m.seq <= i.seq
        BY <2>1, <2>2, OldestRow
    <2>4. m \in B /\ m \in rows /\ m.seq \in Nat /\ 1 <= m.seq /\ m.seq <= next
        BY <1>2, <1>5, <1>6 DEF Item
    <2>5. \A i \in walk.seen : i.seq >= m.seq
        <3> SUFFICES ASSUME NEW i \in walk.seen PROVE i.seq >= m.seq
            OBVIOUS
        <3>1. i.seq >= walk.cursor /\ m.seq < walk.cursor /\ i \in rows
            BY <1>4, <2>4
        <3> QED
            BY <1>2, <1>3, <2>4, <3>1 DEF Item
    <2>6. \A i \in rows \ began : i.seq >= m.seq
        <3> SUFFICES ASSUME NEW i \in rows \ began PROVE i.seq >= m.seq
            OBVIOUS
        <3>1. i.seq >= walk.cursor /\ m.seq < walk.cursor
            BY <1>4, <2>4
        <3> QED
            BY <1>2, <1>3, <2>4, <3>1 DEF Item
    <2>7. ASSUME NEW i \in B, i.seq >= m.seq PROVE i \in P
        <3>1. i \in rows /\ i.seq \in Nat
            BY <1>2, <1>5 DEF Item
        <3>2. CASE i.seq = m.seq
            BY <1>2, <2>4, <3>1, <3>2 DEF NumbersUnique
        <3>3. CASE i.seq > m.seq
            BY <1>7, <3>3
        <3> QED
            BY <2>4, <2>7, <3>1, <3>2, <3>3
    <2>8. walk.seen \cup P = {i \in began : i.seq >= m.seq}
        BY <1>4, <1>6, <2>3, <2>5, <2>7
    <2>9. /\ walk'.at = "walks" /\ walk'.cursor = m.seq /\ walk'.began = began
          /\ walk'.seen = walk.seen \cup P /\ walk'.twice = FALSE
        BY <1>1, <1>2, <1>8, <1>9, <2>2
    <2>10. walk' \in Walk
        BY <1>1, <1>2, <1>4, <1>8, <1>9, <2>1, <2>2, <2>4 DEF Walk
    <2>11. RowsCount'
        BY <1>1 DEF WInv, RowsCount
    <2> QED
        BY <1>1, <1>4, <2>4, <2>6, <2>8, <2>9, <2>10, <2>11
        DEF WInv, Fresh, Between, WalkIsExact
<1>10. CASE ~more
    <2>1. walk.seen \cup P = began
        BY <1>4, <1>6, <1>10
    <2>2. /\ walk'.at = "over" /\ walk'.began = began
          /\ walk'.seen = began /\ walk'.twice = FALSE
        BY <1>1, <1>2, <1>8, <1>10, <2>1
    <2>3. walk' \in Walk
        BY <1>1, <1>2, <1>4, <1>8, <1>10, <2>1 DEF Walk
    <2>4. RowsCount'
        BY <1>1 DEF WInv, RowsCount
    <2> QED
        BY <2>2, <2>3, <2>4 DEF WInv, Fresh, Between, WalkIsExact
<1> QED
    BY <1>9, <1>10

LEMMA StepWalk == IInv /\ WInv /\ [SeqNext]_seqVars => WInv'
<1> SUFFICES ASSUME IInv, WInv, [SeqNext]_seqVars PROVE WInv'
    OBVIOUS
<1>1. ASSUME NEW w \in Writers, Commits(w) PROVE WInv'
    <2>1. walk' = walk
        BY <1>1 DEF Commits
    <2>2. RowsCount' /\ rows \subseteq rows'
        BY <1>1, CommitCount DEF WInv
    <2>3. /\ next \in Nat /\ next' \in Nat /\ next < next' /\ rows' \in SUBSET Item
          /\ \A i \in rows' \ rows : next <= i.seq
        BY <1>1, CommitRange DEF IInv, WriterTypes
    <2>4. walk.cursor \in Nat
        BY DEF WInv, Walk
    <2>5. Between'
        <3> SUFFICES ASSUME walk.at = "walks" PROVE Between'
            BY <2>1 DEF Between
        <3>1. /\ 1 <= walk.cursor /\ walk.cursor <= next
              /\ walk.began \subseteq rows
              /\ walk.seen = {i \in walk.began : i.seq >= walk.cursor}
              /\ \A i \in rows \ walk.began : i.seq >= walk.cursor
            BY DEF WInv, Between
        <3>2. walk.cursor <= next'
            BY <2>3, <2>4, <3>1
        <3>3. ASSUME NEW i \in rows' \ walk.began PROVE i.seq >= walk.cursor
            <4>1. CASE i \in rows
                BY <3>1, <4>1, <3>3
            <4>2. CASE i \notin rows
                <5>1. next <= i.seq /\ i.seq \in Nat
                    BY <2>3, <4>2, <3>3 DEF Item
                <5> QED
                    BY <2>3, <2>4, <3>1, <5>1
            <4> QED
                BY <4>1, <4>2
        <3> QED
            BY <2>1, <2>2, <3>1, <3>2, <3>3 DEF Between
    <2> QED
        BY <2>1, <2>2, <2>5 DEF WInv, Fresh, WalkIsExact
<1>2. CASE UNCHANGED <<next, rows, walk>>
    BY <1>2 DEF WInv, RowsCount, Fresh, Between, WalkIsExact
<1>3. CASE ReadsPage
    BY <1>3, PageRead
<1>4. CASE StartsAgain
    <2>1. /\ rows' = rows
          /\ walk' = [at |-> "idle", cursor |-> 0, seen |-> {}, began |-> {}, twice |-> FALSE]
        BY <1>4 DEF StartsAgain
    <2>2. walk' \in Walk
        BY <2>1 DEF Walk
    <2> QED
        BY <2>1, <2>2 DEF WInv, RowsCount, Fresh, Between, WalkIsExact
<1>5. ASSUME NEW w \in Writers,
             \/ \E s \in Sources, n \in 1..MaxCount : Begins(w, s, n)
             \/ Locks(w) \/ FindsNone(w) \/ MakesRow(w) \/ LosesRace(w) \/ RollsBack(w)
      PROVE  UNCHANGED <<next, rows, walk>>
    BY <1>5 DEF Begins, Locks, FindsNone, MakesRow, LosesRace, RollsBack
<1> QED
    BY <1>1, <1>2, <1>3, <1>4, <1>5 DEF SeqNext, seqVars

LEMMA WalkInvariant == SeqSpec => []WInv
    BY InitWalk, StepWalk, Invariant, PTL DEF SeqSpec

\* The variables keep their types; only the transaction that holds the row has numbers.
THEOREM SeqTypeCorrect == SeqSpec => []SeqTypeOK
<1>1. IInv /\ WInv => SeqTypeOK
    BY DEF IInv, WriterTypes, WInv, SeqTypeOK
<1> QED
    BY <1>1, Invariant, WalkInvariant, PTL

\* A reader that follows the cursors to the end has had what was there when it began,
\* each row once, whatever commits meanwhile and however the rows are spread over the
\* sources: get_timeline merges one row more than a page of each.
THEOREM WalkExact == SeqSpec => []WalkIsExact
<1>1. WInv => WalkIsExact
    BY DEF WInv
<1> QED
    BY <1>1, WalkInvariant, PTL
=============================================================================
