--------------------------- MODULE VoiceTurn_proofs ---------------------------
(***************************************************************************)
(* The turns of a session for any stream, any Hold and Window that fit     *)
(* together and any number of failed transactions.  The numbers of the     *)
(* provider's events tie the filter to the turn service (Kept, Near), the  *)
(* playback ledger bounds what may be stored (Reported), and a turn that   *)
(* is being collected keeps the draft that the flush looks at (Collecting).*)
(***************************************************************************)
EXTENDS VoiceTurn, FiniteSetTheorems, TLAPS

Tasks == {"receiver", "stop"}
Verdicts == {"none", "candidate", "valid", "blocked"}

-----------------------------------------------------------------------------
(* The filter. *)

\* The frames that the event finds overdue, those of its own question that stay behind,
\* and the verdicts it finds.
Freed(e) == {f \in held : f.q \in Overdue(e.seq)}
Mine(e) == HeldOf(e.q) \ Freed(e)
Before(e) == [q \in Questions |-> IF q \in Overdue(e.seq) THEN "valid" ELSE state[q]]

\* Four things can happen to the event and the frames of its question: all are held, all
\* are given on, all become tombstones, or the event alone is given on.
Sorted(e, verdict, keep, give) ==
    \/ verdict = "candidate" /\ keep = Mine(e) \cup {e} /\ give = {}
    \/ keep = {} /\ give = Mine(e) \cup {e}
    \/ keep = {} /\ give = Tombstones(Mine(e) \cup {e})
    \/ verdict = "candidate" /\ keep = Mine(e) /\ give = {e}

LEMMA FilterSorts ==
    ASSUME TypeOK, NEW e \in Frame, NEW playing, NEW ack \in BOOLEAN
    PROVE  \E verdict, keep, give :
              /\ verdict \in Verdicts
              /\ Filtered(e, playing, ack) =
                   [state |-> [Before(e) EXCEPT ![e.q] = verdict],
                    held |-> ((held \ Freed(e)) \ Mine(e)) \cup keep,
                    freed |-> Freed(e), given |-> give]
              /\ Sorted(e, verdict, keep, give)
<1> DEFINE now == IF e.kind = "started" /\ playing # NoQuestion /\ Before(e)[e.q] = "none"
                  THEN "candidate" ELSE Before(e)[e.q]
           out == e.kind \in {"piece", "finished"}
           Outcome(verdict, keep, give) ==
              [state |-> [Before(e) EXCEPT ![e.q] = verdict],
               held |-> ((held \ Freed(e)) \ Mine(e)) \cup keep,
               freed |-> Freed(e), given |-> give]
<1>1. e.q \in Questions
  BY DEF Frame
<1>2. now \in Verdicts
  BY <1>1 DEF Before, Verdicts, TypeOK
<1>3. now # "candidate" => Mine(e) = {}
  BY <1>1 DEF Before, Mine, Freed, HeldOf, TypeOK
<1>4. Filtered(e, playing, ack) =
        CASE now = "candidate" /\ e.kind = "final" /\ ack ->
               Outcome("blocked", {}, Tombstones(Mine(e) \cup {e}))
          [] now = "candidate" /\ e.kind = "final" /\ ~ack -> Outcome("valid", {}, Mine(e) \cup {e})
          [] now = "candidate" /\ out /\ Cardinality(Mine(e)) + 1 >= Hold ->
               Outcome("valid", {}, Mine(e) \cup {e})
          [] now = "candidate" /\ out -> Outcome(now, Mine(e) \cup {e}, {})
          [] now = "blocked" /\ (out \/ e.kind = "final") -> Outcome(now, {}, Tombstones({e}))
          [] OTHER -> Outcome(now, Mine(e), {e})
  BY DEF Filtered, Freed, Mine, Before
<1> HIDE DEF now, out, Outcome
<1>5. \/ Filtered(e, playing, ack) = Outcome("blocked", {}, Tombstones(Mine(e) \cup {e}))
      \/ Filtered(e, playing, ack) = Outcome("valid", {}, Mine(e) \cup {e})
      \/ now = "candidate" /\ Filtered(e, playing, ack) = Outcome(now, Mine(e) \cup {e}, {})
      \/ now = "blocked" /\ Filtered(e, playing, ack) = Outcome(now, {}, Tombstones({e}))
      \/ Filtered(e, playing, ack) = Outcome(now, Mine(e), {e})
  BY <1>4
<1>6. \E verdict, keep, give :
         /\ verdict \in Verdicts
         /\ Filtered(e, playing, ack) = Outcome(verdict, keep, give) /\ Sorted(e, verdict, keep, give)
  <2>1. CASE Filtered(e, playing, ack) = Outcome("blocked", {}, Tombstones(Mine(e) \cup {e}))
    BY <2>1 DEF Sorted, Verdicts
  <2>2. CASE Filtered(e, playing, ack) = Outcome("valid", {}, Mine(e) \cup {e})
    BY <2>2 DEF Sorted, Verdicts
  <2>3. CASE now = "candidate" /\ Filtered(e, playing, ack) = Outcome(now, Mine(e) \cup {e}, {})
    BY <2>3 DEF Sorted, Verdicts
  <2>4. CASE now = "blocked" /\ Filtered(e, playing, ack) = Outcome(now, {}, Tombstones({e}))
    <3>1. Sorted(e, now, {}, Tombstones({e}))
      BY <1>3, <2>4 DEF Sorted
    <3> QED
      BY <1>2, <2>4, <3>1
  <2>5. CASE Filtered(e, playing, ack) = Outcome(now, Mine(e), {e})
    <3>1. Sorted(e, now, Mine(e), {e})
      BY <1>3 DEF Sorted
    <3> QED
      BY <1>2, <2>5, <3>1
  <2> QED
    BY <1>5, <2>1, <2>2, <2>3, <2>4, <2>5
<1> QED
  BY <1>6 DEF Outcome

-----------------------------------------------------------------------------
(* Types. *)

InTypes ==
    /\ stream \in Stream /\ state \in [Questions -> {"none", "candidate", "valid", "blocked"}]
    /\ held \in SUBSET Frame /\ \A f \in held : state[f.q] = "candidate"
    /\ deliver \in [by : {"nobody", "lifecycle", "timeout"},
                    at : {"consume", "handle", "forward"}, freed : SUBSET Frame,
                    given : SUBSET Frame, frame : Frame \cup {NoFrame}]
    /\ accepted \in SUBSET Questions

TurnTypes ==
    /\ applied \in 0..MaxSeq /\ queue \in SUBSET Frame
    /\ draft \in [Questions -> Draft] /\ row \in [Questions -> Turn]
    /\ lock \in {"free", "deliver", "receiver", "stop"}
    /\ trouble \in 0..MaxTrouble

EndTypes ==
    /\ ledger \in [Questions -> Reply]
    /\ \A q \in Questions : ledger[q].played <= ledger[q].pieces
    /\ apply \in [{"receiver", "stop"} -> [at : {"idle", "asks", "store"}, result : Result]]
    /\ stop \in [at : {"no", "evidence", "freeze", "frozen", "over"}, todo : SUBSET Questions,
                 known : SUBSET Questions]
    /\ why \in {"none", "hangup", "reorder", "report", "transport"}

LEMMA Types == TypeOK <=> InTypes /\ TurnTypes /\ EndTypes
  BY DEF TypeOK, InTypes, TurnTypes, EndTypes

LEMMA TypesPrime == TypeOK' <=> InTypes' /\ TurnTypes' /\ EndTypes'
  BY DEF TypeOK, InTypes, TurnTypes, EndTypes

LEMMA Deliveries ==
    ASSUME NEW task \in {"nobody", "lifecycle", "timeout"},
           NEW freed \in SUBSET Frame, NEW given \in SUBSET Frame
    PROVE  Delivery(task, freed, given) \in
             [by : {"nobody", "lifecycle", "timeout"}, at : {"consume", "handle", "forward"},
              freed : SUBSET Frame, given : SUBSET Frame, frame : Frame \cup {NoFrame}]
  BY DEF Delivery, Nobody

LEMMA DeliveredTypes ==
    ASSUME InTypes, NEW f
    PROVE  Delivered(f) \in
             [by : {"nobody", "lifecycle", "timeout"}, at : {"consume", "handle", "forward"},
              freed : SUBSET Frame, given : SUBSET Frame, frame : Frame \cup {NoFrame}]
  BY Deliveries DEF InTypes, Delivered

\* A tombstone stands where its frame stood.
LEMMA Tombs ==
    ASSUME NEW S \in SUBSET Frame
    PROVE  /\ Tombstones(S) \in SUBSET Frame
           /\ \A g \in Tombstones(S) : \E f \in S : g.seq = f.seq /\ g.q = f.q
           /\ \A f \in S : \E g \in Tombstones(S) : g.seq = f.seq /\ g.kind = "filtered"
           /\ \A f, g \in Tombstones(S) : f.seq = g.seq /\ f.q = g.q => f = g
<1> DEFINE T(f) == [f EXCEPT !.kind = "filtered"]
<1>1. \A f \in Frame : T(f) \in Frame /\ T(f).seq = f.seq /\ T(f).q = f.q
                        /\ T(f).kind = "filtered"
  BY DEF Frame, Kinds
<1>2. \A f, g \in Frame : f.seq = g.seq /\ f.q = g.q => T(f) = T(g)
  <2>1. \A f \in Frame : T(f) = [seq |-> f.seq, kind |-> "filtered", q |-> f.q]
    BY DEF Frame
  <2> QED
    BY <2>1
<1>3. Tombstones(S) = {T(f) : f \in S}
  BY DEF Tombstones
<1> HIDE DEF T
<1> QED
  BY <1>1, <1>2, <1>3

LEMMA ArriveTypes ==
    ASSUME TypeOK, NEW kind \in Kinds \ {"filtered"}, NEW q \in Questions,
           NEW playing \in Playing, NEW ack \in BOOLEAN, Arrives(kind, q, playing, ack)
    PROVE  TypeOK'
<1> DEFINE e == [seq |-> stream.seq + 1, kind |-> kind, q |-> q]
           after == Filtered(e, playing, ack)
<1>1. InTypes /\ TurnTypes /\ EndTypes
  BY Types
<1>2. e \in Frame
  BY <1>1, TurnAssumption DEF Arrives, InTypes, Stream, Frame
<1>3. stream' \in Stream
  <2>1. stream.seq + 1 \in 0..MaxSeq
    BY <1>1, TurnAssumption DEF Arrives, InTypes, Stream
  <2>2. playing \in Questions \cup {NoQuestion}
    BY DEF Playing
  <2>3. kind = "piece" => stream.pieces[q] + 1 \in 0..MaxPieces
    BY <1>1, TurnAssumption DEF Arrives, Next_Event, InTypes, Stream
  <2> DEFINE current == IF kind \in {"started", "control"} THEN q ELSE stream.current
             kept == IF kind = "started" THEN stream.kept \cup ({playing} \ {NoQuestion})
                     ELSE stream.kept
             final == IF kind = "final" THEN stream.final \cup {q} ELSE stream.final
             pieces == [stream.pieces EXCEPT ![q] =
                          IF kind = "piece" THEN stream.pieces[q] + 1 ELSE stream.pieces[q]]
             finished == IF kind = "finished" THEN stream.finished \cup {q} ELSE stream.finished
             seq == stream.seq + 1
  <2>4. stream' = [stream EXCEPT !.seq = seq, !.current = current, !.kept = kept,
                                 !.final = final, !.pieces = pieces, !.finished = finished]
    BY <1>1, Zenon DEF Arrives
  <2>5. /\ current \in Questions \cup {NoQuestion} /\ kept \in SUBSET Questions
        /\ final \in SUBSET Questions /\ pieces \in [Questions -> 0..MaxPieces]
        /\ finished \in SUBSET Questions /\ seq \in 0..MaxSeq
    BY <1>1, <2>1, <2>2, <2>3 DEF InTypes, Stream
  <2> HIDE DEF current, kept, final, pieces, finished, seq
  <2> QED
    BY <1>1, <2>4, <2>5 DEF InTypes, Stream
<1>4. PICK verdict, keep, give :
         /\ verdict \in Verdicts
         /\ after = [state |-> [Before(e) EXCEPT ![e.q] = verdict],
                     held |-> ((held \ Freed(e)) \ Mine(e)) \cup keep,
                     freed |-> Freed(e), given |-> give]
         /\ Sorted(e, verdict, keep, give)
  BY <1>2, FilterSorts
<1>5. state' = after.state /\ held' = after.held
      /\ deliver' = Delivery("lifecycle", after.freed, after.given)
  BY DEF Arrives
<1> HIDE DEF e, after
<1>6. Mine(e) \in SUBSET Frame /\ Freed(e) \in SUBSET Frame
  BY <1>1 DEF Mine, HeldOf, Freed, InTypes
<1>7. keep \in SUBSET Frame /\ give \in SUBSET Frame
  BY <1>2, <1>4, <1>6, Tombs DEF Sorted
<1>8. state' = [Before(e) EXCEPT ![e.q] = verdict]
      /\ held' = ((held \ Freed(e)) \ Mine(e)) \cup keep
      /\ deliver' = Delivery("lifecycle", Freed(e), give)
  BY <1>4, <1>5
<1>9. e.q \in Questions /\ Before(e) \in [Questions -> {"none", "candidate", "valid", "blocked"}]
  BY <1>1, <1>2 DEF Before, InTypes, Frame
<1>10. held' \in SUBSET Frame /\ \A f \in held' : state'[f.q] = "candidate"
  <2>1. \A f \in keep : f.q = e.q /\ verdict = "candidate"
    BY <1>4 DEF Sorted, Mine, HeldOf
  <2>2. \A f \in (held \ Freed(e)) \ Mine(e) :
           f.q # e.q /\ f.q \in Questions /\ Before(e)[f.q] = "candidate"
    BY <1>1 DEF Mine, HeldOf, Freed, Before, InTypes, Frame
  <2> QED
    <3>1. held' \in SUBSET Frame
      BY <1>1, <1>7, <1>8 DEF InTypes
    <3>2. ASSUME NEW f \in held' PROVE state'[f.q] = "candidate"
      <4>1. f \in keep \/ f \in (held \ Freed(e)) \ Mine(e)
        BY <1>8, <3>2, Zenon
      <4>2. CASE f \in keep
        <5>1. f.q = e.q /\ verdict = "candidate"
          BY <2>1, <4>2
        <5> QED
          BY <1>8, <1>9, <5>1
      <4>3. CASE f \in (held \ Freed(e)) \ Mine(e)
        <5>1. f.q # e.q /\ f.q \in Questions /\ Before(e)[f.q] = "candidate"
          BY <2>2, <4>3
        <5> QED
          BY <1>8, <1>9, <5>1
      <4> QED
        BY <4>1, <4>2, <4>3
    <3> QED
      BY <3>1, <3>2
<1>11. InTypes'
  <2> verdict \in {"none", "candidate", "valid", "blocked"}
    BY <1>4 DEF Verdicts
  <2>1. state' \in [Questions -> {"none", "candidate", "valid", "blocked"}]
    BY <1>8, <1>9
  <2>2. accepted' \in SUBSET Questions
    BY <1>1 DEF Arrives, InTypes
  <2> QED
    BY <1>3, <1>6, <1>7, <1>8, <1>10, <2>1, <2>2, Deliveries DEF InTypes
<1> QED
  BY <1>1, <1>11, TypesPrime DEF Arrives, turnVars, TurnTypes, EndTypes

\* The delivery once its next frame f is in the turn service.
Consuming(f) ==
    [deliver EXCEPT !.at = "handle", !.frame = f, !.freed = @ \ {f}, !.given = @ \ {f}]

LEMMA ConsumingTypes ==
    ASSUME InTypes, NEW f \in Frame
    PROVE  /\ Consuming(f) \in
                [by : {"nobody", "lifecycle", "timeout"}, at : {"consume", "handle", "forward"},
                 freed : SUBSET Frame, given : SUBSET Frame, frame : Frame \cup {NoFrame}]
           /\ Consuming(f).by = deliver.by /\ Consuming(f).at = "handle"
           /\ Consuming(f).freed = deliver.freed \ {f}
           /\ Consuming(f).given = deliver.given \ {f}
  BY DEF Consuming, InTypes

\* A reply that is fed keeps what was heard of it, and takes nothing once it is over.
LEMMA FedReply ==
    ASSUME NEW r \in Reply, NEW kind
    PROVE  /\ Fed(r, kind) \in Reply
           /\ Fed(r, kind).played = r.played /\ Fed(r, kind).over = r.over
           /\ r.pieces <= Fed(r, kind).pieces
           /\ r.over # "no" => Fed(r, kind) = r
<1> DEFINE pieces == IF kind = "piece" THEN r.pieces + 1 ELSE r.pieces
           finished == r.finished \/ kind = "finished"
<1>1. Fed(r, kind) = IF r.over # "no" THEN r
                     ELSE [r EXCEPT !.known = TRUE, !.pieces = pieces, !.finished = finished]
  BY Zenon DEF Fed
<1>2. pieces \in Nat /\ r.pieces <= pieces /\ finished \in BOOLEAN
  BY DEF Reply
<1> HIDE DEF pieces, finished
<1>3. CASE r.over # "no"
  BY <1>1, <1>3 DEF Reply
<1>4. CASE r.over = "no"
  <2>1. Fed(r, kind) = [r EXCEPT !.known = TRUE, !.pieces = pieces, !.finished = finished]
    BY <1>1, <1>4
  <2> QED
    BY <1>2, <1>4, <2>1 DEF Reply
<1> QED
  BY <1>3, <1>4

\* What Stopping does to the types, whoever calls it.
LEMMA StoppingTypes ==
    ASSUME TypeOK, NEW reason \in {"hangup", "reorder", "report", "transport"}, Stopping(reason)
    PROVE  /\ why' \in {"none", "hangup", "reorder", "report", "transport"} /\ held' = {}
           /\ stop' \in [at : {"no", "evidence", "freeze", "frozen", "over"},
                         todo : SUBSET Questions, known : SUBSET Questions]
  BY DEF Stopping, Known

LEMMA DeliverTypes ==
    ASSUME TypeOK, Delivers \/ \E q \in Questions : TimesOut(q)
    PROVE  TypeOK'
<1>1. InTypes /\ TurnTypes /\ EndTypes
  BY Types
<1>2. Nobody \in [by : {"nobody", "lifecycle", "timeout"}, at : {"consume", "handle", "forward"},
                  freed : SUBSET Frame, given : SUBSET Frame, frame : Frame \cup {NoFrame}]
  BY DEF Nobody
<1>3. ASSUME NEW q \in Questions, TimesOut(q)
      PROVE  TypeOK'
  <2>1. HeldOf(q) \in SUBSET Frame
    BY <1>1 DEF HeldOf, InTypes
  <2>2. held' \in SUBSET Frame /\ \A f \in held' : state'[f.q] = "candidate"
    BY <1>1, <1>3 DEF TimesOut, HeldOf, InTypes, Frame
  <2>3. state' \in [Questions -> {"none", "candidate", "valid", "blocked"}]
    BY <1>1, <1>3 DEF TimesOut, InTypes
  <2>4. InTypes'
    BY <1>1, <1>3, <2>1, <2>2, <2>3, Deliveries DEF TimesOut, InTypes
  <2> QED
    BY <1>1, <1>3, <2>4, TypesPrime DEF TimesOut, TurnTypes, EndTypes, turnVars
<1>4. CASE Consumes
  <2>1. PICK f \in Upcoming :
           IF Frozen \/ (Stopped /\ f.kind # "filtered")
           THEN deliver' = Delivered(f) /\ UNCHANGED <<lock, queue>>
           ELSE /\ ~Busy(f.seq)
                /\ queue' = queue \cup {f} /\ lock' = "deliver"
                /\ deliver' = Consuming(f)
    BY <1>4, Zenon DEF Consumes, Consuming
  <2>2. f \in Frame
    BY <1>1 DEF Upcoming, InTypes
  <2>3. InTypes'
    <3>1. deliver' \in {Delivered(f), Consuming(f)}
      BY <2>1
    <3> QED
      BY <1>1, <1>4, <2>2, <3>1, DeliveredTypes, ConsumingTypes DEF Consumes, InTypes
  <2>4. TurnTypes'
    BY <1>1, <1>4, <2>1, <2>2 DEF Consumes, TurnTypes
  <2> QED
    BY <1>1, <1>4, <2>3, <2>4, TypesPrime DEF Consumes, EndTypes
<1>5. CASE Overflows \/ ForwardFails
  <2>1. trouble' \in 0..MaxTrouble
    BY <1>1, <1>5, TurnAssumption DEF Overflows, ForwardFails, Trouble, TurnTypes
  <2>2. held' \in {{}, held} /\ deliver' = Nobody
    BY <1>5 DEF Overflows, ForwardFails, Stopping
  <2>3. InTypes'
    BY <1>1, <1>2, <1>5, <2>2 DEF Overflows, ForwardFails, InTypes
  <2>4. EndTypes'
    BY <1>1, <1>5, StoppingTypes DEF Overflows, ForwardFails, EndTypes
  <2> QED
    BY <1>1, <1>5, <2>1, <2>3, <2>4, TypesPrime DEF Overflows, ForwardFails, TurnTypes, turnVars
<1>6. ASSUME NEW f \in queue, NEW saved \in BOOLEAN, Handles(f, saved)
      PROVE  TypeOK'
  <2> DEFINE d == draft[f.q]
  <2>1. f \in Frame /\ f.q \in Questions /\ f.seq \in 0..MaxSeq
    BY <1>1 DEF TurnTypes, Frame
  <2>2. trouble' \in 0..MaxTrouble
    BY <1>1, <1>6, TurnAssumption DEF Handles, Trouble, TurnTypes
  <2>3. d \in Draft /\ NoDraft \in Draft
    BY <1>1, <2>1 DEF TurnTypes, Draft, NoDraft
  <2>4. [at |-> "open", final |-> d.final \/ f.kind = "final",
         reply |-> d.reply \/ f.kind \in {"piece", "finished"},
         text |-> IF f.kind = "piece" THEN d.text + 1 ELSE d.text,
         finished |-> d.finished \/ f.kind = "finished"] \in Draft
    BY <2>3 DEF Draft
  <2>5. draft' \in [Questions -> Draft]
    BY <1>1, <1>6, <2>1, <2>3, <2>4 DEF Handles, TurnTypes
  <2>6. row' \in [Questions -> Turn]
    BY <1>1, <1>6, <2>1 DEF Handles, Heard, TurnTypes, Turn
  <2> QED
    BY <1>1, <1>6, <2>1, <2>2, <2>5, <2>6, TypesPrime
    DEF Handles, inVars, InTypes, TurnTypes, EndTypes
<1>7. CASE Handled
  <2>1. InTypes'
    BY <1>1, <1>7, DeliveredTypes DEF Handled, InTypes
  <2> QED
    BY <1>1, <1>7, <2>1, TypesPrime DEF Handled, TurnTypes, EndTypes
<1>8. CASE Forwards
  <2>1. InTypes'
    BY <1>1, <1>8, DeliveredTypes DEF Forwards, InTypes
  <2>2. \A q \in Questions : Fed(ledger[q], deliver.frame.kind) \in Reply
           /\ Fed(ledger[q], deliver.frame.kind).played = ledger[q].played
           /\ ledger[q].pieces <= Fed(ledger[q], deliver.frame.kind).pieces
    BY <1>1, FedReply DEF EndTypes
  <2>3. \A q \in Questions : ledger'[q] \in {ledger[q], Fed(ledger[q], deliver.frame.kind)}
    BY <1>1, <1>8 DEF Forwards, EndTypes
  <2>4. ledger' \in [Questions -> Reply]
    BY <1>1, <1>8, <2>2 DEF Forwards, EndTypes
  <2>5. \A q \in Questions : ledger'[q].played <= ledger'[q].pieces
    BY <1>1, <2>2, <2>3 DEF EndTypes, Reply
  <2> QED
    BY <1>1, <1>8, <2>1, <2>4, <2>5, TypesPrime DEF Forwards, turnVars, TurnTypes, EndTypes
<1> QED
  BY <1>3, <1>4, <1>5, <1>6, <1>7, <1>8 DEF Delivers

\* A turn as _stage_effective leaves it, and a draft that is closed.
Written(R, q, s, x) == [R EXCEPT ![q].status = s, ![q].text = x]
Closed(D, q) == [D EXCEPT ![q] = [@ EXCEPT !.at = "closed", !.text = 0]]

LEMMA StoredRow ==
    ASSUME NEW R \in [Questions -> Turn], NEW q, NEW x \in Nat,
           NEW s \in {"collecting", "finalized", "interrupted"}
    PROVE  /\ Written(R, q, s, x) \in [Questions -> Turn]
           /\ \A p \in Questions \ {q} : Written(R, q, s, x)[p] = R[p]
           /\ q \in Questions => /\ Written(R, q, s, x)[q].status = s
                                /\ Written(R, q, s, x)[q].text = x
  BY DEF Turn, Written

LEMMA StoredDraft ==
    ASSUME NEW D \in [Questions -> Draft], NEW q
    PROVE  /\ Closed(D, q) \in [Questions -> Draft]
           /\ \A p \in Questions \ {q} : Closed(D, q)[p] = D[p]
           /\ q \in Questions => /\ Closed(D, q)[q].at = "closed"
                                /\ Closed(D, q)[q].reply = D[q].reply
  BY DEF Draft, Closed

\* What storing evidence does to the turn and its draft.
LEMMA Stores ==
    ASSUME TypeOK, NEW t \in Tasks, NEW saved \in BOOLEAN, AppliesStores(t, saved)
    PROVE  LET res == apply[t].result
           IN  /\ row' \in [Questions -> Turn] /\ draft' \in [Questions -> Draft]
               /\ \A p \in Questions \ {res.q} : row'[p] = row[p] /\ draft'[p] = draft[p]
               /\ res.q \in Questions => draft'[res.q].reply = draft[res.q].reply
               /\ saved /\ res.over = "no" => draft' = draft
               /\ res.q \in Questions /\ ~(saved /\ res.over = "no") => draft'[res.q].at = "closed"
               /\ \/ row' = row /\ (saved /\ res.q \in Questions =>
                                       row[res.q].status \notin {"none", "collecting"})
                  \/ /\ saved
                     /\ res.q \in Questions =>
                          /\ row'[res.q].status = Statuses[res.over]
                          /\ row'[res.q].text = res.text
               /\ Statuses[res.over] = "finalized" <=> res.over = "completed"
               /\ Statuses[res.over] = "collecting" <=> res.over = "no"
<1>1. apply[t].result \in Result /\ row \in [Questions -> Turn] /\ draft \in [Questions -> Draft]
  BY DEF TypeOK, Tasks
<1>2. PICK res \in Result : res = apply[t].result
  BY <1>1
<1>3. PICK s \in {"collecting", "finalized", "interrupted"} :
         /\ s = Statuses[res.over]
         /\ s = "finalized" <=> res.over = "completed"
         /\ s = "collecting" <=> res.over = "no"
  BY DEF Statuses, Result
<1>4. res.text \in Nat
  BY DEF Result
<1>5. /\ row' = IF saved /\ row[res.q].status \in {"none", "collecting"}
                THEN [row EXCEPT ![res.q].status = s, ![res.q].text = res.text] ELSE row
      /\ draft' = [draft EXCEPT ![res.q] = IF saved /\ res.over = "no" THEN @
                                           ELSE [@ EXCEPT !.at = "closed", !.text = 0]]
  BY <1>2, <1>3, Zenon DEF AppliesStores
<1>6. /\ row' \in [Questions -> Turn]
      /\ \A p \in Questions \ {res.q} : row'[p] = row[p]
      /\ \/ row' = row /\ (saved => row[res.q].status \notin {"none", "collecting"})
         \/ saved /\ (res.q \in Questions => row'[res.q].status = s /\ row'[res.q].text = res.text)
  <2>1. CASE saved /\ row[res.q].status \in {"none", "collecting"}
    <3>1. row' = Written(row, res.q, s, res.text)
      BY <1>5, <2>1, Zenon DEF Written
    <3> QED
      BY <1>1, <1>4, <2>1, <3>1, StoredRow
  <2>2. CASE ~(saved /\ row[res.q].status \in {"none", "collecting"})
    BY <1>1, <1>5, <2>2
  <2> QED
    BY <2>1, <2>2
<1>7. /\ draft' \in [Questions -> Draft]
      /\ \A p \in Questions \ {res.q} : draft'[p] = draft[p]
      /\ saved /\ res.over = "no" => draft' = draft
      /\ res.q \in Questions => draft'[res.q].reply = draft[res.q].reply
      /\ res.q \in Questions /\ ~(saved /\ res.over = "no") => draft'[res.q].at = "closed"
  <2>1. CASE saved /\ res.over = "no"
    <3>1. draft' = draft
      BY <1>1, <1>5, <2>1
    <3> QED
      BY <1>1, <2>1, <3>1
  <2>2. CASE ~(saved /\ res.over = "no")
    <3>1. draft' = Closed(draft, res.q)
      <4>1. CASE ~saved
        BY <1>5, <4>1, Zenon DEF Closed
      <4>2. CASE res.over # "no"
        BY <1>5, <4>2, Zenon DEF Closed
      <4> QED
        BY <2>2, <4>1, <4>2
    <3> QED
      BY <1>1, <2>2, <3>1, StoredDraft
  <2> QED
    BY <2>1, <2>2
<1> QED
  BY <1>2, <1>3, <1>6, <1>7

LEMMA ApplyTypes ==
    ASSUME TypeOK,
           \/ \E q \in Questions, played \in 0..MaxPieces, over \in {"no", "completed", "interrupted"} :
                 Reports(q, played, over)
           \/ \E t \in Tasks : Applies(t)
    PROVE  TypeOK'
<1>1. InTypes /\ TurnTypes /\ EndTypes
  BY Types
<1>2. ASSUME NEW q \in Questions, NEW played \in 0..MaxPieces,
             NEW over \in {"no", "completed", "interrupted"}, Reports(q, played, over)
      PROVE  TypeOK'
  <2> DEFINE r == [ledger[q] EXCEPT !.played = played, !.over = over]
  <2>1. r \in Reply /\ r.played <= r.pieces
    <3>1. ledger[q] \in Reply /\ ledger[q].played \in Nat /\ ledger[q].pieces \in Nat
      BY <1>1 DEF EndTypes, Reply
    <3>2. played \in ledger[q].played..ledger[q].pieces
      BY <1>2, Zenon DEF Reports
    <3> QED
      <4>1. PICK l \in Reply : l = ledger[q]
        BY <3>1
      <4>2. played \in Nat /\ played <= l.pieces
        BY <3>1, <3>2, <4>1
      <4>3. [l EXCEPT !.played = played, !.over = over] \in Reply
        BY <4>2 DEF Reply
      <4>4. [l EXCEPT !.played = played, !.over = over].played = played
            /\ [l EXCEPT !.played = played, !.over = over].pieces = l.pieces
        BY DEF Reply
      <4> QED
        BY <4>1, <4>2, <4>3, <4>4
  <2>2. Snapshot(q, r) \in Result
    BY <2>1 DEF Snapshot, Provable, Reply, Result
  <2>3. ledger' = [ledger EXCEPT ![q] = r]
        /\ apply' = [apply EXCEPT !["receiver"] = [at |-> "asks", result |-> Snapshot(q, r)]]
    BY <1>2, Zenon DEF Reports
  <2>5. UNCHANGED <<inVars, turnVars, stop, accepted, why, trouble>>
    BY <1>2, Zenon DEF Reports
  <2> HIDE DEF r
  <2>4. EndTypes'
    BY <1>1, <2>1, <2>2, <2>3, <2>5 DEF EndTypes
  <2> QED
    BY <1>1, <2>4, <2>5, TypesPrime DEF inVars, turnVars, InTypes, TurnTypes
<1>3. NoResult \in Result
  BY DEF NoResult, Result
<1>4. ASSUME NEW t \in Tasks, AppliesNothing(t)
      PROVE  TypeOK'
  BY <1>1, <1>3, <1>4, TypesPrime
  DEF AppliesNothing, Idle, inVars, turnVars, InTypes, TurnTypes, EndTypes, Tasks
<1>5. ASSUME NEW t \in Tasks, AppliesRaises(t)
      PROVE  TypeOK'
  <2>1. apply' \in [{"receiver", "stop"} -> [at : {"idle", "asks", "store"}, result : Result]]
    BY <1>1, <1>3, <1>5 DEF AppliesRaises, Idle, EndTypes, Tasks
  <2>2. /\ held' \in {held, {}} /\ deliver' \in {deliver, Nobody}
        /\ why' \in {"none", "hangup", "reorder", "report", "transport"}
        /\ stop' \in [at : {"no", "evidence", "freeze", "frozen", "over"},
                      todo : SUBSET Questions, known : SUBSET Questions]
    BY <1>1, <1>5, StoppingTypes DEF AppliesRaises, EndTypes
  <2>3. InTypes'
    BY <1>1, <1>5, <2>2 DEF AppliesRaises, InTypes, Nobody
  <2> QED
    BY <1>1, <1>5, <2>1, <2>2, <2>3, TypesPrime DEF AppliesRaises, turnVars, TurnTypes, EndTypes
<1>6. ASSUME NEW t \in Tasks, AppliesBegins(t)
      PROVE  TypeOK'
  BY <1>1, <1>6, TypesPrime
  DEF AppliesBegins, inVars, InTypes, TurnTypes, EndTypes, Tasks
<1>7. ASSUME NEW t \in Tasks, NEW saved \in BOOLEAN, AppliesStores(t, saved)
      PROVE  TypeOK'
  <2>1. trouble' = trouble \/ (trouble < MaxTrouble /\ trouble' = trouble + 1)
    BY <1>7, Zenon DEF AppliesStores, Trouble
  <2>2. trouble' \in 0..MaxTrouble
    BY <1>1, <2>1, TurnAssumption DEF TurnTypes
  <2>3. row' \in [Questions -> Turn] /\ draft' \in [Questions -> Draft]
    BY <1>1, <1>7, Stores DEF TurnTypes
  <2>4. apply' \in [{"receiver", "stop"} -> [at : {"idle", "asks", "store"}, result : Result]]
    BY <1>1, <1>3, <1>7 DEF AppliesStores, Idle, EndTypes, Tasks
  <2>5. lock' = "free" /\ UNCHANGED <<inVars, applied, queue, ledger, stop, accepted, why>>
    BY <1>7, Zenon DEF AppliesStores
  <2> QED
    BY <1>1, <2>2, <2>3, <2>4, <2>5, TypesPrime DEF inVars, InTypes, TurnTypes, EndTypes
<1> QED
  BY <1>2, <1>4, <1>5, <1>6, <1>7 DEF Applies

LEMMA StopTypes ==
    ASSUME TypeOK, HangsUp \/ Stops
    PROVE  TypeOK'
<1>1. InTypes /\ TurnTypes /\ EndTypes
  BY Types
<1>2. CASE HangsUp
  <2>1. held' = {} /\ EndTypes'
    BY <1>1, <1>2, StoppingTypes DEF HangsUp, EndTypes
  <2>2. InTypes'
    BY <1>1, <1>2, <2>1 DEF HangsUp, InTypes, Nobody
  <2> QED
    BY <1>1, <1>2, <2>1, <2>2, TypesPrime DEF HangsUp, TurnTypes
<1>3. CASE TakesEvidence
  <2>1. PICK q \in stop.todo :
           /\ stop' = [stop EXCEPT !.todo = @ \ {q}]
           /\ apply' = [apply EXCEPT !["stop"] = [at |-> "asks", result |-> Snapshot(q, ledger[q])]]
    BY <1>3 DEF TakesEvidence
  <2>2. q \in Questions /\ ledger[q] \in Reply
    BY <1>1 DEF EndTypes
  <2>3. Snapshot(q, ledger[q]) \in Result
    BY <2>2 DEF Snapshot, Provable, Reply, Result
  <2>4. EndTypes'
    BY <1>1, <1>3, <2>1, <2>3 DEF TakesEvidence, EndTypes
  <2> QED
    BY <1>1, <1>3, <2>4, TypesPrime DEF TakesEvidence, inVars, turnVars, InTypes, TurnTypes
<1>4. CASE BeginsFreeze \/ Freezes
  <2>1. /\ stop' \in [at : {"no", "evidence", "freeze", "frozen", "over"},
                      todo : SUBSET Questions, known : SUBSET Questions]
        /\ queue' \in SUBSET Frame
    BY <1>1, <1>4 DEF BeginsFreeze, Freezes, turnVars, EndTypes, TurnTypes
  <2>2. UNCHANGED <<inVars, applied, draft, lock, row, ledger, apply, accepted, why, trouble>>
    BY <1>4 DEF BeginsFreeze, Freezes, turnVars
  <2> QED
    BY <1>1, <2>1, <2>2, TypesPrime DEF inVars, InTypes, TurnTypes, EndTypes
<1>5. CASE Flushes
  <2>1. row' \in [Questions -> Turn]
    BY <1>1, <1>5 DEF Flushes, TurnTypes, Turn
  <2> QED
    BY <1>1, <1>5, <2>1, TypesPrime DEF Flushes, inVars, InTypes, TurnTypes, EndTypes
<1> QED
  BY <1>2, <1>3, <1>4, <1>5 DEF Stops

LEMMA TypesStep ==
    ASSUME TypeOK, [Next]_vars
    PROVE  TypeOK'
<1>1. CASE UNCHANGED vars
  BY <1>1 DEF vars, inVars, turnVars, TypeOK
<1> QED
  BY <1>1, ArriveTypes, DeliverTypes, ApplyTypes, StopTypes DEF Next, Tasks

LEMMA TypesInit == Init => TypeOK
  BY TurnAssumption
  DEF Init, TypeOK, Stream, Draft, Turn, Reply, Result, NoDraft, NoRow, NoReply, NoResult, Nobody

\* Every variable keeps its type, for any stream and any number of failures.
THEOREM TypeCorrect == Spec => []TypeOK
  BY TypesInit, TypesStep, PTL DEF Spec

-----------------------------------------------------------------------------
(* The lock of the turn service, and the lock of the filter. *)

\* Nobody holds the lock once the turn service is frozen, and only its holder stores.
Locked ==
    /\ \A t \in Tasks : apply[t].at = "store" => lock = t
    /\ stop.at \in {"frozen", "over"} => lock = "free"
    /\ deliver.by = "nobody" => deliver = Nobody

LEMMA LockKept ==
    ASSUME Locked, TypeOK,
           \/ lock' = lock
           \/ lock \in {"free", "deliver"} /\ lock' \in {"free", "deliver"},
           lock' # lock => lock' = "free" \/ stop'.at \notin {"frozen", "over"},
           \A t \in Tasks : apply'[t].at = "store" => apply[t].at = "store",
           stop'.at \in {"frozen", "over"} => stop.at \in {"frozen", "over"} \/ lock' = "free",
           deliver'.by = "nobody" => deliver' = Nobody
    PROVE  Locked'
  BY DEF Locked, Tasks

LEMMA DeliveryBy ==
    ASSUME NEW task, task # "nobody", NEW freed, NEW given
    PROVE  Delivery(task, freed, given).by = "nobody" => Delivery(task, freed, given) = Nobody
  BY DEF Delivery

LEMMA LockedStep ==
    ASSUME TypeOK, Locked, [Next]_vars
    PROVE  Locked'
<1>1. /\ apply \in [Tasks -> [at : {"idle", "asks", "store"}, result : Result]]
      /\ stop.at \in {"no", "evidence", "freeze", "frozen", "over"}
      /\ deliver.by = "nobody" => deliver = Nobody /\ deliver.at = "consume"
  BY DEF TypeOK, Tasks, Locked, Nobody
<1>2. ASSUME NEW kind, NEW q, NEW playing, NEW ack, Arrives(kind, q, playing, ack)
      PROVE  Locked'
  <2>1. deliver'.by = "nobody" => deliver' = Nobody
    BY <1>2, DeliveryBy DEF Arrives
  <2>2. UNCHANGED <<lock, apply, stop>>
    BY <1>2 DEF Arrives, turnVars
  <2> QED
    BY <2>1, <2>2, LockKept
<1>3. ASSUME NEW q, TimesOut(q)
      PROVE  Locked'
  <2>1. deliver'.by = "nobody" => deliver' = Nobody
    BY <1>3, DeliveryBy DEF TimesOut
  <2>2. UNCHANGED <<lock, apply, stop>>
    BY <1>3 DEF TimesOut, turnVars
  <2> QED
    BY <2>1, <2>2, LockKept
<1>4. CASE Consumes
  <2>1. PICK f \in Upcoming :
           IF Frozen \/ (Stopped /\ f.kind # "filtered")
           THEN deliver' = Delivered(f) /\ UNCHANGED <<lock, queue>>
           ELSE lock' = "deliver" /\ deliver' = Consuming(f)
    BY <1>4, Zenon DEF Consumes, Consuming
  <2>2. deliver.by # "nobody" /\ lock = "free" /\ UNCHANGED <<apply, stop>>
    BY <1>4 DEF Consumes
  <2>3. Consuming(f).by = deliver.by
    BY DEF Consuming, TypeOK
  <2>4. deliver'.by = "nobody" => deliver' = Nobody
    BY <2>1, <2>2, <2>3, DeliveryBy DEF Delivered
  <2> QED
    BY <1>1, <2>1, <2>2, <2>4, LockKept DEF Frozen
<1>5. CASE Overflows \/ ForwardFails
  <2>1. /\ deliver' = Nobody /\ UNCHANGED <<lock, apply>>
        /\ stop' = stop \/ stop'.at = "evidence"
    BY <1>5 DEF Overflows, ForwardFails, turnVars, Stopping
  <2> QED
    BY <2>1, LockKept
<1>6. CASE Handled
  <2>1. deliver.by # "nobody"
    BY <1>1, <1>6 DEF Handled
  <2>2. [deliver EXCEPT !.at = "forward"].by = deliver.by
    BY DEF TypeOK
  <2>3. deliver'.by = "nobody" => deliver' = Nobody
    BY <1>6, <2>1, <2>2, DeliveryBy DEF Handled, Delivered
  <2> QED
    BY <1>6, <2>3, LockKept DEF Handled
<1>7. CASE Forwards
  <2>1. deliver.by # "nobody"
    BY <1>1, <1>7 DEF Forwards
  <2>2. deliver'.by = "nobody" => deliver' = Nobody
    BY <1>7, <2>1, DeliveryBy DEF Forwards, Delivered
  <2> QED
    BY <1>7, <2>2, LockKept DEF Forwards, turnVars
<1>8. ASSUME NEW f \in queue, NEW saved \in BOOLEAN, Handles(f, saved)
      PROVE  Locked'
  BY <1>8, LockKept, Zenon DEF Handles, inVars, Locked
<1>9. ASSUME NEW q, NEW played, NEW over, Reports(q, played, over)
      PROVE  Locked'
  <2>1. UNCHANGED <<lock, stop, deliver>>
    BY <1>9, Zenon DEF Reports, inVars, turnVars
  <2>2. \A t \in Tasks : apply'[t].at = "store" => apply[t].at = "store"
    <3>1. PICK res : apply' = [apply EXCEPT !["receiver"] = [at |-> "asks", result |-> res]]
      BY <1>9, Zenon DEF Reports
    <3> QED
      BY <1>1, <3>1 DEF Tasks
  <2> QED
    BY <1>1, <2>1, <2>2, LockKept
<1>10. ASSUME NEW t \in Tasks, AppliesNothing(t) \/ AppliesRaises(t)
       PROVE  Locked'
  <2>1. \A u \in Tasks : apply'[u].at = "store" => apply[u].at = "store"
    BY <1>1, <1>10 DEF AppliesNothing, AppliesRaises, Idle, Tasks
  <2>2. lock' = lock /\ deliver' \in {deliver, Nobody}
    BY <1>10 DEF AppliesNothing, AppliesRaises, turnVars, inVars
  <2>3. stop'.at \in {stop.at, "freeze", "evidence"}
    <3>1. \/ stop' = stop \/ stop' = [stop EXCEPT !.at = "freeze", !.todo = {}]
          \/ stop' = [at |-> "evidence", todo |-> Known, known |-> Known]
      BY <1>10, Zenon DEF AppliesNothing, AppliesRaises, Stopping
    <3>2. stop \in [at : {"no", "evidence", "freeze", "frozen", "over"},
                   todo : SUBSET Questions, known : SUBSET Questions]
      BY DEF TypeOK
    <3>3. [stop EXCEPT !.at = "freeze", !.todo = {}].at = "freeze"
      BY <3>2
    <3> QED
      <4>1. CASE stop' = stop
        BY <4>1
      <4>2. CASE stop' = [stop EXCEPT !.at = "freeze", !.todo = {}]
        BY <3>3, <4>2
      <4>3. CASE stop' = [at |-> "evidence", todo |-> Known, known |-> Known]
        BY <4>3
      <4> QED
        BY <3>1, <4>1, <4>2, <4>3
  <2> QED
    BY <1>1, <2>1, <2>2, <2>3, LockKept
<1>11. ASSUME NEW t \in Tasks, AppliesBegins(t)
       PROVE  Locked'
  <2>1. apply' = [apply EXCEPT ![t].at = "store"] /\ lock = "free" /\ lock' = t
        /\ UNCHANGED <<stop, deliver>> /\ stop.at \notin {"frozen", "over"}
    BY <1>11, Zenon DEF AppliesBegins, inVars, Frozen
  <2>2. \A u \in Tasks \ {t} : apply'[u].at # "store"
    BY <1>1, <2>1 DEF Locked, Tasks
  <2> QED
    BY <1>1, <2>1, <2>2 DEF Locked
<1>12. ASSUME NEW t \in Tasks, NEW saved \in BOOLEAN, AppliesStores(t, saved)
       PROVE  Locked'
  <2>1. apply' = [apply EXCEPT ![t] = [at |-> "idle", result |-> NoResult]] /\ lock = t
        /\ lock' = "free" /\ UNCHANGED <<stop, deliver>>
    BY <1>12, Zenon DEF AppliesStores, inVars, Idle
  <2>2. \A u \in Tasks : apply'[u].at # "store"
    BY <1>1, <2>1 DEF Locked, Tasks
  <2> QED
    BY <1>1, <2>1, <2>2 DEF Locked
<1>13. CASE HangsUp
  <2>1. /\ stop'.at = "evidence" /\ apply' = apply /\ deliver' \in {deliver, Nobody}
        /\ lock' = lock \/ (lock = "deliver" /\ lock' = "free")
    BY <1>13 DEF HangsUp, Stopping
  <2> QED
    BY <1>1, <2>1, LockKept
<1>14. CASE TakesEvidence
  <2>1. PICK q, res : stop' = [stop EXCEPT !.todo = @ \ {q}]
                      /\ apply' = [apply EXCEPT !["stop"] = [at |-> "asks", result |-> res]]
    BY <1>14, Zenon DEF TakesEvidence
  <2>2. stop'.at = stop.at
    BY <2>1 DEF TypeOK
  <2>3. UNCHANGED <<lock, deliver>>
    BY <1>14 DEF TakesEvidence, inVars, turnVars
  <2>4. \A t \in Tasks : apply'[t].at = "store" => apply[t].at = "store"
    BY <1>1, <2>1 DEF Tasks
  <2> QED
    BY <1>1, <2>2, <2>3, <2>4, LockKept
<1>15. CASE BeginsFreeze \/ Freezes
  <2>1. /\ UNCHANGED <<lock, deliver, apply>>
        /\ stop'.at = "freeze" \/ (stop'.at = "frozen" /\ lock = "free")
    BY <1>15 DEF BeginsFreeze, Freezes, inVars, turnVars, TypeOK
  <2> QED
    BY <1>1, <2>1, LockKept
<1>16. CASE Flushes \/ UNCHANGED vars
  <2>1. UNCHANGED <<lock, deliver, apply>> /\ (stop'.at = stop.at \/ stop.at = "frozen")
    BY <1>16 DEF Flushes, inVars, vars, turnVars
  <2> QED
    BY <1>1, <2>1, LockKept
<1> QED
  BY <1>2, <1>3, <1>4, <1>5, <1>6, <1>7, <1>8, <1>9, <1>10, <1>11, <1>12, <1>13, <1>14, <1>15, <1>16
  DEF Next, Delivers, Applies, Stops, Tasks

-----------------------------------------------------------------------------
(* What may be stored. *)

\* What apply_effective was asked to store lies within what the client has reported.
Within(res) ==
    /\ res.q \in Questions /\ res.text <= ledger[res.q].played
    /\ res.over = "completed" =>
          ledger[res.q].over = "completed" /\ res.text = ledger[res.q].pieces

\* So does what is stored, and a reply that was heard out is complete.
Backed(q) ==
    /\ ledger[q].over = "completed" => ledger[q].played = ledger[q].pieces
    /\ row[q].text <= ledger[q].played
    /\ row[q].status = "finalized" =>
          ledger[q].over = "completed" /\ row[q].text = ledger[q].pieces

Reported ==
    /\ \A q \in Questions : Backed(q)
    /\ \A t \in Tasks : apply[t].at # "idle" => Within(apply[t].result)

LEMMA ReplyTypes ==
    ASSUME TypeOK
    PROVE  \A q \in Questions :
              /\ ledger[q] \in Reply /\ ledger[q].played \in Nat /\ ledger[q].pieces \in Nat
              /\ ledger[q].played <= ledger[q].pieces
              /\ row[q] \in Turn /\ row[q].text \in Nat
  BY DEF TypeOK, Reply, Turn

\* Reports only add to what was played, and what is over stays as it is.
LEMMA ReportedKept ==
    ASSUME TypeOK, TypeOK', Reported,
           \A q \in Questions :
              /\ ledger[q].played <= ledger'[q].played
              /\ ledger[q].over # "no" => ledger'[q] = ledger[q]
              /\ ledger'[q].over = "completed" => ledger'[q].played = ledger'[q].pieces
              /\ row'[q].text = row[q].text
              /\ row'[q].status = "finalized" => row[q].status = "finalized",
           \A t \in Tasks : apply'[t].at # "idle" =>
              \/ apply[t].at # "idle" /\ apply'[t].result = apply[t].result
              \/ Within(apply[t].result)'
    PROVE  Reported'
<1>1. \A q \in Questions :
         /\ ledger[q].played \in Nat /\ ledger'[q].played \in Nat /\ row[q].text \in Nat
  BY ReplyTypes, TypeOK' DEF TypeOK, Reply
<1>2. ASSUME NEW q \in Questions PROVE Backed(q)'
  BY <1>1, <1>2 DEF Reported, Backed
<1>3. ASSUME NEW t \in Tasks, apply'[t].at # "idle" PROVE Within(apply[t].result)'
  <2>1. CASE apply[t].at # "idle" /\ apply'[t].result = apply[t].result
    <3>1. Within(apply[t].result)
      BY <2>1 DEF Reported
    <3>2. apply[t].result.text \in Nat
      BY DEF TypeOK, Result, Tasks
    <3> QED
      BY <1>1, <2>1, <3>1, <3>2 DEF Within
  <2> QED
    BY <1>3, <2>1
<1> QED
  BY <1>2, <1>3 DEF Reported

\* What snapshot hands on of a reply.
LEMMA Snapshots ==
    ASSUME NEW q, NEW r \in Reply, r.played <= r.pieces,
           r.over = "completed" => r.played = r.pieces
    PROVE  /\ Snapshot(q, r).q = q /\ Snapshot(q, r).text <= r.played
           /\ Snapshot(q, r).over = r.over
           /\ r.over = "completed" => Snapshot(q, r).text = r.pieces
  BY DEF Snapshot, Provable, Reply

LEMMA ReportedStep ==
    ASSUME TypeOK, Reported, [Next]_vars
    PROVE  Reported'
<1>1. TypeOK'
  BY TypesStep
<1>2. apply \in [Tasks -> [at : {"idle", "asks", "store"}, result : Result]]
      /\ ledger \in [Questions -> Reply] /\ row \in [Questions -> Turn]
  BY DEF TypeOK, Tasks
<1>3. \A q \in Questions : /\ ledger[q].over = "completed" => ledger[q].played = ledger[q].pieces
                           /\ ledger[q].played <= ledger[q].played
  BY ReplyTypes DEF Reported, Backed
<1>4. CASE UNCHANGED <<ledger, row, apply>>
  BY <1>4 DEF Reported, Backed, Within
<1>5. CASE Forwards
  <2>1. \A q \in Questions : ledger'[q] \in {ledger[q], Fed(ledger[q], deliver.frame.kind)}
    BY <1>2, <1>5 DEF Forwards
  <2>2. UNCHANGED <<row, apply>>
    BY <1>5 DEF Forwards, turnVars
  <2>3. \A q \in Questions : /\ ledger'[q].played = ledger[q].played
                             /\ ledger'[q].over = ledger[q].over
                             /\ ledger[q].over # "no" => ledger'[q] = ledger[q]
    BY <1>2, <2>1, FedReply
  <2>4. \A q \in Questions :
              /\ ledger[q].played <= ledger'[q].played
              /\ ledger[q].over # "no" => ledger'[q] = ledger[q]
              /\ ledger'[q].over = "completed" => ledger'[q].played = ledger'[q].pieces
    BY <1>3, <2>3
  <2> QED
    BY <1>1, <2>2, <2>4, ReportedKept
<1>6. ASSUME NEW f \in queue, NEW saved \in BOOLEAN, Handles(f, saved)
      PROVE  Reported'
  <2>1. row' = row \/ row' = Heard(f.q, saved)
    BY <1>6, Zenon DEF Handles
  <2>2. \A q \in Questions : row'[q].text = row[q].text
                             /\ (row'[q].status = "finalized" => row[q].status = "finalized")
    BY <1>2, <2>1 DEF Heard, Turn
  <2>3. UNCHANGED <<ledger, apply>>
    BY <1>6, Zenon DEF Handles
  <2> QED
    BY <1>1, <1>3, <2>2, <2>3, ReportedKept
<1>7. ASSUME NEW q \in Questions, NEW played \in 0..MaxPieces,
             NEW over \in {"no", "completed", "interrupted"}, Reports(q, played, over)
      PROVE  Reported'
  <2>1. PICK r : r = [ledger[q] EXCEPT !.played = played, !.over = over]
    OBVIOUS
  <2>2. /\ ledger' = [ledger EXCEPT ![q] = r] /\ row' = row
        /\ apply' = [apply EXCEPT !["receiver"] = [at |-> "asks", result |-> Snapshot(q, r)]]
        /\ ledger[q].over = "no" /\ played \in ledger[q].played..ledger[q].pieces
        /\ over = "completed" => played = ledger[q].pieces
    BY <1>7, <2>1, Zenon DEF Reports, turnVars
  <2>3. r.played = played /\ r.over = over /\ r.pieces = ledger[q].pieces
    BY <1>2, <2>1 DEF Reply
  <2>4. ledger'[q] = r /\ \A p \in Questions \ {q} : ledger'[p] = ledger[p]
    BY <1>2, <2>2
  <2>5. r \in Reply /\ r.played <= r.pieces
    BY <1>1, <2>4, ReplyTypes DEF TypeOK
  <2>6. \A p \in Questions :
              /\ ledger[p].played <= ledger'[p].played
              /\ ledger[p].over # "no" => ledger'[p] = ledger[p]
              /\ ledger'[p].over = "completed" => ledger'[p].played = ledger'[p].pieces
    BY <1>3, <2>2, <2>3, <2>4, ReplyTypes
  <2>7. Within(Snapshot(q, r))'
    BY <2>2, <2>3, <2>4, <2>5, Snapshots DEF Within
  <2>8. apply'["receiver"].result = Snapshot(q, r) /\ apply'["stop"] = apply["stop"]
    BY <1>2, <2>2 DEF Tasks
  <2> QED
    BY <1>1, <2>2, <2>6, <2>7, <2>8, ReportedKept DEF Tasks, Within
<1>8. ASSUME NEW t \in Tasks, AppliesNothing(t) \/ AppliesRaises(t) \/ AppliesBegins(t)
      PROVE  Reported'
  <2>1. UNCHANGED <<ledger, row>>
    BY <1>8, Zenon DEF AppliesNothing, AppliesRaises, AppliesBegins, turnVars
  <2>2. /\ \A u \in Tasks \ {t} : apply'[u] = apply[u]
        /\ apply'[t].at = "idle" \/ (apply[t].at = "asks" /\ apply'[t].result = apply[t].result)
    BY <1>2, <1>8 DEF AppliesNothing, AppliesRaises, AppliesBegins, Idle
  <2> QED
    BY <1>1, <1>3, <2>1, <2>2, ReportedKept
<1>9. ASSUME NEW t \in Tasks, NEW saved \in BOOLEAN, AppliesStores(t, saved)
      PROVE  Reported'
  <2>1. PICK res : res = apply[t].result
    OBVIOUS
  <2>2. Within(res)
    BY <1>9, <2>1 DEF AppliesStores, Reported
  <2>3. /\ \A u \in Tasks \ {t} : apply'[u] = apply[u]
        /\ apply'[t].at = "idle" /\ ledger' = ledger
    BY <1>2, <1>9 DEF AppliesStores, Idle
  <2>4. /\ \A p \in Questions \ {res.q} : row'[p] = row[p]
        /\ \/ row' = row
           \/ row'[res.q].status = Statuses[res.over] /\ row'[res.q].text = res.text
        /\ Statuses[res.over] = "finalized" <=> res.over = "completed"
    BY <1>9, <2>1, <2>2, Stores DEF Within
  <2>5. ASSUME NEW q \in Questions PROVE Backed(q)'
    <3>1. CASE row'[q] = row[q]
      BY <2>3, <3>1 DEF Reported, Backed
    <3>2. CASE q = res.q /\ row'[q].status = Statuses[res.over] /\ row'[q].text = res.text
      BY <1>3, <2>2, <2>3, <2>4, <3>2 DEF Backed, Within
    <3> QED
      BY <2>4, <3>1, <3>2
  <2>6. ASSUME NEW u \in Tasks, apply'[u].at # "idle" PROVE Within(apply[u].result)'
    BY <2>3, <2>6 DEF Reported, Within
  <2> QED
    BY <2>5, <2>6 DEF Reported
<1>10. CASE TakesEvidence
  <2>1. PICK q \in stop.todo :
           apply' = [apply EXCEPT !["stop"] = [at |-> "asks", result |-> Snapshot(q, ledger[q])]]
    BY <1>10, Zenon DEF TakesEvidence
  <2>2. UNCHANGED <<ledger, row>> /\ q \in Questions
    BY <1>10 DEF TakesEvidence, turnVars, TypeOK
  <2>3. Within(Snapshot(q, ledger[q]))'
    BY <1>3, <2>2, ReplyTypes, Snapshots DEF Within
  <2>4. apply'["stop"].result = Snapshot(q, ledger[q]) /\ apply'["receiver"] = apply["receiver"]
    BY <1>2, <2>1 DEF Tasks
  <2> QED
    BY <1>1, <1>3, <2>2, <2>3, <2>4, ReportedKept DEF Tasks, Within
<1>11. CASE Flushes
  <2>1. \A q \in Questions : row'[q].text = row[q].text
                             /\ (row'[q].status = "finalized" => row[q].status = "finalized")
    BY <1>2, <1>11 DEF Flushes, Turn
  <2>2. UNCHANGED <<ledger, apply>>
    BY <1>11 DEF Flushes
  <2> QED
    BY <1>1, <1>3, <2>1, <2>2, ReportedKept
<1>12. ASSUME NEW kind, NEW q, NEW playing, NEW ack,
              Arrives(kind, q, playing, ack) \/ TimesOut(q)
       PROVE  UNCHANGED <<ledger, row, apply>>
  BY <1>12, Zenon DEF Arrives, TimesOut, turnVars
<1>13. ASSUME \/ Consumes \/ Overflows \/ ForwardFails \/ Handled
              \/ HangsUp \/ BeginsFreeze \/ Freezes \/ UNCHANGED vars
       PROVE  UNCHANGED <<ledger, row, apply>>
  BY <1>13, Zenon DEF Consumes, Overflows, ForwardFails, Handled, HangsUp, BeginsFreeze, Freezes,
               vars, turnVars
<1> QED
  BY <1>4, <1>5, <1>6, <1>7, <1>8, <1>9, <1>10, <1>11, <1>12, <1>13
  DEF Next, Delivers, Applies, Stops, Tasks

LEMMA ReportedInit == Init => Reported
  BY DEF Init, Reported, Backed, NoReply, NoRow, Tasks

\* Nothing is stored that the client has not reported as played, and what counts as heard out
\* is the whole reply, for any reply, any reports and any point at which the call is stopped.
THEOREM StoresWhatWasHeard == Spec => []StoredIsHeard
<1>1. TypeOK /\ Reported => StoredIsHeard
  BY DEF Reported, Backed, StoredIsHeard
<1>2. Init => TypeOK /\ Reported
  BY TypesInit, ReportedInit
<1>3. TypeOK /\ Reported /\ [Next]_vars => (TypeOK /\ Reported)'
  BY TypesStep, ReportedStep
<1> QED
  BY <1>1, <1>2, <1>3, PTL DEF Spec

-----------------------------------------------------------------------------
(* What the flush closes.  Without a failed transaction a row that is still *)
(* collecting has an open draft: the question was heard, or has a reply.    *)

Open(q) == draft[q].at = "open" /\ (draft[q].final \/ draft[q].reply)

Collecting ==
    /\ \A q \in Questions : draft[q].reply => draft[q].at # "none"
    /\ \A t \in Tasks : apply[t].at = "store" =>
          draft[apply[t].result.q].at = "open" /\ draft[apply[t].result.q].reply
    /\ trouble = 0 => \A q \in Questions :
          row[q].status = "collecting" => stop.at # "over" /\ Open(q)

FlushInv == TypeOK /\ Locked /\ Reported /\ Collecting

\* Trouble does not pass.
LEMMA TroubleStays ==
    ASSUME TypeOK, [Next]_vars, trouble' = 0
    PROVE  trouble = 0
<1>1. trouble \in Nat
  BY TurnAssumption DEF TypeOK
<1>2. \/ trouble' = trouble \/ trouble' = trouble + 1
  <2>1. ASSUME NEW kind, NEW q, NEW playing, NEW ack,
               Arrives(kind, q, playing, ack) \/ TimesOut(q)
        PROVE  trouble' = trouble
    BY <2>1, Zenon DEF Arrives, TimesOut
  <2>2. ASSUME NEW q, NEW played, NEW over, Reports(q, played, over)
        PROVE  trouble' = trouble
    BY <2>2, Zenon DEF Reports
  <2>3. ASSUME NEW f, NEW saved, Handles(f, saved)
        PROVE  trouble' = trouble \/ trouble' = trouble + 1
    BY <2>3, Zenon DEF Handles, Trouble
  <2>4. ASSUME NEW t, NEW saved, AppliesStores(t, saved)
        PROVE  trouble' = trouble \/ trouble' = trouble + 1
    BY <2>4, Zenon DEF AppliesStores, Trouble
  <2>5. ASSUME NEW t, AppliesNothing(t) \/ AppliesRaises(t) \/ AppliesBegins(t)
        PROVE  trouble' = trouble
    BY <2>5, Zenon DEF AppliesNothing, AppliesRaises, AppliesBegins
  <2>6. CASE Consumes \/ Overflows \/ Handled \/ Forwards \/ HangsUp \/ Stops \/ UNCHANGED vars
    BY <2>6, Zenon DEF Consumes, Overflows, Handled, Forwards, HangsUp, Stops, TakesEvidence,
                       BeginsFreeze, Freezes, Flushes, vars
  <2>7. CASE ForwardFails
    BY <2>7, Zenon DEF ForwardFails, Trouble
  <2> QED
    BY <2>1, <2>2, <2>3, <2>4, <2>5, <2>6, <2>7 DEF Next, Delivers, Applies
<1> QED
  BY <1>1, <1>2

LEMMA CollectingKept ==
    ASSUME TypeOK, Collecting, [Next]_vars, UNCHANGED <<draft, row>>,
           stop'.at = "over" => stop.at = "over",
           \A t \in Tasks : apply'[t].at = "store" =>
              /\ apply[t].at = "store" /\ apply'[t].result = apply[t].result
    PROVE  Collecting'
<1>1. trouble' = 0 => trouble = 0
  BY TroubleStays
<1>2. \A t \in Tasks : apply'[t].at = "store" =>
          draft'[apply'[t].result.q].at = "open" /\ draft'[apply'[t].result.q].reply
  BY DEF Collecting
<1>3. \A q \in Questions : draft'[q].reply => draft'[q].at # "none"
  BY DEF Collecting
<1>4. trouble' = 0 => \A q \in Questions :
          row'[q].status = "collecting" => stop'.at # "over" /\ Open(q)'
  BY <1>1 DEF Collecting, Open
<1> QED
  BY <1>2, <1>3, <1>4 DEF Collecting

\* What an event makes of a draft.
HandledDraft(d, kind) ==
    IF kind = "filtered"
    THEN IF d.final \/ d.text > 0 \/ d.reply THEN d ELSE NoDraft
    ELSE IF kind = "control" \/ d.at = "closed" THEN d
    ELSE [at |-> "open", final |-> d.final \/ kind = "final",
          reply |-> d.reply \/ kind \in {"piece", "finished"},
          text |-> IF kind = "piece" THEN d.text + 1 ELSE d.text,
          finished |-> d.finished \/ kind = "finished"]

LEMMA HandledDrafts ==
    ASSUME NEW d \in Draft, NEW kind, d.reply => d.at # "none"
    PROVE  /\ HandledDraft(d, kind).reply => HandledDraft(d, kind).at # "none"
           /\ d.at = "open" /\ (d.final \/ d.reply) =>
                /\ HandledDraft(d, kind).at = "open"
                /\ HandledDraft(d, kind).final \/ HandledDraft(d, kind).reply
           /\ kind = "final" /\ d.at # "closed" =>
                HandledDraft(d, kind).at = "open" /\ HandledDraft(d, kind).final
<1>1. CASE kind = "filtered"
  <2>1. HandledDraft(d, kind) = IF d.final \/ d.text > 0 \/ d.reply THEN d ELSE NoDraft
    BY <1>1 DEF HandledDraft
  <2>2. NoDraft.reply = FALSE
    BY DEF NoDraft
  <2>3. CASE d.final \/ d.text > 0 \/ d.reply
    BY <1>1, <2>1, <2>3
  <2>4. CASE ~(d.final \/ d.text > 0 \/ d.reply)
    BY <1>1, <2>1, <2>2, <2>4
  <2> QED
    BY <2>3, <2>4
<1>2. CASE kind # "filtered" /\ (kind = "control" \/ d.at = "closed")
  <2>1. HandledDraft(d, kind) = d
    BY <1>2 DEF HandledDraft
  <2> QED
    BY <1>2, <2>1
<1>3. CASE kind # "filtered" /\ ~(kind = "control" \/ d.at = "closed")
  <2>1. /\ HandledDraft(d, kind).at = "open"
        /\ HandledDraft(d, kind).final = (d.final \/ kind = "final")
        /\ HandledDraft(d, kind).reply = (d.reply \/ kind \in {"piece", "finished"})
    BY <1>3, Zenon DEF HandledDraft
  <2> QED
    BY <2>1
<1> QED
  BY <1>1, <1>2, <1>3

LEMMA HandlesKeepsOpen ==
    ASSUME FlushInv, NEW f \in queue, NEW saved \in BOOLEAN, Handles(f, saved)
    PROVE  Collecting'
<1>1. /\ TypeOK /\ TypeOK' /\ Locked /\ Collecting
      /\ draft \in [Questions -> Draft] /\ row \in [Questions -> Turn]
      /\ f \in Frame /\ f.q \in Questions
  <2>1. [Next]_vars
    BY DEF Next, Delivers
  <2> QED
    BY <2>1, TypesStep DEF FlushInv, TypeOK, Frame
<1>2. /\ lock = "deliver" /\ UNCHANGED <<apply, stop>>
      /\ draft' = [draft EXCEPT ![f.q] = HandledDraft(draft[f.q], f.kind)]
      /\ row' = IF f.kind = "final" /\ draft[f.q].at # "closed" /\ ~draft[f.q].final
                THEN Heard(f.q, saved) ELSE row
  BY Zenon DEF Handles, HandledDraft
<1>3. trouble' = 0 => trouble = 0
  <2>1. [Next]_vars
    BY DEF Next, Delivers
  <2> QED
    BY <1>1, <2>1, TroubleStays
<1>4. /\ \A q \in Questions \ {f.q} : draft'[q] = draft[q] /\ row'[q] = row[q]
      /\ draft'[f.q] = HandledDraft(draft[f.q], f.kind)
  BY <1>1, <1>2 DEF Heard
<1>5. row'[f.q].status = "collecting" =>
        row[f.q].status = "collecting" \/ (f.kind = "final" /\ draft[f.q].at # "closed")
  BY <1>1, <1>2
<1>6. \A q \in Questions : draft'[q].reply => draft'[q].at # "none"
  BY <1>1, <1>4, HandledDrafts DEF Collecting
<1>7. \A t \in Tasks : apply'[t].at # "store"
  BY <1>1, <1>2 DEF Locked, Tasks
<1>8. ASSUME trouble' = 0, NEW q \in Questions, row'[q].status = "collecting"
      PROVE  stop'.at # "over" /\ Open(q)'
  <2>1. stop'.at # "over"
    BY <1>1, <1>2 DEF Locked
  <2>2. CASE q # f.q
    BY <1>1, <1>3, <1>4, <1>8, <2>1, <2>2 DEF Collecting, Open
  <2>3. CASE q = f.q
    <3>1. draft[q] \in Draft /\ (draft[q].reply => draft[q].at # "none")
      BY <1>1 DEF Collecting
    <3>2. row[q].status = "collecting" => Open(q)
      BY <1>1, <1>3, <1>8 DEF Collecting
    <3>3. draft'[q].at = "open" /\ (draft'[q].final \/ draft'[q].reply)
      BY <1>4, <1>5, <1>8, <2>3, <3>1, <3>2, HandledDrafts DEF Open
    <3> QED
      BY <2>1, <3>3 DEF Open
  <2> QED
    BY <2>2, <2>3
<1> QED
  BY <1>6, <1>7, <1>8 DEF Collecting

LEMMA StoresKeepsOpen ==
    ASSUME FlushInv, NEW t \in Tasks, NEW saved \in BOOLEAN, AppliesStores(t, saved)
    PROVE  Collecting'
<1>1. /\ TypeOK /\ Locked /\ Collecting /\ Reported
      /\ apply \in [Tasks -> [at : {"idle", "asks", "store"}, result : Result]]
  BY DEF FlushInv, TypeOK, Tasks
<1>2. [Next]_vars
  BY DEF Next, Applies, Tasks
<1>3. trouble' = 0 => trouble = 0 /\ saved
  <2>1. trouble' = 0 => trouble = 0
    BY <1>1, <1>2, TroubleStays
  <2>2. ~saved => trouble' = trouble + 1
    BY Zenon DEF AppliesStores, Trouble
  <2> QED
    BY <1>1, <2>1, <2>2 DEF TypeOK
<1>4. /\ apply[t].at = "store" /\ lock = t /\ stop' = stop
      /\ apply' = [apply EXCEPT ![t] = [at |-> "idle", result |-> NoResult]]
  BY Zenon DEF AppliesStores, Idle
<1>5. \A u \in Tasks : apply'[u].at # "store"
  BY <1>1, <1>4 DEF Locked, Tasks
<1>6. stop'.at # "over"
  BY <1>1, <1>4 DEF Locked, Tasks
<1>7. PICK res : res = apply[t].result
  OBVIOUS
<1>8. /\ res.q \in Questions /\ draft[res.q].at = "open" /\ draft[res.q].reply
  BY <1>1, <1>4, <1>7 DEF Reported, Within, Collecting
<1>9. /\ \A p \in Questions \ {res.q} : row'[p] = row[p] /\ draft'[p] = draft[p]
      /\ saved /\ res.over = "no" => draft' = draft
      /\ ~(saved /\ res.over = "no") => draft'[res.q].at = "closed"
      /\ draft'[res.q].reply = draft[res.q].reply
      /\ \/ row' = row /\ (saved => row[res.q].status \notin {"none", "collecting"})
         \/ saved /\ row'[res.q].status = Statuses[res.over]
      /\ Statuses[res.over] = "collecting" <=> res.over = "no"
  BY <1>1, <1>7, <1>8, Stores
<1>10. \A q \in Questions : draft'[q].reply => draft'[q].at # "none"
  BY <1>1, <1>8, <1>9 DEF Collecting
<1>11. ASSUME trouble' = 0, NEW q \in Questions, row'[q].status = "collecting" PROVE Open(q)'
  <2>1. CASE q # res.q
    BY <1>1, <1>3, <1>9, <1>11, <2>1 DEF Collecting, Open
  <2>2. CASE q = res.q
    <3>1. saved /\ res.over = "no"
      BY <1>3, <1>9, <1>11, <2>2
    <3> QED
      BY <1>8, <1>9, <2>2, <3>1 DEF Open
  <2> QED
    BY <2>1, <2>2
<1> QED
  BY <1>5, <1>6, <1>10, <1>11 DEF Collecting

LEMMA CollectingStep ==
    ASSUME FlushInv, [Next]_vars
    PROVE  Collecting'
<1>1. /\ TypeOK /\ Locked /\ Collecting /\ Reported
      /\ apply \in [Tasks -> [at : {"idle", "asks", "store"}, result : Result]]
      /\ stop \in [at : {"no", "evidence", "freeze", "frozen", "over"},
                   todo : SUBSET Questions, known : SUBSET Questions]
  BY DEF FlushInv, TypeOK, Tasks
<1>2. ASSUME NEW kind, NEW q, NEW playing, NEW ack,
             Arrives(kind, q, playing, ack) \/ TimesOut(q)
      PROVE  Collecting'
  <2>1. UNCHANGED <<draft, row, stop, apply>>
    BY <1>2, Zenon DEF Arrives, TimesOut, turnVars
  <2> QED
    BY <1>1, <2>1, CollectingKept
<1>3. CASE Consumes \/ Handled \/ Forwards \/ UNCHANGED vars
  <2>1. UNCHANGED <<draft, row, stop, apply>>
    BY <1>3, Zenon DEF Consumes, Handled, Forwards, vars, turnVars
  <2> QED
    BY <1>1, <2>1, CollectingKept
<1>4. CASE Overflows \/ ForwardFails \/ HangsUp
  <2>1. UNCHANGED <<draft, row, apply>>
    BY <1>4, Zenon DEF Overflows, ForwardFails, HangsUp, turnVars
  <2>2. stop' = stop \/ stop' = [at |-> "evidence", todo |-> Known, known |-> Known]
    BY <1>4, Zenon DEF Overflows, ForwardFails, HangsUp, Stopping
  <2>3. stop'.at = "over" => stop.at = "over"
    BY <2>2
  <2> QED
    BY <1>1, <2>1, <2>3, CollectingKept
<1>5. ASSUME NEW q, NEW played, NEW over, Reports(q, played, over)
      PROVE  Collecting'
  <2>1. UNCHANGED <<draft, row, stop>>
    BY <1>5, Zenon DEF Reports, turnVars
  <2>2. PICK res : apply' = [apply EXCEPT !["receiver"] = [at |-> "asks", result |-> res]]
    BY <1>5, Zenon DEF Reports
  <2>3. \A t \in Tasks : apply'[t].at = "store" =>
              apply[t].at = "store" /\ apply'[t].result = apply[t].result
    BY <1>1, <2>2 DEF Tasks
  <2> QED
    BY <1>1, <2>1, <2>3, CollectingKept
<1>6. ASSUME NEW t \in Tasks, AppliesNothing(t) \/ AppliesRaises(t)
      PROVE  Collecting'
  <2>1. UNCHANGED <<draft, row>> /\ apply' = [apply EXCEPT ![t] = [at |-> "idle", result |-> NoResult]]
    BY <1>6, Zenon DEF AppliesNothing, AppliesRaises, Idle, turnVars
  <2>2. \/ stop' = stop \/ stop' = [stop EXCEPT !.at = "freeze", !.todo = {}]
        \/ stop' = [at |-> "evidence", todo |-> Known, known |-> Known]
    BY <1>6, Zenon DEF AppliesNothing, AppliesRaises, Stopping
  <2>3. stop'.at = "over" => stop.at = "over"
    <3>1. CASE stop' = stop
      BY <3>1
    <3>2. CASE stop' = [stop EXCEPT !.at = "freeze", !.todo = {}]
      <4>1. [stop EXCEPT !.at = "freeze", !.todo = {}].at = "freeze"
        BY <1>1
      <4> QED
        BY <3>2, <4>1
    <3>3. CASE stop' = [at |-> "evidence", todo |-> Known, known |-> Known]
      BY <3>3
    <3> QED
      BY <2>2, <3>1, <3>2, <3>3
  <2>4. \A u \in Tasks : apply'[u].at = "store" =>
              apply[u].at = "store" /\ apply'[u].result = apply[u].result
    BY <1>1, <2>1
  <2> QED
    BY <1>1, <2>1, <2>3, <2>4, CollectingKept
<1>7. ASSUME NEW t \in Tasks, AppliesBegins(t)
      PROVE  Collecting'
  <2>1. PICK res : res = apply[t].result
    OBVIOUS
  <2>2. /\ UNCHANGED <<draft, row, stop, trouble>> /\ apply' = [apply EXCEPT ![t].at = "store"]
        /\ apply[t].at = "asks" /\ ~Rejects(res) /\ draft[res.q].at # "closed"
    BY <1>7, <2>1, Zenon DEF AppliesBegins
  <2>3. res.q \in Questions /\ draft[res.q] \in Draft
    BY <1>1, <2>1, <2>2 DEF Reported, Within, TypeOK
  <2>4. draft[res.q].reply
    BY <2>2, Zenon DEF Rejects
  <2>5. draft[res.q].at = "open"
    BY <1>1, <2>2, <2>3, <2>4 DEF Collecting, Draft
  <2>6. \A u \in Tasks : /\ apply'[u].result = apply[u].result
                         /\ u # t => apply'[u] = apply[u]
    BY <1>1, <2>2
  <2>7. \A u \in Tasks : apply'[u].at = "store" =>
          draft'[apply'[u].result.q].at = "open" /\ draft'[apply'[u].result.q].reply
    BY <1>1, <2>1, <2>2, <2>4, <2>5, <2>6 DEF Collecting
  <2> QED
    BY <1>1, <2>2, <2>7 DEF Collecting, Open
<1>8. CASE TakesEvidence
  <2>1. PICK q, res : stop' = [stop EXCEPT !.todo = @ \ {q}]
                      /\ apply' = [apply EXCEPT !["stop"] = [at |-> "asks", result |-> res]]
    BY <1>8, Zenon DEF TakesEvidence
  <2>2. UNCHANGED <<draft, row>> /\ stop'.at = stop.at
    BY <1>1, <1>8, <2>1 DEF TakesEvidence, turnVars
  <2>3. \A t \in Tasks : apply'[t].at = "store" =>
              apply[t].at = "store" /\ apply'[t].result = apply[t].result
    BY <1>1, <2>1 DEF Tasks
  <2> QED
    BY <1>1, <2>2, <2>3, CollectingKept
<1>9. CASE BeginsFreeze \/ Freezes
  <2>1. UNCHANGED <<draft, row, apply>> /\ stop'.at # "over"
    BY <1>1, <1>9 DEF BeginsFreeze, Freezes, turnVars
  <2> QED
    BY <1>1, <2>1, CollectingKept
<1>10. CASE Flushes
  <2>1. UNCHANGED <<draft, apply, trouble>>
    BY <1>10, Zenon DEF Flushes
  <2>2. ASSUME trouble = 0, NEW q \in Questions PROVE row'[q].status # "collecting"
    <3>1. row'[q] = IF q \in Unclosed /\ row[q].status \in {"none", "collecting"}
                    THEN [row[q] EXCEPT !.status = "aborted"] ELSE row[q]
      BY <1>10 DEF Flushes
    <3>2. row[q].status = "collecting" => q \in Unclosed
      BY <1>1, <2>2 DEF Collecting, Open, Unclosed
    <3>3. row[q] \in Turn
      BY <1>1 DEF TypeOK
    <3> QED
      BY <3>1, <3>2, <3>3 DEF Turn
  <2>3. trouble' = 0 => \A q \in Questions :
          row'[q].status = "collecting" => stop'.at # "over" /\ Open(q)'
    BY <2>1, <2>2
  <2>4. \A q \in Questions : draft'[q].reply => draft'[q].at # "none"
    BY <1>1, <2>1 DEF Collecting
  <2> QED
    BY <1>1, <2>1, <2>3, <2>4 DEF Collecting
<1> QED
  BY <1>2, <1>3, <1>4, <1>5, <1>6, <1>7, <1>8, <1>9, <1>10, HandlesKeepsOpen, StoresKeepsOpen
  DEF Next, Delivers, Applies, Stops, Tasks

\* Without a failed transaction the flush closes every turn, whatever was being written
\* when the call was stopped, and no late report or event opens one afterwards.
THEOREM FlushCloses == Spec => []FlushedUnlessFailed
<1>1. Init => FlushInv
  <2>1. Init => Locked /\ Collecting
    BY DEF Init, Locked, Collecting, NoDraft, NoRow, Tasks
  <2> QED
    BY <2>1, TypesInit, ReportedInit DEF FlushInv
<1>2. FlushInv /\ [Next]_vars => FlushInv'
  BY TypesStep, LockedStep, ReportedStep, CollectingStep DEF FlushInv
<1>3. FlushInv => FlushedUnlessFailed
  BY DEF FlushInv, Collecting, FlushedUnlessFailed, FlushedCloses
<1> QED
  BY <1>1, <1>2, <1>3, PTL DEF Spec

-----------------------------------------------------------------------------
(* Numbers.  The frames between the provider and the drafts carry different *)
(* numbers; while nothing fails they carry all of them.                     *)

\* What waits to be handed to the turn service, and what is not yet applied.
Waiting == held \cup deliver.freed \cup deliver.given
Unapplied == Waiting \cup queue

Numbered ==
    /\ applied <= stream.seq
    /\ \A f, g \in Unapplied : f.seq = g.seq => f = g
    /\ \A f \in Unapplied : applied < f.seq /\ f.seq <= stream.seq
    /\ held \cap (deliver.freed \cup deliver.given) = {} /\ Waiting \cap queue = {}
    /\ deliver.frame \notin deliver.freed \cup deliver.given

\* No number between the last one applied and the last one sent is missing, and one that
\* the turn service can handle is handled before the next comes.
Kept ==
    /\ \A i \in applied + 1..stream.seq : \E f \in Unapplied : f.seq = i
    /\ deliver.at # "handle" => \A f \in queue : f.seq # applied + 1

\* The number that the turn service waits for is not further back than a frame may be held.
Near ==
    /\ \A f \in held : f.seq > stream.seq - Hold
    /\ \A f \in deliver.freed : f.seq < stream.seq
    /\ stream.seq <= applied + Hold + 1
    /\ deliver.by = "nobody" \/ (\E f \in queue : f.seq = stream.seq)
       => stream.seq <= applied + Hold

\* Once something has failed, a released frame may be lost, and with it all of this.
Undisturbed == trouble = 0 => why # "reorder" /\ (~Stopped => Kept /\ Near)

NumberInv == TypeOK /\ Locked /\ Numbered /\ Undisturbed

\* The types of all the numbers.
LEMMA NumberTypes ==
    ASSUME TypeOK
    PROVE  /\ applied \in Nat /\ stream.seq \in Nat
           /\ Unapplied \in SUBSET Frame /\ \A f \in Frame : f.seq \in Nat
           /\ Hold \in Nat /\ Hold > 0 /\ Window \in Nat /\ Hold <= Window
  BY TurnAssumption DEF TypeOK, Stream, Frame, Waiting, Unapplied

LEMMA DeliveryFields ==
    ASSUME NEW task \in {"lifecycle", "timeout"}, NEW F, NEW G
    PROVE  /\ Delivery(task, F, G).freed = F /\ Delivery(task, F, G).given = G
           /\ Delivery(task, F, G).frame = NoFrame /\ Delivery(task, F, G).at = "consume"
           /\ Delivery(task, F, G).by = "nobody" <=> F \cup G = {}
  BY DEF Delivery, Nobody

LEMMA NoFrames == NoFrame \notin Frame
  BY DEF NoFrame, Frame

\* Fewer frames are still numbered.
LEMMA Fewer ==
    ASSUME Numbered, UNCHANGED applied, stream'.seq = stream.seq,
           held' \in SUBSET held, queue' \in SUBSET queue,
           deliver'.freed \in SUBSET deliver.freed, deliver'.given \in SUBSET deliver.given,
           deliver'.frame \notin deliver'.freed \cup deliver'.given
    PROVE  Numbered'
<1>1. Unapplied' \in SUBSET Unapplied /\ Waiting' \in SUBSET Waiting
  BY DEF Unapplied, Waiting
<1> QED
  BY <1>1 DEF Numbered

-----------------------------------------------------------------------------
(* The filter keeps the numbers. *)

\* The frames S stand for the numbers of the frames R.
Stands(S, R) ==
    /\ \A g \in S : \E f \in R : f.seq = g.seq
    /\ \A f \in R : \E g \in S : f.seq = g.seq
    /\ \A g, h \in S : g.seq = h.seq => g = h

\* What is held once the event has come.
Holding(e, keep) == ((held \ Freed(e)) \ Mine(e)) \cup keep

\* The event has a number of its own, and so have the frames that are held.
Fresh(e) ==
    /\ e \in Frame /\ held \in SUBSET Frame /\ e \notin held
    /\ \A f, g \in held \cup {e} : f.seq = g.seq => f = g

\* Every number is held, freed or given on, and none of them twice.
Settled(e, keep, give) ==
    /\ Stands(Holding(e, keep) \cup Freed(e) \cup give, held \cup {e})
    /\ Holding(e, keep) \cap (Freed(e) \cup give) = {}
    /\ Holding(e, keep) \in SUBSET ((held \ Freed(e)) \cup {e})
    /\ Freed(e) \in SUBSET held
    /\ Freed(e) \cup give = {} => Holding(e, keep) = held \cup {e}

LEMMA FilterStands ==
    ASSUME NEW e, Fresh(e), NEW verdict, NEW keep, NEW give, Sorted(e, verdict, keep, give)
    PROVE  Settled(e, keep, give)
<1> USE DEF Fresh
<1>0. PICK H : H = Holding(e, keep) /\ H = ((held \ Freed(e)) \ Mine(e)) \cup keep
  BY DEF Holding
<1>1. Mine(e) \in SUBSET held /\ Freed(e) \in SUBSET held /\ Mine(e) \cap Freed(e) = {}
  BY DEF Mine, HeldOf, Freed
<1>2. CASE \/ keep = Mine(e) \cup {e} /\ give = {}
           \/ keep = {} /\ give = Mine(e) \cup {e}
           \/ keep = Mine(e) /\ give = {e}
  <2>1. H \cup Freed(e) \cup give = held \cup {e}
    BY <1>0, <1>1, <1>2
  <2>2. Stands(held \cup {e}, held \cup {e})
    BY DEF Stands
  <2>3. H \cap (Freed(e) \cup give) = {} /\ H \in SUBSET ((held \ Freed(e)) \cup {e})
    BY <1>0, <1>1, <1>2
  <2>4. Freed(e) \cup give = {} => H = held \cup {e}
    BY <1>0, <1>1, <1>2
  <2> QED
    BY <1>0, <1>1, <2>1, <2>2, <2>3, <2>4 DEF Settled
<1>3. CASE keep = {} /\ give = Tombstones(Mine(e) \cup {e})
  <2>1. PICK M : M = Mine(e) \cup {e}
    OBVIOUS
  <2>2. PICK L : L = held \ Mine(e)
    OBVIOUS
  <2>3. /\ M \in SUBSET Frame /\ M \cup L = held \cup {e} /\ M \cap L = {}
        /\ M # {} /\ H \cup Freed(e) = L /\ H \cap Freed(e) = {}
    BY <1>0, <1>1, <1>3, <2>1, <2>2
  <2>4. give = Tombstones(M)
    BY <1>3, <2>1
  <2>5. /\ \A g \in give : \E f \in M : g.seq = f.seq /\ g.q = f.q
        /\ \A f \in M : \E g \in give : g.seq = f.seq
        /\ \A f, g \in give : f.seq = g.seq /\ f.q = g.q => f = g
    BY <2>3, <2>4, Tombs
  <2>6. \A f, g \in M \cup L : f.seq = g.seq => f = g
    BY <2>3
  <2>7. \A g, h \in give : g.seq = h.seq => g = h
    BY <2>5, <2>6
  <2>8. \A g \in give, h \in L : g.seq # h.seq
    BY <2>3, <2>5, <2>6
  <2>9. Stands(L \cup give, M \cup L)
    BY <2>5, <2>6, <2>7, <2>8 DEF Stands
  <2>10. H \cup Freed(e) \cup give = L \cup give
    BY <2>3
  <2>11. H \cap (Freed(e) \cup give) = {}
    BY <2>3, <2>8
  <2>12. give # {}
    BY <2>3, <2>5
  <2>13. H \in SUBSET ((held \ Freed(e)) \cup {e})
    BY <1>0, <1>3
  <2> QED
    BY <1>0, <1>1, <2>3, <2>9, <2>10, <2>11, <2>12, <2>13 DEF Settled
<1> QED
  BY <1>2, <1>3 DEF Sorted

LEMMA ArriveNumbers ==
    ASSUME NumberInv, NEW kind \in Kinds \ {"filtered"}, NEW q \in Questions,
           NEW playing \in Playing, NEW ack \in BOOLEAN, Arrives(kind, q, playing, ack)
    PROVE  Numbered' /\ Undisturbed'
<1>1. PICK e : e = [seq |-> stream.seq + 1, kind |-> kind, q |-> q]
  OBVIOUS
<1>2. /\ TypeOK /\ Locked /\ Numbered /\ Undisturbed
  BY DEF NumberInv
<1>3. /\ ~Stopped /\ deliver.by = "nobody" /\ stream.seq < MaxSeq
      /\ state' = Filtered(e, playing, ack).state /\ held' = Filtered(e, playing, ack).held
      /\ deliver' = Delivery("lifecycle", Filtered(e, playing, ack).freed,
                                          Filtered(e, playing, ack).given)
      /\ UNCHANGED <<applied, queue, stop, why, trouble>>
  BY <1>1, Zenon DEF Arrives, turnVars
<1>4. e \in Frame /\ e.seq = stream.seq + 1
  <2>1. stream.seq \in 0..MaxSeq /\ MaxSeq \in Nat
    BY <1>2, TurnAssumption DEF TypeOK, Stream
  <2>2. stream.seq + 1 \in 1..MaxSeq
    BY <1>3, <2>1
  <2> QED
    BY <1>1, <2>2 DEF Frame
<1>5. stream'.seq = e.seq
  <2> DEFINE current == IF kind \in {"started", "control"} THEN q ELSE stream.current
             kept == IF kind = "started" THEN stream.kept \cup ({playing} \ {NoQuestion})
                     ELSE stream.kept
             final == IF kind = "final" THEN stream.final \cup {q} ELSE stream.final
             pieces == [stream.pieces EXCEPT ![q] =
                          IF kind = "piece" THEN stream.pieces[q] + 1 ELSE stream.pieces[q]]
             finished == IF kind = "finished" THEN stream.finished \cup {q} ELSE stream.finished
             seq == stream.seq + 1
  <2>1. stream' = [stream EXCEPT !.seq = seq, !.current = current, !.kept = kept,
                                 !.final = final, !.pieces = pieces, !.finished = finished]
    BY Zenon DEF Arrives
  <2> HIDE DEF current, kept, final, pieces, finished
  <2> QED
    BY <1>2, <1>4, <2>1 DEF TypeOK, Stream
<1>6. deliver = Nobody /\ deliver.freed = {} /\ deliver.given = {} /\ deliver.at = "consume"
  BY <1>2, <1>3 DEF Locked, Nobody
<1>7. held \in SUBSET Frame /\ Unapplied = held \cup queue
  BY <1>2, <1>6 DEF TypeOK, Unapplied, Waiting
<1>8. PICK verdict, keep, give :
         /\ verdict \in Verdicts
         /\ Filtered(e, playing, ack) =
              [state |-> [Before(e) EXCEPT ![e.q] = verdict],
               held |-> ((held \ Freed(e)) \ Mine(e)) \cup keep,
               freed |-> Freed(e), given |-> give]
         /\ Sorted(e, verdict, keep, give)
  BY <1>2, <1>4, FilterSorts
<1>9. /\ held' = Holding(e, keep) /\ deliver' = Delivery("lifecycle", Freed(e), give)
  BY <1>3, <1>8 DEF Holding
<1>10. /\ deliver'.freed = Freed(e) /\ deliver'.given = give /\ deliver'.frame = NoFrame
       /\ deliver'.at = "consume"
       /\ deliver'.by = "nobody" <=> Freed(e) \cup give = {}
  BY <1>9, DeliveryFields
<1>11. e \notin held /\ \A f, g \in held \cup {e} : f.seq = g.seq => f = g
  BY <1>2, <1>4, <1>7, NumberTypes DEF Numbered
<1>12. /\ Stands(held' \cup Freed(e) \cup give, held \cup {e})
       /\ held' \cap (Freed(e) \cup give) = {}
       /\ held' \in SUBSET ((held \ Freed(e)) \cup {e})
       /\ Freed(e) \in SUBSET held
       /\ Freed(e) \cup give = {} => held' = held \cup {e}
  <2>1. Fresh(e)
    BY <1>4, <1>7, <1>11 DEF Fresh
  <2>2. Settled(e, keep, give)
    BY <1>8, <2>1, FilterStands
  <2> QED
    BY <1>9, <2>2 DEF Settled
<1>13. Waiting' = held' \cup Freed(e) \cup give /\ Unapplied' = Waiting' \cup queue
  BY <1>3, <1>10 DEF Waiting, Unapplied
<1>14. /\ \A g \in Waiting' : \E f \in held \cup {e} : f.seq = g.seq
       /\ \A f \in held \cup {e} : \E g \in Waiting' : f.seq = g.seq
       /\ \A g, h \in Waiting' : g.seq = h.seq => g = h
  BY <1>12, <1>13 DEF Stands
<1>15. \A f \in held, g \in queue : f.seq # g.seq
  BY <1>2, <1>7 DEF Numbered, Waiting
<1>16. \A g \in Waiting', h \in queue : g.seq # h.seq
  BY <1>2, <1>4, <1>7, <1>14, <1>15, NumberTypes DEF Numbered
<1>17. Numbered'
  <2>1. \A f, g \in Unapplied' : f.seq = g.seq => f = g
    BY <1>2, <1>7, <1>13, <1>14, <1>16 DEF Numbered
  <2>2. \A f \in Unapplied' : applied < f.seq /\ f.seq <= e.seq
    <3>1. \A f \in held \cup {e} : applied < f.seq /\ f.seq <= e.seq
      BY <1>2, <1>4, <1>7, NumberTypes DEF Numbered
    <3>2. \A f \in queue : applied < f.seq /\ f.seq <= e.seq
      BY <1>2, <1>4, <1>7, NumberTypes DEF Numbered
    <3> QED
      BY <1>13, <1>14, <3>1, <3>2
  <2>3. NoFrame \notin Freed(e) \cup give
    <3>1. TypeOK'
      BY <1>2, ArriveTypes
    <3>2. Freed(e) \cup give \in SUBSET Frame
      BY <1>10, <3>1 DEF TypeOK
    <3> QED
      BY <3>2, NoFrames
  <2>4. applied <= e.seq
    BY <1>2, <1>4, NumberTypes DEF Numbered
  <2> QED
    BY <1>3, <1>5, <1>10, <1>12, <1>13, <1>16, <2>1, <2>2, <2>3, <2>4 DEF Numbered
<1>18. ASSUME trouble' = 0 PROVE Kept' /\ Near' /\ why' # "reorder"
  <2>1. Kept /\ Near /\ why # "reorder"
    BY <1>2, <1>3, <1>18 DEF Undisturbed
  <2>2. \A i \in applied + 1..e.seq : \E f \in Unapplied' : f.seq = i
    <3>1. ASSUME NEW i \in applied + 1..e.seq PROVE \E f \in Unapplied' : f.seq = i
      <4>1. CASE i = e.seq
        BY <1>13, <1>14, <4>1
      <4>2. CASE i # e.seq
        <5>1. i \in applied + 1..stream.seq
          BY <1>2, <1>4, <4>2, NumberTypes
        <5>2. PICK f \in held \cup queue : f.seq = i
          BY <1>7, <2>1, <5>1 DEF Kept
        <5> QED
          BY <1>13, <1>14, <5>2
      <4> QED
        BY <4>1, <4>2
    <3> QED
      BY <3>1
  <2>3. \A f \in queue : f.seq # applied + 1
    BY <1>6, <2>1 DEF Kept
  <2>4. \A f \in held' : f.seq > e.seq - Hold
    <3>1. ASSUME NEW f \in held \ Freed(e) PROVE f.seq > e.seq - Hold
      <4>1. f.q \in Questions /\ f.q \notin Overdue(e.seq) /\ f.seq \in Nat
        BY <1>7 DEF Freed, Frame
      <4>2. ~(e.seq - f.seq >= Hold)
        BY <4>1 DEF Overdue, HeldOf
      <4> QED
        BY <1>2, <1>4, <4>1, <4>2, NumberTypes
    <3>2. e.seq > e.seq - Hold
      BY <1>2, <1>4, NumberTypes
    <3> QED
      BY <1>12, <3>1, <3>2
  <2>5. \A f \in Freed(e) : f.seq < e.seq
    BY <1>2, <1>4, <1>7, <1>12, NumberTypes DEF Numbered
  <2>6. e.seq <= applied + Hold + 1
    BY <1>2, <1>3, <1>4, <2>1, NumberTypes DEF Near
  <2>7. ~ \E f \in queue : f.seq = e.seq
    BY <1>2, <1>4, <1>7, NumberTypes DEF Numbered
  <2>8. deliver'.by = "nobody" => e.seq <= applied + Hold
    <3>1. SUFFICES ASSUME deliver'.by = "nobody" PROVE e.seq <= applied + Hold
      OBVIOUS
    <3>2. Unapplied' = held' \cup queue
      BY <1>10, <1>13, <3>1
    <3>3. CASE applied + 1 <= e.seq
      <4>1. PICK f \in Unapplied' : f.seq = applied + 1
        BY <1>2, <1>4, <2>2, <3>3, NumberTypes
      <4>2. f.seq > e.seq - Hold
        BY <2>3, <2>4, <3>2, <4>1
      <4> QED
        BY <1>2, <1>4, <4>1, <4>2, NumberTypes
    <3> QED
      BY <1>2, <1>4, <3>3, NumberTypes
  <2>9. Kept'
    BY <1>3, <1>5, <2>2, <2>3 DEF Kept
  <2>10. Near'
    BY <1>3, <1>5, <1>10, <2>4, <2>5, <2>6, <2>7, <2>8 DEF Near
  <2> QED
    BY <1>3, <2>1, <2>9, <2>10
<1> QED
  BY <1>17, <1>18 DEF Undisturbed


-----------------------------------------------------------------------------
(* The delivery keeps the numbers, and ends with nothing lost. *)

\* Whatever stops the call only drops frames.
LEMMA EndNumbers ==
    ASSUME NumberInv, [Next]_vars, Stopped', why' # "reorder" \/ trouble' # 0,
           UNCHANGED applied, stream'.seq = stream.seq,
           held' \in SUBSET held, queue' \in SUBSET queue,
           deliver'.freed \in SUBSET deliver.freed, deliver'.given \in SUBSET deliver.given,
           deliver'.frame \notin deliver'.freed \cup deliver'.given
    PROVE  Numbered' /\ Undisturbed'
  BY Fewer DEF NumberInv, Undisturbed

\* The fields of a delivery that goes on without the frame f.
LEMMA DeliveredFields ==
    ASSUME TypeOK, deliver.by # "nobody", NEW f
    PROVE  /\ Delivered(f).freed = deliver.freed \ {f}
           /\ Delivered(f).given = deliver.given \ {f}
           /\ Delivered(f).frame = NoFrame /\ Delivered(f).at = "consume"
           /\ Delivered(f).by = "nobody" <=>
                (deliver.freed \ {f}) \cup (deliver.given \ {f}) = {}
           /\ Delivered(f).frame \notin Delivered(f).freed \cup Delivered(f).given
<1>1. deliver.by \in {"lifecycle", "timeout"} /\ deliver.freed \in SUBSET Frame
      /\ deliver.given \in SUBSET Frame
  BY DEF TypeOK
<1>2. /\ Delivered(f).freed = deliver.freed \ {f}
      /\ Delivered(f).given = deliver.given \ {f}
      /\ Delivered(f).frame = NoFrame /\ Delivered(f).at = "consume"
      /\ Delivered(f).by = "nobody" <=>
           (deliver.freed \ {f}) \cup (deliver.given \ {f}) = {}
  BY <1>1, DeliveryFields DEF Delivered
<1> QED
  BY <1>1, <1>2, NoFrames

\* The event that comes last is the only one still to be delivered, and what it waits
\* for cannot be held any longer.
LEMMA LastOne ==
    ASSUME NumberInv, trouble = 0, ~Stopped, deliver.at = "consume",
           NEW f \in Upcoming, f.seq = stream.seq
    PROVE  stream.seq <= applied + Hold
<1>1. TypeOK /\ Numbered /\ Kept /\ Near
  BY DEF NumberInv, Undisturbed
<1>2. deliver.freed \in SUBSET Frame /\ deliver.given \in SUBSET Frame
  BY <1>1 DEF TypeOK
<1>3. deliver.freed = {} /\ f \in deliver.given /\ \A g \in deliver.given : f.seq <= g.seq
  <2>1. f \notin deliver.freed
    BY <1>1, <1>2, NumberTypes DEF Near
  <2> QED
    BY <2>1 DEF Upcoming
<1>4. \A g \in deliver.given : g.seq = stream.seq
  BY <1>1, <1>2, <1>3, NumberTypes DEF Numbered, Unapplied, Waiting
<1>5. CASE applied + 1 <= stream.seq
  <2>1. PICK g \in Unapplied : g.seq = applied + 1
    BY <1>1, <1>5, NumberTypes DEF Kept
  <2>2. g \in held \/ g \in deliver.given
    BY <1>1, <1>3, <2>1 DEF Kept, Unapplied, Waiting
  <2>3. CASE g \in held
    BY <1>1, <2>1, <2>3, NumberTypes DEF Near
  <2>4. CASE g \in deliver.given
    BY <1>1, <1>4, <2>1, <2>4, NumberTypes
  <2> QED
    BY <2>2, <2>3, <2>4
<1> QED
  BY <1>1, <1>5, NumberTypes

\* The buffer of the turn service has room for the frame that comes next.
LEMMA RoomForNext ==
    ASSUME NumberInv, trouble = 0, ~Stopped, deliver.at = "consume", NEW f \in Upcoming
    PROVE  ~Busy(f.seq)
<1>1. TypeOK /\ Numbered /\ Kept /\ Near
  BY DEF NumberInv, Undisturbed
<1>2. f \in Unapplied /\ f.seq \in Nat
  BY <1>1, NumberTypes DEF Upcoming, Unapplied, Waiting
<1>3. f.seq <= applied + Hold
  <2>1. CASE f.seq = stream.seq
    BY <2>1, LastOne
  <2>2. CASE f.seq # stream.seq
    BY <1>1, <1>2, <2>2, NumberTypes DEF Numbered, Near
  <2> QED
    BY <2>1, <2>2
<1>4. \A g \in queue : g.seq \in applied + 2..applied + Hold
  <2>1. ASSUME NEW g \in queue PROVE g.seq \in applied + 2..applied + Hold
    <3>1. g \in Unapplied /\ g.seq \in Nat /\ applied < g.seq /\ g.seq <= stream.seq
      BY <1>1, NumberTypes DEF Numbered, Unapplied
    <3>2. g.seq # applied + 1
      BY <1>1 DEF Kept
    <3>3. stream.seq <= applied + Hold + 1
      BY <1>1 DEF Near
    <3>4. g.seq = stream.seq => stream.seq <= applied + Hold
      BY <1>1 DEF Near
    <3> QED
      BY <1>1, <3>1, <3>2, <3>3, <3>4, NumberTypes
  <2> QED
    BY <2>1
<1> DEFINE places == applied + 2..applied + Hold
           number == [g \in queue |-> g.seq]
<1>5. IsFiniteSet(places) /\ Cardinality(places) < Hold
  <2>1. applied + 2 \in Int /\ applied + Hold \in Int /\ Hold \in Nat /\ Hold > 0
    BY <1>1, NumberTypes
  <2>2. /\ IsFiniteSet(places)
        /\ Cardinality(places) = IF applied + 2 > applied + Hold THEN 0
                                 ELSE (applied + Hold) - (applied + 2) + 1
    BY <2>1, FS_Interval
  <2> QED
    BY <1>1, <2>1, <2>2, NumberTypes
<1>6. number \in Injection(queue, places)
  <2>1. number \in [queue -> places]
    BY <1>4
  <2>2. \A g, h \in queue : number[g] = number[h] => g = h
    BY <1>1 DEF Numbered, Unapplied
  <2> HIDE DEF number, places
  <2> QED
    BY <2>1, <2>2 DEF Injection, IsInjective
<1>7. Cardinality(queue) <= Cardinality(places) /\ IsFiniteSet(queue)
  <2> HIDE DEF number, places
  <2> QED
    BY <1>5, <1>6, FS_Injection
<1>8. Cardinality(queue) \in Nat /\ Cardinality(places) \in Nat
  <2> HIDE DEF places
  <2> QED
    BY <1>5, <1>7, FS_CardinalityType
<1> HIDE DEF places
<1> QED
  BY <1>1, <1>2, <1>3, <1>5, <1>7, <1>8, NumberTypes DEF Busy

LEMMA TimeoutNumbers ==
    ASSUME NumberInv, NEW q \in Questions, TimesOut(q)
    PROVE  Numbered' /\ Undisturbed'
<1>1. TypeOK /\ Locked /\ Numbered /\ Undisturbed
  BY DEF NumberInv
<1>2. /\ held' = held \ HeldOf(q) /\ deliver' = Delivery("timeout", {}, HeldOf(q))
      /\ deliver.by = "nobody" /\ ~Stopped /\ UNCHANGED <<stream, applied, queue, stop, why, trouble>>
  BY DEF TimesOut, turnVars
<1>3. /\ deliver.freed = {} /\ deliver.given = {} /\ deliver.at = "consume"
  BY <1>1, <1>2 DEF Locked, Nobody
<1>4. /\ deliver'.freed = {} /\ deliver'.given = HeldOf(q) /\ deliver'.frame = NoFrame
      /\ deliver'.at = "consume"
  BY <1>2, DeliveryFields
<1>5. HeldOf(q) \in SUBSET held /\ held \in SUBSET Frame
  BY <1>1 DEF HeldOf, TypeOK
<1>6. Waiting' = Waiting /\ Unapplied' = Unapplied /\ Waiting = held
  BY <1>2, <1>3, <1>4, <1>5 DEF Waiting, Unapplied
<1>7. Numbered'
  BY <1>1, <1>2, <1>4, <1>5, <1>6, NoFrames DEF Numbered
<1>8. Kept /\ Near => Kept' /\ Near'
  BY <1>2, <1>3, <1>4, <1>5, <1>6 DEF Kept, Near
<1> QED
  BY <1>1, <1>2, <1>7, <1>8 DEF Undisturbed, Stopped

LEMMA ConsumeNumbers ==
    ASSUME NumberInv, Consumes
    PROVE  Numbered' /\ Undisturbed'
<1>1. TypeOK /\ Locked /\ Numbered /\ Undisturbed
  BY DEF NumberInv
<1>2. PICK f \in Upcoming :
         IF Frozen \/ (Stopped /\ f.kind # "filtered")
         THEN deliver' = Delivered(f) /\ UNCHANGED <<lock, queue>>
         ELSE queue' = queue \cup {f} /\ deliver' = Consuming(f)
  BY Zenon DEF Consumes, Consuming
<1>3. /\ deliver.by # "nobody" /\ deliver.at = "consume"
      /\ UNCHANGED <<stream, held, applied, stop, why, trouble>>
  BY DEF Consumes
<1>4. /\ deliver.freed \in SUBSET Frame /\ deliver.given \in SUBSET Frame
      /\ f \in deliver.freed \cup deliver.given
  BY <1>1 DEF TypeOK, Upcoming
<1>5. CASE Frozen \/ (Stopped /\ f.kind # "filtered")
  <2>1. deliver' = Delivered(f) /\ queue' = queue /\ Stopped
    BY <1>2, <1>5 DEF Frozen, Stopped
  <2>2. /\ deliver'.freed = deliver.freed \ {f} /\ deliver'.given = deliver.given \ {f}
        /\ deliver'.frame \notin deliver'.freed \cup deliver'.given
    BY <1>1, <1>3, <2>1, DeliveredFields
  <2>3. Numbered'
    BY <1>1, <1>3, <2>1, <2>2, Fewer
  <2> QED
    BY <1>1, <1>3, <2>1, <2>3 DEF Undisturbed, Stopped
<1>6. CASE ~(Frozen \/ (Stopped /\ f.kind # "filtered"))
  <2>1. queue' = queue \cup {f} /\ deliver' = Consuming(f)
    BY <1>2, <1>6
  <2>2. /\ deliver'.freed = deliver.freed \ {f} /\ deliver'.given = deliver.given \ {f}
        /\ deliver'.by = deliver.by /\ deliver'.at = "handle" /\ deliver'.frame = f
    BY <1>1, <2>1 DEF Consuming, TypeOK
  <2>3. Waiting' = Waiting \ {f} /\ Unapplied' = Unapplied /\ f \in Waiting
    BY <1>1, <1>3, <1>4, <2>1, <2>2 DEF Waiting, Unapplied, Numbered
  <2>4. Numbered'
    BY <1>1, <1>3, <2>1, <2>2, <2>3 DEF Numbered
  <2>5. ASSUME trouble = 0, ~Stopped PROVE Kept' /\ Near'
    <3>1. Kept /\ Near
      BY <1>1, <2>5 DEF Undisturbed
    <3>2. Kept'
      BY <1>3, <2>2, <2>3, <3>1 DEF Kept
    <3>3. ASSUME NEW g \in queue', g.seq = stream.seq PROVE stream.seq <= applied + Hold
      <4>1. CASE g = f
        BY <1>3, <2>5, <3>3, <4>1, LastOne
      <4>2. CASE g \in queue
        BY <3>1, <3>3, <4>2 DEF Near
      <4> QED
        BY <2>1, <3>3, <4>1, <4>2
    <3>4. Near'
      BY <1>3, <2>2, <3>1, <3>3 DEF Near
    <3> QED
      BY <3>2, <3>4
  <2> QED
    BY <1>1, <1>3, <2>4, <2>5 DEF Undisturbed, Stopped
<1> QED
  BY <1>5, <1>6

LEMMA HandleNumbers ==
    ASSUME NumberInv, NEW f \in queue, NEW saved \in BOOLEAN, Handles(f, saved)
    PROVE  Numbered' /\ Undisturbed'
<1>1. TypeOK /\ Locked /\ Numbered /\ Undisturbed
  BY DEF NumberInv
<1>2. /\ deliver.at = "handle" /\ f.seq = applied + 1
      /\ queue' = queue \ {f} /\ applied' = f.seq
      /\ UNCHANGED <<stream, held, deliver, stop, why>>
  BY DEF Handles, NextInOrder, inVars
<1>3. trouble' = 0 => trouble = 0
  <2>1. [Next]_vars
    BY DEF Next, Delivers
  <2> QED
    BY <1>1, <2>1, TroubleStays
<1>4. f \in Unapplied /\ f \notin Waiting
  BY <1>1 DEF Unapplied, Numbered
<1>5. Waiting' = Waiting /\ Unapplied' = Unapplied \ {f}
  BY <1>2, <1>4 DEF Waiting, Unapplied
<1>6. \A g \in Unapplied' : g \in Unapplied /\ g.seq \in Nat /\ g.seq # applied + 1
  BY <1>1, <1>2, <1>4, <1>5, NumberTypes DEF Numbered
<1>7. \A g \in Unapplied' : applied' < g.seq
  BY <1>1, <1>2, <1>6, NumberTypes DEF Numbered
<1>8. applied' <= stream.seq /\ applied' = applied + 1
  BY <1>1, <1>2, <1>4 DEF Numbered
<1>9. Numbered'
  BY <1>1, <1>2, <1>5, <1>6, <1>7, <1>8 DEF Numbered
<1>10. ASSUME Kept, Near PROVE Kept' /\ Near'
  <2>1. ASSUME NEW i \in applied + 2..stream.seq PROVE \E g \in Unapplied' : g.seq = i
    <3>1. i \in applied + 1..stream.seq /\ i # applied + 1
      BY <1>1, NumberTypes
    <3>2. PICK g \in Unapplied : g.seq = i
      BY <1>10, <3>1 DEF Kept
    <3> QED
      BY <1>2, <1>5, <3>1, <3>2
  <2>2. applied' + 1 = applied + 2
    BY <1>1, <1>8, NumberTypes
  <2>3. Kept'
    BY <1>2, <2>1, <2>2 DEF Kept
  <2>4. stream.seq <= applied + Hold => stream.seq <= applied' + Hold
    BY <1>1, <1>8, NumberTypes
  <2>5. stream.seq <= applied' + Hold + 1
    BY <1>1, <1>8, <1>10, NumberTypes DEF Near
  <2>6. Near'
    BY <1>2, <1>10, <2>4, <2>5 DEF Near
  <2> QED
    BY <2>3, <2>6
<1> QED
  BY <1>1, <1>2, <1>3, <1>9, <1>10 DEF Undisturbed, Stopped

\* The frame is through: nothing that can be handled is queued, so what the turn service
\* waits for is still in delivery, or held.
LEMMA ThroughNumbers ==
    ASSUME NumberInv, deliver.by # "nobody", deliver' = Delivered(deliver.frame),
           \A f \in queue : f.seq # applied + 1,
           UNCHANGED <<stream, held, applied, queue, stop, why, trouble>>
    PROVE  Numbered' /\ Undisturbed'
<1>1. TypeOK /\ Numbered /\ Undisturbed
  BY DEF NumberInv
<1>2. /\ deliver'.freed = deliver.freed /\ deliver'.given = deliver.given
      /\ deliver'.at = "consume" /\ deliver'.frame \notin deliver'.freed \cup deliver'.given
      /\ deliver'.by = "nobody" <=> deliver.freed \cup deliver.given = {}
  <2>1. deliver.frame \notin deliver.freed \cup deliver.given
    BY <1>1 DEF Numbered
  <2>2. deliver.freed \ {deliver.frame} = deliver.freed
        /\ deliver.given \ {deliver.frame} = deliver.given
    BY <2>1
  <2> QED
    BY <1>1, <2>2, DeliveredFields
<1>3. Waiting' = Waiting /\ Unapplied' = Unapplied
  BY <1>2 DEF Waiting, Unapplied
<1>4. Numbered'
  BY <1>1, <1>2, <1>3 DEF Numbered
<1>5. ASSUME Kept, Near PROVE Kept' /\ Near'
  <2>1. Kept'
    BY <1>3, <1>5 DEF Kept
  <2>2. ASSUME deliver'.by = "nobody" PROVE stream.seq <= applied + Hold
    <3>1. CASE applied + 1 <= stream.seq
      <4>1. PICK g \in Unapplied : g.seq = applied + 1
        BY <1>1, <1>5, <3>1, NumberTypes DEF Kept
      <4>2. g \in held
        BY <1>2, <2>2, <4>1 DEF Unapplied, Waiting
      <4> QED
        BY <1>1, <1>5, <4>1, <4>2, NumberTypes DEF Near
    <3> QED
      BY <1>1, <3>1, NumberTypes
  <2>3. Near'
    BY <1>2, <1>5, <2>2 DEF Near
  <2> QED
    BY <2>1, <2>3
<1> QED
  BY <1>1, <1>4, <1>5 DEF Undisturbed, Stopped

\* Steps that leave the frames alone.
LEMMA QuietNumbers ==
    ASSUME NumberInv, UNCHANGED <<stream, held, deliver, applied, queue, why, trouble>>,
           Stopped => Stopped'
    PROVE  Numbered' /\ Undisturbed'
  BY DEF NumberInv, Numbered, Undisturbed, Kept, Near, Waiting, Unapplied

LEMMA DeliverNumbers ==
    ASSUME NumberInv, [Next]_vars, Delivers
    PROVE  Numbered' /\ Undisturbed'
<1>1. TypeOK /\ Locked /\ Numbered /\ Undisturbed
  BY DEF NumberInv
<1>2. Nobody.frame \notin Nobody.freed \cup Nobody.given /\ Nobody.freed = {} /\ Nobody.given = {}
  BY DEF Nobody
<1>3. deliver.at # "consume" => deliver.by # "nobody"
  BY <1>1 DEF Locked, Nobody
<1>4. CASE Overflows
  <2>1. PICK f \in Upcoming : Busy(f.seq)
    BY <1>4 DEF Overflows
  <2>2. /\ deliver.at = "consume" /\ ~Stopped /\ deliver' = Nobody
        /\ UNCHANGED <<stream, applied, queue, trouble>> /\ held' \in SUBSET held
    BY <1>4 DEF Overflows, turnVars, Stopping
  <2>3. trouble' # 0
    BY <2>1, <2>2, RoomForNext
  <2> QED
    BY <1>1, <1>2, <2>2, <2>3, Fewer DEF Undisturbed
<1>5. CASE ForwardFails
  <2>1. /\ trouble' # 0 /\ deliver' = Nobody
        /\ UNCHANGED <<stream, applied, queue>> /\ held' \in SUBSET held
    BY <1>1, <1>5 DEF ForwardFails, Trouble, turnVars, Stopping, TypeOK
  <2> QED
    BY <1>1, <1>2, <2>1, Fewer DEF Undisturbed
<1>6. CASE Handled
  <2>1. /\ deliver.at = "handle" /\ \A f \in queue : f.seq # applied + 1
        /\ UNCHANGED <<stream, held, applied, queue, stop, why, trouble>>
        /\ deliver' = Delivered(deliver.frame) \/ deliver' = [deliver EXCEPT !.at = "forward"]
    BY <1>6 DEF Handled, NextInOrder
  <2>2. CASE deliver' = Delivered(deliver.frame)
    BY <1>3, <2>1, <2>2, ThroughNumbers
  <2>3. CASE deliver' = [deliver EXCEPT !.at = "forward"]
    <3>1. /\ deliver'.by = deliver.by /\ deliver'.freed = deliver.freed
          /\ deliver'.given = deliver.given /\ deliver'.frame = deliver.frame
      BY <1>1, <2>3 DEF TypeOK
    <3>2. Waiting' = Waiting /\ Unapplied' = Unapplied
      BY <2>1, <3>1 DEF Waiting, Unapplied
    <3>3. Numbered'
      BY <1>1, <2>1, <3>1, <3>2 DEF Numbered
    <3>4. Kept /\ Near => Kept' /\ Near'
      BY <2>1, <3>1, <3>2 DEF Kept, Near
    <3> QED
      BY <1>1, <2>1, <3>3, <3>4 DEF Undisturbed, Stopped
  <2> QED
    BY <2>1, <2>2, <2>3
<1>7. CASE Forwards
  <2>1. /\ deliver.at = "forward" /\ deliver' = Delivered(deliver.frame)
        /\ UNCHANGED <<stream, held, applied, queue, stop, why, trouble>>
    BY <1>7 DEF Forwards, turnVars
  <2>2. CASE trouble = 0 /\ ~Stopped
    <3>1. \A f \in queue : f.seq # applied + 1
      BY <1>1, <2>1, <2>2 DEF Undisturbed, Kept
    <3> QED
      BY <1>3, <2>1, <3>1, ThroughNumbers
  <2>3. CASE ~(trouble = 0 /\ ~Stopped)
    <3>1. /\ deliver'.freed \in SUBSET deliver.freed /\ deliver'.given \in SUBSET deliver.given
          /\ deliver'.frame \notin deliver'.freed \cup deliver'.given
      BY <1>1, <1>3, <2>1, DeliveredFields
    <3>2. Numbered'
      BY <1>1, <2>1, <3>1, Fewer
    <3> QED
      BY <1>1, <2>1, <2>3, <3>2 DEF Undisturbed, Stopped
  <2> QED
    BY <2>2, <2>3
<1> QED
  BY <1>4, <1>5, <1>6, <1>7, ConsumeNumbers, HandleNumbers DEF Delivers

LEMMA NumberStep ==
    ASSUME NumberInv, [Next]_vars
    PROVE  NumberInv'
<1>1. TypeOK /\ Locked /\ Numbered /\ Undisturbed
  BY DEF NumberInv
<1>2. TypeOK' /\ Locked'
  BY <1>1, TypesStep, LockedStep
<1> SUFFICES Numbered' /\ Undisturbed'
  BY <1>2 DEF NumberInv
<1>3. deliver.frame \notin deliver.freed \cup deliver.given
  BY <1>1 DEF Numbered
<1>4. Nobody.frame \notin Nobody.freed \cup Nobody.given /\ Nobody.freed = {} /\ Nobody.given = {}
  BY DEF Nobody
<1>5. ASSUME NEW q, NEW played, NEW over, Reports(q, played, over)
      PROVE  Numbered' /\ Undisturbed'
  BY <1>5, QuietNumbers, Zenon DEF Reports, inVars, turnVars, Stopped
<1>6. ASSUME NEW t \in Tasks, Applies(t)
      PROVE  Numbered' /\ Undisturbed'
  <2>1. CASE AppliesNothing(t) \/ AppliesBegins(t)
    <3>1. UNCHANGED <<stream, held, deliver, applied, queue, why, trouble, stop>>
      BY <2>1, Zenon DEF AppliesNothing, AppliesBegins, inVars, turnVars
    <3> QED
      BY <3>1, QuietNumbers DEF Stopped
  <2>2. ASSUME NEW saved \in BOOLEAN, AppliesStores(t, saved)
        PROVE  Numbered' /\ Undisturbed'
    <3>1. UNCHANGED <<stream, held, deliver, applied, queue, why, stop>>
      BY <2>2, Zenon DEF AppliesStores, inVars
    <3>2. trouble' = 0 => trouble = 0
      BY <1>1, TroubleStays
    <3> QED
      BY <1>1, <3>1, <3>2 DEF Numbered, Undisturbed, Kept, Near, Waiting, Unapplied, Stopped
  <2>3. CASE AppliesRaises(t)
    <3>1. UNCHANGED <<stream, applied, queue, trouble>>
      BY <2>3, Zenon DEF AppliesRaises, turnVars
    <3>2. \/ UNCHANGED <<why, held, deliver>> /\ (Stopped => Stopped')
          \/ /\ why' = "report" /\ held' = {} /\ stop'.at = "evidence"
             /\ deliver' \in {Nobody, deliver}
      <4>1. CASE t = "stop"
        <5>1. stop' = [stop EXCEPT !.at = "freeze", !.todo = {}] /\ UNCHANGED <<why, held, deliver>>
          BY <2>3, <4>1 DEF AppliesRaises
        <5>2. stop'.at = "freeze"
          BY <1>1, <5>1 DEF TypeOK
        <5> QED
          BY <5>1, <5>2 DEF Stopped
      <4>2. CASE t # "stop"
        BY <2>3, <4>2 DEF AppliesRaises, Stopping, Stopped
      <4> QED
        BY <4>1, <4>2
    <3>3. CASE UNCHANGED <<why, held, deliver>> /\ (Stopped => Stopped')
      BY <3>1, <3>3, QuietNumbers
    <3>4. CASE /\ why' = "report" /\ held' = {} /\ stop'.at = "evidence"
               /\ deliver' \in {Nobody, deliver}
      BY <1>3, <1>4, <3>1, <3>4, EndNumbers DEF Stopped
    <3> QED
      BY <3>2, <3>3, <3>4
  <2> QED
    BY <1>6, <2>1, <2>2, <2>3 DEF Applies
<1>7. CASE HangsUp
  <2>1. /\ why' = "hangup" /\ held' = {} /\ stop'.at = "evidence" /\ deliver' \in {Nobody, deliver}
        /\ UNCHANGED <<stream, applied, queue>>
    BY <1>7 DEF HangsUp, Stopping
  <2>2. Stopped' /\ held' \in SUBSET held /\ why' # "reorder"
    BY <2>1 DEF Stopped
  <2>3. /\ deliver'.freed \in SUBSET deliver.freed /\ deliver'.given \in SUBSET deliver.given
        /\ deliver'.frame \notin deliver'.freed \cup deliver'.given
    BY <1>3, <1>4, <2>1
  <2> QED
    BY <2>1, <2>2, <2>3, EndNumbers
<1>8. CASE TakesEvidence \/ BeginsFreeze \/ Flushes
  <2>1. UNCHANGED <<stream, held, deliver, applied, queue, why, trouble>>
    BY <1>8, Zenon DEF TakesEvidence, BeginsFreeze, Flushes, inVars, turnVars
  <2>2. stop'.at # "no"
    <3>1. CASE TakesEvidence
      <4>1. PICK q : stop' = [stop EXCEPT !.todo = @ \ {q}]
        BY <3>1, Zenon DEF TakesEvidence
      <4>2. stop'.at = stop.at
        BY <1>1, <4>1 DEF TypeOK
      <4> QED
        BY <3>1, <4>2 DEF TakesEvidence
    <3>2. CASE BeginsFreeze
      BY <1>1, <3>2 DEF BeginsFreeze, TypeOK
    <3>3. CASE Flushes
      BY <1>1, <3>3 DEF Flushes, TypeOK
    <3> QED
      BY <1>8, <3>1, <3>2, <3>3
  <2>3. Stopped'
    BY <2>2 DEF Stopped
  <2> QED
    BY <2>1, <2>3, QuietNumbers
<1>9. CASE Freezes
  <2>1. /\ UNCHANGED <<stream, held, deliver, applied, why, trouble>> /\ queue' = {}
    BY <1>9, Zenon DEF Freezes, inVars
  <2>2. Stopped'
    BY <1>1, <1>9 DEF Freezes, TypeOK, Stopped
  <2>3. Numbered'
    BY <1>1, <1>3, <2>1, Fewer
  <2> QED
    BY <1>1, <2>1, <2>2, <2>3 DEF Undisturbed
<1>10. CASE UNCHANGED vars
  <2>1. UNCHANGED <<stream, held, deliver, applied, queue, why, trouble, stop>>
    BY <1>10, Zenon DEF vars, inVars, turnVars
  <2> QED
    BY <2>1, QuietNumbers DEF Stopped
<1> QED
  <2>1. CASE \E kind \in Kinds \ {"filtered"}, q \in Questions, playing \in Playing, ack \in BOOLEAN :
                Arrives(kind, q, playing, ack)
    BY <2>1, ArriveNumbers
  <2>2. CASE \E q \in Questions : TimesOut(q)
    BY <2>2, TimeoutNumbers
  <2>3. CASE Delivers
    BY <2>3, DeliverNumbers
  <2>4. CASE \E q, played, over : Reports(q, played, over)
    BY <1>5, <2>4
  <2>5. CASE \E t \in Tasks : Applies(t)
    BY <1>6, <2>5
  <2>6. CASE Stops
    BY <1>8, <1>9, <2>6 DEF Stops
  <2> QED
    BY <1>7, <1>10, <2>1, <2>2, <2>3, <2>4, <2>5, <2>6 DEF Next, Tasks

\* As long as nothing fails, the buffer of the turn service never fills, and what waits in
\* it waits for a number that the filter still holds or delivers: however long a question
\* stays undecided, and however its timeout, the events and the reports interleave.
THEOREM NothingLost == Spec => []NothingWaitsForLost
<1>1. Init => NumberInv
  <2>1. Init => Locked
    BY DEF Init, Locked, NoResult, Tasks
  <2>2. ASSUME Init PROVE Numbered /\ Undisturbed
    <3>1. /\ stream.seq = 0 /\ applied = 0 /\ held = {} /\ queue = {} /\ why = "none"
          /\ deliver.freed = {} /\ deliver.given = {} /\ deliver.frame = NoFrame
      BY <2>2 DEF Init, Nobody
    <3>2. 0 <= 0 + Hold /\ 0 <= 0 + Hold + 1 /\ 0 + 1..0 = {}
      BY TurnAssumption
    <3> QED
      BY <3>1, <3>2 DEF Numbered, Undisturbed, Kept, Near, Waiting, Unapplied
  <2> QED
    BY <2>1, <2>2, TypesInit DEF NumberInv
<1>2. NumberInv /\ [Next]_vars => NumberInv'
  BY NumberStep
<1>3. NumberInv => NothingWaitsForLost
  <2>1. SUFFICES ASSUME NumberInv, trouble = 0, queue # {}, ~Stopped
        PROVE  applied + 1 \in {f.seq : f \in held \cup queue \cup deliver.freed \cup deliver.given}
    BY DEF NumberInv, Undisturbed, NothingWaitsForLost
  <2>2. TypeOK /\ Numbered /\ Kept
    BY <2>1 DEF NumberInv, Undisturbed
  <2>3. PICK f \in queue : f.seq \in Nat /\ applied < f.seq /\ f.seq <= stream.seq
    BY <2>1, <2>2, NumberTypes DEF Numbered, Unapplied
  <2>4. PICK g \in Unapplied : g.seq = applied + 1
    BY <2>2, <2>3, NumberTypes DEF Kept
  <2> QED
    BY <2>4 DEF Unapplied, Waiting
<1> QED
  BY <1>1, <1>2, <1>3, PTL DEF Spec
=============================================================================
