------------------------- MODULE VoiceQuota_proofs -------------------------
(***************************************************************************)
(* Proofs about VoiceQuota: types and pools, the settlement and the        *)
(* observation that are never refused, the free seconds of a date that are *)
(* never handed out twice, the version that every change carries, the      *)
(* talk that is billed, the growth it pays for, where grace begins, and    *)
(* the extra seconds, of which none is lost.                               *)
(*                                                                         *)
(* The invariant relates what an active call has reserved to the account:  *)
(* per date within the pool of that date, in all within the extra pool,    *)
(* and never on a date before the account's.  It holds because no step     *)
(* takes from the account while a call is active, except its settlement.   *)
(* A second one (TimeInv) relates what a meter has billed, carries and has *)
(* heard to the talk and the speech since it was started.                  *)
(***************************************************************************)
EXTENDS VoiceQuota, FiniteSetTheorems, TLAPS

\* The clock, and an account that never is ahead of it.
ClockInv ==
    /\ midnight <= now /\ now < midnight + DayLen
    /\ day = 0 => midnight = 0
    /\ account.open => account.day <= day
    /\ ~account.open => account.version = 0

Bounded(m) ==
    /\ m.last <= now /\ m.graceAt <= now
    /\ m.day <= day
    /\ m.day < day => m.last <= midnight

\* Nobody has touched the meter of a call that does not exist yet.
MeterInv ==
    \A c \in Calls :
        /\ Bounded(meter[c]) /\ Bounded(ckpt[c])
        /\ status[c] = "none" =>
              gate[c] = "none" /\ meter[c] = NewMeter /\ ckpt[c] = NewMeter
        /\ gate[c] \in {"run", "stopped"} => meter[c].last # NoTime

OneActive == \A a, b \in Calls : Active(a) /\ Active(b) => a = b

Unsettled(c) ==
    /\ \A d \in Days : ledger[c].free[d] = 0
    /\ ledger[c].extra = 0 /\ ledger[c].grace = 0

\* What a meter has reserved is there to be taken.
Sound(c, m) ==
    /\ \A d \in Days :
          /\ m.free[d] <= FreeOn(d, daily[c])
          /\ m.free[d] > 0 => d <= m.day /\ (account.open => account.day <= d)
    /\ m.extra <= ExtraPool
    /\ m.last # NoTime /\ account.open => account.day <= m.day

\* A meter that has not billed, and will not bill, the account's date.
Past(m) == m.free[account.day] = 0 /\ (m.last # NoTime => account.day < m.day)

\* What today's pool may still give, or a date that is over.
PoolInv(c) ==
    account.open =>
        \/ account.free <= Surplus(daily[c], usedOn[account.day])
        \/ account.day < day /\ Past(meter[c]) /\ Past(ckpt[c])

CallInv ==
    \A c \in Calls :
        /\ status[c] # "ended" => Unsettled(c)
        /\ Active(c) => Sound(c, meter[c]) /\ Sound(c, ckpt[c]) /\ PoolInv(c)

UsedInv == \A d \in Days : usedOn[d] > 0 => account.open /\ d <= account.day

QuotaInv ==
    /\ TypeOK /\ ClockInv /\ MeterInv /\ OneActive /\ CallInv /\ UsedInv
    /\ FreeWithinDaily

-----------------------------------------------------------------------------
(* The meter. *)

\* What is left of the pools is a number of seconds.
LEMMA LeftType ==
    ASSUME TypeOK, NEW c \in Calls, NEW m \in ConnectedMeter, NEW d \in Days
    PROVE  /\ FreeLeft(c, m, d) \in Nat /\ ExtraLeft(c, m) \in Nat
           /\ Available(c, m, d) \in Nat
<1>1. /\ FreeOn(d, daily[c]) \in Nat /\ ExtraPool \in Nat
      /\ m.free[d] \in Nat /\ ledger[c].free[d] \in Nat
      /\ m.extra \in Nat /\ ledger[c].extra \in Nat
  BY QuotaAssumption DEF TypeOK, FreeOn, ExtraPool, VoiceQuotaAccount, VoiceUsageLedger,
     ConnectedMeter
<1>2. FreeLeft(c, m, d) \in Nat
  BY <1>1 DEF FreeLeft, Surplus
<1>3. ExtraLeft(c, m) \in Nat
  BY <1>1 DEF ExtraLeft, Surplus
<1>4. QED
  BY <1>2, <1>3 DEF Available

\* The time to bill is split into whole seconds and at most one half.
LEMMA HalvesType ==
    ASSUME NEW m \in ConnectedMeter, NEW from \in Nat, NEW until \in Nat, from <= until
    PROVE  /\ Halves(m, from, until) \in Nat
           /\ Halves(m, from, until) \div 2 \in Nat
           /\ Halves(m, from, until) - 2 * (Halves(m, from, until) \div 2) \in 0..1
  BY DEF Halves, ConnectedMeter

\* A dry pool runs dry inside the portion.
LEMMA DryInside ==
    ASSUME TypeOK, NEW c \in Calls, NEW m \in ConnectedMeter, NEW d \in Days,
           NEW from \in Nat, NEW until \in Nat, from <= until, Dry(c, m, d, from, until)
    PROVE  DryAt(c, m, d, from) \in Nat /\ DryAt(c, m, d, from) <= until
<1>1. Available(c, m, d) \in Nat
  BY LeftType
<1>2. Halves(m, from, until) \div 2 >= Available(c, m, d)
  BY DEF Dry
<1>3. m.rem \in 0..1
  BY DEF ConnectedMeter
<1>4. QED
  BY <1>1, <1>2, <1>3 DEF DryAt, Surplus, Halves

\* One turn of the loop bills date d from what is left of it.
LEMMA PortionBills ==
    ASSUME TypeOK, NEW c \in Calls, NEW m \in ConnectedMeter, NEW d \in Days,
           NEW from \in Nat, NEW until \in Nat, from <= until
    PROVE  LET p == Portion(c, m, d, from, until)
           IN  /\ p \in ConnectedMeter
               /\ p.last = m.last /\ p.day = m.day
               /\ p.graceAt <= until
               /\ \A e \in Days \ {d} : p.free[e] = m.free[e]
               /\ p.free[d] <= m.free[d] + FreeLeft(c, m, d)
               /\ p.extra <= m.extra + ExtraLeft(c, m)
<1> DEFINE seconds  == Halves(m, from, until) \div 2
           charged  == Least(seconds, Available(c, m, d))
           fromFree == Least(charged, FreeLeft(c, m, d))
           dry      == Dry(c, m, d, from, until)
           rem      == IF dry THEN 0 ELSE Halves(m, from, until) - 2 * seconds
           graceAt  == IF dry THEN DryAt(c, m, d, from) ELSE NoTime
           dates    == IF charged > 0 THEN m.dates \cup {d} ELSE m.dates
           free     == [m.free EXCEPT ![d] = @ + fromFree]
<1>1. seconds \in Nat /\ rem \in 0..1
  BY HalvesType
<1>2. graceAt \in {NoTime} \cup Nat /\ graceAt <= until
  BY DryInside DEF NoTime
<1>3. /\ charged \in Nat /\ fromFree \in Nat
      /\ fromFree <= FreeLeft(c, m, d) /\ fromFree <= charged
      /\ charged - fromFree <= ExtraLeft(c, m)
  <2>1. /\ FreeLeft(c, m, d) \in Nat /\ ExtraLeft(c, m) \in Nat
        /\ Available(c, m, d) = FreeLeft(c, m, d) + ExtraLeft(c, m)
    BY LeftType DEF Available
  <2> QED
    BY <1>1, <2>1 DEF Least
<1>4. Portion(c, m, d, from, until)
        = [m EXCEPT !.free = free, !.extra = @ + charged - fromFree, !.billed = @ + charged,
                    !.rem = rem, !.graceAt = graceAt, !.dates = dates]
  BY DEF Portion
<1>5. m.free \in [Days -> Nat] /\ m.extra \in Nat /\ m.billed \in Nat /\ m.dates \in SUBSET Days
  BY DEF ConnectedMeter
<1>6. /\ free \in [Days -> Nat] /\ dates \in SUBSET Days
      /\ free[d] = m.free[d] + fromFree
      /\ \A e \in Days \ {d} : free[e] = m.free[e]
  BY <1>3, <1>5
<1>7. m.extra + charged - fromFree \in Nat /\ m.billed + charged \in Nat
  BY <1>3, <1>5
<1> HIDE DEF seconds, charged, fromFree, dry, rem, graceAt, dates, free
<1>8. Portion(c, m, d, from, until) \in ConnectedMeter
  <2>1. /\ m.extra + charged - fromFree \in Nat /\ m.billed + charged \in Nat
        /\ free \in [Days -> Nat] /\ dates \in SUBSET Days
    BY <1>6, <1>7
  <2> DEFINE extra == m.extra + charged - fromFree
  <2> DEFINE billed == m.billed + charged
  <2>2. Portion(c, m, d, from, until)
          = [m EXCEPT !.free = free, !.extra = extra, !.billed = billed,
                      !.rem = rem, !.graceAt = graceAt, !.dates = dates]
    BY <1>4, <1>5
  <2>3. extra \in Nat /\ billed \in Nat
    BY <2>1
  <2> HIDE DEF extra, billed
  <2> QED
    BY <1>1, <1>2, <2>1, <2>2, <2>3 DEF ConnectedMeter
<1>9. QED
  BY <1>2, <1>3, <1>4, <1>5, <1>6, <1>7, <1>8, LeftType DEF ConnectedMeter

\* A portion leaves the other dates alone.
LEMMA PortionElsewhere ==
    ASSUME TypeOK, NEW c \in Calls, NEW m \in ConnectedMeter, NEW d \in Days,
           NEW from \in Nat, NEW until \in Nat, from <= until, NEW e \in Days, e # d
    PROVE  Portion(c, m, d, from, until).free[e] = m.free[e]
  BY PortionBills

\* What a portion bills is within the pools, if the meter was.
LEMMA PortionSound ==
    ASSUME TypeOK, NEW c \in Calls, Unsettled(c), NEW m \in ConnectedMeter, NEW d \in Days,
           NEW from \in Nat, NEW until \in Nat, from <= until,
           m.free[d] <= FreeOn(d, daily[c]), m.extra <= ExtraPool
    PROVE  LET p == Portion(c, m, d, from, until)
           IN  p.free[d] <= FreeOn(d, daily[c]) /\ p.extra <= ExtraPool
<1>1. /\ ledger[c].free[d] = 0 /\ ledger[c].extra = 0
      /\ m.free[d] \in Nat /\ m.extra \in Nat
      /\ FreeOn(d, daily[c]) \in Nat /\ ExtraPool \in Nat
  BY QuotaAssumption DEF Unsettled, TypeOK, FreeOn, ExtraPool, VoiceQuotaAccount, ConnectedMeter
<1>2. /\ m.free[d] + FreeLeft(c, m, d) = FreeOn(d, daily[c])
      /\ m.extra + ExtraLeft(c, m) = ExtraPool
  BY <1>1 DEF FreeLeft, ExtraLeft, Surplus
<1>3. QED
  BY <1>2, PortionBills

\* The first portion begins where the meter stopped, the second at midnight.
LEMMA PortionTimes ==
    ASSUME TypeOK, ClockInv, NEW m \in ConnectedMeter, Bounded(m), m.last # NoTime
    PROVE  LET until == Least(now, NextMidnight(m.day))
           IN  /\ m.last \in Nat /\ until \in Nat /\ m.last <= until /\ until <= now
               /\ m.day \in Days /\ m.day <= day /\ day \in Days
               /\ midnight \in Nat /\ now \in Nat /\ midnight <= now
<1>1. /\ now \in Nat /\ midnight \in Nat /\ DayLen \in Nat /\ day \in Days /\ day \in Int
      /\ m.last \in Nat /\ m.day \in Days /\ m.day \in Int
  BY QuotaAssumption DEF TypeOK, ConnectedMeter, Days
<1>2. /\ m.last <= now /\ m.day <= day /\ (m.day < day => m.last <= midnight)
      /\ midnight <= now /\ now < midnight + DayLen
  BY DEF Bounded, ClockInv
<1>3. QED
  BY <1>1, <1>2 DEF Least, NextMidnight

\* The whole loop keeps the meter a meter.
LEMMA ConnectedType ==
    ASSUME TypeOK, ClockInv, NEW c \in Calls, NEW m \in ConnectedMeter, Bounded(m)
    PROVE  LET k == Connected(c, m)
           IN  k \in ConnectedMeter /\ k.last = m.last /\ k.day = m.day /\ k.graceAt <= now
<1> DEFINE until == Least(now, NextMidnight(m.day))
           first == Portion(c, m, m.day, m.last, until)
<1>1. CASE ~Counting(m) \/ now = m.last
  BY <1>1 DEF Connected, Bounded
<1>2. CASE Counting(m) /\ now # m.last
  <2>1. m.last # NoTime
    BY <1>2 DEF Counting
  <2>2. /\ first \in ConnectedMeter /\ first.last = m.last /\ first.day = m.day
        /\ first.graceAt <= now
    <3>1. /\ m.last \in Nat /\ until \in Nat /\ m.last <= until /\ until <= now
          /\ m.day \in Days /\ now \in Nat
      BY <2>1, PortionTimes
    <3>2. /\ first \in ConnectedMeter /\ first.last = m.last /\ first.day = m.day
          /\ first.graceAt <= until
      BY <3>1, PortionBills
    <3>3. first.graceAt \in Int
      BY <3>2 DEF ConnectedMeter, NoTime
    <3> HIDE DEF first, until
    <3> QED
      BY <3>1, <3>2, <3>3
  <2>3. CASE m.day = day \/ now = midnight \/ first.graceAt # NoTime
    <3>1. Connected(c, m) = first
      BY <1>2, <2>3 DEF Connected
    <3> QED
      BY <2>2, <3>1
  <2>4. CASE ~(m.day = day \/ now = midnight \/ first.graceAt # NoTime)
    <3>1. Connected(c, m) = Portion(c, first, day, midnight, now)
      BY <1>2, <2>4 DEF Connected
    <3>2. day \in Days /\ midnight \in Nat /\ now \in Nat /\ midnight <= now
      BY <2>1, PortionTimes
    <3> HIDE DEF first, until
    <3> QED
      BY <2>2, <3>1, <3>2, PortionBills
  <2> QED
    BY <2>3, <2>4
<1>3. QED
  BY <1>1, <1>2

\* The loop reserves nothing that is not there, and only on the meter's date and
\* on today.
LEMMA ConnectedSound ==
    ASSUME TypeOK, ClockInv, NEW c \in Calls, Unsettled(c),
           NEW m \in ConnectedMeter, Bounded(m), Sound(c, m)
    PROVE  LET k == Connected(c, m)
           IN  /\ \A d \in Days : k.free[d] <= FreeOn(d, daily[c])
               /\ \A d \in Days \ {m.day, day} : k.free[d] = m.free[d]
               /\ ~Counting(m) \/ now = m.last => k = m
               /\ k.extra <= ExtraPool
<1> DEFINE until == Least(now, NextMidnight(m.day))
           first == Portion(c, m, m.day, m.last, until)
<1>1. CASE ~Counting(m) \/ now = m.last
  BY <1>1 DEF Connected, Sound
<1>2. CASE Counting(m) /\ now # m.last
  <2>1. /\ m.last \in Nat /\ until \in Nat /\ m.last <= until
        /\ m.day \in Days /\ day \in Days
        /\ midnight \in Nat /\ now \in Nat /\ midnight <= now
    BY <1>2, PortionTimes DEF Counting
  <2>2. first \in ConnectedMeter /\ \A d \in Days \ {m.day} : first.free[d] = m.free[d]
    <3> HIDE DEF until
    <3>1. first \in ConnectedMeter
      BY <2>1, PortionBills
    <3>2. ASSUME NEW d \in Days, d # m.day
          PROVE  first.free[d] = m.free[d]
      BY <2>1, <3>2, PortionElsewhere
    <3> QED
      BY <3>1, <3>2
  <2>3. /\ \A d \in Days : m.free[d] <= FreeOn(d, daily[c])
        /\ m.extra <= ExtraPool
    BY DEF Sound
  <2>4. first.free[m.day] <= FreeOn(m.day, daily[c]) /\ first.extra <= ExtraPool
    BY <2>1, <2>3, PortionSound
  <2>5. \A d \in Days : first.free[d] <= FreeOn(d, daily[c])
    BY <2>2, <2>3, <2>4
  <2>6. CASE m.day = day \/ now = midnight \/ first.graceAt # NoTime
    <3>1. Connected(c, m) = first
      BY <1>2, <2>6 DEF Connected
    <3> HIDE DEF first, until
    <3> QED
      BY <1>2, <2>2, <2>4, <2>5, <3>1
  <2>7. CASE ~(m.day = day \/ now = midnight \/ first.graceAt # NoTime)
    <3>1. Connected(c, m) = Portion(c, first, day, midnight, now)
      BY <1>2, <2>7 DEF Connected
    <3> HIDE DEF first, until
    <3>2. /\ Connected(c, m).free[day] <= FreeOn(day, daily[c])
          /\ Connected(c, m).extra <= ExtraPool
      BY <2>1, <2>2, <2>4, <2>5, <3>1, PortionSound
    <3>3. \A d \in Days \ {day} : Connected(c, m).free[d] = first.free[d]
      <4> TAKE d \in Days \ {day}
      <4>1. Portion(c, first, day, midnight, now).free[d] = first.free[d]
        BY <2>1, <2>2, PortionElsewhere
      <4> QED
        BY <3>1, <4>1
    <3> QED
      BY <1>2, <2>1, <2>2, <2>5, <3>2, <3>3
  <2> QED
    BY <2>6, <2>7
<1>3. QED
  BY <1>1, <1>2

\* Grace counts seconds up to its limit and touches neither pool.
LEMMA GracedType ==
    ASSUME TypeOK, ClockInv, NEW k \in ConnectedMeter, k.graceAt <= now
    PROVE  LET g == Graced(k)
           IN  /\ g \in ConnectedMeter /\ g.graceAt = k.graceAt
               /\ g.free = k.free /\ g.extra = k.extra
<1>1. CASE k.graceAt = NoTime
  BY <1>1 DEF Graced
<1>2. CASE k.graceAt # NoTime
  <2> DEFINE total  == Least(GraceLimit, (now - k.graceAt) \div 2)
             cursor == k.graceAt + 2 * k.grace
             left   == total - k.grace
             old    == Least(left, (midnight - cursor + 1) \div 2)
             dates  == k.dates \cup (IF left > 0 /\ cursor < midnight THEN {day - 1} ELSE {})
                         \cup (IF left > 0 /\ (cursor >= midnight \/ left > old)
                               THEN {day} ELSE {})
  <2>1. /\ k.graceAt \in Nat /\ k.grace \in Nat /\ k.dates \in SUBSET Days
        /\ now \in Nat /\ midnight \in Nat /\ GraceLimit \in Nat /\ day \in Days
        /\ MaxDay \in Nat
    BY <1>2, QuotaAssumption DEF ConnectedMeter, TypeOK
  <2>2. total \in 0..GraceLimit
    BY <2>1 DEF Least
  <2>3. cursor < midnight => day - 1 \in Days
    BY <2>1 DEF ClockInv, Days
  <2> HIDE DEF old, left
  <2>4. dates \in SUBSET Days
    BY <2>1, <2>3
  <2>5. Graced(k) = [k EXCEPT !.grace = total, !.dates = dates]
    BY <1>2 DEF Graced, left, old
  <2> HIDE DEF total, cursor, dates
  <2> QED
    BY <2>2, <2>4, <2>5 DEF ConnectedMeter
<1>3. QED
  BY <1>1, <1>2

\* An observation brings the meter to the present.
LEMMA ObservedType ==
    ASSUME TypeOK, ClockInv, MeterInv, NEW c \in Calls,
           NEW connected \in BOOLEAN, NEW muted \in BOOLEAN
    PROVE  LET o == observed(c, connected, muted)
               k == Connected(c, meter[c])
           IN  /\ o \in ConnectedMeter /\ Bounded(o)
               /\ o.last = now /\ o.day = day
               /\ o.free = k.free /\ o.extra = k.extra
<1> DEFINE m == meter[c]
           k == Connected(c, m)
           g == Graced(k)
           growth == Grown(m, k)
<1>1. m \in ConnectedMeter /\ Bounded(m)
  BY DEF TypeOK, MeterInv
<1>2. k \in ConnectedMeter /\ k.graceAt <= now
  BY <1>1, ConnectedType
<1>3. g \in ConnectedMeter /\ g.graceAt = k.graceAt /\ g.free = k.free /\ g.extra = k.extra
  BY <1>2, GracedType
<1>4. growth \in Nat
  <2>1. m.growth \in Nat /\ m.last \in Int /\ now \in Int /\ k.graceAt \in Int
    BY <1>1, <1>2 DEF ConnectedMeter, TypeOK, NoTime
  <2>2. \A t \in Int : Surplus(t, m.last) \in Nat
    BY <2>1 DEF Surplus
  <2> HIDE DEF m, k
  <2>3. Least(now, k.graceAt) \in Int
    BY <2>1 DEF Least
  <2> QED
    BY <2>1, <2>2, <2>3 DEF growth, Grown
<1>5. now \in Nat /\ day \in Days /\ day \in Int
  BY QuotaAssumption DEF TypeOK, Days
<1>6. observed(c, connected, muted)
        = [g EXCEPT !.growth = growth, !.last = now, !.day = day,
                    !.conn = connected, !.muted = muted]
  BY DEF observed
<1> HIDE DEF m, g, growth
<1>7. /\ observed(c, connected, muted) \in ConnectedMeter
      /\ observed(c, connected, muted).last = now
      /\ observed(c, connected, muted).day = day
      /\ observed(c, connected, muted).graceAt = g.graceAt
      /\ observed(c, connected, muted).free = g.free
      /\ observed(c, connected, muted).extra = g.extra
  BY <1>3, <1>4, <1>5, <1>6 DEF ConnectedMeter
<1>8. Bounded(observed(c, connected, muted))
  BY <1>2, <1>3, <1>5, <1>7 DEF Bounded
<1> QED
  BY <1>3, <1>7, <1>8 DEF k, m

\* What an observation reserves is there, and not on a date that is over.
LEMMA ObservedSound ==
    ASSUME TypeOK, ClockInv, MeterInv, NEW c \in Calls,
           Unsettled(c), Sound(c, meter[c]),
           NEW connected \in BOOLEAN, NEW muted \in BOOLEAN
    PROVE  LET o == observed(c, connected, muted)
           IN  /\ Sound(c, o)
               /\ account.open /\ account.day < day /\ Past(meter[c]) => Past(o)
<1> DEFINE m == meter[c]
           k == Connected(c, m)
           o == observed(c, connected, muted)
<1>1. m \in ConnectedMeter /\ Bounded(m) /\ Sound(c, m)
  BY DEF TypeOK, MeterInv
<1>2. /\ \A d \in Days : k.free[d] <= FreeOn(d, daily[c])
      /\ \A d \in Days \ {m.day, day} : k.free[d] = m.free[d]
      /\ ~Counting(m) \/ now = m.last => k = m
      /\ k.extra <= ExtraPool
  BY <1>1, ConnectedSound
<1>3. o.last = now /\ o.day = day /\ o.free = k.free /\ o.extra = k.extra
  BY ObservedType
<1>4. /\ m.day \in Days /\ day \in Days /\ \A d \in Days : d \in Int
      /\ account.day \in Days
      /\ m.last \in Int
  BY <1>1, QuotaAssumption DEF TypeOK, ConnectedMeter, VoiceQuotaAccount, Days, NoTime
<1>5. m.day <= day
  BY <1>1 DEF Bounded
<1>6. Counting(m) => m.last # NoTime
  BY DEF Counting
<1> HIDE DEF m, k, o
<1>7. ASSUME NEW d \in Days, k.free[d] > 0
      PROVE  d <= day /\ (account.open => account.day <= d)
  <2>1. CASE k = m
    <3>1. m.free[d] > 0
      BY <1>7, <2>1
    <3>2. d <= m.day /\ (account.open => account.day <= d)
      BY <1>1, <3>1 DEF Sound
    <3> QED
      BY <1>4, <1>5, <3>2
  <2>2. CASE k # m
    BY <1>1, <1>2, <1>4, <1>5, <1>6, <1>7, <2>2 DEF Sound, ClockInv
  <2> QED
    BY <2>1, <2>2
<1>8. Sound(c, o)
  BY <1>2, <1>3, <1>7 DEF Sound, ClockInv
<1>9. ASSUME account.open, account.day < day, Past(m)
      PROVE  Past(o)
  <2>1. k.free[account.day] = 0
    BY <1>2, <1>4, <1>6, <1>9 DEF Past
  <2> QED
    BY <1>3, <1>9, <2>1 DEF Past
<1> QED
  BY <1>8, <1>9 DEF m, o

\* A new meter has reserved nothing.
LEMMA NewMeterSound ==
    ASSUME TypeOK, NEW c \in Calls
    PROVE  /\ NewMeter \in ConnectedMeter /\ Bounded(NewMeter) /\ Sound(c, NewMeter)
           /\ account.open => Past(NewMeter)
<1>1. /\ now \in Nat /\ day \in Nat /\ midnight \in Nat /\ 0 \in Days /\ account.day \in Days
      /\ GraceLimit \in Nat
  BY QuotaAssumption DEF TypeOK, Days, VoiceQuotaAccount
<1>2. NewMeter \in ConnectedMeter
  BY <1>1 DEF NewMeter, NothingUsed, ConnectedMeter
<1>3. Bounded(NewMeter)
  BY <1>1 DEF NewMeter, Bounded, NoTime
<1>4. /\ \A d \in Days : FreeOn(d, daily[c]) \in Nat
      /\ ExtraPool \in Nat
  BY QuotaAssumption DEF TypeOK, FreeOn, ExtraPool, VoiceQuotaAccount
<1>5. Sound(c, NewMeter)
  BY <1>4 DEF Sound, NewMeter, NothingUsed
<1>6. Past(NewMeter)
  BY <1>1 DEF Past, NewMeter, NothingUsed
<1> QED
  BY <1>2, <1>3, <1>5, <1>6

-----------------------------------------------------------------------------
(* The steps. *)

\* A step of one gateway: a meter or a checkpoint changes, the money does not.
LEMMA GateStep ==
    ASSUME QuotaInv, TypeOK', NEW c \in Calls,
           UNCHANGED <<clockVars, moneyVars, daily>>,
           \A b \in Calls \ {c} : /\ status'[b] = status[b] /\ gate'[b] = gate[b]
                                  /\ meter'[b] = meter[b] /\ ckpt'[b] = ckpt[b],
           status[c] # "none", status'[c] # "none",
           status'[c] = "ended" <=> status[c] = "ended",
           Bounded(meter'[c]), Bounded(ckpt'[c]),
           gate'[c] \in {"run", "stopped"} => meter'[c].last # NoTime,
           Active(c) => /\ Sound(c, meter'[c]) /\ Sound(c, ckpt'[c])
                        /\ account.open /\ account.day < day /\ Past(meter[c]) /\ Past(ckpt[c])
                              => Past(meter'[c]) /\ Past(ckpt'[c])
    PROVE  QuotaInv'
<1> USE DEF clockVars, moneyVars
<1>1. \A b \in Calls : /\ Active(b)' <=> Active(b)
                       /\ status'[b] = "ended" <=> status[b] = "ended"
                       /\ status'[b] = "none" <=> status[b] = "none"
  <2>1. \A b \in Calls : status'[b] \in {"none", "waiting", "talking", "ended"}
                         /\ status[b] \in {"none", "waiting", "talking", "ended"}
    BY DEF QuotaInv, TypeOK
  <2> QED
    BY <2>1 DEF Active
<1>2. ClockInv'
  BY DEF QuotaInv, ClockInv
<1>3. MeterInv'
  BY <1>1 DEF QuotaInv, MeterInv, Bounded
<1>4. OneActive'
  BY <1>1 DEF QuotaInv, OneActive
<1>5. CallInv'
  <2> SUFFICES ASSUME NEW b \in Calls
               PROVE  /\ status'[b] # "ended" => Unsettled(b)'
                      /\ Active(b)' => Sound(b, meter[b])' /\ Sound(b, ckpt[b])' /\ PoolInv(b)'
    BY DEF CallInv
  <2>1. Unsettled(b)' <=> Unsettled(b)
    BY DEF Unsettled
  <2>2. status'[b] # "ended" => Unsettled(b)'
    BY <1>1, <2>1 DEF QuotaInv, CallInv
  <2>3. ASSUME Active(b), b # c
        PROVE  Sound(b, meter[b])' /\ Sound(b, ckpt[b])' /\ PoolInv(b)'
    <3>1. Sound(b, meter[b]) /\ Sound(b, ckpt[b]) /\ PoolInv(b)
      BY <2>3 DEF QuotaInv, CallInv
    <3>2. meter'[b] = meter[b] /\ ckpt'[b] = ckpt[b]
      BY <2>3
    <3> QED
      BY <3>1, <3>2 DEF Sound, PoolInv, Past, FreeOn, ExtraPool
  <2>4. ASSUME Active(b), b = c
        PROVE  Sound(b, meter[b])' /\ Sound(b, ckpt[b])' /\ PoolInv(b)'
    <3>1. PoolInv(c)
      BY <2>4 DEF QuotaInv, CallInv
    <3>2. Sound(c, meter[c])' /\ Sound(c, ckpt[c])'
      BY <2>4 DEF Sound, FreeOn, ExtraPool
    <3>3. PoolInv(c)'
      BY <2>4, <3>1 DEF PoolInv, Past
    <3> QED
      BY <2>4, <3>2, <3>3
  <2> QED
    BY <1>1, <2>2, <2>3, <2>4
<1>6. UsedInv' /\ FreeWithinDaily'
  BY DEF QuotaInv, UsedInv, FreeWithinDaily
<1> QED
  BY <1>2, <1>3, <1>4, <1>5, <1>6 DEF QuotaInv

\* A step of one gateway that only observes.
LEMMA ObserveStep ==
    ASSUME QuotaInv, NEW c \in Calls, status[c] # "none",
           NEW connected \in BOOLEAN, NEW muted \in BOOLEAN,
           gate' \in [Calls -> {"none", "run", "stopped", "gone"}],
           \A b \in Calls \ {c} : gate'[b] = gate[b],
           meter' = [meter EXCEPT ![c] = observed(c, connected, muted)],
           UNCHANGED <<clockVars, moneyVars, history, daily, status, ckpt>>
    PROVE  QuotaInv'
<1> DEFINE o == observed(c, connected, muted)
<1>1. o \in ConnectedMeter /\ Bounded(o) /\ o.last = now
  BY ObservedType DEF QuotaInv
<1>2. ASSUME Active(c)
      PROVE  /\ Sound(c, o)
             /\ account.open /\ account.day < day /\ Past(meter[c]) => Past(o)
  <2>1. Unsettled(c) /\ Sound(c, meter[c])
    BY <1>2 DEF QuotaInv, CallInv, Active
  <2> QED
    BY <2>1, ObservedSound DEF QuotaInv
<1> HIDE DEF o
<1>3. meter'[c] = o /\ \A b \in Calls \ {c} : meter'[b] = meter[b]
  BY DEF QuotaInv, TypeOK, o
<1>4. TypeOK'
  BY <1>1 DEF QuotaInv, TypeOK, clockVars, moneyVars, history, o
<1>5. o.last # NoTime
  BY <1>1 DEF QuotaInv, TypeOK, NoTime
<1>6. Bounded(ckpt'[c]) /\ (Active(c) => Sound(c, ckpt'[c]))
  BY DEF QuotaInv, MeterInv, CallInv
<1> QED
  BY <1>1, <1>2, <1>3, <1>4, <1>5, <1>6, GateStep

\* A gateway that leaves takes its meter with it.
LEMMA ForgetStep ==
    ASSUME QuotaInv, NEW c \in Calls, status[c] # "none",
           gate' = [gate EXCEPT ![c] = "gone"],
           meter' = [meter EXCEPT ![c] = NewMeter],
           UNCHANGED <<clockVars, moneyVars, history, daily, status, ckpt>>
    PROVE  QuotaInv'
<1>1. /\ NewMeter \in ConnectedMeter /\ Bounded(NewMeter) /\ Sound(c, NewMeter)
      /\ account.open => Past(NewMeter)
  BY NewMeterSound DEF QuotaInv
<1>2. /\ meter'[c] = NewMeter /\ \A b \in Calls \ {c} : meter'[b] = meter[b]
      /\ gate'[c] = "gone" /\ \A b \in Calls \ {c} : gate'[b] = gate[b]
  BY DEF QuotaInv, TypeOK
<1>3. TypeOK'
  BY <1>1 DEF QuotaInv, TypeOK, clockVars, moneyVars, history
<1>4. Bounded(ckpt'[c]) /\ (Active(c) => Sound(c, ckpt'[c]))
  BY DEF QuotaInv, MeterInv, CallInv
<1> QED
  BY <1>1, <1>2, <1>3, <1>4, GateStep

\* Every step of a gateway keeps the invariant.
LEMMA GatewaySteps ==
    ASSUME QuotaInv, NEW c \in Calls
    PROVE  /\ Start(c) => QuotaInv'
           /\ Connect(c) => QuotaInv'
           /\ \A connected \in BOOLEAN, muted \in BOOLEAN :
                 Observe(c, connected, muted) => QuotaInv'
           /\ Stop(c) \/ ObserveStopped(c) \/ ObserveRaises(c) => QuotaInv'
           /\ Checkpoint(c) \/ Crash(c) \/ Leave(c) => QuotaInv'
<1> USE DEF GateUnchanged
<1>1. gate[c] # "none" => status[c] # "none"
  BY DEF QuotaInv, MeterInv
<1>2. /\ Bounded(meter[c]) /\ Bounded(ckpt[c])
      /\ Active(c) => Sound(c, meter[c]) /\ Sound(c, ckpt[c])
      /\ gate[c] \in {"run", "stopped"} => meter[c].last # NoTime
      /\ meter[c] \in ConnectedMeter /\ meter[c].muted \in BOOLEAN
  BY DEF QuotaInv, TypeOK, MeterInv, CallInv, ConnectedMeter
<1>3. gate \in [Calls -> {"none", "run", "stopped", "gone"}]
  BY DEF QuotaInv, TypeOK
<1>4. ASSUME Start(c) PROVE QuotaInv'
  <2>1. status[c] # "none"
    BY <1>4 DEF Start
  <2> QED
    BY <1>3, <1>4, <2>1, ObserveStep DEF Start
<1>5. ASSUME Connect(c) PROVE QuotaInv'
  <2>1. TypeOK'
    BY <1>5 DEF Connect, QuotaInv, TypeOK, clockVars, moneyVars, history
  <2>2. /\ status[c] = "waiting" /\ status'[c] = "talking"
        /\ \A b \in Calls \ {c} : status'[b] = status[b]
    BY <1>5 DEF Connect, QuotaInv, TypeOK
  <2> QED
    BY <1>2, <1>5, <2>1, <2>2, GateStep DEF Connect
<1>6. ASSUME NEW connected \in BOOLEAN, NEW muted \in BOOLEAN, Observe(c, connected, muted)
      PROVE  QuotaInv'
  <2>1. status[c] # "none"
    BY <1>1, <1>6 DEF Observe
  <2> QED
    BY <1>3, <1>6, <2>1, ObserveStep DEF Observe
<1>7. ASSUME Stop(c) PROVE QuotaInv'
  <2>1. status[c] # "none"
    BY <1>1, <1>7 DEF Stop
  <2>2. meter' = [meter EXCEPT ![c] = observed(c, FALSE, meter[c].muted)]
    BY <1>7 DEF Stop
  <2> QED
    BY <1>2, <1>3, <1>7, <2>1, <2>2, ObserveStep DEF Stop
<1>8. ASSUME ObserveStopped(c) PROVE QuotaInv'
  <2>1. status[c] # "none"
    BY <1>1, <1>8 DEF ObserveStopped
  <2>2. meter' = [meter EXCEPT ![c] = observed(c, FALSE, meter[c].muted)]
    BY <1>8 DEF ObserveStopped
  <2> QED
    BY <1>2, <1>3, <1>8, <2>1, <2>2, ObserveStep DEF ObserveStopped
<1>9. ASSUME ObserveRaises(c) PROVE QuotaInv'
  <2>1. status[c] # "none"
    BY <1>1, <1>9 DEF ObserveRaises
  <2>2. TypeOK'
    BY <1>9 DEF ObserveRaises, QuotaInv, TypeOK, clockVars, moneyVars, history
  <2>3. gate[c] = "run" /\ \A b \in Calls \ {c} : gate'[b] = gate[b]
    BY <1>3, <1>9 DEF ObserveRaises
  <2> QED
    BY <1>2, <1>9, <2>1, <2>2, <2>3, GateStep DEF ObserveRaises
<1>10. ASSUME Checkpoint(c) PROVE QuotaInv'
  <2>1. status[c] # "none"
    BY <1>1, <1>10 DEF Checkpoint
  <2>2. TypeOK'
    BY <1>2, <1>10 DEF Checkpoint, QuotaInv, TypeOK, clockVars, moneyVars, history
  <2>3. ckpt'[c] = meter[c] /\ \A b \in Calls \ {c} : ckpt'[b] = ckpt[b]
    BY <1>10 DEF Checkpoint, QuotaInv, TypeOK
  <2> QED
    BY <1>2, <1>10, <2>1, <2>2, <2>3, GateStep DEF Checkpoint
<1>11. ASSUME Crash(c) PROVE QuotaInv'
  BY <1>1, <1>11, ForgetStep DEF Crash
<1>12. ASSUME Leave(c) PROVE QuotaInv'
  BY <1>1, <1>12, ForgetStep DEF Leave
<1> QED
  BY <1>4, <1>5, <1>6, <1>7, <1>8, <1>9, <1>10, <1>11, <1>12

\* Time passes: midnight makes the account's date one that is over, no more.
LEMMA TickStep ==
    ASSUME QuotaInv, Tick
    PROVE  QuotaInv'
<1> USE DEF moneyVars
<1>1. /\ now \in Nat /\ midnight \in Nat /\ day \in Nat /\ DayLen \in Nat \ {0} /\ MaxDay \in Nat
      /\ midnight <= now /\ now < midnight + DayLen
      /\ day = 0 => midnight = 0
  BY QuotaAssumption DEF QuotaInv, TypeOK, ClockInv, Days
<1>2. /\ now' = now + 1 /\ day' \in {day, day + 1} /\ day' <= MaxDay
      /\ day' = day => now' # midnight + DayLen /\ midnight' = midnight
      /\ day' = day + 1 => midnight' = now'
  BY <1>1 DEF Tick
<1>3. TypeOK'
  <2>1. now' \in Nat /\ day' \in Days /\ midnight' \in 0..now'
    BY <1>1, <1>2 DEF Days
  <2>2. talked' \in [Calls -> Nat] /\ spoken' \in [Calls -> Nat]
    BY DEF QuotaInv, TypeOK, Tick
  <2> QED
    BY <2>1, <2>2 DEF QuotaInv, TypeOK, Tick
<1>4. ClockInv'
  <2>1. account' = account /\ account.day \in Int
    BY QuotaAssumption DEF Tick, QuotaInv, TypeOK, VoiceQuotaAccount, Days
  <2> QED
    BY <1>1, <1>2, <2>1 DEF QuotaInv, ClockInv
<1>5. MeterInv'
  <2>1. ASSUME NEW m \in ConnectedMeter, Bounded(m)
        PROVE  Bounded(m)'
    <3>1. m.last \in Int /\ m.graceAt \in Int /\ m.day \in Int
      BY QuotaAssumption DEF ConnectedMeter, NoTime, Days
    <3> QED
      BY <1>1, <1>2, <2>1, <3>1 DEF Bounded
  <2>2. \A c \in Calls : meter[c] \in ConnectedMeter /\ ckpt[c] \in ConnectedMeter
    BY DEF QuotaInv, TypeOK
  <2>3. UNCHANGED <<status, gate, meter, ckpt>>
    BY DEF Tick
  <2>4. \A c \in Calls : Bounded(meter[c])' /\ Bounded(ckpt[c])'
    BY <2>1, <2>2, <2>3 DEF QuotaInv, MeterInv, Bounded
  <2> QED
    BY <2>3, <2>4 DEF QuotaInv, MeterInv
<1>6. UNCHANGED <<account, usedOn, rowsOn, ledger, status, daily, gate, meter, ckpt>>
  BY DEF Tick
<1>7. OneActive' /\ UsedInv' /\ FreeWithinDaily'
  BY <1>6 DEF QuotaInv, OneActive, Active, UsedInv, FreeWithinDaily
<1>8. CallInv'
  <2> SUFFICES ASSUME NEW c \in Calls
               PROVE  /\ status'[c] # "ended" => Unsettled(c)'
                      /\ Active(c)' => Sound(c, meter[c])' /\ Sound(c, ckpt[c])' /\ PoolInv(c)'
    BY DEF CallInv
  <2>1. status'[c] # "ended" => Unsettled(c)'
    BY <1>6 DEF QuotaInv, CallInv, Unsettled
  <2>2. ASSUME Active(c)'
        PROVE  Sound(c, meter[c])' /\ Sound(c, ckpt[c])' /\ PoolInv(c)'
    <3>1. Sound(c, meter[c]) /\ Sound(c, ckpt[c]) /\ PoolInv(c)
      BY <1>6, <2>2 DEF QuotaInv, CallInv, Active
    <3>2. account.day \in Int
      BY QuotaAssumption DEF QuotaInv, TypeOK, VoiceQuotaAccount, Days
    <3>3. PoolInv(c)'
      BY <1>1, <1>2, <1>6, <3>1, <3>2 DEF PoolInv, Past
    <3> QED
      BY <1>6, <3>1, <3>3 DEF Sound, FreeOn, ExtraPool
  <2> QED
    BY <2>1, <2>2
<1> QED
  BY <1>3, <1>4, <1>5, <1>7, <1>8 DEF QuotaInv

\* A new call starts with an empty meter and today's pool below its daily seconds.
LEMMA CreateStep ==
    ASSUME QuotaInv, NEW c \in Calls, NEW dailySeconds \in DailySeconds,
           Create(c, dailySeconds)
    PROVE  QuotaInv'
<1>1. /\ dailySeconds \in Nat /\ usedOn[day] \in Nat
      /\ account \in VoiceQuotaAccount /\ day \in Days
  BY QuotaAssumption DEF QuotaInv, TypeOK
<1>2. PublishedFree(dailySeconds) \in Nat
  BY <1>1 DEF PublishedFree, Surplus, FreeOn, VoiceQuotaAccount
<1>3. /\ account' \in VoiceQuotaAccount
      /\ account'.open = account.open /\ account'.day = account.day
      /\ account'.extra = account.extra
      /\ ~account.open \/ account.day # day => account' = account
      /\ account.open /\ account.day = day => account'.free = PublishedFree(dailySeconds)
  <2>1. CASE account.open /\ account.day = day /\ account.free # PublishedFree(dailySeconds)
    <3> DEFINE version == account.version + 1
               b == [account EXCEPT !.free = PublishedFree(dailySeconds), !.version = version]
    <3>1. account' = b
      BY <2>1 DEF Create
    <3>2. version \in Nat
      BY <1>1 DEF VoiceQuotaAccount
    <3> HIDE DEF version
    <3>3. /\ b \in VoiceQuotaAccount
          /\ b.open = account.open /\ b.day = account.day /\ b.extra = account.extra
          /\ b.free = PublishedFree(dailySeconds)
      BY <1>1, <1>2, <3>2 DEF VoiceQuotaAccount
    <3> QED
      BY <2>1, <3>1, <3>3
  <2>2. CASE ~(account.open /\ account.day = day /\ account.free # PublishedFree(dailySeconds))
    BY <1>1, <2>2 DEF Create
  <2> QED
    BY <2>1, <2>2
<1>4. /\ status' = [status EXCEPT ![c] = "waiting"] /\ status[c] = "none"
      /\ daily' = [daily EXCEPT ![c] = dailySeconds]
      /\ \A b \in Calls : ~Active(b)
      /\ UNCHANGED <<now, day, midnight, usedOn, rowsOn, ledger, gate, meter, ckpt,
                     talked, spoken, granted>>
  BY DEF Create, clockVars, history
<1>5. TypeOK'
  BY <1>1, <1>3, <1>4 DEF QuotaInv, TypeOK
<1>6. ClockInv'
  BY <1>3, <1>4 DEF QuotaInv, ClockInv
<1>7. MeterInv'
  BY <1>4 DEF QuotaInv, TypeOK, MeterInv, Bounded
<1>8. \A b \in Calls \ {c} : status'[b] = status[b] /\ daily'[b] = daily[b] /\ ~Active(b)'
  BY <1>4 DEF QuotaInv, TypeOK, Active
<1>9. OneActive'
  BY <1>8 DEF OneActive
<1>10. CallInv'
  <2>1. \A b \in Calls : status'[b] # "ended" => Unsettled(b)'
    BY <1>4, <1>8 DEF QuotaInv, CallInv, Unsettled
  <2>2. meter'[c] = NewMeter /\ ckpt'[c] = NewMeter
    BY <1>4 DEF QuotaInv, MeterInv
  <2>3. Sound(c, NewMeter)'
    <3>1. account'.free \in Nat /\ account'.extra \in Nat /\ daily'[c] \in Nat
      BY <1>5, QuotaAssumption DEF TypeOK, VoiceQuotaAccount
    <3>2. /\ \A d \in Days : NewMeter.free[d] = 0
          /\ NewMeter.extra = 0 /\ NewMeter.last = NoTime
      BY DEF NewMeter, NothingUsed
    <3> QED
      BY <3>1, <3>2 DEF Sound, FreeOn, ExtraPool
  <2>4. PoolInv(c)'
    <3> SUFFICES ASSUME account'.open
                 PROVE  \/ account'.free <= Surplus(daily'[c], usedOn'[account'.day])
                        \/ account'.day < day' /\ Past(meter[c])' /\ Past(ckpt[c])'
      BY DEF PoolInv
    <3>1. daily'[c] = dailySeconds
      BY <1>4 DEF QuotaInv, TypeOK
    <3>2. CASE account.day = day
      <4>1. PublishedFree(dailySeconds) <= Surplus(dailySeconds, usedOn[day])
        <5>1. CASE day \in rowsOn \/ account.free > 0
          BY <1>1, <1>2, <1>3, <3>2, <5>1 DEF PublishedFree, Surplus
        <5>2. CASE ~(day \in rowsOn \/ account.free > 0)
          BY <1>1, <1>3, <3>2, <5>2 DEF PublishedFree, FreeOn, Surplus, VoiceQuotaAccount
        <5> QED
          BY <5>1, <5>2
      <4> QED
        BY <1>3, <1>4, <3>1, <3>2, <4>1
    <3>3. CASE account.day # day
      <4>1. account.day < day
        BY <1>1, <1>3, <3>3, QuotaAssumption
           DEF QuotaInv, ClockInv, VoiceQuotaAccount, Days
      <4>2. Past(NewMeter)
        BY <1>3, NewMeterSound DEF QuotaInv
      <4> QED
        BY <1>3, <1>4, <2>2, <4>1, <4>2 DEF Past
    <3> QED
      BY <3>2, <3>3
  <2> QED
    BY <1>8, <2>1, <2>2, <2>3, <2>4 DEF CallInv, Sound
<1>11. UsedInv'
  BY <1>3, <1>4 DEF QuotaInv, UsedInv
<1>12. FreeWithinDaily'
  <2> SUFFICES ASSUME NEW d \in Days, usedOn'[d] > 0
               PROVE  \E b \in Calls : ledger'[b].free[d] > 0 /\ usedOn'[d] <= daily'[b]
    BY DEF FreeWithinDaily
  <2>1. PICK b \in Calls : ledger[b].free[d] > 0 /\ usedOn[d] <= daily[b]
    BY <1>4 DEF QuotaInv, FreeWithinDaily
  <2>2. b # c
    BY <1>4, <2>1 DEF QuotaInv, CallInv, Unsettled
  <2> QED
    BY <1>4, <1>8, <2>1, <2>2
<1> QED
  BY <1>5, <1>6, <1>7, <1>9, <1>10, <1>11, <1>12 DEF QuotaInv

\* A grant adds to an open account what no call has counted on, and opens one
\* only when nobody talks.
LEMMA GrantStep ==
    ASSUME QuotaInv, NEW seconds \in Grants, NEW version \in 0..account.version,
           NEW dailySeconds \in DailySeconds, GrantExtra(seconds, version, dailySeconds)
    PROVE  QuotaInv'
<1>1. /\ account \in VoiceQuotaAccount /\ day \in Days /\ ExtraCap \in Nat
      /\ seconds \in Nat /\ dailySeconds \in Nat /\ usedOn[day] \in Nat /\ granted \in Nat
  BY QuotaAssumption DEF QuotaInv, TypeOK
<1>2. /\ UNCHANGED <<now, day, midnight, usedOn, rowsOn, ledger, status, daily, gate,
                     meter, ckpt, talked, spoken>>
      /\ granted' = granted + seconds
      /\ ExtraPool <= ExtraCap - seconds
      /\ account.open \/ \A c \in Calls : ~Active(c)
  BY DEF GrantExtra, clockVars
<1>3. CASE account.open
  <2> DEFINE extra == account.extra + seconds
             newer == account.version + 1
             b == [account EXCEPT !.extra = extra, !.version = newer]
  <2>1. account' = b
    BY <1>3 DEF GrantExtra
  <2>2. extra \in 0..ExtraCap /\ newer \in Nat /\ account.extra <= extra
    BY <1>1, <1>2, <1>3 DEF VoiceQuotaAccount, ExtraPool
  <2>3. ExtraPool \in Nat /\ ExtraPool <= extra
    BY <1>1, <1>3, <2>2 DEF VoiceQuotaAccount, ExtraPool
  <2> HIDE DEF extra, newer
  <2>4. /\ b \in VoiceQuotaAccount
        /\ b.open = account.open /\ b.day = account.day /\ b.free = account.free
        /\ b.extra = extra
    BY <1>1, <2>2 DEF VoiceQuotaAccount
  <2> HIDE DEF b
  <2>5. TypeOK'
    BY <1>1, <1>2, <2>1, <2>4 DEF QuotaInv, TypeOK
  <2>6. ClockInv' /\ MeterInv' /\ OneActive' /\ UsedInv' /\ FreeWithinDaily'
    BY <1>2, <1>3, <2>1, <2>4
       DEF QuotaInv, ClockInv, MeterInv, Bounded, OneActive, Active, UsedInv, FreeWithinDaily
  <2>7. CallInv'
    <3> SUFFICES ASSUME NEW c \in Calls
                 PROVE  /\ status'[c] # "ended" => Unsettled(c)'
                        /\ Active(c)' => Sound(c, meter[c])' /\ Sound(c, ckpt[c])' /\ PoolInv(c)'
      BY DEF CallInv
    <3>1. status'[c] # "ended" => Unsettled(c)'
      BY <1>2 DEF QuotaInv, CallInv, Unsettled
    <3>2. ASSUME Active(c)'
          PROVE  Sound(c, meter[c])' /\ Sound(c, ckpt[c])' /\ PoolInv(c)'
      <4>1. Sound(c, meter[c]) /\ Sound(c, ckpt[c]) /\ PoolInv(c)
        BY <1>2, <3>2 DEF QuotaInv, CallInv, Active
      <4>2. meter[c].extra \in Nat /\ ckpt[c].extra \in Nat
        BY DEF QuotaInv, TypeOK, ConnectedMeter
      <4>3. extra \in Nat
        BY <1>1, <2>2
      <4> QED
        BY <1>2, <1>3, <2>1, <2>3, <2>4, <4>1, <4>2, <4>3
           DEF Sound, FreeOn, ExtraPool, PoolInv, Past
    <3> QED
      BY <3>1, <3>2
  <2> QED
    BY <2>5, <2>6, <2>7 DEF QuotaInv
<1>4. CASE ~account.open
  <2>1. account' = [open |-> TRUE, day |-> day, free |-> Surplus(dailySeconds, usedOn[day]),
                    extra |-> seconds, version |-> 1]
    BY <1>4 DEF GrantExtra
  <2>2. Surplus(dailySeconds, usedOn[day]) \in Nat /\ seconds \in 0..ExtraCap
    BY <1>1, <1>2, <1>4 DEF Surplus, ExtraPool
  <2>3. account' \in VoiceQuotaAccount /\ account'.open /\ account'.day = day
    BY <1>1, <2>1, <2>2 DEF VoiceQuotaAccount
  <2>4. TypeOK'
    BY <1>1, <1>2, <2>3 DEF QuotaInv, TypeOK
  <2>5. ClockInv' /\ MeterInv' /\ OneActive' /\ FreeWithinDaily'
    BY <1>1, <1>2, <2>3
       DEF QuotaInv, ClockInv, MeterInv, Bounded, OneActive, Active, FreeWithinDaily, Days
  <2>6. UsedInv'
    BY <1>2, <1>4 DEF QuotaInv, UsedInv
  <2>7. CallInv'
    BY <1>2, <1>4 DEF QuotaInv, CallInv, Active, Unsettled
  <2> QED
    BY <2>4, <2>5, <2>6, <2>7 DEF QuotaInv
<1> QED
  BY <1>3, <1>4

-----------------------------------------------------------------------------
(* The settlement. *)

\* A sound meter of a row that has settled nothing is never refused.
LEMMA SoundSettles ==
    ASSUME TypeOK, NEW c \in Calls, NEW m \in ConnectedMeter, Unsettled(c), Sound(c, m),
           m.last # NoTime
    PROVE  ~SettleRefused(c, m)
<1>1. /\ \A d \in Days : m.free[d] \in Nat /\ ledger[c].free[d] = 0
      /\ m.extra \in Nat /\ ledger[c].extra = 0
      /\ m.grace \in Nat /\ ledger[c].grace = 0
  BY QuotaAssumption DEF TypeOK, ConnectedMeter, Unsettled
<1>2. /\ \A d \in Days : m.free[d] <= FreeOn(d, daily[c])
      /\ m.extra <= ExtraPool
      /\ account.open => account.day <= m.day
  BY DEF Sound
<1>3. ~ClockReversed(m.day)
  BY <1>2, QuotaAssumption DEF ClockReversed, TypeOK, VoiceQuotaAccount, ConnectedMeter, Days
<1>4. \A d \in Days : Debit(c, m, d) = m.free[d]
  BY <1>1 DEF Debit
<1>5. ExtraDebit(c, m) = m.extra
  BY <1>1 DEF ExtraDebit
<1>6. /\ ~(ExtraDebit(c, m) < 0) /\ ~(m.grace < ledger[c].grace)
      /\ ~(ExtraDebit(c, m) > ExtraPool)
  <2>1. ExtraPool \in Int
    BY QuotaAssumption DEF TypeOK, VoiceQuotaAccount, ExtraPool
  <2> QED
    BY <1>1, <1>2, <1>5, <2>1
<1>7. \A d \in Days : ~(Debit(c, m, d) < 0) /\ ~(Debit(c, m, d) > FreeOn(d, daily[c]))
  <2> TAKE d \in Days
  <2>1. FreeOn(d, daily[c]) \in Int
    BY DEF TypeOK, VoiceQuotaAccount, FreeOn
  <2> QED
    BY <1>1, <1>2, <1>4, <2>1
<1> QED
  BY <1>3, <1>6, <1>7 DEF SettleRefused

\* The free seconds a settlement takes are within the daily seconds of its call,
\* together with those of the calls before it.
LEMMA PoolOnce ==
    ASSUME QuotaInv, NEW c \in Calls, NEW m \in ConnectedMeter, Active(c), Sound(c, m),
           m = meter[c] \/ m = ckpt[c],
           NEW d \in Days, m.free[d] > 0
    PROVE  usedOn[d] + m.free[d] <= daily[c]
<1>1. /\ usedOn[d] \in Nat /\ daily[c] \in Nat /\ m.free[d] \in Nat
      /\ account.free \in Nat /\ account.day \in Int /\ d \in Int
  <2>1. account \in VoiceQuotaAccount /\ usedOn \in [Days -> Nat] /\ daily \in [Calls -> Nat]
    BY DEF QuotaInv, TypeOK
  <2>2. account.free \in Nat /\ account.day \in Days /\ m.free \in [Days -> Nat]
    BY <2>1 DEF VoiceQuotaAccount, ConnectedMeter
  <2> QED
    BY <2>1, <2>2, QuotaAssumption DEF Days
<1>2. m.free[d] <= FreeOn(d, daily[c]) /\ (account.open => account.day <= d)
  BY DEF Sound
<1>3. CASE account.open /\ account.day = d
  <2>1. ~Past(m)
    BY <1>3 DEF Past
  <2>2. PoolInv(c)
    BY DEF QuotaInv, CallInv
  <2>3. account.free <= Surplus(daily[c], usedOn[d])
    BY <1>3, <2>1, <2>2 DEF PoolInv
  <2> QED
    BY <1>1, <1>2, <1>3, <2>3 DEF FreeOn, Surplus
<1>4. CASE ~(account.open /\ account.day = d)
  <2>1. usedOn[d] = 0
    BY <1>1, <1>2, <1>4 DEF QuotaInv, UsedInv
  <2> QED
    BY <1>1, <1>2, <1>4, <2>1 DEF FreeOn
<1> QED
  BY <1>3, <1>4

\* A settlement that charges: what the account and the ledger become.
LEMMA SettleCharges ==
    ASSUME QuotaInv, NEW c \in Calls, NEW m \in ConnectedMeter, Active(c),
           Sound(c, m), Bounded(m), m = meter[c] \/ m = ckpt[c],
           settle(c, m), Charges(c, m)
    PROVE  /\ account' \in VoiceQuotaAccount /\ account'.open
           /\ account'.day = m.day /\ (account.open => account.day <= m.day)
           /\ account'.version = account.version + 1
           /\ usedOn' \in [Days -> Nat] /\ rowsOn' \in SUBSET Days
           /\ \A d \in Days : usedOn'[d] = usedOn[d] + m.free[d]
           /\ ledger' = [ledger EXCEPT ![c] =
                  [free |-> m.free, extra |-> m.extra, grace |-> m.grace, growth |-> Growth(m)]]
<1>1. /\ \A d \in Days : ledger[c].free[d] = 0
      /\ ledger[c].extra = 0
  BY DEF QuotaInv, CallInv, Active, Unsettled
<1>2. /\ m.free \in [Days -> Nat] /\ m.extra \in Nat /\ m.day \in Days /\ m.dates \in SUBSET Days
  BY DEF ConnectedMeter
<1>3. /\ usedOn \in [Days -> Nat] /\ rowsOn \in SUBSET Days /\ daily[c] \in Nat
      /\ account.free \in Nat /\ account.version \in Nat /\ account.day \in Int
      /\ account.extra \in 0..ExtraCap /\ ExtraCap \in Nat /\ m.day \in Int
  <2>1. /\ account \in VoiceQuotaAccount /\ usedOn \in [Days -> Nat] /\ daily \in [Calls -> Nat]
        /\ rowsOn \in SUBSET Days
    BY DEF QuotaInv, TypeOK
  <2>2. /\ account.free \in Nat /\ account.version \in Nat /\ account.day \in Days
        /\ account.extra \in 0..ExtraCap
    BY <2>1 DEF VoiceQuotaAccount
  <2>3. Days \subseteq Int /\ ExtraCap \in Nat
    BY QuotaAssumption DEF Days
  <2> QED
    BY <1>2, <2>1, <2>2, <2>3
<1>4. /\ account' = Debited(c, m)
      /\ usedOn' = [d \in Days |-> usedOn[d] + Debit(c, m, d)]
      /\ rowsOn' = rowsOn \cup m.dates
      /\ ledger' = [ledger EXCEPT ![c] =
             [free |-> m.free, extra |-> m.extra, grace |-> m.grace, growth |-> Growth(m)]]
  BY DEF settle
<1>5. \A d \in Days : Debit(c, m, d) = m.free[d]
  BY <1>1, <1>2 DEF Debit
<1>6. ExtraDebit(c, m) = m.extra /\ m.extra <= ExtraPool /\ ExtraPool \in 0..ExtraCap
  BY <1>1, <1>2, <1>3 DEF ExtraDebit, Sound, ExtraPool
<1>7. account.open => account.day <= m.day
  BY <1>3 DEF settle, SettleRefused, ClockReversed
<1> DEFINE today == IF account.open /\ account.day = m.day THEN account.free ELSE daily[c]
<1>8. today - Debit(c, m, m.day) \in Nat
  BY <1>2, <1>3, <1>5 DEF Sound, FreeOn
<1>9. ExtraPool - ExtraDebit(c, m) \in 0..ExtraCap
  <2>1. ExtraDebit(c, m) = m.extra /\ m.extra \in Nat /\ ExtraCap \in Nat
    BY <1>2, <1>3, <1>6
  <2>2. ExtraPool \in Nat /\ ExtraPool <= ExtraCap /\ m.extra <= ExtraPool
    BY <1>6, <2>1
  <2> HIDE DEF ExtraPool, ExtraDebit
  <2> QED
    BY <2>1, <2>2
<1>10. (IF account.open THEN account.version + 1 ELSE 1) = account.version + 1
  BY <1>3 DEF QuotaInv, ClockInv
<1> HIDE DEF today
<1>11. account' = [open |-> TRUE, day |-> m.day, free |-> today - Debit(c, m, m.day),
                   extra |-> ExtraPool - ExtraDebit(c, m),
                   version |-> account.version + 1]
  BY <1>4, <1>10 DEF Debited, today
<1>12. account' \in VoiceQuotaAccount /\ account'.open
       /\ account'.day = m.day /\ account'.version = account.version + 1
  BY <1>2, <1>3, <1>8, <1>9, <1>11 DEF VoiceQuotaAccount
<1> QED
  BY <1>2, <1>3, <1>4, <1>5, <1>7, <1>12

\* The end of a call with its settlement, from the meter or from the checkpoint.
LEMMA EndStep ==
    ASSUME QuotaInv, NEW c \in Calls, NEW m \in ConnectedMeter,
           status[c] = "talking", m = meter[c] \/ m = ckpt[c], settle(c, m),
           status' = [status EXCEPT ![c] = "ended"],
           ckpt' = [ckpt EXCEPT ![c] = NewMeter],
           \/ UNCHANGED <<gate, meter>>
           \/ gate' = [gate EXCEPT ![c] = "gone"] /\ meter' = [meter EXCEPT ![c] = NewMeter],
           UNCHANGED <<clockVars, daily, history>>
    PROVE  QuotaInv'
<1> USE DEF clockVars, history
<1>1. Active(c) /\ Unsettled(c) /\ Sound(c, m) /\ Bounded(m)
  BY DEF QuotaInv, Active, CallInv, MeterInv
<1>2. /\ NewMeter \in ConnectedMeter /\ Bounded(NewMeter)
  BY NewMeterSound DEF QuotaInv
<1>3. /\ status'[c] = "ended" /\ \A b \in Calls \ {c} : status'[b] = status[b]
      /\ \A b \in Calls : ~Active(b)'
  BY <1>1 DEF QuotaInv, TypeOK, OneActive, Active
<1>4. /\ gate' \in [Calls -> {"none", "run", "stopped", "gone"}]
      /\ meter' \in [Calls -> ConnectedMeter] /\ ckpt' \in [Calls -> ConnectedMeter]
      /\ status' \in [Calls -> {"none", "waiting", "talking", "ended"}]
  BY <1>2 DEF QuotaInv, TypeOK
<1>5. MeterInv'
  <2> SUFFICES ASSUME NEW b \in Calls
               PROVE  /\ Bounded(meter[b])' /\ Bounded(ckpt[b])'
                      /\ status'[b] = "none" =>
                            gate'[b] = "none" /\ meter'[b] = NewMeter /\ ckpt'[b] = NewMeter
                      /\ gate'[b] \in {"run", "stopped"} => meter'[b].last # NoTime
    BY DEF MeterInv
  <2>1. CASE b = c
    <3>1. Bounded(meter[c]) /\ (gate[c] \in {"run", "stopped"} => meter[c].last # NoTime)
      BY DEF QuotaInv, MeterInv
    <3>2. ckpt'[c] = NewMeter
      BY DEF QuotaInv, TypeOK
    <3>3. \/ gate'[c] = gate[c] /\ meter'[c] = meter[c]
          \/ gate'[c] = "gone" /\ meter'[c] = NewMeter
      BY DEF QuotaInv, TypeOK
    <3> QED
      BY <1>2, <1>3, <2>1, <3>1, <3>2, <3>3 DEF Bounded
  <2>2. CASE b # c
    <3>1. meter'[b] = meter[b] /\ ckpt'[b] = ckpt[b] /\ gate'[b] = gate[b]
      BY <2>2 DEF QuotaInv, TypeOK
    <3> QED
      BY <1>3, <2>2, <3>1 DEF QuotaInv, MeterInv, Bounded
  <2> QED
    BY <2>1, <2>2
<1>6. OneActive'
  BY <1>3 DEF OneActive
<1>7. Growth(m) \in Nat
  BY DEF Growth, Least, ConnectedMeter
<1>8. ledger' \in [Calls -> VoiceUsageLedger] /\ \A b \in Calls \ {c} : ledger'[b] = ledger[b]
  <2>1. CASE Charges(c, m)
    <3>1. [free |-> m.free, extra |-> m.extra, grace |-> m.grace, growth |-> Growth(m)]
             \in VoiceUsageLedger
      BY <1>7 DEF ConnectedMeter, VoiceUsageLedger
    <3> QED
      BY <1>1, <2>1, <3>1, SettleCharges DEF QuotaInv, TypeOK
  <2>2. CASE ~Charges(c, m)
    <3> DEFINE growth == IF ledger[c].growth > Growth(m) THEN ledger[c].growth ELSE Growth(m)
    <3>1. ledger' = [ledger EXCEPT ![c].growth = growth]
      BY <2>2 DEF settle
    <3>2. growth \in Nat
      BY <1>7 DEF QuotaInv, TypeOK, VoiceUsageLedger
    <3> HIDE DEF growth
    <3>3. [ledger[c] EXCEPT !.growth = growth] \in VoiceUsageLedger
      <4>1. ledger[c] \in VoiceUsageLedger
        BY DEF QuotaInv, TypeOK
      <4> QED
        BY <3>2, <4>1 DEF VoiceUsageLedger
    <3> QED
      BY <3>1, <3>3 DEF QuotaInv, TypeOK
  <2> QED
    BY <2>1, <2>2
<1>9. CallInv'
  BY <1>3, <1>8 DEF QuotaInv, CallInv, Unsettled
<1>10. CASE Charges(c, m)
  <2>1. /\ account' \in VoiceQuotaAccount /\ account'.open
        /\ account'.day = m.day /\ (account.open => account.day <= m.day)
        /\ usedOn' \in [Days -> Nat] /\ rowsOn' \in SUBSET Days
        /\ \A d \in Days : usedOn'[d] = usedOn[d] + m.free[d]
        /\ ledger'[c].free = m.free
    BY <1>1, <1>10, SettleCharges DEF QuotaInv, TypeOK
  <2>2. TypeOK'
    BY <1>4, <1>8, <2>1 DEF QuotaInv, TypeOK
  <2>3. ClockInv'
    BY <1>1, <2>1 DEF QuotaInv, ClockInv, Bounded
  <2>4. m.free \in [Days -> Nat] /\ usedOn \in [Days -> Nat]
    BY DEF ConnectedMeter, QuotaInv, TypeOK
  <2>5. UsedInv'
    <3> SUFFICES ASSUME NEW d \in Days, usedOn'[d] > 0
                 PROVE  d <= m.day
      BY <2>1 DEF UsedInv
    <3>1. m.day \in Int /\ d \in Int /\ (account.open => account.day \in Int)
      BY QuotaAssumption DEF ConnectedMeter, Days, QuotaInv, TypeOK, VoiceQuotaAccount
    <3>2. CASE m.free[d] > 0
      BY <1>1, <3>2 DEF Sound
    <3>3. CASE ~(m.free[d] > 0)
      <4>1. usedOn[d] > 0
        BY <2>1, <2>4, <3>3
      <4> QED
        BY <2>1, <3>1, <4>1 DEF QuotaInv, UsedInv
    <3> QED
      BY <3>2, <3>3
  <2>6. FreeWithinDaily'
    <3> SUFFICES ASSUME NEW d \in Days, usedOn'[d] > 0
                 PROVE  \E b \in Calls : ledger'[b].free[d] > 0 /\ usedOn'[d] <= daily'[b]
      BY DEF FreeWithinDaily
    <3>1. CASE m.free[d] > 0
      <4>1. usedOn[d] + m.free[d] <= daily[c]
        BY <1>1, <3>1, PoolOnce
      <4> QED
        BY <2>1, <3>1, <4>1
    <3>2. CASE ~(m.free[d] > 0)
      <4>1. usedOn'[d] = usedOn[d]
        BY <2>1, <2>4, <3>2
      <4>2. PICK b \in Calls : ledger[b].free[d] > 0 /\ usedOn[d] <= daily[b]
        BY <4>1 DEF QuotaInv, FreeWithinDaily
      <4>3. b # c
        BY <1>1, <4>2 DEF Unsettled
      <4> QED
        BY <1>8, <4>1, <4>2, <4>3
    <3> QED
      BY <3>1, <3>2
  <2> QED
    BY <1>5, <1>6, <1>9, <2>2, <2>3, <2>5, <2>6 DEF QuotaInv
<1>11. CASE ~Charges(c, m)
  <2>1. UNCHANGED <<account, usedOn, rowsOn>>
    BY <1>11 DEF settle
  <2>2. TypeOK'
    BY <1>4, <1>8, <2>1 DEF QuotaInv, TypeOK
  <2>3. ClockInv' /\ UsedInv'
    BY <2>1 DEF QuotaInv, ClockInv, UsedInv
  <2>4. FreeWithinDaily'
    <3> SUFFICES ASSUME NEW d \in Days, usedOn'[d] > 0
                 PROVE  \E b \in Calls : ledger'[b].free[d] > 0 /\ usedOn'[d] <= daily'[b]
      BY DEF FreeWithinDaily
    <3>1. PICK b \in Calls : ledger[b].free[d] > 0 /\ usedOn[d] <= daily[b]
      BY <2>1 DEF QuotaInv, FreeWithinDaily
    <3>2. b # c
      BY <1>1, <3>1 DEF Unsettled
    <3> QED
      BY <1>8, <2>1, <3>1, <3>2
  <2> QED
    BY <1>5, <1>6, <1>9, <2>2, <2>3, <2>4 DEF QuotaInv
<1> QED
  BY <1>10, <1>11

\* Each of the three ends of a call keeps the invariant.
LEMMA EndSteps ==
    ASSUME QuotaInv, NEW c \in Calls,
           EndUnconnected(c) \/ EndByOwner(c) \/ EndByRecovery(c)
    PROVE  QuotaInv'
<1>1. meter[c] \in ConnectedMeter /\ ckpt[c] \in ConnectedMeter
  BY DEF QuotaInv, TypeOK
<1>2. CASE EndUnconnected(c)
  <2> USE DEF clockVars, moneyVars, history
  <2>1. NewMeter \in ConnectedMeter /\ Bounded(NewMeter)
    BY NewMeterSound DEF QuotaInv
  <2>2. /\ status'[c] = "ended" /\ \A b \in Calls \ {c} : status'[b] = status[b]
        /\ ckpt'[c] = NewMeter /\ \A b \in Calls \ {c} : ckpt'[b] = ckpt[b]
        /\ UNCHANGED <<now, day, midnight, account, usedOn, rowsOn, ledger, daily, gate,
                       meter, talked, spoken, granted>>
    BY <1>2 DEF EndUnconnected, QuotaInv, TypeOK
  <2>3. \A b \in Calls : ~Active(b)'
    <3>1. Active(c)
      BY <1>2 DEF EndUnconnected, Active
    <3> QED
      BY <2>2, <3>1 DEF QuotaInv, OneActive, Active
  <2>4. TypeOK'
    BY <1>2, <2>1 DEF EndUnconnected, QuotaInv, TypeOK
  <2>5. ClockInv' /\ OneActive' /\ UsedInv' /\ FreeWithinDaily'
    BY <2>2, <2>3 DEF QuotaInv, ClockInv, OneActive, UsedInv, FreeWithinDaily
  <2>6. MeterInv'
    BY <2>1, <2>2 DEF QuotaInv, MeterInv, Bounded
  <2>7. CallInv'
    BY <2>2, <2>3 DEF QuotaInv, CallInv, Unsettled
  <2> QED
    BY <2>4, <2>5, <2>6, <2>7 DEF QuotaInv
<1>3. CASE EndByOwner(c)
  BY <1>1, <1>3, EndStep DEF EndByOwner
<1>4. CASE EndByRecovery(c)
  BY <1>1, <1>4, EndStep DEF EndByRecovery
<1> QED
  BY <1>2, <1>3, <1>4

-----------------------------------------------------------------------------
(* The invariant and what follows from it. *)

\* A user without an account and without calls.
LEMMA QuotaInit == Init => QuotaInv
<1> SUFFICES ASSUME Init PROVE QuotaInv
  OBVIOUS
<1> USE DEF Init
<1>1. 0 \in Days /\ NothingUsed \in [Days -> Nat]
  BY QuotaAssumption DEF Days, NothingUsed
<1>2. NewMeter \in ConnectedMeter
  BY <1>1, QuotaAssumption DEF NewMeter, ConnectedMeter
<1>3. account \in VoiceQuotaAccount
  BY <1>1, QuotaAssumption DEF VoiceQuotaAccount
<1>4. [free |-> NothingUsed, extra |-> 0, grace |-> 0, growth |-> 0] \in VoiceUsageLedger
  BY <1>1, QuotaAssumption DEF VoiceUsageLedger
<1>5. TypeOK
  BY <1>1, <1>2, <1>3, <1>4 DEF TypeOK
<1>6. ClockInv
  BY QuotaAssumption DEF ClockInv
<1>7. MeterInv
  BY QuotaAssumption DEF MeterInv, Bounded, NewMeter, NoTime
<1>8. OneActive /\ CallInv
  BY DEF OneActive, Active, CallInv, Unsettled, NothingUsed
<1>9. UsedInv /\ FreeWithinDaily
  BY DEF UsedInv, FreeWithinDaily, NothingUsed
<1> QED
  BY <1>5, <1>6, <1>7, <1>8, <1>9 DEF QuotaInv

\* Every step keeps the invariant.
LEMMA QuotaStep == QuotaInv /\ [Next]_vars => QuotaInv'
<1> SUFFICES ASSUME QuotaInv, [Next]_vars PROVE QuotaInv'
  OBVIOUS
<1>1. CASE Tick
  BY <1>1, TickStep
<1>2. ASSUME NEW seconds \in Grants, NEW version \in 0..account.version,
             NEW dailySeconds \in DailySeconds, GrantExtra(seconds, version, dailySeconds)
      PROVE  QuotaInv'
  BY <1>2, GrantStep
<1>3. ASSUME NEW c \in Calls, NEW dailySeconds \in DailySeconds, Create(c, dailySeconds)
      PROVE  QuotaInv'
  BY <1>3, CreateStep
<1>4. ASSUME NEW c \in Calls, NEW connected \in BOOLEAN, NEW muted \in Mutes,
             Observe(c, connected, muted)
      PROVE  QuotaInv'
  BY <1>4, GatewaySteps, QuotaAssumption
<1>5. ASSUME NEW c \in Calls,
             \/ Start(c) \/ Connect(c) \/ Stop(c) \/ ObserveStopped(c) \/ ObserveRaises(c)
             \/ Checkpoint(c) \/ Crash(c) \/ Leave(c)
      PROVE  QuotaInv'
  BY <1>5, GatewaySteps
<1>6. ASSUME NEW c \in Calls, EndUnconnected(c) \/ EndByOwner(c) \/ EndByRecovery(c)
      PROVE  QuotaInv'
  BY <1>6, EndSteps
<1>7. CASE UNCHANGED vars
  BY <1>7 DEF QuotaInv, TypeOK, ClockInv, MeterInv, Bounded, OneActive, Active, CallInv,
     Unsettled, Sound, FreeOn, ExtraPool, PoolInv, Past, UsedInv, FreeWithinDaily,
     vars, clockVars, moneyVars, history
<1> QED
  BY <1>1, <1>2, <1>3, <1>4, <1>5, <1>6, <1>7 DEF Next

\* The invariant holds in every reachable state.
LEMMA QuotaAlways == Spec => []QuotaInv
  BY QuotaInit, QuotaStep, PTL DEF Spec

\* The rows, the meters and the checkpoints keep their types: no pool is ever
\* negative, and the extra pool never exceeds the column of grant_extra's check.
THEOREM TypeCorrect == Spec => []TypeOK
<1>1. QuotaInv => TypeOK
  BY DEF QuotaInv
<1> QED
  BY <1>1, QuotaAlways, PTL

\* settle never raises for a call that talks, neither on the owner's meter nor on
\* the checkpoint: the row can always end with its settlement.
THEOREM SettlementAlwaysPossible == Spec => []SettlementNeverRefused
<1>1. QuotaInv => SettlementNeverRefused
  <2> SUFFICES ASSUME QuotaInv, NEW c \in Calls, status[c] = "talking"
               PROVE  /\ gate[c] \in {"run", "stopped"} => ~SettleRefused(c, meter[c])
                      /\ ckpt[c].last # NoTime => ~SettleRefused(c, ckpt[c])
    BY DEF SettlementNeverRefused
  <2>1. Unsettled(c) /\ Sound(c, meter[c]) /\ Sound(c, ckpt[c])
    BY DEF QuotaInv, CallInv, Active
  <2>2. meter[c] \in ConnectedMeter /\ ckpt[c] \in ConnectedMeter /\ TypeOK
    BY DEF QuotaInv, TypeOK
  <2>3. gate[c] \in {"run", "stopped"} => meter[c].last # NoTime
    BY DEF QuotaInv, MeterInv
  <2> QED
    BY <2>1, <2>2, <2>3, SoundSettles
<1> QED
  BY <1>1, QuotaAlways, PTL

\* observe never raises for an active call: the account stays behind the meter's
\* date, and the ledger behind what the meter has reserved.
THEOREM ObservationAlwaysPossible == Spec => []ObservationNeverRefused
<1>1. QuotaInv => ObservationNeverRefused
  <2> SUFFICES ASSUME QuotaInv, NEW c \in Calls, Active(c)
               PROVE  ~ObserveRefused(c)
    BY DEF ObservationNeverRefused
  <2> DEFINE m == meter[c]
  <2>1. Unsettled(c) /\ Sound(c, m)
    BY DEF QuotaInv, CallInv, Active
  <2>2. /\ m \in ConnectedMeter /\ account \in VoiceQuotaAccount /\ day \in Days
        /\ ledger \in [Calls -> VoiceUsageLedger]
    BY DEF QuotaInv, TypeOK
  <2>3. /\ m.extra \in Nat /\ m.day \in Days /\ account.day \in Days
        /\ m.free \in [Days -> Nat]
    BY <2>2 DEF ConnectedMeter, VoiceQuotaAccount
  <2>4. m.last # NoTime => ~ClockReversed(m.day)
    BY <2>1, <2>3, QuotaAssumption DEF Sound, ClockReversed, Days
  <2> HIDE DEF m
  <2>5. ~(m.extra < ledger[c].extra)
    BY <2>1, <2>3 DEF Unsettled
  <2>6. \A d \in {m.day, day} : ~(m.free[d] < ledger[c].free[d])
    BY <2>1, <2>2, <2>3 DEF Unsettled
  <2> QED
    BY <2>4, <2>5, <2>6 DEF ObserveRefused, Counting, m
<1> QED
  BY <1>1, QuotaAlways, PTL

\* settle and apply_published_balance together never hand out more free seconds
\* of a date than one of the calls that used them was promised.
THEOREM FreePoolOnce == Spec => []FreeWithinDaily
<1>1. QuotaInv => FreeWithinDaily
  BY DEF QuotaInv
<1> QED
  BY <1>1, QuotaAlways, PTL

\* grant_extra, apply_published_balance and settle write the account row under a
\* new version each.
THEOREM VersionsMove == Spec => AccountChangesCarryVersion
<1>1. QuotaInv /\ [Next]_vars => [account' # account => account'.version > account.version]_vars
  <2> SUFFICES ASSUME QuotaInv, Next, account' # account
               PROVE  account'.version > account.version
    BY DEF vars, moneyVars
  <2>1. /\ account \in VoiceQuotaAccount /\ account.version \in Nat
        /\ ~account.open => account.version = 0
    BY DEF QuotaInv, TypeOK, ClockInv, VoiceQuotaAccount
  <2>2. ASSUME NEW seconds \in Grants, NEW version \in 0..account.version,
               NEW dailySeconds \in DailySeconds, GrantExtra(seconds, version, dailySeconds)
        PROVE  account'.version > account.version
    <3> DEFINE newer == account.version + 1
    <3>1. newer > account.version
      BY <2>1
    <3>2. account.open => account' = [account EXCEPT !.extra = @ + seconds, !.version = newer]
      BY <2>2 DEF GrantExtra
    <3>3. ~account.open => account'.version = 1
      BY <2>2 DEF GrantExtra
    <3> HIDE DEF newer
    <3>4. account.open => account'.version = newer
      BY <2>1, <3>2 DEF VoiceQuotaAccount
    <3> QED
      BY <2>1, <3>1, <3>3, <3>4
  <2>3. ASSUME NEW c \in Calls, NEW dailySeconds \in DailySeconds, Create(c, dailySeconds)
        PROVE  account'.version > account.version
    <3>1. account' = [account EXCEPT !.free = PublishedFree(dailySeconds), !.version = @ + 1]
      BY <2>3 DEF Create
    <3> QED
      BY <2>1, <3>1 DEF VoiceQuotaAccount
  <2>4. ASSUME NEW c \in Calls, EndByOwner(c) \/ EndByRecovery(c)
        PROVE  account'.version > account.version
    <3>1. /\ meter[c] \in ConnectedMeter /\ ckpt[c] \in ConnectedMeter
          /\ Active(c) /\ Sound(c, meter[c]) /\ Sound(c, ckpt[c])
          /\ Bounded(meter[c]) /\ Bounded(ckpt[c])
      BY <2>4 DEF EndByOwner, EndByRecovery, QuotaInv, TypeOK, Active, CallInv, MeterInv
    <3>2. PICK m \in {meter[c], ckpt[c]} : settle(c, m)
      BY <2>4 DEF EndByOwner, EndByRecovery
    <3>3. Charges(c, m)
      BY <3>2 DEF settle
    <3>4. account'.version = account.version + 1
      BY <3>1, <3>2, <3>3, SettleCharges
    <3> QED
      BY <2>1, <3>4
  <2>5. ASSUME NEW c \in Calls,
               \/ Start(c) \/ Connect(c) \/ Stop(c) \/ ObserveStopped(c) \/ ObserveRaises(c)
               \/ Checkpoint(c) \/ Crash(c) \/ Leave(c) \/ EndUnconnected(c)
               \/ \E connected \in BOOLEAN, muted \in Mutes : Observe(c, connected, muted)
        PROVE  account' = account
    BY <2>5 DEF Start, Connect, Stop, ObserveStopped, ObserveRaises, Checkpoint, Crash, Leave,
       EndUnconnected, Observe, GateUnchanged, moneyVars
  <2>6. Tick => account' = account
    BY DEF Tick, moneyVars
  <2> QED
    BY <2>2, <2>3, <2>4, <2>5, <2>6 DEF Next
<1> QED
  BY <1>1, QuotaAlways, PTL DEF Spec, AccountChangesCarryVersion

-----------------------------------------------------------------------------
(* The meter and the clock.  Until the grace period begins a meter has     *)
(* billed, or carries, every half second that it was connected before its  *)
(* last observation; from then on it bills no more.  Its growth does the   *)
(* same with the half seconds in which the microphone was on as well.      *)

\* Talk and speech that the next observation will find.
Pending(c) == IF gate[c] = "run" /\ meter[c].conn THEN now - meter[c].last ELSE 0
PendingSpeech(c) == IF meter[c].muted THEN 0 ELSE Pending(c)

\* Only an observation that raised leaves a stopped meter connected.
Raised(c) == gate[c] = "stopped" /\ meter[c].conn

\* Checkpoint and ledger are behind the meter.
Within(c, m) ==
    /\ ckpt[c].extra <= m.extra /\ ledger[c].extra <= m.extra
    /\ \A d \in Days : ckpt[c].free[d] <= m.free[d] /\ ledger[c].free[d] <= m.free[d]

\* The meter of a gateway.  The account has gone past the date of one that raised
\* and will never come back to it.
Timed(c) ==
    LET m == meter[c]
    IN  /\ m.day = day => midnight <= m.last
        /\ gate[c] = "run" => day <= m.day + 1
        /\ Raised(c) => m.graceAt = NoTime /\ m.last < now /\ ClockReversed(m.day)
        /\ Within(c, m)
        /\ 2 * m.billed <= talked[c]
        /\ m.graceAt = NoTime /\ ~Raised(c) => talked[c] = 2 * m.billed + m.rem + Pending(c)
        /\ m.growth + PendingSpeech(c) <= spoken[c]
        /\ m.graceAt = NoTime /\ ~Raised(c) => spoken[c] = m.growth + PendingSpeech(c)

TimeOf(c) ==
    /\ ckpt[c].growth <= spoken[c] /\ 2 * ledger[c].growth <= spoken[c]
    /\ gate[c] = "none" =>
          /\ meter[c] = NewMeter /\ ckpt[c] = NewMeter
          /\ talked[c] = 0 /\ spoken[c] = 0
    /\ gate[c] \in {"run", "stopped"} => Timed(c)

TimeInv == \A c \in Calls : TimeOf(c)

-----------------------------------------------------------------------------
(* What an observation bills, and what it leaves. *)

\* What one turn of the loop measures and charges.
Seconds(m, from, until) == Halves(m, from, until) \div 2
Rest(m, from, until) == Halves(m, from, until) - 2 * Seconds(m, from, until)
Charged(c, m, d, from, until) == Least(Seconds(m, from, until), Available(c, m, d))
FromFree(c, m, d, from, until) == Least(Charged(c, m, d, from, until), FreeLeft(c, m, d))

\* The fields of a meter p after one turn of the loop.
Turned(p, c, m, d, from, until) ==
    LET seconds  == Seconds(m, from, until)
        charged  == Charged(c, m, d, from, until)
        fromFree == FromFree(c, m, d, from, until)
    IN  /\ seconds \in Nat /\ charged \in Nat /\ fromFree \in Nat /\ fromFree <= charged
        /\ p.billed = m.billed + charged
        /\ p.extra = m.extra + (charged - fromFree)
        /\ p.free = [m.free EXCEPT ![d] = @ + fromFree]
        /\ Dry(c, m, d, from, until) =>
              p.rem = 0 /\ p.graceAt = DryAt(c, m, d, from)
        /\ ~Dry(c, m, d, from, until) =>
              p.rem = Rest(m, from, until) /\ p.graceAt = NoTime
        /\ p.conn = m.conn /\ p.muted = m.muted /\ p.growth = m.growth /\ p.grace = m.grace

LEMMA PortionFields ==
    ASSUME TypeOK, NEW c \in Calls, NEW m \in ConnectedMeter, NEW d \in Days,
           NEW from \in Nat, NEW until \in Nat, from <= until
    PROVE  Turned(Portion(c, m, d, from, until), c, m, d, from, until)
<1> DEFINE seconds  == Seconds(m, from, until)
           charged  == Charged(c, m, d, from, until)
           fromFree == FromFree(c, m, d, from, until)
           dry      == Dry(c, m, d, from, until)
           rem      == IF dry THEN 0 ELSE Rest(m, from, until)
           graceAt  == IF dry THEN DryAt(c, m, d, from) ELSE NoTime
           dates    == IF charged > 0 THEN m.dates \cup {d} ELSE m.dates
           free     == [m.free EXCEPT ![d] = @ + fromFree]
           extra    == m.extra + charged - fromFree
           billed   == m.billed + charged
<1>1. seconds \in Nat /\ FreeLeft(c, m, d) \in Nat /\ Available(c, m, d) \in Nat
  BY HalvesType, LeftType DEF Seconds
<1>2. charged \in Nat
  BY <1>1 DEF Charged, Least
<1>3. fromFree \in Nat /\ fromFree <= charged
  BY <1>1, <1>2 DEF FromFree, Least
<1>4. extra = m.extra + (charged - fromFree)
  BY <1>2, <1>3 DEF ConnectedMeter
<1>5. Portion(c, m, d, from, until)
        = [m EXCEPT !.free = free, !.extra = extra, !.billed = billed,
                    !.rem = rem, !.graceAt = graceAt, !.dates = dates]
  BY DEF Portion, Rest, Seconds, Charged, FromFree
<1> HIDE DEF seconds, charged, fromFree, dry, rem, graceAt, dates, free, extra, billed
<1>6. LET p == Portion(c, m, d, from, until)
      IN  /\ p.billed = billed /\ p.extra = extra /\ p.free = free
          /\ p.rem = rem /\ p.graceAt = graceAt
          /\ p.conn = m.conn /\ p.muted = m.muted /\ p.growth = m.growth /\ p.grace = m.grace
  BY <1>5 DEF ConnectedMeter
<1> QED
  BY <1>1, <1>2, <1>3, <1>4, <1>6 DEF Turned, billed, free, rem, graceAt, dry, charged, seconds, fromFree

\* A portion that does not run dry has charged every whole second, since a pool that
\* ends exactly at midnight ends with the portion.
LEMMA PortionCharges ==
    ASSUME TypeOK, NEW c \in Calls, NEW m \in ConnectedMeter, NEW d \in Days,
           NEW from \in Nat, NEW until \in Nat, from <= until,
           until <= NextMidnight(d), ~Dry(c, m, d, from, until)
    PROVE  Seconds(m, from, until) <= Available(c, m, d)
<1>1. /\ Available(c, m, d) \in Nat /\ m.rem \in 0..1
      /\ NextMidnight(d) \in Nat
  <2>1. midnight \in Nat /\ DayLen \in Nat
    BY QuotaAssumption DEF TypeOK
  <2>2. NextMidnight(d) \in Nat
    BY <2>1 DEF NextMidnight
  <2> QED
    BY <2>2, LeftType DEF ConnectedMeter
<1>2. CASE DryAt(c, m, d, from) = NextMidnight(d)
  <2>1. Surplus(2 * Available(c, m, d), m.rem) = NextMidnight(d) - from
    BY <1>1, <1>2 DEF DryAt, Surplus
  <2>2. CASE 2 * Available(c, m, d) > m.rem
    BY <1>1, <2>1, <2>2 DEF Surplus, Seconds, Halves
  <2>3. CASE ~(2 * Available(c, m, d) > m.rem)
    BY <1>1, <2>1, <2>3 DEF Surplus, Seconds, Halves
  <2> QED
    BY <2>2, <2>3
<1>3. CASE DryAt(c, m, d, from) # NextMidnight(d)
  <2>1. ~(Halves(m, from, until) \div 2 >= Available(c, m, d))
    BY <1>3 DEF Dry
  <2>2. Halves(m, from, until) \div 2 \in Nat
    BY HalvesType
  <2> QED
    BY <1>1, <2>1, <2>2 DEF Seconds
<1> QED
  BY <1>2, <1>3

\* A portion bills the time it was given, or runs dry and bills less.
LEMMA PortionTime ==
    ASSUME TypeOK, NEW c \in Calls, NEW m \in ConnectedMeter, NEW d \in Days,
           NEW from \in Nat, NEW until \in Nat, from <= until, until <= NextMidnight(d)
    PROVE  LET p == Portion(c, m, d, from, until)
           IN  /\ p.graceAt = NoTime =>
                     2 * p.billed + p.rem = 2 * m.billed + m.rem + (until - from)
               /\ 2 * p.billed + p.rem <= 2 * m.billed + m.rem + (until - from)
<1> DEFINE p        == Portion(c, m, d, from, until)
           seconds  == Seconds(m, from, until)
           charged  == Charged(c, m, d, from, until)
<1>1. Turned(p, c, m, d, from, until)
  BY PortionFields
<1>2. seconds \in Nat /\ charged \in Nat /\ p.billed = m.billed + charged
  BY <1>1 DEF Turned
<1>3. /\ Available(c, m, d) \in Nat /\ m.rem \in 0..1 /\ m.billed \in Nat
      /\ Halves(m, from, until) \in Nat
      /\ Halves(m, from, until) = m.rem + (until - from)
  BY LeftType, HalvesType DEF ConnectedMeter, Halves
<1>4. /\ 2 * seconds <= Halves(m, from, until)
      /\ Rest(m, from, until) = Halves(m, from, until) - 2 * seconds
  BY <1>3 DEF Seconds, Rest
<1> HIDE DEF p, seconds, charged
<1>5. CASE Dry(c, m, d, from, until)
  <2>1. p.rem = 0 /\ p.graceAt = DryAt(c, m, d, from)
    BY <1>1, <1>5, Zenon DEF Turned
  <2>2. p.graceAt # NoTime
    BY <1>5, <2>1, DryInside DEF NoTime
  <2>3. charged <= seconds
    BY <1>2, <1>3 DEF Charged, Least, charged, seconds
  <2> QED
    BY <1>2, <1>3, <1>4, <2>1, <2>2, <2>3 DEF p
<1>6. CASE ~Dry(c, m, d, from, until)
  <2>1. p.rem = Rest(m, from, until)
    BY <1>1, <1>6, Zenon DEF Turned
  <2>2. seconds <= Available(c, m, d)
    BY <1>6, PortionCharges DEF seconds
  <2>3. charged = seconds
    BY <1>2, <1>3, <2>2 DEF Charged, Least, charged, seconds
  <2> QED
    BY <1>2, <1>3, <1>4, <2>1, <2>3 DEF p
<1> QED
  BY <1>5, <1>6

\* A portion reserves more, never less, and keeps the switches and the growth.
LEMMA PortionGrows ==
    ASSUME TypeOK, NEW c \in Calls, NEW m \in ConnectedMeter, NEW d \in Days,
           NEW from \in Nat, NEW until \in Nat, from <= until
    PROVE  LET p == Portion(c, m, d, from, until)
           IN  /\ m.extra <= p.extra /\ m.billed <= p.billed
               /\ \A e \in Days : m.free[e] <= p.free[e]
               /\ p.conn = m.conn /\ p.muted = m.muted /\ p.growth = m.growth
<1> DEFINE p        == Portion(c, m, d, from, until)
           charged  == Charged(c, m, d, from, until)
           fromFree == FromFree(c, m, d, from, until)
<1>1. /\ charged \in Nat /\ fromFree \in Nat /\ fromFree <= charged
      /\ p.billed = m.billed + charged
      /\ p.extra = m.extra + (charged - fromFree)
      /\ p.free = [m.free EXCEPT ![d] = @ + fromFree]
  BY PortionFields DEF Turned
<1>2. m.extra \in Nat /\ m.billed \in Nat /\ m.free \in [Days -> Nat]
  BY DEF ConnectedMeter
<1>3. p.conn = m.conn /\ p.muted = m.muted /\ p.growth = m.growth
  <2>1. Turned(p, c, m, d, from, until)
    BY PortionFields
  <2> QED
    BY <2>1, Zenon DEF Turned
<1> HIDE DEF charged, fromFree
<1>4. m.extra <= p.extra /\ m.billed <= p.billed
  BY <1>1, <1>2
<1>5. \A e \in Days : m.free[e] <= p.free[e]
  BY <1>1, <1>2
<1> QED
  BY <1>3, <1>4, <1>5

\* Where a portion runs dry, both pools are spent, and not by a midnight that fills one.
LEMMA PortionSpends ==
    ASSUME TypeOK, NEW c \in Calls, NEW m \in ConnectedMeter, NEW d \in Days,
           NEW from \in Nat, NEW until \in Nat, from <= until,
           Portion(c, m, d, from, until).graceAt # NoTime
    PROVE  LET p == Portion(c, m, d, from, until)
           IN  /\ FreeLeft(c, p, d) = 0 /\ ExtraLeft(c, p) = 0
               /\ p.graceAt \in Nat /\ from <= p.graceAt /\ p.graceAt <= until
               /\ p.graceAt = NextMidnight(d) => ~(daily[c] > 0)
<1> DEFINE p        == Portion(c, m, d, from, until)
           seconds  == Seconds(m, from, until)
           charged  == Charged(c, m, d, from, until)
           fromFree == FromFree(c, m, d, from, until)
<1>1. /\ seconds \in Nat /\ charged \in Nat /\ fromFree \in Nat
      /\ p.extra = m.extra + (charged - fromFree)
      /\ p.free = [m.free EXCEPT ![d] = @ + fromFree]
      /\ Dry(c, m, d, from, until) => p.graceAt = DryAt(c, m, d, from)
      /\ ~Dry(c, m, d, from, until) => p.graceAt = NoTime
  <2>1. Turned(p, c, m, d, from, until)
    BY PortionFields
  <2>2. /\ seconds \in Nat /\ charged \in Nat /\ fromFree \in Nat
        /\ p.extra = m.extra + (charged - fromFree)
        /\ p.free = [m.free EXCEPT ![d] = @ + fromFree]
    BY <2>1 DEF Turned
  <2>3. /\ Dry(c, m, d, from, until) => p.graceAt = DryAt(c, m, d, from)
        /\ ~Dry(c, m, d, from, until) => p.graceAt = NoTime
    BY <2>1, Zenon DEF Turned
  <2> QED
    BY <2>2, <2>3, Zenon
<1>2. Dry(c, m, d, from, until) /\ p.graceAt = DryAt(c, m, d, from)
  BY <1>1
<1>3. /\ FreeLeft(c, m, d) \in Nat /\ ExtraLeft(c, m) \in Nat
      /\ Available(c, m, d) = FreeLeft(c, m, d) + ExtraLeft(c, m)
      /\ m.extra \in Nat /\ m.free \in [Days -> Nat] /\ m.rem \in 0..1
      /\ FreeOn(d, daily[c]) \in Nat /\ ExtraPool \in Nat
      /\ ledger[c].free[d] \in Nat /\ ledger[c].extra \in Nat
  <2>1. /\ FreeOn(d, daily[c]) \in Nat /\ ExtraPool \in Nat
        /\ ledger[c].free[d] \in Nat /\ ledger[c].extra \in Nat
    BY QuotaAssumption DEF TypeOK, FreeOn, ExtraPool, VoiceQuotaAccount, VoiceUsageLedger
  <2>2. m.extra \in Nat /\ m.free \in [Days -> Nat] /\ m.rem \in 0..1
    BY DEF ConnectedMeter
  <2> QED
    BY <2>1, <2>2, LeftType DEF Available
<1>4. /\ Available(c, m, d) <= seconds
      /\ ~(daily[c] > 0 /\ DryAt(c, m, d, from) = NextMidnight(d))
  BY <1>1, <1>2, <1>3 DEF Dry, Seconds
<1>5. charged = Available(c, m, d)
  BY <1>1, <1>3, <1>4 DEF Charged, Least
<1>6. fromFree = FreeLeft(c, m, d)
  BY <1>3, <1>5 DEF FromFree, Least
<1> HIDE DEF p, seconds
<1> HIDE DEF charged, fromFree
<1>7. /\ p.free[d] = m.free[d] + FreeLeft(c, m, d)
      /\ p.extra = m.extra + ExtraLeft(c, m)
  BY <1>1, <1>3, <1>5, <1>6
<1>8. FreeLeft(c, p, d) = 0 /\ ExtraLeft(c, p) = 0
  BY <1>3, <1>7 DEF FreeLeft, ExtraLeft, Surplus
<1>9. DryAt(c, m, d, from) \in Nat /\ from <= DryAt(c, m, d, from)
      /\ DryAt(c, m, d, from) <= until
  <2>1. from <= DryAt(c, m, d, from)
    BY <1>3 DEF DryAt, Surplus
  <2> QED
    BY <1>2, <2>1, DryInside
<1> QED
  BY <1>2, <1>4, <1>8, <1>9 DEF p

\* The first turn of the loop, up to midnight or to the present.
TurnEnd(m) == Least(now, NextMidnight(m.day))
FirstTurn(c, m) == Portion(c, m, m.day, m.last, TurnEnd(m))

\* Where a turn of the loop begins and ends.
LEMMA TurnTimes ==
    ASSUME TypeOK, ClockInv, NEW m \in ConnectedMeter, Bounded(m), Counting(m)
    PROVE  /\ m.last \in Nat /\ TurnEnd(m) \in Nat /\ midnight \in Nat /\ now \in Nat
           /\ m.day \in Days /\ day \in Days
           /\ m.last <= TurnEnd(m) /\ TurnEnd(m) <= NextMidnight(m.day)
           /\ midnight <= now /\ now <= NextMidnight(day)
           /\ m.day = day => TurnEnd(m) = now
           /\ m.day # day => TurnEnd(m) = midnight /\ m.last <= midnight /\ m.day < day
<1>1. /\ now \in Nat /\ midnight \in Nat /\ DayLen \in Nat /\ day \in Days /\ day \in Int
      /\ m.day \in Days /\ m.day \in Int
  BY QuotaAssumption DEF TypeOK, ConnectedMeter, Days
<1>2. m.last \in Nat
  BY DEF Counting, ConnectedMeter
<1>3. /\ m.last <= now /\ m.day <= day /\ (m.day < day => m.last <= midnight)
      /\ midnight <= now /\ now < midnight + DayLen
  BY DEF Bounded, ClockInv
<1>4. CASE m.day = day
  BY <1>1, <1>2, <1>3, <1>4 DEF TurnEnd, Least, NextMidnight
<1>5. CASE m.day # day
  BY <1>1, <1>2, <1>3, <1>5 DEF TurnEnd, Least, NextMidnight
<1> QED
  BY <1>4, <1>5

\* The loop leaves a meter that does not count alone, and turns once or twice else.
LEMMA ConnectedTurns ==
    ASSUME TypeOK, ClockInv, NEW c \in Calls, NEW m \in ConnectedMeter, Bounded(m)
    PROVE  /\ ~Counting(m) \/ now = m.last => Connected(c, m) = m
           /\ Counting(m) => FirstTurn(c, m) \in ConnectedMeter
           /\ Counting(m) /\ now # m.last =>
                 \/ /\ Connected(c, m) = FirstTurn(c, m)
                    /\ m.day = day \/ now = midnight \/ FirstTurn(c, m).graceAt # NoTime
                 \/ /\ Connected(c, m) = Portion(c, FirstTurn(c, m), day, midnight, now)
                    /\ m.day # day /\ FirstTurn(c, m).graceAt = NoTime
<1>1. ~Counting(m) \/ now = m.last => Connected(c, m) = m
  BY DEF Connected
<1>2. ASSUME Counting(m)
      PROVE  FirstTurn(c, m) \in ConnectedMeter
  <2>1. m.last \in Nat /\ TurnEnd(m) \in Nat /\ m.last <= TurnEnd(m) /\ m.day \in Days
    BY <1>2, TurnTimes
  <2> QED
    BY <2>1, PortionBills DEF FirstTurn
<1>3. ASSUME Counting(m), now # m.last
      PROVE  \/ /\ Connected(c, m) = FirstTurn(c, m)
                /\ m.day = day \/ now = midnight \/ FirstTurn(c, m).graceAt # NoTime
             \/ /\ Connected(c, m) = Portion(c, FirstTurn(c, m), day, midnight, now)
                /\ m.day # day /\ FirstTurn(c, m).graceAt = NoTime
  <2>1. Connected(c, m)
          = IF m.day = day \/ now = midnight \/ FirstTurn(c, m).graceAt # NoTime
            THEN FirstTurn(c, m)
            ELSE Portion(c, FirstTurn(c, m), day, midnight, now)
    BY <1>3 DEF Connected, FirstTurn, TurnEnd
  <2>2. CASE m.day = day \/ now = midnight \/ FirstTurn(c, m).graceAt # NoTime
    BY <2>1, <2>2
  <2>3. CASE ~(m.day = day \/ now = midnight \/ FirstTurn(c, m).graceAt # NoTime)
    BY <2>1, <2>3
  <2> QED
    BY <2>2, <2>3
<1> QED
  BY <1>1, <1>2, <1>3

\* The time that an observation finds.
Talk(m) == IF Counting(m) THEN now - m.last ELSE 0

\* Over midnight or not, the loop bills the talk, or runs dry and bills less.
LEMMA ConnectedTime ==
    ASSUME TypeOK, ClockInv, NEW c \in Calls, NEW m \in ConnectedMeter, Bounded(m)
    PROVE  LET k == Connected(c, m)
           IN  /\ k.graceAt = NoTime =>
                     2 * k.billed + k.rem = 2 * m.billed + m.rem + Talk(m)
               /\ 2 * k.billed + k.rem <= 2 * m.billed + m.rem + Talk(m)
<1> DEFINE k == Connected(c, m)
           f == FirstTurn(c, m)
<1>1. /\ m.billed \in Nat /\ m.rem \in 0..1 /\ now \in Nat
      /\ m.last \in Int
  BY DEF ConnectedMeter, TypeOK, NoTime
<1>2. CASE ~Counting(m) \/ now = m.last
  <2>1. k = m
    BY <1>2, ConnectedTurns
  <2>2. Talk(m) = 0
    BY <1>1, <1>2 DEF Talk
  <2> HIDE DEF k
  <2> QED
    BY <1>1, <2>1, <2>2 DEF k
<1>3. CASE Counting(m) /\ now # m.last
  <2>1. /\ m.last \in Nat /\ TurnEnd(m) \in Nat /\ midnight \in Nat
        /\ m.day \in Days /\ day \in Days
        /\ m.last <= TurnEnd(m) /\ TurnEnd(m) <= NextMidnight(m.day)
        /\ midnight <= now /\ now <= NextMidnight(day)
        /\ m.day = day => TurnEnd(m) = now
        /\ m.day # day => TurnEnd(m) = midnight
    BY <1>3, TurnTimes
  <2>2. Talk(m) = now - m.last
    BY <1>3 DEF Talk
  <2>3. /\ f.graceAt = NoTime =>
              2 * f.billed + f.rem = 2 * m.billed + m.rem + (TurnEnd(m) - m.last)
        /\ 2 * f.billed + f.rem <= 2 * m.billed + m.rem + (TurnEnd(m) - m.last)
    BY <2>1, PortionTime DEF FirstTurn
  <2>4. f \in ConnectedMeter
    BY <1>3, ConnectedTurns
  <2>5. f.billed \in Nat /\ f.rem \in 0..1
    BY <2>4 DEF ConnectedMeter
  <2> HIDE DEF f
  <2>6. CASE k = f /\ (m.day = day \/ now = midnight \/ f.graceAt # NoTime)
    <3> HIDE DEF k
    <3> QED
      BY <1>1, <2>1, <2>2, <2>3, <2>5, <2>6 DEF k
  <2>7. CASE k = Portion(c, f, day, midnight, now) /\ m.day # day /\ f.graceAt = NoTime
    <3>1. /\ k.graceAt = NoTime =>
                2 * k.billed + k.rem = 2 * f.billed + f.rem + (now - midnight)
          /\ 2 * k.billed + k.rem <= 2 * f.billed + f.rem + (now - midnight)
      BY <1>1, <2>1, <2>4, <2>7, PortionTime
    <3>2. k \in ConnectedMeter
      BY ConnectedType
    <3>3. k.billed \in Nat /\ k.rem \in 0..1
      BY <3>2 DEF ConnectedMeter
    <3> HIDE DEF k
    <3> QED
      BY <1>1, <2>1, <2>2, <2>3, <2>5, <2>7, <3>1, <3>3 DEF k
  <2> QED
    BY <1>3, <2>6, <2>7, ConnectedTurns DEF f
<1> QED
  BY <1>2, <1>3

\* The loop only adds, and leaves the switches and the growth alone.
LEMMA ConnectedGrows ==
    ASSUME TypeOK, ClockInv, NEW c \in Calls, NEW m \in ConnectedMeter, Bounded(m)
    PROVE  LET k == Connected(c, m)
           IN  /\ m.extra <= k.extra /\ \A d \in Days : m.free[d] <= k.free[d]
               /\ k.conn = m.conn /\ k.muted = m.muted /\ k.growth = m.growth
<1> DEFINE k == Connected(c, m)
           f == FirstTurn(c, m)
<1>1. m.extra \in Nat /\ m.free \in [Days -> Nat]
  BY DEF ConnectedMeter
<1>2. CASE ~Counting(m) \/ now = m.last
  <2>1. k = m
    BY <1>2, ConnectedTurns
  <2> QED
    BY <1>1, <2>1
<1>3. CASE Counting(m) /\ now # m.last
  <2>1. /\ m.last \in Nat /\ TurnEnd(m) \in Nat /\ midnight \in Nat /\ now \in Nat
        /\ m.day \in Days /\ day \in Days /\ m.last <= TurnEnd(m) /\ midnight <= now
    BY <1>3, TurnTimes
  <2>2. /\ m.extra <= f.extra /\ \A d \in Days : m.free[d] <= f.free[d]
        /\ f.conn = m.conn /\ f.muted = m.muted /\ f.growth = m.growth
    BY <2>1, PortionGrows DEF FirstTurn
  <2>3. f \in ConnectedMeter
    BY <1>3, ConnectedTurns
  <2>4. f.extra \in Nat /\ f.free \in [Days -> Nat]
    BY <2>3 DEF ConnectedMeter
  <2> HIDE DEF f
  <2>5. CASE k = f
    BY <2>2, <2>5
  <2>6. CASE k = Portion(c, f, day, midnight, now)
    <3>1. /\ f.extra <= k.extra /\ \A d \in Days : f.free[d] <= k.free[d]
          /\ k.conn = f.conn /\ k.muted = f.muted /\ k.growth = f.growth
      BY <2>1, <2>3, <2>6, PortionGrows
    <3>2. k \in ConnectedMeter
      BY ConnectedType
    <3>3. k.extra \in Nat /\ k.free \in [Days -> Nat]
      BY <3>2 DEF ConnectedMeter
    <3> HIDE DEF k
    <3> QED
      BY <1>1, <2>2, <2>4, <3>1, <3>3 DEF k
  <2> QED
    BY <1>3, <2>5, <2>6, ConnectedTurns DEF f
<1> QED
  BY <1>2, <1>3

\* The grace period leaves what was billed alone.
LEMMA GracedFields ==
    ASSUME NEW k \in ConnectedMeter
    PROVE  LET g == Graced(k)
           IN  /\ g.graceAt = k.graceAt /\ g.billed = k.billed /\ g.rem = k.rem
               /\ g.free = k.free /\ g.extra = k.extra
<1>1. CASE k.graceAt = NoTime
  BY <1>1 DEF Graced
<1>2. CASE k.graceAt # NoTime
  <2> DEFINE total  == Least(GraceLimit, (now - k.graceAt) \div 2)
             cursor == k.graceAt + 2 * k.grace
             left   == total - k.grace
             old    == Least(left, (midnight - cursor + 1) \div 2)
             dates  == k.dates \cup (IF left > 0 /\ cursor < midnight THEN {day - 1} ELSE {})
                         \cup (IF left > 0 /\ (cursor >= midnight \/ left > old)
                               THEN {day} ELSE {})
  <2>1. Graced(k) = [k EXCEPT !.grace = total, !.dates = dates]
    BY <1>2 DEF Graced
  <2> HIDE DEF total, dates
  <2> QED
    BY <2>1 DEF ConnectedMeter
<1> QED
  BY <1>1, <1>2

\* The fields of a meter after an observation.
LEMMA ObservedFields ==
    ASSUME TypeOK, ClockInv, MeterInv, NEW c \in Calls, NEW connected, NEW muted
    PROVE  LET o == observed(c, connected, muted)
               k == Connected(c, meter[c])
           IN  /\ o.graceAt = k.graceAt /\ o.billed = k.billed /\ o.rem = k.rem
               /\ o.free = k.free /\ o.extra = k.extra
               /\ o.last = now /\ o.day = day
               /\ o.conn = connected /\ o.muted = muted
               /\ o.growth = Grown(meter[c], k)
<1> DEFINE k == Connected(c, meter[c])
           g == Graced(k)
           growth == Grown(meter[c], k)
<1>1. k \in ConnectedMeter /\ k.graceAt <= now
  BY ConnectedType DEF TypeOK, MeterInv
<1>2. g \in ConnectedMeter
  BY <1>1, GracedType
<1>3. /\ g.graceAt = k.graceAt /\ g.billed = k.billed /\ g.rem = k.rem
      /\ g.free = k.free /\ g.extra = k.extra
  BY <1>1, GracedFields
<1>4. observed(c, connected, muted)
        = [g EXCEPT !.growth = growth, !.last = now, !.day = day,
                    !.conn = connected, !.muted = muted]
  BY DEF observed
<1> HIDE DEF k, g, growth
<1>5. LET o == observed(c, connected, muted)
      IN  /\ o.graceAt = g.graceAt /\ o.billed = g.billed /\ o.rem = g.rem
          /\ o.free = g.free /\ o.extra = g.extra
          /\ o.last = now /\ o.day = day
          /\ o.conn = connected /\ o.muted = muted /\ o.growth = growth
  BY <1>2, <1>4 DEF ConnectedMeter
<1> QED
  BY <1>3, <1>5 DEF k, growth

\* Speech that is paid for: a meter that counts grows by what it may have heard, all of
\* it if it did not run dry.
LEMMA GrownTime ==
    ASSUME TypeOK, NEW m \in ConnectedMeter, NEW k \in ConnectedMeter,
           m.last <= now, k.graceAt <= now
    PROVE  LET heard == IF m.last # NoTime /\ m.conn /\ ~m.muted THEN now - m.last ELSE 0
           IN  /\ Grown(m, k) <= m.growth + heard
               /\ k.graceAt = NoTime => Grown(m, k) = m.growth + heard
<1>1. /\ m.growth \in Nat /\ m.last \in Int /\ now \in Nat /\ k.graceAt \in Int
  BY DEF ConnectedMeter, TypeOK, NoTime
<1>2. CASE ~(m.last # NoTime /\ m.conn /\ ~m.muted)
  BY <1>1, <1>2 DEF Grown
<1>3. CASE m.last # NoTime /\ m.conn /\ ~m.muted
  <2>1. CASE k.graceAt = NoTime
    <3>1. Grown(m, k) = m.growth + Surplus(now, m.last)
      BY <1>3, <2>1 DEF Grown
    <3> QED
      BY <1>1, <1>3, <2>1, <3>1 DEF Surplus
  <2>2. CASE k.graceAt # NoTime
    <3>1. Grown(m, k) = m.growth + Surplus(Least(now, k.graceAt), m.last)
      BY <1>3, <2>2 DEF Grown
    <3> QED
      BY <1>1, <1>3, <2>2, <3>1 DEF Surplus, Least
  <2> QED
    BY <2>1, <2>2
<1> QED
  BY <1>2, <1>3

\* A meter enters its grace period where both pools are spent, on the date of that instant.
LEMMA ObservedSpends ==
    ASSUME TypeOK, ClockInv, MeterInv, NEW c \in Calls, NEW connected, NEW muted,
           ~ObserveRefused(c), meter[c].graceAt = NoTime,
           day <= meter[c].day + 1, meter[c].last # NoTime,
           meter[c].day = day => midnight <= meter[c].last,
           observed(c, connected, muted).graceAt # NoTime
    PROVE  LET o == observed(c, connected, muted)
               d == IF o.graceAt < midnight THEN day - 1 ELSE day
           IN  Available(c, o, d) = 0
<1> DEFINE m == meter[c]
           k == Connected(c, m)
           f == FirstTurn(c, m)
           o == observed(c, connected, muted)
           d == IF o.graceAt < midnight THEN day - 1 ELSE day
<1>1. m \in ConnectedMeter /\ Bounded(m)
  BY DEF TypeOK, MeterInv
<1>2. o.graceAt = k.graceAt /\ o.free = k.free /\ o.extra = k.extra
  BY ObservedFields
<1>3. k \in ConnectedMeter /\ k.graceAt # NoTime
  BY <1>1, <1>2, ConnectedType
<1>4. Counting(m) /\ now # m.last
  <2>1. k # m
    BY <1>3
  <2> QED
    BY <1>1, <2>1, ConnectedTurns
<1>5. /\ m.last \in Nat /\ TurnEnd(m) \in Nat /\ midnight \in Nat /\ now \in Nat
      /\ m.day \in Days /\ day \in Days
      /\ m.last <= TurnEnd(m) /\ TurnEnd(m) <= NextMidnight(m.day)
      /\ midnight <= now
      /\ m.day # day => TurnEnd(m) = midnight /\ m.last <= midnight /\ m.day < day
  BY <1>1, <1>4, TurnTimes
<1>6. f \in ConnectedMeter
  BY <1>1, <1>4, ConnectedTurns
<1>7. \A e \in Days : Available(c, o, e) = FreeLeft(c, k, e) + ExtraLeft(c, k)
  BY <1>2 DEF Available, FreeLeft, ExtraLeft
<1>8. ASSUME k = f
      PROVE  /\ FreeLeft(c, k, m.day) = 0 /\ ExtraLeft(c, k) = 0
             /\ k.graceAt \in Nat /\ m.last <= k.graceAt /\ k.graceAt <= TurnEnd(m)
             /\ k.graceAt = NextMidnight(m.day) => ~(daily[c] > 0)
  <2>1. Portion(c, m, m.day, m.last, TurnEnd(m)).graceAt # NoTime
    BY <1>3, <1>8 DEF FirstTurn
  <2>2. k = Portion(c, m, m.day, m.last, TurnEnd(m))
    BY <1>8 DEF FirstTurn
  <2> HIDE DEF k, f
  <2> QED
    BY <1>1, <1>5, <2>1, <2>2, PortionSpends
<1> HIDE DEF k, f, o, m
<1>9. CASE k = f /\ m.day = day
  <2>1. d = day
    BY <1>2, <1>5, <1>8, <1>9 DEF m
  <2> HIDE DEF d
  <2> QED
    BY <1>5, <1>7, <1>8, <1>9, <2>1 DEF d, o
<1>10. CASE k = f /\ m.day # day
  <2>1. m.day = day - 1
    BY <1>5, <1>10, QuotaAssumption DEF m, Days
  <2>2. CASE k.graceAt < midnight
    <3>1. d = m.day
      BY <1>2, <2>1, <2>2
    <3> HIDE DEF d
    <3> QED
      BY <1>5, <1>7, <1>8, <1>10, <3>1 DEF d, o
  <2>3. CASE ~(k.graceAt < midnight)
    <3>1. d = day
      BY <1>2, <2>3
    <3>2. k.graceAt = midnight /\ NextMidnight(m.day) = midnight
      BY <1>5, <1>8, <1>10, <2>3 DEF NextMidnight
    <3>3. daily[c] = 0
      BY <1>8, <1>10, <3>2 DEF TypeOK
    <3>4. FreeLeft(c, k, day) = 0
      <4>1. now > m.last
        BY <1>1, <1>4, <1>5 DEF Bounded
      <4>2. ~ClockReversed(m.day) /\ ~(m.free[day] < ledger[c].free[day])
        BY <1>4, <4>1 DEF ObserveRefused, m
      <4>3. FreeOn(day, daily[c]) = 0
        BY <1>5, <1>10, <3>3, <4>2 DEF FreeOn, ClockReversed
      <4>4. /\ ledger[c].free[day] \in Nat /\ m.free[day] \in Nat /\ k.free[day] \in Nat
        BY <1>1, <1>3, <1>5 DEF TypeOK, VoiceUsageLedger, ConnectedMeter
      <4>5. m.free[day] <= k.free[day]
        BY <1>1, <1>5, ConnectedGrows DEF k
      <4> QED
        BY <4>2, <4>3, <4>4, <4>5 DEF FreeLeft, Surplus
    <3> HIDE DEF d
    <3> QED
      BY <1>5, <1>7, <1>8, <1>10, <3>1, <3>4 DEF d, o
  <2> QED
    BY <2>2, <2>3
<1>11. CASE k = Portion(c, f, day, midnight, now)
  <2>1. /\ FreeLeft(c, k, day) = 0 /\ ExtraLeft(c, k) = 0
        /\ k.graceAt \in Nat /\ midnight <= k.graceAt
    BY <1>3, <1>5, <1>6, <1>11, PortionSpends
  <2>2. d = day
    BY <1>2, <1>5, <2>1
  <2> HIDE DEF d
  <2> QED
    BY <1>5, <1>7, <2>1, <2>2 DEF d, o
<1> QED
  BY <1>1, <1>4, <1>9, <1>10, <1>11, ConnectedTurns DEF k, f

-----------------------------------------------------------------------------
(* Every step keeps meters and clock together. *)

\* Speech that an observation of this meter finds.
Heard(m) == IF m.last # NoTime /\ m.conn /\ ~m.muted THEN now - m.last ELSE 0

\* A meter whose account of the past is complete.
Accounted(c, m) ==
    /\ Within(c, m)
    /\ 2 * m.billed <= talked[c]
    /\ m.graceAt = NoTime => talked[c] = 2 * m.billed + m.rem + Talk(m)
    /\ m.growth <= spoken[c] /\ (m.graceAt = NoTime => spoken[c] = m.growth + Heard(m))
    /\ m.growth + Heard(m) <= spoken[c]

\* An observation that does not raise meets such a meter.
LEMMA TimedAccounts ==
    ASSUME QuotaInv, NEW c \in Calls, gate[c] \in {"run", "stopped"}, Timed(c),
           ~ObserveRefused(c)
    PROVE  Accounted(c, meter[c]) /\ ~Raised(c)
<1> DEFINE m == meter[c]
<1>1. /\ m \in ConnectedMeter /\ m.last # NoTime /\ Bounded(m)
      /\ now \in Nat /\ talked[c] \in Nat /\ spoken[c] \in Nat
  BY DEF QuotaInv, TypeOK, MeterInv
<1>2. /\ m.last \in Int /\ m.last <= now /\ m.billed \in Nat /\ m.rem \in 0..1 /\ m.growth \in Nat
      /\ m.conn \in BOOLEAN /\ m.muted \in BOOLEAN
  BY <1>1 DEF ConnectedMeter, NoTime, Bounded
<1>3. ~Raised(c)
  <2> SUFFICES ASSUME Raised(c) PROVE FALSE
    OBVIOUS
  <2>1. m.conn /\ m.graceAt = NoTime /\ m.last < now /\ ClockReversed(m.day)
    BY DEF Timed, Raised
  <2>2. Counting(m) /\ now > m.last
    BY <1>1, <1>2, <2>1 DEF Counting
  <2> QED
    BY <2>1, <2>2 DEF ObserveRefused
<1>4. m.graceAt = NoTime => Talk(m) = Pending(c)
  BY <1>1, <1>3 DEF Talk, Counting, Pending, Raised
<1>5. Heard(m) = PendingSpeech(c) /\ Heard(m) \in Nat
  BY <1>1, <1>2, <1>3 DEF Heard, PendingSpeech, Pending, Raised
<1>6. /\ Within(c, m) /\ 2 * m.billed <= talked[c]
      /\ m.graceAt = NoTime => talked[c] = 2 * m.billed + m.rem + Pending(c)
      /\ m.growth + PendingSpeech(c) <= spoken[c]
      /\ m.graceAt = NoTime => spoken[c] = m.growth + PendingSpeech(c)
  BY <1>3 DEF Timed
<1> HIDE DEF m
<1>7. m.growth <= spoken[c]
  BY <1>1, <1>2, <1>5, <1>6
<1>8. Accounted(c, m)
  BY <1>4, <1>5, <1>6, <1>7 DEF Accounted
<1> QED
  BY <1>3, <1>8 DEF m

\* A new meter has nothing to account for.
LEMMA NewMeterAccounts ==
    ASSUME QuotaInv, NEW c \in Calls, gate[c] = "none", TimeOf(c), Unsettled(c)
    PROVE  Accounted(c, meter[c])
<1>1. meter[c] = NewMeter /\ ckpt[c] = NewMeter /\ talked[c] = 0 /\ spoken[c] = 0
  BY DEF TimeOf
<1>2. /\ NewMeter.extra = 0 /\ NewMeter.billed = 0 /\ NewMeter.rem = 0 /\ NewMeter.growth = 0
      /\ NewMeter.last = NoTime /\ \A d \in Days : NewMeter.free[d] = 0
  BY DEF NewMeter, NothingUsed
<1>3. Within(c, NewMeter)
  BY <1>1, <1>2 DEF Within, Unsettled
<1>4. Talk(NewMeter) = 0 /\ Heard(NewMeter) = 0
  BY <1>2 DEF Talk, Counting, Heard
<1> QED
  BY <1>1, <1>2, <1>3, <1>4 DEF Accounted

\* What such a meter is after the observation.
LEMMA ObservedTimes ==
    ASSUME QuotaInv, NEW c \in Calls, Accounted(c, meter[c]),
           NEW connected \in BOOLEAN, NEW muted \in BOOLEAN
    PROVE  LET o == observed(c, connected, muted)
           IN  /\ Within(c, o)
               /\ 2 * o.billed <= talked[c]
               /\ o.graceAt = NoTime => talked[c] = 2 * o.billed + o.rem
               /\ o.growth <= spoken[c]
               /\ o.graceAt = NoTime => spoken[c] = o.growth
               /\ o \in ConnectedMeter
<1> DEFINE m == meter[c]
           k == Connected(c, m)
           o == observed(c, connected, muted)
<1>1. /\ TypeOK /\ ClockInv /\ MeterInv
      /\ m \in ConnectedMeter /\ Bounded(m)
      /\ now \in Nat /\ talked[c] \in Nat /\ spoken[c] \in Nat
  BY DEF QuotaInv, TypeOK, MeterInv
<1>2. /\ o.graceAt = k.graceAt /\ o.billed = k.billed /\ o.rem = k.rem
      /\ o.free = k.free /\ o.extra = k.extra /\ o.growth = Grown(m, k)
  BY <1>1, ObservedFields
<1>3. k \in ConnectedMeter /\ k.graceAt <= now
  BY <1>1, ConnectedType
<1>4. o \in ConnectedMeter
  BY <1>1, ObservedType
<1>5. m.graceAt # NoTime => k = m
  BY <1>1, ConnectedTurns DEF Counting
<1>6. /\ m.billed \in Nat /\ m.rem \in 0..1 /\ k.billed \in Nat /\ k.rem \in 0..1
      /\ m.growth \in Nat /\ m.last \in Int /\ m.last <= now
  BY <1>1, <1>3 DEF ConnectedMeter, Bounded, NoTime
<1>7. /\ Within(c, m) /\ 2 * m.billed <= talked[c]
      /\ m.graceAt = NoTime => talked[c] = 2 * m.billed + m.rem + Talk(m)
      /\ m.growth + Heard(m) <= spoken[c]
      /\ m.graceAt = NoTime => spoken[c] = m.growth + Heard(m)
  BY DEF Accounted
<1>8. /\ k.graceAt = NoTime => 2 * k.billed + k.rem = 2 * m.billed + m.rem + Talk(m)
      /\ 2 * k.billed + k.rem <= 2 * m.billed + m.rem + Talk(m)
  BY <1>1, ConnectedTime
<1>9. /\ Grown(m, k) <= m.growth + Heard(m)
      /\ k.graceAt = NoTime => Grown(m, k) = m.growth + Heard(m)
  BY <1>1, <1>3, <1>6, GrownTime DEF Heard
<1>10. Within(c, o)
  <2>1. m.extra <= k.extra /\ \A d \in Days : m.free[d] <= k.free[d]
    BY <1>1, ConnectedGrows
  <2>2. /\ m.extra \in Nat /\ k.extra \in Nat /\ ckpt[c].extra \in Nat /\ ledger[c].extra \in Nat
        /\ \A d \in Days : /\ m.free[d] \in Nat /\ k.free[d] \in Nat
                           /\ ckpt[c].free[d] \in Nat /\ ledger[c].free[d] \in Nat
    BY <1>1, <1>3 DEF TypeOK, ConnectedMeter, VoiceUsageLedger
  <2> HIDE DEF m, k, o
  <2> QED
    BY <1>2, <1>7, <2>1, <2>2 DEF Within
<1>11. Talk(m) \in Int /\ Heard(m) \in Int /\ Grown(m, k) \in Nat
  <2>1. o.growth \in Nat
    BY <1>4 DEF ConnectedMeter
  <2> QED
    BY <1>1, <1>2, <1>6, <2>1 DEF Talk, Heard
<1> HIDE DEF m, k, o
<1>12. 2 * o.billed <= talked[c] /\ (o.graceAt = NoTime => talked[c] = 2 * o.billed + o.rem)
  <2>1. CASE m.graceAt = NoTime
    BY <1>1, <1>2, <1>6, <1>7, <1>8, <1>11, <2>1
  <2>2. CASE m.graceAt # NoTime
    BY <1>2, <1>5, <1>7, <2>2
  <2> QED
    BY <2>1, <2>2
<1>13. o.growth <= spoken[c] /\ (o.graceAt = NoTime => spoken[c] = o.growth)
  <2>1. o.growth <= spoken[c]
    BY <1>1, <1>2, <1>6, <1>7, <1>9, <1>11
  <2>2. ASSUME o.graceAt = NoTime
        PROVE  spoken[c] = o.growth
    <3>1. m.graceAt = NoTime
      BY <1>2, <1>5, <2>2
    <3> QED
      BY <1>2, <1>7, <1>9, <2>2, <3>1
  <2> QED
    BY <2>1, <2>2
<1> QED
  BY <1>4, <1>10, <1>12, <1>13 DEF o

\* Whoever is not touched stays accounted for, while the account only moves on.
LEMMA TimeFrame ==
    ASSUME TypeOK, TypeOK', NEW b \in Calls, TimeOf(b), UNCHANGED clockVars,
           gate'[b] = gate[b], meter'[b] = meter[b], ckpt'[b] = ckpt[b], ledger'[b] = ledger[b],
           talked'[b] = talked[b], spoken'[b] = spoken[b],
           account.open => account'.open /\ account.day <= account'.day
    PROVE  TimeOf(b)'
<1>1. meter[b].day \in Int /\ account.day \in Int /\ account'.day \in Int
  BY QuotaAssumption DEF TypeOK, ConnectedMeter, VoiceQuotaAccount, Days
<1>2. ClockReversed(meter[b].day) => ClockReversed(meter[b].day)'
  BY <1>1 DEF ClockReversed
<1>3. /\ Pending(b)' = Pending(b) /\ PendingSpeech(b)' = PendingSpeech(b)
      /\ Raised(b)' <=> Raised(b)
  BY DEF Pending, PendingSpeech, Raised, clockVars
<1>4. Within(b, meter[b])' <=> Within(b, meter[b])
  BY DEF Within
<1>5. ASSUME Timed(b)
      PROVE  Timed(b)'
  <2>1. Raised(b) => ClockReversed(meter[b].day)'
    BY <1>2, <1>5 DEF Timed
  <2> QED
    BY <1>3, <1>4, <1>5, <2>1 DEF Timed, clockVars
<1> QED
  BY <1>5 DEF TimeOf

\* A step of one gateway.
LEMMA GateTime ==
    ASSUME QuotaInv, QuotaInv', TimeInv, NEW c \in Calls,
           UNCHANGED <<clockVars, moneyVars, history>>,
           \A b \in Calls \ {c} :
              gate'[b] = gate[b] /\ meter'[b] = meter[b] /\ ckpt'[b] = ckpt[b],
           TimeOf(c)'
    PROVE  TimeInv'
<1>1. TypeOK /\ TypeOK'
  BY DEF QuotaInv
<1>2. account' = account /\ ledger' = ledger /\ talked' = talked /\ spoken' = spoken
      /\ account.day \in Int
  BY QuotaAssumption DEF moneyVars, history, QuotaInv, TypeOK, VoiceQuotaAccount, Days
<1>3. ASSUME NEW b \in Calls, b # c
      PROVE  TimeOf(b)'
  BY <1>1, <1>2, <1>3, TimeFrame DEF TimeInv
<1> QED
  BY <1>3 DEF TimeInv

\* The seconds of a meter and what is left of its time are numbers.
LEMMA TimeTypes ==
    ASSUME QuotaInv, NEW c \in Calls
    PROVE  /\ now \in Nat /\ day \in Int /\ midnight \in Nat /\ midnight <= now
           /\ talked[c] \in Nat /\ spoken[c] \in Nat
           /\ meter[c] \in ConnectedMeter /\ ckpt[c] \in ConnectedMeter
           /\ meter[c].billed \in Nat /\ meter[c].rem \in Nat /\ meter[c].growth \in Nat
           /\ meter[c].last <= now /\ meter[c].last \in Int
           /\ Pending(c) \in Nat /\ PendingSpeech(c) \in Nat
<1>1. /\ now \in Nat /\ day \in Int /\ midnight \in Nat /\ midnight <= now
      /\ talked[c] \in Nat /\ spoken[c] \in Nat
      /\ meter[c] \in ConnectedMeter /\ ckpt[c] \in ConnectedMeter
  BY QuotaAssumption DEF QuotaInv, TypeOK, ClockInv, Days
<1>2. /\ meter[c].billed \in Nat /\ meter[c].rem \in Nat /\ meter[c].growth \in Nat
      /\ meter[c].last <= now /\ meter[c].last \in Int
  BY <1>1 DEF ConnectedMeter, QuotaInv, MeterInv, Bounded, NoTime
<1>3. Pending(c) \in Nat /\ PendingSpeech(c) \in Nat
  BY <1>1, <1>2 DEF Pending, PendingSpeech
<1> QED
  BY <1>1, <1>2, <1>3

\* An observation starts the account of the next one.
LEMMA ObserveTime ==
    ASSUME QuotaInv, QuotaInv', TimeInv, NEW c \in Calls, Accounted(c, meter[c]),
           NEW connected \in BOOLEAN, NEW muted \in BOOLEAN,
           gate'[c] \in {"run", "stopped"}, gate'[c] = "stopped" => ~connected,
           \A b \in Calls \ {c} : gate'[b] = gate[b],
           meter' = [meter EXCEPT ![c] = observed(c, connected, muted)],
           UNCHANGED <<clockVars, moneyVars, history, ckpt>>
    PROVE  TimeInv'
<1> DEFINE o == observed(c, connected, muted)
<1>1. /\ Within(c, o) /\ 2 * o.billed <= talked[c]
      /\ o.graceAt = NoTime => talked[c] = 2 * o.billed + o.rem
      /\ o.growth <= spoken[c] /\ (o.graceAt = NoTime => spoken[c] = o.growth)
      /\ o \in ConnectedMeter
  BY ObservedTimes
<1>2. o.last = now /\ o.day = day /\ o.conn = connected /\ o.muted = muted
  BY ObservedFields DEF QuotaInv
<1>3. /\ now \in Nat /\ day \in Int /\ midnight <= now
  BY TimeTypes
<1>4. meter'[c] = o /\ \A b \in Calls \ {c} : meter'[b] = meter[b]
  BY DEF QuotaInv, TypeOK
<1>5. o.growth \in Nat /\ o.billed \in Nat /\ o.rem \in Nat
  BY <1>1 DEF ConnectedMeter
<1> HIDE DEF o
<1>6. /\ now' = now /\ day' = day /\ midnight' = midnight /\ talked' = talked /\ spoken' = spoken
      /\ ckpt' = ckpt /\ ledger' = ledger
  BY DEF clockVars, moneyVars, history
<1>7. ~Raised(c)' /\ Pending(c)' = 0 /\ PendingSpeech(c)' = 0
  BY <1>2, <1>3, <1>4, <1>6 DEF Raised, Pending, PendingSpeech
<1>8. Within(c, meter[c])'
  BY <1>1, <1>4, <1>6 DEF Within
<1>9. Timed(c)'
  BY <1>1, <1>2, <1>3, <1>4, <1>5, <1>6, <1>7, <1>8 DEF Timed
<1>10. TimeOf(c)'
  BY <1>6, <1>9 DEF TimeInv, TimeOf
<1> QED
  BY <1>4, <1>6, <1>10, GateTime

\* Every step of a gateway keeps meters and clock together.
LEMMA GatewayTime ==
    ASSUME QuotaInv, QuotaInv', TimeInv, NEW c \in Calls
    PROVE  /\ Start(c) => TimeInv'
           /\ \A connected \in BOOLEAN, muted \in BOOLEAN :
                 Observe(c, connected, muted) => TimeInv'
           /\ Stop(c) => TimeInv'
           /\ ObserveStopped(c) => TimeInv'
<1> USE DEF GateUnchanged
<1>1. /\ gate \in [Calls -> {"none", "run", "stopped", "gone"}]
      /\ meter[c].muted \in BOOLEAN
  BY DEF QuotaInv, TypeOK, ConnectedMeter
<1>2. TimeOf(c)
  BY DEF TimeInv
<1>3. ASSUME Start(c) PROVE TimeInv'
  <2>1. Unsettled(c)
    BY <1>3 DEF Start, QuotaInv, CallInv
  <2>2. Accounted(c, meter[c])
    BY <1>2, <1>3, <2>1, NewMeterAccounts DEF Start
  <2>3. /\ gate'[c] = "run" /\ \A b \in Calls \ {c} : gate'[b] = gate[b]
        /\ meter' = [meter EXCEPT ![c] = observed(c, FALSE, FALSE)]
        /\ UNCHANGED <<clockVars, moneyVars, history, ckpt>>
    BY <1>1, <1>3 DEF Start
  <2> QED
    BY <2>2, <2>3, ObserveTime
<1>4. ASSUME NEW connected \in BOOLEAN, NEW muted \in BOOLEAN, Observe(c, connected, muted)
      PROVE  TimeInv'
  <2>1. gate[c] = "run" /\ ~ObserveRefused(c) /\ gate' = gate
    BY <1>4 DEF Observe
  <2>2. Accounted(c, meter[c])
    BY <1>2, <2>1, TimedAccounts DEF TimeOf
  <2>3. /\ meter' = [meter EXCEPT ![c] = observed(c, connected, muted)]
        /\ UNCHANGED <<clockVars, moneyVars, history, ckpt>>
    BY <1>4 DEF Observe
  <2> QED
    BY <2>1, <2>2, <2>3, ObserveTime
<1>5. ASSUME Stop(c) PROVE TimeInv'
  <2>1. gate[c] = "run" /\ ~ObserveRefused(c)
    BY <1>5 DEF Stop
  <2>2. Accounted(c, meter[c])
    BY <1>2, <2>1, TimedAccounts DEF TimeOf
  <2>3. /\ gate'[c] = "stopped" /\ \A b \in Calls \ {c} : gate'[b] = gate[b]
        /\ meter' = [meter EXCEPT ![c] = observed(c, FALSE, meter[c].muted)]
        /\ UNCHANGED <<clockVars, moneyVars, history, ckpt>>
    BY <1>1, <1>5 DEF Stop
  <2> QED
    BY <1>1, <2>2, <2>3, ObserveTime
<1>6. ASSUME ObserveStopped(c) PROVE TimeInv'
  <2>1. gate[c] = "stopped" /\ ~ObserveRefused(c) /\ gate' = gate
    BY <1>6 DEF ObserveStopped
  <2>2. Accounted(c, meter[c])
    BY <1>2, <2>1, TimedAccounts DEF TimeOf
  <2>3. /\ meter' = [meter EXCEPT ![c] = observed(c, FALSE, meter[c].muted)]
        /\ UNCHANGED <<clockVars, moneyVars, history, ckpt>>
    BY <1>6 DEF ObserveStopped
  <2> QED
    BY <1>1, <2>1, <2>2, <2>3, ObserveTime
<1> QED
  BY <1>3, <1>4, <1>5, <1>6

\* A gateway that connects, raises, saves or dies leaves its meter as it is or forgets it.
LEMMA RestOfGatewayTime ==
    ASSUME QuotaInv, QuotaInv', TimeInv, NEW c \in Calls
    PROVE  /\ Connect(c) => TimeInv'
           /\ ObserveRaises(c) => TimeInv'
           /\ Checkpoint(c) => TimeInv'
           /\ Crash(c) \/ Leave(c) => TimeInv'
           /\ EndUnconnected(c) => TimeInv'
<1> USE DEF GateUnchanged
<1>1. /\ TypeOK /\ TypeOK' /\ TimeOf(c)
      /\ gate \in [Calls -> {"none", "run", "stopped", "gone"}]
      /\ meter \in [Calls -> ConnectedMeter] /\ ckpt \in [Calls -> ConnectedMeter]
  BY DEF QuotaInv, TypeOK, TimeInv
<1>2. /\ now \in Nat /\ day \in Int /\ midnight \in Nat /\ midnight <= now
      /\ talked[c] \in Nat /\ spoken[c] \in Nat
      /\ meter[c] \in ConnectedMeter
      /\ meter[c].billed \in Nat /\ meter[c].rem \in Nat /\ meter[c].growth \in Nat
      /\ Pending(c) \in Nat /\ PendingSpeech(c) \in Nat
  BY TimeTypes
<1>3. ASSUME Connect(c) PROVE TimeInv'
  <2>1. /\ UNCHANGED <<gate, meter, ckpt>> /\ UNCHANGED <<clockVars, moneyVars, history>>
    BY <1>3 DEF Connect
  <2>2. /\ UNCHANGED <<account, ledger, talked, spoken>>
        /\ account.day \in Int
    BY <1>1, <2>1, QuotaAssumption DEF moneyVars, history, TypeOK, VoiceQuotaAccount, Days
  <2>3. TimeOf(c)'
    BY <1>1, <2>1, <2>2, TimeFrame
  <2> QED
    BY <2>1, <2>3, GateTime
<1>4. ASSUME ObserveRaises(c) PROVE TimeInv'
  <2>1. /\ gate[c] = "run" /\ gate'[c] = "stopped" /\ \A b \in Calls \ {c} : gate'[b] = gate[b]
        /\ UNCHANGED <<meter, ckpt>> /\ UNCHANGED <<clockVars, moneyVars, history>>
    BY <1>1, <1>4 DEF ObserveRaises
  <2>2. Timed(c) /\ ObserveRefused(c)
    BY <1>1, <1>4, <2>1 DEF TimeOf, ObserveRaises
  <2>3. Counting(meter[c]) /\ now > meter[c].last
    BY <2>2 DEF ObserveRefused
  <2>4. ClockReversed(meter[c].day)
    <3>1. /\ ledger[c].extra <= meter[c].extra
          /\ \A d \in Days : ledger[c].free[d] <= meter[c].free[d]
      BY <2>2 DEF Timed, Within
    <3>2. /\ ledger[c].extra \in Nat /\ meter[c].extra \in Nat
          /\ \A d \in Days : ledger[c].free[d] \in Nat /\ meter[c].free[d] \in Nat
          /\ meter[c].day \in Days /\ day \in Days
      BY <1>1, <1>2 DEF TypeOK, ConnectedMeter, VoiceUsageLedger
    <3>3. /\ ~(meter[c].extra < ledger[c].extra)
          /\ ~ \E d \in {meter[c].day, day} : meter[c].free[d] < ledger[c].free[d]
      BY <3>1, <3>2
    <3> QED
      BY <2>2, <3>3 DEF ObserveRefused
  <2>5. UNCHANGED <<now, day, midnight, account, ledger, talked, spoken>>
    BY <2>1 DEF clockVars, moneyVars, history
  <2>6. Pending(c)' = 0 /\ PendingSpeech(c)' = 0
    BY <2>1 DEF Pending, PendingSpeech
  <2>7. meter[c].graceAt = NoTime /\ meter[c].conn /\ Raised(c)' /\ ~Raised(c)
    BY <2>1, <2>3 DEF Counting, Raised
  <2>8. ClockReversed(meter[c].day)' /\ Within(c, meter[c])'
    BY <2>1, <2>2, <2>4, <2>5 DEF ClockReversed, Within, Timed
  <2>9. meter[c].growth <= spoken[c] /\ 2 * meter[c].billed <= talked[c]
    BY <1>2, <2>2 DEF Timed
  <2>10. Timed(c)'
    BY <1>2, <2>1, <2>2, <2>3, <2>5, <2>6, <2>7, <2>8, <2>9 DEF Timed
  <2>11. TimeOf(c)'
    BY <1>1, <2>1, <2>5, <2>10 DEF TimeOf
  <2> QED
    BY <2>1, <2>11, GateTime
<1>5. ASSUME Checkpoint(c) PROVE TimeInv'
  <2>1. /\ gate[c] = "run" /\ ckpt'[c] = meter[c] /\ \A b \in Calls \ {c} : ckpt'[b] = ckpt[b]
        /\ UNCHANGED <<gate, meter>> /\ UNCHANGED <<clockVars, moneyVars, history>>
    BY <1>1, <1>5 DEF Checkpoint
  <2>2. Timed(c)
    BY <1>1, <2>1 DEF TimeOf
  <2>3. UNCHANGED <<now, day, midnight, account, ledger, talked, spoken>>
    BY <2>1 DEF clockVars, moneyVars, history
  <2>4. Within(c, meter[c])'
    <3>1. meter[c].extra \in Nat /\ \A d \in Days : meter[c].free[d] \in Nat
      BY <1>2 DEF ConnectedMeter
    <3> QED
      BY <2>1, <2>2, <2>3, <3>1 DEF Within, Timed
  <2>5. /\ Pending(c)' = Pending(c) /\ PendingSpeech(c)' = PendingSpeech(c)
        /\ Raised(c)' <=> Raised(c)
    BY <2>1, <2>3 DEF Pending, PendingSpeech, Raised
  <2>6. Timed(c)'
    BY <2>1, <2>2, <2>3, <2>4, <2>5 DEF Timed, ClockReversed
  <2>7. meter[c].growth <= spoken[c]
    BY <1>2, <2>2 DEF Timed
  <2>8. TimeOf(c)'
    BY <1>1, <2>1, <2>3, <2>6, <2>7 DEF TimeOf
  <2> QED
    BY <2>1, <2>8, GateTime
<1>6. ASSUME Crash(c) \/ Leave(c) PROVE TimeInv'
  <2>1. /\ gate'[c] = "gone" /\ \A b \in Calls \ {c} : gate'[b] = gate[b]
        /\ \A b \in Calls \ {c} : meter'[b] = meter[b]
        /\ ckpt' = ckpt /\ UNCHANGED <<clockVars, moneyVars, history>>
    BY <1>1, <1>6 DEF Crash, Leave
  <2>2. TimeOf(c)'
    BY <1>1, <2>1 DEF TimeOf, moneyVars, history
  <2> QED
    BY <2>1, <2>2, GateTime
<1>7. ASSUME EndUnconnected(c) PROVE TimeInv'
  <2>1. /\ ckpt'[c] = NewMeter /\ \A b \in Calls \ {c} : ckpt'[b] = ckpt[b]
        /\ UNCHANGED <<gate, meter>> /\ UNCHANGED <<clockVars, moneyVars, history>>
    BY <1>1, <1>7 DEF EndUnconnected
  <2>2. UNCHANGED <<now, day, midnight, account, ledger, talked, spoken>>
    BY <2>1 DEF clockVars, moneyVars, history
  <2>3. /\ NewMeter.extra = 0 /\ NewMeter.growth = 0 /\ \A d \in Days : NewMeter.free[d] = 0
    BY DEF NewMeter, NothingUsed
  <2>4. Timed(c) => Timed(c)'
    <3>1. Within(c, meter[c]) => Within(c, meter[c])'
      <4>1. meter[c].extra \in Nat /\ \A d \in Days : meter[c].free[d] \in Nat
        BY <1>2 DEF ConnectedMeter
      <4> QED
        BY <2>1, <2>2, <2>3, <4>1 DEF Within
    <3>2. /\ Pending(c)' = Pending(c) /\ PendingSpeech(c)' = PendingSpeech(c)
          /\ Raised(c)' <=> Raised(c)
      BY <2>1, <2>2 DEF Pending, PendingSpeech, Raised
    <3> QED
      BY <2>1, <2>2, <3>1, <3>2 DEF Timed, ClockReversed
  <2>5. TimeOf(c)'
    BY <1>1, <1>2, <2>1, <2>2, <2>3, <2>4 DEF TimeOf
  <2> QED
    BY <2>1, <2>5, GateTime
<1> QED
  BY <1>3, <1>4, <1>5, <1>6, <1>7

\* A settlement pays for no more growth than its evidence heard, and moves the account on.
LEMMA SettleTime ==
    ASSUME TypeOK, NEW c \in Calls, NEW m \in ConnectedMeter, settle(c, m),
           m.growth <= spoken[c], 2 * ledger[c].growth <= spoken[c]
    PROVE  /\ 2 * ledger'[c].growth <= spoken[c]
           /\ \A b \in Calls \ {c} : ledger'[b] = ledger[b]
           /\ ledger'[c].extra \in {ledger[c].extra, m.extra}
           /\ ledger'[c].free \in {ledger[c].free, m.free}
           /\ account.open => account'.open /\ account.day <= account'.day
<1>1. /\ m.growth \in Nat /\ m.billed \in Nat /\ spoken[c] \in Nat /\ m.day \in Int
      /\ ledger \in [Calls -> VoiceUsageLedger] /\ ledger[c].growth \in Nat
      /\ account.day \in Int
  <2>1. m.growth \in Nat /\ m.billed \in Nat /\ m.day \in Days
    BY DEF ConnectedMeter
  <2>2. /\ ledger \in [Calls -> VoiceUsageLedger] /\ spoken[c] \in Nat
        /\ account \in VoiceQuotaAccount
    BY DEF TypeOK
  <2>3. ledger[c].growth \in Nat /\ account.day \in Days
    BY <2>2 DEF VoiceUsageLedger, VoiceQuotaAccount
  <2> QED
    BY <2>1, <2>2, <2>3, QuotaAssumption DEF Days
<1>2. Growth(m) \in Nat /\ 2 * Growth(m) <= m.growth
  BY <1>1 DEF Growth, Least
<1>3. 2 * Growth(m) <= spoken[c]
  BY <1>1, <1>2
<1>4. CASE Charges(c, m)
  <2>1. /\ account' = Debited(c, m)
        /\ ledger' = [ledger EXCEPT ![c] =
               [free |-> m.free, extra |-> m.extra, grace |-> m.grace, growth |-> Growth(m)]]
    BY <1>4 DEF settle
  <2>2. account'.open /\ account'.day = m.day
    BY <2>1 DEF Debited
  <2>3. ~ClockReversed(m.day)
    BY <1>4 DEF settle, SettleRefused
  <2>4. account.open => account.day <= m.day
    BY <1>1, <2>3 DEF ClockReversed
  <2>5. /\ ledger'[c].growth = Growth(m) /\ ledger'[c].extra = m.extra
        /\ ledger'[c].free = m.free
        /\ \A b \in Calls \ {c} : ledger'[b] = ledger[b]
    BY <1>1, <2>1
  <2> QED
    BY <1>3, <2>2, <2>4, <2>5
<1>5. CASE ~Charges(c, m)
  <2> DEFINE growth == IF ledger[c].growth > Growth(m) THEN ledger[c].growth ELSE Growth(m)
  <2>1. /\ account' = account
        /\ ledger' = [ledger EXCEPT ![c] = [ledger[c] EXCEPT !.growth = growth]]
    BY <1>5 DEF settle
  <2>2. 2 * growth <= spoken[c]
    BY <1>3
  <2> HIDE DEF growth
  <2>3. /\ ledger'[c].growth = growth /\ ledger'[c].extra = ledger[c].extra
        /\ ledger'[c].free = ledger[c].free
        /\ \A b \in Calls \ {c} : ledger'[b] = ledger[b]
    BY <1>1, <2>1 DEF VoiceUsageLedger
  <2> QED
    BY <1>1, <2>1, <2>2, <2>3
<1> QED
  BY <1>4, <1>5

\* A call ends by its owner, who leaves, or behind the back of its owner.
LEMMA EndTime ==
    ASSUME QuotaInv, QuotaInv', TimeInv, NEW c \in Calls, EndByOwner(c) \/ EndByRecovery(c)
    PROVE  TimeInv'
<1>1. /\ TypeOK /\ TypeOK' /\ TimeOf(c)
      /\ gate \in [Calls -> {"none", "run", "stopped", "gone"}]
      /\ meter \in [Calls -> ConnectedMeter] /\ ckpt \in [Calls -> ConnectedMeter]
  BY DEF QuotaInv, TypeOK, TimeInv
<1>2. /\ spoken[c] \in Nat /\ meter[c].growth \in Nat /\ PendingSpeech(c) \in Nat
      /\ meter[c] \in ConnectedMeter /\ ckpt[c] \in ConnectedMeter
  BY TimeTypes
<1>3. /\ NewMeter.extra = 0 /\ NewMeter.growth = 0 /\ NewMeter.last = NoTime
      /\ \A d \in Days : NewMeter.free[d] = 0
  BY DEF NewMeter, NothingUsed
<1>4. ckpt[c].growth <= spoken[c] /\ 2 * ledger[c].growth <= spoken[c]
  BY <1>1 DEF TimeOf
<1>5. /\ UNCHANGED clockVars /\ talked' = talked /\ spoken' = spoken
      /\ ckpt'[c] = NewMeter /\ \A b \in Calls \ {c} : ckpt'[b] = ckpt[b]
      /\ \A b \in Calls \ {c} : gate'[b] = gate[b] /\ meter'[b] = meter[b]
  BY <1>1 DEF EndByOwner, EndByRecovery, history
<1>6. PICK m \in {meter[c], ckpt[c]} :
        /\ settle(c, m)
        /\ \/ m = meter[c] /\ gate[c] = "stopped" /\ gate'[c] = "gone"
           \/ m = ckpt[c] /\ gate' = gate /\ meter' = meter /\ m.last # NoTime
  <2>1. CASE EndByOwner(c)
    BY <1>1, <2>1 DEF EndByOwner
  <2>2. CASE EndByRecovery(c)
    BY <2>2 DEF EndByRecovery
  <2> QED
    BY <2>1, <2>2
<1>7. m \in ConnectedMeter
  BY <1>2, <1>6
<1>8. m.growth <= spoken[c]
  <2>1. CASE m = ckpt[c]
    BY <1>4, <2>1
  <2>2. CASE m # ckpt[c]
    <3>1. m = meter[c] /\ gate[c] = "stopped"
      BY <1>6, <2>2
    <3>2. Timed(c)
      BY <1>1, <3>1 DEF TimeOf
    <3> QED
      BY <1>2, <3>1, <3>2 DEF Timed
  <2> QED
    BY <2>1, <2>2
<1>9. /\ 2 * ledger'[c].growth <= spoken[c]
      /\ \A b \in Calls \ {c} : ledger'[b] = ledger[b]
      /\ ledger'[c].extra \in {ledger[c].extra, m.extra}
      /\ ledger'[c].free \in {ledger[c].free, m.free}
      /\ account.open => account'.open /\ account.day <= account'.day
  BY <1>1, <1>4, <1>6, <1>7, <1>8, SettleTime
<1>10. ASSUME NEW b \in Calls, b # c
       PROVE  TimeOf(b)'
  BY <1>1, <1>5, <1>9, <1>10, TimeFrame DEF TimeInv
<1>11. TimeOf(c)'
  <2>1. CASE gate'[c] = "gone"
    BY <1>2, <1>3, <1>5, <1>9, <2>1 DEF TimeOf
  <2>2. CASE gate' = gate /\ meter' = meter /\ m = ckpt[c] /\ m.last # NoTime
    <3>1. gate[c] # "none"
      BY <1>1, <1>3, <2>2 DEF TimeOf
    <3>2. ASSUME Timed(c)
          PROVE  Timed(c)'
      <4>1. Within(c, meter[c])'
        <5>1. Within(c, meter[c])
          BY <3>2 DEF Timed
        <5>2. meter[c].extra \in Nat /\ \A d \in Days : meter[c].free[d] \in Nat
          BY <1>2 DEF ConnectedMeter
        <5> QED
          BY <1>3, <1>5, <1>9, <2>2, <5>1, <5>2 DEF Within
      <4>2. /\ Pending(c)' = Pending(c) /\ PendingSpeech(c)' = PendingSpeech(c)
            /\ Raised(c)' <=> Raised(c)
        BY <1>5, <2>2 DEF Pending, PendingSpeech, Raised, clockVars
      <4>3. ClockReversed(meter[c].day) => ClockReversed(meter[c].day)'
        <5>1. meter[c].day \in Int /\ account.day \in Int /\ account'.day \in Int
          BY <1>1, <1>2, QuotaAssumption DEF TypeOK, ConnectedMeter, VoiceQuotaAccount, Days
        <5> QED
          BY <1>9, <2>2, <5>1 DEF ClockReversed
      <4> QED
        BY <1>5, <2>2, <3>2, <4>1, <4>2, <4>3 DEF Timed, clockVars
    <3> QED
      BY <1>1, <1>2, <1>3, <1>5, <1>9, <2>2, <3>1, <3>2 DEF TimeOf
  <2> QED
    BY <1>6, <2>1, <2>2
<1> QED
  BY <1>10, <1>11 DEF TimeInv

\* A grant, a publication and a new call touch no meter.
LEMMA MoneyTime ==
    ASSUME QuotaInv, QuotaInv', TimeInv,
           UNCHANGED <<clockVars, gate, meter, ckpt, ledger, talked, spoken>>,
           account.open => account'.open /\ account.day <= account'.day
    PROVE  TimeInv'
  BY TimeFrame DEF TimeInv, QuotaInv

\* A tick is talk for every meter that is connected and nothing for the others.
LEMMA TickTime ==
    ASSUME QuotaInv, QuotaInv', TimeInv, Tick
    PROVE  TimeInv'
<1> SUFFICES ASSUME NEW c \in Calls PROVE TimeOf(c)'
  BY DEF TimeInv
<1> DEFINE m == meter[c]
<1>1. /\ now \in Nat /\ day \in Int /\ midnight \in Nat
      /\ talked[c] \in Nat /\ spoken[c] \in Nat
      /\ m.billed \in Nat /\ m.rem \in Nat /\ m.growth \in Nat
      /\ m.last <= now /\ m.last \in Int
      /\ Pending(c) \in Nat /\ PendingSpeech(c) \in Nat
      /\ m.conn \in BOOLEAN /\ m.muted \in BOOLEAN /\ ckpt[c].growth \in Nat
      /\ ledger[c].growth \in Nat
  <2>1. m.conn \in BOOLEAN /\ m.muted \in BOOLEAN /\ ckpt[c].growth \in Nat
    BY TimeTypes DEF ConnectedMeter
  <2>2. ledger[c].growth \in Nat
    BY DEF QuotaInv, TypeOK, VoiceUsageLedger
  <2> QED
    BY <2>1, <2>2, TimeTypes
<1>2. /\ now' = now + 1 /\ day' \in {day, day + 1}
      /\ day' = day => midnight' = midnight
      /\ gate[c] = "run" => day' <= m.day + 1
      /\ UNCHANGED <<account, ledger, gate, meter, ckpt>>
  BY <1>1 DEF Tick, moneyVars, OneMidnight
<1>3. /\ talked'[c] = (IF gate[c] = "run" /\ m.conn THEN talked[c] + 1 ELSE talked[c])
      /\ spoken'[c] = (IF gate[c] = "run" /\ m.conn /\ ~m.muted THEN spoken[c] + 1 ELSE spoken[c])
  BY DEF Tick
<1>4. m.day \in Int /\ m.day <= day
  <2>1. meter[c] \in ConnectedMeter
    BY TimeTypes
  <2> QED
    BY <2>1, QuotaAssumption DEF ConnectedMeter, Days, QuotaInv, MeterInv, Bounded
<1>5. TimeOf(c)
  BY DEF TimeInv
<1>6. spoken[c] <= spoken'[c] /\ talked[c] <= talked'[c]
      /\ spoken'[c] \in Nat /\ talked'[c] \in Nat
  BY <1>1, <1>3
<1>7. ASSUME gate[c] \in {"run", "stopped"}
      PROVE  Timed(c)'
  <2>1. Timed(c)
    BY <1>5, <1>7 DEF TimeOf
  <2>2. m.day = day' => midnight' <= m.last
    BY <1>1, <1>2, <1>4, <2>1 DEF Timed
  <2>3. Raised(c)' => m.graceAt = NoTime /\ m.last < now' /\ ClockReversed(m.day)'
    BY <1>1, <1>2, <2>1 DEF Timed, Raised, ClockReversed
  <2>4. Within(c, m)'
    BY <1>2, <2>1 DEF Timed, Within
  <2>5. Raised(c)' <=> Raised(c)
    BY <1>2 DEF Raised
  <2>6. /\ Pending(c)' - Pending(c) = talked'[c] - talked[c]
        /\ PendingSpeech(c)' - PendingSpeech(c) = spoken'[c] - spoken[c]
        /\ Pending(c)' \in Int /\ PendingSpeech(c)' \in Int
    BY <1>1, <1>2, <1>3 DEF Pending, PendingSpeech
  <2>7. 2 * m.billed <= talked'[c]
    BY <1>1, <1>6, <2>1 DEF Timed
  <2>8. /\ m.growth + PendingSpeech(c)' <= spoken'[c]
        /\ m.graceAt = NoTime /\ ~Raised(c) => spoken'[c] = m.growth + PendingSpeech(c)'
        /\ m.graceAt = NoTime /\ ~Raised(c) => talked'[c] = 2 * m.billed + m.rem + Pending(c)'
    <3>1. /\ m.growth + PendingSpeech(c) <= spoken[c]
          /\ m.graceAt = NoTime /\ ~Raised(c) => spoken[c] = m.growth + PendingSpeech(c)
          /\ m.graceAt = NoTime /\ ~Raised(c) => talked[c] = 2 * m.billed + m.rem + Pending(c)
      BY <2>1 DEF Timed
    <3> HIDE DEF m
    <3> QED
      BY <1>1, <1>6, <2>6, <3>1
  <2> QED
    BY <1>2, <2>2, <2>3, <2>4, <2>5, <2>7, <2>8 DEF Timed
<1>8. /\ ckpt[c].growth <= spoken'[c] /\ 2 * ledger[c].growth <= spoken'[c]
  BY <1>1, <1>5, <1>6 DEF TimeOf
<1>9. gate[c] = "none" => talked'[c] = 0 /\ spoken'[c] = 0
  BY <1>3, <1>5 DEF TimeOf
<1> QED
  BY <1>2, <1>5, <1>7, <1>8, <1>9 DEF TimeOf

\* Nothing has been talked.
LEMMA TimeInit == Init => TimeInv
<1> SUFFICES ASSUME Init, NEW c \in Calls PROVE TimeOf(c)
  BY DEF TimeInv
<1>1. /\ gate[c] = "none" /\ meter[c] = NewMeter /\ ckpt[c] = NewMeter
      /\ ledger[c].growth = 0 /\ talked[c] = 0 /\ spoken[c] = 0
  BY DEF Init
<1>2. NewMeter.growth = 0
  BY DEF NewMeter
<1> QED
  BY <1>1, <1>2 DEF TimeOf

\* Every step keeps meters and clock together.
LEMMA TimeStep == QuotaInv /\ TimeInv /\ [Next]_vars => TimeInv'
<1> SUFFICES ASSUME QuotaInv, QuotaInv', TimeInv, [Next]_vars PROVE TimeInv'
  BY QuotaStep
<1>1. account \in VoiceQuotaAccount /\ account.day \in Int
  BY QuotaAssumption DEF QuotaInv, TypeOK, VoiceQuotaAccount, Days
<1>2. CASE Tick
  BY <1>2, TickTime
<1>3. ASSUME NEW seconds \in Grants, NEW version \in 0..account.version,
             NEW dailySeconds \in DailySeconds, GrantExtra(seconds, version, dailySeconds)
      PROVE  TimeInv'
  <2> DEFINE extra == account.extra + seconds
             newer == account.version + 1
  <2>1. /\ UNCHANGED <<clockVars, gate, meter, ckpt, ledger, talked, spoken>>
        /\ account.open => account' = [account EXCEPT !.extra = extra, !.version = newer]
    BY <1>3 DEF GrantExtra
  <2> HIDE DEF extra, newer
  <2>2. account.open => account'.open = account.open /\ account'.day = account.day
    BY <1>1, <2>1 DEF VoiceQuotaAccount
  <2>3. account.open => account'.open
    BY <2>2, Zenon
  <2>4. account.open => account.day <= account'.day
    BY <1>1, <2>2
  <2> QED
    BY <2>1, <2>3, <2>4, MoneyTime
<1>4. ASSUME NEW c \in Calls, NEW dailySeconds \in DailySeconds, Create(c, dailySeconds)
      PROVE  TimeInv'
  <2> DEFINE free == PublishedFree(dailySeconds)
             newer == account.version + 1
  <2>1. /\ UNCHANGED <<clockVars, gate, meter, ckpt, ledger, talked, spoken>>
        /\ \/ account' = [account EXCEPT !.free = free, !.version = newer]
           \/ account' = account
    BY <1>4 DEF Create, history
  <2> HIDE DEF free, newer
  <2>2. account.open => account'.open = account.open /\ account'.day = account.day
    BY <1>1, <2>1 DEF VoiceQuotaAccount
  <2>3. account.open => account'.open
    BY <2>2, Zenon
  <2>4. account.open => account.day <= account'.day
    BY <1>1, <2>2
  <2> QED
    BY <2>1, <2>3, <2>4, MoneyTime
<1>5. ASSUME NEW c \in Calls, NEW connected \in BOOLEAN, NEW muted \in Mutes,
             Observe(c, connected, muted)
      PROVE  TimeInv'
  BY <1>5, GatewayTime, QuotaAssumption
<1>6. ASSUME NEW c \in Calls, Start(c) \/ Stop(c) \/ ObserveStopped(c)
      PROVE  TimeInv'
  BY <1>6, GatewayTime
<1>7. ASSUME NEW c \in Calls, \/ Connect(c) \/ ObserveRaises(c) \/ Checkpoint(c)
                              \/ Crash(c) \/ Leave(c) \/ EndUnconnected(c)
      PROVE  TimeInv'
  BY <1>7, RestOfGatewayTime
<1>8. ASSUME NEW c \in Calls, EndByOwner(c) \/ EndByRecovery(c)
      PROVE  TimeInv'
  BY <1>8, EndTime
<1>9. CASE UNCHANGED vars
  <2>1. UNCHANGED <<clockVars, account, gate, meter, ckpt, ledger, talked, spoken>>
    BY <1>9 DEF vars, moneyVars, history
  <2> QED
    BY <1>1, <2>1, MoneyTime
<1> QED
  BY <1>2, <1>3, <1>4, <1>5, <1>6, <1>7, <1>8, <1>9 DEF Next

LEMMA TimeAlways == Spec => [](QuotaInv /\ TimeInv)
<1>1. Init => QuotaInv /\ TimeInv
  BY QuotaInit, TimeInit
<1>2. QuotaInv /\ TimeInv /\ [Next]_vars => QuotaInv' /\ TimeInv'
  BY QuotaStep, TimeStep
<1> QED
  BY <1>1, <1>2, PTL DEF Spec

\* observe bills whole seconds of talk, however the observations cut it: never more than
\* was talked, and less by no more than the fraction that rem carries.
THEOREM BillingIsExact == Spec => []BilledIsTalk
<1>1. QuotaInv /\ TimeInv => BilledIsTalk
  <2> SUFFICES ASSUME QuotaInv, TimeInv, NEW c \in Calls, gate[c] \in {"run", "stopped"}
               PROVE  /\ 2 * meter[c].billed <= talked[c]
                      /\ meter[c].last = now /\ meter[c].graceAt = NoTime =>
                            talked[c] - 2 * meter[c].billed < 2
    BY DEF BilledIsTalk
  <2>1. Timed(c)
    BY DEF TimeInv, TimeOf
  <2>2. ASSUME meter[c].last = now, meter[c].graceAt = NoTime
        PROVE  talked[c] - 2 * meter[c].billed < 2
    <3>1. /\ now \in Nat /\ talked[c] \in Nat /\ meter[c].billed \in Nat
          /\ meter[c].rem \in 0..1
      BY TimeTypes DEF ConnectedMeter
    <3>2. ~Raised(c) /\ Pending(c) = 0
      BY <2>1, <2>2, <3>1 DEF Timed, Pending
    <3>3. talked[c] = 2 * meter[c].billed + meter[c].rem + Pending(c)
      BY <2>1, <2>2, <3>2 DEF Timed
    <3> QED
      BY <3>1, <3>2, <3>3
  <2> QED
    BY <2>1, <2>2 DEF Timed
<1> QED
  BY <1>1, TimeAlways, PTL

\* The growth of a call's row is paid for with talk at an open microphone, and observe
\* counts all of it until the grace period begins.
THEOREM GrowthIsEarned == Spec => []GrowthIsPaidSpeech
<1>1. QuotaInv /\ TimeInv => GrowthIsPaidSpeech
  <2> SUFFICES ASSUME QuotaInv, TimeInv, NEW c \in Calls
               PROVE  /\ 2 * ledger[c].growth <= spoken[c]
                      /\ gate[c] = "run" /\ meter[c].last = now /\ meter[c].graceAt = NoTime
                            => meter[c].growth = spoken[c]
    BY DEF GrowthIsPaidSpeech
  <2>1. TimeOf(c)
    BY DEF TimeInv
  <2>2. ASSUME gate[c] = "run", meter[c].last = now, meter[c].graceAt = NoTime
        PROVE  meter[c].growth = spoken[c]
    <3>1. Timed(c)
      BY <2>1, <2>2 DEF TimeOf
    <3>2. now \in Nat /\ meter[c].growth \in Nat
      BY TimeTypes
    <3>3. ~Raised(c) /\ PendingSpeech(c) = 0
      BY <2>2, <3>2 DEF Raised, PendingSpeech, Pending
    <3> QED
      BY <2>2, <3>1, <3>2, <3>3 DEF Timed
  <2> QED
    BY <2>1, <2>2 DEF TimeOf
<1> QED
  BY <1>1, TimeAlways, PTL

\* observe begins the grace period at an instant at which both pools were spent, by what
\* the account and the ledger say then; a midnight that refills the pool postpones it.
THEOREM GraceAfterPools == Spec => GraceOnlyWhenSpent
<1> DEFINE Spent(c) ==
             LET m == meter'[c]
                 d == IF m.graceAt < midnight THEN day - 1 ELSE day
             IN  meter[c].graceAt = NoTime /\ m.graceAt # NoTime => Available(c, m, d) = 0
<1>1. QuotaInv /\ TimeInv /\ [Next]_vars => [\A c \in Calls : Spent(c)]_vars
  <2> SUFFICES ASSUME QuotaInv, TimeInv, Next, NEW c \in Calls
               PROVE  Spent(c)
    OBVIOUS
  <2>1. /\ TypeOK /\ ClockInv /\ MeterInv /\ TimeOf(c)
        /\ meter \in [Calls -> ConnectedMeter]
    BY DEF QuotaInv, TypeOK, TimeInv
  <2>2. NewMeter.graceAt = NoTime
    BY DEF NewMeter
  <2>3. ASSUME NEW connected, NEW muted, ~ObserveRefused(c), gate[c] \in {"run", "stopped"},
               day <= meter[c].day + 1, meter'[c] = observed(c, connected, muted)
        PROVE  Spent(c)
    <3>1. Timed(c) /\ meter[c].last # NoTime
      BY <2>1, <2>3 DEF TimeOf, MeterInv
    <3>2. meter[c].day = day => midnight <= meter[c].last
      BY <3>1 DEF Timed
    <3> QED
      BY <2>1, <2>3, <3>1, <3>2, ObservedSpends
  <2>4. ASSUME meter'[c] \in {meter[c], NewMeter}
        PROVE  Spent(c)
    BY <2>2, <2>4
  <2>5. gate[c] = "run" => day <= meter[c].day + 1
    BY <2>1 DEF TimeOf, Timed
  <2>6. ASSUME NEW b \in Calls, Start(b)
        PROVE  Spent(c)
    <3>1. CASE b # c
      BY <2>1, <2>4, <2>6, <3>1 DEF Start
    <3>2. CASE b = c
      <4>1. PICK connected, muted : meter'[c] = observed(c, connected, muted)
        BY <2>1, <2>6, <3>2 DEF Start
      <4>2. ~Counting(meter[c])
        BY <2>1, <2>6, <3>2 DEF Start, TimeOf, Counting, NewMeter
      <4>3. Connected(c, meter[c]) = meter[c]
        BY <2>1, <4>2, ConnectedTurns DEF MeterInv
      <4>4. observed(c, connected, muted).graceAt = meter[c].graceAt
        BY <2>1, <4>3, ObservedFields
      <4> QED
        BY <4>1, <4>4
    <3> QED
      BY <3>1, <3>2
  <2>7. ASSUME NEW b \in Calls,
               \/ \E connected \in BOOLEAN, muted \in Mutes : Observe(b, connected, muted)
               \/ Stop(b) \/ ObserveStopped(b)
        PROVE  Spent(c)
    <3>1. PICK connected, muted :
                 /\ meter' = [meter EXCEPT ![b] = observed(b, connected, muted)]
                 /\ ~ObserveRefused(b) /\ gate[b] \in {"run", "stopped"}
                 /\ gate[b] = "run" \/ day <= meter[b].day + 1
      BY <2>7 DEF Observe, Stop, ObserveStopped
    <3>2. CASE b # c
      BY <2>1, <2>4, <3>1, <3>2
    <3>3. CASE b = c
      BY <2>1, <2>3, <2>5, <3>1, <3>3
    <3> QED
      BY <3>2, <3>3
  <2>8. ASSUME NEW b \in Calls, \/ Connect(b) \/ ObserveRaises(b) \/ Checkpoint(b) \/ Crash(b)
                                \/ Leave(b) \/ EndUnconnected(b) \/ EndByOwner(b)
                                \/ EndByRecovery(b)
                                \/ \E dailySeconds \in DailySeconds : Create(b, dailySeconds)
        PROVE  Spent(c)
    <3>1. meter' = meter \/ meter' = [meter EXCEPT ![b] = NewMeter]
      <4>1. Crash(b) \/ Leave(b) \/ EndByOwner(b) => meter' = [meter EXCEPT ![b] = NewMeter]
        BY DEF Crash, Leave, EndByOwner
      <4>2. Connect(b) \/ ObserveRaises(b) \/ Checkpoint(b) \/ EndUnconnected(b)
               \/ EndByRecovery(b) => meter' = meter
        BY DEF Connect, ObserveRaises, Checkpoint, EndUnconnected, EndByRecovery
      <4>3. (\E dailySeconds \in DailySeconds : Create(b, dailySeconds)) => meter' = meter
        BY DEF Create
      <4> QED
        BY <2>8, <4>1, <4>2, <4>3
    <3>2. meter'[c] \in {meter[c], NewMeter}
      BY <2>1, <3>1
    <3> QED
      BY <2>4, <3>2
  <2>9. Tick => Spent(c)
    BY <2>4 DEF Tick
  <2>10. ASSUME NEW seconds \in Grants, NEW version \in 0..account.version,
                NEW dailySeconds \in DailySeconds, GrantExtra(seconds, version, dailySeconds)
         PROVE  Spent(c)
    BY <2>4, <2>10 DEF GrantExtra
  <2> HIDE DEF Spent
  <2> QED
    BY <2>6, <2>7, <2>8, <2>9, <2>10 DEF Next
<1>2. QuotaInv /\ TimeInv /\ [Next]_vars => [\A c \in Calls :
         LET m == meter'[c]
             d == IF m.graceAt < midnight THEN day - 1 ELSE day
         IN  meter[c].graceAt = NoTime /\ m.graceAt # NoTime => Available(c, m, d) = 0]_vars
  BY <1>1
<1> QED
  BY <1>2, TimeAlways, PTL DEF Spec, GraceOnlyWhenSpent

-----------------------------------------------------------------------------
(* The extra seconds.  The used ones are counted as a set, a pair of a call  *)
(* and a number for each, which a settlement extends by those it takes.      *)

ExtraInv == IsFiniteSet(ExtraUsed) /\ ExtraConserved

LEMMA UsedSecond ==
    \A x : x \in ExtraUsed <=> \E c \in Calls : \E n \in 1..ledger[c].extra : x = <<c, n>>
  BY DEF ExtraUsed

LEMMA UsedSecondPrime ==
    \A x : x \in ExtraUsed' <=> \E c \in Calls : \E n \in 1..ledger'[c].extra : x = <<c, n>>
  BY DEF ExtraUsed

\* Ledgers that charge no more extra seconds leave the set as it is.
LEMMA SameUsed ==
    ASSUME \A c \in Calls : ledger'[c].extra = ledger[c].extra
    PROVE  ExtraUsed' = ExtraUsed
  BY Zenon DEF ExtraUsed

\* A call's ledger that grows by n seconds adds n to the set.
LEMMA MoreUsed ==
    ASSUME TypeOK, IsFiniteSet(ExtraUsed), NEW c \in Calls, NEW n \in Nat,
           ledger'[c].extra = ledger[c].extra + n,
           \A o \in Calls \ {c} : ledger'[o].extra = ledger[o].extra
    PROVE  /\ IsFiniteSet(ExtraUsed')
           /\ Cardinality(ExtraUsed') = Cardinality(ExtraUsed) + n
<1> DEFINE e == ledger[c].extra
           Taken == (e + 1)..(e + n)
           New == {c} \X Taken
<1>1. e \in Nat
  BY DEF TypeOK, VoiceUsageLedger
<1>2. \A k : k \in 1..(e + n) <=> k \in 1..e \/ k \in Taken
  BY <1>1
<1>3. \A x : x \in New <=> \E k \in Taken : x = <<c, k>>
  OBVIOUS
<1>4. \A k \in Taken : k \notin 1..e
  BY <1>1
<1>5. IsFiniteSet(Taken) /\ Cardinality(Taken) = n
  <2>1. e + 1 \in Int /\ e + n \in Int
    BY <1>1
  <2>2. IsFiniteSet(Taken) /\ Cardinality(Taken) = IF e + 1 > e + n THEN 0 ELSE (e + n) - (e + 1) + 1
    BY <2>1, FS_Interval
  <2> QED
    BY <1>1, <2>2
<1> HIDE DEF Taken
<1>6. IsFiniteSet(New) /\ Cardinality(New) = n
  <2>1. IsFiniteSet({c}) /\ Cardinality({c}) = 1
    BY FS_Singleton
  <2>2. IsFiniteSet(New) /\ Cardinality(New) = 1 * n
    BY <1>5, <2>1, FS_Product
  <2> QED
    BY <2>2
<1> HIDE DEF New
<1>7. ExtraUsed' = ExtraUsed \cup New
  <2>1. ASSUME NEW x \in ExtraUsed' PROVE x \in ExtraUsed \cup New
    <3>1. PICK o \in Calls : \E k \in 1..ledger'[o].extra : x = <<o, k>>
      BY UsedSecondPrime
    <3>2. CASE o = c
      BY <1>2, <1>3, <3>1, <3>2, UsedSecond
    <3>3. CASE o # c
      BY <3>1, <3>3, UsedSecond
    <3> QED
      BY <3>2, <3>3
  <2>2. ASSUME NEW x \in New PROVE x \in ExtraUsed'
    BY <1>2, <1>3, <2>2, UsedSecondPrime
  <2>3. ASSUME NEW x \in ExtraUsed PROVE x \in ExtraUsed'
    <3>1. PICK o \in Calls : \E k \in 1..ledger[o].extra : x = <<o, k>>
      BY UsedSecond
    <3>2. CASE o = c
      BY <1>2, <3>1, <3>2, UsedSecondPrime
    <3>3. CASE o # c
      BY <3>1, <3>3, UsedSecondPrime
    <3> QED
      BY <3>2, <3>3
  <2> QED
    BY <2>1, <2>2, <2>3
<1>8. ExtraUsed \cap New = {}
  <2> SUFFICES ASSUME NEW x \in ExtraUsed, x \in New PROVE FALSE
    OBVIOUS
  <2>1. PICK o \in Calls : \E k \in 1..ledger[o].extra : x = <<o, k>>
    BY UsedSecond
  <2>2. PICK k \in 1..ledger[o].extra : x = <<o, k>>
    BY <2>1
  <2>3. PICK j \in Taken : x = <<c, j>>
    BY <1>3
  <2>4. o = c /\ k = j
    BY <2>2, <2>3
  <2> QED
    BY <1>4, <2>2, <2>4
<1>9. /\ IsFiniteSet(ExtraUsed \cup New)
      /\ Cardinality(ExtraUsed \cup New) =
           Cardinality(ExtraUsed) + Cardinality(New) - Cardinality(ExtraUsed \cap New)
  BY <1>6, FS_Union
<1>10. Cardinality(ExtraUsed \cap New) = 0 /\ Cardinality(ExtraUsed) \in Nat
  BY <1>8, FS_EmptySet, FS_CardinalityType
<1> QED
  BY <1>6, <1>7, <1>9, <1>10

LEMMA ExtraInit == Init => ExtraInv
<1> SUFFICES ASSUME Init PROVE ExtraInv
  OBVIOUS
<1>1. \A c \in Calls : ledger[c].extra = 0
  BY DEF Init
<1>2. ExtraUsed = {}
  BY <1>1, UsedSecond
<1>3. ExtraPool = 0 /\ granted = 0
  BY DEF Init, ExtraPool
<1> QED
  BY <1>2, <1>3, FS_EmptySet DEF ExtraInv, ExtraConserved

\* A settlement moves seconds from the pool to the ledger of its call.
LEMMA SettleMoves ==
    ASSUME TypeOK, ExtraInv, NEW c \in Calls, NEW m \in ConnectedMeter, settle(c, m),
           granted' = granted
    PROVE  ExtraInv'
<1>1. /\ ledger \in [Calls -> VoiceUsageLedger] /\ ledger[c].extra \in Nat /\ m.extra \in Nat
      /\ ExtraPool \in Nat
  BY QuotaAssumption DEF TypeOK, VoiceUsageLedger, ConnectedMeter, ExtraPool, VoiceQuotaAccount
<1>2. CASE Charges(c, m)
  <2>1. /\ ledger' = [ledger EXCEPT ![c] = [free |-> m.free, extra |-> m.extra,
                                            grace |-> m.grace, growth |-> Growth(m)]]
        /\ account' = Debited(c, m)
    BY <1>2 DEF settle
  <2>2. ledger'[c].extra = m.extra /\ \A o \in Calls \ {c} : ledger'[o].extra = ledger[o].extra
    BY <1>1, <2>1
  <2>3. m.extra - ledger[c].extra \in Nat
    <3>1. ~(m.extra - ledger[c].extra < 0)
      BY <1>2 DEF settle, SettleRefused, ExtraDebit
    <3> QED
      BY <1>1, <3>1
  <2>4. ledger'[c].extra = ledger[c].extra + (m.extra - ledger[c].extra)
    BY <1>1, <2>2
  <2>5. /\ IsFiniteSet(ExtraUsed')
        /\ Cardinality(ExtraUsed') = Cardinality(ExtraUsed) + (m.extra - ledger[c].extra)
    BY <2>2, <2>3, <2>4, MoreUsed DEF ExtraInv
  <2>6. ExtraPool' = ExtraPool - (m.extra - ledger[c].extra)
    <3>1. account'.open = TRUE /\ account'.extra = ExtraPool - ExtraDebit(c, m)
      BY <2>1 DEF Debited
    <3> QED
      BY <3>1 DEF ExtraPool, ExtraDebit
  <2>7. Cardinality(ExtraUsed) \in Nat
    BY FS_CardinalityType DEF ExtraInv
  <2> QED
    BY <1>1, <2>3, <2>5, <2>6, <2>7 DEF ExtraInv, ExtraConserved
<1>3. CASE ~Charges(c, m)
  <2>1. /\ ledger' = [ledger EXCEPT ![c].growth = IF @ > Growth(m) THEN @ ELSE Growth(m)]
        /\ account' = account
    BY <1>3 DEF settle
  <2>2. \A o \in Calls : ledger'[o].extra = ledger[o].extra
    BY <1>1, <2>1 DEF VoiceUsageLedger
  <2> QED
    BY <2>1, <2>2, SameUsed DEF ExtraInv, ExtraConserved, ExtraPool
<1> QED
  BY <1>2, <1>3

LEMMA ExtraStep == QuotaInv /\ ExtraInv /\ [Next]_vars => ExtraInv'
<1> SUFFICES ASSUME QuotaInv, ExtraInv, [Next]_vars PROVE ExtraInv'
  OBVIOUS
<1>1. TypeOK /\ account \in VoiceQuotaAccount
  BY DEF QuotaInv, TypeOK
<1>2. ASSUME ledger' = ledger, ExtraPool' = ExtraPool, granted' = granted PROVE ExtraInv'
  BY <1>2, SameUsed DEF ExtraInv, ExtraConserved
<1>3. ASSUME NEW seconds \in Grants, NEW version, NEW dailySeconds,
             GrantExtra(seconds, version, dailySeconds)
      PROVE  ExtraInv'
  <2>1. ledger' = ledger /\ granted' = granted + seconds
    BY <1>3 DEF GrantExtra
  <2>2. ExtraPool' = ExtraPool + seconds
    <3>1. CASE account.open
      <4>1. account' = [account EXCEPT !.extra = @ + seconds, !.version = @ + 1]
        BY <1>3, <3>1 DEF GrantExtra
      <4> QED
        BY <1>1, <3>1, <4>1 DEF ExtraPool, VoiceQuotaAccount
    <3>2. CASE ~account.open
      <4>1. account'.open = TRUE /\ account'.extra = seconds
        BY <1>3, <3>2 DEF GrantExtra
      <4> QED
        BY <3>2, <4>1, QuotaAssumption DEF ExtraPool
    <3> QED
      BY <3>1, <3>2
  <2>3. ExtraUsed' = ExtraUsed
    BY <2>1, SameUsed
  <2>4. /\ ExtraPool \in Nat /\ seconds \in Nat /\ Cardinality(ExtraUsed) \in Nat
    BY <1>1, QuotaAssumption, FS_CardinalityType DEF ExtraPool, VoiceQuotaAccount, ExtraInv
  <2> QED
    BY <2>1, <2>2, <2>3, <2>4 DEF ExtraInv, ExtraConserved
<1>4. ASSUME NEW c \in Calls, NEW dailySeconds, Create(c, dailySeconds) PROVE ExtraInv'
  <2>1. ledger' = ledger /\ granted' = granted
    BY <1>4 DEF Create, history
  <2>2. \/ account' = account
        \/ account' = [account EXCEPT !.free = PublishedFree(dailySeconds), !.version = @ + 1]
    BY <1>4 DEF Create
  <2>3. ExtraPool' = ExtraPool
    BY <1>1, <2>2 DEF ExtraPool, VoiceQuotaAccount
  <2> QED
    BY <1>2, <2>1, <2>3
<1>5. ASSUME NEW c \in Calls, EndByOwner(c) \/ EndByRecovery(c) PROVE ExtraInv'
  <2>1. meter[c] \in ConnectedMeter /\ ckpt[c] \in ConnectedMeter
    BY <1>1 DEF TypeOK
  <2>2. PICK m \in {meter[c], ckpt[c]} : settle(c, m)
    BY <1>5 DEF EndByOwner, EndByRecovery
  <2>3. granted' = granted
    BY <1>5 DEF EndByOwner, EndByRecovery, history
  <2> QED
    BY <1>1, <2>1, <2>2, <2>3, SettleMoves
<1>6. ASSUME UNCHANGED <<moneyVars, granted>> PROVE ExtraInv'
  BY <1>2, <1>6 DEF moneyVars, ExtraPool
<1>7. CASE Tick \/ UNCHANGED vars
  <2>1. UNCHANGED <<moneyVars, granted>>
    BY <1>7 DEF Tick, vars, history
  <2> QED
    BY <1>6, <2>1
<1>8. ASSUME NEW c \in Calls,
             \/ \E connected \in BOOLEAN, muted \in Mutes : Observe(c, connected, muted)
             \/ Start(c) \/ Connect(c) \/ Stop(c) \/ ObserveStopped(c) \/ ObserveRaises(c)
             \/ Checkpoint(c) \/ Crash(c) \/ Leave(c) \/ EndUnconnected(c)
      PROVE  ExtraInv'
  <2>1. UNCHANGED <<moneyVars, granted>>
    BY <1>8 DEF Observe, Start, Connect, Stop, ObserveStopped, ObserveRaises, Checkpoint,
       Crash, Leave, EndUnconnected, GateUnchanged, history
  <2> QED
    BY <1>6, <2>1
<1> QED
  BY <1>3, <1>4, <1>5, <1>7, <1>8 DEF Next

\* What administrators have added is in the extra pool or was taken by the settlement of
\* one call: none is lost when the account moves to a new day, and none is taken twice.
THEOREM ExtraNeitherLostNorTwice == Spec => []ExtraConserved
<1>1. Init => QuotaInv /\ ExtraInv
  BY QuotaInit, ExtraInit
<1>2. QuotaInv /\ ExtraInv /\ [Next]_vars => QuotaInv' /\ ExtraInv'
  BY QuotaStep, ExtraStep
<1>3. ExtraInv => ExtraConserved
  BY DEF ExtraInv
<1> QED
  BY <1>1, <1>2, <1>3, PTL DEF Spec
=============================================================================
