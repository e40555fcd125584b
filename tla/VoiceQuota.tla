----------------------------- MODULE VoiceQuota -----------------------------
(***************************************************************************)
(* The seconds of one user: the free pool that Shanghai midnight refills,  *)
(* the extra pool that only administrators fill, the meter that reserves   *)
(* seconds while a call talks and the settlement that takes them           *)
(* (backend/services/realtime_voice_quota_service.py).                     *)
(*                                                                         *)
(* Time runs in half seconds, so that a second is more than one tick and   *)
(* the carried remainder has a value.  The monotonic and the wall clock of *)
(* a process advance together here, without skew between processes.  The   *)
(* daily seconds of the published configuration may be another value each  *)
(* time a handler loads it.  settle, create and grant_extra lock the user's *)
(* row first, so each of them is one step; observe reads in one session,   *)
(* under the session's meter_lock.  VoiceLifecycle says which process may  *)
(* finalize when; here any may, with the evidence it has.                  *)
(***************************************************************************)
EXTENDS Integers, FiniteSets

CONSTANTS
    Calls,          \* the calls of the one user
    DayLen,         \* half seconds in a day
    MaxDay,         \* bound: days counted from 0
    MaxNow,         \* bound: the last half second
    DailySeconds,   \* values quota.daily_free_seconds is published with
    GraceLimit,     \* quota.grace_seconds
    Grants,         \* seconds an administrator adds at a time
    ExtraCap,       \* 2_147_483_647
    Mutes           \* positions of the client's microphone switch

ASSUME QuotaAssumption ==
    /\ DayLen \in Nat \ {0} /\ MaxDay \in Nat /\ MaxNow \in Nat
    /\ DailySeconds \subseteq Nat
    /\ GraceLimit \in Nat /\ 2 * GraceLimit <= DayLen
    /\ Grants \subseteq Nat \ {0}
    /\ ExtraCap \in Nat
    /\ Mutes \subseteq BOOLEAN

Days == 0..MaxDay
NoTime == -1

VARIABLES
    now, day, midnight, \* the instant, its Shanghai date, the instant it began
    account,        \* the voice_quota_account row
    usedOn,         \* SUM(free_seconds_used) of the user's ledger, by quota_date
    rowsOn,         \* the dates that have a ledger row
    status,         \* voice_call.status: none, waiting, talking, ended
    daily,          \* quota.daily_free_seconds in its config_snapshot
    gate,           \* the gateway of the call: none, run, stopped, gone
    meter,          \* its ConnectedMeter
    ckpt,           \* the checkpoint voice:quota:{call}; last is NoTime when absent
    ledger,         \* the call's own ledger rows and the columns of its row
    talked,         \* history: half seconds the meter was connected
    spoken,         \* history: those in which the microphone was on as well
    granted         \* history: all seconds administrators have added

clockVars == <<now, day, midnight>>
moneyVars == <<account, usedOn, rowsOn, ledger>>
history == <<talked, spoken, granted>>
vars == <<clockVars, moneyVars, status, daily, gate, meter, ckpt, history>>

ConnectedMeter ==
    [last : {NoTime} \cup Nat, day : Days, conn : BOOLEAN, muted : BOOLEAN,
     rem : 0..1, graceAt : {NoTime} \cup Nat,
     grace : 0..GraceLimit, free : [Days -> Nat], extra : Nat, billed : Nat,
     growth : Nat, dates : SUBSET Days]

VoiceQuotaAccount ==
    [open : BOOLEAN, day : Days, free : Nat, extra : 0..ExtraCap, version : Nat]

VoiceUsageLedger ==
    [free : [Days -> Nat], extra : Nat, grace : 0..GraceLimit, growth : Nat]

TypeOK ==
    /\ now \in Nat /\ day \in Days /\ midnight \in 0..now
    /\ account \in VoiceQuotaAccount
    /\ usedOn \in [Days -> Nat] /\ rowsOn \in SUBSET Days
    /\ status \in [Calls -> {"none", "waiting", "talking", "ended"}]
    /\ daily \in [Calls -> Nat]
    /\ gate \in [Calls -> {"none", "run", "stopped", "gone"}]
    /\ meter \in [Calls -> ConnectedMeter]
    /\ ckpt \in [Calls -> ConnectedMeter]
    /\ ledger \in [Calls -> VoiceUsageLedger]
    /\ talked \in [Calls -> Nat] /\ spoken \in [Calls -> Nat]
    /\ granted \in Nat

NothingUsed == [d \in Days |-> 0]

NewMeter ==
    [last |-> NoTime, day |-> 0, conn |-> FALSE, muted |-> FALSE,
     rem |-> 0, graceAt |-> NoTime, grace |-> 0,
     free |-> NothingUsed, extra |-> 0, billed |-> 0, growth |-> 0, dates |-> {}]

Least(a, b) == IF a < b THEN a ELSE b
Surplus(a, b) == IF a > b THEN a - b ELSE 0

-----------------------------------------------------------------------------
(* balance *)

\* balance, as observe asks for it: the pool of the date, or a fresh one.
FreeOn(d, dailySeconds) ==
    IF account.open /\ account.day = d THEN account.free ELSE dailySeconds

ExtraPool == IF account.open THEN account.extra ELSE 0
ClockReversed(d) == account.open /\ account.day > d

\* Mutant: what was used today is not taken off the published value.
PublishedFree_Whole(dailySeconds) ==
    IF account.open /\ account.day = day /\ (day \in rowsOn \/ account.free > 0)
    THEN dailySeconds
    ELSE FreeOn(day, dailySeconds)

\* balance with published_config: today's pool is recomputed from the ledger,
\* except that an empty pool of a day without any ledger row stays empty.
PublishedFree(dailySeconds) ==
    IF account.open /\ account.day = day /\ (day \in rowsOn \/ account.free > 0)
    THEN Surplus(dailySeconds, usedOn[day])
    ELSE FreeOn(day, dailySeconds)

-----------------------------------------------------------------------------
(* observe *)

Counting(m) == m.last # NoTime /\ m.conn /\ m.graceAt = NoTime
NextMidnight(d) == IF d = day THEN midnight + DayLen ELSE midnight

\* What is left of both pools after what this meter has reserved and not settled.
FreeLeft(c, m, d) == Surplus(FreeOn(d, daily[c]), m.free[d] - ledger[c].free[d])
ExtraLeft(c, m) == Surplus(ExtraPool, m.extra - ledger[c].extra)

Available(c, m, d) == FreeLeft(c, m, d) + ExtraLeft(c, m)

\* Mutant: every observation drops the fraction the last one left.
Halves_NoCarry(m, from, until) == until - from

\* Time to bill: fractions of a second are carried, never rounded.
Halves(m, from, until) == until - from + m.rem

\* The instant both pools are spent, and whether it lies before "until".  A pool
\* that runs dry exactly at midnight is followed by the new day's, not by grace.
DryAt(c, m, d, from) == from + Surplus(2 * Available(c, m, d), m.rem)

\* Mutant: midnight refills nothing.
Dry_NoReset(c, m, d, from, until) == Halves(m, from, until) \div 2 >= Available(c, m, d)

Dry(c, m, d, from, until) ==
    /\ Halves(m, from, until) \div 2 >= Available(c, m, d)
    /\ ~(daily[c] > 0 /\ DryAt(c, m, d, from) = NextMidnight(d))

\* One turn of the loop: the talk between two instants of date d.
Portion(c, m, d, from, until) ==
    LET seconds  == Halves(m, from, until) \div 2
        charged  == Least(seconds, Available(c, m, d))
        fromFree == Least(charged, FreeLeft(c, m, d))
        dry      == Dry(c, m, d, from, until)
    IN  [m EXCEPT !.free[d] = @ + fromFree,
                  !.extra = @ + charged - fromFree,
                  !.billed = @ + charged,
                  !.rem = IF dry THEN 0 ELSE Halves(m, from, until) - 2 * seconds,
                  !.graceAt = IF dry THEN DryAt(c, m, d, from) ELSE NoTime,
                  !.dates = IF charged > 0 THEN @ \cup {d} ELSE @]

\* The whole loop.  Not more than one midnight lies between two observations
\* (OneMidnight), so it turns at most twice.
Connected(c, m) ==
    LET first == Portion(c, m, m.day, m.last, Least(now, NextMidnight(m.day)))
    IN  IF ~Counting(m) \/ now = m.last THEN m
        ELSE IF m.day = day \/ now = midnight \/ first.graceAt # NoTime THEN first
        ELSE Portion(c, first, day, midnight, now)

\* Free seconds after the pools are dry: by the clock, connected or not.
Graced(m) ==
    LET total  == Least(GraceLimit, (now - m.graceAt) \div 2)
        cursor == m.graceAt + 2 * m.grace
        left   == total - m.grace
        old    == Least(left, (midnight - cursor + 1) \div 2)
    IN  IF m.graceAt = NoTime THEN m
        ELSE [m EXCEPT !.grace = total,
                       !.dates = @ \cup (IF left > 0 /\ cursor < midnight THEN {day - 1} ELSE {})
                                   \cup (IF left > 0 /\ (cursor >= midnight \/ left > old)
                                         THEN {day} ELSE {})]

\* Mutant: growth is earned with the microphone off.
Grown_Muted(m, counted) ==
    LET until == IF counted.graceAt # NoTime THEN Least(now, counted.graceAt) ELSE now
    IN  IF m.last # NoTime /\ m.conn
        THEN m.growth + Surplus(until, m.last) ELSE m.growth

\* The seconds that count for the relationship: unmuted, and not in grace.
Grown(m, counted) ==
    LET until == IF counted.graceAt # NoTime THEN Least(now, counted.graceAt) ELSE now
    IN  IF m.last # NoTime /\ m.conn /\ ~m.muted
        THEN m.growth + Surplus(until, m.last) ELSE m.growth

observed(c, connected, muted) ==
    LET counted == Connected(c, meter[c])
    IN  [Graced(counted) EXCEPT !.growth = Grown(meter[c], counted),
                                !.last = now, !.day = day,
                                !.conn = connected, !.muted = muted]

\* quota_clock_reversed and observation_checkpoint_stale.
ObserveRefused(c) ==
    LET m == meter[c]
    IN  /\ Counting(m) /\ now > m.last
        /\ \/ ClockReversed(m.day)
           \/ m.extra < ledger[c].extra
           \/ \E d \in {m.day, day} : m.free[d] < ledger[c].free[d]

-----------------------------------------------------------------------------
(* settle *)

Charges(c, m) ==
    \/ m.extra # ledger[c].extra \/ m.grace # ledger[c].grace
    \/ \E d \in Days : m.free[d] # ledger[c].free[d]

Debit(c, m, d) == m.free[d] - ledger[c].free[d]
ExtraDebit(c, m) == m.extra - ledger[c].extra

\* settlement_checkpoint_conflict, quota_clock_reversed and
\* quota_changed_before_settlement.  An absent account is opened by settle with
\* a whole day's pool, which is what FreeOn and ExtraPool answer for it.
SettleRefused(c, m) ==
    /\ Charges(c, m)
    /\ \/ ExtraDebit(c, m) < 0 \/ m.grace < ledger[c].grace
       \/ \E d \in Days : Debit(c, m, d) < 0
       \/ ClockReversed(m.day)
       \/ \E d \in Days : Debit(c, m, d) > FreeOn(d, daily[c])
       \/ ExtraDebit(c, m) > ExtraPool

Growth(m) == Least(m.billed, m.growth \div 2)

\* Mutant: a new day refills the extra pool's debit as well.
Debited_ExtraKept(c, m) ==
    LET today == IF account.open /\ account.day = m.day THEN account.free ELSE daily[c]
    IN  [open |-> TRUE, day |-> m.day, free |-> today - Debit(c, m, m.day),
         extra |-> IF account.open /\ account.day < m.day THEN ExtraPool
                   ELSE ExtraPool - ExtraDebit(c, m),
         version |-> IF account.open THEN account.version + 1 ELSE 1]

\* The account after the debit: opened if it is missing, moved to the meter's
\* date, less what the date and the extra pool are charged.
Debited(c, m) ==
    LET today == IF account.open /\ account.day = m.day THEN account.free ELSE daily[c]
    IN  [open |-> TRUE, day |-> m.day, free |-> today - Debit(c, m, m.day),
         extra |-> ExtraPool - ExtraDebit(c, m),
         version |-> IF account.open THEN account.version + 1 ELSE 1]

\* A meter that charges nothing more only lets the growth of the row advance.
settle(c, m) ==
    /\ ~SettleRefused(c, m)
    /\ IF Charges(c, m)
       THEN /\ account' = Debited(c, m)
            /\ usedOn' = [d \in Days |-> usedOn[d] + Debit(c, m, d)]
            /\ rowsOn' = rowsOn \cup m.dates
            /\ ledger' = [ledger EXCEPT ![c] =
                   [free |-> m.free, extra |-> m.extra, grace |-> m.grace, growth |-> Growth(m)]]
       ELSE /\ ledger' = [ledger EXCEPT ![c].growth = IF @ > Growth(m) THEN @ ELSE Growth(m)]
            /\ UNCHANGED <<account, usedOn, rowsOn>>

-----------------------------------------------------------------------------
Init ==
    /\ now = 0 /\ day = 0 /\ midnight = 0
    /\ account = [open |-> FALSE, day |-> 0, free |-> 0, extra |-> 0, version |-> 0]
    /\ usedOn = NothingUsed /\ rowsOn = {}
    /\ status = [c \in Calls |-> "none"]
    /\ daily = [c \in Calls |-> 0]
    /\ gate = [c \in Calls |-> "none"]
    /\ meter = [c \in Calls |-> NewMeter]
    /\ ckpt = [c \in Calls |-> NewMeter]
    /\ ledger = [c \in Calls |->
           [free |-> NothingUsed, extra |-> 0, grace |-> 0, growth |-> 0]]
    /\ talked = [c \in Calls |-> 0] /\ spoken = [c \in Calls |-> 0]
    /\ granted = 0

Active(c) == status[c] \in {"waiting", "talking"}

\* Mutant: a user may have two calls at once.
Create_Twice(c, dailySeconds) ==
    /\ status[c] = "none"
    /\ ~ClockReversed(day)
    /\ PublishedFree(dailySeconds) + ExtraPool > 0
    /\ account' = IF account.open /\ account.day = day
                     /\ account.free # PublishedFree(dailySeconds)
                  THEN [account EXCEPT !.free = PublishedFree(dailySeconds),
                                       !.version = @ + 1]
                  ELSE account
    /\ status' = [status EXCEPT ![c] = "waiting"]
    /\ daily' = [daily EXCEPT ![c] = dailySeconds]
    /\ UNCHANGED <<clockVars, usedOn, rowsOn, ledger, gate, meter, ckpt, history>>

(* create: the balance gate, and apply_published_balance in its transaction. *)
Create(c, dailySeconds) ==
    /\ status[c] = "none" /\ \A other \in Calls : ~Active(other)
    /\ ~ClockReversed(day)
    /\ PublishedFree(dailySeconds) + ExtraPool > 0
    /\ account' = IF account.open /\ account.day = day
                     /\ account.free # PublishedFree(dailySeconds)
                  THEN [account EXCEPT !.free = PublishedFree(dailySeconds),
                                       !.version = @ + 1]
                  ELSE account
    /\ status' = [status EXCEPT ![c] = "waiting"]
    /\ daily' = [daily EXCEPT ![c] = dailySeconds]
    /\ UNCHANGED <<clockVars, usedOn, rowsOn, ledger, gate, meter, ckpt, history>>

\* Mutant: the first grant does not wait for the call to settle.
GrantExtra_DuringCall(seconds, expectedVersion, dailySeconds) ==
    /\ expectedVersion = (IF account.open THEN account.version ELSE 0)
    /\ ~ClockReversed(day)
    /\ ExtraPool <= ExtraCap - seconds
    /\ account' = IF account.open
                  THEN [account EXCEPT !.extra = @ + seconds, !.version = @ + 1]
                  ELSE [open |-> TRUE, day |-> day, free |-> Surplus(dailySeconds, usedOn[day]),
                        extra |-> seconds, version |-> 1]
    /\ granted' = granted + seconds
    /\ UNCHANGED <<clockVars, usedOn, rowsOn, ledger, status, daily, gate, meter, ckpt,
                   talked, spoken>>

(* grant_extra, for an administrator who was shown the account at a version. *)
GrantExtra(seconds, expectedVersion, dailySeconds) ==
    /\ expectedVersion = (IF account.open THEN account.version ELSE 0)
    /\ account.open \/ \A c \in Calls : ~Active(c)
    /\ ~ClockReversed(day)
    /\ ExtraPool <= ExtraCap - seconds
    /\ account' = IF account.open
                  THEN [account EXCEPT !.extra = @ + seconds, !.version = @ + 1]
                  ELSE [open |-> TRUE, day |-> day, free |-> Surplus(dailySeconds, usedOn[day]),
                        extra |-> seconds, version |-> 1]
    /\ granted' = granted + seconds
    /\ UNCHANGED <<clockVars, usedOn, rowsOn, ledger, status, daily, gate, meter, ckpt,
                   talked, spoken>>

(* The gateway of a call, as far as the meter sees it. *)

GateUnchanged == UNCHANGED <<clockVars, moneyVars, daily, history>>

\* run: the first observation, before anything is connected.
Start(c) ==
    /\ status[c] = "waiting" /\ gate[c] = "none"
    /\ gate' = [gate EXCEPT ![c] = "run"]
    /\ meter' = [meter EXCEPT ![c] = observed(c, FALSE, FALSE)]
    /\ GateUnchanged /\ UNCHANGED <<status, ckpt>>

\* The row becomes connected; the meter is told afterwards.
Connect(c) ==
    /\ status[c] = "waiting" /\ gate[c] = "run"
    /\ status' = [status EXCEPT ![c] = "talking"]
    /\ GateUnchanged /\ UNCHANGED <<gate, meter, ckpt>>

\* heartbeat, ending_clock, microphone_state, disconnected and restored.
\* Only a row that is connected lets the meter go back to connected.
Observe(c, connected, muted) ==
    /\ gate[c] = "run" /\ ~ObserveRefused(c)
    /\ connected => meter[c].conn \/ status[c] = "talking"
    /\ meter' = [meter EXCEPT ![c] = observed(c, connected, muted)]
    /\ GateUnchanged /\ UNCHANGED <<status, gate, ckpt>>

\* stop_local: the stop instant is observed before anything else is closed.
Stop(c) ==
    /\ gate[c] = "run" /\ ~ObserveRefused(c)
    /\ gate' = [gate EXCEPT ![c] = "stopped"]
    /\ meter' = [meter EXCEPT ![c] = observed(c, FALSE, @.muted)]
    /\ GateUnchanged /\ UNCHANGED <<status, ckpt>>

\* The last turn of ending_clock, asleep when the session stopped: the meter is
\* disconnected, but grace runs on.
ObserveStopped(c) ==
    /\ gate[c] = "stopped" /\ day <= meter[c].day + 1
    /\ ~ObserveRefused(c)
    /\ meter' = [meter EXCEPT ![c] = observed(c, FALSE, @.muted)]
    /\ GateUnchanged /\ UNCHANGED <<status, gate, ckpt>>

\* An observation that raises ends the session's tasks.
ObserveRaises(c) ==
    /\ gate[c] = "run" /\ ObserveRefused(c)
    /\ gate' = [gate EXCEPT ![c] = "stopped"]
    /\ GateUnchanged /\ UNCHANGED <<status, meter, ckpt>>

\* CHECKPOINT_LUA keeps the later of two checkpoints.  The key lives a day, but
\* nothing reads it once the row has ended: the model forgets it then.
Checkpoint(c) ==
    /\ gate[c] = "run" /\ Active(c)
    /\ ckpt[c].last < meter[c].last
    /\ ckpt' = [ckpt EXCEPT ![c] = meter[c]]
    /\ GateUnchanged /\ UNCHANGED <<status, gate, meter>>

\* The process dies with its meter.
Crash(c) ==
    /\ gate[c] \in {"run", "stopped"}
    /\ gate' = [gate EXCEPT ![c] = "gone"]
    /\ meter' = [meter EXCEPT ![c] = NewMeter]
    /\ GateUnchanged /\ UNCHANGED <<status, ckpt>>

(* end_call: the settlement and the end are one transaction. *)

\* A call that never connected ends without a settlement.
EndUnconnected(c) ==
    /\ status[c] = "waiting"
    /\ status' = [status EXCEPT ![c] = "ended"]
    /\ ckpt' = [ckpt EXCEPT ![c] = NewMeter]
    /\ UNCHANGED <<clockVars, moneyVars, daily, gate, meter, history>>

\* In the process that owns the session: its meter is the evidence.
EndByOwner(c) ==
    /\ status[c] = "talking" /\ gate[c] = "stopped"
    /\ settle(c, meter[c])
    /\ status' = [status EXCEPT ![c] = "ended"]
    /\ gate' = [gate EXCEPT ![c] = "gone"]
    /\ meter' = [meter EXCEPT ![c] = NewMeter]
    /\ ckpt' = [ckpt EXCEPT ![c] = NewMeter]
    /\ UNCHANGED <<clockVars, daily, history>>

\* In any other process, whether or not the owner still runs: recover.
EndByRecovery(c) ==
    /\ status[c] = "talking" /\ ckpt[c].last # NoTime
    /\ settle(c, ckpt[c])
    /\ status' = [status EXCEPT ![c] = "ended"]
    /\ ckpt' = [ckpt EXCEPT ![c] = NewMeter]
    /\ UNCHANGED <<clockVars, daily, gate, meter, history>>

\* The owner of a call that was ended for it leaves.
Leave(c) ==
    /\ gate[c] = "stopped" /\ status[c] = "ended"
    /\ gate' = [gate EXCEPT ![c] = "gone"]
    /\ meter' = [meter EXCEPT ![c] = NewMeter]
    /\ GateUnchanged /\ UNCHANGED <<status, ckpt>>

(* Time. *)

\* Bound: a running session is observed at least once a day - ending_clock does
\* it every quarter of a second, a day has 86400 seconds.
OneMidnight(newDay) == \A c \in Calls : gate[c] = "run" => newDay <= meter[c].day + 1

Tick ==
    LET newDay == IF now + 1 = midnight + DayLen THEN day + 1 ELSE day
    IN  /\ now < MaxNow /\ newDay <= MaxDay /\ OneMidnight(newDay)
        /\ now' = now + 1 /\ day' = newDay
        /\ midnight' = IF newDay = day THEN midnight ELSE now + 1
        /\ talked' = [c \in Calls |->
               IF gate[c] = "run" /\ meter[c].conn THEN talked[c] + 1 ELSE talked[c]]
        /\ spoken' = [c \in Calls |->
               IF gate[c] = "run" /\ meter[c].conn /\ ~meter[c].muted
               THEN spoken[c] + 1 ELSE spoken[c]]
        /\ UNCHANGED <<moneyVars, status, daily, gate, meter, ckpt, granted>>

Next ==
    \/ Tick
    \/ \E seconds \in Grants, version \in 0..account.version, dailySeconds \in DailySeconds :
           GrantExtra(seconds, version, dailySeconds)
    \/ \E c \in Calls :
           \/ \E dailySeconds \in DailySeconds : Create(c, dailySeconds)
           \/ \E connected \in BOOLEAN, muted \in Mutes : Observe(c, connected, muted)
           \/ Start(c) \/ Connect(c) \/ Stop(c) \/ ObserveStopped(c) \/ ObserveRaises(c)
           \/ Checkpoint(c) \/ Crash(c) \/ Leave(c)
           \/ EndUnconnected(c) \/ EndByOwner(c) \/ EndByRecovery(c)

Spec == Init /\ [][Next]_vars

-----------------------------------------------------------------------------
\* Nothing that happens between the observation that reserves seconds and the
\* settlement that takes them - a grant, a publication, a new day, another
\* finalizer - may make settle refuse: a call that cannot be settled cannot end.
SettlementNeverRefused ==
    \A c \in Calls : status[c] = "talking" =>
        /\ gate[c] \in {"run", "stopped"} => ~SettleRefused(c, meter[c])
        /\ ckpt[c].last # NoTime => ~SettleRefused(c, ckpt[c])

\* The meter of a call whose row is active can always be observed: the account
\* does not run ahead of it, nor the ledger of what it has reserved.
ObservationNeverRefused ==
    \A c \in Calls : Active(c) => ~ObserveRefused(c)

\* However the observations cut the time - at half seconds, over midnight, over
\* pauses - the meter bills whole seconds of talk: never more than was talked,
\* and short by less than a second until the grace period begins.
BilledIsTalk ==
    \A c \in Calls : gate[c] \in {"run", "stopped"} =>
        LET m == meter[c]
        IN  /\ 2 * m.billed <= talked[c]
            /\ m.last = now /\ m.graceAt = NoTime => talked[c] - 2 * m.billed < 2

\* Growth is earned by talk with the microphone on, outside the grace period, and
\* paid for: the row never gets more, the meter never less.
GrowthIsPaidSpeech ==
    \A c \in Calls :
        /\ 2 * ledger[c].growth <= spoken[c]
        /\ gate[c] = "run" /\ meter[c].last = now /\ meter[c].graceAt = NoTime
              => meter[c].growth = spoken[c]

\* The free seconds of one date, over all calls, stay within the daily seconds of
\* one of the calls that used them: neither a publication in between nor a
\* settlement after midnight hands the pool out twice.
FreeWithinDaily ==
    \A d \in Days : usedOn[d] > 0 =>
        \E c \in Calls : ledger[c].free[d] > 0 /\ usedOn[d] <= daily[c]

\* Every granted second is in the extra pool or in the ledger of one call.
ExtraUsed == UNION {{c} \X (1..ledger[c].extra) : c \in Calls}

ExtraConserved == ExtraPool + Cardinality(ExtraUsed) = granted

\* Grace begins at an instant at which both pools were spent; the pool that
\* midnight refills at that very instant is not spent.
GraceOnlyWhenSpent ==
    [][\A c \in Calls :
         LET m == meter'[c]
             d == IF m.graceAt < midnight THEN day - 1 ELSE day
         IN  meter[c].graceAt = NoTime /\ m.graceAt # NoTime
                => Available(c, m, d) = 0]_vars

\* Whatever changes what an administrator was shown carries a new version, so a
\* grant against an old view, or sent twice, is refused.
AccountChangesCarryVersion ==
    [][account' # account => account'.version > account.version]_vars

\* docs/contract/current/realtime-voice/data.md: what an account shows is the
\* published daily seconds less the free seconds used that day; the old daily
\* value never masks the new one.
PublishedDailyShown ==
    \A v \in DailySeconds :
        account.open /\ account.day = day => PublishedFree(v) = Surplus(v, usedOn[day])
=============================================================================
