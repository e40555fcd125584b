--------------------------- MODULE VoiceAdmission ---------------------------
(***************************************************************************)
(* How a call comes to exist and how its one socket gets in:               *)
(*   create    backend/services/realtime_voice_create_service.py           *)
(*   consume   backend/services/realtime_voice_ticket_service.py           *)
(* create holds the user's row lock from its first query to its commit and *)
(* talks to Redis in between, so it is three steps under that lock; any    *)
(* transaction elsewhere that wants the lock waits (UserLocked).           *)
(*                                                                         *)
(* Left out because they write nothing: the answer to a replayed request,  *)
(* the 409 for a reused key, and which of the gates (browser, microphone,  *)
(* configuration, crisis words, quota, provider) refused - CreateRejected  *)
(* may happen whatever the state.                                          *)
(***************************************************************************)
EXTENDS VoiceState

CONSTANTS
    Keys,       \* Idempotency-Key values
    Procs       \* server processes

VARIABLES
    record,     \* voice_call_create_idempotency: the call of (user, key)
    tickets,    \* calls whose ticket is neither consumed nor expired
    minted,     \* call ids that ACQUIRE has been run with
    creating    \* the create transaction that holds the user's lock

admissionVars == <<record, tickets, minted, creating>>

Idle == [phase |-> "idle"]
Creation == [phase : {"checked"}, key : Keys, proc : Procs]
            \cup [phase : {"leased"}, call : Calls, key : Keys, proc : Procs]

AdmissionTypeOK ==
    /\ record \in [Users -> [Keys -> Calls \cup {NoCall}]]
    /\ tickets \in SUBSET Calls
    /\ minted \in SUBSET Calls
    /\ creating \in [Users -> {Idle} \cup Creation]

AdmissionInit ==
    /\ record = [u \in Users |-> [k \in Keys |-> NoCall]]
    /\ tickets = {}
    /\ minted = {}
    /\ creating = [u \in Users |-> Idle]

UserLocked(u) == creating[u] # Idle
CallLocked(c) == UserLocked(UserOf[c])
CallsOf(u) == {c \in Calls : UserOf[c] = u}

-----------------------------------------------------------------------------
(* create *)

\* Mutant: a key that has a record dials again instead of being answered.
CreateChecks_NoReplay(u, k, p) ==
    /\ ~UserLocked(u)
    /\ cooldown[u] = 0
    /\ creating' = [creating EXCEPT ![u] = [phase |-> "checked", key |-> k, proc |-> p]]
    /\ UNCHANGED <<leaseVars, rowVars, record, tickets, minted>>

\* The lock is taken, the key has no replayable record, the cooldown key is
\* absent: from here on the handler awaits configuration, balance, provider.
CreateChecks(u, k, p) ==
    /\ ~UserLocked(u)
    /\ record[u][k] = NoCall
    /\ cooldown[u] = 0
    /\ creating' = [creating EXCEPT ![u] = [phase |-> "checked", key |-> k, proc |-> p]]
    /\ UNCHANGED <<leaseVars, rowVars, record, tickets, minted>>

\* Mutant: trusts the lease to keep a second call out.
CreateLeases_NoQuery(u, c, ttl) ==
    /\ creating[u].phase = "checked"
    /\ UserOf[c] = u /\ c \notin minted
    /\ AcquireGranted(c, ttl)
    /\ minted' = minted \cup {c}
    /\ creating' = [creating EXCEPT ![u] =
                      [phase |-> "leased", call |-> c,
                       key |-> creating[u].key, proc |-> creating[u].proc]]
    /\ UNCHANGED <<rowVars, record, tickets>>

\* The existing-call query is the last check before the lease is acquired.
CreateLeases(u, c, ttl) ==
    /\ creating[u].phase = "checked"
    /\ UserOf[c] = u /\ c \notin minted
    /\ \A d \in CallsOf(u) : status[d] \notin ACTIVE
    /\ AcquireGranted(c, ttl)
    /\ minted' = minted \cup {c}
    /\ creating' = [creating EXCEPT ![u] =
                      [phase |-> "leased", call |-> c,
                       key |-> creating[u].key, proc |-> creating[u].proc]]
    /\ UNCHANGED <<rowVars, record, tickets>>

\* user_busy or capacity_full: nothing to release, the transaction rolls back.
CreateRefused(u, c) ==
    /\ creating[u].phase = "checked"
    /\ UserOf[c] = u /\ c \notin minted
    /\ \A d \in CallsOf(u) : status[d] \notin ACTIVE
    /\ AcquireRefused(c)
    /\ creating' = [creating EXCEPT ![u] = Idle]
    /\ UNCHANGED <<rowVars, record, tickets, minted>>

CreateRejected(u) ==
    /\ creating[u].phase = "checked"
    /\ creating' = [creating EXCEPT ![u] = Idle]
    /\ UNCHANGED <<leaseVars, rowVars, record, tickets, minted>>

InsertCall(u) ==
    LET c == creating[u].call
    IN  /\ status' = [status EXCEPT ![c] = "deciding"]
        /\ record' = [record EXCEPT ![u][creating[u].key] = c]
        /\ tickets' = tickets \cup {c}
        /\ creating' = [creating EXCEPT ![u] = Idle]
        /\ UNCHANGED <<connectedAt, age, sinceEnd, minted>>

CreateCommits(u) ==
    /\ creating[u].phase = "leased"
    /\ InsertCall(u)
    /\ UNCHANGED leaseVars

\* COMMIT was carried out but its answer was lost: the handler rolls back a
\* finished transaction and releases the lease of a call that exists.
CreateCommitAnswerLost(u) ==
    /\ creating[u].phase = "leased"
    /\ InsertCall(u)
    /\ Release(creating[u].call)

CreateRollsBack(u) ==
    /\ creating[u].phase = "leased"
    /\ Release(creating[u].call)
    /\ creating' = [creating EXCEPT ![u] = Idle]
    /\ UNCHANGED <<rowVars, record, tickets, minted>>

\* The rollback without the release: the release failed, the request was
\* cancelled while ACQUIRE was awaited ("acquired" is still False), or the
\* process died.  The lease stays until its lifetime runs out.
CreateAbandons(u) ==
    /\ creating[u].phase = "leased"
    /\ creating' = [creating EXCEPT ![u] = Idle]
    /\ UNCHANGED <<leaseVars, rowVars, record, tickets, minted>>

-----------------------------------------------------------------------------
(* consume_voice_ticket *)

Consumable(c) ==
    /\ \E k \in Keys : record[UserOf[c]][k] = c
    /\ c \in tickets
    /\ status[c] \in {"deciding", "ringing"}
    /\ userKey[UserOf[c]] = c

\* Mutant: ticket_consumed_at is checked by nobody.
ConsumeTicket_Reusable(c) ==
    /\ ~CallLocked(c)
    /\ Consumable(c)
    /\ UNCHANGED <<leaseVars, rowVars, admissionVars>>

ConsumeTicket(c) ==
    /\ ~CallLocked(c)
    /\ Consumable(c)
    /\ tickets' = tickets \ {c}
    /\ UNCHANGED <<leaseVars, rowVars, record, minted, creating>>

TicketExpires(c) ==
    /\ c \in tickets
    /\ tickets' = tickets \ {c}
    /\ UNCHANGED <<leaseVars, rowVars, record, minted, creating>>

\* After replay_expires_at (24 h, far beyond the ticket and the call) create
\* deletes the record before it goes on; until then no one can tell.
ReplayExpires(u, k) ==
    /\ ~UserLocked(u)
    /\ record[u][k] # NoCall
    /\ record[u][k] \notin tickets
    /\ status[record[u][k]] \in TERMINAL
    /\ record' = [record EXCEPT ![u][k] = NoCall]
    /\ UNCHANGED <<leaseVars, rowVars, tickets, minted, creating>>

-----------------------------------------------------------------------------
(* Invariants of admission. *)

\* One call of a user is in progress at most, across devices, keys, retries
\* and processes: the Redis lease expires, so it is the query under the user's
\* lock that has to hold this up.
OneActiveCallPerUser ==
    \A c, d \in Calls :
        UserOf[c] = UserOf[d] /\ status[c] \in ACTIVE /\ status[d] \in ACTIVE => c = d

\* A retried request never dials twice: the call a key stands for is replaced
\* by another one only after the record was given up, although the key is
\* looked up several awaits before the new record is written.
KeyDialsOnce ==
    [][\A u \in Users, k \in Keys :
          record[u][k] # NoCall => record'[u][k] \in {NoCall, record[u][k]}]_record
=============================================================================
