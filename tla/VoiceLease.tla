----------------------------- MODULE VoiceLease -----------------------------
(***************************************************************************)
(* The Redis keys of backend/services/realtime_voice_lease_service.py and  *)
(* the five Lua scripts that are the only writers of them.  Redis runs a   *)
(* script without interruption, so one script is one action.               *)
(*                                                                         *)
(* Deadlines are kept as remaining lifetimes that Tick counts down: the    *)
(* scripts only ever compare a deadline with Redis TIME, so the difference *)
(* is all they can see, and the state space stays finite.                  *)
(***************************************************************************)
EXTENDS Integers, FiniteSets

CONSTANTS
    Users,          \* user ids
    Calls,          \* call ids (uuid4: never reused, minted for one user)
    NoCall,         \* "the key does not exist"
    UserOf,         \* the user a call id is minted for
    Ttls,           \* lease lifetimes the published configurations may carry
    Capacity,       \* concurrency.global_limit
    CooldownTicks   \* the 3000 ms of COOLDOWN

ASSUME LeaseAssumption ==
    /\ IsFiniteSet(Calls)
    /\ NoCall \notin Calls
    /\ UserOf \in [Calls -> Users]
    /\ Ttls \subseteq Nat \ {0}
    /\ Capacity \in Nat \ {0}
    /\ CooldownTicks \in Nat \ {0}

VARIABLES
    userKey,    \* voice:lease:user:{u}: the call that holds the user's slot
    keyTtl,     \* PX lifetime left of that key
    active,     \* members of the ZSET voice:lease:active, expired ones too
    expiry,     \* their score minus now, 0 once the score has passed
    owners,     \* fields of the HASH voice:lease:users
    cooldown    \* PX lifetime left of voice:cooldown:{u}, 0 when absent

leaseVars == <<userKey, keyTtl, active, expiry, owners, cooldown>>

LeaseTypeOK ==
    /\ userKey \in [Users -> Calls \cup {NoCall}]
    /\ keyTtl \in [Users -> Nat]
    /\ active \in SUBSET Calls
    /\ expiry \in [Calls -> Nat]
    /\ owners \in SUBSET Calls
    /\ cooldown \in [Users -> 0..CooldownTicks]

LeaseInit ==
    /\ userKey = [u \in Users |-> NoCall]
    /\ keyTtl = [u \in Users |-> 0]
    /\ active = {}
    /\ expiry = [c \in Calls |-> 0]
    /\ owners = {}
    /\ cooldown = [u \in Users |-> 0]

Live == {c \in active : expiry[c] > 0}
Expired == active \ Live

-----------------------------------------------------------------------------
(* The scripts.                                                            *)

\* Mutant: counts the slot it is about to take as free.
AcquireVerdict_OneOver(c) ==
    LET u == UserOf[c]
    IN  IF userKey[u] \notin {NoCall, c} THEN "user_busy"
        ELSE IF userKey[u] = NoCall /\ Cardinality(Live) > Capacity
        THEN "capacity_full"
        ELSE "acquired"

\* Mutant: looks at the capacity alone.
AcquireVerdict_SharedUser(c) ==
    IF Cardinality(Live) >= Capacity THEN "capacity_full" ELSE "acquired"

\* ACQUIRE's verdict.  The expired members are pruned before ZCARD is read.
AcquireVerdict(c) ==
    LET u == UserOf[c]
    IN  IF userKey[u] \notin {NoCall, c} THEN "user_busy"
        ELSE IF userKey[u] = NoCall /\ Cardinality(Live) >= Capacity
        THEN "capacity_full"
        ELSE "acquired"

\* A refused ACQUIRE has pruned all the same.
AcquireRefused(c) ==
    /\ AcquireVerdict(c) # "acquired"
    /\ active' = Live
    /\ owners' = owners \ Expired
    /\ UNCHANGED <<userKey, keyTtl, expiry, cooldown>>

AcquireGranted(c, ttl) ==
    /\ AcquireVerdict(c) = "acquired"
    /\ userKey' = [userKey EXCEPT ![UserOf[c]] = c]
    /\ keyTtl' = [keyTtl EXCEPT ![UserOf[c]] = ttl]
    /\ active' = Live \cup {c}
    /\ expiry' = [expiry EXCEPT ![c] = ttl]
    /\ owners' = (owners \ Expired) \cup {c}
    /\ UNCHANGED cooldown

RenewSucceeds(c) ==
    /\ userKey[UserOf[c]] = c
    /\ c \in Live

\* Mutant: prolongs the user's key and forgets the score.
Renew_KeyOnly(c, ttl) ==
    /\ RenewSucceeds(c)
    /\ keyTtl' = [keyTtl EXCEPT ![UserOf[c]] = ttl]
    /\ UNCHANGED <<userKey, active, expiry, owners, cooldown>>

Renew(c, ttl) ==
    /\ RenewSucceeds(c)
    /\ keyTtl' = [keyTtl EXCEPT ![UserOf[c]] = ttl]
    /\ expiry' = [expiry EXCEPT ![c] = ttl]
    /\ UNCHANGED <<userKey, active, owners, cooldown>>

\* Mutant: deletes the user's key whoever holds it.
Release_AnyOwner(c) ==
    LET u == UserOf[c]
    IN  /\ userKey' = [userKey EXCEPT ![u] = NoCall]
        /\ keyTtl' = [keyTtl EXCEPT ![u] = 0]
        /\ active' = active \ {c}
        /\ expiry' = [expiry EXCEPT ![c] = 0]
        /\ owners' = owners \ {c}
        /\ UNCHANGED cooldown

\* RELEASE returns 0 and writes nothing when the hash has lost the field.
Release(c) ==
    LET u == UserOf[c]
        mine == c \in owners
        held == mine /\ userKey[u] = c
    IN  /\ userKey' = IF held THEN [userKey EXCEPT ![u] = NoCall] ELSE userKey
        /\ keyTtl' = IF held THEN [keyTtl EXCEPT ![u] = 0] ELSE keyTtl
        /\ active' = IF mine THEN active \ {c} ELSE active
        /\ expiry' = IF mine THEN [expiry EXCEPT ![c] = 0] ELSE expiry
        /\ owners' = owners \ {c}
        /\ UNCHANGED cooldown

PruneExpired ==
    /\ active' = Live
    /\ owners' = owners \ Expired
    /\ UNCHANGED <<userKey, keyTtl, expiry, cooldown>>

\* remaining = min(3000, ended_at + 3000 - now), then SET NX: a replay of a
\* finished call never stretches the window, and never replaces another one.
Cooldown(u, sinceEnd) ==
    LET remaining == CooldownTicks - sinceEnd
    IN  /\ cooldown' = IF remaining > 0 /\ cooldown[u] = 0
                       THEN [cooldown EXCEPT ![u] = remaining]
                       ELSE cooldown
        /\ UNCHANGED <<userKey, keyTtl, active, expiry, owners>>

\* Mutant: the user's key was set without PX.
LeaseTick_KeyWithoutPX ==
    /\ expiry' = [c \in Calls |-> IF expiry[c] > 0 THEN expiry[c] - 1 ELSE 0]
    /\ cooldown' = [u \in Users |-> IF cooldown[u] > 0 THEN cooldown[u] - 1 ELSE 0]
    /\ UNCHANGED <<userKey, keyTtl, active, owners>>

\* One unit of Redis TIME.  A key whose lifetime runs out is gone; a ZSET
\* member whose score has passed stays until a script prunes it.
LeaseTick ==
    /\ keyTtl' = [u \in Users |-> IF keyTtl[u] > 0 THEN keyTtl[u] - 1 ELSE 0]
    /\ userKey' = [u \in Users |-> IF keyTtl[u] > 1 THEN userKey[u] ELSE NoCall]
    /\ expiry' = [c \in Calls |-> IF expiry[c] > 0 THEN expiry[c] - 1 ELSE 0]
    /\ cooldown' = [u \in Users |-> IF cooldown[u] > 0 THEN cooldown[u] - 1 ELSE 0]
    /\ UNCHANGED <<active, owners>>

-----------------------------------------------------------------------------
(* The scripts under any caller whatever: finalizers that are repeated     *)
(* long after their call, renewals that arrive late, prunes at any moment. *)

LeaseNext ==
    \/ \E c \in Calls :
          \/ AcquireRefused(c)
          \/ \E ttl \in Ttls : AcquireGranted(c, ttl) \/ Renew(c, ttl)
          \/ Release(c)
    \/ \E u \in Users, sinceEnd \in 0..CooldownTicks : Cooldown(u, sinceEnd)
    \/ PruneExpired
    \/ LeaseTick

LeaseSpec == LeaseInit /\ [][LeaseNext]_leaseVars

-----------------------------------------------------------------------------
(* Properties.                                                             *)

\* The three keys tell one story: a call that holds its user's key is an
\* unexpired member of the ZSET with the same lifetime and is in the hash, and
\* an unexpired member always holds its user's key.  Otherwise a release by
\* hash could miss a held key, or capacity could count a call nobody holds.
KeysAgree ==
    /\ \A u \in Users : userKey[u] # NoCall =>
          /\ UserOf[userKey[u]] = u
          /\ userKey[u] \in active
          /\ expiry[userKey[u]] = keyTtl[u]
          /\ keyTtl[u] > 0
    /\ \A c \in active : expiry[c] > 0 => userKey[UserOf[c]] = c
    /\ owners = active

\* concurrency.global_limit bounds the unexpired leases of all users together,
\* across renewals, releases and prunes in any order.
CapacityRespected == Cardinality(Live) <= Capacity

\* One user never has two unexpired leases, whatever late release or renewal
\* of an earlier call is still on its way.
OneLeasePerUser ==
    \A c, d \in Live : UserOf[c] = UserOf[d] => c = d

\* A user's key never passes straight from one call to another: it is freed by
\* its own call's release or by expiry first, so the cleanup of an old call
\* that reconcile repeats cannot take the lease away from a newer one.
NoLeaseStealing ==
    [][\A u \in Users :
          userKey[u] \notin {NoCall, userKey'[u]} =>
              /\ userKey'[u] = NoCall
              /\ userKey[u] \notin Live']_leaseVars
=============================================================================
