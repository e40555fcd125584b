----------------------------- MODULE VoiceState -----------------------------
(***************************************************************************)
(* The voice_call row as backend/services/realtime_voice_state_service.py  *)
(* moves it: the transition table, transition_call and stage_final_state.  *)
(* Both run with the rows of the user and of the call locked; the modules  *)
(* that use these operators add that guard.                                *)
(***************************************************************************)
EXTENDS VoiceLease

CONSTANTS
    HardLimit,      \* quota.hard_limit_seconds: ticks a call may stay connected
    RecentTicks     \* the 180 s in which reconcile still cleans an ended call

ASSUME StateAssumption ==
    /\ HardLimit \in Nat \ {0}
    /\ RecentTicks \in Nat \ {0}

VARIABLES
    status,         \* voice_call.status, "none" while there is no row
    connectedAt,    \* voice_call.connected_at is set
    age,            \* ticks since connected_at, counted up to HardLimit
    sinceEnd        \* ticks since ended_at, counted up to RecentTicks

rowVars == <<status, connectedAt, age, sinceEnd>>

TERMINAL == {"ended", "missed", "failed", "cancelled"}
ACTIVE == {"deciding", "ringing", "connected", "reconnecting", "ending"}

TRANSITIONS(from) ==
    CASE from = "deciding"     -> {"ringing", "missed", "failed", "cancelled"}
      [] from = "ringing"      -> {"connected", "missed", "failed", "cancelled"}
      [] from = "connected"    -> {"reconnecting", "ending"}
      [] from = "reconnecting" -> {"connected", "ending"}
      [] from = "ending"       -> {"ended"}
      [] OTHER                 -> {}

StateTypeOK ==
    /\ status \in [Calls -> {"none"} \cup ACTIVE \cup TERMINAL]
    /\ connectedAt \in [Calls -> BOOLEAN]
    /\ age \in [Calls -> 0..HardLimit]
    /\ sinceEnd \in [Calls -> 0..RecentTicks]

StateInit ==
    /\ status = [c \in Calls |-> "none"]
    /\ connectedAt = [c \in Calls |-> FALSE]
    /\ age = [c \in Calls |-> 0]
    /\ sinceEnd = [c \in Calls |-> 0]

\* The reasons end_call is given that final_status tells apart; "other" stands
\* for every reason that is not a user's and not character_missed.
Reasons == {"user_hangup", "character_missed", "other"}

\* Mutant: the user's reason outweighs connected_at.
final_status_ReasonFirst(c, reason) ==
    IF reason = "user_hangup" THEN "cancelled"
    ELSE IF connectedAt[c] THEN "ended"
    ELSE IF reason = "character_missed" THEN "missed"
    ELSE "failed"

final_status(c, reason) ==
    IF connectedAt[c] THEN "ended"
    ELSE IF reason = "user_hangup" THEN "cancelled"
    ELSE IF reason = "character_missed" THEN "missed"
    ELSE "failed"

\* A terminal row is left as it is.
stage_final_state(c, reason) ==
    /\ status' = IF status[c] \in ACTIVE
                 THEN [status EXCEPT ![c] = final_status(c, reason)]
                 ELSE status
    /\ UNCHANGED <<connectedAt, age, sinceEnd>>

\* The effect of transition_call.  A row outside "expected" is left alone and
\* the caller is told so (Transits is FALSE).  No caller expects a state that
\* connected_at can be set in together with a terminal target, so the branch
\* that raises connected_call_requires_finalizer is not reached.
Transits(c, expected) == status[c] \in expected

transition_call(c, expected, target) ==
    /\ status' = IF Transits(c, expected)
                 THEN [status EXCEPT ![c] = target]
                 ELSE status
    /\ connectedAt' = IF Transits(c, expected) /\ target = "connected"
                      THEN [connectedAt EXCEPT ![c] = TRUE]
                      ELSE connectedAt
    /\ UNCHANGED <<age, sinceEnd>>

\* The server clock, seen through connected_at and ended_at.
RowTick ==
    /\ age' = [c \in Calls |->
                 IF connectedAt[c] /\ age[c] < HardLimit THEN age[c] + 1 ELSE age[c]]
    /\ sinceEnd' = [c \in Calls |->
                      IF status[c] \in TERMINAL /\ sinceEnd[c] < RecentTicks
                      THEN sinceEnd[c] + 1 ELSE sinceEnd[c]]
    /\ UNCHANGED <<status, connectedAt>>

-----------------------------------------------------------------------------
\* Whether a call ever connected is what decides its final state: a call ends
\* as "ended" exactly when connected_at is set, also when the finalizer's
\* decision and the last transition of the lifecycle cross each other.
FinalStateMatchesConnection ==
    \A c \in Calls :
        /\ status[c] = "ended" => connectedAt[c]
        /\ status[c] \in {"missed", "failed", "cancelled", "deciding", "ringing"}
              => ~connectedAt[c]
        /\ status[c] \in {"connected", "reconnecting"} => connectedAt[c]
=============================================================================
