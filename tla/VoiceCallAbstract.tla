-------------------------- MODULE VoiceCallAbstract --------------------------
(***************************************************************************)
(* What the voice service promises about a call, whatever gateways,        *)
(* finalizers, leases and processes do: a user has one unfinished call, a  *)
(* call that was never answered costs nothing, an answered one is charged  *)
(* once, in the step that finishes it, at most the time it was metered,    *)
(* and a finished call stays as it is.                                     *)
(***************************************************************************)
EXTENDS Naturals

CONSTANTS Calls, UserOf

VARIABLES
    phase,      \* "none", "setup" (not answered yet), "live" or "done"
    spoken,     \* time metered so far
    charge      \* what the call costs its user

absVars == <<phase, spoken, charge>>

AbsInit ==
    /\ phase = [c \in Calls |-> "none"]
    /\ spoken = [c \in Calls |-> 0]
    /\ charge = [c \in Calls |-> 0]

Place(c) ==
    /\ phase[c] = "none"
    /\ \A d \in Calls : UserOf[d] = UserOf[c] => phase[d] \in {"none", "done"}
    /\ phase' = [phase EXCEPT ![c] = "setup"]
    /\ UNCHANGED <<spoken, charge>>

Answer(c) ==
    /\ phase[c] = "setup"
    /\ phase' = [phase EXCEPT ![c] = "live"]
    /\ UNCHANGED <<spoken, charge>>

\* Meters run on until their owner has learnt of the end.
Speak ==
    /\ \E S \in SUBSET {c \in Calls : phase[c] \in {"live", "done"}} :
          spoken' = [c \in Calls |-> IF c \in S THEN spoken[c] + 1 ELSE spoken[c]]
    /\ UNCHANGED <<phase, charge>>

GiveUp(c) ==
    /\ phase[c] = "setup"
    /\ phase' = [phase EXCEPT ![c] = "done"]
    /\ UNCHANGED <<spoken, charge>>

Settle(c) ==
    /\ phase[c] = "live"
    /\ phase' = [phase EXCEPT ![c] = "done"]
    /\ charge' \in {[charge EXCEPT ![c] = n] : n \in 0..spoken[c]}
    /\ UNCHANGED spoken

AbsNext ==
    \/ Speak
    \/ \E c \in Calls : Place(c) \/ Answer(c) \/ GiveUp(c) \/ Settle(c)

AbsSpec == AbsInit /\ [][AbsNext]_absVars
=============================================================================
