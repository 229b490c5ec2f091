------------------------ MODULE CredentialLifecycle ------------------------
(***************************************************************************)
(* What the enrolment store promises of a credential, without its files:   *)
(* a credential is offered to a player, signed, and closed for good; only  *)
(* signed credentials are accepted by the VPN, and a credential is closed  *)
(* only when it is no longer accepted.                                     *)
(***************************************************************************)
CONSTANT Credentials

VARIABLES
    phase,      \* phase of each credential
    accepted    \* credentials the VPN verifier accepts

vars == <<phase, accepted>>

Phases == {"unborn", "offered", "signed", "closed"}

Init ==
    /\ phase = [c \in Credentials |-> "unborn"]
    /\ accepted = {}

Offer(c) ==
    /\ phase[c] = "unborn"
    /\ phase' = [phase EXCEPT ![c] = "offered"]
    /\ UNCHANGED accepted

SignOff(c) ==
    /\ phase[c] = "offered"
    /\ phase' = [phase EXCEPT ![c] = "signed"]
    /\ UNCHANGED accepted

Close(c) ==
    /\ phase[c] \in {"offered", "signed"}
    /\ c \notin accepted
    /\ phase' = [phase EXCEPT ![c] = "closed"]
    /\ UNCHANGED accepted

\* A new list of accepted credentials reaches the verifier.
Publish ==
    /\ accepted' \in SUBSET {c \in Credentials : phase[c] = "signed"}
    /\ UNCHANGED phase

Next == Publish \/ \E c \in Credentials : Offer(c) \/ SignOff(c) \/ Close(c)

Spec == Init /\ [][Next]_vars
=============================================================================
