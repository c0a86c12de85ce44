------------------------- MODULE MqttSwitchPromise -------------------------
(***************************************************************************)
(* What the broker switch promises: two sides move from one profile to the *)
(* next, the Master first and the Gateway after it, and only once the      *)
(* switch is decided.  Before the decision a switch can be abandoned;      *)
(* after it, it can only be finished.                                      *)
(***************************************************************************)
CONSTANTS Profile, FirstProfile, NoProfile

VARIABLES gateway, peer, proposal, decided

vars == <<gateway, peer, proposal, decided>>

Init ==
    /\ gateway = FirstProfile /\ peer = FirstProfile
    /\ proposal = NoProfile /\ decided = FALSE

Propose ==
    /\ proposal = NoProfile
    /\ proposal' \in Profile
    /\ UNCHANGED <<gateway, peer, decided>>

Abandon ==
    /\ proposal # NoProfile /\ ~decided
    /\ proposal' = NoProfile
    /\ UNCHANGED <<gateway, peer, decided>>

Decide ==
    /\ proposal # NoProfile /\ ~decided
    /\ decided' = TRUE
    /\ UNCHANGED <<gateway, peer, proposal>>

PeerMoves ==
    /\ decided
    /\ peer' = proposal
    /\ UNCHANGED <<gateway, proposal, decided>>

GatewayMoves ==
    /\ decided /\ peer = proposal
    /\ gateway' = proposal
    /\ proposal' = NoProfile /\ decided' = FALSE
    /\ UNCHANGED peer

Next == Propose \/ Abandon \/ Decide \/ PeerMoves \/ GatewayMoves

Spec == Init /\ [][Next]_vars

============================================================================
