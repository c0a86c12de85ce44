--------------------------- MODULE ActiveReleases ---------------------------
(***************************************************************************)
(* What devices see of the catalogue of firmware: the releases on offer.    *)
(* A release is put on offer in the place of the one of its line, or one is *)
(* taken from offer; nothing else ever changes the offer.  OtaJobs assumes  *)
(* no more than this of the catalogue, and FirmwareReleases implements it.  *)
(***************************************************************************)
EXTENDS Firmware

VARIABLE active    \* the releases on offer

Init == active = {}

Activate(r) == active' = {s \in active : LineOf[s] # LineOf[r]} \cup {r}

Withdraw(r) == active' = active \ {r}

Next == \E r \in Release : Activate(r) \/ Withdraw(r)

Spec == Init /\ [][Next]_active

=============================================================================
