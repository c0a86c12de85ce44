------------------------------ MODULE MCUpdates ------------------------------
(***************************************************************************)
(* Small instances of FirmwareReleases, OtaJobs and TransportSwitch for     *)
(* TLC.  They share no variable: a run picks one of them at the start, as   *)
(* interleaving them would only visit the product of their states.          *)
(***************************************************************************)
EXTENDS FirmwareReleases, OtaJobs, TransportSwitch, TLC

CONSTANTS r1, r2, l1

VARIABLE part

\* Two releases of one line, the second newer.
MCVersionOf == r1 :> 1 @@ r2 :> 2
MCLineOf == [r \in Release |-> l1]
MCLinesOf == [n \in Node |-> {l1}]

MCSymmetry == Permutations(OtaThread) \cup Permutations(Job)

UpdatesInit ==
    /\ part \in {"CATALOGUE", "JOBS", "TRANSPORT"}
    /\ ReleaseInit /\ OtaInit /\ TransportInit

\* Jobs are for r1 alone, and devices run it or what came before.
FirstRelease ==
    /\ active' \subseteq {r1}
    /\ \A n \in Node : devices'[n].current < VersionOf[r2]

\* A request is cut off or a command is retried, not both in one behaviour.
OneFault == cut' = {} \/ \A c \in Step : Made(c)' => steps'[c].rounds = 0

UpdatesNext ==
    /\ UNCHANGED part
    /\ \/ part = "CATALOGUE" /\ ReleaseNext /\ UNCHANGED <<otaVars, transportVars>>
       \/ part = "JOBS" /\ OtaNext /\ FirstRelease /\ UNCHANGED <<releaseVars, transportVars>>
       \/ part = "TRANSPORT" /\ TransportNext /\ OneFault /\ UNCHANGED <<releaseVars, otaVars>>

UpdatesSpec == UpdatesInit /\ [][UpdatesNext]_<<part, releaseVars, otaVars, transportVars>>

\* The inductive invariants of the proofs, each where its part runs: the others are
\* still where they started.
UpdatesInv ==
    /\ part = "CATALOGUE" => ReleaseInv
    /\ part = "JOBS" => OtaInv
    /\ part = "TRANSPORT" => TransportInv
=============================================================================
