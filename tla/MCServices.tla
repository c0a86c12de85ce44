----------------------------- MODULE MCServices -----------------------------
(***************************************************************************)
(* Small instances, for TLC, of services that share no variable: the mesh   *)
(* (its topology and the choice of routes among three nodes, its traffic    *)
(* between two), the sensors and the backups.  A run picks one of them at   *)
(* the start, as interleaving them would only visit the product of their    *)
(* states.                                                                 *)
(***************************************************************************)
EXTENDS MeshDelivery, SensorRecords, BackupRestore, TLC

CONSTANTS n1, n2, n3, m1, a1

VARIABLE service

\* A link of n1 to itself; over n2 there is a relay from n1 to n3.
MCRadio == {<<n1, n1>>, <<n1, n2>>, <<n2, n3>>}

\* A packet for the gateway, one for another node, and an answer.
MCArrivals ==
    {CreatePacket(m1, "DATA", n2, Gateway, m1),
     Routed(CreatePacket(m1, "DATA", n1, n2, m1), NoNode),
     CreatePacket(a1, "ACK", n2, n1, m1)}

MCSymmetry == Permutations(Thread) \cup Permutations(SensorThread)

\* The choices that can be told apart.  Two of them have only the stored routes in
\* common, which neither reads; the directions differ in their thresholds alone; and
\* whoever is not n1 has one link at most.
FewChoices ==
    /\ Cardinality({t \in Thread : choice'[t] # NoChoice}) <= 1
    /\ \A t \in Thread : choice'[t] # NoChoice =>
         choice'[t].source = n1 /\ choice'[t].direction = "downlink"
    /\ settings'.uplink = 0

\* Traffic: n1 and n2 know each other by their link, which stays as it is under a choice
\* (the routes show the rest), and n1 may become the master.
Near ==
    /\ \A p \in Pair \ {<<n1, n2>>} : links'[p] = -1
    /\ links'[<<n1, n2>>] <= 0 /\ settings'.downlink = 0
    /\ mesh'.role[n3] = "UNKNOWN" /\ mesh'.master # n2
    /\ mesh'.role[n2] = "UNKNOWN" <=> links'[<<n1, n2>>] = -1
    /\ \A t \in Thread : choice'[t] # NoChoice => choice'[t].destination = n2 /\ links' = links

ServicesInit ==
    /\ service \in {"TOPOLOGY", "ROUTES", "TRAFFIC", "SENSORS", "BACKUP"}
    /\ MeshInit /\ SensorInit /\ BackupInit
    /\ settings = [uplink |-> 0, downlink |-> 0, retries |-> 1]

ServicesNext ==
    /\ UNCHANGED service
    /\ \/ service = "TOPOLOGY" /\ ChangeRequest /\ UNCHANGED deliveryVars
       \/ service = "ROUTES" /\ MeshNext /\ UNCHANGED deliveryVars /\ FewChoices
            /\ mesh'.master = mesh.master
       \/ service = "TRAFFIC" /\ MeshNext /\ FewChoices /\ Near
       \/ service \in {"SENSORS", "BACKUP"} /\ UNCHANGED meshVars
    /\ IF service = "SENSORS" THEN SensorNext ELSE UNCHANGED sensorVars
    /\ IF service = "BACKUP" THEN BackupNext ELSE UNCHANGED backupVars

ServicesSpec == ServicesInit /\ [][ServicesNext]_<<service, meshVars, sensorVars, backupVars>>

\* The services' invariants.
ServicesInv == MeshInv /\ SensorInv /\ RestoreInv
=============================================================================
