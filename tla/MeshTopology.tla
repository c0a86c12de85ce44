---------------------------- MODULE MeshTopology ----------------------------
(***************************************************************************)
(* The server's picture of the LoRa mesh (mesh_manager) and the choice of a *)
(* next hop in it (routing_manager).  Every operation of the manager holds  *)
(* one lock.  select_route takes it for one reading at a time, and the      *)
(* requests of other threads may come in between: each reading is a step.   *)
(***************************************************************************)
EXTENDS Integers

CONSTANTS
    MeshNode, NoNode,
    Radio,        \* pairs of nodes of which links are reported
    Quality,      \* success rates and thresholds, by rank
    RetryLimits,  \* values of retry_count (the code allows 0..10)
    Thread        \* threads of the server

ASSUME MeshAssumption ==
    /\ NoNode \notin MeshNode /\ Radio \subseteq MeshNode \X MeshNode
    /\ Quality \subseteq Nat /\ 0 \in Quality
    /\ RetryLimits \subseteq Nat /\ RetryLimits # {}

VARIABLES
    mesh,        \* master_node_id and the role of each known node
    links,       \* success rate of each reported link, -1: not reported
    routes,      \* next hop of the stored routes
    settings,
    choice,      \* what the select_route of each thread has read
    outdated     \* history: threads under whose select_route a link or a setting changed

topologyVars == <<mesh, links, routes, settings, choice, outdated>>

Roles == {"NODE", "MASTER"}
Directions == {"uplink", "downlink"}
Settings == [uplink : Quality, downlink : Quality, retries : RetryLimits]
Pair == MeshNode \X MeshNode

\* `limit`: the threshold read last.  `rates`: the links of the source, read and not
\* yet compared.  `left`: neighbours whose second link is still to be read.
Choice ==
    [at : {"THRESHOLD", "DIRECT", "NEIGHBORS", "LIMIT", "SECOND", "STORE"},
     source : MeshNode, destination : MeshNode, direction : Directions,
     limit : Quality, rates : [MeshNode -> Quality \cup {-1}],
     left : SUBSET MeshNode, found : SUBSET MeshNode]
NoChoice == [at |-> "NOWHERE"]
NoRates == [r \in MeshNode |-> -1]

TopologyTypeOK ==
    /\ mesh \in [master : MeshNode \cup {NoNode}, role : [MeshNode -> Roles \cup {"UNKNOWN"}]]
    /\ links \in [Pair -> Quality \cup {-1}]
    /\ routes \in [Pair -> MeshNode \cup {NoNode}]
    /\ settings \in Settings
    /\ choice \in [Thread -> Choice \cup {NoChoice}]
    /\ outdated \subseteq Thread

TopologyInit ==
    /\ mesh = [master |-> NoNode, role |-> [n \in MeshNode |-> "UNKNOWN"]]
    /\ links = [p \in Pair |-> -1]
    /\ routes = [p \in Pair |-> NoNode]
    /\ settings \in Settings
    /\ choice = [t \in Thread |-> NoChoice] /\ outdated = {}

-----------------------------------------------------------------------------
(* mesh_manager.                                                           *)

\* History: the threads that are choosing meanwhile.
Overtakes ==
    outdated' = IF links' = links /\ settings' = settings THEN outdated
                ELSE {t \in Thread : choice[t] # NoChoice}

\* _ensure_node: a node that is not known yet is entered as an ordinary one.
Ensured(role, nodes) ==
    [n \in MeshNode |-> IF n \in nodes /\ role[n] = "UNKNOWN" THEN "NODE" ELSE role[n]]

\* set_master: the other nodes lose the role.
Mastered(role, m) ==
    [n \in MeshNode |-> IF n = m THEN "MASTER" ELSE IF role[n] = "UNKNOWN" THEN "UNKNOWN" ELSE "NODE"]

SetMaster(m) ==
    /\ mesh' = [master |-> m, role |-> Mastered(mesh.role, m)]
    /\ UNCHANGED <<links, routes, settings, choice, outdated>>

\* register_node: registered as MASTER, a node becomes the master; registered
\* as NODE, a master keeps master_node_id and loses its role.
RegisterNode(n, role) ==
    /\ mesh' = IF role = "MASTER"
               THEN [master |-> n, role |-> Mastered(mesh.role, n)]
               ELSE [mesh EXCEPT !.role[n] = "NODE"]
    /\ UNCHANGED <<links, routes, settings, choice, outdated>>

\* remove_node: the routes from the node go with it, those over it stay.
RemoveNode(n) ==
    /\ mesh.role[n] # "UNKNOWN"
    /\ mesh' = [master |-> IF mesh.master = n THEN NoNode ELSE mesh.master,
                role |-> [mesh.role EXCEPT ![n] = "UNKNOWN"]]
    /\ links' = [p \in Pair |-> IF n \in {p[1], p[2]} THEN -1 ELSE links[p]]
    /\ routes' = [p \in Pair |-> IF n = p[1] THEN NoNode ELSE routes[p]]
    /\ UNCHANGED <<settings, choice>>
    /\ Overtakes

UpdateLink(p, rate) ==
    /\ p \in Radio
    /\ mesh' = [mesh EXCEPT !.role = Ensured(@, {p[1], p[2]})]
    /\ links' = [links EXCEPT ![p] = rate]
    /\ UNCHANGED <<routes, settings, choice>>
    /\ Overtakes

\* update_settings stores one value after the other: a request whose later value
\* is refused has changed the earlier ones.
UpdateSettings(s) ==
    /\ settings' = s
    /\ UNCHANGED <<mesh, links, routes, choice>>
    /\ Overtakes

-----------------------------------------------------------------------------
(* routing_manager.                                                        *)

\* set_route; a packet that is where it belongs has no route.
StoreRoute(s, d, hop) ==
    IF s = d THEN UNCHANGED routes ELSE routes' = [routes EXCEPT ![<<s, d>>] = hop]

\* One thread's select_route has got on to c.
Chooses(t, c) ==
    /\ choice' = [choice EXCEPT ![t] = c]
    /\ UNCHANGED <<mesh, links, routes, settings, outdated>>

SelectBegins(t, s, d, direction) ==
    /\ choice[t] = NoChoice
    /\ Chooses(t, [at |-> IF s = d THEN "STORE" ELSE "THRESHOLD", source |-> s,
                   destination |-> d, direction |-> direction, limit |-> 0,
                   rates |-> NoRates, left |-> {}, found |-> IF s = d THEN {d} ELSE {}])

ReadsThreshold(t) ==
    LET c == choice[t] IN
    /\ c.at = "THRESHOLD"
    /\ Chooses(t, [c EXCEPT !.at = "DIRECT", !.limit = settings[c.direction]])

\* A direct link with enough success is the route.
ReadsDirect(t) ==
    LET c == choice[t] IN
    /\ c.at = "DIRECT"
    /\ Chooses(t, IF links[<<c.source, c.destination>>] >= c.limit
                  THEN [c EXCEPT !.at = "STORE", !.found = {c.destination}]
                  ELSE [c EXCEPT !.at = "NEIGHBORS"])

\* find_relay_candidates: the links of the source, which may be one to itself.
ReadsNeighbors(t) ==
    LET c == choice[t] IN
    /\ c.at = "NEIGHBORS"
    /\ Chooses(t, [c EXCEPT !.at = "LIMIT", !.rates = [r \in MeshNode |-> links[<<c.source, r>>]]])

\* The threshold is read again.
ReadsLimit(t) ==
    LET c == choice[t] IN
    /\ c.at = "LIMIT"
    /\ Chooses(t, [c EXCEPT !.at = "SECOND", !.limit = settings[c.direction], !.rates = NoRates,
                   !.left = {r \in MeshNode \ {c.destination} : c.rates[r] >= settings[c.direction]}])

\* Mistake: the neighbour's own link to the destination is not looked at.
ReadsSecondBlind(t, r) ==
    LET c == choice[t] IN
    /\ c.at = "SECOND" /\ r \in c.left
    /\ Chooses(t, [c EXCEPT !.left = @ \ {r}, !.found = @ \cup {r}])

\* The link of one neighbour to the destination.
ReadsSecond(t, r) ==
    LET c == choice[t] IN
    /\ c.at = "SECOND" /\ r \in c.left
    /\ Chooses(t, [c EXCEPT !.left = @ \ {r},
                   !.found = IF links[<<r, c.destination>>] >= c.limit THEN @ \cup {r} ELSE @])

Decided(c) == c.at = "STORE" \/ (c.at = "SECOND" /\ c.left = {})

\* The route goes over one of the candidates, the best by a score that weighs
\* readings the model leaves out.
SelectStores(t, hop) ==
    LET c == choice[t] IN
    /\ Decided(c) /\ hop \in c.found
    /\ StoreRoute(c.source, c.destination, hop)
    /\ choice' = [choice EXCEPT ![t] = NoChoice]
    /\ outdated' = outdated \ {t}
    /\ UNCHANGED <<mesh, links, settings>>

\* "No route available".
SelectFails(t) ==
    /\ Decided(choice[t]) /\ choice[t].found = {}
    /\ choice' = [choice EXCEPT ![t] = NoChoice]
    /\ outdated' = outdated \ {t}
    /\ UNCHANGED <<mesh, links, routes, settings>>

SelectReads(t) ==
    \/ ReadsThreshold(t) \/ ReadsDirect(t) \/ ReadsNeighbors(t) \/ ReadsLimit(t)
    \/ \E r \in MeshNode : ReadsSecond(t, r)

SelectEnds(t) == SelectFails(t) \/ \E hop \in MeshNode : SelectStores(t, hop)

\* The direction send() and _forward_packet() assume.
DirectionFrom(s) == IF mesh.master # NoNode /\ s = mesh.master THEN "uplink" ELSE "downlink"

\* The requests about the topology.
MasterRequest == \E n \in MeshNode : SetMaster(n)
RegistrationRequest == \E n \in MeshNode, role \in Roles : RegisterNode(n, role)
RemovalRequest == \E n \in MeshNode : RemoveNode(n)
LinkRequest == \E p \in Radio, rate \in Quality : UpdateLink(p, rate)
SettingsRequest == \E s \in Settings : UpdateSettings(s)
RouteRequest(t) ==
    \E s, d \in MeshNode, direction \in Directions : SelectBegins(t, s, d, direction)

ChangeRequest ==
    \/ MasterRequest \/ RegistrationRequest \/ RemovalRequest
    \/ LinkRequest \/ SettingsRequest

-----------------------------------------------------------------------------
(* Properties.                                                             *)

\* Whatever is registered, removed, elected and linked, in any order: a node
\* that is shown as MASTER is the master that packets are addressed by, so
\* there is never a second one, and the reported links join known nodes
\* (set_master, register_node, remove_node).
RolesAgree ==
    /\ mesh.master # NoNode => mesh.role[mesh.master] # "UNKNOWN"
    /\ \A n \in MeshNode : mesh.role[n] = "MASTER" => mesh.master = n
    /\ \A p \in Pair : links[p] # -1 => mesh.role[p[1]] # "UNKNOWN" /\ mesh.role[p[2]] # "UNKNOWN"

\* "Avoid loops" (routing_manager.py): no stored route leads back to the node it
\* starts from.  Not so: see the run looped.
RoutesAdvance == \A p \in Pair : routes[p] # p[1]

\* What select_route means to choose from, were the links and thresholds those of one
\* moment: the destination over a good direct link, or else the neighbours over which
\* two good links lead there.
Good(s, d, direction) == links[<<s, d>>] >= settings[direction]
Relays(s, d, direction) == {r \in MeshNode \ {d} : Good(s, r, direction) /\ Good(r, d, direction)}
NextHops(s, d, direction) ==
    IF s = d \/ Good(s, d, direction) THEN {d} ELSE Relays(s, d, direction)

\* The readings of select_route, each under the lock of its own, come to the choice that
\* the picture of the mesh at the end of it allows, no more and no fewer candidates,
\* unless a link or a threshold changed in the meantime (find_relay_candidates).
ChoicesAreRight ==
    \A t \in Thread \ outdated :
        LET c == choice[t] IN Decided(c) => c.found = NextHops(c.source, c.destination, c.direction)

\* However requests overtake each other: a node is stored, or about to be, as its own
\* next hop only where it has reported a link to itself, and chosen so only under a
\* change of the links or thresholds (select_route checks neither).
OwnHopsAreReported ==
    /\ \A p \in Pair : routes[p] = p[1] => <<p[1], p[1]>> \in Radio
    /\ \A t \in Thread :
         LET c == choice[t] IN
         c # NoChoice /\ c.source # c.destination /\ c.source \in c.found =>
             <<c.source, c.source>> \in Radio /\ t \in outdated

\* What a select_route has read, and still holds if nothing changed.
ChoiceIsSound(c, t) ==
    LET near == {r \in MeshNode \ {c.destination} : Good(c.source, r, c.direction)} IN
    /\ c.at \in {"THRESHOLD", "DIRECT", "NEIGHBORS", "LIMIT", "SECOND"} => c.source # c.destination
    /\ c.at \in {"THRESHOLD", "DIRECT", "NEIGHBORS", "LIMIT"} => c.found = {}
    /\ c.at = "LIMIT" => \A r \in MeshNode : c.rates[r] # -1 => <<c.source, r>> \in Radio
    /\ c.at = "SECOND" => \A r \in c.left \cup c.found : <<c.source, r>> \in Radio
    /\ c.at = "STORE" => c.found = {c.destination}
    /\ t \notin outdated =>
         /\ c.at \in {"DIRECT", "SECOND"} => c.limit = settings[c.direction]
         /\ c.at \in {"NEIGHBORS", "LIMIT", "SECOND"} => ~Good(c.source, c.destination, c.direction)
         /\ c.at = "LIMIT" => \A r \in MeshNode : c.rates[r] = links[<<c.source, r>>]
         /\ c.at = "SECOND" =>
              /\ c.left \subseteq near
              /\ c.found = {r \in near \ c.left : Good(r, c.destination, c.direction)}
         /\ c.at = "STORE" => c.source = c.destination \/ Good(c.source, c.destination, c.direction)

ChoicesAreSound ==
    /\ \A p \in Pair : links[p] # -1 => p \in Radio
    /\ \A t \in Thread : choice[t] # NoChoice => ChoiceIsSound(choice[t], t)

\* The inductive invariant of the proofs.
TopologyInv ==
    TopologyTypeOK /\ RolesAgree /\ ChoicesAreRight /\ OwnHopsAreReported /\ ChoicesAreSound

=============================================================================
