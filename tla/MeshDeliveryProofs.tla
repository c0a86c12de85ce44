------------------------- MODULE MeshDeliveryProofs -------------------------
(***************************************************************************)
(* Proofs about MeshTopology and MeshDelivery, for every set of nodes,      *)
(* messages, threads and arriving packets and every size of the queues and  *)
(* of the window.                                                           *)
(***************************************************************************)
EXTENDS MeshDelivery, TLAPS

---------------------------------------------------------------------------
(* The topology.                                                           *)

\* What the requests change step by step; the rest of TopologyInv follows from it.
RoutesAreReported == \A p \in Pair : routes[p] = p[1] => <<p[1], p[1]>> \in Radio
TopologyCore == TopologyTypeOK /\ RolesAgree /\ RoutesAreReported /\ ChoicesAreSound

LEMMA CoreIsEnough == TopologyCore <=> TopologyInv
<1>1. ASSUME TopologyTypeOK, ChoicesAreSound, NEW t \in Thread, choice[t] # NoChoice
      PROVE  /\ t \notin outdated /\ Decided(choice[t]) =>
                  choice[t].found = NextHops(choice[t].source, choice[t].destination, choice[t].direction)
             /\ choice[t].source # choice[t].destination /\ choice[t].source \in choice[t].found =>
                  <<choice[t].source, choice[t].source>> \in Radio /\ t \in outdated
  <2> DEFINE c == choice[t]
  <2>1. c \in Choice /\ ChoiceIsSound(c, t)
    BY <1>1 DEF TopologyTypeOK, ChoicesAreSound
  <2> HIDE DEF c
  <2>2. CASE c.at = "STORE"
    <3>1. c.found = {c.destination}
      BY <2>1, <2>2 DEF ChoiceIsSound
    <3>2. t \notin outdated => c.source = c.destination \/ Good(c.source, c.destination, c.direction)
      BY <2>1, <2>2 DEF ChoiceIsSound
    <3> QED BY <3>1, <3>2 DEF c, NextHops
  <2>3. CASE c.at = "SECOND"
    <3>1. /\ c.source # c.destination
          /\ \A r \in c.left \cup c.found : <<c.source, r>> \in Radio
      BY <2>1, <2>3 DEF ChoiceIsSound
    <3>2. ASSUME t \notin outdated
          PROVE  /\ ~Good(c.source, c.destination, c.direction)
                 /\ c.found = {r \in {k \in MeshNode \ {c.destination} : Good(c.source, k, c.direction)} \ c.left :
                                 Good(r, c.destination, c.direction)}
      BY <2>1, <2>3, <3>2 DEF ChoiceIsSound
    <3>3. t \notin outdated /\ Decided(c) => c.found = NextHops(c.source, c.destination, c.direction)
      BY <2>3, <3>1, <3>2 DEF Decided, NextHops, Relays
    <3> QED BY <3>1, <3>2, <3>3 DEF c
  <2>4. CASE c.at \notin {"STORE", "SECOND"}
    BY <2>1, <2>4 DEF c, ChoiceIsSound, Choice, Decided
  <2> QED BY <2>2, <2>3, <2>4
<1>2. ~Decided(NoChoice)
  BY DEF Decided, NoChoice
<1> QED BY <1>1, <1>2 DEF TopologyCore, TopologyInv, RoutesAreReported, OwnHopsAreReported, ChoicesAreRight

LEMMA TopologyInitKeeps == TopologyInit => TopologyInv
<1> SUFFICES ASSUME TopologyInit PROVE TopologyCore
  BY CoreIsEnough
<1>1. TopologyTypeOK /\ RolesAgree /\ RoutesAreReported
  BY MeshAssumption DEF TopologyInit, TopologyTypeOK, RolesAgree, RoutesAreReported, Settings, Roles, Pair
<1>2. ChoicesAreSound
  BY DEF TopologyInit, ChoicesAreSound
<1> QED BY <1>1, <1>2 DEF TopologyCore

LEMMA ChoicesStay ==
    ASSUME ChoicesAreSound, UNCHANGED <<links, settings, choice, outdated>>
    PROVE  ChoicesAreSound'
BY DEF ChoicesAreSound, ChoiceIsSound, Good

\* A request of another thread: what has been read may be out of date.
LEMMA OvertakesKeeps ==
    ASSUME TopologyTypeOK, ChoicesAreSound, Overtakes, choice' = choice,
           \A p \in Pair : links'[p] # -1 => p \in Radio
    PROVE  outdated' \subseteq Thread /\ ChoicesAreSound'
<1>1. CASE links' = links /\ settings' = settings
  <2>1. outdated' = outdated
    BY <1>1 DEF Overtakes
  <2> QED BY <1>1, <2>1, ChoicesStay DEF TopologyTypeOK
<1>2. CASE ~(links' = links /\ settings' = settings)
  <2>1. outdated' = {t \in Thread : choice[t] # NoChoice}
    BY <1>2 DEF Overtakes
  <2>2. ASSUME NEW t \in Thread, choice'[t] # NoChoice PROVE ChoiceIsSound(choice[t], t)'
    <3>1. ChoiceIsSound(choice[t], t) /\ t \in outdated'
      BY <2>1, <2>2 DEF ChoicesAreSound
    <3> QED BY <3>1 DEF ChoiceIsSound
  <2> QED BY <2>1, <2>2 DEF ChoicesAreSound
<1> QED BY <1>1, <1>2

\* set_master and register_node(MASTER).
LEMMA MasteredKeeps ==
    ASSUME TopologyCore, NEW n \in MeshNode,
           mesh' = [master |-> n, role |-> Mastered(mesh.role, n)],
           UNCHANGED <<links, routes, settings, choice, outdated>>
    PROVE  TopologyCore'
<1>1. TopologyTypeOK /\ RolesAgree /\ RoutesAreReported /\ ChoicesAreSound
  BY DEF TopologyCore
<1>2. mesh'.master = n /\ mesh'.role = Mastered(mesh.role, n)
  OBVIOUS
<1>3. Mastered(mesh.role, n) \in [MeshNode -> Roles \cup {"UNKNOWN"}]
  BY <1>1 DEF TopologyTypeOK, Mastered, Roles
<1>4. TopologyTypeOK'
  BY <1>1, <1>3 DEF TopologyTypeOK
<1>5. \A k \in MeshNode : /\ k = n => mesh'.role[k] = "MASTER"
                          /\ k # n => mesh'.role[k] # "MASTER"
                          /\ mesh.role[k] # "UNKNOWN" => mesh'.role[k] # "UNKNOWN"
  BY <1>2 DEF Mastered
<1>6. RolesAgree'
  BY <1>1, <1>2, <1>5 DEF RolesAgree, Pair
<1>7. RoutesAreReported'
  BY <1>1 DEF RoutesAreReported
<1>8. ChoicesAreSound'
  BY <1>1, ChoicesStay
<1> QED BY <1>4, <1>6, <1>7, <1>8 DEF TopologyCore

LEMMA RegisterNodeKeeps ==
    ASSUME TopologyCore, NEW n \in MeshNode, NEW role \in Roles, RegisterNode(n, role)
    PROVE  TopologyCore'
<1>1. TopologyTypeOK /\ RolesAgree /\ RoutesAreReported /\ ChoicesAreSound
  BY DEF TopologyCore
<1>2. UNCHANGED <<links, routes, settings, choice, outdated>>
  BY DEF RegisterNode
<1>3. CASE role = "MASTER"
  <2>1. mesh' = [master |-> n, role |-> Mastered(mesh.role, n)]
    BY <1>3 DEF RegisterNode
  <2> QED BY <1>2, <2>1, MasteredKeeps
<1>4. CASE role # "MASTER"
  <2>1. mesh' = [mesh EXCEPT !.role[n] = "NODE"]
    BY <1>4 DEF RegisterNode
  <2>2. mesh'.master = mesh.master /\ mesh'.role = [mesh.role EXCEPT ![n] = "NODE"]
    BY <1>1, <2>1 DEF TopologyTypeOK
  <2>3. TopologyTypeOK'
    BY <1>1, <1>2, <2>1 DEF TopologyTypeOK, Roles
  <2>4. \A k \in MeshNode : mesh'.role[k] = IF k = n THEN "NODE" ELSE mesh.role[k]
    BY <1>1, <2>2 DEF TopologyTypeOK
  <2>5. RolesAgree'
    BY <1>1, <1>2, <2>2, <2>3, <2>4 DEF RolesAgree, TopologyTypeOK, Pair
  <2>6. RoutesAreReported'
    BY <1>1, <1>2 DEF RoutesAreReported
  <2>7. ChoicesAreSound'
    BY <1>1, <1>2, ChoicesStay
  <2> QED BY <2>3, <2>5, <2>6, <2>7 DEF TopologyCore
<1> QED BY <1>3, <1>4

LEMMA RemoveNodeKeeps ==
    ASSUME TopologyCore, NEW n \in MeshNode, RemoveNode(n)
    PROVE  TopologyCore'
<1>1. TopologyTypeOK /\ RolesAgree /\ RoutesAreReported /\ ChoicesAreSound
  BY DEF TopologyCore
<1>2. /\ mesh'.master = IF mesh.master = n THEN NoNode ELSE mesh.master
      /\ mesh'.role = [mesh.role EXCEPT ![n] = "UNKNOWN"]
      /\ links' = [p \in Pair |-> IF n \in {p[1], p[2]} THEN -1 ELSE links[p]]
      /\ routes' = [p \in Pair |-> IF n = p[1] THEN NoNode ELSE routes[p]]
      /\ settings' = settings /\ choice' = choice /\ Overtakes
  BY DEF RemoveNode
<1>7. outdated' \subseteq Thread /\ ChoicesAreSound'
  <2>1. \A p \in Pair : links'[p] # -1 => p \in Radio
    BY <1>1, <1>2 DEF ChoicesAreSound
  <2> QED BY <1>1, <1>2, <2>1, OvertakesKeeps
<1>3. TopologyTypeOK'
  <2>1. mesh' \in [master : MeshNode \cup {NoNode}, role : [MeshNode -> Roles \cup {"UNKNOWN"}]]
    BY <1>1 DEF RemoveNode, TopologyTypeOK
  <2>2. links' \in [Pair -> Quality \cup {-1}] /\ routes' \in [Pair -> MeshNode \cup {NoNode}]
    BY <1>1, <1>2 DEF TopologyTypeOK
  <2> QED BY <1>1, <1>2, <1>7, <2>1, <2>2 DEF TopologyTypeOK
<1>4. \A k \in MeshNode : mesh'.role[k] = IF k = n THEN "UNKNOWN" ELSE mesh.role[k]
  BY <1>1, <1>2 DEF TopologyTypeOK
<1>5. RolesAgree'
  <2>1. mesh'.master # NoNode => mesh'.role[mesh'.master] # "UNKNOWN"
    BY <1>1, <1>2, <1>4 DEF RolesAgree, TopologyTypeOK
  <2>2. \A k \in MeshNode : mesh'.role[k] = "MASTER" => mesh'.master = k
    BY <1>1, <1>2, <1>4 DEF RolesAgree
  <2>3. ASSUME NEW p \in Pair, links'[p] # -1
        PROVE  mesh'.role[p[1]] # "UNKNOWN" /\ mesh'.role[p[2]] # "UNKNOWN"
    <3>1. n # p[1] /\ n # p[2] /\ links[p] # -1
      BY <1>2, <2>3
    <3>2. p[1] \in MeshNode /\ p[2] \in MeshNode
      BY DEF Pair
    <3> QED BY <1>1, <1>4, <3>1, <3>2 DEF RolesAgree
  <2> QED BY <2>1, <2>2, <2>3 DEF RolesAgree
<1>6. RoutesAreReported'
  <2> SUFFICES ASSUME NEW p \in Pair, routes'[p] = p[1] PROVE <<p[1], p[1]>> \in Radio
    BY DEF RoutesAreReported
  <2>1. p[1] \in MeshNode
    BY DEF Pair
  <2> QED BY <1>1, <1>2, <2>1, MeshAssumption DEF RoutesAreReported
<1> QED BY <1>3, <1>5, <1>6, <1>7 DEF TopologyCore

LEMMA UpdateLinkKeeps ==
    ASSUME TopologyCore, NEW p \in Radio, NEW rate \in Quality, UpdateLink(p, rate)
    PROVE  TopologyCore'
<1>1. TopologyTypeOK /\ RolesAgree /\ RoutesAreReported /\ ChoicesAreSound
  BY DEF TopologyCore
<1>2. p \in Pair /\ p[1] \in MeshNode /\ p[2] \in MeshNode
  BY MeshAssumption DEF Pair
<1>3. /\ mesh'.master = mesh.master /\ mesh'.role = Ensured(mesh.role, {p[1], p[2]})
      /\ links' = [links EXCEPT ![p] = rate] /\ UNCHANGED <<routes, settings, choice>> /\ Overtakes
  BY <1>1 DEF UpdateLink, TopologyTypeOK
<1>9. outdated' \subseteq Thread /\ ChoicesAreSound'
  <2>1. \A q \in Pair : links'[q] # -1 => q \in Radio
    BY <1>1, <1>3 DEF ChoicesAreSound, TopologyTypeOK
  <2> QED BY <1>1, <1>3, <2>1, OvertakesKeeps
<1>4. Ensured(mesh.role, {p[1], p[2]}) \in [MeshNode -> Roles \cup {"UNKNOWN"}]
  BY <1>1 DEF TopologyTypeOK, Ensured, Roles
<1>5. TopologyTypeOK'
  <2>1. mesh' = [master |-> mesh.master, role |-> Ensured(mesh.role, {p[1], p[2]})]
    BY <1>1 DEF UpdateLink, TopologyTypeOK
  <2> QED BY <1>1, <1>3, <1>4, <1>9, <2>1 DEF TopologyTypeOK
<1>6. \A k \in MeshNode : /\ mesh'.role[k] = "MASTER" => mesh.role[k] = "MASTER"
                          /\ mesh.role[k] # "UNKNOWN" => mesh'.role[k] # "UNKNOWN"
                          /\ k \in {p[1], p[2]} => mesh'.role[k] # "UNKNOWN"
  BY <1>3 DEF Ensured
<1>7. RolesAgree'
  <2>1. ASSUME NEW q \in Pair, links'[q] # -1
        PROVE  mesh'.role[q[1]] # "UNKNOWN" /\ mesh'.role[q[2]] # "UNKNOWN"
    <3>1. q[1] \in MeshNode /\ q[2] \in MeshNode
      BY DEF Pair
    <3>2. q = p \/ links[q] # -1
      BY <1>1, <1>3, <2>1 DEF TopologyTypeOK
    <3> QED BY <1>1, <1>6, <3>1, <3>2 DEF RolesAgree
  <2>2. mesh'.master # NoNode => mesh'.role[mesh'.master] # "UNKNOWN"
    BY <1>1, <1>3, <1>6 DEF RolesAgree, TopologyTypeOK
  <2>3. \A k \in MeshNode : mesh'.role[k] = "MASTER" => mesh'.master = k
    BY <1>1, <1>3, <1>6 DEF RolesAgree
  <2> QED BY <2>1, <2>2, <2>3 DEF RolesAgree
<1>8. RoutesAreReported'
  BY <1>1, <1>3 DEF RoutesAreReported
<1> QED BY <1>5, <1>7, <1>8, <1>9 DEF TopologyCore

LEMMA UpdateSettingsKeeps ==
    ASSUME TopologyCore, NEW s \in Settings, UpdateSettings(s)
    PROVE  TopologyCore'
<1>1. TopologyTypeOK /\ RolesAgree /\ RoutesAreReported /\ ChoicesAreSound
  BY DEF TopologyCore
<1>2. settings' = s /\ UNCHANGED <<mesh, links, routes, choice>> /\ Overtakes
  BY DEF UpdateSettings
<1>3. outdated' \subseteq Thread /\ ChoicesAreSound'
  BY <1>1, <1>2, OvertakesKeeps DEF ChoicesAreSound
<1>4. TopologyTypeOK' /\ RolesAgree' /\ RoutesAreReported'
  BY <1>1, <1>2, <1>3 DEF TopologyTypeOK, RolesAgree, RoutesAreReported
<1> QED BY <1>3, <1>4 DEF TopologyCore

LEMMA ChangeRequestKeeps == TopologyInv /\ ChangeRequest => TopologyInv'
<1>1. ASSUME TopologyCore, ChangeRequest PROVE TopologyCore'
  <2>1. CASE MasterRequest
    BY <1>1, <2>1, MasteredKeeps DEF MasterRequest, SetMaster
  <2>2. CASE RegistrationRequest
    BY <1>1, <2>2, RegisterNodeKeeps DEF RegistrationRequest
  <2>3. CASE RemovalRequest
    BY <1>1, <2>3, RemoveNodeKeeps DEF RemovalRequest
  <2>4. CASE LinkRequest
    BY <1>1, <2>4, UpdateLinkKeeps DEF LinkRequest
  <2>5. CASE SettingsRequest
    BY <1>1, <2>5, UpdateSettingsKeeps DEF SettingsRequest
  <2> QED BY <1>1, <2>1, <2>2, <2>3, <2>4, <2>5 DEF ChangeRequest
<1> QED BY <1>1, CoreIsEnough, PTL

\* A reading of select_route that leaves what is held sound.
LEMMA ChoosesKeeps ==
    ASSUME TopologyCore, NEW t \in Thread, NEW c \in Choice, Chooses(t, c), ChoiceIsSound(c, t)
    PROVE  TopologyCore'
<1>1. TopologyTypeOK /\ RolesAgree /\ RoutesAreReported /\ ChoicesAreSound
  BY DEF TopologyCore
<1>2. choice' = [choice EXCEPT ![t] = c] /\ UNCHANGED <<mesh, links, routes, settings, outdated>>
  BY DEF Chooses
<1>3. \A u \in Thread : choice'[u] = IF u = t THEN c ELSE choice[u]
  BY <1>1, <1>2 DEF TopologyTypeOK
<1>4. TopologyTypeOK' /\ RolesAgree' /\ RoutesAreReported'
  BY <1>1, <1>2 DEF TopologyTypeOK, RolesAgree, RoutesAreReported
<1>5. ASSUME NEW u \in Thread, choice'[u] # NoChoice PROVE ChoiceIsSound(choice[u], u)'
  <2>1. ChoiceIsSound(choice'[u], u)
    BY <1>1, <1>3, <1>5 DEF ChoicesAreSound
  <2> QED BY <1>2, <2>1 DEF ChoiceIsSound, Good
<1> QED BY <1>1, <1>2, <1>4, <1>5 DEF TopologyCore, ChoicesAreSound

LEMMA SelectBeginsKeeps ==
    ASSUME TopologyCore, NEW t \in Thread, NEW s \in MeshNode, NEW d \in MeshNode,
           NEW direction \in Directions, SelectBegins(t, s, d, direction)
    PROVE  TopologyCore'
<1> DEFINE c == [at |-> IF s = d THEN "STORE" ELSE "THRESHOLD", source |-> s,
                 destination |-> d, direction |-> direction, limit |-> 0,
                 rates |-> NoRates, left |-> {}, found |-> IF s = d THEN {d} ELSE {}]
<1>1. Chooses(t, c)
  BY DEF SelectBegins
<1>2. c \in Choice
  BY MeshAssumption DEF Choice, NoRates
<1>3. ChoiceIsSound(c, t)
  BY DEF ChoiceIsSound
<1> QED BY <1>1, <1>2, <1>3, ChoosesKeeps

\* What a thread holds while it selects a route.
LEMMA ChoiceOf ==
    ASSUME TopologyCore, NEW t \in Thread, NEW at \in {"THRESHOLD", "DIRECT", "NEIGHBORS", "LIMIT", "SECOND", "STORE"},
           choice[t].at = at
    PROVE  choice[t] \in Choice /\ choice[t] # NoChoice /\ ChoiceIsSound(choice[t], t)
<1>1. choice[t] # NoChoice
  BY DEF NoChoice
<1> QED BY <1>1 DEF TopologyCore, TopologyTypeOK, ChoicesAreSound

LEMMA ReadsThresholdKeeps ==
    ASSUME TopologyCore, NEW t \in Thread, ReadsThreshold(t)
    PROVE  TopologyCore'
<1> DEFINE c == choice[t]
           next == [c EXCEPT !.at = "DIRECT", !.limit = settings[c.direction]]
<1>1. c.at = "THRESHOLD" /\ Chooses(t, next)
  BY DEF ReadsThreshold
<1>2. c \in Choice /\ ChoiceIsSound(c, t)
  BY <1>1, ChoiceOf
<1> HIDE DEF c
<1>3. settings[c.direction] \in Quality
  BY <1>2 DEF TopologyCore, TopologyTypeOK, Settings, Choice, Directions
<1>4. next \in Choice
  BY <1>2, <1>3 DEF Choice
<1>5. ChoiceIsSound(next, t)
  BY <1>1, <1>2 DEF ChoiceIsSound, Choice
<1> QED BY <1>1, <1>4, <1>5, ChoosesKeeps

LEMMA ReadsDirectKeeps ==
    ASSUME TopologyCore, NEW t \in Thread, ReadsDirect(t)
    PROVE  TopologyCore'
<1> DEFINE c == choice[t]
           direct == [c EXCEPT !.at = "STORE", !.found = {c.destination}]
           relayed == [c EXCEPT !.at = "NEIGHBORS"]
<1>1. c.at = "DIRECT" /\ Chooses(t, IF links[<<c.source, c.destination>>] >= c.limit THEN direct ELSE relayed)
  BY DEF ReadsDirect
<1>2. c \in Choice /\ ChoiceIsSound(c, t)
  BY <1>1, ChoiceOf
<1> HIDE DEF c
<1>3. direct \in Choice /\ relayed \in Choice
  BY <1>2 DEF Choice
<1>4. ASSUME links[<<c.source, c.destination>>] >= c.limit PROVE ChoiceIsSound(direct, t)
  BY <1>1, <1>2, <1>4 DEF ChoiceIsSound, Choice, Good
<1>5. ASSUME ~(links[<<c.source, c.destination>>] >= c.limit) PROVE ChoiceIsSound(relayed, t)
  BY <1>1, <1>2, <1>5 DEF ChoiceIsSound, Choice, Good
<1> QED BY <1>1, <1>3, <1>4, <1>5, ChoosesKeeps

LEMMA ReadsNeighborsKeeps ==
    ASSUME TopologyCore, NEW t \in Thread, ReadsNeighbors(t)
    PROVE  TopologyCore'
<1> DEFINE c == choice[t]
           rates == [r \in MeshNode |-> links[<<c.source, r>>]]
           next == [c EXCEPT !.at = "LIMIT", !.rates = rates]
<1>1. c.at = "NEIGHBORS" /\ Chooses(t, next)
  BY DEF ReadsNeighbors
<1>2. c \in Choice /\ ChoiceIsSound(c, t)
  BY <1>1, ChoiceOf
<1> HIDE DEF c
<1>3. \A r \in MeshNode : <<c.source, r>> \in Pair
  BY <1>2 DEF Choice, Pair
<1>4. /\ rates \in [MeshNode -> Quality \cup {-1}]
      /\ \A r \in MeshNode : rates[r] = links[<<c.source, r>>] /\ (rates[r] # -1 => <<c.source, r>> \in Radio)
  BY <1>3 DEF TopologyCore, TopologyTypeOK, ChoicesAreSound
<1> HIDE DEF rates
<1>5. next \in Choice
  BY <1>2, <1>4 DEF Choice
<1>6. ChoiceIsSound(next, t)
  BY <1>1, <1>2, <1>4 DEF ChoiceIsSound, Choice
<1> QED BY <1>1, <1>5, <1>6, ChoosesKeeps

LEMMA ReadsLimitKeeps ==
    ASSUME TopologyCore, NEW t \in Thread, ReadsLimit(t)
    PROVE  TopologyCore'
<1> DEFINE c == choice[t]
           limit == settings[c.direction]
           left == {r \in MeshNode \ {c.destination} : c.rates[r] >= limit}
           next == [c EXCEPT !.at = "SECOND", !.limit = limit, !.rates = NoRates, !.left = left]
<1>1. c.at = "LIMIT" /\ Chooses(t, next)
  BY DEF ReadsLimit
<1>2. c \in Choice /\ ChoiceIsSound(c, t)
  BY <1>1, ChoiceOf
<1> HIDE DEF c
<1>3. limit \in Quality /\ limit \in Nat /\ NoRates \in [MeshNode -> Quality \cup {-1}]
  BY <1>2, MeshAssumption DEF TopologyCore, TopologyTypeOK, Settings, Choice, Directions, NoRates
<1>4. next \in Choice
  BY <1>2, <1>3 DEF Choice
<1>5. next.at = "SECOND" /\ next.limit = limit /\ next.left = left /\ next.found = {}
      /\ next.source = c.source /\ next.destination = c.destination /\ next.direction = c.direction
  BY <1>1, <1>2 DEF ChoiceIsSound, Choice
<1>6. \A r \in left : <<c.source, r>> \in Radio
  <2> SUFFICES ASSUME NEW r \in left PROVE c.rates[r] # -1
    BY <1>1, <1>2 DEF ChoiceIsSound
  <2> QED BY <1>3
<1>7. c.source # c.destination
  BY <1>1, <1>2 DEF ChoiceIsSound
<1>8. ASSUME t \notin outdated
      PROVE  /\ ~Good(c.source, c.destination, c.direction)
             /\ left = {r \in MeshNode \ {c.destination} : Good(c.source, r, c.direction)}
  BY <1>1, <1>2, <1>8 DEF ChoiceIsSound, Good
<1> HIDE DEF left, limit, next
<1>9. ChoiceIsSound(next, t)
  BY <1>5, <1>6, <1>7, <1>8 DEF ChoiceIsSound, limit
<1> QED BY <1>1, <1>4, <1>9, ChoosesKeeps DEF next

LEMMA ReadsSecondKeeps ==
    ASSUME TopologyCore, NEW t \in Thread, NEW r \in MeshNode, ReadsSecond(t, r)
    PROVE  TopologyCore'
<1> DEFINE c == choice[t]
           left == c.left \ {r}
           found == IF links[<<r, c.destination>>] >= c.limit THEN c.found \cup {r} ELSE c.found
           next == [c EXCEPT !.left = left, !.found = found]
<1>1. c.at = "SECOND" /\ r \in c.left /\ Chooses(t, next)
  BY DEF ReadsSecond
<1>2. c \in Choice /\ ChoiceIsSound(c, t)
  BY <1>1, ChoiceOf
<1> HIDE DEF c
<1>3. next \in Choice
  BY <1>2 DEF Choice
<1>4. next.at = "SECOND" /\ next.limit = c.limit /\ next.left = left /\ next.found = found
      /\ next.source = c.source /\ next.destination = c.destination /\ next.direction = c.direction
  BY <1>1, <1>2 DEF Choice
<1>5. c.source # c.destination /\ \A k \in c.left \cup c.found : <<c.source, k>> \in Radio
  BY <1>1, <1>2 DEF ChoiceIsSound
<1> DEFINE near == {k \in MeshNode \ {c.destination} : Good(c.source, k, c.direction)}
<1>6. ASSUME t \notin outdated
      PROVE  /\ c.limit = settings[c.direction] /\ ~Good(c.source, c.destination, c.direction)
             /\ left \subseteq near
             /\ found = {k \in near \ left : Good(k, c.destination, c.direction)}
  <2>1. /\ c.limit = settings[c.direction] /\ ~Good(c.source, c.destination, c.direction)
        /\ c.left \subseteq near
        /\ c.found = {k \in near \ c.left : Good(k, c.destination, c.direction)}
    BY <1>1, <1>2, <1>6 DEF ChoiceIsSound
  <2>2. links[<<r, c.destination>>] >= c.limit <=> Good(r, c.destination, c.direction)
    BY <2>1 DEF Good
  <2> HIDE DEF near
  <2>3. found = {k \in near \ left : Good(k, c.destination, c.direction)}
    BY <1>1, <2>1, <2>2
  <2> QED BY <2>1, <2>3
<1>7. \A k \in left \cup found : <<c.source, k>> \in Radio
  BY <1>1, <1>5
<1> HIDE DEF left, found, next
<1>8. ChoiceIsSound(next, t)
  BY <1>4, <1>5, <1>6, <1>7 DEF ChoiceIsSound
<1> QED BY <1>1, <1>3, <1>8, ChoosesKeeps DEF next

LEMMA SelectReadsKeeps ==
    ASSUME TopologyInv, NEW t \in Thread, SelectReads(t)
    PROVE  TopologyInv'
<1>1. TopologyCore'
  BY CoreIsEnough, ReadsThresholdKeeps, ReadsDirectKeeps, ReadsNeighborsKeeps, ReadsLimitKeeps,
     ReadsSecondKeeps DEF SelectReads
<1>2. TopologyCore' <=> TopologyInv'
  BY CoreIsEnough, PTL
<1> QED BY <1>1, <1>2

LEMMA SelectBeginsIsSound ==
    ASSUME TopologyInv, NEW t \in Thread, NEW s \in MeshNode, NEW d \in MeshNode,
           NEW direction \in Directions, SelectBegins(t, s, d, direction)
    PROVE  TopologyInv'
<1>1. TopologyCore'
  BY CoreIsEnough, SelectBeginsKeeps
<1>2. TopologyCore' <=> TopologyInv'
  BY CoreIsEnough, PTL
<1> QED BY <1>1, <1>2

\* A thread that has decided is choosing, and what it found are nodes.
LEMMA DecidedChoice ==
    ASSUME TopologyInv, NEW t \in Thread, Decided(choice[t])
    PROVE  choice[t] \in Choice /\ choice[t] # NoChoice
<1>1. choice[t] # NoChoice
  BY DEF Decided, NoChoice
<1> QED BY <1>1 DEF TopologyInv, TopologyTypeOK

\* The end of select_route.
LEMMA SelectEndsKeeps ==
    ASSUME TopologyInv, NEW t \in Thread, SelectFails(t) \/ \E hop \in MeshNode : SelectStores(t, hop)
    PROVE  TopologyInv'
<1> DEFINE c == choice[t]
<1>1. TopologyTypeOK /\ RolesAgree /\ ChoicesAreSound /\ OwnHopsAreReported
  BY DEF TopologyInv
<1>2. /\ Decided(c) /\ choice' = [choice EXCEPT ![t] = NoChoice] /\ outdated' = outdated \ {t}
      /\ UNCHANGED <<mesh, links, settings>>
  BY DEF SelectFails, SelectStores
<1>3. c \in Choice /\ c # NoChoice
  BY <1>2, DecidedChoice
<1>4. \/ routes' = routes
      \/ \E hop \in c.found : /\ c.source # c.destination
                              /\ routes' = [routes EXCEPT ![<<c.source, c.destination>>] = hop]
  BY DEF SelectFails, SelectStores, StoreRoute
<1>5. c.source # c.destination /\ c.source \in c.found => <<c.source, c.source>> \in Radio
  BY <1>1, <1>3 DEF OwnHopsAreReported
<1> HIDE DEF c
<1>6. routes' \in [Pair -> MeshNode \cup {NoNode}] /\ RoutesAreReported'
  <2>1. CASE routes' = routes
    BY <1>1, <2>1 DEF TopologyTypeOK, OwnHopsAreReported, RoutesAreReported
  <2>2. CASE routes' # routes
    <3>1. PICK hop \in c.found : routes' = [routes EXCEPT ![<<c.source, c.destination>>] = hop]
                                 /\ c.source # c.destination
      BY <1>4, <2>2
    <3>2. hop \in MeshNode /\ <<c.source, c.destination>> \in Pair
      BY <1>3, <3>1 DEF Choice, Pair
    <3>3. routes' \in [Pair -> MeshNode \cup {NoNode}]
      BY <1>1, <3>1, <3>2 DEF TopologyTypeOK
    <3>4. ASSUME NEW p \in Pair, routes'[p] = p[1] PROVE <<p[1], p[1]>> \in Radio
      <4>1. CASE p = <<c.source, c.destination>>
        <5>1. hop = c.source /\ p[1] = c.source
          BY <1>1, <3>1, <3>2, <3>4, <4>1 DEF TopologyTypeOK
        <5> QED BY <1>5, <3>1, <5>1
      <4>2. CASE p # <<c.source, c.destination>>
        <5>1. routes[p] = p[1]
          BY <1>1, <3>1, <3>4, <4>2 DEF TopologyTypeOK
        <5> QED BY <1>1, <5>1 DEF OwnHopsAreReported
      <4> QED BY <4>1, <4>2
    <3> QED BY <3>3, <3>4 DEF RoutesAreReported
  <2> QED BY <2>1, <2>2
<1>7. TopologyTypeOK' /\ RolesAgree'
  <2>1. choice' \in [Thread -> Choice \cup {NoChoice}]
    BY <1>1, <1>2 DEF TopologyTypeOK
  <2> QED BY <1>1, <1>2, <1>6, <2>1 DEF TopologyTypeOK, RolesAgree
<1>8. ASSUME NEW u \in Thread, choice'[u] # NoChoice PROVE ChoiceIsSound(choice[u], u)'
  <2>1. u # t /\ choice'[u] = choice[u] /\ choice[u] # NoChoice
    BY <1>1, <1>2, <1>8 DEF TopologyTypeOK
  <2>2. ChoiceIsSound(choice[u], u)
    BY <1>1, <2>1 DEF ChoicesAreSound
  <2>3. u \in outdated' <=> u \in outdated
    BY <1>2, <2>1
  <2> QED BY <1>2, <2>1, <2>2, <2>3 DEF ChoiceIsSound, Good
<1>9. ChoicesAreSound'
  BY <1>1, <1>2, <1>8 DEF ChoicesAreSound
<1>10. TopologyCore'
  BY <1>6, <1>7, <1>9 DEF TopologyCore
<1>11. TopologyCore' <=> TopologyInv'
  BY CoreIsEnough, PTL
<1> QED BY <1>10, <1>11

LEMMA TopologyStutters == TopologyInv /\ UNCHANGED topologyVars => TopologyInv'
<1> SUFFICES ASSUME TopologyInv, UNCHANGED topologyVars PROVE TopologyInv'
  OBVIOUS
<1>1. TopologyTypeOK' /\ RolesAgree' /\ RoutesAreReported' /\ ChoicesAreSound'
  BY CoreIsEnough, ChoicesStay DEF TopologyCore, TopologyTypeOK, RolesAgree, RoutesAreReported, topologyVars
<1>2. TopologyCore' <=> TopologyInv'
  BY CoreIsEnough, PTL
<1> QED BY <1>1, <1>2 DEF TopologyCore

---------------------------------------------------------------------------
(* Queues, the window and packets.                                         *)

\* What a bounded queue w holds after x was entered into it: x, and what it held
\* but for the oldest entry.
Entered(w, queue, x, size, S) ==
    /\ w \in Seq(S) /\ Len(w) <= size
    /\ \A i \in DOMAIN w : w[i] = x \/ \E j \in DOMAIN queue : w[i] = queue[j]
    /\ \E i \in DOMAIN w : w[i] = x
    /\ \A j \in DOMAIN queue : \/ Len(queue) = size /\ j = 1
                               \/ \E i \in DOMAIN w : w[i] = queue[j]

LEMMA EnqueueLemma ==
    ASSUME NEW S, NEW queue \in Seq(S), NEW x \in S, NEW size \in Nat \ {0}, Len(queue) <= size
    PROVE  Entered(Enqueue(queue, x, size), queue, x, size, S)
<1> DEFINE new == Enqueue(queue, x, size)
<1>1. CASE Len(queue) < size
  <2>1. new = Append(queue, x)
    BY <1>1 DEF Enqueue
  <2>2. /\ new \in Seq(S) /\ Len(new) = Len(queue) + 1 /\ new[Len(queue) + 1] = x
        /\ \A i \in 1..Len(queue) : new[i] = queue[i]
    BY <2>1
  <2>3. DOMAIN new = 1..(Len(queue) + 1) /\ DOMAIN queue = 1..Len(queue) /\ Len(queue) \in Nat
    BY <2>2
  <2> HIDE DEF new
  <2>4. Len(queue) + 1 \in DOMAIN new /\ Len(new) <= size
    BY <1>1, <2>2, <2>3
  <2>5. \A i \in DOMAIN new : new[i] = x \/ \E j \in DOMAIN queue : new[i] = queue[j]
    BY <2>2, <2>3
  <2>6. \A j \in DOMAIN queue : \E i \in DOMAIN new : new[i] = queue[j]
    BY <2>2, <2>3
  <2>7. Entered(new, queue, x, size, S)
    BY <2>2, <2>4, <2>5, <2>6 DEF Entered
  <2> QED BY <2>7 DEF new
<1>2. CASE ~(Len(queue) < size)
  <2>1. Len(queue) = size /\ queue # << >>
    BY <1>2
  <2>2. new = Append(Tail(queue), x)
    BY <1>2 DEF Enqueue
  <2>3. Tail(queue) \in Seq(S) /\ Len(Tail(queue)) = size - 1
        /\ \A i \in 1..(size - 1) : Tail(queue)[i] = queue[i + 1]
    BY <2>1
  <2>4. /\ new \in Seq(S) /\ Len(new) = size /\ new[size] = x
        /\ \A i \in 1..(size - 1) : new[i] = queue[i + 1]
    BY <2>2, <2>3
  <2>5. DOMAIN new = 1..size /\ DOMAIN queue = 1..size
    BY <2>1, <2>4
  <2> HIDE DEF new
  <2>6. \A i \in DOMAIN new : new[i] = x \/ \E j \in DOMAIN queue : new[i] = queue[j]
    <3> SUFFICES ASSUME NEW i \in DOMAIN new, i # size PROVE \E j \in DOMAIN queue : new[i] = queue[j]
      BY <2>4
    <3>1. i + 1 \in DOMAIN queue /\ new[i] = queue[i + 1]
      BY <2>4, <2>5
    <3> QED BY <3>1
  <2>7. \A j \in DOMAIN queue : j = 1 \/ \E i \in DOMAIN new : new[i] = queue[j]
    <3> SUFFICES ASSUME NEW j \in DOMAIN queue, j # 1 PROVE \E i \in DOMAIN new : new[i] = queue[j]
      OBVIOUS
    <3>1. j - 1 \in DOMAIN new /\ j - 1 \in 1..(size - 1) /\ (j - 1) + 1 = j
      BY <2>5
    <3> QED BY <2>4, <3>1
  <2>8. size \in DOMAIN new
    BY <2>5
  <2> QED BY <2>1, <2>4, <2>6, <2>7, <2>8 DEF new, Entered
<1> QED BY <1>1, <1>2

\* What the window knows after an id was entered.
LEMMA RememberedLemma ==
    ASSUME DeliveryTypeOK, Len(window) <= WindowSize, NEW id \in Message \cup Reply,
           window' = Remembered(id)
    PROVE  /\ window' \in Seq(Message \cup Reply) /\ Len(window') <= WindowSize
           /\ Evicted(id) \subseteq Message \cup Reply
           /\ Known(id)'
           /\ \A m : Known(m)' => Known(m) \/ m = id
           /\ \A m : Known(m) => Known(m)' \/ m \in Evicted(id)
<1>1. window \in Seq(Message \cup Reply) /\ WindowSize \in Nat \ {0}
  BY DeliveryAssumption DEF DeliveryTypeOK
<1>2. CASE Known(id)
  BY <1>1, <1>2 DEF Remembered, Evicted, Known
<1>3. CASE ~Known(id)
  <2>1. window' = Enqueue(window, id, WindowSize)
    BY <1>3 DEF Remembered
  <2>2. Entered(window', window, id, WindowSize, Message \cup Reply)
    BY <1>1, <2>1, EnqueueLemma
  <2>3. Evicted(id) = IF Len(window) < WindowSize THEN {} ELSE {Head(window)}
    BY <1>3 DEF Evicted
  <2>4. Len(window) = WindowSize => Head(window) = window[1] /\ Head(window) \in Message \cup Reply
    BY <1>1
  <2>5. Evicted(id) \subseteq Message \cup Reply
    BY <1>1, <2>3, <2>4
  <2>6. \A m : Known(m) => Known(m)' \/ m \in Evicted(id)
    BY <1>1, <2>2, <2>3, <2>4 DEF Known, Entered
  <2> QED BY <2>2, <2>5, <2>6 DEF Known, Entered
<1> QED BY <1>2, <1>3

\* Packets stay packets.
LEMMA RoutedIsPacket ==
    ASSUME NEW p \in Packet, NEW hop \in MeshNode
    PROVE  /\ Routed(p, hop) \in Packet
           /\ p.ttl > 0 => Decremented(p) \in Packet
<1>1. ASSUME NEW b \in BOOLEAN PROVE [p EXCEPT !.hop = hop, !.sealed = b] \in Packet
  BY DEF Packet
<1>2. (p.sealed /\ p.hop = hop) \in BOOLEAN
  OBVIOUS
<1>3. Routed(p, hop) \in Packet
  BY <1>1, <1>2, Zenon DEF Routed
<1>4. ASSUME p.ttl > 0 PROVE Decremented(p) \in Packet
  <2>1. p.ttl - 1 \in 0..MaxTtl
    BY <1>4, DeliveryAssumption DEF Packet
  <2> QED BY <2>1 DEF Packet, Decremented
<1> QED BY <1>3, <1>4

\* What a thread holds is a packet that arrived.
LEMMA HeldPacket ==
    ASSUME HeldIsSound, NEW t \in Thread, held[t] # NoPacket
    PROVE  /\ held[t] \in Packet /\ held[t].id \in Message \cup Reply
           /\ held[t].kind = "DATA" => held[t].id \in Message
           /\ held[t].kind # "DATA" => held[t].id \in Reply /\ held[t].about \in Message
<1>1. held[t] \in Arrivals
  BY DEF HeldIsSound
<1> QED BY <1>1, ArrivalAssumption DEF Packet

---------------------------------------------------------------------------
(* Requests.                                                               *)

LEMMA MeshInitKeeps == MeshInit => MeshInv
<1> SUFFICES ASSUME MeshInit PROVE MeshInv
  OBVIOUS
<1>1. TopologyInv
  BY TopologyInitKeeps DEF MeshInit
<1>2. DeliveryTypeOK
  BY DeliveryAssumption DEF MeshInit, DeliveryTypeOK, Told, NoSweep
<1>3. WindowIsSound /\ HeldIsSound /\ SweepIsSound
  BY DeliveryAssumption DEF MeshInit, WindowIsSound, HeldIsSound, SweepIsSound, NoSweep
<1>4. TakenOnce /\ OneOutcome /\ RetriesCounted
  BY DEF MeshInit, TakenOnce, OneOutcome, RetriesCounted
<1> QED BY <1>1, <1>2, <1>3, <1>4 DEF MeshInv

\* Steps that leave everything but the topology and the queues alone.
LEMMA QueuesChangeKeeps ==
    ASSUME MeshInv, TopologyInv',
           UNCHANGED <<pending, item, window, held, sweep, told>>,
           carried' \in [Thread -> Transit \cup {NoPacket}],
           outgoing' \in Seq(Packet), Len(outgoing') <= QueueSize,
           incoming' \in Seq(Message), Len(incoming') <= QueueSize
    PROVE  MeshInv'
<1>1. DeliveryTypeOK'
  BY DEF MeshInv, DeliveryTypeOK
<1>2. WindowIsSound' /\ HeldIsSound' /\ SweepIsSound'
  BY DEF MeshInv, WindowIsSound, HeldIsSound, SweepIsSound, Known
<1>3. TakenOnce' /\ OneOutcome' /\ RetriesCounted'
  BY DEF MeshInv, TakenOnce, OneOutcome, RetriesCounted
<1> QED BY <1>1, <1>2, <1>3 DEF MeshInv

LEMMA NothingDeliveredKeeps ==
    ASSUME MeshInv, TopologyInv', UNCHANGED deliveryVars
    PROVE  MeshInv'
BY QueuesChangeKeeps DEF deliveryVars, MeshInv, DeliveryTypeOK

LEMMA EmitType ==
    ASSUME DeliveryTypeOK, NEW p \in Packet, Emit(p)
    PROVE  outgoing' \in Seq(Packet) /\ Len(outgoing') <= QueueSize
BY EnqueueLemma, DeliveryAssumption DEF DeliveryTypeOK, Emit, Entered

LEMMA SendKeeps ==
    ASSUME MeshInv, NEW t \in Thread, NEW m \in Message, NEW hop \in MeshNode,
           NEW requireAck \in BOOLEAN, Send(t, m, hop, requireAck)
    PROVE  MeshInv'
<1> DEFINE s == choice[t].source
           d == choice[t].destination
           p == [Routed(CreatePacket(m, "DATA", s, d, m), hop) EXCEPT !.sealed = FALSE]
<1>1. /\ SelectStores(t, hop)
      /\ Emit(p)
      /\ item' = [item EXCEPT ![m] = [packet |-> p, attempts |-> 0]]
      /\ pending' = IF requireAck THEN pending \cup {m} ELSE pending
      /\ told' = [told EXCEPT !.sends[m] = 1]
  BY DEF Send
<1>2. /\ item[m] = NoItem /\ UNCHANGED <<incoming, window, held, carried, sweep>>
  BY DEF Send
<1>3. /\ TopologyInv /\ DeliveryTypeOK /\ WindowIsSound /\ HeldIsSound /\ SweepIsSound
      /\ TakenOnce /\ OneOutcome /\ RetriesCounted
  BY DEF MeshInv
<1>16. s \in MeshNode /\ d \in MeshNode
  <2>1. choice[t] \in Choice
    BY <1>1, <1>3, DecidedChoice DEF SelectStores
  <2> QED BY <2>1 DEF Choice
<1> HIDE DEF s, d
<1>4. p \in Packet
  <2>1. CreatePacket(m, "DATA", s, d, m) \in Packet
    BY <1>16, DeliveryAssumption DEF CreatePacket, Packet, Address
  <2>2. Routed(CreatePacket(m, "DATA", s, d, m), hop) \in Packet
    BY <2>1, RoutedIsPacket
  <2> QED BY <2>2 DEF Packet
<1> HIDE DEF p
<1>5. /\ item' = [item EXCEPT ![m] = [packet |-> p, attempts |-> 0]]
      /\ [packet |-> p, attempts |-> 0] \in Item
      /\ pending' \subseteq pending \cup {m} /\ pending \subseteq pending'
      /\ told' = [told EXCEPT !.sends = [@ EXCEPT ![m] = 1]]
  BY <1>1, <1>4 DEF p, Item
<1>6. told.sends \in [Message -> Nat] /\ [told.sends EXCEPT ![m] = 1] \in [Message -> Nat]
  BY <1>3 DEF DeliveryTypeOK, Told
<1>7. /\ told' \in Told /\ told'.sends = [told.sends EXCEPT ![m] = 1]
      /\ told'.acked = told.acked /\ told'.failed = told.failed /\ told'.late = told.late
      /\ told'.taken = told.taken /\ told'.twice = told.twice /\ told'.dropped = told.dropped
  BY <1>3, <1>5, <1>6 DEF DeliveryTypeOK, Told
<1>8. TopologyInv'
  BY <1>1, <1>3, SelectEndsKeeps
<1>9. DeliveryTypeOK'
  <2>1. outgoing' \in Seq(Packet) /\ Len(outgoing') <= QueueSize
    BY <1>1, <1>3, <1>4, EmitType DEF p
  <2> QED BY <1>2, <1>3, <1>5, <1>7, <2>1 DEF DeliveryTypeOK
<1>10. \A k \in Message : item'[k] = IF k = m THEN [packet |-> p, attempts |-> 0] ELSE item[k]
  BY <1>3, <1>5 DEF DeliveryTypeOK
<1>11. item'[m] # NoItem /\ item'[m].attempts = 0
  BY <1>10 DEF NoItem
<1>12. WindowIsSound' /\ HeldIsSound'
  BY <1>2, <1>3, <1>7 DEF WindowIsSound, HeldIsSound, Known
<1>13. SweepIsSound'
  <2>1. m \notin told.acked \cup told.failed
    BY <1>2, <1>3 DEF SweepIsSound
  <2>2. \A k \in Message : item[k] # NoItem => item'[k] # NoItem
    BY <1>2, <1>10
  <2>3. pending \cup sweep.ids \cup told.acked \cup told.failed \subseteq Message
    BY <1>3 DEF DeliveryTypeOK, Told
  <2>4. \A k \in pending' \cup sweep'.ids \cup told'.acked \cup told'.failed : item'[k] # NoItem
    BY <1>2, <1>3, <1>5, <1>7, <1>11, <2>2, <2>3 DEF SweepIsSound
  <2> QED BY <1>2, <1>3, <1>5, <1>7, <2>1, <2>4 DEF SweepIsSound
<1>14. TakenOnce' /\ OneOutcome'
  BY <1>3, <1>7 DEF TakenOnce, OneOutcome
<1>15. RetriesCounted'
  <2> SUFFICES ASSUME NEW k \in Message, item'[k] # NoItem
               PROVE  /\ told'.sends[k] = item'[k].attempts + 1
                      /\ \E limit \in RetryLimits : item'[k].attempts <= limit
    BY DEF RetriesCounted
  <2>1. CASE k = m
    <3>1. told'.sends[k] = 1 /\ item'[k].attempts = 0
      BY <1>6, <1>7, <1>11, <2>1
    <3>2. \E limit \in RetryLimits : 0 <= limit
      <4>1. PICK limit \in RetryLimits : TRUE
        BY MeshAssumption
      <4>2. limit \in Nat /\ 0 <= limit
        BY <4>1, MeshAssumption
      <4> QED BY <4>2
    <3> QED BY <3>1, <3>2
  <2>2. CASE k # m
    <3>1. item'[k] = item[k] /\ told'.sends[k] = told.sends[k]
      BY <1>6, <1>7, <1>10, <2>2
    <3> QED BY <1>3, <3>1 DEF RetriesCounted
  <2> QED BY <2>1, <2>2
<1> QED BY <1>8, <1>9, <1>12, <1>13, <1>14, <1>15 DEF MeshInv

\* Selecting a route for a request.
LEMMA SelectRequestKeeps ==
    ASSUME MeshInv, NEW t \in Thread, SelectRequest(t)
    PROVE  MeshInv'
<1>1. TopologyInv /\ DeliveryTypeOK
  BY DEF MeshInv
<1>2. UNCHANGED deliveryVars /\ carried[t] = NoPacket /\ (RouteRequest(t) \/ SelectEnds(t))
  BY DEF SelectRequest
<1>3. CASE RouteRequest(t)
  <2>1. PICK s \in MeshNode, d \in MeshNode, direction \in Directions : SelectBegins(t, s, d, direction)
    BY <1>3 DEF RouteRequest
  <2>2. TopologyInv'
    BY <1>1, <2>1, SelectBeginsIsSound
  <2> QED BY <1>2, <2>2, NothingDeliveredKeeps
<1>4. CASE SelectEnds(t)
  <2>1. TopologyInv'
    BY <1>1, <1>4, SelectEndsKeeps DEF SelectEnds
  <2> QED BY <1>2, <2>1, NothingDeliveredKeeps
<1> QED BY <1>2, <1>3, <1>4

---------------------------------------------------------------------------
(* Reception.                                                              *)

LEMMA ReceiveChecksKeeps ==
    ASSUME MeshInv, NEW t \in Thread, NEW p \in Arrivals, ReceiveChecks(t, p)
    PROVE  MeshInv'
<1>1. /\ TopologyInv /\ DeliveryTypeOK /\ WindowIsSound /\ HeldIsSound /\ SweepIsSound
      /\ TakenOnce /\ OneOutcome /\ RetriesCounted
  BY DEF MeshInv
<1>2. /\ held[t] = NoPacket /\ ~Known(p.id)
      /\ held' = [held EXCEPT ![t] = p]
      /\ UNCHANGED <<topologyVars, pending, item, outgoing, incoming, window, carried, sweep>>
  BY DEF ReceiveChecks
<1> DEFINE twice == {id \in {p.id} : \E u \in Thread : held[u] # NoPacket /\ held[u].id = id}
<1>3. told' = [told EXCEPT !.dropped = @ \cup twice]
  BY DEF ReceiveChecks
<1>4. p \in Packet /\ p # NoPacket /\ twice \subseteq Message \cup Reply
  BY ArrivalAssumption DEF Packet, NoPacket
<1>5. \A u \in Thread : held[u] # NoPacket /\ held[u].id = p.id => p.id \in twice
  OBVIOUS
<1> HIDE DEF twice
<1>6. /\ told' \in Told /\ told'.sends = told.sends
      /\ told'.acked = told.acked /\ told'.failed = told.failed /\ told'.late = told.late
      /\ told'.taken = told.taken /\ told'.twice = told.twice
      /\ told'.dropped = told.dropped \cup twice
  BY <1>1, <1>3, <1>4 DEF DeliveryTypeOK, Told
<1>7. TopologyInv'
  BY <1>1, <1>2, TopologyStutters
<1>8. DeliveryTypeOK'
  BY <1>1, <1>2, <1>4, <1>6 DEF DeliveryTypeOK
<1>9. WindowIsSound' /\ SweepIsSound' /\ TakenOnce' /\ OneOutcome' /\ RetriesCounted'
  BY <1>1, <1>2, <1>6 DEF WindowIsSound, SweepIsSound, TakenOnce, OneOutcome, RetriesCounted, Known
<1>10. \A u \in Thread : held'[u] = IF u = t THEN p ELSE held[u]
  BY <1>1, <1>2 DEF DeliveryTypeOK
<1>12. HeldIsSound'
  <2>1. ASSUME NEW u \in Thread, held'[u] # NoPacket
        PROVE  /\ held'[u] \in Arrivals
               /\ held'[u].id \notin told'.dropped
                    => \A i \in DOMAIN window' : window'[i] # held'[u].id
    BY <1>1, <1>2, <1>6, <1>10, <2>1 DEF HeldIsSound, Known
  <2>2. ASSUME NEW u \in Thread, NEW v \in Thread, u # v, held'[u] # NoPacket,
               held'[v] # NoPacket, held'[u].id = held'[v].id
        PROVE  held'[u].id \in told'.dropped
    <3>1. CASE u # t /\ v # t
      BY <1>1, <1>6, <1>10, <2>2, <3>1 DEF HeldIsSound
    <3>2. CASE u = t \/ v = t
      BY <1>5, <1>6, <1>10, <2>2, <3>2
    <3> QED BY <3>1, <3>2
  <2> QED BY <2>1, <2>2 DEF HeldIsSound, Known
<1> QED BY <1>7, <1>8, <1>9, <1>12 DEF MeshInv

\* The id of a packet that is dealt with enters the window: what the window and
\* the threads hold stays sound, whatever else is told.
LEMMA HandledKeeps ==
    ASSUME MeshInv, NEW t \in Thread, held[t] # NoPacket,
           window' = Remembered(held[t].id), held' = [held EXCEPT ![t] = NoPacket],
           told'.dropped = told.dropped \cup Evicted(held[t].id),
           told'.taken \subseteq told.taken \cup {held[t].id}
    PROVE  /\ WindowIsSound' /\ HeldIsSound'
           /\ window' \in Seq(Message \cup Reply)
           /\ held' \in [Thread -> Packet \cup {NoPacket}]
           /\ Evicted(held[t].id) \subseteq Message \cup Reply
<1>10. PICK id : id = held[t].id
  OBVIOUS
<1>1. DeliveryTypeOK /\ WindowIsSound /\ HeldIsSound
  BY DEF MeshInv
<1>2. id \in Message \cup Reply
  BY <1>1, <1>10, HeldPacket
<1>3. /\ window' \in Seq(Message \cup Reply) /\ Len(window') <= WindowSize
      /\ Evicted(id) \subseteq Message \cup Reply
      /\ Known(id)'
      /\ \A m : Known(m)' => Known(m) \/ m = id
      /\ \A m : Known(m) => Known(m)' \/ m \in Evicted(id)
  BY <1>1, <1>2, <1>10, RememberedLemma DEF WindowIsSound
<1>4. \A u \in Thread : held'[u] = IF u = t THEN NoPacket ELSE held[u]
  BY <1>1 DEF DeliveryTypeOK
<1>5. held' \in [Thread -> Packet \cup {NoPacket}]
  BY <1>1 DEF DeliveryTypeOK
<1>6. WindowIsSound'
  <2>1. ASSUME NEW m \in told'.taken \ told'.dropped PROVE Known(m)'
    <3>1. CASE m = id
      BY <1>3, <3>1
    <3>2. CASE m # id
      <4>1. m \in told.taken \ told.dropped /\ m \notin Evicted(id)
        BY <1>10, <2>1, <3>2
      <4> QED BY <1>1, <1>3, <4>1 DEF WindowIsSound
    <3> QED BY <3>1, <3>2
  <2> QED BY <1>3, <2>1 DEF WindowIsSound
<1>7. HeldIsSound'
  <2>1. ASSUME NEW u \in Thread, held'[u] # NoPacket
        PROVE  /\ held'[u] \in Arrivals
               /\ held'[u].id \notin told'.dropped
                    => \A i \in DOMAIN window' : window'[i] # held'[u].id
    <3>1. u # t /\ held'[u] = held[u] /\ held[u] # NoPacket
      BY <1>4, <2>1
    <3>2. held[u] \in Arrivals /\ (held[u].id \notin told.dropped => ~Known(held[u].id))
      BY <1>1, <3>1 DEF HeldIsSound
    <3>3. held[u].id = id => id \in told.dropped
      BY <1>1, <1>10, <3>1 DEF HeldIsSound
    <3>4. PICK k : k = held[u].id
      OBVIOUS
    <3>5. k \notin told'.dropped => ~Known(k)'
      BY <1>3, <1>10, <3>2, <3>3, <3>4
    <3> QED BY <3>1, <3>2, <3>4, <3>5 DEF Known
  <2>2. ASSUME NEW u \in Thread, NEW v \in Thread, u # v, held'[u] # NoPacket,
               held'[v] # NoPacket, held'[u].id = held'[v].id
        PROVE  held'[u].id \in told'.dropped
    BY <1>1, <1>4, <2>2 DEF HeldIsSound
  <2> QED BY <2>1, <2>2 DEF HeldIsSound, Known
<1> QED BY <1>3, <1>5, <1>6, <1>7, <1>10

LEMMA AnswersKeeps ==
    ASSUME MeshInv, NEW t \in Thread, held[t] # NoPacket, held[t].kind # "DATA",
           window' = Remembered(held[t].id), held' = [held EXCEPT ![t] = NoPacket],
           Answers(held[t]), UNCHANGED <<topologyVars, item, sweep>>
    PROVE  MeshInv'
<1> DEFINE p == held[t]
<1>1. /\ TopologyInv /\ DeliveryTypeOK /\ WindowIsSound /\ HeldIsSound /\ SweepIsSound
      /\ TakenOnce /\ OneOutcome /\ RetriesCounted
  BY DEF MeshInv
<1>2. p.about \in Message
  BY <1>1, HeldPacket
<1>3. /\ pending' = pending \ {p.about} /\ UNCHANGED <<outgoing, incoming, carried>>
      /\ told' = [told EXCEPT !.acked = @ \cup (pending \cap {p.about}),
                    !.late = @ \cup (pending \cap sweep.ids \cap {p.about}),
                    !.dropped = @ \cup Evicted(p.id)]
  BY DEF Answers
<1>4. told'.dropped = told.dropped \cup Evicted(p.id) /\ told'.taken = told.taken
  BY <1>1, <1>3 DEF DeliveryTypeOK, Told
<1>5. /\ WindowIsSound' /\ HeldIsSound'
      /\ window' \in Seq(Message \cup Reply)
      /\ held' \in [Thread -> Packet \cup {NoPacket}]
      /\ Evicted(p.id) \subseteq Message \cup Reply
  BY <1>4, HandledKeeps
<1> HIDE DEF p
<1>6. /\ told' \in Told /\ told'.sends = told.sends
      /\ told'.acked = told.acked \cup (pending \cap {p.about})
      /\ told'.failed = told.failed
      /\ told'.late = told.late \cup (pending \cap sweep.ids \cap {p.about})
      /\ told'.taken = told.taken /\ told'.twice = told.twice
      /\ told'.dropped = told.dropped \cup Evicted(p.id)
  BY <1>1, <1>2, <1>3, <1>5 DEF DeliveryTypeOK, Told
<1>7. TopologyInv'
  BY <1>1, TopologyStutters
<1>8. DeliveryTypeOK'
  BY <1>1, <1>3, <1>5, <1>6 DEF DeliveryTypeOK
<1>9. SweepIsSound'
  BY <1>1, <1>3, <1>6 DEF SweepIsSound
<1>10. TakenOnce' /\ RetriesCounted'
  BY <1>1, <1>6 DEF TakenOnce, RetriesCounted
<1>11. OneOutcome'
  BY <1>1, <1>6 DEF OneOutcome, SweepIsSound
<1> QED BY <1>5, <1>7, <1>8, <1>9, <1>10, <1>11 DEF MeshInv

LEMMA DeliversKeeps ==
    ASSUME MeshInv, NEW t \in Thread, held[t] # NoPacket, held[t].kind = "DATA",
           window' = Remembered(held[t].id), held' = [held EXCEPT ![t] = NoPacket],
           Delivers(held[t]), UNCHANGED <<topologyVars, item, sweep>>
    PROVE  MeshInv'
<1> DEFINE p == held[t]
<1>1. /\ TopologyInv /\ DeliveryTypeOK /\ WindowIsSound /\ HeldIsSound /\ SweepIsSound
      /\ TakenOnce /\ OneOutcome /\ RetriesCounted
  BY DEF MeshInv
<1>2. p.id \in Message
  BY <1>1, HeldPacket
<1>3. /\ incoming' = Enqueue(incoming, p.id, QueueSize)
      /\ told' = [told EXCEPT !.taken = @ \cup {p.id}, !.twice = @ \cup (told.taken \cap {p.id}),
                    !.dropped = @ \cup Evicted(p.id)]
      /\ UNCHANGED <<outgoing, pending, carried>>
  BY DEF Delivers
<1>4. told'.dropped = told.dropped \cup Evicted(p.id) /\ told'.taken = told.taken \cup {p.id}
  BY <1>1, <1>3 DEF DeliveryTypeOK, Told
<1>5. /\ WindowIsSound' /\ HeldIsSound'
      /\ window' \in Seq(Message \cup Reply)
      /\ held' \in [Thread -> Packet \cup {NoPacket}]
      /\ Evicted(p.id) \subseteq Message \cup Reply
  BY <1>4, HandledKeeps
<1>6. p.id \in told.taken => p.id \in told.dropped
  BY <1>1 DEF HeldIsSound, WindowIsSound
<1> HIDE DEF p
<1>7. /\ told' \in Told /\ told'.sends = told.sends
      /\ told'.acked = told.acked /\ told'.failed = told.failed /\ told'.late = told.late
      /\ told'.twice = told.twice \cup (told.taken \cap {p.id})
      /\ told'.dropped = told.dropped \cup Evicted(p.id)
  BY <1>1, <1>2, <1>3, <1>5 DEF DeliveryTypeOK, Told
<1>8. TopologyInv'
  BY <1>1, TopologyStutters
<1>9. incoming' \in Seq(Message) /\ Len(incoming') <= QueueSize
  BY <1>1, <1>2, <1>3, EnqueueLemma, DeliveryAssumption DEF DeliveryTypeOK, Entered
<1>10. DeliveryTypeOK'
  BY <1>1, <1>3, <1>5, <1>7, <1>9 DEF DeliveryTypeOK
<1>11. SweepIsSound' /\ OneOutcome' /\ RetriesCounted'
  BY <1>1, <1>3, <1>7 DEF SweepIsSound, OneOutcome, RetriesCounted
<1>12. TakenOnce'
  BY <1>1, <1>6, <1>7 DEF TakenOnce
<1> QED BY <1>5, <1>8, <1>10, <1>11, <1>12 DEF MeshInv

LEMMA CarriesKeeps ==
    ASSUME MeshInv, NEW t \in Thread, held[t] # NoPacket,
           window' = Remembered(held[t].id), held' = [held EXCEPT ![t] = NoPacket],
           Carries(t, held[t]), UNCHANGED <<topologyVars, item, sweep>>
    PROVE  MeshInv'
<1> DEFINE p == held[t]
<1>1. /\ TopologyInv /\ DeliveryTypeOK /\ WindowIsSound /\ HeldIsSound /\ SweepIsSound
      /\ TakenOnce /\ OneOutcome /\ RetriesCounted
  BY DEF MeshInv
<1>2. p \in Packet
  BY <1>1, HeldPacket
<1>3. /\ told' = [told EXCEPT !.dropped = @ \cup Evicted(p.id)]
      /\ UNCHANGED <<outgoing, pending, incoming>>
      /\ ~ForUs(p) /\ carried' = [carried EXCEPT ![t] = p]
  BY DEF Carries
<1>4. told'.dropped = told.dropped \cup Evicted(p.id) /\ told'.taken = told.taken
  BY <1>1, <1>3 DEF DeliveryTypeOK, Told
<1>5. /\ WindowIsSound' /\ HeldIsSound'
      /\ window' \in Seq(Message \cup Reply)
      /\ held' \in [Thread -> Packet \cup {NoPacket}]
      /\ Evicted(p.id) \subseteq Message \cup Reply
  BY <1>4, HandledKeeps
<1> HIDE DEF p
<1>6. /\ told' \in Told /\ told'.sends = told.sends
      /\ told'.acked = told.acked /\ told'.failed = told.failed /\ told'.late = told.late
      /\ told'.taken = told.taken /\ told'.twice = told.twice
      /\ told'.dropped = told.dropped \cup Evicted(p.id)
  BY <1>1, <1>3, <1>5 DEF DeliveryTypeOK, Told
<1>7. TopologyInv'
  BY <1>1, TopologyStutters
<1>8. carried' \in [Thread -> Transit \cup {NoPacket}]
  <2>1. p \in Transit
    BY <1>2, <1>3 DEF Packet, Address, ForUs, Transit
  <2>2. carried \in [Thread -> Transit \cup {NoPacket}]
    BY <1>1 DEF DeliveryTypeOK
  <2> QED BY <1>3, <2>1, <2>2
<1>9. DeliveryTypeOK'
  BY <1>1, <1>3, <1>5, <1>6, <1>8 DEF DeliveryTypeOK
<1>10. SweepIsSound' /\ TakenOnce' /\ OneOutcome' /\ RetriesCounted'
  BY <1>1, <1>3, <1>6 DEF SweepIsSound, TakenOnce, OneOutcome, RetriesCounted
<1> QED BY <1>5, <1>7, <1>8, <1>9, <1>10 DEF MeshInv

LEMMA ReceiveRequestKeeps ==
    ASSUME MeshInv, NEW t \in Thread, ReceiveRequest(t)
    PROVE  MeshInv'
<1>1. CASE \E p \in Arrivals : ReceiveChecks(t, p)
  BY <1>1, ReceiveChecksKeeps
<1>2. CASE ReceiveHandles(t)
  <2>1. /\ held[t] # NoPacket /\ window' = Remembered(held[t].id)
        /\ held' = [held EXCEPT ![t] = NoPacket]
        /\ UNCHANGED <<topologyVars, item, sweep>>
        /\ IF held[t].kind = "DATA" THEN Delivers(held[t]) \/ Carries(t, held[t]) ELSE Answers(held[t])
    BY <1>2 DEF ReceiveHandles
  <2> QED BY <2>1, AnswersKeeps, DeliversKeeps, CarriesKeeps
<1> QED BY <1>1, <1>2 DEF ReceiveRequest

LEMMA ForwardRequestKeeps ==
    ASSUME MeshInv, NEW t \in Thread, ForwardRequest(t)
    PROVE  MeshInv'
<1> DEFINE p == carried[t]
<1>1. /\ TopologyInv /\ DeliveryTypeOK
  BY DEF MeshInv
<1>2. p # NoPacket => p \in Packet /\ p.destination \in MeshNode
  BY <1>1 DEF DeliveryTypeOK, Transit
<1>3. ASSUME p # NoPacket, Dismissed(t), TopologyInv', outgoing' \in Seq(Packet), Len(outgoing') <= QueueSize
      PROVE  MeshInv'
  <2>1. /\ carried' = [carried EXCEPT ![t] = NoPacket]
        /\ UNCHANGED <<pending, item, incoming, window, held, sweep, told>>
    BY <1>3 DEF Dismissed
  <2>2. carried' \in [Thread -> Transit \cup {NoPacket}]
    BY <1>1, <2>1 DEF DeliveryTypeOK
  <2> QED BY <1>1, <1>3, <2>1, <2>2, QueuesChangeKeeps DEF DeliveryTypeOK
<1>4. CASE ForwardBegins(t)
  <2>1. /\ p # NoPacket /\ p.ttl > 0 /\ Here(p) # NoNode
        /\ SelectBegins(t, Here(p), p.destination, DirectionFrom(p.source))
        /\ UNCHANGED deliveryVars
    BY <1>4 DEF ForwardBegins
  <2>2. Here(p) \in MeshNode /\ DirectionFrom(p.source) \in Directions
    BY <1>1, <1>2, <2>1 DEF Here, Packet, TopologyInv, TopologyTypeOK, DirectionFrom, Directions
  <2>3. TopologyInv'
    BY <1>1, <1>2, <2>1, <2>2, SelectBeginsIsSound
  <2> QED BY <2>1, <2>3, NothingDeliveredKeeps
<1>5. CASE ForwardDrops(t)
  <2>1. p # NoPacket /\ Dismissed(t) /\ UNCHANGED <<topologyVars, outgoing>>
    BY <1>5 DEF ForwardDrops
  <2>2. TopologyInv'
    BY <1>1, <2>1, TopologyStutters
  <2> QED BY <1>1, <1>3, <2>1, <2>2 DEF DeliveryTypeOK
<1>6. ASSUME SelectFails(t) \/ \E hop \in MeshNode : SelectStores(t, hop)
      PROVE  TopologyInv'
  BY <1>1, <1>6, SelectEndsKeeps
<1>7. CASE ForwardFails(t)
  BY <1>1, <1>3, <1>6, <1>7 DEF ForwardFails, DeliveryTypeOK
<1>8. CASE \E hop \in MeshNode : Forwards(t, hop)
  <2>1. PICK hop \in MeshNode : Forwards(t, hop)
    BY <1>8
  <2>2. /\ p # NoPacket /\ p.ttl > 0 /\ SelectStores(t, hop) /\ Dismissed(t)
        /\ Emit(Routed(Decremented(p), hop)) \/ UNCHANGED outgoing
    BY <2>1 DEF Forwards
  <2>3. Routed(Decremented(p), hop) \in Packet
    <3>1. p \in Packet /\ p.ttl > 0
      BY <1>2, <2>2
    <3> HIDE DEF p
    <3>2. Decremented(p) \in Packet
      BY <3>1, RoutedIsPacket
    <3> QED BY <3>2, RoutedIsPacket
  <2>4. outgoing' \in Seq(Packet) /\ Len(outgoing') <= QueueSize
    BY <1>1, <2>2, <2>3, EmitType DEF DeliveryTypeOK
  <2> QED BY <1>3, <1>6, <2>2, <2>4
<1> QED BY <1>4, <1>5, <1>7, <1>8 DEF ForwardRequest

---------------------------------------------------------------------------
(* The sweep.                                                              *)

LEMMA SweepBeginsKeeps == MeshInv /\ SweepBegins => MeshInv'
<1> SUFFICES ASSUME MeshInv, SweepBegins PROVE MeshInv'
  OBVIOUS
<1>1. /\ TopologyInv /\ DeliveryTypeOK /\ WindowIsSound /\ HeldIsSound /\ SweepIsSound
      /\ TakenOnce /\ OneOutcome /\ RetriesCounted
  BY DEF MeshInv
<1>2. /\ sweep' = [ids |-> pending, limit |-> settings.retries]
      /\ UNCHANGED <<topologyVars, pending, item, outgoing, incoming, window, held, carried, told>>
  BY DEF SweepBegins
<1>3. settings.retries \in RetryLimits /\ settings.retries \in Nat
  BY <1>1, MeshAssumption DEF TopologyInv, TopologyTypeOK, Settings
<1>4. TopologyInv'
  BY <1>1, <1>2, TopologyStutters
<1>5. DeliveryTypeOK'
  BY <1>1, <1>2, <1>3 DEF DeliveryTypeOK
<1>6. WindowIsSound' /\ HeldIsSound'
  BY <1>1, <1>2 DEF WindowIsSound, HeldIsSound, Known
<1>7. SweepIsSound' /\ TakenOnce' /\ OneOutcome' /\ RetriesCounted'
  BY <1>1, <1>2, <1>3 DEF SweepIsSound, TakenOnce, OneOutcome, RetriesCounted
<1> QED BY <1>4, <1>5, <1>6, <1>7 DEF MeshInv

LEMMA SweepSkipsKeeps ==
    ASSUME MeshInv, NEW m \in Message, SweepSkips(m)
    PROVE  MeshInv'
<1>1. /\ TopologyInv /\ DeliveryTypeOK /\ WindowIsSound /\ HeldIsSound /\ SweepIsSound
      /\ TakenOnce /\ OneOutcome /\ RetriesCounted
  BY DEF MeshInv
<1>2. /\ m \in sweep.ids /\ sweep' = [sweep EXCEPT !.ids = @ \ {m}]
      /\ UNCHANGED <<topologyVars, pending, item, outgoing, incoming, window, held, carried, told>>
  BY DEF SweepSkips
<1>3. sweep' \in [ids : SUBSET Message, limit : Nat] /\ sweep'.ids = sweep.ids \ {m}
      /\ sweep'.limit = sweep.limit
  BY <1>1, <1>2 DEF DeliveryTypeOK
<1>4. TopologyInv'
  BY <1>1, <1>2, TopologyStutters
<1>5. DeliveryTypeOK'
  BY <1>1, <1>2, <1>3 DEF DeliveryTypeOK
<1>6. WindowIsSound' /\ HeldIsSound'
  BY <1>1, <1>2 DEF WindowIsSound, HeldIsSound, Known
<1>7. SweepIsSound' /\ TakenOnce' /\ OneOutcome' /\ RetriesCounted'
  BY <1>1, <1>2, <1>3 DEF SweepIsSound, TakenOnce, OneOutcome, RetriesCounted
<1> QED BY <1>4, <1>5, <1>6, <1>7 DEF MeshInv

LEMMA SweepGivesUpKeeps ==
    ASSUME MeshInv, NEW m \in Message, SweepGivesUp(m)
    PROVE  MeshInv'
<1>1. /\ TopologyInv /\ DeliveryTypeOK /\ WindowIsSound /\ HeldIsSound /\ SweepIsSound
      /\ TakenOnce /\ OneOutcome /\ RetriesCounted
  BY DEF MeshInv
<1>2. /\ m \in sweep.ids /\ sweep' = [sweep EXCEPT !.ids = @ \ {m}]
      /\ pending' = pending \ {m} /\ told' = [told EXCEPT !.failed = @ \cup {m}]
      /\ UNCHANGED <<topologyVars, item, outgoing, incoming, window, held, carried>>
  BY DEF SweepGivesUp
<1>3. sweep' \in [ids : SUBSET Message, limit : Nat] /\ sweep'.ids = sweep.ids \ {m}
      /\ sweep'.limit = sweep.limit
  BY <1>1, <1>2 DEF DeliveryTypeOK
<1>4. /\ told' \in Told /\ told'.sends = told.sends
      /\ told'.acked = told.acked /\ told'.failed = told.failed \cup {m} /\ told'.late = told.late
      /\ told'.taken = told.taken /\ told'.twice = told.twice /\ told'.dropped = told.dropped
  BY <1>1, <1>2 DEF DeliveryTypeOK, Told
<1>5. TopologyInv'
  BY <1>1, <1>2, TopologyStutters
<1>6. DeliveryTypeOK'
  BY <1>1, <1>2, <1>3, <1>4 DEF DeliveryTypeOK
<1>7. WindowIsSound' /\ HeldIsSound'
  BY <1>1, <1>2, <1>4 DEF WindowIsSound, HeldIsSound, Known
<1>8. SweepIsSound'
  BY <1>1, <1>2, <1>3, <1>4 DEF SweepIsSound
<1>9. OneOutcome'
  BY <1>1, <1>2, <1>4 DEF OneOutcome, SweepIsSound
<1>10. TakenOnce' /\ RetriesCounted'
  BY <1>1, <1>2, <1>4 DEF TakenOnce, RetriesCounted
<1> QED BY <1>5, <1>6, <1>7, <1>8, <1>9, <1>10 DEF MeshInv

LEMMA SweepResendsKeeps ==
    ASSUME MeshInv, NEW m \in Message, SweepResends(m)
    PROVE  MeshInv'
<1>1. /\ TopologyInv /\ DeliveryTypeOK /\ WindowIsSound /\ HeldIsSound /\ SweepIsSound
      /\ TakenOnce /\ OneOutcome /\ RetriesCounted
  BY DEF MeshInv
<1>2. /\ m \in sweep.ids /\ item[m].attempts < sweep.limit
      /\ sweep' = [sweep EXCEPT !.ids = @ \ {m}]
      /\ Emit(item[m].packet)
      /\ UNCHANGED <<topologyVars, pending, incoming, window, held, carried>>
  BY DEF SweepResends
<1>3. item[m] # NoItem /\ item[m] \in Item /\ item[m].packet \in Packet /\ item[m].attempts \in Nat
  BY <1>1, <1>2 DEF SweepIsSound, DeliveryTypeOK, Item
<1>4. sweep' \in [ids : SUBSET Message, limit : Nat] /\ sweep'.ids = sweep.ids \ {m}
      /\ sweep'.limit = sweep.limit
  BY <1>1, <1>2 DEF DeliveryTypeOK
<1> DEFINE next == [item[m] EXCEPT !.attempts = @ + 1]
           sends == [told.sends EXCEPT ![m] = @ + 1]
<1>5. next \in Item /\ next.attempts = item[m].attempts + 1 /\ next # NoItem
  BY <1>3 DEF Item, NoItem
<1>6. told.sends \in [Message -> Nat] /\ sends \in [Message -> Nat]
  BY <1>1 DEF DeliveryTypeOK, Told
<1>7. item' = [item EXCEPT ![m] = next] /\ told' = [told EXCEPT !.sends = sends]
  BY DEF SweepResends
<1>8. \A k \in Message : sends[k] = IF k = m THEN told.sends[m] + 1 ELSE told.sends[k]
  BY <1>6
<1> HIDE DEF next, sends
<1>9. /\ told' \in Told /\ told'.sends = sends
      /\ told'.acked = told.acked /\ told'.failed = told.failed /\ told'.late = told.late
      /\ told'.taken = told.taken /\ told'.twice = told.twice /\ told'.dropped = told.dropped
  BY <1>1, <1>6, <1>7 DEF DeliveryTypeOK, Told
<1>10. \A k \in Message : item'[k] = IF k = m THEN next ELSE item[k]
  BY <1>1, <1>7 DEF DeliveryTypeOK
<1>11. TopologyInv'
  BY <1>1, <1>2, TopologyStutters
<1>12. DeliveryTypeOK'
  <2>1. outgoing' \in Seq(Packet) /\ Len(outgoing') <= QueueSize
    BY <1>1, <1>2, <1>3, EmitType
  <2>2. item' \in [Message -> Item \cup {NoItem}]
    BY <1>1, <1>5, <1>7 DEF DeliveryTypeOK
  <2> QED BY <1>1, <1>2, <1>4, <1>9, <2>1, <2>2 DEF DeliveryTypeOK
<1>13. WindowIsSound' /\ HeldIsSound'
  BY <1>1, <1>2, <1>9 DEF WindowIsSound, HeldIsSound, Known
<1>14. SweepIsSound'
  <2>1. pending \cup sweep.ids \cup told.acked \cup told.failed \subseteq Message
    BY <1>1 DEF DeliveryTypeOK, Told
  <2> QED BY <1>1, <1>2, <1>4, <1>5, <1>9, <1>10, <2>1 DEF SweepIsSound
<1>15. TakenOnce' /\ OneOutcome'
  BY <1>1, <1>9 DEF TakenOnce, OneOutcome
<1>16. RetriesCounted'
  <2> SUFFICES ASSUME NEW k \in Message, item'[k] # NoItem
               PROVE  /\ told'.sends[k] = item'[k].attempts + 1
                      /\ \E limit \in RetryLimits : item'[k].attempts <= limit
    BY DEF RetriesCounted
  <2>1. CASE k = m
    <3>1. told'.sends[k] = told.sends[m] + 1 /\ item'[k].attempts = item[m].attempts + 1
      BY <1>5, <1>8, <1>9, <1>10, <2>1
    <3>2. told.sends[m] = item[m].attempts + 1
      BY <1>1, <1>3 DEF RetriesCounted
    <3>3. sweep.limit \in RetryLimits /\ sweep.limit \in Nat
      BY <1>1, <1>2, MeshAssumption DEF SweepIsSound
    <3>4. item[m].attempts + 1 <= sweep.limit
      BY <1>2, <1>3, <3>3
    <3> QED BY <3>1, <3>2, <3>3, <3>4
  <2>2. CASE k # m
    <3>1. item'[k] = item[k] /\ told'.sends[k] = told.sends[k]
      BY <1>8, <1>9, <1>10, <2>2
    <3> QED BY <1>1, <3>1 DEF RetriesCounted
  <2> QED BY <2>1, <2>2
<1> QED BY <1>11, <1>12, <1>13, <1>14, <1>15, <1>16 DEF MeshInv

---------------------------------------------------------------------------
(* The specification.                                                      *)

LEMMA MeshStepKeeps == MeshInv /\ [MeshNext]_meshVars => MeshInv'
<1> SUFFICES ASSUME MeshInv, [MeshNext]_meshVars PROVE MeshInv'
  OBVIOUS
<1>1. CASE ChangeRequest /\ UNCHANGED deliveryVars
  <2>1. TopologyInv'
    BY <1>1, ChangeRequestKeeps DEF MeshInv
  <2> QED BY <1>1, <2>1, NothingDeliveredKeeps
<1>2. ASSUME NEW t \in Thread, SelectReads(t), UNCHANGED deliveryVars PROVE MeshInv'
  <2>1. TopologyInv'
    BY <1>2, SelectReadsKeeps DEF MeshInv
  <2> QED BY <1>2, <2>1, NothingDeliveredKeeps
<1>3. ASSUME NEW t \in Thread,
             SelectRequest(t) \/ SendRequest(t) \/ ReceiveRequest(t) \/ ForwardRequest(t)
      PROVE  MeshInv'
  BY <1>3, SelectRequestKeeps, SendKeeps, ReceiveRequestKeeps, ForwardRequestKeeps DEF SendRequest
<1>4. CASE Sweep
  BY <1>4, SweepBeginsKeeps, SweepSkipsKeeps, SweepGivesUpKeeps, SweepResendsKeeps DEF Sweep
<1>5. CASE ClearQueues
  <2>1. /\ outgoing' = << >> /\ incoming' = << >>
        /\ UNCHANGED <<topologyVars, pending, item, window, held, carried, sweep, told>>
    BY <1>5 DEF ClearQueues
  <2>2. TopologyInv'
    BY <2>1, TopologyStutters DEF MeshInv
  <2>3. /\ outgoing' \in Seq(Packet) /\ Len(outgoing') <= QueueSize
        /\ incoming' \in Seq(Message) /\ Len(incoming') <= QueueSize
    BY <2>1, DeliveryAssumption
  <2> QED BY <2>1, <2>2, <2>3, QueuesChangeKeeps DEF MeshInv, DeliveryTypeOK
<1>6. CASE UNCHANGED meshVars
  <2>1. TopologyInv'
    BY <1>6, TopologyStutters DEF MeshInv, meshVars
  <2> QED BY <1>6, <2>1, NothingDeliveredKeeps DEF meshVars
<1> QED BY <1>1, <1>2, <1>3, <1>4, <1>5, <1>6 DEF MeshNext

\* The inductive invariant: the topology, the window, the threads and the sweep
\* agree, for any number of nodes, messages and threads.
THEOREM MeshInvariance == MeshSpec => []MeshInv
<1>1. MeshInit => MeshInv
  BY MeshInitKeeps
<1>2. MeshInv /\ [MeshNext]_meshVars => MeshInv'
  BY MeshStepKeeps
<1> QED BY <1>1, <1>2, PTL DEF MeshSpec

\* A packet is taken twice only if the window had forgotten its id or two threads
\* received it at once (receive, _remember_message_id).
THEOREM TakenOnceHolds == MeshSpec => []TakenOnce
<1>1. MeshInv => TakenOnce
  BY DEF MeshInv
<1> QED BY <1>1, MeshInvariance, PTL

\* No message is both answered and given up, but for those answered while a sweep
\* was holding them (process_retries, _handle_ack, _handle_nack).
THEOREM OneOutcomeHolds == MeshSpec => []OneOutcome
<1>1. MeshInv => OneOutcome
  BY DEF MeshInv
<1> QED BY <1>1, MeshInvariance, PTL

\* A message is emitted once and once more per counted attempt, and there are no
\* more attempts than some retry_count allowed (process_retries).
THEOREM RetriesAreCounted == MeshSpec => []RetriesCounted
<1>1. MeshInv => RetriesCounted
  BY DEF MeshInv
<1> QED BY <1>1, MeshInvariance, PTL

\* There is one master at most, and it is the one packets are addressed by.  What the
\* separate readings of select_route have come to is what the links and thresholds
\* allow, unless one of them changed in between; a node becomes its own next hop only
\* so, and only over a link to itself (mesh_manager, select_route).
THEOREM TopologyIsSound == MeshSpec => [](RolesAgree /\ ChoicesAreRight /\ OwnHopsAreReported)
<1>1. MeshInv => RolesAgree /\ ChoicesAreRight /\ OwnHopsAreReported
  BY DEF MeshInv, TopologyInv
<1> QED BY <1>1, MeshInvariance, PTL

=============================================================================
