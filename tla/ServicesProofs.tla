--------------------------- MODULE ServicesProofs ---------------------------
(***************************************************************************)
(* Proofs about SensorRecords, for every set of parameters and threads and  *)
(* any number of readings and of interrupted requests; about BackupRestore, *)
(* for every set of files, of databases among them and of archives; and     *)
(* about the runs that hold both beside the mesh.                          *)
(***************************************************************************)
EXTENDS MCServices, MeshDeliveryProofs, FiniteSetTheorems

LEMMA ServingFields ==
    ASSUME SensorTypeOK, NEW t \in SensorThread
    PROVE  /\ serving[t].at \in Work \cup {"NOTHING"}
           /\ serving[t].of \subseteq Parameter /\ serving[t].next \subseteq Parameter
           /\ serving[t].at = "NOTHING" => serving[t].of = {} /\ serving[t].next = {}
           /\ serving[t] = NoService => serving[t].at = "NOTHING"
BY DEF SensorTypeOK, Serves, NoService, Work

\* What others are at work on.
LEMMA AtLemma ==
    ASSUME NEW t \in SensorThread, NEW works, NEW u \in SensorThread \ {t}, serving[u].at \in works
    PROVE  serving[u].of \subseteq At(t, works)
BY DEF At

LEMMA SensorInitKeeps == SensorInit => SensorInv
<1> SUFFICES ASSUME SensorInit PROVE SensorInv
  OBVIOUS
<1> USE DEF SensorInit
<1>1. SensorTypeOK
  BY SensorAssumption DEF SensorTypeOK
<1>2. HistoryHasParameter /\ GraphsFollowParameters
  BY DEF HistoryHasParameter, GraphsFollowParameters, Exists
<1>3. ServicesAreSound /\ OverlapsAreSeen
  BY DEF ServicesAreSound, OverlapsAreSeen, NoService
<1> QED BY <1>1, <1>2, <1>3 DEF SensorInv

---------------------------------------------------------------------------
(* A request begins.                                                       *)

\* A thread that had nothing to do takes on some parameters, whose overlaps with
\* deletions Serve records.
LEMMA ServeKeeps ==
    ASSUME SensorInv, NEW t \in SensorThread, serving[t] = NoService,
           NEW at \in Work, NEW of \in SUBSET Parameter, Serve(t, at, of, {})
    PROVE  /\ serving' = [serving EXCEPT ![t] = [at |-> at, of |-> of, next |-> {}]]
           /\ serving' \in [SensorThread -> Serves(Work) \cup {NoService}]
           /\ overtaken \subseteq overtaken' /\ overtaken' \subseteq Parameter
           /\ OverlapsAreSeen'
           /\ \A u \in SensorThread \ {t} : at = "DELETE" \/ serving[u].at = "DELETE" =>
                of \cap serving[u].of \subseteq overtaken'
<1>1. SensorTypeOK /\ OverlapsAreSeen
  BY DEF SensorInv
<1>2. /\ serving' = [serving EXCEPT ![t] = [at |-> at, of |-> of, next |-> {}]]
      /\ overtaken' = overtaken \cup (of \cap At(t, IF at = "DELETE" THEN Work ELSE {"DELETE"}))
  BY DEF Serve
<1>3. serving' \in [SensorThread -> Serves(Work) \cup {NoService}]
  BY <1>1, <1>2 DEF SensorTypeOK, Serves
<1>4. overtaken \subseteq overtaken' /\ overtaken' \subseteq Parameter
  BY <1>1, <1>2 DEF SensorTypeOK
<1>5. ASSUME NEW u \in SensorThread \ {t}, at = "DELETE" \/ serving[u].at = "DELETE"
      PROVE  of \cap serving[u].of \subseteq overtaken'
  <2>1. CASE serving[u].at = "NOTHING"
    BY <1>1, <2>1, ServingFields
  <2>2. CASE serving[u].at # "NOTHING"
    <3>1. serving[u].at \in IF at = "DELETE" THEN Work ELSE {"DELETE"}
      BY <1>1, <1>5, <2>2, ServingFields
    <3>2. serving[u].of \subseteq At(t, IF at = "DELETE" THEN Work ELSE {"DELETE"})
      BY <3>1, AtLemma
    <3> QED BY <1>2, <3>2
  <2> QED BY <2>1, <2>2
<1>6. OverlapsAreSeen'
  <2> SUFFICES ASSUME NEW v \in SensorThread, NEW u \in SensorThread, v # u, serving'[v].at = "DELETE"
               PROVE  serving'[v].of \cap serving'[u].of \subseteq overtaken'
    BY DEF OverlapsAreSeen
  <2>1. CASE v # t /\ u # t
    <3>1. serving'[v] = serving[v] /\ serving'[u] = serving[u]
      BY <1>1, <1>2, <2>1 DEF SensorTypeOK
    <3> QED BY <1>1, <1>4, <3>1 DEF OverlapsAreSeen
  <2>2. CASE v = t
    <3>1. serving'[v].at = at /\ serving'[v].of = of /\ serving'[u] = serving[u]
      BY <1>1, <1>2, <2>2 DEF SensorTypeOK
    <3> QED BY <1>5, <2>2, <3>1
  <2>3. CASE u = t
    <3>1. serving'[u].at = at /\ serving'[u].of = of /\ serving'[v] = serving[v]
      BY <1>1, <1>2, <2>3 DEF SensorTypeOK
    <3> QED BY <1>5, <2>3, <3>1
  <2> QED BY <2>1, <2>2, <2>3
<1> QED BY <1>2, <1>3, <1>4, <1>5, <1>6

\* A request that only reads before it goes on.
LEMMA BeginKeeps ==
    ASSUME SensorInv, NEW t \in SensorThread, serving[t] = NoService,
           NEW at \in Work \ {"GRAPH"}, NEW of \in SUBSET Parameter, Serve(t, at, of, {}),
           at = "SHOW" => \A p \in of : Exists(p),
           at = "DELETE" => \A p \in of : readings[p] = 0,
           UNCHANGED <<parameters, graphs, readings, halved, halves>>
    PROVE  SensorInv'
<1>1. /\ SensorTypeOK /\ HistoryHasParameter /\ GraphsFollowParameters /\ ServicesAreSound
  BY DEF SensorInv
<1>2. /\ serving' = [serving EXCEPT ![t] = [at |-> at, of |-> of, next |-> {}]]
      /\ serving' \in [SensorThread -> Serves(Work) \cup {NoService}]
      /\ overtaken \subseteq overtaken' /\ overtaken' \subseteq Parameter
      /\ OverlapsAreSeen'
  BY ServeKeeps
<1>3. SensorTypeOK'
  BY <1>1, <1>2 DEF SensorTypeOK
<1>4. HistoryHasParameter'
  BY <1>1, <1>2 DEF HistoryHasParameter, Exists
<1>5. GraphsFollowParameters'
  <2>1. \A u \in SensorThread : serving[u].at = "GRAPH" => serving'[u] = serving[u]
    BY <1>1, <1>2, ServingFields DEF SensorTypeOK, NoService
  <2> QED BY <1>1, <1>2, <2>1 DEF GraphsFollowParameters, Exists
<1>6. ServicesAreSound'
  <2>1. \A u \in SensorThread \ {t} : serving'[u] = serving[u]
    BY <1>1, <1>2 DEF SensorTypeOK
  <2>2. serving'[t].at = at /\ serving'[t].of = of /\ serving'[t].next = {}
    BY <1>1, <1>2 DEF SensorTypeOK
  <2> QED BY <1>1, <1>2, <2>1, <2>2 DEF ServicesAreSound, Exists
<1> QED BY <1>2, <1>3, <1>4, <1>5, <1>6 DEF SensorInv

\* A thread that has done its work forgets it.
LEMMA ServedEffect ==
    ASSUME SensorInv, NEW t \in SensorThread, Served(t)
    PROVE  /\ serving' \in [SensorThread -> Serves(Work) \cup {NoService}] /\ overtaken' = overtaken
           /\ serving'[t] = NoService /\ \A u \in SensorThread \ {t} : serving'[u] = serving[u]
           /\ OverlapsAreSeen'
<1>1. SensorTypeOK /\ OverlapsAreSeen
  BY DEF SensorInv
<1>2. /\ serving' = [serving EXCEPT ![t] = NoService] /\ overtaken' = overtaken
  BY DEF Served
<1>3. /\ serving' \in [SensorThread -> Serves(Work) \cup {NoService}]
      /\ serving'[t] = NoService /\ \A u \in SensorThread \ {t} : serving'[u] = serving[u]
  BY <1>1, <1>2 DEF SensorTypeOK
<1> QED BY <1>1, <1>2, <1>3 DEF OverlapsAreSeen, NoService

---------------------------------------------------------------------------
(* Parameters and graphs.                                                  *)

LEMMA AddInsertsKeeps ==
    ASSUME SensorInv, NEW t \in SensorThread, NEW p \in Parameter, NEW enabled \in BOOLEAN,
           AddInserts(t, p, enabled)
    PROVE  SensorInv'
<1> DEFINE on == IF enabled THEN "ON" ELSE "OFF"
<1>1. /\ SensorTypeOK /\ HistoryHasParameter /\ GraphsFollowParameters /\ ServicesAreSound
  BY DEF SensorInv
<1>2. /\ serving[t] = NoService /\ ~Exists(p) /\ Serve(t, "GRAPH", {p}, {})
      /\ parameters' = [parameters EXCEPT ![p] = on]
      /\ UNCHANGED <<graphs, readings, halved, halves>>
  BY DEF AddInserts
<1>3. /\ serving' = [serving EXCEPT ![t] = [at |-> "GRAPH", of |-> {p}, next |-> {}]]
      /\ serving' \in [SensorThread -> Serves(Work) \cup {NoService}]
      /\ overtaken \subseteq overtaken' /\ overtaken' \subseteq Parameter
      /\ OverlapsAreSeen'
  BY <1>2, ServeKeeps DEF Work
<1>4. parameters' \in [Parameter -> {"ABSENT", "ON", "OFF"}]
      /\ \A q \in Parameter : Exists(q)' <=> Exists(q) \/ q = p
  BY <1>1, <1>2 DEF SensorTypeOK, Exists
<1>5. SensorTypeOK'
  BY <1>1, <1>2, <1>3, <1>4 DEF SensorTypeOK
<1>6. HistoryHasParameter'
  BY <1>1, <1>2, <1>3, <1>4 DEF HistoryHasParameter
<1>7. serving'[t].at = "GRAPH" /\ serving'[t].of = {p} /\ serving'[t].next = {}
      /\ \A u \in SensorThread \ {t} : serving'[u] = serving[u]
  BY <1>1, <1>3 DEF SensorTypeOK
<1>8. GraphsFollowParameters'
  <2> SUFFICES ASSUME NEW q \in Parameter \ overtaken'
               PROVE  /\ q \in graphs' => Exists(q)'
                      /\ Exists(q)' /\ q \notin halved' => q \in graphs' \/
                           \E u \in SensorThread : serving'[u].at = "GRAPH" /\ q \in serving'[u].of
    BY DEF GraphsFollowParameters
  <2>1. CASE q = p
    BY <1>4, <1>7, <2>1
  <2>2. CASE q # p
    <3>1. serving[t].at # "GRAPH"
      BY <1>2 DEF NoService
    <3> QED BY <1>1, <1>2, <1>3, <1>4, <1>7, <2>2, <3>1 DEF GraphsFollowParameters
  <2> QED BY <2>1, <2>2
<1>9. ServicesAreSound'
  <2> SUFFICES ASSUME NEW u \in SensorThread
               PROVE  /\ serving'[u].next \subseteq serving'[u].of
                      /\ serving'[u].at \in {"GRAPH", "SHOW"} =>
                           \A q \in serving'[u].of \ overtaken' : Exists(q)'
                      /\ serving'[u].at = "SAVE" => \A q \in serving'[u].next \ overtaken' : Exists(q)'
                      /\ serving'[u].at = "DELETE" =>
                           \A q \in serving'[u].of \ overtaken' : readings'[q] = 0
    BY DEF ServicesAreSound
  <2>1. CASE u = t
    BY <1>4, <1>7, <2>1
  <2>2. CASE u # t
    <3>1. serving'[u] = serving[u] /\ serving[u].of \subseteq Parameter /\ serving[u].next \subseteq Parameter
      BY <1>1, <1>7, <2>2, ServingFields
    <3> QED BY <1>1, <1>2, <1>3, <1>4, <3>1 DEF ServicesAreSound
  <2> QED BY <2>1, <2>2
<1> QED BY <1>3, <1>5, <1>6, <1>8, <1>9 DEF SensorInv

\* A graph is created by a thread that creates its parameter or shows it.
LEMMA GraphAdded ==
    ASSUME SensorInv, NEW t \in SensorThread, serving[t].at \in {"GRAPH", "SHOW"},
           graphs' = graphs \cup serving[t].of, UNCHANGED <<parameters, readings, halved, halves>>,
           Served(t) \/ UNCHANGED <<serving, overtaken>>
    PROVE  SensorInv'
<1>1. /\ SensorTypeOK /\ HistoryHasParameter /\ GraphsFollowParameters /\ ServicesAreSound
      /\ OverlapsAreSeen
  BY DEF SensorInv
<1>2. /\ serving' \in [SensorThread -> Serves(Work) \cup {NoService}] /\ overtaken' = overtaken
      /\ serving'[t] \in {NoService, serving[t]} /\ \A u \in SensorThread \ {t} : serving'[u] = serving[u]
      /\ OverlapsAreSeen'
  <2>1. CASE Served(t)
    BY <2>1, ServedEffect
  <2>2. CASE UNCHANGED <<serving, overtaken>>
    BY <1>1, <2>2 DEF SensorTypeOK, OverlapsAreSeen
  <2> QED BY <2>1, <2>2
<1>3. SensorTypeOK' /\ HistoryHasParameter'
  BY <1>1, <1>2, ServingFields DEF SensorTypeOK, HistoryHasParameter, Exists
<1>4. GraphsFollowParameters'
  <2> SUFFICES ASSUME NEW q \in Parameter \ overtaken'
               PROVE  /\ q \in graphs' => Exists(q)'
                      /\ Exists(q)' /\ q \notin halved' => q \in graphs' \/
                           \E u \in SensorThread : serving'[u].at = "GRAPH" /\ q \in serving'[u].of
    BY DEF GraphsFollowParameters
  <2>1. Exists(q)' <=> Exists(q)
    BY DEF Exists
  <2>2. q \in graphs' => Exists(q)'
    BY <1>1, <1>2, <2>1 DEF GraphsFollowParameters, ServicesAreSound
  <2>3. ASSUME Exists(q), q \notin halved, q \notin graphs'
        PROVE  \E u \in SensorThread : serving'[u].at = "GRAPH" /\ q \in serving'[u].of
    <3>1. PICK u \in SensorThread : serving[u].at = "GRAPH" /\ q \in serving[u].of
      BY <1>1, <1>2, <2>3 DEF GraphsFollowParameters
    <3>2. u # t
      BY <2>3, <3>1
    <3> QED BY <1>2, <3>1, <3>2
  <2> QED BY <2>1, <2>2, <2>3
<1>5. ServicesAreSound'
  BY <1>1, <1>2 DEF ServicesAreSound, Exists, NoService
<1> QED BY <1>2, <1>3, <1>4, <1>5 DEF SensorInv

LEMMA EnableKeeps ==
    ASSUME SensorInv, NEW p \in Parameter, NEW enabled \in BOOLEAN, SetParameterEnabled(p, enabled)
    PROVE  SensorInv'
<1>1. /\ SensorTypeOK /\ HistoryHasParameter /\ GraphsFollowParameters /\ ServicesAreSound
      /\ OverlapsAreSeen
  BY DEF SensorInv
<1>2. /\ Exists(p) /\ parameters' = [parameters EXCEPT ![p] = IF enabled THEN "ON" ELSE "OFF"]
      /\ UNCHANGED <<graphs, readings, serving, overtaken, halved, halves>>
  BY DEF SetParameterEnabled
<1>3. parameters' \in [Parameter -> {"ABSENT", "ON", "OFF"}] /\ \A q \in Parameter : Exists(q)' <=> Exists(q)
  BY <1>1, <1>2 DEF SensorTypeOK, Exists
<1>4. SensorTypeOK' /\ OverlapsAreSeen'
  BY <1>1, <1>2, <1>3 DEF SensorTypeOK, OverlapsAreSeen
<1>5. HistoryHasParameter' /\ GraphsFollowParameters'
  BY <1>1, <1>2, <1>3 DEF HistoryHasParameter, GraphsFollowParameters
<1>6. ServicesAreSound'
  <2>1. \A t \in SensorThread : serving[t].of \subseteq Parameter /\ serving[t].next \subseteq Parameter
    BY <1>1, ServingFields
  <2> QED BY <1>1, <1>2, <1>3, <2>1 DEF ServicesAreSound
<1> QED BY <1>4, <1>5, <1>6 DEF SensorInv

LEMMA DeleteKeeps ==
    ASSUME SensorInv, NEW t \in SensorThread, DeleteRemoves(t)
    PROVE  SensorInv'
<1> DEFINE of == serving[t].of
<1>1. /\ SensorTypeOK /\ HistoryHasParameter /\ GraphsFollowParameters /\ ServicesAreSound
      /\ OverlapsAreSeen
  BY DEF SensorInv
<1>2. /\ serving[t].at = "DELETE" /\ Served(t) /\ of \subseteq Parameter
      /\ graphs' = graphs \ of
      /\ parameters' = [p \in Parameter |-> IF p \in of THEN "ABSENT" ELSE parameters[p]]
      /\ UNCHANGED <<readings, halved, halves>>
  BY <1>1, ServingFields DEF DeleteRemoves
<1>3. /\ serving' \in [SensorThread -> Serves(Work) \cup {NoService}] /\ overtaken' = overtaken
      /\ serving'[t] = NoService /\ \A u \in SensorThread \ {t} : serving'[u] = serving[u]
      /\ OverlapsAreSeen'
  BY <1>2, ServedEffect
<1>4. \A u \in SensorThread \ {t} : of \cap serving[u].of \subseteq overtaken
  BY <1>1, <1>2 DEF OverlapsAreSeen
<1>5. \A p \in of \ overtaken : readings[p] = 0
  BY <1>1, <1>2 DEF ServicesAreSound
<1> HIDE DEF of
<1>6. parameters' \in [Parameter -> {"ABSENT", "ON", "OFF"}]
      /\ \A p \in Parameter : Exists(p)' <=> Exists(p) /\ p \notin of
  BY <1>1, <1>2 DEF SensorTypeOK, Exists
<1>7. SensorTypeOK'
  BY <1>1, <1>2, <1>3, <1>6 DEF SensorTypeOK
<1>8. HistoryHasParameter'
  <2> SUFFICES ASSUME NEW p \in Parameter \ overtaken, readings[p] > 0 PROVE Exists(p)'
    BY <1>2, <1>3 DEF HistoryHasParameter
  <2>1. p \notin of
    BY <1>5
  <2> QED BY <1>1, <1>6, <2>1 DEF HistoryHasParameter
<1>9. GraphsFollowParameters'
  <2> SUFFICES ASSUME NEW p \in Parameter \ overtaken
               PROVE  /\ p \in graphs' => Exists(p)'
                      /\ Exists(p)' /\ p \notin halved => p \in graphs' \/
                           \E u \in SensorThread : serving'[u].at = "GRAPH" /\ p \in serving'[u].of
    BY <1>2, <1>3 DEF GraphsFollowParameters
  <2>1. \A u \in SensorThread : serving[u].at = "GRAPH" => serving'[u] = serving[u]
    BY <1>2, <1>3
  <2> QED BY <1>1, <1>2, <1>6, <2>1 DEF GraphsFollowParameters
<1>10. ServicesAreSound'
  <2> SUFFICES ASSUME NEW u \in SensorThread
               PROVE  /\ serving'[u].next \subseteq serving'[u].of
                      /\ serving'[u].at \in {"GRAPH", "SHOW"} =>
                           \A q \in serving'[u].of \ overtaken' : Exists(q)'
                      /\ serving'[u].at = "SAVE" => \A q \in serving'[u].next \ overtaken' : Exists(q)'
                      /\ serving'[u].at = "DELETE" =>
                           \A q \in serving'[u].of \ overtaken' : readings'[q] = 0
    BY DEF ServicesAreSound
  <2>1. CASE u = t
    BY <1>3, <2>1 DEF NoService
  <2>2. CASE u # t
    <3>1. serving'[u] = serving[u] /\ serving[u].of \subseteq Parameter
          /\ serving[u].next \subseteq serving[u].of
      BY <1>1, <1>3, <2>2, ServingFields DEF ServicesAreSound
    <3>2. \A q \in serving[u].of \ overtaken : q \notin of
      BY <1>4, <2>2
    <3> QED BY <1>1, <1>2, <1>3, <1>6, <3>1, <3>2 DEF ServicesAreSound
  <2> QED BY <2>1, <2>2
<1> QED BY <1>3, <1>7, <1>8, <1>9, <1>10 DEF SensorInv

LEMMA ShowsKeeps ==
    ASSUME SensorInv, NEW t \in SensorThread, GraphShows(t)
    PROVE  SensorInv'
<1>1. serving[t].at = "SHOW" /\ graphs' = graphs \cup serving[t].of /\ Served(t)
      /\ UNCHANGED <<parameters, readings, halved, halves>>
  BY DEF GraphShows
<1> QED BY <1>1, GraphAdded

---------------------------------------------------------------------------
(* Readings.                                                               *)

\* A saving thread goes on to a value whose parameter it has found, or is done.
LEMMA SavingEffect ==
    ASSUME SensorInv, NEW t \in SensorThread, serving[t].at = "SAVE",
           NEW left \in SUBSET serving[t].of, NEW next \in SUBSET left, Saving(t, left, next),
           \A p \in next : Exists(p)
    PROVE  /\ serving' \in [SensorThread -> Serves(Work) \cup {NoService}] /\ overtaken' = overtaken
           /\ serving'[t].at \in {"SAVE", "NOTHING"} /\ serving'[t].of \subseteq serving[t].of
           /\ serving'[t].next \subseteq serving'[t].of /\ \A p \in serving'[t].next : Exists(p)
           /\ \A u \in SensorThread \ {t} : serving'[u] = serving[u]
           /\ OverlapsAreSeen'
<1>1. SensorTypeOK /\ OverlapsAreSeen
  BY DEF SensorInv
<1>2. serving[t] \in Serves(Work) /\ serving[t].of \subseteq Parameter
  BY <1>1, ServingFields DEF SensorTypeOK, NoService
<1>3. CASE Served(t)
  BY <1>3, ServedEffect DEF NoService
<1>4. CASE serving' = [serving EXCEPT ![t].of = left, ![t].next = next] /\ overtaken' = overtaken
  <2>1. serving' = [serving EXCEPT ![t] = [serving[t] EXCEPT !.of = left, !.next = next]]
    BY <1>1, <1>2, <1>4 DEF SensorTypeOK, Serves
  <2>2. LET new == [serving[t] EXCEPT !.of = left, !.next = next] IN
        new \in Serves(Work) /\ new.at = "SAVE" /\ new.of = left /\ new.next = next
    BY <1>2 DEF Serves
  <2>3. /\ serving' \in [SensorThread -> Serves(Work) \cup {NoService}]
        /\ serving'[t].at = "SAVE" /\ serving'[t].of = left /\ serving'[t].next = next
        /\ \A u \in SensorThread \ {t} : serving'[u] = serving[u]
    BY <1>1, <2>1, <2>2 DEF SensorTypeOK
  <2>4. OverlapsAreSeen'
    <3> SUFFICES ASSUME NEW v \in SensorThread, NEW u \in SensorThread, v # u, serving'[v].at = "DELETE"
                 PROVE  serving'[v].of \cap serving'[u].of \subseteq overtaken
      BY <1>4 DEF OverlapsAreSeen
    <3>1. serving'[v] = serving[v] /\ serving'[u].of \subseteq serving[u].of
      BY <2>3
    <3> QED BY <1>1, <3>1 DEF OverlapsAreSeen
  <2> QED BY <1>4, <2>3, <2>4
<1> QED BY <1>3, <1>4 DEF Saving

\* What such a step leaves to prove.
LEMMA SavingKeeps ==
    ASSUME SensorInv, NEW t \in SensorThread, serving[t].at = "SAVE",
           NEW left \in SUBSET serving[t].of, NEW next \in SUBSET left, Saving(t, left, next),
           \A p \in next : Exists(p), UNCHANGED <<parameters, graphs, halved, halves>>,
           readings' \in [Parameter -> 0..MaxReadings],
           \A p \in Parameter : readings'[p] = readings[p] \/ p \in serving[t].next
    PROVE  SensorInv'
<1>1. /\ SensorTypeOK /\ HistoryHasParameter /\ GraphsFollowParameters /\ ServicesAreSound
      /\ OverlapsAreSeen
  BY DEF SensorInv
<1>2. /\ serving' \in [SensorThread -> Serves(Work) \cup {NoService}] /\ overtaken' = overtaken
      /\ serving'[t].at \in {"SAVE", "NOTHING"} /\ serving'[t].of \subseteq serving[t].of
      /\ serving'[t].next \subseteq serving'[t].of /\ \A p \in serving'[t].next : Exists(p)
      /\ \A u \in SensorThread \ {t} : serving'[u] = serving[u]
      /\ OverlapsAreSeen'
  BY SavingEffect
<1>3. SensorTypeOK'
  BY <1>1, <1>2 DEF SensorTypeOK
<1>4. HistoryHasParameter'
  BY <1>1, <1>2 DEF HistoryHasParameter, Exists, ServicesAreSound
<1>5. GraphsFollowParameters'
  <2>1. \A u \in SensorThread : serving[u].at = "GRAPH" => serving'[u] = serving[u]
    BY <1>2
  <2> QED BY <1>1, <1>2, <2>1 DEF GraphsFollowParameters, Exists
<1>6. ServicesAreSound'
  <2> SUFFICES ASSUME NEW u \in SensorThread
               PROVE  /\ serving'[u].next \subseteq serving'[u].of
                      /\ serving'[u].at \in {"GRAPH", "SHOW"} =>
                           \A q \in serving'[u].of \ overtaken : Exists(q)
                      /\ serving'[u].at = "SAVE" => \A q \in serving'[u].next \ overtaken : Exists(q)
                      /\ serving'[u].at = "DELETE" =>
                           \A q \in serving'[u].of \ overtaken : readings'[q] = 0
    BY <1>2 DEF ServicesAreSound, Exists
  <2>1. CASE u = t
    BY <1>2, <2>1
  <2>2. CASE u # t
    <3>1. serving'[u] = serving[u] /\ serving[u].of \subseteq Parameter
      BY <1>1, <1>2, <2>2, ServingFields
    <3>2. serving[u].at = "DELETE" => \A q \in serving[u].of \ overtaken : q \notin serving[t].next
      BY <1>1, <2>2 DEF OverlapsAreSeen, ServicesAreSound
    <3> QED BY <1>1, <3>1, <3>2 DEF ServicesAreSound
  <2> QED BY <2>1, <2>2
<1> QED BY <1>2, <1>3, <1>4, <1>5, <1>6 DEF SensorInv

LEMMA LooksKeeps ==
    ASSUME SensorInv, NEW t \in SensorThread, NEW p \in Parameter, SaveLooks(t, p)
    PROVE  SensorInv'
<1>1. SensorTypeOK
  BY DEF SensorInv
<1>2. /\ serving[t].at = "SAVE" /\ p \in serving[t].of
      /\ UNCHANGED <<parameters, graphs, readings, halved, halves>>
      /\ readings' \in [Parameter -> 0..MaxReadings]
  BY <1>1 DEF SaveLooks, SensorTypeOK
<1>3. CASE Exists(p) /\ Saving(t, serving[t].of, {p})
  BY <1>2, <1>3, SavingKeeps
<1>4. CASE Saving(t, serving[t].of \ {p}, {})
  BY <1>2, <1>4, SavingKeeps
<1> QED BY <1>3, <1>4 DEF SaveLooks

LEMMA StoresKeeps ==
    ASSUME SensorInv, NEW t \in SensorThread, NEW p \in Parameter, SaveStores(t, p)
    PROVE  SensorInv'
<1>1. SensorTypeOK
  BY DEF SensorInv
<1>2. /\ serving[t].at = "SAVE" /\ serving[t].next = {p} /\ Saving(t, serving[t].of \ {p}, {})
      /\ readings[p] < MaxReadings /\ readings' = [readings EXCEPT ![p] = readings[p] + 1]
      /\ UNCHANGED <<parameters, graphs, halved, halves>>
  BY DEF SaveStores
<1>3. readings[p] + 1 \in 0..MaxReadings
  BY <1>1, <1>2, SensorAssumption DEF SensorTypeOK
<1>4. /\ readings' \in [Parameter -> 0..MaxReadings]
      /\ \A q \in Parameter : readings'[q] = readings[q] \/ q \in serving[t].next
  BY <1>1, <1>2, <1>3 DEF SensorTypeOK
<1> QED BY <1>2, <1>4, SavingKeeps

---------------------------------------------------------------------------
(* Every step.                                                             *)

LEMMA SensorCrashKeeps == SensorInv /\ SensorCrash => SensorInv'
<1> SUFFICES ASSUME SensorInv, SensorCrash PROVE SensorInv'
  OBVIOUS
<1>1. /\ SensorTypeOK /\ HistoryHasParameter /\ GraphsFollowParameters
  BY DEF SensorInv
<1> DEFINE Graphing == {u \in SensorThread : serving[u].at = "GRAPH"}
<1>2. /\ halves < MaxHalves /\ halves' = halves + 1
      /\ serving' = [t \in SensorThread |-> NoService]
      /\ halved' = halved \cup UNION {serving[t].of : t \in Graphing}
      /\ UNCHANGED <<parameters, graphs, readings, overtaken>>
  BY DEF SensorCrash
<1>3. \A t \in SensorThread : serving[t].of \subseteq Parameter
  BY <1>1, ServingFields
<1>4. SensorTypeOK'
  <2>1. halves' \in 0..MaxHalves
    BY <1>1, <1>2, SensorAssumption DEF SensorTypeOK
  <2>2. halved' \subseteq Parameter
    BY <1>1, <1>2, <1>3 DEF SensorTypeOK
  <2> QED BY <1>1, <1>2, <2>1, <2>2 DEF SensorTypeOK
<1>5. HistoryHasParameter'
  BY <1>1, <1>2 DEF HistoryHasParameter, Exists
<1>6. GraphsFollowParameters'
  BY <1>1, <1>2 DEF GraphsFollowParameters, Exists
<1>7. ServicesAreSound' /\ OverlapsAreSeen'
  BY <1>2 DEF ServicesAreSound, OverlapsAreSeen, NoService
<1> QED BY <1>4, <1>5, <1>6, <1>7 DEF SensorInv

LEMMA SensorStepKeeps == SensorInv /\ [SensorNext]_sensorVars => SensorInv'
<1> SUFFICES ASSUME SensorInv, [SensorNext]_sensorVars PROVE SensorInv'
  OBVIOUS
<1>1. ASSUME NEW t \in SensorThread, AddParameterRequest(t) \/ GraphRequest(t) PROVE SensorInv'
  <2>1. CASE \E p \in Parameter, enabled \in BOOLEAN : AddInserts(t, p, enabled)
    BY <2>1, AddInsertsKeeps
  <2>2. CASE AddGraphs(t) \/ GraphCreates(t)
    BY <2>2, GraphAdded DEF AddGraphs, GraphCreates
  <2>3. CASE \E p \in Parameter : GraphReads(t, p)
    <3> PICK p \in Parameter : GraphReads(t, p)
      BY <2>3
    <3> QED BY BeginKeeps DEF GraphReads, Work
  <2> QED BY <1>1, <2>1, <2>2, <2>3, ShowsKeeps DEF AddParameterRequest, GraphRequest
<1>2. ASSUME NEW t \in SensorThread, DeleteParameterRequest(t) PROVE SensorInv'
  <2>1. CASE DeleteRemoves(t)
    BY <2>1, DeleteKeeps
  <2>2. CASE \E p \in Parameter : DeleteChecks(t, p)
    <3> PICK p \in Parameter : DeleteChecks(t, p)
      BY <2>2
    <3> QED BY BeginKeeps DEF DeleteChecks, Work
  <2> QED BY <1>2, <2>1, <2>2 DEF DeleteParameterRequest
<1>3. ASSUME NEW t \in SensorThread, TelemetryRequest(t) \/ SocketTelemetry(t) PROVE SensorInv'
  <2> PICK batch \in SUBSET Parameter : SaveReads(t, batch)
    BY <1>3 DEF TelemetryRequest, SocketTelemetry
  <2> QED BY BeginKeeps DEF SaveReads, Work
<1>4. ASSUME NEW t \in SensorThread, NEW p \in Parameter, SaveLooks(t, p) \/ SaveStores(t, p)
      PROVE  SensorInv'
  BY <1>4, LooksKeeps, StoresKeeps
<1>5. CASE EnableParameterRequest
  BY <1>5, EnableKeeps DEF EnableParameterRequest
<1>6. CASE UNCHANGED sensorVars
  BY <1>6 DEF sensorVars, SensorInv, SensorTypeOK, HistoryHasParameter, GraphsFollowParameters,
              ServicesAreSound, OverlapsAreSeen, Exists
<1> QED BY <1>1, <1>2, <1>3, <1>4, <1>5, <1>6, SensorCrashKeeps DEF SensorNext

\* The inductive invariant: parameters, graphs, readings and requests agree.
THEOREM SensorInvariance == SensorSpec => []SensorInv
BY SensorInitKeeps, SensorStepKeeps, PTL DEF SensorSpec

\* Stored readings keep their parameter, unless telemetry was saved while the
\* parameter was deleted (protect_sensor_changes, save_value).
THEOREM HistoryKept == SensorSpec => []HistoryHasParameter
<1>1. SensorInv => HistoryHasParameter
  BY DEF SensorInv
<1> QED BY <1>1, SensorInvariance, PTL

\* Graphs belong to parameters and parameters have graphs, except where a deletion
\* overlapped or the process ended between the two (add_parameter, delete_parameter).
THEOREM GraphsFollow == SensorSpec => []GraphsFollowParameters
<1>1. SensorInv => GraphsFollowParameters
  BY DEF SensorInv
<1> QED BY <1>1, SensorInvariance, PTL

---------------------------------------------------------------------------
(* BackupRestore: a restoration and the archives.                          *)

LEMMA ContentsAreThere == \A c \in Contents : c # Gone
<1> SUFFICES ASSUME NEW c \in Contents, c = Gone PROVE FALSE
  OBVIOUS
<1>1. PICK f \in File : TRUE
  BY BackupAssumption
<1> QED BY <1>1 DEF Contents, States, Gone, None

LEMMA BackupInitKeeps == BackupInit => RestoreInv
<1> SUFFICES ASSUME BackupInit PROVE RestoreInv
  OBVIOUS
<1> USE DEF BackupInit
<1>1. BackupTypeOK
  <2>1. data \in Contents /\ before \in Contents /\ side \in [Database -> States \cup {None}]
    BY DEF Contents, States
  <2>2. archives \in [ArchiveId -> Contents \cup {Gone}]
    BY DEF Contents, States
  <2>3. marker \in {{}} \cup {{a} : a \in ArchiveId} /\ {running, clashed, undone} \subseteq BOOLEAN
    OBVIOUS
  <2>4. restore \in Restoration
    BY BackupAssumption DEF NoRestore, Restoration, Partial, Gone, ArchiveId
  <2>5. backup \in [at : {None, "READING"}, left : SUBSET File, taken : Partial]
    BY DEF NoBackup, Partial, Gone
  <2> QED BY <2>1, <2>2, <2>3, <2>4, <2>5 DEF BackupTypeOK
<1>2. WholeIsSound /\ MarkerBlocksMixture /\ InterruptedCanResume
  <2>1. \A a \in There(archives) : a = 0
    BY DEF There
  <2>2. \A a \in There(archives) : OneState(archives[a])
    BY <2>1 DEF There, OneState
  <2> QED BY <2>2 DEF WholeIsSound, MarkerBlocksMixture, InterruptedCanResume, OneState
<1>3. BackupIsSound /\ RestorationIsSound /\ ReplacementIsSound
  BY DEF BackupIsSound, RestorationIsSound, ReplacementIsSound, NoBackup, NoRestore, None, Touched,
       TouchedSides, Gone
<1> QED BY <1>1, <1>2, <1>3 DEF RestoreInv

LEMMA WholeSuffices ==
    ASSUME BackupTypeOK', InterruptedCanResume', WholeIsSound', BackupIsSound', RestorationIsSound',
           ReplacementIsSound'
    PROVE  RestoreInv'
BY DEF RestoreInv, MarkerBlocksMixture, WholeIsSound, Calm

---------------------------------------------------------------------------
(* The server.                                                             *)

LEMMA ServerKeeps ==
    ASSUME RestoreInv, ServerStarts \/ ServerStops \/ ServerDies
    PROVE  RestoreInv'
<1>1. /\ UNCHANGED <<data, archives, marker, restore, backup, before, clashed, undone>>
      /\ running' \in BOOLEAN /\ (running' => marker = {})
      /\ restore.at = None
  BY DEF RestoreInv, RestorationIsSound, ServerStarts, ServerStops, ServerDies
<1>2. \A f \in Database : side'[f] \in {None, data[f]} \/ side' = side
  BY DEF ServerStarts, ServerStops, ServerDies
<1>3. BackupTypeOK'
  BY <1>1, BackupAssumption
  DEF RestoreInv, BackupTypeOK, Contents, States, ServerStarts, ServerStops, ServerDies
<1>4. WholeIsSound'
  BY <1>1, <1>2 DEF RestoreInv, WholeIsSound, Calm
<1>5. BackupIsSound' /\ InterruptedCanResume'
  BY <1>1 DEF RestoreInv, BackupIsSound, InterruptedCanResume
<1>6. RestorationIsSound'
  BY <1>1 DEF RestoreInv, RestorationIsSound, None
<1>7. ReplacementIsSound'
  BY <1>1 DEF RestoreInv, ReplacementIsSound, Touched, TouchedSides, None
<1> QED BY <1>3, <1>4, <1>5, <1>6, <1>7, WholeSuffices

---------------------------------------------------------------------------
(* Backups.                                                                *)

LEMMA BackupBeginsKeeps == RestoreInv /\ BackupBegins => RestoreInv'
<1> SUFFICES ASSUME RestoreInv, BackupBegins PROVE RestoreInv'
  OBVIOUS
<1>1. /\ UNCHANGED <<data, side, archives, marker, running, restore, before, undone>>
      /\ marker = {} /\ backup' = [at |-> "READING", left |-> File, taken |-> Gone]
      /\ clashed' = (clashed \/ restore.at = "SAVED")
  BY DEF BackupBegins
<1>2. BackupTypeOK'
  BY <1>1 DEF RestoreInv, BackupTypeOK, Partial, Gone
<1>3. WholeIsSound' /\ InterruptedCanResume'
  BY <1>1 DEF RestoreInv, WholeIsSound, InterruptedCanResume, Calm
<1>4. BackupIsSound'
  BY <1>1 DEF RestoreInv, BackupTypeOK, Restoration, BackupIsSound, RestorationIsSound
<1>5. RestorationIsSound'
  BY <1>1 DEF RestoreInv, RestorationIsSound, Calm
<1>6. ReplacementIsSound'
  BY <1>1 DEF RestoreInv, ReplacementIsSound, Touched, TouchedSides, Calm
<1> QED BY <1>2, <1>3, <1>4, <1>5, <1>6, WholeSuffices

LEMMA BackupReadsKeeps == ASSUME RestoreInv, NEW f \in File, BackupReads(f) PROVE RestoreInv'
<1>1. /\ UNCHANGED <<data, side, archives, marker, running, restore, before, clashed, undone>>
      /\ backup.at = "READING" /\ backup' = [backup EXCEPT !.left = @ \ {f}, !.taken[f] = data[f]]
  BY DEF BackupReads
<1>2. BackupTypeOK'
  BY <1>1 DEF RestoreInv, BackupTypeOK, Contents, Partial
<1>3. /\ backup'.at = "READING" /\ backup'.left = backup.left \ {f}
      /\ \A g \in File : backup'.taken[g] = IF g = f THEN data[f] ELSE backup.taken[g]
  BY <1>1 DEF RestoreInv, BackupTypeOK, Partial
<1>4. data[f] # None
  BY DEF RestoreInv, BackupTypeOK, Contents, States, None
<1>5. BackupIsSound'
  BY <1>1, <1>3, <1>4 DEF RestoreInv, BackupIsSound
<1>6. WholeIsSound' /\ InterruptedCanResume' /\ RestorationIsSound' /\ ReplacementIsSound'
  BY <1>1 DEF RestoreInv, WholeIsSound, InterruptedCanResume, RestorationIsSound, ReplacementIsSound,
       Touched, TouchedSides, Calm
<1> QED BY <1>2, <1>5, <1>6, WholeSuffices

LEMMA BackupFailsKeeps == RestoreInv /\ BackupFails => RestoreInv'
<1> SUFFICES ASSUME RestoreInv, BackupFails PROVE RestoreInv'
  OBVIOUS
<1>1. /\ UNCHANGED <<data, side, archives, marker, running, restore, before, clashed, undone>>
      /\ backup' = NoBackup
  BY DEF BackupFails
<1>2. BackupTypeOK'
  BY <1>1 DEF RestoreInv, BackupTypeOK, Partial, Gone, NoBackup
<1>3. BackupIsSound'
  BY <1>1 DEF BackupIsSound, NoBackup, None
<1>4. WholeIsSound' /\ InterruptedCanResume' /\ RestorationIsSound' /\ ReplacementIsSound'
  BY <1>1 DEF RestoreInv, WholeIsSound, InterruptedCanResume, RestorationIsSound, ReplacementIsSound,
       Touched, TouchedSides, Calm
<1> QED BY <1>2, <1>3, <1>4, WholeSuffices

\* A new archive takes an absent one's place and is kept, as is the protected one;
\* what the others hold does not change.
LEMMA ArchivedEffect ==
    ASSUME BackupTypeOK, NEW content \in Contents, NEW protected, Archived(content, protected)
    PROVE  /\ archives' \in [ArchiveId -> Contents \cup {Gone}]
           /\ \A a \in ArchiveId : archives'[a] \in {archives[a], content, Gone}
           /\ \E a \in ArchiveId :
                /\ archives[a] = Gone /\ archives'[a] = content
                /\ \A b \in ArchiveId \ {a} : archives'[b] \in {archives[b], Gone}
           /\ \A a \in ArchiveId \cap protected : archives[a] # Gone => archives'[a] # Gone
<1>1. PICK id \in ArchiveId :
        /\ \A a \in There(archives) : a < id
        /\ archives' = Retained([archives EXCEPT ![id] = content], protected)
  BY DEF Archived
<1> DEFINE kept == [archives EXCEPT ![id] = content]
<1>2. kept \in [ArchiveId -> Contents \cup {Gone}] /\ content # Gone
  BY ContentsAreThere DEF BackupTypeOK
<1>3. \A a \in ArchiveId : kept[a] = IF a = id THEN content ELSE archives[a]
  BY DEF BackupTypeOK
<1>4. {b \in There(kept) : b >= id} = {id}
  <2>1. id \in There(kept) /\ id >= id
    BY <1>2, <1>3 DEF There, ArchiveId
  <2>2. ASSUME NEW b \in There(kept), b >= id PROVE b = id
    <3>1. b # id => b \in There(archives)
      BY <1>3 DEF There
    <3>2. b \in ArchiveId
      BY DEF There
    <3> QED BY <1>1, <2>2, <3>1, <3>2, BackupAssumption DEF ArchiveId
  <2> QED BY <2>1, <2>2
<1>5. Cardinality({b \in There(kept) : b >= id}) <= Keep
  <2> HIDE DEF kept
  <2>1. Cardinality({id}) = 1
    BY FS_Singleton
  <2>2. Cardinality({b \in There(kept) : b >= id}) = 1
    BY <1>4, <2>1, Zenon
  <2> QED BY <2>2, BackupAssumption
<1>6. \A a \in ArchiveId : archives'[a] \in {kept[a], Gone}
  BY <1>1 DEF Retained
<1>7. archives'[id] = content
  BY <1>1, <1>3, <1>5 DEF Retained
<1>8. \A a \in ArchiveId \cap protected : archives'[a] = kept[a]
  BY <1>1 DEF Retained
<1>9. archives' \in [ArchiveId -> Contents \cup {Gone}]
  BY <1>1, <1>2 DEF Retained
<1>10. archives[id] = Gone
  <2>1. ~(id < id)
    BY BackupAssumption DEF ArchiveId
  <2> QED BY <1>1, <2>1 DEF There
<1> HIDE DEF kept
<1>11. \A a \in ArchiveId \ {id} : archives'[a] \in {archives[a], Gone}
  BY <1>3, <1>6
<1> QED BY <1>2, <1>3, <1>6, <1>7, <1>8, <1>9, <1>10, <1>11

LEMMA BackupEndsKeeps == RestoreInv /\ BackupEnds => RestoreInv'
<1> SUFFICES ASSUME RestoreInv, BackupEnds PROVE RestoreInv'
  OBVIOUS
<1>1. /\ UNCHANGED <<data, side, marker, running, restore, before, undone>>
      /\ backup.at = "READING" /\ backup.left = {} /\ backup' = NoBackup
      /\ clashed' = (clashed \/ (restore.at # None /\ archives'[restore.archive] = Gone))
      /\ Archived(backup.taken, {})
  BY DEF BackupEnds
<1>2. backup.taken \in Contents
  <2>1. \A f \in File : backup.taken[f] \in States
    BY <1>1 DEF RestoreInv, BackupTypeOK, BackupIsSound, Partial
  <2> QED BY <2>1 DEF RestoreInv, BackupTypeOK, Partial, Contents
<1>3. /\ archives' \in [ArchiveId -> Contents \cup {Gone}]
      /\ \A a \in ArchiveId : archives'[a] \in {archives[a], backup.taken, Gone}
      /\ \A a \in There(archives) : archives'[a] \in {archives[a], Gone}
  BY <1>1, <1>2, ArchivedEffect DEF RestoreInv, There
<1>4. ~clashed' => ~clashed
  BY <1>1
<1>5. ~clashed' => marker = {} /\ restore.at \in {None, "SAVING"}
  BY <1>1, <1>4 DEF RestoreInv, BackupIsSound
<1>6. clashed' \in BOOLEAN
  BY <1>1
<1>7. BackupTypeOK'
  BY <1>1, <1>3, <1>6 DEF RestoreInv, BackupTypeOK, Partial, Gone, NoBackup
<1>8. WholeIsSound'
  <2> SUFFICES ASSUME Calm' PROVE WholeIsSound'
    BY DEF WholeIsSound
  <2>1. Calm /\ marker = {}
    BY <1>1, <1>4, <1>5 DEF Calm
  <2>2. OneState(data) /\ \A f \in File : backup.taken[f] = data[f]
    BY <1>1, <2>1 DEF RestoreInv, WholeIsSound, BackupIsSound, Calm
  <2>3. OneState(backup.taken)
    BY <2>2 DEF OneState
  <2>4. \A a \in There(archives') : archives'[a] = backup.taken \/ (a \in There(archives) /\ archives'[a] = archives[a])
    BY <1>3 DEF There
  <2>5. \A a \in There(archives') : OneState(archives'[a])
    <3>1. \A a \in There(archives) : OneState(archives[a])
      BY <2>1 DEF RestoreInv, WholeIsSound
    <3> QED BY <2>3, <2>4, <3>1 DEF OneState
  <2> QED BY <1>1, <2>1, <2>5 DEF RestoreInv, WholeIsSound
<1>9. BackupIsSound'
  BY <1>1 DEF BackupIsSound, NoBackup, None
<1>10. InterruptedCanResume'
  BY <1>1, <1>5 DEF InterruptedCanResume
<1>11. RestorationIsSound'
  <2>1. restore.at # None /\ ~clashed' => archives'[restore.archive] = restore.new
    <3> SUFFICES ASSUME restore.at # None, ~clashed' PROVE archives'[restore.archive] = restore.new
      OBVIOUS
    <3>1. archives'[restore.archive] # Gone /\ ~clashed
      BY <1>1
    <3>2. archives[restore.archive] = restore.new /\ restore.new \in Contents
      BY <3>1 DEF RestoreInv, RestorationIsSound
    <3>3. restore.archive \in There(archives)
      BY <3>2, ContentsAreThere DEF There, RestoreInv, BackupTypeOK, Restoration
    <3> QED BY <1>3, <3>1, <3>2, <3>3
  <2> QED BY <1>1, <1>4, <1>5, <2>1 DEF RestoreInv, RestorationIsSound, Calm, None
<1>12. ReplacementIsSound'
  BY <1>1, <1>4 DEF RestoreInv, ReplacementIsSound, Touched, TouchedSides, Calm
<1> QED BY <1>7, <1>8, <1>9, <1>10, <1>11, <1>12, WholeSuffices

---------------------------------------------------------------------------
(* A restoration until its marker.                                         *)

LEMMA RestoreBeginsKeeps ==
    ASSUME RestoreInv, NEW a \in ArchiveId, RestoreBegins(a)
    PROVE  RestoreInv'
<1> DEFINE at == IF marker = {} THEN "SAVING" ELSE "SAVED"
<1>1. /\ UNCHANGED <<data, side, archives, marker, running, backup, before, clashed, undone>>
      /\ ~running /\ restore.at = None /\ archives[a] # Gone /\ marker \subseteq {a}
      /\ restore' = [at |-> at, archive |-> a, new |-> archives[a], left |-> {}, old |-> Gone,
                     oldSide |-> [f \in Database |-> None], resumes |-> marker # {}]
  BY DEF RestoreBegins, NoRestore
<1>2. archives[a] \in Contents /\ a \in There(archives)
  BY <1>1 DEF RestoreInv, BackupTypeOK, There
<1>3. restore' \in Restoration
  BY <1>1, <1>2 DEF Restoration, Partial, Contents, Gone
<1>4. BackupTypeOK'
  BY <1>1, <1>3 DEF RestoreInv, BackupTypeOK
<1>5. WholeIsSound' /\ InterruptedCanResume'
  BY <1>1 DEF RestoreInv, WholeIsSound, InterruptedCanResume, Calm
<1>6. BackupIsSound'
  BY <1>1 DEF RestoreInv, BackupIsSound
<1>7. RestorationIsSound'
  <2>1. Calm => OneState(archives[a])
    BY <1>2 DEF RestoreInv, WholeIsSound
  <2>2. marker # {} => marker = {a}
    BY <1>1
  <2>3. CASE marker = {}
    BY <1>1, <1>2, <2>1, <2>3 DEF RestorationIsSound, Calm, None
  <2>4. CASE marker # {}
    BY <1>1, <1>2, <2>1, <2>2, <2>4 DEF RestorationIsSound, Calm, None
  <2> QED BY <2>3, <2>4
<1>8. ReplacementIsSound'
  BY <1>1 DEF ReplacementIsSound, Touched, TouchedSides, Gone
<1> QED BY <1>4, <1>5, <1>6, <1>7, <1>8, WholeSuffices

LEMMA RestoreSavesKeeps == RestoreInv /\ RestoreSaves => RestoreInv'
<1> SUFFICES ASSUME RestoreInv, RestoreSaves PROVE RestoreInv'
  OBVIOUS
<1>1. /\ UNCHANGED <<data, side, marker, running, backup, before, clashed, undone>>
      /\ restore.at = "SAVING" /\ backup.at = None
      /\ restore' = [restore EXCEPT !.at = "SAVED"]
      /\ Archived(data, {restore.archive})
  BY DEF RestoreSaves
<1>2. data \in Contents /\ restore.archive \in ArchiveId /\ restore \in Restoration
  BY DEF RestoreInv, BackupTypeOK, Restoration
<1>3. /\ archives' \in [ArchiveId -> Contents \cup {Gone}]
      /\ \A a \in ArchiveId : archives'[a] \in {archives[a], data, Gone}
      /\ \E a \in ArchiveId : archives'[a] = data
      /\ \A a \in There(archives) : archives'[a] \in {archives[a], Gone}
      /\ archives[restore.archive] # Gone => archives'[restore.archive] # Gone
  BY <1>1, <1>2, ArchivedEffect DEF RestoreInv, There
<1>4. restore' \in Restoration
  BY <1>1, <1>2 DEF Restoration
<1>5. BackupTypeOK'
  BY <1>1, <1>3, <1>4 DEF RestoreInv, BackupTypeOK
<1>6. marker = {} /\ ~restore.resumes /\ ~running
  BY <1>1 DEF RestoreInv, RestorationIsSound, None
<1>7. WholeIsSound'
  <2> SUFFICES ASSUME Calm PROVE WholeIsSound'
    BY <1>1 DEF WholeIsSound, Calm
  <2>1. OneState(data) /\ \A a \in There(archives) : OneState(archives[a])
    BY <1>6 DEF RestoreInv, WholeIsSound
  <2>2. \A a \in There(archives') : archives'[a] = data \/ (a \in There(archives) /\ archives'[a] = archives[a])
    BY <1>3 DEF There
  <2>3. \A a \in There(archives') : OneState(archives'[a])
    BY <2>1, <2>2 DEF OneState
  <2> QED BY <1>1, <2>3 DEF RestoreInv, WholeIsSound
<1>8. BackupIsSound' /\ InterruptedCanResume'
  BY <1>1, <1>6 DEF BackupIsSound, InterruptedCanResume, None
<1>9. /\ restore'.at = "SAVED" /\ restore'.archive = restore.archive /\ restore'.new = restore.new
      /\ restore'.old = restore.old /\ restore'.oldSide = restore.oldSide
      /\ restore'.resumes = restore.resumes
  BY <1>1, <1>2 DEF Restoration
<1>10. RestorationIsSound'
  <2>1. ~clashed => archives'[restore.archive] = restore.new
    <3>1. ~clashed => archives[restore.archive] = restore.new /\ restore.new \in Contents
      BY <1>1 DEF RestoreInv, RestorationIsSound, None
    <3>2. ~clashed => restore.archive \in There(archives)
      BY <1>2, <3>1, ContentsAreThere DEF There
    <3> QED BY <1>2, <1>3, <3>1, <3>2 DEF There
  <2> QED BY <1>1, <1>3, <1>6, <1>9, <2>1 DEF RestoreInv, RestorationIsSound, Calm, None
<1>11. ReplacementIsSound'
  BY <1>1, <1>9 DEF RestoreInv, ReplacementIsSound, Touched, TouchedSides
<1> QED BY <1>5, <1>7, <1>8, <1>10, <1>11, WholeSuffices

\* Before its marker, and after its death, a restoration leaves nothing of itself.
LEMMA RestoreGoneKeeps ==
    ASSUME RestoreInv, restore' = NoRestore,
           UNCHANGED <<data, side, archives, marker, running, backup, before, clashed, undone>>
    PROVE  RestoreInv'
<1>1. BackupTypeOK'
  <2>1. NoRestore \in Restoration
    BY BackupAssumption DEF NoRestore, Restoration, Partial, Gone, ArchiveId
  <2> QED BY <2>1 DEF RestoreInv, BackupTypeOK
<1>2. WholeIsSound' /\ InterruptedCanResume'
  BY DEF RestoreInv, WholeIsSound, InterruptedCanResume, Calm
<1>3. BackupIsSound'
  BY DEF RestoreInv, BackupIsSound, NoRestore
<1>4. RestorationIsSound'
  BY DEF RestoreInv, RestorationIsSound, NoRestore, None
<1>5. ReplacementIsSound'
  BY DEF ReplacementIsSound, Touched, TouchedSides, NoRestore, Gone, None
<1> QED BY <1>1, <1>2, <1>3, <1>4, <1>5, WholeSuffices

LEMMA RestoreMarksKeeps == RestoreInv /\ RestoreMarks => RestoreInv'
<1> SUFFICES ASSUME RestoreInv, RestoreMarks PROVE RestoreInv'
  OBVIOUS
<1>1. /\ UNCHANGED <<data, side, archives, running, backup, clashed, undone>>
      /\ restore.at = "SAVED" /\ marker' = {restore.archive}
      /\ restore' = [restore EXCEPT !.at = "REPLACING", !.left = File]
      /\ before' = IF marker = {} THEN data ELSE before
  BY DEF RestoreMarks
<1>2. restore \in Restoration /\ restore.archive \in ArchiveId
  BY DEF RestoreInv, BackupTypeOK, Restoration
<1>3. /\ restore'.at = "REPLACING" /\ restore'.left = File /\ restore'.archive = restore.archive
      /\ restore'.new = restore.new /\ restore'.old = restore.old
      /\ restore'.oldSide = restore.oldSide /\ restore'.resumes = restore.resumes
      /\ restore' \in Restoration
  BY <1>1, <1>2 DEF Restoration
<1>4. BackupTypeOK'
  BY <1>1, <1>2, <1>3 DEF RestoreInv, BackupTypeOK
<1>5. marker = IF restore.resumes THEN {restore.archive} ELSE {}
  BY <1>1 DEF RestoreInv, RestorationIsSound
<1>6. WholeIsSound'
  BY <1>1 DEF RestoreInv, WholeIsSound, Calm
<1>7. BackupIsSound'
  BY <1>1 DEF RestoreInv, BackupIsSound, None
<1>8. InterruptedCanResume'
  <2> SUFFICES ASSUME ~clashed
               PROVE  restore.archive \in There(archives) /\ \E a \in ArchiveId : archives[a] = before'
    BY <1>1 DEF InterruptedCanResume
  <2>1. restore.archive \in There(archives)
    <3>1. archives[restore.archive] = restore.new /\ restore.new \in Contents
      BY <1>1 DEF RestoreInv, RestorationIsSound, None
    <3> QED BY <1>2, <3>1, ContentsAreThere DEF There
  <2>2. restore.resumes => before' = before /\ marker # {}
    BY <1>1, <1>5
  <2>3. ~restore.resumes => before' = data
    BY <1>1, <1>5
  <2>4. \E a \in ArchiveId : archives[a] = before'
    BY <1>1, <2>2, <2>3 DEF RestoreInv, InterruptedCanResume, RestorationIsSound
  <2> QED BY <2>1, <2>4
<1>9. RestorationIsSound'
  BY <1>1, <1>3 DEF RestoreInv, RestorationIsSound, Calm, None
<1>10. ReplacementIsSound'
  <2>1. restore.old = [f \in File |-> None] \/ \A f \in File : restore.old[f] = None
    BY <1>1 DEF RestoreInv, ReplacementIsSound, Touched
  <2>2. \A f \in Database : restore.oldSide[f] = None
    BY <1>1 DEF RestoreInv, ReplacementIsSound, TouchedSides
  <2>3. ~restore.resumes => before' = data /\ marker = {}
    BY <1>1, <1>5
  <2>4. ~restore.resumes /\ Calm => OneState(data) /\ \A f \in Database : side[f] \in {None, data[f]}
    BY <2>3 DEF RestoreInv, WholeIsSound
  <2>5. \A f \in File : restore.old[f] = None
    BY <2>1
  <2>6. Calm' = Calm
    BY <1>1 DEF Calm
  <2> QED BY <1>1, <1>3, <2>2, <2>3, <2>4, <2>5, <2>6 DEF ReplacementIsSound, Touched, OneState
<1> QED BY <1>4, <1>6, <1>7, <1>8, <1>9, <1>10, WholeSuffices

---------------------------------------------------------------------------
(* The replacements, and their undoing.                                    *)

\* Under the marker, what a restoration writes concerns ReplacementIsSound alone.
LEMMA ReplacementKeeps ==
    ASSUME RestoreInv, restore.at \in {"REPLACING", "UNDOING"},
           data' \in Contents, side' \in [Database -> States \cup {None}],
           restore' \in Restoration,
           restore'.at \in {"REPLACING", "UNDOING"}, restore'.archive = restore.archive,
           restore'.new = restore.new, restore'.resumes = restore.resumes,
           UNCHANGED <<archives, marker, running, backup, before, clashed>>,
           undone' \in BOOLEAN, undone => undone',
           ReplacementIsSound'
    PROVE  RestoreInv'
<1>1. marker = {restore.archive} /\ ~running
  BY DEF RestoreInv, RestorationIsSound, None
<1>2. BackupTypeOK'
  BY DEF RestoreInv, BackupTypeOK
<1>3. WholeIsSound' /\ InterruptedCanResume'
  BY <1>1 DEF RestoreInv, WholeIsSound, InterruptedCanResume, Calm
<1>4. BackupIsSound'
  BY <1>1 DEF RestoreInv, BackupIsSound
<1>5. RestorationIsSound'
  BY <1>1 DEF RestoreInv, RestorationIsSound, Calm, None
<1> QED BY <1>2, <1>3, <1>4, <1>5, WholeSuffices

LEMMA MoveSideKeeps == ASSUME RestoreInv, NEW f \in Database, MoveSide(f) PROVE RestoreInv'
<1>1. /\ UNCHANGED <<data, archives, marker, running, backup, before, clashed, undone>>
      /\ restore.at = "REPLACING" /\ f \in restore.left /\ side[f] # None
      /\ restore' = [restore EXCEPT !.oldSide[f] = side[f]]
      /\ side' = [side EXCEPT ![f] = None]
  BY DEF MoveSide
<1>2. restore \in Restoration /\ side \in [Database -> States \cup {None}] /\ data \in Contents
  BY DEF RestoreInv, BackupTypeOK
<1>3. restore' \in Restoration /\ side' \in [Database -> States \cup {None}]
  BY <1>1, <1>2 DEF Restoration
<1>4. /\ restore'.at = "REPLACING" /\ restore'.archive = restore.archive
      /\ restore'.new = restore.new /\ restore'.resumes = restore.resumes
      /\ restore'.left = restore.left /\ restore'.old = restore.old
      /\ \A g \in Database : restore'.oldSide[g] = IF g = f THEN side[f] ELSE restore.oldSide[g]
  BY <1>1, <1>2 DEF Restoration
<1>5. \A g \in Database : side'[g] = IF g = f THEN None ELSE side[g]
  BY <1>1, <1>2
<1>6. ReplacementIsSound'
  BY <1>1, <1>4, <1>5 DEF RestoreInv, ReplacementIsSound, Touched, Calm
<1>7. undone' \in BOOLEAN
  BY <1>1 DEF RestoreInv, BackupTypeOK
<1> QED BY <1>1, <1>2, <1>3, <1>4, <1>6, <1>7, ReplacementKeeps

LEMMA ReplaceFileKeeps == ASSUME RestoreInv, NEW f \in File, ReplaceFile(f) PROVE RestoreInv'
<1>1. /\ UNCHANGED <<side, archives, marker, running, backup, before, clashed, undone>>
      /\ restore.at = "REPLACING" /\ f \in restore.left
      /\ f \in Database => side[f] = None
      /\ data' = [data EXCEPT ![f] = restore.new[f]]
      /\ restore' = [restore EXCEPT !.left = @ \ {f}, !.old[f] = data[f]]
  BY DEF ReplaceFile
<1>2. /\ restore \in Restoration /\ side \in [Database -> States \cup {None}] /\ data \in Contents
      /\ restore.new \in Contents
  BY <1>1 DEF RestoreInv, BackupTypeOK, RestorationIsSound, None
<1>3. restore' \in Restoration
  BY <1>1, <1>2 DEF Restoration, Partial, Contents
<1>4. data' \in Contents
  BY <1>1, <1>2 DEF Contents
<1>5. /\ restore'.at = "REPLACING" /\ restore'.archive = restore.archive
      /\ restore'.new = restore.new /\ restore'.resumes = restore.resumes
      /\ restore'.left = restore.left \ {f} /\ restore'.oldSide = restore.oldSide
      /\ \A g \in File : restore'.old[g] = IF g = f THEN data[f] ELSE restore.old[g]
  BY <1>1, <1>2 DEF Restoration, Partial
<1>6. \A g \in File : data'[g] = IF g = f THEN restore.new[f] ELSE data[g]
  BY <1>1, <1>2 DEF Contents
<1>7. restore.left \subseteq File
  BY <1>2 DEF Restoration
<1>8. restore.old[f] = None /\ data[f] # None
  BY <1>1, <1>2 DEF RestoreInv, ReplacementIsSound, Contents, States, None
<1>9. ReplacementIsSound'
  <2>1. \A g \in restore'.left : restore'.old[g] = None
    BY <1>1, <1>5, <1>7 DEF RestoreInv, ReplacementIsSound
  <2>2. \A g \in File \ restore'.left :
          data'[g] = restore'.new[g] /\ (g \in Database => side'[g] = None)
    BY <1>1, <1>5, <1>6 DEF RestoreInv, ReplacementIsSound
  <2>3. ASSUME ~restore'.resumes, Calm'
        PROVE  /\ OneState(before')
               /\ \A g \in File : IF restore'.old[g] # None THEN restore'.old[g] = before'[g]
                                  ELSE data'[g] = before'[g]
               /\ \A g \in Database : {side'[g], restore'.oldSide[g]} \subseteq {None, before'[g]}
    <3>1. ~restore.resumes /\ Calm
      BY <1>1, <1>5, <2>3 DEF Calm
    <3>2. /\ OneState(before)
          /\ \A g \in File : IF restore.old[g] # None THEN restore.old[g] = before[g]
                             ELSE data[g] = before[g]
          /\ \A g \in Database : {side[g], restore.oldSide[g]} \subseteq {None, before[g]}
      BY <1>1, <3>1 DEF RestoreInv, ReplacementIsSound, Touched
    <3>3. data[f] = before[f]
      BY <1>8, <3>2
    <3>4. \A g \in File : IF restore'.old[g] # None THEN restore'.old[g] = before[g]
                          ELSE data'[g] = before[g]
      BY <1>5, <1>6, <1>8, <3>2, <3>3
    <3> QED BY <1>1, <1>5, <3>2, <3>4
  <2> QED BY <1>5, <2>1, <2>2, <2>3 DEF ReplacementIsSound, Touched
<1>10. undone' \in BOOLEAN
  BY <1>1 DEF RestoreInv, BackupTypeOK
<1> QED BY <1>1, <1>2, <1>3, <1>4, <1>5, <1>9, <1>10, ReplacementKeeps

LEMMA RestoreFailsKeeps == RestoreInv /\ RestoreFails => RestoreInv'
<1> SUFFICES ASSUME RestoreInv, RestoreFails PROVE RestoreInv'
  OBVIOUS
<1>1. /\ UNCHANGED <<data, side, archives, marker, running, backup, before, clashed>>
      /\ restore.at = "REPLACING" /\ restore' = [restore EXCEPT !.at = "UNDOING"]
      /\ undone' = (undone \/ restore.resumes)
  BY DEF RestoreFails
<1>2. restore \in Restoration /\ side \in [Database -> States \cup {None}] /\ data \in Contents
  BY DEF RestoreInv, BackupTypeOK
<1>3. restore' \in Restoration
  BY <1>1, <1>2 DEF Restoration
<1>4. /\ restore'.at = "UNDOING" /\ restore'.archive = restore.archive
      /\ restore'.new = restore.new /\ restore'.resumes = restore.resumes
      /\ restore'.left = restore.left /\ restore'.old = restore.old
      /\ restore'.oldSide = restore.oldSide
  BY <1>1, <1>2 DEF Restoration
<1>5. undone' \in BOOLEAN /\ (undone => undone') /\ (restore.resumes => undone')
  BY <1>1
<1>6. ReplacementIsSound'
  BY <1>1, <1>4, <1>5 DEF RestoreInv, ReplacementIsSound, Touched, TouchedSides, Calm
<1> QED BY <1>1, <1>2, <1>3, <1>4, <1>5, <1>6, ReplacementKeeps

LEMMA UndoFileKeeps == ASSUME RestoreInv, NEW f \in File, UndoFile(f) PROVE RestoreInv'
<1>1. /\ UNCHANGED <<side, archives, marker, running, backup, before, clashed, undone>>
      /\ restore.at = "UNDOING" /\ restore.old[f] # None
      /\ data' = [data EXCEPT ![f] = restore.old[f]]
      /\ restore' = [restore EXCEPT !.old[f] = None]
  BY DEF UndoFile, Touched
<1>2. restore \in Restoration /\ side \in [Database -> States \cup {None}] /\ data \in Contents
  BY DEF RestoreInv, BackupTypeOK
<1>3. restore' \in Restoration
  BY <1>1, <1>2 DEF Restoration, Partial
<1>4. data' \in Contents
  BY <1>1, <1>2 DEF Restoration, Partial, Contents
<1>5. /\ restore'.at = "UNDOING" /\ restore'.archive = restore.archive
      /\ restore'.new = restore.new /\ restore'.resumes = restore.resumes
      /\ restore'.oldSide = restore.oldSide
      /\ \A g \in File : restore'.old[g] = IF g = f THEN None ELSE restore.old[g]
  BY <1>1, <1>2 DEF Restoration, Partial
<1>6. \A g \in File : data'[g] = IF g = f THEN restore.old[f] ELSE data[g]
  BY <1>1, <1>2 DEF Contents
<1>7. ReplacementIsSound'
  BY <1>1, <1>5, <1>6 DEF RestoreInv, ReplacementIsSound, Touched, Calm
<1>8. undone' \in BOOLEAN
  BY <1>1 DEF RestoreInv, BackupTypeOK
<1> QED BY <1>1, <1>2, <1>3, <1>4, <1>5, <1>7, <1>8, ReplacementKeeps

LEMMA UndoSideKeeps == ASSUME RestoreInv, NEW f \in Database, UndoSide(f) PROVE RestoreInv'
<1>1. /\ UNCHANGED <<data, archives, marker, running, backup, before, clashed, undone>>
      /\ restore.at = "UNDOING"
      /\ side' = [side EXCEPT ![f] = restore.oldSide[f]]
      /\ restore' = [restore EXCEPT !.oldSide[f] = None]
  BY DEF UndoSide
<1>2. restore \in Restoration /\ side \in [Database -> States \cup {None}] /\ data \in Contents
  BY DEF RestoreInv, BackupTypeOK
<1>3. restore' \in Restoration /\ side' \in [Database -> States \cup {None}]
  BY <1>1, <1>2 DEF Restoration
<1>4. /\ restore'.at = "UNDOING" /\ restore'.archive = restore.archive
      /\ restore'.new = restore.new /\ restore'.resumes = restore.resumes
      /\ restore'.old = restore.old
      /\ \A g \in Database : restore'.oldSide[g] = IF g = f THEN None ELSE restore.oldSide[g]
  BY <1>1, <1>2 DEF Restoration
<1>5. \A g \in Database : side'[g] = IF g = f THEN restore.oldSide[f] ELSE side[g]
  BY <1>1, <1>2
<1>6. ReplacementIsSound'
  BY <1>1, <1>4, <1>5 DEF RestoreInv, ReplacementIsSound, Touched, Calm
<1>7. undone' \in BOOLEAN
  BY <1>1 DEF RestoreInv, BackupTypeOK
<1> QED BY <1>1, <1>2, <1>3, <1>4, <1>6, <1>7, ReplacementKeeps

\* Where a restoration takes its marker back the data are whole.
LEMMA MarkerGoneKeeps ==
    ASSUME RestoreInv, restore.at \in {"REPLACING", "UNDOING"}, restore' = NoRestore, marker' = {},
           UNCHANGED <<data, side, archives, running, backup, before, clashed, undone>>,
           Calm => OneState(data) /\ \A f \in Database : side[f] \in {None, data[f]}
    PROVE  RestoreInv'
<1>1. BackupTypeOK'
  <2>1. NoRestore \in Restoration
    BY BackupAssumption DEF NoRestore, Restoration, Partial, Gone, ArchiveId
  <2> QED BY <2>1 DEF RestoreInv, BackupTypeOK
<1>2. WholeIsSound' /\ InterruptedCanResume'
  BY DEF RestoreInv, WholeIsSound, InterruptedCanResume, Calm
<1>3. BackupIsSound'
  BY DEF RestoreInv, BackupIsSound, NoRestore
<1>4. RestorationIsSound'
  BY DEF RestoreInv, RestorationIsSound, NoRestore, None
<1>5. ReplacementIsSound'
  BY DEF ReplacementIsSound, Touched, TouchedSides, NoRestore, Gone, None
<1> QED BY <1>1, <1>2, <1>3, <1>4, <1>5, WholeSuffices

LEMMA RestoreEndsKeeps == RestoreInv /\ RestoreEnds => RestoreInv'
<1> SUFFICES ASSUME RestoreInv, RestoreEnds PROVE RestoreInv'
  OBVIOUS
<1>1. \A f \in File : data[f] = restore.new[f] /\ (f \in Database => side[f] = None)
  BY DEF RestoreInv, ReplacementIsSound, RestoreEnds
<1>2. Calm => OneState(restore.new)
  BY DEF RestoreInv, RestorationIsSound, RestoreEnds, None
<1>3. Calm => OneState(data) /\ \A f \in Database : side[f] \in {None, data[f]}
  BY <1>1, <1>2, BackupAssumption DEF OneState
<1> QED BY <1>3, MarkerGoneKeeps DEF RestoreEnds

LEMMA UndoEndsKeeps == RestoreInv /\ UndoEnds => RestoreInv'
<1> SUFFICES ASSUME RestoreInv, UndoEnds PROVE RestoreInv'
  OBVIOUS
<1>1. Calm => ~restore.resumes
  BY DEF RestoreInv, ReplacementIsSound, UndoEnds, Calm
<1>2. Calm => /\ OneState(before)
              /\ \A f \in File : data[f] = before[f]
              /\ \A f \in Database : side[f] \in {None, before[f]}
  BY <1>1 DEF RestoreInv, ReplacementIsSound, UndoEnds
<1>3. Calm => OneState(data) /\ \A f \in Database : side[f] \in {None, data[f]}
  BY <1>2, BackupAssumption DEF OneState
<1> QED BY <1>3, MarkerGoneKeeps DEF UndoEnds

LEMMA BackupStepKeeps == RestoreInv /\ [BackupNext]_backupVars => RestoreInv'
<1> SUFFICES ASSUME RestoreInv, [BackupNext]_backupVars PROVE RestoreInv'
  OBVIOUS
<1>1. CASE ServerStarts \/ ServerStops \/ ServerDies
  BY <1>1, ServerKeeps
<1>2. CASE BackupBegins \/ BackupEnds \/ BackupFails
  BY <1>2, BackupBeginsKeeps, BackupEndsKeeps, BackupFailsKeeps
<1>3. CASE \E f \in File : BackupReads(f) \/ ReplaceFile(f) \/ UndoFile(f)
  BY <1>3, BackupReadsKeeps, ReplaceFileKeeps, UndoFileKeeps
<1>4. CASE \E f \in Database : MoveSide(f) \/ UndoSide(f)
  BY <1>4, MoveSideKeeps, UndoSideKeeps
<1>5. CASE \E a \in ArchiveId : RestoreBegins(a)
  BY <1>5, RestoreBeginsKeeps
<1>6. CASE RestoreSaves \/ RestoreMarks \/ RestoreEnds
  BY <1>6, RestoreSavesKeeps, RestoreMarksKeeps, RestoreEndsKeeps
<1>7. CASE RestoreRefused \/ RestoreDies
  BY <1>7, RestoreGoneKeeps DEF RestoreRefused, RestoreDies
<1>8. CASE RestoreFails \/ UndoEnds
  BY <1>8, RestoreFailsKeeps, UndoEndsKeeps
<1>9. CASE UNCHANGED backupVars
  BY <1>9 DEF backupVars, RestoreInv, BackupTypeOK, MarkerBlocksMixture, InterruptedCanResume, WholeIsSound,
     BackupIsSound, RestorationIsSound, ReplacementIsSound, Calm, Touched, TouchedSides
<1> QED BY <1>1, <1>2, <1>3, <1>4, <1>5, <1>6, <1>7, <1>8, <1>9 DEF BackupNext

\* The inductive invariant of backups, restorations and the server, for every set
\* of files and databases, number of archives and `keep` of at least 2.
THEOREM RestoreInvariance == BackupSpec => []RestoreInv
<1>1. BackupInit => RestoreInv
  BY BackupInitKeeps
<1>2. RestoreInv /\ [BackupNext]_backupVars => RestoreInv'
  BY BackupStepKeeps
<1> QED BY <1>1, <1>2, PTL DEF BackupSpec

\* restore.pending.json stands for a mixture of two states (restore, preflight):
\* without it, and apart from what the code is known not to survive (an undone
\* resumption, an overlapping backup), the files and their journals are of one.
THEOREM MarkerBlocks == BackupSpec => []MarkerBlocksMixture
<1>1. RestoreInv => MarkerBlocksMixture
  BY DEF RestoreInv
<1> QED BY <1>1, RestoreInvariance, PTL

\* While the marker demands an archive (INTERRUPTED_RESTORE_REQUIRES_SAME_ARCHIVE)
\* retention has kept it, and the one of the data as they were.
THEOREM InterruptedResumes == BackupSpec => []InterruptedCanResume
<1>1. RestoreInv => InterruptedCanResume
  BY DEF RestoreInv
<1> QED BY <1>1, RestoreInvariance, PTL

---------------------------------------------------------------------------
(* The refinement of RestorePromise.                                       *)

LEMMA RestorePromiseInit == BackupInit => Promise!Init
<1> SUFFICES ASSUME BackupInit PROVE Promise!Init
  OBVIOUS
<1>1. RestoreInv /\ marker = {}
  BY BackupInitKeeps DEF BackupInit
<1>2. Calm
  BY DEF BackupInit, Calm
<1>3. data \in {c \in Contents : OneState(c)}
  BY <1>1, <1>2 DEF RestoreInv, WholeIsSound, BackupTypeOK
<1>4. archives \in [ArchiveId -> {c \in Contents : OneState(c)} \cup {Gone}]
  <2>1. \A a \in ArchiveId : archives[a] \in {c \in Contents : OneState(c)} \cup {Gone}
    BY <1>1, <1>2 DEF RestoreInv, WholeIsSound, BackupTypeOK, There
  <2> QED BY <1>1, <2>1 DEF RestoreInv, BackupTypeOK
<1> QED BY <1>1, <1>3, <1>4 DEF Promise!Init, BackupInit

\* What the code does not survive is not undone.
LEMMA CalmWas == ASSUME RestoreInv, [BackupNext]_backupVars, Calm' PROVE Calm
<1>1. CASE ServerStarts \/ ServerStops \/ ServerDies
  BY <1>1 DEF ServerStarts, ServerStops, ServerDies, Calm
<1>2. CASE BackupBegins \/ BackupEnds \/ BackupFails
  <2>1. undone' = undone /\ \E ran \in BOOLEAN : clashed' = (clashed \/ ran)
    <3>1. CASE BackupBegins
      BY <3>1, Zenon DEF BackupBegins
    <3>2. CASE BackupEnds
      BY <3>2, Zenon DEF BackupEnds
    <3>3. CASE BackupFails
      <4>1. clashed' = (clashed \/ FALSE)
        BY <3>3 DEF BackupFails, RestoreInv, BackupTypeOK
      <4> QED BY <3>3, <4>1 DEF BackupFails
    <3> QED BY <1>2, <3>1, <3>2, <3>3
  <2> QED BY <2>1, Zenon DEF Calm
<1>3. CASE \E f \in File : BackupReads(f) \/ ReplaceFile(f) \/ UndoFile(f)
  BY <1>3 DEF BackupReads, ReplaceFile, UndoFile, Calm
<1>4. CASE \E f \in Database : MoveSide(f) \/ UndoSide(f)
  BY <1>4 DEF MoveSide, UndoSide, Calm
<1>5. CASE \E a \in ArchiveId : RestoreBegins(a)
  BY <1>5 DEF RestoreBegins, Calm
<1>6. CASE RestoreSaves \/ RestoreRefused \/ RestoreMarks \/ RestoreEnds
  BY <1>6 DEF RestoreSaves, RestoreRefused, RestoreMarks, RestoreEnds, Calm
<1>7. CASE RestoreFails \/ UndoEnds \/ RestoreDies
  <2>1. CASE RestoreFails
    <3>1. clashed' = clashed /\ undone' = (undone \/ restore.resumes)
      BY <2>1, Zenon DEF RestoreFails
    <3> QED BY <3>1, Zenon DEF Calm
  <2>2. CASE UndoEnds \/ RestoreDies
    BY <2>2 DEF UndoEnds, RestoreDies, Calm
  <2> QED BY <1>7, <2>1, <2>2
<1>8. CASE UNCHANGED backupVars
  BY <1>8 DEF backupVars, Calm
<1> QED BY <1>1, <1>2, <1>3, <1>4, <1>5, <1>6, <1>7, <1>8 DEF BackupNext

\* An archive made of the data, with what retention removes, is the abstract one.
LEMMA ArchivedSaves ==
    ASSUME RestoreInv, Calm, Calm', marker = {}, NEW protected, Archived(data, protected),
           UNCHANGED <<data, marker, running, before>>
    PROVE  Promise!Save
<1>1. data \in Contents /\ BackupTypeOK
  BY DEF RestoreInv, BackupTypeOK
<1>2. \E a \in ArchiveId :
        /\ archives[a] = Gone /\ archives'[a] = data
        /\ \A b \in ArchiveId \ {a} : archives'[b] \in {archives[b], Gone}
  BY <1>1, ArchivedEffect
<1> QED BY <1>2 DEF Promise!Save, Calm

LEMMA MarksDemand ==
    ASSUME RestoreInv, Calm, RestoreMarks
    PROVE  [Promise!Next]_(Promise!vars)
<1>1. /\ UNCHANGED <<data, archives, running, clashed, undone>>
      /\ restore.at = "SAVED" /\ marker' = {restore.archive}
      /\ before' = IF marker = {} THEN data ELSE before
  BY DEF RestoreMarks
<1>2. marker = IF restore.resumes THEN {restore.archive} ELSE {}
  BY <1>1 DEF RestoreInv, RestorationIsSound
<1>3. CASE restore.resumes
  BY <1>1, <1>2, <1>3 DEF Promise!vars
<1>4. CASE ~restore.resumes
  <2>1. restore.archive \in ArchiveId /\ restore.new \in Contents
    BY <1>1 DEF RestoreInv, RestorationIsSound, BackupTypeOK, Restoration, None
  <2>2. archives[restore.archive] = restore.new /\ \E b \in ArchiveId : archives[b] = data
    BY <1>1, <1>4 DEF RestoreInv, RestorationIsSound, Calm, None
  <2>3. archives[restore.archive] # Gone
    BY <2>1, <2>2, ContentsAreThere
  <2>4. ~running
    BY <1>1 DEF RestoreInv, RestorationIsSound, None
  <2>5. Promise!Demand(restore.archive)
    BY <1>1, <1>2, <1>4, <2>2, <2>3, <2>4 DEF Promise!Demand
  <2> QED BY <2>1, <2>5 DEF Promise!Next
<1> QED BY <1>3, <1>4

LEMMA EndsComplete ==
    ASSUME RestoreInv, Calm, RestoreEnds
    PROVE  Promise!Next
<1>1. /\ UNCHANGED <<data, archives, running, before, clashed, undone>>
      /\ restore.at = "REPLACING" /\ restore.left = {} /\ marker' = {}
  BY DEF RestoreEnds
<1>2. restore.archive \in ArchiveId /\ marker = {restore.archive}
  BY <1>1 DEF RestoreInv, RestorationIsSound, BackupTypeOK, Restoration
<1>3. restore.new \in Contents /\ archives[restore.archive] = restore.new
  BY <1>1 DEF RestoreInv, RestorationIsSound, Calm, None
<1>4. data = restore.new
  <2>1. \A f \in File : data[f] = restore.new[f]
    BY <1>1 DEF RestoreInv, ReplacementIsSound
  <2> QED BY <1>3, <2>1 DEF RestoreInv, BackupTypeOK, Contents
<1>5. Promise!Complete(restore.archive)
  BY <1>1, <1>2, <1>3, <1>4 DEF Promise!Complete
<1> QED BY <1>2, <1>5 DEF Promise!Next

LEMMA UndoGivesUp ==
    ASSUME RestoreInv, Calm, UndoEnds
    PROVE  Promise!Next
<1>1. /\ UNCHANGED <<data, archives, running, before, clashed, undone>>
      /\ restore.at = "UNDOING" /\ Touched = {} /\ marker' = {}
  BY DEF UndoEnds
<1>2. marker # {} /\ ~restore.resumes
  BY <1>1 DEF RestoreInv, RestorationIsSound, ReplacementIsSound, Calm
<1>3. data = before
  <2>1. \A f \in File : data[f] = before[f]
    BY <1>1, <1>2 DEF RestoreInv, ReplacementIsSound
  <2> QED BY <2>1 DEF RestoreInv, BackupTypeOK, Contents
<1>4. Promise!GiveUp
  BY <1>1, <1>2, <1>3 DEF Promise!GiveUp
<1> QED BY <1>4 DEF Promise!Next

LEMMA RestorePromiseStep ==
    ASSUME RestoreInv, RestoreInv', [BackupNext]_backupVars
    PROVE  [Promise!Next]_(Promise!vars)
<1>1. CASE ~Calm'
  <2>1. (clashed \/ undone)' = TRUE
    BY <1>1 DEF RestoreInv, BackupTypeOK, Calm
  <2> QED BY <2>1 DEF Promise!Next
<1> SUFFICES ASSUME Calm' PROVE [Promise!Next]_(Promise!vars)
  BY <1>1
<1>2. Calm
  BY CalmWas
<1>3. (clashed \/ undone)' = (clashed \/ undone)
  BY <1>2 DEF Calm
\* Where nothing of what is promised changes.
<1>4. ASSUME UNCHANGED <<data, archives, marker, running, before>> PROVE UNCHANGED Promise!vars
  BY <1>3, <1>4 DEF Promise!vars
\* Under its marker a restoration stands for the data it found.
<1>5. ASSUME restore.at \in {"REPLACING", "UNDOING"}, UNCHANGED <<archives, marker, running, before>>
      PROVE  UNCHANGED Promise!vars
  <2>1. marker # {}
    BY <1>5 DEF RestoreInv, RestorationIsSound
  <2> QED BY <1>3, <1>5, <2>1 DEF Promise!vars
<1>6. CASE ServerStarts
  <2>1. Promise!Serve
    BY <1>3, <1>6 DEF ServerStarts, Promise!Serve
  <2> QED BY <2>1 DEF Promise!Next
<1>7. CASE ServerStops \/ ServerDies
  <2>1. Promise!Stop
    BY <1>3, <1>7 DEF ServerStops, ServerDies, Promise!Stop
  <2> QED BY <2>1 DEF Promise!Next
<1>8. CASE BackupEnds
  <2>1. marker = {} /\ \A f \in File : backup.taken[f] = data[f]
    BY <1>2, <1>8 DEF BackupEnds, RestoreInv, BackupIsSound, Calm
  <2>2. backup.taken = data
    BY <2>1 DEF RestoreInv, BackupTypeOK, Partial, Contents
  <2>3. Promise!Save
    BY <1>2, <1>8, <2>1, <2>2, ArchivedSaves DEF BackupEnds
  <2> QED BY <2>3 DEF Promise!Next
<1>9. CASE RestoreSaves
  <2>1. marker = {}
    BY <1>9 DEF RestoreSaves, RestoreInv, RestorationIsSound
  <2>2. Promise!Save
    BY <1>2, <1>9, <2>1, ArchivedSaves DEF RestoreSaves
  <2> QED BY <2>2 DEF Promise!Next
<1>10. CASE RestoreMarks \/ RestoreEnds \/ UndoEnds
  BY <1>2, <1>10, MarksDemand, EndsComplete, UndoGivesUp
<1>11. CASE \E f \in File : ReplaceFile(f) \/ UndoFile(f)
  BY <1>5, <1>11 DEF ReplaceFile, UndoFile
<1>12. CASE BackupBegins \/ BackupFails \/ RestoreRefused \/ RestoreFails \/ RestoreDies
  BY <1>4, <1>12 DEF BackupBegins, BackupFails, RestoreRefused, RestoreFails, RestoreDies
<1>13. CASE \/ \E f \in File : BackupReads(f)
            \/ \E f \in Database : MoveSide(f) \/ UndoSide(f)
            \/ \E a \in ArchiveId : RestoreBegins(a)
  BY <1>4, <1>13 DEF BackupReads, MoveSide, UndoSide, RestoreBegins
<1>14. CASE UNCHANGED backupVars
  BY <1>4, <1>14 DEF backupVars
<1> QED BY <1>6, <1>7, <1>8, <1>9, <1>10, <1>11, <1>12, <1>13, <1>14 DEF BackupNext

\* A restoration, which replaces file after file and may fail or end between any two
\* of them (restore), is the single step of RestorePromise to whoever waits for its
\* marker to go (preflight, create), unless the code's two known gaps void it.
THEOREM RestorePromiseKept == BackupSpec => KeepsRestorePromise
<1>1. RestoreInv /\ RestoreInv' /\ [BackupNext]_backupVars => [Promise!Next]_(Promise!vars)
  BY RestorePromiseStep
<1> QED
  BY <1>1, RestorePromiseInit, RestoreInvariance, PTL DEF BackupSpec, KeepsRestorePromise, Promise!Spec

---------------------------------------------------------------------------
(* The runs of MCServices: a service at a time.                            *)

LEMMA ServiceStepKeeps ==
    ServicesInv /\ [ServicesNext]_<<service, meshVars, sensorVars, backupVars>> => ServicesInv'
<1> SUFFICES ASSUME ServicesInv, [ServicesNext]_<<service, meshVars, sensorVars, backupVars>>
             PROVE  ServicesInv'
  OBVIOUS
<1>1. [MeshNext]_meshVars
  BY DEF ServicesNext, MeshNext
<1>2. [SensorNext]_sensorVars /\ [BackupNext]_backupVars
  BY DEF ServicesNext
<1> QED BY <1>1, <1>2, MeshStepKeeps, SensorStepKeeps, BackupStepKeeps DEF ServicesInv

\* What the run of the services checks on small instances (mesh_manager,
\* sensor_manager, backup_manager) holds for every value of the constants.
THEOREM ServicesInvariance == ServicesSpec => []ServicesInv
<1>1. ServicesInit => ServicesInv
  BY MeshInitKeeps, SensorInitKeeps, BackupInitKeeps DEF ServicesInit, ServicesInv
<1> QED BY <1>1, ServiceStepKeeps, PTL DEF ServicesSpec

=============================================================================
