---------------------------- MODULE SensorRecords ----------------------------
(***************************************************************************)
(* The sensors of a node: the parameters, a graph for each of them and the  *)
(* readings that telemetry stores (sensor_manager, telemetry_manager, the   *)
(* checks of sensor_widgets before a change).  Every function opens its own *)
(* connection; a request that calls two of them, or one that reads before   *)
(* it writes, can be overtaken in between.                                  *)
(***************************************************************************)
EXTENDS Integers

CONSTANTS
    Parameter,
    SensorThread,   \* threads that serve a request
    MaxReadings,    \* bound: readings stored of a parameter
    MaxHalves       \* bound: requests the process ends in the middle of

ASSUME SensorAssumption == MaxReadings \in Nat /\ MaxHalves \in Nat

VARIABLES
    parameters,  \* table sensor_parameters: enabled or not
    graphs,      \* table sensor_graphs
    readings,    \* table telemetry_values: how many of each parameter
    serving,     \* what each thread has read and will do next
    overtaken,   \* history: parameters with overlapping requests, one of them a deletion
    halved,      \* history: parameters whose creation ended before the graph
    halves

sensorVars == <<parameters, graphs, readings, serving, overtaken, halved, halves>>

Serves(ats) == [at : ats, of : SUBSET Parameter, next : SUBSET Parameter]
NoService == [at |-> "NOTHING", of |-> {}, next |-> {}]
Work == {"GRAPH", "DELETE", "SHOW", "SAVE"}

SensorTypeOK ==
    /\ parameters \in [Parameter -> {"ABSENT", "ON", "OFF"}]
    /\ graphs \subseteq Parameter
    /\ readings \in [Parameter -> 0..MaxReadings]
    /\ serving \in [SensorThread -> Serves(Work) \cup {NoService}]
    /\ overtaken \subseteq Parameter /\ halved \subseteq Parameter
    /\ halves \in 0..MaxHalves

SensorInit ==
    /\ parameters = [p \in Parameter |-> "ABSENT"]
    /\ graphs = {}
    /\ readings = [p \in Parameter |-> 0]
    /\ serving = [t \in SensorThread |-> NoService]
    /\ overtaken = {} /\ halved = {} /\ halves = 0

Exists(p) == parameters[p] # "ABSENT"

\* Parameters other threads are at work on, deleting them or otherwise.
At(t, works) == UNION {serving[u].of : u \in {v \in SensorThread \ {t} : serving[v].at \in works}}

Serve(t, at, of, next) ==
    /\ serving' = [serving EXCEPT ![t] = [at |-> at, of |-> of, next |-> next]]
    /\ overtaken' = overtaken \cup (of \cap At(t, IF at = "DELETE" THEN Work ELSE {"DELETE"}))

Served(t) == serving' = [serving EXCEPT ![t] = NoService] /\ UNCHANGED overtaken

-----------------------------------------------------------------------------
(* Parameters.                                                             *)

\* add_parameter: the row (a second one of the same id is refused) ...
AddInserts(t, p, enabled) ==
    /\ serving[t] = NoService
    /\ ~Exists(p)
    /\ parameters' = [parameters EXCEPT ![p] = IF enabled THEN "ON" ELSE "OFF"]
    /\ Serve(t, "GRAPH", {p}, {})
    /\ UNCHANGED <<graphs, readings, halved, halves>>

\* ... and create_default_graph, with another connection.
AddGraphs(t) ==
    /\ serving[t].at = "GRAPH"
    /\ graphs' = graphs \cup serving[t].of
    /\ Served(t)
    /\ UNCHANGED <<parameters, readings, halved, halves>>

\* update_parameter, where the body names `enabled`; set_parameter_enabled writes
\* the same.
SetParameterEnabled(p, enabled) ==
    /\ Exists(p)
    /\ parameters' = [parameters EXCEPT ![p] = IF enabled THEN "ON" ELSE "OFF"]
    /\ UNCHANGED <<graphs, readings, serving, overtaken, halved, halves>>

\* Mistake: only the parameters in use are looked up.
DeleteChecksEnabled(t, p) ==
    /\ serving[t] = NoService
    /\ parameters[p] = "OFF" \/ readings[p] = 0
    /\ Serve(t, "DELETE", {p}, {})
    /\ UNCHANGED <<parameters, graphs, readings, halved, halves>>

\* protect_sensor_changes: "Historical readings exist" refuses.
DeleteChecks(t, p) ==
    /\ serving[t] = NoService
    /\ readings[p] = 0
    /\ Serve(t, "DELETE", {p}, {})
    /\ UNCHANGED <<parameters, graphs, readings, halved, halves>>

\* delete_parameter: both rows, in one transaction.
DeleteRemoves(t) ==
    /\ serving[t].at = "DELETE"
    /\ graphs' = graphs \ serving[t].of
    /\ parameters' = [p \in Parameter |-> IF p \in serving[t].of THEN "ABSENT" ELSE parameters[p]]
    /\ Served(t)
    /\ UNCHANGED <<readings, halved, halves>>

-----------------------------------------------------------------------------
(* Graphs.                                                                 *)

\* GET and PUT .../graph: the parameter is looked up first.
GraphReads(t, p) ==
    /\ serving[t] = NoService
    /\ Exists(p)
    /\ Serve(t, "SHOW", {p}, {})
    /\ UNCHANGED <<parameters, graphs, readings, halved, halves>>

\* get_graph_config creates a graph that is missing, and looks again.
GraphCreates(t) ==
    /\ serving[t].at = "SHOW" /\ ~(serving[t].of \subseteq graphs)
    /\ graphs' = graphs \cup serving[t].of
    /\ UNCHANGED <<parameters, readings, serving, overtaken, halved, halves>>

GraphShows(t) ==
    /\ serving[t].at = "SHOW" /\ serving[t].of \subseteq graphs
    /\ Served(t)
    /\ UNCHANGED <<parameters, graphs, readings, halved, halves>>

-----------------------------------------------------------------------------
(* Readings.                                                               *)

\* save_parameters: the values of disabled parameters are left out, those of
\* unknown ones are not.  A widget that takes its value from another field adds
\* its own parameter to the batch.
SaveReads(t, batch) ==
    /\ serving[t] = NoService
    /\ LET mapped == {p \in batch : parameters[p] # "OFF"} IN
         /\ mapped # {}
         /\ Serve(t, "SAVE", mapped, {})
    /\ UNCHANGED <<parameters, graphs, readings, halved, halves>>

\* The next value of the batch, `next`, or none.
Saving(t, left, next) ==
    IF left \cup next = {} THEN Served(t)
    ELSE serving' = [serving EXCEPT ![t].of = left, ![t].next = next] /\ UNCHANGED overtaken

\* save_value reads the parameter; an unknown one stores nothing.
SaveLooks(t, p) ==
    /\ serving[t].at = "SAVE" /\ serving[t].next = {} /\ p \in serving[t].of
    /\ IF Exists(p) THEN Saving(t, serving[t].of, {p}) ELSE Saving(t, serving[t].of \ {p}, {})
    /\ UNCHANGED <<parameters, graphs, readings, halved, halves>>

\* The row, whether the parameter is still there or not.
SaveStores(t, p) ==
    /\ serving[t].at = "SAVE" /\ serving[t].next = {p}
    /\ readings[p] < MaxReadings
    /\ readings' = [readings EXCEPT ![p] = @ + 1]
    /\ Saving(t, serving[t].of \ {p}, {})
    /\ UNCHANGED <<parameters, graphs, halved, halves>>

\* The process ends and is started again.
SensorCrash ==
    /\ halves < MaxHalves /\ halves' = halves + 1
    /\ serving' = [t \in SensorThread |-> NoService]
    /\ halved' = halved \cup UNION {serving[t].of : t \in {u \in SensorThread : serving[u].at = "GRAPH"}}
    /\ UNCHANGED <<parameters, graphs, readings, overtaken>>

\* The requests.
AddParameterRequest(t) ==
    \/ \E p \in Parameter, enabled \in BOOLEAN : AddInserts(t, p, enabled)
    \/ AddGraphs(t)

EnableParameterRequest == \E p \in Parameter, enabled \in BOOLEAN : SetParameterEnabled(p, enabled)

DeleteParameterRequest(t) == DeleteRemoves(t) \/ \E p \in Parameter : DeleteChecks(t, p)

GraphRequest(t) == GraphCreates(t) \/ GraphShows(t) \/ \E p \in Parameter : GraphReads(t, p)

\* POST /api/telemetry: whatever names the body has.
TelemetryRequest(t) == \E batch \in SUBSET Parameter : SaveReads(t, batch)

\* The socket event: the fields that some parameter of the node is matched with.
SocketTelemetry(t) == \E batch \in SUBSET {p \in Parameter : Exists(p)} : SaveReads(t, batch)

SensorNext ==
    \/ \E t \in SensorThread :
         \/ AddParameterRequest(t) \/ DeleteParameterRequest(t) \/ GraphRequest(t)
         \/ TelemetryRequest(t) \/ SocketTelemetry(t)
         \/ \E p \in Parameter : SaveLooks(t, p) \/ SaveStores(t, p)
    \/ EnableParameterRequest
    \/ SensorCrash

SensorSpec == SensorInit /\ [][SensorNext]_sensorVars

-----------------------------------------------------------------------------
(* Properties.                                                             *)

\* "Historical readings exist. Disable this sensor and remove its widget to
\* retain history" (sensor_widgets): stored readings keep their parameter, unless
\* a request was saving while another deleted the parameter.
HistoryHasParameter ==
    \A p \in Parameter \ overtaken : readings[p] > 0 => Exists(p)

\* A graph belongs to a parameter, unless it was being created while the
\* parameter was deleted, and a parameter has its graph, unless the process ended
\* between the two or the parameter is new (add_parameter, get_graph_config).
GraphsFollowParameters ==
    \A p \in Parameter \ overtaken :
        /\ p \in graphs => Exists(p)
        /\ Exists(p) /\ p \notin halved =>
             p \in graphs \/ \E t \in SensorThread : serving[t].at = "GRAPH" /\ p \in serving[t].of

\* What the threads have read.
ServicesAreSound ==
    \A t \in SensorThread :
        /\ serving[t].next \subseteq serving[t].of
        /\ serving[t].at \in {"GRAPH", "SHOW"} => \A p \in serving[t].of \ overtaken : Exists(p)
        /\ serving[t].at = "SAVE" => \A p \in serving[t].next \ overtaken : Exists(p)
        /\ serving[t].at = "DELETE" => \A p \in serving[t].of \ overtaken : readings[p] = 0

\* What a deletion shares with another request is on record.
OverlapsAreSeen ==
    \A t, u \in SensorThread :
        t # u /\ serving[t].at = "DELETE" => serving[t].of \cap serving[u].of \subseteq overtaken

\* The inductive invariant of the proofs.
SensorInv ==
    /\ SensorTypeOK /\ HistoryHasParameter /\ GraphsFollowParameters
    /\ ServicesAreSound /\ OverlapsAreSeen

=============================================================================
