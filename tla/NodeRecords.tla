----------------------------- MODULE NodeRecords -----------------------------
(***************************************************************************)
(* The rows of the registered nodes and the status they show (node_manager, *)
(* the routes under /api/nodes, the two ways telemetry arrives).  A report  *)
(* reads the node with one connection and writes its status with another;   *)
(* the sweep for silent nodes, which every poll of the node list runs,      *)
(* reads all rows before it writes any.  The operators' requests write a    *)
(* row in one statement.                                                    *)
(***************************************************************************)
EXTENDS Integers

CONSTANTS
    RecordNode,
    RecordThread,   \* threads that serve a report or a poll
    Stamps          \* what the `timestamp` of POST /api/telemetry may be

VARIABLES
    rows,        \* table nodes
    doing,       \* what each thread has read and will do next
    crossed      \* history: nodes of which two requests overlapped

recordVars == <<rows, doing, crossed>>

\* last_seen against now: the offline threshold has passed, or not yet, or it is
\* in the future; AWARE: it carries a UTC offset.
Seen == {"STALE", "FRESH", "FUTURE", "AWARE"}
NodeRow == [enabled : BOOLEAN, status : {"online", "offline", "disabled"}, seen : Seen \cup {"NONE"}]
NoNodeRow == [status |-> "ABSENT"]

ASSUME RecordAssumption == Stamps \subseteq Seen

NotDoing == [at |-> "NOTHING"]
Reporting == [at : {"REPORT"}, node : RecordNode, seen : Seen]
Sweeping == [at : {"SWEEP"}, silent : SUBSET RecordNode]

RecordTypeOK ==
    /\ rows \in [RecordNode -> NodeRow \cup {NoNodeRow}]
    /\ doing \in [RecordThread -> {NotDoing} \cup Reporting \cup Sweeping]
    /\ crossed \subseteq RecordNode

RecordInit ==
    /\ rows = [n \in RecordNode |-> NoNodeRow]
    /\ doing = [t \in RecordThread |-> NotDoing]
    /\ crossed = {}

Registered(n) == rows[n] # NoNodeRow

\* Threads, other than those of `own`, that are about to write the node's row.
Writers(own, n) ==
    {u \in RecordThread \ own :
        \/ doing[u].at = "REPORT" /\ doing[u].node = n
        \/ doing[u].at = "SWEEP" /\ n \in doing[u].silent}

\* The nodes are written, by a thread (`own`) or by an operator ({}).
Crossing(own, nodes) == crossed' = crossed \cup {n \in nodes : Writers(own, n) # {}}

-----------------------------------------------------------------------------
(* The operators.                                                          *)

WriteRow(n, row) ==
    /\ rows' = [rows EXCEPT ![n] = row]
    /\ Crossing({}, {n})
    /\ UNCHANGED doing

AddNode(n, enabled) ==
    /\ ~Registered(n)
    /\ WriteRow(n, [enabled |-> enabled, status |-> IF enabled THEN "offline" ELSE "disabled",
                    seen |-> "NONE"])

\* PUT /api/nodes/<id>; without `enabled` in the body the node is enabled.
UpdateNode(n, enabled) ==
    /\ Registered(n)
    /\ WriteRow(n, [rows[n] EXCEPT !.enabled = enabled,
         !.status = IF ~enabled THEN "disabled" ELSE IF @ = "disabled" THEN "offline" ELSE @])

\* Enabling a node that is enabled shows it as offline until its next report.
SetNodeEnabled(n, enabled) ==
    /\ Registered(n)
    /\ WriteRow(n, [rows[n] EXCEPT !.enabled = enabled,
         !.status = IF enabled THEN "offline" ELSE "disabled"])

DeleteNode(n) ==
    /\ Registered(n)
    /\ WriteRow(n, NoNodeRow)

-----------------------------------------------------------------------------
(* Reports.                                                                *)

ReportBegins(t, n, seen) ==
    /\ doing[t] = NotDoing
    /\ Registered(n) /\ rows[n].enabled
    /\ doing' = [doing EXCEPT ![t] = [at |-> "REPORT", node |-> n, seen |-> seen]]
    /\ UNCHANGED <<rows, crossed>>

\* The socket event and a packet of an enrolled device: the time of receipt.
SocketReads(t, n) == ReportBegins(t, n, "FRESH")

Later(a, b) == IF "FUTURE" \in {a, b} THEN "FUTURE" ELSE IF "FRESH" \in {a, b} THEN "FRESH" ELSE "STALE"

\* max(received_at, last_seen) of two texts: with a UTC offset in either, the
\* order of the texts is not that of the times.
Newest(received, last) ==
    IF last = "NONE" THEN {received}
    ELSE IF "AWARE" \in {received, last} THEN {received, last}
    ELSE {Later(received, last)}

\* POST /api/telemetry: the time the sender gives, if it gives one.
TelemetryReads(t, n, received) ==
    /\ Registered(n)
    /\ \E seen \in Newest(received, rows[n].seen) : ReportBegins(t, n, seen)

\* update_node_status, on whatever row has the id by now.
ReportWrites(t) ==
    /\ doing[t].at = "REPORT"
    /\ LET n == doing[t].node IN
         /\ rows' = IF Registered(n)
                    THEN [rows EXCEPT ![n].status = "online", ![n].seen = doing[t].seen] ELSE rows
         /\ Crossing({t}, {n})
    /\ doing' = [doing EXCEPT ![t] = NotDoing]

-----------------------------------------------------------------------------
(* check_offline_nodes.                                                    *)

\* Rows the sweep looks at: not the ones already offline, not those never seen.
Watched(n) == Registered(n) /\ rows[n].enabled /\ rows[n].status # "offline" /\ rows[n].seen # "NONE"

\* The subtraction of a time with an offset raises, outside the try: the whole
\* sweep ends without a commit.
Raises == \E n \in RecordNode : Watched(n) /\ rows[n].seen = "AWARE"

\* Mistake: the sweep ends at a node that is offline already.
SilentUntil ==
    IF Raises \/ \E n \in RecordNode : Registered(n) /\ rows[n].status = "offline" THEN {}
    ELSE {n \in RecordNode : Watched(n) /\ rows[n].seen = "STALE"}

SilentNodes == IF Raises THEN {} ELSE {n \in RecordNode : Watched(n) /\ rows[n].seen = "STALE"}

SweepReads(t) ==
    /\ doing[t] = NotDoing
    /\ doing' = [doing EXCEPT ![t] = [at |-> "SWEEP", silent |-> SilentNodes]]
    /\ UNCHANGED <<rows, crossed>>

\* One transaction, which writes the status alone.
SweepWrites(t) ==
    /\ doing[t].at = "SWEEP"
    /\ rows' = [n \in RecordNode |-> IF n \in doing[t].silent /\ Registered(n)
                                     THEN [rows[n] EXCEPT !.status = "offline"] ELSE rows[n]]
    /\ Crossing({t}, doing[t].silent)
    /\ doing' = [doing EXCEPT ![t] = NotDoing]

\* Time passes.
Ages(n) ==
    /\ Registered(n) /\ rows[n].seen \in {"FRESH", "FUTURE"}
    /\ rows' = [rows EXCEPT ![n].seen = IF @ = "FUTURE" THEN "FRESH" ELSE "STALE"]
    /\ UNCHANGED <<doing, crossed>>

\* The routes.
AddNodeRequest == \E n \in RecordNode, enabled \in BOOLEAN : AddNode(n, enabled)
UpdateNodeRequest == \E n \in RecordNode, enabled \in BOOLEAN : UpdateNode(n, enabled)
EnableNodeRequest == \E n \in RecordNode, enabled \in BOOLEAN : SetNodeEnabled(n, enabled)
DeleteNodeRequest == \E n \in RecordNode : DeleteNode(n)
NodesRequest == \E t \in RecordThread : SweepReads(t)

RecordNext ==
    \/ AddNodeRequest \/ UpdateNodeRequest \/ EnableNodeRequest \/ DeleteNodeRequest
    \/ \E t \in RecordThread, n \in RecordNode :
         SocketReads(t, n) \/ \E received \in Stamps \cup {"FRESH"} : TelemetryReads(t, n, received)
    \/ NodesRequest
    \/ \E t \in RecordThread : ReportWrites(t) \/ SweepWrites(t)
    \/ \E n \in RecordNode : Ages(n)

RecordSpec == RecordInit /\ [][RecordNext]_recordVars

\* A request that has begun goes on; among whatever else the threads serve, the
\* dashboard's polls of the node list are served again and again.
RecordFairness ==
    /\ \A t \in RecordThread : WF_recordVars(ReportWrites(t)) /\ WF_recordVars(SweepWrites(t))
    /\ SF_recordVars(NodesRequest)

-----------------------------------------------------------------------------
(* Properties.                                                             *)

\* "Disabled nodes use status disabled" and "Disabled node must never become
\* ONLINE" (README.md, server.py), as far as requests do not overlap; a report
\* or a sweep that read the node before it was disabled, deleted or added again
\* writes over that.
StatusFollowsSwitch ==
    \A n \in RecordNode \ crossed : Registered(n) => (rows[n].status = "disabled") = ~rows[n].enabled

\* A node is never shown online without a time it was last seen at, even where
\* its row was deleted and made again under a report.
OnlineWasSeen == \A n \in RecordNode : rows[n].status = "online" => rows[n].seen # "NONE"

Silent(n) == Registered(n) /\ rows[n].enabled /\ rows[n].status = "online" /\ rows[n].seen = "STALE"

\* "Node is considered offline when no telemetry is received within this amount
\* of time" (node_manager.py): a node that stays silent is not shown online for
\* ever while the node list is polled.
SilentGoesOffline == \A n \in RecordNode : Silent(n) ~> ~Silent(n)

\* The same, as long as no watched node has a last_seen with a UTC offset.
SilenceShows == \A n \in RecordNode : Silent(n) ~> ~Silent(n) \/ Raises

\* What the threads have read.
ReportsAreSound ==
    \A t \in RecordThread, n \in RecordNode \ crossed :
        /\ doing[t].at = "REPORT" /\ doing[t].node = n => (Registered(n) => rows[n].enabled)
        /\ doing[t].at = "SWEEP" /\ n \in doing[t].silent => (Registered(n) => rows[n].enabled)

RecordInv == RecordTypeOK /\ StatusFollowsSwitch /\ OnlineWasSeen /\ ReportsAreSound

=============================================================================
