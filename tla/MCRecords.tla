------------------------------ MODULE MCRecords ------------------------------
(***************************************************************************)
(* Small instances of ChatMessages and NodeRecords for TLC, with what they  *)
(* promise to do eventually.  They share no variable: a run picks one of    *)
(* them at the start, as interleaving them would only visit the product of  *)
(* their states.                                                           *)
(***************************************************************************)
EXTENDS ChatMessages, NodeRecords

VARIABLE record

RecordsInit == record \in {"CHAT", "NODES"} /\ ChatInit /\ RecordInit

RecordsNext ==
    /\ UNCHANGED record
    /\ \/ record = "CHAT" /\ ChatNext /\ UNCHANGED recordVars
       \/ record = "NODES" /\ RecordNext /\ UNCHANGED chatVars

\* Nothing of the chat that fairness is asked of is enabled as long as there is
\* no message; a sweep of the nodes always is.
RecordsSpec ==
    /\ RecordsInit /\ [][RecordsNext]_<<record, chatVars, recordVars>>
    /\ ChatFairness
    /\ record = "NODES" => RecordFairness

\* What holds of the messages and the nodes.
RecordsInv == ChatInv /\ RecordInv
=============================================================================
