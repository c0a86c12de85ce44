----------------------------- MODULE JobPromise -----------------------------
(***************************************************************************)
(* What the update jobs promise, as if each request were one step: a job is *)
(* created for a device that has none open, for one release of its choice,  *)
(* and from then on only its state changes, along the table of transitions. *)
(*                                                                         *)
(* Of a device in `doubled` two creations overlapped, of a job in `raced`   *)
(* two reports: of these no more is promised than that a job stays with its *)
(* device and its release.                                                  *)
(***************************************************************************)
CONSTANTS Node, Job, Row, NoJob,
          Settled,     \* states of a job that is not open
          First,       \* states of a new job
          Follows      \* the states that may come after each

VARIABLES jobs, raced, doubled

vars == <<jobs, raced, doubled>>

Init ==
    /\ jobs = [j \in Job |-> NoJob]
    /\ raced = {} /\ doubled = {}

Open(n) == {j \in Job \ raced : jobs[j] # NoJob /\ jobs[j].node = n /\ jobs[j].state \notin Settled}

Create(j, row) ==
    /\ jobs[j] = NoJob
    /\ row.node \in doubled \/ Open(row.node) = {}
    /\ row.state \in First
    /\ jobs' = [jobs EXCEPT ![j] = row]
    /\ UNCHANGED <<raced, doubled>>

Report(j, to) ==
    /\ jobs[j] # NoJob
    /\ j \in raced \/ to \in Follows[jobs[j].state]
    /\ jobs' = [jobs EXCEPT ![j].state = to]
    /\ UNCHANGED <<raced, doubled>>

Overlap ==
    /\ raced \subseteq raced' /\ doubled \subseteq doubled'
    /\ UNCHANGED jobs

Next ==
    \/ Overlap
    \/ \E j \in Job, row \in Row : Create(j, row) \/ Report(j, row.state)

Spec == Init /\ [][Next]_vars

=============================================================================
