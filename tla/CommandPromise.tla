-------------------------- MODULE CommandPromise --------------------------
(***************************************************************************)
(* What the Gateway promises whoever submits a command to an enrolled      *)
(* device, without locks, deadlines, tables or threads: the command is     *)
(* pending until it settles in one of four outcomes; success and           *)
(* cancellation are final; a failed or unknown outcome may be reopened a   *)
(* bounded number of times by an explicit retry; and over its whole life,  *)
(* retries included, a bounded number of packets is put on the wire.       *)
(***************************************************************************)
EXTENDS Naturals

CONSTANTS Command, MaxRetries

VARIABLES
    phase,    \* what the requester is told
    rounds,   \* explicit retries so far
    packets   \* packets transmitted so far

vars == <<phase, rounds, packets>>

Outcomes == {"succeeded", "failed", "unknown", "cancelled"}

TypeOK ==
    /\ phase   \in [Command -> Outcomes \cup {"none", "pending"}]
    /\ rounds  \in [Command -> 0..MaxRetries]
    /\ packets \in [Command -> 0..(1 + MaxRetries)]

Init ==
    /\ phase   = [c \in Command |-> "none"]
    /\ rounds  = [c \in Command |-> 0]
    /\ packets = [c \in Command |-> 0]

Submit(c) ==
    /\ phase[c] = "none"
    /\ phase' = [phase EXCEPT ![c] = "pending"]
    /\ UNCHANGED <<rounds, packets>>

Settle(c) ==
    /\ phase[c] = "pending"
    /\ \E o \in Outcomes : phase' = [phase EXCEPT ![c] = o]
    /\ UNCHANGED <<rounds, packets>>

Reopen(c) ==
    /\ phase[c] \in {"failed", "unknown"}
    /\ rounds[c] < MaxRetries
    /\ phase' = [phase EXCEPT ![c] = "pending"]
    /\ rounds' = [rounds EXCEPT ![c] = @ + 1]
    /\ UNCHANGED packets

\* A packet may leave after the command has settled: cancellation and timeouts
\* do not recall what a poll has already claimed.
Transmit(c) ==
    /\ phase[c] # "none"
    /\ packets[c] < 1 + MaxRetries
    /\ packets' = [packets EXCEPT ![c] = @ + 1]
    /\ UNCHANGED <<phase, rounds>>

Next == \E c \in Command : Submit(c) \/ Settle(c) \/ Reopen(c) \/ Transmit(c)

Safe == Init /\ [][Next]_vars

\* Whatever is pending settles: no command waits for ever.
Spec == Safe /\ \A c \in Command : WF_vars(Settle(c))
=============================================================================
