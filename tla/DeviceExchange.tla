--------------------------- MODULE DeviceExchange ---------------------------
(***************************************************************************)
(* The exchange of packets between the Gateway and one enrolled device:    *)
(* ingest and pending_commands of backend/device_api.py on one side, the   *)
(* device as backend/device_simulator.py defines it on the other.          *)
(*                                                                         *)
(* The command store is CommandPromise, which CommandLifecycle implements: *)
(* its deadlines are a choice here.  The transports (HTTP polling, MQTT,   *)
(* local IP, radio) lose, repeat and reorder packets: `offered` and `sent` *)
(* are what may be delivered, now, later, again or never.  A COMMAND that  *)
(* reaches the device after its window of 60 seconds is refused without a  *)
(* trace: it is one of those that are never delivered.                     *)
(*                                                                         *)
(* Commands are renamings (SET_DEVICE_NAME, each to a name of its own); a  *)
(* guarded one carries expected_revision.  The ingest of an ACK or a       *)
(* RESPONSE reads the command, lets the command store commit, and commits  *)
(* the node row with the receipt, in this order and under LOCK, which the  *)
(* command store does not take: its steps run in between.                  *)
(***************************************************************************)
EXTENDS Naturals, Sequences, Functions

CONSTANTS
    Command,        \* command identifiers
    NoCommand,      \* not a command
    Guarded,        \* the commands that carry expected_revision
    MaxRetries,     \* max_retries
    CacheSize,      \* answers a device remembers (32 in the code)
    ReceiptWindow,  \* receipts the Gateway remembers (4096 in the code)
    MaxRuns,        \* bound: runs of any two commands together
    MaxReports,     \* bound: STATUS, TELEMETRY and EVENT packets
    MaxCopies,      \* bound: times the same sample is stored
    MaxCrashes      \* bound: Gateway crashes

ASSUME ExchangeAssumption ==
    /\ NoCommand \notin Command
    /\ Guarded \subseteq Command
    /\ MaxRetries \in Nat
    /\ {CacheSize, ReceiptWindow} \subseteq Nat \ {0}
    /\ {MaxRuns, MaxReports, MaxCopies, MaxCrashes} \subseteq Nat

VARIABLES
    phase, rounds, packets,  \* the command store, see CommandPromise
    acked,      \* commands whose ack_at is set
    claimed,    \* commands whose sent_at is set
    expected,   \* expected_revision of each command's payload
    offered,    \* COMMAND packets on their way to the device
    revision,   \* the device's configuration revision
    cache,      \* the answers the device remembers, oldest first
    runs,       \* times the device ran each command
    evicted,    \* history: commands whose answer the device has forgotten
    sent,       \* the packets the device has sent
    reports,    \* how many of them are STATUS, TELEMETRY or EVENT
    node,       \* the device's row of table nodes
    receipts,   \* table device_receipts, oldest first
    forgotten,  \* history: TELEMETRY packets whose receipt was deleted
    stored,     \* rows of table telemetry_values per TELEMETRY packet
    ing,        \* the ingest that holds LOCK
    crashes

store    == <<phase, rounds, packets>>
flags    == <<acked, claimed, expected>>
device   == <<revision, cache, runs, evicted, sent, reports>>
tables   == <<node, receipts, forgotten, stored>>
vars     == <<store, flags, offered, device, tables, ing, crashes>>

Store == INSTANCE CommandPromise

---------------------------------------------------------------------------
(* Packets, the device's answers, rows.                                    *)

Settled == Store!Outcomes

\* The message identifier of a packet stands in id: an answer has one per run,
\* and every report has its own.
Packet ==
    [kind : {"ACK", "RESPONSE", "EVENT", "STATUS", "TELEMETRY"}, cmd : Command \cup {NoCommand},
     id : Nat, ok : BOOLEAN, rev : Nat]

Ack(a)      == [kind |-> "ACK", cmd |-> a.cmd, id |-> a.run, ok |-> TRUE, rev |-> 0]
Response(a) == [kind |-> "RESPONSE", cmd |-> a.cmd, id |-> a.run, ok |-> a.ok, rev |-> a.rev]
Report(k, c, n, r) == [kind |-> k, cmd |-> c, id |-> n, ok |-> FALSE, rev |-> r]

Answer == [cmd : Command, run : Nat, ok : BOOLEAN, rev : Nat]
Node   == [revision : Nat, name : Command \cup {NoCommand}]

Ingesting == [packet : Packet, seen : Settled \cup {"pending"}, stage : {"EFFECT", "FINISH"}]
NoIngest  == [stage |-> "NONE"]
Idle      == ing = NoIngest

\* Append keeping the newest `limit` elements.
Keep(s, e, limit) == IF Len(s) < limit THEN Append(s, e) ELSE Append(Tail(s), e)
Lost(s, limit)    == IF Len(s) < limit THEN {} ELSE {Head(s)}

Receipted(p) == p \in Range(receipts)
Cached       == {a.cmd : a \in Range(cache)}

TypeOK ==
    /\ Store!TypeOK
    /\ acked \subseteq Command /\ claimed \subseteq Command
    /\ expected \in [Command -> Nat]
    /\ offered \subseteq Command
    /\ revision \in Nat
    /\ cache \in Seq(Answer)
    /\ runs \in [Command -> Nat]
    /\ evicted \subseteq Command
    /\ sent \subseteq Packet
    /\ reports \in Nat
    /\ node \in Node
    /\ receipts \in Seq(Packet)
    /\ forgotten \subseteq Packet
    /\ stored \in [1..MaxReports -> Nat]
    /\ ing \in Ingesting \cup {NoIngest}
    /\ crashes \in Nat

\* An enrolled device that has announced itself with HELLO.
Init ==
    /\ Store!Init
    /\ acked = {} /\ claimed = {}
    /\ expected = [c \in Command |-> 0]
    /\ offered = {}
    /\ revision = 1
    /\ cache = << >>
    /\ runs = [c \in Command |-> 0]
    /\ evicted = {}
    /\ sent = {}
    /\ reports = 0
    /\ node = [revision |-> 1, name |-> NoCommand]
    /\ receipts = << >>
    /\ forgotten = {}
    /\ stored = [n \in 1..MaxReports |-> 0]
    /\ ing = NoIngest
    /\ crashes = 0

---------------------------------------------------------------------------
(* The Gateway's side of a command, see CommandLifecycle for the rest.     *)

\* A guarded command is submitted with the revision the dashboard shows.
Submit(c) ==
    /\ Store!Submit(c)
    /\ expected' = [expected EXCEPT ![c] = IF c \in Guarded THEN node.revision ELSE 0]
    /\ UNCHANGED <<acked, claimed, offered, device, tables, ing, crashes>>

\* pending_commands claims a command and its packet leaves in the reply.
Offer(c) ==
    /\ phase[c] = "pending"
    /\ c \notin acked
    /\ Store!Transmit(c)
    /\ claimed' = claimed \cup {c}
    /\ offered' = offered \cup {c}
    /\ UNCHANGED <<acked, expected, device, tables, ing, crashes>>

\* Mistake: a command that has settled settles again.
SettleAgain(c, o) ==
    /\ phase[c] # "none"
    /\ phase' = [phase EXCEPT ![c] = o]
    /\ UNCHANGED <<rounds, packets>>

SettleAs(c, o) ==
    /\ phase[c] = "pending"
    /\ phase' = [phase EXCEPT ![c] = o]
    /\ UNCHANGED <<rounds, packets>>

\* Mistake: a command without an answer is reported failed.
TimeOutFailed(c) ==
    /\ SettleAs(c, "failed")
    /\ UNCHANGED <<flags, offered, device, tables, ing, crashes>>

\* One of the deadlines of the command passes.
TimeOut(c) ==
    /\ SettleAs(c, "unknown")
    /\ UNCHANGED <<flags, offered, device, tables, ing, crashes>>

\* cancel_queued_command: before dispatch.
Cancel(c) ==
    /\ c \notin claimed
    /\ SettleAs(c, "cancelled")
    /\ UNCHANGED <<flags, offered, device, tables, ing, crashes>>

\* prepare_command_retry: the command becomes as new, its packet stays the same.
Retry(c) ==
    /\ Store!Reopen(c)
    /\ acked' = acked \ {c}
    /\ claimed' = claimed \ {c}
    /\ UNCHANGED <<expected, offered, device, tables, ing, crashes>>

---------------------------------------------------------------------------
(* The device.                                                             *)

Transmits(a) == sent' = sent \cup {Ack(a), Response(a)}

\* A command the device remembers is answered with the packets it sent before.
Replay(c) ==
    /\ c \in offered
    /\ \E a \in Range(cache) : a.cmd = c /\ Transmits(a)
    /\ UNCHANGED <<store, flags, offered, tables, ing, crashes,
                   revision, cache, runs, evicted, reports>>

\* Mistake: the guarded command runs whatever the revision is.
RunUnguarded(c) ==
    [cmd |-> c, run |-> runs[c] + 1, ok |-> TRUE, rev |-> revision + 1]

\* The answer of running c now: a guarded command fails unless the device is at
\* the revision it names, any other saves the name and counts a revision.
Run(c) ==
    IF c \in Guarded /\ expected[c] # revision
    THEN [cmd |-> c, run |-> runs[c] + 1, ok |-> FALSE, rev |-> revision]
    ELSE [cmd |-> c, run |-> runs[c] + 1, ok |-> TRUE, rev |-> revision + 1]

\* Mistake: the answer is not saved.
SaveNothing(a) == UNCHANGED <<cache, evicted>>

Save(a) ==
    /\ cache'   = Keep(cache, a, CacheSize)
    /\ evicted' = evicted \cup {b.cmd : b \in Lost(cache, CacheSize)}

Execute(c) ==
    /\ c \in offered
    /\ c \notin Cached
    /\ \A d \in Command : runs[c] + runs[d] < MaxRuns
    /\ runs' = [runs EXCEPT ![c] = @ + 1]
    /\ revision' = Run(c).rev
    /\ Save(Run(c))
    /\ Transmits(Run(c))
    /\ UNCHANGED <<store, flags, offered, tables, ing, crashes, reports>>

\* STATUS and TELEMETRY of the device; EVENT is the Master's COMMAND_ROUTE_FAILED.
Reported(p) ==
    /\ reports < MaxReports
    /\ reports' = reports + 1
    /\ sent' = sent \cup {p}
    /\ UNCHANGED <<store, flags, offered, tables, ing, crashes,
                   revision, cache, runs, evicted>>

SendStatus    == Reported(Report("STATUS", NoCommand, reports + 1, revision))
SendTelemetry == Reported(Report("TELEMETRY", NoCommand, reports + 1, 0))
RouteFails(c) == c \in offered /\ Reported(Report("EVENT", c, reports + 1, 0))

---------------------------------------------------------------------------
(* ingest.                                                                 *)

\* Mistake: no receipt is kept.
RememberNothing(p) == UNCHANGED <<receipts, forgotten>>

\* The receipt, and the deletion of the oldest beyond the window.
Remember(p) ==
    /\ receipts'  = Keep(receipts, p, ReceiptWindow)
    /\ forgotten' = forgotten \cup {q \in Lost(receipts, ReceiptWindow) : q.kind = "TELEMETRY"}

Fresh(p) == p \in sent /\ Idle /\ ~Receipted(p)

\* STATUS writes the row, TELEMETRY stores a sample, each with its receipt.
IngestReport(p) ==
    /\ Fresh(p) /\ p.kind \in {"STATUS", "TELEMETRY"}
    /\ p.kind = "TELEMETRY" => stored[p.id] < MaxCopies
    /\ node' = IF p.kind = "STATUS" THEN [node EXCEPT !.revision = p.rev] ELSE node
    /\ stored' = IF p.kind = "TELEMETRY" THEN [stored EXCEPT ![p.id] = @ + 1] ELSE stored
    /\ Remember(p)
    /\ UNCHANGED <<store, flags, offered, device, ing, crashes>>

\* Mistake: the receipt is committed before the answer is applied.
BeginAnswerReceipted(p) ==
    /\ Fresh(p) /\ p.kind \in {"ACK", "RESPONSE", "EVENT"}
    /\ ing' = [packet |-> p, seen |-> phase[p.cmd],
               stage |-> IF phase[p.cmd] = "pending" THEN "EFFECT" ELSE "FINISH"]
    /\ Remember(p)
    /\ UNCHANGED <<store, flags, offered, device, node, stored, crashes>>

\* A command that is terminal when it is read is not touched: a late answer is
\* only recorded as an event.
BeginAnswer(p) ==
    /\ Fresh(p) /\ p.kind \in {"ACK", "RESPONSE", "EVENT"}
    /\ ing' = [packet |-> p, seen |-> phase[p.cmd],
               stage |-> IF phase[p.cmd] = "pending" THEN "EFFECT" ELSE "FINISH"]
    /\ UNCHANGED <<store, flags, offered, device, tables, crashes>>

Applied == ing' = [ing EXCEPT !.stage = "FINISH"]

\* The outcomes of a command that a packet repeats and does not contradict.
Agreeing(p) ==
    CASE p.kind = "ACK"      -> {"succeeded"}
      [] p.kind = "RESPONSE" -> {"succeeded", "failed"}
      [] OTHER               -> {"failed"}

\* process_command_ack; the device simulator accepts whatever it answers.
ApplyAck ==
    /\ ing.stage = "EFFECT" /\ ing.packet.kind = "ACK"
    /\ phase[ing.packet.cmd] \in Agreeing(ing.packet) \cup {"pending"}
    /\ acked' = IF phase[ing.packet.cmd] = "pending" THEN acked \cup {ing.packet.cmd} ELSE acked
    /\ Applied
    /\ UNCHANGED <<store, claimed, expected, offered, device, tables, crashes>>

OutcomeOf(p) == IF p.ok THEN "succeeded" ELSE "failed"

\* process_command_response; update_command_state for a route failure.
ApplyResponse ==
    /\ ing.stage = "EFFECT" /\ ing.packet.kind \in {"RESPONSE", "EVENT"}
    /\ \/ SettleAs(ing.packet.cmd, OutcomeOf(ing.packet))
       \/ phase[ing.packet.cmd] \in Agreeing(ing.packet) /\ UNCHANGED store
    /\ Applied
    /\ UNCHANGED <<flags, offered, device, tables, crashes>>

\* The command was closed after it was read: the command store raises and the
\* ingest rolls back, without a receipt.
Refuse ==
    /\ ing.stage = "EFFECT"
    /\ phase[ing.packet.cmd] \notin Agreeing(ing.packet) \cup {"pending"}
    /\ ing' = NoIngest
    /\ UNCHANGED <<store, flags, offered, device, tables, crashes>>

\* Mistake: the command is read again after its result was applied.
ConfirmsOpen(i) == i.packet.kind = "RESPONSE" /\ i.packet.ok /\ phase[i.packet.cmd] = "pending"

\* Mistake: a late result is written to the row too.
ConfirmsLate(i) == i.packet.kind = "RESPONSE" /\ i.packet.ok

\* The row follows a success of a command that was open when it was read.
Confirms(i) == i.packet.kind = "RESPONSE" /\ i.packet.ok /\ i.seen = "pending"

FinishAnswer ==
    /\ ing.stage = "FINISH"
    /\ node' = IF Confirms(ing)
               THEN [revision |-> ing.packet.rev, name |-> ing.packet.cmd]
               ELSE node
    /\ Remember(ing.packet)
    /\ ing' = NoIngest
    /\ UNCHANGED <<store, flags, offered, device, stored, crashes>>

\* Only an ingest has anything to lose: the rest is in SQLite.
Crash ==
    /\ crashes < MaxCrashes
    /\ ~Idle
    /\ ing' = NoIngest
    /\ crashes' = crashes + 1
    /\ UNCHANGED <<store, flags, offered, device, tables>>

Next ==
    \/ \E c \in Command :
          \/ Submit(c) \/ Offer(c) \/ TimeOut(c) \/ Cancel(c) \/ Retry(c)
          \/ Replay(c) \/ Execute(c) \/ RouteFails(c)
    \/ SendStatus \/ SendTelemetry
    \/ \E p \in sent : IngestReport(p) \/ BeginAnswer(p)
    \/ ApplyAck \/ ApplyResponse \/ Refuse \/ FinishAnswer \/ Crash

Spec == Init /\ [][Next]_vars

---------------------------------------------------------------------------
(* Properties.                                                             *)

\* A sample is stored once, however often its packet is delivered, over whatever
\* transport and across Gateway crashes, unless its receipt has been deleted.
SampleStoredOnce ==
    \A p \in sent : p.kind = "TELEMETRY" /\ stored[p.id] > 1 => p \in forgotten

\* The device runs a command once, however often it is offered and retried, unless
\* its answer has been dropped from the cache.
RunsOnce == \A c \in Command : runs[c] > 1 => c \in evicted

\* A command succeeds only if the device ran it, and a guarded one only if that
\* run found the very revision its requester had seen.
SuccessIsEarned ==
    \A c \in Command : phase[c] = "succeeded" =>
        \E p \in sent :
            /\ p.kind = "RESPONSE" /\ p.cmd = c /\ p.ok
            /\ c \in Guarded => p.rev = expected[c] + 1

\* A command that its device has run is not reported failed, unless the Master has
\* reported a packet of it undeliverable, or the device has forgotten its answer.
FailureIsHonest ==
    \A c \in Command :
        /\ phase[c] = "failed"
        /\ c \notin evicted
        /\ \A p \in sent : ~(p.kind = "EVENT" /\ p.cmd = c)
        => \A p \in sent : p.kind = "RESPONSE" /\ p.cmd = c => ~p.ok

\* The name in the Gateway's row is one whose command has succeeded: results that
\* come late, or lose a race with a timeout, do not rename the row.
RowIsConfirmed == node.name # NoCommand => phase[node.name] = "succeeded"

\* Without a crash, a rename that alone succeeded is in the row once its ingest is over.
SuccessReachesRow ==
    \A c \in Command :
        /\ crashes = 0 /\ Idle
        /\ phase[c] = "succeeded"
        /\ \A d \in Command \ {c} : phase[d] # "succeeded"
        => node.name = c

\* The receipt of a result is final for the command it answers: the command is not
\* pending any more, unless it has been reopened.
ReceiptSettles ==
    \A p \in Range(receipts) :
        p.kind = "RESPONSE" /\ phase[p.cmd] = "pending" => rounds[p.cmd] > 0

\* The exchange uses the command store as CommandPromise allows.
StoreKept == Store!Safe

---------------------------------------------------------------------------
(* The inductive invariant.                                                *)

\* A command nobody has submitted is unknown everywhere.
UnsubmittedIsUnknown ==
    \A c \in Command : phase[c] = "none" => c \notin offered /\ \A p \in sent : p.cmd # c

\* Packets about commands name one, a route failure is no success; the other
\* packets are numbered, and samples are alike.
PacketsAreAddressed ==
    \A p \in sent :
        /\ p.kind \in {"ACK", "RESPONSE", "EVENT"} => p.cmd \in Command
        /\ p.kind = "EVENT" => ~p.ok
        /\ p.kind = "TELEMETRY" =>
              p.id \in 1..reports /\ p = Report("TELEMETRY", NoCommand, p.id, 0)

\* The answers of a run agree, and there are no more than runs.
AnswersAreNumbered ==
    \A p \in sent : p.kind = "RESPONSE" =>
        /\ p.id \in 1..runs[p.cmd]
        /\ \A q \in sent : q.kind = "RESPONSE" /\ q.cmd = p.cmd /\ q.id = p.id => q.ok = p.ok

AnswersAreGuarded ==
    \A p \in sent : p.kind = "RESPONSE" /\ p.ok /\ p.cmd \in Guarded => p.rev = expected[p.cmd] + 1

\* What the device and the Gateway remember has been sent, and the device has only
\* forgotten what it says it has.
MemoryIsSent ==
    /\ \A a \in Range(cache) : Ack(a) \in sent /\ Response(a) \in sent
    /\ Range(receipts) \subseteq sent
    /\ \A c \in Command : runs[c] > 0 => c \in Cached \cup evicted

\* A sample that is stored has, or had, its receipt; the next number is not in use.
StoredIsReceipted ==
    /\ reports <= MaxReports
    /\ \A p \in sent : p.kind = "TELEMETRY" /\ stored[p.id] > 0 => Receipted(p) \/ p \in forgotten
    /\ \A n \in 1..MaxReports : n > reports => stored[n] = 0

\* While an ingest is under way nothing else settles its command with an answer.
IngestInProgress ==
    ~Idle =>
        /\ ing.packet \in sent
        /\ ing.packet.kind \in {"ACK", "RESPONSE", "EVENT"}
        /\ ing.stage = "EFFECT" =>
              ing.seen = "pending" /\ phase[ing.packet.cmd] \in {"pending", "unknown", "cancelled"}
        /\ ing.stage = "FINISH" /\ ing.packet.kind = "RESPONSE" /\ phase[ing.packet.cmd] = "pending"
              => rounds[ing.packet.cmd] > 0
        /\ ing.stage = "FINISH" /\ Confirms(ing) => phase[ing.packet.cmd] = "succeeded"

FailureHasCause ==
    \A c \in Command : phase[c] = "failed" =>
        \E p \in sent :
            /\ p.cmd = c
            /\ p.kind \in {"RESPONSE", "EVENT"} /\ ~p.ok

SuccessIsWritten ==
    crashes = 0 /\ (\E c \in Command : phase[c] = "succeeded") =>
        node.name # NoCommand \/ (ing.stage = "FINISH" /\ Confirms(ing))

ExchangeInv ==
    /\ TypeOK
    /\ UnsubmittedIsUnknown
    /\ PacketsAreAddressed
    /\ AnswersAreNumbered
    /\ AnswersAreGuarded
    /\ MemoryIsSent
    /\ StoredIsReceipted
    /\ IngestInProgress
    /\ FailureHasCause
    /\ SuccessIsWritten
    /\ SampleStoredOnce
    /\ RunsOnce
    /\ SuccessIsEarned
    /\ RowIsConfirmed
    /\ ReceiptSettles

\* A device answers a command it remembers with the result it has: while a retried
\* command is pending, that result can still be accepted.
RetryCanBeAnswered ==
    \A a \in Range(cache) : phase[a.cmd] = "pending" => ~Receipted(Response(a))

=============================================================================
