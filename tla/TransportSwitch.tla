--------------------------- MODULE TransportSwitch ---------------------------
(***************************************************************************)
(* The switch of one Master between MQTT and local IP (transport_switch):   *)
(* a document per device, and a command for each step of a transaction.     *)
(* Requests hold one lock; the command store settles, times out and retries *)
(* commands meanwhile.  A step's command is committed before the document   *)
(* that names it, and the process may end between the two.                  *)
(*                                                                         *)
(* The Master is firmware, modelled as CONFIG_CONTRACT and the Gateway's    *)
(* checks presume it: it opens one transaction at a time, goes back when a  *)
(* trial is not confirmed, may refuse any command, and runs one at most     *)
(* once.  Its packets are lost, repeated and reordered.                     *)
(***************************************************************************)
EXTENDS Integers, FiniteSets

CONSTANTS
    MaxTx,        \* bound: transactions, numbered as they are made
    MaxSteps,     \* bound: commands, numbered as they are made
    StepRetries,  \* max_retries of a step, 1 in the code
    MaxRedone,    \* bound: commands the operator retries
    MaxCuts       \* bound: requests the process ends in the middle of

ASSUME TransportAssumption ==
    /\ {MaxTx, MaxSteps} \subseteq Nat \ {0} /\ {StepRetries, MaxRedone, MaxCuts} \subseteq Nat

VARIABLES
    transport,   \* the document in table transport_switches
    steps,       \* the commands of the switch, with what their results say
    filing,      \* the document about to be saved; its command is committed
    reported,    \* the settled transaction that latest_status names, or 0
    overdue,     \* transactions whose deadline has passed for the Gateway
    trial,       \* external: the Master's transactions
    replies,     \* external: what the Master answered to each command
    cut          \* history: transactions of which a saving was cut off

transportVars == <<transport, steps, filing, reported, overdue, trial, replies, cut>>

-----------------------------------------------------------------------------

Tx == 1..MaxTx
Step == 1..MaxSteps
Operations == {"prepare", "apply", "probe", "confirm", "cancel"}
Ended == {"COMMITTED", "CANCELLED", "ROLLED_BACK"}
TrialStates == {"NONE", "PREPARED", "TRIAL"} \cup Ended
DocStates ==
    {"IDLE", "PREPARE_QUEUED", "APPLY_QUEUED", "CONFIRM_QUEUED", "CANCEL_QUEUED",
     "UNKNOWN_REQUIRES_DEVICE_STATUS", "EXPIRED_AWAITING_DEVICE_STATUS"} \cup TrialStates

NoStep == [phase |-> "ABSENT"]
NoFiling == [tx |-> -1]

Document == [tx : 0..MaxTx, state : DocStates, last : Operations \cup {"none"},
             commands : [Operations -> Step \cup {0}]]
\* `proved`: accepted, and answered over the transport that is on trial.
\* `FAILED` stands for TIMEOUT and CANCELLED too: refreshed takes the three alike.
StepRow == [phase : {"pending", "COMPLETED", "FAILED"}, tx : Tx, op : Operations,
            rounds : 0..StepRetries, state : TrialStates, proved : BOOLEAN]

TransportTypeOK ==
    /\ transport \in Document
    /\ steps \in [Step -> StepRow \cup {NoStep}]
    /\ filing \in Document \cup {NoFiling}
    /\ reported \in 0..MaxTx /\ overdue \subseteq Tx /\ cut \subseteq Tx
    /\ trial \in [Tx -> TrialStates]
    /\ replies \in [Step -> TrialStates \cup {"SILENT"}]

TransportInit ==
    /\ transport = [tx |-> 0, state |-> "IDLE", last |-> "none",
                    commands |-> [op \in Operations |-> 0]]
    /\ steps = [c \in Step |-> NoStep] /\ replies = [c \in Step |-> "SILENT"]
    /\ filing = NoFiling /\ reported = 0 /\ overdue = {} /\ cut = {}
    /\ trial = [t \in Tx |-> "NONE"]

-----------------------------------------------------------------------------
(* refreshed.                                                              *)

\* What the command of the last step says of the document's state.
FromCommand(d) ==
    IF d.last = "none" THEN d.state
    ELSE LET row == steps[d.commands[d.last]] IN
         IF row.phase = "COMPLETED" THEN row.state
         ELSE IF row.phase = "pending" THEN d.state ELSE "UNKNOWN_REQUIRES_DEVICE_STATUS"

\* The command's result, the deadline, and the Master's own report, each over the
\* one before.
RefreshedState(d) ==
    IF d.tx = 0 THEN "IDLE"
    ELSE IF d.tx = reported THEN trial[reported]
    ELSE IF FromCommand(d) = "TRIAL" /\ d.tx \in overdue THEN "EXPIRED_AWAITING_DEVICE_STATUS"
    ELSE FromCommand(d)

Refreshed == [transport EXCEPT !.state = RefreshedState(transport)]

Show ==
    /\ filing = NoFiling
    /\ transport' = Refreshed
    /\ UNCHANGED <<steps, filing, reported, overdue, trial, replies, cut>>

-----------------------------------------------------------------------------
(* action.                                                                 *)

\* Mistake: any answer to the probe will do.
AnsweredProof(d) == d.commands["probe"] # 0 /\ steps[d.commands["probe"]].phase = "COMPLETED"

Proof(d) ==
    /\ d.commands["probe"] # 0
    /\ steps[d.commands["probe"]].phase = "COMPLETED" /\ steps[d.commands["probe"]].proved

Made(c) == steps[c] # NoStep
TxMade == {steps[c].tx : c \in {d \in Step : Made(d)}}

\* create_command: the next id.
Create(op, tx) ==
    \E c \in Step :
        /\ \A d \in Step : Made(d) <=> d < c
        /\ steps' = [steps EXCEPT ![c] =
             [phase |-> "pending", tx |-> tx, op |-> op, rounds |-> 0, state |-> "NONE",
              proved |-> FALSE]]
        /\ filing' = [Refreshed EXCEPT
             !.tx = tx,
             !.state = CASE op = "prepare" -> "PREPARE_QUEUED" [] op = "apply" -> "APPLY_QUEUED"
                         [] op = "confirm" -> "CONFIRM_QUEUED" [] op = "cancel" -> "CANCEL_QUEUED"
                         [] op = "probe" -> @,
             !.last = IF op = "probe" THEN @ ELSE op,
             !.commands = [o \in Operations |-> IF o = op THEN c
                                                ELSE IF op = "prepare" THEN 0 ELSE @[o]]]

MayPrepare(d) == d.state \in {"IDLE"} \cup Ended

\* A transaction id is drawn anew.
Prepare ==
    /\ filing = NoFiling
    /\ transport' = Refreshed
    /\ MayPrepare(Refreshed)
    /\ \E t \in Tx : (\A u \in Tx : u \in TxMade <=> u < t) /\ Create("prepare", t)
    /\ UNCHANGED <<reported, overdue, trial, replies, cut>>

MayTake(op, d) ==
    /\ d.tx # 0 /\ d.commands[op] = 0
    /\ op = "apply" => d.state = "PREPARED"
    /\ op \in {"probe", "confirm"} => d.state = "TRIAL"
    /\ op = "confirm" => Proof(d)

\* A step that was taken before is not taken again; the answer is the document.
Take(op) ==
    /\ filing = NoFiling
    /\ transport' = Refreshed
    /\ MayTake(op, Refreshed) /\ Create(op, transport.tx)
    /\ UNCHANGED <<reported, overdue, trial, replies, cut>>

File ==
    /\ filing # NoFiling
    /\ transport' = filing /\ filing' = NoFiling
    /\ UNCHANGED <<steps, reported, overdue, trial, replies, cut>>

\* The process ends, or save raises: the command is there, the document is not.
FilingCut ==
    /\ filing # NoFiling /\ Cardinality(cut) < MaxCuts
    /\ cut' = cut \cup {filing.tx} /\ filing' = NoFiling
    /\ UNCHANGED <<transport, steps, reported, overdue, trial, replies>>

-----------------------------------------------------------------------------
(* The command store, see CommandPromise, and ingest.                      *)

\* A response that is in time, perhaps without its ACK, over some transport; the
\* Gateway's own name for the path is compared, not what the Master says.
Respond(c, proved) ==
    /\ steps[c].phase = "pending" /\ replies[c] # "SILENT"
    /\ proved => steps[c].op = "probe" /\ replies[c] = "TRIAL"
    /\ steps' = [steps EXCEPT ![c].phase = "COMPLETED", ![c].state = replies[c], ![c].proved = proved]
    /\ UNCHANGED <<transport, filing, reported, overdue, trial, replies, cut>>

\* A refusal of the Master, the deadline, or the operator (who leaves nothing to retry).
GiveUp(c) ==
    /\ steps[c].phase = "pending"
    /\ steps' = [steps EXCEPT ![c].phase = "FAILED"]
    /\ UNCHANGED <<transport, filing, reported, overdue, trial, replies, cut>>

\* prepare_command_retry.
RetryStep(c) ==
    /\ steps[c].phase = "FAILED" /\ steps[c].rounds < StepRetries
    /\ Cardinality({d \in Step : Made(d) /\ d # c /\ steps[d].rounds > 0}) < MaxRedone
    /\ steps' = [steps EXCEPT ![c].phase = "pending", ![c].rounds = @ + 1]
    /\ UNCHANGED <<transport, filing, reported, overdue, trial, replies, cut>>

\* A STATUS, HELLO or HEARTBEAT, of now or of earlier: latest_status is replaced.
IngestStatus(t) ==
    /\ t \in {0} \cup {u \in Tx : trial[u] \in Ended}
    /\ reported' = t
    /\ UNCHANGED <<transport, steps, filing, overdue, trial, replies, cut>>

\* Of note only while the document would show a trial.
DeadlinePasses(t) ==
    /\ t = transport.tx /\ Refreshed.state = "TRIAL" /\ overdue' = overdue \cup {t}
    /\ UNCHANGED <<transport, steps, filing, reported, trial, replies, cut>>

-----------------------------------------------------------------------------
(* The Master.                                                             *)

Open(t) == trial[t] \in {"PREPARED", "TRIAL"}

\* What a command makes of its transaction, where it does not refuse it.
Effects(op, t) ==
    CASE op = "prepare" -> IF trial[t] = "NONE" /\ \A u \in Tx : ~Open(u) THEN {"PREPARED"} ELSE {}
      [] op = "apply"   -> IF trial[t] = "PREPARED" THEN {"TRIAL"} ELSE {}
      [] op = "probe"   -> {trial[t]}
      [] op = "confirm" -> IF trial[t] = "TRIAL" THEN {"COMMITTED"} ELSE {}
      [] op = "cancel"  -> IF Open(t) THEN {"CANCELLED", "ROLLED_BACK"} ELSE {}

Answer(c, state) == replies' = [replies EXCEPT ![c] = state]

\* A command may arrive after the Gateway has given it up.  A transaction that has
\* ended answers with its end.  One the Master refuses is one it does not run.
Run(c) ==
    LET t == steps[c].tx IN
    /\ Made(c) /\ replies[c] = "SILENT"
    /\ \/ \E s \in Effects(steps[c].op, t) : trial' = [trial EXCEPT ![t] = s] /\ Answer(c, s)
       \/ /\ trial[t] \in Ended /\ steps[c].op # "probe"
          /\ Answer(c, trial[t]) /\ UNCHANGED trial
    /\ UNCHANGED <<transport, steps, filing, reported, overdue, cut>>

\* A prepared transaction expires; a trial ends at its deadline or with a reboot.
Lapse(t) ==
    /\ Open(t)
    /\ trial' = [trial EXCEPT ![t] = IF @ = "TRIAL" THEN "ROLLED_BACK" ELSE "CANCELLED"]
    /\ UNCHANGED <<transport, steps, filing, reported, overdue, replies, cut>>

TransportRequest == Show \/ Prepare \/ File \/ \E op \in Operations \ {"prepare"} : Take(op)

StepNext(c) == GiveUp(c) \/ RetryStep(c) \/ Run(c) \/ \E proved \in BOOLEAN : Respond(c, proved)

TransportNext ==
    \/ TransportRequest \/ FilingCut
    \/ \E c \in Step : StepNext(c)
    \/ \E t \in 0..MaxTx : IngestStatus(t)
    \/ \E t \in Tx : DeadlinePasses(t) \/ Lapse(t)

TransportSpec == TransportInit /\ [][TransportNext]_transportVars

-----------------------------------------------------------------------------
(* Properties.                                                             *)

ProvedProbe(c, t) ==
    Made(c) /\ steps[c].op = "probe" /\ steps[c].tx = t /\ steps[c].phase = "COMPLETED" /\ steps[c].proved

\* "Gateway checks a correlated COMPLETED PING result matching transaction and
\* requested transport before allowing confirm" (CONFIG_CONTRACT.md): whatever is
\* lost, retried, answered late or cut off by a restart, a Master stays on the new
\* transport only after a probe of that very transaction came back over it.
CommitIsProved ==
    \A t \in Tx : trial[t] = "COMMITTED" =>
        \E c \in Step : ProvedProbe(c, t)

\* "Device responses, never submission, prove state" (transport_switch.py): an end
\* the document shows is the end the Master came to.
EndIsTrue == transport.state \in Ended => trial[transport.tx] = transport.state

\* A transaction the document named before this one has ended on the Master: its
\* late commands cannot take part in this one.
EndedBefore(tx) == \A t \in TxMade \ cut : t < tx => trial[t] \in Ended
EarlierHaveEnded == EndedBefore(transport.tx)

\* "Idempotent HTTP retry; no duplicate command execution" (transport_switch.py):
\* a step has one command, unless the process ended before the document was saved.
StepsAreSingle ==
    \A c, d \in Step : Made(c) /\ Made(d) /\ steps[c].tx = steps[d].tx /\ steps[c].op = steps[d].op
                       => c = d \/ steps[c].tx \in cut

\* What the command store shows of a step, and the packet the Master has run.
StepPhase(c) ==
    IF ~Made(c) THEN "none"
    ELSE IF steps[c].phase = "pending" THEN "pending"
    ELSE IF steps[c].phase = "COMPLETED" THEN "succeeded" ELSE "unknown"

Store == INSTANCE CommandPromise WITH
    Command <- Step, MaxRetries <- StepRetries,
    phase   <- [c \in Step |-> StepPhase(c)],
    rounds  <- [c \in Step |-> IF Made(c) THEN steps[c].rounds ELSE 0],
    packets <- [c \in Step |-> IF replies[c] = "SILENT" THEN 0 ELSE 1]

\* The switch uses the command store as CommandPromise allows, and CommandLifecycle
\* keeps: what it reads of a step is settled once, or reopened by a counted retry,
\* whatever the document does meanwhile.
StepsKeptInStore == Store!Safe

\* A document names steps of its own transaction, and shows IDLE when it has none.
DocIsSound(d) ==
    /\ d.tx = 0 <=> d.state = "IDLE"
    /\ d.tx \in TxMade \cup {0}
    /\ d.last # "none" => d.commands[d.last] # 0
    /\ \A op \in Operations : LET c == d.commands[op] IN
         c # 0 => Made(c) /\ steps[c].op = op /\ steps[c].tx = d.tx

\* It names every step of its transaction, as far as no saving was cut off.
NamesAll(d) ==
    \A c \in Step : Made(c) /\ steps[c].tx = d.tx /\ d.tx \notin cut => d.commands[steps[c].op] = c

DocumentsAreSound ==
    /\ DocIsSound(transport)
    /\ filing.tx # transport.tx => NamesAll(transport)
    /\ \A t \in TxMade : t > transport.tx => t \in cut \/ t = filing.tx
    /\ filing # NoFiling =>
         /\ DocIsSound(filing) /\ filing.state \notin Ended
         /\ filing.tx \in TxMade /\ filing.tx >= transport.tx
         /\ NamesAll(filing) /\ EndedBefore(filing.tx)

\* What a reply, or a result, says of the end of its transaction is so.
RepliesAreTrue ==
    \A c \in Step :
        /\ replies[c] # "SILENT" => Made(c)
        /\ Made(c) => \A s \in {replies[c], steps[c].state} \cap Ended : trial[steps[c].tx] = s

ConfirmsAreProved ==
    \A c \in Step : Made(c) /\ steps[c].op = "confirm" => \E d \in Step : ProvedProbe(d, steps[c].tx)

TransportInv ==
    /\ TransportTypeOK /\ CommitIsProved /\ EndIsTrue /\ EarlierHaveEnded /\ StepsAreSingle
    /\ DocumentsAreSound /\ RepliesAreTrue /\ ConfirmsAreProved

=============================================================================
