------------------------- MODULE CommandLifecycle -------------------------
(***************************************************************************)
(* The Gateway's command store: backend/command_manager.py, the polling    *)
(* path of backend/device_api.py that dispatches commands, and the HTTP    *)
(* routes of backend/server.py that drive it.                              *)
(*                                                                         *)
(* One action is one committed SQLite transaction.  A handler that commits *)
(* several times holds _DEVICE_LOCK across them: `txn` is the handler that *)
(* holds the lock and the commit it performs next, so every other locked   *)
(* handler waits, an unlocked one may run in between, and a crash loses    *)
(* the rest of the handler and keeps what it has committed.                *)
(*                                                                         *)
(* Commands of enrolled devices have a command_delivery row and are driven *)
(* by authenticated device packets; the others (legacy) are driven by the  *)
(* dashboard's HTTP routes, which refuse enrolled devices.                 *)
(***************************************************************************)
EXTENDS Integers, FiniteSets

CONSTANTS
    Command,          \* command identifiers
    NoCommand,        \* not a command
    Enrolled,         \* the commands whose node is an enrolled device
    MaxRetries,       \* max_retries
    Timeout,          \* timeout_seconds, in clock ticks
    AckTimeout,       \* ack_timeout_seconds
    ResponseTimeout,  \* response_timeout_seconds
    Expiry,           \* expiry_seconds
    Capacity,         \* the limit on active commands (64 in the code)
    MaxTime,          \* bound: the clock stops here
    MaxCrashes        \* bound: Gateway crashes

ASSUME CommandAssumption ==
    /\ NoCommand \notin Command
    /\ Enrolled \subseteq Command

ASSUME PolicyAssumption ==
    /\ MaxRetries \in Nat
    /\ {Timeout, AckTimeout, ResponseTimeout, Expiry, Capacity} \subseteq Nat \ {0}

ASSUME BoundAssumption == MaxTime \in Nat /\ MaxCrashes \in Nat

Legacy == Command \ Enrolled

VARIABLES
    commands,   \* table commands, one row per identifier
    delivery,   \* table command_delivery
    now,        \* datetime.now()
    txn,        \* the handler holding _DEVICE_LOCK and its next commit
    due,        \* rows check_timeouts selected and has not handled yet
    marking,    \* mark_command_executing between its write and its transition
    offers,     \* claims that returned True and whose packet is not built yet
    sends,      \* history: command packets put on the wire
    crashes     \* history: how many, and the commands whose failure one cut off

vars == <<commands, delivery, now, txn, due, marking, offers, sends, crashes>>

---------------------------------------------------------------------------
(* Rows and the state machine.                                             *)

TerminalStates == {"COMPLETED", "FAILED", "CANCELLED", "TIMEOUT"}
CommandStates  == TerminalStates \cup
    {"QUEUED", "SENT", "WAITING_ACK", "ACK_RECEIVED", "EXECUTING", "RESPONSE_RECEIVED"}

ValidTransitions ==
    [QUEUED            |-> TerminalStates \cup {"SENT", "WAITING_ACK", "ACK_RECEIVED"},
     SENT              |-> TerminalStates \cup {"WAITING_ACK", "ACK_RECEIVED"},
     WAITING_ACK       |-> TerminalStates \cup {"ACK_RECEIVED"},
     ACK_RECEIVED      |-> TerminalStates \cup {"EXECUTING", "RESPONSE_RECEIVED"},
     EXECUTING         |-> TerminalStates \cup {"RESPONSE_RECEIVED"},
     RESPONSE_RECEIVED |-> {"COMPLETED", "FAILED"},
     TIMEOUT           |-> {"QUEUED"},
     FAILED            |-> {"QUEUED"},
     CANCELLED         |-> {},
     COMPLETED         |-> {}]

\* The reasons the code stores in the error column that properties tell apart.
Errors == {"NONE", "TIMED_OUT", "COMMAND_EXPIRED", "RESPONSE_TIMEOUT", "ACK_TIMEOUT",
           "REJECTED", "EXECUTION_FAILED", "ROUTE_FAILED", "UNSENDABLE",
           "USER_CANCELLED", "CANCELLED_BEFORE_DISPATCH"}

NoTime == -1
Time   == Nat \cup {NoTime}

CommandRow ==
    [state     : CommandStates \cup {"ABSENT"},
     retries   : 0..MaxRetries,                    \* retry_count
     sent      : BOOLEAN,                          \* sent_at is set
     ack       : {"NONE", "AFFIRMED", "REFUSED"},  \* ack_at and ack_status
     executing : BOOLEAN,                          \* executing_at is set
     responded : BOOLEAN,                          \* response_at is set
     timeoutAt : Time,
     error     : Errors]

DeliveryRow ==
    [expiresAt        : Time,                      \* NoTime: there is no row
     attempts         : 0..(1 + MaxRetries),
     lastAttempt      : Time,
     responseDeadline : Time]

TxnOps == {"MARK_SENT", "EXTEND", "ACK_FIELDS", "ACK_STATE", "NACK_STATE",
           "RESPONSE_OK", "RESPONSE_FAIL", "RETRY"}
Txn    == [op : TxnOps \cup {"FREE"}, cmd : Command \cup {NoCommand}]
Free   == [op |-> "FREE", cmd |-> NoCommand]

Absent ==
    [state |-> "ABSENT", retries |-> 0, sent |-> FALSE, ack |-> "NONE", executing |-> FALSE,
     responded |-> FALSE, timeoutAt |-> NoTime, error |-> "NONE"]

NoDelivery ==
    [expiresAt |-> NoTime, attempts |-> 0, lastAttempt |-> NoTime, responseDeadline |-> NoTime]

Min2(a, b) == IF a <= b THEN a ELSE b

Active(c) == commands[c].state \notin TerminalStates \cup {"ABSENT"}
ActiveCommands == {c \in Command : Active(c)}

---------------------------------------------------------------------------
(* update_command_state.                                                   *)

\* Mistake: the state machine is not consulted.
CanMoveUnchecked(c, s) == commands[c].state # "ABSENT" /\ s \in CommandStates

\* A same-state update is accepted from every state.
CanMove(c, s) ==
    /\ commands[c].state # "ABSENT"
    /\ s = commands[c].state \/ s \in ValidTransitions[commands[c].state]

\* The reason given, or the one on record, or the one the state suggests.
ErrorText(row, s, e) ==
    IF e # "NONE" THEN e
    ELSE IF row.error # "NONE" THEN row.error
    ELSE CASE s = "TIMEOUT" -> "TIMED_OUT"
           [] s = "FAILED"  -> "EXECUTION_FAILED"
           [] OTHER         -> "NONE"

Moved(row, s, e) ==
    [row EXCEPT !.state     = s,
                !.error     = ErrorText(row, s, e),
                !.sent      = @ \/ s = "SENT",
                !.timeoutAt = IF s = "SENT" THEN now + Timeout ELSE @]

Put(c, row) == commands' = [commands EXCEPT ![c] = row]

LockFree == txn.op = "FREE"
Holds(c, op) == txn = [op |-> op, cmd |-> c]

\* One locked call of update_command_state and nothing else.
Update(c, s, e) ==
    /\ LockFree
    /\ CanMove(c, s)
    /\ Put(c, Moved(commands[c], s, e))

\* The same inside a handler: a refused transition raises and writes nothing.
TryMove(c, s, e) ==
    commands' = IF CanMove(c, s) THEN [commands EXCEPT ![c] = Moved(@, s, e)] ELSE commands

\* Bound: a deadline computed now still falls within the modelled clock.
Soon == now + Timeout <= MaxTime

---------------------------------------------------------------------------
(* create_command.                                                         *)

\* The capacity applies to commands of enrolled devices and counts all.
HasRoom(c) == c \in Enrolled => Cardinality(ActiveCommands) < Capacity

Create(c) ==
    /\ LockFree
    /\ commands[c].state = "ABSENT"
    /\ HasRoom(c)
    /\ now + Expiry + Timeout <= MaxTime
    /\ LET expires == now + Expiry IN
       /\ Put(c, [Absent EXCEPT !.state = "QUEUED",
                                !.timeoutAt = IF c \in Enrolled THEN expires ELSE now + Timeout])
       /\ delivery' = IF c \in Enrolled THEN [delivery EXCEPT ![c].expiresAt = expires]
                                        ELSE delivery
    /\ UNCHANGED <<now, txn, due, marking, offers, sends, crashes>>

---------------------------------------------------------------------------
(* claim_device_dispatch, and pending_commands around it.                  *)

Spaced(c) ==
    \/ delivery[c].lastAttempt = NoTime
    \/ now - delivery[c].lastAttempt >= AckTimeout

Expired(c) == now >= delivery[c].expiresAt

\* Mistake: off by one.
AttemptsLeftInclusive(c) == delivery[c].attempts <= 1 + MaxRetries

AttemptsLeft(c) == delivery[c].attempts < 1 + MaxRetries

Acked(c) == commands[c].ack # "NONE"

ResponseLate(c) ==
    /\ delivery[c].responseDeadline # NoTime
    /\ now >= delivery[c].responseDeadline

AckLate(c) == now >= commands[c].timeoutAt

\* The reason for which a claim times the command out, "NONE" if it does not.
ClaimReason(c) ==
    CASE Expired(c)                                   -> "COMMAND_EXPIRED"
      [] ~Expired(c) /\ Acked(c) /\ ResponseLate(c)   -> "RESPONSE_TIMEOUT"
      [] ~Expired(c) /\ ~Acked(c) /\ AckLate(c)       -> "COMMAND_EXPIRED"
      [] /\ ~Expired(c) /\ ~Acked(c) /\ ~AckLate(c)
         /\ Spaced(c) /\ ~AttemptsLeft(c)             -> "ACK_TIMEOUT"
      [] OTHER                                        -> "NONE"

\* A claim that finds a deadline past or the attempts used up.
ClaimExpires(c) ==
    /\ c \in Enrolled /\ Active(c)
    /\ ClaimReason(c) # "NONE"
    /\ Update(c, "TIMEOUT", ClaimReason(c))
    /\ UNCHANGED <<delivery, now, txn, due, marking, offers, sends, crashes>>

CanClaim(c) ==
    /\ c \in Enrolled /\ Active(c)
    /\ ClaimReason(c) = "NONE"
    /\ ~Acked(c)
    /\ Spaced(c)

\* Mistake: the claim forgets to mark a queued command as sent.
ClaimUnmarked(c) ==
    /\ LockFree
    /\ CanClaim(c)
    /\ delivery' = [delivery EXCEPT ![c].attempts = @ + 1, ![c].lastAttempt = now]
    /\ txn' = [op |-> "EXTEND", cmd |-> c]
    /\ UNCHANGED <<commands, now, due, marking, offers, sends, crashes>>

\* The attempt is written down first: a crash after it costs an attempt.
Claim(c) ==
    /\ LockFree
    /\ CanClaim(c)
    /\ delivery' = [delivery EXCEPT ![c].attempts = @ + 1, ![c].lastAttempt = now]
    /\ txn' = [op |-> IF commands[c].state = "QUEUED" THEN "MARK_SENT" ELSE "EXTEND", cmd |-> c]
    /\ UNCHANGED <<commands, now, due, marking, offers, sends, crashes>>

ClaimMarksSent(c) ==
    /\ Holds(c, "MARK_SENT")
    /\ TryMove(c, "SENT", "NONE")
    /\ txn' = [op |-> "EXTEND", cmd |-> c]
    /\ UNCHANGED <<delivery, now, due, marking, offers, sends, crashes>>

ClaimExtends(c) ==
    /\ Holds(c, "EXTEND")
    /\ Put(c, [commands[c] EXCEPT !.timeoutAt = delivery[c].expiresAt])
    /\ offers' = [offers EXCEPT ![c] = @ + 1]
    /\ txn' = Free
    /\ UNCHANGED <<delivery, now, due, marking, sends, crashes>>

\* pending_commands reads the row again, without the lock it was claimed under,
\* and builds the packet whatever the state has become.
Offer(c) ==
    /\ offers[c] > 0
    /\ \/ /\ commands[c].state # "QUEUED"
          /\ UNCHANGED commands
       \/ Soon /\ commands[c].state = "QUEUED" /\ Update(c, "SENT", "NONE")
    /\ offers' = [offers EXCEPT ![c] = @ - 1]
    /\ sends' = [sends EXCEPT ![c] = @ + 1]
    /\ UNCHANGED <<delivery, now, txn, due, marking, crashes>>

\* ... unless the kind is unsupported or the frame too large, which depends on
\* the payload and is left open here; a refused update raises.
RefuseOffer(c) ==
    /\ offers[c] > 0
    /\ LockFree
    /\ TryMove(c, "FAILED", "UNSENDABLE")
    /\ offers' = [offers EXCEPT ![c] = @ - 1]
    /\ UNCHANGED <<delivery, now, txn, due, marking, sends, crashes>>

---------------------------------------------------------------------------
(* process_command_ack and process_command_response.  The other states     *)
(* answer "duplicate" or raise, and change nothing.                        *)

AwaitsAck(c) == commands[c].state \in {"QUEUED", "SENT", "WAITING_ACK"}

\* Mistake: the response deadline is not started.
AckBeginUntimed(c) ==
    /\ LockFree
    /\ AwaitsAck(c)
    /\ txn' = [op |-> "ACK_FIELDS", cmd |-> c]
    /\ UNCHANGED <<commands, delivery, now, due, marking, offers, sends, crashes>>

\* First commit of an affirmative ACK: the response deadline, once.
AckBegin(c) ==
    /\ LockFree
    /\ AwaitsAck(c)
    /\ IF c \in Enrolled /\ delivery[c].responseDeadline = NoTime
       THEN LET deadline == now + ResponseTimeout IN
            /\ delivery' = [delivery EXCEPT ![c].responseDeadline = deadline]
            /\ Put(c, [commands[c] EXCEPT !.timeoutAt = Min2(delivery[c].expiresAt, deadline)])
       ELSE UNCHANGED <<delivery, commands>>
    /\ txn' = [op |-> "ACK_FIELDS", cmd |-> c]
    /\ UNCHANGED <<now, due, marking, offers, sends, crashes>>

AckFields(c) ==
    /\ Holds(c, "ACK_FIELDS")
    /\ Put(c, [commands[c] EXCEPT !.ack = "AFFIRMED"])
    /\ txn' = [op |-> "ACK_STATE", cmd |-> c]
    /\ UNCHANGED <<delivery, now, due, marking, offers, sends, crashes>>

AckMoves(c) ==
    /\ Holds(c, "ACK_STATE")
    /\ TryMove(c, "ACK_RECEIVED", "NONE")
    /\ txn' = Free
    /\ UNCHANGED <<delivery, now, due, marking, offers, sends, crashes>>

\* REJECTED, BUSY, NACK, ERROR and FAILED store the ACK fields, then fail.
NackBegin(c) ==
    /\ LockFree
    /\ AwaitsAck(c)
    /\ Put(c, [commands[c] EXCEPT !.ack = "REFUSED"])
    /\ txn' = [op |-> "NACK_STATE", cmd |-> c]
    /\ UNCHANGED <<delivery, now, due, marking, offers, sends, crashes>>

\* Mistake: BUSY is recorded and the command left to run.
NackForgotten(c) ==
    /\ Holds(c, "NACK_STATE")
    /\ txn' = Free
    /\ UNCHANGED <<commands, delivery, now, due, marking, offers, sends, crashes>>

NackMoves(c) ==
    /\ Holds(c, "NACK_STATE")
    /\ TryMove(c, "FAILED", "REJECTED")
    /\ txn' = Free
    /\ UNCHANGED <<delivery, now, due, marking, offers, sends, crashes>>

ResponseBegin(c, ok) ==
    /\ LockFree
    /\ Active(c)
    /\ Put(c, [commands[c] EXCEPT !.responded = TRUE])
    /\ txn' = [op |-> IF ok THEN "RESPONSE_OK" ELSE "RESPONSE_FAIL", cmd |-> c]
    /\ UNCHANGED <<delivery, now, due, marking, offers, sends, crashes>>

ResponseMoves(c) ==
    /\ \/ /\ Holds(c, "RESPONSE_OK")
          /\ TryMove(c, "COMPLETED", "NONE")
       \/ /\ Holds(c, "RESPONSE_FAIL")
          /\ TryMove(c, "FAILED", "EXECUTION_FAILED")
    /\ txn' = Free
    /\ UNCHANGED <<delivery, now, due, marking, offers, sends, crashes>>

\* ingest of the Master's COMMAND_ROUTE_FAILED event.
RouteFailed(c) ==
    /\ c \in Enrolled /\ Active(c)
    /\ Update(c, "FAILED", "ROUTE_FAILED")
    /\ UNCHANGED <<delivery, now, txn, due, marking, offers, sends, crashes>>

---------------------------------------------------------------------------
(* Cancellation, timeouts, retry.                                          *)

\* POST /api/commands/<id>/cancel, for any command.
Cancel(c) ==
    /\ Update(c, "CANCELLED", "USER_CANCELLED")
    /\ UNCHANGED <<delivery, now, txn, due, marking, offers, sends, crashes>>

\* POST .../cancel-queued: a row that is QUEUED and has no sent_at.
CancelQueued(c) ==
    /\ commands[c].state = "QUEUED" /\ ~commands[c].sent
    /\ Update(c, "CANCELLED", "CANCELLED_BEFORE_DISPATCH")
    /\ UNCHANGED <<delivery, now, txn, due, marking, offers, sends, crashes>>

\* Mistake: acknowledged commands are not swept.
SweepStatesUnacked == {"QUEUED", "SENT", "WAITING_ACK"}

\* check_timeouts selects the rows without the lock ...
SweepStates == {"QUEUED", "SENT", "WAITING_ACK", "ACK_RECEIVED", "EXECUTING"}

Overdue(c) ==
    /\ commands[c].state \in SweepStates
    /\ commands[c].timeoutAt # NoTime
    /\ commands[c].timeoutAt <= now

SweepSelect ==
    /\ due = {}
    /\ due' = {c \in Command : Overdue(c)}
    /\ due' # {}
    /\ UNCHANGED <<commands, delivery, now, txn, marking, offers, sends, crashes>>

\* ... and handle_command_timeout takes it for each, looking at the state only.
SweepHandle(c) ==
    /\ LockFree
    /\ c \in due
    /\ due' = due \ {c}
    /\ IF Active(c) THEN TryMove(c, "TIMEOUT", "TIMED_OUT") ELSE UNCHANGED commands
    /\ UNCHANGED <<delivery, now, txn, marking, offers, sends, crashes>>

CanRetry(c) ==
    /\ commands[c].state \in {"TIMEOUT", "FAILED"}
    /\ commands[c].retries < MaxRetries
    /\ c \in Enrolled => ~Expired(c)

\* Mistake: a retry gives the attempts back.
RetryBeginRefunds(c) ==
    /\ LockFree
    /\ CanRetry(c)
    /\ Soon
    /\ delivery' = [delivery EXCEPT ![c].attempts = 0, ![c].lastAttempt = NoTime,
                                   ![c].responseDeadline = NoTime]
    /\ txn' = [op |-> "RETRY", cmd |-> c]
    /\ UNCHANGED <<commands, now, due, marking, offers, sends, crashes>>

\* prepare_command_retry: the delivery row first, in a transaction of its own.
RetryBegin(c) ==
    /\ LockFree
    /\ CanRetry(c)
    /\ Soon
    /\ delivery' = IF c \in Enrolled
                   THEN [delivery EXCEPT ![c].lastAttempt = NoTime, ![c].responseDeadline = NoTime]
                   ELSE delivery
    /\ txn' = [op |-> "RETRY", cmd |-> c]
    /\ UNCHANGED <<commands, now, due, marking, offers, sends, crashes>>

\* Mistake: the retry is not counted.
RetryUncounted(c) ==
    /\ Holds(c, "RETRY")
    /\ Put(c, [Absent EXCEPT !.state = "QUEUED",
                             !.retries = commands[c].retries,
                             !.timeoutAt = now + Timeout])
    /\ txn' = Free
    /\ UNCHANGED <<delivery, now, due, marking, offers, sends, crashes>>

\* Mistake: the error of the previous round is kept.
RetryKeepsError(c) ==
    /\ Holds(c, "RETRY")
    /\ Put(c, [Absent EXCEPT !.state = "QUEUED",
                             !.retries = commands[c].retries + 1,
                             !.timeoutAt = now + Timeout,
                             !.error = commands[c].error])
    /\ txn' = Free
    /\ UNCHANGED <<delivery, now, due, marking, offers, sends, crashes>>

\* ... then the row, whatever state it is in, with a deadline from now.
RetryResets(c) ==
    /\ Holds(c, "RETRY")
    /\ Put(c, [Absent EXCEPT !.state = "QUEUED",
                             !.retries = commands[c].retries + 1,
                             !.timeoutAt = now + Timeout])
    /\ txn' = Free
    /\ UNCHANGED <<delivery, now, due, marking, offers, sends, crashes>>

---------------------------------------------------------------------------
(* The dashboard routes that refuse enrolled devices.                      *)

SetState(c, s) ==
    /\ c \in Legacy
    /\ s = "SENT" => Soon
    /\ Update(c, s, "NONE")
    /\ UNCHANGED <<delivery, now, txn, due, marking, offers, sends, crashes>>

TimeoutNow(c) ==
    /\ c \in Legacy /\ Active(c)
    /\ Update(c, "TIMEOUT", "TIMED_OUT")
    /\ UNCHANGED <<delivery, now, txn, due, marking, offers, sends, crashes>>

\* mark_command_executing writes executing_at without the lock ...
ExecuteBegin(c) ==
    /\ c \in Legacy \ marking
    /\ commands[c].state \notin {"ABSENT", "EXECUTING"}
    /\ Put(c, [commands[c] EXCEPT !.executing = TRUE])
    /\ marking' = marking \cup {c}
    /\ UNCHANGED <<delivery, now, txn, due, offers, sends, crashes>>

\* ... and only then asks whether the transition is allowed.
ExecuteMoves(c) ==
    /\ LockFree
    /\ c \in marking
    /\ TryMove(c, "EXECUTING", "NONE")
    /\ marking' = marking \ {c}
    /\ UNCHANGED <<delivery, now, txn, due, offers, sends, crashes>>

---------------------------------------------------------------------------
(* Time and crashes.                                                       *)

\* A handler's commits follow one another within one tick.
Tick ==
    /\ now < MaxTime
    /\ LockFree
    /\ now' = now + 1
    /\ UNCHANGED <<commands, delivery, txn, due, marking, offers, sends, crashes>>

\* The process restarts: the tables survive, everything in memory is gone.  A
\* command whose refusal was committed and whose failure was not is cut off.
Crash ==
    /\ crashes.count < MaxCrashes
    /\ crashes' = [count |-> crashes.count + 1,
                   cut   |-> crashes.cut \cup {c \in Command : Holds(c, "NACK_STATE")}]
    /\ txn' = Free
    /\ due' = {}
    /\ marking' = {}
    /\ offers' = [c \in Command |-> 0]
    /\ UNCHANGED <<commands, delivery, now, sends>>

---------------------------------------------------------------------------
Init ==
    /\ commands = [c \in Command |-> Absent]
    /\ delivery = [c \in Command |-> NoDelivery]
    /\ now = 0
    /\ txn = Free
    /\ due = {}
    /\ marking = {}
    /\ offers = [c \in Command |-> 0]
    /\ sends = [c \in Command |-> 0]
    /\ crashes = [count |-> 0, cut |-> {}]

\* What the handler that holds the lock still has to do.
Continue(c) ==
    \/ ClaimMarksSent(c) \/ ClaimExtends(c)
    \/ AckFields(c) \/ AckMoves(c) \/ NackMoves(c)
    \/ ResponseMoves(c)
    \/ RetryResets(c)

\* The Gateway's own threads: command polling and the deadline sweep.
Dispatch(c) == ClaimExpires(c) \/ Claim(c) \/ Offer(c) \/ RefuseOffer(c)

\* What devices report.
Report(c) ==
    \/ AckBegin(c) \/ NackBegin(c)
    \/ \E ok \in BOOLEAN : ResponseBegin(c, ok)
    \/ RouteFailed(c)

\* What an operator asks.
Operate(c) ==
    \/ Create(c) \/ Cancel(c) \/ CancelQueued(c) \/ RetryBegin(c)
    \/ TimeoutNow(c) \/ ExecuteBegin(c) \/ ExecuteMoves(c)
    \/ \E s \in CommandStates : SetState(c, s)

Next ==
    \/ \E c \in Command :
          Continue(c) \/ Dispatch(c) \/ Report(c) \/ Operate(c) \/ SweepHandle(c)
    \/ SweepSelect
    \/ Tick
    \/ Crash

Spec == Init /\ [][Next]_vars

\* server_time_heartbeat sweeps every second for as long as the Gateway runs, a
\* handler that holds the lock finishes, and time passes.  Devices, their polls
\* and operators owe nothing.
Fairness ==
    /\ WF_vars(Tick)
    /\ WF_vars(SweepSelect)
    /\ \A c \in Command : WF_vars(Continue(c)) /\ WF_vars(SweepHandle(c))

FairSpec == Spec /\ Fairness

---------------------------------------------------------------------------
(* Properties.                                                             *)

\* Every table and every variable of the process holds what its schema says.
TypeOK ==
    /\ commands \in [Command -> CommandRow]
    /\ delivery \in [Command -> DeliveryRow]
    /\ now      \in Nat
    /\ txn      \in Txn
    /\ due      \in SUBSET Command
    /\ marking  \in SUBSET Command
    /\ offers   \in [Command -> Nat]
    /\ sends    \in [Command -> Nat]
    /\ crashes  \in [count : Nat, cut : SUBSET Command]

\* Over the whole life of a command, explicit retries, crashes and redispatches
\* included, no more than 1 + max_retries packets reach the wire: attempts are
\* persisted before the packet exists (claim_device_dispatch) and a retry does
\* not give them back.
WireBudget == \A c \in Enrolled : sends[c] + offers[c] <= 1 + MaxRetries

\* Once the device has accepted a command that is still active, a response
\* deadline is on disk: an accepted command is never claimed again, so without
\* the deadline nothing but the total expiry would end it.  A crash between the
\* commits of process_command_ack or of prepare_command_retry keeps this.
AcceptedHasDeadline ==
    \A c \in Enrolled :
        Active(c) /\ commands[c].ack = "AFFIRMED" => delivery[c].responseDeadline # NoTime

\* Outcomes of enrolled devices are final: a late ACK or RESPONSE, a sweep, a
\* claim or a cancellation working on an older reading never rewrites TIMEOUT or
\* CANCELLED into success; FAILED and TIMEOUT are reopened only by an explicit
\* retry that is counted.
OutcomeIsFinal ==
    [][\A c \in Enrolled :
          commands[c].state \in TerminalStates =>
              \/ commands'[c].state = commands[c].state
              \/ /\ commands[c].state \in {"TIMEOUT", "FAILED"}
                 /\ commands'[c].state = "QUEUED"
                 /\ commands'[c].retries = commands[c].retries + 1]_vars

\* COMPLETED and CANCELLED are for ever, for legacy commands too, although
\* mark_command_executing acts on a state it read before taking the lock.
DoneIsForever ==
    [][\A c \in Command :
          commands[c].state \in {"COMPLETED", "CANCELLED"} =>
              commands'[c].state = commands[c].state]_vars

\* A command of the first round that the Gateway reports as cancelled before
\* dispatch has put no packet on the wire and has none waiting to leave.
FirstRoundCancelIsHonest ==
    \A c \in Enrolled :
        /\ commands[c].error = "CANCELLED_BEFORE_DISPATCH"
        /\ commands[c].retries = 0
        => sends[c] + offers[c] = 0

\* The error text of a timeout tells the truth about the device: ACK_TIMEOUT is
\* stored only after every attempt was spent with no ACK on record,
\* RESPONSE_TIMEOUT only after an ACK.
TimeoutReasonIsHonest ==
    \A c \in Enrolled :
        /\ commands[c].error = "ACK_TIMEOUT" => ~Acked(c) /\ ~AttemptsLeft(c)
        /\ commands[c].error = "RESPONSE_TIMEOUT" => Acked(c)

\* COMMAND_PROTOCOL.md: "Rejected/BUSY ACK cannot become success."  A command whose
\* recorded ACK is a refusal is never reported as a success, over polls, late
\* responses, retries and crashes: the refusal and the failure are two commits, and
\* the lock keeps a response out between them.  The exception is the one the code
\* leaves open: a crash between the two commits of that very command.
RefusalsAreFinal ==
    \A c \in Enrolled :
        commands[c].state = "COMPLETED" /\ commands[c].ack = "REFUSED" => c \in crashes.cut

\* Every active command of an enrolled device reaches an outcome, even if its
\* device never polls and never answers and the Gateway crashes on the way.
EventuallySettles == \A c \in Enrolled : Active(c) ~> ~Active(c)

\* The store implements the abstract promise.
PhaseOf(c) ==
    CASE commands[c].state = "ABSENT"    -> "none"
      [] commands[c].state = "COMPLETED" -> "succeeded"
      [] commands[c].state = "FAILED"    -> "failed"
      [] commands[c].state = "TIMEOUT"   -> "unknown"
      [] commands[c].state = "CANCELLED" -> "cancelled"
      [] OTHER                           -> "pending"

Promise == INSTANCE CommandPromise WITH
    Command <- Enrolled,
    phase   <- [c \in Enrolled |-> PhaseOf(c)],
    rounds  <- [c \in Enrolled |-> commands[c].retries],
    packets <- [c \in Enrolled |-> sends[c]]

\* For the requester of an enrolled device's command the store behaves as
\* CommandPromise says, liveness included.
KeepsPromise == Promise!Spec

---------------------------------------------------------------------------
(* The inductive invariant behind the properties above: what each handler  *)
(* relies on between two of its commits, and what the columns of an        *)
(* enrolled device's row say about each other.                             *)

\* An attempt that is claimed and whose packet is neither waiting nor sent.
InClaim(c) == Holds(c, "MARK_SENT") \/ Holds(c, "EXTEND")

\* A retry in progress started from a row that could be retried.
RetryInProgress ==
    \A c \in Command :
        Holds(c, "RETRY") => /\ commands[c].state \in {"TIMEOUT", "FAILED"}
                             /\ commands[c].retries < MaxRetries

\* A claim is of an enrolled device's command, and marks a queued one.
ClaimInProgress ==
    \A c \in Command :
        /\ InClaim(c) \/ offers[c] > 0 => c \in Enrolled
        /\ Holds(c, "MARK_SENT") => commands[c].state = "QUEUED"

\* An ACK in progress has its response deadline on disk.
AckInProgress ==
    \A c \in Enrolled :
        Holds(c, "ACK_FIELDS") \/ Holds(c, "ACK_STATE") =>
            delivery[c].responseDeadline # NoTime

\* The persisted attempts cover every packet: sent, waiting, or being claimed.
AttemptsCover ==
    \A c \in Enrolled :
        /\ sends[c] + offers[c] <= delivery[c].attempts
        /\ InClaim(c) => sends[c] + offers[c] < delivery[c].attempts

\* Without sent_at, a row of the first round has never been claimed to the end.
UnsentIsUnclaimed ==
    \A c \in Enrolled :
        ~commands[c].sent /\ commands[c].retries = 0 =>
            sends[c] + offers[c] = 0 /\ ~Holds(c, "EXTEND")

\* The states an enrolled device's command can be in, and what they imply.
EnrolledStates ==
    \A c \in Enrolled :
        /\ commands[c].state \in TerminalStates \cup {"ABSENT", "QUEUED", "SENT", "ACK_RECEIVED"}
        /\ commands[c].state = "SENT" => commands[c].sent
        /\ commands[c].state = "ACK_RECEIVED" \/ Holds(c, "ACK_STATE") => Acked(c)

\* A row cancelled before dispatch stays so, with nothing in flight.
CancelledQueuedStays ==
    \A c \in Enrolled :
        commands[c].error = "CANCELLED_BEFORE_DISPATCH" =>
            commands[c].state = "CANCELLED" /\ ~InClaim(c)

\* What has not been submitted has no packets and is in no handler's hands.
AbsentIsUntouched ==
    \A c \in Command :
        commands[c].state = "ABSENT" =>
            /\ txn.cmd # c /\ sends[c] = 0 /\ offers[c] = 0
            /\ commands[c].retries = 0

\* Only rows of legacy devices are marked executing.
MarkingIsLegacy == marking \cap Enrolled = {}

\* The store's part of the invariant.
StoreInv ==
    /\ TypeOK
    /\ RetryInProgress /\ ClaimInProgress /\ AckInProgress
    /\ AttemptsCover /\ UnsentIsUnclaimed
    /\ EnrolledStates /\ CancelledQueuedStays /\ AbsentIsUntouched
    /\ MarkingIsLegacy
    /\ AcceptedHasDeadline /\ FirstRoundCancelIsHonest

\* An ACK is being recorded only for a command that still waits for one.
AckIsAwaited == \A c \in Enrolled : Holds(c, "ACK_FIELDS") => AwaitsAck(c)

\* The two reasons that only a claim gives stay with the timeout they explain.
ClaimReasonStays ==
    \A c \in Enrolled :
        commands[c].error \in {"ACK_TIMEOUT", "RESPONSE_TIMEOUT"} => commands[c].state = "TIMEOUT"

\* A refused command has failed, or its handler is about to fail it, or was when
\* the process ended.
RefusedFails ==
    \A c \in Enrolled : commands[c].ack = "REFUSED" =>
        \/ commands[c].state = "FAILED"
        \/ Holds(c, "NACK_STATE") /\ AwaitsAck(c)
        \/ c \in crashes.cut

\* The sweep reaches every active command of an enrolled device: its state is one
\* that check_timeouts selects, and its deadline is set, no further away than the
\* policy allows, whatever was claimed, acknowledged or retried in between.
ActiveIsSwept ==
    \A c \in Enrolled :
        /\ commands[c].state # "ABSENT" => delivery[c].expiresAt # NoTime
        /\ delivery[c].expiresAt <= now + Expiry
        /\ Active(c) =>
             /\ commands[c].state \in SweepStates /\ commands[c].timeoutAt # NoTime
             /\ commands[c].timeoutAt <= now + Expiry \/ commands[c].timeoutAt <= now + Timeout

\* The conjunction is preserved by every action.
IndInv ==
    /\ StoreInv
    /\ AckIsAwaited /\ ClaimReasonStays /\ RefusedFails /\ ActiveIsSwept
    /\ TimeoutReasonIsHonest

=============================================================================
