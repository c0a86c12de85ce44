---------------------- MODULE CommandLifecycleProofs ----------------------
(***************************************************************************)
(* StoreInv is an invariant of Spec, and with it the type invariant, the     *)
(* safety properties of CommandLifecycle and the safety half of the        *)
(* refinement of CommandPromise.  First the types, then one lemma per      *)
(* action that StoreInv is kept, then the theorems.                          *)
(***************************************************************************)
EXTENDS CommandLifecycle, TLAPS

\* The policy constants are numbers.
LEMMA PolicyTypes ==
    /\ MaxRetries \in Nat
    /\ Timeout \in Nat /\ AckTimeout \in Nat /\ ResponseTimeout \in Nat /\ Expiry \in Nat
BY PolicyAssumption

\* A row that update_command_state writes is a row.
LEMMA MovedType ==
    ASSUME now \in Nat, NEW row \in CommandRow, NEW s \in CommandStates, NEW e \in Errors
    PROVE  Moved(row, s, e) \in CommandRow
<1>1. ErrorText(row, s, e) \in Errors
  BY DEF ErrorText, CommandRow, Errors
<1>2. now + Timeout \in Time
  BY PolicyTypes DEF Time
<1>3. QED
  BY <1>1, <1>2 DEF Moved, CommandRow

\* So is the row of a command that does not exist.
LEMMA AbsentType == Absent \in CommandRow
BY PolicyTypes DEF Absent, CommandRow, Time, NoTime, Errors, CommandStates

\* The ways of writing a row keep the table well typed.
LEMMA PutType ==
    ASSUME TypeOK, NEW c \in Command, NEW row \in CommandRow, Put(c, row)
    PROVE  commands' \in [Command -> CommandRow]
BY DEF TypeOK, Put

LEMMA UpdateType ==
    ASSUME TypeOK, NEW c \in Command, NEW s \in CommandStates, NEW e \in Errors, Update(c, s, e)
    PROVE  commands' \in [Command -> CommandRow]
BY MovedType, PutType DEF TypeOK, Update

LEMMA TryMoveType ==
    ASSUME TypeOK, NEW c \in Command, NEW s \in CommandStates, NEW e \in Errors, TryMove(c, s, e)
    PROVE  commands' \in [Command -> CommandRow]
BY MovedType DEF TypeOK, TryMove

\* A fresh Gateway satisfies the invariant.
LEMMA InitKeeps == Init => StoreInv
<1>1. Init => TypeOK
  BY AbsentType, PolicyTypes
     DEF Init, TypeOK, NoDelivery, DeliveryRow, Time, NoTime, Txn, Free
<1>2. QED
  BY <1>1, CommandAssumption
     DEF Init, StoreInv, RetryInProgress, ClaimInProgress, AckInProgress, AttemptsCover,
         UnsentIsUnclaimed, EnrolledStates, CancelledQueuedStays, AbsentIsUntouched, MarkingIsLegacy,
         AcceptedHasDeadline, FirstRoundCancelIsHonest, InClaim, Holds, Active, Acked,
         Absent, NoDelivery, Free, NoTime


---------------------------------------------------------------------------
(* What a transition does to a row.                                        *)

\* Field by field, and that the other rows are left alone.
LEMMA MoveFacts ==
    ASSUME TypeOK, NEW c \in Command, NEW s \in CommandStates, NEW e \in Errors, TryMove(c, s, e)
    PROVE  /\ \A d \in Command \ {c} : commands'[d] = commands[d]
           /\ commands'[c].retries = commands[c].retries
           /\ commands'[c].ack = commands[c].ack
           /\ commands[c].sent => commands'[c].sent
           /\ CanMove(c, s) => /\ commands'[c].state = s
                               /\ commands'[c].error = ErrorText(commands[c], s, e)
                               /\ s = "SENT" => commands'[c].sent
           /\ ~CanMove(c, s) => commands'[c] = commands[c]
BY DEF TypeOK, TryMove, Moved, CommandRow

\* Where a text comes from.
LEMMA ErrorFacts ==
    ASSUME NEW row \in CommandRow, NEW s \in CommandStates, NEW e \in Errors,
           ErrorText(row, s, e) = "CANCELLED_BEFORE_DISPATCH"
    PROVE  e = "CANCELLED_BEFORE_DISPATCH" \/ row.error = "CANCELLED_BEFORE_DISPATCH"
BY DEF ErrorText

\* An update is a move that is allowed.
LEMMA UpdateMoves ==
    ASSUME NEW c \in Command, NEW s, NEW e, Update(c, s, e)
    PROVE  TryMove(c, s, e) /\ LockFree
BY DEF Update, TryMove, Put

\* A transaction record.
LEMMA TxnType ==
    ASSUME NEW c \in Command, NEW op \in TxnOps
    PROVE  [op |-> op, cmd |-> c] \in Txn
BY DEF Txn

LEMMA FreeType == Free \in Txn
BY DEF Free, Txn

---------------------------------------------------------------------------
(* One step that moves a row and settles no other account: the update      *)
(* itself, or the last commit of a handler.                                *)

\* Every such step of the module keeps the invariant.
LEMMA MoveKeeps ==
    ASSUME StoreInv, TypeOK',
           NEW c \in Command, NEW s \in CommandStates, NEW e \in Errors,
           TryMove(c, s, e),
           txn'.op = "FREE" /\ txn'.cmd \in {txn.cmd, NoCommand},
           txn.op = "FREE" \/ txn.cmd = c,
           UNCHANGED <<delivery, sends>>,
           marking' \subseteq marking,
           \A d \in Command : offers'[d] <= offers[d],
           c \in Enrolled => s \in TerminalStates \/ (s = "ACK_RECEIVED" /\ Acked(c)),
           e = "CANCELLED_BEFORE_DISPATCH" =>
               s = "CANCELLED" /\ (c \in Enrolled => ~commands[c].sent)
    PROVE  StoreInv'
<1> USE CommandAssumption DEF StoreInv
<1>1. /\ \A d \in Command \ {c} : commands'[d] = commands[d]
      /\ commands'[c].retries = commands[c].retries
      /\ commands'[c].ack = commands[c].ack
      /\ commands[c].sent => commands'[c].sent
      /\ CanMove(c, s) => /\ commands'[c].state = s
                          /\ commands'[c].error = ErrorText(commands[c], s, e)
                          /\ s = "SENT" => commands'[c].sent
      /\ ~CanMove(c, s) => commands'[c] = commands[c]
  BY MoveFacts
<1>2. CanMove(c, s) => commands[c].state # "ABSENT"
  BY DEF CanMove
<1>3. \A d \in Command, op \in TxnOps : ~Holds(d, op)'
  BY DEF Holds, TxnOps
<1>4. \A d \in Command : ~InClaim(d)'
  BY <1>3 DEF InClaim, TxnOps
<1>5. RetryInProgress'
  BY <1>3 DEF RetryInProgress, TxnOps
<1>6. ClaimInProgress'
  BY <1>3, <1>4 DEF ClaimInProgress, TxnOps, TypeOK
<1>7. AckInProgress'
  BY <1>3 DEF AckInProgress, TxnOps
<1>8. \A d \in Command : sends'[d] + offers'[d] <= sends[d] + offers[d]
  BY DEF TypeOK
<1>9. \A d \in Command : sends'[d] + offers'[d] \in Nat /\ sends[d] + offers[d] \in Nat
  BY DEF TypeOK
<1>10. AttemptsCover'
  <2>1. \A d \in Enrolled : delivery[d].attempts \in Nat
    BY PolicyTypes DEF TypeOK, DeliveryRow
  <2>2. QED
    BY <1>4, <1>8, <1>9, <2>1 DEF AttemptsCover
<1>11. UnsentIsUnclaimed'
  <2>1. \A d \in Enrolled : ~commands'[d].sent => ~commands[d].sent
    BY <1>1
  <2>2. \A d \in Command : commands'[d].retries = commands[d].retries
    BY <1>1
  <2>3. QED
    BY <1>3, <1>8, <1>9, <2>1, <2>2 DEF UnsentIsUnclaimed, TxnOps
<1>12. EnrolledStates'
  <2>1. \A d \in Command : ~Holds(d, "ACK_STATE")'
    BY <1>3 DEF TxnOps
  <2>2. CASE CanMove(c, s)
    BY <1>1, <2>1, <2>2 DEF EnrolledStates, Acked, TerminalStates
  <2>3. CASE ~CanMove(c, s)
    BY <1>1, <2>1, <2>3 DEF EnrolledStates, Acked
  <2>4. QED
    BY <2>2, <2>3
<1>13. CancelledQueuedStays'
  <2>1. SUFFICES ASSUME NEW d \in Enrolled, commands'[d].error = "CANCELLED_BEFORE_DISPATCH"
                 PROVE  commands'[d].state = "CANCELLED"
    BY <1>4 DEF CancelledQueuedStays
  <2>2. CASE d = c /\ CanMove(c, s)
    <3>1. ErrorText(commands[c], s, e) = "CANCELLED_BEFORE_DISPATCH" /\ commands'[c].state = s
      BY <1>1, <2>1, <2>2
    <3>2. CASE e = "CANCELLED_BEFORE_DISPATCH"
      BY <2>2, <3>1, <3>2
    <3>3. CASE commands[c].error = "CANCELLED_BEFORE_DISPATCH"
      <4>1. commands[c].state = "CANCELLED"
        BY <2>2, <3>3 DEF CancelledQueuedStays
      <4>2. QED
        BY <2>2, <3>1, <4>1 DEF CanMove, ValidTransitions
    <3>4. QED
      BY <3>1, <3>2, <3>3, ErrorFacts DEF TypeOK
  <2>3. CASE ~(d = c /\ CanMove(c, s))
    BY <1>1, <2>1, <2>3 DEF CancelledQueuedStays
  <2>4. QED
    BY <2>2, <2>3
<1>14. AbsentIsUntouched'
  <2>1. \A d \in Command : commands'[d].state = "ABSENT" => commands[d].state = "ABSENT"
    BY <1>1 DEF CommandStates, TerminalStates
  <2>2. SUFFICES ASSUME NEW d \in Command, commands'[d].state = "ABSENT"
                 PROVE  /\ txn'.cmd # d /\ sends'[d] = 0 /\ offers'[d] = 0
                        /\ commands'[d].retries = 0
    BY DEF AbsentIsUntouched
  <2>3. txn.cmd # d /\ sends[d] = 0 /\ offers[d] = 0 /\ commands[d].retries = 0
    BY <2>1, <2>2 DEF AbsentIsUntouched
  <2>4. QED
    BY <1>1, <2>3 DEF TypeOK
<1>15. AcceptedHasDeadline'
  <2>1. SUFFICES ASSUME NEW d \in Enrolled, Active(d)', commands'[d].ack = "AFFIRMED"
                 PROVE  delivery[d].responseDeadline # NoTime
    BY DEF AcceptedHasDeadline
  <2>2. Active(d)
    <3>1. CASE d = c /\ CanMove(c, s)
      BY <1>1, <2>1, <3>1 DEF Active, CanMove, ValidTransitions, TerminalStates, TypeOK, CommandRow,
         CommandStates
    <3>2. CASE ~(d = c /\ CanMove(c, s))
      BY <1>1, <2>1, <3>2 DEF Active
    <3>3. QED
      BY <3>1, <3>2
  <2>3. QED
    BY <1>1, <2>1, <2>2 DEF AcceptedHasDeadline
<1>16. FirstRoundCancelIsHonest'
  <2>1. SUFFICES ASSUME NEW d \in Enrolled, commands'[d].error = "CANCELLED_BEFORE_DISPATCH",
                        commands'[d].retries = 0
                 PROVE  sends'[d] + offers'[d] = 0
    BY DEF FirstRoundCancelIsHonest
  <2>2. sends[d] + offers[d] = 0
    <3>1. commands[d].retries = 0
      BY <1>1, <2>1
    <3>2. CASE commands[d].error = "CANCELLED_BEFORE_DISPATCH"
      BY <3>1, <3>2 DEF FirstRoundCancelIsHonest
    <3>3. CASE commands[d].error # "CANCELLED_BEFORE_DISPATCH"
      <4>1. d = c /\ ErrorText(commands[c], s, e) = "CANCELLED_BEFORE_DISPATCH"
        BY <1>1, <2>1, <3>3
      <4>2. ~commands[c].sent
        BY <3>3, <4>1, ErrorFacts DEF TypeOK
      <4>3. QED
        BY <3>1, <4>1, <4>2 DEF UnsentIsUnclaimed
    <3>4. QED
      BY <3>2, <3>3
  <2>3. QED
    BY <1>8, <1>9, <2>2
<1>17. MarkingIsLegacy'
  BY DEF MarkingIsLegacy
<1>18. QED
  BY <1>5, <1>6, <1>7, <1>10, <1>11, <1>12, <1>13, <1>14, <1>15, <1>16, <1>17

\* The reason of a claim is an error text.
LEMMA ReasonType == ASSUME NEW c \in Command PROVE ClaimReason(c) \in Errors \ {"CANCELLED_BEFORE_DISPATCH"}
BY DEF ClaimReason, Errors

LEMMA ClaimExpiresKeeps ==
    ASSUME StoreInv, NEW c \in Command, ClaimExpires(c) PROVE StoreInv'
<1>1. Update(c, "TIMEOUT", ClaimReason(c))
  BY DEF ClaimExpires
<1>2. "TIMEOUT" \in CommandStates /\ "TIMEOUT" \in TerminalStates
  BY DEF CommandStates, TerminalStates
<1>3. TypeOK'
  BY <1>1, <1>2, ReasonType, UpdateType DEF ClaimExpires, StoreInv, TypeOK
<1>4. TryMove(c, "TIMEOUT", ClaimReason(c)) /\ LockFree
  BY <1>1, UpdateMoves
<1>5. \A d \in Command : offers'[d] <= offers[d]
  BY DEF ClaimExpires, StoreInv, TypeOK
<1>6. QED
  BY <1>2, <1>3, <1>4, <1>5, ReasonType, MoveKeeps DEF ClaimExpires, LockFree

LEMMA RouteFailedKeeps ==
    ASSUME StoreInv, NEW c \in Command, RouteFailed(c) PROVE StoreInv'
<1>1. Update(c, "FAILED", "ROUTE_FAILED")
  BY DEF RouteFailed
<1>2. "FAILED" \in CommandStates /\ "FAILED" \in TerminalStates /\ "ROUTE_FAILED" \in Errors
  BY DEF CommandStates, TerminalStates, Errors
<1>3. TypeOK'
  BY <1>1, <1>2, UpdateType DEF RouteFailed, StoreInv, TypeOK
<1>4. TryMove(c, "FAILED", "ROUTE_FAILED") /\ LockFree
  BY <1>1, UpdateMoves
<1>5. \A d \in Command : offers'[d] <= offers[d]
  BY DEF RouteFailed, StoreInv, TypeOK
<1>6. QED
  BY <1>2, <1>3, <1>4, <1>5, MoveKeeps DEF RouteFailed, LockFree

LEMMA CancelKeeps ==
    ASSUME StoreInv, NEW c \in Command, Cancel(c) PROVE StoreInv'
<1>1. Update(c, "CANCELLED", "USER_CANCELLED")
  BY DEF Cancel
<1>2. "CANCELLED" \in CommandStates /\ "CANCELLED" \in TerminalStates /\ "USER_CANCELLED" \in Errors
  BY DEF CommandStates, TerminalStates, Errors
<1>3. TypeOK'
  BY <1>1, <1>2, UpdateType DEF Cancel, StoreInv, TypeOK
<1>4. TryMove(c, "CANCELLED", "USER_CANCELLED") /\ LockFree
  BY <1>1, UpdateMoves
<1>5. \A d \in Command : offers'[d] <= offers[d]
  BY DEF Cancel, StoreInv, TypeOK
<1>6. QED
  BY <1>2, <1>3, <1>4, <1>5, MoveKeeps DEF Cancel, LockFree

\* The only step that stores CANCELLED_BEFORE_DISPATCH: the row was never sent.
LEMMA CancelQueuedKeeps ==
    ASSUME StoreInv, NEW c \in Command, CancelQueued(c) PROVE StoreInv'
<1>1. Update(c, "CANCELLED", "CANCELLED_BEFORE_DISPATCH") /\ ~commands[c].sent
  BY DEF CancelQueued
<1>2. /\ "CANCELLED" \in CommandStates /\ "CANCELLED" \in TerminalStates
      /\ "CANCELLED_BEFORE_DISPATCH" \in Errors
  BY DEF CommandStates, TerminalStates, Errors
<1>3. TypeOK'
  BY <1>1, <1>2, UpdateType DEF CancelQueued, StoreInv, TypeOK
<1>4. TryMove(c, "CANCELLED", "CANCELLED_BEFORE_DISPATCH") /\ LockFree
  BY <1>1, UpdateMoves
<1>5. \A d \in Command : offers'[d] <= offers[d]
  BY DEF CancelQueued, StoreInv, TypeOK
<1>6. QED
  BY <1>1, <1>2, <1>3, <1>4, <1>5, MoveKeeps DEF CancelQueued, LockFree

LEMMA SetStateKeeps ==
    ASSUME StoreInv, NEW c \in Command, NEW s \in CommandStates, SetState(c, s) PROVE StoreInv'
<1>1. Update(c, s, "NONE") /\ c \notin Enrolled
  BY DEF SetState, Legacy
<1>2. "NONE" \in Errors
  BY DEF Errors
<1>3. TypeOK'
  BY <1>1, <1>2, UpdateType DEF SetState, StoreInv, TypeOK
<1>4. TryMove(c, s, "NONE") /\ LockFree
  BY <1>1, UpdateMoves
<1>5. \A d \in Command : offers'[d] <= offers[d]
  BY DEF SetState, StoreInv, TypeOK
<1>6. QED
  BY <1>1, <1>2, <1>3, <1>4, <1>5, MoveKeeps DEF SetState, LockFree

LEMMA TimeoutNowKeeps ==
    ASSUME StoreInv, NEW c \in Command, TimeoutNow(c) PROVE StoreInv'
<1>1. Update(c, "TIMEOUT", "TIMED_OUT") /\ c \notin Enrolled
  BY DEF TimeoutNow, Legacy
<1>2. "TIMEOUT" \in CommandStates /\ "TIMED_OUT" \in Errors
  BY DEF CommandStates, TerminalStates, Errors
<1>3. TypeOK'
  BY <1>1, <1>2, UpdateType DEF TimeoutNow, StoreInv, TypeOK
<1>4. TryMove(c, "TIMEOUT", "TIMED_OUT") /\ LockFree
  BY <1>1, UpdateMoves
<1>5. \A d \in Command : offers'[d] <= offers[d]
  BY DEF TimeoutNow, StoreInv, TypeOK
<1>6. QED
  BY <1>1, <1>2, <1>3, <1>4, <1>5, MoveKeeps DEF TimeoutNow, LockFree

LEMMA RefuseOfferKeeps ==
    ASSUME StoreInv, NEW c \in Command, RefuseOffer(c) PROVE StoreInv'
<1>1. TryMove(c, "FAILED", "UNSENDABLE")
  BY DEF RefuseOffer
<1>2. "FAILED" \in CommandStates /\ "FAILED" \in TerminalStates /\ "UNSENDABLE" \in Errors
  BY DEF CommandStates, TerminalStates, Errors
<1>3. TypeOK'
  BY <1>1, <1>2, TryMoveType DEF RefuseOffer, StoreInv, TypeOK
<1>4. \A d \in Command : offers'[d] <= offers[d]
  BY DEF RefuseOffer, StoreInv, TypeOK
<1>5. QED
  BY <1>1, <1>2, <1>3, <1>4, MoveKeeps DEF RefuseOffer, LockFree

LEMMA AckMovesKeeps ==
    ASSUME StoreInv, NEW c \in Command, AckMoves(c) PROVE StoreInv'
<1>1. TryMove(c, "ACK_RECEIVED", "NONE") /\ txn.cmd = c /\ txn' = Free
  BY DEF AckMoves, Holds
<1>2. "ACK_RECEIVED" \in CommandStates /\ "NONE" \in Errors
  BY DEF CommandStates, Errors
<1>3. c \in Enrolled => Acked(c)
  BY DEF AckMoves, StoreInv, EnrolledStates
<1>4. TypeOK'
  BY <1>1, <1>2, TryMoveType, FreeType DEF AckMoves, StoreInv, TypeOK
<1>5. \A d \in Command : offers'[d] <= offers[d]
  BY DEF AckMoves, StoreInv, TypeOK
<1>6. QED
  BY <1>1, <1>2, <1>3, <1>4, <1>5, MoveKeeps DEF AckMoves, Free

LEMMA NackMovesKeeps ==
    ASSUME StoreInv, NEW c \in Command, NackMoves(c) PROVE StoreInv'
<1>1. TryMove(c, "FAILED", "REJECTED") /\ txn.cmd = c /\ txn' = Free
  BY DEF NackMoves, Holds
<1>2. "FAILED" \in CommandStates /\ "FAILED" \in TerminalStates /\ "REJECTED" \in Errors
  BY DEF CommandStates, TerminalStates, Errors
<1>3. TypeOK'
  BY <1>1, <1>2, TryMoveType, FreeType DEF NackMoves, StoreInv, TypeOK
<1>4. \A d \in Command : offers'[d] <= offers[d]
  BY DEF NackMoves, StoreInv, TypeOK
<1>5. QED
  BY <1>1, <1>2, <1>3, <1>4, MoveKeeps DEF NackMoves, Free

LEMMA ExecuteMovesKeeps ==
    ASSUME StoreInv, NEW c \in Command, ExecuteMoves(c) PROVE StoreInv'
<1>1. TryMove(c, "EXECUTING", "NONE") /\ LockFree /\ c \notin Enrolled
  BY DEF ExecuteMoves, StoreInv, MarkingIsLegacy
<1>2. "EXECUTING" \in CommandStates /\ "NONE" \in Errors
  BY DEF CommandStates, TerminalStates, Errors
<1>3. TypeOK'
  BY <1>1, <1>2, TryMoveType DEF ExecuteMoves, StoreInv, TypeOK
<1>4. \A d \in Command : offers'[d] <= offers[d]
  BY DEF ExecuteMoves, StoreInv, TypeOK
<1>5. QED
  BY <1>1, <1>2, <1>3, <1>4, MoveKeeps DEF ExecuteMoves, LockFree

\* A step that leaves the rows and the handlers alone keeps the invariant.
LEMMA SameKeeps ==
    ASSUME StoreInv, TypeOK', UNCHANGED <<commands, delivery, txn, marking, offers, sends>>
    PROVE  StoreInv'
BY DEF StoreInv, RetryInProgress, ClaimInProgress, AckInProgress, AttemptsCover,
       UnsentIsUnclaimed, EnrolledStates, CancelledQueuedStays, AbsentIsUntouched, MarkingIsLegacy,
       AcceptedHasDeadline, FirstRoundCancelIsHonest, InClaim, Holds, Active, Acked

LEMMA SweepHandleKeeps ==
    ASSUME StoreInv, NEW c \in Command, SweepHandle(c) PROVE StoreInv'
<1>1. "TIMEOUT" \in CommandStates /\ "TIMEOUT" \in TerminalStates /\ "TIMED_OUT" \in Errors
  BY DEF CommandStates, TerminalStates, Errors
<1>2. CASE Active(c)
  <2>1. TryMove(c, "TIMEOUT", "TIMED_OUT")
    BY <1>2 DEF SweepHandle
  <2>2. TypeOK'
    BY <1>1, <2>1, TryMoveType DEF SweepHandle, StoreInv, TypeOK
  <2>3. \A d \in Command : offers'[d] <= offers[d]
    BY DEF SweepHandle, StoreInv, TypeOK
  <2>4. QED
    BY <1>1, <2>1, <2>2, <2>3, MoveKeeps DEF SweepHandle, LockFree
<1>3. CASE ~Active(c)
  <2>1. TypeOK' /\ UNCHANGED <<commands, delivery, txn, marking, offers, sends>>
    BY <1>3 DEF SweepHandle, StoreInv, TypeOK
  <2>2. QED
    BY <2>1, SameKeeps
<1>4. QED
  BY <1>2, <1>3

LEMMA TickKeeps == StoreInv /\ Tick => StoreInv'
<1>1. ASSUME StoreInv, Tick PROVE TypeOK' /\ UNCHANGED <<commands, delivery, txn, marking, offers, sends>>
  BY <1>1 DEF Tick, StoreInv, TypeOK
<1>2. QED
  BY <1>1, SameKeeps

LEMMA SweepSelectKeeps == StoreInv /\ SweepSelect => StoreInv'
<1>1. ASSUME StoreInv, SweepSelect
      PROVE  TypeOK' /\ UNCHANGED <<commands, delivery, txn, marking, offers, sends>>
  BY <1>1 DEF SweepSelect, StoreInv, TypeOK
<1>2. QED
  BY <1>1, SameKeeps

\* A crash keeps what is on disk and forgets the rest.
LEMMA CrashKeeps == StoreInv /\ Crash => StoreInv'
<1>1. SUFFICES ASSUME StoreInv, Crash PROVE StoreInv'
  OBVIOUS
<1>2. TypeOK'
  BY <1>1, FreeType DEF Crash, StoreInv, TypeOK
<1>3. \A d \in Command, op \in TxnOps : ~Holds(d, op)'
  BY <1>1 DEF Crash, Free, Holds, TxnOps
<1>4. AttemptsCover' /\ UnsentIsUnclaimed' /\ FirstRoundCancelIsHonest'
  BY <1>1, <1>3, CommandAssumption, PolicyTypes
     DEF Crash, StoreInv, TypeOK, DeliveryRow, AttemptsCover, UnsentIsUnclaimed,
         FirstRoundCancelIsHonest, InClaim, TxnOps
<1>5. QED
  BY <1>1, <1>2, <1>3, <1>4, CommandAssumption
     DEF Crash, StoreInv, RetryInProgress, ClaimInProgress, AckInProgress, EnrolledStates,
         CancelledQueuedStays, AbsentIsUntouched, MarkingIsLegacy, AcceptedHasDeadline,
         InClaim, TxnOps,
         Active, Acked, Free

LEMMA ResponseMovesKeeps ==
    ASSUME StoreInv, NEW c \in Command, ResponseMoves(c) PROVE StoreInv'
<1>1. txn.cmd = c /\ txn' = Free
  BY DEF ResponseMoves, Holds
<1>2. PICK s \in {"COMPLETED", "FAILED"}, e \in {"NONE", "EXECUTION_FAILED"} : TryMove(c, s, e)
  BY DEF ResponseMoves
<1>3. s \in CommandStates /\ s \in TerminalStates /\ e \in Errors
  BY DEF CommandStates, TerminalStates, Errors
<1>4. TypeOK'
  BY <1>1, <1>2, <1>3, TryMoveType, FreeType DEF ResponseMoves, StoreInv, TypeOK
<1>5. \A d \in Command : offers'[d] <= offers[d]
  BY DEF ResponseMoves, StoreInv, TypeOK
<1>6. QED
  BY <1>1, <1>2, <1>3, <1>4, <1>5, MoveKeeps DEF ResponseMoves, Free

---------------------------------------------------------------------------
(* One step that records something in a row and starts, or goes on with, a *)
(* handler: the state, the error, the round and sent_at stay.              *)

ReportOps == {"ACK_FIELDS", "ACK_STATE", "NACK_STATE", "RESPONSE_OK", "RESPONSE_FAIL"}

LEMMA RecordKeeps ==
    ASSUME StoreInv, TypeOK', NEW c \in Command, commands[c].state # "ABSENT",
           \A d \in Command : /\ commands'[d].state   = commands[d].state
                              /\ commands'[d].error   = commands[d].error
                              /\ commands'[d].retries = commands[d].retries
                              /\ commands'[d].sent    = commands[d].sent
                              /\ d # c => commands'[d].ack = commands[d].ack
                              /\ delivery'[d].attempts = delivery[d].attempts
                              /\ delivery[d].responseDeadline # NoTime =>
                                     delivery'[d].responseDeadline # NoTime,
           Acked(c) => Acked(c)',
           UNCHANGED <<offers, sends>>,
           marking' \cap Enrolled = {},
           txn' = txn \/ \E op \in ReportOps : /\ txn.op = "FREE" \/ txn.cmd = c
                                               /\ txn' = [op |-> op, cmd |-> c],
           c \in Enrolled =>
               /\ Holds(c, "ACK_FIELDS")' \/ Holds(c, "ACK_STATE")' =>
                      delivery'[c].responseDeadline # NoTime
               /\ Holds(c, "ACK_STATE")' => Acked(c)'
               /\ commands'[c].ack = "AFFIRMED" =>
                      \/ commands[c].ack = "AFFIRMED"
                      \/ delivery'[c].responseDeadline # NoTime
    PROVE  StoreInv'
<1> USE CommandAssumption DEF StoreInv
<1>1. \A d \in Command, op \in TxnOps : Holds(d, op)' => Holds(d, op) \/ (d = c /\ op \in ReportOps)
  BY DEF Holds, ReportOps
<1>2. \A d \in Command : InClaim(d)' => InClaim(d)
  BY <1>1 DEF InClaim, TxnOps, ReportOps
<1>3. RetryInProgress' /\ ClaimInProgress'
  BY <1>1, <1>2 DEF RetryInProgress, ClaimInProgress, TxnOps, ReportOps
<1>4. AckInProgress'
  BY <1>1 DEF AckInProgress, TxnOps
<1>5. AttemptsCover' /\ UnsentIsUnclaimed'
  BY <1>1, <1>2 DEF AttemptsCover, UnsentIsUnclaimed, TxnOps, ReportOps
<1>6. EnrolledStates'
  BY <1>1 DEF EnrolledStates, TxnOps, Acked
<1>7. CancelledQueuedStays' /\ FirstRoundCancelIsHonest'
  BY <1>2 DEF CancelledQueuedStays, FirstRoundCancelIsHonest
<1>8. AbsentIsUntouched'
  BY DEF AbsentIsUntouched
<1>9. AcceptedHasDeadline'
  BY DEF AcceptedHasDeadline, Active
<1>10. QED
  BY <1>3, <1>4, <1>5, <1>6, <1>7, <1>8, <1>9 DEF MarkingIsLegacy

\* What the reports write in a row leaves it a row.
LEMMA NoteType ==
    ASSUME NEW r \in CommandRow
    PROVE  /\ [r EXCEPT !.ack = "AFFIRMED"] \in CommandRow
           /\ [r EXCEPT !.ack = "REFUSED"] \in CommandRow
           /\ [r EXCEPT !.responded = TRUE] \in CommandRow
           /\ [r EXCEPT !.executing = TRUE] \in CommandRow
BY DEF CommandRow

LEMMA AckFieldsKeeps ==
    ASSUME StoreInv, NEW c \in Command, AckFields(c) PROVE StoreInv'
<1>1. [op |-> "ACK_STATE", cmd |-> c] \in Txn
  BY TxnType DEF TxnOps
<1>2. TypeOK'
  <2>1. commands' \in [Command -> CommandRow]
    BY NoteType DEF AckFields, Put, StoreInv, TypeOK
  <2>2. QED
    BY <1>1, <2>1 DEF AckFields, StoreInv, TypeOK
<1>3. commands[c].state # "ABSENT"
  BY DEF AckFields, Holds, StoreInv, AbsentIsUntouched
<1>4. /\ commands' = [commands EXCEPT ![c] = [commands[c] EXCEPT !.ack = "AFFIRMED"]]
      /\ commands \in [Command -> CommandRow]
  BY DEF AckFields, Put, StoreInv, TypeOK
<1>5. c \in Enrolled => delivery[c].responseDeadline # NoTime
  BY DEF AckFields, StoreInv, AckInProgress
<1>6. QED
  BY <1>2, <1>3, <1>4, <1>5, RecordKeeps
     DEF AckFields, Holds, Acked, ReportOps, CommandRow, StoreInv, MarkingIsLegacy

LEMMA AckBeginKeeps ==
    ASSUME StoreInv, NEW c \in Command, AckBegin(c) PROVE StoreInv'
<1>1. [op |-> "ACK_FIELDS", cmd |-> c] \in Txn
  BY TxnType DEF TxnOps
<1>2. now + ResponseTimeout \in Time /\ now + ResponseTimeout # NoTime
  BY PolicyTypes DEF StoreInv, TypeOK, Time, NoTime
<1>3. Min2(delivery[c].expiresAt, now + ResponseTimeout) \in Time
  BY <1>2 DEF StoreInv, TypeOK, DeliveryRow, Min2
<1>4. commands[c].state # "ABSENT"
  BY DEF AckBegin, AwaitsAck
<1>5. CASE c \in Enrolled /\ delivery[c].responseDeadline = NoTime
  <2>1. /\ delivery' = [delivery EXCEPT ![c].responseDeadline = now + ResponseTimeout]
        /\ commands' = [commands EXCEPT ![c] = [commands[c] EXCEPT
               !.timeoutAt = Min2(delivery[c].expiresAt, now + ResponseTimeout)]]
        /\ commands \in [Command -> CommandRow] /\ delivery \in [Command -> DeliveryRow]
    BY <1>5 DEF AckBegin, Put, StoreInv, TypeOK
  <2>2. /\ commands' \in [Command -> CommandRow]
        /\ delivery' \in [Command -> DeliveryRow]
    <3>1. commands' \in [Command -> CommandRow]
      BY <1>3, <2>1 DEF CommandRow
    <3>2. delivery' \in [Command -> DeliveryRow]
      BY <1>2, <2>1 DEF DeliveryRow
    <3>3. QED
      BY <3>1, <3>2
  <2>3. TypeOK'
    BY <1>1, <2>2 DEF AckBegin, StoreInv, TypeOK
  <2>4. \A d \in Command : /\ commands'[d].state   = commands[d].state
                           /\ commands'[d].error   = commands[d].error
                           /\ commands'[d].retries = commands[d].retries
                           /\ commands'[d].sent    = commands[d].sent
                           /\ commands'[d].ack     = commands[d].ack
    BY <2>1 DEF CommandRow
  <2>5. /\ \A d \in Command : /\ delivery'[d].attempts = delivery[d].attempts
                              /\ delivery[d].responseDeadline # NoTime =>
                                     delivery'[d].responseDeadline # NoTime
        /\ delivery'[c].responseDeadline # NoTime
    BY <1>2, <2>1 DEF DeliveryRow
  <2>6. /\ txn.op = "FREE" /\ txn' = [op |-> "ACK_FIELDS", cmd |-> c]
        /\ UNCHANGED <<offers, sends, marking>>
        /\ ~Holds(c, "ACK_STATE")'
    BY DEF AckBegin, LockFree, Holds
  <2>7. Acked(c) => Acked(c)'
    BY <2>4 DEF Acked
  <2>8. /\ marking' \cap Enrolled = {}
        /\ \E op \in ReportOps : /\ txn.op = "FREE" \/ txn.cmd = c
                                 /\ txn' = [op |-> op, cmd |-> c]
    BY <2>6 DEF ReportOps, StoreInv, MarkingIsLegacy
  <2>9. commands'[c].ack = "AFFIRMED" => commands[c].ack = "AFFIRMED"
    BY <2>4
  <2>10. QED
    BY <1>4, <2>3, <2>4, <2>5, <2>6, <2>7, <2>8, <2>9, RecordKeeps DEF Holds, Acked
<1>6. CASE ~(c \in Enrolled /\ delivery[c].responseDeadline = NoTime)
  <2>1. UNCHANGED <<commands, delivery>>
    BY <1>6 DEF AckBegin
  <2>2. TypeOK'
    BY <1>1, <2>1 DEF AckBegin, StoreInv, TypeOK
  <2>3. QED
    BY <1>4, <1>6, <2>1, <2>2, RecordKeeps
       DEF AckBegin, Holds, Acked, ReportOps, StoreInv, MarkingIsLegacy, LockFree
<1>7. QED
  BY <1>5, <1>6

LEMMA NackBeginKeeps ==
    ASSUME StoreInv, NEW c \in Command, NackBegin(c) PROVE StoreInv'
<1>1. [op |-> "NACK_STATE", cmd |-> c] \in Txn
  BY TxnType DEF TxnOps
<1>2. TypeOK'
  <2>1. commands' \in [Command -> CommandRow]
    BY NoteType DEF NackBegin, Put, StoreInv, TypeOK
  <2>2. QED
    BY <1>1, <2>1 DEF NackBegin, StoreInv, TypeOK
<1>3. /\ commands' = [commands EXCEPT ![c] = [commands[c] EXCEPT !.ack = "REFUSED"]]
      /\ commands \in [Command -> CommandRow]
      /\ commands[c].state # "ABSENT"
  BY DEF NackBegin, Put, AwaitsAck, StoreInv, TypeOK
<1>4. QED
  BY <1>2, <1>3, RecordKeeps
     DEF NackBegin, Holds, Acked, ReportOps, CommandRow, StoreInv, MarkingIsLegacy, LockFree

LEMMA ResponseBeginKeeps ==
    ASSUME StoreInv, NEW c \in Command, NEW ok \in BOOLEAN, ResponseBegin(c, ok) PROVE StoreInv'
<1>1. PICK op \in {"RESPONSE_OK", "RESPONSE_FAIL"} : txn' = [op |-> op, cmd |-> c]
  BY DEF ResponseBegin
<1>2. txn' \in Txn
  BY <1>1, TxnType DEF TxnOps
<1>3. TypeOK'
  <2>1. commands' \in [Command -> CommandRow]
    BY NoteType DEF ResponseBegin, Put, StoreInv, TypeOK
  <2>2. QED
    BY <1>2, <2>1 DEF ResponseBegin, StoreInv, TypeOK
<1>4. /\ commands' = [commands EXCEPT ![c] = [commands[c] EXCEPT !.responded = TRUE]]
      /\ commands \in [Command -> CommandRow]
      /\ commands[c].state # "ABSENT"
  BY DEF ResponseBegin, Put, Active, StoreInv, TypeOK
<1>5. /\ op \in ReportOps /\ op \notin {"ACK_FIELDS", "ACK_STATE"}
      /\ txn.op = "FREE" /\ UNCHANGED <<delivery, marking, offers, sends>>
      /\ marking' \cap Enrolled = {}
  BY DEF ResponseBegin, LockFree, ReportOps, StoreInv, MarkingIsLegacy
<1>6. \A d \in Command : /\ commands'[d].state   = commands[d].state
                         /\ commands'[d].error   = commands[d].error
                         /\ commands'[d].retries = commands[d].retries
                         /\ commands'[d].sent    = commands[d].sent
                         /\ commands'[d].ack     = commands[d].ack
  BY <1>4 DEF CommandRow
<1>7. ~Holds(c, "ACK_FIELDS")' /\ ~Holds(c, "ACK_STATE")'
  BY <1>1 DEF Holds
<1>8. QED
  BY <1>1, <1>3, <1>4, <1>5, <1>6, <1>7, RecordKeeps DEF Holds, Acked

\* The one write that is made without the lock, perhaps between two commits of
\* another handler, of the same row.
LEMMA ExecuteBeginKeeps ==
    ASSUME StoreInv, NEW c \in Command, ExecuteBegin(c) PROVE StoreInv'
<1>1. /\ commands' = [commands EXCEPT ![c] = [commands[c] EXCEPT !.executing = TRUE]]
      /\ commands \in [Command -> CommandRow]
      /\ commands[c].state # "ABSENT" /\ c \notin Enrolled
      /\ marking' \cap Enrolled = {}
  BY DEF ExecuteBegin, Put, Legacy, StoreInv, TypeOK, MarkingIsLegacy
<1>2. commands' \in [Command -> CommandRow]
  BY <1>1, NoteType
<1>3. marking' \in SUBSET Command
  BY DEF ExecuteBegin, Legacy, StoreInv, TypeOK
<1>4. TypeOK'
  BY <1>2, <1>3 DEF ExecuteBegin, StoreInv, TypeOK
<1>5. QED
  BY <1>1, <1>4, RecordKeeps DEF ExecuteBegin, Holds, Acked, CommandRow

---------------------------------------------------------------------------
(* The steps that open or close an account: a command, an attempt, a       *)
(* packet, a round.                                                        *)

LEMMA CreateKeeps ==
    ASSUME StoreInv, NEW c \in Command, Create(c) PROVE StoreInv'
<1> USE CommandAssumption DEF StoreInv
<1>1. now + Expiry \in Time /\ now + Timeout \in Time
  BY PolicyTypes DEF TypeOK, Time
<1>2. PICK at \in Time :
        commands' = [commands EXCEPT ![c] = [Absent EXCEPT !.state = "QUEUED", !.timeoutAt = at]]
  BY <1>1 DEF Create, Put
<1>3. [Absent EXCEPT !.state = "QUEUED", !.timeoutAt = at] \in CommandRow
  BY AbsentType DEF CommandRow, CommandStates
<1>4. delivery' \in [Command -> DeliveryRow]
  BY <1>1 DEF Create, TypeOK, DeliveryRow
<1>5. TypeOK'
  BY <1>2, <1>3, <1>4 DEF Create, TypeOK
<1>6. /\ \A d \in Command \ {c} : commands'[d] = commands[d]
      /\ commands'[c].state = "QUEUED" /\ commands'[c].ack = "NONE"
      /\ commands'[c].error = "NONE" /\ ~commands'[c].sent
  BY <1>2 DEF TypeOK, Absent
<1>7. \A d \in Command : /\ delivery'[d].attempts = delivery[d].attempts
                         /\ delivery'[d].responseDeadline = delivery[d].responseDeadline
  BY DEF Create, TypeOK, DeliveryRow
<1>8. sends[c] = 0 /\ offers[c] = 0 /\ txn.cmd # c
  BY DEF Create, AbsentIsUntouched
<1>9. UNCHANGED <<txn, marking, offers, sends>>
  BY DEF Create
<1>10. \A d \in Command, op \in TxnOps : Holds(d, op)' <=> Holds(d, op)
  BY <1>9 DEF Holds
<1>11. RetryInProgress' /\ ClaimInProgress' /\ AckInProgress'
  BY <1>6, <1>7, <1>8, <1>9 DEF RetryInProgress, ClaimInProgress, AckInProgress, Holds, InClaim
<1>12. AttemptsCover' /\ UnsentIsUnclaimed'
  BY <1>6, <1>7, <1>8, <1>9 DEF AttemptsCover, UnsentIsUnclaimed, Holds, InClaim
<1>13. EnrolledStates'
  BY <1>6, <1>8, <1>9 DEF EnrolledStates, Holds, Acked
<1>14. CancelledQueuedStays' /\ FirstRoundCancelIsHonest' /\ AbsentIsUntouched'
  BY <1>6, <1>9 DEF CancelledQueuedStays, FirstRoundCancelIsHonest, AbsentIsUntouched, Holds,
     InClaim
<1>15. AcceptedHasDeadline'
  BY <1>6, <1>7 DEF AcceptedHasDeadline, Active
<1>16. QED
  BY <1>5, <1>9, <1>11, <1>12, <1>13, <1>14, <1>15 DEF MarkingIsLegacy

\* A claim has an attempt left.
LEMMA BudgetLeft ==
    ASSUME TypeOK, NEW c \in Command, CanClaim(c)
    PROVE  delivery[c].attempts + 1 \in 0..(1 + MaxRetries)
<1>1. AttemptsLeft(c)
  BY DEF CanClaim, ClaimReason
<1>2. QED
  BY <1>1, PolicyTypes DEF AttemptsLeft, TypeOK, DeliveryRow

LEMMA ClaimKeeps ==
    ASSUME StoreInv, NEW c \in Command, Claim(c) PROVE StoreInv'
<1> USE CommandAssumption DEF StoreInv
<1>1. delivery' = [delivery EXCEPT ![c].attempts = @ + 1, ![c].lastAttempt = now]
  BY DEF Claim
<1>2. /\ UNCHANGED <<commands, marking, offers, sends>>
      /\ txn.op = "FREE" /\ c \in Enrolled /\ Active(c) /\ ~Acked(c)
  BY DEF Claim, LockFree, CanClaim
<1>3. delivery' \in [Command -> DeliveryRow]
  <2>1. delivery[c].attempts + 1 \in 0..(1 + MaxRetries)
    BY BudgetLeft DEF Claim
  <2>2. now \in Time /\ delivery \in [Command -> DeliveryRow]
    BY DEF TypeOK, Time
  <2>3. QED
    BY <1>1, <2>1, <2>2 DEF DeliveryRow
<1> DEFINE op == IF commands[c].state = "QUEUED" THEN "MARK_SENT" ELSE "EXTEND"
<1>4. /\ op \in {"MARK_SENT", "EXTEND"}
      /\ txn' = [op |-> op, cmd |-> c]
      /\ op = "MARK_SENT" <=> commands[c].state = "QUEUED"
  <2>1. CASE commands[c].state = "QUEUED"
    BY <2>1 DEF Claim
  <2>2. CASE commands[c].state # "QUEUED"
    BY <2>2 DEF Claim
  <2>3. QED
    BY <2>1, <2>2
<1> HIDE DEF op
<1>5. txn' \in Txn
  BY <1>4, TxnType DEF TxnOps
<1>6. TypeOK'
  BY <1>3, <1>5 DEF Claim, TypeOK
<1>7. /\ \A d \in Command \ {c} : delivery'[d] = delivery[d]
      /\ delivery'[c].attempts = delivery[c].attempts + 1
      /\ delivery'[c].responseDeadline = delivery[c].responseDeadline
  BY <1>1 DEF TypeOK, DeliveryRow
<1>8. \A d \in Command : \A o \in TxnOps : Holds(d, o)' => d = c /\ o = op
  BY <1>4 DEF Holds
<1>9. RetryInProgress' /\ ClaimInProgress' /\ AckInProgress'
  <2>1. \A d \in Command : /\ ~Holds(d, "RETRY")'
                           /\ ~Holds(d, "ACK_FIELDS")' /\ ~Holds(d, "ACK_STATE")'
    BY <1>4 DEF Holds
  <2>2. \A d \in Command : Holds(d, "MARK_SENT")' => d = c /\ commands'[d].state = "QUEUED"
    BY <1>2, <1>4 DEF Holds
  <2>3. \A d \in Command : Holds(d, "EXTEND")' => d = c
    BY <1>4 DEF Holds
  <2>4. QED
    BY <1>2, <2>1, <2>2, <2>3 DEF RetryInProgress, ClaimInProgress, AckInProgress, InClaim
<1>10. AttemptsCover'
  <2>1. \A d \in Command : delivery[d].attempts \in Nat /\ sends[d] \in Nat /\ offers[d] \in Nat
    BY PolicyTypes DEF TypeOK, DeliveryRow
  <2>2. \A d \in Command \ {c} : ~InClaim(d)'
    BY <1>8 DEF InClaim, TxnOps
  <2>3. QED
    BY <1>2, <1>7, <2>1, <2>2 DEF AttemptsCover
<1>11. UnsentIsUnclaimed'
  <2>1. op = "EXTEND" => commands[c].sent
    BY <1>2, <1>4 DEF EnrolledStates, Active
  <2>2. QED
    BY <1>2, <1>8, <2>1 DEF UnsentIsUnclaimed, TxnOps
<1>12. EnrolledStates'
  BY <1>2, <1>4 DEF EnrolledStates, Holds, Acked
<1>13. CancelledQueuedStays' /\ FirstRoundCancelIsHonest' /\ AbsentIsUntouched'
  <2>1. commands[c].state \notin {"CANCELLED", "ABSENT"}
    BY <1>2 DEF Active, TerminalStates
  <2>2. CancelledQueuedStays'
    BY <1>2, <1>8, <2>1 DEF CancelledQueuedStays, InClaim, TxnOps
  <2>3. FirstRoundCancelIsHonest'
    BY <1>2 DEF FirstRoundCancelIsHonest
  <2>4. AbsentIsUntouched'
    BY <1>2, <1>4, <2>1 DEF AbsentIsUntouched
  <2>5. QED
    BY <2>2, <2>3, <2>4
<1>14. AcceptedHasDeadline'
  BY <1>2, <1>7 DEF AcceptedHasDeadline, Active
<1>15. QED
  BY <1>2, <1>6, <1>9, <1>10, <1>11, <1>12, <1>13, <1>14 DEF MarkingIsLegacy

\* Between the two commits of a claim the lock keeps the row QUEUED.
LEMMA ClaimMarksSentKeeps ==
    ASSUME StoreInv, NEW c \in Command, ClaimMarksSent(c) PROVE StoreInv'
<1> USE CommandAssumption DEF StoreInv
<1>1. /\ Holds(c, "MARK_SENT") /\ txn' = [op |-> "EXTEND", cmd |-> c]
      /\ UNCHANGED <<delivery, now, due, marking, offers, sends, crashes>>
      /\ c \in Enrolled /\ commands[c].state = "QUEUED"
  BY DEF ClaimMarksSent, ClaimInProgress, InClaim
<1>2. CanMove(c, "SENT")
  BY <1>1 DEF CanMove, ValidTransitions
<1>3. "SENT" \in CommandStates /\ "NONE" \in Errors
  BY DEF CommandStates, Errors
<1>4. TypeOK'
  <2>1. txn' \in Txn
    BY <1>1, TxnType DEF TxnOps
  <2>2. QED
    BY <1>1, <1>3, <2>1, TryMoveType DEF ClaimMarksSent, TypeOK
<1>5. /\ \A d \in Command \ {c} : commands'[d] = commands[d]
      /\ commands'[c].state = "SENT" /\ commands'[c].sent
      /\ commands'[c].retries = commands[c].retries /\ commands'[c].ack = commands[c].ack
      /\ commands'[c].error = ErrorText(commands[c], "SENT", "NONE")
  BY <1>2, <1>3, MoveFacts DEF ClaimMarksSent
<1>6. commands'[c].error # "CANCELLED_BEFORE_DISPATCH"
  <2>1. commands[c].error # "CANCELLED_BEFORE_DISPATCH"
    BY <1>1 DEF CancelledQueuedStays
  <2>2. QED
    BY <1>3, <1>5, <2>1, ErrorFacts DEF TypeOK
<1>7. \A d \in Command, op \in TxnOps : Holds(d, op)' => d = c /\ op = "EXTEND"
  BY <1>1 DEF Holds
<1>8. RetryInProgress' /\ ClaimInProgress' /\ AckInProgress'
  BY <1>1, <1>7 DEF RetryInProgress, ClaimInProgress, AckInProgress, InClaim, TxnOps
<1>9. AttemptsCover'
  BY <1>1, <1>7 DEF AttemptsCover, InClaim, TxnOps
<1>10. UnsentIsUnclaimed'
  BY <1>1, <1>5, <1>7 DEF UnsentIsUnclaimed, TxnOps
<1>11. EnrolledStates'
  BY <1>1, <1>5, <1>7 DEF EnrolledStates, Acked, TxnOps
<1>12. CancelledQueuedStays' /\ FirstRoundCancelIsHonest'
  BY <1>1, <1>5, <1>6, <1>7 DEF CancelledQueuedStays, FirstRoundCancelIsHonest, InClaim, TxnOps
<1>13. AbsentIsUntouched'
  BY <1>1, <1>5 DEF AbsentIsUntouched
<1>14. AcceptedHasDeadline'
  BY <1>1, <1>5 DEF AcceptedHasDeadline, Active, TerminalStates
<1>15. QED
  BY <1>1, <1>4, <1>8, <1>9, <1>10, <1>11, <1>12, <1>13, <1>14 DEF MarkingIsLegacy

\* The packet becomes one that waits to be built.
LEMMA ClaimExtendsKeeps ==
    ASSUME StoreInv, NEW c \in Command, ClaimExtends(c) PROVE StoreInv'
<1> USE CommandAssumption DEF StoreInv
<1>1. /\ Holds(c, "EXTEND") /\ txn' = Free /\ UNCHANGED <<delivery, marking, sends>>
      /\ offers' = [offers EXCEPT ![c] = @ + 1]
      /\ commands' = [commands EXCEPT ![c] = [commands[c] EXCEPT !.timeoutAt = delivery[c].expiresAt]]
      /\ c \in Enrolled
  BY DEF ClaimExtends, Put, ClaimInProgress, InClaim
<1>2. TypeOK'
  <2>1. delivery[c].expiresAt \in Time /\ commands \in [Command -> CommandRow]
    BY DEF TypeOK, DeliveryRow
  <2>2. commands' \in [Command -> CommandRow]
    BY <1>1, <2>1 DEF CommandRow
  <2>3. offers' \in [Command -> Nat]
    BY <1>1 DEF TypeOK
  <2>4. QED
    BY <1>1, <2>2, <2>3, FreeType DEF ClaimExtends, TypeOK
<1>3. \A d \in Command : /\ commands'[d].state   = commands[d].state
                         /\ commands'[d].error   = commands[d].error
                         /\ commands'[d].retries = commands[d].retries
                         /\ commands'[d].sent    = commands[d].sent
                         /\ commands'[d].ack     = commands[d].ack
  BY <1>1 DEF TypeOK, CommandRow
<1>4. /\ \A d \in Command \ {c} : offers'[d] = offers[d]
      /\ offers'[c] = offers[c] + 1
      /\ \A d \in Command : sends[d] \in Nat /\ offers[d] \in Nat /\ delivery[d].attempts \in Nat
  BY <1>1, PolicyTypes DEF TypeOK, DeliveryRow
<1>5. \A d \in Command : \A op \in TxnOps : ~Holds(d, op)'
  BY <1>1 DEF Holds, Free, TxnOps
<1>6. \A d \in Command : ~InClaim(d)'
  BY <1>5 DEF InClaim, TxnOps
<1>7. RetryInProgress' /\ ClaimInProgress' /\ AckInProgress'
  BY <1>1, <1>4, <1>5, <1>6 DEF RetryInProgress, ClaimInProgress, AckInProgress, TxnOps
<1>8. sends[c] + offers[c] < delivery[c].attempts
  BY <1>1 DEF AttemptsCover, InClaim
<1>9. AttemptsCover'
  BY <1>1, <1>4, <1>6, <1>8 DEF AttemptsCover
<1>10. ~commands[c].sent => commands[c].retries # 0
  BY <1>1 DEF UnsentIsUnclaimed
<1>11. UnsentIsUnclaimed'
  BY <1>1, <1>3, <1>4, <1>5, <1>10 DEF UnsentIsUnclaimed, TxnOps
<1>12. EnrolledStates'
  BY <1>3, <1>5 DEF EnrolledStates, Acked, TxnOps
<1>13. commands[c].error # "CANCELLED_BEFORE_DISPATCH" /\ commands[c].state # "ABSENT"
  BY <1>1 DEF CancelledQueuedStays, AbsentIsUntouched, InClaim, Holds
<1>14. CancelledQueuedStays' /\ FirstRoundCancelIsHonest'
  BY <1>1, <1>3, <1>4, <1>6, <1>13 DEF CancelledQueuedStays, FirstRoundCancelIsHonest
<1>15. AbsentIsUntouched'
  BY <1>1, <1>3, <1>4, <1>13 DEF AbsentIsUntouched, Free
<1>16. AcceptedHasDeadline'
  BY <1>1, <1>3 DEF AcceptedHasDeadline, Active
<1>17. QED
  BY <1>1, <1>2, <1>7, <1>9, <1>11, <1>12, <1>14, <1>15, <1>16 DEF MarkingIsLegacy

\* What pending_commands does to the row when it builds the packet.
LEMMA OfferRow ==
    ASSUME StoreInv, NEW c \in Command, Offer(c)
    PROVE  /\ commands' \in [Command -> CommandRow]
           /\ \A d \in Command \ {c} : commands'[d] = commands[d]
           /\ commands'[c].retries = commands[c].retries
           /\ commands'[c].ack = commands[c].ack
           /\ commands[c].sent => commands'[c].sent
           /\ \/ commands' = commands /\ commands[c].state # "QUEUED"
              \/ /\ txn.op = "FREE" /\ commands[c].state = "QUEUED"
                 /\ commands'[c].state = "SENT" /\ commands'[c].sent
                 /\ commands'[c].error = ErrorText(commands[c], "SENT", "NONE")
<1> USE DEF StoreInv
<1>1. "SENT" \in CommandStates /\ "NONE" \in Errors
  BY DEF CommandStates, Errors
<1>2. CASE UNCHANGED commands /\ commands[c].state # "QUEUED"
  BY <1>2 DEF TypeOK
<1>3. CASE commands[c].state = "QUEUED" /\ Update(c, "SENT", "NONE")
  <2>1. TryMove(c, "SENT", "NONE") /\ LockFree /\ CanMove(c, "SENT")
    BY <1>1, <1>3, UpdateMoves DEF Update
  <2>2. commands' \in [Command -> CommandRow]
    BY <1>1, <2>1, TryMoveType
  <2>3. QED
    BY <1>1, <1>3, <2>1, <2>2, MoveFacts DEF LockFree
<1>4. QED
  BY <1>2, <1>3 DEF Offer

\* A waiting packet becomes a sent one; the row may be marked sent on the way.
LEMMA OfferKeeps ==
    ASSUME StoreInv, NEW c \in Command, Offer(c) PROVE StoreInv'
<1> USE CommandAssumption DEF StoreInv
<1>1. /\ offers[c] > 0 /\ UNCHANGED <<delivery, now, txn, due, marking, crashes>>
      /\ offers' = [offers EXCEPT ![c] = @ - 1]
      /\ sends' = [sends EXCEPT ![c] = @ + 1]
  BY DEF Offer
<1>2. offers' \in [Command -> Nat] /\ sends' \in [Command -> Nat]
  BY <1>1 DEF TypeOK
<1>3. \A d \in Command : sends'[d] + offers'[d] = sends[d] + offers[d]
  BY <1>1 DEF TypeOK
<1>4. TypeOK'
  BY <1>1, <1>2, OfferRow DEF TypeOK
<1>5. /\ \A d \in Command \ {c} : commands'[d] = commands[d]
      /\ \A d \in Command : commands'[d].retries = commands[d].retries
      /\ \A d \in Command : commands'[d].ack = commands[d].ack
      /\ \A d \in Command : commands[d].sent => commands'[d].sent
  BY OfferRow
<1>6. \A d \in Command, o \in TxnOps : Holds(d, o)' <=> Holds(d, o)
  BY <1>1 DEF Holds
<1>7. \A d \in Command : InClaim(d)' <=> InClaim(d)
  BY <1>1 DEF InClaim, Holds
<1>8. commands[c].state # "ABSENT"
  BY <1>1 DEF AbsentIsUntouched
<1>9. AttemptsCover' /\ UnsentIsUnclaimed'
  BY <1>1, <1>3, <1>5, <1>6, <1>7 DEF AttemptsCover, UnsentIsUnclaimed, TxnOps
<1>10. AckInProgress'
  BY <1>1 DEF AckInProgress, Holds
<1>11. CASE commands' = commands
  BY <1>1, <1>3, <1>4, <1>6, <1>7, <1>8, <1>9, <1>10, <1>11
     DEF RetryInProgress, ClaimInProgress, EnrolledStates, CancelledQueuedStays,
         AbsentIsUntouched, AcceptedHasDeadline, FirstRoundCancelIsHonest, MarkingIsLegacy,
         Active, Acked, Holds, TypeOK
<1>12. CASE commands' # commands
  <2>1. /\ txn.op = "FREE" /\ commands[c].state = "QUEUED"
        /\ commands'[c].state = "SENT" /\ commands'[c].sent
        /\ commands'[c].error = ErrorText(commands[c], "SENT", "NONE")
    BY <1>12, OfferRow
  <2>2. \A d \in Command, o \in TxnOps : ~Holds(d, o)'
    BY <1>1, <2>1 DEF Holds, TxnOps
  <2>3. \A d \in Command : ~InClaim(d)'
    BY <2>2 DEF InClaim, TxnOps
  <2>4. c \in Enrolled => commands'[c].error # "CANCELLED_BEFORE_DISPATCH"
    <3>1. "SENT" \in CommandStates /\ "NONE" \in Errors
      BY DEF CommandStates, Errors
    <3>2. c \in Enrolled => commands[c].error # "CANCELLED_BEFORE_DISPATCH"
      BY <2>1 DEF CancelledQueuedStays
    <3>3. QED
      BY <2>1, <3>1, <3>2, ErrorFacts DEF TypeOK
  <2>5. RetryInProgress' /\ ClaimInProgress'
    BY <1>1, <1>2, <2>2, <2>3 DEF RetryInProgress, ClaimInProgress, TxnOps, TypeOK
  <2>6. EnrolledStates'
    BY <1>5, <2>1, <2>2 DEF EnrolledStates, Acked, TxnOps
  <2>7. CancelledQueuedStays' /\ FirstRoundCancelIsHonest'
    BY <1>3, <1>5, <2>3, <2>4 DEF CancelledQueuedStays, FirstRoundCancelIsHonest
  <2>8. AbsentIsUntouched'
    BY <1>1, <1>5, <2>1 DEF AbsentIsUntouched, TypeOK
  <2>9. AcceptedHasDeadline'
    BY <1>1, <1>5, <2>1 DEF AcceptedHasDeadline, Active, TerminalStates
  <2>10. QED
    BY <1>1, <1>4, <1>9, <1>10, <2>5, <2>6, <2>7, <2>8, <2>9 DEF MarkingIsLegacy
<1>13. QED
  BY <1>11, <1>12

LEMMA RetryBeginKeeps ==
    ASSUME StoreInv, NEW c \in Command, RetryBegin(c) PROVE StoreInv'
<1> USE CommandAssumption DEF StoreInv
<1>1. /\ txn.op = "FREE" /\ txn' = [op |-> "RETRY", cmd |-> c]
      /\ UNCHANGED <<commands, marking, offers, sends>>
      /\ commands[c].state \in {"TIMEOUT", "FAILED"} /\ commands[c].retries < MaxRetries
  BY DEF RetryBegin, LockFree, CanRetry
<1>2. /\ \A d \in Command \ {c} : delivery'[d] = delivery[d]
      /\ delivery'[c].attempts = delivery[c].attempts
  BY DEF RetryBegin, TypeOK, DeliveryRow
<1>3. TypeOK'
  <2>1. txn' \in Txn
    BY <1>1, TxnType DEF TxnOps
  <2>2. delivery' \in [Command -> DeliveryRow]
    BY DEF RetryBegin, TypeOK, DeliveryRow, Time
  <2>3. QED
    BY <2>1, <2>2 DEF RetryBegin, TypeOK
<1>4. \A d \in Command, op \in TxnOps : Holds(d, op)' => d = c /\ op = "RETRY"
  BY <1>1 DEF Holds
<1>5. \A d \in Command : ~InClaim(d)'
  BY <1>1 DEF InClaim, Holds
<1>6. RetryInProgress' /\ ClaimInProgress' /\ AckInProgress'
  BY <1>1, <1>5 DEF RetryInProgress, ClaimInProgress, AckInProgress, Holds
<1>7. AttemptsCover' /\ UnsentIsUnclaimed'
  BY <1>1, <1>2, <1>5 DEF AttemptsCover, UnsentIsUnclaimed, Holds
<1>8. EnrolledStates' /\ CancelledQueuedStays' /\ FirstRoundCancelIsHonest'
  BY <1>1, <1>5 DEF EnrolledStates, CancelledQueuedStays, FirstRoundCancelIsHonest, Holds, Acked
<1>9. AbsentIsUntouched'
  BY <1>1 DEF AbsentIsUntouched
<1>10. AcceptedHasDeadline'
  BY <1>1, <1>2 DEF AcceptedHasDeadline, Active, TerminalStates
<1>11. QED
  BY <1>1, <1>3, <1>6, <1>7, <1>8, <1>9, <1>10 DEF MarkingIsLegacy

\* A new round forgets the ACK, the error and sent_at, and keeps the attempts.
LEMMA RetryResetsKeeps ==
    ASSUME StoreInv, NEW c \in Command, RetryResets(c) PROVE StoreInv'
<1> USE CommandAssumption DEF StoreInv
<1> DEFINE row == [Absent EXCEPT !.state = "QUEUED",
                                 !.retries = commands[c].retries + 1,
                                 !.timeoutAt = now + Timeout]
<1>1. /\ Holds(c, "RETRY") /\ txn' = Free /\ commands' = [commands EXCEPT ![c] = row]
      /\ UNCHANGED <<delivery, marking, offers, sends>>
  BY DEF RetryResets, Put
<1>2. commands[c].retries + 1 \in 1..MaxRetries
  BY <1>1, PolicyTypes DEF RetryInProgress, TypeOK, CommandRow
<1>3. TypeOK'
  <2>1. now + Timeout \in Time
    BY PolicyTypes DEF TypeOK, Time
  <2>2. row \in CommandRow
    <3>1. commands[c].retries + 1 \in 0..MaxRetries
      BY <1>2, PolicyTypes
    <3>2. QED
      BY <2>1, <3>1, AbsentType DEF Absent, CommandRow, CommandStates
  <2>3. commands' \in [Command -> CommandRow]
    BY <1>1, <2>2 DEF TypeOK
  <2>4. QED
    BY <1>1, <2>3, FreeType DEF RetryResets, TypeOK
<1>4. /\ \A d \in Command \ {c} : commands'[d] = commands[d]
      /\ commands'[c].state = "QUEUED" /\ commands'[c].ack = "NONE" /\ commands'[c].error = "NONE"
      /\ commands'[c].retries # 0
  BY <1>1, <1>2 DEF TypeOK, Absent
<1>5. \A d \in Command, op \in TxnOps : ~Holds(d, op)'
  BY <1>1 DEF Holds, Free, TxnOps
<1>6. \A d \in Command : ~InClaim(d)'
  BY <1>5 DEF InClaim, TxnOps
<1>7. RetryInProgress' /\ ClaimInProgress' /\ AckInProgress'
  BY <1>1, <1>5, <1>6 DEF RetryInProgress, ClaimInProgress, AckInProgress, TxnOps
<1>8. AttemptsCover' /\ UnsentIsUnclaimed'
  BY <1>1, <1>4, <1>5, <1>6 DEF AttemptsCover, UnsentIsUnclaimed, TxnOps
<1>9. EnrolledStates'
  BY <1>4, <1>5 DEF EnrolledStates, Acked, TxnOps
<1>10. CancelledQueuedStays' /\ FirstRoundCancelIsHonest'
  BY <1>1, <1>4, <1>6 DEF CancelledQueuedStays, FirstRoundCancelIsHonest
<1>11. AbsentIsUntouched'
  BY <1>1, <1>4 DEF AbsentIsUntouched, Free
<1>12. AcceptedHasDeadline'
  BY <1>1, <1>4 DEF AcceptedHasDeadline, Active
<1>13. QED
  BY <1>1, <1>3, <1>7, <1>8, <1>9, <1>10, <1>11, <1>12 DEF MarkingIsLegacy

---------------------------------------------------------------------------
(* The theorems.                                                           *)

\* Every step keeps the invariant.
LEMMA NextKeeps == StoreInv /\ [Next]_vars => StoreInv'
<1>1. SUFFICES ASSUME StoreInv, [Next]_vars PROVE StoreInv'
  OBVIOUS
<1>2. ASSUME NEW c \in Command, Continue(c) PROVE StoreInv'
  BY <1>1, <1>2, ClaimMarksSentKeeps, ClaimExtendsKeeps, AckFieldsKeeps, AckMovesKeeps,
     NackMovesKeeps, ResponseMovesKeeps, RetryResetsKeeps DEF Continue
<1>3. ASSUME NEW c \in Command, Dispatch(c) PROVE StoreInv'
  BY <1>1, <1>3, ClaimExpiresKeeps, ClaimKeeps, OfferKeeps, RefuseOfferKeeps DEF Dispatch
<1>4. ASSUME NEW c \in Command, Report(c) PROVE StoreInv'
  BY <1>1, <1>4, AckBeginKeeps, NackBeginKeeps, ResponseBeginKeeps, RouteFailedKeeps DEF Report
<1>5. ASSUME NEW c \in Command, Operate(c) PROVE StoreInv'
  BY <1>1, <1>5, CreateKeeps, CancelKeeps, CancelQueuedKeeps, RetryBeginKeeps, TimeoutNowKeeps,
     ExecuteBeginKeeps, ExecuteMovesKeeps, SetStateKeeps DEF Operate
<1>6. ASSUME NEW c \in Command, SweepHandle(c) PROVE StoreInv'
  BY <1>1, <1>6, SweepHandleKeeps
<1>7. CASE UNCHANGED vars
  BY <1>1, <1>7, SameKeeps DEF vars, StoreInv, TypeOK
<1>8. QED
  BY <1>1, <1>2, <1>3, <1>4, <1>5, <1>6, <1>7, TickKeeps, SweepSelectKeeps, CrashKeeps DEF Next

\* The inductive invariant holds in every reachable state, for any number of
\* commands, any policy constants and any number of crashes.
THEOREM StoreInvariance == Spec => []StoreInv
BY InitKeeps, NextKeeps, PTL DEF Spec

\* The tables and the process variables keep their types.
THEOREM TypeCorrect == Spec => []TypeOK
<1>1. StoreInv => TypeOK
  BY DEF StoreInv
<1>2. QED
  BY <1>1, StoreInvariance, PTL

\* Whatever the polls, retries and crashes, a command never causes more than
\* 1 + max_retries packets: AttemptsCover bounds them by the persisted attempts,
\* which the type of the delivery row bounds.
THEOREM WireBudgetHolds == Spec => []WireBudget
<1>1. StoreInv => WireBudget
  BY CommandAssumption, PolicyTypes DEF StoreInv, TypeOK, DeliveryRow, AttemptsCover, WireBudget
<1>2. QED
  BY <1>1, StoreInvariance, PTL

\* An accepted, active command always has a response deadline on disk.
THEOREM AcceptedHasDeadlineHolds == Spec => []AcceptedHasDeadline
<1>1. StoreInv => AcceptedHasDeadline
  BY DEF StoreInv
<1>2. QED
  BY <1>1, StoreInvariance, PTL

\* A first-round cancellation before dispatch has put nothing on the wire.
THEOREM FirstRoundCancelHolds == Spec => []FirstRoundCancelIsHonest
<1>1. StoreInv => FirstRoundCancelIsHonest
  BY DEF StoreInv
<1>2. QED
  BY <1>1, StoreInvariance, PTL

---------------------------------------------------------------------------
(* What any step does to the outcome of an enrolled device's command.      *)

SameOutcome(c) ==
    /\ \/ commands'[c].state = commands[c].state
       \/ Active(c) /\ Active(c)'
    /\ commands'[c].retries = commands[c].retries

Submits(c) ==
    /\ commands[c].state = "ABSENT" /\ Active(c)'
    /\ commands'[c].retries = commands[c].retries

Settles(c) ==
    /\ Active(c) /\ commands'[c].state \in TerminalStates
    /\ commands'[c].retries = commands[c].retries

Reopens(c) ==
    /\ commands[c].state \in {"TIMEOUT", "FAILED"} /\ commands'[c].state = "QUEUED"
    /\ commands[c].retries < MaxRetries
    /\ commands'[c].retries = commands[c].retries + 1

Transmits(c) ==
    /\ SameOutcome(c)
    /\ commands[c].state # "ABSENT"
    /\ sends[c] < 1 + MaxRetries
    /\ sends' = [sends EXCEPT ![c] = @ + 1]

\* One step does one of these to at most one command.
OneStep(c) ==
    /\ \A d \in Enrolled \ {c} : SameOutcome(d)
    /\ \/ SameOutcome(c) /\ UNCHANGED sends
       \/ Submits(c) /\ UNCHANGED sends
       \/ Settles(c) /\ UNCHANGED sends
       \/ Reopens(c) /\ UNCHANGED sends
       \/ Transmits(c)

\* A transition of update_command_state keeps the outcome or settles it.
LEMMA MoveOutcome ==
    ASSUME StoreInv, NEW c \in Command, NEW s \in CommandStates \ {"QUEUED"}, NEW e \in Errors,
           TryMove(c, s, e)
    PROVE  /\ \A d \in Enrolled \ {c} : SameOutcome(d)
           /\ SameOutcome(c) \/ Settles(c)
<1>1. TypeOK
  BY DEF StoreInv
<1>2. \A d \in Enrolled \ {c} : SameOutcome(d)
  BY <1>1, MoveFacts, CommandAssumption DEF SameOutcome
<1>3. CASE CanMove(c, s)
  <2>1. commands'[c].state = s /\ commands'[c].retries = commands[c].retries
    BY <1>1, <1>3, MoveFacts
  <2>2. commands[c].state \in CommandStates
    BY <1>1, <1>3 DEF CanMove, TypeOK, CommandRow
  <2>3. s = commands[c].state \/ Active(c)
    BY <1>3, <2>2 DEF CanMove, ValidTransitions, Active, TerminalStates, CommandStates
  <2>4. s \in TerminalStates \/ Active(c)'
    BY <2>1 DEF Active, CommandStates, TerminalStates
  <2>5. QED
    BY <1>2, <2>1, <2>3, <2>4 DEF SameOutcome, Settles, Active
<1>4. CASE ~CanMove(c, s)
  <2>1. commands'[c] = commands[c]
    BY <1>1, <1>4, MoveFacts
  <2>2. QED
    BY <1>2, <2>1 DEF SameOutcome
<1>5. QED
  BY <1>2, <1>3, <1>4

\* A step that keeps every state and round keeps every outcome.
LEMMA QuietOutcome ==
    ASSUME NEW c \in Command,
           \A d \in Command : /\ commands'[d].state   = commands[d].state
                              /\ commands'[d].retries = commands[d].retries,
           UNCHANGED sends
    PROVE  OneStep(c)
BY CommandAssumption DEF OneStep, SameOutcome

LEMMA ContinueOutcome ==
    ASSUME StoreInv, NEW c \in Command, Continue(c) PROVE OneStep(c)
<1> USE DEF StoreInv
<1>1. UNCHANGED sends
  BY DEF Continue, ClaimMarksSent, ClaimExtends, AckFields, AckMoves, NackMoves, ResponseMoves,
     RetryResets
<1>2. CASE ClaimMarksSent(c) \/ AckMoves(c) \/ NackMoves(c) \/ ResponseMoves(c)
  <2>1. PICK s \in {"SENT", "ACK_RECEIVED", "FAILED", "COMPLETED"},
             e \in {"NONE", "REJECTED", "EXECUTION_FAILED"} : TryMove(c, s, e)
    BY <1>2 DEF ClaimMarksSent, AckMoves, NackMoves, ResponseMoves
  <2>2. s \in CommandStates \ {"QUEUED"} /\ e \in Errors
    BY DEF CommandStates, TerminalStates, Errors
  <2>3. (\A d \in Enrolled \ {c} : SameOutcome(d)) /\ (SameOutcome(c) \/ Settles(c))
    BY <2>1, <2>2, MoveOutcome
  <2>4. QED
    BY <1>1, <2>3 DEF OneStep
<1>3. CASE ClaimExtends(c) \/ AckFields(c)
  <2>1. \A d \in Command : /\ commands'[d].state   = commands[d].state
                           /\ commands'[d].retries = commands[d].retries
    BY <1>3 DEF ClaimExtends, AckFields, Put, TypeOK, CommandRow
  <2>2. QED
    BY <1>1, <2>1, QuietOutcome
<1>4. CASE RetryResets(c)
  <2>1. commands[c].state \in {"TIMEOUT", "FAILED"} /\ commands[c].retries < MaxRetries
    BY <1>4 DEF RetryResets, RetryInProgress
  <2>2. /\ \A d \in Command \ {c} : commands'[d] = commands[d]
        /\ commands'[c].state = "QUEUED" /\ commands'[c].retries = commands[c].retries + 1
    BY <1>4 DEF RetryResets, Put, TypeOK, Absent
  <2>3. Reopens(c)
    BY <2>1, <2>2 DEF Reopens
  <2>4. \A d \in Enrolled \ {c} : SameOutcome(d)
    BY <2>2, CommandAssumption DEF SameOutcome
  <2>5. QED
    BY <1>1, <2>3, <2>4 DEF OneStep
<1>5. QED
  BY <1>2, <1>3, <1>4 DEF Continue

\* The packet that leaves is within the budget.
LEMMA OfferOutcome ==
    ASSUME StoreInv, NEW c \in Command, Offer(c) PROVE OneStep(c)
<1>1. c \in Enrolled /\ commands[c].state # "ABSENT"
  BY DEF Offer, StoreInv, TypeOK, ClaimInProgress, AbsentIsUntouched
<1>2. sends[c] < 1 + MaxRetries
  BY <1>1, PolicyTypes DEF Offer, StoreInv, TypeOK, DeliveryRow, AttemptsCover
<1>3. /\ \A d \in Enrolled \ {c} : SameOutcome(d)
      /\ SameOutcome(c)
  BY OfferRow, CommandAssumption DEF SameOutcome, Active, TerminalStates
<1>4. sends' = [sends EXCEPT ![c] = @ + 1]
  BY DEF Offer
<1>5. QED
  BY <1>1, <1>2, <1>3, <1>4 DEF OneStep, Transmits

LEMMA DispatchOutcome ==
    ASSUME StoreInv, NEW c \in Command, Dispatch(c) PROVE OneStep(c)
<1>1. CASE Offer(c)
  BY <1>1, OfferOutcome
<1>2. CASE Claim(c)
  <2>1. UNCHANGED <<commands, sends>>
    BY <1>2 DEF Claim
  <2>2. QED
    BY <2>1, QuietOutcome
<1>3. CASE ClaimExpires(c) \/ RefuseOffer(c)
  <2>1. UNCHANGED sends
    BY <1>3 DEF ClaimExpires, RefuseOffer
  <2>2. PICK s \in {"TIMEOUT", "FAILED"}, e \in Errors : TryMove(c, s, e)
    <3>1. CASE ClaimExpires(c)
      BY <3>1, UpdateMoves, ReasonType DEF ClaimExpires
    <3>2. CASE RefuseOffer(c)
      BY <3>2 DEF RefuseOffer, Errors
    <3>3. QED
      BY <1>3, <3>1, <3>2
  <2>3. s \in CommandStates \ {"QUEUED"}
    BY DEF CommandStates, TerminalStates
  <2>4. (\A d \in Enrolled \ {c} : SameOutcome(d)) /\ (SameOutcome(c) \/ Settles(c))
    BY <2>2, <2>3, MoveOutcome
  <2>5. QED
    BY <2>1, <2>4 DEF OneStep
<1>4. QED
  BY <1>1, <1>2, <1>3 DEF Dispatch

LEMMA ReportOutcome ==
    ASSUME StoreInv, NEW c \in Command, Report(c) PROVE OneStep(c)
<1> USE DEF StoreInv
<1>1. CASE RouteFailed(c)
  <2>1. TryMove(c, "FAILED", "ROUTE_FAILED") /\ UNCHANGED sends
    BY <1>1, UpdateMoves DEF RouteFailed
  <2>2. "FAILED" \in CommandStates \ {"QUEUED"} /\ "ROUTE_FAILED" \in Errors
    BY DEF CommandStates, TerminalStates, Errors
  <2>3. (\A d \in Enrolled \ {c} : SameOutcome(d)) /\ (SameOutcome(c) \/ Settles(c))
    BY <2>1, <2>2, MoveOutcome
  <2>4. QED
    BY <2>1, <2>3 DEF OneStep
<1>2. CASE AckBegin(c) \/ NackBegin(c) \/ \E ok \in BOOLEAN : ResponseBegin(c, ok)
  <2>1. \A d \in Command : /\ commands'[d].state   = commands[d].state
                           /\ commands'[d].retries = commands[d].retries
    BY <1>2 DEF AckBegin, NackBegin, ResponseBegin, Put, TypeOK, CommandRow
  <2>2. UNCHANGED sends
    BY <1>2 DEF AckBegin, NackBegin, ResponseBegin
  <2>3. QED
    BY <2>1, <2>2, QuietOutcome
<1>3. QED
  BY <1>1, <1>2 DEF Report

NoStep == (\A d \in Enrolled : SameOutcome(d)) /\ UNCHANGED sends

LEMMA OperateOutcome ==
    ASSUME StoreInv, NEW c \in Command, Operate(c) PROVE OneStep(c) \/ NoStep
<1> USE DEF StoreInv
<1>1. CASE Create(c)
  <2>1. /\ commands[c].state = "ABSENT" /\ commands'[c].state = "QUEUED"
        /\ commands'[c].retries = 0
        /\ \A d \in Command \ {c} : commands'[d] = commands[d]
        /\ UNCHANGED sends
    BY <1>1 DEF Create, Put, TypeOK, Absent
  <2>2. commands[c].retries = 0
    BY <2>1 DEF AbsentIsUntouched
  <2>3. Submits(c)
    BY <2>1, <2>2 DEF Submits, Active, TerminalStates
  <2>4. QED
    BY <2>1, <2>3, CommandAssumption DEF OneStep, SameOutcome
<1>2. CASE Cancel(c) \/ CancelQueued(c)
  <2>1. PICK e \in Errors : TryMove(c, "CANCELLED", e)
    BY <1>2, UpdateMoves DEF Cancel, CancelQueued, Errors
  <2>2. "CANCELLED" \in CommandStates \ {"QUEUED"}
    BY DEF CommandStates, TerminalStates
  <2>3. (\A d \in Enrolled \ {c} : SameOutcome(d)) /\ (SameOutcome(c) \/ Settles(c))
    BY <2>1, <2>2, MoveOutcome
  <2>4. QED
    BY <1>2, <2>3 DEF OneStep, Cancel, CancelQueued
<1>3. CASE RetryBegin(c) \/ ExecuteBegin(c)
  <2>1. \A d \in Command : /\ commands'[d].state   = commands[d].state
                           /\ commands'[d].retries = commands[d].retries
    BY <1>3 DEF RetryBegin, ExecuteBegin, Put, TypeOK, CommandRow
  <2>2. UNCHANGED sends
    BY <1>3 DEF RetryBegin, ExecuteBegin
  <2>3. QED
    BY <2>1, <2>2, QuietOutcome
<1>4. CASE TimeoutNow(c) \/ ExecuteMoves(c) \/ \E s \in CommandStates : SetState(c, s)
  <2>1. c \notin Enrolled /\ UNCHANGED sends
    BY <1>4 DEF TimeoutNow, ExecuteMoves, SetState, Legacy, MarkingIsLegacy
  <2>2. PICK s \in CommandStates, e \in Errors : TryMove(c, s, e)
    BY <1>4, UpdateMoves DEF TimeoutNow, ExecuteMoves, SetState, Errors, CommandStates,
       TerminalStates
  <2>3. \A d \in Enrolled : commands'[d] = commands[d]
    BY <2>1, <2>2, MoveFacts, CommandAssumption
  <2>4. QED
    BY <2>1, <2>3 DEF NoStep, SameOutcome
<1>5. QED
  BY <1>1, <1>2, <1>3, <1>4 DEF Operate

\* Any step at all.
LEMMA StepOutcome ==
    ASSUME StoreInv, [Next]_vars PROVE (\E c \in Command : OneStep(c)) \/ NoStep
<1>1. ASSUME NEW c \in Command, SweepHandle(c) PROVE OneStep(c)
  <2>1. "TIMEOUT" \in CommandStates \ {"QUEUED"} /\ "TIMED_OUT" \in Errors
    BY DEF CommandStates, TerminalStates, Errors
  <2>2. CASE Active(c)
    BY <1>1, <2>1, <2>2, MoveOutcome DEF SweepHandle, OneStep
  <2>3. CASE ~Active(c)
    BY <1>1, <2>3, QuietOutcome DEF SweepHandle
  <2>4. QED
    BY <2>2, <2>3
<1>2. CASE Tick \/ SweepSelect \/ Crash \/ UNCHANGED vars
  BY <1>2 DEF Tick, SweepSelect, Crash, vars, NoStep, SameOutcome
<1>3. QED
  BY <1>1, <1>2, ContinueOutcome, DispatchOutcome, ReportOutcome, OperateOutcome DEF Next

\* Outcomes of enrolled devices' commands are final but for counted retries.
THEOREM OutcomesAreFinal == Spec => OutcomeIsFinal
<1>1. ASSUME StoreInv, [Next]_vars
      PROVE  [\A c \in Enrolled :
                 commands[c].state \in TerminalStates =>
                     \/ commands'[c].state = commands[c].state
                     \/ /\ commands[c].state \in {"TIMEOUT", "FAILED"}
                        /\ commands'[c].state = "QUEUED"
                        /\ commands'[c].retries = commands[c].retries + 1]_vars
  <2>1. SUFFICES ASSUME NEW c \in Enrolled, commands[c].state \in TerminalStates
                 PROVE  \/ commands'[c].state = commands[c].state
                        \/ /\ commands[c].state \in {"TIMEOUT", "FAILED"}
                           /\ commands'[c].state = "QUEUED"
                           /\ commands'[c].retries = commands[c].retries + 1
    OBVIOUS
  <2>2. SameOutcome(c) \/ Submits(c) \/ Settles(c) \/ Reopens(c)
    BY <1>1, StepOutcome DEF OneStep, NoStep, Transmits
  <2>3. QED
    BY <2>1, <2>2 DEF SameOutcome, Submits, Settles, Reopens, Active, TerminalStates
<1>2. QED
  BY <1>1, StoreInvariance, PTL DEF Spec, OutcomeIsFinal

---------------------------------------------------------------------------
(* The refinement of CommandPromise.                                       *)

Phases  == [c \in Enrolled |-> PhaseOf(c)]
Rounds  == [c \in Enrolled |-> commands[c].retries]
Packets == [c \in Enrolled |-> sends[c]]

\* What the mapping makes of a row.
LEMMA PhaseFacts ==
    ASSUME TypeOK, NEW c \in Command
    PROVE  /\ PhaseOf(c) = "none" <=> commands[c].state = "ABSENT"
           /\ PhaseOf(c) = "pending" <=> Active(c)
           /\ PhaseOf(c) \in Promise!Outcomes <=> commands[c].state \in TerminalStates
           /\ commands[c].state \in {"TIMEOUT", "FAILED"} => PhaseOf(c) \in {"failed", "unknown"}
<1>1. commands[c].state \in CommandStates \cup {"ABSENT"}
  BY DEF TypeOK, CommandRow
<1>2. QED
  BY <1>1 DEF PhaseOf, Active, TerminalStates, CommandStates, Promise!Outcomes

LEMMA SamePhase ==
    ASSUME TypeOK, TypeOK', NEW c \in Command, SameOutcome(c)
    PROVE  PhaseOf(c)' = PhaseOf(c) /\ commands'[c].retries = commands[c].retries
<1>1. CASE commands'[c].state = commands[c].state
  BY <1>1 DEF PhaseOf, SameOutcome
<1>2. CASE Active(c) /\ Active(c)'
  BY <1>2, PhaseFacts DEF SameOutcome, PhaseOf, Active, TerminalStates
<1>3. QED
  BY <1>1, <1>2 DEF SameOutcome

\* Initially nothing is submitted, and no packet has left.
LEMMA PromiseInit == Init => Promise!Init
<1>1. SUFFICES ASSUME Init PROVE Promise!Init
  OBVIOUS
<1>2. \A c \in Enrolled : /\ commands[c].state = "ABSENT" /\ commands[c].retries = 0
                          /\ sends[c] = 0
  BY <1>1, CommandAssumption DEF Init, Absent
<1>3. \A c \in Enrolled : PhaseOf(c) = "none"
  BY <1>2 DEF PhaseOf
<1>4. QED
  BY <1>2, <1>3 DEF Promise!Init

\* Every step of the store is a step of the promise, or invisible.
LEMMA PromiseStep ==
    ASSUME StoreInv, StoreInv', [Next]_vars PROVE [Promise!Next]_(Promise!vars)
<1> USE CommandAssumption
<1>1. TypeOK /\ TypeOK'
  BY DEF StoreInv
<1>2. CASE NoStep
  <2>1. Phases' = Phases /\ Rounds' = Rounds /\ Packets' = Packets
    BY <1>1, <1>2, SamePhase DEF NoStep, Phases, Rounds, Packets
  <2>2. QED
    BY <2>1 DEF Promise!vars, Phases, Rounds, Packets
<1>3. ASSUME NEW c \in Command \ Enrolled, OneStep(c) PROVE UNCHANGED (Promise!vars)
  <2>1. Phases' = Phases /\ Rounds' = Rounds
    BY <1>1, <1>3, SamePhase DEF OneStep, Phases, Rounds
  <2>2. Packets' = Packets
    BY <1>1, <1>3 DEF OneStep, Transmits, Packets, TypeOK
  <2>3. QED
    BY <2>1, <2>2 DEF Promise!vars, Phases, Rounds, Packets
<1>4. ASSUME NEW c \in Enrolled, OneStep(c) PROVE [Promise!Next]_(Promise!vars)
  <2>1. \A d \in Enrolled \ {c} : /\ PhaseOf(d)' = PhaseOf(d)
                                  /\ commands'[d].retries = commands[d].retries
    BY <1>1, <1>4, SamePhase DEF OneStep
  <2>2. /\ Phases' = [Phases EXCEPT ![c] = PhaseOf(c)']
        /\ Rounds' = [Rounds EXCEPT ![c] = commands'[c].retries]
    BY <2>1 DEF Phases, Rounds
  <2>3. CASE SameOutcome(c) /\ UNCHANGED sends
    <3>1. Phases' = Phases /\ Rounds' = Rounds /\ Packets' = Packets
      BY <1>1, <2>1, <2>3, SamePhase DEF Phases, Rounds, Packets
    <3>2. QED
      BY <3>1 DEF Promise!vars, Phases, Rounds, Packets
  <2>4. CASE Submits(c) /\ UNCHANGED sends
    <3>1. PhaseOf(c) = "none" /\ PhaseOf(c)' = "pending"
      BY <2>4 DEF Submits, PhaseOf, Active, TerminalStates
    <3>2. Rounds' = Rounds /\ Packets' = Packets
      BY <2>1, <2>4 DEF Submits, Rounds, Packets
    <3>3. Promise!Submit(c)
      BY <2>2, <3>1, <3>2 DEF Promise!Submit, Phases, Rounds, Packets
    <3>4. QED
      BY <3>3 DEF Promise!Next
  <2>5. CASE Settles(c) /\ UNCHANGED sends
    <3>1. PhaseOf(c) = "pending" /\ PhaseOf(c)' \in Promise!Outcomes
      BY <2>5 DEF Settles, PhaseOf, Active, TerminalStates, Promise!Outcomes
    <3>2. Rounds' = Rounds /\ Packets' = Packets
      BY <2>1, <2>5 DEF Settles, Rounds, Packets
    <3>3. Promise!Settle(c)
      BY <2>2, <3>1, <3>2 DEF Promise!Settle, Phases, Rounds, Packets
    <3>4. QED
      BY <3>3 DEF Promise!Next
  <2>6. CASE Reopens(c) /\ UNCHANGED sends
    <3>1. PhaseOf(c) \in {"failed", "unknown"} /\ PhaseOf(c)' = "pending"
      BY <2>6 DEF Reopens, PhaseOf
    <3>2. Packets' = Packets
      BY <2>6 DEF Packets
    <3>3. commands[c].retries < MaxRetries /\ commands'[c].retries = commands[c].retries + 1
      BY <2>6 DEF Reopens
    <3>4. Promise!Reopen(c)
      BY <2>2, <3>1, <3>2, <3>3 DEF Promise!Reopen, Phases, Rounds, Packets
    <3>5. QED
      BY <3>4 DEF Promise!Next
  <2>7. CASE Transmits(c)
    <3>1. Phases' = Phases /\ Rounds' = Rounds
      BY <1>1, <2>1, <2>7, SamePhase DEF Transmits, Phases, Rounds
    <3>2. PhaseOf(c) # "none"
      BY <1>1, <2>7, PhaseFacts DEF Transmits
    <3>3. sends[c] < 1 + MaxRetries /\ Packets' = [Packets EXCEPT ![c] = @ + 1]
      BY <1>1, <2>7 DEF Transmits, Packets, TypeOK
    <3>4. Promise!Transmit(c)
      BY <3>1, <3>2, <3>3 DEF Promise!Transmit, Phases, Rounds, Packets
    <3>5. QED
      BY <3>4 DEF Promise!Next
  <2>8. QED
    BY <1>4, <2>3, <2>4, <2>5, <2>6, <2>7 DEF OneStep
<1>5. QED
  BY <1>2, <1>3, <1>4, StepOutcome

\* The command store implements the safety half of CommandPromise.
THEOREM KeepsPromiseSafely == Spec => Promise!Safe
<1>1. StoreInv /\ StoreInv' /\ [Next]_vars => [Promise!Next]_(Promise!vars)
  BY PromiseStep
<1>2. QED
  BY <1>1, PromiseInit, StoreInvariance, PTL DEF Spec, Promise!Safe
---------------------------------------------------------------------------
(* The rest of IndInv, one command at a time: what its row says of the     *)
(* answers and deadlines it has met.                                       *)

\* Why the command timed out, if a claim said so.
ReasonIsHonest(c) ==
    /\ commands[c].error \in {"ACK_TIMEOUT", "RESPONSE_TIMEOUT"} => commands[c].state = "TIMEOUT"
    /\ commands[c].error = "ACK_TIMEOUT" => ~Acked(c) /\ ~AttemptsLeft(c)
    /\ commands[c].error = "RESPONSE_TIMEOUT" => Acked(c)

AnswerIsHonest(c) ==
    /\ Holds(c, "ACK_FIELDS") => AwaitsAck(c)
    /\ commands[c].ack = "REFUSED" =>
         \/ commands[c].state = "FAILED"
         \/ Holds(c, "NACK_STATE") /\ AwaitsAck(c)
         \/ c \in crashes.cut

DeadlineIsNear(c) ==
    /\ commands[c].state # "ABSENT" => delivery[c].expiresAt # NoTime
    /\ delivery[c].expiresAt <= now + Expiry
    /\ Active(c) =>
         /\ commands[c].state \in SweepStates /\ commands[c].timeoutAt # NoTime
         /\ commands[c].timeoutAt <= now + Expiry \/ commands[c].timeoutAt <= now + Timeout

RowIsHonest(c) == ReasonIsHonest(c) /\ AnswerIsHonest(c) /\ DeadlineIsNear(c)

LEMMA IndInvParts == IndInv <=> StoreInv /\ \A c \in Enrolled : RowIsHonest(c)
BY DEF IndInv, AckIsAwaited, ClaimReasonStays, RefusedFails, ActiveIsSwept, TimeoutReasonIsHonest,
       RowIsHonest, ReasonIsHonest, AnswerIsHonest, DeadlineIsNear

\* The numbers of a command.
LEMMA RowNumbers ==
    ASSUME TypeOK, NEW c \in Command
    PROVE  /\ now \in Nat /\ now + Expiry \in Nat /\ now + Timeout \in Nat
           /\ commands[c].timeoutAt \in Int /\ delivery[c].expiresAt \in Int
           /\ delivery[c].attempts \in Nat /\ NoTime = -1
           /\ commands[c].state \in CommandStates \cup {"ABSENT"}
           /\ commands[c].error \in Errors
BY PolicyTypes DEF TypeOK, CommandRow, DeliveryRow, Time, NoTime

\* A command that a step leaves alone, while time may pass and other handlers move on.
LEMMA LeftAlone ==
    ASSUME TypeOK, NEW c \in Enrolled, RowIsHonest(c),
           commands'[c] = commands[c],
           delivery'[c].expiresAt = delivery[c].expiresAt,
           delivery'[c].attempts = delivery[c].attempts,
           now' \in Nat, now <= now', crashes.cut \subseteq crashes'.cut,
           Holds(c, "ACK_FIELDS")' => Holds(c, "ACK_FIELDS"),
           Holds(c, "NACK_STATE") => Holds(c, "NACK_STATE")' \/ c \in crashes'.cut
    PROVE  RowIsHonest(c)'
<1> USE CommandAssumption DEF RowIsHonest
<1>1. c \in Command
  OBVIOUS
<1>2. ReasonIsHonest(c)'
  BY DEF ReasonIsHonest, Acked, AttemptsLeft
<1>3. AnswerIsHonest(c)'
  BY DEF AnswerIsHonest, AwaitsAck
<1>4. DeadlineIsNear(c)'
  <2>1. now' + Expiry \in Nat /\ now' + Timeout \in Nat
    <3>1. \A t \in Nat : t + Expiry \in Nat /\ t + Timeout \in Nat
      BY PolicyTypes
    <3>2. QED
      BY <3>1
  <2>2. now + Expiry <= now' + Expiry /\ now + Timeout <= now' + Timeout
    <3>1. now \in Nat
      BY DEF TypeOK
    <3>2. \A t, u, n \in Nat : t <= u => t + n <= u + n
      OBVIOUS
    <3>3. QED
      BY <3>1, <3>2, PolicyTypes
  <2>3. QED
    BY <1>1, <2>1, <2>2, RowNumbers DEF DeadlineIsNear, Active
<1>5. QED
  BY <1>2, <1>3, <1>4

\* A transition of update_command_state, refused or not.
LEMMA MovedRow ==
    ASSUME StoreInv, NEW c \in Enrolled, RowIsHonest(c),
           NEW s \in TerminalStates \cup {"SENT", "ACK_RECEIVED"}, NEW e \in Errors,
           TryMove(c, s, e),
           UNCHANGED <<delivery, now, crashes>>,
           ~Holds(c, "ACK_FIELDS")',
           Holds(c, "NACK_STATE") => s = "FAILED",
           e = "ACK_TIMEOUT" => s = "TIMEOUT" /\ ~Acked(c) /\ ~AttemptsLeft(c),
           e = "RESPONSE_TIMEOUT" => s = "TIMEOUT" /\ Acked(c)
    PROVE  RowIsHonest(c)'
<1> USE CommandAssumption DEF RowIsHonest
<1>1. TypeOK /\ c \in Command /\ s \in CommandStates
  BY DEF StoreInv, CommandStates, TerminalStates
<1>2. CASE ~CanMove(c, s)
  <2>1. commands'[c] = commands[c]
    BY <1>1, <1>2, MoveFacts
  <2>2. ~Holds(c, "NACK_STATE") \/ ~AwaitsAck(c)
    BY <1>2 DEF AwaitsAck, CanMove, ValidTransitions, TerminalStates
  <2>3. ReasonIsHonest(c)' /\ AnswerIsHonest(c)' /\ DeadlineIsNear(c)'
    BY <2>1, <2>2 DEF ReasonIsHonest, AnswerIsHonest, DeadlineIsNear, Acked, AttemptsLeft, Active,
       AwaitsAck
  <2>4. QED
    BY <2>3
<1>3. CASE CanMove(c, s)
  <2>1. commands[c] \in CommandRow
    BY <1>1 DEF TypeOK
  <2>2. commands'[c] = Moved(commands[c], s, e)
    BY <1>1, <1>3 DEF TryMove, TypeOK
  <2>3. /\ commands'[c].state = s /\ commands'[c].error = ErrorText(commands[c], s, e)
        /\ commands'[c].ack = commands[c].ack
        /\ commands'[c].timeoutAt = IF s = "SENT" THEN now + Timeout ELSE commands[c].timeoutAt
    BY <2>1, <2>2 DEF Moved, CommandRow
  <2>4. s = commands[c].state \/ s \in ValidTransitions[commands[c].state]
    BY <1>3 DEF CanMove
  <2>5. ReasonIsHonest(c)'
    <3>1. commands[c].state = "TIMEOUT" => s = "TIMEOUT"
      BY <2>4 DEF ValidTransitions, TerminalStates
    <3>2. CASE e = "NONE"
      <4>1. commands'[c].error \in {"ACK_TIMEOUT", "RESPONSE_TIMEOUT"}
            => commands'[c].error = commands[c].error
        BY <2>3, <3>2 DEF ErrorText
      <4>2. QED
        BY <2>3, <3>1, <4>1 DEF ReasonIsHonest, Acked, AttemptsLeft
    <3>3. CASE e # "NONE"
      <4>1. commands'[c].error = e
        BY <2>3, <3>3 DEF ErrorText
      <4>2. QED
        BY <2>3, <4>1 DEF ReasonIsHonest, Acked, AttemptsLeft
    <3>4. QED
      BY <3>2, <3>3
  <2>6. AnswerIsHonest(c)'
    <3>1. commands[c].state = "FAILED" => s = "FAILED"
      BY <2>4 DEF ValidTransitions, TerminalStates
    <3>2. QED
      BY <2>3, <3>1 DEF AnswerIsHonest
  <2>7. DeadlineIsNear(c)'
    <3>1. CASE s \in TerminalStates
      BY <1>3, <2>3, <3>1 DEF DeadlineIsNear, Active, CanMove
    <3>2. CASE s \in {"SENT", "ACK_RECEIVED"}
      <4>1. commands[c].state \in CommandStates
        BY <1>1, <1>3, RowNumbers DEF CanMove
      <4>2. Active(c)
        BY <2>4, <3>2, <4>1 DEF Active, ValidTransitions, TerminalStates, CommandStates
      <4>3. now + Timeout # NoTime /\ now + Timeout <= now + Timeout
        BY <1>1, RowNumbers
      <4>4. QED
        BY <2>3, <3>2, <4>2, <4>3 DEF DeadlineIsNear, SweepStates
    <3>3. QED
      BY <3>1, <3>2
  <2>8. QED
    BY <2>5, <2>6, <2>7
<1>4. QED
  BY <1>2, <1>3

\* The other commands, while one command's handler goes on.
LEMMA OthersStay ==
    ASSUME IndInv, NEW c \in Command, 
           txn' = txn \/ (/\ LockFree \/ txn.cmd = c
                          /\ txn'.op = "FREE" \/ txn'.cmd = c),
           \A d \in Command \ {c} : commands'[d] = commands[d] /\ delivery'[d] = delivery[d],
           UNCHANGED <<now, crashes>>
    PROVE  \A d \in Enrolled \ {c} : RowIsHonest(d)'
<1> USE CommandAssumption
<1>1. SUFFICES ASSUME NEW d \in Enrolled, d # c PROVE RowIsHonest(d)'
  OBVIOUS
<1>2. TypeOK /\ d \in Command /\ RowIsHonest(d) /\ d # NoCommand
  BY IndInvParts DEF StoreInv
<1>3. \A op \in TxnOps : Holds(d, op)' <=> Holds(d, op)
  BY <1>1, <1>2 DEF Holds, LockFree, TxnOps
<1>4. "ACK_FIELDS" \in TxnOps /\ "NACK_STATE" \in TxnOps
  BY DEF TxnOps
<1>5. now' \in Nat /\ now <= now'
  BY <1>2 DEF TypeOK
<1>6. QED
  BY <1>1, <1>2, <1>3, <1>4, <1>5, LeftAlone

\* Whoever holds the lock has it for one command.
LEMMA LockOwner ==
    ASSUME TypeOK, NEW c \in Command
    PROVE  /\ \A op : Holds(c, op) => txn.cmd = c
           /\ \A op : [op |-> op, cmd |-> c].cmd = c
           /\ Free.cmd = NoCommand
           /\ LockFree => \A op \in TxnOps : ~Holds(c, op)
BY DEF Holds, Free, LockFree, TxnOps

\* A step that writes neither table, while time may pass.
LEMMA SameRowsStay ==
    ASSUME IndInv, UNCHANGED <<commands, delivery, crashes>>, txn' = txn, now' \in Nat, now <= now'
    PROVE  \A d \in Enrolled : RowIsHonest(d)'
<1> USE CommandAssumption
<1>1. TypeOK /\ \A d \in Enrolled : RowIsHonest(d)
  BY IndInvParts DEF StoreInv
<1>2. SUFFICES ASSUME NEW d \in Enrolled PROVE RowIsHonest(d)'
  OBVIOUS
<1>3. \A op : Holds(d, op)' <=> Holds(d, op)
  BY DEF Holds
<1>4. QED
  BY <1>1, <1>3, LeftAlone

\* A step that calls update_command_state for one command.
LEMMA MoveIsHonest ==
    ASSUME IndInv, NEW c \in Command, NEW s \in CommandStates, NEW e \in Errors,
           TryMove(c, s, e), UNCHANGED <<delivery, now, crashes>>,
           LockFree \/ txn.cmd = c,
           txn'.op = "FREE" \/ (txn'.cmd = c /\ txn'.op # "ACK_FIELDS"),
           c \in Enrolled =>
               /\ s \in TerminalStates \cup {"SENT", "ACK_RECEIVED"}
               /\ LockFree \/ txn.op # "NACK_STATE" \/ s = "FAILED"
               /\ e = "ACK_TIMEOUT" => s = "TIMEOUT" /\ ~Acked(c) /\ ~AttemptsLeft(c)
               /\ e = "RESPONSE_TIMEOUT" => s = "TIMEOUT" /\ Acked(c)
    PROVE  \A d \in Enrolled : RowIsHonest(d)'
<1>1. TypeOK /\ StoreInv /\ \A d \in Enrolled : RowIsHonest(d)
  BY IndInvParts DEF StoreInv
<1>2. \A d \in Command \ {c} : commands'[d] = commands[d]
  BY <1>1, MoveFacts
<1>3. \A d \in Enrolled \ {c} : RowIsHonest(d)'
  BY <1>2, OthersStay
<1>4. ASSUME c \in Enrolled PROVE RowIsHonest(c)'
  <2>1. ~Holds(c, "ACK_FIELDS")' /\ (Holds(c, "NACK_STATE") => s = "FAILED")
    BY <1>4 DEF Holds, LockFree
  <2>2. QED
    BY <1>1, <1>4, <2>1, MovedRow
<1>5. QED
  BY <1>3, <1>4

\* The commits with which a handler moves the row and lets go of the lock.
LEMMA FinishIsHonest ==
    ASSUME IndInv, NEW c \in Command,
           ClaimMarksSent(c) \/ AckMoves(c) \/ NackMoves(c) \/ ResponseMoves(c)
    PROVE  \A d \in Enrolled : RowIsHonest(d)'
<1>1. TypeOK
  BY DEF IndInv, StoreInv
<1>2. UNCHANGED <<delivery, now, crashes>>
  BY DEF ClaimMarksSent, AckMoves, NackMoves, ResponseMoves
<1>3. txn.cmd = c /\ (txn'.op = "FREE" \/ (txn'.cmd = c /\ txn'.op # "ACK_FIELDS"))
  BY DEF ClaimMarksSent, AckMoves, NackMoves, ResponseMoves, Holds, Free
<1>4. PICK s \in {"SENT", "ACK_RECEIVED", "FAILED", "COMPLETED"},
           e \in {"NONE", "REJECTED", "EXECUTION_FAILED"} :
             TryMove(c, s, e) /\ (txn.op = "NACK_STATE" => s = "FAILED")
  BY DEF ClaimMarksSent, AckMoves, NackMoves, ResponseMoves, Holds
<1>5. s \in CommandStates /\ e \in Errors /\ s \in TerminalStates \cup {"SENT", "ACK_RECEIVED"}
  BY DEF CommandStates, TerminalStates, Errors
<1>6. QED
  BY <1>2, <1>3, <1>4, <1>5, MoveIsHonest

\* The updates that need the lock only for themselves.
LEMMA UpdateIsHonest ==
    ASSUME IndInv, NEW c \in Command, NEW s \in CommandStates, NEW e \in Errors, Update(c, s, e),
           UNCHANGED <<delivery, now, txn, crashes>>,
           c \in Enrolled =>
               /\ s \in TerminalStates \cup {"SENT", "ACK_RECEIVED"}
               /\ e = "ACK_TIMEOUT" => s = "TIMEOUT" /\ ~Acked(c) /\ ~AttemptsLeft(c)
               /\ e = "RESPONSE_TIMEOUT" => s = "TIMEOUT" /\ Acked(c)
    PROVE  \A d \in Enrolled : RowIsHonest(d)'
<1>1. TryMove(c, s, e) /\ LockFree
  BY UpdateMoves
<1>2. txn'.op = "FREE"
  BY <1>1 DEF LockFree
<1>3. QED
  BY <1>1, <1>2, MoveIsHonest

\* What a claim writes as the reason is so.
LEMMA ReasonFacts ==
    ASSUME NEW c \in Command
    PROVE  /\ ClaimReason(c) = "ACK_TIMEOUT" => ~Acked(c) /\ ~AttemptsLeft(c)
           /\ ClaimReason(c) = "RESPONSE_TIMEOUT" => Acked(c)
BY DEF ClaimReason

LEMMA DispatchIsHonest ==
    ASSUME IndInv, NEW c \in Command, Dispatch(c) PROVE \A d \in Enrolled : RowIsHonest(d)'
<1> USE CommandAssumption
<1>1. TypeOK /\ \A d \in Enrolled : RowIsHonest(d)
  BY IndInvParts DEF StoreInv
<1>2. CASE ClaimExpires(c)
  <2>1. Update(c, "TIMEOUT", ClaimReason(c)) /\ UNCHANGED <<delivery, now, txn, crashes>>
    BY <1>2 DEF ClaimExpires
  <2>2. "TIMEOUT" \in CommandStates /\ "TIMEOUT" \in TerminalStates /\ ClaimReason(c) \in Errors
    BY ReasonType DEF CommandStates, TerminalStates
  <2>3. QED
    BY <2>1, <2>2, ReasonFacts, UpdateIsHonest
<1>3. CASE Claim(c)
  <2>1. /\ commands' = commands /\ UNCHANGED <<now, crashes>> /\ LockFree /\ txn'.cmd = c
        /\ txn'.op \in {"MARK_SENT", "EXTEND"} /\ c \in Enrolled /\ Active(c)
        /\ \A d \in Command \ {c} : delivery'[d] = delivery[d]
        /\ delivery'[c].expiresAt = delivery[c].expiresAt
    BY <1>1, <1>3 DEF Claim, CanClaim, TypeOK, DeliveryRow
  <2>2. \A d \in Enrolled \ {c} : RowIsHonest(d)'
    BY <2>1, OthersStay
  <2>3. RowIsHonest(c)'
    <3>1. RowIsHonest(c)
      BY <1>1, <2>1
    <3>2. ReasonIsHonest(c)'
      BY <2>1, <3>1 DEF RowIsHonest, ReasonIsHonest, Active, TerminalStates
    <3>3. AnswerIsHonest(c)'
      BY <2>1, <3>1 DEF RowIsHonest, AnswerIsHonest, Holds, LockFree
    <3>4. DeadlineIsNear(c)'
      BY <2>1, <3>1 DEF RowIsHonest, DeadlineIsNear, Active
    <3>5. QED
      BY <3>2, <3>3, <3>4 DEF RowIsHonest
  <2>4. QED
    BY <2>2, <2>3
<1>4. CASE Offer(c)
  <2>1. UNCHANGED <<delivery, now, txn, crashes>>
    BY <1>4 DEF Offer
  <2>2. CASE UNCHANGED commands
    <3>1. now' \in Nat /\ now <= now'
      BY <1>1, <2>1 DEF TypeOK
    <3>2. QED
      BY <2>1, <2>2, <3>1, SameRowsStay
  <2>3. CASE Update(c, "SENT", "NONE")
    BY <2>1, <2>3, UpdateIsHonest DEF CommandStates, Errors
  <2>4. QED
    BY <1>4, <2>2, <2>3 DEF Offer
<1>5. CASE RefuseOffer(c)
  <2>1. TryMove(c, "FAILED", "UNSENDABLE") /\ LockFree /\ UNCHANGED <<delivery, now, txn, crashes>>
    BY <1>5 DEF RefuseOffer
  <2>2. "FAILED" \in CommandStates /\ "FAILED" \in TerminalStates /\ "UNSENDABLE" \in Errors
    BY DEF CommandStates, TerminalStates, Errors
  <2>3. txn'.op = "FREE"
    BY <2>1 DEF LockFree
  <2>4. QED
    BY <2>1, <2>2, <2>3, MoveIsHonest
<1>6. QED
  BY <1>2, <1>3, <1>4, <1>5 DEF Dispatch

\* A commit that writes other columns of the row, or of the delivery row.
LEMMA WriteIsHonest ==
    ASSUME IndInv, NEW c \in Command, UNCHANGED <<now, crashes>>,
           txn' = txn \/ (/\ LockFree \/ txn.cmd = c
                          /\ txn'.op = "FREE" \/ txn'.cmd = c),
           \A d \in Command \ {c} : commands'[d] = commands[d] /\ delivery'[d] = delivery[d],
           c \in Enrolled => RowIsHonest(c)'
    PROVE  \A d \in Enrolled : RowIsHonest(d)'
BY OthersStay

LEMMA ContinueIsHonest ==
    ASSUME IndInv, NEW c \in Command, Continue(c) PROVE \A d \in Enrolled : RowIsHonest(d)'
<1> USE CommandAssumption
<1>1. StoreInv /\ TypeOK /\ \A d \in Enrolled : RowIsHonest(d)
  BY IndInvParts DEF StoreInv
<1>2. c \in Enrolled => RowIsHonest(c)
  BY <1>1
<1>3. CASE ClaimMarksSent(c) \/ AckMoves(c) \/ NackMoves(c) \/ ResponseMoves(c)
  BY <1>3, FinishIsHonest
<1>4. CASE ClaimExtends(c)
  <2>1. /\ \A d \in Command \ {c} : commands'[d] = commands[d]
        /\ commands'[c] = [commands[c] EXCEPT !.timeoutAt = delivery[c].expiresAt]
        /\ UNCHANGED <<delivery, now, crashes>> /\ txn' = Free /\ txn.cmd = c
        /\ ~Holds(c, "NACK_STATE")
    BY <1>1, <1>4 DEF ClaimExtends, Put, TypeOK, Holds
  <2>2. /\ commands'[c].state = commands[c].state /\ commands'[c].error = commands[c].error
        /\ commands'[c].ack = commands[c].ack /\ commands'[c].timeoutAt = delivery[c].expiresAt
        /\ ~Holds(c, "ACK_FIELDS")'
    BY <1>1, <2>1 DEF TypeOK, CommandRow, Holds, Free
  <2>3. ASSUME c \in Enrolled PROVE RowIsHonest(c)'
    <3>1. ReasonIsHonest(c)'
      BY <1>2, <2>1, <2>2, <2>3 DEF RowIsHonest, ReasonIsHonest, Acked, AttemptsLeft
    <3>2. AnswerIsHonest(c)'
      BY <1>2, <2>1, <2>2, <2>3 DEF RowIsHonest, AnswerIsHonest
    <3>3. DeadlineIsNear(c)'
      BY <1>2, <2>1, <2>2, <2>3 DEF RowIsHonest, DeadlineIsNear, Active
    <3>4. QED
      BY <3>1, <3>2, <3>3 DEF RowIsHonest
  <2>4. QED
    BY <2>1, <2>3, WriteIsHonest DEF Free
<1>5. CASE AckFields(c)
  <2>1. /\ \A d \in Command \ {c} : commands'[d] = commands[d]
        /\ commands'[c] = [commands[c] EXCEPT !.ack = "AFFIRMED"]
        /\ UNCHANGED <<delivery, now, crashes>> /\ txn' = [op |-> "ACK_STATE", cmd |-> c]
        /\ txn.cmd = c /\ Holds(c, "ACK_FIELDS")
    BY <1>1, <1>5 DEF AckFields, Put, TypeOK, Holds
  <2>2. /\ commands'[c].state = commands[c].state /\ commands'[c].error = commands[c].error
        /\ commands'[c].ack = "AFFIRMED" /\ commands'[c].timeoutAt = commands[c].timeoutAt
        /\ ~Holds(c, "ACK_FIELDS")'
    BY <1>1, <2>1 DEF TypeOK, CommandRow, Holds
  <2>3. ASSUME c \in Enrolled PROVE RowIsHonest(c)'
    <3>1. AwaitsAck(c)
      BY <1>2, <2>1, <2>3 DEF RowIsHonest, AnswerIsHonest
    <3>2. ReasonIsHonest(c)'
      BY <1>2, <2>2, <2>3, <3>1 DEF RowIsHonest, ReasonIsHonest, AwaitsAck
    <3>3. AnswerIsHonest(c)'
      BY <2>2 DEF AnswerIsHonest
    <3>4. DeadlineIsNear(c)'
      BY <1>2, <2>1, <2>2, <2>3 DEF RowIsHonest, DeadlineIsNear, Active
    <3>5. QED
      BY <3>2, <3>3, <3>4 DEF RowIsHonest
  <2>4. QED
    BY <2>1, <2>3, WriteIsHonest
<1>6. CASE RetryResets(c)
  <2>1. /\ \A d \in Command \ {c} : commands'[d] = commands[d]
        /\ UNCHANGED <<delivery, now, crashes>> /\ txn' = Free /\ txn.cmd = c
    BY <1>1, <1>6 DEF RetryResets, Put, TypeOK, Holds
  <2>2. /\ commands'[c].state = "QUEUED" /\ commands'[c].error = "NONE"
        /\ commands'[c].ack = "NONE" /\ commands'[c].timeoutAt = now + Timeout
    BY <1>1, <1>6 DEF RetryResets, Put, TypeOK, Absent
  <2>3. commands[c].state # "ABSENT"
    BY <1>1, <1>6 DEF RetryResets, StoreInv, RetryInProgress
  <2>4. ASSUME c \in Enrolled PROVE RowIsHonest(c)'
    <3>1. ~Holds(c, "ACK_FIELDS")'
      BY <2>1 DEF Holds, Free
    <3>2. ReasonIsHonest(c)' /\ AnswerIsHonest(c)'
      BY <2>2, <3>1 DEF ReasonIsHonest, AnswerIsHonest
    <3>3. DeadlineIsNear(c)'
      BY <1>1, <1>2, <2>1, <2>2, <2>3, <2>4, RowNumbers DEF RowIsHonest, DeadlineIsNear, SweepStates
    <3>4. QED
      BY <3>2, <3>3 DEF RowIsHonest
  <2>5. QED
    BY <2>1, <2>4, WriteIsHonest DEF Free
<1>7. QED
  BY <1>3, <1>4, <1>5, <1>6 DEF Continue

LEMMA ReportIsHonest ==
    ASSUME IndInv, NEW c \in Command, Report(c) PROVE \A d \in Enrolled : RowIsHonest(d)'
<1> USE CommandAssumption
<1>1. StoreInv /\ TypeOK /\ \A d \in Enrolled : RowIsHonest(d)
  BY IndInvParts DEF StoreInv
<1>2. c \in Enrolled => RowIsHonest(c)
  BY <1>1
<1>3. CASE AckBegin(c)
  <2>1. /\ AwaitsAck(c) /\ LockFree /\ txn' = [op |-> "ACK_FIELDS", cmd |-> c]
        /\ \A d \in Command \ {c} : commands'[d] = commands[d] /\ delivery'[d] = delivery[d]
        /\ UNCHANGED <<now, crashes>>
    BY <1>1, <1>3 DEF AckBegin, Put, TypeOK
  <2>2. /\ commands'[c].state = commands[c].state /\ commands'[c].error = commands[c].error
        /\ commands'[c].ack = commands[c].ack
        /\ delivery'[c].expiresAt = delivery[c].expiresAt
        /\ \/ commands'[c].timeoutAt = commands[c].timeoutAt
           \/ commands'[c].timeoutAt = Min2(delivery[c].expiresAt, now + ResponseTimeout)
    BY <1>1, <1>3 DEF AckBegin, Put, TypeOK, CommandRow, DeliveryRow
  <2>3. ASSUME c \in Enrolled PROVE RowIsHonest(c)'
    <3>1. ReasonIsHonest(c)'
      BY <1>2, <2>1, <2>2, <2>3 DEF RowIsHonest, ReasonIsHonest, AwaitsAck
    <3>2. AnswerIsHonest(c)'
      <4>1. AwaitsAck(c)'
        BY <2>1, <2>2 DEF AwaitsAck
      <4>2. ~Holds(c, "NACK_STATE")
        BY <2>1 DEF Holds, LockFree
      <4>3. QED
        BY <1>2, <2>1, <2>2, <2>3, <4>1, <4>2 DEF RowIsHonest, AnswerIsHonest
    <3>3. DeadlineIsNear(c)'
      <4>1. delivery[c].expiresAt # NoTime =>
              /\ Min2(delivery[c].expiresAt, now + ResponseTimeout) # NoTime
              /\ Min2(delivery[c].expiresAt, now + ResponseTimeout) <= delivery[c].expiresAt
              /\ Min2(delivery[c].expiresAt, now + ResponseTimeout) \in Int
        BY <1>1, RowNumbers, PolicyTypes DEF Min2
      <4>2. QED
        BY <1>1, <1>2, <2>1, <2>2, <2>3, <4>1, RowNumbers DEF RowIsHonest, DeadlineIsNear, Active
    <3>4. QED
      BY <3>1, <3>2, <3>3 DEF RowIsHonest
  <2>4. QED
    BY <2>1, <2>3, WriteIsHonest
<1>4. CASE NackBegin(c)
  <2>1. /\ AwaitsAck(c) /\ LockFree /\ txn' = [op |-> "NACK_STATE", cmd |-> c]
        /\ \A d \in Command \ {c} : commands'[d] = commands[d]
        /\ UNCHANGED <<delivery, now, crashes>>
    BY <1>1, <1>4 DEF NackBegin, Put, TypeOK
  <2>2. /\ commands'[c].state = commands[c].state /\ commands'[c].error = commands[c].error
        /\ commands'[c].timeoutAt = commands[c].timeoutAt
    BY <1>1, <1>4 DEF NackBegin, Put, TypeOK, CommandRow
  <2>3. ASSUME c \in Enrolled PROVE RowIsHonest(c)'
    <3>1. ReasonIsHonest(c)'
      BY <1>2, <2>1, <2>2, <2>3 DEF RowIsHonest, ReasonIsHonest, AwaitsAck
    <3>2. AnswerIsHonest(c)'
      BY <2>1, <2>2 DEF AnswerIsHonest, AwaitsAck, Holds
    <3>3. DeadlineIsNear(c)'
      BY <1>2, <2>1, <2>2, <2>3 DEF RowIsHonest, DeadlineIsNear, Active
    <3>4. QED
      BY <3>1, <3>2, <3>3 DEF RowIsHonest
  <2>4. QED
    BY <2>1, <2>3, WriteIsHonest
<1>5. CASE \E ok \in BOOLEAN : ResponseBegin(c, ok)
  <2>1. /\ LockFree /\ txn'.cmd = c /\ txn'.op \in {"RESPONSE_OK", "RESPONSE_FAIL"}
        /\ \A d \in Command \ {c} : commands'[d] = commands[d]
        /\ UNCHANGED <<delivery, now, crashes>>
    BY <1>1, <1>5 DEF ResponseBegin, Put, TypeOK
  <2>2. /\ commands'[c].state = commands[c].state /\ commands'[c].error = commands[c].error
        /\ commands'[c].ack = commands[c].ack
        /\ commands'[c].timeoutAt = commands[c].timeoutAt
    BY <1>1, <1>5 DEF ResponseBegin, Put, TypeOK, CommandRow
  <2>3. ASSUME c \in Enrolled PROVE RowIsHonest(c)'
    <3>1. ReasonIsHonest(c)'
      BY <1>2, <2>1, <2>2, <2>3 DEF RowIsHonest, ReasonIsHonest, Acked, AttemptsLeft
    <3>2. AnswerIsHonest(c)'
      BY <1>2, <2>1, <2>2, <2>3 DEF RowIsHonest, AnswerIsHonest, Holds, LockFree
    <3>3. DeadlineIsNear(c)'
      BY <1>2, <2>1, <2>2, <2>3 DEF RowIsHonest, DeadlineIsNear, Active
    <3>4. QED
      BY <3>1, <3>2, <3>3 DEF RowIsHonest
  <2>4. QED
    BY <2>1, <2>3, WriteIsHonest
<1>6. CASE RouteFailed(c)
  <2>1. Update(c, "FAILED", "ROUTE_FAILED") /\ UNCHANGED <<delivery, now, txn, crashes>>
    BY <1>6 DEF RouteFailed
  <2>2. QED
    BY <2>1, UpdateIsHonest DEF CommandStates, TerminalStates, Errors
<1>7. QED
  BY <1>3, <1>4, <1>5, <1>6 DEF Report

\* A new row of an enrolled device comes with its delivery row.
LEMMA CreateIsHonest ==
    ASSUME IndInv, NEW c \in Command, Create(c) PROVE \A d \in Enrolled : RowIsHonest(d)'
<1>1. StoreInv /\ TypeOK
  BY DEF IndInv, StoreInv
<1>2. /\ LockFree /\ UNCHANGED <<now, txn, crashes>>
      /\ \A d \in Command \ {c} : commands'[d] = commands[d] /\ delivery'[d] = delivery[d]
  BY <1>1 DEF Create, Put, TypeOK
<1>3. ASSUME c \in Enrolled PROVE RowIsHonest(c)'
  <2>1. /\ commands'[c].state = "QUEUED" /\ commands'[c].error = "NONE"
        /\ commands'[c].ack = "NONE" /\ commands'[c].timeoutAt = now + Expiry
        /\ delivery'[c].expiresAt = now + Expiry
    BY <1>1, <1>3 DEF Create, Put, TypeOK, Absent, DeliveryRow
  <2>2. ReasonIsHonest(c)'
    BY <2>1 DEF ReasonIsHonest
  <2>3. AnswerIsHonest(c)'
    BY <1>2, <2>1 DEF AnswerIsHonest, Holds, LockFree
  <2>4. DeadlineIsNear(c)'
    BY <1>1, <1>2, <2>1, RowNumbers DEF DeadlineIsNear, SweepStates
  <2>5. QED
    BY <2>2, <2>3, <2>4 DEF RowIsHonest
<1>4. QED
  BY <1>2, <1>3, WriteIsHonest

LEMMA OperateIsHonest ==
    ASSUME IndInv, NEW c \in Command, Operate(c) PROVE \A d \in Enrolled : RowIsHonest(d)'
<1> USE CommandAssumption
<1>1. StoreInv /\ TypeOK /\ \A d \in Enrolled : RowIsHonest(d)
  BY IndInvParts DEF StoreInv
<1>2. CASE Create(c)
  BY <1>2, CreateIsHonest
<1>3. CASE Cancel(c) \/ CancelQueued(c)
  <2>1. /\ UNCHANGED <<delivery, now, txn, crashes>>
        /\ \E e \in {"USER_CANCELLED", "CANCELLED_BEFORE_DISPATCH"} : Update(c, "CANCELLED", e)
    BY <1>3 DEF Cancel, CancelQueued
  <2>2. QED
    BY <2>1, UpdateIsHonest DEF CommandStates, TerminalStates, Errors
<1>4. CASE RetryBegin(c)
  <2>1. /\ commands' = commands /\ LockFree /\ UNCHANGED <<now, crashes>>
        /\ txn' = [op |-> "RETRY", cmd |-> c]
        /\ \A d \in Command \ {c} : delivery'[d] = delivery[d]
        /\ delivery'[c].expiresAt = delivery[c].expiresAt
        /\ delivery'[c].attempts = delivery[c].attempts
    BY <1>1, <1>4 DEF RetryBegin, TypeOK, DeliveryRow
  <2>2. ASSUME c \in Enrolled PROVE RowIsHonest(c)'
    <3>1. RowIsHonest(c)
      BY <1>1, <2>2
    <3>2. ReasonIsHonest(c)'
      BY <2>1, <3>1 DEF RowIsHonest, ReasonIsHonest, Acked, AttemptsLeft
    <3>3. AnswerIsHonest(c)'
      BY <2>1, <3>1 DEF RowIsHonest, AnswerIsHonest, Holds, LockFree
    <3>4. DeadlineIsNear(c)'
      BY <2>1, <3>1 DEF RowIsHonest, DeadlineIsNear, Active
    <3>5. QED
      BY <3>2, <3>3, <3>4 DEF RowIsHonest
  <2>3. QED
    BY <2>1, <2>2, WriteIsHonest
<1>5. CASE TimeoutNow(c)
  BY <1>5, UpdateIsHonest DEF TimeoutNow, Legacy, CommandStates, TerminalStates, Errors
<1>6. CASE ExecuteBegin(c)
  <2>1. /\ c \notin Enrolled /\ UNCHANGED <<delivery, now, txn, crashes>>
        /\ \A d \in Command \ {c} : commands'[d] = commands[d]
    BY <1>1, <1>6 DEF ExecuteBegin, Legacy, Put, TypeOK
  <2>2. QED
    BY <2>1, WriteIsHonest
<1>7. CASE ExecuteMoves(c)
  <2>1. /\ TryMove(c, "EXECUTING", "NONE") /\ LockFree /\ UNCHANGED <<delivery, now, txn, crashes>>
        /\ c \notin Enrolled
    BY <1>1, <1>7 DEF ExecuteMoves, StoreInv, MarkingIsLegacy
  <2>2. txn'.op = "FREE"
    BY <2>1 DEF LockFree
  <2>3. QED
    BY <2>1, <2>2, MoveIsHonest DEF CommandStates, Errors
<1>8. CASE \E s \in CommandStates : SetState(c, s)
  <2>1. "NONE" \in Errors
    BY DEF Errors
  <2>2. QED
    BY <1>8, <2>1, UpdateIsHonest DEF SetState, Legacy
<1>9. QED
  BY <1>2, <1>3, <1>4, <1>5, <1>6, <1>7, <1>8 DEF Operate

LEMMA SweepIsHonest ==
    ASSUME IndInv, NEW c \in Command, SweepHandle(c) PROVE \A d \in Enrolled : RowIsHonest(d)'
<1>1. LockFree /\ UNCHANGED <<delivery, now, txn, crashes>>
  BY DEF SweepHandle
<1>2. CASE Active(c)
  <2>1. TryMove(c, "TIMEOUT", "TIMED_OUT")
    BY <1>2 DEF SweepHandle
  <2>2. QED
    BY <1>1, <2>1, MoveIsHonest DEF LockFree, CommandStates, TerminalStates, Errors
<1>3. CASE ~Active(c)
  <2>1. UNCHANGED commands /\ now' \in Nat /\ now <= now'
    BY <1>1, <1>3 DEF SweepHandle, IndInv, StoreInv, TypeOK
  <2>2. QED
    BY <1>1, <2>1, SameRowsStay
<1>4. QED
  BY <1>2, <1>3

\* A crash drops what handlers were doing and records the refusals it cut off.
LEMMA CrashIsHonest ==
    ASSUME IndInv, Crash PROVE \A d \in Enrolled : RowIsHonest(d)'
<1> USE CommandAssumption
<1>1. SUFFICES ASSUME NEW d \in Enrolled PROVE RowIsHonest(d)'
  OBVIOUS
<1>2. TypeOK /\ d \in Command /\ RowIsHonest(d)
  BY IndInvParts DEF StoreInv
<1>3. /\ UNCHANGED <<commands, delivery, now>> /\ now' \in Nat /\ now <= now'
      /\ ~Holds(d, "ACK_FIELDS")'
  BY <1>2 DEF Crash, TypeOK, Holds, Free
<1>4. crashes.cut \subseteq crashes'.cut /\ (Holds(d, "NACK_STATE") => d \in crashes'.cut)
  BY <1>2 DEF Crash
<1>5. QED
  BY <1>2, <1>3, <1>4, LeftAlone

LEMMA RowsStayHonest == IndInv /\ [Next]_vars => \A d \in Enrolled : RowIsHonest(d)'
<1>1. SUFFICES ASSUME IndInv, [Next]_vars PROVE \A d \in Enrolled : RowIsHonest(d)'
  OBVIOUS
<1>2. now \in Nat
  BY <1>1 DEF IndInv, StoreInv, TypeOK
<1>3. CASE Tick \/ SweepSelect \/ UNCHANGED vars
  <2>1. now' \in Nat /\ now <= now' /\ UNCHANGED <<commands, delivery, crashes>> /\ txn' = txn
    BY <1>2, <1>3 DEF Tick, SweepSelect, vars
  <2>2. QED
    BY <1>1, <2>1, SameRowsStay
<1>4. QED
  BY <1>1, <1>3, ContinueIsHonest, DispatchIsHonest, ReportIsHonest, OperateIsHonest, SweepIsHonest,
     CrashIsHonest DEF Next

LEMMA RowsStartHonest == Init => \A d \in Enrolled : RowIsHonest(d)
<1>1. SUFFICES ASSUME Init, NEW d \in Enrolled PROVE RowIsHonest(d)
  OBVIOUS
<1>2. commands[d] = Absent /\ delivery[d] = NoDelivery /\ now = 0 /\ ~Holds(d, "ACK_FIELDS")
  BY <1>1, CommandAssumption DEF Init, Free, Holds
<1>3. ReasonIsHonest(d) /\ AnswerIsHonest(d)
  BY <1>2 DEF ReasonIsHonest, AnswerIsHonest, Absent
<1>4. DeadlineIsNear(d)
  BY <1>2, PolicyTypes DEF DeadlineIsNear, Active, Absent, NoDelivery, NoTime
<1>5. QED
  BY <1>3, <1>4 DEF RowIsHonest

\* The whole invariant: what the row of an enrolled device's command says of the
\* reasons, refusals and deadlines it has met, for any number of commands, retries
\* and crashes.
THEOREM Invariance == Spec => []IndInv
<1>1. Init => IndInv
  BY InitKeeps, RowsStartHonest, IndInvParts
<1>2. IndInv /\ [Next]_vars => IndInv'
  <2>1. IndInv /\ [Next]_vars => StoreInv'
    BY NextKeeps DEF IndInv
  <2>2. StoreInv' /\ (\A d \in Enrolled : RowIsHonest(d)') => IndInv'
    BY DEF IndInv, AckIsAwaited, ClaimReasonStays, RefusedFails, ActiveIsSwept,
           TimeoutReasonIsHonest, RowIsHonest, ReasonIsHonest, AnswerIsHonest, DeadlineIsNear
  <2>3. QED
    BY <2>1, <2>2, RowsStayHonest
<1>3. QED
  BY <1>1, <1>2, PTL DEF Spec

\* ACK_TIMEOUT is stored only of a command whose attempts are spent and that no ACK
\* answered, RESPONSE_TIMEOUT only of one that was acknowledged, and neither is left
\* behind by what happens to the command later (claim_device_dispatch).
THEOREM TimeoutReasonsAreHonest == Spec => []TimeoutReasonIsHonest
<1>1. IndInv => TimeoutReasonIsHonest
  BY DEF IndInv
<1>2. QED
  BY <1>1, Invariance, PTL

\* No command whose recorded ACK is a refusal is reported as a success, over any
\* number of crashes, except one whose own refusal and failure a crash cut apart
\* (process_command_ack).
THEOREM RefusalsHold == Spec => []RefusalsAreFinal
<1>1. IndInv => RefusalsAreFinal
  BY DEF IndInv, RefusedFails, RefusalsAreFinal, AwaitsAck
<1>2. QED
  BY <1>1, Invariance, PTL

\* check_timeouts finds every active command of an enrolled device once the policy's
\* longest wait is over: the safety half of EventuallySettles.
THEOREM OverdueIsFound == Spec => []ActiveIsSwept
<1>1. IndInv => ActiveIsSwept
  BY DEF IndInv
<1>2. QED
  BY <1>1, Invariance, PTL

---------------------------------------------------------------------------
(* What any step does to the state of any command, legacy or not.          *)

\* It stays, is submitted, or takes a transition of the table: also where the code
\* writes the state without asking update_command_state (prepare_command_retry), or
\* decides on a state it read before it had the lock (mark_command_executing).
FollowsTable(c) ==
    \/ commands'[c].state = commands[c].state
    \/ commands[c].state = "ABSENT" /\ commands'[c].state = "QUEUED"
    \/ /\ commands[c].state # "ABSENT"
       /\ commands'[c].state \in ValidTransitions[commands[c].state]

LEMMA MoveFollows ==
    ASSUME StoreInv, NEW c \in Command, NEW s \in CommandStates, NEW e \in Errors, TryMove(c, s, e)
    PROVE  \A d \in Command : FollowsTable(d)
<1>1. TypeOK
  BY DEF StoreInv
<1>2. \A d \in Command \ {c} : FollowsTable(d)
  BY <1>1, MoveFacts DEF FollowsTable
<1>3. FollowsTable(c)
  BY <1>1, MoveFacts DEF FollowsTable, CanMove
<1>4. QED
  BY <1>2, <1>3

LEMMA StatesSame ==
    ASSUME \A d \in Command : commands'[d].state = commands[d].state
    PROVE  \A d \in Command : FollowsTable(d)
BY DEF FollowsTable

\* A row is written with the state it had.
LEMMA PutFollows ==
    ASSUME TypeOK, NEW c \in Command, NEW row, Put(c, row), row.state = commands[c].state
    PROVE  \A d \in Command : FollowsTable(d)
<1>1. \A d \in Command : commands'[d].state = commands[d].state
  BY DEF TypeOK, Put
<1>2. QED
  BY <1>1, StatesSame

LEMMA StepFollows ==
    ASSUME StoreInv, [Next]_vars PROVE \A d \in Command : FollowsTable(d)
<1> USE DEF StoreInv
<1>1. ASSUME NEW c \in Command, Continue(c) PROVE \A d \in Command : FollowsTable(d)
  <2>1. CASE ClaimMarksSent(c) \/ AckMoves(c) \/ NackMoves(c) \/ ResponseMoves(c)
    <3>1. PICK s \in {"SENT", "ACK_RECEIVED", "FAILED", "COMPLETED"},
               e \in {"NONE", "REJECTED", "EXECUTION_FAILED"} : TryMove(c, s, e)
      BY <2>1 DEF ClaimMarksSent, AckMoves, NackMoves, ResponseMoves
    <3>2. s \in CommandStates /\ e \in Errors
      BY DEF CommandStates, TerminalStates, Errors
    <3>3. QED
      BY <3>1, <3>2, MoveFollows
  <2>2. CASE ClaimExtends(c) \/ AckFields(c)
    <3>1. commands[c] \in CommandRow
      BY DEF TypeOK
    <3>2. CASE ClaimExtends(c)
      <4>1. Put(c, [commands[c] EXCEPT !.timeoutAt = delivery[c].expiresAt])
        BY <3>2 DEF ClaimExtends
      <4>2. [commands[c] EXCEPT !.timeoutAt = delivery[c].expiresAt].state = commands[c].state
        BY <3>1 DEF CommandRow
      <4>3. QED
        BY <4>1, <4>2, PutFollows
    <3>3. CASE AckFields(c)
      <4>1. Put(c, [commands[c] EXCEPT !.ack = "AFFIRMED"])
        BY <3>3 DEF AckFields
      <4>2. [commands[c] EXCEPT !.ack = "AFFIRMED"].state = commands[c].state
        BY <3>1 DEF CommandRow
      <4>3. QED
        BY <4>1, <4>2, PutFollows
    <3>4. QED
      BY <2>2, <3>2, <3>3
  <2>3. CASE RetryResets(c)
    <3>1. /\ \A d \in Command \ {c} : commands'[d] = commands[d]
          /\ commands'[c].state = "QUEUED" /\ commands[c].state \in {"TIMEOUT", "FAILED"}
      BY <2>3 DEF RetryResets, Put, TypeOK, Absent, RetryInProgress
    <3>2. QED
      BY <3>1 DEF FollowsTable, ValidTransitions
  <2>4. QED
    BY <1>1, <2>1, <2>2, <2>3 DEF Continue
<1>2. ASSUME NEW c \in Command, Dispatch(c) PROVE \A d \in Command : FollowsTable(d)
  <2>1. CASE Claim(c) \/ (Offer(c) /\ UNCHANGED commands)
    BY <2>1, StatesSame DEF Claim
  <2>2. CASE ~Claim(c) /\ ~(Offer(c) /\ UNCHANGED commands)
    <3>1. PICK s \in {"TIMEOUT", "FAILED", "SENT"}, e \in Errors : TryMove(c, s, e)
      <4>1. CASE ClaimExpires(c)
        BY <4>1, UpdateMoves, ReasonType DEF ClaimExpires
      <4>2. CASE RefuseOffer(c)
        BY <4>2 DEF RefuseOffer, Errors
      <4>3. CASE Offer(c)
        BY <2>2, <4>3, UpdateMoves DEF Offer, Errors
      <4>4. QED
        BY <1>2, <2>2, <4>1, <4>2, <4>3 DEF Dispatch
    <3>2. s \in CommandStates
      BY DEF CommandStates, TerminalStates
    <3>3. QED
      BY <3>1, <3>2, MoveFollows
  <2>3. QED
    BY <2>1, <2>2
<1>3. ASSUME NEW c \in Command, Report(c) PROVE \A d \in Command : FollowsTable(d)
  <2>1. CASE RouteFailed(c)
    BY <2>1, UpdateMoves, MoveFollows DEF RouteFailed, CommandStates, TerminalStates, Errors
  <2>2. CASE AckBegin(c) \/ NackBegin(c) \/ \E ok \in BOOLEAN : ResponseBegin(c, ok)
    <3>1. \A d \in Command : commands'[d].state = commands[d].state
      BY <2>2 DEF AckBegin, NackBegin, ResponseBegin, Put, TypeOK, CommandRow
    <3>2. QED
      BY <3>1, StatesSame
  <2>3. QED
    BY <1>3, <2>1, <2>2 DEF Report
<1>4. ASSUME NEW c \in Command, Operate(c) PROVE \A d \in Command : FollowsTable(d)
  <2>1. CASE Create(c)
    BY <2>1 DEF Create, Put, TypeOK, Absent, FollowsTable
  <2>2. CASE RetryBegin(c) \/ ExecuteBegin(c)
    <3>1. \A d \in Command : commands'[d].state = commands[d].state
      BY <2>2 DEF RetryBegin, ExecuteBegin, Put, TypeOK, CommandRow
    <3>2. QED
      BY <3>1, StatesSame
  <2>3. CASE \/ Cancel(c) \/ CancelQueued(c) \/ TimeoutNow(c) \/ ExecuteMoves(c)
             \/ \E s \in CommandStates : SetState(c, s)
    <3>1. PICK s \in CommandStates, e \in Errors : TryMove(c, s, e)
      BY <2>3, UpdateMoves DEF Cancel, CancelQueued, TimeoutNow, ExecuteMoves, SetState, Errors,
         CommandStates, TerminalStates
    <3>2. QED
      BY <3>1, MoveFollows
  <2>4. QED
    BY <1>4, <2>1, <2>2, <2>3 DEF Operate
<1>5. ASSUME NEW c \in Command, SweepHandle(c) PROVE \A d \in Command : FollowsTable(d)
  <2>1. TryMove(c, "TIMEOUT", "TIMED_OUT") \/ UNCHANGED commands
    BY <1>5 DEF SweepHandle
  <2>2. "TIMEOUT" \in CommandStates /\ "TIMED_OUT" \in Errors
    BY DEF CommandStates, TerminalStates, Errors
  <2>3. QED
    BY <2>1, <2>2, MoveFollows, StatesSame
<1>6. CASE Tick \/ SweepSelect \/ Crash \/ UNCHANGED vars
  BY <1>6, StatesSame DEF Tick, SweepSelect, Crash, vars
<1>7. QED
  BY <1>1, <1>2, <1>3, <1>4, <1>5, <1>6 DEF Next

\* Every change of a state that is ever stored is a transition of ValidTransitions,
\* with or without the check of update_command_state.
THEOREM StatesFollowTable == Spec => [][\A c \in Command : FollowsTable(c)]_vars
<1>1. StoreInv /\ [Next]_vars => [\A c \in Command : FollowsTable(c)]_vars
  BY StepFollows
<1>2. QED
  BY <1>1, StoreInvariance, PTL DEF Spec

\* A command that is COMPLETED or CANCELLED stays so, legacy commands included,
\* whatever the threads have read before (mark_command_executing, check_timeouts,
\* prepare_command_retry).
THEOREM DoneStaysDone == Spec => DoneIsForever
<1>1. StoreInv /\ [Next]_vars =>
        [\A c \in Command :
            commands[c].state \in {"COMPLETED", "CANCELLED"} =>
                commands'[c].state = commands[c].state]_vars
  BY StepFollows DEF FollowsTable, ValidTransitions
<1>2. QED
  BY <1>1, StoreInvariance, PTL DEF Spec, DoneIsForever

=============================================================================
