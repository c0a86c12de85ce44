------------------------ MODULE DeviceExchangeProofs ------------------------
(***************************************************************************)
(* Proofs about DeviceExchange, for every set of commands, every size of   *)
(* the device's cache and of the Gateway's receipts, and any number of     *)
(* retries, reports and crashes.                                           *)
(***************************************************************************)
EXTENDS DeviceExchange, TLAPS

---------------------------------------------------------------------------
(* Bounded memories.                                                       *)

\* Keep remembers the new element, and forgets nothing but what Lost names.
LEMMA KeepLemma ==
    ASSUME NEW S, NEW s \in Seq(S), NEW e \in S, NEW limit \in Nat \ {0}
    PROVE  /\ Keep(s, e, limit) \in Seq(S)
           /\ e \in Range(Keep(s, e, limit))
           /\ Range(Keep(s, e, limit)) \subseteq Range(s) \cup {e}
           /\ Lost(s, limit) \subseteq Range(s)
           /\ Range(s) \subseteq Range(Keep(s, e, limit)) \cup Lost(s, limit)
<1>1. CASE Len(s) < limit
  <2>1. Keep(s, e, limit) = Append(s, e) /\ Lost(s, limit) = {}
    BY <1>1 DEF Keep, Lost
  <2>2. /\ Append(s, e) \in Seq(S) /\ Len(Append(s, e)) = Len(s) + 1
        /\ Append(s, e)[Len(s) + 1] = e
        /\ \A i \in 1..Len(s) : Append(s, e)[i] = s[i]
    OBVIOUS
  <2> QED BY <2>1, <2>2 DEF Range
<1>2. CASE ~(Len(s) < limit)
  <2>1. Keep(s, e, limit) = Append(Tail(s), e) /\ Lost(s, limit) = {Head(s)}
    BY <1>2 DEF Keep, Lost
  <2>2. s # << >> /\ Len(s) \in Nat \ {0}
    BY <1>2
  <2>3. /\ Tail(s) \in Seq(S) /\ Len(Tail(s)) = Len(s) - 1
        /\ \A i \in 1..(Len(s) - 1) : Tail(s)[i] = s[i + 1]
        /\ Head(s) = s[1]
    BY <2>2
  <2>4. /\ Append(Tail(s), e) \in Seq(S) /\ Len(Append(Tail(s), e)) = Len(s)
        /\ Append(Tail(s), e)[Len(s)] = e
        /\ \A i \in 1..(Len(s) - 1) : Append(Tail(s), e)[i] = s[i + 1]
    <3>1. ASSUME NEW t \in Seq(S)
          PROVE  /\ Append(t, e) \in Seq(S) /\ Len(Append(t, e)) = Len(t) + 1
                 /\ Append(t, e)[Len(t) + 1] = e
                 /\ \A i \in 1..Len(t) : Append(t, e)[i] = t[i]
      OBVIOUS
    <3>2. Len(Tail(s)) + 1 = Len(s)
      BY <2>2, <2>3
    <3>3. /\ Append(Tail(s), e) \in Seq(S)
          /\ Len(Append(Tail(s), e)) = Len(Tail(s)) + 1
          /\ Append(Tail(s), e)[Len(Tail(s)) + 1] = e
          /\ \A i \in 1..Len(Tail(s)) : Append(Tail(s), e)[i] = Tail(s)[i]
      BY <2>3, <3>1
    <3>4. ASSUME NEW i \in 1..(Len(s) - 1)
          PROVE  Append(Tail(s), e)[i] = s[i + 1]
      BY <2>3, <3>3
    <3>5. Append(Tail(s), e)[Len(s)] = e /\ Len(Append(Tail(s), e)) = Len(s)
      BY <3>2, <3>3
    <3> QED BY <3>3, <3>4, <3>5
  <2>5. DOMAIN Append(Tail(s), e) = 1..Len(s) /\ DOMAIN s = 1..Len(s)
    BY <2>4
  <2>6. Range(Append(Tail(s), e)) \subseteq Range(s) \cup {e}
    <3> SUFFICES ASSUME NEW i \in 1..Len(s) PROVE Append(Tail(s), e)[i] \in Range(s) \cup {e}
      BY <2>5 DEF Range
    <3>1. CASE i = Len(s)
      BY <3>1, <2>4
    <3>2. CASE i # Len(s)
      <4>1. i \in 1..(Len(s) - 1) /\ i + 1 \in 1..Len(s)
        BY <3>2, <2>2
      <4> QED BY <4>1, <2>4, <2>5 DEF Range
    <3> QED BY <3>1, <3>2
  <2>7. Range(s) \subseteq Range(Append(Tail(s), e)) \cup {Head(s)}
    <3> SUFFICES ASSUME NEW i \in 1..Len(s) PROVE s[i] \in Range(Append(Tail(s), e)) \cup {Head(s)}
      BY <2>5 DEF Range
    <3>1. CASE i = 1
      BY <3>1, <2>3
    <3>2. CASE i # 1
      <4>1. i - 1 \in 1..(Len(s) - 1) /\ i - 1 \in 1..Len(s) /\ (i - 1) + 1 = i
        BY <3>2, <2>2
      <4>2. Append(Tail(s), e)[i - 1] = s[i]
        BY <4>1, <2>4
      <4>3. i - 1 \in DOMAIN Append(Tail(s), e)
        BY <4>1, <2>4
      <4> QED BY <4>2, <4>3 DEF Range
    <3> QED BY <3>1, <3>2
  <2>8. e \in Range(Append(Tail(s), e)) /\ Head(s) \in Range(s)
    BY <2>2, <2>3, <2>4, <2>5 DEF Range
  <2> QED BY <2>1, <2>4, <2>6, <2>7, <2>8
<1> QED BY <1>1, <1>2

\* What is remembered before a packet is remembered after it, or was a sample whose
\* receipt is now listed as deleted.
LEMMA RememberLemma ==
    ASSUME receipts \in Seq(Packet), forgotten \subseteq Packet, NEW p \in Packet, Remember(p)
    PROVE  /\ receipts' \in Seq(Packet) /\ forgotten' \subseteq Packet
           /\ p \in Range(receipts')
           /\ Range(receipts') \subseteq Range(receipts) \cup {p}
           /\ forgotten \subseteq forgotten'
           /\ \A q \in Range(receipts) :
                 q.kind = "TELEMETRY" => q \in Range(receipts') \cup forgotten'
<1> ReceiptWindow \in Nat \ {0}
  BY ExchangeAssumption
<1>1. /\ Keep(receipts, p, ReceiptWindow) \in Seq(Packet)
      /\ p \in Range(Keep(receipts, p, ReceiptWindow))
      /\ Range(Keep(receipts, p, ReceiptWindow)) \subseteq Range(receipts) \cup {p}
      /\ Lost(receipts, ReceiptWindow) \subseteq Range(receipts)
      /\ Range(receipts) \subseteq
            Range(Keep(receipts, p, ReceiptWindow)) \cup Lost(receipts, ReceiptWindow)
  BY KeepLemma
<1>2. Range(receipts) \subseteq Packet
  BY DEF Range
<1> QED BY <1>1, <1>2 DEF Remember

\* The device has forgotten no command but those it lists.
LEMMA SaveLemma ==
    ASSUME cache \in Seq(Answer), evicted \subseteq Command, NEW a \in Answer, Save(a)
    PROVE  /\ cache' \in Seq(Answer) /\ evicted' \subseteq Command
           /\ Range(cache') \subseteq Range(cache) \cup {a}
           /\ Cached \cup {a.cmd} \subseteq Cached' \cup evicted'
           /\ evicted \subseteq evicted'
<1> CacheSize \in Nat \ {0}
  BY ExchangeAssumption
<1>1. /\ Keep(cache, a, CacheSize) \in Seq(Answer)
      /\ a \in Range(Keep(cache, a, CacheSize))
      /\ Range(Keep(cache, a, CacheSize)) \subseteq Range(cache) \cup {a}
      /\ Lost(cache, CacheSize) \subseteq Range(cache)
      /\ Range(cache) \subseteq Range(Keep(cache, a, CacheSize)) \cup Lost(cache, CacheSize)
  BY KeepLemma
<1>2. Range(cache) \subseteq Answer
  BY DEF Range
<1>3. \A b \in Answer : b.cmd \in Command
  BY DEF Answer
<1> QED BY <1>1, <1>2, <1>3 DEF Save, Cached

---------------------------------------------------------------------------
(* The initial state.                                                      *)

LEMMA InitKeeps == Init => ExchangeInv
<1> SUFFICES ASSUME Init PROVE ExchangeInv
  OBVIOUS
<1> USE DEF Init, Store!Init
<1>1. TypeOK
  BY ExchangeAssumption DEF TypeOK, Store!TypeOK, Store!Outcomes, Node
<1>2. Range(receipts) = {} /\ Range(cache) = {}
  BY DEF Range
<1>3. UnsubmittedIsUnknown /\ PacketsAreAddressed /\ AnswersAreNumbered /\ AnswersAreGuarded
  BY DEF UnsubmittedIsUnknown, PacketsAreAddressed, AnswersAreNumbered, AnswersAreGuarded
<1>4. MemoryIsSent
  BY <1>2 DEF MemoryIsSent
<1>5. StoredIsReceipted /\ SampleStoredOnce /\ RunsOnce
  BY ExchangeAssumption DEF StoredIsReceipted, SampleStoredOnce, RunsOnce
<1>6. IngestInProgress /\ FailureHasCause /\ SuccessIsWritten /\ SuccessIsEarned
  BY DEF IngestInProgress, Idle, FailureHasCause, SuccessIsWritten, SuccessIsEarned
<1>7. RowIsConfirmed /\ ReceiptSettles
  BY <1>2 DEF RowIsConfirmed, ReceiptSettles
<1> QED BY <1>1, <1>3, <1>4, <1>5, <1>6, <1>7 DEF ExchangeInv

---------------------------------------------------------------------------
(* The command store and the requester.                                    *)

\* TimeOut and Cancel: a pending command settles without an answer.
LEMMA SettleKeeps ==
    ASSUME ExchangeInv, NEW c \in Command, NEW o \in {"unknown", "cancelled"}, SettleAs(c, o),
           UNCHANGED <<flags, offered, device, tables, ing, crashes>>
    PROVE  ExchangeInv'
<1> USE DEF SettleAs, flags, device, tables
<1>1. TypeOK'
  BY DEF ExchangeInv, TypeOK, Store!TypeOK, Store!Outcomes
<1>2. /\ phase' \in [Command -> Store!Outcomes \cup {"none", "pending"}]
      /\ phase[c] = "pending" /\ phase'[c] = o
      /\ \A d \in Command : d # c => phase'[d] = phase[d]
  BY DEF ExchangeInv, TypeOK, Store!TypeOK, Store!Outcomes
<1>3. UnsubmittedIsUnknown'
  BY <1>2 DEF ExchangeInv, UnsubmittedIsUnknown
<1>4. PacketsAreAddressed' /\ AnswersAreNumbered' /\ AnswersAreGuarded' /\ MemoryIsSent'
  BY DEF ExchangeInv, PacketsAreAddressed, AnswersAreNumbered, AnswersAreGuarded, MemoryIsSent,
         Cached
<1>5. StoredIsReceipted' /\ SampleStoredOnce' /\ RunsOnce'
  BY DEF ExchangeInv, StoredIsReceipted, SampleStoredOnce, RunsOnce, Receipted
<1>6. IngestInProgress'
  BY <1>2 DEF ExchangeInv, IngestInProgress, PacketsAreAddressed, Idle, Confirms
<1>7. FailureHasCause'
  BY <1>2 DEF ExchangeInv, FailureHasCause
<1>8. SuccessIsWritten'
  BY <1>2 DEF ExchangeInv, SuccessIsWritten, Confirms
<1>9. SuccessIsEarned'
  BY <1>2 DEF ExchangeInv, SuccessIsEarned
<1>10. RowIsConfirmed'
  BY <1>2 DEF ExchangeInv, RowIsConfirmed, TypeOK, Node
<1>11. ReceiptSettles'
  BY <1>2 DEF ExchangeInv, ReceiptSettles, MemoryIsSent, PacketsAreAddressed
<1> QED BY <1>1, <1>3, <1>4, <1>5, <1>6, <1>7, <1>8, <1>9, <1>10, <1>11 DEF ExchangeInv

LEMMA RetryKeeps ==
    ASSUME ExchangeInv, NEW c \in Command, Retry(c)
    PROVE  ExchangeInv'
<1> USE DEF Retry, Store!Reopen, device, tables
<1>1. TypeOK'
  <2>1. MaxRetries \in Nat /\ rounds \in [Command -> 0..MaxRetries] /\ rounds[c] < MaxRetries
    BY ExchangeAssumption DEF ExchangeInv, TypeOK, Store!TypeOK
  <2>2. rounds[c] + 1 \in 0..MaxRetries
    BY <2>1
  <2>3. rounds' \in [Command -> 0..MaxRetries]
    BY <2>1, <2>2
  <2>4. Store!TypeOK'
    BY <2>3 DEF ExchangeInv, TypeOK, Store!TypeOK
  <2> QED BY <2>4 DEF ExchangeInv, TypeOK
<1>2. /\ phase[c] \in {"failed", "unknown"} /\ phase'[c] = "pending"
      /\ \A d \in Command : d # c => phase'[d] = phase[d]
      /\ rounds'[c] > 0 /\ \A d \in Command : d # c => rounds'[d] = rounds[d]
  BY ExchangeAssumption DEF ExchangeInv, TypeOK, Store!TypeOK, Store!Outcomes
<1>3. UnsubmittedIsUnknown'
  BY <1>2 DEF ExchangeInv, UnsubmittedIsUnknown
<1>4. PacketsAreAddressed' /\ AnswersAreNumbered' /\ AnswersAreGuarded' /\ MemoryIsSent'
  BY DEF ExchangeInv, PacketsAreAddressed, AnswersAreNumbered, AnswersAreGuarded, MemoryIsSent,
         Cached
<1>5. StoredIsReceipted' /\ SampleStoredOnce' /\ RunsOnce'
  BY DEF ExchangeInv, StoredIsReceipted, SampleStoredOnce, RunsOnce, Receipted
<1>6. IngestInProgress'
  BY <1>2 DEF ExchangeInv, IngestInProgress, PacketsAreAddressed, Idle, Confirms
<1>7. FailureHasCause'
  BY <1>2 DEF ExchangeInv, FailureHasCause
<1>8. SuccessIsWritten'
  BY <1>2 DEF ExchangeInv, SuccessIsWritten, Confirms
<1>9. SuccessIsEarned'
  BY <1>2 DEF ExchangeInv, SuccessIsEarned
<1>10. RowIsConfirmed'
  BY <1>2 DEF ExchangeInv, RowIsConfirmed, TypeOK, Node
<1>11. ReceiptSettles'
  BY <1>2 DEF ExchangeInv, ReceiptSettles, MemoryIsSent, PacketsAreAddressed
<1> QED BY <1>1, <1>3, <1>4, <1>5, <1>6, <1>7, <1>8, <1>9, <1>10, <1>11 DEF ExchangeInv

LEMMA SubmitKeeps ==
    ASSUME ExchangeInv, NEW c \in Command, Submit(c)
    PROVE  ExchangeInv'
<1> USE DEF Submit, Store!Submit, device, tables
<1>1. TypeOK'
  BY DEF ExchangeInv, TypeOK, Store!TypeOK, Store!Outcomes, Node
<1>2. /\ phase[c] = "none" /\ phase'[c] = "pending"
      /\ \A d \in Command : d # c => phase'[d] = phase[d] /\ expected'[d] = expected[d]
      /\ \A p \in sent : p.cmd # c
  BY DEF ExchangeInv, TypeOK, Store!TypeOK, UnsubmittedIsUnknown
<1>3. UnsubmittedIsUnknown'
  BY <1>2 DEF ExchangeInv, UnsubmittedIsUnknown
<1>4. PacketsAreAddressed' /\ AnswersAreNumbered' /\ MemoryIsSent'
  BY DEF ExchangeInv, PacketsAreAddressed, AnswersAreNumbered, MemoryIsSent, Cached
<1>5. AnswersAreGuarded'
  BY <1>2 DEF ExchangeInv, AnswersAreGuarded, PacketsAreAddressed
<1>6. StoredIsReceipted' /\ SampleStoredOnce' /\ RunsOnce'
  BY DEF ExchangeInv, StoredIsReceipted, SampleStoredOnce, RunsOnce, Receipted
<1>7. IngestInProgress'
  BY <1>2 DEF ExchangeInv, IngestInProgress, PacketsAreAddressed, Idle, Confirms
<1>8. FailureHasCause'
  BY <1>2 DEF ExchangeInv, FailureHasCause
<1>9. SuccessIsWritten'
  BY <1>2 DEF ExchangeInv, SuccessIsWritten, Confirms
<1>10. SuccessIsEarned'
  BY <1>2 DEF ExchangeInv, SuccessIsEarned
<1>11. RowIsConfirmed'
  BY <1>2 DEF ExchangeInv, RowIsConfirmed, TypeOK, Node
<1>12. ReceiptSettles'
  BY <1>2 DEF ExchangeInv, ReceiptSettles, MemoryIsSent, PacketsAreAddressed
<1> QED BY <1>1, <1>3, <1>4, <1>5, <1>6, <1>7, <1>8, <1>9, <1>10, <1>11, <1>12 DEF ExchangeInv

LEMMA OfferKeeps ==
    ASSUME ExchangeInv, NEW c \in Command, Offer(c)
    PROVE  ExchangeInv'
<1> USE DEF Offer, Store!Transmit, device, tables
<1>1. TypeOK'
  <2>1. /\ MaxRetries \in Nat /\ packets \in [Command -> 0..(1 + MaxRetries)]
        /\ packets[c] < 1 + MaxRetries
    BY ExchangeAssumption DEF ExchangeInv, TypeOK, Store!TypeOK
  <2>2. packets[c] + 1 \in 0..(1 + MaxRetries)
    BY <2>1
  <2>3. packets' \in [Command -> 0..(1 + MaxRetries)]
    BY <2>1, <2>2
  <2>4. Store!TypeOK'
    BY <2>3 DEF ExchangeInv, TypeOK, Store!TypeOK
  <2> QED BY <2>4 DEF ExchangeInv, TypeOK
<1>2. UnsubmittedIsUnknown'
  BY DEF ExchangeInv, UnsubmittedIsUnknown
<1>3. PacketsAreAddressed' /\ AnswersAreNumbered' /\ AnswersAreGuarded' /\ MemoryIsSent'
  BY DEF ExchangeInv, PacketsAreAddressed, AnswersAreNumbered, AnswersAreGuarded, MemoryIsSent,
         Cached
<1>4. StoredIsReceipted' /\ SampleStoredOnce' /\ RunsOnce'
  BY DEF ExchangeInv, StoredIsReceipted, SampleStoredOnce, RunsOnce, Receipted
<1>5. IngestInProgress' /\ FailureHasCause' /\ SuccessIsWritten' /\ SuccessIsEarned'
  BY DEF ExchangeInv, IngestInProgress, Idle, Confirms, FailureHasCause, SuccessIsWritten,
         SuccessIsEarned
<1>6. RowIsConfirmed' /\ ReceiptSettles'
  BY DEF ExchangeInv, RowIsConfirmed, ReceiptSettles
<1> QED BY <1>1, <1>2, <1>3, <1>4, <1>5, <1>6 DEF ExchangeInv

---------------------------------------------------------------------------
(* The device.                                                             *)

\* A remembered answer has been sent before: the network gains nothing.
LEMMA ReplayKeeps ==
    ASSUME ExchangeInv, NEW c \in Command, Replay(c)
    PROVE  UNCHANGED vars
BY DEF Replay, Transmits, ExchangeInv, MemoryIsSent, vars, device

LEMMA PacketTypes ==
    /\ \A a \in Answer : Ack(a) \in Packet /\ Response(a) \in Packet
    /\ \A k \in {"EVENT", "STATUS", "TELEMETRY"}, c \in Command \cup {NoCommand}, n \in Nat, r \in Nat :
          Report(k, c, n, r) \in Packet
BY DEF Answer, Packet, Ack, Response, Report

\* What running a command answers.
LEMMA RunTypes ==
    ASSUME TypeOK, NEW c \in Command
    PROVE  /\ Run(c) \in Answer
           /\ Run(c).cmd = c /\ Run(c).run = runs[c] + 1
           /\ Run(c).ok /\ c \in Guarded => Run(c).rev = expected[c] + 1
<1>1. runs[c] \in Nat /\ revision \in Nat
  BY DEF TypeOK
<1> QED BY <1>1 DEF Run, Answer

LEMMA ExecuteKeeps ==
    ASSUME ExchangeInv, NEW c \in Command, Execute(c)
    PROVE  ExchangeInv'
<1> DEFINE a == Run(c)
<1>1. /\ a \in Answer /\ a.cmd = c /\ a.run = runs[c] + 1
      /\ a.ok /\ c \in Guarded => a.rev = expected[c] + 1
  BY RunTypes DEF ExchangeInv
<1>2. /\ sent' = sent \cup {Ack(a), Response(a)}
      /\ runs' = [runs EXCEPT ![c] = @ + 1]
      /\ c \in offered /\ c \notin Cached /\ Save(a)
      /\ revision' = a.rev
      /\ UNCHANGED <<store, flags, offered, tables, ing, crashes, reports>>
  BY DEF Execute, Transmits
<1>3. /\ cache' \in Seq(Answer) /\ evicted' \subseteq Command
      /\ Range(cache') \subseteq Range(cache) \cup {a}
      /\ Cached \cup {c} \subseteq Cached' \cup evicted'
      /\ evicted \subseteq evicted'
  BY <1>1, <1>2, SaveLemma DEF ExchangeInv, TypeOK
<1>4. runs \in [Command -> Nat]
  BY DEF ExchangeInv, TypeOK
<1> HIDE DEF a
<1>5. /\ Ack(a).kind = "ACK" /\ Ack(a).cmd = c
      /\ Response(a).kind = "RESPONSE" /\ Response(a).cmd = c /\ Response(a).id = runs[c] + 1
      /\ Response(a).ok = a.ok /\ Response(a).rev = a.rev
      /\ Ack(a) \in Packet /\ Response(a) \in Packet
  BY <1>1, PacketTypes DEF Ack, Response
<1>6. phase[c] # "none"
  BY <1>2 DEF ExchangeInv, UnsubmittedIsUnknown
<1>7. TypeOK'
  BY <1>1, <1>2, <1>3, <1>4, <1>5
  DEF ExchangeInv, TypeOK, Store!TypeOK, store, flags, tables, Answer
<1>8. UnsubmittedIsUnknown'
  BY <1>2, <1>5, <1>6 DEF ExchangeInv, UnsubmittedIsUnknown, store
<1>9. PacketsAreAddressed'
  BY <1>2, <1>5 DEF ExchangeInv, PacketsAreAddressed
<1>10. AnswersAreNumbered'
  <2> SUFFICES ASSUME NEW p \in sent', p.kind = "RESPONSE"
               PROVE  /\ p.id \in 1..runs'[p.cmd]
                      /\ \A q \in sent' : q.kind = "RESPONSE" /\ q.cmd = p.cmd /\ q.id = p.id
                            => q.ok = p.ok
    BY DEF AnswersAreNumbered
  <2>1. \A q \in sent : q.kind = "RESPONSE" => q.cmd \in Command /\ q.id \in 1..runs[q.cmd]
    BY DEF ExchangeInv, AnswersAreNumbered, PacketsAreAddressed
  <2>2. \A d \in Command : runs[d] \in Nat /\ runs'[d] = IF d = c THEN runs[c] + 1 ELSE runs[d]
    BY <1>2, <1>4
  <2>3. p.id \in 1..runs'[p.cmd]
    BY <1>2, <1>5, <2>1, <2>2
  <2>4. ASSUME NEW q \in sent', q.kind = "RESPONSE", q.cmd = p.cmd, q.id = p.id
        PROVE  q.ok = p.ok
    <3>1. CASE p \in sent /\ q \in sent
      BY <2>4, <3>1 DEF ExchangeInv, AnswersAreNumbered
    <3>2. CASE p \notin sent \/ q \notin sent
      <4>1. p = Response(a) \/ q = Response(a)
        BY <1>2, <1>5, <2>4, <3>2
      <4>2. p.cmd = c /\ p.id = runs[c] + 1 /\ q.cmd = c /\ q.id = runs[c] + 1
        BY <1>5, <2>4, <4>1
      <4>3. p \notin sent /\ q \notin sent
        BY <2>1, <2>2, <2>4, <4>2
      <4> QED BY <1>2, <1>5, <2>4, <4>3
    <3> QED BY <3>1, <3>2
  <2> QED BY <2>3, <2>4
<1>11. AnswersAreGuarded'
  BY <1>1, <1>2, <1>5 DEF ExchangeInv, AnswersAreGuarded, flags
<1>12. MemoryIsSent'
  BY <1>2, <1>3, <1>4 DEF ExchangeInv, MemoryIsSent, tables
<1>13. StoredIsReceipted' /\ SampleStoredOnce'
  BY <1>2, <1>5 DEF ExchangeInv, StoredIsReceipted, SampleStoredOnce, Receipted, tables
<1>14. RunsOnce'
  BY <1>2, <1>3, <1>4 DEF ExchangeInv, RunsOnce, MemoryIsSent
<1>15. IngestInProgress'
  BY <1>2 DEF ExchangeInv, IngestInProgress, Idle, Confirms, store
<1>16. FailureHasCause' /\ SuccessIsWritten' /\ SuccessIsEarned'
  BY <1>2 DEF ExchangeInv, FailureHasCause, SuccessIsWritten, SuccessIsEarned, Confirms, store,
              flags, tables
<1>17. RowIsConfirmed' /\ ReceiptSettles'
  BY <1>2 DEF ExchangeInv, RowIsConfirmed, ReceiptSettles, store, tables
<1> QED BY <1>7, <1>8, <1>9, <1>10, <1>11, <1>12, <1>13, <1>14, <1>15, <1>16, <1>17 DEF ExchangeInv

\* A new report has a new number: no sample is stored under it.
LEMMA ReportedKeeps ==
    ASSUME ExchangeInv, NEW k \in {"EVENT", "STATUS", "TELEMETRY"},
           NEW c \in Command \cup {NoCommand}, NEW r \in Nat,
           Reported(Report(k, c, reports + 1, r)),
           k = "EVENT" => c \in offered,
           k # "EVENT" => c = NoCommand,
           k = "TELEMETRY" => r = 0
    PROVE  ExchangeInv'
<1> DEFINE p == Report(k, c, reports + 1, r)
<1>1. /\ reports \in Nat /\ MaxReports \in Nat /\ reports < MaxReports /\ reports' = reports + 1
      /\ sent' = sent \cup {p}
      /\ UNCHANGED <<store, flags, offered, tables, ing, crashes, revision, cache, runs, evicted>>
  BY ExchangeAssumption DEF Reported, ExchangeInv, TypeOK
<1>2. /\ p \in Packet /\ p.kind = k /\ p.cmd = c /\ p.id = reports + 1
      /\ p = Report(k, c, reports + 1, r) /\ ~p.ok
  BY <1>1, PacketTypes DEF Report
<1> HIDE DEF p
<1>3. offered \subseteq Command /\ NoCommand \notin Command
  BY ExchangeAssumption DEF ExchangeInv, TypeOK
<1>4. TypeOK'
  BY <1>1, <1>2 DEF ExchangeInv, TypeOK, Store!TypeOK, store, flags, tables
<1>5. UnsubmittedIsUnknown'
  BY <1>1, <1>2, <1>3 DEF ExchangeInv, UnsubmittedIsUnknown, store
<1>6. PacketsAreAddressed'
  <2> SUFFICES ASSUME NEW q \in sent'
               PROVE  /\ q.kind \in {"ACK", "RESPONSE", "EVENT"} => q.cmd \in Command
                      /\ q.kind = "EVENT" => ~q.ok
                      /\ q.kind = "TELEMETRY" =>
                            q.id \in 1..reports' /\ q = Report("TELEMETRY", NoCommand, q.id, 0)
    BY DEF PacketsAreAddressed
  <2>1. CASE q = p
    BY <1>1, <1>2, <1>3, <2>1
  <2>2. CASE q \in sent
    BY <1>1, <2>2 DEF ExchangeInv, PacketsAreAddressed
  <2> QED BY <1>1, <2>1, <2>2
<1>7. AnswersAreNumbered' /\ AnswersAreGuarded'
  BY <1>1, <1>2 DEF ExchangeInv, AnswersAreNumbered, AnswersAreGuarded, flags
<1>8. MemoryIsSent'
  BY <1>1 DEF ExchangeInv, MemoryIsSent, Cached, tables
<1>9. StoredIsReceipted' /\ SampleStoredOnce'
  <2>1. reports' <= MaxReports
    BY <1>1
  <2>2. ASSUME NEW q \in sent', q.kind = "TELEMETRY", stored[q.id] > 0
        PROVE  q \in sent
    <3>1. stored[reports + 1] = 0
      BY <1>1 DEF ExchangeInv, StoredIsReceipted
    <3> QED BY <1>1, <1>2, <2>2, <3>1
  <2>3. \A q \in sent' : q.kind = "TELEMETRY" /\ stored[q.id] > 0 => Receipted(q) \/ q \in forgotten
    BY <2>2 DEF ExchangeInv, StoredIsReceipted
  <2>4. \A n \in 1..MaxReports : n > reports' => stored[n] = 0
    BY <1>1 DEF ExchangeInv, StoredIsReceipted
  <2>5. \A q \in sent' : q.kind = "TELEMETRY" => q.id \in 1..MaxReports
    BY <1>1, <1>6 DEF PacketsAreAddressed
  <2>6. \A q \in sent' : q.kind = "TELEMETRY" /\ stored[q.id] > 1 => q \in forgotten
    <3>1. \A n \in 1..MaxReports : stored[n] \in Nat
      BY DEF ExchangeInv, TypeOK
    <3> QED BY <2>2, <2>5, <3>1 DEF ExchangeInv, SampleStoredOnce
  <2> QED BY <1>1, <2>1, <2>3, <2>4, <2>6
          DEF StoredIsReceipted, SampleStoredOnce, Receipted, tables
<1>10. RunsOnce'
  BY <1>1 DEF ExchangeInv, RunsOnce
<1>11. IngestInProgress'
  BY <1>1 DEF ExchangeInv, IngestInProgress, Idle, Confirms, store
<1>12. FailureHasCause' /\ SuccessIsWritten' /\ SuccessIsEarned'
  BY <1>1 DEF ExchangeInv, FailureHasCause, SuccessIsWritten, SuccessIsEarned, Confirms, store,
              flags, tables
<1>13. RowIsConfirmed' /\ ReceiptSettles'
  BY <1>1 DEF ExchangeInv, RowIsConfirmed, ReceiptSettles, store, tables
<1> QED BY <1>4, <1>5, <1>6, <1>7, <1>8, <1>9, <1>10, <1>11, <1>12, <1>13 DEF ExchangeInv

---------------------------------------------------------------------------
(* ingest.                                                                 *)

\* A report that is ingested has no receipt, so its sample is not stored yet, unless
\* the receipt was deleted.
LEMMA IngestReportKeeps ==
    ASSUME ExchangeInv, NEW p \in sent, IngestReport(p)
    PROVE  ExchangeInv'
<1>1. /\ Idle /\ ~Receipted(p) /\ p.kind \in {"STATUS", "TELEMETRY"} /\ Remember(p)
      /\ node' = IF p.kind = "STATUS" THEN [node EXCEPT !.revision = p.rev] ELSE node
      /\ stored' = IF p.kind = "TELEMETRY" THEN [stored EXCEPT ![p.id] = @ + 1] ELSE stored
      /\ UNCHANGED <<store, flags, offered, device, ing, crashes>>
  BY DEF IngestReport, Fresh
<1>2. p \in Packet /\ p.rev \in Nat
  BY DEF ExchangeInv, TypeOK, Packet
<1>3. /\ receipts' \in Seq(Packet) /\ forgotten' \subseteq Packet
      /\ p \in Range(receipts')
      /\ Range(receipts') \subseteq Range(receipts) \cup {p}
      /\ forgotten \subseteq forgotten'
      /\ \A q \in Range(receipts) : q.kind = "TELEMETRY" => q \in Range(receipts') \cup forgotten'
  BY <1>1, <1>2, RememberLemma DEF ExchangeInv, TypeOK
<1>4. node' \in Node /\ node'.name = node.name
  BY <1>1, <1>2 DEF ExchangeInv, TypeOK, Node
<1>5. p.kind = "TELEMETRY" => p.id \in 1..reports /\ p.id \in 1..MaxReports
  BY ExchangeAssumption DEF ExchangeInv, PacketsAreAddressed, StoredIsReceipted, TypeOK
<1>6. /\ stored \in [1..MaxReports -> Nat] /\ stored' \in [1..MaxReports -> Nat]
      /\ \A n \in 1..MaxReports :
            stored'[n] = IF p.kind = "TELEMETRY" /\ n = p.id THEN stored[n] + 1 ELSE stored[n]
  BY <1>1, <1>5 DEF ExchangeInv, TypeOK
<1>7. TypeOK'
  BY <1>1, <1>3, <1>4, <1>6 DEF ExchangeInv, TypeOK, Store!TypeOK, store, flags, device
<1>8. UnsubmittedIsUnknown' /\ PacketsAreAddressed' /\ AnswersAreNumbered' /\ AnswersAreGuarded'
  BY <1>1 DEF ExchangeInv, UnsubmittedIsUnknown, PacketsAreAddressed, AnswersAreNumbered,
              AnswersAreGuarded, store, flags, device
<1>9. MemoryIsSent'
  BY <1>1, <1>3 DEF ExchangeInv, MemoryIsSent, Cached, device
<1>10. ASSUME NEW q \in sent, q.kind = "TELEMETRY"
       PROVE  /\ q.id \in 1..MaxReports
              /\ q.id = p.id /\ p.kind = "TELEMETRY" => q = p
  <2>1. q.id \in 1..reports /\ q = Report("TELEMETRY", NoCommand, q.id, 0)
    BY <1>10 DEF ExchangeInv, PacketsAreAddressed
  <2>2. p.kind = "TELEMETRY" => p = Report("TELEMETRY", NoCommand, p.id, 0)
    BY DEF ExchangeInv, PacketsAreAddressed
  <2>3. reports \in Nat /\ MaxReports \in Nat /\ reports <= MaxReports
    BY ExchangeAssumption DEF ExchangeInv, TypeOK, StoredIsReceipted
  <2> QED BY <2>1, <2>2, <2>3
<1>11. \A n \in 1..MaxReports : n > reports => stored'[n] = 0
  <2>1. reports \in Nat
    BY DEF ExchangeInv, TypeOK
  <2> QED BY <1>5, <1>6, <2>1 DEF ExchangeInv, StoredIsReceipted
<1>12. StoredIsReceipted'
  <2>1. ASSUME NEW q \in sent, q.kind = "TELEMETRY", stored'[q.id] > 0
        PROVE  q \in Range(receipts') \/ q \in forgotten'
    <3>1. CASE q = p
      BY <1>3, <3>1
    <3>2. CASE q # p
      <4>1. stored[q.id] > 0
        BY <1>6, <1>10, <2>1, <3>2
      <4> QED BY <1>3, <2>1, <4>1 DEF ExchangeInv, StoredIsReceipted, Receipted
    <3> QED BY <3>1, <3>2
  <2> QED BY <1>1, <1>11, <2>1 DEF ExchangeInv, StoredIsReceipted, Receipted, device
<1>13. SampleStoredOnce'
  <2> SUFFICES ASSUME NEW q \in sent, q.kind = "TELEMETRY", stored'[q.id] > 1
               PROVE  q \in forgotten'
    BY <1>1 DEF SampleStoredOnce, device
  <2>1. CASE q = p
    <3>1. stored[q.id] > 0
      BY <1>6, <1>10, <2>1
    <3> QED BY <1>1, <1>3, <2>1, <3>1 DEF ExchangeInv, StoredIsReceipted
  <2>2. CASE q # p
    <3>1. stored[q.id] > 1
      BY <1>6, <1>10, <2>2
    <3> QED BY <1>3, <3>1 DEF ExchangeInv, SampleStoredOnce
  <2> QED BY <2>1, <2>2
<1>14. RunsOnce' /\ IngestInProgress' /\ FailureHasCause' /\ SuccessIsEarned'
  BY <1>1 DEF ExchangeInv, RunsOnce, IngestInProgress, Idle, FailureHasCause, SuccessIsEarned,
              store, flags, device
<1>15. SuccessIsWritten' /\ RowIsConfirmed'
  BY <1>1, <1>4 DEF ExchangeInv, SuccessIsWritten, RowIsConfirmed, Confirms, store
<1>16. ReceiptSettles'
  BY <1>1, <1>3 DEF ExchangeInv, ReceiptSettles, store
<1> QED BY <1>7, <1>8, <1>9, <1>12, <1>13, <1>14, <1>15, <1>16 DEF ExchangeInv


\* An answer that is read with its command still pending goes on to be applied; any
\* other is only recorded.
LEMMA BeginAnswerKeeps ==
    ASSUME ExchangeInv, NEW p \in sent, BeginAnswer(p)
    PROVE  ExchangeInv'
<1>1. /\ Idle /\ p.kind \in {"ACK", "RESPONSE", "EVENT"}
      /\ ing' = [packet |-> p, seen |-> phase[p.cmd],
                 stage |-> IF phase[p.cmd] = "pending" THEN "EFFECT" ELSE "FINISH"]
      /\ UNCHANGED <<store, flags, offered, device, tables, crashes>>
  BY DEF BeginAnswer, Fresh
<1>2. /\ p \in Packet /\ p.cmd \in Command /\ phase[p.cmd] # "none"
      /\ phase[p.cmd] \in Settled \cup {"pending"}
  BY <1>1 DEF ExchangeInv, TypeOK, Store!TypeOK, PacketsAreAddressed, UnsubmittedIsUnknown, Settled
<1>3. /\ ing' \in Ingesting /\ ing'.packet = p /\ ing'.seen = phase[p.cmd]
      /\ ing'.stage = IF phase[p.cmd] = "pending" THEN "EFFECT" ELSE "FINISH"
  BY <1>1, <1>2 DEF Ingesting
<1>4. TypeOK'
  BY <1>1, <1>3 DEF ExchangeInv, TypeOK, Store!TypeOK, store, flags, device, tables
<1>5. UnsubmittedIsUnknown' /\ PacketsAreAddressed' /\ AnswersAreNumbered' /\ AnswersAreGuarded'
  BY <1>1 DEF ExchangeInv, UnsubmittedIsUnknown, PacketsAreAddressed, AnswersAreNumbered,
              AnswersAreGuarded, store, flags, device
<1>6. MemoryIsSent' /\ StoredIsReceipted' /\ SampleStoredOnce' /\ RunsOnce'
  BY <1>1 DEF ExchangeInv, MemoryIsSent, StoredIsReceipted, SampleStoredOnce, RunsOnce, Cached,
              Receipted, device, tables
<1>7. IngestInProgress'
  BY <1>1, <1>3 DEF IngestInProgress, Confirms, store, device
<1>8. SuccessIsWritten'
  <2>1. ing.stage = "NONE"
    BY <1>1 DEF Idle, NoIngest
  <2> QED BY <1>1, <2>1 DEF ExchangeInv, SuccessIsWritten, store, tables
<1>9. FailureHasCause' /\ SuccessIsEarned' /\ RowIsConfirmed' /\ ReceiptSettles'
  BY <1>1 DEF ExchangeInv, FailureHasCause, SuccessIsEarned, RowIsConfirmed, ReceiptSettles,
              store, flags, device, tables
<1> QED BY <1>4, <1>5, <1>6, <1>7, <1>8, <1>9 DEF ExchangeInv

\* What an ingest under way holds.
LEMMA IngestTypes ==
    ASSUME ExchangeInv, ing.stage \in {"EFFECT", "FINISH"}
    PROVE  /\ ~Idle /\ ing \in Ingesting
           /\ ing.packet \in sent /\ ing.packet \in Packet /\ ing.packet.cmd \in Command
           /\ ing.packet.kind \in {"ACK", "RESPONSE", "EVENT"}
<1>1. ~Idle /\ ing \in Ingesting
  BY DEF ExchangeInv, TypeOK, Idle, NoIngest
<1>2. ing.packet \in sent /\ ing.packet.kind \in {"ACK", "RESPONSE", "EVENT"}
  BY <1>1 DEF ExchangeInv, IngestInProgress
<1> QED BY <1>1, <1>2 DEF ExchangeInv, TypeOK, PacketsAreAddressed

\* The next stage of an ingest has the same packet.
LEMMA AppliedTypes ==
    ASSUME ing \in Ingesting, Applied
    PROVE  /\ ing' \in Ingesting /\ ing'.stage = "FINISH"
           /\ ing'.packet = ing.packet /\ ing'.seen = ing.seen
BY DEF Ingesting, Applied

LEMMA ApplyAckKeeps ==
    ASSUME ExchangeInv, ApplyAck
    PROVE  ExchangeInv'
<1>1. /\ ing.stage = "EFFECT" /\ ing.packet.kind = "ACK" /\ Applied
      /\ acked' \in {acked, acked \cup {ing.packet.cmd}}
      /\ UNCHANGED <<store, claimed, expected, offered, device, tables, crashes>>
  BY DEF ApplyAck
<1>2. /\ ing' \in Ingesting /\ ing'.stage = "FINISH" /\ ing'.packet = ing.packet
      /\ ing.packet \in sent /\ ing.packet.cmd \in Command
  BY <1>1, IngestTypes, AppliedTypes
<1>3. TypeOK'
  BY <1>1, <1>2 DEF ExchangeInv, TypeOK, Store!TypeOK, store, device, tables
<1>4. UnsubmittedIsUnknown' /\ PacketsAreAddressed' /\ AnswersAreNumbered' /\ AnswersAreGuarded'
  BY <1>1 DEF ExchangeInv, UnsubmittedIsUnknown, PacketsAreAddressed, AnswersAreNumbered,
              AnswersAreGuarded, store, device
<1>5. MemoryIsSent' /\ StoredIsReceipted' /\ SampleStoredOnce' /\ RunsOnce'
  BY <1>1 DEF ExchangeInv, MemoryIsSent, StoredIsReceipted, SampleStoredOnce, RunsOnce, Cached,
              Receipted, device, tables
<1>6. IngestInProgress'
  BY <1>1, <1>2 DEF IngestInProgress, Confirms, device
<1>7. SuccessIsWritten'
  BY <1>1 DEF ExchangeInv, SuccessIsWritten, store, tables
<1>8. FailureHasCause' /\ SuccessIsEarned' /\ RowIsConfirmed' /\ ReceiptSettles'
  BY <1>1 DEF ExchangeInv, FailureHasCause, SuccessIsEarned, RowIsConfirmed, ReceiptSettles,
              store, device, tables
<1> QED BY <1>3, <1>4, <1>5, <1>6, <1>7, <1>8 DEF ExchangeInv


\* A result settles the command it answers: while its ingest was under way, the
\* command can only have been closed without an answer.
LEMMA ApplyResponseKeeps ==
    ASSUME ExchangeInv, ApplyResponse
    PROVE  ExchangeInv'
<1> DEFINE p == ing.packet
<1>1. /\ ing.stage = "EFFECT" /\ p.kind \in {"RESPONSE", "EVENT"} /\ Applied
      /\ UNCHANGED <<flags, offered, device, tables, crashes>>
  BY DEF ApplyResponse
<1>2. /\ ing' \in Ingesting /\ ing'.stage = "FINISH" /\ ing'.packet = p /\ ing'.seen = ing.seen
      /\ p \in sent /\ p \in Packet /\ p.cmd \in Command /\ ~Idle
  BY <1>1, IngestTypes, AppliedTypes
<1>3. ing.seen = "pending" /\ phase[p.cmd] \in {"pending", "unknown", "cancelled"}
  BY <1>1, <1>2 DEF ExchangeInv, IngestInProgress
<1>4. /\ phase[p.cmd] = "pending" /\ UNCHANGED <<rounds, packets>>
      /\ phase' = [phase EXCEPT ![p.cmd] = OutcomeOf(p)]
  BY <1>1, <1>3 DEF ApplyResponse, SettleAs, Agreeing
<1>5. /\ phase'[p.cmd] = OutcomeOf(p) /\ \A d \in Command : d # p.cmd => phase'[d] = phase[d]
      /\ OutcomeOf(p) \in {"succeeded", "failed"}
  BY <1>2, <1>4 DEF ExchangeInv, TypeOK, Store!TypeOK, OutcomeOf
<1>6. p.ok => p.kind = "RESPONSE"
  BY <1>1, <1>2 DEF ExchangeInv, PacketsAreAddressed
<1> HIDE DEF p
<1>7. TypeOK'
  BY <1>1, <1>2, <1>4, <1>5
  DEF ExchangeInv, TypeOK, Store!TypeOK, Store!Outcomes, flags, device, tables
<1>8. UnsubmittedIsUnknown'
  BY <1>1, <1>4, <1>5 DEF ExchangeInv, UnsubmittedIsUnknown, device
<1>9. PacketsAreAddressed' /\ AnswersAreNumbered' /\ AnswersAreGuarded'
  BY <1>1 DEF ExchangeInv, PacketsAreAddressed, AnswersAreNumbered, AnswersAreGuarded, flags, device
<1>10. MemoryIsSent' /\ StoredIsReceipted' /\ SampleStoredOnce' /\ RunsOnce'
  BY <1>1 DEF ExchangeInv, MemoryIsSent, StoredIsReceipted, SampleStoredOnce, RunsOnce, Cached,
              Receipted, device, tables
<1>11. IngestInProgress'
  BY <1>1, <1>2, <1>5 DEF IngestInProgress, Confirms, OutcomeOf, device
<1>12. FailureHasCause'
  BY <1>1, <1>2, <1>5 DEF ExchangeInv, FailureHasCause, OutcomeOf, device
<1>13. SuccessIsWritten'
  <2>1. CASE p.ok
    BY <1>2, <1>3, <1>6, <2>1 DEF SuccessIsWritten, Confirms
  <2>2. CASE ~p.ok
    BY <1>1, <1>5, <2>2 DEF ExchangeInv, SuccessIsWritten, OutcomeOf, tables
  <2> QED BY <2>1, <2>2
<1>14. SuccessIsEarned'
  BY <1>1, <1>2, <1>5, <1>6
  DEF ExchangeInv, SuccessIsEarned, AnswersAreGuarded, OutcomeOf, flags, device
<1>15. RowIsConfirmed'
  BY <1>1, <1>4, <1>5 DEF ExchangeInv, RowIsConfirmed, TypeOK, Node, tables
<1>16. ReceiptSettles'
  BY <1>1, <1>4, <1>5
  DEF ExchangeInv, ReceiptSettles, MemoryIsSent, PacketsAreAddressed, tables
<1> QED BY <1>7, <1>8, <1>9, <1>10, <1>11, <1>12, <1>13, <1>14, <1>15, <1>16 DEF ExchangeInv

\* An ingest that ends before its receipt, refused or in a crash, leaves no trace.
LEMMA AbandonKeeps ==
    ASSUME ExchangeInv, ing' = NoIngest,
           UNCHANGED <<store, flags, offered, device, tables>>,
           crashes' \in Nat, (ing.stage = "EFFECT" /\ crashes' = crashes) \/ crashes' # 0
    PROVE  ExchangeInv'
<1> USE DEF flags, device, tables
<1>1. TypeOK'
  BY DEF ExchangeInv, TypeOK, Store!TypeOK, store
<1>2. UnsubmittedIsUnknown' /\ PacketsAreAddressed' /\ AnswersAreNumbered' /\ AnswersAreGuarded'
  BY DEF ExchangeInv, UnsubmittedIsUnknown, PacketsAreAddressed, AnswersAreNumbered,
         AnswersAreGuarded, store
<1>3. MemoryIsSent' /\ StoredIsReceipted' /\ SampleStoredOnce' /\ RunsOnce'
  BY DEF ExchangeInv, MemoryIsSent, StoredIsReceipted, SampleStoredOnce, RunsOnce, Cached, Receipted
<1>4. IngestInProgress'
  BY DEF IngestInProgress, Idle
<1>5. SuccessIsWritten'
  BY DEF ExchangeInv, SuccessIsWritten, store
<1>6. FailureHasCause' /\ SuccessIsEarned' /\ RowIsConfirmed' /\ ReceiptSettles'
  BY DEF ExchangeInv, FailureHasCause, SuccessIsEarned, RowIsConfirmed, ReceiptSettles, store
<1> QED BY <1>1, <1>2, <1>3, <1>4, <1>5, <1>6 DEF ExchangeInv

\* The receipt of an answer comes after its effect, and the row names a success.
LEMMA FinishAnswerKeeps ==
    ASSUME ExchangeInv, FinishAnswer
    PROVE  ExchangeInv'
<1> DEFINE p == ing.packet
<1>1. /\ ing.stage = "FINISH" /\ Remember(p) /\ ing' = NoIngest
      /\ node' = IF Confirms(ing) THEN [revision |-> p.rev, name |-> p.cmd] ELSE node
      /\ UNCHANGED <<store, flags, offered, device, stored, crashes>>
  BY DEF FinishAnswer
<1>2. /\ p \in sent /\ p \in Packet /\ p.cmd \in Command /\ p.kind # "TELEMETRY" /\ ~Idle
  BY <1>1, IngestTypes
<1>3. /\ receipts' \in Seq(Packet) /\ forgotten' \subseteq Packet
      /\ Range(receipts') \subseteq Range(receipts) \cup {p}
      /\ forgotten \subseteq forgotten'
      /\ \A q \in Range(receipts) : q.kind = "TELEMETRY" => q \in Range(receipts') \cup forgotten'
  BY <1>1, <1>2, RememberLemma DEF ExchangeInv, TypeOK
<1>4. /\ p.kind = "RESPONSE" /\ phase[p.cmd] = "pending" => rounds[p.cmd] > 0
      /\ Confirms(ing) => phase[p.cmd] = "succeeded"
  BY <1>1, <1>2 DEF ExchangeInv, IngestInProgress
<1>5. /\ node' \in Node
      /\ Confirms(ing) => node'.name = p.cmd
      /\ ~Confirms(ing) => node'.name = node.name
  BY <1>1, <1>2 DEF ExchangeInv, TypeOK, Node, Packet
<1> HIDE DEF p
<1>6. TypeOK'
  BY <1>1, <1>3, <1>5 DEF ExchangeInv, TypeOK, Store!TypeOK, store, flags, device
<1>7. UnsubmittedIsUnknown' /\ PacketsAreAddressed' /\ AnswersAreNumbered' /\ AnswersAreGuarded'
  BY <1>1 DEF ExchangeInv, UnsubmittedIsUnknown, PacketsAreAddressed, AnswersAreNumbered,
              AnswersAreGuarded, store, flags, device
<1>8. MemoryIsSent'
  BY <1>1, <1>2, <1>3 DEF ExchangeInv, MemoryIsSent, Cached, device
<1>9. StoredIsReceipted' /\ SampleStoredOnce' /\ RunsOnce'
  BY <1>1, <1>3 DEF ExchangeInv, StoredIsReceipted, SampleStoredOnce, RunsOnce, Receipted, device
<1>10. IngestInProgress'
  BY <1>1 DEF IngestInProgress, Idle
<1>11. FailureHasCause' /\ SuccessIsEarned'
  BY <1>1 DEF ExchangeInv, FailureHasCause, SuccessIsEarned, store, flags, device
<1>12. SuccessIsWritten' /\ RowIsConfirmed'
  <2>1. NoCommand \notin Command
    BY ExchangeAssumption
  <2> QED BY <1>1, <1>2, <1>4, <1>5, <2>1 DEF ExchangeInv, SuccessIsWritten, RowIsConfirmed, store
<1>13. ReceiptSettles'
  BY <1>1, <1>3, <1>4 DEF ExchangeInv, ReceiptSettles, store
<1> QED BY <1>6, <1>7, <1>8, <1>9, <1>10, <1>11, <1>12, <1>13 DEF ExchangeInv

---------------------------------------------------------------------------
(* Every step, every behaviour.                                            *)

LEMMA StepKeeps ==
    ASSUME ExchangeInv, [Next]_vars
    PROVE  ExchangeInv'
<1>1. ASSUME UNCHANGED vars
      PROVE  ExchangeInv'
  BY <1>1 DEF ExchangeInv, vars, store, flags, device, tables,
              TypeOK, Store!TypeOK, UnsubmittedIsUnknown, PacketsAreAddressed,
              AnswersAreNumbered, AnswersAreGuarded, MemoryIsSent, Cached, StoredIsReceipted,
              Receipted, IngestInProgress, Idle, Confirms, FailureHasCause, SuccessIsWritten,
              SampleStoredOnce, RunsOnce, SuccessIsEarned, RowIsConfirmed, ReceiptSettles
<1>2. ASSUME NEW c \in Command, Submit(c) \/ Offer(c) \/ Retry(c)
      PROVE  ExchangeInv'
  BY <1>2, SubmitKeeps, OfferKeeps, RetryKeeps
<1>3. ASSUME NEW c \in Command, TimeOut(c) \/ Cancel(c)
      PROVE  ExchangeInv'
  BY <1>3, SettleKeeps DEF TimeOut, Cancel
<1>4. ASSUME NEW c \in Command, Replay(c) \/ Execute(c)
      PROVE  ExchangeInv'
  BY <1>1, <1>4, ReplayKeeps, ExecuteKeeps
<1>5. revision \in Nat /\ 0 \in Nat
  BY DEF ExchangeInv, TypeOK
<1>6. ASSUME NEW c \in Command, RouteFails(c)
      PROVE  ExchangeInv'
  BY <1>6, ReportedKeeps DEF RouteFails
<1>7. ASSUME SendStatus \/ SendTelemetry
      PROVE  ExchangeInv'
  BY <1>5, <1>7, ReportedKeeps DEF SendStatus, SendTelemetry
<1>8. ASSUME NEW p \in sent, IngestReport(p) \/ BeginAnswer(p)
      PROVE  ExchangeInv'
  BY <1>8, IngestReportKeeps, BeginAnswerKeeps
<1>9. ASSUME ApplyAck \/ ApplyResponse \/ FinishAnswer
      PROVE  ExchangeInv'
  BY <1>9, ApplyAckKeeps, ApplyResponseKeeps, FinishAnswerKeeps
<1>10. ASSUME Refuse \/ Crash
       PROVE  ExchangeInv'
  <2>1. crashes \in Nat
    BY DEF ExchangeInv, TypeOK
  <2> QED BY <1>10, <2>1, AbandonKeeps DEF Refuse, Crash
<1> QED BY <1>1, <1>2, <1>3, <1>4, <1>6, <1>7, <1>8, <1>9, <1>10 DEF Next

\* The invariant that every theorem below rests on: what the device, the network and
\* the Gateway's tables remember of a packet agrees, whichever step comes next
\* (ingest and pending_commands of device_api, process_packet of the device).
THEOREM ExchangeInvariance == Spec => []ExchangeInv
<1>1. Init => ExchangeInv
  BY InitKeeps
<1>2. ExchangeInv /\ [Next]_vars => ExchangeInv'
  BY StepKeeps
<1> QED BY <1>1, <1>2, PTL DEF Spec

\* Every row, packet and ingest keeps its shape.
THEOREM ExchangeTypeCorrect == Spec => []TypeOK
<1>1. ExchangeInv => TypeOK
  BY DEF ExchangeInv
<1> QED BY <1>1, ExchangeInvariance, PTL

\* Repeated and reordered TELEMETRY packets, and Gateway crashes, do not store a sample
\* twice as long as its receipt is kept (the receipt and the rows of ingest commit together).
THEOREM SamplesStoredOnce == Spec => []SampleStoredOnce
<1>1. ExchangeInv => SampleStoredOnce
  BY DEF ExchangeInv
<1> QED BY <1>1, ExchangeInvariance, PTL

\* Offers, retries and repeated packets do not make a device run a command twice as long
\* as it remembers the answer (the command cache of process_packet).
THEOREM CommandsRunOnce == Spec => []RunsOnce
<1>1. ExchangeInv => RunsOnce
  BY DEF ExchangeInv
<1> QED BY <1>1, ExchangeInvariance, PTL

\* A success the Gateway reports was the device's, and a guarded command found the
\* revision its requester had seen (execute of the device, process_command_response).
THEOREM SuccessEarned == Spec => []SuccessIsEarned
<1>1. ExchangeInv => SuccessIsEarned
  BY DEF ExchangeInv
<1> QED BY <1>1, ExchangeInvariance, PTL

\* Late results, and results that lose a race with a timeout or a cancellation, do not
\* rename the Gateway's row (the pending test of ingest).
THEOREM RowConfirmed == Spec => []RowIsConfirmed
<1>1. ExchangeInv => RowIsConfirmed
  BY DEF ExchangeInv
<1> QED BY <1>1, ExchangeInvariance, PTL

\* No receipt hides a result that was not applied (the receipt is the last write of
\* ingest, a crash before it leaves the packet to be delivered again).
THEOREM ReceiptsSettle == Spec => []ReceiptSettles
<1>1. ExchangeInv => ReceiptSettles
  BY DEF ExchangeInv
<1> QED BY <1>1, ExchangeInvariance, PTL

\* A failure the Gateway reports was the device's or the Master's: a device that has run a
\* command once sent one result for it, the one that failed.
THEOREM FailuresHonest == Spec => []FailureIsHonest
<1>1. ExchangeInv => FailureIsHonest
  <2> SUFFICES ASSUME ExchangeInv, NEW c \in Command, phase[c] = "failed", c \notin evicted,
                      \A p \in sent : ~(p.kind = "EVENT" /\ p.cmd = c),
                      NEW q \in sent, q.kind = "RESPONSE", q.cmd = c
               PROVE  ~q.ok
    BY DEF FailureIsHonest
  <2>1. PICK p \in sent : p.cmd = c /\ p.kind = "RESPONSE" /\ ~p.ok
    BY DEF ExchangeInv, FailureHasCause
  <2>2. runs[c] \in Nat /\ ~(runs[c] > 1)
    BY DEF ExchangeInv, TypeOK, RunsOnce
  <2>3. p.id \in 1..runs[c] /\ q.id \in 1..runs[c]
    BY <2>1 DEF ExchangeInv, AnswersAreNumbered
  <2>4. p.id = q.id
    BY <2>2, <2>3
  <2> QED BY <2>1, <2>4 DEF ExchangeInv, AnswersAreNumbered
<1> QED BY <1>1, ExchangeInvariance, PTL

\* The ingest of a success renames the row before it ends (the node update of ingest),
\* unless the Gateway crashes between the command store's commit and its own.
THEOREM SuccessReaches == Spec => []SuccessReachesRow
<1>1. ExchangeInv => SuccessReachesRow
  <2> SUFFICES ASSUME ExchangeInv, NEW c \in Command, crashes = 0, Idle,
                      phase[c] = "succeeded", \A d \in Command \ {c} : phase[d] # "succeeded"
               PROVE  node.name = c
    BY DEF SuccessReachesRow
  <2>1. node.name # NoCommand
    BY DEF ExchangeInv, SuccessIsWritten, Idle, NoIngest
  <2> QED BY <2>1 DEF ExchangeInv, RowIsConfirmed, TypeOK, Node
<1> QED BY <1>1, ExchangeInvariance, PTL

---------------------------------------------------------------------------
(* The command store.                                                      *)

LEMMA StoreStep ==
    ASSUME ExchangeInv, [Next]_vars
    PROVE  [Store!Next]_(Store!vars)
<1> DEFINE Stays == [Store!Next]_(Store!vars)
<1>1. ASSUME UNCHANGED store
      PROVE  Stays
  BY <1>1 DEF store, Store!vars
<1>2. ASSUME NEW c \in Command, NEW o \in Store!Outcomes, SettleAs(c, o)
      PROVE  Stays
  BY <1>2 DEF SettleAs, Store!Settle, Store!Next
<1>3. ASSUME NEW c \in Command, Submit(c) \/ Offer(c) \/ Retry(c)
      PROVE  Stays
  BY <1>3 DEF Submit, Offer, Retry, Store!Next
<1>4. ASSUME NEW c \in Command, TimeOut(c) \/ Cancel(c)
      PROVE  Stays
  BY <1>2, <1>4 DEF TimeOut, Cancel, Store!Outcomes
<1>5. ASSUME NEW c \in Command, Replay(c) \/ Execute(c) \/ RouteFails(c)
      PROVE  Stays
  BY <1>1, <1>5 DEF Replay, Execute, RouteFails, Reported
<1>6. ASSUME SendStatus \/ SendTelemetry
      PROVE  Stays
  BY <1>1, <1>6 DEF SendStatus, SendTelemetry, Reported
<1>7. ASSUME NEW p \in sent, IngestReport(p) \/ BeginAnswer(p)
      PROVE  Stays
  BY <1>1, <1>7 DEF IngestReport, BeginAnswer
<1>8. CASE ApplyAck \/ Refuse \/ FinishAnswer \/ Crash
  BY <1>1, <1>8 DEF ApplyAck, Refuse, FinishAnswer, Crash
<1>9. CASE ApplyResponse
  <2>1. ing.packet.cmd \in Command
    BY <1>9, IngestTypes DEF ApplyResponse
  <2>2. OutcomeOf(ing.packet) \in Store!Outcomes
    BY DEF OutcomeOf, Store!Outcomes
  <2>3. SettleAs(ing.packet.cmd, OutcomeOf(ing.packet)) \/ UNCHANGED store
    BY <1>9 DEF ApplyResponse
  <2> QED BY <1>1, <1>2, <2>1, <2>2, <2>3
<1>10. CASE UNCHANGED vars
  BY <1>1, <1>10 DEF vars
<1> QED BY <1>3, <1>4, <1>5, <1>6, <1>7, <1>8, <1>9, <1>10 DEF Next

\* The exchange settles, reopens and sends commands only as the command store promises:
\* no answer, however late or often it comes, moves a command that has settled.
THEOREM StoreKeptByExchange == Spec => StoreKept
<1>1. Init => Store!Init
  BY DEF Init
<1>2. ExchangeInv /\ [Next]_vars => [Store!Next]_(Store!vars)
  BY StoreStep
<1> QED BY <1>1, <1>2, ExchangeInvariance, PTL DEF Spec, StoreKept, Store!Safe

=============================================================================
