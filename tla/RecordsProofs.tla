---------------------------- MODULE RecordsProofs ----------------------------
(***************************************************************************)
(* Proofs about ChatMessages, for every set of messages and operators and   *)
(* any limits of the outbox, of attempts, of races and of crashes; and about *)
(* NodeRecords, for every set of nodes and threads.                         *)
(***************************************************************************)
EXTENDS MCRecords, TLAPS

---------------------------------------------------------------------------
(* States and what is being written.                                       *)

LEMMA OrderLemma ==
    /\ DOMAIN Order = {"QUEUED", "PUBLISHED", "BROKER_ACCEPTED", "STORED", "DELIVERED", "READ",
                       "FAILED", "EXPIRED", "UNKNOWN"}
    /\ \A s \in DOMAIN Order : Order[s] \in 0..6
    /\ Order["QUEUED"] = 0 /\ Order["FAILED"] = 6
    /\ Waiting \subseteq DOMAIN Order
BY DEF Order, Waiting

LEMMA StatesLemma ==
    /\ "NOTHING" \notin ChatStates /\ "STORED_ROW" \notin ChatStates /\ "OUTBOX" \notin ChatStates
    /\ "ABSENT" \notin ChatStates /\ DOMAIN Order \subseteq ChatStates
    /\ ChatStates \subseteq DOMAIN Order \cup {"SEEN"} /\ "SEEN" \notin DOMAIN Order
BY OrderLemma DEF ChatStates

\* Nothing, a state or an entry: what one party may be at.
LEMMA WritingCases ==
    ASSUME ChatTypeOK, NEW t \in Party
    PROVE  /\ writing[t] = Free \/ writing[t] \in Write \/ writing[t] \in Queueing
           /\ writing[t].to \in ChatStates => writing[t] \in Write
           /\ writing[t].to \in {"STORED_ROW", "OUTBOX"} => writing[t] \in Queueing
           /\ writing[t] \in Write => /\ writing[t].to \in ChatStates /\ writing[t].message \in ChatId
                                      /\ writing[t] # Free /\ writing[t] \notin Queueing
           /\ writing[t] \in Queueing => /\ writing[t].to \in {"STORED_ROW", "OUTBOX"}
                                         /\ writing[t].message \in Sent /\ writing[t] # Free
BY StatesLemma DEF ChatTypeOK, Write, Queueing, Free

LEMMA FreeIsNothing == Free \notin Write /\ Free \notin Queueing
BY StatesLemma DEF Free, Write, Queueing

LEMMA ChatInitKeeps == ChatInit => ChatInv
<1> SUFFICES ASSUME ChatInit PROVE ChatInv
  OBVIOUS
<1> USE DEF ChatInit
<1>1. ChatTypeOK
  BY ChatAssumption DEF ChatTypeOK, NoEntry
<1>2. DeliveredIsAcknowledged /\ AttemptsBoundPublications /\ WaitingIsScheduled
  BY ChatAssumption DEF DeliveredIsAcknowledged, AttemptsBoundPublications, WaitingIsScheduled,
                        Waiting, ChatId
<1>3. OverlapsAreKnown /\ QueueingIsSound /\ WritingIsSound
  BY FreeIsNothing DEF OverlapsAreKnown, QueueingIsSound, WritingIsSound
<1>4. EntriesAreSound
  BY ChatAssumption DEF EntriesAreSound, NoEntry, ChatId
<1> QED BY <1>1, <1>2, <1>3, <1>4 DEF ChatInv

---------------------------------------------------------------------------
(* send_message.                                                           *)

LEMMA ChatSendKeeps ==
    ASSUME ChatInv, NEW t \in Operator, NEW m \in Sent, ChatSend(t, m)
    PROVE  ChatInv'
<1>1. /\ ChatTypeOK /\ DeliveredIsAcknowledged /\ AttemptsBoundPublications /\ WaitingIsScheduled
      /\ OverlapsAreKnown /\ QueueingIsSound /\ WritingIsSound /\ EntriesAreSound
  BY DEF ChatInv
<1> DEFINE w == [to |-> "STORED_ROW", message |-> m]
<1>2. /\ writing[t] = Free /\ chat[m] = "ABSENT" /\ t \in Party /\ m \in ChatId
      /\ chat' = [chat EXCEPT ![m] = "QUEUED"]
      /\ writing' = [writing EXCEPT ![t] = w]
      /\ UNCHANGED <<outbox, queue, unacked, worker, expired, published, answered, overlapped, stranded, chatCrashes>>
  BY DEF ChatSend, chatHistory, Party, ChatId
<1>3. w \in Queueing /\ w \notin Write /\ w # Free /\ w.message = m /\ "QUEUED" \in ChatStates
  BY StatesLemma, OrderLemma DEF Queueing, Write, Free
<1> HIDE DEF w
<1>4. outbox[m] = NoEntry
  BY <1>1, <1>2 DEF EntriesAreSound
<1>5. \A u \in Party : writing[u] # Free => writing[u].message # m
  <2> SUFFICES ASSUME NEW u \in Party, writing[u] # Free, writing[u].message = m PROVE FALSE
    OBVIOUS
  <2>1. CASE writing[u] \in Queueing
    BY <1>1, <1>2, <2>1 DEF QueueingIsSound
  <2>2. CASE writing[u] \in Write
    BY <1>1, <1>4, <2>2 DEF WritingIsSound
  <2> QED BY <1>1, <2>1, <2>2, WritingCases
<1>6. /\ \A u \in Party : writing'[u] = IF u = t THEN w ELSE writing[u]
      /\ \A k \in ChatId : chat'[k] = IF k = m THEN "QUEUED" ELSE chat[k]
  BY <1>1, <1>2 DEF ChatTypeOK
<1>7. ChatTypeOK'
  BY <1>1, <1>2, <1>3 DEF ChatTypeOK
<1>8. DeliveredIsAcknowledged' /\ AttemptsBoundPublications'
  BY <1>1, <1>2, <1>6 DEF DeliveredIsAcknowledged, AttemptsBoundPublications, ChatId
<1>9. WaitingIsScheduled'
  <2> SUFFICES ASSUME NEW k \in Sent
               PROVE  /\ outbox[k] # NoEntry /\ k \notin overlapped => outbox[k].state = chat'[k]
                      /\ chat'[k] \in Waiting /\ k \notin stranded =>
                           \/ outbox[k] # NoEntry
                           \/ \E u \in Operator : writing'[u] \in Queueing /\ writing'[u].message = k
    BY <1>2 DEF WaitingIsScheduled
  <2>1. CASE k = m
    BY <1>3, <1>4, <1>6, <2>1, <1>2
  <2>2. CASE k # m
    <3>1. chat'[k] = chat[k]
      BY <1>6, <2>2 DEF ChatId
    <3>2. \A u \in Operator : writing[u] \in Queueing => u # t /\ writing'[u] = writing[u]
      BY <1>2, <1>6, FreeIsNothing DEF Party
    <3> QED BY <1>1, <3>1, <3>2 DEF WaitingIsScheduled
  <2> QED BY <2>1, <2>2
<1>10. OverlapsAreKnown'
  BY <1>1, <1>2, <1>3, <1>5, <1>6 DEF OverlapsAreKnown
<1>11. QueueingIsSound'
  <2> SUFFICES ASSUME NEW u \in Party, writing'[u] \in Queueing
               PROVE  /\ u \in Operator
                      /\ chat'[writing'[u].message] = "QUEUED" /\ outbox[writing'[u].message] = NoEntry
                      /\ \A v \in Party \ {u} :
                           writing'[v] \in Queueing => writing'[v].message # writing'[u].message
    BY <1>2 DEF QueueingIsSound
  <2>1. CASE u = t
    BY <1>2, <1>3, <1>4, <1>5, <1>6, <2>1, FreeIsNothing
  <2>2. CASE u # t
    <3>1. writing'[u] = writing[u] /\ writing[u].message # m /\ writing[u].message \in ChatId
      BY <1>1, <1>5, <1>6, <2>2, FreeIsNothing, WritingCases DEF ChatId
    <3> QED BY <1>1, <1>3, <1>6, <2>2, <3>1 DEF QueueingIsSound
  <2> QED BY <2>1, <2>2
<1>12. WritingIsSound'
  <2> SUFFICES ASSUME NEW u \in Party, writing'[u] \in Write
               PROVE  /\ writing'[u].message \in Sent \/ u \in Operator
                      /\ writing'[u].message \in Sent =>
                           /\ outbox[writing'[u].message] # NoEntry
                           /\ writing'[u].to # "SEEN"
                           /\ writing'[u].to \in {"DELIVERED", "READ"} => writing'[u].message \in answered
                           /\ writing'[u].message \notin overlapped =>
                                /\ MayFollow(writing'[u].to, chat'[writing'[u].message])
                                /\ u \in Operator => chat'[writing'[u].message] = writing'[u].to
    BY <1>2 DEF WritingIsSound, MayFollow
  <2>1. writing'[u] = writing[u] /\ writing[u] \in Write
    BY <1>3, <1>6
  <2>2. writing[u].message # m /\ writing[u].message \in ChatId
    BY <1>1, <1>5, <2>1, WritingCases
  <2>3. chat'[writing[u].message] = chat[writing[u].message]
    BY <1>6, <2>2
  <2> QED BY <1>1, <2>1, <2>3 DEF WritingIsSound
<1>13. EntriesAreSound'
  BY <1>1, <1>2, <1>4, <1>6 DEF EntriesAreSound, ChatId
<1> QED BY <1>7, <1>8, <1>9, <1>10, <1>11, <1>12, <1>13 DEF ChatInv

LEMMA ChatCountsKeeps ==
    ASSUME ChatInv, NEW t \in Operator, ChatCounts(t)
    PROVE  ChatInv'
<1> DEFINE m == writing[t].message
<1>1. /\ ChatTypeOK /\ DeliveredIsAcknowledged /\ AttemptsBoundPublications /\ WaitingIsScheduled
      /\ OverlapsAreKnown /\ QueueingIsSound /\ WritingIsSound /\ EntriesAreSound
  BY DEF ChatInv
<1>2. /\ t \in Party /\ writing[t].to = "STORED_ROW"
      /\ UNCHANGED <<outbox, queue, unacked, worker, expired, published, answered, overlapped, stranded, chatCrashes>>
  BY DEF ChatCounts, chatHistory, Party
<1>3. writing[t] \in Queueing /\ writing[t] # Free /\ m \in Sent
  BY <1>1, <1>2, WritingCases
<1>4. /\ chat[m] = "QUEUED" /\ outbox[m] = NoEntry
      /\ \A u \in Party \ {t} : writing[u] \in Queueing => writing[u].message # m
  BY <1>1, <1>2, <1>3 DEF QueueingIsSound
<1>5. \A u \in Party \ {t} : writing[u] # Free => writing[u].message # m
  <2> SUFFICES ASSUME NEW u \in Party \ {t}, writing[u] # Free, writing[u].message = m PROVE FALSE
    OBVIOUS
  <2>1. writing[u] \in Write
    BY <1>1, <1>4, WritingCases
  <2> QED BY <1>1, <1>3, <1>4, <2>1 DEF WritingIsSound
<1>6. CASE chat' = [chat EXCEPT ![m] = "FAILED"] /\ writing' = [writing EXCEPT ![t] = Free]
  <2>1. /\ \A u \in Party : writing'[u] = IF u = t THEN Free ELSE writing[u]
        /\ \A k \in ChatId : chat'[k] = IF k = m THEN "FAILED" ELSE chat[k]
    BY <1>1, <1>6 DEF ChatTypeOK
  <2>2. ChatTypeOK'
    BY <1>1, <1>2, <1>6, StatesLemma, OrderLemma DEF ChatTypeOK
  <2> HIDE DEF m
  <2>3. DeliveredIsAcknowledged' /\ AttemptsBoundPublications'
    BY <1>1, <1>2, <2>1 DEF DeliveredIsAcknowledged, AttemptsBoundPublications, ChatId
  <2>4. \A u \in Party : writing'[u] # Free => u # t /\ writing'[u] = writing[u] /\ writing[u].message # m
    BY <1>5, <2>1
  <2>5. WaitingIsScheduled'
    <3> SUFFICES ASSUME NEW k \in Sent
                 PROVE  /\ outbox[k] # NoEntry /\ k \notin overlapped => outbox[k].state = chat'[k]
                        /\ chat'[k] \in Waiting /\ k \notin stranded =>
                             \/ outbox[k] # NoEntry
                             \/ \E u \in Operator : writing'[u] \in Queueing /\ writing'[u].message = k
      BY <1>2 DEF WaitingIsScheduled
    <3>1. CASE k = m
      BY <1>3, <1>4, <2>1, <3>1 DEF Waiting, ChatId
    <3>2. CASE k # m
      <4>1. chat'[k] = chat[k]
        BY <2>1, <3>2 DEF ChatId
      <4>2. \A u \in Operator : writing[u].message = k => u # t /\ writing'[u] = writing[u]
        BY <2>1, <3>2 DEF Party, m
      <4> QED BY <1>1, <4>1, <4>2 DEF WaitingIsScheduled
    <3> QED BY <3>1, <3>2
  <2>6. OverlapsAreKnown'
    BY <1>1, <1>2, <2>4 DEF OverlapsAreKnown
  <2>7. QueueingIsSound'
    <3> SUFFICES ASSUME NEW u \in Party, writing'[u] \in Queueing
                 PROVE  /\ u \in Operator
                        /\ chat'[writing'[u].message] = "QUEUED" /\ outbox[writing'[u].message] = NoEntry
                        /\ \A v \in Party \ {u} :
                             writing'[v] \in Queueing => writing'[v].message # writing'[u].message
      BY <1>2 DEF QueueingIsSound
    <3>1. u # t /\ writing'[u] = writing[u] /\ writing[u].message # m /\ writing[u].message \in ChatId
      BY <1>1, <2>4, FreeIsNothing, WritingCases DEF ChatId
    <3> QED BY <1>1, <2>1, <2>4, <3>1, FreeIsNothing DEF QueueingIsSound
  <2>8. WritingIsSound'
    <3> SUFFICES ASSUME NEW u \in Party, writing'[u] \in Write
                 PROVE  /\ writing'[u].message \in Sent \/ u \in Operator
                        /\ writing'[u].message \in Sent =>
                             /\ outbox[writing'[u].message] # NoEntry
                             /\ writing'[u].to # "SEEN"
                             /\ writing'[u].to \in {"DELIVERED", "READ"} => writing'[u].message \in answered
                             /\ writing'[u].message \notin overlapped =>
                                  /\ MayFollow(writing'[u].to, chat'[writing'[u].message])
                                  /\ u \in Operator => chat'[writing'[u].message] = writing'[u].to
      BY <1>2 DEF WritingIsSound, MayFollow
    <3>1. writing'[u] = writing[u] /\ writing[u] \in Write /\ writing[u].message # m
      BY <2>4, FreeIsNothing
    <3>2. chat'[writing[u].message] = chat[writing[u].message]
      BY <1>1, <2>1, <3>1, WritingCases
    <3> QED BY <1>1, <3>1, <3>2 DEF WritingIsSound
  <2>9. EntriesAreSound'
    BY <1>1, <1>2, <1>4, <2>1 DEF EntriesAreSound, ChatId
  <2> QED BY <2>2, <2>3, <2>5, <2>6, <2>7, <2>8, <2>9 DEF ChatInv
<1>7. CASE UNCHANGED chat /\ writing' = [writing EXCEPT ![t].to = "OUTBOX"]
  <2> DEFINE w == [writing[t] EXCEPT !.to = "OUTBOX"]
  <2>1. w \in Queueing /\ w.message = m /\ w # Free /\ w \notin Write
    BY <1>3, StatesLemma DEF Queueing, Free, Write
  <2>2. writing' = [writing EXCEPT ![t] = w]
    BY <1>7
  <2> HIDE DEF w
  <2>3. \A u \in Party : writing'[u] = IF u = t THEN w ELSE writing[u]
    BY <1>1, <2>2 DEF ChatTypeOK
  <2>4. ChatTypeOK'
    BY <1>1, <1>2, <1>7, <2>1, <2>2 DEF ChatTypeOK
  <2>5. DeliveredIsAcknowledged' /\ AttemptsBoundPublications' /\ EntriesAreSound'
    BY <1>1, <1>2, <1>7 DEF DeliveredIsAcknowledged, AttemptsBoundPublications, EntriesAreSound
  <2>6. \A u \in Party : /\ (writing'[u] \in Queueing) = (writing[u] \in Queueing)
                         /\ writing'[u] \in Queueing => writing'[u].message = writing[u].message
                         /\ writing'[u] \in Write => writing'[u] = writing[u]
                         /\ writing'[u] # Free => writing[u] # Free /\ writing'[u].message = writing[u].message
    BY <1>3, <2>1, <2>3
  <2>7. WaitingIsScheduled'
    BY <1>1, <1>2, <1>7, <2>6 DEF WaitingIsScheduled, Party
  <2>8. OverlapsAreKnown'
    BY <1>1, <1>2, <2>6 DEF OverlapsAreKnown
  <2>9. QueueingIsSound'
    BY <1>1, <1>2, <1>7, <2>6 DEF QueueingIsSound
  <2>10. WritingIsSound'
    <3> SUFFICES ASSUME NEW u \in Party, writing'[u] \in Write
                 PROVE  /\ writing'[u].message \in Sent \/ u \in Operator
                        /\ writing'[u].message \in Sent =>
                             /\ outbox[writing'[u].message] # NoEntry
                             /\ writing'[u].to # "SEEN"
                             /\ writing'[u].to \in {"DELIVERED", "READ"} => writing'[u].message \in answered
                             /\ writing'[u].message \notin overlapped =>
                                  /\ MayFollow(writing'[u].to, chat[writing'[u].message])
                                  /\ u \in Operator => chat[writing'[u].message] = writing'[u].to
      BY <1>2, <1>7 DEF WritingIsSound, MayFollow
    <3> QED BY <1>1, <2>6 DEF WritingIsSound
  <2> QED BY <2>4, <2>5, <2>7, <2>8, <2>9, <2>10 DEF ChatInv
<1> QED BY <1>6, <1>7 DEF ChatCounts

LEMMA ChatQueuesKeeps ==
    ASSUME ChatInv, NEW t \in Operator, ChatQueues(t)
    PROVE  ChatInv'
<1> DEFINE m == writing[t].message
           entry == [state |-> "QUEUED", attempts |-> 0]
<1>1. /\ ChatTypeOK /\ DeliveredIsAcknowledged /\ AttemptsBoundPublications /\ WaitingIsScheduled
      /\ OverlapsAreKnown /\ QueueingIsSound /\ WritingIsSound /\ EntriesAreSound
  BY DEF ChatInv
<1>2. /\ t \in Party /\ writing[t].to = "OUTBOX"
      /\ outbox' = [outbox EXCEPT ![m] = entry]
      /\ writing' = [writing EXCEPT ![t] = Free]
      /\ UNCHANGED <<chat, queue, unacked, worker, expired, published, answered, overlapped, stranded, chatCrashes>>
  BY DEF ChatQueues, chatHistory, Party
<1>3. writing[t] \in Queueing /\ writing[t] # Free /\ m \in Sent
  BY <1>1, <1>2, WritingCases
<1>4. /\ chat[m] = "QUEUED" /\ outbox[m] = NoEntry
      /\ \A u \in Party \ {t} : writing[u] \in Queueing => writing[u].message # m
  BY <1>1, <1>2, <1>3 DEF QueueingIsSound
<1>5. entry # NoEntry /\ entry.state = "QUEUED" /\ entry.attempts = 0 /\ NoEntry.attempts = 0
  BY DEF NoEntry
<1>6. /\ \A u \in Party : writing'[u] = IF u = t THEN Free ELSE writing[u]
      /\ \A k \in Sent : outbox'[k] = IF k = m THEN entry ELSE outbox[k]
  BY <1>1, <1>2 DEF ChatTypeOK
<1>7. ChatTypeOK'
  <2>1. entry \in [state : ChatStates \cup {"ABSENT"}, attempts : Nat]
    BY StatesLemma, OrderLemma
  <2> HIDE DEF entry
  <2> QED BY <1>1, <1>2, <2>1 DEF ChatTypeOK
<1> HIDE DEF m, entry
<1>8. \A u \in Party : writing'[u] # Free => u # t /\ writing'[u] = writing[u]
  BY <1>6
<1>9. DeliveredIsAcknowledged' /\ AttemptsBoundPublications'
  BY <1>1, <1>2 DEF DeliveredIsAcknowledged, AttemptsBoundPublications
<1>10. WaitingIsScheduled'
  <2> SUFFICES ASSUME NEW k \in Sent
               PROVE  /\ outbox'[k] # NoEntry /\ k \notin overlapped => outbox'[k].state = chat[k]
                      /\ chat[k] \in Waiting /\ k \notin stranded =>
                           \/ outbox'[k] # NoEntry
                           \/ \E u \in Operator : writing'[u] \in Queueing /\ writing'[u].message = k
    BY <1>2 DEF WaitingIsScheduled
  <2>1. CASE k = m
    BY <1>4, <1>5, <1>6, <2>1
  <2>2. CASE k # m
    <3>1. outbox'[k] = outbox[k]
      BY <1>6, <2>2
    <3>2. \A u \in Operator : writing[u].message = k => u # t /\ writing'[u] = writing[u]
      BY <1>6, <2>2 DEF Party, m
    <3> QED BY <1>1, <3>1, <3>2 DEF WaitingIsScheduled
  <2> QED BY <2>1, <2>2
<1>11. OverlapsAreKnown'
  BY <1>1, <1>2, <1>8 DEF OverlapsAreKnown
<1>12. QueueingIsSound'
  <2> SUFFICES ASSUME NEW u \in Party, writing'[u] \in Queueing
               PROVE  /\ u \in Operator
                      /\ chat[writing'[u].message] = "QUEUED" /\ outbox'[writing'[u].message] = NoEntry
                      /\ \A v \in Party \ {u} :
                           writing'[v] \in Queueing => writing'[v].message # writing'[u].message
    BY <1>2 DEF QueueingIsSound
  <2>1. u # t /\ writing'[u] = writing[u] /\ writing[u] \in Queueing
    BY <1>8, FreeIsNothing
  <2>2. writing[u].message # m /\ writing[u].message \in Sent
    BY <1>1, <1>4, <2>1, WritingCases
  <2> QED BY <1>1, <1>6, <1>8, <2>1, <2>2, FreeIsNothing DEF QueueingIsSound
<1>13. WritingIsSound'
  <2> SUFFICES ASSUME NEW u \in Party, writing'[u] \in Write
               PROVE  /\ writing'[u].message \in Sent \/ u \in Operator
                      /\ writing'[u].message \in Sent =>
                           /\ outbox'[writing'[u].message] # NoEntry
                           /\ writing'[u].to # "SEEN"
                           /\ writing'[u].to \in {"DELIVERED", "READ"} => writing'[u].message \in answered
                           /\ writing'[u].message \notin overlapped =>
                                /\ MayFollow(writing'[u].to, chat[writing'[u].message])
                                /\ u \in Operator => chat[writing'[u].message] = writing'[u].to
    BY <1>2 DEF WritingIsSound, MayFollow
  <2>1. writing'[u] = writing[u] /\ writing[u] \in Write
    BY <1>8, FreeIsNothing
  <2>2. writing[u].message \in Sent => outbox'[writing[u].message] # NoEntry
    BY <1>1, <1>5, <1>6, <2>1 DEF WritingIsSound
  <2> QED BY <1>1, <2>1, <2>2 DEF WritingIsSound
<1>14. EntriesAreSound'
  <2> SUFFICES ASSUME NEW k \in Sent
               PROVE  /\ chat[k] # "SEEN"
                      /\ chat[k] = "ABSENT" \/ outbox'[k].state = "ABSENT" => outbox'[k] = NoEntry
                      /\ unacked[k] > 0 \/ k \in answered => outbox'[k] # NoEntry
                      /\ published[k] + queue[k] <= outbox'[k].attempts
                      /\ outbox'[k].attempts <= MaxAttempts
    BY <1>2 DEF EntriesAreSound
  <2>1. CASE k = m
    BY <1>1, <1>4, <1>5, <1>6, <2>1, ChatAssumption DEF EntriesAreSound
  <2>2. CASE k # m
    BY <1>1, <1>6, <2>2 DEF EntriesAreSound
  <2> QED BY <2>1, <2>2
<1> QED BY <1>7, <1>9, <1>10, <1>11, <1>12, <1>13, <1>14 DEF ChatInv

---------------------------------------------------------------------------
(* A party decides what to write.                                          *)

\* Deciding by itself writes neither rows nor entries.
LEMMA DecisionKeeps ==
    ASSUME ChatInv, NEW t \in Party, writing[t] = Free, NEW m \in ChatId, Overlap(t, m),
           NEW w, writing' = [writing EXCEPT ![t] = w],
           UNCHANGED <<chat, outbox, stranded>>, answered \subseteq answered',
           \/ w = Free
           \/ /\ w \in Write /\ w.message = m
              /\ m \in Sent \/ t \in Operator
              /\ m \in Sent =>
                   /\ outbox[m] # NoEntry
                   /\ w.to # "SEEN"
                   /\ w.to \in {"DELIVERED", "READ"} => m \in answered'
                   /\ MayFollow(w.to, chat[m])
                   /\ t \in Operator => chat[m] = w.to
    PROVE  /\ writing' \in [Party -> {Free} \cup Write \cup Queueing]
           /\ overlapped' \subseteq ChatId
           /\ DeliveredIsAcknowledged' /\ WaitingIsScheduled'
           /\ OverlapsAreKnown' /\ QueueingIsSound' /\ WritingIsSound'
<1>1. /\ ChatTypeOK /\ DeliveredIsAcknowledged /\ WaitingIsScheduled
      /\ OverlapsAreKnown /\ QueueingIsSound /\ WritingIsSound
  BY DEF ChatInv
<1>2. /\ writing' \in [Party -> {Free} \cup Write \cup Queueing]
      /\ \A u \in Party : writing'[u] = IF u = t THEN w ELSE writing[u]
      /\ w \notin Queueing
  BY <1>1, StatesLemma, FreeIsNothing DEF ChatTypeOK, Write, Queueing
<1>3. /\ overlapped \subseteq overlapped' /\ overlapped' \subseteq ChatId
      /\ Others(t, m) => m \in overlapped'
  BY <1>1 DEF Overlap, ChatTypeOK
<1>4. DeliveredIsAcknowledged'
  BY <1>1 DEF DeliveredIsAcknowledged
<1>5. \A u \in Party : (writing'[u] \in Queueing) = (writing[u] \in Queueing)
                       /\ (writing[u] \in Queueing => writing'[u] = writing[u])
  BY <1>2, FreeIsNothing
<1>6. WaitingIsScheduled'
  BY <1>1, <1>3, <1>5 DEF WaitingIsScheduled, Party
<1>7. OverlapsAreKnown'
  <2> SUFFICES ASSUME NEW u \in Party, NEW v \in Party, u # v, writing'[u] # Free, writing'[v] # Free,
                      writing'[u].message = writing'[v].message
               PROVE  writing'[u].message \in overlapped'
    BY DEF OverlapsAreKnown
  <2>1. CASE u # t /\ v # t
    BY <1>1, <1>2, <1>3, <2>1 DEF OverlapsAreKnown
  <2>2. CASE u = t
    BY <1>2, <1>3, <2>2 DEF Others
  <2>3. CASE v = t
    BY <1>2, <1>3, <2>3 DEF Others
  <2> QED BY <2>1, <2>2, <2>3
<1>8. QueueingIsSound'
  BY <1>1, <1>5 DEF QueueingIsSound
<1>9. WritingIsSound'
  <2> SUFFICES ASSUME NEW u \in Party, writing'[u] \in Write
               PROVE  /\ writing'[u].message \in Sent \/ u \in Operator
                      /\ writing'[u].message \in Sent =>
                           /\ outbox[writing'[u].message] # NoEntry
                           /\ writing'[u].to # "SEEN"
                           /\ writing'[u].to \in {"DELIVERED", "READ"} => writing'[u].message \in answered'
                           /\ writing'[u].message \notin overlapped' =>
                                /\ MayFollow(writing'[u].to, chat[writing'[u].message])
                                /\ u \in Operator => chat[writing'[u].message] = writing'[u].to
    BY DEF WritingIsSound, MayFollow
  <2>1. CASE u = t
    BY <1>2, <2>1, FreeIsNothing
  <2>2. CASE u # t
    BY <1>1, <1>2, <1>3, <2>2 DEF WritingIsSound
  <2> QED BY <2>1, <2>2
<1> QED BY <1>2, <1>3, <1>4, <1>6, <1>7, <1>8, <1>9

\* chat_state by the worker or the callback.
LEMMA DecidesKeeps ==
    ASSUME ChatInv, NEW t \in {"WORKER", "CALLBACK"}, writing[t] = Free, NEW m \in Sent,
           NEW to \in DOMAIN Order, Decides(t, m, to), outbox[m] # NoEntry,
           UNCHANGED <<chat, outbox, stranded>>, answered \subseteq answered',
           to \in {"DELIVERED", "READ"} => m \in answered'
    PROVE  /\ writing' \in [Party -> {Free} \cup Write \cup Queueing]
           /\ overlapped' \subseteq ChatId
           /\ DeliveredIsAcknowledged' /\ WaitingIsScheduled'
           /\ OverlapsAreKnown' /\ QueueingIsSound' /\ WritingIsSound'
<1>1. t \in Party /\ t \notin Operator /\ m \in ChatId /\ Overlap(t, m)
  BY ChatAssumption DEF Decides, Party, ChatId
<1> DEFINE w == [to |-> to, message |-> m]
<1>2. w \in Write /\ w.message = m /\ w.to = to /\ to # "SEEN"
  BY <1>1, StatesLemma DEF Write
<1>3. \/ writing' = [writing EXCEPT ![t] = Free]
      \/ writing' = [writing EXCEPT ![t] = w] /\ MayFollow(to, chat[m])
  BY DEF Decides
<1> HIDE DEF w
<1>4. CASE writing' = [writing EXCEPT ![t] = Free]
  BY <1>1, <1>4, DecisionKeeps
<1>5. CASE writing' = [writing EXCEPT ![t] = w] /\ MayFollow(to, chat[m])
  BY <1>1, <1>2, <1>5, DecisionKeeps
<1> QED BY <1>3, <1>4, <1>5

LEMMA MarkDeliveredReadsKeeps ==
    ASSUME ChatInv, NEW t \in Operator, NEW m \in ChatId, MarkDeliveredReads(t, m)
    PROVE  ChatInv'
<1> DEFINE w == [to |-> "DELIVERED", message |-> m]
<1>1. /\ t \in Party /\ writing[t] = Free /\ chat[m] = "DELIVERED" /\ Overlap(t, m)
      /\ writing' = [writing EXCEPT ![t] = w]
      /\ UNCHANGED <<chat, outbox, queue, unacked, worker, expired, published, answered, stranded, chatCrashes>>
  BY DEF MarkDeliveredReads, Party
<1>2. w \in Write /\ w.message = m /\ w.to = "DELIVERED"
  BY StatesLemma, OrderLemma DEF Write
<1> HIDE DEF w
<1>3. m \in Sent => outbox[m] # NoEntry /\ m \in answered
  BY <1>1 DEF ChatInv, DeliveredIsAcknowledged, EntriesAreSound
<1>4. MayFollow("DELIVERED", "DELIVERED")
  BY OrderLemma DEF MayFollow
<1>5. /\ writing' \in [Party -> {Free} \cup Write \cup Queueing]
      /\ overlapped' \subseteq ChatId
      /\ DeliveredIsAcknowledged' /\ WaitingIsScheduled'
      /\ OverlapsAreKnown' /\ QueueingIsSound' /\ WritingIsSound'
  BY <1>1, <1>2, <1>3, <1>4, DecisionKeeps
<1>6. ChatTypeOK' /\ EntriesAreSound' /\ AttemptsBoundPublications'
  BY <1>1, <1>5 DEF ChatInv, ChatTypeOK, EntriesAreSound, AttemptsBoundPublications
<1> QED BY <1>5, <1>6 DEF ChatInv

LEMMA MarkSeenReadsKeeps ==
    ASSUME ChatInv, NEW t \in Operator, NEW m \in ChatId, MarkSeenReads(t, m)
    PROVE  ChatInv'
<1> DEFINE w == [to |-> "SEEN", message |-> m]
<1>1. /\ t \in Party /\ writing[t] = Free /\ m \in Received /\ Overlap(t, m)
      /\ writing' = [writing EXCEPT ![t] = w]
      /\ UNCHANGED <<chat, outbox, queue, unacked, worker, expired, published, answered, stranded, chatCrashes>>
  BY DEF MarkSeenReads, Party
<1>2. w \in Write /\ w.message = m /\ m \notin Sent
  BY <1>1, ChatAssumption DEF Write, ChatStates
<1> HIDE DEF w
<1>3. /\ writing' \in [Party -> {Free} \cup Write \cup Queueing]
      /\ overlapped' \subseteq ChatId
      /\ DeliveredIsAcknowledged' /\ WaitingIsScheduled'
      /\ OverlapsAreKnown' /\ QueueingIsSound' /\ WritingIsSound'
  BY <1>1, <1>2, DecisionKeeps
<1>4. ChatTypeOK' /\ EntriesAreSound' /\ AttemptsBoundPublications'
  BY <1>1, <1>3 DEF ChatInv, ChatTypeOK, EntriesAreSound, AttemptsBoundPublications
<1> QED BY <1>3, <1>4 DEF ChatInv

\* An envelope that was made has its entry.
LEMMA EntryLemma ==
    ASSUME ChatInv, NEW m \in Sent
    PROVE  /\ outbox[m] \in [state : ChatStates \cup {"ABSENT"}, attempts : Nat]
           /\ queue[m] \in Nat /\ unacked[m] \in Nat /\ published[m] \in Nat
           /\ queue[m] > 0 \/ published[m] > 0 \/ unacked[m] > 0 \/ m \in answered
                \/ outbox[m].state \in Waiting => outbox[m] # NoEntry
<1>1. /\ outbox[m] \in [state : ChatStates \cup {"ABSENT"}, attempts : Nat]
      /\ queue[m] \in Nat /\ unacked[m] \in Nat /\ published[m] \in Nat
  BY DEF ChatInv, ChatTypeOK
<1>2. published[m] + queue[m] <= outbox[m].attempts
  BY DEF ChatInv, EntriesAreSound
<1>3. queue[m] > 0 \/ published[m] > 0 => outbox[m].attempts > 0
  BY <1>1, <1>2
<1>4. NoEntry.attempts = 0 /\ NoEntry.state \notin Waiting
  BY DEF NoEntry, Waiting
<1>5. unacked[m] > 0 \/ m \in answered => outbox[m] # NoEntry
  BY DEF ChatInv, EntriesAreSound
<1> QED BY <1>1, <1>3, <1>4, <1>5

---------------------------------------------------------------------------
(* The worker and the callback.                                            *)

LEMMA HearAckKeeps ==
    ASSUME ChatInv, NEW m \in Sent, NEW state \in Reports, HearAck(m, state)
    PROVE  ChatInv'
<1>1. /\ writing["WORKER"] = Free /\ published[m] > 0 /\ Decides("WORKER", m, state)
      /\ answered' = IF state \in {"DELIVERED", "READ"} THEN answered \cup {m} ELSE answered
      /\ UNCHANGED <<chat, outbox, queue, unacked, worker, expired, published, stranded, chatCrashes>>
  BY DEF HearAck, WorkerIdle
<1>2. state \in DOMAIN Order
  BY OrderLemma DEF Reports
<1>3. outbox[m] # NoEntry
  BY <1>1, EntryLemma
<1>4. /\ writing' \in [Party -> {Free} \cup Write \cup Queueing]
      /\ overlapped' \subseteq ChatId
      /\ DeliveredIsAcknowledged' /\ WaitingIsScheduled'
      /\ OverlapsAreKnown' /\ QueueingIsSound' /\ WritingIsSound'
  BY <1>1, <1>2, <1>3, DecidesKeeps
<1>5. ChatTypeOK' /\ EntriesAreSound' /\ AttemptsBoundPublications'
  BY <1>1, <1>3, <1>4 DEF ChatInv, ChatTypeOK, EntriesAreSound, AttemptsBoundPublications
<1> QED BY <1>4, <1>5 DEF ChatInv

LEMMA DrainGivesUpKeeps ==
    ASSUME ChatInv, NEW m \in Sent, DrainGivesUp(m)
    PROVE  ChatInv'
<1>1. /\ writing["WORKER"] = Free /\ outbox[m].state \in Waiting
      /\ Decides("WORKER", m, "EXPIRED") \/ Decides("WORKER", m, "UNKNOWN")
      /\ UNCHANGED <<chat, outbox, queue, unacked, worker, expired, published, answered, stranded, chatCrashes>>
  BY DEF DrainGivesUp, WorkerIdle, WorkerSends
<1>2. outbox[m] # NoEntry /\ "EXPIRED" \in DOMAIN Order /\ "UNKNOWN" \in DOMAIN Order
  BY <1>1, EntryLemma, OrderLemma
<1>3. /\ writing' \in [Party -> {Free} \cup Write \cup Queueing]
      /\ overlapped' \subseteq ChatId
      /\ DeliveredIsAcknowledged' /\ WaitingIsScheduled'
      /\ OverlapsAreKnown' /\ QueueingIsSound' /\ WritingIsSound'
  BY <1>1, <1>2, DecidesKeeps
<1>4. ChatTypeOK' /\ EntriesAreSound' /\ AttemptsBoundPublications'
  BY <1>1, <1>3 DEF ChatInv, ChatTypeOK, EntriesAreSound, AttemptsBoundPublications
<1> QED BY <1>3, <1>4 DEF ChatInv

LEMMA PublishKeeps ==
    ASSUME ChatInv, NEW m \in Sent, Publish(m)
    PROVE  ChatInv'
<1>1. /\ writing["WORKER"] = Free /\ queue[m] > 0 /\ Decides("WORKER", m, "PUBLISHED")
      /\ queue' = [queue EXCEPT ![m] = @ - 1]
      /\ published' = [published EXCEPT ![m] = @ + 1]
      /\ unacked' = [unacked EXCEPT ![m] = @ + 1]
      /\ UNCHANGED <<chat, outbox, worker, expired, answered, stranded, chatCrashes>>
  BY DEF Publish, WorkerIdle, WorkerSends
<1>2. outbox[m] # NoEntry /\ "PUBLISHED" \in DOMAIN Order
  BY <1>1, EntryLemma, OrderLemma
<1>3. /\ writing' \in [Party -> {Free} \cup Write \cup Queueing]
      /\ overlapped' \subseteq ChatId
      /\ DeliveredIsAcknowledged' /\ WaitingIsScheduled'
      /\ OverlapsAreKnown' /\ QueueingIsSound' /\ WritingIsSound'
  BY <1>1, <1>2, DecidesKeeps
<1>4. queue \in [Sent -> Nat] /\ published \in [Sent -> Nat] /\ unacked \in [Sent -> Nat]
  BY DEF ChatInv, ChatTypeOK
<1>5. \A k \in Sent : /\ queue'[k] = IF k = m THEN queue[m] - 1 ELSE queue[k]
                      /\ published'[k] = IF k = m THEN published[m] + 1 ELSE published[k]
                      /\ unacked'[k] = IF k = m THEN unacked[m] + 1 ELSE unacked[k]
  BY <1>1, <1>4
<1>6. ChatTypeOK'
  <2>1. queue' \in [Sent -> Nat] /\ published' \in [Sent -> Nat] /\ unacked' \in [Sent -> Nat]
    BY <1>1, <1>4
  <2> QED BY <1>1, <1>3, <2>1 DEF ChatInv, ChatTypeOK
<1>7. EntriesAreSound'
  <2> SUFFICES ASSUME NEW k \in Sent
               PROVE  /\ chat[k] # "SEEN"
                      /\ chat[k] = "ABSENT" \/ outbox[k].state = "ABSENT" => outbox[k] = NoEntry
                      /\ unacked'[k] > 0 \/ k \in answered => outbox[k] # NoEntry
                      /\ published'[k] + queue'[k] <= outbox[k].attempts
                      /\ outbox[k].attempts <= MaxAttempts
    BY <1>1 DEF EntriesAreSound
  <2>1. published'[k] + queue'[k] = published[k] + queue[k]
    BY <1>1, <1>4, <1>5
  <2>2. unacked'[k] > 0 \/ k \in answered => outbox[k] # NoEntry
    BY <1>2, <1>5 DEF ChatInv, EntriesAreSound
  <2> QED BY <2>1, <2>2 DEF ChatInv, EntriesAreSound
<1>8. AttemptsBoundPublications'
  BY <1>6, <1>7, ChatAssumption DEF AttemptsBoundPublications, EntriesAreSound, ChatTypeOK
<1> QED BY <1>3, <1>6, <1>7, <1>8 DEF ChatInv

LEMMA PublishFailsKeeps ==
    ASSUME ChatInv, NEW m \in Sent, PublishFails(m)
    PROVE  ChatInv'
<1>1. /\ writing["WORKER"] = Free /\ queue[m] > 0
      /\ Decides("WORKER", m, "EXPIRED") \/ Decides("WORKER", m, "UNKNOWN")
      /\ queue' = [queue EXCEPT ![m] = @ - 1]
      /\ UNCHANGED <<chat, outbox, unacked, worker, expired, published, answered, stranded, chatCrashes>>
  BY DEF PublishFails, WorkerIdle, WorkerSends
<1>2. outbox[m] # NoEntry /\ "EXPIRED" \in DOMAIN Order /\ "UNKNOWN" \in DOMAIN Order
  BY <1>1, EntryLemma, OrderLemma
<1>3. /\ writing' \in [Party -> {Free} \cup Write \cup Queueing]
      /\ overlapped' \subseteq ChatId
      /\ DeliveredIsAcknowledged' /\ WaitingIsScheduled'
      /\ OverlapsAreKnown' /\ QueueingIsSound' /\ WritingIsSound'
  BY <1>1, <1>2, DecidesKeeps
<1>4. queue \in [Sent -> Nat] /\ published \in [Sent -> Nat] /\ outbox \in [Sent -> [state : ChatStates \cup {"ABSENT"}, attempts : Nat]]
  BY DEF ChatInv, ChatTypeOK
<1>5. queue' \in [Sent -> Nat] /\ \A k \in Sent : queue'[k] <= queue[k]
  BY <1>1, <1>4
<1>6. ChatTypeOK'
  BY <1>1, <1>3, <1>5 DEF ChatInv, ChatTypeOK
<1>7. EntriesAreSound'
  <2> SUFFICES ASSUME NEW k \in Sent PROVE published[k] + queue'[k] <= outbox[k].attempts
    BY <1>1 DEF ChatInv, EntriesAreSound
  <2>1. published[k] + queue[k] <= outbox[k].attempts /\ queue'[k] <= queue[k]
    BY <1>5 DEF ChatInv, EntriesAreSound
  <2> QED BY <1>4, <1>5, <2>1
<1>8. AttemptsBoundPublications'
  BY <1>1 DEF ChatInv, AttemptsBoundPublications
<1> QED BY <1>3, <1>6, <1>7, <1>8 DEF ChatInv

LEMMA OnPublishKeeps ==
    ASSUME ChatInv, NEW m \in Sent, OnPublish(m)
    PROVE  ChatInv'
<1>1. /\ writing["CALLBACK"] = Free /\ unacked[m] > 0 /\ Decides("CALLBACK", m, "BROKER_ACCEPTED")
      /\ unacked' = [unacked EXCEPT ![m] = @ - 1]
      /\ UNCHANGED <<chat, outbox, queue, worker, expired, published, answered, stranded, chatCrashes>>
  BY DEF OnPublish
<1>2. outbox[m] # NoEntry /\ "BROKER_ACCEPTED" \in DOMAIN Order
  BY <1>1, EntryLemma, OrderLemma
<1>3. /\ writing' \in [Party -> {Free} \cup Write \cup Queueing]
      /\ overlapped' \subseteq ChatId
      /\ DeliveredIsAcknowledged' /\ WaitingIsScheduled'
      /\ OverlapsAreKnown' /\ QueueingIsSound' /\ WritingIsSound'
  BY <1>1, <1>2, DecidesKeeps
<1>4. unacked' \in [Sent -> Nat] /\ \A k \in Sent : unacked'[k] > 0 => k = m \/ unacked[k] > 0
  BY <1>1 DEF ChatInv, ChatTypeOK
<1>5. ChatTypeOK'
  BY <1>1, <1>3, <1>4 DEF ChatInv, ChatTypeOK
<1>6. EntriesAreSound' /\ AttemptsBoundPublications'
  BY <1>1, <1>2, <1>4 DEF ChatInv, EntriesAreSound, AttemptsBoundPublications
<1> QED BY <1>3, <1>5, <1>6 DEF ChatInv

\* Steps that neither write a status nor decide on one.
LEMMA StatusStaysKeeps ==
    ASSUME ChatInv, UNCHANGED <<chat, outbox, queue, writing, published, answered,
                                overlapped, stranded, chatCrashes>>,
           expired' \subseteq Sent, worker' \in {"OFF", "AWAY", "CONNECTED"},
           unacked' \in [Sent -> Nat], \A m \in Sent : unacked'[m] > 0 => unacked[m] > 0
    PROVE  ChatInv'
<1>1. ChatTypeOK' /\ DeliveredIsAcknowledged' /\ AttemptsBoundPublications' /\ WaitingIsScheduled'
  BY DEF ChatInv, ChatTypeOK, DeliveredIsAcknowledged, AttemptsBoundPublications, WaitingIsScheduled
<1>2. OverlapsAreKnown' /\ QueueingIsSound' /\ EntriesAreSound'
  BY DEF ChatInv, OverlapsAreKnown, QueueingIsSound, EntriesAreSound
<1>3. WritingIsSound'
  BY DEF ChatInv, WritingIsSound, MayFollow
<1> QED BY <1>1, <1>2, <1>3 DEF ChatInv

LEMMA HearMessageKeeps ==
    ASSUME ChatInv, NEW m \in Received, HearMessage(m)
    PROVE  ChatInv'
<1>1. /\ ChatTypeOK /\ DeliveredIsAcknowledged /\ AttemptsBoundPublications /\ WaitingIsScheduled
      /\ OverlapsAreKnown /\ QueueingIsSound /\ WritingIsSound /\ EntriesAreSound
  BY DEF ChatInv
<1>2. /\ chat' = [chat EXCEPT ![m] = "DELIVERED"]
      /\ UNCHANGED <<outbox, queue, unacked, worker, writing, expired, published, answered, overlapped,
                     stranded, chatCrashes>>
  BY DEF HearMessage, chatHistory
<1>3. m \notin Sent /\ \A k \in Sent : chat'[k] = chat[k]
  BY <1>1, <1>2, ChatAssumption DEF ChatTypeOK, ChatId
<1>4. ChatTypeOK'
  BY <1>1, <1>2, StatesLemma, OrderLemma DEF ChatTypeOK
<1>5. DeliveredIsAcknowledged' /\ AttemptsBoundPublications' /\ WaitingIsScheduled'
  BY <1>1, <1>2, <1>3 DEF DeliveredIsAcknowledged, AttemptsBoundPublications, WaitingIsScheduled
<1>6. OverlapsAreKnown' /\ EntriesAreSound'
  BY <1>1, <1>2, <1>3 DEF OverlapsAreKnown, EntriesAreSound
<1>7. QueueingIsSound'
  BY <1>1, <1>2, <1>3, WritingCases DEF QueueingIsSound
<1>8. WritingIsSound'
  <2> SUFFICES ASSUME NEW u \in Party, writing[u] \in Write
               PROVE  /\ writing[u].message \in Sent \/ u \in Operator
                      /\ writing[u].message \in Sent =>
                           /\ outbox[writing[u].message] # NoEntry
                           /\ writing[u].to # "SEEN"
                           /\ writing[u].to \in {"DELIVERED", "READ"} => writing[u].message \in answered
                           /\ writing[u].message \notin overlapped =>
                                /\ MayFollow(writing[u].to, chat'[writing[u].message])
                                /\ u \in Operator => chat'[writing[u].message] = writing[u].to
    BY <1>2 DEF WritingIsSound, MayFollow
  <2> QED BY <1>1, <1>3 DEF WritingIsSound
<1> QED BY <1>4, <1>5, <1>6, <1>7, <1>8 DEF ChatInv

LEMMA DrainQueuesKeeps ==
    ASSUME ChatInv, NEW m \in Sent, DrainQueues(m)
    PROVE  ChatInv'
<1>1. /\ ChatTypeOK /\ DeliveredIsAcknowledged /\ AttemptsBoundPublications /\ WaitingIsScheduled
      /\ OverlapsAreKnown /\ QueueingIsSound /\ WritingIsSound /\ EntriesAreSound
  BY DEF ChatInv
<1> DEFINE entry == [outbox[m] EXCEPT !.attempts = @ + 1]
<1>2. /\ outbox[m].state \in Waiting /\ outbox[m].attempts < MaxAttempts
      /\ queue' = [queue EXCEPT ![m] = @ + 1]
      /\ outbox' = [outbox EXCEPT ![m] = entry]
      /\ UNCHANGED <<chat, unacked, worker, writing, expired, published, answered, overlapped, stranded, chatCrashes>>
  BY DEF DrainQueues, chatHistory
<1>3. outbox[m] # NoEntry /\ outbox[m] \in [state : ChatStates \cup {"ABSENT"}, attempts : Nat]
  BY <1>2, EntryLemma
<1>4. /\ entry \in [state : ChatStates \cup {"ABSENT"}, attempts : Nat]
      /\ entry.state = outbox[m].state /\ entry.attempts = outbox[m].attempts + 1
  BY <1>3
<1>5. entry # NoEntry
  BY <1>2, <1>4 DEF NoEntry, Waiting
<1> HIDE DEF entry
<1>6. /\ \A k \in Sent : outbox'[k] = IF k = m THEN entry ELSE outbox[k]
      /\ \A k \in Sent : queue'[k] = IF k = m THEN queue[m] + 1 ELSE queue[k]
      /\ queue' \in [Sent -> Nat]
  BY <1>1, <1>2 DEF ChatTypeOK
<1>7. \A k \in Sent : /\ outbox'[k].state = outbox[k].state
                      /\ (outbox'[k] = NoEntry) = (outbox[k] = NoEntry)
  BY <1>3, <1>4, <1>5, <1>6
<1>8. ChatTypeOK'
  BY <1>1, <1>2, <1>4, <1>6 DEF ChatTypeOK
<1>9. DeliveredIsAcknowledged' /\ AttemptsBoundPublications' /\ WaitingIsScheduled'
  BY <1>1, <1>2, <1>7 DEF DeliveredIsAcknowledged, AttemptsBoundPublications, WaitingIsScheduled
<1>10. OverlapsAreKnown'
  BY <1>1, <1>2 DEF OverlapsAreKnown
<1>11. QueueingIsSound'
  BY <1>1, <1>2, <1>7, WritingCases DEF QueueingIsSound
<1>12. WritingIsSound'
  <2> SUFFICES ASSUME NEW u \in Party, writing[u] \in Write
               PROVE  /\ writing[u].message \in Sent \/ u \in Operator
                      /\ writing[u].message \in Sent =>
                           /\ outbox'[writing[u].message] # NoEntry
                           /\ writing[u].to # "SEEN"
                           /\ writing[u].to \in {"DELIVERED", "READ"} => writing[u].message \in answered
                           /\ writing[u].message \notin overlapped =>
                                /\ MayFollow(writing[u].to, chat[writing[u].message])
                                /\ u \in Operator => chat[writing[u].message] = writing[u].to
    BY <1>2 DEF WritingIsSound, MayFollow
  <2> QED BY <1>1, <1>7 DEF WritingIsSound
<1>13. EntriesAreSound'
  <2> SUFFICES ASSUME NEW k \in Sent
               PROVE  /\ published[k] + queue'[k] <= outbox'[k].attempts
                      /\ outbox'[k].attempts <= MaxAttempts
    BY <1>1, <1>2, <1>7 DEF EntriesAreSound
  <2>1. published[k] + queue[k] <= outbox[k].attempts /\ outbox[k].attempts <= MaxAttempts
    BY <1>1 DEF EntriesAreSound
  <2>2. CASE k = m
    <3>1. queue[m] \in Nat /\ published[m] \in Nat /\ outbox[m].attempts \in Nat /\ MaxAttempts \in Nat
      BY <1>1, <1>3, ChatAssumption DEF ChatTypeOK
    <3>2. queue'[k] = queue[m] + 1 /\ outbox'[k].attempts = outbox[m].attempts + 1
      BY <1>4, <1>6, <2>2
    <3> QED BY <1>2, <2>1, <2>2, <3>1, <3>2
  <2>3. CASE k # m
    BY <1>6, <2>1, <2>3
  <2> QED BY <2>2, <2>3
<1> QED BY <1>8, <1>9, <1>10, <1>11, <1>12, <1>13 DEF ChatInv

LEMMA ChatCrashKeeps == ChatInv /\ ChatCrash => ChatInv'
<1> SUFFICES ASSUME ChatInv, ChatCrash PROVE ChatInv'
  OBVIOUS
<1>1. /\ ChatTypeOK /\ DeliveredIsAcknowledged /\ AttemptsBoundPublications /\ WaitingIsScheduled
      /\ OverlapsAreKnown /\ QueueingIsSound /\ WritingIsSound /\ EntriesAreSound
  BY DEF ChatInv
<1> DEFINE lost == {writing[t].message : t \in {u \in Operator : writing[u] \in Queueing}}
<1>2. /\ chatCrashes' = chatCrashes + 1
      /\ queue' = [m \in Sent |-> 0] /\ unacked' = [m \in Sent |-> 0]
      /\ writing' = [t \in Party |-> Free]
      /\ stranded' = stranded \cup lost
      /\ worker' = "OFF" /\ UNCHANGED <<chat, outbox, expired, published, answered, overlapped>>
  BY DEF ChatCrash
<1>3. lost \subseteq Sent
  BY DEF Queueing
<1>4. \A t \in Operator : writing[t] \in Queueing => writing[t].message \in lost
  OBVIOUS
<1> HIDE DEF lost
<1>5. ChatTypeOK'
  BY <1>1, <1>2, <1>3 DEF ChatTypeOK
<1>6. DeliveredIsAcknowledged' /\ AttemptsBoundPublications'
  BY <1>1, <1>2 DEF DeliveredIsAcknowledged, AttemptsBoundPublications
<1>7. WaitingIsScheduled'
  BY <1>1, <1>2, <1>4 DEF WaitingIsScheduled
<1>8. OverlapsAreKnown' /\ QueueingIsSound' /\ WritingIsSound'
  BY <1>2, FreeIsNothing DEF OverlapsAreKnown, QueueingIsSound, WritingIsSound
<1>9. EntriesAreSound'
  <2> SUFFICES ASSUME NEW k \in Sent PROVE published[k] + 0 <= outbox[k].attempts
    BY <1>1, <1>2 DEF EntriesAreSound
  <2>1. published[k] + queue[k] <= outbox[k].attempts /\ queue[k] \in Nat /\ published[k] \in Nat
        /\ outbox[k].attempts \in Nat
    BY <1>1 DEF EntriesAreSound, ChatTypeOK
  <2> QED BY <2>1
<1> QED BY <1>5, <1>6, <1>7, <1>8, <1>9 DEF ChatInv

---------------------------------------------------------------------------
(* A party writes what it has decided on.                                  *)

LEMMA WritesEffect ==
    ASSUME ChatInv, NEW t \in Party, Writes(t)
    PROVE  /\ writing[t] \in Write
           /\ \A u \in Party : writing'[u] = IF u = t THEN Free ELSE writing[u]
           /\ \A k \in ChatId : chat'[k] = IF k = writing[t].message THEN writing[t].to ELSE chat[k]
           /\ \A k \in Sent :
                outbox'[k] = IF k = writing[t].message /\ t \notin Operator
                             THEN [outbox[k] EXCEPT !.state = writing[t].to] ELSE outbox[k]
           /\ UNCHANGED <<queue, unacked, worker, expired, published, answered, overlapped, stranded, chatCrashes>>
           /\ ChatTypeOK'
<1> DEFINE m == writing[t].message
           to == writing[t].to
<1>1. /\ to \in ChatStates
      /\ chat' = [chat EXCEPT ![m] = to]
      /\ outbox' = IF t \in Operator \/ outbox[m] = NoEntry THEN outbox
                   ELSE [outbox EXCEPT ![m].state = to]
      /\ writing' = [writing EXCEPT ![t] = Free]
      /\ UNCHANGED <<queue, unacked, worker, expired, published, answered, overlapped, stranded, chatCrashes>>
  BY DEF Writes, chatHistory
<1>2. ChatTypeOK /\ writing[t] \in Write /\ m \in ChatId
  BY <1>1, WritingCases DEF ChatInv
<1>3. /\ m \in Sent \/ t \in Operator
      /\ m \in Sent => outbox[m] # NoEntry
  BY <1>2 DEF ChatInv, WritingIsSound
<1>4. m \in Sent => [outbox[m] EXCEPT !.state = to] \in [state : ChatStates \cup {"ABSENT"}, attempts : Nat]
  BY <1>1, <1>2 DEF ChatTypeOK
<1>5. \A u \in Party : writing'[u] = IF u = t THEN Free ELSE writing[u]
  BY <1>1, <1>2 DEF ChatTypeOK
<1>6. \A k \in ChatId : chat'[k] = IF k = m THEN to ELSE chat[k]
  BY <1>1, <1>2 DEF ChatTypeOK
<1>7. /\ outbox' \in [Sent -> [state : ChatStates \cup {"ABSENT"}, attempts : Nat]]
      /\ \A k \in Sent : outbox'[k] = IF k = m /\ t \notin Operator
                                      THEN [outbox[k] EXCEPT !.state = to] ELSE outbox[k]
  <2>1. CASE t \in Operator
    BY <1>1, <1>2, <2>1 DEF ChatTypeOK
  <2>2. CASE t \notin Operator
    <3>1. m \in Sent /\ outbox' = [outbox EXCEPT ![m] = [outbox[m] EXCEPT !.state = to]]
      BY <1>1, <1>3, <2>2
    <3> QED BY <1>2, <1>4, <2>2, <3>1 DEF ChatTypeOK
  <2> QED BY <2>1, <2>2
<1>8. ChatTypeOK'
  <2>1. chat' \in [ChatId -> ChatStates \cup {"ABSENT"}] /\ writing' \in [Party -> {Free} \cup Write \cup Queueing]
    BY <1>1, <1>2 DEF ChatTypeOK
  <2> QED BY <1>1, <1>2, <1>7, <2>1 DEF ChatTypeOK
<1> QED BY <1>1, <1>2, <1>5, <1>6, <1>7, <1>8

LEMMA WritesKeeps ==
    ASSUME ChatInv, NEW t \in Party, Writes(t)
    PROVE  ChatInv'
<1>1. /\ ChatTypeOK /\ DeliveredIsAcknowledged /\ AttemptsBoundPublications /\ WaitingIsScheduled
      /\ OverlapsAreKnown /\ QueueingIsSound /\ WritingIsSound /\ EntriesAreSound
  BY DEF ChatInv
<1>10. PICK m, to : m = writing[t].message /\ to = writing[t].to
  OBVIOUS
<1>2. /\ writing[t] \in Write
      /\ \A u \in Party : writing'[u] = IF u = t THEN Free ELSE writing[u]
      /\ \A k \in ChatId : chat'[k] = IF k = m THEN to ELSE chat[k]
      /\ \A k \in Sent : outbox'[k] = IF k = m /\ t \notin Operator
                                      THEN [outbox[k] EXCEPT !.state = to] ELSE outbox[k]
      /\ UNCHANGED <<queue, unacked, worker, expired, published, answered, overlapped, stranded, chatCrashes>>
      /\ ChatTypeOK'
  BY <1>10, WritesEffect
<1>3. /\ m \in ChatId /\ to \in ChatStates /\ to # "ABSENT" /\ writing[t] # Free
      /\ m \in Sent =>
           /\ outbox[m] # NoEntry /\ to # "SEEN"
           /\ to \in {"DELIVERED", "READ"} => m \in answered
           /\ m \notin overlapped /\ t \in Operator => chat[m] = to
  BY <1>1, <1>2, <1>10, StatesLemma, WritingCases DEF WritingIsSound
<1>4. \A k \in Sent : /\ (outbox'[k] = NoEntry) = (outbox[k] = NoEntry)
                      /\ outbox'[k].attempts = outbox[k].attempts
                      /\ outbox'[k].state = IF k = m /\ t \notin Operator THEN to ELSE outbox[k].state
  <2> TAKE k \in Sent
  <2>1. outbox[k] \in [state : ChatStates \cup {"ABSENT"}, attempts : Nat]
    BY <1>1 DEF ChatTypeOK
  <2>2. k = m => [outbox[k] EXCEPT !.state = to] # NoEntry /\ outbox[k] # NoEntry
    BY <1>3, <2>1 DEF NoEntry
  <2>3. /\ [outbox[k] EXCEPT !.state = to].attempts = outbox[k].attempts
        /\ [outbox[k] EXCEPT !.state = to].state = to
    BY <2>1
  <2> QED BY <1>2, <2>2, <2>3
<1>5. \A k \in Sent : k \in ChatId
  BY DEF ChatId
<1>6. \A u \in Party : writing'[u] # Free => u # t /\ writing'[u] = writing[u] /\ writing[u] # Free
  BY <1>2
<1>7. DeliveredIsAcknowledged' /\ AttemptsBoundPublications'
  BY <1>1, <1>2, <1>3, <1>5 DEF DeliveredIsAcknowledged, AttemptsBoundPublications
<1>8. \A u \in Party : writing[u] \in Queueing => u # t /\ writing'[u] = writing[u]
  BY <1>1, <1>2, WritingCases
<1>9. WaitingIsScheduled'
  <2> SUFFICES ASSUME NEW k \in Sent
               PROVE  /\ outbox'[k] # NoEntry /\ k \notin overlapped => outbox'[k].state = chat'[k]
                      /\ chat'[k] \in Waiting /\ k \notin stranded =>
                           \/ outbox'[k] # NoEntry
                           \/ \E u \in Operator : writing'[u] \in Queueing /\ writing'[u].message = k
    BY <1>2 DEF WaitingIsScheduled
  <2>1. CASE k = m
    BY <1>1, <1>2, <1>3, <1>4, <1>5, <2>1 DEF WaitingIsScheduled
  <2>2. CASE k # m
    BY <1>1, <1>2, <1>4, <1>5, <1>8, <2>2 DEF WaitingIsScheduled, Party
  <2> QED BY <2>1, <2>2
<1>11. OverlapsAreKnown'
  BY <1>1, <1>2, <1>6 DEF OverlapsAreKnown
<1>12. QueueingIsSound'
  <2> SUFFICES ASSUME NEW u \in Party, writing'[u] \in Queueing
               PROVE  /\ u \in Operator
                      /\ chat'[writing'[u].message] = "QUEUED" /\ outbox'[writing'[u].message] = NoEntry
                      /\ \A v \in Party \ {u} :
                           writing'[v] \in Queueing => writing'[v].message # writing'[u].message
    BY <1>2 DEF QueueingIsSound
  <2>1. u # t /\ writing'[u] = writing[u] /\ writing[u] \in Queueing
    BY <1>6, FreeIsNothing
  <2>2. outbox[writing[u].message] = NoEntry /\ writing[u].message \in Sent
    BY <1>1, <2>1, WritingCases DEF QueueingIsSound
  <2>3. writing[u].message # m
    BY <1>3, <2>2
  <2> QED BY <1>1, <1>2, <1>4, <1>5, <1>6, <2>1, <2>2, <2>3, FreeIsNothing DEF QueueingIsSound
<1>13. WritingIsSound'
  <2> SUFFICES ASSUME NEW u \in Party, writing'[u] \in Write
               PROVE  /\ writing'[u].message \in Sent \/ u \in Operator
                      /\ writing'[u].message \in Sent =>
                           /\ outbox'[writing'[u].message] # NoEntry
                           /\ writing'[u].to # "SEEN"
                           /\ writing'[u].to \in {"DELIVERED", "READ"} => writing'[u].message \in answered
                           /\ writing'[u].message \notin overlapped =>
                                /\ MayFollow(writing'[u].to, chat'[writing'[u].message])
                                /\ u \in Operator => chat'[writing'[u].message] = writing'[u].to
    BY <1>2 DEF WritingIsSound, MayFollow
  <2>1. u # t /\ writing'[u] = writing[u] /\ writing[u] \in Write /\ writing[u] # Free
    BY <1>6, FreeIsNothing
  <2>2. writing[u].message \in ChatId
    BY <1>1, <2>1, WritingCases
  <2>3. writing[u].message = m => m \in overlapped
    BY <1>1, <1>3, <1>10, <2>1 DEF OverlapsAreKnown
  <2>4. writing[u].message \notin overlapped => chat'[writing[u].message] = chat[writing[u].message]
    BY <1>2, <2>2, <2>3
  <2> QED BY <1>1, <1>4, <2>1, <2>4 DEF WritingIsSound
<1>14. EntriesAreSound'
  <2> SUFFICES ASSUME NEW k \in Sent
               PROVE  /\ chat'[k] # "SEEN"
                      /\ chat'[k] = "ABSENT" \/ outbox'[k].state = "ABSENT" => outbox'[k] = NoEntry
                      /\ unacked[k] > 0 \/ k \in answered => outbox'[k] # NoEntry
                      /\ published[k] + queue[k] <= outbox'[k].attempts
                      /\ outbox'[k].attempts <= MaxAttempts
    BY <1>2 DEF EntriesAreSound
  <2>1. chat'[k] = IF k = m THEN to ELSE chat[k]
    BY <1>2, <1>5
  <2> QED BY <1>1, <1>3, <1>4, <2>1 DEF EntriesAreSound
<1> QED BY <1>2, <1>7, <1>9, <1>11, <1>12, <1>13, <1>14 DEF ChatInv

---------------------------------------------------------------------------
(* The specification.                                                      *)

LEMMA MovesKeep ==
    ASSUME ChatInv, WorkerStarts \/ OnConnect \/ OnDisconnect \/ WorkerStops
    PROVE  ChatInv'
<1>1. /\ UNCHANGED <<chat, outbox, queue, writing, expired, published, answered, overlapped, stranded,
                     chatCrashes>>
      /\ worker' \in {"OFF", "AWAY", "CONNECTED"}
      /\ unacked' = unacked \/ unacked' = [m \in Sent |-> 0]
  BY DEF WorkerStarts, OnConnect, OnDisconnect, WorkerStops, Moves, chatHistory
<1>2. unacked' \in [Sent -> Nat] /\ \A m \in Sent : unacked'[m] > 0 => unacked[m] > 0
  BY <1>1 DEF ChatInv, ChatTypeOK
<1> QED BY <1>1, <1>2, StatusStaysKeeps DEF ChatInv, ChatTypeOK

LEMMA OperatorKeeps ==
    ASSUME ChatInv, NEW t \in Operator, OperatorNext(t)
    PROVE  ChatInv'
BY ChatSendKeeps, ChatCountsKeeps, ChatQueuesKeeps, MarkDeliveredReadsKeeps, MarkSeenReadsKeeps
   DEF OperatorNext, ChatSendRequest, DeliveredRequest, SeenRequest

LEMMA ChatStepKeeps == ChatInv /\ [ChatNext]_chatVars => ChatInv'
<1> SUFFICES ASSUME ChatInv, [ChatNext]_chatVars PROVE ChatInv'
  OBVIOUS
<1>1. CASE \E t \in Operator : OperatorNext(t)
  BY <1>1, OperatorKeeps
<1>2. CASE \E t \in Party : Writes(t)
  BY <1>2, WritesKeeps
<1>3. CASE WorkerNext
  BY <1>3, HearMessageKeeps, DrainGivesUpKeeps, DrainQueuesKeeps, PublishKeeps, PublishFailsKeeps,
     HearAckKeeps, MovesKeep DEF WorkerNext, Drains
<1>4. CASE \E m \in Sent : OnPublish(m)
  BY <1>4, OnPublishKeeps
<1>5. CASE \E m \in Sent : Expire(m)
  BY <1>5, StatusStaysKeeps DEF Expire, chatHistory, ChatInv, ChatTypeOK
<1>6. CASE ChatCrash
  BY <1>6, ChatCrashKeeps
<1>7. CASE UNCHANGED chatVars
  BY <1>7, StatusStaysKeeps DEF chatVars, ChatInv, ChatTypeOK
<1> QED BY <1>1, <1>2, <1>3, <1>4, <1>5, <1>6, <1>7 DEF ChatNext

\* Every status of a message to a node has a rank.
LEMMA RankLemma ==
    ASSUME ChatInv, NEW m \in Sent, chat[m] # "ABSENT"
    PROVE  chat[m] \in DOMAIN Order /\ Order[chat[m]] <= Order[chat[m]]
<1>1. chat[m] \in ChatStates /\ chat[m] # "SEEN"
  BY DEF ChatInv, ChatTypeOK, EntriesAreSound, ChatId
<1> QED BY <1>1, StatesLemma, OrderLemma

\* One step of a message's status, where no two writers overlap.
Advances(m) ==
    chat[m] # "ABSENT" =>
         \/ Order[chat[m]] <= Order[chat'[m]]
         \/ chat[m] = "UNKNOWN" /\ chat'[m] \in {"DELIVERED", "READ"}

LEMMA ChatStepAdvances ==
    ASSUME ChatInv, [ChatNext]_chatVars, NEW m \in Sent \ overlapped'
    PROVE  Advances(m)
<1> SUFFICES ASSUME chat[m] # "ABSENT"
             PROVE  \/ Order[chat[m]] <= Order[chat'[m]]
                    \/ chat[m] = "UNKNOWN" /\ chat'[m] \in {"DELIVERED", "READ"}
  BY DEF Advances
<1>1. m \in ChatId /\ chat \in [ChatId -> ChatStates \cup {"ABSENT"}]
  BY DEF ChatId, ChatInv, ChatTypeOK
<1>2. CASE chat'[m] = chat[m]
  BY <1>2, RankLemma
<1>3. CASE \E t \in Party : Writes(t)
  <2>1. PICK t \in Party : Writes(t)
    BY <1>3
  <2>2. /\ writing[t] \in Write /\ UNCHANGED overlapped
        /\ chat'[m] = IF m = writing[t].message THEN writing[t].to ELSE chat[m]
    BY <1>1, <2>1, WritesEffect
  <2>3. CASE m = writing[t].message
    <3>1. MayFollow(writing[t].to, chat[m])
      BY <2>2, <2>3 DEF ChatInv, WritingIsSound
    <3>2. writing[t].to \in DOMAIN Order /\ chat[m] \in DOMAIN Order
      BY <2>2, <2>3, RankLemma, StatesLemma DEF ChatInv, WritingIsSound, Write
    <3> QED BY <2>2, <2>3, <3>1, <3>2, OrderLemma DEF MayFollow
  <2>4. CASE m # writing[t].message
    BY <1>2, <2>2, <2>4
  <2> QED BY <2>3, <2>4
<1>4. CASE \E t \in Operator : ChatCounts(t)
  <2>1. PICK t \in Operator : ChatCounts(t)
    BY <1>4
  <2>2. writing[t].to = "STORED_ROW"
    BY <2>1 DEF ChatCounts
  <2>3. chat[writing[t].message] = "QUEUED"
    BY <2>2, WritingCases DEF ChatInv, QueueingIsSound, Party
  <2>4. chat' = [chat EXCEPT ![writing[t].message] = "FAILED"] \/ UNCHANGED chat
    BY <2>1 DEF ChatCounts
  <2>5. CASE m = writing[t].message /\ ~UNCHANGED chat
    <3>1. chat'[m] = "FAILED" /\ chat[m] = "QUEUED"
      BY <1>1, <2>3, <2>4, <2>5
    <3> QED BY <3>1, OrderLemma
  <2>6. CASE m # writing[t].message \/ UNCHANGED chat
    BY <1>1, <1>2, <2>4, <2>6
  <2> QED BY <2>5, <2>6
<1>5. CASE \E t \in Operator, k \in Sent : ChatSend(t, k)
  <2>1. PICK t \in Operator, k \in Sent : ChatSend(t, k)
    BY <1>5
  <2>2. k # m /\ chat' = [chat EXCEPT ![k] = "QUEUED"]
    BY <2>1 DEF ChatSend
  <2> QED BY <1>1, <1>2, <2>2
<1>6. CASE \E k \in Received : HearMessage(k)
  <2>1. PICK k \in Received : HearMessage(k)
    BY <1>6
  <2>2. k # m /\ chat' = [chat EXCEPT ![k] = "DELIVERED"]
    BY <2>1, ChatAssumption DEF HearMessage
  <2> QED BY <1>1, <1>2, <2>2
<1>7. CASE UNCHANGED chat
  BY <1>2, <1>7
<1>8. CASE \E t \in Operator : OperatorNext(t)
  <2>1. PICK t \in Operator : OperatorNext(t)
    BY <1>8
  <2>2. CASE ChatQueues(t)
    BY <1>7, <2>2 DEF ChatQueues
  <2>3. CASE DeliveredRequest(t) \/ SeenRequest(t)
    BY <1>7, <2>3 DEF DeliveredRequest, SeenRequest, MarkDeliveredReads, MarkSeenReads
  <2> QED BY <1>4, <1>5, <2>1, <2>2, <2>3 DEF OperatorNext, ChatSendRequest
<1>9. CASE WorkerNext
  <2>1. CASE \E k \in Sent : Drains(k) \/ Publish(k) \/ PublishFails(k)
    BY <1>7, <2>1 DEF Drains, DrainGivesUp, DrainQueues, Publish, PublishFails
  <2>2. CASE \E k \in Sent, state \in Reports : HearAck(k, state)
    BY <1>7, <2>2 DEF HearAck
  <2>3. CASE WorkerStarts \/ OnConnect \/ OnDisconnect \/ WorkerStops
    BY <1>7, <2>3 DEF WorkerStarts, OnConnect, OnDisconnect, WorkerStops, Moves
  <2> QED BY <1>6, <1>9, <2>1, <2>2, <2>3 DEF WorkerNext
<1>10. CASE (\E k \in Sent : OnPublish(k) \/ Expire(k)) \/ ChatCrash \/ UNCHANGED chatVars
  BY <1>7, <1>10 DEF OnPublish, Expire, ChatCrash, chatVars
<1> QED BY <1>3, <1>8, <1>9, <1>10 DEF ChatNext

\* The inductive invariant: rows, the outbox and what each party has decided to
\* write agree, for any number of messages, operators and crashes.
THEOREM ChatInvariance == ChatSpec => []ChatInv
<1>1. ChatInit => ChatInv
  BY ChatInitKeeps
<1>2. ChatInv /\ [ChatNext]_chatVars => ChatInv'
  BY ChatStepKeeps
<1> QED BY <1>1, <1>2, PTL DEF ChatSpec

\* Where no two writers overlap, a status only advances, but for a receipt that
\* replaces UNKNOWN (chat_state).
THEOREM StatusesAdvance == ChatSpec => StatusAdvances
<1>1. ChatInv /\ [ChatNext]_chatVars =>
        [\A m \in Sent \ overlapped' : chat[m] # "ABSENT" =>
           \/ Order[chat[m]] <= Order[chat'[m]]
           \/ chat[m] = "UNKNOWN" /\ chat'[m] \in {"DELIVERED", "READ"}]_chatVars
  BY ChatStepAdvances DEF Advances
<1> QED BY <1>1, ChatInvariance, PTL DEF ChatSpec, StatusAdvances

\* A message is shown as delivered or read only after its recipient reported so
\* (mark_delivered, handle).
THEOREM DeliveredWasAcknowledged == ChatSpec => []DeliveredIsAcknowledged
<1>1. ChatInv => DeliveredIsAcknowledged
  BY DEF ChatInv
<1> QED BY <1>1, ChatInvariance, PTL

\* A message is published at most once per counted attempt (drain_chat, run).
THEOREM PublicationsAreBounded == ChatSpec => []AttemptsBoundPublications
<1>1. ChatInv => AttemptsBoundPublications
  BY DEF ChatInv
<1> QED BY <1>1, ChatInvariance, PTL

---------------------------------------------------------------------------
(* NodeRecords: a row and its status.                                      *)

LEMMA NewestIsSeen ==
    ASSUME NEW received \in Seen, NEW last \in Seen \cup {"NONE"}
    PROVE  Newest(received, last) \subseteq Seen
BY DEF Newest, Later, Seen

LEMMA RecordInitKeeps == RecordInit => RecordInv
BY DEF RecordInit, RecordInv, RecordTypeOK, StatusFollowsSwitch, OnlineWasSeen, ReportsAreSound,
       Registered, NoNodeRow, NotDoing

\* A row that an operator writes is consistent, and whoever was about to write it
\* is on record as overlapping.
LEMMA WriteRowKeeps ==
    ASSUME RecordInv, NEW n \in RecordNode, NEW row \in NodeRow \cup {NoNodeRow},
           row # NoNodeRow => (row.status = "disabled") = ~row.enabled,
           row.status = "online" => row.seen # "NONE",
           WriteRow(n, row)
    PROVE  RecordInv'
<1>1. RecordTypeOK'
  BY DEF RecordInv, RecordTypeOK, WriteRow, Crossing
<1>2. StatusFollowsSwitch' /\ OnlineWasSeen'
  BY DEF RecordInv, RecordTypeOK, WriteRow, Crossing, StatusFollowsSwitch, OnlineWasSeen, Registered
<1>3. ReportsAreSound'
  <2> SUFFICES ASSUME NEW t \in RecordThread, NEW m \in RecordNode \ crossed'
               PROVE  /\ doing'[t].at = "REPORT" /\ doing'[t].node = m
                           => (Registered(m)' => rows'[m].enabled)
                      /\ doing'[t].at = "SWEEP" /\ m \in doing'[t].silent
                           => (Registered(m)' => rows'[m].enabled)
    BY DEF ReportsAreSound
  <2>1. CASE m = n
    <3>1. Writers({}, m) = {} /\ doing' = doing
      BY <2>1 DEF WriteRow, Crossing
    <3> QED BY <3>1 DEF Writers
  <2>2. CASE m # n
    BY <2>2 DEF RecordInv, RecordTypeOK, ReportsAreSound, WriteRow, Crossing, Registered
  <2> QED BY <2>1, <2>2
<1> QED BY <1>1, <1>2, <1>3 DEF RecordInv

LEMMA OperatorsKeep ==
    ASSUME RecordInv,
           AddNodeRequest \/ UpdateNodeRequest \/ EnableNodeRequest \/ DeleteNodeRequest
    PROVE  RecordInv'
<1> USE DEF RecordInv, RecordTypeOK, StatusFollowsSwitch, OnlineWasSeen, Registered, NodeRow, NoNodeRow
<1>1. CASE AddNodeRequest
  <2> PICK n \in RecordNode, enabled \in BOOLEAN : AddNode(n, enabled)
    BY <1>1 DEF AddNodeRequest
  <2> DEFINE row == [enabled |-> enabled, status |-> IF enabled THEN "offline" ELSE "disabled",
                     seen |-> "NONE"]
  <2>1. WriteRow(n, row)
    BY DEF AddNode
  <2>2. row \in NodeRow /\ ((row.status = "disabled") = ~row.enabled) /\ row.status # "online"
    OBVIOUS
  <2> QED BY <2>1, <2>2, WriteRowKeeps
<1>2. CASE UpdateNodeRequest
  <2> PICK n \in RecordNode, enabled \in BOOLEAN : UpdateNode(n, enabled)
    BY <1>2 DEF UpdateNodeRequest
  <2> DEFINE row == [rows[n] EXCEPT !.enabled = enabled,
         !.status = IF ~enabled THEN "disabled" ELSE IF @ = "disabled" THEN "offline" ELSE @]
  <2>1. WriteRow(n, row) /\ rows[n] \in NodeRow
    BY DEF UpdateNode
  <2>2. row \in NodeRow /\ ((row.status = "disabled") = ~row.enabled)
    BY <2>1
  <2>3. row.status = "online" => row.seen # "NONE"
    BY <2>1
  <2> HIDE DEF row
  <2> QED BY <2>1, <2>2, <2>3, WriteRowKeeps
<1>3. CASE EnableNodeRequest
  <2> PICK n \in RecordNode, enabled \in BOOLEAN : SetNodeEnabled(n, enabled)
    BY <1>3 DEF EnableNodeRequest
  <2> DEFINE row == [rows[n] EXCEPT !.enabled = enabled,
                       !.status = IF enabled THEN "offline" ELSE "disabled"]
  <2>1. WriteRow(n, row) /\ rows[n] \in NodeRow
    BY DEF SetNodeEnabled
  <2>2. row \in NodeRow /\ ((row.status = "disabled") = ~row.enabled) /\ row.status # "online"
    BY <2>1
  <2> HIDE DEF row
  <2> QED BY <2>1, <2>2, WriteRowKeeps
<1>4. CASE DeleteNodeRequest
  <2> PICK n \in RecordNode : WriteRow(n, NoNodeRow)
    BY <1>4 DEF DeleteNodeRequest, DeleteNode
  <2> QED BY WriteRowKeeps
<1> QED BY <1>1, <1>2, <1>3, <1>4

\* A thread that begins to report has read that its node is enabled.
LEMMA ReportBeginsKeeps ==
    ASSUME RecordInv, NEW t \in RecordThread, NEW n \in RecordNode, NEW seen \in Seen,
           ReportBegins(t, n, seen)
    PROVE  RecordInv'
<1>1. RecordTypeOK'
  BY DEF RecordInv, RecordTypeOK, ReportBegins, Reporting
<1>2. ReportsAreSound'
  BY DEF RecordInv, RecordTypeOK, ReportsAreSound, ReportBegins, Registered
<1> QED BY <1>1, <1>2 DEF RecordInv, ReportBegins, StatusFollowsSwitch, OnlineWasSeen, Registered

LEMMA ReadingKeeps ==
    ASSUME RecordInv, NEW t \in RecordThread, NEW n \in RecordNode,
           SocketReads(t, n) \/ \E received \in Stamps \cup {"FRESH"} : TelemetryReads(t, n, received)
    PROVE  RecordInv'
<1>1. CASE SocketReads(t, n)
  BY <1>1, ReportBeginsKeeps DEF SocketReads, Seen
<1>2. CASE \E received \in Stamps \cup {"FRESH"} : TelemetryReads(t, n, received)
  <2> PICK received \in Stamps \cup {"FRESH"} : TelemetryReads(t, n, received)
    BY <1>2
  <2>1. rows[n].seen \in Seen \cup {"NONE"} /\ received \in Seen
    BY RecordAssumption DEF TelemetryReads, RecordInv, RecordTypeOK, NodeRow, Registered, Seen
  <2>2. PICK seen \in Seen : ReportBegins(t, n, seen)
    BY <2>1, NewestIsSeen DEF TelemetryReads
  <2> QED BY <2>2, ReportBeginsKeeps
<1> QED BY <1>1, <1>2

LEMMA SweepReadsKeeps ==
    ASSUME RecordInv, NEW t \in RecordThread, SweepReads(t)
    PROVE  RecordInv'
<1>1. /\ SilentNodes \subseteq RecordNode
      /\ \A n \in SilentNodes : rows[n].enabled
  BY DEF SilentNodes, Watched
<1>2. RecordTypeOK'
  BY <1>1 DEF RecordInv, RecordTypeOK, SweepReads, Sweeping
<1>3. ReportsAreSound'
  BY <1>1 DEF RecordInv, RecordTypeOK, ReportsAreSound, SweepReads, Registered
<1> QED BY <1>2, <1>3 DEF RecordInv, SweepReads, StatusFollowsSwitch, OnlineWasSeen, Registered

\* What a thread writes follows from what it read, unless its node is on record
\* as written by two.
LEMMA ReportWritesKeeps ==
    ASSUME RecordInv, NEW t \in RecordThread, ReportWrites(t)
    PROVE  RecordInv'
<1> DEFINE n == doing[t].node
<1>1. n \in RecordNode /\ doing[t].seen \in Seen
  BY DEF RecordInv, RecordTypeOK, ReportWrites, Reporting, Sweeping, NotDoing
<1>2. RecordTypeOK'
  BY <1>1 DEF RecordInv, RecordTypeOK, ReportWrites, NodeRow, Registered, Crossing
<1>3. \A m \in RecordNode : rows'[m].status = rows[m].status \/ m = n
  BY <1>1 DEF RecordInv, RecordTypeOK, ReportWrites
<1>4. \A m \in RecordNode : Registered(m)' => Registered(m) /\ rows'[m].enabled = rows[m].enabled
  BY <1>1 DEF RecordInv, RecordTypeOK, ReportWrites, NodeRow, NoNodeRow, Registered
<1>5. n \notin crossed /\ Registered(n) => rows[n].enabled
  BY <1>1 DEF RecordInv, ReportsAreSound, ReportWrites
<1>6. crossed \subseteq crossed'
  BY DEF ReportWrites, Crossing
<1>7. Registered(n) => rows'[n].status = "online" /\ rows'[n].seen # "NONE"
  BY <1>1 DEF RecordInv, RecordTypeOK, ReportWrites, NodeRow, NoNodeRow, Registered, Seen
<1>8. StatusFollowsSwitch'
  BY <1>3, <1>4, <1>5, <1>6, <1>7 DEF RecordInv, StatusFollowsSwitch
<1>9. OnlineWasSeen'
  BY <1>1, <1>7 DEF RecordInv, RecordTypeOK, OnlineWasSeen, ReportWrites, Registered, NoNodeRow
<1>10. ReportsAreSound'
  BY <1>4, <1>6 DEF RecordInv, RecordTypeOK, ReportsAreSound, ReportWrites, NotDoing
<1> QED BY <1>2, <1>8, <1>9, <1>10 DEF RecordInv

LEMMA SweepWritesKeeps ==
    ASSUME RecordInv, NEW t \in RecordThread, SweepWrites(t)
    PROVE  RecordInv'
<1> DEFINE silent == doing[t].silent
<1>1. silent \subseteq RecordNode
  BY DEF RecordInv, RecordTypeOK, SweepWrites, Reporting, Sweeping, NotDoing
<1>2. RecordTypeOK'
  BY <1>1 DEF RecordInv, RecordTypeOK, SweepWrites, NodeRow, Registered, Crossing
<1>3. \A m \in RecordNode : \/ rows'[m] = rows[m]
                            \/ m \in silent /\ rows'[m].status = "offline"
  <2> TAKE m \in RecordNode
  <2>1. CASE m \in silent /\ Registered(m)
    <3>1. rows'[m] = [rows[m] EXCEPT !.status = "offline"] /\ rows[m] \in NodeRow
      BY <2>1 DEF SweepWrites, RecordInv, RecordTypeOK, Registered
    <3> QED BY <2>1, <3>1 DEF NodeRow
  <2>2. CASE ~(m \in silent /\ Registered(m))
    BY <2>2 DEF SweepWrites
  <2> QED BY <2>1, <2>2
<1>4. \A m \in RecordNode : Registered(m)' => Registered(m) /\ rows'[m].enabled = rows[m].enabled
  BY DEF RecordInv, RecordTypeOK, SweepWrites, NodeRow, NoNodeRow, Registered
<1>5. \A m \in silent \ crossed : Registered(m) => rows[m].enabled
  BY <1>1 DEF RecordInv, ReportsAreSound, SweepWrites
<1>6. crossed \subseteq crossed'
  BY DEF SweepWrites, Crossing
<1>7. StatusFollowsSwitch' /\ OnlineWasSeen'
  BY <1>3, <1>4, <1>5, <1>6 DEF RecordInv, StatusFollowsSwitch, OnlineWasSeen
<1>8. ReportsAreSound'
  BY <1>4, <1>6 DEF RecordInv, RecordTypeOK, ReportsAreSound, SweepWrites, NotDoing
<1> QED BY <1>2, <1>7, <1>8 DEF RecordInv

LEMMA AgesKeeps ==
    ASSUME RecordInv, NEW n \in RecordNode, Ages(n)
    PROVE  RecordInv'
<1>1. RecordTypeOK'
  BY DEF RecordInv, RecordTypeOK, Ages, NodeRow, Registered, Seen
<1>2. \A m \in RecordNode : rows'[m].status = rows[m].status
  BY DEF RecordInv, RecordTypeOK, Ages, NodeRow, NoNodeRow, Registered
<1>3. \A m \in RecordNode : Registered(m)' => Registered(m) /\ rows'[m].enabled = rows[m].enabled
  BY DEF RecordInv, RecordTypeOK, Ages, NodeRow, NoNodeRow, Registered
<1>4. \A m \in RecordNode : rows[m].seen # "NONE" => rows'[m].seen # "NONE"
  BY DEF RecordInv, RecordTypeOK, Ages, NodeRow, NoNodeRow, Registered
<1>5. doing' = doing /\ crossed' = crossed
  BY DEF Ages
<1>6. StatusFollowsSwitch'
  BY <1>2, <1>3, <1>5 DEF RecordInv, StatusFollowsSwitch
<1>7. OnlineWasSeen'
  BY <1>2, <1>4 DEF RecordInv, OnlineWasSeen
<1>8. ReportsAreSound'
  BY <1>3, <1>5 DEF RecordInv, ReportsAreSound
<1> QED BY <1>1, <1>6, <1>7, <1>8 DEF RecordInv

LEMMA RecordStepKeeps == RecordInv /\ [RecordNext]_recordVars => RecordInv'
<1> SUFFICES ASSUME RecordInv, [RecordNext]_recordVars PROVE RecordInv'
  OBVIOUS
<1>1. CASE AddNodeRequest \/ UpdateNodeRequest \/ EnableNodeRequest \/ DeleteNodeRequest
  BY <1>1, OperatorsKeep
<1>2. CASE \E t \in RecordThread, n \in RecordNode :
             SocketReads(t, n) \/ \E received \in Stamps \cup {"FRESH"} : TelemetryReads(t, n, received)
  BY <1>2, ReadingKeeps
<1>3. CASE NodesRequest
  BY <1>3, SweepReadsKeeps DEF NodesRequest
<1>4. CASE \E t \in RecordThread : ReportWrites(t) \/ SweepWrites(t)
  BY <1>4, ReportWritesKeeps, SweepWritesKeeps
<1>5. CASE \E n \in RecordNode : Ages(n)
  BY <1>5, AgesKeeps
<1>6. CASE UNCHANGED recordVars
  BY <1>6 DEF recordVars, RecordInv, RecordTypeOK, StatusFollowsSwitch, OnlineWasSeen,
              ReportsAreSound, Registered
<1> QED BY <1>1, <1>2, <1>3, <1>4, <1>5, <1>6 DEF RecordNext

\* The inductive invariant of the node rows, for every set of nodes and threads.
THEOREM RecordInvariance == RecordSpec => []RecordInv
<1>1. RecordInit => RecordInv
  BY RecordInitKeeps
<1>2. RecordInv /\ [RecordNext]_recordVars => RecordInv'
  BY RecordStepKeeps
<1> QED BY <1>1, <1>2, PTL DEF RecordSpec

\* As far as no two requests of a node overlapped, it is shown as disabled
\* exactly when it is (update_node, set_node_enabled, update_node_status); and a
\* node is never shown online without a time it was last seen at.
THEOREM NodeStatusFollows == RecordSpec => [](StatusFollowsSwitch /\ OnlineWasSeen)
<1>1. RecordInv => StatusFollowsSwitch /\ OnlineWasSeen
  BY DEF RecordInv
<1> QED BY <1>1, RecordInvariance, PTL

---------------------------------------------------------------------------
(* The runs of MCRecords: the chat or the nodes.                           *)

\* What the run of the records checks on a small instance (chat_manager,
\* node_manager) holds for every value of the constants.
THEOREM RecordsInvariance == RecordsSpec => []RecordsInv
<1>1. RecordsInit => RecordsInv
  BY ChatInitKeeps, RecordInitKeeps DEF RecordsInit, RecordsInv
<1>2. RecordsInv /\ [RecordsNext]_<<record, chatVars, recordVars>> => RecordsInv'
  <2> SUFFICES ASSUME RecordsInv, [RecordsNext]_<<record, chatVars, recordVars>> PROVE RecordsInv'
    OBVIOUS
  <2>1. [ChatNext]_chatVars /\ [RecordNext]_recordVars
    BY DEF RecordsNext
  <2> QED BY <2>1, ChatStepKeeps, RecordStepKeeps DEF RecordsInv
<1> QED BY <1>1, <1>2, PTL DEF RecordsSpec

=============================================================================
