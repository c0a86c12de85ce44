---------------------------- MODULE ChatMessages ----------------------------
(***************************************************************************)
(* Private chat between the Gateway and its nodes (chat_manager, the chat   *)
(* parts of mqtt_service).  A message from the Gateway is a row, an entry   *)
(* of the outbox table and an envelope in the service's memory.  Its status *)
(* is written by three parties, each of which reads the row first:          *)
(* the service's worker, the broker client's callback and the threads of    *)
(* the HTTP routes.                                                        *)
(***************************************************************************)
EXTENDS Integers, FiniteSets

CONSTANTS
    Sent, Received,    \* ids of messages from and to the Gateway
    Operator,          \* threads that serve the chat routes
    OutboxLimit,       \* 24 in the code
    MaxAttempts,       \* 3 in the code
    MaxRaces,          \* bound: messages with overlapping writers
    MaxChatCrashes     \* bound

ASSUME ChatAssumption ==
    /\ Sent \cap Received = {} /\ {"WORKER", "CALLBACK"} \cap Operator = {}
    /\ OutboxLimit \in Nat \ {0} /\ MaxAttempts \in Nat \ {0} /\ {MaxRaces, MaxChatCrashes} \subseteq Nat

VARIABLES
    chat,        \* status in table chat_messages
    outbox,      \* table mqtt_chat_outbox
    queue,       \* Service.outgoing, in memory: envelopes per message
    unacked,     \* Service.pending, in memory: publications without PUBACK
    worker,      \* whether the worker goes through its loop, and is connected
    writing,     \* what each party has decided to write
    expired,     \* messages whose expires_at has passed
    published,   \* history: publications of each message
    answered,    \* history: messages of which the recipient reported receipt
    overlapped,  \* history: messages with overlapping writers
    stranded,    \* history: messages whose sending ended before the outbox entry
    chatCrashes

chatVars == <<chat, outbox, queue, unacked, worker, writing, expired, published, answered,
              overlapped, stranded, chatCrashes>>
chatHistory == <<published, answered, overlapped, stranded, chatCrashes>>

ChatId == Sent \cup Received
Party == {"WORKER", "CALLBACK"} \cup Operator

-----------------------------------------------------------------------------

\* The order in chat_state; SEEN is not in it.
Order == [QUEUED |-> 0, PUBLISHED |-> 1, BROKER_ACCEPTED |-> 2, STORED |-> 3, DELIVERED |-> 4,
          READ |-> 5, FAILED |-> 6, EXPIRED |-> 6, UNKNOWN |-> 6]
ChatStates == DOMAIN Order \cup {"SEEN"}
Waiting == {"QUEUED", "PUBLISHED", "BROKER_ACCEPTED"}

NoEntry == [state |-> "ABSENT", attempts |-> 0]
Free == [to |-> "NOTHING"]
Write == [to : ChatStates, message : ChatId]
Queueing == [to : {"STORED_ROW", "OUTBOX"}, message : Sent]

ChatTypeOK ==
    /\ chat \in [ChatId -> ChatStates \cup {"ABSENT"}]
    /\ outbox \in [Sent -> [state : ChatStates \cup {"ABSENT"}, attempts : Nat]]
    /\ queue \in [Sent -> Nat] /\ unacked \in [Sent -> Nat] /\ published \in [Sent -> Nat]
    /\ worker \in {"OFF", "AWAY", "CONNECTED"}
    /\ writing \in [Party -> {Free} \cup Write \cup Queueing]
    /\ expired \subseteq Sent /\ answered \subseteq Sent /\ stranded \subseteq Sent
    /\ overlapped \subseteq ChatId /\ chatCrashes \in Nat

ChatInit ==
    /\ chat = [m \in ChatId |-> "ABSENT"]
    /\ outbox = [m \in Sent |-> NoEntry]
    /\ queue = [m \in Sent |-> 0] /\ unacked = [m \in Sent |-> 0] /\ published = [m \in Sent |-> 0]
    /\ worker = "OFF" /\ writing = [t \in Party |-> Free]
    /\ expired = {} /\ answered = {} /\ overlapped = {} /\ stranded = {} /\ chatCrashes = 0

-----------------------------------------------------------------------------
(* chat_state, as each party runs it.                                      *)

Others(t, m) == \E u \in Party \ {t} : writing[u] # Free /\ writing[u].message = m

Overlap(t, m) ==
    /\ overlapped' = IF Others(t, m) THEN overlapped \cup {m} ELSE overlapped
    /\ Cardinality(overlapped') <= MaxRaces

\* Mistake: a state of the same rank is the only one that is refused.
MayFollowAny(to, from) == Order[to] # Order[from]

\* A state does not replace a later one; a receipt replaces UNKNOWN.
MayFollow(to, from) ==
    Order[to] >= Order[from] \/ (from = "UNKNOWN" /\ to \in {"DELIVERED", "READ"})

\* The row is read and the state decided on, or dropped.
Decides(t, m, to) ==
    /\ writing' = IF chat[m] \in DOMAIN Order /\ MayFollow(to, chat[m])
                  THEN [writing EXCEPT ![t] = [to |-> to, message |-> m]]
                  ELSE [writing EXCEPT ![t] = Free]
    /\ Overlap(t, m)

\* One transaction writes the row and the outbox entry, if there is one.
Writes(t) ==
    /\ writing[t].to \in ChatStates
    /\ LET m == writing[t].message  to == writing[t].to IN
         /\ chat' = [chat EXCEPT ![m] = to]
         /\ outbox' = IF t \in Operator \/ outbox[m] = NoEntry THEN outbox
                      ELSE [outbox EXCEPT ![m].state = to]
    /\ writing' = [writing EXCEPT ![t] = Free]
    /\ UNCHANGED <<queue, unacked, worker, expired, chatHistory>>

-----------------------------------------------------------------------------
(* send_message.                                                           *)

\* Valid users, a conversation, and the row, in a transaction of its own.
ChatSend(t, m) ==
    /\ writing[t] = Free
    /\ chat[m] = "ABSENT"
    /\ chat' = [chat EXCEPT ![m] = "QUEUED"]
    /\ writing' = [writing EXCEPT ![t] = [to |-> "STORED_ROW", message |-> m]]
    /\ UNCHANGED <<outbox, queue, unacked, worker, expired, chatHistory>>

Scheduled == {m \in Sent : outbox[m].state \in Waiting}

\* queue_chat: the node is enrolled and the service has a profile (otherwise the
\* message has FAILED), and the outbox has room (otherwise likewise).
ChatCounts(t) ==
    /\ writing[t].to = "STORED_ROW"
    /\ LET m == writing[t].message IN
         \/ /\ chat' = [chat EXCEPT ![m] = "FAILED"]
            /\ writing' = [writing EXCEPT ![t] = Free]
         \/ /\ Cardinality(Scheduled) < OutboxLimit
            /\ writing' = [writing EXCEPT ![t].to = "OUTBOX"]
            /\ UNCHANGED chat
    /\ UNCHANGED <<outbox, queue, unacked, worker, expired, chatHistory>>

ChatQueues(t) ==
    /\ writing[t].to = "OUTBOX"
    /\ outbox' = [outbox EXCEPT ![writing[t].message] = [state |-> "QUEUED", attempts |-> 0]]
    /\ writing' = [writing EXCEPT ![t] = Free]
    /\ UNCHANGED <<chat, queue, unacked, worker, expired, chatHistory>>

-----------------------------------------------------------------------------
(* The routes.                                                             *)

\* Mistake: the report of the page is taken for the recipient's.
MarkDeliveredReadsAny(t, m) ==
    /\ writing[t] = Free
    /\ chat[m] \notin {"ABSENT", "SEEN"}
    /\ writing' = [writing EXCEPT ![t] = [to |-> "DELIVERED", message |-> m]]
    /\ Overlap(t, m)
    /\ UNCHANGED <<chat, outbox, queue, unacked, worker, expired, published, answered, stranded, chatCrashes>>

\* mark_delivered: the recipient's acknowledgement must be there already.
MarkDeliveredReads(t, m) ==
    /\ writing[t] = Free
    /\ chat[m] = "DELIVERED"
    /\ writing' = [writing EXCEPT ![t] = [to |-> "DELIVERED", message |-> m]]
    /\ Overlap(t, m)
    /\ UNCHANGED <<chat, outbox, queue, unacked, worker, expired, published, answered, stranded, chatCrashes>>

\* mark_seen: only what the Gateway received.
MarkSeenReads(t, m) ==
    /\ writing[t] = Free
    /\ m \in Received /\ chat[m] # "ABSENT"
    /\ writing' = [writing EXCEPT ![t] = [to |-> "SEEN", message |-> m]]
    /\ Overlap(t, m)
    /\ UNCHANGED <<chat, outbox, queue, unacked, worker, expired, published, answered, stranded, chatCrashes>>

-----------------------------------------------------------------------------
(* The worker of the service: one thread, which turns to what has arrived,  *)
(* to the outbox and to what is to be published.  Threads that only write   *)
(* the rows it has read leave its reading valid, so a reading and what the  *)
(* worker does with it, short of chat_state, are one step.                  *)

\* Nothing above waits for a worker, and there need not be one: without a profile or
\* the confirmation of the ACL none is started, it gets to its loop with the first
\* connection, and in the modes for telemetry and commands the loop leaves the chat out.
Moves(to) ==
    /\ worker' = to
    /\ UNCHANGED <<chat, outbox, queue, writing, expired, chatHistory>>

WorkerStarts == worker = "OFF" /\ writing["WORKER"] = Free /\ Moves("AWAY") /\ UNCHANGED unacked
OnConnect == worker = "AWAY" /\ Moves("CONNECTED") /\ UNCHANGED unacked
OnDisconnect == worker = "CONNECTED" /\ Moves("AWAY") /\ UNCHANGED unacked

\* What the client waited for goes with it; the worker still ends what it is writing.
WorkerStops == worker # "OFF" /\ Moves("OFF") /\ unacked' = [m \in Sent |-> 0]

WorkerIdle == worker # "OFF" /\ writing["WORKER"] = Free
WorkerSends == worker = "CONNECTED" /\ writing["WORKER"] = Free

\* handle, chat/message: a message from a node; a repetition is ignored.
HearMessage(m) ==
    /\ WorkerIdle
    /\ m \in Received /\ chat[m] = "ABSENT"
    /\ chat' = [chat EXCEPT ![m] = "DELIVERED"]
    /\ UNCHANGED <<outbox, queue, unacked, worker, writing, expired, chatHistory>>

\* handle, chat/ack: the Master answers for itself, the recipient for receipt.
Reports == {"STORED", "BROKER_ACCEPTED", "DELIVERED", "READ", "FAILED", "EXPIRED"}

HearAck(m, state) ==
    /\ WorkerIdle
    /\ published[m] > 0 /\ chat[m] # "ABSENT"
    /\ Decides("WORKER", m, state)
    /\ answered' = IF state \in {"DELIVERED", "READ"} THEN answered \cup {m} ELSE answered
    /\ UNCHANGED <<chat, outbox, queue, unacked, worker, expired, published, stranded, chatCrashes>>

\* Mistake: an expired message stays in the outbox.
DrainGivesUpLate(m) ==
    /\ WorkerSends
    /\ outbox[m].state \in Waiting
    /\ m \notin expired /\ outbox[m].attempts >= MaxAttempts /\ Decides("WORKER", m, "UNKNOWN")
    /\ UNCHANGED <<chat, outbox, queue, unacked, worker, expired, published, answered, stranded, chatCrashes>>

\* drain_chat, for one entry whose next attempt is due: one that has expired needs no
\* connection.
DrainGivesUp(m) ==
    /\ WorkerIdle
    /\ outbox[m].state \in Waiting
    /\ \/ m \in expired /\ Decides("WORKER", m, "EXPIRED")
       \/ /\ WorkerSends
          /\ m \notin expired /\ outbox[m].attempts >= MaxAttempts /\ Decides("WORKER", m, "UNKNOWN")
    /\ UNCHANGED <<chat, outbox, queue, unacked, worker, expired, published, answered, stranded, chatCrashes>>

\* The envelope is in the queue before the attempt is counted; both happen, or a
\* crash loses the queue.
DrainQueues(m) ==
    /\ WorkerSends
    /\ outbox[m].state \in Waiting /\ m \notin expired /\ outbox[m].attempts < MaxAttempts
    /\ queue' = [queue EXCEPT ![m] = @ + 1]
    /\ outbox' = [outbox EXCEPT ![m].attempts = @ + 1]
    /\ UNCHANGED <<chat, unacked, worker, writing, expired, chatHistory>>

\* The service's lock is held until PUBLISHED is written: the callback waits.
Publish(m) ==
    /\ WorkerSends /\ writing["CALLBACK"] = Free
    /\ queue[m] > 0 /\ m \notin expired
    /\ queue' = [queue EXCEPT ![m] = @ - 1]
    /\ published' = [published EXCEPT ![m] = @ + 1]
    /\ unacked' = [unacked EXCEPT ![m] = @ + 1]
    /\ Decides("WORKER", m, "PUBLISHED")
    /\ UNCHANGED <<chat, outbox, worker, expired, answered, stranded, chatCrashes>>

\* The envelope is too old, which needs no lock, or the client refuses it.
PublishFails(m) ==
    /\ WorkerSends /\ (m \in expired \/ writing["CALLBACK"] = Free)
    /\ queue[m] > 0
    /\ queue' = [queue EXCEPT ![m] = @ - 1]
    /\ Decides("WORKER", m, IF m \in expired THEN "EXPIRED" ELSE "UNKNOWN")
    /\ UNCHANGED <<chat, outbox, unacked, worker, expired, published, answered, stranded, chatCrashes>>

-----------------------------------------------------------------------------
(* The client's callback, the time, and the end of the process.            *)

\* on_publish: the broker has taken a publication.
OnPublish(m) ==
    /\ worker = "CONNECTED" /\ writing["CALLBACK"] = Free
    /\ writing["WORKER"] # Free => writing["WORKER"].to # "PUBLISHED"
    /\ unacked[m] > 0
    /\ unacked' = [unacked EXCEPT ![m] = @ - 1]
    /\ Decides("CALLBACK", m, "BROKER_ACCEPTED")
    /\ UNCHANGED <<chat, outbox, queue, worker, expired, published, answered, stranded, chatCrashes>>

Expire(m) ==
    /\ chat[m] # "ABSENT" /\ m \notin expired
    /\ expired' = expired \cup {m}
    /\ UNCHANGED <<chat, outbox, queue, unacked, worker, writing, chatHistory>>

ChatCrash ==
    /\ chatCrashes < MaxChatCrashes
    /\ chatCrashes' = chatCrashes + 1
    /\ worker' = "OFF"
    /\ queue' = [m \in Sent |-> 0] /\ unacked' = [m \in Sent |-> 0]
    /\ writing' = [t \in Party |-> Free]
    /\ stranded' = stranded \cup {writing[t].message : t \in {u \in Operator : writing[u] \in Queueing}}
    /\ UNCHANGED <<chat, outbox, expired, published, answered, overlapped>>

\* The routes.
ChatSendRequest(t) == ChatCounts(t) \/ ChatQueues(t) \/ \E m \in Sent : ChatSend(t, m)
DeliveredRequest(t) == \E m \in ChatId : MarkDeliveredReads(t, m)
SeenRequest(t) == \E m \in ChatId : MarkSeenReads(t, m)

OperatorNext(t) == ChatSendRequest(t) \/ DeliveredRequest(t) \/ SeenRequest(t)

Drains(m) == DrainGivesUp(m) \/ DrainQueues(m)

WorkerNext ==
    \/ WorkerStarts \/ OnConnect \/ OnDisconnect \/ WorkerStops
    \/ \E m \in Received : HearMessage(m)
    \/ \E m \in Sent : Drains(m) \/ Publish(m) \/ PublishFails(m)
    \/ \E m \in Sent, state \in Reports : HearAck(m, state)

ChatNext ==
    \/ \E t \in Operator : OperatorNext(t)
    \/ \E t \in Party : Writes(t)
    \/ WorkerNext
    \/ \E m \in Sent : OnPublish(m) \/ Expire(m)
    \/ ChatCrash

ChatSpec == ChatInit /\ [][ChatNext]_chatVars

\* A thread that has begun goes on, and time passes.  A worker that goes on comes to
\* each entry of the outbox, which it looks at every second, whatever else arrives (as
\* long as not every pass of its loop ends with a refused message); that there is a
\* worker is not assumed.
ChatFairness ==
    /\ \A t \in Party : WF_chatVars(Writes(t))
    /\ \A t \in Operator : WF_chatVars(ChatCounts(t)) /\ WF_chatVars(ChatQueues(t))
    /\ \A m \in Sent : WF_chatVars(Expire(m))
    /\ <>[](worker # "OFF") => \A m \in Sent : SF_chatVars(Drains(m))

-----------------------------------------------------------------------------
(* Properties.                                                             *)

\* "The database stores history; physical delivery requires a recipient
\* acknowledgement" (chat_manager.py): whatever the routes, the worker and the
\* callback write over each other, a message is shown as delivered or read only
\* after its recipient reported so.
DeliveredIsAcknowledged ==
    \A m \in Sent : chat[m] \in {"DELIVERED", "READ"} => m \in answered

\* Where no two writers overlap, a message's status only advances; a receipt may
\* still replace UNKNOWN (chat_state).
StatusAdvances ==
    [][\A m \in Sent \ overlapped' : chat[m] # "ABSENT" =>
         \/ Order[chat[m]] <= Order[chat'[m]]
         \/ chat[m] = "UNKNOWN" /\ chat'[m] \in {"DELIVERED", "READ"}]_chatVars

\* However often the outbox is gone through, answers come late and the process
\* ends: a message is published at most once per counted attempt (drain_chat, run).
AttemptsBoundPublications == \A m \in Sent : published[m] <= MaxAttempts

\* Without overlapping writers the outbox says what the message says, and a
\* message that waits is in the outbox, unless its sending ended half way
\* (send_message stores the row first).
WaitingIsScheduled ==
    \A m \in Sent : /\ outbox[m] # NoEntry /\ m \notin overlapped => outbox[m].state = chat[m]
                    /\ chat[m] \in Waiting /\ m \notin stranded =>
                         \/ outbox[m] # NoEntry
                         \/ \E t \in Operator : writing[t] \in Queueing /\ writing[t].message = m

\* Once the worker goes on, connected or not, no message waits for ever: not one that
\* was queued while there was no worker, and however often the callback takes a status
\* back, it is delivered, stored by the Master, has failed or expires, unless its sending
\* ended half way (drain_chat).
MessagesSettle ==
    <>[](worker # "OFF") =>
        \A m \in Sent : chat[m] \in Waiting ~> chat[m] \notin Waiting \/ m \in stranded

\* Two writers of one message are overlapping ones.
OverlapsAreKnown ==
    \A t, u \in Party : /\ t # u /\ writing[t] # Free /\ writing[u] # Free
                        /\ writing[t].message = writing[u].message
                        => writing[t].message \in overlapped

\* A thread that is about to make an outbox entry is the only one at its message.
QueueingIsSound ==
    \A t \in Party : writing[t] \in Queueing =>
        /\ t \in Operator
        /\ chat[writing[t].message] = "QUEUED" /\ outbox[writing[t].message] = NoEntry
        /\ \A u \in Party \ {t} :
             writing[u] \in Queueing => writing[u].message # writing[t].message

\* What is about to be written over a message's status may follow it.
WritingIsSound ==
    \A t \in Party : writing[t] \in Write =>
        /\ writing[t].message \in Sent \/ t \in Operator
        /\ writing[t].message \in Sent =>
             /\ outbox[writing[t].message] # NoEntry
             /\ writing[t].to # "SEEN"
             /\ writing[t].to \in {"DELIVERED", "READ"} => writing[t].message \in answered
             /\ writing[t].message \notin overlapped =>
                  /\ MayFollow(writing[t].to, chat[writing[t].message])
                  /\ t \in Operator => chat[writing[t].message] = writing[t].to

\* The outbox counts the envelopes, and has an entry of what was ever sent.
EntriesAreSound ==
    \A m \in Sent :
        /\ chat[m] # "SEEN"
        /\ chat[m] = "ABSENT" \/ outbox[m].state = "ABSENT" => outbox[m] = NoEntry
        /\ unacked[m] > 0 \/ m \in answered => outbox[m] # NoEntry
        /\ published[m] + queue[m] <= outbox[m].attempts
        /\ outbox[m].attempts <= MaxAttempts

\* The inductive invariant of the proofs.
ChatInv ==
    /\ ChatTypeOK
    /\ DeliveredIsAcknowledged /\ AttemptsBoundPublications /\ WaitingIsScheduled
    /\ OverlapsAreKnown /\ QueueingIsSound /\ WritingIsSound /\ EntriesAreSound

=============================================================================
