---------------------------- MODULE MeshDelivery ----------------------------
(***************************************************************************)
(* Packets between the server and the mesh (communication_manager,          *)
(* packet_manager): sending with a wait for the acknowledgement, receiving  *)
(* with protection against duplicates, forwarding, and the retry sweep.     *)
(* Threads take the manager's lock for one access at a time.                *)
(*                                                                         *)
(* No transport is registered in src/ and nothing there calls               *)
(* process_retries: what is sent lands in the outgoing queue, which the     *)
(* radio adapter reads, and the sweep is the adapter's to start.            *)
(***************************************************************************)
EXTENDS MeshTopology, Sequences, SequencesExt, FiniteSets

CONSTANTS
    Message,     \* ids of packets with data
    Reply,       \* ids of ACK and NACK packets that arrive
    Gateway,     \* the destination "GATEWAY"
    Arrivals,    \* packets that radio nodes deliver
    MaxTtl, QueueSize, WindowSize,
    MaxDrops     \* bound: evictions from the window and overlapping receptions

ASSUME DeliveryAssumption ==
    /\ Message \cap Reply = {} /\ Gateway \notin MeshNode \cup {NoNode}
    /\ {MaxTtl, QueueSize, WindowSize} \subseteq Nat \ {0} /\ MaxDrops \in Nat

-----------------------------------------------------------------------------
(* packet_manager.                                                         *)

Address == MeshNode \cup {Gateway}

\* `about`: ack_id, message_id.  `sealed`: the CRC is that of the content.
Packet ==
    [id : Message \cup Reply, kind : {"DATA", "ACK", "NACK"}, source : Address,
     destination : Address, hop : MeshNode \cup {NoNode}, ttl : 0..MaxTtl,
     about : Message \cup Reply, sealed : BOOLEAN]

ASSUME ArrivalAssumption ==
    /\ Arrivals \subseteq Packet
    /\ \A p \in Arrivals : IF p.kind = "DATA" THEN p.id \in Message
                           ELSE p.id \in Reply /\ p.about \in Message

\* create_packet: the CRC is computed while next_hop is None.
CreatePacket(id, kind, s, d, about) ==
    [id |-> id, kind |-> kind, source |-> s, destination |-> d, hop |-> NoNode,
     ttl |-> MaxTtl, about |-> about, sealed |-> TRUE]

\* decode_packet and validate_packet: what is not refused.
Decodes(p) == p.sealed

\* decrement_ttl computes the CRC anew.
Decremented(p) == [p EXCEPT !.ttl = @ - 1, !.sealed = TRUE]

\* The next hop is written into the packet; the CRC stays the one it had.
\* (set_next_hop would renew it; nothing calls it.)
Routed(p, hop) == [p EXCEPT !.hop = hop, !.sealed = p.sealed /\ p.hop = hop]

-----------------------------------------------------------------------------

VARIABLES
    pending,     \* ids in _pending_ack
    item,        \* the entry made for each id; a sweep may still hold one that left
    outgoing,    \* _outgoing_queue
    incoming,    \* _incoming_queue, the ids
    window,      \* _recent_message_ids
    held,        \* the packet each receiving thread found not to be a duplicate
    carried,     \* the packet each thread is about to forward
    sweep,       \* the ids process_retries still has to look at, and its limit
    told         \* history, see Told

deliveryVars == <<pending, item, outgoing, incoming, window, held, carried, sweep, told>>
meshVars == <<topologyVars, deliveryVars>>

-----------------------------------------------------------------------------

Item == [packet : Packet, attempts : Nat]
NoItem == [attempts |-> -1]
NoPacket == [kind |-> "NONE"]
Transit == {p \in Packet : p.destination \in MeshNode}
NoSweep == [ids |-> {}, limit |-> 0]

\* sends: emissions of each id.  acked, failed: ids that an ACK or a NACK removed,
\* ids that a sweep gave up.  late: answered while a sweep held them.  taken: ids
\* put into the incoming queue, and those put there again.  dropped: ids evicted
\* from the window, or received by two threads at once.
Told ==
    [sends : [Message -> Nat], acked : SUBSET Message, failed : SUBSET Message,
     late : SUBSET Message, taken : SUBSET Message, twice : SUBSET Message, dropped : SUBSET (Message \cup Reply)]

DeliveryTypeOK ==
    /\ pending \subseteq Message
    /\ item \in [Message -> Item \cup {NoItem}]
    /\ outgoing \in Seq(Packet) /\ Len(outgoing) <= QueueSize
    /\ incoming \in Seq(Message) /\ Len(incoming) <= QueueSize
    /\ window \in Seq(Message \cup Reply)
    /\ held \in [Thread -> Packet \cup {NoPacket}]
    /\ carried \in [Thread -> Transit \cup {NoPacket}]
    /\ sweep \in [ids : SUBSET Message, limit : Nat]
    /\ told \in Told

MeshInit ==
    /\ TopologyInit
    /\ pending = {}
    /\ item = [m \in Message |-> NoItem]
    /\ outgoing = << >> /\ incoming = << >> /\ window = << >>
    /\ held = [t \in Thread |-> NoPacket] /\ carried = [t \in Thread |-> NoPacket]
    /\ sweep = NoSweep
    /\ told = [sends |-> [m \in Message |-> 0], acked |-> {}, failed |-> {}, late |-> {},
               taken |-> {}, twice |-> {}, dropped |-> {}]

\* A deque with maxlen: the oldest entry makes room.
Enqueue(queue, x, size) == Append(IF Len(queue) < size THEN queue ELSE Tail(queue), x)

\* _send_raw without a transport.
Emit(p) == outgoing' = Enqueue(outgoing, p, QueueSize)

-----------------------------------------------------------------------------
(* send.                                                                   *)

\* POST /api/communication/send with a new packet, once its route is selected.  The
\* route writes a flag into the packet after its CRC and its size were computed: it
\* has at least 173 bytes beside the names and the CRC, and 180 are allowed, so all but
\* very few packets are too large by then and leave no more than a RouteRequest.
Send(t, m, hop, requireAck) ==
    /\ carried[t] = NoPacket /\ item[m] = NoItem
    /\ SelectStores(t, hop)
    /\ LET c == choice[t]
           p == [Routed(CreatePacket(m, "DATA", c.source, c.destination, m), hop) EXCEPT !.sealed = FALSE] IN
         /\ Emit(p)
         /\ item' = [item EXCEPT ![m] = [packet |-> p, attempts |-> 0]]
         /\ pending' = IF requireAck THEN pending \cup {m} ELSE pending
         /\ told' = [told EXCEPT !.sends[m] = 1]
    /\ UNCHANGED <<incoming, window, held, carried, sweep>>

-----------------------------------------------------------------------------
(* receive.                                                                *)

\* _is_duplicate; _recent_message_set holds what _recent_message_ids lists.
Known(id) == \E i \in DOMAIN window : window[i] = id

\* Decoding, and the check against the window.
ReceiveChecks(t, p) ==
    /\ held[t] = NoPacket /\ carried[t] = NoPacket /\ choice[t] = NoChoice
    /\ Decodes(p) /\ ~Known(p.id)
    /\ held' = [held EXCEPT ![t] = p]
    /\ told' = [told EXCEPT !.dropped = @ \cup
                  {id \in {p.id} : \E u \in Thread : held[u] # NoPacket /\ held[u].id = id}]
    /\ Cardinality(told'.dropped) <= MaxDrops
    /\ UNCHANGED <<topologyVars, pending, item, outgoing, incoming, window, carried, sweep>>

\* Mistake: the window forgets its oldest id one packet early.
RememberedShort(id) ==
    LET longer == Append(window, id) IN
    IF Known(id) THEN window ELSE IF Len(longer) < WindowSize THEN longer ELSE Tail(longer)

\* _remember_message_id looks again, under the lock, before it stores.
Remembered(id) == IF Known(id) THEN window ELSE Enqueue(window, id, WindowSize)
Evicted(id) == IF Known(id) \/ Len(window) < WindowSize THEN {} ELSE {Head(window)}

\* Mistake: the entry is looked for by the answer's own id.
AnswersOwn(p) ==
    /\ pending' = pending \ {p.id}
    /\ told' = [told EXCEPT !.acked = @ \cup (pending \cap {p.about}),
                  !.dropped = @ \cup Evicted(p.id)]
    /\ UNCHANGED <<outgoing, incoming, carried>>

\* _handle_ack and _handle_nack.
Answers(p) ==
    /\ pending' = pending \ {p.about}
    /\ told' = [told EXCEPT !.acked = @ \cup (pending \cap {p.about}),
                  !.late = @ \cup (pending \cap sweep.ids \cap {p.about}),
                  !.dropped = @ \cup Evicted(p.id)]
    /\ UNCHANGED <<outgoing, incoming, carried>>

\* For the master or the gateway: the packet is queued.  No ACK leaves: the
\* packet create_ack makes has at least 191 bytes whatever the names are, and
\* its encoding raises, out of receive().
ForUs(p) == p.destination \in {mesh.master, Gateway}

Delivers(p) ==
    /\ ForUs(p)
    /\ incoming' = Enqueue(incoming, p.id, QueueSize)
    /\ told' = [told EXCEPT !.taken = @ \cup {p.id}, !.twice = @ \cup (told.taken \cap {p.id}),
                  !.dropped = @ \cup Evicted(p.id)]
    /\ UNCHANGED <<outgoing, pending, carried>>

\* For another node: the packet is handed to _forward_packet.
Carries(t, p) ==
    /\ ~ForUs(p)
    /\ carried' = [carried EXCEPT ![t] = p]
    /\ told' = [told EXCEPT !.dropped = @ \cup Evicted(p.id)]
    /\ UNCHANGED <<outgoing, pending, incoming>>

\* The id is remembered and the packet is dealt with.  Nothing between the two
\* can be told apart from the same steps in a row.
ReceiveHandles(t) ==
    LET p == held[t] IN
    /\ p # NoPacket
    /\ window' = Remembered(p.id)
    /\ held' = [held EXCEPT ![t] = NoPacket]
    /\ IF p.kind = "DATA" THEN Delivers(p) \/ Carries(t, p) ELSE Answers(p)
    /\ Cardinality(told'.dropped) <= MaxDrops
    /\ UNCHANGED <<topologyVars, item, sweep>>

-----------------------------------------------------------------------------
(* _forward_packet: a route from where the packet says it is, or from the   *)
(* master, which is read again.                                             *)

Here(p) == IF p.hop # NoNode THEN p.hop ELSE mesh.master

\* The packet is out of this thread's hands.
Dismissed(t) ==
    /\ carried' = [carried EXCEPT ![t] = NoPacket]
    /\ UNCHANGED <<pending, item, incoming, window, held, sweep, told>>

ForwardBegins(t) ==
    LET p == carried[t] IN
    /\ p # NoPacket /\ p.ttl > 0 /\ Here(p) # NoNode
    /\ SelectBegins(t, Here(p), p.destination, DirectionFrom(p.source))
    /\ UNCHANGED deliveryVars

\* "TTL expired", or nowhere to start from.
ForwardDrops(t) ==
    LET p == carried[t] IN
    /\ p # NoPacket /\ choice[t] = NoChoice
    /\ p.ttl = 0 \/ Here(p) = NoNode
    /\ Dismissed(t)
    /\ UNCHANGED <<topologyVars, outgoing>>

ForwardFails(t) ==
    /\ carried[t] # NoPacket
    /\ SelectFails(t)
    /\ Dismissed(t)
    /\ UNCHANGED outgoing

\* With the next hop's name in it the packet may be too large.
Forwards(t, hop) ==
    /\ carried[t] # NoPacket /\ carried[t].ttl > 0
    /\ SelectStores(t, hop)
    /\ Emit(Routed(Decremented(carried[t]), hop)) \/ UNCHANGED outgoing
    /\ Dismissed(t)

-----------------------------------------------------------------------------
(* process_retries.                                                        *)

\* The settings are read, then the entries are copied; the entries themselves
\* are shared.
SweepBegins ==
    /\ sweep.ids = {}
    /\ sweep' = [ids |-> pending, limit |-> settings.retries]
    /\ UNCHANGED <<topologyVars, pending, item, outgoing, incoming, window, held, carried, told>>

SweepSkips(m) ==
    /\ m \in sweep.ids
    /\ sweep' = [sweep EXCEPT !.ids = @ \ {m}]
    /\ UNCHANGED <<topologyVars, pending, item, outgoing, incoming, window, held, carried, told>>

\* No answer after the last attempt.  An entry that has left is counted as well.
SweepGivesUp(m) ==
    /\ m \in sweep.ids /\ item[m].attempts >= sweep.limit
    /\ sweep' = [sweep EXCEPT !.ids = @ \ {m}]
    /\ pending' = pending \ {m}
    /\ told' = [told EXCEPT !.failed = @ \cup {m}]
    /\ UNCHANGED <<topologyVars, item, outgoing, incoming, window, held, carried>>

\* The packet is sent over the hop it was given first.
SweepResends(m) ==
    /\ m \in sweep.ids /\ item[m].attempts < sweep.limit
    /\ sweep' = [sweep EXCEPT !.ids = @ \ {m}]
    /\ item' = [item EXCEPT ![m].attempts = @ + 1]
    /\ Emit(item[m].packet)
    /\ told' = [told EXCEPT !.sends[m] = @ + 1]
    /\ UNCHANGED <<topologyVars, pending, incoming, window, held, carried>>

ClearQueues ==
    /\ outgoing' = << >> /\ incoming' = << >>
    /\ UNCHANGED <<topologyVars, pending, item, window, held, carried, sweep, told>>

\* Which of the two requests a thread selects a route for shows at the end.
SelectRequest(t) ==
    /\ held[t] = NoPacket /\ carried[t] = NoPacket
    /\ RouteRequest(t) \/ SelectEnds(t)
    /\ UNCHANGED deliveryVars

SendRequest(t) ==
    \E m \in Message, hop \in MeshNode, requireAck \in BOOLEAN : Send(t, m, hop, requireAck)

ForwardRequest(t) ==
    ForwardBegins(t) \/ ForwardDrops(t) \/ ForwardFails(t) \/ \E hop \in MeshNode : Forwards(t, hop)

ReceiveRequest(t) == ReceiveHandles(t) \/ \E p \in Arrivals : ReceiveChecks(t, p)

Sweep == SweepBegins \/ \E m \in Message : SweepSkips(m) \/ SweepGivesUp(m) \/ SweepResends(m)

MeshNext ==
    \/ ChangeRequest /\ UNCHANGED deliveryVars
    \/ \E t \in Thread :
         \/ SelectReads(t) /\ UNCHANGED deliveryVars
         \/ SelectRequest(t) \/ SendRequest(t) \/ ReceiveRequest(t) \/ ForwardRequest(t)
    \/ Sweep \/ ClearQueues

MeshSpec == MeshInit /\ [][MeshNext]_meshVars

-----------------------------------------------------------------------------
(* Properties.                                                             *)

\* A packet is put into the incoming queue a second time only if the window
\* forgot its id, or two threads received it at once: the check and the
\* entry into the window are separate (receive).
TakenOnce == told.twice \subseteq told.dropped

\* A message is given up by the sweep or answered, never both, unless its
\* answer arrived while a sweep was holding it (process_retries, _handle_ack).
OneOutcome == told.acked \cap told.failed \subseteq told.late

\* Through every sweep, change of retry_count, answer and resending: a message
\* is emitted once and then once per counted attempt, at most as often as some
\* retry_count that was in force allowed ("This does not create an infinite
\* retry loop").
RetriesCounted ==
    \A m \in Message : item[m] # NoItem =>
        /\ told.sends[m] = item[m].attempts + 1
        /\ \E limit \in RetryLimits : item[m].attempts <= limit

\* "CRC is used to detect corrupted application data" (packet_manager.py): what
\* the server sends, a receiver with the same check accepts.
EmittedDecodes == \A i \in DOMAIN outgoing : Decodes(outgoing[i])

\* What the window and the receiving threads hold.
WindowIsSound ==
    /\ Len(window) <= WindowSize
    /\ \A m \in told.taken \ told.dropped : Known(m)

HeldIsSound ==
    /\ \A t \in Thread : held[t] # NoPacket =>
         /\ held[t] \in Arrivals
         /\ held[t].id \notin told.dropped => ~Known(held[t].id)
    /\ \A t, u \in Thread : held[t] # NoPacket /\ held[u] # NoPacket /\ held[t].id = held[u].id
         => t = u \/ held[t].id \in told.dropped

\* What waits for an answer, and what the sweep holds.
SweepIsSound ==
    /\ \A m \in pending \cup sweep.ids \cup told.acked \cup told.failed : item[m] # NoItem
    /\ sweep.ids # {} => sweep.limit \in RetryLimits
    /\ sweep.ids \subseteq pending \cup told.late
    /\ pending \cap (told.acked \cup told.failed) = {}

\* The inductive invariant of the proofs.
MeshInv ==
    /\ TopologyInv /\ DeliveryTypeOK /\ WindowIsSound /\ HeldIsSound /\ SweepIsSound
    /\ TakenOnce /\ OneOutcome /\ RetriesCounted

=============================================================================
