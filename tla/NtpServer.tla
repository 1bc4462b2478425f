------------------------------- MODULE NtpServer -------------------------------
(***************************************************************************)
(* How an NTP request meets its hardware receive timestamp.  The Ethernet  *)
(* receive path (eth_input_to_netif_with_timestamp in                      *)
(* src/main/eth_service.c) writes the timestamp of every NTP frame into a  *)
(* ring and passes the frame on to the TCP/IP stack; the server task       *)
(* (ntp_server_task in src/main/ntp_server.c) receives the datagram from   *)
(* its socket and takes, from the ring, the oldest timestamp of the same   *)
(* client address and port.  The two queues are tied by nothing but their  *)
(* order, and the stack in between may drop a frame.                       *)
(*                                                                         *)
(* A frame is known by its number, in order of arrival: that number is its *)
(* true receive time, and stands for the PTP time in the ring and for the  *)
(* entry's sequence, which grows with it.  The ring's critical sections    *)
(* are the atomic steps.                                                   *)
(***************************************************************************)
EXTENDS Integers, Sequences

CONSTANTS
    Addresses,     \* client IPv4 addresses
    Ports,         \* client UDP ports
    RingSize,      \* ETH_NTP_RX_QUEUE_SIZE
    MailboxSize,   \* CONFIG_LWIP_UDP_RECVMBOX_SIZE
    MaxFrames      \* bound of the model: frames that arrive

ASSUME ServerAssumption ==
    /\ RingSize \in Nat \ {0}
    /\ MailboxSize \in Nat \ {0}
    /\ MaxFrames \in Nat

Clients == [address : Addresses, port : Ports]

VARIABLES
    ring,       \* s_ntp_rx_queue
    next,       \* s_ntp_rx_queue_next
    arrived,    \* number of the last frame that arrived
    mailbox,    \* datagrams waiting in the server's UDP socket
    pc,         \* where ntp_server_task is
    request,    \* the datagram it works on
    stamp,      \* hw_rx_timestamp, or 0 when it is not available
    taken,      \* history: the timestamps taken from the ring
    disturbed   \* history: clients a frame or a ring entry of whom was lost

vars == <<ring, next, arrived, mailbox, pc, request, stamp, taken, disturbed>>

Frames == [client : Clients, number : 1 .. MaxFrames]

Slots == 0 .. RingSize - 1

NoEntry == [valid |-> FALSE]

NoRequest == [none |-> TRUE]

Init ==
    /\ ring = [slot \in Slots |-> NoEntry]
    /\ next = 0
    /\ arrived = 0
    /\ mailbox = <<>>
    /\ pc = "recvfrom"
    /\ request = NoRequest
    /\ stamp = 0
    /\ taken = {}
    /\ disturbed = {}

-------------------------------------------------------------------------------
(* The receive path. *)

Entry(frame) == [valid |-> TRUE, frame |-> frame]

\* The client whose unused timestamp is overwritten, if any.
Overwritten == IF ring[next].valid THEN {ring[next].frame.client} ELSE {}

Enqueue(frame) ==
    /\ ring' = [ring EXCEPT ![next] = Entry(frame)]
    /\ next' = (next + 1) % RingSize

\* eth_input_to_netif_with_timestamp: a frame with a valid descriptor timestamp
\* is recorded and reaches the socket, unless the stack drops it on the way
\* (`delivered'): a full mailbox, a bad checksum, no socket bound yet.
FrameArrives(client, stamped, delivered) ==
    LET frame == [client |-> client, number |-> arrived + 1]
    IN  /\ arrived < MaxFrames
        /\ delivered => Len(mailbox) < MailboxSize
        /\ arrived' = arrived + 1
        /\ IF stamped THEN Enqueue(frame) ELSE UNCHANGED <<ring, next>>
        /\ mailbox' = IF delivered THEN Append(mailbox, frame) ELSE mailbox
        /\ disturbed' = disturbed
                        \cup (IF stamped THEN Overwritten ELSE {})
                        \cup (IF stamped /\ delivered THEN {} ELSE {client})
        /\ UNCHANGED <<pc, request, stamp, taken>>

-------------------------------------------------------------------------------
(* ntp_server_task. *)

Receive ==
    /\ pc = "recvfrom"
    /\ mailbox # <<>>
    /\ request' = Head(mailbox)
    /\ mailbox' = Tail(mailbox)
    /\ pc' = "take"
    /\ UNCHANGED <<ring, next, arrived, stamp, taken, disturbed>>

\* Faulty variant: the port is not compared.
MatchingAddress(client) ==
    {slot \in Slots :
        ring[slot].valid /\ ring[slot].frame.client.address = client.address}

\* Slots with an unused timestamp of the same address and port.
Matching(client) ==
    {slot \in Slots : ring[slot].valid /\ ring[slot].frame.client = client}

\* Faulty variant: the newest timestamp wins.
Newest(slots) ==
    CHOOSE slot \in slots :
        \A other \in slots : ring[slot].frame.number >= ring[other].frame.number

Oldest(slots) ==
    CHOOSE slot \in slots :
        \A other \in slots : ring[slot].frame.number <= ring[other].frame.number

\* Faulty variant: an entry that cannot be mapped is kept for another request.
ConsumeMapped(slot, mapped) ==
    /\ ring' = IF mapped THEN [ring EXCEPT ![slot] = NoEntry] ELSE ring
    /\ stamp' = IF mapped THEN ring[slot].frame.number ELSE 0
    /\ taken' = taken \cup {ring[slot].frame.number}

\* The entry is consumed, whether or not it can then be mapped to UTC.
Consume(slot, mapped) ==
    /\ ring' = [ring EXCEPT ![slot] = NoEntry]
    /\ stamp' = IF mapped THEN ring[slot].frame.number ELSE 0
    /\ taken' = taken \cup {ring[slot].frame.number}

\* eth_service_take_ntp_rx_timestamp.  Its mapping fails without a qualified
\* correlation or a serving clock.
Take(mapped) ==
    /\ pc = "take"
    /\ LET slots == Matching(request.client)
       IN  IF slots = {}
           THEN stamp' = 0 /\ UNCHANGED <<ring, taken>>
           ELSE Consume(Oldest(slots), mapped)
    /\ pc' = "answer"
    /\ UNCHANGED <<next, arrived, mailbox, request, disturbed>>

\* The request is answered, with `stamp' as its receive timestamp.
Reply ==
    /\ pc = "answer"
    /\ stamp # 0
    /\ pc' = "recvfrom"
    /\ request' = NoRequest
    /\ stamp' = 0
    /\ UNCHANGED <<ring, next, arrived, mailbox, taken, disturbed>>

\* It is malformed, over the rate limit, not authentic, comes while the clock
\* is not serving, or has no hardware timestamp.
Drop ==
    /\ pc = "answer"
    /\ pc' = "recvfrom"
    /\ request' = NoRequest
    /\ stamp' = 0
    /\ UNCHANGED <<ring, next, arrived, mailbox, taken, disturbed>>

-------------------------------------------------------------------------------
\* Bound of the model: every frame has come and been dealt with.
Done ==
    /\ arrived = MaxFrames /\ mailbox = <<>> /\ pc = "recvfrom"
    /\ UNCHANGED vars

Next ==
    \/ \E client \in Clients, stamped, delivered \in BOOLEAN :
         FrameArrives(client, stamped, delivered)
    \/ Receive
    \/ \E mapped \in BOOLEAN : Take(mapped)
    \/ Reply
    \/ Drop
    \/ Done

Spec == Init /\ [][Next]_vars

-------------------------------------------------------------------------------
(* Properties. *)

\* Type correctness of the ring, the mailbox and the task.
TypeOK ==
    /\ ring \in [Slots -> [valid : {FALSE}]
                          \cup [valid : {TRUE}, frame : Frames]]
    /\ next \in Slots
    /\ arrived \in 0 .. MaxFrames
    /\ mailbox \in Seq(Frames) /\ Len(mailbox) <= MailboxSize
    /\ pc \in {"recvfrom", "take", "answer"}
    /\ request \in Frames \cup {NoRequest}
    /\ stamp \in 0 .. arrived
    /\ taken \subseteq 1 .. arrived
    /\ disturbed \subseteq Clients

\* Ring and socket stay in step for a client none of whose frames was lost and
\* none of whose entries was overwritten, whatever happens to the others: a
\* request of his is answered with the timestamp of its own frame.
UndisturbedClientGetsOwnTimestamp ==
    pc = "answer" /\ stamp # 0 /\ request.client \notin disturbed
        => stamp = request.number

\* One hardware timestamp serves one request at most, also when the mapping
\* failed or other frames filled the ring meanwhile.
TimestampTakenOnce ==
    \A slot \in Slots : ring[slot].valid => ring[slot].frame.number \notin taken

\* ntp_server.c: the hardware timestamp is "the sole authoritative NTP Receive
\* Timestamp"; a "missing/mismatched/stale mapping fails closed".
ReceiveTimestampIsOwn ==
    pc = "answer" /\ stamp # 0 => stamp = request.number
===============================================================================
