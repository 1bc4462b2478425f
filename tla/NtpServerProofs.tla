---------------------------- MODULE NtpServerProofs ----------------------------
(***************************************************************************)
(* Theorems about NtpServer, for any clients, any size of the ring and of  *)
(* the mailbox and any number of frames.                                   *)
(*                                                                         *)
(* The property that a request is answered with its own frame's timestamp  *)
(* is not inductive: that the oldest entry is the right one follows from   *)
(* ring and socket holding the same frames of the client (InStep), the     *)
(* socket holding them in order of arrival, behind the request in hand     *)
(* (InOrder), and no frame being twice in the ring (Unique).               *)
(***************************************************************************)
EXTENDS NtpServer, SequenceTheorems, WellFoundedInduction, TLAPS

\* Frames that wait in the socket, and the one the task has just received.
Queued == {mailbox[i] : i \in 1 .. Len(mailbox)}

Waiting == Queued \cup (IF pc = "take" THEN {request} ELSE {})

Recorded == {ring[slot].frame : slot \in {s \in Slots : ring[s].valid}}

-------------------------------------------------------------------------------
(* The inductive invariant. *)

Unique ==
    \A slot, other \in Slots :
        /\ ring[slot].valid => ring[slot].frame.number <= arrived
        /\ ring[slot].valid /\ ring[other].valid
           /\ ring[slot].frame.number = ring[other].frame.number
           => slot = other

InOrder ==
    /\ \A i \in 1 .. Len(mailbox) :
         /\ mailbox[i].number <= arrived
         /\ pc = "take" => request.number < mailbox[i].number
         /\ \A j \in 1 .. Len(mailbox) :
              i < j => mailbox[i].number < mailbox[j].number
    /\ pc = "take" => request \in Frames /\ request.number <= arrived
    /\ pc = "answer" => request \in Frames

InStep ==
    \A frame \in Frames :
        frame.client \notin disturbed =>
            (frame \in Recorded <=> frame \in Waiting)

IInv ==
    /\ TypeOK
    /\ Unique
    /\ TimestampTakenOnce
    /\ InOrder
    /\ InStep
    /\ UndisturbedClientGetsOwnTimestamp

-------------------------------------------------------------------------------
(* Frames and entries. *)

LEMMA RingOf == TypeOK => /\ Slots # {} /\ next \in Slots
                          /\ ring \in [Slots -> [valid : {FALSE}]
                                          \cup [valid : {TRUE}, frame : Frames]]
                          /\ \A slot \in Slots : ring[slot].valid =>
                               /\ ring[slot].frame \in Frames
                               /\ ring[slot].frame.number \in 1 .. MaxFrames
                               /\ ring[slot].frame.client \in Clients
                          /\ NoEntry.valid = FALSE
  BY ServerAssumption DEF TypeOK, Slots, NoEntry, Frames

LEMMA MailboxOf == TypeOK => /\ mailbox \in Seq(Frames) /\ Len(mailbox) \in Nat
                             /\ \A i \in 1 .. Len(mailbox) : mailbox[i] \in Frames
                             /\ arrived \in Nat /\ MaxFrames \in Nat
  BY ServerAssumption DEF TypeOK

\* Overwriting one slot of the ring.
LEMMA NextSlot ==
  ASSUME TypeOK
  PROVE  (next + 1) % RingSize \in Slots
  BY ServerAssumption DEF TypeOK, Slots

LEMMA LeastNumber ==
  ASSUME NEW S \in SUBSET Nat, S # {}
  PROVE  \E n \in S : \A m \in S : n <= m
<1>1. PICK n \in S : \A m \in S : <<m, n>> \notin OpToRel(<, Nat)
  BY WFMin, NatLessThanWellFounded, Zenon
<1>2. \A m \in S : ~(m < n)
  BY <1>1, Zenon DEF OpToRel
<1> QED
  BY <1>2

LEMMA OldestOf ==
  ASSUME NEW slots \in SUBSET Slots, slots # {},
         TypeOK, \A slot \in slots : ring[slot].valid
  PROVE  /\ Oldest(slots) \in slots
         /\ \A other \in slots :
              ring[Oldest(slots)].frame.number <= ring[other].frame.number
<1> DEFINE Numbers == {ring[slot].frame.number : slot \in slots}
<1>1. Numbers \in SUBSET Nat /\ Numbers # {}
  BY RingOf DEF Frames
<1>2. \E n \in Numbers : \A m \in Numbers : n <= m
  BY <1>1, LeastNumber
<1>3. \E slot \in slots : \A other \in slots :
         ring[slot].frame.number <= ring[other].frame.number
  BY <1>2
<1> QED
  BY <1>3 DEF Oldest

LEMMA RecordedFrame ==
  ASSUME NEW frame
  PROVE  frame \in Recorded <=>
           \E slot \in Slots : ring[slot].valid /\ ring[slot].frame = frame
  BY DEF Recorded

LEMMA QueuedFrame ==
  ASSUME NEW frame
  PROVE  frame \in Queued <=> \E i \in 1 .. Len(mailbox) : mailbox[i] = frame
  BY DEF Queued

-------------------------------------------------------------------------------
(* The receive path. *)

LEMMA ArriveStep ==
  ASSUME IInv, NEW client \in Clients, NEW stamped \in BOOLEAN,
         NEW delivered \in BOOLEAN, FrameArrives(client, stamped, delivered)
  PROVE  IInv'
<1> DEFINE frame == [client |-> client, number |-> arrived + 1]
<1> USE DEF IInv
<1>1. /\ frame \in Frames /\ frame.client = client
      /\ frame.number = arrived + 1
      /\ Entry(frame).valid /\ Entry(frame).frame = frame
      /\ Entry(frame) \in [valid : {TRUE}, frame : Frames]
  <2>1. arrived < MaxFrames
    BY DEF FrameArrives
  <2>2. arrived + 1 \in 1 .. MaxFrames
    BY <2>1, MailboxOf
  <2> QED
    BY <2>2 DEF Entry, Frames
<1>2. /\ arrived < MaxFrames /\ arrived' = arrived + 1
      /\ delivered => Len(mailbox) < MailboxSize
      /\ IF stamped THEN /\ ring' = [ring EXCEPT ![next] = Entry(frame)]
                         /\ next' = (next + 1) % RingSize
         ELSE UNCHANGED <<ring, next>>
      /\ mailbox' = IF delivered THEN Append(mailbox, frame) ELSE mailbox
      /\ disturbed' = disturbed
                        \cup (IF stamped THEN Overwritten ELSE {})
                        \cup (IF stamped /\ delivered THEN {} ELSE {client})
      /\ UNCHANGED <<pc, request, stamp, taken>>
  BY DEF FrameArrives, Enqueue
<1> HIDE DEF frame
<1>3. \A slot \in Slots :
        ring'[slot] = IF stamped /\ slot = next THEN Entry(frame) ELSE ring[slot]
  BY <1>2, RingOf
<1>4. /\ mailbox' \in Seq(Frames)
      /\ Len(mailbox') = IF delivered THEN Len(mailbox) + 1 ELSE Len(mailbox)
      /\ \A i \in 1 .. Len(mailbox) : mailbox'[i] = mailbox[i]
      /\ delivered => mailbox'[Len(mailbox) + 1] = frame
  BY <1>1, <1>2, MailboxOf, AppendProperties
<1>5. TypeOK'
  <2>1. ring' \in [Slots -> [valid : {FALSE}]
                           \cup [valid : {TRUE}, frame : Frames]]
    BY <1>1, <1>2, RingOf
  <2>2. next' \in Slots
    BY <1>2, RingOf, NextSlot
  <2>3. arrived' \in 0 .. MaxFrames
    BY <1>2, MailboxOf
  <2>4. mailbox' \in Seq(Frames) /\ Len(mailbox') <= MailboxSize
    BY <1>2, <1>4, MailboxOf, ServerAssumption DEF TypeOK
  <2>5. disturbed' \subseteq Clients
    BY <1>2, RingOf DEF TypeOK, Overwritten
  <2>6. stamp' \in 0 .. arrived' /\ taken' \subseteq 1 .. arrived'
    BY <1>2, MailboxOf DEF TypeOK
  <2> QED
    BY <1>2, <2>1, <2>2, <2>3, <2>4, <2>5, <2>6 DEF TypeOK
<1>6. Unique'
  BY <1>1, <1>2, <1>3, RingOf, MailboxOf DEF Unique, Frames
<1>7. TimestampTakenOnce'
  BY <1>1, <1>2, <1>3, MailboxOf DEF TimestampTakenOnce, TypeOK
<1>8. InOrder'
  <2>1. pc = "take" => request.number \in Nat /\ request.number <= arrived
    BY MailboxOf DEF InOrder, Frames
  <2>2. \A i \in 1 .. Len(mailbox) : mailbox[i].number \in Nat
    BY MailboxOf DEF Frames
  <2> QED
    BY <1>1, <1>2, <1>4, <2>1, <2>2, MailboxOf DEF InOrder
<1>9. InStep'
  <2> SUFFICES ASSUME NEW other \in Frames, other.client \notin disturbed'
               PROVE  (other \in Recorded)' <=> (other \in Waiting)'
    BY DEF InStep
  <2>1. other.client \notin disturbed /\ (other \in Recorded <=> other \in Waiting)
    BY <1>2 DEF InStep
  <2>2. (other \in Recorded)' <=> other \in Recorded \/ (stamped /\ other = frame)
    BY <1>1, <1>2, <1>3, <2>1, RingOf, RecordedFrame DEF Recorded, Overwritten
  <2>3. (other \in Queued)' <=> other \in Queued \/ (delivered /\ other = frame)
    BY <1>1, <1>2, <1>4, MailboxOf DEF Queued
  <2>4. other = frame => stamped /\ delivered
    BY <1>1, <1>2
  <2> QED
    BY <1>2, <2>1, <2>2, <2>3, <2>4 DEF Waiting
<1>10. UndisturbedClientGetsOwnTimestamp'
  BY <1>2 DEF UndisturbedClientGetsOwnTimestamp
<1> QED
  BY <1>5, <1>6, <1>7, <1>8, <1>9, <1>10

-------------------------------------------------------------------------------
(* The server task. *)

LEMMA ReceiveStep ==
  ASSUME IInv, Receive
  PROVE  IInv'
<1> USE DEF IInv
<1>1. /\ pc = "recvfrom" /\ mailbox # <<>> /\ pc' = "take"
      /\ request' = Head(mailbox) /\ mailbox' = Tail(mailbox)
      /\ UNCHANGED <<ring, next, arrived, stamp, taken, disturbed>>
  BY DEF Receive
<1>2. /\ mailbox' \in Seq(Frames) /\ Len(mailbox') = Len(mailbox) - 1
      /\ \A i \in 1 .. Len(mailbox') : mailbox'[i] = mailbox[i + 1]
      /\ request' = mailbox[1] /\ request' \in Frames
      /\ Len(mailbox) \in Nat \ {0}
  <2>1. Head(mailbox) = mailbox[1]
    BY <1>1, MailboxOf
  <2>2. Len(mailbox) # 0
    BY <1>1, MailboxOf, EmptySeq
  <2> QED
    BY <1>1, <2>1, <2>2, MailboxOf, HeadTailProperties
<1>3. TypeOK'
  <2>1. Len(mailbox') <= MailboxSize /\ MailboxSize \in Nat
    BY <1>2, ServerAssumption DEF TypeOK
  <2>2. request' \in Frames \cup {NoRequest}
    BY <1>2
  <2> QED
    BY <1>1, <1>2, <2>1, <2>2 DEF TypeOK
<1>4. Unique' /\ TimestampTakenOnce'
  BY <1>1 DEF Unique, TimestampTakenOnce
<1>5. InOrder'
  <2>1. \A i \in 1 .. Len(mailbox) : mailbox[i].number \in Nat
    BY MailboxOf DEF Frames
  <2>2. \A i \in 1 .. Len(mailbox') : i + 1 \in 1 .. Len(mailbox)
    BY <1>2
  <2> QED
    BY <1>1, <1>2, <2>1, <2>2 DEF InOrder
<1>6. InStep'
  <2>1. \A frame : frame \in Queued <=>
          frame = mailbox[1] \/ \E i \in 1 .. Len(mailbox') : mailbox[i + 1] = frame
    <3>1. \A i \in 1 .. Len(mailbox) :
            i = 1 \/ (i - 1 \in 1 .. Len(mailbox') /\ (i - 1) + 1 = i)
      BY <1>2
    <3>2. \A i \in 1 .. Len(mailbox') : i + 1 \in 1 .. Len(mailbox)
      BY <1>2
    <3> TAKE frame
    <3>3. frame \in Queued <=> \E i \in 1 .. Len(mailbox) : mailbox[i] = frame
      BY QueuedFrame
    <3>4. ASSUME NEW i \in 1 .. Len(mailbox), mailbox[i] = frame, i # 1
          PROVE  \E j \in 1 .. Len(mailbox') : mailbox[j + 1] = frame
      BY <3>1, <3>4
    <3>5. 1 \in 1 .. Len(mailbox)
      BY <1>2
    <3> QED
      BY <3>2, <3>3, <3>4, <3>5
  <2>2. \A frame : (frame \in Queued)' <=>
          \E i \in 1 .. Len(mailbox') : mailbox[i + 1] = frame
    BY <1>2 DEF Queued
  <2>3. \A frame : (frame \in Waiting)' <=> frame \in Waiting
    BY <1>1, <1>2, <2>1, <2>2 DEF Waiting
  <2> QED
    BY <1>1, <2>3 DEF InStep, Recorded
<1>7. UndisturbedClientGetsOwnTimestamp'
  BY <1>1 DEF UndisturbedClientGetsOwnTimestamp
<1> QED
  BY <1>3, <1>4, <1>5, <1>6, <1>7

\* The oldest timestamp of an undisturbed client is the request's own.
LEMMA OldestIsOwn ==
  ASSUME IInv, pc = "take", request.client \notin disturbed
  PROVE  /\ Matching(request.client) # {}
         /\ ring[Oldest(Matching(request.client))].frame = request
<1> USE DEF IInv
<1> DEFINE slots == Matching(request.client)
           slot == Oldest(slots)
<1>1. /\ request \in Frames /\ request \in Waiting /\ request \in Recorded
      /\ slots \in SUBSET Slots /\ \A s \in slots : ring[s].valid
  BY DEF InOrder, InStep, Waiting, Matching
<1>2. PICK own \in Slots : ring[own].valid /\ ring[own].frame = request
  BY <1>1, RecordedFrame
<1>3. own \in slots
  BY <1>2 DEF Matching
<1>4. /\ slot \in slots
      /\ ring[slot].frame.number <= request.number
  BY <1>1, <1>2, <1>3, OldestOf
<1>5. /\ ring[slot].valid /\ ring[slot].frame \in Frames
      /\ ring[slot].frame.client = request.client
      /\ ring[slot].frame \in Recorded
  BY <1>1, <1>4, RingOf, RecordedFrame DEF Matching
<1>6. ring[slot].frame \in Waiting
  BY <1>5 DEF InStep
<1>7. ring[slot].frame \notin Queued
  <2>1. \A i \in 1 .. Len(mailbox) :
          /\ request.number < mailbox[i].number
          /\ mailbox[i].number \in Nat /\ request.number \in Nat
    BY <1>1, MailboxOf DEF InOrder, Frames
  <2> QED
    BY <1>4, <2>1, QueuedFrame
<1> QED
  BY <1>3, <1>6, <1>7 DEF Waiting

LEMMA TakeStep ==
  ASSUME IInv, NEW mapped \in BOOLEAN, Take(mapped)
  PROVE  IInv'
<1> USE DEF IInv
<1> DEFINE slots == Matching(request.client)
           slot == Oldest(slots)
<1>1. /\ pc = "take" /\ pc' = "answer"
      /\ UNCHANGED <<next, arrived, mailbox, request, disturbed>>
      /\ IF slots = {} THEN stamp' = 0 /\ UNCHANGED <<ring, taken>>
         ELSE /\ ring' = [ring EXCEPT ![slot] = NoEntry]
              /\ stamp' = IF mapped THEN ring[slot].frame.number ELSE 0
              /\ taken' = taken \cup {ring[slot].frame.number}
  BY DEF Take, Consume
<1>2. /\ request \in Frames /\ request.number <= arrived
      /\ slots \in SUBSET Slots /\ \A s \in slots : ring[s].valid
  BY <1>1 DEF InOrder, Matching
<1>3. slots # {} => /\ slot \in Slots /\ ring[slot].valid
                   /\ ring[slot].frame \in Frames
                   /\ ring[slot].frame.client = request.client
                   /\ ring[slot].frame.number \in 1 .. arrived
  <2>1. slots # {} => slot \in slots
    BY <1>2, OldestOf
  <2> QED
    BY <1>2, <2>1, RingOf, MailboxOf DEF Matching, Unique
<1>4. slots # {} => request.client \in disturbed \/ ring[slot].frame = request
  BY <1>1, OldestIsOwn
<1>5. slots = {} => request.client \in disturbed
  BY <1>1, OldestIsOwn
<1> HIDE DEF slot, slots
<1>6. \A s \in Slots :
        ring'[s] = IF slots # {} /\ s = slot THEN NoEntry ELSE ring[s]
  BY <1>1, RingOf
<1>7. TypeOK'
  <2>1. ring' \in [Slots -> [valid : {FALSE}]
                           \cup [valid : {TRUE}, frame : Frames]]
    <3>1. NoEntry \in [valid : {FALSE}]
      BY DEF NoEntry
    <3> QED
      BY <1>1, <3>1, RingOf
  <2>2. stamp' \in 0 .. arrived'
    <3>1. 0 \in 0 .. arrived
      BY MailboxOf
    <3>2. slots # {} => ring[slot].frame.number \in 0 .. arrived
      BY <1>3, MailboxOf
    <3> QED
      BY <1>1, <3>1, <3>2
  <2>3. taken' \subseteq 1 .. arrived'
    BY <1>1, <1>3 DEF TypeOK
  <2> QED
    BY <1>1, <2>1, <2>2, <2>3 DEF TypeOK
<1>8. Unique'
  BY <1>1, <1>6, RingOf DEF Unique
<1>9. TimestampTakenOnce'
  BY <1>1, <1>3, <1>6, RingOf DEF Unique, TimestampTakenOnce
<1>10. InOrder'
  BY <1>1, <1>2 DEF InOrder
<1>11. InStep'
  <2> SUFFICES ASSUME NEW other \in Frames, other.client \notin disturbed
               PROVE  (other \in Recorded)' <=> (other \in Waiting)'
    BY <1>1 DEF InStep
  <2>1. other \in Recorded <=> other \in Waiting
    BY DEF InStep
  <2>2. (other \in Recorded)' <=> other \in Recorded /\ other # request
    <3>1. (other \in Recorded)' <=>
            \E s \in Slots : /\ ring[s].valid /\ ring[s].frame = other
                             /\ ~(slots # {} /\ s = slot)
      BY <1>6, RingOf DEF Recorded
    <3>2. \A s \in Slots : slots # {} /\ ring[s].valid /\ ring[s].frame = request
                            /\ ring[slot].frame = request => s = slot
      BY <1>3 DEF Unique
    <3> QED
      BY <1>3, <1>4, <1>5, <3>1, <3>2, RecordedFrame
  <2>3. (other \in Waiting)' <=> other \in Waiting /\ other # request
    <3>1. request \notin Queued
      <4>1. \A i \in 1 .. Len(mailbox) : request.number < mailbox[i].number
        BY <1>1 DEF InOrder
      <4>2. request.number \in Nat
        BY <1>2 DEF Frames
      <4> QED
        BY <4>1, <4>2 DEF Queued
    <3> QED
      BY <1>1, <3>1 DEF Waiting, Queued
  <2> QED
    BY <2>1, <2>2, <2>3
<1>12. UndisturbedClientGetsOwnTimestamp'
  BY <1>1, <1>4 DEF UndisturbedClientGetsOwnTimestamp
<1> QED
  BY <1>7, <1>8, <1>9, <1>10, <1>11, <1>12

LEMMA AnswerStep ==
  ASSUME IInv, Reply \/ Drop
  PROVE  IInv'
<1> USE DEF IInv
<1>1. /\ pc = "answer" /\ pc' = "recvfrom" /\ request' = NoRequest /\ stamp' = 0
      /\ UNCHANGED <<ring, next, arrived, mailbox, taken, disturbed>>
  BY DEF Reply, Drop
<1>2. TypeOK'
  <2>1. 0 \in 0 .. arrived
    BY MailboxOf
  <2> QED
    BY <1>1, <2>1 DEF TypeOK
<1>3. InOrder' /\ InStep'
  BY <1>1 DEF InOrder, InStep, Waiting, Queued, Recorded
<1> QED
  BY <1>1, <1>2, <1>3
     DEF Unique, TimestampTakenOnce, UndisturbedClientGetsOwnTimestamp

-------------------------------------------------------------------------------
(* The theorems. *)

LEMMA Invariance == Spec => []IInv
<1>1. Init => IInv
  <2> SUFFICES ASSUME Init PROVE IInv
    OBVIOUS
  <2>1. TypeOK
    <3>1. NoEntry \in [valid : {FALSE}]
      BY DEF NoEntry
    <3>2. mailbox \in Seq(Frames) /\ Len(mailbox) = 0
      BY EmptySeq DEF Init
    <3>3. ring \in [Slots -> [valid : {FALSE}]
                            \cup [valid : {TRUE}, frame : Frames]]
      BY <3>1 DEF Init
    <3>4. next \in Slots /\ Len(mailbox) <= MailboxSize
      BY <3>2, ServerAssumption DEF Init, Slots
    <3>5. arrived \in 0 .. MaxFrames /\ stamp \in 0 .. arrived
      BY ServerAssumption DEF Init
    <3> QED
      BY <3>2, <3>3, <3>4, <3>5 DEF Init, TypeOK
  <2>2. \A slot \in Slots : ring[slot].valid = FALSE
    BY DEF Init, NoEntry
  <2>3. Len(mailbox) = 0
    BY EmptySeq DEF Init
  <2> QED
    BY <2>1, <2>2, <2>3
       DEF Init, IInv, Unique, TimestampTakenOnce, InOrder, InStep, Waiting,
           Queued, Recorded, UndisturbedClientGetsOwnTimestamp
<1>2. IInv /\ [Next]_vars => IInv'
  <2> SUFFICES ASSUME IInv, [Next]_vars PROVE IInv'
    OBVIOUS
  <2>1. CASE UNCHANGED vars
    <3>1. TypeOK'
      BY <2>1 DEF vars, IInv, TypeOK
    <3>2. Unique' /\ TimestampTakenOnce'
      BY <2>1 DEF vars, IInv, Unique, TimestampTakenOnce
    <3>3. InOrder'
      BY <2>1 DEF vars, IInv, InOrder
    <3>4. InStep'
      BY <2>1 DEF vars, IInv, InStep, Waiting, Queued, Recorded
    <3>5. UndisturbedClientGetsOwnTimestamp'
      BY <2>1 DEF vars, IInv, UndisturbedClientGetsOwnTimestamp
    <3> QED
      BY <3>1, <3>2, <3>3, <3>4, <3>5 DEF IInv
  <2>2. CASE \E client \in Clients, stamped, delivered \in BOOLEAN :
               FrameArrives(client, stamped, delivered)
    BY <2>2, ArriveStep
  <2>3. CASE Receive
    BY <2>3, ReceiveStep
  <2>4. CASE \E mapped \in BOOLEAN : Take(mapped)
    BY <2>4, TakeStep
  <2>5. CASE Reply \/ Drop
    BY <2>5, AnswerStep
  <2> QED
    BY <2>1, <2>2, <2>3, <2>4, <2>5 DEF Next, Done, vars
<1> QED
  BY <1>1, <1>2, PTL DEF Spec

\* The ring, the socket and the task's locals keep their types, for any size of
\* the ring: the write position stays on it (eth_input_to_netif_with_timestamp).
THEOREM TypeCorrect == Spec => []TypeOK
<1>1. IInv => TypeOK
  BY DEF IInv
<1> QED
  BY <1>1, Invariance, PTL

\* No hardware timestamp serves two requests
\* (eth_service_take_ntp_rx_timestamp).
THEOREM TakenOnceProof == Spec => []TimestampTakenOnce
<1>1. IInv => TimestampTakenOnce
  BY DEF IInv
<1> QED
  BY <1>1, Invariance, PTL

\* A client none of whose frames or entries was lost is answered with the
\* timestamp of his own frame, for any number of clients, frames and slots.
THEOREM OwnTimestampProof == Spec => []UndisturbedClientGetsOwnTimestamp
<1>1. IInv => UndisturbedClientGetsOwnTimestamp
  BY DEF IInv
<1> QED
  BY <1>1, Invariance, PTL
===============================================================================
