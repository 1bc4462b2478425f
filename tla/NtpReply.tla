-------------------------------- MODULE NtpReply --------------------------------
(***************************************************************************)
(* The four times of an NTP reply against the clock they are read from.    *)
(* The server task (ntp_server_task and build_server_response in           *)
(* src/main/ntp_server.c) maps the request's hardware receive timestamp to *)
(* UTC between two reads of the clock (eth_service_take_ntp_rx_timestamp   *)
(* in src/main/eth_service.c), reads the clock again to see that it        *)
(* serves, for the quality, the Reference Timestamp and the Transmit       *)
(* Timestamp, and the transmit path of the Ethernet driver                 *)
(* (eth_ntp_tx_probe_transmit) reads it once more and rewrites the         *)
(* Transmit Timestamp of a plain reply.  Each read locks the clock on its  *)
(* own: its monitor task may run between any two of them.                  *)
(*                                                                         *)
(* A request is answered or given up within ReplyTime, less than a second, *)
(* and the monitor submits one sample per pulse, so at most one sample     *)
(* reaches the clock meanwhile.  The PTP counter runs with the capture     *)
(* timer over so short a time.  The estimated rate of the two, by which    *)
(* the request's age is divided, and the transmit compensation of 99 us    *)
(* are below a tick.  The stratum and the leap indicator are left out, and *)
(* so are kiss-of-death packets: a client uses none of their times, and    *)
(* the transmit path leaves stratum 0 alone.                               *)
(*                                                                         *)
(* Rewriting the Transmit Timestamp, the transmit path also corrects the   *)
(* UDP checksum by the difference, in one's complement.  The words of a    *)
(* datagram are modelled by a radix in place of 2^16, and the two words    *)
(* each of the timestamp's seconds and fraction by one word of its ticks   *)
(* each.                                                                   *)
(***************************************************************************)
EXTENDS ClockDiscipline

CONSTANTS
    MaxBracket,   \* ETH_PTP_LOCAL_MAP_MAX_BRACKET_NS, in ticks
    ReplyTime,    \* longest time from a request's arrival to its reply
    Radix         \* 2^16: one more than the largest word of a datagram

ASSUME ReplyAssumption ==
    /\ MaxBracket \in Nat
    /\ ReplyTime \in 0 .. Second - 1
    /\ Radix \in Nat \ {0, 1}

VARIABLE reply    \* the locals of ntp_server_task and the reply it composes

replyVars == <<vars, reply>>

NoReply == [pc |-> "idle"]

\* What the reply is sent in but for its Transmit Timestamp: its length, the sum
\* of its other words, its checksum, and whether it was composed with one.
NoDatagram == [length |-> 0, others |-> 0, checksum |-> 0, summed |-> FALSE]

\* `age' counts the ticks since the frame arrived; `sampled' and `moved' are
\* history: a sample came meanwhile, and it moved the clock though rejected.
Request(age) ==
    [pc |-> "before", age |-> age, mapped |-> 0, receive |-> 0,
     reference |-> 0, transmit |-> 0, turnaround |-> 0,
     sampled |-> FALSE, moved |-> FALSE, datagram |-> NoDatagram]

Busy == reply.pc # "idle"

\* Bytes of a plain reply, and of one with the extension fields of NTS: NTS
\* replies differ in length, but none is as short as a plain one.
PlainLength == 48
SealedLength == PlainLength + 1

ReplyInit == Init /\ reply = NoReply

-------------------------------------------------------------------------------
(* The clock while a reply is composed. *)

ReplyAdvance ==
    /\ Advance
    /\ Busy => reply.age < ReplyTime
    /\ reply' = IF Busy THEN [reply EXCEPT !.age = @ + 1] ELSE reply

Moves(sample) == solution_valid /\ ~Backward(sample) /\ ~Acceptable(sample)

ReplySample(sample) ==
    /\ SubmitSample(sample)
    /\ Busy => ~reply.sampled
    /\ reply' = IF Busy
                THEN [reply EXCEPT !.sampled = TRUE, !.moved = Moves(sample)]
                ELSE reply

ReplyPolicy ==
    /\ \/ \E ready \in BOOLEAN : UpdateReferenceState(ready)
       \/ EnforceHoldoverPolicy
    /\ UNCHANGED reply

-------------------------------------------------------------------------------
(* eth_service_take_ntp_rx_timestamp. *)

\* recvfrom returns a request `age' ticks after its frame arrived.
Take(age) ==
    /\ ~Busy
    /\ reply' = Request(age)
    /\ UNCHANGED vars

\* One step of the task: a read of a clock that serves.
Read(from, to) ==
    /\ reply.pc = from
    /\ Serving
    /\ reply' = to
    /\ UNCHANGED vars

ReadBefore ==
    Read("before", [reply EXCEPT !.pc = "ptp", !.mapped = NtpTimestamp])

\* esp_eth_mac_get_ptp_time: how long ago the frame came.
ReadPtp ==
    /\ reply.pc = "ptp"
    /\ reply' = [reply EXCEPT !.pc = "after", !.receive = reply.age]
    /\ UNCHANGED vars

\* Faulty variant: any bracket is good enough.
Bracketed(after) == reply.mapped <= after

\* The two reads of the clock enclose the PTP time closely.
InBracket(after) == after - reply.mapped \in 0 .. MaxBracket

ReadAfter ==
    /\ reply.pc = "after"
    /\ InBracket(NtpTimestamp)
    /\ LET middle == reply.mapped + (NtpTimestamp - reply.mapped) \div 2
       IN  Read("after",
                [reply EXCEPT !.pc = "clock", !.mapped = 0,
                              !.receive = middle - reply.receive])

-------------------------------------------------------------------------------
(* The words of a datagram and their checksum. *)

AllOnes == Radix - 1

Word == 0 .. AllOnes

\* ~word, of a word.
Complement(word) == AllOnes - word

\* The carry of a sum added back into its word.
Carry(sum) == (sum % Radix) + (sum \div Radix)

\* Faulty variant: if in place of while.
FoldOnce(sum) == IF sum < Radix THEN sum ELSE Carry(sum) % Radix

\* The loop of checksum_replace_word: carries are added back until there is none.
\* For a sum of three words twice is enough.
Fold(sum) == IF sum < Radix THEN sum
             ELSE IF Carry(sum) < Radix THEN Carry(sum)
             ELSE Carry(Carry(sum))

\* checksum_replace_word.
ReplaceWord(checksum, old, new) ==
    Complement(Fold(Complement(checksum) + Complement(old) + new))

High(time) == (time \div Radix) % Radix
Low(time) == time % Radix

\* One's complement sum of the words of a datagram: the time and the others.
SumOf(others, time) == Fold(Fold(others + High(time)) + Low(time))

\* Zero means that there is no checksum.
NonZero(checksum) == IF checksum = 0 THEN AllOnes ELSE checksum

\* What the IP stack puts into a datagram that has a checksum.
ChecksumOf(others, time) == NonZero(Complement(SumOf(others, time)))

\* eth_frame_apply_ntp_late_stamp.
Restamped(checksum, old, new) ==
    NonZero(ReplaceWord(ReplaceWord(checksum, High(old), High(new)),
                        Low(old), Low(new)))

\* A client's stack takes the datagram.
Verifies(datagram, time) ==
    /\ datagram.checksum # 0
    /\ Fold(SumOf(datagram.others, time) + datagram.checksum) = AllOnes

-------------------------------------------------------------------------------
(* ntp_server_task and build_server_response. *)

\* software_receive_timestamp: only that the clock serves is used.
ReadClock == Read("clock", [reply EXCEPT !.pc = "quality"])

\* get_server_quality.
ReadQuality == Read("quality", [reply EXCEPT !.pc = "reference"])

\* Faulty variant: the transmit time is read first.
ReadReferenceLast ==
    \/ Read("reference",
            [reply EXCEPT !.pc = "transmit", !.transmit = NtpTimestamp])
    \/ Read("transmit",
            [reply EXCEPT !.pc = "built", !.reference = ReferenceTimestamp,
                          !.turnaround = reply.age])

ReadReference ==
    /\ reference_valid
    /\ Read("reference",
            [reply EXCEPT !.pc = "transmit", !.reference = ReferenceTimestamp])

\* The IP stack makes a datagram of the reply, with a checksum or without one.
\* The addresses are among its other words: not all of them are zero.
Datagram(length, others, time, summed) ==
    [length |-> length, others |-> others, summed |-> summed,
     checksum |-> IF summed THEN ChecksumOf(others, time) ELSE 0]

\* An NTS reply is longer than a plain one by what nts_ntp_auth_protect_response
\* appends to it.
ReadTransmit ==
    \E length \in {PlainLength, SealedLength}, others \in Word \ {0},
       summed \in BOOLEAN :
        Read("transmit",
             [reply EXCEPT
                !.pc = "built", !.transmit = NtpTimestamp, !.turnaround = reply.age,
                !.datagram = Datagram(length, others, NtpTimestamp, summed)])

\* A malformed or refused request, a clock that does not serve or cannot be
\* locked, an unmapped timestamp, a failed send.
Drop ==
    /\ Busy
    /\ reply.pc # "sent"
    /\ reply' = NoReply
    /\ UNCHANGED vars

-------------------------------------------------------------------------------
(* eth_ntp_tx_probe_transmit. *)

\* eth_frame_prepare_ntp_late_stamp.  Its other tests hold of every reply that
\* is composed here: from port 123, mode 4, a stratum other than 0, and no
\* fragment, as s_response_buffer holds less than a frame does.
Qualified == reply.datagram.length = PlainLength /\ reply.datagram.checksum # 0

\* The reply leaves as it was composed: not qualified, or the clock does not
\* serve any more or cannot be locked.
SendComposed ==
    /\ reply.pc = "built"
    /\ reply' = [reply EXCEPT !.pc = "sent"]
    /\ UNCHANGED vars

SendStamped ==
    /\ reply.pc = "built"
    /\ Qualified
    /\ Read("built",
            [reply EXCEPT !.pc = "sent", !.transmit = NtpTimestamp,
                          !.turnaround = reply.age,
                          !.datagram.checksum =
                              Restamped(@, reply.transmit, NtpTimestamp)])

Finish ==
    /\ reply.pc = "sent"
    /\ reply' = NoReply
    /\ UNCHANGED vars

ReplyNext ==
    \/ ReplyAdvance
    \/ \E sample \in Samples : ReplySample(sample)
    \/ ReplyPolicy
    \/ \E age \in 0 .. ReplyTime : Take(age)
    \/ ReadBefore \/ ReadPtp \/ ReadAfter
    \/ ReadClock \/ ReadQuality \/ ReadReference \/ ReadTransmit
    \/ Drop
    \/ SendComposed \/ SendStamped
    \/ Finish

ReplySpec == ReplyInit /\ [][ReplyNext]_replyVars

-------------------------------------------------------------------------------
(* Properties of a reply that leaves. *)

\* The Reference Timestamp of a reply is not later than its Transmit Timestamp,
\* although they are read apart, the second perhaps after a sample that moved
\* the clock back, and once more on the way out (ntp_server.c:446,
\* eth_service.c:477).
ReferenceInOrder == reply.pc = "sent" => reply.reference <= reply.transmit

\* What a client subtracts as the server's share of the round trip is the time
\* its request really spent here, to within the largest error the clock accepts
\* and the bracket of the mapping, unless a rejected sample moved the clock
\* meanwhile: three reads for one end and two for the other may straddle a
\* sample (eth_service.c:1323, ntp_server.c:446).
TurnaroundKept ==
    reply.pc = "sent" /\ ~reply.moved =>
        LET error == (reply.transmit - reply.receive) - reply.turnaround
        IN  error \in -(AcceptableError + MaxBracket)
                      .. AcceptableError + MaxBracket

\* A reply that had a checksum when it was handed to the transmit path leaves
\* with one that the client's stack finds right, whatever the old and the new
\* time are, and one that had none leaves without: carries of the words replaced
\* are added back, and a checksum that comes out as zero is not taken for none
\* (eth_service.c:190, eth_service.c:225).
ChecksumKept ==
    reply.pc = "sent" =>
        IF reply.datagram.summed THEN Verifies(reply.datagram, reply.transmit)
        ELSE reply.datagram.checksum = 0
===============================================================================
