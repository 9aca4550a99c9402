--------------------------- MODULE PacketTransfer ---------------------------
(***************************************************************************)
(* One packet of a request on its way from the Victor to the Pico, byte by *)
(* byte, and the status that answers it: send_command_packet and           *)
(* send_data_packet against receive_command_packet and                     *)
(* receive_data_packet.                                                    *)
(*                                                                         *)
(* sendBytes waits for DATA_TAKEN after each byte of the header and after  *)
(* the CRC, for a bounded time; nobody looks at the TIMEOUT it returns.    *)
(* burstBytes sends what lies between without waiting at all.  The Pico    *)
(* may be as slow as it likes.                                             *)
(***************************************************************************)
EXTENDS UserPort, Functions

CONSTANT MaxBurst   \* bound: bytes of parameters or data
ASSUME BurstAssumption == MaxBurst \in Nat

VARIABLES
    header,   \* bytes sent one by one: 4 of a command packet, 2 of a data packet
    burst,    \* bytes sent in a burst: the parameters, or the data
    vpc,      \* "write", "poll", "status" or "done"
    sent,     \* the byte of the packet the Victor is at, or past
    acked,    \* the bytes sendBytes saw DATA_TAKEN for
    ppc,      \* "receive" or "answered"
    taken     \* what the Pico has received, in order

packet == <<header, burst>>
vars == <<port, packet, vpc, sent, acked, ppc, taken>>

\* Byte k of the packet is represented by k; the last is the CRC.
Size == header + burst + 1
Polled(k) == k <= header \/ k = Size
StatusByte == 0
MaxSize == MaxBurst + 5
Byte == 0 .. MaxSize

AfterWrite(k) == IF Polled(k) THEN "poll" ELSE "write"

Write ==
    /\ vpc = "write"
    /\ sent < Size
    /\ WriteByte(sent + 1)
    /\ sent' = sent + 1
    /\ vpc' = AfterWrite(sent + 1)
    /\ UNCHANGED <<packet, acked, ppc, taken>>

\* After the CRC the Victor turns to receive_response_status.
AfterPoll == IF sent = Size THEN "status" ELSE "write"

Acknowledged ==
    /\ vpc = "poll"
    /\ cb1
    /\ acked' = acked \cup {sent}
    /\ vpc' = AfterPoll
    /\ UNCHANGED <<port, packet, sent, ppc, taken>>

\* sendBytes returns at the first byte that times out, and send_uint16_t hands it
\* both bytes of the size: without the first the second is never written.
Abandoned(k) == IF k = header - 1 THEN 1 ELSE 0

\* MAX_POLLING_ITERATIONS are over.
PollTimeout ==
    /\ vpc = "poll"
    /\ ~cb1
    /\ sent' = sent + Abandoned(sent)
    /\ vpc' = AfterPoll
    /\ UNCHANGED <<port, packet, acked, ppc, taken>>

\* receiveBytes has no time limit.
ReadStatus ==
    /\ vpc = "status"
    /\ ReadByte
    /\ vpc' = "done"
    /\ UNCHANGED <<packet, sent, acked, ppc, taken>>

Receive ==
    /\ ppc = "receive"
    /\ Len(taken) < Size
    /\ GetByte
    /\ taken' = Append(taken, Head(rx))
    /\ UNCHANGED <<packet, vpc, sent, acked, ppc>>

\* The packet is in; whatever the CRC says, a status goes out.
Answer ==
    /\ ppc = "receive"
    /\ Len(taken) = Size
    /\ PutByte(StatusByte)
    /\ ppc' = "answered"
    /\ UNCHANGED <<packet, vpc, sent, acked, taken>>

Init ==
    /\ Idle
    /\ running = TRUE
    /\ header \in {2, 4}
    /\ burst \in 0 .. MaxBurst
    /\ vpc = "write"
    /\ sent = 0
    /\ acked = {}
    /\ ppc = "receive"
    /\ taken = <<>>

Victor == Write \/ Acknowledged \/ PollTimeout \/ ReadStatus
Pico == Receive \/ Answer
Next == Victor \/ Pico

Spec == Init /\ [][Next]_vars
FairSpec == Spec /\ WF_vars(Victor) /\ WF_vars(Pico)

-----------------------------------------------------------------------------
TypeOK ==
    /\ PortTypeOK(Byte)
    /\ header \in {2, 4} /\ burst \in 0 .. MaxBurst
    /\ vpc \in {"write", "poll", "status", "done"}
    /\ ppc \in {"receive", "answered"}
    /\ sent \in 0 .. Size
    /\ acked \in SUBSET (1 .. Size)
    /\ taken \in Seq(Byte) /\ Len(taken) <= Size

\* The FIFO and the stalled push together have room for FifoDepth + 1 bytes.
Fits == Size <= FifoDepth + 1

InFlight == taken \o rx \o held

\* Of a packet that fits, every byte written arrives, once and in order,
\* however slow the Pico and however often sendBytes gives up waiting
\* (sendBytes and burstBytes against receive_fifo.pio).
NothingLost == Fits => InFlight = [k \in 1 .. sent |-> k]

\* Of a packet that does not fit bytes may be lost, but what arrives arrives in
\* order and only once: a late push is never overtaken.
InOrder == \A m, n \in DOMAIN InFlight : m < n => InFlight[m] < InFlight[n]

\* A packet that fits gets its answer: neither side waits for ever.
Answered == Fits => <>(vpc = "done")

\* When sendBytes has seen DATA_TAKEN for a byte of a packet that fits, that
\* byte is in the Pico's FIFO, or was.  Of a longer packet it may be lost all the
\* same: the DATA_TAKEN was the late one of a byte of the burst.
AckedIsTaken == \A k \in acked : k \in Range(taken \o rx)
AckMeansTaken == Fits => AckedIsTaken
=============================================================================
