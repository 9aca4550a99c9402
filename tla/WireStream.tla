----------------------------- MODULE WireStream -----------------------------
(***************************************************************************)
(* The request/response protocol on the line as it is: bytes without       *)
(* frames.  Each side finds the end of a packet by the size it reads in    *)
(* it, a status is a byte like any other, and nothing marks where a packet *)
(* begins.  UserPortProtocol has whole packets and says what holds while   *)
(* both sides agree where they are; here is what is left when they do not: *)
(* a byte may be damaged or lost, the heap of the Pico may be exhausted,   *)
(* and the Pico may be reset while the Victor is at work.                  *)
(*                                                                         *)
(* trouble keeps what there has been of it.  The properties say which      *)
(* promises survive which troubles.                                        *)
(*                                                                         *)
(* A call moves a run of SectorCount sectors, one of those that begin at   *)
(* the members of Sector.  A side reads a packet in one step, when all of  *)
(* it is there: while it waits for bytes it does nothing else.             *)
(***************************************************************************)
EXTENDS Crc8

CONSTANTS Sector,        \* where the runs begin: numbers of sectors
          SectorCount,   \* sectors of a run
          SECTOR_SIZE,   \* bytes of a sector: 512 in the code, that is 2 * SizeBase
          Value,         \* contents of a run
          Media, Unit,   \* the media byte and the unit of every request
          Heap,          \* what may lie behind a buffer of the Pico
          Noise,         \* what a damaged byte can become
          MaxAttempts,   \* attempts to send a payload: 9 in the code
          MaxCalls,      \* bound: requests of DOS
          MaxTroubles,   \* bound: packets damaged, failing mallocs, resets
          HeapRoom       \* payloads that can leak before a malloc may fail

DataSize == SectorCount * SECTOR_SIZE
PARAMS_SIZE == 6

\* Two digits hold the size of a run, one the size of the parameters.
ASSUME SizeAssumption ==
    /\ SizeBase > PARAMS_SIZE
    /\ SectorCount \in Nat \ {0} /\ SectorCount < 65536 /\ SECTOR_SIZE \in Nat \ {0}
    /\ DataSize < 256 * SizeBase
ASSUME BytesAssumption ==
    /\ \A s \in Sector : s \in Nat /\ s < 65536
    /\ Noise \subseteq Byte /\ Media \in Byte /\ Unit \in Byte
ASSUME ContentsAssumption == \A v \in Value : v \in Seq(Byte) /\ Len(v) = DataSize
ASSUME HeapAssumption ==
    Heap # {} /\ \A h \in Heap : h \in Seq(Byte) /\ Len(h) >= DataSize + PARAMS_SIZE
ASSUME BoundsAssumption ==
    /\ MaxAttempts \in Nat \ {0}
    /\ MaxCalls \in Nat /\ MaxTroubles \in Nat /\ HeapRoom \in Nat

\* protocols.h and device.h
SD_BLOCK_DEVICE == 2
HANDSHAKE == 15
READ_BLOCK == 4
WRITE_NO_VERIFY == 8
WRITE_VERIFY == 9
STATUS_OK == 0
INVALID_CRC == 7
MEMORY_ALLOCATION_ERROR == 10
STARTUP_HANDSHAKE == 15
HANDSHAKE_RESPONSE == 14

VARIABLES
    toPico, toVictor,   \* the bytes under way
    vpc,                \* where the driver waits
    call,               \* the request of DOS
    attempt,
    outcome,            \* what the last call returned: "none", "DONE", "ERROR"
    buffer,             \* where receive_response puts the data of a read
    ppc,                \* where the firmware waits
    payload,            \* the request the Pico has read so far
    response,           \* the data of its answer
    leaked,             \* payloads execute_sd_block_command has left allocated
    disk,
    calls, trouble,                \* history: calls, and the kinds of trouble in order
    before, executions             \* history: the disk at the call, dispatches since

line   == <<toPico, toVictor>>
victor == <<vpc, call, attempt, outcome, buffer, calls, before>>
pico   == <<ppc, payload, response, leaked, disk, executions>>
vars   == <<line, victor, pico, trouble>>

Read(s)     == [command |-> READ_BLOCK, sector |-> s, data |-> <<0>>]
Write(s, v) == [command |-> WRITE_NO_VERIFY, sector |-> s, data |-> v]
NoCall == [command |-> 0, sector |-> 0, data |-> <<>>]
Calls == { Read(s) : s \in Sector } \cup { Write(s, v) : s \in Sector, v \in Value }

\* ReadParams and WriteParams, packed, low byte first.
Params(s) == <<Media, SectorCount % 256, SectorCount \div 256, s % 256, s \div 256, Unit>>

-----------------------------------------------------------------------------
(* Packets as bytes, and what can happen to them *)

CommandBytes(p, c, params) ==
    <<p, c>> \o SizeBytes(Len(params)) \o params \o <<CommandCrc(p, c, params)>>
DataBytes(data) == SizeBytes(Len(data)) \o data \o <<DataCrc(data)>>

Lost == 256

\* What is sent: the two parts of a request ("request", "data"), those of a response
\* ("header", "answer"), a status, and the Pico's status of the data ("receipt").
\*
\* What kind of trouble it is that byte k of it, which was w, turns into b or is Lost.
\* "content" is what the CRC is for.  After "short" the receiver waits for more than there
\* is; a size damaged or lost ("framing") may also have it stop too early.  A first byte
\* that turns into a handshake is skipped: as good as lost.  The size in a header is zero,
\* and can only grow.
RequestKind(k, b) == IF k \in {3, 4} THEN "framing"
                     ELSE IF b = Lost \/ (k = 1 /\ b = HANDSHAKE) THEN "short" ELSE "content"
HeaderKind(k, b)  == IF k \in {3, 4} \/ b = Lost THEN "short" ELSE "content"
DataKind(k, b)    == IF k \in {1, 2} THEN "framing" ELSE IF b = Lost THEN "short" ELSE "content"

\* STATUS_OK is taken for a refusal ("status"), or a refusal for STATUS_OK ("verdict").
\* When the Victor has not heard that its data were taken, what it sends next does not
\* fit to what the Pico does.
StatusKind(b)     == IF b = Lost THEN "short" ELSE IF b = STATUS_OK THEN "verdict" ELSE "status"
ReceiptKind(w, b) == IF w = STATUS_OK THEN "verdict" ELSE StatusKind(b)

Kind(what, k, w, b) ==
    CASE what = "request" -> RequestKind(k, b)
      [] what = "header"  -> HeaderKind(k, b)
      [] what \in {"data", "answer"} -> DataKind(k, b)
      [] what = "status"  -> StatusKind(b)
      [] what = "receipt" -> ReceiptKind(w, b)

\* When the Victor's sendBytes times out at the first byte of a size, it does not write
\* the second; any other byte is lost alone.
Gap(what, k) == IF (what = "request" /\ k = 3) \/ (what = "data" /\ k = 1) THEN 2 ELSE 1

Strike(kinds) ==
    /\ Len(trouble) + Len(kinds) <= MaxTroubles
    /\ trouble' = trouble \o kinds

\* The bytes arrive, or one of them is damaged, or some are lost.
Without(bytes, k, n) == SubSeq(bytes, 1, k - 1) \o SubSeq(bytes, k + n, Len(bytes))
Deliveries(bytes, what) ==
    { [got |-> bytes, struck |-> <<>>] }
    \cup (UNION { { [got |-> [bytes EXCEPT ![k] = b], struck |-> <<Kind(what, k, bytes[k], b)>>]
                      : b \in Noise \ {bytes[k]} } : k \in DOMAIN bytes })
    \cup { [got |-> Without(bytes, k, Gap(what, k)), struck |-> <<Kind(what, k, bytes[k], Lost)>>]
            : k \in DOMAIN bytes }

\* after is the queue after bytes have been sent into it.
Arrives(queue, bytes, what, after) ==
    \E d \in Deliveries(bytes, what) : Strike(d.struck) /\ after = queue \o d.got

\* A packet in queue q with its size at position k: whether all of it is there,
\* what it carries, and where its CRC is.
SizeOf(q, k)   == SizeBase * q[k] + q[k + 1]
Complete(q, k) == Len(q) > k /\ Len(q) >= k + 2 + SizeOf(q, k)
Body(q, k)     == SubSeq(q, k + 2, k + 1 + SizeOf(q, k))
CrcAt(q, k)    == k + 2 + SizeOf(q, k)
After(q, n)    == SubSeq(q, n + 1, Len(q))

-----------------------------------------------------------------------------
(* The driver *)

SendCommand(rest, c) ==
    /\ toVictor' = rest
    /\ Arrives(toPico, CommandBytes(SD_BLOCK_DEVICE, c.command, Params(c.sector)),
               "request", toPico')

DosCall ==
    /\ vpc = "idle"
    /\ calls < MaxCalls
    /\ \E c \in Calls : call' = c /\ SendCommand(toVictor, c)
    /\ calls' = calls + 1
    /\ attempt' = 1
    /\ before' = disk /\ executions' = 0
    /\ vpc' = "commandStatus"
    /\ outcome' = "none"
    /\ UNCHANGED <<buffer, ppc, payload, response, leaked, disk>>

Returned(o) == vpc' = "idle" /\ outcome' = o

AttemptsLeft_late_mutant == attempt <= MaxAttempts
AttemptsLeft == attempt < MaxAttempts

\* Any status but STATUS_OK starts the payload over, nine times.
Retry ==
    \/ /\ AttemptsLeft
       /\ attempt' = attempt + 1
       /\ SendCommand(Tail(toVictor), call)
       /\ vpc' = "commandStatus"
       /\ UNCHANGED outcome
    \/ /\ ~AttemptsLeft
       /\ Returned("ERROR")
       /\ toVictor' = Tail(toVictor)
       /\ UNCHANGED <<attempt, toPico, trouble>>

VictorCommandStatus ==
    /\ vpc = "commandStatus"
    /\ toVictor # <<>>
    /\ IF Head(toVictor) = STATUS_OK
       THEN /\ toVictor' = Tail(toVictor)
            /\ Arrives(toPico, DataBytes(call.data), "data", toPico')
            /\ vpc' = "dataStatus"
            /\ UNCHANGED <<attempt, outcome>>
       ELSE Retry
    /\ UNCHANGED <<call, buffer, calls, before, pico>>

VictorDataStatus ==
    /\ vpc = "dataStatus"
    /\ toVictor # <<>>
    /\ IF Head(toVictor) = STATUS_OK
       THEN /\ toVictor' = Tail(toVictor)
            /\ vpc' = "response"
            /\ UNCHANGED <<attempt, outcome, toPico, trouble>>
       ELSE Retry
    /\ UNCHANGED <<call, buffer, calls, before, pico>>

\* sendResponseStatus.  (The operators named ..._mutant are the bugs the properties
\* are tested with.)
Answer_good_only_mutant(rest, status) ==
    /\ toVictor' = rest
    /\ IF status = STATUS_OK THEN Arrives(toPico, <<status>>, "status", toPico')
       ELSE UNCHANGED <<toPico, trouble>>
Answer(rest, status) ==
    toVictor' = rest /\ Arrives(toPico, <<status>>, "status", toPico')

\* receive_response up to the status of the command part: the CRC is all it looks
\* at.
VictorResponse ==
    /\ vpc = "response"
    /\ Complete(toVictor, 3)
    /\ LET end  == CrcAt(toVictor, 3)
           good == ValidCommand(toVictor[1], toVictor[2], Body(toVictor, 3), toVictor[end])
       IN  /\ Answer(After(toVictor, end), IF good THEN STATUS_OK ELSE INVALID_CRC)
           /\ IF good THEN vpc' = "responseData" /\ UNCHANGED outcome
                      ELSE Returned("ERROR")
    /\ UNCHANGED <<call, attempt, buffer, calls, before, pico>>

Verdict_blind_mutant(good) == "DONE"
Verdict(good) == IF good THEN "DONE" ELSE "ERROR"

\* The data of a read go to the caller's buffer whatever the CRC says of them;
\* write_block has none for them.
Stored(data) == IF call.command = READ_BLOCK THEN data ELSE buffer

VictorResponseData ==
    /\ vpc = "responseData"
    /\ Complete(toVictor, 1)
    /\ LET end  == CrcAt(toVictor, 1)
           good == ValidData(Body(toVictor, 1), toVictor[end])
       IN  /\ buffer' = Stored(Body(toVictor, 1))
           /\ Answer(After(toVictor, end), IF good THEN STATUS_OK ELSE INVALID_CRC)
           /\ Returned(Verdict(good))
    /\ UNCHANGED <<call, attempt, calls, before, pico>>

\* receiveBytes has found what it waits for.
VictorCanRead ==
    \/ vpc \in {"commandStatus", "dataStatus"} /\ toVictor # <<>>
    \/ vpc = "response" /\ Complete(toVictor, 3)
    \/ vpc = "responseData" /\ Complete(toVictor, 1)

Victor == VictorCommandStatus \/ VictorDataStatus \/ VictorResponse \/ VictorResponseData

-----------------------------------------------------------------------------
(* The firmware *)

NoPayload == [protocol |-> 0, command |-> 0, params |-> <<>>, data |-> <<>>]

\* receive_command_packet reads over a handshake, and over two more.
Skipped(q) == CHOOSE n \in 0..3 :
    /\ \A k \in 1..n : k <= Len(q) /\ q[k] = HANDSHAKE
    /\ n < 3 => n = Len(q) \/ q[n + 1] # HANDSHAKE

PicoStatus(rest, status, what) ==
    toPico' = rest /\ Arrives(toVictor, <<status>>, what, toVictor')

PicoCommand ==
    /\ ppc = "command"
    /\ LET q == After(toPico, Skipped(toPico))
       IN  /\ Complete(q, 3)
           /\ LET end  == CrcAt(q, 3)
                  good == ValidCommand(q[1], q[2], Body(q, 3), q[end])
              IN  /\ PicoStatus(After(q, end), IF good THEN STATUS_OK ELSE INVALID_CRC, "status")
                  /\ ppc' = IF good THEN "data" ELSE "command"
                  /\ payload' = IF good THEN [NoPayload EXCEPT !.protocol = q[1], !.command = q[2],
                                                               !.params = Body(q, 3)]
                                        ELSE NoPayload
    /\ UNCHANGED <<response, leaked, disk, executions, victor>>

PicoData ==
    /\ ppc = "data"
    /\ Complete(toPico, 1)
    /\ LET end  == CrcAt(toPico, 1)
           good == ValidData(Body(toPico, 1), toPico[end])
       IN  /\ PicoStatus(After(toPico, end), IF good THEN STATUS_OK ELSE INVALID_CRC,
                         "receipt")
           /\ ppc' = IF good THEN "dispatch" ELSE "command"
           /\ payload' = IF good THEN [payload EXCEPT !.data = Body(toPico, 1)] ELSE NoPayload
    /\ UNCHANGED <<response, leaked, disk, executions, victor>>

\* Each SD command leaves one Payload allocated: its answer takes the place of the
\* one execute_sd_block_command has made.
MallocMayFail == leaked >= HeapRoom

\* A buffer for parameters or data is refused: the Pico says so and goes back to the
\* next command, with the rest of the packet still to come.
NoBuffer ==
    /\ MallocMayFail
    /\ \/ /\ ppc = "command"
          /\ LET q == After(toPico, Skipped(toPico))
             IN  Len(q) >= 4 /\ toPico' = After(q, 4)
       \/ /\ ppc = "data"
          /\ Len(toPico) >= 2 /\ toPico' = After(toPico, 2)
    /\ toVictor' = Append(toVictor, MEMORY_ALLOCATION_ERROR)
    /\ Strike(<<"framing">>)
    /\ ppc' = "command" /\ payload' = NoPayload
    /\ UNCHANGED <<response, leaked, disk, executions, victor>>

\* No room for the next Payload: process_incoming_commands returns, and main with
\* it.
NoPayloadMemory ==
    /\ MallocMayFail
    /\ ppc = "command"
    /\ Strike(<<"memory">>)
    /\ ppc' = "stopped"
    /\ UNCHANGED <<line, payload, response, leaked, disk, executions, victor>>

IsRead(p)  == p.protocol = SD_BLOCK_DEVICE /\ p.command = READ_BLOCK
IsWrite(p) == p.protocol = SD_BLOCK_DEVICE /\ p.command \in {WRITE_NO_VERIFY, WRITE_VERIFY}

\* The first n bytes of a buffer.  Neither the size of the parameters nor that of the
\* data is looked at: what is missing is what the heap h has behind the buffer.
Behind(bytes, n, h) == SubSeq(bytes \o h, 1, n)

\* The run a request with these parameters goes to.  When they are those of no call of
\* DOS it may be any, or another part of the image, and on another unit always is.
Nowhere == 65536
Reached(params) ==
    IF \E s \in Sector : params = Params(s) THEN { s \in Sector : params = Params(s) }
    ELSE IF params[PARAMS_SIZE] = Unit THEN Sector \cup {Nowhere} ELSE {Nowhere}

\* The data of what dispatch_command answers: a run, nothing beyond the image's end; a
\* zero for a write; nothing in an error response.
ResponseTo(p, s) ==
    CASE IsRead(p) -> IF s \in Sector THEN disk[s] ELSE <<>>
      [] IsWrite(p) -> <<0>>
      [] ~IsRead(p) /\ ~IsWrite(p) -> <<>>

\* What sd_write leaves in the image.
Applied(p, s, h) ==
    IF IsWrite(p) /\ s \in Sector
    THEN [disk EXCEPT ![s] = Behind(p.data, DataSize, h)] ELSE disk

PicoDispatch ==
    /\ ppc = "dispatch"
    /\ \E h \in Heap : \E s \in Reached(Behind(payload.params, PARAMS_SIZE, h)) :
          response' = ResponseTo(payload, s) /\ disk' = Applied(payload, s, h)
    /\ leaked' = leaked + 1
    /\ executions' = executions + 1
    /\ Arrives(toVictor, CommandBytes(payload.protocol, payload.command, <<>>),
               "header", toVictor')
    /\ ppc' = "ackCommand"
    /\ UNCHANGED <<toPico, payload, victor>>

\* No room for the Payload that leaks or for a part of the answer, and NULL is used: the
\* last malloc of sd_write comes when the sectors are written.
NoAnswerMemory ==
    /\ MallocMayFail
    /\ ppc = "dispatch"
    /\ \/ UNCHANGED <<disk, executions>>
       \/ /\ \E h \in Heap : \E s \in Reached(Behind(payload.params, PARAMS_SIZE, h)) :
                disk' = Applied(payload, s, h)
          /\ executions' = executions + 1
    /\ Strike(<<"null">>)
    /\ ppc' = "stopped"
    /\ UNCHANGED <<line, payload, response, leaked, victor>>

\* A unit that is not there: the pointer to its image is NULL or was never set.
NoSuchUnit ==
    /\ ppc = "dispatch"
    /\ IsRead(payload) \/ IsWrite(payload)
    /\ \E h \in Heap : Behind(payload.params, PARAMS_SIZE, h)[PARAMS_SIZE] # Unit
    /\ ppc' = "stopped"
    /\ UNCHANGED <<line, payload, response, leaked, disk, executions, victor, trouble>>

\* Where transmit_response leads when the Victor refuses the command part.
AfterRefusal_again_mutant == "dispatch"
AfterRefusal == "command"

PicoAckCommand ==
    /\ ppc = "ackCommand"
    /\ toPico # <<>>
    /\ toPico' = Tail(toPico)
    /\ IF Head(toPico) = STATUS_OK
       THEN /\ Arrives(toVictor, DataBytes(response), "answer", toVictor')
            /\ ppc' = "ackData"
            /\ UNCHANGED <<payload, response>>
       ELSE /\ ppc' = AfterRefusal
            /\ payload' = NoPayload /\ response' = <<>>
            /\ UNCHANGED <<toVictor, trouble>>
    /\ UNCHANGED <<leaked, disk, executions, victor>>

PicoAckData ==
    /\ ppc = "ackData"
    /\ toPico # <<>>
    /\ toPico' = Tail(toPico)
    /\ ppc' = "command"
    /\ payload' = NoPayload /\ response' = <<>>
    /\ UNCHANGED <<toVictor, trouble, leaked, disk, executions, victor>>

IsHandshake_any_mutant(b) == TRUE
IsHandshake(b) == b = STARTUP_HANDSHAKE

\* wait_for_startup_handshake
PicoHandshake ==
    /\ ppc = "handshake"
    /\ toPico # <<>>
    /\ IF IsHandshake(Head(toPico))
       THEN ppc' = "command" /\ PicoStatus(Tail(toPico), HANDSHAKE_RESPONSE, "status")
       ELSE /\ toPico' = Tail(toPico)
            /\ UNCHANGED <<ppc, toVictor, trouble>>
    /\ UNCHANGED <<payload, response, leaked, disk, executions, victor>>

\* The firmware starts anew.  What it had not read is gone up to some byte, what
\* the Victor had not read from some byte on.
PicoResets ==
    /\ Strike(<<"reset">>)
    /\ \E n \in 0..Len(toPico) : toPico' = After(toPico, n)
    /\ \E n \in 0..Len(toVictor) : toVictor' = SubSeq(toVictor, 1, n)
    /\ ppc' = "handshake"
    /\ payload' = NoPayload /\ response' = <<>>
    /\ leaked' = 0
    /\ UNCHANGED <<disk, executions, victor>>

\* A burst from the FIFO can be read to its end, or there is a request to execute.
PicoCanRead ==
    \/ ppc = "command" /\ Complete(After(toPico, Skipped(toPico)), 3)
    \/ ppc = "data" /\ Complete(toPico, 1)
    \/ ppc = "dispatch"
    \/ ppc \in {"ackCommand", "ackData", "handshake"} /\ toPico # <<>>

Firmware == \/ PicoCommand \/ PicoData \/ PicoDispatch \/ PicoAckCommand \/ PicoAckData
            \/ PicoHandshake
Failures == NoBuffer \/ NoPayloadMemory \/ NoAnswerMemory \/ NoSuchUnit \/ PicoResets

Init ==
    /\ toPico = <<>> /\ toVictor = <<>>
    /\ vpc = "idle" /\ call = NoCall /\ attempt = 1 /\ outcome = "none" /\ buffer = <<>>
    /\ ppc = "command" /\ payload = NoPayload /\ response = <<>> /\ leaked = 0
    /\ disk \in [Sector -> Value]
    /\ calls = 0 /\ trouble = <<>> /\ before = disk /\ executions = 0

Next == DosCall \/ Victor \/ Firmware \/ Failures

Spec == Init /\ [][Next]_vars

-----------------------------------------------------------------------------
(* Properties *)

Kinds == {"content", "short", "status", "memory", "framing", "verdict", "null", "reset"}
Payloads == [protocol : Byte, command : Byte, params : Seq(Byte), data : Seq(Byte)]

TypeOK ==
    /\ toPico \in Seq(Byte) /\ toVictor \in Seq(Byte)
    /\ vpc \in {"idle", "commandStatus", "dataStatus", "response", "responseData"}
    /\ call \in Calls \cup {NoCall}
    /\ attempt \in 1..MaxAttempts
    /\ outcome \in {"none", "DONE", "ERROR"}
    /\ buffer \in Seq(Byte)
    /\ ppc \in {"command", "data", "dispatch", "ackCommand", "ackData", "handshake", "stopped"}
    /\ payload \in Payloads
    /\ response \in Seq(Byte)
    /\ leaked \in Nat
    /\ disk \in [Sector -> Seq(Byte)] /\ before \in [Sector -> Seq(Byte)]
    /\ calls \in 0..MaxCalls /\ executions \in Nat
    /\ trouble \in Seq(Kinds) /\ Len(trouble) <= MaxTroubles

\* The troubles the protocol is made for: bytes under a CRC damaged, one of a packet, in
\* as many packets as there are.
OnlyContent == \A i \in DOMAIN trouble : trouble[i] = "content"

\* Damage to bytes that are under a CRC, one of each packet, never makes the two sides
\* wait for each other: until the call has returned, one of them has all it waits for
\* (receiveBytes, read_burst_from_pio_fifo).
ContentDamageIsHarmless == OnlyContent /\ vpc # "idle" => VictorCanRead \/ PicoCanRead

\* And the last of them may be one that leaves a side waiting for bytes that do not come,
\* now or in the next call, but has nobody take a byte for what it is not: a byte lost
\* that is of no size, a STATUS_OK that is taken for a refusal (but for that of the data),
\* a Pico that has no room for a next Payload.
Gentle == {"short", "status", "memory"}
Bearable == \A i \in DOMAIN trouble :
                trouble[i] = "content" \/ (i = Len(trouble) /\ trouble[i] \in Gentle)

\* Then no request is executed twice, whatever is sent again, now or in a later call
\* (send_command_payload, transmit_response).
NotTwice == Bearable => executions <= 1

\* Where the abstract block device is.
Phase == IF vpc = "idle" THEN IF outcome = "ERROR" THEN "failed" ELSE "returned"
         ELSE IF executions = 0 THEN "called" ELSE "applied"
DosOp == IF call.command = WRITE_NO_VERIFY
         THEN [kind |-> "write", sector |-> call.sector, val |-> call.data]
         ELSE [kind |-> "read", val |-> <<>>,
               sector |-> IF call = NoCall THEN CHOOSE s \in Sector : TRUE ELSE call.sector]
Fetched == IF executions > 0 /\ call.command = READ_BLOCK THEN before[call.sector] ELSE <<>>

Promise == INSTANCE BlockDevice WITH
    NoValue <- <<>>, Garbage <- Seq(Byte), op <- DosOp, phase <- Phase, answer <- Fetched

\* And DOS has its block device, over unframed bytes: a request takes effect once, whole,
\* between the call and its return, and a read that succeeds brings what was there then
\* (readBlock, write_block, send_command_payload, receive_response).
KeepsThePromise ==
    /\ Promise!Init
    /\ [][Bearable' => Promise!Next \/ UNCHANGED Promise!vars]_vars

\* A Pico that was reset answers nothing but a handshake, and the driver, once it
\* waits for an answer, waits on: nothing in either program gets it out
\* (wait_for_startup_handshake, receiveBytes).
Orphaned ==
    /\ ppc = "handshake" /\ STARTUP_HANDSHAKE \notin Range(toPico)
    /\ vpc # "idle" /\ ~VictorCanRead
OrphansWait == [][Orphaned => UNCHANGED <<victor, ppc>>]_vars

\* pico_communication.c:209 says of a payload whose CRCs are right, and that is then
\* dispatched, "Command payload received successfully".
ReceivedAsSent ==
    ppc = "dispatch" => /\ payload.params = Params(call.sector)
                        /\ payload.data = call.data
=============================================================================
