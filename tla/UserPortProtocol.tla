-------------------------- MODULE UserPortProtocol --------------------------
(***************************************************************************)
(* The request/response protocol between the DOS driver on the Victor 9000 *)
(* and the firmware on the Raspberry Pi Pico, at the level of its packets. *)
(*                                                                         *)
(* A request goes out as a command packet and a data packet, each answered *)
(* by one status byte; the driver starts over from the command packet when *)
(* a status is not OK, MaxAttempts times in all.  The Pico then runs the   *)
(* request against the SD card and sends the response as a command packet  *)
(* and a data packet, which the driver acknowledges the same way but never *)
(* asks for again.  In debug mode every DOS call first logs a line through *)
(* the same protocol and ignores the outcome.                              *)
(*                                                                         *)
(* Each direction of the user port is a lossless queue here (PacketTransfer*)
(* is about the bytes).  The line may garble the payload of a packet, and  *)
(* the CRC-8 shows it; it does not garble sizes or status bytes.  The SD   *)
(* card may refuse a seek, a read or a write.                              *)
(***************************************************************************)
EXTENDS Naturals, Sequences

CONSTANTS Sector,         \* logical addresses of a unit
          Value,          \* contents DOS writes
          Garbage,        \* contents of a garbled packet or a torn write
          MaxAttempts,    \* bound of the loop in send_command_payload
          Debug,          \* the driver was loaded with /D
          MaxGarbled,     \* bound: packets the line garbles
          MaxSdFailures   \* bound: requests the SD card refuses

ASSUME SectorAssumption == Sector # {}
ASSUME AttemptsAssumption == MaxAttempts \in Nat \ {0}
ASSUME BoundsAssumption == MaxGarbled \in Nat /\ MaxSdFailures \in Nat
ASSUME DebugAssumption == Debug \in BOOLEAN

VARIABLES
    \* the Victor: template.c, logpico.c and v9_communication.c
    vpc,        \* where the driver is
    dosOp,      \* the DOS request in progress, or the last one
    logging,    \* the payload being exchanged is the log line, not dosOp
    attempt,    \* 1 + the loop index of send_command_payload
    result,     \* what the last DOS call returned
    buffer,     \* the caller's transfer area
    \* the Pico: pico_communication.c, command_dispatch.c, sd_block_device.c
    ppc,        \* where process_incoming_commands is
    pReq,       \* the fields the accepted command packet brought
    pData,      \* the data the accepted data packet brought
    pResp,      \* the data of the response
    pNull,      \* the response is a NULL pointer
    disk,       \* the image file
    \* the line
    toPico, toVictor,
    \* bounds on the faults
    garbled, sdFailures,
    \* history
    effect,     \* what the disk has seen of dosOp: nothing, all, or a failure
    executions, \* how often the current payload was dispatched
    hits        \* packets of the current payload the line garbled

victorVars == <<vpc, dosOp, logging, attempt, result, buffer>>
picoVars   == <<ppc, pReq, pData, pResp, pNull, disk>>
line       == <<toPico, toVictor>>
history    == <<effect, executions, hits>>
vars == <<victorVars, picoVars, line, garbled, sdFailures, history>>

Contents == Value \cup {Garbage}

\* A one byte zero travels where a request or a response has no data; nobody
\* looks at it, so any contents may stand for it.
NoData == Garbage

ReadOp(s)     == [kind |-> "read",  sector |-> s, val |-> NoData]
WriteOp(s, v) == [kind |-> "write", sector |-> s, val |-> v]
Op == { ReadOp(s) : s \in Sector } \cup { WriteOp(s, v) : s \in Sector, v \in Value }

LogRequest == [kind |-> "log", sector |-> CHOOSE s \in Sector : TRUE, val |-> NoData]

\* The payload send_command_payload was handed.
Current == IF logging THEN LogRequest ELSE dosOp

-----------------------------------------------------------------------------
(* Packets.  good is what the CRC check will say of the packet. *)

CommandPacket(req, good) ==
    [part |-> "command", kind |-> req.kind, sector |-> req.sector, good |-> good]
DataPacket(val, good) ==
    [part |-> "data", val |-> IF good THEN val ELSE Garbage, good |-> good]
ResponseCommand(good) == [part |-> "response", good |-> good]
Status(code)          == [part |-> "status", code |-> code]

Commands  == [part : {"command"}, kind : {"read", "write", "log"},
              sector : Sector, good : BOOLEAN]
Datas     == [part : {"data"}, val : Contents, good : BOOLEAN]
Responses == [part : {"response"}, good : BOOLEAN]
Statuses  == [part : {"status"}, code : {"OK", "INVALID_CRC"}]

\* The next thing to read from a queue is a packet of that part.
Waiting(queue, part) == queue # <<>> /\ Head(queue).part = part

\* (The operators named ..._mutant are the bugs the properties are tested with.)
CrcStatus_mutant(packet) == "OK"
CrcStatus(packet) == IF packet.good THEN "OK" ELSE "INVALID_CRC"

\* The line delivers a packet intact, or garbles it while the bound allows.
LineDelivers(good) ==
    IF good THEN garbled' = garbled
            ELSE garbled < MaxGarbled /\ garbled' = garbled + 1
RequestDelivered(good) ==
    /\ LineDelivers(good)
    /\ hits' = IF good THEN hits ELSE hits + 1

-----------------------------------------------------------------------------
(* The Victor *)

\* DOS calls readBlock, writeNoVerify or writeVerify.
DosCall(op) ==
    /\ vpc = "idle"
    /\ vpc' = "ready"
    /\ dosOp' = op
    /\ logging' = Debug
    /\ result' = "pending"
    /\ effect' = "none"
    /\ UNCHANGED <<attempt, buffer, picoVars, line, garbled, sdFailures,
                   executions, hits>>

\* send_command_payload is entered: the first command packet goes out.
BeginPayload ==
    /\ vpc = "ready"
    /\ vpc' = "commandStatus"
    /\ attempt' = 1
    /\ executions' = 0
    /\ \E good \in BOOLEAN :
          /\ LineDelivers(good)
          /\ hits' = IF good THEN 0 ELSE 1
          /\ toPico' = Append(toPico, CommandPacket(Current, good))
    /\ UNCHANGED <<dosOp, logging, result, buffer, picoVars, toVictor,
                   sdFailures, effect>>

\* The exchange of one payload is over: after the log line the DOS request
\* follows whatever became of the line, after the DOS request DOS gets r_status.
EndPayload_mutant(outcome) ==
    /\ vpc' = "idle"
    /\ logging' = FALSE
    /\ result' = outcome
EndPayload(outcome) ==
    /\ vpc' = IF logging THEN "ready" ELSE "idle"
    /\ logging' = FALSE
    /\ result' = IF logging THEN result ELSE outcome

RetriesLeft_early_mutant == attempt + 1 < MaxAttempts
RetriesLeft_late_mutant == attempt <= MaxAttempts
RetriesLeft == attempt < MaxAttempts

\* A status other than OK: start over from the command packet, or give up.
RetryOrGiveUp ==
    \/ /\ RetriesLeft
       /\ attempt' = attempt + 1
       /\ vpc' = "commandStatus"
       /\ \E good \in BOOLEAN :
             /\ RequestDelivered(good)
             /\ toPico' = Append(toPico, CommandPacket(Current, good))
       /\ UNCHANGED <<logging, result>>
    \/ /\ ~RetriesLeft
       /\ EndPayload("S_ERROR")
       /\ UNCHANGED <<attempt, toPico, garbled, hits>>

\* send_command_packet reads its status, send_data_packet sends.
VictorCommandStatus ==
    /\ vpc = "commandStatus"
    /\ Waiting(toVictor, "status")
    /\ toVictor' = Tail(toVictor)
    /\ \/ /\ Head(toVictor).code = "OK"
          /\ vpc' = "dataStatus"
          /\ \E good \in BOOLEAN :
                /\ RequestDelivered(good)
                /\ toPico' = Append(toPico, DataPacket(Current.val, good))
          /\ UNCHANGED <<logging, attempt, result>>
       \/ /\ Head(toVictor).code # "OK"
          /\ RetryOrGiveUp
    /\ UNCHANGED <<dosOp, buffer, picoVars, sdFailures, effect, executions>>

\* send_data_packet reads its status; on OK receive_response is entered.
VictorDataStatus ==
    /\ vpc = "dataStatus"
    /\ Waiting(toVictor, "status")
    /\ toVictor' = Tail(toVictor)
    /\ \/ /\ Head(toVictor).code = "OK"
          /\ vpc' = "responseCommand"
          /\ UNCHANGED <<logging, attempt, result, toPico, garbled, hits>>
       \/ /\ Head(toVictor).code # "OK"
          /\ RetryOrGiveUp
    /\ UNCHANGED <<dosOp, buffer, picoVars, sdFailures, effect, executions>>

\* receive_response answers the command part; a bad one ends the exchange.
VictorResponseCommand ==
    /\ vpc = "responseCommand"
    /\ Waiting(toVictor, "response")
    /\ toVictor' = Tail(toVictor)
    /\ toPico' = Append(toPico, Status(CrcStatus(Head(toVictor))))
    /\ \/ /\ CrcStatus(Head(toVictor)) = "OK"
          /\ vpc' = "responseData"
          /\ UNCHANGED <<logging, result>>
       \/ /\ CrcStatus(Head(toVictor)) # "OK"
          /\ EndPayload("S_ERROR")
    /\ UNCHANGED <<dosOp, attempt, buffer, picoVars, garbled, sdFailures, history>>

\* The data part of a read lands in the caller's buffer before it is checked.
VictorResponseData ==
    /\ vpc = "responseData"
    /\ Waiting(toVictor, "data")
    /\ toVictor' = Tail(toVictor)
    /\ toPico' = Append(toPico, Status(CrcStatus(Head(toVictor))))
    /\ buffer' = IF Current.kind = "read" THEN Head(toVictor).val ELSE buffer
    /\ EndPayload(IF CrcStatus(Head(toVictor)) = "OK" THEN "S_DONE" ELSE "S_ERROR")
    /\ UNCHANGED <<dosOp, attempt, picoVars, garbled, sdFailures, history>>

-----------------------------------------------------------------------------
(* The Pico *)

\* receive_command_packet
PicoReceiveCommand ==
    /\ ppc = "receiveCommand"
    /\ Waiting(toPico, "command")
    /\ toPico' = Tail(toPico)
    /\ toVictor' = Append(toVictor, Status(CrcStatus(Head(toPico))))
    /\ \/ /\ CrcStatus(Head(toPico)) = "OK"
          /\ pReq' = [kind |-> Head(toPico).kind, sector |-> Head(toPico).sector]
          /\ ppc' = "receiveData"
       \/ /\ CrcStatus(Head(toPico)) # "OK"
          /\ UNCHANGED <<pReq, ppc>>
    /\ UNCHANGED <<victorVars, pData, pResp, pNull, disk, garbled, sdFailures, history>>

\* Where process_incoming_commands goes after a data packet.
AfterDataPacket_mutant(good) == IF good THEN "dispatch" ELSE "receiveData"
AfterDataPacket(good) == IF good THEN "dispatch" ELSE "receiveCommand"

\* receive_data_packet
PicoReceiveData ==
    /\ ppc = "receiveData"
    /\ Waiting(toPico, "data")
    /\ toPico' = Tail(toPico)
    /\ toVictor' = Append(toVictor, Status(CrcStatus(Head(toPico))))
    /\ pData' = Head(toPico).val
    /\ ppc' = AfterDataPacket(CrcStatus(Head(toPico)) = "OK")
    /\ UNCHANGED <<victorVars, pReq, pResp, pNull, disk, garbled, sdFailures, history>>

\* dispatch_command runs the request: sd_read, sd_write or log_output.
PicoDispatch ==
    /\ ppc = "dispatch"
    /\ ppc' = "transmit"
    /\ pNull' = FALSE
    /\ pResp' = IF pReq.kind = "read" THEN disk[pReq.sector] ELSE NoData
    /\ disk' = IF pReq.kind = "write" THEN [disk EXCEPT ![pReq.sector] = pData] ELSE disk
    /\ executions' = executions + 1
    /\ effect' = IF pReq.kind = "log" THEN effect ELSE "applied"
    /\ UNCHANGED <<victorVars, pReq, pData, line, garbled, sdFailures, hits>>

\* A seek, a read or a write fails: sd_read and sd_write return NULL, and
\* transmit_response dereferences it.  Address 0 is the boot ROM: either the
\* CPU faults, or it sends out what the ROM holds, whose CRC does not match.
PicoDispatchFails ==
    /\ ppc = "dispatch"
    /\ pReq.kind # "log"
    /\ sdFailures < MaxSdFailures
    /\ sdFailures' = sdFailures + 1
    /\ ppc' \in {"transmit", "halted"}
    /\ pNull' = TRUE
    /\ \/ UNCHANGED disk
       \/ /\ pReq.kind = "write"
          /\ \E c \in {pData, Garbage} : disk' = [disk EXCEPT ![pReq.sector] = c]
    /\ executions' = executions + 1
    /\ effect' = "spoiled"
    /\ UNCHANGED <<victorVars, pReq, pData, pResp, line, garbled, hits>>

\* transmit_response up to its first wait
PicoTransmitCommand ==
    /\ ppc = "transmit"
    /\ ppc' = "commandAck"
    /\ \E good \in BOOLEAN :
          /\ pNull => ~good
          /\ IF pNull THEN UNCHANGED garbled ELSE LineDelivers(good)
          /\ toVictor' = Append(toVictor, ResponseCommand(good))
    /\ UNCHANGED <<victorVars, pReq, pData, pResp, pNull, disk, toPico, sdFailures, history>>

AfterBadAck_mutant == {"dispatch"}
AfterBadAck == {"receiveCommand"} \cup (IF pNull THEN {"halted"} ELSE {})

\* transmit_response reads the first status.  On an error it returns without
\* the data part, and process_incoming_commands frees what the response points
\* to, which a NULL response may not survive.
PicoCommandAck ==
    /\ ppc = "commandAck"
    /\ Waiting(toPico, "status")
    /\ toPico' = Tail(toPico)
    /\ \/ /\ Head(toPico).code = "OK"
          /\ ppc' = "dataAck"
          /\ \E good \in BOOLEAN :
                /\ LineDelivers(good)
                /\ toVictor' = Append(toVictor, DataPacket(pResp, good))
       \/ /\ Head(toPico).code # "OK"
          /\ ppc' \in AfterBadAck
          /\ UNCHANGED <<toVictor, garbled>>
    /\ UNCHANGED <<victorVars, pReq, pData, pResp, pNull, disk, sdFailures, history>>

\* transmit_response reads the second status; whatever it is, the Pico goes
\* back for the next command.
PicoDataAck ==
    /\ ppc = "dataAck"
    /\ Waiting(toPico, "status")
    /\ toPico' = Tail(toPico)
    /\ ppc' = "receiveCommand"
    /\ UNCHANGED <<victorVars, pReq, pData, pResp, pNull, disk, toVictor,
                   garbled, sdFailures, history>>

-----------------------------------------------------------------------------
(* The state after the startup handshake: no DOS call yet, the image as found. *)
Init ==
    /\ vpc = "idle"
    /\ dosOp \in Op
    /\ logging = FALSE
    /\ attempt = 1
    /\ result = "none"
    /\ buffer = Garbage
    /\ ppc = "receiveCommand"
    /\ pReq \in [kind : {"read"}, sector : Sector]
    /\ pData = NoData
    /\ pResp = NoData
    /\ pNull = FALSE
    /\ disk \in [Sector -> Value]
    /\ toPico = <<>>
    /\ toVictor = <<>>
    /\ garbled = 0
    /\ sdFailures = 0
    /\ effect = "none"
    /\ executions = 0
    /\ hits = 0

Victor == \/ BeginPayload
          \/ VictorCommandStatus
          \/ VictorDataStatus
          \/ VictorResponseCommand
          \/ VictorResponseData

Pico == \/ PicoReceiveCommand
        \/ PicoReceiveData
        \/ PicoDispatch
        \/ PicoDispatchFails
        \/ PicoTransmitCommand
        \/ PicoCommandAck
        \/ PicoDataAck

Next == (\E op \in Op : DosCall(op)) \/ Victor \/ Pico

Spec == Init /\ [][Next]_vars

\* Each CPU runs its loop for as long as it can; DOS need not call.
FairSpec == Spec /\ WF_vars(Victor) /\ WF_vars(Pico)

-----------------------------------------------------------------------------
(* Properties *)

TypeOK ==
    /\ vpc \in {"idle", "ready", "commandStatus", "dataStatus",
                "responseCommand", "responseData"}
    /\ dosOp \in Op
    /\ logging \in BOOLEAN
    /\ attempt \in 1..MaxAttempts
    /\ result \in {"none", "pending", "S_DONE", "S_ERROR"}
    /\ buffer \in Contents
    /\ ppc \in {"receiveCommand", "receiveData", "dispatch", "transmit",
                "commandAck", "dataAck", "halted"}
    /\ pReq \in [kind : {"read", "write", "log"}, sector : Sector]
    /\ pData \in Contents
    /\ pResp \in Contents
    /\ pNull \in BOOLEAN
    /\ disk \in [Sector -> Contents]
    /\ toPico \in Seq(Commands \cup Datas \cup Statuses)
    /\ toVictor \in Seq(Responses \cup Datas \cup Statuses)
    /\ garbled \in 0..MaxGarbled
    /\ sdFailures \in 0..MaxSdFailures
    /\ effect \in {"none", "applied", "spoiled"}
    /\ executions \in Nat
    /\ hits \in Nat

\* The two ends never lose step: whatever is next in a queue is the part its
\* reader waits for, so no status byte is ever taken for a protocol byte, and a
\* queue holds two messages only when the first closes an exchange or a phase.
InStep ==
    /\ toPico # <<>> /\ ppc # "halted" =>
          Head(toPico).part = CASE ppc = "receiveCommand" -> "command"
                                [] ppc = "receiveData" -> "data"
                                [] ppc \in {"commandAck", "dataAck"} -> "status"
                                [] OTHER -> "nothing"
    /\ toVictor # <<>> =>
          Head(toVictor).part = CASE vpc \in {"commandStatus", "dataStatus"} -> "status"
                                  [] vpc = "responseCommand" -> "response"
                                  [] vpc = "responseData" -> "data"
                                  [] OTHER -> "nothing"
    /\ Len(toPico) <= 2 /\ Len(toVictor) <= 2

\* Retries stop before the Pico executes: however many packets the line
\* garbles, on either side of the exchange, one payload is dispatched at most
\* once (the retry loop of send_command_payload against dispatch_command).
AtMostOnce == executions <= 1

\* DOS is told S_DONE only for what happened: when a call has returned S_DONE a
\* write is on the image and a read left the image's contents in the buffer.
DoneMeansDone ==
    vpc = "idle" /\ result = "S_DONE" =>
        IF dosOp.kind = "write" THEN disk[dosOp.sector] = dosOp.val
                                ELSE buffer = disk[dosOp.sector]

\* The driver gives a request up, short of its response, only after the line
\* has garbled a packet in each of the MaxAttempts attempts: one clean attempt
\* is enough to get a request through.
GiveUpIsEarned ==
    vpc = "idle" /\ result = "S_ERROR" /\ executions = 0 => hits >= MaxAttempts

\* The image changes only under the write DOS waits for: at its sector, to its
\* data, or to ruins when the SD card itself failed.  No log line, retry or
\* garbled packet ever reaches the disk.
DiskChange ==
    \A s \in Sector : disk'[s] # disk[s] =>
        /\ vpc # "idle" /\ ~logging
        /\ dosOp.kind = "write" /\ dosOp.sector = s
        /\ disk'[s] = dosOp.val \/ sdFailures' > sdFailures
OnlyTheCallersWrite == [][DiskChange]_vars

\* Every DOS call returns, or the Pico has halted on an SD card failure.
CallReturns == vpc # "idle" ~> (vpc = "idle" \/ ppc = "halted")

\* Where the abstract block device is: the DOS call and what the disk saw of it.
Phase ==
    IF vpc = "idle" THEN IF result = "S_ERROR" THEN "failed" ELSE "returned"
    ELSE IF effect = "none" THEN "called" ELSE effect
Answer == IF effect = "applied" /\ dosOp.kind = "read" THEN pResp ELSE Garbage

\* The protocol implements the block device DOS is promised: the effect comes
\* once, between the call and the return, and S_DONE only after it.
Promise == INSTANCE BlockDevice WITH
    NoValue <- Garbage, Garbage <- {Garbage},
    op <- dosOp, phase <- Phase, answer <- Answer
ImplementsBlockDevice == Promise!Spec
-----------------------------------------------------------------------------
(* The inductive invariant: where both ends and both queues can be together. *)

\* The command packet the Pico accepted is the current payload's.
Matches == pReq.kind = Current.kind /\ pReq.sector = Current.sector

\* The payload was executed, and what the response tells about it is true.
Served ==
    /\ executions = 1
    /\ Matches
    /\ ~pNull =>
          /\ Current.kind = "write" => disk[Current.sector] = Current.val
          /\ Current.kind = "read"  => pResp = disk[Current.sector]

\* st closed an exchange that the driver has left and the Pico has not.
ClosingAck(st) ==
    \/ ppc = "commandAck" /\ st = Status("INVALID_CRC")
    \/ ppc = "dataAck" /\ st \in Statuses /\ ~pNull

\* The driver is between two payloads.
Resting ==
    /\ toVictor = <<>>
    /\ \/ toPico = <<>> /\ ppc \in {"receiveCommand", "halted"}
       \/ \E st \in Statuses : toPico = <<st>> /\ ClosingAck(st)

\* The command packet is under way, or its status is.
Asking ==
    /\ executions = 0
    /\ hits + 1 >= attempt
    /\ \/ /\ toVictor = <<>>
          /\ \E good \in BOOLEAN :
                /\ ~good => hits >= attempt
                /\ \/ /\ toPico = <<CommandPacket(Current, good)>>
                      /\ ppc \in {"receiveCommand", "halted"}
                   \/ \E st \in Statuses :
                        /\ toPico = <<st, CommandPacket(Current, good)>>
                        /\ ClosingAck(st)
       \/ /\ toPico = <<>> /\ toVictor = <<Status("INVALID_CRC")>>
          /\ ppc = "receiveCommand" /\ hits >= attempt
       \/ /\ toPico = <<>> /\ toVictor = <<Status("OK")>>
          /\ ppc = "receiveData" /\ Matches

\* The Pico has the request, whole, and may already have run it.
Accepted(queue) ==
    /\ toPico = <<>>
    /\ \/ /\ ppc = "dispatch" /\ toVictor = queue
          /\ executions = 0 /\ Matches /\ pData = Current.val
       \/ /\ ppc \in {"transmit", "halted"} /\ toVictor = queue
          /\ Served
       \/ \E good \in BOOLEAN :
             /\ ppc = "commandAck" /\ toVictor = Append(queue, ResponseCommand(good))
             /\ Served /\ (pNull => ~good)

\* The data packet is under way, or its status is.
Feeding ==
    /\ hits + 1 >= attempt
    /\ \/ /\ executions = 0 /\ toVictor = <<>> /\ ppc = "receiveData" /\ Matches
          /\ \E good \in BOOLEAN :
                /\ ~good => hits >= attempt
                /\ toPico = <<DataPacket(Current.val, good)>>
       \/ /\ toPico = <<>> /\ toVictor = <<Status("INVALID_CRC")>>
          /\ ppc = "receiveCommand" /\ executions = 0 /\ hits >= attempt
       \/ Accepted(<<Status("OK")>>)

\* The response's data part is asked for, or under way.
Taking ==
    /\ Served /\ ~pNull
    /\ \/ toPico = <<Status("OK")>> /\ toVictor = <<>> /\ ppc = "commandAck"
       \/ /\ toPico = <<>> /\ ppc = "dataAck"
          /\ \E good \in BOOLEAN : toVictor = <<DataPacket(pResp, good)>>

Phases ==
    \/ vpc \in {"idle", "ready"} /\ Resting
    \/ vpc = "commandStatus" /\ Asking
    \/ vpc = "dataStatus" /\ Feeding
    \/ vpc = "responseCommand" /\ Accepted(<<>>)
    \/ vpc = "responseData" /\ Taking

\* What the driver remembers of the call, and what the disk has seen of it.
Bookkeeping ==
    /\ vpc = "idle" => ~logging
    /\ vpc # "idle" => result = "pending"
    /\ vpc = "ready" \/ (vpc # "idle" /\ (logging \/ executions = 0)) => effect = "none"
    /\ vpc \notin {"idle", "ready"} /\ ~logging /\ executions = 1 =>
          effect = IF pNull THEN "spoiled" ELSE "applied"

IInv == TypeOK /\ Phases /\ Bookkeeping /\ AtMostOnce /\ DoneMeansDone /\ GiveUpIsEarned
=============================================================================
