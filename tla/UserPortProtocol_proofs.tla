----------------------- MODULE UserPortProtocol_proofs -----------------------
(***************************************************************************)
(* Proofs about UserPortProtocol, for every set of sectors and contents,   *)
(* every number of attempts, and any number of garbled packets and SD card *)
(* failures.                                                               *)
(***************************************************************************)
EXTENDS UserPortProtocol, SequenceTheorems, TLAPS

\* The log line's address is any sector: the choice exists.
LEMMA LogSector == (CHOOSE s \in Sector : TRUE) \in Sector
  BY SectorAssumption

LEMMA CurrentType ==
  ASSUME TypeOK
  PROVE  /\ Current.kind \in {"read", "write", "log"}
         /\ Current.sector \in Sector
         /\ Current.val \in Contents
  BY LogSector DEF TypeOK, Current, LogRequest, Op, ReadOp, WriteOp, NoData, Contents

\* Packets the two ends build are packets of the right sort.
LEMMA PacketTypes ==
  ASSUME TypeOK, NEW good \in BOOLEAN, NEW val \in Contents
  PROVE  /\ CommandPacket(Current, good) \in Commands
         /\ DataPacket(val, good) \in Datas
         /\ ResponseCommand(good) \in Responses
         /\ Status("OK") \in Statuses
         /\ Status("INVALID_CRC") \in Statuses
  <1>1. CommandPacket(Current, good) \in Commands
    BY CurrentType DEF CommandPacket, Commands
  <1>2. DataPacket(val, good) \in Datas
    BY DEF DataPacket, Datas, Contents
  <1>3. ResponseCommand(good) \in Responses
    BY DEF ResponseCommand, Responses
  <1>4. Status("OK") \in Statuses /\ Status("INVALID_CRC") \in Statuses
    BY DEF Status, Statuses
  <1> QED BY <1>1, <1>2, <1>3, <1>4

LEMMA CrcStatusType ==
  ASSUME NEW p PROVE CrcStatus(p) \in {"OK", "INVALID_CRC"} /\ Status(CrcStatus(p)) \in Statuses
  BY DEF CrcStatus, Status, Statuses

\* Reading and writing a queue keeps it a queue of the same things.
LEMMA QueueTypes ==
  ASSUME NEW S, NEW q \in Seq(S)
  PROVE  /\ q # <<>> => Head(q) \in S /\ Tail(q) \in Seq(S)
         /\ \A m \in S : Append(q, m) \in Seq(S)
  OBVIOUS

LEMMA TypeInit == Init => TypeOK
  <1> SUFFICES ASSUME Init PROVE TypeOK
    OBVIOUS
  <1> USE SectorAssumption, AttemptsAssumption, BoundsAssumption
  <1>1. disk \in [Sector -> Contents]
    BY DEF Init, Contents
  <1>2. pReq \in [kind : {"read", "write", "log"}, sector : Sector]
    BY DEF Init
  <1>3. attempt \in 1..MaxAttempts /\ garbled \in 0..MaxGarbled /\ sdFailures \in 0..MaxSdFailures
    BY DEF Init
  <1>4. toPico \in Seq(Commands \cup Datas \cup Statuses)
    BY DEF Init
  <1>5. toVictor \in Seq(Responses \cup Datas \cup Statuses)
    BY DEF Init
  <1> QED BY <1>1, <1>2, <1>3, <1>4, <1>5 DEF Init, TypeOK, Contents, NoData

\* The things a queue can hold.
ToPicoMsg == Commands \cup Datas \cup Statuses
ToVictorMsg == Responses \cup Datas \cup Statuses

LEMMA TypeNext == TypeOK /\ [Next]_vars => TypeOK'
  <1> SUFFICES ASSUME TypeOK, [Next]_vars PROVE TypeOK'
    OBVIOUS
  <1> USE AttemptsAssumption, BoundsAssumption, DebugAssumption
  <1>a. toPico \in Seq(ToPicoMsg) /\ toVictor \in Seq(ToVictorMsg)
    BY DEF TypeOK, ToPicoMsg, ToVictorMsg
  <1>b. /\ toPico # <<>> => Head(toPico) \in ToPicoMsg /\ Tail(toPico) \in Seq(ToPicoMsg)
        /\ \A m \in ToPicoMsg : Append(toPico, m) \in Seq(ToPicoMsg)
        /\ \A m \in ToPicoMsg : toPico # <<>> => Append(Tail(toPico), m) \in Seq(ToPicoMsg)
    BY <1>a, QueueTypes
  <1>c. /\ toVictor # <<>> => Head(toVictor) \in ToVictorMsg /\ Tail(toVictor) \in Seq(ToVictorMsg)
        /\ \A m \in ToVictorMsg : Append(toVictor, m) \in Seq(ToVictorMsg)
    BY <1>a, QueueTypes
  <1>d. \A good \in BOOLEAN : CommandPacket(Current, good) \in ToPicoMsg
                              /\ DataPacket(Current.val, good) \in ToPicoMsg
                              /\ ResponseCommand(good) \in ToVictorMsg
                              /\ DataPacket(pResp, good) \in ToVictorMsg
    BY PacketTypes, CurrentType DEF TypeOK, ToPicoMsg, ToVictorMsg
  <1>e. \A p : Status(CrcStatus(p)) \in ToPicoMsg \cap ToVictorMsg
    BY CrcStatusType DEF ToPicoMsg, ToVictorMsg
  <1>f. \A good \in BOOLEAN : LineDelivers(good) => garbled' \in 0..MaxGarbled
    BY DEF LineDelivers, TypeOK
  <1>g. \A good \in BOOLEAN : RequestDelivered(good) => hits' \in Nat /\ garbled' \in 0..MaxGarbled
    BY <1>f DEF RequestDelivered, TypeOK
  <1>h. RetryOrGiveUp => /\ attempt' \in 1..MaxAttempts
                         /\ vpc' \in {"commandStatus", "ready", "idle"}
                         /\ toPico' \in Seq(ToPicoMsg)
                         /\ hits' \in Nat /\ garbled' \in 0..MaxGarbled
                         /\ logging' \in BOOLEAN
                         /\ result' \in {"none", "pending", "S_DONE", "S_ERROR"}
    <2>1. ASSUME RetryOrGiveUp, RetriesLeft, NEW good \in BOOLEAN, RequestDelivered(good),
                 attempt' = attempt + 1, vpc' = "commandStatus",
                 toPico' = Append(toPico, CommandPacket(Current, good)),
                 UNCHANGED <<logging, result>>
          PROVE  /\ attempt' \in 1..MaxAttempts
                 /\ vpc' \in {"commandStatus", "ready", "idle"}
                 /\ toPico' \in Seq(ToPicoMsg)
                 /\ hits' \in Nat /\ garbled' \in 0..MaxGarbled
                 /\ logging' \in BOOLEAN
                 /\ result' \in {"none", "pending", "S_DONE", "S_ERROR"}
      BY <2>1, <1>b, <1>d, <1>g DEF RetriesLeft, TypeOK
    <2>2. ASSUME RetryOrGiveUp, EndPayload("S_ERROR"), UNCHANGED <<attempt, toPico, garbled, hits>>
          PROVE  /\ attempt' \in 1..MaxAttempts
                 /\ vpc' \in {"commandStatus", "ready", "idle"}
                 /\ toPico' \in Seq(ToPicoMsg)
                 /\ hits' \in Nat /\ garbled' \in 0..MaxGarbled
                 /\ logging' \in BOOLEAN
                 /\ result' \in {"none", "pending", "S_DONE", "S_ERROR"}
      BY <2>2, <1>a DEF EndPayload, TypeOK
    <2> QED BY <2>1, <2>2 DEF RetryOrGiveUp
  <1>1. ASSUME NEW op \in Op, DosCall(op) PROVE TypeOK'
    BY <1>1 DEF DosCall, TypeOK, picoVars, line
  <1>2. CASE BeginPayload
    BY <1>2, <1>b, <1>d, <1>f DEF BeginPayload, TypeOK, picoVars, ToPicoMsg
  <1>3. CASE VictorCommandStatus
    <2>1. toVictor' \in Seq(ToVictorMsg)
      BY <1>3, <1>c DEF VictorCommandStatus, Waiting
    <2>2. /\ attempt' \in 1..MaxAttempts
          /\ vpc' \in {"dataStatus", "commandStatus", "ready", "idle"}
          /\ toPico' \in Seq(ToPicoMsg)
          /\ hits' \in Nat /\ garbled' \in 0..MaxGarbled
          /\ logging' \in BOOLEAN
          /\ result' \in {"none", "pending", "S_DONE", "S_ERROR"}
      BY <1>3, <1>b, <1>d, <1>g, <1>h DEF VictorCommandStatus, TypeOK
    <2> QED BY <1>3, <2>1, <2>2 DEF VictorCommandStatus, TypeOK, picoVars, ToPicoMsg, ToVictorMsg
  <1>4. CASE VictorDataStatus
    <2>1. toVictor' \in Seq(ToVictorMsg)
      BY <1>4, <1>c DEF VictorDataStatus, Waiting
    <2>2. /\ attempt' \in 1..MaxAttempts
          /\ vpc' \in {"responseCommand", "commandStatus", "ready", "idle"}
          /\ toPico' \in Seq(ToPicoMsg)
          /\ hits' \in Nat /\ garbled' \in 0..MaxGarbled
          /\ logging' \in BOOLEAN
          /\ result' \in {"none", "pending", "S_DONE", "S_ERROR"}
      BY <1>4, <1>a, <1>h DEF VictorDataStatus, TypeOK
    <2> QED BY <1>4, <2>1, <2>2 DEF VictorDataStatus, TypeOK, picoVars, ToPicoMsg, ToVictorMsg
  <1>5. CASE VictorResponseCommand
    <2>1. toVictor' \in Seq(ToVictorMsg) /\ toPico' \in Seq(ToPicoMsg)
      BY <1>5, <1>b, <1>c, <1>e DEF VictorResponseCommand, Waiting
    <2> QED BY <1>5, <2>1 DEF VictorResponseCommand, EndPayload, TypeOK, picoVars, history,
                              ToPicoMsg, ToVictorMsg
  <1>6. CASE VictorResponseData
    <2>1. toVictor' \in Seq(ToVictorMsg) /\ toPico' \in Seq(ToPicoMsg)
      BY <1>6, <1>b, <1>c, <1>e DEF VictorResponseData, Waiting
    <2>2. buffer' \in Contents
      BY <1>6, <1>c DEF VictorResponseData, Waiting, TypeOK, ToVictorMsg, Responses, Datas, Statuses
    <2> QED BY <1>6, <2>1, <2>2 DEF VictorResponseData, EndPayload, TypeOK, picoVars, history,
                                   ToPicoMsg, ToVictorMsg
  <1>7. CASE PicoReceiveCommand
    <2>1. toVictor' \in Seq(ToVictorMsg) /\ toPico' \in Seq(ToPicoMsg)
      BY <1>7, <1>b, <1>c, <1>e DEF PicoReceiveCommand, Waiting
    <2>2. pReq' \in [kind : {"read", "write", "log"}, sector : Sector]
      BY <1>7, <1>b DEF PicoReceiveCommand, Waiting, TypeOK, ToPicoMsg, Commands, Datas, Statuses
    <2> QED BY <1>7, <2>1, <2>2 DEF PicoReceiveCommand, TypeOK, victorVars, history,
                                   ToPicoMsg, ToVictorMsg
  <1>8. CASE PicoReceiveData
    <2>1. toVictor' \in Seq(ToVictorMsg) /\ toPico' \in Seq(ToPicoMsg)
      BY <1>8, <1>b, <1>c, <1>e DEF PicoReceiveData, Waiting
    <2>2. pData' \in Contents
      BY <1>8, <1>b DEF PicoReceiveData, Waiting, TypeOK, ToPicoMsg, Commands, Datas, Statuses
    <2> QED BY <1>8, <2>1, <2>2 DEF PicoReceiveData, AfterDataPacket, TypeOK, victorVars, history,
                                   ToPicoMsg, ToVictorMsg
  <1>9. CASE PicoDispatch
    <2>1. disk' \in [Sector -> Contents] /\ pResp' \in Contents
      BY <1>9 DEF PicoDispatch, TypeOK, Contents, NoData
    <2>2. effect' \in {"none", "applied", "spoiled"} /\ executions' \in Nat
      BY <1>9 DEF PicoDispatch, TypeOK
    <2>3. ppc' = "transmit" /\ pNull' = FALSE
          /\ UNCHANGED <<victorVars, pReq, pData, line, garbled, sdFailures, hits>>
      BY <1>9 DEF PicoDispatch
    <2> QED BY <2>1, <2>2, <2>3 DEF TypeOK, victorVars, line
  <1>10. CASE PicoDispatchFails
    <2>1. disk' \in [Sector -> Contents]
      BY <1>10 DEF PicoDispatchFails, TypeOK, Contents
    <2> QED BY <1>10, <2>1 DEF PicoDispatchFails, TypeOK, victorVars, line
  <1>11. CASE PicoTransmitCommand
    BY <1>11, <1>c, <1>d, <1>f DEF PicoTransmitCommand, TypeOK, victorVars, history, ToVictorMsg
  <1>12. CASE PicoCommandAck
    <2>1. toPico' \in Seq(ToPicoMsg)
      BY <1>12, <1>b DEF PicoCommandAck, Waiting
    <2>2. toVictor' \in Seq(ToVictorMsg) /\ garbled' \in 0..MaxGarbled
      BY <1>12, <1>a, <1>c, <1>d, <1>f DEF PicoCommandAck, TypeOK
    <2> QED BY <1>12, <2>1, <2>2 DEF PicoCommandAck, AfterBadAck, TypeOK, victorVars, history,
                                    ToPicoMsg, ToVictorMsg
  <1>13. CASE PicoDataAck
    <2>1. toPico' \in Seq(ToPicoMsg)
      BY <1>13, <1>b DEF PicoDataAck, Waiting
    <2> QED BY <1>13, <2>1 DEF PicoDataAck, TypeOK, victorVars, history, ToPicoMsg
  <1>14. CASE UNCHANGED vars
    BY <1>14 DEF vars, victorVars, picoVars, line, history, TypeOK
  <1> QED BY <1>1, <1>2, <1>3, <1>4, <1>5, <1>6, <1>7, <1>8, <1>9, <1>10, <1>11, <1>12,
             <1>13, <1>14 DEF Next, Victor, Pico

\* Type correctness of the protocol model, for every value of the constants.
THEOREM TypeCorrect == Spec => []TypeOK
  BY TypeInit, TypeNext, PTL DEF Spec

-----------------------------------------------------------------------------
(* The inductive invariant. *)

LEMMA ShortQueues ==
  /\ \A m : <<m>> # <<>> /\ Head(<<m>>) = m /\ Tail(<<m>>) = <<>> /\ Append(<<>>, m) = <<m>>
  /\ \A a, b : /\ <<a, b>> # <<>> /\ Head(<<a, b>>) = a /\ Tail(<<a, b>>) = <<b>>
              /\ Append(<<a>>, b) = <<a, b>>
  <1>1. \A m : <<m>> # <<>> /\ Head(<<m>>) = m /\ Tail(<<m>>) = <<>>
    OBVIOUS
  <1>2. \A m : Append(<<>>, m) = <<m>>
    OBVIOUS
  <1>3. \A a, b : <<a, b>> # <<>> /\ Head(<<a, b>>) = a
    OBVIOUS
  <1>4. \A a, b : Tail(<<a, b>>) = <<b>>
    OBVIOUS
  <1>5. \A a, b : Append(<<a>>, b) = <<a, b>>
    <2> TAKE a, b
    <2> DEFINE S == {a, b}
    <2>1. <<a>> \in Seq(S) /\ <<a, b>> \in Seq(S) /\ b \in S
      OBVIOUS
    <2>2. /\ Append(<<a>>, b) \in Seq(S) /\ Len(Append(<<a>>, b)) = 2
          /\ Append(<<a>>, b)[1] = a /\ Append(<<a>>, b)[2] = b
      BY <2>1
    <2>3. Len(<<a, b>>) = 2 /\ <<a, b>>[1] = a /\ <<a, b>>[2] = b
      OBVIOUS
    <2>4. \A i \in 1..2 : Append(<<a>>, b)[i] = <<a, b>>[i]
      BY <2>2, <2>3
    <2> HIDE DEF S
    <2> QED BY <2>1, <2>2, <2>3, <2>4, SeqEqual
  <1> QED BY <1>1, <1>2, <1>3, <1>4, <1>5

\* What a reader finds at the head of a queue tells which packet it is.
LEMMA Parts ==
  /\ \A r, g : CommandPacket(r, g).part = "command" /\ CommandPacket(r, g).good = g
               /\ CommandPacket(r, g).kind = r.kind /\ CommandPacket(r, g).sector = r.sector
  /\ \A v, g : DataPacket(v, g).part = "data" /\ DataPacket(v, g).good = g
               /\ DataPacket(v, g).val = IF g THEN v ELSE Garbage
  /\ \A g : ResponseCommand(g).part = "response" /\ ResponseCommand(g).good = g
  /\ \A c : Status(c).part = "status" /\ Status(c).code = c
  /\ \A st \in Statuses : st.part = "status"
  BY DEF CommandPacket, DataPacket, ResponseCommand, Status, Statuses

Core == Phases /\ Bookkeeping /\ AtMostOnce /\ DoneMeansDone /\ GiveUpIsEarned

LEMMA CoreInit == Init => Core
  BY DEF Init, Core, Phases, Resting, Bookkeeping, AtMostOnce, DoneMeansDone, GiveUpIsEarned

LEMMA DosCallKeeps ==
  ASSUME TypeOK, Core, NEW op \in Op, DosCall(op) PROVE Core'
  <1>1. vpc = "idle" /\ Resting
    BY DEF DosCall, Core, Phases
  <1>2. Resting'
    BY <1>1 DEF DosCall, picoVars, line, Resting, ClosingAck
  <1> QED BY <1>2 DEF DosCall, Core, Phases, Bookkeeping, AtMostOnce, DoneMeansDone, GiveUpIsEarned

LEMMA BeginPayloadKeeps ==
  ASSUME TypeOK, Core, BeginPayload PROVE Core'
  <1>1. vpc = "ready" /\ Resting /\ result = "pending" /\ effect = "none"
    BY DEF BeginPayload, Core, Phases, Bookkeeping
  <1>2. PICK good \in BOOLEAN : /\ hits' = IF good THEN 0 ELSE 1
                                /\ toPico' = Append(toPico, CommandPacket(Current, good))
    BY DEF BeginPayload
  <1>3. Current' = Current
    BY DEF BeginPayload, Current
  <1>4. hits' + 1 >= attempt' /\ (~good => hits' >= attempt') /\ executions' = 0
    BY <1>2 DEF BeginPayload
  <1>5. CASE toPico = <<>> /\ ppc \in {"receiveCommand", "halted"}
    <2>1. toPico' = <<CommandPacket(Current', good)>>
      BY <1>2, <1>3, <1>5, ShortQueues
    <2> QED BY <1>1, <1>4, <1>5, <2>1
            DEF BeginPayload, picoVars, Core, Phases, Asking, Resting, Bookkeeping, AtMostOnce,
                DoneMeansDone, GiveUpIsEarned
  <1>6. CASE \E st \in Statuses : toPico = <<st>> /\ ClosingAck(st)
    <2>1. PICK st \in Statuses : toPico = <<st>> /\ ClosingAck(st)
      BY <1>6
    <2>2. toPico' = <<st, CommandPacket(Current', good)>>
      BY <1>2, <1>3, <2>1, ShortQueues
    <2>3. ClosingAck(st)'
      BY <2>1 DEF ClosingAck, BeginPayload, picoVars
    <2> QED BY <1>1, <1>4, <2>2, <2>3
            DEF BeginPayload, picoVars, Core, Phases, Asking, Resting, Bookkeeping, AtMostOnce,
                DoneMeansDone, GiveUpIsEarned
  <1> QED BY <1>1, <1>5, <1>6 DEF Resting

\* A status other than OK was read: the Pico waits for a command packet, and
\* every attempt so far has cost the line a packet.
LEMMA RetryKeeps ==
  ASSUME TypeOK, Core, RetryOrGiveUp,
         vpc \in {"commandStatus", "dataStatus"},
         ppc = "receiveCommand", toPico = <<>>, toVictor' = <<>>,
         executions = 0, hits >= attempt,
         UNCHANGED <<dosOp, buffer, picoVars, sdFailures, effect, executions>>
  PROVE  Core'
  <1>0. attempt \in Nat /\ hits \in Nat /\ MaxAttempts \in Nat
    BY AttemptsAssumption DEF TypeOK
  <1>1. ASSUME RetriesLeft, attempt' = attempt + 1, vpc' = "commandStatus",
               NEW good \in BOOLEAN, RequestDelivered(good),
               toPico' = Append(toPico, CommandPacket(Current, good)),
               UNCHANGED <<logging, result>>
        PROVE  Core'
    <2>1. toPico' = <<CommandPacket(Current', good)>>
      BY <1>1, ShortQueues DEF Current
    <2>2. hits' + 1 >= attempt' /\ (~good => hits' >= attempt')
      BY <1>0, <1>1 DEF RequestDelivered
    <2>3. Asking'
      BY <2>1, <2>2 DEF Asking, picoVars
    <2> QED BY <1>1, <2>3 DEF Core, Phases, Bookkeeping, AtMostOnce, DoneMeansDone, GiveUpIsEarned, picoVars
  <1>2. ASSUME ~RetriesLeft, EndPayload("S_ERROR"), UNCHANGED <<attempt, toPico, garbled, hits>>
        PROVE  Core'
    <2>1. hits' >= MaxAttempts
      BY <1>0, <1>2 DEF RetriesLeft
    <2>2. Resting'
      BY <1>2 DEF Resting, picoVars
    <2> QED BY <1>2, <2>1, <2>2
            DEF EndPayload, Core, Phases, Bookkeeping, AtMostOnce, DoneMeansDone, GiveUpIsEarned, picoVars
  <1> QED BY <1>1, <1>2 DEF RetryOrGiveUp

LEMMA VictorCommandStatusKeeps ==
  ASSUME TypeOK, Core, VictorCommandStatus PROVE Core'
  <1>1. vpc = "commandStatus" /\ Asking /\ result = "pending" /\ executions = 0 /\ effect = "none"
    BY DEF VictorCommandStatus, Core, Phases, Asking, Bookkeeping
  <1>2. toVictor # <<>> /\ toPico = <<>>
    BY <1>1 DEF VictorCommandStatus, Waiting, Asking
  <1>3. CASE toVictor = <<Status("INVALID_CRC")>> /\ ppc = "receiveCommand" /\ hits >= attempt
    <2>1. Head(toVictor).code = "INVALID_CRC" /\ Tail(toVictor) = <<>>
      BY <1>3, ShortQueues, Parts
    <2> QED BY <1>1, <1>2, <1>3, <2>1, RetryKeeps DEF VictorCommandStatus
  <1>4. CASE toVictor = <<Status("OK")>> /\ ppc = "receiveData" /\ Matches
    <2>1. Head(toVictor).code = "OK" /\ Tail(toVictor) = <<>>
      BY <1>4, ShortQueues, Parts
    <2>2. PICK good \in BOOLEAN : /\ RequestDelivered(good)
                                  /\ toPico' = Append(toPico, DataPacket(Current.val, good))
      BY <2>1 DEF VictorCommandStatus
    <2>3. Current' = Current /\ UNCHANGED <<attempt, ppc, pReq, executions, result, effect, logging, dosOp>>
          /\ vpc' = "dataStatus" /\ toVictor' = <<>>
      BY <2>1 DEF VictorCommandStatus, Current, picoVars
    <2>4. toPico' = <<DataPacket(Current'.val, good)>>
      BY <1>2, <2>2, <2>3, ShortQueues
    <2>5. hits' + 1 >= attempt' /\ (~good => hits' >= attempt')
      BY <1>1, <2>2, <2>3 DEF RequestDelivered, Asking, TypeOK
    <2>6. Feeding'
      BY <1>1, <1>4, <2>3, <2>4, <2>5 DEF Feeding, Matches
    <2> QED BY <1>1, <2>3, <2>6 DEF Core, Phases, Bookkeeping, AtMostOnce, DoneMeansDone, GiveUpIsEarned
  <1> QED BY <1>1, <1>2, <1>3, <1>4 DEF Asking

LEMMA VictorDataStatusKeeps ==
  ASSUME TypeOK, Core, VictorDataStatus PROVE Core'
  <1>1. vpc = "dataStatus" /\ Feeding /\ result = "pending"
    BY DEF VictorDataStatus, Core, Phases, Bookkeeping
  <1>2. toVictor # <<>>
    BY DEF VictorDataStatus, Waiting
  <1>3. CASE /\ toPico = <<>> /\ toVictor = <<Status("INVALID_CRC")>>
             /\ ppc = "receiveCommand" /\ executions = 0 /\ hits >= attempt
    <2>1. Head(toVictor).code = "INVALID_CRC" /\ Tail(toVictor) = <<>>
      BY <1>3, ShortQueues, Parts
    <2> QED BY <1>1, <1>3, <2>1, RetryKeeps DEF VictorDataStatus
  <1>4. CASE Accepted(<<Status("OK")>>)
    <2>1. Head(toVictor).code = "OK"
      BY <1>4, ShortQueues, Parts DEF Accepted
    <2>2. /\ vpc' = "responseCommand" /\ toVictor' = Tail(toVictor)
          /\ UNCHANGED <<logging, attempt, result, toPico, garbled, hits, dosOp, buffer, ppc, pReq,
                         pData, pResp, pNull, disk, sdFailures, effect, executions>>
      BY <2>1 DEF VictorDataStatus, picoVars
    <2>3. Current' = Current
      BY <2>2 DEF Current
    <2>4. Served => Served'
      BY <2>2, <2>3 DEF Served, Matches
    <2>5. Matches => Matches'
      BY <2>2, <2>3 DEF Matches
    <2>6. Accepted(<<>>)'
      <3>1. CASE toVictor = <<Status("OK")>>
        <4>1. toVictor' = <<>>
          BY <2>2, <3>1, ShortQueues
        <4>2. ppc # "commandAck"
          <5>1. \A good : Append(<<Status("OK")>>, ResponseCommand(good)) # <<Status("OK")>>
            BY ShortQueues
          <5> QED BY <1>4, <3>1, <5>1 DEF Accepted
        <4> QED BY <1>4, <2>2, <2>3, <2>4, <2>5, <4>1, <4>2 DEF Accepted
      <3>2. ASSUME NEW good \in BOOLEAN, ppc = "commandAck", Served, pNull => ~good,
                   toVictor = Append(<<Status("OK")>>, ResponseCommand(good)), toPico = <<>>
            PROVE  Accepted(<<>>)'
        <4>0. toVictor = <<Status("OK"), ResponseCommand(good)>>
          BY <3>2, ShortQueues
        <4>1. toVictor' = <<ResponseCommand(good)>>
          BY <2>2, <4>0, ShortQueues
        <4>2. toVictor' = Append(<<>>, ResponseCommand(good))
          BY <4>1, ShortQueues
        <4> QED BY <2>2, <2>4, <3>2, <4>2 DEF Accepted
      <3> QED BY <1>4, <3>1, <3>2 DEF Accepted
    <2> QED BY <1>1, <2>2, <2>6 DEF Core, Phases, Bookkeeping, AtMostOnce, DoneMeansDone, GiveUpIsEarned
  <1> QED BY <1>1, <1>2, <1>3, <1>4 DEF Feeding

LEMMA VictorResponseCommandKeeps ==
  ASSUME TypeOK, Core, VictorResponseCommand PROVE Core'
  <1>1. vpc = "responseCommand" /\ Accepted(<<>>) /\ result = "pending"
    BY DEF VictorResponseCommand, Core, Phases, Bookkeeping
  <1>2. toVictor # <<>>
    BY DEF VictorResponseCommand, Waiting
  <1>3. PICK good \in BOOLEAN :
          /\ ppc = "commandAck" /\ toVictor = <<ResponseCommand(good)>>
          /\ Served /\ (pNull => ~good) /\ toPico = <<>>
    BY <1>1, <1>2, ShortQueues DEF Accepted
  <1>4. Head(toVictor).good = good /\ Tail(toVictor) = <<>>
    BY <1>3, ShortQueues, Parts
  <1>5. /\ toVictor' = <<>> /\ toPico' = <<Status(CrcStatus(Head(toVictor)))>>
        /\ UNCHANGED <<dosOp, attempt, buffer, ppc, pReq, pData, pResp, pNull, disk, garbled,
                       sdFailures, effect, executions, hits>>
    BY <1>3, <1>4, ShortQueues DEF VictorResponseCommand, picoVars, history
  <1>6. CASE good
    <2>1. CrcStatus(Head(toVictor)) = "OK"
      BY <1>4, <1>6 DEF CrcStatus
    <2>2. vpc' = "responseData" /\ UNCHANGED <<logging, result>>
      BY <2>1 DEF VictorResponseCommand
    <2>3. Served' /\ ~pNull'
      BY <1>3, <1>5, <1>6, <2>2 DEF Served, Matches, Current
    <2>4. Taking'
      BY <1>3, <1>5, <2>1, <2>3 DEF Taking
    <2> QED BY <1>1, <1>5, <2>2, <2>4
            DEF Core, Phases, Bookkeeping, AtMostOnce, DoneMeansDone, GiveUpIsEarned
  <1>7. CASE ~good
    <2>1. CrcStatus(Head(toVictor)) = "INVALID_CRC"
      BY <1>4, <1>7 DEF CrcStatus
    <2>2. EndPayload("S_ERROR")
      BY <2>1 DEF VictorResponseCommand
    <2>3. Resting'
      BY <1>3, <1>5, <2>1, CrcStatusType DEF Resting, ClosingAck
    <2>4. executions' = 1
      BY <1>3, <1>5 DEF Served
    <2> QED BY <1>1, <1>5, <2>2, <2>3, <2>4
            DEF EndPayload, Core, Phases, Bookkeeping, AtMostOnce, DoneMeansDone, GiveUpIsEarned, TypeOK
  <1> QED BY <1>6, <1>7

LEMMA VictorResponseDataKeeps ==
  ASSUME TypeOK, Core, VictorResponseData PROVE Core'
  <1>1. vpc = "responseData" /\ Taking /\ result = "pending"
    BY DEF VictorResponseData, Core, Phases, Bookkeeping
  <1>2. PICK good \in BOOLEAN : /\ toPico = <<>> /\ ppc = "dataAck"
                                /\ toVictor = <<DataPacket(pResp, good)>>
    BY <1>1 DEF VictorResponseData, Waiting, Taking
  <1>3. /\ Head(toVictor).good = good /\ Tail(toVictor) = <<>>
        /\ Head(toVictor).val = IF good THEN pResp ELSE Garbage
    BY <1>2, ShortQueues, Parts
  <1>4. /\ toVictor' = <<>> /\ toPico' = <<Status(CrcStatus(Head(toVictor)))>>
        /\ EndPayload(IF CrcStatus(Head(toVictor)) = "OK" THEN "S_DONE" ELSE "S_ERROR")
        /\ buffer' = (IF Current.kind = "read" THEN Head(toVictor).val ELSE buffer)
        /\ UNCHANGED <<dosOp, attempt, ppc, pReq, pData, pResp, pNull, disk, garbled,
                       sdFailures, effect, executions, hits>>
    BY <1>2, <1>3, ShortQueues DEF VictorResponseData, picoVars, history
  <1>5. Resting'
    BY <1>1, <1>2, <1>4, CrcStatusType DEF Resting, ClosingAck, Taking
  <1>6. executions' = 1
    BY <1>1, <1>4 DEF Taking, Served
  <1>7. DoneMeansDone'
    <2> SUFFICES ASSUME vpc' = "idle", result' = "S_DONE"
                 PROVE  (IF dosOp.kind = "write" THEN disk[dosOp.sector] = dosOp.val
                                                 ELSE buffer = disk[dosOp.sector])'
      BY DEF DoneMeansDone
    <2>1. ~logging /\ CrcStatus(Head(toVictor)) = "OK"
      BY <1>1, <1>4 DEF EndPayload
    <2>2. good /\ Current = dosOp
      BY <1>3, <2>1 DEF CrcStatus, Current
    <2>3. dosOp.kind \in {"read", "write"}
      BY DEF TypeOK, Op, ReadOp, WriteOp
    <2> QED BY <1>1, <1>3, <1>4, <2>2, <2>3 DEF Taking, Served
  <1> QED BY <1>1, <1>4, <1>5, <1>6, <1>7
          DEF EndPayload, Core, Phases, Bookkeeping, AtMostOnce, GiveUpIsEarned, TypeOK

\* The Pico's steps leave alone everything of the driver that Core speaks of.
LEMMA PicoStep ==
  ASSUME TypeOK, Core, UNCHANGED victorVars, UNCHANGED hits,
         vpc # "idle" \/ UNCHANGED <<disk, executions>>,
         executions' \in {0, 1}, Phases', Bookkeeping'
  PROVE  Core'
  BY DEF Core, AtMostOnce, DoneMeansDone, GiveUpIsEarned, victorVars

LEMMA PicoReceiveCommandKeeps ==
  ASSUME TypeOK, Core, PicoReceiveCommand PROVE Core'
  <1>1. PICK good \in BOOLEAN :
          /\ vpc = "commandStatus" /\ Asking /\ toVictor = <<>> /\ (~good => hits >= attempt)
          /\ toPico = <<CommandPacket(Current, good)>> /\ executions = 0 /\ hits + 1 >= attempt
    BY ShortQueues DEF PicoReceiveCommand, Waiting, Core, Phases, Resting, Asking, Feeding, Accepted,
                       Taking, ClosingAck
  <1>2. Head(toPico).good = good /\ Tail(toPico) = <<>>
        /\ Head(toPico).kind = Current.kind /\ Head(toPico).sector = Current.sector
    BY <1>1, ShortQueues, Parts
  <1>3. /\ UNCHANGED victorVars
        /\ UNCHANGED <<pData, pResp, pNull, disk, hits, executions, effect>>
        /\ toPico' = <<>> /\ toVictor' = <<Status(CrcStatus(Head(toPico)))>>
    BY <1>1, <1>2, ShortQueues DEF PicoReceiveCommand, history
  <1>4. Current' = Current
    BY <1>3 DEF victorVars, Current
  <1>5. Asking'
    <2>1. CASE good
      <3>1. CrcStatus(Head(toPico)) = "OK"
        BY <1>2, <2>1 DEF CrcStatus
      <3>2. ppc' = "receiveData" /\ Matches'
        BY <1>2, <1>4, <3>1 DEF PicoReceiveCommand, Matches
      <3> QED BY <1>1, <1>3, <3>1, <3>2 DEF Asking, victorVars
    <2>2. CASE ~good
      <3>1. CrcStatus(Head(toPico)) = "INVALID_CRC"
        BY <1>2, <2>2 DEF CrcStatus
      <3>2. ppc' = "receiveCommand"
        BY <3>1 DEF PicoReceiveCommand
      <3> QED BY <1>1, <1>3, <2>2, <3>1, <3>2 DEF Asking, victorVars
    <2> QED BY <2>1, <2>2
  <1> QED BY <1>1, <1>3, <1>5, PicoStep DEF Phases, Core, Bookkeeping, victorVars

LEMMA PicoReceiveDataKeeps ==
  ASSUME TypeOK, Core, PicoReceiveData PROVE Core'
  <1>1. PICK good \in BOOLEAN :
          /\ vpc = "dataStatus" /\ toVictor = <<>> /\ (~good => hits >= attempt)
          /\ toPico = <<DataPacket(Current.val, good)>> /\ executions = 0 /\ hits + 1 >= attempt
          /\ Matches
    BY ShortQueues DEF PicoReceiveData, Waiting, Core, Phases, Resting, Asking, Feeding, Accepted,
                       Taking, ClosingAck
  <1>2. Head(toPico).good = good /\ Tail(toPico) = <<>>
        /\ (good => Head(toPico).val = Current.val)
    BY <1>1, ShortQueues, Parts
  <1>3. /\ UNCHANGED victorVars
        /\ UNCHANGED <<pReq, pResp, pNull, disk, hits, executions, effect>>
        /\ toPico' = <<>> /\ toVictor' = <<Status(CrcStatus(Head(toPico)))>>
        /\ pData' = Head(toPico).val
    BY <1>1, <1>2, ShortQueues DEF PicoReceiveData, history
  <1>4. Current' = Current /\ Matches'
    BY <1>1, <1>3 DEF victorVars, Current, Matches
  <1>5. Feeding'
    <2>1. CASE good
      <3>1. CrcStatus(Head(toPico)) = "OK"
        BY <1>2, <2>1 DEF CrcStatus
      <3>2. ppc' = "dispatch"
        BY <3>1 DEF PicoReceiveData, AfterDataPacket
      <3>3. Accepted(<<Status("OK")>>)'
        BY <1>1, <1>2, <1>3, <1>4, <2>1, <3>1, <3>2 DEF Accepted
      <3> QED BY <1>1, <1>3, <3>3 DEF Feeding, victorVars
    <2>2. CASE ~good
      <3>1. CrcStatus(Head(toPico)) = "INVALID_CRC"
        BY <1>2, <2>2 DEF CrcStatus
      <3>2. ppc' = "receiveCommand"
        BY <3>1 DEF PicoReceiveData, AfterDataPacket
      <3> QED BY <1>1, <1>3, <2>2, <3>1, <3>2 DEF Feeding, victorVars
    <2> QED BY <2>1, <2>2
  <1> QED BY <1>1, <1>3, <1>5, PicoStep DEF Phases, Core, Bookkeeping, victorVars

\* The Pico dispatches only what the driver waits for.
LEMMA Dispatching ==
  ASSUME TypeOK, Core, ppc = "dispatch"
  PROVE  /\ vpc \in {"dataStatus", "responseCommand"}
         /\ toPico = <<>> /\ executions = 0 /\ Matches /\ pData = Current.val
         /\ effect = "none"
         /\ vpc = "dataStatus" => toVictor = <<Status("OK")>> /\ hits + 1 >= attempt
         /\ vpc = "responseCommand" => toVictor = <<>>
  <1>1. /\ vpc \in {"dataStatus", "responseCommand"}
        /\ toPico = <<>> /\ executions = 0 /\ Matches /\ pData = Current.val
        /\ vpc = "dataStatus" => toVictor = <<Status("OK")>> /\ hits + 1 >= attempt
        /\ vpc = "responseCommand" => toVictor = <<>>
    BY DEF Core, Phases, Resting, Asking, Feeding, Accepted, Taking, ClosingAck
  <1> QED BY <1>1 DEF Core, Bookkeeping

LEMMA PicoDispatchKeeps ==
  ASSUME TypeOK, Core, PicoDispatch PROVE Core'
  <1>1. ppc = "dispatch"
    BY DEF PicoDispatch
  <1>2. /\ ppc' = "transmit" /\ pNull' = FALSE /\ executions' = 1
        /\ UNCHANGED <<pReq, toPico, toVictor, hits>> /\ UNCHANGED victorVars
        /\ disk' = (IF pReq.kind = "write" THEN [disk EXCEPT ![pReq.sector] = pData] ELSE disk)
        /\ effect' = (IF pReq.kind = "log" THEN effect ELSE "applied")
        /\ pResp' = (IF pReq.kind = "read" THEN disk[pReq.sector] ELSE NoData)
    BY <1>1, Dispatching DEF PicoDispatch, line
  <1>3. Current' = Current
    BY <1>2 DEF Current, victorVars
  <1>4. Served'
    <2>1. Matches'
      BY <1>1, <1>2, <1>3, Dispatching DEF Matches
    <2>2. Current.kind = "write" => disk'[Current.sector] = Current.val
      BY <1>1, <1>2, Dispatching, CurrentType DEF Matches, TypeOK
    <2>3. Current.kind = "read" => pResp' = disk'[Current.sector]
      BY <1>1, <1>2, Dispatching DEF Matches
    <2> QED BY <1>2, <1>3, <2>1, <2>2, <2>3 DEF Served
  <1>5. Phases'
    BY <1>1, <1>2, <1>4, Dispatching DEF Phases, Feeding, Accepted, victorVars
  <1>6. Bookkeeping'
    <2>1. logging => pReq.kind = "log"
      BY <1>1, Dispatching DEF Matches, Current, LogRequest
    <2>2. ~logging => pReq.kind # "log"
      BY <1>1, Dispatching DEF Matches, Current, TypeOK, Op, ReadOp, WriteOp
    <2> QED BY <1>1, <1>2, <2>1, <2>2, Dispatching DEF Core, Bookkeeping, victorVars, TypeOK
  <1> QED BY <1>1, <1>2, <1>5, <1>6, Dispatching, PicoStep

LEMMA PicoDispatchFailsKeeps ==
  ASSUME TypeOK, Core, PicoDispatchFails PROVE Core'
  <1>1. ppc = "dispatch"
    BY DEF PicoDispatchFails
  <1>2. /\ ppc' \in {"transmit", "halted"} /\ pNull' = TRUE /\ executions' = 1
        /\ UNCHANGED <<pReq, toPico, toVictor, hits>> /\ UNCHANGED victorVars
        /\ effect' = "spoiled" /\ pReq.kind # "log"
    BY <1>1, Dispatching DEF PicoDispatchFails, line
  <1>3. Current' = Current
    BY <1>2 DEF Current, victorVars
  <1>4. Served'
    BY <1>1, <1>2, <1>3, Dispatching DEF Served, Matches
  <1>5. Phases'
    BY <1>1, <1>2, <1>4, Dispatching DEF Phases, Feeding, Accepted, victorVars
  <1>6. Bookkeeping'
    <2>1. ~logging
      BY <1>1, <1>2, Dispatching DEF Matches, Current, LogRequest
    <2> QED BY <1>1, <1>2, <2>1, Dispatching DEF Core, Bookkeeping, victorVars, TypeOK
  <1> QED BY <1>1, <1>2, <1>5, <1>6, Dispatching, PicoStep

LEMMA PicoTransmitCommandKeeps ==
  ASSUME TypeOK, Core, PicoTransmitCommand PROVE Core'
  <1>1. PICK good \in BOOLEAN : /\ pNull => ~good
                                /\ toVictor' = Append(toVictor, ResponseCommand(good))
    BY DEF PicoTransmitCommand
  <1>2. /\ ppc = "transmit" /\ ppc' = "commandAck" /\ UNCHANGED victorVars
        /\ UNCHANGED <<pReq, pData, pResp, pNull, disk, toPico, hits, executions, effect>>
    BY DEF PicoTransmitCommand, history
  <1>3. Current' = Current /\ (Served => Served')
    BY <1>2 DEF victorVars, Current, Served, Matches
  <1>4. \A queue : Accepted(queue) => Accepted(queue)' /\ executions = 1
    BY <1>1, <1>2, <1>3 DEF Accepted, Served
  <1>5. \/ vpc = "dataStatus" /\ Accepted(<<Status("OK")>>)
        \/ vpc = "responseCommand" /\ Accepted(<<>>)
    <2>1. ~Resting /\ ~Asking /\ ~Taking
      BY <1>2 DEF Resting, Asking, Taking, ClosingAck
    <2>2. Feeding => Accepted(<<Status("OK")>>)
      BY <1>2 DEF Feeding
    <2> QED BY <2>1, <2>2 DEF Core, Phases
  <1>6. Phases'
    BY <1>2, <1>4, <1>5 DEF Core, Phases, Feeding, victorVars
  <1> QED BY <1>2, <1>4, <1>5, <1>6, PicoStep DEF Core, Bookkeeping, victorVars

LEMMA PicoCommandAckKeeps ==
  ASSUME TypeOK, Core, PicoCommandAck PROVE Core'
  <1>1. /\ ppc = "commandAck" /\ toPico # <<>> /\ UNCHANGED victorVars
        /\ UNCHANGED <<pReq, pData, pResp, pNull, disk, hits, executions, effect>>
        /\ toPico' = Tail(toPico)
    BY DEF PicoCommandAck, Waiting, history
  <1>2. Current' = Current /\ (Served => Served')
    BY <1>1 DEF victorVars, Current, Served, Matches
  <1>3. Bookkeeping'
    BY <1>1 DEF Core, Bookkeeping, victorVars
  <1>4. CASE vpc = "responseData" /\ Taking
    <2>1. toPico = <<Status("OK")>> /\ toVictor = <<>> /\ Served /\ ~pNull
      BY <1>1, <1>4 DEF Taking
    <2>2. Head(toPico).code = "OK" /\ Tail(toPico) = <<>>
      BY <2>1, ShortQueues, Parts
    <2>3. PICK good \in BOOLEAN : toVictor' = Append(toVictor, DataPacket(pResp, good))
      BY <2>2 DEF PicoCommandAck
    <2>4. ppc' = "dataAck" /\ toVictor' = <<DataPacket(pResp', good)>>
      BY <1>1, <2>1, <2>2, <2>3, ShortQueues DEF PicoCommandAck
    <2>5. Taking'
      BY <1>1, <1>2, <2>1, <2>2, <2>4 DEF Taking
    <2> QED BY <1>1, <1>3, <1>4, <2>1, <2>5, PicoStep DEF Phases, victorVars, Served
  <1>5. ASSUME toPico = <<Status("INVALID_CRC")>>, vpc \in {"idle", "ready"}, Resting PROVE Core'
    <2>1. Head(toPico).code = "INVALID_CRC" /\ Tail(toPico) = <<>>
      BY <1>5, ShortQueues, Parts
    <2>2. ppc' \in {"receiveCommand", "halted"} /\ toVictor' = toVictor
      BY <2>1 DEF PicoCommandAck, AfterBadAck
    <2>3. Resting'
      BY <1>1, <1>5, <2>1, <2>2 DEF Resting
    <2>4. Phases'
      BY <1>1, <1>5, <2>3 DEF Phases, victorVars
    <2> QED BY <1>1, <1>3, <2>4, PicoStep DEF Core, AtMostOnce, TypeOK
  <1>6. ASSUME NEW good \in BOOLEAN, vpc = "commandStatus", Asking, toVictor = <<>>, ~good => hits >= attempt,
               toPico = <<Status("INVALID_CRC"), CommandPacket(Current, good)>>
        PROVE  Core'
    <2>1. Head(toPico).code = "INVALID_CRC" /\ Tail(toPico) = <<CommandPacket(Current, good)>>
      BY <1>6, ShortQueues, Parts
    <2>2. ppc' \in {"receiveCommand", "halted"} /\ toVictor' = toVictor
      BY <2>1 DEF PicoCommandAck, AfterBadAck
    <2>3. Asking'
      BY <1>1, <1>2, <1>6, <2>1, <2>2 DEF Asking, victorVars
    <2>4. Phases'
      BY <1>1, <1>6, <2>3 DEF Phases, victorVars
    <2> QED BY <1>1, <1>3, <2>4, PicoStep DEF Core, AtMostOnce, TypeOK
  <1>7. \/ vpc = "responseData" /\ Taking
        \/ vpc \in {"idle", "ready"} /\ Resting /\ toPico = <<Status("INVALID_CRC")>>
        \/ /\ vpc = "commandStatus" /\ Asking /\ toVictor = <<>>
           /\ \E good \in BOOLEAN : /\ ~good => hits >= attempt
                                    /\ toPico = <<Status("INVALID_CRC"), CommandPacket(Current, good)>>
    BY <1>1 DEF Core, Phases, Resting, Asking, Feeding, Accepted, ClosingAck
  <1> QED BY <1>4, <1>5, <1>6, <1>7

LEMMA PicoDataAckKeeps ==
  ASSUME TypeOK, Core, PicoDataAck PROVE Core'
  <1>1. /\ ppc = "dataAck" /\ toPico # <<>> /\ ppc' = "receiveCommand" /\ UNCHANGED victorVars
        /\ UNCHANGED <<pReq, pData, pResp, pNull, disk, hits, executions, effect, toVictor>>
        /\ toPico' = Tail(toPico)
    BY DEF PicoDataAck, Waiting, history
  <1>2. Current' = Current
    BY <1>1 DEF victorVars, Current
  <1>3. Bookkeeping'
    BY <1>1 DEF Core, Bookkeeping, victorVars
  <1>4. ASSUME NEW st \in Statuses, toPico = <<st>>, vpc \in {"idle", "ready"}, Resting PROVE Core'
    <2>1. Resting'
      BY <1>1, <1>4, ShortQueues DEF Resting
    <2>2. Phases'
      BY <1>1, <1>4, <2>1 DEF Phases, victorVars
    <2> QED BY <1>1, <1>3, <2>2, PicoStep DEF Core, AtMostOnce, TypeOK
  <1>5. ASSUME NEW good \in BOOLEAN, NEW st \in Statuses, vpc = "commandStatus", Asking,
               toVictor = <<>>, ~good => hits >= attempt,
               toPico = <<st, CommandPacket(Current, good)>>
        PROVE  Core'
    <2>1. toPico' = <<CommandPacket(Current', good)>>
      BY <1>1, <1>2, <1>5, ShortQueues
    <2>2. Asking'
      BY <1>1, <1>5, <2>1 DEF Asking, victorVars
    <2>3. Phases'
      BY <1>1, <1>5, <2>2 DEF Phases, victorVars
    <2> QED BY <1>1, <1>3, <2>3, PicoStep DEF Core, AtMostOnce, TypeOK
  <1>6. \/ /\ vpc \in {"idle", "ready"} /\ Resting
           /\ \E st \in Statuses : toPico = <<st>>
        \/ /\ vpc = "commandStatus" /\ Asking /\ toVictor = <<>>
           /\ \E good \in BOOLEAN, st \in Statuses :
                 /\ ~good => hits >= attempt
                 /\ toPico = <<st, CommandPacket(Current, good)>>
    BY <1>1 DEF Core, Phases, Resting, Asking, Feeding, Accepted, Taking, ClosingAck
  <1> QED BY <1>4, <1>5, <1>6

LEMMA CoreNext == TypeOK /\ Core /\ [Next]_vars => Core'
  <1> SUFFICES ASSUME TypeOK, Core, [Next]_vars PROVE Core'
    OBVIOUS
  <1>1. CASE UNCHANGED vars
    BY <1>1 DEF vars, victorVars, picoVars, line, history, Core, Phases, Resting, Asking, Feeding,
                Accepted, Taking, ClosingAck, Served, Matches, Current, Bookkeeping, AtMostOnce,
                DoneMeansDone, GiveUpIsEarned
  <1>2. CASE \E op \in Op : DosCall(op)
    BY <1>2, DosCallKeeps
  <1>3. CASE Victor
    BY <1>3, BeginPayloadKeeps, VictorCommandStatusKeeps, VictorDataStatusKeeps,
       VictorResponseCommandKeeps, VictorResponseDataKeeps DEF Victor
  <1>4. CASE Pico
    BY <1>4, PicoReceiveCommandKeeps, PicoReceiveDataKeeps, PicoDispatchKeeps,
       PicoDispatchFailsKeeps, PicoTransmitCommandKeeps, PicoCommandAckKeeps,
       PicoDataAckKeeps DEF Pico
  <1> QED BY <1>1, <1>2, <1>3, <1>4 DEF Next

\* Where the two ends and the two queues can be together is an invariant.
THEOREM Inductive == Spec => []IInv
  <1>1. Init => IInv
    BY TypeInit, CoreInit DEF IInv, Core
  <1>2. IInv /\ [Next]_vars => IInv'
    BY TypeNext, CoreNext DEF IInv, Core
  <1> QED BY <1>1, <1>2, PTL DEF Spec

\* A payload is dispatched at most once, whatever the line does and however
\* often send_command_payload starts over.
THEOREM ExecutedAtMostOnce == Spec => []AtMostOnce
  BY Inductive, PTL DEF IInv

\* S_DONE is told only of what happened.
THEOREM DoneIsTrue == Spec => []DoneMeansDone
  BY Inductive, PTL DEF IInv

\* A request is given up unexecuted only when every attempt lost a packet.
THEOREM GivenUpOnlyWhenEarned == Spec => []GiveUpIsEarned
  BY Inductive, PTL DEF IInv

-----------------------------------------------------------------------------
(* Keeping step follows from the invariant, state by state. *)

LEMMA QueueLengths ==
  /\ Len(<<>>) = 0
  /\ \A m : Len(<<m>>) = 1
  /\ \A a, b : Len(<<a, b>>) = 2
  OBVIOUS

LEMMA InStepHolds == IInv => InStep
  <1> SUFFICES ASSUME IInv PROVE InStep
    OBVIOUS
  <1> DEFINE PicoReads == CASE ppc = "receiveCommand" -> "command"
                            [] ppc = "receiveData" -> "data"
                            [] ppc \in {"commandAck", "dataAck"} -> "status"
                            [] OTHER -> "nothing"
             VictorReads == CASE vpc \in {"commandStatus", "dataStatus"} -> "status"
                              [] vpc = "responseCommand" -> "response"
                              [] vpc = "responseData" -> "data"
                              [] OTHER -> "nothing"
             Goal == /\ toPico # <<>> /\ ppc # "halted" => Head(toPico).part = PicoReads
                     /\ toVictor # <<>> => Head(toVictor).part = VictorReads
                     /\ Len(toPico) <= 2 /\ Len(toVictor) <= 2
  <1>r. /\ ppc = "receiveCommand" => PicoReads = "command"
        /\ ppc = "receiveData" => PicoReads = "data"
        /\ ppc \in {"commandAck", "dataAck"} => PicoReads = "status"
    OBVIOUS
  <1>s. /\ vpc \in {"commandStatus", "dataStatus"} => VictorReads = "status"
        /\ vpc = "responseCommand" => VictorReads = "response"
        /\ vpc = "responseData" => VictorReads = "data"
    OBVIOUS
  <1>q. InStep <=> Goal
    BY DEF InStep
  <1> HIDE DEF PicoReads, VictorReads
  <1> SUFFICES Goal
    BY <1>q
  <1>c. \A st : ClosingAck(st) => ppc \in {"commandAck", "dataAck"} /\ st.part = "status"
    BY Parts DEF ClosingAck
  <1>a. \A queue : Accepted(queue) =>
          /\ toPico = <<>>
          /\ toVictor = queue \/ \E good : toVictor = Append(queue, ResponseCommand(good))
    BY DEF Accepted
  <1>1. CASE vpc \in {"idle", "ready"} /\ Resting
    <2>1. CASE toPico = <<>>
      BY <1>1, <2>1, QueueLengths DEF Resting
    <2>2. ASSUME NEW st, toPico = <<st>>, ClosingAck(st) PROVE Goal
      BY <1>1, <2>2, <1>r, <1>c, ShortQueues, QueueLengths DEF Resting
    <2> QED BY <1>1, <2>1, <2>2 DEF Resting
  <1>2. CASE vpc = "commandStatus" /\ Asking
    <2>1. CASE toVictor = <<>> /\ \E good \in BOOLEAN : toPico = <<CommandPacket(Current, good)>>
                                                      /\ ppc \in {"receiveCommand", "halted"}
      BY <2>1, <1>r, Parts, ShortQueues, QueueLengths
    <2>2. CASE toVictor = <<>> /\ \E good \in BOOLEAN, st \in Statuses :
                                    toPico = <<st, CommandPacket(Current, good)>> /\ ClosingAck(st)
      BY <2>2, <1>r, <1>c, ShortQueues, QueueLengths
    <2>3. CASE toPico = <<>> /\ \E code : toVictor = <<Status(code)>>
      BY <1>2, <2>3, <1>s, Parts, ShortQueues, QueueLengths
    <2> QED BY <1>2, <2>1, <2>2, <2>3 DEF Asking
  <1>4. CASE vpc = "dataStatus" /\ Feeding
    <2>1. CASE toVictor = <<>> /\ ppc = "receiveData"
               /\ \E good \in BOOLEAN : toPico = <<DataPacket(Current.val, good)>>
      BY <2>1, <1>r, Parts, ShortQueues, QueueLengths
    <2>2. CASE toPico = <<>> /\ toVictor = <<Status("INVALID_CRC")>>
      BY <1>4, <2>2, <1>s, Parts, ShortQueues, QueueLengths
    <2>3. CASE Accepted(<<Status("OK")>>)
      <3>1. toPico = <<>>
        BY <1>a, <2>3
      <3>2. CASE toVictor = <<Status("OK")>>
        BY <1>4, <3>1, <3>2, <1>s, Parts, ShortQueues, QueueLengths
      <3>3. ASSUME NEW good, toVictor = Append(<<Status("OK")>>, ResponseCommand(good)) PROVE Goal
        <4>1. toVictor = <<Status("OK"), ResponseCommand(good)>>
          BY <3>3, ShortQueues
        <4> QED BY <1>4, <3>1, <4>1, <1>s, Parts, ShortQueues, QueueLengths
      <3> QED BY <1>a, <2>3, <3>2, <3>3
    <2> QED BY <1>4, <2>1, <2>2, <2>3 DEF Feeding
  <1>5. CASE vpc = "responseCommand" /\ Accepted(<<>>)
    <2>1. toPico = <<>>
      BY <1>a, <1>5
    <2>2. CASE toVictor = <<>>
      BY <2>1, <2>2, QueueLengths
    <2>3. ASSUME NEW good, toVictor = Append(<<>>, ResponseCommand(good)) PROVE Goal
      <3>1. toVictor = <<ResponseCommand(good)>>
        BY <2>3, ShortQueues
      <3> QED BY <1>5, <2>1, <3>1, <1>s, Parts, ShortQueues, QueueLengths
    <2> QED BY <1>a, <1>5, <2>2, <2>3
  <1>6. CASE vpc = "responseData" /\ Taking
    <2>1. CASE toPico = <<Status("OK")>> /\ toVictor = <<>> /\ ppc = "commandAck"
      BY <2>1, <1>r, Parts, ShortQueues, QueueLengths
    <2>2. CASE toPico = <<>> /\ \E good \in BOOLEAN : toVictor = <<DataPacket(pResp, good)>>
      BY <1>6, <2>2, <1>s, Parts, ShortQueues, QueueLengths
    <2> QED BY <1>6, <2>1, <2>2 DEF Taking
  <1> QED BY <1>1, <1>2, <1>4, <1>5, <1>6 DEF IInv, Phases

\* The two ends never lose step: no byte is ever read as something else.
THEOREM KeepsStep == Spec => []InStep
  BY Inductive, InStepHolds, PTL

\* The image changes only under the write DOS waits for.
THEOREM WritesAreAskedFor == Spec => OnlyTheCallersWrite
  <1>1. IInv /\ [Next]_vars => [DiskChange]_vars
    <2> SUFFICES ASSUME IInv, Next PROVE DiskChange
      BY DEF vars
    <2>t. TypeOK /\ Core
      BY DEF IInv, Core
    <2>1. CASE PicoDispatch
      <3>1. ppc = "dispatch"
        BY <2>1 DEF PicoDispatch
      <3>2. disk' = IF pReq.kind = "write" THEN [disk EXCEPT ![pReq.sector] = pData] ELSE disk
        BY <2>1 DEF PicoDispatch
      <3>3. pReq.kind = "write" => ~logging /\ Current = dosOp
        BY <2>t, <3>1, Dispatching DEF Matches, Current, LogRequest
      <3> QED BY <2>t, <3>1, <3>2, <3>3, Dispatching DEF DiskChange, Matches, TypeOK
    <2>2. CASE PicoDispatchFails
      <3>1. ppc = "dispatch" /\ sdFailures' > sdFailures
        BY <2>t, <2>2 DEF PicoDispatchFails, TypeOK
      <3>2. \/ disk' = disk
            \/ pReq.kind = "write" /\ \E c : disk' = [disk EXCEPT ![pReq.sector] = c]
        BY <2>2 DEF PicoDispatchFails
      <3>3. pReq.kind = "write" => ~logging /\ Current = dosOp
        BY <2>t, <3>1, Dispatching DEF Matches, Current, LogRequest
      <3> QED BY <2>t, <3>1, <3>2, <3>3, Dispatching DEF DiskChange, Matches, TypeOK
    <2>3. ASSUME ~PicoDispatch, ~PicoDispatchFails PROVE disk' = disk
      BY <2>3 DEF Next, Victor, Pico, DosCall, BeginPayload, VictorCommandStatus, VictorDataStatus,
                  VictorResponseCommand, VictorResponseData, PicoReceiveCommand, PicoReceiveData,
                  PicoTransmitCommand, PicoCommandAck, PicoDataAck, picoVars
    <2> QED BY <2>1, <2>2, <2>3 DEF DiskChange
  <1> QED BY <1>1, Inductive, PTL DEF Spec, OnlyTheCallersWrite

-----------------------------------------------------------------------------
(* The protocol implements the block device. *)

LEMMA SameOps == Promise!Op = Op
  BY DEF Promise!Op, Promise!ReadOp, Promise!WriteOp, Op, ReadOp, WriteOp, NoData

LEMMA PromiseInit == Init => Promise!Init
  BY SameOps DEF Init, Promise!Init, Phase, Answer

\* A driver step that ends no DOS request is invisible to the block device.
LEMMA Invisible ==
  ASSUME UNCHANGED <<disk, dosOp, effect, buffer>>,
         effect = "none" \/ UNCHANGED pResp,
         vpc # "idle", vpc' # "idle"
  PROVE  UNCHANGED Promise!vars
  BY DEF Promise!vars, Phase, Answer

\* A driver step that ends the DOS request in an error is a Fail.
LEMMA ErrorIsFail ==
  ASSUME TypeOK, disk' = disk, dosOp' = dosOp, effect' = effect, pResp' = pResp, vpc # "idle",
         vpc' = "idle", result' = "S_ERROR",
         buffer' = buffer \/ (dosOp.kind = "read" /\ buffer' = Garbage)
  PROVE  Promise!Fail
  <1>1. Phase \in {"called", "applied", "spoiled"} /\ Phase' = "failed" /\ Answer' = Answer
    BY DEF Phase, Answer, TypeOK
  <1> QED BY <1>1 DEF Promise!Fail

LEMMA RetryIsFailOrInvisible ==
  ASSUME TypeOK, RetryOrGiveUp, UNCHANGED <<disk, dosOp, effect, buffer, pResp>>, vpc # "idle"
  PROVE  Promise!Next \/ UNCHANGED Promise!vars
  <1>1. CASE vpc' # "idle"
    BY <1>1, Invisible
  <1>2. CASE vpc' = "idle"
    <2>1. result' = "S_ERROR"
      BY <1>2 DEF RetryOrGiveUp, EndPayload
    <2>2. Promise!Fail
      BY <1>2, <2>1, ErrorIsFail
    <2> QED BY <2>2 DEF Promise!Next
  <1> QED BY <1>1, <1>2

LEMMA PromiseStep ==
  ASSUME IInv, [Next]_vars PROVE [Promise!Next]_(Promise!vars)
  <1> DEFINE Goal == Promise!Next \/ UNCHANGED Promise!vars
  <1> SUFFICES Goal
    OBVIOUS
  <1>t. TypeOK /\ Core
    BY DEF IInv, Core
  <1>1. ASSUME NEW op \in Op, DosCall(op) PROVE Goal
    <2>1. Phase \in {"returned", "failed"} /\ Phase' = "called" /\ Answer' = Garbage
      BY <1>1 DEF DosCall, Phase, Answer
    <2>2. Promise!Call(op)
      BY <1>1, <2>1 DEF DosCall, Promise!Call, picoVars
    <2> QED BY <1>1, <2>2, SameOps DEF Promise!Next
  <1>2. CASE BeginPayload
    BY <1>2, Invisible DEF BeginPayload, picoVars
  <1>3. CASE VictorCommandStatus
    <2>1. UNCHANGED <<disk, dosOp, effect, buffer, pResp>> /\ vpc = "commandStatus"
      BY <1>3 DEF VictorCommandStatus, picoVars
    <2>2. RetryOrGiveUp \/ vpc' = "dataStatus"
      BY <1>3 DEF VictorCommandStatus
    <2> QED BY <1>t, <2>1, <2>2, RetryIsFailOrInvisible, Invisible
  <1>4. CASE VictorDataStatus
    <2>1. UNCHANGED <<disk, dosOp, effect, buffer, pResp>> /\ vpc = "dataStatus"
      BY <1>4 DEF VictorDataStatus, picoVars
    <2>2. RetryOrGiveUp \/ vpc' = "responseCommand"
      BY <1>4 DEF VictorDataStatus
    <2> QED BY <1>t, <2>1, <2>2, RetryIsFailOrInvisible, Invisible
  <1>5. CASE VictorResponseCommand
    <2>1. UNCHANGED <<disk, dosOp, effect, buffer, pResp>> /\ vpc = "responseCommand"
      BY <1>5 DEF VictorResponseCommand, picoVars, history
    <2>2. vpc' # "idle" \/ result' = "S_ERROR"
      BY <1>5 DEF VictorResponseCommand, EndPayload
    <2>3. CASE vpc' # "idle"
      BY <2>1, <2>3, Invisible
    <2>4. CASE vpc' = "idle"
      <3>1. Promise!Fail
        BY <1>t, <2>1, <2>2, <2>4, ErrorIsFail
      <3> QED BY <3>1 DEF Promise!Next
    <2> QED BY <2>3, <2>4
  <1>6. CASE VictorResponseData
    <2>1. PICK good \in BOOLEAN : toVictor = <<DataPacket(pResp, good)>> /\ Served /\ ~pNull
      BY <1>t, <1>6 DEF VictorResponseData, Waiting, Core, Phases, Taking
    <2>2. Head(toVictor).good = good /\ Head(toVictor).val = IF good THEN pResp ELSE Garbage
      BY <2>1, ShortQueues, Parts
    <2>3. /\ UNCHANGED <<disk, dosOp, effect, pResp>> /\ vpc = "responseData"
          /\ vpc' = (IF logging THEN "ready" ELSE "idle")
          /\ result' = (IF logging THEN result ELSE IF good THEN "S_DONE" ELSE "S_ERROR")
          /\ buffer' = (IF Current.kind = "read" THEN Head(toVictor).val ELSE buffer)
      BY <1>6, <2>2 DEF VictorResponseData, picoVars, history, EndPayload, CrcStatus
    <2>4. CASE logging
      <3>1. buffer' = buffer
        BY <2>3, <2>4 DEF Current, LogRequest
      <3> QED BY <2>3, <2>4, <3>1, Invisible
    <2>5. CASE ~logging /\ ~good
      <3>1. buffer' = buffer \/ (dosOp.kind = "read" /\ buffer' = Garbage)
        <4>1. Head(toVictor).val = Garbage /\ Current = dosOp
          BY <2>2, <2>5 DEF Current
        <4>2. buffer' = IF Current.kind = "read" THEN Head(toVictor).val ELSE buffer
          BY <2>3
        <4>3. CASE Current.kind = "read"
          BY <4>1, <4>2, <4>3
        <4>4. CASE Current.kind # "read"
          BY <4>2, <4>4
        <4> QED BY <4>3, <4>4
      <3>2. vpc' = "idle" /\ result' = "S_ERROR"
        BY <2>3, <2>5
      <3>3. Promise!Fail
        BY <1>t, <2>3, <3>1, <3>2, ErrorIsFail
      <3> QED BY <3>3 DEF Promise!Next
    <2>6. CASE ~logging /\ good
      <3>1. effect = "applied"
        BY <1>t, <2>1, <2>3, <2>6 DEF Core, Bookkeeping, Served
      <3>2. Phase = "applied" /\ Phase' = "returned" /\ Answer' = Answer
        BY <2>3, <2>6, <3>1 DEF Phase, Answer
      <3>3. buffer' = IF dosOp.kind = "read" THEN Answer ELSE buffer
        BY <2>2, <2>3, <2>6, <3>1 DEF Current, Answer
      <3>4. Promise!Succeed
        BY <2>3, <3>2, <3>3 DEF Promise!Succeed
      <3> QED BY <3>4 DEF Promise!Next
    <2> QED BY <2>4, <2>5, <2>6
  <1>7. CASE PicoDispatch
    <2>1. ppc = "dispatch" /\ UNCHANGED victorVars
      BY <1>7 DEF PicoDispatch
    <2>2. vpc # "idle" /\ vpc' # "idle" /\ effect = "none" /\ Matches /\ pData = Current.val
      BY <1>t, <2>1, Dispatching DEF victorVars
    <2>3. CASE logging
      <3>1. pReq.kind = "log"
        BY <2>2, <2>3 DEF Matches, Current, LogRequest
      <3>2. UNCHANGED <<disk, dosOp, effect, buffer>>
        BY <1>7, <2>1, <3>1 DEF PicoDispatch, victorVars
      <3> QED BY <2>2, <3>2, Invisible
    <2>4. CASE ~logging
      <3>1. /\ pReq.kind = dosOp.kind /\ pReq.sector = dosOp.sector /\ pData = dosOp.val
            /\ dosOp.kind \in {"read", "write"}
        BY <1>t, <2>2, <2>4 DEF Matches, Current, TypeOK, Op, ReadOp, WriteOp
      <3>2. /\ effect' = "applied" /\ UNCHANGED <<dosOp, buffer>>
            /\ disk' = (IF pReq.kind = "write" THEN [disk EXCEPT ![pReq.sector] = pData] ELSE disk)
            /\ pResp' = (IF pReq.kind = "read" THEN disk[pReq.sector] ELSE NoData)
        BY <1>7, <2>1, <3>1 DEF PicoDispatch, victorVars
      <3>3. Phase = "called" /\ Phase' = "applied" /\ Answer = Garbage
            /\ Answer' = (IF dosOp.kind = "read" THEN pResp' ELSE Garbage)
        BY <2>2, <3>2 DEF Phase, Answer
      <3>4. Promise!Apply
        BY <3>1, <3>2, <3>3 DEF Promise!Apply
      <3> QED BY <3>4 DEF Promise!Next
    <2> QED BY <2>3, <2>4
  <1>8. CASE PicoDispatchFails
    <2>1. ppc = "dispatch" /\ UNCHANGED victorVars /\ pReq.kind # "log"
      BY <1>8 DEF PicoDispatchFails
    <2>2. vpc # "idle" /\ vpc' # "idle" /\ effect = "none" /\ Matches /\ pData = Current.val
      BY <1>t, <2>1, Dispatching DEF victorVars
    <2>3. /\ pReq.kind = dosOp.kind /\ pReq.sector = dosOp.sector /\ pData = dosOp.val
      BY <2>1, <2>2 DEF Matches, Current, LogRequest
    <2>4. /\ effect' = "spoiled" /\ UNCHANGED <<dosOp, buffer, pResp>>
          /\ \/ UNCHANGED disk
             \/ /\ pReq.kind = "write"
                /\ \E c \in {pData, Garbage} : disk' = [disk EXCEPT ![pReq.sector] = c]
      BY <1>8, <2>1 DEF PicoDispatchFails, victorVars
    <2>5. Phase = "called" /\ Phase' = "spoiled" /\ Answer = Garbage /\ Answer' = Garbage
      BY <2>2, <2>4 DEF Phase, Answer
    <2>6. Promise!Spoil
      BY <2>3, <2>4, <2>5 DEF Promise!Spoil
    <2> QED BY <2>6 DEF Promise!Next
  <1>9. ASSUME PicoReceiveCommand \/ PicoReceiveData \/ PicoTransmitCommand \/ PicoCommandAck \/ PicoDataAck
        PROVE  Goal
    <2>1. UNCHANGED victorVars /\ UNCHANGED history /\ UNCHANGED <<disk, pResp>>
      BY <1>9 DEF PicoReceiveCommand, PicoReceiveData, PicoTransmitCommand, PicoCommandAck, PicoDataAck
    <2> QED BY <2>1 DEF victorVars, history, Promise!vars, Phase, Answer
  <1>10. CASE UNCHANGED vars
    BY <1>10 DEF vars, victorVars, picoVars, history, Promise!vars, Phase, Answer
  <1> QED BY <1>1, <1>2, <1>3, <1>4, <1>5, <1>6, <1>7, <1>8, <1>9, <1>10 DEF Next, Victor, Pico

\* What DOS sees of the protocol is what the block device promises.
THEOREM Refinement == Spec => ImplementsBlockDevice
  <1>1. Init => Promise!Init
    BY PromiseInit
  <1>2. IInv /\ [Next]_vars => [Promise!Next]_(Promise!vars)
    BY PromiseStep
  <1> QED BY <1>1, <1>2, Inductive, PTL DEF Spec, ImplementsBlockDevice, Promise!Spec
=============================================================================
