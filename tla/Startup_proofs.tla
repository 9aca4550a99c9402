-------------------------- MODULE Startup_proofs ---------------------------
(***************************************************************************)
(* The start of the two machines, proved for any number of restarts, FIFOs *)
(* of any depth and a first request of any length.                         *)
(***************************************************************************)
EXTENDS Startup, SequenceTheorems, TLAPS

USE CountsAssumption, RequestAssumption, FifoAssumption

LEMMA ByteValues ==
    /\ STARTUP_HANDSHAKE \in Byte /\ HANDSHAKE_RESPONSE \in Byte
    /\ STATUS_OK \in Byte /\ INVALID_CRC \in Byte
    /\ STATUS_OK # HANDSHAKE_RESPONSE /\ INVALID_CRC # HANDSHAKE_RESPONSE
BY DEF STARTUP_HANDSHAKE, HANDSHAKE_RESPONSE, STATUS_OK, INVALID_CRC, Byte

-----------------------------------------------------------------------------
(* The type of the port, for any alphabet of bytes *)

LEMMA HeldIsShort ==
    ASSUME NEW B, PortTypeOK(B)
    PROVE  held \in Seq(B) /\ Len(held) \in 0..1 /\ (held # <<>> => Len(held) = 1)
<1>1. CASE held = <<>>
  BY <1>1
<1>2. CASE \E b \in B : held = <<b>>
  BY <1>2
<1> QED BY <1>1, <1>2 DEF PortTypeOK

LEMMA RefilledFits ==
    ASSUME NEW B, PortTypeOK(B), rx # <<>>
    PROVE  /\ Refilled \in Seq(B)
           /\ Len(Refilled) = Len(rx) - 1 + Len(held)
           /\ Len(Refilled) <= FifoDepth
<1>1. rx \in Seq(B) /\ Len(rx) <= FifoDepth /\ FifoDepth \in Nat
  BY FifoAssumption DEF PortTypeOK
<1>2. Tail(rx) \in Seq(B) /\ Len(Tail(rx)) = Len(rx) - 1 /\ Len(rx) \in Nat
  BY <1>1, HeadTailProperties, LenProperties
<1>3. held \in Seq(B) /\ Len(held) \in 0..1
  BY HeldIsShort
<1>4. Tail(rx) \o held \in Seq(B) /\ Len(Tail(rx) \o held) = Len(Tail(rx)) + Len(held)
  BY <1>2, <1>3, ConcatProperties
<1>5. Refilled \in Seq(B) /\ Len(Refilled) = Len(Tail(rx)) + Len(held)
  BY <1>4 DEF Refilled
<1>6. Len(Refilled) = Len(rx) - 1 + Len(held) /\ Len(Refilled) <= FifoDepth
  <2> DEFINE m == Len(rx)
             t == Len(Tail(rx))
             h == Len(held)
             r == Len(Refilled)
  <2>1. m \in Nat /\ t = m - 1 /\ h \in 0..1 /\ r = t + h /\ m <= FifoDepth /\ FifoDepth \in Nat
    BY <1>1, <1>2, <1>3, <1>5
  <2> HIDE DEF m, t, h, r
  <2>2. r = m - 1 + h /\ r <= FifoDepth
    BY <2>1
  <2> QED BY <2>2 DEF m, t, h, r
<1> QED BY <1>5, <1>6

LEMMA WriteByteType ==
    ASSUME NEW B, PortTypeOK(B), NEW b \in B, WriteByte(b)
    PROVE  PortTypeOK(B)'
<1>1. CASE UNCHANGED <<rx, held>> /\ cb1' = Untaken
  BY <1>1 DEF WriteByte, PortTypeOK, Untaken
<1>2. CASE Room /\ rx' = Append(rx, b) /\ cb1' = TRUE /\ UNCHANGED held
  <2>1. Append(rx, b) \in Seq(B) /\ Len(Append(rx, b)) = Len(rx) + 1 /\ Len(rx) \in Nat
    BY AppendProperties, LenProperties DEF PortTypeOK
  <2>2. Len(rx') <= FifoDepth
    BY <1>2, <2>1, FifoAssumption DEF Room
  <2> QED BY <1>2, <2>1, <2>2 DEF WriteByte, PortTypeOK
<1>3. CASE held' = <<b>> /\ cb1' = Untaken /\ UNCHANGED rx
  BY <1>3 DEF WriteByte, PortTypeOK, Untaken
<1> QED BY <1>1, <1>2, <1>3 DEF WriteByte

LEMMA GetByteType ==
    ASSUME NEW B, PortTypeOK(B), GetByte
    PROVE  PortTypeOK(B)' /\ Head(rx) \in B
<1>1. rx # <<>> /\ rx \in Seq(B)
  BY DEF GetByte, PortTypeOK
<1>2. Refilled \in Seq(B) /\ Len(Refilled) <= FifoDepth
  BY <1>1, RefilledFits
<1>3. Head(rx) \in B
  BY <1>1, HeadTailProperties
<1> QED BY <1>2, <1>3 DEF GetByte, PortTypeOK

LEMMA PutByteType ==
    ASSUME NEW B, PortTypeOK(B), NEW b \in B, PutByte(b)
    PROVE  PortTypeOK(B)'
<1>1. CASE offering' = TRUE /\ portA' \in {<<b>>, portA} /\ UNCHANGED tx
  BY <1>1 DEF PutByte, PortTypeOK
<1>2. CASE Len(tx) < FifoDepth /\ tx' = Append(tx, b) /\ UNCHANGED <<offering, portA>>
  <2>1. Append(tx, b) \in Seq(B) /\ Len(Append(tx, b)) = Len(tx) + 1 /\ Len(tx) \in Nat
    BY AppendProperties, LenProperties DEF PortTypeOK
  <2>2. Len(tx') <= FifoDepth
    BY <1>2, <2>1, FifoAssumption
  <2> QED BY <1>2, <2>1, <2>2 DEF PutByte, PortTypeOK
<1> QED BY <1>1, <1>2 DEF PutByte

LEMMA TakenType ==
    ASSUME NEW B, PortTypeOK(B), Taken
    PROVE  /\ tx' \in Seq(B) /\ Len(tx') <= FifoDepth
           /\ offering' \in BOOLEAN
           /\ portA' \in {<<>>} \cup { <<b>> : b \in B }
<1>1. CASE portA' = <<>> /\ offering' = FALSE /\ UNCHANGED tx
  BY <1>1 DEF PortTypeOK
<1>2. CASE tx # <<>> /\ portA' = <<Head(tx)>> /\ tx' = Tail(tx) /\ UNCHANGED offering
  <2>1. tx \in Seq(B) /\ Len(tx) <= FifoDepth
    BY DEF PortTypeOK
  <2>2. Head(tx) \in B /\ Tail(tx) \in Seq(B) /\ Len(Tail(tx)) = Len(tx) - 1 /\ Len(tx) \in Nat
    BY <1>2, <2>1, HeadTailProperties, LenProperties
  <2>3. Len(tx') <= FifoDepth
    BY <1>2, <2>1, <2>2, FifoAssumption
  <2> QED BY <1>2, <2>2, <2>3 DEF PortTypeOK
<1> QED BY <1>1, <1>2 DEF Taken

LEMMA ReadByteType ==
    ASSUME NEW B, PortTypeOK(B), ReadByte
    PROVE  PortTypeOK(B)'
BY TakenType DEF ReadByte, PortTypeOK

LEMMA IdleType ==
    ASSUME NEW B, Idle, running \in BOOLEAN
    PROVE  PortTypeOK(B)
<1>1. <<>> \in Seq(B) /\ Len(<<>>) <= FifoDepth
  BY FifoAssumption
<1> QED BY <1>1, Zenon DEF Idle, PortTypeOK

-----------------------------------------------------------------------------
(* Type correctness *)

\* The part of TypeOK that is about the two programs.
ProgramsTypeOK ==
    /\ vpc \in {"handshake", "response", "send", "poll", "status", "sent", "failed"}
    /\ attempts \in 0 .. MaxHandshakes
    /\ sends \in 0 .. MaxSends
    /\ k \in 0 .. Len(Request)
    /\ ppc \in {"off", "mounting", "handshake", "answer", "protocol", "packet", "data"}
    /\ skipped \in 0 .. 3
    /\ packet \in Seq(Byte)
    /\ resets \in 0 .. MaxResets /\ reboots \in 0 .. MaxReboots
    /\ strays \in Nat /\ deaf \in BOOLEAN

LEMMA TypeParts == TypeOK <=> PortTypeOK(Byte) /\ ProgramsTypeOK
BY DEF TypeOK, ProgramsTypeOK

LEMMA RequestBytes ==
    /\ Len(Request) \in Nat /\ Len(Request) >= 5
    /\ \A n \in 1 .. Len(Request) : Request[n] \in Byte
<1>1. Request \in Seq(Byte)
  BY DEF Byte
<1> QED BY <1>1, ElementOfSeq, LenProperties

LEMMA TypeInit == Init => TypeOK
<1> SUFFICES ASSUME Init PROVE TypeOK
  OBVIOUS
<1>1. PortTypeOK(Byte)
  BY IdleType DEF Init
<1>2. packet \in Seq(Byte)
  BY EmptySeq DEF Init
<1>3. /\ 0 \in 0 .. MaxHandshakes /\ 0 \in 0 .. MaxSends /\ 0 \in 0 .. Len(Request)
      /\ 0 \in 0 .. 3 /\ 0 \in 0 .. MaxResets /\ 0 \in 0 .. MaxReboots /\ 0 \in Nat
  BY RequestBytes
<1>4. ProgramsTypeOK
  BY <1>2, <1>3, Zenon DEF Init, ProgramsTypeOK
<1> QED BY <1>1, <1>4, TypeParts

\* The steps of the port.
LEMMA PortStep ==
    ASSUME PortTypeOK(Byte), ProgramsTypeOK, Next
    PROVE  PortTypeOK(Byte)'
<1>1. CASE WriteHandshake
  BY <1>1, ByteValues, WriteByteType DEF WriteHandshake
<1>2. CASE SendByte
  <2>1. k + 1 \in 1 .. Len(Request)
    BY <1>2, RequestBytes DEF SendByte, ProgramsTypeOK
  <2> QED BY <1>2, <2>1, RequestBytes, WriteByteType DEF SendByte
<1>3. CASE ReadResponse \/ ReadStatus
  BY <1>3, ReadByteType DEF ReadResponse, ReadStatus
<1>4. CASE DiscardByte \/ GetHandshake \/ GetProtocol \/ GetPacketByte
  BY <1>4, GetByteType DEF DiscardByte, GetHandshake, GetProtocol, GetPacketByte
<1>5. CASE AnswerHandshake
  BY <1>5, ByteValues, PutByteType DEF AnswerHandshake
<1>6. CASE AnswerPacket
  BY <1>6, ByteValues, PutByteType DEF AnswerPacket
<1>7. CASE ResponseTimeout \/ GiveUpHandshake \/ PollEnds \/ Mounted
  BY <1>7 DEF ResponseTimeout, GiveUpHandshake, PollEnds, Mounted, port, PortTypeOK
<1>8. CASE StartPio
  BY <1>8 DEF StartPio, PortTypeOK
<1>9. CASE VictorReboots
  <2>1. CASE Taken
    BY <1>9, <2>1, TakenType DEF VictorReboots, PortTypeOK
  <2>2. CASE portA' = <<>> /\ UNCHANGED <<tx, offering>>
    BY <1>9, <2>2 DEF VictorReboots, PortTypeOK
  <2> QED BY <1>9, <2>1, <2>2 DEF VictorReboots, Latched
<1>10. CASE PicoResets
  <2>1. <<>> \in Seq(Byte) /\ Len(<<>>) = 0 /\ 0 <= FifoDepth
    BY EmptySeq
  <2> QED BY <1>10, <2>1 DEF PicoResets, PortTypeOK
<1> QED BY <1>1, <1>2, <1>3, <1>4, <1>5, <1>6, <1>7, <1>8, <1>9, <1>10 DEF Next, Victor, Pico

\* The steps of the programs: first those that move no byte to the Pico.
LEMMA VictorStep ==
    ASSUME ProgramsTypeOK, Victor
    PROVE  ProgramsTypeOK'
<1>1. CASE WriteHandshake
  <2>1. /\ attempts + 1 \in 0 .. MaxHandshakes
        /\ attempts' = attempts + 1 /\ vpc' = "response"
        /\ strays' \in {strays, strays + 1}
        /\ UNCHANGED <<sends, k, pico, resets, reboots, deaf>>
    BY <1>1 DEF WriteHandshake, ProgramsTypeOK
  <2>2. strays' \in Nat
    BY <2>1 DEF ProgramsTypeOK
  <2> QED BY <2>1, <2>2 DEF ProgramsTypeOK, pico
<1>2. CASE ReadResponse
  <2>1. /\ vpc' \in {"send", "handshake"} /\ sends' \in {1, sends} /\ k' \in {0, k}
        /\ UNCHANGED <<attempts, pico, history>>
    BY <1>2 DEF ReadResponse
  <2>2. sends' \in 0 .. MaxSends /\ k' \in 0 .. Len(Request)
    BY <2>1, RequestBytes DEF ProgramsTypeOK
  <2> QED BY <2>1, <2>2 DEF ProgramsTypeOK, pico, history
<1>3. CASE ResponseTimeout \/ GiveUpHandshake
  BY <1>3 DEF ResponseTimeout, GiveUpHandshake, ProgramsTypeOK, pico, history
<1>4. CASE SendByte
  <2>1. k' = k + 1 /\ k + 1 \in 0 .. Len(Request) /\ vpc' \in {"poll", "send"}
    BY <1>4, RequestBytes DEF SendByte, ProgramsTypeOK
  <2>2. UNCHANGED <<attempts, sends, pico, history>>
    BY <1>4 DEF SendByte
  <2> QED BY <2>1, <2>2 DEF ProgramsTypeOK, pico, history
<1>5. CASE PollEnds
  <2>1. vpc' \in {"status", "send"} /\ k' \in {4, k} /\ UNCHANGED <<attempts, sends, pico, history>>
    BY <1>5 DEF PollEnds
  <2>2. k' \in 0 .. Len(Request)
    BY <2>1, RequestBytes DEF ProgramsTypeOK
  <2> QED BY <2>1, <2>2 DEF ProgramsTypeOK, pico, history
<1>6. CASE ReadStatus
  <2>1. /\ vpc' \in {"sent", "send", "failed"} /\ k' \in {0, k}
        /\ \/ sends' = sends
           \/ sends < MaxSends /\ sends' = sends + 1
        /\ UNCHANGED <<attempts, pico, history>>
    BY <1>6 DEF ReadStatus
  <2>2. sends' \in 0 .. MaxSends /\ k' \in 0 .. Len(Request)
    BY <2>1, RequestBytes DEF ProgramsTypeOK
  <2> QED BY <2>1, <2>2 DEF ProgramsTypeOK, pico, history
<1> QED BY <1>1, <1>2, <1>3, <1>4, <1>5, <1>6 DEF Victor

LEMMA PicoStep ==
    ASSUME PortTypeOK(Byte), ProgramsTypeOK, Pico
    PROVE  ProgramsTypeOK'
<1>1. CASE StartPio \/ Mounted \/ DiscardByte \/ AnswerHandshake
  <2>1. UNCHANGED <<victor, skipped, packet, history>> /\ ppc' \in {"mounting", "handshake", "protocol"}
    BY <1>1 DEF StartPio, Mounted, DiscardByte, AnswerHandshake, pico
  <2> QED BY <2>1 DEF ProgramsTypeOK, victor, history
<1>2. CASE GetHandshake
  <2>1. strays' \in Nat
    BY <1>2 DEF GetHandshake, ProgramsTypeOK
  <2> QED BY <1>2, <2>1 DEF GetHandshake, ProgramsTypeOK, victor
<1>3. CASE GetProtocol
  <2>1. Head(rx) \in Byte
    BY <1>3, GetByteType DEF GetProtocol
  <2>2. \/ skipped < 3 /\ skipped' = skipped + 1 /\ UNCHANGED <<ppc, packet>>
        \/ packet' = <<Head(rx)>> /\ ppc' = "packet" /\ skipped' = 0
    <3>1. CASE Head(rx) = HANDSHAKE /\ skipped < MaxSkips
      BY <1>3, <3>1, Zenon DEF GetProtocol, MaxSkips
    <3>2. CASE ~(Head(rx) = HANDSHAKE /\ skipped < MaxSkips)
      BY <1>3, <3>2, Zenon DEF GetProtocol
    <3> QED BY <3>1, <3>2
  <2>3. packet' \in Seq(Byte)
    <3>1. ASSUME NEW b \in Byte PROVE <<b>> \in Seq(Byte)
      OBVIOUS
    <3>2. <<Head(rx)>> \in Seq(Byte) /\ packet \in Seq(Byte)
      BY <2>1, <3>1, Zenon DEF ProgramsTypeOK
    <3> QED BY <2>2, <3>2, Zenon
  <2>4. skipped' \in 0 .. 3
    BY <2>2 DEF ProgramsTypeOK
  <2>5. ppc' \in {ppc, "packet"} /\ UNCHANGED <<victor, history>>
    BY <1>3, <2>2 DEF GetProtocol
  <2> QED BY <2>3, <2>4, <2>5 DEF ProgramsTypeOK, victor, history
<1>4. CASE GetPacketByte
  <2>1. Head(rx) \in Byte
    BY <1>4, GetByteType DEF GetPacketByte
  <2>2. packet' \in Seq(Byte)
    BY <1>4, <2>1, AppendProperties DEF GetPacketByte, ProgramsTypeOK
  <2> QED BY <1>4, <2>2 DEF GetPacketByte, ProgramsTypeOK, victor, history
<1>5. CASE AnswerPacket
  <2>1. packet' \in Seq(Byte)
    BY <1>5, EmptySeq DEF AnswerPacket, ProgramsTypeOK
  <2>2. ppc' \in {"data", "protocol"} /\ UNCHANGED <<victor, skipped, history>>
    BY <1>5 DEF AnswerPacket
  <2> QED BY <2>1, <2>2 DEF ProgramsTypeOK, victor, history
<1> QED BY <1>1, <1>2, <1>3, <1>4, <1>5 DEF Pico

LEMMA RestartStep ==
    ASSUME ProgramsTypeOK, VictorReboots \/ PicoResets
    PROVE  ProgramsTypeOK'
<1>1. 0 \in 0 .. MaxHandshakes /\ 0 \in 0 .. MaxSends /\ 0 \in 0 .. Len(Request) /\ 0 \in 0 .. 3
      /\ 0 \in Nat /\ <<>> \in Seq(Byte)
  BY RequestBytes, EmptySeq
<1>2. CASE VictorReboots
  <2>1. reboots' \in 0 .. MaxReboots
    BY <1>2 DEF VictorReboots, ProgramsTypeOK
  <2>2. deaf' \in BOOLEAN
    BY <1>2 DEF VictorReboots
  <2> QED BY <1>1, <1>2, <2>1, <2>2 DEF VictorReboots, ProgramsTypeOK, pico
<1>3. CASE PicoResets
  <2>1. resets' \in 0 .. MaxResets
    BY <1>3 DEF PicoResets, ProgramsTypeOK
  <2> QED BY <1>1, <1>3, <2>1 DEF PicoResets, ProgramsTypeOK, victor
<1> QED BY <1>2, <1>3

LEMMA TypeStep == TypeOK /\ [Next]_vars => TypeOK'
<1> SUFFICES ASSUME TypeOK, [Next]_vars PROVE TypeOK'
  OBVIOUS
<1>1. PortTypeOK(Byte) /\ ProgramsTypeOK
  BY TypeParts
<1>2. CASE Next
  <2>1. PortTypeOK(Byte)'
    BY <1>1, <1>2, PortStep
  <2>2. ProgramsTypeOK'
    BY <1>1, <1>2, VictorStep, PicoStep, RestartStep DEF Next
  <2> QED BY <2>1, <2>2 DEF TypeOK, ProgramsTypeOK
<1>3. CASE UNCHANGED vars
  BY <1>3 DEF vars, port, victor, pico, history, TypeOK, PortTypeOK
<1> QED BY <1>2, <1>3

\* Counters and indexes of both programs stay in their ranges through any
\* number of restarts, and only bytes travel.
THEOREM TypeCorrect == Spec => []TypeOK
<1> QED BY TypeInit, TypeStep, PTL DEF Spec

-----------------------------------------------------------------------------
(* The answer to a handshake cannot be an old one *)

Early == {"off", "mounting", "handshake", "answer"}

\* The inductive invariant.  Before the Pico has answered it has put nothing on
\* the port, so the response never waits in the FIFO behind another byte: it is
\* on the lines at once, or lost.  Taking the byte off the lines at a restart
\* therefore takes the only response there can be.
EarlyQuiet == ppc \in Early => ~offering /\ tx = <<>>
NoResponseQueued == tx # <<>> => \A n \in 1 .. Len(tx) : tx[n] # HANDSHAKE_RESPONSE
NoResponseLatched == portA # <<>> => portA[1] # HANDSHAKE_RESPONSE
Deaf ==
    deaf => /\ vpc \in {"handshake", "response", "failed"}
            /\ ppc \notin Early
            /\ NoResponseLatched
Fresh == EarlyQuiet /\ NoResponseQueued /\ Deaf

LEMMA FreshInit == Init => Fresh
BY DEF Init, Idle, Fresh, EarlyQuiet, NoResponseQueued, Deaf

\* The head of the FIFO is no response, and neither is what is left.
LEMMA TakenIsNoResponse ==
    ASSUME PortTypeOK(Byte), NoResponseQueued, Taken
    PROVE  NoResponseQueued' /\ NoResponseLatched'
<1>1. CASE portA' = <<>> /\ UNCHANGED tx
  BY <1>1 DEF NoResponseQueued, NoResponseLatched
<1>2. CASE tx # <<>> /\ portA' = <<Head(tx)>> /\ tx' = Tail(tx)
  <2>1. tx \in Seq(Byte) /\ Len(tx) \in Nat /\ Len(tx) > 0
    BY <1>2, EmptySeq, LenProperties DEF PortTypeOK
  <2>2. /\ Head(tx) = tx[1] /\ Len(Tail(tx)) = Len(tx) - 1
        /\ \A n \in 1 .. Len(Tail(tx)) : Tail(tx)[n] = tx[n + 1]
    BY <1>2, <2>1, HeadTailProperties
  <2>3. portA'[1] # HANDSHAKE_RESPONSE
    BY <1>2, <2>1, <2>2 DEF NoResponseQueued
  <2>4. ASSUME NEW n \in 1 .. Len(Tail(tx)) PROVE Tail(tx)[n] # HANDSHAKE_RESPONSE
    <3>1. n + 1 \in 1 .. Len(tx)
      BY <2>1, <2>2
    <3> QED BY <1>2, <2>2, <3>1 DEF NoResponseQueued
  <2> QED BY <1>2, <2>3, <2>4 DEF NoResponseQueued, NoResponseLatched
<1> QED BY <1>1, <1>2 DEF Taken

\* The status bytes the Pico puts after its answer.
LEMMA StatusIsNoResponse ==
    ASSUME PortTypeOK(Byte), NoResponseQueued, PutByte(STATUS_OK) \/ PutByte(INVALID_CRC)
    PROVE  NoResponseQueued' /\ (NoResponseLatched => NoResponseLatched')
<1>1. PICK b \in {STATUS_OK, INVALID_CRC} : PutByte(b)
  OBVIOUS
<1>2. b \in Byte /\ b # HANDSHAKE_RESPONSE
  BY ByteValues
<1>3. CASE portA' \in {<<b>>, portA} /\ UNCHANGED tx
  BY <1>2, <1>3 DEF NoResponseQueued, NoResponseLatched
<1>4. CASE tx' = Append(tx, b) /\ UNCHANGED portA
  <2>1. /\ Len(Append(tx, b)) = Len(tx) + 1 /\ Len(tx) \in Nat
        /\ \A n \in 1 .. Len(tx) : Append(tx, b)[n] = tx[n]
        /\ Append(tx, b)[Len(tx) + 1] = b
    BY <1>2, AppendProperties, LenProperties DEF PortTypeOK
  <2>2. ASSUME NEW n \in 1 .. Len(tx) + 1 PROVE Append(tx, b)[n] # HANDSHAKE_RESPONSE
    <3>1. CASE n \in 1 .. Len(tx)
      <4>1. tx # <<>>
        BY <3>1
      <4> QED BY <2>1, <3>1, <4>1 DEF NoResponseQueued
    <3>2. CASE n = Len(tx) + 1
      BY <1>2, <2>1, <3>2
    <3> QED BY <2>1, <3>1, <3>2
  <2> QED BY <1>4, <2>1, <2>2 DEF NoResponseQueued, NoResponseLatched
<1> QED BY <1>1, <1>3, <1>4 DEF PutByte

LEMMA FreshVictor ==
    ASSUME PortTypeOK(Byte), Fresh, Victor
    PROVE  Fresh'
<1> USE DEF Fresh
<1>1. CASE WriteHandshake \/ SendByte
  <2>1. UNCHANGED <<tx, offering, portA, ppc, deaf>>
    BY <1>1 DEF WriteHandshake, SendByte, WriteByte, pico, history
  <2>2. deaf => vpc' \in {"handshake", "response", "failed"}
    BY <1>1 DEF WriteHandshake, SendByte, Deaf
  <2> QED BY <2>1, <2>2 DEF EarlyQuiet, NoResponseQueued, NoResponseLatched, Deaf
<1>2. CASE ResponseTimeout \/ GiveUpHandshake \/ PollEnds
  <2>1. UNCHANGED <<tx, offering, portA, ppc, deaf>>
    BY <1>2 DEF ResponseTimeout, GiveUpHandshake, PollEnds, port, pico, history
  <2>2. deaf => vpc' \in {"handshake", "response", "failed"}
    BY <1>2 DEF ResponseTimeout, GiveUpHandshake, PollEnds, Deaf
  <2> QED BY <2>1, <2>2 DEF EarlyQuiet, NoResponseQueued, NoResponseLatched, Deaf
<1>3. CASE ReadResponse \/ ReadStatus
  <2>1. Taken /\ UNCHANGED <<ppc, deaf>>
    BY <1>3 DEF ReadResponse, ReadStatus, ReadByte, pico, history
  <2>2. NoResponseQueued' /\ NoResponseLatched'
    BY <2>1, TakenIsNoResponse
  <2>3. EarlyQuiet'
    BY <2>1 DEF EarlyQuiet, Taken
  <2>4. deaf => vpc' \in {"handshake", "response", "failed"}
    <3>1. CASE ReadResponse
      BY <3>1 DEF ReadResponse, ReadByte, Deaf, NoResponseLatched
    <3>2. CASE ReadStatus
      BY <3>2 DEF ReadStatus, Deaf
    <3> QED BY <1>3, <3>1, <3>2
  <2> QED BY <2>1, <2>2, <2>3, <2>4 DEF Deaf
<1> QED BY <1>1, <1>2, <1>3 DEF Victor

LEMMA FreshPico ==
    ASSUME PortTypeOK(Byte), Fresh, Pico
    PROVE  Fresh'
<1> USE DEF Fresh
<1>1. CASE StartPio \/ Mounted \/ DiscardByte \/ GetHandshake
  <2>1. /\ UNCHANGED <<tx, offering, portA, vpc, deaf>>
        /\ ppc \in Early /\ ppc' \in Early
    BY <1>1 DEF StartPio, Mounted, DiscardByte, GetHandshake, GetByte, port, victor, pico, history, Early
  <2> QED BY <2>1 DEF EarlyQuiet, NoResponseQueued, Deaf
<1>2. CASE AnswerHandshake
  <2>1. ppc \in Early /\ ppc' \notin Early /\ UNCHANGED deaf
    BY <1>2 DEF AnswerHandshake, Early, history
  <2>2. UNCHANGED tx
    BY <1>2, <2>1 DEF AnswerHandshake, PutByte, EarlyQuiet
  <2> QED BY <2>1, <2>2 DEF EarlyQuiet, NoResponseQueued, Deaf
<1>3. CASE GetProtocol \/ GetPacketByte
  <2>1. /\ UNCHANGED <<tx, offering, portA, vpc, deaf>>
        /\ ppc' \notin Early
    BY <1>3 DEF GetProtocol, GetPacketByte, GetByte, victor, history, Early
  <2> QED BY <2>1 DEF EarlyQuiet, NoResponseQueued, NoResponseLatched, Deaf
<1>4. CASE AnswerPacket
  <2>1. /\ PutByte(STATUS_OK) \/ PutByte(INVALID_CRC)
        /\ ppc' \notin Early /\ UNCHANGED <<vpc, deaf>>
    BY <1>4 DEF AnswerPacket, victor, history, Early
  <2>2. NoResponseQueued' /\ (NoResponseLatched => NoResponseLatched')
    BY <2>1, StatusIsNoResponse
  <2> QED BY <2>1, <2>2 DEF EarlyQuiet, Deaf
<1> QED BY <1>1, <1>2, <1>3, <1>4 DEF Pico

LEMMA FreshRestart ==
    ASSUME PortTypeOK(Byte), ProgramsTypeOK, Fresh, VictorReboots \/ PicoResets
    PROVE  Fresh'
<1> USE DEF Fresh
<1>1. CASE VictorReboots
  <2>1. NoResponseQueued' /\ NoResponseLatched'
    <3>1. CASE portA' = <<>> /\ UNCHANGED tx
      BY <3>1 DEF NoResponseQueued, NoResponseLatched
    <3> QED BY <1>1, <3>1, TakenIsNoResponse DEF VictorReboots, Latched
  <2>2. EarlyQuiet'
    BY <1>1 DEF VictorReboots, Latched, Taken, EarlyQuiet, pico
  <2>3. vpc' = "handshake" /\ (deaf' => ppc' \notin Early)
    BY <1>1 DEF VictorReboots, pico, Early
  <2> QED BY <2>1, <2>2, <2>3 DEF Deaf
<1>2. CASE PicoResets
  BY <1>2 DEF PicoResets, EarlyQuiet, NoResponseQueued, Deaf
<1> QED BY <1>1, <1>2

LEMMA FreshStep == TypeOK /\ Fresh /\ [Next]_vars => Fresh'
<1> SUFFICES ASSUME TypeOK, Fresh, [Next]_vars PROVE Fresh'
  OBVIOUS
<1>1. PortTypeOK(Byte) /\ ProgramsTypeOK
  BY TypeParts
<1>2. CASE Next
  BY <1>1, <1>2, FreshVictor, FreshPico, FreshRestart DEF Next
<1>3. CASE UNCHANGED vars
  BY <1>3 DEF vars, port, victor, pico, history, Fresh, EarlyQuiet, NoResponseQueued,
       NoResponseLatched, Deaf
<1> QED BY <1>2, <1>3

\* However often either machine restarts, a driver started beside a Pico that
\* has its handshake behind it never reads an old response as the answer to
\* its own handshake.
THEOREM NoOldAnswer == Spec => []OldBytesAreNoAnswer
<1>1. Fresh => OldBytesAreNoAnswer
  BY DEF Fresh, Deaf, OldBytesAreNoAnswer
<1>2. Spec => []Fresh
  BY TypeCorrect, FreshInit, FreshStep, PTL DEF Spec
<1> QED BY <1>1, <1>2, PTL

-----------------------------------------------------------------------------
(* The first request is read as it was sent *)

\* Strays and request fill the FIFO and the stalled push at most.
Fits == Len(Request) + MaxSkips <= FifoDepth + 1

Greeting == {"handshake", "response", "failed"}

\* While the Pico has not taken the handshake it will answer, that one counts too.
StrayLimit == IF ppc \in {"off", "mounting", "handshake"} THEN 4 ELSE 3
Calm == Undisturbed /\ strays <= StrayLimit

\* The inductive invariant.  The places of the two programs, and what is on the
\* lines towards the Victor: nothing, the response, or the one status.
VictorAt ==
    /\ vpc \in Greeting => k = 0
    /\ vpc = "send" => k < Len(Request)
    /\ vpc = "poll" /\ k < Len(Request) => cb1
    /\ vpc \in {"status", "sent"} => k = Len(Request)
    /\ vpc = "sent" => ppc = "data"
PicoAt ==
    /\ running <=> ppc # "off"
    /\ ppc \in Early => skipped = 0
    /\ ppc \in Early \cup {"protocol"} => packet = <<>>
    /\ ppc = "packet" => packet # <<>>
    /\ ppc = "data" => packet = Request
AnswerAt ==
    /\ tx = <<>>
    /\ ppc \in Early => portA = <<>> /\ ~offering /\ vpc \in Greeting
    /\ ppc \notin Early /\ vpc \in Greeting =>
          portA = <<HANDSHAKE_RESPONSE>> /\ offering /\ ppc = "protocol"
    /\ ppc \in {"protocol", "packet"} /\ vpc \notin Greeting => portA = <<>> /\ ~offering
    /\ ppc = "data" /\ vpc # "sent" => portA = <<STATUS_OK>> /\ offering

\* Handshakes and request are one stream, cut into what the Pico has read, its
\* FIFO and the stalled push; n handshakes are still to be read.
Expected(n, i) == IF i <= n THEN STARTUP_HANDSHAKE ELSE Request[Len(packet) + i - n]
Stream(n) ==
    /\ n + skipped <= strays
    /\ packet # <<>> => n = 0
    /\ Len(packet) <= k
    /\ \A i \in 1 .. Len(packet) : packet[i] = Request[i]
    /\ Len(rx) + Len(held) = n + k - Len(packet)
    /\ \A i \in 1 .. Len(rx) : rx[i] = Expected(n, i)
    /\ held # <<>> => k = Len(Request) /\ held = <<Request[k]>>
InStep == VictorAt /\ PicoAt /\ AnswerAt /\ \E n \in Nat : Stream(n)
Harmless == Calm => InStep

\* The numbers the lemmas below do arithmetic with.
LEMMA Lengths ==
    ASSUME PortTypeOK(Byte), ProgramsTypeOK
    PROVE  /\ Len(packet) \in Nat /\ Len(rx) \in Nat /\ Len(rx) <= FifoDepth
           /\ Len(held) \in 0 .. 1 /\ (held = <<>> <=> Len(held) = 0)
           /\ k \in 0 .. Len(Request) /\ Len(Request) \in Nat /\ Len(Request) >= 5
           /\ skipped \in 0 .. 3 /\ strays \in Nat
           /\ (packet = <<>> <=> Len(packet) = 0) /\ (rx = <<>> <=> Len(rx) = 0)
<1>1. Len(packet) \in Nat /\ Len(rx) \in Nat /\ Len(rx) <= FifoDepth
  BY LenProperties DEF PortTypeOK, ProgramsTypeOK
<1>2. Len(held) \in 0 .. 1 /\ (held = <<>> <=> Len(held) = 0)
  BY HeldIsShort
<1>3. (packet = <<>> <=> Len(packet) = 0) /\ (rx = <<>> <=> Len(rx) = 0)
  BY EmptySeq DEF PortTypeOK, ProgramsTypeOK
<1> QED BY <1>1, <1>2, <1>3, RequestBytes DEF ProgramsTypeOK

LEMMA HarmlessInit == Init => Harmless
<1> SUFFICES ASSUME Init PROVE InStep
  BY DEF Harmless
<1>1. /\ vpc = "handshake" /\ k = 0 /\ ppc = "off" /\ running = FALSE /\ skipped = 0
      /\ packet = <<>> /\ strays = 0 /\ rx = <<>> /\ held = <<>> /\ tx = <<>>
      /\ offering = FALSE /\ portA = <<>>
  BY DEF Init, Idle
<1>2. VictorAt /\ PicoAt /\ AnswerAt
  BY <1>1 DEF VictorAt, PicoAt, AnswerAt, Greeting, Early
<1>3. Len(packet) = 0 /\ Len(rx) = 0 /\ Len(held) = 0
  BY <1>1
<1>4. 1 .. Len(packet) = {} /\ 1 .. Len(rx) = {} /\ 0 \in Nat
  BY <1>3
<1>5. 0 + skipped <= strays /\ Len(packet) <= k /\ Len(rx) + Len(held) = 0 + k - Len(packet)
  <2>1. skipped = 0 /\ strays = 0 /\ k = 0
    BY <1>1, Zenon
  <2> QED BY <1>3, <2>1
<1>6. Stream(0)
  BY <1>1, <1>4, <1>5, Zenon DEF Stream
<1> QED BY <1>2, <1>4, <1>6, Zenon DEF InStep

\* The limit on the strays goes down only with the handshake it counted.
LEMMA CalmBefore ==
    ASSUME ProgramsTypeOK, Next, Calm'
    PROVE  Calm /\ Undisturbed' /\ strays' <= StrayLimit'
<1>1. Undisturbed' /\ strays' <= StrayLimit'
  BY DEF Calm
<1>2. resets \in Nat /\ reboots \in Nat /\ strays \in Nat
  BY DEF ProgramsTypeOK
<1>3. ~VictorReboots /\ ~PicoResets
  BY <1>1, <1>2 DEF VictorReboots, PicoResets, Undisturbed
<1>4. CASE Victor
  <2>1. UNCHANGED <<resets, reboots, ppc>> /\ strays' \in {strays, strays + 1}
    BY <1>4 DEF Victor, WriteHandshake, ReadResponse, ResponseTimeout, GiveUpHandshake,
         SendByte, PollEnds, ReadStatus, pico, history
  <2> QED BY <1>1, <1>2, <2>1 DEF Calm, Undisturbed, StrayLimit
<1>5. CASE GetHandshake
  BY <1>1, <1>2, <1>5 DEF GetHandshake, Calm, Undisturbed, StrayLimit
<1>6. CASE Pico /\ ~GetHandshake
  <2>1. UNCHANGED history /\ StrayLimit' = StrayLimit
    BY <1>6 DEF Pico, StartPio, Mounted, DiscardByte, AnswerHandshake, GetProtocol,
         GetPacketByte, AnswerPacket, pico, StrayLimit
  <2> QED BY <1>1, <2>1 DEF Calm, Undisturbed, history
<1> QED BY <1>1, <1>3, <1>4, <1>5, <1>6 DEF Next

\* The byte the Pico gets is the next of the stream, and the rest moves up.
LEMMA StreamMoves ==
    ASSUME PortTypeOK(Byte), ProgramsTypeOK, NEW n \in Nat, Stream(n), GetByte
    PROVE  /\ Head(rx) = Expected(n, 1)
           /\ Len(rx') \in Nat /\ Len(rx') = n + k - Len(packet) - 1
           /\ held' = <<>> /\ Len(held') = 0
           /\ \A i \in 1 .. Len(rx') : rx'[i] = Expected(n, i + 1)
<1>1. rx \in Seq(Byte) /\ rx # <<>> /\ held \in Seq(Byte) /\ rx' = Tail(rx) \o held /\ held' = <<>>
  BY HeldIsShort DEF GetByte, PortTypeOK, Refilled
<1>2. /\ Head(rx) = rx[1] /\ Tail(rx) \in Seq(Byte) /\ Len(Tail(rx)) = Len(rx) - 1
      /\ \A i \in 1 .. Len(Tail(rx)) : Tail(rx)[i] = rx[i + 1]
  BY <1>1, HeadTailProperties
<1>3. /\ Len(rx') = Len(Tail(rx)) + Len(held)
      /\ \A i \in 1 .. Len(Tail(rx)) + Len(held) :
            rx'[i] = IF i <= Len(Tail(rx)) THEN Tail(rx)[i] ELSE held[i - Len(Tail(rx))]
  BY <1>1, <1>2, ConcatProperties
<1>4. Len(rx) \in Nat /\ Len(rx) > 0 /\ Len(packet) \in Nat /\ k \in Nat /\ Len(held) \in 0 .. 1
  BY <1>1, Lengths
<1>5. Len(rx) + Len(held) = n + k - Len(packet) /\ \A i \in 1 .. Len(rx) : rx[i] = Expected(n, i)
  BY DEF Stream
<1>6. Len(rx') \in Nat /\ Len(rx') = n + k - Len(packet) - 1
  BY <1>2, <1>3, <1>4, <1>5
<1>7. Head(rx) = Expected(n, 1)
  BY <1>2, <1>4, <1>5
<1>8. ASSUME NEW i \in 1 .. Len(rx') PROVE rx'[i] = Expected(n, i + 1)
  <2>1. CASE i <= Len(rx) - 1
    BY <1>2, <1>3, <1>4, <1>5, <2>1
  <2>2. CASE i > Len(rx) - 1
    <3>1. Len(held) = 1 /\ i = Len(rx) /\ held # <<>>
      <4>1. Len(held) = 1 /\ i = Len(rx)
        <5>1. Len(rx') = Len(rx) - 1 + Len(held)
          BY <1>2, <1>3
        <5>2. i \in Nat /\ i <= Len(rx) - 1 + Len(held)
          BY <1>6, <5>1
        <5> DEFINE r == Len(rx)
                   h == Len(held)
        <5>3. r \in Nat /\ h \in 0 .. 1 /\ i \in Nat /\ i <= r - 1 + h /\ i > r - 1
          BY <1>4, <2>2, <5>2
        <5> HIDE DEF r, h
        <5>4. h = 1 /\ i = r
          BY <5>3
        <5> QED BY <5>4 DEF r, h
      <4>2. Len(held) # 0
        BY <4>1
      <4> QED BY <4>1, <4>2, Lengths, Zenon
    <3>2. rx'[i] = held[1]
      BY <1>2, <1>3, <1>4, <3>1
    <3>3. held = <<Request[k]>> /\ k = Len(Request)
      BY <3>1 DEF Stream
    <3>4. Len(packet) + (i + 1) - n = k /\ i + 1 = n + k - Len(packet)
      BY <1>4, <1>5, <3>1
    <3>5. ~(i + 1 <= n)
      <4>1. packet # <<>> => n = 0
        BY DEF Stream
      <4>2. CASE n = 0
        BY <1>4, <4>2
      <4>3. CASE packet = <<>>
        BY <3>3, <3>4, <4>3, Lengths
      <4> QED BY <4>1, <4>2, <4>3
    <3> QED BY <3>2, <3>3, <3>4, <3>5 DEF Expected
  <2> QED BY <1>4, <1>6, <2>1, <2>2
<1> QED BY <1>1, <1>6, <1>7, <1>8

\* A handshake of the stream is taken out of it.
LEMMA HandshakeTaken ==
    ASSUME PortTypeOK(Byte), ProgramsTypeOK, NEW n \in Nat, Stream(n), n > 0, GetByte,
           UNCHANGED <<k, packet>>, n - 1 + skipped' <= strays'
    PROVE  Stream(n - 1)'
<1>1. /\ Len(rx') = n + k - Len(packet) - 1 /\ held' = <<>> /\ Len(held') = 0
      /\ \A i \in 1 .. Len(rx') : rx'[i] = Expected(n, i + 1)
  BY StreamMoves
<1>2. Len(packet) \in Nat /\ k \in Nat
  BY Lengths
<1>3. Len(rx') + Len(held') = (n - 1) + k' - Len(packet')
  BY <1>1, <1>2
<1>4. packet' = <<>> /\ Len(packet') <= k' /\ \A i \in 1 .. Len(packet') : packet'[i] = Request[i]
  BY DEF Stream
<1>5. ASSUME NEW i \in 1 .. Len(rx') PROVE rx'[i] = Expected(n - 1, i)'
  <2>1. i \in Nat /\ Len(packet) + (i + 1) - n = Len(packet) + i - (n - 1)
    BY <1>2
  <2>2. i + 1 <= n <=> i <= n - 1
    BY <2>1
  <2> QED BY <1>1, <2>1, <2>2 DEF Expected
<1> QED BY <1>1, <1>3, <1>4, <1>5 DEF Stream

\* A byte of the request goes from the stream into the packet.
LEMMA RequestByteTaken ==
    ASSUME PortTypeOK(Byte), ProgramsTypeOK, Stream(0), GetByte,
           UNCHANGED k, packet' = Append(packet, Head(rx)), 0 + skipped' <= strays'
    PROVE  Stream(0)'
<1>1. /\ Head(rx) = Expected(0, 1)
      /\ Len(rx') \in Nat /\ Len(rx') = 0 + k - Len(packet) - 1 /\ held' = <<>> /\ Len(held') = 0
      /\ \A i \in 1 .. Len(rx') : rx'[i] = Expected(0, i + 1)
  BY StreamMoves
<1>2. Len(packet) \in Nat /\ k \in Nat /\ skipped \in Nat
  BY Lengths
<1>3. packet \in Seq(Byte) /\ Head(rx) \in Byte
  BY GetByteType DEF ProgramsTypeOK
<1>4. /\ Len(packet') = Len(packet) + 1 /\ packet'[Len(packet) + 1] = Head(rx)
      /\ \A i \in 1 .. Len(packet) : packet'[i] = packet[i]
  BY <1>3, AppendProperties
<1>5. Len(packet') <= k' /\ Len(rx') + Len(held') = 0 + k' - Len(packet')
  BY <1>1, <1>2, <1>4
<1>6. Head(rx) = Request[Len(packet) + 1]
  BY <1>1, <1>2 DEF Expected
<1>7. ASSUME NEW i \in 1 .. Len(packet') PROVE packet'[i] = Request[i]
  <2>1. i \in 1 .. Len(packet) \/ i = Len(packet) + 1
    BY <1>2, <1>4
  <2> QED BY <1>4, <1>6, <2>1 DEF Stream
<1>8. ASSUME NEW i \in 1 .. Len(rx') PROVE rx'[i] = Expected(0, i)'
  <2>1. i \in Nat /\ Len(packet) + (i + 1) - 0 = Len(packet') + i - 0 /\ ~(i + 1 <= 0) /\ ~(i <= 0)
    BY <1>2, <1>4
  <2> QED BY <1>1, <2>1 DEF Expected
<1> QED BY <1>1, <1>5, <1>7, <1>8 DEF Stream

LEMMA OneMore ==
    ASSUME NEW r \in Nat, NEW p \in Nat, NEW n \in Nat, NEW m \in Nat, NEW j \in Nat, NEW l \in Nat,
           r + 0 = n + j - p, m + l = n + j + 1
    PROVE  r + 1 + 0 = m + l - p
OBVIOUS

LEMMA UpToNext ==
    ASSUME NEW r \in Nat, NEW i \in 1 .. r + 1
    PROVE  i \in 1 .. r \/ i = r + 1
OBVIOUS

\* What is written goes to the end of the stream.
LEMMA StreamGrows ==
    ASSUME PortTypeOK(Byte), ProgramsTypeOK, NEW n \in Nat, Stream(n), NEW b \in Byte,
           WriteByte(b), running, held = <<>>, Room,
           UNCHANGED packet, skipped' = skipped,
           NEW m \in Nat, m + skipped <= strays', packet # <<>> => m = 0,
           \A i \in 1 .. Len(rx) : Expected(m, i) = Expected(n, i),
           Expected(m, Len(rx) + 1) = b, NEW l \in Nat, k' = l, m + l = n + k + 1, k <= l
    PROVE  Stream(m)' /\ cb1' = TRUE /\ held' = <<>>
<1>1. rx \in Seq(Byte) /\ rx' = Append(rx, b) /\ held' = <<>> /\ cb1' = TRUE
  BY DEF WriteByte, PortTypeOK
<1>2. /\ Len(rx') = Len(rx) + 1 /\ rx'[Len(rx) + 1] = b
      /\ \A i \in 1 .. Len(rx) : rx'[i] = rx[i]
  BY <1>1, AppendProperties
<1>3. Len(rx) \in Nat /\ Len(packet) \in Nat /\ k \in Nat /\ Len(held) = 0 /\ Len(held') = 0
  BY <1>1, Lengths
<1>4. Len(rx') + Len(held') = m + k' - Len(packet')
  <2>1. Len(rx) + Len(held) = n + k - Len(packet) /\ Len(packet') = Len(packet)
    BY DEF Stream
  <2> DEFINE r == Len(rx)
             p == Len(packet)
  <2>2. /\ r \in Nat /\ p \in Nat /\ r + 0 = n + k - p
        /\ Len(rx') = r + 1 /\ Len(packet') = p /\ Len(held') = 0
    BY <1>2, <1>3, <2>1
  <2> HIDE DEF r, p
  <2>3. r + 1 + 0 = m + l - p
    BY <1>3, <2>2, OneMore
  <2> QED BY <2>2, <2>3
<1>5. Len(packet') <= k' /\ \A i \in 1 .. Len(packet') : packet'[i] = Request[i]
  BY <1>3 DEF Stream
<1>6. ASSUME NEW i \in 1 .. Len(rx') PROVE rx'[i] = Expected(m, i)'
  <2>1. i \in 1 .. Len(rx) \/ i = Len(rx) + 1
    BY <1>2, <1>3, UpToNext, Zenon
  <2>2. rx'[i] = Expected(m, i)
    BY <1>2, <2>1 DEF Stream
  <2> QED BY <2>2 DEF Expected
<1> QED BY <1>1, <1>4, <1>5, <1>6 DEF Stream

LEMMA HarmlessWriteHandshake ==
    ASSUME PortTypeOK(Byte), ProgramsTypeOK, Calm, Calm', InStep, WriteHandshake, Fits
    PROVE  InStep'
<1>1. PICK n \in Nat : Stream(n)
  BY DEF InStep
<1>2. vpc = "handshake" /\ vpc' = "response" /\ k = 0 /\ k' = 0 /\ vpc \in Greeting /\ vpc' \in Greeting
  BY DEF WriteHandshake, InStep, VictorAt, Greeting
<1>3. WriteByte(STARTUP_HANDSHAKE) /\ UNCHANGED <<k, pico>>
  BY DEF WriteHandshake
<1>4. UNCHANGED <<running, tx, offering, portA, ppc, skipped, packet>>
  BY <1>3 DEF WriteByte, pico
<1>5. VictorAt' /\ PicoAt' /\ AnswerAt'
  BY <1>2, <1>4 DEF InStep, VictorAt, PicoAt, AnswerAt, Greeting, Early
<1>6. /\ Len(packet) = 0 /\ packet = <<>> /\ held = <<>> /\ Len(held) = 0 /\ Len(rx) = n
      /\ strays \in Nat /\ skipped \in Nat /\ Len(rx) \in Nat
  <2>1. Len(packet) <= k /\ Len(rx) + Len(held) = n + k - Len(packet) /\ (held # <<>> => k = Len(Request))
    BY <1>1 DEF Stream
  <2>2. Len(packet) = 0 /\ held = <<>>
    BY <1>2, <2>1, Lengths
  <2> QED BY <1>2, <2>1, <2>2, Lengths
<1>7. CASE ~running
  <2>1. UNCHANGED <<rx, held, strays>>
    BY <1>3, <1>7 DEF WriteHandshake, WriteByte
  <2> QED BY <1>1, <1>3, <1>4, <1>5, <2>1 DEF InStep, Stream, Expected
<1>8. CASE running
  <2>1. strays' = strays + 1 /\ strays' <= 4
    BY <1>4, <1>8 DEF WriteHandshake, Calm, StrayLimit
  <2>2. n + skipped <= strays
    BY <1>1 DEF Stream
  <2>3. n <= 3 /\ n + 1 \in Nat /\ n + 1 + skipped <= strays'
    BY <1>6, <2>1, <2>2
  <2>4. Room
    <3>1. Len(Request) + 3 <= FifoDepth + 1
      BY DEF Fits, MaxSkips
    <3> QED BY <1>6, <2>3, <3>1, Lengths DEF Room
  <2>5. ASSUME NEW i \in 1 .. Len(rx) PROVE Expected(n + 1, i) = Expected(n, i)
    BY <1>6 DEF Expected
  <2>6. Expected(n + 1, Len(rx) + 1) = STARTUP_HANDSHAKE
    BY <1>6 DEF Expected
  <2>7. 0 \in Nat /\ k' = 0 /\ (n + 1) + 0 = n + k + 1 /\ k <= 0
    BY <1>2
  <2>8. Stream(n + 1)'
    <3> DEFINE m == n + 1
    <3>1. /\ m \in Nat /\ m + skipped <= strays' /\ m + 0 = n + k + 1
          /\ \A i \in 1 .. Len(rx) : Expected(m, i) = Expected(n, i)
          /\ Expected(m, Len(rx) + 1) = STARTUP_HANDSHAKE
      BY <2>3, <2>5, <2>6, <2>7
    <3> HIDE DEF m
    <3>2. Stream(m)'
      BY <1>1, <1>3, <1>4, <1>6, <1>8, <2>4, <2>7, <3>1, StreamGrows, ByteValues
    <3> QED BY <3>2 DEF m
  <2> QED BY <1>5, <2>3, <2>8 DEF InStep
<1> QED BY <1>7, <1>8

LEMMA HarmlessSendByte ==
    ASSUME PortTypeOK(Byte), ProgramsTypeOK, Calm, InStep, SendByte, Fits
    PROVE  InStep'
<1>1. PICK n \in Nat : Stream(n)
  BY DEF InStep
<1>2. /\ vpc = "send" /\ k < Len(Request) /\ k' = k + 1 /\ WriteByte(Request[k + 1])
      /\ vpc' = IF Polled(k + 1) THEN "poll" ELSE "send"
      /\ UNCHANGED <<ppc, skipped, packet, strays>>
  BY DEF SendByte, pico, history
<1>3. ppc \notin Early /\ ppc # "data" /\ running /\ vpc \notin Greeting /\ vpc' \notin Greeting
  <2>1. vpc \notin Greeting /\ vpc' \notin Greeting
    BY <1>2 DEF Greeting
  <2>2. ppc \notin Early
    BY <2>1 DEF InStep, AnswerAt
  <2>3. running
    BY <2>2 DEF InStep, PicoAt, Early
  <2>4. ppc # "data"
    <3>1. SUFFICES ASSUME ppc = "data" PROVE FALSE
      OBVIOUS
    <3>2. Len(packet) = Len(Request)
      BY <3>1 DEF InStep, PicoAt
    <3> QED BY <1>1, <1>2, <3>2, Lengths DEF Stream
  <2> QED BY <2>1, <2>2, <2>3, <2>4
<1>4. /\ held = <<>> /\ Len(held) = 0 /\ Len(rx) \in Nat /\ Len(packet) \in Nat /\ k \in Nat
      /\ Len(rx) = n + k - Len(packet) /\ Len(packet) <= k /\ Request[k + 1] \in Byte
      /\ n <= 3 /\ n + skipped <= strays /\ (packet # <<>> => n = 0) /\ (packet = <<>> => Len(packet) = 0)
  <2>1. held = <<>> /\ Len(packet) <= k /\ Len(rx) + Len(held) = n + k - Len(packet)
    BY <1>1, <1>2, Lengths DEF Stream
  <2>2. n + skipped <= strays /\ strays <= 3 /\ (packet # <<>> => n = 0)
    BY <1>1, <1>3 DEF Stream, Calm, StrayLimit, Early
  <2>3. k + 1 \in 1 .. Len(Request)
    BY <1>2, Lengths
  <2> QED BY <2>1, <2>2, <2>3, Lengths, RequestBytes
<1>5. UNCHANGED <<running, tx, offering, portA>>
  BY <1>2 DEF WriteByte
<1>6. PicoAt' /\ AnswerAt'
  BY <1>2, <1>3, <1>5 DEF InStep, PicoAt, AnswerAt
<1>7. CASE Room
  <2>1. Expected(n, Len(rx) + 1) = Request[k + 1]
    <3>1. ~(Len(rx) + 1 <= n)
      BY <1>4
    <3>2. Len(packet) + (Len(rx) + 1) - n = k + 1
      BY <1>4
    <3> QED BY <3>1, <3>2 DEF Expected
  <2>2. k + 1 \in Nat /\ k' = k + 1 /\ n + (k + 1) = n + k + 1 /\ k <= k + 1 /\ n + skipped <= strays'
    BY <1>2, <1>4
  <2>3. Stream(n)' /\ cb1' = TRUE
    BY <1>1, <1>2, <1>3, <1>4, <1>7, <2>1, <2>2, StreamGrows
  <2>4. VictorAt'
    BY <1>2, <1>3, <2>3, Lengths DEF VictorAt, Polled
  <2> QED BY <1>6, <2>3, <2>4 DEF InStep
<1>8. CASE ~Room
  <2>1. held' = <<Request[k + 1]>> /\ UNCHANGED rx /\ Len(held') = 1
    BY <1>2, <1>3, <1>4, <1>8 DEF WriteByte
  <2>2. k + 1 = Len(Request)
    <3>1. Len(rx) >= FifoDepth /\ Len(Request) + 3 <= FifoDepth + 1
      BY <1>4, <1>8, FifoAssumption DEF Room, Fits, MaxSkips
    <3> QED BY <1>2, <1>4, <3>1, Lengths, FifoAssumption
  <2>3. VictorAt'
    BY <1>2, <1>3, <2>2, Lengths DEF VictorAt, Polled
  <2>4. Stream(n)'
    <3>1. Len(rx') + Len(held') = n + k' - Len(packet') /\ Len(packet') <= k' /\ n + skipped' <= strays'
      BY <1>2, <1>4, <2>1
    <3>2. \A i \in 1 .. Len(rx') : rx'[i] = Expected(n, i)'
      BY <1>1, <1>2, <2>1 DEF Stream, Expected
    <3>3. /\ \A i \in 1 .. Len(packet') : packet'[i] = Request[i]
          /\ packet' # <<>> => n = 0
      BY <1>1, <1>2 DEF Stream
    <3>4. k' = Len(Request) /\ held' = <<Request[k']>>
      BY <1>2, <2>1, <2>2
    <3> QED BY <3>1, <3>2, <3>3, <3>4 DEF Stream
  <2> QED BY <1>6, <2>3, <2>4 DEF InStep
<1> QED BY <1>7, <1>8

LEMMA StreamStays ==
    ASSUME NEW n \in Nat, Stream(n), UNCHANGED <<rx, held, packet, k, strays, skipped>>
    PROVE  Stream(n)'
BY DEF Stream, Expected

LEMMA HarmlessVictorReads ==
    ASSUME PortTypeOK(Byte), ProgramsTypeOK, InStep,
           ReadResponse \/ ResponseTimeout \/ GiveUpHandshake \/ PollEnds \/ ReadStatus
    PROVE  InStep'
<1>1. PICK n \in Nat : Stream(n)
  BY DEF InStep
<1>2. CASE ReadResponse
  <2>1. portA # <<>> /\ Taken /\ vpc = "response" /\ UNCHANGED <<running, rx, held, cb1, pico, strays>>
    BY <1>2 DEF ReadResponse, ReadByte, history
  <2>2. portA = <<HANDSHAKE_RESPONSE>> /\ offering /\ tx = <<>> /\ ppc = "protocol" /\ k = 0
    BY <2>1 DEF InStep, AnswerAt, VictorAt, Greeting
  <2>3. vpc' = "send" /\ k' = 0
    BY <1>2, <2>2 DEF ReadResponse
  <2>4. portA' = <<>> /\ ~offering' /\ tx' = <<>>
    BY <2>1, <2>2 DEF Taken
  <2>5. VictorAt' /\ PicoAt' /\ AnswerAt'
    BY <2>1, <2>2, <2>3, <2>4, Lengths DEF InStep, VictorAt, PicoAt, AnswerAt, Greeting, Early, pico
  <2> QED BY <1>1, <2>1, <2>2, <2>3, <2>5, StreamStays DEF InStep, pico
<1>3. CASE ResponseTimeout \/ GiveUpHandshake
  <2>1. /\ vpc \in Greeting /\ vpc' \in Greeting /\ vpc' \notin {"send", "poll", "status", "sent"}
        /\ UNCHANGED <<port, k, pico, strays>>
    BY <1>3 DEF ResponseTimeout, GiveUpHandshake, Greeting, history
  <2>2. VictorAt' /\ PicoAt' /\ AnswerAt'
    BY <2>1 DEF InStep, VictorAt, PicoAt, AnswerAt, pico, port, Greeting
  <2> QED BY <1>1, <2>1, <2>2, StreamStays DEF InStep, pico, port
<1>4. CASE PollEnds
  <2>1. ~(k = 3 /\ ~cb1)
    BY <1>4, Lengths DEF PollEnds, InStep, VictorAt
  <2>2. /\ vpc = "poll" /\ k' = k /\ vpc' = IF k = Len(Request) THEN "status" ELSE "send"
        /\ UNCHANGED <<port, pico, strays>>
    BY <1>4, <2>1 DEF PollEnds, history
  <2>3. VictorAt' /\ PicoAt' /\ AnswerAt'
    BY <2>2, Lengths DEF InStep, VictorAt, PicoAt, AnswerAt, pico, port, Greeting
  <2> QED BY <1>1, <2>2, <2>3, StreamStays DEF InStep, pico, port
<1>5. CASE ReadStatus
  <2>1. portA # <<>> /\ Taken /\ vpc = "status" /\ UNCHANGED <<running, rx, held, cb1, pico, strays>>
    BY <1>5 DEF ReadStatus, ReadByte, history
  <2>2. ppc = "data" /\ portA = <<STATUS_OK>> /\ offering /\ tx = <<>> /\ k = Len(Request)
    <3>1. vpc \notin Greeting /\ ppc \notin Early /\ ppc \notin {"protocol", "packet"}
      BY <2>1 DEF InStep, AnswerAt, Greeting
    <3>2. ppc = "data"
      BY <3>1 DEF ProgramsTypeOK, Early
    <3> QED BY <2>1, <3>2 DEF InStep, AnswerAt, VictorAt
  <2>3. vpc' = "sent" /\ k' = k
    BY <1>5, <2>2 DEF ReadStatus
  <2>4. portA' = <<>> /\ ~offering' /\ tx' = <<>>
    BY <2>1, <2>2 DEF Taken
  <2>5. VictorAt' /\ PicoAt' /\ AnswerAt'
    BY <2>1, <2>2, <2>3, <2>4 DEF InStep, VictorAt, PicoAt, AnswerAt, Greeting, Early, pico
  <2> QED BY <1>1, <2>1, <2>3, <2>5, StreamStays DEF InStep, pico
<1> QED BY <1>2, <1>3, <1>4, <1>5

\* Up to the answer only handshakes are in the stream.
LEMMA HarmlessBoot ==
    ASSUME PortTypeOK(Byte), ProgramsTypeOK, InStep,
           StartPio \/ Mounted \/ DiscardByte \/ GetHandshake \/ AnswerHandshake
    PROVE  InStep'
<1>1. PICK n \in Nat : Stream(n)
  BY DEF InStep
<1>2. /\ ppc \in Early /\ vpc \in Greeting /\ k = 0 /\ packet = <<>> /\ skipped = 0
      /\ portA = <<>> /\ ~offering /\ tx = <<>>
  BY DEF StartPio, Mounted, DiscardByte, GetHandshake, AnswerHandshake, Early, InStep, PicoAt,
       VictorAt, AnswerAt
<1>3. GetByte => n > 0 /\ Head(rx) = STARTUP_HANDSHAKE
  <2>1. SUFFICES ASSUME GetByte PROVE n > 0 /\ Head(rx) = STARTUP_HANDSHAKE
    OBVIOUS
  <2>2. Head(rx) = Expected(n, 1) /\ Len(rx') \in Nat /\ Len(rx') = n + k - Len(packet) - 1
    BY <1>1, <2>1, StreamMoves
  <2>3. Len(packet) = 0
    BY <1>2
  <2>4. n > 0
    BY <1>2, <2>2, <2>3
  <2> QED BY <2>2, <2>4 DEF Expected
<1>4. CASE StartPio \/ Mounted
  <2>1. /\ UNCHANGED <<rx, held, cb1, tx, offering, portA, victor, skipped, packet, strays>>
        /\ running' /\ ppc' \in {"mounting", "handshake"}
    BY <1>4 DEF StartPio, Mounted, port, history, InStep, PicoAt
  <2>2. VictorAt' /\ PicoAt' /\ AnswerAt'
    BY <1>2, <2>1 DEF InStep, VictorAt, PicoAt, AnswerAt, Early, Greeting, victor
  <2> QED BY <1>1, <2>1, <2>2, StreamStays DEF InStep, victor
<1>5. CASE DiscardByte
  BY <1>3, <1>5 DEF DiscardByte
<1>6. CASE GetHandshake
  <2>1. /\ GetByte /\ ppc = "handshake" /\ ppc' = "answer" /\ UNCHANGED <<victor, skipped, packet>>
        /\ strays' = IF strays > 0 THEN strays - 1 ELSE 0
        /\ UNCHANGED <<running, tx, offering, portA>>
    BY <1>6 DEF GetHandshake, GetByte
  <2>2. n - 1 + skipped' <= strays' /\ n - 1 \in Nat
    <3>1. n + skipped <= strays /\ n > 0 /\ strays \in Nat
      BY <1>1, <1>3, <2>1 DEF Stream, ProgramsTypeOK
    <3> QED BY <1>2, <2>1, <3>1
  <2>3. Stream(n - 1)'
    BY <1>1, <1>3, <2>1, <2>2, HandshakeTaken DEF victor
  <2>4. VictorAt' /\ PicoAt' /\ AnswerAt'
    BY <1>2, <2>1 DEF InStep, VictorAt, PicoAt, AnswerAt, Early, Greeting, victor
  <2> QED BY <2>2, <2>3, <2>4 DEF InStep
<1>7. CASE AnswerHandshake
  <2>1. /\ ppc = "answer" /\ ppc' = "protocol" /\ UNCHANGED <<victor, skipped, packet, strays>>
        /\ portA' = <<HANDSHAKE_RESPONSE>> /\ offering' /\ tx' = <<>>
        /\ UNCHANGED <<running, rx, held, cb1>>
    BY <1>2, <1>7 DEF AnswerHandshake, PutByte, history
  <2>2. VictorAt' /\ PicoAt' /\ AnswerAt'
    BY <1>2, <2>1 DEF InStep, VictorAt, PicoAt, AnswerAt, Early, Greeting, victor
  <2> QED BY <1>1, <2>1, <2>2, StreamStays DEF InStep, victor
<1> QED BY <1>4, <1>5, <1>6, <1>7

LEMMA HarmlessGetProtocol ==
    ASSUME PortTypeOK(Byte), ProgramsTypeOK, Calm, InStep, GetProtocol
    PROVE  InStep'
<1>1. PICK n \in Nat : Stream(n)
  BY DEF InStep
<1>2. /\ GetByte /\ ppc = "protocol" /\ packet = <<>> /\ Len(packet) = 0
      /\ UNCHANGED <<victor, history, running, tx, offering, portA>>
      /\ (cb1 => cb1')
  BY DEF GetProtocol, GetByte, InStep, PicoAt
<1>3. n + skipped <= strays /\ strays <= 3 /\ skipped \in 0 .. 3 /\ strays \in Nat
  BY <1>1, <1>2, Lengths DEF Stream, Calm, StrayLimit
<1>4. Head(rx) = Expected(n, 1) /\ Len(rx') \in Nat /\ Len(rx') = n + k - 0 - 1
  BY <1>1, <1>2, StreamMoves
<1>5. CASE n > 0
  <2>1. Head(rx) = HANDSHAKE /\ skipped < MaxSkips
    BY <1>3, <1>4, <1>5 DEF Expected, STARTUP_HANDSHAKE, HANDSHAKE, MaxSkips
  <2>2. skipped' = skipped + 1 /\ UNCHANGED <<ppc, packet>>
    BY <2>1 DEF GetProtocol
  <2>3. n - 1 + skipped' <= strays' /\ n - 1 \in Nat
    BY <1>2, <1>3, <1>5, <2>2 DEF history
  <2>4. Stream(n - 1)'
    BY <1>1, <1>2, <1>5, <2>2, <2>3, HandshakeTaken DEF victor
  <2>5. VictorAt' /\ PicoAt' /\ AnswerAt'
    BY <1>2, <2>2 DEF InStep, VictorAt, PicoAt, AnswerAt, Early, Greeting, victor
  <2> QED BY <2>3, <2>4, <2>5 DEF InStep
<1>6. CASE n = 0
  <2>1. Head(rx) = Request[1]
    BY <1>2, <1>4, <1>6 DEF Expected
  <2>2. packet' = <<Head(rx)>> /\ ppc' = "packet" /\ skipped' = 0
    BY <2>1 DEF GetProtocol, HANDSHAKE
  <2>3. packet' = Append(packet, Head(rx)) /\ packet' # <<>>
    BY <1>2, <2>2
  <2>4. 0 + skipped' <= strays'
    BY <1>2, <1>3, <2>2 DEF history
  <2>5. Stream(0)'
    BY <1>1, <1>2, <1>6, <2>3, <2>4, RequestByteTaken DEF victor
  <2>6. vpc \notin Greeting /\ vpc # "sent"
    <3>1. k # 0
      BY <1>4, <1>6, Lengths
    <3> QED BY <1>2, <3>1 DEF InStep, VictorAt
  <2>7. VictorAt' /\ PicoAt' /\ AnswerAt'
    BY <1>2, <2>2, <2>3, <2>6 DEF InStep, VictorAt, PicoAt, AnswerAt, Early, victor
  <2> QED BY <2>5, <2>7 DEF InStep
<1> QED BY <1>5, <1>6

LEMMA HarmlessGetPacketByte ==
    ASSUME PortTypeOK(Byte), ProgramsTypeOK, InStep, GetPacketByte
    PROVE  InStep'
<1>1. PICK n \in Nat : Stream(n)
  BY DEF InStep
<1>2. /\ GetByte /\ ppc = "packet" /\ packet # <<>> /\ packet' = Append(packet, Head(rx))
      /\ UNCHANGED <<victor, history, running, tx, offering, portA, ppc, skipped>>
      /\ (cb1 => cb1')
  BY DEF GetPacketByte, GetByte, InStep, PicoAt
<1>3. n = 0 /\ 0 + skipped' <= strays'
  BY <1>1, <1>2 DEF Stream, history
<1>4. Stream(0)'
  BY <1>1, <1>2, <1>3, RequestByteTaken DEF victor
<1>5. packet' # <<>>
  <2>1. packet \in Seq(Byte) /\ Head(rx) \in Byte
    BY <1>2, GetByteType DEF ProgramsTypeOK
  <2> QED BY <1>2, <2>1, AppendProperties
<1>6. VictorAt' /\ PicoAt' /\ AnswerAt'
  BY <1>2, <1>5 DEF InStep, VictorAt, PicoAt, AnswerAt, Early, victor
<1> QED BY <1>4, <1>6 DEF InStep

\* A packet as long as its size field says is the whole request.
LEMMA WholePacket ==
    ASSUME ProgramsTypeOK, NEW n \in Nat, Stream(n), Len(packet) = PacketSize(packet)
    PROVE  packet = Request
<1>1. packet \in Seq(Byte) /\ Request \in Seq(Byte) /\ Len(packet) \in Nat
  BY LenProperties DEF ProgramsTypeOK, Byte
<1>2. Len(packet) >= 4
  <2>1. Len(packet) < 4 => Len(packet) = 5
    BY DEF PacketSize
  <2> QED BY <1>1, <2>1
<1>3. \A i \in 1 .. Len(packet) : packet[i] = Request[i]
  BY DEF Stream
<1>4. packet[3] = Request[3] /\ packet[4] = Request[4]
  <2>1. 3 \in 1 .. Len(packet) /\ 4 \in 1 .. Len(packet)
    BY <1>1, <1>2
  <2> QED BY <1>3, <2>1
<1>5. Len(packet) = Len(Request)
  BY <1>1, <1>2, <1>4 DEF PacketSize
<1> QED BY <1>1, <1>3, <1>5, SeqEqual

LEMMA HarmlessAnswerPacket ==
    ASSUME PortTypeOK(Byte), ProgramsTypeOK, InStep, AnswerPacket
    PROVE  InStep'
<1>1. PICK n \in Nat : Stream(n)
  BY DEF InStep
<1>2. packet = Request
  BY <1>1, WholePacket DEF AnswerPacket
<1>3. /\ ppc = "packet" /\ PutByte(STATUS_OK) /\ ppc' = "data"
      /\ UNCHANGED <<victor, skipped, history, packet>>
  BY <1>2 DEF AnswerPacket
<1>4. vpc \notin Greeting /\ vpc # "sent" /\ portA = <<>> /\ ~offering /\ tx = <<>>
  BY <1>3 DEF InStep, VictorAt, AnswerAt, Early
<1>5. portA' = <<STATUS_OK>> /\ offering' /\ tx' = <<>> /\ UNCHANGED <<running, rx, held, cb1>>
  BY <1>3, <1>4 DEF PutByte
<1>6. VictorAt' /\ PicoAt' /\ AnswerAt'
  BY <1>2, <1>3, <1>4, <1>5 DEF InStep, VictorAt, PicoAt, AnswerAt, Early, victor
<1> QED BY <1>1, <1>3, <1>5, <1>6, StreamStays DEF InStep, victor, history

LEMMA HarmlessStep ==
    ASSUME Fits, TypeOK, Harmless, [Next]_vars
    PROVE  Harmless'
<1>1. PortTypeOK(Byte) /\ ProgramsTypeOK
  BY TypeParts
<1>2. CASE Next
  <2>1. SUFFICES ASSUME Calm' PROVE InStep'
    BY DEF Harmless
  <2>2. Calm /\ InStep /\ Undisturbed'
    BY <1>1, <1>2, <2>1, CalmBefore DEF Harmless
  <2>3. ~VictorReboots /\ ~PicoResets
    <3>1. resets \in Nat /\ reboots \in Nat
      BY <1>1 DEF ProgramsTypeOK
    <3> QED BY <2>2, <3>1 DEF VictorReboots, PicoResets, Undisturbed
  <2> QED BY <1>1, <1>2, <2>1, <2>2, <2>3, HarmlessWriteHandshake, HarmlessSendByte,
            HarmlessVictorReads, HarmlessBoot, HarmlessGetProtocol, HarmlessGetPacketByte,
            HarmlessAnswerPacket DEF Next, Victor, Pico
<1>3. CASE UNCHANGED vars
  BY <1>3 DEF vars, port, victor, pico, history, Harmless, Calm, StrayLimit, Undisturbed, InStep,
       VictorAt, PicoAt, AnswerAt, Stream, Expected
<1> QED BY <1>2, <1>3

\* As long as the FIFO and the stalled push hold three strays and the request, as
\* they exactly do for DEVICE_INIT, up to three strays leave the first request as
\* it was sent: the Pico reads it from its first byte on and without a gap.
THEOREM StraysAreSkipped ==
    ASSUME Fits
    PROVE  Spec => []FewStraysDoNoHarm
<1>1. TypeOK /\ Harmless => FewStraysDoNoHarm
  <2>1. SUFFICES ASSUME TypeOK, Harmless, Undisturbed, strays <= 3 PROVE IsPrefix(packet, Request)
    BY DEF FewStraysDoNoHarm
  <2>2. Calm
    BY <2>1 DEF Calm, StrayLimit, TypeOK
  <2>3. PICK n \in Nat : Stream(n)
    BY <2>1, <2>2 DEF Harmless, InStep
  <2>4. packet \in Seq(Byte) /\ Request \in Seq(Byte) /\ Len(packet) \in Nat /\ k \in 0 .. Len(Request)
    BY <2>1, LenProperties DEF TypeOK, Byte
  <2>5. Len(packet) <= Len(Request) /\ \A i \in 1 .. Len(packet) : packet[i] = Request[i]
    BY <2>3, <2>4, RequestBytes DEF Stream
  <2>6. SubSeq(packet, 1, Len(packet)) = SubSeq(Request, 1, Len(packet))
    BY <2>4, <2>5
  <2> QED BY <2>5, <2>6 DEF IsPrefix
<1>2. Spec => []Harmless
  BY TypeCorrect, HarmlessInit, HarmlessStep, PTL DEF Spec
<1> QED BY <1>1, <1>2, TypeCorrect, PTL
=============================================================================
