----------------------- MODULE PacketTransfer_proofs -----------------------
(***************************************************************************)
(* What becomes of the bytes of one packet, proved for a FIFO of any depth *)
(* and a packet of any length: the lengths TLC cannot go through.          *)
(***************************************************************************)
EXTENDS PacketTransfer, SequenceTheorems, TLAPS

USE BurstAssumption, FifoAssumption

-----------------------------------------------------------------------------
(* Sequences *)

\* The head of one queue appended to another: the bytes and their order stay.
LEMMA HeadMoves ==
    ASSUME NEW S, NEW s \in Seq(S), NEW t \in Seq(S), t # <<>>
    PROVE  Append(s, Head(t)) \o Tail(t) = s \o t
<1>1. /\ Head(t) \in S /\ Head(t) = t[1] /\ Tail(t) \in Seq(S) /\ Len(Tail(t)) = Len(t) - 1
      /\ \A m \in 1 .. Len(Tail(t)) : Tail(t)[m] = t[m + 1]
  BY HeadTailProperties
<1>2. Len(t) \in Nat /\ Len(s) \in Nat /\ Len(t) > 0
  BY EmptySeq, LenProperties
<1>3. /\ Append(s, Head(t)) \in Seq(S) /\ Len(Append(s, Head(t))) = Len(s) + 1
      /\ \A m \in 1 .. Len(s) : Append(s, Head(t))[m] = s[m]
      /\ Append(s, Head(t))[Len(s) + 1] = t[1]
  BY <1>1, AppendProperties
<1> DEFINE a == Append(s, Head(t)) \o Tail(t)
           b == s \o t
<1>4. /\ a \in Seq(S) /\ Len(a) = Len(s) + Len(t)
      /\ \A m \in 1 .. Len(s) + Len(t) :
             a[m] = IF m <= Len(s) + 1 THEN Append(s, Head(t))[m] ELSE Tail(t)[m - (Len(s) + 1)]
  BY <1>1, <1>2, <1>3, ConcatProperties
<1>5. /\ b \in Seq(S) /\ Len(b) = Len(s) + Len(t)
      /\ \A m \in 1 .. Len(s) + Len(t) : b[m] = IF m <= Len(s) THEN s[m] ELSE t[m - Len(s)]
  BY ConcatProperties
<1>6. ASSUME NEW m \in 1 .. Len(s) + Len(t) PROVE a[m] = b[m]
  <2>1. CASE m <= Len(s)
    BY <1>2, <1>3, <1>4, <1>5, <2>1
  <2>2. CASE m = Len(s) + 1
    BY <1>2, <1>3, <1>4, <1>5, <2>2
  <2>3. CASE m > Len(s) + 1
    <3>1. m - (Len(s) + 1) \in 1 .. Len(Tail(t)) /\ m - (Len(s) + 1) + 1 = m - Len(s)
      BY <1>1, <1>2, <2>3
    <3>2. a[m] = t[m - Len(s)]
      BY <1>1, <1>2, <1>4, <2>3, <3>1
    <3> QED BY <1>2, <1>5, <2>3, <3>2
  <2> QED BY <1>2, <2>1, <2>2, <2>3
<1>7. a = b
  BY <1>4, <1>5, <1>6, SeqEqual
<1> QED BY <1>7

-----------------------------------------------------------------------------
(* The type of the port, for any alphabet of bytes *)

LEMMA HeldIsShort ==
    ASSUME NEW B, PortTypeOK(B)
    PROVE  held \in Seq(B) /\ Len(held) \in 0..1 /\ (held # <<>> => Len(held) = 1)
<1>1. CASE held = <<>>
  BY <1>1
<1>2. CASE \E b \in B : held = <<b>>
  BY <1>2
<1> QED BY <1>1, <1>2 DEF PortTypeOK

LEMMA RefilledFits ==
    ASSUME NEW B, PortTypeOK(B), rx # <<>>
    PROVE  /\ Refilled \in Seq(B)
           /\ Len(Refilled) = Len(rx) - 1 + Len(held)
           /\ Len(Refilled) <= FifoDepth
<1>1. rx \in Seq(B) /\ Len(rx) <= FifoDepth /\ FifoDepth \in Nat
  BY FifoAssumption DEF PortTypeOK
<1>2. Tail(rx) \in Seq(B) /\ Len(Tail(rx)) = Len(rx) - 1 /\ Len(rx) \in Nat
  BY <1>1, HeadTailProperties, LenProperties
<1>3. held \in Seq(B) /\ Len(held) \in 0..1
  BY HeldIsShort
<1>4. Tail(rx) \o held \in Seq(B) /\ Len(Tail(rx) \o held) = Len(Tail(rx)) + Len(held)
  BY <1>2, <1>3, ConcatProperties
<1>5. Refilled \in Seq(B) /\ Len(Refilled) = Len(Tail(rx)) + Len(held)
  BY <1>4 DEF Refilled
<1>6. Len(Refilled) = Len(rx) - 1 + Len(held) /\ Len(Refilled) <= FifoDepth
  <2> DEFINE m == Len(rx)
             t == Len(Tail(rx))
             h == Len(held)
             r == Len(Refilled)
  <2>1. m \in Nat /\ t = m - 1 /\ h \in 0..1 /\ r = t + h /\ m <= FifoDepth /\ FifoDepth \in Nat
    BY <1>1, <1>2, <1>3, <1>5
  <2> HIDE DEF m, t, h, r
  <2>2. r = m - 1 + h /\ r <= FifoDepth
    BY <2>1
  <2> QED BY <2>2 DEF m, t, h, r
<1> QED BY <1>5, <1>6

LEMMA WriteByteType ==
    ASSUME NEW B, PortTypeOK(B), NEW b \in B, WriteByte(b)
    PROVE  PortTypeOK(B)'
<1>1. CASE UNCHANGED <<rx, held>> /\ cb1' = Untaken
  BY <1>1 DEF WriteByte, PortTypeOK, Untaken
<1>2. CASE Room /\ rx' = Append(rx, b) /\ cb1' = TRUE /\ UNCHANGED held
  <2>1. Append(rx, b) \in Seq(B) /\ Len(Append(rx, b)) = Len(rx) + 1 /\ Len(rx) \in Nat
    BY AppendProperties, LenProperties DEF PortTypeOK
  <2>2. Len(rx') <= FifoDepth
    BY <1>2, <2>1, FifoAssumption DEF Room
  <2> QED BY <1>2, <2>1, <2>2 DEF WriteByte, PortTypeOK
<1>3. CASE held' = <<b>> /\ cb1' = Untaken /\ UNCHANGED rx
  BY <1>3 DEF WriteByte, PortTypeOK, Untaken
<1> QED BY <1>1, <1>2, <1>3 DEF WriteByte

LEMMA GetByteType ==
    ASSUME NEW B, PortTypeOK(B), GetByte
    PROVE  PortTypeOK(B)' /\ Head(rx) \in B
<1>1. rx # <<>> /\ rx \in Seq(B)
  BY DEF GetByte, PortTypeOK
<1>2. Refilled \in Seq(B) /\ Len(Refilled) <= FifoDepth
  BY <1>1, RefilledFits
<1>3. Head(rx) \in B
  BY <1>1, HeadTailProperties
<1> QED BY <1>2, <1>3 DEF GetByte, PortTypeOK

LEMMA PutByteType ==
    ASSUME NEW B, PortTypeOK(B), NEW b \in B, PutByte(b)
    PROVE  PortTypeOK(B)'
<1>1. CASE offering' = TRUE /\ portA' \in {<<b>>, portA} /\ UNCHANGED tx
  BY <1>1 DEF PutByte, PortTypeOK
<1>2. CASE Len(tx) < FifoDepth /\ tx' = Append(tx, b) /\ UNCHANGED <<offering, portA>>
  <2>1. Append(tx, b) \in Seq(B) /\ Len(Append(tx, b)) = Len(tx) + 1 /\ Len(tx) \in Nat
    BY AppendProperties, LenProperties DEF PortTypeOK
  <2>2. Len(tx') <= FifoDepth
    BY <1>2, <2>1, FifoAssumption
  <2> QED BY <1>2, <2>1, <2>2 DEF PutByte, PortTypeOK
<1> QED BY <1>1, <1>2 DEF PutByte

LEMMA TakenType ==
    ASSUME NEW B, PortTypeOK(B), Taken
    PROVE  /\ tx' \in Seq(B) /\ Len(tx') <= FifoDepth
           /\ offering' \in BOOLEAN
           /\ portA' \in {<<>>} \cup { <<b>> : b \in B }
<1>1. CASE portA' = <<>> /\ offering' = FALSE /\ UNCHANGED tx
  BY <1>1 DEF PortTypeOK
<1>2. CASE tx # <<>> /\ portA' = <<Head(tx)>> /\ tx' = Tail(tx) /\ UNCHANGED offering
  <2>1. tx \in Seq(B) /\ Len(tx) <= FifoDepth
    BY DEF PortTypeOK
  <2>2. Head(tx) \in B /\ Tail(tx) \in Seq(B) /\ Len(Tail(tx)) = Len(tx) - 1 /\ Len(tx) \in Nat
    BY <1>2, <2>1, HeadTailProperties, LenProperties
  <2>3. Len(tx') <= FifoDepth
    BY <1>2, <2>1, <2>2, FifoAssumption
  <2> QED BY <1>2, <2>2, <2>3 DEF PortTypeOK
<1> QED BY <1>1, <1>2 DEF Taken

LEMMA ReadByteType ==
    ASSUME NEW B, PortTypeOK(B), ReadByte
    PROVE  PortTypeOK(B)'
BY TakenType DEF ReadByte, PortTypeOK

LEMMA IdleType ==
    ASSUME NEW B, Idle, running \in BOOLEAN
    PROVE  PortTypeOK(B)
<1>1. <<>> \in Seq(B) /\ Len(<<>>) <= FifoDepth
  BY FifoAssumption
<1> QED BY <1>1, Zenon DEF Idle, PortTypeOK

-----------------------------------------------------------------------------
(* Type correctness *)

\* Where the Victor polls, it has written a byte.
PollsForAByte == vpc = "poll" => sent >= 1
Typed == TypeOK /\ PollsForAByte

LEMMA SizeType == TypeOK => Size \in Nat \ {0} /\ Size <= MaxSize /\ header < Size
<1> SUFFICES ASSUME TypeOK PROVE Size \in Nat \ {0} /\ Size <= MaxSize /\ header < Size
  OBVIOUS
<1>1. header \in {2, 4} /\ burst \in 0 .. MaxBurst
  BY DEF TypeOK
<1> QED BY <1>1 DEF Size, MaxSize

LEMMA TypedInit == Init => Typed
<1> SUFFICES ASSUME Init PROVE Typed
  OBVIOUS
<1>1. PortTypeOK(Byte)
  BY IdleType DEF Init
<1>2. Size \in Nat
  BY DEF Init, Size
<1>3. taken \in Seq(Byte) /\ Len(taken) = 0
  BY EmptySeq DEF Init
<1> QED BY <1>1, <1>2, <1>3 DEF Init, Typed, TypeOK, PollsForAByte

\* What the Victor's steps leave alone.
LEMMA KeepPacket ==
    ASSUME UNCHANGED packet PROVE Size' = Size /\ header' = header /\ burst' = burst
BY DEF packet, Size

LEMMA TypedWrite == Typed /\ Write => Typed'
<1> SUFFICES ASSUME Typed, Write PROVE Typed'
  OBVIOUS
<1>1. TypeOK /\ Size \in Nat /\ Size <= MaxSize /\ sent \in 0 .. Size /\ sent < Size
  BY SizeType DEF Typed, TypeOK, Write
<1>2. sent + 1 \in 1 .. Size /\ sent + 1 \in Byte
  BY <1>1 DEF Byte, MaxSize
<1>3. PortTypeOK(Byte)'
  BY <1>1, <1>2, WriteByteType DEF Write, TypeOK
<1>4. Size' = Size /\ header' = header /\ burst' = burst
  BY KeepPacket DEF Write
<1>5. vpc' \in {"poll", "write"} /\ sent' = sent + 1 /\ acked' = acked /\ ppc' = ppc /\ taken' = taken
  BY DEF Write, AfterWrite
<1> QED BY <1>1, <1>2, <1>3, <1>4, <1>5 DEF Typed, TypeOK, PollsForAByte

LEMMA TypedAcknowledged == Typed /\ Acknowledged => Typed'
<1> SUFFICES ASSUME Typed, Acknowledged PROVE Typed'
  OBVIOUS
<1>1. TypeOK /\ sent \in 1 .. Size /\ Size \in Nat
  BY SizeType DEF Typed, TypeOK, PollsForAByte, Acknowledged
<1>2. Size' = Size /\ header' = header /\ burst' = burst
  BY KeepPacket DEF Acknowledged
<1>3. vpc' \in {"status", "write"} /\ acked' = acked \cup {sent}
      /\ UNCHANGED <<port, sent, ppc, taken>>
  BY DEF Acknowledged, AfterPoll
<1>4. PortTypeOK(Byte)'
  BY <1>1, <1>3 DEF TypeOK, PortTypeOK, port
<1> QED BY <1>1, <1>2, <1>3, <1>4 DEF Typed, TypeOK, PollsForAByte

LEMMA TypedPollTimeout == Typed /\ PollTimeout => Typed'
<1> SUFFICES ASSUME Typed, PollTimeout PROVE Typed'
  OBVIOUS
<1>1. TypeOK /\ sent \in 0 .. Size /\ Size \in Nat /\ header < Size /\ header \in {2, 4}
  BY SizeType DEF Typed, TypeOK
<1>2. Size' = Size /\ header' = header /\ burst' = burst
  BY KeepPacket DEF PollTimeout
<1>3. vpc' \in {"status", "write"} /\ sent' = sent + Abandoned(sent)
      /\ UNCHANGED <<port, acked, ppc, taken>>
  BY DEF PollTimeout, AfterPoll
<1>4. sent' \in 0 .. Size
  BY <1>1, <1>3 DEF Abandoned
<1>5. PortTypeOK(Byte)'
  BY <1>1, <1>3 DEF TypeOK, PortTypeOK, port
<1> QED BY <1>1, <1>2, <1>3, <1>4, <1>5 DEF Typed, TypeOK, PollsForAByte

LEMMA TypedReadStatus == Typed /\ ReadStatus => Typed'
<1> SUFFICES ASSUME Typed, ReadStatus PROVE Typed'
  OBVIOUS
<1>1. PortTypeOK(Byte)'
  BY ReadByteType DEF Typed, TypeOK, ReadStatus
<1>2. Size' = Size /\ header' = header /\ burst' = burst
  BY KeepPacket DEF ReadStatus
<1>3. vpc' = "done" /\ UNCHANGED <<sent, acked, ppc, taken>>
  BY DEF ReadStatus
<1> QED BY <1>1, <1>2, <1>3 DEF Typed, TypeOK, PollsForAByte

LEMMA TypedReceive == Typed /\ Receive => Typed'
<1> SUFFICES ASSUME Typed, Receive PROVE Typed'
  OBVIOUS
<1>1. PortTypeOK(Byte)' /\ Head(rx) \in Byte
  BY GetByteType DEF Typed, TypeOK, Receive
<1>2. Size' = Size /\ header' = header /\ burst' = burst
  BY KeepPacket DEF Receive
<1>3. taken \in Seq(Byte) /\ Len(taken) < Size /\ Size \in Nat
  BY SizeType DEF Typed, TypeOK, Receive
<1>4. taken' \in Seq(Byte) /\ Len(taken') = Len(taken) + 1 /\ Len(taken) \in Nat
  BY <1>1, <1>3, AppendProperties, LenProperties DEF Receive
<1>5. Len(taken') <= Size
  BY <1>3, <1>4
<1>6. UNCHANGED <<vpc, sent, acked, ppc>>
  BY DEF Receive
<1> QED BY <1>1, <1>2, <1>4, <1>5, <1>6 DEF Typed, TypeOK, PollsForAByte

LEMMA TypedAnswer == Typed /\ Answer => Typed'
<1> SUFFICES ASSUME Typed, Answer PROVE Typed'
  OBVIOUS
<1>1. StatusByte \in Byte
  BY DEF StatusByte, Byte, MaxSize
<1>2. PortTypeOK(Byte)'
  BY <1>1, PutByteType DEF Typed, TypeOK, Answer
<1>3. Size' = Size /\ header' = header /\ burst' = burst
  BY KeepPacket DEF Answer
<1>4. ppc' = "answered" /\ UNCHANGED <<vpc, sent, acked, taken>>
  BY DEF Answer
<1> QED BY <1>2, <1>3, <1>4 DEF Typed, TypeOK, PollsForAByte

LEMMA TypedStep == Typed /\ [Next]_vars => Typed'
<1> SUFFICES ASSUME Typed, [Next]_vars PROVE Typed'
  OBVIOUS
<1>1. CASE Victor
  BY <1>1, TypedWrite, TypedAcknowledged, TypedPollTimeout, TypedReadStatus DEF Victor
<1>2. CASE Pico
  BY <1>2, TypedReceive, TypedAnswer DEF Pico
<1>3. CASE UNCHANGED vars
  BY <1>3 DEF vars, port, packet, Typed, TypeOK, PortTypeOK, PollsForAByte, Size
<1> QED BY <1>1, <1>2, <1>3 DEF Next

\* The programs of the packet stay within their bounds, and so do the FIFOs.
THEOREM TypeCorrect == Spec => []TypeOK
<1>1. Typed => TypeOK
  BY DEF Typed
<1> QED BY <1>1, TypedInit, TypedStep, PTL DEF Spec

-----------------------------------------------------------------------------
(* The bytes under way *)

LEMMA Flow ==
    ASSUME TypeOK
    PROVE  /\ taken \in Seq(Byte) /\ rx \in Seq(Byte) /\ held \in Seq(Byte)
           /\ taken \o rx \in Seq(Byte) /\ InFlight \in Seq(Byte)
           /\ Len(InFlight) = Len(taken) + Len(rx) + Len(held)
           /\ Len(taken) \in Nat /\ Len(rx) \in Nat /\ Len(held) \in Nat
<1>1. taken \in Seq(Byte) /\ rx \in Seq(Byte) /\ held \in Seq(Byte)
  BY HeldIsShort DEF TypeOK, PortTypeOK
<1>2. taken \o rx \in Seq(Byte) /\ Len(taken \o rx) = Len(taken) + Len(rx)
  BY <1>1, ConcatProperties
<1>3. InFlight \in Seq(Byte) /\ Len(InFlight) = Len(taken \o rx) + Len(held)
  BY <1>1, <1>2, ConcatProperties DEF InFlight
<1> QED BY <1>1, <1>2, <1>3, LenProperties

LEMMA Associative == \A s, t, u \in Seq(Byte) : (s \o t) \o u = s \o (t \o u)
BY ConcatAssociative

\* A byte on its way to the Pico joins the others at the end, or is lost; it is
\* lost only while another is held.
LEMMA WriteJoins ==
    ASSUME Typed, Write
    PROVE  /\ InFlight' = InFlight \/ InFlight' = Append(InFlight, sent + 1)
           /\ running /\ held = <<>> => InFlight' = Append(InFlight, sent + 1)
<1>1. /\ taken \in Seq(Byte) /\ rx \in Seq(Byte) /\ held \in Seq(Byte)
      /\ taken \o rx \in Seq(Byte) /\ InFlight \in Seq(Byte)
  BY Flow DEF Typed
<1>2. sent + 1 \in Byte
  BY SizeType DEF Typed, TypeOK, Write, Byte, MaxSize
<1>3. taken' = taken
  BY DEF Write
<1>4. CASE (~running \/ held # <<>>) /\ UNCHANGED <<rx, held>>
  BY <1>3, <1>4 DEF InFlight
<1>5. CASE held = <<>> /\ rx' = Append(rx, sent + 1) /\ UNCHANGED held
  <2>1. InFlight = taken \o rx /\ InFlight' = taken \o Append(rx, sent + 1)
    <3>1. InFlight' = (taken \o Append(rx, sent + 1)) \o <<>>
      BY <1>3, <1>5 DEF InFlight
    <3>2. Append(rx, sent + 1) \in Seq(Byte)
      BY <1>1, <1>2, AppendProperties
    <3>3. taken \o Append(rx, sent + 1) \in Seq(Byte)
      BY <1>1, <3>2, ConcatProperties
    <3>4. (taken \o Append(rx, sent + 1)) \o <<>> = taken \o Append(rx, sent + 1)
      BY <3>3, ConcatEmptySeq
    <3>5. InFlight = (taken \o rx) \o <<>>
      BY <1>5 DEF InFlight
    <3>6. (taken \o rx) \o <<>> = taken \o rx
      BY <1>1, ConcatEmptySeq
    <3> QED BY <3>1, <3>4, <3>5, <3>6
  <2>2. <<sent + 1>> \in Seq(Byte)
    BY <1>2
  <2>3. Append(rx, sent + 1) = rx \o <<sent + 1>>
    BY <1>1, <1>2, AppendIsConcat
  <2>4. taken \o (rx \o <<sent + 1>>) = (taken \o rx) \o <<sent + 1>>
    BY <1>1, <2>2, ConcatAssociative, SMTT(30)
  <2>5. (taken \o rx) \o <<sent + 1>> = Append(taken \o rx, sent + 1)
    BY <1>1, <1>2, AppendIsConcat
  <2> QED BY <2>1, <2>3, <2>4, <2>5
<1>6. CASE held = <<>> /\ held' = <<sent + 1>> /\ UNCHANGED rx
  <2>1. InFlight' = (taken \o rx) \o <<sent + 1>>
    BY <1>3, <1>6 DEF InFlight
  <2>2. InFlight = (taken \o rx) \o <<>>
    BY <1>6 DEF InFlight
  <2>3. (taken \o rx) \o <<>> = taken \o rx
    BY <1>1, ConcatEmptySeq
  <2>4. (taken \o rx) \o <<sent + 1>> = Append(taken \o rx, sent + 1)
    BY <1>1, <1>2, AppendIsConcat
  <2> QED BY <2>1, <2>2, <2>3, <2>4
<1> QED BY <1>4, <1>5, <1>6 DEF Write, WriteByte

\* What the Pico takes stays in the flow, in its place.
LEMMA ReceiveMoves == ASSUME Typed, Receive PROVE InFlight' = InFlight
<1>1. /\ taken \in Seq(Byte) /\ rx \in Seq(Byte) /\ held \in Seq(Byte) /\ rx # <<>>
  BY Flow DEF Typed, Receive, GetByte
<1>2. Head(rx) \in Byte /\ Tail(rx) \in Seq(Byte)
  BY <1>1, HeadTailProperties
<1>3. Append(taken, Head(rx)) \in Seq(Byte)
  BY <1>1, <1>2, AppendProperties
<1>4. Tail(rx) \o held \in Seq(Byte)
  BY <1>1, <1>2, ConcatProperties
<1>5. InFlight' = (Append(taken, Head(rx)) \o (Tail(rx) \o held)) \o <<>>
  BY DEF InFlight, Receive, GetByte, Refilled
<1>6. Append(taken, Head(rx)) \o (Tail(rx) \o held) \in Seq(Byte)
  BY <1>3, <1>4, ConcatProperties
<1>7. (Append(taken, Head(rx)) \o (Tail(rx) \o held)) \o <<>>
          = Append(taken, Head(rx)) \o (Tail(rx) \o held)
  BY <1>6, ConcatEmptySeq
<1>8. Append(taken, Head(rx)) \o (Tail(rx) \o held)
          = (Append(taken, Head(rx)) \o Tail(rx)) \o held
  BY <1>1, <1>2, <1>3, Associative, Zenon
<1>9. Append(taken, Head(rx)) \o Tail(rx) = taken \o rx
  BY <1>1, HeadMoves
<1> QED BY <1>5, <1>7, <1>8, <1>9 DEF InFlight

\* Every other step leaves the flow alone.
Quiet == Acknowledged \/ PollTimeout \/ ReadStatus \/ Answer \/ UNCHANGED vars
LEMMA QuietKeepsFlow ==
    ASSUME Quiet
    PROVE  /\ UNCHANGED <<taken, rx, held, packet, running>>
           /\ InFlight' = InFlight
<1>1. UNCHANGED <<taken, rx, held, packet, running>>
  BY DEF Quiet, Acknowledged, PollTimeout, ReadStatus, Answer, ReadByte, PutByte, vars, port
<1> QED BY <1>1 DEF InFlight

LEMMA StepKinds == [Next]_vars => Write \/ Receive \/ Quiet
BY DEF Next, Victor, Pico, Quiet

LEMMA QuietMovesOn == ASSUME Typed, Quiet PROVE sent' \in Nat /\ sent' >= sent
<1>1. sent \in Nat
  BY SizeType DEF Typed, TypeOK
<1>2. sent' = sent \/ sent' = sent + Abandoned(sent)
  BY DEF Quiet, Acknowledged, PollTimeout, ReadStatus, Answer, vars
<1>3. Abandoned(sent) \in 0..1
  BY DEF Abandoned
<1> QED BY <1>1, <1>2, <1>3

-----------------------------------------------------------------------------
(* In order, whatever the length *)

NotAhead == \A m \in DOMAIN InFlight : InFlight[m] <= sent
Ordered == Typed /\ InOrder /\ NotAhead

LEMMA OrderedInit == Init => Ordered
<1> SUFFICES ASSUME Init PROVE Ordered
  OBVIOUS
<1>1. Typed
  BY TypedInit
<1>2. InFlight = <<>>
  BY DEF Init, Idle, InFlight
<1>3. DOMAIN InFlight = {}
  BY <1>2
<1> QED BY <1>1, <1>3 DEF Ordered, InOrder, NotAhead

LEMMA OrderedStep == Ordered /\ [Next]_vars => Ordered'
<1> SUFFICES ASSUME Ordered, [Next]_vars PROVE Ordered'
  OBVIOUS
<1>1. Typed /\ Typed'
  BY TypedStep DEF Ordered
<1>0. sent \in Nat
  BY <1>1, SizeType DEF Typed, TypeOK
<1>2. InFlight \in Seq(Byte) /\ Len(InFlight) \in Nat /\ DOMAIN InFlight = 1 .. Len(InFlight)
      /\ \A m \in DOMAIN InFlight : InFlight[m] \in Nat
      /\ sent \in Nat
  <2>1. InFlight \in Seq(Byte)
    BY <1>1, Flow DEF Typed
  <2>2. \A m \in 1 .. Len(InFlight) : InFlight[m] \in Byte
    BY <2>1, ElementOfSeq
  <2> QED BY <1>0, <2>1, <2>2, LenProperties DEF Byte, MaxSize
<1>3. CASE InFlight' = InFlight /\ sent' \in Nat /\ sent' >= sent
  BY <1>1, <1>2, <1>3 DEF Ordered, InOrder, NotAhead
<1>4. CASE InFlight' = Append(InFlight, sent + 1) /\ sent' = sent + 1 /\ sent + 1 \in Byte
  <2>1. sent + 1 \in Byte
    BY <1>4
  <2>2. /\ Append(InFlight, sent + 1) \in Seq(Byte)
        /\ Len(Append(InFlight, sent + 1)) = Len(InFlight) + 1
        /\ \A m \in 1 .. Len(InFlight) : Append(InFlight, sent + 1)[m] = InFlight[m]
        /\ Append(InFlight, sent + 1)[Len(InFlight) + 1] = sent + 1
    BY <1>2, <2>1, AppendProperties
  <2>3. DOMAIN Append(InFlight, sent + 1) = 1 .. Len(InFlight) + 1
    BY <2>2, LenProperties
  <2>4. \A m \in 1 .. Len(InFlight) : InFlight[m] <= sent
    BY <1>2 DEF Ordered, NotAhead
  <2>5. \A m \in 1 .. Len(InFlight) + 1 :
            Append(InFlight, sent + 1)[m] = IF m <= Len(InFlight) THEN InFlight[m] ELSE sent + 1
    BY <1>2, <2>2
  <2>6. NotAhead'
    BY <1>2, <1>4, <2>3, <2>4, <2>5 DEF NotAhead
  <2>7. InOrder'
    <3> SUFFICES ASSUME NEW m \in 1 .. Len(InFlight) + 1, NEW n \in 1 .. Len(InFlight) + 1, m < n
                 PROVE  Append(InFlight, sent + 1)[m] < Append(InFlight, sent + 1)[n]
      BY <1>4, <2>3 DEF InOrder
    <3>1. m \in 1 .. Len(InFlight) /\ Append(InFlight, sent + 1)[m] = InFlight[m]
      BY <1>2, <2>5
    <3>2. CASE n <= Len(InFlight)
      <4>1. n \in 1 .. Len(InFlight) /\ Append(InFlight, sent + 1)[n] = InFlight[n]
        BY <1>2, <2>5, <3>2
      <4> QED BY <1>2, <3>1, <4>1 DEF Ordered, InOrder
    <3>3. CASE ~(n <= Len(InFlight))
      <4>1. Append(InFlight, sent + 1)[n] = sent + 1
        BY <2>5, <3>3
      <4>2. InFlight[m] <= sent /\ InFlight[m] \in Nat
        BY <1>2, <2>4, <3>1
      <4>3. InFlight[m] < sent + 1
        BY <1>0, <4>2
      <4> QED BY <3>1, <4>1, <4>3, Zenon
    <3> QED BY <3>2, <3>3
  <2> QED BY <1>1, <2>6, <2>7 DEF Ordered
<1>5. CASE Write
  <2>1. sent' = sent + 1 /\ sent' \in Nat /\ sent' >= sent
    BY <1>0, <1>5 DEF Write
  <2>2. InFlight' = InFlight \/ InFlight' = Append(InFlight, sent + 1)
    BY <1>1, <1>5, WriteJoins
  <2>3. sent + 1 \in Byte
    BY <1>1, <1>5, SizeType DEF Typed, TypeOK, Write, Byte, MaxSize
  <2> QED BY <1>3, <1>4, <2>1, <2>2, <2>3
<1>6. CASE Receive
  <2>1. sent' \in Nat /\ sent' >= sent
    BY <1>0, <1>6 DEF Receive
  <2>2. InFlight' = InFlight
    BY <1>1, <1>6, ReceiveMoves
  <2> QED BY <1>3, <2>1, <2>2
<1>7. CASE Quiet
  BY <1>1, <1>3, <1>7, QuietKeepsFlow, QuietMovesOn
<1> QED BY <1>5, <1>6, <1>7, StepKinds

\* Bytes of a packet may be lost, whatever its length and however slow the Pico:
\* none is ever overtaken or comes twice.
THEOREM NoneOvertaken == Spec => []InOrder
<1>1. Ordered => InOrder
  BY DEF Ordered
<1> QED BY <1>1, OrderedInit, OrderedStep, PTL DEF Spec

-----------------------------------------------------------------------------
(* Nothing lost, when the packet fits *)

UpTo(n) == [k \in 1 .. n |-> k]

LEMMA UpToLength == ASSUME NEW n \in Nat PROVE UpTo(n) \in Seq(Nat) /\ Len(UpTo(n)) = n
<1>1. UpTo(n) \in [1 .. n -> Nat]
  BY DEF UpTo
<1>2. UpTo(n) \in Seq(Nat)
  BY <1>1, SeqDef
<1>3. DOMAIN UpTo(n) = 1 .. n
  BY DEF UpTo
<1> QED BY <1>2, <1>3, LenProperties

LEMMA UpToGrows == ASSUME NEW n \in Nat PROVE Append(UpTo(n), n + 1) = UpTo(n + 1)
<1>1. UpTo(n) \in Seq(Nat) /\ Len(UpTo(n)) = n
  BY UpToLength
<1>2. UpTo(n + 1) \in Seq(Nat) /\ Len(UpTo(n + 1)) = n + 1
  BY UpToLength
<1>3. /\ Append(UpTo(n), n + 1) \in Seq(Nat) /\ Len(Append(UpTo(n), n + 1)) = n + 1
      /\ \A m \in 1 .. n : Append(UpTo(n), n + 1)[m] = UpTo(n)[m]
      /\ Append(UpTo(n), n + 1)[n + 1] = n + 1
  BY <1>1, AppendProperties
<1>4. ASSUME NEW m \in 1 .. n + 1 PROVE Append(UpTo(n), n + 1)[m] = UpTo(n + 1)[m]
  <2>1. UpTo(n + 1)[m] = m
    BY DEF UpTo
  <2>2. CASE m \in 1 .. n
    BY <1>3, <2>1, <2>2 DEF UpTo
  <2>3. CASE m = n + 1
    BY <1>3, <2>1, <2>3
  <2>4. m \in 1 .. n \/ m = n + 1
    OBVIOUS
  <2> QED BY <2>2, <2>3, <2>4, Zenon
<1>5. \A m \in 1 .. Len(Append(UpTo(n), n + 1)) : Append(UpTo(n), n + 1)[m] = UpTo(n + 1)[m]
  <2>1. 1 .. Len(Append(UpTo(n), n + 1)) = 1 .. n + 1
    BY <1>3
  <2> QED BY <1>4, <2>1, Zenon
<1> DEFINE a == Append(UpTo(n), n + 1)
           b == UpTo(n + 1)
<1> HIDE DEF a, b
<1>6. a \in Seq(Nat) /\ b \in Seq(Nat) /\ Len(a) = Len(b) /\ \A m \in 1 .. Len(a) : a[m] = b[m]
  BY <1>2, <1>3, <1>5 DEF a, b
<1>7. a = b
  BY <1>6, SeqEqual
<1> QED BY <1>7 DEF a, b

\* Only the last byte of a packet that fits can find the FIFO full; a byte that
\* was taken in is acknowledged, and what is acknowledged is in the FIFO.
AllThere  == InFlight = UpTo(sent)
LastHeld  == held # <<>> => sent = Size
NoneHeld  == cb1 => held = <<>>
TakenAtOnce == vpc = "poll" /\ sent < Size => cb1
AckedIn   == \A k \in acked : k <= Len(taken) + Len(rx)
Sound ==
    /\ Typed
    /\ running = TRUE
    /\ Fits => AllThere /\ LastHeld /\ NoneHeld /\ TakenAtOnce /\ AckedIn

LEMMA SoundInit == Init => Sound
<1> SUFFICES ASSUME Init PROVE Sound
  OBVIOUS
<1>1. Typed
  BY TypedInit
<1>2. InFlight = <<>>
  BY DEF Init, Idle, InFlight
<1>3. UpTo(0) = <<>>
  BY UpToLength, EmptySeq
<1> QED BY <1>1, <1>2, <1>3
     DEF Init, Idle, Sound, AllThere, LastHeld, NoneHeld, TakenAtOnce, AckedIn

\* What is known of a packet that fits, in numbers.
LEMMA FlowCounts ==
    ASSUME Sound, Fits
    PROVE  /\ sent \in Nat /\ Size \in Nat /\ sent <= Size /\ Size <= FifoDepth + 1
           /\ Len(taken) \in Nat /\ Len(rx) \in Nat /\ Len(held) \in Nat
           /\ Len(taken) + Len(rx) + Len(held) = sent
<1>1. Len(InFlight) = Len(taken) + Len(rx) + Len(held)
      /\ Len(taken) \in Nat /\ Len(rx) \in Nat /\ Len(held) \in Nat
  BY Flow DEF Sound, Typed
<1>2. sent \in Nat /\ Size \in Nat /\ sent <= Size
  BY SizeType DEF Sound, Typed, TypeOK
<1>3. Len(InFlight) = sent
  BY <1>2, UpToLength DEF Sound, AllThere
<1> QED BY <1>1, <1>2, <1>3 DEF Fits

LEMMA FitsStays == ASSUME UNCHANGED packet PROVE Fits' <=> Fits
BY KeepPacket DEF Fits

LEMMA SoundWrite == ASSUME Sound, Write PROVE Sound'
<1>1. Typed'
  BY TypedWrite DEF Sound
<1>2. running' = TRUE /\ (Fits' <=> Fits) /\ Size' = Size
  BY FitsStays, KeepPacket DEF Sound, Write, WriteByte
<1>3. ASSUME Fits PROVE (AllThere /\ LastHeld /\ NoneHeld /\ TakenAtOnce /\ AckedIn)'
  <2>1. /\ sent \in Nat /\ Size \in Nat /\ sent <= Size /\ Size <= FifoDepth + 1
        /\ Len(taken) \in Nat /\ Len(rx) \in Nat /\ Len(held) \in Nat
        /\ Len(taken) + Len(rx) + Len(held) = sent
    BY <1>3, FlowCounts
  <2>2. sent < Size /\ sent' = sent + 1 /\ UNCHANGED <<acked, taken>>
    BY DEF Write
  <2>3. held = <<>> /\ running = TRUE
    BY <1>3, <2>1, <2>2 DEF Sound, LastHeld
  <2>4. AllThere'
    <3>1. InFlight' = Append(InFlight, sent + 1)
      BY <2>3, WriteJoins DEF Sound
    <3> QED BY <1>3, <2>1, <2>2, <3>1, UpToGrows DEF Sound, AllThere
  <2>5. CASE rx' = Append(rx, sent + 1) /\ cb1' = TRUE /\ held' = held
    <3>1. Len(rx') = Len(rx) + 1
      <4>1. rx \in Seq(Byte)
        BY Flow DEF Sound, Typed
      <4> QED BY <2>5, <4>1
    <3>2. AckedIn'
      BY <1>3, <2>1, <2>2, <3>1, FlowCounts DEF Sound, Typed, TypeOK, AckedIn
    <3> QED BY <2>3, <2>4, <2>5, <3>2 DEF LastHeld, NoneHeld, TakenAtOnce
  <2>6. CASE ~Room /\ held' = <<sent + 1>> /\ cb1' = Untaken /\ rx' = rx
    <3>1. Len(held) = 0
      BY <2>3
    <3>2. ~(Len(rx) < FifoDepth)
      BY <2>6 DEF Room
    <3>3. sent' = Size'
      BY <1>2, <2>1, <2>2, <3>1, <3>2
    <3>4. ~(sent' < Size')
      BY <1>2, <2>1, <3>3
    <3>5. AckedIn'
      BY <1>3, <2>2, <2>6 DEF Sound, AckedIn
    <3> QED BY <2>4, <2>6, <3>3, <3>4, <3>5 DEF LastHeld, NoneHeld, TakenAtOnce, Untaken
  <2> QED BY <2>3, <2>5, <2>6 DEF Write, WriteByte
<1> QED BY <1>1, <1>2, <1>3 DEF Sound

LEMMA SoundReceive == ASSUME Sound, Receive PROVE Sound'
<1>1. Typed'
  BY TypedReceive DEF Sound
<1>2. running' = TRUE /\ (Fits' <=> Fits) /\ Size' = Size
  BY FitsStays, KeepPacket DEF Sound, Receive, GetByte
<1>3. ASSUME Fits PROVE (AllThere /\ LastHeld /\ NoneHeld /\ TakenAtOnce /\ AckedIn)'
  <2>1. /\ held' = <<>> /\ UNCHANGED <<vpc, sent, acked>>
        /\ cb1' = (cb1 \/ held # <<>>)
    BY DEF Receive, GetByte
  <2>2. AllThere'
    BY <1>3, <2>1, ReceiveMoves DEF Sound, AllThere
  <2>3. LastHeld' /\ NoneHeld'
    BY <2>1 DEF LastHeld, NoneHeld
  <2>4. TakenAtOnce'
    BY <1>2, <1>3, <2>1 DEF Sound, TakenAtOnce
  <2>5. AckedIn'
    <3>1. Len(taken') = Len(taken) + 1 /\ Len(rx') = Len(rx) - 1 + Len(held)
      <4>1. taken \in Seq(Byte) /\ Head(rx) \in Byte /\ rx # <<>>
        BY Flow, GetByteType DEF Sound, Typed, TypeOK, Receive, GetByte
      <4>2. Len(Refilled) = Len(rx) - 1 + Len(held)
        BY <4>1, RefilledFits DEF Sound, Typed, TypeOK
      <4> QED BY <4>1, <4>2, AppendProperties DEF Receive, GetByte
    <3>2. Len(taken) \in Nat /\ Len(rx) \in Nat /\ Len(held) \in Nat
      BY <1>3, FlowCounts
    <3>3. \A k \in acked : k \in Nat
      BY SizeType DEF Sound, Typed, TypeOK
    <3>4. acked' = acked
      BY DEF Receive
    <3>5. \A k \in acked : k <= Len(taken) + Len(rx)
      BY <1>3 DEF Sound, AckedIn
    <3>6. Len(taken') + Len(rx') >= Len(taken) + Len(rx)
      BY <3>1, <3>2
    <3>7. Len(taken') + Len(rx') \in Nat
      BY <3>1, <3>2, <3>6
    <3> QED BY <3>2, <3>3, <3>4, <3>5, <3>6, <3>7 DEF AckedIn
  <2> QED BY <2>2, <2>3, <2>4, <2>5
<1> QED BY <1>1, <1>2, <1>3 DEF Sound

LEMMA SoundQuiet == ASSUME Sound, [Next]_vars, Quiet PROVE Sound'
<1>1. Typed'
  BY TypedStep DEF Sound
<1>2. /\ running' = TRUE /\ (Fits' <=> Fits) /\ Size' = Size
      /\ UNCHANGED <<taken, rx, held>> /\ InFlight' = InFlight
  BY QuietKeepsFlow, FitsStays, KeepPacket DEF Sound
<1>3. ASSUME Fits PROVE (AllThere /\ LastHeld /\ NoneHeld /\ TakenAtOnce /\ AckedIn)'
  <2>1. /\ sent \in Nat /\ Size \in Nat /\ sent <= Size
        /\ Len(taken) \in Nat /\ Len(rx) \in Nat /\ Len(held) \in Nat
        /\ Len(taken) + Len(rx) + Len(held) = sent
    BY <1>3, FlowCounts
  <2>2. CASE Acknowledged
    <3>1. cb1 /\ acked' = acked \cup {sent} /\ UNCHANGED <<sent, cb1>> /\ vpc' # "poll"
      BY <2>2 DEF Acknowledged, AfterPoll, port
    <3>2. held = <<>> /\ Len(held) = 0
      BY <1>3, <3>1 DEF Sound, NoneHeld
    <3>3. AckedIn'
      BY <1>2, <1>3, <2>1, <3>1, <3>2 DEF Sound, AckedIn
    <3> QED BY <1>2, <1>3, <3>1, <3>3 DEF Sound, AllThere, LastHeld, NoneHeld, TakenAtOnce
  <2>3. CASE PollTimeout
    <3>1. ~cb1 /\ vpc = "poll" /\ sent' = sent + Abandoned(sent)
          /\ UNCHANGED <<acked, cb1>> /\ vpc' # "poll"
      BY <2>3 DEF PollTimeout, AfterPoll, port
    <3>2. sent = Size
      BY <1>3, <2>1, <3>1 DEF Sound, TakenAtOnce
    <3>3. Abandoned(sent) = 0
      <4>1. header < Size /\ header \in {2, 4}
        BY SizeType DEF Sound, Typed, TypeOK
      <4> QED BY <2>1, <3>2, <4>1 DEF Abandoned
    <3>4. sent' = sent
      BY <2>1, <3>1, <3>3
    <3> QED BY <1>2, <1>3, <3>1, <3>4
         DEF Sound, AllThere, LastHeld, NoneHeld, TakenAtOnce, AckedIn
  <2>4. CASE ReadStatus \/ Answer \/ UNCHANGED vars
    <3>1. UNCHANGED <<acked, sent, cb1>> /\ (vpc' = "poll" => vpc = "poll")
      BY <2>4 DEF ReadStatus, Answer, ReadByte, PutByte, vars, port
    <3> QED BY <1>2, <1>3, <3>1
         DEF Sound, AllThere, LastHeld, NoneHeld, TakenAtOnce, AckedIn
  <2> QED BY <2>2, <2>3, <2>4 DEF Quiet
<1> QED BY <1>1, <1>2, <1>3 DEF Sound

LEMMA SoundStep == Sound /\ [Next]_vars => Sound'
<1> QED BY StepKinds, SoundWrite, SoundReceive, SoundQuiet

LEMMA AckedInIsTaken == Sound => AckMeansTaken
<1> SUFFICES ASSUME Sound, Fits, NEW k \in acked PROVE k \in Range(taken \o rx)
  BY DEF AckMeansTaken, AckedIsTaken
<1>1. k \in 1 .. Size /\ k <= Len(taken) + Len(rx)
  BY DEF Sound, Typed, TypeOK, AckedIn
<1>2. /\ taken \o rx \in Seq(Byte) /\ held \in Seq(Byte)
      /\ taken \in Seq(Byte) /\ rx \in Seq(Byte)
  BY Flow DEF Sound, Typed
<1>3. Len(taken \o rx) = Len(taken) + Len(rx) /\ DOMAIN (taken \o rx) = 1 .. Len(taken \o rx)
  BY <1>2, ConcatProperties, LenProperties
<1>4. /\ Len(taken) \in Nat /\ Len(rx) \in Nat /\ Len(held) \in Nat /\ Size \in Nat
      /\ Len(taken) + Len(rx) + Len(held) = sent /\ sent \in Nat
  BY FlowCounts
<1>5. k \in 1 .. Len(taken \o rx) /\ k \in 1 .. sent
  BY <1>1, <1>3, <1>4
<1>6. InFlight[k] = (taken \o rx)[k]
  <2>1. k \in 1 .. Len(taken \o rx) + Len(held) /\ k <= Len(taken \o rx)
    BY <1>3, <1>4, <1>5
  <2> QED BY <1>2, <2>1, ConcatProperties DEF InFlight
<1>7. InFlight[k] = k
  BY <1>5 DEF Sound, AllThere, UpTo
<1> QED BY <1>3, <1>5, <1>6, <1>7 DEF Range

\* Of a packet no longer than the FIFO and the held word together, every byte
\* arrives, once and in order, whatever time the Pico takes and however often
\* sendBytes gives up.
THEOREM AllArrive == Spec => []NothingLost
<1>1. Sound => NothingLost
  BY DEF Sound, NothingLost, AllThere, UpTo
<1> QED BY <1>1, SoundInit, SoundStep, PTL DEF Spec

\* A DATA_TAKEN that sendBytes sees for a byte of such a packet is that byte's.
THEOREM AckIsTruthful == Spec => []AckMeansTaken
<1> QED BY SoundInit, SoundStep, AckedInIsTaken, PTL DEF Spec
=============================================================================
