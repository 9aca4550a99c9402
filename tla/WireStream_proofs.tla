-------------------------- MODULE WireStream_proofs --------------------------
(***************************************************************************)
(* What the protocol over bytes promises (WireStream): types; that both    *)
(* ends stay together while only bytes under a CRC are damaged, and then   *)
(* never wait for each other; that a gentle trouble leaves them apart,     *)
(* where nothing is executed or answered any more, so that no request is   *)
(* executed twice and the block device is kept to; and that a reset Pico   *)
(* leaves a waiting driver where it is.                                    *)
(***************************************************************************)
EXTENDS WireStream, PacketCheck_proofs

-----------------------------------------------------------------------------
(* Packets on the line *)

LEMMA CommandBytesAre ==
    ASSUME NEW p \in Byte, NEW c \in Byte, NEW params, Sized(params)
    PROVE  LET m == CommandBytes(p, c, params)
           IN  /\ m \in Seq(Byte) /\ Len(m) = 5 + Len(params)
               /\ m[1] = p /\ m[2] = c /\ m[3] = High(Len(params)) /\ m[4] = Low(Len(params))
               /\ \A i \in 1 .. Len(params) : m[4 + i] = params[i]
               /\ m[5 + Len(params)] = crc8(CommandMessage(p, c, params))
<1> DEFINE n == Len(params)
           x == crc8(CommandMessage(p, c, params))
           z == SizeBytes(n)
           f == <<p, c>>
           g == <<x>>
           a == f \o z
           b == a \o params
           m == b \o g
<1>1. params \in Seq(Byte) /\ n \in Nat /\ n < 256 * SizeBase
  BY LenProperties DEF Sized
<1>2. z \in Seq(Byte) /\ Len(z) = 2 /\ z[1] = High(n) /\ z[2] = Low(n)
  BY <1>1, SizeBytesAre
<1>3. x \in Byte
  BY CommandMessageIs, Crc8IsByte
<1> HIDE DEF x
<1>4. /\ f \in Seq(Byte) /\ Len(f) = 2 /\ f[1] = p /\ f[2] = c
      /\ g \in Seq(Byte) /\ Len(g) = 1 /\ g[1] = x
  BY <1>3
<1>5. a \in Seq(Byte) /\ Len(a) = 4 /\ a[1] = p /\ a[2] = c /\ a[3] = z[1] /\ a[4] = z[2]
  <2> HIDE DEF z, f
  <2>1. Joins(a, f, 2, z, 2)
    BY <1>2, <1>4, Joined, Zenon
  <2> HIDE DEF a
  <2>2. /\ a \in Seq(Byte) /\ Len(a) = 2 + 2
        /\ \A i \in 1 .. 2 : a[i] = f[i]
        /\ \A i \in 1 .. 2 : a[2 + i] = z[i]
    BY <2>1 DEF Joins
  <2>3. a[1] = f[1] /\ a[2] = f[2] /\ a[2 + 1] = z[1] /\ a[2 + 2] = z[2]
    BY <2>2
  <2> QED BY <1>4, <2>2, <2>3
<1>6. PICK k : k = n
  OBVIOUS
<1>7. params \in Seq(Byte) /\ Len(params) = k
  BY <1>1, <1>6 DEF n
<1> HIDE DEF z, n, a
<1>8. Joins(b, a, 4, params, k)
  BY <1>5, <1>7, Joined, Zenon
<1> HIDE DEF b
<1>9. /\ b \in Seq(Byte) /\ Len(b) = 4 + n
      /\ \A i \in 1 .. 4 : b[i] = a[i]
      /\ \A i \in 1 .. n : b[4 + i] = params[i]
  BY <1>6, <1>8 DEF Joins
<1> HIDE DEF g
<1>10. Joins(m, b, 4 + n, g, 1)
  BY <1>4, <1>9, Joined, Zenon
<1> HIDE DEF m
<1>11. /\ m \in Seq(Byte) /\ Len(m) = (4 + n) + 1
       /\ \A i \in 1 .. 4 + n : m[i] = b[i]
       /\ \A i \in 1 .. 1 : m[(4 + n) + i] = g[i]
  BY <1>10 DEF Joins
<1>12. Len(m) = 5 + n /\ m[5 + n] = x
  <2>1. (4 + n) + 1 = 5 + n
    BY <1>1
  <2>2. m[(4 + n) + 1] = g[1]
    BY <1>11
  <2> QED BY <1>4, <1>11, <2>1, <2>2
<1>13. m[1] = p /\ m[2] = c /\ m[3] = z[1] /\ m[4] = z[2]
  <2>1. 1 \in 1 .. 4 + n /\ 2 \in 1 .. 4 + n /\ 3 \in 1 .. 4 + n /\ 4 \in 1 .. 4 + n
    BY <1>1
  <2>2. b[1] = a[1] /\ b[2] = a[2] /\ b[3] = a[3] /\ b[4] = a[4]
    BY <1>9
  <2> QED BY <1>5, <1>11, <2>1, <2>2
<1>14. ASSUME NEW i \in 1 .. n PROVE m[4 + i] = params[i]
  <2>1. 4 + i \in 1 .. 4 + n
    BY <1>1
  <2> QED BY <1>9, <1>11, <2>1
<1>15. m = CommandBytes(p, c, params)
  BY DEF m, b, a, f, g, z, n, x, CommandBytes, CommandCrc, CommandMessage
<1> QED BY <1>2, <1>11, <1>12, <1>13, <1>14, <1>15 DEF n, x

LEMMA DataBytesAre ==
    ASSUME NEW data, Sized(data)
    PROVE  LET m == DataBytes(data)
           IN  /\ m \in Seq(Byte) /\ Len(m) = 3 + Len(data)
               /\ m[1] = High(Len(data)) /\ m[2] = Low(Len(data))
               /\ \A i \in 1 .. Len(data) : m[2 + i] = data[i]
               /\ m[3 + Len(data)] = crc8(DataMessage(data))
<1> DEFINE n == Len(data)
           x == crc8(DataMessage(data))
           a == DataMessage(data)
           g == <<x>>
           m == a \o g
<1>1. n \in Nat
  BY LenProperties DEF Sized
<1>2. /\ a \in Seq(Byte) /\ Len(a) = 2 + n
      /\ a[1] = High(n) /\ a[2] = Low(n)
      /\ \A i \in 1 .. n : a[2 + i] = data[i]
  BY DataMessageIs
<1>3. x \in Byte
  BY <1>2, Crc8IsByte
<1> HIDE DEF x
<1>4. g \in Seq(Byte) /\ Len(g) = 1 /\ g[1] = x
  BY <1>3
<1> HIDE DEF a, g, n
<1>5. Joins(m, a, 2 + n, g, 1)
  BY <1>2, <1>4, Joined, Zenon
<1> HIDE DEF m
<1>6. /\ m \in Seq(Byte) /\ Len(m) = (2 + n) + 1
      /\ \A i \in 1 .. 2 + n : m[i] = a[i]
      /\ \A i \in 1 .. 1 : m[(2 + n) + i] = g[i]
  BY <1>5 DEF Joins
<1>7. Len(m) = 3 + n /\ m[3 + n] = x
  <2>1. (2 + n) + 1 = 3 + n
    BY <1>1
  <2>2. m[(2 + n) + 1] = g[1]
    BY <1>6
  <2> QED BY <1>4, <1>6, <2>1, <2>2
<1>8. m[1] = a[1] /\ m[2] = a[2]
  <2>1. 1 \in 1 .. 2 + n /\ 2 \in 1 .. 2 + n
    BY <1>1
  <2> QED BY <1>6, <2>1
<1>9. ASSUME NEW i \in 1 .. n PROVE m[2 + i] = data[i]
  <2>1. 2 + i \in 1 .. 2 + n
    BY <1>1
  <2> QED BY <1>2, <1>6, <2>1
<1>10. m = DataBytes(data)
  BY DEF m, a, g, x, DataBytes, DataCrc, DataMessage
<1> QED BY <1>2, <1>6, <1>7, <1>8, <1>9, <1>10 DEF n, x

\* The bytes as they were sent, or one of them another, but none of the size.
Near(q, bytes, size) ==
    \/ q = bytes
    \/ \E k \in DOMAIN bytes \ size : \E b \in Byte \ {bytes[k]} : q = [bytes EXCEPT ![k] = b]

LEMMA NearIs ==
    ASSUME NEW bytes \in Seq(Byte), NEW size, NEW q, Near(q, bytes, size)
    PROVE  /\ q \in Seq(Byte) /\ Len(q) = Len(bytes)
           /\ \/ q = bytes
              \/ \E k \in (1 .. Len(bytes)) \ size :
                    q[k] # bytes[k] /\ \A i \in 1 .. Len(bytes) : i # k => q[i] = bytes[i]
<1>1. CASE q = bytes
  BY <1>1
<1>2. CASE q # bytes
  <2>1. DOMAIN bytes = 1 .. Len(bytes)
    BY LenProperties
  <2>2. PICK k \in (1 .. Len(bytes)) \ size : \E b \in Byte \ {bytes[k]} : q = [bytes EXCEPT ![k] = b]
    BY <1>2, <2>1 DEF Near
  <2>3. PICK b \in Byte \ {bytes[k]} : q = [bytes EXCEPT ![k] = b]
    BY <2>2
  <2>4. /\ q \in Seq(Byte) /\ Len(q) = Len(bytes)
        /\ \A i \in 1 .. Len(bytes) : q[i] = IF i = k THEN b ELSE bytes[i]
    BY <2>3, ExceptSeq
  <2> QED BY <2>3, <2>4
<1> QED BY <1>1, <1>2

\* A size that was not damaged.
LEMMA SizeIs ==
    ASSUME NEW q \in Seq(Byte), NEW k \in Nat \ {0}, NEW n \in Nat, n < 256 * SizeBase,
           q[k] = High(n), q[k + 1] = Low(n), Len(q) = k + n + 2
    PROVE  /\ Complete(q, k) /\ CrcAt(q, k) = Len(q) /\ After(q, CrcAt(q, k)) = <<>>
           /\ Body(q, k) \in Seq(Byte) /\ Len(Body(q, k)) = n
           /\ \A i \in 1 .. n : Body(q, k)[i] = q[k + 1 + i]
<1>1. SizeOf(q, k) = n
  BY SizeBytesAre DEF SizeOf
<1>2. Complete(q, k) /\ CrcAt(q, k) = Len(q)
  <2>1. Len(q) > k /\ Len(q) >= k + 2 + n /\ k + 2 + n = Len(q)
    OBVIOUS
  <2> QED BY <1>1, <2>1 DEF Complete, CrcAt
<1>3. After(q, Len(q)) = <<>>
  <2>1. Len(q) + 1 \in Int /\ Len(q) \in Int /\ Len(q) < Len(q) + 1
    OBVIOUS
  <2> QED BY <2>1, SubSeqEmpty DEF After
<1>4. Body(q, k) = SubSeq(q, k + 2, k + 1 + n)
  BY <1>1 DEF Body
<1>5. ASSUME NEW i \in k + 2 .. k + 1 + n PROVE q[i] \in Byte
  <2>1. i \in 1 .. Len(q)
    OBVIOUS
  <2> QED BY <2>1, ElementOfSeq
<1>6. k + 2 \in Int /\ k + 1 + n \in Int
  OBVIOUS
<1>7. /\ SubSeq(q, k + 2, k + 1 + n) \in Seq(Byte)
      /\ Len(SubSeq(q, k + 2, k + 1 + n)) = IF k + 2 <= k + 1 + n THEN (k + 1 + n) - (k + 2) + 1 ELSE 0
      /\ \A i \in 1 .. (k + 1 + n) - (k + 2) + 1 : SubSeq(q, k + 2, k + 1 + n)[i] = q[(k + 2) + i - 1]
  BY <1>5, <1>6, SubSeqProperties
<1>8. (IF k + 2 <= k + 1 + n THEN (k + 1 + n) - (k + 2) + 1 ELSE 0) = n
      /\ (k + 1 + n) - (k + 2) + 1 = n
      /\ \A i \in 1 .. n : (k + 2) + i - 1 = k + 1 + i
  OBVIOUS
<1> DEFINE s == Body(q, k)
<1>9. s \in Seq(Byte) /\ Len(s) = n /\ \A i \in 1 .. n : s[i] = q[k + 1 + i]
  BY <1>4, <1>7, <1>8
<1> QED BY <1>2, <1>3, <1>9

\* A command packet is read to its end, and nothing but what was sent is taken to be
\* valid.
LEMMA ReadCommand ==
    ASSUME NEW p \in Byte, NEW c \in Byte, NEW params, Sized(params),
           NEW q, Near(q, CommandBytes(p, c, params), {3, 4})
    PROVE  /\ q \in Seq(Byte) /\ Complete(q, 3) /\ After(q, CrcAt(q, 3)) = <<>>
           /\ ValidCommand(q[1], q[2], Body(q, 3), q[CrcAt(q, 3)]) =>
                 q[1] = p /\ q[2] = c /\ Body(q, 3) = params
<1> DEFINE n == Len(params)
           m == CommandBytes(p, c, params)
           x == crc8(CommandMessage(p, c, params))
           body == Body(q, 3)
<1>1. params \in Seq(Byte) /\ n \in Nat /\ n < 256 * SizeBase
  BY LenProperties DEF Sized
<1>2. /\ m \in Seq(Byte) /\ Len(m) = 5 + n
      /\ m[1] = p /\ m[2] = c /\ m[3] = High(n) /\ m[4] = Low(n)
      /\ \A i \in 1 .. n : m[4 + i] = params[i]
      /\ m[5 + n] = x
  BY CommandBytesAre
<1> HIDE DEF m, x
<1>3. /\ q \in Seq(Byte) /\ Len(q) = 5 + n
      /\ \/ q = m
         \/ \E k \in (1 .. 5 + n) \ {3, 4} :
               q[k] # m[k] /\ \A i \in 1 .. 5 + n : i # k => q[i] = m[i]
  <2>1. Near(q, m, {3, 4})
    BY DEF m
  <2> HIDE DEF n
  <2>2. /\ q \in Seq(Byte) /\ Len(q) = Len(m)
        /\ \/ q = m
           \/ \E k \in (1 .. Len(m)) \ {3, 4} :
                 q[k] # m[k] /\ \A i \in 1 .. Len(m) : i # k => q[i] = m[i]
    BY <1>2, <2>1, NearIs
  <2>3. PICK l : l = Len(m)
    OBVIOUS
  <2>4. l = 5 + n
    BY <1>2, <2>3
  <2> QED BY <2>2, <2>3, <2>4
<1> HIDE DEF n
<1>4. q[3] = High(n) /\ q[4] = Low(n)
  <2>1. 3 \in 1 .. 5 + n /\ 4 \in 1 .. 5 + n
    BY <1>1
  <2> QED BY <1>2, <1>3, <2>1
<1>5. /\ Complete(q, 3) /\ CrcAt(q, 3) = Len(q) /\ After(q, CrcAt(q, 3)) = <<>>
      /\ body \in Seq(Byte) /\ Len(body) = n
      /\ \A i \in 1 .. n : body[i] = q[3 + 1 + i]
  <2>1. /\ 3 \in Nat \ {0} /\ n \in Nat /\ n < 256 * SizeBase /\ q[3] = High(n) /\ q[3 + 1] = Low(n)
        /\ q \in Seq(Byte) /\ Len(q) = 3 + n + 2
    BY <1>1, <1>3, <1>4
  <2> QED BY <2>1, SizeIs, Zenon DEF body
<1> HIDE DEF body
<1>6. \A i \in 1 .. n : body[i] = q[4 + i]
  BY <1>1, <1>5
<1>7. SUFFICES ASSUME ValidCommand(q[1], q[2], body, q[5 + n])
               PROVE  q[1] = p /\ q[2] = c /\ body = params
  BY <1>3, <1>5 DEF body
<1>8. q[5 + n] = crc8(CommandMessage(q[1], q[2], body))
  BY <1>7 DEF ValidCommand, CommandMessage
<1>9. q[1] \in Byte /\ q[2] \in Byte /\ Sized(body)
  <2>1. 1 \in 1 .. Len(q) /\ 2 \in 1 .. Len(q)
    BY <1>1, <1>3
  <2> QED BY <1>1, <1>3, <1>5, <2>1, ElementOfSeq DEF Sized
<1>10. /\ 1 \in 1 .. 5 + n /\ 2 \in 1 .. 5 + n /\ 5 + n \in 1 .. 5 + n
       /\ 1 # 5 + n /\ 2 # 5 + n
       /\ \A i \in 1 .. n : 4 + i \in 1 .. 5 + n /\ 4 + i # 1 /\ 4 + i # 2 /\ 4 + i # 5 + n
  BY <1>1
<1>11. Len(params) = n
  BY DEF n
<1>12. CASE q = m
  <2>1. body = params
    BY <1>1, <1>2, <1>5, <1>6, <1>11, <1>12, SeqEqual
  <2> QED BY <1>2, <1>12, <2>1
<1>13. ASSUME NEW k \in (1 .. 5 + n) \ {3, 4}, q[k] # m[k],
              \A i \in 1 .. 5 + n : i # k => q[i] = m[i]
       PROVE  FALSE
  <2>1. CASE k = 1
    <3>1. body = params
      <4>1. \A i \in 1 .. n : body[i] = params[i]
        BY <1>2, <1>6, <1>10, <1>13, <2>1
      <4> QED BY <1>1, <1>5, <1>11, <4>1, SeqEqual
    <3>2. CommandApart(p, c, params, q[1], q[2], body) /\ q[5 + n] = x
      BY <1>2, <1>10, <1>13, <2>1, <3>1 DEF CommandApart
    <3> QED BY <1>8, <1>9, <3>2, CommandCrcTells DEF x
  <2>2. CASE k = 2
    <3>1. body = params
      <4>1. \A i \in 1 .. n : body[i] = params[i]
        BY <1>2, <1>6, <1>10, <1>13, <2>2
      <4> QED BY <1>1, <1>5, <1>11, <4>1, SeqEqual
    <3>2. CommandApart(p, c, params, q[1], q[2], body) /\ q[5 + n] = x
      BY <1>2, <1>10, <1>13, <2>2, <3>1 DEF CommandApart
    <3> QED BY <1>8, <1>9, <3>2, CommandCrcTells DEF x
  <2>3. CASE k = 5 + n
    <3>1. body = params
      <4>1. \A i \in 1 .. n : body[i] = params[i]
        BY <1>2, <1>6, <1>10, <1>13, <2>3
      <4> QED BY <1>1, <1>5, <1>11, <4>1, SeqEqual
    <3>2. q[1] = p /\ q[2] = c /\ q[5 + n] # x
      BY <1>2, <1>10, <1>13, <2>3
    <3> QED BY <1>8, <3>1, <3>2 DEF x
  <2>4. CASE k \notin {1, 2, 5 + n}
    <3>1. PICK j \in 1 .. n : k = 4 + j
      <4>1. k - 4 \in 1 .. n /\ k = 4 + (k - 4)
        BY <1>1, <2>4
      <4> QED BY <4>1
    <3>2. params[j] # body[j]
      BY <1>2, <1>6, <1>13, <3>1
    <3>3. ASSUME NEW i \in 1 .. n, i # j PROVE params[i] = body[i]
      <4>1. 4 + i # k
        BY <3>1, <3>3
      <4> QED BY <1>2, <1>6, <1>10, <1>13, <4>1
    <3>4. OneApart(params, body)
      BY <1>5, <1>11, <3>2, <3>3 DEF OneApart
    <3>5. CommandApart(p, c, params, q[1], q[2], body) /\ q[5 + n] = x
      BY <1>2, <1>10, <1>13, <2>4, <3>4 DEF CommandApart
    <3> QED BY <1>8, <1>9, <3>5, CommandCrcTells DEF x
  <2> QED BY <2>1, <2>2, <2>3, <2>4
<1> QED BY <1>3, <1>12, <1>13

\* So is a data packet.
LEMMA ReadData ==
    ASSUME NEW data, Sized(data), NEW q, Near(q, DataBytes(data), {1, 2})
    PROVE  /\ q \in Seq(Byte) /\ Complete(q, 1) /\ After(q, CrcAt(q, 1)) = <<>>
           /\ ValidData(Body(q, 1), q[CrcAt(q, 1)]) => Body(q, 1) = data
<1> DEFINE n == Len(data)
           m == DataBytes(data)
           x == crc8(DataMessage(data))
           body == Body(q, 1)
<1>1. data \in Seq(Byte) /\ n \in Nat /\ n < 256 * SizeBase
  BY LenProperties DEF Sized
<1>2. /\ m \in Seq(Byte) /\ Len(m) = 3 + n
      /\ m[1] = High(n) /\ m[2] = Low(n)
      /\ \A i \in 1 .. n : m[2 + i] = data[i]
      /\ m[3 + n] = x
  BY DataBytesAre
<1> HIDE DEF m, x
<1>3. /\ q \in Seq(Byte) /\ Len(q) = 3 + n
      /\ \/ q = m
         \/ \E k \in (1 .. 3 + n) \ {1, 2} :
               q[k] # m[k] /\ \A i \in 1 .. 3 + n : i # k => q[i] = m[i]
  <2>1. Near(q, m, {1, 2})
    BY DEF m
  <2> HIDE DEF n
  <2> QED BY <1>2, <2>1, NearIs
<1> HIDE DEF n
<1>4. q[1] = High(n) /\ q[2] = Low(n)
  <2>1. 1 \in 1 .. 3 + n /\ 2 \in 1 .. 3 + n
    BY <1>1
  <2> QED BY <1>2, <1>3, <2>1
<1>5. /\ Complete(q, 1) /\ CrcAt(q, 1) = Len(q) /\ After(q, CrcAt(q, 1)) = <<>>
      /\ body \in Seq(Byte) /\ Len(body) = n
      /\ \A i \in 1 .. n : body[i] = q[1 + 1 + i]
  <2>1. /\ 1 \in Nat \ {0} /\ n \in Nat /\ n < 256 * SizeBase /\ q[1] = High(n) /\ q[1 + 1] = Low(n)
        /\ q \in Seq(Byte) /\ Len(q) = 1 + n + 2
    BY <1>1, <1>3, <1>4
  <2> QED BY <2>1, SizeIs, Zenon DEF body
<1> HIDE DEF body
<1>6. \A i \in 1 .. n : body[i] = q[2 + i]
  BY <1>1, <1>5
<1>7. SUFFICES ASSUME ValidData(body, q[3 + n]) PROVE body = data
  BY <1>3, <1>5 DEF body
<1>8. q[3 + n] = crc8(DataMessage(body)) /\ Sized(body)
  BY <1>1, <1>5, <1>7 DEF ValidData, DataMessage, Sized
<1>9. /\ 3 + n \in 1 .. 3 + n
      /\ \A i \in 1 .. n : 2 + i \in 1 .. 3 + n /\ 2 + i # 3 + n
  BY <1>1
<1>10. Len(data) = n
  BY DEF n
<1>11. CASE q = m
  BY <1>1, <1>2, <1>5, <1>6, <1>10, <1>11, SeqEqual
<1>12. ASSUME NEW k \in (1 .. 3 + n) \ {1, 2}, q[k] # m[k],
              \A i \in 1 .. 3 + n : i # k => q[i] = m[i]
       PROVE  FALSE
  <2>1. CASE k = 3 + n
    <3>1. body = data
      <4>1. \A i \in 1 .. n : body[i] = data[i]
        BY <1>2, <1>6, <1>9, <1>12, <2>1
      <4> QED BY <1>1, <1>5, <1>10, <4>1, SeqEqual
    <3> QED BY <1>2, <1>8, <1>12, <2>1, <3>1 DEF x
  <2>2. CASE k # 3 + n
    <3>1. PICK j \in 1 .. n : k = 2 + j
      <4>1. k - 2 \in 1 .. n /\ k = 2 + (k - 2)
        BY <1>1, <2>2
      <4> QED BY <4>1
    <3>2. data[j] # body[j]
      BY <1>2, <1>6, <1>12, <3>1
    <3>3. ASSUME NEW i \in 1 .. n, i # j PROVE data[i] = body[i]
      <4>1. 2 + i # k
        BY <3>1, <3>3
      <4> QED BY <1>2, <1>6, <1>9, <1>12, <4>1
    <3>4. OneApart(data, body)
      BY <1>5, <1>10, <3>2, <3>3 DEF OneApart
    <3>5. q[3 + n] = x
      BY <1>2, <1>9, <1>12, <2>2
    <3> QED BY <1>8, <3>4, <3>5, DataCrcTells DEF x
  <2> QED BY <2>1, <2>2
<1> QED BY <1>3, <1>11, <1>12

-----------------------------------------------------------------------------
(* What arrives *)

\* Without a trouble, or with none but to bytes under a CRC; with another one.
Clean == trouble' = trouble \/ trouble' = Append(trouble, "content")
Struck(e) == trouble' = Append(trouble, e)

TroubleOK == trouble \in Seq(Kinds) /\ Len(trouble) <= MaxTroubles

\* Trouble is never forgotten.
Grows == TroubleOK' /\ (trouble' = trouble \/ \E e \in Kinds : Struck(e))

Sends == {"request", "header", "data", "answer", "status", "receipt"}

LEMMA ContentIsKind == "content" \in Kinds /\ Gentle \subseteq Kinds /\ "content" \notin Gentle
BY DEF Kinds, Gentle

LEMMA TroubleTells ==
    ASSUME TroubleOK, NEW e \in Kinds, NEW f \in Kinds
    PROVE  Append(trouble, e) # trouble /\ (Append(trouble, e) = Append(trouble, f) => e = f)
<1>1. trouble \in Seq(Kinds) /\ Len(trouble) \in Nat
  BY LenProperties DEF TroubleOK
<1>2. Len(Append(trouble, e)) = Len(trouble) + 1 /\ Append(trouble, e)[Len(trouble) + 1] = e
      /\ Append(trouble, f)[Len(trouble) + 1] = f
  BY <1>1, AppendProperties
<1>3. Len(trouble) + 1 # Len(trouble)
  BY <1>1
<1> QED BY <1>2, <1>3

\* What Strike does with one kind of trouble, or none.
LEMMA StrikeKeeps ==
    ASSUME TroubleOK, NEW struck, Strike(struck), struck = <<>> \/ \E e \in Kinds : struck = <<e>>
    PROVE  /\ Grows
           /\ struck = <<>> => trouble' = trouble
           /\ \A e \in Kinds : struck = <<e>> => Struck(e)
<1>1. trouble \in Seq(Kinds) /\ Len(trouble) \in Nat
  BY LenProperties DEF TroubleOK
<1>2. struck \in Seq(Kinds)
  <2>1. <<>> \in Seq(Kinds)
    BY EmptySeq
  <2>2. \A e \in Kinds : <<e>> \in Seq(Kinds)
    OBVIOUS
  <2> QED BY <2>1, <2>2
<1>3. trouble' = trouble \o struck /\ Len(trouble) + Len(struck) <= MaxTroubles
  BY DEF Strike
<1>4. trouble' \in Seq(Kinds) /\ Len(trouble') = Len(trouble) + Len(struck)
  BY <1>1, <1>2, <1>3, ConcatProperties
<1>5. struck = <<>> => trouble' = trouble
  BY <1>1, <1>3, ConcatEmptySeq
<1>6. ASSUME NEW e \in Kinds, struck = <<e>> PROVE Struck(e)
  <2>1. Append(trouble, e) = trouble \o <<e>>
    BY <1>1, AppendIsConcat
  <2> QED BY <1>3, <1>6, <2>1 DEF Struck
<1> QED BY <1>3, <1>4, <1>5, <1>6 DEF TroubleOK, Grows

\* A sequence without n of its elements.
LEMMA WithoutIs ==
    ASSUME NEW bytes \in Seq(Byte), NEW k \in 1 .. Len(bytes), NEW n \in {1, 2}
    PROVE  LET w == Without(bytes, k, n)
           IN  /\ w \in Seq(Byte)
               /\ n = 1 => /\ Len(w) = Len(bytes) - 1
                           /\ \A i \in 1 .. Len(bytes) - 1 :
                                 w[i] = IF i < k THEN bytes[i] ELSE bytes[i + 1]
<1> DEFINE a == SubSeq(bytes, 1, k - 1)
           b == SubSeq(bytes, k + n, Len(bytes))
           l == Len(bytes)
<1>1. l \in Nat /\ k \in Nat /\ k >= 1 /\ k <= l /\ n \in Nat
  BY LenProperties
<1>2. \A i \in 1 .. l : bytes[i] \in Byte
  BY ElementOfSeq
<1>3. /\ a \in Seq(Byte) /\ Len(a) = k - 1
      /\ \A i \in 1 .. k - 1 : a[i] = bytes[i]
  <2>1. 1 \in Int /\ k - 1 \in Int /\ \A i \in 1 .. k - 1 : bytes[i] \in Byte
    BY <1>1, <1>2
  <2>2. /\ a \in Seq(Byte) /\ Len(a) = IF 1 <= k - 1 THEN (k - 1) - 1 + 1 ELSE 0
        /\ \A i \in 1 .. (k - 1) - 1 + 1 : a[i] = bytes[1 + i - 1]
    BY <2>1, SubSeqProperties
  <2> HIDE DEF a
  <2>3. (IF 1 <= k - 1 THEN (k - 1) - 1 + 1 ELSE 0) = k - 1 /\ (k - 1) - 1 + 1 = k - 1
        /\ \A i \in 1 .. k - 1 : 1 + i - 1 = i
    BY <1>1
  <2> QED BY <2>2, <2>3
<1>4. /\ b \in Seq(Byte) /\ Len(b) = IF k + n <= l THEN l - (k + n) + 1 ELSE 0
      /\ \A i \in 1 .. l - (k + n) + 1 : b[i] = bytes[(k + n) + i - 1]
  <2>1. k + n \in Int /\ l \in Int /\ \A i \in k + n .. l : bytes[i] \in Byte
    BY <1>1, <1>2
  <2> QED BY <2>1, SubSeqProperties
<1> HIDE DEF a, b, l
<1> DEFINE w == a \o b
<1>5. /\ w \in Seq(Byte) /\ Len(w) = Len(a) + Len(b)
      /\ \A i \in 1 .. Len(a) + Len(b) : w[i] = IF i <= Len(a) THEN a[i] ELSE b[i - Len(a)]
  BY <1>3, <1>4, ConcatProperties
<1> HIDE DEF w
<1>6. ASSUME n = 1
      PROVE  /\ Len(w) = l - 1
             /\ \A i \in 1 .. l - 1 : w[i] = IF i < k THEN bytes[i] ELSE bytes[i + 1]
  <2>1. Len(b) = l - k /\ \A i \in 1 .. l - k : b[i] = bytes[k + i]
    <3>1. (IF k + n <= l THEN l - (k + n) + 1 ELSE 0) = l - k /\ l - (k + n) + 1 = l - k
          /\ \A i \in 1 .. l - k : (k + n) + i - 1 = k + i
      BY <1>1, <1>6
    <3> QED BY <1>4, <3>1
  <2>2. Len(a) + Len(b) = l - 1
    BY <1>1, <1>3, <2>1
  <2>3. ASSUME NEW i \in 1 .. l - 1, i < k PROVE w[i] = bytes[i]
    <3>1. i <= k - 1 /\ i \in 1 .. k - 1
      BY <1>1, <2>3
    <3> QED BY <1>3, <1>5, <2>2, <3>1
  <2>4. ASSUME NEW i \in 1 .. l - 1, ~(i < k) PROVE w[i] = bytes[i + 1]
    <3>1. ~(i <= k - 1) /\ i - (k - 1) \in 1 .. l - k /\ k + (i - (k - 1)) = i + 1
      BY <1>1, <2>4
    <3> QED BY <1>3, <1>5, <2>1, <2>2, <3>1
  <2> QED BY <1>5, <2>2, <2>3, <2>4
<1> QED BY <1>5, <1>6 DEF w, a, b, l, Without

\* What bytes have become when q arrives of them, and what trouble it was.
Outcome(bytes, what, q) ==
    \/ q = bytes /\ trouble' = trouble
    \/ \E k \in DOMAIN bytes : \E b \in Byte \ {bytes[k]} :
          q = [bytes EXCEPT ![k] = b] /\ Struck(Kind(what, k, bytes[k], b))
    \/ \E k \in DOMAIN bytes :
          q = Without(bytes, k, Gap(what, k)) /\ Struck(Kind(what, k, bytes[k], Lost))

LEMMA KindIs ==
    ASSUME NEW what \in Sends, NEW k, NEW w, NEW b
    PROVE  /\ Kind(what, k, w, b) \in Kinds
           /\ what = "request" => Kind(what, k, w, b) = RequestKind(k, b)
           /\ what = "header" => Kind(what, k, w, b) = HeaderKind(k, b)
           /\ what \in {"data", "answer"} => Kind(what, k, w, b) = DataKind(k, b)
           /\ what = "status" => Kind(what, k, w, b) = StatusKind(b)
           /\ what = "receipt" => Kind(what, k, w, b) = ReceiptKind(w, b)
<1>1. /\ RequestKind(k, b) \in Kinds /\ HeaderKind(k, b) \in Kinds /\ DataKind(k, b) \in Kinds
      /\ StatusKind(b) \in Kinds /\ ReceiptKind(w, b) \in Kinds
  BY DEF RequestKind, HeaderKind, DataKind, StatusKind, ReceiptKind, Kinds
<1>2. CASE what = "request"
  BY <1>1, <1>2 DEF Kind
<1>3. CASE what = "header"
  BY <1>1, <1>3 DEF Kind
<1>4. CASE what \in {"data", "answer"}
  BY <1>1, <1>4 DEF Kind
<1>5. CASE what = "status"
  BY <1>1, <1>5 DEF Kind
<1>6. CASE what = "receipt"
  BY <1>1, <1>6 DEF Kind
<1> QED BY <1>2, <1>3, <1>4, <1>5, <1>6 DEF Sends

LEMMA NoiseIsByte == Noise \subseteq Byte
BY BytesAssumption

LEMMA ArrivesIs ==
    ASSUME TroubleOK, NEW queue \in Seq(Byte), NEW bytes \in Seq(Byte), NEW what \in Sends,
           NEW after, Arrives(queue, bytes, what, after)
    PROVE  /\ after \in Seq(Byte) /\ Grows
           /\ \E q \in Seq(Byte) : after = queue \o q /\ Outcome(bytes, what, q)
<1> DEFINE None == { [got |-> bytes, struck |-> <<>>] }
           Hits == UNION { { [got |-> [bytes EXCEPT ![k] = b],
                              struck |-> <<Kind(what, k, bytes[k], b)>>]
                                 : b \in Noise \ {bytes[k]} } : k \in DOMAIN bytes }
           Gaps == { [got |-> Without(bytes, k, Gap(what, k)),
                      struck |-> <<Kind(what, k, bytes[k], Lost)>>] : k \in DOMAIN bytes }
<1>1. PICK d \in None \cup Hits \cup Gaps : Strike(d.struck) /\ after = queue \o d.got
  BY DEF Arrives, Deliveries
<1>2. DOMAIN bytes = 1 .. Len(bytes)
  BY LenProperties
<1>3. \A k, w, b : Kind(what, k, w, b) \in Kinds
  BY KindIs
<1>4. CASE d \in None
  <2>1. d.got = bytes /\ d.struck = <<>>
    BY <1>4
  <2>2. Grows /\ trouble' = trouble
    BY <1>1, <2>1, StrikeKeeps
  <2>3. after \in Seq(Byte)
    BY <1>1, <2>1, ConcatProperties
  <2> QED BY <1>1, <2>1, <2>2, <2>3 DEF Outcome
<1>5. CASE d \in Hits
  <2>1. PICK k \in DOMAIN bytes :
           d \in { [got |-> [bytes EXCEPT ![k] = b], struck |-> <<Kind(what, k, bytes[k], b)>>]
                    : b \in Noise \ {bytes[k]} }
    BY <1>5
  <2>2. PICK b \in Noise \ {bytes[k]} :
           d = [got |-> [bytes EXCEPT ![k] = b], struck |-> <<Kind(what, k, bytes[k], b)>>]
    BY <2>1
  <2>3. d.got = [bytes EXCEPT ![k] = b] /\ d.struck = <<Kind(what, k, bytes[k], b)>>
    BY <2>2
  <2>4. b \in Byte \ {bytes[k]}
    BY NoiseIsByte
  <2>5. Grows /\ Struck(Kind(what, k, bytes[k], b))
    BY <1>1, <1>3, <2>3, StrikeKeeps
  <2>6. d.got \in Seq(Byte)
    BY <1>2, <2>3, <2>4, ExceptSeq
  <2>7. after \in Seq(Byte)
    BY <1>1, <2>6, ConcatProperties
  <2>8. Outcome(bytes, what, d.got)
    BY <2>3, <2>4, <2>5 DEF Outcome
  <2> QED BY <1>1, <2>5, <2>6, <2>7, <2>8
<1>6. CASE d \in Gaps
  <2>1. PICK k \in DOMAIN bytes :
           d = [got |-> Without(bytes, k, Gap(what, k)),
                struck |-> <<Kind(what, k, bytes[k], Lost)>>]
    BY <1>6
  <2>2. /\ d.got = Without(bytes, k, Gap(what, k))
        /\ d.struck = <<Kind(what, k, bytes[k], Lost)>>
    BY <2>1
  <2>3. Gap(what, k) \in {1, 2}
    BY DEF Gap
  <2>4. d.got \in Seq(Byte)
    BY <1>2, <2>2, <2>3, WithoutIs
  <2>5. Grows /\ Struck(Kind(what, k, bytes[k], Lost))
    BY <1>1, <1>3, <2>2, StrikeKeeps
  <2>6. after \in Seq(Byte)
    BY <1>1, <2>4, ConcatProperties
  <2>7. Outcome(bytes, what, d.got)
    BY <2>2, <2>5 DEF Outcome
  <2> QED BY <1>1, <2>4, <2>5, <2>6, <2>7
<1> HIDE DEF None, Hits, Gaps
<1> QED BY <1>1, <1>4, <1>5, <1>6

\* Bytes that do not begin like a handshake.
NoMark(q) == q[1] # HANDSHAKE

\* When there is no trouble but to bytes under a CRC, what arrives is near to what was
\* sent; and a status, which is under none, is what was sent.
LEMMA CleanIsNear ==
    ASSUME TroubleOK, Clean, NEW bytes \in Seq(Byte), NEW what \in Sends, NEW q,
           Outcome(bytes, what, q)
    PROVE  /\ what \in {"request", "header"} => Near(q, bytes, {3, 4})
           /\ what \in {"data", "answer"} => Near(q, bytes, {1, 2})
           /\ what \in {"status", "receipt"} => q = bytes
           /\ what = "request" /\ bytes # <<>> /\ NoMark(bytes) => NoMark(q)
<1>1. \A e \in Kinds : Struck(e) => e = "content"
  BY TroubleTells, ContentIsKind DEF Clean, Struck
<1>2. \A k, w, b : Kind(what, k, w, b) \in Kinds
  BY KindIs
<1>3. CASE q = bytes
  BY <1>3 DEF Near
<1>4. CASE \E k \in DOMAIN bytes : \E b \in Byte \ {bytes[k]} :
              q = [bytes EXCEPT ![k] = b] /\ Struck(Kind(what, k, bytes[k], b))
  <2>1. PICK k \in DOMAIN bytes : \E b \in Byte \ {bytes[k]} :
              q = [bytes EXCEPT ![k] = b] /\ Struck(Kind(what, k, bytes[k], b))
    BY <1>4
  <2>2. PICK b \in Byte \ {bytes[k]} :
              q = [bytes EXCEPT ![k] = b] /\ Struck(Kind(what, k, bytes[k], b))
    BY <2>1
  <2>3. Kind(what, k, bytes[k], b) = "content"
    BY <1>1, <1>2, <2>2
  <2>4. what \in {"request", "header"} => k \notin {3, 4}
    BY <2>3, KindIs DEF RequestKind, HeaderKind
  <2>5. what \in {"data", "answer"} => k \notin {1, 2}
    BY <2>3, KindIs DEF DataKind
  <2>6. what \notin {"status", "receipt"}
    BY <2>3, KindIs DEF StatusKind, ReceiptKind
  <2>7. what = "request" => (k = 1 => b # HANDSHAKE)
    BY <2>3, KindIs DEF RequestKind
  <2>8. bytes # <<>> /\ NoMark(bytes) /\ (k = 1 => b # HANDSHAKE) => NoMark(q)
    <3>1. DOMAIN bytes = 1 .. Len(bytes) /\ Len(bytes) \in Nat
      BY LenProperties
    <3>2. bytes # <<>> => 1 \in DOMAIN bytes
      BY <3>1, EmptySeq
    <3> QED BY <2>2, <3>2 DEF NoMark
  <2> QED BY <2>2, <2>4, <2>5, <2>6, <2>7, <2>8 DEF Near
<1>5. ~\E k \in DOMAIN bytes : Struck(Kind(what, k, bytes[k], Lost))
  <2>1. \A k, w : Kind(what, k, w, Lost) # "content"
    BY KindIs DEF RequestKind, HeaderKind, DataKind, StatusKind, ReceiptKind, Sends, Lost,
                  STATUS_OK
  <2> QED BY <1>1, <1>2, <2>1
<1> QED BY <1>3, <1>4, <1>5 DEF Outcome

\* What arrives when the trouble is a gentle one.
GentlyHit(bytes, what, q) ==
    \/ \E k \in DOMAIN bytes : \E b \in Byte \ {bytes[k]} :
          q = [bytes EXCEPT ![k] = b] /\ Kind(what, k, bytes[k], b) \in Gentle
    \/ \E k \in DOMAIN bytes :
          q = Without(bytes, k, Gap(what, k)) /\ Kind(what, k, bytes[k], Lost) \in Gentle

LEMMA GentleIsStruck ==
    ASSUME TroubleOK, NEW e \in Gentle, Struck(e), NEW bytes \in Seq(Byte), NEW what \in Sends,
           NEW q, Outcome(bytes, what, q)
    PROVE  GentlyHit(bytes, what, q)
<1>1. trouble' # trouble /\ \A f \in Kinds : Struck(f) => f = e
  BY TroubleTells, ContentIsKind DEF Struck
<1>2. \A k, w, b : Kind(what, k, w, b) \in Kinds
  BY KindIs
<1> QED BY <1>1, <1>2 DEF Outcome, GentlyHit
-----------------------------------------------------------------------------
(* Types *)

LEMMA AfterIsBytes ==
    ASSUME NEW q \in Seq(Byte), NEW n \in Nat
    PROVE  After(q, n) \in Seq(Byte)
<1>1. n + 1 \in Int /\ Len(q) \in Int /\ \A i \in n + 1 .. Len(q) : q[i] \in Byte
  <2>1. Len(q) \in Nat
    BY LenProperties
  <2>2. \A i \in n + 1 .. Len(q) : i \in 1 .. Len(q)
    BY <2>1
  <2> QED BY <2>1, <2>2, ElementOfSeq
<1> QED BY <1>1, SubSeqProperties DEF After

\* What is read of a packet that is there, whatever is in it.
LEMMA PacketIsBytes ==
    ASSUME NEW q \in Seq(Byte), NEW k \in Nat \ {0}, Complete(q, k)
    PROVE  /\ \A i \in 1 .. k : q[i] \in Byte
           /\ Body(q, k) \in Seq(Byte) /\ After(q, CrcAt(q, k)) \in Seq(Byte)
<1>1. Len(q) \in Nat /\ Len(q) > k
  BY LenProperties DEF Complete
<1>2. \A i \in 1 .. k + 1 : q[i] \in Byte
  BY <1>1, ElementOfSeq
<1>3. q[k] \in 0 .. 255 /\ q[k + 1] \in 0 .. 255
  BY <1>2 DEF Byte
<1> DEFINE n == SizeOf(q, k)
<1>4. n \in Nat
  <2>1. ASSUME NEW a \in 0 .. 255, NEW b \in 0 .. 255 PROVE SizeBase * a + b \in Nat
    BY SizeBaseAssumption
  <2> QED BY <1>3, <2>1 DEF SizeOf
<1>5. Len(q) >= k + 2 + n
  BY DEF Complete
<1> HIDE DEF n
<1>6. k + 2 \in Int /\ k + 1 + n \in Int /\ \A i \in k + 2 .. k + 1 + n : q[i] \in Byte
  <2>1. \A i \in k + 2 .. k + 1 + n : i \in 1 .. Len(q)
    BY <1>1, <1>4, <1>5
  <2> QED BY <1>4, <2>1, ElementOfSeq
<1>7. SubSeq(q, k + 2, k + 1 + n) \in Seq(Byte)
  BY <1>6, SubSeqProperties
<1>8. After(q, k + 2 + n) \in Seq(Byte)
  <2>1. k + 2 + n \in Nat
    BY <1>4
  <2> QED BY <2>1, AfterIsBytes
<1> QED BY <1>2, <1>7, <1>8 DEF Body, CrcAt, n

\* The handshakes in front of a command, three at most.
LEMMA SkippedIs ==
    ASSUME NEW q \in Seq(Byte)
    PROVE  /\ Skipped(q) \in 0 .. 3
           /\ q = <<>> \/ q[1] # HANDSHAKE => Skipped(q) = 0
           /\ Len(q) >= 2 /\ q[1] = HANDSHAKE /\ q[2] # HANDSHAKE => Skipped(q) = 1
<1> DEFINE H(k) == k <= Len(q) /\ q[k] = HANDSHAKE
           Right(n) == /\ \A k \in 1 .. n : H(k)
                       /\ n < 3 => n = Len(q) \/ q[n + 1] # HANDSHAKE
<1>1. Len(q) \in Nat
  BY LenProperties
<1>2. \E n \in 0 .. 3 : Right(n)
  <2>1. CASE ~H(1)
    <3>1. Right(0)
      BY <1>1, <2>1
    <3> QED BY <3>1
  <2>2. CASE H(1) /\ ~H(2)
    <3>1. \A k \in 1 .. 1 : H(k)
      BY <2>2
    <3>2. 1 = Len(q) \/ q[1 + 1] # HANDSHAKE
      <4>1. 1 <= Len(q) /\ ~(2 <= Len(q) /\ q[2] = HANDSHAKE) /\ 1 + 1 = 2
        BY <2>2
      <4>2. CASE 1 = Len(q)
        BY <4>2
      <4>3. CASE 1 # Len(q)
        <5>1. ASSUME NEW n \in Nat, 1 <= n, 1 # n PROVE 2 <= n
          BY <5>1
        <5>2. 2 <= Len(q)
          BY <1>1, <4>1, <4>3, <5>1, Zenon
        <5> QED BY <4>1, <5>2
      <4> QED BY <4>2, <4>3
    <3>3. Right(1)
      BY <3>1, <3>2
    <3> QED BY <3>3
  <2>3. CASE H(1) /\ H(2) /\ ~H(3)
    <3>1. \A k \in 1 .. 2 : H(k)
      BY <2>3
    <3>2. 2 = Len(q) \/ q[2 + 1] # HANDSHAKE
      <4>1. 2 <= Len(q) /\ ~(3 <= Len(q) /\ q[3] = HANDSHAKE) /\ 2 + 1 = 3
        BY <2>3
      <4>2. CASE 2 = Len(q)
        BY <4>2
      <4>3. CASE 2 # Len(q)
        <5>1. ASSUME NEW n \in Nat, 2 <= n, 2 # n PROVE 3 <= n
          BY <5>1
        <5>2. 3 <= Len(q)
          BY <1>1, <4>1, <4>3, <5>1, Zenon
        <5> QED BY <4>1, <5>2
      <4> QED BY <4>2, <4>3
    <3>3. Right(2)
      BY <3>1, <3>2
    <3> QED BY <3>3
  <2>4. CASE H(1) /\ H(2) /\ H(3)
    <3>1. Right(3)
      BY <1>1, <2>4
    <3> QED BY <3>1
  <2> QED BY <2>1, <2>2, <2>3, <2>4
<1>3. Skipped(q) = CHOOSE n \in 0 .. 3 : Right(n)
  BY DEF Skipped
<1>4. Skipped(q) \in 0 .. 3 /\ Right(Skipped(q))
  <2> HIDE DEF Right
  <2> QED BY <1>2, <1>3
<1>5. ASSUME q = <<>> \/ q[1] # HANDSHAKE PROVE Skipped(q) = 0
  <2>1. ~H(1)
    BY <1>5, EmptySeq
  <2>2. ASSUME Skipped(q) # 0 PROVE FALSE
    <3>1. 1 \in 1 .. Skipped(q)
      BY <1>4, <2>2
    <3> QED BY <1>4, <2>1, <3>1
  <2> QED BY <2>2
<1>6. ASSUME Len(q) >= 2, q[1] = HANDSHAKE, q[2] # HANDSHAKE PROVE Skipped(q) = 1
  <2>1. PICK n \in 0 .. 3 : n = Skipped(q)
    BY <1>4
  <2>2. n # 0
    <3>1. 0 + 1 = 1 /\ 0 < 3 /\ 0 # Len(q)
      BY <1>1, <1>6
    <3>2. ~Right(0)
      BY <1>6, <3>1
    <3> QED BY <1>4, <2>1, <3>2
  <2>3. ASSUME n >= 2 PROVE FALSE
    <3>1. 2 \in 1 .. n /\ ~H(2)
      BY <1>6, <2>1, <2>3
    <3> QED BY <1>4, <2>1, <3>1
  <2>4. \A i \in 0 .. 3 : i # 0 /\ ~(i >= 2) => i = 1
    OBVIOUS
  <2> QED BY <2>1, <2>2, <2>3, <2>4
<1> QED BY <1>4, <1>5, <1>6

LEMMA SizesAre ==
    /\ SizeBase \in Nat /\ SizeBase > 6 /\ 6 < 256 * SizeBase
    /\ DataSize \in Nat /\ DataSize > 0 /\ DataSize < 256 * SizeBase
<1>1. SizeBase \in Nat /\ SizeBase > 6
  BY SizeBaseAssumption, SizeAssumption DEF PARAMS_SIZE
<1>2. SectorCount \in Nat /\ SECTOR_SIZE \in Nat /\ SectorCount > 0 /\ SECTOR_SIZE > 0
  BY SizeAssumption
<1>3. \A a \in Nat, b \in Nat : a > 0 /\ b > 0 => a * b \in Nat /\ a * b > 0
  OBVIOUS
<1>4. DataSize \in Nat /\ DataSize > 0
  BY <1>2, <1>3 DEF DataSize
<1>5. DataSize < 256 * SizeBase
  BY SizeAssumption
<1>6. 6 < 256 * SizeBase
  BY <1>1
<1> QED BY <1>1, <1>4, <1>5, <1>6

LEMMA OneByte == ASSUME NEW b \in Byte
                 PROVE  <<b>> \in Seq(Byte) /\ Len(<<b>>) = 1 /\ <<b>>[1] = b /\ Sized(<<b>>)
<1>1. 1 < 256 * SizeBase
  BY SizesAre
<1> QED BY <1>1 DEF Sized

LEMMA NoByte == <<>> \in Seq(Byte) /\ Len(<<>>) = 0 /\ Sized(<<>>)
<1>1. 0 < 256 * SizeBase
  BY SizesAre
<1> QED BY <1>1, EmptySeq DEF Sized

\* The contents of a run.
Run == { c \in Seq(Byte) : Len(c) = DataSize }

LEMMA RunIsSized == ASSUME NEW c \in Run PROVE c \in Seq(Byte) /\ Len(c) = DataSize /\ Sized(c)
BY SizesAre DEF Run, Sized

\* Two bytes.
Word == { n \in Nat : n < 65536 }

LEMMA WordIs == ASSUME NEW w \in Word PROVE w % 256 \in Byte /\ w \div 256 \in Byte
<1>1. w \in Nat /\ w < 65536
  BY DEF Word
<1> QED BY <1>1 DEF Byte

\* The parameters of a request, and what tells those of two runs apart.
LEMMA ParamsAre ==
    ASSUME NEW s \in Word
    PROVE  /\ Params(s) \in Seq(Byte) /\ Len(Params(s)) = PARAMS_SIZE /\ Sized(Params(s))
           /\ Params(s)[1] = Media /\ Params(s)[PARAMS_SIZE] = Unit
           /\ \A r \in Word : Params(r) = Params(s) => r = s
<1>1. s % 256 \in Byte /\ s \div 256 \in Byte
  BY WordIs
<1>2. SectorCount % 256 \in Byte /\ SectorCount \div 256 \in Byte
  <2>1. SectorCount \in Word
    BY SizeAssumption DEF Word
  <2> QED BY <2>1, WordIs
<1>3. Media \in Byte /\ Unit \in Byte
  BY BytesAssumption
<1>4. Params(s) \in Seq(Byte) /\ Len(Params(s)) = 6
  <2> DEFINE a == SectorCount % 256
             b == SectorCount \div 256
             c == s % 256
             d == s \div 256
  <2>1. Params(s) = <<Media, a, b, c, d, Unit>>
    BY DEF Params
  <2> HIDE DEF a, b, c, d
  <2>2. \A u, v, w, x, y, z \in Byte :
           <<u, v, w, x, y, z>> \in Seq(Byte) /\ Len(<<u, v, w, x, y, z>>) = 6
    OBVIOUS
  <2>3. a \in Byte /\ b \in Byte /\ c \in Byte /\ d \in Byte
    BY <1>1, <1>2 DEF a, b, c, d
  <2> QED BY <1>3, <2>1, <2>2, <2>3
<1>5. Sized(Params(s))
  BY <1>4, SizesAre DEF Sized
<1>6. Params(s)[1] = Media /\ Params(s)[6] = Unit
  BY DEF Params
<1>7. ASSUME NEW r \in Word, Params(r) = Params(s) PROVE r = s
  <2>1. Params(r)[4] = Params(s)[4] /\ Params(r)[5] = Params(s)[5]
    BY <1>7
  <2>2. r % 256 = s % 256 /\ r \div 256 = s \div 256
    BY <2>1 DEF Params
  <2>3. r \in Nat /\ s \in Nat
    BY DEF Word
  <2>4. ASSUME NEW m \in Nat, NEW n \in Nat, m % 256 = n % 256, m \div 256 = n \div 256 PROVE m = n
    BY <2>4
  <2> QED BY <2>2, <2>3, <2>4
<1> QED BY <1>4, <1>5, <1>6, <1>7 DEF PARAMS_SIZE

LEMMA CallIsBytes ==
    ASSUME NEW c \in Calls \cup {NoCall}
    PROVE  /\ c.command \in Byte /\ c.sector \in Word /\ Sized(c.data)
           /\ CommandBytes(SD_BLOCK_DEVICE, c.command, Params(c.sector)) \in Seq(Byte)
           /\ DataBytes(c.data) \in Seq(Byte)
<1>1. c.command \in Byte /\ c.sector \in Word /\ Sized(c.data)
  <2>1. CASE c = NoCall
    BY <2>1, NoByte DEF NoCall, Byte, Word
  <2>2. ASSUME NEW s \in Sector, c = Read(s)
        PROVE  c.command \in Byte /\ c.sector \in Word /\ Sized(c.data)
    <3>1. c.command = READ_BLOCK /\ c.sector = s /\ c.data = <<0>>
      BY <2>2 DEF Read
    <3>2. READ_BLOCK \in Byte /\ s \in Word /\ 0 \in Byte
      BY BytesAssumption DEF READ_BLOCK, Byte, Word
    <3> QED BY <3>1, <3>2, OneByte
  <2>3. ASSUME NEW s \in Sector, NEW v \in Value, c = Write(s, v)
        PROVE  c.command \in Byte /\ c.sector \in Word /\ Sized(c.data)
    <3>1. c.command = WRITE_NO_VERIFY /\ c.sector = s /\ c.data = v
      BY <2>3 DEF Write
    <3>2. WRITE_NO_VERIFY \in Byte /\ s \in Word
      BY BytesAssumption DEF WRITE_NO_VERIFY, Byte, Word
    <3>3. v \in Run
      BY ContentsAssumption DEF Run
    <3> QED BY <3>1, <3>2, <3>3, RunIsSized
  <2> QED BY <2>1, <2>2, <2>3 DEF Calls
<1>2. SD_BLOCK_DEVICE \in Byte
  BY DEF SD_BLOCK_DEVICE, Byte
<1>3. Sized(Params(c.sector))
  BY <1>1, ParamsAre
<1>4. CommandBytes(SD_BLOCK_DEVICE, c.command, Params(c.sector)) \in Seq(Byte)
  BY <1>1, <1>2, <1>3, CommandBytesAre
<1>5. DataBytes(c.data) \in Seq(Byte)
  BY <1>1, DataBytesAre
<1> QED BY <1>1, <1>4, <1>5

\* A buffer with the heap behind it.
LEMMA BehindIs ==
    ASSUME NEW bytes \in Seq(Byte), NEW n \in Nat, NEW h \in Seq(Byte), Len(h) >= n
    PROVE  /\ Behind(bytes, n, h) \in Seq(Byte) /\ Len(Behind(bytes, n, h)) = n
           /\ Len(bytes) = n => Behind(bytes, n, h) = bytes
<1> DEFINE all == bytes \o h
<1>1. Len(bytes) \in Nat /\ Len(h) \in Nat
  BY LenProperties
<1>2. /\ all \in Seq(Byte) /\ Len(all) = Len(bytes) + Len(h)
      /\ \A i \in 1 .. Len(bytes) + Len(h) :
            all[i] = IF i <= Len(bytes) THEN bytes[i] ELSE h[i - Len(bytes)]
  BY ConcatProperties
<1> HIDE DEF all
<1>3. \A i \in 1 .. n : all[i] \in Byte
  <2>1. \A i \in 1 .. n : i \in 1 .. Len(all)
    BY <1>1, <1>2
  <2> QED BY <1>2, <2>1, ElementOfSeq
<1> DEFINE some == SubSeq(all, 1, n)
<1>4. /\ some \in Seq(Byte) /\ Len(some) = IF 1 <= n THEN n - 1 + 1 ELSE 0
      /\ \A i \in 1 .. n - 1 + 1 : some[i] = all[1 + i - 1]
  BY <1>3, SubSeqProperties
<1> HIDE DEF some
<1>5. Len(some) = n /\ \A i \in 1 .. n : some[i] = all[i]
  <2>1. (IF 1 <= n THEN n - 1 + 1 ELSE 0) = n /\ n - 1 + 1 = n /\ \A i \in 1 .. n : 1 + i - 1 = i
    OBVIOUS
  <2> QED BY <1>4, <2>1
<1>6. ASSUME Len(bytes) = n PROVE some = bytes
  <2>1. ASSUME NEW i \in 1 .. n PROVE some[i] = bytes[i]
    <3>1. i \in 1 .. Len(bytes) + Len(h) /\ i <= Len(bytes)
      BY <1>1, <1>6
    <3> QED BY <1>2, <1>5, <3>1
  <2> QED BY <1>4, <1>5, <1>6, <2>1, SeqEqual
<1> QED BY <1>4, <1>5, <1>6 DEF some, all, Behind

LEMMA HeapBehind ==
    ASSUME NEW bytes \in Seq(Byte), NEW h \in Heap
    PROVE  /\ Behind(bytes, DataSize, h) \in Run
           /\ Len(bytes) = DataSize => Behind(bytes, DataSize, h) = bytes
           /\ Len(bytes) = PARAMS_SIZE => Behind(bytes, PARAMS_SIZE, h) = bytes
<1>1. h \in Seq(Byte) /\ Len(h) \in Nat /\ Len(h) >= DataSize + PARAMS_SIZE
  BY HeapAssumption, LenProperties
<1>2. PARAMS_SIZE \in Nat /\ DataSize \in Nat
  BY SizesAre DEF PARAMS_SIZE
<1>3. Len(h) >= DataSize /\ Len(h) >= PARAMS_SIZE
  BY <1>1, <1>2
<1> QED BY <1>1, <1>2, <1>3, BehindIs DEF Run

\* Besides its types, the image holds runs, and no answer is too long for its size bytes.
TypeInv ==
    TypeOK /\ Sized(response) /\ disk \in [Sector -> Run] /\ before \in [Sector -> Run]

LEMMA TypeInit == Init => TypeInv
<1> SUFFICES ASSUME Init PROVE TypeInv
  OBVIOUS
<1>1. NoPayload \in Payloads
  BY NoByte DEF NoPayload, Payloads, Byte
<1>2. Value \subseteq Run /\ Run \subseteq Seq(Byte)
  BY ContentsAssumption DEF Run
<1>3. /\ disk \in [Sector -> Run] /\ before \in [Sector -> Run]
      /\ disk \in [Sector -> Seq(Byte)] /\ before \in [Sector -> Seq(Byte)]
  <2>1. disk \in [Sector -> Value] /\ before = disk
    BY DEF Init
  <2> QED BY <1>2, <2>1
<1>4. 1 \in 1 .. MaxAttempts /\ 0 \in 0 .. MaxCalls
  BY BoundsAssumption
<1>5. <<>> \in Seq(Kinds) /\ Len(<<>>) <= MaxTroubles
  BY BoundsAssumption, EmptySeq
<1> QED BY <1>1, <1>3, <1>4, <1>5, NoByte DEF Init, TypeInv, TypeOK

\* The half of the types an action leaves alone.
VictorTypes ==
    /\ vpc \in {"idle", "commandStatus", "dataStatus", "response", "responseData"}
    /\ call \in Calls \cup {NoCall}
    /\ attempt \in 1 .. MaxAttempts
    /\ outcome \in {"none", "DONE", "ERROR"}
    /\ buffer \in Seq(Byte)
    /\ before \in [Sector -> Run] /\ calls \in 0 .. MaxCalls
PicoTypes ==
    /\ ppc \in {"command", "data", "dispatch", "ackCommand", "ackData", "handshake", "stopped"}
    /\ payload \in Payloads
    /\ Sized(response)
    /\ leaked \in Nat /\ executions \in Nat
    /\ disk \in [Sector -> Run]
LineTypes == toPico \in Seq(Byte) /\ toVictor \in Seq(Byte)

LEMMA TypeParts == TypeInv <=> VictorTypes /\ PicoTypes /\ LineTypes /\ TroubleOK
<1>1. Run \subseteq Seq(Byte)
  BY DEF Run
<1>2. \A f \in [Sector -> Run] : f \in [Sector -> Seq(Byte)]
  BY <1>1
<1>3. Sized(response) => response \in Seq(Byte)
  BY DEF Sized
<1> QED BY <1>2, <1>3 DEF TypeInv, TypeOK, VictorTypes, PicoTypes, LineTypes, TroubleOK

LEMMA TailIsBytes ==
    ASSUME NEW q \in Seq(Byte), q # <<>>
    PROVE  Head(q) \in Byte /\ Tail(q) \in Seq(Byte)
BY HeadTailProperties

LEMMA StatusesAreBytes ==
    /\ STATUS_OK \in Byte /\ INVALID_CRC \in Byte /\ MEMORY_ALLOCATION_ERROR \in Byte
    /\ HANDSHAKE_RESPONSE \in Byte
BY DEF STATUS_OK, INVALID_CRC, MEMORY_ALLOCATION_ERROR, HANDSHAKE_RESPONSE, Byte

LEMMA SendsAre ==
    /\ "request" \in Sends /\ "header" \in Sends /\ "data" \in Sends
    /\ "answer" \in Sends /\ "status" \in Sends /\ "receipt" \in Sends
BY DEF Sends

LEMMA RetryTypes ==
    ASSUME VictorTypes, LineTypes, TroubleOK, toVictor # <<>>, Retry
    PROVE  /\ LineTypes' /\ Grows
           /\ attempt' \in 1 .. MaxAttempts
           /\ vpc' \in {"idle", "commandStatus"} /\ outcome' \in {"none", "DONE", "ERROR"}
<1>1. Tail(toVictor) \in Seq(Byte) /\ toPico \in Seq(Byte)
  BY TailIsBytes DEF LineTypes
<1>2. CASE AttemptsLeft /\ attempt' = attempt + 1 /\ SendCommand(Tail(toVictor), call)
           /\ vpc' = "commandStatus" /\ UNCHANGED outcome
  <2>1. attempt' \in 1 .. MaxAttempts
    BY <1>2, BoundsAssumption DEF AttemptsLeft, VictorTypes
  <2>2. toVictor' = Tail(toVictor)
        /\ Arrives(toPico, CommandBytes(SD_BLOCK_DEVICE, call.command, Params(call.sector)),
                   "request", toPico')
    BY <1>2 DEF SendCommand
  <2>3. CommandBytes(SD_BLOCK_DEVICE, call.command, Params(call.sector)) \in Seq(Byte)
    BY CallIsBytes DEF VictorTypes
  <2>4. toPico' \in Seq(Byte) /\ Grows
    BY <1>1, <2>2, <2>3, SendsAre, ArrivesIs
  <2> QED BY <1>1, <1>2, <2>1, <2>2, <2>4 DEF LineTypes, VictorTypes
<1>3. CASE Returned("ERROR") /\ toVictor' = Tail(toVictor)
           /\ UNCHANGED <<attempt, toPico, trouble>>
  BY <1>1, <1>3 DEF Returned, LineTypes, TroubleOK, Grows, VictorTypes
<1> QED BY <1>2, <1>3 DEF Retry

\* An answer of the Victor, or a status of the Pico: one byte more.
LEMMA AnswerTypes ==
    ASSUME LineTypes, TroubleOK, NEW rest \in Seq(Byte), NEW status \in Byte, Answer(rest, status)
    PROVE  LineTypes' /\ Grows
<1>1. toVictor' = rest /\ Arrives(toPico, <<status>>, "status", toPico')
  BY DEF Answer
<1>2. toPico \in Seq(Byte) /\ <<status>> \in Seq(Byte)
  BY OneByte DEF LineTypes
<1>3. toPico' \in Seq(Byte) /\ Grows
  BY <1>1, <1>2, SendsAre, ArrivesIs
<1> QED BY <1>1, <1>3 DEF LineTypes

LEMMA PicoStatusTypes ==
    ASSUME LineTypes, TroubleOK, NEW rest \in Seq(Byte), NEW status \in Byte, NEW what \in Sends,
           PicoStatus(rest, status, what)
    PROVE  LineTypes' /\ Grows
<1>1. toPico' = rest /\ Arrives(toVictor, <<status>>, what, toVictor')
  BY DEF PicoStatus
<1>2. toVictor \in Seq(Byte) /\ <<status>> \in Seq(Byte)
  BY OneByte DEF LineTypes
<1>3. toVictor' \in Seq(Byte) /\ Grows
  BY <1>1, <1>2, ArrivesIs
<1> QED BY <1>1, <1>3 DEF LineTypes

LEMMA VictorTypesKept ==
    ASSUME VictorTypes, PicoTypes, LineTypes, TroubleOK, DosCall \/ Victor
    PROVE  /\ VictorTypes' /\ PicoTypes' /\ LineTypes'
           /\ Grows
<1>0. UNCHANGED pico => PicoTypes'
  BY DEF pico, PicoTypes
<1>1. CASE DosCall
  <2>1. PICK c \in Calls : call' = c /\ SendCommand(toVictor, c)
    BY <1>1 DEF DosCall
  <2>2. /\ toVictor' = toVictor
        /\ Arrives(toPico, CommandBytes(SD_BLOCK_DEVICE, c.command, Params(c.sector)),
                   "request", toPico')
    BY <2>1 DEF SendCommand
  <2>3. CommandBytes(SD_BLOCK_DEVICE, c.command, Params(c.sector)) \in Seq(Byte)
    BY CallIsBytes
  <2>4. toPico' \in Seq(Byte) /\ Grows
    BY <2>2, <2>3, SendsAre, ArrivesIs DEF LineTypes
  <2>5. calls' \in 0 .. MaxCalls /\ attempt' \in 1 .. MaxAttempts
    BY <1>1, BoundsAssumption DEF DosCall, VictorTypes
  <2>6. VictorTypes'
    BY <1>1, <2>1, <2>5 DEF DosCall, VictorTypes, PicoTypes
  <2>7. PicoTypes'
    BY <1>1 DEF DosCall, PicoTypes
  <2> QED BY <2>2, <2>4, <2>6, <2>7 DEF LineTypes
<1>2. CASE VictorCommandStatus
  <2>1. /\ toVictor # <<>> /\ PicoTypes'
        /\ call' = call /\ buffer' = buffer /\ calls' = calls /\ before' = before
    BY <1>0, <1>2 DEF VictorCommandStatus
  <2>2. CASE Head(toVictor) = STATUS_OK
    <3>1. /\ toVictor' = Tail(toVictor)
          /\ Arrives(toPico, DataBytes(call.data), "data", toPico')
          /\ vpc' = "dataStatus" /\ attempt' = attempt /\ outcome' = outcome
      BY <1>2, <2>2 DEF VictorCommandStatus
    <3>2. DataBytes(call.data) \in Seq(Byte) /\ toPico \in Seq(Byte) /\ Tail(toVictor) \in Seq(Byte)
      BY <2>1, CallIsBytes, TailIsBytes DEF VictorTypes, LineTypes
    <3>3. toPico' \in Seq(Byte) /\ Grows
      BY <3>1, <3>2, SendsAre, ArrivesIs
    <3> QED BY <2>1, <3>1, <3>2, <3>3 DEF LineTypes, VictorTypes
  <2>3. CASE Head(toVictor) # STATUS_OK
    <3>1. Retry
      BY <1>2, <2>3 DEF VictorCommandStatus
    <3> QED BY <2>1, <3>1, RetryTypes DEF VictorTypes
  <2> QED BY <2>2, <2>3
<1>3. CASE VictorDataStatus
  <2>1. /\ toVictor # <<>> /\ PicoTypes'
        /\ call' = call /\ buffer' = buffer /\ calls' = calls /\ before' = before
    BY <1>0, <1>3 DEF VictorDataStatus
  <2>2. CASE Head(toVictor) = STATUS_OK
    <3>1. /\ toVictor' = Tail(toVictor) /\ vpc' = "response"
          /\ UNCHANGED <<attempt, outcome, toPico, trouble>>
      BY <1>3, <2>2 DEF VictorDataStatus
    <3>2. Tail(toVictor) \in Seq(Byte)
      BY <2>1, TailIsBytes DEF LineTypes
    <3> QED BY <2>1, <3>1, <3>2 DEF LineTypes, VictorTypes, TroubleOK, Grows
  <2>3. CASE Head(toVictor) # STATUS_OK
    <3>1. Retry
      BY <1>3, <2>3 DEF VictorDataStatus
    <3> QED BY <2>1, <3>1, RetryTypes DEF VictorTypes
  <2> QED BY <2>2, <2>3
<1>4. CASE VictorResponse
  <2> DEFINE end == CrcAt(toVictor, 3)
             good == ValidCommand(toVictor[1], toVictor[2], Body(toVictor, 3), toVictor[end])
  <2>1. /\ Complete(toVictor, 3) /\ PicoTypes'
        /\ Answer(After(toVictor, end), IF good THEN STATUS_OK ELSE INVALID_CRC)
        /\ IF good THEN vpc' = "responseData" /\ UNCHANGED outcome ELSE Returned("ERROR")
        /\ UNCHANGED <<call, attempt, buffer, calls, before>>
    BY <1>0, <1>4 DEF VictorResponse
  <2>2. After(toVictor, end) \in Seq(Byte)
    BY <2>1, PacketIsBytes DEF LineTypes
  <2>3. (IF good THEN STATUS_OK ELSE INVALID_CRC) \in Byte
    BY StatusesAreBytes
  <2> HIDE DEF end, good
  <2>4. LineTypes' /\ Grows
    BY <2>1, <2>2, <2>3, AnswerTypes
  <2>5. vpc' \in {"responseData", "idle"} /\ outcome' \in {"none", "DONE", "ERROR"}
    BY <2>1 DEF Returned, VictorTypes
  <2> QED BY <2>1, <2>4, <2>5 DEF VictorTypes
<1>5. CASE VictorResponseData
  <2> DEFINE end == CrcAt(toVictor, 1)
             good == ValidData(Body(toVictor, 1), toVictor[end])
  <2>1. /\ Complete(toVictor, 1) /\ PicoTypes'
        /\ buffer' = Stored(Body(toVictor, 1))
        /\ Answer(After(toVictor, end), IF good THEN STATUS_OK ELSE INVALID_CRC)
        /\ Returned(Verdict(good))
        /\ UNCHANGED <<call, attempt, calls, before>>
    BY <1>0, <1>5 DEF VictorResponseData
  <2>2. After(toVictor, end) \in Seq(Byte) /\ Body(toVictor, 1) \in Seq(Byte)
    BY <2>1, PacketIsBytes DEF LineTypes
  <2>6. buffer' \in Seq(Byte)
    BY <2>1, <2>2 DEF Stored, VictorTypes
  <2>3. (IF good THEN STATUS_OK ELSE INVALID_CRC) \in Byte
    BY StatusesAreBytes
  <2> HIDE DEF end, good
  <2>4. LineTypes' /\ Grows
    BY <2>1, <2>2, <2>3, AnswerTypes
  <2>5. vpc' = "idle" /\ outcome' \in {"none", "DONE", "ERROR"}
    BY <2>1 DEF Returned, Verdict
  <2> QED BY <2>1, <2>4, <2>5, <2>6 DEF VictorTypes
<1> QED BY <1>1, <1>2, <1>3, <1>4, <1>5 DEF Victor

LEMMA ResponseTypes ==
    ASSUME PicoTypes, NEW p \in Payloads, NEW s
    PROVE  Sized(ResponseTo(p, s))
<1>1. CASE IsRead(p)
  <2>1. ResponseTo(p, s) = IF s \in Sector THEN disk[s] ELSE <<>>
    BY <1>1 DEF ResponseTo, IsRead, IsWrite, READ_BLOCK, WRITE_NO_VERIFY, WRITE_VERIFY
  <2>2. CASE s \in Sector
    <3>1. disk[s] \in Run
      BY <2>2 DEF PicoTypes
    <3> QED BY <2>1, <2>2, <3>1, RunIsSized
  <2>3. CASE s \notin Sector
    BY <2>1, <2>3, NoByte
  <2> QED BY <2>2, <2>3
<1>2. CASE IsWrite(p)
  <2>1. ResponseTo(p, s) = <<0>> /\ 0 \in Byte
    BY <1>2 DEF ResponseTo, IsRead, IsWrite, READ_BLOCK, WRITE_NO_VERIFY, WRITE_VERIFY, Byte
  <2> QED BY <2>1, OneByte
<1>3. CASE ~IsRead(p) /\ ~IsWrite(p)
  <2>1. ResponseTo(p, s) = <<>>
    BY <1>3 DEF ResponseTo
  <2> QED BY <2>1, NoByte
<1> QED BY <1>1, <1>2, <1>3

\* Whatever is written, the image holds runs.
LEMMA AppliedTypes ==
    ASSUME PicoTypes, NEW s, NEW h \in Heap
    PROVE  Applied(payload, s, h) \in [Sector -> Run]
<1>1. payload.data \in Seq(Byte)
  BY DEF PicoTypes, Payloads
<1>2. Behind(payload.data, DataSize, h) \in Run
  BY <1>1, HeapBehind
<1> QED BY <1>2 DEF Applied, PicoTypes

LEMMA PayloadTypes ==
    /\ NoPayload \in Payloads
    /\ \A p \in Byte, c \in Byte, body \in Seq(Byte) :
          [NoPayload EXCEPT !.protocol = p, !.command = c, !.params = body] \in Payloads
    /\ \A p \in Payloads, body \in Seq(Byte) : [p EXCEPT !.data = body] \in Payloads
<1>1. <<>> \in Seq(Byte) /\ 0 \in Byte
  BY NoByte DEF Byte
<1> QED BY <1>1 DEF NoPayload, Payloads

LEMMA PicoTypesKept ==
    ASSUME VictorTypes, PicoTypes, LineTypes, TroubleOK, Firmware \/ Failures
    PROVE  /\ VictorTypes' /\ PicoTypes' /\ LineTypes'
           /\ Grows
<1>0. UNCHANGED victor => VictorTypes'
  BY DEF victor, VictorTypes
<1>00. toPico \in Seq(Byte) /\ toVictor \in Seq(Byte)
  BY DEF LineTypes
<1>1. CASE PicoCommand
  <2> DEFINE q == After(toPico, Skipped(toPico))
             end == CrcAt(q, 3)
             good == ValidCommand(q[1], q[2], Body(q, 3), q[end])
  <2>1. /\ Complete(q, 3)
        /\ PicoStatus(After(q, end), IF good THEN STATUS_OK ELSE INVALID_CRC, "status")
        /\ ppc' = (IF good THEN "data" ELSE "command")
        /\ payload' = IF good THEN [NoPayload EXCEPT !.protocol = q[1], !.command = q[2],
                                                     !.params = Body(q, 3)]
                              ELSE NoPayload
        /\ UNCHANGED <<response, leaked, disk, executions, victor>>
    BY <1>1 DEF PicoCommand
  <2>2. q \in Seq(Byte)
    <3>1. Skipped(toPico) \in Nat
      BY <1>00, SkippedIs
    <3> QED BY <1>00, <3>1, AfterIsBytes
  <2> HIDE DEF q
  <2>3. /\ After(q, end) \in Seq(Byte) /\ Body(q, 3) \in Seq(Byte)
        /\ q[1] \in Byte /\ q[2] \in Byte
    <3>1. 3 \in Nat \ {0} /\ 1 \in 1 .. 3 /\ 2 \in 1 .. 3
      OBVIOUS
    <3> QED BY <2>1, <2>2, <3>1, PacketIsBytes
  <2>4. (IF good THEN STATUS_OK ELSE INVALID_CRC) \in Byte
    BY StatusesAreBytes
  <2>5. payload' \in Payloads
    BY <2>1, <2>3, PayloadTypes
  <2> HIDE DEF end, good
  <2>6. LineTypes' /\ Grows
    BY <2>1, <2>3, <2>4, SendsAre, PicoStatusTypes
  <2>7. PicoTypes'
    BY <2>1, <2>5 DEF PicoTypes
  <2> QED BY <1>0, <2>1, <2>6, <2>7
<1>2. CASE PicoData
  <2> DEFINE end == CrcAt(toPico, 1)
             good == ValidData(Body(toPico, 1), toPico[end])
  <2>1. /\ Complete(toPico, 1)
        /\ PicoStatus(After(toPico, end), IF good THEN STATUS_OK ELSE INVALID_CRC, "receipt")
        /\ ppc' = (IF good THEN "dispatch" ELSE "command")
        /\ payload' = IF good THEN [payload EXCEPT !.data = Body(toPico, 1)] ELSE NoPayload
        /\ UNCHANGED <<response, leaked, disk, executions, victor>>
    BY <1>2 DEF PicoData
  <2>2. After(toPico, end) \in Seq(Byte) /\ Body(toPico, 1) \in Seq(Byte)
    BY <1>00, <2>1, PacketIsBytes
  <2>3. (IF good THEN STATUS_OK ELSE INVALID_CRC) \in Byte
    BY StatusesAreBytes
  <2>4. payload' \in Payloads
    BY <2>1, <2>2, PayloadTypes DEF PicoTypes
  <2> HIDE DEF end, good
  <2>5. LineTypes' /\ Grows
    BY <2>1, <2>2, <2>3, SendsAre, PicoStatusTypes
  <2>6. PicoTypes'
    BY <2>1, <2>4 DEF PicoTypes
  <2> QED BY <1>0, <2>1, <2>5, <2>6
<1>3. CASE PicoDispatch
  <2>0. PICK h \in Heap : \E s \in Reached(Behind(payload.params, PARAMS_SIZE, h)) :
          response' = ResponseTo(payload, s) /\ disk' = Applied(payload, s, h)
    BY <1>3 DEF PicoDispatch
  <2>1. PICK s : response' = ResponseTo(payload, s) /\ disk' = Applied(payload, s, h)
    BY <2>0
  <2>2. /\ leaked' = leaked + 1 /\ executions' = executions + 1
        /\ Arrives(toVictor, CommandBytes(payload.protocol, payload.command, <<>>),
                   "header", toVictor')
        /\ ppc' = "ackCommand" /\ UNCHANGED <<toPico, payload, victor>>
    BY <1>3 DEF PicoDispatch
  <2>3. payload \in Payloads /\ payload.protocol \in Byte /\ payload.command \in Byte
    BY DEF PicoTypes, Payloads
  <2>4. Sized(response')
    BY <2>1, <2>3, ResponseTypes
  <2>6. disk' \in [Sector -> Run]
    BY <2>1, AppliedTypes
  <2>7. PicoTypes'
    BY <2>2, <2>3, <2>4, <2>6 DEF PicoTypes
  <2>8. CommandBytes(payload.protocol, payload.command, <<>>) \in Seq(Byte)
    BY <2>3, NoByte, CommandBytesAre
  <2>9. toVictor' \in Seq(Byte) /\ Grows
    BY <1>00, <2>2, <2>8, SendsAre, ArrivesIs
  <2> QED BY <1>0, <1>00, <2>2, <2>7, <2>9 DEF LineTypes
<1>4. CASE PicoAckCommand
  <2>1. /\ toPico # <<>> /\ toPico' = Tail(toPico)
        /\ UNCHANGED <<leaked, disk, executions, victor>>
    BY <1>4 DEF PicoAckCommand
  <2>2. toPico' \in Seq(Byte)
    BY <1>00, <2>1, TailIsBytes
  <2>3. CASE Head(toPico) = STATUS_OK
    <3>1. /\ Arrives(toVictor, DataBytes(response), "answer", toVictor')
          /\ ppc' = "ackData" /\ UNCHANGED <<payload, response>>
      BY <1>4, <2>3 DEF PicoAckCommand
    <3>2. Sized(response)
      BY DEF PicoTypes
    <3>3. toVictor' \in Seq(Byte) /\ Grows
      BY <1>00, <3>1, <3>2, DataBytesAre, SendsAre, ArrivesIs
    <3>4. PicoTypes'
      BY <2>1, <3>1 DEF PicoTypes
    <3> QED BY <1>0, <2>1, <2>2, <3>3, <3>4 DEF LineTypes
  <2>4. CASE Head(toPico) # STATUS_OK
    <3>1. /\ ppc' = "command" /\ payload' = NoPayload /\ response' = <<>>
          /\ UNCHANGED <<toVictor, trouble>>
      BY <1>4, <2>4 DEF PicoAckCommand, AfterRefusal
    <3>2. Sized(response')
      BY <3>1, NoByte
    <3>3. PicoTypes'
      BY <2>1, <3>1, <3>2, PayloadTypes DEF PicoTypes
    <3> QED BY <1>0, <1>00, <2>1, <2>2, <3>1, <3>3 DEF LineTypes, TroubleOK, Grows
  <2> QED BY <2>3, <2>4
<1>5. CASE PicoAckData
  <2>1. /\ toPico # <<>> /\ toPico' = Tail(toPico)
        /\ ppc' = "command" /\ payload' = NoPayload /\ response' = <<>>
        /\ UNCHANGED <<toVictor, trouble, leaked, disk, executions, victor>>
    BY <1>5 DEF PicoAckData
  <2>2. toPico' \in Seq(Byte)
    BY <1>00, <2>1, TailIsBytes
  <2>3. PicoTypes'
    <3>1. Sized(response')
      BY <2>1, NoByte
    <3> QED BY <2>1, <3>1, PayloadTypes DEF PicoTypes
  <2> QED BY <1>0, <1>00, <2>1, <2>2, <2>3 DEF LineTypes, TroubleOK, Grows
<1>6. CASE PicoHandshake
  <2>1. /\ toPico # <<>> /\ UNCHANGED <<payload, response, leaked, disk, executions, victor>>
    BY <1>6 DEF PicoHandshake
  <2>2. Tail(toPico) \in Seq(Byte)
    BY <1>00, <2>1, TailIsBytes
  <2>3. CASE IsHandshake(Head(toPico))
    <3>1. ppc' = "command" /\ PicoStatus(Tail(toPico), HANDSHAKE_RESPONSE, "status")
      BY <1>6, <2>3 DEF PicoHandshake
    <3>2. LineTypes' /\ Grows
      BY <2>2, <3>1, SendsAre, PicoStatusTypes, StatusesAreBytes
    <3>3. PicoTypes'
      BY <2>1, <3>1 DEF PicoTypes
    <3> QED BY <1>0, <2>1, <3>2, <3>3
  <2>4. CASE ~IsHandshake(Head(toPico))
    <3>1. toPico' = Tail(toPico) /\ UNCHANGED <<ppc, toVictor, trouble>>
      BY <1>6, <2>4 DEF PicoHandshake
    <3>2. PicoTypes'
      BY <2>1, <3>1 DEF PicoTypes
    <3> QED BY <1>0, <1>00, <2>1, <2>2, <3>1, <3>2 DEF LineTypes, TroubleOK, Grows
  <2> QED BY <2>3, <2>4
<1>7. CASE NoBuffer
  <2>1. /\ toVictor' = Append(toVictor, MEMORY_ALLOCATION_ERROR) /\ Strike(<<"framing">>)
        /\ ppc' = "command" /\ payload' = NoPayload
        /\ UNCHANGED <<response, leaked, disk, executions, victor>>
    BY <1>7 DEF NoBuffer
  <2>2. toPico' \in Seq(Byte)
    <3>1. CASE toPico' = After(After(toPico, Skipped(toPico)), 4)
      <4>1. Skipped(toPico) \in Nat /\ 4 \in Nat
        BY <1>00, SkippedIs
      <4>2. After(toPico, Skipped(toPico)) \in Seq(Byte)
        BY <1>00, <4>1, AfterIsBytes
      <4> QED BY <3>1, <4>1, <4>2, AfterIsBytes
    <3>2. CASE toPico' = After(toPico, 2)
      <4>1. 2 \in Nat
        OBVIOUS
      <4> QED BY <1>00, <3>2, <4>1, AfterIsBytes
    <3> QED BY <1>7, <3>1, <3>2 DEF NoBuffer
  <2>3. toVictor' \in Seq(Byte)
    BY <1>00, <2>1, StatusesAreBytes, AppendProperties
  <2>4. Grows
    <3>1. "framing" \in Kinds
      BY DEF Kinds
    <3> QED BY <2>1, <3>1, StrikeKeeps
  <2>5. PicoTypes'
    BY <2>1, PayloadTypes DEF PicoTypes
  <2> QED BY <1>0, <2>1, <2>2, <2>3, <2>4, <2>5 DEF LineTypes
<1>8. CASE NoPayloadMemory
  <2>1. /\ Strike(<<"memory">>) /\ ppc' = "stopped"
        /\ UNCHANGED <<line, payload, response, leaked, disk, executions, victor>>
    BY <1>8 DEF NoPayloadMemory
  <2>2. Grows
    <3>1. "memory" \in Kinds
      BY DEF Kinds
    <3> QED BY <2>1, <3>1, StrikeKeeps
  <2>3. PicoTypes'
    BY <2>1 DEF PicoTypes
  <2> QED BY <1>0, <1>00, <2>1, <2>2, <2>3 DEF LineTypes, line
<1>9. CASE PicoResets
  <2>1. /\ Strike(<<"reset">>) /\ ppc' = "handshake"
        /\ payload' = NoPayload /\ response' = <<>> /\ leaked' = 0
        /\ UNCHANGED <<disk, executions, victor>>
    BY <1>9 DEF PicoResets
  <2>2. Len(toPico) \in Nat /\ Len(toVictor) \in Nat
    BY <1>00, LenProperties
  <2>3. toPico' \in Seq(Byte)
    <3>1. PICK n \in 0 .. Len(toPico) : toPico' = After(toPico, n)
      BY <1>9 DEF PicoResets
    <3>2. n \in Nat
      BY <2>2
    <3> QED BY <1>00, <3>1, <3>2, AfterIsBytes
  <2>4. toVictor' \in Seq(Byte)
    <3>1. PICK n \in 0 .. Len(toVictor) : toVictor' = SubSeq(toVictor, 1, n)
      BY <1>9 DEF PicoResets
    <3>2. 1 \in Int /\ n \in Int /\ \A i \in 1 .. n : toVictor[i] \in Byte
      <4>1. \A i \in 1 .. n : i \in 1 .. Len(toVictor)
        BY <2>2
      <4> QED BY <1>00, <2>2, <4>1, ElementOfSeq
    <3> QED BY <3>1, <3>2, SubSeqProperties
  <2>5. Grows
    <3>1. "reset" \in Kinds
      BY DEF Kinds
    <3> QED BY <2>1, <3>1, StrikeKeeps
  <2>6. PicoTypes'
    <3>1. Sized(response')
      BY <2>1, NoByte
    <3> QED BY <2>1, <3>1, PayloadTypes DEF PicoTypes
  <2> QED BY <1>0, <2>1, <2>3, <2>4, <2>5, <2>6 DEF LineTypes
<1>10. CASE NoAnswerMemory
  <2>1. /\ Strike(<<"null">>) /\ ppc' = "stopped"
        /\ UNCHANGED <<line, payload, response, leaked, victor>>
        /\ \/ UNCHANGED <<disk, executions>>
           \/ /\ \E h \in Heap : \E s \in Reached(Behind(payload.params, PARAMS_SIZE, h)) :
                    disk' = Applied(payload, s, h)
              /\ executions' = executions + 1
    BY <1>10 DEF NoAnswerMemory
  <2>2. Grows
    <3>1. "null" \in Kinds
      BY DEF Kinds
    <3> QED BY <2>1, <3>1, StrikeKeeps
  <2>3. disk' \in [Sector -> Run] /\ executions' \in Nat
    BY <2>1, AppliedTypes DEF PicoTypes
  <2>4. PicoTypes'
    BY <2>1, <2>3 DEF PicoTypes
  <2> QED BY <1>0, <1>00, <2>1, <2>2, <2>4 DEF LineTypes, line
<1>11. CASE NoSuchUnit
  <2>1. /\ ppc' = "stopped"
        /\ UNCHANGED <<line, payload, response, leaked, disk, executions, victor, trouble>>
    BY <1>11 DEF NoSuchUnit
  <2>2. PicoTypes'
    BY <2>1 DEF PicoTypes
  <2> QED BY <1>0, <1>00, <2>1, <2>2 DEF LineTypes, line, TroubleOK, Grows
<1> QED BY <1>1, <1>2, <1>3, <1>4, <1>5, <1>6, <1>7, <1>8, <1>9, <1>10, <1>11 DEF Firmware, Failures

LEMMA TypeNext == TypeInv /\ [Next]_vars => TypeInv' /\ Grows
<1> SUFFICES ASSUME TypeInv, [Next]_vars PROVE TypeInv' /\ Grows
  OBVIOUS
<1>1. VictorTypes /\ PicoTypes /\ LineTypes /\ TroubleOK
  BY TypeParts
<1>2. VictorTypes' /\ PicoTypes' /\ LineTypes' /\ Grows
  <2>1. CASE DosCall \/ Victor
    BY <1>1, <2>1, VictorTypesKept
  <2>2. CASE Firmware \/ Failures
    BY <1>1, <2>2, PicoTypesKept
  <2>3. CASE UNCHANGED vars
    BY <1>1, <2>3 DEF vars, line, victor, pico, VictorTypes, PicoTypes, LineTypes, TroubleOK, Grows
  <2> QED BY <2>1, <2>2, <2>3 DEF Next
<1>3. \A f \in [Sector -> Run] : f \in [Sector -> Seq(Byte)]
  <2>1. Run \subseteq Seq(Byte)
    BY DEF Run
  <2> QED BY <2>1
<1>4. response' \in Seq(Byte)
  BY <1>2 DEF PicoTypes, Sized
<1> QED BY <1>2, <1>3, <1>4 DEF TypeInv, TypeOK, VictorTypes, PicoTypes, LineTypes, TroubleOK, Grows

\* The variables stay in their types, whatever bytes get lost or damaged and whatever
\* either program takes them for: no handler reads a byte it has not waited for
\* (receive_command_packet, receive_response).
THEOREM TypeCorrect == Spec => []TypeOK
<1>1. Init => TypeInv
  BY TypeInit
<1>2. TypeInv /\ [Next]_vars => TypeInv'
  BY TypeNext
<1>3. TypeInv => TypeOK
  BY DEF TypeInv
<1> QED BY <1>1, <1>2, <1>3, PTL DEF Spec

-----------------------------------------------------------------------------
(* In step *)

\* Where the two sides are while no byte has been damaged but under a CRC: the phases
\* of a call.  In all of them both know what the other one will read next.

RequestOf(c) == CommandBytes(SD_BLOCK_DEVICE, c.command, Params(c.sector))
HeaderOf(c) == CommandBytes(SD_BLOCK_DEVICE, c.command, <<>>)

RequestArrived(q) == q \in Seq(Byte) /\ NoMark(q) /\ Near(q, RequestOf(call), {3, 4})
HeaderArrived(q) == q \in Seq(Byte) /\ Near(q, HeaderOf(call), {3, 4})
DataArrived(data, q) == q \in Seq(Byte) /\ Near(q, DataBytes(data), {1, 2})

Refusals == Byte \ {STATUS_OK}

\* What the Pico may have to read yet of the call before: the refusal of a part of
\* its answer, or the receipt of the last part.
Stale(q) ==
    \/ ppc = "command" /\ q = <<>>
    \/ ppc = "ackCommand" /\ \E b \in Refusals : q = <<b>>
    \/ ppc = "ackData" /\ \E b \in Byte : q = <<b>>

Request == [NoPayload EXCEPT !.protocol = SD_BLOCK_DEVICE, !.command = call.command,
                             !.params = Params(call.sector)]
Whole == [Request EXCEPT !.data = call.data]

NotYet == executions = 0 /\ disk = before
Executed ==
    /\ executions = 1
    /\ call.command = READ_BLOCK => response = before[call.sector] /\ disk = before
    /\ call.command = WRITE_NO_VERIFY =>
          response = <<0>> /\ disk = [before EXCEPT ![call.sector] = call.data]

Under(where) == vpc = where /\ call \in Calls /\ outcome = "none"

Idle == vpc = "idle" /\ toVictor = <<>> /\ Stale(toPico) /\ executions <= 1

Asked ==
    /\ Under("commandStatus") /\ NotYet /\ toVictor = <<>>
    /\ \E s \in Seq(Byte), q \in Seq(Byte) : toPico = s \o q /\ Stale(s) /\ RequestArrived(q)
Granted == /\ Under("commandStatus") /\ NotYet /\ toVictor = <<STATUS_OK>> /\ toPico = <<>>
           /\ ppc = "data" /\ payload = Request
Refused == /\ Under("commandStatus") \/ Under("dataStatus")
           /\ NotYet /\ toPico = <<>> /\ ppc = "command"
           /\ \E b \in Refusals : toVictor = <<b>>
Sent == /\ Under("dataStatus") /\ NotYet /\ toVictor = <<>> /\ DataArrived(call.data, toPico)
        /\ ppc = "data" /\ payload = Request
Taken == /\ NotYet /\ toPico = <<>> /\ ppc = "dispatch" /\ payload = Whole
         /\ \/ Under("dataStatus") /\ toVictor = <<STATUS_OK>>
            \/ Under("response") /\ toVictor = <<>>
Answered == /\ Executed /\ toPico = <<>> /\ ppc = "ackCommand"
            /\ \/ /\ Under("dataStatus")
                  /\ \E q \in Seq(Byte) : toVictor = <<STATUS_OK>> \o q /\ HeaderArrived(q)
               \/ Under("response") /\ HeaderArrived(toVictor)
Agreed == /\ Under("responseData") /\ Executed
          /\ toPico = <<STATUS_OK>> /\ toVictor = <<>> /\ ppc = "ackCommand"
Delivered == /\ Under("responseData") /\ Executed
             /\ toPico = <<>> /\ DataArrived(response, toVictor) /\ ppc = "ackData"

Together ==
    \/ Idle \/ Asked \/ Granted \/ Refused \/ Sent \/ Taken \/ Answered \/ Agreed \/ Delivered
InStep == OnlyContent => Together

\* What a step out of step can send, by what it is.  Where it leads is up to what
\* arrives of it.
Asks ==
    /\ Under("commandStatus")' /\ NotYet' /\ toVictor' = <<>>
    /\ \E s \in Seq(Byte), q \in Seq(Byte) :
          toPico' = s \o q /\ Stale(s)' /\ Outcome(RequestOf(call'), "request", q)
JudgesCommand ==
    /\ Under("commandStatus")' /\ NotYet' /\ toPico' = <<>> /\ toVictor' \in Seq(Byte)
    /\ \/ /\ Outcome(<<STATUS_OK>>, "status", toVictor')
          /\ ppc' = "data" /\ payload' = Request'
       \/ Outcome(<<INVALID_CRC>>, "status", toVictor') /\ ppc' = "command"
SendsData ==
    /\ Under("dataStatus")' /\ NotYet' /\ toVictor' = <<>>
    /\ ppc' = "data" /\ payload' = Request'
    /\ toPico' \in Seq(Byte) /\ Outcome(DataBytes(call'.data), "data", toPico')
JudgesData ==
    /\ Under("dataStatus")' /\ NotYet' /\ toPico' = <<>> /\ toVictor' \in Seq(Byte)
    /\ \/ /\ Outcome(<<STATUS_OK>>, "receipt", toVictor')
          /\ ppc' = "dispatch" /\ payload' = Whole'
       \/ Outcome(<<INVALID_CRC>>, "receipt", toVictor') /\ ppc' = "command"
Responds ==
    /\ Executed' /\ toPico' = <<>> /\ ppc' = "ackCommand"
    /\ \E q \in Seq(Byte) :
          /\ Outcome(HeaderOf(call'), "header", q)
          /\ \/ Under("dataStatus")' /\ toVictor' = <<STATUS_OK>> \o q
             \/ Under("response")' /\ toVictor' = q
AcksHeader ==
    /\ toVictor' = <<>> /\ ppc' = "ackCommand" /\ toPico' \in Seq(Byte) /\ executions' = 1
    /\ \/ Outcome(<<STATUS_OK>>, "status", toPico') /\ Under("responseData")' /\ Executed'
       \/ Outcome(<<INVALID_CRC>>, "status", toPico') /\ vpc' = "idle"
Delivers ==
    /\ Under("responseData")' /\ Executed' /\ toPico' = <<>> /\ ppc' = "ackData"
    /\ toVictor' \in Seq(Byte) /\ Outcome(DataBytes(response'), "answer", toVictor')
AcksData ==
    /\ vpc' = "idle" /\ toVictor' = <<>> /\ ppc' = "ackData" /\ executions' = 1
    /\ toPico' \in Seq(Byte)
    /\ \E status \in {STATUS_OK, INVALID_CRC} : Outcome(<<status>>, "status", toPico')

Goes == \/ Asks \/ JudgesCommand \/ SendsData \/ JudgesData \/ Responds \/ AcksHeader
        \/ Delivers \/ AcksData
        \/ Together' /\ trouble' = trouble

LEMMA Fronted ==
    ASSUME NEW b \in Byte, NEW q \in Seq(Byte)
    PROVE  /\ <<b>> \o q \in Seq(Byte) /\ <<b>> \o q # <<>>
           /\ Head(<<b>> \o q) = b /\ Tail(<<b>> \o q) = q
           /\ <<b>> # <<>> /\ Head(<<b>>) = b /\ Tail(<<b>>) = <<>>
           /\ <<>> \o q = q
OBVIOUS

LEMMA StatusesDiffer ==
    /\ STATUS_OK # INVALID_CRC /\ SD_BLOCK_DEVICE # HANDSHAKE /\ READ_BLOCK # WRITE_NO_VERIFY
    /\ INVALID_CRC \in Refusals
BY DEF STATUS_OK, INVALID_CRC, SD_BLOCK_DEVICE, HANDSHAKE, READ_BLOCK, WRITE_NO_VERIFY, Refusals,
       Byte

LEMMA RefusalIs == ASSUME NEW b \in Refusals PROVE b \in Byte /\ b # STATUS_OK
BY DEF Refusals

LEMMA ProtocolIsByte == SD_BLOCK_DEVICE \in Byte
BY DEF SD_BLOCK_DEVICE, Byte

LEMMA NothingToRead ==
    /\ ~Complete(<<>>, 1) /\ ~Complete(<<>>, 3) /\ After(<<>>, Skipped(<<>>)) = <<>>
<1>1. Len(<<>>) = 0 /\ <<>> \in Seq(Byte)
  BY NoByte
<1>2. Skipped(<<>>) = 0
  BY <1>1, SkippedIs
<1>3. SubSeq(<<>>, 0 + 1, 0) = <<>>
  OBVIOUS
<1>4. After(<<>>, Skipped(<<>>)) = <<>>
  BY <1>1, <1>2, <1>3 DEF After
<1>5. ~(0 > 1) /\ ~(0 > 3)
  OBVIOUS
<1> QED BY <1>1, <1>4, <1>5 DEF Complete

LEMMA CallIs ==
    ASSUME NEW c \in Calls
    PROVE  /\ c.command \in {READ_BLOCK, WRITE_NO_VERIFY} /\ c.sector \in Sector
           /\ c.command = WRITE_NO_VERIFY => c.data \in Run
           /\ c.command \in Byte /\ c.sector \in Word /\ Sized(c.data)
           /\ Sized(Params(c.sector))
<1>1. c.command \in Byte /\ c.sector \in Word /\ Sized(c.data)
  BY CallIsBytes
<1>2. Sized(Params(c.sector))
  BY <1>1, ParamsAre
<1>3. ASSUME NEW s \in Sector, c = Read(s)
      PROVE  c.command = READ_BLOCK /\ c.sector \in Sector
  BY <1>3 DEF Read
<1>4. ASSUME NEW s \in Sector, NEW v \in Value, c = Write(s, v)
      PROVE  c.command = WRITE_NO_VERIFY /\ c.sector \in Sector /\ c.data \in Run
  <2>1. v \in Run
    BY ContentsAssumption DEF Run
  <2> QED BY <1>4, <2>1 DEF Write
<1> QED BY <1>1, <1>2, <1>3, <1>4, StatusesDiffer DEF Calls

\* The call and what has been executed of it are as they were.
SameCall == UNCHANGED <<call, executions, disk, before, response>>

LEMMA SameCallKeeps ==
    ASSUME SameCall
    PROVE  /\ NotYet => NotYet'
           /\ Executed => Executed'
           /\ Request' = Request /\ Whole' = Whole
           /\ RequestOf(call') = RequestOf(call) /\ HeaderOf(call') = HeaderOf(call)
           /\ \A q : RequestArrived(q) => RequestArrived(q)'
           /\ \A q : HeaderArrived(q) => HeaderArrived(q)'
           /\ \A q : DataArrived(call.data, q) => DataArrived(call.data, q)'
           /\ \A q : DataArrived(response, q) => DataArrived(response, q)'
BY DEF SameCall, NotYet, Executed, Request, Whole, RequestOf, HeaderOf, RequestArrived,
       HeaderArrived, DataArrived

LEMMA SameDriver ==
    ASSUME UNCHANGED victor
    PROVE  /\ UNCHANGED <<vpc, call, outcome, buffer, before>>
           /\ \A where : Under(where) => Under(where)'
           /\ Request' = Request /\ Whole' = Whole
           /\ RequestOf(call') = RequestOf(call) /\ HeaderOf(call') = HeaderOf(call)
BY DEF victor, Under, Request, Whole, RequestOf, HeaderOf

\* The packets of a call, as bytes.
LEMMA RequestIs ==
    ASSUME NEW p \in Byte, NEW c \in Byte, NEW params, Sized(params)
    PROVE  /\ CommandBytes(p, c, params) \in Seq(Byte) /\ CommandBytes(p, c, params)[1] = p
           /\ Len(CommandBytes(p, c, params)) = 5 + Len(params)
<1> DEFINE n == Len(params)
           m == CommandBytes(p, c, params)
           x == crc8(CommandMessage(p, c, params))
<1>1. /\ m \in Seq(Byte) /\ Len(m) = 5 + n
      /\ m[1] = p /\ m[2] = c /\ m[3] = High(n) /\ m[4] = Low(n)
      /\ \A i \in 1 .. n : m[4 + i] = params[i]
      /\ m[5 + n] = x
  BY CommandBytesAre
<1> HIDE DEF m, x
<1>2. m \in Seq(Byte) /\ m[1] = p /\ Len(m) = 5 + n
  BY <1>1
<1> QED BY <1>2 DEF m

LEMMA CallBytesAre ==
    ASSUME NEW c \in Calls
    PROVE  /\ RequestOf(c) \in Seq(Byte) /\ Len(RequestOf(c)) = 5 + PARAMS_SIZE
           /\ RequestOf(c) # <<>> /\ NoMark(RequestOf(c))
           /\ HeaderOf(c) \in Seq(Byte) /\ DataBytes(c.data) \in Seq(Byte)
<1>1. SD_BLOCK_DEVICE \in Byte /\ c.command \in Byte /\ Sized(c.data) /\ Sized(<<>>)
  BY CallIs, ProtocolIsByte, NoByte
<1>2. PICK p : p = Params(c.sector)
  OBVIOUS
<1>3. Sized(p) /\ Len(p) = PARAMS_SIZE
  BY <1>2, CallIs, ParamsAre
<1>4. RequestOf(c) = CommandBytes(SD_BLOCK_DEVICE, c.command, p)
  BY <1>2 DEF RequestOf
<1>5. RequestOf(c) \in Seq(Byte) /\ RequestOf(c)[1] = SD_BLOCK_DEVICE
      /\ Len(RequestOf(c)) = 5 + PARAMS_SIZE
  <2>1. PICK d : d = c.command
    OBVIOUS
  <2>2. SD_BLOCK_DEVICE \in Byte /\ d \in Byte /\ Sized(p)
    BY <1>1, <1>3, <2>1
  <2>3. /\ CommandBytes(SD_BLOCK_DEVICE, d, p) \in Seq(Byte)
        /\ CommandBytes(SD_BLOCK_DEVICE, d, p)[1] = SD_BLOCK_DEVICE
        /\ Len(CommandBytes(SD_BLOCK_DEVICE, d, p)) = 5 + Len(p)
    BY <2>2, RequestIs
  <2>4. RequestOf(c) = CommandBytes(SD_BLOCK_DEVICE, d, p)
    BY <1>4, <2>1
  <2> QED BY <1>3, <2>3, <2>4
<1>6. RequestOf(c) # <<>>
  <2>1. 5 + PARAMS_SIZE # 0
    BY DEF PARAMS_SIZE
  <2> QED BY <1>5, <2>1, NoByte
<1>7. HeaderOf(c) \in Seq(Byte)
  BY <1>1, CommandBytesAre DEF HeaderOf
<1>8. DataBytes(c.data) \in Seq(Byte)
  BY <1>1, DataBytesAre
<1> QED BY <1>5, <1>6, <1>7, <1>8, StatusesDiffer DEF NoMark

LEMMA CommandSent ==
    ASSUME TroubleOK, toPico \in Seq(Byte), NEW c \in Calls, call' = c, NEW rest,
           SendCommand(rest, c)
    PROVE  /\ toVictor' = rest
           /\ \E q \in Seq(Byte) :
                 toPico' = toPico \o q /\ Outcome(RequestOf(call'), "request", q)
<1>1. PICK bytes : bytes = CommandBytes(SD_BLOCK_DEVICE, c.command, Params(c.sector))
  OBVIOUS
<1>2. bytes \in Seq(Byte) /\ bytes = RequestOf(call')
  <2>1. bytes \in Seq(Byte)
    BY <1>1, CallIsBytes
  <2> QED BY <1>1, <2>1 DEF RequestOf
<1>3. toVictor' = rest /\ Arrives(toPico, bytes, "request", toPico')
  BY <1>1 DEF SendCommand
<1> QED BY <1>2, <1>3, SendsAre, ArrivesIs

\* A new call finds the Pico with at most one byte to read of the last one.
LEMMA DosCallAsks ==
    ASSUME TroubleOK, LineTypes, Idle, DosCall
    PROVE  Asks
<1>1. PICK c \in Calls : call' = c /\ SendCommand(toVictor, c)
  BY DEF DosCall
<1>2. PICK q \in Seq(Byte) : toPico' = toPico \o q /\ Outcome(RequestOf(call'), "request", q)
  BY <1>1, CommandSent DEF LineTypes
<1>3. toVictor' = <<>>
  BY <1>1, CommandSent DEF LineTypes, Idle
<1>4. Under("commandStatus")' /\ NotYet' /\ ppc' = ppc
  BY <1>1 DEF DosCall, Under, NotYet
<1>5. Stale(toPico) /\ toPico \in Seq(Byte)
  BY DEF Idle, LineTypes
<1>6. PICK s \in Seq(Byte) : s = toPico
  BY <1>5
<1>7. Stale(s)'
  BY <1>4, <1>5, <1>6 DEF Stale
<1> QED BY <1>2, <1>3, <1>4, <1>6, <1>7 DEF Asks

\* The driver sends the payload again, or gives up: the Pico has not executed it.
LEMMA RefusedGoes ==
    ASSUME TroubleOK, LineTypes, Refused, Retry, UNCHANGED <<call, buffer, calls, before, pico>>
    PROVE  Asks \/ (Idle' /\ trouble' = trouble)
<1>1. /\ call \in Calls /\ NotYet /\ toPico = <<>> /\ ppc = "command" /\ outcome = "none"
  BY DEF Refused, Under
<1>2. Tail(toVictor) = <<>>
  <2>1. PICK b \in Refusals : toVictor = <<b>>
    BY DEF Refused
  <2> QED BY <2>1, NoByte, Fronted, RefusalIs
<1>3. SameCall /\ ppc' = "command"
  BY <1>1 DEF SameCall, pico
<1>4. CASE AttemptsLeft
  <2>1. SendCommand(<<>>, call) /\ vpc' = "commandStatus" /\ outcome' = "none"
    BY <1>1, <1>2, <1>4 DEF Retry
  <2>2. /\ toVictor' = <<>>
        /\ \E q \in Seq(Byte) : toPico' = toPico \o q /\ Outcome(RequestOf(call'), "request", q)
    BY <1>1, <1>3, <2>1, CommandSent DEF LineTypes, SameCall
  <2>3. Stale(<<>>)' /\ <<>> \in Seq(Byte)
    BY <1>3, NoByte DEF Stale
  <2>4. NotYet' /\ Under("commandStatus")'
    BY <1>1, <1>3, <2>1 DEF Under, SameCall, NotYet
  <2> QED BY <1>1, <2>2, <2>3, <2>4 DEF Asks
<1>5. CASE ~AttemptsLeft
  <2>1. Returned("ERROR") /\ toVictor' = <<>> /\ toPico' = <<>> /\ trouble' = trouble
    BY <1>1, <1>2, <1>5 DEF Retry
  <2>2. executions' <= 1
    BY <1>1, <1>3 DEF NotYet, SameCall
  <2> QED BY <1>3, <2>1, <2>2 DEF Idle, Stale, Returned
<1> QED BY <1>4, <1>5

LEMMA VictorCommandStatusGoes ==
    ASSUME TroubleOK, LineTypes, Together, VictorCommandStatus
    PROVE  Goes
<1>1. UNCHANGED <<call, buffer, calls, before, pico>> /\ SameCall
  BY DEF VictorCommandStatus, SameCall, pico
<1>2. Granted \/ Refused
  BY DEF VictorCommandStatus, Together, Idle, Asked, Sent, Taken, Answered, Agreed, Delivered, Under
<1>3. CASE Granted
  <2>1. /\ call \in Calls /\ NotYet /\ toVictor = <<STATUS_OK>> /\ toPico = <<>>
        /\ ppc = "data" /\ payload = Request /\ outcome = "none"
    BY <1>3 DEF Granted, Under
  <2>2. Head(toVictor) = STATUS_OK /\ Tail(toVictor) = <<>>
    BY <2>1, NoByte, Fronted, StatusesAreBytes
  <2>3. /\ toVictor' = <<>> /\ Arrives(toPico, DataBytes(call.data), "data", toPico')
        /\ vpc' = "dataStatus" /\ outcome' = "none"
    BY <2>1, <2>2 DEF VictorCommandStatus
  <2>4. DataBytes(call.data) \in Seq(Byte)
    BY <2>1, CallIsBytes
  <2>5. PICK q \in Seq(Byte) : toPico' = toPico \o q /\ Outcome(DataBytes(call.data), "data", q)
    BY <2>3, <2>4, SendsAre, ArrivesIs DEF LineTypes
  <2>6. toPico' = q
    BY <2>1, <2>5, Fronted, StatusesAreBytes
  <2>7. NotYet' /\ Request' = Request /\ Under("dataStatus")' /\ call' = call
    BY <1>1, <2>1, <2>3, SameCallKeeps DEF Under, SameCall
  <2>8. ppc' = "data" /\ payload' = Request
    BY <1>1, <2>1 DEF pico
  <2>9. toPico' \in Seq(Byte) /\ Outcome(DataBytes(call'.data), "data", toPico')
    BY <2>5, <2>6, <2>7
  <2> QED BY <2>3, <2>7, <2>8, <2>9 DEF SendsData, Goes
<1>4. CASE Refused
  <2>1. Head(toVictor) # STATUS_OK
    BY <1>4, NoByte, Fronted, RefusalIs DEF Refused
  <2>2. Retry
    BY <2>1 DEF VictorCommandStatus
  <2> QED BY <1>1, <1>4, <2>2, RefusedGoes DEF Goes, Together
<1> QED BY <1>2, <1>3, <1>4

LEMMA VictorDataStatusGoes ==
    ASSUME TroubleOK, LineTypes, Together, VictorDataStatus
    PROVE  Goes
<1>1. UNCHANGED <<call, buffer, calls, before, pico>> /\ SameCall
  BY DEF VictorDataStatus, SameCall, pico
<1>2. /\ Refused \/ Taken \/ Answered
      /\ vpc = "dataStatus" /\ toVictor # <<>>
  BY DEF VictorDataStatus, Together, Idle, Asked, Granted, Sent, Agreed, Delivered, Under
<1>4. CASE Refused
  <2>1. Head(toVictor) # STATUS_OK
    BY <1>4, NoByte, Fronted, RefusalIs DEF Refused
  <2>2. Retry
    BY <2>1 DEF VictorDataStatus
  <2> QED BY <1>1, <1>4, <2>2, RefusedGoes DEF Goes, Together
<1>5. CASE Taken
  <2>1. /\ NotYet /\ toPico = <<>> /\ ppc = "dispatch" /\ payload = Whole
        /\ Under("dataStatus") /\ toVictor = <<STATUS_OK>>
    BY <1>2, <1>5 DEF Taken, Under
  <2>2. Head(toVictor) = STATUS_OK /\ Tail(toVictor) = <<>>
    BY <2>1, NoByte, Fronted, StatusesAreBytes
  <2>3. /\ toVictor' = <<>> /\ vpc' = "response" /\ toPico' = <<>> /\ outcome' = outcome
        /\ trouble' = trouble
    BY <2>1, <2>2 DEF VictorDataStatus
  <2>4. ppc' = "dispatch" /\ payload' = Whole
    BY <1>1, <2>1 DEF pico
  <2>5. NotYet' /\ Whole' = Whole /\ Under("response")'
    BY <1>1, <2>1, <2>3, SameCallKeeps DEF Under, SameCall
  <2> QED BY <2>3, <2>4, <2>5 DEF Taken, Together, Goes
<1>6. CASE Answered
  <2>1. Executed /\ toPico = <<>> /\ ppc = "ackCommand" /\ Under("dataStatus")
    BY <1>2, <1>6 DEF Answered, Under
  <2>2. PICK q \in Seq(Byte) : toVictor = <<STATUS_OK>> \o q /\ HeaderArrived(q)
    BY <1>2, <1>6 DEF Answered, Under
  <2>3. Head(toVictor) = STATUS_OK /\ Tail(toVictor) = q
    BY <2>2, Fronted, StatusesAreBytes
  <2>4. toVictor' = q /\ vpc' = "response" /\ toPico' = <<>> /\ outcome' = outcome
        /\ trouble' = trouble
    BY <2>1, <2>3 DEF VictorDataStatus
  <2>5. ppc' = "ackCommand"
    BY <1>1, <2>1 DEF pico
  <2>6. Executed' /\ Under("response")'
    BY <1>1, <2>1, <2>4, SameCallKeeps DEF Under, SameCall
  <2>7. HeaderArrived(toVictor)'
    BY <1>1, <2>2, <2>4, SameCallKeeps DEF HeaderArrived
  <2> QED BY <2>4, <2>5, <2>6, <2>7 DEF Answered, Together, Goes
<1> QED BY <1>2, <1>4, <1>5, <1>6

\* One status into an empty queue.
LEMMA OneStatus ==
    ASSUME TroubleOK, NEW status \in Byte, NEW what \in Sends, NEW after,
           Arrives(<<>>, <<status>>, what, after)
    PROVE  after \in Seq(Byte) /\ Outcome(<<status>>, what, after)
<1>1. <<status>> \in Seq(Byte) /\ <<>> \in Seq(Byte)
  BY OneByte, NoByte
<1>2. PICK q \in Seq(Byte) : after = <<>> \o q /\ Outcome(<<status>>, what, q)
  BY <1>1, ArrivesIs
<1>3. after = q
  BY <1>2, Fronted, StatusesAreBytes
<1> QED BY <1>2, <1>3

LEMMA VictorResponseGoes ==
    ASSUME TroubleOK, LineTypes, Together, VictorResponse
    PROVE  AcksHeader
<1> DEFINE end  == CrcAt(toVictor, 3)
           good == ValidCommand(toVictor[1], toVictor[2], Body(toVictor, 3), toVictor[end])
<1>1. /\ vpc = "response" /\ Complete(toVictor, 3)
      /\ Answer(After(toVictor, end), IF good THEN STATUS_OK ELSE INVALID_CRC)
      /\ IF good THEN vpc' = "responseData" /\ UNCHANGED outcome ELSE Returned("ERROR")
      /\ UNCHANGED <<call, attempt, buffer, calls, before, pico>>
  BY DEF VictorResponse
<1>2. SameCall /\ ppc' = ppc
  BY <1>1 DEF SameCall, pico
<1>3. Answered
  BY <1>1, NothingToRead
     DEF Together, Idle, Asked, Granted, Refused, Sent, Taken, Agreed, Delivered, Under
<1>4. /\ call \in Calls /\ outcome = "none" /\ Executed /\ toPico = <<>> /\ ppc = "ackCommand"
      /\ HeaderArrived(toVictor)
  BY <1>1, <1>3 DEF Answered, Under
<1>5. After(toVictor, end) = <<>>
  <2>1. SD_BLOCK_DEVICE \in Byte /\ call.command \in Byte /\ Sized(<<>>)
    BY <1>4, CallIs, NoByte, ProtocolIsByte
  <2> QED BY <1>4, <2>1, ReadCommand DEF HeaderArrived, HeaderOf
<1> HIDE DEF end, good
<1>6. Executed' /\ executions' = 1 /\ ppc' = "ackCommand"
  BY <1>2, <1>4, SameCallKeeps DEF Executed, SameCall
<1>7. CASE good
  <2>1. Under("responseData")'
    BY <1>1, <1>4, <1>7 DEF Under
  <2>2. toVictor' = <<>> /\ Arrives(<<>>, <<STATUS_OK>>, "status", toPico')
    BY <1>1, <1>4, <1>5, <1>7 DEF Answer
  <2>3. toPico' \in Seq(Byte) /\ Outcome(<<STATUS_OK>>, "status", toPico')
    BY <2>2, OneStatus, SendsAre, StatusesAreBytes
  <2> QED BY <1>6, <2>1, <2>2, <2>3 DEF AcksHeader
<1>8. CASE ~good
  <2>1. vpc' = "idle"
    BY <1>1, <1>8 DEF Returned
  <2>2. toVictor' = <<>> /\ Arrives(<<>>, <<INVALID_CRC>>, "status", toPico')
    BY <1>1, <1>4, <1>5, <1>8 DEF Answer
  <2>3. toPico' \in Seq(Byte) /\ Outcome(<<INVALID_CRC>>, "status", toPico')
    BY <2>2, OneStatus, SendsAre, StatusesAreBytes
  <2> QED BY <1>6, <2>1, <2>2, <2>3 DEF AcksHeader
<1> QED BY <1>7, <1>8

\* What the driver takes to be right are the data of the answer.
LEMMA VictorResponseDataGoes ==
    ASSUME TroubleOK, PicoTypes, LineTypes, Together, VictorResponseData
    PROVE  /\ AcksData /\ Delivered
           /\ outcome' = "DONE" => buffer' = Stored(response)
           /\ outcome' \in {"DONE", "ERROR"} /\ SameCall
<1> DEFINE end  == CrcAt(toVictor, 1)
           good == ValidData(Body(toVictor, 1), toVictor[end])
<1>1. /\ vpc = "responseData" /\ Complete(toVictor, 1)
      /\ buffer' = Stored(Body(toVictor, 1))
      /\ Answer(After(toVictor, end), IF good THEN STATUS_OK ELSE INVALID_CRC)
      /\ vpc' = "idle" /\ outcome' = IF good THEN "DONE" ELSE "ERROR"
      /\ UNCHANGED <<call, attempt, calls, before, pico>>
  BY DEF VictorResponseData, Returned, Verdict
<1>2. SameCall /\ ppc' = ppc
  BY <1>1 DEF SameCall, pico
<1>3. Delivered
  BY <1>1, NothingToRead
     DEF Together, Idle, Asked, Granted, Refused, Sent, Taken, Answered, Agreed, Under
<1>4. /\ call \in Calls /\ Executed /\ toPico = <<>> /\ ppc = "ackData"
      /\ DataArrived(response, toVictor)
  BY <1>3 DEF Delivered, Under
<1>5. Sized(response)
  BY DEF PicoTypes
<1>6. After(toVictor, end) = <<>> /\ (good => Body(toVictor, 1) = response)
  BY <1>4, <1>5, ReadData DEF DataArrived
<1> HIDE DEF end, good
<1>7. PICK status \in {STATUS_OK, INVALID_CRC} : status = IF good THEN STATUS_OK ELSE INVALID_CRC
  OBVIOUS
<1>8. toVictor' = <<>> /\ Arrives(<<>>, <<status>>, "status", toPico')
  BY <1>1, <1>4, <1>6, <1>7 DEF Answer
<1>9. toPico' \in Seq(Byte) /\ Outcome(<<status>>, "status", toPico')
  BY <1>7, <1>8, OneStatus, SendsAre, StatusesAreBytes
<1>10. executions' = 1 /\ ppc' = "ackData"
  BY <1>2, <1>4 DEF Executed, SameCall
<1>11. AcksData
  BY <1>1, <1>7, <1>8, <1>9, <1>10 DEF AcksData
<1> QED BY <1>1, <1>2, <1>3, <1>6, <1>11

LEMMA PicoCommandGoes ==
    ASSUME TroubleOK, LineTypes, Together, PicoCommand
    PROVE  JudgesCommand /\ Asked
<1>1. PICK q : q = After(toPico, Skipped(toPico))
  OBVIOUS
<1> DEFINE end  == CrcAt(q, 3)
           good == ValidCommand(q[1], q[2], Body(q, 3), q[end])
<1>2. /\ ppc = "command" /\ Complete(q, 3)
      /\ PicoStatus(After(q, end), IF good THEN STATUS_OK ELSE INVALID_CRC, "status")
      /\ ppc' = IF good THEN "data" ELSE "command"
      /\ payload' = IF good THEN [NoPayload EXCEPT !.protocol = q[1], !.command = q[2],
                                                   !.params = Body(q, 3)]
                            ELSE NoPayload
      /\ UNCHANGED <<response, leaked, disk, executions, victor>>
  BY <1>1 DEF PicoCommand
<1>3. toPico # <<>>
  BY <1>1, <1>2, NothingToRead
<1>4. Asked
  BY <1>2, <1>3
     DEF Together, Idle, Stale, Granted, Refused, Sent, Taken, Answered, Agreed, Delivered
<1>5. /\ Under("commandStatus") /\ NotYet /\ toVictor = <<>> /\ call \in Calls
      /\ RequestArrived(toPico)
  <2>1. PICK s \in Seq(Byte), r \in Seq(Byte) : toPico = s \o r /\ Stale(s) /\ RequestArrived(r)
    BY <1>4 DEF Asked
  <2>2. s = <<>>
    BY <1>2, <2>1 DEF Stale
  <2>3. toPico = r
    BY <2>1, <2>2, Fronted, StatusesAreBytes
  <2> QED BY <1>4, <2>1, <2>3 DEF Asked, Under
<1>6. q = toPico
  <2>1. toPico \in Seq(Byte) /\ toPico[1] # HANDSHAKE
    BY <1>5 DEF RequestArrived, NoMark
  <2>2. Skipped(toPico) = 0
    BY <2>1, SkippedIs
  <2>3. SubSeq(toPico, 0 + 1, Len(toPico)) = toPico
    BY <2>1
  <2> QED BY <1>1, <2>2, <2>3 DEF After
<1>7. /\ After(q, end) = <<>>
      /\ good => q[1] = SD_BLOCK_DEVICE /\ q[2] = call.command /\ Body(q, 3) = Params(call.sector)
  <2>1. SD_BLOCK_DEVICE \in Byte /\ call.command \in Byte /\ Sized(Params(call.sector))
    BY <1>5, CallIs, ProtocolIsByte
  <2> QED BY <1>5, <1>6, <2>1, ReadCommand DEF RequestArrived, RequestOf
<1> HIDE DEF end, good
<1>8. NotYet' /\ Under("commandStatus")' /\ Request' = Request
  BY <1>2, <1>5, SameDriver DEF NotYet
<1>9. CASE good
  <2>1. payload' = Request /\ ppc' = "data"
    BY <1>2, <1>7, <1>9 DEF Request
  <2>2. toPico' = <<>> /\ Arrives(<<>>, <<STATUS_OK>>, "status", toVictor')
    BY <1>2, <1>5, <1>7, <1>9 DEF PicoStatus
  <2>3. toVictor' \in Seq(Byte) /\ Outcome(<<STATUS_OK>>, "status", toVictor')
    BY <2>2, OneStatus, SendsAre, StatusesAreBytes
  <2> QED BY <1>4, <1>8, <2>1, <2>2, <2>3 DEF JudgesCommand
<1>10. CASE ~good
  <2>1. ppc' = "command"
    BY <1>2, <1>10
  <2>2. toPico' = <<>> /\ Arrives(<<>>, <<INVALID_CRC>>, "status", toVictor')
    BY <1>2, <1>5, <1>7, <1>10 DEF PicoStatus
  <2>3. toVictor' \in Seq(Byte) /\ Outcome(<<INVALID_CRC>>, "status", toVictor')
    BY <2>2, OneStatus, SendsAre, StatusesAreBytes
  <2> QED BY <1>4, <1>8, <2>1, <2>2, <2>3 DEF JudgesCommand
<1> QED BY <1>9, <1>10

LEMMA PicoDataGoes ==
    ASSUME TroubleOK, LineTypes, Together, PicoData
    PROVE  JudgesData
<1> DEFINE end  == CrcAt(toPico, 1)
           good == ValidData(Body(toPico, 1), toPico[end])
<1>1. /\ ppc = "data" /\ Complete(toPico, 1)
      /\ PicoStatus(After(toPico, end), IF good THEN STATUS_OK ELSE INVALID_CRC, "receipt")
      /\ ppc' = IF good THEN "dispatch" ELSE "command"
      /\ payload' = IF good THEN [payload EXCEPT !.data = Body(toPico, 1)] ELSE NoPayload
      /\ UNCHANGED <<response, leaked, disk, executions, victor>>
  BY DEF PicoData
<1>2. Sent
  <2>1. ~Idle /\ ~Asked
    BY <1>1 DEF Idle, Asked, Stale
  <2> QED BY <1>1, <2>1, NothingToRead
          DEF Together, Granted, Refused, Taken, Answered, Agreed, Delivered
<1>3. /\ Under("dataStatus") /\ NotYet /\ toVictor = <<>> /\ call \in Calls
      /\ DataArrived(call.data, toPico) /\ payload = Request
  BY <1>2 DEF Sent, Under
<1>4. After(toPico, end) = <<>> /\ (good => Body(toPico, 1) = call.data)
  <2>1. Sized(call.data)
    BY <1>3, CallIs
  <2> QED BY <1>3, <2>1, ReadData DEF DataArrived
<1> HIDE DEF end, good
<1>5. NotYet' /\ Under("dataStatus")' /\ Whole' = Whole
  BY <1>1, <1>3, SameDriver DEF NotYet
<1>6. CASE good
  <2>1. payload' = Whole /\ ppc' = "dispatch"
    BY <1>1, <1>3, <1>4, <1>6 DEF Whole
  <2>2. toPico' = <<>> /\ Arrives(<<>>, <<STATUS_OK>>, "receipt", toVictor')
    BY <1>1, <1>3, <1>4, <1>6 DEF PicoStatus
  <2>3. toVictor' \in Seq(Byte) /\ Outcome(<<STATUS_OK>>, "receipt", toVictor')
    BY <2>2, OneStatus, SendsAre, StatusesAreBytes
  <2> QED BY <1>5, <2>1, <2>2, <2>3 DEF JudgesData
<1>7. CASE ~good
  <2>1. ppc' = "command"
    BY <1>1, <1>7
  <2>2. toPico' = <<>> /\ Arrives(<<>>, <<INVALID_CRC>>, "receipt", toVictor')
    BY <1>1, <1>3, <1>4, <1>7 DEF PicoStatus
  <2>3. toVictor' \in Seq(Byte) /\ Outcome(<<INVALID_CRC>>, "receipt", toVictor')
    BY <2>2, OneStatus, SendsAre, StatusesAreBytes
  <2> QED BY <1>5, <2>1, <2>2, <2>3 DEF JudgesData
<1> QED BY <1>6, <1>7

\* The parameters of a call of DOS are whole, and lead to its run.
LEMMA CallIsReached ==
    ASSUME NEW c \in Calls, NEW h \in Heap
    PROVE  LET b == Behind(Params(c.sector), PARAMS_SIZE, h)
           IN  b[PARAMS_SIZE] = Unit /\ Reached(b) = {c.sector}
<1>1. c.sector \in Sector /\ \A s \in Sector : s \in Word
  BY CallIs, BytesAssumption DEF Word
<1>2. /\ Params(c.sector) \in Seq(Byte) /\ Len(Params(c.sector)) = PARAMS_SIZE
      /\ Params(c.sector)[PARAMS_SIZE] = Unit
      /\ \A s \in Sector : Params(c.sector) = Params(s) => s = c.sector
  BY <1>1, ParamsAre
<1>3. Behind(Params(c.sector), PARAMS_SIZE, h) = Params(c.sector)
  BY <1>2, HeapBehind
<1>4. Reached(Params(c.sector)) = {c.sector}
  BY <1>1, <1>2 DEF Reached
<1> QED BY <1>2, <1>3, <1>4

\* A request that has been read right is executed once, and as it was asked.
LEMMA WholeIsExecuted ==
    ASSUME PicoTypes, call \in Calls, NotYet, payload = Whole, PicoDispatch
    PROVE  /\ payload.protocol = SD_BLOCK_DEVICE /\ payload.command = call.command
           /\ Executed'
<1>1. executions' = executions + 1 /\ UNCHANGED victor
  BY DEF PicoDispatch
<1>2. executions = 0 /\ disk = before
  BY DEF NotYet
<1>3. /\ payload.protocol = SD_BLOCK_DEVICE /\ payload.command = call.command
      /\ payload.params = Params(call.sector) /\ payload.data = call.data
  BY DEF Whole, Request, NoPayload
<1>4. /\ call.command \in {READ_BLOCK, WRITE_NO_VERIFY} /\ call.sector \in Sector
      /\ READ_BLOCK # WRITE_NO_VERIFY
      /\ call.command = WRITE_NO_VERIFY => call.data \in Run
  BY CallIs, StatusesDiffer
<1>5. PICK h \in Heap : \E s \in Reached(Behind(payload.params, PARAMS_SIZE, h)) :
          response' = ResponseTo(payload, s) /\ disk' = Applied(payload, s, h)
  BY DEF PicoDispatch
<1>6. /\ response' = ResponseTo(payload, call.sector)
      /\ disk' = Applied(payload, call.sector, h)
  <2>1. Reached(Behind(Params(call.sector), PARAMS_SIZE, h)) = {call.sector}
    BY CallIsReached
  <2> QED BY <1>3, <1>5, <2>1
<1>7. executions' = 1 /\ call' = call /\ before' = before
  BY <1>1, <1>2, SameDriver
<1>8. CASE call.command = READ_BLOCK
  <2>1. IsRead(payload) /\ ~IsWrite(payload)
    BY <1>3, <1>8 DEF IsRead, IsWrite, READ_BLOCK, WRITE_NO_VERIFY, WRITE_VERIFY
  <2>2. response' = disk[call.sector]
    BY <1>4, <1>6, <2>1 DEF ResponseTo
  <2>3. disk' = disk
    BY <1>6, <2>1 DEF Applied
  <2> QED BY <1>2, <1>3, <1>4, <1>7, <1>8, <2>2, <2>3 DEF Executed
<1>9. CASE call.command = WRITE_NO_VERIFY
  <2>1. ~IsRead(payload) /\ IsWrite(payload)
    BY <1>3, <1>9 DEF IsRead, IsWrite, READ_BLOCK, WRITE_NO_VERIFY, WRITE_VERIFY
  <2>2. response' = <<0>>
    BY <1>6, <2>1 DEF ResponseTo
  <2>3. Behind(payload.data, DataSize, h) = call.data
    BY <1>3, <1>4, <1>9, HeapBehind, RunIsSized
  <2>4. disk' = [disk EXCEPT ![call.sector] = call.data]
    BY <1>4, <1>6, <2>1, <2>3 DEF Applied
  <2> QED BY <1>2, <1>3, <1>4, <1>7, <1>9, <2>2, <2>4 DEF Executed
<1> QED BY <1>3, <1>4, <1>8, <1>9

LEMMA PicoDispatchGoes ==
    ASSUME TroubleOK, PicoTypes, LineTypes, Together, PicoDispatch
    PROVE  Responds /\ Taken
<1>1. /\ ppc = "dispatch" /\ executions' = executions + 1
      /\ Arrives(toVictor, CommandBytes(payload.protocol, payload.command, <<>>),
                 "header", toVictor')
      /\ ppc' = "ackCommand" /\ toPico' = toPico /\ UNCHANGED victor
  BY DEF PicoDispatch
<1>2. Taken
  <2>1. ~Idle /\ ~Asked
    BY <1>1 DEF Idle, Asked, Stale
  <2> QED BY <1>1, <2>1 DEF Together, Granted, Refused, Sent, Answered, Agreed, Delivered
<1>3. /\ NotYet /\ toPico = <<>> /\ payload = Whole /\ call \in Calls
      /\ \/ Under("dataStatus") /\ toVictor = <<STATUS_OK>>
         \/ Under("response") /\ toVictor = <<>>
  BY <1>2 DEF Taken, Under
<1>4. /\ payload.protocol = SD_BLOCK_DEVICE /\ payload.command = call.command
      /\ Executed'
  BY <1>3, WholeIsExecuted
<1>5. Arrives(toVictor, HeaderOf(call), "header", toVictor')
  BY <1>1, <1>4 DEF HeaderOf
<1>6. PICK q \in Seq(Byte) : toVictor' = toVictor \o q /\ Outcome(HeaderOf(call), "header", q)
  BY <1>3, <1>5, CallBytesAre, SendsAre, ArrivesIs DEF LineTypes
<1>7. HeaderOf(call') = HeaderOf(call)
  BY <1>1, SameDriver
<1>8. CASE Under("dataStatus") /\ toVictor = <<STATUS_OK>>
  <2>1. Under("dataStatus")' /\ toVictor' = <<STATUS_OK>> \o q
    BY <1>1, <1>6, <1>8, SameDriver
  <2>2. Outcome(HeaderOf(call'), "header", q)
    BY <1>6, <1>7
  <2> QED BY <1>1, <1>2, <1>3, <1>4, <2>1, <2>2 DEF Responds
<1>9. CASE Under("response") /\ toVictor = <<>>
  <2>1. toVictor' = q
    BY <1>6, <1>9, Fronted, StatusesAreBytes
  <2>2. Under("response")'
    BY <1>1, <1>9, SameDriver
  <2>3. Outcome(HeaderOf(call'), "header", q)
    BY <1>6, <1>7
  <2> QED BY <1>1, <1>2, <1>3, <1>4, <2>1, <2>2, <2>3 DEF Responds
<1> QED BY <1>3, <1>8, <1>9

\* What is left of the call before is read, and is not taken for the answer's receipt.
LEMMA StaleIsRead ==
    ASSUME LineTypes, Idle \/ Asked, PicoAckCommand \/ PicoAckData
    PROVE  Together' /\ trouble' = trouble
<1>1. /\ ppc \in {"ackCommand", "ackData"} /\ toPico' = Tail(toPico)
      /\ UNCHANGED <<disk, executions, victor>>
  BY DEF PicoAckCommand, PicoAckData
<1>2. ASSUME NEW s, Stale(s)
      PROVE  \E b \in Byte : s = <<b>> /\ (ppc = "ackCommand" => b # STATUS_OK)
  BY <1>1, <1>2 DEF Stale, Refusals
<1>3. ASSUME ppc = "ackCommand" => Head(toPico) # STATUS_OK
      PROVE  ppc' = "command" /\ toVictor' = toVictor /\ Stale(<<>>)' /\ trouble' = trouble
  BY <1>1, <1>3 DEF PicoAckCommand, PicoAckData, AfterRefusal, Stale
<1>4. CASE Idle
  <2>1. /\ vpc = "idle" /\ toVictor = <<>> /\ executions <= 1 /\ Stale(toPico)
    BY <1>4 DEF Idle
  <2>2. Tail(toPico) = <<>> /\ (ppc = "ackCommand" => Head(toPico) # STATUS_OK)
    <3>1. PICK b \in Byte : toPico = <<b>> /\ (ppc = "ackCommand" => b # STATUS_OK)
      BY <1>2, <2>1
    <3> QED BY <3>1, Fronted, NoByte
  <2>3. vpc' = "idle" /\ executions' <= 1 /\ toPico' = <<>>
    BY <1>1, <2>1, <2>2, SameDriver
  <2> QED BY <1>3, <2>1, <2>2, <2>3 DEF Idle, Together
<1>5. CASE Asked
  <2>1. Under("commandStatus") /\ NotYet /\ toVictor = <<>>
    BY <1>5 DEF Asked
  <2>2. PICK s \in Seq(Byte), q \in Seq(Byte) : toPico = s \o q /\ Stale(s) /\ RequestArrived(q)
    BY <1>5 DEF Asked
  <2>3. Tail(toPico) = q /\ (ppc = "ackCommand" => Head(toPico) # STATUS_OK)
    <3>1. PICK b \in Byte : s = <<b>> /\ (ppc = "ackCommand" => b # STATUS_OK)
      BY <1>2, <2>2
    <3> QED BY <2>2, <3>1, Fronted
  <2>4. toPico' = <<>> \o q
    BY <1>1, <2>3, Fronted, StatusesAreBytes
  <2>5. RequestArrived(q)'
    BY <1>1, <2>2, SameDriver DEF RequestArrived
  <2>6. Under("commandStatus")' /\ NotYet'
    BY <1>1, <2>1, SameDriver DEF NotYet
  <2>7. <<>> \in Seq(Byte) /\ Stale(<<>>)' /\ toVictor' = <<>> /\ trouble' = trouble
    BY <1>3, <2>1, <2>3, NoByte
  <2> QED BY <2>4, <2>5, <2>6, <2>7 DEF Asked, Together
<1> QED BY <1>4, <1>5

LEMMA PicoAckCommandGoes ==
    ASSUME TroubleOK, PicoTypes, LineTypes, Together, PicoAckCommand
    PROVE  Goes
<1>1. ppc = "ackCommand" /\ toPico # <<>> /\ UNCHANGED <<leaked, disk, executions, victor>>
  BY DEF PicoAckCommand
<1>2. Idle \/ Asked \/ Agreed
  BY <1>1 DEF Together, Granted, Refused, Sent, Taken, Answered, Delivered
<1>3. CASE Agreed
  <2>1. /\ Under("responseData") /\ Executed /\ toPico = <<STATUS_OK>> /\ toVictor = <<>>
    BY <1>3 DEF Agreed
  <2>2. Head(toPico) = STATUS_OK /\ Tail(toPico) = <<>>
    BY <2>1, Fronted, NoByte, StatusesAreBytes
  <2>3. /\ toPico' = <<>> /\ Arrives(toVictor, DataBytes(response), "answer", toVictor')
        /\ ppc' = "ackData" /\ response' = response
    BY <2>2 DEF PicoAckCommand
  <2>4. DataBytes(response) \in Seq(Byte)
    BY DataBytesAre DEF PicoTypes
  <2>5. PICK q \in Seq(Byte) : toVictor' = toVictor \o q /\ Outcome(DataBytes(response), "answer", q)
    BY <2>3, <2>4, SendsAre, ArrivesIs DEF LineTypes
  <2>6. toVictor' = q
    BY <2>1, <2>5, Fronted, StatusesAreBytes
  <2>7. toVictor' \in Seq(Byte) /\ Outcome(DataBytes(response'), "answer", toVictor')
    BY <2>3, <2>5, <2>6
  <2>8. Executed' /\ Under("responseData")'
    BY <1>1, <2>1, <2>3, SameDriver DEF Executed
  <2> QED BY <2>3, <2>7, <2>8 DEF Delivers, Goes
<1> QED BY <1>2, <1>3, StaleIsRead DEF Goes

LEMMA PicoAckDataGoes ==
    ASSUME LineTypes, Together, PicoAckData
    PROVE  Together' /\ trouble' = trouble
<1>1. ppc = "ackData" /\ toPico # <<>>
  BY DEF PicoAckData
<1>2. Idle \/ Asked
  BY <1>1 DEF Together, Granted, Refused, Sent, Taken, Answered, Agreed, Delivered
<1> QED BY <1>2, StaleIsRead

\* The unit of a call is there, and the Pico has started.
LEMMA NoHandshake ==
    ASSUME Together
    PROVE  ppc \notin {"handshake", "stopped"} /\ ~NoSuchUnit
<1>1. ppc \notin {"handshake", "stopped"}
  BY DEF Together, Idle, Asked, Stale, Granted, Refused, Sent, Taken, Answered, Agreed, Delivered
<1>2. ASSUME NoSuchUnit PROVE FALSE
  <2>1. Taken
    BY <1>2 DEF NoSuchUnit, Together, Idle, Asked, Stale, Granted, Refused, Sent, Answered,
                Agreed, Delivered
  <2>2. call \in Calls /\ payload.params = Params(call.sector)
    BY <2>1 DEF Taken, Under, Whole, Request, NoPayload
  <2>3. PICK h \in Heap : Behind(payload.params, PARAMS_SIZE, h)[PARAMS_SIZE] # Unit
    BY <1>2 DEF NoSuchUnit
  <2> QED BY <2>2, <2>3, CallIsReached
<1> QED BY <1>1, <1>2

\* But for a unit that is not there, a failure is a trouble of its own kind.
LEMMA FailuresStrike ==
    ASSUME TroubleOK, Failures
    PROVE  /\ NoPayloadMemory => Struck("memory")
           /\ ~NoPayloadMemory /\ ~NoSuchUnit =>
                 \E e \in {"framing", "null", "reset"} : Struck(e)
           /\ NoSuchUnit => trouble' = trouble
<1>1. "memory" \in Kinds /\ \A e \in {"framing", "null", "reset"} : e \in Kinds
  BY DEF Kinds
<1>2. NoPayloadMemory => Strike(<<"memory">>)
  BY DEF NoPayloadMemory
<1>3. NoBuffer \/ NoAnswerMemory \/ PicoResets =>
         \E e \in {"framing", "null", "reset"} : Strike(<<e>>)
  BY DEF NoBuffer, NoAnswerMemory, PicoResets
<1>4. NoSuchUnit => trouble' = trouble
  BY DEF NoSuchUnit
<1> QED BY <1>1, <1>2, <1>3, <1>4, StrikeKeeps DEF Failures

\* All that can happen while both are together.
LEMMA TogetherGoes ==
    ASSUME TypeInv, Together, [Next]_vars
    PROVE  Goes \/ (Failures /\ ~NoSuchUnit)
<1>1. VictorTypes /\ PicoTypes /\ LineTypes /\ TroubleOK
  BY TypeParts
<1>2. CASE UNCHANGED vars
  <2>2. /\ UNCHANGED <<toPico, toVictor, ppc, payload>> /\ SameCall /\ UNCHANGED victor
    BY <1>2 DEF vars, line, pico, victor, SameCall
  <2>3. Idle => Idle'
    BY <2>2 DEF Idle, Stale, SameCall, victor
  <2>4. Asked => Asked'
    BY <2>2, SameDriver, SameCallKeeps DEF Asked, Stale
  <2>5. (Granted \/ Refused \/ Taken) => (Granted \/ Refused \/ Taken)'
    BY <2>2, SameDriver, SameCallKeeps DEF Granted, Refused, Taken
  <2>6. (Sent \/ Delivered) => (Sent \/ Delivered)'
    BY <2>2, SameDriver, SameCallKeeps DEF Sent, Delivered, DataArrived, SameCall
  <2>7. (Answered \/ Agreed) => (Answered \/ Agreed)'
    BY <2>2, SameDriver, SameCallKeeps DEF Answered, Agreed, HeaderArrived
  <2>8. trouble' = trouble
    BY <1>2 DEF vars
  <2> QED BY <2>3, <2>4, <2>5, <2>6, <2>7, <2>8 DEF Together, Goes
<1>3. CASE DosCall
  <2>1. Idle
    BY <1>3 DEF DosCall, Together, Asked, Granted, Refused, Sent, Taken, Answered, Agreed,
                Delivered, Under
  <2> QED BY <1>1, <1>3, <2>1, DosCallAsks DEF Goes
<1>4. CASE Victor
  BY <1>1, <1>4, VictorCommandStatusGoes, VictorDataStatusGoes, VictorResponseGoes,
     VictorResponseDataGoes DEF Victor, Goes
<1>5. CASE Firmware
  <2>1. ~PicoHandshake
    BY NoHandshake DEF PicoHandshake
  <2> QED BY <1>1, <1>5, <2>1, PicoCommandGoes, PicoDataGoes, PicoDispatchGoes,
             PicoAckCommandGoes, PicoAckDataGoes DEF Firmware, Goes
<1>6. CASE Failures
  BY <1>6, NoHandshake
<1> QED BY <1>2, <1>3, <1>4, <1>5, <1>6 DEF Next

LEMMA CleanKeeps ==
    ASSUME TypeInv, TypeInv', Clean, Goes
    PROVE  Together'
<1>1. TroubleOK /\ Sized(response')
  BY DEF TypeInv, TypeOK, TroubleOK
<1>2. INVALID_CRC \in Refusals /\ INVALID_CRC \in Byte /\ STATUS_OK \in Byte
      /\ INVALID_CRC # STATUS_OK
  BY StatusesDiffer, StatusesAreBytes
<1>3. \A status \in Byte : <<status>> \in Seq(Byte)
  OBVIOUS
<1>4. CASE Asks
  <2>1. PICK s \in Seq(Byte), q \in Seq(Byte) :
           toPico' = s \o q /\ Stale(s)' /\ Outcome(RequestOf(call'), "request", q)
    BY <1>4 DEF Asks
  <2>2. RequestOf(call') \in Seq(Byte) /\ RequestOf(call') # <<>> /\ NoMark(RequestOf(call'))
    <3>1. call' \in Calls
      BY <1>4 DEF Asks, Under
    <3> QED BY <3>1, CallBytesAre
  <2>3. RequestArrived(q)'
    BY <1>1, <2>1, <2>2, CleanIsNear, SendsAre DEF RequestArrived
  <2> QED BY <1>4, <2>1, <2>3 DEF Asks, Asked, Together
<1>5. CASE JudgesCommand
  <2>1. CASE Outcome(<<STATUS_OK>>, "status", toVictor') /\ ppc' = "data" /\ payload' = Request'
    <3>1. toVictor' = <<STATUS_OK>>
      BY <1>1, <1>2, <1>3, <2>1, CleanIsNear, SendsAre
    <3> QED BY <1>5, <2>1, <3>1 DEF JudgesCommand, Granted, Together
  <2>2. CASE Outcome(<<INVALID_CRC>>, "status", toVictor') /\ ppc' = "command"
    <3>1. toVictor' = <<INVALID_CRC>>
      BY <1>1, <1>2, <1>3, <2>2, CleanIsNear, SendsAre
    <3> QED BY <1>2, <1>5, <2>2, <3>1 DEF JudgesCommand, Refused, Together
  <2> QED BY <1>5, <2>1, <2>2 DEF JudgesCommand
<1>6. CASE SendsData
  <2>1. DataBytes(call'.data) \in Seq(Byte)
    <3>1. call' \in Calls
      BY <1>6 DEF SendsData, Under
    <3> QED BY <3>1, CallIsBytes
  <2>2. Near(toPico', DataBytes(call'.data), {1, 2})
    BY <1>1, <1>6, <2>1, CleanIsNear, SendsAre DEF SendsData
  <2> QED BY <1>6, <2>2 DEF SendsData, Sent, DataArrived, Together
<1>7. CASE JudgesData
  <2>1. CASE Outcome(<<STATUS_OK>>, "receipt", toVictor') /\ ppc' = "dispatch" /\ payload' = Whole'
    <3>1. toVictor' = <<STATUS_OK>>
      BY <1>1, <1>2, <1>3, <2>1, CleanIsNear, SendsAre
    <3> QED BY <1>7, <2>1, <3>1 DEF JudgesData, Taken, Together
  <2>2. CASE Outcome(<<INVALID_CRC>>, "receipt", toVictor') /\ ppc' = "command"
    <3>1. toVictor' = <<INVALID_CRC>>
      BY <1>1, <1>2, <1>3, <2>2, CleanIsNear, SendsAre
    <3> QED BY <1>2, <1>7, <2>2, <3>1 DEF JudgesData, Refused, Together
  <2> QED BY <1>7, <2>1, <2>2 DEF JudgesData
<1>8. CASE Responds
  <2>1. PICK q \in Seq(Byte) :
          /\ Outcome(HeaderOf(call'), "header", q)
          /\ \/ Under("dataStatus")' /\ toVictor' = <<STATUS_OK>> \o q
             \/ Under("response")' /\ toVictor' = q
    BY <1>8 DEF Responds
  <2>2. HeaderOf(call') \in Seq(Byte)
    <3>1. call' \in Calls
      BY <2>1 DEF Under
    <3> QED BY <3>1, CallBytesAre
  <2>3. HeaderArrived(q)'
    BY <1>1, <2>1, <2>2, CleanIsNear, SendsAre DEF HeaderArrived
  <2>4. CASE Under("response")' /\ toVictor' = q
    <3>1. HeaderArrived(toVictor)'
      BY <2>3, <2>4 DEF HeaderArrived
    <3> QED BY <1>8, <2>4, <3>1 DEF Responds, Answered, Together
  <2>5. CASE Under("dataStatus")' /\ toVictor' = <<STATUS_OK>> \o q
    BY <1>8, <2>3, <2>5 DEF Responds, Answered, Together
  <2> QED BY <2>1, <2>4, <2>5
<1>9. CASE AcksHeader
  <2>1. CASE Outcome(<<STATUS_OK>>, "status", toPico') /\ Under("responseData")' /\ Executed'
    <3>1. toPico' = <<STATUS_OK>>
      BY <1>1, <1>2, <1>3, <2>1, CleanIsNear, SendsAre
    <3> QED BY <1>9, <2>1, <3>1 DEF AcksHeader, Agreed, Together
  <2>2. CASE Outcome(<<INVALID_CRC>>, "status", toPico') /\ vpc' = "idle"
    <3>1. toPico' = <<INVALID_CRC>>
      BY <1>1, <1>2, <1>3, <2>2, CleanIsNear, SendsAre
    <3> QED BY <1>2, <1>9, <2>2, <3>1 DEF AcksHeader, Idle, Stale, Together
  <2> QED BY <1>9, <2>1, <2>2 DEF AcksHeader
<1>10. CASE Delivers
  <2>1. DataBytes(response') \in Seq(Byte)
    BY <1>1, DataBytesAre
  <2>2. Near(toVictor', DataBytes(response'), {1, 2})
    BY <1>1, <1>10, <2>1, CleanIsNear, SendsAre DEF Delivers
  <2> QED BY <1>10, <2>2 DEF Delivers, Delivered, DataArrived, Together
<1>11. CASE AcksData
  <2>1. PICK status \in {STATUS_OK, INVALID_CRC} : Outcome(<<status>>, "status", toPico')
    BY <1>11 DEF AcksData
  <2>2. toPico' = <<status>> /\ status \in Byte
    BY <1>1, <1>2, <1>3, <2>1, CleanIsNear, SendsAre
  <2> QED BY <1>11, <2>2 DEF AcksData, Idle, Stale, Together
<1> QED BY <1>4, <1>5, <1>6, <1>7, <1>8, <1>9, <1>10, <1>11 DEF Goes

\* A step after which only bytes under a CRC have been damaged adds no other trouble.
LEMMA OnlyContentBefore ==
    ASSUME TroubleOK, trouble' = trouble \/ \E e \in Kinds : Struck(e), OnlyContent'
    PROVE  OnlyContent /\ Clean
<1>1. CASE trouble' = trouble
  BY <1>1 DEF OnlyContent, Clean
<1>2. ASSUME NEW e \in Kinds, Struck(e) PROVE OnlyContent /\ Clean
  <2>1. /\ trouble \in Seq(Kinds) /\ Len(trouble) \in Nat /\ DOMAIN trouble = 1 .. Len(trouble)
    BY LenProperties DEF TroubleOK
  <2>2. /\ trouble' \in Seq(Kinds)
        /\ Len(trouble') = Len(trouble) + 1 /\ trouble'[Len(trouble) + 1] = e
        /\ \A i \in 1 .. Len(trouble) : trouble'[i] = trouble[i]
    <3>1. PICK t : t = Append(trouble, e)
      OBVIOUS
    <3>2. /\ t \in Seq(Kinds) /\ Len(t) = Len(trouble) + 1 /\ t[Len(trouble) + 1] = e
          /\ \A i \in 1 .. Len(trouble) : t[i] = trouble[i]
      BY <2>1, <3>1, AppendProperties
    <3>3. trouble' = t
      BY <1>2, <3>1 DEF Struck
    <3> QED BY <3>2, <3>3
  <2>3. DOMAIN trouble' = 1 .. Len(trouble) + 1
    <3>1. PICK t \in Seq(Kinds) : t = trouble'
      BY <2>2
    <3>2. DOMAIN t = 1 .. Len(t) /\ Len(t) = Len(trouble) + 1
      BY <2>2, <3>1, LenProperties
    <3> QED BY <3>1, <3>2
  <2>4. Len(trouble) + 1 \in DOMAIN trouble' /\ \A i \in DOMAIN trouble : i \in DOMAIN trouble'
    BY <2>1, <2>3
  <2>5. e = "content"
    BY <2>2, <2>4 DEF OnlyContent
  <2>6. OnlyContent
    BY <2>1, <2>2, <2>4 DEF OnlyContent
  <2> QED BY <1>2, <2>5, <2>6 DEF Clean, Struck
<1> QED BY <1>1, <1>2

\* No step is clean that adds a trouble of another kind.
LEMMA CleanOrStruck ==
    ASSUME TroubleOK, Clean, NEW e \in Kinds, Struck(e)
    PROVE  e = "content"
BY TroubleTells, ContentIsKind DEF Clean, Struck

LEMMA StepInStep == TypeInv /\ InStep /\ [Next]_vars => InStep'
<1> SUFFICES ASSUME TypeInv, InStep, [Next]_vars, OnlyContent' PROVE Together'
  BY DEF InStep
<1>1. TypeInv' /\ Grows
  BY TypeNext
<1>4. TroubleOK
  BY DEF TypeInv, TypeOK, TroubleOK
<1>2. OnlyContent /\ Clean
  BY <1>1, <1>4, OnlyContentBefore DEF Grows
<1>3. Together
  BY <1>2 DEF InStep
<1>5. CASE Goes
  BY <1>1, <1>2, <1>5, CleanKeeps
<1>6. ASSUME Failures, ~NoSuchUnit PROVE FALSE
  <2>1. \E e \in {"memory", "framing", "null", "reset"} : Struck(e)
    BY <1>4, <1>6, FailuresStrike
  <2>2. {"memory", "framing", "null", "reset"} \subseteq Kinds
    BY DEF Kinds
  <2> QED BY <1>2, <1>4, <2>1, <2>2, CleanOrStruck
<1> QED BY <1>3, <1>5, <1>6, TogetherGoes

LEMMA StartsInStep == Init => InStep
BY DEF Init, InStep, Together, Idle, Stale

\* The driver and the firmware keep to the phases of a call until a trouble of another
\* kind: a refused part is sent again, or the call fails, and what is then under way of
\* it is read before the next request (transmit_response).
THEOREM StaysInStep == Spec => [](TypeInv /\ InStep)
<1>1. Init => TypeInv /\ InStep
  BY TypeInit, StartsInStep
<1>2. TypeInv /\ InStep /\ [Next]_vars => (TypeInv /\ InStep)'
  BY TypeNext, StepInStep
<1> QED BY <1>1, <1>2, PTL DEF Spec

LEMMA OneCanRead ==
    ASSUME PicoTypes, Together, vpc # "idle"
    PROVE  VictorCanRead \/ PicoCanRead
<1>1. CASE Asked
  <2>1. PICK s \in Seq(Byte), q \in Seq(Byte) : toPico = s \o q /\ Stale(s) /\ RequestArrived(q)
    BY <1>1 DEF Asked
  <2>2. CASE ppc = "command"
    <3>1. toPico = q
      <4>1. s = <<>>
        BY <2>1, <2>2 DEF Stale
      <4> QED BY <2>1, <4>1, Fronted, StatusesAreBytes
    <3>2. After(toPico, Skipped(toPico)) = toPico
      <4>1. toPico \in Seq(Byte) /\ toPico[1] # HANDSHAKE
        BY <2>1, <3>1 DEF RequestArrived, NoMark
      <4>2. Skipped(toPico) = 0
        BY <4>1, SkippedIs
      <4>3. SubSeq(toPico, 0 + 1, Len(toPico)) = toPico
        BY <4>1
      <4> QED BY <4>2, <4>3 DEF After
    <3>3. Complete(toPico, 3)
      <4>1. call \in Calls
        BY <1>1 DEF Asked, Under
      <4>2. SD_BLOCK_DEVICE \in Byte /\ call.command \in Byte /\ Sized(Params(call.sector))
        BY <4>1, CallIs, ProtocolIsByte
      <4> QED BY <2>1, <3>1, <4>2, ReadCommand DEF RequestArrived, RequestOf
    <3> QED BY <2>2, <3>2, <3>3 DEF PicoCanRead
  <2>3. CASE ppc \in {"ackCommand", "ackData"}
    <3>1. \E b \in Byte : s = <<b>>
      BY <2>1, <2>3 DEF Stale, Refusals
    <3>2. toPico # <<>>
      BY <2>1, <3>1, Fronted
    <3> QED BY <2>3, <3>2 DEF PicoCanRead
  <2> QED BY <2>1, <2>2, <2>3 DEF Stale
<1>2. CASE Granted
  BY <1>2, Fronted, NoByte, StatusesAreBytes DEF Granted, Under, VictorCanRead
<1>8. CASE Refused
  BY <1>8, Fronted, NoByte, RefusalIs DEF Refused, Under, VictorCanRead
<1>3. CASE Sent
  <2>1. call \in Calls /\ DataArrived(call.data, toPico) /\ ppc = "data"
    BY <1>3 DEF Sent, Under
  <2>2. Complete(toPico, 1)
    BY <2>1, CallIs, ReadData DEF DataArrived
  <2> QED BY <2>1, <2>2 DEF PicoCanRead
<1>4. CASE Taken
  BY <1>4 DEF Taken, PicoCanRead
<1>5. CASE Answered
  <2>1. CASE Under("dataStatus")
    <3>1. PICK q \in Seq(Byte) : toVictor = <<STATUS_OK>> \o q
      BY <1>5, <2>1 DEF Answered, Under
    <3> QED BY <2>1, <3>1, Fronted, StatusesAreBytes DEF Under, VictorCanRead
  <2>2. CASE Under("response")
    <3>1. call \in Calls /\ HeaderArrived(toVictor) /\ vpc = "response"
      BY <1>5, <2>2 DEF Answered, Under
    <3>2. SD_BLOCK_DEVICE \in Byte /\ call.command \in Byte /\ Sized(<<>>)
      BY <3>1, CallIs, NoByte, ProtocolIsByte
    <3>3. Complete(toVictor, 3)
      BY <3>1, <3>2, ReadCommand DEF HeaderArrived, HeaderOf
    <3> QED BY <3>1, <3>3 DEF VictorCanRead
  <2> QED BY <1>5, <2>1, <2>2 DEF Answered
<1>6. CASE Agreed
  BY <1>6, Fronted, NoByte, StatusesAreBytes DEF Agreed, PicoCanRead
<1>7. CASE Delivered
  <2>1. DataArrived(response, toVictor) /\ vpc = "responseData"
    BY <1>7 DEF Delivered, Under
  <2>2. Complete(toVictor, 1)
    BY <2>1, ReadData DEF DataArrived, PicoTypes
  <2> QED BY <2>1, <2>2 DEF VictorCanRead
<1> QED BY <1>1, <1>2, <1>3, <1>4, <1>5, <1>6, <1>7, <1>8 DEF Together, Idle

\* As long as damage falls on bytes under a CRC, one of a packet, and in any number of
\* packets, the two programs never wait for each other: one has all of what it reads next
\* (receiveBytes, read_burst_from_pio_fifo).
THEOREM NoMutualWait == Spec => []ContentDamageIsHarmless
<1>1. TypeInv /\ InStep => ContentDamageIsHarmless
  BY TypeParts, OneCanRead DEF InStep, ContentDamageIsHarmless
<1> QED BY <1>1, StaysInStep, PTL

-----------------------------------------------------------------------------
(* The block device *)

\* What the abstract device sees is the disk, the call and the buffer.
Unseen == UNCHANGED <<disk, call, executions, before>>

LEMMA UnseenIs == Unseen => UNCHANGED <<DosOp, Fetched, disk>>
BY DEF Unseen, DosOp, Fetched

\* A request of DOS is one of the block device.
LEMMA CallIsOp ==
    ASSUME call' \in Calls
    PROVE  DosOp' \in Promise!Op
<1>1. CASE \E s \in Sector : call' = Read(s)
  <2>1. PICK s \in Sector : call' = Read(s)
    BY <1>1
  <2>2. call'.command = READ_BLOCK /\ call'.sector = s /\ call' # NoCall
    BY <2>1 DEF Read, NoCall, READ_BLOCK
  <2>3. DosOp' = Promise!ReadOp(s)
    BY <2>2, StatusesDiffer DEF DosOp, Promise!ReadOp
  <2> QED BY <2>3 DEF Promise!Op
<1>2. CASE \E s \in Sector, v \in Value : call' = Write(s, v)
  <2>1. PICK s \in Sector, v \in Value : call' = Write(s, v)
    BY <1>2
  <2>2. DosOp' = Promise!WriteOp(s, v)
    BY <2>1 DEF DosOp, Write, Promise!WriteOp
  <2> QED BY <2>2 DEF Promise!Op
<1> QED BY <1>1, <1>2 DEF Calls

LEMMA CallKeepsPromise ==
    ASSUME DosCall
    PROVE  Promise!Next
<1>1. call' \in Calls /\ executions' = 0 /\ vpc = "idle" /\ vpc' = "commandStatus"
      /\ disk' = disk /\ buffer' = buffer
  BY DEF DosCall
<1>2. Phase \in {"returned", "failed"} /\ Phase' = "called" /\ Fetched' = <<>>
  BY <1>1 DEF Phase, Fetched
<1>3. Promise!Call(DosOp')
  BY <1>1, <1>2 DEF Promise!Call
<1> QED BY <1>1, <1>3, CallIsOp DEF Promise!Next

\* The Pico executes the request of a call that has not returned, for the first time.
LEMMA DispatchKeepsPromise ==
    ASSUME TypeInv, PicoDispatch, vpc # "idle", call \in Calls, NotYet, payload = Whole,
           Executed'
    PROVE  Promise!Next
<1>1. /\ vpc' = vpc /\ call' = call /\ buffer' = buffer /\ before' = before
  BY SameDriver DEF PicoDispatch
<1>2. executions = 0 /\ disk = before /\ executions' = 1
  BY DEF NotYet, Executed
<1>3. Phase = "called" /\ Phase' = "applied" /\ DosOp' = DosOp
  BY <1>1, <1>2 DEF Phase, DosOp
<1>4. /\ call.command \in {READ_BLOCK, WRITE_NO_VERIFY} /\ call.sector \in Sector
      /\ READ_BLOCK # WRITE_NO_VERIFY /\ call # NoCall
  BY CallIs, StatusesDiffer DEF NoCall, READ_BLOCK, WRITE_NO_VERIFY
<1>5. CASE call.command = READ_BLOCK
  <2>1. DosOp.kind = "read" /\ DosOp.sector = call.sector
    BY <1>4, <1>5 DEF DosOp
  <2>2. disk' = disk /\ Fetched' = disk[DosOp.sector]
    BY <1>1, <1>2, <1>5, <2>1 DEF Executed, Fetched
  <2>3. Promise!Apply
    BY <1>1, <1>3, <2>1, <2>2 DEF Promise!Apply
  <2> QED BY <2>3 DEF Promise!Next
<1>6. CASE call.command = WRITE_NO_VERIFY
  <2>1. DosOp.kind = "write" /\ DosOp.sector = call.sector /\ DosOp.val = call.data
    BY <1>6 DEF DosOp
  <2>2. disk' = [disk EXCEPT ![DosOp.sector] = DosOp.val]
    BY <1>1, <1>2, <1>6, <2>1 DEF Executed
  <2>3. Fetched' = Fetched
    BY <1>1, <1>4, <1>6 DEF Fetched
  <2>4. Promise!Apply
    BY <1>1, <1>3, <2>1, <2>2, <2>3 DEF Promise!Apply
  <2> QED BY <2>4 DEF Promise!Next
<1> QED BY <1>4, <1>5, <1>6

\* A call fails, and the buffer of a read may be spoilt.
LEMMA ErrorKeepsPromise ==
    ASSUME Unseen, vpc # "idle", vpc' = "idle", outcome' = "ERROR",
           buffer' = buffer \/ (call.command = READ_BLOCK /\ buffer' \in Seq(Byte))
    PROVE  Promise!Next
<1>1. Phase \in {"called", "applied"} /\ Phase' = "failed"
  BY DEF Phase
<1>2. call.command = READ_BLOCK => DosOp.kind = "read"
  BY StatusesDiffer DEF DosOp
<1>3. Promise!Fail
  BY <1>1, <1>2, UnseenIs DEF Promise!Fail
<1> QED BY <1>3 DEF Promise!Next

\* A call succeeds when the request has been executed and its answer is in the buffer.
LEMMA DoneKeepsPromise ==
    ASSUME Unseen, vpc # "idle", vpc' = "idle", outcome' = "DONE", executions = 1,
           call \in Calls,
           buffer' = IF call.command = READ_BLOCK THEN before[call.sector] ELSE buffer
    PROVE  Promise!Next
<1>1. Phase = "applied" /\ Phase' = "returned"
  BY DEF Phase
<1>2. call.command \in {READ_BLOCK, WRITE_NO_VERIFY} /\ READ_BLOCK # WRITE_NO_VERIFY
  BY CallIs, StatusesDiffer
<1>3. buffer' = IF DosOp.kind = "read" THEN Fetched ELSE buffer
  BY <1>2 DEF DosOp, Fetched
<1>4. Promise!Succeed
  BY <1>1, <1>3, UnseenIs DEF Promise!Succeed
<1> QED BY <1>4 DEF Promise!Next

LEMMA NothingSeen ==
    ASSUME Unseen, UNCHANGED <<vpc, outcome, buffer>> \/ (vpc # "idle" /\ vpc' # "idle" /\ buffer' = buffer)
    PROVE  UNCHANGED Promise!vars
<1>1. Phase' = Phase
  BY DEF Phase, Unseen
<1> QED BY <1>1, UnseenIs DEF Promise!vars

LEMMA RetryKeepsPromise ==
    ASSUME Unseen, vpc # "idle", buffer' = buffer, Retry
    PROVE  Promise!Next \/ UNCHANGED Promise!vars
<1>1. vpc' = "commandStatus" \/ (vpc' = "idle" /\ outcome' = "ERROR")
  BY DEF Retry, Returned
<1> QED BY <1>1, NothingSeen, ErrorKeepsPromise

\* What a step does to the promise, given that a request is executed as DOS asked, and
\* that S_DONE is said of what was done.
DispatchIsRight ==
    PicoDispatch => vpc # "idle" /\ call \in Calls /\ NotYet /\ payload = Whole /\ Executed'
DoneIsRight ==
    VictorResponseData /\ outcome' = "DONE" =>
        /\ executions = 1 /\ call \in Calls
        /\ call.command = READ_BLOCK => buffer' = before[call.sector]

LEMMA PromiseStep ==
    ASSUME TypeInv, [Next]_vars, ~NoAnswerMemory, DispatchIsRight, DoneIsRight
    PROVE  Promise!Next \/ UNCHANGED Promise!vars
<1>1. CASE DosCall
  BY <1>1, CallKeepsPromise
<1>2. CASE VictorCommandStatus
  <2>1. Unseen /\ buffer' = buffer /\ vpc # "idle"
    BY <1>2 DEF VictorCommandStatus, pico, Unseen
  <2>2. Retry \/ vpc' # "idle"
    BY <1>2 DEF VictorCommandStatus
  <2> QED BY <2>1, <2>2, RetryKeepsPromise, NothingSeen
<1>3. CASE VictorDataStatus
  <2>1. Unseen /\ buffer' = buffer /\ vpc # "idle"
    BY <1>3 DEF VictorDataStatus, pico, Unseen
  <2>2. Retry \/ vpc' # "idle"
    BY <1>3 DEF VictorDataStatus
  <2> QED BY <2>1, <2>2, RetryKeepsPromise, NothingSeen
<1>4. CASE VictorResponse
  <2>1. Unseen /\ buffer' = buffer /\ vpc # "idle"
    BY <1>4 DEF VictorResponse, pico, Unseen
  <2>2. vpc' # "idle" \/ (vpc' = "idle" /\ outcome' = "ERROR")
    BY <1>4 DEF VictorResponse, Returned
  <2> QED BY <2>1, <2>2, ErrorKeepsPromise, NothingSeen
<1>5. CASE VictorResponseData
  <2>1. /\ Unseen /\ vpc # "idle" /\ vpc' = "idle" /\ outcome' \in {"DONE", "ERROR"}
        /\ buffer' = IF call.command = READ_BLOCK THEN Body(toVictor, 1) ELSE buffer
    BY <1>5 DEF VictorResponseData, pico, Unseen, Returned, Verdict, Stored
  <2>2. CASE outcome' = "DONE"
    BY <1>5, <2>1, <2>2, DoneKeepsPromise DEF DoneIsRight
  <2>3. CASE outcome' = "ERROR"
    <3>1. Body(toVictor, 1) \in Seq(Byte)
      BY <1>5, TypeParts, PacketIsBytes DEF VictorResponseData, LineTypes
    <3> QED BY <2>1, <2>3, <3>1, ErrorKeepsPromise
  <2> QED BY <2>1, <2>2, <2>3
<1>6. CASE PicoDispatch
  BY <1>6, DispatchKeepsPromise DEF DispatchIsRight
<1>7. CASE PicoCommand \/ PicoData \/ PicoAckCommand \/ PicoAckData \/ PicoHandshake \/ Failures
  <2>1. UNCHANGED <<disk, executions, victor>>
    BY <1>7 DEF PicoCommand, PicoData, PicoAckCommand, PicoAckData, PicoHandshake, Failures,
                NoBuffer, NoPayloadMemory, NoSuchUnit, PicoResets
  <2> QED BY <2>1, SameDriver, NothingSeen DEF Unseen
<1>8. CASE UNCHANGED vars
  <2>1. UNCHANGED <<disk, executions, victor>>
    BY <1>8 DEF vars, pico
  <2> QED BY <2>1, SameDriver, NothingSeen DEF Unseen
<1> QED BY <1>1, <1>2, <1>3, <1>4, <1>5, <1>6, <1>7, <1>8 DEF Next, Victor, Firmware

LEMMA PromiseStarts ==
    ASSUME Sector # {}, Init
    PROVE  Promise!Init
<1>1. Phase = "returned" /\ Fetched = <<>> /\ buffer = <<>>
  BY DEF Init, Phase, Fetched
<1>2. disk \in [Sector -> Value]
  BY DEF Init
<1>3. PICK s \in Sector : s = CHOOSE x \in Sector : TRUE
  OBVIOUS
<1>4. DosOp \in Promise!Op
  <2>1. DosOp = Promise!ReadOp(s)
    BY <1>3 DEF Init, DosOp, NoCall, Promise!ReadOp, WRITE_NO_VERIFY
  <2> QED BY <2>1 DEF Promise!Op
<1> QED BY <1>1, <1>2, <1>4 DEF Promise!Init

LEMMA TogetherIsRight ==
    ASSUME TypeInv, Together
    PROVE  DispatchIsRight /\ DoneIsRight
<1>1. VictorTypes /\ PicoTypes /\ LineTypes /\ TroubleOK
  BY TypeParts
<1>2. ASSUME PicoDispatch
      PROVE  vpc # "idle" /\ call \in Calls /\ NotYet /\ payload = Whole /\ Executed'
  <2>1. Taken
    <3>1. ppc = "dispatch"
      BY <1>2 DEF PicoDispatch
    <3>2. ~Idle /\ ~Asked
      BY <3>1 DEF Idle, Asked, Stale
    <3> QED BY <3>1, <3>2 DEF Together, Granted, Refused, Sent, Answered, Agreed, Delivered
  <2>2. vpc # "idle" /\ call \in Calls /\ NotYet /\ payload = Whole
    BY <2>1 DEF Taken, Under
  <2> QED BY <1>1, <1>2, <2>2, WholeIsExecuted
<1>3. ASSUME VictorResponseData, outcome' = "DONE"
      PROVE  /\ executions = 1 /\ call \in Calls
             /\ call.command = READ_BLOCK => buffer' = before[call.sector]
  <2>1. Delivered /\ buffer' = Stored(response)
    BY <1>1, <1>3, VictorResponseDataGoes
  <2> QED BY <2>1 DEF Delivered, Under, Executed, Stored
<1> QED BY <1>2, <1>3 DEF DispatchIsRight, DoneIsRight


-----------------------------------------------------------------------------
(* Apart *)

\* A packet that is too short for its size, or has too large a one, is not read to its end
\* (read_burst_from_pio_fifo, receiveBytes).  A request may be in front of which handshakes
\* are skipped.
Unfit(q) == ~Complete(After(q, Skipped(q)), 3)

LEMMA UnfitIs ==
    ASSUME NEW q \in Seq(Byte), q[1] # HANDSHAKE, ~Complete(q, 3)
    PROVE  Unfit(q)
<1>1. Skipped(q) = 0
  BY SkippedIs
<1>2. SubSeq(q, 0 + 1, Len(q)) = q
  OBVIOUS
<1> QED BY <1>1, <1>2 DEF Unfit, After

LEMMA TooFew ==
    ASSUME NEW q \in Seq(Byte), NEW k \in Nat, NEW n \in Nat, n = SizeOf(q, k), Len(q) < k + 2 + n
    PROVE  ~Complete(q, k)
<1>1. Len(q) \in Nat
  BY LenProperties
<1> QED BY <1>1 DEF Complete

LEMMA SizeIsNat ==
    ASSUME NEW q, NEW k \in Nat, q[k] \in Byte, q[k + 1] \in Byte
    PROVE  SizeOf(q, k) \in Nat /\ SizeOf(q, k) >= q[k + 1]
           /\ (q[k] > 0 => SizeOf(q, k) >= SizeBase)
<1>1. \A a \in 0 .. 255, b \in 0 .. 255 : /\ SizeBase * a + b \in Nat /\ SizeBase * a + b >= b
                                          /\ (a > 0 => SizeBase * a + b >= SizeBase)
  <2>1. SizeBase \in Nat
    BY SizesAre
  <2>2. ASSUME NEW a \in 0 .. 255, NEW b \in 0 .. 255
        PROVE  /\ SizeBase * a + b \in Nat /\ SizeBase * a + b >= b
               /\ (a > 0 => SizeBase * a + b >= SizeBase)
    <3>1. SizeBase * a \in Nat
      BY <2>1
    <3>2. a > 0 => SizeBase * a >= SizeBase
      BY <2>1
    <3> QED BY <2>1, <3>1, <3>2
  <2> QED BY <2>2
<1> QED BY <1>1 DEF SizeOf, Byte

LEMMA SixIs == High(PARAMS_SIZE) = 0 /\ Low(PARAMS_SIZE) = 6
<1>1. SizeBase \in Nat /\ SizeBase > 6
  BY SizesAre
<1>2. 6 \div SizeBase = 0 /\ 6 % SizeBase = 6
  BY <1>1
<1> QED BY <1>2 DEF High, Low, PARAMS_SIZE

\* The bytes of a request that a receiver could take for a size.
LEMMA RequestLayout ==
    ASSUME NEW p \in Byte, NEW c \in Byte, NEW params, Sized(params)
    PROVE  /\ CommandBytes(p, c, params)[2] = c
           /\ CommandBytes(p, c, params)[3] = High(Len(params))
           /\ CommandBytes(p, c, params)[4] = Low(Len(params))
<1> DEFINE n == Len(params)
           m == CommandBytes(p, c, params)
           x == crc8(CommandMessage(p, c, params))
<1>1. /\ m \in Seq(Byte) /\ Len(m) = 5 + n
      /\ m[1] = p /\ m[2] = c /\ m[3] = High(n) /\ m[4] = Low(n)
      /\ \A i \in 1 .. n : m[4 + i] = params[i]
      /\ m[5 + n] = x
  BY CommandBytesAre
<1> HIDE DEF m, x
<1>2. m[2] = c /\ m[3] = High(n) /\ m[4] = Low(n)
  BY <1>1
<1> QED BY <1>2 DEF m

LEMMA RequestBytes ==
    ASSUME NEW c \in Calls
    PROVE  /\ RequestOf(c) \in Seq(Byte) /\ Len(RequestOf(c)) = 11
           /\ RequestOf(c)[1] = 2 /\ RequestOf(c)[2] \in Byte /\ RequestOf(c)[2] # HANDSHAKE
           /\ RequestOf(c)[3] = 0 /\ RequestOf(c)[4] = 6 /\ RequestOf(c)[5] \in Byte
<1>1. PICK p : p = Params(c.sector)
  OBVIOUS
<1>2. PICK d : d = c.command
  OBVIOUS
<1>3. /\ Sized(p) /\ Len(p) = PARAMS_SIZE /\ d \in Byte /\ SD_BLOCK_DEVICE \in Byte
      /\ d \in {READ_BLOCK, WRITE_NO_VERIFY}
  BY <1>1, <1>2, CallIs, ParamsAre, ProtocolIsByte
<1>4. RequestOf(c) = CommandBytes(SD_BLOCK_DEVICE, d, p)
  BY <1>1, <1>2 DEF RequestOf
<1>5. /\ CommandBytes(SD_BLOCK_DEVICE, d, p) \in Seq(Byte)
      /\ CommandBytes(SD_BLOCK_DEVICE, d, p)[1] = SD_BLOCK_DEVICE
      /\ Len(CommandBytes(SD_BLOCK_DEVICE, d, p)) = 5 + Len(p)
  BY <1>3, RequestIs
<1>6. /\ CommandBytes(SD_BLOCK_DEVICE, d, p)[2] = d
      /\ CommandBytes(SD_BLOCK_DEVICE, d, p)[3] = High(Len(p))
      /\ CommandBytes(SD_BLOCK_DEVICE, d, p)[4] = Low(Len(p))
  BY <1>3, RequestLayout
<1>7. PICK m : m = RequestOf(c)
  OBVIOUS
<1>8. /\ m \in Seq(Byte) /\ Len(m) = 11 /\ m[1] = 2 /\ m[2] = d /\ m[3] = 0 /\ m[4] = 6
  <2>1. 5 + PARAMS_SIZE = 11 /\ SD_BLOCK_DEVICE = 2
    BY DEF PARAMS_SIZE, SD_BLOCK_DEVICE
  <2> QED BY <1>3, <1>4, <1>5, <1>6, <1>7, <2>1, SixIs
<1>9. m[5] \in Byte
  <2>1. 5 \in 1 .. Len(m)
    BY <1>8
  <2> QED BY <1>8, <2>1, ElementOfSeq
<1>10. d # HANDSHAKE
  BY <1>3 DEF READ_BLOCK, WRITE_NO_VERIFY, HANDSHAKE
<1> QED BY <1>3, <1>7, <1>8, <1>9, <1>10

\* What is left of a request when its first byte is read on its own.
LEMMA RestIsUnfit ==
    ASSUME NEW t \in Seq(Byte), Len(t) = 10, t[1] # HANDSHAKE, t[3] = 6
    PROVE  ~Complete(t, 3) /\ Unfit(t)
<1>1. t[4] \in Byte /\ t[3] \in Byte
  <2>1. 3 \in 1 .. Len(t) /\ 4 \in 1 .. Len(t)
    OBVIOUS
  <2> QED BY <2>1, ElementOfSeq
<1>2. PICK n : n = SizeOf(t, 3)
  OBVIOUS
<1>3. n \in Nat /\ n >= SizeBase
  <2>1. t[3 + 1] \in Byte /\ 3 \in Nat /\ t[3] > 0
    BY <1>1
  <2> QED BY <1>1, <1>2, <2>1, SizeIsNat
<1>4. ~Complete(t, 3)
  <2>1. Len(t) < 3 + 2 + n
    BY <1>3, SizesAre
  <2> QED BY <1>2, <1>3, <2>1, TooFew
<1> QED BY <1>4, UnfitIs

LEMMA TailOfRequest ==
    ASSUME NEW c \in Calls
    PROVE  /\ RequestOf(c) # <<>> /\ Head(RequestOf(c)) = 2 /\ Tail(RequestOf(c)) \in Seq(Byte)
           /\ RequestOf(c) = <<2>> \o Tail(RequestOf(c))
           /\ Unfit(Tail(RequestOf(c))) /\ ~Complete(RequestOf(c), 1)
<1>1. PICK m : m = RequestOf(c)
  OBVIOUS
<1>2. /\ m \in Seq(Byte) /\ Len(m) = 11 /\ m[1] = 2 /\ m[2] \in Byte /\ m[2] # HANDSHAKE
      /\ m[3] = 0 /\ m[4] = 6
  BY <1>1, RequestBytes
<1>3. m # <<>>
  <2>1. Len(m) # 0
    BY <1>2
  <2> QED BY <2>1, NoByte
<1>4. /\ Head(m) = 2 /\ Tail(m) \in Seq(Byte) /\ Len(Tail(m)) = 10
      /\ \A i \in 1 .. 10 : Tail(m)[i] = m[i + 1]
  <2>1. PICK t : t = Tail(m)
    OBVIOUS
  <2>2. t \in Seq(Byte) /\ Len(t) = Len(m) - 1 /\ \A i \in 1 .. Len(t) : t[i] = m[i + 1]
    BY <1>2, <1>3, <2>1, HeadTailProperties
  <2>3. Len(t) = 10
    BY <1>2, <2>2
  <2>4. Head(m) = m[1]
    BY <1>2, <1>3
  <2> QED BY <1>2, <2>1, <2>2, <2>3, <2>4
<1>5. m = <<2>> \o Tail(m)
  <2>1. PICK t \in Seq(Byte) : t = Tail(m)
    BY <1>4
  <2>2. <<2>> \in Seq(Byte) /\ Len(<<2>>) = 1 /\ <<2>>[1] = 2
    BY DEF Byte
  <2>3. Len(t) = 10 /\ \A i \in 1 .. 10 : t[i] = m[i + 1]
    BY <1>4, <2>1
  <2>4. PICK f : f = <<2>> \o t
    OBVIOUS
  <2>5. f \in Seq(Byte) /\ Len(f) = 1 + 10
        /\ \A i \in 1 .. 11 : f[i] = IF i <= 1 THEN <<2>>[i] ELSE t[i - 1]
    <3>1. PICK g : g = <<2>>
      OBVIOUS
    <3>2. /\ f \in Seq(Byte) /\ Len(f) = Len(g) + Len(t)
          /\ \A i \in 1 .. Len(g) + Len(t) : f[i] = IF i <= Len(g) THEN g[i] ELSE t[i - Len(g)]
      BY <2>1, <2>2, <2>4, <3>1, ConcatProperties
    <3>3. Len(g) = 1 /\ Len(t) = 10 /\ 1 + 10 = 11
      BY <2>2, <2>3, <3>1
    <3> QED BY <3>1, <3>2, <3>3
  <2>6. ASSUME NEW i \in 1 .. 11 PROVE f[i] = m[i]
    <3>1. CASE i = 1
      BY <1>2, <2>2, <2>5, <3>1
    <3>2. CASE i # 1
      <4>1. i - 1 \in 1 .. 10 /\ i - 1 + 1 = i /\ ~(i <= 1)
        BY <3>2
      <4> QED BY <2>3, <2>5, <4>1
    <3> QED BY <3>1, <3>2
  <2>7. f = m
    <3>1. Len(f) = 11
      BY <2>5
    <3> QED BY <1>2, <2>5, <2>6, <3>1, SeqEqual
  <2> QED BY <2>1, <2>4, <2>7
<1>6. Unfit(Tail(m))
  <2>1. Tail(m)[1] = m[2] /\ Tail(m)[3] = m[4]
    <3>1. 1 \in 1 .. 10 /\ 3 \in 1 .. 10 /\ 1 + 1 = 2 /\ 3 + 1 = 4
      OBVIOUS
    <3> QED BY <1>4, <3>1
  <2> QED BY <1>2, <1>4, <2>1, RestIsUnfit
<1>7. ~Complete(m, 1)
  <2>1. PICK n : n = SizeOf(m, 1)
    OBVIOUS
  <2>2. m[2] \in Nat
    <3>1. \A b \in Byte : b \in Nat
      BY DEF Byte
    <3> QED BY <1>2, <3>1
  <2>3. n = SizeBase * 2 + m[2]
    <3>1. PICK j : j = 1 + 1
      OBVIOUS
    <3>2. n = SizeBase * m[1] + m[j]
      BY <2>1, <3>1, Zenon DEF SizeOf
    <3>3. j = 2
      BY <3>1
    <3> QED BY <1>2, <3>2, <3>3
  <2>4. n \in Nat /\ n >= 14
    BY <2>2, <2>3, SizesAre
  <2>5. Len(m) < 1 + 2 + n
    BY <1>2, <2>4
  <2> QED BY <1>2, <2>1, <2>4, <2>5, TooFew
<1> QED BY <1>1, <1>3, <1>4, <1>5, <1>6, <1>7

LEMMA LostIsNoByte == Lost \notin Byte /\ \A b \in Byte : b \in Nat /\ (b # 0 => b > 0)
BY DEF Lost, Byte

LEMMA GentleIs == Gentle = {"short", "status", "memory"} /\ "content" \notin Gentle
                  /\ "framing" \notin Gentle /\ "verdict" \notin Gentle
BY DEF Gentle

LEMMA ShortRequest ==
    ASSUME NEW c \in Calls, NEW q, GentlyHit(RequestOf(c), "request", q)
    PROVE  q \in Seq(Byte) /\ Unfit(q)
<1>1. PICK m : m = RequestOf(c)
  OBVIOUS
<1>2. /\ m \in Seq(Byte) /\ Len(m) = 11 /\ m[1] = 2 /\ m[2] \in Byte /\ m[2] # HANDSHAKE
      /\ m[3] = 0 /\ m[4] = 6
  BY <1>1, RequestBytes
<1>3. DOMAIN m = 1 .. 11
  BY <1>2, LenProperties
<1>4. "request" \in Sends
  BY DEF Sends
<1>5. GentlyHit(m, "request", q)
  BY <1>1
<1>6. ASSUME NEW k \in 1 .. 11, NEW b \in Byte \ {m[k]}, q = [m EXCEPT ![k] = b],
             Kind("request", k, m[k], b) \in Gentle
      PROVE  q \in Seq(Byte) /\ Unfit(q)
  <2>1. k = 1 /\ b = HANDSHAKE
    <3>1. RequestKind(k, b) \in Gentle
      BY <1>4, <1>6, KindIs
    <3> QED BY <1>6, <3>1, LostIsNoByte, GentleIs DEF RequestKind
  <2>2. k \in 1 .. Len(m)
    BY <1>2
  <2>3. /\ q \in Seq(Byte) /\ Len(q) = 11
        /\ \A i \in 1 .. 11 : q[i] = IF i = k THEN b ELSE m[i]
    BY <1>2, <1>6, <2>2, ExceptSeq
  <2>4. q[1] = HANDSHAKE /\ q[2] = m[2] /\ q[4] = 6
    <3>1. 1 \in 1 .. 11 /\ 2 \in 1 .. 11 /\ 4 \in 1 .. 11 /\ 2 # 1 /\ 4 # 1
      OBVIOUS
    <3> QED BY <1>2, <2>1, <2>3, <3>1
  <2>5. Skipped(q) = 1
    <3>1. Len(q) >= 2
      BY <2>3
    <3> QED BY <1>2, <2>3, <2>4, <3>1, SkippedIs
  <2>6. PICK t : t = SubSeq(q, 2, 11)
    OBVIOUS
  <2>7. t \in Seq(Byte) /\ Len(t) = 10 /\ \A i \in 1 .. 10 : t[i] = q[i + 1]
    <3>1. \A i \in 2 .. 11 : q[i] \in Byte
      <4>1. \A i \in 2 .. 11 : i \in 1 .. Len(q)
        BY <2>3
      <4> QED BY <2>3, <4>1, ElementOfSeq
    <3>2. /\ t \in Seq(Byte) /\ Len(t) = IF 2 <= 11 THEN 11 - 2 + 1 ELSE 0
          /\ \A i \in 1 .. 11 - 2 + 1 : t[i] = q[2 + i - 1]
      BY <2>6, <3>1, SubSeqProperties
    <3>3. (IF 2 <= 11 THEN 11 - 2 + 1 ELSE 0) = 10 /\ 11 - 2 + 1 = 10
          /\ \A i \in 1 .. 10 : 2 + i - 1 = i + 1
      OBVIOUS
    <3> QED BY <3>2, <3>3
  <2>8. t[1] = m[2] /\ t[3] = 6
    <3>1. 1 \in 1 .. 10 /\ 3 \in 1 .. 10 /\ 1 + 1 = 2 /\ 3 + 1 = 4
      OBVIOUS
    <3> QED BY <2>4, <2>7, <3>1
  <2>9. ~Complete(t, 3)
    BY <1>2, <2>7, <2>8, RestIsUnfit
  <2>10. After(q, 1) = t
    <3>1. 1 + 1 = 2
      OBVIOUS
    <3> QED BY <2>3, <2>6, <3>1 DEF After
  <2> QED BY <2>3, <2>5, <2>9, <2>10 DEF Unfit
<1>7. ASSUME NEW k \in 1 .. 11, q = Without(m, k, Gap("request", k)),
             Kind("request", k, m[k], Lost) \in Gentle
      PROVE  q \in Seq(Byte) /\ Unfit(q)
  <2>1. k \notin {3, 4}
    <3>1. RequestKind(k, Lost) \in Gentle
      BY <1>4, <1>7, KindIs
    <3> QED BY <3>1, GentleIs DEF RequestKind
  <2>2. Gap("request", k) = 1
    BY <2>1 DEF Gap
  <2>3. k \in 1 .. Len(m)
    BY <1>2
  <2>4. /\ q \in Seq(Byte) /\ Len(q) = 10
        /\ \A i \in 1 .. 10 : q[i] = IF i < k THEN m[i] ELSE m[i + 1]
    <3>1. /\ Without(m, k, 1) \in Seq(Byte) /\ Len(Without(m, k, 1)) = Len(m) - 1
          /\ \A i \in 1 .. Len(m) - 1 : Without(m, k, 1)[i] = IF i < k THEN m[i] ELSE m[i + 1]
      BY <1>2, <2>3, WithoutIs
    <3>2. Len(m) - 1 = 10
      BY <1>2
    <3> QED BY <1>7, <2>2, <3>1, <3>2
  <2>5. 1 \in 1 .. 10 /\ 3 \in 1 .. 10 /\ 4 \in 1 .. 10 /\ 1 + 1 = 2 /\ 3 + 1 = 4
    OBVIOUS
  <2>6. 2 # HANDSHAKE
    BY DEF HANDSHAKE
  <2>7. CASE k \in {1, 2}
    <3>1. q[3] = 6
      BY <1>2, <2>4, <2>5, <2>7
    <3>2. q[1] # HANDSHAKE
      BY <1>2, <2>4, <2>5, <2>6, <2>7
    <3> QED BY <2>4, <3>1, <3>2, RestIsUnfit
  <2>8. CASE k \notin {1, 2}
    <3>1. 1 < k /\ 3 < k /\ 4 < k
      BY <2>1, <2>8
    <3>2. q[1] = 2 /\ q[3] = 0 /\ q[4] = 6
      BY <1>2, <2>4, <2>5, <3>1
    <3>3. PICK n : n = SizeOf(q, 3)
      OBVIOUS
    <3>4. n = 6
      <4>1. PICK j : j = 3 + 1
        OBVIOUS
      <4>2. n = SizeBase * q[3] + q[j]
        BY <3>3, <4>1, Zenon DEF SizeOf
      <4>3. j = 4
        BY <4>1
      <4> QED BY <3>2, <4>2, <4>3, SizesAre
    <3>5. Len(q) < 3 + 2 + n
      BY <2>4, <3>4
    <3>6. ~Complete(q, 3)
      BY <2>4, <3>3, <3>4, <3>5, TooFew
    <3> QED BY <2>4, <2>6, <3>2, <3>6, UnfitIs
  <2> QED BY <2>7, <2>8
<1> QED BY <1>3, <1>5, <1>6, <1>7 DEF GentlyHit

LEMMA ShortHeader ==
    ASSUME NEW c \in Calls, NEW q, GentlyHit(HeaderOf(c), "header", q)
    PROVE  q \in Seq(Byte) /\ ~Complete(q, 3)
<1>1. PICK m : m = HeaderOf(c)
  OBVIOUS
<1>2. /\ m \in Seq(Byte) /\ Len(m) = 5 /\ m[3] = 0 /\ m[4] = 0
  <2>1. PICK d : d = c.command
    OBVIOUS
  <2>2. d \in Byte /\ SD_BLOCK_DEVICE \in Byte /\ Sized(<<>>) /\ Len(<<>>) = 0
    BY <2>1, CallIs, ProtocolIsByte, NoByte
  <2>3. m = CommandBytes(SD_BLOCK_DEVICE, d, <<>>)
    BY <1>1, <2>1 DEF HeaderOf
  <2>4. /\ CommandBytes(SD_BLOCK_DEVICE, d, <<>>) \in Seq(Byte)
        /\ Len(CommandBytes(SD_BLOCK_DEVICE, d, <<>>)) = 5 + Len(<<>>)
    BY <2>2, RequestIs
  <2>5. /\ CommandBytes(SD_BLOCK_DEVICE, d, <<>>)[3] = High(Len(<<>>))
        /\ CommandBytes(SD_BLOCK_DEVICE, d, <<>>)[4] = Low(Len(<<>>))
    BY <2>2, RequestLayout
  <2>6. High(0) = 0 /\ Low(0) = 0
    BY SizesAre DEF High, Low
  <2>7. 5 + 0 = 5
    OBVIOUS
  <2> QED BY <2>2, <2>3, <2>4, <2>5, <2>6, <2>7
<1>3. DOMAIN m = 1 .. 5
  BY <1>2, LenProperties
<1>4. "header" \in Sends
  BY DEF Sends
<1>5. GentlyHit(m, "header", q)
  BY <1>1
<1>6. ASSUME NEW k \in 1 .. 5, NEW b \in Byte \ {m[k]}, q = [m EXCEPT ![k] = b],
             Kind("header", k, m[k], b) \in Gentle
      PROVE  q \in Seq(Byte) /\ ~Complete(q, 3)
  <2>1. k \in {3, 4}
    <3>1. HeaderKind(k, b) \in Gentle
      BY <1>4, <1>6, KindIs
    <3> QED BY <1>6, <3>1, LostIsNoByte, GentleIs DEF HeaderKind
  <2>2. k \in 1 .. Len(m)
    BY <1>2
  <2>3. /\ q \in Seq(Byte) /\ Len(q) = 5
        /\ \A i \in 1 .. 5 : q[i] = IF i = k THEN b ELSE m[i]
    BY <1>2, <1>6, <2>2, ExceptSeq
  <2>4. b > 0 /\ b \in Nat
    <3>1. b # 0
      BY <1>2, <1>6, <2>1
    <3> QED BY <3>1, LostIsNoByte
  <2>5. /\ 3 \in 1 .. 5 /\ 4 \in 1 .. 5 /\ 3 # 4 /\ 3 + 1 = 4
    OBVIOUS
  <2>6. q[3] \in Byte /\ q[4] \in Byte /\ (q[3] > 0 \/ q[4] > 0)
    <3>1. q[3] \in Byte /\ q[4] \in Byte
      BY <2>3, <2>5, ElementOfSeq
    <3>2. q[3] = b \/ q[4] = b
      BY <2>1, <2>3, <2>5
    <3> QED BY <2>4, <3>1, <3>2
  <2>7. PICK n : n = SizeOf(q, 3)
    OBVIOUS
  <2>8. n \in Nat /\ n > 0
    <3>1. PICK j : j = 3 + 1
      OBVIOUS
    <3>2. j = 4 /\ 3 \in Nat
      BY <3>1
    <3>3. n \in Nat /\ n >= q[j] /\ (q[3] > 0 => n >= SizeBase)
      BY <2>6, <2>7, <3>1, <3>2, SizeIsNat
    <3>4. q[4] \in Nat
      BY <2>6, LostIsNoByte
    <3>5. n >= q[4]
      BY <3>2, <3>3
    <3> QED BY <2>6, <3>3, <3>4, <3>5, SizesAre
  <2>9. Len(q) < 3 + 2 + n
    BY <2>3, <2>8
  <2> QED BY <2>3, <2>7, <2>8, <2>9, TooFew
<1>7. ASSUME NEW k \in 1 .. 5, q = Without(m, k, Gap("header", k))
      PROVE  q \in Seq(Byte) /\ ~Complete(q, 3)
  <2>1. Gap("header", k) = 1
    BY DEF Gap
  <2>2. k \in 1 .. Len(m)
    BY <1>2
  <2>3. q \in Seq(Byte) /\ Len(q) = 4
    <3>1. Without(m, k, 1) \in Seq(Byte) /\ Len(Without(m, k, 1)) = Len(m) - 1
      BY <1>2, <2>2, WithoutIs
    <3> QED BY <1>2, <1>7, <2>1, <3>1
  <2>4. q[3] \in Byte /\ q[4] \in Byte
    <3>1. 3 \in 1 .. Len(q) /\ 4 \in 1 .. Len(q)
      BY <2>3
    <3> QED BY <2>3, <3>1, ElementOfSeq
  <2>5. PICK n : n = SizeOf(q, 3)
    OBVIOUS
  <2>6. n \in Nat
    <3>1. PICK j : j = 3 + 1
      OBVIOUS
    <3>2. j = 4 /\ 3 \in Nat
      BY <3>1
    <3> QED BY <2>4, <2>5, <3>1, <3>2, SizeIsNat
  <2>7. Len(q) < 3 + 2 + n
    BY <2>3, <2>6
  <2> QED BY <2>3, <2>5, <2>6, <2>7, TooFew
<1> QED BY <1>3, <1>5, <1>6, <1>7 DEF GentlyHit

LEMMA ShortData ==
    ASSUME NEW data, Sized(data), NEW what \in {"data", "answer"}, NEW q,
           GentlyHit(DataBytes(data), what, q)
    PROVE  q \in Seq(Byte) /\ ~Complete(q, 1)
<1>1. PICK m : m = DataBytes(data)
  OBVIOUS
<1>2. PICK n : n = Len(data)
  OBVIOUS
<1>3. n \in Nat /\ n < 256 * SizeBase
  BY <1>2, LenProperties DEF Sized
<1>4. m \in Seq(Byte) /\ Len(m) = 3 + n /\ m[1] = High(n) /\ m[2] = Low(n)
  BY <1>1, <1>2, DataBytesAre
<1>5. DOMAIN m = 1 .. 3 + n
  BY <1>4, LenProperties
<1>6. what \in Sends
  BY DEF Sends
<1>7. GentlyHit(m, what, q)
  BY <1>1
<1>8. ASSUME NEW k, NEW b \in Byte, Kind(what, k, m[k], b) \in Gentle
      PROVE  FALSE
  <2>1. DataKind(k, b) \in Gentle
    BY <1>6, <1>8, KindIs
  <2> QED BY <2>1, LostIsNoByte, GentleIs DEF DataKind
<1>9. ASSUME NEW k \in 1 .. 3 + n, q = Without(m, k, Gap(what, k)),
             Kind(what, k, m[k], Lost) \in Gentle
      PROVE  q \in Seq(Byte) /\ ~Complete(q, 1)
  <2>1. k \notin {1, 2}
    <3>1. DataKind(k, Lost) \in Gentle
      BY <1>6, <1>9, KindIs
    <3> QED BY <3>1, GentleIs DEF DataKind
  <2>2. Gap(what, k) = 1
    BY <2>1 DEF Gap
  <2>3. k \in 1 .. Len(m)
    BY <1>4
  <2>4. /\ q \in Seq(Byte) /\ Len(q) = 2 + n
        /\ \A i \in 1 .. 2 + n : q[i] = IF i < k THEN m[i] ELSE m[i + 1]
    <3>1. /\ Without(m, k, 1) \in Seq(Byte) /\ Len(Without(m, k, 1)) = Len(m) - 1
          /\ \A i \in 1 .. Len(m) - 1 : Without(m, k, 1)[i] = IF i < k THEN m[i] ELSE m[i + 1]
      BY <1>4, <2>3, WithoutIs
    <3>2. Len(m) - 1 = 2 + n
      BY <1>3, <1>4
    <3> QED BY <1>9, <2>2, <3>1, <3>2
  <2>5. 1 \in 1 .. 2 + n /\ 2 \in 1 .. 2 + n /\ 1 < k /\ 2 < k
    BY <1>3, <2>1
  <2>6. q[1] = High(n) /\ q[2] = Low(n)
    BY <1>4, <2>4, <2>5
  <2>7. SizeOf(q, 1) = n
    <3>1. PICK j : j = 1 + 1
      OBVIOUS
    <3>2. SizeOf(q, 1) = SizeBase * q[1] + q[j]
      BY <3>1, Zenon DEF SizeOf
    <3>3. j = 2
      BY <3>1
    <3>4. SizeBase * High(n) + Low(n) = n
      BY <1>3, SizeBytesAre
    <3> QED BY <2>6, <3>2, <3>3, <3>4
  <2>8. Len(q) < 1 + 2 + n
    BY <1>3, <2>4
  <2> QED BY <1>3, <2>4, <2>7, <2>8, TooFew
<1> QED BY <1>5, <1>7, <1>8, <1>9 DEF GentlyHit

\* A status that is hit does not say yes, and that of the data was no before.
LEMMA HitStatus ==
    ASSUME NEW w \in Byte, NEW what \in {"status", "receipt"}, NEW q, GentlyHit(<<w>>, what, q)
    PROVE  /\ q = <<>> \/ \E b \in Refusals : q = <<b>>
           /\ what = "receipt" => w # STATUS_OK
<1>1. PICK m : m = <<w>>
  OBVIOUS
<1>2. m \in Seq(Byte) /\ Len(m) = 1 /\ m[1] = w
  BY <1>1, OneByte
<1>3. DOMAIN m = {1}
  BY <1>1
<1>4. what \in Sends
  BY DEF Sends
<1>5. GentlyHit(m, what, q)
  BY <1>1
<1>6. ASSUME NEW b, Kind(what, 1, w, b) \in Gentle
      PROVE  b # STATUS_OK /\ (what = "receipt" => w # STATUS_OK)
  <2>1. what = "status" => StatusKind(b) \in Gentle
    BY <1>4, <1>6, KindIs
  <2>2. what = "receipt" => ReceiptKind(w, b) \in Gentle
    BY <1>4, <1>6, KindIs
  <2>3. StatusKind(b) \in Gentle => b # STATUS_OK
    BY GentleIs DEF StatusKind, Lost, STATUS_OK
  <2>4. ReceiptKind(w, b) \in Gentle => w # STATUS_OK /\ StatusKind(b) \in Gentle
    BY GentleIs DEF ReceiptKind
  <2> QED BY <2>1, <2>2, <2>3, <2>4
<1>7. ASSUME NEW b \in Byte \ {m[1]}, q = [m EXCEPT ![1] = b], Kind(what, 1, m[1], b) \in Gentle
      PROVE  (\E d \in Refusals : q = <<d>>) /\ (what = "receipt" => w # STATUS_OK)
  <2>1. b # STATUS_OK /\ (what = "receipt" => w # STATUS_OK)
    BY <1>2, <1>6, <1>7
  <2>2. q = <<b>>
    BY <1>1, <1>7
  <2> QED BY <2>1, <2>2 DEF Refusals
<1>8. ASSUME q = Without(m, 1, Gap(what, 1)), Kind(what, 1, m[1], Lost) \in Gentle
      PROVE  q = <<>> /\ (what = "receipt" => w # STATUS_OK)
  <2>1. Gap(what, 1) = 1
    BY DEF Gap
  <2>2. 1 \in 1 .. Len(m)
    BY <1>2
  <2>3. Without(m, 1, 1) \in Seq(Byte) /\ Len(Without(m, 1, 1)) = Len(m) - 1
    BY <1>2, <2>2, WithoutIs
  <2>4. Len(q) = 0 /\ q \in Seq(Byte)
    BY <1>2, <1>8, <2>1, <2>3
  <2>5. q = <<>>
    BY <2>4, EmptySeq
  <2> QED BY <1>2, <1>6, <1>8, <2>5
<1> QED BY <1>3, <1>5, <1>7, <1>8 DEF GentlyHit

\* Where the two sides are after a trouble that has one of them wait for bytes that do not
\* come, or take a byte for a refusal.  One of them is at its end, or will be when it has
\* read what is there, and nothing is executed any more.
Waiting == vpc # "idle" /\ executions <= 1 /\ ~VictorCanRead /\ ~PicoCanRead

\* The Pico has a request before it that has no end.
Tardy == /\ vpc = "commandStatus" /\ executions = 0 /\ toVictor = <<>>
         /\ \E s \in Seq(Byte), q \in Seq(Byte) : toPico = s \o q /\ Stale(s) /\ Unfit(q)
\* The driver has a refusal before it and the Pico waits for data.
Misheard == /\ vpc = "commandStatus" /\ call \in Calls /\ executions = 0
            /\ toPico = <<>> /\ ppc = "data" /\ \E b \in Refusals : toVictor = <<b>>
\* The call has returned, and the Pico waits for what belongs to it.
Deaf == /\ vpc = "idle" /\ executions <= 1 /\ toVictor = <<>> /\ toPico = <<>>
        /\ ppc \in {"data", "ackCommand", "ackData"}
\* The driver has a header before it that has no end.
Clipped == /\ vpc = "dataStatus" /\ executions = 1 /\ toPico = <<>> /\ ppc = "ackCommand"
           /\ \E q \in Seq(Byte) : toVictor = <<STATUS_OK>> \o q /\ ~Complete(q, 3)
\* The Pico has a refusal before it and the driver waits for the answer.
Refuted == /\ vpc = "responseData" /\ executions = 1 /\ toVictor = <<>> /\ ppc = "ackCommand"
           /\ \E b \in Refusals : toPico = <<b>>
\* The Pico has stopped.
Halted == /\ ppc = "stopped"
          /\ \/ vpc = "idle" /\ executions <= 1 /\ toVictor = <<>>
             \/ /\ vpc \in {"commandStatus", "dataStatus"} /\ call \in Calls /\ executions = 0
                /\ toVictor = <<>> \/ \E b \in Refusals : toVictor = <<b>>

Apart == Waiting \/ Tardy \/ Misheard \/ Deaf \/ Clipped \/ Refuted \/ Halted

Settled == Bearable => Together \/ Apart

\* Waiting is what is left when both queues hold nothing that could be read.
LEMMA NothingComes ==
    ASSUME toPico' = <<>>, toVictor' = <<>>, vpc' # "idle", executions' <= 1,
           ppc' \in {"command", "data", "ackCommand", "ackData"}
    PROVE  Waiting'
BY NothingToRead DEF Waiting, VictorCanRead, PicoCanRead

LEMMA AsksApart ==
    ASSUME Asks, TroubleOK, NEW e \in Gentle, Struck(e)
    PROVE  Apart'
<1>1. PICK s \in Seq(Byte), q \in Seq(Byte) :
           toPico' = s \o q /\ Stale(s)' /\ Outcome(RequestOf(call'), "request", q)
  BY DEF Asks
<1>2. PICK c \in Calls : c = call'
  BY DEF Asks, Under
<1>3. RequestOf(c) \in Seq(Byte)
  BY RequestBytes
<1>4. GentlyHit(RequestOf(c), "request", q)
  BY <1>1, <1>2, <1>3, GentleIsStruck, SendsAre
<1>5. Unfit(q)
  BY <1>4, ShortRequest
<1>6. vpc' = "commandStatus" /\ executions' = 0 /\ toVictor' = <<>>
  BY DEF Asks, Under, NotYet
<1> QED BY <1>1, <1>5, <1>6 DEF Tardy, Apart

LEMMA StatusStruck ==
    ASSUME TroubleOK, NEW e \in Gentle, Struck(e), NEW w \in Byte,
           NEW what \in {"status", "receipt"}, NEW q, Outcome(<<w>>, what, q)
    PROVE  /\ q = <<>> \/ \E b \in Refusals : q = <<b>>
           /\ what = "receipt" => w # STATUS_OK
<1>1. <<w>> \in Seq(Byte) /\ what \in Sends
  BY OneByte DEF Sends
<1>2. GentlyHit(<<w>>, what, q)
  BY <1>1, GentleIsStruck
<1> QED BY <1>2, HitStatus

LEMMA JudgesCommandApart ==
    ASSUME JudgesCommand, TroubleOK, NEW e \in Gentle, Struck(e)
    PROVE  (Together \/ Apart)'
<1>1. /\ Under("commandStatus")' /\ NotYet' /\ toPico' = <<>>
      /\ vpc' = "commandStatus" /\ executions' = 0 /\ call' \in Calls
  BY DEF JudgesCommand, Under, NotYet
<1>2. STATUS_OK \in Byte /\ INVALID_CRC \in Byte
  BY StatusesAreBytes
<1>3. toVictor' = <<>> \/ \E b \in Refusals : toVictor' = <<b>>
  BY <1>2, StatusStruck DEF JudgesCommand
<1>4. ppc' \in {"data", "command"}
  BY DEF JudgesCommand
<1>5. CASE toVictor' = <<>>
  <2>1. vpc' # "idle" /\ executions' <= 1
    BY <1>1
  <2> QED BY <1>1, <1>4, <1>5, <2>1, NothingComes DEF Apart
<1>6. CASE (\E b \in Refusals : toVictor' = <<b>>) /\ ppc' = "data"
  BY <1>1, <1>6 DEF Misheard, Apart
<1>7. CASE (\E b \in Refusals : toVictor' = <<b>>) /\ ppc' = "command"
  BY <1>1, <1>7 DEF Refused, Together
<1> QED BY <1>3, <1>4, <1>5, <1>6, <1>7

LEMMA SendsDataApart ==
    ASSUME SendsData, TroubleOK, NEW e \in Gentle, Struck(e)
    PROVE  Apart'
<1>1. /\ vpc' = "dataStatus" /\ executions' = 0 /\ toVictor' = <<>> /\ ppc' = "data"
      /\ Outcome(DataBytes(call'.data), "data", toPico')
  BY DEF SendsData, Under, NotYet
<1>2. PICK c \in Calls : c = call'
  BY DEF SendsData, Under
<1>3. Sized(c.data) /\ DataBytes(c.data) \in Seq(Byte)
  BY CallIs, CallBytesAre
<1>4. GentlyHit(DataBytes(c.data), "data", toPico')
  BY <1>1, <1>2, <1>3, GentleIsStruck, SendsAre
<1>5. ~Complete(toPico', 1)
  BY <1>3, <1>4, ShortData
<1>6. ~VictorCanRead' /\ ~PicoCanRead'
  BY <1>1, <1>5 DEF VictorCanRead, PicoCanRead
<1> QED BY <1>1, <1>6 DEF Waiting, Apart

LEMMA JudgesDataApart ==
    ASSUME JudgesData, TroubleOK, NEW e \in Gentle, Struck(e)
    PROVE  (Together \/ Apart)'
<1>1. /\ Under("dataStatus")' /\ NotYet' /\ toPico' = <<>>
      /\ vpc' = "dataStatus" /\ executions' = 0
  BY DEF JudgesData, Under, NotYet
<1>2. STATUS_OK \in Byte /\ INVALID_CRC \in Byte
  BY StatusesAreBytes
<1>3. /\ toVictor' = <<>> \/ \E b \in Refusals : toVictor' = <<b>>
      /\ ppc' = "command"
  BY <1>2, StatusStruck DEF JudgesData
<1>4. CASE toVictor' = <<>>
  <2>1. vpc' # "idle" /\ executions' <= 1
    BY <1>1
  <2> QED BY <1>1, <1>3, <1>4, <2>1, NothingComes DEF Apart
<1>5. CASE \E b \in Refusals : toVictor' = <<b>>
  BY <1>1, <1>3, <1>5 DEF Refused, Together
<1> QED BY <1>3, <1>4, <1>5

LEMMA RespondsApart ==
    ASSUME Responds, TroubleOK, NEW e \in Gentle, Struck(e)
    PROVE  Apart'
<1>1. executions' = 1 /\ toPico' = <<>> /\ ppc' = "ackCommand"
  BY DEF Responds, Executed
<1>2. PICK q \in Seq(Byte) :
          /\ Outcome(HeaderOf(call'), "header", q)
          /\ \/ Under("dataStatus")' /\ toVictor' = <<STATUS_OK>> \o q
             \/ Under("response")' /\ toVictor' = q
  BY DEF Responds
<1>3. PICK c \in Calls : c = call'
  BY <1>2 DEF Under
<1>4. HeaderOf(c) \in Seq(Byte)
  BY CallBytesAre
<1>5. GentlyHit(HeaderOf(c), "header", q)
  BY <1>2, <1>3, <1>4, GentleIsStruck, SendsAre
<1>6. ~Complete(q, 3)
  BY <1>5, ShortHeader
<1>7. CASE Under("dataStatus")' /\ toVictor' = <<STATUS_OK>> \o q
  BY <1>1, <1>6, <1>7 DEF Under, Clipped, Apart
<1>8. CASE Under("response")' /\ toVictor' = q
  <2>1. vpc' = "response" /\ ~Complete(toVictor', 3)
    BY <1>6, <1>8 DEF Under
  <2>2. ~VictorCanRead' /\ ~PicoCanRead'
    BY <1>1, <2>1 DEF VictorCanRead, PicoCanRead
  <2> QED BY <1>1, <2>1, <2>2 DEF Waiting, Apart
<1> QED BY <1>2, <1>7, <1>8

LEMMA AcksHeaderApart ==
    ASSUME AcksHeader, TroubleOK, NEW e \in Gentle, Struck(e)
    PROVE  (Together \/ Apart)'
<1>1. toVictor' = <<>> /\ ppc' = "ackCommand" /\ executions' = 1 /\ executions' <= 1
  BY DEF AcksHeader
<1>2. STATUS_OK \in Byte /\ INVALID_CRC \in Byte
  BY StatusesAreBytes
<1>3. toPico' = <<>> \/ \E b \in Refusals : toPico' = <<b>>
  BY <1>2, StatusStruck DEF AcksHeader
<1>4. vpc' \in {"responseData", "idle"}
  BY DEF AcksHeader, Under
<1>5. CASE toPico' = <<>> /\ vpc' = "responseData"
  BY <1>1, <1>5, NothingComes DEF Apart
<1>6. CASE toPico' = <<>> /\ vpc' = "idle"
  BY <1>1, <1>6 DEF Deaf, Apart
<1>7. CASE (\E b \in Refusals : toPico' = <<b>>) /\ vpc' = "responseData"
  BY <1>1, <1>7 DEF Refuted, Apart
<1>8. CASE (\E b \in Refusals : toPico' = <<b>>) /\ vpc' = "idle"
  BY <1>1, <1>8 DEF Idle, Stale, Together
<1> QED BY <1>3, <1>4, <1>5, <1>6, <1>7, <1>8

LEMMA DeliversApart ==
    ASSUME Delivers, TroubleOK, Sized(response'), NEW e \in Gentle, Struck(e)
    PROVE  Apart'
<1>1. /\ vpc' = "responseData" /\ executions' = 1 /\ toPico' = <<>> /\ ppc' = "ackData"
      /\ Outcome(DataBytes(response'), "answer", toVictor')
  BY DEF Delivers, Under, Executed
<1>2. PICK data : data = response'
  OBVIOUS
<1>3. Sized(data) /\ DataBytes(data) \in Seq(Byte)
  BY <1>2, DataBytesAre
<1>4. GentlyHit(DataBytes(data), "answer", toVictor')
  BY <1>1, <1>2, <1>3, GentleIsStruck, SendsAre
<1>5. ~Complete(toVictor', 1)
  BY <1>3, <1>4, ShortData
<1>6. ~VictorCanRead' /\ ~PicoCanRead'
  BY <1>1, <1>5 DEF VictorCanRead, PicoCanRead
<1> QED BY <1>1, <1>6 DEF Waiting, Apart

LEMMA AcksDataApart ==
    ASSUME AcksData, TroubleOK, NEW e \in Gentle, Struck(e)
    PROVE  (Together \/ Apart)'
<1>1. /\ vpc' = "idle" /\ toVictor' = <<>> /\ ppc' = "ackData" /\ executions' = 1
      /\ executions' <= 1
  BY DEF AcksData
<1>2. STATUS_OK \in Byte /\ INVALID_CRC \in Byte
  BY StatusesAreBytes
<1>3. toPico' = <<>> \/ \E b \in Refusals : toPico' = <<b>>
  BY <1>2, StatusStruck DEF AcksData
<1>4. CASE toPico' = <<>>
  BY <1>1, <1>4 DEF Deaf, Apart
<1>5. CASE \E b \in Refusals : toPico' = <<b>>
  BY <1>1, <1>5 DEF Idle, Stale, Refusals, Together
<1> QED BY <1>3, <1>4, <1>5

\* No room for the next Payload, while both sides are together.
LEMMA Halts ==
    ASSUME Together, NoPayloadMemory
    PROVE  Halted'
<1>1. ppc = "command" /\ ppc' = "stopped" /\ toVictor' = toVictor /\ UNCHANGED <<executions, victor>>
  BY DEF NoPayloadMemory, line
<1>2. UNCHANGED <<vpc, call>>
  BY <1>1, SameDriver
<1>3. CASE Idle
  BY <1>1, <1>2, <1>3 DEF Idle, Halted
<1>4. CASE Asked
  BY <1>1, <1>2, <1>4 DEF Asked, Under, NotYet, Halted
<1>5. CASE Refused
  BY <1>1, <1>2, <1>5 DEF Refused, Under, NotYet, Halted
<1>6. Idle \/ Asked \/ Refused
  BY <1>1 DEF Together, Granted, Sent, Taken, Answered, Agreed, Delivered
<1> QED BY <1>3, <1>4, <1>5, <1>6

LEMMA GentleLeads ==
    ASSUME TypeInv, TypeInv', Together, [Next]_vars, NEW e \in Gentle, Struck(e)
    PROVE  (Together \/ Apart)'
<1>1. TroubleOK /\ Sized(response')
  BY DEF TypeInv, TypeOK, TroubleOK
<1>2. trouble' # trouble /\ \A f \in Kinds : Struck(f) => f = e
  BY <1>1, TroubleTells, ContentIsKind DEF Struck
<1>3. CASE Goes
  BY <1>1, <1>2, <1>3, AsksApart, JudgesCommandApart, SendsDataApart, JudgesDataApart,
     RespondsApart, AcksHeaderApart, DeliversApart, AcksDataApart DEF Goes
<1>4. CASE Failures /\ ~NoSuchUnit
  <2>1. NoPayloadMemory
    <3>1. \A f \in {"framing", "null", "reset"} : f \in Kinds /\ f \notin Gentle
      BY DEF Kinds, Gentle
    <3>2. ~NoPayloadMemory => \E f \in {"framing", "null", "reset"} : Struck(f)
      BY <1>1, <1>4, FailuresStrike
    <3> QED BY <1>2, <3>1, <3>2
  <2> QED BY <2>1, Halts DEF Apart
<1> QED BY <1>3, <1>4, TogetherGoes

\* What can happen without a trouble when no request is to be executed.
LEMMA QuietStep ==
    ASSUME TroubleOK, [Next]_vars, trouble' = trouble, ppc \notin {"dispatch", "handshake"}
    PROVE  \/ DosCall \/ Victor \/ PicoCommand \/ PicoData \/ PicoAckCommand \/ PicoAckData
           \/ UNCHANGED vars
<1>1. ~PicoDispatch /\ ~PicoHandshake /\ ~NoSuchUnit
  BY DEF PicoDispatch, PicoHandshake, NoSuchUnit
<1>2. \A f \in Kinds : ~Struck(f)
  BY TroubleTells DEF Struck
<1>3. "memory" \in Kinds /\ \A f \in {"framing", "null", "reset"} : f \in Kinds
  BY DEF Kinds
<1>4. ~Failures
  BY <1>1, <1>2, <1>3, FailuresStrike
<1> QED BY <1>1, <1>4 DEF Next, Firmware

\* A request sent without a trouble.
LEMMA SentWhole ==
    ASSUME TroubleOK, LineTypes, trouble' = trouble, NEW c \in Calls, NEW rest, SendCommand(rest, c),
           toPico = <<>>
    PROVE  toVictor' = rest /\ toPico' = RequestOf(c)
<1>1. PICK m : m = RequestOf(c)
  OBVIOUS
<1>2. m \in Seq(Byte)
  BY <1>1, RequestBytes
<1>3. toVictor' = rest /\ Arrives(toPico, m, "request", toPico')
  BY <1>1 DEF SendCommand, RequestOf
<1>4. PICK q \in Seq(Byte) : toPico' = toPico \o q /\ Outcome(m, "request", q)
  BY <1>2, <1>3, SendsAre, ArrivesIs DEF LineTypes
<1>5. \A k, w, b : ~Struck(Kind("request", k, w, b))
  BY KindIs, SendsAre, TroubleTells DEF Struck
<1>6. q = m
  BY <1>4, <1>5 DEF Outcome
<1> QED BY <1>1, <1>3, <1>4, <1>6, Fronted, StatusesAreBytes

LEMMA WaitingStays ==
    ASSUME Waiting, TroubleOK, [Next]_vars, trouble' = trouble
    PROVE  Waiting'
<1>1. vpc # "idle" /\ ~VictorCanRead /\ ~PicoCanRead
  BY DEF Waiting
<1>2. ppc # "dispatch"
  BY <1>1 DEF PicoCanRead
<1>3. ~DosCall /\ ~Victor
  BY <1>1 DEF DosCall, Victor, VictorCommandStatus, VictorDataStatus, VictorResponse,
              VictorResponseData, VictorCanRead
<1>4. ~PicoCommand /\ ~PicoData /\ ~PicoAckCommand /\ ~PicoAckData /\ ~PicoHandshake
  BY <1>1 DEF PicoCommand, PicoData, PicoAckCommand, PicoAckData, PicoHandshake, PicoCanRead
<1>5. ~Failures /\ ~PicoDispatch
  <2>1. \A f \in Kinds : ~Struck(f)
    BY TroubleTells DEF Struck
  <2>2. "memory" \in Kinds /\ \A f \in {"framing", "null", "reset"} : f \in Kinds
    BY DEF Kinds
  <2>3. ~NoSuchUnit /\ ~PicoDispatch
    BY <1>2 DEF NoSuchUnit, PicoDispatch
  <2> QED BY <2>1, <2>2, <2>3, FailuresStrike
<1>6. UNCHANGED vars
  BY <1>3, <1>4, <1>5 DEF Next, Firmware
<1>7. UNCHANGED <<vpc, toVictor, toPico, ppc, executions>>
  BY <1>6 DEF vars, line, victor, pico
<1> QED BY <1>7 DEF Waiting, VictorCanRead, PicoCanRead

LEMMA TardyStays ==
    ASSUME Tardy, TroubleOK, LineTypes, [Next]_vars, trouble' = trouble
    PROVE  Tardy'
<1>1. vpc = "commandStatus" /\ executions = 0 /\ toVictor = <<>>
  BY DEF Tardy
<1>2. PICK s \in Seq(Byte), q \in Seq(Byte) : toPico = s \o q /\ Stale(s) /\ Unfit(q)
  BY DEF Tardy
<1>3. ppc \in {"command", "ackCommand", "ackData"}
  BY <1>2 DEF Stale
<1>4. ~DosCall /\ ~Victor /\ ~PicoData
  BY <1>1, <1>3 DEF DosCall, Victor, VictorCommandStatus, VictorDataStatus, VictorResponse,
              VictorResponseData, PicoData
<1>5. CASE UNCHANGED vars
  <2>1. UNCHANGED <<vpc, toVictor, toPico, ppc, executions>>
    BY <1>5 DEF vars, line, victor, pico
  <2> QED BY <1>1, <1>2, <2>1 DEF Tardy, Stale
<1>6. ~PicoCommand
  <2>1. ASSUME ppc = "command" PROVE toPico = q
    <3>1. s = <<>>
      BY <1>2, <2>1 DEF Stale
    <3> QED BY <1>2, <3>1, Fronted, StatusesAreBytes
  <2> QED BY <1>2, <2>1 DEF PicoCommand, Unfit
<1>7. ASSUME PicoAckCommand \/ PicoAckData PROVE Tardy'
  <2>1. /\ ppc \in {"ackCommand", "ackData"} /\ toPico' = Tail(toPico)
        /\ UNCHANGED <<executions, victor>>
    BY <1>7 DEF PicoAckCommand, PicoAckData
  <2>2. PICK b \in Byte : s = <<b>> /\ (ppc = "ackCommand" => b # STATUS_OK)
    BY <1>2, <2>1 DEF Stale, Refusals
  <2>3. Tail(toPico) = q /\ (ppc = "ackCommand" => Head(toPico) # STATUS_OK)
    BY <1>2, <2>2, Fronted
  <2>4. ppc' = "command" /\ toVictor' = toVictor
    BY <1>7, <2>3 DEF PicoAckCommand, PicoAckData, AfterRefusal
  <2>5. <<>> \in Seq(Byte) /\ Stale(<<>>)' /\ toPico' = <<>> \o q
    BY <2>1, <2>3, <2>4, NoByte, Fronted, StatusesAreBytes DEF Stale
  <2>6. vpc' = vpc
    BY <2>1, SameDriver
  <2> QED BY <1>1, <1>2, <2>1, <2>4, <2>5, <2>6 DEF Tardy
<1> QED BY <1>3, <1>4, <1>5, <1>6, <1>7, QuietStep

\* The refused request is sent again, to a Pico that takes it for data; or the call fails.
LEMMA MisheardLeads ==
    ASSUME Misheard, TroubleOK, LineTypes, [Next]_vars, trouble' = trouble
    PROVE  Apart'
<1>1. /\ vpc = "commandStatus" /\ call \in Calls /\ executions = 0
      /\ toPico = <<>> /\ ppc = "data"
  BY DEF Misheard
<1>2. PICK b \in Refusals : toVictor = <<b>>
  BY DEF Misheard
<1>3. b \in Byte /\ b # STATUS_OK /\ Head(toVictor) = b /\ Tail(toVictor) = <<>>
  BY <1>2, RefusalIs, Fronted, NoByte
<1>4. ~PicoCommand /\ ~PicoData /\ ~PicoAckCommand /\ ~PicoAckData /\ ~DosCall
  BY <1>1, NothingToRead DEF PicoCommand, PicoData, PicoAckCommand, PicoAckData, DosCall
<1>5. CASE UNCHANGED vars
  <2>1. UNCHANGED <<vpc, call, toVictor, toPico, ppc, executions>>
    BY <1>5 DEF vars, line, victor, pico
  <2> QED BY <1>1, <1>2, <2>1 DEF Misheard, Apart
<1>6. ASSUME Victor PROVE Apart'
  <2>1. VictorCommandStatus
    BY <1>1, <1>6 DEF Victor, VictorDataStatus, VictorResponse, VictorResponseData
  <2>2. Retry /\ ppc' = "data" /\ executions' = 0
    BY <1>1, <1>3, <2>1 DEF VictorCommandStatus, pico
  <2>3. CASE SendCommand(Tail(toVictor), call) /\ vpc' = "commandStatus"
    <3>1. toVictor' = <<>> /\ toPico' = RequestOf(call)
      BY <1>1, <1>3, <2>3, SentWhole
    <3>2. ~Complete(toPico', 1)
      BY <1>1, <3>1, TailOfRequest
    <3>3. ~VictorCanRead' /\ ~PicoCanRead'
      BY <2>2, <2>3, <3>1, <3>2 DEF VictorCanRead, PicoCanRead
    <3> QED BY <2>2, <2>3, <3>3 DEF Waiting, Apart
  <2>4. CASE vpc' = "idle" /\ toVictor' = Tail(toVictor) /\ UNCHANGED <<attempt, toPico, trouble>>
    BY <1>1, <1>3, <2>2, <2>4 DEF Deaf, Apart
  <2> QED BY <2>2, <2>3, <2>4 DEF Retry, Returned
<1> QED BY <1>1, <1>4, <1>5, <1>6, QuietStep

\* The next request is taken for the rest of the last one.
LEMMA DeafLeads ==
    ASSUME Deaf, TroubleOK, LineTypes, [Next]_vars, trouble' = trouble
    PROVE  Apart'
<1>1. /\ vpc = "idle" /\ executions <= 1 /\ toVictor = <<>> /\ toPico = <<>>
      /\ ppc \in {"data", "ackCommand", "ackData"}
  BY DEF Deaf
<1>2. ~PicoCommand /\ ~PicoData /\ ~PicoAckCommand /\ ~PicoAckData /\ ~Victor
  BY <1>1, NothingToRead
     DEF PicoCommand, PicoData, PicoAckCommand, PicoAckData, Victor, VictorCommandStatus,
         VictorDataStatus, VictorResponse, VictorResponseData
<1>3. CASE UNCHANGED vars
  <2>1. UNCHANGED <<vpc, toVictor, toPico, ppc, executions>>
    BY <1>3 DEF vars, line, victor, pico
  <2> QED BY <1>1, <2>1 DEF Deaf, Apart
<1>4. ASSUME DosCall PROVE Apart'
  <2>1. PICK c \in Calls : SendCommand(toVictor, c)
    BY <1>4 DEF DosCall
  <2>2. toVictor' = <<>> /\ toPico' = RequestOf(c)
    BY <1>1, <2>1, SentWhole
  <2>3. vpc' = "commandStatus" /\ executions' = 0 /\ ppc' = ppc
    BY <1>4 DEF DosCall
  <2>4. PICK t : t = Tail(RequestOf(c))
    OBVIOUS
  <2>5. t \in Seq(Byte) /\ RequestOf(c) = <<2>> \o t /\ Unfit(t) /\ ~Complete(RequestOf(c), 1)
    BY <2>4, TailOfRequest
  <2>6. CASE ppc = "data"
    <3>1. ~VictorCanRead' /\ ~PicoCanRead'
      BY <2>2, <2>3, <2>5, <2>6 DEF VictorCanRead, PicoCanRead
    <3> QED BY <2>3, <3>1 DEF Waiting, Apart
  <2>7. CASE ppc \in {"ackCommand", "ackData"}
    <3>1. 2 \in Refusals /\ 2 \in Byte /\ <<2>> \in Seq(Byte)
      BY DEF Refusals, Byte, STATUS_OK
    <3>2. Stale(<<2>>)'
      BY <2>3, <2>7, <3>1 DEF Stale
    <3> QED BY <2>2, <2>3, <2>5, <3>1, <3>2 DEF Tardy, Apart
  <2> QED BY <1>1, <2>6, <2>7
<1> QED BY <1>1, <1>2, <1>3, <1>4, QuietStep

LEMMA ClippedLeads ==
    ASSUME Clipped, TroubleOK, [Next]_vars, trouble' = trouble
    PROVE  Apart'
<1>1. vpc = "dataStatus" /\ executions = 1 /\ toPico = <<>> /\ ppc = "ackCommand"
  BY DEF Clipped
<1>2. PICK q \in Seq(Byte) : toVictor = <<STATUS_OK>> \o q /\ ~Complete(q, 3)
  BY DEF Clipped
<1>3. Head(toVictor) = STATUS_OK /\ Tail(toVictor) = q
  BY <1>2, Fronted, StatusesAreBytes
<1>4. ~PicoCommand /\ ~PicoData /\ ~PicoAckCommand /\ ~PicoAckData /\ ~DosCall
  BY <1>1, NothingToRead DEF PicoCommand, PicoData, PicoAckCommand, PicoAckData, DosCall
<1>5. CASE UNCHANGED vars
  <2>1. UNCHANGED <<vpc, toVictor, toPico, ppc, executions>>
    BY <1>5 DEF vars, line, victor, pico
  <2> QED BY <1>1, <1>2, <2>1 DEF Clipped, Apart
<1>6. ASSUME Victor PROVE Apart'
  <2>1. VictorDataStatus
    BY <1>1, <1>6 DEF Victor, VictorCommandStatus, VictorResponse, VictorResponseData
  <2>2. /\ toVictor' = q /\ vpc' = "response" /\ toPico' = <<>>
        /\ ppc' = "ackCommand" /\ executions' = 1
    BY <1>1, <1>3, <2>1 DEF VictorDataStatus, pico
  <2>3. ~VictorCanRead' /\ ~PicoCanRead'
    BY <1>2, <2>2 DEF VictorCanRead, PicoCanRead
  <2> QED BY <2>2, <2>3 DEF Waiting, Apart
<1> QED BY <1>1, <1>4, <1>5, <1>6, QuietStep

LEMMA RefutedLeads ==
    ASSUME Refuted, TroubleOK, [Next]_vars, trouble' = trouble
    PROVE  Apart'
<1>1. vpc = "responseData" /\ executions = 1 /\ toVictor = <<>> /\ ppc = "ackCommand"
  BY DEF Refuted
<1>2. PICK b \in Refusals : toPico = <<b>>
  BY DEF Refuted
<1>3. Head(toPico) # STATUS_OK /\ Tail(toPico) = <<>>
  BY <1>2, RefusalIs, Fronted, NoByte
<1>4. ~DosCall /\ ~Victor /\ ~PicoCommand /\ ~PicoData /\ ~PicoAckData
  BY <1>1, NothingToRead
     DEF DosCall, Victor, VictorCommandStatus, VictorDataStatus, VictorResponse,
         VictorResponseData, PicoCommand, PicoData, PicoAckData
<1>5. CASE UNCHANGED vars
  <2>1. UNCHANGED <<vpc, toVictor, toPico, ppc, executions>>
    BY <1>5 DEF vars, line, victor, pico
  <2> QED BY <1>1, <1>2, <2>1 DEF Refuted, Apart
<1>6. ASSUME PicoAckCommand PROVE Apart'
  <2>1. /\ toPico' = <<>> /\ ppc' = "command" /\ toVictor' = <<>>
        /\ UNCHANGED <<executions, victor>>
    BY <1>1, <1>3, <1>6 DEF PicoAckCommand, AfterRefusal
  <2>2. vpc' # "idle" /\ executions' <= 1
    BY <1>1, <2>1, SameDriver
  <2> QED BY <2>1, <2>2, NothingComes DEF Apart
<1> QED BY <1>1, <1>4, <1>5, <1>6, QuietStep

LEMMA HaltedStays ==
    ASSUME Halted, TroubleOK, [Next]_vars, trouble' = trouble
    PROVE  Halted'
<1>1. ppc = "stopped"
  BY DEF Halted
<1>2. ~PicoCommand /\ ~PicoData /\ ~PicoAckCommand /\ ~PicoAckData
  BY <1>1 DEF PicoCommand, PicoData, PicoAckCommand, PicoAckData
<1>3. CASE UNCHANGED vars
  <2>1. UNCHANGED <<vpc, call, toVictor, ppc, executions>>
    BY <1>3 DEF vars, line, victor, pico
  <2> QED BY <2>1 DEF Halted
<1>4. CASE DosCall
  <2>1. PICK c \in Calls : call' = c /\ SendCommand(toVictor, c)
    BY <1>4 DEF DosCall
  <2>2. vpc = "idle" /\ vpc' = "commandStatus" /\ executions' = 0 /\ ppc' = ppc
    BY <1>4 DEF DosCall
  <2>3. toVictor' = toVictor /\ toVictor = <<>>
    BY <2>1, <2>2 DEF SendCommand, Halted
  <2> QED BY <1>1, <2>1, <2>2, <2>3 DEF Halted
<1>5. CASE Victor
  <2>1. VictorCommandStatus \/ VictorDataStatus
    BY <1>5 DEF Victor, Halted, VictorResponse, VictorResponseData
  <2>2. toVictor # <<>> /\ vpc # "idle" /\ call' = call /\ UNCHANGED pico
    BY <2>1 DEF VictorCommandStatus, VictorDataStatus
  <2>3. PICK b \in Refusals : toVictor = <<b>>
    BY <2>2 DEF Halted
  <2>4. Head(toVictor) # STATUS_OK /\ Tail(toVictor) = <<>>
    BY <2>3, RefusalIs, Fronted, NoByte
  <2>5. Retry
    BY <2>1, <2>4 DEF VictorCommandStatus, VictorDataStatus
  <2>6. toVictor' = <<>> /\ vpc' \in {"commandStatus", "idle"}
    BY <2>4, <2>5 DEF Retry, SendCommand, Returned
  <2>7. call' \in Calls /\ executions' = 0 /\ ppc' = "stopped"
    BY <1>1, <2>2 DEF Halted, pico
  <2>8. executions' <= 1
    BY <2>7
  <2> QED BY <2>6, <2>7, <2>8 DEF Halted
<1> QED BY <1>1, <1>2, <1>3, <1>4, <1>5, QuietStep

LEMMA ApartStays ==
    ASSUME Apart, TypeInv, [Next]_vars, trouble' = trouble
    PROVE  Apart'
<1>1. TroubleOK /\ LineTypes
  BY TypeParts
<1> QED BY <1>1, WaitingStays, TardyStays, MisheardLeads, DeafLeads, ClippedLeads, RefutedLeads,
           HaltedStays DEF Apart

\* A trouble that is bearable was one before, and if it is a gentle one it is the first
\* that is not of bytes under a CRC.
LEMMA BearableBefore ==
    ASSUME TroubleOK, Grows, Bearable'
    PROVE  \/ trouble' = trouble /\ Bearable
           \/ OnlyContent /\ Clean
           \/ OnlyContent /\ \E e \in Gentle : Struck(e)
<1>1. CASE trouble' = trouble
  BY <1>1 DEF Bearable
<1>2. ASSUME NEW e \in Kinds, Struck(e)
      PROVE  OnlyContent /\ (e = "content" \/ e \in Gentle)
  <2>1. PICK n : n = Len(trouble)
    OBVIOUS
  <2>2. trouble \in Seq(Kinds) /\ n \in Nat /\ DOMAIN trouble = 1 .. n
    BY <2>1, LenProperties DEF TroubleOK
  <2>3. PICK t : t = Append(trouble, e)
    OBVIOUS
  <2>4. /\ t \in Seq(Kinds) /\ Len(t) = n + 1 /\ t[n + 1] = e
        /\ \A i \in 1 .. n : t[i] = trouble[i]
    BY <2>1, <2>2, <2>3, AppendProperties
  <2>5. DOMAIN t = 1 .. n + 1
    BY <2>4, LenProperties
  <2>6. t = trouble'
    BY <1>2, <2>3 DEF Struck
  <2>7. \A i \in DOMAIN t : t[i] = "content" \/ (i = Len(t) /\ t[i] \in Gentle)
    BY <2>6 DEF Bearable
  <2>8. n + 1 \in DOMAIN t /\ \A i \in 1 .. n : i \in DOMAIN t /\ i # n + 1
    BY <2>2, <2>5
  <2>9. e = "content" \/ e \in Gentle
    BY <2>4, <2>7, <2>8
  <2>10. \A i \in 1 .. n : trouble[i] = "content"
    BY <2>4, <2>7, <2>8
  <2> QED BY <2>2, <2>9, <2>10 DEF OnlyContent
<1> QED BY <1>1, <1>2 DEF Clean, Struck, Grows

LEMMA CleanIsContent ==
    ASSUME TroubleOK, OnlyContent, Clean
    PROVE  OnlyContent'
<1>1. CASE trouble' = trouble
  BY <1>1 DEF OnlyContent
<1>2. CASE trouble' = Append(trouble, "content")
  <2>1. PICK n : n = Len(trouble)
    OBVIOUS
  <2>2. trouble \in Seq(Kinds) /\ n \in Nat /\ DOMAIN trouble = 1 .. n
    BY <2>1, LenProperties DEF TroubleOK
  <2>3. PICK t : t = Append(trouble, "content")
    OBVIOUS
  <2>4. /\ t \in Seq(Kinds) /\ Len(t) = n + 1 /\ t[n + 1] = "content"
        /\ \A i \in 1 .. n : t[i] = trouble[i]
    BY <2>1, <2>2, <2>3, ContentIsKind, AppendProperties
  <2>5. DOMAIN t = 1 .. n + 1
    BY <2>4, LenProperties
  <2>6. \A i \in 1 .. n + 1 : i = n + 1 \/ i \in 1 .. n
    BY <2>2
  <2>7. \A i \in DOMAIN t : t[i] = "content"
    BY <2>2, <2>4, <2>5, <2>6 DEF OnlyContent
  <2> QED BY <1>2, <2>3, <2>7 DEF OnlyContent
<1> QED BY <1>1, <1>2 DEF Clean

LEMMA StepSettled == TypeInv /\ InStep /\ Settled /\ [Next]_vars => Settled'
<1> SUFFICES ASSUME TypeInv, InStep, Settled, [Next]_vars, Bearable'
             PROVE  (Together \/ Apart)'
  BY DEF Settled
<1>1. TypeInv' /\ Grows /\ TroubleOK
  BY TypeNext, TypeParts
<1>2. CASE trouble' = trouble /\ Bearable
  <2>1. CASE Apart
    BY <1>2, <2>1, ApartStays
  <2>2. CASE Together
    <3>1. Goes
      <4>1. \A f \in {"memory", "framing", "null", "reset"} : ~Struck(f)
        <5>1. \A f \in {"memory", "framing", "null", "reset"} : f \in Kinds
          BY DEF Kinds
        <5> QED BY <1>1, <1>2, <5>1, TroubleTells DEF Struck
      <4>2. ~(Failures /\ ~NoSuchUnit)
        BY <1>1, <4>1, FailuresStrike
      <4> QED BY <2>2, <4>2, TogetherGoes
    <3>2. Clean
      BY <1>2 DEF Clean
    <3> QED BY <1>1, <3>1, <3>2, CleanKeeps
  <2> QED BY <1>2, <2>1, <2>2 DEF Settled
<1>3. CASE OnlyContent /\ Clean
  <2>1. OnlyContent'
    BY <1>1, <1>3, CleanIsContent
  <2>2. InStep'
    BY StepInStep
  <2> QED BY <2>1, <2>2 DEF InStep
<1>4. CASE OnlyContent /\ \E e \in Gentle : Struck(e)
  BY <1>1, <1>4, GentleLeads DEF InStep
<1> QED BY <1>1, <1>2, <1>3, <1>4, BearableBefore

LEMMA StartsSettled == Init => Settled
BY DEF Init, Settled, Together, Idle, Stale

\* Both sides are together, or apart for good, until a trouble that is worse than one that
\* leaves a side waiting.
THEOREM StaysSettled == Spec => [](TypeInv /\ InStep /\ Settled)
<1>1. Init => TypeInv /\ InStep /\ Settled
  BY TypeInit, StartsInStep, StartsSettled
<1>2. TypeInv /\ InStep /\ Settled /\ [Next]_vars => (TypeInv /\ InStep /\ Settled)'
  BY TypeNext, StepInStep, StepSettled
<1> QED BY <1>1, <1>2, PTL DEF Spec

LEMMA OnceAtMost == Together \/ Apart => executions <= 1
<1>1. \A n : n = 0 \/ n = 1 => n <= 1
  OBVIOUS
<1>2. Together => executions <= 1
  BY <1>1 DEF Together, Idle, Asked, Granted, Refused, Sent, Taken, Answered, Agreed, Delivered,
              NotYet, Executed
<1>3. Apart => executions <= 1
  BY <1>1 DEF Apart, Waiting, Tardy, Misheard, Deaf, Clipped, Refuted, Halted
<1> QED BY <1>2, <1>3

\* However often a payload is sent again, and whatever call follows, no request is executed
\* twice while nobody takes a byte for what it is not (send_command_payload,
\* transmit_response).
THEOREM NothingIsDoneTwice == Spec => []NotTwice
<1>1. Settled => NotTwice
  BY OnceAtMost DEF Settled, NotTwice
<1> QED BY <1>1, StaysSettled, PTL

\* Apart, nothing is executed and nothing is answered.
LEMMA ApartIsRight ==
    ASSUME TypeInv, Apart
    PROVE  DispatchIsRight /\ DoneIsRight /\ ~NoAnswerMemory
<1>1. ppc # "dispatch"
  BY DEF Apart, Waiting, Tardy, Misheard, Deaf, Clipped, Refuted, Halted, Stale, PicoCanRead
<1>2. ~(vpc = "responseData" /\ Complete(toVictor, 1))
  BY NothingToRead
     DEF Apart, Waiting, Tardy, Misheard, Deaf, Clipped, Refuted, Halted, VictorCanRead
<1> QED BY <1>1, <1>2
        DEF DispatchIsRight, DoneIsRight, PicoDispatch, NoAnswerMemory, VictorResponseData

LEMMA PromiseWhileBearable ==
    TypeInv /\ InStep /\ Settled /\ [Next]_vars
        => (Bearable' => Promise!Next \/ UNCHANGED Promise!vars)
<1> SUFFICES ASSUME TypeInv, InStep, Settled, [Next]_vars, Bearable'
             PROVE  Promise!Next \/ UNCHANGED Promise!vars
  OBVIOUS
<1>1. TypeInv' /\ Grows /\ TroubleOK
  BY TypeNext, TypeParts
<1>2. Together \/ Apart
  BY <1>1, BearableBefore DEF InStep, Settled
<1>3. ~NoAnswerMemory
  <2>1. ASSUME NoAnswerMemory PROVE FALSE
    <3>1. "null" \in Kinds /\ "null" # "content" /\ "null" \notin Gentle
      BY DEF Kinds, Gentle
    <3>2. Strike(<<"null">>)
      BY <2>1 DEF NoAnswerMemory
    <3>3. Struck("null")
      BY <1>1, <3>1, <3>2, StrikeKeeps
    <3>4. trouble' # trouble /\ \A f \in Kinds : Struck(f) => f = "null"
      BY <1>1, <3>1, <3>3, TroubleTells DEF Struck
    <3>5. ~Clean /\ ~\E e \in Gentle : Struck(e)
      BY <3>1, <3>4, ContentIsKind DEF Clean, Struck
    <3> QED BY <1>1, <3>4, <3>5, BearableBefore
  <2> QED BY <2>1
<1> QED BY <1>2, <1>3, TogetherIsRight, ApartIsRight, PromiseStep

\* DOS has its block device: a request is applied once, whole, between the call and its
\* return, and S_DONE is said of nothing else (readBlock, write_block,
\* send_command_payload, receive_response).
THEOREM PromiseIsKept ==
    ASSUME Sector # {}
    PROVE  Spec => KeepsThePromise
<1>1. Init => Promise!Init
  BY PromiseStarts
<1>2. TypeInv /\ InStep /\ Settled /\ [Next]_vars
        => [Bearable' => Promise!Next \/ UNCHANGED Promise!vars]_vars
  BY PromiseWhileBearable
<1> QED BY <1>1, <1>2, StaysSettled, PTL DEF Spec, KeepsThePromise

-----------------------------------------------------------------------------
(* A reset *)

LEMMA OrphanStep == TypeInv /\ Orphaned /\ [Next]_vars => UNCHANGED <<victor, ppc>>
<1> SUFFICES ASSUME TypeInv, Orphaned, [Next]_vars PROVE UNCHANGED <<victor, ppc>>
  OBVIOUS
<1>1. /\ ppc = "handshake" /\ vpc # "idle" /\ ~VictorCanRead
      /\ STARTUP_HANDSHAKE \notin Range(toPico) /\ toPico \in Seq(Byte)
  BY TypeParts DEF Orphaned, LineTypes
<1>2. ~DosCall
  BY <1>1 DEF DosCall
<1>3. ~Victor
  BY <1>1 DEF Victor, VictorCommandStatus, VictorDataStatus, VictorResponse, VictorResponseData,
              VictorCanRead
<1>4. CASE PicoHandshake
  <2>1. toPico # <<>> /\ victor' = victor
    BY <1>4 DEF PicoHandshake
  <2>2. Head(toPico) \in Range(toPico)
    <3>1. 1 \in DOMAIN toPico /\ Head(toPico) = toPico[1]
      BY <1>1, <2>1
    <3> QED BY <3>1 DEF Range
  <2>3. ~IsHandshake(Head(toPico))
    BY <1>1, <2>2 DEF IsHandshake
  <2> QED BY <1>4, <2>1, <2>3 DEF PicoHandshake
<1>5. CASE PicoResets
  BY <1>1, <1>5 DEF PicoResets
<1>6. CASE UNCHANGED vars
  BY <1>6 DEF vars, pico
<1>7. ~(PicoCommand \/ PicoData \/ PicoDispatch \/ PicoAckCommand \/ PicoAckData)
  BY <1>1 DEF PicoCommand, PicoData, PicoDispatch, PicoAckCommand, PicoAckData
<1>8. ~(NoBuffer \/ NoPayloadMemory \/ NoAnswerMemory \/ NoSuchUnit)
  BY <1>1 DEF NoBuffer, NoPayloadMemory, NoAnswerMemory, NoSuchUnit
<1> QED BY <1>2, <1>3, <1>4, <1>5, <1>6, <1>7, <1>8 DEF Next, Firmware, Failures

\* A driver that waits for a Pico that was reset waits on: the Pico takes nothing but a
\* handshake, and that the driver does not send (wait_for_startup_handshake,
\* receiveBytes).
THEOREM OrphansAreLeft == Spec => OrphansWait
<1>1. TypeInv /\ [Next]_vars => [Orphaned => UNCHANGED <<victor, ppc>>]_vars
  BY OrphanStep
<1>2. Spec => []TypeInv
  BY TypeInit, TypeNext, PTL DEF Spec
<1> QED BY <1>1, <1>2, PTL DEF Spec, OrphansWait
=============================================================================
