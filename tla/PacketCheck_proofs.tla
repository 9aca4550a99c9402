------------------------- MODULE PacketCheck_proofs -------------------------
(***************************************************************************)
(* What the CRC-8 is worth to a packet of any length.                      *)
(***************************************************************************)
EXTENDS PacketCheck, SequenceTheorems, FiniteSetTheorems, WellFoundedInduction, TLAPS

-----------------------------------------------------------------------------
(* Loops.  A loop counts from 0 to n; what holds before it and is kept by a  *)
(* round holds in every round.                                               *)

LEMMA SetInduction ==
    ASSUME NEW T, 0 \in T, \A i \in Nat : i \in T => i + 1 \in T
    PROVE  Nat \subseteq T
<1> SUFFICES ASSUME ~(Nat \subseteq T) PROVE FALSE
  OBVIOUS
<1> DEFINE Less == { pair \in Nat \X Nat : pair[1] < pair[2] }
           Rest == Nat \ T
<1>1. IsWellFoundedOn(Less, Nat)
  BY NatLessThanWellFounded, Zenon DEF OpToRel
<1>2. Rest \subseteq Nat /\ Rest # {}
  OBVIOUS
<1>3. PICK least \in Rest : \A i \in Rest : <<i, least>> \notin Less
  <2> HIDE DEF Less, Rest
  <2> QED BY <1>1, <1>2, WFMin
<1>4. least \in Nat /\ least # 0 /\ least - 1 \in Nat /\ (least - 1) + 1 = least
  OBVIOUS
<1>5. least - 1 \in Rest
  BY <1>4
<1>6. <<least - 1, least>> \in Less
  BY <1>4
<1> QED BY <1>3, <1>5, <1>6

LEMMA LoopKeeps ==
    ASSUME NEW n \in Nat, NEW T, 0 \in T, \A i \in 1 .. n : i - 1 \in T => i \in T
    PROVE  \A i \in 0 .. n : i \in T
<1> DEFINE U == { i \in Nat : i <= n => i \in T }
<1>1. 0 \in U
  OBVIOUS
<1>2. ASSUME NEW i \in Nat, i \in U PROVE i + 1 \in U
  <2>1. CASE i + 1 <= n
    <3>1. i + 1 \in 1 .. n /\ (i + 1) - 1 = i /\ i <= n
      BY <2>1
    <3> QED BY <1>2, <3>1
  <2>2. CASE ~(i + 1 <= n)
    BY <2>2
  <2> QED BY <2>1, <2>2
<1>3. Nat \subseteq U
  <2> HIDE DEF U
  <2> QED BY <1>1, <1>2, SetInduction
<1> QED BY <1>3

\* f has the values of a loop of n rounds that begins with a.
Loop(f, n, S, a, step) ==
    f \in [0 .. n -> S] /\ f[0] = a /\ \A i \in 1 .. n : f[i] = step[i][f[i - 1]]

\* A loop that computes each value from the one before and the round has a value in
\* every round: the recursive functions of Crc8 exist.
LEMMA LoopExists ==
    ASSUME NEW n \in Nat, NEW S, NEW a \in S, NEW step \in [1 .. n -> [S -> S]]
    PROVE  \E f : Loop(f, n, S, a, step)
<1> DEFINE Run(m, f) == f \in [0 .. m -> S] /\ f[0] = a
                        /\ \A i \in 1 .. m : f[i] = step[i][f[i - 1]]
           T == { m \in 0 .. n : \E f \in [0 .. m -> S] : Run(m, f) }
<1>1. 0 \in T
  <2> DEFINE g == [j \in 0 .. 0 |-> a]
  <2>1. g \in [0 .. 0 -> S] /\ Run(0, g)
    OBVIOUS
  <2> HIDE DEF Run, g
  <2> QED BY <2>1
<1>2. ASSUME NEW m \in 1 .. n, m - 1 \in T PROVE m \in T
  <2>1. PICK f \in [0 .. m - 1 -> S] : Run(m - 1, f)
    BY <1>2
  <2> DEFINE g == [j \in 0 .. m |-> IF j = m THEN step[m][f[m - 1]] ELSE f[j]]
  <2>2. m - 1 \in 0 .. m - 1 /\ f[m - 1] \in S /\ \A j \in 0 .. m : j # m => j \in 0 .. m - 1
    OBVIOUS
  <2>3. step[m][f[m - 1]] \in S
    BY <2>2
  <2>4. g \in [0 .. m -> S]
    BY <2>2, <2>3
  <2>5. g[0] = a
    BY <2>1
  <2>6. ASSUME NEW i \in 1 .. m PROVE g[i] = step[i][g[i - 1]]
    <3>1. i - 1 \in 0 .. m /\ i - 1 # m /\ g[i - 1] = f[i - 1]
      OBVIOUS
    <3>2. CASE i = m
      BY <3>1, <3>2
    <3>3. CASE i # m
      <4>1. i \in 1 .. m - 1 /\ g[i] = f[i]
        BY <3>3
      <4> QED BY <2>1, <3>1, <4>1
    <3> QED BY <3>2, <3>3
  <2>7. Run(m, g)
    BY <2>4, <2>5, <2>6
  <2> HIDE DEF Run, g
  <2> QED BY <2>4, <2>7
<1>3. n \in T
  <2>1. \A i \in 0 .. n : i \in T
    <3> HIDE DEF T
    <3> QED BY <1>1, <1>2, LoopKeeps
  <2> QED BY <2>1
<1> QED BY <1>3 DEF Loop

-----------------------------------------------------------------------------
(* Bits *)

\* Bit k of b, for the eight values of k.
LEMMA BitsAre ==
    ASSUME NEW b \in Byte
    PROVE  /\ BitsOf[b] \subseteq 0 .. 7
           /\ 0 \in BitsOf[b] <=> b % 2 = 1
           /\ 1 \in BitsOf[b] <=> (b \div 2) % 2 = 1
           /\ 2 \in BitsOf[b] <=> (b \div 4) % 2 = 1
           /\ 3 \in BitsOf[b] <=> (b \div 8) % 2 = 1
           /\ 4 \in BitsOf[b] <=> (b \div 16) % 2 = 1
           /\ 5 \in BitsOf[b] <=> (b \div 32) % 2 = 1
           /\ 6 \in BitsOf[b] <=> (b \div 64) % 2 = 1
           /\ 7 \in BitsOf[b] <=> (b \div 128) % 2 = 1
<1>1. BitsOf[b] = { k \in 0 .. 7 : (b \div 2^k) % 2 = 1 }
  BY DEF BitsOf
<1>2. /\ 2^0 = 1 /\ 2^1 = 2 /\ 2^2 = 4 /\ 2^3 = 8 /\ 2^4 = 16 /\ 2^5 = 32 /\ 2^6 = 64 /\ 2^7 = 128
      /\ b \div 1 = b
  BY DEF Byte
<1> QED BY <1>1, <1>2

LEMMA BitsDetermine ==
    ASSUME NEW a \in Byte, NEW b \in Byte, BitsOf[a] = BitsOf[b]
    PROVE  a = b
<1>1. ASSUME NEW x \in Byte
      PROVE  x = (x % 2) + 2 * ((x \div 2) % 2) + 4 * ((x \div 4) % 2) + 8 * ((x \div 8) % 2)
                 + 16 * ((x \div 16) % 2) + 32 * ((x \div 32) % 2) + 64 * ((x \div 64) % 2)
                 + 128 * ((x \div 128) % 2)
  BY DEF Byte
<1>2. ASSUME NEW x \in Nat, NEW y \in Nat, x % 2 = 1 <=> y % 2 = 1 PROVE x % 2 = y % 2
  BY <1>2
<1>3. /\ a % 2 = b % 2 /\ (a \div 2) % 2 = (b \div 2) % 2
      /\ (a \div 4) % 2 = (b \div 4) % 2 /\ (a \div 8) % 2 = (b \div 8) % 2
      /\ (a \div 16) % 2 = (b \div 16) % 2 /\ (a \div 32) % 2 = (b \div 32) % 2
      /\ (a \div 64) % 2 = (b \div 64) % 2 /\ (a \div 128) % 2 = (b \div 128) % 2
  <2>1. /\ a \in Nat /\ a \div 2 \in Nat /\ a \div 4 \in Nat /\ a \div 8 \in Nat
        /\ a \div 16 \in Nat /\ a \div 32 \in Nat /\ a \div 64 \in Nat /\ a \div 128 \in Nat
    BY DEF Byte
  <2>2. /\ b \in Nat /\ b \div 2 \in Nat /\ b \div 4 \in Nat /\ b \div 8 \in Nat
        /\ b \div 16 \in Nat /\ b \div 32 \in Nat /\ b \div 64 \in Nat /\ b \div 128 \in Nat
    BY DEF Byte
  <2> QED BY <1>2, <2>1, <2>2, BitsAre
<1> QED BY <1>1, <1>3

\* Eight bits make a byte.
LEMMA ByteOfBits ==
    ASSUME NEW s \in SUBSET (0 .. 7)
    PROVE  ByteOf[s] \in Byte /\ BitsOf[ByteOf[s]] = s
<1> DEFINE D(k) == IF k \in s THEN 1 ELSE 0
           b == D(0) + 2 * D(1) + 4 * D(2) + 8 * D(3) + 16 * D(4) + 32 * D(5) + 64 * D(6) + 128 * D(7)
<1>1. \A k : D(k) \in 0 .. 1 /\ (D(k) = 1 <=> k \in s)
  OBVIOUS
<1>0. ByteOf[s] = b
  <2> DEFINE B(k) == IF k \in s THEN 2^k ELSE 0
  <2>1. ByteOf[s] = B(0) + B(1) + B(2) + B(3) + B(4) + B(5) + B(6) + B(7)
    BY DEF ByteOf
  <2>2. /\ 2^0 = 1 /\ 2^1 = 2 /\ 2^2 = 4 /\ 2^3 = 8 /\ 2^4 = 16 /\ 2^5 = 32 /\ 2^6 = 64 /\ 2^7 = 128
    OBVIOUS
  <2>3. /\ B(0) = D(0) /\ B(1) = 2 * D(1) /\ B(2) = 4 * D(2) /\ B(3) = 8 * D(3)
        /\ B(4) = 16 * D(4) /\ B(5) = 32 * D(5) /\ B(6) = 64 * D(6) /\ B(7) = 128 * D(7)
    BY <2>2
  <2> HIDE DEF B, D
  <2> QED BY <2>1, <2>3
<1>2. b \in Byte
  BY <1>1 DEF Byte
<1>3. ASSUME NEW d0 \in 0 .. 1, NEW d1 \in 0 .. 1, NEW d2 \in 0 .. 1, NEW d3 \in 0 .. 1,
             NEW d4 \in 0 .. 1, NEW d5 \in 0 .. 1, NEW d6 \in 0 .. 1, NEW d7 \in 0 .. 1,
             NEW x, x = d0 + 2 * d1 + 4 * d2 + 8 * d3 + 16 * d4 + 32 * d5 + 64 * d6 + 128 * d7
      PROVE  /\ x % 2 = d0 /\ (x \div 2) % 2 = d1 /\ (x \div 4) % 2 = d2 /\ (x \div 8) % 2 = d3
             /\ (x \div 16) % 2 = d4 /\ (x \div 32) % 2 = d5 /\ (x \div 64) % 2 = d6
             /\ (x \div 128) % 2 = d7
  BY <1>3
<1>4. /\ b % 2 = D(0) /\ (b \div 2) % 2 = D(1) /\ (b \div 4) % 2 = D(2) /\ (b \div 8) % 2 = D(3)
      /\ (b \div 16) % 2 = D(4) /\ (b \div 32) % 2 = D(5) /\ (b \div 64) % 2 = D(6)
      /\ (b \div 128) % 2 = D(7)
  BY <1>1, <1>3
<1> HIDE DEF D, b
<1>5. ASSUME NEW k \in 0 .. 7 PROVE k \in BitsOf[b] <=> k \in s
  BY <1>1, <1>2, <1>4, BitsAre
<1>6. BitsOf[b] = s
  BY <1>2, <1>5, BitsAre
<1> QED BY <1>0, <1>2, <1>6

LEMMA XorBits ==
    ASSUME NEW a \in Byte, NEW b \in Byte
    PROVE  Xor(a, b) \in Byte /\ BitsOf[Xor(a, b)] = (BitsOf[a] \ BitsOf[b]) \cup (BitsOf[b] \ BitsOf[a])
<1>1. BitsOf[a] \subseteq 0 .. 7 /\ BitsOf[b] \subseteq 0 .. 7
  BY BitsAre
<1>2. SymDiff(BitsOf[a], BitsOf[b]) = (BitsOf[a] \ BitsOf[b]) \cup (BitsOf[b] \ BitsOf[a])
  BY DEF SymDiff
<1>3. SymDiff(BitsOf[a], BitsOf[b]) \in SUBSET (0 .. 7)
  BY <1>1, <1>2
<1> QED BY <1>2, <1>3, ByteOfBits DEF Xor

\* XOR can be undone on either side.
LEMMA XorCancels ==
    ASSUME NEW a \in Byte, NEW b \in Byte, NEW x \in Byte
    PROVE  /\ Xor(a, x) = Xor(b, x) => a = b
           /\ Xor(x, a) = Xor(x, b) => a = b
<1> DEFINE Diff(s, t) == (s \ t) \cup (t \ s)
<1>1. Xor(a, x) = Xor(b, x) => BitsOf[a] = BitsOf[b]
  <2>1. ASSUME NEW s, NEW t, NEW u, Diff(s, u) = Diff(t, u) PROVE s = t
    BY <2>1
  <2>2. BitsOf[Xor(a, x)] = Diff(BitsOf[a], BitsOf[x]) /\ BitsOf[Xor(b, x)] = Diff(BitsOf[b], BitsOf[x])
    BY XorBits
  <2> HIDE DEF Diff
  <2> QED BY <2>1, <2>2
<1>2. Xor(x, a) = Xor(x, b) => BitsOf[a] = BitsOf[b]
  <2>1. ASSUME NEW s, NEW t, NEW u, Diff(u, s) = Diff(u, t) PROVE s = t
    BY <2>1
  <2>2. BitsOf[Xor(x, a)] = Diff(BitsOf[x], BitsOf[a]) /\ BitsOf[Xor(x, b)] = Diff(BitsOf[x], BitsOf[b])
    BY XorBits
  <2> HIDE DEF Diff
  <2> QED BY <2>1, <2>2
<1> QED BY <1>1, <1>2, BitsDetermine

-----------------------------------------------------------------------------
(* The table *)

\* Different bytes stay different in a round of generate_crc8_table: the bit that
\* falls out returns as the lowest bit of the polynomial.
LEMMA ShiftedIsByte == ASSUME NEW c \in Byte PROVE Shifted(c) \in Byte
<1>1. (c * 2) % 256 \in Byte /\ POLYNOMIAL \in Byte
  BY DEF Byte, POLYNOMIAL
<1>2. CASE c >= 128
  BY <1>1, <1>2, XorBits DEF Shifted
<1>3. CASE ~(c >= 128)
  BY <1>3 DEF Shifted, Byte
<1> QED BY <1>2, <1>3

LEMMA ShiftedParity ==
    ASSUME NEW c \in Byte
    PROVE  Shifted(c) % 2 = 1 <=> c >= 128
<1>1. CASE c >= 128
  <2> DEFINE e == (c * 2) % 256
  <2>1. e \in Byte /\ POLYNOMIAL \in Byte /\ e % 2 = 0 /\ POLYNOMIAL % 2 = 1
    BY DEF Byte, POLYNOMIAL
  <2> HIDE DEF e
  <2>2. 0 \notin BitsOf[e] /\ 0 \in BitsOf[POLYNOMIAL]
    BY <2>1, BitsAre
  <2>3. Xor(e, POLYNOMIAL) \in Byte /\ 0 \in BitsOf[Xor(e, POLYNOMIAL)]
    BY <2>1, <2>2, XorBits
  <2>4. Xor(e, POLYNOMIAL) % 2 = 1
    BY <2>3, BitsAre
  <2> QED BY <1>1, <2>4 DEF Shifted, e
<1>2. CASE ~(c >= 128)
  BY <1>2 DEF Shifted, Byte
<1> QED BY <1>1, <1>2

LEMMA ShiftedDiffers ==
    ASSUME NEW c \in Byte, NEW d \in Byte, Shifted(c) = Shifted(d)
    PROVE  c = d
<1>1. c >= 128 <=> d >= 128
  BY ShiftedParity
<1>2. CASE c >= 128
  <2>1. Xor((c * 2) % 256, POLYNOMIAL) = Xor((d * 2) % 256, POLYNOMIAL)
    BY <1>1, <1>2 DEF Shifted
  <2>2. (c * 2) % 256 \in Byte /\ (d * 2) % 256 \in Byte /\ POLYNOMIAL \in Byte
    BY DEF Byte, POLYNOMIAL
  <2>3. (c * 2) % 256 = (d * 2) % 256
    BY <2>1, <2>2, XorCancels
  <2> QED BY <1>1, <1>2, <2>3 DEF Byte
<1>3. CASE ~(c >= 128)
  BY <1>1, <1>3 DEF Shifted, Byte
<1> QED BY <1>2, <1>3

\* The eight rounds for the entry i, as crc8_table has them.
Rounds(i) == CHOOSE r : r = [j \in 0 .. 8 |-> IF j = 0 THEN i ELSE Shifted(r[j - 1])]

LEMMA TableEntry ==
    ASSUME NEW i \in Byte
    PROVE  crc8_table[i] = Rounds(i)[8]
BY DEF crc8_table, Rounds

LEMMA RoundsAre ==
    ASSUME NEW i \in Byte
    PROVE  /\ Rounds(i)[0] = i
           /\ \A j \in 1 .. 8 : Rounds(i)[j] = Shifted(Rounds(i)[j - 1])
           /\ \A j \in 0 .. 8 : Rounds(i)[j] \in Byte
<1> DEFINE step == [j \in 1 .. 8 |-> [b \in Byte |-> Shifted(b)]]
<1>1. step \in [1 .. 8 -> [Byte -> Byte]]
  BY ShiftedIsByte
<1>2. PICK f : Loop(f, 8, Byte, i, step)
  <2> HIDE DEF step
  <2>1. 8 \in Nat
    OBVIOUS
  <2> QED BY <1>1, <2>1, LoopExists, Zenon
<1>3. f \in [0 .. 8 -> Byte] /\ f[0] = i /\ \A j \in 1 .. 8 : f[j] = step[j][f[j - 1]]
  BY <1>2 DEF Loop
<1>4. f = [j \in 0 .. 8 |-> IF j = 0 THEN i ELSE Shifted(f[j - 1])]
  <2>1. ASSUME NEW j \in 0 .. 8 PROVE f[j] = IF j = 0 THEN i ELSE Shifted(f[j - 1])
    <3>1. CASE j = 0
      BY <1>3, <3>1
    <3>2. CASE j # 0
      <4>1. j \in 1 .. 8 /\ j - 1 \in 0 .. 8
        BY <3>2
      <4> QED BY <1>3, <3>2, <4>1
    <3> QED BY <3>1, <3>2
  <2> QED BY <1>3, <2>1
<1> DEFINE g == Rounds(i)
<1>5. g = [j \in 0 .. 8 |-> IF j = 0 THEN i ELSE Shifted(g[j - 1])]
  BY <1>4 DEF Rounds
<1>6. g[0] = i /\ \A j \in 1 .. 8 : g[j] = Shifted(g[j - 1])
  <2> HIDE DEF g
  <2> QED BY <1>5
<1>7. \A j \in 0 .. 8 : g[j] \in Byte
  <2> DEFINE T == { j \in 0 .. 8 : g[j] \in Byte }
  <2> HIDE DEF g
  <2>1. 0 \in T
    BY <1>6
  <2>2. ASSUME NEW j \in 1 .. 8, j - 1 \in T PROVE j \in T
    BY <1>6, <2>2, ShiftedIsByte
  <2>3. \A j \in 0 .. 8 : j \in T
    <3> HIDE DEF T
    <3> QED BY <2>1, <2>2, LoopKeeps
  <2> QED BY <2>3
<1> QED BY <1>6, <1>7

LEMMA TableIsByte == ASSUME NEW i \in Byte PROVE crc8_table[i] \in Byte
BY TableEntry, RoundsAre

\* No two entries of the table are equal.
LEMMA TableDiffers ==
    ASSUME NEW a \in Byte, NEW b \in Byte, crc8_table[a] = crc8_table[b]
    PROVE  a = b
<1> DEFINE T == { j \in 0 .. 8 : Rounds(a)[8 - j] = Rounds(b)[8 - j] }
<1>1. 0 \in T
  BY TableEntry
<1>2. ASSUME NEW j \in 1 .. 8, j - 1 \in T PROVE j \in T
  <2>1. 8 - (j - 1) \in 1 .. 8 /\ (8 - (j - 1)) - 1 = 8 - j /\ 8 - j \in 0 .. 8
    OBVIOUS
  <2>2. Shifted(Rounds(a)[8 - j]) = Shifted(Rounds(b)[8 - j])
    BY <1>2, <2>1, RoundsAre
  <2> QED BY <2>1, <2>2, RoundsAre, ShiftedDiffers
<1>3. 8 \in T
  <2>1. \A j \in 0 .. 8 : j \in T
    <3> HIDE DEF T
    <3> QED BY <1>1, <1>2, LoopKeeps
  <2> QED BY <2>1
<1> QED BY <1>3, RoundsAre

-----------------------------------------------------------------------------
(* The CRC *)

\* The register after each byte, as crc8 has it.
Registers(data) ==
    CHOOSE r : r = [i \in 0 .. Len(data) |->
                      IF i = 0 THEN 0 ELSE crc8_table[Xor(r[i - 1], data[i])]]

LEMMA Crc8Is ==
    ASSUME NEW data \in Seq(Byte)
    PROVE  crc8(data) = Registers(data)[Len(data)]
BY DEF crc8, Registers

LEMMA RegistersAre ==
    ASSUME NEW data \in Seq(Byte)
    PROVE  /\ Registers(data)[0] = 0
           /\ \A i \in 1 .. Len(data) :
                 Registers(data)[i] = crc8_table[Xor(Registers(data)[i - 1], data[i])]
           /\ \A i \in 0 .. Len(data) : Registers(data)[i] \in Byte
<1> DEFINE n == Len(data)
           Entry(b, i) == crc8_table[Xor(b, data[i])]
           step == [i \in 1 .. n |-> [b \in Byte |-> Entry(b, i)]]
<1>1. n \in Nat /\ 0 \in Byte /\ \A i \in 1 .. n : data[i] \in Byte
  <2>1. 0 \in Byte
    BY DEF Byte
  <2> QED BY <2>1, LenProperties, ElementOfSeq
<1>2. \A b \in Byte : \A i \in 1 .. n : Entry(b, i) \in Byte
  BY <1>1, XorBits, TableIsByte
<1>3. step \in [1 .. n -> [Byte -> Byte]]
  <2> HIDE DEF Entry, n
  <2> QED BY <1>2
<1>4. PICK f : Loop(f, n, Byte, 0, step)
  <2> HIDE DEF step, n
  <2> QED BY <1>1, <1>3, LoopExists, Zenon
<1>5. f \in [0 .. n -> Byte] /\ f[0] = 0 /\ \A i \in 1 .. n : f[i] = step[i][f[i - 1]]
  BY <1>4 DEF Loop
<1> HIDE DEF n, Entry
<1>6. \A i \in 0 .. n : f[i] = IF i = 0 THEN 0 ELSE Entry(f[i - 1], i)
  <2>1. ASSUME NEW i \in 0 .. n PROVE f[i] = IF i = 0 THEN 0 ELSE Entry(f[i - 1], i)
    <3>1. CASE i = 0
      BY <1>5, <3>1
    <3>2. CASE i # 0
      <4>1. i \in 1 .. n /\ i - 1 \in 0 .. n
        BY <1>1, <3>2
      <4> QED BY <1>5, <3>2, <4>1
    <3> QED BY <3>1, <3>2
  <2> QED BY <2>1
<1>7. f = [i \in 0 .. n |-> IF i = 0 THEN 0 ELSE Entry(f[i - 1], i)]
  BY <1>5, <1>6
<1> DEFINE g == Registers(data)
<1>8. g = [i \in 0 .. n |-> IF i = 0 THEN 0 ELSE Entry(g[i - 1], i)]
  BY <1>7 DEF Registers, n, Entry
<1> HIDE DEF g
<1>9. g[0] = 0 /\ \A i \in 1 .. n : g[i] = Entry(g[i - 1], i)
  BY <1>1, <1>8
<1>10. \A i \in 0 .. n : g[i] \in Byte
  <2> DEFINE T == { i \in 0 .. n : g[i] \in Byte }
  <2>1. 0 \in T
    BY <1>1, <1>9
  <2>2. ASSUME NEW i \in 1 .. n, i - 1 \in T PROVE i \in T
    BY <1>1, <1>2, <1>9, <2>2
  <2>3. \A i \in 0 .. n : i \in T
    <3> HIDE DEF T
    <3> QED BY <1>1, <2>1, <2>2, LoopKeeps
  <2> QED BY <2>3
<1> QED BY <1>9, <1>10 DEF g, n, Entry

LEMMA Crc8IsByte == ASSUME NEW data \in Seq(Byte) PROVE crc8(data) \in Byte
<1>1. Len(data) \in 0 .. Len(data)
  BY LenProperties
<1> QED BY <1>1, Crc8Is, RegistersAre

\* From the damaged byte on the two registers differ: neither XOR with the same byte
\* nor the table brings them together again.
LEMMA OneByteDiffers ==
    ASSUME NEW a \in Seq(Byte), NEW b \in Seq(Byte), Len(a) = Len(b),
           NEW p \in 1 .. Len(a), a[p] # b[p],
           \A i \in 1 .. Len(a) : i # p => a[i] = b[i]
    PROVE  crc8(a) # crc8(b)
<1> DEFINE n == Len(a)
           Same(i) == Registers(a)[i] = Registers(b)[i]
           T == { i \in 0 .. n : Same(i) <=> i < p }
<1>1. n \in Nat /\ n \in 0 .. n /\ ~(n < p)
  BY LenProperties
<1>2. 0 \in T
  BY <1>1, RegistersAre
<1>3. ASSUME NEW i \in 1 .. n, i - 1 \in T PROVE i \in T
  <2> DEFINE s == Registers(a)[i - 1]
             t == Registers(b)[i - 1]
  <2>1. s \in Byte /\ t \in Byte /\ a[i] \in Byte /\ b[i] \in Byte
    <3>1. i - 1 \in 0 .. n /\ i \in 1 .. Len(a) /\ i \in 1 .. Len(b)
      BY <1>1
    <3> QED BY <3>1, RegistersAre
  <2>2. Xor(s, a[i]) \in Byte /\ Xor(t, b[i]) \in Byte
    BY <2>1, XorBits
  <2>3. Registers(a)[i] = crc8_table[Xor(s, a[i])] /\ Registers(b)[i] = crc8_table[Xor(t, b[i])]
    BY RegistersAre
  <2>4. Same(i) <=> Xor(s, a[i]) = Xor(t, b[i])
    BY <2>2, <2>3, TableDiffers
  <2>5. CASE i < p
    <3>1. i - 1 < p /\ i # p
      BY <1>1, <2>5
    <3> QED BY <1>3, <2>4, <2>5, <3>1
  <2>6. CASE i = p
    <3>1. s = t /\ ~(i < p)
      BY <1>1, <1>3, <2>6
    <3> QED BY <2>1, <2>4, <2>6, <3>1, XorCancels
  <2>7. CASE i > p
    <3>1. s # t /\ ~(i < p) /\ i # p
      BY <1>1, <1>3, <2>7
    <3> QED BY <2>1, <2>4, <3>1, XorCancels
  <2> QED BY <1>1, <2>5, <2>6, <2>7
<1>4. n \in T
  <2>1. \A i \in 0 .. n : i \in T
    <3> HIDE DEF T
    <3> QED BY <1>1, <1>2, <1>3, LoopKeeps
  <2> QED BY <1>1, <2>1
<1> QED BY <1>1, <1>4, Crc8Is

-----------------------------------------------------------------------------
(* Packets *)

\* Two sequences of the same length that are not equal at one place and one only.
OneApart(a, b) ==
    /\ Len(a) = Len(b)
    /\ \E p \in 1 .. Len(a) : a[p] # b[p] /\ \A i \in 1 .. Len(a) : i # p => a[i] = b[i]

LEMMA OneApartDiffers ==
    ASSUME NEW a \in Seq(Byte), NEW b \in Seq(Byte), OneApart(a, b)
    PROVE  crc8(a) # crc8(b)
BY OneByteDiffers DEF OneApart

LEMMA OneApartAppend ==
    ASSUME NEW a \in Seq(Byte), NEW b \in Seq(Byte), NEW x \in Byte, NEW y \in Byte
    PROVE  /\ OneApart(a, b) => OneApart(Append(a, x), Append(b, x))
           /\ x # y => OneApart(Append(a, x), Append(a, y))
<1>1. ASSUME NEW s \in Seq(Byte), NEW z \in Byte
      PROVE  /\ Len(Append(s, z)) = Len(s) + 1
             /\ Append(s, z)[Len(s) + 1] = z
             /\ \A i \in 1 .. Len(s) : Append(s, z)[i] = s[i]
  BY AppendProperties
<1>2. Len(a) \in Nat /\ Len(b) \in Nat
  BY LenProperties
<1>3. ASSUME OneApart(a, b) PROVE OneApart(Append(a, x), Append(b, x))
  <2>1. Len(a) = Len(b)
    BY <1>3 DEF OneApart
  <2>2. PICK p \in 1 .. Len(a) : a[p] # b[p] /\ \A i \in 1 .. Len(a) : i # p => a[i] = b[i]
    BY <1>3 DEF OneApart
  <2>3. Append(a, x)[p] # Append(b, x)[p]
    BY <1>1, <2>1, <2>2
  <2>4. ASSUME NEW i \in 1 .. Len(a) + 1, i # p PROVE Append(a, x)[i] = Append(b, x)[i]
    <3>1. CASE i = Len(a) + 1
      BY <1>1, <2>1, <3>1
    <3>2. CASE i # Len(a) + 1
      <4>1. i \in 1 .. Len(a)
        BY <1>2, <3>2
      <4> QED BY <1>1, <2>1, <2>2, <2>4, <4>1
    <3> QED BY <3>1, <3>2
  <2>5. p \in 1 .. Len(a) + 1
    BY <1>2
  <2>6. Len(Append(a, x)) = Len(a) + 1 /\ Len(Append(b, x)) = Len(a) + 1
    BY <1>1, <2>1
  <2> QED BY <2>3, <2>4, <2>5, <2>6 DEF OneApart
<1>4. ASSUME x # y PROVE OneApart(Append(a, x), Append(a, y))
  <2> DEFINE p == Len(a) + 1
  <2>1. p \in 1 .. p
    BY <1>2
  <2>2. Append(a, x)[p] # Append(a, y)[p]
    BY <1>1, <1>4
  <2>3. ASSUME NEW i \in 1 .. p, i # p PROVE Append(a, x)[i] = Append(a, y)[i]
    <3>1. i \in 1 .. Len(a)
      BY <1>2, <2>3
    <3> QED BY <1>1, <3>1
  <2>4. Len(Append(a, x)) = p /\ Len(Append(a, y)) = p
    BY <1>1
  <2> HIDE DEF p
  <2> QED BY <2>1, <2>2, <2>3, <2>4 DEF OneApart
<1> QED BY <1>3, <1>4

\* What the CRC of a command packet, and of a data packet, is computed of.
CommandMessage(p, c, params) == <<p>> \o SizeBytes(Len(params)) \o <<c>> \o params
DataMessage(data) == SizeBytes(Len(data)) \o data

\* The digits of a size, and the sizes that two of them can say.
High(n) == n \div SizeBase
Low(n) == n % SizeBase
Sized(s) == s \in Seq(Byte) /\ Len(s) < 256 * SizeBase

LEMMA SizeBytesAre ==
    ASSUME NEW n \in Nat, n < 256 * SizeBase
    PROVE  /\ SizeBytes(n) \in Seq(Byte) /\ Len(SizeBytes(n)) = 2
           /\ SizeBytes(n)[1] = High(n) /\ SizeBytes(n)[2] = Low(n)
           /\ High(n) \in Byte /\ Low(n) \in Byte
           /\ SizeBase * High(n) + Low(n) = n
<1>1. SizeBase \in Nat /\ SizeBase > 0 /\ SizeBase <= 256
  BY SizeBaseAssumption
<1>2. High(n) \in Int /\ n = SizeBase * High(n) + Low(n)
  BY <1>1 DEF High, Low
<1>3. Low(n) \in 0 .. SizeBase - 1
  BY <1>1 DEF High, Low
<1>4. High(n) <= 255 /\ High(n) >= 0
  <2> HIDE DEF High, Low
  <2>1. High(n) <= 255
    BY <1>1, <1>2, <1>3
  <2>2. High(n) >= 0
    BY <1>1, <1>2, <1>3
  <2> QED BY <2>1, <2>2
<1>5. High(n) \in Byte /\ Low(n) \in Byte
  <2>1. ASSUME NEW x \in Int, x >= 0, x <= 255 PROVE x \in Byte
    BY <2>1 DEF Byte
  <2>2. Low(n) \in Int /\ Low(n) >= 0 /\ Low(n) <= 255
    BY <1>1, <1>3
  <2> HIDE DEF High, Low
  <2>3. High(n) \in Int /\ High(n) >= 0 /\ High(n) <= 255
    BY <1>2, <1>4, Zenon
  <2> QED BY <2>1, <2>2, <2>3, Zenon
<1>6. SizeBytes(n) = <<High(n), Low(n)>>
  BY DEF SizeBytes, High, Low
<1> HIDE DEF High, Low
<1> QED BY <1>2, <1>5, <1>6

\* s is the m bytes of a and then the n bytes of b.
Joins(s, a, m, b, n) ==
    /\ s \in Seq(Byte) /\ Len(s) = m + n
    /\ \A i \in 1 .. m : s[i] = a[i]
    /\ \A i \in 1 .. n : s[m + i] = b[i]

LEMMA Joined ==
    ASSUME NEW a \in Seq(Byte), NEW b \in Seq(Byte), NEW m, NEW n, Len(a) = m, Len(b) = n
    PROVE  Joins(a \o b, a, m, b, n)
<1> DEFINE s == a \o b
<1>1. m \in Nat /\ n \in Nat
  BY LenProperties
<1>2. /\ s \in Seq(Byte) /\ Len(s) = m + n
      /\ \A i \in 1 .. m + n : s[i] = IF i <= m THEN a[i] ELSE b[i - m]
  BY ConcatProperties
<1> HIDE DEF s
<1>3. ASSUME NEW i \in 1 .. m PROVE s[i] = a[i]
  <2>1. i \in 1 .. m + n /\ i <= m
    BY <1>1
  <2> QED BY <1>2, <2>1
<1>4. ASSUME NEW i \in 1 .. n PROVE s[m + i] = b[i]
  <2>1. m + i \in 1 .. m + n /\ ~(m + i <= m) /\ (m + i) - m = i
    BY <1>1
  <2> QED BY <1>2, <2>1
<1> QED BY <1>2, <1>3, <1>4 DEF s, Joins

LEMMA CommandMessageIs ==
    ASSUME NEW p \in Byte, NEW c \in Byte, NEW params, Sized(params)
    PROVE  LET m == CommandMessage(p, c, params)
           IN  /\ m \in Seq(Byte) /\ Len(m) = 4 + Len(params)
               /\ m[1] = p /\ m[2] = High(Len(params)) /\ m[3] = Low(Len(params)) /\ m[4] = c
               /\ \A i \in 1 .. Len(params) : m[4 + i] = params[i]
<1> DEFINE n == Len(params)
           z == SizeBytes(n)
           f == <<p>>
           g == <<c>>
           a == f \o z
           b == a \o g
           m == b \o params
<1>1. params \in Seq(Byte) /\ n \in Nat /\ n < 256 * SizeBase
  BY LenProperties DEF Sized
<1>2. z \in Seq(Byte) /\ Len(z) = 2 /\ z[1] = High(n) /\ z[2] = Low(n)
  BY <1>1, SizeBytesAre
<1>3. /\ f \in Seq(Byte) /\ Len(f) = 1 /\ f[1] = p
      /\ g \in Seq(Byte) /\ Len(g) = 1 /\ g[1] = c
  OBVIOUS
<1>4. a \in Seq(Byte) /\ Len(a) = 3 /\ a[1] = p /\ a[2] = z[1] /\ a[3] = z[2]
  <2> HIDE DEF z, f
  <2>0. Joins(a, f, 1, z, 2)
    BY <1>2, <1>3, Joined, Zenon
  <2> HIDE DEF a
  <2>1. /\ a \in Seq(Byte) /\ Len(a) = 1 + 2
        /\ \A i \in 1 .. 1 : a[i] = f[i]
        /\ \A i \in 1 .. 2 : a[1 + i] = z[i]
    BY <2>0 DEF Joins
  <2>2. a[1] = f[1] /\ a[1 + 1] = z[1] /\ a[1 + 2] = z[2]
    BY <2>1
  <2> QED BY <1>3, <2>1, <2>2
<1>5. b \in Seq(Byte) /\ Len(b) = 4 /\ b[1] = p /\ b[2] = z[1] /\ b[3] = z[2] /\ b[4] = c
  <2> HIDE DEF z, g, a
  <2>0. Joins(b, a, 3, g, 1)
    BY <1>3, <1>4, Joined, Zenon
  <2> HIDE DEF b
  <2>1. /\ b \in Seq(Byte) /\ Len(b) = 3 + 1
        /\ \A i \in 1 .. 3 : b[i] = a[i]
        /\ \A i \in 1 .. 1 : b[3 + i] = g[i]
    BY <2>0 DEF Joins
  <2>2. b[1] = a[1] /\ b[2] = a[2] /\ b[3] = a[3] /\ b[3 + 1] = g[1]
    BY <2>1
  <2> QED BY <1>3, <1>4, <2>1, <2>2
<1>6. /\ m \in Seq(Byte) /\ Len(m) = 4 + n
      /\ \A i \in 1 .. 4 : m[i] = b[i]
      /\ \A i \in 1 .. n : m[4 + i] = params[i]
  <2>1. PICK k : k = n
    OBVIOUS
  <2> HIDE DEF b, n
  <2>2. Joins(m, b, 4, params, k)
    <3>1. params \in Seq(Byte) /\ Len(params) = k
      BY <1>1, <2>1 DEF n
    <3> QED BY <1>5, <3>1, Joined, Zenon
  <2> HIDE DEF m
  <2> QED BY <2>1, <2>2 DEF Joins
<1>7. m = CommandMessage(p, c, params)
  BY DEF CommandMessage
<1>8. m[1] = p /\ m[2] = High(n) /\ m[3] = Low(n) /\ m[4] = c
  <2> HIDE DEF b, m, n, z
  <2> QED BY <1>2, <1>5, <1>6
<1> HIDE DEF m
<1> QED BY <1>6, <1>7, <1>8

LEMMA DataMessageIs ==
    ASSUME NEW data, Sized(data)
    PROVE  LET m == DataMessage(data)
           IN  /\ m \in Seq(Byte) /\ Len(m) = 2 + Len(data)
               /\ m[1] = High(Len(data)) /\ m[2] = Low(Len(data))
               /\ \A i \in 1 .. Len(data) : m[2 + i] = data[i]
<1> DEFINE n == Len(data)
           z == SizeBytes(n)
           m == z \o data
<1>1. data \in Seq(Byte) /\ n \in Nat /\ n < 256 * SizeBase
  BY LenProperties DEF Sized
<1>2. z \in Seq(Byte) /\ Len(z) = 2 /\ z[1] = High(n) /\ z[2] = Low(n)
  BY <1>1, SizeBytesAre
<1>3. /\ m \in Seq(Byte) /\ Len(m) = 2 + n
      /\ \A i \in 1 .. 2 : m[i] = z[i]
      /\ \A i \in 1 .. n : m[2 + i] = data[i]
  <2>1. PICK k : k = n
    OBVIOUS
  <2> HIDE DEF z, n
  <2>2. Joins(m, z, 2, data, k)
    <3>1. data \in Seq(Byte) /\ Len(data) = k
      BY <1>1, <2>1 DEF n
    <3> QED BY <1>2, <3>1, Joined, Zenon
  <2> HIDE DEF m
  <2> QED BY <2>1, <2>2 DEF Joins
<1>4. m = DataMessage(data)
  BY DEF DataMessage
<1>5. m[1] = High(n) /\ m[2] = Low(n)
  <2> HIDE DEF m, n, z
  <2> QED BY <1>2, <1>3
<1> HIDE DEF m
<1> QED BY <1>3, <1>4, <1>5

\* Two requests, or answers, of which one byte is not the same and no size.
CommandApart(p, c, params, q, d, other) ==
    \/ p # q /\ c = d /\ params = other
    \/ p = q /\ c # d /\ params = other
    \/ p = q /\ c = d /\ OneApart(params, other)

LEMMA CommandCrcTells ==
    ASSUME NEW p \in Byte, NEW c \in Byte, NEW params, Sized(params),
           NEW q \in Byte, NEW d \in Byte, NEW other, Sized(other),
           CommandApart(p, c, params, q, d, other)
    PROVE  crc8(CommandMessage(p, c, params)) # crc8(CommandMessage(q, d, other))
<1> DEFINE m == CommandMessage(p, c, params)
           w == CommandMessage(q, d, other)
           n == Len(params)
<1>1. Len(other) = n /\ n \in Nat
  BY LenProperties DEF CommandApart, OneApart, Sized
<1>2. /\ m \in Seq(Byte) /\ Len(m) = 4 + n
      /\ m[1] = p /\ m[2] = High(n) /\ m[3] = Low(n) /\ m[4] = c
      /\ \A i \in 1 .. n : m[4 + i] = params[i]
  BY CommandMessageIs
<1>3. /\ w \in Seq(Byte) /\ Len(w) = 4 + n
      /\ w[1] = q /\ w[2] = High(n) /\ w[3] = Low(n) /\ w[4] = d
      /\ \A i \in 1 .. n : w[4 + i] = other[i]
  <2>1. /\ w \in Seq(Byte) /\ Len(w) = 4 + Len(other)
        /\ w[1] = q /\ w[2] = High(Len(other)) /\ w[3] = Low(Len(other)) /\ w[4] = d
        /\ \A i \in 1 .. Len(other) : w[4 + i] = other[i]
    BY CommandMessageIs
  <2> HIDE DEF w, n
  <2> QED BY <1>1, <2>1
<1> HIDE DEF m, w, n
<1>4. \A i \in 1 .. 4 + n : i \in {1, 2, 3, 4} \/ \E j \in 1 .. n : i = 4 + j
  <2>1. ASSUME NEW i \in 1 .. 4 + n, i \notin {1, 2, 3, 4} PROVE \E j \in 1 .. n : i = 4 + j
    <3>1. i - 4 \in 1 .. n /\ i = 4 + (i - 4)
      BY <1>1, <2>1
    <3> QED BY <3>1
  <2> QED BY <2>1
<1>5. OneApart(m, w)
  <2>1. CASE p # q /\ c = d /\ params = other
    <3>1. 1 \in 1 .. 4 + n /\ m[1] # w[1]
      BY <1>1, <1>2, <1>3, <2>1
    <3>2. ASSUME NEW i \in 1 .. 4 + n, i # 1 PROVE m[i] = w[i]
      <4>1. CASE i \in {1, 2, 3, 4}
        BY <1>2, <1>3, <2>1, <3>2, <4>1
      <4>2. CASE \E j \in 1 .. n : i = 4 + j
        BY <1>2, <1>3, <2>1, <4>2
      <4> QED BY <1>4, <4>1, <4>2
    <3> QED BY <1>2, <1>3, <3>1, <3>2 DEF OneApart
  <2>2. CASE p = q /\ c # d /\ params = other
    <3>1. 4 \in 1 .. 4 + n /\ m[4] # w[4]
      BY <1>1, <1>2, <1>3, <2>2
    <3>2. ASSUME NEW i \in 1 .. 4 + n, i # 4 PROVE m[i] = w[i]
      <4>1. CASE i \in {1, 2, 3, 4}
        BY <1>2, <1>3, <2>2, <3>2, <4>1
      <4>2. CASE \E j \in 1 .. n : i = 4 + j
        BY <1>2, <1>3, <2>2, <4>2
      <4> QED BY <1>4, <4>1, <4>2
    <3> QED BY <1>2, <1>3, <3>1, <3>2 DEF OneApart
  <2>3. CASE p = q /\ c = d /\ OneApart(params, other)
    <3>1. PICK k \in 1 .. n : params[k] # other[k] /\ \A i \in 1 .. n : i # k => params[i] = other[i]
      BY <2>3 DEF OneApart, n
    <3>2. 4 + k \in 1 .. 4 + n /\ m[4 + k] # w[4 + k]
      BY <1>1, <1>2, <1>3, <3>1
    <3>3. ASSUME NEW i \in 1 .. 4 + n, i # 4 + k PROVE m[i] = w[i]
      <4>1. CASE i \in {1, 2, 3, 4}
        BY <1>2, <1>3, <2>3, <4>1
      <4>2. CASE \E j \in 1 .. n : i = 4 + j
        BY <1>2, <1>3, <3>1, <3>3, <4>2
      <4> QED BY <1>4, <4>1, <4>2
    <3> QED BY <1>2, <1>3, <3>2, <3>3 DEF OneApart
  <2> QED BY <2>1, <2>2, <2>3 DEF CommandApart
<1> QED BY <1>2, <1>3, <1>5, OneApartDiffers DEF m, w

LEMMA DataCrcTells ==
    ASSUME NEW data, Sized(data), NEW other, Sized(other), OneApart(data, other)
    PROVE  crc8(DataMessage(data)) # crc8(DataMessage(other))
<1> DEFINE m == DataMessage(data)
           w == DataMessage(other)
           n == Len(data)
<1>1. Len(other) = n /\ n \in Nat
  BY LenProperties DEF OneApart, Sized
<1>2. /\ m \in Seq(Byte) /\ Len(m) = 2 + n
      /\ m[1] = High(n) /\ m[2] = Low(n)
      /\ \A i \in 1 .. n : m[2 + i] = data[i]
  BY DataMessageIs
<1>3. /\ w \in Seq(Byte) /\ Len(w) = 2 + n
      /\ w[1] = High(n) /\ w[2] = Low(n)
      /\ \A i \in 1 .. n : w[2 + i] = other[i]
  BY <1>1, DataMessageIs
<1>4. PICK k \in 1 .. n : data[k] # other[k] /\ \A i \in 1 .. n : i # k => data[i] = other[i]
  BY DEF OneApart
<1> HIDE DEF m, w, n
<1>5. 2 + k \in 1 .. 2 + n /\ m[2 + k] # w[2 + k]
  BY <1>1, <1>2, <1>3, <1>4
<1>6. ASSUME NEW i \in 1 .. 2 + n, i # 2 + k PROVE m[i] = w[i]
  <2>1. CASE i \in {1, 2}
    BY <1>2, <1>3, <2>1
  <2>2. CASE i \notin {1, 2}
    <3>1. i - 2 \in 1 .. n /\ i = 2 + (i - 2) /\ i - 2 # k
      BY <1>1, <1>6, <2>2
    <3> QED BY <1>2, <1>3, <1>4, <3>1
  <2> QED BY <2>1, <2>2
<1>7. OneApart(m, w)
  BY <1>2, <1>3, <1>5, <1>6 DEF OneApart
<1> QED BY <1>2, <1>3, <1>7, OneApartDiffers DEF m, w

-----------------------------------------------------------------------------
(* PacketCheck, for every length two bytes can say *)

LEMMA MessagesAre ==
    /\ \A p, c, params : CommandCrc(p, c, params) = crc8(CommandMessage(p, c, params))
    /\ \A data : DataCrc(data) = crc8(DataMessage(data))
    /\ \A p, c, params, x : ValidCommand(p, c, params, x) <=> x = crc8(CommandMessage(p, c, params))
    /\ \A data, x : ValidData(data, x) <=> x = crc8(DataMessage(data))
BY DEF CommandCrc, DataCrc, ValidCommand, ValidData,
       CommandMessage, DataMessage

Packet == [protocol : Byte, command : Byte, body : Seq(Byte)]

\* At most one byte is not as it was sent: of the fields, or the CRC.
OneDamaged ==
    \/ got = sent /\ (damaged <=> crc # <<>> /\ crc[1] # crc[2])
    \/ /\ damaged /\ (crc # <<>> => crc[1] = crc[2])
       /\ CommandApart(sent.protocol, sent.command, sent.body, got.protocol, got.command, got.body)

PacketSound ==
    /\ kind \in {"command", "data"} /\ damaged \in BOOLEAN
    /\ sent \in Packet /\ got \in Packet /\ Len(sent.body) <= MaxLength
    /\ kind = "data" => got.protocol = sent.protocol /\ got.command = sent.command
    /\ crc # <<>> => crc[1] = Created
    /\ OneDamaged

LEMMA PacketInit == CheckInit => PacketSound
<1> SUFFICES ASSUME CheckInit PROVE PacketSound
  OBVIOUS
<1>2. PICK p \in Protocols, c \in Commands :
         /\ sent = Fields(p, c)
         /\ IF kind = "data" THEN got = sent
            ELSE got \in { Fields(p, d) : d \in Byte } \cup { Fields(d, c) : d \in Byte }
  BY DEF CheckInit
<1>3. p \in Byte /\ c \in Byte /\ <<>> \in Seq(Byte) /\ Len(<<>>) = 0
  BY PacketAssumption
<1>4. PICK q \in Byte, d \in Byte :
         /\ got = Fields(q, d) /\ (q = p \/ d = c) /\ (kind = "data" => q = p /\ d = c)
  BY <1>2, <1>3, Zenon
<1>5. /\ sent = [protocol |-> p, command |-> c, body |-> <<>>]
      /\ got = [protocol |-> q, command |-> d, body |-> <<>>]
  BY <1>2, <1>4 DEF Fields
<1>6. sent \in Packet /\ got \in Packet
  BY <1>3, <1>5 DEF Packet
<1>7. /\ sent.protocol = p /\ sent.command = c /\ sent.body = <<>>
      /\ got.protocol = q /\ got.command = d /\ got.body = <<>>
  BY <1>5
<1>8. crc = <<>> /\ damaged = (got # sent) /\ kind \in {"command", "data"}
  BY DEF CheckInit
<1>9. damaged \in BOOLEAN /\ (damaged <=> got # sent)
  BY <1>8, Zenon
<1>10. got # sent =>
         CommandApart(sent.protocol, sent.command, sent.body, got.protocol, got.command, got.body)
  BY <1>4, <1>5, <1>7 DEF CommandApart
<1>11. OneDamaged
  BY <1>8, <1>9, <1>10, Zenon DEF OneDamaged
<1>12. Len(sent.body) <= MaxLength
  BY <1>3, <1>7, PacketAssumption
<1> QED BY <1>4, <1>6, <1>7, <1>8, <1>9, <1>11, <1>12 DEF PacketSound

LEMMA PacketNext == PacketSound /\ [CheckNext]_checkVars => PacketSound'
<1> SUFFICES ASSUME PacketSound, [CheckNext]_checkVars PROVE PacketSound'
  OBVIOUS
<1> USE DEF PacketSound
<1>1. CASE SendByte
  <2>1. PICK b \in Contents, d \in Byte :
          /\ ByteArrives(b, d)
          /\ sent' = [sent EXCEPT !.body = Append(@, b)]
          /\ got' = [got EXCEPT !.body = Append(@, d)]
    BY <1>1 DEF SendByte
  <2>2. crc = <<>> /\ crc' = <<>> /\ kind' = kind /\ Len(sent.body) < MaxLength
    BY <1>1 DEF SendByte
  <2>3. b \in Byte /\ sent.body \in Seq(Byte) /\ got.body \in Seq(Byte)
    <3>1. b \in Byte
      BY PacketAssumption
    <3> QED BY <3>1 DEF Packet
  <2>4. /\ sent'.protocol = sent.protocol /\ sent'.command = sent.command
        /\ sent'.body = Append(sent.body, b)
        /\ got'.protocol = got.protocol /\ got'.command = got.command
        /\ got'.body = Append(got.body, d)
    BY <2>1 DEF Packet
  <2>5. sent' \in Packet /\ got' \in Packet /\ Len(sent'.body) <= MaxLength
    <3>1. Append(sent.body, b) \in Seq(Byte) /\ Append(got.body, d) \in Seq(Byte)
          /\ Len(Append(sent.body, b)) = Len(sent.body) + 1
      BY <2>3, AppendProperties
    <3>2. sent' \in Packet /\ got' \in Packet
      BY <2>1, <2>4, <3>1 DEF Packet
    <3>3. Len(sent.body) + 1 <= MaxLength
      <4>1. Len(sent.body) \in Nat /\ MaxLength \in Nat
        BY <2>3, LenProperties, PacketAssumption
      <4> QED BY <2>2, <4>1
    <3> QED BY <2>4, <3>1, <3>2, <3>3
  <2>6. OneDamaged'
    <3>1. CASE damaged
      <4>1. d = b /\ damaged'
        BY <2>1, <3>1 DEF ByteArrives
      <4>2. CommandApart(sent.protocol, sent.command, sent.body, got.protocol, got.command, got.body)
        BY <2>2, <3>1 DEF OneDamaged
      <4>3. OneApart(sent.body, got.body) => OneApart(sent'.body, got'.body)
        BY <2>3, <2>4, <4>1, OneApartAppend
      <4>4. CommandApart(sent'.protocol, sent'.command, sent'.body,
                         got'.protocol, got'.command, got'.body)
        BY <2>4, <4>1, <4>2, <4>3 DEF CommandApart
      <4> QED BY <2>2, <4>1, <4>4 DEF OneDamaged
    <3>2. CASE ~damaged
      <4>1. damaged' = (d # b) /\ got = sent
        BY <2>1, <3>2 DEF ByteArrives, OneDamaged
      <4>2. CASE d = b
        <5>1. got' = sent' /\ ~damaged'
          BY <2>1, <4>1, <4>2
        <5> QED BY <2>2, <5>1 DEF OneDamaged
      <4>3. CASE d # b
        <5>1. OneApart(sent'.body, got'.body)
          BY <2>3, <2>4, <4>1, <4>3, OneApartAppend
        <5> QED BY <2>2, <2>4, <4>1, <4>3, <5>1 DEF OneDamaged, CommandApart
      <4> QED BY <4>2, <4>3
    <3> QED BY <3>1, <3>2
  <2>7. damaged' \in BOOLEAN
    BY <2>1 DEF ByteArrives
  <2> QED BY <2>2, <2>4, <2>5, <2>6, <2>7
<1>2. CASE SendCrc
  <2>1. PICK d \in Byte : ByteArrives(Created, d) /\ crc' = <<Created, d>>
    BY <1>2 DEF SendCrc
  <2>2. crc = <<>> /\ kind' = kind /\ sent' = sent /\ got' = got
    BY <1>2 DEF SendCrc
  <2>3. Created' = Created
    BY <2>2 DEF Created
  <2>4. crc'[1] = Created /\ crc'[2] = d /\ crc' # <<>>
    BY <2>1
  <2>5. OneDamaged'
    <3>1. CASE damaged
      <4>1. d = Created /\ damaged'
        BY <2>1, <3>1 DEF ByteArrives
      <4> QED BY <2>2, <2>4, <3>1, <4>1 DEF OneDamaged
    <3>2. CASE ~damaged
      <4>1. damaged' = (d # Created) /\ got = sent
        BY <2>1, <3>2 DEF ByteArrives, OneDamaged
      <4> QED BY <2>2, <2>4, <4>1 DEF OneDamaged
    <3> QED BY <3>1, <3>2
  <2>6. damaged' \in BOOLEAN
    BY <2>1 DEF ByteArrives
  <2> QED BY <2>2, <2>3, <2>4, <2>5, <2>6
<1>3. CASE UNCHANGED checkVars
  <2>1. /\ kind' = kind /\ sent' = sent /\ got' = got /\ damaged' = damaged /\ crc' = crc
    BY <1>3 DEF checkVars
  <2> QED BY <2>1 DEF OneDamaged, Created
<1> QED BY <1>1, <1>2, <1>3 DEF CheckNext

LEMMA BodyIsSized ==
    ASSUME PacketSound
    PROVE  sent.body \in Seq(Byte) /\ Len(sent.body) \in Nat /\ Sized(sent.body)
<1>1. sent.body \in Seq(Byte) /\ Len(sent.body) <= MaxLength
  BY DEF PacketSound, Packet
<1>2. Len(sent.body) \in Nat
  BY <1>1, LenProperties
<1>3. PICK limit : limit = 256 * SizeBase
  OBVIOUS
<1>4. limit \in Nat
  BY <1>3, SizeBaseAssumption
<1>5. MaxLength \in Nat /\ MaxLength < limit
  BY <1>3, PacketAssumption
<1>6. Len(sent.body) < limit
  BY <1>1, <1>2, <1>4, <1>5
<1> QED BY <1>1, <1>2, <1>3, <1>6 DEF Sized

LEMMA PacketAccepted == PacketSound => AcceptedAsSent
<1>0. SUFFICES ASSUME PacketSound, crc # <<>> PROVE Valid <=> ~damaged
  BY DEF AcceptedAsSent
<1>1. /\ sent.protocol \in Byte /\ sent.command \in Byte /\ Sized(sent.body)
      /\ got.protocol \in Byte /\ got.command \in Byte
      /\ got.body \in Seq(Byte)
  <2>1. sent \in Packet /\ got \in Packet
    BY <1>0 DEF PacketSound
  <2>2. Sized(sent.body)
    BY <1>0, BodyIsSized
  <2> QED BY <2>1, <2>2 DEF Packet
<1>2. /\ crc[1] = Created /\ kind \in {"command", "data"} /\ damaged \in BOOLEAN
      /\ OneDamaged
      /\ kind = "data" => got.protocol = sent.protocol /\ got.command = sent.command
  BY <1>0 DEF PacketSound
<1> DEFINE Message(r) == IF kind = "command" THEN CommandMessage(r.protocol, r.command, r.body)
                                             ELSE DataMessage(r.body)
<1>3. Created = crc8(Message(sent))
  BY MessagesAre, Zenon DEF Created
<1>4. Valid <=> crc[2] = crc8(Message(got))
  <2>1. CASE kind = "command"
    BY <2>1, MessagesAre DEF Valid
  <2>2. CASE kind # "command"
    BY <2>2, MessagesAre DEF Valid
  <2> QED BY <2>1, <2>2
<1>5. CASE got = sent
  <2>1. Valid <=> crc[2] = crc[1]
    BY <1>2, <1>3, <1>4, <1>5
  <2>2. ~CommandApart(sent.protocol, sent.command, sent.body, got.protocol, got.command, got.body)
    BY <1>5 DEF CommandApart, OneApart
  <2> QED BY <1>0, <1>2, <2>1, <2>2 DEF OneDamaged
<1>6. CASE got # sent
  <2>1. /\ damaged /\ crc[1] = crc[2]
        /\ CommandApart(sent.protocol, sent.command, sent.body, got.protocol, got.command, got.body)
    BY <1>0, <1>2, <1>6 DEF OneDamaged
  <2>2. Sized(got.body)
    BY <1>1, <2>1 DEF Sized, CommandApart, OneApart
  <2>3. crc8(Message(sent)) # crc8(Message(got))
    <3>1. CASE kind = "command"
      BY <1>1, <2>1, <2>2, <3>1, CommandCrcTells, Zenon
    <3>2. CASE kind = "data"
      <4>1. OneApart(sent.body, got.body)
        BY <1>2, <2>1, <3>2, <1>6, <1>0, <1>1 DEF CommandApart, PacketSound, Packet
      <4> QED BY <1>1, <2>2, <3>2, <4>1, DataCrcTells
    <3> QED BY <1>2, <3>1, <3>2
  <2> QED BY <1>2, <1>3, <1>4, <2>1, <2>3
<1> QED BY <1>5, <1>6

\* The receiver accepts a packet if and only if it arrived as it was sent, whatever
\* bytes are in it and however many: damage to one byte, the CRC's own included, is
\* always seen (create_command_crc8, create_data_crc8 against is_valid_command_crc8,
\* is_valid_data_crc8).
THEOREM OneByteIsSeen == CheckSpec => []AcceptedAsSent
<1>1. CheckInit => PacketSound
  BY PacketInit
<1>2. PacketSound /\ [CheckNext]_checkVars => PacketSound'
  BY PacketNext
<1>3. PacketSound => AcceptedAsSent
  BY PacketAccepted
<1> QED BY <1>1, <1>2, <1>3, PTL DEF CheckSpec

-----------------------------------------------------------------------------
(* The table method is the division of polynomials *)

\* One step of the division: the term of degree k is cancelled.
Cut(q, k) == IF k \in q THEN SymDiff(q, Times(Generator, k - 8)) ELSE q

\* What is left of p once the terms from degree n - 1 down to k have been cancelled.
Division(p, n) == CHOOSE d :
    d = [k \in 8 .. n |-> IF k = n THEN p ELSE Cut(d[k + 1], k)]

LEMMA RemainderIs ==
    ASSUME NEW p, NEW n
    PROVE  Remainder(p, n) = Division(p, n)[8]
BY DEF Remainder, Division, Cut

LEMMA CutIs ==
    ASSUME NEW q \in SUBSET Nat, NEW k \in Nat, k >= 8
    PROVE  /\ Cut(q, k) \in SUBSET Nat
           /\ k \notin q => Cut(q, k) = q
           /\ k \in q => \A e \in Nat :
                 e \in Cut(q, k) <=> ~(e \in q <=> e \in {k, k - 6, k - 7, k - 8})
<1>1. Times(Generator, k - 8) = {k, k - 6, k - 7, k - 8}
  <2>1. 8 + (k - 8) = k /\ 2 + (k - 8) = k - 6 /\ 1 + (k - 8) = k - 7 /\ 0 + (k - 8) = k - 8
    OBVIOUS
  <2>2. Times(Generator, k - 8) = { x + (k - 8) : x \in {8, 2, 1, 0} }
    BY DEF Times, Generator
  <2>3. { x + (k - 8) : x \in {8, 2, 1, 0} } = {8 + (k - 8), 2 + (k - 8), 1 + (k - 8), 0 + (k - 8)}
    OBVIOUS
  <2> QED BY <2>1, <2>2, <2>3
<1>2. {k, k - 6, k - 7, k - 8} \subseteq Nat
  OBVIOUS
<1>3. CASE k \in q
  <2>1. Cut(q, k) = SymDiff(q, {k, k - 6, k - 7, k - 8})
    BY <1>1, <1>3 DEF Cut
  <2> QED BY <1>2, <1>3, <2>1 DEF SymDiff
<1>4. CASE k \notin q
  BY <1>4 DEF Cut
<1> QED BY <1>3, <1>4

LEMMA DivisionIs ==
    ASSUME NEW p \in SUBSET Nat, NEW n \in Nat, n >= 8
    PROVE  /\ Division(p, n)[n] = p
           /\ \A k \in 8 .. n - 1 : Division(p, n)[k] = Cut(Division(p, n)[k + 1], k)
<1>1. PICK m \in Nat : m = n - 8
  OBVIOUS
<1> DEFINE step == [i \in 1 .. m |-> [q \in SUBSET Nat |-> Cut(q, n - i)]]
<1>2. step \in [1 .. m -> [SUBSET Nat -> SUBSET Nat]]
  <2>1. \A i \in 1 .. m : n - i \in Nat /\ n - i >= 8
    BY <1>1
  <2>2. \A i \in 1 .. m : \A q \in SUBSET Nat : Cut(q, n - i) \in SUBSET Nat
    BY <2>1, CutIs
  <2> QED BY <2>2
<1>3. PICK f : Loop(f, m, SUBSET Nat, p, step)
  <2> HIDE DEF step
  <2> QED BY <1>2, LoopExists, Zenon
<1>4. /\ f \in [0 .. m -> SUBSET Nat] /\ f[0] = p
      /\ \A i \in 1 .. m : f[i] = Cut(f[i - 1], n - i)
  <2>1. f \in [0 .. m -> SUBSET Nat] /\ f[0] = p /\ \A i \in 1 .. m : f[i] = step[i][f[i - 1]]
    BY <1>3 DEF Loop
  <2>2. ASSUME NEW i \in 1 .. m PROVE f[i] = Cut(f[i - 1], n - i)
    <3>1. i - 1 \in 0 .. m
      OBVIOUS
    <3>2. f[i - 1] \in SUBSET Nat
      BY <2>1, <3>1
    <3>3. step[i][f[i - 1]] = Cut(f[i - 1], n - i)
      BY <3>2
    <3> QED BY <2>1, <3>3
  <2> QED BY <2>1, <2>2
<1> DEFINE h == [k \in 8 .. n |-> f[n - k]]
<1>5. h = [k \in 8 .. n |-> IF k = n THEN p ELSE Cut(h[k + 1], k)]
  <2>1. ASSUME NEW k \in 8 .. n PROVE f[n - k] = IF k = n THEN p ELSE Cut(h[k + 1], k)
    <3>1. CASE k = n
      <4>1. n - k = 0
        BY <3>1
      <4> QED BY <1>4, <3>1, <4>1
    <3>2. CASE k # n
      <4>1. n - k \in 1 .. m /\ k + 1 \in 8 .. n /\ n - (k + 1) = (n - k) - 1 /\ n - (n - k) = k
        BY <1>1, <3>2
      <4>2. h[k + 1] = f[(n - k) - 1]
        BY <4>1
      <4>3. f[n - k] = Cut(f[(n - k) - 1], n - (n - k))
        BY <1>4, <4>1
      <4> QED BY <3>2, <4>1, <4>2, <4>3
    <3> QED BY <3>1, <3>2
  <2> QED BY <2>1
<1> DEFINE g == Division(p, n)
<1>6. \E d : d = [k \in 8 .. n |-> IF k = n THEN p ELSE Cut(d[k + 1], k)]
  <2> HIDE DEF h
  <2> QED BY <1>5
<1>7. g = [k \in 8 .. n |-> IF k = n THEN p ELSE Cut(g[k + 1], k)]
  BY <1>6 DEF Division
<1>8. n \in 8 .. n /\ \A k \in 8 .. n - 1 : k \in 8 .. n /\ k # n
  OBVIOUS
<1>9. g[n] = p /\ \A k \in 8 .. n - 1 : g[k] = Cut(g[k + 1], k)
  <2> HIDE DEF g
  <2> QED BY <1>7, <1>8
<1> QED BY <1>9

\* A round of generate_crc8_table, bit by bit.
LEMMA ShiftedBits ==
    ASSUME NEW c \in Byte, NEW f \in 0 .. 7
    PROVE  f \in BitsOf[Shifted(c)] <=>
              ~((f >= 1 /\ f - 1 \in BitsOf[c]) <=> (7 \in BitsOf[c] /\ f \in {0, 1, 2}))
<1>1. c >= 128 <=> 7 \in BitsOf[c]
  <2>1. c >= 128 <=> (c \div 128) % 2 = 1
    BY DEF Byte
  <2> QED BY <2>1, BitsAre
<1>2. BitsOf[POLYNOMIAL] = {0, 1, 2}
  <2>1. 7 \in Byte
    BY DEF Byte
  <2>2. /\ 7 % 2 = 1 /\ (7 \div 2) % 2 = 1 /\ (7 \div 4) % 2 = 1 /\ (7 \div 8) % 2 = 0
        /\ (7 \div 16) % 2 = 0 /\ (7 \div 32) % 2 = 0 /\ (7 \div 64) % 2 = 0 /\ (7 \div 128) % 2 = 0
    OBVIOUS
  <2>3. /\ 0 \in BitsOf[7] /\ 1 \in BitsOf[7] /\ 2 \in BitsOf[7] /\ 3 \notin BitsOf[7]
        /\ 4 \notin BitsOf[7] /\ 5 \notin BitsOf[7] /\ 6 \notin BitsOf[7] /\ 7 \notin BitsOf[7]
        /\ BitsOf[7] \subseteq 0 .. 7
    BY <2>1, <2>2, BitsAre
  <2>4. \A k \in 0 .. 7 : k \in BitsOf[7] <=> k \in {0, 1, 2}
    BY <2>3
  <2> QED BY <2>3, <2>4 DEF POLYNOMIAL
<1>3. PICK e : e = (c * 2) % 256
  OBVIOUS
<1>4. e \in Byte /\ POLYNOMIAL \in Byte
  BY <1>3 DEF Byte, POLYNOMIAL
<1>5. f \in BitsOf[e] <=> f >= 1 /\ f - 1 \in BitsOf[c]
  <2>1. /\ e % 2 = 0 /\ (e \div 2) % 2 = c % 2 /\ (e \div 4) % 2 = (c \div 2) % 2
        /\ (e \div 8) % 2 = (c \div 4) % 2 /\ (e \div 16) % 2 = (c \div 8) % 2
        /\ (e \div 32) % 2 = (c \div 16) % 2 /\ (e \div 64) % 2 = (c \div 32) % 2
        /\ (e \div 128) % 2 = (c \div 64) % 2
    BY <1>3 DEF Byte
  <2>2. /\ 0 \notin BitsOf[e]
        /\ 1 \in BitsOf[e] <=> 0 \in BitsOf[c]
        /\ 2 \in BitsOf[e] <=> 1 \in BitsOf[c]
        /\ 3 \in BitsOf[e] <=> 2 \in BitsOf[c]
        /\ 4 \in BitsOf[e] <=> 3 \in BitsOf[c]
        /\ 5 \in BitsOf[e] <=> 4 \in BitsOf[c]
        /\ 6 \in BitsOf[e] <=> 5 \in BitsOf[c]
        /\ 7 \in BitsOf[e] <=> 6 \in BitsOf[c]
    BY <1>4, <2>1, BitsAre
  <2>3. f = 0 \/ \E g \in 0 .. 6 : f = g + 1 /\ f - 1 = g
    <3>1. f # 0 => f - 1 \in 0 .. 6 /\ f = (f - 1) + 1
      OBVIOUS
    <3> QED BY <3>1
  <2>4. \A g \in 0 .. 6 : g + 1 \in BitsOf[e] <=> g \in BitsOf[c]
    BY <2>2
  <2> QED BY <2>2, <2>3, <2>4
<1>6. CASE 7 \in BitsOf[c]
  <2>1. Shifted(c) = Xor(e, POLYNOMIAL)
    BY <1>1, <1>3, <1>6 DEF Shifted
  <2>2. BitsOf[Shifted(c)] = (BitsOf[e] \ {0, 1, 2}) \cup ({0, 1, 2} \ BitsOf[e])
    BY <1>2, <1>4, <2>1, XorBits
  <2> QED BY <1>5, <1>6, <2>2
<1>7. CASE 7 \notin BitsOf[c]
  <2>1. Shifted(c) = e
    BY <1>1, <1>3, <1>7 DEF Shifted, Byte
  <2> QED BY <1>5, <1>7, <2>1
<1> QED BY <1>6, <1>7

\* What is left of the polynomial m: the bits of b from the term of degree s on, and
\* m below the term of degree low.
Left(q, b, s, m, low) ==
    /\ q \in SUBSET Nat
    /\ \A e \in Nat : e \in q <=> ~((e >= s /\ e - s \in BitsOf[b]) <=> (e \in m /\ e < low))

\* Cutting one term is a round of generate_crc8_table.
LEMMA RoundDivides ==
    ASSUME NEW m \in SUBSET Nat, NEW q, NEW b \in Byte, NEW s \in Nat, NEW low \in Nat,
           s >= 1, low <= s + 7, Left(q, b, s, m, low)
    PROVE  Left(Cut(q, s + 7), Shifted(b), s - 1, m, low)
<1>1. PICK k \in Nat : k = s + 7
  OBVIOUS
<1>2. k >= 8 /\ q \in SUBSET Nat
  BY <1>1 DEF Left
<1>3. BitsOf[b] \subseteq 0 .. 7 /\ BitsOf[Shifted(b)] \subseteq 0 .. 7
  BY ShiftedIsByte, BitsAre
<1>4. k \in q <=> 7 \in BitsOf[b]
  <2>1. k >= s /\ k - s = 7 /\ ~(k < low)
    BY <1>1
  <2> QED BY <2>1 DEF Left
<1>5. Cut(q, k) \in SUBSET Nat
  BY <1>2, CutIs
<1>6. ASSUME NEW e \in Nat
      PROVE  e \in Cut(q, k) <=> ~((e >= s - 1 /\ e - (s - 1) \in BitsOf[Shifted(b)])
                                     <=> (e \in m /\ e < low))
  <2> DEFINE Old == e >= s /\ e - s \in BitsOf[b]
             New == e >= s - 1 /\ e - (s - 1) \in BitsOf[Shifted(b)]
             Beneath == e \in m /\ e < low
  <2>1. e \in q <=> ~(Old <=> Beneath)
    BY DEF Left
  <2>2. e \in Cut(q, k) <=> ~(e \in q <=> (7 \in BitsOf[b] /\ e \in {s + 7, s + 1, s, s - 1}))
    <3>1. k - 6 = s + 1 /\ k - 7 = s /\ k - 8 = s - 1
      BY <1>1
    <3>2. CASE k \in q
      BY <1>1, <1>2, <1>4, <3>1, <3>2, CutIs
    <3>3. CASE k \notin q
      BY <1>2, <1>4, <3>3, CutIs
    <3> QED BY <3>2, <3>3
  <2>3. New <=> ~(Old <=> (7 \in BitsOf[b] /\ e \in {s + 7, s + 1, s, s - 1}))
    <3>1. CASE e < s - 1
      BY <3>1
    <3>2. CASE e > s + 7
      <4>1. e - s \notin 0 .. 7 /\ e - (s - 1) \notin 0 .. 7
        BY <3>2
      <4> QED BY <1>3, <3>2, <4>1
    <3>3. CASE e = s + 7
      <4>1. e - (s - 1) \notin 0 .. 7 /\ e - s = 7 /\ e >= s
        BY <3>3
      <4> QED BY <1>3, <3>3, <4>1
    <3>4. CASE e >= s - 1 /\ e < s + 7
      <4>1. PICK f \in 0 .. 7 : f = e - (s - 1)
        BY <3>4
      <4>2. /\ f >= 1 <=> e >= s
            /\ f - 1 = e - s
            /\ f \in {0, 1, 2} <=> e \in {s + 7, s + 1, s, s - 1}
        BY <3>4, <4>1
      <4>3. f \in BitsOf[Shifted(b)] <=>
               ~((f >= 1 /\ f - 1 \in BitsOf[b]) <=> (7 \in BitsOf[b] /\ f \in {0, 1, 2}))
        BY ShiftedBits
      <4> HIDE DEF Beneath
      <4> QED BY <3>4, <4>1, <4>2, <4>3
    <3> QED BY <3>1, <3>2, <3>3, <3>4
  <2> HIDE DEF Old, New, Beneath
  <2>4. e \in Cut(q, k) <=> ~(New <=> Beneath)
    BY <2>1, <2>2, <2>3
  <2> QED BY <2>4 DEF New, Beneath
<1> QED BY <1>1, <1>5, <1>6 DEF Left

\* The next byte of the message joins the register.
LEMMA ByteJoins ==
    ASSUME NEW m \in SUBSET Nat, NEW q, NEW r \in Byte, NEW x \in Byte, NEW s \in Nat,
           Left(q, r, s, m, s + 8),
           \A f \in 0 .. 7 : s + f \in m <=> f \in BitsOf[x]
    PROVE  Left(q, Xor(r, x), s, m, s)
<1>1. BitsOf[r] \subseteq 0 .. 7 /\ BitsOf[x] \subseteq 0 .. 7
  BY BitsAre
<1>2. BitsOf[Xor(r, x)] = (BitsOf[r] \ BitsOf[x]) \cup (BitsOf[x] \ BitsOf[r])
  BY XorBits
<1>3. ASSUME NEW e \in Nat
      PROVE  e \in q <=> ~((e >= s /\ e - s \in BitsOf[Xor(r, x)]) <=> (e \in m /\ e < s))
  <2>1. e \in q <=> ~((e >= s /\ e - s \in BitsOf[r]) <=> (e \in m /\ e < s + 8))
    BY DEF Left
  <2>2. CASE e < s
    BY <2>1, <2>2
  <2>3. CASE e >= s /\ e < s + 8
    <3>1. PICK f \in 0 .. 7 : f = e - s
      BY <2>3
    <3>2. s + f = e
      BY <2>3, <3>1
    <3>3. e \in m <=> f \in BitsOf[x]
      BY <3>2
    <3> QED BY <1>2, <2>1, <2>3, <3>1, <3>3
  <2>4. CASE e >= s + 8
    <3>1. e - s \notin 0 .. 7 /\ ~(e < s)
      BY <2>4
    <3> QED BY <1>1, <1>2, <2>1, <2>4, <3>1
  <2> QED BY <2>2, <2>3, <2>4
<1> QED BY <1>3 DEF Left


\* The polynomial that is divided: the bits of byte i are its terms of degree
\* 8 (n - i) + 8 to 8 (n - i) + 15.
Dividend(bytes) == Times(PolynomialOf(bytes), 8)

LEMMA MessageTerms ==
    ASSUME NEW bytes \in Seq(Byte)
    PROVE  /\ Dividend(bytes) \in SUBSET Nat
           /\ \A e \in Dividend(bytes) : 8 <= e /\ e < 8 * Len(bytes) + 8
           /\ \A i \in 1 .. Len(bytes), f \in 0 .. 7 :
                 8 * (Len(bytes) - i) + 8 + f \in Dividend(bytes) <=> f \in BitsOf[bytes[i]]
<1>1. PICK n \in Nat : n = Len(bytes)
  BY LenProperties
<1>2. \A i \in 1 .. n : bytes[i] \in Byte /\ BitsOf[bytes[i]] \subseteq 0 .. 7
  BY <1>1, ElementOfSeq, BitsAre
<1>3. DOMAIN bytes = 1 .. n
  BY <1>1, LenProperties
<1>4. PolynomialOf(bytes)
        = UNION { Times(BitsOf[bytes[i]], 8 * (n - i)) : i \in 1 .. n }
  BY <1>1, <1>3 DEF PolynomialOf
<1>5. ASSUME NEW e
      PROVE  e \in Dividend(bytes) <=>
                \E i \in 1 .. n : \E f \in BitsOf[bytes[i]] : e = (f + 8 * (n - i)) + 8
  <2>1. \A x : x \in PolynomialOf(bytes) <=>
                  \E i \in 1 .. n : \E f \in BitsOf[bytes[i]] : x = f + 8 * (n - i)
    <3>1. ASSUME NEW x
          PROVE  x \in PolynomialOf(bytes) <=>
                    \E i \in 1 .. n : x \in Times(BitsOf[bytes[i]], 8 * (n - i))
      BY <1>4, Zenon
    <3>2. \A x, i : x \in Times(BitsOf[bytes[i]], 8 * (n - i)) <=>
                       \E f \in BitsOf[bytes[i]] : x = f + 8 * (n - i)
      BY DEF Times
    <3> QED BY <3>1, <3>2
  <2>2. e \in Dividend(bytes) <=> \E x \in PolynomialOf(bytes) : e = x + 8
    BY DEF Dividend, Times
  <2>3. ASSUME e \in Dividend(bytes)
        PROVE  \E i \in 1 .. n : \E f \in BitsOf[bytes[i]] : e = (f + 8 * (n - i)) + 8
    <3>1. PICK x \in PolynomialOf(bytes) : e = x + 8
      BY <2>2, <2>3
    <3>2. PICK i \in 1 .. n : \E f \in BitsOf[bytes[i]] : x = f + 8 * (n - i)
      BY <2>1
    <3>3. PICK f \in BitsOf[bytes[i]] : x = f + 8 * (n - i)
      BY <3>2
    <3>4. e = (f + 8 * (n - i)) + 8
      BY <3>1, <3>3
    <3> QED BY <3>4
  <2>4. ASSUME NEW i \in 1 .. n, NEW f \in BitsOf[bytes[i]], e = (f + 8 * (n - i)) + 8
        PROVE  e \in Dividend(bytes)
    <3>1. PICK x : x = f + 8 * (n - i)
      OBVIOUS
    <3>2. x \in PolynomialOf(bytes)
      BY <2>1, <3>1
    <3> QED BY <2>2, <2>4, <3>1, <3>2
  <2> QED BY <2>3, <2>4
<1>6. ASSUME NEW e \in Dividend(bytes) PROVE e \in Nat /\ 8 <= e /\ e < 8 * n + 8
  <2>1. PICK i \in 1 .. n : \E f \in BitsOf[bytes[i]] : e = (f + 8 * (n - i)) + 8
    BY <1>5
  <2>2. PICK f \in 0 .. 7 : e = (f + 8 * (n - i)) + 8
    BY <1>2, <2>1
  <2> QED BY <2>2
<1>7. ASSUME NEW i \in 1 .. n, NEW f \in 0 .. 7
      PROVE  8 * (n - i) + 8 + f \in Dividend(bytes) <=> f \in BitsOf[bytes[i]]
  <2>1. f \in BitsOf[bytes[i]] => 8 * (n - i) + 8 + f \in Dividend(bytes)
    <3>1. 8 * (n - i) + 8 + f = (f + 8 * (n - i)) + 8
      OBVIOUS
    <3> QED BY <1>5, <3>1
  <2>2. ASSUME 8 * (n - i) + 8 + f \in Dividend(bytes) PROVE f \in BitsOf[bytes[i]]
    <3>1. PICK j \in 1 .. n :
             \E g \in BitsOf[bytes[j]] : 8 * (n - i) + 8 + f = (g + 8 * (n - j)) + 8
      BY <1>5, <2>2
    <3>2. PICK g \in BitsOf[bytes[j]] : 8 * (n - i) + 8 + f = (g + 8 * (n - j)) + 8
      BY <3>1
    <3>3. g \in 0 .. 7
      BY <1>2
    <3>4. f - g = 8 * (i - j)
      BY <3>2, <3>3
    <3>5. i = j /\ f = g
      BY <3>3, <3>4
    <3> QED BY <3>5
  <2> QED BY <2>1, <2>2
<1> QED BY <1>1, <1>6, <1>7

\* The eight rounds of one byte cancel the eight highest terms.
LEMMA EntryDivides ==
    ASSUME NEW m \in SUBSET Nat, NEW n \in Nat, n >= 8, NEW s \in Nat, NEW r \in Byte,
           NEW x \in Byte, s >= 8, s + 8 <= n,
           Left(Division(m, n)[s + 8], r, s, m, s + 8),
           \A f \in 0 .. 7 : s + f \in m <=> f \in BitsOf[x]
    PROVE  Left(Division(m, n)[s], crc8_table[Xor(r, x)], s - 8, m, s)
<1>1. PICK d : d = Division(m, n)
  OBVIOUS
<1>2. PICK b \in Byte : b = Xor(r, x)
  BY XorBits
<1>3. PICK t : t = Rounds(b)
  OBVIOUS
<1>4. \A k \in 8 .. n - 1 : d[k] = Cut(d[k + 1], k)
  BY <1>1, DivisionIs
<1>5. /\ t[0] = b
      /\ \A j \in 1 .. 8 : t[j] = Shifted(t[j - 1])
      /\ \A j \in 0 .. 8 : t[j] \in Byte
      /\ crc8_table[b] = t[8]
  BY <1>3, RoundsAre, TableEntry
<1> DEFINE T == { j \in 0 .. 8 : Left(d[(s + 8) - j], t[j], s - j, m, s) }
<1>6. 0 \in T
  <2>1. Left(d[s + 8], b, s, m, s)
    BY <1>1, <1>2, ByteJoins
  <2>2. (s + 8) - 0 = s + 8 /\ s - 0 = s /\ 0 \in 0 .. 8
    OBVIOUS
  <2> QED BY <1>5, <2>1, <2>2
<1>7. ASSUME NEW j \in 1 .. 8, j - 1 \in T PROVE j \in T
  <2>1. PICK u \in Nat : u = s - (j - 1)
    OBVIOUS
  <2>2. PICK k \in Nat : k = (s + 8) - j
    OBVIOUS
  <2>3. /\ k + 1 = (s + 8) - (j - 1) /\ k = u + 7 /\ u - 1 = s - j
        /\ u >= 1 /\ s <= u + 7 /\ k \in 8 .. n - 1 /\ j \in 0 .. 8 /\ j - 1 \in 0 .. 8
    BY <2>1, <2>2
  <2>4. Left(d[k + 1], t[j - 1], u, m, s)
    BY <1>7, <2>1, <2>3
  <2>5. PICK q : q = d[k + 1]
    OBVIOUS
  <2>6. t[j - 1] \in Byte /\ t[j] = Shifted(t[j - 1]) /\ d[k] = Cut(q, k)
    BY <1>4, <1>5, <2>3, <2>5
  <2>7. Left(Cut(q, u + 7), Shifted(t[j - 1]), u - 1, m, s)
    BY <2>3, <2>4, <2>5, <2>6, RoundDivides
  <2>8. Left(d[k], t[j], s - j, m, s)
    BY <2>3, <2>6, <2>7
  <2> QED BY <2>2, <2>3, <2>8
<1>8. \A j \in 0 .. 8 : j \in T
  <2> HIDE DEF T
  <2>1. 8 \in Nat /\ \A j \in 1 .. 8 : j - 1 \in T => j \in T
    BY <1>7
  <2> QED BY <1>6, <2>1, LoopKeeps
<1>9. 8 \in T /\ (s + 8) - 8 = s
  BY <1>8
<1> QED BY <1>1, <1>2, <1>5, <1>9

\* The registers of crc8 are the running remainder.
LEMMA RegistersDivide ==
    ASSUME NEW bytes \in Seq(Byte), NEW m, m = Dividend(bytes), NEW n \in Nat, n = Len(bytes)
    PROVE  Left(Division(m, 8 * n + 8)[8], crc8(bytes), 0, m, 8)
<1>1. PICK z \in Nat : z = 8 * n + 8
  OBVIOUS
<1>2. PICK d : d = Division(m, z)
  OBVIOUS
<1>3. PICK r : r = Registers(bytes)
  OBVIOUS
<1>4. /\ m \in SUBSET Nat
      /\ \A e \in m : 8 <= e /\ e < z
      /\ \A i \in 1 .. n, f \in 0 .. 7 : 8 * (n - i) + 8 + f \in m <=> f \in BitsOf[bytes[i]]
  BY <1>1, MessageTerms
<1>5. /\ r[0] = 0
      /\ \A i \in 1 .. n : r[i] = crc8_table[Xor(r[i - 1], bytes[i])]
      /\ \A i \in 0 .. n : r[i] \in Byte
      /\ r[n] = crc8(bytes)
  BY <1>3, RegistersAre, Crc8Is
<1>6. \A i \in 1 .. n : bytes[i] \in Byte
  BY ElementOfSeq
<1> DEFINE T == { i \in 0 .. n : Left(d[8 * (n - i) + 8], r[i], 8 * (n - i), m, 8 * (n - i) + 8) }
<1>7. 0 \in T
  <2>1. z >= 8
    BY <1>1
  <2>0. d[z] = m
    <3>1. m \in SUBSET Nat
      BY <1>4
    <3> QED BY <1>2, <2>1, <3>1, DivisionIs
  <2>2. BitsOf[0] = {}
    <3>1. 0 \in Byte
      BY DEF Byte
    <3>2. /\ 0 % 2 = 0 /\ (0 \div 2) % 2 = 0 /\ (0 \div 4) % 2 = 0 /\ (0 \div 8) % 2 = 0
          /\ (0 \div 16) % 2 = 0 /\ (0 \div 32) % 2 = 0 /\ (0 \div 64) % 2 = 0
          /\ (0 \div 128) % 2 = 0
      OBVIOUS
    <3>3. /\ 0 \notin BitsOf[0] /\ 1 \notin BitsOf[0] /\ 2 \notin BitsOf[0] /\ 3 \notin BitsOf[0]
          /\ 4 \notin BitsOf[0] /\ 5 \notin BitsOf[0] /\ 6 \notin BitsOf[0] /\ 7 \notin BitsOf[0]
          /\ BitsOf[0] \subseteq 0 .. 7
      BY <3>1, <3>2, BitsAre
    <3>4. \A k \in 0 .. 7 : k \notin BitsOf[0]
      BY <3>3
    <3> QED BY <3>3, <3>4
  <2>3. Left(m, 0, 8 * n, m, z)
    BY <1>4, <2>2 DEF Left
  <2>4. 8 * (n - 0) + 8 = z /\ 8 * (n - 0) = 8 * n /\ 0 \in 0 .. n
    BY <1>1
  <2> QED BY <1>5, <2>0, <2>3, <2>4
<1>8. ASSUME NEW i \in 1 .. n, i - 1 \in T PROVE i \in T
  <2>1. PICK s \in Nat : s = 8 * (n - i) + 8
    OBVIOUS
  <2>2. PICK a : a = r[i - 1]
    OBVIOUS
  <2>3. PICK x : x = bytes[i]
    OBVIOUS
  <2>4. /\ s = 8 * (n - (i - 1)) /\ s - 8 = 8 * (n - i) /\ s >= 8 /\ s + 8 <= z
        /\ i \in 0 .. n /\ i - 1 \in 0 .. n
    BY <1>1, <2>1
  <2>5. a \in Byte /\ x \in Byte /\ r[i] = crc8_table[Xor(a, x)]
    BY <1>5, <1>6, <2>2, <2>3, <2>4
  <2>6. Left(d[s + 8], a, s, m, s + 8)
    BY <1>8, <2>2, <2>4
  <2>7. \A f \in 0 .. 7 : s + f \in m <=> f \in BitsOf[x]
    BY <1>4, <2>1, <2>3
  <2>8. z >= 8
    BY <1>1
  <2>9. Left(d[s], crc8_table[Xor(a, x)], s - 8, m, s)
    BY <1>2, <1>4, <2>4, <2>5, <2>6, <2>7, <2>8, EntryDivides
  <2> QED BY <2>1, <2>4, <2>5, <2>9
<1>9. n \in T
  <2> HIDE DEF T
  <2>1. \A i \in 1 .. n : i - 1 \in T => i \in T
    BY <1>8
  <2>2. \A i \in 0 .. n : i \in T
    BY <1>7, <2>1, LoopKeeps
  <2> QED BY <2>2
<1>10. 8 * (n - n) + 8 = 8 /\ 8 * (n - n) = 0
  OBVIOUS
<1> QED BY <1>1, <1>2, <1>5, <1>9, <1>10

\* crc8 computes the remainder it stands for, of any bytes.
LEMMA Crc8Divides ==
    ASSUME NEW bytes \in Seq(Byte)
    PROVE  crc8(bytes) = CrcOf(bytes)
<1>1. PICK n \in Nat : n = Len(bytes)
  BY LenProperties
<1>2. PICK m : m = Dividend(bytes)
  OBVIOUS
<1>3. PICK q : q = Division(m, 8 * n + 8)[8]
  OBVIOUS
<1>4. PICK c : c = crc8(bytes)
  OBVIOUS
<1>5. Left(q, c, 0, m, 8)
  BY <1>1, <1>2, <1>3, <1>4, RegistersDivide
<1>6. c \in Byte /\ BitsOf[c] \subseteq 0 .. 7
  BY <1>4, Crc8IsByte, BitsAre
<1>7. \A e \in m : 8 <= e
  BY <1>2, MessageTerms
<1>8. q = BitsOf[c]
  <2>1. q \subseteq Nat
    BY <1>5 DEF Left
  <2>2. ASSUME NEW e \in Nat PROVE e \in q <=> e \in BitsOf[c]
    <3>1. e \in q <=> ~((e >= 0 /\ e - 0 \in BitsOf[c]) <=> (e \in m /\ e < 8))
      BY <1>5 DEF Left
    <3>2. ~(e \in m /\ e < 8)
      BY <1>7
    <3>3. e >= 0 /\ e - 0 = e
      OBVIOUS
    <3> QED BY <3>1, <3>2, <3>3
  <2>3. BitsOf[c] \subseteq Nat
    BY <1>6
  <2> QED BY <2>1, <2>2, <2>3, Zenon
<1>9. ByteOf[BitsOf[c]] = c
  BY <1>6, ByteOfBits, BitsDetermine
<1>10. CrcOf(bytes) = ByteOf[q]
  BY <1>1, <1>2, <1>3, RemainderIs DEF CrcOf, Dividend
<1> QED BY <1>4, <1>8, <1>9, <1>10

\* The messages whose CRC the two programs compute, as the property spells them out.
CommandSpelt(p, c, body) == <<p, High(Len(body)), Low(Len(body)), c>> \o body
DataSpelt(body) == <<High(Len(body)), Low(Len(body))>> \o body

LEMMA CommandIsSpelt ==
    ASSUME NEW body, Sized(body), NEW p \in Byte, NEW c \in Byte
    PROVE  CommandMessage(p, c, body) = CommandSpelt(p, c, body)
<1>0. body \in Seq(Byte)
  BY DEF Sized
<1>1. PICK n : n = Len(body)
  OBVIOUS
<1>2. n \in Nat /\ High(n) \in Byte /\ Low(n) \in Byte
  <2>1. n \in Nat /\ n < 256 * SizeBase
    BY <1>0, <1>1, LenProperties DEF Sized
  <2> QED BY <2>1, SizeBytesAre
<1>5. PICK h, l : h = High(n) /\ l = Low(n)
  OBVIOUS
<1>3. PICK f : f = <<p, h, l, c>>
  OBVIOUS
<1>4. f \in Seq(Byte) /\ Len(f) = 4 /\ f[1] = p /\ f[2] = h /\ f[3] = l /\ f[4] = c
  BY <1>2, <1>3, <1>5
<1> DEFINE m == CommandMessage(p, c, body)
<1>6. /\ m \in Seq(Byte) /\ Len(m) = 4 + n
      /\ m[1] = p /\ m[2] = h /\ m[3] = l /\ m[4] = c
      /\ \A i \in 1 .. n : m[4 + i] = body[i]
  <2>1. /\ m \in Seq(Byte) /\ Len(m) = 4 + Len(body)
        /\ m[1] = p /\ m[2] = High(Len(body)) /\ m[3] = Low(Len(body)) /\ m[4] = c
        /\ \A i \in 1 .. Len(body) : m[4 + i] = body[i]
    BY CommandMessageIs
  <2> HIDE DEF m
  <2> QED BY <1>1, <1>5, <2>1
<1> HIDE DEF m
<1>7. PICK s : s = f \o body
  OBVIOUS
<1>8. Joins(s, f, 4, body, n)
  BY <1>0, <1>1, <1>4, <1>7, Joined, Zenon
<1>9. /\ s \in Seq(Byte) /\ Len(s) = 4 + n
      /\ \A i \in 1 .. 4 : s[i] = f[i]
      /\ \A i \in 1 .. n : s[4 + i] = body[i]
  BY <1>8 DEF Joins
<1>10. ASSUME NEW i \in 1 .. 4 + n PROVE m[i] = s[i]
  <2>1. CASE i <= 4
    <3>1. i = 1 \/ i = 2 \/ i = 3 \/ i = 4
      BY <2>1
    <3> QED BY <1>4, <1>6, <1>9, <3>1
  <2>2. CASE i > 4
    <3>1. PICK k \in 1 .. n : i = 4 + k
      <4>1. i - 4 \in 1 .. n /\ i = 4 + (i - 4)
        BY <1>2, <2>2
      <4> QED BY <4>1
    <3> QED BY <1>6, <1>9, <3>1
  <2> QED BY <2>1, <2>2
<1>11. m = s
  <2>1. Len(m) = Len(s) /\ \A i \in 1 .. Len(m) : m[i] = s[i]
    BY <1>6, <1>9, <1>10
  <2> QED BY <1>6, <1>9, <2>1, SeqEqual
<1> QED BY <1>1, <1>3, <1>5, <1>7, <1>11 DEF m, CommandSpelt

LEMMA DataIsSpelt ==
    ASSUME NEW body
    PROVE  DataMessage(body) = DataSpelt(body)
BY DEF DataMessage, SizeBytes, DataSpelt, High, Low

LEMMA PacketDivides == PacketSound => CrcIsRemainder
<1> SUFFICES ASSUME PacketSound, crc # <<>>
             PROVE  crc[1] = CrcOf(IF kind = "command"
                        THEN CommandSpelt(sent.protocol, sent.command, sent.body)
                        ELSE DataSpelt(sent.body))
  BY DEF CrcIsRemainder, CommandSpelt, DataSpelt, High, Low
<1>1. PICK p, c, body : p = sent.protocol /\ c = sent.command /\ body = sent.body
  OBVIOUS
<1>2. /\ p \in Byte /\ c \in Byte /\ body \in Seq(Byte) /\ Len(body) \in Nat
      /\ Len(body) < 256 * SizeBase
  <2>1. p \in Byte /\ c \in Byte
    BY <1>1 DEF PacketSound, Packet
  <2>2. body \in Seq(Byte) /\ Len(body) \in Nat /\ Sized(body)
    BY <1>1, BodyIsSized
  <2> QED BY <2>1, <2>2 DEF Sized
<1>3. Sized(body)
  BY <1>2 DEF Sized
<1>4. crc[1] = IF kind = "command" THEN crc8(CommandMessage(p, c, body))
                                   ELSE crc8(DataMessage(body))
  BY <1>1, MessagesAre DEF PacketSound, Created
<1>5. CASE kind = "command"
  <2>1. CommandMessage(p, c, body) \in Seq(Byte)
    BY <1>2, <1>3, CommandMessageIs
  <2>2. CommandMessage(p, c, body) = CommandSpelt(p, c, body)
    BY <1>2, <1>3, CommandIsSpelt
  <2> QED BY <1>1, <1>4, <1>5, <2>1, <2>2, Crc8Divides
<1>6. CASE kind # "command"
  <2>1. DataMessage(body) \in Seq(Byte)
    BY <1>3, DataMessageIs
  <2>2. DataMessage(body) = DataSpelt(body)
    BY DataIsSpelt
  <2> QED BY <1>1, <1>4, <1>6, <2>1, <2>2, Crc8Divides
<1> QED BY <1>5, <1>6

\* The CRC of every packet that can be sent, of whatever bytes, is the remainder of
\* its bytes times x^8 when they are divided by x^8 + x^2 + x + 1: the table of
\* generate_crc8_table and the loop of crc8 compute what they are meant to (crc8.c).
THEOREM TableIsDivision == CheckSpec => []CrcIsRemainder
<1>1. CheckInit => PacketSound
  BY PacketInit
<1>2. PacketSound /\ [CheckNext]_checkVars => PacketSound'
  BY PacketNext
<1>3. PacketSound => CrcIsRemainder
  BY PacketDivides
<1> QED BY <1>1, <1>2, <1>3, PTL DEF CheckSpec
=============================================================================
