----------------------- MODULE SectorTransfer_proofs -----------------------
(***************************************************************************)
(* Proofs about SectorTransfer: no transfer of any length touches another  *)
(* unit's sectors, and disjoint units are the independent arrays DOS takes *)
(* them for, whatever the layout, the capacities and the image's length.   *)
(***************************************************************************)
EXTENDS SectorTransfer, SequenceTheorems, TLAPS

USE UnitsAssumption, SizesAssumption

-----------------------------------------------------------------------------
(* The transfers DOS asks for *)

\* A transfer as the actions see it: n sectors from s on, in the unit.
Asked(u, s, n) == u \in Unit /\ s \in Nat /\ n \in 0..MaxCount /\ s + n <= Capacity[u]

LEMMA StepIsAsked ==
    ASSUME Next
    PROVE  \E u \in Unit, s \in Nat, n \in 0..MaxCount :
               /\ Asked(u, s, n)
               /\ ReadSectors(u, s, n) \/ \E data \in [1..n -> Value] : WriteSectors(u, s, data)
<1>1. PICK u \in Unit, n \in 0..MaxCount : \E s \in 0..Capacity[u] : Transfer(u, s, n)
  BY DEF Next
<1>2. PICK s \in 0..Capacity[u] : Transfer(u, s, n)
  BY <1>1
<1>3. s \in Nat
  OBVIOUS
<1> QED
  BY <1>2, <1>3 DEF Transfer, Asked

LEMMA AskedLba ==
    ASSUME NEW u, NEW s, NEW n, Asked(u, s, n)
    PROVE  /\ Lba(u, s) \in Nat /\ n \in Nat /\ Lba(u, s) = StartLba[u] + s
           /\ Capacity[u] \in Nat /\ StartLba[u] \in Nat
BY DEF Asked, Lba

LEMMA DataOf ==
    ASSUME NEW n \in Nat, NEW data \in [1..n -> Value]
    PROVE  Len(data) = n /\ data \in Seq(Contents)
<1>1. data \in [1..n -> Contents]
  BY DEF Contents
<1>2. data \in Seq(Contents)
  BY <1>1
<1>3. Len(data) = n
  BY <1>2, LenProperties
<1> QED BY <1>2, <1>3

\* The size that travels never says more sectors than there are.
LEMMA DataSizeFits == \A n \in Nat : DataSize(n) \in 0..n
BY DEF DataSize

LEMMA DataSizeWhole ==
    ASSUME NEW n \in 0..MaxCount, n < Wrap
    PROVE  DataSize(n) = n
BY DEF DataSize

-----------------------------------------------------------------------------
(* Type correctness *)

LEMMA TypeInit == Init => TypeOK
<1> SUFFICES ASSUME Init PROVE TypeOK
  OBVIOUS
<1>1. size \in Nat
  BY DEF Init
<1>2. file \in [0 .. size - 1 -> Contents]
  BY DEF Init, Contents
<1>3. buffer \in Seq(Contents)
  BY DEF Init
<1> QED BY <1>1, <1>2, <1>3 DEF TypeOK

LEMMA TypeRead ==
    ASSUME TypeOK, NEW u, NEW s, NEW n, Asked(u, s, n), ReadSectors(u, s, n)
    PROVE  TypeOK'
<1> DEFINE lo == Lba(u, s)
           bytesRead == MinOf(n, MaxOf(size, lo) - lo)
<1>1. lo \in Nat /\ n \in Nat /\ size \in Nat
  BY AskedLba DEF TypeOK
<1>2. size' = MaxOf(size, lo) /\ size' \in Nat
  BY <1>1 DEF ReadSectors, ObjectSize, MaxOf
<1>3. file' \in [0 .. size' - 1 -> Contents]
  BY <1>1, <1>2 DEF ReadSectors, Extended, TypeOK, Contents
<1>4. bytesRead \in 0..n /\ lo + bytesRead <= MaxOf(size, lo)
  BY <1>1 DEF MinOf, MaxOf
<1>5. bytesRead > 0 => lo + bytesRead <= size
  BY <1>1 DEF MinOf, MaxOf
<1>6. DataSize(bytesRead) \in 0..bytesRead
  BY <1>4, DataSizeFits
<1>7. ASSUME NEW j \in 1..n, j <= DataSize(bytesRead) PROVE file[lo + j - 1] \in Contents
  <2>1. lo + j - 1 \in 0 .. size - 1
    BY <1>1, <1>4, <1>5, <1>6, <1>7
  <2> QED BY <2>1 DEF TypeOK
<1>8. buffer' = [j \in 1..n |-> IF j <= DataSize(bytesRead) THEN file[lo + j - 1] ELSE Garbage]
  BY DEF ReadSectors
<1>9. buffer' \in [1..n -> Contents]
  BY <1>7, <1>8 DEF Contents
<1>10. buffer' \in Seq(Contents)
  BY <1>1, <1>9
<1> QED BY <1>2, <1>3, <1>10 DEF TypeOK

LEMMA TypeWrite ==
    ASSUME TypeOK, NEW u, NEW s, NEW n, Asked(u, s, n),
           NEW data \in [1..n -> Value], WriteSectors(u, s, data)
    PROVE  TypeOK'
<1> DEFINE lo == Lba(u, s)
<1>1. lo \in Nat /\ n \in Nat /\ size \in Nat
  BY AskedLba DEF TypeOK
<1>2. Len(data) = n /\ DataSize(n) \in 0..n
  BY <1>1, DataOf, DataSizeFits
<1>3. size' = MaxOf(size, lo + n) /\ size' \in Nat
  BY <1>1, <1>2 DEF WriteSectors, ObjectSize, MaxOf
<1>4. file' = [k \in 0 .. size' - 1 |->
                  IF k >= lo /\ k < lo + DataSize(n) THEN data[k - lo + 1]
                  ELSE IF k >= lo /\ k < lo + n THEN Garbage
                  ELSE IF k < size THEN file[k] ELSE Garbage]
  BY <1>2, <1>3 DEF WriteSectors
<1>5. ASSUME NEW k \in 0 .. size' - 1, k >= lo, k < lo + DataSize(n)
      PROVE  data[k - lo + 1] \in Contents
  <2>1. k - lo + 1 \in 1..n
    BY <1>1, <1>2, <1>5
  <2> QED BY <2>1 DEF Contents
<1>6. ASSUME NEW k \in 0 .. size' - 1, k < size PROVE file[k] \in Contents
  BY <1>1, <1>3, <1>6 DEF TypeOK
<1>7. file' \in [0 .. size' - 1 -> Contents]
  BY <1>4, <1>5, <1>6 DEF Contents
<1>8. buffer' \in Seq(Contents)
  BY DEF WriteSectors, TypeOK
<1> QED BY <1>3, <1>7, <1>8 DEF TypeOK

LEMMA TypeStep == TypeOK /\ [Next]_vars => TypeOK'
<1> SUFFICES ASSUME TypeOK, [Next]_vars PROVE TypeOK'
  OBVIOUS
<1>1. CASE Next
  <2>1. PICK u \in Unit, s \in Nat, n \in 0..MaxCount :
            /\ Asked(u, s, n)
            /\ ReadSectors(u, s, n) \/ \E data \in [1..n -> Value] : WriteSectors(u, s, data)
    BY <1>1, StepIsAsked
  <2>2. CASE ReadSectors(u, s, n)
    BY <2>1, <2>2, TypeRead
  <2>3. CASE \E data \in [1..n -> Value] : WriteSectors(u, s, data)
    BY <2>1, <2>3, TypeWrite
  <2> QED BY <2>1, <2>2, <2>3
<1>2. CASE UNCHANGED vars
  BY <1>2 DEF TypeOK, vars
<1> QED BY <1>1, <1>2

\* The file is as long as FatFs says it is, and holds nothing but contents.
THEOREM TypeCorrect == Spec => []TypeOK
<1> QED BY TypeInit, TypeStep, PTL DEF Spec

-----------------------------------------------------------------------------
(* No transfer touches the sectors of another unit *)

LEMMA ReadKeepsFile ==
    ASSUME TypeOK, NEW u, NEW s, NEW n, Asked(u, s, n), ReadSectors(u, s, n)
    PROVE  \A k \in 0 .. size - 1 : file'[k] = file[k]
<1>1. Lba(u, s) \in Nat /\ size \in Nat
  BY AskedLba DEF TypeOK
<1>2. \A k \in 0 .. size - 1 : k \in 0 .. MaxOf(size, Lba(u, s)) - 1
  BY <1>1 DEF MaxOf
<1> QED BY <1>1, <1>2 DEF ReadSectors, Extended

LEMMA WriteStaysInRun ==
    ASSUME TypeOK, NEW u, NEW s, NEW n, Asked(u, s, n),
           NEW data \in [1..n -> Value], WriteSectors(u, s, data)
    PROVE  \A k \in 0 .. size - 1 :
               file'[k] # file[k] => k >= Lba(u, s) /\ k < Lba(u, s) + n
<1>1. Lba(u, s) \in Nat /\ size \in Nat /\ n \in Nat
  BY AskedLba DEF TypeOK
<1>2. Len(data) = n /\ DataSize(n) \in 0..n
  BY <1>1, DataOf, DataSizeFits
<1>3. \A k \in 0 .. size - 1 : k \in 0 .. MaxOf(size, Lba(u, s) + n) - 1
  BY <1>1 DEF MaxOf
<1> QED BY <1>1, <1>2, <1>3 DEF WriteSectors

LEMMA OneUnitStep == TypeOK /\ [Next]_vars => [OneUnitChanges]_vars
<1> SUFFICES ASSUME TypeOK, Next PROVE OneUnitChanges
  OBVIOUS
<1>1. PICK u \in Unit, s \in Nat, n \in 0..MaxCount :
          /\ Asked(u, s, n)
          /\ ReadSectors(u, s, n) \/ \E data \in [1..n -> Value] : WriteSectors(u, s, data)
  BY StepIsAsked
<1>2. CASE ReadSectors(u, s, n)
  BY <1>1, <1>2, ReadKeepsFile DEF OneUnitChanges
<1>3. CASE \E data \in [1..n -> Value] : WriteSectors(u, s, data)
  <2>1. \A k \in 0 .. size - 1 :
            file'[k] # file[k] => k >= Lba(u, s) /\ k < Lba(u, s) + n
    BY <1>1, <1>3, WriteStaysInRun
  <2>2. /\ Lba(u, s) = StartLba[u] + s /\ StartLba[u] \in Nat
        /\ n \in Nat /\ Capacity[u] \in Nat /\ s + n <= Capacity[u]
    BY <1>1, AskedLba DEF Asked
  <2>3. \A k \in 0 .. size - 1 :
            file'[k] # file[k] => k >= StartLba[u] /\ k < StartLba[u] + Capacity[u]
    <3> SUFFICES ASSUME NEW k \in 0 .. size - 1, k >= Lba(u, s) /\ k < Lba(u, s) + n
                 PROVE  k >= StartLba[u] /\ k < StartLba[u] + Capacity[u]
      BY <2>1
    <3>1. size \in Nat
      BY DEF TypeOK
    <3> QED BY <2>2, <3>1
  <2> QED BY <2>3 DEF OneUnitChanges
<1> QED BY <1>1, <1>2, <1>3

\* A sector of the image changes only by a transfer for the unit it lies in,
\* also when the transfer is so long that its 16-bit size wraps, when the image
\* is short, and when units overlap.
THEOREM NeighboursAreUntouched == Spec => NeighboursUntouched
<1>1. Spec => []TypeOK
  BY TypeCorrect
<1> QED BY <1>1, OneUnitStep, PTL DEF Spec, NeighboursUntouched

-----------------------------------------------------------------------------
(* Disjoint units are independent arrays *)

Drive == [u \in Unit |-> [s \in 0 .. Capacity[u] - 1 |-> SectorOf(u, s)]]

LEMMA DriveInit == Init => Drives!Init
<1> SUFFICES ASSUME Init PROVE Drives!Init
  OBVIOUS
<1>1. TypeOK
  BY TypeInit
<1>2. ASSUME NEW u \in Unit
      PROVE  [s \in 0 .. Capacity[u] - 1 |-> SectorOf(u, s)] \in [0 .. Capacity[u] - 1 -> Contents]
  <2>1. ASSUME NEW s \in 0 .. Capacity[u] - 1 PROVE SectorOf(u, s) \in Contents
    <3>1. Lba(u, s) \in Nat
      BY <1>2, <2>1 DEF Lba
    <3>2. CASE Lba(u, s) < size
      <4>1. Lba(u, s) \in 0 .. size - 1
        BY <1>1, <3>1, <3>2 DEF TypeOK
      <4> QED BY <1>1, <3>2, <4>1 DEF TypeOK, SectorOf
    <3>3. CASE ~(Lba(u, s) < size)
      BY <3>3 DEF SectorOf, Contents
    <3> QED BY <3>2, <3>3
  <2> QED BY <2>1
<1> QED BY <1>2 DEF Drives!Init, Init

\* A sector is the same before and after when the file is, as far as it went.
LEMMA ReadKeepsSectors ==
    ASSUME TypeOK, NEW u, NEW s, NEW n, Asked(u, s, n), ReadSectors(u, s, n)
    PROVE  Drive' = Drive
<1>1. Lba(u, s) \in Nat /\ size \in Nat /\ size' = MaxOf(size, Lba(u, s))
  BY AskedLba DEF TypeOK, ReadSectors, ObjectSize
<1>2. file' = [k \in 0 .. size' - 1 |-> IF k < size THEN file[k] ELSE Garbage]
  BY <1>1 DEF ReadSectors, Extended
<1>3. ASSUME NEW v \in Unit, NEW t \in 0 .. Capacity[v] - 1
      PROVE  SectorOf(v, t)' = SectorOf(v, t)
  <2>1. Lba(v, t) \in Nat
    BY <1>3 DEF Lba
  <2>2. size' \in Nat /\ size' >= size
    BY <1>1 DEF MaxOf
  <2>3. CASE Lba(v, t) < size'
    <3>1. Lba(v, t) \in 0 .. size' - 1
      BY <2>1, <2>2, <2>3
    <3>2. file'[Lba(v, t)] = IF Lba(v, t) < size THEN file[Lba(v, t)] ELSE Garbage
      BY <1>2, <3>1
    <3> QED BY <2>3, <3>2 DEF SectorOf, Lba
  <2>4. CASE ~(Lba(v, t) < size')
    <3>1. ~(Lba(v, t) < size)
      BY <1>1, <2>1, <2>2, <2>4
    <3> QED BY <2>4, <3>1 DEF SectorOf, Lba
  <2> QED BY <2>3, <2>4
<1> QED BY <1>3 DEF Drive

Filled(u, s, n) == buffer' = [j \in 1..n |-> Drive[u][s + j - 1]]

LEMMA ReadReadsDrive ==
    ASSUME TypeOK, NEW u \in Unit, NEW s \in Nat, NEW n \in 0..MaxCount, n < Wrap,
           Asked(u, s, n), ReadSectors(u, s, n)
    PROVE  Filled(u, s, n)
<1> DEFINE lo == Lba(u, s)
           bytesRead == MinOf(n, MaxOf(size, lo) - lo)
<1>1. /\ lo \in Nat /\ n \in Nat /\ size \in Nat /\ u \in Unit
      /\ lo = StartLba[u] + s /\ StartLba[u] \in Nat /\ Capacity[u] \in Nat
      /\ s + n <= Capacity[u]
  BY AskedLba DEF TypeOK, Asked
<1>2. bytesRead \in 0..n
  BY <1>1 DEF MinOf, MaxOf
<1>3. DataSize(bytesRead) = bytesRead
  <2>1. bytesRead \in 0..MaxCount /\ bytesRead < Wrap
    BY <1>1, <1>2
  <2> QED BY <2>1, DataSizeWhole
<1>4. \A j \in 1..n : j <= bytesRead <=> lo + j - 1 < size
  BY <1>1 DEF MinOf, MaxOf
<1>5. ASSUME NEW j \in 1..n
      PROVE  (IF j <= DataSize(bytesRead) THEN file[lo + j - 1] ELSE Garbage)
                 = Drive[u][s + j - 1]
  <2>1. s + j - 1 \in 0 .. Capacity[u] - 1 /\ Lba(u, s + j - 1) = lo + j - 1
    BY <1>1 DEF Lba
  <2>2. Drive[u][s + j - 1] = SectorOf(u, s + j - 1)
    BY <1>1, <2>1 DEF Drive
  <2> QED BY <1>3, <1>4, <2>1, <2>2 DEF SectorOf
<1>6. buffer' = [j \in 1..n |-> IF j <= DataSize(bytesRead) THEN file[lo + j - 1] ELSE Garbage]
  BY DEF ReadSectors
<1> QED BY <1>5, <1>6 DEF Filled

\* Where a sector of unit v lies relative to a run of unit u: in the run only if
\* it is the sector of u itself.
LEMMA RunIsOfUnit ==
    ASSUME Disjoint, NEW u \in Unit, NEW s \in Nat, NEW n \in Nat, s + n <= Capacity[u],
           NEW v \in Unit, NEW t \in 0 .. Capacity[v] - 1
    PROVE  (Lba(v, t) >= Lba(u, s) /\ Lba(v, t) < Lba(u, s) + n)
               <=> (v = u /\ t >= s /\ t < s + n)
<1>1. /\ StartLba[u] \in Nat /\ StartLba[v] \in Nat
      /\ Capacity[u] \in Nat /\ Capacity[v] \in Nat
  OBVIOUS
<1>2. CASE v = u
  BY <1>1, <1>2 DEF Lba
<1>3. CASE v # u
  <2>1. \/ StartLba[u] + Capacity[u] <= StartLba[v]
        \/ StartLba[v] + Capacity[v] <= StartLba[u]
    BY <1>3 DEF Disjoint
  <2> QED BY <1>1, <1>3, <2>1 DEF Lba
<1> QED BY <1>2, <1>3

LEMMA WriteWritesDrive ==
    ASSUME TypeOK, Disjoint,
           NEW u \in Unit, NEW s \in Nat, NEW n \in 0..MaxCount, n < Wrap, Asked(u, s, n),
           NEW data \in [1..n -> Value], WriteSectors(u, s, data)
    PROVE  Drive' = [Drive EXCEPT ![u] =
                        [t \in DOMAIN Drive[u] |->
                            IF t >= s /\ t < s + Len(data)
                            THEN data[t - s + 1] ELSE Drive[u][t]]]
<1> DEFINE lo == Lba(u, s)
           Written(v, t) == v = u /\ t >= s /\ t < s + n
<1>1. /\ lo \in Nat /\ n \in Nat /\ size \in Nat
      /\ lo = StartLba[u] + s /\ StartLba[u] \in Nat /\ Capacity[u] \in Nat
      /\ s + n <= Capacity[u]
  BY AskedLba DEF TypeOK, Asked
<1>2. Len(data) = n /\ DataSize(n) = n
  BY <1>1, DataOf, DataSizeWhole
<1>3. size' = MaxOf(size, lo + n) /\ size' \in Nat /\ size' >= size /\ size' >= lo + n
  BY <1>1, <1>2 DEF WriteSectors, ObjectSize, MaxOf
<1>4. file' = [k \in 0 .. size' - 1 |->
                  IF k >= lo /\ k < lo + n THEN data[k - lo + 1]
                  ELSE IF k < size THEN file[k] ELSE Garbage]
  BY <1>1, <1>2, <1>3 DEF WriteSectors
<1>5. ASSUME NEW v \in Unit, NEW t \in 0 .. Capacity[v] - 1
      PROVE  SectorOf(v, t)' = IF Written(v, t) THEN data[t - s + 1] ELSE SectorOf(v, t)
  <2>1. Lba(v, t) \in Nat /\ Lba(v, t)' = Lba(v, t)
    BY DEF Lba
  <2>2. (Lba(v, t) >= lo /\ Lba(v, t) < lo + n) <=> Written(v, t)
    BY <1>1, RunIsOfUnit
  <2>3. CASE Written(v, t)
    <3>1. Lba(v, t) \in 0 .. size' - 1
      BY <1>1, <1>3, <2>1, <2>2, <2>3
    <3>2. Lba(v, t) - lo + 1 = t - s + 1
      BY <1>1, <2>3 DEF Lba
    <3>3. file'[Lba(v, t)] = data[t - s + 1]
      BY <1>4, <2>2, <2>3, <3>1, <3>2
    <3>4. Lba(v, t) < size'
      BY <1>3, <3>1
    <3> QED BY <2>1, <2>3, <3>3, <3>4 DEF SectorOf
  <2>4. CASE ~Written(v, t) /\ Lba(v, t) < size'
    <3>1. Lba(v, t) \in 0 .. size' - 1
      BY <1>3, <2>1, <2>4
    <3>2. file'[Lba(v, t)] = IF Lba(v, t) < size THEN file[Lba(v, t)] ELSE Garbage
      BY <1>4, <2>2, <2>4, <3>1
    <3> QED BY <2>1, <2>4, <3>2 DEF SectorOf
  <2>5. CASE ~Written(v, t) /\ ~(Lba(v, t) < size')
    <3>1. ~(Lba(v, t) < size)
      BY <1>1, <1>3, <2>1, <2>5
    <3> QED BY <2>1, <2>5, <3>1 DEF SectorOf
  <2> QED BY <2>3, <2>4, <2>5
<1>6. Drive' = [v \in Unit |-> [t \in 0 .. Capacity[v] - 1 |->
                  IF Written(v, t) THEN data[t - s + 1] ELSE SectorOf(v, t)]]
  BY <1>5 DEF Drive
<1>7. [Drive EXCEPT ![u] = [t \in DOMAIN Drive[u] |->
                               IF t >= s /\ t < s + Len(data)
                               THEN data[t - s + 1] ELSE Drive[u][t]]]
        = [v \in Unit |-> [t \in 0 .. Capacity[v] - 1 |->
              IF Written(v, t) THEN data[t - s + 1] ELSE SectorOf(v, t)]]
  BY <1>2 DEF Drive
<1> QED BY <1>6, <1>7

LEMMA DriveStep ==
    ASSUME TypeOK, Disjoint, ShorterThanWrap
    PROVE  Drives!Next
<1>1. PICK u \in Unit, n \in 0..MaxCount : \E s \in 0..Capacity[u] : n < Wrap /\ Transfer(u, s, n)
  BY DEF ShorterThanWrap
<1>2. PICK s \in 0..Capacity[u] : n < Wrap /\ Transfer(u, s, n)
  BY <1>1
<1>3. s \in Nat /\ Asked(u, s, n)
  BY <1>2 DEF Transfer, Asked
<1>4. CASE ReadSectors(u, s, n)
  <2>1. Drive' = Drive
    BY <1>3, <1>4, ReadKeepsSectors
  <2>2. Filled(u, s, n)
    BY <1>2, <1>3, <1>4, ReadReadsDrive
  <2>3. Drives!Read(u, s, n)
    BY <2>1, <2>2 DEF Drives!Read, Drive, Filled
  <2> QED BY <1>3, <2>3 DEF Drives!Next, Asked
<1>5. CASE \E data \in [1..n -> Value] : WriteSectors(u, s, data)
  <2>1. PICK data \in [1..n -> Value] : WriteSectors(u, s, data)
    BY <1>5
  <2>2. Drive' = [Drive EXCEPT ![u] =
                      [t \in DOMAIN Drive[u] |->
                          IF t >= s /\ t < s + Len(data)
                          THEN data[t - s + 1] ELSE Drive[u][t]]]
    BY <1>2, <1>3, <2>1, WriteWritesDrive
  <2>3. Drives!Write(u, s, data)
    BY <2>1, <2>2 DEF Drives!Write, Drive, WriteSectors
  <2>4. data \in [1..n -> Contents]
    BY DEF Contents
  <2> QED BY <1>3, <2>3, <2>4 DEF Drives!Next, Asked
<1> QED BY <1>2, <1>4, <1>5 DEF Transfer

\* When no two units overlap, every transfer below the 64 KB at which its size wraps
\* finds the image file the independent drives DOS takes it for, whatever transfers
\* came before (sd_read, sd_write).
THEOREM ServesDrives == ASSUME Disjoint PROVE Spec => UnitsAreArrays
<1>1. Init => Drives!Init
  BY DriveInit
<1>2. TypeOK /\ [Next]_vars => (ShorterThanWrap => [Drives!Next]_(Drives!vars))
  BY DriveStep
<1>3. Spec => []TypeOK
  BY TypeCorrect
<1> QED BY <1>1, <1>2, <1>3, PTL DEF Spec, UnitsAreArrays
=============================================================================
