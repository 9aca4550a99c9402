------------------------ MODULE ImageCatalog_proofs ------------------------
(***************************************************************************)
(* What the parsing of an SD card does, proved for every card: any number  *)
(* of files, labels with any number of volumes, tables of any size.        *)
(***************************************************************************)
EXTENDS ImageCatalog, FiniteSetTheorems, SequenceTheorems, TLAPS

USE SizesAssumption

-----------------------------------------------------------------------------
(* Files and lists *)

LEMMA FileOfSlot ==
    ASSUME TypeOK, NEW u \in Slots
    PROVE  File(u) \in ImageFile
<1>1. images \in Seq(ImageFile) /\ fileCount \in Nat
  BY LenProperties DEF TypeOK, fileCount
<1>2. u + 1 \in 1 .. Len(images)
  BY <1>1 DEF Slots, fileCount
<1> QED BY <1>1, <1>2, ElementOfSeq DEF File

LEMMA LabelOfSlot ==
    ASSUME TypeOK, NEW u \in Slots, IsV9k(u)
    PROVE  /\ File(u).readable \in BOOLEAN
           /\ File(u).volumes \in Seq(VolumeKind)
           /\ Len(File(u).volumes) \in Nat
           /\ DOMAIN File(u).volumes = 1 .. Len(File(u).volumes)
<1>1. File(u) \in ImageFile
  BY FileOfSlot
<1>2. File(u).readable \in BOOLEAN /\ File(u).volumes \in Seq(VolumeKind)
  BY <1>1 DEF IsV9k, ImageFile
<1> QED BY <1>2, LenProperties

LEMMA SlotsAreUnits == TypeOK => Slots \subseteq Units /\ fileCount \in 0 .. MaxImages
<1> SUFFICES ASSUME TypeOK PROVE Slots \subseteq Units /\ fileCount \in 0 .. MaxImages
  OBVIOUS
<1>1. fileCount \in Nat /\ fileCount <= MaxImages
  BY LenProperties DEF TypeOK, fileCount
<1> QED BY <1>1 DEF Slots, Units

-----------------------------------------------------------------------------
(* How far the volume loop is *)

\* The data volumes among the first n of unit u's label.
Data(u, n) == { m \in 1 .. n : File(u).volumes[m] = "data" }

LEMMA DataIsFinite ==
    ASSUME NEW u, NEW n \in Nat
    PROVE  IsFiniteSet(Data(u, n)) /\ Cardinality(Data(u, n)) \in Nat
<1>1. IsFiniteSet(1 .. n)
  BY FS_Interval
<1> QED BY <1>1, FS_Subset, FS_CardinalityType DEF Data

LEMMA DataGrows ==
    ASSUME NEW u, NEW n \in Nat
    PROVE  Cardinality(Data(u, n + 1)) =
               Cardinality(Data(u, n))
               + (IF File(u).volumes[n + 1] = "data" THEN 1 ELSE 0)
<1>1. IsFiniteSet(Data(u, n)) /\ Cardinality(Data(u, n)) \in Nat
  BY DataIsFinite
<1>2. CASE File(u).volumes[n + 1] = "data"
  <2>1. Data(u, n + 1) = Data(u, n) \cup {n + 1} /\ n + 1 \notin Data(u, n)
    BY <1>2 DEF Data
  <2> QED BY <1>1, <1>2, <2>1, FS_AddElement
<1>3. CASE File(u).volumes[n + 1] # "data"
  <2>1. Data(u, n + 1) = Data(u, n)
    BY <1>3 DEF Data
  <2> QED BY <1>1, <1>3, <2>1
<1> QED BY <1>2, <1>3

LEMMA DataIsMonotonic ==
    ASSUME NEW u, NEW n \in Nat, NEW m \in Nat, n <= m
    PROVE  Cardinality(Data(u, n)) <= Cardinality(Data(u, m))
<1>1. Data(u, n) \subseteq Data(u, m)
  BY DEF Data
<1> QED BY <1>1, DataIsFinite, FS_Subset

\* In the volume loop, the slot index is ahead of the image's own by the data
\* volumes passed.
InLoop ==
    pc = "volume" =>
        /\ i \in Slots
        /\ IsV9k(i)
        /\ File(i).readable
        /\ vol <= Len(Volumes)
        /\ Len(Volumes) <= MaxPartitions
        /\ img = i + Cardinality(Data(i, vol))

Looping == TypeOK /\ InLoop

LEMMA LoopingInit == Init => Looping
<1> SUFFICES ASSUME Init PROVE Looping
  OBVIOUS
<1>1. dir \in Seq(DirectoryEntry)
  BY CardsAssumption DEF Init
<1>2. images \in Seq(ImageFile) /\ fileCount = 0
  BY EmptySeq DEF Init, fileCount
<1>3. bpb \in [Units -> Source \cup {Zero}] /\ start \in [Units -> Source \cup {Zero}]
  BY DEF Init
<1>4. pc = "scan" /\ i = 0 /\ img = 0 /\ vol = 0
  BY DEF Init
<1> QED BY <1>1, <1>2, <1>3, <1>4 DEF Looping, TypeOK, InLoop

LEMMA LoopingScan == Looping /\ Scan => Looping'
<1> SUFFICES ASSUME Looping, Scan PROVE Looping'
  OBVIOUS
<1>1. /\ dir \in Seq(DirectoryEntry) /\ dir # <<>>
      /\ images \in Seq(ImageFile) /\ fileCount < MaxImages
  BY DEF Looping, TypeOK, Scan
<1>2. dir' \in Seq(DirectoryEntry) /\ Head(dir) \in DirectoryEntry
  BY <1>1, HeadTailProperties DEF Scan
<1>3. images' \in Seq(ImageFile) /\ Len(images') <= Len(images) + 1 /\ Len(images) \in Nat
      /\ Len(images') \in Nat
  <2>1. CASE Matches(Head(dir))
    <3>1. Head(dir) \in ImageFile
      BY <1>2, <2>1 DEF Matches, DirectoryEntry
    <3> QED BY <1>1, <2>1, <3>1, AppendProperties, LenProperties DEF Scan
  <2>2. CASE ~Matches(Head(dir))
    BY <1>1, <2>2, LenProperties DEF Scan
  <2> QED BY <2>1, <2>2
<1>4. Len(images') <= MaxImages
  BY <1>1, <1>3 DEF fileCount
<1>5. pc = "scan" /\ UNCHANGED <<pc, i, img, vol, bpb, start>>
  BY DEF Scan
<1> QED BY <1>2, <1>3, <1>4, <1>5 DEF Looping, TypeOK, InLoop, fileCount

\* The other actions leave the images alone.
LEMMA SameImages ==
    ASSUME UNCHANGED images
    PROVE  /\ fileCount' = fileCount /\ Slots' = Slots
           /\ \A u : /\ File(u)' = File(u)
                     /\ IsV9k(u)' = IsV9k(u)
                     /\ \A n : Data(u, n)' = Data(u, n)
BY DEF fileCount, Slots, File, IsV9k, Data

LEMMA LoopingEndScan == Looping /\ EndScan => Looping'
<1> SUFFICES ASSUME Looping, EndScan PROVE Looping'
  OBVIOUS
<1>1. pc' = "parse" /\ i' = 0 /\ UNCHANGED <<dir, images, img, vol, bpb, start>>
  BY DEF EndScan
<1> QED BY <1>1 DEF Looping, TypeOK, InLoop, fileCount

\* The slot the parsing loop is at.
LEMMA AtSlot ==
    ASSUME TypeOK, i < fileCount
    PROVE  i \in Slots /\ i \in Units /\ i + 1 \in 0 .. 255
<1>1. fileCount \in 0 .. MaxImages /\ i \in 0 .. 255 /\ Slots \subseteq Units
  BY SlotsAreUnits DEF TypeOK
<1>2. i \in Slots
  BY <1>1 DEF Slots
<1> QED BY <1>1, <1>2

LEMMA LoopingParseFat12 == Looping /\ ParseFat12 => Looping'
<1> SUFFICES ASSUME Looping, ParseFat12 PROVE Looping'
  OBVIOUS
<1>1. TypeOK /\ pc = "parse" /\ i \in Units /\ i + 1 \in 0 .. 255
  BY AtSlot DEF Looping, ParseFat12
<1>2. i' = i + 1 /\ UNCHANGED <<dir, images, pc, img, vol>>
  BY DEF ParseFat12
<1>3. [image |-> i, volume |-> 0] \in Source
  BY <1>1 DEF Source
<1>4. /\ bpb' \in [Units -> Source \cup {Zero}]
      /\ start' \in [Units -> Source \cup {Zero}]
  BY <1>1, <1>3 DEF ParseFat12, RecordImage, TypeOK
<1> QED BY <1>1, <1>2, <1>4 DEF Looping, TypeOK, InLoop, fileCount

LEMMA AdvanceType ==
    ASSUME TypeOK, NEW n \in Nat, Advance(n)
    PROVE  i' \in 0 .. 255 /\ pc' = "parse"
<1>1. i \in 0 .. 255
  BY DEF TypeOK
<1>2. Byte(n) \in 0 .. 255
  BY DEF Byte
<1>3. Byte(i + Byte(n)) \in 0 .. 255
  BY <1>1, <1>2 DEF Byte
<1> QED BY <1>3 DEF Advance

\* A label nobody can read, a list that overruns its array, and the others.
LEMMA ParseV9kCases ==
    ParseV9k => /\ pc = "parse" /\ i < fileCount /\ IsV9k(i)
                /\ UNCHANGED <<dir, images, bpb, start>>
                /\ \/ Advance(255) /\ UNCHANGED <<img, vol>>
                   \/ /\ File(i).readable
                      /\ pc' = IF Len(File(i).volumes) > MaxPartitions THEN "wild" ELSE "volume"
                      /\ img' = i /\ vol' = 0 /\ i' = i
BY DEF ParseV9k, IsV9k

LEMMA LoopingParseV9k == Looping /\ ParseV9k => Looping'
<1> SUFFICES ASSUME Looping, ParseV9k PROVE Looping'
  OBVIOUS
<1>1. TypeOK /\ i \in Slots /\ IsV9k(i) /\ UNCHANGED <<dir, images, bpb, start>>
  BY AtSlot, ParseV9kCases DEF Looping
<1>2. CASE Advance(255) /\ UNCHANGED <<img, vol>>
  <2>1. i' \in 0 .. 255 /\ pc' = "parse"
    BY <1>1, <1>2, AdvanceType
  <2> QED BY <1>1, <1>2, <2>1 DEF Looping, TypeOK, InLoop, fileCount
<1>3. CASE /\ File(i).readable
           /\ pc' = IF Len(File(i).volumes) > MaxPartitions THEN "wild" ELSE "volume"
           /\ img' = i /\ vol' = 0 /\ i' = i
  <2>1. Len(File(i).volumes) \in Nat /\ i \in Nat /\ i \in 0 .. 255
    BY <1>1, LabelOfSlot DEF Slots, TypeOK
  <2>2. TypeOK'
    BY <1>1, <1>3, <2>1 DEF TypeOK, fileCount
  <2>3. Data(i, 0) = {}
    BY DEF Data
  <2>4. Cardinality(Data(i, 0)) = 0
    BY <2>3, FS_EmptySet
  <2>5. Cardinality(Data(i, vol))' = 0
    BY <1>1, <1>3, <2>4, SameImages DEF Data
  <2>6. File(i)' = File(i) /\ IsV9k(i)' = IsV9k(i) /\ Slots' = Slots
    BY <1>1, <1>3, SameImages DEF File, IsV9k
  <2>7. pc' = "volume" => Len(File(i).volumes) <= MaxPartitions
    BY <1>3, <2>1
  <2> QED BY <1>1, <1>3, <2>1, <2>2, <2>5, <2>6, <2>7 DEF Looping, InLoop, Volumes
<1> QED BY <1>2, <1>3, ParseV9kCases

LEMMA LoopingFinish == Looping /\ Finish => Looping'
BY DEF Looping, TypeOK, InLoop, Finish, fileCount

LEMMA LoopingVolumesOver ==
    ASSUME Looping, NEW n \in Nat, Advance(n), UNCHANGED <<dir, images, img, vol, bpb, start>>
    PROVE  Looping'
<1>1. i' \in 0 .. 255 /\ pc' = "parse"
  BY AdvanceType DEF Looping
<1> QED BY <1>1 DEF Looping, TypeOK, InLoop, fileCount

\* The loop goes on to the next volume, and past a data volume to the next slot.
LEMMA NextVolume ==
    ASSUME Looping, pc = "volume", vol < Len(Volumes),
           vol' = vol + 1, UNCHANGED <<images, i>>,
           img' = img + (IF Volumes[vol + 1] = "data" THEN 1 ELSE 0)
    PROVE  InLoop' /\ img' \in Nat /\ vol' \in Nat
<1>1. /\ TypeOK /\ i \in Slots /\ IsV9k(i) /\ File(i).readable
      /\ Len(Volumes) <= MaxPartitions /\ img = i + Cardinality(Data(i, vol))
      /\ vol \in Nat /\ img \in Nat
  BY DEF Looping, InLoop, TypeOK
<1>2. Len(Volumes) \in Nat /\ i \in Nat
  BY <1>1, LabelOfSlot DEF Volumes, Slots
<1>3. Cardinality(Data(i, vol + 1))
          = Cardinality(Data(i, vol)) + (IF Volumes[vol + 1] = "data" THEN 1 ELSE 0)
  BY <1>1, DataGrows DEF Volumes
<1>4. Cardinality(Data(i, vol)) \in Nat
  BY <1>1, DataIsFinite
<1>5. img' = i + Cardinality(Data(i, vol + 1))
  BY <1>1, <1>2, <1>3, <1>4
<1>6. Data(i, vol)' = Data(i, vol + 1) /\ File(i)' = File(i) /\ IsV9k(i)' = IsV9k(i)
      /\ Slots' = Slots /\ Volumes' = Volumes
  BY SameImages DEF Data, File, IsV9k, Volumes
<1>7. vol' <= Len(Volumes)
  BY <1>1, <1>2
<1> QED BY <1>1, <1>2, <1>5, <1>6, <1>7 DEF InLoop

LEMMA LoopingSkipMaintenance == Looping /\ SkipMaintenance => Looping'
<1> SUFFICES ASSUME Looping, SkipMaintenance PROVE Looping'
  OBVIOUS
<1>1. /\ pc = "volume" /\ vol < Len(Volumes) /\ vol' = vol + 1 /\ img' = img
      /\ Volumes[vol + 1] = "maintenance"
      /\ UNCHANGED <<dir, images, pc, i, bpb, start>>
  BY DEF SkipMaintenance, NextSlot
<1>2. img' = img + (IF Volumes[vol + 1] = "data" THEN 1 ELSE 0)
  BY <1>1 DEF Looping, TypeOK
<1> QED BY <1>1, <1>2, NextVolume DEF Looping, TypeOK, fileCount

LEMMA LoopingBuildVolume == Looping /\ BuildVolume => Looping'
<1> SUFFICES ASSUME Looping, BuildVolume PROVE Looping'
  OBVIOUS
<1>1. /\ pc = "volume" /\ vol < Len(Volumes) /\ vol' = vol + 1
      /\ Volumes[vol + 1] = "data"
      /\ UNCHANGED <<dir, images, i>>
      /\ pc' \in {"volume", "wild"}
  BY DEF BuildVolume
<1>2. img' = img + (IF Volumes[vol + 1] = "data" THEN 1 ELSE 0)
  BY <1>1 DEF BuildVolume, NextSlot
<1>3. InLoop' /\ img' \in Nat /\ vol' \in Nat
  BY <1>1, <1>2, NextVolume
<1>4. /\ i \in Units /\ vol \in Nat /\ img \in Nat /\ fileCount \in 0 .. MaxImages
      /\ TypeOK
  BY <1>1, SlotsAreUnits DEF Looping, InLoop, TypeOK
<1>5. [image |-> i, volume |-> vol] \in Source
  BY <1>4 DEF Source
<1>6. /\ bpb' \in [Units -> Source \cup {Zero}]
      /\ start' \in [Units -> Source \cup {Zero}]
  BY <1>4, <1>5 DEF BuildVolume, TypeOK
<1> QED BY <1>1, <1>3, <1>4, <1>6 DEF Looping, TypeOK, fileCount

LEMMA LoopingStep == Looping /\ [Next]_vars => Looping'
<1> SUFFICES ASSUME Looping, [Next]_vars PROVE Looping'
  OBVIOUS
<1>1. CASE VolumesEnd
  <2>1. Advance(vol + 1) /\ vol + 1 \in Nat /\ UNCHANGED <<dir, images, img, vol, bpb, start>>
    BY <1>1 DEF VolumesEnd, ReturnValue, Looping, TypeOK
  <2> QED BY <2>1, LoopingVolumesOver
<1>2. CASE VolumesCut
  <2>1. Advance(vol) /\ vol \in Nat /\ UNCHANGED <<dir, images, img, vol, bpb, start>>
    BY <1>2 DEF VolumesCut, Looping, TypeOK
  <2> QED BY <2>1, LoopingVolumesOver
<1>3. CASE UNCHANGED vars
  BY <1>3 DEF vars, Looping, TypeOK, InLoop, fileCount, Slots, File, IsV9k, Volumes, Data
<1> QED BY <1>1, <1>2, <1>3, LoopingScan, LoopingEndScan, LoopingParseFat12, LoopingParseV9k,
           LoopingFinish, LoopingSkipMaintenance, LoopingBuildVolume DEF Next, Parse

\* The indexes of the parser stay bytes, and its tables hold what was read or
\* zero.
THEOREM TypeCorrect == Spec => []TypeOK
<1>1. Looping => TypeOK
  BY DEF Looping
<1> QED BY <1>1, LoopingInit, LoopingStep, PTL DEF Spec

-----------------------------------------------------------------------------
(* Past the tables only with an overfull label *)

LEMMA WildSteps ==
    ASSUME Looping, [Next]_vars, pc' = "wild"
    PROVE  UNCHANGED images /\ (pc = "wild" \/ ParseV9k \/ BuildVolume)
<1>1. ~Scan /\ ~EndScan /\ ~ParseFat12 /\ ~Finish /\ ~VolumesEnd /\ ~VolumesCut /\ ~SkipMaintenance
  BY DEF Scan, EndScan, ParseFat12, Finish, VolumesEnd, VolumesCut, SkipMaintenance, Advance
<1> QED BY <1>1 DEF Next, Parse, vars, ParseV9k, BuildVolume

LEMMA OverfullStays ==
    ASSUME UNCHANGED images
    PROVE  \A u : Overfull(u) => Overfull(u)'
<1> SUFFICES ASSUME NEW u, Overfull(u) PROVE Overfull(u)'
  OBVIOUS
<1>1. fileCount' = fileCount /\ File(u)' = File(u) /\ IsV9k(u)' = IsV9k(u)
  BY SameImages DEF fileCount, File, IsV9k
<1>2. DataVolumes(u)' = DataVolumes(u)
  BY <1>1 DEF DataVolumes
<1> QED BY <1>1, <1>2 DEF Overfull

LEMMA ParseV9kOverfull ==
    ASSUME Looping, ParseV9k, pc' = "wild"
    PROVE  i \in Slots /\ Overfull(i)
<1>1. i \in Slots /\ IsV9k(i)
  BY AtSlot, ParseV9kCases DEF Looping
<1>2. File(i).readable /\ Len(File(i).volumes) > MaxPartitions
  BY ParseV9kCases DEF Advance
<1> QED BY <1>1, <1>2 DEF Overfull

LEMMA BuildVolumeOverfull ==
    ASSUME Looping, BuildVolume, pc' = "wild"
    PROVE  i \in Slots /\ Overfull(i)
<1>1. /\ TypeOK /\ i \in Slots /\ IsV9k(i) /\ File(i).readable
      /\ img = i + Cardinality(Data(i, vol)) /\ vol \in Nat
      /\ vol < Len(Volumes) /\ Volumes[vol + 1] = "data"
      /\ ~(img < fileCount /\ vol < MaxImages)
  BY DEF Looping, InLoop, TypeOK, BuildVolume
<1>2. Len(Volumes) \in Nat /\ i \in Nat /\ fileCount \in Nat /\ DOMAIN Volumes = 1 .. Len(Volumes)
  BY <1>1, LabelOfSlot, SlotsAreUnits DEF Volumes, Slots
<1>3. CASE ~(vol < MaxImages)
  <2>1. Len(File(i).volumes) > MaxImages
    BY <1>1, <1>2, <1>3 DEF Volumes
  <2> QED BY <1>1, <2>1 DEF Overfull
<1>4. CASE ~(img < fileCount)
  <2>1. DataVolumes(i) = Cardinality(Data(i, Len(Volumes)))
    BY <1>2 DEF DataVolumes, Data, Volumes
  <2>2. Cardinality(Data(i, vol + 1)) = Cardinality(Data(i, vol)) + 1
    BY <1>1, DataGrows DEF Volumes
  <2>3. Cardinality(Data(i, vol + 1)) <= Cardinality(Data(i, Len(Volumes)))
    BY <1>1, <1>2, DataIsMonotonic
  <2>4. /\ Cardinality(Data(i, vol)) \in Nat
        /\ Cardinality(Data(i, Len(Volumes))) \in Nat
    BY <1>1, <1>2, DataIsFinite
  <2>5. i + Cardinality(Data(i, vol)) >= fileCount
    BY <1>1, <1>2, <1>4, <2>4
  <2>6. DataVolumes(i) > fileCount - i
    BY <1>1, <1>2, <2>1, <2>2, <2>3, <2>4, <2>5
  <2> QED BY <1>1, <2>6 DEF Overfull
<1> QED BY <1>1, <1>3, <1>4

LEMMA StrayStep == Looping /\ StraysOnlyWhenOverfull /\ [Next]_vars => StraysOnlyWhenOverfull'
<1> SUFFICES ASSUME Looping, StraysOnlyWhenOverfull, [Next]_vars, pc' = "wild"
             PROVE  \E u \in Slots' : Overfull(u)'
  BY DEF StraysOnlyWhenOverfull
<1>1. UNCHANGED images /\ Slots' = Slots
  BY WildSteps, SameImages DEF Slots, fileCount
<1>2. \E u \in Slots : Overfull(u)
  BY WildSteps, ParseV9kOverfull, BuildVolumeOverfull DEF StraysOnlyWhenOverfull
<1> QED BY <1>1, <1>2, OverfullStays

\* The parser writes past its tables only for a Victor image that asks for more
\* data volumes than there are images from it on, or more entries than the
\* tables have.
THEOREM StraysAreAskedFor == Spec => []StraysOnlyWhenOverfull
<1>1. Init => StraysOnlyWhenOverfull
  BY DEF Init, StraysOnlyWhenOverfull
<1> QED BY <1>1, LoopingInit, LoopingStep, StrayStep, PTL DEF Spec

-----------------------------------------------------------------------------
(* Every unit is its image, on the cards the code lays out right *)

FirstVolumeOf(u) == [image |-> u, volume |-> 0]

BlankWhileScanning == pc = "scan" => \A u \in Units : bpb[u] = Zero /\ start[u] = Zero

\* Of plain images, those before the loop index are in the tables.
PlainSoFar ==
    PlainCard /\ pc \in {"parse", "done"} =>
        /\ i <= fileCount
        /\ pc = "done" => i = fileCount
        /\ \A u \in Units : /\ start[u] = bpb[u]
                            /\ bpb[u] = IF u < i /\ File(u).readable
                                        THEN FirstVolumeOf(u) ELSE Zero

\* Of a single Victor image, unit 0 is in the tables once the loop is past its
\* first volume, and nothing else ever is.
PastTheFirst == \/ pc = "volume" /\ vol >= 1
                \/ pc = "parse" /\ i >= 1
                \/ pc = "done"
SingleSoFar ==
    SingleVolumeCard /\ pc # "scan" =>
        /\ start[0] = bpb[0]
        /\ bpb[0] \in {Zero, FirstVolumeOf(0)}
        /\ PastTheFirst => bpb[0] = FirstVolumeOf(0)

Placed == Looping /\ BlankWhileScanning /\ PlainSoFar /\ SingleSoFar

LEMMA SameCards ==
    ASSUME UNCHANGED images
    PROVE  (PlainCard' <=> PlainCard) /\ (SingleVolumeCard' <=> SingleVolumeCard)
<1>1. fileCount' = fileCount /\ Slots' = Slots
      /\ \A u : File(u)' = File(u) /\ IsV9k(u)' = IsV9k(u)
  BY DEF fileCount, Slots, File, IsV9k
<1>2. DataVolumes(0)' = DataVolumes(0)
  BY <1>1 DEF DataVolumes
<1> QED BY <1>1, <1>2 DEF PlainCard, SingleVolumeCard

\* The one data volume of a single Victor image is its first.
LEMMA TheDataVolume ==
    ASSUME TypeOK, SingleVolumeCard
    PROVE  /\ 0 \in Slots /\ 0 \in Units /\ Slots = {0}
           /\ Len(File(0).volumes) \in Nat \ {0}
           /\ \A n \in 1 .. Len(File(0).volumes) : File(0).volumes[n] = "data" => n = 1
<1> DEFINE S == { n \in DOMAIN File(0).volumes : File(0).volumes[n] = "data" }
<1>1. fileCount = 1 /\ IsV9k(0) /\ Cardinality(S) = 1 /\ File(0).volumes[1] = "data"
  BY DEF SingleVolumeCard, DataVolumes
<1>2. Slots = {0} /\ 0 \in Units
  BY <1>1 DEF Slots, Units
<1>3. Len(File(0).volumes) \in Nat /\ DOMAIN File(0).volumes = 1 .. Len(File(0).volumes)
  BY <1>1, <1>2, LabelOfSlot
<1>4. IsFiniteSet(S)
  <2>1. IsFiniteSet(1 .. Len(File(0).volumes))
    BY <1>3, FS_Interval
  <2> QED BY <1>3, <2>1, FS_Subset
<1>5. PICK x : S = {x}
  BY <1>1, <1>4, FS_Singleton
<1>6. x \in 1 .. Len(File(0).volumes)
  BY <1>3, <1>5
<1>7. 1 \in S
  BY <1>1, <1>3, <1>6
<1>8. \A n \in 1 .. Len(File(0).volumes) : File(0).volumes[n] = "data" => n = 1
  BY <1>3, <1>5, <1>7
<1> QED BY <1>2, <1>3, <1>6, <1>8

LEMMA PlacedInit == Init => Placed
<1> SUFFICES ASSUME Init PROVE Placed
  OBVIOUS
<1>1. Looping
  BY LoopingInit
<1> QED BY <1>1 DEF Init, Placed, BlankWhileScanning, PlainSoFar, SingleSoFar

LEMMA PlacedScan == Placed /\ Scan => Placed'
<1> SUFFICES ASSUME Placed, Scan PROVE Placed'
  OBVIOUS
<1>1. Looping'
  BY LoopingScan DEF Placed
<1> QED BY <1>1 DEF Scan, Placed, BlankWhileScanning, PlainSoFar, SingleSoFar

LEMMA PlacedEndScan == Placed /\ EndScan => Placed'
<1> SUFFICES ASSUME Placed, EndScan PROVE Placed'
  OBVIOUS
<1>1. Looping'
  BY LoopingEndScan DEF Placed
<1>2. \A u \in Units : bpb'[u] = Zero /\ start'[u] = Zero
  BY DEF EndScan, Placed, BlankWhileScanning
<1>3. pc' = "parse" /\ i' = 0 /\ fileCount' \in Nat
  BY <1>1, SlotsAreUnits DEF EndScan, Looping, TypeOK, fileCount
<1>4. PlainSoFar'
  BY <1>2, <1>3 DEF PlainSoFar, Units
<1>5. 0 \in Units
  BY DEF Units
<1>6. SingleSoFar'
  BY <1>2, <1>3, <1>5 DEF SingleSoFar, PastTheFirst
<1> QED BY <1>1, <1>3, <1>4, <1>6 DEF Placed, BlankWhileScanning

LEMMA PlacedParseFat12 == Placed /\ ParseFat12 => Placed'
<1> SUFFICES ASSUME Placed, ParseFat12 PROVE Placed'
  OBVIOUS
<1>1. Looping' /\ TypeOK
  BY LoopingParseFat12 DEF Placed, Looping
<1>2. /\ pc = "parse" /\ pc' = "parse" /\ i' = i + 1 /\ i < fileCount /\ UNCHANGED images
      /\ File(i).kind = "fat12"
  BY DEF ParseFat12
<1>3. i \in Slots /\ i \in Units /\ i \in Nat /\ fileCount \in Nat
  BY <1>1, <1>2, AtSlot, SlotsAreUnits DEF Slots
<1>4. PlainSoFar'
  <2> SUFFICES ASSUME PlainCard, NEW u \in Units
               PROVE  /\ start'[u] = bpb'[u]
                      /\ bpb'[u] = IF u < i + 1 /\ File(u).readable
                                   THEN FirstVolumeOf(u) ELSE Zero
    <3>1. /\ PlainCard' <=> PlainCard
          /\ fileCount' = fileCount
          /\ \A u : File(u)' = File(u)
      BY <1>2, SameCards, SameImages DEF fileCount, File
    <3>2. pc' # "done" /\ i' <= fileCount
      BY <1>2, <1>3
    <3> QED BY <1>2, <3>1, <3>2 DEF PlainSoFar, FirstVolumeOf
  <2>1. /\ start[u] = bpb[u]
        /\ bpb[u] = IF u < i /\ File(u).readable THEN FirstVolumeOf(u) ELSE Zero
    BY <1>2 DEF Placed, PlainSoFar
  <2>2. CASE u = i
    <3>1. bpb[u] = Zero
      BY <1>3, <2>1, <2>2
    <3>2. bpb \in [Units -> Source \cup {Zero}] /\ start \in [Units -> Source \cup {Zero}]
      BY <1>1 DEF TypeOK
    <3> QED BY <1>3, <2>1, <2>2, <3>1, <3>2 DEF ParseFat12, RecordImage, FirstVolumeOf
  <2>3. CASE u # i
    <3>1. bpb'[u] = bpb[u] /\ start'[u] = start[u]
      BY <1>1, <2>3 DEF ParseFat12, RecordImage, TypeOK
    <3>2. u < i + 1 <=> u < i
      BY <1>3, <2>3 DEF Units
    <3> QED BY <2>1, <3>1, <3>2
  <2> QED BY <2>2, <2>3
<1>5. ~SingleVolumeCard
  <2> SUFFICES ASSUME SingleVolumeCard PROVE FALSE
    OBVIOUS
  <2>1. i = 0
    BY <1>1, <1>3, TheDataVolume
  <2> QED BY <1>2, <2>1 DEF SingleVolumeCard, IsV9k
<1> QED BY <1>1, <1>2, <1>4, <1>5, SameCards DEF Placed, BlankWhileScanning, SingleSoFar

\* A Victor image in the loop: the card is not plain, and a single one is at 0.
LEMMA VictorImage ==
    ASSUME TypeOK, i \in Slots, IsV9k(i)
    PROVE  ~PlainCard /\ (SingleVolumeCard => i = 0)
BY TheDataVolume DEF PlainCard

LEMMA PlacedParseV9k == Placed /\ ParseV9k => Placed'
<1> SUFFICES ASSUME Placed, ParseV9k PROVE Placed'
  OBVIOUS
<1>1. Looping' /\ TypeOK
  BY LoopingParseV9k DEF Placed, Looping
<1>2. /\ pc = "parse" /\ i < fileCount /\ IsV9k(i) /\ i \in Slots
      /\ UNCHANGED <<dir, images, bpb, start>>
  BY <1>1, ParseV9kCases, AtSlot
<1>3. ~PlainCard' /\ (SingleVolumeCard' <=> SingleVolumeCard)
  BY <1>1, <1>2, SameCards, VictorImage
<1>4. ASSUME SingleVolumeCard PROVE ~PastTheFirst' /\ pc' # "scan"
  <2>1. i = 0 /\ File(i).readable
    BY <1>1, <1>2, <1>4, VictorImage DEF SingleVolumeCard
  <2>2. pc' \in {"wild", "volume"} /\ vol' = 0
    BY <2>1 DEF ParseV9k
  <2> QED BY <2>2 DEF PastTheFirst
<1>5. SingleSoFar'
  BY <1>2, <1>3, <1>4 DEF Placed, SingleSoFar
<1>6. pc' # "scan"
  BY ParseV9kCases DEF Advance
<1> QED BY <1>1, <1>3, <1>5, <1>6 DEF Placed, BlankWhileScanning, PlainSoFar

LEMMA PlacedFinish == Placed /\ Finish => Placed'
<1> SUFFICES ASSUME Placed, Finish PROVE Placed'
  OBVIOUS
<1>1. Looping' /\ TypeOK
  BY LoopingFinish DEF Placed, Looping
<1>2. pc = "parse" /\ pc' = "done" /\ i >= fileCount
      /\ UNCHANGED <<dir, images, i, img, vol, bpb, start>>
  BY DEF Finish
<1>3. PlainSoFar'
  <2> SUFFICES ASSUME PlainCard
               PROVE  /\ i <= fileCount /\ i = fileCount
                      /\ \A u \in Units : /\ start[u] = bpb[u]
                                          /\ bpb[u] = IF u < i /\ File(u).readable
                                                      THEN FirstVolumeOf(u) ELSE Zero
    BY <1>2, SameCards DEF PlainSoFar, fileCount, File, FirstVolumeOf
  <2>1. i <= fileCount /\ i \in Nat /\ fileCount \in Nat
    BY <1>1, <1>2, SlotsAreUnits DEF Placed, PlainSoFar, TypeOK
  <2> QED BY <1>2, <2>1 DEF Placed, PlainSoFar
<1>4. SingleVolumeCard => PastTheFirst
  <2>1. i \in 0 .. 255
    BY <1>1 DEF TypeOK
  <2> QED BY <1>2, <2>1 DEF SingleVolumeCard, PastTheFirst
<1>5. SingleSoFar'
  BY <1>2, <1>4, SameCards DEF Placed, SingleSoFar, PastTheFirst
<1> QED BY <1>1, <1>2, <1>3, <1>5 DEF Placed, BlankWhileScanning

\* In the volume loop of a card the property is about, only unit 0 matters.
LEMMA AtVolume ==
    ASSUME Placed, pc = "volume"
    PROVE  /\ ~PlainCard
           /\ SingleVolumeCard => /\ i = 0
                                  /\ Volumes = File(0).volumes
                                  /\ img = 0 + Cardinality(Data(0, vol))
                                  /\ vol \in Nat
<1>1. TypeOK /\ i \in Slots /\ IsV9k(i) /\ img = i + Cardinality(Data(i, vol)) /\ vol \in Nat
  BY DEF Placed, Looping, InLoop, TypeOK
<1> QED BY <1>1, VictorImage DEF Volumes

\* The loop over the volumes ends: on a single Victor image, not before the first.
LEMMA PlacedVolumesOver ==
    ASSUME Placed, pc = "volume", NEW n \in Nat, Advance(n),
           SingleVolumeCard => vol >= 1 \/ n = 0,
           UNCHANGED <<dir, images, img, vol, bpb, start>>
    PROVE  Placed'
<1>1. Looping'
  BY LoopingVolumesOver DEF Placed
<1>2. ~PlainCard' /\ (SingleVolumeCard' <=> SingleVolumeCard) /\ pc' = "parse"
  BY AtVolume, SameCards DEF Advance
<1>3. ASSUME SingleVolumeCard PROVE SingleSoFar'
  <2>1. i = 0
    BY <1>3, AtVolume
  <2>2. CASE vol >= 1
    BY <1>2, <1>3, <2>2 DEF Placed, SingleSoFar, PastTheFirst
  <2>3. CASE n = 0
    <3>1. i' = 0
      BY <2>1, <2>3 DEF Advance, Byte
    <3> QED BY <1>2, <1>3, <3>1 DEF Placed, SingleSoFar, PastTheFirst
  <2> QED BY <1>3, <2>2, <2>3
<1> QED BY <1>1, <1>2, <1>3 DEF Placed, BlankWhileScanning, PlainSoFar, SingleSoFar

LEMMA PlacedVolumesEnd == Placed /\ VolumesEnd => Placed'
<1> SUFFICES ASSUME Placed, VolumesEnd PROVE Placed'
  OBVIOUS
<1>1. /\ pc = "volume" /\ vol = Len(Volumes) /\ Advance(vol + 1)
      /\ UNCHANGED <<dir, images, img, vol, bpb, start>>
  BY DEF VolumesEnd, ReturnValue
<1>2. SingleVolumeCard => vol >= 1
  BY <1>1, AtVolume, TheDataVolume DEF Placed, Looping
<1>3. vol + 1 \in Nat
  BY DEF Placed, Looping, TypeOK
<1> QED BY <1>1, <1>2, <1>3, PlacedVolumesOver

LEMMA PlacedVolumesCut == Placed /\ VolumesCut => Placed'
<1> SUFFICES ASSUME Placed, VolumesCut PROVE Placed'
  OBVIOUS
<1>1. /\ pc = "volume" /\ Advance(vol) /\ vol \in Nat
      /\ UNCHANGED <<dir, images, img, vol, bpb, start>>
  BY DEF VolumesCut, Placed, Looping, TypeOK
<1>2. vol >= 1 \/ vol = 0
  BY <1>1
<1> QED BY <1>1, <1>2, PlacedVolumesOver

LEMMA PlacedSkipMaintenance == Placed /\ SkipMaintenance => Placed'
<1> SUFFICES ASSUME Placed, SkipMaintenance PROVE Placed'
  OBVIOUS
<1>1. Looping'
  BY LoopingSkipMaintenance DEF Placed
<1>2. /\ pc = "volume" /\ pc' = "volume" /\ Volumes[vol + 1] = "maintenance"
      /\ UNCHANGED <<images, i, bpb, start>>
  BY DEF SkipMaintenance
<1>3. ~PlainCard' /\ (SingleVolumeCard' <=> SingleVolumeCard)
  BY <1>2, AtVolume, SameCards
<1>4. ASSUME SingleVolumeCard PROVE PastTheFirst
  <2>1. Volumes = File(0).volumes /\ vol \in Nat
    BY <1>2, <1>4, AtVolume
  <2>2. vol # 0
    BY <1>2, <1>4, <2>1 DEF SingleVolumeCard
  <2> QED BY <1>2, <2>1, <2>2 DEF PastTheFirst
<1>5. SingleSoFar'
  BY <1>2, <1>3, <1>4 DEF Placed, SingleSoFar
<1> QED BY <1>1, <1>2, <1>3, <1>5 DEF Placed, BlankWhileScanning, PlainSoFar

LEMMA PlacedBuildVolume == Placed /\ BuildVolume => Placed'
<1> SUFFICES ASSUME Placed, BuildVolume PROVE Placed'
  OBVIOUS
<1>1. Looping' /\ TypeOK
  BY LoopingBuildVolume DEF Placed, Looping
<1>2. /\ pc = "volume" /\ pc' \in {"volume", "wild"} /\ Volumes[vol + 1] = "data"
      /\ vol < Len(Volumes) /\ UNCHANGED <<images, i>>
  BY DEF BuildVolume
<1>3. ~PlainCard' /\ (SingleVolumeCard' <=> SingleVolumeCard)
  BY <1>2, AtVolume, SameCards
<1>4. ASSUME SingleVolumeCard PROVE start'[0] = bpb'[0] /\ bpb'[0] = FirstVolumeOf(0)
  <2>1. i = 0 /\ Volumes = File(0).volumes /\ img = 0 + Cardinality(Data(0, vol)) /\ vol \in Nat
    BY <1>2, <1>4, AtVolume
  <2>2. Len(Volumes) \in Nat /\ 0 \in Units /\ (vol + 1 \in 1 .. Len(Volumes) => vol + 1 = 1)
    BY <1>1, <1>2, <1>4, <2>1, TheDataVolume
  <2>3. vol = 0
    BY <1>2, <2>1, <2>2
  <2>4. Cardinality(Data(0, 0)) = 0
    <3>1. Data(0, 0) = {}
      BY DEF Data
    <3> QED BY <3>1, FS_EmptySet
  <2>5. img = 0
    BY <2>1, <2>3, <2>4
  <2>6. img < fileCount /\ vol < MaxImages
    BY <1>4, <2>3, <2>5 DEF SingleVolumeCard
  <2>7. /\ start' = [start EXCEPT ![0] = FirstVolumeOf(0)]
        /\ bpb' = [bpb EXCEPT ![0] = FirstVolumeOf(0)]
    BY <2>1, <2>3, <2>5, <2>6 DEF BuildVolume, FirstVolumeOf
  <2> QED BY <1>1, <2>2, <2>7 DEF TypeOK
<1>5. SingleSoFar'
  BY <1>3, <1>4 DEF SingleSoFar
<1> QED BY <1>1, <1>2, <1>3, <1>5 DEF Placed, BlankWhileScanning, PlainSoFar

LEMMA PlacedStep == Placed /\ [Next]_vars => Placed'
<1> SUFFICES ASSUME Placed, [Next]_vars PROVE Placed'
  OBVIOUS
<1>1. CASE UNCHANGED vars
  <2>1. Looping'
    BY <1>1, LoopingStep DEF Placed
  <2>2. UNCHANGED <<images, pc, i, vol, bpb, start>>
    BY <1>1 DEF vars
  <2>3. PlainSoFar'
    BY <2>2, SameCards, SameImages DEF Placed, PlainSoFar, fileCount, File
  <2>4. SingleSoFar'
    BY <2>2, SameCards DEF Placed, SingleSoFar, PastTheFirst
  <2> QED BY <2>1, <2>2, <2>3, <2>4 DEF Placed, BlankWhileScanning
<1> QED BY <1>1, PlacedScan, PlacedEndScan, PlacedParseFat12, PlacedParseV9k, PlacedFinish,
           PlacedVolumesEnd, PlacedVolumesCut, PlacedSkipMaintenance, PlacedBuildVolume
        DEF Next, Parse

LEMMA PlacedIsRight == Placed => UnitsAreTheirImages
<1> SUFFICES ASSUME Placed, pc = "done", PlainCard \/ SingleVolumeCard, NEW u \in Slots
             PROVE  /\ start[u] = bpb[u]
                    /\ bpb[u] = IF File(u).readable THEN FirstVolumeOf(u) ELSE Zero
  BY DEF UnitsAreTheirImages, FirstVolumeOf
<1>1. TypeOK /\ u \in Units /\ fileCount \in Nat
  BY SlotsAreUnits DEF Placed, Looping
<1>2. CASE PlainCard
  <2>1. u < i
    <3>1. i = fileCount
      BY <1>2 DEF Placed, PlainSoFar
    <3> QED BY <1>1, <3>1 DEF Slots
  <2> QED BY <1>1, <1>2, <2>1 DEF Placed, PlainSoFar
<1>3. CASE SingleVolumeCard
  <2>1. u = 0 /\ File(0).readable
    BY <1>1, <1>3, TheDataVolume DEF SingleVolumeCard
  <2>2. PastTheFirst
    BY DEF PastTheFirst
  <2> QED BY <1>3, <2>1, <2>2 DEF Placed, SingleSoFar
<1> QED BY <1>2, <1>3

\* On the cards the code lays out right, of any size, every unit shows the BPB of
\* its own image and starts at that image's first block.
THEOREM UnitsShowTheirImages == Spec => []UnitsAreTheirImages
<1> QED BY PlacedInit, PlacedStep, PlacedIsRight, PTL DEF Spec
=============================================================================
