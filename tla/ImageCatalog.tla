---------------------------- MODULE ImageCatalog ----------------------------
(***************************************************************************)
(* How the Pico turns the files of the SD card into DOS units: the         *)
(* directory scan of initialize_sd_state, and the loop of init_sd_card     *)
(* that fills, for every image, the BPB DOS will see and the first block   *)
(* sd_read and sd_write will add.                                          *)
(*                                                                         *)
(* An image is either a plain disk image with one FAT12 partition or, when *)
(* its name holds "_v9k", a Victor hard disk whose label lists virtual     *)
(* volumes.  A BPB and a first block are represented by where they were    *)
(* read: the image and the volume of that image.                           *)
(***************************************************************************)
EXTENDS Naturals, Sequences, FiniteSets

CONSTANTS MaxImages,      \* MAX_IMG_FILES
          MaxPartitions,  \* MAX_PARTITIONS, the room for volume addresses
          Cards           \* the directories to consider: sequences of files

\* A file of the root directory: its name matches the pattern or not; a plain
\* image has a readable partition or not; a Victor image has a readable label
\* or not, and a list of volumes whose own labels read well or not.
VolumeKind == {"data", "maintenance", "unreadable"}
ImageFile == [kind : {"fat12"}, readable : BOOLEAN]
             \cup [kind : {"v9k"}, readable : BOOLEAN, volumes : Seq(VolumeKind)]
DirectoryEntry == [kind : {"other"}] \cup ImageFile

ASSUME SizesAssumption == MaxImages \in 1..127 /\ MaxPartitions \in Nat
ASSUME CardsAssumption == Cards \subseteq Seq(DirectoryEntry)

VARIABLES
    dir,      \* directory entries f_readdir has not returned yet
    images,   \* the images found; image u of the code is images[u + 1]
    pc,       \* "scan", "parse", "volume", "done" or "wild"
    i,        \* the loop index of init_sd_card, a uint8_t
    img, vol, \* the indexes of build_bpbs_from_v9k_disk_label
    bpb,      \* bpb_array: where unit u's BPB was read, or Zero
    start     \* start_lba of images[u]: where it was read, or Zero

vars == <<dir, images, pc, i, img, vol, bpb, start>>

Units == 0 .. MaxImages - 1
Zero == [image |-> MaxImages, volume |-> 0]
Source == [image : Units, volume : Nat]

fileCount == Len(images)
File(u) == images[u + 1]
\* uint8_t arithmetic
Byte_mutant(n) == n
Byte(n) == n % 256

-----------------------------------------------------------------------------
(* The directory scan: initialize_sd_state *)

\* matches_pattern
Matches(f) == f.kind # "other"

Scan ==
    /\ pc = "scan"
    /\ dir # <<>>
    /\ fileCount < MaxImages
    /\ dir' = Tail(dir)
    /\ images' = IF Matches(Head(dir)) THEN Append(images, Head(dir)) ELSE images
    /\ UNCHANGED <<pc, i, img, vol, bpb, start>>

\* The DEVICE_INIT request of the Victor starts the parsing.
EndScan ==
    /\ pc = "scan"
    /\ dir = <<>> \/ fileCount >= MaxImages
    /\ pc' = "parse"
    /\ i' = 0
    /\ UNCHANGED <<dir, images, img, vol, bpb, start>>

-----------------------------------------------------------------------------
(* The loop of init_sd_card *)

\* read_fat12_bpb_from_img_file fills the unit it was called for.
RecordImage_mutant(u) ==
    /\ bpb'   = [bpb EXCEPT ![0] = [image |-> u, volume |-> 0]]
    /\ start' = [start EXCEPT ![u] = [image |-> u, volume |-> 0]]
RecordImage(u) ==
    /\ bpb'   = [bpb EXCEPT ![u] = [image |-> u, volume |-> 0]]
    /\ start' = [start EXCEPT ![u] = [image |-> u, volume |-> 0]]

ParseFat12 ==
    /\ pc = "parse" /\ i < fileCount
    /\ File(i).kind = "fat12"
    /\ IF File(i).readable THEN RecordImage(i) ELSE UNCHANGED <<bpb, start>>
    /\ i' = i + 1
    /\ UNCHANGED <<dir, images, pc, img, vol>>

\* build_bpbs_from_v9k_disk_label returns: the int becomes a uint8_t, and the
\* index moves on by it.
Advance(volumes) ==
    /\ pc' = "parse"
    /\ i' = Byte(i + Byte(volumes))

\* A Victor image: read its label and lists.  A list longer than the array for
\* it overruns the stack; an unreadable label is -1, which is 255.
ParseV9k ==
    /\ pc = "parse" /\ i < fileCount
    /\ File(i).kind = "v9k"
    /\ IF ~File(i).readable
       THEN Advance(255) /\ UNCHANGED <<img, vol>>
       ELSE /\ pc' = IF Len(File(i).volumes) > MaxPartitions THEN "wild" ELSE "volume"
            /\ img' = i
            /\ vol' = 0
            /\ UNCHANGED i
    /\ UNCHANGED <<dir, images, bpb, start>>

Finish ==
    /\ pc = "parse"
    /\ i >= fileCount
    /\ pc' = "done"
    /\ UNCHANGED <<dir, images, i, img, vol, bpb, start>>

-----------------------------------------------------------------------------
(* The loop over the volumes: build_bpbs_from_v9k_disk_label *)

Volumes == File(i).volumes
\* The slot limit init_sd_card passes for image i.
maxUnits == MaxImages - i

\* Past the last volume the function returns one more than it counted.
ReturnValue_mutant == vol
ReturnValue == vol + 1

VolumesEnd ==
    /\ pc = "volume"
    /\ vol = Len(Volumes)
    /\ Advance(ReturnValue)
    /\ UNCHANGED <<dir, images, img, vol, bpb, start>>

\* Out of slots, or a label that cannot be read: what was done so far counts.
VolumesCut ==
    /\ pc = "volume"
    /\ vol < Len(Volumes)
    /\ img >= maxUnits \/ Volumes[vol + 1] = "unreadable"
    /\ Advance(vol)
    /\ UNCHANGED <<dir, images, img, vol, bpb, start>>

\* A maintenance volume takes an index of the BPB array but no image slot.
NextSlot_mutant(kind) == img + 1
NextSlot(kind) == IF kind = "data" THEN img + 1 ELSE img

SkipMaintenance ==
    /\ pc = "volume"
    /\ vol < Len(Volumes) /\ img < maxUnits
    /\ Volumes[vol + 1] = "maintenance"
    /\ vol' = vol + 1
    /\ img' = NextSlot("maintenance")
    /\ UNCHANGED <<dir, images, pc, i, bpb, start>>

\* The first block goes to the DriveImage of slot img.  Past the images found
\* that pointer was never set: the store goes astray, or is lost.  The BPB goes
\* to entry vol of the array.
BuildVolume ==
    /\ pc = "volume"
    /\ vol < Len(Volumes) /\ img < maxUnits
    /\ Volumes[vol + 1] = "data"
    /\ IF img < fileCount /\ vol < MaxImages
       THEN pc' = pc ELSE pc' \in {pc, "wild"}
    /\ start' = IF img < fileCount
                THEN [start EXCEPT ![img] = [image |-> i, volume |-> vol]] ELSE start
    /\ bpb' = IF vol < MaxImages
              THEN [bpb EXCEPT ![vol] = [image |-> i, volume |-> vol]] ELSE bpb
    /\ vol' = vol + 1
    /\ img' = NextSlot("data")
    /\ UNCHANGED <<dir, images, i>>

-----------------------------------------------------------------------------
Init ==
    /\ dir \in Cards
    /\ images = <<>>
    /\ pc = "scan"
    /\ i = 0 /\ img = 0 /\ vol = 0
    /\ bpb   = [u \in Units |-> Zero]
    /\ start = [u \in Units |-> Zero]

Parse == \/ ParseFat12 \/ ParseV9k \/ Finish
         \/ VolumesEnd \/ VolumesCut \/ SkipMaintenance \/ BuildVolume

Next == Scan \/ EndScan \/ Parse

Spec == Init /\ [][Next]_vars

\* One thread runs all of it.
FairSpec == Spec /\ WF_vars(Next)

-----------------------------------------------------------------------------
(* Properties *)

TypeOK ==
    /\ dir \in Seq(DirectoryEntry)
    /\ images \in Seq(ImageFile)
    /\ fileCount <= MaxImages
    /\ pc \in {"scan", "parse", "volume", "done", "wild"}
    /\ i \in 0 .. 255
    /\ img \in Nat /\ vol \in Nat
    /\ bpb   \in [Units -> Source \cup {Zero}]
    /\ start \in [Units -> Source \cup {Zero}]

Slots == 0 .. fileCount - 1
IsV9k(u) == File(u).kind = "v9k"
DataVolumes(u) == Cardinality({ n \in DOMAIN File(u).volumes : File(u).volumes[n] = "data" })

\* The cards the code lays out right: plain images only, or a single Victor
\* image whose one data volume comes first.
PlainCard == \A u \in Slots : ~IsV9k(u)
SingleVolumeCard ==
    /\ fileCount = 1 /\ IsV9k(0) /\ File(0).readable
    /\ DataVolumes(0) = 1 /\ File(0).volumes[1] = "data"
    /\ Len(File(0).volumes) <= MaxPartitions

\* On such a card every unit DOS is told of shows the BPB and starts at the
\* block of its own image, and an image that cannot be read shows no BPB at all
\* instead of some other image's (init_sd_card, read_fat12_bpb_from_img_file,
\* build_bpbs_from_v9k_disk_label).
UnitsAreTheirImages ==
    pc = "done" /\ (PlainCard \/ SingleVolumeCard) =>
        \A u \in Slots :
            /\ start[u] = bpb[u]
            /\ bpb[u] = IF File(u).readable THEN [image |-> u, volume |-> 0] ELSE Zero

\* A Victor image only reaches past the unit tables when its label asks for
\* more than they hold: more data volumes than there are images from it on, or
\* more entries than the volume list or the BPB array has room for.
Overfull(u) ==
    /\ IsV9k(u) /\ File(u).readable
    /\ \/ DataVolumes(u) > fileCount - u
       \/ Len(File(u).volumes) > MaxPartitions
       \/ Len(File(u).volumes) > MaxImages
StraysOnlyWhenOverfull == pc = "wild" => \E u \in Slots : Overfull(u)

\* The parsing of the card comes to an end when every Victor image gives its
\* volumes a slot and has a first label to read: then the index always moves
\* forward.  (A Victor image in the second half of the table, or one whose
\* label is damaged, keeps init_sd_card in its loop; see the README.)
MovesForward(u) ==
    IsV9k(u) =>
        /\ File(u).readable
        /\ File(u).volumes # <<>> => /\ File(u).volumes[1] # "unreadable"
                                     /\ u < MaxImages - u
ParsingEnds ==
    pc = "parse" /\ (\A u \in Slots : MovesForward(u)) ~> pc \in {"done", "wild"}

\* What init_sd_card sets out to do: on a card of readable images every data
\* volume of every Victor image gets a BPB, as far as there are units.
EveryVolumeIsServed ==
    pc = "done" /\ (\A u \in Slots : File(u).readable) =>
        \A u \in Slots : IsV9k(u) =>
            \A n \in DOMAIN File(u).volumes :
                File(u).volumes[n] = "data" /\ u + n <= fileCount =>
                    \E slot \in Units : bpb[slot] = [image |-> u, volume |-> n - 1]
=============================================================================
