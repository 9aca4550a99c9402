--------------------------- MODULE SectorTransfer ---------------------------
(***************************************************************************)
(* Where the sectors of a transfer go: readBlock and write_block size the  *)
(* payloads, sd_read and sd_write find the place in the image file, and    *)
(* FatFs moves the bytes.  The exchange itself is atomic here: it is the   *)
(* subject of UserPortProtocol.                                            *)
(*                                                                         *)
(* Several units may lie in one image file, each from its start_lba on, as *)
(* the volumes of a Victor hard disk do.  Nothing in the Pico knows where  *)
(* a unit ends.  The size of a payload's data has 16 bits, so it counts    *)
(* sectors modulo Wrap.                                                    *)
(***************************************************************************)
EXTENDS Integers, Sequences

CONSTANTS Unit,       \* the units in the image file
          StartLba,   \* Unit -> first sector in the file
          Capacity,   \* Unit -> sectors, as the BPB tells DOS
          FileSizes,  \* the lengths an image file may be found with, in sectors
          MaxCount,   \* bound: sectors of one transfer
          Wrap,       \* 65536 / SECTOR_SIZE
          Value,      \* contents DOS writes
          Garbage     \* contents nobody wrote

ASSUME UnitsAssumption ==
    /\ StartLba \in [Unit -> Nat]
    /\ Capacity \in [Unit -> Nat]
ASSUME SizesAssumption == FileSizes \subseteq Nat /\ MaxCount \in Nat /\ Wrap \in Nat \ {0}

VARIABLES file,       \* the sectors of the image file
          size,       \* how many there are
          buffer      \* the transfer area of the last read

vars == <<file, size, buffer>>

Contents == Value \cup {Garbage}
MaxOf(a, b) == IF a >= b THEN a ELSE b
MinOf(a, b) == IF a <= b THEN a ELSE b

\* calculate_mbr_offset, in sectors.  (The operators named ..._mutant are the
\* bugs the properties are tested with.)
Lba_mutant(u, s) == s
Lba(u, s) == StartLba[u] + s

\* The data_size of a payload with n sectors, in sectors.
DataSize_mutant(n) == n % (Wrap - 1)
DataSize(n) == n % Wrap

\* The size FatFs keeps for the file once it has been used up to sector end.
ObjectSize_mutant(end) == size
ObjectSize(end) == MaxOf(size, end)

\* f_lseek in a file opened for writing makes the file as long as that.
Extended(n) == [k \in 0 .. n - 1 |-> IF k < size THEN file[k] ELSE Garbage]

\* write_block and sd_write: data_size bytes travel, sector_count sectors are
\* written from the buffer they arrived in.
WriteSectors(u, s, data) ==
    LET n  == Len(data)
        lo == Lba(u, s)
    IN  /\ size' = ObjectSize(lo + n)
        /\ file' = [k \in 0 .. MaxOf(size, lo + n) - 1 |->
                       IF k >= lo /\ k < lo + DataSize(n) THEN data[k - lo + 1]
                       ELSE IF k >= lo /\ k < lo + n THEN Garbage
                       ELSE IF k < size THEN file[k] ELSE Garbage]
        /\ UNCHANGED buffer

\* readBlock and sd_read: f_read stops at the end of the file, the data_size of
\* what it read travels, and the rest of the transfer area stays as it was.
ReadSectors(u, s, n) ==
    LET lo == Lba(u, s)
        bytesRead == MinOf(n, MaxOf(size, lo) - lo)
    IN  /\ size' = ObjectSize(lo)
        /\ file' = Extended(MaxOf(size, lo))
        /\ buffer' = [j \in 1..n |-> IF j <= DataSize(bytesRead)
                                     THEN file[lo + j - 1] ELSE Garbage]

Init ==
    /\ size \in FileSizes
    /\ file \in [0 .. size - 1 -> Value]
    /\ buffer = <<>>

\* DOS asks for sectors the BPB says the unit has.
Transfer(u, s, n) ==
    /\ s + n <= Capacity[u]
    /\ \/ ReadSectors(u, s, n)
       \/ \E data \in [1..n -> Value] : WriteSectors(u, s, data)

Next == \E u \in Unit, n \in 0..MaxCount : \E s \in 0 .. Capacity[u] : Transfer(u, s, n)

Spec == Init /\ [][Next]_vars

-----------------------------------------------------------------------------
(* Properties *)

TypeOK ==
    /\ size \in Nat
    /\ file \in [0 .. size - 1 -> Contents]
    /\ buffer \in Seq(Contents)

Disjoint ==
    \A u, v \in Unit : u # v =>
        \/ StartLba[u] + Capacity[u] <= StartLba[v]
        \/ StartLba[v] + Capacity[v] <= StartLba[u]

\* No transfer touches a sector of the file outside the unit it is for, whatever
\* the length of the transfer and however short the file: what lies before the
\* first unit, between units and in the other units stays (sd_write, sd_read).
OneUnitChanges ==
    \E u \in Unit : \A k \in 0 .. size - 1 :
        file'[k] # file[k] => k >= StartLba[u] /\ k < StartLba[u] + Capacity[u]
NeighboursUntouched == [][OneUnitChanges]_vars

\* The sectors of a unit as DOS may rely on them: the file's, and past its end
\* whatever the transfer area happens to hold.
SectorOf(u, s) == IF Lba(u, s) < size THEN file[Lba(u, s)] ELSE Garbage

\* Of units that are disjoint, DOS gets the independent arrays of sectors it
\* takes them for, by every transfer that is shorter than the wrap, also after one
\* that is not.  An image that is too short serves the sectors it lacks as sectors
\* nobody has written yet: they take what DOS writes, and the file growing on a read
\* or a write changes nothing else (sd_read, sd_write, f_lseek).
Drives == INSTANCE DriveArray
    WITH drive <- [u \in Unit |-> [s \in 0 .. Capacity[u] - 1 |-> SectorOf(u, s)]],
         Value <- Contents
ShorterThanWrap ==
    \E u \in Unit, n \in 0..MaxCount : \E s \in 0 .. Capacity[u] : n < Wrap /\ Transfer(u, s, n)
UnitsAreArrays ==
    Drives!Init /\ [][ShorterThanWrap => [Drives!Next]_(Drives!vars)]_vars
=============================================================================
