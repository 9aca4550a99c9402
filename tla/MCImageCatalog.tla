--------------------------- MODULE MCImageCatalog ---------------------------
(* Small SD cards for ImageCatalog: every directory of up to Files entries *)
(* out of plain images, Victor images with up to Volumes volumes and other *)
(* files, the damaged ones included.                                       *)
EXTENDS ImageCatalog

Volume_lists(n) == UNION { [1..k -> VolumeKind] : k \in 0..n }
Files(n) ==
    { [kind |-> "other"] }
    \cup { [kind |-> "fat12", readable |-> r] : r \in BOOLEAN }
    \cup { [kind |-> "v9k", readable |-> TRUE, volumes |-> v] : v \in Volume_lists(n) }
    \cup { [kind |-> "v9k", readable |-> FALSE, volumes |-> <<>>] }

\* Three entries and two volumes, or four entries and at most one volume, or
\* one Victor image with a longer list.
SmallCards ==
    UNION { [1..k -> Files(2)] : k \in 0..3 }
    \cup [1..4 -> Files(1)]
    \cup [1..1 -> Files(4)]
=============================================================================
