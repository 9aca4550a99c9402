-------------------------- MODULE MCSectorTransfer --------------------------
(* Two small units in one image file, one after the other, with a sector   *)
(* in front of them; the first is as long as the wrap.                     *)
EXTENDS SectorTransfer

First == CHOOSE u \in Unit : TRUE
StartOf    == [u \in Unit |-> IF u = First THEN 1 ELSE 4]
CapacityOf == [u \in Unit |-> IF u = First THEN 3 ELSE 2]
=============================================================================
