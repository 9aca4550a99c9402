---------------------------- MODULE MCWireStream ----------------------------
(* The instance of WireStream that TLC checks: sizes to the base of seven, *)
(* so that a sector of two times the base has the size bytes 2 and 0, as   *)
(* one of 512 bytes has.                                                   *)
EXTENDS WireStream

Zeros == [i \in 1..14 |-> 0]

\* A sector that holds what reads as a request, to read a sector, without parameters,
\* and the data of one.
Deceiver == <<2, 4, 0, 0, CommandCrc(2, 4, <<>>), 0, 1, 0, DataCrc(<<0>>), 2, 8, 0, 0,
              CommandCrc(2, 8, <<>>)>>

MCValue == {Zeros, Deceiver}
MCHeap == { [i \in 1..20 |-> 33], [i \in 1..20 |-> IF i < 7 THEN Params(1)[i] ELSE 0] }
=============================================================================
