---------------------------- MODULE MCPacketCheck ----------------------------
(* The instance of PacketCheck that TLC checks. *)
EXTENDS PacketCheck
=============================================================================
