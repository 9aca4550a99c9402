-------------------------- MODULE MCPacketTransfer --------------------------
(* PacketTransfer with the FIFO of the Pico as it is, eight words deep.    *)
EXTENDS PacketTransfer
=============================================================================
