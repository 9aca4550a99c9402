------------------------- MODULE MCUserPortProtocol -------------------------
(* The instance of UserPortProtocol that TLC checks. *)
EXTENDS UserPortProtocol
=============================================================================
