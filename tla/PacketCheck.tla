----------------------------- MODULE PacketCheck -----------------------------
(***************************************************************************)
(* What the CRC of a packet is worth: a packet is put together, the sender *)
(* computes its CRC, it travels, and the receiver checks it.  On the way   *)
(* one byte may turn into another: the port moves whole bytes, so a glitch *)
(* of the strobe damages a byte, and any of its bits.  Sizes arrive intact *)
(* here; WireStream damages them.                                          *)
(*                                                                         *)
(* The reference for the CRC is its definition: the remainder of the       *)
(* message times x^8, as a polynomial over the field of two elements, when *)
(* it is divided by x^8 + x^2 + x + 1.                                      *)
(***************************************************************************)
EXTENDS Crc8

CONSTANTS Protocols, Commands,   \* what a command packet may carry
          Contents,              \* bytes parameters and data are made of
          MaxLength              \* bound: bytes of parameters or data

ASSUME PacketAssumption ==
    /\ Protocols \subseteq Byte /\ Commands \subseteq Byte /\ Contents \subseteq Byte
    /\ MaxLength \in Nat /\ MaxLength < 256 * SizeBase

VARIABLES kind,       \* "command" or "data"
          sent,       \* the payload the sender has
          got,        \* the payload the receiver has
          damaged,    \* a byte was damaged
          crc         \* <<the CRC computed, the CRC received>> once it was sent

checkVars == <<kind, sent, got, damaged, crc>>

\* A byte on the line: intact, or another one, once.
ByteArrives(b, d) == IF damaged THEN d = b /\ UNCHANGED damaged
                            ELSE damaged' = (d # b)

Fields(p, c) == [protocol |-> p, command |-> c, body |-> <<>>]

\* The body is sent as it grows: the order does not matter to the CRC.
SendByte ==
    /\ crc = <<>>
    /\ Len(sent.body) < MaxLength
    /\ \E b \in Contents, d \in Byte :
          /\ ByteArrives(b, d)
          /\ sent' = [sent EXCEPT !.body = Append(@, b)]
          /\ got'  = [got EXCEPT !.body = Append(@, d)]
    /\ UNCHANGED <<kind, crc>>

\* create_payload_crc8
Created == IF kind = "command" THEN CommandCrc(sent.protocol, sent.command, sent.body)
                               ELSE DataCrc(sent.body)

SendCrc ==
    /\ crc = <<>>
    /\ \E own \in {Created}, d \in Byte : ByteArrives(own, d) /\ crc' = <<own, d>>
    /\ UNCHANGED <<kind, sent, got>>

Valid == IF kind = "command" THEN ValidCommand(got.protocol, got.command, got.body, crc[2])
                             ELSE ValidData(got.body, crc[2])

CheckInit ==
    /\ kind \in {"command", "data"}
    /\ crc = <<>>
    /\ \E p \in Protocols, c \in Commands :
          /\ sent = Fields(p, c)
          /\ IF kind = "data" THEN got = sent
             ELSE got \in {Fields(p, d) : d \in Byte} \cup {Fields(d, c) : d \in Byte}
    /\ damaged = (got # sent)

CheckNext == SendByte \/ SendCrc

CheckSpec == CheckInit /\ [][CheckNext]_checkVars

-----------------------------------------------------------------------------
(* Polynomials over the field of two elements, as sets of exponents. *)

Generator == {8, 2, 1, 0}
Times(p, n) == { k + n : k \in p }

\* Long division: the terms of degree n - 1 down to 8 are cancelled one after the
\* other.
Remainder(p, n) ==
    LET Divided[k \in 8..n] ==
            IF k = n THEN p
            ELSE LET q == Divided[k + 1]
                 IN  IF k \in q THEN SymDiff(q, Times(Generator, k - 8)) ELSE q
    IN  Divided[8]

\* The first bit of the message is the one of highest degree.
PolynomialOf(bytes) ==
    UNION { Times(BitsOf[bytes[i]], 8 * (Len(bytes) - i)) : i \in DOMAIN bytes }

CrcOf(bytes) == ByteOf[Remainder(Times(PolynomialOf(bytes), 8), 8 * Len(bytes) + 8)]

-----------------------------------------------------------------------------
(* Properties *)

\* The table method of crc8.c computes the remainder it stands for, of every
\* packet (create_command_crc8, create_data_crc8, generate_crc8_table).
CrcIsRemainder ==
    crc # <<>> =>
        LET high == Len(sent.body) \div SizeBase
            low  == Len(sent.body) % SizeBase
        IN  crc[1] = CrcOf((IF kind = "command"
                            THEN <<sent.protocol, high, low, sent.command>>
                            ELSE <<high, low>>) \o sent.body)

\* The receiver accepts a packet if and only if it arrived as it was sent: no
\* damage to a single byte gets past the check, the CRC's own byte included, and no
\* intact packet is refused (create_... on one side, is_valid_... on the other).
AcceptedAsSent == crc # <<>> => (Valid <=> ~damaged)
=============================================================================
