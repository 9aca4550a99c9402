-------------------------------- MODULE Crc8 --------------------------------
(***************************************************************************)
(* The CRC-8 both programs put at the end of a packet (crc8.c).  A byte is *)
(* a number below 256; its bits are a set, so that XOR is the symmetric    *)
(* difference.                                                             *)
(*                                                                         *)
(* The CRC of a command packet runs over its fields in another order than  *)
(* they travel in: the size before the command.                            *)
(***************************************************************************)
EXTENDS Integers, Sequences, SequencesExt

\* A size travels in two digits, high byte first.  An instance may take a smaller base
\* than 256, to have sizes <<2, 0>> and <<0, 6>> in packets TLC can go through.
CONSTANT SizeBase

ASSUME SizeBaseAssumption == SizeBase \in 2..256

Byte == 0..255

\* The bits of a byte as exponents of two, and back.
BitsOf == [b \in Byte |-> { k \in 0..7 : (b \div 2^k) % 2 = 1 }]
ByteOf == [s \in SUBSET (0..7) |->
    LET Bit(k) == IF k \in s THEN 2^k ELSE 0
    IN  Bit(0) + Bit(1) + Bit(2) + Bit(3) + Bit(4) + Bit(5) + Bit(6) + Bit(7)]
Xor(a, b) == ByteOf[SymDiff(BitsOf[a], BitsOf[b])]

POLYNOMIAL == 7

\* One round of the inner loop of generate_crc8_table.  (The operators named
\* ..._mutant are the bugs the properties are tested with.)
Shifted_even_mutant(crc) == IF crc >= 128 THEN Xor((crc * 2) % 256, POLYNOMIAL - 1) ELSE crc * 2
Shifted(crc) == IF crc >= 128 THEN Xor((crc * 2) % 256, POLYNOMIAL) ELSE crc * 2

crc8_table == [i \in Byte |->
    LET crc[j \in 0..8] == IF j = 0 THEN i ELSE Shifted(crc[j - 1])
    IN  crc[8]]

crc8_short_mutant(data) ==
    LET crc[i \in 0..Len(data)] == IF i = 0 THEN 0 ELSE crc8_table[Xor(crc[i - 1], data[i])]
    IN  crc[Len(data) - 1]
crc8(data) ==
    LET crc[i \in 0..Len(data)] == IF i = 0 THEN 0 ELSE crc8_table[Xor(crc[i - 1], data[i])]
    IN  crc[Len(data)]

SizeBytes(n) == <<n \div SizeBase, n % SizeBase>>

\* create_command_crc8 and create_data_crc8
CommandCrc(p, c, params) == crc8(<<p>> \o SizeBytes(Len(params)) \o <<c>> \o params)
DataCrc(data) == crc8(SizeBytes(Len(data)) \o data)

\* is_valid_command_crc8 and is_valid_data_crc8, which compute on their own what
\* the other side has computed.
ValidCommand_wire_order_mutant(p, c, params, crc) ==
    crc = crc8(<<p, c>> \o SizeBytes(Len(params)) \o params)
ValidCommand(p, c, params, crc) ==
    crc = crc8(<<p>> \o SizeBytes(Len(params)) \o <<c>> \o params)
ValidData(data, crc) == crc = crc8(SizeBytes(Len(data)) \o data)
=============================================================================
