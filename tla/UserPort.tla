------------------------------ MODULE UserPort ------------------------------
(***************************************************************************)
(* The user port itself: the 6522 VIA of the Victor on one side, the two   *)
(* PIO programs of the Pico and their FIFOs on the other.  This module has *)
(* the state and the four operations the two programs perform on it, one   *)
(* byte each; PacketTransfer and Startup are the programs.                 *)
(*                                                                         *)
(* A PIO program is some tens of nanoseconds per step and the 8088 some    *)
(* microseconds per instruction, so what a PIO program does at once in     *)
(* answer to a byte belongs to the step that moves the byte.  What it can  *)
(* wait for, room in its FIFO, is state: held.                             *)
(***************************************************************************)
EXTENDS Naturals, Sequences

CONSTANT FifoDepth      \* words in a joined FIFO of a PIO state machine
ASSUME FifoAssumption == FifoDepth \in Nat \ {0}

VARIABLES
    running,  \* init_pio has started the PIO programs
    rx,       \* the FIFO receive_fifo pushes into
    held,     \* <<b>> while receive_fifo is stalled in its push with b
    cb1,      \* the VIA has seen DATA_TAKEN since the last byte was written
    tx,       \* the FIFO transmit_fifo pulls from
    offering, \* transmit_fifo has a byte on the lines and waits for DATA_TAKEN
    portA     \* <<b>> while the VIA has b latched and its CA1 flag set

port == <<running, rx, held, cb1, tx, offering, portA>>

\* receive_fifo can push: the FIFO has room.  (The operators named ..._mutant
\* are the bugs the properties are tested with.)
Room_unjoined_mutant == Len(rx) < FifoDepth \div 2
Room_late_mutant == Len(rx) <= FifoDepth
Room == Len(rx) < FifoDepth

\* What the CB1 flag is after a byte that was not taken: writing port B clears it.
Untaken_mutant == cb1
Untaken == FALSE

\* The Victor stores b in out_in_reg_b: the CB1 flag clears and DATA_READY
\* pulses.  A PIO program that is not there, or stalled, misses the pulse.
WriteByte(b) ==
    /\ \/ /\ ~running \/ held # <<>>
          /\ cb1' = Untaken
          /\ UNCHANGED <<rx, held>>
       \/ /\ running /\ held = <<>> /\ Room
          /\ rx' = Append(rx, b)
          /\ cb1' = TRUE
          /\ UNCHANGED held
       \/ /\ running /\ held = <<>> /\ ~Room
          /\ held' = <<b>>
          /\ cb1' = Untaken
          /\ UNCHANGED rx
    /\ UNCHANGED <<running, tx, offering, portA>>

\* The FIFO after a word has left it: a stalled push goes through.
Refilled_mutant == held \o Tail(rx)
Refilled == Tail(rx) \o held

\* The Pico gets the oldest byte, pio_sm_get_blocking; DATA_TAKEN pulses for the
\* byte that was held, late.
GetByte ==
    /\ rx # <<>>
    /\ rx' = Refilled
    /\ held' = <<>>
    /\ cb1' = (cb1 \/ held # <<>>)
    /\ UNCHANGED <<running, tx, offering, portA>>

\* The Pico puts b, pio_sm_put_blocking: transmit_fifo offers it at once unless
\* it still waits for DATA_TAKEN.  DATA_READY is an edge: while the CA1 flag is
\* set and the latch closed, the VIA does not take another byte in.
PutByte(b) ==
    /\ \/ /\ ~offering
          /\ offering' = TRUE
          /\ portA' = IF portA = <<>> THEN <<b>> ELSE portA
          /\ UNCHANGED tx
       \/ /\ offering /\ Len(tx) < FifoDepth
          /\ tx' = Append(tx, b)
          /\ UNCHANGED <<offering, portA>>
    /\ UNCHANGED <<running, rx, held, cb1>>

\* DATA_TAKEN pulses: the byte on the lines is done with, the next is offered.
Taken ==
    \/ /\ offering /\ tx # <<>>
       /\ portA' = <<Head(tx)>> /\ tx' = Tail(tx)
       /\ UNCHANGED offering
    \/ /\ ~offering \/ tx = <<>>
       /\ portA' = <<>> /\ offering' = FALSE
       /\ UNCHANGED tx

\* The Victor finds CA1 set and reads out_in_reg_a, which clears the flag and
\* pulses DATA_TAKEN.
ReadByte ==
    /\ portA # <<>>
    /\ Taken
    /\ UNCHANGED <<running, rx, held, cb1>>

Idle ==
    /\ rx = <<>> /\ held = <<>> /\ cb1 = FALSE
    /\ tx = <<>> /\ offering = FALSE /\ portA = <<>>

PortTypeOK(Byte) ==
    /\ running \in BOOLEAN
    /\ rx \in Seq(Byte) /\ Len(rx) <= FifoDepth
    /\ held \in {<<>>} \cup { <<b>> : b \in Byte }
    /\ cb1 \in BOOLEAN
    /\ tx \in Seq(Byte) /\ Len(tx) <= FifoDepth
    /\ offering \in BOOLEAN
    /\ portA \in {<<>>} \cup { <<b>> : b \in Byte }
=============================================================================
