------------------------------ MODULE Startup ------------------------------
(***************************************************************************)
(* The two machines find each other: send_startup_handshake and the first  *)
(* command packet of the driver, against the boot of the Pico,             *)
(* wait_for_startup_handshake and receive_command_packet.                  *)
(*                                                                         *)
(* The driver writes STARTUP_HANDSHAKE again and again until it reads      *)
(* HANDSHAKE_RESPONSE.  From the moment init_pio has started the PIO       *)
(* programs those bytes pile up in the FIFO; the Pico answers the first    *)
(* and later skips a few more in front of a command.  The bytes here are   *)
(* the bytes on the wire.  Either machine may be restarted.                *)
(***************************************************************************)
EXTENDS UserPort, SequencesExt

CONSTANTS MaxHandshakes,  \* MAX_HANDSHAKE_ATTEMPTS
          MaxSends,       \* bound of the loop in send_command_payload
          Request,        \* the bytes of the first command packet
          MaxResets,      \* bound: resets of the Pico
          MaxReboots      \* bound: restarts of the Victor

ASSUME CountsAssumption ==
    /\ MaxHandshakes \in 1..255 /\ MaxSends \in Nat \ {0}
    /\ MaxResets \in Nat /\ MaxReboots \in Nat
ASSUME RequestAssumption ==
    /\ Request \in Seq(0..255) /\ Len(Request) >= 5
    /\ Request[1] # 15
    /\ Len(Request) = 5 + 256 * Request[3] + Request[4]

STARTUP_HANDSHAKE  == 15
HANDSHAKE_RESPONSE == 14
HANDSHAKE   == 15
STATUS_OK   == 0
INVALID_CRC == 7
Byte == 0..255

VARIABLES
    \* the Victor
    vpc,        \* "handshake", "response", "send", "poll", "status", "sent", "failed"
    attempts,   \* handshake_count
    sends,      \* 1 + the loop index of send_command_payload
    k,          \* bytes of Request written in this send
    \* the Pico
    ppc,        \* "off", "mounting", "handshake", "answer", "protocol",
                \* "packet", "data"
    skipped,    \* HANDSHAKE bytes receive_command_packet has skipped
    packet,     \* the bytes of the packet so far, from the protocol byte on
    \* bounds and history
    resets, reboots,
    strays,     \* handshake bytes written beyond the one that was answered
    deaf        \* the Victor restarted when the Pico had its handshake behind it

victor  == <<vpc, attempts, sends, k>>
pico    == <<ppc, skipped, packet>>
history == <<resets, reboots, strays, deaf>>
vars    == <<port, victor, pico, history>>

-----------------------------------------------------------------------------
(* The Victor *)

\* Only bytes the Pico can see count as strays.
WriteHandshake ==
    /\ vpc = "handshake"
    /\ attempts < MaxHandshakes
    /\ attempts' = attempts + 1
    /\ vpc' = "response"
    /\ WriteByte(STARTUP_HANDSHAKE)
    /\ strays' = IF running THEN strays + 1 ELSE strays
    /\ UNCHANGED <<sends, k, pico, resets, reboots, deaf>>

\* A byte came: the response ends the handshake, any other byte is a new attempt.
ReadResponse ==
    /\ vpc = "response"
    /\ ReadByte
    /\ IF portA[1] = HANDSHAKE_RESPONSE
       THEN vpc' = "send" /\ sends' = 1 /\ k' = 0
       ELSE vpc' = "handshake" /\ UNCHANGED <<sends, k>>
    /\ UNCHANGED <<attempts, pico, history>>

\* No byte within MAX_POLLING_ITERATIONS.
ResponseTimeout ==
    /\ vpc = "response"
    /\ portA = <<>>
    /\ vpc' = "handshake"
    /\ UNCHANGED <<port, attempts, sends, k, pico, history>>

GiveUpHandshake ==
    /\ vpc = "handshake"
    /\ attempts = MaxHandshakes
    /\ vpc' = "failed"
    /\ UNCHANGED <<port, attempts, sends, k, pico, history>>

\* Header and CRC go through sendBytes, the parameters through burstBytes.
Polled(n) == n <= 4 \/ n = Len(Request)
SendByte ==
    /\ vpc = "send"
    /\ k < Len(Request)
    /\ WriteByte(Request[k + 1])
    /\ k' = k + 1
    /\ vpc' = IF Polled(k + 1) THEN "poll" ELSE "send"
    /\ UNCHANGED <<attempts, sends, pico, history>>

\* DATA_TAKEN or TIMEOUT, the caller goes on; but sendBytes returns at the first
\* byte that times out, and send_uint16_t hands it both bytes of the size, the
\* third and the fourth: without the one the other is never written.
PollEnds ==
    /\ vpc = "poll"
    /\ vpc' = IF k = Len(Request) THEN "status" ELSE "send"
    /\ k' = IF k = 3 /\ ~cb1 THEN 4 ELSE k
    /\ UNCHANGED <<port, attempts, sends, pico, history>>

ReadStatus ==
    /\ vpc = "status"
    /\ ReadByte
    /\ \/ /\ portA[1] = STATUS_OK
          /\ vpc' = "sent"
          /\ UNCHANGED <<sends, k>>
       \/ /\ portA[1] # STATUS_OK /\ sends < MaxSends
          /\ vpc' = "send" /\ sends' = sends + 1 /\ k' = 0
       \/ /\ portA[1] # STATUS_OK /\ sends = MaxSends
          /\ vpc' = "failed"
          /\ UNCHANGED <<sends, k>>
    /\ UNCHANGED <<attempts, pico, history>>

\* What is left of the byte the VIA has latched: initialize_user_port clears its
\* flags.  Whether transmit_fifo sees DATA_TAKEN drop while the VIA is in reset
\* is open; if not, it goes on waiting for it.
Latched_mutant == UNCHANGED <<portA, tx, offering>>
Latched == \/ portA' = <<>> /\ UNCHANGED <<tx, offering>>
           \/ Taken

\* The Victor is restarted: deviceInit runs again.
VictorReboots ==
    /\ reboots < MaxReboots
    /\ reboots' = reboots + 1
    /\ vpc' = "handshake"
    /\ attempts' = 0 /\ sends' = 0 /\ k' = 0
    /\ cb1' = FALSE
    /\ Latched
    /\ deaf' = (ppc \in {"protocol", "packet", "data"})
    /\ UNCHANGED <<running, rx, held, pico, resets, strays>>

-----------------------------------------------------------------------------
(* The Pico *)

\* init_pio
StartPio ==
    /\ ppc = "off"
    /\ ppc' = "mounting"
    /\ running' = TRUE
    /\ UNCHANGED <<rx, held, cb1, tx, offering, portA, victor, skipped, packet, history>>

\* initialize_sd_state takes as long as the card takes.
Mounted ==
    /\ ppc = "mounting"
    /\ ppc' = "handshake"
    /\ UNCHANGED <<port, victor, skipped, packet, history>>

\* wait_for_startup_handshake discards what is not the handshake.
DiscardByte ==
    /\ ppc = "handshake"
    /\ GetByte
    /\ Head(rx) # STARTUP_HANDSHAKE
    /\ UNCHANGED <<victor, pico, history>>

GetHandshake ==
    /\ ppc = "handshake"
    /\ GetByte
    /\ Head(rx) = STARTUP_HANDSHAKE
    /\ ppc' = "answer"
    /\ strays' = IF strays > 0 THEN strays - 1 ELSE 0
    /\ UNCHANGED <<victor, skipped, packet, resets, reboots, deaf>>

AnswerHandshake ==
    /\ ppc = "answer"
    /\ PutByte(HANDSHAKE_RESPONSE)
    /\ ppc' = "protocol"
    /\ UNCHANGED <<victor, skipped, packet, history>>

\* receive_command_packet: up to this many HANDSHAKE bytes are skipped; the
\* next byte is the protocol whatever it is.
MaxSkips_mutant == 2
MaxSkips == 3
GetProtocol ==
    /\ ppc = "protocol"
    /\ GetByte
    /\ IF Head(rx) = HANDSHAKE /\ skipped < MaxSkips
       THEN skipped' = skipped + 1 /\ UNCHANGED <<ppc, packet>>
       ELSE packet' = <<Head(rx)>> /\ ppc' = "packet" /\ skipped' = 0
    /\ UNCHANGED <<victor, history>>

\* The size field says how many parameters come before the CRC.
PacketSize(p) == IF Len(p) < 4 THEN 5 ELSE 5 + 256 * p[3] + p[4]
GetPacketByte ==
    /\ ppc = "packet"
    /\ Len(packet) < PacketSize(packet)
    /\ GetByte
    /\ packet' = Append(packet, Head(rx))
    /\ UNCHANGED <<victor, ppc, skipped, history>>

\* The CRC tells the request from any other bytes; on OK the data packet is
\* next, else receive_command_packet starts over.
AnswerPacket ==
    /\ ppc = "packet"
    /\ Len(packet) = PacketSize(packet)
    /\ \/ /\ packet = Request
          /\ PutByte(STATUS_OK)
          /\ ppc' = "data"
          /\ UNCHANGED packet
       \/ /\ packet # Request
          /\ PutByte(INVALID_CRC)
          /\ ppc' = "protocol"
          /\ packet' = <<>>
    /\ UNCHANGED <<victor, skipped, history>>

\* The Pico loses power for a moment.  The VIA keeps the byte it has latched.
PicoResets ==
    /\ resets < MaxResets
    /\ resets' = resets + 1
    /\ ppc' = "off" /\ skipped' = 0 /\ packet' = <<>>
    /\ running' = FALSE
    /\ rx' = <<>> /\ held' = <<>> /\ tx' = <<>> /\ offering' = FALSE
    /\ strays' = 0
    /\ deaf' = FALSE
    /\ UNCHANGED <<cb1, portA, victor, reboots>>

-----------------------------------------------------------------------------
Init ==
    /\ Idle
    /\ running = FALSE
    /\ vpc = "handshake"
    /\ attempts = 0 /\ sends = 0 /\ k = 0
    /\ ppc = "off"
    /\ skipped = 0
    /\ packet = <<>>
    /\ resets = 0 /\ reboots = 0 /\ strays = 0 /\ deaf = FALSE

Victor == \/ WriteHandshake \/ ReadResponse \/ ResponseTimeout \/ GiveUpHandshake
          \/ SendByte \/ PollEnds \/ ReadStatus
Pico   == \/ StartPio \/ Mounted \/ DiscardByte \/ GetHandshake \/ AnswerHandshake
          \/ GetProtocol \/ GetPacketByte \/ AnswerPacket
Next == Victor \/ Pico \/ VictorReboots \/ PicoResets

Spec == Init /\ [][Next]_vars
\* Both programs run on; restarts may or may not come.
FairSpec == Spec /\ WF_vars(Victor) /\ WF_vars(Pico)

-----------------------------------------------------------------------------
(* Properties *)

TypeOK ==
    /\ PortTypeOK(Byte)
    /\ vpc \in {"handshake", "response", "send", "poll", "status", "sent", "failed"}
    /\ attempts \in 0 .. MaxHandshakes
    /\ sends \in 0 .. MaxSends
    /\ k \in 0 .. Len(Request)
    /\ ppc \in {"off", "mounting", "handshake", "answer", "protocol", "packet", "data"}
    /\ skipped \in 0 .. 3
    /\ packet \in Seq(Byte)
    /\ resets \in 0 .. MaxResets /\ reboots \in 0 .. MaxReboots
    /\ strays \in Nat /\ deaf \in BOOLEAN

Undisturbed == resets = 0 /\ reboots = 0

\* With three stray handshake bytes or fewer the Pico reads the first request
\* as it was sent, not shifted and with no byte missing, although strays and
\* request together fill the FIFO to the last word and past it (the skip loop
\* of receive_command_packet, sendBytes, receive_fifo.pio).
FewStraysDoNoHarm == Undisturbed /\ strays <= 3 => IsPrefix(packet, Request)

\* Then the start also comes to an end: the request is answered, or the driver
\* gave up on a Pico that came up too late.  Neither waits for the other for ever.
BootEnds == <>(vpc \in {"sent", "failed"} \/ strays > 3 \/ ~Undisturbed)

\* A driver started anew beside a Pico that has its handshake behind it does
\* not take an old byte for the answer to its own handshake.  (It gets no
\* answer at all: the Pico only waits for one handshake per boot.)
OldBytesAreNoAnswer == deaf => vpc \in {"handshake", "response", "failed"}

\* What wait_for_startup_handshake supposes when it returns: with the response
\* out the handshake is over, and what comes next is read as a request.
HandshakeIsComplete == Undisturbed => IsPrefix(packet, Request)
=============================================================================
