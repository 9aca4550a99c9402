----------------------------- MODULE DosDriver -----------------------------
(***************************************************************************)
(* The driver as DOS sees it: deviceInit, and DeviceInterrupt with its     *)
(* dispatch table.                                                         *)
(*                                                                         *)
(* DOS initializes the driver once and takes from the reply how many units *)
(* it has and where their BPBs are.  From then on it asks for those units. *)
(* A call is one step here: DOS waits for it, and the exchange with the    *)
(* Pico inside it either succeeds or not (see UserPortProtocol).  What the *)
(* driver sends is kept in sent: the kinds of payload that went out.       *)
(*                                                                         *)
(* deviceInit fails without writing r_nunits, and DOS goes by that field,  *)
(* not by the status: it finds what it had put there itself.               *)
(***************************************************************************)
EXTENDS DriverOptions

CONSTANTS MaxImages,   \* MAX_IMG_FILES
          Bpbs,        \* the BPBs images can have
          ZeroBpb,     \* all zero: what the arrays hold at first
          LeftOver,    \* what r_nunits may hold when DOS calls INIT
          Options      \* the lines of CONFIG.SYS

ASSUME ImagesAssumption == MaxImages \in 1..127
\* Drive letters are all DOS has.
ASSUME LeftOverAssumption == LeftOver \subseteq 0..26
ASSUME OptionsAssumption == Options \subseteq Seq(Char)

Unit == 0 .. MaxImages - 1
Bpb  == Bpbs \cup {ZeroBpb}

VARIABLES
    card,         \* InitPayload: what the Pico knows of its images
    options,      \* the line of CONFIG.SYS
    phase,        \* "loaded", "called", "ready"
    initNeeded, num_drives, debug,
    tableSet,     \* my_bpb_tbl points to my_bpbs
    my_bpbs,
    fpRequest,    \* the request: command, unit; status, nunits, bpb of the reply
    dosUnits,     \* the units DOS has been told of
    shaken,       \* history: the handshake was answered
    sent          \* history: payloads that went to the Pico

driver == <<initNeeded, num_drives, debug, tableSet, my_bpbs>>
vars   == <<card, options, phase, driver, fpRequest, dosUnits, shaken, sent>>

-----------------------------------------------------------------------------
(* DOS *)

BlockCommands == {"READ", "WRITE", "WRITE_VERIFY"}
Handled == BlockCommands \cup
           {"INIT", "MEDIA_CHECK", "BUILD_BPB", "IOCTL_INPUT", "OPEN", "CLOSE"}
\* NULL in the dispatch table, or above C_MAXCMD.
Unhandled == {"IOCTL_OUTPUT", "GENERIC_IOCTL", "beyond C_MAXCMD"}

Call(c, u) ==
    /\ phase' = "called"
    /\ fpRequest' = [fpRequest EXCEPT !.command = c, !.unit = u,
                                      !.status = "none", !.bpb = ZeroBpb]
    /\ UNCHANGED <<card, options, driver, dosUnits, shaken, sent>>

DosInits == phase = "loaded" /\ Call("INIT", 0)
DosAsks  == /\ phase = "ready"
            /\ \E c \in (Handled \ {"INIT"}) \cup Unhandled, u \in 0 .. dosUnits - 1 :
                  Call(c, u)

-----------------------------------------------------------------------------
(* deviceInit *)

\* parse_options stops at the first bad option; debug stays as it was set by then.
OptionsGood == Parsed(options).ok
DebugAsked  == Parsed(options).debug

InitCalled == phase = "called" /\ fpRequest.command = "INIT" /\ initNeeded

\* Whatever comes of it, DOS reads the number of units.
InitReturns(s, n) ==
    /\ phase' = "ready"
    /\ fpRequest' = [fpRequest EXCEPT !.status = s, !.nunits = n]
    /\ dosUnits' = n
    /\ UNCHANGED <<card, options>>

\* The raw ResponseStatus is returned: neither S_DONE nor S_ERROR is in it.
HandshakeFails ==
    /\ InitCalled
    /\ InitReturns("raw", fpRequest.nunits)
    /\ UNCHANGED <<driver, shaken, sent>>

\* debug may be set by now, but no log line is sent any more.
OptionsFail ==
    /\ InitCalled
    /\ ~OptionsGood
    /\ shaken' = TRUE
    /\ tableSet' = TRUE
    /\ debug' = (debug \/ DebugAsked)
    /\ InitReturns("UNKNOWN_MEDIA", fpRequest.nunits)
    /\ UNCHANGED <<initNeeded, num_drives, my_bpbs, sent>>

InitSends == {"DEVICE_INIT"} \cup (IF debug \/ DebugAsked THEN {"log"} ELSE {})

ExchangeFails ==
    /\ InitCalled
    /\ OptionsGood
    /\ shaken' = TRUE
    /\ tableSet' = TRUE
    /\ debug' = (debug \/ DebugAsked)
    /\ sent' = sent \cup InitSends
    /\ InitReturns("UNKNOWN_MEDIA", fpRequest.nunits)
    /\ UNCHANGED <<initNeeded, num_drives, my_bpbs>>

\* The copy loop over the BPBs.
CopiedBpbs_short == [u \in Unit |-> IF u < card.num_units - 1 THEN card.bpbs[u] ELSE my_bpbs[u]]
CopiedBpbs_long  == [u \in 0 .. MaxImages |-> IF u \in Unit THEN card.bpbs[u] ELSE ZeroBpb]
CopiedBpbs == [u \in Unit |-> IF u < card.num_units THEN card.bpbs[u] ELSE my_bpbs[u]]

DriveFound ==
    /\ InitCalled
    /\ OptionsGood
    /\ shaken' = TRUE
    /\ tableSet' = TRUE
    /\ debug' = (debug \/ DebugAsked)
    /\ sent' = sent \cup InitSends
    /\ num_drives' = card.num_units
    /\ my_bpbs' = CopiedBpbs
    /\ initNeeded' = FALSE
    /\ InitReturns("DONE", card.num_units)

deviceInit == HandshakeFails \/ OptionsFail \/ ExchangeFails \/ DriveFound

-----------------------------------------------------------------------------
(* DeviceInterrupt *)

Int8(n) == IF n > 127 THEN n - 256 ELSE n
isMyUnit_shift(u) == Int8(u) < num_drives - 1
isMyUnit_unsigned(u) == u <= num_drives % 256
isMyUnit(u) == Int8(u) <= num_drives

Returns(s, bpb, payloads) ==
    /\ phase' = "ready"
    /\ fpRequest' = [fpRequest EXCEPT !.status = s, !.bpb = bpb]
    /\ sent' = sent \cup payloads
    /\ UNCHANGED <<card, options, driver, dosUnits, shaken>>

\* writeToDriveLog sends a line in debug mode only.  isMyUnit writes one whatever
\* it answers, the handlers write more.
DebugLog == IF debug THEN {"log"} ELSE {}

UnknownCommand ==
    /\ phase = "called"
    /\ fpRequest.command \in Unhandled
    /\ Returns("UNKNOWN_COMMAND", ZeroBpb, {})

Mine == /\ phase = "called"
        /\ fpRequest.command \in Handled \ {"INIT"}
        /\ isMyUnit(fpRequest.unit)

\* Only write_block looks at initNeeded.  The payload is sent; the exchange
\* succeeds or fails.
readBlock ==
    /\ Mine
    /\ fpRequest.command = "READ"
    /\ \E s \in {"DONE", "UNKNOWN_MEDIA"} : Returns(s, ZeroBpb, DebugLog \cup {"READ"})

write_block ==
    /\ Mine
    /\ fpRequest.command \in {"WRITE", "WRITE_VERIFY"}
    /\ IF initNeeded
       THEN Returns("NOT_READY", ZeroBpb, DebugLog)
       ELSE \E s \in {"DONE", "UNKNOWN_MEDIA"} :
               Returns(s, ZeroBpb, DebugLog \cup {fpRequest.command})

buildBpb ==
    /\ Mine
    /\ fpRequest.command = "BUILD_BPB"
    /\ Returns("DONE",
               IF tableSet /\ fpRequest.unit \in Unit
               THEN my_bpbs[fpRequest.unit] ELSE ZeroBpb,
               DebugLog)

\* It knows one function.
IOCTLInput ==
    /\ Mine
    /\ fpRequest.command = "IOCTL_INPUT"
    /\ \E s \in {"DONE", "UNKNOWN_COMMAND"} : Returns(s, ZeroBpb, DebugLog)

\* mediaCheck always says M_NOT_CHANGED; open and close only say S_DONE.
OtherHandler ==
    /\ Mine
    /\ fpRequest.command \in {"MEDIA_CHECK", "OPEN", "CLOSE"}
    /\ Returns("DONE", ZeroBpb, DebugLog)

\* The next driver in the chain is called, on its own last request.
PassOn ==
    /\ phase = "called"
    /\ fpRequest.command \in Handled \ {"INIT"}
    /\ ~isMyUnit(fpRequest.unit)
    /\ Returns("passed on", ZeroBpb, DebugLog)

DeviceInterrupt == \/ deviceInit \/ UnknownCommand \/ readBlock \/ write_block
                   \/ buildBpb \/ IOCTLInput \/ OtherHandler \/ PassOn

-----------------------------------------------------------------------------
InitPayload == [num_units : 0 .. MaxImages, bpbs : [Unit -> Bpb]]
Statuses == {"none", "raw", "DONE", "UNKNOWN_MEDIA", "UNKNOWN_COMMAND",
             "NOT_READY", "passed on"}
Requests == [command : Handled \cup Unhandled, unit : 0 .. 126, status : Statuses,
             nunits : 0 .. 127, bpb : Bpb]

DebugAtLoad_mutant == TRUE
DebugAtLoad == FALSE

Init ==
    /\ card \in InitPayload
    /\ options \in Options
    /\ phase = "loaded"
    /\ initNeeded = TRUE /\ num_drives = -1 /\ debug = DebugAtLoad
    /\ tableSet = FALSE
    /\ my_bpbs = [u \in Unit |-> ZeroBpb]
    /\ \E n \in LeftOver :
          fpRequest = [command |-> "INIT", unit |-> 0, status |-> "none",
                       nunits |-> n, bpb |-> ZeroBpb]
    /\ dosUnits = 0
    /\ shaken = FALSE /\ sent = {}

Next == DosInits \/ DosAsks \/ DeviceInterrupt
Spec == Init /\ [][Next]_vars

-----------------------------------------------------------------------------
(* Properties *)

TypeOK ==
    /\ card \in InitPayload
    /\ options \in Options
    /\ phase \in {"loaded", "called", "ready"}
    /\ initNeeded \in BOOLEAN /\ debug \in BOOLEAN /\ tableSet \in BOOLEAN
    /\ num_drives \in -1 .. MaxImages
    /\ my_bpbs \in [Unit -> Bpb]
    /\ fpRequest \in Requests
    /\ dosUnits \in 0 .. 127
    /\ shaken \in BOOLEAN
    /\ sent \subseteq {"DEVICE_INIT", "log"} \cup BlockCommands

\* No read or write reaches the Pico before an INIT has succeeded, not even if
\* DOS was left with units in the request of an INIT that failed: readBlock has
\* no guard of its own, all hangs on isMyUnit and the -1 in num_drives.
NoTransferWithoutInit == initNeeded => sent \cap BlockCommands = {}

\* A Pico that did not answer the handshake is not sent anything: receiveBytes
\* would wait for its answer for ever, and DOS with it.  Log lines, which every
\* part of the driver sends, must not come before the handshake either.
AbsentPicoIsLeftAlone == ~shaken => sent = {}

\* The BPB DOS gets for a unit is the one the Pico has for that unit, through the
\* copy loop of deviceInit, the table and buildBpb.
BpbsAreTheCards ==
    /\ fpRequest.command = "BUILD_BPB" /\ fpRequest.status = "DONE"
          => fpRequest.bpb = card.bpbs[fpRequest.unit]
    /\ ~initNeeded =>
          \A u \in 0 .. dosUnits - 1 : tableSet /\ my_bpbs[u] = card.bpbs[u]

\* A driver that has announced units answers for each of them itself; and as it
\* is ready then, no write is refused as NOT_READY (isMyUnit, write_block).
OwnUnitsAreServed ==
    /\ ~initNeeded => fpRequest.status # "passed on"
    /\ fpRequest.status # "NOT_READY"

\* The driver comes up only with a line that is well formed to its last character,
\* and no log line is sent unless such a line, or a bad one before it went bad, asks
\* for it: the parser is the grammar, whatever it finds behind a number, a letter or
\* the name (parse_options, option_value).
OnlyGoodLinesAreTaken ==
    /\ ~initNeeded => WellFormed(options)
    /\ tableSet /\ WellFormed(options) => OptionsGood
    /\ debug => \E p \in 2 .. Len(options) : options[p - 1] = "/" /\ options[p] = "D"

\* What the comment of parse_options promises: the value of an option is stored.
\* Once the line is parsed partition_number is the last valid number given with /P.
partition_number == IF tableSet THEN Parsed(options).partition ELSE 0
portbase == IF tableSet THEN Parsed(options).port ELSE 0
OneValidPartition(p) ==
    /\ WellFormed(options)
    /\ At(options, p) = "P" /\ At(options, p + 2) \in {"1", "2"}
    /\ At(options, p + 3) \notin Digits
    /\ \A q \in NameEnd(options) .. Len(options) : options[q] = "P" => q = p
PartitionIsStored ==
    tableSet => \A p \in NameEnd(options) .. Len(options) :
        OneValidPartition(p) => partition_number = DigitValue[options[p + 2]]
=============================================================================
