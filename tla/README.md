# A verification project for the Victor 9000 user port

A Victor 9000 (an 8088 machine with MS-DOS) gets disk drives from a Raspberry
Pi Pico on its user port.  A DOS block device driver (`victor9k/src`) turns DOS
requests into payloads, sends them through a 6522 VIA to the Pico, whose
firmware (`pico/`) serves them from image files on an SD card.  This directory
has TLA+ specifications of the two programs and of what lies between them, the
TLC configurations that check them, and proofs.

## 1. Inventory

| Component | Source | State it keeps | Operations |
|---|---|---|---|
| DOS driver entry | `template.c`, `devinit.c` | `initNeeded`, `num_drives`, `my_bpbs`, `fpRequest` | `DeviceStrategy`, `DeviceInterrupt`, `deviceInit`, `readBlock`, `write_block`, `mediaCheck`, `buildBpb`, `IOCTLInput`, `open`, `close` |
| Victor side of the protocol | `v9_communication.c` | loop index, `viaInitialized` | `send_startup_handshake`, `send_command_payload` (command packet, data packet), `receive_response` |
| Log payloads | `logpico.c`, `cprint.c`, `log_functions.c` | - | `log_message`, `log_output` |
| User port | VIA registers, `receive_fifo.pio`, `transmit_fifo.pio` | two FIFOs, a stalled push, CB1 and CA1 flags | write, burst, poll, read; get, put |
| Pico side of the protocol | `pico_communication.c`, `command_dispatch.c` | current payload and response | `wait_for_startup_handshake`, `process_incoming_commands` (receive, dispatch, transmit) |
| Image catalogue | `sd_block_device.c`, `v9k_hard_drives.c` | `SDState`: images, `start_lba`; the BPB array | `initialize_sd_state`, `init_sd_card` |
| Sector transfers | `sd_block_device.c` | image files | `sd_read`, `sd_write` |
| CRC-8 | `common/crc8.c` | the table | `create_command_crc8`, `create_data_crc8`, `is_valid_command_crc8`, `is_valid_data_crc8` |
| CONFIG.SYS options | `devinit.c` | `debug`, `portbase`, `partition_number` | `parse_options`, `option_value` |

The two programs share nothing but the user port.  DOS calls the driver
synchronously; the driver blocks in every exchange.  The Pico is one loop.
What makes the system hard:

- the line has no frames: sizes inside the packets say where they end, and nothing
  says where they begin;
- each side decides from one status byte whether to go on, to start over or to
  give up, and the other must decide the same;
- the Victor waits for DATA_TAKEN for a bounded time and ignores that it did
  not come; for a byte from the Pico it waits for ever;
- a burst is written blindly into a FIFO of eight words;
- handshakes are repeated until they are answered, and the unanswered ones stay
  queued;
- an SD card that fails makes the firmware dereference NULL;
- the unit tables are indexed by image, by volume and by slot, in one loop.

What makes each component correct:

- protocol: the ends never disagree on what the next message is; a request is
  executed at most once; S_DONE is true; the image changes only as asked; a
  call returns;
- user port: bytes arrive once and in order, an acknowledgement means receipt;
- startup: both programs reach the first request, and it is read as sent;
- catalogue: every unit shows its own image's BPB and sectors, the tables are
  not overrun, parsing ends;
- sectors: a transfer touches its unit only; units behave as separate arrays;
- CRC: the two machines compute the same, and accept only what was sent;
- options: a line is taken if it is well formed, and what it says is stored.

The hazards this code has, line by line, are in `PROJECT.json`, each with the
properties that cover it or the reason why none does yet.

## 2. Modules

| Module | Models | Composes |
|---|---|---|
| `BlockDevice` | what DOS is promised: a request takes effect at most once between call and return | - |
| `UserPortProtocol` | the request/response protocol, packet by packet, both programs | implements `BlockDevice` |
| `WireStream` | the same protocol over unframed bytes, with damage, loss, failing mallocs and resets | extends `Crc8`; implements `BlockDevice` as long as the trouble is `Bearable` |
| `Crc8` | `crc8.c` | - |
| `PacketCheck` | one packet, its CRC, and a damaged byte on the way | extends `Crc8` |
| `UserPort` | VIA, PIO programs and FIFOs: write, read, get, put one byte | - |
| `PacketTransfer` | one request packet, byte by byte, and its status | extends `UserPort` |
| `Startup` | handshake and first command packet, restarts | extends `UserPort` |
| `ImageCatalog` | directory scan and `init_sd_card` | - |
| `DriverOptions` | `parse_options`, `option_value` | - |
| `DosDriver` | the driver as DOS calls it: `deviceInit`, the dispatch table, unit ownership, BPB tables | extends `DriverOptions` |
| `DriveArray` | what DOS takes the units for: separate arrays of sectors | - |
| `SectorTransfer` | where `sd_read` and `sd_write` put sectors | implements `DriveArray` |
| `..._proofs` | the theorems about a module (eight of them) | extend the module they are named after; `PacketTransfer_proofs` and `Startup_proofs` both begin with the type of the `UserPort` they extend; `WireStream_proofs` extends `PacketCheck_proofs` too, for the lemmas about the CRC |
| `MC...` | the instances TLC checks | extend the module they are named after |

### UserPortProtocol

`vpc` is the place of the driver in `send_command_payload` / `receive_response`,
`ppc` that of the Pico in `process_incoming_commands`.  `toPico` and `toVictor`
are the two directions of the line, queues of packets.  An action is what one
program does from one blocking read to the next: `VictorCommandStatus` is
`send_command_packet` from its status byte on and `send_data_packet` up to its
own, `PicoCommandAck` is `transmit_response` between its two reads, and so on.
`DosCall` is the entry of `readBlock` or `write_block`; with `Debug`, a log
payload goes first, as `writeToDriveLog` does, and its outcome is dropped.  A
packet carries `good`, what its CRC check will say.  `PicoDispatch` and
`PicoDispatchFails` are `dispatch_command` with `sd_read` or `sd_write`;
a failure returns NULL, and NULL in `transmit_response` either faults (`halted`)
or sends whatever the ROM at address 0 holds, whose CRC does not match.
`effect`, `executions` and `hits` are history variables.

Assumed here: the CRC tells a garbled packet from an intact one; sizes and status
bytes arrive intact; `malloc` succeeds; FatFs does what its documentation says.
The first is the subject of `PacketCheck`, the next two of `WireStream`.

### WireStream

The line is two queues of bytes.  A side reads a packet in one step once the
bytes its own size field asks for are there (`Complete`), since it does nothing
else while it waits.  Packets are as the code makes them: six bytes of
parameters (`Params`), a run of sectors as data, one byte of data with a read, an
empty parameter part in an answer, the real CRCs.  Answers carry no identity, as in the code:
`receive_response` compares nothing with the request.

Sectors are long, and what is left of one in the line is read as statuses and
requests, so their length and contents matter.  `SizeBase` is the base of the two
size bytes and `SECTOR_SIZE` is a parameter: with 256 and 512 they are the code's, and the
proofs are for all; the run has 7 and 14, so that a sector has
the size bytes 2 and 0 there too, and the parameters 0 and 6.  One value of a
sector is all zeros - five of them are a valid request, three are valid data, one is STATUS_OK -
and the other holds a read and a write request, each in order.

Every sending step may have one byte damaged (`Noise`) or lost; when the first byte
of a size is not taken, `sendBytes` times out and the second is not written either (`Gap`).
`NoBuffer`, `NoPayloadMemory` and `NoAnswerMemory` are the mallocs that fail,
possible once `HeapRoom` SD commands have each leaked the payload
`execute_sd_block_command` makes; `PicoResets` may come at any time.  `trouble` is the
list of what there has been:

| Kind | What | |
|---|---|---|
| `content` | a byte the CRC is there for is another one | promised below |
| `short` | a byte is lost, but of the size of a request or of data; the zero size of a header grows; a first byte becomes HANDSHAKE and is skipped: someone waits for more than there is | gentle |
| `status` | a STATUS_OK is taken for a refusal, but for that of the data | gentle |
| `memory` | no room for the next `Payload`: `process_incoming_commands` returns | gentle |
| `framing` | a size of a request or of data is damaged or lost, or a malloc at a size fails | nothing is promised |
| `verdict` | a refusal is taken for STATUS_OK, or the STATUS_OK of the data for a refusal | nothing |
| `null` | a malloc of the answer fails and NULL is used | nothing |
| `reset` | the Pico starts anew | `OrphansWait` |

Content damage is one byte of a packet, in any number of packets: two bytes of one packet can
cancel out in the CRC.

What holds.  While all trouble is `content`, the two sides never wait for each other
(`ContentDamageIsHarmless`).  If the last trouble is a gentle one (`Bearable`), a side may
wait for ever, now or in the next call, but nobody takes a byte for what it is not: no
request is executed twice, in its call or a later one (`NotTwice`), and the two
programs are DOS's block device (`KeepsThePromise`, a refinement of `BlockDevice` with runs
as sequences of bytes, and anything at all (`Garbage`) in the buffer of a read that
failed).  A reset Pico and a driver that waits for it stay as they are (`OrphansWait`).

What does not hold, and where it begins.  The CRC of no data is zero.  When the size of
a write of zeros is lost, or its 02 damaged to 00, the Pico reads size 0, CRC 0, says STATUS_OK and
dispatches: `sd_write` writes `SECTOR_SIZE` bytes of the heap, and the
510 zeros behind are read as statuses and requests.  `wire_lost_size` is this: one
trouble, and what is dispatched is not what was sent.  A `malloc` that fails at a size leaves
the whole packet in the line, with the same effect; a STATUS_OK of the data that is taken for a
refusal has the payload sent again while the Pico answers.  The rest of a sector may hold a
request of its own, so that no promise survives any of these, and none is made.

Neither handler looks at the sizes it got: without parameters or data,
`sd_read` and `sd_write` go by what the heap holds there (`Behind`).  A request that
was misread reaches any run or a place outside the runs (`Reached`), whole; a part of
two runs is not an outcome, and runs of different calls do not overlap.  The last malloc of `sd_write` comes
after `f_write`: `NoAnswerMemory` stops the Pico with or without the sectors written.  (That NULL
may also be read, and garbage sent, is in `UserPortProtocol`; here nothing is promised after it.)
The byte that answers a write goes to address 0 and not to the caller
(`Stored`); a read fills `buffer` before its CRC is checked.
The FIFO is the subject of `PacketTransfer`.

### Crc8, PacketCheck

A byte is a number, its bits a set of exponents, XOR the symmetric difference.
`CommandCrc` and `ValidCommand` take the size before the command, the order
of the CRC, while the packet has the command first.  The reference is the remainder of the
message times x^8 divided by x^8 + x^2 + x + 1.  A glitch of the strobe damages
a whole byte, so the error considered is any change of one byte, in any field,
the CRC included.  Two bits that are 127 apart cancel out: the period
of the polynomial is 127, far less than the 4096 bits of a sector, and such damage
goes unnoticed.

### UserPort, PacketTransfer, Startup

A PIO program runs at 30 MHz and reacts within a microsecond, less than one
instruction of the 8088, so its reaction to a byte is part of the step that
moves the byte; where it can wait - for room in the FIFO - is the variable
`held`.  While `receive_fifo` is stalled it misses the pulses of further bytes.
DATA_TAKEN for the held byte comes when the push goes through, and sets the
same CB1 flag a later byte is polled with.  In the other direction,
`transmit_fifo` waits for DATA_TAKEN with one byte on the lines (`offering`).
DATA_READY is an edge and the VIA latches its port (`aux_ctrl_reg`), so a
byte put while an old one is still latched, which only a reset of the Pico makes
possible, is lost.  `initialize_user_port` clears the flags; whether the PIO
program sees DATA_TAKEN drop while the VIA is in reset is open, and `Latched` has both
outcomes.

`PacketTransfer` sends one packet: the header and the CRC through `sendBytes`,
the rest through `burstBytes`.  A poll may time out whenever the flag is not set
(the Pico may be that slow); `send_uint16_t` then never writes the second size
byte (`Abandoned`).  `Startup` runs the real bytes of the handshake and of
the DEVICE_INIT request; `PicoResets` and `VictorReboots` may come at any time.

### ImageCatalog

A BPB and a first block are represented by where they were read: image and
volume.  `Advance` has the conversions of the return value to `uint8_t` and the
eight bit sum, `BuildVolume` the two different indexes: `img` for `start_lba`,
`vol` for the BPB.  A store through a pointer that was never set, or past the
array, is a choice between no harm and `wild`, after which nothing is promised.

### SectorTransfer

One image file, as long as it was found (`FileSizes`), and the units in it; a
transfer is atomic here.  `DataSize` is
the 16 bits of `data_size`, counted in sectors modulo `Wrap`.  FatFs is
external: `f_read` stops at the end of the file, `f_lseek` in a file opened for
writing extends it.  To DOS, the sectors past the end of a short file are sectors
nobody has written yet (`SectorOf`); so seen, short images implement `DriveArray` as
whole ones do.  A transfer of 65536 bytes travels as none: a write then puts what the
heap holds into the sectors it was for.  `UnitsAreArrays` is about every transfer but these,
`NeighboursUntouched` about all.

### DosDriver

A request is one step, because DOS waits for it; an exchange with the Pico
either succeeds or not.  The state is that of `template.c` (`initNeeded`,
`num_drives`, `my_bpbs`, and `tableSet` for the pointers in `my_bpb_tbl`), plus
`debug`, the request, and what DOS has learnt (`dosUnits`).  `deviceInit` has one
action for each way it ends.  Assumed of DOS: it goes by `r_nunits`, which a
failed `deviceInit` does not write, so it may find what it had put there
(`LeftOver`, drive letters at most); it asks only for units it was told of.
Assumed of the Pico: an `InitPayload` has the size the driver expects and at most
`MaxImages` units, as `initialize_sd_state` sees to.  `validate_far_ptr` cannot
fail, since the segment is shifted in 16 bits.
`sent` and `shaken` are history variables.

### DriverOptions

`Parsed` is `parse_options`: a round of the loop per option, over the line as a
sequence of characters.  Only the characters the options tell apart occur, in
capitals; `x` stands for the rest.  `Value` has the 16 bits of `option_value`, `Stored`
the dangling `else` of `/P`, and `portbase` is 1 after any number, since
`portbase = 1` is an assignment in a condition.  `WellFormed` is the grammar
written independently: which character may follow which.

## 3. Runs

| Run | Shows | Instance |
|---|---|---|
| `protocol` | step, at-most-once, truth of S_DONE, earned giving up, refinement, with up to four garbled packets and a refusing SD card; calls return | debug mode, 2 sectors, 2 values, 3 attempts, 1 refusal |
| `wire` | which promises survive which trouble on an unframed line, the refinement while it is bearable | sectors of 14 bytes with sizes to base 7, 2 sectors, zeros and a sector of requests, 2 attempts, 2 calls, 2 troubles |
| `wire_lost_size` | *violation*: a write of zeros without its size is accepted | same, 1 call, 1 trouble |
| `packet_check` | the CRC is the remainder; accepted means intact | bodies of 0..3 bytes, every damage to one byte |
| `transfer` | what fits into FIFO and stalled push is not lost, order, truth of DATA_TAKEN, the status comes | the FIFO as it is, bursts of 0..8 bytes |
| `startup` | whichever machine boots first, up to three strays, restarts | 6 handshakes, 2 sends, 1 reset, 1 reboot |
| `startup_strays` | *violation*: strays are read as a request | 6 handshakes |
| `catalog_safety` | units show their images, overruns, end of parsing | every card of 3 files with 2 volumes, 4 files with 1, 1 file with 4; 3 slots |
| `catalog_every_volume` | *violation*: a volume without BPB | same |
| `sectors` | neighbours stay untouched, units are separate arrays, in whole and short images | units of 3 and 2 sectors, files of 3 and 6, wrap 3 |
| `driver` | which lines are taken, nothing is sent before its time, units show the card's BPBs and are served | 3 slots, 1 BPB and the zero one, lines of a name and 2 pieces, 0 or 1 left in `r_nunits` |
| `driver_partition` | *violation*: a valid partition number is not stored | same |

The bounds.  The code retries nine times; three attempts have a first, a middle
and a last one, and four garbled packets are enough to fail all of them and hit
the response as well; debug mode, where every call sends log payloads first, is the
harder one, and the proofs cover both.  Two sectors and two values tell a write to the wrong
place or of the wrong data.  The FIFO depth is the real one and the bursts reach
past it on both sides: 13 bytes against 8 + 1.  Six handshakes are three strays
more than the Pico skips, with one to answer.  Three image slots give an image
in the first half of the table, one in the second and one past what fits, in
place of nine; `driver` has three slots too, so that the last unit, the one past
it and the end of the array differ.  Its pieces make every pair of options, a
good and a bad one in either order, numbers without digits, with a rest behind
them, and past 16 bits.  (`OnlyGoodLinesAreTaken` does not depend on the wrap of such a
number: which lines are taken is a matter of their characters.)  Sizes in sectors with
`Wrap` 3 stand for 128: transfers of one and two sectors are below it, those of three are exactly
as long.  In `wire` the noise
is 15, which is HANDSHAKE and makes a size too long, and 0, which is STATUS_OK and
makes one too short; a byte can be lost anywhere.  Two calls let the rest of one meet the
next, two troubles let the second strike the recovery from the first, or end the
second and last attempt.  One leaked payload is enough for a later malloc to fail anywhere.

Fairness is weak fairness of each program: each CPU runs its own loop and
nothing in either code yields to a scheduler.  DOS need not call, the
line need not garble, machines need not restart.  `CallReturns` holds up to
`halted`: a firmware that faulted on NULL answers nobody.

Deadlock checking is off where the system may stop: a halted Pico
(`protocol`), two sides that wait for each other (`wire`, which says when that may
be), a packet that was checked (`packet_check`), a packet that has been answered or that was cut short
(`transfer`), a start that succeeded or failed, a catalogue that is done, a
driver without units (`driver`).

## 4. Divergences found

- `sd_block_device.c:608` wants a BPB for every volume; BPBs are stored by
  volume number from zero for each image, so images overwrite each other's, and
  `init_sd_card` advances past images it did not parse (`catalog_every_volume`).
  Line 384 promises the number of volumes found, the code returns one more;
  line 388 calls `max_units` a number of volumes, the code compares it with an
  image index.  A Victor image in the second half of the table yields 0 and
  `init_sd_card` never ends; an unreadable label yields -1, which is 255 and
  moves the index back by one.  `ParsingEnds` states the cards on which neither
  happens.
- `pico_communication.c:144` considers the handshake complete when the response
  is out; the handshakes still queued are read as a request (`startup_strays`),
  and with four strays both sides end up waiting.
- `devinit.c:406` says that the values of the options are stored; the `else` at line
  430 belongs to the inner `if (debug)`, so a valid `/P` is dropped, and without
  `/D` an invalid one is stored (`driver_partition`).
- `pico_communication.c:209` says of what is then dispatched that it was received
  successfully; a write of zeros whose size bytes the Pico did not take passes as data of
  size zero (`wire_lost_size`).

Without a run: `sd_block_device.c:699` calls a read that does not bring the expected number of bytes
a failure; at the end of a short file `f_read` brings fewer without an error, and the read succeeds.
`devinit.c:111` says that a driver that cannot reach its drive is
unloaded; `deviceInit` sets `r_endaddr` to keep it before it tries, leaves
`r_nunits` as it was, and returns a bare `ResponseStatus` if the handshake fails.
`DosDriver` models this; its properties show that such a driver stays silent.
`v9_communication.c:108` says `sendBytes` waits for DATA_TAKEN of its byte; it
accepts the late one of an earlier byte, so with a full FIFO a CRC byte that was
lost is reported taken (`AckMeansTaken` states when it is not).
`write_block` hands `receive_response` the value of `reponse_data`, zero, as the address
of the answer's data (`template.c:348`).
`template.c:84` says that the answer to a media check is always "Don't Know"; it
is always `M_NOT_CHANGED`.

## 5. Proofs

`UserPortProtocol_proofs` proves, for every non-empty set of sectors, every set
of values, every number of attempts and every bound on faults, that each
safety property of the protocol is an invariant and that the protocol
implements `BlockDevice`.

The properties are about both ends and none is inductive: whether the Pico's
next message is a status depends on what the driver has done.  `IInv` says
where everything is together.  `Phases` has one disjunct for each place of the
driver, and under it the possible places of the Pico with the exact contents of
both queues: `Resting` (between payloads: the closing status may still be under
way), `Asking` (command packet), `Feeding` (data packet), `Accepted` (the Pico
has the request), `Taking` (response data).  They also carry what the
properties need: `executions` is 0 until `Accepted`; `Matches`, that the Pico's
request is the driver's; `Served`, that after the dispatch the disk holds a
write and the response a read; `hits + 1 >= attempt`, that each attempt but the
current one was garbled.  `Bookkeeping` ties the history to the driver's state.
`Init => IInv` and one lemma per action give `Inductive`; the properties follow,
`OnlyTheCallersWrite` and `Refinement` from `IInv` before and after a step.  In
`Refinement` `PicoDispatch` of a DOS request is `Apply`, its failure is `Spoil`,
the step that returns is `Succeed` or `Fail`, `DosCall` is `Call`, and all else
stutters: a log line is invisible.

Assumptions: `SectorAssumption`, `AttemptsAssumption`, `BoundsAssumption` and
`DebugAssumption` of the module, no more.

`DosDriver_proofs` proves the six invariants of `DosDriver` for every number of
images up to 127, every set of BPBs, every line of options and every left-over up to
26.  Its `IInv` has two halves around `initNeeded`: before a successful
INIT, `num_drives` is -1 and no block command was sent (`Uninitialized`); after
it, `num_drives`, `dosUnits`, the table and the card agree (`Initialized`).
`Asked` limits what DOS calls, `Unshaken` ties `debug` to the handshake: the
options are parsed after it, so no log line can come before.  From `Asked` and
`Uninitialized` follows `OwnUnits`: what passes `isMyUnit`, a signed comparison
with -1, is a unit DOS was told of after a successful INIT.  From it every
handler's return keeps the invariant (`ReturnKeeps`).  `OnlyGoodLinesAreTaken`
is about the parser: `ParsedIsRight` says for a line of any length that `Parsed`
accepts it exactly if `WellFormed` does, which is stated per character.  `Sound` is the invariant of
the rounds of `parse_options`: up to where the parser stands every character is
one that may follow the one before, and the parser has stopped only where one may not.
Assumptions: `ImagesAssumption` and `LeftOverAssumption`.

`PacketTransfer_proofs` proves its four invariants for a FIFO of any depth and
bursts of any length.  None is inductive: the bytes written are spread over
what the Pico has, the FIFO and the stalled push (`InFlight`).  Order needs
`Ordered`: nothing under way is newer than the last byte written.  The other two
need `Sound`, which is about packets that fit: all bytes written are there
(`AllThere`); only the last one can find the FIFO full (`LastHeld`); the flag is
not set while a push is held (`NoneHeld`); any other polled byte has been taken at once
(`TakenAtOnce`); and an acknowledged byte is in the FIFO or read (`AckedIn`).

`Startup_proofs` proves type correctness and `OldBytesAreNoAnswer` for any number
of resets and reboots, and `FewStraysDoNoHarm` for every first request that fits
(`Fits`: with the handshakes the Pico skips it fits into the FIFO and
the held push; the DEVICE_INIT request of six bytes and three skips do so exactly, 9 = 8 + 1).
In the latter strays, skipped bytes and the request are one stream, and the
invariant (`Harmless`) says how far the Victor has written it (`VictorAt`), how far
the Pico has read it (`PicoAt`), and that what is between the two is
what the FIFO and the held push contain (`Stream`).  `Fresh` is the invariant: before its answer the Pico has
put nothing on the port, so the response is never queued behind another
byte, and clearing the latch, or taking the byte off the lines, removes the only one there
can be; statuses put later are other bytes.

`SectorTransfer_proofs` proves for all layouts, file lengths and transfers that the
neighbours stay untouched, and, if the units are disjoint, that a transfer shorter
than the wrap is a step of `DriveArray`: a read or write is the array's, and what
the file grows by is outside every unit or was unwritten.

`ImageCatalog_proofs` proves its three invariants for every card.  `Looping` says that in
the volume loop `img` is ahead of `i` by the data volumes passed; a store outside the
tables then has to have passed more of them than there are slots.  `Placed` adds
what the tables hold so far: on plain cards every image before `i`
(`PlainSoFar`), on a card with a single volume unit 0 once the loop is past it
(`SingleSoFar`).

`PacketCheck_proofs` is about the CRC.

- *The polynomial.*  `crc8_table` and `crc8` are recursive functions over data, so
  their lemmas need induction over the rounds and the bytes.  The library's
  induction takes an operator as a parameter; `SetInduction` takes a set instead and follows from
  `NatLessThanWellFounded`.  `TableIsDivision`: the CRC of any bytes is
  the remainder.  Its loop invariant is `Left`: what the division has left is the register, from
  its place on, plus the part of the message not yet read; one round of
  `generate_crc8_table` cancels one term (`RoundDivides`), a byte of the message
  joins the register (`ByteJoins`).
- *One damaged byte.*  `Shifted` is injective (`ShiftedDiffers`), so is the table,
  and two messages that differ in one byte differ in the register from there on
  (`OneByteDiffers`).  `OneByteIsSeen` follows for packets of any length.

`WireStream_proofs` is about the protocol over bytes: for sectors and runs of any size the
size bytes can say, any contents, any noise and heap, any number of attempts, calls and troubles.

- *Together.*  A call without trouble is in one of nine phases: `Idle`, `Asked` (the request
  is under way, behind what the Pico has yet to read of the call before), `Granted` and `Refused`
  (a status is), `Sent` (the data are), `Taken` (their status), `Answered` (the header of the
  answer), `Agreed` (its status), `Delivered` (the data of the answer).  Each has the exact contents
  of both queues, up to the damage to one byte of a packet.  `StaysInStep`: content
  damage, however often it comes, leaves both sides `Together`.  What a step sends
  is said once, by one of eight formulas (`Asks`, `JudgesCommand`, `SendsData`, `JudgesData`,
  `Responds`, `AcksHeader`, `Delivers`, `AcksData`: `Goes`), whatever then
  becomes of it; a lemma per formula says which phase its outcome is.  In each phase one side has
  all it waits for: `NoMutualWait`.
- *Apart.*  After one gentle trouble, the last, the two sides are `Together` still or in one of seven
  places: `Waiting` (each for the other), `Tardy` (a request without an end is before the
  Pico), `Misheard` (the Pico waits for data, the driver has a refusal before it), `Deaf` (the call
  has returned and the Pico waits for the rest of it), `Clipped` (the header of an answer without an
  end), `Refuted` (a refusal of the header is before the Pico, the driver waits for data), `Halted`.
  `StaysSettled` is the invariant; in none of the seven is anything dispatched, nor
  an answer read to its end.  Why the repeated request of `Misheard`, or that of the
  call after `Deaf`, is not executed as the data of the one before: its first two bytes, read as a size,
  ask for more than all of the request has, and the driver sends nothing until it is answered.  A Pico
  that waits for an acknowledgement takes the first byte for a refusal, and the size in what is left
  (the second byte of the size and the media byte) asks for too much again.
- *What follows.*  `NothingIsDoneTwice`; `OrphansAreLeft` needs the types only;
  `PromiseIsKept`: `DosCall` is `Call`, `PicoDispatch` is `Apply`, the step that returns is `Succeed` or
  `Fail`, all else stutters (`PromiseStep`).  What it needs of the phases is two facts: what is
  dispatched is the call's own request, once (`DispatchIsRight`), and what is returned as
  DONE has been done (`DoneIsRight`).

Assumptions: the ASSUMEs of the modules.  Besides, as their statements say,
`ServesDrives` assumes `Disjoint`, `StraysAreSkipped` assumes
`Fits`, `PromiseIsKept` that there is a sector.  `PacketAssumption` has bodies of any length a size
can say.

Only model-checked: `CallReturns`, `Answered`, `BootEnds`, `ParsingEnds`
(liveness is out of the prover's reach).

## 6. Not modelled

- `userPortISR` is never installed, `interupt.c`, `driver.c`, `protocol.c`,
  `fletcher.c` and the SDIO programs are not built, `calculate_victor_offset`,
  `read_sector`, `parse_fat16_bpb` and `freeSDState` are never called.
- FatFs and the SD driver are a submodule outside the repository.
- Formatting of log lines, console output, stack switching, registers.
- The memory behind the driver's buffers: `receive_response` stores as many bytes
  as the sizes on the wire say, and what `write_block` has stored at address 0 is
  only not in the caller's buffer.
- In `UserPortProtocol`, the chance that the CRC of a misread packet fits, one in 256
  (`WireStream` has the real CRC).
- Failures of `f_mount` and of the first mallocs: the firmware ends before it
  serves anything.

## 7. Plan

Done: the modules of section 2, and proofs about all of those with a state.

Left, in this order:

1. `DEVICE_INIT` as a request of `WireStream`, with the handshake of the Victor in
   front of it: a restart of the driver beside a Pico in the middle of a packet.
2. A refinement from `WireStream` without trouble to `UserPortProtocol`.
3. `UnitsAreTheirImages` for more cards, should `init_sd_card` be changed to store by slot.
