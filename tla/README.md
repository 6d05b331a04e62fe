# FPGA ATM controller: TLA+ models, checks and proofs

The repository is an ATM on an FPGA board (`src/frontend`, VHDL) that talks over
USB to a bank backend (`src/backend/apps/flcli/main.c`, C, on the MakeStuff
libraries in `src/backend/libs`). The board is programmed through the same
libraries before. This directory holds TLA+ models of all of these, the TLC
configurations that check them on small instances and TLAPS proofs.

## 1. The system

| part | state | operations | talks to |
|---|---|---|---|
| **main process** (`atm_top_level.vhd:290-1230`) | `system_state` (17 states), the request, the note registers and the bank's limits, the reply bytes, the pay-out counters, the time-out counter, four cache entries, `cache_mode`, the last channel address | one branch per state on every clock edge; reset | the three units by start/done lines and ports; the host by channel address and bytes; customer by buttons, switches and LEDs |
| **note allocator** (`note_allocator.vhd`) | 3-bit state, remainder, search bracket, outputs, verdict | one branch per clock edge; reset | main process: `start`, amount, stock, limits in; counts, `allocation_possible`, `done` out |
| **encrypter, decrypter** | round counter, the word in `v0`, `v1`, output, `done` | one round per clock edge; reset | main process |
| **debouncer** (5 instances) | old value, 20-bit counter | counts clocks a button is stable | buttons in, main process out |
| **CommFPGA interface** (`comm_fgpa_fx2.vhd`) | 9-state machine, 17-bit count, channel address | command, count, then bytes in or out | the FIFOs of the FX2 USB chip; channel address, data and valid to the main process |
| **backend** (`main.c`) | the users' records (id, PIN hash, admin flag, balance) in memory and in a CSV file | setup; poll channel 0 three times; serve a request (codes 1 to 4); serve a cache entry (code 5) | `flReadChannel`, `flWriteChannel` |
| **FPGALink** (`libfpgalink.c`) | write buffer, chunk size, completion report, the handle's flags | open, close; buffered and chunked asynchronous writes, flush, awaits; reads, at once or asked for and fetched later | the USB wrapper; the client |
| **USB wrapper** (`libusbwrap.c`, `unbounded_queue.c`) | ring of transfer wrappers that doubles when it is full | prepare, submit, await the oldest; open and close with their clean-ups | libusb |
| **JTAG and slave programming, host** (`prog.c`, `svf2csvf.c`, `xsvf2csvf.c`, `csvfplay.c`) | the port's lines, the registers of a conversion, the player's mask, retries | convert a file, play it, scan the chain, program over serial or parallel pins | control requests and two bulk endpoints of the firmware |
| **FX2 firmware** (`firmware/fx2/app.c`, `prog.c`, `livePatch.c`, `prom.c`) | the shift in progress (operation, bits left, flags), the pins it is patched to, port directions, EEPROM bank | vendor commands; one loop that shifts, compares nothing, answers packets | endpoints, the JTAG lines, the EEPROM |
| **AVR firmware** (`firmware/avr/main.c`, `prog.c`, `prog_ops.h`, `epp.c`, `usart.c`) | the same, and the lines noted for the choice of one of two SPI engines; the message a conduit is in | the same commands; shifts that give up after a second; two conduits to an FPGA | the same |
| **firmware loader** (`libfx2loader`, `fx2.c`, `mkfw`, `libbuffer`) | data and mask buffers, boot records | load RAM, flash and save the EEPROM, hex files and boot images in both directions; the standard firmware with an identity written into it | control requests of the FX2 |
| **start of the backend** (`main.c:164-275`, `libargtable2`, `getopt.c`) | the place in the command line, the tables of options, what each was given | parse; open the board, or load the firmware and look for the board until it is back | the USB wrapper, the loader |
| strings, dumps, test frameworks, readline (`liberror`, `libdump`, `libutpp`, ...) | - | - | - |

A service goes: Setup once (limits from the backend); Ready; TakingInput (eight
bytes: user id, PIN, amount); NoteAllocation (the allocator is started and not
waited for); Encrypt; then either Ethernet (another bank's card) or
Communicating (the backend reads the encrypted request on channels 1 to 8, writes
a status to 9 and eight reply bytes to 10 to 17); Decrypt; LoadingCash for an
administrator or Dispensing for a customer; Dummy until done is pressed. After 31
blinks without a full reply the machine gives the host up (CommLost) and serves
the customer from its cache of the last four, or refuses (NotInCache). When the
channel address next changes to 0 in Ready, the cache is synchronised with the
backend: CommRegained, SyncCache and UpdateCache, four times round.

Underneath, a channel call of the backend becomes messages of a command byte, two
bytes of length and the data, cut into asynchronous USB transfers of up to a
chunk; the FX2 moves them through its FIFOs and the CommFPGA interface takes them
apart.

### What is hard

- Everything on the board runs at once on one clock: main process and units see
  each other's values of the clock before. A `done` is one clock late, and what
  is dropped is dropped one clock late.
- The units keep registers from one use to the next (search bracket, cipher
  output, `done`).
- Answers are used long after they were computed (cash in the machine, balance in
  the cache).
- The host may be silent, slow, half done, or back at any clock; the customer and
  the reset button too. The bank may die between the reply, the debit and the
  rewriting of its file.
- The cache is moved by each service and rotated by the synchronisation.
- A transfer is in flight while the library goes on filling buffers; the ring it
  is queued in grows under it; completions are met in the awaits of other calls;
  a submission, an allocation or a transfer may fail at any of them.
- Reads and writes of different endpoints overtake each other; one that is full
  may wait for a host that waits for the other.
- A programming session may be stopped in the middle of a shift, and the next one
  meets a firmware that still waits for packets, with answers left in its
  endpoint.
- A session that maps its pins on the AVR is several requests before the one that
  decides, and what a stopped one has noted counts for the next.
- A board that is loaded goes off the bus and comes back as another one, while
  the backend looks for it.
- A flash is many small writes to two banks; any may be refused, fail or lose its
  power.

`PROJECT.json` lists the hazards line by line, with the properties that cover
each, or why none does.

### What makes each part correct

- *Allocator*: a yes is an exact payment within stock, limits and total; a no
  means there is none; the search ends.
- *Units*: what is read after `done` belongs to this use; decryption undoes
  encryption; no bounce of a button gets through and every press does.
- *Main process*: notes leave only as the exact payment of the request, once, and
  all of them are handed out; an offline service stays within the cached balance;
  one cache entry per card; the synchronisation asks about every entry and files
  each reply under its card; a request is resolved whatever the host does.
- *Backend and machine together*: every payment is debited once, whoever stopped
  when; the cache agrees with the bank after a synchronisation; the file holds
  every balance before the next request; a synchronisation ends.
- *USB link*: the channels see the bytes of the calls once and in order, each
  read gets its own; no buffer in flight is handed out again; every call returns;
  open and close are all or nothing.
- *Programming*: the JTAG registers latch what the file asks for; a verdict is
  the chain's; success means the FPGA runs; a session ends.
- *Loader*: what is flashed boots to the bytes that were meant; nothing half
  loaded runs.
- *Start*: a line is taken just when it is good; a link goes to the board that the
  line names, running the standard firmware; the start gives up on a loaded board
  only when that is not back.

## 2. Modules

| module | what it is |
|---|---|
| `NoteAllocator` | the allocator clock by clock, with a client that may drop an allocation (`Spec`) or always waits (`PatientSpec`) |
| `GreedyAllocation` | what the allocator promises: per denomination the most notes that fit, in one step |
| `CipherUnit` | start/done handshake of encrypter and decrypter |
| `CipherRounds` | what the rounds compute, in the machine and in the bank |
| `Debouncer` | one button, clock by clock |
| `AtmData` | words and their fields, encrypted blocks, the cache and its updates |
| `AtmController` | main process with two `CipherUnit`s and the `NoteAllocator`, on one clock |
| `BankHost` | the loop of `main.c` over the channels, with crash and restart |
| `AtmService` | the machine without the clock: what a service means for accounts and cache |
| `AtmSystem` | `BankHost` and `AtmService` over the channels |
| `UnboundedQueue` | the ring queue and its growth |
| `CommFormat` | messages of the channel protocol |
| `FpgaLink` | the channel calls over the queue and the transfers |
| `CommFpga` | the channel interface of the FPGA, one action per state |
| `ChannelTransfers` | what the channel calls promise: `Ask`, `Perform`, `Answer` |
| `UsbLink` | `FpgaLink`, the USB controllers and `CommFpga` together, with a client |
| `CsvfFormat` | the command stream of the player, and which scans it asks for |
| `SvfCompiler`, `XsvfCompiler` | the two converters, and the meaning of an SVF or XSVF file |
| `ProgHost`, `CsvfPlayer`, `SlaveHost` | the host side of programming: calls, player and chain scan, serial and parallel configuration |
| `ProgFirmware` | vendor commands and shifts of the FX2 firmware over two endpoints, on the pins it was patched to |
| `AvrFirmware` | the AVR firmware where it does otherwise; its conduits |
| `TapPort`, `SlaveFpga` | the JTAG chain and an FPGA in slave mode (external) |
| `JtagProgram` | sessions of all of these, one after the other, each perhaps stopped |
| `FirmwareImage` | buffers, hex files and boot records, and the conversions between them |
| `FirmwareBoard` | load, flash, save and boot over packets, pages and banks |
| `CommandLine` | `getopt.c` and `argtable2`, as operators |
| `ByteBuffer` | the growing buffers of `libbuffer`, as operators |
| `BackendStart` | `main.c` from its command line to the open link, over `FirmwareBoard` |
| `AtmSync` | `AtmController` with a history variable, the cache at the start of a synchronisation |
| `MC...` | instances for TLC |
| `...Proofs` | theorems (section 4), each about the module it is named after; `AtmControllerProofs` has those about `AtmSync` too, `UsbLinkProofs` those about `UnboundedQueue`, `FirmwareBoardProofs` those about `FirmwareImage`; those about `Debouncer` are in it |

**NoteAllocator.** The state vector of the code becomes 0 (latch), 1..4 (the kind
searched), 5 (verdict), 6 (hold). The four copies of the search are one set of
actions with the kind as parameter: `TakeAll`, `StartSearch`, `LowerRight`,
`RaiseLeft`, `Settle`. `middle_value` and `number_of_notes_dispensable_int` are
written before they are read on each clock, so they are operators. The amount's
bit 31 is kept: the latch takes the amount modulo `IntRange`, the verdict looks at
the whole. The client is what `atm_top_level` does to the start line: raise it
with new inputs (`Feed`), lower it after done (`Release`), lower it before
(`Abort`, the wrong-bank path), or reset. `Edge`, the step of the registers, does
not mention the client and is what `AtmController` composes.

**AtmController.** One step is one clock edge (`Tick`): the branch of the main
process and one `ClockEdge` or `Edge` of each unit, all read the values before
the edge, as VHDL signals do. VHDL variables, which are assigned at once, are
primed and read primed within the step (`response'`, `led_blink_counter'`,
`time_out_counter'`). `prevchanAddr` is kept as the one bit that is read of it.
The host is an input: on each edge the channel address is any of `Channels` and
any byte or status may be written. A byte is identified by the block it comes
from (`Assemble`): eight bytes of one block open to its word, a mixture to one of
`GarbledWords`. The cipher is perfect here and in `AtmSystem`; what it takes of
the rounds is that decryption restores the block, which is proved (section 4).
Bytes of a request are counted; which word they make is chosen when the last is
entered. The reset is a step of its own: it takes the units' reset and the main
process's. Buttons may be up or down on any clock, which includes what a
debouncer lets through. Left out: the LEDs and `led_4to7_blink_counter`, which
only shapes them.

**AtmSystem.** The bank's variables are those of `main`: where it is in its loop
(`bank`), the byte it is at, the request read so far, the reply, the records in
memory (`db`) and in the file; each round of the loop starts with its own
(`NextRound`). `Crash` may come at any step, `Start` loads the file again. An access
of the host to a channel is one step of both sides. The machine has one step for
each run of clocks in which it reads nothing from outside; the notes are an amount,
and the allocator may find an amount or not (`found` in `Allocated`), but never more
than there is. `en_output` and `encryption_over` are kept, since a synchronisation
may show the block that is still in the encrypter: an access to channel 0 on the
first clock of Ready (`ReadCodeAtEnd`) starts one before Ready has lowered
`start_encrypt` (finding 1). A card of another bank goes to Ethernet and back. The
notes are taken from the registers when Dispensing begins and are out when it ends
(`HandedOut`); the reset button (`PressReset`) may be pressed in any state, clears
the transaction and the units and leaves cache, cache mode and notes, and a change
of the channel address that happens while it is held is never seen. The host sleeps a
second before each access, so what the machine has begun is over by the next one
(`Paced`).

The code has no defence against some orders of these steps. `odd` records each as a
*mishap*, with the customers whose accounts it may spoil, and the properties are
about one account at a time: whatever has happened to others, an account without a
mark must be right. So each mark is also a claim of how far the damage reaches.

| mishap | what has happened | who is marked |
|---|---|---|
| `hasty` | the code on channel 0 is confirmed while the notes of the request are still searched for (`atm_top_level.vhd:1242`) | its customer |
| `late` | the time-out or a reset comes while the bank is at work on that request (`main.c:479`); or the bank reads the request of another than whose code it confirmed (`main.c:399`) | the customer of the request |
| `mistaken` | the bank reads a request as an entry of the cache | the customer of the request |
| `stale` | a synchronisation shows the block of the request before (finding 1) | that customer, and the first entry's, where the reply is filed |
| `credited` | an amount of 2^31 or more, which is negative as an `int`, is withdrawn | its customer |
| `crossed` | bytes of a reply reach another request (`main.c:608`) | the customer of that request |
| `stuck` | an online service in cache mode, debited by the bank and from the cache (finding 4); a refusal takes over the last entry (`atm_top_level.vhd:857`) | the customer, and the last entry's |
| `cut` | a reset within a synchronisation, which forgets that the round was not over | those in the cache |
| `unpaid` | a reset between the bank's answer and the end of the pay-out; any part of the notes may be left in the machine | the customer |
| `torn` | a crash after the reply and before the file is whole (`main.c:482`) | the customer whose record is written |

`BooksBalance` demands that an account without a mark has lost what it was paid, and
that its customer's entry is what the bank would let them spend. `NeverUnderDebited`
also covers the accounts with no marks but `late` and `unpaid`: they may have been
debited for nothing or twice, never the other way round.

**UsbLink.** A call puts the steps it makes into `todo` (append to the buffer,
flush, await the writes, balance reads and writes, submit a read, await it, open
and close step by step) and `HostStep` takes the first; the steps of the USB
controllers (`MoveOut`, `MoveIn`), failures (`TransferFails`, and failing
submissions and allocations in `FpgaLink`) and the clock of `CommFpga` come
between. A transfer refers to a buffer by name and the controller reads or writes
it when the packet moves, so a buffer that is handed out too early shows. The
client (`Transferring`) makes any sequence of calls that `libfpgalink.h` allows
between the submit and the await of a read and closes the link after an error.
The interface has left its reset before the first call (a hazard in
`PROJECT.json` says why). Left out: the path of the event loop that cancels the
transfers when the cancellation itself fails and leaves one pending
(`libusbwrap.c:530-537`).

**JtagProgram.** A function of the library is the sequence of its USB calls in
`ProgHost`'s call list, each carried out with the firmware, which may keep the
host waiting; the action named after the stage continues it. The firmware handles
a request or runs its main loop, one turn of a shift at a time, with one packet
per endpoint. What the chain latches is recorded in `TapPort` and compared with
the scans the *file* asks for, so converter, player, packets and firmware are
checked at once. The following of the code is kept, with a comment where it is:
the 32nd attempt at a comparison fails even if it matches (`csvfplay.c:173`);
`progClocks` gives one clock more than asked (`firmware/fx2/prog.c:504`); a
comparison that goes round latches one bit more (`csvfplay.c:160`); the length of
XSIR is truncated to eight bits (`svf2csvf.c:667`); `aProgram` clears the FPGA
before it has looked at the rest of its arguments (`prog.c:483`). The converters
keep the scans of a file only under preconditions (`RunTestsFollowScans`,
`MasksEndCleanly`, `BytesFit`, `PiecesFillTheirBytes`); files outside them are
converted to something else, and the operators say what they require.

The pins of a session are a sequence of tokens, with one that is malformed and one
that the chip has not. `micro` is the chip there is, `Refuses` its stalls. The FX2
patches its code to any pins (`livePatch`). The AVR notes each line with the
engines that have it at this pin, and the choice takes an engine that has all the
lines noted, or stalls (`progPortMap`); its engines are those of
`boards/minimus.h`, which share no pin. It gives exact clocks, drives the data port
during a parallel stream only, and a shift both ways goes on after a second
without its host (`Makefile:152`): `GivesUp` shifts whatever is in the buffer, zeros
or ones here, and only when the host is gone, who else answers within the second.
`left` records what a session finds of those before: a shift, a packet, noted
lines. The conduits `epp.c` and `usart.c` have no part in a session and are
operators from packets to what reaches the FPGA.

**FirmwareBoard.** A job is a flash, a load, a save or an export; its requests
are control transfers of blocks, whose data the firmware takes in packets and
writes in pages to the EEPROM banks. Jobs take hex files, what an earlier save
kept, or what was exported from that. The firmware ignores the result of
`promWrite` (`app.c:375`), so the success of a flash with a refused page says
nothing; the model has it that way, and `BootsTheImage` is about the others. Nor
is the size of the EEPROM known to the host: blocks beyond it go round the banks,
so `BootsTheImage` and `FlashLeavesTheRest` are about what fits. `NeverRunsHalfLoaded` is
about firmware that is loaded: a board that loses its power in a flash boots what the
EEPROM has by then, which may be the first half of a new image and is known to be nothing
(`runs = NoImage`), so the property says nothing of it; `FlashLeavesTheRest` says what
is in the EEPROM at that moment. A lost answer to the request that releases the processor counts as success
(`ram.c:74`).

**BackendStart.** It adds the program to the board: a command line is parsed, the
board is opened by its VID:PID and perhaps DID; if that fails and `-i` was given, the
standard firmware gets the identity of `-v` and is loaded into the chip of `-i`, as
a job of `FirmwareBoard`. The standard firmware is two builds of the same sources, each
a hex file (`RamBuild`, `EepromBuild`), of which `mkfw` makes the code that is loaded
and the boot records that are flashed; the identity is written into either as it is,
without a look at the records. That the DID lies in one record with the VID:PID is
therefore an assumption about the build (`BuildsAssumption`); it is true of
`gen_fw/eepromNoBootFirmware.c`, where the device descriptor is in one record of 170
bytes. Then `flIsDeviceAvailable` is asked until the board is on the bus. What the bus shows (`shown`) is lost when the processor is released and
comes back when the board is enumerated, as what its memory makes of it. A
failure may hit every call once.

**CommandLine** and **ByteBuffer** hold no state of their own: a scan, a table entry or a
buffer is a record that an operation takes and returns. `getopt.c` leaves its code
out where the C library has its own, of the same algorithm.

**Mutants.** Operators commented "Mutant of ..." state a plausible bug in the
operator after them; they are used by no specification. `PROJECT.json` names the
property each one breaks.

## 3. Runs

| run | cfg | shows |
|---|---|---|
| `allocator_any_client` | `NoteAllocatorAny.cfg` | `TypeOK`, `Conservation`, `WithinStock`, `Sound` with drops and resets at any clock |
| `allocator_patient_client` | `NoteAllocatorPatient.cfg` | `Complete` against every choice of notes, `BracketHoldsTarget`, `Terminates`, `RefinesGreedy` |
| `atm_safe` | `AtmSafe.cfg` | the safety of the whole machine over three customers |
| `atm_sync` | `AtmSync.cfg` | `AsksEachOnce`, `RoundRestoresPlaces`, `ReplyFiledUnderCard`; `RequestResolves` (liveness) |
| `atm_stale_sync` | `AtmStaleSync.cfg` | violation: `SyncSendsEntry` |
| `atm_dropped_allocation` | `AtmDroppedAllocation.cfg` | violation: `RefusedOnlyWhenUnpayable` |
| `usb_link` | `UsbLink.cfg` | `QueueHoldsInFlight`, `BuffersArePrivate`, `OpenAllOrNothing`, `AwaitedWritesHaveLeft`; the refinement `ImplementsTransfers`; `EveryCallReturns` (liveness) |
| `usb_borrowed_read` | `UsbBorrowed.cfg` | violation: `AwaitReturnsItsData` |
| `bank_books` | `AtmSystem.cfg` | `BooksBalance`, `NeverUnderDebited`, `SavedBeforePolling`; `SyncEnds` (liveness) |
| `cache_mode_stuck` | `AtmCacheMode.cfg` | violation: `CacheModeEnds` |
| `jtag_program` | `JtagProgram.cfg` | `ChainSeesTheProgram`, `VerdictIsRight`, `OkMeansConfigured`; `SessionEnds` (liveness), with either chip and three boards |
| `firmware_board` | `FirmwareBoard.cfg` | `BootsTheImage`, `FlashLeavesTheRest`, `NeverRunsHalfLoaded`; `StartsAsAsked` (action property) |

`MCAtmController` also has TLC evaluate that decryption inverts encryption with
the exclusive or of the code (three rounds of three-bit words, every key of a
small set). `MCJtagProgram` has it evaluate that the two converters keep the scans of
some fifteen thousand SVF and fourteen hundred XSVF programs; that the AVR's
conduits carry messages to the FPGA however they were cut into packets; and the
vectors of the library's unit tests (`tests-unit/testSvf2Csvf.cpp`: shifts, parsing,
reordering), which the model of the code answers as the tests expect of the code.
`MCFirmwareBoard` has it evaluate, over all lines, tables, numbers, names and
sequences of steps up to a length, that `CommandLine` takes a line just when it is
good and gives each option its value (`LinesAreRead`), only moves operands behind
options (`PermutingMovesOperands`), fills and frees tables (`TablesAreFilled`,
`TablesAreFreed`), reads `-W` and numbers (`LongOptionsOfW`, `NumbersAreRead`), splits
file names and prints a full usage (`NamesAreSplit`, `UsageIsComplete`); and that
`ByteBuffer` keeps its bytes however it grows and finds the holes of a file
(`BuffersHoldTheirBytes`, `MasksAreDerived`).

**Bounds.** *Allocator*: note values keep the ratios 20 : 10 : 5 : 1 of the code,
doubled for the allocator alone so that some amounts cannot be paid by any notes.
Four notes per kind give searches of up to five clocks with all three outcomes of
a comparison; `IntRange` exceeds what the machine holds, as 2^31 does, and one
input has the wrapped bit.

*Machine*: a byte has 4 values, a PIN 2, a word 2 bytes (1 for the
synchronisation), the cache 2 entries (3 for the synchronisation, the least for
which a rotation has a middle); `MaxCustomers` bounds how often start is pressed.
With the notes the host loads in `AtmSafe.cfg` the longest search and the three
cipher rounds keep the order they have in the code (a search of at most 42 clocks
ends before a request that took 34 clocks to encrypt, 8 to answer and 34 to
decrypt is served), and `AtmDroppedAllocation.cfg` loads more notes so that a
search outlasts one encryption, as 42 outlasts 37. These runs reach offline
services, full synchronisation rounds, refusals in cache mode, resets in every
state and searches from stale brackets.

*Bank*: two customers and an administrator, a cache of two, three services, two
upsets (time-outs, crashes or resets): the least for a customer to be served
offline, be pushed down in the cache by another and be synchronised after a restart;
2.2 million states, in which every mishap occurs. The run of `bank_books` with three
upsets is too long to be repeated each time; it was made once, on 10 432 207 states,
with the inductive invariant of section 4 as well, and found no violation.

*USB link*: a byte counts to 2 instead of 256, so a length that is 0 for the
whole range occurs; packets of two bytes, an OUT FIFO of two, an IN FIFO of one
packet: every FIFO fills. Writes of five bytes (header and data span chunks and
packets), reads of one and five bytes (short and zero-length packets), chunks of
two bytes and unlimited; the ring starts with 4 items as in the code and may
double twice (`MaxCapacity`); reads are balanced at a depth of 2 as in the code;
three calls, three reads, one failure.

*Programming*: bytes of two bits, packets and buffers of two and four bytes, three
attempts at a comparison, two sessions of which the first may be stopped at any
step (`MaxKills`); files with scans that fill a packet, span packets and are too
long for the player, comparisons under a mask, a chain of no, one or two devices,
a configuration that is accepted and one that is not. Each chip has slave boards
of the kinds XP and AS, the FX2 one of the kind XS too, with sessions that share
the pins of the JTAG chain or not, so that the AVR accepts and refuses them, for
what they are and for what a stopped session has noted.

*Firmware*: an EEPROM of two banks of three blocks, packets half as long as a
block, segments of one block, nine hex files (overlaps, small and large holes, a
second segment, empty, junk, cut short), three jobs, one failure or power cycle; six
command lines (with and without `-i`, of other identities, bad ones), boards with
and without a DID, two looks for the board (`MaxPolls`, 60 in the code): one that fails and
is followed by another is all that the loop can tell apart.

**Fairness.** The clock does not stop: `WF_vars(ClockEdge)`, `WF_vars(Tick)`.
Nothing is assumed of host, customer or reset button there, so `RequestResolves`
rests on the time-out alone. `AtmSystem`: the bank's program goes on while it
runs (`HostStep`), the machine's clock does not stop (`AtmStep`); customers,
crashes, restarts and time-outs are free. `UsbLink`: the host's thread, the two
controllers and the clock do not stop; nothing is bound to fail. `JtagProgram`:
host program, micro-controller and FPGA go on; a request only times out when
nothing else can move. `FirmwareBoard` states no liveness and no fairness.
Deadlock is checked except where the system may rest: a link that is closed or
idle after its last call, a bank that is down with the machine Ready, a board
with no job left.

### Findings

1. *Stale done at the start of a synchronisation* (`atm_top_level.vhd:1134`). If
   the host comes back on the first clock of Ready, `encryption_over` is still
   high and the block sent as cache entry is the last request, whose amount the
   backend takes for the remaining balance.
2. *Allocation not waited for* (`atm_top_level.vhd:492`, `<=` where `=` was
   meant). With another bank's card and done held, the allocator is stopped after
   37 clocks of a search of up to 42; `binarysearch_start` stays set, and the
   next customer's search starts from that bracket. `Conservation`, `WithinStock`
   and `Sound` still hold, so no wrong amount is paid, but a payable request is
   refused or its search never ends.
3. *A borrowed read does not stay valid* (`libfpgalink.c:241`). The header lets
   writes come between the submit and the await of a read without a buffer. The
   awaits of those writes may meet the completed read, its wrapper leaves the
   queue with the completion report pointing into it, and once the ring has come
   round it is prepared for a write and overwritten before the read is fetched.
4. *Cache mode that does not end* (`atm_top_level.vhd:374`). The return of the
   host is seen only as a change of the channel address to 0 in Ready. A bank that
   was slow and polls channel 0 again makes that change once, perhaps in another
   state; then the machine stays in cache mode with the bank running, and a
   service is debited both by the bank and from the cache.

## 4. Proofs

**Allocator** (`NoteAllocatorProofs`), for every
`Value`, `MaxNotes`, `IntRange` and `Inputs` allowed by the four assumptions of
`NoteAllocator` (positive numbers; inputs that fit the ports):

- `TypeCorrect` (`Spec => []TypeOK`): `TypeOK` is inductive. The reason that the
  remainder stays a natural number, even from a stale bracket, is that each
  branch subtracts only what it has just compared.
- `Conserves`, `StaysWithinStock`, `YesIsSound`: from the inductive invariant
  `PaymentInv` = `Conservation`, `WithinStock` and `VerdictHolds`. The last is the
  strengthening `Sound` needs: it ties a standing yes to the test that gave it.
  The outcome of a search without a bracket invariant is bounded because
  `Searching(k)` says the remainder is below the worth of the available notes.
- `BracketIsRight`, `Refinement` (`PatientSpec`): from `PatientInv`, which adds
  that an open bracket belongs to the running allocation (`BracketIsCurrent`) and
  that done is up only in the last state. Finding 2 is a client for which
  `BracketIsCurrent` fails. A bracket of width one settles on its lower end, which
  is the most notes that fit: `Settle` is `PayMost`, the other search steps
  stutter.
- `NoIsRight` (`PatientSpec => []Complete`): taking the most notes of each kind
  first misses no payment. The invariant `NoneLost` says that, if the amount could be
  paid at all, what is left of it can be paid with the kinds still to come.
  `MostIsEnough` is the step: of a payment that uses fewer notes of this kind than
  are taken, `SpareChange` finds notes of the later kinds worth exactly the notes
  that were added, and leaves them out. That needs each note to be worth a number of
  notes of the next (`Chained`), by `ChangeOfTwo` and `ChangeOfThree`: the notes of two or three kinds, each
  worth a multiple of the next, that are together worth more than one of a larger kind
  contain change for it. It also needs the register of the amount to count all notes
  that the ports can carry (`CountsAll`), so that a wrapped amount is one that nothing
  pays. Both are hypotheses of this theorem alone, true of 2000, 1000, 500, 100 and
  of 255 notes of each in 31 bits; `MCNoteAllocator` has TLC evaluate them of the
  instance that is run, and TLC checked `NoneLost` on it before it was proved.

**ATM main process** (`AtmControllerProofs`), for every size of words, cache, note
registers and every timing, any host, customers and resets. Assumed, in `AtmData`
and `AtmController`: a byte has at least two values, the cache two places, the
counters' ends are positive, either half of a word fits the allocator's amount
ports (`HalfRange <= 2 * IntRange`; 2^32 and 2^31 in the code), and the inputs are
words. The invariant is `MachineInv`, and each part has a lemma for a step of the
clock or a reset, one step per branch of the process:

- `CountersInv`: the counters in their ranges, and not at their ends in the states
  that count them on; `DataInv` and `AllocatorInv`: types.
- `SealInv` gives `ShowsTheRequest` (`RequestIsSealed`): the encrypter is stopped
  while a request is entered, so it has seen a clock of it before it is started,
  and from then on holds this request. `OpenInv` says the same of the decrypter
  and the reply and gives `UsesTheReply` (`ReplyIsOpened`).
- `MoneyInv` gives `LeavesAsAsked` (`NotesLeaveAsAsked`): from the start of the
  allocation until the notes are taken the start line is up and the lines into
  the allocator stand still, so that `PaymentInv`, proved in `NoteAllocatorProofs`
  and instantiated here, holds on every one of these clocks; before it is started
  it has been at rest for a clock. That is why an unfinished allocation is a
  refusal and never a wrong payment.
- `PayoutInv` gives `HandsOutAll` (`AllHandedOut`): while notes wait to be handed
  out the account's answer and the allocator's verdict stand.
- `Unique(cache)` gives `CachesOnce` (`OneEntryPerCustomer`): the place that is
  overwritten is the customer's, or the customer has none; this holds of a
  refusal too, which does not look at the last entry, since it overwrites it.
- `OfflineInv`, with the others, gives `DebitsCovered` (`OfflineDebitCovered`): the
  balance is looked up by card and PIN and the debit by card alone, which is the
  same entry because a card has one. The empty entries have user id 0, so this is
  assumed of no card (`\A w \in Requests : w.uid # 0`).

- `TimeInv` gives `AllocatesInTime` (`AllocatedBeforeUse`). From the start of the
  allocation until its verdict is used, the allocator is decided, or goes round in a
  bracket that a dropped allocation left (`Stuck`), or has no more clocks to go than
  the main process: `ClocksLeft` falls with every clock (`EdgeAdvances` in
  `NoteAllocatorProofs`, with a bracket of `w` numbers closed in `clocks[w]` clocks),
  and what is left of the cipher rounds and of the time-out (`ClocksOnline`,
  `ClocksOffline`) falls by at most one (`BoundsStep`). The hypothesis `Outlasted` says
  that at the start there is enough: a function on widths that grows with each
  halving, whose four searches fit into the shorter of the two ways. For the 8-bit
  note registers, 32 rounds and 31 blinks of the code that is 42 clocks against 69
  online and 66 offline, which `ASSUME SearchIsInTime` in `MCAtmController` evaluates.

`TypeCorrect` is `Spec => []TypeOK`.

**Synchronisation** (the last section of `AtmControllerProofs`), under the assumptions of the main process and for
a cache of any size: `EachIsAsked` (`AsksEachOnce`), `PlacesRestored`
(`RoundRestoresPlaces`) and `FiledUnderCard` (`ReplyFiledUnderCard`). The history
variable `before` holds the cache as it was when the round began. `RoundInv` says that
within a round the cache is, but for the balances that were replaced, `before` turned
by as many places as replies have come (`Turned`), and that the place at the front,
which is the one that is sent, came from `Origin`. After `CacheSize` turns the
origin of each place is itself. An abandoned round leaves the cache turned, and the next
one starts its history from there; `RoundInv` holds of both. `FiledUnderCard` rests on
`Unique(cache)`, from `MachineInv`: the step moves the first entry to the second place
and files the reply by its place, which is by its card only if no other entry has it.
TLC checked `RoundInv` on the states of `atm_sync` before it was proved.

**Ring queue** (the first section of `UsbLinkProofs`), for rings of any capacity, from the
ring's invariant (`InitIsRing` starts it): `GrowthKeepsQueue`, a full ring that
has wrapped anywhere is doubled without losing or doubling an item;
`PutHandsOutFree`, `CommitAppends`, `TakeRemovesOldest`, what the four operations
do to the sequence of committed items.

**USB link** (`UsbLinkProofs`), for every capacity of the ring, depth, size of
packets, FIFO and chunks, and bound on calls and failures. Assumed in `UsbLink`: the
lengths of the calls and the chunk sizes are natural numbers (`ClientAssumption`).
The invariant is `LinkInv`, and each of its parts has a lemma for each step:

- `FlightInv` gives `FlightIsQueued` (`QueueHoldsInFlight`): the ring is well-formed
  (`RingInv`), no wrapper is submitted twice, on one endpoint or on both
  (`EndpointsInv`), and what an endpoint holds is a pending transfer
  (`TransferInv`); that is why the take of a wrapper whose transfer is over leaves
  all the others in the queue. The steps on the queue follow from the lemmas of the
  ring.
- `CallTypes` says what the steps of a call are, and that a prepared buffer has room.
  The steps of a call of any length are put together with `FlattenSeq`; `FlattenStays`
  shows that what holds of the pieces and survives concatenation holds of the whole,
  by a least counterexample, as the library's induction theorems cannot be used.
- `OpenInv` gives `OpensAllOrNothing` (`OpenAllOrNothing`): flOpen holds what the steps
  it has taken acquired, nothing is in flight until all of them have, and the last step
  of flClose finds an empty queue.
- `FlushInv` gives `AwaitedHaveLeft` (`AwaitedWritesHaveLeft`), for runs with failures
  too. An await of the writes and the await that balances a read come after a flush,
  and a flush leaves nothing prepared. That needs the case in which it submits nothing: a
  prepared buffer with no data in it exists only within an append, or after a
  failure that ends the use of the link (`Stopped`).
- `PreparedInv` and `BufferInv` give `PreparedStaysFree` and `BuffersPrivate`
  (`BuffersArePrivate`): until something fails, the prepared buffer is that of the
  item the ring hands out next, and no transfer uses the buffer of another wrapper. The
  second theorem also speaks of the read that is completed and not fetched yet, and has
  the hypothesis that no read was borrowed (`NoneBorrowed`): a report of a borrowed read
  names the buffer of a wrapper that has left the queue, which a later put may
  hand out. That a client that keeps to the rule of `libfpgalink.h` is spared this is
  checked by `usb_link` at its depth, and not proved; the bank borrows none.

**Bank and machine** (`AtmSystemProofs`), for every file of accounts, every set of
requests and of garbled words, every size of words, PINs and cache, and any number
of services, resets, time-outs and crashes. Nothing is assumed of the amounts that
customers enter.

`SavedAtRest` is `Spec => []SavedBeforePolling`; its invariant `SavedInv` says that
the file is the memory unless the program is down or rewriting it. `TypeCorrect` is
`Spec => []TypeOK`. `BooksAlwaysBalance` (`BooksBalance`) and `NeverUnder`
(`NeverUnderDebited`) rest on `IInv`, which `AccountsInvariant` proves of every
behaviour; TLC checked it on the states of `bank_books` before it was proved. At
rest an account's loss is what it was paid; away from rest the difference is in
one of four places (a record not yet written, a reply on its way, the cache, notes
about to be paid), and each part of the invariant is there to say in which:

- `TypeInv`: types; the cache has one entry per customer, and a record keeps its
  user, PIN and role.
- `CoordInv`: the common protocol, which neither program states. A customer who is
  served offline is in the cache (`OfflineInv`); what the machine shows in a
  synchronisation is its first entry, or the block of a customer who is marked
  `stale` with that entry's (`RoundInv`, `EntryInv`); and what the bank answers is what
  the machine has asked, unless it has given up on it (`ServeInv`). It holds of every
  behaviour, whatever has happened.
- `AccountInv(i)` is about the account of line `i` alone, for as long as its marks are
  in `Unserved`. That it survives the steps of all the others, mishaps included, is
  most of the proof. `BookOf`, `CommitOf`: its balance, and the one about to be
  written, stay between zero and the first one. `Book` is the memory, or the file
  while the program is down: that is what makes a crash a stutter of the books.
  `CardOf`: its entry in the cache has the PIN of the account, so that the reports of
  the synchronisation are accepted. `AskedOf`, `ReportOf`, `ServedOf`: the request that
  was read whole is the one that was entered, the entry that was reported is the one
  that is replaced, and the reply that the machine opens carries the spendable part of
  what the bank has booked for this customer.
- `UnderOf` and `OverOf`: the book plus what the cache keeps for later (five times its
  low half) against what is left to the customer, from above and from below, with
  the remainder of the division by five in `OverOf`. An entry counts until it was
  reported (`Stale`) and until its reply replaces it (`Replaced`). `OverOf` is claimed
  only of accounts without a mark.

The amount may be of any size. From 2^31 on it is negative in `ServeRequest` and would
be credited; with the machine's own check no such amount is read under code 1, but a
bank that is late reads a request with the code of the one before, and then it is. That
is the mark `credited`, which `NeverUnder` does not forgive; the theorem says that
no other account is touched by it.

`AtmSystem` states what is assumed of the constants: the records of the file
have distinct users, none of them 0, the user id of an empty entry of the cache
(`AccountsAssumption`); balances and the worth of the first notes are ints; an
administrator enters what fits the machine, which is four counts of at most 255
notes (`EntryAssumption`); and a block that nobody sealed does not open to the id of
a user (`GarbledAssumption`), which is what is taken of the cipher.

**Cipher** (`CipherRoundsProofs`): `DecryptUndoesEncrypt` for one round and
`DecryptionRestoresBlock` for all: for words of any width, any key, any number of
rounds, any amounts of the shifts and any operation in place of the exclusive or
that keeps words words. Neither half of a block changes what the other is
combined with, so a round is undone by the same sum subtracted. The hypothesis
`SumsMeet` is that the decryption starts from the sum the encryption ends with;
for the code, 32 times 16#9e3779b9# is 16#C6EF3720# modulo 2^32. The induction
over the rounds is made with a least counterexample, as the library's induction
theorems cannot be used here.

**Debouncer** (in `Debouncer`): `BouncesAreDropped` and `PressesArrive`, for
any waiting time that the counter can hold (`WaitFits`) and any value of the
counter at power-up, from the invariant `CountInv`: until the wait is over the
counter is one less than the clocks that saw this level, later, when it may have
gone round, only below them, and the output has the level. The wait of the code
is a million clocks and the counter goes round at 2^20, so the interesting case
is out of reach of a run at the code's size and within that of the proof.

**Firmware** (`FirmwareBoardProofs`), for blocks, packets, pages, banks, records,
lines and segments of any size, any hex files and any number of jobs and failures.
`BoardAssumption` says that a block is a number of packets and a bank a number of
blocks; `FilesAssumption` that the length of a record has ten bits and an address
sixteen, and that the images of the hex files fit the RAM of the chip. Two relations
carry an image from the file to the processor: `Shows` (a data and mask buffer has
every byte that is meant, and zeros elsewhere) and `Delivers` (a sequence of bytes
is a boot load of records that write just that).

- Each conversion keeps them, for any image: `HexIsMeant` (reading a hex file gives
  what its lines say, the later of two lines for one address), `PromDelivers` (the
  records that are flashed, which cut long runs and keep short holes),
  `PromIsRead` (a saved load is read back), `ExportIsRead` (what is written as
  hex lines, with a segment record where one begins, reads as the same), and
  `BootsWhatIsDelivered` (the boot loader fills the RAM with it). The loops of the
  code are functions of the number of the turn (`While`), and `LoopEnds` shows that the
  turns they are given are enough, since each gets on. What such a loop computes is
  shown by induction with a least counterexample (`Least`, `Counting`).
- `BoardKeepsItsOrder` is `Spec => []BoardInv`. `FlashIs`, `PlaceIs` and `SentIs` say
  of a flash which bytes the micro-controller still has and that bank and address are
  where they go; with `FlashLeavesTheRest` the last packet then leaves the EEPROM
  equal to the records, which is `HoldsIs`. `SaveIs` and `KeptIs` follow the bytes
  into a file and back through an export, `LoadIs` into the RAM, with the processor
  held from the first block to the release.
- Its consequences are `FlashedFirmwareBoots` (`BootsTheImage`),
  `FlashingLeavesTheRest` and `NothingHalfLoadedRuns` (`NeverRunsHalfLoaded`).
  `FlashLeavesTheRest` is an invariant only for a flash that fits the EEPROM, and
  `BoardInv` failed without that hypothesis.

TLC checked `BoardInv`, without the parts that say `Delivers` of a sequence, on
2 267 480 states of `FirmwareBoard` with two failures before it was proved. The theorems
are about `FirmwareBoard`'s `Spec`; the run `firmware_board` checks the same three
invariants where `BackendStart` takes the steps, with the standard firmware among
the files.

**Programming** (`JtagProgramProofs`), for any number of sessions and stops of the
host program, either chip, any boards, any bytes and packets, and any files, pins
and further pins that `SessionsAssumption` of `JtagProgram` allows: a stream that is
played brings with each scan the bytes of the size in force, none before the first
XSDRSIZE (`Fits`), as the player assumes of a file; a port configuration has four pins for JTAG, of any
names; and the pins named PROG, INIT and DONE in a configuration that is complete are
those of the board, since of other pins success says nothing. `LimitsAssumption` says
that a packet has at least one byte. Nothing is assumed of what the chain or the
FPGA answer, of the pins that the micro-controller has, or of what an earlier session
has left in it.

`ConfiguredWhenOk` (`OkMeansConfigured`) follows from `ProgrammerKeepsItsOrder`,
`Spec => []ProgramInv`. The host knows of the FPGA only what it has read, and what
will still happen to the pins is in the calls that are left of its function, so the
invariant is about those calls, stage by stage:

- `Clearing`: while `xProgram` waits for INIT and DONE to fall, PROG is either still
  to be lowered, by one call that is left, with nothing read before it, or it has
  been lowered and no call that is left touches it. In the second case a 0 that was
  read means an FPGA that has been cleared: a 0 that an earlier, stopped session
  is the cause of does not occur, as no read precedes the lowering.
- `Writing`: from there on no call lowers PROG, so that an FPGA that runs has taken
  the configuration since it was cleared (`Sound`). `aProgram` does not wait for the
  clearing: in its first stage lowering nCONFIG may still be a call that is left.
- `Checking`: of the last two calls one reads INIT and one DONE, so the second value
  that is received is that of DONE, and a 1 means that the FPGA runs.
- `LettingGo`: each pin that is driven and must not be at the end is made an input by
  a call that is left, behind which no call drives it. The data port, which a
  parallel shift drives as long as the operation lasts, needs the conjuncts on
  `PROG_PARALLEL`: no such shift is begun in closing, and one that a stopped session
  left does not go on behind that call.
- `Started`, `Staged`, `Playing`: which sessions a stage belongs to, that calls are
  well-formed, and that what the player has still to read fits its size.

Below it are lemmas of what each function of `ProgHost`, `CsvfPlayer` and
`SlaveHost` calls (`ShiftsInOut`, `PlaysAll`, `AppliesAll`, `OpeningX`,
`WritesThenReads`), and of what one request (`RequestActs`) or one step of the
firmware (`MicroMoves`) does to the FPGA and to the pins. Lists that are made with
`FlattenSeq` or cut off at the first bad pin (`Flattened`, `ParsedWhole`, `CutOff`) are
treated with a least counterexample.

TLC finds the parts of `ProgramInv` on all states of `jtag_program`.

Only model-checked: what the JTAG chain sees (`ChainSeesTheProgram`,
`VerdictIsRight`, which compare the registers with what recursive converters and
folds over bits make of the file) and the types of `JtagProgram`, whose bytes are
below a power of two that depends on a constant (the provers know nothing of
exponentiation, not even that `2^k` is a natural number, nor of folds); the start of the
backend and its command line (`BackendStart` and `CommandLine` have recursive
operators, with which no theorem can be stated), the growing buffers, the
refinement `ImplementsTransfers` (its step would need an invariant that cuts every
byte in flight, in four places at once, into whole messages; that is a matter of
work, not of the prover's reach), and the liveness properties. Liveness under
fairness and ENABLED are beyond the prover.

## 5. Not modelled, and the plan

- The LEDs of the board and `led_4to7_blink_counter`. Its declared range is 0 to
  6 and it counts to 8 (`atm_top_level.vhd:310`), which only a simulator notices.
- In `main.c`: the printed log.
- In `libargtable2` and `getopt.c`: what is printed, apart from which parts a usage
  has; an allocation that fails during a parse.
- In FPGALink: the text of SVF lines and the characters of port configurations
  (pins are tokens, good or not); the selection of a conduit by `xProgram` and
  `aProgram` (`prog.c:392`, `prog.c:519`), which the AVR takes for its mode and which is
  fixed to the programming mode here; the address of storage that `readBytes`
  goes on with although the next append may move it (`svf2csvf.c:88`; a line of SVF is
  a token here, so the model has no such address); the statuses with which the XSVF
  converter refuses a file, which are one here; reads over SPI, which nothing in the
  library calls.
- In `libbuffer`: the doubling of a buffer of capacity zero, which no caller makes
  (it would not end).
- In firmware and loader: descriptors; the firmware for the LPC, a third chip for
  other boards; on the AVR a
  shift one way of no bits, which would go round and which no file asks for; what
  the buffer of `GivesUp` holds is taken as all zeros or all ones.
- Helpers without a protocol: `liberror`, `libdump`, `libutpp`, readline.

Tests other than the vectors named above, examples (one of them a table of four
thousand lines of random bytes), the Python binding, generated firmware tables and
headers of declarations make up most of the lines that are not mapped; they have no
behaviour that a state machine would say more about than they do.

What would come next: `CommFpga` alone as a refinement of the messages it takes
apart; a proof of what the chain sees of a stream that is played.
