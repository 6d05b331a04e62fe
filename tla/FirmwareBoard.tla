--------------------------- MODULE FirmwareBoard ----------------------------
(***************************************************************************)
(* The firmware of the FX2: loaded into its RAM (ram.c), flashed into its    *)
(* EEPROM and saved from it (fx2.c, eeprom.c), the vendor command and the    *)
(* I2C writes of the firmware that serves it (app.c, prom.c), and the boot.  *)
(* Any transfer may fail, the EEPROM may refuse a write, and the board may   *)
(* lose its power between two pages.                                         *)
(***************************************************************************)
EXTENDS FirmwareImage

CONSTANTS
    BLOCK_SIZE,         \* bytes of a control transfer: 4096
    EP0BUF_SIZE,        \* bytes of a packet of endpoint 0: 64
    BankBytes,          \* bytes of a bank of the EEPROM: 2^16
    RamBytes,           \* bytes of the RAM of the chip
    HexFiles,           \* hex files there are, as sequences of records
    MaxJobs,            \* bound: jobs asked for
    MaxFailures         \* bound: failures of any kind

ASSUME BoardAssumption ==
    /\ {BLOCK_SIZE, EP0BUF_SIZE, BankBytes} \subseteq Nat \ {0}
    /\ BLOCK_SIZE % EP0BUF_SIZE = 0 /\ BankBytes % BLOCK_SIZE = 0
    /\ RamBytes \in Nat /\ {MaxJobs, MaxFailures} \subseteq Nat

\* The length of a record has ten bits, its address sixteen; the hex files are
\* for this chip.
ASSUME FilesAssumption ==
    /\ MaxRecord <= 1023 /\ RamBytes <= 65536
    /\ HexFiles \subseteq Seq([kind : {"data", "segment", "eof", "junk"}, at : Nat, bytes : Seq(Nat)])
    /\ \A lines \in HexFiles : Len(bufReadFromIntelHexFile(lines).image.data) <= RamBytes

VARIABLES
    eeprom,     \* the bytes of both banks
    ram,        \* the RAM: a byte for every address
    cpu,        \* "held" in reset, or "running" what is in the RAM
    job,        \* what the host is doing
    transfer,   \* the control transfer the micro-controller is serving
    kept,       \* the file that was saved or exported last
    result,     \* what the last job returned
    jobs, failures,
    holds,      \* history: what the EEPROM has been given, when all of it arrived
    runs,       \* history: what the running firmware was meant to be
    before      \* history: the EEPROM when the job began

boardVars == <<eeprom, ram, cpu, transfer>>
vars == <<boardVars, job, kept, result, jobs, failures, holds, runs, before>>

NoImage == [known |-> FALSE, at |-> <<>>]
Image(lines) == [known |-> TRUE, at |-> MeantByHex(lines)]
EepromBytes == 2 * BankBytes
Idle == [kind |-> "idle", bytes |-> <<>>, means |-> NoImage, at |-> 0, address |-> 0, bank |-> 0, soiled |-> FALSE]
NoTransfer == [bank |-> 0, address |-> 0, bytes |-> <<>>]
NoFile == [format |-> "none", content |-> <<>>, means |-> NoImage]
Files == {[format |-> "hex", content |-> lines, means |-> Image(lines)] : lines \in HexFiles}

\* What is written last stays.
WrittenOver(bytes, memory) ==
    [a \in DOMAIN bytes \cup DOMAIN memory |-> IF a \in DOMAIN bytes THEN bytes[a] ELSE memory[a]]

\* The boot loader of the chip: it writes the records of a C2 load to its RAM
\* one after the other, until the one that starts the processor.
Boots == eeprom[1] = 194
BootMemory ==
    LET length(at) == Word(eeprom, at) % (MaxRecord + 1)
        address(at) == Word(eeprom, at + 2)
        end(at) == Min({at + 4 + length(at), EepromBytes + 1})
        record(at) == [i \in {address(at) + k : k \in 0 .. end(at) - at - 5} \cap (0 .. RamBytes - 1)
                          |-> eeprom[at + 4 + i - address(at)]]
        goes(p) == p.at + 3 <= EepromBytes /\ Word(eeprom, p.at) < 32768
        step(p) == [at |-> p.at + 4 + length(p.at), memory |-> WrittenOver(record(p.at), p.memory)]
    IN  While(goes, step, [at |-> HeaderBytes + 1, memory |-> <<>>], EepromBytes).memory

Init ==
    /\ eeprom = [i \in 1 .. EepromBytes |-> 255]
    /\ ram = [a \in 0 .. RamBytes - 1 |-> 0]
    /\ cpu \in {"held", "running"}
    /\ job = Idle /\ transfer = NoTransfer /\ kept = NoFile /\ result = "none"
    /\ jobs = 0 /\ failures = 0
    /\ holds = NoImage /\ runs = NoImage /\ before = eeprom

-----------------------------------------------------------------------------
(* The host.                                                                 *)

Begin(kind, bytes, means) ==
    /\ job' = [Idle EXCEPT !.kind = kind, !.bytes = bytes, !.means = means]
    /\ jobs' = jobs + 1
    /\ before' = eeprom
    /\ UNCHANGED <<result, failures>>

Return(verdict) == job' = Idle /\ result' = verdict

\* A file that cannot be read ends the job before anything is sent.
Refuse(verdict) ==
    /\ Return(verdict) /\ jobs' = jobs + 1
    /\ UNCHANGED <<failures, before, holds>>

Ready == job.kind = "idle" /\ jobs < MaxJobs

flFlashCustomFirmware(file) ==
    LET read == bufReadFromIntelHexFile(file.content)
        bytes == IF file.format = "hex" THEN PromOf(read.image) ELSE file.content
    IN  /\ Ready
        /\ \/ /\ file.format = "hex" /\ ~read.ok
              /\ Refuse("FL_FILE_ERR")
           \/ /\ ~(file.format = "hex" /\ ~read.ok)
              /\ Begin("flash", bytes, file.means)
              /\ holds' = NoImage
        /\ UNCHANGED <<boardVars, kept, runs>>

\* A hex file loaded without a mask: holes are written as zeros.
flLoadCustomFirmware(file) ==
    LET read == bufReadFromIntelHexFile(file.content)
    IN  /\ Ready /\ file.format = "hex"
        /\ \/ /\ ~read.ok
              /\ Refuse("FL_FILE_ERR")
           \/ /\ read.ok
              /\ Begin("hold", read.image.data, file.means)
              /\ UNCHANGED holds
        /\ UNCHANGED <<boardVars, kept, runs>>

flSaveFirmware ==
    /\ Ready
    /\ Begin("save", <<>>, holds)
    /\ UNCHANGED <<boardVars, kept, holds, runs>>

\* A saved file turned into hex records, with the two libraries.
ExportHex ==
    LET read == i2cReadPromRecords(kept.content)
    IN  /\ Ready /\ kept.format = "iic" /\ kept.means.known /\ read.ok
        /\ kept' = [kept EXCEPT !.format = "hex", !.content = bufWriteToIntelHexFile(read.image)]
        /\ UNCHANGED <<boardVars, job, result, jobs, failures, holds, runs, before>>

-----------------------------------------------------------------------------
(* EEPROM transfers.  The running firmware serves them.                      *)

Rest == Len(job.bytes) - job.at
IsLast == Rest <= BLOCK_SIZE

\* Mutant: the bank stays when the address wraps.
AdvancedSameBank(j) == [j EXCEPT !.at = @ + BLOCK_SIZE, !.address = (@ + BLOCK_SIZE) % BankBytes]

\* The next address; the bank changes when it wraps.
Advanced(j) ==
    LET next == (j.address + BLOCK_SIZE) % BankBytes
    IN  [j EXCEPT !.at = @ + BLOCK_SIZE, !.address = next, !.bank = IF next = 0 THEN @ + 1 ELSE @]

fx2WriteEEPROM ==
    /\ job.kind = "flash" /\ transfer = NoTransfer /\ cpu = "running"
    /\ job' = [job EXCEPT !.kind = "sent"]
    /\ transfer' = [bank |-> job.bank, address |-> job.address,
                    bytes |-> SubSeq(job.bytes, job.at + 1, job.at + Min({Rest, BLOCK_SIZE}))]
    /\ UNCHANGED <<eeprom, ram, cpu, kept, result, jobs, failures, holds, runs, before>>

Cell(bank, address) == (IF bank # 0 THEN BankBytes ELSE 0) + address + 1

\* A page of the EEPROM: its address counter stays in the page.
PageWritten(bank, address, slice) ==
    LET page == address - (address % EP0BUF_SIZE)
        place(k) == Cell(bank, page + ((address + k - 1) % EP0BUF_SIZE))
    IN  [i \in DOMAIN eeprom |->
            IF \E k \in DOMAIN slice : place(k) = i
            THEN slice[CHOOSE k \in DOMAIN slice : place(k) = i] ELSE eeprom[i]]

\* One packet of the transfer.  The vendor command does not look at what
\* promWrite returns: a page the EEPROM did not take is passed over.
promWrite ==
    LET size == Min({EP0BUF_SIZE, Len(transfer.bytes)})
        slice == SubSeq(transfer.bytes, 1, size)
    IN  /\ transfer.bytes # <<>>
        /\ transfer' = [transfer EXCEPT !.address = @ + size, !.bytes = SubSeq(@, size + 1, Len(@))]
        /\ \/ /\ eeprom' = PageWritten(transfer.bank, transfer.address, slice)
              /\ UNCHANGED <<job, failures>>
           \/ /\ failures < MaxFailures
              /\ failures' = failures + 1 /\ job' = [job EXCEPT !.soiled = TRUE]
              /\ UNCHANGED eeprom
        /\ UNCHANGED <<ram, cpu, kept, result, jobs, holds, runs, before>>

BlockDone ==
    /\ job.kind = "sent" /\ transfer.bytes = <<>>
    /\ transfer' = NoTransfer
    /\ IF IsLast
       THEN /\ Return("FL_SUCCESS")
            /\ holds' = IF job.soiled \/ Len(job.bytes) > EepromBytes THEN NoImage ELSE job.means
       ELSE /\ job' = [Advanced(job) EXCEPT !.kind = "flash"]
            /\ UNCHANGED <<result, holds>>
    /\ UNCHANGED <<eeprom, ram, cpu, kept, jobs, failures, runs, before>>

\* One block of a save: bytes that cannot be read arrive as the filler 0x23.
fx2ReadEEPROM ==
    LET block(failed) == [i \in 1 .. BLOCK_SIZE |->
                            IF failed THEN 35 ELSE eeprom[Cell(job.bank, job.address + i - 1)]]
        last == Len(job.bytes) + BLOCK_SIZE >= EepromBytes
    IN  /\ job.kind = "save" /\ cpu = "running"
        /\ \E failed \in BOOLEAN :
            LET soiled == job.soiled \/ failed
                bytes == job.bytes \o block(failed)
            IN  /\ failed => failures < MaxFailures
                /\ failures' = IF failed THEN failures + 1 ELSE failures
                /\ IF last
                   THEN /\ Return("FL_SUCCESS")
                        /\ kept' = [format |-> "iic", content |-> bytes,
                                    means |-> IF soiled THEN NoImage ELSE job.means]
                   ELSE /\ job' = [Advanced(job) EXCEPT !.bytes = bytes, !.soiled = soiled]
                        /\ UNCHANGED <<result, kept>>
        /\ UNCHANGED <<boardVars, jobs, holds, runs, before>>

-----------------------------------------------------------------------------
(* RAM transfers, served by the chip itself: the processor is held in reset, *)
(* the RAM is written, the processor is released.                            *)

\* Mutant: the byte that holds the processor releases it.
HoldCpuNot ==
    /\ job.kind = "hold"
    /\ cpu' = "running" /\ job' = [job EXCEPT !.kind = "load"]
    /\ UNCHANGED <<eeprom, ram, transfer, kept, result, jobs, failures, holds, runs, before>>

HoldCpu ==
    /\ job.kind = "hold"
    /\ cpu' = "held" /\ job' = [job EXCEPT !.kind = "load"]
    /\ UNCHANGED <<eeprom, ram, transfer, kept, result, jobs, failures, holds, runs, before>>

RamWritten ==
    [a \in DOMAIN ram |->
        IF a \in job.at .. job.at + Min({Rest, BLOCK_SIZE}) - 1 THEN job.bytes[a + 1] ELSE ram[a]]

fx2WriteRAM ==
    /\ job.kind = "load"
    /\ ram' = RamWritten
    /\ job' = IF IsLast THEN [job EXCEPT !.kind = "release"] ELSE [job EXCEPT !.at = @ + BLOCK_SIZE]
    /\ UNCHANGED <<eeprom, cpu, transfer, kept, result, jobs, failures, holds, runs, before>>

\* What the release returns is not looked at: it counts as done when it is lost.
ReleaseCpu ==
    /\ job.kind = "release"
    /\ \/ cpu' = "running" /\ runs' = job.means /\ UNCHANGED failures
       \/ /\ failures < MaxFailures
          /\ failures' = failures + 1 /\ UNCHANGED <<cpu, runs>>
    /\ Return("FL_SUCCESS")
    /\ UNCHANGED <<eeprom, ram, transfer, kept, jobs, holds, before>>

-----------------------------------------------------------------------------
(* What goes wrong.                                                          *)

\* A transfer fails or times out, or only its answer is lost: the job returns,
\* what was written stays.
TransferFails ==
    /\ job.kind \notin {"idle", "release"}
    /\ \/ failures < MaxFailures /\ failures' = failures + 1
       \/ job.kind \in {"flash", "save"} /\ cpu = "held" /\ UNCHANGED failures
    /\ ram' \in {ram} \cup (IF job.kind = "load" THEN {RamWritten} ELSE {})
    /\ Return("FL_FX2_ERR") /\ transfer' = NoTransfer
    /\ UNCHANGED <<eeprom, cpu, kept, jobs, holds, runs, before>>

\* The board loses its power, and boots from its EEPROM when it returns; the
\* host sees the transfer fail.  Without an image the chip stays in its default.
PowerCycle ==
    /\ failures < MaxFailures /\ failures' = failures + 1
    /\ IF job.kind = "idle" THEN UNCHANGED <<job, result>> ELSE Return("FL_FX2_ERR")
    /\ transfer' = NoTransfer
    /\ ram' = [a \in DOMAIN ram |-> IF Boots /\ a \in DOMAIN BootMemory THEN BootMemory[a] ELSE 0]
    /\ cpu' = IF Boots THEN "running" ELSE "held"
    /\ runs' = holds
    /\ UNCHANGED <<eeprom, kept, jobs, holds, before>>

JobAsked ==
    \/ \E file \in Files : flFlashCustomFirmware(file) \/ flLoadCustomFirmware(file)
    \/ kept.format # "none" /\ (flFlashCustomFirmware(kept) \/ flLoadCustomFirmware(kept))
    \/ flSaveFirmware \/ ExportHex
JobStep ==
    \/ fx2WriteEEPROM \/ promWrite \/ BlockDone \/ fx2ReadEEPROM
    \/ HoldCpu \/ fx2WriteRAM \/ TransferFails
Next == JobAsked \/ JobStep \/ ReleaseCpu \/ PowerCycle

Spec == Init /\ [][Next]_vars

-----------------------------------------------------------------------------
(* Properties.                                                               *)

\* A flash that reported success, and met no refused page, boots what its file
\* was made from: every byte that is meant, zeros in the holes and nothing
\* else; also when the file was saved from another flash, or exported from that.
BootsTheImage ==
    holds.known =>
        /\ Boots
        /\ DOMAIN holds.at \subseteq DOMAIN BootMemory
        /\ \A a \in DOMAIN BootMemory :
               BootMemory[a] = IF a \in DOMAIN holds.at THEN holds.at[a] ELSE 0

\* However a flash that fits is going: what has been sent is in place up to the
\* packet the board is at, in both banks, and what is behind is as it was.
FlashLeavesTheRest ==
    job.kind \in {"flash", "sent"} /\ Len(job.bytes) <= EepromBytes =>
        LET sent == IF job.kind = "sent" THEN job.at + Min({Rest, BLOCK_SIZE}) ELSE job.at
            written == sent - Len(transfer.bytes)
        IN  /\ \A i \in written + 1 .. EepromBytes : eeprom[i] = before[i]
            /\ job.soiled \/ \A i \in 1 .. written : eeprom[i] = job.bytes[i]

\* The processor never runs firmware that is in its RAM only in part: not while
\* it is loaded, and not when the loading has failed half way.  What it boots from
\* an EEPROM that was half flashed when the power went is no known firmware, and
\* outside of this.
NeverRunsHalfLoaded ==
    cpu = "running" /\ runs.known => \A a \in DOMAIN runs.at : ram[a] = runs.at[a]
=============================================================================
