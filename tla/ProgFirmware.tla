---------------------------- MODULE ProgFirmware ----------------------------
(***************************************************************************)
(* The programming side of the FX2 firmware: handleVendorCommand and         *)
(* mainLoop of app.c and the shifts of prog.c, with the two bulk endpoints   *)
(* EP1OUT and EP1IN of one packet each.  The main loop of the micro handles  *)
(* a request or runs mainLoop, never both: a shift that has been begun is    *)
(* finished before the next request is looked at.                            *)
(* Each shift action is one turn of the while loop over m_numBits.  What the *)
(* firmware of the AVR does otherwise is in AvrFirmware.                     *)
(***************************************************************************)
EXTENDS CsvfFormat, TapPort, SlaveFpga

CONSTANTS
    ENDPOINT_SIZE,      \* bytes of a packet: 64
    Answers             \* what the chain may capture: sequences of bits

VARIABLES
    m_progOp, m_numBits, m_flagByte,    \* the shift that was begun
    ep1out, ep1in,                      \* the packet in each endpoint, or NoPacket
    wires,                              \* the pin of each line that the shifts use
    lines,                              \* the levels of TMS and TDI
    driven,                             \* the pins the micro drives
    chain,                              \* what is behind them
    fpga                                \* an FPGA on the programming pins

firmwareVars == <<m_progOp, m_numBits, m_flagByte, ep1out, ep1in, wires, lines, driven, chain, fpga>>

JtagOps == {"PROG_JTAG_ISSENDING_ISRECEIVING", "PROG_JTAG_ISSENDING_NOTRECEIVING",
            "PROG_JTAG_NOTSENDING_ISRECEIVING", "PROG_JTAG_NOTSENDING_NOTRECEIVING"}
StreamOps == {"PROG_PARALLEL", "PROG_SPI_SEND"}
\* The loops over m_numBits, which are left at once when there is nothing to do.
CountedOps == (JtagOps \cup StreamOps) \ {"PROG_JTAG_NOTSENDING_NOTRECEIVING"}
ProgOps == JtagOps \cup StreamOps \cup {"PROG_NOP"}
\* The pins by what is behind them, in the order of the ports.
PortPins == <<"TDO", "TDI", "TMS", "TCK", "PROG", "INIT", "DONE", "CCLK", "DATA", "LED">>
Pins == Range(PortPins)
ShiftLines == {"MISO", "MOSI", "SS", "SCK"}
NoWires == [line \in ShiftLines |-> "none"]
JtagWires == [MISO |-> "TDO", MOSI |-> "TDI", SS |-> "TMS", SCK |-> "TCK"]
NoPacket == <<>>             \* no packet is empty
NoFlags == [isLast |-> FALSE, sendOnes |-> FALSE]

\* The chain may have been left anywhere: here in the middle of a scan.
FirmwareInit(board) ==
    /\ m_progOp = "PROG_NOP" /\ m_numBits = 0 /\ m_flagByte = NoFlags
    /\ ep1out = NoPacket /\ ep1in = NoPacket
    /\ lines = [tms |-> 0, tdi |-> 0]
    /\ wires = NoWires /\ driven = {}
    /\ chain = Chain("SHIFT_DR", <<>>)
    /\ fpga = FpgaAtStart(board)

-----------------------------------------------------------------------------
(* The lines.                                                                *)

\* The shifts reach the chain over its own pins only, once they are outputs.
OnChain == wires = JtagWires /\ {"TDI", "TMS", "TCK"} \subseteq driven
Clocks(ch, levels) == IF OnChain THEN ClockEdges(ch, levels) ELSE ch

\* A pattern of TMS levels, low bit first; TDI stays as it is.
progClockFSM(ch, bitPattern, transitionCount) ==
    Clocks(ch, [i \in 1 .. transitionCount |-> <<(bitPattern \div 2^(i - 1)) % 2, lines.tdi>>])

\* The counter is decremented behind the clock and the loop left when it has
\* passed zero, so there is one clock more than asked for.
progClocks(ch, numClocks) == Clocks(ch, Constant(<<lines.tms, lines.tdi>>, numClocks + 1))

\* Bits clocked into TDI with the bits seen on TDO; TMS rises for the last bit
\* of all when the shift is to leave the Shift state.
ShiftBits(ch, bits, leaves) ==
    LET tms(i) == IF leaves /\ i = Len(bits) THEN 1 ELSE lines.tms
        levels == [i \in DOMAIN bits |-> <<tms(i), bits[i]>>]
    IN  [chain |-> Clocks(ch, levels),
         tdo |-> [i \in DOMAIN bits |-> IF OnChain THEN TdoOf(Clocks(ch, SubSeq(levels, 1, i - 1))) ELSE 0]]

-----------------------------------------------------------------------------
(* The shifts.                                                               *)

progShiftBegin(numBits, progOp, flagByte) ==
    /\ m_numBits' = numBits
    /\ m_progOp' = IF numBits = 0 /\ progOp \in CountedOps THEN "PROG_NOP" ELSE progOp
    /\ m_flagByte' = flagByte

ChunkBits == ENDPOINT_SIZE * ByteBits
bitsRead == IF m_numBits >= ChunkBits THEN ChunkBits ELSE m_numBits
isFinal == bitsRead = m_numBits

\* Mutant: the last turn counts a whole packet too.
ShiftedWhole(count) ==
    /\ m_numBits' = m_numBits - ChunkBits
    /\ m_progOp' = IF m_numBits = count THEN "PROG_NOP" ELSE m_progOp
    /\ UNCHANGED <<m_flagByte, wires>>

\* One turn of a loop is over.
Shifted(count) ==
    /\ m_numBits' = m_numBits - count
    /\ m_progOp' = IF m_numBits = count THEN "PROG_NOP" ELSE m_progOp
    /\ UNCHANGED <<m_flagByte, wires>>

\* Mutant: TMS rises at the end of every packet.
LeavesEachTime == m_flagByte.isLast

\* The shift is to leave the Shift state, and does with its last packet.
Leaves == isFinal /\ m_flagByte.isLast

\* The bits through the chain, the levels the lines are left at.
Clocked(bits) ==
    /\ chain' = ShiftBits(chain, bits, Leaves).chain
    /\ lines' = [tms |-> IF Leaves THEN 1 ELSE lines.tms, tdi |-> Last(bits)]
    /\ UNCHANGED <<driven, fpga>>

ReadBack(bits) == BytesOf(ShiftBits(chain, bits, Leaves).tdo)

jtagIsSendingIsReceiving ==
    /\ m_progOp = "PROG_JTAG_ISSENDING_ISRECEIVING"
    /\ ep1out # NoPacket /\ ep1in = NoPacket
    /\ LET bits == BitsOf(ep1out, bitsRead)
       IN  /\ Clocked(bits)
           /\ ep1in' = ReadBack(bits)
    /\ ep1out' = NoPacket
    /\ Shifted(bitsRead)

jtagIsSendingNotReceiving ==
    /\ m_progOp = "PROG_JTAG_ISSENDING_NOTRECEIVING"
    /\ ep1out # NoPacket
    /\ Clocked(BitsOf(ep1out, bitsRead))
    /\ ep1out' = NoPacket
    /\ Shifted(bitsRead)
    /\ UNCHANGED ep1in

ConstantBits(count) == Constant(IF m_flagByte.sendOnes THEN 1 ELSE 0, count)

jtagNotSendingIsReceiving ==
    /\ m_progOp = "PROG_JTAG_NOTSENDING_ISRECEIVING"
    /\ ep1in = NoPacket
    /\ Clocked(ConstantBits(bitsRead))
    /\ ep1in' = ReadBack(ConstantBits(bitsRead))
    /\ Shifted(bitsRead)
    /\ UNCHANGED ep1out

\* The only shift that is not cut into chunks.  (Begun with no bits it would
\* clock 2^32 of them; no caller asks for that.)
jtagNotSendingNotReceiving ==
    LET result == ShiftBits(chain, ConstantBits(m_numBits), m_flagByte.isLast)
    IN  /\ m_progOp = "PROG_JTAG_NOTSENDING_NOTRECEIVING"
        /\ chain' = result.chain
        /\ lines' = [tms |-> IF m_flagByte.isLast THEN 1 ELSE lines.tms, tdi |-> Last(ConstantBits(1))]
        /\ m_progOp' = "PROG_NOP"
        /\ UNCHANGED <<m_numBits, m_flagByte, ep1out, ep1in, wires, driven, fpga>>

\* Bytes, bit by bit over MOSI or eight at a time over the data port, with the
\* clock on SCK: to the FPGA when its clock is there, to the chain when TCK is.
Streams(bytes, outputs) ==
    LET serial == m_progOp = "PROG_SPI_SEND"
        bits == BitsOf(bytes, Len(bytes) * ByteBits)
        levels == IF serial THEN bits ELSE Constant(lines.tdi, Len(bytes))
        reaches == wires.SCK = "CCLK" /\ {"CCLK", "DATA"} \subseteq outputs
                   /\ (serial => wires.MOSI = "DATA")
    IN  /\ fpga' = IF reaches THEN FpgaTakes(fpga, bytes) ELSE fpga
        /\ chain' = Clocks(chain, [i \in DOMAIN levels |-> <<lines.tms, levels[i]>>])
        /\ lines' = IF wires.MOSI = "TDI" THEN [lines EXCEPT !.tdi = Last(levels)] ELSE lines

\* Here m_numBits counts bytes, as many as the packet holds.
doProgram ==
    /\ m_progOp \in StreamOps
    /\ ep1out # NoPacket
    /\ Streams(ep1out, driven)
    /\ ep1out' = NoPacket
    /\ Shifted(Len(ep1out))
    /\ UNCHANGED <<ep1in, driven>>

\* mainLoop
progShiftExecute ==
    \/ jtagIsSendingIsReceiving
    \/ jtagIsSendingNotReceiving
    \/ jtagNotSendingIsReceiving
    \/ jtagNotSendingNotReceiving
    \/ doProgram

\* A shift that waits for the host: for a packet of data, or for room for one.
WaitsForHost ==
    \/ /\ m_progOp \in StreamOps \cup {"PROG_JTAG_ISSENDING_ISRECEIVING", "PROG_JTAG_ISSENDING_NOTRECEIVING"}
       /\ ep1out = NoPacket
    \/ /\ m_progOp \in {"PROG_JTAG_ISSENDING_ISRECEIVING", "PROG_JTAG_NOTSENDING_ISRECEIVING"}
       /\ ep1in # NoPacket

-----------------------------------------------------------------------------
(* The requests.                                                             *)

\* A pattern that passes Capture-DR makes the chain pick its answer there.
ClockFsm(bitPattern, transitionCount) ==
    LET after(answer) == progClockFSM([chain EXCEPT !.answer = answer], bitPattern, transitionCount)
    IN  /\ \E answer \in IF after(chain.answer).state = "SHIFT_DR" THEN Answers ELSE {chain.answer} :
               chain' = after(answer)
        /\ lines' = [lines EXCEPT !.tms = (bitPattern \div 2^(transitionCount - 1)) % 2]
        /\ UNCHANGED <<m_progOp, m_numBits, m_flagByte, wires, driven, fpga>>

\* CMD_PORT_BIT_IO: a pin becomes an input, or an output at a level.
portAccess(pin, config) ==
    /\ driven' = IF config = "PIN_INPUT" THEN driven \ {pin} ELSE driven \cup {pin}
    /\ lines' = CASE pin = "TMS" /\ config = "PIN_LOW" -> [lines EXCEPT !.tms = 0]
                  [] pin = "TDI" /\ config = "PIN_LOW" -> [lines EXCEPT !.tdi = 0]
                  [] OTHER -> lines
    /\ fpga' = IF pin = "PROG" THEN FpgaSeesProg(fpga, config) ELSE fpga
    /\ UNCHANGED <<m_progOp, m_numBits, m_flagByte, wires, chain>>

\* The level of a pin, as the reply to CMD_PORT_BIT_IO has it.
LevelOf(pin) == IF pin \in {"INIT", "DONE"} THEN FpgaPin(fpga, pin) ELSE 0

\* CMD_PORT_MAP: the instructions of a line are patched to another pin.  The
\* anchor CHOOSE is nothing to the FX2, and the data port is one to itself.
livePatch(line, pin) ==
    /\ wires' = IF line \in ShiftLines THEN [wires EXCEPT ![line] = pin] ELSE wires
    /\ UNCHANGED <<m_progOp, m_numBits, m_flagByte, lines, driven, chain, fpga>>

\* Requests are looked at between shifts only.  CMD_MODE_STATUS selects the FIFO
\* mode, which nothing here depends on; a pin that is not there is refused.
handleVendorCommand(request) ==
    /\ m_progOp = "PROG_NOP"
    /\ UNCHANGED <<ep1out, ep1in>>
    /\ \/ /\ request.cmd = "CMD_PROG_CLOCK_DATA"
          /\ progShiftBegin(request.count, request.op, request.flags)
          /\ UNCHANGED <<wires, lines, driven, chain, fpga>>
       \/ /\ request.cmd = "CMD_JTAG_CLOCK_FSM"
          /\ ClockFsm(request.pattern, request.count)
       \/ /\ request.cmd = "CMD_JTAG_CLOCK"
          /\ chain' = progClocks(chain, request.count)
          /\ UNCHANGED <<m_progOp, m_numBits, m_flagByte, wires, lines, driven, fpga>>
       \/ /\ request.cmd = "CMD_PORT_BIT_IO" /\ request.pin \in Pins
          /\ portAccess(request.pin, request.config)
       \/ /\ request.cmd = "CMD_PORT_MAP"
          /\ livePatch(request.line, request.pin)
       \/ /\ request.cmd = "CMD_MODE_STATUS" \/ (request.cmd = "CMD_PORT_BIT_IO" /\ request.pin \notin Pins)
          /\ UNCHANGED <<m_progOp, m_numBits, m_flagByte, wires, lines, driven, chain, fpga>>
=============================================================================
