---------------------------- MODULE AvrFirmware -----------------------------
(***************************************************************************)
(* The firmware of the AVR where it does otherwise than that of the FX2: its *)
(* pins are those of one of two SPI engines, HW (hardware) and BB (bit-      *)
(* banged), which a session selects as a whole; CMD_JTAG_CLOCK gives exactly *)
(* the clocks asked for; a shift both ways does not wait for ever; and the   *)
(* data port is an output during a parallel stream only.                     *)
(*                                                                           *)
(* The shifts of prog_ops.h are those of ProgFirmware, a packet at a time.   *)
(* Their last byte goes bit by bit and their packet is acknowledged at the   *)
(* end, neither of which anything can see.  A shift one way of no bits would *)
(* wrap around; no file here has one.  EPP and USART are at the end.         *)
(***************************************************************************)
EXTENDS ProgFirmware

CONSTANTS HwPins, BbPins    \* the pin of each line in either engine (boards/minimus.h)

VARIABLES
    micro,                      \* which micro-controller there is: "fx2" or "avr"
    selectMask, selectBM        \* the lines mapped since the last choice, and the engines each fits

selectVars == <<selectMask, selectBM>>
microVars == <<firmwareVars, micro, selectVars>>

MicroInit(kind) == micro = kind /\ selectMask = {} /\ selectBM = {}

-----------------------------------------------------------------------------
(* The pins.                                                                 *)

EnginePins == [HW |-> HwPins, BB |-> BbPins]
Engines == DOMAIN EnginePins

Accommodates(engine) == selectMask \X {engine} \subseteq selectBM

\* A line is noted with the engines that have it at this pin; the choice falls
\* on an engine that has all the lines noted, and forgets them in any case.
progPortMap(line, pin) ==
    /\ \/ /\ line = "CHOOSE"
          /\ wires' = CASE Accommodates("HW") -> HwPins
                        [] ~Accommodates("HW") /\ Accommodates("BB") -> BbPins
                        [] OTHER -> wires
          /\ selectMask' = {} /\ selectBM' = {}
       \/ /\ line \in ShiftLines
          /\ selectMask' = selectMask \cup {line}
          /\ selectBM' = selectBM \cup ({line} \X {e \in Engines : EnginePins[e][line] = pin})
          /\ UNCHANGED wires
       \/ /\ line = "D8"
          /\ UNCHANGED <<wires, selectVars>>
    /\ UNCHANGED <<m_progOp, m_numBits, m_flagByte, lines, driven, chain, fpga>>

-----------------------------------------------------------------------------
(* The requests.                                                             *)

ProgClocks(numClocks) == Clocks(chain, Constant(<<lines.tms, lines.tdi>>, numClocks))

\* EVENT_USB_Device_ControlRequest
avrControlRequest(request) ==
    \/ /\ request.cmd \in {"CMD_JTAG_CLOCK_FSM", "CMD_PORT_BIT_IO", "CMD_MODE_STATUS"}
       /\ handleVendorCommand(request)
       /\ UNCHANGED selectVars
    \/ /\ request.cmd = "CMD_PROG_CLOCK_DATA"       \* nullFunc shifts nothing
       /\ handleVendorCommand(IF wires = NoWires THEN [request EXCEPT !.op = "PROG_NOP"] ELSE request)
       /\ UNCHANGED selectVars
    \/ /\ request.cmd = "CMD_JTAG_CLOCK" /\ m_progOp = "PROG_NOP"
       /\ chain' = ProgClocks(request.count)
       /\ UNCHANGED <<m_progOp, m_numBits, m_flagByte, ep1out, ep1in, wires, lines, driven, fpga, selectVars>>
    \/ /\ request.cmd = "CMD_PORT_MAP" /\ m_progOp = "PROG_NOP"
       /\ progPortMap(request.line, request.pin)
       /\ UNCHANGED <<ep1out, ep1in>>

\* A request, by whichever micro-controller there is.
vendorRequest(request) ==
    /\ IF micro = "avr" THEN avrControlRequest(request)
                        ELSE handleVendorCommand(request) /\ UNCHANGED selectVars
    /\ UNCHANGED micro

\* The request is answered with a stall: a pin of a port that the micro has not,
\* a choice that neither engine can accommodate.
Refuses(request) ==
    \/ request.cmd = "CMD_PORT_BIT_IO" /\ request.pin \notin Pins
    \/ /\ micro = "avr" /\ request.cmd = "CMD_PORT_MAP" /\ request.line = "CHOOSE"
       /\ \A e \in Engines : ~Accommodates(e)

-----------------------------------------------------------------------------
(* The shifts.                                                               *)

\* The data port is driven while bytes go out, and all inputs at the end.
ParSend ==
    /\ m_progOp = "PROG_PARALLEL"
    /\ ep1out # NoPacket
    /\ Streams(ep1out, driven \cup {"DATA"})
    /\ ep1out' = NoPacket
    /\ Shifted(Len(ep1out))
    /\ driven' = IF m_numBits = Len(ep1out) THEN driven \ {"DATA"} ELSE driven \cup {"DATA"}
    /\ UNCHANGED ep1in

\* A stream is waited for one second, and what comes of it is not looked at: of
\* a packet that does not come whatever is in the buffer is shifted, here zeros
\* or ones, and an answer that nobody fetches is dropped.
GivesUp ==
    /\ m_progOp = "PROG_JTAG_ISSENDING_ISRECEIVING"
    /\ ep1out = NoPacket \/ ep1in # NoPacket
    /\ \E junk \in 0 .. 1 :
          LET bits == IF ep1out # NoPacket THEN BitsOf(ep1out, bitsRead) ELSE Constant(junk, bitsRead)
          IN  /\ Clocked(bits)
              /\ ep1in' = IF ep1in = NoPacket THEN ReadBack(bits) ELSE ep1in
    /\ ep1out' = NoPacket
    /\ Shifted(bitsRead)

\* The others do to the pins and the packets what those of the FX2 do.
IsSendingIsReceiving == jtagIsSendingIsReceiving
IsSendingNotReceiving == jtagIsSendingNotReceiving
NotSendingIsReceiving == jtagNotSendingIsReceiving
NotSendingNotReceiving == jtagNotSendingNotReceiving
SerSend == m_progOp = "PROG_SPI_SEND" /\ doProgram

\* progShiftExecute, by way of the table of functions.
avrShiftExecute(hostIsGone) ==
    \/ IsSendingIsReceiving
    \/ IsSendingNotReceiving
    \/ NotSendingIsReceiving
    \/ NotSendingNotReceiving
    \/ SerSend
    \/ ParSend
    \/ hostIsGone /\ GivesUp

\* A turn of the main loop.
microExecutes(hostIsGone) ==
    /\ IF micro = "avr" THEN avrShiftExecute(hostIsGone) ELSE progShiftExecute
    /\ UNCHANGED <<micro, selectVars>>

-----------------------------------------------------------------------------
(* The conduits to the FPGA, EPP and USART: eppExecute and usartExecute take *)
(* messages from the packets alike, a byte to the FPGA at a time.            *)

\* phase: the byte that the message goes on with; writes: bytes with their
\* channel, reads: channels with their counts, as they reach the FPGA.
ConduitAtStart == [phase |-> "chan", chan |-> 0, count |-> 0, writes |-> <<>>, reads |-> <<>>, acked |-> FALSE]

IsReadByte(byte) == byte >= 2^(ByteBits - 1)
\* Counted down to zero behind the first byte: zero stands for all of them.
CountOf(high, low) ==
    LET count == high * 2^ByteBits + low IN IF count = 0 THEN 2^(2 * ByteBits) ELSE count

\* The next byte of a packet.  A read acknowledges the packet: the rest is lost.
ConduitTakes(conduit, byte) ==
    CASE conduit.acked -> conduit
      [] ~conduit.acked /\ conduit.phase = "chan" -> [conduit EXCEPT !.phase = "high", !.chan = byte]
      [] ~conduit.acked /\ conduit.phase = "high" -> [conduit EXCEPT !.phase = "low", !.count = byte]
      [] ~conduit.acked /\ conduit.phase = "low" ->
            LET count == CountOf(conduit.count, byte)
            IN  IF IsReadByte(conduit.chan)
                THEN [conduit EXCEPT !.phase = "chan", !.acked = TRUE,
                                     !.reads = Append(@, <<conduit.chan - 2^(ByteBits - 1), count>>)]
                ELSE [conduit EXCEPT !.phase = "data", !.count = count]
      [] ~conduit.acked /\ conduit.phase = "data" ->
            [conduit EXCEPT !.writes = Append(@, <<conduit.chan, byte>>), !.count = @ - 1,
                            !.phase = IF conduit.count = 1 THEN "chan" ELSE "data"]

ConduitExecutes(packets) ==
    LET packet(conduit, bytes) == FoldLeft(ConduitTakes, [conduit EXCEPT !.acked = FALSE], bytes)
    IN  FoldLeft(packet, ConduitAtStart, packets)

\* The packets of the answer to a read: a byte that finds the packet full sends
\* it, and the last one is sent whatever it holds.
AnswerPackets(count) ==
    LET put(sizes, i) == IF Last(sizes) = ENDPOINT_SIZE THEN Append(sizes, 1)
                         ELSE [sizes EXCEPT ![Len(sizes)] = @ + 1]
    IN  FoldLeft(put, <<0>>, [i \in 1 .. count |-> i])
=============================================================================
