------------------------------ MODULE ProgHost ------------------------------
(***************************************************************************)
(* The host side of prog.c over its USB calls.  A function of the library is *)
(* the sequence of calls it makes; each is carried out together with the     *)
(* micro-controller, which may keep the host waiting.  What a session does   *)
(* between its calls is in CsvfPlayer and SlaveHost.                         *)
(***************************************************************************)
EXTENDS AvrFirmware

VARIABLES
    session,        \* what the user asked for
    stage,          \* where its function is
    calls,          \* the USB calls still to be made
    received,       \* what the calls of this stage read
    verdict         \* the status the function returned last

hostVars == <<session, stage, calls, received, verdict>>

-----------------------------------------------------------------------------
(* The calls, and the functions as sequences of calls.                       *)

Control(request) == [call |-> "control", request |-> request, keep |-> FALSE]
doSend(bytes) == [call |-> "send", bytes |-> bytes]
doReceive(count) == [call |-> "receive", count |-> count]

beginShift(count, progOp, isLast, sendOnes) ==
    Control([cmd |-> "CMD_PROG_CLOCK_DATA", count |-> count, op |-> progOp,
             flags |-> [isLast |-> isLast, sendOnes |-> sendOnes]])

portMap(line, pin) == Control([cmd |-> "CMD_PORT_MAP", line |-> line, pin |-> pin])
flSelectConduit == Control([cmd |-> "CMD_MODE_STATUS"])
flSingleBitPortAccess(pin, config) == Control([cmd |-> "CMD_PORT_BIT_IO", pin |-> pin, config |-> config])
readPin(pin) == [flSingleBitPortAccess(pin, "PIN_INPUT") EXCEPT !.keep = TRUE]

jtagClockFSM(bitPattern, transitionCount) ==
    Control([cmd |-> "CMD_JTAG_CLOCK_FSM", pattern |-> bitPattern, count |-> transitionCount])
jtagClocks(numClocks) == Control([cmd |-> "CMD_JTAG_CLOCK", count |-> numClocks])

\* Packets: full ones and what is left.
ChunkAt(len, i) == IF i * ENDPOINT_SIZE <= len THEN ENDPOINT_SIZE ELSE len % ENDPOINT_SIZE
Chunks(len) == (len + ENDPOINT_SIZE - 1) \div ENDPOINT_SIZE
ChunkOf(bytes, i) ==
    SubSeq(bytes, (i - 1) * ENDPOINT_SIZE + 1, (i - 1) * ENDPOINT_SIZE + ChunkAt(Len(bytes), i))
Sends(bytes) == [i \in 1 .. Chunks(Len(bytes)) |-> doSend(ChunkOf(bytes, i))]
Receives(len) == [i \in 1 .. Chunks(len) |-> doReceive(ChunkAt(len, i))]

\* Data to shift in: bytes, SHIFT_ZEROS or SHIFT_ONES.
Data(bytes) == [isSending |-> TRUE, ones |-> FALSE, bytes |-> bytes]
SHIFT_ZEROS == [isSending |-> FALSE, ones |-> FALSE, bytes |-> <<>>]
SHIFT_ONES == [isSending |-> FALSE, ones |-> TRUE, bytes |-> <<>>]

\* Sending and receiving alternate, packet by packet.
jtagShiftInOut(numBits, inData, isLast) ==
    LET sends == Sends(inData.bytes)
        receives == Receives(bitsToBytes(numBits))
    IN  IF inData.isSending
        THEN <<beginShift(numBits, "PROG_JTAG_ISSENDING_ISRECEIVING", isLast, FALSE)>>
                 \o FlattenSeq([i \in DOMAIN receives |-> <<sends[i], receives[i]>>])
        ELSE <<beginShift(numBits, "PROG_JTAG_NOTSENDING_ISRECEIVING", isLast, inData.ones)>> \o receives

jtagShiftInOnly(numBits, inData, isLast) ==
    IF inData.isSending
    THEN <<beginShift(numBits, "PROG_JTAG_ISSENDING_NOTRECEIVING", isLast, FALSE)>> \o Sends(inData.bytes)
    ELSE <<beginShift(numBits, "PROG_JTAG_NOTSENDING_NOTRECEIVING", isLast, inData.ones)>>

dataWrite(progOp, bytes) == <<beginShift(Len(bytes), progOp, FALSE, FALSE)>> \o Sends(bytes)

\* A port configuration is a sequence of pins, "?" for one that is malformed.
\* What is read of it: the pins up to one that is malformed or used before.
Parsed(ports) ==
    LET bad == {i \in DOMAIN ports : ports[i] = "?" \/ \E j \in 1 .. i - 1 : ports[j] = ports[i]}
    IN  IF bad = {} THEN ports ELSE SubSeq(ports, 1, Min(bad) - 1)

JtagLines == <<"MISO", "MOSI", "SS", "SCK">>
chooseEngine == portMap("CHOOSE", "none")

\* The four pins are parsed and mapped one by one: of a port configuration with
\* only some good pins those are mapped before the error is found.
progOpenInternal(ports) ==
    LET good == Parsed(ports)
        maps == [i \in DOMAIN good |-> portMap(JtagLines[i], good[i])]
    IN  IF Len(good) < 4 THEN maps
        ELSE Append(maps, chooseEngine) \o
             [i \in 1 .. 4 |-> flSingleBitPortAccess(ports[i], IF i = 1 THEN "PIN_INPUT" ELSE "PIN_LOW")]

progClose(ports) == [i \in 1 .. 4 |-> flSingleBitPortAccess(ports[i], "PIN_INPUT")]

\* Pins and what each is to be, one call for each until one is malformed.
flMultiBitPortAccess(config) ==
    LET bad == {i \in DOMAIN config : config[i].pin = "?"}
        good == IF bad = {} THEN config ELSE SubSeq(config, 1, Min(bad) - 1)
    IN  [i \in DOMAIN good |-> [flSingleBitPortAccess(good[i].pin, good[i].config) EXCEPT !.keep = TRUE]]

-----------------------------------------------------------------------------
(* Making a call.                                                            *)

Running == stage # "idle"
NextCall == Head(calls)
Stay == UNCHANGED <<session, stage, verdict>>

Ends(status) ==
    /\ verdict' = status /\ stage' = "idle" /\ calls' = <<>> /\ received' = <<>>
    /\ UNCHANGED session

\* The function goes on with other calls.
Goes(to, next) ==
    /\ stage' = to /\ calls' = next /\ received' = <<>>
    /\ UNCHANGED <<session, verdict>>

\* usbControlWrite and usbControlRead.  A request that is refused ends all.
usbControl ==
    /\ calls # <<>> /\ NextCall.call = "control"
    /\ LET request == NextCall.request
       IN  /\ vendorRequest(request)
           /\ \/ /\ Refuses(request)
                 /\ Ends(IF request.cmd = "CMD_PORT_MAP" THEN "FL_PROG_PORT_MAP" ELSE "FL_PORT_IO")
              \/ /\ ~Refuses(request)
                 /\ received' = IF NextCall.keep THEN Append(received, LevelOf(request.pin)) ELSE received
                 /\ calls' = Tail(calls)
                 /\ Stay

usbBulkWrite ==
    /\ calls # <<>> /\ NextCall.call = "send" /\ ep1out = NoPacket
    /\ ep1out' = NextCall.bytes
    /\ calls' = Tail(calls)
    /\ Stay
    /\ UNCHANGED <<received, m_progOp, m_numBits, m_flagByte, ep1in, wires, lines, driven, chain, fpga>>
    /\ UNCHANGED <<micro, selectVars>>

\* A packet that has not the length asked for is an error.
usbBulkRead ==
    /\ calls # <<>> /\ NextCall.call = "receive" /\ ep1in # NoPacket
    /\ \/ /\ Len(ep1in) = NextCall.count
          /\ received' = received \o ep1in
          /\ calls' = Tail(calls)
          /\ Stay
       \/ /\ Len(ep1in) # NextCall.count
          /\ Ends("FL_PROG_RECV")
    /\ ep1in' = NoPacket
    /\ UNCHANGED <<m_progOp, m_numBits, m_flagByte, ep1out, wires, lines, driven, chain, fpga>>
    /\ UNCHANGED <<micro, selectVars>>

\* The micro will not move before the host does.
MicroRests == m_progOp = "PROG_NOP" \/ WaitsForHost

\* The call is not answered within its time: nothing in the system moves.
TimesOut ==
    /\ calls # <<>> /\ MicroRests
    /\ \/ NextCall.call = "control" /\ m_progOp # "PROG_NOP"
       \/ NextCall.call = "send" /\ ep1out # NoPacket
       \/ NextCall.call = "receive" /\ ep1in = NoPacket
    /\ Ends("FL_USB_ERR")
    /\ UNCHANGED microVars

\* The host that the micro waits for has gone, or waits for the micro itself.
HostIsGone == calls # <<>> => NextCall.call = "control"

usbCall == usbControl \/ usbBulkWrite \/ usbBulkRead \/ TimesOut

\* The program is stopped in the middle of anything.
Killed ==
    /\ Running
    /\ Ends("killed")
    /\ UNCHANGED microVars
=============================================================================
