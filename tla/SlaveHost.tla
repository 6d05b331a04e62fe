----------------------------- MODULE SlaveHost ------------------------------
(***************************************************************************)
(* xProgram and aProgram: a configuration file into an FPGA over its         *)
(* programming pins.  The function polls INIT and DONE by USB calls; what    *)
(* the FPGA does between two of them is its own affair.                      *)
(***************************************************************************)
EXTENDS ProgHost

CONSTANTS
    MaxBlocks,      \* the block of zeros at which it gives up: 10
    BlockBytes      \* bytes of a block of zeros: 64

VARIABLE blocks     \* i: the blocks of zeros sent behind the file

SlaveInit == blocks = 0

Arrived(name) == stage = name /\ calls = <<>>
Keep == UNCHANGED <<blocks, microVars>>

-----------------------------------------------------------------------------
(* The bytes on the wires.                                                   *)

\* The table that moves bit k of a byte to place bitOrder[k].
makeLookup(bitOrder) ==
    [byte \in Byte |-> MapThenSumSet(LAMBDA k : ((byte \div 2^k) % 2) * 2^bitOrder[k], 0 .. ByteBits - 1)]

\* Serial: the firmware sends the low bit first, Xilinx wants the high one and
\* Altera the low one.  Parallel: the order is in the port configuration.
BitOrder ==
    CASE session.kind = "XP" -> session.dataBits
      [] session.kind = "XS" -> [k \in 0 .. ByteBits - 1 |-> ByteBits - 1 - k]
      [] session.kind = "AS" -> [k \in 0 .. ByteBits - 1 |-> k]

ProgOp == IF session.kind = "XP" THEN "PROG_PARALLEL" ELSE "PROG_SPI_SEND"

Written(bytes) ==
    LET lookupTable == makeLookup(BitOrder)
    IN  dataWrite(ProgOp, [i \in DOMAIN bytes |-> lookupTable[bytes[i]]])

-----------------------------------------------------------------------------
(* The pins of a configuration string: those the algorithm needs, then any   *)
(* further ones in brackets with what each is to be (populateMap).           *)

Roles(s) ==
    IF s.kind = "AS" THEN <<"PIN_LOW", "PIN_INPUT", "PIN_LOW", "PIN_LOW">>                  \* nCONFIG, DONE, DCLK, DATA
                     ELSE <<"PIN_LOW", "PIN_INPUT", "PIN_INPUT", "PIN_LOW", "PIN_LOW">>     \* PROG, INIT, DONE, CCLK, DATA

progPin(s) == s.ports[1]
initPin(s) == s.ports[2]
donePin(s) == s.ports[Len(s.ports) - 2]
cclkPin(s) == s.ports[Len(s.ports) - 1]
dataPin(s) == Last(s.ports)

pinMap(s) == [i \in DOMAIN s.ports |-> [pin |-> s.ports[i], config |-> Roles(s)[i]]] \o s.further
ParsesAll(s) ==
    LET pins == s.ports \o [i \in DOMAIN s.further |-> s.further[i].pin]
    IN  Len(s.ports) = Len(Roles(s)) /\ Parsed(pins) = pins

\* The clock and the data; then the choice, without which they are only noted.
Maps(s) == <<portMap("SCK", cclkPin(s)), portMap(IF s.kind = "XP" THEN "D8" ELSE "MOSI", dataPin(s)), chooseEngine>>

\* The pins that are configured and let go of: by port and bit, whatever their
\* place in the string.
Applied(s) ==
    LET kept == IF s.kind = "AS" THEN {progPin(s)} ELSE {progPin(s), initPin(s), donePin(s)}
        entries(pin) == {entry \in Range(pinMap(s)) : entry.pin = pin /\ pin \notin kept}
        applied(pin) == IF entries(pin) = {} THEN <<>> ELSE <<CHOOSE entry \in entries(pin) : TRUE>>
    IN  FlattenSeq([i \in DOMAIN PortPins |-> applied(PortPins[i])])

OutputPins == [i \in DOMAIN Applied(session) |-> flSingleBitPortAccess(Applied(session)[i].pin, Applied(session)[i].config)]
InputPins == [i \in DOMAIN Applied(session) |-> flSingleBitPortAccess(Applied(session)[i].pin, "PIN_INPUT")]

-----------------------------------------------------------------------------
(* xProgram.                                                                 *)

\* Nothing is done before the whole configuration string has been parsed.
OpensX ==
    /\ blocks' = 0 /\ received' = <<>>
    /\ LET s == session'
       IN  \/ /\ ParsesAll(s)
              /\ calls' = Maps(s) \o
                    <<flSingleBitPortAccess(initPin(s), "PIN_INPUT"), flSingleBitPortAccess(donePin(s), "PIN_INPUT"),
                      flSingleBitPortAccess(progPin(s), "PIN_LOW"), readPin(initPin(s)), readPin(donePin(s))>>
              /\ stage' = "clearing"
           \/ /\ ~ParsesAll(s)
              /\ calls' = <<>> /\ stage' = "bad string"

badString == Arrived("bad string") /\ Ends("FL_CONF_FORMAT") /\ Keep

Releases == <<flSingleBitPortAccess(progPin(session), "PIN_HIGH"), readPin(initPin(session))>>
ReadsBoth == <<readPin(initPin(session)), readPin(donePin(session))>>

\* Mutant: the pins are looked at, not waited for.
clearingAtOnce ==
    /\ Arrived("clearing")
    /\ Goes("starting", <<flSelectConduit>> \o OutputPins \o Releases)
    /\ Keep

\* Mutant: PROG is to be released when INIT is high.
clearingHeld ==
    /\ Arrived("clearing")
    /\ IF received = <<0, 0>> THEN Goes("starting", <<flSelectConduit>> \o OutputPins \o <<readPin(initPin(session))>>)
                              ELSE Goes("clearing", ReadsBoth)
    /\ Keep

\* Both low: the FPGA is cleared and PROG is released.
clearing ==
    /\ Arrived("clearing")
    /\ IF received = <<0, 0>>
       THEN Goes("starting", <<flSelectConduit>> \o OutputPins \o Releases)
       ELSE Goes("clearing", ReadsBoth)
    /\ Keep

starting ==
    /\ Arrived("starting")
    /\ IF received = <<1>>
       THEN Goes("checking", Written(session.file) \o ReadsBoth)
       ELSE Goes("starting", <<readPin(initPin(session))>>)
    /\ Keep

\* DONE, or more clocks while INIT is high, or an error.
checking ==
    /\ Arrived("checking")
    /\ LET init == received[1]
           done == received[2]
       IN  \/ /\ done = 1
              /\ Goes("releasing", InputPins)
              /\ UNCHANGED blocks
           \/ /\ done = 0 /\ init = 1 /\ blocks + 1 < MaxBlocks
              /\ Goes("checking", Written(Constant(0, BlockBytes)) \o ReadsBoth)
              /\ blocks' = blocks + 1
           \/ /\ done = 0 /\ (init = 0 \/ blocks + 1 = MaxBlocks)
              /\ Ends("FL_PROG_ERR")
              /\ UNCHANGED blocks
    /\ UNCHANGED microVars

releasing == Arrived("releasing") /\ Ends("FL_SUCCESS") /\ Keep

-----------------------------------------------------------------------------
(* aProgram.                                                                 *)

\* nCONFIG is low before the rest of the configuration string is parsed.
OpensA ==
    /\ blocks' = 0 /\ received' = <<>>
    /\ LET s == session'
           low == IF Parsed(s.ports) = <<>> THEN <<>> ELSE <<flSingleBitPortAccess(progPin(s), "PIN_LOW")>>
       IN  \/ /\ ParsesAll(s)
              /\ calls' = low \o Maps(s) \o <<flSelectConduit>> /\ stage' = "a opening"
           \/ /\ ~ParsesAll(s)
              /\ calls' = low /\ stage' = "bad string"

aOpening ==
    /\ Arrived("a opening")
    /\ Goes("a writing", OutputPins \o <<flSingleBitPortAccess(progPin(session), "PIN_INPUT")>>)
    /\ Keep

\* The file goes out at once, and CONF_DONE is looked at once.
aWriting ==
    /\ Arrived("a writing")
    /\ Goes("a checking", Written(session.file) \o <<readPin(donePin(session))>>)
    /\ Keep

aChecking ==
    /\ Arrived("a checking")
    /\ IF received = <<1>> THEN Goes("releasing", InputPins)
                           ELSE Ends("FL_PROG_ERR")
    /\ Keep

slaveStep ==
    \/ badString \/ clearing \/ starting \/ checking \/ releasing
    \/ aOpening \/ aWriting \/ aChecking
=============================================================================
