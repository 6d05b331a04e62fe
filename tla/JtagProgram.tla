----------------------------- MODULE JtagProgram ----------------------------
(***************************************************************************)
(* The programmer as a whole: a host program that runs sessions of the       *)
(* library, one after the other, and may be stopped in the middle of one,    *)
(* the micro-controller, and the chain and the FPGA behind it.               *)
(***************************************************************************)
EXTENDS CsvfPlayer, SlaveHost

CONSTANTS
    BUF_SIZE,       \* bytes of the player's buffers: 2048
    Sessions,       \* what may be asked of the library, by micro-controller and board
    MaxSessions,    \* bound on the sessions
    MaxKills        \* bound on the sessions that are stopped

VARIABLES
    begun, kills,   \* counters for the bounds
    wanted,         \* history: the scans that the file of this session asks for
    left            \* history: what was left of other sessions when it began

Svf == INSTANCE SvfCompiler
Xsvf == INSTANCE XsvfCompiler

envVars == <<begun, kills, wanted, left>>
vars == <<microVars, hostVars, playerVars, blocks, envVars>>

NoSession == [kind |-> "none"]

-----------------------------------------------------------------------------
(* What may be asked: of the right kind, pins that exist, streams as the     *)
(* player reads them, and slave pins that are those of the board.            *)

Configs == {"PIN_HIGH", "PIN_LOW", "PIN_INPUT"}

StreamOf(file) ==
    CASE file.format = "svf" -> Svf!flLoadSvfAndConvertToCsvf(file.source)
      [] file.format = "xsvf" -> Xsvf!flLoadXsvfAndConvertToCsvf(file.source).csvf
      [] file.format = "csvf" -> file.source

IsConverted(file) == file.format = "xsvf" => Xsvf!flLoadXsvfAndConvertToCsvf(file.source).ok

\* The bytes of a command's data are counted by the size in force: before the
\* first XSDRSIZE of what is left, `size`.
Commands == [cmd : STRING, n : Nat, data : Seq(Byte), expected : Seq(Byte)]
SizedBy(stream, i, j) == stream[j].cmd = "XSDRSIZE" /\ \A k \in j + 1 .. i - 1 : stream[k].cmd # "XSDRSIZE"
Fits(size, stream) ==
    \A i \in DOMAIN stream :
        LET bytes == Len(stream[i].data)
        IN  /\ stream[i].cmd = "XSIR" => bytes = bitsToBytes(stream[i].n)
            /\ stream[i].cmd \in {"XSDR", "XSDRTDO"} =>
                  /\ \A j \in 1 .. i - 1 : SizedBy(stream, i, j) => bytes = bitsToBytes(stream[j].n)
                  /\ (\A j \in 1 .. i - 1 : stream[j].cmd # "XSDRSIZE") => bytes = bitsToBytes(size)

JtagSession(s) ==
    /\ s.ports \in Seq(STRING) /\ Len(s.ports) = 4
    /\ s.kind = "play" /\ IsConverted(s.file) => StreamOf(s.file) \in Seq(Commands) /\ Fits(0, StreamOf(s.file))

SlaveSession(s) ==
    /\ s.ports \in Seq(Pins \cup {"?"}) /\ s.further \in Seq([pin : Pins \cup {"?"}, config : Configs])
    /\ s.file \in Seq(Byte)
    /\ ParsesAll(s) => /\ progPin(s) = "PROG" /\ donePin(s) = "DONE"
                       /\ s.kind # "AS" => initPin(s) = "INIT"

ASSUME SessionsAssumption ==
    /\ Boards \subseteq {"XP", "XS", "AS"} /\ DOMAIN Sessions \subseteq {"fx2", "avr"} \X Boards
    /\ \A rig \in DOMAIN Sessions : \A s \in Sessions[rig] :
          \/ s.kind \in {"play", "scan", "ones"} /\ JtagSession(s)
          \/ s.kind = "pins" /\ s.pins \in Seq([pin : STRING, config : Configs])
          \/ s.kind = rig[2] /\ SlaveSession(s)

ASSUME LimitsAssumption == ENDPOINT_SIZE \in Nat \ {0} /\ IdBytes \in Nat \ {0} /\ BlockBytes \in Nat

Init ==
    /\ \E rig \in DOMAIN Sessions : MicroInit(rig[1]) /\ FirmwareInit(rig[2])
    /\ PlayerInit /\ SlaveInit
    /\ session = NoSession /\ stage = "idle" /\ calls = <<>> /\ received = <<>> /\ verdict = "none"
    /\ begun = 0 /\ kills = 0 /\ wanted = <<>> /\ left = {}

\* What may be asked of the library here.
Asked == Sessions[<<micro, fpga.board>>]

-----------------------------------------------------------------------------
(* flProgram: a file is converted by its extension, then played.             *)

\* A shift or a packet of a stopped session.
Soiled == left \cap {"shift", "packet"} # {}

\* What a file asks for, whatever is made of it.
ScansOfFile(file) ==
    CASE file.format = "svf" -> Svf!ScansOfSvf(file.source)
      [] file.format = "xsvf" -> Xsvf!ScansOfXsvf(file.source)
      [] file.format = "csvf" -> ScansOf(file.source)

\* The record of what the chain latched is begun anew with each session.
Begins(s) ==
    /\ stage = "idle" /\ begun < MaxSessions
    /\ session' = s /\ begun' = begun + 1
    /\ left' = (IF m_progOp # "PROG_NOP" THEN {"shift"} ELSE {})
                \cup (IF ep1out # NoPacket \/ ep1in # NoPacket THEN {"packet"} ELSE {})
                \cup (IF selectMask # {} THEN {"mapping"} ELSE {})
    /\ chain' = [chain EXCEPT !.done = <<>>]
    /\ UNCHANGED <<kills, m_progOp, m_numBits, m_flagByte, ep1out, ep1in, wires, lines, driven, fpga>>
    /\ UNCHANGED <<micro, selectVars>>

\* The file is read and converted before anything is sent.
flProgramJtag ==
    \E s \in Asked :
        /\ s.kind = "play"
        /\ Begins(s)
        /\ wanted' = ScansOfFile(s.file)
        /\ UNCHANGED blocks
        /\ \/ /\ IsConverted(s.file)
              /\ OpensJtag(StreamOf(s.file))
              /\ verdict' = "none"
           \/ /\ ~IsConverted(s.file)
              /\ verdict' = "FL_UNSUPPORTED_SIZE_ERR"
              /\ player' = Player(<<>>) /\ played' = <<>>
              /\ UNCHANGED <<stage, calls, received>>

flProgramSlave ==
    \E s \in {x \in Asked : x.kind \in Boards} :
        /\ Begins(s)
        /\ IF s.kind = "AS" THEN OpensA ELSE OpensX
        /\ player' = Player(<<>>) /\ played' = <<>>
        /\ verdict' = "none" /\ wanted' = <<>>

\* jtagScanChain, and a client of the other public functions.
opensPort ==
    \E s \in Asked :
        /\ s.kind \in {"scan", "ones", "pins"}
        /\ Begins(s)
        /\ IF s.kind = "pins" THEN SetsPins ELSE OpensJtag(<<>>)
        /\ verdict' = "none" /\ wanted' = <<>>
        /\ UNCHANGED blocks

begins == flProgramJtag \/ flProgramSlave \/ opensPort

-----------------------------------------------------------------------------
hostStep ==
    \/ usbCall /\ UNCHANGED <<playerVars, blocks, envVars>>
    \/ playerStep /\ UNCHANGED <<blocks, envVars>>
    \/ slaveStep /\ UNCHANGED <<playerVars, envVars>>

microStep == microExecutes(HostIsGone) /\ UNCHANGED <<hostVars, playerVars, blocks, envVars>>

fpgaStep ==
    /\ fpga' \in FpgaNext(fpga)
    /\ UNCHANGED <<m_progOp, m_numBits, m_flagByte, ep1out, ep1in, wires, lines, driven, chain>>
    /\ UNCHANGED <<micro, selectVars>>
    /\ UNCHANGED <<hostVars, playerVars, blocks, envVars>>

stopped ==
    /\ kills < MaxKills /\ kills' = kills + 1
    /\ Killed
    /\ UNCHANGED <<playerVars, blocks, begun, wanted, left>>

Finished == stage = "idle" /\ begun = MaxSessions /\ UNCHANGED vars

Next == begins \/ hostStep \/ microStep \/ fpgaStep \/ stopped \/ Finished

\* The host program runs, the loop of the micro-controller turns, and the FPGA
\* clears itself and gets ready.
Fairness == WF_vars(hostStep) /\ WF_vars(microStep) /\ WF_vars(fpgaStep)

Spec == Init /\ [][Next]_vars /\ Fairness

-----------------------------------------------------------------------------
(* Properties.                                                               *)

Packets == BoundedSeq(Byte, ENDPOINT_SIZE)

\* Types of the firmware's and the host's variables.  That m_numBits stays a
\* natural number is the point: the loops of the firmware end at zero only.
TypeOK ==
    /\ m_progOp \in ProgOps /\ m_numBits \in Nat /\ m_flagByte \in [isLast : BOOLEAN, sendOnes : BOOLEAN]
    /\ (m_progOp \in CountedOps => m_numBits > 0)
    /\ ep1out \in Packets /\ ep1in \in Packets
    /\ DOMAIN wires = ShiftLines /\ selectBM \subseteq selectMask \X Engines
    /\ lines \in [tms : 0 .. 1, tdi : 0 .. 1] /\ driven \subseteq Pins
    /\ chain.state \in TapStates /\ fpga.phase \in FpgaPhases
    /\ player.tries \in 0 .. MaxTries /\ blocks \in 0 .. MaxBlocks
    /\ (stage = "idle" => calls = <<>>)

\* Clocks in Run-Test/Idle asked for and given: the FX2 gives one more.
IdleOf(scan) == IF scan.idle = 0 \/ micro = "avr" THEN scan.idle ELSE scan.idle + 1

\* A comparison goes round by Shift-DR and latches one bit more.
CarriesOut(done, scan) ==
    /\ done.reg = scan.reg
    /\ Len(done.bits) = Len(scan.bits) + (IF scan.cares = {} THEN 0 ELSE 1)
    /\ SubSeq(done.bits, 1, Len(scan.bits)) = scan.bits

Agrees(done, scan) ==
    \A care \in scan.cares :
        (IF care[1] <= Len(done.answer) THEN done.answer[care[1]] ELSE 0) = care[2]

\* What the registers behind the chain have latched since the reset is what the
\* file asks for, scan by scan and in its order, with the clocks between; a scan
\* comes again only when the chain did not answer it as expected.  All of it has
\* been latched when the function returns success.  It holds from the file to
\* the pins: across the converter, the player, the packets and the firmware, and
\* after any session before that was stopped.
ChainSeesTheProgram ==
    played # <<>> =>
        LET done == chain.done
        IN  /\ Len(done) \in {Len(played) - 1, Len(played)}
            /\ played[1] = 1 /\ Last(played) <= Len(wanted)
            /\ \A k \in DOMAIN done :
                  LET scan == wanted[played[k]]
                  IN  /\ CarriesOut(done[k], scan)
                      /\ done[k].idle = IdleOf(scan) \/ (k = Len(played) /\ done[k].idle = 0 /\ verdict # "FL_SUCCESS")
                      /\ k < Len(played) =>
                            \/ played[k + 1] = played[k] + 1
                            \/ played[k + 1] = played[k] /\ (Soiled \/ ~Agrees(done[k], scan))
            /\ verdict = "FL_SUCCESS" => Last(played) = Len(wanted) /\ Len(done) = Len(played)

\* The last attempt at each comparison.
Settled(k) == k = Len(played) \/ played[k + 1] # played[k]

\* The codes in an answer of the chain, up to one of zeros or ones.
CodesOf(answer) ==
    LET width == IdBytes * ByteBits
        bit(i) == IF i <= Len(answer) THEN answer[i] ELSE 0
        code(i) == BytesOf([k \in 1 .. width |-> bit((i - 1) * width + k)])
        ends == {i \in 1 .. Len(answer) + 1 : code(i) \in {AllZeros, AllOnes}}
    IN  [i \in 1 .. Min(ends) - 1 |-> code(i)]

\* The pins of a session are those of an engine of the AVR.
FitsEngine(s, e) ==
    IF s.kind \in Boards
    THEN EnginePins[e]["SCK"] = cclkPin(s) /\ (s.kind = "XP" \/ EnginePins[e]["MOSI"] = dataPin(s))
    ELSE \A i \in 1 .. 4 : EnginePins[e][JtagLines[i]] = s.ports[i]

\* Success is only reported of a chain that has answered every comparison as
\* expected in the last attempt, a failed comparison only after all attempts but
\* the last were answered wrongly, and a scan returns the codes that the chain
\* gave.  A packet that a stopped session has left behind spoils this: each read
\* then returns the answer before (`Soiled').  And the pins of a session are only
\* refused when they are not those of one engine, or when a stopped session has
\* left some of its own noted.  (csvfPlay, jtagScanChain, progPortMap)
VerdictIsRight ==
    /\ verdict = "FL_PROG_PORT_MAP" /\ "mapping" \notin left =>
          \A e \in Engines : ~FitsEngine(session, e)
    /\ ~Soiled =>
        /\ session.kind = "play" /\ verdict = "FL_SUCCESS" =>
              \A k \in DOMAIN played : Settled(k) => Agrees(chain.done[k], wanted[played[k]])
        /\ verdict = "FL_PROG_SVF_COMPARE" =>
              \A k \in Len(played) - MaxTries + 1 .. Len(played) - 1 :
                  played[k] = Last(played) /\ ~Agrees(chain.done[k], wanted[played[k]])
        /\ session.kind = "scan" /\ verdict = "FL_SUCCESS" =>
              LET codes == CodesOf(chain.answer)
                  room == IF Len(codes) < ArraySize THEN Len(codes) ELSE ArraySize
              IN  player.numDevices = Len(codes) /\ player.devices = Reverse(SubSeq(codes, 1, room))

LetGo(s) ==
    IF s.kind \in Boards THEN {entry.pin : entry \in Range(pinMap(s))} \ {progPin(s)} ELSE Range(s.ports)

\* Success of xProgram or aProgram means that the FPGA has taken the whole
\* configuration, from the first byte after it was cleared, and runs; and every
\* session that succeeds lets go of its pins, all but PROG.
OkMeansConfigured ==
    verdict = "FL_SUCCESS" =>
        /\ session.kind \in Boards =>
              /\ fpga.phase = "running"
              /\ SubSeq(fpga.taken, 1, Len(Configuration)) = Configuration
        /\ session.kind # "pins" => driven \cap LetGo(session) = {}

\* Every session ends, with whatever status: also one that meets a firmware in
\* the middle of a shift that nobody will complete.
SessionEnds == Running ~> ~Running
=============================================================================
