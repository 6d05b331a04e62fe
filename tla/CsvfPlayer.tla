----------------------------- MODULE CsvfPlayer -----------------------------
(***************************************************************************)
(* What is done over JTAG: csvfPlay, which plays a stream of CSVF,           *)
(* jtagScanChain, and a client of the public functions that shifts ones in.  *)
(* A stage that has no calls left is continued by the action of its name.    *)
(***************************************************************************)
EXTENDS ProgHost

CONSTANTS
    MaxTries,       \* attempts at a comparison: 32
    IdBytes,        \* bytes of an IDCODE: 4
    ArraySize       \* room for the codes of so many devices

VARIABLES
    player,         \* the locals of csvfPlay and jtagScanChain
    played          \* history: the scan, by number, of each one begun in this session

playerVars == <<player, played>>

\* todo: the rest of the stream; command: the one in progress; devices: the
\* codes read, the count of all that answered behind them.
Player(stream) ==
    [todo |-> stream, command |-> Command("XCOMPLETE", 0, <<>>, <<>>), xsdrSize |-> 0, xruntest |-> 0,
     tdoMask |-> <<>>, tries |-> 0, numDevices |-> 0, devices |-> <<>>]

PlayerInit == player = Player(<<>>) /\ played = <<>>

At(name) == stage = name /\ calls = <<>>

\* Begun with the stream of a file.
OpensJtag(stream) ==
    /\ player' = Player(stream) /\ played' = <<>>
    /\ calls' = progOpenInternal(session'.ports)
    /\ stage' = IF Len(Parsed(session'.ports)) = 4 THEN "opened" ELSE "bad config"
    /\ received' = <<>>

\* flMultiBitPortAccess, by a client of the public functions.
SetsPins ==
    /\ player' = Player(<<>>) /\ played' = <<>>
    /\ calls' = flMultiBitPortAccess(session'.pins)
    /\ stage' = IF Len(calls') = Len(session'.pins) THEN "closing" ELSE "bad config"
    /\ received' = <<>>

badConfig == At("bad config") /\ Ends("FL_CONF_FORMAT") /\ UNCHANGED <<playerVars, microVars>>

\* Reset and go to Run-Test/Idle to play, to Shift-DR to read what is there.
opened ==
    /\ At("opened")
    /\ IF session.kind = "play" THEN Goes("playing", <<jtagClockFSM(31, 6)>>)
                                ELSE Goes(session.kind, <<jtagClockFSM(95, 9)>>)
    /\ UNCHANGED <<playerVars, microVars>>

closing ==
    /\ At("closing")
    /\ Ends("FL_SUCCESS")
    /\ UNCHANGED <<playerVars, microVars>>

-----------------------------------------------------------------------------
(* csvfPlay.                                                                 *)

IdleClocks == IF player.xruntest # 0 THEN <<jtagClocks(player.xruntest)>> ELSE <<>>

\* Shift-IR and back to Run-Test/Idle.
PlaysIR(c) ==
    <<jtagClockFSM(3, 4)>> \o jtagShiftInOnly(c.n, Data(c.data), TRUE) \o <<jtagClockFSM(1, 2)>> \o IdleClocks

PlaysDR(c) ==
    <<jtagClockFSM(1, 3)>> \o jtagShiftInOnly(player.xsdrSize, Data(c.data), TRUE)
        \o <<jtagClockFSM(1, 2)>> \o IdleClocks

\* The way back leads through Pause-DR and once more through Shift-DR.
PlaysDRTDO(c) ==
    <<jtagClockFSM(1, 3)>> \o jtagShiftInOut(player.xsdrSize, Data(c.data), TRUE)
        \o <<jtagClockFSM(26, 6)>> \o IdleClocks

\* The numbers of the scans of a stream follow its shift commands.
NextScan == IF played = <<>> THEN 1 ELSE Last(played) + 1

\* A command that only sets a local.
csvfSet ==
    /\ At("playing") /\ player.todo # <<>>
    /\ LET c == Head(player.todo)
           rest == [player EXCEPT !.todo = Tail(@)]
       IN  /\ c.cmd \in {"XTDOMASK", "XRUNTEST", "XSDRSIZE"}
           /\ player' = CASE c.cmd = "XTDOMASK" -> [rest EXCEPT !.tdoMask = c.data]
                          [] c.cmd = "XRUNTEST" -> [rest EXCEPT !.xruntest = c.n]
                          [] c.cmd = "XSDRSIZE" -> [rest EXCEPT !.xsdrSize = c.n]
    /\ UNCHANGED <<hostVars, played, microVars>>

csvfShift ==
    /\ At("playing") /\ player.todo # <<>>
    /\ LET c == Head(player.todo)
       IN  /\ c.cmd \in Shifts
           /\ player' = [player EXCEPT !.todo = Tail(@), !.command = c, !.tries = 0]
           /\ CASE c.cmd = "XSIR" -> Goes("playing", PlaysIR(c))
                [] c.cmd = "XSDR" -> Goes("playing", PlaysDR(c))
                [] c.cmd = "XSDRTDO" -> Goes("comparing", PlaysDRTDO(c))
    /\ played' = Append(played, NextScan)
    /\ UNCHANGED microVars

\* Anything else is refused: a .csvf file is taken as it is.
csvfUnknown ==
    /\ At("playing") /\ player.todo # <<>>
    /\ Head(player.todo).cmd \notin Shifts \cup {"XTDOMASK", "XRUNTEST", "XSDRSIZE"}
    /\ Ends("FL_PROG_SVF_UNKNOWN_CMD")
    /\ UNCHANGED <<playerVars, microVars>>

\* Mutant: the pointer to the mask is not moved on.
tdoMatchFailedFirstMask(tdoData, tdoMask, tdoExpected, numBytes) ==
    \E i \in 1 .. numBytes, k \in 0 .. ByteBits - 1 :
        /\ (tdoMask[1] \div 2^k) % 2 = 1
        /\ (tdoData[i] \div 2^k) % 2 # (tdoExpected[i] \div 2^k) % 2

\* The masked bytes differ.
tdoMatchFailed(tdoData, tdoMask, tdoExpected, numBytes) ==
    \E i \in 1 .. numBytes, k \in 0 .. ByteBits - 1 :
        /\ (tdoMask[i] \div 2^k) % 2 = 1
        /\ (tdoData[i] \div 2^k) % 2 # (tdoExpected[i] \div 2^k) % 2

Mismatch == tdoMatchFailed(received, player.tdoMask, player.command.expected, bitsToBytes(player.xsdrSize))

\* An attempt is over.  The counter alone decides whether the last one failed.
csvfCompare ==
    /\ At("comparing")
    /\ LET i == player.tries + 1
       IN  /\ player' = [player EXCEPT !.tries = i]
           /\ \/ /\ Mismatch /\ i < MaxTries
                 /\ Goes("comparing", PlaysDRTDO(player.command))
                 /\ played' = Append(played, Last(played))
              \/ /\ ~Mismatch /\ i < MaxTries
                 /\ Goes("playing", <<>>)
                 /\ UNCHANGED played
              \/ /\ i = MaxTries
                 /\ Ends("FL_PROG_SVF_COMPARE")
                 /\ UNCHANGED played
    /\ UNCHANGED microVars

\* XCOMPLETE: jProgram closes the port.
csvfComplete ==
    /\ At("playing") /\ player.todo = <<>>
    /\ Goes("closing", progClose(session.ports))
    /\ UNCHANGED <<playerVars, microVars>>

-----------------------------------------------------------------------------
(* jtagScanChain.                                                            *)

AllZeros == Constant(0, IdBytes)
AllOnes == Constant(Ones, IdBytes)
ScanId == jtagShiftInOut(IdBytes * ByteBits, SHIFT_ZEROS, FALSE)

scanChain ==
    /\ At("scan")
    /\ \/ /\ received = <<>>                            \* the first time
          /\ Goes("scan", ScanId)
          /\ UNCHANGED player
       \/ /\ received \in {AllZeros, AllOnes}
          /\ Goes("closing", progClose(session.ports))
          /\ player' = [player EXCEPT !.devices = Reverse(@)]
       \/ /\ received \notin {<<>>, AllZeros, AllOnes}
          /\ Goes("scan", ScanId)
          /\ player' = [player EXCEPT !.numDevices = @ + 1,
                                      !.devices = IF Len(@) < ArraySize THEN Append(@, received) ELSE @]
    /\ UNCHANGED <<played, microVars>>

-----------------------------------------------------------------------------
(* A client of the public functions: ones through the data register.         *)

shiftsOnes ==
    /\ At("ones")
    /\ Goes("closing", jtagShiftInOnly(session.numBits, SHIFT_ONES, TRUE) \o <<jtagClockFSM(1, 2)>> \o progClose(session.ports))
    /\ UNCHANGED <<playerVars, microVars>>

playerStep ==
    \/ badConfig \/ opened \/ closing
    \/ csvfSet \/ csvfShift \/ csvfUnknown \/ csvfCompare \/ csvfComplete
    \/ scanChain \/ shiftsOnes
=============================================================================
