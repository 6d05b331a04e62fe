--------------------------- MODULE MCJtagProgram ----------------------------
(***************************************************************************)
(* A model-checking instance of JtagProgram: bytes of two bits, packets of   *)
(* two bytes.                                                                *)
(***************************************************************************)
EXTENDS JtagProgram

\* No device, one, and two.
MCAnswers == {<<>>, <<1, 1, 0, 0>>, <<1, 0, 1, 1, 0, 1, 0, 1>>}

MCConfiguration == <<1, 2, 0>>
MCWiring == [XP |-> (0 :> 1 @@ 1 :> 0), XS |-> (0 :> 1 @@ 1 :> 0), AS |-> (0 :> 0 @@ 1 :> 1)]

\* A head before every data register, a scan that is longer than a packet and
\* compares a part of its bits, clocks behind it, then an instruction.
SvfFile == [format |-> "svf", source |-> <<
    Svf!Line("HDR", 1, <<1>>, <<>>, <<0>>),
    Svf!Line("SDR", 4, <<2, 1>>, <<1, 0>>, <<3, 0>>), Svf!RunTest(1),
    Svf!Line("SIR", 3, <<1, 1>>, <<>>, <<>>)>>]

\* A comparison, a long scan in two pieces, an instruction.
XsvfFile == [format |-> "xsvf", source |-> <<
    XSDRSIZE(3), XTDOMASK(<<1, 3>>), XSDRTDO(<<0, 3>>, <<0, 3>>),
    XSDRSIZE(2), Command("XSDRB", 0, <<1>>, <<>>), XSDRSIZE(3), Command("XSDRE", 0, <<1, 2>>, <<>>),
    XRUNTEST(2), XSIR(2, <<1>>)>>]

\* A scan that the player's buffers cannot hold, and a command it does not know.
LongFile == [format |-> "xsvf", source |-> <<XSDRSIZE(9), XTDOMASK(<<1, 0, 0, 0, 0>>),
    XSDRTDO(<<1, 1, 1, 1, 1>>, <<1, 1, 1, 1, 1>>)>>]
StrangeFile == [format |-> "csvf", source |-> <<XSIR(1, <<1>>), Command("XSTATE", 1, <<>>, <<>>)>>]

\* The AVR is that of a board whose engines have no pin in common.
MCHwPins == JtagWires
MCBbPins == [MISO |-> "INIT", MOSI |-> "DATA", SS |-> "LED", SCK |-> "CCLK"]

JtagPorts == <<"TDO", "TDI", "TMS", "TCK">>
XPorts == <<"PROG", "INIT", "DONE", "CCLK", "DATA">>
APorts == <<"PROG", "DONE", "CCLK", "DATA">>
Pin(pin, config) == [pin |-> pin, config |-> config]

Plays(file) == [kind |-> "play", file |-> file, ports |-> JtagPorts]
Scans(ports) == [kind |-> "scan", ports |-> ports]
Writes(kind, file) ==
    [kind |-> kind, file |-> file, dataBits |-> (0 :> 1 @@ 1 :> 0), further |-> <<>>,
     ports |-> IF kind = "AS" THEN APorts ELSE XPorts]

\* A pin that is malformed, one that is used before, one that the micro has not.
JtagSessions ==
    {Plays(f) : f \in {SvfFile, XsvfFile, LongFile, StrangeFile}}
    \cup {Scans(p) : p \in {<<"TDO", "TDI", "?", "TCK">>, <<"TDO", "TDI", "TMS", "Z9">>, JtagPorts}}
    \cup {[kind |-> "ones", numBits |-> 3, ports |-> JtagPorts]}
PinsOf(pin) ==
    [kind |-> "pins", pins |-> <<Pin("LED", "PIN_HIGH"), Pin("DONE", "PIN_INPUT"), Pin(pin, "PIN_LOW")>>]
WritesBoth(kind) == {Writes(kind, f) : f \in {MCConfiguration, <<1, 2, 3>>}}
Further(kind, pin) == [Writes(kind, MCConfiguration) EXCEPT !.further = <<Pin(pin, "PIN_HIGH")>>]

SharedSessions == {Plays(SvfFile), Scans(<<"TDO", "TDI", "TMS", "Z9">>), Scans(JtagPorts)}

MCSessions ==
    <<"fx2", "XP">> :> (JtagSessions \cup WritesBoth("XP") \cup {Further("XP", "LED"), Further("XP", "CCLK"), PinsOf("?")})
    @@ <<"fx2", "XS">> :> ({Plays(SvfFile), Scans(JtagPorts), PinsOf("LED")} \cup WritesBoth("XS"))
    @@ <<"fx2", "AS">> :> (SharedSessions \cup WritesBoth("AS") \cup {Further("AS", "LED"), Further("AS", "CCLK")})
    @@ <<"avr", "XP">> :> (SharedSessions \cup WritesBoth("XP"))
    @@ <<"avr", "AS">> :> (SharedSessions \cup WritesBoth("AS"))

-----------------------------------------------------------------------------
(* The two converters over many more files than are played: every stream     *)
(* asks of the chain what its file asks, scan by scan.                       *)

\* Registers of lengths that fill their bytes and that do not, fields given and
\* remembered, lengths that change, masks that are and are not written again.
SvfHeads == {<<>>, <<Svf!Line("HDR", 1, <<1>>, <<>>, <<0>>)>>, <<Svf!Line("HDR", 3, <<0, 1>>, <<1, 0>>, <<1, 1>>)>>}
SvfTails == {<<>>, <<Svf!Line("TDR", 3, <<1, 2>>, <<>>, <<1, 2>>)>>, <<Svf!Line("TDR", 2, <<2>>, <<>>, <<>>)>>}
SvfIrs == {<<>>, <<Svf!Line("HIR", 1, <<1>>, <<>>, <<>>), Svf!Line("TIR", 2, <<2>>, <<>>, <<>>)>>}
SvfBody ==
    {Svf!Line("SIR", 3, <<1, 1>>, <<>>, <<>>), Svf!Line("SDR", 3, <<1, 2>>, <<>>, <<1, 3>>),
     Svf!Line("SDR", 3, <<>>, <<0, 2>>, <<1, 1>>), Svf!Line("SDR", 3, <<>>, <<1, 2>>, <<>>),
     Svf!Line("SDR", 5, <<1, 2, 2>>, <<1, 0, 1>>, <<0, 0, 0>>), Svf!Line("SDR", 4, <<2, 2>>, <<1, 1>>, <<>>),
     Svf!RunTest(2), Svf!RunTest(1), Svf!Line("HDR", 0, <<>>, <<>>, <<>>)}
SvfPrograms ==
    {h \o t \o i \o b : h \in SvfHeads, t \in SvfTails, i \in SvfIrs, b \in SeqOf(SvfBody, 3)}

XsvfBody ==
    {<<XRUNTEST(0)>>, <<XRUNTEST(2)>>, <<XSIR(3, <<1, 2>>)>>, <<XSDRSIZE(3)>>, <<XSDRSIZE(4)>>,
     <<XTDOMASK(<<1, 2>>)>>, <<XTDOMASK(<<0, 0>>)>>, <<XSDR(<<1, 3>>)>>, <<XSDRTDO(<<1, 3>>, <<1, 1>>)>>,
     <<XSDRSIZE(2), Command("XSDRB", 0, <<1>>, <<>>), Command("XSDRC", 0, <<2>>, <<>>),
       XSDRSIZE(3), Command("XSDRE", 0, <<1, 2>>, <<>>)>>,
     <<XSDRSIZE(4), Command("XSDRB", 0, <<1, 2>>, <<>>), Command("XSDRE", 0, <<2, 1>>, <<>>)>>}
XsvfPrograms ==
    {<<XSDRSIZE(3), XTDOMASK(<<1, 1>>)>> \o FlattenSeq(b) : b \in SeqOf(XsvfBody, 3)}

\* A command brings the bytes of the size in force.
BytesFit(commands) ==
    \A i \in DOMAIN commands : commands[i].cmd \in {"XTDOMASK", "XSDR", "XSDRTDO"} =>
        LET size == Max({j \in 1 .. i : commands[j].cmd = "XSDRSIZE"})
        IN  Len(commands[i].data) = bitsToBytes(commands[size].n)

ASSUME SvfKeepsItsScans ==
    \A p \in SvfPrograms : Svf!RunTestsFollowScans(p) /\ Svf!MasksEndCleanly(p) =>
        ScansOf(Svf!flLoadSvfAndConvertToCsvf(p)) = Svf!ScansOfSvf(p)

ASSUME XsvfKeepsItsScans ==
    \A p \in XsvfPrograms : BytesFit(p) /\ Xsvf!PiecesFillTheirBytes(p) =>
        ScansOf(Xsvf!flLoadXsvfAndConvertToCsvf(p).csvf) = Xsvf!ScansOfXsvf(p)
-----------------------------------------------------------------------------
(* The conduits of the AVR: messages as libfpgalink sends them, a read at the *)
(* end of a transfer, in transfers that are cut anywhere and into packets,    *)
(* reach the FPGA as they were asked for, and answers fill their packets.     *)

Length(count) == <<(count \div 2^ByteBits) % 2^ByteBits, count % 2^ByteBits>>
WriteMessage(chan, data) == <<chan>> \o Length(Len(data)) \o data
ReadMessage(chan, count) == <<2^(ByteBits - 1) + chan>> \o Length(count)

ConduitData == {<<1>>, <<2, 3>>, Constant(3, 5), Constant(2, 16)}
Packed(bytes) == [i \in 1 .. Chunks(Len(bytes)) |-> ChunkOf(bytes, i)]

ASSUME ConduitsDoAsAsked ==
    /\ \A a \in ConduitData, b \in ConduitData \cup {<<>>}, count \in {1, 5, 16} :
          LET writes == WriteMessage(1, a) \o IF b = <<>> THEN <<>> ELSE WriteMessage(0, b)
              bytes == writes \o ReadMessage(1, count)
          IN  \A cut \in DOMAIN bytes :
                  LET packets == Packed(SubSeq(bytes, 1, cut)) \o Packed(SubSeq(bytes, cut + 1, Len(bytes)))
                      result == ConduitExecutes(packets \o Packed(writes))
                      bothWrites == [i \in DOMAIN a |-> <<1, a[i]>>] \o [i \in DOMAIN b |-> <<0, b[i]>>]
                  IN  /\ result.writes = bothWrites \o bothWrites
                      /\ result.reads = <<<<1, count>>>> /\ result.phase = "chan"
    /\ \A count \in 1 .. 2^(2 * ByteBits) : AnswerPackets(count) = [i \in 1 .. Chunks(count) |-> ChunkAt(count, i)]
-----------------------------------------------------------------------------
(* The vectors of the unit tests of the library, with bytes of eight bits:   *)
(* what testSvf2Csvf.cpp expects of the code, asked of the model of it.      *)

Svf8 == INSTANCE SvfCompiler WITH ByteBits <- 8

testShift(line, lineBits, head, headBits, tail, tailBits, expected) ==
    Svf8!headTail(line, head, tail, lineBits, headBits, tailBits) = expected

\* The heads that are put below each line, and the number of their bits.
TestHeads == <<
    <<<<\h00>>, 0>>, <<<<\h01>>, 1>>, <<<<\h02>>, 2>>, <<<<\h06>>, 3>>, <<<<\h0A>>, 4>>,
    <<<<\h15>>, 5>>, <<<<\h25>>, 6>>, <<<<\h75>>, 7>>, <<<<\hE5>>, 8>>, <<<<\h01, \h15>>, 9>>,
    <<<<\h03, \h15>>, 10>>, <<<<\h07, \h15>>, 11>>, <<<<\h0C, \h15>>, 12>>, <<<<\h1C, \h15>>, 13>>,
    <<<<\h2C, \h15>>, 14>>, <<<<\h40, \h15>>, 15>>, <<<<\h80, \h15>>, 16>>,
    <<<<\h01, \h80, \h15>>, 17>>>>

testShifts(line, lineBits, tail, tailBits, expected) ==
    \A i \in DOMAIN TestHeads :
        testShift(line, lineBits, TestHeads[i][1], TestHeads[i][2], tail, tailBits, expected[i])

ShiftsTail3 == testShifts(<<\hF1, \hC2, \hE0, \h93>>, 32, <<\h06>>, 3, <<
    <<\h06, \hF1, \hC2, \hE0, \h93>>, <<\h0D, \hE3, \h85, \hC1, \h27>>,
    <<\h1B, \hC7, \h0B, \h82, \h4E>>, <<\h37, \h8E, \h17, \h04, \h9E>>,
    <<\h6F, \h1C, \h2E, \h09, \h3A>>, <<\hDE, \h38, \h5C, \h12, \h75>>,
    <<\h01, \hBC, \h70, \hB8, \h24, \hE5>>, <<\h03, \h78, \hE1, \h70, \h49, \hF5>>,
    <<\h06, \hF1, \hC2, \hE0, \h93, \hE5>>, <<\h0D, \hE3, \h85, \hC1, \h27, \h15>>,
    <<\h1B, \hC7, \h0B, \h82, \h4F, \h15>>, <<\h37, \h8E, \h17, \h04, \h9F, \h15>>,
    <<\h6F, \h1C, \h2E, \h09, \h3C, \h15>>, <<\hDE, \h38, \h5C, \h12, \h7C, \h15>>,
    <<\h01, \hBC, \h70, \hB8, \h24, \hEC, \h15>>, <<\h03, \h78, \hE1, \h70, \h49, \hC0, \h15>>,
    <<\h06, \hF1, \hC2, \hE0, \h93, \h80, \h15>>, <<\h0D, \hE3, \h85, \hC1, \h27, \h80, \h15>>>>)

ShiftsTail4 == testShifts(<<\hF1, \hC2, \hE0, \h93>>, 32, <<\h0A>>, 4, <<
    <<\h0A, \hF1, \hC2, \hE0, \h93>>, <<\h15, \hE3, \h85, \hC1, \h27>>,
    <<\h2B, \hC7, \h0B, \h82, \h4E>>, <<\h57, \h8E, \h17, \h04, \h9E>>,
    <<\hAF, \h1C, \h2E, \h09, \h3A>>, <<\h01, \h5E, \h38, \h5C, \h12, \h75>>,
    <<\h02, \hBC, \h70, \hB8, \h24, \hE5>>, <<\h05, \h78, \hE1, \h70, \h49, \hF5>>,
    <<\h0A, \hF1, \hC2, \hE0, \h93, \hE5>>, <<\h15, \hE3, \h85, \hC1, \h27, \h15>>,
    <<\h2B, \hC7, \h0B, \h82, \h4F, \h15>>, <<\h57, \h8E, \h17, \h04, \h9F, \h15>>,
    <<\hAF, \h1C, \h2E, \h09, \h3C, \h15>>, <<\h01, \h5E, \h38, \h5C, \h12, \h7C, \h15>>,
    <<\h02, \hBC, \h70, \hB8, \h24, \hEC, \h15>>, <<\h05, \h78, \hE1, \h70, \h49, \hC0, \h15>>,
    <<\h0A, \hF1, \hC2, \hE0, \h93, \h80, \h15>>, <<\h15, \hE3, \h85, \hC1, \h27, \h80, \h15>>>>)

ShiftsTail9 == testShifts(<<\hF1, \hC2, \hE0, \h93>>, 32, <<\h01, \h35>>, 9, <<
    <<\h01, \h35, \hF1, \hC2, \hE0, \h93>>, <<\h02, \h6B, \hE3, \h85, \hC1, \h27>>,
    <<\h04, \hD7, \hC7, \h0B, \h82, \h4E>>, <<\h09, \hAF, \h8E, \h17, \h04, \h9E>>,
    <<\h13, \h5F, \h1C, \h2E, \h09, \h3A>>, <<\h26, \hBE, \h38, \h5C, \h12, \h75>>,
    <<\h4D, \h7C, \h70, \hB8, \h24, \hE5>>, <<\h9A, \hF8, \hE1, \h70, \h49, \hF5>>,
    <<\h01, \h35, \hF1, \hC2, \hE0, \h93, \hE5>>, <<\h02, \h6B, \hE3, \h85, \hC1, \h27, \h15>>,
    <<\h04, \hD7, \hC7, \h0B, \h82, \h4F, \h15>>, <<\h09, \hAF, \h8E, \h17, \h04, \h9F, \h15>>,
    <<\h13, \h5F, \h1C, \h2E, \h09, \h3C, \h15>>, <<\h26, \hBE, \h38, \h5C, \h12, \h7C, \h15>>,
    <<\h4D, \h7C, \h70, \hB8, \h24, \hEC, \h15>>, <<\h9A, \hF8, \hE1, \h70, \h49, \hC0, \h15>>,
    <<\h01, \h35, \hF1, \hC2, \hE0, \h93, \h80, \h15>>,
    <<\h02, \h6B, \hE3, \h85, \hC1, \h27, \h80, \h15>>>>)

ShiftsUneven == testShifts(<<\h71, \hC2, \hE0, \h93>>, 31, <<\h01, \h35>>, 9, <<
    <<\h9A, \hF1, \hC2, \hE0, \h93>>, <<\h01, \h35, \hE3, \h85, \hC1, \h27>>,
    <<\h02, \h6B, \hC7, \h0B, \h82, \h4E>>, <<\h04, \hD7, \h8E, \h17, \h04, \h9E>>,
    <<\h09, \hAF, \h1C, \h2E, \h09, \h3A>>, <<\h13, \h5E, \h38, \h5C, \h12, \h75>>,
    <<\h26, \hBC, \h70, \hB8, \h24, \hE5>>, <<\h4D, \h78, \hE1, \h70, \h49, \hF5>>,
    <<\h9A, \hF1, \hC2, \hE0, \h93, \hE5>>, <<\h01, \h35, \hE3, \h85, \hC1, \h27, \h15>>,
    <<\h02, \h6B, \hC7, \h0B, \h82, \h4F, \h15>>, <<\h04, \hD7, \h8E, \h17, \h04, \h9F, \h15>>,
    <<\h09, \hAF, \h1C, \h2E, \h09, \h3C, \h15>>, <<\h13, \h5E, \h38, \h5C, \h12, \h7C, \h15>>,
    <<\h26, \hBC, \h70, \hB8, \h24, \hEC, \h15>>, <<\h4D, \h78, \hE1, \h70, \h49, \hC0, \h15>>,
    <<\h9A, \hF1, \hC2, \hE0, \h93, \h80, \h15>>, <<\h01, \h35, \hE3, \h85, \hC1, \h27, \h80, \h15>>>>)

ShiftsLong ==
    LET line == <<\h54, \h23, \hDF, \h3A, \h8F, \h12, \h9B, \h2C, \h91, \hB9, \h42, \h5D>>
    IN  /\ testShift(line, 95, <<>>, 0, <<\h01>>, 1,
                     <<\hD4, \h23, \hDF, \h3A, \h8F, \h12, \h9B, \h2C, \h91, \hB9, \h42, \h5D>>)
        /\ testShift(line, 95, <<\h01>>, 1, <<>>, 0,
                     <<\hA8, \h47, \hBE, \h75, \h1E, \h25, \h36, \h59, \h23, \h72, \h84, \hBB>>)

\* Three lines of one register: a text that is not given is remembered while
\* the length stays, and has its default afterwards.
ParseTest ==
    LET svf == <<Svf8!Line("HDR", 8, <<\hAA>>, <<>>, <<>>), Svf8!Line("HDR", 8, <<>>, <<>>, <<\h55>>),
                 Svf8!Line("HDR", 6, <<\h3A>>, <<>>, <<>>)>>
        heads == <<[numBits |-> 8, tdi |-> <<\hAA>>, tdo |-> <<0>>, mask |-> <<\hFF>>],
                   [numBits |-> 8, tdi |-> <<\hAA>>, tdo |-> <<0>>, mask |-> <<\h55>>],
                   [numBits |-> 6, tdi |-> <<\h3A>>, tdo |-> <<0>>, mask |-> <<\hFF>>]>>
    IN  \A n \in DOMAIN svf :
            FoldLeft(Svf8!parseLine, Svf8!cxtInitialise, SubSeq(svf, 1, n)).store
                = [Svf8!cxtInitialise.store EXCEPT !.HDR = heads[n]]

xruntest0 == XRUNTEST(0)
xruntest1 == XRUNTEST(10)
xruntest2 == XRUNTEST(10000)
xsir == XSIR(0, <<>>)
xsdr == XSDR(<<>>)
xsdrtdo == XSDRTDO(<<>>, <<>>)
xsdrsize == XSDRSIZE(0)
xtdomask == XTDOMASK(<<>>)

processIndexIs(src, exp) == Svf8!processIndex(src) = exp

\* Runs of clocks behind and between the scans of a whole device.
src0 == <<
    xsir, xsdrsize, xtdomask, xsdrtdo, xsir, xsdrtdo, xsir, xsdrtdo, xsir, xsir, xsdrtdo, xsir,
    xruntest1, xsir, xsir, xruntest2, xsir, xsdrsize, xsdr, xruntest1, xsir, xsdrsize, xsdr, xsdr,
    xsdr, xsdr, xsdr, xsdr, xsdr, xsdr, xsdr, xsdr>>

exp0 == <<
    xruntest0, xsir, xsdrsize, xtdomask, xsdrtdo, xsir, xsdrtdo, xsir, xsdrtdo, xsir, xsir, xsdrtdo,
    xruntest1, xsir, xruntest0, xsir, xruntest2, xsir, xruntest0, xsir, xruntest1, xsdrsize, xsdr,
    xruntest0, xsir, xsdrsize, xsdr, xsdr, xsdr, xsdr, xsdr, xsdr, xsdr, xsdr, xsdr, xsdr>>

IndexTestDevice == processIndexIs(src0, exp0)

\* None at all, at the end only, between two scans, behind a comparison.
IndexTestsShort ==
    /\ processIndexIs(<<xsir, xsdrsize, xsdr, xsdr>>,
                      <<xruntest0, xsir, xsdrsize, xsdr, xsdr>>)
    /\ processIndexIs(<<xsir, xsdrsize, xsdr, xsdr, xruntest1>>,
                      <<xruntest0, xsir, xsdrsize, xsdr, xruntest1, xsdr>>)
    /\ processIndexIs(<<xsir, xsdrsize, xsdr, xruntest1, xsdr>>,
                      <<xruntest0, xsir, xruntest1, xsdrsize, xsdr, xruntest0, xsdr>>)
    /\ processIndexIs(<<xsir, xsdrsize, xtdomask, xsdrtdo, xsdrsize, xsdr, xruntest1>>,
                      <<xruntest0, xsir, xsdrsize, xtdomask, xsdrtdo, xruntest1, xsdrsize, xsdr>>)

ASSUME TestVectorsHold ==
    /\ ShiftsTail3 /\ ShiftsTail4 /\ ShiftsTail9 /\ ShiftsUneven /\ ShiftsLong
    /\ ParseTest /\ IndexTestDevice /\ IndexTestsShort
=============================================================================
