---------------------------- MODULE XsvfCompiler ----------------------------
(***************************************************************************)
(* xsvf2csvf.c: an XSVF file to a CSVF stream.  The commands of XSVF have    *)
(* the form of CSVF's, with the bytes of their data in the other order; a    *)
(* scan may be cut into XSDRB, XSDRC and XSDRE.                              *)
(***************************************************************************)
EXTENDS CsvfFormat

CONSTANT BUF_SIZE       \* bytes of the player's buffers: 2048

xsvfStart ==
    [newXSize |-> 0, curXSize |-> 0, zeroMask |-> FALSE, totOffset |-> 0, csvf |-> <<>>, ok |-> TRUE]

\* The size is written when it differs from the one written last.
sendXSize(xc, always) ==
    IF always \/ xc.newXSize # xc.curXSize
    THEN [xc EXCEPT !.curXSize = xc.newXSize, !.csvf = Append(@, XSDRSIZE(xc.newXSize))]
    ELSE xc

Out(xc, c) == [xc EXCEPT !.csvf = Append(@, c)]
Refused(xc) == [xc EXCEPT !.ok = FALSE]

\* A mask of zeros is not written: the comparisons behind it become plain scans.
TdoMask(xc, c) ==
    LET sized == sendXSize(xc, FALSE)
        zero == \A i \in DOMAIN c.data : c.data[i] = 0
        masked == [sized EXCEPT !.zeroMask = zero]
    IN  IF zero THEN masked ELSE Out(masked, XTDOMASK(Reverse(c.data)))

SdrTdo(xc, c) ==
    LET sized == sendXSize(xc, FALSE)
    IN  CASE sized.zeroMask -> Out(sized, XSDR(Reverse(c.data)))
          [] ~sized.zeroMask /\ bitsToBytes(sized.curXSize) > BUF_SIZE -> Refused(sized)
          [] OTHER -> Out(sized, XSDRTDO(Reverse(c.data), Reverse(c.expected)))

\* XSDRB opens a scan; its XSDRSIZE is patched by the pieces that follow.
SdrBegin(xc, c) ==
    LET sized == sendXSize(xc, TRUE)
    IN  Out([sized EXCEPT !.totOffset = Len(sized.csvf)], XSDR(Reverse(c.data)))

SdrContinue(xc, c) ==
    LET total == xc.curXSize + xc.newXSize
        last == Len(xc.csvf)
    IN  [xc EXCEPT !.curXSize = total, !.csvf[xc.totOffset].n = total,
                   !.csvf[last].data = @ \o Reverse(c.data)]

xsvfSwapBytes(xc, c) ==
    CASE ~xc.ok -> xc
      [] c.cmd = "XTDOMASK" /\ xc.ok -> TdoMask(xc, c)
      [] c.cmd = "XSDRTDO" /\ xc.ok -> SdrTdo(xc, c)
      [] c.cmd = "XRUNTEST" /\ xc.ok -> Out(xc, XRUNTEST(c.n))
      [] c.cmd = "XSIR" /\ xc.ok -> Out(xc, XSIR(c.n, Reverse(c.data)))
      [] c.cmd = "XSDRSIZE" /\ xc.ok -> [xc EXCEPT !.newXSize = c.n]
      [] c.cmd = "XSDR" /\ xc.ok -> Out(sendXSize(xc, FALSE), XSDR(Reverse(c.data)))
      [] c.cmd = "XSDRB" /\ xc.ok -> SdrBegin(xc, c)
      [] c.cmd \in {"XSDRC", "XSDRE"} /\ xc.ok -> SdrContinue(xc, c)
      [] c.cmd \in {"XREPEAT", "XSTATE"} /\ xc.ok -> xc
      [] c.cmd \in {"XENDIR", "XENDDR"} /\ xc.ok -> IF c.n # 0 THEN Refused(xc) ELSE xc
      [] OTHER -> Refused(xc)

flLoadXsvfAndConvertToCsvf(commands) ==
    FoldLeft(xsvfSwapBytes, xsvfStart, commands)

-----------------------------------------------------------------------------
(* What the commands ask for: a piece of a scan lengthens it, a comparison   *)
(* is under the mask in force.                                               *)

ScansOfXsvf(commands) ==
    LET start == [size |-> 0, idle |-> 0, mask |-> <<>>, scans |-> <<>>]
        bits(p, c) == BitsOf(Reverse(c.data), p.size)
        add(p, scan) == [p EXCEPT !.scans = Append(@, scan)]
        play(p, c) ==
            CASE c.cmd = "XSDRSIZE" -> [p EXCEPT !.size = c.n]
              [] c.cmd = "XRUNTEST" -> [p EXCEPT !.idle = c.n]
              [] c.cmd = "XTDOMASK" -> [p EXCEPT !.mask = c.data]
              [] c.cmd = "XSIR" -> add(p, Scan("IR", BitsOf(Reverse(c.data), c.n), {}, p.idle))
              [] c.cmd \in {"XSDR", "XSDRB"} -> add(p, Scan("DR", bits(p, c), {}, p.idle))
              [] c.cmd \in {"XSDRC", "XSDRE"} ->
                    [p EXCEPT !.scans[Len(p.scans)].bits = @ \o bits(p, c)]
              [] c.cmd = "XSDRTDO" ->
                    add(p, Scan("DR", bits(p, c), Cares(Reverse(p.mask), Reverse(c.expected), p.size), p.idle))
              [] OTHER -> p
    IN  FoldLeft(play, start, commands).scans

\* Every piece of a scan but its last fills its bytes: the bytes are put
\* together, the bits of the last one would otherwise be in the wrong place.
PiecesFillTheirBytes(commands) ==
    \A i \in DOMAIN commands : commands[i].cmd \in {"XSDRB", "XSDRC"} =>
        ~\E j \in 1 .. i : /\ commands[j].cmd = "XSDRSIZE" /\ commands[j].n % ByteBits # 0
                           /\ \A k \in j + 1 .. i : commands[k].cmd # "XSDRSIZE"
=============================================================================
