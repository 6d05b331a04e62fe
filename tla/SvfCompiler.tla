---------------------------- MODULE SvfCompiler -----------------------------
(***************************************************************************)
(* svf2csvf.c: an SVF file to a CSVF stream.  A line is a record with the    *)
(* operation, the length in bits and the bytes of its hexadecimal texts,     *)
(* most significant first (<<>> for one that is not given); splitting the    *)
(* file into lines and lines into words is left out.                         *)
(***************************************************************************)
EXTENDS CsvfFormat

Line(op, len, tdi, tdo, mask) == [op |-> op, len |-> len, tdi |-> tdi, tdo |-> tdo, mask |-> mask]
RunTest(count) == Line("RUNTEST", count, <<>>, <<>>, <<>>)
Registers == {"HDR", "SDR", "TDR", "HIR", "SIR", "TIR"}

-----------------------------------------------------------------------------
(* Big-endian byte strings of some number of bits, as the buffers hold them. *)

shiftLeft(buffer, numBits, shiftCount) ==
    LET shiftBits == shiftCount % ByteBits
        insignificant == (ByteBits - (numBits % ByteBits)) % ByteBits
        n == Len(buffer)
        at(i) == IF i <= n THEN buffer[i] ELSE 0
        carry(i) == at(i) \div 2^(ByteBits - shiftBits)
        moved == IF n = 0 THEN <<0>> ELSE
                 (IF shiftBits > insignificant THEN <<carry(1)>> ELSE <<>>)
                     \o [i \in 1 .. n |-> ((at(i) * 2^shiftBits) % 2^ByteBits) + carry(i + 1)]
    IN  (IF shiftBits # 0 THEN moved ELSE buffer) \o Constant(0, shiftCount \div ByteBits)

\* The bits of two bytes taken together.
Or(a, b) ==
    LET bit(x, k) == (x \div 2^k) % 2
    IN  MapThenSumSet(LAMBDA k : 2^k, {k \in 0 .. ByteBits - 1 : bit(a, k) + bit(b, k) > 0})

\* The head goes below the data, the tail above it.
headTail(data, head, tail, dataBits, headBits, tailBits) ==
    LET shifted == shiftLeft(data, dataBits, headBits)
        first == Len(shifted) - Len(head)
        headed == [i \in DOMAIN shifted |-> IF i > first THEN Or(shifted[i], head[i - first]) ELSE shifted[i]]
        tailShift == (dataBits + headBits) % ByteBits
        aligned == IF tailShift # 0 THEN shiftLeft(tail, tailBits, tailShift) ELSE tail
        meet == IF bitsToBytes(dataBits + headBits + tailBits) = Len(headed) + Len(aligned)
                THEN Append(aligned, headed[1])
                ELSE Append(Front(aligned), Or(Last(aligned), headed[1]))
    IN  IF tailBits = 0 THEN headed ELSE meet \o Tail(headed)

-----------------------------------------------------------------------------
(* The parser.  store: what is remembered of the lines of each operation;    *)
(* curMask: the mask last put together, and whether it has been written.     *)

EmptyStore == [numBits |-> 0, tdi |-> <<>>, tdo |-> <<>>, mask |-> <<>>]

cxtInitialise ==
    [store |-> [op \in Registers |-> EmptyStore], curLength |-> 0,
     curMask |-> <<>>, newMaskWritten |-> FALSE, csvf |-> <<>>]

\* Data and mask are remembered until the length changes, expected data is not.
processLine(old, line) ==
    LET bytes == bitsToBytes(line.len)
        given(text, default) == IF text # <<>> THEN text ELSE default
        kept(value, byte) == IF old.numBits # line.len THEN Constant(byte, bytes) ELSE value
    IN  [numBits |-> line.len,
         tdi |-> given(line.tdi, kept(old.tdi, 0)),
         tdo |-> given(line.tdo, Constant(0, bytes)),
         mask |-> given(line.mask, kept(old.mask, 2^ByteBits - 1))]

\* Head, body and tail of one field of a register, put together.
WithEnds(store, head, body, tail, field) ==
    headTail(store[body][field], store[head][field], store[tail][field],
             store[body].numBits, store[head].numBits, store[tail].numBits)

Total(store, head, body, tail) ==
    store[body].numBits + store[head].numBits + store[tail].numBits

\* SIR: the length goes into one byte of eight bits.
ShiftInstruction(cxt) ==
    LET bytes == WithEnds(cxt.store, "HIR", "SIR", "TIR", "tdi")
    IN  [cxt EXCEPT !.csvf = Append(@, XSIR(Total(cxt.store, "HIR", "SIR", "TIR") % 2^8, Reverse(bytes)))]

\* SDR: size and mask are written when they change, the mask only when it is
\* needed, and a scan that compares nothing becomes a plain one.
ShiftData(cxt, line) ==
    LET size == Total(cxt.store, "HDR", "SDR", "TDR")
        joined(field) == WithEnds(cxt.store, "HDR", "SDR", "TDR", field)
        newMask == joined("mask")
        zeroMask == \A i \in DOMAIN newMask : newMask[i] = 0
        written == newMask = cxt.curMask /\ cxt.newMaskWritten
        compares == ~zeroMask /\ line.tdo # <<>>
        data == Reverse(joined("tdi"))
        expected == Reverse(joined("tdo"))
        sizing == IF size # cxt.curLength THEN <<XSDRSIZE(size)>> ELSE <<>>
        masking == IF compares /\ ~written THEN <<XTDOMASK(Reverse(newMask))>> ELSE <<>>
        shifting == IF compares THEN XSDRTDO(data, expected) ELSE XSDR(data)
    IN  [cxt EXCEPT !.curLength = size, !.curMask = newMask,
                    !.newMaskWritten = written \/ compares,
                    !.csvf = Append(@ \o sizing \o masking, shifting)]

parseLine(cxt, line) ==
    IF line.op = "RUNTEST" THEN [cxt EXCEPT !.csvf = Append(@, XRUNTEST(line.len))]
    ELSE LET read == [cxt EXCEPT !.store[line.op] = processLine(@, line)]
         IN  CASE line.op = "SDR" -> ShiftData(read, line)
               [] line.op = "SIR" -> ShiftInstruction(read)
               [] OTHER -> read

-----------------------------------------------------------------------------
(* In SVF the clocks follow the scan, in CSVF they are set before it: each   *)
(* XRUNTEST that follows a shift is moved in front of the commands up to     *)
(* that shift.                                                               *)

processIndex(src) ==
    LET start == [dst |-> <<>>, group |-> <<>>, shifted |-> FALSE, old |-> -1]
        \* The backlog goes out behind the number of clocks that belongs to it.
        flush(p, n) ==
            [dst |-> (IF n # p.old THEN Append(p.dst, XRUNTEST(n)) ELSE p.dst) \o p.group,
             group |-> <<>>, shifted |-> FALSE, old |-> n]
        collect(p, c) == [p EXCEPT !.group = Append(@, c), !.shifted = c.cmd \in Shifts]
        take(p, c) ==
            CASE ~p.shifted -> collect(p, c)
              [] p.shifted /\ c.cmd = "XRUNTEST" -> flush(p, c.n)
              [] OTHER -> collect(flush(p, 0), c)
        ended == FoldLeft(take, start, src)
    IN  IF ended.group = <<>> THEN ended.dst ELSE flush(ended, 0).dst

flLoadSvfAndConvertToCsvf(lines) == processIndex(FoldLeft(parseLine, cxtInitialise, lines).csvf)

-----------------------------------------------------------------------------
(* What the lines ask for, from what the comments of the parser promise.     *)

\* "The TDI & MASK values are remembered; the TDO value defaults to all zeros.
\* If the length changes, all remembered values are forgotten."
Text(lines, op, i, field) ==
    LET said(j) == lines[j].op = op /\ lines[j][field] # <<>>
        held(j) == \A k \in j .. i : lines[k].op = op => lines[k].len = lines[i].len
        giving == {j \in (IF field = "tdo" THEN {i} ELSE 1 .. i) : said(j) /\ held(j)}
    IN  IF giving = {} THEN <<>> ELSE lines[Max(giving)][field]

\* The bits of one part of a scan, first to be clocked first.
PartBits(lines, op, i, field) ==
    LET of == {j \in 1 .. i : lines[j].op = op}
        line == Max(of)
        text == Text(lines, op, line, field)
        default == IF field = "mask" THEN 1 ELSE 0
    IN  IF of = {} THEN <<>>
        ELSE IF text = <<>> THEN Constant(default, lines[line].len)
        ELSE BitsOf(Reverse(text), lines[line].len)

\* The scan of line i: head first, then the body, then the tail.
SvfScan(lines, i) ==
    LET reg == IF lines[i].op = "SDR" THEN "DR" ELSE "IR"
        part(kind, field) == PartBits(lines, kind \o reg, i, field)
        bits(field) == part("H", field) \o part("S", field) \o part("T", field)
        tdo == bits("tdo")
        mask == bits("mask")
        compares == reg = "DR" /\ lines[i].tdo # <<>>
        idle == IF i < Len(lines) /\ lines[i + 1].op = "RUNTEST" THEN lines[i + 1].len ELSE 0
    IN  Scan(reg, bits("tdi"), IF compares THEN {<<k, tdo[k]>> : k \in {b \in DOMAIN mask : mask[b] = 1}} ELSE {}, idle)

ScansOfSvf(lines) ==
    LET scanning == {i \in DOMAIN lines : lines[i].op \in {"SDR", "SIR"}}
        at == SetToSortSeq(scanning, <)
    IN  [k \in DOMAIN at |-> SvfScan(lines, at[k])]

\* A RUNTEST belongs to the scan right before it.  One that has none is played
\* after the scan that follows instead, and then after those behind it too.
RunTestsFollowScans(lines) ==
    \A i \in DOMAIN lines : lines[i].op = "RUNTEST" => i > 1 /\ lines[i - 1].op \in {"SDR", "SIR"}

\* The bits of a mask above its length are clear.  Those of the mask that is
\* assumed when none is given are not, and fall on the bits of its neighbour.
MasksEndCleanly(lines) ==
    \A i \in DOMAIN lines :
        lines[i].op \in {"HDR", "SDR", "TDR"} /\ lines[i].len % ByteBits # 0
            => Text(lines, lines[i].op, i, "mask") # <<>>
=============================================================================
