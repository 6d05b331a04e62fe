----------------------------- MODULE CsvfFormat -----------------------------
(***************************************************************************)
(* The CSVF command stream of libfpgalink: what the two converters write and *)
(* csvfPlay reads.  A command is a record; the bytes of its data are little- *)
(* endian, the first bit to be clocked is the low bit of the first byte.     *)
(***************************************************************************)
EXTENDS Integers, Sequences, FiniteSetsExt, SequencesExt

CONSTANT ByteBits       \* bits of a byte: 8

ASSUME ByteAssumption == ByteBits \in Nat \ {0}

Byte == 0 .. 2^ByteBits - 1
Ones == 2^ByteBits - 1

\* The number of bytes necessary to store n bits.
bitsToBytes(n) == n \div ByteBits + (IF n % ByteBits # 0 THEN 1 ELSE 0)

Constant(byte, count) == [i \in 1 .. count |-> byte]

\* The first n bits of the bytes, in the order they are clocked.
BitsOf(bytes, n) ==
    [i \in 1 .. n |-> (bytes[(i - 1) \div ByteBits + 1] \div 2^((i - 1) % ByteBits)) % 2]

\* Bits collected into bytes, the last one filled up with zeros.
BytesOf(bits) ==
    LET bit(i) == IF i <= Len(bits) THEN bits[i] ELSE 0
    IN  [b \in 1 .. bitsToBytes(Len(bits)) |->
            MapThenSumSet(LAMBDA k : bit((b - 1) * ByteBits + k + 1) * 2^k, 0 .. ByteBits - 1)]

-----------------------------------------------------------------------------
\* n: a size, a count or a number of bits; data, expected: bytes to be clocked.
Command(cmd, n, data, expected) == [cmd |-> cmd, n |-> n, data |-> data, expected |-> expected]

XTDOMASK(mask) == Command("XTDOMASK", 0, mask, <<>>)
XSIR(n, data) == Command("XSIR", n, data, <<>>)
XSDR(data) == Command("XSDR", 0, data, <<>>)
XRUNTEST(n) == Command("XRUNTEST", n, <<>>, <<>>)
XSDRSIZE(n) == Command("XSDRSIZE", n, <<>>, <<>>)
XSDRTDO(data, expected) == Command("XSDRTDO", 0, data, expected)
Shifts == {"XSIR", "XSDR", "XSDRTDO"}

-----------------------------------------------------------------------------
(* What a stream asks of the chain, scan by scan, whatever plays it: the     *)
(* register, the bits, the masked bits expected back ({} for a scan that     *)
(* compares nothing) and the clocks in Run-Test/Idle that follow.            *)

Scan(reg, bits, cares, idle) == [reg |-> reg, bits |-> bits, cares |-> cares, idle |-> idle]

\* Places and values of the bits that are compared.
Cares(mask, expected, n) ==
    LET m == BitsOf(mask, n)  e == BitsOf(expected, n)
    IN  {<<i, e[i]>> : i \in {j \in 1 .. n : m[j] = 1}}

ScansOf(stream) ==
    LET start == [size |-> 0, idle |-> 0, mask |-> <<>>, scans |-> <<>>]
        add(p, scan) == [p EXCEPT !.scans = Append(@, scan)]
        play(p, c) ==
            CASE c.cmd = "XSDRSIZE" -> [p EXCEPT !.size = c.n]
              [] c.cmd = "XRUNTEST" -> [p EXCEPT !.idle = c.n]
              [] c.cmd = "XTDOMASK" -> [p EXCEPT !.mask = c.data]
              [] c.cmd = "XSIR" -> add(p, Scan("IR", BitsOf(c.data, c.n), {}, p.idle))
              [] c.cmd = "XSDR" -> add(p, Scan("DR", BitsOf(c.data, p.size), {}, p.idle))
              [] c.cmd = "XSDRTDO" ->
                    add(p, Scan("DR", BitsOf(c.data, p.size), Cares(p.mask, c.expected, p.size), p.idle))
              [] OTHER -> p
    IN  FoldLeft(play, start, stream).scans
=============================================================================
