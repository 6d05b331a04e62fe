--------------------------- MODULE FirmwareImage ----------------------------
(***************************************************************************)
(* The firmware of the FX2 in the forms the host moves it between: the data  *)
(* and mask buffers of libbuffer, a file of Intel hex records (hexio.c), and *)
(* the records the chip boots from (i2c.c).  A buffer is the sequence of its *)
(* bytes, address a at place a + 1; its storage is the business of           *)
(* ByteBuffer.  The digits and checksums of a line are left out: a line that *)
(* fails them is "junk".                                                     *)
(***************************************************************************)
EXTENDS Integers, Sequences, FiniteSetsExt, SequencesExt

CONSTANTS
    SegmentBytes,       \* what the address of a hex record reaches: 2^16
    Paragraph,          \* the unit of a segment record: 16
    LineBytes,          \* data bytes of a line that is written
    MaxRecord           \* data bytes of one boot record: 1023

ASSUME ImageAssumption ==
    /\ {SegmentBytes, Paragraph, LineBytes, MaxRecord} \subseteq Nat \ {0}
    /\ SegmentBytes % Paragraph = 0

WordBE(n) == <<n \div 256, n % 256>>
Word(bytes, at) == bytes[at] * 256 + bytes[at + 1]
Empty == [data |-> <<>>, mask |-> <<>>]

\* A block may start behind the end: the bytes in between are filled up.
bufWriteBlock(buf, offset, block) ==
    LET end == offset + Len(block)
        at(i) == IF i <= Len(buf) THEN buf[i] ELSE 0
    IN  [i \in 1 .. Max({Len(buf), end}) |-> IF i \in offset + 1 .. end THEN block[i - offset] ELSE at(i)]

bufWriteConst(buf, offset, byte, count) == bufWriteBlock(buf, offset, [i \in 1 .. count |-> byte])

\* Data and mask written together, as both readers do.
Put(image, offset, block) ==
    [data |-> bufWriteBlock(image.data, offset, block),
     mask |-> bufWriteConst(image.mask, offset, 1, Len(block))]

-----------------------------------------------------------------------------
(* Intel hex.  at: the address of data, or the paragraph of a segment.       *)

Record(kind, at, bytes) == [kind |-> kind, at |-> at, bytes |-> bytes]
EofRecord == Record("eof", 0, <<>>)

bufProcessLine(reader, line) ==
    CASE line.kind = "data" -> [reader EXCEPT !.image = Put(@, reader.segment + line.at, line.bytes)]
      [] line.kind = "segment" -> [reader EXCEPT !.segment = line.at * Paragraph]
      [] line.kind = "eof" -> [reader EXCEPT !.state = "ended"]
      [] OTHER -> [reader EXCEPT !.state = "failed"]

\* A loop, for what takes no more than so many turns.
While(goes(_), step(_), start, turns) ==
    LET state[k \in 0 .. turns] ==
            IF k = 0 THEN start
            ELSE LET p == state[k - 1] IN IF goes(p) THEN step(p) ELSE p
    IN  state[turns]

\* Lines are read up to the end record, which must be there.
bufReadFromIntelHexFile(lines) ==
    LET start == [image |-> Empty, segment |-> 0, state |-> "reading", line |-> 1]
        goes(p) == p.state = "reading" /\ p.line <= Len(lines)
        step(p) == [bufProcessLine(p, lines[p.line]) EXCEPT !.line = @ + 1]
        read == While(goes, step, start, Len(lines))
    IN  [image |-> read.image, ok |-> read.state = "ended"]

\* A line holds the bytes of one run of the mask, of one segment, and no more
\* than its length; a segment record opens every segment but the first.  (The
\* refusal of an image above a megabyte is left out.)
bufWriteToIntelHexFile(image) ==
    LET n == Len(image.mask)
        set(a) == image.mask[a + 1] = 1
        runStart(a) == Max({b \in 0 .. a : /\ \A c \in b .. a : set(c)
                                           /\ b = 0 \/ b % SegmentBytes = 0 \/ ~set(b - 1)})
        opens(a) == set(a) /\ (a - runStart(a)) % LineBytes = 0
        last(a) == Max({b \in a .. Min({a + LineBytes, n}) - 1 : (\A c \in a .. b : set(c)) /\ runStart(b) = runStart(a)})
        segment(a) == IF a > 0 /\ a % SegmentBytes = 0 THEN <<Record("segment", a \div Paragraph, <<>>)>> ELSE <<>>
        line(a) == IF opens(a) THEN <<Record("data", a % SegmentBytes, SubSeq(image.data, a + 1, last(a) + 1))>> ELSE <<>>
    IN  Append(FlattenSeq([i \in 1 .. n |-> segment(i - 1) \o line(i - 1)]), EofRecord)

-----------------------------------------------------------------------------
(* The records of the EEPROM.                                                *)

\* A C2 load: the identity is not used, the last byte selects 400 kHz.
i2cInitialise == <<194, 0, 0, 0, 0, 0, 0, 1>>
\* The record that takes the chip out of reset.
i2cFinalise == <<128, 1, 230, 0, 0>>
HeaderBytes == 8

\* Mutant: every piece of a long chunk says where the chunk begins.
dumpChunkOneAddress(image, start, length) ==
    LET pieces == (length + MaxRecord - 1) \div MaxRecord
        from(k) == start + (k - 1) * MaxRecord
        size(k) == Min({MaxRecord, start + length - from(k)})
        byte(a) == IF image.mask[a + 1] = 0 THEN 0 ELSE image.data[a + 1]
        record(k) == WordBE(size(k)) \o WordBE(start) \o [i \in 1 .. size(k) |-> byte(from(k) + i - 1)]
    IN  FlattenSeq([k \in 1 .. pieces |-> record(k)])

\* Addresses start .. start + length - 1 as records; bytes outside the mask are zero.
dumpChunk(image, start, length) ==
    LET pieces == (length + MaxRecord - 1) \div MaxRecord
        from(k) == start + (k - 1) * MaxRecord
        size(k) == Min({MaxRecord, start + length - from(k)})
        byte(a) == IF image.mask[a + 1] = 0 THEN 0 ELSE image.data[a + 1]
        record(k) == WordBE(size(k)) \o WordBE(from(k)) \o [i \in 1 .. size(k) |-> byte(from(k) + i - 1)]
    IN  FlattenSeq([k \in 1 .. pieces |-> record(k)])

\* A chunk that began at start has been followed up to i: a hole of four bytes
\* ends it, a smaller one is included, and so is what is near the end.
i2cWritePromRecords(image) ==
    LET n == Len(image.data)
        first(bit, from) == Min({a \in from .. n - 1 : image.mask[a + 1] = bit} \cup {n})
        isHole(i) == \A k \in 1 .. 4 : image.mask[i + k] = 0
        goes(p) == p.i < n
        step(p) ==
            LET hole == first(0, p.i)
                dumped(end) == p.bytes \o dumpChunk(image, p.start, end - p.start)
                behind == first(1, hole + 4)
            IN  IF hole >= n - 4 THEN [start |-> n, i |-> n, bytes |-> dumped(n)]
                ELSE IF isHole(hole) THEN [start |-> behind, i |-> behind, bytes |-> dumped(hole)]
                ELSE [p EXCEPT !.i = first(1, hole)]
    IN  While(goes, step, [start |-> first(1, 0), i |-> first(1, 0), bytes |-> <<>>], n).bytes

\* What flFlashCustomFirmware makes of a hex image.
PromOf(image) == i2cInitialise \o i2cWritePromRecords(image) \o i2cFinalise

\* The records up to the one that starts the processor.
i2cReadPromRecords(source) ==
    LET length(at) == Word(source, at) % (MaxRecord + 1)
        goes(p) == p.at <= Len(source) /\ Word(source, p.at) < 32768
        step(p) == [at |-> p.at + 4 + length(p.at),
                    image |-> Put(p.image, Word(source, p.at + 2), SubSeq(source, p.at + 4, p.at + 3 + length(p.at)))]
    IN  IF Len(source) < HeaderBytes + 5 \/ source[1] # 194 THEN [image |-> Empty, ok |-> FALSE]
        ELSE [image |-> While(goes, step, [at |-> HeaderBytes + 1, image |-> Empty], Len(source)).image, ok |-> TRUE]

-----------------------------------------------------------------------------
(* What is meant: the byte of every address that is given.  Of a hex file,   *)
(* each address has the byte of the last line that covers it.                *)

MeantByHex(lines) ==
    LET end == Min({i \in DOMAIN lines : lines[i].kind = "eof"} \cup {Len(lines) + 1})
        base(i) == LET segments == {j \in 1 .. i : lines[j].kind = "segment"}
                   IN  IF segments = {} THEN 0 ELSE lines[Max(segments)].at * Paragraph
        covered(i) == IF lines[i].kind = "data" THEN {base(i) + lines[i].at + k : k \in 0 .. Len(lines[i].bytes) - 1} ELSE {}
        giver(a) == Max({i \in 1 .. end - 1 : a \in covered(i)})
    IN  [a \in UNION {covered(i) : i \in 1 .. end - 1} |->
            LET i == giver(a) IN lines[i].bytes[a - base(i) - lines[i].at + 1]]
=============================================================================
