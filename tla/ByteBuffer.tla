----------------------------- MODULE ByteBuffer -----------------------------
(***************************************************************************)
(* The buffers of libbuffer: bytes that are appended or written anywhere, in *)
(* storage that doubles when they do not fit, and the two ways a buffer      *)
(* comes from and goes to a binary file.  An operation returns the buffer it *)
(* leaves and whether it succeeded.                                          *)
(***************************************************************************)
EXTENDS Integers, Sequences, FiniteSetsExt, SequencesExt

CONSTANTS
    MemoryBytes,    \* bytes an allocation may have
    HoleBytes       \* bytes of fill that make a hole of a mask: 8

Junk == "junk"      \* a byte that was allocated and not written

\* The storage of a buffer, of which the first length bytes are used; a buffer
\* without storage has the capacity it had, or was meant to have.
NoBuffer == [isAllocated |-> FALSE, storage |-> <<>>, capacity |-> 0, length |-> 0, fill |-> 0]
Done(buffer) == [buffer |-> buffer, ok |-> TRUE]
Failed(buffer) == [buffer |-> buffer, ok |-> FALSE]
Content(buffer) == SubSeq(buffer.storage, 1, buffer.length)

\* block in the place behind the first at bytes of storage.
Overwritten(storage, at, block) ==
    [i \in DOMAIN storage |-> IF i \in at + 1 .. at + Len(block) THEN block[i - at] ELSE storage[i]]
Bytes(byte, count) == [i \in 1 .. count |-> byte]

bufInitialise(initialSize, fill) ==
    IF initialSize > MemoryBytes THEN Failed([NoBuffer EXCEPT !.fill = fill])
    ELSE Done([isAllocated |-> TRUE, storage |-> Bytes(fill, initialSize), capacity |-> initialSize,
               length |-> 0, fill |-> fill])
bufDestroy(buffer) == NoBuffer

\* The copy gets storage of its own when it has none, or less than the source.
bufDeepCopy(dst, src) ==
    LET kept == dst.isAllocated /\ dst.capacity >= src.capacity
        capacity == IF kept THEN dst.capacity ELSE src.capacity
        storage == Content(src) \o Bytes(src.fill, capacity - src.length)
    IN  IF ~kept /\ src.capacity > MemoryBytes
        THEN Failed([IF dst.isAllocated THEN NoBuffer ELSE dst EXCEPT !.capacity = src.capacity])
        ELSE Done([isAllocated |-> TRUE, storage |-> storage, capacity |-> capacity,
                   length |-> src.length, fill |-> src.fill])
bufSwap(x, y) == <<y, x>>
bufZeroLength(buffer) == [buffer EXCEPT !.length = 0, !.storage = Bytes(buffer.fill, buffer.capacity)]

\* The capacity doubles at least once, until the block fits.  (The doubling of a
\* capacity of 0 does not end: no buffer that grows is initialised with 0.)
Doubled(capacity, blockEnd) == Min({c \in {capacity * 2^k : k \in 1 .. blockEnd} : c >= blockEnd})

\* What lies behind the block is filled; the place of the block is left as it is.
reallocate(buffer, blockEnd) ==
    LET newCapacity == Doubled(buffer.capacity, blockEnd)
        storage == [i \in 1 .. newCapacity |->
                        IF i > blockEnd THEN buffer.fill
                        ELSE IF i <= buffer.capacity THEN buffer.storage[i] ELSE Junk]
    IN  IF newCapacity > MemoryBytes THEN Failed(buffer)
        ELSE Done([buffer EXCEPT !.storage = storage, !.capacity = newCapacity])
ENSURE_CAPACITY(buffer, blockEnd) ==
    IF blockEnd > buffer.capacity THEN reallocate(buffer, blockEnd) ELSE Done(buffer)

\* The bytes of a word of n bytes, the low one first.
LittleEndian(word, n) == [i \in 1 .. n |-> (word \div 256^(i - 1)) % 256]
BigEndian(word, n) == Reverse(LittleEndian(word, n))

-----------------------------------------------------------------------------
(* Appending.                                                                *)

bufAppendBlock(buffer, block) ==
    LET blockEnd == buffer.length + Len(block)
        grown == ENSURE_CAPACITY(buffer, blockEnd)
    IN  IF ~grown.ok THEN grown
        ELSE Done([grown.buffer EXCEPT !.storage = Overwritten(@, buffer.length, block), !.length = blockEnd])
bufAppendByte(buffer, byte) == bufAppendBlock(buffer, <<byte>>)
bufAppendWordLE(buffer, word) == bufAppendBlock(buffer, LittleEndian(word, 2))
bufAppendWordBE(buffer, word) == bufAppendBlock(buffer, BigEndian(word, 2))
bufAppendLongLE(buffer, lword) == bufAppendBlock(buffer, LittleEndian(lword, 4))
bufAppendLongBE(buffer, lword) == bufAppendBlock(buffer, BigEndian(lword, 4))
bufAppendConst(buffer, value, count) == bufAppendBlock(buffer, Bytes(value, count))

-----------------------------------------------------------------------------
(* Writing anywhere.                                                         *)

\* Room for count bytes at bufAddress.  A block that begins behind the end has
\* the bytes in between filled.
maybeReallocate(buffer, bufAddress, count) ==
    LET blockEnd == bufAddress + count
        grown == ENSURE_CAPACITY(buffer, blockEnd)
        gap == Bytes(buffer.fill, Max({bufAddress - buffer.length, 0}))
    IN  IF bufAddress < buffer.length /\ blockEnd <= buffer.length THEN Done(buffer)
        ELSE IF ~grown.ok THEN grown
        ELSE Done([grown.buffer EXCEPT !.storage = Overwritten(@, buffer.length, gap), !.length = blockEnd])

bufWriteBlock(buffer, offset, block) ==
    LET room == maybeReallocate(buffer, offset, Len(block))
    IN  IF ~room.ok THEN room ELSE Done([room.buffer EXCEPT !.storage = Overwritten(@, offset, block)])
bufWriteByte(buffer, offset, byte) == bufWriteBlock(buffer, offset, <<byte>>)
bufWriteWordLE(buffer, offset, word) == bufWriteBlock(buffer, offset, LittleEndian(word, 2))
bufWriteWordBE(buffer, offset, word) == bufWriteBlock(buffer, offset, BigEndian(word, 2))
bufWriteLongLE(buffer, offset, lword) == bufWriteBlock(buffer, offset, LittleEndian(lword, 4))
bufWriteLongBE(buffer, offset, lword) == bufWriteBlock(buffer, offset, BigEndian(lword, 4))
bufWriteConst(buffer, offset, value, count) == bufWriteBlock(buffer, offset, Bytes(value, count))

-----------------------------------------------------------------------------
(* Files and masks.                                                          *)

\* A file of which the first delivered bytes could be read: room for all of it
\* is appended first, and stays when the rest cannot be read.
bufAppendFromBinaryFile(buffer, file, delivered) ==
    LET room == bufAppendConst(buffer, 0, Len(file))
        read == [room.buffer EXCEPT !.storage = Overwritten(@, buffer.length, SubSeq(file, 1, delivered))]
    IN  IF ~room.ok THEN room ELSE [buffer |-> read, ok |-> delivered = Len(file)]
bufWriteBinaryFile(buffer, bufAddress, count) == SubSeq(buffer.storage, bufAddress + 1, bufAddress + count)

\* The mask of a buffer that came without one: all of it but the long runs of
\* the fill.
bufDeriveMask(sourceData, destMask) ==
    LET all == bufAppendConst(bufZeroLength(destMask), 1, sourceData.length)
        filled(i) == sourceData.storage[i] = sourceData.fill
        inHole(i) == \E from, to \in 1 .. sourceData.length :
                        /\ i \in from .. to /\ to - from + 1 >= HoleBytes
                        /\ \A j \in from .. to : filled(j)
        masked == [i \in DOMAIN all.buffer.storage |->
                      IF i <= sourceData.length /\ inHole(i) THEN 0 ELSE all.buffer.storage[i]]
    IN  IF ~all.ok THEN all ELSE Done([all.buffer EXCEPT !.storage = masked])
=============================================================================
