------------------------------- MODULE AtmData -------------------------------
(***************************************************************************)
(* The data the ATM's main process handles: 64-bit words, their encrypted  *)
(* blocks, and the cache of the last customers                             *)
(* (src/frontend/atm_top_level.vhd).                                       *)
(*                                                                         *)
(* A word is its three fields: the user id (63..48), the PIN (47..32) and  *)
(* the low half (31..0), which is an amount, a balance or four note counts *)
(* depending on who reads it.                                              *)
(***************************************************************************)
EXTENDS Integers

CONSTANTS
    ByteRange,      \* values of a byte: 256
    PinRange,       \* values of the PIN field: 2^16
    Banks,          \* values of bank_id: 32
    CacheSize,      \* cache1 .. cache4
    GarbledWords    \* what deciphering a block nobody sealed may give

ASSUME ByteRangeAssumption == ByteRange \in Nat \ {0, 1}
ASSUME FieldAssumption == PinRange \in Nat \ {0} /\ Banks \in Nat \ {0}
ASSUME CacheSizeAssumption == CacheSize \in Nat \ {0, 1}

\* Values of a half word.
HalfRange == ByteRange * ByteRange * ByteRange * ByteRange

Word(uid, pin, low) == [uid |-> uid, pin |-> pin, low |-> low]

ZeroWord == Word(0, 0, 0)

\* Bits 63..32 as one number: who a request comes from, or the setup's total.
High(w) == w.uid * PinRange + w.pin

\* The bank that issued a card: bits 52..48, the low bits of the user id.
BankOf(w) == w.uid % Banks

\* The four bytes of the low half, as counts of the four kinds of note.
NotesOf(w) ==
    [k \in 1..4 |->
        CASE k = 1 -> w.low \div (ByteRange * ByteRange * ByteRange)
          [] k = 2 -> (w.low \div (ByteRange * ByteRange)) % ByteRange
          [] k = 3 -> (w.low \div ByteRange) % ByteRange
          [] k = 4 -> w.low % ByteRange]

-----------------------------------------------------------------------------
(* Encrypted blocks.  The cipher is taken to be perfect: a block opens to  *)
(* the word it was sealed from, and bytes of different blocks put together *)
(* open to something else.                                                 *)

Seal(w) == [sealed |-> w]

\* A block that no word was sealed into: all zero, or mixed.
Garbled == [garbled |-> TRUE]

Opens(block) == IF block = Garbled THEN GarbledWords ELSE {block.sealed}

Seals(w) == {Seal(w)}

\* The block that the received bytes make, each given by the block it is from.
Assemble(bytes) ==
    IF \A i, j \in DOMAIN bytes : bytes[i] = bytes[j] THEN bytes[1] ELSE Garbled

-----------------------------------------------------------------------------
(* The cache: the most recent customer first. *)

EmptyCache == [i \in 1..CacheSize |-> ZeroWord]

\* The first of the first n entries that is the user's; the last entry of all
\* when none is.
EntryOf(cache, uid, n) ==
    LET hits == {i \in 1..n : cache[i].uid = uid}
    IN  IF hits = {} THEN CacheSize ELSE CHOOSE i \in hits : \A j \in hits : i <= j

Cached(cache, uid) == \E i \in 1..CacheSize : cache[i].uid = uid

\* Mutant of MoveToFront: the entry at place p is not overwritten.
MoveBeforePlace(cache, p, w) ==
    [i \in 1..CacheSize |-> IF i = 1 THEN w
                            ELSE IF i < p THEN cache[i - 1]
                            ELSE cache[i]]

\* w becomes the first entry; the entries before place p move down by one and
\* the one at p is gone.
MoveToFront(cache, p, w) ==
    [i \in 1..CacheSize |-> IF i = 1 THEN w
                            ELSE IF i <= p THEN cache[i - 1]
                            ELSE cache[i]]

\* Mutant of MatchOf: the PIN is not compared.
MatchByCard(cache, w) == {i \in 1..CacheSize : cache[i].uid = w.uid}

\* The entry that a request made with the given card matches, user id and PIN.
MatchOf(cache, w) == {i \in 1..CacheSize : High(cache[i]) = High(w)}

\* Mutants of Rotate: the first entry stays first; the last entry stays last; the
\* balance goes to the entry that comes first.
RotateKeepsFirst(cache, balance) ==
    [i \in 1..CacheSize |->
        IF i = 1 THEN cache[1]
        ELSE IF i = 2 THEN [cache[1] EXCEPT !.low = balance]
        ELSE cache[i - 1]]

RotateKeepsLast(cache, balance) ==
    [i \in 1..CacheSize |->
        IF i \in {1, CacheSize} THEN cache[CacheSize]
        ELSE IF i = 2 THEN [cache[1] EXCEPT !.low = balance]
        ELSE cache[i - 1]]

RotateCredits(cache, balance) ==
    [i \in 1..CacheSize |-> IF i = 1 THEN [cache[CacheSize] EXCEPT !.low = balance]
                            ELSE cache[i - 1]]

\* One step of the synchronisation round: the entries move down by one, the
\* last comes first, and the one that was first takes its new balance.
Rotate(cache, balance) ==
    [i \in 1..CacheSize |->
        IF i = 1 THEN cache[CacheSize]
        ELSE IF i = 2 THEN [cache[1] EXCEPT !.low = balance]
        ELSE cache[i - 1]]

=============================================================================
