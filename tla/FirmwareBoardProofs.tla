------------------------- MODULE FirmwareBoardProofs -------------------------
(***************************************************************************)
(* Proofs about the firmware of the FX2.  An image goes from its hex file    *)
(* into the records of the EEPROM, from there into a saved file and back     *)
(* into a hex file, and the boot loader reads the records: Shows says that   *)
(* an image has what is meant, Delivers that a sequence of bytes boots it,   *)
(* and each conversion is shown to keep it, for every image and every length *)
(* of a record.  BoardInv then follows the bytes of a flash, a save and a    *)
(* load through the transfers of FirmwareBoard.                              *)
(***************************************************************************)
EXTENDS FirmwareBoard, FiniteSetTheorems, SequenceTheorems, WellFoundedInduction, TLAPS

-----------------------------------------------------------------------------
(* Least and greatest elements, and loops.                                   *)

\* A set of numbers has a least one: what an induction rests on.
LEMMA Least ==
    ASSUME NEW T, T \subseteq Nat, T # {}
    PROVE  \E x \in T : \A y \in T : ~(y < x)
  <1> DEFINE below == OpToRel(<, Nat)
  <1>1. IsWellFoundedOn(below, Nat)
    BY NatLessThanWellFounded
  <1>2. \A x, y \in Nat : y < x => <<y, x>> \in below
    BY DEF OpToRel
  <1> HIDE DEF below
  <1>3. PICK x \in T : \A y \in T : <<y, x>> \notin below
    BY <1>1, WFMin
  <1> QED
    BY <1>2, <1>3

\* A set that has 0 and the successors of its members has all up to N.
LEMMA Counting ==
    ASSUME NEW N \in Nat, NEW T, 0 \in T, \A i \in 1 .. N : i - 1 \in T => i \in T
    PROVE  0 .. N \subseteq T
  <1> DEFINE missed == (0 .. N) \ T
  <1>1. SUFFICES ASSUME missed # {} PROVE FALSE
    OBVIOUS
  <1>2. PICK x \in missed : \A y \in missed : ~(y < x)
    <2>1. missed \subseteq Nat
      OBVIOUS
    <2> HIDE DEF missed
    <2> QED
      BY <1>1, <2>1, Least
  <1>3. x \in 1 .. N /\ x - 1 \in 0 .. N /\ x - 1 < x
    BY <1>2
  <1> QED
    BY <1>2, <1>3

\* What Min and Max choose, of numbers with a lower and an upper bound.
LEMMA MinIs ==
    ASSUME NEW T, T \subseteq Nat, T # {}
    PROVE  Min(T) \in T /\ \A y \in T : Min(T) <= y
  <1>1. PICK x \in T : \A y \in T : ~(y < x)
    BY Least
  <1>2. \A y \in T : x <= y
    BY <1>1
  <1> QED
    BY <1>1, <1>2 DEF Min

LEMMA MaxIs ==
    ASSUME NEW T, T \subseteq Nat, T # {}, NEW b \in Nat, \A y \in T : y <= b
    PROVE  Max(T) \in T /\ \A y \in T : y <= Max(T)
  <1> DEFINE far == {b - y : y \in T}
  <1>1. far \subseteq Nat /\ far # {}
    <2>1. \A y \in T : b - y \in Nat
      OBVIOUS
    <2>2. PICK y \in T : TRUE
      OBVIOUS
    <2>3. b - y \in far
      BY <2>2
    <2> QED
      BY <2>1, <2>3
  <1>2. PICK d \in far : \A y \in far : ~(y < d)
    <2> HIDE DEF far
    <2> QED
      BY <1>1, Least
  <1>3. PICK x \in T : d = b - x
    OBVIOUS
  <1>4. \A y \in T : y <= x
    <2> SUFFICES ASSUME NEW y \in T PROVE y <= x
      OBVIOUS
    <2>1. b - y \in far
      OBVIOUS
    <2>2. ~(b - y < b - x)
      BY <1>2, <1>3, <2>1
    <2>3. x \in Nat /\ y \in Nat
      OBVIOUS
    <2> QED
      BY <2>2, <2>3
  <1> QED
    BY <1>4 DEF Max

LEMMA MinOfTwo ==
    ASSUME NEW a \in Int, NEW b \in Int
    PROVE  Min({a, b}) = IF a <= b THEN a ELSE b
  BY DEF Min

LEMMA MaxOfTwo ==
    ASSUME NEW a \in Int, NEW b \in Int
    PROVE  Max({a, b}) = IF a >= b THEN a ELSE b
  BY DEF Max

\* The states that a loop goes through.
Turns(f, S, a, step, N) ==
    f \in [0 .. N -> S] /\ f[0] = a /\ \A n \in 1 .. N : f[n] = step[f[n - 1]]

LEMMA Iterates ==
    ASSUME NEW S, NEW a \in S, NEW step \in [S -> S], NEW N \in Nat
    PROVE  \E f : Turns(f, S, a, step, N)
  <1> DEFINE Good(m, f) == f[0] = a /\ \A n \in 1 .. m : f[n] = step[f[n - 1]]
             T == {m \in 0 .. N : \E f \in [0 .. m -> S] : Good(m, f)}
  <1>1. 0 \in T
    <2> DEFINE f == [n \in 0 .. 0 |-> a]
    <2>1. f \in [0 .. 0 -> S] /\ f[0] = a
      OBVIOUS
    <2> HIDE DEF f
    <2>2. Good(0, f)
      BY <2>1
    <2> QED
      BY <2>1, <2>2
  <1>2. ASSUME NEW m \in 1 .. N, m - 1 \in T PROVE m \in T
    <2>1. PICK f \in [0 .. m - 1 -> S] : Good(m - 1, f)
      BY <1>2
    <2> DEFINE g == [n \in 0 .. m |-> IF n = m THEN step[f[m - 1]] ELSE f[n]]
    <2>2. /\ m \in 0 .. N /\ m - 1 \in 0 .. m - 1 /\ 0 \in 0 .. m - 1
          /\ \A n \in 0 .. m : n # m => n \in 0 .. m - 1
          /\ \A n \in 1 .. m : n - 1 \in 0 .. m - 1 /\ (n # m => n \in 1 .. m - 1)
          /\ \A n \in 1 .. m : n - 1 \in 0 .. m /\ n - 1 # m
      OBVIOUS
    <2>3. g \in [0 .. m -> S]
      BY <2>2
    <2>4. g[m] = step[f[m - 1]] /\ \A n \in 0 .. m - 1 : g[n] = f[n]
      BY <2>2
    <2> HIDE DEF g
    <2>5. Good(m, g)
      BY <2>1, <2>2, <2>4
    <2> QED
      BY <2>2, <2>3, <2>5
  <1> HIDE DEF T
  <1>3. N \in T
    BY <1>1, <1>2, Counting
  <1> QED
    BY <1>3 DEF T, Turns

\* A loop whose state stays in S, and in which something grows up to a limit
\* with every turn, has come to its end when it has had turns enough.
Progresses(S, step, going, grown, limit) ==
    /\ step \in [S -> S] /\ grown \in [S -> Int] /\ limit \in Int
    /\ \A p \in S : p \notin going => step[p] = p
    /\ \A p \in S : p \in going => grown[p] < limit /\ grown[step[p]] > grown[p]

Ends(S, a, step, going, grown, limit, N) ==
    a \in S /\ N \in Nat /\ Progresses(S, step, going, grown, limit) /\ grown[a] + N >= limit

LEMMA LoopEnds ==
    ASSUME NEW S, NEW a, NEW step, NEW going, NEW grown, NEW limit, NEW N,
           Ends(S, a, step, going, grown, limit, N)
    PROVE  \E f : Turns(f, S, a, step, N) /\ f[N] \in S /\ f[N] \notin going
  <1> USE DEF Ends, Progresses
  <1>1. PICK f : Turns(f, S, a, step, N)
    BY Iterates
  <1>2. \A n \in 0 .. N : f[n] \in S
    BY <1>1 DEF Turns
  <1> DEFINE T == {n \in 0 .. N : f[n] \notin going \/ grown[f[n]] >= grown[a] + n}
  <1>3. 0 \in T
    <2>1. f[0] = a /\ grown[a] \in Int /\ 0 \in 0 .. N
      BY <1>1 DEF Turns
    <2> QED
      BY <2>1
  <1>4. ASSUME NEW n \in 1 .. N, n - 1 \in T PROVE n \in T
    <2>1. f[n] = step[f[n - 1]] /\ n - 1 \in 0 .. N /\ n \in 0 .. N
      BY <1>1 DEF Turns
    <2>2. f[n - 1] \in S /\ f[n] \in S
      BY <1>2, <2>1
    <2>3. CASE f[n - 1] \notin going
      <3>1. f[n] = f[n - 1]
        BY <2>1, <2>2, <2>3
      <3> QED
        BY <2>1, <2>3, <3>1
    <2>4. CASE f[n - 1] \in going
      <3>1. grown[f[n]] > grown[f[n - 1]] /\ grown[f[n - 1]] >= grown[a] + (n - 1)
        BY <1>4, <2>1, <2>2, <2>4
      <3>2. PICK x \in Int, y \in Int, z \in Int : x = grown[f[n]] /\ y = grown[f[n - 1]] /\ z = grown[a]
        BY <2>2
      <3>3. x >= z + n
        BY <3>1, <3>2
      <3> QED
        BY <2>1, <3>2, <3>3
    <2> QED
      BY <2>3, <2>4
  <1> HIDE DEF T
  <1>5. N \in T
    BY <1>3, <1>4, Counting
  <1>6. f[N] \notin going
    <2> SUFFICES ASSUME f[N] \in going PROVE FALSE
      OBVIOUS
    <2>1. f[N] \in S /\ grown[f[N]] < limit /\ grown[f[N]] \in Int /\ grown[a] \in Int
      BY <1>2
    <2>2. grown[f[N]] >= grown[a] + N
      BY <1>5 DEF T
    <2> QED
      BY <2>1, <2>2
  <1> QED
    BY <1>1, <1>2, <1>6

-----------------------------------------------------------------------------
(* Images.                                                                   *)

\* The two buffers of an image: as long as each other, with zeros in the holes.
Images ==
    {im \in [data : Seq(Nat), mask : Seq({0, 1})] :
        /\ Len(im.data) = Len(im.mask)
        /\ \A i \in 1 .. Len(im.mask) : im.mask[i] = 0 => im.data[i] = 0}

Covered(im) == {a \in 0 .. Len(im.mask) - 1 : im.mask[a + 1] = 1}

\* What a meaning says of an address: there are zeros in the holes.
ByteOf(at, a) == IF a \in DOMAIN at THEN at[a] ELSE 0

\* An image has what is meant, and nothing else that is not zero.
Shows(im, at) ==
    /\ DOMAIN at \subseteq Covered(im)
    /\ \A a \in Covered(im) : im.data[a + 1] = ByteOf(at, a)

\* core.c:463: the bytes of a buffer after a write, which may be behind its end.
LEMMA WriteBlock ==
    ASSUME NEW T, 0 \in T, NEW buf \in Seq(T), NEW off \in Nat, NEW block \in Seq(T)
    PROVE  LET out == bufWriteBlock(buf, off, block)
               end == off + Len(block)
           IN  /\ out \in Seq(T)
               /\ Len(out) = IF Len(buf) >= end THEN Len(buf) ELSE end
               /\ \A i \in 1 .. Len(out) :
                      out[i] = IF i > off /\ i <= end THEN block[i - off]
                               ELSE IF i <= Len(buf) THEN buf[i] ELSE 0
  <1> DEFINE end == off + Len(block)
             at(i) == IF i <= Len(buf) THEN buf[i] ELSE 0
             n == Max({Len(buf), end})
             m == IF Len(buf) >= end THEN Len(buf) ELSE end
             out == [i \in 1 .. m |-> IF i \in off + 1 .. end THEN block[i - off] ELSE at(i)]
  <1>1. end \in Nat /\ Len(buf) \in Nat /\ m \in Nat
    OBVIOUS
  <1>2. n = m
    BY <1>1, MaxOfTwo
  <1>3. bufWriteBlock(buf, off, block) = out
    BY <1>2 DEF bufWriteBlock
  <1>4. \A i \in 1 .. m : (IF i \in off + 1 .. end THEN block[i - off] ELSE at(i)) \in T
    OBVIOUS
  <1>5. out \in Seq(T) /\ Len(out) = m
    BY <1>1, <1>4
  <1>6. \A i \in 1 .. m : out[i] = IF i > off /\ i <= end THEN block[i - off] ELSE at(i)
    OBVIOUS
  <1> QED
    BY <1>3, <1>5, <1>6

\* hexio.c:164, i2c.c:193: data and mask written together.
LEMMA PutIs ==
    ASSUME NEW im \in Images, NEW off \in Nat, NEW block \in Seq(Nat)
    PROVE  LET out == Put(im, off, block)
               given == off .. off + Len(block) - 1
           IN  /\ out \in Images
               /\ Len(out.data) = IF Len(im.data) >= off + Len(block) THEN Len(im.data) ELSE off + Len(block)
               /\ Covered(out) = Covered(im) \cup given
               /\ \A a \in given : out.data[a + 1] = block[a - off + 1]
               /\ \A a \in Covered(im) \ given : out.data[a + 1] = im.data[a + 1]
  <1> DEFINE n == Len(block)
             ones == [i \in 1 .. n |-> 1]
             given == off .. off + n - 1
             d == bufWriteBlock(im.data, off, block)
             k == bufWriteBlock(im.mask, off, ones)
             out == Put(im, off, block)
             l == Len(im.data)
             m == IF l >= off + n THEN l ELSE off + n
  <1>1. /\ im.data \in Seq(Nat) /\ im.mask \in Seq({0, 1}) /\ l = Len(im.mask) /\ l \in Nat /\ n \in Nat
        /\ \A i \in 1 .. l : im.mask[i] = 0 => im.data[i] = 0
        /\ m \in Nat
    BY DEF Images
  <1>2. ones \in Seq({0, 1}) /\ Len(ones) = n
    BY <1>1
  <1>3. out = [data |-> d, mask |-> k]
    BY DEF Put, bufWriteConst
  <1>4. /\ d \in Seq(Nat) /\ Len(d) = m
        /\ \A i \in 1 .. m : d[i] = IF i > off /\ i <= off + n THEN block[i - off]
                                    ELSE IF i <= l THEN im.data[i] ELSE 0
    <2>1. 0 \in Nat
      OBVIOUS
    <2>2. /\ d \in Seq(Nat)
          /\ Len(d) = IF Len(im.data) >= off + Len(block) THEN Len(im.data) ELSE off + Len(block)
          /\ \A i \in 1 .. Len(d) :
                  d[i] = IF i > off /\ i <= off + Len(block) THEN block[i - off]
                         ELSE IF i <= Len(im.data) THEN im.data[i] ELSE 0
      <3> HIDE DEF m, n, l
      <3> QED
        BY <1>1, <2>1, WriteBlock
    <2> HIDE DEF d
    <2> QED
      BY <2>2
  <1>5. /\ k \in Seq({0, 1}) /\ Len(k) = m
        /\ \A i \in 1 .. m : k[i] = IF i > off /\ i <= off + n THEN ones[i - off]
                                    ELSE IF i <= l THEN im.mask[i] ELSE 0
    <2>1. 0 \in {0, 1}
      OBVIOUS
    <2>2. /\ k \in Seq({0, 1})
          /\ Len(k) = IF Len(im.mask) >= off + Len(ones) THEN Len(im.mask) ELSE off + Len(ones)
          /\ \A i \in 1 .. Len(k) :
                  k[i] = IF i > off /\ i <= off + Len(ones) THEN ones[i - off]
                         ELSE IF i <= Len(im.mask) THEN im.mask[i] ELSE 0
      <3> DEFINE bits == {0, 1}
      <3>1. 0 \in bits /\ im.mask \in Seq(bits) /\ ones \in Seq(bits)
        BY <1>1, <1>2
      <3> HIDE DEF ones, m, n, l, bits
      <3>2. /\ k \in Seq(bits)
            /\ Len(k) = IF Len(im.mask) >= off + Len(ones) THEN Len(im.mask) ELSE off + Len(ones)
            /\ \A i \in 1 .. Len(k) :
                  k[i] = IF i > off /\ i <= off + Len(ones) THEN ones[i - off]
                         ELSE IF i <= Len(im.mask) THEN im.mask[i] ELSE 0
        BY <3>1, WriteBlock
      <3> QED
        BY <3>2 DEF bits
    <2> HIDE DEF k, ones
    <2>3. Len(im.mask) = l /\ Len(ones) = n
      BY <1>1, <1>2
    <2>4. Len(k) = m
      BY <2>2, <2>3
    <2> HIDE DEF l, n, m
    <2> QED
      BY <2>2, <2>3, <2>4
  <1>6. \A i \in 1 .. m : k[i] = IF i > off /\ i <= off + n THEN 1 ELSE IF i <= l THEN im.mask[i] ELSE 0
    <2>1. \A i \in 1 .. n : ones[i] = 1
      OBVIOUS
    <2>2. \A i \in 1 .. m : i > off /\ i <= off + n => i - off \in 1 .. n
      BY <1>1
    <2> HIDE DEF ones, n, l
    <2> QED
      BY <1>5, <2>1, <2>2
  <1>m. m >= l /\ m >= off + n
    BY <1>1
  <1> HIDE DEF d, k, ones, out, m
  <1>7. out \in Images
    <2>1. out \in [data : Seq(Nat), mask : Seq({0, 1})]
      BY <1>3, <1>4, <1>5
    <2>2. ASSUME NEW i \in 1 .. m, k[i] = 0 PROVE d[i] = 0
      <3>1. ~(i > off /\ i <= off + n)
        BY <1>6, <2>2
      <3>2. CASE i <= l
        <4>1. im.mask[i] = 0 /\ d[i] = im.data[i]
          BY <1>4, <1>6, <2>2, <3>1, <3>2
        <4> QED
          BY <1>1, <3>2, <4>1
      <3>3. CASE ~(i <= l)
        BY <1>4, <3>1, <3>3
      <3> QED
        BY <3>2, <3>3
    <2> QED
      BY <1>3, <1>4, <1>5, <2>1, <2>2 DEF Images
  <1>8. Covered(out) = Covered(im) \cup given
    <2>1. Covered(out) = {a \in 0 .. m - 1 : k[a + 1] = 1}
      BY <1>3, <1>5 DEF Covered
    <2>2. Covered(im) = {a \in 0 .. l - 1 : im.mask[a + 1] = 1}
      BY <1>1 DEF Covered
    <2>3. \A a \in 0 .. m - 1 : k[a + 1] = IF a >= off /\ a < off + n THEN 1 ELSE IF a < l THEN im.mask[a + 1] ELSE 0
      <3> SUFFICES ASSUME NEW a \in 0 .. m - 1
                   PROVE  k[a + 1] = IF a >= off /\ a < off + n THEN 1 ELSE IF a < l THEN im.mask[a + 1] ELSE 0
        OBVIOUS
      <3>1. a + 1 \in 1 .. m
        BY <1>1
      <3>2. (a + 1 > off /\ a + 1 <= off + n) = (a >= off /\ a < off + n) /\ (a + 1 <= l) = (a < l)
        BY <1>1
      <3> HIDE DEF l, n
      <3> QED
        BY <1>6, <3>1, <3>2
    <2>4. 0 .. l - 1 \subseteq 0 .. m - 1 /\ given \subseteq 0 .. m - 1
      BY <1>1, <1>m
    <2>5. ASSUME NEW a \in Covered(out) PROVE a \in Covered(im) \cup given
      <3>1. a \in 0 .. m - 1 /\ k[a + 1] = 1
        BY <2>1
      <3>2. CASE a >= off /\ a < off + n
        BY <1>1, <3>1, <3>2
      <3>3. CASE ~(a >= off /\ a < off + n)
        <4>1. a < l /\ im.mask[a + 1] = 1
          BY <2>3, <3>1, <3>3
        <4> QED
          BY <2>2, <3>1, <4>1, <1>1
      <3> QED
        BY <3>2, <3>3
    <2>6. ASSUME NEW a \in Covered(im) \cup given PROVE a \in Covered(out)
      <3>1. a \in 0 .. m - 1
        BY <2>2, <2>4
      <3>2. CASE a \in given
        <4>1. a >= off /\ a < off + n
          BY <1>1, <3>2
        <4> QED
          BY <2>1, <2>3, <3>1, <4>1
      <3>3. CASE a \notin given
        <4>1. a < l /\ im.mask[a + 1] = 1 /\ ~(a >= off /\ a < off + n)
          BY <1>1, <2>2, <3>1, <3>3, <2>6
        <4> QED
          BY <2>1, <2>3, <3>1, <4>1
      <3> QED
        BY <3>2, <3>3
    <2> QED
      BY <2>5, <2>6
  <1>9. \A a \in given : out.data[a + 1] = block[a - off + 1]
    <2> SUFFICES ASSUME NEW a \in given PROVE d[a + 1] = block[a - off + 1]
      BY <1>3
    <2>1. a + 1 \in 1 .. m /\ a + 1 > off /\ a + 1 <= off + n /\ (a + 1) - off = a - off + 1
      BY <1>1, <1>m
    <2> HIDE DEF n, l, given
    <2> QED
      BY <1>4, <2>1
  <1>10. \A a \in Covered(im) \ given : out.data[a + 1] = im.data[a + 1]
    <2> SUFFICES ASSUME NEW a \in Covered(im) \ given PROVE d[a + 1] = im.data[a + 1]
      BY <1>3
    <2>1. a \in 0 .. l - 1
      BY <1>1 DEF Covered
    <2>2. a + 1 \in 1 .. m /\ ~(a + 1 > off /\ a + 1 <= off + n) /\ a + 1 <= l
      BY <1>1, <1>m, <2>1
    <2> HIDE DEF n, l, given
    <2> QED
      BY <1>4, <2>2
  <1>11. Len(out.data) = m
    BY <1>3, <1>4
  <1> HIDE DEF given
  <1>12. Len(out.data) = IF Len(im.data) >= off + Len(block) THEN Len(im.data) ELSE off + Len(block)
    BY <1>11 DEF m
  <1> QED
    BY <1>7, <1>8, <1>9, <1>10, <1>12 DEF out, given

-----------------------------------------------------------------------------
(* Reading hex records.                                                      *)

HexRecords == [kind : {"data", "segment", "eof", "junk"}, at : Nat, bytes : Seq(Nat)]

\* The operators of MeantByHex.
Base(lines, i) ==
    LET segments == {j \in 1 .. i : lines[j].kind = "segment"}
    IN  IF segments = {} THEN 0 ELSE lines[Max(segments)].at * Paragraph
GivenBy(lines, i) ==
    IF lines[i].kind = "data" THEN {Base(lines, i) + lines[i].at + k : k \in 0 .. Len(lines[i].bytes) - 1} ELSE {}
ByteGiven(lines, i, a) == lines[i].bytes[a - Base(lines, i) - lines[i].at + 1]
Plain(lines, i) == lines[i].kind \in {"data", "segment"}

\* The segment stays until there is another.
LEMMA BaseSteps ==
    ASSUME NEW lines \in Seq(HexRecords), NEW i \in 1 .. Len(lines), Paragraph \in Nat
    PROVE  /\ Base(lines, i) \in Nat /\ Base(lines, i - 1) \in Nat
           /\ lines[i].kind # "segment" => Base(lines, i) = Base(lines, i - 1)
           /\ lines[i].kind = "segment" => Base(lines, i) = lines[i].at * Paragraph
  <1> DEFINE S(n) == {j \in 1 .. n : lines[j].kind = "segment"}
  <1>1. ASSUME NEW n \in 0 .. Len(lines) PROVE Base(lines, n) \in Nat
    <2>1. CASE S(n) = {}
      BY <2>1 DEF Base
    <2>2. CASE S(n) # {}
      <3>1. S(n) \subseteq Nat /\ \A y \in S(n) : y <= n
        OBVIOUS
      <3> HIDE DEF S
      <3>2. Max(S(n)) \in S(n)
        BY <2>2, <3>1, MaxIs
      <3>3. lines[Max(S(n))].at \in Nat
        <4>1. Max(S(n)) \in 1 .. n
          BY <3>2 DEF S
        <4>2. lines[Max(S(n))] \in HexRecords
          BY <4>1
        <4> QED
          BY <4>2 DEF HexRecords
      <3>4. lines[Max(S(n))].at * Paragraph \in Nat
        BY <3>3
      <3>5. Base(lines, n) = lines[Max(S(n))].at * Paragraph
        BY <2>2 DEF Base, S
      <3> QED
        BY <3>4, <3>5
    <2> QED
      BY <2>1, <2>2
  <1>2. Base(lines, i) \in Nat /\ Base(lines, i - 1) \in Nat
    BY <1>1
  <1>3. ASSUME lines[i].kind # "segment" PROVE Base(lines, i) = Base(lines, i - 1)
    <2>1. S(i) = S(i - 1)
      BY <1>3
    <2> QED
      BY <2>1 DEF Base
  <1>4. ASSUME lines[i].kind = "segment" PROVE Base(lines, i) = lines[i].at * Paragraph
    <2>1. i \in S(i) /\ S(i) \subseteq Nat /\ \A y \in S(i) : y <= i
      BY <1>4
    <2>2. S(i) # {} /\ Max(S(i)) \in S(i) /\ i <= Max(S(i))
      <3> HIDE DEF S
      <3> QED
        BY <2>1, MaxIs
    <2>3. Max(S(i)) = i
      BY <2>1, <2>2
    <2>4. Base(lines, i) = lines[Max(S(i))].at * Paragraph
      BY <2>2 DEF Base
    <2> QED
      BY <2>3, <2>4
  <1> QED
    BY <1>2, <1>3, <1>4

\* What the reader has made of the lines before the one it is at.
ReaderStates(lines) ==
    {p \in [image : Images, segment : Nat, state : {"reading", "ended", "failed"}, line : 1 .. Len(lines) + 1] :
        /\ p.state = "reading" =>
               p.segment = Base(lines, p.line - 1) /\ \A i \in 1 .. p.line - 1 : Plain(lines, i)
        /\ p.state = "ended" =>
               /\ p.line > 1 /\ lines[p.line - 1].kind = "eof"
               /\ \A i \in 1 .. p.line - 2 : Plain(lines, i)
        /\ Covered(p.image) = UNION {GivenBy(lines, i) : i \in 1 .. p.line - 1}
        /\ \A a \in Covered(p.image) :
               \E i \in 1 .. p.line - 1 :
                   /\ a \in GivenBy(lines, i) /\ p.image.data[a + 1] = ByteGiven(lines, i, a)
                   /\ \A j \in i + 1 .. p.line - 1 : a \notin GivenBy(lines, j)}

HexStart == [image |-> Empty, segment |-> 0, state |-> "reading", line |-> 1]
HexStep(lines, p) == [bufProcessLine(p, lines[p.line]) EXCEPT !.line = @ + 1]

LEMMA EmptyImage == Empty \in Images /\ Covered(Empty) = {}
  <1>1. Empty.data = <<>> /\ Empty.mask = <<>> /\ Empty = [data |-> <<>>, mask |-> <<>>]
    BY DEF Empty
  <1>2. <<>> \in Seq(Nat) /\ <<>> \in Seq({0, 1}) /\ Len(<<>>) = 0
    OBVIOUS
  <1>3. Empty \in Images
    BY <1>1, <1>2 DEF Images
  <1>4. Covered(Empty) = {}
    BY <1>1, <1>2 DEF Covered
  <1> QED
    BY <1>3, <1>4

LEMMA ReaderStarts ==
    ASSUME NEW lines \in Seq(HexRecords)
    PROVE  HexStart \in ReaderStates(lines)
  <1>1. HexStart \in [image : Images, segment : Nat, state : {"reading", "ended", "failed"}, line : 1 .. Len(lines) + 1]
    BY EmptyImage DEF HexStart
  <1>2. Base(lines, 0) = 0
    BY DEF Base
  <1> QED
    BY <1>1, <1>2, EmptyImage DEF HexStart, ReaderStates

\* hexio.c:48: a line of data is put into its segment.
LEMMA ReaderSteps ==
    ASSUME Paragraph \in Nat, NEW lines \in Seq(HexRecords), NEW p \in ReaderStates(lines),
           p.state = "reading", p.line <= Len(lines)
    PROVE  HexStep(lines, p) \in ReaderStates(lines) /\ HexStep(lines, p).line = p.line + 1
  <1> DEFINE n == p.line
             q == HexStep(lines, p)
             line == lines[n]
             type == [image : Images, segment : Nat, state : {"reading", "ended", "failed"}, line : 1 .. Len(lines) + 1]
  <1>1. /\ n \in 1 .. Len(lines) /\ n - 1 \in 0 .. Len(lines) /\ n + 1 \in 1 .. Len(lines) + 1 /\ p \in type
        /\ p = [image |-> p.image, segment |-> p.segment, state |-> "reading", line |-> n]
    BY DEF ReaderStates
  <1>2. line \in HexRecords
    BY <1>1
  <1>3. line.kind \in {"data", "segment", "eof", "junk"} /\ line.at \in Nat /\ line.bytes \in Seq(Nat)
    BY <1>2 DEF HexRecords
  <1>4. p.segment = Base(lines, n - 1) /\ \A i \in 1 .. n - 1 : Plain(lines, i)
    BY DEF ReaderStates
  <1>5. /\ Covered(p.image) = UNION {GivenBy(lines, i) : i \in 1 .. n - 1}
        /\ \A a \in Covered(p.image) :
               \E i \in 1 .. n - 1 :
                   /\ a \in GivenBy(lines, i) /\ p.image.data[a + 1] = ByteGiven(lines, i, a)
                   /\ \A j \in i + 1 .. n - 1 : a \notin GivenBy(lines, j)
    BY DEF ReaderStates
  <1>6. ASSUME NEW a
        PROVE  a \in UNION {GivenBy(lines, i) : i \in 1 .. n}
                   <=> a \in UNION {GivenBy(lines, i) : i \in 1 .. n - 1} \/ a \in GivenBy(lines, n)
    <2>1. \A i \in 1 .. n : i \in 1 .. n - 1 \/ i = n
      BY <1>1
    <2>2. \A i \in 1 .. n - 1 : i \in 1 .. n
      BY <1>1
    <2>3. n \in 1 .. n
      BY <1>1
    <2> HIDE DEF n
    <2> QED
      BY <2>1, <2>2, <2>3
  <1>t. p \in type /\ p.state = "reading" /\ p.line = n
    BY <1>1
  <1>7. CASE line.kind = "data"
    <2> DEFINE off == p.segment + line.at
               im == Put(p.image, off, line.bytes)
               given == off .. off + Len(line.bytes) - 1
    <2>0. bufProcessLine(p, line) = [p EXCEPT !.image = im]
      BY <1>7 DEF bufProcessLine
    <2>1. q = [image |-> im, segment |-> p.segment, state |-> "reading", line |-> n + 1]
      <3> HIDE DEF im
      <3>1. [p EXCEPT !.image = im] = [image |-> im, segment |-> p.segment, state |-> "reading", line |-> n]
        BY <1>t
      <3>2. bufProcessLine(p, lines[p.line]) = [image |-> im, segment |-> p.segment, state |-> "reading", line |-> n]
        BY <2>0, <3>1
      <3>3. q = [[image |-> im, segment |-> p.segment, state |-> "reading", line |-> n] EXCEPT !.line = @ + 1]
        BY <3>2 DEF HexStep
      <3> QED
        BY <3>3
    <2>2. off \in Nat
      BY <1>1, <1>3
    <2>3. /\ im \in Images /\ Covered(im) = Covered(p.image) \cup given
          /\ \A a \in given : im.data[a + 1] = line.bytes[a - off + 1]
          /\ \A a \in Covered(p.image) \ given : im.data[a + 1] = p.image.data[a + 1]
      <3>1. p.image \in Images
        BY <1>1
      <3> HIDE DEF off
      <3> QED
        BY <1>3, <2>2, <3>1, PutIs
    <2> HIDE DEF im
    <2>4. Base(lines, n) = p.segment
      BY <1>1, <1>4, <1>7, BaseSteps
    <2>5. GivenBy(lines, n) = given
      <3>1. GivenBy(lines, n) = {off + k : k \in 0 .. Len(line.bytes) - 1}
        BY <1>7, <2>4 DEF GivenBy
      <3>2. PICK l \in Nat : l = Len(line.bytes)
        BY <1>3
      <3> HIDE DEF off
      <3>3. {off + k : k \in 0 .. l - 1} = off .. off + l - 1
        <4>1. \A a \in off .. off + l - 1 : a - off \in 0 .. l - 1 /\ a = off + (a - off)
          BY <2>2
        <4>2. \A k \in 0 .. l - 1 : off + k \in off .. off + l - 1
          BY <2>2
        <4> QED
          BY <4>1, <4>2
      <3> QED
        BY <3>1, <3>2, <3>3
    <2>6. \A a \in given : ByteGiven(lines, n, a) = line.bytes[a - off + 1]
      <3> SUFFICES ASSUME NEW a \in given PROVE ByteGiven(lines, n, a) = line.bytes[a - off + 1]
        OBVIOUS
      <3>1. a - p.segment - line.at + 1 = a - off + 1
        BY <1>1, <1>3, <2>2
      <3> QED
        BY <2>4, <3>1 DEF ByteGiven
    <2>7. Covered(im) = UNION {GivenBy(lines, i) : i \in 1 .. n}
      <3> HIDE DEF n, given
      <3>1. \A a : a \in Covered(im) <=> a \in UNION {GivenBy(lines, i) : i \in 1 .. n}
        BY <1>5, <1>6, <2>3, <2>5
      <3> QED
        BY <3>1
    <2>8. ASSUME NEW a \in Covered(im)
          PROVE  \E i \in 1 .. n : /\ a \in GivenBy(lines, i) /\ im.data[a + 1] = ByteGiven(lines, i, a)
                                   /\ \A j \in i + 1 .. n : a \notin GivenBy(lines, j)
      <3>1. CASE a \in given
        <4>1. n \in 1 .. n /\ \A j \in n + 1 .. n : FALSE
          BY <1>1
        <4> QED
          BY <2>3, <2>5, <2>6, <3>1, <4>1
      <3>2. CASE a \notin given
        <4>1. a \in Covered(p.image) /\ im.data[a + 1] = p.image.data[a + 1]
          BY <2>3, <2>8, <3>2
        <4>2. PICK i \in 1 .. n - 1 :
                  /\ a \in GivenBy(lines, i) /\ p.image.data[a + 1] = ByteGiven(lines, i, a)
                  /\ \A j \in i + 1 .. n - 1 : a \notin GivenBy(lines, j)
          BY <1>5, <4>1
        <4>3. i \in 1 .. n /\ \A j \in i + 1 .. n : j \in i + 1 .. n - 1 \/ j = n
          BY <1>1
        <4> QED
          BY <2>5, <3>2, <4>1, <4>2, <4>3
      <3> QED
        BY <3>1, <3>2
    <2>9. \A i \in 1 .. n : Plain(lines, i)
      BY <1>1, <1>4, <1>7 DEF Plain
    <2>10. q \in type /\ q.line = n + 1 /\ (n + 1) - 1 = n
      BY <1>1, <2>1, <2>3
    <2> HIDE DEF q, off, given
    <2> QED
      BY <2>1, <2>4, <2>7, <2>8, <2>9, <2>10 DEF ReaderStates, q
  <1>8. CASE line.kind # "data"
    <2>1. GivenBy(lines, n) = {}
      BY <1>8 DEF GivenBy
    <2>2. Covered(p.image) = UNION {GivenBy(lines, i) : i \in 1 .. n}
      BY <1>5, <1>6, <2>1
    <2>3. ASSUME NEW a \in Covered(p.image)
          PROVE  \E i \in 1 .. n : /\ a \in GivenBy(lines, i) /\ p.image.data[a + 1] = ByteGiven(lines, i, a)
                                   /\ \A j \in i + 1 .. n : a \notin GivenBy(lines, j)
      <3>1. PICK i \in 1 .. n - 1 :
                /\ a \in GivenBy(lines, i) /\ p.image.data[a + 1] = ByteGiven(lines, i, a)
                /\ \A j \in i + 1 .. n - 1 : a \notin GivenBy(lines, j)
        BY <1>5
      <3>2. i \in 1 .. n /\ \A j \in i + 1 .. n : j \in i + 1 .. n - 1 \/ j = n
        BY <1>1
      <3> QED
        BY <2>1, <3>1, <3>2
    <2>4. q.image = p.image /\ q.line = n + 1 /\ (n + 1) - 1 = n /\ (n + 1) - 2 = n - 1
      BY <1>1, <1>3, <1>8 DEF HexStep, bufProcessLine
    <2>5. CASE line.kind = "segment"
      <3>1. q = [image |-> p.image, segment |-> line.at * Paragraph, state |-> "reading", line |-> n + 1]
        <4>1. bufProcessLine(p, line) = [p EXCEPT !.segment = line.at * Paragraph]
          BY <2>5 DEF bufProcessLine
        <4>2. [p EXCEPT !.segment = line.at * Paragraph] = [image |-> p.image, segment |-> line.at * Paragraph, state |-> "reading", line |-> n]
          BY <1>t
        <4>3. bufProcessLine(p, lines[p.line]) = [image |-> p.image, segment |-> line.at * Paragraph, state |-> "reading", line |-> n]
          BY <4>1, <4>2
        <4>4. q = [[image |-> p.image, segment |-> line.at * Paragraph, state |-> "reading", line |-> n] EXCEPT !.line = @ + 1]
          BY <4>3 DEF HexStep
        <4> QED
          BY <4>4
      <3>2. line.at * Paragraph \in Nat /\ Base(lines, n) = line.at * Paragraph
        BY <1>1, <1>3, <2>5, BaseSteps
      <3>3. \A i \in 1 .. n : Plain(lines, i)
        BY <1>1, <1>4, <2>5 DEF Plain
      <3>4. q \in type
        BY <1>1, <3>1, <3>2
      <3>5. q.state = "reading" /\ q.segment = Base(lines, n)
        BY <3>1, <3>2
      <3> HIDE DEF q
      <3> QED
        BY <2>2, <2>3, <2>4, <3>3, <3>4, <3>5 DEF ReaderStates, q
    <2>6. CASE line.kind = "eof"
      <3>1. q = [image |-> p.image, segment |-> p.segment, state |-> "ended", line |-> n + 1]
        <4>1. bufProcessLine(p, line) = [p EXCEPT !.state = "ended"]
          BY <2>6 DEF bufProcessLine
        <4>2. [p EXCEPT !.state = "ended"] = [image |-> p.image, segment |-> p.segment, state |-> "ended", line |-> n]
          BY <1>t
        <4>3. bufProcessLine(p, lines[p.line]) = [image |-> p.image, segment |-> p.segment, state |-> "ended", line |-> n]
          BY <4>1, <4>2
        <4>4. q = [[image |-> p.image, segment |-> p.segment, state |-> "ended", line |-> n] EXCEPT !.line = @ + 1]
          BY <4>3 DEF HexStep
        <4> QED
          BY <4>4
      <3>2. q \in type
        BY <1>1, <3>1
      <3>3. n + 1 > 1
        BY <1>1
      <3> HIDE DEF q
      <3> QED
        BY <1>4, <2>2, <2>3, <2>4, <2>6, <3>1, <3>2, <3>3 DEF ReaderStates, q
    <2>7. CASE line.kind = "junk"
      <3>1. q = [image |-> p.image, segment |-> p.segment, state |-> "failed", line |-> n + 1]
        <4>1. bufProcessLine(p, line) = [p EXCEPT !.state = "failed"]
          BY <2>7 DEF bufProcessLine
        <4>2. [p EXCEPT !.state = "failed"] = [image |-> p.image, segment |-> p.segment, state |-> "failed", line |-> n]
          BY <1>t
        <4>3. bufProcessLine(p, lines[p.line]) = [image |-> p.image, segment |-> p.segment, state |-> "failed", line |-> n]
          BY <4>1, <4>2
        <4>4. q = [[image |-> p.image, segment |-> p.segment, state |-> "failed", line |-> n] EXCEPT !.line = @ + 1]
          BY <4>3 DEF HexStep
        <4> QED
          BY <4>4
      <3>2. q \in type
        BY <1>1, <3>1
      <3> HIDE DEF q
      <3> QED
        BY <2>2, <2>3, <2>4, <3>1, <3>2 DEF ReaderStates, q
    <2> QED
      BY <1>3, <1>8, <2>5, <2>6, <2>7
  <1> QED
    BY <1>7, <1>8

\* hexio.c:197: the loop over the lines ends, in what its steps keep to.
HexGoes(lines, p) == p.state = "reading" /\ p.line <= Len(lines)

LEMMA HexLoop ==
    ASSUME NEW lines \in Seq(HexRecords), NEW S, HexStart \in S,
           \A p \in S : p.line \in 1 .. Len(lines) + 1,
           \A p \in S : HexGoes(lines, p) => HexStep(lines, p) \in S /\ HexStep(lines, p).line = p.line + 1
    PROVE  \E p \in S : /\ ~HexGoes(lines, p)
                        /\ bufReadFromIntelHexFile(lines) = [image |-> p.image, ok |-> p.state = "ended"]
  <1> DEFINE n == Len(lines)
             F == [p \in S |-> IF HexGoes(lines, p) THEN HexStep(lines, p) ELSE p]
             going == {p \in S : HexGoes(lines, p)}
             grown == [p \in S |-> p.line]
             Runs(f) == f = [k \in 0 .. n |->
                                IF k = 0 THEN HexStart
                                ELSE LET p == f[k - 1] IN IF HexGoes(lines, p) THEN HexStep(lines, p) ELSE p]
             read == CHOOSE f : Runs(f)
  <1>1. n \in Nat
    OBVIOUS
  <1>2. \A p \in S : F[p] = IF HexGoes(lines, p) THEN HexStep(lines, p) ELSE p
    OBVIOUS
  <1>3. Progresses(S, F, going, grown, n + 1)
    <2>1. F \in [S -> S] /\ grown \in [S -> Int] /\ n + 1 \in Int
      BY <1>1
    <2>2. \A p \in S : p \notin going => F[p] = p
      BY <1>2
    <2>3. ASSUME NEW p \in S, p \in going PROVE grown[p] < n + 1 /\ grown[F[p]] > grown[p]
      <3>1. HexGoes(lines, p) /\ F[p] = HexStep(lines, p)
        BY <1>2, <2>3
      <3>2. F[p] \in S /\ F[p].line = p.line + 1 /\ p.line \in 1 .. n + 1 /\ p.line <= n
        BY <3>1 DEF HexGoes
      <3>3. grown[F[p]] = p.line + 1 /\ grown[p] = p.line
        BY <3>2
      <3> QED
        BY <1>1, <3>2, <3>3
    <2> HIDE DEF F, going, grown, n
    <2> QED
      BY <2>1, <2>2, <2>3 DEF Progresses
  <1>4. grown[HexStart] + n >= n + 1
    BY <1>1 DEF HexStart
  <1>5. PICK f : Turns(f, S, HexStart, F, n) /\ f[n] \in S /\ f[n] \notin going
    <2>1. Ends(S, HexStart, F, going, grown, n + 1, n)
      <3> HIDE DEF F, going, grown, n
      <3> QED
        BY <1>1, <1>3, <1>4 DEF Ends
    <2> HIDE DEF F, going, grown, n
    <2> QED
      BY <2>1, LoopEnds
  <1>6. Runs(f)
    <2>1. f \in [0 .. n -> S] /\ f[0] = HexStart /\ \A k \in 1 .. n : f[k] = F[f[k - 1]]
      BY <1>5 DEF Turns
    <2>2. ASSUME NEW k \in 0 .. n
          PROVE  f[k] = IF k = 0 THEN HexStart
                        ELSE LET p == f[k - 1] IN IF HexGoes(lines, p) THEN HexStep(lines, p) ELSE p
      <3>1. CASE k = 0
        BY <2>1, <3>1
      <3>2. CASE k # 0
        <4>1. k \in 1 .. n /\ k - 1 \in 0 .. n
          BY <1>1, <3>2
        <4>2. f[k - 1] \in S /\ f[k] = F[f[k - 1]]
          BY <2>1, <4>1
        <4> HIDE DEF F
        <4> QED
          BY <1>2, <3>2, <4>2
      <3> QED
        BY <3>1, <3>2
    <2>3. f = [k \in 0 .. n |-> f[k]]
      BY <2>1
    <2> HIDE DEF F, n
    <2> QED
      BY <2>2, <2>3
  <1>7. Runs(read)
    <2> HIDE DEF Runs
    <2> QED
      BY <1>6
  <1>8. bufReadFromIntelHexFile(lines) = [image |-> read[n].image, ok |-> read[n].state = "ended"]
    BY DEF bufReadFromIntelHexFile, While, HexStart, HexStep, HexGoes
  <1>9. read[n] = f[n]
    <2>1. \A k \in 0 .. n : read[k] = IF k = 0 THEN HexStart
                        ELSE LET p == read[k - 1] IN IF HexGoes(lines, p) THEN HexStep(lines, p) ELSE p
      <3> HIDE DEF read, n
      <3> QED
        BY <1>7
    <2>2. \A k \in 0 .. n : f[k] = IF k = 0 THEN HexStart
                        ELSE LET p == f[k - 1] IN IF HexGoes(lines, p) THEN HexStep(lines, p) ELSE p
      <3> HIDE DEF n
      <3> QED
        BY <1>6
    <2> DEFINE T == {k \in 0 .. n : read[k] = f[k]}
    <2>3. 0 \in T
      <3> HIDE DEF read
      <3> QED
        BY <1>1, <2>1, <2>2
    <2>4. ASSUME NEW k \in 1 .. n, k - 1 \in T PROVE k \in T
      <3>1. k \in 0 .. n /\ k - 1 \in 0 .. n /\ k # 0 /\ read[k - 1] = f[k - 1]
        BY <2>4
      <3> HIDE DEF read
      <3> QED
        BY <2>1, <2>2, <3>1
    <2> HIDE DEF T, n
    <2>5. n \in Nat /\ \A k \in 1 .. n : k - 1 \in T => k \in T
      BY <1>1, <2>4
    <2>6. 0 .. n \subseteq T
      BY ONLY <2>3, <2>5, Counting
    <2>7. n \in T
      BY <2>5, <2>6
    <2> QED
      BY <2>7 DEF T
  <1> QED
    <2>1. ~HexGoes(lines, f[n])
      BY <1>5
    <2> HIDE DEF read, n
    <2> QED
      BY <1>5, <1>8, <1>9, <2>1

\* hexio.c:197: a file that is read to its end gives the image that it means.
THEOREM HexIsMeant ==
    ASSUME Paragraph \in Nat, NEW lines \in Seq(HexRecords)
    PROVE  LET read == bufReadFromIntelHexFile(lines)
           IN  /\ read.image \in Images
               /\ read.ok => /\ DOMAIN MeantByHex(lines) = Covered(read.image)
                             /\ Shows(read.image, MeantByHex(lines))
  <1> DEFINE read == bufReadFromIntelHexFile(lines)
  <1>1. PICK p \in ReaderStates(lines) : read = [image |-> p.image, ok |-> p.state = "ended"]
    <2>1. \A p \in ReaderStates(lines) : p.line \in 1 .. Len(lines) + 1
      BY DEF ReaderStates
    <2>2. \A p \in ReaderStates(lines) :
              HexGoes(lines, p) => HexStep(lines, p) \in ReaderStates(lines) /\ HexStep(lines, p).line = p.line + 1
      BY ReaderSteps DEF HexGoes
    <2> QED
      BY <2>1, <2>2, ReaderStarts, HexLoop
  <1>2. p.image \in Images
    BY DEF ReaderStates
  <1>3. ASSUME p.state = "ended"
        PROVE  DOMAIN MeantByHex(lines) = Covered(p.image) /\ Shows(p.image, MeantByHex(lines))
    <2> DEFINE m == p.line - 1
               im == p.image
               ends == {i \in DOMAIN lines : lines[i].kind = "eof"} \cup {Len(lines) + 1}
               givers(a) == {i \in 1 .. m - 1 : a \in GivenBy(lines, i)}
    <2>1. /\ p.line \in 2 .. Len(lines) + 1 /\ m \in 1 .. Len(lines) /\ lines[m].kind = "eof"
          /\ \A i \in 1 .. m - 1 : Plain(lines, i)
      BY <1>3 DEF ReaderStates
    <2>2. Min(ends) = m
      <3>1. ends \subseteq Nat /\ m \in ends
        BY <2>1
      <3>2. \A i \in ends : m <= i
        <4> SUFFICES ASSUME NEW i \in ends, i < m PROVE FALSE
          BY <2>1, <3>1
        <4>1. i \in 1 .. m - 1 /\ lines[i].kind = "eof"
          BY <2>1
        <4> QED
          BY <2>1, <4>1 DEF Plain
      <3>3. Min(ends) \in ends /\ \A i \in ends : Min(ends) <= i
        <4> HIDE DEF ends
        <4> QED
          BY <3>1, MinIs
      <3> HIDE DEF ends, m
      <3>4. Min(ends) <= m /\ m <= Min(ends) /\ Min(ends) \in Nat /\ m \in Nat
        BY <3>1, <3>2, <3>3
      <3> QED
        BY <3>4
    <2>3. GivenBy(lines, m) = {}
      BY <2>1 DEF GivenBy
    <2>4. Covered(im) = UNION {GivenBy(lines, i) : i \in 1 .. m - 1}
      <3>1. Covered(im) = UNION {GivenBy(lines, i) : i \in 1 .. m}
        BY DEF ReaderStates
      <3>2. \A i \in 1 .. m : i \in 1 .. m - 1 \/ i = m
        BY <2>1
      <3>3. \A i \in 1 .. m - 1 : i \in 1 .. m
        BY <2>1
      <3> HIDE DEF m, im
      <3>4. ASSUME NEW a PROVE a \in Covered(im) <=> a \in UNION {GivenBy(lines, i) : i \in 1 .. m - 1}
        BY <2>3, <3>1, <3>2, <3>3
      <3> QED
        BY <3>4
    <2>5. MeantByHex(lines) = [a \in Covered(im) |-> ByteGiven(lines, Max(givers(a)), a)]
      <3>1. MeantByHex(lines) =
                [a \in UNION {GivenBy(lines, i) : i \in 1 .. Min(ends) - 1} |->
                    ByteGiven(lines, Max({i \in 1 .. Min(ends) - 1 : a \in GivenBy(lines, i)}), a)]
        BY DEF MeantByHex, GivenBy, ByteGiven, Base
      <3> HIDE DEF ends, m, im
      <3> QED
        BY <2>2, <2>4, <3>1
    <2>6. ASSUME NEW a \in Covered(im) PROVE im.data[a + 1] = ByteGiven(lines, Max(givers(a)), a)
      <3>1. PICK i \in 1 .. m :
                /\ a \in GivenBy(lines, i) /\ im.data[a + 1] = ByteGiven(lines, i, a)
                /\ \A j \in i + 1 .. m : a \notin GivenBy(lines, j)
        BY DEF ReaderStates
      <3>2. i \in givers(a)
        <4>1. i # m
          BY <2>3, <3>1
        <4>2. i \in 1 .. m - 1
          BY <2>1, <4>1
        <4> QED
          BY <3>1, <4>2
      <3>3. \A j \in givers(a) : j <= i
        <4> SUFFICES ASSUME NEW j \in givers(a), j > i PROVE FALSE
          BY <2>1
        <4>1. j \in i + 1 .. m /\ a \in GivenBy(lines, j)
          BY <2>1
        <4> QED
          BY <3>1, <4>1
      <3>4. givers(a) \subseteq Nat /\ \A j \in givers(a) : j <= m
        BY <2>1
      <3>5. Max(givers(a)) \in givers(a) /\ \A j \in givers(a) : j <= Max(givers(a))
        <4> DEFINE g == givers(a)
        <4>1. g \subseteq Nat /\ g # {} /\ m \in Nat /\ \A j \in g : j <= m
          BY <2>1, <3>2, <3>4
        <4> HIDE DEF g, m
        <4>2. Max(g) \in g /\ \A j \in g : j <= Max(g)
          BY <4>1, MaxIs
        <4> QED
          BY <4>2 DEF g
      <3>6. PICK j \in Nat : j = Max(givers(a))
        BY <3>4, <3>5
      <3>7. j = i
        <4> HIDE DEF givers
        <4>1. j <= i /\ i <= j
          BY <3>2, <3>3, <3>5, <3>6
        <4> QED
          BY <4>1
      <3> QED
        BY <3>1, <3>6, <3>7
    <2> HIDE DEF im, givers
    <2>7. DOMAIN MeantByHex(lines) = Covered(im) /\ \A a \in Covered(im) : MeantByHex(lines)[a] = im.data[a + 1]
      BY <2>5, <2>6
    <2> QED
      BY <2>7 DEF Shows, ByteOf, im
  <1>4. read.image = p.image /\ read.ok = (p.state = "ended")
    <2> HIDE DEF read
    <2> QED
      BY <1>1
  <1> HIDE DEF read
  <1> QED
    BY <1>2, <1>3, <1>4 DEF read

-----------------------------------------------------------------------------
(* Sequences that are put together.                                          *)

\* What holds of the empty sequence, and after each part if it held before.
LEMMA FlattenInduction ==
    ASSUME NEW X, NEW s \in Seq(Seq(X)), NEW I, <<>> \in I[0],
           \A k \in 1 .. Len(s) : \A x \in I[k - 1] : x \in Seq(X) => x \o s[k] \in I[k]
    PROVE  FlattenSeq(s) \in Seq(X) /\ FlattenSeq(s) \in I[Len(s)]
  <1> DEFINE n == Len(s)
             S == [k : 0 .. n, x : Seq(X)]
             step == [p \in S |-> IF p.k < n THEN [k |-> p.k + 1, x |-> p.x \o s[p.k + 1]] ELSE p]
             Sums(f) == f = [i \in 1 .. n |-> IF i = 1 THEN s[i] ELSE f[i - 1] \o s[i]]
             sums == CHOOSE f : Sums(f)
  <1>1. n \in Nat /\ (\A i \in 1 .. n : s[i] \in Seq(X)) /\ <<>> \in Seq(X)
    OBVIOUS
  <1>2. CASE n = 0
    <2>1. FlattenSeq(s) = s /\ s = <<>>
      BY <1>1, <1>2 DEF FlattenSeq
    <2> QED
      BY <1>1, <1>2, <2>1
  <1>3. CASE n # 0
    <2>1. step \in [S -> S]
      <3> SUFFICES ASSUME NEW p \in S PROVE (IF p.k < n THEN [k |-> p.k + 1, x |-> p.x \o s[p.k + 1]] ELSE p) \in S
        OBVIOUS
      <3>1. CASE p.k < n
        <4>1. p.k + 1 \in 1 .. n /\ p.x \in Seq(X)
          BY <1>1, <3>1
        <4>2. p.x \o s[p.k + 1] \in Seq(X)
          BY <1>1, <4>1
        <4> QED
          BY <3>1, <4>1, <4>2
      <3> QED
        BY <3>1
    <2>2. [k |-> 0, x |-> <<>>] \in S
      BY <1>1
    <2> HIDE DEF S
    <2>3. PICK f : Turns(f, S, [k |-> 0, x |-> <<>>], step, n)
      <3> HIDE DEF step, n
      <3> QED
        BY <1>1, <2>1, <2>2, Iterates
    <2>4. /\ f \in [0 .. n -> S] /\ f[0] = [k |-> 0, x |-> <<>>]
          /\ \A k \in 1 .. n : f[k] = IF f[k - 1].k < n THEN [k |-> f[k - 1].k + 1, x |-> f[k - 1].x \o s[f[k - 1].k + 1]] ELSE f[k - 1]
      <3>1. f \in [0 .. n -> S] /\ f[0] = [k |-> 0, x |-> <<>>] /\ \A k \in 1 .. n : f[k] = step[f[k - 1]]
        BY <2>3 DEF Turns
      <3>2. \A k \in 1 .. n : f[k - 1] \in S
        <4>1. \A k \in 1 .. n : k - 1 \in 0 .. n
          BY <1>1
        <4> HIDE DEF n
        <4> QED
          BY <3>1, <4>1
      <3> QED
        BY <3>1, <3>2
    <2> HIDE DEF step
    <2> DEFINE T == {k \in 0 .. n : /\ f[k].k = k /\ f[k].x \in Seq(X) /\ f[k].x \in I[k]
                                    /\ k > 0 => f[k].x = f[k - 1].x \o s[k]}
    <2>5. 0 \in T
      <3>1. f[0].k = 0 /\ f[0].x = <<>>
        BY <2>4
      <3>2. 0 \in 0 .. n /\ ~(0 > 0)
        BY <1>1
      <3> HIDE DEF n
      <3> QED
        BY <1>1, <3>1, <3>2
    <2>6. ASSUME NEW k \in 1 .. n, k - 1 \in T PROVE k \in T
      <3>1. /\ f[k - 1].k = k - 1 /\ f[k - 1].x \in Seq(X) /\ f[k - 1].x \in I[k - 1]
            /\ k - 1 < n /\ (k - 1) + 1 = k /\ k \in 0 .. n /\ s[k] \in Seq(X)
        BY <1>1, <2>6
      <3>2. f[k] = [k |-> k, x |-> f[k - 1].x \o s[k]]
        BY <2>4, <3>1
      <3>3. f[k].k = k /\ f[k].x = f[k - 1].x \o s[k]
        <4> DEFINE y == f[k - 1].x \o s[k]
        <4>1. f[k] = [k |-> k, x |-> y]
          BY <3>2
        <4> HIDE DEF y
        <4>2. f[k].k = k /\ f[k].x = y
          BY <4>1
        <4> QED
          BY <4>2 DEF y
      <3>4. f[k - 1].x \o s[k] \in Seq(X) /\ f[k - 1].x \o s[k] \in I[k]
        BY <3>1
      <3> QED
        BY <3>1, <3>3, <3>4
    <2> HIDE DEF T
    <2>7. 0 .. n \subseteq T
      BY <1>1, <2>5, <2>6, Counting
    <2> DEFINE g == [i \in 1 .. n |-> f[i].x]
    <2>8. Sums(g)
      <3>1. ASSUME NEW i \in 1 .. n PROVE g[i] = IF i = 1 THEN s[i] ELSE g[i - 1] \o s[i]
        <4>0. i \in 0 .. n
          BY <1>1
        <4>1. i \in T /\ g[i] = f[i].x
          BY <2>7, <4>0
        <4>2. g[i] = f[i - 1].x \o s[i]
          <5>1. i > 0
            BY <1>1
          <5> HIDE DEF g
          <5> QED
            BY <4>1, <5>1 DEF T
        <4>3. CASE i = 1
          <5>1. f[i - 1].x = <<>>
            BY <2>4, <4>3
          <5>2. <<>> \o s[i] = s[i]
            BY <1>1
          <5> QED
            BY <4>2, <4>3, <5>1, <5>2
        <4>4. CASE i # 1
          <5>1. i - 1 \in 1 .. n
            BY <1>1, <4>4
          <5>2. g[i - 1] = f[i - 1].x
            BY <5>1
          <5> QED
            BY <4>2, <4>4, <5>2
        <4> QED
          BY <4>3, <4>4
      <3>2. g = [i \in 1 .. n |-> g[i]]
        OBVIOUS
      <3> HIDE DEF g, n
      <3> QED
        BY <3>1, <3>2
    <2>9. Sums(sums)
      <3> HIDE DEF Sums
      <3> QED
        BY <2>8
    <2>10. FlattenSeq(s) = sums[n]
      BY <1>3 DEF FlattenSeq
    <2> DEFINE U == {i \in 0 .. n : i > 0 => sums[i] = f[i].x}
    <2>11. 0 \in U
      BY <1>1
    <2>12. ASSUME NEW i \in 1 .. n, i - 1 \in U PROVE i \in U
      <3>1. \A j \in 1 .. n : sums[j] = IF j = 1 THEN s[j] ELSE sums[j - 1] \o s[j]
        <4> HIDE DEF sums, n
        <4> QED
          BY <2>9
      <3> HIDE DEF sums
      <3>2. g[i] = IF i = 1 THEN s[i] ELSE g[i - 1] \o s[i]
        <4> HIDE DEF g, n
        <4> QED
          BY <2>8
      <3>3. i # 1 => sums[i - 1] = g[i - 1]
        <4>1. i # 1 => i - 1 \in 1 .. n /\ i - 1 > 0
          BY <1>1
        <4> QED
          BY <2>12, <4>1
      <3>4. sums[i] = g[i]
        <4> HIDE DEF g
        <4> QED
          BY <3>1, <3>2, <3>3
      <3>5. i \in 0 .. n /\ g[i] = f[i].x
        BY <1>1
      <3> HIDE DEF g
      <3> QED
        BY <3>4, <3>5
    <2> HIDE DEF U, sums, g
    <2>13. 0 .. n \subseteq U
      BY <1>1, <2>11, <2>12, Counting
    <2>14. n \in U /\ n \in T /\ n > 0
      BY <1>1, <1>3, <2>7, <2>13
    <2> QED
      BY <2>10, <2>14 DEF T, U
  <1> QED
    BY <1>2, <1>3

-----------------------------------------------------------------------------
(* Boot records.                                                             *)

\* The records from one place of a sequence to another, by where they start.
Records(bs, from, to, S) ==
    /\ S \subseteq from .. to - 1
    /\ from \in S \cup {to}
    /\ \A p \in S : /\ Word(bs, p) \in 0 .. MaxRecord /\ Word(bs, p + 2) \in Nat
                    /\ p + 4 + Word(bs, p) \in S \cup {to}
                    /\ \A q \in S : q > p => q >= p + 4 + Word(bs, p)

\* They have nothing but bytes that are meant, or zeros.
Agree(bs, S, at) == \A p \in S : \A k \in 0 .. Word(bs, p) - 1 : bs[p + 4 + k] = ByteOf(at, Word(bs, p + 2) + k)

\* Every address of C is in one of them.
Reach(bs, S, C) == \A a \in C : \E p \in S : \E k \in 0 .. Word(bs, p) - 1 : a = Word(bs, p + 2) + k

Carries(bs, from, to, at, C) ==
    /\ from \in Nat /\ to \in Nat /\ from <= to
    /\ \E S \in SUBSET Nat : Records(bs, from, to, S) /\ Agree(bs, S, at) /\ Reach(bs, S, C)

LEMMA CarryNothing ==
    ASSUME NEW bs, NEW p \in Nat, NEW at
    PROVE  Carries(bs, p, p, at, {})
  <1>1. Records(bs, p, p, {}) /\ Agree(bs, {}, at) /\ Reach(bs, {}, {})
    BY DEF Records, Agree, Reach
  <1> QED
    BY <1>1 DEF Carries

LEMMA CarryOn ==
    ASSUME NEW bs, NEW a, NEW b, NEW c, NEW at, NEW C1, NEW C2,
           Carries(bs, a, b, at, C1), Carries(bs, b, c, at, C2)
    PROVE  Carries(bs, a, c, at, C1 \cup C2)
  <1>1. a \in Nat /\ b \in Nat /\ c \in Nat /\ a <= b /\ b <= c
    BY DEF Carries
  <1>2. PICK S1 \in SUBSET Nat : Records(bs, a, b, S1) /\ Agree(bs, S1, at) /\ Reach(bs, S1, C1)
    BY DEF Carries
  <1>3. PICK S2 \in SUBSET Nat : Records(bs, b, c, S2) /\ Agree(bs, S2, at) /\ Reach(bs, S2, C2)
    BY DEF Carries
  <1> DEFINE S == S1 \cup S2
  <1>4. Records(bs, a, c, S)
    <2>1. S1 \subseteq a .. b - 1 /\ S2 \subseteq b .. c - 1 /\ a \in S1 \cup {b} /\ b \in S2 \cup {c}
      BY <1>2, <1>3 DEF Records
    <2>2. S \subseteq a .. c - 1
      BY <1>1, <2>1
    <2>3. a \in S \cup {c}
      BY <2>1
    <2>4. \A p \in S : /\ Word(bs, p) \in 0 .. MaxRecord /\ Word(bs, p + 2) \in Nat
                       /\ p + 4 + Word(bs, p) \in S \cup {c}
      BY <1>2, <1>3, <2>1 DEF Records
    <2>5. ASSUME NEW p \in S, NEW q \in S, q > p PROVE q >= p + 4 + Word(bs, p)
      <3>1. PICK w \in 0 .. MaxRecord : w = Word(bs, p)
        BY <2>4
      <3>2. CASE p \in S2 /\ q \in S2
        BY <1>3, <2>5, <3>2 DEF Records
      <3>3. CASE p \in S1 /\ q \in S1
        BY <1>2, <2>5, <3>3 DEF Records
      <3>4. CASE p \in S1 /\ q \in S2
        <4>1. p + 4 + w \in S1 \cup {b} /\ q >= b /\ q \in Nat
          BY <1>1, <1>2, <2>1, <3>1, <3>4 DEF Records
        <4>2. p + 4 + w <= b
          BY <1>1, <2>1, <4>1
        <4> QED
          BY <1>1, <3>1, <4>1, <4>2
      <3>5. CASE p \in S2 /\ q \in S1
        BY <1>1, <2>1, <2>5, <3>5
      <3> QED
        BY <3>2, <3>3, <3>4, <3>5
    <2> QED
      BY <2>2, <2>3, <2>4, <2>5 DEF Records
  <1>5. Agree(bs, S, at) /\ Reach(bs, S, C1 \cup C2)
    BY <1>2, <1>3 DEF Agree, Reach
  <1>6. a <= c
    BY <1>1
  <1> QED
    BY <1>1, <1>4, <1>5, <1>6 DEF Carries

\* Where they stand in a sequence does not matter.
LEMMA CarryAway ==
    ASSUME NEW x, NEW y, NEW from, NEW to, NEW d \in Nat, NEW at, NEW C, MaxRecord \in Nat,
           Carries(x, from, to, at, C), \A i \in from .. to - 1 : y[i + d] = x[i]
    PROVE  Carries(y, from + d, to + d, at, C)
  <1>1. from \in Nat /\ to \in Nat /\ from <= to
    BY DEF Carries
  <1>2. PICK S \in SUBSET Nat : Records(x, from, to, S) /\ Agree(x, S, at) /\ Reach(x, S, C)
    BY DEF Carries
  <1> DEFINE M == {p + d : p \in S}
  <1>3. ASSUME NEW p \in S
        PROVE  /\ p \in Nat /\ p >= from /\ Word(x, p) \in Nat /\ p + 4 + Word(x, p) <= to
               /\ Word(y, p + d) = Word(x, p) /\ Word(y, p + d + 2) = Word(x, p + 2)
    <2>1. p \in from .. to - 1 /\ Word(x, p) \in 0 .. MaxRecord /\ p + 4 + Word(x, p) \in S \cup {to}
      BY <1>2 DEF Records
    <2>2. S \subseteq from .. to - 1
      BY <1>2 DEF Records
    <2>3. PICK w \in 0 .. MaxRecord : w = Word(x, p)
      BY <2>1
    <2>4. p + 4 + w <= to
      BY <1>1, <2>1, <2>2, <2>3
    <2>5. p \in from .. to - 1 /\ p + 1 \in from .. to - 1 /\ p + 2 \in from .. to - 1 /\ p + 3 \in from .. to - 1
      BY <1>1, <2>1, <2>4
    <2>6. y[p + d] = x[p] /\ y[p + 1 + d] = x[p + 1] /\ y[p + 2 + d] = x[p + 2] /\ y[p + 3 + d] = x[p + 3]
      BY <2>5
    <2>7. p + 1 + d = p + d + 1 /\ p + 2 + d = p + d + 2 /\ p + 3 + d = (p + d + 2) + 1 /\ p + 3 = (p + 2) + 1
      BY <1>1, <2>1
    <2>8. Word(y, p + d) = Word(x, p) /\ Word(y, p + d + 2) = Word(x, p + 2)
      BY <2>6, <2>7 DEF Word
    <2> QED
      BY <1>1, <2>1, <2>3, <2>4, <2>8
  <1>4. Records(y, from + d, to + d, M)
    <2>1. M \subseteq from + d .. (to + d) - 1
      BY <1>1, <1>2 DEF Records
    <2>2. from + d \in M \cup {to + d}
      BY <1>2 DEF Records
    <2>3. ASSUME NEW q \in M
          PROVE  /\ Word(y, q) \in 0 .. MaxRecord /\ Word(y, q + 2) \in Nat
                 /\ q + 4 + Word(y, q) \in M \cup {to + d}
      <3>1. PICK p \in S : q = p + d
        OBVIOUS
      <3>2. Word(y, q) = Word(x, p) /\ Word(y, q + 2) = Word(x, p + 2)
        BY <1>3, <3>1
      <3>3. Word(x, p) \in 0 .. MaxRecord /\ Word(x, p + 2) \in Nat /\ p + 4 + Word(x, p) \in S \cup {to}
        BY <1>2 DEF Records
      <3>4. PICK w \in 0 .. MaxRecord : w = Word(x, p)
        BY <3>3
      <3>5. q + 4 + w = (p + 4 + w) + d
        <4>1. p \in Nat /\ w \in Nat
          BY <1>3, <3>4
        <4> QED
          BY <3>1, <4>1
      <3>6. (p + 4 + w) + d \in M \cup {to + d}
        BY <3>3, <3>4
      <3> QED
        BY <3>2, <3>3, <3>4, <3>5, <3>6
    <2>4. ASSUME NEW q \in M, NEW r \in M, r > q PROVE r >= q + 4 + Word(y, q)
      <3>1. PICK p \in S : q = p + d
        OBVIOUS
      <3>2. PICK s \in S : r = s + d
        OBVIOUS
      <3>3. PICK w \in Nat : w = Word(x, p)
        BY <1>3
      <3>4. p \in Nat /\ s \in Nat
        BY <1>3
      <3>5. s > p
        BY <2>4, <3>1, <3>2, <3>4
      <3>6. s >= p + 4 + w
        BY <1>2, <3>3, <3>5 DEF Records
      <3>7. Word(y, q) = w
        BY <1>3, <3>1, <3>3
      <3> QED
        BY <3>1, <3>2, <3>3, <3>4, <3>6, <3>7
    <2> QED
      BY <2>1, <2>2, <2>3, <2>4 DEF Records
  <1>5. Agree(y, M, at)
    <2> SUFFICES ASSUME NEW p \in S, NEW k \in 0 .. Word(y, p + d) - 1
                 PROVE  y[p + d + 4 + k] = ByteOf(at, Word(y, p + d + 2) + k)
      BY DEF Agree
    <2>1. k \in 0 .. Word(x, p) - 1
      BY <1>3
    <2>2. x[p + 4 + k] = ByteOf(at, Word(x, p + 2) + k)
      BY <1>2, <2>1 DEF Agree
    <2>3. PICK w \in Nat : w = Word(x, p)
      BY <1>3
    <2>4. k \in 0 .. w - 1
      BY <2>1, <2>3
    <2>5. p + 4 + k \in from .. to - 1 /\ p + d + 4 + k = (p + 4 + k) + d
      BY <1>1, <1>3, <2>3, <2>4
    <2> QED
      BY <1>3, <2>2, <2>5
  <1>6. Reach(y, M, C)
    <2> SUFFICES ASSUME NEW a \in C
                 PROVE  \E q \in M : \E k \in 0 .. Word(y, q) - 1 : a = Word(y, q + 2) + k
      BY DEF Reach
    <2>1. PICK p \in S : \E k \in 0 .. Word(x, p) - 1 : a = Word(x, p + 2) + k
      BY <1>2 DEF Reach
    <2>2. p + d \in M
      OBVIOUS
    <2> HIDE DEF M
    <2> QED
      BY <1>3, <2>1, <2>2
  <1>7. M \in SUBSET Nat /\ from + d \in Nat /\ to + d \in Nat /\ from + d <= to + d
    BY <1>1, <1>3
  <1> HIDE DEF M
  <1> QED
    BY <1>4, <1>5, <1>6, <1>7 DEF Carries

\* Sequences of records, and nothing else.
Strings(at, C) == {x \in Seq(Nat) : Carries(x, 1, Len(x) + 1, at, C)}

LEMMA StringsJoin ==
    ASSUME NEW at, NEW C1, NEW C2, NEW x \in Strings(at, C1), NEW y \in Strings(at, C2), MaxRecord \in Nat
    PROVE  x \o y \in Strings(at, C1 \cup C2)
  <1> DEFINE z == x \o y
  <1>1. /\ x \in Seq(Nat) /\ y \in Seq(Nat) /\ z \in Seq(Nat)
        /\ Len(x) \in Nat /\ Len(y) \in Nat /\ Len(z) = Len(x) + Len(y)
        /\ Carries(x, 1, Len(x) + 1, at, C1) /\ Carries(y, 1, Len(y) + 1, at, C2)
    BY DEF Strings
  <1>2. \A i \in 1 .. (Len(x) + 1) - 1 : z[i + 0] = x[i]
    BY <1>1
  <1>3. Carries(z, 1 + 0, Len(x) + 1 + 0, at, C1)
    <2> HIDE DEF z
    <2> QED
      BY <1>1, <1>2, CarryAway
  <1>4. \A i \in 1 .. (Len(y) + 1) - 1 : z[i + Len(x)] = y[i]
    BY <1>1
  <1>5. Carries(z, 1 + Len(x), Len(y) + 1 + Len(x), at, C2)
    <2> HIDE DEF z
    <2> QED
      BY <1>1, <1>4, CarryAway
  <1>6. 1 + 0 = 1 /\ Len(x) + 1 + 0 = 1 + Len(x) /\ Len(y) + 1 + Len(x) = Len(z) + 1
    BY <1>1
  <1> HIDE DEF z
  <1>7. Carries(z, 1, Len(z) + 1, at, C1 \cup C2)
    BY <1>3, <1>5, <1>6, CarryOn
  <1> QED
    BY <1>1, <1>7 DEF Strings, z

LEMMA Quotients ==
    ASSUME NEW n \in Nat, NEW m \in Nat \ {0}
    PROVE  \E q \in Nat, r \in 0 .. m - 1 : n \div m = q /\ n % m = r /\ n = m * q + r
  <1>1. n \div m \in Nat /\ n % m \in 0 .. (m - 1) /\ n = m * (n \div m) + (n % m)
    OBVIOUS
  <1> QED
    BY <1>1

LEMMA JoinIs ==
    ASSUME NEW X, NEW x \in Seq(X), NEW y \in Seq(X)
    PROVE  /\ x \o y \in Seq(X) /\ Len(x \o y) = Len(x) + Len(y)
           /\ \A i \in 1 .. Len(x) : (x \o y)[i] = x[i]
           /\ \A i \in 1 .. Len(y) : (x \o y)[Len(x) + i] = y[i]
  OBVIOUS

\* A word is its two bytes.
LEMMA WordOfBytes ==
    ASSUME NEW n \in Nat
    PROVE  /\ WordBE(n) \in Seq(Nat) /\ Len(WordBE(n)) = 2
           /\ WordBE(n)[1] * 256 + WordBE(n)[2] = n
  <1>1. PICK q \in Nat, r \in 0 .. 256 - 1 : n \div 256 = q /\ n % 256 = r /\ n = 256 * q + r
    <2>1. 256 \in Nat \ {0}
      OBVIOUS
    <2> QED
      BY <2>1, Quotients
  <1>2. WordBE(n) = <<n \div 256, n % 256>>
    BY DEF WordBE
  <1> HIDE DEF WordBE
  <1>3. WordBE(n) = <<q, r>> /\ q * 256 + r = n
    BY <1>1, <1>2
  <1>4. <<q, r>> \in Seq(Nat) /\ Len(<<q, r>>) = 2 /\ <<q, r>>[1] = q /\ <<q, r>>[2] = r
    BY <1>1
  <1> QED
    BY <1>3, <1>4

\* The byte of an address in a boot record: zero outside the mask.
Masked(image, a) == IF image.mask[a + 1] = 0 THEN 0 ELSE image.data[a + 1]

RecordOf(image, addr, n) == WordBE(n) \o WordBE(addr) \o [i \in 1 .. n |-> Masked(image, addr + i - 1)]

LEMMA RecordCarries ==
    ASSUME NEW image, NEW at, NEW addr \in Nat, NEW n \in 0 .. MaxRecord, MaxRecord \in Nat,
           \A a \in addr .. addr + n - 1 : Masked(image, a) \in Nat /\ Masked(image, a) = ByteOf(at, a)
    PROVE  RecordOf(image, addr, n) \in Strings(at, addr .. addr + n - 1)
  <1> DEFINE s == WordBE(n)
             t == WordBE(addr)
             u == [i \in 1 .. n |-> Masked(image, addr + i - 1)]
             r == RecordOf(image, addr, n)
  <1>1. /\ s \in Seq(Nat) /\ Len(s) = 2 /\ s[1] * 256 + s[2] = n
        /\ t \in Seq(Nat) /\ Len(t) = 2 /\ t[1] * 256 + t[2] = addr
    BY WordOfBytes
  <1>2. u \in Seq(Nat) /\ Len(u) = n /\ \A i \in 1 .. n : u[i] = ByteOf(at, addr + i - 1)
    <2>1. \A i \in 1 .. n : addr + i - 1 \in addr .. addr + n - 1
      OBVIOUS
    <2>2. \A i \in 1 .. n : Masked(image, addr + i - 1) \in Nat /\ Masked(image, addr + i - 1) = ByteOf(at, addr + i - 1)
      BY <2>1
    <2> QED
      BY <2>2
  <1>3. r = s \o t \o u
    BY DEF RecordOf
  <1> HIDE DEF s, t, u, r
  <1> DEFINE w == s \o t
  <1>w. w \in Seq(Nat) /\ Len(w) = 4 /\ w[1] = s[1] /\ w[2] = s[2] /\ w[3] = t[1] /\ w[4] = t[2]
    <2>1. /\ s \o t \in Seq(Nat) /\ Len(s \o t) = Len(s) + Len(t)
          /\ \A i \in 1 .. Len(s) : (s \o t)[i] = s[i]
          /\ \A i \in 1 .. Len(t) : (s \o t)[Len(s) + i] = t[i]
      <3>1. s \in Seq(Nat) /\ t \in Seq(Nat)
        BY <1>1
      <3> QED
        BY <3>1, JoinIs
    <2> HIDE DEF w
    <2>2. w \in Seq(Nat) /\ Len(w) = 4 /\ (\A i \in 1 .. 2 : w[i] = s[i]) /\ \A i \in 1 .. 2 : w[2 + i] = t[i]
      BY <1>1, <2>1 DEF w
    <2>3. 1 \in 1 .. 2 /\ 2 \in 1 .. 2 /\ 2 + 1 = 3 /\ 2 + 2 = 4
      OBVIOUS
    <2>4. w[2 + 1] = t[1] /\ w[2 + 2] = t[2] /\ w[1] = s[1] /\ w[2] = s[2]
      BY <2>2, <2>3
    <2> QED
      BY <2>2, <2>3, <2>4
  <1>v. r = w \o u
    BY <1>3
  <1> HIDE DEF w
  <1>c. /\ r \in Seq(Nat) /\ Len(r) = Len(w) + Len(u)
        /\ (\A i \in 1 .. Len(w) : r[i] = w[i]) /\ \A i \in 1 .. Len(u) : r[Len(w) + i] = u[i]
    <2>1. w \in Seq(Nat) /\ u \in Seq(Nat)
      BY <1>2, <1>w
    <2>2. /\ w \o u \in Seq(Nat) /\ Len(w \o u) = Len(w) + Len(u)
          /\ \A i \in 1 .. Len(w) : (w \o u)[i] = w[i]
          /\ \A i \in 1 .. Len(u) : (w \o u)[Len(w) + i] = u[i]
      BY <2>1, JoinIs
    <2> QED
      BY <1>v, <2>2
  <1>4. r \in Seq(Nat) /\ Len(r) = n + 4
    BY <1>2, <1>w, <1>c
  <1>5. r[1] = s[1] /\ r[2] = s[2] /\ r[3] = t[1] /\ r[4] = t[2] /\ \A i \in 1 .. n : r[4 + i] = u[i]
    BY <1>2, <1>w, <1>c
  <1>6. Word(r, 1) = n /\ Word(r, 1 + 2) = addr
    BY <1>1, <1>5 DEF Word
  <1>7. Records(r, 1, n + 5, {1})
    BY <1>6 DEF Records
  <1>8. Agree(r, {1}, at)
    <2> SUFFICES ASSUME NEW k \in 0 .. n - 1 PROVE r[1 + 4 + k] = ByteOf(at, addr + k)
      BY <1>6 DEF Agree
    <2>1. k + 1 \in 1 .. n /\ 4 + (k + 1) = 1 + 4 + k /\ addr + (k + 1) - 1 = addr + k
      OBVIOUS
    <2> QED
      BY <1>2, <1>5, <2>1
  <1>9. Reach(r, {1}, addr .. addr + n - 1)
    <2> SUFFICES ASSUME NEW a \in addr .. addr + n - 1 PROVE \E k \in 0 .. n - 1 : a = addr + k
      BY <1>6 DEF Reach
    <2>1. a - addr \in 0 .. n - 1 /\ a = addr + (a - addr)
      OBVIOUS
    <2> QED
      BY <2>1
  <1>10. Carries(r, 1, n + 5, at, addr .. addr + n - 1)
    BY <1>7, <1>8, <1>9 DEF Carries
  <1>11. n + 5 = Len(r) + 1
    BY <1>4
  <1> QED
    BY <1>4, <1>10, <1>11 DEF Strings, r

\* Multiples of m.
LEMMA Multiples ==
    ASSUME NEW m \in Nat
    PROVE  /\ \A k \in Nat : k * m \in Nat /\ (k + 1) * m = k * m + m
           /\ 0 * m = 0
           /\ \A j, k \in Nat : j <= k => j * m <= k * m
  <1>1. \A k \in Nat : k * m \in Nat /\ (k + 1) * m = k * m + m
    OBVIOUS
  <1>2. 0 * m = 0
    OBVIOUS
  <1>3. ASSUME NEW j \in Nat, NEW k \in Nat, j <= k PROVE j * m <= k * m
    <2>1. PICK d \in Nat : k = j + d
      BY <1>3
    <2>2. k * m = j * m + d * m /\ d * m \in Nat /\ j * m \in Nat
      BY <2>1
    <2> QED
      BY <2>2
  <1> QED
    BY <1>1, <1>2, <1>3

\* i2c.c:50: a chunk becomes records of no more than MaxRecord bytes.
LEMMA ChunkCarries ==
    ASSUME NEW image, NEW at, NEW start \in Nat, NEW length \in Nat, MaxRecord \in Nat \ {0},
           \A a \in start .. start + length - 1 : Masked(image, a) \in Nat /\ Masked(image, a) = ByteOf(at, a)
    PROVE  dumpChunk(image, start, length) \in Strings(at, start .. start + length - 1)
  <1> DEFINE pieces == (length + MaxRecord - 1) \div MaxRecord
             P(k) == k * MaxRecord
             from(k) == start + P(k - 1)
             size(k) == Min({MaxRecord, start + length - from(k)})
             record(k) == RecordOf(image, from(k), size(k))
             upTo(k) == start .. start + (IF k < pieces THEN P(k) ELSE length) - 1
             s == [k \in 1 .. pieces |-> record(k)]
             I == [k \in 0 .. pieces |-> Strings(at, upTo(k))]
  <1>1. dumpChunk(image, start, length) = FlattenSeq(s)
    BY DEF dumpChunk, RecordOf, Masked
  <1>2. /\ \A k \in Nat : P(k) \in Nat /\ P(k + 1) = P(k) + MaxRecord
        /\ P(0) = 0
        /\ \A j, k \in Nat : j <= k => P(j) <= P(k)
    BY Multiples
  <1>3. pieces \in Nat /\ P(pieces) >= length /\ P(pieces) < length + MaxRecord /\ (pieces = 0 => length = 0)
    <2>1. length + MaxRecord - 1 \in Nat
      OBVIOUS
    <2>2. PICK q \in Nat, r \in 0 .. MaxRecord - 1 : pieces = q /\ length + MaxRecord - 1 = MaxRecord * q + r
      BY <2>1, Quotients
    <2> HIDE DEF pieces
    <2>3. PICK z \in Int : z = q * MaxRecord
      BY <2>2
    <2>4. MaxRecord * q = z
      BY <2>2, <2>3
    <2>5. q = 0 => z = 0
      BY <2>2, <2>3
    <2> QED
      BY <2>2, <2>3, <2>4, <2>5
  <1> HIDE DEF pieces, P
  <1>4. ASSUME NEW k \in 1 .. pieces
        PROVE  /\ from(k) \in Nat /\ from(k) >= start /\ size(k) \in 0 .. MaxRecord
               /\ from(k) + size(k) = start + (IF k < pieces THEN P(k) ELSE length)
               /\ from(k) = start + (IF k - 1 < pieces THEN P(k - 1) ELSE length)
    <2>1. k \in Nat /\ k - 1 \in Nat /\ (k - 1) + 1 = k /\ k - 1 < pieces
      BY <1>3
    <2>2. P(k - 1) \in Nat /\ P(k) = P(k - 1) + MaxRecord /\ P(k) <= P(pieces)
      <3>1. PICK j \in Nat : j = k - 1 /\ j + 1 = k
        BY <2>1
      <3>2. P(j) \in Nat /\ P(j + 1) = P(j) + MaxRecord
        BY <1>2
      <3>3. k <= pieces
        BY <1>3
      <3> QED
        BY <1>2, <1>3, <2>1, <3>1, <3>2, <3>3
    <2>3. PICK y \in Nat, z \in Nat, w \in Nat : y = P(k - 1) /\ z = P(k) /\ w = P(pieces)
      BY <1>2, <1>3, <2>1, <2>2
    <2>4. z = y + MaxRecord /\ z <= w /\ w >= length /\ w < length + MaxRecord
      BY <1>3, <2>2, <2>3
    <2>5. k < pieces => z + MaxRecord <= w
      <3> SUFFICES ASSUME k < pieces PROVE z + MaxRecord <= w
        OBVIOUS
      <3>1. k + 1 \in Nat /\ k + 1 <= pieces
        BY <1>3, <2>1
      <3>2. P(k + 1) = P(k) + MaxRecord /\ P(k + 1) <= P(pieces)
        BY <1>2, <1>3, <2>1, <3>1
      <3> QED
        BY <2>3, <3>2
    <2>6. k >= pieces => z = w
      <3>1. k >= pieces => k = pieces
        BY <1>3
      <3> QED
        BY <2>3, <3>1
    <2>7. from(k) = start + y
      BY <2>3
    <2>8. size(k) = IF MaxRecord <= length - y THEN MaxRecord ELSE length - y
      <3>1. start + length - from(k) = length - y
        BY <2>3, <2>7
      <3> QED
        BY <2>3, <3>1, MinOfTwo
    <2> HIDE DEF from, size
    <2> QED
      BY <1>3, <2>1, <2>3, <2>4, <2>5, <2>6, <2>7, <2>8
  <1>5. ASSUME NEW k \in 1 .. pieces
        PROVE  record(k) \in Strings(at, from(k) .. from(k) + size(k) - 1)
    <2>1. from(k) + size(k) <= start + length
      <3>0. k \in Nat /\ k + 1 \in Nat
        BY <1>3
      <3>1. k \in Nat /\ k + 1 \in Nat /\ P(k) \in Nat
        BY <1>2, <3>0
      <3>2. k < pieces => P(k) <= length
        <4> SUFFICES ASSUME k < pieces PROVE P(k) <= length
          OBVIOUS
        <4>1. P(k + 1) = P(k) + MaxRecord /\ P(k + 1) <= P(pieces) /\ P(pieces) \in Nat
          BY <1>2, <1>3, <3>1
        <4>2. PICK z \in Nat, w \in Nat : z = P(k) /\ w = P(pieces)
          BY <3>1, <4>1
        <4>3. z + MaxRecord <= w /\ w < length + MaxRecord
          BY <1>3, <4>1, <4>2
        <4> QED
          BY <4>2, <4>3
      <3> HIDE DEF from, size
      <3> QED
        BY <1>3, <1>4, <3>1, <3>2
    <2> DEFINE b == from(k)
               n == size(k)
    <2>2. b \in Nat /\ n \in 0 .. MaxRecord /\ b >= start /\ b + n <= start + length
      BY <1>4, <2>1
    <2> HIDE DEF b, n
    <2>3. \A a \in b .. b + n - 1 : a \in start .. start + length - 1
      BY <2>2
    <2>4. RecordOf(image, b, n) \in Strings(at, b .. b + n - 1)
      BY <2>2, <2>3, RecordCarries
    <2> QED
      BY <2>4 DEF b, n
  <1> HIDE DEF from, size
  <1>6. s \in Seq(Seq(Nat)) /\ Len(s) = pieces /\ \A k \in 1 .. pieces : s[k] = record(k)
    <2>1. \A k \in 1 .. pieces : record(k) \in Seq(Nat)
      BY <1>5 DEF Strings
    <2> HIDE DEF record
    <2> QED
      BY <1>3, <2>1
  <1>7. <<>> \in I[0]
    <2>1. I[0] = Strings(at, upTo(0)) /\ (0 < pieces \/ pieces = 0)
      BY <1>3
    <2>2. upTo(0) = {}
      <3>1. (IF 0 < pieces THEN P(0) ELSE length) = 0
        BY <1>2, <1>3, <2>1
      <3>2. upTo(0) = start .. start + 0 - 1
        BY <3>1
      <3>3. start .. start + 0 - 1 = {}
        OBVIOUS
      <3> HIDE DEF upTo
      <3> QED
        BY <3>2, <3>3
    <2>3. Carries(<<>>, 1, 1, at, {})
      BY CarryNothing
    <2>4. <<>> \in Seq(Nat) /\ Len(<<>>) + 1 = 1
      OBVIOUS
    <2> QED
      BY <2>1, <2>2, <2>3, <2>4 DEF Strings
  <1>8. ASSUME NEW k \in 1 .. pieces, NEW x \in I[k - 1]
        PROVE  x \o s[k] \in I[k]
    <2>1. k \in 0 .. pieces /\ k - 1 \in 0 .. pieces
      BY <1>3
    <2>2. I[k - 1] = Strings(at, upTo(k - 1)) /\ I[k] = Strings(at, upTo(k))
      BY <2>1
    <2> DEFINE b == from(k)
               n == size(k)
               e == IF k < pieces THEN P(k) ELSE length
               d == IF k - 1 < pieces THEN P(k - 1) ELSE length
    <2>3. b \in Nat /\ b >= start /\ n \in Nat /\ b + n = start + e /\ b = start + d /\ d \in Nat /\ e \in Nat
      <3>1. P(k) \in Nat /\ P(k - 1) \in Nat
        BY <1>2, <1>3, <2>1
      <3> QED
        BY <1>4, <3>1
    <2>4. upTo(k) = start .. start + e - 1 /\ upTo(k - 1) = start .. start + d - 1
      OBVIOUS
    <2> HIDE DEF b, n, d, e, upTo
    <2>5. upTo(k) = upTo(k - 1) \cup (b .. b + n - 1)
      BY <2>3, <2>4
    <2>6. record(k) \in Strings(at, b .. b + n - 1)
      BY <1>5 DEF b, n
    <2> HIDE DEF record
    <2>7. x \o record(k) \in Strings(at, upTo(k - 1) \cup (b .. b + n - 1))
      BY <2>2, <2>6, StringsJoin
    <2> QED
      BY <1>6, <2>2, <2>5, <2>7
  <1> HIDE DEF I, s
  <1>9. FlattenSeq(s) \in I[pieces]
    BY <1>6, <1>7, <1>8, FlattenInduction
  <1>10. I[pieces] = Strings(at, start .. start + length - 1)
    <2>1. pieces \in 0 .. pieces /\ ~(pieces < pieces)
      BY <1>3
    <2> QED
      BY <2>1 DEF I
  <1> QED
    BY <1>1, <1>9, <1>10

LEMMA StringsLess ==
    ASSUME NEW at, NEW C, NEW D, NEW x \in Strings(at, C), D \subseteq C
    PROVE  x \in Strings(at, D)
  <1>1. x \in Seq(Nat) /\ Carries(x, 1, Len(x) + 1, at, C)
    BY DEF Strings
  <1>2. PICK S \in SUBSET Nat : Records(x, 1, Len(x) + 1, S) /\ Agree(x, S, at) /\ Reach(x, S, C)
    BY <1>1 DEF Carries
  <1>3. Reach(x, S, D)
    BY <1>2 DEF Reach
  <1>4. Carries(x, 1, Len(x) + 1, at, D)
    BY <1>1, <1>2, <1>3 DEF Carries
  <1> QED
    BY <1>1, <1>4 DEF Strings

LEMMA NoString ==
    ASSUME NEW at
    PROVE  <<>> \in Strings(at, {})
  <1>1. Carries(<<>>, 1, 1, at, {})
    BY CarryNothing
  <1>2. <<>> \in Seq(Nat) /\ Len(<<>>) + 1 = 1
    OBVIOUS
  <1> QED
    BY <1>1, <1>2 DEF Strings

\* The loop of i2cWritePromRecords, and what its state has in it.
FirstOf(image, bit, from) ==
    Min({a \in from .. Len(image.data) - 1 : image.mask[a + 1] = bit} \cup {Len(image.data)})
IsHole(image, i) == \A k \in 1 .. 4 : image.mask[i + k] = 0
ChunkStep(image, p) ==
    LET n == Len(image.data)
        hole == FirstOf(image, 0, p.i)
        dumped(end) == p.bytes \o dumpChunk(image, p.start, end - p.start)
        behind == FirstOf(image, 1, hole + 4)
    IN  IF hole >= n - 4 THEN [start |-> n, i |-> n, bytes |-> dumped(n)]
        ELSE IF IsHole(image, hole) THEN [start |-> behind, i |-> behind, bytes |-> dumped(hole)]
        ELSE [p EXCEPT !.i = FirstOf(image, 1, hole)]
ChunkStart(image) == [start |-> FirstOf(image, 1, 0), i |-> FirstOf(image, 1, 0), bytes |-> <<>>]
ChunkStates(image, at) ==
    {p \in [start : 0 .. Len(image.data), i : 0 .. Len(image.data), bytes : Seq(Nat)] :
        /\ p.start <= p.i /\ (p.i = Len(image.data) => p.start = Len(image.data))
        /\ p.bytes \in Strings(at, {a \in Covered(image) : a < p.start})}

LEMMA FirstIs ==
    ASSUME NEW image \in Images, NEW bit, NEW from \in 0 .. Len(image.data)
    PROVE  LET f == FirstOf(image, bit, from)
           IN  /\ f \in from .. Len(image.data)
               /\ \A a \in from .. f - 1 : image.mask[a + 1] # bit
               /\ f < Len(image.data) => image.mask[f + 1] = bit
  <1> DEFINE n == Len(image.data)
             S == {a \in from .. n - 1 : image.mask[a + 1] = bit} \cup {n}
             f == FirstOf(image, bit, from)
  <1>1. n \in Nat
    BY DEF Images
  <1>2. S \subseteq from .. n /\ S # {} /\ S \subseteq Nat
    BY <1>1
  <1>3. f \in S /\ \A y \in S : f <= y
    <2>1. f = Min(S)
      BY DEF FirstOf
    <2> HIDE DEF S, f
    <2> QED
      BY <1>2, <2>1, MinIs
  <1>4. ASSUME NEW a \in from .. f - 1 PROVE image.mask[a + 1] # bit
    <2>1. f \in from .. n
      BY <1>2, <1>3
    <2> HIDE DEF f
    <2>2. a \in from .. n - 1 /\ a < f
      BY <1>1, <2>1
    <2>3. a \notin S
      <3> HIDE DEF S
      <3> QED
        BY <1>1, <1>3, <2>1, <2>2
    <2> QED
      BY <2>2, <2>3
  <1>5. f < n => image.mask[f + 1] = bit
    <2> HIDE DEF f
    <2> QED
      BY <1>1, <1>3
  <1>6. f \in from .. n
    BY <1>2, <1>3
  <1> QED
    BY <1>4, <1>5, <1>6

LEMMA ShownIsMasked ==
    ASSUME NEW image \in Images, NEW at, Shows(image, at), NEW a \in 0 .. Len(image.data) - 1
    PROVE  Masked(image, a) \in Nat /\ Masked(image, a) = ByteOf(at, a)
  <1>1. /\ image.data \in Seq(Nat) /\ image.mask \in Seq({0, 1}) /\ Len(image.mask) = Len(image.data)
        /\ Len(image.data) \in Nat /\ a + 1 \in 1 .. Len(image.data)
    BY DEF Images
  <1>2. image.data[a + 1] \in Nat /\ image.mask[a + 1] \in {0, 1}
    BY <1>1
  <1>3. CASE image.mask[a + 1] = 1
    <2>1. a \in Covered(image)
      BY <1>1, <1>3 DEF Covered
    <2> QED
      BY <1>2, <1>3, <2>1 DEF Shows, Masked
  <1>4. CASE image.mask[a + 1] = 0
    <2>1. a \notin Covered(image)
      BY <1>4 DEF Covered
    <2> QED
      BY <1>4, <2>1 DEF Shows, Masked, ByteOf
  <1> QED
    BY <1>2, <1>3, <1>4

\* i2c.c:103: a turn of the loop keeps what it should, and gets on.
LEMMA ChunkSteps ==
    ASSUME MaxRecord \in Nat \ {0}, NEW image \in Images, NEW at, Shows(image, at),
           NEW p \in ChunkStates(image, at), p.i < Len(image.data)
    PROVE  ChunkStep(image, p) \in ChunkStates(image, at) /\ ChunkStep(image, p).i > p.i
  <1> DEFINE n == Len(image.data)
             hole == FirstOf(image, 0, p.i)
             dumped(end) == p.bytes \o dumpChunk(image, p.start, end - p.start)
             behind == FirstOf(image, 1, hole + 4)
             next == FirstOf(image, 1, hole)
             q == ChunkStep(image, p)
             ahead(b) == {a \in Covered(image) : a < b}
  <1>1. /\ n \in Nat /\ Len(image.mask) = n /\ image.mask \in Seq({0, 1})
        /\ p \in [start : 0 .. n, i : 0 .. n, bytes : Seq(Nat)] /\ p.start <= p.i
        /\ p.bytes \in Strings(at, ahead(p.start))
    BY DEF Images, ChunkStates
  <1>2. hole \in p.i .. n /\ (hole < n => image.mask[hole + 1] = 0)
    BY <1>1, FirstIs
  <1>3. Covered(image) = {a \in 0 .. n - 1 : image.mask[a + 1] = 1}
    BY <1>1 DEF Covered
  <1> HIDE DEF hole
  <1>4. ASSUME NEW end \in p.i .. n, NEW b \in 0 .. n, \A a \in end .. b - 1 : image.mask[a + 1] # 1
        PROVE  dumped(end) \in Strings(at, ahead(b))
    <2> DEFINE length == end - p.start
               chunk == p.start .. p.start + length - 1
    <2>1. length \in Nat /\ p.start \in Nat /\ p.start + length = end /\ end <= n
      BY <1>1
    <2>2. \A a \in chunk : a \in 0 .. n - 1
      BY <1>1, <2>1
    <2>3. \A a \in chunk : Masked(image, a) \in Nat /\ Masked(image, a) = ByteOf(at, a)
      BY <2>2, ShownIsMasked
    <2>4. dumpChunk(image, p.start, length) \in Strings(at, chunk)
      <3> HIDE DEF length
      <3> QED
        BY <2>1, <2>3, ChunkCarries
    <2>5. dumped(end) \in Strings(at, ahead(p.start) \cup chunk)
      <3> HIDE DEF chunk, ahead
      <3>1. MaxRecord \in Nat
        OBVIOUS
      <3> QED
        BY <1>1, <2>4, <3>1, StringsJoin
    <2>6. ahead(b) \subseteq ahead(p.start) \cup chunk
      <3> SUFFICES ASSUME NEW a \in ahead(b), a >= p.start PROVE a \in chunk
        BY <1>1, <1>3
      <3>1. a \in 0 .. n - 1 /\ a < b /\ image.mask[a + 1] = 1
        BY <1>3
      <3>2. a < end
        BY <1>1, <1>4, <3>1
      <3> QED
        BY <1>1, <2>1, <3>1, <3>2
    <2> HIDE DEF ahead, chunk
    <2> QED
      BY <2>5, <2>6, StringsLess
  <1>5. CASE hole >= n - 4
    <2>1. q = [start |-> n, i |-> n, bytes |-> dumped(n)]
      BY <1>5 DEF ChunkStep, hole
    <2>2. dumped(n) \in Strings(at, ahead(n))
      <3>1. n \in p.i .. n /\ n \in 0 .. n /\ \A a \in n .. n - 1 : FALSE
        BY <1>1
      <3> HIDE DEF dumped, ahead
      <3> QED
        BY <1>4, <3>1
    <2>3. dumped(n) \in Seq(Nat)
      BY <2>2 DEF Strings
    <2> HIDE DEF q
    <2>20. /\ q \in [start : 0 .. n, i : 0 .. n, bytes : Seq(Nat)]
           /\ q.start <= q.i /\ (q.i = n => q.start = n) /\ q.i > p.i
           /\ q.bytes \in Strings(at, ahead(q.start))
      <3> HIDE DEF ahead, dumped
      <3> QED
        BY <1>1, <2>1, <2>2, <2>3
    <2> QED
      BY <2>20 DEF ChunkStates, q
  <1>6. CASE ~(hole >= n - 4) /\ IsHole(image, hole)
    <2>0. hole + 4 \in 0 .. n /\ hole < n - 4 /\ hole \in Nat
      BY <1>1, <1>2, <1>6
    <2>1. q = [start |-> behind, i |-> behind, bytes |-> dumped(hole)]
      BY <1>6 DEF ChunkStep, hole
    <2>2. behind \in hole + 4 .. n /\ \A a \in hole + 4 .. behind - 1 : image.mask[a + 1] # 1
      BY <2>0, FirstIs
    <2> HIDE DEF behind
    <2>3. \A a \in hole .. behind - 1 : image.mask[a + 1] # 1
      <3> SUFFICES ASSUME NEW a \in hole .. behind - 1, a < hole + 4 PROVE image.mask[a + 1] = 0
        BY <2>0, <2>2
      <3>1. a - hole + 1 \in 1 .. 4 /\ hole + (a - hole + 1) = a + 1
        BY <2>0
      <3> QED
        BY <1>6, <3>1 DEF IsHole
    <2>4. behind \in 0 .. n /\ behind > p.i /\ hole \in p.i .. n
      BY <1>1, <1>2, <2>0, <2>2
    <2>5. dumped(hole) \in Strings(at, ahead(behind))
      <3> HIDE DEF dumped, ahead
      <3> QED
        BY <1>4, <2>3, <2>4
    <2>6. dumped(hole) \in Seq(Nat)
      BY <2>5 DEF Strings
    <2> HIDE DEF q
    <2>20. /\ q \in [start : 0 .. n, i : 0 .. n, bytes : Seq(Nat)]
           /\ q.start <= q.i /\ (q.i = n => q.start = n) /\ q.i > p.i
           /\ q.bytes \in Strings(at, ahead(q.start))
      <3> HIDE DEF ahead, dumped
      <3> QED
        BY <1>1, <2>1, <2>4, <2>5, <2>6
    <2> QED
      BY <2>20 DEF ChunkStates, q
  <1>7. CASE ~(hole >= n - 4) /\ ~IsHole(image, hole)
    <2>0. hole \in 0 .. n /\ hole < n - 4 /\ hole \in Nat
      BY <1>1, <1>2, <1>7
    <2>1. q = [p EXCEPT !.i = next]
      BY <1>7 DEF ChunkStep, hole
    <2>2. next \in hole .. n /\ (next < n => image.mask[next + 1] = 1) /\ \A a \in hole .. next - 1 : image.mask[a + 1] # 1
      BY <2>0, FirstIs
    <2> HIDE DEF next
    <2>3. PICK k \in 1 .. 4 : image.mask[hole + k] # 0
      BY <1>7 DEF IsHole
    <2>4. image.mask[hole + k] = 1
      <3>1. hole + k \in 1 .. n
        BY <1>1, <2>0
      <3> QED
        BY <1>1, <2>3, <3>1
    <2>5. next < n
      <3> SUFFICES ASSUME next = n PROVE FALSE
        BY <2>0, <2>2
      <3>1. hole + k - 1 \in hole .. next - 1 /\ hole + k - 1 + 1 = hole + k
        BY <1>1, <2>0
      <3> QED
        BY <2>2, <2>4, <3>1
    <2>6. next # hole
      BY <1>2, <2>0, <2>2, <2>5, <1>1
    <2>7. next \in 0 .. n /\ next > p.i
      BY <1>1, <1>2, <2>0, <2>2, <2>6
    <2>8. q = [start |-> p.start, i |-> next, bytes |-> p.bytes]
      BY <1>1, <2>1
    <2>9. p.start <= next
      BY <1>1, <2>7
    <2> HIDE DEF q
    <2>20. /\ q \in [start : 0 .. n, i : 0 .. n, bytes : Seq(Nat)]
           /\ q.start <= q.i /\ (q.i = n => q.start = n) /\ q.i > p.i
           /\ q.bytes \in Strings(at, ahead(q.start))
      <3> HIDE DEF ahead, dumped
      <3> QED
        BY <1>1, <2>5, <2>7, <2>8, <2>9
    <2> QED
      BY <2>20 DEF ChunkStates, q
  <1> QED
    BY <1>5, <1>6, <1>7

ChunkGoes(image, p) == p.i < Len(image.data)

\* i2c.c:103: the loop over the chunks ends, in what its steps keep to.
LEMMA ChunkLoop ==
    ASSUME NEW image, NEW S, ChunkStart(image) \in S, Len(image.data) \in Nat,
           \A p \in S : p.i \in 0 .. Len(image.data),
           \A p \in S : ChunkGoes(image, p) => /\ ChunkStep(image, p) \in S
                                     /\ ChunkStep(image, p).i > p.i /\ p.i < Len(image.data),
           ChunkStart(image).i + Len(image.data) >= Len(image.data)
    PROVE  \E p \in S : ~ChunkGoes(image, p) /\ i2cWritePromRecords(image) = p.bytes
  <1> DEFINE n == Len(image.data)
             F == [p \in S |-> IF ChunkGoes(image, p) THEN ChunkStep(image, p) ELSE p]
             going == {p \in S : ChunkGoes(image, p)}
             grown == [p \in S |-> p.i]
             Body(f, k) == IF k = 0 THEN ChunkStart(image)
                           ELSE LET p == f[k - 1] IN IF ChunkGoes(image, p) THEN ChunkStep(image, p) ELSE p
             Runs(f) == f = [k \in 0 .. n |-> Body(f, k)]
             run == CHOOSE f : Runs(f)
  <1>1. n \in Nat
    OBVIOUS
  <1>2. \A p \in S : F[p] = IF ChunkGoes(image, p) THEN ChunkStep(image, p) ELSE p
    OBVIOUS
  <1>3. Progresses(S, F, going, grown, Len(image.data))
    <2>1. F \in [S -> S] /\ grown \in [S -> Int] /\ Len(image.data) \in Int
      OBVIOUS
    <2>2. \A p \in S : p \notin going => F[p] = p
      BY <1>2
    <2>3. ASSUME NEW p \in S, p \in going PROVE grown[p] < Len(image.data) /\ grown[F[p]] > grown[p]
      <3>1. ChunkGoes(image, p) /\ F[p] = ChunkStep(image, p)
        BY <1>2, <2>3
      <3>2. F[p] \in S /\ F[p].i > p.i /\ p.i < Len(image.data)
        BY <3>1
      <3>3. grown[F[p]] = F[p].i /\ grown[p] = p.i
        BY <3>2
      <3> HIDE DEF F, grown
      <3> QED
        BY <3>2, <3>3
    <2> HIDE DEF F, going, grown
    <2> QED
      BY <2>1, <2>2, <2>3 DEF Progresses
  <1>4. grown[ChunkStart(image)] + n >= Len(image.data)
    OBVIOUS
  <1>5. PICK f : Turns(f, S, ChunkStart(image), F, n) /\ f[n] \in S /\ f[n] \notin going
    <2>1. Ends(S, ChunkStart(image), F, going, grown, Len(image.data), n)
      <3> HIDE DEF F, going, grown, n
      <3> QED
        BY <1>1, <1>3, <1>4 DEF Ends
    <2> HIDE DEF F, going, grown, n
    <2> QED
      BY <2>1, LoopEnds
  <1>6. Runs(f)
    <2>1. f \in [0 .. n -> S] /\ f[0] = ChunkStart(image) /\ \A k \in 1 .. n : f[k] = F[f[k - 1]]
      BY <1>5 DEF Turns
    <2>2. ASSUME NEW k \in 0 .. n PROVE f[k] = Body(f, k)
      <3>1. CASE k = 0
        BY <2>1, <3>1
      <3>2. CASE k # 0
        <4>1. k \in 1 .. n /\ k - 1 \in 0 .. n
          BY <1>1, <3>2
        <4>2. f[k - 1] \in S /\ f[k] = F[f[k - 1]]
          BY <2>1, <4>1
        <4> HIDE DEF F
        <4> QED
          BY <1>2, <3>2, <4>2
      <3> QED
        BY <3>1, <3>2
    <2>3. f = [k \in 0 .. n |-> f[k]]
      BY <2>1
    <2> HIDE DEF F, n, Body
    <2> QED
      BY <2>2, <2>3
  <1>7. Runs(run)
    <2> HIDE DEF Runs
    <2> QED
      BY <1>6
  <1>8. i2cWritePromRecords(image) = run[n].bytes
    BY DEF i2cWritePromRecords, While, ChunkStart, ChunkStep, ChunkGoes, FirstOf, IsHole
  <1>9. run[n] = f[n]
    <2>1. \A k \in 0 .. n : run[k] = Body(run, k)
      <3> HIDE DEF run, n, Body
      <3> QED
        BY <1>7
    <2>2. \A k \in 0 .. n : f[k] = Body(f, k)
      <3> HIDE DEF n, Body
      <3> QED
        BY <1>6
    <2> DEFINE T == {k \in 0 .. n : run[k] = f[k]}
    <2>3. 0 \in T
      <3> HIDE DEF run
      <3> QED
        BY <1>1, <2>1, <2>2
    <2>4. ASSUME NEW k \in 1 .. n, k - 1 \in T PROVE k \in T
      <3>1. k \in 0 .. n /\ k - 1 \in 0 .. n /\ k # 0 /\ run[k - 1] = f[k - 1]
        BY <2>4
      <3> HIDE DEF run
      <3> QED
        BY <2>1, <2>2, <3>1
    <2> HIDE DEF T, n
    <2>5. n \in Nat /\ \A k \in 1 .. n : k - 1 \in T => k \in T
      BY <1>1, <2>4
    <2>6. 0 .. n \subseteq T
      BY ONLY <2>3, <2>5, Counting
    <2>7. n \in T
      BY <2>5, <2>6
    <2> QED
      BY <2>7 DEF T
  <1> QED
    <2>1. ~ChunkGoes(image, f[n])
      BY <1>5
    <2> HIDE DEF run, n
    <2> QED
      BY <1>5, <1>8, <1>9, <2>1

\* What is written from an image has what is meant by it.
LEMMA PromCarries ==
    ASSUME MaxRecord \in Nat \ {0}, NEW image \in Images, NEW at, Shows(image, at)
    PROVE  i2cWritePromRecords(image) \in Strings(at, DOMAIN at)
  <1> DEFINE n == Len(image.data)
             S == ChunkStates(image, at)
             a == ChunkStart(image)
  <1>1. n \in Nat /\ Len(image.mask) = n
    BY DEF Images
  <1>2. a \in S
    <2> DEFINE f == FirstOf(image, 1, 0)
    <2>1. f \in 0 .. n /\ \A b \in 0 .. f - 1 : image.mask[b + 1] # 1
      BY <1>1, FirstIs
    <2> HIDE DEF f
    <2> DEFINE C == {b \in Covered(image) : b < f}
    <2>2. C = {}
      BY <1>1, <2>1 DEF Covered
    <2>4. a = [start |-> f, i |-> f, bytes |-> <<>>]
      BY DEF ChunkStart, f
    <2>3. <<>> \in Strings(at, C) /\ <<>> \in Seq(Nat)
      <3> HIDE DEF C
      <3>1. <<>> \in Strings(at, {})
        BY NoString
      <3> QED
        BY <2>2, <3>1
    <2> HIDE DEF a
    <2>5. /\ a \in [start : 0 .. n, i : 0 .. n, bytes : Seq(Nat)]
          /\ a.start <= a.i /\ (a.i = n => a.start = n)
          /\ a.bytes \in Strings(at, {b \in Covered(image) : b < a.start})
      <3>1. a.start = f /\ a.i = f /\ a.bytes = <<>>
        BY <2>4
      <3>2. {b \in Covered(image) : b < a.start} = C
        BY <3>1
      <3>3. a.bytes \in Strings(at, {b \in Covered(image) : b < a.start})
        BY <2>3, <3>1, <3>2
      <3> DEFINE D == {b \in Covered(image) : b < a.start}
      <3> HIDE DEF C, D
      <3>4. a.bytes \in Strings(at, D)
        BY <3>3 DEF D
      <3>5. /\ a \in [start : 0 .. n, i : 0 .. n, bytes : Seq(Nat)]
            /\ a.start <= a.i /\ (a.i = n => a.start = n)
        BY <1>1, <2>1, <2>3, <2>4, <3>1
      <3> QED
        BY <3>4, <3>5 DEF D
    <2> QED
      BY <2>5 DEF ChunkStates, a
  <1>3. \A p \in S : p.i \in 0 .. n
    BY DEF ChunkStates
  <1>4. \A p \in S : ChunkGoes(image, p) =>
            ChunkStep(image, p) \in S /\ ChunkStep(image, p).i > p.i /\ p.i < n
    BY ChunkSteps DEF ChunkGoes
  <1>5. a.i + n >= n
    BY <1>1, <1>2, <1>3
  <1>6. PICK p \in S : ~ChunkGoes(image, p) /\ i2cWritePromRecords(image) = p.bytes
    <2> HIDE DEF S
    <2> QED
      BY <1>1, <1>2, <1>3, <1>4, <1>5, ChunkLoop
  <1>7. p.i = n
    BY <1>1, <1>3, <1>6 DEF ChunkGoes
  <1>8. p.bytes \in Strings(at, {b \in Covered(image) : b < n})
    BY <1>7 DEF ChunkStates
  <1>9. DOMAIN at \subseteq {b \in Covered(image) : b < n}
    BY <1>1 DEF Shows, Covered
  <1> QED
    BY <1>6, <1>8, <1>9, StringsLess

-----------------------------------------------------------------------------
(* What the chip boots from.                                                 *)

\* A C2 load: records that have what is meant, and the one that starts the chip.
Delivers(bytes, at) ==
    /\ bytes \in Seq(Nat) /\ Len(bytes) >= HeaderBytes + 5 /\ bytes[1] = 194
    /\ \E end \in Nat : /\ end + 3 <= Len(bytes) /\ Word(bytes, end) >= 32768
                        /\ Carries(bytes, HeaderBytes + 1, end, at, DOMAIN at)

\* fx2.c:144: what is flashed for an image delivers what is meant by it.
THEOREM PromDelivers ==
    ASSUME MaxRecord \in Nat \ {0}, NEW image \in Images, NEW at, Shows(image, at)
    PROVE  Delivers(PromOf(image), at)
  <1> DEFINE x == i2cWritePromRecords(image)
             y == i2cInitialise \o x
             z == y \o i2cFinalise
             l == Len(x)
  <1>1. x \in Seq(Nat) /\ Carries(x, 1, Len(x) + 1, at, DOMAIN at) /\ l \in Nat
    BY PromCarries DEF Strings
  <1> HIDE DEF x
  <1>2. i2cInitialise \in Seq(Nat) /\ Len(i2cInitialise) = 8 /\ i2cInitialise[1] = 194
    BY DEF i2cInitialise
  <1>3. i2cFinalise \in Seq(Nat) /\ Len(i2cFinalise) = 5 /\ i2cFinalise[1] = 128 /\ i2cFinalise[2] = 1
    BY DEF i2cFinalise
  <1>4. /\ y \in Seq(Nat) /\ Len(y) = 8 + l /\ y[1] = 194
        /\ \A i \in 1 .. l : y[8 + i] = x[i]
    <2>1. /\ i2cInitialise \o x \in Seq(Nat) /\ Len(i2cInitialise \o x) = Len(i2cInitialise) + Len(x)
          /\ \A i \in 1 .. Len(i2cInitialise) : (i2cInitialise \o x)[i] = i2cInitialise[i]
          /\ \A i \in 1 .. Len(x) : (i2cInitialise \o x)[Len(i2cInitialise) + i] = x[i]
      <3>1. i2cInitialise \in Seq(Nat) /\ x \in Seq(Nat)
        BY <1>1, <1>2
      <3> QED
        BY <3>1, JoinIs
    <2>3. y = i2cInitialise \o x /\ l = Len(x)
      OBVIOUS
    <2> HIDE DEF y, l
    <2>4. /\ y \in Seq(Nat) /\ Len(y) = 8 + l
          /\ \A i \in 1 .. 8 : y[i] = i2cInitialise[i]
          /\ \A i \in 1 .. l : y[8 + i] = x[i]
      BY <1>2, <2>1, <2>3
    <2>2. 1 \in 1 .. 8
      OBVIOUS
    <2> QED
      BY <1>2, <2>2, <2>4
  <1> HIDE DEF y
  <1>5. /\ z \in Seq(Nat) /\ Len(z) = 13 + l /\ z[1] = 194 /\ z[9 + l] = 128 /\ z[10 + l] = 1
        /\ \A i \in 1 .. l : z[i + 8] = x[i]
    <2>1. /\ y \o i2cFinalise \in Seq(Nat) /\ Len(y \o i2cFinalise) = Len(y) + Len(i2cFinalise)
          /\ \A i \in 1 .. Len(y) : (y \o i2cFinalise)[i] = y[i]
          /\ \A i \in 1 .. Len(i2cFinalise) : (y \o i2cFinalise)[Len(y) + i] = i2cFinalise[i]
      <3>1. y \in Seq(Nat) /\ i2cFinalise \in Seq(Nat)
        BY <1>3, <1>4
      <3> QED
        BY <3>1, JoinIs
    <2>0. z = y \o i2cFinalise
      OBVIOUS
    <2> HIDE DEF z, l
    <2>7. Len(y) = 8 + l /\ Len(i2cFinalise) = 5 /\ 8 + l + 5 = 13 + l
      BY <1>1, <1>3, <1>4
    <2>2. z \in Seq(Nat) /\ Len(z) = 13 + l /\ (\A i \in 1 .. 8 + l : z[i] = y[i]) /\ \A i \in 1 .. 5 : z[8 + l + i] = i2cFinalise[i]
      BY <2>0, <2>1, <2>7
    <2>3. 1 \in 1 .. 8 + l /\ 1 \in 1 .. 5 /\ 2 \in 1 .. 5 /\ 8 + l + 1 = 9 + l /\ 8 + l + 2 = 10 + l
      BY <1>1
    <2>4. z[1] = y[1] /\ z[9 + l] = i2cFinalise[1] /\ z[10 + l] = i2cFinalise[2]
      BY <2>2, <2>3
    <2>5. \A i \in 1 .. l : i + 8 \in 1 .. 8 + l /\ i + 8 = 8 + i
      BY <1>1
    <2>6. ASSUME NEW i \in 1 .. l PROVE z[i + 8] = x[i]
      <3>1. z[8 + i] = y[8 + i] /\ y[8 + i] = x[i]
        BY <1>4, <2>2, <2>5
      <3> QED
        BY <2>5, <3>1
    <2> QED
      BY <1>3, <1>4, <2>2, <2>4, <2>6
  <1>6. PromOf(image) = z
    BY DEF PromOf, z, y, x
  <1> HIDE DEF z, l
  <1>7. Carries(z, 9, l + 9, at, DOMAIN at)
    <2>1. Carries(x, 1, l + 1, at, DOMAIN at) /\ 8 \in Nat /\ MaxRecord \in Nat
      BY <1>1 DEF l
    <2>2. \A i \in 1 .. (l + 1) - 1 : z[i + 8] = x[i]
      BY <1>1, <1>5
    <2>3. Carries(z, 1 + 8, l + 1 + 8, at, DOMAIN at)
      BY <2>1, <2>2, CarryAway
    <2>4. 1 + 8 = 9 /\ l + 1 + 8 = l + 9
      BY <1>1
    <2> QED
      BY <2>3, <2>4
  <1>8. Word(z, l + 9) >= 32768
    <2>1. l + 9 = 9 + l /\ l + 9 + 1 = 10 + l
      BY <1>1
    <2>2. Word(z, l + 9) = 128 * 256 + 1
      BY <1>5, <2>1 DEF Word
    <2> QED
      BY <2>2
  <1>9. l + 9 \in Nat /\ l + 9 + 3 <= 13 + l /\ 13 + l >= 8 + 5
    BY <1>1
  <1> QED
    BY <1>5, <1>6, <1>7, <1>8, <1>9 DEF Delivers, HeaderBytes

-----------------------------------------------------------------------------
(* The records followed from one to the next.                                *)

LEMMA RecordAt ==
    ASSUME NEW bs, NEW from \in Nat, NEW to \in Nat, MaxRecord \in Nat,
           NEW S \in SUBSET Nat, Records(bs, from, to, S), NEW p \in S
    PROVE  \E w \in 0 .. MaxRecord, b \in Nat :
               /\ Word(bs, p) = w /\ Word(bs, p) % (MaxRecord + 1) = w /\ Word(bs, p + 2) = b
               /\ p \in from .. to - 1 /\ p + 4 + w \in S \cup {to} /\ p + 4 + w <= to
               /\ \A q \in S : q < p + 4 + w => q <= p
  <1>1. PICK w \in 0 .. MaxRecord : Word(bs, p) = w
    BY DEF Records
  <1>2. PICK b \in Nat : Word(bs, p + 2) = b
    BY DEF Records
  <1>3. p \in from .. to - 1 /\ S \subseteq from .. to - 1 /\ p + 4 + w \in S \cup {to}
    BY <1>1 DEF Records
  <1>4. p + 4 + w <= to
    BY <1>3
  <1>5. w % (MaxRecord + 1) = w
    <2> DEFINE m == MaxRecord + 1
    <2>1. m \in Nat \ {0} /\ w \in 0 .. m - 1 /\ w \in Nat
      OBVIOUS
    <2> HIDE DEF m
    <2>2. PICK q \in Nat, r \in 0 .. m - 1 : w \div m = q /\ w % m = r /\ w = m * q + r
      BY <2>1, Quotients
    <2>3. q = 0
      <3> SUFFICES ASSUME q # 0 PROVE FALSE
        OBVIOUS
      <3>1. PICK j \in Nat : q = j + 1
        <4>1. q - 1 \in Nat /\ q = (q - 1) + 1
          BY <2>1
        <4> QED
          BY <4>1
      <3>2. m * q = m * j + m /\ m * j \in Nat
        BY <2>1, <3>1
      <3> DEFINE mj == m * j
      <3> HIDE DEF mj
      <3>3. w = mj + m + r /\ mj \in Nat
        BY <2>2, <3>2 DEF mj
      <3> QED
        BY <2>1, <3>3
    <2>4. m * q = 0
      BY <2>1, <2>3
    <2>5. w = r
      <3> DEFINE mq == m * q
      <3>1. mq = 0 /\ w = mq + r
        BY <2>2, <2>4
      <3> HIDE DEF mq
      <3> QED
        BY <3>1
    <2> QED
      BY <2>2, <2>5
  <1>6. ASSUME NEW q \in S, q < p + 4 + w PROVE q <= p
    BY <1>1, <1>6 DEF Records
  <1> QED
    BY <1>1, <1>2, <1>3, <1>4, <1>5, <1>6

\* The loop of i2cReadPromRecords, and what its state has in it.
PromLength(source, at) == Word(source, at) % (MaxRecord + 1)
PromGoes(source, p) == p.at <= Len(source) /\ Word(source, p.at) < 32768
PromStep(source, p) ==
    [at |-> p.at + 4 + PromLength(source, p.at),
     image |-> Put(p.image, Word(source, p.at + 2),
                   SubSeq(source, p.at + 4, p.at + 3 + PromLength(source, p.at)))]
PromRead(source, p) ==
    IF Len(source) < HeaderBytes + 5 \/ source[1] # 194 THEN [image |-> Empty, ok |-> FALSE]
    ELSE [image |-> p.image, ok |-> TRUE]
PromStart == [at |-> HeaderBytes + 1, image |-> Empty]
PromStates(source, S, end, at) ==
    {p \in [at : S \cup {end}, image : Images] :
        /\ \A a \in Covered(p.image) : p.image.data[a + 1] = ByteOf(at, a)
        /\ \A q \in S : q < p.at =>
               \A k \in 0 .. Word(source, q) - 1 : Word(source, q + 2) + k \in Covered(p.image)}
PromOver(source, S, end) ==
    /\ source \in Seq(Nat) /\ end \in Nat /\ end + 3 <= Len(source)
    /\ Word(source, end) \in Nat /\ Word(source, end) >= 32768
    /\ S \in SUBSET Nat /\ Records(source, HeaderBytes + 1, end, S)

\* i2c.c:189: one record.
LEMMA PromSteps ==
    ASSUME MaxRecord \in Nat, NEW source, NEW S, NEW end, NEW at, PromOver(source, S, end), Agree(source, S, at),
           NEW p \in PromStates(source, S, end, at), PromGoes(source, p)
    PROVE  /\ PromStep(source, p) \in PromStates(source, S, end, at)
           /\ PromStep(source, p).at > p.at /\ p.at < end
  <1> DEFINE q == PromStep(source, p)
             im == p.image
  <1>1. /\ source \in Seq(Nat) /\ end \in Nat /\ end + 3 <= Len(source) /\ Word(source, end) >= 32768
        /\ Word(source, end) \in Nat /\ S \in SUBSET Nat /\ Records(source, 9, end, S)
    BY DEF PromOver, HeaderBytes
  <1>2. p \in [at : S \cup {end}, image : Images] /\ p.at # end
    <2>1. PICK w \in Nat : w = Word(source, end) /\ w >= 32768
      BY <1>1
    <2>2. p.at # end
      BY <2>1 DEF PromGoes
    <2> QED
      BY <2>2 DEF PromStates
  <1>3. PICK l \in S : l = p.at
    BY <1>2
  <1>4. PICK w \in 0 .. MaxRecord, b \in Nat :
               /\ Word(source, l) = w /\ Word(source, l) % (MaxRecord + 1) = w /\ Word(source, l + 2) = b
               /\ l \in 9 .. end - 1 /\ l + 4 + w \in S \cup {end} /\ l + 4 + w <= end
               /\ \A r \in S : r < l + 4 + w => r <= l
    <2>1. 9 \in Nat
      OBVIOUS
    <2> QED
      BY <1>1, <2>1, RecordAt
  <1> DEFINE block == SubSeq(source, l + 4, l + 3 + w)
             out == Put(im, b, block)
             given == b .. b + Len(block) - 1
  <1>5. q = [at |-> l + 4 + w, image |-> out]
    BY <1>3, <1>4 DEF PromStep, PromLength
  <1>6. l \in Nat /\ l + 4 + w <= end /\ l > 0 /\ w \in Nat
    BY <1>1, <1>4
  <1>7. block \in Seq(Nat) /\ Len(block) = w /\ \A i \in 1 .. w : block[i] = source[l + 3 + i]
    <2>1. l + 4 >= 1 /\ l + 3 + w <= Len(source) /\ l + 4 <= l + 3 + w + 1 /\ l + 4 \in Nat /\ l + 3 + w \in Nat /\ Len(source) \in Nat
      BY <1>1, <1>6
    <2> QED
      BY <1>1, <1>6, <2>1
  <1> HIDE DEF block
  <1>8. /\ out \in Images /\ Covered(out) = Covered(im) \cup given
        /\ \A a \in given : out.data[a + 1] = block[a - b + 1]
        /\ \A a \in Covered(im) \ given : out.data[a + 1] = im.data[a + 1]
    <2>1. im \in Images /\ block \in Seq(Nat)
      BY <1>2, <1>7
    <2> HIDE DEF im
    <2> QED
      BY <2>1, PutIs
  <1>9. given = b .. b + w - 1
    BY <1>7
  <1> HIDE DEF out, given
  <1>10. ASSUME NEW a \in Covered(out) PROVE out.data[a + 1] = ByteOf(at, a)
    <2>1. CASE a \in given
      <3>1. PICK k \in 0 .. w - 1 : a = b + k
        <4>1. a - b \in 0 .. w - 1 /\ a = b + (a - b)
          BY <1>9, <2>1
        <4> QED
          BY <4>1
      <3>2. source[l + 4 + k] = ByteOf(at, b + k)
        BY <1>4 DEF Agree
      <3>3. a - b + 1 \in 1 .. w /\ l + 3 + (a - b + 1) = l + 4 + k
        BY <1>6, <3>1
      <3>4. block[a - b + 1] = source[l + 4 + k]
        BY <1>7, <3>3
      <3> QED
        BY <1>6, <1>8, <2>1, <3>1, <3>2, <3>4
    <2>2. CASE a \notin given
      BY <1>8, <2>2 DEF PromStates
    <2> QED
      BY <2>1, <2>2
  <1>11. ASSUME NEW r \in S, r < l + 4 + w, NEW k \in 0 .. Word(source, r) - 1
         PROVE  Word(source, r + 2) + k \in Covered(out)
    <2>1. r <= l
      BY <1>4, <1>11
    <2>2. CASE r = l
      <3>1. k \in 0 .. w - 1 /\ Word(source, r + 2) = b
        BY <1>4, <2>2
      <3> QED
        BY <1>8, <1>9, <3>1
    <2>3. CASE r # l
      <3>1. r < p.at
        <4>1. r \in Nat
          BY <1>1
        <4> QED
          BY <1>3, <1>6, <2>1, <2>3, <4>1
      <3> QED
        BY <1>8, <3>1 DEF PromStates
    <2> QED
      BY <2>2, <2>3
  <1> HIDE DEF q
  <1>12. q \in [at : S \cup {end}, image : Images] /\ q.at = l + 4 + w /\ q.image = out
    BY <1>4, <1>5, <1>8
  <1>13. q.at > p.at /\ p.at < end
    <2>1. l + 4 + w > l /\ l < end
      BY <1>1, <1>6
    <2> QED
      BY <1>3, <1>12, <2>1
  <1>14. q \in PromStates(source, S, end, at)
    <2>1. \A r \in S : r < q.at => \A k \in 0 .. Word(source, r) - 1 : Word(source, r + 2) + k \in Covered(q.image)
      BY <1>11, <1>12
    <2>2. \A a \in Covered(q.image) : q.image.data[a + 1] = ByteOf(at, a)
      BY <1>10, <1>12
    <2> QED
      BY <1>12, <2>1, <2>2 DEF PromStates
  <1> QED
    BY <1>13, <1>14 DEF q

\* i2c.c:189: the loop over the records ends, in what its steps keep to.
LEMMA PromLoop ==
    ASSUME NEW source, NEW end \in Int, NEW S, PromStart \in S, Len(source) \in Nat,
           \A p \in S : p.at \in 0 .. end,
           \A p \in S : PromGoes(source, p) => /\ PromStep(source, p) \in S
                                     /\ PromStep(source, p).at > p.at /\ p.at < end,
           PromStart.at + Len(source) >= end
    PROVE  \E p \in S : ~PromGoes(source, p) /\ i2cReadPromRecords(source) = PromRead(source, p)
  <1> DEFINE n == Len(source)
             F == [p \in S |-> IF PromGoes(source, p) THEN PromStep(source, p) ELSE p]
             going == {p \in S : PromGoes(source, p)}
             grown == [p \in S |-> p.at]
             Body(f, k) == IF k = 0 THEN PromStart
                           ELSE LET p == f[k - 1] IN IF PromGoes(source, p) THEN PromStep(source, p) ELSE p
             Runs(f) == f = [k \in 0 .. n |-> Body(f, k)]
             run == CHOOSE f : Runs(f)
  <1>1. n \in Nat
    OBVIOUS
  <1>2. \A p \in S : F[p] = IF PromGoes(source, p) THEN PromStep(source, p) ELSE p
    OBVIOUS
  <1>3. Progresses(S, F, going, grown, end)
    <2>1. F \in [S -> S] /\ grown \in [S -> Int] /\ end \in Int
      OBVIOUS
    <2>2. \A p \in S : p \notin going => F[p] = p
      BY <1>2
    <2>3. ASSUME NEW p \in S, p \in going PROVE grown[p] < end /\ grown[F[p]] > grown[p]
      <3>1. PromGoes(source, p) /\ F[p] = PromStep(source, p)
        BY <1>2, <2>3
      <3>2. F[p] \in S /\ F[p].at > p.at /\ p.at < end
        BY <3>1
      <3>3. grown[F[p]] = F[p].at /\ grown[p] = p.at
        BY <3>2
      <3> HIDE DEF F, grown
      <3> QED
        BY <3>2, <3>3
    <2> HIDE DEF F, going, grown
    <2> QED
      BY <2>1, <2>2, <2>3 DEF Progresses
  <1>4. grown[PromStart] + n >= end
    OBVIOUS
  <1>5. PICK f : Turns(f, S, PromStart, F, n) /\ f[n] \in S /\ f[n] \notin going
    <2>1. Ends(S, PromStart, F, going, grown, end, n)
      <3> HIDE DEF F, going, grown, n
      <3> QED
        BY <1>1, <1>3, <1>4 DEF Ends
    <2> HIDE DEF F, going, grown, n
    <2> QED
      BY <2>1, LoopEnds
  <1>6. Runs(f)
    <2>1. f \in [0 .. n -> S] /\ f[0] = PromStart /\ \A k \in 1 .. n : f[k] = F[f[k - 1]]
      BY <1>5 DEF Turns
    <2>2. ASSUME NEW k \in 0 .. n PROVE f[k] = Body(f, k)
      <3>1. CASE k = 0
        BY <2>1, <3>1
      <3>2. CASE k # 0
        <4>1. k \in 1 .. n /\ k - 1 \in 0 .. n
          BY <1>1, <3>2
        <4>2. f[k - 1] \in S /\ f[k] = F[f[k - 1]]
          BY <2>1, <4>1
        <4> HIDE DEF F
        <4> QED
          BY <1>2, <3>2, <4>2
      <3> QED
        BY <3>1, <3>2
    <2>3. f = [k \in 0 .. n |-> f[k]]
      BY <2>1
    <2> HIDE DEF F, n, Body
    <2> QED
      BY <2>2, <2>3
  <1>7. Runs(run)
    <2> HIDE DEF Runs
    <2> QED
      BY <1>6
  <1>8. i2cReadPromRecords(source) = PromRead(source, run[n])
    BY DEF PromRead, i2cReadPromRecords, While, PromStart, PromStep, PromGoes, PromLength
  <1>9. run[n] = f[n]
    <2>1. \A k \in 0 .. n : run[k] = Body(run, k)
      <3> HIDE DEF run, n, Body
      <3> QED
        BY <1>7
    <2>2. \A k \in 0 .. n : f[k] = Body(f, k)
      <3> HIDE DEF n, Body
      <3> QED
        BY <1>6
    <2> DEFINE T == {k \in 0 .. n : run[k] = f[k]}
    <2>3. 0 \in T
      <3> HIDE DEF run
      <3> QED
        BY <1>1, <2>1, <2>2
    <2>4. ASSUME NEW k \in 1 .. n, k - 1 \in T PROVE k \in T
      <3>1. k \in 0 .. n /\ k - 1 \in 0 .. n /\ k # 0 /\ run[k - 1] = f[k - 1]
        BY <2>4
      <3> HIDE DEF run
      <3> QED
        BY <2>1, <2>2, <3>1
    <2> HIDE DEF T, n
    <2>5. n \in Nat /\ \A k \in 1 .. n : k - 1 \in T => k \in T
      BY <1>1, <2>4
    <2>6. 0 .. n \subseteq T
      BY ONLY <2>3, <2>5, Counting
    <2>7. n \in T
      BY <2>5, <2>6
    <2> QED
      BY <2>7 DEF T
  <1> QED
    <2>1. ~PromGoes(source, f[n])
      BY <1>5
    <2> HIDE DEF run, n
    <2> QED
      BY <1>5, <1>8, <1>9, <2>1

\* The length of a record has not the bit of the last one.
ShortRecords == MaxRecord < 32768

\* i2c.c:171: what is read from a load has what the load delivers.
THEOREM PromIsRead ==
    ASSUME MaxRecord \in Nat, ShortRecords, NEW source, NEW at, Delivers(source, at)
    PROVE  LET read == i2cReadPromRecords(source)
           IN  read.ok /\ read.image \in Images /\ Shows(read.image, at)
  <1>1. /\ source \in Seq(Nat) /\ Len(source) >= HeaderBytes + 5 /\ source[1] = 194 /\ Len(source) \in Nat
    BY DEF Delivers
  <1>2. PICK end \in Nat : /\ end + 3 <= Len(source) /\ Word(source, end) >= 32768
                           /\ Carries(source, HeaderBytes + 1, end, at, DOMAIN at)
    BY DEF Delivers
  <1>3. PICK S \in SUBSET Nat : /\ Records(source, HeaderBytes + 1, end, S) /\ Agree(source, S, at)
                                /\ Reach(source, S, DOMAIN at)
    BY <1>2 DEF Carries
  <1>4. PromOver(source, S, end) /\ Word(source, end) \in Nat
    <2>1. end >= 9
      BY <1>2 DEF Carries, HeaderBytes
    <2>2. source[end] \in Nat /\ source[end + 1] \in Nat
      <3>1. end \in 1 .. Len(source) /\ end + 1 \in 1 .. Len(source)
        BY <1>1, <1>2, <2>1
      <3> QED
        BY <1>1, <3>1
    <2>3. Word(source, end) \in Nat
      BY <2>2 DEF Word
    <2> QED
      BY <1>1, <1>2, <1>3, <2>3 DEF PromOver
  <1> DEFINE M == PromStates(source, S, end, at)
             a == PromStart
  <1>5. S \subseteq HeaderBytes + 1 .. end - 1 /\ HeaderBytes + 1 \in S \cup {end}
    BY <1>3 DEF Records
  <1>6. a \in M
    <2>1. a.at = HeaderBytes + 1 /\ a.image = Empty /\ a \in [at : S \cup {end}, image : Images]
      BY <1>5, EmptyImage DEF PromStart
    <2>2. Covered(a.image) = {}
      BY <2>1, EmptyImage
    <2>3. \A q \in S : ~(q < a.at)
      BY <1>5, <2>1 DEF HeaderBytes
    <2> HIDE DEF a
    <2> QED
      BY <2>1, <2>2, <2>3 DEF PromStates
  <1> HIDE DEF M, a
  <1>s. \A p \in M : p \in [at : S \cup {end}, image : Images]
    BY DEF M, PromStates
  <1>t. \A p \in M : \A b \in Covered(p.image) : p.image.data[b + 1] = ByteOf(at, b)
    BY DEF M, PromStates
  <1>u. \A p \in M : \A q \in S : q < p.at =>
             \A k \in 0 .. Word(source, q) - 1 : Word(source, q + 2) + k \in Covered(p.image)
    BY DEF M, PromStates
  <1>7. \A p \in M : p.at \in 0 .. end
    <2>1. S \cup {end} \subseteq 0 .. end
      BY <1>5 DEF HeaderBytes
    <2>2. ASSUME NEW p \in M PROVE p.at \in 0 .. end
      <3>1. p.at \in S \cup {end}
        BY <1>s
      <3>2. PICK x \in S \cup {end} : x = p.at
        BY <3>1
      <3>3. x \in 0 .. end
        BY <2>1
      <3> QED
        BY <3>2, <3>3
    <2> QED
      BY <2>2
  <1>8. ASSUME NEW p \in M, PromGoes(source, p)
        PROVE  PromStep(source, p) \in M /\ PromStep(source, p).at > p.at /\ p.at < end
    <2>1. p \in PromStates(source, S, end, at) /\ MaxRecord \in Nat
      BY DEF M
    <2> QED
      BY <1>3, <1>4, <1>8, <2>1, PromSteps DEF M
  <1>9. PromStart.at + Len(source) >= end /\ PromStart \in M
    BY <1>1, <1>2, <1>6 DEF PromStart, HeaderBytes, a
  <1>10. PICK p \in M : ~PromGoes(source, p) /\ i2cReadPromRecords(source) = [image |-> p.image, ok |-> TRUE]
    <2>1. PICK p \in M : ~PromGoes(source, p) /\ i2cReadPromRecords(source) =
                PromRead(source, p)
      <3>1. Len(source) \in Nat /\ end \in Int
        BY <1>1
      <3>2. \A p \in M : PromGoes(source, p) =>
                /\ PromStep(source, p) \in M
                /\ PromStep(source, p).at > p.at /\ p.at < end
        BY <1>8
      <3> QED
        BY <1>7, <1>9, <3>1, <3>2, PromLoop
    <2>2. PromRead(source, p) = [image |-> p.image, ok |-> TRUE]
      BY <1>1 DEF PromRead, HeaderBytes
    <2> QED
      BY <2>1, <2>2
  <1>11. p.at = end
    <2> SUFFICES ASSUME p.at # end PROVE FALSE
      OBVIOUS
    <2>0. PICK l \in S \cup {end} : l = p.at
      BY <1>s
    <2>1. l \in S /\ l = p.at
      BY <2>0
    <2>2. Word(source, l) \in 0 .. MaxRecord /\ l \in HeaderBytes + 1 .. end - 1
      <3>1. l \in HeaderBytes + 1 .. end - 1
        BY <1>5, <2>1
      <3>2. Word(source, l) \in 0 .. MaxRecord
        BY <1>3, <2>1 DEF Records
      <3> QED
        BY <3>1, <3>2
    <2>3. l <= Len(source)
      BY <1>1, <1>2, <2>2 DEF HeaderBytes
    <2>4. Word(source, l) < 32768
      <3>1. PICK w \in 0 .. MaxRecord : w = Word(source, l)
        BY <2>2
      <3> QED
        BY <3>1 DEF ShortRecords
    <2> QED
      BY <1>10, <2>1, <2>3, <2>4 DEF PromGoes
  <1>12. \A q \in S : q < p.at
    BY <1>5, <1>11 DEF HeaderBytes
  <1>13. DOMAIN at \subseteq Covered(p.image)
    <2> SUFFICES ASSUME NEW b \in DOMAIN at PROVE b \in Covered(p.image)
      OBVIOUS
    <2>1. PICK q \in S : \E k \in 0 .. Word(source, q) - 1 : b = Word(source, q + 2) + k
      BY <1>3 DEF Reach
    <2>2. \A k \in 0 .. Word(source, q) - 1 : Word(source, q + 2) + k \in Covered(p.image)
      BY <1>u, <1>12
    <2> QED
      BY <2>1, <2>2
  <1>14. p.image \in Images /\ Shows(p.image, at)
    BY <1>s, <1>t, <1>13 DEF Shows
  <1> QED
    BY <1>10, <1>14

\* More behind a load does not matter.
LEMMA DeliversMore ==
    ASSUME MaxRecord \in Nat, NEW x, NEW y \in Seq(Nat), NEW at, Delivers(x, at), Len(x) <= Len(y),
           \A i \in 1 .. Len(x) : y[i] = x[i]
    PROVE  Delivers(y, at)
  <1>1. x \in Seq(Nat) /\ Len(x) >= 13 /\ x[1] = 194 /\ Len(x) \in Nat /\ Len(y) \in Nat
    BY DEF Delivers, HeaderBytes
  <1>2. PICK end \in Nat : /\ end + 3 <= Len(x) /\ Word(x, end) >= 32768
                           /\ Carries(x, HeaderBytes + 1, end, at, DOMAIN at)
    BY DEF Delivers
  <1>3. HeaderBytes + 1 = 9
    BY DEF HeaderBytes
  <1>4. end >= 9 /\ Carries(x, 9, end, at, DOMAIN at)
    BY <1>2, <1>3 DEF Carries
  <1>5. Carries(y, 9, end, at, DOMAIN at)
    <2>1. \A i \in 9 .. end - 1 : y[i + 0] = x[i]
      BY <1>1, <1>2
    <2>2. Carries(y, 9 + 0, end + 0, at, DOMAIN at)
      <3>1. 0 \in Nat
        OBVIOUS
      <3> QED
        BY <1>4, <2>1, <3>1, CarryAway
    <2> QED
      BY <2>2
  <1>6. Word(y, end) = Word(x, end)
    <2>1. end \in 1 .. Len(x) /\ end + 1 \in 1 .. Len(x)
      BY <1>1, <1>2, <1>4
    <2> QED
      BY <2>1 DEF Word
  <1>7. y[1] = 194 /\ end + 3 <= Len(y) /\ Len(y) >= HeaderBytes + 5
    <2>1. HeaderBytes + 5 = 13 /\ 1 \in 1 .. Len(x)
      BY <1>1 DEF HeaderBytes
    <2>2. y[1] = x[1]
      BY <2>1
    <2> QED
      BY <1>1, <1>2, <2>1, <2>2
  <1> QED
    BY <1>2, <1>3, <1>5, <1>6, <1>7 DEF Delivers

-----------------------------------------------------------------------------
(* A file that is written, and read again.                                   *)

LEMMA Remainders ==
    ASSUME NEW m \in Nat \ {0}, NEW q \in Nat, NEW r \in 0 .. m - 1, NEW n \in Nat, n = m * q + r
    PROVE  n % m = r /\ n \div m = q
  <1>1. PICK p \in Nat, s \in 0 .. m - 1 : n \div m = p /\ n % m = s /\ n = m * p + s
    BY Quotients
  <1> DEFINE mq == q * m
             mp == p * m
  <1>2. mq \in Nat /\ mp \in Nat /\ mq + r = mp + s
    <2>1. mq \in Nat /\ mp \in Nat
      BY Multiples
    <2>2. m * q = mq /\ m * p = mp
      OBVIOUS
    <2> QED
      BY <1>1, <2>1, <2>2
  <1>3. ~(q < p)
    <2> SUFFICES ASSUME q < p PROVE FALSE
      OBVIOUS
    <2>1. q + 1 \in Nat /\ q + 1 <= p
      OBVIOUS
    <2>2. (q + 1) * m <= mp /\ (q + 1) * m = mq + m
      BY <2>1, Multiples
    <2> DEFINE z == (q + 1) * m
    <2> HIDE DEF mq, mp, z
    <2>3. z <= mp /\ z = mq + m
      BY <2>2 DEF mq, mp, z
    <2> QED
      BY <1>2, <2>3
  <1>4. ~(p < q)
    <2> SUFFICES ASSUME p < q PROVE FALSE
      OBVIOUS
    <2>1. p + 1 \in Nat /\ p + 1 <= q
      OBVIOUS
    <2>2. (p + 1) * m <= mq /\ (p + 1) * m = mp + m
      BY <2>1, Multiples
    <2> DEFINE z == (p + 1) * m
    <2> HIDE DEF mq, mp, z
    <2>3. z <= mq /\ z = mp + m
      BY <2>2 DEF mq, mp, z
    <2> QED
      BY <1>2, <2>3
  <1>5. p = q
    BY <1>3, <1>4
  <1>6. r = s
    <2>1. mq = mp
      BY <1>5
    <2> HIDE DEF mq, mp
    <2> QED
      BY <1>2, <2>1
  <1> QED
    BY <1>1, <1>5, <1>6

\* Where the segment of an address begins.
SegmentOf(a) == a - (a % SegmentBytes)

LEMMA SegmentsBegin ==
    ASSUME NEW a \in Nat
    PROVE  /\ SegmentOf(a) \in 0 .. a /\ SegmentOf(a) + (a % SegmentBytes) = a /\ a % SegmentBytes \in Nat
           /\ a % SegmentBytes = 0 => SegmentOf(a) = a /\ (a \div Paragraph) * Paragraph = a /\ a \div Paragraph \in Nat
           /\ a % SegmentBytes # 0 => a > 0 /\ SegmentOf(a - 1) = SegmentOf(a)
  <1> DEFINE m == SegmentBytes
  <1>1. m \in Nat \ {0} /\ Paragraph \in Nat \ {0} /\ m % Paragraph = 0
    BY ImageAssumption
  <1> HIDE DEF m
  <1>2. PICK q \in Nat, r \in 0 .. m - 1 : a \div m = q /\ a % m = r /\ a = m * q + r
    BY <1>1, Quotients
  <1> DEFINE mq == q * m
  <1>3. mq \in Nat /\ a = mq + r
    <2>1. mq \in Nat
      BY <1>1, Multiples
    <2>2. m * q = mq
      BY <1>1
    <2> QED
      BY <1>2, <2>1, <2>2
  <1>4. SegmentOf(a) = a - r /\ a - r = mq
    <2>1. SegmentOf(a) = a - r
      BY <1>2 DEF SegmentOf, m
    <2> HIDE DEF mq
    <2>2. a - r = mq
      BY <1>1, <1>3
    <2> QED
      BY <2>1, <2>2
  <1>5. SegmentOf(a) \in 0 .. a /\ SegmentOf(a) + r = a
    <2> HIDE DEF mq
    <2> QED
      BY <1>1, <1>3, <1>4
  <1>6. ASSUME r = 0 PROVE SegmentOf(a) = a /\ (a \div Paragraph) * Paragraph = a /\ a \div Paragraph \in Nat
    <2>1. PICK u \in Nat, v \in 0 .. Paragraph - 1 : m \div Paragraph = u /\ m % Paragraph = v /\ m = Paragraph * u + v
      BY <1>1, Quotients
    <2>2. v = 0
      BY <1>1, <2>1
    <2>3. m = Paragraph * u
      <3> DEFINE z == Paragraph * u
      <3>1. z \in Nat
        BY <1>1
      <3> HIDE DEF z
      <3>2. m = z + v
        BY <2>1 DEF z
      <3> QED
        BY <2>2, <3>1, <3>2 DEF z
    <2>4. a = q * (Paragraph * u)
      <3>1. a = mq
        <4> HIDE DEF mq
        <4> QED
          BY <1>3, <1>6
      <3> QED
        BY <2>3, <3>1
    <2>5. a = Paragraph * (q * u) + 0 /\ q * u \in Nat
      BY <1>1, <2>4
    <2>6. a \div Paragraph = q * u
      <3> DEFINE w == q * u
      <3>1. w \in Nat /\ a = Paragraph * w + 0
        BY <2>5
      <3> HIDE DEF w
      <3>2. 0 \in 0 .. Paragraph - 1
        BY <1>1
      <3>3. a \div Paragraph = w
        BY <1>1, <3>1, <3>2, Remainders
      <3> QED
        BY <3>3 DEF w
    <2>7. (q * u) * Paragraph = Paragraph * (q * u)
      BY <1>1
    <2> DEFINE w == q * u
               y == Paragraph * w
               z == w * Paragraph
    <2>8. y \in Nat /\ z = y /\ a = y + 0
      BY <1>1, <2>5, <2>7
    <2> HIDE DEF y, z
    <2>9. z = a
      BY <2>8
    <2>10. SegmentOf(a) = a
      <3> HIDE DEF mq
      <3> QED
        BY <1>4, <1>6
    <2> QED
      BY <2>5, <2>6, <2>9, <2>10 DEF z
  <1>7. ASSUME r # 0 PROVE a > 0 /\ SegmentOf(a - 1) = SegmentOf(a)
    <2>1. a > 0 /\ a - 1 \in Nat /\ r - 1 \in 0 .. m - 1 /\ a - 1 = m * q + (r - 1)
      <3>1. m * q = mq
        BY <1>1
      <3> HIDE DEF mq
      <3> QED
        BY <1>1, <1>3, <1>7, <3>1
    <2>2. (a - 1) % m = r - 1
      BY <1>1, <2>1, Remainders
    <2>3. SegmentOf(a - 1) = (a - 1) - (r - 1)
      BY <2>2 DEF SegmentOf, m
    <2>4. (a - 1) - (r - 1) = a - r
      BY <1>1
    <2> QED
      BY <1>4, <2>1, <2>3, <2>4
  <1>8. a % SegmentBytes = r /\ r \in Nat
    BY <1>2 DEF m
  <1> QED
    BY <1>5, <1>6, <1>7, <1>8

\* The operators of bufWriteToIntelHexFile.
IsSet(image, a) == image.mask[a + 1] = 1
RunBegins(image, a) ==
    {b \in 0 .. a : /\ \A c \in b .. a : IsSet(image, c)
                    /\ b = 0 \/ b % SegmentBytes = 0 \/ ~IsSet(image, b - 1)}
RunStart(image, a) == Max(RunBegins(image, a))
Opens(image, a) == IsSet(image, a) /\ (a - RunStart(image, a)) % LineBytes = 0
LineEnds(image, a) ==
    {b \in a .. Min({a + LineBytes, Len(image.mask)}) - 1 :
        (\A c \in a .. b : IsSet(image, c)) /\ RunStart(image, b) = RunStart(image, a)}
LastOf(image, a) == Max(LineEnds(image, a))
SegmentLine(a) ==
    IF a > 0 /\ a % SegmentBytes = 0 THEN <<Record("segment", a \div Paragraph, <<>>)>> ELSE <<>>
DataRecord(image, a) ==
    Record("data", a % SegmentBytes, SubSeq(image.data, a + 1, LastOf(image, a) + 1))
DataLine(image, a) == IF Opens(image, a) THEN <<DataRecord(image, a)>> ELSE <<>>

\* The first of the line that an address is written in.
Opener(image, a) == a - ((a - RunStart(image, a)) % LineBytes)

LEMMA RunsStart ==
    ASSUME NEW image \in Images, NEW a \in Covered(image)
    PROVE  LET r == RunStart(image, a)
           IN  /\ r \in 0 .. a /\ \A c \in r .. a : IsSet(image, c)
               /\ \A b \in r .. a : RunStart(image, b) = r
  <1> DEFINE n == Len(image.mask)
             T == {b \in 0 .. a : \A c \in b .. a : IsSet(image, c)}
             B == RunBegins(image, a)
             r == RunStart(image, a)
  <1>1. n \in Nat /\ a \in 0 .. n - 1 /\ a \in Nat /\ IsSet(image, a)
    BY DEF Images, Covered, IsSet
  <1>2. PICK b \in T : \A y \in T : ~(y < b)
    <2>1. a \in T
      BY <1>1
    <2>2. T \subseteq Nat
      OBVIOUS
    <2> HIDE DEF T
    <2> QED
      BY <2>1, <2>2, Least
  <1>3. b \in B
    <2>1. b \in 0 .. a /\ \A c \in b .. a : IsSet(image, c)
      OBVIOUS
    <2>2. ASSUME b # 0, IsSet(image, b - 1) PROVE FALSE
      <3>1. b - 1 \in 0 .. a /\ b - 1 < b
        <4>1. b \in 0 .. a /\ b # 0
          BY <2>1, <2>2
        <4> HIDE DEF T
        <4> QED
          BY <1>1, <4>1
      <3>2. \A c \in b - 1 .. a : c = b - 1 \/ c \in b .. a
        BY <2>1
      <3>3. b - 1 \in T
        BY <2>1, <2>2, <3>1, <3>2
      <3> HIDE DEF T
      <3> QED
        BY <1>2, <3>1, <3>3
    <2> QED
      BY <2>1, <2>2 DEF RunBegins
  <1>4. r \in B /\ \A y \in B : y <= r
    <2>1. B \subseteq Nat /\ B # {} /\ \A y \in B : y <= a
      <3>1. B \subseteq 0 .. a /\ B # {}
        BY <1>3 DEF RunBegins
      <3> HIDE DEF B
      <3> QED
        BY <1>1, <3>1
    <2>2. r = Max(B)
      BY DEF RunStart
    <2> HIDE DEF B, r
    <2> QED
      BY <1>1, <2>1, <2>2, MaxIs
  <1> HIDE DEF r
  <1>5. /\ r \in 0 .. a /\ \A c \in r .. a : IsSet(image, c)
        /\ r = 0 \/ r % SegmentBytes = 0 \/ ~IsSet(image, r - 1)
    BY <1>4 DEF RunBegins
  <1>6. ASSUME NEW d \in r .. a PROVE RunStart(image, d) = r
    <2> DEFINE D == RunBegins(image, d)
               s == RunStart(image, d)
    <2>1. r \in D
      <3>1. r \in 0 .. d /\ \A c \in r .. d : c \in r .. a
        BY <1>1, <1>5
      <3> QED
        BY <1>5, <3>1 DEF RunBegins
    <2>2. s \in D /\ \A y \in D : y <= s
      <3>1. D \subseteq Nat /\ D # {} /\ d \in Nat /\ \A y \in D : y <= d
        <4>1. D \subseteq 0 .. d /\ D # {}
          BY <2>1 DEF RunBegins
        <4>2. d \in Nat
          BY <1>5
        <4> HIDE DEF D
        <4> QED
          BY <4>1, <4>2
      <3>2. s = Max(D)
        BY DEF RunStart
      <3> HIDE DEF D, s
      <3> QED
        BY <3>1, <3>2, MaxIs
    <2> HIDE DEF s
    <2>3. /\ s \in 0 .. d /\ \A c \in s .. d : IsSet(image, c)
          /\ s = 0 \/ s % SegmentBytes = 0 \/ ~IsSet(image, s - 1)
      BY <2>2 DEF RunBegins
    <2>4. r <= s
      BY <2>1, <2>2
    <2>5. s \in B
      <3>1. s \in 0 .. a
        BY <1>1, <1>5, <2>3
      <3>2. \A c \in s .. a : c \in s .. d \/ c \in r .. a
        BY <1>1, <1>5, <2>3
      <3> QED
        BY <1>5, <2>3, <3>1, <3>2 DEF RunBegins
    <2>6. s <= r
      BY <1>4, <2>5
    <2>7. s = r
      BY <1>5, <2>3, <2>4, <2>6
    <2> QED
      BY <2>7 DEF s
  <1> QED
    BY <1>5, <1>6 DEF r

\* hexio.c:310: every address that is set is in the line of its opener.
LEMMA LinesReach ==
    ASSUME NEW image \in Images, NEW a \in Covered(image)
    PROVE  LET o == Opener(image, a)
           IN  o \in 0 .. a /\ Opens(image, o) /\ a \in LineEnds(image, o)
  <1> DEFINE n == Len(image.mask)
             r == RunStart(image, a)
             o == Opener(image, a)
  <1>1. n \in Nat /\ a \in 0 .. n - 1 /\ LineBytes \in Nat \ {0}
    BY ImageAssumption DEF Images, Covered
  <1>2. r \in 0 .. a /\ (\A c \in r .. a : IsSet(image, c)) /\ \A b \in r .. a : RunStart(image, b) = r
    BY RunsStart
  <1> HIDE DEF r
  <1>3. PICK q \in Nat, s \in 0 .. LineBytes - 1 :
            (a - r) \div LineBytes = q /\ (a - r) % LineBytes = s /\ a - r = LineBytes * q + s
    <2>1. a - r \in Nat
      BY <1>1, <1>2
    <2> QED
      BY <1>1, <2>1, Quotients
  <1> DEFINE lq == LineBytes * q
  <1>4. lq \in Nat /\ a - r = lq + s
    BY <1>1, <1>3
  <1>5. lq % LineBytes = 0
    <2>1. lq = LineBytes * q + 0 /\ 0 \in 0 .. LineBytes - 1
      <3>1. lq = lq + 0
        <4> HIDE DEF lq
        <4> QED
          BY <1>4
      <3> QED
        BY <1>1, <3>1
    <2>2. lq \in Nat
      BY <1>4
    <2> HIDE DEF lq
    <2> QED
      BY <1>1, <2>1, <2>2, Remainders
  <1>6. o = a - s
    BY <1>3 DEF Opener, r
  <1> HIDE DEF lq, o
  <1>7. o \in r .. a /\ o - r = lq /\ o \in 0 .. a /\ a < o + LineBytes /\ o \in Nat
    BY <1>1, <1>2, <1>4, <1>6
  <1>8. RunStart(image, o) = r /\ IsSet(image, o)
    BY <1>2, <1>7
  <1>9. Opens(image, o)
    BY <1>5, <1>7, <1>8 DEF Opens
  <1>10. a \in LineEnds(image, o)
    <2>1. a <= Min({o + LineBytes, n}) - 1
      <3>1. o + LineBytes \in Int /\ n \in Int
        BY <1>1, <1>7
      <3>2. Min({o + LineBytes, n}) = IF o + LineBytes <= n THEN o + LineBytes ELSE n
        BY <3>1, MinOfTwo
      <3> QED
        BY <1>1, <1>7, <3>2
    <2>2. Min({o + LineBytes, n}) \in Int
      <3>1. o + LineBytes \in Int /\ n \in Int
        BY <1>1, <1>7
      <3>2. Min({o + LineBytes, n}) = IF o + LineBytes <= n THEN o + LineBytes ELSE n
        BY <3>1, MinOfTwo
      <3> QED
        BY <3>1, <3>2
    <2>3. a \in o .. Min({o + LineBytes, n}) - 1
      BY <1>1, <1>7, <2>1, <2>2
    <2>4. \A c \in o .. a : c \in r .. a
      BY <1>1, <1>2, <1>7
    <2>5. RunStart(image, a) = RunStart(image, o)
      BY <1>2, <1>8, <1>1
    <2> QED
      BY <1>2, <2>3, <2>4, <2>5 DEF LineEnds
  <1> QED
    BY <1>7, <1>9, <1>10 DEF o

\* hexio.c:310: a line has the bytes of its addresses, up to its last.
LEMMA LineHas ==
    ASSUME NEW image \in Images, NEW a \in 0 .. Len(image.mask) - 1, Opens(image, a)
    PROVE  LET l == LastOf(image, a)
           IN  /\ l \in a .. Len(image.mask) - 1 /\ \A c \in a .. l : c \in Covered(image)
               /\ \A c \in LineEnds(image, a) : c <= l
               /\ DataRecord(image, a) \in HexRecords /\ DataRecord(image, a).kind = "data"
               /\ DataRecord(image, a).at = a % SegmentBytes
               /\ Len(DataRecord(image, a).bytes) = l - a + 1
               /\ \A k \in 1 .. l - a + 1 : DataRecord(image, a).bytes[k] = image.data[a + k]
  <1> DEFINE n == Len(image.mask)
             E == LineEnds(image, a)
             l == LastOf(image, a)
             bs == SubSeq(image.data, a + 1, l + 1)
  <1>1. n \in Nat /\ a \in Nat /\ a <= n - 1 /\ LineBytes \in Nat \ {0} /\ IsSet(image, a) /\ Len(image.data) = n
        /\ image.data \in Seq(Nat)
    BY ImageAssumption DEF Images, Opens
  <1>2. Min({a + LineBytes, n}) \in Int /\ Min({a + LineBytes, n}) <= n /\ a <= Min({a + LineBytes, n}) - 1
    <2>1. a + LineBytes \in Int /\ n \in Int
      BY <1>1
    <2>2. Min({a + LineBytes, n}) = IF a + LineBytes <= n THEN a + LineBytes ELSE n
      BY <2>1, MinOfTwo
    <2> QED
      BY <1>1, <2>1, <2>2
  <1>3. a \in E
    BY <1>1, <1>2 DEF LineEnds
  <1>4. l \in E /\ \A y \in E : y <= l
    <2>1. E \subseteq Nat /\ E # {} /\ n \in Nat /\ \A y \in E : y <= n
      <3> DEFINE m == Min({a + LineBytes, n})
      <3>1. E \subseteq a .. m - 1 /\ E # {}
        BY <1>3 DEF LineEnds
      <3>2. m \in Int /\ m <= n
        BY <1>2
      <3> HIDE DEF E, m
      <3> QED
        BY <1>1, <3>1, <3>2
    <2>2. l = Max(E)
      BY DEF LastOf
    <2> HIDE DEF E, l
    <2> QED
      BY <2>1, <2>2, MaxIs
  <1> HIDE DEF l
  <1>5. l \in a .. n - 1 /\ \A c \in a .. l : IsSet(image, c)
    BY <1>1, <1>2, <1>4 DEF LineEnds
  <1>6. \A c \in a .. l : c \in Covered(image)
    BY <1>1, <1>5 DEF Covered, IsSet
  <1>7. bs \in Seq(Nat) /\ Len(bs) = l - a + 1 /\ \A k \in 1 .. l - a + 1 : bs[k] = image.data[a + k]
    <2>1. a + 1 >= 1 /\ l + 1 <= Len(image.data) /\ a + 1 \in Nat /\ l + 1 \in Nat /\ a + 1 <= l + 1
      BY <1>1, <1>5
    <2>2. \A k \in 1 .. l - a + 1 : (a + 1) + k - 1 = a + k
      BY <1>1, <1>5
    <2>3. bs \in Seq(Nat) /\ Len(bs) = (l + 1) - (a + 1) + 1 /\ \A k \in 1 .. (l + 1) - (a + 1) + 1 : bs[k] = image.data[(a + 1) + k - 1]
      BY <1>1, <2>1
    <2>4. (l + 1) - (a + 1) + 1 = l - a + 1
      BY <1>1, <1>5
    <2> HIDE DEF bs
    <2> QED
      BY <2>2, <2>3, <2>4
  <1> DEFINE d == DataRecord(image, a)
  <1>8. d = [kind |-> "data", at |-> a % SegmentBytes, bytes |-> bs]
    BY DEF DataRecord, Record, l
  <1>9. a % SegmentBytes \in Nat
    BY <1>1, SegmentsBegin
  <1> HIDE DEF bs, d
  <1>10. d \in HexRecords /\ d.kind = "data" /\ d.at = a % SegmentBytes /\ d.bytes = bs
    BY <1>7, <1>8, <1>9 DEF HexRecords
  <1> QED
    BY <1>4, <1>5, <1>6, <1>7, <1>10 DEF l, d

\* One more line changes nothing for those before it.
LEMMA OneMoreLine ==
    ASSUME NEW x \in Seq(HexRecords), NEW d \in HexRecords
    PROVE  LET y == x \o <<d>>
               n == Len(x)
           IN  /\ n \in Nat /\ y \in Seq(HexRecords) /\ Len(y) = n + 1 /\ y[n + 1] = d
               /\ Base(y, n) = Base(x, n)
               /\ \A j \in 1 .. n : Plain(y, j) = Plain(x, j) /\ GivenBy(y, j) = GivenBy(x, j)
               /\ \A j \in 1 .. n : \A a : ByteGiven(y, j, a) = ByteGiven(x, j, a)
               /\ d.kind = "segment" => Base(y, n + 1) = d.at * Paragraph
               /\ d.kind # "segment" => Base(y, n + 1) = Base(x, n)
  <1> DEFINE y == x \o <<d>>
             n == Len(x)
  <1>1. n \in Nat /\ y \in Seq(HexRecords) /\ Len(y) = n + 1 /\ y[n + 1] = d /\ \A j \in 1 .. n : y[j] = x[j]
    <2>1. <<d>> \in Seq(HexRecords) /\ Len(<<d>>) = 1 /\ <<d>>[1] = d
      OBVIOUS
    <2>2. /\ x \o <<d>> \in Seq(HexRecords) /\ Len(x \o <<d>>) = Len(x) + Len(<<d>>)
          /\ \A i \in 1 .. Len(x) : (x \o <<d>>)[i] = x[i]
          /\ \A i \in 1 .. Len(<<d>>) : (x \o <<d>>)[Len(x) + i] = <<d>>[i]
      BY <2>1, JoinIs
    <2>3. 1 \in 1 .. Len(<<d>>)
      BY <2>1
    <2> QED
      BY <2>1, <2>2, <2>3
  <1> HIDE DEF y
  <1>2. ASSUME NEW j \in 0 .. n PROVE Base(y, j) = Base(x, j)
    <2> DEFINE S == {k \in 1 .. j : y[k].kind = "segment"}
               T == {k \in 1 .. j : x[k].kind = "segment"}
    <2>1. \A k \in 1 .. j : k \in 1 .. n
      BY <1>1
    <2>2. S = T
      BY <1>1, <2>1
    <2>3. S # {} => Max(S) \in S
      <3>1. S \subseteq Nat /\ \A k \in S : k <= n
        BY <1>1, <2>1
      <3> HIDE DEF S
      <3> QED
        BY <1>1, <3>1, MaxIs
    <2>4. S # {} => y[Max(S)] = x[Max(S)]
      <3>1. S \subseteq 1 .. n
        BY <2>1
      <3> HIDE DEF S
      <3> QED
        BY <1>1, <2>3, <3>1
    <2>5. Base(y, j) = IF S = {} THEN 0 ELSE y[Max(S)].at * Paragraph
      BY DEF Base
    <2>6. Base(x, j) = IF T = {} THEN 0 ELSE x[Max(T)].at * Paragraph
      BY DEF Base
    <2> HIDE DEF S, T
    <2> QED
      BY <2>2, <2>4, <2>5, <2>6
  <1>3. \A j \in 1 .. n : Base(y, j) = Base(x, j) /\ y[j] = x[j]
    BY <1>1, <1>2
  <1>4. \A j \in 1 .. n : Plain(y, j) = Plain(x, j)
    BY <1>3 DEF Plain
  <1>5. \A j \in 1 .. n : GivenBy(y, j) = GivenBy(x, j)
    BY <1>3 DEF GivenBy
  <1>6. \A j \in 1 .. n : \A a : ByteGiven(y, j, a) = ByteGiven(x, j, a)
    BY <1>3 DEF ByteGiven
  <1>7. Base(y, n) = Base(x, n)
    BY <1>1, <1>2
  <1>8. /\ d.kind # "segment" => Base(y, n + 1) = Base(x, n)
        /\ d.kind = "segment" => Base(y, n + 1) = d.at * Paragraph
    <2>1. n + 1 \in 1 .. Len(y) /\ (n + 1) - 1 = n /\ Paragraph \in Nat
      BY <1>1, ImageAssumption
    <2>2. /\ y[n + 1].kind # "segment" => Base(y, n + 1) = Base(y, (n + 1) - 1)
          /\ y[n + 1].kind = "segment" => Base(y, n + 1) = y[n + 1].at * Paragraph
      BY <1>1, <2>1, BaseSteps
    <2> QED
      BY <1>1, <1>7, <2>1, <2>2
  <1> QED
    BY <1>1, <1>4, <1>5, <1>6, <1>7, <1>8 DEF y

\* What is written of an image for its addresses below i.
Written(image, i) ==
    {x \in Seq(HexRecords) :
        /\ \A j \in 1 .. Len(x) :
               Plain(x, j) /\ \A a \in GivenBy(x, j) : a \in Covered(image) /\ ByteGiven(x, j, a) = image.data[a + 1]
        /\ \A a \in Covered(image) : Opener(image, a) < i => \E j \in 1 .. Len(x) : a \in GivenBy(x, j)
        /\ Base(x, Len(x)) = IF i = 0 THEN 0 ELSE SegmentOf(i - 1)}

\* hexio.c:335: the segment is opened; WrittenTo stands for what is before the line.
WrittenTo(image, i) ==
    {x \in Seq(HexRecords) :
        /\ \A j \in 1 .. Len(x) :
               Plain(x, j) /\ \A a \in GivenBy(x, j) : a \in Covered(image) /\ ByteGiven(x, j, a) = image.data[a + 1]
        /\ \A a \in Covered(image) : Opener(image, a) < i - 1 => \E j \in 1 .. Len(x) : a \in GivenBy(x, j)
        /\ Base(x, Len(x)) = SegmentOf(i - 1)}

LEMMA SegmentIsOpened ==
    ASSUME NEW image \in Images, NEW i \in 1 .. Len(image.mask), NEW x \in Written(image, i - 1)
    PROVE  x \o SegmentLine(i - 1) \in WrittenTo(image, i)
  <1> DEFINE a == i - 1
             n == Len(x)
  <1>1. x \in Seq(HexRecords) /\ n \in Nat /\ i \in Nat /\ i > 0 /\ a \in Nat
    <2>1. Len(image.mask) \in Nat
      BY DEF Images
    <2> QED
      BY <2>1 DEF Written
  <1>2. /\ \A j \in 1 .. n : Plain(x, j) /\ \A c \in GivenBy(x, j) : c \in Covered(image) /\ ByteGiven(x, j, c) = image.data[c + 1]
        /\ \A c \in Covered(image) : Opener(image, c) < a => \E j \in 1 .. n : c \in GivenBy(x, j)
        /\ Base(x, n) = IF a = 0 THEN 0 ELSE SegmentOf(a - 1)
    BY DEF Written
  <1> HIDE DEF a
  <1>3. /\ SegmentOf(a) \in 0 .. a
        /\ a % SegmentBytes = 0 => SegmentOf(a) = a /\ (a \div Paragraph) * Paragraph = a /\ a \div Paragraph \in Nat
        /\ a % SegmentBytes # 0 => a > 0 /\ SegmentOf(a - 1) = SegmentOf(a)
    BY <1>1, SegmentsBegin
  <1>4. CASE a > 0 /\ a % SegmentBytes = 0
    <2> DEFINE d == Record("segment", a \div Paragraph, <<>>)
               y == x \o <<d>>
    <2>1. d \in HexRecords /\ d.kind = "segment" /\ d.at = a \div Paragraph
      BY <1>3, <1>4 DEF Record, HexRecords
    <2>2. SegmentLine(a) = <<d>>
      BY <1>4 DEF SegmentLine
    <2> HIDE DEF d
    <2>3. /\ y \in Seq(HexRecords) /\ Len(y) = n + 1 /\ y[n + 1] = d
          /\ \A j \in 1 .. n : Plain(y, j) = Plain(x, j) /\ GivenBy(y, j) = GivenBy(x, j)
          /\ \A j \in 1 .. n : \A c : ByteGiven(y, j, c) = ByteGiven(x, j, c)
          /\ Base(y, n + 1) = a
      BY <1>1, <1>3, <1>4, <2>1, OneMoreLine
    <2> HIDE DEF y
    <2>4. Plain(y, n + 1) /\ GivenBy(y, n + 1) = {}
      BY <2>1, <2>3 DEF Plain, GivenBy
    <2>5. ASSUME NEW j \in 1 .. Len(y)
          PROVE  Plain(y, j) /\ \A c \in GivenBy(y, j) : c \in Covered(image) /\ ByteGiven(y, j, c) = image.data[c + 1]
      <3>1. j \in 1 .. n \/ j = n + 1
        BY <1>1, <2>3
      <3> QED
        BY <1>2, <2>3, <2>4, <3>1
    <2>6. ASSUME NEW c \in Covered(image), Opener(image, c) < a PROVE \E j \in 1 .. Len(y) : c \in GivenBy(y, j)
      <3>1. PICK j \in 1 .. n : c \in GivenBy(x, j)
        BY <1>2, <2>6
      <3>2. j \in 1 .. Len(y)
        BY <1>1, <2>3
      <3> QED
        BY <2>3, <3>1, <3>2
    <2>7. Base(y, Len(y)) = SegmentOf(a)
      BY <1>3, <1>4, <2>3
    <2>8. y \in WrittenTo(image, i)
      BY <2>3, <2>5, <2>6, <2>7 DEF WrittenTo, a
    <2> QED
      BY <2>2, <2>8 DEF y, a
  <1>5. CASE ~(a > 0 /\ a % SegmentBytes = 0)
    <2>1. SegmentLine(a) = <<>>
      BY <1>5 DEF SegmentLine
    <2>2. x \o <<>> = x
      BY <1>1, ConcatEmptySeq
    <2>3. Base(x, n) = SegmentOf(a)
      <3>1. CASE a = 0
        <4>1. SegmentOf(a) = 0
          BY <1>3, <3>1
        <4> QED
          BY <1>2, <3>1, <4>1
      <3>2. CASE a # 0
        BY <1>1, <1>2, <1>3, <1>5, <3>2
      <3> QED
        BY <3>1, <3>2
    <2>4. x \in WrittenTo(image, i)
      BY <1>1, <1>2, <2>3 DEF WrittenTo, a
    <2> QED
      BY <2>1, <2>2, <2>4 DEF a
  <1> QED
    BY <1>4, <1>5

LEMMA LineIsWritten ==
    ASSUME NEW image \in Images, NEW i \in 1 .. Len(image.mask), NEW x \in WrittenTo(image, i)
    PROVE  x \o DataLine(image, i - 1) \in Written(image, i)
  <1> DEFINE a == i - 1
             n == Len(x)
  <1>1. x \in Seq(HexRecords) /\ n \in Nat /\ i \in Nat /\ i > 0 /\ a \in Nat /\ a \in 0 .. Len(image.mask) - 1 /\ a + 1 = i
    <2>1. Len(image.mask) \in Nat
      BY DEF Images
    <2> QED
      BY <2>1 DEF WrittenTo
  <1>2. /\ \A j \in 1 .. n : Plain(x, j) /\ \A c \in GivenBy(x, j) : c \in Covered(image) /\ ByteGiven(x, j, c) = image.data[c + 1]
        /\ \A c \in Covered(image) : Opener(image, c) < a => \E j \in 1 .. n : c \in GivenBy(x, j)
        /\ Base(x, n) = SegmentOf(a)
    BY DEF WrittenTo
  <1> HIDE DEF a
  <1>3. SegmentOf(a) \in 0 .. a /\ SegmentOf(a) + (a % SegmentBytes) = a /\ a % SegmentBytes \in Nat
    BY <1>1, SegmentsBegin
  <1>4. ASSUME NEW c \in Covered(image), Opener(image, c) < i, ~(Opener(image, c) < a)
        PROVE  Opens(image, a) /\ c \in LineEnds(image, a)
    <2>1. Opener(image, c) \in 0 .. c /\ Opens(image, Opener(image, c)) /\ c \in LineEnds(image, Opener(image, c))
      BY LinesReach
    <2>2. c \in Nat
      BY DEF Covered
    <2>3. Opener(image, c) = a
      BY <1>1, <1>4, <2>1, <2>2
    <2> QED
      BY <2>1, <2>3
  <1>5. CASE Opens(image, a)
    <2> DEFINE d == DataRecord(image, a)
               l == LastOf(image, a)
               y == x \o <<d>>
    <2>1. /\ l \in a .. Len(image.mask) - 1 /\ \A c \in a .. l : c \in Covered(image)
          /\ \A c \in LineEnds(image, a) : c <= l
          /\ d \in HexRecords /\ d.kind = "data"
          /\ d.at = a % SegmentBytes
          /\ Len(d.bytes) = l - a + 1
          /\ \A k \in 1 .. l - a + 1 : d.bytes[k] = image.data[a + k]
      BY <1>1, <1>5, LineHas
    <2>2. DataLine(image, a) = <<d>>
      BY <1>5 DEF DataLine
    <2> HIDE DEF d, l
    <2>3. /\ y \in Seq(HexRecords) /\ Len(y) = n + 1 /\ y[n + 1] = d
          /\ \A j \in 1 .. n : Plain(y, j) = Plain(x, j) /\ GivenBy(y, j) = GivenBy(x, j)
          /\ \A j \in 1 .. n : \A c : ByteGiven(y, j, c) = ByteGiven(x, j, c)
          /\ Base(y, n + 1) = SegmentOf(a)
      <3>1. d.kind # "segment"
        BY <2>1
      <3> QED
        BY <1>1, <1>2, <2>1, <3>1, OneMoreLine
    <2> HIDE DEF y
    <2>4. PICK s \in Nat, m \in Nat : s = SegmentOf(a) /\ m = a % SegmentBytes /\ s + m = a
      BY <1>1, <1>3
    <2>5. GivenBy(y, n + 1) = a .. l
      <3>1. GivenBy(y, n + 1) = {s + m + k : k \in 0 .. (l - a + 1) - 1}
        <4>1. Base(y, n + 1) + y[n + 1].at = s + m /\ y[n + 1].kind = "data"
          BY <2>1, <2>3, <2>4
        <4>2. GivenBy(y, n + 1) = {Base(y, n + 1) + y[n + 1].at + k : k \in 0 .. Len(y[n + 1].bytes) - 1}
          BY <4>1 DEF GivenBy
        <4>3. Len(y[n + 1].bytes) = l - a + 1
          BY <2>1, <2>3
        <4> QED
          BY <4>1, <4>2, <4>3
      <3>0. PICK b \in Nat, e \in Nat : b = a /\ e = l
        BY <1>1, <2>1
      <3>4. s + m = b /\ s \in Nat /\ m \in Nat
        BY <2>4, <3>0
      <3>2. \A c \in a .. l : c - a \in 0 .. (l - a + 1) - 1 /\ c = s + m + (c - a)
        <4>1. \A c \in b .. e : c - b \in 0 .. (e - b + 1) - 1 /\ c = s + m + (c - b)
          BY ONLY <3>4, b \in Nat, e \in Nat
        <4> QED
          BY <3>0, <4>1
      <3>3. \A k \in 0 .. (l - a + 1) - 1 : s + m + k \in a .. l
        <4>1. \A k \in 0 .. (e - b + 1) - 1 : s + m + k \in b .. e
          BY ONLY <3>4, b \in Nat, e \in Nat
        <4> QED
          BY <3>0, <4>1
      <3> QED
        BY <3>1, <3>2, <3>3
    <2>6. \A c \in a .. l : ByteGiven(y, n + 1, c) = image.data[c + 1]
      <3> SUFFICES ASSUME NEW c \in a .. l PROVE ByteGiven(y, n + 1, c) = image.data[c + 1]
        OBVIOUS
      <3>1. ByteGiven(y, n + 1, c) = d.bytes[c - s - m + 1]
        BY <2>1, <2>3, <2>4 DEF ByteGiven
      <3>2. c - s - m + 1 = c - a + 1 /\ c - a + 1 \in 1 .. l - a + 1 /\ a + (c - a + 1) = c + 1
        <4>1. c \in Int /\ c >= a /\ c <= l /\ l \in Int /\ a \in Int /\ s \in Int /\ m \in Int /\ s + m = a
          BY <1>1, <2>1, <2>4
        <4> QED
          BY ONLY <4>1
      <3> QED
        BY <2>1, <3>1, <3>2
    <2>7. ASSUME NEW j \in 1 .. Len(y)
          PROVE  Plain(y, j) /\ \A c \in GivenBy(y, j) : c \in Covered(image) /\ ByteGiven(y, j, c) = image.data[c + 1]
      <3>1. j \in 1 .. n \/ j = n + 1
        BY <1>1, <2>3
      <3>2. Plain(y, n + 1)
        BY <2>1, <2>3 DEF Plain
      <3>3. CASE j \in 1 .. n
        BY <1>2, <2>3, <3>3
      <3>4. CASE j = n + 1
        BY <2>1, <2>5, <2>6, <3>2, <3>4
      <3> QED
        BY <3>1, <3>3, <3>4
    <2>8. ASSUME NEW c \in Covered(image), Opener(image, c) < i PROVE \E j \in 1 .. Len(y) : c \in GivenBy(y, j)
      <3>1. CASE Opener(image, c) < a
        <4>1. PICK j \in 1 .. n : c \in GivenBy(x, j)
          BY <1>2, <3>1
        <4>2. j \in 1 .. Len(y)
          BY <1>1, <2>3
        <4> QED
          BY <2>3, <4>1, <4>2
      <3>2. CASE ~(Opener(image, c) < a)
        <4>1. c \in LineEnds(image, a)
          BY <1>4, <2>8, <3>2
        <4>2. c >= a /\ c <= l /\ c \in Int
          <5>1. c \in a .. Min({a + LineBytes, Len(image.mask)}) - 1
            BY <4>1 DEF LineEnds
          <5> QED
            BY <2>1, <4>1, <5>1
        <4>3. c \in GivenBy(y, n + 1)
          BY <1>1, <2>1, <2>5, <4>2
        <4>4. n + 1 \in 1 .. Len(y)
          BY <1>1, <2>3
        <4> QED
          BY <4>3, <4>4
      <3> QED
        BY <3>1, <3>2
    <2>9. Base(y, Len(y)) = IF i = 0 THEN 0 ELSE SegmentOf(i - 1)
      BY <1>1, <2>3 DEF a
    <2>10. y \in Written(image, i)
      BY <2>3, <2>7, <2>8, <2>9 DEF Written
    <2> QED
      BY <2>2, <2>10 DEF y, a
  <1>6. CASE ~Opens(image, a)
    <2>1. DataLine(image, a) = <<>>
      BY <1>6 DEF DataLine
    <2>2. x \o <<>> = x
      BY <1>1, ConcatEmptySeq
    <2>3. \A c \in Covered(image) : Opener(image, c) < i => \E j \in 1 .. n : c \in GivenBy(x, j)
      BY <1>2, <1>4, <1>6
    <2>4. Base(x, n) = IF i = 0 THEN 0 ELSE SegmentOf(i - 1)
      BY <1>1, <1>2 DEF a
    <2>5. x \in Written(image, i)
      BY <1>1, <1>2, <2>3, <2>4 DEF Written
    <2> QED
      BY <2>1, <2>2, <2>5 DEF a
  <1> QED
    BY <1>5, <1>6

\* hexio.c:285: the lines that are written give back the image, and nothing else.
LEMMA LinesAreWritten ==
    ASSUME NEW image \in Images
    PROVE  \E f \in Written(image, Len(image.mask)) : bufWriteToIntelHexFile(image) = Append(f, EofRecord)
  <1> DEFINE n == Len(image.mask)
             part(a) == SegmentLine(a) \o DataLine(image, a)
             s == [i \in 1 .. n |-> part(i - 1)]
             I == [i \in 0 .. n |-> Written(image, i)]
  <1>1. n \in Nat
    BY DEF Images
  <1>2. bufWriteToIntelHexFile(image) = Append(FlattenSeq(s), EofRecord)
    BY DEF bufWriteToIntelHexFile, SegmentLine, DataLine, DataRecord, LastOf, LineEnds, Opens, RunStart, RunBegins, IsSet
  <1>3. ASSUME NEW a \in 0 .. n - 1
        PROVE  SegmentLine(a) \in Seq(HexRecords) /\ DataLine(image, a) \in Seq(HexRecords) /\ part(a) \in Seq(HexRecords)
    <2>1. a \in Nat
      BY <1>1
    <2>2. SegmentLine(a) \in Seq(HexRecords)
      <3>1. CASE a > 0 /\ a % SegmentBytes = 0
        <4> DEFINE d == Record("segment", a \div Paragraph, <<>>)
        <4>1. a \div Paragraph \in Nat
          BY <2>1, <3>1, SegmentsBegin
        <4>2. d \in HexRecords
          BY <4>1 DEF Record, HexRecords
        <4>3. SegmentLine(a) = <<d>>
          BY <3>1 DEF SegmentLine
        <4> HIDE DEF d
        <4> QED
          BY <4>2, <4>3
      <3>2. CASE ~(a > 0 /\ a % SegmentBytes = 0)
        <4>1. SegmentLine(a) = <<>>
          BY <3>2 DEF SegmentLine
        <4> QED
          BY <4>1
      <3> QED
        BY <3>1, <3>2
    <2>3. DataLine(image, a) \in Seq(HexRecords)
      <3>1. CASE Opens(image, a)
        <4> DEFINE d == DataRecord(image, a)
        <4>1. d \in HexRecords
          BY <3>1, LineHas
        <4>2. DataLine(image, a) = <<d>>
          BY <3>1 DEF DataLine
        <4> HIDE DEF d
        <4> QED
          BY <4>1, <4>2
      <3>2. CASE ~Opens(image, a)
        <4>1. DataLine(image, a) = <<>>
          BY <3>2 DEF DataLine
        <4> QED
          BY <4>1
      <3> QED
        BY <3>1, <3>2
    <2> QED
      BY <2>2, <2>3
  <1> HIDE DEF part
  <1>4. s \in Seq(Seq(HexRecords)) /\ Len(s) = n /\ \A i \in 1 .. n : s[i] = part(i - 1)
    <2>1. \A i \in 1 .. n : i - 1 \in 0 .. n - 1
      BY <1>1
    <2>2. \A i \in 1 .. n : part(i - 1) \in Seq(HexRecords)
      BY <1>3, <2>1
    <2> HIDE DEF n
    <2> QED
      BY <1>1, <2>2
  <1>5. \A i \in 0 .. n : I[i] = Written(image, i)
    OBVIOUS
  <1> HIDE DEF s, I
  <1>6. <<>> \in I[0]
    <2>1. <<>> \in Seq(HexRecords) /\ Len(<<>>) = 0
      OBVIOUS
    <2>2. Base(<<>>, 0) = 0
      <3>1. {j \in 1 .. 0 : <<>>[j].kind = "segment"} = {}
        OBVIOUS
      <3> QED
        BY <3>1 DEF Base
    <2>3. \A a \in Covered(image) : ~(Opener(image, a) < 0)
      BY LinesReach
    <2>4. <<>> \in Written(image, 0)
      BY <2>1, <2>2, <2>3 DEF Written
    <2> QED
      BY <1>1, <1>5, <2>4
  <1>7. ASSUME NEW i \in 1 .. Len(s), NEW x \in I[i - 1], x \in Seq(HexRecords)
        PROVE  x \o s[i] \in I[i]
    <2>1. i \in 1 .. n /\ i - 1 \in 0 .. n /\ i \in 0 .. n /\ i - 1 \in 0 .. n - 1
      BY <1>1, <1>4
    <2>2. x \in Written(image, i - 1)
      BY <1>5, <2>1
    <2>3. x \o SegmentLine(i - 1) \in WrittenTo(image, i)
      BY <2>1, <2>2, SegmentIsOpened
    <2>4. (x \o SegmentLine(i - 1)) \o DataLine(image, i - 1) \in Written(image, i)
      BY <2>1, <2>3, LineIsWritten
    <2>5. (x \o SegmentLine(i - 1)) \o DataLine(image, i - 1) = x \o part(i - 1)
      <3>1. x \in Seq(HexRecords) /\ SegmentLine(i - 1) \in Seq(HexRecords) /\ DataLine(image, i - 1) \in Seq(HexRecords)
        BY <1>3, <1>7, <2>1
      <3>2. part(i - 1) = SegmentLine(i - 1) \o DataLine(image, i - 1)
        BY DEF part
      <3> DEFINE u == SegmentLine(i - 1)
                 v == DataLine(image, i - 1)
      <3>3. u \in Seq(HexRecords) /\ v \in Seq(HexRecords) /\ part(i - 1) = u \o v
        BY <3>1, <3>2
      <3> HIDE DEF u, v
      <3>4. (x \o u) \o v = x \o (u \o v)
        <4>1. x \in Seq(HexRecords) /\ u \in Seq(HexRecords) /\ v \in Seq(HexRecords)
          BY <3>1, <3>3
        <4> QED
          BY ONLY <4>1, ConcatAssociative
      <3>5. (x \o u) \o v = x \o part(i - 1)
        BY <3>3, <3>4
      <3> QED
        BY <3>5 DEF u, v
    <2> QED
      BY <1>4, <1>5, <2>1, <2>4, <2>5
  <1>8. FlattenSeq(s) \in I[Len(s)]
    BY <1>4, <1>6, <1>7, FlattenInduction
  <1>9. FlattenSeq(s) \in Written(image, n)
    BY <1>1, <1>4, <1>5, <1>8
  <1> QED
    BY <1>2, <1>9

\* hexio.c:197: a file of data and segments, and an end record, is read to its end.
LEMMA HexEnds ==
    ASSUME NEW lines \in Seq(HexRecords), NEW n \in Nat, Len(lines) = n + 1, \A i \in 1 .. n : Plain(lines, i),
           lines[n + 1].kind = "eof"
    PROVE  LET read == bufReadFromIntelHexFile(lines)
           IN  /\ read.ok /\ read.image \in Images
               /\ \A i \in 1 .. n : GivenBy(lines, i) \subseteq Covered(read.image)
               /\ \A a \in Covered(read.image) :
                      \E i \in 1 .. n : a \in GivenBy(lines, i) /\ read.image.data[a + 1] = ByteGiven(lines, i, a)
  <1> DEFINE S == {p \in ReaderStates(lines) : p.state = "failed" => p.line > 1 /\ lines[p.line - 1].kind = "junk"}
  <1>1. Paragraph \in Nat
    BY ImageAssumption
  <1>2. \A p \in S : p \in [image : Images, segment : Nat, state : {"reading", "ended", "failed"}, line : 1 .. Len(lines) + 1]
    BY DEF ReaderStates
  <1>3. HexStart \in S
    <2>1. HexStart \in ReaderStates(lines)
      BY ReaderStarts
    <2>2. HexStart.state # "failed"
      BY DEF HexStart
    <2> QED
      BY <2>1, <2>2
  <1>4. \A p \in S : p.line \in 1 .. Len(lines) + 1
    BY <1>2
  <1>5. ASSUME NEW p \in S, HexGoes(lines, p)
        PROVE  HexStep(lines, p) \in S /\ HexStep(lines, p).line = p.line + 1
    <2> DEFINE q == HexStep(lines, p)
    <2>1. q \in ReaderStates(lines) /\ q.line = p.line + 1
      BY <1>1, <1>5, ReaderSteps DEF HexGoes
    <2>2. ASSUME q.state = "failed" PROVE lines[p.line].kind = "junk"
      <3>1. p \in [image : Images, segment : Nat, state : {"reading", "ended", "failed"}, line : 1 .. Len(lines) + 1]
        BY <1>2
      <3>2. p.line \in 1 .. Len(lines) /\ p.state = "reading" /\ lines[p.line] \in HexRecords
        BY <1>4, <1>5 DEF HexGoes
      <3> SUFFICES ASSUME lines[p.line].kind # "junk" PROVE q.state # "failed"
        BY <2>2
      <3>3. lines[p.line].kind \in {"data", "segment", "eof"}
        BY <3>2 DEF HexRecords
      <3> DEFINE r == bufProcessLine(p, lines[p.line])
      <3>4. r.state # "failed" /\ DOMAIN r = {"image", "segment", "state", "line"}
        <4>1. CASE lines[p.line].kind = "data"
          <5>1. r = [p EXCEPT !.image = Put(@, p.segment + lines[p.line].at, lines[p.line].bytes)]
            BY <4>1 DEF bufProcessLine
          <5> HIDE DEF r
          <5> QED
            BY <3>1, <3>2, <5>1
        <4>2. CASE lines[p.line].kind = "segment"
          <5>1. r = [p EXCEPT !.segment = lines[p.line].at * Paragraph]
            BY <4>2 DEF bufProcessLine
          <5> HIDE DEF r
          <5> QED
            BY <3>1, <3>2, <5>1
        <4>3. CASE lines[p.line].kind = "eof"
          <5>1. r = [p EXCEPT !.state = "ended"]
            BY <4>3 DEF bufProcessLine
          <5> HIDE DEF r
          <5> QED
            BY <3>1, <3>2, <5>1
        <4> QED
          BY <3>3, <4>1, <4>2, <4>3
      <3>5. q = [r EXCEPT !.line = @ + 1]
        BY DEF HexStep
      <3> HIDE DEF r, q
      <3> QED
        BY <3>4, <3>5
    <2>3. p.line + 1 > 1 /\ (p.line + 1) - 1 = p.line
      BY <1>4
    <2> HIDE DEF q
    <2>4. q \in S
      BY <2>1, <2>2, <2>3
    <2> QED
      BY <2>1, <2>4 DEF q
  <1> HIDE DEF S
  <1>6. PICK p \in S : ~HexGoes(lines, p) /\ bufReadFromIntelHexFile(lines) = [image |-> p.image, ok |-> p.state = "ended"]
    BY <1>3, <1>4, <1>5, HexLoop
  <1>7. /\ p.image \in Images /\ p.state \in {"reading", "ended", "failed"} /\ p.line \in 1 .. n + 2
        /\ p.state = "failed" => p.line > 1 /\ lines[p.line - 1].kind = "junk"
        /\ p.state = "reading" => \A i \in 1 .. p.line - 1 : Plain(lines, i)
        /\ p.state = "ended" => p.line > 1 /\ lines[p.line - 1].kind = "eof"
        /\ Covered(p.image) = UNION {GivenBy(lines, i) : i \in 1 .. p.line - 1}
        /\ \A a \in Covered(p.image) :
               \E i \in 1 .. p.line - 1 : a \in GivenBy(lines, i) /\ p.image.data[a + 1] = ByteGiven(lines, i, a)
    BY <1>2 DEF S, ReaderStates
  <1>8. p.line > 1 => lines[p.line - 1].kind # "junk" /\ (lines[p.line - 1].kind = "eof" => p.line = n + 2)
    <2> SUFFICES ASSUME p.line > 1
                 PROVE lines[p.line - 1].kind # "junk" /\ (lines[p.line - 1].kind = "eof" => p.line = n + 2)
      OBVIOUS
    <2>1. p.line - 1 \in 1 .. n \/ p.line = n + 2
      BY <1>7
    <2>2. CASE p.line - 1 \in 1 .. n
      BY <2>2 DEF Plain
    <2>3. CASE p.line = n + 2
      <3>1. p.line - 1 = n + 1
        BY <2>3
      <3> QED
        BY <2>3, <3>1
    <2> QED
      BY <2>1, <2>2, <2>3
  <1>9. p.state # "reading"
    <2> SUFFICES ASSUME p.state = "reading" PROVE FALSE
      OBVIOUS
    <2>1. p.line > n + 1
      BY <1>6, <1>7 DEF HexGoes
    <2>2. n + 1 \in 1 .. p.line - 1
      BY <1>7, <2>1
    <2> QED
      BY <1>7, <2>2 DEF Plain
  <1>10. p.state = "ended" /\ p.line = n + 2
    BY <1>7, <1>8, <1>9
  <1>11. GivenBy(lines, n + 1) = {}
    BY DEF GivenBy
  <1>12. \A i \in 1 .. p.line - 1 : i \in 1 .. n \/ i = n + 1
    BY <1>10
  <1>13. \A i \in 1 .. n : i \in 1 .. p.line - 1
    BY <1>10
  <1>14. \A i \in 1 .. n : GivenBy(lines, i) \subseteq Covered(p.image)
    BY <1>7, <1>13
  <1>15. \A a \in Covered(p.image) :
             \E i \in 1 .. n : a \in GivenBy(lines, i) /\ p.image.data[a + 1] = ByteGiven(lines, i, a)
    BY <1>7, <1>11, <1>12
  <1> DEFINE read == bufReadFromIntelHexFile(lines)
  <1>16. read.image = p.image /\ read.ok
    <2>1. read = [image |-> p.image, ok |-> p.state = "ended"]
      BY <1>6
    <2> HIDE DEF read
    <2> QED
      BY <1>10, <2>1
  <1> HIDE DEF read
  <1>17. read.image \in Images
    BY <1>7, <1>16
  <1>18. \A i \in 1 .. n : GivenBy(lines, i) \subseteq Covered(read.image)
    BY <1>14, <1>16
  <1>19. \A a \in Covered(read.image) :
             \E i \in 1 .. n : a \in GivenBy(lines, i) /\ read.image.data[a + 1] = ByteGiven(lines, i, a)
    BY <1>15, <1>16
  <1> QED
    BY <1>16, <1>17, <1>18, <1>19 DEF read

\* hexio.c:285: an image that is written and read again shows what it did.
THEOREM ExportIsRead ==
    ASSUME NEW image \in Images, NEW at, Shows(image, at)
    PROVE  LET lines == bufWriteToIntelHexFile(image)
               read == bufReadFromIntelHexFile(lines)
           IN  lines \in Seq(HexRecords) /\ read.ok /\ read.image \in Images /\ Shows(read.image, at)
  <1> DEFINE m == Len(image.mask)
             lines == bufWriteToIntelHexFile(image)
             read == bufReadFromIntelHexFile(lines)
  <1>1. PICK f \in Written(image, m) : lines = Append(f, EofRecord)
    BY LinesAreWritten
  <1> DEFINE n == Len(f)
  <1>2. f \in Seq(HexRecords) /\ n \in Nat /\ EofRecord \in HexRecords /\ EofRecord.kind = "eof"
    BY DEF Written, EofRecord, Record, HexRecords
  <1>3. f \o <<EofRecord>> = lines
    <2> HIDE DEF lines
    <2> QED
      BY <1>1, <1>2
  <1> HIDE DEF lines
  <1>4. /\ lines \in Seq(HexRecords) /\ Len(lines) = n + 1 /\ lines[n + 1] = EofRecord
        /\ \A j \in 1 .. n : Plain(lines, j) = Plain(f, j) /\ GivenBy(lines, j) = GivenBy(f, j)
        /\ \A j \in 1 .. n : \A a : ByteGiven(lines, j, a) = ByteGiven(f, j, a)
    <2>1. /\ f \o <<EofRecord>> \in Seq(HexRecords) /\ Len(f \o <<EofRecord>>) = n + 1 /\ (f \o <<EofRecord>>)[n + 1] = EofRecord
          /\ \A j \in 1 .. n : Plain(f \o <<EofRecord>>, j) = Plain(f, j) /\ GivenBy(f \o <<EofRecord>>, j) = GivenBy(f, j)
          /\ \A j \in 1 .. n : \A a : ByteGiven(f \o <<EofRecord>>, j, a) = ByteGiven(f, j, a)
      BY <1>2, OneMoreLine
    <2> QED
      BY <1>3, <2>1
  <1>5. /\ \A j \in 1 .. n :
               Plain(f, j) /\ \A a \in GivenBy(f, j) : a \in Covered(image) /\ ByteGiven(f, j, a) = image.data[a + 1]
        /\ \A a \in Covered(image) : Opener(image, a) < m => \E j \in 1 .. n : a \in GivenBy(f, j)
    BY DEF Written
  <1>6. /\ read.ok /\ read.image \in Images
        /\ \A i \in 1 .. n : GivenBy(lines, i) \subseteq Covered(read.image)
        /\ \A a \in Covered(read.image) :
               \E i \in 1 .. n : a \in GivenBy(lines, i) /\ read.image.data[a + 1] = ByteGiven(lines, i, a)
    <2>1. lines[n + 1].kind = "eof" /\ \A i \in 1 .. n : Plain(lines, i)
      BY <1>2, <1>4, <1>5
    <2> QED
      BY <1>2, <1>4, <2>1, HexEnds
  <1> HIDE DEF read
  <1>7. \A a \in Covered(image) : Opener(image, a) < m
    <2> SUFFICES ASSUME NEW a \in Covered(image) PROVE Opener(image, a) < m
      OBVIOUS
    <2>1. Opener(image, a) \in 0 .. a
      BY LinesReach
    <2>2. a \in 0 .. m - 1 /\ m \in Nat
      BY DEF Covered, Images
    <2> QED
      BY <2>1, <2>2
  <1>8. Covered(image) \subseteq Covered(read.image)
    <2> SUFFICES ASSUME NEW a \in Covered(image) PROVE a \in Covered(read.image)
      OBVIOUS
    <2>1. PICK j \in 1 .. n : a \in GivenBy(f, j)
      BY <1>5, <1>7
    <2> QED
      BY <1>4, <1>6, <2>1
  <1>9. \A a \in Covered(read.image) : a \in Covered(image) /\ read.image.data[a + 1] = image.data[a + 1]
    <2> SUFFICES ASSUME NEW a \in Covered(read.image)
                 PROVE a \in Covered(image) /\ read.image.data[a + 1] = image.data[a + 1]
      OBVIOUS
    <2>1. PICK i \in 1 .. n : a \in GivenBy(lines, i) /\ read.image.data[a + 1] = ByteGiven(lines, i, a)
      BY <1>6
    <2> QED
      BY <1>4, <1>5, <2>1
  <1>10. Shows(read.image, at)
    BY <1>8, <1>9 DEF Shows
  <1> QED
    BY <1>4, <1>6, <1>10 DEF lines, read

-----------------------------------------------------------------------------
(* The boot loader.                                                          *)

BootLength(at) == Word(eeprom, at) % (MaxRecord + 1)
BootAddress(at) == Word(eeprom, at + 2)
BootEnd(at) == Min({at + 4 + BootLength(at), EepromBytes + 1})
BootRecord(at) ==
    [i \in {BootAddress(at) + k : k \in 0 .. BootEnd(at) - at - 5} \cap (0 .. RamBytes - 1)
        |-> eeprom[at + 4 + i - BootAddress(at)]]
BootGoes(p) == p.at + 3 <= EepromBytes /\ Word(eeprom, p.at) < 32768
BootStep(p) == [at |-> p.at + 4 + BootLength(p.at), memory |-> WrittenOver(BootRecord(p.at), p.memory)]
BootStart == [at |-> HeaderBytes + 1, memory |-> <<>>]
Memories == UNION {[D -> Nat] : D \in SUBSET (0 .. RamBytes - 1)}
BootStates(S, end, at) ==
    {p \in [at : S \cup {end}, memory : Memories] :
        /\ \A a \in DOMAIN p.memory : p.memory[a] = ByteOf(at, a)
        /\ \A q \in S : q < p.at =>
               \A k \in 0 .. Word(eeprom, q) - 1 :
                   Word(eeprom, q + 2) + k \in 0 .. RamBytes - 1 => Word(eeprom, q + 2) + k \in DOMAIN p.memory}

\* One record is written over what is there.
LEMMA BootSteps ==
    ASSUME MaxRecord \in Nat, RamBytes \in Nat, NEW S, NEW end, NEW at, PromOver(eeprom, S, end), Agree(eeprom, S, at),
           Len(eeprom) = EepromBytes,
           NEW p \in BootStates(S, end, at), BootGoes(p)
    PROVE  /\ BootStep(p) \in BootStates(S, end, at)
           /\ BootStep(p).at > p.at /\ p.at < end
  <1> DEFINE q == BootStep(p)
             im == p.memory
  <1>1. /\ eeprom \in Seq(Nat) /\ end \in Nat /\ end + 3 <= Len(eeprom) /\ Word(eeprom, end) >= 32768
        /\ Word(eeprom, end) \in Nat /\ S \in SUBSET Nat /\ Records(eeprom, 9, end, S)
    BY DEF PromOver, HeaderBytes
  <1>2. p \in [at : S \cup {end}, memory : Memories] /\ p.at # end
    <2>1. PICK w \in Nat : w = Word(eeprom, end) /\ w >= 32768
      BY <1>1
    <2>2. p.at # end
      BY <2>1 DEF BootGoes
    <2> QED
      BY <2>2 DEF BootStates
  <1>3. PICK l \in S : l = p.at
    BY <1>2
  <1>4. PICK w \in 0 .. MaxRecord, b \in Nat :
               /\ Word(eeprom, l) = w /\ Word(eeprom, l) % (MaxRecord + 1) = w /\ Word(eeprom, l + 2) = b
               /\ l \in 9 .. end - 1 /\ l + 4 + w \in S \cup {end} /\ l + 4 + w <= end
               /\ \A r \in S : r < l + 4 + w => r <= l
    <2>1. 9 \in Nat
      OBVIOUS
    <2> QED
      BY <1>1, <2>1, RecordAt
  <1>6. l \in Nat /\ l + 4 + w <= end /\ l > 0 /\ w \in Nat /\ EepromBytes \in Nat /\ end + 3 <= EepromBytes
    BY <1>1, <1>4
  <1> DEFINE given == {a \in b .. b + w - 1 : a \in 0 .. RamBytes - 1}
             rec == BootRecord(l)
             out == WrittenOver(rec, im)
  <1>5. q = [at |-> l + 4 + w, memory |-> out]
    BY <1>3, <1>4 DEF BootStep, BootLength
  <1>7. rec = [i \in given |-> eeprom[l + 4 + i - b]]
    <2>1. BootEnd(l) = l + 4 + w
      <3>1. Min({l + 4 + w, EepromBytes + 1}) = l + 4 + w
        <4>1. l + 4 + w \in Int /\ EepromBytes + 1 \in Int /\ l + 4 + w <= EepromBytes + 1
          BY <1>1, <1>6
        <4> QED
          BY <4>1, MinOfTwo
      <3> QED
        BY <1>4, <3>1 DEF BootEnd, BootLength
    <2>2. (l + 4 + w) - l - 5 = w - 1
      BY <1>6
    <2>3. {b + k : k \in 0 .. w - 1} \cap (0 .. RamBytes - 1) = given
      <3>1. \A a \in b .. b + w - 1 : a - b \in 0 .. w - 1 /\ a = b + (a - b)
        BY <1>6
      <3>2. \A k \in 0 .. w - 1 : b + k \in b .. b + w - 1
        BY <1>6
      <3> QED
        BY <3>1, <3>2
    <2> HIDE DEF given
    <2> QED
      BY <1>4, <2>1, <2>2, <2>3 DEF BootRecord, BootAddress
  <1>8. \A a \in given : \E k \in 0 .. w - 1 : a = b + k /\ rec[a] = eeprom[l + 4 + k] /\ eeprom[l + 4 + k] \in Nat
    <2> SUFFICES ASSUME NEW a \in given PROVE \E k \in 0 .. w - 1 : a = b + k /\ rec[a] = eeprom[l + 4 + k] /\ eeprom[l + 4 + k] \in Nat
      OBVIOUS
    <2> DEFINE k == a - b
    <2>1. k \in 0 .. w - 1 /\ a = b + k /\ l + 4 + a - b = l + 4 + k
      BY <1>6
    <2>2. l + 4 + k \in 1 .. Len(eeprom)
      BY <1>1, <1>6, <2>1
    <2> HIDE DEF rec, given, k
    <2>3. rec[a] = eeprom[l + 4 + k]
      BY <1>7, <2>1
    <2> QED
      BY <1>1, <2>1, <2>2, <2>3
  <1>9. DOMAIN rec = given
    <2> HIDE DEF given, rec
    <2> QED
      BY <1>7
  <1>im. PICK D \in SUBSET (0 .. RamBytes - 1) : im \in [D -> Nat]
    BY <1>2 DEF Memories
  <1> HIDE DEF rec, im
  <1>o. /\ DOMAIN out = given \cup D
        /\ \A a \in given : out[a] = rec[a]
        /\ \A a \in D \ given : out[a] = im[a]
        /\ out = [a \in given \cup D |-> out[a]]
    <2> HIDE DEF given
    <2>1. out = [x \in (DOMAIN rec) \cup (DOMAIN im) |-> IF x \in DOMAIN rec THEN rec[x] ELSE im[x]]
      BY DEF WrittenOver
    <2>2. DOMAIN im = D
      BY <1>im
    <2> HIDE DEF out
    <2> QED
      BY <1>9, <2>1, <2>2
  <1> HIDE DEF out
  <1>m. out \in Memories
    <2>1. \A a \in given \cup D : out[a] \in Nat
      <3> HIDE DEF given
      <3> QED
        BY <1>8, <1>im, <1>o
    <2>2. given \cup D \in SUBSET (0 .. RamBytes - 1)
      OBVIOUS
    <2> HIDE DEF given
    <2>3. out \in [given \cup D -> Nat]
      BY <1>o, <2>1
    <2> QED
      BY <2>2, <2>3 DEF Memories
  <1>10. ASSUME NEW a \in DOMAIN out PROVE out[a] = ByteOf(at, a)
    <2>1. CASE a \in given
      <3> HIDE DEF given
      <3>1. PICK k \in 0 .. w - 1 : a = b + k /\ rec[a] = eeprom[l + 4 + k]
        BY <1>8, <2>1
      <3>2. eeprom[l + 4 + k] = ByteOf(at, b + k)
        BY <1>4 DEF Agree
      <3> QED
        BY <1>o, <2>1, <3>1, <3>2
    <2>2. CASE a \notin given
      <3>1. a \in D /\ out[a] = im[a] /\ a \in DOMAIN im
        BY <1>im, <1>o, <2>2
      <3> QED
        BY <3>1 DEF BootStates, im
    <2> QED
      BY <2>1, <2>2
  <1>11. ASSUME NEW r \in S, r < l + 4 + w, NEW k \in 0 .. Word(eeprom, r) - 1,
                Word(eeprom, r + 2) + k \in 0 .. RamBytes - 1
         PROVE  Word(eeprom, r + 2) + k \in DOMAIN out
    <2>1. r <= l
      BY <1>4, <1>11
    <2>2. CASE r = l
      <3>1. k \in 0 .. w - 1 /\ Word(eeprom, r + 2) = b
        BY <1>4, <2>2
      <3>2. b + k \in given
        BY <1>6, <1>11, <3>1
      <3> QED
        BY <1>o, <3>1, <3>2
    <2>3. CASE r # l
      <3>1. r < p.at
        <4>1. r \in Nat
          BY <1>1
        <4> QED
          BY <1>3, <1>6, <2>1, <2>3, <4>1
      <3>2. Word(eeprom, r + 2) + k \in DOMAIN im
        BY <1>11, <3>1 DEF BootStates, im
      <3> QED
        BY <1>im, <1>o, <3>2
    <2> QED
      BY <2>2, <2>3
  <1> HIDE DEF q, given
  <1>12. q \in [at : S \cup {end}, memory : Memories] /\ q.at = l + 4 + w /\ q.memory = out
    BY <1>4, <1>5, <1>m
  <1>13. q.at > p.at /\ p.at < end
    <2>1. l + 4 + w > l /\ l < end
      BY <1>1, <1>6
    <2> QED
      BY <1>3, <1>12, <2>1
  <1>14. q \in BootStates(S, end, at)
    <2>1. \A r \in S : r < q.at => \A k \in 0 .. Word(eeprom, r) - 1 :
              Word(eeprom, r + 2) + k \in 0 .. RamBytes - 1 => Word(eeprom, r + 2) + k \in DOMAIN q.memory
      BY <1>11, <1>12
    <2>2. \A a \in DOMAIN q.memory : q.memory[a] = ByteOf(at, a)
      BY <1>10, <1>12
    <2> QED
      BY <1>12, <2>1, <2>2 DEF BootStates
  <1> QED
    BY <1>13, <1>14 DEF q

\* The loop over the records ends, in what its steps keep to.
LEMMA BootLoop ==
    ASSUME NEW end \in Int, NEW S, BootStart \in S, EepromBytes \in Nat,
           \A p \in S : p.at \in 0 .. end,
           \A p \in S : BootGoes(p) => /\ BootStep(p) \in S
                                     /\ BootStep(p).at > p.at /\ p.at < end,
           BootStart.at + EepromBytes >= end
    PROVE  \E p \in S : ~BootGoes(p) /\ BootMemory = p.memory
  <1> DEFINE n == EepromBytes
             F == [p \in S |-> IF BootGoes(p) THEN BootStep(p) ELSE p]
             going == {p \in S : BootGoes(p)}
             grown == [p \in S |-> p.at]
             Body(f, k) == IF k = 0 THEN BootStart
                           ELSE LET p == f[k - 1] IN IF BootGoes(p) THEN BootStep(p) ELSE p
             Runs(f) == f = [k \in 0 .. n |-> Body(f, k)]
             run == CHOOSE f : Runs(f)
  <1>1. n \in Nat
    OBVIOUS
  <1>2. \A p \in S : F[p] = IF BootGoes(p) THEN BootStep(p) ELSE p
    OBVIOUS
  <1>3. Progresses(S, F, going, grown, end)
    <2>1. F \in [S -> S] /\ grown \in [S -> Int] /\ end \in Int
      OBVIOUS
    <2>2. \A p \in S : p \notin going => F[p] = p
      BY <1>2
    <2>3. ASSUME NEW p \in S, p \in going PROVE grown[p] < end /\ grown[F[p]] > grown[p]
      <3>1. BootGoes(p) /\ F[p] = BootStep(p)
        BY <1>2, <2>3
      <3>2. F[p] \in S /\ F[p].at > p.at /\ p.at < end
        BY <3>1
      <3>3. grown[F[p]] = F[p].at /\ grown[p] = p.at
        BY <3>2
      <3> HIDE DEF F, grown
      <3> QED
        BY <3>2, <3>3
    <2> HIDE DEF F, going, grown
    <2> QED
      BY <2>1, <2>2, <2>3 DEF Progresses
  <1>4. grown[BootStart] + n >= end
    OBVIOUS
  <1>5. PICK f : Turns(f, S, BootStart, F, n) /\ f[n] \in S /\ f[n] \notin going
    <2>1. Ends(S, BootStart, F, going, grown, end, n)
      <3> HIDE DEF F, going, grown, n
      <3> QED
        BY <1>1, <1>3, <1>4 DEF Ends
    <2> HIDE DEF F, going, grown, n
    <2> QED
      BY <2>1, LoopEnds
  <1>6. Runs(f)
    <2>1. f \in [0 .. n -> S] /\ f[0] = BootStart /\ \A k \in 1 .. n : f[k] = F[f[k - 1]]
      BY <1>5 DEF Turns
    <2>2. ASSUME NEW k \in 0 .. n PROVE f[k] = Body(f, k)
      <3>1. CASE k = 0
        BY <2>1, <3>1
      <3>2. CASE k # 0
        <4>1. k \in 1 .. n /\ k - 1 \in 0 .. n
          BY <1>1, <3>2
        <4>2. f[k - 1] \in S /\ f[k] = F[f[k - 1]]
          BY <2>1, <4>1
        <4> HIDE DEF F
        <4> QED
          BY <1>2, <3>2, <4>2
      <3> QED
        BY <3>1, <3>2
    <2>3. f = [k \in 0 .. n |-> f[k]]
      BY <2>1
    <2> HIDE DEF F, n, Body
    <2> QED
      BY <2>2, <2>3
  <1>7. Runs(run)
    <2> HIDE DEF Runs
    <2> QED
      BY <1>6
  <1>8. BootMemory = run[n].memory
    BY DEF BootMemory, While, BootStart, BootStep, BootGoes, BootLength, BootAddress, BootEnd, BootRecord
  <1>9. run[n] = f[n]
    <2>1. \A k \in 0 .. n : run[k] = Body(run, k)
      <3> HIDE DEF run, n, Body
      <3> QED
        BY <1>7
    <2>2. \A k \in 0 .. n : f[k] = Body(f, k)
      <3> HIDE DEF n, Body
      <3> QED
        BY <1>6
    <2> DEFINE T == {k \in 0 .. n : run[k] = f[k]}
    <2>3. 0 \in T
      <3> HIDE DEF run
      <3> QED
        BY <1>1, <2>1, <2>2
    <2>4. ASSUME NEW k \in 1 .. n, k - 1 \in T PROVE k \in T
      <3>1. k \in 0 .. n /\ k - 1 \in 0 .. n /\ k # 0 /\ run[k - 1] = f[k - 1]
        BY <2>4
      <3> HIDE DEF run
      <3> QED
        BY <2>1, <2>2, <3>1
    <2> HIDE DEF T, n
    <2>5. n \in Nat /\ \A k \in 1 .. n : k - 1 \in T => k \in T
      BY <1>1, <2>4
    <2>6. 0 .. n \subseteq T
      BY ONLY <2>3, <2>5, Counting
    <2>7. n \in T
      BY <2>5, <2>6
    <2> QED
      BY <2>7 DEF T
  <1> QED
    <2>1. ~BootGoes(f[n])
      BY <1>5
    <2> HIDE DEF run, n
    <2> QED
      BY <1>5, <1>8, <1>9, <2>1

\* An EEPROM that delivers what is meant boots it.
THEOREM BootsWhatIsDelivered ==
    ASSUME MaxRecord \in Nat, RamBytes \in Nat, ShortRecords, NEW at, Delivers(eeprom, at),
           Len(eeprom) = EepromBytes, DOMAIN at \subseteq 0 .. RamBytes - 1
    PROVE  /\ Boots /\ DOMAIN at \subseteq DOMAIN BootMemory
           /\ \A a \in DOMAIN BootMemory : BootMemory[a] = ByteOf(at, a)
  <1>1. /\ eeprom \in Seq(Nat) /\ Len(eeprom) >= HeaderBytes + 5 /\ eeprom[1] = 194 /\ EepromBytes \in Nat
        /\ EepromBytes >= HeaderBytes + 5
    BY DEF Delivers
  <1>2. PICK end \in Nat : /\ end + 3 <= Len(eeprom) /\ Word(eeprom, end) >= 32768
                           /\ Carries(eeprom, HeaderBytes + 1, end, at, DOMAIN at)
    BY DEF Delivers
  <1>3. PICK S \in SUBSET Nat : /\ Records(eeprom, HeaderBytes + 1, end, S) /\ Agree(eeprom, S, at)
                                /\ Reach(eeprom, S, DOMAIN at)
    BY <1>2 DEF Carries
  <1>4. PromOver(eeprom, S, end) /\ Word(eeprom, end) \in Nat
    <2>1. end >= 9
      BY <1>2 DEF Carries, HeaderBytes
    <2>2. eeprom[end] \in Nat /\ eeprom[end + 1] \in Nat
      <3>1. end \in 1 .. Len(eeprom) /\ end + 1 \in 1 .. Len(eeprom)
        BY <1>1, <1>2, <2>1
      <3> QED
        BY <1>1, <3>1
    <2>3. Word(eeprom, end) \in Nat
      BY <2>2 DEF Word
    <2> QED
      BY <1>1, <1>2, <1>3, <2>3 DEF PromOver
  <1> DEFINE M == BootStates(S, end, at)
             a == BootStart
  <1>5. S \subseteq HeaderBytes + 1 .. end - 1 /\ HeaderBytes + 1 \in S \cup {end}
    BY <1>3 DEF Records
  <1>6. a \in M
    <2>0. <<>> \in Memories /\ DOMAIN <<>> = {}
      <3>1. <<>> \in [{} -> Nat] /\ {} \in SUBSET (0 .. RamBytes - 1)
        OBVIOUS
      <3> QED
        BY <3>1 DEF Memories
    <2>1. a.at = HeaderBytes + 1 /\ a.memory = <<>> /\ a \in [at : S \cup {end}, memory : Memories]
      BY <1>5, <2>0 DEF BootStart
    <2>3. \A q \in S : ~(q < a.at)
      BY <1>5, <2>1 DEF HeaderBytes
    <2> HIDE DEF a
    <2> QED
      BY <2>0, <2>1, <2>3 DEF BootStates
  <1> HIDE DEF M, a
  <1>s. \A p \in M : p \in [at : S \cup {end}, memory : Memories]
    BY DEF M, BootStates
  <1>t. \A p \in M : \A b \in DOMAIN p.memory : p.memory[b] = ByteOf(at, b)
    BY DEF M, BootStates
  <1>u. \A p \in M : \A q \in S : q < p.at =>
             \A k \in 0 .. Word(eeprom, q) - 1 :
                   Word(eeprom, q + 2) + k \in 0 .. RamBytes - 1 => Word(eeprom, q + 2) + k \in DOMAIN p.memory
    BY DEF M, BootStates
  <1>7. \A p \in M : p.at \in 0 .. end
    <2>1. S \cup {end} \subseteq 0 .. end
      BY <1>5 DEF HeaderBytes
    <2>2. ASSUME NEW p \in M PROVE p.at \in 0 .. end
      <3>1. p.at \in S \cup {end}
        BY <1>s
      <3> QED
        BY <2>1, <3>1
    <2> QED
      BY <2>2
  <1>8. ASSUME NEW p \in M, BootGoes(p)
        PROVE  BootStep(p) \in M /\ BootStep(p).at > p.at /\ p.at < end
    <2>1. p \in BootStates(S, end, at)
      BY DEF M
    <2> QED
      BY <1>3, <1>4, <1>8, <2>1, BootSteps DEF M
  <1>9. BootStart.at + EepromBytes >= end /\ BootStart \in M
    <2>1. end + 3 <= EepromBytes
      BY <1>2
    <2> QED
      BY <1>1, <1>6, <2>1 DEF BootStart, HeaderBytes, a
  <1>10. PICK p \in M : ~BootGoes(p) /\ BootMemory = p.memory
    <2>1. EepromBytes \in Nat /\ end \in Int
      BY <1>1
    <2>2. \A p \in M : BootGoes(p) => /\ BootStep(p) \in M
                                      /\ BootStep(p).at > p.at /\ p.at < end
      BY <1>8
    <2> QED
      BY <1>7, <1>9, <2>1, <2>2, BootLoop
  <1>11. p.at = end
    <2> SUFFICES ASSUME p.at # end PROVE FALSE
      OBVIOUS
    <2>0. PICK l \in S \cup {end} : l = p.at
      BY <1>s
    <2>1. l \in S /\ l = p.at
      BY <2>0
    <2>2. Word(eeprom, l) \in 0 .. MaxRecord /\ l \in HeaderBytes + 1 .. end - 1
      <3>1. l \in HeaderBytes + 1 .. end - 1
        BY <1>5, <2>1
      <3>2. Word(eeprom, l) \in 0 .. MaxRecord
        BY <1>3, <2>1 DEF Records
      <3> QED
        BY <3>1, <3>2
    <2>3. l + 3 <= EepromBytes
      BY <1>1, <1>2, <2>2 DEF HeaderBytes
    <2>4. Word(eeprom, l) < 32768
      <3>1. PICK w \in 0 .. MaxRecord : w = Word(eeprom, l)
        BY <2>2
      <3> QED
        BY <3>1 DEF ShortRecords
    <2> QED
      BY <1>10, <2>1, <2>3, <2>4 DEF BootGoes
  <1>12. \A q \in S : q < p.at
    BY <1>5, <1>11 DEF HeaderBytes
  <1>13. DOMAIN at \subseteq DOMAIN p.memory
    <2> SUFFICES ASSUME NEW b \in DOMAIN at PROVE b \in DOMAIN p.memory
      OBVIOUS
    <2>1. PICK q \in S : \E k \in 0 .. Word(eeprom, q) - 1 : b = Word(eeprom, q + 2) + k
      BY <1>3 DEF Reach
    <2>2. \A k \in 0 .. Word(eeprom, q) - 1 :
              Word(eeprom, q + 2) + k \in 0 .. RamBytes - 1 => Word(eeprom, q + 2) + k \in DOMAIN p.memory
      BY <1>u, <1>12
    <2> QED
      BY <2>1, <2>2
  <1> QED
    BY <1>1, <1>10, <1>13, <1>t DEF Boots

-----------------------------------------------------------------------------
(* The invariant of the board.                                               *)

\* What can be meant: nothing that is known, or a file that can be read.
Meanings == {NoImage} \cup {Image(lines) : lines \in {l \in HexFiles : bufReadFromIntelHexFile(l).ok}}
Kinds == {"idle", "flash", "sent", "save", "hold", "load", "release"}
Jobs == [kind : Kinds, bytes : Seq(Nat), means : Meanings, at : Nat, address : Nat, bank : Nat, soiled : BOOLEAN]

BoardTypes ==
    /\ eeprom \in [1 .. EepromBytes -> Nat] /\ DOMAIN ram = 0 .. RamBytes - 1 /\ cpu \in {"held", "running"}
    /\ transfer \in [bank : Nat, address : Nat, bytes : Seq(Nat)]
    /\ job \in Jobs /\ holds \in Meanings /\ runs \in Meanings

\* A file that was saved boots, and one that was exported shows, what it is from.
FileIs(file) ==
    /\ file = [format |-> file.format, content |-> file.content, means |-> file.means]
    /\ file.means \in Meanings /\ file.format \in {"none", "iic", "hex"}
    /\ file.format = "iic" => /\ file.content \in Seq(Nat)
                              /\ file.means.known => Delivers(file.content, file.means.at)
    /\ file.format = "hex" =>
           LET read == bufReadFromIntelHexFile(file.content)
           IN  read.ok => file.means.known /\ read.image \in Images /\ Shows(read.image, file.means.at)
KeptIs == FileIs(kept)

\* The bank and the address are where the bytes that have been sent end.
Placed(j) ==
    /\ j.at = j.bank * BankBytes + j.address
    /\ j.address \in 0 .. BankBytes - 1 /\ j.address % BLOCK_SIZE = 0

PlaceIs ==
    /\ job.kind # "sent" => transfer = NoTransfer
    /\ job.kind \in {"flash", "sent", "save"} => Placed(job)

HoldsIs ==
    /\ job.kind \in {"flash", "sent"} => holds = NoImage
    /\ holds.known => Delivers(eeprom, holds.at)

FlashIs ==
    job.kind \in {"flash", "sent"} =>
        job.at <= Len(job.bytes) /\ (job.means.known => Delivers(job.bytes, job.means.at))

\* What the board has of a block is the end of it, from a page on.
SentUpTo == job.at + Min({Rest, BLOCK_SIZE})
WrittenUpTo == SentUpTo - Len(transfer.bytes)
SentIs ==
    job.kind = "sent" =>
        /\ WrittenUpTo \in job.at .. SentUpTo
        /\ transfer.bytes = SubSeq(job.bytes, WrittenUpTo + 1, SentUpTo)
        /\ transfer.bank = job.bank /\ transfer.address = job.address + (WrittenUpTo - job.at)
        /\ transfer.bytes # <<>> => transfer.address % EP0BUF_SIZE = 0

SaveIs ==
    job.kind = "save" =>
        /\ job.means = holds /\ Len(job.bytes) = job.at /\ job.at < EepromBytes
        /\ ~job.soiled => \A i \in 1 .. job.at : job.bytes[i] = eeprom[i]

\* What is loaded has every byte that is meant.
Loads(bytes, at) == \A a \in DOMAIN at : a + 1 \in 1 .. Len(bytes) /\ bytes[a + 1] = at[a]
LoadIs ==
    /\ job.kind \in {"hold", "load", "release"} /\ job.means.known => Loads(job.bytes, job.means.at)
    /\ job.kind \in {"load", "release"} => cpu = "held"
    /\ job.kind = "hold" => job.at = 0
    /\ job.kind = "load" => \A a \in 0 .. RamBytes - 1 : a < job.at /\ a < Len(job.bytes) => ram[a] = job.bytes[a + 1]
    /\ job.kind = "release" => \A a \in 0 .. RamBytes - 1 : a < Len(job.bytes) => ram[a] = job.bytes[a + 1]

BoardInv ==
    /\ BoardTypes /\ KeptIs /\ PlaceIs /\ HoldsIs /\ FlashIs /\ SentIs /\ FlashLeavesTheRest /\ SaveIs
    /\ LoadIs /\ NeverRunsHalfLoaded

-----------------------------------------------------------------------------
(* Banks, blocks and pages.                                                  *)

LEMMA Sizes ==
    /\ BLOCK_SIZE \in Nat \ {0} /\ EP0BUF_SIZE \in Nat \ {0} /\ BankBytes \in Nat \ {0} /\ RamBytes \in Nat
    /\ MaxRecord \in Nat \ {0} /\ EepromBytes \in Nat /\ EepromBytes = BankBytes + BankBytes
    /\ \E c \in Nat : BankBytes = BLOCK_SIZE * c
    /\ \E d \in Nat : BLOCK_SIZE = EP0BUF_SIZE * d
  <1>1. /\ BLOCK_SIZE \in Nat \ {0} /\ EP0BUF_SIZE \in Nat \ {0} /\ BankBytes \in Nat \ {0} /\ RamBytes \in Nat
        /\ BLOCK_SIZE % EP0BUF_SIZE = 0 /\ BankBytes % BLOCK_SIZE = 0
    BY BoardAssumption
  <1>2. MaxRecord \in Nat \ {0}
    BY ImageAssumption
  <1>3. EepromBytes \in Nat /\ EepromBytes = BankBytes + BankBytes
    BY <1>1 DEF EepromBytes
  <1>4. ASSUME NEW n \in Nat, NEW m \in Nat \ {0}, n % m = 0 PROVE \E c \in Nat : n = m * c
    <2>1. PICK q \in Nat, r \in 0 .. m - 1 : n \div m = q /\ n % m = r /\ n = m * q + r
      BY Quotients
    <2>2. r = 0
      BY <1>4, <2>1
    <2> DEFINE z == m * q
    <2>3. z \in Nat /\ n = z + r
      BY <2>1
    <2> HIDE DEF z
    <2>4. n = z
      BY <2>2, <2>3
    <2> QED
      BY <2>4 DEF z
  <1>5. \E c \in Nat : BankBytes = BLOCK_SIZE * c
    BY <1>1, <1>4
  <1>6. \E d \in Nat : BLOCK_SIZE = EP0BUF_SIZE * d
    BY <1>1, <1>4
  <1> QED
    BY <1>1, <1>2, <1>3, <1>5, <1>6

\* The next block is in the bank, or it is the first of the next.
LEMMA BlocksFit ==
    ASSUME NEW address \in 0 .. BankBytes - 1, address % BLOCK_SIZE = 0
    PROVE  LET next == (address + BLOCK_SIZE) % BankBytes
           IN  /\ address + BLOCK_SIZE <= BankBytes
               /\ address + BLOCK_SIZE = BankBytes => next = 0
               /\ address + BLOCK_SIZE < BankBytes => next = address + BLOCK_SIZE /\ next # 0
               /\ next \in 0 .. BankBytes - 1 /\ next % BLOCK_SIZE = 0
  <1> DEFINE b == BLOCK_SIZE
             m == BankBytes
             next == (address + b) % m
  <1>1. b \in Nat \ {0} /\ m \in Nat \ {0}
    BY Sizes
  <1>2. PICK c \in Nat : m = b * c
    BY Sizes
  <1> HIDE DEF b, m
  <1>3. address \in Nat /\ address < m
    BY <1>1 DEF m
  <1>4. PICK q \in Nat, r \in 0 .. b - 1 : address \div b = q /\ address % b = r /\ address = b * q + r
    BY <1>1, <1>3, Quotients
  <1>5. r = 0
    BY <1>4 DEF b
  <1> DEFINE bq == q * b
             bq1 == (q + 1) * b
             bc == c * b
  <1>6. bq \in Nat /\ bq1 \in Nat /\ bc \in Nat /\ bq1 = bq + b /\ address = bq /\ m = bc /\ address + b = bq1
    <2>1. bq \in Nat /\ bq1 \in Nat /\ bc \in Nat /\ bq1 = bq + b
      BY <1>1, Multiples
    <2>2. b * q = bq /\ b * c = bc
      BY <1>1
    <2>3. address = bq + r /\ m = bc
      BY <1>2, <1>4, <2>2
    <2> HIDE DEF bq, bq1, bc
    <2> QED
      BY <1>1, <1>5, <2>1, <2>3
  <1>7. q + 1 <= c
    <2> SUFFICES ASSUME c <= q PROVE FALSE
      OBVIOUS
    <2>1. bc <= bq
      BY <1>1, Multiples
    <2> HIDE DEF bq, bq1, bc
    <2> QED
      BY <1>3, <1>6, <2>1
  <1>8. address + b <= m
    <2>1. bq1 <= bc
      <3>1. q + 1 \in Nat
        OBVIOUS
      <3> QED
        BY <1>1, <1>7, <3>1, Multiples
    <2> HIDE DEF bq, bq1, bc
    <2> QED
      BY <1>6, <2>1
  <1>9. ASSUME address + b = m PROVE next = 0
    <2>1. m = m * 1 + 0 /\ 0 \in 0 .. m - 1 /\ 1 \in Nat
      BY <1>1
    <2>2. m % m = 0
      BY <1>1, <2>1, Remainders
    <2> QED
      BY <1>9, <2>2
  <1>10. ASSUME address + b < m PROVE next = address + b /\ next # 0
    <2>1. address + b \in 0 .. m - 1 /\ address + b = m * 0 + (address + b) /\ address + b \in Nat
      BY <1>1, <1>3, <1>10
    <2>2. (address + b) % m = address + b
      <3> DEFINE z == address + b
      <3>1. z \in 0 .. m - 1 /\ z = m * 0 + z /\ z \in Nat /\ 0 \in Nat
        BY <2>1
      <3> HIDE DEF z
      <3>2. z % m = z
        BY <1>1, <3>1, Remainders
      <3> QED
        BY <3>2 DEF z
    <2>3. address + b # 0
      BY <1>1, <1>3
    <2> QED
      BY <2>2, <2>3
  <1>11. next \in 0 .. m - 1 /\ next % b = 0
    <2>1. CASE address + b = m
      <3>1. next = 0 /\ 0 \in 0 .. m - 1
        BY <1>1, <1>9, <2>1
      <3>2. 0 = b * 0 + 0 /\ 0 \in 0 .. b - 1 /\ 0 \in Nat
        BY <1>1
      <3>3. 0 % b = 0
        BY <1>1, <3>2, Remainders
      <3> QED
        BY <3>1, <3>3
    <2>2. CASE address + b < m
      <3>1. next = address + b /\ address + b \in 0 .. m - 1
        BY <1>1, <1>3, <1>10, <2>2
      <3>2. address + b = b * (q + 1) + 0 /\ q + 1 \in Nat /\ 0 \in 0 .. b - 1 /\ address + b \in Nat
        <4>1. b * (q + 1) = bq1
          BY <1>1
        <4>2. q + 1 \in Nat /\ 0 \in 0 .. b - 1
          BY <1>1
        <4> HIDE DEF bq1, bq, bc
        <4> QED
          BY <1>1, <1>3, <1>6, <4>1, <4>2
      <3> DEFINE z == address + b
      <3>3. z = b * (q + 1) + 0 /\ z \in Nat
        BY <3>2
      <3> HIDE DEF z
      <3>4. z % b = 0
        BY <1>1, <3>2, <3>3, Remainders
      <3> QED
        BY <3>1, <3>4 DEF z
    <2>3. address + b = m \/ address + b < m
      BY <1>1, <1>3, <1>8
    <2> HIDE DEF next
    <2> QED
      BY <2>1, <2>2, <2>3
  <1> HIDE DEF next
  <1> QED
    BY <1>8, <1>9, <1>10, <1>11 DEF next, b, m

LEMMA PlaceAdvances ==
    ASSUME NEW j \in Jobs, Placed(j)
    PROVE  /\ Advanced(j) \in Jobs /\ Placed(Advanced(j)) /\ Advanced(j).at = j.at + BLOCK_SIZE
           /\ Advanced(j).kind = j.kind /\ Advanced(j).bytes = j.bytes /\ Advanced(j).means = j.means
           /\ Advanced(j).soiled = j.soiled
           /\ j.address + BLOCK_SIZE <= BankBytes
  <1> DEFINE b == BLOCK_SIZE
             m == BankBytes
             next == (j.address + b) % m
             bank == IF next = 0 THEN j.bank + 1 ELSE j.bank
             k == Advanced(j)
  <1>1. b \in Nat \ {0} /\ m \in Nat \ {0}
    BY Sizes
  <1>2. /\ j.at = j.bank * m + j.address /\ j.address \in 0 .. m - 1 /\ j.address % b = 0
        /\ j.at \in Nat /\ j.bank \in Nat
    BY DEF Placed, Jobs
  <1>3. /\ j.address + b <= m
        /\ j.address + b = m => next = 0
        /\ j.address + b < m => next = j.address + b /\ next # 0
        /\ next \in 0 .. m - 1 /\ next % b = 0
    BY <1>2, BlocksFit
  <1> HIDE DEF b, m, next
  <1>4. k = [kind |-> j.kind, bytes |-> j.bytes, means |-> j.means, at |-> j.at + b, address |-> next,
             bank |-> bank, soiled |-> j.soiled]
    <2>1. k = [j EXCEPT !.at = @ + b, !.address = next, !.bank = IF next = 0 THEN @ + 1 ELSE @]
      BY DEF Advanced, next, b, m
    <2> HIDE DEF k
    <2> QED
      BY <2>1 DEF Jobs
  <1>5. bank \in Nat /\ next \in Nat /\ j.at + b \in Nat
    BY <1>1, <1>2, <1>3
  <1>6. j.at + b = bank * m + next
    <2> DEFINE x == j.bank * m
    <2>1. x \in Nat /\ (j.bank + 1) * m = x + m /\ j.at = x + j.address
      BY <1>1, <1>2, Multiples
    <2>2. CASE j.address + b = m
      <3>1. bank = j.bank + 1 /\ next = 0
        BY <1>3, <2>2
      <3> DEFINE y == bank * m
      <3>2. y = x + m
        BY <2>1, <3>1
      <3> HIDE DEF x, y
      <3>3. j.at + b = y + next
        BY <1>1, <1>2, <2>1, <2>2, <3>1, <3>2
      <3> QED
        BY <3>3 DEF y
    <2>3. CASE j.address + b < m
      <3>1. bank = j.bank /\ next = j.address + b
        BY <1>3, <2>3
      <3> DEFINE y == bank * m
      <3>2. y = x
        BY <3>1
      <3> HIDE DEF x, y
      <3>3. j.at + b = y + next
        BY <1>1, <1>2, <2>1, <2>3, <3>1, <3>2
      <3> QED
        BY <3>3 DEF y
    <2>4. j.address + b = m \/ j.address + b < m
      <3>1. PICK c \in Nat : c = j.address
        BY <1>2
      <3>2. c + b <= m
        BY <1>3, <3>1
      <3>3. c + b = m \/ c + b < m
        BY ONLY <1>1, <3>1, <3>2, c \in Nat
      <3> QED
        BY <3>1, <3>3
    <2> QED
      BY <2>2, <2>3, <2>4
  <1> HIDE DEF k, bank
  <1>7. k \in Jobs
    BY <1>4, <1>5 DEF Jobs
  <1>8. Placed(k)
    BY <1>3, <1>4, <1>6 DEF Placed, b, m
  <1> QED
    BY <1>3, <1>4, <1>7, <1>8 DEF k, b, m

\* The cells of a block, in the first bank or in the second.
LEMMA CellsFollow ==
    ASSUME NEW j \in Jobs, Placed(j), j.at < EepromBytes
    PROVE  /\ j.bank \in {0, 1} /\ j.at + BLOCK_SIZE <= EepromBytes
           /\ \A w \in Nat : Cell(j.bank, j.address + w) = j.at + w + 1
  <1> DEFINE m == BankBytes
  <1>1. m \in Nat \ {0} /\ EepromBytes = m + m /\ BLOCK_SIZE \in Nat
    BY Sizes
  <1>2. j.at = j.bank * m + j.address /\ j.address \in Nat /\ j.bank \in Nat /\ j.address + BLOCK_SIZE <= m
    BY PlaceAdvances DEF Placed, Jobs
  <1> HIDE DEF m
  <1>3. j.bank \in {0, 1}
    <2> SUFFICES ASSUME j.bank >= 2 PROVE FALSE
      BY <1>2
    <2> DEFINE x == j.bank * m
               y == 2 * m
    <2>1. y <= x /\ y = m + m /\ x \in Nat
      BY <1>1, <1>2, Multiples
    <2>2. j.at = x + j.address
      BY <1>2
    <2> HIDE DEF x, y
    <2> QED
      BY <1>1, <1>2, <2>1, <2>2
  <1>4. j.at = (IF j.bank # 0 THEN m ELSE 0) + j.address
    <2>1. CASE j.bank = 0
      <3>1. j.bank * m = 0
        BY <1>1, <2>1
      <3> QED
        BY <1>2, <2>1, <3>1
    <2>2. CASE j.bank = 1
      <3>1. j.bank * m = m
        BY <1>1, <2>2
      <3> QED
        BY <1>2, <2>2, <3>1
    <2> QED
      BY <1>3, <2>1, <2>2
  <1>5. \A w \in Nat : Cell(j.bank, j.address + w) = j.at + w + 1
    BY <1>1, <1>2, <1>4 DEF Cell, m
  <1>6. j.at + BLOCK_SIZE <= EepromBytes
    BY <1>1, <1>2, <1>4
  <1> QED
    BY <1>3, <1>5, <1>6

\* An address behind the beginning of a page, in the page.
LEMMA InThePage ==
    ASSUME NEW e \in Nat \ {0}, NEW address \in Nat, address % e = 0, NEW t \in 0 .. e - 1
    PROVE  (address + t) % e = t
  <1>1. PICK q \in Nat, r \in 0 .. e - 1 : address \div e = q /\ address % e = r /\ address = e * q + r
    BY Quotients
  <1> DEFINE n == address + t
  <1>2. r = 0
    BY <1>1
  <1> DEFINE x == e * q
  <1>3. x \in Nat /\ address = x + r
    BY <1>1
  <1>4. n = x + t /\ n \in Nat
    <2> HIDE DEF x
    <2> QED
      BY <1>2, <1>3
  <1> HIDE DEF n
  <1>5. n = e * q + t
    BY <1>4
  <1>6. n % e = t
    BY <1>4, <1>5, Remainders
  <1> QED
    BY <1>6 DEF n

\* prom.c:45: a slice that starts with a page goes where it should.
LEMMA PagesAreWritten ==
    ASSUME NEW bank \in Nat, NEW address \in Nat, address % EP0BUF_SIZE = 0,
           NEW slice \in Seq(Nat), Len(slice) <= EP0BUF_SIZE, NEW off \in Nat, Cell(bank, address) = off + 1
    PROVE  PageWritten(bank, address, slice) =
               [i \in DOMAIN eeprom |-> IF i \in off + 1 .. off + Len(slice) THEN slice[i - off] ELSE eeprom[i]]
  <1> DEFINE e == EP0BUF_SIZE
             page == address - (address % e)
             place(k) == Cell(bank, page + ((address + k - 1) % e))
  <1>1. e \in Nat \ {0} /\ BankBytes \in Nat /\ Len(slice) \in Nat /\ DOMAIN slice = 1 .. Len(slice)
    BY Sizes
  <1> HIDE DEF e
  <1>2. page = address
    BY <1>1 DEF e
  <1>3. ASSUME NEW k \in 1 .. Len(slice) PROVE place(k) = off + k
    <2>3. k - 1 \in 0 .. e - 1
      BY <1>1 DEF e
    <2>6. (address + (k - 1)) % e = k - 1
      BY <1>1, <2>3, InThePage DEF e
    <2>7. (address + k - 1) % e = k - 1
      BY <2>6
    <2>8. place(k) = Cell(bank, address + (k - 1))
      BY <1>2, <2>7
    <2>9. Cell(bank, address + (k - 1)) = Cell(bank, address) + (k - 1)
      BY <1>1 DEF Cell
    <2> HIDE DEF place
    <2> QED
      BY <2>8, <2>9
  <1>4. PageWritten(bank, address, slice) =
            [i \in DOMAIN eeprom |->
                IF \E k \in DOMAIN slice : place(k) = i
                THEN slice[CHOOSE k \in DOMAIN slice : place(k) = i] ELSE eeprom[i]]
    BY DEF PageWritten, e
  <1> HIDE DEF place
  <1>5. ASSUME NEW i \in DOMAIN eeprom
        PROVE  (IF \E k \in DOMAIN slice : place(k) = i
                THEN slice[CHOOSE k \in DOMAIN slice : place(k) = i] ELSE eeprom[i])
                   = IF i \in off + 1 .. off + Len(slice) THEN slice[i - off] ELSE eeprom[i]
    <2>1. CASE i \in off + 1 .. off + Len(slice)
      <3> DEFINE k == i - off
                 j == CHOOSE l \in DOMAIN slice : place(l) = i
      <3>1. k \in 1 .. Len(slice) /\ off + k = i
        BY <1>1, <2>1
      <3>2. place(k) = i /\ k \in DOMAIN slice
        BY <1>1, <1>3, <3>1
      <3>3. j \in DOMAIN slice /\ place(j) = i
        BY <3>2
      <3> HIDE DEF j, k
      <3>4. j \in 1 .. Len(slice) /\ off + j = i
        BY <1>1, <1>3, <3>3
      <3>5. j = k
        BY <3>1, <3>4
      <3> QED
        BY <2>1, <3>2, <3>5 DEF j, k
    <2>2. CASE i \notin off + 1 .. off + Len(slice)
      <3>1. ~\E k \in DOMAIN slice : place(k) = i
        <4> SUFFICES ASSUME NEW k \in 1 .. Len(slice), place(k) = i PROVE FALSE
          BY <1>1
        <4>1. off + k = i
          BY <1>3
        <4> QED
          BY <1>1, <2>2, <4>1
      <3> QED
        BY <2>2, <3>1
    <2> QED
      BY <2>1, <2>2
  <1> QED
    BY <1>4, <1>5

-----------------------------------------------------------------------------
(* What the files give.                                                      *)

LEMMA RecordsAreShort == ShortRecords
  <1>1. \A n \in Nat : n <= 1023 => n < 32768
    OBVIOUS
  <1>2. MaxRecord \in Nat /\ MaxRecord <= 1023
    BY Sizes, FilesAssumption
  <1> QED
    BY <1>1, <1>2 DEF ShortRecords

\* A hex file that can be read.
LEMMA FileMeans ==
    ASSUME NEW lines \in HexFiles, bufReadFromIntelHexFile(lines).ok
    PROVE  LET read == bufReadFromIntelHexFile(lines)
           IN  /\ Image(lines) \in Meanings /\ Image(lines).known
               /\ read.image \in Images /\ Shows(read.image, Image(lines).at)
               /\ DOMAIN Image(lines).at \subseteq 0 .. RamBytes - 1
  <1> DEFINE read == bufReadFromIntelHexFile(lines)
             m == Image(lines)
  <1>1. lines \in Seq(HexRecords) /\ Len(read.image.data) <= RamBytes /\ read.ok
    BY FilesAssumption DEF HexRecords
  <1>2. Paragraph \in Nat
    BY ImageAssumption
  <1>3. /\ read.image \in Images /\ DOMAIN MeantByHex(lines) = Covered(read.image)
        /\ Shows(read.image, MeantByHex(lines))
    BY <1>1, <1>2, HexIsMeant
  <1>4. m \in Meanings /\ m.known /\ m.at = MeantByHex(lines)
    BY <1>1 DEF Meanings, Image
  <1> HIDE DEF read, m
  <1>5. DOMAIN m.at \subseteq 0 .. RamBytes - 1
    <2>1. Len(read.image.mask) = Len(read.image.data) /\ Len(read.image.data) \in Nat
      BY <1>3 DEF Images
    <2>2. RamBytes \in Nat
      BY Sizes
    <2> QED
      BY <1>1, <1>3, <1>4, <2>1, <2>2 DEF Covered
  <1> QED
    BY <1>3, <1>4, <1>5 DEF read, m

LEMMA MeaningFits ==
    ASSUME NEW m \in Meanings, m.known
    PROVE  DOMAIN m.at \subseteq 0 .. RamBytes - 1
  <1>1. m # NoImage
    BY DEF NoImage
  <1>2. PICK lines \in HexFiles : bufReadFromIntelHexFile(lines).ok /\ m = Image(lines)
    BY <1>1 DEF Meanings
  <1> QED
    BY <1>2, FileMeans

LEMMA ImageLoads ==
    ASSUME NEW image \in Images, NEW at, Shows(image, at)
    PROVE  image.data \in Seq(Nat) /\ Loads(image.data, at)
  <1>1. image.data \in Seq(Nat) /\ Len(image.data) = Len(image.mask) /\ Len(image.mask) \in Nat
    BY DEF Images
  <1>2. ASSUME NEW a \in DOMAIN at PROVE a + 1 \in 1 .. Len(image.data) /\ image.data[a + 1] = at[a]
    <2>1. a \in Covered(image) /\ image.data[a + 1] = at[a]
      BY DEF Shows, ByteOf
    <2>2. a \in 0 .. Len(image.mask) - 1
      BY <2>1 DEF Covered
    <2>3. a + 1 \in 1 .. Len(image.mask)
      BY <1>1, <2>2
    <2> QED
      BY <1>1, <2>1, <2>3
  <1> QED
    BY <1>1, <1>2 DEF Loads

\* A file a job may be given: it cannot be read, or it is what it says.
Usable(file) ==
    /\ file.format \in {"iic", "hex"}
    /\ (file.format = "hex" /\ ~bufReadFromIntelHexFile(file.content).ok) \/ FileIs(file)

LEMMA FilesAreUsable ==
    ASSUME NEW file \in Files
    PROVE  Usable(file)
  <1>1. PICK lines \in HexFiles : file = [format |-> "hex", content |-> lines, means |-> Image(lines)]
    BY DEF Files
  <1>2. file.format = "hex" /\ file.content = lines /\ file.means = Image(lines)
    BY <1>1
  <1>3. CASE bufReadFromIntelHexFile(lines).ok
    <2>0. file = [format |-> file.format, content |-> file.content, means |-> file.means]
      BY <1>1
    <2>1. FileIs(file)
      BY <1>2, <1>3, <2>0, FileMeans DEF FileIs
    <2> QED
      BY <1>2, <2>1 DEF Usable
  <1>4. CASE ~bufReadFromIntelHexFile(lines).ok
    BY <1>2, <1>4 DEF Usable
  <1> QED
    BY <1>3, <1>4

\* What a flash of a usable file sends delivers what the file means.
LEMMA FlashDelivers ==
    ASSUME NEW file, Usable(file), ~(file.format = "hex" /\ ~bufReadFromIntelHexFile(file.content).ok)
    PROVE  LET read == bufReadFromIntelHexFile(file.content)
               bytes == IF file.format = "hex" THEN PromOf(read.image) ELSE file.content
           IN  /\ bytes \in Seq(Nat) /\ file.means \in Meanings
               /\ file.means.known => Delivers(bytes, file.means.at)
  <1> DEFINE read == bufReadFromIntelHexFile(file.content)
             bytes == IF file.format = "hex" THEN PromOf(read.image) ELSE file.content
  <1>1. FileIs(file) /\ file.means \in Meanings /\ file.format \in {"iic", "hex"}
    BY DEF Usable, FileIs
  <1>2. CASE file.format = "iic"
    <2>1. bytes = file.content
      BY <1>2
    <2> HIDE DEF bytes
    <2> QED
      BY <1>1, <1>2, <2>1 DEF FileIs, bytes
  <1>3. CASE file.format = "hex"
    <2>1. read.ok /\ bytes = PromOf(read.image)
      BY <1>3
    <2>2. read.image \in Images /\ Shows(read.image, file.means.at)
      BY <1>1, <1>3, <2>1 DEF FileIs
    <2> HIDE DEF bytes, read
    <2>3. Delivers(PromOf(read.image), file.means.at)
      BY <2>2, Sizes, PromDelivers
    <2>4. PromOf(read.image) \in Seq(Nat)
      BY <2>3 DEF Delivers
    <2> QED
      BY <1>1, <2>1, <2>3, <2>4 DEF bytes, read
  <1> HIDE DEF bytes
  <1> QED
    BY <1>1, <1>2, <1>3 DEF bytes

-----------------------------------------------------------------------------
(* One lemma for every action.                                               *)

LEMMA EepromIsASequence ==
    ASSUME eeprom \in [1 .. EepromBytes -> Nat]
    PROVE  eeprom \in Seq(Nat) /\ Len(eeprom) = EepromBytes
  BY Sizes

LEMMA IdleIsAJob ==
    /\ Idle \in Jobs /\ NoTransfer \in [bank : Nat, address : Nat, bytes : Seq(Nat)]
    /\ NoImage \in Meanings /\ ~NoImage.known /\ Idle.kind = "idle"
  BY DEF Idle, Jobs, Kinds, NoTransfer, NoImage, Meanings

\* A job that is over leaves only what lasts to be shown.
LEMMA NothingUnderWay ==
    ASSUME BoardTypes', KeptIs', NeverRunsHalfLoaded', job' = Idle, transfer' = NoTransfer,
           holds'.known => Delivers(eeprom', holds'.at)
    PROVE  BoardInv'
  <1>1. job'.kind = "idle"
    BY IdleIsAJob
  <1> QED
    BY <1>1 DEF BoardInv, PlaceIs, HoldsIs, FlashIs, SentIs, FlashLeavesTheRest, SaveIs, LoadIs

LEMMA InitIs == Init => BoardInv
  <1> SUFFICES ASSUME Init PROVE BoardInv
    OBVIOUS
  <1>1. job = Idle /\ transfer = NoTransfer /\ kept = NoFile /\ holds = NoImage /\ runs = NoImage
    BY DEF Init
  <1>2. BoardTypes
    <2>1. eeprom \in [1 .. EepromBytes -> Nat] /\ DOMAIN ram = 0 .. RamBytes - 1 /\ cpu \in {"held", "running"}
      BY DEF Init
    <2> QED
      BY <1>1, <2>1, IdleIsAJob DEF BoardTypes
  <1>3. KeptIs
    BY <1>1, IdleIsAJob DEF KeptIs, FileIs, NoFile
  <1>4. NeverRunsHalfLoaded /\ ~holds.known
    BY <1>1, IdleIsAJob DEF NeverRunsHalfLoaded
  <1>5. job.kind = "idle"
    BY <1>1, IdleIsAJob
  <1> QED
    BY <1>1, <1>2, <1>3, <1>4, <1>5
    DEF BoardInv, PlaceIs, HoldsIs, FlashIs, SentIs, FlashLeavesTheRest, SaveIs, LoadIs

\* Nothing under way: what the start of a job begins from.
LEMMA AtRest ==
    ASSUME BoardInv, job.kind = "idle"
    PROVE  transfer = NoTransfer
  BY DEF BoardInv, PlaceIs

LEMMA Refuses ==
    ASSUME BoardInv, NEW verdict, job.kind = "idle", Refuse(verdict), UNCHANGED <<boardVars, kept, runs>>
    PROVE  BoardInv'
  <1>1. job' = Idle /\ holds' = holds /\ UNCHANGED <<eeprom, ram, cpu, transfer, kept, runs>>
    BY DEF Refuse, Return, boardVars
  <1>2. transfer' = NoTransfer
    BY <1>1, AtRest
  <1>3. BoardTypes'
    BY <1>1, IdleIsAJob DEF BoardInv, BoardTypes
  <1>4. KeptIs' /\ NeverRunsHalfLoaded'
    BY <1>1 DEF BoardInv, KeptIs, NeverRunsHalfLoaded
  <1>5. holds'.known => Delivers(eeprom', holds'.at)
    BY <1>1 DEF BoardInv, HoldsIs
  <1> QED
    BY <1>1, <1>2, <1>3, <1>4, <1>5, NothingUnderWay

\* A job that begins has sent nothing, and its place is the beginning.
LEMMA BeginIs ==
    ASSUME NEW kind \in Kinds, NEW bytes \in Seq(Nat), NEW means \in Meanings, Begin(kind, bytes, means)
    PROVE  /\ job' = [kind |-> kind, bytes |-> bytes, means |-> means, at |-> 0, address |-> 0, bank |-> 0,
                      soiled |-> FALSE]
           /\ job' \in Jobs /\ Placed(job') /\ before' = eeprom
  <1>1. job' = [kind |-> kind, bytes |-> bytes, means |-> means, at |-> 0, address |-> 0, bank |-> 0,
                soiled |-> FALSE]
    BY DEF Begin, Idle
  <1>2. PICK j : j = job'
    OBVIOUS
  <1>3. j \in Jobs /\ j.at = 0 /\ j.bank = 0 /\ j.address = 0
    BY <1>1, <1>2 DEF Jobs
  <1>4. 0 % BLOCK_SIZE = 0
    <2>1. BLOCK_SIZE \in Nat \ {0} /\ 0 \in 0 .. BLOCK_SIZE - 1
      BY Sizes
    <2>2. 0 = BLOCK_SIZE * 0 + 0 /\ 0 \in Nat
      BY <2>1
    <2> QED
      BY <2>1, <2>2, Remainders
  <1>5. 0 = 0 * BankBytes + 0 /\ 0 \in 0 .. BankBytes - 1
    BY Sizes
  <1>6. Placed(j)
    BY <1>3, <1>4, <1>5 DEF Placed
  <1> QED
    BY <1>1, <1>2, <1>3, <1>6 DEF Begin

LEMMA FlashBegins ==
    ASSUME BoardInv, NEW file, Usable(file), flFlashCustomFirmware(file)
    PROVE  BoardInv'
  <1> DEFINE read == bufReadFromIntelHexFile(file.content)
             bytes == IF file.format = "hex" THEN PromOf(read.image) ELSE file.content
  <1>1. job.kind = "idle" /\ UNCHANGED <<eeprom, ram, cpu, transfer, kept, runs>>
    BY DEF flFlashCustomFirmware, Ready, boardVars
  <1>2. CASE Refuse("FL_FILE_ERR")
    <2>1. UNCHANGED <<boardVars, kept, runs>>
      BY DEF flFlashCustomFirmware
    <2> QED
      BY <1>1, <1>2, <2>1, Refuses
  <1>3. CASE ~(file.format = "hex" /\ ~read.ok) /\ Begin("flash", bytes, file.means) /\ holds' = NoImage
    <2>1. bytes \in Seq(Nat) /\ file.means \in Meanings /\ (file.means.known => Delivers(bytes, file.means.at))
      BY <1>3, FlashDelivers
    <2> HIDE DEF bytes
    <2>2. /\ job' = [kind |-> "flash", bytes |-> bytes, means |-> file.means, at |-> 0, address |-> 0, bank |-> 0,
                     soiled |-> FALSE]
          /\ job' \in Jobs /\ Placed(job') /\ before' = eeprom
      BY <1>3, <2>1, BeginIs DEF Kinds
    <2>3. job'.kind = "flash" /\ job'.bytes = bytes /\ job'.means = file.means /\ job'.at = 0
      BY <2>2
    <2>4. transfer' = NoTransfer
      BY <1>1, AtRest
    <2>5. BoardTypes'
      BY <1>1, <1>3, <2>2, IdleIsAJob DEF BoardInv, BoardTypes
    <2>6. KeptIs' /\ NeverRunsHalfLoaded'
      BY <1>1 DEF BoardInv, KeptIs, NeverRunsHalfLoaded
    <2>7. PlaceIs' /\ HoldsIs'
      BY <1>3, <2>2, <2>4, IdleIsAJob DEF PlaceIs, HoldsIs
    <2>8. FlashIs'
      <3>1. Len(bytes) \in Nat
        BY <2>1
      <3> QED
        BY <2>1, <2>3, <3>1 DEF FlashIs
    <2>9. FlashLeavesTheRest'
      <3>1. PICK z : z = transfer'.bytes
        OBVIOUS
      <3>2. Len(z) = 0
        BY <2>4, <3>1 DEF NoTransfer
      <3>3. eeprom' = before'
        BY <1>1, <2>2
      <3>4. \A i \in 1 .. 0 : FALSE
        OBVIOUS
      <3>5. \A i \in 1 .. 0 - 0 : eeprom'[i] = job'.bytes[i]
        BY <3>4
      <3> QED
        BY <2>3, <3>1, <3>2, <3>3, <3>5 DEF FlashLeavesTheRest
    <2> QED
      BY <2>3, <2>5, <2>6, <2>7, <2>8, <2>9 DEF BoardInv, SentIs, SaveIs, LoadIs
  <1> QED
    BY <1>2, <1>3 DEF flFlashCustomFirmware

LEMMA LoadBegins ==
    ASSUME BoardInv, NEW file, Usable(file), flLoadCustomFirmware(file)
    PROVE  BoardInv'
  <1> DEFINE read == bufReadFromIntelHexFile(file.content)
             bytes == read.image.data
  <1>1. job.kind = "idle" /\ UNCHANGED <<eeprom, ram, cpu, transfer, kept, runs>> /\ file.format = "hex"
    BY DEF flLoadCustomFirmware, Ready, boardVars
  <1>2. CASE Refuse("FL_FILE_ERR")
    <2>1. UNCHANGED <<boardVars, kept, runs>>
      BY DEF flLoadCustomFirmware
    <2> QED
      BY <1>1, <1>2, <2>1, Refuses
  <1>3. CASE read.ok /\ Begin("hold", bytes, file.means) /\ UNCHANGED holds
    <2>1. bytes \in Seq(Nat) /\ file.means \in Meanings /\ Loads(bytes, file.means.at)
      <3>1. file.means \in Meanings /\ read.image \in Images /\ Shows(read.image, file.means.at)
        BY <1>1, <1>3 DEF Usable, FileIs
      <3> HIDE DEF read
      <3> QED
        BY <3>1, ImageLoads
    <2> HIDE DEF bytes
    <2>2. /\ job' = [kind |-> "hold", bytes |-> bytes, means |-> file.means, at |-> 0, address |-> 0, bank |-> 0,
                     soiled |-> FALSE]
          /\ job' \in Jobs
      BY <1>3, <2>1, BeginIs DEF Kinds
    <2>3. job'.kind = "hold" /\ job'.bytes = bytes /\ job'.means = file.means /\ job'.at = 0
      BY <2>2
    <2>4. transfer' = NoTransfer
      BY <1>1, AtRest
    <2>5. BoardTypes'
      BY <1>1, <1>3, <2>2 DEF BoardInv, BoardTypes
    <2>6. KeptIs' /\ NeverRunsHalfLoaded'
      BY <1>1 DEF BoardInv, KeptIs, NeverRunsHalfLoaded
    <2>7. PlaceIs' /\ HoldsIs'
      BY <1>1, <1>3, <2>3, <2>4 DEF PlaceIs, HoldsIs, BoardInv
    <2>8. LoadIs'
      BY <2>1, <2>3 DEF LoadIs
    <2> QED
      BY <2>3, <2>5, <2>6, <2>7, <2>8 DEF BoardInv, SentIs, SaveIs, FlashIs, FlashLeavesTheRest
  <1> QED
    BY <1>2, <1>3 DEF flLoadCustomFirmware

LEMMA SaveBegins ==
    ASSUME BoardInv, flSaveFirmware
    PROVE  BoardInv'
  <1>1. job.kind = "idle" /\ UNCHANGED <<eeprom, ram, cpu, transfer, kept, runs, holds>> /\ Begin("save", <<>>, holds)
    BY DEF flSaveFirmware, Ready, boardVars
  <1>2. <<>> \in Seq(Nat) /\ Len(<<>>) = 0 /\ holds \in Meanings
    BY DEF BoardInv, BoardTypes
  <1>3. /\ job' = [kind |-> "save", bytes |-> <<>>, means |-> holds, at |-> 0, address |-> 0, bank |-> 0,
                   soiled |-> FALSE]
        /\ job' \in Jobs /\ Placed(job')
    BY <1>1, <1>2, BeginIs DEF Kinds
  <1>4. job'.kind = "save" /\ job'.bytes = <<>> /\ job'.means = holds /\ job'.at = 0
    BY <1>3
  <1>5. transfer' = NoTransfer
    BY <1>1, AtRest
  <1>6. BoardTypes'
    BY <1>1, <1>3 DEF BoardInv, BoardTypes
  <1>7. KeptIs' /\ NeverRunsHalfLoaded'
    BY <1>1 DEF BoardInv, KeptIs, NeverRunsHalfLoaded
  <1>8. PlaceIs' /\ HoldsIs'
    BY <1>1, <1>3, <1>4, <1>5 DEF PlaceIs, HoldsIs, BoardInv
  <1>9. SaveIs'
    <2>1. 0 < EepromBytes /\ \A i \in 1 .. 0 : FALSE
      BY Sizes
    <2> QED
      BY <1>1, <1>2, <1>4, <2>1 DEF SaveIs
  <1> QED
    BY <1>4, <1>6, <1>7, <1>8, <1>9 DEF BoardInv, SentIs, LoadIs, FlashIs, FlashLeavesTheRest

LEMMA Exports ==
    ASSUME BoardInv, ExportHex
    PROVE  BoardInv'
  <1> DEFINE read == i2cReadPromRecords(kept.content)
             lines == bufWriteToIntelHexFile(read.image)
  <1>1. /\ job.kind = "idle" /\ kept.format = "iic" /\ kept.means.known
        /\ kept' = [kept EXCEPT !.format = "hex", !.content = lines]
        /\ UNCHANGED <<boardVars, job, holds, runs, before>>
    BY DEF ExportHex, Ready
  <1>2. UNCHANGED <<eeprom, ram, cpu, transfer>>
    BY <1>1 DEF boardVars
  <1>3. Delivers(kept.content, kept.means.at) /\ kept.means \in Meanings
    BY <1>1 DEF BoardInv, KeptIs, FileIs
  <1>4. read.image \in Images /\ Shows(read.image, kept.means.at)
    BY <1>3, Sizes, RecordsAreShort, PromIsRead
  <1> HIDE DEF read
  <1>5. LET again == bufReadFromIntelHexFile(lines)
        IN  again.ok /\ again.image \in Images /\ Shows(again.image, kept.means.at)
    BY <1>4, ExportIsRead
  <1> HIDE DEF lines
  <1>6. KeptIs'
    <2>1. PICK k : k = kept'
      OBVIOUS
    <2>2. k = [format |-> "hex", content |-> lines, means |-> kept.means]
      <3>1. kept = [format |-> kept.format, content |-> kept.content, means |-> kept.means]
        BY DEF BoardInv, KeptIs, FileIs
      <3> QED
        BY <1>1, <2>1, <3>1
    <2>3. FileIs(k)
      BY <1>1, <1>3, <1>5, <2>2 DEF FileIs
    <2> QED
      BY <2>1, <2>3 DEF KeptIs
  <1> QED
    BY <1>1, <1>2, <1>6
    DEF BoardInv, BoardTypes, PlaceIs, HoldsIs, FlashIs, SentIs, FlashLeavesTheRest, SaveIs, LoadIs, NeverRunsHalfLoaded,
        Rest, SentUpTo, WrittenUpTo

\* A piece of a sequence, and a piece of that.
LEMMA PieceIs ==
    ASSUME NEW s \in Seq(Nat), NEW m \in Nat, NEW n \in Nat, m <= n, n <= Len(s)
    PROVE  LET piece == SubSeq(s, m + 1, n)
           IN  piece \in Seq(Nat) /\ Len(piece) = n - m /\ \A i \in 1 .. n - m : piece[i] = s[m + i]
  <1>1. \A i \in m + 1 .. n : s[i] \in Nat
    <2>1. \A i \in 1 .. Len(s) : s[i] \in Nat
      OBVIOUS
    <2> QED
      BY <2>1
  <1>2. m + 1 \in Int /\ n \in Int /\ n - (m + 1) + 1 = n - m
    OBVIOUS
  <1>3. /\ SubSeq(s, m + 1, n) \in Seq(Nat)
        /\ Len(SubSeq(s, m + 1, n)) = IF m + 1 <= n THEN n - (m + 1) + 1 ELSE 0
        /\ \A i \in 1 .. n - (m + 1) + 1 : SubSeq(s, m + 1, n)[i] = s[m + 1 + i - 1]
    BY <1>1, <1>2, SubSeqProperties
  <1> DEFINE piece == SubSeq(s, m + 1, n)
  <1> HIDE DEF piece
  <1>4. Len(piece) = n - m
    BY <1>3 DEF piece
  <1>5. \A i \in 1 .. n - m : piece[i] = s[m + i]
    <2>1. \A i \in 1 .. n - m : m + 1 + i - 1 = m + i
      OBVIOUS
    <2> QED
      BY <1>2, <1>3, <2>1 DEF piece
  <1> QED
    BY <1>3, <1>4, <1>5 DEF piece

LEMMA PieceOfPiece ==
    ASSUME NEW s \in Seq(Nat), NEW m \in Nat, NEW n \in Nat, m <= n, n <= Len(s), NEW k \in Nat, m + k <= n
    PROVE  SubSeq(SubSeq(s, m + 1, n), k + 1, n - m) = SubSeq(s, (m + k) + 1, n)
  <1> DEFINE piece == SubSeq(s, m + 1, n)
             rest == SubSeq(piece, k + 1, n - m)
             part == SubSeq(s, (m + k) + 1, n)
  <1>1. piece \in Seq(Nat) /\ Len(piece) = n - m /\ \A i \in 1 .. n - m : piece[i] = s[m + i]
    BY PieceIs
  <1> HIDE DEF piece
  <1>2. rest \in Seq(Nat) /\ Len(rest) = (n - m) - k /\ \A i \in 1 .. (n - m) - k : rest[i] = piece[k + i]
    <2>1. k \in Nat /\ n - m \in Nat /\ k <= n - m /\ n - m <= Len(piece)
      BY <1>1
    <2> QED
      BY <1>1, <2>1, PieceIs
  <1> HIDE DEF rest
  <1>3. part \in Seq(Nat) /\ Len(part) = n - (m + k) /\ \A i \in 1 .. n - (m + k) : part[i] = s[(m + k) + i]
    <2>1. m + k \in Nat
      OBVIOUS
    <2> QED
      BY <2>1, PieceIs
  <1> HIDE DEF part
  <1>4. (n - m) - k = n - (m + k)
    OBVIOUS
  <1>5. ASSUME NEW i \in 1 .. n - (m + k) PROVE rest[i] = part[i]
    <2>1. k + i \in 1 .. n - m /\ m + (k + i) = (m + k) + i
      OBVIOUS
    <2>2. rest[i] = piece[k + i] /\ part[i] = s[(m + k) + i]
      BY <1>2, <1>3, <1>4
    <2> QED
      BY <1>1, <2>1, <2>2
  <1>6. rest = part
    <2>1. Len(rest) = Len(part) /\ \A i \in 1 .. Len(rest) : rest[i] = part[i]
      BY <1>2, <1>3, <1>4, <1>5
    <2> QED
      BY <1>2, <1>3, <2>1, SeqEqual
  <1> QED
    BY <1>6 DEF rest, part, piece

\* What is sent of a job: a block, or what is left of it.
LEMMA BlockIsSent ==
    ASSUME NEW at \in Nat, NEW n \in Nat, at <= n
    PROVE  LET size == Min({n - at, BLOCK_SIZE})
           IN  /\ size \in Nat /\ at + size <= n /\ size <= BLOCK_SIZE
               /\ n - at <= BLOCK_SIZE => at + size = n
               /\ ~(n - at <= BLOCK_SIZE) => size = BLOCK_SIZE
  <1>1. BLOCK_SIZE \in Nat /\ BLOCK_SIZE \in Int /\ n - at \in Nat /\ n - at \in Int
    BY Sizes
  <1>2. CASE n - at <= BLOCK_SIZE
    <2>1. Min({n - at, BLOCK_SIZE}) = n - at
      BY <1>1, <1>2, MinOfTwo
    <2> QED
      BY <1>1, <1>2, <2>1
  <1>3. CASE ~(n - at <= BLOCK_SIZE)
    <2>1. Min({n - at, BLOCK_SIZE}) = BLOCK_SIZE
      BY <1>1, <1>3, MinOfTwo
    <2> QED
      BY <1>1, <1>3, <2>1
  <1> QED
    BY <1>2, <1>3

\* A block begins with a page.
LEMMA BlocksArePages ==
    ASSUME NEW address \in Nat, address % BLOCK_SIZE = 0
    PROVE  address % EP0BUF_SIZE = 0
  <1> DEFINE b == BLOCK_SIZE
             e == EP0BUF_SIZE
  <1>1. b \in Nat \ {0} /\ e \in Nat \ {0}
    BY Sizes
  <1>2. PICK d \in Nat : b = e * d
    BY Sizes
  <1> HIDE DEF b, e
  <1>3. PICK q \in Nat, r \in 0 .. b - 1 : address \div b = q /\ address % b = r /\ address = b * q + r
    BY <1>1, Quotients
  <1>4. r = 0
    BY <1>3 DEF b
  <1> DEFINE p == d * q
  <1>5. p \in Nat /\ address = e * p + 0 /\ 0 \in 0 .. e - 1
    <2>1. b * q = e * p
      BY <1>1, <1>2
    <2> DEFINE x == b * q
    <2>2. x \in Nat /\ address = x + r
      BY <1>1, <1>3
    <2> HIDE DEF x
    <2>3. address = x
      BY <1>4, <2>2
    <2>4. p \in Nat
      OBVIOUS
    <2>5. e * p \in Nat /\ e * p = x
      BY <1>1, <2>1, <2>2 DEF x
    <2> HIDE DEF p
    <2> QED
      BY <1>1, <2>3, <2>4, <2>5
  <1> HIDE DEF p
  <1>6. address % e = 0
    BY <1>1, <1>5, Remainders
  <1> QED
    BY <1>6 DEF e

\* The next page in a block.
LEMMA PagesFollow ==
    ASSUME NEW address \in Nat, address % EP0BUF_SIZE = 0
    PROVE  (address + EP0BUF_SIZE) % EP0BUF_SIZE = 0
  <1> DEFINE e == EP0BUF_SIZE
             n == address + e
  <1>1. e \in Nat \ {0}
    BY Sizes
  <1> HIDE DEF e
  <1>2. PICK q \in Nat, r \in 0 .. e - 1 : address \div e = q /\ address % e = r /\ address = e * q + r
    BY <1>1, Quotients
  <1>3. r = 0
    BY <1>2 DEF e
  <1> DEFINE x == q * e
             y == (q + 1) * e
  <1>4. x \in Nat /\ y = x + e /\ e * q = x /\ e * (q + 1) = y /\ address = x + r
    <2>1. x \in Nat /\ y = x + e
      BY <1>1, Multiples
    <2>2. e * q = x /\ e * (q + 1) = y
      BY <1>1
    <2> QED
      BY <1>2, <2>1, <2>2
  <1>5. n = e * (q + 1) + 0 /\ n \in Nat
    <2> HIDE DEF x, y
    <2> QED
      BY <1>1, <1>3, <1>4
  <1> HIDE DEF n
  <1>6. n % e = 0
    <2>1. q + 1 \in Nat /\ 0 \in 0 .. e - 1
      BY <1>1
    <2> QED
      BY <1>1, <1>5, <2>1, Remainders
  <1> QED
    BY <1>6 DEF n, e

\* The flash as it is, by what the board has of it.
LEMMA FlashSaysSent ==
    ASSUME job.kind = "sent"
    PROVE  FlashLeavesTheRest <=>
               (Len(job.bytes) <= EepromBytes =>
                   /\ \A i \in WrittenUpTo + 1 .. EepromBytes : eeprom[i] = before[i]
                   /\ job.soiled \/ \A i \in 1 .. WrittenUpTo : eeprom[i] = job.bytes[i])
  BY DEF FlashLeavesTheRest, WrittenUpTo, SentUpTo

LEMMA WritesBlock ==
    ASSUME BoardInv, fx2WriteEEPROM
    PROVE  BoardInv'
  <1> DEFINE size == Min({Rest, BLOCK_SIZE})
             bytes == SubSeq(job.bytes, job.at + 1, job.at + size)
  <1>1. /\ job.kind = "flash" /\ transfer = NoTransfer /\ job' = [job EXCEPT !.kind = "sent"]
        /\ transfer' = [bank |-> job.bank, address |-> job.address, bytes |-> bytes]
        /\ UNCHANGED <<eeprom, ram, cpu, kept, holds, runs, before>>
    BY DEF fx2WriteEEPROM
  <1>2. job \in Jobs /\ job.at <= Len(job.bytes) /\ Placed(job) /\ job.at \in Nat /\ Len(job.bytes) \in Nat
    BY <1>1 DEF BoardInv, BoardTypes, FlashIs, PlaceIs, Jobs
  <1>3. /\ size \in Nat /\ job.at + size <= Len(job.bytes) /\ Rest = Len(job.bytes) - job.at
    BY <1>2, BlockIsSent DEF Rest
  <1> HIDE DEF size
  <1>4. bytes \in Seq(Nat) /\ Len(bytes) = size
    <2>1. job.bytes \in Seq(Nat)
      BY <1>2 DEF Jobs
    <2>2. job.at + size \in Nat /\ job.at <= job.at + size /\ (job.at + size) - job.at = size
      BY <1>2, <1>3
    <2> QED
      BY <1>2, <1>3, <2>1, <2>2, PieceIs
  <1> HIDE DEF bytes
  <1>5. PICK j, t : j = job' /\ t = transfer'
    OBVIOUS
  <1>6. j = [kind |-> "sent", bytes |-> job.bytes, means |-> job.means, at |-> job.at, address |-> job.address,
             bank |-> job.bank, soiled |-> job.soiled]
    BY <1>1, <1>2, <1>5 DEF Jobs
  <1>7. /\ j \in Jobs /\ Placed(j) /\ j.kind = "sent" /\ j.bytes = job.bytes /\ j.means = job.means
        /\ j.at = job.at /\ j.address = job.address /\ j.bank = job.bank /\ j.soiled = job.soiled
    BY <1>2, <1>6 DEF Jobs, Kinds, Placed
  <1>8. t \in [bank : Nat, address : Nat, bytes : Seq(Nat)] /\ t.bank = j.bank /\ t.address = j.address /\ t.bytes = bytes
    BY <1>1, <1>2, <1>4, <1>5, <1>7 DEF Jobs
  <1>9. SentUpTo' = job.at + size /\ WrittenUpTo' = job.at
    <2>1. SentUpTo' = job.at + size
      BY <1>5, <1>7 DEF SentUpTo, Rest, size
    <2>2. Len(transfer'.bytes) = size
      BY <1>4, <1>5, <1>8
    <2>3. PICK n, s : n = SentUpTo' /\ s = Len(transfer'.bytes)
      OBVIOUS
    <2>4. WrittenUpTo' = n - s
      BY <2>3 DEF WrittenUpTo
    <2>5. n - s = job.at
      BY <1>2, <1>3, <2>1, <2>2, <2>3
    <2> QED
      BY <2>1, <2>4, <2>5
  <1>10. BoardTypes'
    BY <1>1, <1>5, <1>7, <1>8 DEF BoardInv, BoardTypes
  <1>11. KeptIs' /\ NeverRunsHalfLoaded'
    BY <1>1 DEF BoardInv, KeptIs, NeverRunsHalfLoaded
  <1>12. PlaceIs' /\ HoldsIs' /\ FlashIs'
    BY <1>1, <1>5, <1>7 DEF BoardInv, PlaceIs, HoldsIs, FlashIs
  <1>13. SentIs'
    <2>1. job.at \in job.at .. job.at + size /\ j.address + (job.at - job.at) = j.address
      BY <1>2, <1>3, <1>7 DEF Jobs
    <2>2. t.address % EP0BUF_SIZE = 0
      BY <1>2, <1>7, <1>8, BlocksArePages DEF Placed, Jobs
    <2> QED
      BY <1>5, <1>7, <1>8, <1>9, <2>1, <2>2 DEF SentIs, bytes
  <1>14. FlashLeavesTheRest'
    <2>1. job.at - Len(<<>>) = job.at /\ transfer.bytes = <<>>
      BY <1>1, <1>2 DEF NoTransfer
    <2>2. Len(job.bytes) <= EepromBytes =>
              /\ \A i \in job.at + 1 .. EepromBytes : eeprom[i] = before[i]
              /\ job.soiled \/ \A i \in 1 .. job.at : eeprom[i] = job.bytes[i]
      BY <1>1, <2>1 DEF BoardInv, FlashLeavesTheRest
    <2>3. SentUpTo' - Len(transfer'.bytes) = job.at
      BY <1>9 DEF WrittenUpTo
    <2> QED
      BY <1>1, <1>5, <1>7, <2>2, <2>3 DEF FlashLeavesTheRest, SentUpTo
  <1> QED
    BY <1>5, <1>7, <1>10, <1>11, <1>12, <1>13, <1>14 DEF BoardInv, SaveIs, LoadIs

\* A page has bytes where it had bytes.
LEMMA PageIsOfBytes ==
    ASSUME NEW bank, NEW address, NEW slice \in Seq(Nat), eeprom \in [1 .. EepromBytes -> Nat]
    PROVE  PageWritten(bank, address, slice) \in [1 .. EepromBytes -> Nat]
  <1> DEFINE page == address - (address % EP0BUF_SIZE)
             place(k) == Cell(bank, page + ((address + k - 1) % EP0BUF_SIZE))
             byte(i) == IF \E k \in DOMAIN slice : place(k) = i
                        THEN slice[CHOOSE k \in DOMAIN slice : place(k) = i] ELSE eeprom[i]
  <1>1. PageWritten(bank, address, slice) = [i \in DOMAIN eeprom |-> byte(i)]
    BY DEF PageWritten
  <1> HIDE DEF place
  <1>2. ASSUME NEW i \in 1 .. EepromBytes PROVE byte(i) \in Nat
    <2>1. CASE \E k \in DOMAIN slice : place(k) = i
      <3> DEFINE k == CHOOSE k \in DOMAIN slice : place(k) = i
      <3>1. k \in DOMAIN slice
        BY <2>1
      <3> HIDE DEF k
      <3>2. slice[k] \in Nat
        BY <3>1
      <3> QED
        BY <2>1, <3>2 DEF k
    <2>2. CASE ~\E k \in DOMAIN slice : place(k) = i
      BY <2>2
    <2> QED
      BY <2>1, <2>2
  <1>3. DOMAIN eeprom = 1 .. EepromBytes
    OBVIOUS
  <1> HIDE DEF byte
  <1> QED
    BY <1>1, <1>2, <1>3

LEMMA WritesPage ==
    ASSUME BoardInv, promWrite
    PROVE  BoardInv'
  <1> DEFINE size == Min({EP0BUF_SIZE, Len(transfer.bytes)})
             slice == SubSeq(transfer.bytes, 1, size)
             rest == SubSeq(transfer.bytes, size + 1, Len(transfer.bytes))
             w == WrittenUpTo
             u == SentUpTo
             taken == eeprom' = PageWritten(transfer.bank, transfer.address, slice) /\ UNCHANGED job
             refused == UNCHANGED eeprom /\ job' = [job EXCEPT !.soiled = TRUE]
  <1>1. /\ transfer.bytes # <<>>
        /\ transfer' = [transfer EXCEPT !.address = @ + size, !.bytes = rest]
        /\ taken \/ refused
        /\ UNCHANGED <<ram, cpu, kept, holds, runs, before>>
    BY DEF promWrite
  <1>2. job.kind = "sent"
    BY <1>1 DEF BoardInv, PlaceIs, NoTransfer
  <1>3. /\ job \in Jobs /\ job.at <= Len(job.bytes) /\ Placed(job) /\ job.at \in Nat /\ Len(job.bytes) \in Nat
        /\ job.bytes \in Seq(Nat) /\ job.address \in Nat /\ job.bank \in Nat
    BY <1>2 DEF BoardInv, BoardTypes, FlashIs, PlaceIs, Jobs
  <1>4. u \in Nat /\ job.at <= u /\ u <= Len(job.bytes)
    <2>1. /\ Min({Len(job.bytes) - job.at, BLOCK_SIZE}) \in Nat
          /\ job.at + Min({Len(job.bytes) - job.at, BLOCK_SIZE}) <= Len(job.bytes)
      BY <1>3, BlockIsSent
    <2> DEFINE s == Min({Len(job.bytes) - job.at, BLOCK_SIZE})
    <2>2. u = job.at + s
      BY DEF SentUpTo, Rest
    <2> HIDE DEF s, u
    <2>3. s \in Nat /\ job.at + s <= Len(job.bytes)
      BY <2>1 DEF s
    <2> QED
      BY <1>3, <2>2, <2>3
  <1>5. /\ w \in Nat /\ job.at <= w /\ w <= u /\ transfer.bytes = SubSeq(job.bytes, w + 1, u)
        /\ transfer.bank = job.bank /\ transfer.address = job.address + (w - job.at)
        /\ transfer.address % EP0BUF_SIZE = 0
    <2>1. /\ w \in job.at .. u /\ transfer.bytes = SubSeq(job.bytes, w + 1, u)
          /\ transfer.bank = job.bank /\ transfer.address = job.address + (w - job.at)
          /\ transfer.address % EP0BUF_SIZE = 0
      BY <1>1, <1>2 DEF BoardInv, SentIs
    <2> HIDE DEF u, w
    <2> QED
      BY <1>3, <1>4, <2>1
  <1> HIDE DEF u, w
  <1>6. /\ size \in Nat /\ size > 0 /\ size <= EP0BUF_SIZE /\ w + size <= u
        /\ slice \in Seq(Nat) /\ Len(slice) = size /\ \A i \in 1 .. size : slice[i] = job.bytes[w + i]
        /\ rest = SubSeq(job.bytes, (w + size) + 1, u) /\ rest \in Seq(Nat) /\ Len(rest) = u - (w + size)
        /\ rest # <<>> => size = EP0BUF_SIZE
    <2>1. PICK bs, block, m, n : bs = job.bytes /\ block = transfer.bytes /\ m = w /\ n = u
      OBVIOUS
    <2>2. /\ bs \in Seq(Nat) /\ m \in Nat /\ n \in Nat /\ m <= n /\ n <= Len(bs)
          /\ block = SubSeq(bs, m + 1, n) /\ block # <<>>
      BY <1>1, <1>3, <1>4, <1>5, <2>1
    <2> DEFINE z == Min({EP0BUF_SIZE, Len(block)})
               s == SubSeq(block, 1, z)
               r == SubSeq(block, z + 1, Len(block))
    <2>3. block \in Seq(Nat) /\ Len(block) = n - m /\ \A i \in 1 .. n - m : block[i] = bs[m + i]
      BY <2>2, PieceIs
    <2>4. EP0BUF_SIZE \in Nat \ {0} /\ Len(block) \in Nat /\ Len(block) # 0
      BY <2>2, <2>3, Sizes
    <2>5. z = IF EP0BUF_SIZE <= Len(block) THEN EP0BUF_SIZE ELSE Len(block)
      BY <2>4, MinOfTwo
    <2> HIDE DEF z
    <2>6. z \in Nat /\ z > 0 /\ z <= EP0BUF_SIZE /\ z <= Len(block) /\ m + z <= n
      BY <2>2, <2>3, <2>4, <2>5
    <2>7. s \in Seq(Nat) /\ Len(s) = z /\ \A i \in 1 .. z : s[i] = bs[m + i]
      <3>1. /\ SubSeq(block, 0 + 1, z) \in Seq(Nat) /\ Len(SubSeq(block, 0 + 1, z)) = z - 0
            /\ \A i \in 1 .. z - 0 : SubSeq(block, 0 + 1, z)[i] = block[0 + i]
        BY <2>3, <2>6, PieceIs
      <3>2. 0 + 1 = 1 /\ z - 0 = z
        BY <2>6
      <3>3. s \in Seq(Nat) /\ Len(s) = z /\ \A i \in 1 .. z : s[i] = block[0 + i]
        BY <3>1, <3>2
      <3>4. ASSUME NEW i \in 1 .. z PROVE s[i] = bs[m + i]
        <4>1. 0 + i = i /\ i \in 1 .. n - m
          BY <2>3, <2>6
        <4> QED
          BY <2>3, <3>3, <4>1
      <3> HIDE DEF s
      <3> QED
        BY <3>3, <3>4
    <2>8. r = SubSeq(bs, (m + z) + 1, n) /\ r \in Seq(Nat) /\ Len(r) = n - (m + z)
      <3>1. SubSeq(SubSeq(bs, m + 1, n), z + 1, n - m) = SubSeq(bs, (m + z) + 1, n)
        BY <2>2, <2>6, PieceOfPiece
      <3>2. r = SubSeq(bs, (m + z) + 1, n)
        BY <2>2, <2>3, <3>1
      <3>3. m + z \in Nat
        BY <2>2, <2>6
      <3> HIDE DEF r
      <3> QED
        BY <2>2, <2>6, <3>2, <3>3, PieceIs
    <2>9. r # <<>> => z = EP0BUF_SIZE
      <3>1. Len(r) # 0 => z = EP0BUF_SIZE
        BY <2>3, <2>4, <2>5, <2>8
      <3> HIDE DEF r
      <3> QED
        BY <2>8, <3>1
    <2>10. z = size /\ s = slice /\ r = rest
      BY <2>1 DEF z
    <2> HIDE DEF z, s, r, size, slice, rest
    <2> QED
      BY <2>1, <2>6, <2>7, <2>8, <2>9, <2>10
  <1> HIDE DEF size, slice, rest
  <1>7. transfer \in [bank : Nat, address : Nat, bytes : Seq(Nat)] /\ eeprom \in [1 .. EepromBytes -> Nat]
    BY DEF BoardInv, BoardTypes
  <1>8. PICK j, t : j = job' /\ t = transfer'
    OBVIOUS
  <1>9. t = [bank |-> transfer.bank, address |-> transfer.address + size, bytes |-> rest]
    BY <1>1, <1>7, <1>8
  <1>10. /\ t \in [bank : Nat, address : Nat, bytes : Seq(Nat)] /\ t.bank = job.bank
         /\ t.address = transfer.address + size /\ t.bytes = rest /\ t.address = job.address + ((w + size) - job.at)
    <2>1. transfer.address \in Nat /\ transfer.bank \in Nat
      BY <1>7
    <2>2. transfer.address + size \in Nat /\ transfer.address + size = job.address + ((w + size) - job.at)
      <3>1. PICK a \in Nat, b \in Nat, c \in Nat : a = transfer.address /\ b = job.address /\ c = job.at
        BY <1>3, <2>1
      <3>2. a = b + (w - c) /\ w \in Nat /\ size \in Nat
        BY <1>5, <1>6, <3>1
      <3>3. a + size \in Nat /\ a + size = b + ((w + size) - c)
        BY ONLY <3>2, a \in Nat, b \in Nat, c \in Nat
      <3> QED
        BY <3>1, <3>3
    <2> QED
      BY <1>5, <1>6, <1>9, <2>1, <2>2
  <1>11. /\ j \in Jobs /\ Placed(j) /\ j.kind = "sent" /\ j.bytes = job.bytes /\ j.means = job.means
         /\ j.at = job.at /\ j.address = job.address /\ j.bank = job.bank /\ (job.soiled => j.soiled)
    <2>1. CASE taken
      BY <1>2, <1>3, <1>8, <2>1
    <2>2. CASE refused
      <3>1. j = [kind |-> "sent", bytes |-> job.bytes, means |-> job.means, at |-> job.at, address |-> job.address,
                 bank |-> job.bank, soiled |-> TRUE]
        BY <1>2, <1>3, <1>8, <2>2 DEF Jobs
      <3> QED
        BY <1>3, <3>1 DEF Jobs, Kinds, Placed
    <2> HIDE DEF taken, refused
    <2> QED
      BY <1>1, <2>1, <2>2
  <1>12. eeprom' \in [1 .. EepromBytes -> Nat]
    <2>1. PageWritten(transfer.bank, transfer.address, slice) \in [1 .. EepromBytes -> Nat]
      BY <1>6, <1>7, PageIsOfBytes
    <2> QED
      BY <1>1, <1>7, <2>1
  <1>13. SentUpTo' = u /\ WrittenUpTo' = w + size
    <2>1. SentUpTo' = u
      BY <1>8, <1>11 DEF SentUpTo, Rest, u
    <2>2. PICK n, s : n = SentUpTo' /\ s = Len(transfer'.bytes)
      OBVIOUS
    <2>3. WrittenUpTo' = n - s
      BY <2>2 DEF WrittenUpTo
    <2>4. n = u /\ s = u - (w + size)
      BY <1>6, <1>8, <1>10, <2>1, <2>2
    <2>5. n - s = w + size
      BY <1>4, <1>5, <1>6, <2>4
    <2> QED
      BY <2>1, <2>3, <2>5
  <1>14. BoardTypes'
    BY <1>1, <1>8, <1>10, <1>11, <1>12 DEF BoardInv, BoardTypes
  <1>15. KeptIs' /\ NeverRunsHalfLoaded'
    BY <1>1 DEF BoardInv, KeptIs, NeverRunsHalfLoaded
  <1>16. PlaceIs' /\ FlashIs'
    BY <1>2, <1>8, <1>11 DEF BoardInv, PlaceIs, FlashIs
  <1>17. HoldsIs'
    BY <1>1, <1>2, IdleIsAJob DEF BoardInv, HoldsIs
  <1>18. SentIs'
    <2>1. w + size \in job.at .. u
      <3>1. job.at \in Nat /\ w \in Nat /\ u \in Nat /\ size \in Nat /\ job.at <= w /\ w + size <= u
        BY <1>3, <1>4, <1>5, <1>6
      <3>2. PICK c \in Nat : c = job.at
        BY <3>1
      <3>3. w + size \in c .. u
        BY ONLY <3>1, <3>2, c \in Nat
      <3> QED
        BY <3>2, <3>3
    <2>2. rest # <<>> => t.address % EP0BUF_SIZE = 0
      <3> SUFFICES ASSUME rest # <<>> PROVE t.address % EP0BUF_SIZE = 0
        OBVIOUS
      <3>1. size = EP0BUF_SIZE /\ transfer.address \in Nat
        BY <1>6, <1>7
      <3>2. (transfer.address + EP0BUF_SIZE) % EP0BUF_SIZE = 0
        BY <1>5, <3>1, PagesFollow
      <3> QED
        BY <1>10, <3>1, <3>2
    <2> QED
      BY <1>6, <1>8, <1>10, <1>11, <1>13, <2>1, <2>2 DEF SentIs
  <1>19. FlashLeavesTheRest'
    <2> SUFFICES ASSUME Len(job.bytes) <= EepromBytes
                 PROVE  /\ \A i \in (w + size) + 1 .. EepromBytes : eeprom'[i] = before[i]
                        /\ j.soiled \/ \A i \in 1 .. w + size : eeprom'[i] = job.bytes[i]
      <3>1. SentUpTo' - Len(transfer'.bytes) = w + size
        BY <1>13 DEF WrittenUpTo
      <3> QED
        BY <1>1, <1>8, <1>11, <3>1 DEF FlashLeavesTheRest, SentUpTo
    <2>1. /\ \A i \in w + 1 .. EepromBytes : eeprom[i] = before[i]
          /\ job.soiled \/ \A i \in 1 .. w : eeprom[i] = job.bytes[i]
      BY <1>2, FlashSaysSent DEF BoardInv, w
    <2>2. EepromBytes \in Nat
      BY Sizes
    <2>3. CASE refused
      <3>1. j.soiled /\ eeprom' = eeprom
        BY <1>3, <1>8, <2>3 DEF Jobs
      <3>2. \A i \in (w + size) + 1 .. EepromBytes : i \in w + 1 .. EepromBytes
        BY <1>5, <1>6, <2>2
      <3> QED
        BY <2>1, <3>1, <3>2
    <2>4. CASE taken
      <3>1. job.at < EepromBytes
        <4>1. PICK c \in Nat, l \in Nat : c = job.at /\ l = Len(job.bytes)
          BY <1>3
        <4>2. /\ c <= w /\ w + size <= u /\ u <= l /\ l <= EepromBytes /\ size > 0
              /\ w \in Nat /\ size \in Nat /\ u \in Nat
          BY <1>4, <1>5, <1>6, <4>1
        <4>3. c < EepromBytes
          BY ONLY <2>2, <4>2, c \in Nat, l \in Nat
        <4> QED
          BY <4>1, <4>3
      <3>2. Cell(transfer.bank, transfer.address) = w + 1
        <4> DEFINE d == w - job.at
        <4>1. d \in Nat /\ job.at + d + 1 = w + 1
          BY <1>3, <1>5
        <4>2. transfer.address = job.address + d
          BY <1>5
        <4> HIDE DEF d
        <4>3. Cell(job.bank, job.address + d) = job.at + d + 1
          BY <1>3, <3>1, <4>1, CellsFollow
        <4> QED
          BY <1>5, <4>1, <4>2, <4>3
      <3>3. eeprom' = [i \in DOMAIN eeprom |->
                          IF i \in w + 1 .. w + Len(slice) THEN slice[i - w] ELSE eeprom[i]]
        <4>1. /\ transfer.bank \in Nat /\ transfer.address \in Nat /\ transfer.address % EP0BUF_SIZE = 0
              /\ slice \in Seq(Nat) /\ Len(slice) <= EP0BUF_SIZE /\ w \in Nat
              /\ Cell(transfer.bank, transfer.address) = w + 1
          BY <1>5, <1>6, <1>7, <3>2
        <4>2. PageWritten(transfer.bank, transfer.address, slice) =
                  [i \in DOMAIN eeprom |-> IF i \in w + 1 .. w + Len(slice) THEN slice[i - w] ELSE eeprom[i]]
          BY ONLY <4>1, PagesAreWritten
        <4> QED
          BY <2>4, <4>2
      <3>4. ASSUME NEW i \in (w + size) + 1 .. EepromBytes PROVE eeprom'[i] = before[i]
        <4>1. i \in 1 .. EepromBytes /\ i \in w + 1 .. EepromBytes /\ i \notin w + 1 .. w + size
          BY <1>5, <1>6, <2>2
        <4>2. eeprom'[i] = eeprom[i]
          BY <1>6, <1>7, <3>3, <4>1
        <4> QED
          BY <2>1, <4>1, <4>2
      <3>5. ASSUME NEW i \in 1 .. w + size, ~job.soiled PROVE eeprom'[i] = job.bytes[i]
        <4>1. i \in 1 .. EepromBytes /\ i \in DOMAIN eeprom
          BY <1>4, <1>5, <1>6, <1>7, <1>3, <2>2
        <4>2. CASE i \in 1 .. w
          <5>1. i \notin w + 1 .. w + size
            BY <1>5, <1>6, <4>2
          <5>2. eeprom'[i] = eeprom[i]
            BY <1>6, <3>3, <4>1, <5>1
          <5> QED
            BY <2>1, <3>5, <4>2, <5>2
        <4>3. CASE i \in w + 1 .. w + size
          <5>1. i - w \in 1 .. size /\ w + (i - w) = i
            BY <1>5, <1>6, <4>3
          <5>2. eeprom'[i] = slice[i - w]
            BY <1>6, <3>3, <4>1, <4>3
          <5> QED
            BY <1>6, <5>1, <5>2
        <4>4. i \in 1 .. w \/ i \in w + 1 .. w + size
          BY <1>5, <1>6
        <4> QED
          BY <4>2, <4>3, <4>4
      <3>6. j.soiled = job.soiled /\ job.soiled \in BOOLEAN
        BY <1>3, <1>8, <2>4 DEF Jobs
      <3> QED
        BY <3>4, <3>5, <3>6
    <2> HIDE DEF taken, refused
    <2> QED
      BY <1>1, <2>3, <2>4
  <1> QED
    BY <1>8, <1>11, <1>14, <1>15, <1>16, <1>17, <1>18, <1>19 DEF BoardInv, SaveIs, LoadIs

\* The last block arrives: the EEPROM begins with what was sent.
LEMMA BlockArrives ==
    ASSUME BoardInv, BlockDone
    PROVE  BoardInv'
  <1> DEFINE size == Min({Len(job.bytes) - job.at, BLOCK_SIZE})
             last == Len(job.bytes) - job.at <= BLOCK_SIZE
  <1>1. /\ job.kind = "sent" /\ transfer.bytes = <<>> /\ transfer' = NoTransfer
        /\ UNCHANGED <<eeprom, ram, cpu, kept, runs, before>>
    BY DEF BlockDone
  <1>2. /\ job \in Jobs /\ job.at <= Len(job.bytes) /\ Placed(job) /\ job.at \in Nat /\ Len(job.bytes) \in Nat
        /\ job.bytes \in Seq(Nat) /\ eeprom \in [1 .. EepromBytes -> Nat]
        /\ job.means \in Meanings /\ (job.means.known => Delivers(job.bytes, job.means.at))
        /\ holds = NoImage
    BY <1>1 DEF BoardInv, BoardTypes, FlashIs, PlaceIs, Jobs, HoldsIs
  <1>3. /\ size \in Nat /\ job.at + size <= Len(job.bytes) /\ size <= BLOCK_SIZE
        /\ last => job.at + size = Len(job.bytes)
        /\ ~last => size = BLOCK_SIZE
    BY <1>2, BlockIsSent
  <1>4. WrittenUpTo = job.at + size
    <2>1. PICK l : l = transfer.bytes
      OBVIOUS
    <2>2. Len(l) = 0
      BY <1>1, <2>1
    <2>3. SentUpTo = job.at + size
      BY DEF SentUpTo, Rest
    <2>4. WrittenUpTo = SentUpTo - Len(l)
      BY <2>1 DEF WrittenUpTo
    <2> DEFINE n == job.at + size
    <2>5. n \in Nat
      <3> HIDE DEF size
      <3> QED
        BY <1>2, <1>3
    <2> HIDE DEF n
    <2>6. n - 0 = n
      BY <2>5
    <2> QED
      BY <2>2, <2>3, <2>4, <2>6 DEF n
  <1>5. Len(job.bytes) <= EepromBytes =>
            /\ \A i \in job.at + size + 1 .. EepromBytes : eeprom[i] = before[i]
            /\ job.soiled \/ \A i \in 1 .. job.at + size : eeprom[i] = job.bytes[i]
    BY <1>1, <1>4, FlashSaysSent DEF BoardInv
  <1>6. KeptIs' /\ NeverRunsHalfLoaded'
    BY <1>1 DEF BoardInv, KeptIs, NeverRunsHalfLoaded
  <1>7. CASE last
    <2>1. job' = Idle /\ holds' = IF job.soiled \/ Len(job.bytes) > EepromBytes THEN NoImage ELSE job.means
      BY <1>7 DEF BlockDone, IsLast, Rest, Return
    <2>2. BoardTypes'
      BY <1>1, <1>2, <2>1, IdleIsAJob DEF BoardInv, BoardTypes
    <2>3. ASSUME holds'.known PROVE Delivers(eeprom', holds'.at)
      <3>1. holds' = job.means /\ ~job.soiled /\ ~(Len(job.bytes) > EepromBytes)
        BY <2>1, <2>3, IdleIsAJob
      <3>2. Len(job.bytes) <= EepromBytes
        BY <1>2, <3>1, Sizes
      <3>3. \A i \in 1 .. Len(job.bytes) : eeprom[i] = job.bytes[i]
        BY <1>3, <1>5, <1>7, <3>1, <3>2
      <3>4. Delivers(job.bytes, job.means.at)
        BY <1>2, <2>3, <3>1
      <3>5. eeprom \in Seq(Nat) /\ Len(job.bytes) <= Len(eeprom) /\ MaxRecord \in Nat
        BY <1>2, <3>2, EepromIsASequence, Sizes
      <3>6. Delivers(eeprom, job.means.at)
        BY <3>3, <3>4, <3>5, DeliversMore
      <3> QED
        BY <1>1, <3>1, <3>6
    <2> QED
      BY <1>1, <1>6, <2>1, <2>2, <2>3, NothingUnderWay
  <1>8. CASE ~last
    <2>1. job' = [Advanced(job) EXCEPT !.kind = "flash"] /\ holds' = holds
      BY <1>8 DEF BlockDone, IsLast, Rest
    <2>2. /\ Advanced(job) \in Jobs /\ Placed(Advanced(job)) /\ Advanced(job).at = job.at + BLOCK_SIZE
          /\ Advanced(job).bytes = job.bytes /\ Advanced(job).means = job.means
          /\ Advanced(job).soiled = job.soiled
      BY <1>2, PlaceAdvances
    <2>3. PICK a, j : a = Advanced(job) /\ j = job'
      OBVIOUS
    <2>4. j = [kind |-> "flash", bytes |-> a.bytes, means |-> a.means, at |-> a.at, address |-> a.address,
               bank |-> a.bank, soiled |-> a.soiled]
      BY <2>1, <2>2, <2>3 DEF Jobs
    <2>5. /\ j \in Jobs /\ Placed(j) /\ j.kind = "flash" /\ j.at = job.at + size /\ j.bytes = job.bytes
          /\ j.means = job.means /\ j.soiled = job.soiled
      BY <1>3, <1>8, <2>2, <2>3, <2>4 DEF Jobs, Kinds, Placed
    <2>6. BoardTypes'
      BY <1>1, <2>1, <2>3, <2>5, IdleIsAJob DEF BoardInv, BoardTypes
    <2>7. PlaceIs' /\ HoldsIs' /\ FlashIs'
      BY <1>1, <1>2, <1>3, <2>1, <2>3, <2>5, IdleIsAJob DEF PlaceIs, HoldsIs, FlashIs
    <2>8. FlashLeavesTheRest'
      <3>1. PICK z : z = transfer'.bytes
        OBVIOUS
      <3>2. Len(z) = 0
        BY <1>1, <3>1 DEF NoTransfer
      <3>3. (job.at + size) - Len(z) = job.at + size
        <4>1. job.at + size \in Nat
          BY <1>2, <1>3
        <4> QED
          BY <3>2, <4>1
      <3> HIDE DEF size
      <3> QED
        BY <1>1, <1>5, <2>3, <2>5, <3>1, <3>3 DEF FlashLeavesTheRest
    <2> QED
      BY <1>6, <2>3, <2>5, <2>6, <2>7, <2>8 DEF BoardInv, SentIs, SaveIs, LoadIs
  <1> QED
    BY <1>7, <1>8

\* A block is read: what has been saved is what the EEPROM has, unless it is
\* known not to be.
LEMMA ReadsBlock ==
    ASSUME BoardInv, fx2ReadEEPROM
    PROVE  BoardInv'
  <1> DEFINE byte(failed, i) == IF failed THEN 35 ELSE eeprom[Cell(job.bank, job.address + i - 1)]
             block(failed) == [i \in 1 .. BLOCK_SIZE |-> byte(failed, i)]
             last == Len(job.bytes) + BLOCK_SIZE >= EepromBytes
  <1>1. job.kind = "save" /\ UNCHANGED <<eeprom, ram, cpu, transfer, holds, runs, before>>
    BY DEF fx2ReadEEPROM, boardVars
  <1>2. PICK failed \in BOOLEAN :
            IF last
            THEN /\ job' = Idle
                 /\ kept' = [format |-> "iic", content |-> job.bytes \o block(failed),
                             means |-> IF job.soiled \/ failed THEN NoImage ELSE job.means]
            ELSE /\ job' = [Advanced(job) EXCEPT !.bytes = job.bytes \o block(failed), !.soiled = job.soiled \/ failed]
                 /\ UNCHANGED kept
    BY DEF fx2ReadEEPROM, Return
  <1> DEFINE bs == block(failed)
             soiled == job.soiled \/ failed
             bytes == job.bytes \o bs
  <1>3. /\ job \in Jobs /\ job.bytes \in Seq(Nat) /\ Placed(job) /\ job.at \in Nat /\ Len(job.bytes) = job.at
        /\ job.at < EepromBytes /\ job.address \in Nat /\ job.soiled \in BOOLEAN /\ job.means = holds /\ holds \in Meanings
        /\ eeprom \in [1 .. EepromBytes -> Nat] /\ transfer = NoTransfer
        /\ ~job.soiled => \A i \in 1 .. job.at : job.bytes[i] = eeprom[i]
        /\ holds.known => Delivers(eeprom, holds.at)
    BY <1>1 DEF BoardInv, BoardTypes, PlaceIs, Jobs, SaveIs, HoldsIs
  <1>4. /\ job.at + BLOCK_SIZE <= EepromBytes /\ BLOCK_SIZE \in Nat /\ BLOCK_SIZE > 0 /\ EepromBytes \in Nat
        /\ \A w \in Nat : Cell(job.bank, job.address + w) = job.at + w + 1
    BY <1>3, Sizes, CellsFollow
  <1>5. ASSUME NEW i \in 1 .. BLOCK_SIZE PROVE byte(failed, i) = IF failed THEN 35 ELSE eeprom[job.at + i]
    <2>1. PICK a \in Nat, b \in Nat : a = job.at /\ b = job.address
      BY <1>3
    <2>2. i - 1 \in Nat /\ b + i - 1 = b + (i - 1) /\ a + (i - 1) + 1 = a + i
      BY <1>4
    <2>3. Cell(job.bank, job.address + (i - 1)) = job.at + (i - 1) + 1
      BY <1>4, <2>2
    <2> QED
      BY <2>1, <2>2, <2>3
  <1>6. \A i \in 1 .. BLOCK_SIZE : job.at + i \in 1 .. EepromBytes /\ eeprom[job.at + i] \in Nat
    <2>1. PICK a \in Nat : a = job.at
      BY <1>3
    <2>2. \A i \in 1 .. BLOCK_SIZE : a + i \in 1 .. EepromBytes
      BY <1>4, <2>1
    <2> QED
      BY <1>3, <2>1, <2>2
  <1> HIDE DEF byte
  <1>7. /\ bs \in Seq(Nat) /\ Len(bs) = BLOCK_SIZE
        /\ \A i \in 1 .. BLOCK_SIZE : bs[i] = IF failed THEN 35 ELSE eeprom[job.at + i]
    <2>1. \A i \in 1 .. BLOCK_SIZE : byte(failed, i) \in Nat
      BY <1>5, <1>6
    <2>2. bs = [i \in 1 .. BLOCK_SIZE |-> byte(failed, i)]
      OBVIOUS
    <2> HIDE DEF bs
    <2>3. bs \in [1 .. BLOCK_SIZE -> Nat]
      BY <2>1, <2>2
    <2>4. bs \in Seq(Nat) /\ Len(bs) = BLOCK_SIZE
      BY <1>4, <2>3
    <2> QED
      BY <1>5, <2>2, <2>4
  <1> HIDE DEF bs
  <1>8. /\ bytes \in Seq(Nat) /\ Len(bytes) = job.at + BLOCK_SIZE
        /\ \A i \in 1 .. job.at : bytes[i] = job.bytes[i]
        /\ \A i \in 1 .. BLOCK_SIZE : bytes[job.at + i] = bs[i]
    <2>1. PICK x, a : x = job.bytes /\ a = job.at
      OBVIOUS
    <2>2. x \in Seq(Nat) /\ Len(x) = a /\ a \in Nat
      BY <1>3, <2>1
    <2>3. bytes = x \o bs
      BY <2>1
    <2> HIDE DEF bytes
    <2>4. /\ bytes \in Seq(Nat) /\ Len(bytes) = a + BLOCK_SIZE
          /\ \A i \in 1 .. a : bytes[i] = x[i]
          /\ \A i \in 1 .. BLOCK_SIZE : bytes[a + i] = bs[i]
      <3>1. bs \in Seq(Nat) /\ Len(bs) = BLOCK_SIZE
        BY <1>7
      <3>2. /\ x \o bs \in Seq(Nat) /\ Len(x \o bs) = Len(x) + Len(bs)
            /\ \A i \in 1 .. Len(x) : (x \o bs)[i] = x[i]
            /\ \A i \in 1 .. Len(bs) : (x \o bs)[Len(x) + i] = bs[i]
        <4>1. PICK y : y = bs
          OBVIOUS
        <4>2. x \in Seq(Nat) /\ y \in Seq(Nat)
          BY <2>2, <3>1, <4>1
        <4>3. /\ x \o y \in Seq(Nat) /\ Len(x \o y) = Len(x) + Len(y)
              /\ \A i \in 1 .. Len(x) : (x \o y)[i] = x[i]
              /\ \A i \in 1 .. Len(y) : (x \o y)[Len(x) + i] = y[i]
          BY ONLY <4>2, JoinIs
        <4> QED
          BY <4>1, <4>3
      <3> QED
        BY <2>2, <2>3, <3>1, <3>2
    <2> QED
      BY <2>1, <2>4
  <1> HIDE DEF bytes
  <1>9. ~soiled => \A i \in 1 .. job.at + BLOCK_SIZE : bytes[i] = eeprom[i]
    <2> SUFFICES ASSUME ~soiled, NEW i \in 1 .. job.at + BLOCK_SIZE PROVE bytes[i] = eeprom[i]
      OBVIOUS
    <2>1. PICK a \in Nat : a = job.at
      BY <1>3
    <2>2. CASE i \in 1 .. a
      BY <1>3, <1>8, <2>1, <2>2
    <2>3. CASE i \in a + 1 .. a + BLOCK_SIZE
      <3>1. i - a \in 1 .. BLOCK_SIZE /\ a + (i - a) = i
        BY <1>4, <2>3
      <3> QED
        BY <1>7, <1>8, <2>1, <3>1
    <2>4. i \in 1 .. a \/ i \in a + 1 .. a + BLOCK_SIZE
      BY <1>4, <2>1
    <2> QED
      BY <2>2, <2>3, <2>4
  <1>10. NeverRunsHalfLoaded' /\ HoldsIs'
    <2>1. job'.kind # "flash" /\ job'.kind # "sent" => HoldsIs'
      BY <1>1 DEF BoardInv, HoldsIs
    <2>2. job'.kind # "flash" /\ job'.kind # "sent"
      <3>1. CASE last
        BY <1>2, <3>1, IdleIsAJob
      <3>2. CASE ~last
        <4>1. Advanced(job).kind = "save" /\ Advanced(job) \in Jobs
          BY <1>1, <1>3, PlaceAdvances
        <4>2. PICK a, j : a = Advanced(job) /\ j = job'
          OBVIOUS
        <4>3. j.kind = a.kind
          BY <1>2, <3>2, <4>1, <4>2 DEF Jobs
        <4> QED
          BY <4>1, <4>2, <4>3
      <3> QED
        BY <3>1, <3>2
    <2> QED
      BY <1>1, <2>1, <2>2 DEF BoardInv, NeverRunsHalfLoaded
  <1>11. CASE last
    <2>1. job' = Idle
      BY <1>2, <1>11
    <2>2. KeptIs'
      <3>1. PICK k : k = kept'
        OBVIOUS
      <3>2. k = [format |-> "iic", content |-> bytes, means |-> IF soiled THEN NoImage ELSE job.means]
        BY <1>2, <1>11, <3>1 DEF bytes, bs
      <3>3. k.format = "iic" /\ k.content = bytes /\ k.means = IF soiled THEN NoImage ELSE job.means
        BY <3>2
      <3>4. k.means \in Meanings
        BY <1>3, <3>3, IdleIsAJob
      <3>5. ASSUME k.means.known PROVE Delivers(bytes, k.means.at)
        <4>1. ~soiled /\ k.means = holds
          BY <1>3, <3>3, <3>5, IdleIsAJob
        <4>2. Delivers(eeprom, holds.at) /\ eeprom \in Seq(Nat) /\ Len(eeprom) = EepromBytes /\ MaxRecord \in Nat
          BY <1>3, <3>5, <4>1, EepromIsASequence, Sizes
        <4>3. Len(eeprom) <= Len(bytes)
          BY <1>3, <1>4, <1>8, <1>11, <4>2
        <4>4. \A i \in 1 .. Len(eeprom) : bytes[i] = eeprom[i]
          <5>1. job.at + BLOCK_SIZE = EepromBytes
            <6>1. PICK a \in Nat : a = job.at
              BY <1>3
            <6>2. a + BLOCK_SIZE <= EepromBytes /\ a + BLOCK_SIZE >= EepromBytes
              BY <1>3, <1>4, <1>11, <6>1
            <6>3. a + BLOCK_SIZE = EepromBytes
              BY ONLY <1>4, <6>2, a \in Nat
            <6> QED
              BY <6>1, <6>3
          <5> QED
            BY <1>9, <4>1, <4>2, <5>1
        <4>5. Delivers(bytes, holds.at)
          BY <1>8, <4>2, <4>3, <4>4, DeliversMore
        <4> QED
          BY <4>1, <4>5
      <3>6. k = [format |-> k.format, content |-> k.content, means |-> k.means]
        BY <3>2
      <3>7. FileIs(k)
        BY <1>8, <3>3, <3>4, <3>5, <3>6 DEF FileIs
      <3> QED
        BY <3>1, <3>7 DEF KeptIs
    <2>3. BoardTypes' /\ transfer' = NoTransfer
      BY <1>1, <1>3, <2>1, IdleIsAJob DEF BoardInv, BoardTypes
    <2> QED
      BY <1>10, <2>1, <2>2, <2>3, NothingUnderWay DEF HoldsIs
  <1>12. CASE ~last
    <2>1. job' = [Advanced(job) EXCEPT !.bytes = bytes, !.soiled = soiled] /\ kept' = kept
      BY <1>2, <1>12 DEF bytes, bs
    <2>2. /\ Advanced(job) \in Jobs /\ Placed(Advanced(job)) /\ Advanced(job).at = job.at + BLOCK_SIZE
          /\ Advanced(job).kind = "save" /\ Advanced(job).means = holds
      BY <1>1, <1>3, PlaceAdvances
    <2>3. PICK a, j : a = Advanced(job) /\ j = job'
      OBVIOUS
    <2>4. j = [kind |-> "save", bytes |-> bytes, means |-> holds, at |-> a.at, address |-> a.address,
               bank |-> a.bank, soiled |-> soiled]
      BY <2>1, <2>2, <2>3 DEF Jobs
    <2>5. /\ j \in Jobs /\ Placed(j) /\ j.kind = "save" /\ j.at = job.at + BLOCK_SIZE /\ j.bytes = bytes
          /\ j.means = holds /\ j.soiled = soiled
      BY <1>3, <1>8, <2>2, <2>3, <2>4 DEF Jobs, Kinds, Placed
    <2>6. BoardTypes' /\ KeptIs'
      BY <1>1, <2>1, <2>3, <2>5 DEF BoardInv, BoardTypes, KeptIs
    <2>7. PlaceIs'
      BY <1>1, <1>3, <2>3, <2>5 DEF PlaceIs
    <2>8. SaveIs'
      <3>1. job.at + BLOCK_SIZE < EepromBytes
        BY <1>3, <1>4, <1>12
      <3> QED
        BY <1>1, <1>8, <1>9, <2>3, <2>5, <3>1 DEF SaveIs
    <2> QED
      BY <1>10, <2>3, <2>5, <2>6, <2>7, <2>8 DEF BoardInv, SentIs, FlashIs, FlashLeavesTheRest, LoadIs
  <1> QED
    BY <1>11, <1>12

LEMMA Holds ==
    ASSUME BoardInv, HoldCpu
    PROVE  BoardInv'
  <1>1. /\ job.kind = "hold" /\ cpu' = "held" /\ job' = [job EXCEPT !.kind = "load"]
        /\ UNCHANGED <<eeprom, ram, transfer, kept, holds, runs, before>>
    BY DEF HoldCpu
  <1>2. job \in Jobs /\ transfer = NoTransfer /\ (job.means.known => Loads(job.bytes, job.means.at))
    BY <1>1 DEF BoardInv, BoardTypes, PlaceIs, LoadIs
  <1>3. PICK j : j = job'
    OBVIOUS
  <1>4. j = [kind |-> "load", bytes |-> job.bytes, means |-> job.means, at |-> job.at, address |-> job.address,
             bank |-> job.bank, soiled |-> job.soiled]
    BY <1>1, <1>2, <1>3 DEF Jobs
  <1>5. /\ j \in Jobs /\ j.kind = "load" /\ j.bytes = job.bytes /\ j.means = job.means /\ j.at = job.at
    BY <1>2, <1>4 DEF Jobs, Kinds
  <1>6. BoardTypes' /\ KeptIs' /\ NeverRunsHalfLoaded'
    BY <1>1, <1>3, <1>5 DEF BoardInv, BoardTypes, KeptIs, NeverRunsHalfLoaded
  <1>7. PlaceIs' /\ HoldsIs'
    BY <1>1, <1>2, <1>3, <1>5 DEF BoardInv, PlaceIs, HoldsIs
  <1>8. LoadIs'
    <2>1. j.at = 0
      BY <1>1, <1>5 DEF BoardInv, LoadIs
    <2>2. \A a \in 0 .. RamBytes - 1 : ~(a < 0)
      OBVIOUS
    <2> QED
      BY <1>1, <1>2, <1>3, <1>5, <2>1, <2>2 DEF LoadIs
  <1> QED
    BY <1>3, <1>5, <1>6, <1>7, <1>8 DEF BoardInv, FlashIs, SentIs, FlashLeavesTheRest, SaveIs

\* What the RAM has after a block.
LEMMA RamHas ==
    ASSUME BoardInv, job.kind = "load"
    PROVE  /\ DOMAIN RamWritten = 0 .. RamBytes - 1
           /\ \A a \in 0 .. RamBytes - 1 : a < job.at + BLOCK_SIZE /\ a < Len(job.bytes) => RamWritten[a] = job.bytes[a + 1]
  <1>1. /\ DOMAIN ram = 0 .. RamBytes - 1 /\ job.at \in Nat /\ job.bytes \in Seq(Nat) /\ Len(job.bytes) \in Nat
        /\ \A a \in 0 .. RamBytes - 1 : a < job.at /\ a < Len(job.bytes) => ram[a] = job.bytes[a + 1]
    BY DEF BoardInv, BoardTypes, Jobs, LoadIs
  <1> DEFINE s == Min({Len(job.bytes) - job.at, BLOCK_SIZE})
  <1>2. RamWritten = [a \in 0 .. RamBytes - 1 |->
                         IF a \in job.at .. job.at + s - 1 THEN job.bytes[a + 1] ELSE ram[a]]
    BY <1>1 DEF RamWritten, Rest
  <1>3. PICK n \in Nat, l \in Nat : n = job.at /\ l = Len(job.bytes)
    BY <1>1
  <1>4. s = IF l - n <= BLOCK_SIZE THEN l - n ELSE BLOCK_SIZE
    <2>1. l - n \in Int /\ BLOCK_SIZE \in Int
      BY Sizes
    <2> QED
      BY <1>3, <2>1, MinOfTwo
  <1> HIDE DEF s
  <1>5. ASSUME NEW a \in 0 .. RamBytes - 1, a < n + BLOCK_SIZE, a < l PROVE RamWritten[a] = job.bytes[a + 1]
    <2>1. RamBytes \in Nat /\ BLOCK_SIZE \in Nat
      BY Sizes
    <2>2. CASE a < n
      <3>1. a \notin n .. n + s - 1
        BY <2>1, <2>2, <1>4
      <3> QED
        BY <1>1, <1>2, <1>3, <1>5, <2>2, <3>1
    <2>3. CASE ~(a < n)
      <3>1. a \in n .. n + s - 1
        BY <1>4, <1>5, <2>1, <2>3
      <3> QED
        BY <1>2, <1>3, <3>1
    <2> QED
      BY <2>2, <2>3
  <1> QED
    BY <1>2, <1>3, <1>5

LEMMA WritesRam ==
    ASSUME BoardInv, fx2WriteRAM
    PROVE  BoardInv'
  <1> DEFINE last == Len(job.bytes) - job.at <= BLOCK_SIZE
  <1>1. /\ job.kind = "load" /\ ram' = RamWritten
        /\ job' = IF last THEN [job EXCEPT !.kind = "release"] ELSE [job EXCEPT !.at = job.at + BLOCK_SIZE]
        /\ UNCHANGED <<eeprom, cpu, transfer, kept, holds, runs, before>>
    BY DEF fx2WriteRAM, IsLast, Rest
  <1>2. /\ job \in Jobs /\ transfer = NoTransfer /\ (job.means.known => Loads(job.bytes, job.means.at)) /\ cpu = "held"
        /\ job.at \in Nat /\ Len(job.bytes) \in Nat
    BY <1>1 DEF BoardInv, BoardTypes, PlaceIs, LoadIs, Jobs
  <1>3. /\ DOMAIN ram' = 0 .. RamBytes - 1
        /\ \A a \in 0 .. RamBytes - 1 : a < job.at + BLOCK_SIZE /\ a < Len(job.bytes) => ram'[a] = job.bytes[a + 1]
    BY <1>1, RamHas
  <1>4. PICK j, n, l : j = job' /\ n \in Nat /\ n = job.at /\ l \in Nat /\ l = Len(job.bytes)
    BY <1>2
  <1>5. BLOCK_SIZE \in Nat
    BY Sizes
  <1>6. /\ j \in Jobs /\ j.bytes = job.bytes /\ j.means = job.means
        /\ last => j.kind = "release"
        /\ ~last => j.kind = "load" /\ j.at = n + BLOCK_SIZE
    <2>1. CASE last
      <3>1. j = [kind |-> "release", bytes |-> job.bytes, means |-> job.means, at |-> job.at, address |-> job.address,
                 bank |-> job.bank, soiled |-> job.soiled]
        BY <1>1, <1>2, <1>4, <2>1 DEF Jobs
      <3> QED
        BY <1>2, <2>1, <3>1 DEF Jobs, Kinds
    <2>2. CASE ~last
      <3>1. j = [kind |-> "load", bytes |-> job.bytes, means |-> job.means, at |-> n + BLOCK_SIZE, address |-> job.address,
                 bank |-> job.bank, soiled |-> job.soiled]
        BY <1>1, <1>2, <1>4, <2>2 DEF Jobs
      <3>2. n + BLOCK_SIZE \in Nat
        BY <1>4, <1>5
      <3> QED
        BY <1>2, <2>2, <3>1, <3>2 DEF Jobs, Kinds
    <2> QED
      BY <2>1, <2>2
  <1>7. j.kind \in {"load", "release"}
    BY <1>6
  <1>8. BoardTypes' /\ KeptIs' /\ NeverRunsHalfLoaded'
    BY <1>1, <1>2, <1>3, <1>4, <1>6 DEF BoardInv, BoardTypes, KeptIs, NeverRunsHalfLoaded
  <1>9. PlaceIs' /\ HoldsIs'
    BY <1>1, <1>2, <1>4, <1>7 DEF BoardInv, PlaceIs, HoldsIs
  <1>10. LoadIs'
    <2>1. j.kind = "release" => \A a \in 0 .. RamBytes - 1 : a < l => ram'[a] = j.bytes[a + 1]
      <3> SUFFICES ASSUME last, NEW a \in 0 .. RamBytes - 1, a < l PROVE ram'[a] = j.bytes[a + 1]
        BY <1>6
      <3>1. a < n + BLOCK_SIZE
        BY <1>4, <1>5
      <3> QED
        BY <1>3, <1>4, <1>6, <3>1
    <2>2. j.kind = "load" => \A a \in 0 .. RamBytes - 1 : a < j.at /\ a < l => ram'[a] = j.bytes[a + 1]
      <3> SUFFICES ASSUME ~last, NEW a \in 0 .. RamBytes - 1, a < n + BLOCK_SIZE, a < l PROVE ram'[a] = j.bytes[a + 1]
        BY <1>6
      <3> QED
        BY <1>3, <1>4, <1>6
    <2> QED
      BY <1>1, <1>2, <1>4, <1>6, <1>7, <2>1, <2>2 DEF LoadIs
  <1> QED
    BY <1>4, <1>7, <1>8, <1>9, <1>10 DEF BoardInv, FlashIs, SentIs, FlashLeavesTheRest, SaveIs

LEMMA Releases ==
    ASSUME BoardInv, ReleaseCpu
    PROVE  BoardInv'
  <1>1. /\ job.kind = "release" /\ job' = Idle
        /\ (cpu' = "running" /\ runs' = job.means) \/ UNCHANGED <<cpu, runs>>
        /\ UNCHANGED <<eeprom, ram, transfer, kept, holds, before>>
    BY DEF ReleaseCpu, Return
  <1>2. /\ transfer' = NoTransfer /\ job.means \in Meanings /\ (job.means.known => Loads(job.bytes, job.means.at))
        /\ \A a \in 0 .. RamBytes - 1 : a < Len(job.bytes) => ram[a] = job.bytes[a + 1]
        /\ Len(job.bytes) \in Nat
    BY <1>1 DEF BoardInv, BoardTypes, PlaceIs, LoadIs, Jobs
  <1>3. BoardTypes' /\ KeptIs' /\ (holds'.known => Delivers(eeprom', holds'.at))
    BY <1>1, <1>2, IdleIsAJob DEF BoardInv, BoardTypes, KeptIs, HoldsIs
  <1>4. NeverRunsHalfLoaded'
    <2>1. CASE UNCHANGED <<cpu, runs>>
      BY <1>1, <2>1 DEF BoardInv, NeverRunsHalfLoaded
    <2>2. CASE runs' = job.means
      <3>1. ASSUME job.means.known, NEW a \in DOMAIN job.means.at PROVE ram[a] = job.means.at[a]
        <4>1. a \in 0 .. RamBytes - 1
          BY <1>2, <3>1, MeaningFits
        <4>2. a + 1 \in 1 .. Len(job.bytes) /\ job.bytes[a + 1] = job.means.at[a]
          BY <1>2, <3>1 DEF Loads
        <4>3. a < Len(job.bytes)
          BY <1>2, <4>1, <4>2
        <4> QED
          BY <1>2, <4>1, <4>2, <4>3
      <3> QED
        BY <1>1, <2>2, <3>1 DEF NeverRunsHalfLoaded
    <2> QED
      BY <1>1, <2>1, <2>2
  <1> QED
    BY <1>1, <1>2, <1>3, <1>4, NothingUnderWay

LEMMA Fails ==
    ASSUME BoardInv, TransferFails
    PROVE  BoardInv'
  <1>1. /\ job' = Idle /\ transfer' = NoTransfer
        /\ ram' = ram \/ (job.kind = "load" /\ ram' = RamWritten)
        /\ UNCHANGED <<eeprom, cpu, kept, holds, runs, before>>
    BY DEF TransferFails, Return
  <1>2. DOMAIN ram' = 0 .. RamBytes - 1
    <2>1. DOMAIN ram = 0 .. RamBytes - 1
      BY DEF BoardInv, BoardTypes
    <2> QED
      BY <1>1, <2>1, RamHas
  <1>3. BoardTypes' /\ KeptIs' /\ (holds'.known => Delivers(eeprom', holds'.at))
    BY <1>1, <1>2, IdleIsAJob DEF BoardInv, BoardTypes, KeptIs, HoldsIs
  <1>4. NeverRunsHalfLoaded'
    <2>1. CASE ram' = ram
      BY <1>1, <2>1 DEF BoardInv, NeverRunsHalfLoaded
    <2>2. CASE job.kind = "load"
      <3>1. cpu' = "held"
        BY <1>1, <2>2 DEF BoardInv, LoadIs
      <3> QED
        BY <3>1 DEF NeverRunsHalfLoaded
    <2> QED
      BY <1>1, <2>1, <2>2
  <1> QED
    BY <1>1, <1>3, <1>4, NothingUnderWay

\* What the EEPROM holds boots.
LEMMA HeldBoots ==
    ASSUME BoardInv, holds.known
    PROVE  /\ Boots /\ DOMAIN holds.at \subseteq DOMAIN BootMemory
           /\ \A a \in DOMAIN BootMemory : BootMemory[a] = ByteOf(holds.at, a)
           /\ DOMAIN holds.at \subseteq 0 .. RamBytes - 1
  <1>1. Delivers(eeprom, holds.at) /\ holds \in Meanings /\ eeprom \in [1 .. EepromBytes -> Nat]
    BY DEF BoardInv, HoldsIs, BoardTypes
  <1>2. DOMAIN holds.at \subseteq 0 .. RamBytes - 1
    BY <1>1, MeaningFits
  <1>3. Len(eeprom) = EepromBytes
    BY <1>1, EepromIsASequence
  <1>4. PICK at : at = holds.at
    OBVIOUS
  <1>5. MaxRecord \in Nat /\ RamBytes \in Nat /\ Delivers(eeprom, at) /\ DOMAIN at \subseteq 0 .. RamBytes - 1
    BY <1>1, <1>2, <1>4, Sizes
  <1>6. /\ Boots /\ DOMAIN at \subseteq DOMAIN BootMemory
        /\ \A a \in DOMAIN BootMemory : BootMemory[a] = ByteOf(at, a)
    BY <1>3, <1>5, RecordsAreShort, BootsWhatIsDelivered
  <1> QED
    BY <1>2, <1>4, <1>6

LEMMA LosesPower ==
    ASSUME BoardInv, PowerCycle
    PROVE  BoardInv'
  <1>1. /\ transfer' = NoTransfer
        /\ ram' = [a \in DOMAIN ram |-> IF Boots /\ a \in DOMAIN BootMemory THEN BootMemory[a] ELSE 0]
        /\ cpu' = (IF Boots THEN "running" ELSE "held") /\ runs' = holds
        /\ UNCHANGED <<eeprom, kept, holds, before>>
    BY DEF PowerCycle
  <1>2. (job.kind = "idle" /\ job' = job) \/ job' = Idle
    BY DEF PowerCycle, Return
  <1>3. DOMAIN ram = 0 .. RamBytes - 1 /\ DOMAIN ram' = 0 .. RamBytes - 1
    BY <1>1 DEF BoardInv, BoardTypes
  <1>4. BoardTypes'
    <2>1. job' \in Jobs
      BY <1>2, IdleIsAJob DEF BoardInv, BoardTypes
    <2>2. cpu' \in {"held", "running"}
      BY <1>1
    <2> QED
      BY <1>1, <1>3, <2>1, <2>2, IdleIsAJob DEF BoardInv, BoardTypes
  <1>5. KeptIs' /\ (holds'.known => Delivers(eeprom', holds'.at))
    BY <1>1 DEF BoardInv, KeptIs, HoldsIs
  <1>6. NeverRunsHalfLoaded'
    <2>1. ASSUME holds.known, NEW a \in DOMAIN holds.at PROVE ram'[a] = holds.at[a]
      <3>1. Boots /\ a \in DOMAIN BootMemory /\ BootMemory[a] = ByteOf(holds.at, a) /\ a \in 0 .. RamBytes - 1
        BY <2>1, HeldBoots
      <3> QED
        BY <1>1, <1>3, <2>1, <3>1 DEF ByteOf
    <2> QED
      BY <1>1, <2>1 DEF NeverRunsHalfLoaded
  <1>7. job'.kind = "idle"
    BY <1>2, IdleIsAJob
  <1> QED
    BY <1>1, <1>4, <1>5, <1>6, <1>7
    DEF BoardInv, PlaceIs, HoldsIs, FlashIs, SentIs, FlashLeavesTheRest, SaveIs, LoadIs

LEMMA BoardStutters ==
    ASSUME BoardInv, UNCHANGED vars
    PROVE  BoardInv'
  <1>1. UNCHANGED <<eeprom, ram, cpu, transfer, job, kept, holds, runs, before>>
    BY DEF vars, boardVars
  <1>2. UNCHANGED <<SentUpTo, WrittenUpTo>>
    BY <1>1 DEF SentUpTo, WrittenUpTo, Rest
  <1>3. BoardTypes' /\ KeptIs' /\ PlaceIs' /\ HoldsIs' /\ FlashIs'
    BY <1>1 DEF BoardInv, BoardTypes, KeptIs, PlaceIs, HoldsIs, FlashIs
  <1>4. SentIs'
    BY <1>1, <1>2 DEF BoardInv, SentIs
  <1>5. FlashLeavesTheRest'
    BY <1>1 DEF BoardInv, FlashLeavesTheRest, Rest
  <1>6. SaveIs' /\ LoadIs' /\ NeverRunsHalfLoaded'
    BY <1>1 DEF BoardInv, SaveIs, LoadIs, NeverRunsHalfLoaded
  <1> QED
    BY <1>3, <1>4, <1>5, <1>6 DEF BoardInv

-----------------------------------------------------------------------------
(* Theorems.                                                                 *)

LEMMA BoardInvSteps == BoardInv /\ [Next]_vars => BoardInv'
  <1> SUFFICES ASSUME BoardInv, [Next]_vars PROVE BoardInv'
    OBVIOUS
  <1>1. CASE JobAsked
    <2>1. ASSUME NEW file \in Files, flFlashCustomFirmware(file) \/ flLoadCustomFirmware(file) PROVE BoardInv'
      BY <2>1, FilesAreUsable, FlashBegins, LoadBegins
    <2>2. ASSUME kept.format # "none", flFlashCustomFirmware(kept) \/ flLoadCustomFirmware(kept) PROVE BoardInv'
      <3>1. Usable(kept)
        BY <2>2 DEF BoardInv, KeptIs, FileIs, Usable
      <3> QED
        BY <2>2, <3>1, FlashBegins, LoadBegins
    <2>3. CASE flSaveFirmware
      BY <2>3, SaveBegins
    <2>4. CASE ExportHex
      BY <2>4, Exports
    <2> QED
      BY <1>1, <2>1, <2>2, <2>3, <2>4 DEF JobAsked
  <1>2. CASE JobStep
    BY <1>2, WritesBlock, WritesPage, BlockArrives, ReadsBlock, Holds, WritesRam, Fails DEF JobStep
  <1>3. CASE ReleaseCpu
    BY <1>3, Releases
  <1>4. CASE PowerCycle
    BY <1>4, LosesPower
  <1>5. CASE UNCHANGED vars
    BY <1>5, BoardStutters
  <1> QED
    BY <1>1, <1>2, <1>3, <1>4, <1>5 DEF Next

\* What every step of the board and the host keeps: the board has of a flash
\* what has been sent, a save has what the EEPROM has, a load has what it is
\* to have, and what is known of the EEPROM and of a saved file is delivered by
\* its bytes; for every size of page, block, bank and record, and all hex files.
THEOREM BoardKeepsItsOrder == Spec => []BoardInv
  <1>1. Init => BoardInv
    BY InitIs
  <1>2. BoardInv /\ [Next]_vars => BoardInv'
    BY BoardInvSteps
  <1> QED
    BY <1>1, <1>2, PTL DEF Spec

\* fx2.c:102: a flash that reported success, and met no refused page, boots
\* what its file was made from, as does one of a file saved from that flash.
THEOREM FlashedFirmwareBoots == Spec => []BootsTheImage
  <1>1. BoardInv => BootsTheImage
    BY HeldBoots DEF BootsTheImage, ByteOf
  <1> QED
    BY <1>1, BoardKeepsItsOrder, PTL

\* prom.c:45: at every page of a flash, what has been sent is in place, in both
\* banks, and what is behind is as it was.
THEOREM FlashingLeavesTheRest == Spec => []FlashLeavesTheRest
  <1>1. BoardInv => FlashLeavesTheRest
    BY DEF BoardInv
  <1> QED
    BY <1>1, BoardKeepsItsOrder, PTL

\* ram.c:70: the processor never runs firmware that its RAM has only in part.
THEOREM NothingHalfLoadedRuns == Spec => []NeverRunsHalfLoaded
  <1>1. BoardInv => NeverRunsHalfLoaded
    BY DEF BoardInv
  <1> QED
    BY <1>1, BoardKeepsItsOrder, PTL
==============================================================================
