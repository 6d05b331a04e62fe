------------------------- MODULE JtagProgramProofs --------------------------
(***************************************************************************)
(* What is proved of JtagProgram: success means an FPGA that runs with its   *)
(* configuration, and pins that are let go of (ConfiguredWhenOk).            *)
(*                                                                           *)
(* The argument.  The host can know what the FPGA does from what it reads    *)
(* only, and what it still does to the pins is in the calls that are left of *)
(* its function.  So the inductive invariant (ProgramInv) says, stage by     *)
(* stage, which calls may be left: while it waits for INIT and DONE to fall, *)
(* PROG is either still to be lowered, with nothing read, or has been, and   *)
(* what is read low is low because the FPGA has been cleared (Clearing);     *)
(* behind that nobody lowers PROG again, so an FPGA that is seen to run has  *)
(* taken the configuration (Writing, Checking); every pin that is driven and *)
(* must not be at the end is let go of by a call that is left (LettingGo).   *)
(* The first parts are of the library's sequences: the calls of each         *)
(* function, and which pins they touch.                                      *)
(***************************************************************************)
EXTENDS JtagProgram, SequenceTheorems, WellFoundedInduction, TLAPS

-----------------------------------------------------------------------------
(* Numbers and sequences.                                                    *)

\* A set of numbers has a least one: what an induction rests on.
LEMMA Least ==
    ASSUME NEW T, T \subseteq Nat, T # {}
    PROVE  \E x \in T : \A y \in T : ~(y < x)
  <1> DEFINE below == OpToRel(<, Nat)
  <1>1. IsWellFoundedOn(below, Nat)
    BY NatLessThanWellFounded
  <1>2. \A x, y \in Nat : y < x => <<y, x>> \in below
    BY DEF OpToRel
  <1> HIDE DEF below
  <1>3. PICK x \in T : \A y \in T : <<y, x>> \notin below
    BY <1>1, WFMin
  <1> QED
    BY <1>2, <1>3

\* A set that has 1 and the successors of its members has all up to N.
LEMMA Counting ==
    ASSUME NEW N \in Nat, NEW T, 1 \in T, \A i \in 2 .. N : i - 1 \in T => i \in T
    PROVE  1 .. N \subseteq T
  <1> DEFINE missed == (1 .. N) \ T
  <1>1. SUFFICES ASSUME missed # {} PROVE FALSE
    OBVIOUS
  <1>2. PICK x \in missed : \A y \in missed : ~(y < x)
    <2>1. missed \subseteq Nat
      OBVIOUS
    <2> HIDE DEF missed
    <2> QED
      BY <1>1, <2>1, Least
  <1>3. x \in 2 .. N /\ x - 1 \in 1 .. N /\ x - 1 < x
    BY <1>2
  <1> QED
    BY <1>2, <1>3

\* The calls of a function are a sequence, of whatever.
IsSequence(s) == s \in Seq(Range(s))

LEMMA Sequenced ==
    ASSUME NEW S, NEW s \in Seq(S)
    PROVE  IsSequence(s)
  BY SeqOfRange DEF IsSequence

LEMMA Indexed ==
    ASSUME NEW n \in Nat, NEW s, s = [i \in 1 .. n |-> s[i]]
    PROVE  IsSequence(s) /\ Len(s) = n /\ Range(s) = {s[i] : i \in 1 .. n}
  <1>1. DOMAIN s = 1 .. n
    OBVIOUS
  <1>2. \A i \in 1 .. n : s[i] \in Range(s)
    BY <1>1 DEF Range
  <1>3. s \in [1 .. n -> Range(s)]
    BY <1>2
  <1>4. s \in Seq(Range(s))
    BY <1>3
  <1> QED
    BY <1>1, <1>4 DEF IsSequence, Range

LEMMA Placed ==
    ASSUME NEW s, IsSequence(s)
    PROVE  Len(s) \in Nat /\ DOMAIN s = 1 .. Len(s) /\ Range(s) = {s[i] : i \in 1 .. Len(s)}
  BY LenProperties, RangeEquality DEF IsSequence

LEMMA Joined ==
    ASSUME NEW s, NEW t, IsSequence(s), IsSequence(t)
    PROVE  /\ IsSequence(s \o t) /\ Range(s \o t) = Range(s) \cup Range(t)
           /\ Len(s \o t) = Len(s) + Len(t)
           /\ \A i \in 1 .. Len(s) : (s \o t)[i] = s[i]
           /\ \A i \in 1 .. Len(t) : (s \o t)[Len(s) + i] = t[i]
  <1> DEFINE S == Range(s) \cup Range(t)
  <1>1. s \in Seq(S) /\ t \in Seq(S) /\ Len(s) \in Nat /\ Len(t) \in Nat
    BY SeqMonotonic, LenProperties DEF IsSequence
  <1> HIDE DEF S
  <1>2. s \o t \in Seq(S) /\ Len(s \o t) = Len(s) + Len(t)
    BY <1>1, ConcatProperties
  <1>3. \A i \in 1 .. Len(s) + Len(t) : (s \o t)[i] = IF i <= Len(s) THEN s[i] ELSE t[i - Len(s)]
    BY <1>1, ConcatProperties
  <1>4. Range(s \o t) = Range(s) \cup Range(t)
    BY <1>1, RangeConcatenation
  <1>5. IsSequence(s \o t)
    BY <1>2, Sequenced
  <1>6. \A i \in 1 .. Len(s) : (s \o t)[i] = s[i]
    BY <1>1, <1>3
  <1>7. ASSUME NEW i \in 1 .. Len(t) PROVE (s \o t)[Len(s) + i] = t[i]
    BY <1>1, <1>3
  <1> QED
    BY <1>2, <1>4, <1>5, <1>6, <1>7

LEMMA Shortened ==
    ASSUME NEW s, IsSequence(s), s # <<>>
    PROVE  /\ IsSequence(Tail(s)) /\ Range(s) = {Head(s)} \cup Range(Tail(s))
           /\ Len(s) >= 1 /\ Head(s) = s[1]
           /\ Len(Tail(s)) = Len(s) - 1 /\ \A i \in 1 .. Len(Tail(s)) : Tail(s)[i] = s[i + 1]
  <1>1. Len(s) \in Nat /\ Len(s) >= 1 /\ s \in Seq(Range(s))
    BY EmptySeq DEF IsSequence
  <1>2. /\ Head(s) = s[1] /\ Tail(s) \in Seq(Range(s)) /\ Len(Tail(s)) = Len(s) - 1
        /\ \A i \in 1 .. Len(Tail(s)) : Tail(s)[i] = s[i + 1]
    BY <1>1, HeadTailProperties
  <1>3. Range(Tail(s)) = {Tail(s)[i] : i \in 1 .. Len(Tail(s))}
    BY <1>2, RangeEquality
  <1>4. Range(s) = {s[i] : i \in 1 .. Len(s)}
    BY <1>1, RangeEquality
  <1>5. ASSUME NEW i \in 1 .. Len(s) PROVE s[i] \in {s[1]} \cup Range(Tail(s))
    <2>1. CASE i = 1
      BY <2>1
    <2>2. CASE i # 1
      <3>1. i - 1 \in 1 .. Len(Tail(s)) /\ Tail(s)[i - 1] = s[(i - 1) + 1] /\ (i - 1) + 1 = i
        BY <1>1, <1>2, <2>2
      <3> QED
        BY <1>3, <3>1
    <2> QED
      BY <2>1, <2>2
  <1>6. ASSUME NEW i \in 1 .. Len(Tail(s)) PROVE Tail(s)[i] \in Range(s)
    <2>1. i + 1 \in 1 .. Len(s) /\ Tail(s)[i] = s[i + 1]
      BY <1>1, <1>2
    <2> QED
      BY <1>4, <2>1
  <1>7. s[1] \in Range(s) /\ 1 \in 1 .. Len(s)
    BY <1>1, <1>4
  <1>8. Range(s) = {s[1]} \cup Range(Tail(s))
    BY <1>3, <1>4, <1>5, <1>6, <1>7
  <1>9. IsSequence(Tail(s))
    BY <1>2, Sequenced
  <1> QED
    BY <1>1, <1>2, <1>8, <1>9

LEMMA Appended ==
    ASSUME NEW s, IsSequence(s), NEW x
    PROVE  /\ IsSequence(Append(s, x)) /\ Range(Append(s, x)) = Range(s) \cup {x}
           /\ Len(Append(s, x)) = Len(s) + 1 /\ Append(s, x)[Len(s) + 1] = x
           /\ \A i \in 1 .. Len(s) : Append(s, x)[i] = s[i]
  <1> DEFINE S == Range(s) \cup {x}
  <1>1. s \in Seq(S) /\ x \in S /\ Len(s) \in Nat
    BY SeqMonotonic, LenProperties DEF IsSequence
  <1> HIDE DEF S
  <1>2. Append(s, x) = s \o <<x>>
    BY <1>1, AppendIsConcat
  <1>3. IsSequence(<<x>>) /\ Len(<<x>>) = 1 /\ Range(<<x>>) = {x} /\ <<x>>[1] = x
    <2>1. <<x>> \in Seq({x})
      OBVIOUS
    <2>2. Range(<<x>>) = {x}
      BY DEF Range
    <2> QED
      BY <2>1, <2>2, Sequenced
  <1>4. 1 \in 1 .. Len(<<x>>)
    BY <1>3
  <1>5. Append(s, x)[Len(s) + 1] = x
    BY <1>2, <1>3, <1>4, Joined
  <1> QED
    BY <1>2, <1>3, <1>5, Joined

LEMMA NoneAtAll == IsSequence(<<>>) /\ Range(<<>>) = {} /\ Len(<<>>) = 0
  <1>1. <<>> \in Seq({})
    OBVIOUS
  <1>2. Range(<<>>) = {}
    BY DEF Range
  <1> QED
    BY <1>1, <1>2, Sequenced

LEMMA OneElement ==
    ASSUME NEW a
    PROVE  IsSequence(<<a>>) /\ Range(<<a>>) = {a} /\ Len(<<a>>) = 1 /\ <<a>>[1] = a
  <1>1. <<a>> \in Seq({a})
    OBVIOUS
  <1>2. Range(<<a>>) = {a}
    BY DEF Range
  <1> QED
    BY <1>1, <1>2, Sequenced

LEMMA TwoElements ==
    ASSUME NEW a, NEW b
    PROVE  IsSequence(<<a, b>>) /\ Range(<<a, b>>) = {a, b} /\ Len(<<a, b>>) = 2
           /\ <<a, b>>[1] = a /\ <<a, b>>[2] = b
  <1>1. <<a, b>> \in Seq({a, b})
    OBVIOUS
  <1>2. Range(<<a, b>>) = {a, b}
    BY DEF Range
  <1> QED
    BY <1>1, <1>2, Sequenced

\* The sequences that FlattenSeq goes through on its way, up to the n-th.
Flattens(f, s, n) ==
    \A i \in 1 .. n : /\ IsSequence(f[i])
                      /\ f[i] = IF i = 1 THEN s[i] ELSE f[i - 1] \o s[i]
                      /\ Range(f[i]) = UNION {Range(s[j]) : j \in 1 .. i}

LEMMA FlattensExists ==
    ASSUME NEW N \in Nat \ {0}, NEW s, \A i \in 1 .. N : IsSequence(s[i])
    PROVE  \E f : f = [i \in 1 .. N |-> f[i]] /\ Flattens(f, s, N)
  <1> DEFINE Reached == {n \in 1 .. N : \E f : f = [i \in 1 .. n |-> f[i]] /\ Flattens(f, s, n)}
  <1>1. 1 \in Reached
    <2> DEFINE f == [i \in 1 .. 1 |-> s[1]]
    <2>1. f = [i \in 1 .. 1 |-> f[i]] /\ f[1] = s[1]
      OBVIOUS
    <2>2. Range(s[1]) = UNION {Range(s[j]) : j \in 1 .. 1}
      OBVIOUS
    <2>3. Flattens(f, s, 1)
      <3> HIDE DEF f
      <3>1. \A i \in 1 .. 1 : i = 1
        OBVIOUS
      <3> QED
        BY <2>1, <2>2, <3>1 DEF Flattens
    <2> HIDE DEF f
    <2> QED
      BY <2>1, <2>3
  <1>2. ASSUME NEW n \in 2 .. N, n - 1 \in Reached PROVE n \in Reached
    <2>1. PICK f : f = [i \in 1 .. n - 1 |-> f[i]] /\ Flattens(f, s, n - 1)
      BY <1>2
    <2> DEFINE whole == f[n - 1] \o s[n]
               g == [i \in 1 .. n |-> IF i = n THEN whole ELSE f[i]]
    <2>2. n \in Int /\ n # 1 /\ n - 1 # n /\ n - 1 \in 1 .. n - 1 /\ n \in 1 .. N /\ n - 1 \in 1 .. n /\ n \in 1 .. n
      OBVIOUS
    <2>3. IsSequence(f[n - 1]) /\ Range(f[n - 1]) = UNION {Range(s[j]) : j \in 1 .. n - 1}
      BY <2>1, <2>2 DEF Flattens
    <2>4. IsSequence(whole) /\ Range(whole) = Range(f[n - 1]) \cup Range(s[n])
      BY <2>2, <2>3, Joined
    <2>5. Range(whole) = UNION {Range(s[j]) : j \in 1 .. n}
      <3>1. 1 .. n = (1 .. n - 1) \cup {n}
        OBVIOUS
      <3> HIDE DEF whole
      <3> QED
        BY <2>3, <2>4, <3>1
    <2>6. g = [i \in 1 .. n |-> g[i]]
      OBVIOUS
    <2>7. g[n] = whole /\ \A i \in 1 .. n - 1 : g[i] = f[i]
      <3>1. \A i \in 1 .. n - 1 : i \in 1 .. n /\ i # n
        BY <2>2
      <3>2. \A i \in 1 .. n : g[i] = IF i = n THEN whole ELSE f[i]
        OBVIOUS
      <3> HIDE DEF g, whole
      <3> QED
        BY <2>2, <3>1, <3>2
    <2> HIDE DEF g
    <2>8. Flattens(g, s, n)
      <3> SUFFICES ASSUME NEW i \in 1 .. n
                   PROVE  /\ IsSequence(g[i])
                          /\ g[i] = IF i = 1 THEN s[i] ELSE g[i - 1] \o s[i]
                          /\ Range(g[i]) = UNION {Range(s[j]) : j \in 1 .. i}
        BY DEF Flattens
      <3>1. CASE i = n
        <4>1. g[i - 1] = f[n - 1]
          BY <2>2, <2>7, <3>1
        <4> QED
          BY <2>2, <2>4, <2>5, <2>7, <3>1, <4>1
      <3>2. CASE i # n
        <4>1. i \in 1 .. n - 1 /\ (i # 1 => i - 1 \in 1 .. n - 1)
          BY <3>2
        <4>2. g[i] = f[i] /\ (i # 1 => g[i - 1] = f[i - 1])
          BY <2>7, <4>1
        <4>3. /\ IsSequence(f[i])
              /\ f[i] = IF i = 1 THEN s[i] ELSE f[i - 1] \o s[i]
              /\ Range(f[i]) = UNION {Range(s[j]) : j \in 1 .. i}
          BY <2>1, <4>1 DEF Flattens
        <4> QED
          BY <4>2, <4>3
      <3> QED
        BY <3>1, <3>2
    <2> QED
      BY <2>2, <2>6, <2>8
  <1> HIDE DEF Reached
  <1>3. N \in Reached
    <2>1. \A n \in 2 .. N : n - 1 \in Reached => n \in Reached
      BY <1>2
    <2>2. 1 .. N \subseteq Reached
      BY <1>1, <2>1, Counting
    <2> QED
      BY <2>2
  <1> QED
    BY <1>3 DEF Reached

\* What FlattenSeq makes of sequences: a sequence of their elements.
LEMMA Flattened ==
    ASSUME NEW N \in Nat, NEW s, s = [i \in 1 .. N |-> s[i]], \A i \in 1 .. N : IsSequence(s[i])
    PROVE  IsSequence(FlattenSeq(s)) /\ Range(FlattenSeq(s)) = UNION {Range(s[i]) : i \in 1 .. N}
  <1>1. Len(s) = N /\ IsSequence(s) /\ Range(s) = {s[i] : i \in 1 .. N}
    BY Indexed
  <1>2. CASE N = 0
    <2>1. FlattenSeq(s) = s
      BY <1>1, <1>2 DEF FlattenSeq
    <2>2. UNION {Range(s[i]) : i \in 1 .. N} = {} /\ {s[i] : i \in 1 .. N} = {}
      BY <1>2
    <2> QED
      BY <1>1, <2>1, <2>2
  <1>3. CASE N # 0
    <2> DEFINE Is(f) == f = [i \in 1 .. N |-> IF i = 1 THEN s[i] ELSE f[i - 1] \o s[i]]
               flat == CHOOSE f : Is(f)
    <2>1. PICK f : f = [i \in 1 .. N |-> f[i]] /\ Flattens(f, s, N)
      BY <1>3, FlattensExists
    <2>2. Is(f)
      <3> DEFINE g == [i \in 1 .. N |-> IF i = 1 THEN s[i] ELSE f[i - 1] \o s[i]]
      <3>1. \A i \in 1 .. N : f[i] = g[i]
        BY <2>1 DEF Flattens
      <3>2. f = [i \in 1 .. N |-> g[i]]
        BY <2>1, <3>1
      <3>3. g = [i \in 1 .. N |-> g[i]]
        OBVIOUS
      <3>4. f = g
        BY <3>2, <3>3
      <3> QED
        BY <3>4
    <2>3. Is(flat)
      <3> HIDE DEF Is
      <3> QED
        BY <2>2
    <2>4. FlattenSeq(s) = flat[N]
      BY <1>1, <1>3 DEF FlattenSeq
    <2> HIDE DEF flat
    <2>5. \A i \in 1 .. N : flat[i] = IF i = 1 THEN s[i] ELSE flat[i - 1] \o s[i]
      BY <2>3
    <2> DEFINE Same == {i \in 1 .. N : flat[i] = f[i]}
    <2>6. \A i \in 1 .. N : f[i] = IF i = 1 THEN s[i] ELSE f[i - 1] \o s[i]
      BY <2>1 DEF Flattens
    <2>7. 1 \in Same
      BY <1>3, <2>5, <2>6
    <2>8. ASSUME NEW i \in 2 .. N, i - 1 \in Same PROVE i \in Same
      <3>1. i \in 1 .. N /\ i # 1 /\ flat[i - 1] = f[i - 1]
        BY <2>8
      <3>2. flat[i] = flat[i - 1] \o s[i] /\ f[i] = f[i - 1] \o s[i]
        BY <2>5, <2>6, <3>1
      <3> QED
        BY <3>1, <3>2
    <2> HIDE DEF Same
    <2>9. N \in Same
      <3>1. 1 .. N \subseteq Same
        BY <2>7, <2>8, Counting
      <3> QED
        BY <1>3, <3>1
    <2>10. flat[N] = f[N] /\ N \in 1 .. N
      BY <2>9 DEF Same
    <2> QED
      BY <2>1, <2>4, <2>10 DEF Flattens
  <1> QED
    BY <1>2, <1>3

\* A port configuration that is parsed to its end has good pins only.
LEMMA ParsedWhole ==
    ASSUME NEW pins, IsSequence(pins), Len(Parsed(pins)) >= Len(pins)
    PROVE  \A i \in 1 .. Len(pins) : pins[i] # "?"
  <1> DEFINE bad == {i \in DOMAIN pins : pins[i] = "?" \/ \E j \in 1 .. i - 1 : pins[j] = pins[i]}
  <1>1. Len(pins) \in Nat /\ DOMAIN pins = 1 .. Len(pins)
    BY Placed
  <1>2. bad \subseteq 1 .. Len(pins) /\ \A i \in 1 .. Len(pins) : pins[i] = "?" => i \in bad
    BY <1>1
  <1>3. Parsed(pins) = IF bad = {} THEN pins ELSE SubSeq(pins, 1, Min(bad) - 1)
    BY DEF Parsed
  <1> HIDE DEF bad
  <1>4. CASE bad # {}
    <2>1. PICK x \in bad : \A y \in bad : ~(y < x)
      <3>1. bad \subseteq Nat
        BY <1>1, <1>2
      <3> QED
        BY <1>4, <3>1, Least
    <2>2. \A y \in bad : x =< y
      BY <1>1, <1>2, <2>1
    <2>3. Min(bad) \in bad
      BY <2>2 DEF Min
    <2> DEFINE n == Min(bad) - 1
    <2>4. n \in Int /\ n < Len(pins) /\ n >= 0
      <3>1. PICK m \in 1 .. Len(pins) : m = Min(bad)
        BY <1>2, <2>3
      <3>2. m - 1 \in Int /\ m - 1 < Len(pins) /\ m - 1 >= 0
        BY <1>1
      <3> QED
        BY <3>1, <3>2
    <2>5. \A i \in 1 .. n : pins[i] \in Range(pins)
      BY <1>1, <2>4, Placed
    <2>6. Len(SubSeq(pins, 1, n)) = IF 1 <= n THEN n - 1 + 1 ELSE 0
      <3> HIDE DEF n
      <3> QED
        BY <2>4, <2>5, SubSeqProperties
    <2>7. Len(SubSeq(pins, 1, n)) = n
      BY <2>4, <2>6
    <2> QED
      BY <1>1, <1>3, <1>4, <2>4, <2>7
  <1> QED
    BY <1>2, <1>4

-----------------------------------------------------------------------------
(* The calls.                                                                *)

\* What a call does to a pin.
IsAccess(c) == c.call = "control" /\ c.request.cmd = "CMD_PORT_BIT_IO"
OnPin(c, pin) == IsAccess(c) /\ c.request.pin = pin
Tells(c) == OnPin(c, "PROG") /\ c.request.config = "PIN_LOW"
Drives(c, pin) == OnPin(c, pin) /\ c.request.config # "PIN_INPUT"
LetsGo(c, pin) == OnPin(c, pin) /\ c.request.config = "PIN_INPUT"
Keeps(c) == c.call = "control" /\ c.keep
Reads(c, pin) == Keeps(c) /\ LetsGo(c, pin)
IsBegin(c) == c.call = "control" /\ c.request.cmd = "CMD_PROG_CLOCK_DATA"

\* A shift that is begun names what is to be done.
WellMade(c) == IsBegin(c) => {"cmd", "op"} \subseteq DOMAIN c.request

\* Calls that a function may make.
Script(cs) == IsSequence(cs) /\ \A c \in Range(cs) : WellMade(c)

\* Nothing on any pin, and nothing to be read.
Plain(c) == ~IsAccess(c) /\ ~Keeps(c) /\ c.call \in {"control", "send"}

LEMMA BeginMade ==
    ASSUME NEW count, NEW op, NEW isLast, NEW ones
    PROVE  LET c == beginShift(count, op, isLast, ones)
           IN  WellMade(c) /\ Plain(c) /\ IsBegin(c) /\ c.request.op = op
  BY DEF beginShift, Control, WellMade, Plain, IsAccess, Keeps, IsBegin

LEMMA AccessMade ==
    ASSUME NEW pin, NEW config
    PROVE  LET c == flSingleBitPortAccess(pin, config)
           IN  WellMade(c) /\ IsAccess(c) /\ c.request.pin = pin /\ c.request.config = config
               /\ ~Keeps(c) /\ ~IsBegin(c) /\ c.call = "control"
  BY DEF flSingleBitPortAccess, Control, WellMade, IsAccess, Keeps, IsBegin

LEMMA ReadMade ==
    ASSUME NEW pin
    PROVE  LET c == readPin(pin)
           IN  WellMade(c) /\ Reads(c, pin) /\ ~IsBegin(c) /\ c.call = "control"
  BY DEF readPin, flSingleBitPortAccess, Control, WellMade, Reads, LetsGo, OnPin, IsAccess, Keeps, IsBegin

LEMMA KeptMade ==
    ASSUME NEW pin, NEW config
    PROVE  LET c == [flSingleBitPortAccess(pin, config) EXCEPT !.keep = TRUE] IN WellMade(c)
  BY DEF flSingleBitPortAccess, Control, WellMade, IsBegin

LEMMA PlainMade ==
    ASSUME NEW a, NEW b
    PROVE  \A c \in {portMap(a, b), flSelectConduit, jtagClockFSM(a, b), jtagClocks(a)} :
               WellMade(c) /\ Plain(c) /\ ~IsBegin(c)
  BY DEF portMap, flSelectConduit, jtagClockFSM, jtagClocks, Control, WellMade, Plain, IsAccess, Keeps, IsBegin

LEMMA SendMade ==
    ASSUME NEW bytes
    PROVE  WellMade(doSend(bytes)) /\ Plain(doSend(bytes)) /\ ~IsBegin(doSend(bytes))
  BY DEF doSend, WellMade, Plain, IsAccess, Keeps, IsBegin

LEMMA ReceiveMade ==
    ASSUME NEW count
    PROVE  WellMade(doReceive(count))
  BY DEF doReceive, WellMade, IsBegin

LEMMA ScriptsJoin ==
    ASSUME NEW s, NEW t, Script(s), Script(t)
    PROVE  Script(s \o t) /\ Range(s \o t) = Range(s) \cup Range(t)
  BY Joined DEF Script

LEMMA NoScript == Script(<<>>) /\ Range(<<>>) = {}
  BY NoneAtAll DEF Script

LEMMA OneCall ==
    ASSUME NEW c, WellMade(c)
    PROVE  Script(<<c>>) /\ Range(<<c>>) = {c}
  BY OneElement DEF Script

-----------------------------------------------------------------------------
(* The packets of a shift.                                                   *)

LEMMA Numbers ==
    ASSUME NEW n \in Nat, NEW d \in Nat \ {0}
    PROVE  n \div d \in Nat
  OBVIOUS

LEMMA CountsOfPackets ==
    ASSUME NEW len \in Nat
    PROVE  Chunks(len) \in Nat
  <1>1. ENDPOINT_SIZE \in Nat \ {0}
    BY LimitsAssumption
  <1>2. PICK n \in Nat : n = len + ENDPOINT_SIZE - 1
    BY <1>1
  <1> QED
    BY <1>1, <1>2, Numbers DEF Chunks

LEMMA CountsOfBytes ==
    ASSUME NEW n \in Nat
    PROVE  bitsToBytes(n) \in Nat
  <1>1. n \div ByteBits \in Nat
    BY ByteAssumption, Numbers
  <1> QED
    BY <1>1 DEF bitsToBytes

LEMMA SendsPackets ==
    ASSUME NEW bytes, IsSequence(bytes)
    PROVE  Script(Sends(bytes)) /\ \A c \in Range(Sends(bytes)) : Plain(c) /\ ~IsBegin(c)
  <1>1. PICK n \in Nat : n = Chunks(Len(bytes))
    BY Placed, CountsOfPackets
  <1>2. Sends(bytes) = [i \in 1 .. n |-> doSend(ChunkOf(bytes, i))]
    BY <1>1 DEF Sends
  <1>3. \A i \in 1 .. n : Sends(bytes)[i] = doSend(ChunkOf(bytes, i))
    BY <1>2
  <1>4. Sends(bytes) = [i \in 1 .. n |-> Sends(bytes)[i]]
    BY <1>2, <1>3
  <1>5. IsSequence(Sends(bytes)) /\ Range(Sends(bytes)) = {Sends(bytes)[i] : i \in 1 .. n}
    BY <1>4, Indexed
  <1>6. ASSUME NEW c \in Range(Sends(bytes)) PROVE WellMade(c) /\ Plain(c) /\ ~IsBegin(c)
    BY <1>3, <1>5, <1>6, SendMade
  <1> QED
    BY <1>5, <1>6 DEF Script

LEMMA ReceivesPackets ==
    ASSUME NEW len \in Nat
    PROVE  Script(Receives(len)) /\ DOMAIN Receives(len) = 1 .. Chunks(len) /\ Chunks(len) \in Nat
  <1>1. PICK n \in Nat : n = Chunks(len)
    BY CountsOfPackets
  <1>2. Receives(len) = [i \in 1 .. n |-> doReceive(ChunkAt(len, i))]
    BY <1>1 DEF Receives
  <1>3. \A i \in 1 .. n : Receives(len)[i] = doReceive(ChunkAt(len, i))
    BY <1>2
  <1>4. Receives(len) = [i \in 1 .. n |-> Receives(len)[i]]
    BY <1>2, <1>3
  <1>5. IsSequence(Receives(len)) /\ Range(Receives(len)) = {Receives(len)[i] : i \in 1 .. n}
    BY <1>4, Indexed
  <1>6. ASSUME NEW c \in Range(Receives(len)) PROVE WellMade(c)
    BY <1>3, <1>5, <1>6, ReceiveMade
  <1> QED
    BY <1>1, <1>2, <1>5, <1>6 DEF Script

\* The calls of a shift.
LEMMA ShiftsInOnly ==
    ASSUME NEW numBits, NEW inData, NEW isLast, IsSequence(inData.bytes)
    PROVE  Script(jtagShiftInOnly(numBits, inData, isLast))
  BY SendsPackets, BeginMade, OneCall, ScriptsJoin DEF jtagShiftInOnly

LEMMA ShiftsInOut ==
    ASSUME NEW numBits \in Nat, NEW inData, NEW isLast, IsSequence(inData.bytes),
           inData.isSending => Len(inData.bytes) = bitsToBytes(numBits)
    PROVE  Script(jtagShiftInOut(numBits, inData, isLast))
  <1> DEFINE sends == Sends(inData.bytes)
             receives == Receives(bitsToBytes(numBits))
             n == Chunks(bitsToBytes(numBits))
             pairs == [i \in DOMAIN receives |-> <<sends[i], receives[i]>>]
             begin(op, ones) == beginShift(numBits, op, isLast, ones)
  <1>1. Script(receives) /\ DOMAIN receives = 1 .. n /\ n \in Nat
    BY CountsOfBytes, ReceivesPackets
  <1>2. \A op, ones : Script(<<begin(op, ones)>>)
    BY BeginMade, OneCall
  <1>3. jtagShiftInOut(numBits, inData, isLast) =
            IF inData.isSending
            THEN <<begin("PROG_JTAG_ISSENDING_ISRECEIVING", FALSE)>> \o FlattenSeq(pairs)
            ELSE <<begin("PROG_JTAG_NOTSENDING_ISRECEIVING", inData.ones)>> \o receives
    BY DEF jtagShiftInOut
  <1>4. CASE ~inData.isSending
    BY <1>1, <1>2, <1>3, <1>4, ScriptsJoin
  <1>5. CASE inData.isSending
    <2>1. Script(sends) /\ DOMAIN sends = 1 .. n
      <3>1. DOMAIN sends = 1 .. Chunks(Len(inData.bytes))
        BY DEF Sends
      <3> QED
        BY <1>5, <3>1, SendsPackets
    <2>2. ASSUME NEW i \in 1 .. n
          PROVE  IsSequence(pairs[i]) /\ \A c \in Range(pairs[i]) : WellMade(c)
      <3>1. pairs[i] = <<sends[i], receives[i]>>
        BY <1>1
      <3>2. sends[i] \in Range(sends) /\ receives[i] \in Range(receives)
        BY <1>1, <2>1 DEF Range
      <3> HIDE DEF sends, receives, pairs
      <3>3. WellMade(sends[i]) /\ WellMade(receives[i])
        BY <1>1, <2>1, <3>2 DEF Script
      <3> QED
        BY <3>1, <3>3, TwoElements
    <2>3. pairs = [i \in 1 .. n |-> pairs[i]]
      <3>1. pairs = [i \in 1 .. n |-> <<sends[i], receives[i]>>]
        BY <1>1
      <3> QED
        BY <3>1
    <2>4. Script(FlattenSeq(pairs))
      <3> HIDE DEF pairs
      <3>1. IsSequence(FlattenSeq(pairs)) /\ Range(FlattenSeq(pairs)) = UNION {Range(pairs[i]) : i \in 1 .. n}
        BY <1>1, <2>2, <2>3, Flattened
      <3> QED
        BY <2>2, <3>1 DEF Script
    <2> HIDE DEF pairs, begin
    <2> QED
      BY <1>2, <1>3, <1>5, <2>4, ScriptsJoin
  <1> QED
    BY <1>4, <1>5

-----------------------------------------------------------------------------
(* The calls of the functions.                                               *)

SlaveKinds == {"XP", "XS", "AS"}

\* Bytes are written by a shift and its packets.
LEMMA Writes ==
    ASSUME NEW bytes, IsSequence(bytes)
    PROVE  Script(Written(bytes)) /\ \A c \in Range(Written(bytes)) : Plain(c)
  <1> DEFINE lookupTable == makeLookup(BitOrder)
             looked == [i \in DOMAIN bytes |-> lookupTable[bytes[i]]]
  <1>1. Len(bytes) \in Nat /\ DOMAIN bytes = 1 .. Len(bytes)
    BY Placed
  <1>2. looked = [i \in 1 .. Len(bytes) |-> looked[i]]
    BY <1>1
  <1>3. Written(bytes) = <<beginShift(Len(looked), ProgOp, FALSE, FALSE)>> \o Sends(looked)
    BY DEF Written, dataWrite
  <1> HIDE DEF looked
  <1>4. IsSequence(looked)
    BY <1>1, <1>2, Indexed
  <1>5. Script(Sends(looked)) /\ \A c \in Range(Sends(looked)) : Plain(c)
    BY <1>4, SendsPackets
  <1> DEFINE begin == beginShift(Len(looked), ProgOp, FALSE, FALSE)
  <1>6. WellMade(begin) /\ Plain(begin)
    BY BeginMade
  <1> HIDE DEF begin
  <1>7. Script(<<begin>>) /\ Range(<<begin>>) = {begin}
    BY <1>6, OneCall
  <1>8. Script(<<begin>> \o Sends(looked)) /\ Range(<<begin>> \o Sends(looked)) = {begin} \cup Range(Sends(looked))
    BY <1>5, <1>7, ScriptsJoin
  <1> QED
    BY <1>3, <1>5, <1>6, <1>8 DEF begin

\* The pins of a configuration string that was parsed are there.
LEMMA PinsAreThere ==
    ASSUME NEW s, SlaveSession(s), ParsesAll(s)
    PROVE  /\ \A entry \in Range(pinMap(s)) : entry.pin \in Pins
           /\ IsSequence(pinMap(s))
  <1> DEFINE named == [i \in DOMAIN s.ports |-> [pin |-> s.ports[i], config |-> Roles(s)[i]]]
             others == [i \in DOMAIN s.further |-> s.further[i].pin]
             pins == s.ports \o others
             n == Len(s.ports)
             m == Len(s.further)
  <1>1. /\ s.ports \in Seq(Pins \cup {"?"}) /\ s.further \in Seq([pin : Pins \cup {"?"}, config : Configs])
        /\ Parsed(pins) = pins
    BY DEF SlaveSession, ParsesAll
  <1>2. IsSequence(s.ports) /\ IsSequence(s.further)
    BY <1>1, Sequenced
  <1>3. n \in Nat /\ m \in Nat /\ DOMAIN s.ports = 1 .. n /\ DOMAIN s.further = 1 .. m
    BY <1>2, Placed
  <1>4. IsSequence(named) /\ Len(named) = n /\ Range(named) = {named[i] : i \in 1 .. n}
    <2>1. named = [i \in 1 .. n |-> named[i]]
      BY <1>3
    <2> HIDE DEF named
    <2> QED
      BY <1>3, <2>1, Indexed
  <1>5. IsSequence(others) /\ Len(others) = m
    <2>1. others = [i \in 1 .. m |-> others[i]]
      BY <1>3
    <2> HIDE DEF others
    <2> QED
      BY <1>3, <2>1, Indexed
  <1>6. \A i \in 1 .. n : named[i].pin = s.ports[i]
    BY <1>3
  <1>7. \A i \in 1 .. m : others[i] = s.further[i].pin
    BY <1>3
  <1>8. pinMap(s) = named \o s.further
    BY DEF pinMap
  <1> HIDE DEF named, others
  <1>9. /\ IsSequence(pins) /\ Len(pins) = n + m
        /\ \A i \in 1 .. n : pins[i] = s.ports[i]
        /\ \A i \in 1 .. m : pins[n + i] = others[i]
    <2>1. /\ IsSequence(s.ports \o others) /\ Len(s.ports \o others) = n + Len(others)
          /\ \A i \in 1 .. n : (s.ports \o others)[i] = s.ports[i]
          /\ \A i \in 1 .. Len(others) : (s.ports \o others)[n + i] = others[i]
      <3>1. PICK a, b : a = s.ports /\ b = others
        OBVIOUS
      <3>3. IsSequence(a) /\ IsSequence(b)
        BY <1>2, <1>5, <3>1
      <3>2. /\ IsSequence(a \o b) /\ Len(a \o b) = Len(a) + Len(b)
            /\ \A i \in 1 .. Len(a) : (a \o b)[i] = a[i]
            /\ \A i \in 1 .. Len(b) : (a \o b)[Len(a) + i] = b[i]
        BY <3>3, Joined
      <3> QED
        BY <3>1, <3>2
    <2> QED
      BY <1>5, <2>1
  <1>10. \A i \in 1 .. n + m : pins[i] # "?"
    <2>1. Len(Parsed(pins)) >= Len(pins)
      BY <1>1, <1>3, <1>9
    <2> HIDE DEF pins
    <2> QED
      BY <1>9, <2>1, ParsedWhole
  <1>11. \A i \in 1 .. n : s.ports[i] \in Pins
    <2>1. \A i \in 1 .. n : s.ports[i] \in Pins \cup {"?"}
      BY <1>1, ElementOfSeq
    <2>2. \A i \in 1 .. n : i \in 1 .. n + m
      <3> HIDE DEF n, m
      <3> QED
        BY <1>3
    <2> QED
      BY <1>9, <1>10, <2>1, <2>2
  <1>12. \A i \in 1 .. m : s.further[i].pin \in Pins
    <2>1. \A i \in 1 .. m : s.further[i].pin \in Pins \cup {"?"}
      <3>1. \A i \in 1 .. m : s.further[i] \in [pin : Pins \cup {"?"}, config : Configs]
        BY <1>1, ElementOfSeq
      <3> QED
        BY <3>1
    <2>2. \A i \in 1 .. m : n + i \in 1 .. n + m
      <3> HIDE DEF n, m
      <3> QED
        BY <1>3
    <2> QED
      BY <1>7, <1>9, <1>10, <2>1, <2>2
  <1>13. IsSequence(pinMap(s)) /\ Range(pinMap(s)) = Range(named) \cup Range(s.further)
    BY <1>2, <1>4, <1>8, Joined
  <1>14. \A entry \in Range(named) : entry.pin \in Pins
    BY <1>4, <1>6, <1>11
  <1>15. \A entry \in Range(s.further) : entry.pin \in Pins
    BY <1>2, <1>12, Placed
  <1> QED
    BY <1>13, <1>14, <1>15

\* The pins that are left as they are until the end.
Kept(s) == IF s.kind = "AS" THEN {progPin(s)} ELSE {progPin(s), initPin(s), donePin(s)}

\* Every other pin of the string is configured.
LEMMA AppliesAll ==
    ASSUME NEW s, SlaveSession(s), ParsesAll(s)
    PROVE  /\ IsSequence(Applied(s))
           /\ \A entry \in Range(Applied(s)) : entry.pin \notin Kept(s)
           /\ \A entry \in Range(pinMap(s)) : entry.pin \notin Kept(s) => \E e \in Range(Applied(s)) : e.pin = entry.pin
  <1> DEFINE entries(pin) == {entry \in Range(pinMap(s)) : entry.pin = pin /\ pin \notin Kept(s)}
             applied(pin) == IF entries(pin) = {} THEN <<>> ELSE <<CHOOSE entry \in entries(pin) : TRUE>>
             parts == [i \in DOMAIN PortPins |-> applied(PortPins[i])]
  <1>1. Applied(s) = FlattenSeq(parts)
    BY DEF Applied, Kept
  <1>2. DOMAIN PortPins = 1 .. 10 /\ Pins = {PortPins[i] : i \in 1 .. 10}
    BY DEF PortPins, Pins, Range
  <1>3. parts = [i \in 1 .. 10 |-> parts[i]] /\ \A i \in 1 .. 10 : parts[i] = applied(PortPins[i])
    BY <1>2
  <1>4. ASSUME NEW pin
        PROVE  /\ IsSequence(applied(pin))
               /\ \A e \in Range(applied(pin)) : e \in entries(pin)
               /\ entries(pin) # {} => Range(applied(pin)) # {}
    <2>1. CASE entries(pin) = {}
      BY <2>1, NoneAtAll
    <2>2. CASE entries(pin) # {}
      <3>1. PICK e : e = CHOOSE entry \in entries(pin) : TRUE
        OBVIOUS
      <3>2. e \in entries(pin)
        BY <2>2, <3>1
      <3>3. applied(pin) = <<e>>
        BY <2>2, <3>1
      <3> HIDE DEF applied, entries
      <3> QED
        BY <3>2, <3>3, OneElement
    <2> QED
      BY <2>1, <2>2
  <1> HIDE DEF parts, applied
  <1>5. IsSequence(Applied(s)) /\ Range(Applied(s)) = UNION {Range(parts[i]) : i \in 1 .. 10}
    <2>1. \A i \in 1 .. 10 : IsSequence(parts[i])
      BY <1>3, <1>4
    <2>2. 10 \in Nat
      OBVIOUS
    <2>3. IsSequence(FlattenSeq(parts)) /\ Range(FlattenSeq(parts)) = UNION {Range(parts[i]) : i \in 1 .. 10}
      BY <1>3, <2>1, <2>2, Flattened
    <2> QED
      BY <1>1, <2>3
  <1>6. ASSUME NEW e \in Range(Applied(s)) PROVE e.pin \notin Kept(s)
    <2>1. PICK i \in 1 .. 10 : e \in Range(parts[i])
      BY <1>5
    <2>2. e \in entries(PortPins[i])
      BY <1>3, <1>4, <2>1
    <2> QED
      BY <2>2
  <1>7. ASSUME NEW entry \in Range(pinMap(s)), entry.pin \notin Kept(s)
        PROVE  \E e \in Range(Applied(s)) : e.pin = entry.pin
    <2>1. PICK i \in 1 .. 10 : PortPins[i] = entry.pin
      BY <1>2, PinsAreThere
    <2>2. entry \in entries(PortPins[i])
      BY <1>7, <2>1
    <2>3. PICK e \in Range(parts[i]) : e \in entries(PortPins[i])
      <3> HIDE DEF entries
      <3> QED
        BY <1>3, <1>4, <2>2
    <2>4. e \in Range(Applied(s))
      BY <1>5, <2>3
    <2> QED
      BY <2>1, <2>3, <2>4
  <1> QED
    BY <1>5, <1>6, <1>7

LEMMA Outputs ==
    ASSUME SlaveSession(session), ParsesAll(session), session.kind \in SlaveKinds
    PROVE  /\ Script(OutputPins)
           /\ \A c \in Range(OutputPins) : /\ IsAccess(c) /\ ~Keeps(c) /\ c.call = "control"
                                           /\ c.request.pin \notin Kept(session)
  <1> DEFINE n == Len(Applied(session))
  <1>1. n \in Nat /\ DOMAIN Applied(session) = 1 .. n /\ Range(Applied(session)) = {Applied(session)[i] : i \in 1 .. n}
    BY AppliesAll, Placed
  <1>2. OutputPins = [i \in 1 .. n |-> OutputPins[i]]
        /\ \A i \in 1 .. n : OutputPins[i] = flSingleBitPortAccess(Applied(session)[i].pin, Applied(session)[i].config)
    BY <1>1 DEF OutputPins
  <1>3. IsSequence(OutputPins) /\ Range(OutputPins) = {OutputPins[i] : i \in 1 .. n}
    BY <1>1, <1>2, Indexed
  <1>4. ASSUME NEW c \in Range(OutputPins)
        PROVE  WellMade(c) /\ IsAccess(c) /\ ~Keeps(c) /\ c.call = "control" /\ c.request.pin \notin Kept(session)
    <2>1. PICK i \in 1 .. n : c = flSingleBitPortAccess(Applied(session)[i].pin, Applied(session)[i].config)
      BY <1>2, <1>3
    <2>2. Applied(session)[i].pin \notin Kept(session)
      BY <1>1, AppliesAll
    <2> QED
      BY <2>1, <2>2, AccessMade
  <1> QED
    BY <1>3, <1>4 DEF Script

LEMMA Inputs ==
    ASSUME SlaveSession(session), ParsesAll(session), session.kind \in SlaveKinds
    PROVE  /\ Script(InputPins)
           /\ \A c \in Range(InputPins) : /\ IsAccess(c) /\ ~Keeps(c) /\ c.call = "control" /\ ~IsBegin(c)
                                          /\ c.request.pin \notin Kept(session)
                                          /\ c.request.config = "PIN_INPUT"
           /\ \A entry \in Range(pinMap(session)) :
                  entry.pin \notin Kept(session) => \E c \in Range(InputPins) : LetsGo(c, entry.pin)
  <1> DEFINE n == Len(Applied(session))
  <1>1. n \in Nat /\ DOMAIN Applied(session) = 1 .. n /\ Range(Applied(session)) = {Applied(session)[i] : i \in 1 .. n}
    BY AppliesAll, Placed
  <1>2. InputPins = [i \in 1 .. n |-> InputPins[i]]
        /\ \A i \in 1 .. n : InputPins[i] = flSingleBitPortAccess(Applied(session)[i].pin, "PIN_INPUT")
    BY <1>1 DEF InputPins
  <1>3. IsSequence(InputPins) /\ Range(InputPins) = {InputPins[i] : i \in 1 .. n}
    BY <1>1, <1>2, Indexed
  <1>4. ASSUME NEW c \in Range(InputPins)
        PROVE  WellMade(c) /\ IsAccess(c) /\ ~Keeps(c) /\ c.call = "control" /\ ~IsBegin(c)
               /\ c.request.pin \notin Kept(session) /\ c.request.config = "PIN_INPUT"
    <2>1. PICK i \in 1 .. n : c = flSingleBitPortAccess(Applied(session)[i].pin, "PIN_INPUT")
      BY <1>2, <1>3
    <2>2. Applied(session)[i].pin \notin Kept(session)
      BY <1>1, AppliesAll
    <2> QED
      BY <2>1, <2>2, AccessMade
  <1>5. ASSUME NEW entry \in Range(pinMap(session)), entry.pin \notin Kept(session)
        PROVE  \E c \in Range(InputPins) : LetsGo(c, entry.pin)
    <2>1. PICK e \in Range(Applied(session)) : e.pin = entry.pin
      BY <1>5, AppliesAll
    <2>2. PICK i \in 1 .. n : e = Applied(session)[i]
      BY <1>1, <2>1
    <2>3. InputPins[i] = flSingleBitPortAccess(entry.pin, "PIN_INPUT") /\ InputPins[i] \in Range(InputPins)
      BY <1>2, <1>3, <2>1, <2>2
    <2> QED
      BY <2>3, AccessMade DEF LetsGo, OnPin
  <1> QED
    BY <1>3, <1>4, <1>5 DEF Script

-----------------------------------------------------------------------------
(* What a step does to the FPGA and to the pins.                             *)

Shaped(f) == DOMAIN f = {"board", "phase", "progLow", "taken", "wants"}
Right(f) == SubSeq(f.taken, 1, Len(Configuration)) = Configuration

\* It has seen PROG, and if it runs it is with the configuration.
Sound(f) == f.phase # "told" /\ (f.phase = "running" => Right(f))

\* What it may do while nobody moves PROG.
Moves(f, g) ==
    /\ Shaped(g) /\ g.board = f.board /\ g.progLow = f.progLow
    /\ f.phase = "running" => g = f
    /\ Sound(f) => Sound(g)
    /\ f.phase \in {"told", "cleared"} /\ f.progLow = TRUE =>
           g.phase \in {"told", "cleared"} /\ (f.phase = "cleared" => g.phase = "cleared")

LEMMA StaysMoves ==
    ASSUME NEW f, Shaped(f)
    PROVE  Moves(f, f)
  BY DEF Moves

LEMMA MovesByItself ==
    ASSUME NEW f, Shaped(f), NEW g \in FpgaNext(f)
    PROVE  Moves(f, g)
  <1>1. CASE f.phase = "told"
    <2>1. PICK n : g = [f EXCEPT !.phase = "cleared", !.taken = <<>>, !.wants = Len(Configuration) + n]
      BY <1>1 DEF FpgaNext
    <2>2. Shaped(g) /\ g.board = f.board /\ g.progLow = f.progLow /\ g.phase = "cleared"
      BY <2>1 DEF Shaped
    <2> QED
      BY <1>1, <2>2 DEF Moves, Sound
  <1>2. CASE f.phase = "cleared" /\ ~f.progLow
    <2>1. g = [f EXCEPT !.phase = "ready"]
      BY <1>2 DEF FpgaNext
    <2>2. Shaped(g) /\ g.board = f.board /\ g.progLow = f.progLow /\ g.phase = "ready"
      BY <2>1 DEF Shaped
    <2> QED
      BY <1>2, <2>2 DEF Moves, Sound
  <1>3. CASE f.phase # "told" /\ ~(f.phase = "cleared" /\ ~f.progLow)
    BY <1>3 DEF FpgaNext
  <1> QED
    BY <1>1, <1>2, <1>3

LEMMA TakesMoves ==
    ASSUME NEW f, Shaped(f), NEW bytes
    PROVE  Moves(f, FpgaTakes(f, bytes))
  <1> DEFINE taken == f.taken \o [i \in DOMAIN bytes |-> Unwired(bytes[i], Wiring[f.board])]
             whole == Len(taken) >= Len(Configuration)
             right == SubSeq(taken, 1, Len(Configuration)) = Configuration
             phase == CASE whole /\ ~right -> "failed"
                        [] whole /\ right /\ Len(taken) >= f.wants -> "running"
                        [] OTHER -> "ready"
             g == FpgaTakes(f, bytes)
  <1>1. g = IF f.phase = "ready" THEN [f EXCEPT !.taken = taken, !.phase = phase] ELSE f
    BY DEF FpgaTakes
  <1>2. phase # "told" /\ (phase = "running" => right)
    <2> HIDE DEF whole, right, taken
    <2> QED
      OBVIOUS
  <1> HIDE DEF phase, whole, taken, g
  <1>3. CASE f.phase = "ready"
    <2>1. Shaped(g) /\ g.board = f.board /\ g.progLow = f.progLow /\ g.phase = phase /\ g.taken = taken
      BY <1>1, <1>3 DEF Shaped
    <2>2. Sound(g)
      BY <1>2, <2>1 DEF Sound, Right
    <2> QED
      BY <1>3, <2>1, <2>2 DEF Moves, g
  <1>4. CASE f.phase # "ready"
    BY <1>1, <1>4, StaysMoves DEF g
  <1> QED
    BY <1>3, <1>4

\* What the micro-controller does by itself: it drives the data port, and
\* begins nothing.
LEMMA MicroMoves ==
    ASSUME Shaped(fpga), microStep
    PROVE  /\ UNCHANGED <<hostVars, playerVars, blocks, envVars, micro>>
           /\ Moves(fpga, fpga')
           /\ driven' \subseteq driven \/ (m_progOp = "PROG_PARALLEL" /\ driven' \subseteq driven \cup {"DATA"})
           /\ m_progOp' \in {m_progOp, "PROG_NOP"}
  <1> DEFINE Result == /\ Moves(fpga, fpga')
                       /\ driven' \subseteq driven \/ (m_progOp = "PROG_PARALLEL" /\ driven' \subseteq driven \cup {"DATA"})
                       /\ m_progOp' \in {m_progOp, "PROG_NOP"}
  <1>1. Moves(fpga, fpga)
    BY StaysMoves
  <1>2. \A bytes : Moves(fpga, FpgaTakes(fpga, bytes))
    BY TakesMoves
  <1>3. ASSUME jtagIsSendingIsReceiving PROVE Result
    BY <1>1, <1>3 DEF jtagIsSendingIsReceiving, Clocked, Shifted
  <1>4. ASSUME jtagIsSendingNotReceiving PROVE Result
    BY <1>1, <1>4 DEF jtagIsSendingNotReceiving, Clocked, Shifted
  <1>5. ASSUME jtagNotSendingIsReceiving PROVE Result
    BY <1>1, <1>5 DEF jtagNotSendingIsReceiving, Clocked, Shifted
  <1>6. ASSUME jtagNotSendingNotReceiving PROVE Result
    BY <1>1, <1>6 DEF jtagNotSendingNotReceiving
  <1>7. ASSUME doProgram PROVE Result
    BY <1>1, <1>2, <1>7 DEF doProgram, Streams, Shifted
  <1>8. ASSUME ParSend PROVE Result
    <2>1. fpga' = fpga \/ fpga' = FpgaTakes(fpga, ep1out)
      BY <1>8 DEF ParSend, Streams
    <2>2. m_progOp = "PROG_PARALLEL" /\ driven' \subseteq driven \cup {"DATA"} /\ m_progOp' \in {m_progOp, "PROG_NOP"}
      BY <1>8 DEF ParSend, Shifted
    <2> QED
      BY <1>1, <1>2, <2>1, <2>2
  <1>9. ASSUME GivesUp PROVE Result
    BY <1>1, <1>9 DEF GivesUp, Clocked, Shifted
  <1> HIDE DEF Result
  <1>10. microExecutes(HostIsGone) /\ UNCHANGED <<hostVars, playerVars, blocks, envVars>>
    BY DEF microStep
  <1>11. UNCHANGED micro /\ (progShiftExecute \/ avrShiftExecute(HostIsGone))
    <2>1. UNCHANGED <<micro, selectVars>> /\ (IF micro = "avr" THEN avrShiftExecute(HostIsGone) ELSE progShiftExecute)
      BY <1>10 DEF microExecutes
    <2> QED
      BY <2>1
  <1>12. Result
    BY <1>3, <1>4, <1>5, <1>6, <1>7, <1>8, <1>9, <1>11
       DEF progShiftExecute, avrShiftExecute, IsSendingIsReceiving, IsSendingNotReceiving,
           NotSendingIsReceiving, NotSendingNotReceiving, SerSend
  <1> QED
    BY <1>10, <1>11, <1>12 DEF Result

\* What a request does.
ToPin(request) == request.cmd = "CMD_PORT_BIT_IO" /\ request.pin \in Pins

LEMMA RequestActs ==
    ASSUME NEW request, vendorRequest(request),
           request.cmd = "CMD_PROG_CLOCK_DATA" => {"cmd", "op"} \subseteq DOMAIN request
    PROVE  /\ micro' = micro /\ m_progOp = "PROG_NOP"
           /\ ToPin(request) =>
                 /\ driven' = (IF request.config = "PIN_INPUT" THEN driven \ {request.pin} ELSE driven \cup {request.pin})
                 /\ fpga' = (IF request.pin = "PROG" THEN FpgaSeesProg(fpga, request.config) ELSE fpga)
           /\ ~ToPin(request) => driven' = driven /\ fpga' = fpga
           /\ m_progOp' = "PROG_PARALLEL" => request.cmd = "CMD_PROG_CLOCK_DATA" /\ request.op = "PROG_PARALLEL"
  <1> DEFINE Acts(r) ==
                 /\ m_progOp = "PROG_NOP"
                 /\ ToPin(r) =>
                       /\ driven' = (IF r.config = "PIN_INPUT" THEN driven \ {r.pin} ELSE driven \cup {r.pin})
                       /\ fpga' = (IF r.pin = "PROG" THEN FpgaSeesProg(fpga, r.config) ELSE fpga)
                 /\ ~ToPin(r) => driven' = driven /\ fpga' = fpga
                 /\ m_progOp' = "PROG_PARALLEL" => r.cmd = "CMD_PROG_CLOCK_DATA" /\ r.op = "PROG_PARALLEL"
  <1>1. ASSUME NEW r, handleVendorCommand(r) PROVE Acts(r)
    <2>1. m_progOp = "PROG_NOP"
      BY <1>1 DEF handleVendorCommand
    <2>2. CASE r.cmd = "CMD_PROG_CLOCK_DATA"
      <3>1. progShiftBegin(r.count, r.op, r.flags) /\ UNCHANGED <<wires, lines, driven, chain, fpga>>
        BY <1>1, <2>2 DEF handleVendorCommand
      <3> QED
        BY <2>1, <2>2, <3>1 DEF progShiftBegin, ToPin
    <2>3. CASE r.cmd = "CMD_JTAG_CLOCK_FSM"
      <3>1. ClockFsm(r.pattern, r.count)
        BY <1>1, <2>3 DEF handleVendorCommand
      <3> QED
        BY <2>1, <2>3, <3>1 DEF ClockFsm, ToPin
    <2>4. CASE r.cmd = "CMD_JTAG_CLOCK"
      BY <1>1, <2>1, <2>4 DEF handleVendorCommand, ToPin
    <2>5. CASE ToPin(r)
      <3>1. portAccess(r.pin, r.config)
        BY <1>1, <2>5 DEF handleVendorCommand, ToPin
      <3> QED
        BY <2>1, <2>5, <3>1 DEF portAccess
    <2>6. CASE r.cmd = "CMD_PORT_MAP"
      <3>1. livePatch(r.line, r.pin)
        BY <1>1, <2>6 DEF handleVendorCommand
      <3> QED
        BY <2>1, <2>6, <3>1 DEF livePatch, ToPin
    <2>7. CASE r.cmd = "CMD_MODE_STATUS" \/ (r.cmd = "CMD_PORT_BIT_IO" /\ r.pin \notin Pins)
      <3>1. UNCHANGED <<m_progOp, m_numBits, m_flagByte, wires, lines, driven, chain, fpga>>
        BY <1>1, <2>7 DEF handleVendorCommand
      <3> QED
        BY <2>1, <2>7, <3>1 DEF ToPin
    <2>8. \/ r.cmd = "CMD_PROG_CLOCK_DATA" \/ r.cmd = "CMD_JTAG_CLOCK_FSM" \/ r.cmd = "CMD_JTAG_CLOCK"
          \/ ToPin(r) \/ r.cmd = "CMD_PORT_MAP"
          \/ r.cmd = "CMD_MODE_STATUS" \/ (r.cmd = "CMD_PORT_BIT_IO" /\ r.pin \notin Pins)
      BY <1>1 DEF handleVendorCommand, ToPin
    <2> QED
      BY <2>2, <2>3, <2>4, <2>5, <2>6, <2>7, <2>8
  <1>2. CASE micro = "avr" /\ ~handleVendorCommand(request)
    <2>1. avrControlRequest(request) /\ UNCHANGED micro
      BY <1>2 DEF vendorRequest
    <2>2. CASE /\ request.cmd = "CMD_PROG_CLOCK_DATA" /\ wires = NoWires
               /\ handleVendorCommand([request EXCEPT !.op = "PROG_NOP"])
      <3> DEFINE r == [request EXCEPT !.op = "PROG_NOP"]
      <3>1. r.cmd = "CMD_PROG_CLOCK_DATA" /\ r.op = "PROG_NOP"
        BY <2>2
      <3> HIDE DEF r
      <3>2. Acts(r)
        BY <1>1, <2>2 DEF r
      <3>3. ~ToPin(r) /\ ~ToPin(request)
        BY <2>2, <3>1 DEF ToPin
      <3> QED
        BY <2>1, <2>2, <3>1, <3>2, <3>3
    <2>3. CASE request.cmd = "CMD_JTAG_CLOCK" /\ m_progOp = "PROG_NOP" /\ UNCHANGED <<m_progOp, driven, fpga>>
      BY <2>1, <2>3 DEF ToPin
    <2>4. CASE request.cmd = "CMD_PORT_MAP" /\ m_progOp = "PROG_NOP" /\ progPortMap(request.line, request.pin)
      <3>1. UNCHANGED <<m_progOp, driven, fpga>>
        BY <2>4 DEF progPortMap
      <3> QED
        BY <2>1, <2>4, <3>1 DEF ToPin
    <2>5. \/ /\ request.cmd = "CMD_PROG_CLOCK_DATA" /\ wires = NoWires
             /\ handleVendorCommand([request EXCEPT !.op = "PROG_NOP"])
          \/ request.cmd = "CMD_JTAG_CLOCK" /\ m_progOp = "PROG_NOP" /\ UNCHANGED <<m_progOp, driven, fpga>>
          \/ request.cmd = "CMD_PORT_MAP" /\ m_progOp = "PROG_NOP" /\ progPortMap(request.line, request.pin)
      BY <1>2, <2>1 DEF avrControlRequest
    <2> QED
      BY <2>2, <2>3, <2>4, <2>5
  <1>3. micro' = micro /\ (micro # "avr" => handleVendorCommand(request))
    BY DEF vendorRequest
  <1> QED
    BY <1>1, <1>2, <1>3

-----------------------------------------------------------------------------
(* The invariant.                                                            *)

JtagStages == {"opened", "playing", "comparing", "scan", "ones"}
XStages == {"clearing", "starting", "checking"}
AStages == {"a opening", "a writing", "a checking"}
WriteStages == {"starting", "checking", "a writing", "a checking", "releasing"}
JtagKinds == {"play", "scan", "ones"}

Started ==
    /\ Shaped(fpga) /\ <<micro, fpga.board>> \in DOMAIN Sessions
    /\ session = NoSession => stage = "idle" /\ verdict = "none"
    /\ session # NoSession => session \in Asked
    /\ Script(calls)
    /\ stage = "idle" => calls = <<>>
    /\ stage # "idle" => verdict = "none"

Staged ==
    /\ stage \in {"idle", "bad config", "closing", "bad string", "releasing"} \cup JtagStages \cup XStages \cup AStages
    /\ stage \in JtagStages => session.kind \in JtagKinds
    /\ stage \in {"closing", "bad config"} => session.kind \in JtagKinds \cup {"pins"}
    /\ stage \in {"bad string", "releasing"} \cup XStages \cup AStages => session.kind \in Boards
    /\ stage \in {"releasing"} \cup XStages \cup AStages => ParsesAll(session)
    /\ stage \in XStages => session.kind # "AS"
    /\ stage \in AStages => session.kind = "AS"

\* The stream of the player, which it reads command by command.
Playing ==
    /\ DOMAIN player = {"todo", "command", "xsdrSize", "xruntest", "tdoMask", "tries", "numDevices", "devices"}
    /\ player.todo \in Seq(Commands) /\ player.command.data \in Seq(Byte) /\ player.xsdrSize \in Nat
    /\ stage \in JtagStages => Fits(player.xsdrSize, player.todo)
    /\ stage = "comparing" => Len(player.command.data) = bitsToBytes(player.xsdrSize)

\* PROG is still to be lowered, before anything is read; or it is low.
Clearing ==
    stage = "clearing" =>
        /\ IsSequence(received)
        /\ \A c \in Range(calls) : c.call # "receive" /\ (Keeps(c) => Reads(c, "INIT") \/ Reads(c, "DONE"))
        /\ \/ /\ received = <<>>
              /\ \E k \in 1 .. Len(calls) :
                    /\ Tells(calls[k])
                    /\ \A j \in 1 .. k - 1 : ~Keeps(calls[j])
                    /\ \A j \in 1 .. Len(calls) : j # k => ~OnPin(calls[j], "PROG")
           \/ /\ \A c \in Range(calls) : ~OnPin(c, "PROG")
              /\ fpga.phase \in {"told", "cleared"} /\ fpga.progLow = TRUE
              /\ \A x \in Range(received) : x = 0 => fpga.phase = "cleared"

\* Since then it has been cleared, and nobody lowers PROG again.
Writing ==
    /\ stage \in WriteStages => Sound(fpga) /\ \A c \in Range(calls) : ~Tells(c)
    /\ stage = "a opening" => Sound(fpga) \/ \E c \in Range(calls) : Tells(c)
    /\ stage = "releasing" => fpga.phase = "running"
    /\ stage = "a checking" =>
          /\ IsSequence(received)
          /\ \A c \in Range(calls) : c.call # "receive" /\ (Keeps(c) => Reads(c, "DONE"))
          /\ \A x \in Range(received) : x = 1 => fpga.phase = "running"

\* INIT and DONE are read in this order, by the last two calls.
Checking ==
    stage = "checking" =>
        LET n == Len(calls)
            r == Len(received)
        IN  /\ IsSequence(received) /\ r <= 2 /\ n >= 2 - r /\ (r > 0 => n = 2 - r)
            /\ \A c \in Range(calls) : c.call # "receive"
            /\ \A i \in 1 .. n - (2 - r) : ~Keeps(calls[i])
            /\ r < 2 => Reads(calls[n], "DONE")
            /\ r = 0 => Keeps(calls[n - 1])
            /\ r = 2 /\ received[2] = 1 => fpga.phase = "running"

\* Every pin that must be let go of is let go of by a call still to be made.
LettingGo ==
    /\ stage \in {"closing", "releasing"} /\ session.kind # "pins" =>
          /\ \A pin \in LetGo(session) :
                /\ \A c \in Range(calls) : ~Drives(c, pin)
                /\ pin \in driven => \E c \in Range(calls) : LetsGo(c, pin)
          /\ \A c \in Range(calls) : IsBegin(c) => c.request.op # "PROG_PARALLEL"
          /\ m_progOp = "PROG_PARALLEL" /\ "DATA" \in LetGo(session) => \E c \in Range(calls) : LetsGo(c, "DATA")
    /\ stage \in XStages =>
          \A pin \in {"INIT", "DONE"} :
              /\ \A c \in Range(calls) : ~Drives(c, pin)
              /\ pin \in driven => stage = "clearing" /\ \E c \in Range(calls) : LetsGo(c, pin)

Configured ==
    verdict = "FL_SUCCESS" =>
        /\ session.kind \in Boards => fpga.phase = "running" /\ Right(fpga)
        /\ session.kind # "pins" => /\ driven \cap LetGo(session) = {}
                                    /\ m_progOp = "PROG_PARALLEL" => "DATA" \notin LetGo(session)

ProgramInv ==
    Started /\ Staged /\ Playing /\ Clearing /\ Writing /\ Checking /\ LettingGo /\ Configured

LEMMA InvGivesOk == ProgramInv => OkMeansConfigured
  BY DEF ProgramInv, Configured, OkMeansConfigured, Right

\* What the assumption says of the session.
LEMMA KindsOfSessions ==
    ASSUME Started, session # NoSession
    PROVE  \/ session.kind \in JtagKinds /\ JtagSession(session)
           \/ session.kind = "pins" /\ session.pins \in Seq([pin : STRING, config : Configs])
           \/ session.kind = fpga.board /\ session.kind \in Boards /\ session.kind \in SlaveKinds /\ SlaveSession(session)
  <1> DEFINE rig == <<micro, fpga.board>>
  <1>1. rig \in DOMAIN Sessions /\ session \in Sessions[rig] /\ rig[2] = fpga.board
    BY DEF Started, Asked
  <1>2. fpga.board \in Boards /\ Boards \subseteq SlaveKinds
    BY <1>1, SessionsAssumption DEF SlaveKinds
  <1> HIDE DEF rig
  <1> QED
    BY <1>1, <1>2, SessionsAssumption DEF JtagKinds

LEMMA SlaveIs ==
    ASSUME Started, session # NoSession, session.kind \in Boards
    PROVE  session.kind = fpga.board /\ session.kind \in SlaveKinds /\ SlaveSession(session)
  <1>1. session.kind \in SlaveKinds
    BY SessionsAssumption DEF SlaveKinds
  <1>2. session.kind \notin JtagKinds /\ session.kind # "pins"
    BY <1>1 DEF SlaveKinds, JtagKinds
  <1> QED
    BY <1>1, <1>2, KindsOfSessions

LEMMA JtagIs ==
    ASSUME Started, session # NoSession, session.kind \in JtagKinds
    PROVE  JtagSession(session) /\ session.kind \notin Boards /\ session.kind # "pins"
  <1>1. session.kind \notin SlaveKinds /\ session.kind # "pins"
    BY DEF SlaveKinds, JtagKinds
  <1>2. Boards \subseteq SlaveKinds
    BY SessionsAssumption DEF SlaveKinds
  <1> QED
    BY <1>1, <1>2, KindsOfSessions

LEMMA PinsIs ==
    ASSUME Started, session # NoSession, session.kind = "pins"
    PROVE  session.pins \in Seq([pin : STRING, config : Configs]) /\ session.kind \notin Boards
  <1>1. session.kind \notin SlaveKinds /\ session.kind \notin JtagKinds
    BY DEF SlaveKinds, JtagKinds
  <1>2. Boards \subseteq SlaveKinds
    BY SessionsAssumption DEF SlaveKinds
  <1> QED
    BY <1>1, <1>2, KindsOfSessions

LEMMA PlayerGiven ==
    ASSUME NEW stream
    PROVE  LET p == Player(stream)
           IN  /\ DOMAIN p = {"todo", "command", "xsdrSize", "xruntest", "tdoMask", "tries", "numDevices", "devices"}
               /\ p.todo = stream /\ p.command.data \in Seq(Byte) /\ p.xsdrSize = 0
  <1>1. <<>> \in Seq(Byte)
    OBVIOUS
  <1>2. Player(stream).command.data = <<>>
    BY DEF Player, Command
  <1>3. LET p == Player(stream)
        IN  /\ DOMAIN p = {"todo", "command", "xsdrSize", "xruntest", "tdoMask", "tries", "numDevices", "devices"}
            /\ p.todo = stream /\ p.xsdrSize = 0
    BY DEF Player
  <1> QED
    BY <1>1, <1>2, <1>3

LEMMA EmptyStream == <<>> \in Seq(Commands) /\ \A size : Fits(size, <<>>)
  BY DEF Fits

LEMMA InvInit == Init => ProgramInv
  <1> SUFFICES ASSUME Init PROVE ProgramInv
    OBVIOUS
  <1>1. PICK rig \in DOMAIN Sessions : micro = rig[1] /\ fpga = FpgaAtStart(rig[2])
    BY DEF Init, MicroInit, FirmwareInit
  <1>2. Shaped(fpga) /\ fpga.board = rig[2]
    BY <1>1 DEF FpgaAtStart, Shaped
  <1>3. <<micro, fpga.board>> \in DOMAIN Sessions
    <2>1. rig \in {"fx2", "avr"} \X Boards
      BY SessionsAssumption
    <2>2. rig = <<rig[1], rig[2]>>
      BY <2>1
    <2> QED
      BY <1>1, <1>2, <2>2
  <1>4. session = NoSession /\ stage = "idle" /\ calls = <<>> /\ verdict = "none" /\ player = Player(<<>>)
    BY DEF Init, PlayerInit
  <1>5. Started
    <2>1. Script(calls)
      BY <1>4, NoScript
    <2>2. (session = NoSession => stage = "idle" /\ verdict = "none") /\ (session # NoSession => session \in Asked)
      BY <1>4
    <2>3. (stage = "idle" => calls = <<>>) /\ (stage # "idle" => verdict = "none")
      BY <1>4
    <2> QED
      BY <1>2, <1>3, <2>1, <2>2, <2>3 DEF Started
  <1>6. Playing
    <2>1. player.todo = <<>> /\ player.command.data \in Seq(Byte) /\ player.xsdrSize = 0
          /\ DOMAIN player = {"todo", "command", "xsdrSize", "xruntest", "tdoMask", "tries", "numDevices", "devices"}
      BY <1>4, PlayerGiven
    <2>2. player.todo \in Seq(Commands)
      BY <2>1, EmptyStream
    <2> QED
      BY <1>4, <2>1, <2>2 DEF Playing, JtagStages
  <1> QED
    BY <1>4, <1>5, <1>6 DEF ProgramInv, Staged, Clearing, Writing, Checking, LettingGo, Configured, JtagStages, XStages,
        AStages, WriteStages

-----------------------------------------------------------------------------
(* Steps of which the host takes no part.                                    *)

LEMMA WorldMoves ==
    ASSUME ProgramInv, UNCHANGED <<hostVars, playerVars, micro>>, Moves(fpga, fpga'),
           driven' \subseteq driven \/ (m_progOp = "PROG_PARALLEL" /\ driven' \subseteq driven \cup {"DATA"}),
           m_progOp' \in {m_progOp, "PROG_NOP"}
    PROVE  ProgramInv'
  <1>1. UNCHANGED <<session, stage, calls, received, verdict, player>>
    BY DEF hostVars, playerVars
  <1>2. Started'
    BY <1>1 DEF ProgramInv, Started, Moves, Asked
  <1>3. Staged'
    BY <1>1 DEF ProgramInv, Staged
  <1>4. Playing'
    BY <1>1 DEF ProgramInv, Playing
  <1>5. Clearing'
    BY <1>1 DEF ProgramInv, Clearing, Moves
  <1>6. Writing'
    BY <1>1 DEF ProgramInv, Writing, Moves
  <1>7. Checking'
    BY <1>1 DEF ProgramInv, Checking, Moves
  <1>8. LettingGo'
    <2>1. ASSUME NEW pin, pin \in driven', pin \notin driven
          PROVE  m_progOp = "PROG_PARALLEL" /\ pin = "DATA"
      BY <2>1
    <2>2. m_progOp' = "PROG_PARALLEL" => m_progOp = "PROG_PARALLEL"
      OBVIOUS
    <2>3. LettingGo
      BY DEF ProgramInv
    <2>4. ASSUME stage \in {"closing", "releasing"} /\ session.kind # "pins", NEW pin \in LetGo(session), pin \in driven'
          PROVE  \E c \in Range(calls) : LetsGo(c, pin)
      <3>1. CASE pin \in driven
        BY <2>3, <2>4, <3>1 DEF LettingGo
      <3>2. CASE pin \notin driven
        BY <2>1, <2>3, <2>4, <3>2 DEF LettingGo
      <3> QED
        BY <3>1, <3>2
    <2>5. \A pin \in {"INIT", "DONE"} : pin \in driven' => pin \in driven
      BY <2>1
    <2> QED
      BY <1>1, <2>2, <2>3, <2>4, <2>5 DEF LettingGo
  <1>9. Configured'
    <2>1. ASSUME NEW pin, pin \in driven', pin \notin driven
          PROVE  m_progOp = "PROG_PARALLEL" /\ pin = "DATA"
      BY <2>1
    <2>2. m_progOp' = "PROG_PARALLEL" => m_progOp = "PROG_PARALLEL"
      OBVIOUS
    <2>3. Configured
      BY DEF ProgramInv
    <2>4. verdict = "FL_SUCCESS" /\ session.kind # "pins" => driven' \cap LetGo(session) = {}
      BY <2>1, <2>3 DEF Configured
    <2> QED
      BY <1>1, <2>2, <2>3, <2>4 DEF Configured, Moves
  <1> QED
    BY <1>2, <1>3, <1>4, <1>5, <1>6, <1>7, <1>8, <1>9 DEF ProgramInv

\* A session that ends without success.
LEMMA EndsBadly ==
    ASSUME ProgramInv, stage # "idle", NEW status, status # "FL_SUCCESS", Ends(status), Playing',
           micro' = micro, Shaped(fpga'), fpga'.board = fpga.board
    PROVE  ProgramInv'
  <1>1. stage' = "idle" /\ calls' = <<>> /\ verdict' # "FL_SUCCESS" /\ session' = session
    BY DEF Ends
  <1>2. session # NoSession
    BY DEF ProgramInv, Started
  <1>3. Started'
    BY <1>1, <1>2, NoScript DEF ProgramInv, Started, Asked
  <1> QED
    BY <1>1, <1>3 DEF ProgramInv, Staged, Clearing, Writing, Checking, LettingGo, Configured, JtagStages, XStages,
        AStages, WriteStages

-----------------------------------------------------------------------------
(* A call that is made.                                                      *)

LEMMA SeesProg ==
    ASSUME NEW f, Shaped(f), NEW config
    PROVE  LET g == FpgaSeesProg(f, config)
           IN  /\ Shaped(g) /\ g.board = f.board
               /\ config # "PIN_LOW" => g.phase = f.phase /\ g.taken = f.taken
               /\ config = "PIN_LOW" /\ f.board = "AS" => g.phase = "cleared"
               /\ config = "PIN_LOW" /\ f.board # "AS" => g.phase = "told" /\ g.progLow = TRUE
  <1>1. CASE config # "PIN_LOW"
    BY <1>1 DEF FpgaSeesProg, Shaped
  <1>2. CASE config = "PIN_LOW" /\ f.board = "AS"
    BY <1>2 DEF FpgaSeesProg, Shaped
  <1>3. CASE config = "PIN_LOW" /\ f.board # "AS"
    BY <1>3 DEF FpgaSeesProg, Shaped
  <1> QED
    BY <1>1, <1>2, <1>3

\* What a call does, when it is not the last thing the function does.
Acts(c) ==
    /\ c.call \in {"control", "send", "receive"}
    /\ c.call \in {"control", "send"} => received' = IF Keeps(c) THEN Append(received, LevelOf(c.request.pin)) ELSE received
    /\ IsAccess(c) =>
          /\ driven' = IF c.request.config = "PIN_INPUT" THEN driven \ {c.request.pin} ELSE driven \cup {c.request.pin}
          /\ fpga' = IF c.request.pin = "PROG" THEN FpgaSeesProg(fpga, c.request.config) ELSE fpga
          /\ m_progOp' # "PROG_PARALLEL"
    /\ ~IsAccess(c) => driven' = driven /\ fpga' = fpga
    /\ m_progOp' = "PROG_PARALLEL" => m_progOp = "PROG_PARALLEL" \/ (IsBegin(c) /\ c.request.op = "PROG_PARALLEL")

\* What the host may assume of it in any case.
LEMMA ActsOnFpga ==
    ASSUME Shaped(fpga), NEW c, Acts(c)
    PROVE  /\ Shaped(fpga') /\ fpga'.board = fpga.board
           /\ ~OnPin(c, "PROG") => fpga' = fpga
           /\ OnPin(c, "PROG") /\ ~Tells(c) => fpga'.phase = fpga.phase /\ fpga'.taken = fpga.taken
           /\ Tells(c) /\ fpga.board = "AS" => fpga'.phase = "cleared"
           /\ Tells(c) /\ fpga.board # "AS" => fpga'.phase = "told" /\ fpga'.progLow = TRUE
  <1>1. CASE OnPin(c, "PROG")
    <2>1. fpga' = FpgaSeesProg(fpga, c.request.config)
      BY <1>1 DEF Acts, OnPin
    <2> QED
      BY <1>1, <2>1, SeesProg DEF Tells
  <1>2. CASE ~OnPin(c, "PROG")
    <2>1. fpga' = fpga
      BY <1>2 DEF Acts, OnPin
    <2> QED
      BY <1>2, <2>1 DEF Tells
  <1> QED
    BY <1>1, <1>2

\* The level that is read.
LEMMA LevelsSeen ==
    ASSUME NEW pin \in {"INIT", "DONE"}
    PROVE  /\ LevelOf(pin) = 0 /\ fpga.phase \in {"told", "cleared"} => fpga.phase = "cleared"
           /\ LevelOf("DONE") = 1 /\ Sound(fpga) => fpga.phase = "running"
  BY DEF LevelOf, FpgaPin, Sound

LEMMA CallsGoOn ==
    ASSUME ProgramInv, NEW c, calls # <<>>, c = Head(calls), calls' = Tail(calls), Acts(c),
           UNCHANGED <<session, stage, verdict, playerVars, micro>>
    PROVE  ProgramInv'
  <1>1. Started /\ Staged /\ Playing /\ Clearing /\ Writing /\ Checking /\ LettingGo /\ Configured
    BY DEF ProgramInv
  <1>2. Script(calls) /\ IsSequence(calls)
    BY <1>1 DEF Started, Script
  <1>3. /\ IsSequence(calls') /\ Range(calls) = {c} \cup Range(calls')
        /\ Len(calls) \in Nat /\ Len(calls) >= 1 /\ calls[1] = c /\ Len(calls') = Len(calls) - 1
        /\ \A i \in 1 .. Len(calls') : calls'[i] = calls[i + 1]
        /\ Len(calls') \in Nat /\ Range(calls') = {calls'[i] : i \in 1 .. Len(calls')}
    <2>1. /\ IsSequence(Tail(calls)) /\ Range(calls) = {c} \cup Range(Tail(calls))
          /\ Len(calls) >= 1 /\ calls[1] = c /\ Len(Tail(calls)) = Len(calls) - 1
          /\ \A i \in 1 .. Len(Tail(calls)) : Tail(calls)[i] = calls[i + 1]
      BY <1>2, Shortened
    <2>2. Len(calls) \in Nat
      BY <1>2, Placed
    <2>3. Len(Tail(calls)) \in Nat /\ Range(Tail(calls)) = {Tail(calls)[i] : i \in 1 .. Len(Tail(calls))}
      BY <2>1, Placed
    <2> QED
      BY <2>1, <2>2, <2>3
  <1>4. stage # "idle" /\ verdict = "none" /\ session # NoSession
    BY <1>1 DEF Started
  <1>5. Shaped(fpga)
    BY <1>1 DEF Started
  <1>6. Started'
    <2>1. Script(calls')
      BY <1>2, <1>3 DEF Script
    <2> QED
      BY <1>1, <1>4, <1>5, <2>1, ActsOnFpga DEF Started, Asked
  <1>7. Staged'
    BY <1>1 DEF Staged
  <1>8. Playing'
    BY <1>1 DEF Playing, playerVars
  <1>9. Clearing'
    <2> SUFFICES ASSUME stage = "clearing" PROVE Clearing'
      BY DEF Clearing
    <2>1. fpga.board # "AS"
      BY <1>1, <1>4, SlaveIs DEF Staged, XStages
    <2>2. /\ IsSequence(received)
          /\ \A x \in Range(calls) : x.call # "receive" /\ (Keeps(x) => Reads(x, "INIT") \/ Reads(x, "DONE"))
      BY <1>1 DEF Clearing
    <2>3. c.call # "receive" /\ (Keeps(c) => Reads(c, "INIT") \/ Reads(c, "DONE"))
      BY <1>3, <2>2
    <2>4. received' = (IF Keeps(c) THEN Append(received, LevelOf(c.request.pin)) ELSE received)
      <3>1. CASE Keeps(c)
        BY <3>1 DEF Acts, Keeps
      <3>2. CASE ~Keeps(c)
        <4>1. c.call \in {"control", "send"}
          BY <1>1, <2>3 DEF Acts
        <4> QED
          BY <3>2, <4>1 DEF Acts
      <3> QED
        BY <3>1, <3>2
    <2>5. IsSequence(received') /\ Range(received') \subseteq Range(received) \cup {LevelOf(c.request.pin)}
          /\ (~Keeps(c) => received' = received)
      BY <2>2, <2>4, Appended
    <2>6. \A x \in Range(calls') : x.call # "receive" /\ (Keeps(x) => Reads(x, "INIT") \/ Reads(x, "DONE"))
      BY <1>3, <2>2
    <2>7. CASE /\ \A x \in Range(calls) : ~OnPin(x, "PROG")
               /\ fpga.phase \in {"told", "cleared"} /\ fpga.progLow = TRUE
               /\ \A x \in Range(received) : x = 0 => fpga.phase = "cleared"
      <3>1. fpga' = fpga
        BY <1>3, <1>5, <2>7, ActsOnFpga
      <3>2. \A x \in Range(received') : x = 0 => fpga.phase = "cleared"
        <4>1. CASE Keeps(c)
          <5>1. c.request.pin \in {"INIT", "DONE"}
            BY <2>3, <4>1 DEF Reads, LetsGo, OnPin
          <5>2. LevelOf(c.request.pin) = 0 => fpga.phase = "cleared"
            BY <2>7, <5>1, LevelsSeen
          <5> QED
            BY <2>5, <2>7, <5>2
        <4>2. CASE ~Keeps(c)
          BY <2>5, <2>7, <4>2
        <4> QED
          BY <4>1, <4>2
      <3> QED
        BY <1>3, <2>5, <2>6, <2>7, <3>1, <3>2 DEF Clearing
    <2>8. ASSUME received = <<>>, NEW k \in 1 .. Len(calls), Tells(calls[k]), \A j \in 1 .. k - 1 : ~Keeps(calls[j]),
                 \A j \in 1 .. Len(calls) : j # k => ~OnPin(calls[j], "PROG")
          PROVE  Clearing'
      <3>1. CASE k = 1
        <4>1. Tells(c)
          BY <1>3, <2>8, <3>1
        <4>2. ~Keeps(c)
          BY <2>3, <4>1 DEF Tells, Reads, LetsGo, OnPin
        <4>3. received' = <<>>
          BY <2>5, <2>8, <4>2
        <4>4. ASSUME NEW x \in Range(calls') PROVE ~OnPin(x, "PROG")
          <5>1. PICK i \in 1 .. Len(calls') : x = calls'[i]
            BY <1>3
          <5>2. x = calls[i + 1] /\ i + 1 \in 1 .. Len(calls) /\ i + 1 # 1
            BY <1>3, <5>1
          <5> QED
            BY <2>8, <3>1, <5>2
        <4>5. fpga'.phase = "told" /\ fpga'.progLow = TRUE
          BY <1>5, <2>1, <4>1, ActsOnFpga
        <4> QED
          BY <2>5, <2>6, <4>3, <4>4, <4>5, NoneAtAll DEF Clearing
      <3>2. CASE k # 1
        <4>1. k - 1 \in 1 .. Len(calls') /\ calls'[k - 1] = calls[k] /\ 1 \in 1 .. k - 1
          <5>1. k - 1 \in 1 .. Len(calls') /\ (k - 1) + 1 = k /\ 1 \in 1 .. k - 1
            BY <1>3, <3>2
          <5> QED
            BY <1>3, <5>1
        <4>2. ~Keeps(c) /\ received' = <<>>
          BY <1>3, <2>5, <2>8, <4>1
        <4>3. ASSUME NEW j \in 1 .. (k - 1) - 1 PROVE ~Keeps(calls'[j])
          <5>1. j \in 1 .. Len(calls') /\ j + 1 \in 1 .. k - 1
            BY <1>3
          <5> QED
            BY <1>3, <2>8, <5>1
        <4>4. ASSUME NEW j \in 1 .. Len(calls'), j # k - 1 PROVE ~OnPin(calls'[j], "PROG")
          <5>1. j + 1 \in 1 .. Len(calls) /\ j + 1 # k
            BY <1>3, <4>4
          <5> QED
            BY <1>3, <2>8, <5>1
        <4>5. \E m \in 1 .. Len(calls') :
                 /\ Tells(calls'[m])
                 /\ \A j \in 1 .. m - 1 : ~Keeps(calls'[j])
                 /\ \A j \in 1 .. Len(calls') : j # m => ~OnPin(calls'[j], "PROG")
          BY <2>8, <4>1, <4>3, <4>4
        <4> QED
          BY <2>5, <2>6, <4>2, <4>5 DEF Clearing
      <3> QED
        BY <3>1, <3>2
    <2> QED
      BY <1>1, <2>7, <2>8 DEF Clearing
  <1>10. Writing'
    <2>1. ASSUME stage \in WriteStages PROVE Sound(fpga') /\ \A x \in Range(calls') : ~Tells(x)
      <3>1. Sound(fpga) /\ \A x \in Range(calls) : ~Tells(x)
        BY <1>1, <2>1 DEF Writing
      <3>2. ~Tells(c)
        BY <1>3, <3>1
      <3>3. fpga' = fpga \/ (fpga'.phase = fpga.phase /\ fpga'.taken = fpga.taken)
        BY <1>5, <3>2, ActsOnFpga
      <3> QED
        BY <1>3, <3>1, <3>3 DEF Sound, Right
    <2>2. ASSUME stage \in WriteStages, fpga.phase = "running" PROVE fpga'.phase = "running"
      <3>1. ~Tells(c)
        BY <1>1, <1>3, <2>2 DEF Writing
      <3> QED
        BY <1>5, <2>2, <3>1, ActsOnFpga
    <2>3. ASSUME stage = "a opening" PROVE Sound(fpga') \/ \E x \in Range(calls') : Tells(x)
      <3>1. fpga.board = "AS"
        BY <1>1, <1>4, <2>3, SlaveIs DEF Staged, AStages
      <3>2. CASE Tells(c)
        BY <1>5, <3>1, <3>2, ActsOnFpga DEF Sound
      <3>3. CASE ~Tells(c)
        <4>1. fpga' = fpga \/ (fpga'.phase = fpga.phase /\ fpga'.taken = fpga.taken)
          BY <1>5, <3>3, ActsOnFpga
        <4>2. Sound(fpga) => Sound(fpga')
          BY <4>1 DEF Sound, Right
        <4> QED
          BY <1>1, <1>3, <2>3, <3>3, <4>2 DEF Writing
      <3> QED
        BY <3>2, <3>3
    <2>4. ASSUME stage = "a checking"
          PROVE  /\ IsSequence(received')
                 /\ \A x \in Range(calls') : x.call # "receive" /\ (Keeps(x) => Reads(x, "DONE"))
                 /\ \A x \in Range(received') : x = 1 => fpga'.phase = "running"
      <3>1. /\ IsSequence(received)
            /\ \A x \in Range(calls) : x.call # "receive" /\ (Keeps(x) => Reads(x, "DONE"))
            /\ \A x \in Range(received) : x = 1 => fpga.phase = "running"
            /\ Sound(fpga) /\ stage \in WriteStages
        BY <1>1, <2>4 DEF Writing, WriteStages
      <3>2. c.call # "receive" /\ (Keeps(c) => Reads(c, "DONE"))
        BY <1>3, <3>1
      <3>3. received' = IF Keeps(c) THEN Append(received, LevelOf(c.request.pin)) ELSE received
        BY <3>2 DEF Acts
      <3>4. CASE Keeps(c)
        <4>1. c.request.pin = "DONE"
          BY <3>2, <3>4 DEF Reads, LetsGo, OnPin
        <4>2. LevelOf("DONE") = 1 => fpga.phase = "running"
          BY <3>1, LevelsSeen
        <4>3. IsSequence(received') /\ Range(received') = Range(received) \cup {LevelOf("DONE")}
          BY <3>1, <3>3, <3>4, <4>1, Appended
        <4> QED
          BY <1>3, <2>2, <3>1, <4>2, <4>3
      <3>5. CASE ~Keeps(c)
        BY <1>3, <2>2, <3>1, <3>3, <3>5
      <3> QED
        BY <3>4, <3>5
    <2>5. stage' = stage /\ (stage = "releasing" => fpga.phase = "running" /\ stage \in WriteStages)
      BY <1>1 DEF Writing, WriteStages
    <2> QED
      BY <2>1, <2>2, <2>3, <2>4, <2>5 DEF Writing
  <1>11. Checking'
    <2> SUFFICES ASSUME stage = "checking" PROVE Checking'
      BY DEF Checking
    <2> DEFINE n == Len(calls)
               r == Len(received)
    <2>1. /\ IsSequence(received) /\ r <= 2 /\ n >= 2 - r /\ (r > 0 => n = 2 - r)
          /\ \A x \in Range(calls) : x.call # "receive"
          /\ \A i \in 1 .. n - (2 - r) : ~Keeps(calls[i])
          /\ r < 2 => Reads(calls[n], "DONE")
          /\ r = 0 => Keeps(calls[n - 1])
          /\ r = 2 /\ received[2] = 1 => fpga.phase = "running"
      BY <1>1 DEF Checking
    <2>2. r \in Nat /\ n \in Nat /\ n >= 1 /\ calls[1] = c /\ Len(calls') = n - 1
      BY <1>3, <2>1, Placed
    <2>3. received' = IF Keeps(c) THEN Append(received, LevelOf(c.request.pin)) ELSE received
      <3>1. c.call # "receive"
        BY <1>3, <2>1
      <3> QED
        BY <3>1 DEF Acts
    <2>4. \A x \in Range(calls') : x.call # "receive"
      BY <1>3, <2>1
    <2>5. Sound(fpga)
      BY <1>1 DEF Writing, WriteStages
    <2>6. n > 1 => calls'[n - 1] = calls[n] /\ (n > 2 => calls'[n - 2] = calls[n - 1])
      <3>1. n > 1 => n - 1 \in 1 .. Len(calls') /\ (n - 1) + 1 = n
        BY <2>2
      <3>2. n > 2 => n - 2 \in 1 .. Len(calls') /\ (n - 2) + 1 = n - 1
        BY <2>2
      <3> HIDE DEF n
      <3> QED
        BY <1>3, <2>2, <3>1, <3>2
    <2>9. PICK N, R : N = Len(calls') /\ R = Len(received')
      OBVIOUS
    <2>10. ASSUME IsSequence(received') /\ R <= 2 /\ N >= 2 - R, R > 0 => N = 2 - R,
                  \A i \in 1 .. N - (2 - R) : ~Keeps(calls'[i]),
                  R < 2 => Reads(calls'[N], "DONE"),
                  R = 0 => Keeps(calls'[N - 1]),
                  R = 2 /\ received'[2] = 1 => fpga'.phase = "running"
           PROVE  Checking'
      BY <2>4, <2>9, <2>10 DEF Checking
    <2> HIDE DEF n, r
    <2>7. CASE Keeps(c)
      <3>1. n = 2 - r
        <4>1. ~(1 \in 1 .. n - (2 - r))
          BY <2>1, <2>2, <2>7
        <4> QED
          BY <2>1, <2>2, <4>1
      <3>2. received' = Append(received, LevelOf(c.request.pin)) /\ IsSequence(received') /\ Len(received') = r + 1
            /\ received'[r + 1] = LevelOf(c.request.pin)
        BY <2>1, <2>3, <2>7, Appended DEF r
      <3>3. r <= 1
        BY <2>2, <3>1
      <3>4. CASE r = 1
        <4>1. c.request.pin = "DONE"
          <5>1. Reads(calls[1], "DONE")
            BY <2>1, <3>1, <3>4
          <5> QED
            BY <2>2, <5>1 DEF Reads, LetsGo, OnPin
        <4>2. ~Tells(c) /\ fpga'.phase = fpga.phase
          <5>1. ~OnPin(c, "PROG")
            BY <4>1 DEF OnPin
          <5> QED
            BY <1>5, <5>1, ActsOnFpga DEF Tells
        <4>3. received'[2] = 1 => fpga'.phase = "running"
          BY <2>5, <3>2, <3>4, <4>1, <4>2, LevelsSeen
        <4>4. R = 2 /\ N = 0
          BY <2>2, <2>9, <3>1, <3>2, <3>4
        <4>5. \A i \in 1 .. N - (2 - R) : FALSE
          BY <4>4
        <4>11. IsSequence(received') /\ R <= 2 /\ N >= 2 - R
          BY <3>2, <4>4
        <4>12. R > 0 => N = 2 - R
          BY <3>2, <4>4
        <4>13. \A i \in 1 .. N - (2 - R) : ~Keeps(calls'[i])
          BY <4>5
        <4>14. R < 2 => Reads(calls'[N], "DONE")
          BY <4>4
        <4>15. R = 0 => Keeps(calls'[N - 1])
          BY <4>4
        <4>16. R = 2 /\ received'[2] = 1 => fpga'.phase = "running"
          BY <4>3
        <4> QED
          BY <2>10, <4>11, <4>12, <4>13, <4>14, <4>15, <4>16
      <3>5. CASE r = 0
        <4>1. R = 1 /\ N = 1 /\ n = 2
          BY <2>2, <2>9, <3>1, <3>2, <3>5
        <4>2. Reads(calls'[1], "DONE")
          <5>1. Reads(calls[n], "DONE")
            BY <2>1, <3>5
          <5>2. n > 1 /\ n - 1 = 1
            BY <4>1
          <5>3. calls'[n - 1] = calls[n]
            BY <2>6, <5>2
          <5> QED
            BY <5>1, <5>2, <5>3
        <4>3. \A i \in 1 .. N - (2 - R) : FALSE
          BY <4>1
        <4>11. IsSequence(received') /\ R <= 2 /\ N >= 2 - R
          BY <3>2, <4>1
        <4>12. R > 0 => N = 2 - R
          BY <3>2, <4>1
        <4>13. \A i \in 1 .. N - (2 - R) : ~Keeps(calls'[i])
          BY <4>3
        <4>14. R < 2 => Reads(calls'[N], "DONE")
          BY <4>1, <4>2
        <4>15. R = 0 => Keeps(calls'[N - 1])
          BY <4>1, <4>2
        <4>16. R = 2 /\ received'[2] = 1 => fpga'.phase = "running"
          BY <4>1
        <4> QED
          BY <2>10, <4>11, <4>12, <4>13, <4>14, <4>15, <4>16
      <3> QED
        BY <2>2, <3>3, <3>4, <3>5
    <2>8. CASE ~Keeps(c)
      <3>1. received' = received
        BY <2>3, <2>8
      <3>2. r = 0 /\ n > 2
        <4>1. CASE r = 0
          <5>1. n # 2
            BY <2>1, <2>2, <2>8, <4>1
          <5> QED
            BY <2>1, <2>2, <4>1, <5>1
        <4>2. CASE r = 1
          <5>1. n = 1 /\ Reads(calls[1], "DONE")
            BY <2>1, <4>2
          <5> QED
            BY <2>2, <2>8, <5>1 DEF Reads
        <4>3. CASE r = 2
          BY <2>1, <2>2, <4>3
        <4> QED
          BY <2>1, <2>2, <4>1, <4>2, <4>3
      <3>3. ASSUME NEW i \in 1 .. (n - 1) - 2 PROVE ~Keeps(calls'[i])
        <4>1. N = n - 1
          BY <2>2, <2>9
        <4>2. i \in 1 .. N /\ i + 1 \in 1 .. n - (2 - r)
          BY <2>2, <3>2, <4>1
        <4>3. calls'[i] = calls[i + 1]
          BY <1>3, <2>9, <4>2
        <4>4. ~Keeps(calls[i + 1])
          BY <2>1, <4>2
        <4> QED
          BY <4>3, <4>4
      <3>4. N \in Nat /\ N = n - 1 /\ N >= 2
        BY <2>2, <2>9, <3>2
      <3>5. Reads(calls'[N], "DONE") /\ Keeps(calls'[N - 1])
        <4>1. N = n - 1 /\ N - 1 = n - 2 /\ n > 2 /\ n > 1
          BY <2>2, <3>2, <3>4
        <4>2. Reads(calls[n], "DONE") /\ Keeps(calls[n - 1])
          BY <2>1, <3>2
        <4> QED
          BY <2>6, <4>1, <4>2
      <3>6. R = 0 /\ IsSequence(received')
        BY <2>1, <2>9, <2>2, <3>1, <3>2, <3>4 DEF r
      <3>7. \A i \in 1 .. N - (2 - R) : ~Keeps(calls'[i])
        <4>1. N - (2 - R) = (n - 1) - 2
          BY <2>2, <3>4, <3>6
        <4> QED
          BY <3>3, <4>1
      <3>11. IsSequence(received') /\ R <= 2 /\ N >= 2 - R
        BY <3>4, <3>6
      <3>12. R > 0 => N = 2 - R
        BY <3>4, <3>6
      <3>13. \A i \in 1 .. N - (2 - R) : ~Keeps(calls'[i])
        BY <3>7
      <3>14. R < 2 => Reads(calls'[N], "DONE")
        BY <3>5, <3>6
      <3>15. R = 0 => Keeps(calls'[N - 1])
        BY <3>5, <3>6
      <3>16. R = 2 /\ received'[2] = 1 => fpga'.phase = "running"
        BY <3>6
      <3> QED
        BY <2>10, <3>11, <3>12, <3>13, <3>14, <3>15, <3>16
    <2> QED
      BY <2>7, <2>8
  <1>12. LettingGo'
    <2>1. ASSUME NEW pin, \A x \in Range(calls) : ~Drives(x, pin), pin \in driven => \E x \in Range(calls) : LetsGo(x, pin)
          PROVE  /\ \A x \in Range(calls') : ~Drives(x, pin)
                 /\ pin \in driven' => \E x \in Range(calls') : LetsGo(x, pin)
      <3>1. ~Drives(c, pin) /\ \A x \in Range(calls') : ~Drives(x, pin)
        BY <1>3, <2>1
      <3>2. CASE LetsGo(c, pin)
        BY <3>1, <3>2 DEF Acts, LetsGo, OnPin
      <3>3. CASE ~LetsGo(c, pin)
        <4>1. ~OnPin(c, pin)
          BY <3>1, <3>3 DEF LetsGo, Drives
        <4>2. pin \in driven' => pin \in driven
          BY <4>1 DEF Acts, OnPin
        <4> QED
          BY <1>3, <2>1, <3>1, <3>3, <4>2
      <3> QED
        BY <3>2, <3>3
    <2>2. ASSUME stage \in {"closing", "releasing"}, session.kind # "pins"
          PROVE  /\ \A x \in Range(calls') : IsBegin(x) => x.request.op # "PROG_PARALLEL"
                 /\ m_progOp' = "PROG_PARALLEL" /\ "DATA" \in LetGo(session) => \E x \in Range(calls') : LetsGo(x, "DATA")
      <3>1. /\ \A x \in Range(calls) : IsBegin(x) => x.request.op # "PROG_PARALLEL"
            /\ m_progOp = "PROG_PARALLEL" /\ "DATA" \in LetGo(session) => \E x \in Range(calls) : LetsGo(x, "DATA")
        BY <1>1, <2>2 DEF LettingGo
      <3>2. ASSUME m_progOp' = "PROG_PARALLEL" PROVE m_progOp = "PROG_PARALLEL" /\ ~LetsGo(c, "DATA")
        BY <1>3, <3>1, <3>2 DEF Acts, LetsGo, OnPin
      <3> QED
        BY <1>3, <3>1, <3>2
    <2>3. ASSUME stage \in XStages, NEW pin \in {"INIT", "DONE"}
          PROVE  /\ \A x \in Range(calls') : ~Drives(x, pin)
                 /\ pin \in driven' => stage = "clearing" /\ \E x \in Range(calls') : LetsGo(x, pin)
      <3>1. /\ \A x \in Range(calls) : ~Drives(x, pin)
            /\ pin \in driven => stage = "clearing" /\ \E x \in Range(calls) : LetsGo(x, pin)
        BY <1>1, <2>3 DEF LettingGo
      <3>2. pin \in driven' => pin \in driven
        <4>1. ~Drives(c, pin)
          BY <1>3, <3>1
        <4> QED
          BY <4>1 DEF Acts, Drives, OnPin
      <3> QED
        BY <2>1, <3>1, <3>2
    <2>4. ASSUME stage \in {"closing", "releasing"}, session.kind # "pins", NEW pin \in LetGo(session)
          PROVE  /\ \A x \in Range(calls') : ~Drives(x, pin)
                 /\ pin \in driven' => \E x \in Range(calls') : LetsGo(x, pin)
      BY <1>1, <2>1, <2>4 DEF LettingGo
    <2> QED
      BY <2>2, <2>3, <2>4 DEF LettingGo
  <1>13. Configured'
    BY <1>4 DEF Configured
  <1> QED
    BY <1>6, <1>7, <1>8, <1>9, <1>10, <1>11, <1>12, <1>13 DEF ProgramInv

-----------------------------------------------------------------------------
(* The calls keep the invariant, whatever comes of them.                     *)

\* Where the host is, when it is to make a call or to go on.
LEMMA InSession ==
    ASSUME ProgramInv, stage # "idle"
    PROVE  /\ session # NoSession /\ verdict = "none" /\ Shaped(fpga) /\ Script(calls)
  BY DEF ProgramInv, Started

LEMMA PlayingStays ==
    ASSUME ProgramInv, UNCHANGED player, stage' \notin JtagStages
    PROVE  Playing'
  BY DEF ProgramInv, Playing, JtagStages

LEMMA IdleEnds ==
    ASSUME ProgramInv, UNCHANGED player, NEW status, Ends(status)
    PROVE  Playing'
  <1>1. stage' \notin JtagStages
    BY DEF Ends, JtagStages
  <1> QED
    BY <1>1, PlayingStays

LEMMA StepControl ==
    ASSUME ProgramInv, usbControl, UNCHANGED playerVars
    PROVE  ProgramInv'
  <1> DEFINE c == NextCall
             request == c.request
  <1>1. calls # <<>> /\ c = Head(calls) /\ c.call = "control" /\ vendorRequest(request)
    BY DEF usbControl, NextCall
  <1>2. stage # "idle" /\ Script(calls) /\ Shaped(fpga)
    BY <1>1, InSession DEF ProgramInv, Started
  <1>3. WellMade(c)
    <2>1. IsSequence(calls) /\ \A x \in Range(calls) : WellMade(x)
      BY <1>2 DEF Script
    <2>2. Range(calls) = {Head(calls)} \cup Range(Tail(calls))
      BY <1>1, <2>1, Shortened
    <2> QED
      BY <1>1, <2>1, <2>2
  <1>4. /\ micro' = micro /\ m_progOp = "PROG_NOP"
        /\ ToPin(request) =>
              /\ driven' = (IF request.config = "PIN_INPUT" THEN driven \ {request.pin} ELSE driven \cup {request.pin})
              /\ fpga' = (IF request.pin = "PROG" THEN FpgaSeesProg(fpga, request.config) ELSE fpga)
        /\ ~ToPin(request) => driven' = driven /\ fpga' = fpga
        /\ m_progOp' = "PROG_PARALLEL" => request.cmd = "CMD_PROG_CLOCK_DATA" /\ request.op = "PROG_PARALLEL"
    <2>1. request.cmd = "CMD_PROG_CLOCK_DATA" => {"cmd", "op"} \subseteq DOMAIN request
      BY <1>1, <1>3 DEF WellMade, IsBegin
    <2> HIDE DEF request
    <2> QED
      BY <1>1, <2>1, RequestActs
  <1>5. CASE Refuses(request) /\ Ends(IF request.cmd = "CMD_PORT_MAP" THEN "FL_PROG_PORT_MAP" ELSE "FL_PORT_IO")
    <2>1. ~ToPin(request)
      BY <1>5 DEF Refuses, ToPin
    <2>2. fpga' = fpga
      BY <1>4, <2>1
    <2>3. PICK status : status # "FL_SUCCESS" /\ Ends(status)
      BY <1>5
    <2>4. Playing'
      BY <2>3, IdleEnds DEF playerVars
    <2> QED
      BY <1>2, <1>4, <2>2, <2>3, <2>4, EndsBadly
  <1>6. CASE /\ ~Refuses(request)
             /\ received' = (IF c.keep THEN Append(received, LevelOf(request.pin)) ELSE received)
             /\ calls' = Tail(calls)
             /\ Stay
    <2>1. IsAccess(c) => ToPin(request)
      BY <1>6 DEF Refuses, ToPin, IsAccess
    <2>2. ~IsAccess(c) => ~ToPin(request)
      BY <1>1 DEF ToPin, IsAccess
    <2>3. Acts(c)
      <3>1. received' = IF Keeps(c) THEN Append(received, LevelOf(c.request.pin)) ELSE received
        BY <1>1, <1>6 DEF Keeps
      <3>2. m_progOp' = "PROG_PARALLEL" => IsBegin(c) /\ c.request.op = "PROG_PARALLEL"
        BY <1>1, <1>4 DEF IsBegin
      <3>3. IsAccess(c) => m_progOp' # "PROG_PARALLEL"
        BY <3>2 DEF IsBegin, IsAccess
      <3> HIDE DEF c
      <3> QED
        BY <1>1, <1>4, <2>1, <2>2, <3>1, <3>2, <3>3 DEF Acts
    <2> HIDE DEF c
    <2> QED
      BY <1>1, <1>4, <1>6, <2>3, CallsGoOn DEF Stay
  <1> QED
    BY <1>5, <1>6 DEF usbControl

LEMMA StepBulk ==
    ASSUME ProgramInv, usbBulkWrite \/ usbBulkRead \/ TimesOut, UNCHANGED playerVars
    PROVE  ProgramInv'
  <1> DEFINE c == NextCall
  <1>1. calls # <<>> /\ c = Head(calls)
    BY DEF usbBulkWrite, usbBulkRead, TimesOut, NextCall
  <1>2. stage # "idle" /\ Shaped(fpga)
    BY <1>1 DEF ProgramInv, Started
  <1>3. UNCHANGED <<micro, fpga, driven, m_progOp>>
    BY DEF usbBulkWrite, usbBulkRead, TimesOut, microVars, firmwareVars
  <1>4. ASSUME NEW status, status # "FL_SUCCESS", Ends(status) PROVE ProgramInv'
    <2>1. Playing'
      BY <1>4, IdleEnds DEF playerVars
    <2> QED
      BY <1>2, <1>3, <1>4, <2>1, EndsBadly
  <1>5. CASE usbBulkWrite
    <2>1. Acts(c)
      BY <1>3, <1>5 DEF usbBulkWrite, Acts, Keeps, IsAccess
    <2> HIDE DEF c
    <2> QED
      BY <1>1, <1>3, <1>5, <2>1, CallsGoOn DEF usbBulkWrite, Stay
  <1>6. CASE usbBulkRead
    <2>1. CASE Ends("FL_PROG_RECV")
      BY <1>4, <2>1
    <2>2. CASE received' = received \o ep1in /\ calls' = Tail(calls) /\ Stay
      <3>1. Acts(c)
        BY <1>3, <1>6 DEF usbBulkRead, Acts, Keeps, IsAccess
      <3> HIDE DEF c
      <3> QED
        BY <1>1, <1>3, <2>2, <3>1, CallsGoOn DEF Stay
    <2> QED
      BY <1>6, <2>1, <2>2 DEF usbBulkRead
  <1>7. CASE TimesOut
    <2>1. Ends("FL_USB_ERR")
      BY <1>7 DEF TimesOut
    <2> QED
      BY <1>4, <2>1
  <1> QED
    BY <1>5, <1>6, <1>7

\* What the others do.
LEMMA StepMicro ==
    ASSUME ProgramInv, microStep
    PROVE  ProgramInv'
  <1>1. Shaped(fpga)
    BY DEF ProgramInv, Started
  <1>2. /\ UNCHANGED <<hostVars, playerVars, blocks, envVars, micro>>
        /\ Moves(fpga, fpga')
        /\ driven' \subseteq driven \/ (m_progOp = "PROG_PARALLEL" /\ driven' \subseteq driven \cup {"DATA"})
        /\ m_progOp' \in {m_progOp, "PROG_NOP"}
    BY <1>1, MicroMoves
  <1> QED
    BY <1>2, WorldMoves

LEMMA StepFpga ==
    ASSUME ProgramInv, fpgaStep
    PROVE  ProgramInv'
  <1>1. Shaped(fpga)
    BY DEF ProgramInv, Started
  <1>2. Moves(fpga, fpga')
    BY <1>1, MovesByItself DEF fpgaStep
  <1>3. driven' \subseteq driven /\ m_progOp' \in {m_progOp, "PROG_NOP"} /\ UNCHANGED <<hostVars, playerVars, micro>>
    BY DEF fpgaStep
  <1> QED
    BY <1>2, <1>3, WorldMoves

LEMMA StepStopped ==
    ASSUME ProgramInv, stopped
    PROVE  ProgramInv'
  <1>1. stage # "idle" /\ Ends("killed") /\ UNCHANGED <<micro, fpga, player>>
    BY DEF stopped, Killed, Running, microVars, firmwareVars, playerVars
  <1>2. Playing'
    BY <1>1, IdleEnds
  <1>3. Shaped(fpga)
    BY DEF ProgramInv, Started
  <1> QED
    BY <1>1, <1>2, <1>3, EndsBadly

LEMMA StepNone ==
    ASSUME ProgramInv, UNCHANGED vars
    PROVE  ProgramInv'
  <1>1. Shaped(fpga)
    BY DEF ProgramInv, Started
  <1>2. UNCHANGED <<hostVars, playerVars, micro, fpga, driven, m_progOp>>
    BY DEF vars, microVars, firmwareVars
  <1> QED
    BY <1>1, <1>2, StaysMoves, WorldMoves

-----------------------------------------------------------------------------
(* The player reads its stream.                                              *)

LEMMA FitsOn ==
    ASSUME NEW stream \in Seq(Commands), stream # <<>>, NEW size \in Nat, Fits(size, stream)
    PROVE  LET c == Head(stream)
           IN  /\ c \in Commands /\ Tail(stream) \in Seq(Commands)
               /\ c.cmd # "XSDRSIZE" => Fits(size, Tail(stream))
               /\ c.cmd = "XSDRSIZE" => Fits(c.n, Tail(stream))
               /\ c.cmd = "XSIR" => Len(c.data) = bitsToBytes(c.n)
               /\ c.cmd \in {"XSDR", "XSDRTDO"} => Len(c.data) = bitsToBytes(size)
  <1> DEFINE c == stream[1]
             rest == Tail(stream)
             n == Len(stream)
  <1>1. n \in Nat /\ n >= 1 /\ DOMAIN stream = 1 .. n
    BY EmptySeq, LenProperties
  <1>2. /\ Head(stream) = c /\ c \in Commands /\ rest \in Seq(Commands) /\ Len(rest) = n - 1
        /\ \A i \in 1 .. n - 1 : rest[i] = stream[i + 1]
    BY <1>1
  <1>3. DOMAIN rest = 1 .. n - 1
    BY <1>2, LenProperties
  <1> HIDE DEF c, rest, n
  <1>4. ASSUME NEW i \in 1 .. n
        PROVE  /\ stream[i].cmd = "XSIR" => Len(stream[i].data) = bitsToBytes(stream[i].n)
               /\ stream[i].cmd \in {"XSDR", "XSDRTDO"} =>
                  /\ \A j \in 1 .. i - 1 : SizedBy(stream, i, j) => Len(stream[i].data) = bitsToBytes(stream[j].n)
                  /\ (\A j \in 1 .. i - 1 : stream[j].cmd # "XSDRSIZE") => Len(stream[i].data) = bitsToBytes(size)
    BY <1>1 DEF Fits
  <1>5. c.cmd = "XSIR" => Len(c.data) = bitsToBytes(c.n)
    BY <1>1, <1>4 DEF c
  <1>6. c.cmd \in {"XSDR", "XSDRTDO"} => Len(c.data) = bitsToBytes(size)
    <2>1. 1 \in 1 .. n /\ 1 .. 1 - 1 = {}
      BY <1>1
    <2> QED
      BY <1>4, <2>1 DEF c
  <1>7. ASSUME NEW i \in 1 .. n - 1, NEW j \in 1 .. i - 1, SizedBy(rest, i, j)
        PROVE  SizedBy(stream, i + 1, j + 1)
    <2>1. rest[j].cmd = "XSDRSIZE" /\ \A k \in j + 1 .. i - 1 : rest[k].cmd # "XSDRSIZE"
      BY <1>7 DEF SizedBy
    <2>2. j \in 1 .. n - 1
      BY <1>1
    <2>3. ASSUME NEW k \in (j + 1) + 1 .. (i + 1) - 1 PROVE stream[k].cmd # "XSDRSIZE"
      <3>1. k - 1 \in j + 1 .. i - 1 /\ k - 1 \in 1 .. n - 1 /\ (k - 1) + 1 = k
        BY <1>1
      <3> QED
        BY <1>2, <2>1, <3>1
    <2> QED
      BY <1>2, <2>1, <2>2, <2>3 DEF SizedBy
  <1>8. ASSUME NEW i \in 1 .. n - 1, \A j \in 1 .. i - 1 : rest[j].cmd # "XSDRSIZE"
        PROVE  \A k \in 2 .. i : stream[k].cmd # "XSDRSIZE"
    <2>1. ASSUME NEW k \in 2 .. i PROVE stream[k].cmd # "XSDRSIZE"
      <3>1. k - 1 \in 1 .. i - 1 /\ k - 1 \in 1 .. n - 1 /\ (k - 1) + 1 = k
        BY <1>1
      <3> QED
        BY <1>2, <1>8, <3>1
    <2> QED
      BY <2>1
  <1>9. ASSUME NEW before, c.cmd # "XSDRSIZE" => before = size, c.cmd = "XSDRSIZE" => before = c.n
        PROVE  Fits(before, rest)
    <2>1. ASSUME NEW i \in 1 .. n - 1, rest[i].cmd \in {"XSDR", "XSDRTDO"}, NEW j \in 1 .. i - 1, SizedBy(rest, i, j)
          PROVE  Len(rest[i].data) = bitsToBytes(rest[j].n)
      <3>1. i + 1 \in 1 .. n /\ j + 1 \in 1 .. (i + 1) - 1 /\ j \in 1 .. n - 1
        BY <1>1
      <3>2. rest[i] = stream[i + 1] /\ rest[j] = stream[j + 1]
        BY <1>2, <3>1
      <3> QED
        BY <1>4, <1>7, <2>1, <3>1, <3>2
    <2>2. ASSUME NEW i \in 1 .. n - 1, rest[i].cmd \in {"XSDR", "XSDRTDO"}, \A j \in 1 .. i - 1 : rest[j].cmd # "XSDRSIZE"
          PROVE  Len(rest[i].data) = bitsToBytes(before)
      <3>1. i + 1 \in 1 .. n /\ 1 \in 1 .. (i + 1) - 1 /\ rest[i] = stream[i + 1]
        BY <1>1, <1>2
      <3>2. \A k \in 2 .. i : stream[k].cmd # "XSDRSIZE"
        BY <1>8, <2>2
      <3>3. CASE c.cmd = "XSDRSIZE"
        <4>1. \A k \in 1 + 1 .. (i + 1) - 1 : k \in 2 .. i
          OBVIOUS
        <4>2. SizedBy(stream, i + 1, 1)
          BY <3>2, <3>3, <4>1 DEF SizedBy, c
        <4> QED
          BY <1>4, <1>9, <2>2, <3>1, <3>3, <4>2 DEF c
      <3>4. CASE c.cmd # "XSDRSIZE"
        <4>1. \A k \in 1 .. (i + 1) - 1 : k = 1 \/ k \in 2 .. i
          OBVIOUS
        <4>2. \A k \in 1 .. (i + 1) - 1 : stream[k].cmd # "XSDRSIZE"
          BY <3>2, <3>4, <4>1 DEF c
        <4> QED
          BY <1>4, <1>9, <2>2, <3>1, <3>4, <4>2
      <3> QED
        BY <3>3, <3>4
    <2>3. ASSUME NEW i \in 1 .. n - 1, rest[i].cmd = "XSIR"
          PROVE  Len(rest[i].data) = bitsToBytes(rest[i].n)
      <3>1. i + 1 \in 1 .. n /\ rest[i] = stream[i + 1]
        BY <1>1, <1>2
      <3> QED
        BY <1>4, <2>3, <3>1
    <2> QED
      BY <1>3, <2>1, <2>2, <2>3 DEF Fits
  <1>10. c.cmd # "XSDRSIZE" => Fits(size, rest)
    BY <1>9
  <1>11. c.cmd = "XSDRSIZE" => Fits(c.n, rest)
    BY <1>9
  <1> QED
    BY <1>2, <1>5, <1>6, <1>10, <1>11 DEF rest

\* What is played of a command.
LEMMA PlaysIdle == Script(IdleClocks)
  <1>1. Script(<<jtagClocks(player.xruntest)>>)
    BY PlainMade, OneCall
  <1> QED
    BY <1>1, NoScript DEF IdleClocks

LEMMA OneClocking ==
    ASSUME NEW pattern, NEW count
    PROVE  Script(<<jtagClockFSM(pattern, count)>>)
           /\ \A c \in Range(<<jtagClockFSM(pattern, count)>>) : Plain(c) /\ ~IsBegin(c)
  <1> DEFINE c == jtagClockFSM(pattern, count)
  <1>1. WellMade(c) /\ Plain(c) /\ ~IsBegin(c)
    BY PlainMade
  <1> HIDE DEF c
  <1>2. Script(<<c>>) /\ \A x \in Range(<<c>>) : Plain(x) /\ ~IsBegin(x)
    BY <1>1, OneCall
  <1> QED
    BY <1>2 DEF c

LEMMA FourScripts ==
    ASSUME NEW s, NEW t, NEW u, NEW v, Script(s), Script(t), Script(u), Script(v)
    PROVE  Script(s \o t \o u \o v)
  BY ScriptsJoin

LEMMA PlaysAll ==
    ASSUME NEW c, c.data \in Seq(Byte)
    PROVE  /\ Script(PlaysIR(c)) /\ Script(PlaysDR(c))
           /\ player.xsdrSize \in Nat /\ Len(c.data) = bitsToBytes(player.xsdrSize) => Script(PlaysDRTDO(c))
  <1> DEFINE data == Data(c.data)
  <1>1. data.isSending = TRUE /\ data.bytes = c.data
    BY DEF Data
  <1>2. IsSequence(data.bytes)
    BY <1>1, Sequenced
  <1> HIDE DEF data
  <1>3. \A bits : Script(jtagShiftInOnly(bits, data, TRUE))
    BY <1>2, ShiftsInOnly
  <1>4. player.xsdrSize \in Nat /\ Len(c.data) = bitsToBytes(player.xsdrSize) =>
            Script(jtagShiftInOut(player.xsdrSize, data, TRUE))
    BY <1>1, <1>2, ShiftsInOut
  <1>5. Script(PlaysIR(c))
    BY <1>3, OneClocking, PlaysIdle, FourScripts DEF PlaysIR, data
  <1>6. Script(PlaysDR(c))
    BY <1>3, OneClocking, PlaysIdle, FourScripts DEF PlaysDR, data
  <1>7. player.xsdrSize \in Nat /\ Len(c.data) = bitsToBytes(player.xsdrSize) => Script(PlaysDRTDO(c))
    BY <1>4, OneClocking, PlaysIdle, FourScripts DEF PlaysDRTDO, data
  <1> QED
    BY <1>5, <1>6, <1>7

-----------------------------------------------------------------------------
(* From one stage of a session over JTAG to another.                         *)

LEMMA GoesOnPlaying ==
    ASSUME ProgramInv, stage \in JtagStages, stage' \in JtagStages, UNCHANGED <<session, verdict, microVars>>,
           Script(calls'), Playing'
    PROVE  ProgramInv'
  <1>1. UNCHANGED <<micro, fpga, driven, m_progOp>>
    BY DEF microVars, firmwareVars
  <1>2. stage' \notin {"idle", "closing", "bad config", "bad string", "releasing"} \cup XStages \cup AStages \cup WriteStages
    BY DEF JtagStages, XStages, AStages, WriteStages
  <1>3. stage # "idle" /\ verdict = "none" /\ session # NoSession /\ session.kind \in JtagKinds
    BY DEF ProgramInv, Started, Staged, JtagStages
  <1>4. Started'
    BY <1>1, <1>2, <1>3 DEF ProgramInv, Started, Asked
  <1>5. Staged'
    BY <1>2, <1>3 DEF Staged
  <1> QED
    BY <1>2, <1>3, <1>4, <1>5
       DEF ProgramInv, Clearing, Writing, Checking, LettingGo, Configured, XStages, AStages, WriteStages

\* Closing the port lets go of its pins.
LEMMA ClosesPort ==
    ASSUME NEW ports \in Seq(STRING), Len(ports) = 4
    PROVE  /\ Script(progClose(ports))
           /\ \A c \in Range(progClose(ports)) : /\ IsAccess(c) /\ ~IsBegin(c) /\ c.request.config = "PIN_INPUT"
           /\ \A pin \in Range(ports) : \E c \in Range(progClose(ports)) : LetsGo(c, pin)
  <1> DEFINE close == progClose(ports)
  <1>1. close = [i \in 1 .. 4 |-> close[i]] /\ \A i \in 1 .. 4 : close[i] = flSingleBitPortAccess(ports[i], "PIN_INPUT")
    BY DEF progClose
  <1>2. IsSequence(ports) /\ Range(ports) = {ports[i] : i \in 1 .. 4}
    BY Sequenced, Placed
  <1> HIDE DEF close
  <1>3. IsSequence(close) /\ Range(close) = {close[i] : i \in 1 .. 4}
    <2>1. 4 \in Nat
      OBVIOUS
    <2> QED
      BY <1>1, <2>1, Indexed
  <1>4. ASSUME NEW i \in 1 .. 4
        PROVE  WellMade(close[i]) /\ IsAccess(close[i]) /\ ~IsBegin(close[i]) /\ LetsGo(close[i], ports[i])
               /\ close[i].request.config = "PIN_INPUT"
    BY <1>1, AccessMade DEF LetsGo, OnPin
  <1>5. Script(close) /\ \A c \in Range(close) : IsAccess(c) /\ ~IsBegin(c) /\ c.request.config = "PIN_INPUT"
    BY <1>3, <1>4 DEF Script
  <1>6. \A pin \in Range(ports) : \E c \in Range(close) : LetsGo(c, pin)
    BY <1>2, <1>3, <1>4
  <1> QED
    BY <1>5, <1>6 DEF close

LEMMA GoesToClose ==
    ASSUME ProgramInv, stage \in JtagStages, NEW first, Script(first), UNCHANGED microVars, Playing',
           \A c \in Range(first) : ~IsAccess(c) /\ (IsBegin(c) => c.request.op # "PROG_PARALLEL"),
           Goes("closing", first \o progClose(session.ports))
    PROVE  ProgramInv'
  <1>1. UNCHANGED <<micro, fpga, driven, m_progOp, session, verdict>> /\ stage' = "closing"
        /\ calls' = first \o progClose(session.ports)
    BY DEF microVars, firmwareVars, Goes
  <1>2. stage # "idle" /\ verdict = "none" /\ session # NoSession /\ session.kind \in JtagKinds
    BY DEF ProgramInv, Started, Staged, JtagStages
  <1>3. JtagSession(session) /\ session.kind \notin Boards /\ session.kind # "pins"
    BY <1>2, JtagIs DEF ProgramInv
  <1>4. session.ports \in Seq(STRING) /\ Len(session.ports) = 4
    BY <1>3 DEF JtagSession
  <1> DEFINE close == progClose(session.ports)
  <1>5. /\ Script(close)
        /\ \A c \in Range(close) : IsAccess(c) /\ ~IsBegin(c) /\ c.request.config = "PIN_INPUT"
        /\ \A pin \in Range(session.ports) : \E c \in Range(close) : LetsGo(c, pin)
    BY <1>4, ClosesPort
  <1> HIDE DEF close
  <1>6. Script(first \o close) /\ Range(first \o close) = Range(first) \cup Range(close)
    BY <1>5, ScriptsJoin
  <1>7. Script(calls') /\ Range(calls') = Range(first) \cup Range(close)
    BY <1>1, <1>6 DEF close
  <1>9. Started'
    BY <1>1, <1>2, <1>7 DEF ProgramInv, Started, Asked
  <1>10. Staged'
    BY <1>1, <1>2 DEF Staged, JtagStages, XStages, AStages
  <1>11. LetGo(session) = Range(session.ports)
    BY <1>3 DEF LetGo
  <1>12. \A pin : \A c \in Range(calls') : ~Drives(c, pin)
    BY <1>5, <1>7 DEF Drives, OnPin
  <1>13. \A c \in Range(calls') : IsBegin(c) => c.request.op # "PROG_PARALLEL"
    BY <1>5, <1>7
  <1>14. \A pin \in LetGo(session) : \E c \in Range(calls') : LetsGo(c, pin)
    BY <1>5, <1>7, <1>11
  <1>15. LettingGo'
    BY <1>1, <1>12, <1>13, <1>14 DEF LettingGo, XStages, LetGo
  <1> QED
    BY <1>1, <1>2, <1>9, <1>10, <1>15
       DEF ProgramInv, Clearing, Writing, Checking, Configured, XStages, AStages, WriteStages

-----------------------------------------------------------------------------
(* The stages of a session over JTAG.                                        *)

LEMMA EndsStage ==
    ASSUME ProgramInv, stage # "idle", NEW status, status # "FL_SUCCESS", Ends(status), UNCHANGED microVars, Playing'
    PROVE  ProgramInv'
  <1>1. UNCHANGED <<micro, fpga>> /\ Shaped(fpga)
    BY InSession DEF microVars, firmwareVars
  <1> QED
    BY <1>1, EndsBadly

\* Success: nothing is left to be let go of.
LEMMA StepClosing ==
    ASSUME ProgramInv, closing
    PROVE  ProgramInv'
  <1>1. stage = "closing" /\ calls = <<>> /\ Ends("FL_SUCCESS") /\ UNCHANGED <<player, micro, fpga, driven, m_progOp>>
    BY DEF closing, At, playerVars, microVars, firmwareVars
  <1>2. stage' = "idle" /\ calls' = <<>> /\ verdict' = "FL_SUCCESS" /\ session' = session
    BY <1>1 DEF Ends
  <1>3. session # NoSession /\ Shaped(fpga)
    BY <1>1, InSession
  <1>4. session.kind \notin Boards
    <2>1. session.kind \in JtagKinds \cup {"pins"}
      BY <1>1 DEF ProgramInv, Staged
    <2> QED
      BY <1>3, <2>1, JtagIs, PinsIs DEF ProgramInv
  <1>5. Range(calls) = {}
    BY <1>1, NoneAtAll
  <1>6. session.kind # "pins" => /\ driven \cap LetGo(session) = {}
                                 /\ m_progOp = "PROG_PARALLEL" => "DATA" \notin LetGo(session)
    BY <1>1, <1>5 DEF ProgramInv, LettingGo
  <1>7. Configured'
    BY <1>1, <1>2, <1>4, <1>6 DEF Configured, LetGo
  <1>8. Started'
    BY <1>1, <1>2, <1>3, NoScript DEF ProgramInv, Started, Asked
  <1>9. Playing'
    BY <1>1, IdleEnds
  <1> QED
    BY <1>2, <1>7, <1>8, <1>9
       DEF ProgramInv, Staged, Clearing, Writing, Checking, LettingGo, JtagStages, XStages, AStages, WriteStages

LEMMA StepOpened ==
    ASSUME ProgramInv, opened
    PROVE  ProgramInv'
  <1>1. stage = "opened" /\ UNCHANGED <<player, microVars>>
    BY DEF opened, At, playerVars
  <1>2. PICK to, pattern, count : /\ Goes(to, <<jtagClockFSM(pattern, count)>>)
                                  /\ to = (IF session.kind = "play" THEN "playing" ELSE session.kind)
    BY DEF opened
  <1>3. session.kind \in {"play", "scan", "ones"}
    BY <1>1 DEF ProgramInv, Staged, JtagStages, JtagKinds
  <1>4. to \in {"playing", "scan", "ones"}
    BY <1>2, <1>3
  <1>5. stage \in JtagStages /\ stage' \in JtagStages /\ stage' # "comparing"
    BY <1>1, <1>2, <1>4 DEF Goes, JtagStages
  <1>6. Script(calls') /\ UNCHANGED <<session, verdict>>
    BY <1>2, OneClocking DEF Goes
  <1>7. Playing'
    BY <1>1, <1>5 DEF ProgramInv, Playing
  <1> QED
    BY <1>1, <1>5, <1>6, <1>7, GoesOnPlaying

LEMMA Unplayed ==
    ASSUME ProgramInv, stage = "playing", player.todo # <<>>
    PROVE  LET c == Head(player.todo)
           IN  /\ c \in Commands /\ Tail(player.todo) \in Seq(Commands)
               /\ c.cmd # "XSDRSIZE" => Fits(player.xsdrSize, Tail(player.todo))
               /\ c.cmd = "XSDRSIZE" => Fits(c.n, Tail(player.todo))
               /\ c.cmd \in {"XSDR", "XSDRTDO"} => Len(c.data) = bitsToBytes(player.xsdrSize)
  <1>1. player.todo \in Seq(Commands) /\ player.xsdrSize \in Nat /\ Fits(player.xsdrSize, player.todo)
    BY DEF ProgramInv, Playing, JtagStages
  <1> QED
    BY <1>1, FitsOn

PlayerFields == {"todo", "command", "xsdrSize", "xruntest", "tdoMask", "tries", "numDevices", "devices"}

LEMMA StepSet ==
    ASSUME ProgramInv, csvfSet
    PROVE  ProgramInv'
  <1> DEFINE c == Head(player.todo)
             rest == [player EXCEPT !.todo = Tail(@)]
  <1>1. stage = "playing" /\ player.todo # <<>> /\ UNCHANGED <<hostVars, microVars>>
    BY DEF csvfSet, At
  <1>2. /\ c \in Commands /\ Tail(player.todo) \in Seq(Commands)
        /\ c.cmd # "XSDRSIZE" => Fits(player.xsdrSize, Tail(player.todo))
        /\ c.cmd = "XSDRSIZE" => Fits(c.n, Tail(player.todo))
    BY <1>1, Unplayed
  <1>3. /\ c.cmd \in {"XTDOMASK", "XRUNTEST", "XSDRSIZE"}
        /\ player' = CASE c.cmd = "XTDOMASK" -> [rest EXCEPT !.tdoMask = c.data]
                       [] c.cmd = "XRUNTEST" -> [rest EXCEPT !.xruntest = c.n]
                       [] c.cmd = "XSDRSIZE" -> [rest EXCEPT !.xsdrSize = c.n]
    BY DEF csvfSet
  <1>4. DOMAIN player = PlayerFields /\ player.xsdrSize \in Nat /\ player.command.data \in Seq(Byte) /\ c.n \in Nat
    BY <1>2 DEF ProgramInv, Playing, PlayerFields, Commands
  <1> HIDE DEF c
  <1>5. DOMAIN rest = PlayerFields /\ rest.todo = Tail(player.todo) /\ rest.command = player.command /\ rest.xsdrSize = player.xsdrSize
    BY <1>4 DEF PlayerFields
  <1> HIDE DEF rest
  <1>6. /\ DOMAIN player' = PlayerFields /\ player'.todo = Tail(player.todo) /\ player'.command = player.command
        /\ player'.xsdrSize = IF c.cmd = "XSDRSIZE" THEN c.n ELSE player.xsdrSize
    <2>1. CASE c.cmd = "XTDOMASK"
      BY <1>3, <1>5, <2>1 DEF PlayerFields
    <2>2. CASE c.cmd = "XRUNTEST"
      BY <1>3, <1>5, <2>2 DEF PlayerFields
    <2>3. CASE c.cmd = "XSDRSIZE"
      BY <1>3, <1>5, <2>3 DEF PlayerFields
    <2> QED
      BY <1>3, <2>1, <2>2, <2>3
  <1>7. stage' = stage /\ UNCHANGED <<session, verdict, calls>>
    BY <1>1 DEF hostVars
  <1>8. Playing'
    BY <1>1, <1>2, <1>4, <1>6, <1>7 DEF Playing, PlayerFields
  <1>9. Script(calls') /\ stage \in JtagStages /\ stage' \in JtagStages
    BY <1>1, <1>7, InSession DEF JtagStages
  <1> QED
    BY <1>1, <1>7, <1>8, <1>9, GoesOnPlaying

LEMMA StepShift ==
    ASSUME ProgramInv, csvfShift
    PROVE  ProgramInv'
  <1> DEFINE c == Head(player.todo)
  <1>1. stage = "playing" /\ player.todo # <<>> /\ UNCHANGED microVars
    BY DEF csvfShift, At
  <1>2. /\ c \in Commands /\ Tail(player.todo) \in Seq(Commands)
        /\ c.cmd # "XSDRSIZE" => Fits(player.xsdrSize, Tail(player.todo))
        /\ c.cmd \in {"XSDR", "XSDRTDO"} => Len(c.data) = bitsToBytes(player.xsdrSize)
    BY <1>1, Unplayed
  <1>3. /\ c.cmd \in Shifts
        /\ player' = [player EXCEPT !.todo = Tail(@), !.command = c, !.tries = 0]
        /\ CASE c.cmd = "XSIR" -> Goes("playing", PlaysIR(c))
             [] c.cmd = "XSDR" -> Goes("playing", PlaysDR(c))
             [] c.cmd = "XSDRTDO" -> Goes("comparing", PlaysDRTDO(c))
    BY DEF csvfShift
  <1>4. DOMAIN player = PlayerFields /\ player.xsdrSize \in Nat /\ c.data \in Seq(Byte)
    BY <1>2 DEF ProgramInv, Playing, PlayerFields, Commands
  <1> HIDE DEF c
  <1>5. DOMAIN player' = PlayerFields /\ player'.todo = Tail(player.todo) /\ player'.command = c /\ player'.xsdrSize = player.xsdrSize
    BY <1>3, <1>4 DEF PlayerFields
  <1>6. /\ Script(PlaysIR(c)) /\ Script(PlaysDR(c))
        /\ Len(c.data) = bitsToBytes(player.xsdrSize) => Script(PlaysDRTDO(c))
    BY <1>4, PlaysAll
  <1>7. UNCHANGED <<session, verdict>> /\ stage' \in {"playing", "comparing"} /\ Script(calls')
        /\ (stage' = "comparing" => c.cmd = "XSDRTDO")
    <2>1. CASE c.cmd = "XSIR"
      BY <1>3, <1>6, <2>1 DEF Goes
    <2>2. CASE c.cmd = "XSDR"
      BY <1>3, <1>6, <2>2 DEF Goes
    <2>3. CASE c.cmd = "XSDRTDO"
      BY <1>2, <1>3, <1>6, <2>3 DEF Goes
    <2> QED
      BY <1>3, <2>1, <2>2, <2>3 DEF Shifts
  <1>8. c.cmd # "XSDRSIZE"
    BY <1>3 DEF Shifts
  <1>9. Playing'
    BY <1>2, <1>4, <1>5, <1>7, <1>8 DEF Playing, PlayerFields
  <1>10. stage \in JtagStages /\ stage' \in JtagStages
    BY <1>1, <1>7 DEF JtagStages
  <1> QED
    BY <1>1, <1>7, <1>9, <1>10, GoesOnPlaying

LEMMA StepCompare ==
    ASSUME ProgramInv, csvfCompare
    PROVE  ProgramInv'
  <1> DEFINE c == player.command
  <1>1. stage = "comparing" /\ UNCHANGED microVars /\ player' = [player EXCEPT !.tries = player.tries + 1]
    BY DEF csvfCompare, At
  <1>2. /\ DOMAIN player = PlayerFields /\ player.todo \in Seq(Commands) /\ c.data \in Seq(Byte) /\ player.xsdrSize \in Nat
        /\ Fits(player.xsdrSize, player.todo) /\ Len(c.data) = bitsToBytes(player.xsdrSize)
    BY <1>1 DEF ProgramInv, Playing, PlayerFields, JtagStages
  <1>3. DOMAIN player' = PlayerFields /\ player'.todo = player.todo /\ player'.command = c /\ player'.xsdrSize = player.xsdrSize
    BY <1>1, <1>2 DEF PlayerFields
  <1>4. Playing'
    BY <1>2, <1>3 DEF Playing, PlayerFields
  <1>5. Script(PlaysDRTDO(c))
    BY <1>2, PlaysAll
  <1> HIDE DEF c
  <1>6. CASE Goes("comparing", PlaysDRTDO(c)) \/ Goes("playing", <<>>)
    <2>1. UNCHANGED <<session, verdict>> /\ stage' \in {"comparing", "playing"} /\ Script(calls')
      BY <1>5, <1>6, NoScript DEF Goes
    <2>2. stage \in JtagStages /\ stage' \in JtagStages
      BY <1>1, <2>1 DEF JtagStages
    <2> QED
      BY <1>1, <1>4, <2>1, <2>2, GoesOnPlaying
  <1>7. CASE Ends("FL_PROG_SVF_COMPARE")
    BY <1>1, <1>4, <1>7, EndsStage
  <1> QED
    BY <1>6, <1>7 DEF csvfCompare, c

LEMMA ClosesAtOnce ==
    ASSUME ProgramInv, stage \in JtagStages, UNCHANGED microVars, Playing', Goes("closing", progClose(session.ports))
    PROVE  ProgramInv'
  <1>1. session # NoSession /\ session.kind \in JtagKinds
    BY InSession DEF ProgramInv, Staged, JtagStages
  <1>2. session.ports \in Seq(STRING) /\ Len(session.ports) = 4
    BY <1>1, JtagIs DEF ProgramInv, JtagSession
  <1>3. IsSequence(progClose(session.ports))
    BY <1>2, ClosesPort DEF Script
  <1>4. progClose(session.ports) = <<>> \o progClose(session.ports)
    BY <1>3, ConcatEmptySeq DEF IsSequence
  <1>5. Goes("closing", <<>> \o progClose(session.ports))
    BY <1>4
  <1> QED
    BY <1>5, NoScript, GoesToClose

LEMMA StepScan ==
    ASSUME ProgramInv, scanChain
    PROVE  ProgramInv'
  <1>1. stage = "scan" /\ stage \in JtagStages /\ UNCHANGED microVars
    BY DEF scanChain, At, JtagStages
  <1>2. /\ DOMAIN player = PlayerFields /\ player.todo \in Seq(Commands) /\ player.command.data \in Seq(Byte)
        /\ player.xsdrSize \in Nat /\ Fits(player.xsdrSize, player.todo)
    BY <1>1 DEF ProgramInv, Playing, PlayerFields
  <1>3. /\ DOMAIN player' = PlayerFields /\ player'.todo = player.todo
        /\ player'.command = player.command /\ player'.xsdrSize = player.xsdrSize
    <2>1. CASE UNCHANGED player
      BY <1>2, <2>1
    <2>2. CASE player' = [player EXCEPT !.devices = Reverse(@)]
      BY <1>2, <2>2 DEF PlayerFields
    <2>3. CASE player' = [player EXCEPT !.numDevices = @ + 1,
                                        !.devices = IF Len(@) < ArraySize THEN Append(@, received) ELSE @]
      BY <1>2, <2>3 DEF PlayerFields
    <2> QED
      BY <2>1, <2>2, <2>3 DEF scanChain
  <1>4. CASE Goes("scan", ScanId)
    <2>1. Script(ScanId)
      <3> DEFINE zeros == SHIFT_ZEROS
      <3>1. IsSequence(zeros.bytes) /\ zeros.isSending = FALSE
        BY NoneAtAll DEF SHIFT_ZEROS
      <3>2. IdBytes * ByteBits \in Nat
        BY ByteAssumption, LimitsAssumption
      <3>3. PICK numBits \in Nat : numBits = IdBytes * ByteBits
        BY <3>2
      <3> HIDE DEF zeros
      <3>4. Script(jtagShiftInOut(numBits, zeros, FALSE))
        BY <3>1, ShiftsInOut
      <3> QED
        BY <3>3, <3>4 DEF ScanId, zeros
    <2>2. UNCHANGED <<session, verdict>> /\ stage' = "scan" /\ Script(calls')
      BY <1>4, <2>1 DEF Goes
    <2>3. Playing'
      BY <1>2, <1>3, <2>2 DEF Playing, PlayerFields
    <2> QED
      BY <1>1, <2>2, <2>3, GoesOnPlaying
  <1>5. CASE Goes("closing", progClose(session.ports))
    <2>1. stage' \notin JtagStages /\ stage' # "comparing"
      BY <1>5 DEF Goes, JtagStages
    <2>2. Playing'
      BY <1>2, <1>3, <2>1 DEF Playing, PlayerFields
    <2> QED
      BY <1>1, <1>5, <2>2, ClosesAtOnce
  <1> QED
    BY <1>4, <1>5 DEF scanChain

LEMMA StepComplete ==
    ASSUME ProgramInv, csvfComplete
    PROVE  ProgramInv'
  <1>1. stage = "playing" /\ UNCHANGED <<player, microVars>> /\ Goes("closing", progClose(session.ports))
    BY DEF csvfComplete, At, playerVars
  <1>2. stage \in JtagStages /\ stage' \notin JtagStages
    BY <1>1 DEF Goes, JtagStages
  <1> QED
    BY <1>1, <1>2, PlayingStays, ClosesAtOnce

LEMMA StepOnes ==
    ASSUME ProgramInv, shiftsOnes
    PROVE  ProgramInv'
  <1> DEFINE begin == beginShift(session.numBits, "PROG_JTAG_NOTSENDING_NOTRECEIVING", TRUE, TRUE)
             clocks == jtagClockFSM(1, 2)
             first == <<begin>> \o <<clocks>>
  <1>1. jtagShiftInOnly(session.numBits, SHIFT_ONES, TRUE) = <<begin>>
    <2>1. SHIFT_ONES.isSending = FALSE /\ SHIFT_ONES.ones = TRUE
      BY DEF SHIFT_ONES
    <2> QED
      BY <2>1 DEF jtagShiftInOnly
  <1>2. stage = "ones" /\ UNCHANGED <<player, microVars>> /\ Goes("closing", first \o progClose(session.ports))
    <2>1. /\ stage = "ones" /\ UNCHANGED <<player, microVars>>
          /\ Goes("closing", jtagShiftInOnly(session.numBits, SHIFT_ONES, TRUE) \o <<clocks>> \o progClose(session.ports))
      BY DEF shiftsOnes, At, playerVars
    <2>2. first = jtagShiftInOnly(session.numBits, SHIFT_ONES, TRUE) \o <<clocks>>
      <3> HIDE DEF begin, clocks
      <3> QED
        BY <1>1
    <2> HIDE DEF first, begin, clocks
    <2> QED
      BY <2>1, <2>2 DEF Goes
  <1>3. WellMade(begin) /\ Plain(begin) /\ begin.request.op = "PROG_JTAG_NOTSENDING_NOTRECEIVING"
    BY DEF beginShift, Control, WellMade, Plain, IsAccess, Keeps, IsBegin
  <1>4. WellMade(clocks) /\ Plain(clocks) /\ ~IsBegin(clocks)
    BY PlainMade
  <1> HIDE DEF begin, clocks
  <1>5. Script(first) /\ Range(first) = {begin, clocks}
    <2>1. Script(<<begin>>) /\ Range(<<begin>>) = {begin} /\ Script(<<clocks>>) /\ Range(<<clocks>>) = {clocks}
      BY <1>3, <1>4, OneCall
    <2>2. Script(<<begin>> \o <<clocks>>) /\ Range(<<begin>> \o <<clocks>>) = Range(<<begin>>) \cup Range(<<clocks>>)
      BY <2>1, ScriptsJoin
    <2> QED
      BY <2>1, <2>2
  <1> HIDE DEF first
  <1>6. \A c \in Range(first) : ~IsAccess(c) /\ (IsBegin(c) => c.request.op # "PROG_PARALLEL")
    BY <1>3, <1>4, <1>5 DEF Plain
  <1>7. stage \in JtagStages /\ stage' \notin JtagStages
    BY <1>2 DEF Goes, JtagStages
  <1>8. Playing'
    BY <1>2, <1>7, PlayingStays
  <1> QED
    BY <1>2, <1>5, <1>6, <1>7, <1>8, GoesToClose

LEMMA StepPlayer ==
    ASSUME ProgramInv, playerStep
    PROVE  ProgramInv'
  <1>1. ASSUME badConfig PROVE ProgramInv'
    <2>1. stage # "idle" /\ Ends("FL_CONF_FORMAT") /\ UNCHANGED <<player, microVars>>
      BY <1>1 DEF badConfig, At, playerVars
    <2>2. Playing'
      BY <2>1, IdleEnds
    <2> QED
      BY <2>1, <2>2, EndsStage
  <1>2. ASSUME csvfUnknown PROVE ProgramInv'
    <2>1. stage # "idle" /\ Ends("FL_PROG_SVF_UNKNOWN_CMD") /\ UNCHANGED <<player, microVars>>
      BY <1>2 DEF csvfUnknown, At, playerVars
    <2>2. Playing'
      BY <2>1, IdleEnds
    <2> QED
      BY <2>1, <2>2, EndsStage
  <1> QED
    BY <1>1, <1>2, StepOpened, StepClosing, StepSet, StepShift, StepCompare, StepComplete, StepScan, StepOnes DEF playerStep

-----------------------------------------------------------------------------
(* The stages of xProgram and aProgram.                                      *)

LEMMA SlaveStage ==
    ASSUME ProgramInv, stage \in {"releasing"} \cup XStages \cup AStages
    PROVE  /\ session # NoSession /\ verdict = "none" /\ Shaped(fpga)
           /\ session.kind \in Boards /\ session.kind \in SlaveKinds /\ session.kind = fpga.board
           /\ SlaveSession(session) /\ ParsesAll(session)
           /\ progPin(session) = "PROG" /\ donePin(session) = "DONE"
           /\ session.kind # "AS" => initPin(session) = "INIT"
  <1>1. stage # "idle"
    BY DEF XStages, AStages
  <1>2. session # NoSession /\ verdict = "none" /\ Shaped(fpga)
    BY <1>1, InSession
  <1>3. session.kind \in Boards /\ ParsesAll(session)
    BY DEF ProgramInv, Staged
  <1>4. session.kind = fpga.board /\ session.kind \in SlaveKinds /\ SlaveSession(session)
    BY <1>2, <1>3, SlaveIs DEF ProgramInv
  <1>5. progPin(session) = "PROG" /\ donePin(session) = "DONE" /\ (session.kind # "AS" => initPin(session) = "INIT")
    BY <1>3, <1>4 DEF SlaveSession
  <1> QED
    BY <1>2, <1>3, <1>4, <1>5

LEMMA SlaveGoes ==
    ASSUME ProgramInv, stage \in XStages \cup AStages, UNCHANGED <<player, microVars>>, NEW to, NEW next, Goes(to, next),
           Script(next), Clearing', Writing', Checking', LettingGo',
           \/ to \in XStages \cup {"releasing"} /\ stage \in XStages
           \/ to \in AStages \cup {"releasing"} /\ stage \in AStages
    PROVE  ProgramInv'
  <1>1. stage' = to /\ calls' = next /\ UNCHANGED <<session, verdict>> /\ UNCHANGED <<micro, fpga>>
    BY DEF Goes, microVars, firmwareVars
  <1>2. session # NoSession /\ verdict = "none" /\ Shaped(fpga) /\ session.kind \in Boards /\ ParsesAll(session)
    BY SlaveStage
  <1>3. to \notin JtagStages \cup {"idle", "closing", "bad config", "bad string"}
    BY DEF XStages, AStages, JtagStages
  <1>4. XStages \cap AStages = {}
    BY DEF XStages, AStages
  <1>5. stage \in XStages => session.kind # "AS"
    BY DEF ProgramInv, Staged
  <1>6. stage \in AStages => session.kind = "AS"
    BY DEF ProgramInv, Staged
  <1>7. Started'
    BY <1>1, <1>2, <1>3 DEF ProgramInv, Started, Asked
  <1>8. Staged'
    BY <1>1, <1>2, <1>3, <1>4, <1>5, <1>6 DEF Staged, ParsesAll, Roles, XStages, AStages
  <1>9. Playing'
    BY <1>1, <1>3, PlayingStays
  <1>10. Configured'
    BY <1>1, <1>2 DEF Configured
  <1> QED
    BY <1>7, <1>8, <1>9, <1>10 DEF ProgramInv

\* What the calls of these functions are.
LEMMA ConduitMade ==
    WellMade(flSelectConduit) /\ Plain(flSelectConduit) /\ ~IsBegin(flSelectConduit)
  BY PlainMade

LEMMA ReadsMade ==
    ASSUME donePin(session) = "DONE", initPin(session) = "INIT"
    PROVE  /\ Script(ReadsBoth) /\ Len(ReadsBoth) = 2
           /\ Reads(ReadsBoth[1], "INIT") /\ Reads(ReadsBoth[2], "DONE")
           /\ \A c \in Range(ReadsBoth) : c.call = "control" /\ ~IsBegin(c) /\ (Reads(c, "INIT") \/ Reads(c, "DONE"))
  <1> DEFINE a == readPin(initPin(session))
             b == readPin(donePin(session))
  <1>1. WellMade(a) /\ Reads(a, "INIT") /\ ~IsBegin(a) /\ a.call = "control"
    BY ReadMade
  <1>2. WellMade(b) /\ Reads(b, "DONE") /\ ~IsBegin(b) /\ b.call = "control"
    BY ReadMade
  <1>3. ReadsBoth = <<a, b>>
    BY DEF ReadsBoth
  <1> HIDE DEF a, b
  <1>4. IsSequence(<<a, b>>) /\ Range(<<a, b>>) = {a, b} /\ Len(<<a, b>>) = 2 /\ <<a, b>>[1] = a /\ <<a, b>>[2] = b
    BY TwoElements
  <1> QED
    BY <1>1, <1>2, <1>3, <1>4 DEF Script

LEMMA ReleasesMade ==
    ASSUME progPin(session) = "PROG", initPin(session) = "INIT"
    PROVE  /\ Script(Releases)
           /\ \A c \in Range(Releases) : ~Tells(c) /\ ~Drives(c, "INIT") /\ ~Drives(c, "DONE")
  <1> DEFINE a == flSingleBitPortAccess(progPin(session), "PIN_HIGH")
             b == readPin(initPin(session))
  <1>1. WellMade(a) /\ IsAccess(a) /\ a.request.pin = "PROG" /\ a.request.config = "PIN_HIGH"
    BY AccessMade
  <1>2. WellMade(b) /\ Reads(b, "INIT")
    BY ReadMade
  <1>3. Releases = <<a, b>>
    BY DEF Releases
  <1> HIDE DEF a, b
  <1>4. IsSequence(<<a, b>>) /\ Range(<<a, b>>) = {a, b}
    BY TwoElements
  <1>5. ~Tells(a) /\ ~Drives(a, "INIT") /\ ~Drives(a, "DONE")
    BY <1>1 DEF Tells, Drives, OnPin
  <1>6. ~Tells(b) /\ ~Drives(b, "INIT") /\ ~Drives(b, "DONE")
    BY <1>2 DEF Tells, Drives, OnPin, Reads, LetsGo
  <1> QED
    BY <1>1, <1>2, <1>3, <1>4, <1>5, <1>6 DEF Script

LEMMA PlainTouchesNothing ==
    ASSUME NEW c, Plain(c)
    PROVE  ~Tells(c) /\ c.call # "receive" /\ ~Keeps(c) /\ \A pin : ~Drives(c, pin) /\ ~OnPin(c, pin)
  BY DEF Plain, Tells, Drives, OnPin

LEMMA ReadTouchesNothing ==
    ASSUME NEW c, Reads(c, "INIT") \/ Reads(c, "DONE")
    PROVE  ~Tells(c) /\ ~OnPin(c, "PROG") /\ c.call # "receive" /\ \A pin : ~Drives(c, pin)
  BY DEF Reads, Keeps, LetsGo, OnPin, Tells, Drives

\* Nothing drives INIT or DONE while xProgram runs, and with no call left
\* nothing is driven.
LEMMA LeavesThem ==
    ASSUME ProgramInv, stage \in XStages, calls = <<>>
    PROVE  "INIT" \notin driven /\ "DONE" \notin driven
  <1>1. Range(calls) = {}
    BY NoneAtAll
  <1> QED
    BY <1>1 DEF ProgramInv, LettingGo

LEMMA StepClearing ==
    ASSUME ProgramInv, clearing, UNCHANGED player
    PROVE  ProgramInv'
  <1>1. stage = "clearing" /\ calls = <<>> /\ UNCHANGED <<player, microVars>>
    BY DEF clearing, Arrived, Keep
  <1>2. stage \in XStages /\ stage # "idle"
    BY <1>1 DEF XStages
  <1>3. UNCHANGED <<fpga, driven, m_progOp>>
    BY <1>1 DEF microVars, firmwareVars
  <1>4. Range(calls) = {} /\ Len(calls) = 0
    BY <1>1, NoneAtAll
  <1>5. fpga.phase \in {"told", "cleared"} /\ fpga.progLow = TRUE /\ \A x \in Range(received) : x = 0 => fpga.phase = "cleared"
    BY <1>1, <1>4 DEF ProgramInv, Clearing
  <1>6. /\ SlaveSession(session) /\ ParsesAll(session) /\ session.kind \in SlaveKinds /\ session.kind # "AS"
        /\ progPin(session) = "PROG" /\ donePin(session) = "DONE" /\ initPin(session) = "INIT"
    BY <1>2, SlaveStage DEF ProgramInv, Staged
  <1>7. "INIT" \notin driven /\ "DONE" \notin driven
    BY <1>1, <1>2, LeavesThem
  <1>8. CASE received = <<0, 0>>
    <2> DEFINE first == <<flSelectConduit>> \o OutputPins
               next == first \o Releases
    <2>1. Goes("starting", next)
      BY <1>8 DEF clearing
    <2>2. fpga.phase = "cleared"
      <3>1. 0 \in Range(<<0, 0>>)
        BY TwoElements
      <3> QED
        BY <1>5, <1>8, <3>1
    <2>3. Script(OutputPins) /\ \A c \in Range(OutputPins) : IsAccess(c) /\ c.request.pin \notin {"PROG", "INIT", "DONE"}
      BY <1>6, Outputs DEF Kept
    <2>4. Script(<<flSelectConduit>>) /\ Range(<<flSelectConduit>>) = {flSelectConduit} /\ Plain(flSelectConduit)
      BY ConduitMade, OneCall
    <2>5. Script(first) /\ Range(first) = {flSelectConduit} \cup Range(OutputPins)
      BY <2>3, <2>4, ScriptsJoin
    <2>6. Script(Releases) /\ \A c \in Range(Releases) : ~Tells(c) /\ ~Drives(c, "INIT") /\ ~Drives(c, "DONE")
      BY <1>6, ReleasesMade
    <2> HIDE DEF first
    <2>7. Script(next) /\ Range(next) = Range(first) \cup Range(Releases)
      BY <2>5, <2>6, ScriptsJoin
    <2> HIDE DEF next
    <2>8. ASSUME NEW c \in Range(next) PROVE ~Tells(c) /\ ~Drives(c, "INIT") /\ ~Drives(c, "DONE")
      <3>1. CASE c = flSelectConduit
        BY <2>4, <3>1, PlainTouchesNothing
      <3>2. CASE c \in Range(OutputPins)
        BY <2>3, <3>2 DEF Tells, Drives, OnPin
      <3>3. CASE c \in Range(Releases)
        BY <2>6, <3>3
      <3> QED
        BY <2>5, <2>7, <3>1, <3>2, <3>3
    <2>9. stage' = "starting" /\ calls' = next
      BY <2>1 DEF Goes
    <2>10. Clearing' /\ Checking'
      BY <2>9 DEF Clearing, Checking
    <2>11. Writing'
      BY <1>3, <2>2, <2>8, <2>9 DEF Writing, WriteStages, Sound
    <2>12. LettingGo'
      BY <1>3, <1>7, <2>8, <2>9 DEF LettingGo
    <2> QED
      BY <1>1, <1>2, <2>1, <2>7, <2>9, <2>10, <2>11, <2>12, SlaveGoes DEF XStages
  <1>9. CASE received # <<0, 0>>
    <2>1. Goes("clearing", ReadsBoth)
      BY <1>9 DEF clearing
    <2>2. /\ Script(ReadsBoth)
          /\ \A c \in Range(ReadsBoth) : c.call = "control" /\ (Reads(c, "INIT") \/ Reads(c, "DONE"))
      BY <1>6, ReadsMade
    <2>3. stage' = "clearing" /\ calls' = ReadsBoth /\ received' = <<>>
      BY <2>1 DEF Goes
    <2>4. \A c \in Range(calls') : ~OnPin(c, "PROG") /\ c.call # "receive" /\ \A pin : ~Drives(c, pin)
      BY <2>2, <2>3, ReadTouchesNothing
    <2>5. \A c \in Range(calls') : Keeps(c) => Reads(c, "INIT") \/ Reads(c, "DONE")
      BY <2>2, <2>3
    <2>6. Clearing'
      BY <1>3, <1>5, <2>3, <2>4, <2>5, NoneAtAll DEF Clearing
    <2>7. Writing' /\ Checking'
      BY <2>3 DEF Writing, Checking, WriteStages
    <2>8. LettingGo'
      BY <1>3, <1>7, <2>3, <2>4 DEF LettingGo
    <2> QED
      BY <1>1, <1>2, <2>1, <2>2, <2>3, <2>6, <2>7, <2>8, SlaveGoes
  <1> QED
    BY <1>8, <1>9

\* Bytes and then the two pins.
LEMMA WritesThenReads ==
    ASSUME NEW bytes, IsSequence(bytes), donePin(session) = "DONE", initPin(session) = "INIT"
    PROVE  LET cs == Written(bytes) \o ReadsBoth
               n == Len(cs)
           IN  /\ Script(cs) /\ n \in Nat /\ n >= 2
               /\ \A i \in 1 .. n - 2 : ~Keeps(cs[i])
               /\ Keeps(cs[n - 1]) /\ Reads(cs[n], "DONE")
               /\ \A c \in Range(cs) : ~Tells(c) /\ c.call # "receive" /\ \A pin : ~Drives(c, pin)
  <1> DEFINE w == Written(bytes)
             cs == w \o ReadsBoth
             n == Len(cs)
  <1>1. Script(w) /\ \A c \in Range(w) : Plain(c)
    BY Writes
  <1>2. /\ Script(ReadsBoth) /\ Len(ReadsBoth) = 2
        /\ Reads(ReadsBoth[1], "INIT") /\ Reads(ReadsBoth[2], "DONE")
        /\ \A c \in Range(ReadsBoth) : Reads(c, "INIT") \/ Reads(c, "DONE")
    BY ReadsMade
  <1> HIDE DEF w
  <1>3. Script(cs) /\ Range(cs) = Range(w) \cup Range(ReadsBoth)
    BY <1>1, <1>2, ScriptsJoin
  <1>4. IsSequence(w) /\ IsSequence(ReadsBoth)
    BY <1>1, <1>2 DEF Script
  <1>5. /\ Len(w) \in Nat /\ Len(cs) = Len(w) + 2
        /\ \A i \in 1 .. Len(w) : cs[i] = w[i] /\ w[i] \in Range(w)
        /\ \A i \in 1 .. 2 : cs[Len(w) + i] = ReadsBoth[i]
    <2>1. PICK u, v : u = w /\ v = ReadsBoth
      OBVIOUS
    <2>2. IsSequence(u) /\ IsSequence(v)
      BY <1>4, <2>1
    <2>3. /\ Len(u \o v) = Len(u) + Len(v)
          /\ \A i \in 1 .. Len(u) : (u \o v)[i] = u[i]
          /\ \A i \in 1 .. Len(v) : (u \o v)[Len(u) + i] = v[i]
      BY <2>2, Joined
    <2>4. Len(u) \in Nat /\ \A i \in 1 .. Len(u) : u[i] \in Range(u)
      BY <2>2, Placed
    <2> QED
      BY <1>2, <2>1, <2>3, <2>4
  <1> HIDE DEF cs
  <1>6. n \in Nat /\ n >= 2 /\ Len(w) = n - 2 /\ cs[n - 1] = ReadsBoth[1] /\ cs[n] = ReadsBoth[2]
    <2>1. Len(w) + 1 = n - 1 /\ Len(w) + 2 = n
      BY <1>5
    <2> QED
      BY <1>5, <2>1
  <1> HIDE DEF n
  <1>7. \A i \in 1 .. n - 2 : ~Keeps(cs[i])
    BY <1>1, <1>5, <1>6, PlainTouchesNothing
  <1>8. Keeps(cs[n - 1]) /\ Reads(cs[n], "DONE")
    BY <1>2, <1>6 DEF Reads
  <1>9. \A c \in Range(cs) : ~Tells(c) /\ c.call # "receive" /\ \A pin : ~Drives(c, pin)
    BY <1>1, <1>2, <1>3, PlainTouchesNothing, ReadTouchesNothing
  <1> QED
    BY <1>3, <1>6, <1>7, <1>8, <1>9 DEF n, cs, w

\* To the writing of bytes behind which the pins are looked at.
LEMMA GoesToCheck ==
    ASSUME ProgramInv, stage \in {"starting", "checking"}, calls = <<>>, UNCHANGED <<player, microVars>>,
           NEW bytes, IsSequence(bytes), Goes("checking", Written(bytes) \o ReadsBoth)
    PROVE  ProgramInv'
  <1>1. stage \in XStages
    BY DEF XStages
  <1>2. UNCHANGED <<fpga, driven, m_progOp>>
    BY DEF microVars, firmwareVars
  <1>3. donePin(session) = "DONE" /\ initPin(session) = "INIT"
    BY <1>1, SlaveStage DEF ProgramInv, Staged
  <1>4. PICK next : next = Written(bytes) \o ReadsBoth
    OBVIOUS
  <1>5. /\ Script(next) /\ Len(next) \in Nat /\ Len(next) >= 2
        /\ \A i \in 1 .. Len(next) - 2 : ~Keeps(next[i])
        /\ Keeps(next[Len(next) - 1]) /\ Reads(next[Len(next)], "DONE")
        /\ \A c \in Range(next) : ~Tells(c) /\ c.call # "receive" /\ \A pin : ~Drives(c, pin)
    BY <1>3, <1>4, WritesThenReads
  <1>6. stage' = "checking" /\ calls' = next /\ received' = <<>>
    BY <1>4 DEF Goes
  <1>7. Goes("checking", next)
    BY <1>4 DEF Goes
  <1>8. Sound(fpga)
    BY DEF ProgramInv, Writing, WriteStages
  <1>9. Writing'
    BY <1>2, <1>5, <1>6, <1>8 DEF Writing, WriteStages, Sound, Right
  <1>10. Clearing'
    BY <1>6 DEF Clearing
  <1>11. Checking'
    <2> DEFINE n == Len(next)
    <2>1. IsSequence(received') /\ Len(received') = 0
      BY <1>6, NoneAtAll
    <2>2. n \in Nat /\ n >= 2 - 0 /\ \A i \in 1 .. n - (2 - 0) : i \in 1 .. n - 2
      BY <1>5
    <2>3. \A i \in 1 .. n - (2 - 0) : ~Keeps(next[i])
      BY <1>5, <2>2
    <2> QED
      BY <1>5, <1>6, <2>1, <2>2, <2>3 DEF Checking
  <1>12. "INIT" \notin driven /\ "DONE" \notin driven
    BY <1>1, LeavesThem
  <1>13. LettingGo'
    BY <1>2, <1>5, <1>6, <1>12 DEF LettingGo
  <1> QED
    BY <1>1, <1>5, <1>7, <1>9, <1>10, <1>11, <1>13, SlaveGoes DEF XStages

LEMMA StepStarting ==
    ASSUME ProgramInv, starting, UNCHANGED player
    PROVE  ProgramInv'
  <1>1. stage = "starting" /\ calls = <<>> /\ UNCHANGED microVars
    BY DEF starting, Arrived, Keep
  <1>2. stage \in XStages
    BY <1>1 DEF XStages
  <1>3. UNCHANGED <<fpga, driven, m_progOp>>
    BY <1>1 DEF microVars, firmwareVars
  <1>4. SlaveSession(session) /\ initPin(session) = "INIT"
    BY <1>2, SlaveStage DEF ProgramInv, Staged
  <1>5. CASE Goes("checking", Written(session.file) \o ReadsBoth)
    <2>1. IsSequence(session.file)
      BY <1>4, Sequenced DEF SlaveSession
    <2> QED
      BY <1>1, <1>5, <2>1, GoesToCheck
  <1>6. CASE Goes("starting", <<readPin(initPin(session))>>)
    <2> DEFINE c == readPin(initPin(session))
               next == <<c>>
    <2>1. WellMade(c) /\ Reads(c, "INIT")
      BY <1>4, ReadMade
    <2> HIDE DEF c
    <2>2. Script(<<c>>) /\ Range(<<c>>) = {c}
      BY <2>1, OneCall
    <2> HIDE DEF next
    <2>3. Script(next) /\ \A x \in Range(next) : ~Tells(x) /\ \A pin : ~Drives(x, pin)
      BY <2>1, <2>2, ReadTouchesNothing DEF next
    <2>4. stage' = "starting" /\ calls' = next /\ Goes("starting", next)
      BY <1>6 DEF Goes, next, c
    <2>5. Sound(fpga)
      BY <1>1 DEF ProgramInv, Writing, WriteStages
    <2>6. Writing'
      BY <1>3, <2>3, <2>4, <2>5 DEF Writing, WriteStages, Sound, Right
    <2>7. Clearing' /\ Checking'
      BY <2>4 DEF Clearing, Checking
    <2>8. "INIT" \notin driven /\ "DONE" \notin driven
      BY <1>1, <1>2, LeavesThem
    <2>9. LettingGo'
      BY <1>3, <2>3, <2>4, <2>8 DEF LettingGo
    <2> QED
      BY <1>1, <1>2, <2>3, <2>4, <2>6, <2>7, <2>9, SlaveGoes
  <1> QED
    BY <1>5, <1>6 DEF starting

\* It runs: all pins but PROG are let go of.
LEMMA GoesToRelease ==
    ASSUME ProgramInv, stage \in {"checking", "a checking"}, calls = <<>>, fpga.phase = "running",
           UNCHANGED <<player, microVars>>, Goes("releasing", InputPins)
    PROVE  ProgramInv'
  <1>1. stage \in XStages \cup AStages /\ (stage = "checking" => stage \in XStages) /\ (stage = "a checking" => stage \in AStages)
    BY DEF XStages, AStages
  <1>2. UNCHANGED <<fpga, driven, m_progOp, session>> /\ stage' = "releasing" /\ calls' = InputPins
    BY DEF microVars, firmwareVars, Goes
  <1>3. /\ SlaveSession(session) /\ ParsesAll(session) /\ session.kind \in SlaveKinds /\ session.kind \in Boards
        /\ progPin(session) = "PROG" /\ donePin(session) = "DONE" /\ (session.kind # "AS" => initPin(session) = "INIT")
    BY <1>1, SlaveStage
  <1>4. /\ Script(InputPins)
        /\ \A c \in Range(InputPins) : /\ IsAccess(c) /\ c.call = "control" /\ ~IsBegin(c)
                                       /\ c.request.config = "PIN_INPUT"
        /\ \A entry \in Range(pinMap(session)) :
               entry.pin \notin Kept(session) => \E c \in Range(InputPins) : LetsGo(c, entry.pin)
    BY <1>3, Inputs
  <1>5. \A c \in Range(InputPins) : ~Tells(c) /\ \A pin : ~Drives(c, pin)
    BY <1>4 DEF Tells, Drives, OnPin
  <1>6. "DATA" \notin Kept(session) /\ (session.kind = "AS" => Kept(session) = {"PROG"})
        /\ (session.kind # "AS" => Kept(session) = {"PROG", "INIT", "DONE"})
    BY <1>3 DEF Kept
  <1>7. ASSUME NEW pin \in LetGo(session)
        PROVE  pin # "PROG" /\ (pin \notin Kept(session) => \E c \in Range(InputPins) : LetsGo(c, pin))
    BY <1>3, <1>4 DEF LetGo
  <1>8. ASSUME NEW pin \in LetGo(session), pin \in driven
        PROVE  \E c \in Range(InputPins) : LetsGo(c, pin)
    <2>1. CASE session.kind = "AS"
      BY <1>6, <1>7, <2>1
    <2>2. CASE session.kind # "AS"
      <3>1. stage \in XStages
        BY <1>1, <2>2 DEF ProgramInv, Staged
      <3>2. pin # "INIT" /\ pin # "DONE"
        BY <1>8, <3>1, LeavesThem
      <3> QED
        BY <1>6, <1>7, <2>2, <3>2
    <2> QED
      BY <2>1, <2>2
  <1>9. Sound(fpga)
    BY DEF ProgramInv, Writing, WriteStages
  <1>10. Writing'
    BY <1>2, <1>5, <1>9 DEF Writing, WriteStages, Sound, Right
  <1>11. Clearing' /\ Checking'
    BY <1>2 DEF Clearing, Checking
  <1>12. "DATA" \in LetGo(session) => \E c \in Range(InputPins) : LetsGo(c, "DATA")
    BY <1>6, <1>7
  <1>13. LetGo(session)' = LetGo(session)
    BY <1>2 DEF LetGo
  <1>14. LettingGo'
    BY <1>2, <1>4, <1>5, <1>8, <1>12, <1>13 DEF LettingGo, XStages
  <1> QED
    BY <1>1, <1>4, <1>10, <1>11, <1>14, SlaveGoes

LEMMA StepChecking ==
    ASSUME ProgramInv, checking, UNCHANGED player
    PROVE  ProgramInv'
  <1>1. stage = "checking" /\ calls = <<>> /\ UNCHANGED microVars
    BY DEF checking, Arrived
  <1>2. stage \in XStages /\ stage # "idle"
    BY <1>1 DEF XStages
  <1>3. CASE received[2] = 1 /\ Goes("releasing", InputPins)
    <2>1. fpga.phase = "running"
      <3>1. Len(calls) = 0
        BY <1>1, NoneAtAll
      <3>2. IsSequence(received) /\ Len(received) <= 2 /\ 0 >= 2 - Len(received)
            /\ (Len(received) = 2 /\ received[2] = 1 => fpga.phase = "running")
        BY <1>1, <3>1 DEF ProgramInv, Checking
      <3>3. PICK r \in Nat : r = Len(received)
        BY <3>2, Placed
      <3>4. r = 2
        BY <3>2, <3>3
      <3> QED
        BY <1>3, <3>2, <3>3, <3>4
    <2> QED
      BY <1>1, <1>3, <2>1, GoesToRelease
  <1>4. CASE Goes("checking", Written(Constant(0, BlockBytes)) \o ReadsBoth)
    <2>1. IsSequence(Constant(0, BlockBytes))
      <3>1. BlockBytes \in Nat
        BY LimitsAssumption
      <3>2. Constant(0, BlockBytes) = [i \in 1 .. BlockBytes |-> Constant(0, BlockBytes)[i]]
        BY DEF Constant
      <3> QED
        BY <3>1, <3>2, Indexed
    <2> QED
      BY <1>1, <1>4, <2>1, GoesToCheck
  <1>5. CASE Ends("FL_PROG_ERR")
    BY <1>1, <1>2, <1>5, IdleEnds, EndsStage
  <1> QED
    BY <1>3, <1>4, <1>5 DEF checking

LEMMA StepReleasing ==
    ASSUME ProgramInv, releasing, UNCHANGED player
    PROVE  ProgramInv'
  <1>1. stage = "releasing" /\ calls = <<>> /\ Ends("FL_SUCCESS") /\ UNCHANGED <<micro, fpga, driven, m_progOp>>
    BY DEF releasing, Arrived, Keep, microVars, firmwareVars
  <1>2. stage' = "idle" /\ calls' = <<>> /\ verdict' = "FL_SUCCESS" /\ session' = session
    BY <1>1 DEF Ends
  <1>3. session # NoSession /\ Shaped(fpga)
    BY <1>1, SlaveStage
  <1>4. fpga.phase = "running" /\ Right(fpga)
    BY <1>1 DEF ProgramInv, Writing, WriteStages, Sound
  <1>5. session.kind # "pins"
    BY <1>1, SlaveStage DEF SlaveKinds
  <1>6. Range(calls) = {}
    BY <1>1, NoneAtAll
  <1>7. driven \cap LetGo(session) = {} /\ (m_progOp = "PROG_PARALLEL" => "DATA" \notin LetGo(session))
    BY <1>1, <1>5, <1>6 DEF ProgramInv, LettingGo
  <1>8. Configured'
    <2>1. LetGo(session)' = LetGo(session)
      BY <1>2 DEF LetGo
    <2> QED
      BY <1>1, <1>2, <1>4, <1>7, <2>1 DEF Configured, Right
  <1>9. Started'
    BY <1>1, <1>2, <1>3, NoScript DEF ProgramInv, Started, Asked
  <1>10. Playing'
    BY <1>1, IdleEnds
  <1> QED
    BY <1>2, <1>8, <1>9, <1>10
       DEF ProgramInv, Staged, Clearing, Writing, Checking, LettingGo, JtagStages, XStages, AStages, WriteStages

LEMMA StepOpening ==
    ASSUME ProgramInv, aOpening, UNCHANGED player
    PROVE  ProgramInv'
  <1> DEFINE c == flSingleBitPortAccess(progPin(session), "PIN_INPUT")
             next == OutputPins \o <<c>>
  <1>1. stage = "a opening" /\ calls = <<>> /\ UNCHANGED microVars /\ Goes("a writing", next)
    BY DEF aOpening, Arrived, Keep
  <1>2. stage \in AStages
    BY <1>1 DEF AStages
  <1>3. UNCHANGED <<fpga, driven, m_progOp>>
    BY <1>1 DEF microVars, firmwareVars
  <1>4. /\ SlaveSession(session) /\ ParsesAll(session) /\ session.kind \in SlaveKinds
        /\ progPin(session) = "PROG" /\ session.kind = "AS"
    BY <1>2, SlaveStage DEF ProgramInv, Staged
  <1>5. Script(OutputPins) /\ \A x \in Range(OutputPins) : IsAccess(x) /\ x.request.pin # "PROG"
    BY <1>4, Outputs DEF Kept
  <1>6. WellMade(c) /\ c.request.config = "PIN_INPUT"
    BY AccessMade
  <1> HIDE DEF c
  <1>7. Script(<<c>>) /\ Range(<<c>>) = {c}
    BY <1>6, OneCall
  <1>8. Script(OutputPins \o <<c>>) /\ Range(OutputPins \o <<c>>) = Range(OutputPins) \cup Range(<<c>>)
    BY <1>5, <1>7, ScriptsJoin
  <1>9. Script(next) /\ \A x \in Range(next) : ~Tells(x)
    BY <1>5, <1>6, <1>7, <1>8 DEF Tells, OnPin
  <1> HIDE DEF next
  <1>10. stage' = "a writing" /\ calls' = next
    BY <1>1 DEF Goes
  <1>11. Sound(fpga)
    <2>1. Range(calls) = {}
      BY <1>1, NoneAtAll
    <2> QED
      BY <1>1, <2>1 DEF ProgramInv, Writing
  <1>12. Writing'
    BY <1>3, <1>9, <1>10, <1>11 DEF Writing, WriteStages, Sound, Right
  <1>13. Clearing' /\ Checking' /\ LettingGo'
    BY <1>10 DEF Clearing, Checking, LettingGo, XStages
  <1> QED
    BY <1>1, <1>2, <1>9, <1>10, <1>12, <1>13, SlaveGoes DEF AStages

LEMMA StepWriting ==
    ASSUME ProgramInv, aWriting, UNCHANGED player
    PROVE  ProgramInv'
  <1> DEFINE w == Written(session.file)
             c == readPin(donePin(session))
             next == w \o <<c>>
  <1>1. stage = "a writing" /\ calls = <<>> /\ UNCHANGED microVars /\ Goes("a checking", next)
    BY DEF aWriting, Arrived, Keep
  <1>2. stage \in AStages
    BY <1>1 DEF AStages
  <1>3. UNCHANGED <<fpga, driven, m_progOp>>
    BY <1>1 DEF microVars, firmwareVars
  <1>4. SlaveSession(session) /\ donePin(session) = "DONE"
    BY <1>2, SlaveStage
  <1>5. IsSequence(session.file)
    BY <1>4, Sequenced DEF SlaveSession
  <1>6. Script(w) /\ \A x \in Range(w) : Plain(x)
    BY <1>5, Writes
  <1>7. WellMade(c) /\ Reads(c, "DONE")
    BY <1>4, ReadMade
  <1> HIDE DEF w, c
  <1>8. Script(<<c>>) /\ Range(<<c>>) = {c}
    BY <1>7, OneCall
  <1>9. Script(w \o <<c>>) /\ Range(w \o <<c>>) = Range(w) \cup Range(<<c>>)
    BY <1>6, <1>8, ScriptsJoin
  <1>10. Script(next) /\ \A x \in Range(next) : ~Tells(x) /\ x.call # "receive" /\ (Keeps(x) => Reads(x, "DONE"))
    BY <1>6, <1>7, <1>8, <1>9, PlainTouchesNothing, ReadTouchesNothing
  <1> HIDE DEF next
  <1>11. stage' = "a checking" /\ calls' = next /\ received' = <<>>
    BY <1>1 DEF Goes
  <1>12. Sound(fpga)
    BY <1>1 DEF ProgramInv, Writing, WriteStages
  <1>13. Writing'
    BY <1>3, <1>10, <1>11, <1>12, NoneAtAll DEF Writing, WriteStages, Sound, Right
  <1>14. Clearing' /\ Checking' /\ LettingGo'
    BY <1>11 DEF Clearing, Checking, LettingGo, XStages
  <1> QED
    BY <1>1, <1>2, <1>10, <1>11, <1>13, <1>14, SlaveGoes DEF AStages

LEMMA StepACheck ==
    ASSUME ProgramInv, aChecking, UNCHANGED player
    PROVE  ProgramInv'
  <1>1. stage = "a checking" /\ calls = <<>> /\ UNCHANGED microVars
    BY DEF aChecking, Arrived, Keep
  <1>2. CASE received = <<1>> /\ Goes("releasing", InputPins)
    <2>1. Range(<<1>>) = {1}
      BY OneElement
    <2>2. fpga.phase = "running"
      BY <1>1, <1>2, <2>1 DEF ProgramInv, Writing
    <2> QED
      BY <1>1, <1>2, <2>2, GoesToRelease
  <1>3. CASE Ends("FL_PROG_ERR")
    BY <1>1, <1>3, IdleEnds, EndsStage
  <1> QED
    BY <1>2, <1>3 DEF aChecking

LEMMA StepSlave ==
    ASSUME ProgramInv, slaveStep, UNCHANGED player
    PROVE  ProgramInv'
  <1>1. ASSUME badString PROVE ProgramInv'
    <2>1. stage # "idle" /\ Ends("FL_CONF_FORMAT") /\ UNCHANGED microVars
      BY <1>1 DEF badString, Arrived, Keep
    <2> QED
      BY <2>1, IdleEnds, EndsStage
  <1> QED
    BY <1>1, StepClearing, StepStarting, StepChecking, StepReleasing, StepOpening, StepWriting, StepACheck DEF slaveStep

-----------------------------------------------------------------------------
(* How a session begins.                                                     *)

LEMMA CutOff ==
    ASSUME NEW s, IsSequence(s), NEW bad, bad \subseteq 1 .. Len(s), bad # {}
    PROVE  /\ Min(bad) \in bad /\ Min(bad) - 1 \in Nat
           /\ IsSequence(SubSeq(s, 1, Min(bad) - 1)) /\ Len(SubSeq(s, 1, Min(bad) - 1)) = Min(bad) - 1
  <1>1. Len(s) \in Nat /\ Range(s) = {s[i] : i \in 1 .. Len(s)}
    BY Placed
  <1>2. PICK x \in bad : \A y \in bad : ~(y < x)
    <2>1. bad \subseteq Nat
      BY <1>1
    <2> QED
      BY <2>1, Least
  <1>3. Min(bad) \in bad
    <2>1. \A y \in bad : x =< y
      BY <1>1, <1>2
    <2> QED
      BY <2>1 DEF Min
  <1> DEFINE n == Min(bad) - 1
  <1>4. n \in Nat /\ n < Len(s)
    <2>1. PICK m \in 1 .. Len(s) : m = Min(bad)
      BY <1>3
    <2>2. m - 1 \in Nat /\ m - 1 < Len(s)
      BY <1>1
    <2> QED
      BY <2>1, <2>2
  <1>5. \A i \in 1 .. n : s[i] \in Range(s)
    BY <1>1, <1>4
  <1> DEFINE cut == SubSeq(s, 1, n)
  <1> HIDE DEF n
  <1>6. cut \in Seq(Range(s)) /\ Len(cut) = IF 1 <= n THEN n - 1 + 1 ELSE 0
    BY <1>4, <1>5, SubSeqProperties
  <1>7. Len(cut) = n
    BY <1>4, <1>6
  <1>8. IsSequence(cut)
    BY <1>6, Sequenced
  <1> QED
    BY <1>3, <1>4, <1>7, <1>8 DEF n

\* What is read of a port configuration.
LEMMA ParsedPart ==
    ASSUME NEW pins, IsSequence(pins)
    PROVE  IsSequence(Parsed(pins)) /\ (Len(pins) >= 1 /\ pins[1] # "?" => Parsed(pins) # <<>>)
  <1> DEFINE bad == {i \in DOMAIN pins : pins[i] = "?" \/ \E j \in 1 .. i - 1 : pins[j] = pins[i]}
  <1>1. Len(pins) \in Nat /\ DOMAIN pins = 1 .. Len(pins)
    BY Placed
  <1>2. bad \subseteq 1 .. Len(pins) /\ (pins[1] # "?" => 1 \notin bad)
    <2>1. 1 .. 1 - 1 = {}
      OBVIOUS
    <2> QED
      BY <1>1, <2>1
  <1>3. Parsed(pins) = IF bad = {} THEN pins ELSE SubSeq(pins, 1, Min(bad) - 1)
    BY DEF Parsed
  <1> HIDE DEF bad
  <1>4. CASE bad = {}
    BY <1>3, <1>4, NoneAtAll
  <1>5. CASE bad # {}
    <2>1. /\ Min(bad) \in bad /\ Min(bad) - 1 \in Nat
          /\ IsSequence(SubSeq(pins, 1, Min(bad) - 1)) /\ Len(SubSeq(pins, 1, Min(bad) - 1)) = Min(bad) - 1
      BY <1>2, <1>5, CutOff
    <2>2. pins[1] # "?" => Min(bad) - 1 # 0
      <3>1. PICK m \in 1 .. Len(pins) : m = Min(bad)
        BY <1>2, <2>1
      <3>2. pins[1] # "?" => m # 1
        BY <1>2, <2>1, <3>1
      <3> QED
        BY <1>1, <3>1, <3>2
    <2> QED
      BY <1>3, <1>5, <2>1, <2>2, NoneAtAll
  <1> QED
    BY <1>4, <1>5

LEMMA OpensPorts ==
    ASSUME NEW ports \in Seq(STRING), Len(ports) = 4
    PROVE  Script(progOpenInternal(ports))
  <1> DEFINE good == Parsed(ports)
             maps == [i \in DOMAIN good |-> portMap(JtagLines[i], good[i])]
             outputs == [i \in 1 .. 4 |-> flSingleBitPortAccess(ports[i], IF i = 1 THEN "PIN_INPUT" ELSE "PIN_LOW")]
  <1>1. IsSequence(good)
    BY Sequenced, ParsedPart
  <1>2. Len(good) \in Nat /\ DOMAIN good = 1 .. Len(good)
    BY <1>1, Placed
  <1>3. maps = [i \in 1 .. Len(good) |-> maps[i]] /\ \A i \in 1 .. Len(good) : maps[i] = portMap(JtagLines[i], good[i])
    BY <1>2
  <1>4. outputs = [i \in 1 .. 4 |-> outputs[i]]
        /\ \A i \in 1 .. 4 : outputs[i] = flSingleBitPortAccess(ports[i], IF i = 1 THEN "PIN_INPUT" ELSE "PIN_LOW")
    OBVIOUS
  <1>5. progOpenInternal(ports) = IF Len(good) < 4 THEN maps ELSE Append(maps, chooseEngine) \o outputs
    BY DEF progOpenInternal
  <1> HIDE DEF good, maps, outputs
  <1>6. IsSequence(maps) /\ Range(maps) = {maps[i] : i \in 1 .. Len(good)}
    BY <1>2, <1>3, Indexed
  <1>7. \A i \in 1 .. Len(good) : WellMade(maps[i])
    BY <1>3, PlainMade
  <1>8. Script(maps)
    BY <1>6, <1>7 DEF Script
  <1>9. WellMade(chooseEngine)
    BY PlainMade DEF chooseEngine
  <1>10. Script(Append(maps, chooseEngine))
    BY <1>8, <1>9, Appended DEF Script
  <1>11. Script(outputs)
    <2>1. 4 \in Nat
      OBVIOUS
    <2>2. IsSequence(outputs) /\ Range(outputs) = {outputs[i] : i \in 1 .. 4}
      BY <1>4, <2>1, Indexed
    <2>3. \A i \in 1 .. 4 : WellMade(outputs[i])
      BY <1>4, AccessMade
    <2> QED
      BY <2>2, <2>3 DEF Script
  <1> QED
    BY <1>5, <1>8, <1>10, <1>11, ScriptsJoin

LEMMA SetsPorts ==
    ASSUME NEW config, IsSequence(config)
    PROVE  Script(flMultiBitPortAccess(config))
  <1> DEFINE bad == {i \in DOMAIN config : config[i].pin = "?"}
             good == IF bad = {} THEN config ELSE SubSeq(config, 1, Min(bad) - 1)
             access(i) == [flSingleBitPortAccess(good[i].pin, good[i].config) EXCEPT !.keep = TRUE]
             all == flMultiBitPortAccess(config)
  <1>1. bad \subseteq 1 .. Len(config)
    BY Placed
  <1>2. all = [i \in DOMAIN good |-> access(i)]
    BY DEF flMultiBitPortAccess
  <1> HIDE DEF bad
  <1>3. IsSequence(good)
    BY <1>1, CutOff
  <1> HIDE DEF good
  <1>4. Len(good) \in Nat /\ DOMAIN good = 1 .. Len(good)
    BY <1>3, Placed
  <1>5. \A i \in 1 .. Len(good) : all[i] = access(i)
    BY <1>2, <1>4
  <1>6. all = [i \in 1 .. Len(good) |-> all[i]]
    BY <1>2, <1>4, <1>5
  <1> HIDE DEF all
  <1>7. IsSequence(all) /\ Range(all) = {all[i] : i \in 1 .. Len(good)}
    BY <1>4, <1>6, Indexed
  <1>8. \A i \in 1 .. Len(good) : WellMade(access(i))
    BY KeptMade
  <1> QED
    BY <1>5, <1>7, <1>8 DEF Script, all

\* What may be asked for.
LEMMA Askable ==
    ASSUME Started, NEW s \in Asked
    PROVE  /\ s # NoSession
           /\ \/ s.kind \in JtagKinds /\ JtagSession(s)
              \/ s.kind = "pins" /\ s.pins \in Seq([pin : STRING, config : Configs])
              \/ s.kind = fpga.board /\ s.kind \in Boards /\ s.kind \in SlaveKinds /\ SlaveSession(s)
           /\ Boards \subseteq SlaveKinds
  <1> DEFINE rig == <<micro, fpga.board>>
  <1>1. rig \in DOMAIN Sessions /\ s \in Sessions[rig] /\ rig[2] = fpga.board
    BY DEF Started, Asked
  <1>2. fpga.board \in Boards /\ Boards \subseteq SlaveKinds
    BY <1>1, SessionsAssumption DEF SlaveKinds
  <1> HIDE DEF rig
  <1>3. \/ s.kind \in JtagKinds /\ JtagSession(s)
        \/ s.kind = "pins" /\ s.pins \in Seq([pin : STRING, config : Configs])
        \/ s.kind = fpga.board /\ SlaveSession(s)
    BY <1>1, SessionsAssumption DEF JtagKinds
  <1>4. s.kind # "none"
    BY <1>2, <1>3 DEF JtagKinds, SlaveKinds
  <1>5. NoSession.kind = "none"
    BY DEF NoSession
  <1> QED
    BY <1>2, <1>3, <1>4, <1>5

LEMMA Begun ==
    ASSUME ProgramInv, NEW s \in Asked, Begins(s), verdict' # "FL_SUCCESS", Script(calls'),
           stage' = "idle" => calls' = <<>>, stage' # "idle" => verdict' = "none",
           Staged', Playing', Clearing', Writing', Checking', LettingGo'
    PROVE  ProgramInv'
  <1>1. session' = s /\ UNCHANGED <<micro, fpga>> /\ s # NoSession
    BY Askable DEF Begins, ProgramInv
  <1>2. Started'
    BY <1>1 DEF ProgramInv, Started, Asked
  <1> QED
    BY <1>2 DEF ProgramInv, Configured

LEMMA BeginsOverJtag ==
    ASSUME ProgramInv, NEW s \in Asked, Begins(s), s.kind \in JtagKinds, NEW stream, OpensJtag(stream), verdict' = "none",
           stream \in Seq(Commands), Fits(0, stream)
    PROVE  ProgramInv'
  <1>1. JtagSession(s)
    <2>1. s.kind \notin SlaveKinds /\ s.kind # "pins"
      BY DEF JtagKinds, SlaveKinds
    <2> QED
      BY <2>1, Askable DEF ProgramInv
  <1>2. session' = s /\ player' = Player(stream) /\ calls' = progOpenInternal(s.ports) /\ stage' \in {"opened", "bad config"}
    BY DEF Begins, OpensJtag
  <1>3. Script(calls')
    BY <1>1, <1>2, OpensPorts DEF JtagSession
  <1>4. Playing'
    <2>1. /\ DOMAIN player' = {"todo", "command", "xsdrSize", "xruntest", "tdoMask", "tries", "numDevices", "devices"}
          /\ player'.todo = stream /\ player'.command.data \in Seq(Byte) /\ player'.xsdrSize = 0
      BY <1>2, PlayerGiven
    <2>2. stage' # "comparing"
      BY <1>2
    <2> QED
      BY <2>1, <2>2 DEF Playing
  <1>5. Staged'
    BY <1>2 DEF Staged, JtagStages, XStages, AStages
  <1>6. Clearing' /\ Writing' /\ Checking' /\ LettingGo'
    BY <1>2 DEF Clearing, Writing, Checking, LettingGo, XStages, WriteStages
  <1> QED
    BY <1>2, <1>3, <1>4, <1>5, <1>6, Begun

\* The player of a session that plays nothing.
LEMMA NothingToPlay ==
    ASSUME player' = Player(<<>>), stage' # "comparing"
    PROVE  Playing'
  <1>1. /\ DOMAIN player' = {"todo", "command", "xsdrSize", "xruntest", "tdoMask", "tries", "numDevices", "devices"}
        /\ player'.todo = <<>> /\ player'.command.data \in Seq(Byte) /\ player'.xsdrSize = 0
    BY PlayerGiven
  <1>2. player'.todo \in Seq(Commands) /\ Fits(player'.xsdrSize, player'.todo)
    BY <1>1, EmptyStream
  <1> QED
    BY <1>1, <1>2 DEF Playing

LEMMA StepPlays ==
    ASSUME ProgramInv, flProgramJtag
    PROVE  ProgramInv'
  <1>1. PICK s \in Asked :
            /\ s.kind = "play" /\ Begins(s)
            /\ \/ IsConverted(s.file) /\ OpensJtag(StreamOf(s.file)) /\ verdict' = "none"
               \/ /\ ~IsConverted(s.file) /\ verdict' = "FL_UNSUPPORTED_SIZE_ERR"
                  /\ player' = Player(<<>>) /\ UNCHANGED <<stage, calls>>
    BY DEF flProgramJtag
  <1>2. s.kind \in JtagKinds
    BY <1>1 DEF JtagKinds
  <1>3. CASE IsConverted(s.file) /\ OpensJtag(StreamOf(s.file)) /\ verdict' = "none"
    <2>1. JtagSession(s)
      <3>1. s.kind \notin SlaveKinds /\ s.kind # "pins"
        BY <1>1 DEF SlaveKinds
      <3> QED
        BY <3>1, Askable DEF ProgramInv
    <2>2. StreamOf(s.file) \in Seq(Commands) /\ Fits(0, StreamOf(s.file))
      BY <1>1, <1>3, <2>1 DEF JtagSession
    <2> QED
      BY <1>1, <1>2, <1>3, <2>2, BeginsOverJtag
  <1>4. CASE /\ verdict' = "FL_UNSUPPORTED_SIZE_ERR" /\ player' = Player(<<>>) /\ UNCHANGED <<stage, calls>>
    <2>1. stage = "idle" /\ calls = <<>>
      BY <1>1 DEF Begins, ProgramInv, Started
    <2>2. stage' = "idle" /\ calls' = <<>>
      BY <1>4, <2>1
    <2>3. Playing'
      BY <1>4, <2>2, NothingToPlay
    <2>4. Staged' /\ Clearing' /\ Writing' /\ Checking' /\ LettingGo'
      BY <2>2 DEF Staged, JtagStages, XStages, AStages, WriteStages, Clearing, Writing, Checking, LettingGo
    <2> QED
      BY <1>1, <1>4, <2>2, <2>3, <2>4, NoScript, Begun
  <1> QED
    BY <1>1, <1>3, <1>4

LEMMA StepPort ==
    ASSUME ProgramInv, opensPort
    PROVE  ProgramInv'
  <1>1. PICK s \in Asked : /\ s.kind \in {"scan", "ones", "pins"} /\ Begins(s) /\ verdict' = "none"
                           /\ IF s.kind = "pins" THEN SetsPins ELSE OpensJtag(<<>>)
    BY DEF opensPort
  <1>2. CASE s.kind # "pins"
    <2>1. s.kind \in JtagKinds
      BY <1>1, <1>2 DEF JtagKinds
    <2>2. OpensJtag(<<>>)
      BY <1>1, <1>2
    <2>3. <<>> \in Seq(Commands) /\ Fits(0, <<>>)
      BY EmptyStream
    <2>4. PICK stream : stream = <<>>
      OBVIOUS
    <2>5. OpensJtag(stream)
      BY <2>2, <2>4 DEF OpensJtag
    <2> QED
      BY <1>1, <2>1, <2>3, <2>4, <2>5, BeginsOverJtag
  <1>3. CASE s.kind = "pins"
    <2>1. IsSequence(s.pins)
      <3>1. s.kind \notin SlaveKinds \cup JtagKinds
        BY <1>3 DEF SlaveKinds, JtagKinds
      <3> QED
        BY <3>1, Askable, Sequenced DEF ProgramInv
    <2>2. /\ session' = s /\ player' = Player(<<>>) /\ calls' = flMultiBitPortAccess(s.pins)
          /\ stage' \in {"closing", "bad config"}
      BY <1>1, <1>3 DEF Begins, SetsPins
    <2>3. Script(calls')
      BY <2>1, <2>2, SetsPorts
    <2>4. Playing'
      BY <2>2, NothingToPlay
    <2>5. Staged'
      BY <1>3, <2>2 DEF Staged, JtagStages, XStages, AStages
    <2>6. Clearing' /\ Writing' /\ Checking' /\ LettingGo'
      BY <1>3, <2>2 DEF Clearing, Writing, Checking, LettingGo, XStages, WriteStages
    <2> QED
      BY <1>1, <2>2, <2>3, <2>4, <2>5, <2>6, Begun
  <1> QED
    BY <1>2, <1>3

-----------------------------------------------------------------------------
(* A session that programs a slave.                                          *)

LEMMA MapsMade ==
    ASSUME NEW s
    PROVE  /\ Script(Maps(s)) /\ Len(Maps(s)) = 3
           /\ \A c \in Range(Maps(s)) : Plain(c) /\ ~IsBegin(c)
  <1> DEFINE a == portMap("SCK", cclkPin(s))
             line == IF s.kind = "XP" THEN "D8" ELSE "MOSI"
             b == portMap(line, dataPin(s))
  <1>1. Maps(s) = <<a, b, chooseEngine>>
    BY DEF Maps
  <1>2. WellMade(a) /\ Plain(a) /\ ~IsBegin(a)
    BY PlainMade
  <1>3. WellMade(b) /\ Plain(b) /\ ~IsBegin(b)
    BY PlainMade
  <1>4. WellMade(chooseEngine) /\ Plain(chooseEngine) /\ ~IsBegin(chooseEngine)
    BY PlainMade DEF chooseEngine
  <1>5. PICK d : d = chooseEngine
    OBVIOUS
  <1> HIDE DEF a, b
  <1>6. IsSequence(<<a, b, d>>) /\ Range(<<a, b, d>>) = {a, b, d} /\ Len(<<a, b, d>>) = 3
    <2>1. <<a, b, d>> \in Seq({a, b, d}) /\ Len(<<a, b, d>>) = 3
      OBVIOUS
    <2>2. Range(<<a, b, d>>) = {a, b, d}
      BY DEF Range
    <2> QED
      BY <2>1, <2>2, Sequenced
  <1> QED
    BY <1>1, <1>2, <1>3, <1>4, <1>5, <1>6 DEF Script

\* The calls with which xProgram begins.
LEMMA OpeningX ==
    ASSUME NEW s, progPin(s) = "PROG", initPin(s) = "INIT", donePin(s) = "DONE", NEW cs,
           cs = Maps(s) \o
                    <<flSingleBitPortAccess(initPin(s), "PIN_INPUT"), flSingleBitPortAccess(donePin(s), "PIN_INPUT"),
                      flSingleBitPortAccess(progPin(s), "PIN_LOW"), readPin(initPin(s)), readPin(donePin(s))>>
    PROVE  /\ Script(cs)
           /\ \A c \in Range(cs) : c.call # "receive" /\ (Keeps(c) => Reads(c, "INIT") \/ Reads(c, "DONE"))
           /\ \A c \in Range(cs) : ~Drives(c, "INIT") /\ ~Drives(c, "DONE")
           /\ \E c \in Range(cs) : LetsGo(c, "INIT")
           /\ \E c \in Range(cs) : LetsGo(c, "DONE")
           /\ \E k \in 1 .. Len(cs) :
                 /\ Tells(cs[k])
                 /\ \A j \in 1 .. k - 1 : ~Keeps(cs[j])
                 /\ \A j \in 1 .. Len(cs) : j # k => ~OnPin(cs[j], "PROG")
  <1> DEFINE m == Maps(s)
             a == flSingleBitPortAccess(initPin(s), "PIN_INPUT")
             b == flSingleBitPortAccess(donePin(s), "PIN_INPUT")
             d == flSingleBitPortAccess(progPin(s), "PIN_LOW")
             e == readPin(initPin(s))
             f == readPin(donePin(s))
             t == <<a, b, d, e, f>>
  <1>1. cs = m \o t
    OBVIOUS
  <1>2. WellMade(a) /\ LetsGo(a, "INIT") /\ ~Keeps(a) /\ a.call # "receive"
    BY AccessMade DEF LetsGo, OnPin
  <1>3. WellMade(b) /\ LetsGo(b, "DONE") /\ ~Keeps(b) /\ b.call # "receive"
    BY AccessMade DEF LetsGo, OnPin
  <1>4. WellMade(d) /\ Tells(d) /\ ~Keeps(d) /\ d.call # "receive"
    BY AccessMade DEF Tells, OnPin
  <1>5. WellMade(e) /\ Reads(e, "INIT") /\ e.call # "receive"
    BY ReadMade
  <1>6. WellMade(f) /\ Reads(f, "DONE") /\ f.call # "receive"
    BY ReadMade
  <1> HIDE DEF a, b, d, e, f
  <1>7. /\ t \in Seq({a, b, d, e, f}) /\ Len(t) = 5
        /\ t[1] = a /\ t[2] = b /\ t[3] = d /\ t[4] = e /\ t[5] = f
    OBVIOUS
  <1>8. Range(t) = {a, b, d, e, f}
    BY DEF Range
  <1> HIDE DEF t
  <1>9. IsSequence(t)
    BY <1>7, Sequenced
  <1>10. Script(t)
    BY <1>2, <1>3, <1>4, <1>5, <1>6, <1>8, <1>9 DEF Script
  <1>11. Script(m) /\ Len(m) = 3 /\ \A c \in Range(m) : Plain(c) /\ ~IsBegin(c)
    BY MapsMade
  <1> HIDE DEF m
  <1>12. Script(cs) /\ Range(cs) = Range(m) \cup Range(t)
    BY <1>1, <1>10, <1>11, ScriptsJoin
  <1>13. IsSequence(m)
    BY <1>11 DEF Script
  <1>14. /\ Len(cs) = 8
         /\ \A i \in 1 .. 3 : cs[i] = m[i] /\ m[i] \in Range(m)
         /\ cs[4] = a /\ cs[5] = b /\ cs[6] = d /\ cs[7] = e /\ cs[8] = f
    <2>1. /\ Len(m \o t) = Len(m) + Len(t)
          /\ \A i \in 1 .. Len(m) : (m \o t)[i] = m[i]
          /\ \A i \in 1 .. Len(t) : (m \o t)[Len(m) + i] = t[i]
      BY <1>9, <1>13, Joined
    <2>2. Range(m) = {m[i] : i \in 1 .. Len(m)}
      BY <1>13, Placed
    <2>3. PICK k, u : k = Len(m) /\ u = m \o t
      OBVIOUS
    <2>4. cs = u /\ k = 3 /\ Len(u) = 8 /\ \A i \in 1 .. 5 : u[k + i] = t[i]
      <3>1. Len(u) = Len(m) + Len(t) /\ (\A i \in 1 .. Len(t) : u[k + i] = t[i])
        BY <2>1, <2>3
      <3>2. k = 3 /\ Len(m) = 3 /\ Len(t) = 5
        BY <1>7, <1>11, <2>3
      <3>3. Len(u) = 8
        BY <3>1, <3>2
      <3>4. \A i \in 1 .. 5 : u[k + i] = t[i]
        BY <3>1, <3>2
      <3>5. cs = u
        BY <1>1, <2>3
      <3> QED
        BY <3>2, <3>3, <3>4, <3>5
    <2>5. cs[4] = a /\ cs[5] = b /\ cs[6] = d /\ cs[7] = e /\ cs[8] = f
      <3>1. k + 1 = 4 /\ k + 2 = 5 /\ k + 3 = 6 /\ k + 4 = 7 /\ k + 5 = 8
        BY <2>4
      <3>2. u[k + 1] = a /\ u[k + 2] = b /\ u[k + 3] = d /\ u[k + 4] = e /\ u[k + 5] = f
        BY <1>7, <2>4
      <3>3. u[4] = a /\ u[5] = b /\ u[6] = d /\ u[7] = e /\ u[8] = f
        BY <3>1, <3>2
      <3> QED
        BY <2>4, <3>3
    <2>6. \A i \in 1 .. 3 : cs[i] = m[i] /\ m[i] \in Range(m)
      BY <1>1, <1>11, <2>1, <2>2
    <2> QED
      BY <2>4, <2>5, <2>6
  <1>15. ASSUME NEW c \in Range(m)
         PROVE  c.call # "receive" /\ ~Keeps(c) /\ ~OnPin(c, "PROG") /\ ~Drives(c, "INIT") /\ ~Drives(c, "DONE")
    BY <1>11, <1>15, PlainTouchesNothing
  <1>16. ~OnPin(a, "PROG") /\ ~Drives(a, "INIT") /\ ~Drives(a, "DONE")
    BY <1>2 DEF LetsGo, Drives, OnPin
  <1>17. ~OnPin(b, "PROG") /\ ~Drives(b, "INIT") /\ ~Drives(b, "DONE")
    BY <1>3 DEF LetsGo, Drives, OnPin
  <1>18. ~Drives(d, "INIT") /\ ~Drives(d, "DONE")
    BY <1>4 DEF Tells, Drives, OnPin
  <1>19. ~OnPin(e, "PROG") /\ ~Drives(e, "INIT") /\ ~Drives(e, "DONE")
    BY <1>5, ReadTouchesNothing
  <1>20. ~OnPin(f, "PROG") /\ ~Drives(f, "INIT") /\ ~Drives(f, "DONE")
    BY <1>6, ReadTouchesNothing
  <1>21. /\ \A c \in Range(cs) : c.call # "receive" /\ (Keeps(c) => Reads(c, "INIT") \/ Reads(c, "DONE"))
         /\ \A c \in Range(cs) : ~Drives(c, "INIT") /\ ~Drives(c, "DONE")
    BY <1>2, <1>3, <1>4, <1>5, <1>6, <1>8, <1>12, <1>15, <1>16, <1>17, <1>18, <1>19, <1>20
  <1>22. (\E c \in Range(cs) : LetsGo(c, "INIT")) /\ (\E c \in Range(cs) : LetsGo(c, "DONE"))
    BY <1>2, <1>3, <1>8, <1>12
  <1>23. \E k \in 1 .. Len(cs) :
            /\ Tells(cs[k])
            /\ \A j \in 1 .. k - 1 : ~Keeps(cs[j])
            /\ \A j \in 1 .. Len(cs) : j # k => ~OnPin(cs[j], "PROG")
    <2>1. 6 \in 1 .. Len(cs) /\ Tells(cs[6])
      BY <1>4, <1>14
    <2>2. \A j \in 1 .. 6 - 1 : j \in 1 .. 3 \/ j = 4 \/ j = 5
      OBVIOUS
    <2>3. \A j \in 1 .. 6 - 1 : ~Keeps(cs[j])
      BY <1>2, <1>3, <1>14, <1>15, <2>2
    <2>4. \A j \in 1 .. 8 : j # 6 => j \in 1 .. 3 \/ j = 4 \/ j = 5 \/ j = 7 \/ j = 8
      OBVIOUS
    <2>5. \A j \in 1 .. Len(cs) : j # 6 => ~OnPin(cs[j], "PROG")
      BY <1>14, <1>15, <1>16, <1>17, <1>19, <1>20, <2>4
    <2> QED
      BY <2>1, <2>3, <2>5
  <1> QED
    BY <1>12, <1>21, <1>22, <1>23

LEMMA SlaveAsked ==
    ASSUME ProgramInv, NEW s \in Asked, s.kind \in Boards
    PROVE  /\ s.kind = fpga.board /\ s.kind \in SlaveKinds /\ SlaveSession(s)
           /\ ParsesAll(s) => /\ progPin(s) = "PROG" /\ donePin(s) = "DONE"
                              /\ s.kind # "AS" => initPin(s) = "INIT"
  <1>1. Boards \subseteq SlaveKinds
    BY Askable DEF ProgramInv
  <1>2. s.kind \notin JtagKinds /\ s.kind # "pins"
    BY <1>1 DEF JtagKinds, SlaveKinds
  <1>3. s.kind = fpga.board /\ s.kind \in SlaveKinds /\ SlaveSession(s)
    BY <1>2, Askable DEF ProgramInv
  <1> QED
    BY <1>3 DEF SlaveSession

LEMMA StepXOpens ==
    ASSUME ProgramInv, NEW s \in Asked, s.kind \in Boards, s.kind # "AS", Begins(s), OpensX, player' = Player(<<>>),
           verdict' = "none"
    PROVE  ProgramInv'
  <1>1. session' = s /\ received' = <<>> /\ UNCHANGED <<fpga, driven, m_progOp>>
    BY DEF Begins, OpensX
  <1>2. s.kind \in SlaveKinds /\ (ParsesAll(s) => progPin(s) = "PROG" /\ donePin(s) = "DONE" /\ initPin(s) = "INIT")
    BY SlaveAsked
  <1> DEFINE opening == Maps(s) \o
                    <<flSingleBitPortAccess(initPin(s), "PIN_INPUT"), flSingleBitPortAccess(donePin(s), "PIN_INPUT"),
                      flSingleBitPortAccess(progPin(s), "PIN_LOW"), readPin(initPin(s)), readPin(donePin(s))>>
  <1>3. CASE ParsesAll(s) /\ calls' = opening /\ stage' = "clearing"
    <2>1. PICK cs : cs = opening
      OBVIOUS
    <2>2. /\ Script(cs)
          /\ \A c \in Range(cs) : c.call # "receive" /\ (Keeps(c) => Reads(c, "INIT") \/ Reads(c, "DONE"))
          /\ \A c \in Range(cs) : ~Drives(c, "INIT") /\ ~Drives(c, "DONE")
          /\ \E c \in Range(cs) : LetsGo(c, "INIT")
          /\ \E c \in Range(cs) : LetsGo(c, "DONE")
          /\ \E k \in 1 .. Len(cs) :
                /\ Tells(cs[k])
                /\ \A j \in 1 .. k - 1 : ~Keeps(cs[j])
                /\ \A j \in 1 .. Len(cs) : j # k => ~OnPin(cs[j], "PROG")
      BY <1>2, <1>3, <2>1, OpeningX
    <2> HIDE DEF opening
    <2>3. calls' = cs /\ stage' = "clearing"
      BY <1>3, <2>1
    <2>4. Clearing'
      BY <1>1, <2>2, <2>3, NoneAtAll DEF Clearing
    <2>5. LettingGo'
      <3>1. ASSUME NEW pin \in {"INIT", "DONE"}
            PROVE  (\A c \in Range(cs) : ~Drives(c, pin)) /\ \E c \in Range(cs) : LetsGo(c, pin)
        BY <2>2
      <3> QED
        BY <2>3, <3>1 DEF LettingGo
    <2>6. Writing' /\ Checking'
      BY <2>3 DEF Writing, WriteStages, Checking
    <2>7. Playing'
      BY <2>3, NothingToPlay
    <2>8. Staged'
      <3>1. ParsesAll(session')
        BY <1>1, <1>3
      <3>2. ParsesAll(session)'
        BY <3>1 DEF ParsesAll, Roles
      <3> QED
        BY <1>1, <2>3, <3>2 DEF Staged, JtagStages, XStages, AStages, Boards
    <2> QED
      BY <2>2, <2>3, <2>4, <2>5, <2>6, <2>7, <2>8, Begun
  <1>4. CASE calls' = <<>> /\ stage' = "bad string"
    <2>1. Playing'
      BY <1>4, NothingToPlay
    <2>2. Staged'
      BY <1>1, <1>4 DEF Staged, JtagStages, XStages, AStages, Boards
    <2>3. Clearing' /\ Writing' /\ Checking' /\ LettingGo'
      BY <1>4 DEF Clearing, Writing, WriteStages, Checking, LettingGo, XStages
    <2> QED
      BY <1>4, <2>1, <2>2, <2>3, NoScript, Begun
  <1>5. \/ ParsesAll(s) /\ calls' = opening /\ stage' = "clearing"
        \/ calls' = <<>> /\ stage' = "bad string"
    BY <1>1 DEF OpensX
  <1> QED
    BY <1>3, <1>4, <1>5

LEMMA StepAOpens ==
    ASSUME ProgramInv, NEW s \in Asked, s.kind \in Boards, s.kind = "AS", Begins(s), OpensA, player' = Player(<<>>),
           verdict' = "none"
    PROVE  ProgramInv'
  <1> DEFINE c == flSingleBitPortAccess(progPin(s), "PIN_LOW")
             low == IF Parsed(s.ports) = <<>> THEN <<>> ELSE <<c>>
             opening == low \o Maps(s) \o <<flSelectConduit>>
  <1>1. session' = s /\ UNCHANGED <<fpga, driven, m_progOp>>
    BY DEF Begins
  <1>2. SlaveSession(s) /\ (ParsesAll(s) => progPin(s) = "PROG")
    BY SlaveAsked
  <1>3. \/ ParsesAll(s) /\ calls' = opening /\ stage' = "a opening"
        \/ calls' = low /\ stage' = "bad string"
    BY <1>1 DEF OpensA
  <1>4. WellMade(c) /\ IsAccess(c) /\ c.request.pin = progPin(s) /\ c.request.config = "PIN_LOW"
    BY AccessMade
  <1> HIDE DEF c
  <1>5. Script(<<c>>) /\ Range(<<c>>) = {c}
    BY <1>4, OneCall
  <1>6. Script(low)
    BY <1>5, NoScript
  <1>7. CASE ParsesAll(s) /\ calls' = opening /\ stage' = "a opening"
    <2>1. low = <<c>> /\ Tells(c)
      <3>1. s.ports \in Seq(Pins \cup {"?"}) /\ Len(s.ports) = 4
        BY <1>2, <1>7 DEF SlaveSession, ParsesAll, Roles
      <3>2. IsSequence(s.ports)
        BY <3>1, Sequenced
      <3>3. s.ports[1] = "PROG"
        BY <1>2, <1>7 DEF progPin
      <3>4. Parsed(s.ports) # <<>>
        BY <3>1, <3>2, <3>3, ParsedPart
      <3> QED
        BY <1>2, <1>4, <1>7, <3>4 DEF Tells, OnPin
    <2>2. Script(Maps(s))
      BY MapsMade
    <2>3. Script(<<flSelectConduit>>)
      BY ConduitMade, OneCall
    <2>4. Script(low \o Maps(s)) /\ Range(low \o Maps(s)) = Range(low) \cup Range(Maps(s))
      BY <1>6, <2>2, ScriptsJoin
    <2>5. PICK first, last : first = low \o Maps(s) /\ last = <<flSelectConduit>>
      OBVIOUS
    <2>6. Script(first \o last) /\ Range(first \o last) = Range(first) \cup Range(last)
      <3>1. Script(first) /\ Script(last)
        BY <2>3, <2>4, <2>5
      <3> QED
        BY <3>1, ScriptsJoin
    <2>7. calls' = first \o last
      BY <1>7, <2>5
    <2>8. c \in Range(calls')
      BY <1>5, <2>1, <2>4, <2>5, <2>6, <2>7
    <2>9. Script(calls')
      BY <2>6, <2>7
    <2>10. Writing'
      BY <1>7, <2>1, <2>8 DEF Writing, WriteStages
    <2>11. Clearing' /\ Checking' /\ LettingGo'
      BY <1>7 DEF Clearing, Checking, LettingGo, XStages
    <2>12. Playing'
      BY <1>7, NothingToPlay
    <2>13. Staged'
      <3>1. ParsesAll(session')
        BY <1>1, <1>7
      <3>2. ParsesAll(session)'
        BY <3>1 DEF ParsesAll, Roles
      <3> QED
        BY <1>1, <1>7, <3>2 DEF Staged, JtagStages, XStages, AStages, Boards
    <2> QED
      BY <1>7, <2>9, <2>10, <2>11, <2>12, <2>13, Begun
  <1>8. CASE calls' = low /\ stage' = "bad string"
    <2>1. Playing'
      BY <1>8, NothingToPlay
    <2>2. Staged'
      BY <1>1, <1>8 DEF Staged, JtagStages, XStages, AStages, Boards
    <2>3. Clearing' /\ Writing' /\ Checking' /\ LettingGo'
      BY <1>8 DEF Clearing, Writing, WriteStages, Checking, LettingGo, XStages
    <2>4. Script(calls')
      BY <1>6, <1>8
    <2> QED
      BY <1>8, <2>1, <2>2, <2>3, <2>4, Begun
  <1> QED
    BY <1>3, <1>7, <1>8

LEMMA StepPrograms ==
    ASSUME ProgramInv, flProgramSlave
    PROVE  ProgramInv'
  <1>1. PICK s \in Asked : /\ s.kind \in Boards /\ Begins(s)
                           /\ IF s.kind = "AS" THEN OpensA ELSE OpensX
                           /\ player' = Player(<<>>) /\ verdict' = "none"
    BY DEF flProgramSlave
  <1> QED
    BY <1>1, StepXOpens, StepAOpens

-----------------------------------------------------------------------------
(* The theorems.                                                             *)

LEMMA InvNext == ProgramInv /\ [Next]_vars => ProgramInv'
  <1> SUFFICES ASSUME ProgramInv, [Next]_vars PROVE ProgramInv'
    OBVIOUS
  <1>1. ASSUME begins PROVE ProgramInv'
    BY <1>1, StepPlays, StepPrograms, StepPort DEF begins
  <1>2. ASSUME hostStep PROVE ProgramInv'
    <2>1. ASSUME usbCall, UNCHANGED playerVars PROVE ProgramInv'
      BY <2>1, StepControl, StepBulk DEF usbCall
    <2>2. ASSUME slaveStep, UNCHANGED playerVars PROVE ProgramInv'
      BY <2>2, StepSlave DEF playerVars
    <2> QED
      BY <1>2, <2>1, <2>2, StepPlayer DEF hostStep
  <1> QED
    BY <1>1, <1>2, StepMicro, StepFpga, StepStopped, StepNone DEF Next, Finished

\* The inductive invariant: where a session is, what its calls still do to the
\* pins, and what the FPGA has seen, in every state of every session.
THEOREM ProgrammerKeepsItsOrder == Spec => []ProgramInv
  <1>1. Init => ProgramInv
    BY InvInit
  <1>2. ProgramInv /\ [Next]_vars => ProgramInv'
    BY InvNext
  <1> QED
    BY <1>1, <1>2, PTL DEF Spec

\* Success of xProgram or aProgram means an FPGA that has taken the whole
\* configuration and runs, and every session that succeeds, but one that sets
\* pins, lets go of its pins.  (xProgram, aProgram, progClose)
THEOREM ConfiguredWhenOk == Spec => []OkMeansConfigured
  BY ProgrammerKeepsItsOrder, InvGivesOk, PTL
=============================================================================
