------------------------- MODULE CipherRoundsProofs -------------------------
(***************************************************************************)
(* A round of the decryption undoes a round of the encryption, for words of *)
(* any width, any key, any amounts of the shifts and any operation on words *)
(* in the place of the exclusive or.                                        *)
(***************************************************************************)
EXTENDS CipherRounds, TLAPS, WellFoundedInduction

WellSized ==
    /\ Modulus \in Nat \ {0} /\ LeftShift \in Nat \ {0} /\ RightShift \in Nat \ {0}
    /\ Delta \in Words
    /\ \A a, b \in Words : Xor(a, b) \in Words

\* Subtraction undoes addition, and the other way round, also when they wrap.
LEMMA Wrapping ==
    ASSUME WellSized, NEW a \in Words, NEW b \in Words
    PROVE  /\ Plus(a, b) \in Words /\ Minus(a, b) \in Words
           /\ Minus(Plus(a, b), b) = a /\ Plus(Minus(a, b), b) = a
  BY DEF WellSized, Words, Plus, Minus

LEMMA ShiftsFit ==
    ASSUME WellSized, NEW v \in Words
    PROVE  (v * LeftShift) % Modulus \in Words /\ v \div RightShift \in Words
  <1>1. Modulus \in Nat /\ Modulus > 0 /\ RightShift \in Nat /\ RightShift > 0 /\ v \in Nat
    BY DEF WellSized, Words
  <1>2. \A x \in Nat : x % Modulus \in 0 .. Modulus - 1
    BY <1>1
  <1>3. v * LeftShift \in Nat
    BY <1>1 DEF WellSized
  <1>4. v \div RightShift \in 0 .. v
    BY <1>1
  <1> QED
    BY <1>1, <1>2, <1>3, <1>4 DEF Words

LEMMA MixedIsWord ==
    ASSUME WellSized, NEW v \in Words, NEW sum \in Words, NEW a \in Words, NEW b \in Words
    PROVE  Mixed(v, sum, a, b) \in Words
  <1>1. Plus((v * LeftShift) % Modulus, a) \in Words /\ Plus(v \div RightShift, b) \in Words
    BY ShiftsFit, Wrapping
  <1>2. Plus(v, sum) \in Words
    BY Wrapping
  <1> QED
    BY <1>1, <1>2 DEF Mixed, WellSized

\* decrypter.vhd:50 after encrypter.vhd:48: one round back is where it was.
THEOREM DecryptUndoesEncrypt ==
    ASSUME WellSized, NEW s \in States, NEW key \in Keys
    PROVE  EncryptRound(s, key) \in States /\ DecryptRound(EncryptRound(s, key), key) = s
  <1> DEFINE sum == Plus(s.sum, Delta)
             m0  == Mixed(s.v1, sum, key[0], key[1])
             v0  == Plus(s.v0, m0)
             m1  == Mixed(v0, sum, key[2], key[3])
             v1  == Plus(s.v1, m1)
  <1>1. /\ s.v0 \in Words /\ s.v1 \in Words /\ s.sum \in Words /\ Delta \in Words
        /\ key[0] \in Words /\ key[1] \in Words /\ key[2] \in Words /\ key[3] \in Words
        /\ s = [v0 |-> s.v0, v1 |-> s.v1, sum |-> s.sum]
    BY DEF States, Keys, WellSized
  <1>2. sum \in Words /\ Minus(sum, Delta) = s.sum
    BY <1>1, Wrapping
  <1>3. m0 \in Words
    <2> HIDE DEF sum
    <2> QED
      BY <1>1, <1>2, MixedIsWord
  <1>4. v0 \in Words /\ Minus(v0, m0) = s.v0
    <2> HIDE DEF m0
    <2> QED
      BY <1>1, <1>3, Wrapping
  <1>5. m1 \in Words
    <2> HIDE DEF sum, v0
    <2> QED
      BY <1>1, <1>2, <1>4, MixedIsWord
  <1>6. v1 \in Words /\ Minus(v1, m1) = s.v1
    <2> HIDE DEF m1
    <2> QED
      BY <1>1, <1>5, Wrapping
  <1> DEFINE t == EncryptRound(s, key)
  <1>7. t = [v0 |-> v0, v1 |-> v1, sum |-> sum]
    BY DEF EncryptRound
  <1>8. DecryptRound(t, key) = [v0 |-> Minus(v0, m0), v1 |-> Minus(v1, m1), sum |-> Minus(sum, Delta)]
    <2>1. t.v0 = v0 /\ t.v1 = v1 /\ t.sum = sum
      <3> HIDE DEF t, v0, v1, sum
      <3> QED
        BY <1>7
    <2>2. Minus(t.v1, Mixed(t.v0, t.sum, key[2], key[3])) = s.v1
      <3> HIDE DEF t
      <3> QED
        BY <2>1, <1>6
    <2> QED
      BY <2>1, <2>2, <1>6 DEF DecryptRound
  <1> HIDE DEF t, v0, v1, m0, m1, sum
  <1>9. t \in States
    BY <1>2, <1>4, <1>6, <1>7 DEF States
  <1> QED
    BY <1>1, <1>2, <1>4, <1>6, <1>8, <1>9 DEF t

LEMMA DecryptRoundType ==
    ASSUME WellSized, NEW s \in States, NEW key \in Keys
    PROVE  DecryptRound(s, key) \in States
  <1> DEFINE m1 == Mixed(s.v0, s.sum, key[2], key[3])
             v1 == Minus(s.v1, m1)
             m0 == Mixed(v1, s.sum, key[0], key[1])
             v0 == Minus(s.v0, m0)
  <1>1. /\ s.v0 \in Words /\ s.v1 \in Words /\ s.sum \in Words /\ Delta \in Words
        /\ key[0] \in Words /\ key[1] \in Words /\ key[2] \in Words /\ key[3] \in Words
    BY DEF States, Keys, WellSized
  <1>2. m1 \in Words
    BY <1>1, MixedIsWord
  <1>3. v1 \in Words
    <2> HIDE DEF m1
    <2> QED
      BY <1>1, <1>2, Wrapping
  <1>4. m0 \in Words
    <2> HIDE DEF v1
    <2> QED
      BY <1>1, <1>3, MixedIsWord
  <1>5. v0 \in Words
    <2> HIDE DEF m0
    <2> QED
      BY <1>1, <1>4, Wrapping
  <1>6. Minus(s.sum, Delta) \in Words
    BY <1>1, Wrapping
  <1>7. DecryptRound(s, key) = [v0 |-> v0, v1 |-> v1, sum |-> Minus(s.sum, Delta)]
    BY DEF DecryptRound
  <1> HIDE DEF v0, v1
  <1> QED
    BY <1>3, <1>5, <1>6, <1>7 DEF States

-----------------------------------------------------------------------------
(* The rounds together.                                                     *)

\* A set of numbers has a least one: what an induction rests on.
LEMMA Least ==
    ASSUME NEW T, T \subseteq Nat, T # {}
    PROVE  \E x \in T : \A y \in T : ~(y < x)
  <1> DEFINE R == OpToRel(<, Nat)
  <1>1. IsWellFoundedOn(R, Nat)
    BY NatLessThanWellFounded
  <1>2. \A x, y \in Nat : y < x => <<y, x>> \in R
    BY DEF OpToRel
  <1> HIDE DEF R
  <1>3. PICK x \in T : \A y \in T : <<y, x>> \notin R
    BY <1>1, WFMin
  <1> QED
    BY <1>2, <1>3

\* A set that has 0 and the successors of its members has all up to N.
LEMMA Counting ==
    ASSUME NEW N \in Nat, NEW T, 0 \in T, \A n \in 1 .. N : n - 1 \in T => n \in T
    PROVE  0 .. N \subseteq T
  <1> DEFINE missed == (0 .. N) \ T
  <1>1. SUFFICES ASSUME missed # {} PROVE FALSE
    OBVIOUS
  <1>2. PICK x \in missed : \A y \in missed : ~(y < x)
    <2>1. missed \subseteq Nat
      OBVIOUS
    <2> HIDE DEF missed
    <2> QED
      BY <1>1, <2>1, Least
  <1>3. x \in 1 .. N /\ x - 1 \in 0 .. N /\ x - 1 < x
    BY <1>2
  <1> QED
    BY <1>2, <1>3

\* The states that a loop goes through: those that a recursive function names.
Goes(f, S, a, step, N) ==
    f \in [0 .. N -> S] /\ f[0] = a /\ \A n \in 1 .. N : f[n] = step[f[n - 1]]

LEMMA Iterates ==
    ASSUME NEW S, NEW a \in S, NEW step \in [S -> S], NEW N \in Nat
    PROVE  \E f : Goes(f, S, a, step, N)
  <1> DEFINE Good(m, f) == f[0] = a /\ \A n \in 1 .. m : f[n] = step[f[n - 1]]
             T == {m \in 0 .. N : \E f \in [0 .. m -> S] : Good(m, f)}
  <1>1. 0 \in T
    <2> DEFINE f == [n \in 0 .. 0 |-> a]
    <2>1. f \in [0 .. 0 -> S] /\ f[0] = a
      OBVIOUS
    <2> HIDE DEF f
    <2>2. Good(0, f)
      BY <2>1
    <2> QED
      BY <2>1, <2>2
  <1>2. ASSUME NEW m \in 1 .. N, m - 1 \in T PROVE m \in T
    <2>1. PICK f \in [0 .. m - 1 -> S] : Good(m - 1, f)
      BY <1>2
    <2> DEFINE g == [n \in 0 .. m |-> IF n = m THEN step[f[m - 1]] ELSE f[n]]
    <2>2. /\ m \in 0 .. N /\ m - 1 \in 0 .. m - 1 /\ 0 \in 0 .. m - 1
          /\ \A n \in 0 .. m : n # m => n \in 0 .. m - 1
          /\ \A n \in 1 .. m : n - 1 \in 0 .. m - 1 /\ (n # m => n \in 1 .. m - 1)
          /\ \A n \in 1 .. m : n - 1 \in 0 .. m /\ n - 1 # m
      OBVIOUS
    <2>3. g \in [0 .. m -> S]
      BY <2>2
    <2>4. g[m] = step[f[m - 1]] /\ \A n \in 0 .. m - 1 : g[n] = f[n]
      BY <2>2
    <2> HIDE DEF g
    <2>5. Good(m, g)
      BY <2>1, <2>2, <2>4
    <2> QED
      BY <2>2, <2>3, <2>5
  <1> HIDE DEF T
  <1>3. N \in T
    BY <1>1, <1>2, Counting
  <1> QED
    BY <1>3 DEF T, Goes

\* main.c:66, encrypter.vhd:46.
LEMMA EncryptionStates ==
    ASSUME WellSized, Rounds \in Nat, NEW block \in Blocks, NEW key \in Keys
    PROVE  LET e == Encryption(block, key)
           IN  /\ e \in [0 .. Rounds -> States]
               /\ e[0] = [v0 |-> block.v0, v1 |-> block.v1, sum |-> 0]
               /\ \A n \in 1 .. Rounds : e[n] = EncryptRound(e[n - 1], key)
  <1> DEFINE a == [v0 |-> block.v0, v1 |-> block.v1, sum |-> 0]
             step == [s \in States |-> EncryptRound(s, key)]
             Loop(f) == f = [n \in 0 .. Rounds |-> IF n = 0 THEN a ELSE EncryptRound(f[n - 1], key)]
             e == Encryption(block, key)
  <1>1. a \in States
    BY DEF Blocks, States, WellSized, Words
  <1>2. \A s \in States : step[s] = EncryptRound(s, key) /\ EncryptRound(s, key) \in States
    BY DecryptUndoesEncrypt
  <1>3. step \in [States -> States]
    BY <1>2
  <1> HIDE DEF a, step
  <1>4. PICK f : Goes(f, States, a, step, Rounds)
    BY <1>1, <1>3, Iterates
  <1>5. /\ f \in [0 .. Rounds -> States] /\ f[0] = a
        /\ \A n \in 1 .. Rounds : f[n] = step[f[n - 1]]
    BY <1>4 DEF Goes
  <1>6. \A n \in 0 .. Rounds : f[n] = IF n = 0 THEN a ELSE EncryptRound(f[n - 1], key)
    <2> SUFFICES ASSUME NEW n \in 0 .. Rounds, n # 0
                 PROVE  f[n] = EncryptRound(f[n - 1], key)
      BY <1>5
    <2>1. n \in 1 .. Rounds /\ n - 1 \in 0 .. Rounds
      OBVIOUS
    <2> QED
      BY <1>2, <1>5, <2>1
  <1>7. Loop(f)
    <2>1. f = [n \in 0 .. Rounds |-> f[n]]
      BY <1>5
    <2> QED
      BY <1>6, <2>1
  <1>8. e = CHOOSE g : Loop(g)
    BY DEF Encryption, a
  <1>9. Loop(e)
    <2> HIDE DEF Loop, e
    <2> QED
      BY <1>7, <1>8
  <1> HIDE DEF e
  <1>10. /\ DOMAIN e = 0 .. Rounds /\ e[0] = a
        /\ \A n \in 1 .. Rounds : e[n] = EncryptRound(e[n - 1], key)
    BY <1>9
  <1> DEFINE T == {n \in 0 .. Rounds : e[n] \in States}
  <1>11. 0 .. Rounds \subseteq T
    <2>1. 0 \in T
      BY <1>1, <1>10
    <2>2. ASSUME NEW n \in 1 .. Rounds, n - 1 \in T PROVE n \in T
      BY <1>2, <1>10, <2>2
    <2> HIDE DEF T
    <2> QED
      BY <2>1, <2>2, Counting
  <1>12. e \in [0 .. Rounds -> States]
    <2>1. e = [n \in 0 .. Rounds |-> e[n]]
      BY <1>9
    <2> QED
      BY <1>11, <2>1
  <1> QED
    BY <1>10, <1>12 DEF a, e

\* main.c:50, decrypter.vhd:46.
LEMMA DecryptionStates ==
    ASSUME WellSized, Rounds \in Nat, NEW block \in Blocks, NEW key \in Keys, FirstSum \in Words
    PROVE  LET e == Decryption(block, key)
           IN  /\ e \in [0 .. Rounds -> States]
               /\ e[0] = [v0 |-> block.v0, v1 |-> block.v1, sum |-> FirstSum]
               /\ \A n \in 1 .. Rounds : e[n] = DecryptRound(e[n - 1], key)
  <1> DEFINE a == [v0 |-> block.v0, v1 |-> block.v1, sum |-> FirstSum]
             step == [s \in States |-> DecryptRound(s, key)]
             Loop(f) == f = [n \in 0 .. Rounds |-> IF n = 0 THEN a ELSE DecryptRound(f[n - 1], key)]
             e == Decryption(block, key)
  <1>1. a \in States
    BY DEF Blocks, States, WellSized, Words
  <1>2. \A s \in States : step[s] = DecryptRound(s, key) /\ DecryptRound(s, key) \in States
    BY DecryptRoundType
  <1>3. step \in [States -> States]
    BY <1>2
  <1> HIDE DEF a, step
  <1>4. PICK f : Goes(f, States, a, step, Rounds)
    BY <1>1, <1>3, Iterates
  <1>5. /\ f \in [0 .. Rounds -> States] /\ f[0] = a
        /\ \A n \in 1 .. Rounds : f[n] = step[f[n - 1]]
    BY <1>4 DEF Goes
  <1>6. \A n \in 0 .. Rounds : f[n] = IF n = 0 THEN a ELSE DecryptRound(f[n - 1], key)
    <2> SUFFICES ASSUME NEW n \in 0 .. Rounds, n # 0
                 PROVE  f[n] = DecryptRound(f[n - 1], key)
      BY <1>5
    <2>1. n \in 1 .. Rounds /\ n - 1 \in 0 .. Rounds
      OBVIOUS
    <2> QED
      BY <1>2, <1>5, <2>1
  <1>7. Loop(f)
    <2>1. f = [n \in 0 .. Rounds |-> f[n]]
      BY <1>5
    <2> QED
      BY <1>6, <2>1
  <1>8. e = CHOOSE g : Loop(g)
    BY DEF Decryption, a
  <1>9. Loop(e)
    <2> HIDE DEF Loop, e
    <2> QED
      BY <1>7, <1>8
  <1> HIDE DEF e
  <1>10. /\ DOMAIN e = 0 .. Rounds /\ e[0] = a
        /\ \A n \in 1 .. Rounds : e[n] = DecryptRound(e[n - 1], key)
    BY <1>9
  <1> DEFINE T == {n \in 0 .. Rounds : e[n] \in States}
  <1>11. 0 .. Rounds \subseteq T
    <2>1. 0 \in T
      BY <1>1, <1>10
    <2>2. ASSUME NEW n \in 1 .. Rounds, n - 1 \in T PROVE n \in T
      BY <1>2, <1>10, <2>2
    <2> HIDE DEF T
    <2> QED
      BY <2>1, <2>2, Counting
  <1>12. e \in [0 .. Rounds -> States]
    <2>1. e = [n \in 0 .. Rounds |-> e[n]]
      BY <1>9
    <2> QED
      BY <1>11, <2>1
  <1> QED
    BY <1>10, <1>12 DEF a, e

\* The sum after each round.
LEMMA ScheduleSums ==
    ASSUME WellSized, Rounds \in Nat
    PROVE  /\ KeySchedule[0] = 0
           /\ \A n \in 1 .. Rounds : KeySchedule[n] = Plus(KeySchedule[n - 1], Delta)
  <1> DEFINE a == 0
             step == [s \in Words |-> Plus(s, Delta)]
             Loop(f) == f = [n \in 0 .. Rounds |-> IF n = 0 THEN a ELSE Plus(f[n - 1], Delta)]
  <1>1. a \in Words
    BY DEF WellSized, Words
  <1>2. \A s \in Words : step[s] = Plus(s, Delta) /\ Plus(s, Delta) \in Words
    BY Wrapping DEF WellSized
  <1>3. step \in [Words -> Words]
    BY <1>2
  <1> HIDE DEF a, step
  <1>4. PICK f : Goes(f, Words, a, step, Rounds)
    BY <1>1, <1>3, Iterates
  <1>5. /\ f \in [0 .. Rounds -> Words] /\ f[0] = a
         /\ \A n \in 1 .. Rounds : f[n] = step[f[n - 1]]
    BY <1>4 DEF Goes
  <1>6. \A n \in 0 .. Rounds : f[n] = IF n = 0 THEN a ELSE Plus(f[n - 1], Delta)
    <2> SUFFICES ASSUME NEW n \in 0 .. Rounds, n # 0
                 PROVE  f[n] = Plus(f[n - 1], Delta)
      BY <1>5
    <2>1. n \in 1 .. Rounds /\ n - 1 \in 0 .. Rounds
      OBVIOUS
    <2> QED
      BY <1>2, <1>5, <2>1
  <1>7. Loop(f)
    <2>1. f = [n \in 0 .. Rounds |-> f[n]]
      BY <1>5
    <2> QED
      BY <1>6, <2>1
  <1>8. KeySchedule = CHOOSE g : Loop(g)
    BY DEF KeySchedule, a
  <1>9. Loop(KeySchedule)
    <2> HIDE DEF Loop
    <2> QED
      BY <1>7, <1>8
  <1> QED
    BY <1>9 DEF a

\* The decryption starts with the sum that the encryption ends with: with the
\* numbers of the code, 32 * 0x9e3779b9 = 0x13 * 2^32 + 0xC6EF3720.
SumsMeet == FirstSum = KeySchedule[Rounds]

LEMMA EncryptionSums ==
    ASSUME WellSized, Rounds \in Nat, NEW block \in Blocks, NEW key \in Keys
    PROVE  \A n \in 0 .. Rounds : Encryption(block, key)[n].sum = KeySchedule[n]
  <1> DEFINE e == Encryption(block, key)
             T == {n \in 0 .. Rounds : e[n].sum = KeySchedule[n]}
  <1>1. /\ e[0] = [v0 |-> block.v0, v1 |-> block.v1, sum |-> 0]
        /\ \A n \in 1 .. Rounds : e[n] = EncryptRound(e[n - 1], key)
    BY EncryptionStates
  <1> HIDE DEF e
  <1>2. \A n \in 1 .. Rounds : e[n].sum = Plus(e[n - 1].sum, Delta)
    <2>1. \A s : EncryptRound(s, key).sum = Plus(s.sum, Delta)
      BY DEF EncryptRound
    <2> QED
      BY <1>1, <2>1
  <1>3. 0 \in T
    BY <1>1, ScheduleSums
  <1>4. ASSUME NEW n \in 1 .. Rounds, n - 1 \in T PROVE n \in T
    BY <1>2, <1>4, ScheduleSums
  <1>5. 0 .. Rounds \subseteq T
    <2> HIDE DEF T
    <2> QED
      BY <1>3, <1>4, Counting
  <1> QED
    BY <1>5 DEF e

\* What the bank sends the machine can read, and the other way round: the
\* decryption (decrypter.vhd:46, main.c:50) gives back every block that was
\* encrypted (encrypter.vhd:46, main.c:66) with the same key.
THEOREM DecryptionRestoresBlock ==
    ASSUME WellSized, Rounds \in Nat, SumsMeet, NEW block \in Blocks, NEW key \in Keys
    PROVE  decrypt(encrypt(block, key), key) = block
  <1> DEFINE e == Encryption(block, key)
             c == encrypt(block, key)
             d == Decryption(c, key)
             T == {n \in 0 .. Rounds : d[n] = e[Rounds - n]}
  <1>1. /\ e \in [0 .. Rounds -> States]
        /\ e[0] = [v0 |-> block.v0, v1 |-> block.v1, sum |-> 0]
        /\ \A n \in 1 .. Rounds : e[n] = EncryptRound(e[n - 1], key)
    BY EncryptionStates
  <1>2. e[Rounds].sum = FirstSum
    BY EncryptionSums DEF SumsMeet
  <1>3. c = BlockOf(e[Rounds])
    BY DEF encrypt
  <1> HIDE DEF e, c
  <1>4. /\ e[Rounds] \in States
        /\ e[Rounds] = [v0 |-> e[Rounds].v0, v1 |-> e[Rounds].v1, sum |-> e[Rounds].sum]
    BY <1>1 DEF States
  <1>5. /\ c \in Blocks /\ FirstSum \in Words
        /\ e[Rounds] = [v0 |-> c.v0, v1 |-> c.v1, sum |-> FirstSum]
    BY <1>2, <1>3, <1>4 DEF BlockOf, Blocks, States
  <1>6. /\ d[0] = [v0 |-> c.v0, v1 |-> c.v1, sum |-> FirstSum]
        /\ \A n \in 1 .. Rounds : d[n] = DecryptRound(d[n - 1], key)
    BY <1>5, DecryptionStates
  <1>7. decrypt(c, key) = BlockOf(d[Rounds])
    BY DEF decrypt
  <1> HIDE DEF d
  <1>8. 0 \in T
    BY <1>5, <1>6
  <1>9. ASSUME NEW n \in 1 .. Rounds, n - 1 \in T PROVE n \in T
    <2>1. /\ Rounds - n \in 0 .. Rounds /\ Rounds - n + 1 \in 1 .. Rounds
          /\ Rounds - (n - 1) = Rounds - n + 1 /\ (Rounds - n + 1) - 1 = Rounds - n
      OBVIOUS
    <2>2. d[n - 1] = e[Rounds - n + 1]
      BY <1>9, <2>1
    <2>3. e[Rounds - n + 1] = EncryptRound(e[Rounds - n], key)
      BY <1>1, <2>1
    <2>4. e[Rounds - n] \in States
      BY <1>1, <2>1
    <2>5. DecryptRound(e[Rounds - n + 1], key) = e[Rounds - n]
      BY <2>3, <2>4, DecryptUndoesEncrypt
    <2> QED
      BY <1>6, <2>2, <2>5
  <1>10. Rounds \in T
    <2> HIDE DEF T
    <2> QED
      BY <1>8, <1>9, Counting
  <1>11. d[Rounds] = e[0]
    BY <1>10
  <1>12. BlockOf(e[0]) = block
    BY <1>1 DEF BlockOf, Blocks
  <1> QED
    BY <1>7, <1>11, <1>12 DEF c
=============================================================================
