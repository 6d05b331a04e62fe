---------------------------- MODULE CipherRounds ----------------------------
(***************************************************************************)
(* What the rounds of the cipher compute: in the machine (encrypter.vhd,    *)
(* decrypter.vhd) and again in the bank (main.c), which must undo each      *)
(* other's.  CipherUnit is the clocking of the same units.                  *)
(* A word is a number below Modulus, a block two words; a state of the      *)
(* computation is a block and the running sum of the key schedule.          *)
(***************************************************************************)
EXTENDS Integers

CONSTANTS Modulus,                  \* 2^32
          LeftShift, RightShift,    \* 2^4, 2^5
          Delta,                    \* added to the sum by a round: 0x9e3779b9
          Rounds,                   \* 32
          FirstSum,                 \* of the decryption: 0xC6EF3720
          Xor(_, _)

Words  == 0 .. Modulus - 1
Keys   == [0 .. 3 -> Words]
Blocks == [v0 : Words, v1 : Words]
States == [v0 : Words, v1 : Words, sum : Words]

\* Addition and subtraction of words wrap round.
Plus(a, b)  == IF a + b < Modulus THEN a + b ELSE a + b - Modulus
Minus(a, b) == IF a >= b THEN a - b ELSE a - b + Modulus

\* What is added to one word of a block, from the other and half of the key.
Mixed(v, sum, a, b) ==
    Xor(Xor(Plus((v * LeftShift) % Modulus, a), Plus(v, sum)), Plus(v \div RightShift, b))

EncryptRound(s, key) ==
    LET sum == Plus(s.sum, Delta)
        v0  == Plus(s.v0, Mixed(s.v1, sum, key[0], key[1]))
        v1  == Plus(s.v1, Mixed(v0, sum, key[2], key[3]))
    IN [v0 |-> v0, v1 |-> v1, sum |-> sum]

DecryptRound(s, key) ==
    LET v1 == Minus(s.v1, Mixed(s.v0, s.sum, key[2], key[3]))
        v0 == Minus(s.v0, Mixed(v1, s.sum, key[0], key[1]))
    IN [v0 |-> v0, v1 |-> v1, sum |-> Minus(s.sum, Delta)]

\* The states of a computation, from before its first round on.
Encryption(block, key) ==
    LET after[n \in 0 .. Rounds] ==
            IF n = 0 THEN [v0 |-> block.v0, v1 |-> block.v1, sum |-> 0]
                     ELSE EncryptRound(after[n - 1], key)
    IN after

Decryption(block, key) ==
    LET after[n \in 0 .. Rounds] ==
            IF n = 0 THEN [v0 |-> block.v0, v1 |-> block.v1, sum |-> FirstSum]
                     ELSE DecryptRound(after[n - 1], key)
    IN after

BlockOf(s) == [v0 |-> s.v0, v1 |-> s.v1]

encrypt(block, key) == BlockOf(Encryption(block, key)[Rounds])
decrypt(block, key) == BlockOf(Decryption(block, key)[Rounds])

\* The sum that the encryption ends with, whatever the block and the key.
KeySchedule ==
    LET sum[n \in 0 .. Rounds] == IF n = 0 THEN 0 ELSE Plus(sum[n - 1], Delta)
    IN sum
=============================================================================
