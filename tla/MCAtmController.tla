--------------------------- MODULE MCAtmController ---------------------------
(***************************************************************************)
(* Small instances of AtmController for TLC: bytes of four values, words   *)
(* of two bytes, a cache of two entries, cipher units of two rounds.       *)
(***************************************************************************)
EXTENDS AtmController, Bitwise

MCValue == <<20, 10, 5, 1>>

Low(a, b, c, d) == 64 * a + 16 * b + 4 * c + d

\* A card with its right and a wrong PIN, a second card of the bank, and a card
\* of the other bank.
MCRequests == {Word(2, 0, 7), Word(2, 1, 7), Word(4, 0, 2), Word(3, 0, 2)}

\* As note counts and as balances.
MCHostWords == {Word(0, 0, Low(0, 0, 1, 3))}
MCGarbledWords == {Word(1, 1, Low(0, 0, 0, 1))}

\* Total and note limits.
MCSetupWords == {Word(50, 0, Low(3, 3, 3, 3))}

\* One card, cached by its first request and served offline at the second.
OneCard == {Word(2, 0, 1)}

\* A card of the other bank and one of this bank, both asking for two notes of
\* the smallest kind, which the search finds in more clocks than the cipher has
\* rounds: the ratio of the code's 42 clocks to its 32 rounds.
SlowRequests == {Word(3, 0, 2), Word(2, 0, 2)}
SlowHostWords == {Word(0, 0, Low(0, 0, 3, 3))}

-----------------------------------------------------------------------------
\* Three rounds of the cipher on words of three bits, which a shift to the left
\* overflows.  The sum of the decryption starts where the encryption ends.
BitXor(a, b) == a ^^ b

Cipher == INSTANCE CipherRounds
              WITH Modulus <- 8, LeftShift <- 2, RightShift <- 4, Delta <- 5,
                   Rounds <- 3, FirstSum <- 7, Xor <- BitXor

\* What the machine encrypts the bank can read and the other way round
\* (encrypter.vhd:46, main.c:50; main.c:66, decrypter.vhd:46), and two blocks
\* never encrypt to the same one.
ASSUME CipherInverts ==
    \A key \in [0 .. 3 -> {0, 3, 6}] :
        /\ \A b \in Cipher!Blocks :
              Cipher!decrypt(Cipher!encrypt(b, key), key) = b
        /\ {Cipher!encrypt(b, key) : b \in Cipher!Blocks} = Cipher!Blocks

\* A search of up to 255 notes halves its bracket eight times at most and settles:
\* with the 32 rounds and the time-out of the code it ends before it is used.
CodeClocks == [w \in 0..255 |-> IF w <= 1 THEN 1 ELSE 1 + CHOOSE b \in 1..8 : 2^(b - 1) < w /\ w <= 2^b]

ASSUME SearchIsInTime ==
    Allocator!AllocationClocks(CodeClocks, 255) = 42 /\ OutlastsSearch(CodeClocks, 255, 32, 31)

=============================================================================
