---------------------------- MODULE MCAtmSystem ----------------------------
(***************************************************************************)
(* Model-checking instances of AtmSystem: two customers and an              *)
(* administrator, a bank whose number rotates the PIN by one place.         *)
(***************************************************************************)
EXTENDS AtmSystem

Account(uid, pin, admin, bal) == [uid |-> uid, hash |-> myHash(pin), admin |-> admin, bal |-> bal]

MCAccounts == <<Account(1, 1, FALSE, 12), Account(5, 2, FALSE, 6), Account(9, 1, TRUE, 0)>>

\* Enough for both customers once and too much a second time, an amount that is
\* negative as an int, a wrong PIN, a card of another bank, and notes.
MCRequests == {Word(1, 1, 4), Word(1, 1, 130), Word(5, 2, 3), Word(5, 1, 1), Word(2, 2, 1),
               Word(9, 1, 20)}

\* What a block that nobody sealed opens to: no user of the bank.
MCGarbledWords == {Word(0, 3, 7)}
=============================================================================
