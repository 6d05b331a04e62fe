------------------------------ MODULE MCAtmSync ------------------------------
(***************************************************************************)
(* An instance of AtmSync for TLC: three entries in the cache.              *)
(***************************************************************************)
EXTENDS MCAtmController, AtmSync

\* Two cards, the own bank's; the third customer is one of them again.
SyncRequests == {Word(2, 0, 1), Word(4, 1, 0)}

SyncHostWords == {Word(0, 0, 1)}

=============================================================================
