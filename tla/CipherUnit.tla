----------------------------- MODULE CipherUnit -----------------------------
(***************************************************************************)
(* The handshake the encrypter and the decrypter share                     *)
(* (src/frontend/encrypter.vhd, decrypter.vhd): start high loads the input *)
(* word and turns one cipher round per clock, then the result and done     *)
(* stand until start is low.  What the rounds compute is a parameter.      *)
(***************************************************************************)
EXTENDS Naturals

CONSTANTS
    Rounds,         \* cipher rounds: 32
    Blank,          \* the output of a unit that was reset: 64 zeros
    Results(_)      \* the words the rounds may turn a loaded word into

VARIABLES
    start, input,   \* the client's lines
    round,          \* 0 .. Rounds + 1
    loaded,         \* the word in v0, v1
    output, done

Init(word) ==
    /\ round = 0
    /\ loaded = word
    /\ output = Blank
    /\ done = FALSE

\* The first round takes the input in.
Load ==
    /\ start
    /\ round = 0
    /\ round' = 1
    /\ loaded' = input
    /\ done' = FALSE
    /\ UNCHANGED output

Turn ==
    /\ start
    /\ round \in 1..(Rounds - 1)
    /\ round' = round + 1
    /\ UNCHANGED <<loaded, output, done>>

Finish ==
    /\ start
    /\ round = Rounds
    /\ round' = Rounds + 1
    /\ output' \in Results(loaded)
    /\ done' = TRUE
    /\ UNCHANGED loaded

\* The result stands; the input is not looked at again.
Hold ==
    /\ start
    /\ round = Rounds + 1
    /\ UNCHANGED <<round, loaded, output, done>>

StartLow ==
    /\ ~start
    /\ round' = 0
    /\ done' = FALSE
    /\ UNCHANGED <<loaded, output>>

ClockEdge == Load \/ Turn \/ Finish \/ Hold \/ StartLow

\* The asynchronous reset.
ResetRegisters ==
    /\ round' = 0
    /\ output' = Blank
    /\ done' = FALSE
    /\ UNCHANGED loaded

=============================================================================
