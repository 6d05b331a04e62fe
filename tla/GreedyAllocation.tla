-------------------------- MODULE GreedyAllocation --------------------------
(***************************************************************************)
(* What the note allocator promises: an allocation takes, from the largest *)
(* denomination to the smallest, as many notes as the remainder and the    *)
(* available notes allow, and then gives its verdict.  How many that is is *)
(* stated, not searched for.  NoteAllocator implements this for a client   *)
(* that waits for the answer.                                              *)
(***************************************************************************)
EXTENDS Integers

CONSTANTS Value, MaxNotes, IntRange, Inputs

Kinds == 1..4

VARIABLES
    start, port,            \* the client's lines, as in NoteAllocator
    stage,                  \* 0 waiting, 1..4 the kind to pay, 5 verdict, 6 told
    rest,                   \* what is left to pay
    paid,
    possible, done

vars == <<start, port, stage, rest, paid, possible, done>>

Avail(k) == IF port.stock[k] < port.limit[k] THEN port.stock[k] ELSE port.limit[k]

Init ==
    /\ start = FALSE
    /\ port \in Inputs
    /\ stage = 0
    /\ rest = 0
    /\ paid = [k \in Kinds |-> 0]
    /\ possible = FALSE
    /\ done = FALSE

Begin ==
    /\ start
    /\ stage = 0
    /\ stage' = 1
    /\ rest' = port.amount % IntRange
    /\ done' = FALSE
    /\ UNCHANGED <<start, port, paid, possible>>

\* q is the largest number of notes that are available and fit the remainder.
IsMost(k, q) ==
    /\ q <= Avail(k)
    /\ Value[k] * q <= rest
    /\ q < Avail(k) => rest < Value[k] * (q + 1)

PayMost(k) ==
    /\ start
    /\ stage = k
    /\ \E q \in 0..MaxNotes :
         /\ IsMost(k, q)
         /\ rest' = rest - Value[k] * q
         /\ paid' = [paid EXCEPT ![k] = q]
    /\ stage' = k + 1
    /\ UNCHANGED <<start, port, possible, done>>

Tell ==
    /\ start
    /\ stage = 5
    /\ stage' = 6
    /\ possible' = (port.amount < IntRange /\ port.amount <= port.total /\ rest = 0)
    /\ done' = TRUE
    /\ UNCHANGED <<start, port, rest, paid>>

Withdraw ==
    /\ ~start
    /\ stage' = 0
    /\ possible' = FALSE
    /\ done' = FALSE
    /\ UNCHANGED <<start, port, rest, paid>>

Ask ==
    /\ ~start
    /\ stage = 0
    /\ start' = TRUE
    /\ port' \in Inputs
    /\ UNCHANGED <<stage, rest, paid, possible, done>>

Release ==
    /\ start
    /\ done
    /\ start' = FALSE
    /\ UNCHANGED <<port, stage, rest, paid, possible, done>>

Reset ==
    /\ start' = FALSE
    /\ stage' = 0
    /\ rest' = 0
    /\ possible' = FALSE
    /\ done' = FALSE
    /\ UNCHANGED <<port, paid>>

Next ==
    \/ Begin
    \/ \E k \in Kinds : PayMost(k)
    \/ Tell
    \/ Withdraw
    \/ Ask
    \/ Release
    \/ Reset

Spec == Init /\ [][Next]_vars

=============================================================================
