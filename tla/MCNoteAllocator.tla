--------------------------- MODULE MCNoteAllocator ---------------------------
(***************************************************************************)
(* Small instances of NoteAllocator for TLC.  The note values keep the     *)
(* ratios of the code's 2000, 1000, 500, 100, which are 20 : 10 : 5 : 1,   *)
(* doubled so that amounts no set of notes pays exist.  IntRange exceeds   *)
(* what the machine can hold, as 2^31 does in the code, and the inputs     *)
(* hold one amount with the wrapped bit set.                               *)
(***************************************************************************)
EXTENDS NoteAllocator

MCValue == <<40, 20, 10, 2>>

Port(s, l, t, a) == [stock |-> s, limit |-> l, total |-> t, amount |-> a]

\* Few inputs, for a client that may drop an allocation at any step.
FewInputs ==
    { Port(s, <<4, 4, 4, 4>>, IntRange + 40, a) :
        s \in {<<4, 0, 1, 4>>, <<0, 3, 1, 0>>}, a \in {80, 92, IntRange + 20} }
    \cup { Port(<<4, 4, 4, 4>>, <<1, 0, 2, 4>>, 70, a) : a \in {66, 68, 72} }

\* More inputs, for a client that waits.
ManyInputs ==
    { Port(sl[1], sl[2], 148, a) :
        sl \in { << <<4, 1, 0, 4>>, <<4, 4, 4, 4>> >>,
                 << <<1, 4, 2, 0>>, <<3, 2, 2, 4>> >>,
                 << <<0, 3, 4, 4>>, <<4, 4, 1, 3>> >> },
        a \in {18, 29, 64, 96, 148, 150, IntRange + 40} }

\* The notes are such that a no can mean that nothing would do.
ASSUME NotesFit == Chained /\ CountsAll

=============================================================================
