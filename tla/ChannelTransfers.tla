-------------------------- MODULE ChannelTransfers --------------------------
(***************************************************************************)
(* What the channel calls of the FPGALink library promise                   *)
(* (libfpgalink.h), whatever they do with buffers, chunks, queues and       *)
(* messages: the channels see exactly the bytes that the calls wrote and    *)
(* read, each once and in the order of the calls, and the reads are         *)
(* answered in the order they were asked for, each with its own bytes.      *)
(***************************************************************************)
EXTENDS Naturals, Sequences, SequencesExt

VARIABLES asked,      \* the bytes that the calls so far write or read
          performed,  \* the bytes that the channels have seen
          reads,      \* where each read starts, and its length
          answers     \* what each read returned

vars == <<asked, performed, reads, answers>>

Init == asked = <<>> /\ performed = <<>> /\ reads = <<>> /\ answers = <<>>

\* A call asks for more bytes, and for the reads among them.
Ask ==
    /\ IsPrefix(asked, asked') /\ IsPrefix(reads, reads')
    /\ UNCHANGED <<performed, answers>>

\* A channel sees the next byte.
Perform ==
    /\ performed' # performed /\ IsPrefix(performed', asked)
    /\ Len(performed') = Len(performed) + 1
    /\ UNCHANGED <<asked, reads, answers>>

\* The oldest unanswered read returns the bytes that its channel gave.
Answer ==
    LET read == reads[Len(answers) + 1]
        last == read.first + read.count - 1
    IN /\ Len(answers) < Len(reads) /\ last <= Len(performed)
       /\ answers' = answers \o <<[i \in 1 .. read.count |-> performed[read.first + i - 1].byte]>>
       /\ UNCHANGED <<asked, performed, reads>>

Next == Ask \/ Perform \/ Answer
=============================================================================
