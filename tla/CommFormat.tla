----------------------------- MODULE CommFormat -----------------------------
(***************************************************************************)
(* The messages of the CommFPGA protocol, which the host writes             *)
(* (libfpgalink.c) and the FPGA reads (comm_fgpa_fx2.vhd): a byte with the  *)
(* direction and the channel, two bytes of length, the data.  The numbers   *)
(* are parameters so that a small instance reaches their limits.            *)
(***************************************************************************)
EXTENDS Naturals, Sequences

CONSTANTS Radix,      \* values of one byte of the length (256)
          Channels    \* number of channels (128)

ASSUME FormatAssumption == Radix \in Nat \ {0, 1} /\ Channels \in Nat \ {0}

MaxLength == Radix * Radix   \* the length that is sent as two zero bytes (0x10000)

\* One byte that a call asks for or a channel sees.  Bytes are numbered by
\* their place among all of them.
Transfer(chan, read, byte) == [chan |-> chan, read |-> read, byte |-> byte]
=============================================================================
