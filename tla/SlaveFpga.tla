----------------------------- MODULE SlaveFpga ------------------------------
(***************************************************************************)
(* An FPGA in slave serial or parallel mode on the pins of the programmer,   *)
(* as xProgram and aProgram expect it: PROG low clears it, INIT rises when   *)
(* it is ready, it takes bytes, and in the end raises DONE, or lowers INIT   *)
(* when what it took is not a configuration.  DONE may need clocks beyond    *)
(* the end of the file.  Nothing here is code of the repository.             *)
(***************************************************************************)
EXTENDS CsvfFormat

CONSTANTS
    Configuration,      \* the bytes it must be given
    StartUpBytes,       \* bytes of clocks it may need behind them
    Wiring              \* for each board the place on the wires of every bit of a byte

Boards == DOMAIN Wiring     \* by the algorithm that programs them: "XP", "XS", "AS"

FpgaPhases == {"running", "told", "cleared", "ready", "failed"}

\* progLow: the level of PROG; taken: the bytes since it was cleared; wants: how
\* many there must be for DONE to rise.
FpgaAtStart(board) ==
    [board |-> board, phase |-> "running", progLow |-> FALSE, taken |-> <<>>, wants |-> Len(Configuration)]

FpgaPin(fpga, pin) ==
    LET high == CASE pin = "INIT" -> {"running", "told", "ready"}
                  [] pin = "DONE" -> {"running", "told"}
                  [] OTHER -> {}
    IN  IF fpga.phase \in high THEN 1 ELSE 0

\* Altera's is cleared within a call, and raises CONF_DONE with the last byte.
FpgaSeesProg(fpga, config) ==
    CASE config # "PIN_LOW" -> [fpga EXCEPT !.progLow = FALSE]
      [] config = "PIN_LOW" /\ fpga.board = "AS" ->
            [fpga EXCEPT !.progLow = TRUE, !.phase = "cleared", !.taken = <<>>]
      [] config = "PIN_LOW" /\ fpga.board # "AS" ->
            [fpga EXCEPT !.progLow = TRUE, !.phase = "told"]

\* Bit k of a byte of the configuration is expected at place wiring[k].
Unwired(byte, wiring) ==
    MapThenSumSet(LAMBDA k : ((byte \div 2^wiring[k]) % 2) * 2^k, 0 .. ByteBits - 1)

\* Bytes arrive; the check comes at the end of the configuration.
FpgaTakes(fpga, bytes) ==
    LET taken == fpga.taken \o [i \in DOMAIN bytes |-> Unwired(bytes[i], Wiring[fpga.board])]
        whole == Len(taken) >= Len(Configuration)
        right == SubSeq(taken, 1, Len(Configuration)) = Configuration
        phase == CASE whole /\ ~right -> "failed"
                   [] whole /\ right /\ Len(taken) >= fpga.wants -> "running"
                   [] OTHER -> "ready"
    IN  IF fpga.phase = "ready" THEN [fpga EXCEPT !.taken = taken, !.phase = phase] ELSE fpga

\* What it does by itself: it notices PROG, clears its memory while PROG is low
\* and gets ready when it is high again.
FpgaNext(fpga) ==
    CASE fpga.phase = "told" ->
            {[fpga EXCEPT !.phase = "cleared", !.taken = <<>>, !.wants = Len(Configuration) + n] :
                n \in 0 .. StartUpBytes}
      [] fpga.phase = "cleared" /\ ~fpga.progLow -> {[fpga EXCEPT !.phase = "ready"]}
      [] OTHER -> {}
=============================================================================
