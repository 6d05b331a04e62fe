------------------------------ MODULE TapPort -------------------------------
(***************************************************************************)
(* The JTAG chain behind the four lines of the micro-controller: the state   *)
(* machine of IEEE 1149.1, by the state names of xsvf.h, with a record of    *)
(* what reached it.  Nothing here is code of the repository.                 *)
(***************************************************************************)
EXTENDS Integers, Sequences, SequencesExt

\* The next state for TMS low and TMS high.
TapTable == [
    TEST_LOGIC_RESET |-> <<"RUN_TEST_IDLE", "TEST_LOGIC_RESET">>,
    RUN_TEST_IDLE |-> <<"RUN_TEST_IDLE", "SELECT_DR">>,
    SELECT_DR |-> <<"CAPTURE_DR", "SELECT_IR">>,  SELECT_IR |-> <<"CAPTURE_IR", "TEST_LOGIC_RESET">>,
    CAPTURE_DR |-> <<"SHIFT_DR", "EXIT1_DR">>,    CAPTURE_IR |-> <<"SHIFT_IR", "EXIT1_IR">>,
    SHIFT_DR |-> <<"SHIFT_DR", "EXIT1_DR">>,      SHIFT_IR |-> <<"SHIFT_IR", "EXIT1_IR">>,
    EXIT1_DR |-> <<"PAUSE_DR", "UPDATE_DR">>,     EXIT1_IR |-> <<"PAUSE_IR", "UPDATE_IR">>,
    PAUSE_DR |-> <<"PAUSE_DR", "EXIT2_DR">>,      PAUSE_IR |-> <<"PAUSE_IR", "EXIT2_IR">>,
    EXIT2_DR |-> <<"SHIFT_DR", "UPDATE_DR">>,     EXIT2_IR |-> <<"SHIFT_IR", "UPDATE_IR">>,
    UPDATE_DR |-> <<"RUN_TEST_IDLE", "SELECT_DR">>,
    UPDATE_IR |-> <<"RUN_TEST_IDLE", "SELECT_DR">>]

TapStates == DOMAIN TapTable

\* shifted: the bits clocked into the register since the last capture; answer:
\* the bits the chain captures and gives back; done: what has been latched since
\* the last reset, with the answer given and the clocks spent idle afterwards.
Chain(state, answer) == [state |-> state, shifted |-> <<>>, answer |-> answer, done |-> <<>>]

Latched(reg, bits, answer) == [reg |-> reg, bits |-> bits, answer |-> answer, idle |-> 0]

\* The level of TDO: the next bit of the answer, zeros behind its end.
TdoOf(chain) ==
    LET next == Len(chain.shifted) + 1
    IN  IF next <= Len(chain.answer) THEN chain.answer[next] ELSE 0

ChainIdles(chain, clocks) ==
    IF chain.done = <<>> THEN chain
    ELSE [chain EXCEPT !.done[Len(chain.done)].idle = @ + clocks]

\* A rising edge of TCK.
ClockChain(chain, tms, tdi) ==
    LET next == TapTable[chain.state][tms + 1]
        moved == [chain EXCEPT !.state = next]
    IN  CASE chain.state \in {"CAPTURE_DR", "CAPTURE_IR"} -> [moved EXCEPT !.shifted = <<>>]
          [] chain.state \in {"SHIFT_DR", "SHIFT_IR"} -> [moved EXCEPT !.shifted = Append(@, tdi)]
          [] next = "UPDATE_DR" -> [moved EXCEPT !.done = Append(@, Latched("DR", chain.shifted, chain.answer))]
          [] next = "UPDATE_IR" -> [moved EXCEPT !.done = Append(@, Latched("IR", chain.shifted, <<>>))]
          [] next = "TEST_LOGIC_RESET" -> [moved EXCEPT !.done = <<>>]
          [] next = "RUN_TEST_IDLE" /\ chain.state = next -> ChainIdles(moved, 1)
          [] OTHER -> moved

\* An edge for each pair of levels of TMS and TDI.
ClockEdges(chain, levels) ==
    LET edge(before, level) == CHOOSE after \in {ClockChain(c, level[1], level[2]) : c \in {before}} : TRUE
    IN  FoldLeft(edge, chain, levels)
=============================================================================
