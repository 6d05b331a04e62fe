------------------------------ MODULE Debouncer ------------------------------
(***************************************************************************)
(* The debouncer of one button (debouncer.vhd), clock by clock: its output  *)
(* takes a level of the button when WaitCycles clocks in a row have seen    *)
(* no change.  The counter is not set at power-up and is not stopped: a     *)
(* button that is left alone makes it go round.                             *)
(***************************************************************************)
EXTENDS Naturals, TLAPS

CONSTANTS WaitCycles,   \* 16#F423F
          CountRange    \* values of the counter: 2^20

VARIABLES
  oldbutton, count, button_deb,
  steady      \* history: the clocks that saw this level since the last change;
              \* 0 before the first change

vars == <<oldbutton, count, button_deb, steady>>

\* The counter and the output are whatever the registers come up with.
Init ==
    /\ oldbutton = TRUE
    /\ count \in 0 .. CountRange - 1
    /\ button_deb \in BOOLEAN
    /\ steady = 0

Change(button) ==
    /\ button # oldbutton
    /\ oldbutton' = button
    /\ count' = 0
    /\ steady' = 1
    /\ UNCHANGED button_deb

Persist(button) ==
    /\ button = oldbutton
    /\ count' = (count + 1) % CountRange
    /\ button_deb' = IF count' = WaitCycles THEN oldbutton ELSE button_deb
    /\ steady' = IF steady = 0 THEN 0 ELSE steady + 1
    /\ UNCHANGED oldbutton

Next == \E button \in BOOLEAN : Change(button) \/ Persist(button)

Spec == Init /\ [][Next]_vars

-----------------------------------------------------------------------------
\* After the first change the output only takes a level that more than
\* WaitCycles clocks in a row have seen: no bounce gets through, also when the
\* counter has gone round.
OnlySteadyPasses ==
    [][button_deb' # button_deb /\ steady' > 0 => button_deb' = oldbutton' /\ steady' > WaitCycles]_vars

\* A level that is held that long does get through.
SteadyPasses == steady > WaitCycles => button_deb = oldbutton

-----------------------------------------------------------------------------
\* The proofs hold for every waiting time that the counter can reach and whatever
\* the registers hold at power-up.
WaitFits == WaitCycles \in Nat \ {0} /\ CountRange \in Nat /\ WaitCycles < CountRange

\* After a change the counter is at most one behind the clocks of that level,
\* and exactly one until the level is taken.
CountInv ==
    /\ count \in 0 .. CountRange - 1 /\ steady \in Nat
    /\ steady > 0 => steady > count
    /\ steady \in 1 .. WaitCycles => steady = count + 1
    /\ steady > WaitCycles => button_deb = oldbutton

LEMMA Counted ==
    ASSUME WaitFits, NEW c \in 0 .. CountRange - 1
    PROVE  /\ (c + 1) % CountRange \in 0 .. CountRange - 1
           /\ (c + 1) % CountRange <= c + 1
           /\ c < WaitCycles => (c + 1) % CountRange = c + 1
  <1>1. CASE c + 1 = CountRange
    <2>1. CountRange % CountRange = 0
      BY DEF WaitFits
    <2> QED
      BY <1>1, <2>1 DEF WaitFits
  <1>2. CASE c + 1 < CountRange
    BY <1>2 DEF WaitFits
  <1> QED
    BY <1>1, <1>2 DEF WaitFits

LEMMA InitCounts == WaitFits /\ Init => CountInv
  <1> SUFFICES ASSUME WaitFits, Init PROVE CountInv
    OBVIOUS
  <1>1. count \in 0 .. CountRange - 1 /\ steady = 0
    BY DEF Init
  <1> QED
    BY <1>1 DEF WaitFits, CountInv

LEMMA StepCounts ==
    ASSUME WaitFits, CountInv, [Next]_vars
    PROVE  CountInv'
  <1>1. CASE UNCHANGED vars
    BY <1>1 DEF CountInv, vars
  <1>2. ASSUME NEW button \in BOOLEAN, Change(button) PROVE CountInv'
    BY <1>2 DEF WaitFits, CountInv, Change
  <1>3. ASSUME NEW button \in BOOLEAN, Persist(button) PROVE CountInv'
    <2>1. /\ count' \in 0 .. CountRange - 1 /\ count' <= count + 1
          /\ count < WaitCycles => count' = count + 1
      BY <1>3, Counted DEF CountInv, Persist
    <2>2. /\ steady' = (IF steady = 0 THEN 0 ELSE steady + 1) /\ oldbutton' = oldbutton
          /\ button_deb' = IF count' = WaitCycles THEN oldbutton ELSE button_deb
      BY <1>3 DEF Persist
    <2>3. steady' \in Nat
      BY <2>2 DEF CountInv
    <2>4. steady' > 0 => steady' > count'
      BY <2>1, <2>2 DEF CountInv
    <2>5. steady' \in 1 .. WaitCycles => steady' = count' + 1
      <3> SUFFICES ASSUME steady' \in 1 .. WaitCycles PROVE steady' = count' + 1
        OBVIOUS
      <3>1. /\ WaitCycles \in Nat /\ steady \in Nat /\ count \in Nat
            /\ steady' = IF steady = 0 THEN 0 ELSE steady + 1
        BY <2>2 DEF WaitFits, CountInv
      <3>2. steady \in 1 .. WaitCycles /\ steady < WaitCycles /\ steady' = steady + 1
        BY <3>1
      <3>3. steady = count + 1
        BY <3>2 DEF CountInv
      <3>4. count < WaitCycles
        BY <3>1, <3>2, <3>3
      <3>5. count' = count + 1
        BY <2>1, <3>4
      <3> QED
        BY <3>2, <3>3, <3>5
    <2>6. steady' > WaitCycles => button_deb' = oldbutton'
      <3>1. CASE steady > WaitCycles
        BY <2>2, <3>1 DEF CountInv
      <3>2. CASE steady = WaitCycles
        <4>1. count' = WaitCycles
          BY <2>1, <3>2 DEF WaitFits, CountInv
        <4> QED
          BY <2>2, <4>1
      <3>3. CASE steady < WaitCycles
        BY <2>2, <3>3 DEF WaitFits, CountInv
      <3> QED
        BY <3>1, <3>2, <3>3 DEF WaitFits, CountInv
    <2> QED
      BY <2>1, <2>3, <2>4, <2>5, <2>6 DEF CountInv
  <1> QED
    BY <1>1, <1>2, <1>3 DEF Next

LEMMA StepPasses ==
    ASSUME WaitFits, CountInv, CountInv', [Next]_vars
    PROVE  button_deb' # button_deb /\ steady' > 0
               => button_deb' = oldbutton' /\ steady' > WaitCycles
  <1> SUFFICES ASSUME button_deb' # button_deb, steady' > 0
               PROVE  button_deb' = oldbutton' /\ steady' > WaitCycles
    OBVIOUS
  <1>1. PICK button \in BOOLEAN : Persist(button)
    BY DEF Next, Change, vars
  <1>2. count' = WaitCycles /\ button_deb' = oldbutton /\ oldbutton' = oldbutton
    BY <1>1 DEF Persist
  <1> QED
    BY <1>2 DEF CountInv, WaitFits

\* debouncer.vhd:22: a bounce does not reach the main process, whatever the
\* waiting time and the power-up value of the counter.
THEOREM BouncesAreDropped ==
    ASSUME WaitFits
    PROVE  Spec => OnlySteadyPasses
  <1>1. Init => CountInv
    BY InitCounts
  <1>2. CountInv /\ [Next]_vars => CountInv'
    BY StepCounts
  <1>3. CountInv /\ CountInv' /\ [Next]_vars =>
            [button_deb' # button_deb /\ steady' > 0
                 => button_deb' = oldbutton' /\ steady' > WaitCycles]_vars
    BY StepPasses
  <1> QED
    BY <1>1, <1>2, <1>3, PTL DEF Spec, OnlySteadyPasses

\* debouncer.vhd:26: a press that is held reaches the main process.
THEOREM PressesArrive ==
    ASSUME WaitFits
    PROVE  Spec => []SteadyPasses
  <1>1. Init => CountInv
    BY InitCounts
  <1>2. CountInv /\ [Next]_vars => CountInv'
    BY StepCounts
  <1>3. CountInv => SteadyPasses
    BY DEF CountInv, SteadyPasses
  <1> QED
    BY <1>1, <1>2, <1>3, PTL DEF Spec
=============================================================================
