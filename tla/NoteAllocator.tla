---------------------------- MODULE NoteAllocator ----------------------------
(***************************************************************************)
(* The note allocator of the ATM (src/frontend/note_allocator.vhd): a      *)
(* clocked state machine that splits an amount into 2000, 1000, 500 and    *)
(* 100 notes, the largest denomination first, finding how many notes of a  *)
(* denomination fit by a binary search that takes one clock per step.      *)
(*                                                                         *)
(* A denomination is its rank: 1 for 2000, 2 for 1000, 3 for 500, 4 for    *)
(* 100; the four registers, limits and outputs the code names one by one   *)
(* are functions of the rank.  Temporaries that are written before they    *)
(* are read in the same clock (middle_value and                            *)
(* number_of_notes_dispensable_int) are operators.                         *)
(***************************************************************************)
EXTENDS Integers

CONSTANTS
    Value,      \* what one note of a kind is worth: <<2000, 1000, 500, 100>>
    MaxNotes,   \* the largest note count a port carries: 2^8 - 1
    IntRange,   \* amount_asked_int holds 0 .. IntRange - 1: 2^31
    Inputs      \* what the client may drive on the input ports

Kinds == 1..4

Counts == [Kinds -> 0..MaxNotes]

\* The input ports amount_asked and limit_total_amount are one bit wider than
\* amount_asked_int.
PortRange == 2 * IntRange

Ports == [stock : Counts, limit : Counts,
          total : 0..(PortRange - 1), amount : 0..(PortRange - 1)]

ASSUME ValueAssumption == Value \in [Kinds -> Nat \ {0}]
ASSUME MaxNotesAssumption == MaxNotes \in Nat \ {0}
ASSUME IntRangeAssumption == IntRange \in Nat \ {0}
ASSUME InputsAssumption == Inputs \subseteq Ports

VARIABLES
    start,                  \* the client's start line
    port,                   \* the client's other input lines
    system_state,           \* 0 latch, 1..4 the kind searched, 5 verdict, 6 hold
    amount_asked_int,       \* what is left to allocate
    binarysearch_start,     \* a search bracket is open
    left_limit, right_limit,
    notes_out,
    allocation_possible,
    done

client == <<start, port>>
bracket == <<binarysearch_start, left_limit, right_limit>>
verdict == <<allocation_possible, done>>
registers == <<system_state, amount_asked_int, bracket, notes_out, verdict>>
vars == <<client, registers>>

LinesOK ==
    /\ start \in BOOLEAN
    /\ binarysearch_start \in BOOLEAN
    /\ allocation_possible \in BOOLEAN
    /\ done \in BOOLEAN

RegistersOK ==
    /\ port \in Ports
    /\ system_state \in 0..6
    /\ amount_asked_int \in 0..(IntRange - 1)
    /\ left_limit \in 0..MaxNotes
    /\ right_limit \in 0..MaxNotes
    /\ notes_out \in Counts

TypeOK == LinesOK /\ RegistersOK

Init ==
    /\ start = FALSE
    /\ port \in Inputs
    /\ system_state = 0
    /\ amount_asked_int = 0
    /\ binarysearch_start = FALSE
    /\ left_limit = 0
    /\ right_limit = 0
    /\ notes_out = [k \in Kinds |-> 0]
    /\ allocation_possible = FALSE
    /\ done = FALSE

-----------------------------------------------------------------------------
(* What a clock edge does to the registers. *)

\* Mutant of Avail: the larger of the two.
AvailLarger(k) == IF port.stock[k] < port.limit[k] THEN port.limit[k] ELSE port.stock[k]

\* Notes of kind k that may be paid: the stock, but no more than the limit.
Avail(k) == IF port.stock[k] < port.limit[k] THEN port.stock[k] ELSE port.limit[k]

Middle == (left_limit + right_limit) \div 2

\* Only the low bits of the port fit the integer.
Latch ==
    /\ start
    /\ system_state = 0
    /\ done' = FALSE
    /\ amount_asked_int' = port.amount % IntRange
    /\ system_state' = 1
    /\ UNCHANGED <<bracket, notes_out, allocation_possible>>

\* Mutant of Pay: the branch still subtracts the value of the branch it was
\* copied from.
PayFirstValue(k, q) ==
    /\ amount_asked_int' = amount_asked_int - Value[1] * q
    /\ notes_out' = [notes_out EXCEPT ![k] = q]
    /\ system_state' = k + 1
    /\ UNCHANGED verdict

\* The q notes of kind k leave the remainder and the next kind is searched.
Pay(k, q) ==
    /\ amount_asked_int' = amount_asked_int - Value[k] * q
    /\ notes_out' = [notes_out EXCEPT ![k] = q]
    /\ system_state' = k + 1
    /\ UNCHANGED verdict

AtKind(k) == start /\ system_state = k

\* Every available note is needed.  binarysearch_start is not touched.
TakeAll(k) ==
    /\ AtKind(k)
    /\ amount_asked_int >= Value[k] * Avail(k)
    /\ Pay(k, Avail(k))
    /\ UNCHANGED bracket

Searching(k) == AtKind(k) /\ amount_asked_int < Value[k] * Avail(k)

\* Mutant of StartSearch: the bracket ends one below the available notes.
StartSearchShort(k) ==
    /\ Searching(k)
    /\ ~binarysearch_start
    /\ binarysearch_start' = TRUE
    /\ left_limit' = 0
    /\ right_limit' = Avail(k) - 1
    /\ UNCHANGED <<system_state, amount_asked_int, notes_out, verdict>>

StartSearch(k) ==
    /\ Searching(k)
    /\ ~binarysearch_start
    /\ binarysearch_start' = TRUE
    /\ left_limit' = 0
    /\ right_limit' = Avail(k)
    /\ UNCHANGED <<system_state, amount_asked_int, notes_out, verdict>>

LowerRight(k) ==
    /\ Searching(k)
    /\ binarysearch_start
    /\ amount_asked_int < Value[k] * Middle
    /\ right_limit' = Middle
    /\ UNCHANGED <<system_state, amount_asked_int, binarysearch_start,
                   left_limit, notes_out, verdict>>

RaiseLeft(k) ==
    /\ Searching(k)
    /\ binarysearch_start
    /\ amount_asked_int >= Value[k] * Middle
    /\ left_limit # Middle
    /\ left_limit' = Middle
    /\ UNCHANGED <<system_state, amount_asked_int, binarysearch_start,
                   right_limit, notes_out, verdict>>

\* The search of kind k may settle when one of its limits is the middle.
MaySettle(k, limit) ==
    /\ Searching(k)
    /\ binarysearch_start
    /\ amount_asked_int >= Value[k] * Middle
    /\ limit = Middle

\* Mutants of Settle: the upper limit is paid; the bracket is left open; the
\* end of the search is looked for at the other limit.
SettleHigh(k) ==
    /\ MaySettle(k, left_limit)
    /\ Pay(k, right_limit)
    /\ binarysearch_start' = FALSE
    /\ UNCHANGED <<left_limit, right_limit>>

SettleOpen(k) ==
    /\ MaySettle(k, left_limit)
    /\ Pay(k, left_limit)
    /\ UNCHANGED bracket

SettleAtRight(k) ==
    /\ MaySettle(k, right_limit)
    /\ Pay(k, left_limit)
    /\ binarysearch_start' = FALSE
    /\ UNCHANGED <<left_limit, right_limit>>

Settle(k) ==
    /\ MaySettle(k, left_limit)
    /\ Pay(k, left_limit)
    /\ binarysearch_start' = FALSE
    /\ UNCHANGED <<left_limit, right_limit>>

Allocate(k) ==
    \/ TakeAll(k)
    \/ StartSearch(k)
    \/ LowerRight(k)
    \/ RaiseLeft(k)
    \/ Settle(k)

\* Mutants of Verdict: bit 31 is not looked at; what is left is not looked at;
\* an amount equal to the total is refused.
VerdictWrapped ==
    /\ start
    /\ system_state = 5
    /\ allocation_possible' = (port.amount <= port.total /\ amount_asked_int = 0)
    /\ done' = TRUE
    /\ system_state' = 6
    /\ UNCHANGED <<amount_asked_int, bracket, notes_out>>

VerdictInexact ==
    /\ start
    /\ system_state = 5
    /\ allocation_possible' = (port.amount < IntRange /\ port.amount <= port.total)
    /\ done' = TRUE
    /\ system_state' = 6
    /\ UNCHANGED <<amount_asked_int, bracket, notes_out>>

VerdictBelowTotal ==
    /\ start
    /\ system_state = 5
    /\ allocation_possible' = (/\ port.amount < IntRange
                               /\ port.amount < port.total
                               /\ amount_asked_int = 0)
    /\ done' = TRUE
    /\ system_state' = 6
    /\ UNCHANGED <<amount_asked_int, bracket, notes_out>>

\* The verdict on the amount.  Bit 31 of the port is compared on its own.
Verdict ==
    /\ start
    /\ system_state = 5
    /\ allocation_possible' = (/\ port.amount < IntRange
                               /\ port.amount <= port.total
                               /\ amount_asked_int = 0)
    /\ done' = TRUE
    /\ system_state' = 6
    /\ UNCHANGED <<amount_asked_int, bracket, notes_out>>

\* The result is held for as long as start is.
Hold ==
    /\ start
    /\ system_state = 6
    /\ UNCHANGED registers

\* A clock edge with start low.  The search bracket is left as it is.
StartLow ==
    /\ ~start
    /\ done' = FALSE
    /\ allocation_possible' = FALSE
    /\ system_state' = 0
    /\ UNCHANGED <<amount_asked_int, bracket, notes_out>>

Edge ==
    \/ Latch
    \/ \E k \in Kinds : Allocate(k)
    \/ Verdict
    \/ Hold
    \/ StartLow

\* The asynchronous reset; the limits of the search and the outputs keep
\* their values.
ResetRegisters ==
    /\ system_state' = 0
    /\ allocation_possible' = FALSE
    /\ done' = FALSE
    /\ amount_asked_int' = 0
    /\ binarysearch_start' = FALSE
    /\ UNCHANGED <<left_limit, right_limit, notes_out>>

-----------------------------------------------------------------------------
(* The client, which is atm_top_level's main process. *)

\* The client's lines are still when it waits for the next edge.
ClockEdge == Edge /\ UNCHANGED client

\* New inputs and start high, once a clock edge has seen start low.
Feed ==
    /\ ~start
    /\ system_state = 0
    /\ start' = TRUE
    /\ port' \in Inputs
    /\ UNCHANGED registers

LowerStart ==
    /\ start
    /\ start' = FALSE
    /\ UNCHANGED <<port, registers>>

\* The client has its answer.
Release == done /\ LowerStart

\* The client goes back to Ready while the allocation is still running: the
\* way out of the wrong-bank state does not wait for it.
Abort == ~done /\ LowerStart

\* The reset button also clears the client's start line.
Reset ==
    /\ ResetRegisters
    /\ start' = FALSE
    /\ UNCHANGED port

\* A client that always waits for done.
PatientNext == ClockEdge \/ Feed \/ Release \/ Reset

Next == PatientNext \/ Abort

Fairness == WF_vars(ClockEdge)

\* What the circuit does whatever its client does.
Spec == Init /\ [][Next]_vars /\ Fairness

\* What it does for a client that waits.
PatientSpec == Init /\ [][PatientNext]_vars /\ Fairness

-----------------------------------------------------------------------------
(* Properties. *)

\* What the notes q are worth.
Worth(q) == Value[1] * q[1] + Value[2] * q[2] + Value[3] * q[3] + Value[4] * q[4]

\* Of the outputs q, those that are paid when kind n is to be searched.
Paid(q, n) == [k \in Kinds |-> IF k < n THEN q[k] ELSE 0]

\* note_allocator.vhd:79-220: from the latch on, what is left and what the
\* outputs of the finished denominations are worth make up the latched amount,
\* whatever bracket the search was started from.
Conservation ==
    system_state > 0 =>
        amount_asked_int + Worth(Paid(notes_out, system_state)) = port.amount % IntRange

\* note_allocator.vhd:79-220: no output exceeds the stock or the limit, even
\* when a stale bracket reaches beyond them.
WithinStock ==
    \A k \in Kinds : k < system_state =>
        notes_out[k] <= port.stock[k] /\ notes_out[k] <= port.limit[k]

\* note_allocator.vhd:232-236: when the allocator says yes, its outputs are an
\* exact payment of the whole amount on the port (no wrapped bit) within the
\* total, and the machine holds those notes.
Sound ==
    allocation_possible =>
        /\ Worth(notes_out) = port.amount
        /\ port.amount <= port.total
        /\ \A k \in Kinds : notes_out[k] <= port.stock[k] /\ notes_out[k] <= port.limit[k]

\* note_allocator.vhd:24-26: "is the allocation possible, i.e. required amount
\* must be in atm and can be allocated to notes properly": when the allocator
\* says no, no choice of notes at all would have paid the amount.
Complete ==
    (done /\ start /\ ~allocation_possible) =>
        \/ port.amount > port.total
        \/ \A q \in Counts :
             (\A k \in Kinds : q[k] <= port.stock[k] /\ q[k] <= port.limit[k]) =>
                Worth(q) # port.amount

\* note_allocator.vhd:24-49: a note of each kind is worth a number of notes of the
\* next, and amount_asked_int could count all the notes the ports can carry.  A no
\* means what Complete says of such notes; nothing else depends on it.
Chained == \A k \in 1..3 : \E d \in 1..Value[k] : Value[k] = d * Value[k + 1]

CountsAll == Worth([k \in Kinds |-> MaxNotes]) < IntRange

\* note_allocator.vhd:85-109: the open bracket of the current run always holds
\* the number of notes the search is for: left_limit notes fit the remainder
\* and right_limit notes do not.
BracketHoldsTarget ==
    (start /\ system_state \in Kinds /\ binarysearch_start) =>
        /\ left_limit < right_limit
        /\ right_limit <= Avail(system_state)
        /\ amount_asked_int >= Value[system_state] * left_limit
        /\ amount_asked_int < Value[system_state] * right_limit

\* note_allocator.vhd:85-109: the bracket that a dropped allocation left has closed on
\* one number, and the amount is below what that many notes are worth: the middle
\* becomes the right limit again on every clock.
Stuck(k) ==
    /\ Searching(k)
    /\ binarysearch_start
    /\ left_limit = right_limit
    /\ amount_asked_int < Value[k] * left_limit

\* Enough clocks to close a bracket, by the notes between its limits, up to n.
SearchClocks(clocks, n) ==
    /\ clocks \in [0..n -> Nat \ {0}]
    /\ \A v, w \in 0..n : v <= w => clocks[v] <= clocks[w]
    /\ \A w \in 2..n : clocks[w - w \div 2] < clocks[w]

\* The latch, a bracket opened and closed for each kind, and the verdict.
AllocationClocks(clocks, n) == 1 + 4 * (1 + clocks[n]) + 1

\* note_allocator.vhd:69-239: an allocation that is not dropped ends.
Terminates == start ~> (done \/ ~start)

Greedy == INSTANCE GreedyAllocation
            WITH stage <- system_state, rest <- amount_asked_int,
                 paid <- notes_out, possible <- allocation_possible

\* note_allocator.vhd:79-220: for a client that waits, the clocked binary
\* search pays exactly what GreedyAllocation states, the most notes of each
\* denomination that fit; its own steps do not show.
RefinesGreedy == Greedy!Spec

=============================================================================
