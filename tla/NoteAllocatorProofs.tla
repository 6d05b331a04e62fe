------------------------- MODULE NoteAllocatorProofs -------------------------
(***************************************************************************)
(* Proofs about NoteAllocator, for every note value, note maximum, integer *)
(* range and set of inputs.                                                *)
(***************************************************************************)
EXTENDS NoteAllocator, TLAPS

USE ValueAssumption, MaxNotesAssumption, IntRangeAssumption, InputsAssumption

-----------------------------------------------------------------------------
(* Type correctness: the two-valued lines, then the registers. *)

\* The lines that the circuit drives.
OutLinesOK ==
    binarysearch_start \in BOOLEAN /\ allocation_possible \in BOOLEAN /\ done \in BOOLEAN

\* The registers without the client's port.
OutputsOK ==
    /\ system_state \in 0..6
    /\ amount_asked_int \in 0..(IntRange - 1)
    /\ left_limit \in 0..MaxNotes
    /\ right_limit \in 0..MaxNotes
    /\ notes_out \in Counts

\* A clock edge drives every line high or low, whatever the client does on it.
LEMMA EdgeLines ==
    ASSUME OutLinesOK, Edge
    PROVE  OutLinesOK'
  <1> USE DEF OutLinesOK, bracket, verdict, registers
  <1>1. CASE Latch
    BY <1>1 DEF Latch
  <1>2. ASSUME NEW k \in Kinds, Allocate(k) PROVE OutLinesOK'
    BY <1>2 DEF Allocate, TakeAll, StartSearch, LowerRight, RaiseLeft, Settle, MaySettle, Pay
  <1>3. CASE Verdict
    BY <1>3, Zenon DEF Verdict
  <1>4. CASE Hold
    BY <1>4 DEF Hold
  <1>5. CASE StartLow
    BY <1>5 DEF StartLow
  <1> QED
    BY <1>1, <1>2, <1>3, <1>4, <1>5 DEF Edge

\* No step of circuit or client makes a line anything but high or low.
LEMMA LinesStep ==
    ASSUME LinesOK, [Next]_vars
    PROVE  LinesOK'
  <1> USE DEF LinesOK, OutLinesOK, client, bracket, verdict, registers
  <1>1. CASE ClockEdge
    <2>1. OutLinesOK' /\ start' = start
      BY <1>1, EdgeLines DEF ClockEdge
    <2> QED BY <2>1
  <1>2. CASE Feed
    BY <1>2 DEF Feed
  <1>3. CASE LowerStart
    BY <1>3 DEF LowerStart
  <1>4. CASE Reset
    BY <1>4 DEF Reset, ResetRegisters
  <1>5. CASE UNCHANGED vars
    BY <1>5 DEF vars
  <1> QED
    BY <1>1, <1>2, <1>3, <1>4, <1>5 DEF Next, PatientNext, Release, Abort

\* What is available is a note count within the stock and within the limit.
LEMMA AvailType ==
    ASSUME RegistersOK, NEW k \in Kinds
    PROVE  /\ Avail(k) \in 0..MaxNotes
           /\ Avail(k) <= port.stock[k]
           /\ Avail(k) <= port.limit[k]
  BY DEF RegistersOK, Avail, Ports, Counts, Kinds

\* The middle of any bracket is a note count.
LEMMA MiddleType ==
    ASSUME RegistersOK
    PROVE  Middle \in 0..MaxNotes
  BY DEF RegistersOK, Middle

\* A payment that fits the remainder leaves a remainder.
LEMMA Fits ==
    ASSUME NEW k \in Kinds, NEW q \in Nat, NEW a \in 0..(IntRange - 1),
           a >= Value[k] * q
    PROVE  a - Value[k] * q \in 0..(IntRange - 1)
  <1>1. Value[k] \in Nat BY DEF Kinds
  <1>2. Value[k] * q \in Nat BY <1>1
  <1> QED BY <1>2

\* More notes of a kind are worth no less.
LEMMA Monotone ==
    ASSUME NEW v \in Nat, NEW a \in Nat, NEW b \in Nat, a <= b
    PROVE  v * a <= v * b
  <1>1. b - a \in Nat
    OBVIOUS
  <1>2. v * (b - a) \in Nat /\ v * a \in Nat
    BY <1>1
  <1>3. v * b = v * a + v * (b - a)
    BY <1>1
  <1> QED BY <1>2, <1>3

\* A payment that fits keeps the remainder and the outputs in range.
LEMMA PayType ==
    ASSUME RegistersOK, NEW k \in Kinds, NEW q \in 0..MaxNotes,
           amount_asked_int >= Value[k] * q, Pay(k, q)
    PROVE  /\ amount_asked_int' \in 0..(IntRange - 1)
           /\ notes_out' \in Counts
           /\ system_state' \in 0..6
  <1>1. amount_asked_int' \in 0..(IntRange - 1)
    BY Fits DEF RegistersOK, Pay
  <1>2. notes_out' \in Counts
    BY DEF RegistersOK, Pay, Counts
  <1>3. system_state' \in 0..6
    BY DEF Pay, Kinds
  <1> QED BY <1>1, <1>2, <1>3

\* A clock edge of a search, from any bracket, keeps every register in range:
\* each of the five branches subtracts only what it compared.
LEMMA AllocateType ==
    ASSUME RegistersOK, NEW k \in Kinds, Allocate(k)
    PROVE  OutputsOK'
  <1> USE DEF OutputsOK, bracket, verdict, registers
  <1>1. CASE TakeAll(k)
    <2>1. Avail(k) \in 0..MaxNotes BY AvailType
    <2>2. amount_asked_int >= Value[k] * Avail(k) /\ Pay(k, Avail(k))
      BY <1>1 DEF TakeAll
    <2>3. /\ amount_asked_int' \in 0..(IntRange - 1)
          /\ notes_out' \in Counts
          /\ system_state' \in 0..6
      BY <2>1, <2>2, PayType
    <2> QED BY <1>1, <2>3 DEF TakeAll, RegistersOK
  <1>2. CASE StartSearch(k)
    <2>1. Avail(k) \in 0..MaxNotes BY AvailType
    <2> QED BY <1>2, <2>1 DEF StartSearch, RegistersOK
  <1>3. CASE LowerRight(k)
    BY <1>3, MiddleType DEF LowerRight, RegistersOK
  <1>4. CASE RaiseLeft(k)
    BY <1>4, MiddleType DEF RaiseLeft, RegistersOK
  <1>5. CASE Settle(k)
    <2>1. left_limit \in 0..MaxNotes BY DEF RegistersOK
    <2>2. amount_asked_int >= Value[k] * left_limit /\ Pay(k, left_limit)
      BY <1>5 DEF Settle, MaySettle
    <2>3. /\ amount_asked_int' \in 0..(IntRange - 1)
          /\ notes_out' \in Counts
          /\ system_state' \in 0..6
      BY <2>1, <2>2, PayType
    <2> QED BY <1>5, <2>3 DEF Settle, MaySettle, RegistersOK
  <1> QED BY <1>1, <1>2, <1>3, <1>4, <1>5 DEF Allocate

\* A clock edge takes no register out of its range, whatever the client does on
\* it.
LEMMA EdgeType ==
    ASSUME RegistersOK, Edge
    PROVE  OutputsOK'
  <1> USE DEF OutputsOK, bracket, verdict, registers
  <1>1. CASE Latch
    <2>1. port.amount \in Nat BY DEF RegistersOK, Ports, PortRange
    <2>2. port.amount % IntRange \in 0..(IntRange - 1) BY <2>1
    <2> QED BY <1>1, <2>2 DEF Latch, RegistersOK
  <1>2. ASSUME NEW k \in Kinds, Allocate(k) PROVE OutputsOK'
    BY <1>2, AllocateType
  <1>3. CASE Verdict
    BY <1>3 DEF Verdict, RegistersOK
  <1>4. CASE Hold
    BY <1>4 DEF Hold, RegistersOK
  <1>5. CASE StartLow
    BY <1>5 DEF StartLow, RegistersOK
  <1> QED
    BY <1>1, <1>2, <1>3, <1>4, <1>5 DEF Edge

\* No step of circuit or client takes a register out of its range.
LEMMA RegistersStep ==
    ASSUME RegistersOK, [Next]_vars
    PROVE  RegistersOK'
  <1> USE DEF client, bracket, verdict, registers
  <1>1. CASE ClockEdge
    <2>1. OutputsOK' /\ port' = port
      BY <1>1, EdgeType DEF ClockEdge
    <2> QED BY <2>1 DEF OutputsOK, RegistersOK
  <1>2. CASE Feed
    BY <1>2 DEF Feed, RegistersOK
  <1>3. CASE LowerStart
    BY <1>3 DEF LowerStart, RegistersOK
  <1>4. CASE Reset
    BY <1>4 DEF Reset, ResetRegisters, RegistersOK
  <1>5. CASE UNCHANGED vars
    BY <1>5 DEF vars, RegistersOK
  <1> QED
    BY <1>1, <1>2, <1>3, <1>4, <1>5 DEF Next, PatientNext, Release, Abort

\* The registers keep their types, whatever the client does: the remainder
\* never goes below zero and no output exceeds a note count
\* (note_allocator.vhd:46-50, the integer ranges of the variables).
THEOREM TypeCorrect == Spec => []TypeOK
  <1>1. Init => TypeOK
    <2>1. Init => LinesOK BY DEF Init, LinesOK
    <2>2. Init => RegistersOK BY DEF Init, RegistersOK, Counts
    <2> QED BY <2>1, <2>2 DEF TypeOK
  <1>2. TypeOK /\ [Next]_vars => TypeOK'
    BY LinesStep, RegistersStep DEF TypeOK
  <1> QED BY <1>1, <1>2, PTL DEF Spec

-----------------------------------------------------------------------------
(* Soundness of a yes, whatever the client does. *)

\* One more kind paid adds what its notes are worth.
LEMMA WorthOfPaid ==
    ASSUME NEW p \in [Kinds -> Nat], NEW q \in [Kinds -> Nat], NEW k \in Kinds,
           \A j \in Kinds \ {k} : q[j] = p[j]
    PROVE  Worth(Paid(q, k + 1)) = Worth(Paid(p, k)) + Value[k] * q[k]
  <1>1. \A j \in Kinds : Value[j] \in Nat /\ Value[j] * q[j] \in Nat
    OBVIOUS
  <1>2. \A j \in Kinds : Value[j] * 0 = 0
    BY <1>1
  <1>3. \A j \in Kinds : /\ Paid(q, k + 1)[j] = IF j < k + 1 THEN q[j] ELSE 0
                         /\ Paid(p, k)[j] = IF j < k THEN p[j] ELSE 0
    BY DEF Paid
  <1>4. CASE k = 1
    BY <1>1, <1>2, <1>3, <1>4 DEF Worth, Kinds
  <1>5. CASE k = 2
    BY <1>1, <1>2, <1>3, <1>5 DEF Worth, Kinds
  <1>6. CASE k = 3
    BY <1>1, <1>2, <1>3, <1>6 DEF Worth, Kinds
  <1>7. CASE k = 4
    BY <1>1, <1>2, <1>3, <1>7 DEF Worth, Kinds
  <1> QED BY <1>4, <1>5, <1>6, <1>7 DEF Kinds

\* Before the first kind nothing is paid, after the last one every output is.
LEMMA PaidEnds ==
    ASSUME NEW q \in [Kinds -> Nat]
    PROVE  /\ Worth(Paid(q, 1)) = 0
           /\ Worth(Paid(q, 5)) = Worth(q)
           /\ Worth(Paid(q, 6)) = Worth(q)
           /\ Worth(q) \in Nat
  <1>1. \A j \in Kinds : Value[j] \in Nat /\ Value[j] * q[j] \in Nat
    OBVIOUS
  <1>2. \A j \in Kinds : Value[j] * 0 = 0
    BY <1>1
  <1> QED BY <1>1, <1>2 DEF Worth, Paid, Kinds

\* What the outputs of some kinds are worth is a natural number.
LEMMA PaidType ==
    ASSUME NEW q \in [Kinds -> Nat], NEW n \in Nat
    PROVE  Worth(Paid(q, n)) \in Nat
  <1>1. Paid(q, n) \in [Kinds -> Nat] BY DEF Paid
  <1> QED BY <1>1, PaidEnds

\* A payment moves its worth from the remainder to the outputs.
LEMMA PayConserves ==
    ASSUME RegistersOK, RegistersOK', Conservation,
           NEW k \in Kinds, system_state = k,
           NEW q \in 0..MaxNotes, Pay(k, q), UNCHANGED client
    PROVE  Conservation'
  <1>1. /\ amount_asked_int' = amount_asked_int - Value[k] * q
        /\ notes_out' = [notes_out EXCEPT ![k] = q]
        /\ system_state' = k + 1
        /\ port' = port
    BY DEF Pay, client
  <1>2. /\ notes_out \in [Kinds -> Nat]
        /\ notes_out' \in [Kinds -> Nat]
        /\ notes_out'[k] = q
        /\ \A j \in Kinds \ {k} : notes_out'[j] = notes_out[j]
    BY <1>1 DEF RegistersOK, Counts
  <1>3. amount_asked_int + Worth(Paid(notes_out, k)) = port.amount % IntRange
    BY DEF Conservation, Kinds
  <1>4. Worth(Paid(notes_out', k + 1)) = Worth(Paid(notes_out, k)) + Value[k] * q
    BY <1>2, WorthOfPaid
  <1>5. /\ Value[k] * q \in Nat
        /\ Worth(Paid(notes_out, k)) \in Nat
        /\ amount_asked_int \in Nat
    BY <1>2, PaidType DEF RegistersOK, Kinds
  <1>6. amount_asked_int' + Worth(Paid(notes_out', k + 1)) = port.amount % IntRange
    BY <1>1, <1>3, <1>4, <1>5
  <1> QED BY <1>1, <1>6 DEF Conservation

\* A yes is only standing while its run is held in the last state.
VerdictHolds ==
    allocation_possible =>
        /\ system_state = 6
        /\ port.amount < IntRange
        /\ port.amount <= port.total
        /\ amount_asked_int = 0

\* What makes a yes sound, as one inductive invariant.
PaymentInv == Conservation /\ WithinStock /\ VerdictHolds

\* A clock edge of a search, from any bracket, keeps the payment invariant.
LEMMA AllocatePays ==
    ASSUME RegistersOK, RegistersOK', PaymentInv, NEW k \in Kinds, Allocate(k), UNCHANGED client
    PROVE  PaymentInv'
  <1> USE DEF client, bracket, verdict, registers
  <1>1. ASSUME NEW q \in 0..MaxNotes, system_state = k, Pay(k, q),
               q <= port.stock[k], q <= port.limit[k]
        PROVE  PaymentInv'
    <2>1. Conservation'
      BY <1>1, PayConserves DEF PaymentInv
    <2>2. WithinStock'
      <3>1. /\ port' = port
            /\ system_state' = k + 1
            /\ notes_out' = [notes_out EXCEPT ![k] = q]
        BY <1>1 DEF Pay
      <3> SUFFICES ASSUME NEW j \in Kinds, j < k + 1
                   PROVE  notes_out'[j] <= port.stock[j] /\ notes_out'[j] <= port.limit[j]
        BY <3>1 DEF WithinStock
      <3>2. CASE j = k
        BY <3>1, <3>2, <1>1 DEF RegistersOK, Counts
      <3>3. CASE j # k
        <4>1. j < system_state BY <3>3, <1>1 DEF Kinds
        <4> QED BY <4>1, <3>1, <3>3 DEF PaymentInv, WithinStock, RegistersOK, Counts
      <3> QED BY <3>2, <3>3
    <2>3. VerdictHolds'
      <3>1. ~allocation_possible
        BY <1>1 DEF PaymentInv, VerdictHolds, Kinds
      <3> QED BY <3>1, <1>1 DEF Pay, VerdictHolds
    <2> QED BY <2>1, <2>2, <2>3 DEF PaymentInv
  <1>2. CASE TakeAll(k)
    BY <1>1, <1>2, AvailType DEF TakeAll, AtKind
  <1>3. CASE Settle(k)
    <2>1. left_limit \in 0..MaxNotes /\ Avail(k) \in 0..MaxNotes
      BY AvailType DEF RegistersOK
    <2>2. /\ amount_asked_int >= Value[k] * left_limit
          /\ amount_asked_int < Value[k] * Avail(k)
          /\ system_state = k
          /\ Pay(k, left_limit)
      BY <1>3 DEF Settle, MaySettle, Searching, AtKind
    <2>3. left_limit <= Avail(k)
      <3>1. Value[k] \in Nat BY DEF Kinds
      <3>2. Value[k] * left_limit \in Nat /\ Value[k] * Avail(k) \in Nat
        BY <2>1, <3>1
      <3>3. CASE Avail(k) <= left_limit
        <4>1. Value[k] * Avail(k) <= Value[k] * left_limit
          BY <2>1, <3>1, <3>3, Monotone
        <4> QED BY <2>2, <3>2, <4>1 DEF RegistersOK
      <3> QED BY <2>1, <3>3
    <2>4. left_limit <= port.stock[k] /\ left_limit <= port.limit[k]
      BY <2>1, <2>3, AvailType DEF RegistersOK, Ports, Counts
    <2> QED BY <1>1, <2>1, <2>2, <2>4
  <1>4. CASE StartSearch(k) \/ LowerRight(k) \/ RaiseLeft(k)
    <2>1. UNCHANGED <<port, system_state, amount_asked_int, notes_out, allocation_possible>>
      BY <1>4 DEF StartSearch, LowerRight, RaiseLeft
    <2> QED
      BY <2>1 DEF PaymentInv, Conservation, WithinStock, VerdictHolds, Paid, Worth, Kinds
  <1> QED BY <1>2, <1>3, <1>4 DEF Allocate

\* Every step of circuit or client keeps the payment invariant.
LEMMA PaymentStep ==
    ASSUME TypeOK, TypeOK', PaymentInv, [Next]_vars
    PROVE  PaymentInv'
  <1> USE DEF client, bracket, verdict, registers
  <1> RegistersOK /\ RegistersOK' BY DEF TypeOK
  <1> notes_out \in [Kinds -> Nat] BY DEF RegistersOK, Counts
  <1>1. CASE Latch /\ UNCHANGED client
    <2>1. Worth(Paid(notes_out, 1)) = 0
      BY PaidEnds
    <2>2. Conservation'
      <3>1. /\ amount_asked_int' = port.amount % IntRange
            /\ amount_asked_int' \in Nat
            /\ UNCHANGED <<port, notes_out>>
            /\ system_state' = 1
        BY <1>1 DEF Latch, RegistersOK
      <3> QED BY <2>1, <3>1 DEF Conservation
    <2>3. WithinStock'
      BY <1>1 DEF Latch, WithinStock, Kinds
    <2>4. VerdictHolds'
      BY <1>1 DEF Latch, PaymentInv, VerdictHolds
    <2> QED BY <2>2, <2>3, <2>4 DEF PaymentInv
  <1>2. ASSUME NEW k \in Kinds, Allocate(k), UNCHANGED client PROVE PaymentInv'
    BY <1>2, AllocatePays
  <1>3. CASE Verdict /\ UNCHANGED client
    <2>1. /\ system_state = 5 /\ system_state' = 6
          /\ UNCHANGED <<port, amount_asked_int, notes_out>>
          /\ allocation_possible' => /\ port.amount < IntRange
                                     /\ port.amount <= port.total
                                     /\ amount_asked_int = 0
      BY <1>3 DEF Verdict
    <2>2. Conservation'
      BY <2>1, PaidEnds DEF PaymentInv, Conservation
    <2>3. WithinStock'
      BY <2>1 DEF PaymentInv, WithinStock, Kinds
    <2>4. VerdictHolds'
      BY <2>1 DEF VerdictHolds
    <2> QED BY <2>2, <2>3, <2>4 DEF PaymentInv
  <1>4. CASE (Hold /\ UNCHANGED client) \/ LowerStart \/ UNCHANGED vars
    <2>1. UNCHANGED <<port, system_state, amount_asked_int, notes_out, allocation_possible>>
      BY <1>4 DEF Hold, LowerStart, vars
    <2> QED
      BY <2>1 DEF PaymentInv, Conservation, WithinStock, VerdictHolds, Paid, Worth, Kinds
  <1>5. CASE (StartLow /\ UNCHANGED client) \/ Reset
    <2>1. system_state' = 0 /\ allocation_possible' = FALSE
      BY <1>5 DEF StartLow, Reset, ResetRegisters
    <2> QED
      BY <2>1 DEF PaymentInv, Conservation, WithinStock, VerdictHolds, Kinds
  <1>6. CASE Feed
    <2>1. system_state = 0 /\ UNCHANGED <<system_state, allocation_possible>>
      BY <1>6 DEF Feed
    <2> QED
      BY <2>1 DEF PaymentInv, Conservation, WithinStock, VerdictHolds, Kinds
  <1> QED
    BY <1>1, <1>2, <1>3, <1>4, <1>5, <1>6
    DEF Next, PatientNext, ClockEdge, Edge, Release, Abort

\* note_allocator.vhd:79-239: the payment invariant holds at every clock, whatever
\* the client does.
THEOREM Payment == Spec => []PaymentInv
  <1>1. Init => PaymentInv
    BY DEF Init, PaymentInv, Conservation, WithinStock, VerdictHolds, Kinds
  <1>2. TypeOK /\ TypeOK' /\ PaymentInv /\ [Next]_vars => PaymentInv'
    BY PaymentStep
  <1> QED BY <1>1, <1>2, TypeCorrect, PTL DEF Spec

\* note_allocator.vhd:79-220: what is left and what is paid make up the latched
\* amount at every clock of every allocation, also of one that starts from the
\* bracket of a dropped one.
THEOREM Conserves == Spec => []Conservation
  <1>1. PaymentInv => Conservation
    BY DEF PaymentInv
  <1> QED BY <1>1, Payment, PTL

\* note_allocator.vhd:79-220: the outputs stay within stock and limits.
THEOREM StaysWithinStock == Spec => []WithinStock
  <1>1. PaymentInv => WithinStock
    BY DEF PaymentInv
  <1> QED BY <1>1, Payment, PTL

\* The payment invariant is the reason that a yes is sound.
LEMMA PaymentIsSound ==
    ASSUME TypeOK, PaymentInv
    PROVE  Sound
  <1> SUFFICES ASSUME allocation_possible
               PROVE  /\ Worth(notes_out) = port.amount
                      /\ port.amount <= port.total
                      /\ \A k \in Kinds : notes_out[k] <= port.stock[k]
                                          /\ notes_out[k] <= port.limit[k]
    BY DEF Sound
  <1>1. /\ system_state = 6
        /\ port.amount < IntRange
        /\ port.amount <= port.total
        /\ amount_asked_int = 0
    BY DEF PaymentInv, VerdictHolds
  <1>2. port.amount \in Nat /\ notes_out \in [Kinds -> Nat]
    BY DEF TypeOK, RegistersOK, Ports, Counts, PortRange
  <1>3. 0 + Worth(Paid(notes_out, 6)) = port.amount % IntRange
    BY <1>1 DEF PaymentInv, Conservation
  <1>4. port.amount % IntRange = port.amount
    BY <1>1, <1>2
  <1>5. Worth(notes_out) = port.amount
    BY <1>2, <1>3, <1>4, PaidEnds
  <1>6. \A k \in Kinds : k < 6
    BY DEF Kinds
  <1> QED BY <1>1, <1>5, <1>6 DEF PaymentInv, WithinStock

\* note_allocator.vhd:232-236: a yes is an exact payment the machine can make,
\* whether or not its client ever dropped an allocation.
THEOREM YesIsSound == Spec => []Sound
  <1>1. TypeOK /\ PaymentInv => Sound
    BY PaymentIsSound
  <1> QED BY <1>1, TypeCorrect, Payment, PTL

-----------------------------------------------------------------------------
(* The refinement: for a client that waits for done, the binary search of  *)
(* NoteAllocator finds the greedy payment of GreedyAllocation.              *)

\* Only such a client leaves no bracket behind: an open one belongs to a
\* running allocation, and done is only up in the last state.
BracketIsCurrent == binarysearch_start => (start /\ system_state \in Kinds)

DoneIsLast == done => system_state = 6

\* What a waiting client adds, as one inductive invariant.
PatientInv == BracketIsCurrent /\ DoneIsLast /\ BracketHoldsTarget

\* A client that waits is a client.
LEMMA PatientIsSpec == PatientNext => Next
  BY DEF Next

\* A bracket of width one settles on its lower end.
LEMMA Narrowed ==
    ASSUME NEW l \in Nat, NEW r \in Nat, l < r
    PROVE  /\ l <= (l + r) \div 2
           /\ (l + r) \div 2 < r
           /\ l = (l + r) \div 2 => r = l + 1
  OBVIOUS

\* The numbers the search compares are naturals.
LEMMA AreNaturals ==
    ASSUME RegistersOK, NEW k \in Kinds
    PROVE  /\ Value[k] \in Nat /\ Avail(k) \in Nat /\ amount_asked_int \in Nat
           /\ left_limit \in Nat /\ right_limit \in Nat
  <1>1. Value[k] \in Nat
    OBVIOUS
  <1>2. Avail(k) \in Nat
    BY AvailType
  <1>3. amount_asked_int \in Nat /\ left_limit \in Nat /\ right_limit \in Nat
    BY DEF RegistersOK
  <1> QED BY <1>1, <1>2, <1>3

\* A clock edge of a search keeps the bracket around the number searched for.
LEMMA PatientAllocate ==
    ASSUME RegistersOK, PatientInv, NEW k \in Kinds, Allocate(k), UNCHANGED client
    PROVE  PatientInv'
  <1> USE DEF client, bracket, verdict, registers
  <1>0. start /\ system_state = k /\ ~done
    BY DEF Allocate, TakeAll, StartSearch, LowerRight, RaiseLeft, Settle, MaySettle, Searching,
           AtKind, PatientInv, DoneIsLast, Kinds
  <1>1. CASE StartSearch(k)
    <2>1. /\ UNCHANGED <<start, port, system_state, amount_asked_int, done>>
          /\ binarysearch_start'
          /\ left_limit' = 0
          /\ right_limit' = Avail(k)
          /\ amount_asked_int < Value[k] * Avail(k)
      BY <1>1 DEF StartSearch, Searching, AtKind
    <2>2. Avail(k) \in Nat /\ Value[k] \in Nat /\ amount_asked_int \in Nat
      BY AreNaturals
    <2>3. Value[k] * 0 = 0
      BY <2>2
    <2>4. Avail(k) # 0
      BY <2>1, <2>2, <2>3
    <2>5. Avail(k)' = Avail(k)
      BY <2>1 DEF Avail
    <2>6. BracketHoldsTarget'
      BY <1>0, <2>1, <2>2, <2>3, <2>4, <2>5 DEF BracketHoldsTarget
    <2> QED BY <1>0, <2>1, <2>6 DEF PatientInv, BracketIsCurrent, DoneIsLast
  <1>2. CASE LowerRight(k) \/ RaiseLeft(k)
    <2>1. /\ UNCHANGED <<start, port, system_state, amount_asked_int, binarysearch_start, done>>
          /\ binarysearch_start
          /\ \/ /\ amount_asked_int < Value[k] * Middle
                /\ right_limit' = Middle
                /\ left_limit' = left_limit
             \/ /\ amount_asked_int >= Value[k] * Middle
                /\ left_limit' = Middle
                /\ left_limit # Middle
                /\ right_limit' = right_limit
      BY <1>2 DEF LowerRight, RaiseLeft
    <2>2. /\ left_limit < right_limit
          /\ right_limit <= Avail(k)
          /\ amount_asked_int >= Value[k] * left_limit
          /\ amount_asked_int < Value[k] * right_limit
      BY <1>0, <2>1 DEF PatientInv, BracketHoldsTarget
    <2>3. left_limit \in Nat /\ right_limit \in Nat /\ Avail(k) \in Nat
      BY AvailType DEF RegistersOK
    <2>4. left_limit <= Middle /\ Middle < right_limit /\ Middle \in Nat
      BY <2>2, <2>3, Narrowed, MiddleType DEF Middle
    <2>5. Avail(k)' = Avail(k)
      BY <2>1 DEF Avail
    <2>6. left_limit' < right_limit' /\ right_limit' <= Avail(k)
      <3>1. left_limit # Middle \/ amount_asked_int < Value[k] * Middle
        BY <2>1
      <3>2. CASE right_limit' = Middle /\ left_limit' = left_limit
                 /\ amount_asked_int < Value[k] * Middle
        <4>1. Middle # left_limit
          <5>1. Value[k] * left_limit \in Nat /\ amount_asked_int \in Nat
            BY AreNaturals
          <5>2. CASE Middle = left_limit
            <6>1. amount_asked_int < Value[k] * left_limit
              BY <3>2, <5>2
            <6> QED BY <5>1, <6>1, <2>2
          <5> QED BY <5>2
        <4> QED BY <3>2, <4>1, <2>2, <2>3, <2>4
      <3>3. CASE left_limit' = Middle /\ right_limit' = right_limit
        BY <3>3, <2>2, <2>4
      <3> QED BY <2>1, <3>2, <3>3
    <2>7. /\ amount_asked_int >= Value[k] * left_limit'
          /\ amount_asked_int < Value[k] * right_limit'
      BY <2>1, <2>2
    <2>8. BracketHoldsTarget'
      BY <1>0, <2>1, <2>5, <2>6, <2>7 DEF BracketHoldsTarget
    <2> QED BY <1>0, <2>1, <2>8 DEF PatientInv, BracketIsCurrent, DoneIsLast
  <1>3. CASE TakeAll(k) \/ Settle(k)
    <2>1. CASE TakeAll(k)
      <3>1. UNCHANGED binarysearch_start /\ system_state' = k + 1
            /\ UNCHANGED <<start, done>>
        BY <2>1 DEF TakeAll, Pay
      <3>2. ~binarysearch_start
        <4>1. amount_asked_int >= Value[k] * Avail(k)
          BY <2>1 DEF TakeAll
        <4>2. SUFFICES ASSUME binarysearch_start PROVE FALSE
          OBVIOUS
        <4>3. right_limit <= Avail(k) /\ amount_asked_int < Value[k] * right_limit
          BY <1>0, <4>2 DEF PatientInv, BracketHoldsTarget
        <4>4. /\ Value[k] \in Nat /\ right_limit \in Nat /\ Avail(k) \in Nat
              /\ amount_asked_int \in Nat
          BY AreNaturals
        <4>5. /\ Value[k] * right_limit <= Value[k] * Avail(k)
              /\ Value[k] * right_limit \in Nat
              /\ Value[k] * Avail(k) \in Nat
          BY <4>3, <4>4, Monotone
        <4> QED BY <4>1, <4>3, <4>4, <4>5
      <3> QED BY <1>0, <3>1, <3>2
               DEF PatientInv, BracketIsCurrent, DoneIsLast, BracketHoldsTarget
    <2>2. CASE Settle(k)
      <3>1. ~binarysearch_start' /\ ~done'
        BY <1>0, <2>2 DEF Settle, MaySettle, Pay
      <3> QED BY <3>1
               DEF PatientInv, BracketIsCurrent, DoneIsLast, BracketHoldsTarget
    <2> QED BY <1>3, <2>1, <2>2
  <1> QED BY <1>1, <1>2, <1>3 DEF Allocate

\* Every step of circuit or waiting client keeps the patient invariant.
LEMMA PatientStep ==
    ASSUME TypeOK, PatientInv, [PatientNext]_vars
    PROVE  PatientInv'
  <1> USE DEF client, bracket, verdict, registers, PatientInv, BracketIsCurrent, DoneIsLast,
              BracketHoldsTarget
  <1>1. CASE Latch /\ UNCHANGED client
    <2>1. ~done' /\ ~binarysearch_start'
      BY <1>1 DEF Latch, Kinds
    <2> QED BY <2>1
  <1>2. ASSUME NEW k \in Kinds, Allocate(k), UNCHANGED client PROVE PatientInv'
    BY <1>2, PatientAllocate DEF TypeOK
  <1>3. CASE Verdict /\ UNCHANGED client
    <2>1. system_state' = 6 /\ ~binarysearch_start'
      BY <1>3 DEF Verdict, Kinds
    <2> QED BY <2>1
  <1>4. CASE (Hold /\ UNCHANGED client) \/ UNCHANGED vars
    BY <1>4 DEF Hold, vars, Avail
  <1>5. CASE StartLow /\ UNCHANGED client
    <2>1. ~done' /\ ~binarysearch_start'
      BY <1>5 DEF StartLow
    <2> QED BY <2>1
  <1>6. CASE Feed
    <2>1. ~binarysearch_start' /\ UNCHANGED <<done, system_state>>
      BY <1>6 DEF Feed
    <2> QED BY <2>1
  <1>7. CASE Release
    <2>1. ~binarysearch_start' /\ UNCHANGED <<done, system_state>>
      BY <1>7 DEF Release, LowerStart, Kinds
    <2> QED BY <2>1
  <1>8. CASE Reset
    <2>1. ~done' /\ ~binarysearch_start'
      BY <1>8 DEF Reset, ResetRegisters
    <2> QED BY <2>1
  <1> QED
    BY <1>1, <1>2, <1>3, <1>4, <1>5, <1>6, <1>7, <1>8 DEF PatientNext, ClockEdge, Edge

\* The registers keep their types for a client that waits, too.
THEOREM PatientTypeCorrect == PatientSpec => []TypeOK
  <1>1. Init => TypeOK
    <2>1. Init => LinesOK BY DEF Init, LinesOK
    <2>2. Init => RegistersOK BY DEF Init, RegistersOK, Counts
    <2> QED BY <2>1, <2>2 DEF TypeOK
  <1>2. TypeOK /\ [PatientNext]_vars => TypeOK'
    BY LinesStep, RegistersStep, PatientIsSpec DEF TypeOK
  <1> QED BY <1>1, <1>2, PTL DEF PatientSpec

\* note_allocator.vhd:69-246: for a client that waits, an open bracket belongs to
\* the running allocation and done is up only at its end.
THEOREM Patience == PatientSpec => []PatientInv
  <1>1. Init => PatientInv
    BY DEF Init, PatientInv, BracketIsCurrent, DoneIsLast, BracketHoldsTarget
  <1>2. TypeOK /\ PatientInv /\ [PatientNext]_vars => PatientInv'
    BY PatientStep
  <1> QED BY <1>1, <1>2, PatientTypeCorrect, PTL DEF PatientSpec

\* note_allocator.vhd:85-109: at every clock of a search the number of notes
\* searched for lies between left_limit, which fits, and right_limit, which
\* does not.
THEOREM BracketIsRight == PatientSpec => []BracketHoldsTarget
  <1>1. PatientInv => BracketHoldsTarget
    BY DEF PatientInv
  <1> QED BY <1>1, Patience, PTL

-----------------------------------------------------------------------------
(* Every step is a step of GreedyAllocation, or does not show. *)

\* A payment of the most notes that fit is a step of the mapped specification.
LEMMA PayIsPayMost ==
    ASSUME RegistersOK, NEW k \in Kinds, start, system_state = k,
           NEW q \in 0..MaxNotes, Pay(k, q), UNCHANGED client,
           q <= Avail(k),
           Value[k] * q <= amount_asked_int,
           q < Avail(k) => amount_asked_int < Value[k] * (q + 1)
    PROVE  Greedy!PayMost(k)
  <1>1. Greedy!IsMost(k, q)
    BY DEF Greedy!IsMost, Greedy!Avail, Avail
  <1>2. /\ amount_asked_int' = amount_asked_int - Value[k] * q
        /\ notes_out' = [notes_out EXCEPT ![k] = q]
        /\ system_state' = k + 1
        /\ UNCHANGED <<start, port, allocation_possible, done>>
    BY DEF Pay, client, verdict
  <1> QED BY <1>1, <1>2 DEF Greedy!PayMost

\* A clock edge of a search pays the most notes that fit, or does not show.
LEMMA AllocateRefines ==
    ASSUME RegistersOK, PatientInv, NEW k \in Kinds, Allocate(k), UNCHANGED client
    PROVE  Greedy!PayMost(k) \/ UNCHANGED Greedy!vars
  <1>1. CASE TakeAll(k)
    <2>1. Avail(k) \in 0..MaxNotes
      BY AvailType
    <2>2. /\ start /\ system_state = k
          /\ amount_asked_int >= Value[k] * Avail(k)
          /\ Pay(k, Avail(k))
      BY <1>1 DEF TakeAll, AtKind
    <2>3. Value[k] * Avail(k) \in Nat /\ amount_asked_int \in Nat
      BY AreNaturals
    <2>4. Value[k] * Avail(k) <= amount_asked_int
      BY <2>2, <2>3
    <2>5. Avail(k) <= Avail(k) /\ ~(Avail(k) < Avail(k))
      BY <2>1
    <2> QED BY <2>1, <2>2, <2>4, <2>5, PayIsPayMost
  <1>2. CASE Settle(k)
    <2>1. /\ start /\ system_state = k
          /\ binarysearch_start
          /\ left_limit = Middle
          /\ Pay(k, left_limit)
      BY <1>2 DEF Settle, MaySettle, Searching, AtKind
    <2>2. /\ left_limit < right_limit
          /\ right_limit <= Avail(k)
          /\ amount_asked_int >= Value[k] * left_limit
          /\ amount_asked_int < Value[k] * right_limit
      BY <2>1 DEF PatientInv, BracketHoldsTarget
    <2>3. right_limit = left_limit + 1
      BY <2>1, <2>2, AreNaturals, Narrowed DEF Middle
    <2>4. left_limit \in 0..MaxNotes
      BY DEF RegistersOK
    <2>5. left_limit <= Avail(k)
      BY <2>2, AreNaturals
    <2>6. Value[k] * left_limit <= amount_asked_int
      <3>1. Value[k] * left_limit \in Nat /\ amount_asked_int \in Nat
        BY AreNaturals
      <3> QED BY <3>1, <2>2
    <2>7. amount_asked_int < Value[k] * (left_limit + 1)
      BY <2>2, <2>3
    <2> QED BY <2>1, <2>4, <2>5, <2>6, <2>7, PayIsPayMost
  <1>3. CASE StartSearch(k) \/ LowerRight(k) \/ RaiseLeft(k)
    BY <1>3 DEF StartSearch, LowerRight, RaiseLeft, Greedy!vars, client, verdict
  <1> QED BY <1>1, <1>2, <1>3 DEF Allocate

\* Every step of circuit or waiting client is one of the abstract specification,
\* or does not show.
LEMMA StepRefines ==
    ASSUME TypeOK, PatientInv, [PatientNext]_vars
    PROVE  [Greedy!Next]_Greedy!vars
  <1> USE DEF client, bracket, verdict, registers
  <1>1. CASE Latch /\ UNCHANGED client
    <2>1. Greedy!Begin BY <1>1 DEF Latch, Greedy!Begin
    <2> QED BY <2>1 DEF Greedy!Next
  <1>2. ASSUME NEW k \in Kinds, Allocate(k), UNCHANGED client PROVE [Greedy!Next]_Greedy!vars
    BY <1>2, AllocateRefines DEF TypeOK, Greedy!Next, Greedy!Kinds, Kinds
  <1>3. CASE Verdict /\ UNCHANGED client
    <2>1. Greedy!Tell BY <1>3 DEF Verdict, Greedy!Tell
    <2> QED BY <2>1 DEF Greedy!Next
  <1>4. CASE (Hold /\ UNCHANGED client) \/ UNCHANGED vars
    BY <1>4 DEF Hold, vars, Greedy!vars
  <1>5. CASE StartLow /\ UNCHANGED client
    <2>1. Greedy!Withdraw BY <1>5 DEF StartLow, Greedy!Withdraw
    <2> QED BY <2>1 DEF Greedy!Next
  <1>6. CASE Feed
    <2>1. Greedy!Ask BY <1>6 DEF Feed, Greedy!Ask
    <2> QED BY <2>1 DEF Greedy!Next
  <1>7. CASE Release
    <2>1. Greedy!Release BY <1>7 DEF Release, LowerStart, Greedy!Release
    <2> QED BY <2>1 DEF Greedy!Next
  <1>8. CASE Reset
    <2>1. Greedy!Reset BY <1>8 DEF Reset, ResetRegisters, Greedy!Reset
    <2> QED BY <2>1 DEF Greedy!Next
  <1> QED
    BY <1>1, <1>2, <1>3, <1>4, <1>5, <1>6, <1>7, <1>8 DEF PatientNext, ClockEdge, Edge

\* note_allocator.vhd:69-239: for every client that waits, each allocation pays
\* the most notes of each denomination that fit, in the order 2000, 1000, 500,
\* 100, and then gives its verdict.
THEOREM Refinement == PatientSpec => RefinesGreedy
  <1>1. Init => Greedy!Init
    BY DEF Init, Greedy!Init, Kinds, Greedy!Kinds
  <1>2. TypeOK /\ PatientInv /\ [PatientNext]_vars => [Greedy!Next]_Greedy!vars
    BY StepRefines
  <1> QED
    BY <1>1, <1>2, PatientTypeCorrect, Patience, PTL
    DEF PatientSpec, RefinesGreedy, Greedy!Spec


-----------------------------------------------------------------------------
(* What a no means: taking the most notes of each kind first misses no way  *)
(* to pay, when each value is a multiple of the next.                       *)

LEMMA Cancels ==
    ASSUME NEW v \in Nat \ {0}, NEW m \in Nat, NEW q \in Nat, v * m <= v * q
    PROVE  m <= q
  <1>1. CASE q + 1 <= m
    <2>1. v * (q + 1) <= v * m
      BY <1>1, Monotone
    <2>2. v * (q + 1) = v * q + v /\ v * q \in Nat /\ v * m \in Nat
      OBVIOUS
    <2> QED BY <2>1, <2>2
  <1> QED BY <1>1

Multiple(v, w) == \E d \in Nat : v = d * w

\* m notes worth v can be changed for some of the q notes worth v and the r notes
\* worth w.
TwoChange(v, m, q, w, r) == \E a \in 0..q, b \in 0..r : v * m = v * a + w * b

ThreeChange(u, m, p, v, q, w, r) ==
    \E a \in 0..p, b \in 0..q, z \in 0..r : u * m = u * a + v * b + w * z

\* They can be if those are worth as much at least.
LEMMA ChangeOfTwo ==
    ASSUME NEW v \in Nat \ {0}, NEW w \in Nat \ {0}, Multiple(v, w),
           NEW q \in Nat, NEW r \in Nat, NEW m \in Nat, v * m <= v * q + w * r
    PROVE  TwoChange(v, m, q, w, r)
  <1> USE DEF TwoChange
  <1> PICK d \in Nat : v = d * w
    BY DEF Multiple
  <1>1. CASE m <= q
    <2>1. v * m = v * m + w * 0
      BY v * m \in Nat
    <2> QED BY <1>1, <2>1
  <1>2. CASE q < m
    <2>1. PICK e \in Nat : m = q + e
      BY <1>2
    <2>2. v * m = v * q + v * e /\ v * e \in Nat /\ v * q \in Nat
      BY <2>1
    <2>3. PICK g \in Nat : g = d * e
      OBVIOUS
    <2>4. v * e = w * g
      <3>1. (d * w) * e = w * (d * e)
        OBVIOUS
      <3> QED BY <2>3, <3>1
    <2>5. w * g <= w * r
      <3>1. w * r \in Nat
        OBVIOUS
      <3> QED BY <2>2, <2>4, <3>1
    <2>6. g \in 0..r
      <3>1. g <= r
        BY <2>5, Cancels
      <3> QED BY <3>1
    <2>7. v * m = v * q + w * g /\ q \in 0..q
      BY <2>2, <2>4
    <2> QED BY <2>6, <2>7, Zenon
  <1> QED BY <1>1, <1>2

LEMMA ChangeOfThree ==
    ASSUME NEW u \in Nat \ {0}, NEW v \in Nat \ {0}, NEW w \in Nat \ {0},
           Multiple(u, v), Multiple(v, w),
           NEW p \in Nat, NEW q \in Nat, NEW r \in Nat, NEW m \in Nat,
           u * m <= u * p + v * q + w * r
    PROVE  ThreeChange(u, m, p, v, q, w, r)
  <1> USE DEF ThreeChange
  <1> PICK c \in Nat : u = c * v
    BY DEF Multiple
  <1>1. CASE m <= p
    <2>1. u * m = u * m + v * 0 + w * 0
      BY u * m \in Nat
    <2>2. m \in 0..p /\ 0 \in 0..q /\ 0 \in 0..r
      BY <1>1
    <2> QED BY <2>1, <2>2, Zenon
  <1>2. CASE p < m
    <2>1. PICK e \in Nat : m = p + e
      BY <1>2
    <2>2. u * m = u * p + u * e /\ u * e \in Nat /\ u * p \in Nat
      BY <2>1
    <2>3. PICK g \in Nat : g = c * e
      OBVIOUS
    <2>4. u * e = v * g
      <3>1. (c * v) * e = v * (c * e)
        OBVIOUS
      <3> QED BY <2>3, <3>1
    <2>5. v * g <= v * q + w * r
      <3>1. v * q \in Nat /\ w * r \in Nat
        OBVIOUS
      <3> QED BY <2>2, <2>4, <3>1
    <2>6. PICK b \in 0..q, z \in 0..r : v * g = v * b + w * z
      <3>1. TwoChange(v, g, q, w, r)
        BY <2>5, ChangeOfTwo
      <3> QED BY <3>1 DEF TwoChange
    <2>7. u * m = u * p + v * b + w * z
      <3>1. b \in Nat /\ z \in Nat
        OBVIOUS
      <3>2. v * b \in Nat /\ w * z \in Nat
        BY <3>1
      <3> QED BY <2>2, <2>4, <2>6, <3>2
    <2>8. p \in 0..p
      OBVIOUS
    <2> QED BY <2>7, <2>8, Zenon
  <1> QED BY <1>1, <1>2

LEMMA Products == \A x, y \in Nat : x * y \in Nat
  OBVIOUS

\* Notes of a kind are worth a number of notes of the next.
LEMMA InNextKind ==
    ASSUME Chained, NEW j \in 1..3, NEW e \in Nat
    PROVE  /\ Multiple(Value[j], Value[j + 1])
           /\ \E g \in Nat : Value[j] * e = Value[j + 1] * g
  <1>1. Value[j] \in Nat /\ Value[j + 1] \in Nat
    BY DEF Kinds
  <1>2. PICK d \in Nat : Value[j] = d * Value[j + 1]
    BY <1>1 DEF Chained
  <1>3. \A v \in Nat : (d * v) * e = v * (d * e) /\ d * e \in Nat
    OBVIOUS
  <1>4. d * e \in Nat /\ Value[j] * e = Value[j + 1] * (d * e)
    BY <1>1, <1>2, <1>3
  <1> QED BY <1>2, <1>4 DEF Multiple

\* What is left of a way to pay when some notes of each kind are spared.
LEMMA Spared ==
    ASSUME NEW q \in [Kinds -> Nat], NEW b \in [Kinds -> Nat], \A j \in Kinds : b[j] <= q[j]
    PROVE  LET r == [j \in Kinds |-> q[j] - b[j]]
           IN  /\ r \in [Kinds -> Nat]
               /\ \A j \in Kinds : r[j] = q[j] - b[j] /\ r[j] <= q[j]
               /\ Worth(r) = Worth(q) - Worth(b)
               /\ Worth(q) \in Nat /\ Worth(b) \in Nat
  <1> DEFINE r == [j \in Kinds |-> q[j] - b[j]]
  <1>1. r \in [Kinds -> Nat] /\ \A j \in Kinds : r[j] = q[j] - b[j] /\ r[j] <= q[j]
    OBVIOUS
  <1> DEFINE Q(j) == Value[j] * q[j]
             B(j) == Value[j] * b[j]
  <1>2. ASSUME NEW j \in Kinds
        PROVE  Q(j) \in Nat /\ B(j) \in Nat /\ Value[j] * r[j] = Q(j) - B(j)
    <2>1. Value[j] \in Nat /\ q[j] \in Nat /\ b[j] \in 0..q[j]
      OBVIOUS
    <2>2. \A x, s \in Nat : \A t \in 0..s : /\ x * (s - t) = x * s - x * t
                                           /\ x * s \in Nat /\ x * t \in Nat
      OBVIOUS
    <2> QED BY <1>1, <2>1, <2>2
  <1>3. 1 \in Kinds /\ 2 \in Kinds /\ 3 \in Kinds /\ 4 \in Kinds
    BY DEF Kinds
  <1>4. /\ Worth(q) = Q(1) + Q(2) + Q(3) + Q(4)
        /\ Worth(b) = B(1) + B(2) + B(3) + B(4)
        /\ Worth(r) = Value[1] * r[1] + Value[2] * r[2] + Value[3] * r[3] + Value[4] * r[4]
    BY DEF Worth
  <1> HIDE DEF Q, B, r
  <1>5. Worth(r) = (Q(1) - B(1)) + (Q(2) - B(2)) + (Q(3) - B(3)) + (Q(4) - B(4))
    BY <1>2, <1>3, <1>4
  <1>6. Worth(r) = Worth(q) - Worth(b) /\ Worth(q) \in Nat /\ Worth(b) \in Nat
    BY <1>2, <1>3, <1>4, <1>5
  <1> QED BY <1>1, <1>6 DEF r

Some(x, y, z, t) == [j \in Kinds |-> CASE j = 1 -> x [] j = 2 -> y
                                       [] j = 3 -> z [] j = 4 -> t]

\* b are these notes, and worth what these are worth.
Consists(b, x, y, z, t) ==
    /\ b \in [Kinds -> Nat]
    /\ b[1] = x /\ b[2] = y /\ b[3] = z /\ b[4] = t
    /\ Worth(b) = Value[1] * x + Value[2] * y + Value[3] * z + Value[4] * t

LEMMA SomeNotes ==
    ASSUME NEW x \in Nat, NEW y \in Nat, NEW z \in Nat, NEW t \in Nat
    PROVE  Consists(Some(x, y, z, t), x, y, z, t)
  <1>1. /\ Some(x, y, z, t)[1] = x /\ Some(x, y, z, t)[2] = y
        /\ Some(x, y, z, t)[3] = z /\ Some(x, y, z, t)[4] = t
    BY DEF Some, Kinds
  <1>2. Some(x, y, z, t) \in [Kinds -> Nat]
    BY DEF Some, Kinds
  <1> QED BY <1>1, <1>2 DEF Worth, Consists

\* A way to pay that has e notes of kind k too few has notes of smaller kinds to
\* spare that are worth as much.
LEMMA SpareChange ==
    ASSUME Chained, NEW k \in Kinds, NEW q \in [Kinds -> Nat], NEW e \in Nat,
           \A j \in Kinds : j < k => q[j] = 0,
           Value[k] * q[k] + Value[k] * e <= Worth(q)
    PROVE  \E b \in [Kinds -> Nat] :
               /\ \A j \in Kinds : b[j] <= q[j]
               /\ \A j \in Kinds : j <= k => b[j] = q[j]
               /\ Worth(b) = Value[k] * q[k] + Value[k] * e
  <1> DEFINE Q(j) == Value[j] * q[j]
             E == Value[k] * e
  <1>1. /\ 1 \in Kinds /\ 2 \in Kinds /\ 3 \in Kinds /\ 4 \in Kinds
        /\ \A j \in Kinds : j \in {1, 2, 3, 4}
        /\ 1 \in 1..3 /\ 2 \in 1..3 /\ 3 \in 1..3
    BY DEF Kinds
  <1>2. \A j \in Kinds : /\ Value[j] \in Nat \ {0} /\ q[j] \in Nat /\ Q(j) \in Nat
                         /\ (q[j] = 0 => Q(j) = 0)
    <2> SUFFICES ASSUME NEW j \in Kinds
                 PROVE  /\ Value[j] \in Nat \ {0} /\ q[j] \in Nat /\ Q(j) \in Nat
                        /\ (q[j] = 0 => Q(j) = 0)
      OBVIOUS
    <2>1. Value[j] \in Nat \ {0} /\ q[j] \in Nat
      OBVIOUS
    <2> QED BY <2>1
  <1>3. E \in Nat
    BY <1>2
  <1>4. Worth(q) = Q(1) + Q(2) + Q(3) + Q(4) /\ Q(k) + E <= Worth(q)
    BY DEF Worth
  <1>6. /\ \A j \in Kinds : q[j] \in 0..q[j]
        /\ \A j \in Kinds : \A x \in 0..q[j] : x \in Nat /\ x <= q[j]
    BY <1>2
  <1>7. CASE k = 1
    <2>1. PICK g \in Nat : Value[1] * e = Value[2] * g
      BY <1>1, InNextKind
    <2>2. Multiple(Value[2], Value[3]) /\ Multiple(Value[3], Value[4])
      <3>1. Multiple(Value[2], Value[2 + 1]) /\ Multiple(Value[3], Value[3 + 1])
        BY <1>1, InNextKind
      <3> QED BY <3>1
    <2>3. E = Value[2] * g
      BY <1>7, <2>1
    <2>4. E <= Q(2) + Q(3) + Q(4)
      <3>1. Q(1) + E <= Q(1) + Q(2) + Q(3) + Q(4)
        BY <1>4, <1>7
      <3>2. Q(1) \in Nat /\ Q(2) \in Nat /\ Q(3) \in Nat /\ Q(4) \in Nat
        BY <1>1, <1>2
      <3> HIDE DEF Q, E
      <3> QED BY <1>3, <3>1, <3>2
    <2>5. Value[2] * g <= Value[2] * q[2] + Value[3] * q[3] + Value[4] * q[4]
      <3> HIDE DEF E
      <3> QED BY <2>3, <2>4
    <2>6. PICK y \in 0..q[2], z \in 0..q[3], t \in 0..q[4] :
              Value[2] * g = Value[2] * y + Value[3] * z + Value[4] * t
      <3>1. ThreeChange(Value[2], g, q[2], Value[3], q[3], Value[4], q[4])
        BY <1>1, <1>2, <2>2, <2>5, ChangeOfThree
      <3> QED BY <3>1 DEF ThreeChange
    <2> DEFINE b == Some(q[1], y, z, t)
    <2>7. /\ b \in [Kinds -> Nat] /\ \A j \in Kinds : b[j] <= q[j]
          /\ b[1] = q[1]
          /\ Worth(b) = Value[1] * q[1] + Value[2] * y + Value[3] * z + Value[4] * t
      <3>1. /\ q[1] \in Nat /\ y \in Nat /\ z \in Nat /\ t \in Nat
            /\ q[1] <= q[1] /\ y <= q[2] /\ z <= q[3] /\ t <= q[4]
        BY <1>1, <1>6
      <3>2. Consists(b, q[1], y, z, t)
        BY <3>1, SomeNotes
      <3> HIDE DEF b
      <3>3. /\ b[1] = q[1] /\ b[2] = y /\ b[3] = z /\ b[4] = t
        BY <3>2 DEF Consists
      <3>4. b \in [Kinds -> Nat] /\ Worth(b) = Value[1] * q[1] + Value[2] * y + Value[3] * z + Value[4] * t
        BY <3>2 DEF Consists
      <3>5. \A j \in Kinds : b[j] <= q[j]
        BY <1>1, <3>1, <3>3
      <3> QED BY <3>3, <3>4, <3>5
    <2>8. Worth(b) = Q(1) + E
      <3> DEFINE Y == Value[2] * y
                 Z == Value[3] * z
                 T == Value[4] * t
      <3>1. y \in Nat /\ z \in Nat /\ t \in Nat
        OBVIOUS
      <3>2. Y \in Nat /\ Z \in Nat /\ T \in Nat
        BY <1>1, <1>2, <3>1, Products
      <3>3. Worth(b) = Q(1) + Y + Z + T /\ E = Y + Z + T /\ Q(1) \in Nat
        BY <1>1, <1>2, <2>3, <2>6, <2>7
      <3> HIDE DEF Q, E, Y, Z, T, b
      <3> QED BY <3>2, <3>3
    <2>9. \A j \in Kinds : j <= k => b[j] = q[j]
      BY <1>1, <1>7, <2>7
    <2> HIDE DEF b
    <2> QED BY <1>7, <2>7, <2>8, <2>9
  <1>8. CASE k = 2
    <2>1. PICK g \in Nat : Value[2] * e = Value[3] * g
      BY <1>1, InNextKind
    <2>2. Multiple(Value[3], Value[4])
      <3>1. Multiple(Value[3], Value[3 + 1])
        BY <1>1, InNextKind
      <3> QED BY <3>1
    <2>3. E = Value[3] * g /\ Q(1) = 0 /\ q[1] = 0
      BY <1>1, <1>2, <1>8, <2>1
    <2>4. E <= Q(3) + Q(4)
      <3>1. Q(2) + E <= Q(1) + Q(2) + Q(3) + Q(4)
        BY <1>4, <1>8
      <3>2. Q(1) = 0 /\ Q(2) \in Nat /\ Q(3) \in Nat /\ Q(4) \in Nat
        BY <1>1, <1>2, <2>3
      <3> HIDE DEF Q, E
      <3> QED BY <1>3, <3>1, <3>2
    <2>5. Value[3] * g <= Value[3] * q[3] + Value[4] * q[4]
      <3> HIDE DEF E
      <3> QED BY <2>3, <2>4
    <2>6. PICK z \in 0..q[3], t \in 0..q[4] : Value[3] * g = Value[3] * z + Value[4] * t
      <3>1. TwoChange(Value[3], g, q[3], Value[4], q[4])
        BY <1>1, <1>2, <2>2, <2>5, ChangeOfTwo
      <3> QED BY <3>1 DEF TwoChange
    <2> DEFINE b == Some(q[1], q[2], z, t)
    <2>7. /\ b \in [Kinds -> Nat] /\ \A j \in Kinds : b[j] <= q[j]
          /\ b[1] = q[1] /\ b[2] = q[2]
          /\ Worth(b) = Value[1] * q[1] + Value[2] * q[2] + Value[3] * z + Value[4] * t
      <3>1. /\ q[1] \in Nat /\ q[2] \in Nat /\ z \in Nat /\ t \in Nat
            /\ q[1] <= q[1] /\ q[2] <= q[2] /\ z <= q[3] /\ t <= q[4]
        BY <1>1, <1>6
      <3>2. Consists(b, q[1], q[2], z, t)
        BY <3>1, SomeNotes
      <3> HIDE DEF b
      <3>3. /\ b[1] = q[1] /\ b[2] = q[2] /\ b[3] = z /\ b[4] = t
        BY <3>2 DEF Consists
      <3>4. b \in [Kinds -> Nat] /\ Worth(b) = Value[1] * q[1] + Value[2] * q[2] + Value[3] * z + Value[4] * t
        BY <3>2 DEF Consists
      <3>5. \A j \in Kinds : b[j] <= q[j]
        BY <1>1, <3>1, <3>3
      <3> QED BY <3>3, <3>4, <3>5
    <2>8. Worth(b) = Q(2) + E
      <3> DEFINE Z == Value[3] * z
                 T == Value[4] * t
      <3>1. z \in Nat /\ t \in Nat
        OBVIOUS
      <3>2. Z \in Nat /\ T \in Nat
        BY <1>1, <1>2, <3>1, Products
      <3>3. Worth(b) = Q(1) + Q(2) + Z + T /\ E = Z + T /\ Q(1) = 0 /\ Q(2) \in Nat
        BY <1>1, <1>2, <2>3, <2>6, <2>7
      <3> HIDE DEF Q, E, Z, T, b
      <3> QED BY <3>2, <3>3
    <2>9. \A j \in Kinds : j <= k => b[j] = q[j]
      BY <1>1, <1>8, <2>7
    <2> HIDE DEF b
    <2> QED BY <1>8, <2>7, <2>8, <2>9
  <1>9. CASE k = 3
    <2>1. PICK g \in Nat : Value[3] * e = Value[4] * g
      BY <1>1, InNextKind
    <2>2. E = Value[4] * g /\ Q(1) = 0 /\ Q(2) = 0
      BY <1>1, <1>2, <1>9, <2>1
    <2>3. E <= Q(4)
      <3>1. Q(3) + E <= Q(1) + Q(2) + Q(3) + Q(4)
        BY <1>4, <1>9
      <3>2. Q(1) = 0 /\ Q(2) = 0 /\ Q(3) \in Nat /\ Q(4) \in Nat
        BY <1>1, <1>2, <2>2
      <3> HIDE DEF Q, E
      <3> QED BY <1>3, <3>1, <3>2
    <2>4. g \in 0..q[4]
      <3>1. Value[4] * g <= Value[4] * q[4]
        BY <2>2, <2>3
      <3>2. g <= q[4]
        BY <1>1, <1>2, <3>1, Cancels
      <3> QED BY <1>1, <1>2, <3>2
    <2> DEFINE b == Some(q[1], q[2], q[3], g)
    <2>5. /\ b \in [Kinds -> Nat] /\ \A j \in Kinds : b[j] <= q[j]
          /\ b[1] = q[1] /\ b[2] = q[2] /\ b[3] = q[3]
          /\ Worth(b) = Value[1] * q[1] + Value[2] * q[2] + Value[3] * q[3] + Value[4] * g
      <3>1. /\ q[1] \in Nat /\ q[2] \in Nat /\ q[3] \in Nat /\ g \in Nat
            /\ q[1] <= q[1] /\ q[2] <= q[2] /\ q[3] <= q[3] /\ g <= q[4]
        BY <1>1, <1>6, <2>4
      <3>2. Consists(b, q[1], q[2], q[3], g)
        BY <3>1, SomeNotes
      <3> HIDE DEF b
      <3>3. /\ b[1] = q[1] /\ b[2] = q[2] /\ b[3] = q[3] /\ b[4] = g
        BY <3>2 DEF Consists
      <3>4. b \in [Kinds -> Nat] /\ Worth(b) = Value[1] * q[1] + Value[2] * q[2] + Value[3] * q[3] + Value[4] * g
        BY <3>2 DEF Consists
      <3>5. \A j \in Kinds : b[j] <= q[j]
        BY <1>1, <3>1, <3>3
      <3> QED BY <3>3, <3>4, <3>5
    <2>6. Worth(b) = Q(3) + E
      <3>1. Worth(b) = Q(1) + Q(2) + Q(3) + E /\ Q(1) = 0 /\ Q(2) = 0 /\ Q(3) \in Nat
        BY <1>1, <1>2, <2>2, <2>5
      <3> HIDE DEF Q, E, b
      <3> QED BY <1>3, <3>1
    <2> HIDE DEF b
    <2>7. \A j \in Kinds : j <= k => b[j] = q[j]
      <3>1. \A j \in Kinds : j <= 3 => j \in {1, 2, 3}
        BY <1>1
      <3> QED BY <1>9, <2>5, <3>1
    <2> QED BY <1>9, <2>5, <2>6, <2>7
  <1>10. CASE k = 4
    <2>1. Q(1) = 0 /\ Q(2) = 0 /\ Q(3) = 0 /\ Q(4) \in Nat
      BY <1>1, <1>2, <1>10
    <2>2. E = 0 /\ Worth(q) = Q(4)
      <3>1. Q(4) + E <= Q(1) + Q(2) + Q(3) + Q(4)
        BY <1>4, <1>10
      <3> HIDE DEF Q, E
      <3> QED BY <1>3, <1>4, <2>1, <3>1
    <2>3. Worth(q) = Q(k) + E
      <3> HIDE DEF Q, E
      <3> QED BY <1>10, <2>1, <2>2
    <2> QED BY <1>2, <2>3
  <1> QED BY <1>1, <1>7, <1>8, <1>9, <1>10

\* More notes are worth no less.
LEMMA WorthMonotone ==
    ASSUME NEW q \in [Kinds -> Nat], NEW r \in [Kinds -> Nat], \A j \in Kinds : q[j] <= r[j]
    PROVE  Worth(q) <= Worth(r)
  <1>1. Worth([j \in Kinds |-> r[j] - q[j]]) = Worth(r) - Worth(q)
        /\ [j \in Kinds |-> r[j] - q[j]] \in [Kinds -> Nat]
        /\ Worth(r) \in Nat /\ Worth(q) \in Nat
    BY Spared
  <1>2. Worth([j \in Kinds |-> r[j] - q[j]]) \in Nat
    BY <1>1, PaidEnds
  <1> QED BY <1>1, <1>2

\* Notes that are there, are within the limits and are worth the amount.
Pays(q) ==
    /\ \A k \in Kinds : q[k] <= port.stock[k] /\ q[k] <= port.limit[k]
    /\ Worth(q) = port.amount

\* Of the kinds from n on, notes that are available and worth what is left.
PaysRest(q, n) ==
    /\ \A k \in Kinds : q[k] <= Avail(k) /\ (k < n => q[k] = 0)
    /\ Worth(q) = amount_asked_int

\* If the amount could be paid at all, then at every stage of the allocation what
\* is left can be paid with the kinds that are still to come.
NoneLost ==
    /\ system_state > 0 /\ (\E q \in Counts : Pays(q)) =>
            port.amount < IntRange /\ \E q \in Counts : PaysRest(q, system_state)
    /\ /\ system_state = 6
       /\ port.amount < IntRange /\ port.amount <= port.total /\ amount_asked_int = 0
       => allocation_possible

\* When the most notes of kind k are paid, what is left can be paid without it.
LEMMA MostIsEnough ==
    ASSUME Chained, RegistersOK, NEW k \in Kinds, NEW p \in 0..MaxNotes,
           NEW q \in Counts, PaysRest(q, k), Greedy!IsMost(k, p)
    PROVE  \E r \in Counts : /\ \A j \in Kinds : r[j] <= Avail(j) /\ (j < k + 1 => r[j] = 0)
                             /\ Worth(r) = amount_asked_int - Value[k] * p
  <1>1. /\ Value[k] \in Nat \ {0} /\ amount_asked_int \in Nat /\ Avail(k) \in Nat
        /\ q \in [Kinds -> Nat] /\ p \in Nat /\ q[k] \in Nat
    BY AreNaturals DEF Counts
  <1>2. /\ p <= Avail(k) /\ Value[k] * p <= amount_asked_int
        /\ p < Avail(k) => amount_asked_int < Value[k] * (p + 1)
    BY DEF Greedy!IsMost, Greedy!Avail, Avail
  <1>3. q[k] <= p
    <2>1. Value[k] * q[k] <= Worth(q)
      <3> DEFINE z == [j \in Kinds |-> 0]
                 one == [z EXCEPT ![k] = q[k]]
      <3>1. one \in [Kinds -> Nat] /\ \A j \in Kinds : one[j] <= q[j]
        BY <1>1
      <3>2. Worth(one) = Value[k] * q[k]
        <4>1. \A j \in Kinds : Value[j] * one[j] = IF j = k THEN Value[k] * q[k] ELSE 0
          <5>1. \A j \in Kinds : Value[j] \in Nat /\ one[j] = IF j = k THEN q[k] ELSE 0
            OBVIOUS
          <5> HIDE DEF one
          <5> QED BY <5>1
        <4>2. Value[k] * q[k] \in Nat /\ k \in {1, 2, 3, 4}
              /\ 1 \in Kinds /\ 2 \in Kinds /\ 3 \in Kinds /\ 4 \in Kinds
          BY <1>1 DEF Kinds
        <4> HIDE DEF one
        <4> QED BY <4>1, <4>2 DEF Worth
      <3> HIDE DEF one
      <3> QED BY <1>1, <3>1, <3>2, WorthMonotone
    <2>2. Worth(q) = amount_asked_int /\ q[k] <= Avail(k)
      BY DEF PaysRest
    <2>3. ASSUME p < q[k] PROVE FALSE
      <3>1. amount_asked_int < Value[k] * (p + 1)
        BY <1>1, <1>2, <2>2, <2>3
      <3>2. Value[k] * (p + 1) <= Value[k] * q[k]
        BY <1>1, <2>3, Monotone
      <3>3. Value[k] * (p + 1) \in Nat /\ Value[k] * q[k] \in Nat
        BY <1>1
      <3> QED BY <1>1, <2>1, <2>2, <3>1, <3>2, <3>3
    <2>4. PICK n \in Nat : n = q[k]
      BY <1>1
    <2>5. ~ (p < n)
      BY <2>3, <2>4, Zenon
    <2>6. p \in Nat
      BY <1>1, Zenon
    <2>7. n <= p
      BY <2>4, <2>5, <2>6
    <2> QED BY <2>4, <2>7
  <1>4. PICK e \in Nat : p = q[k] + e
    <2>1. PICK n \in Nat : n = q[k]
      BY <1>1
    <2>2. p \in Nat
      BY <1>1, Zenon
    <2>3. n <= p
      BY <1>3, <2>1
    <2>4. p - n \in Nat /\ p = n + (p - n)
      BY <2>2, <2>3
    <2> QED BY <2>1, <2>4
  <1>5. Value[k] * p = Value[k] * q[k] + Value[k] * e
    BY <1>1, <1>4
  <1>6. PICK b \in [Kinds -> Nat] :
            /\ \A j \in Kinds : b[j] <= q[j]
            /\ \A j \in Kinds : j <= k => b[j] = q[j]
            /\ Worth(b) = Value[k] * q[k] + Value[k] * e
    <2>1. \A j \in Kinds : j < k => q[j] = 0
      BY DEF PaysRest
    <2>2. Value[k] * q[k] + Value[k] * e <= Worth(q)
      BY <1>2, <1>5 DEF PaysRest
    <2> QED BY <1>1, <2>1, <2>2, SpareChange
  <1> DEFINE r == [j \in Kinds |-> q[j] - b[j]]
  <1>7. /\ r \in [Kinds -> Nat]
        /\ \A j \in Kinds : r[j] = q[j] - b[j] /\ r[j] <= q[j]
        /\ Worth(r) = Worth(q) - Worth(b)
    BY <1>1, <1>6, Spared
  <1> HIDE DEF r
  <1>8. Worth(r) = amount_asked_int - Value[k] * p
    BY <1>5, <1>6, <1>7 DEF PaysRest
  <1>9. \A j \in Kinds : r[j] <= Avail(j) /\ (j < k + 1 => r[j] = 0)
    <2> SUFFICES ASSUME NEW j \in Kinds PROVE r[j] <= Avail(j) /\ (j < k + 1 => r[j] = 0)
      OBVIOUS
    <2>1. /\ r[j] \in Nat /\ q[j] \in Nat /\ r[j] <= q[j] /\ q[j] <= Avail(j) /\ Avail(j) \in Nat
          /\ r[j] = q[j] - b[j]
      BY <1>1, <1>7, AreNaturals DEF PaysRest
    <2>2. j < k + 1 => r[j] = 0
      <3>1. j < k + 1 => j <= k
        BY DEF Kinds
      <3> QED BY <1>6, <2>1, <3>1
    <2> QED BY <2>1, <2>2
  <1>10. r \in Counts
    <2>1. \A j \in Kinds : r[j] \in Nat /\ q[j] \in 0..MaxNotes /\ r[j] <= q[j]
      BY <1>7 DEF Counts
    <2>2. \A j \in Kinds : r[j] \in 0..MaxNotes
      BY <2>1
    <2> QED BY <1>7, <2>2 DEF Counts
  <1> QED BY <1>8, <1>9, <1>10

\* No step of the abstract specification gives up a way to pay.
LEMMA NoneLostStep ==
    ASSUME Chained, CountsAll, RegistersOK, RegistersOK', NoneLost,
           [Greedy!Next]_Greedy!vars
    PROVE  NoneLost'
  <1>1. CASE Greedy!Begin
    <2>1. /\ system_state = 0 /\ system_state' = 1 /\ port' = port
          /\ amount_asked_int' = port.amount % IntRange
      BY <1>1 DEF Greedy!Begin
    <2>2. ASSUME NEW q \in Counts, Pays(q)
          PROVE  port.amount < IntRange /\ PaysRest(q, 1)'
      <3>1. q \in [Kinds -> Nat] /\ [j \in Kinds |-> MaxNotes] \in [Kinds -> Nat]
            /\ \A j \in Kinds : q[j] <= [i \in Kinds |-> MaxNotes][j]
        BY DEF Counts
      <3>2. Worth(q) <= Worth([j \in Kinds |-> MaxNotes])
        BY <3>1, WorthMonotone
      <3>3. Worth(q) \in Nat /\ Worth([j \in Kinds |-> MaxNotes]) \in Nat
        BY <3>1, PaidEnds
      <3>4. Worth(q) < IntRange /\ port.amount = Worth(q)
        BY <2>2, <3>2, <3>3 DEF CountsAll, Pays
      <3>5. amount_asked_int' = Worth(q)
        BY <2>1, <3>3, <3>4
      <3>6. \A j \in Kinds : q[j] <= Avail(j)' /\ (j < 1 => q[j] = 0)
        BY <2>1, <2>2 DEF Pays, Avail, Kinds
      <3> QED BY <3>4, <3>5, <3>6 DEF PaysRest
    <2>3. (\E q \in Counts : Pays(q)') => (\E q \in Counts : Pays(q))
      BY <2>1 DEF Pays
    <2> QED BY <2>1, <2>2, <2>3 DEF NoneLost, PaysRest
  <1>2. ASSUME NEW k \in Kinds, Greedy!PayMost(k) PROVE NoneLost'
    <2>1. PICK p \in 0..MaxNotes : /\ Greedy!IsMost(k, p)
                                   /\ amount_asked_int' = amount_asked_int - Value[k] * p
      BY <1>2 DEF Greedy!PayMost
    <2>2. system_state = k /\ system_state' = k + 1 /\ port' = port
      BY <1>2 DEF Greedy!PayMost
    <2>3. k > 0 /\ k + 1 # 6
      BY DEF Kinds
    <2>4. (\E q \in Counts : Pays(q)') => (\E q \in Counts : Pays(q))
      BY <2>2 DEF Pays
    <2>5. ASSUME NEW q \in Counts, PaysRest(q, k)
          PROVE  \E r \in Counts : PaysRest(r, k + 1)'
      <3>1. PICK r \in Counts : /\ \A j \in Kinds : r[j] <= Avail(j) /\ (j < k + 1 => r[j] = 0)
                                /\ Worth(r) = amount_asked_int - Value[k] * p
        BY <2>1, <2>5, MostIsEnough
      <3>2. \A j \in Kinds : Avail(j)' = Avail(j)
        BY <2>2 DEF Avail
      <3> QED BY <2>1, <3>1, <3>2 DEF PaysRest
    <2> QED BY <2>2, <2>3, <2>4, <2>5 DEF NoneLost, PaysRest
  <1>3. CASE Greedy!Tell
    <2>1. /\ system_state = 5 /\ system_state' = 6 /\ UNCHANGED <<port, amount_asked_int>>
          /\ allocation_possible'
                 = (port.amount < IntRange /\ port.amount <= port.total /\ amount_asked_int = 0)
      BY <1>3 DEF Greedy!Tell
    <2>2. \A q \in Counts : PaysRest(q, 5) => PaysRest(q, 6)'
      BY <2>1 DEF PaysRest, Avail, Kinds
    <2>3. (\E q \in Counts : Pays(q)') => (\E q \in Counts : Pays(q))
      BY <2>1 DEF Pays
    <2>4. (\E q \in Counts : PaysRest(q, 5)) => (\E q \in Counts : PaysRest(q, 6)')
      BY <2>2
    <2>5. (\E q \in Counts : Pays(q)') => port.amount < IntRange /\ \E q \in Counts : PaysRest(q, 5)
      BY <2>1, <2>3 DEF NoneLost
    <2> HIDE DEF PaysRest
    <2>6. (\E q \in Counts : PaysRest(q, 6)') => \E q \in Counts : PaysRest(q, system_state)'
      BY <2>1 DEF PaysRest
    <2> QED BY <2>1, <2>4, <2>5, <2>6 DEF NoneLost
  <1>4. CASE Greedy!Withdraw \/ Greedy!Reset \/ Greedy!Ask
    <2>1. system_state' = 0
      BY <1>4 DEF Greedy!Withdraw, Greedy!Reset, Greedy!Ask
    <2> QED BY <2>1 DEF NoneLost
  <1>5. CASE Greedy!Release \/ UNCHANGED Greedy!vars
    <2>1. UNCHANGED <<port, system_state, amount_asked_int, allocation_possible>>
      BY <1>5 DEF Greedy!Release, Greedy!vars
    <2> QED BY <2>1 DEF NoneLost, Pays, PaysRest, Avail
  <1> QED
    BY <1>1, <1>2, <1>3, <1>4, <1>5 DEF Greedy!Next, Greedy!Kinds, Kinds

\* note_allocator.vhd:24-26, 79-239: for a client that waits, a no means that no
\* notes in the machine and within the limits are worth the amount, or that it is
\* above the total: taking the most notes of each kind first misses no payment of
\* notes each worth a multiple of the next, as 2000, 1000, 500 and 100 are.
THEOREM NoIsRight ==
    ASSUME Chained, CountsAll
    PROVE  PatientSpec => []Complete
  <1>1. Init => NoneLost
    BY DEF Init, NoneLost
  <1>2. TypeOK /\ TypeOK' /\ PatientInv /\ NoneLost /\ [PatientNext]_vars => NoneLost'
    <2>1. TypeOK /\ PatientInv /\ [PatientNext]_vars => [Greedy!Next]_Greedy!vars
      BY StepRefines
    <2> QED BY <2>1, NoneLostStep DEF TypeOK
  <1>3. TypeOK /\ PatientInv /\ NoneLost => Complete
    <2> SUFFICES ASSUME TypeOK, PatientInv, NoneLost, done, ~allocation_possible,
                        ~(port.amount > port.total), NEW q \in Counts, Pays(q)
                 PROVE  FALSE
      BY DEF Complete, Pays
    <2>1. system_state = 6
      BY DEF PatientInv, DoneIsLast
    <2>2. port.amount < IntRange
      BY <2>1 DEF NoneLost
    <2>3. PICK r \in Counts : PaysRest(r, 6)
      BY <2>1 DEF NoneLost
    <2>4. amount_asked_int = 0
      <3>1. r \in [Kinds -> Nat] /\ Paid(r, 1) = r
        BY <2>3 DEF Counts, Paid, PaysRest, Kinds
      <3> QED BY <2>3, <3>1, PaidEnds DEF PaysRest
    <2>5. port.amount <= port.total
      BY DEF TypeOK, RegistersOK, Ports, PortRange
    <2> QED BY <2>1, <2>2, <2>4, <2>5 DEF NoneLost
  <1> QED BY <1>1, <1>2, <1>3, PatientTypeCorrect, Patience, PTL DEF PatientSpec

-----------------------------------------------------------------------------
(* How long an allocation takes.                                            *)

\* Whatever was dropped, an open bracket has its limits in order.
Ordered == binarysearch_start => left_limit <= right_limit

LEMMA OrderedStep ==
    ASSUME RegistersOK, OutLinesOK, Ordered, Edge
    PROVE  Ordered'
  <1> USE DEF Ordered, bracket
  <1>1. left_limit \in Nat /\ right_limit \in Nat
    BY DEF RegistersOK
  <1>2. CASE Latch \/ Verdict \/ Hold \/ StartLow
    BY <1>2 DEF Latch, Verdict, Hold, StartLow, registers
  <1>3. ASSUME NEW k \in Kinds, TakeAll(k) \/ Settle(k) PROVE Ordered'
    BY <1>3 DEF TakeAll, Settle
  <1>4. ASSUME NEW k \in Kinds, StartSearch(k) PROVE Ordered'
    <2>1. Avail(k) \in Nat
      BY AreNaturals DEF RegistersOK
    <2> QED BY <1>4, <2>1 DEF StartSearch
  <1>5. ASSUME NEW k \in Kinds, LowerRight(k) \/ RaiseLeft(k) PROVE Ordered'
    <2>1. left_limit <= Middle /\ Middle <= right_limit
      BY <1>1, <1>5 DEF LowerRight, RaiseLeft, Middle
    <2> QED BY <1>1, <1>5, <2>1 DEF LowerRight, RaiseLeft
  <1> QED BY <1>2, <1>3, <1>4, <1>5 DEF Edge, Allocate

\* A search that goes round goes round for as long as its lines are still.
LEMMA StuckStays ==
    ASSUME RegistersOK, NEW k \in Kinds, Stuck(k), Edge, UNCHANGED client
    PROVE  Stuck(k)'
  <1> DEFINE w == Value[k] * left_limit
             a == Value[k] * Avail(k)
  <1>1. /\ start /\ system_state = k /\ amount_asked_int < a
        /\ binarysearch_start /\ left_limit = right_limit /\ amount_asked_int < w
    BY DEF Stuck, Searching, AtKind
  <1>2. left_limit \in Nat /\ Middle = left_limit
    BY <1>1 DEF RegistersOK, Middle
  <1>3. amount_asked_int \in Nat /\ a \in Nat /\ w \in Nat /\ Value[k] * Middle = w
    BY <1>2, AreNaturals DEF RegistersOK
  <1> HIDE DEF w, a
  <1>4. ~TakeAll(k) /\ ~StartSearch(k) /\ ~RaiseLeft(k) /\ ~Settle(k)
    BY <1>1, <1>2, <1>3 DEF TakeAll, StartSearch, RaiseLeft, Settle, MaySettle, a
  <1>5. Allocate(k)
    <2>1. PICK j \in Kinds : Allocate(j)
      <3>1. start /\ system_state # 0 /\ system_state # 5 /\ system_state # 6
        BY <1>1 DEF Kinds
      <3>2. ~Latch /\ ~Verdict /\ ~Hold /\ ~StartLow
        BY <3>1 DEF Latch, Verdict, Hold, StartLow
      <3> QED BY <3>2, Zenon DEF Edge
    <2>2. AtKind(j)
      BY <2>1 DEF Allocate, TakeAll, StartSearch, LowerRight, RaiseLeft, Settle, MaySettle,
                  Searching
    <2> QED BY <1>1, <2>1, <2>2 DEF AtKind
  <1>6. LowerRight(k)
    BY <1>4, <1>5 DEF Allocate
  <1>7. /\ right_limit' = right_limit /\ left_limit' = left_limit /\ binarysearch_start'
        /\ system_state' = k /\ amount_asked_int' = amount_asked_int
        /\ start' /\ port' = port
    BY <1>1, <1>2, <1>6 DEF LowerRight, client
  <1>8. Avail(k)' = Avail(k)
    BY <1>7 DEF Avail
  <1> QED BY <1>1, <1>7, <1>8 DEF Stuck, Searching, AtKind, a, w

\* The clocks to the verdict of a search that ends: those of this kind, with the
\* bracket as it is, and all of those of the kinds to come.
KindClocks(clocks) == 1 + clocks[MaxNotes]

ClocksLeft(clocks) ==
    IF system_state = 0 THEN AllocationClocks(clocks, MaxNotes)
    ELSE IF system_state \in Kinds
         THEN (4 - system_state) * KindClocks(clocks) + 1
              + IF binarysearch_start THEN clocks[right_limit - left_limit] ELSE KindClocks(clocks)
    ELSE 6 - system_state

\* After the clock of an edge there is the verdict, or a search that goes round, or
\* at least one clock less to go.
Advances(clocks) ==
    \/ system_state' = 6 /\ done'
    \/ \E k \in Kinds : Stuck(k)'
    \/ system_state' \in 1..5 /\ ClocksLeft(clocks)' < ClocksLeft(clocks)

LEMMA KindsLeft ==
    ASSUME NEW clocks, SearchClocks(clocks, MaxNotes)
    PROVE  /\ KindClocks(clocks) \in Nat
           /\ AllocationClocks(clocks, MaxNotes) = 3 * KindClocks(clocks) + 2 + KindClocks(clocks)
           /\ \A k \in Kinds : (4 - k) * KindClocks(clocks) \in Nat
           /\ \A k \in 1..3 : (4 - k) * KindClocks(clocks)
                              = (4 - (k + 1)) * KindClocks(clocks) + KindClocks(clocks)
           /\ (4 - 1) * KindClocks(clocks) = 3 * KindClocks(clocks)
           /\ \A w \in 0..MaxNotes : clocks[w] \in Nat \ {0} /\ clocks[w] < KindClocks(clocks)
  <1>1. /\ clocks[MaxNotes] \in Nat \ {0}
        /\ \A w \in 0..MaxNotes : clocks[w] \in Nat \ {0} /\ clocks[w] <= clocks[MaxNotes]
    BY DEF SearchClocks
  <1> DEFINE c == KindClocks(clocks)
  <1>2. c \in Nat /\ clocks[MaxNotes] + 1 = c
    BY <1>1 DEF KindClocks
  <1> HIDE DEF c
  <1>3. \A w \in 0..MaxNotes : clocks[w] < c
    BY <1>1, <1>2
  <1>4. AllocationClocks(clocks, MaxNotes) = 3 * c + 2 + c /\ (4 - 1) * c = 3 * c
    BY <1>1, <1>2 DEF AllocationClocks
  <1>5. \A k \in 1..4 : (4 - k) * c \in Nat
    BY <1>2
  <1>6. \A k \in 1..3 : (4 - k) * c = (4 - (k + 1)) * c + c
    <2> SUFFICES ASSUME NEW k \in 1..3 PROVE (4 - k) * c = (4 - (k + 1)) * c + c
      OBVIOUS
    <2>1. PICK m \in Int : m = 4 - (k + 1)
      OBVIOUS
    <2>2. (m + 1) * c = m * c + c
      BY <1>2
    <2>3. 4 - k = m + 1
      BY <2>1
    <2> QED BY <2>1, <2>2, <2>3, Zenon
  <1>7. \A k \in Kinds : (4 - k) * c \in Nat
    BY <1>5 DEF Kinds
  <1> QED BY <1>1, <1>2, <1>3, <1>4, <1>6, <1>7 DEF c

LEMMA EdgeAdvances ==
    ASSUME NEW clocks, SearchClocks(clocks, MaxNotes),
           RegistersOK, OutLinesOK, Ordered, Edge, UNCHANGED client, start, system_state <= 5
    PROVE  Advances(clocks)
  <1> DEFINE c == KindClocks(clocks)
             Here == IF binarysearch_start THEN clocks[right_limit - left_limit] ELSE c
             HereNext == IF binarysearch_start' THEN clocks[right_limit' - left_limit'] ELSE c
             y(k) == (4 - k) * c
  <1>1. /\ left_limit \in 0..MaxNotes /\ right_limit \in 0..MaxNotes
        /\ left_limit' \in 0..MaxNotes /\ right_limit' \in 0..MaxNotes
        /\ system_state \in 0..6 /\ system_state' \in 0..6
    BY EdgeType DEF RegistersOK, OutputsOK
  <1>2. /\ binarysearch_start => right_limit - left_limit \in 0..MaxNotes
        /\ binarysearch_start' => right_limit' - left_limit' \in 0..MaxNotes
    <2>1. Ordered /\ Ordered'
      BY OrderedStep
    <2>2. \A l, r \in 0..MaxNotes : l <= r => r - l \in 0..MaxNotes
      OBVIOUS
    <2> QED BY <1>1, <2>1, <2>2 DEF Ordered
  <1>3. /\ c \in Nat /\ AllocationClocks(clocks, MaxNotes) = y(1) + 2 + c
        /\ \A k \in Kinds : y(k) \in Nat
        /\ \A k \in 1..3 : y(k) = y(k + 1) + c
        /\ \A w \in 0..MaxNotes : clocks[w] \in Nat \ {0} /\ clocks[w] < c
    BY KindsLeft
  <1> HIDE DEF c
  <1>4. Here \in Nat \ {0} /\ Here <= c /\ HereNext \in Nat \ {0} /\ HereNext <= c
    <2>1. c \in Nat \ {0}
      BY <1>3
    <2> QED BY <1>2, <1>3, <2>1
  <1>5. /\ system_state = 0 => ClocksLeft(clocks) = y(1) + 2 + c
        /\ \A k \in Kinds : system_state = k => ClocksLeft(clocks) = y(k) + 1 + Here
        /\ \A k \in Kinds : system_state' = k => ClocksLeft(clocks)' = y(k) + 1 + HereNext
        /\ system_state' = 5 => ClocksLeft(clocks)' = 1
    BY <1>3 DEF ClocksLeft, Kinds, c
  <1> HIDE DEF y, Here, HereNext
  <1>6. CASE Latch
    <2>1. system_state = 0 /\ system_state' = 1
      BY <1>6 DEF Latch
    <2> QED BY <1>3, <1>4, <1>5, <2>1 DEF Advances, Kinds
  <1>7. CASE Verdict
    BY <1>7 DEF Verdict, Advances
  <1>8. ASSUME NEW k \in Kinds, Allocate(k) PROVE Advances(clocks)
    <2>1. system_state = k /\ y(k) \in Nat /\ k \in 1..5
      BY <1>3, <1>8 DEF Allocate, TakeAll, StartSearch, LowerRight, RaiseLeft, Settle, MaySettle,
                        Searching, AtKind, Kinds
    <2>2. ClocksLeft(clocks) = y(k) + 1 + Here
      BY <1>5, <2>1
    <2>3. ASSUME system_state' = k, HereNext < Here PROVE Advances(clocks)
      <3>1. ClocksLeft(clocks)' = y(k) + 1 + HereNext
        BY <1>5, <2>3
      <3> QED BY <1>4, <2>1, <2>2, <2>3, <3>1 DEF Advances, Kinds
    <2>4. CASE TakeAll(k) \/ Settle(k)
      <3>1. system_state' = k + 1
        BY <2>4 DEF TakeAll, Settle, Pay
      <3>2. CASE k = 4
        <4>1. system_state' = 5 /\ ClocksLeft(clocks)' = 1
          BY <1>5, <3>1, <3>2
        <4> QED BY <1>4, <2>1, <2>2, <4>1 DEF Advances
      <3>3. CASE k \in 1..3
        <4>1. k + 1 \in Kinds /\ y(k) = y(k + 1) + c /\ y(k + 1) \in Nat
          BY <1>3, <3>3 DEF Kinds
        <4>2. ClocksLeft(clocks)' = y(k + 1) + 1 + HereNext
          BY <1>5, <3>1, <4>1
        <4> QED BY <1>3, <1>4, <2>2, <3>1, <4>1, <4>2 DEF Advances, Kinds
      <3> QED BY <3>2, <3>3 DEF Kinds
    <2>5. CASE StartSearch(k)
      <3>1. /\ ~binarysearch_start /\ binarysearch_start'
            /\ left_limit' = 0 /\ right_limit' = Avail(k) /\ system_state' = k
        BY <2>1, <2>5 DEF StartSearch
      <3>2. Here = c /\ HereNext < c
        BY <1>2, <1>3, <3>1 DEF Here, HereNext
      <3> QED BY <2>3, <3>1, <3>2
    <2>6. ASSUME binarysearch_start, binarysearch_start', system_state' = k,
                 right_limit - left_limit \in 2..MaxNotes,
                 \/ right_limit' - left_limit' = (right_limit - left_limit) \div 2
                 \/ right_limit' - left_limit' = (right_limit - left_limit)
                                                    - (right_limit - left_limit) \div 2
          PROVE  Advances(clocks)
      <3> DEFINE w == right_limit - left_limit
                 v == right_limit' - left_limit'
      <3>1. w \in 2..MaxNotes /\ v \in 0..MaxNotes /\ v <= w - w \div 2 /\ w - w \div 2 \in 0..MaxNotes
        <4>1. w \in 2..MaxNotes /\ v \in 0..MaxNotes
          BY <1>2, <2>6
        <4>2. v = w \div 2 \/ v = w - w \div 2
          BY <2>6
        <4> HIDE DEF v, w
        <4>3. w \div 2 <= w - w \div 2 /\ w - w \div 2 \in 0..MaxNotes /\ w \div 2 \in Nat
          BY <4>1
        <4> QED BY <4>1, <4>2, <4>3
      <3> HIDE DEF v, w
      <3>2. clocks[v] <= clocks[w - w \div 2] /\ clocks[w - w \div 2] < clocks[w]
        BY <3>1 DEF SearchClocks
      <3>3. /\ clocks[v] \in Nat /\ clocks[w - w \div 2] \in Nat /\ clocks[w] \in Nat
        BY <1>3, <3>1
      <3>4. Here = clocks[w] /\ HereNext = clocks[v]
        BY <2>6 DEF Here, HereNext, v, w
      <3>5. HereNext < Here
        BY <3>2, <3>3, <3>4
      <3> QED BY <2>3, <2>6, <3>5
    <2>7. ASSUME binarysearch_start
          PROVE  /\ Middle \in Nat /\ left_limit <= right_limit
                 /\ Middle - left_limit = (right_limit - left_limit) \div 2
                 /\ right_limit - Middle = (right_limit - left_limit)
                                              - (right_limit - left_limit) \div 2
                 /\ right_limit - left_limit <= 1 => Middle = left_limit
      <3>1. left_limit \in Nat /\ right_limit \in Nat /\ left_limit <= right_limit
        BY <1>1, <2>7 DEF Ordered
      <3>2. Middle = (left_limit + right_limit) \div 2
        BY DEF Middle
      <3>3. Middle \in Nat
        BY <3>1, <3>2
      <3>4. Middle - left_limit = (right_limit - left_limit) \div 2
        BY <3>1, <3>2
      <3>5. right_limit - Middle = (right_limit - left_limit) - (right_limit - left_limit) \div 2
        BY <3>1, <3>2
      <3>6. right_limit - left_limit <= 1 => Middle = left_limit
        BY <3>1, <3>2
      <3> QED BY <3>1, <3>3, <3>4, <3>5, <3>6
    <2>8. CASE LowerRight(k)
      <3>1. /\ binarysearch_start /\ binarysearch_start' /\ system_state' = k
            /\ right_limit' = Middle /\ left_limit' = left_limit
            /\ amount_asked_int' = amount_asked_int
            /\ amount_asked_int < Value[k] * Middle /\ amount_asked_int < Value[k] * Avail(k)
        BY <2>1, <2>8 DEF LowerRight, Searching
      <3>2. CASE right_limit - left_limit <= 1
        <4>1. left_limit' = Middle
          BY <2>7, <3>1, <3>2
        <4>2. Avail(k)' = Avail(k) /\ start'
          BY DEF Avail, client
        <4>3. Stuck(k)'
          BY <3>1, <4>1, <4>2 DEF Stuck, Searching, AtKind
        <4> QED BY <4>3 DEF Advances
      <3>3. CASE ~(right_limit - left_limit <= 1)
        <4>1. right_limit - left_limit \in 2..MaxNotes
          BY <1>1, <1>2, <3>1, <3>3
        <4> QED BY <2>6, <2>7, <3>1, <4>1
      <3> QED BY <3>2, <3>3
    <2>9. CASE RaiseLeft(k)
      <3>1. /\ binarysearch_start /\ binarysearch_start' /\ system_state' = k
            /\ right_limit' = right_limit /\ left_limit' = Middle /\ left_limit # Middle
        BY <2>1, <2>9 DEF RaiseLeft
      <3>2. right_limit - left_limit \in 2..MaxNotes
        BY <1>1, <1>2, <2>7, <3>1
      <3> QED BY <2>6, <2>7, <3>1, <3>2
    <2> QED BY <1>8, <2>4, <2>5, <2>8, <2>9 DEF Allocate
  <1> QED
    BY <1>1, <1>6, <1>7, <1>8 DEF Edge, Hold, StartLow

\* Until the verdict there is a clock to go.
LEMMA ClocksToCome ==
    ASSUME NEW clocks, SearchClocks(clocks, MaxNotes), RegistersOK, OutLinesOK, Ordered,
           system_state <= 5
    PROVE  /\ ClocksLeft(clocks) \in Nat \ {0}
           /\ system_state = 0 => ClocksLeft(clocks) = AllocationClocks(clocks, MaxNotes)
  <1> DEFINE c == KindClocks(clocks)
             y(k) == (4 - k) * c
  <1>1. /\ left_limit \in 0..MaxNotes /\ right_limit \in 0..MaxNotes /\ system_state \in 0..5
        /\ binarysearch_start \in BOOLEAN
    BY DEF RegistersOK, OutLinesOK
  <1>2. binarysearch_start => right_limit - left_limit \in 0..MaxNotes
    BY <1>1 DEF Ordered
  <1>3. /\ c \in Nat /\ AllocationClocks(clocks, MaxNotes) = 3 * c + 2 + c
        /\ \A k \in Kinds : y(k) \in Nat
        /\ \A w \in 0..MaxNotes : clocks[w] \in Nat
    BY KindsLeft
  <1>4. system_state \in Kinds =>
            ClocksLeft(clocks) = y(system_state) + 1
                + (IF binarysearch_start THEN clocks[right_limit - left_limit] ELSE c)
    BY DEF ClocksLeft, Kinds
  <1> HIDE DEF y, c
  <1>5. CASE system_state \in Kinds
    BY <1>2, <1>3, <1>4, <1>5 DEF Kinds
  <1>6. CASE system_state \notin Kinds
    BY <1>1, <1>3, <1>6 DEF ClocksLeft, Kinds
  <1> QED BY <1>5, <1>6

\* And so they are after a clock.
LEMMA ClocksAfter ==
    ASSUME NEW clocks, SearchClocks(clocks, MaxNotes), RegistersOK', OutLinesOK', Ordered',
           system_state' <= 5
    PROVE  ClocksLeft(clocks)' \in Int
  <1> DEFINE c == KindClocks(clocks)
             y(k) == (4 - k) * c
  <1>1. /\ left_limit' \in 0..MaxNotes /\ right_limit' \in 0..MaxNotes /\ system_state' \in 0..5
        /\ binarysearch_start' \in BOOLEAN
    BY DEF RegistersOK, OutLinesOK
  <1>2. binarysearch_start' => right_limit' - left_limit' \in 0..MaxNotes
    <2>1. PICK l \in 0..MaxNotes, r \in 0..MaxNotes : l = left_limit' /\ r = right_limit'
      BY <1>1
    <2>2. binarysearch_start' => l <= r
      BY <2>1 DEF Ordered
    <2>3. binarysearch_start' => r - l \in 0..MaxNotes
      BY <2>2
    <2> QED BY <2>1, <2>3
  <1>3. /\ c \in Nat /\ AllocationClocks(clocks, MaxNotes) = 3 * c + 2 + c
        /\ \A k \in Kinds : y(k) \in Nat
        /\ \A w \in 0..MaxNotes : clocks[w] \in Nat
    BY KindsLeft
  <1>4. system_state' \in Kinds =>
            ClocksLeft(clocks)' = y(system_state') + 1
                + (IF binarysearch_start' THEN clocks[right_limit' - left_limit'] ELSE c)
    BY DEF ClocksLeft, Kinds
  <1> HIDE DEF y, c
  <1>5. CASE system_state' \in Kinds
    BY <1>2, <1>3, <1>4, <1>5 DEF Kinds
  <1>6. CASE system_state' \notin Kinds
    BY <1>1, <1>3, <1>6 DEF ClocksLeft, Kinds
  <1> QED BY <1>5, <1>6

=============================================================================
