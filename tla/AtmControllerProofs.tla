-------------------------- MODULE AtmControllerProofs --------------------------
(***************************************************************************)
(* Proofs about AtmController, and at the end about the synchronisation     *)
(* round of AtmSync, for every size of its words, its cache and its notes,  *)
(* every number of cipher rounds and every timing that its assumptions      *)
(* allow, with a free host, free customers and resets at any clock.         *)
(***************************************************************************)
EXTENDS AtmSync, TLAPS, WellFoundedInduction

USE ByteRangeAssumption, FieldAssumption, CacheSizeAssumption, TimingAssumption,
    MoneyAssumption, InputsAssumption

-----------------------------------------------------------------------------
(* The counters.                                                            *)

CountersOK ==
    /\ system_state \in States
    /\ input_byte_count \in 0..WordBytes
    /\ led_blink_counter \in 0..MaxBlinks
    /\ time_counter \in 0..N
    /\ time_out_counter \in 0..TimeOut
    /\ cache_update_count \in 0..CacheSize

\* A counter has not reached its end in the states that count it on.
CountersRun ==
    /\ system_state = "TakingInput" => input_byte_count < WordBytes
    /\ system_state \in {"TakingInput", "NoteAllocation", "Encrypt"} => time_out_counter = 0
    /\ system_state \in {"Communicating", "Decrypt"} => time_out_counter < TimeOut
    /\ system_state = "CommLost" => Offline
    /\ system_state \in {"TakingInput", "NoteAllocation", "Encrypt", "Communicating",
                         "Decrypt", "CommLost"} => led_blink_counter = 0
    /\ system_state \in {"LoadingCash", "NotInCache"} => led_blink_counter < MaxBlinks
    /\ system_state \in {"SyncCache", "UpdateCache"} => cache_update_count < CacheSize

CountersInv == CountersOK /\ CountersRun

LEMMA CountersStep ==
    ASSUME CountersInv, Next
    PROVE  CountersInv'
  <1> USE DEF CountersInv, CountersOK, CountersRun, Offline, States, entry, payout, memory
  <1>1. time_counter' \in 0..N
    BY DEF Next, Tick, Reset, After
  <1>2. ASSUME NEW chan \in Channels, StartSync(chan) \/ Setup(chan) \/ SyncCache(chan)
        PROVE  CountersInv'
    BY <1>1, <1>2 DEF StartSync, HostIsBack, Setup, SyncCache
  <1>3. ASSUME NEW chan \in Channels, Ready(chan) PROVE CountersInv'
    BY <1>1, <1>3 DEF Ready, ClearTransaction, ClearRest
  <1>4. ASSUME NEW chan \in Channels, Communicating(chan) PROVE CountersInv'
    BY <1>1, <1>4 DEF Communicating, CountTimeOut
  <1>5. CASE TakingInput
    BY <1>1, <1>5 DEF TakingInput, TakeByte
  <1>6. CASE NoteAllocation \/ Encrypt \/ Decrypt \/ AwaitDone \/ DecryptSetup
    BY <1>1, <1>6 DEF NoteAllocation, Encrypt, Decrypt, AwaitDone, DecryptSetup
  <1>7. CASE LoadingCash \/ NotInCache
    BY <1>1, <1>7 DEF LoadingCash, NotInCache, CountBlink
  <1>8. CASE Dispensing
    BY <1>1, <1>8 DEF Dispensing, PayOut, Refuse, HandOut, BlinkUntilUp, BlinksUp, CountBlink
  <1>9. CASE CommLost \/ CommRegained \/ UpdateCache
    BY <1>1, <1>9 DEF CommLost, CommRegained, UpdateCache
  <1>10. CASE Reset
    BY <1>1, <1>10 DEF Reset, ClearTransaction, ClearRest
  <1> QED
    BY <1>2, <1>3, <1>4, <1>5, <1>6, <1>7, <1>8, <1>9, <1>10
    DEF Next, Tick, MainProcess, HostBranch, OwnBranch

-----------------------------------------------------------------------------
(* The request that the channels show.                                      *)

\* The encrypter at work on the word w for the main process in a state that
\* drives it: a unit that was not started is at rest, one that is on its way
\* holds w, and what it says is done is w sealed.
Sealing(w) ==
    /\ ~start_encrypt => en_round = 0
    /\ en_round # 0 => en_loaded = w
    /\ encryption_over => en_round = Rounds + 1 /\ en_output = Seal(w)

\* A request is entered with the encrypter stopped, which has then seen a clock
\* of it before the request is encrypted; from then on it works on the request.
SealInv ==
    /\ en_round \in 0..(Rounds + 1)
    /\ system_state \in {"TakingInput", "NoteAllocation"} => ~start_encrypt
    /\ system_state = "NoteAllocation" => en_round = 0 /\ ~encryption_over
    /\ system_state \in {"Encrypt", "Communicating"} => Sealing(en_input)
    /\ system_state = "Communicating" => start_encrypt /\ encryption_over

LEMMA SealStep ==
    ASSUME SealInv, Next
    PROVE  SealInv'
  <1> USE DEF SealInv, Sealing, starts, inputs
  <1>1. CASE Tick
    <2> USE DEF Encrypter!ClockEdge, Encrypter!Load, Encrypter!Turn, Encrypter!Finish,
                Encrypter!Hold, Encrypter!StartLow, Seals
    <2> Encrypter!ClockEdge
      BY <1>1 DEF Tick, Units
    <2>1. en_round' \in 0..(Rounds + 1)
      OBVIOUS
    <2>2. ASSUME NEW chan \in Channels, StartSync(chan) \/ Setup(chan) \/ SyncCache(chan)
          PROVE  SealInv'
      BY <2>1, <2>2 DEF StartSync, Setup, SyncCache
    <2>3. ASSUME NEW chan \in Channels, Ready(chan) PROVE SealInv'
      BY <2>1, <2>3 DEF Ready, ClearTransaction
    <2>4. ASSUME NEW chan \in Channels, Communicating(chan) PROVE SealInv'
      <3>1. /\ system_state = "Communicating" /\ UNCHANGED <<start_encrypt, en_input>>
            /\ system_state' \in {"Communicating", "CommLost", "Decrypt", "Ready"}
        BY <2>4 DEF Communicating
      <3>2. en_round = Rounds + 1 /\ start_encrypt
        BY <3>1
      <3>3. UNCHANGED <<en_round, en_loaded, en_output, encryption_over>>
        BY <3>2
      <3> QED BY <3>1, <3>3
    <2>5. CASE TakingInput
      BY <2>1, <2>5 DEF TakingInput, TakeByte
    <2>6. CASE NoteAllocation
      BY <2>1, <2>6 DEF NoteAllocation
    <2>7. CASE Encrypt
      BY <2>1, <2>7 DEF Encrypt
    <2>8. CASE \/ Decrypt \/ LoadingCash \/ Dispensing \/ AwaitDone \/ DecryptSetup
               \/ CommLost \/ NotInCache \/ CommRegained \/ UpdateCache
      <3>1. system_state' \notin {"TakingInput", "NoteAllocation", "Encrypt", "Communicating"}
        BY <2>8 DEF Decrypt, LoadingCash, Dispensing, PayOut, Refuse, AwaitDone, DecryptSetup,
                    CommLost, NotInCache, CommRegained, UpdateCache
      <3> QED BY <2>1, <3>1
    <2> QED
      BY <1>1, <2>2, <2>3, <2>4, <2>5, <2>6, <2>7, <2>8
      DEF Tick, MainProcess, HostBranch, OwnBranch
  <1>2. CASE Reset
    BY <1>2 DEF Reset, Encrypter!ResetRegisters
  <1> QED BY <1>1, <1>2 DEF Next

-----------------------------------------------------------------------------
(* The reply that is used.                                                  *)

\* The decrypter at work on the block b.
Opening(b) ==
    /\ ~start_decrypt => de_round = 0
    /\ de_round # 0 => de_loaded = b
    /\ decryption_over => de_round = Rounds + 1 /\ de_output \in Opens(b)

\* The service is on the reply of the host.
UsesReply == system_state = "LoadingCash" \/ (system_state = "Dispensing" /\ ~Offline)

\* Until a reply is there the decrypter is stopped; then it works on it, and
\* what it gave stands while it is used.
OpenInv ==
    /\ de_round \in 0..(Rounds + 1)
    /\ system_state \in {"TakingInput", "NoteAllocation", "Encrypt", "Communicating"}
            => ~start_decrypt
    /\ system_state \in {"NoteAllocation", "Encrypt", "Communicating"}
            => de_round = 0 /\ ~decryption_over
    /\ system_state = "Decrypt" \/ UsesReply =>
            de_input = Assemble(response) /\ Opening(de_input)
    /\ UsesReply => start_decrypt /\ decryption_over

LEMMA OpenStep ==
    ASSUME CountersInv, OpenInv, Next
    PROVE  OpenInv'
  <1> USE DEF OpenInv, UsesReply, Opening, starts, inputs
  <1>1. CASE Tick
    <2> USE DEF Decrypter!ClockEdge, Decrypter!Load, Decrypter!Turn, Decrypter!Finish,
                Decrypter!Hold, Decrypter!StartLow
    <2> Decrypter!ClockEdge
      BY <1>1 DEF Tick, Units
    <2>1. de_round' \in 0..(Rounds + 1)
      OBVIOUS
    <2>2. ASSUME NEW chan \in Channels, StartSync(chan) \/ Setup(chan) \/ SyncCache(chan)
          PROVE  OpenInv'
      BY <2>1, <2>2 DEF StartSync, Setup, SyncCache
    <2>3. ASSUME NEW chan \in Channels, Ready(chan) PROVE OpenInv'
      BY <2>1, <2>3 DEF Ready, ClearTransaction
    <2>4. ASSUME NEW chan \in Channels, Communicating(chan) PROVE OpenInv'
      BY <2>1, <2>4 DEF Communicating, HandOver
    <2>5. CASE TakingInput
      BY <2>1, <2>5 DEF TakingInput, TakeByte
    <2>6. CASE NoteAllocation \/ Encrypt
      BY <2>1, <2>6 DEF NoteAllocation, Encrypt
    <2>7. CASE Decrypt
      <3>1. /\ system_state = "Decrypt" /\ start_decrypt' /\ UNCHANGED <<de_input, response>>
            /\ system_state' \in {"Decrypt", "LoadingCash", "Dispensing"}
            /\ system_state' # "Decrypt" => decryption_over
        BY <2>7 DEF Decrypt
      <3>2. /\ de_round' # 0 => de_loaded' = de_input
            /\ decryption_over' => de_round' = Rounds + 1 /\ de_output' \in Opens(de_input)
            /\ decryption_over => decryption_over'
        <4>1. Opening(de_input)
          BY <3>1
        <4>2. CASE Decrypter!Load \/ Decrypter!StartLow
          BY <4>1, <4>2
        <4>3. CASE Decrypter!Turn
          BY <4>1, <4>3
        <4>4. CASE Decrypter!Finish
          BY <4>1, <4>4
        <4>5. CASE Decrypter!Hold
          BY <4>1, <4>5
        <4> QED BY <4>2, <4>3, <4>4, <4>5
      <3> QED BY <2>1, <3>1, <3>2
    <2>8. CASE LoadingCash \/ Dispensing
      BY <2>1, <2>8 DEF LoadingCash, Dispensing, PayOut, Refuse, Offline
    <2>9. CASE CommLost
      BY <2>1, <2>9 DEF CommLost, Offline, CountersInv, CountersRun
    <2>10. CASE \/ AwaitDone \/ DecryptSetup \/ NotInCache \/ CommRegained \/ UpdateCache
      <3>1. system_state' \in {"Dummy", "Ethernet", "Ready", "DecryptSetup", "NotInCache",
                               "CommRegained", "SyncCache", "UpdateCache"}
        BY <2>10 DEF AwaitDone, DecryptSetup, NotInCache, CommRegained, UpdateCache
      <3> QED BY <2>1, <3>1
    <2> QED
      BY <1>1, <2>2, <2>3, <2>4, <2>5, <2>6, <2>7, <2>8, <2>9, <2>10
      DEF Tick, MainProcess, HostBranch, OwnBranch
  <1>2. CASE Reset
    BY <1>2 DEF Reset, Decrypter!ResetRegisters
  <1> QED BY <1>1, <1>2 DEF Next

-----------------------------------------------------------------------------
(* Words, blocks, counts and the cache.                                     *)

Blocks == {Garbled} \cup {Seal(w) : w \in Words}
Bytes == [1..WordBytes -> Blocks \cup {NoByte}]
Caches == [1..CacheSize -> Words]
Amounts == 0..(2 * IntRange - 1)

\* Dividing a number below a product by one factor gives one below the other.
LEMMA Quotient ==
    ASSUME NEW b \in Nat \ {0}, NEW c \in Nat, NEW x \in 0..(b * c - 1)
    PROVE  x \div b \in 0..(c - 1)
  <1>1. x \div b \in Nat /\ x % b \in 0..(b - 1) /\ x = b * (x \div b) + (x % b)
    OBVIOUS
  <1>2. CASE x \div b >= c
    <2>1. PICK d \in Nat : x \div b = c + d
      BY <1>1, <1>2
    <2>2. b * (c + d) = b * c + b * d /\ b * d \in Nat /\ b * c \in Nat
      OBVIOUS
    <2>3. x >= b * c
      BY <1>1, <2>1, <2>2
    <2> QED BY <2>2, <2>3
  <1> QED BY <1>1, <1>2

\* The four bytes of a half word are note counts.
LEMMA NotesOfType ==
    ASSUME NEW w \in Words
    PROVE  NotesOf(w) \in Counts
  <1> DEFINE B == ByteRange
  <1>1. B \in Nat \ {0} /\ w.low \in 0..(HalfRange - 1)
    BY DEF Words
  <1>2. B * B \in Nat \ {0} /\ B * B * B \in Nat \ {0} /\ HalfRange = (B * B * B) * B
    BY <1>1 DEF HalfRange
  <1>3. w.low \div (B * B * B) \in 0..(B - 1)
    BY <1>1, <1>2, Quotient
  <1>4. w.low \div (B * B) \in Nat /\ w.low \div B \in Nat /\ w.low \in Nat
    BY <1>1, <1>2
  <1>5. /\ (w.low \div (B * B)) % B \in 0..(B - 1)
        /\ (w.low \div B) % B \in 0..(B - 1)
        /\ w.low % B \in 0..(B - 1)
    BY <1>1, <1>4
  <1> QED BY <1>3, <1>5 DEF NotesOf, Counts, Kinds, MaxNotes

\* What a word is worth to its readers.
LEMMA WordType ==
    ASSUME NEW w \in Words
    PROVE  /\ w.uid \in Nat /\ w.pin \in 0..(PinRange - 1) /\ w.low \in 0..(HalfRange - 1)
           /\ w.low \in Amounts /\ High(w) \in Amounts
  <1>1. w.uid \in Nat /\ w.pin \in 0..(PinRange - 1) /\ w.low \in 0..(HalfRange - 1)
    BY DEF Words
  <1>2. HalfRange \in Nat
    BY DEF HalfRange
  <1>3. High(w) \in Nat /\ High(w) < 2 * IntRange
    BY <1>1 DEF Words, High
  <1> QED BY <1>1, <1>2, <1>3 DEF Amounts

\* A word keeps its card when its low half is written.
LEMMA Rebalanced ==
    ASSUME NEW w \in Words, NEW b \in 0..(HalfRange - 1)
    PROVE  /\ [w EXCEPT !.low = b] \in Words
           /\ [w EXCEPT !.low = b].uid = w.uid
           /\ [w EXCEPT !.low = b].pin = w.pin
           /\ [w EXCEPT !.low = b].low = b
  <1> DEFINE v == [w EXCEPT !.low = b]
  <1>1. w \in [uid : Nat, pin : 0..(PinRange - 1), low : 0..(HalfRange - 1)]
        /\ High(w) < 2 * IntRange
    BY DEF Words
  <1>2. v \in [uid : Nat, pin : 0..(PinRange - 1), low : 0..(HalfRange - 1)]
        /\ v.uid = w.uid /\ v.pin = w.pin /\ v.low = b
    BY <1>1
  <1>3. High(v) = High(w)
    BY <1>2 DEF High
  <1> QED BY <1>1, <1>2, <1>3 DEF Words

LEMMA HalfRangeType == HalfRange \in Nat \ {0}
  <1>1. ByteRange * ByteRange \in Nat \ {0}
    OBVIOUS
  <1>2. ByteRange * ByteRange * ByteRange \in Nat \ {0}
    BY <1>1
  <1> QED BY <1>2 DEF HalfRange

LEMMA ZeroWordType == ZeroWord \in Words /\ ZeroWord.uid = 0
  <1>1. 0 * PinRange + 0 = 0
    OBVIOUS
  <1> QED BY <1>1, HalfRangeType DEF ZeroWord, Word, Words, High

\* A block opens to words.
LEMMA OpensType ==
    ASSUME NEW b \in Blocks
    PROVE  Opens(b) \subseteq Words
  BY DEF Blocks, Opens, Seal

\* Bytes that are all there make a block.
LEMMA AssembleType ==
    ASSUME NEW bytes \in Bytes, AllReceived(bytes)
    PROVE  Assemble(bytes) \in Blocks
  BY DEF Bytes, AllReceived, Assemble, Blocks

\* A set of numbers has a least one.
LEMMA Least ==
    ASSUME NEW T, T \subseteq Nat, T # {}
    PROVE  \E x \in T : \A y \in T : x <= y
  <1> DEFINE below == OpToRel(<, Nat)
  <1>1. IsWellFoundedOn(below, Nat)
    BY NatLessThanWellFounded
  <1>2. \A x, y \in Nat : y < x => <<y, x>> \in below
    BY DEF OpToRel
  <1> HIDE DEF below
  <1>3. PICK x \in T : \A y \in T : <<y, x>> \notin below
    BY <1>1, WFMin
  <1>4. \A y \in T : ~(y < x)
    BY <1>2, <1>3
  <1>5. \A y \in T : y \in Nat /\ x \in Nat
    BY <1>3
  <1> QED
    BY <1>4, <1>5

\* The place that is looked for: the first hit, or the last entry of all.
LEMMA EntryOfType ==
    ASSUME NEW c \in Caches, NEW uid, NEW n \in 1..CacheSize
    PROVE  LET p == EntryOf(c, uid, n)
           IN  /\ p \in 1..CacheSize
               /\ \/ p <= n /\ c[p].uid = uid /\ \A i \in 1..(p - 1) : c[i].uid # uid
                  \/ p = CacheSize /\ \A i \in 1..n : c[i].uid # uid
  <1> DEFINE hits == {i \in 1..n : c[i].uid = uid}
  <1>1. CASE hits = {}
    BY <1>1 DEF EntryOf
  <1>2. CASE hits # {}
    <2>1. EntryOf(c, uid, n) = CHOOSE i \in hits : \A j \in hits : i <= j
      BY <1>2 DEF EntryOf
    <2>2. \E i \in hits : \A j \in hits : i <= j
      <3>1. hits \subseteq Nat
        OBVIOUS
      <3> HIDE DEF hits
      <3> QED BY <1>2, <3>1, Least
    <2>3. EntryOf(c, uid, n) \in hits /\ \A j \in hits : EntryOf(c, uid, n) <= j
      <3> HIDE DEF hits
      <3> QED BY <2>1, <2>2
    <2> QED BY <2>3
  <1> QED BY <1>1, <1>2

LEMMA MoveToFrontType ==
    ASSUME NEW c \in Caches, NEW p \in 1..CacheSize, NEW w \in Words
    PROVE  MoveToFront(c, p, w) \in Caches
  BY DEF MoveToFront, Caches

LEMMA RotateType ==
    ASSUME NEW c \in Caches, NEW b \in 0..(HalfRange - 1)
    PROVE  Rotate(c, b) \in Caches
  <1>1. [c[1] EXCEPT !.low = b] \in Words
    BY Rebalanced DEF Caches
  <1> QED BY <1>1 DEF Rotate, Caches

-----------------------------------------------------------------------------
(* The data.                                                                *)

DataInv ==
    /\ bank_id \in 0..(Banks - 1)
    /\ notes \in Counts /\ limit_notes \in Counts /\ limit_total_amount \in Amounts
    /\ en_input \in Words /\ amount_to_be_allocated \in Amounts
    /\ de_input \in Blocks /\ de_loaded \in Blocks /\ de_output \in Words
    /\ response \in Bytes
    /\ cache \in Caches

\* What a unit that is not asked about does on a clock edge.
LEMMA DecrypterType ==
    ASSUME DataInv, Decrypter!ClockEdge
    PROVE  de_loaded' \in Blocks /\ de_output' \in Words
  BY OpensType DEF DataInv, Decrypter!ClockEdge, Decrypter!Load, Decrypter!Turn,
                   Decrypter!Finish, Decrypter!Hold, Decrypter!StartLow

\* A byte that is written keeps the response well-formed.
LEMMA ReceiveType ==
    ASSUME DataInv, NEW chan, NEW first, NEW blocks, blocks \subseteq Blocks,
           ReceiveByte(chan, first, blocks)
    PROVE  response' \in Bytes
  BY DEF DataInv, ReceiveByte, Bytes

LEMMA HandOverType ==
    ASSUME DataInv, HandOver, response' \in Bytes
    PROVE  de_input' \in Blocks
  BY AssembleType DEF DataInv, HandOver

LEMMA BlocksOfHost ==
    /\ Replies \subseteq Blocks
    /\ {Seal(w) : w \in SetupWords} \subseteq Blocks
    /\ NoBytes \in Bytes
  BY DEF Replies, Blocks, NoBytes, Bytes

\* The cache of a service that is remembered, paid or refused.
LEMMA RememberType ==
    ASSUME DataInv, RememberPaid \/ RememberRefused
    PROVE  cache' \in Caches
  <1> en_input \in Words /\ de_output \in Words /\ cache \in Caches
    BY DEF DataInv
  <1> HalfRange \in Nat \ {0}
    BY HalfRangeType
  <1>1. ASSUME NEW p \in 1..CacheSize, NEW b \in 0..(HalfRange - 1), Remember(p, b)
        PROVE  cache' \in Caches
    BY <1>1, Rebalanced, MoveToFrontType DEF Remember
  <1>2. \A p \in 1..CacheSize : cache[p].low \in 0..(HalfRange - 1)
    BY WordType DEF Caches
  <1>3. en_input.low \in Nat /\ de_output.low \in 0..(HalfRange - 1)
    BY WordType
  <1>4. CASE RememberPaid
    <2> DEFINE p == EntryOf(cache, en_input.uid, CacheSize)
    <2>1. p \in 1..CacheSize
      BY EntryOfType
    <2>2. (cache[p].low - en_input.low) % HalfRange \in 0..(HalfRange - 1)
      BY <1>2, <1>3, <2>1
    <2> QED BY <1>1, <1>3, <1>4, <2>1, <2>2 DEF RememberPaid
  <1>5. CASE RememberRefused
    <2> DEFINE p == EntryOf(cache, en_input.uid, CacheSize - 1)
    <2>1. p \in 1..CacheSize
      BY EntryOfType
    <2> QED BY <1>1, <1>2, <1>3, <1>5, <2>1 DEF RememberRefused
  <1> QED BY <1>4, <1>5

-----------------------------------------------------------------------------
(* The allocator, with what is proved of it.                                *)

Circuit == INSTANCE NoteAllocatorProofs
    WITH Inputs <- {}, start <- start_note_allocation, port <- allocator_port,
         system_state <- na_state, notes_out <- notes_allocated,
         allocation_possible <- adequate_cash_in_atm, done <- note_allocation_over

\* The assumptions of the allocator hold of the machine's.
LEMMA CircuitFits ==
    /\ Value \in [Circuit!Kinds -> Nat \ {0}]
    /\ MaxNotes \in Nat \ {0}
    /\ IntRange \in Nat \ {0}
    /\ {} \subseteq Circuit!Ports
  BY DEF Kinds, Circuit!Kinds, MaxNotes

LEMMA SameEdge == Allocator!Edge => Circuit!Edge
  BY DEF Allocator!Edge, Allocator!Latch, Allocator!Allocate, Allocator!TakeAll,
         Allocator!StartSearch, Allocator!LowerRight, Allocator!RaiseLeft, Allocator!Settle,
         Allocator!MaySettle, Allocator!Searching, Allocator!AtKind, Allocator!Pay,
         Allocator!Avail, Allocator!Middle, Allocator!Verdict, Allocator!Hold,
         Allocator!StartLow, Allocator!Kinds, Allocator!bracket, Allocator!verdict,
         Allocator!registers,
         Circuit!Edge, Circuit!Latch, Circuit!Allocate, Circuit!TakeAll,
         Circuit!StartSearch, Circuit!LowerRight, Circuit!RaiseLeft, Circuit!Settle,
         Circuit!MaySettle, Circuit!Searching, Circuit!AtKind, Circuit!Pay,
         Circuit!Avail, Circuit!Middle, Circuit!Verdict, Circuit!Hold,
         Circuit!StartLow, Circuit!Kinds, Circuit!bracket, Circuit!verdict,
         Circuit!registers

AllocatorInv ==
    /\ start_note_allocation \in BOOLEAN
    /\ Circuit!OutLinesOK
    /\ Circuit!OutputsOK

\* The lines into the allocator are typed as its ports.
LEMMA PortType ==
    ASSUME DataInv
    PROVE  allocator_port \in Circuit!Ports
  BY DEF DataInv, allocator_port, Circuit!Ports, Circuit!PortRange, Circuit!Counts,
         Circuit!Kinds, Counts, Kinds, Amounts

LEMMA EdgeKeepsTypes ==
    ASSUME DataInv, AllocatorInv, Units
    PROVE  Circuit!OutLinesOK' /\ Circuit!OutputsOK'
  <1>1. Circuit!Edge
    BY SameEdge DEF Units
  <1>2. Circuit!RegistersOK
    BY PortType DEF AllocatorInv, Circuit!RegistersOK, Circuit!OutputsOK
  <1>3. Circuit!OutLinesOK'
    BY <1>1, CircuitFits, Circuit!EdgeLines DEF AllocatorInv
  <1>4. Circuit!OutputsOK'
    BY <1>1, <1>2, CircuitFits, Circuit!EdgeType
  <1> QED BY <1>3, <1>4

\* The notes that are left when some were paid out are a count.
LEMMA LeftType ==
    ASSUME DataInv, AllocatorInv
    PROVE  [k \in Kinds |-> (notes[k] - notes_allocated[k]) % ByteRange] \in Counts
  BY DEF DataInv, AllocatorInv, Circuit!OutputsOK, Circuit!Counts, Circuit!Kinds, Counts, Kinds,
         MaxNotes

LEMMA DataStep ==
    ASSUME DataInv, AllocatorInv, Next
    PROVE  DataInv'
  <1> USE DEF inputs, limits, memory
  <1>1. CASE Tick
    <2>1. de_loaded' \in Blocks /\ de_output' \in Words
      BY <1>1, DecrypterType DEF Tick, Units
    <2> DEFINE Same == /\ UNCHANGED <<bank_id, notes, limits, en_input, amount_to_be_allocated>>
                       /\ UNCHANGED <<de_input, response, cache>>
    <2>2. ASSUME Same PROVE DataInv'
      BY <2>1, <2>2 DEF DataInv
    <2>3. ASSUME NEW chan \in Channels, StartSync(chan) PROVE DataInv'
      BY <2>2, <2>3 DEF StartSync
    <2>4. ASSUME NEW chan \in Channels, Ready(chan) PROVE DataInv'
      BY <2>1, <2>4, BlocksOfHost DEF Ready, ClearTransaction, ClearRest, DataInv
    <2>5. ASSUME NEW chan \in Channels,
                 Communicating(chan) \/ Setup(chan) \/ SyncCache(chan)
          PROVE  DataInv'
      <3>1. response' \in Bytes
        <4>1. CASE UNCHANGED response
          BY <4>1 DEF DataInv
        <4>2. ASSUME NEW first, NEW blocks, blocks \subseteq Blocks,
                     ReceiveByte(chan, first, blocks)
              PROVE  response' \in Bytes
          BY <4>2, ReceiveType
        <4> QED BY <2>5, <4>1, <4>2, BlocksOfHost DEF Communicating, Setup, SyncCache
      <3>2. HandOver /\ UNCHANGED <<bank_id, notes, limits, en_input, amount_to_be_allocated, cache>>
        BY <2>5 DEF Communicating, Setup, SyncCache
      <3>3. de_input' \in Blocks
        BY <3>1, <3>2, HandOverType
      <3> QED BY <2>1, <3>1, <3>2, <3>3 DEF DataInv
    <2>6. CASE TakingInput
      <3>1. \/ UNCHANGED <<en_input, amount_to_be_allocated>>
            \/ \E word \in Requests : en_input' = word /\ amount_to_be_allocated' = word.low
        BY <2>6 DEF TakingInput, TakeByte
      <3>2. en_input' \in Words /\ amount_to_be_allocated' \in Amounts
        BY <3>1, WordType DEF DataInv
      <3> QED BY <2>1, <2>6, <3>2 DEF TakingInput, DataInv
    <2>7. CASE NoteAllocation \/ Encrypt \/ Decrypt \/ AwaitDone \/ CommLost \/ NotInCache
      BY <2>2, <2>7 DEF NoteAllocation, Encrypt, Decrypt, AwaitDone, CommLost, NotInCache
    <2>8. CASE LoadingCash
      <3>1. notes' \in Counts
        BY <2>8, NotesOfType DEF LoadingCash, DataInv
      <3> QED BY <2>1, <2>8, <3>1 DEF LoadingCash, DataInv
    <2>9. CASE Dispensing
      <3>1. notes' \in Counts
        BY <2>9, LeftType DEF Dispensing, PayOut, Refuse, DataInv
      <3>2. cache' \in Caches
        BY <2>9, RememberType DEF Dispensing, PayOut, Refuse, DataInv
      <3> QED BY <2>1, <2>9, <3>1, <3>2 DEF Dispensing, DataInv
    <2>10. CASE DecryptSetup
      <3>1. limit_notes' \in Counts /\ limit_total_amount' \in Amounts
        BY <2>10, NotesOfType, WordType DEF DecryptSetup, DataInv
      <3> QED BY <2>1, <2>10, <3>1 DEF DecryptSetup, DataInv
    <2>11. CASE CommRegained
      <3>1. en_input' \in Words /\ response' \in Bytes
        BY <2>11, BlocksOfHost DEF CommRegained, DataInv, Caches
      <3> QED BY <2>1, <2>11, <3>1 DEF CommRegained, DataInv
    <2>12. CASE UpdateCache
      <3>1. cache' \in Caches
        BY <2>12, RotateType, WordType DEF UpdateCache, DataInv
      <3> QED BY <2>1, <2>12, <3>1 DEF UpdateCache, DataInv
    <2> QED
      BY <1>1, <2>3, <2>4, <2>5, <2>6, <2>7, <2>8, <2>9, <2>10, <2>11, <2>12
      DEF Tick, MainProcess, HostBranch, OwnBranch
  <1>2. CASE Reset
    BY <1>2, BlocksOfHost, ZeroWordType
    DEF Reset, ClearTransaction, ClearRest, Decrypter!ResetRegisters, DataInv
  <1> QED BY <1>1, <1>2 DEF Next

LEMMA AllocatorStep ==
    ASSUME DataInv, AllocatorInv, Next
    PROVE  AllocatorInv'
  <1>1. CASE Tick
    <2>1. Circuit!OutLinesOK' /\ Circuit!OutputsOK'
      BY <1>1, EdgeKeepsTypes DEF Tick
    <2>2. start_note_allocation' \in BOOLEAN
      <3> USE DEF starts, AllocatorInv
      <3>1. ASSUME NEW chan \in Channels, HostBranch(chan) PROVE start_note_allocation' \in BOOLEAN
        BY <3>1 DEF HostBranch, StartSync, Ready, ClearTransaction, ClearRest, Communicating, Setup,
                    SyncCache
      <3>2. CASE OwnBranch
        BY <3>2 DEF OwnBranch, TakingInput, NoteAllocation, Encrypt, Decrypt, LoadingCash,
                    Dispensing, AwaitDone, DecryptSetup, CommLost, NotInCache, CommRegained,
                    UpdateCache
      <3> QED BY <1>1, <3>1, <3>2 DEF Tick, MainProcess
    <2> QED BY <2>1, <2>2 DEF AllocatorInv
  <1>2. CASE Reset
    <2>1. start_note_allocation' = FALSE /\ Allocator!ResetRegisters
      BY <1>2 DEF Reset, ClearTransaction, ClearRest
    <2>2. Circuit!OutLinesOK'
      BY <2>1 DEF Allocator!ResetRegisters, Circuit!OutLinesOK
    <2>3. Circuit!OutputsOK'
      BY <2>1 DEF Allocator!ResetRegisters, AllocatorInv, Circuit!OutputsOK
    <2> QED BY <2>1, <2>2, <2>3 DEF AllocatorInv
  <1> QED BY <1>1, <1>2 DEF Next

-----------------------------------------------------------------------------
(* The money.                                                               *)

\* From the start of the allocation until the notes are taken.
Engaged == \/ system_state \in {"Encrypt", "Communicating", "Decrypt", "CommLost"}
           \/ system_state = "Dispensing" /\ ~dispensing_done_already

\* The allocator is stopped while a request is entered, and has seen a clock of
\* that before it is started; until the notes are taken it works on this request
\* and on the notes there are, and what is proved of it holds.
MoneyInv ==
    /\ system_state \in {"TakingInput", "NoteAllocation"} => ~start_note_allocation
    /\ system_state = "NoteAllocation" => na_state = 0 /\ ~adequate_cash_in_atm
    /\ system_state = "NoteAllocation" \/ Engaged => amount_to_be_allocated = en_input.low
    /\ Engaged => start_note_allocation /\ Circuit!PaymentInv

\* While its lines are still the allocator is the circuit of NoteAllocator.
LEMMA StillLines ==
    ASSUME DataInv, AllocatorInv, AllocatorInv', Units, Circuit!PaymentInv,
           UNCHANGED <<start_note_allocation, allocator_port>>
    PROVE  Circuit!PaymentInv'
  <1>1. [Circuit!Next]_(Circuit!vars)
    BY SameEdge DEF Units, Circuit!Next, Circuit!PatientNext, Circuit!ClockEdge, Circuit!client
  <1>2. Circuit!TypeOK
    BY PortType DEF AllocatorInv, Circuit!TypeOK, Circuit!LinesOK, Circuit!RegistersOK,
                    Circuit!OutLinesOK, Circuit!OutputsOK
  <1>3. Circuit!TypeOK'
    <2>1. allocator_port' \in Circuit!Ports
      BY PortType
    <2> QED BY <2>1 DEF AllocatorInv, Circuit!TypeOK, Circuit!LinesOK, Circuit!RegistersOK,
                        Circuit!OutLinesOK, Circuit!OutputsOK
  <1> QED BY <1>1, <1>2, <1>3, CircuitFits, Circuit!PaymentStep

\* A stopped allocator is at rest, with no answer, after one clock.
LEMMA StoppedAllocator ==
    ASSUME Units, ~start_note_allocation
    PROVE  na_state' = 0 /\ adequate_cash_in_atm' = FALSE
  BY DEF Units, Allocator!Edge, Allocator!Latch, Allocator!Allocate, Allocator!TakeAll,
         Allocator!StartSearch, Allocator!LowerRight, Allocator!RaiseLeft, Allocator!Settle,
         Allocator!MaySettle, Allocator!Searching, Allocator!AtKind, Allocator!Verdict,
         Allocator!Hold, Allocator!StartLow

\* An allocation that has not begun is sound.
LEMMA RestIsSound ==
    ASSUME na_state' = 0, adequate_cash_in_atm' = FALSE
    PROVE  Circuit!PaymentInv'
  BY DEF Circuit!PaymentInv, Circuit!Conservation, Circuit!WithinStock, Circuit!VerdictHolds,
         Circuit!Kinds

LEMMA MoneyStep ==
    ASSUME DataInv, AllocatorInv, AllocatorInv', MoneyInv, Next
    PROVE  MoneyInv'
  <1> USE DEF Engaged, inputs, limits, payout, starts
  <1>1. CASE Tick
    <2> Units
      BY <1>1 DEF Tick
    <2>1. ASSUME system_state' \in {"Encrypt", "Communicating", "Decrypt", "CommLost", "Dispensing"},
                 Engaged, Engaged', UNCHANGED <<start_note_allocation, inputs, notes, limits>>
          PROVE  MoneyInv'
      <3>1. UNCHANGED allocator_port
        BY <2>1 DEF allocator_port
      <3>2. Circuit!PaymentInv'
        BY <2>1, <3>1, StillLines DEF MoneyInv
      <3> QED BY <2>1, <3>2 DEF MoneyInv
    <2>2. ASSUME ~Engaged', system_state' \notin {"TakingInput", "NoteAllocation"}
          PROVE  MoneyInv'
      BY <2>2 DEF MoneyInv
    <2>3. ASSUME NEW chan \in Channels, StartSync(chan) \/ Setup(chan) \/ SyncCache(chan)
          PROVE  MoneyInv'
      <3>1. ~Engaged' /\ system_state' \notin {"TakingInput", "NoteAllocation"}
        BY <2>3 DEF StartSync, Setup, SyncCache
      <3> QED BY <2>2, <3>1
    <2>4. ASSUME NEW chan \in Channels, Ready(chan) PROVE MoneyInv'
      BY <2>4 DEF Ready, ClearTransaction, ClearRest, MoneyInv
    <2>5. ASSUME NEW chan \in Channels, Communicating(chan) PROVE MoneyInv'
      <3>1. /\ UNCHANGED <<start_note_allocation, en_input, amount_to_be_allocated, notes, limits>>
            /\ Engaged
            /\ system_state' \in {"Communicating", "CommLost", "Decrypt", "Ready"}
        BY <2>5 DEF Communicating
      <3>2. CASE system_state' = "Ready"
        BY <3>2, <2>2
      <3>3. CASE system_state' # "Ready"
        <4>1. UNCHANGED allocator_port
          BY <3>1 DEF allocator_port
        <4>2. Circuit!PaymentInv'
          BY <3>1, <4>1, StillLines DEF MoneyInv
        <4> QED BY <3>1, <3>3, <4>2 DEF MoneyInv
      <3> QED BY <3>2, <3>3
    <2>6. CASE TakingInput
      <3>1. na_state' = 0 /\ adequate_cash_in_atm' = FALSE
        BY <2>6, StoppedAllocator DEF TakingInput, MoneyInv
      <3> QED BY <2>6, <3>1 DEF TakingInput, TakeByte, MoneyInv
    <2>7. CASE NoteAllocation
      <3>1. na_state' = 0 /\ adequate_cash_in_atm' = FALSE
        BY <2>7, StoppedAllocator DEF NoteAllocation, MoneyInv
      <3>2. Circuit!PaymentInv'
        BY <3>1, RestIsSound
      <3> QED BY <2>7, <3>2 DEF NoteAllocation, MoneyInv
    <2>8. CASE Encrypt \/ Decrypt \/ CommLost
      <3>1. /\ UNCHANGED <<start_note_allocation, inputs, notes, limits, dispensing_done_already>>
            /\ Engaged
            /\ system_state' \in {"Encrypt", "Communicating", "Ethernet", "Decrypt", "LoadingCash",
                                  "Dispensing", "NotInCache"}
        BY <2>8 DEF Encrypt, Decrypt, CommLost
      <3>2. CASE Engaged'
        BY <2>1, <3>1, <3>2
      <3>3. CASE ~Engaged'
        BY <2>2, <3>1, <3>3
      <3> QED BY <3>2, <3>3
    <2>9. CASE Dispensing
      <3>1. dispensing_done_already' = TRUE /\ system_state' \in {"Dispensing", "Dummy"}
        BY <2>9 DEF Dispensing, PayOut, Refuse
      <3> QED BY <2>2, <3>1
    <2>10. CASE \/ LoadingCash \/ AwaitDone \/ DecryptSetup \/ NotInCache \/ CommRegained
                \/ UpdateCache
      <3>1. system_state' \in {"LoadingCash", "Dummy", "Ethernet", "DecryptSetup", "Ready",
                               "NotInCache", "CommRegained", "SyncCache", "UpdateCache"}
        BY <2>10 DEF LoadingCash, AwaitDone, DecryptSetup, NotInCache, CommRegained, UpdateCache
      <3> QED BY <2>2, <3>1
    <2> QED
      BY <1>1, <2>3, <2>4, <2>5, <2>6, <2>7, <2>8, <2>9, <2>10
      DEF Tick, MainProcess, HostBranch, OwnBranch
  <1>2. CASE Reset
    BY <1>2 DEF Reset, MoneyInv
  <1> QED BY <1>1, <1>2 DEF Next

-----------------------------------------------------------------------------
(* Handing out.                                                             *)

\* No note has been taken for the service in these states.
BeforePayOut == {"TakingInput", "NoteAllocation", "Encrypt", "Communicating", "Decrypt",
                 "CommLost", "LoadingCash"}

\* Notes wait to be handed out only while the account and the allocator stand by
\* the yes they were taken on, and the allocator is held at its verdict.
PayoutInv ==
    /\ to_be_dispensed \in Counts
    /\ system_state \in BeforePayOut => ~dispensing_done_already
    /\ ~dispensing_done_already => to_be_dispensed = NoNotes
    /\ system_state = "Dispensing" /\ to_be_dispensed # NoNotes =>
            /\ adequate_cash_in_account /\ adequate_cash_in_atm
            /\ start_note_allocation /\ na_state = 6
    /\ system_state = "Dummy" => to_be_dispensed = NoNotes

LEMMA NoNotesType == NoNotes \in Counts
  BY DEF NoNotes, Counts, MaxNotes

\* What is handed out was there.
LEMMA HandOutType ==
    ASSUME NEW pending \in Counts, pending # NoNotes, HandOut(pending)
    PROVE  to_be_dispensed' \in Counts
  <1> DEFINE First(j) == pending[j] > 0 /\ \A i \in Kinds : i < j => pending[i] = 0
             k == CHOOSE j \in Kinds : First(j)
  <1>1. pending \in [Kinds -> 0..MaxNotes] /\ MaxNotes \in Nat
    BY DEF Counts, MaxNotes
  <1>2. \A j \in Kinds : pending[j] \in Nat
    BY <1>1
  <1>3. \E j \in Kinds : pending[j] # 0
    BY <1>1 DEF NoNotes
  <1>4. \E j \in Kinds : First(j)
    BY <1>2, <1>3 DEF Kinds
  <1>5. k \in Kinds /\ First(k)
    <2> HIDE DEF First
    <2> QED BY <1>4
  <1>6. to_be_dispensed' = pending \/ to_be_dispensed' = [pending EXCEPT ![k] = @ - 1]
    BY DEF HandOut
  <1>7. pending[k] - 1 \in 0..MaxNotes
    BY <1>1, <1>5
  <1> HIDE DEF k
  <1> QED BY <1>1, <1>5, <1>6, <1>7 DEF Counts

\* An allocator held at its verdict stays there.
LEMMA HeldAllocator ==
    ASSUME Units, start_note_allocation, na_state = 6
    PROVE  na_state' = 6 /\ UNCHANGED adequate_cash_in_atm
  BY DEF Units, Allocator!Edge, Allocator!Latch, Allocator!Allocate, Allocator!TakeAll,
         Allocator!StartSearch, Allocator!LowerRight, Allocator!RaiseLeft, Allocator!Settle,
         Allocator!MaySettle, Allocator!Searching, Allocator!AtKind, Allocator!Verdict,
         Allocator!Hold, Allocator!StartLow, Allocator!registers, Allocator!verdict,
         Allocator!Kinds

LEMMA DispensingPays ==
    ASSUME DataInv, AllocatorInv, MoneyInv, PayoutInv, Dispensing, Units
    PROVE  PayoutInv'
  <1> USE DEF starts, status
  <1>1. /\ system_state = "Dispensing" /\ system_state' \in {"Dispensing", "Dummy"}
        /\ dispensing_done_already' = TRUE
        /\ UNCHANGED <<start_note_allocation, adequate_cash_in_account>>
        /\ PayOut \/ Refuse
    BY DEF Dispensing, PayOut, Refuse
  <1>2. CASE Refuse
    <2>1. to_be_dispensed = NoNotes
      BY <1>1, <1>2 DEF Refuse, PayoutInv
    <2> QED BY <1>1, <1>2, <2>1, NoNotesType DEF Refuse, PayoutInv, BeforePayOut
  <1>3. CASE PayOut
    <2> DEFINE pending == IF dispensing_done_already THEN to_be_dispensed ELSE notes_allocated
    <2>1. adequate_cash_in_account /\ adequate_cash_in_atm
      BY <1>3 DEF PayOut
    <2>2. pending \in Counts
      BY DEF PayoutInv, AllocatorInv, Circuit!OutputsOK, Circuit!Counts, Circuit!Kinds,
             Counts, Kinds
    <2>3. pending # NoNotes => start_note_allocation /\ na_state = 6
      <3>1. CASE dispensing_done_already
        BY <1>1, <3>1 DEF PayoutInv
      <3>2. CASE ~dispensing_done_already
        BY <1>1, <2>1, <3>2 DEF MoneyInv, Engaged, Circuit!PaymentInv, Circuit!VerdictHolds
      <3> QED BY <3>1, <3>2
    <2>4. CASE pending # NoNotes
      <3>1. HandOut(pending) /\ system_state' = "Dispensing"
        BY <1>1, <1>3, <2>4 DEF PayOut
      <3>2. to_be_dispensed' \in Counts
        <4> HIDE DEF pending
        <4> QED BY <2>2, <2>4, <3>1, HandOutType
      <3>3. na_state' = 6 /\ adequate_cash_in_atm'
        BY <2>1, <2>3, <2>4, HeldAllocator
      <3> QED BY <1>1, <2>1, <2>3, <2>4, <3>1, <3>2, <3>3 DEF PayoutInv, BeforePayOut
    <2>5. CASE pending = NoNotes
      <3>1. to_be_dispensed' = NoNotes
        BY <1>3, <2>5 DEF PayOut
      <3> QED BY <1>1, <3>1, NoNotesType DEF PayoutInv, BeforePayOut
    <2> QED BY <2>4, <2>5
  <1> QED BY <1>1, <1>2, <1>3

LEMMA PayoutStep ==
    ASSUME DataInv, AllocatorInv, MoneyInv, PayoutInv, Next
    PROVE  PayoutInv'
  <1> USE NoNotesType DEF payout, BeforePayOut
  <1>1. CASE Tick
    <2>1. ASSUME UNCHANGED payout, system_state \in BeforePayOut,
                 system_state' # "Dummy" \/ system_state = "LoadingCash"
          PROVE  PayoutInv'
      BY <2>1 DEF PayoutInv
    <2>2. ASSUME UNCHANGED payout, system_state' \notin BeforePayOut \cup {"Dispensing", "Dummy"}
          PROVE  PayoutInv'
      BY <2>2 DEF PayoutInv
    <2>3. ASSUME NEW chan \in Channels, StartSync(chan) \/ Setup(chan) \/ SyncCache(chan)
          PROVE  PayoutInv'
      <3>1. UNCHANGED payout /\ system_state' \in {"CommRegained", "Setup", "DecryptSetup",
                                                   "SyncCache", "UpdateCache"}
        BY <2>3 DEF StartSync, Setup, SyncCache
      <3> QED BY <2>2, <3>1
    <2>4. ASSUME NEW chan \in Channels, Ready(chan) PROVE PayoutInv'
      BY <2>4 DEF Ready, ClearTransaction, ClearRest, PayoutInv
    <2>5. ASSUME NEW chan \in Channels, Communicating(chan) PROVE PayoutInv'
      <3>1. /\ UNCHANGED payout /\ system_state = "Communicating"
            /\ system_state' \in {"Communicating", "CommLost", "Decrypt", "Ready"}
        BY <2>5 DEF Communicating
      <3> QED BY <2>1, <3>1
    <2>6. CASE TakingInput
      BY <2>1, <2>6 DEF TakingInput, TakeByte
    <2>7. CASE NoteAllocation \/ Encrypt \/ Decrypt \/ CommLost \/ LoadingCash
      <3>1. /\ UNCHANGED payout /\ system_state \in BeforePayOut
            /\ system_state' # "Dummy" \/ system_state = "LoadingCash"
        BY <2>7 DEF NoteAllocation, Encrypt, Decrypt, CommLost, LoadingCash
      <3> QED BY <2>1, <3>1
    <2>8. CASE Dispensing
      BY <1>1, <2>8, DispensingPays DEF Tick
    <2>9. CASE AwaitDone
      BY <2>9 DEF AwaitDone, PayoutInv
    <2>10. CASE DecryptSetup \/ NotInCache \/ CommRegained \/ UpdateCache
      <3>1. UNCHANGED payout /\ system_state' \in {"DecryptSetup", "Ready", "NotInCache",
                                                   "CommRegained", "SyncCache", "UpdateCache"}
        BY <2>10 DEF DecryptSetup, NotInCache, CommRegained, UpdateCache
      <3> QED BY <2>2, <3>1
    <2> QED
      BY <1>1, <2>3, <2>4, <2>5, <2>6, <2>7, <2>8, <2>9, <2>10
      DEF Tick, MainProcess, HostBranch, OwnBranch
  <1>2. CASE Reset
    BY <1>2 DEF Reset, ClearTransaction, ClearRest, PayoutInv
  <1> QED BY <1>1, <1>2 DEF Next

-----------------------------------------------------------------------------
(* The customers of the cache.                                              *)

Unique(c) ==
    \A i, j \in 1..CacheSize : i # j /\ c[i].uid = c[j].uid => c[i].uid = 0

\* A customer put first leaves no second entry, if the place that is given up is
\* the customer's own or the customer has none.
LEMMA MoveToFrontUnique ==
    ASSUME NEW c \in Caches, NEW p \in 1..CacheSize, NEW w \in Words, Unique(c),
           \A i \in 1..CacheSize : i # p /\ c[i].uid = w.uid => w.uid = 0
    PROVE  Unique(MoveToFront(c, p, w))
  <1> DEFINE d == MoveToFront(c, p, w)
  <1>1. \A i \in 1..CacheSize : d[i] = IF i = 1 THEN w ELSE IF i <= p THEN c[i - 1] ELSE c[i]
    BY DEF MoveToFront
  <1> DEFINE from(i) == IF i <= p THEN i - 1 ELSE i
  <1>2. \A i \in 2..CacheSize : from(i) \in 1..CacheSize /\ from(i) # p /\ d[i] = c[from(i)]
    BY <1>1
  <1>3. \A i, j \in 2..CacheSize : i # j => from(i) # from(j)
    OBVIOUS
  <1>4. d[1] = w
    BY <1>1
  <1> HIDE DEF d, from
  <1>5. \A i, j \in 2..CacheSize : i # j /\ d[i].uid = d[j].uid => d[i].uid = 0
    BY <1>2, <1>3 DEF Unique
  <1>6. \A i \in 2..CacheSize : d[i].uid = w.uid => w.uid = 0
    BY <1>2
  <1>7. Unique(d)
    BY <1>4, <1>5, <1>6 DEF Unique
  <1> QED BY <1>7 DEF d

LEMMA RotateUnique ==
    ASSUME NEW c \in Caches, NEW b \in 0..(HalfRange - 1), Unique(c)
    PROVE  Unique(Rotate(c, b))
  <1> DEFINE d == Rotate(c, b)
             from(i) == IF i = 1 THEN CacheSize ELSE i - 1
  <1>1. [c[1] EXCEPT !.low = b].uid = c[1].uid
    BY Rebalanced DEF Caches
  <1>2. \A i \in 1..CacheSize : from(i) \in 1..CacheSize /\ d[i].uid = c[from(i)].uid
    BY <1>1 DEF Rotate
  <1>3. \A i, j \in 1..CacheSize : i # j => from(i) # from(j)
    OBVIOUS
  <1> HIDE DEF d, from
  <1>4. Unique(d)
    BY <1>2, <1>3 DEF Unique
  <1> QED BY <1>4 DEF d

\* The first n entries hold a customer once at most, in the place that is found.
LEMMA FoundPlace ==
    ASSUME NEW c \in Caches, Unique(c), NEW uid, NEW n \in {CacheSize - 1, CacheSize}
    PROVE  \A i \in 1..CacheSize : i # EntryOf(c, uid, n) /\ c[i].uid = uid => uid = 0
  <1> DEFINE p == EntryOf(c, uid, n)
  <1>1. /\ p \in 1..CacheSize
        /\ \/ p <= n /\ c[p].uid = uid /\ \A i \in 1..(p - 1) : c[i].uid # uid
           \/ p = CacheSize /\ \A i \in 1..n : c[i].uid # uid
    BY EntryOfType
  <1> HIDE DEF p
  <1>2. CASE c[p].uid = uid
    BY <1>1, <1>2 DEF Unique, p
  <1>3. CASE p = CacheSize /\ \A i \in 1..n : c[i].uid # uid
    BY <1>3 DEF p
  <1> QED BY <1>1, <1>2, <1>3

LEMMA RememberUnique ==
    ASSUME DataInv, Unique(cache), RememberPaid \/ RememberRefused
    PROVE  Unique(cache')
  <1> en_input \in Words /\ de_output \in Words /\ cache \in Caches
    BY DEF DataInv
  <1>1. ASSUME NEW n \in {CacheSize - 1, CacheSize}, NEW b \in 0..(HalfRange - 1),
               Remember(EntryOf(cache, en_input.uid, n), b)
        PROVE  Unique(cache')
    <2>1. EntryOf(cache, en_input.uid, n) \in 1..CacheSize
      BY EntryOfType
    <2>2. [en_input EXCEPT !.low = b] \in Words /\ [en_input EXCEPT !.low = b].uid = en_input.uid
      BY Rebalanced
    <2> QED BY <1>1, <2>1, <2>2, FoundPlace, MoveToFrontUnique DEF Remember
  <1>2. \A p \in 1..CacheSize : cache[p].low \in 0..(HalfRange - 1)
    BY WordType DEF Caches
  <1>3. /\ en_input.low \in Nat /\ de_output.low \in 0..(HalfRange - 1)
        /\ HalfRange \in Nat \ {0}
    BY WordType, HalfRangeType
  <1>4. CASE RememberPaid
    <2> DEFINE p == EntryOf(cache, en_input.uid, CacheSize)
    <2>1. p \in 1..CacheSize
      BY EntryOfType
    <2>2. (cache[p].low - en_input.low) % HalfRange \in 0..(HalfRange - 1)
      BY <1>2, <1>3, <2>1
    <2> QED BY <1>1, <1>3, <1>4, <2>2 DEF RememberPaid
  <1>5. CASE RememberRefused
    <2>1. EntryOf(cache, en_input.uid, CacheSize - 1) \in 1..CacheSize
      BY EntryOfType
    <2> QED BY <1>1, <1>2, <1>3, <1>5, <2>1 DEF RememberRefused
  <1> QED BY <1>4, <1>5

LEMMA CacheStep ==
    ASSUME DataInv, Unique(cache), Next
    PROVE  Unique(cache')
  <1> USE DEF memory
  <1>1. ASSUME NEW chan \in Channels, HostBranch(chan) PROVE UNCHANGED cache
    BY <1>1 DEF HostBranch, StartSync, Ready, Communicating, Setup, SyncCache
  <1>2. CASE Dispensing
    <2>1. CASE UNCHANGED cache
      BY <2>1
    <2>2. CASE RememberPaid \/ RememberRefused
      BY <2>2, RememberUnique
    <2> QED BY <1>2, <2>1, <2>2 DEF Dispensing, PayOut, Refuse
  <1>3. CASE UpdateCache
    BY <1>3, RotateUnique, WordType DEF UpdateCache, DataInv
  <1>4. CASE OwnBranch /\ ~Dispensing /\ ~UpdateCache
    BY <1>4 DEF OwnBranch, TakingInput, NoteAllocation, Encrypt, Decrypt, LoadingCash, AwaitDone,
                DecryptSetup, CommLost, NotInCache, CommRegained
  <1>5. CASE Reset
    BY <1>5 DEF Reset
  <1> QED BY <1>1, <1>2, <1>3, <1>4, <1>5 DEF Next, Tick, MainProcess

-----------------------------------------------------------------------------
(* Service without the host.                                                *)

\* Notes of an offline service are about to be taken.
PaysOffline == system_state = "Dispensing" /\ ~dispensing_done_already /\ Offline

\* The request served is one that was entered.  Offline, a yes of the account
\* comes from an entry with the customer's card and PIN.
OfflineInv ==
    /\ system_state = "NoteAllocation" \/ Engaged => en_input \in Requests
    /\ PaysOffline => cache_mode
    /\ PaysOffline /\ adequate_cash_in_account =>
            \E i \in 1..CacheSize : /\ High(cache[i]) = High(en_input)
                                   /\ en_input.low <= cache[i].low

LEMMA OfflineStep ==
    ASSUME CountersInv, DataInv, OfflineInv, Next
    PROVE  OfflineInv'
  <1> USE DEF Engaged, PaysOffline, Offline, inputs, payout, memory
  <1>1. ASSUME system_state' \notin {"NoteAllocation", "Encrypt", "Communicating", "Decrypt",
                                    "CommLost"},
               system_state' = "Dispensing" => dispensing_done_already'
        PROVE  OfflineInv'
    BY <1>1 DEF OfflineInv
  <1>2. ASSUME system_state = "NoteAllocation" \/ Engaged, UNCHANGED en_input, ~PaysOffline'
        PROVE  OfflineInv'
    BY <1>2 DEF OfflineInv
  <1>3. ASSUME NEW chan \in Channels, StartSync(chan) \/ Setup(chan) \/ SyncCache(chan)
        PROVE  OfflineInv'
    <2>1. system_state' \in {"CommRegained", "Setup", "DecryptSetup", "SyncCache", "UpdateCache"}
      BY <1>3 DEF StartSync, Setup, SyncCache
    <2> QED BY <1>1, <2>1
  <1>4. ASSUME NEW chan \in Channels, Ready(chan) PROVE OfflineInv'
    <2>1. system_state' \in {"Ready", "TakingInput"}
      BY <1>4 DEF Ready
    <2> QED BY <1>1, <2>1
  <1>5. ASSUME NEW chan \in Channels, Communicating(chan) PROVE OfflineInv'
    <2>1. /\ UNCHANGED en_input /\ system_state = "Communicating"
          /\ system_state' \in {"Communicating", "CommLost", "Decrypt", "Ready"}
      BY <1>5 DEF Communicating
    <2> QED BY <1>2, <2>1
  <1>6. CASE TakingInput
    <2>1. CASE system_state' = "TakingInput"
      BY <1>1, <2>1
    <2>2. CASE system_state' # "TakingInput"
      <3>1. system_state' = "NoteAllocation" /\ en_input' \in Requests
        BY <1>6, <2>2 DEF TakingInput, TakeByte
      <3> QED BY <3>1 DEF OfflineInv
    <2> QED BY <2>1, <2>2
  <1>7. CASE NoteAllocation \/ Encrypt
    <2>1. /\ UNCHANGED en_input /\ system_state' # "Dispensing"
          /\ system_state \in {"NoteAllocation", "Encrypt"}
      BY <1>7 DEF NoteAllocation, Encrypt
    <2> QED BY <1>2, <2>1
  <1>8. CASE Decrypt
    <2>1. UNCHANGED <<en_input, time_out_counter>> /\ system_state = "Decrypt"
      BY <1>8 DEF Decrypt
    <2>2. time_out_counter < TimeOut
      BY <2>1 DEF CountersInv, CountersRun
    <2> QED BY <1>2, <2>1, <2>2
  <1>9. CASE CommLost
    <2>1. /\ UNCHANGED <<en_input, cache>> /\ system_state = "CommLost"
          /\ system_state' \in {"NotInCache", "Dispensing"}
      BY <1>9 DEF CommLost
    <2>2. CASE system_state' = "NotInCache"
      BY <1>1, <2>2
    <2>3. CASE system_state' = "Dispensing"
      <3>1. PICK i \in MatchOf(cache, en_input) :
                adequate_cash_in_account' = (en_input.low <= cache[i].low) /\ cache_mode' = TRUE
        BY <1>9, <2>3 DEF CommLost
      <3>2. i \in 1..CacheSize /\ High(cache[i]) = High(en_input)
        BY DEF MatchOf
      <3>3. High(cache'[i]) = High(en_input')
        BY <2>1, <3>2
      <3> QED BY <2>1, <2>3, <3>1, <3>2, <3>3 DEF OfflineInv
    <2> QED BY <2>1, <2>2, <2>3
  <1>10. CASE Dispensing
    <2>1. dispensing_done_already' = TRUE /\ system_state' \in {"Dispensing", "Dummy"}
      BY <1>10 DEF Dispensing, PayOut, Refuse
    <2> QED BY <1>1, <2>1
  <1>11. CASE \/ LoadingCash \/ AwaitDone \/ DecryptSetup \/ NotInCache \/ CommRegained
              \/ UpdateCache
    <2>1. system_state' \in {"LoadingCash", "Dummy", "Ethernet", "DecryptSetup", "Ready",
                             "NotInCache", "CommRegained", "SyncCache", "UpdateCache"}
      BY <1>11 DEF LoadingCash, AwaitDone, DecryptSetup, NotInCache, CommRegained, UpdateCache
    <2> QED BY <1>1, <2>1
  <1>12. CASE Reset
    BY <1>1, <1>12 DEF Reset
  <1> QED
    BY <1>3, <1>4, <1>5, <1>6, <1>7, <1>8, <1>9, <1>10, <1>11, <1>12
    DEF Next, Tick, MainProcess, HostBranch, OwnBranch

\* Two words with the same high half have the same card and PIN.
LEMMA HighIsCardAndPin ==
    ASSUME NEW v \in Words, NEW w \in Words, High(v) = High(w)
    PROVE  v.uid = w.uid /\ v.pin = w.pin
  <1>1. /\ v.uid \in Nat /\ v.pin \in 0..(PinRange - 1)
        /\ w.uid \in Nat /\ w.pin \in 0..(PinRange - 1)
        /\ v.uid * PinRange + v.pin = w.uid * PinRange + w.pin
    BY WordType DEF High
  <1>2. ASSUME NEW a \in Nat, NEW b \in Nat, NEW x \in 0..(PinRange - 1),
               NEW y \in 0..(PinRange - 1), a < b
        PROVE  a * PinRange + x # b * PinRange + y
    <2>1. PICK d \in Nat : b = a + 1 + d
      BY <1>2
    <2>2. (a + 1 + d) * PinRange = a * PinRange + PinRange + d * PinRange
          /\ d * PinRange \in Nat /\ a * PinRange \in Nat
      OBVIOUS
    <2> QED BY <2>1, <2>2
  <1>3. v.uid = w.uid
    <2>1. ~(v.uid < w.uid) /\ ~(w.uid < v.uid)
      BY <1>1, <1>2
    <2> QED BY <1>1, <2>1
  <1> QED BY <1>1, <1>3

\* The entry that is debited is the only one of the customer, hence the one that
\* the PIN was matched in.
LEMMA DebitsMatch ==
    ASSUME DataInv, Unique(cache), en_input.uid # 0, cache_mode, RememberPaid,
           NEW i \in 1..CacheSize, High(cache[i]) = High(en_input), en_input.low <= cache[i].low
    PROVE  /\ cache'[1] = [cache[i] EXCEPT !.low = @ - en_input.low]
           /\ cache'[1].low >= 0
  <1> DEFINE p == EntryOf(cache, en_input.uid, CacheSize)
             left == cache[i].low - en_input.low
  <1>1. en_input \in Words /\ cache \in Caches /\ cache[i] \in Words
    BY DEF DataInv, Caches
  <1>2. cache[i].uid = en_input.uid /\ cache[i].pin = en_input.pin
    BY <1>1, HighIsCardAndPin
  <1>3. p = i
    BY <1>1, <1>2, FoundPlace
  <1>4. Cached(cache, en_input.uid)
    BY <1>2 DEF Cached
  <1>5. left \in 0..(HalfRange - 1) /\ left % HalfRange = left
    BY <1>1, WordType, HalfRangeType
  <1>6. cache' = MoveToFront(cache, p, [en_input EXCEPT !.low = left])
    BY <1>3, <1>4, <1>5 DEF RememberPaid, Remember
  <1>7. cache'[1] = [en_input EXCEPT !.low = left]
    BY <1>6 DEF MoveToFront
  <1>8. [en_input EXCEPT !.low = left] = [cache[i] EXCEPT !.low = left]
    BY <1>1, <1>2 DEF Words
  <1>9. [en_input EXCEPT !.low = left].low = left
    BY <1>1, <1>5, Rebalanced
  <1> QED BY <1>5, <1>7, <1>8, <1>9

-----------------------------------------------------------------------------
(* The machine.                                                             *)

MachineInv ==
    /\ CountersInv
    /\ DataInv
    /\ AllocatorInv
    /\ SealInv
    /\ OpenInv
    /\ MoneyInv
    /\ PayoutInv
    /\ Unique(cache)

LEMMA MachineInit ==
    ASSUME Init
    PROVE  MachineInv /\ OfflineInv
  <1> USE DEF Init, Encrypter!Init, Decrypter!Init
  <1>1. CountersInv
    BY DEF CountersInv, CountersOK, CountersRun, States
  <1>2. DataInv
    <2>1. 0 \in Amounts /\ 0 \in 0..(Banks - 1)
      BY DEF Amounts
    <2>2. EmptyCache \in Caches /\ Garbled \in Blocks
      BY ZeroWordType DEF EmptyCache, Caches, Blocks
    <2> QED BY <2>1, <2>2, NoNotesType, ZeroWordType, BlocksOfHost DEF DataInv
  <1>3. AllocatorInv
    <2>1. start_note_allocation \in BOOLEAN /\ Circuit!OutLinesOK
      BY DEF Circuit!OutLinesOK
    <2>2. notes_allocated \in Circuit!Counts
      BY NoNotesType DEF Circuit!Counts, Circuit!Kinds, Counts, Kinds
    <2>3. Circuit!OutputsOK
      BY <2>2 DEF Circuit!OutputsOK, MaxNotes
    <2> QED BY <2>1, <2>3 DEF AllocatorInv
  <1>4. SealInv /\ OpenInv
    BY DEF SealInv, OpenInv, UsesReply
  <1>5. MoneyInv /\ OfflineInv
    BY DEF MoneyInv, Engaged, OfflineInv, PaysOffline
  <1>6. PayoutInv
    BY NoNotesType DEF PayoutInv, BeforePayOut
  <1>7. Unique(cache)
    BY DEF EmptyCache, Unique, ZeroWord, Word
  <1> QED BY <1>1, <1>2, <1>3, <1>4, <1>5, <1>6, <1>7 DEF MachineInv

LEMMA MachineStep ==
    ASSUME MachineInv, [Next]_vars
    PROVE  MachineInv'
  <1>1. CASE Next
    <2> USE <1>1 DEF MachineInv
    <2>1. CountersInv'
      BY CountersStep
    <2>2. DataInv'
      BY DataStep
    <2>3. AllocatorInv'
      BY AllocatorStep
    <2>4. SealInv'
      BY SealStep
    <2>5. OpenInv'
      BY OpenStep
    <2>6. MoneyInv'
      BY <2>3, MoneyStep
    <2>7. PayoutInv'
      BY PayoutStep
    <2>8. Unique(cache)'
      BY CacheStep DEF Unique
    <2> QED BY <2>1, <2>2, <2>3, <2>4, <2>5, <2>6, <2>7, <2>8
  <1>2. CASE UNCHANGED vars
    <2> USE <1>2 DEF MachineInv, vars, entry, starts, inputs, encrypter, decrypter, allocator,
                     status, payout, limits, memory
    <2>1. CountersInv'
      BY DEF CountersInv, CountersOK, CountersRun, Offline
    <2>2. DataInv'
      BY DEF DataInv
    <2>3. AllocatorInv'
      BY DEF AllocatorInv, Circuit!OutLinesOK, Circuit!OutputsOK
    <2>4. SealInv'
      BY DEF SealInv, Sealing
    <2>5. OpenInv'
      BY DEF OpenInv, Opening, UsesReply, Offline
    <2>6. MoneyInv'
      <3>1. UNCHANGED allocator_port
        BY DEF allocator_port
      <3>2. Circuit!PaymentInv => Circuit!PaymentInv'
        BY <3>1 DEF Circuit!PaymentInv, Circuit!Conservation, Circuit!WithinStock,
                    Circuit!VerdictHolds, Circuit!Worth, Circuit!Paid
      <3> QED BY <3>2 DEF MoneyInv, Engaged
    <2>7. PayoutInv'
      BY DEF PayoutInv
    <2>8. Unique(cache)'
      BY DEF Unique
    <2> QED BY <2>1, <2>2, <2>3, <2>4, <2>5, <2>6, <2>7, <2>8
  <1> QED BY <1>1, <1>2

\* What the theorems below rest on.
THEOREM MachineHolds == Spec => []MachineInv
  BY MachineInit, MachineStep, PTL DEF Spec

\* atm_top_level.vhd:285-1255, with the three units: every register keeps to the
\* width or the range it is declared with, in every state and after a reset.
THEOREM TypeCorrect == Spec => []TypeOK
  <1>1. MachineInv => TypeOK
    <2> SUFFICES ASSUME MachineInv PROVE TypeOK
      OBVIOUS
    <2>1. Allocator!LinesOK
      BY DEF MachineInv, AllocatorInv, Circuit!OutLinesOK, Allocator!LinesOK
    <2> QED
      BY <2>1 DEF MachineInv, CountersInv, CountersOK, DataInv, Caches, AllocatorInv,
                  Circuit!OutputsOK, SealInv, OpenInv, PayoutInv, TypeOK
  <1> QED BY <1>1, MachineHolds, PTL

\* atm_top_level.vhd:487-526, 1246-1255: while the host may read a request it
\* reads the one that was just entered, sealed.
THEOREM ShowsTheRequest == Spec => []RequestIsSealed
  <1>1. MachineInv => RequestIsSealed
    BY DEF MachineInv, SealInv, Sealing, RequestIsSealed
  <1> QED BY <1>1, MachineHolds, PTL

\* atm_top_level.vhd:528-758: what is loaded or remembered is the reply to this
\* request, whatever the host wrote and in whatever order.
THEOREM UsesTheReply == Spec => []ReplyIsOpened
  <1>1. MachineInv => ReplyIsOpened
    BY DEF MachineInv, OpenInv, Opening, UsesReply, ReplyIsOpened
  <1> QED BY <1>1, MachineHolds, PTL

\* atm_top_level.vhd:717-758, 832-867, 1198-1206: no customer has two entries.
THEOREM CachesOnce == Spec => []OneEntryPerCustomer
  <1>1. MachineInv => OneEntryPerCustomer
    BY DEF MachineInv, Unique, OneEntryPerCustomer
  <1> QED BY <1>1, MachineHolds, PTL

\* atm_top_level.vhd:761-825: no note that left the registers is forgotten on the
\* way to Dummy.
THEOREM HandsOutAll == Spec => []AllHandedOut
  <1>1. MachineInv => AllHandedOut
    BY DEF MachineInv, PayoutInv, AllHandedOut
  <1> QED BY <1>1, MachineHolds, PTL

\* What is left is worth what was there, less what was paid.
LEMMA WorthLeft ==
    ASSUME NEW have \in [Kinds -> Nat], NEW paid \in [Kinds -> Nat],
           NEW left \in [Kinds -> Nat], \A k \in Kinds : left[k] = have[k] - paid[k]
    PROVE  Worth(have) - Worth(left) = Worth(paid)
  <1>1. ASSUME NEW k \in Kinds
        PROVE  /\ Value[k] * have[k] = Value[k] * left[k] + Value[k] * paid[k]
               /\ Value[k] * have[k] \in Nat /\ Value[k] * left[k] \in Nat
               /\ Value[k] * paid[k] \in Nat
    <2>1. Value[k] \in Nat /\ have[k] \in Nat /\ left[k] \in Nat /\ paid[k] \in Nat
      OBVIOUS
    <2>2. have[k] = left[k] + paid[k]
      BY <2>1
    <2>3. \A v, x, y \in Nat : v * (x + y) = v * x + v * y /\ v * x \in Nat
      OBVIOUS
    <2> QED BY <2>1, <2>2, <2>3
  <1>2. 1 \in Kinds /\ 2 \in Kinds /\ 3 \in Kinds /\ 4 \in Kinds
    BY DEF Kinds
  <1> QED BY <1>1, <1>2 DEF Worth

\* The notes that are taken on a yes of the allocator.
LEMMA TakesAsAsked ==
    ASSUME MachineInv, Dispensing, notes' # notes
    PROVE  /\ ~dispensing_done_already /\ adequate_cash_in_account /\ RememberPaid
           /\ \A k \in Kinds : notes'[k] <= notes[k]
           /\ Worth(notes) - Worth(notes') = en_input.low
  <1>1. /\ system_state = "Dispensing" /\ ~dispensing_done_already
        /\ adequate_cash_in_account /\ adequate_cash_in_atm /\ RememberPaid
        /\ notes' = [k \in Kinds |-> (notes[k] - notes_allocated[k]) % ByteRange]
    BY DEF Dispensing, PayOut, Refuse
  <1>2. start_note_allocation /\ amount_to_be_allocated = en_input.low /\ Circuit!PaymentInv
    BY <1>1 DEF MachineInv, MoneyInv, Engaged
  <1>3. Circuit!TypeOK
    BY PortType DEF MachineInv, AllocatorInv, Circuit!TypeOK, Circuit!LinesOK,
                    Circuit!RegistersOK, Circuit!OutLinesOK, Circuit!OutputsOK
  <1>4. Circuit!Sound
    BY <1>2, <1>3, CircuitFits, Circuit!PaymentIsSound
  <1>5. /\ Worth(notes_allocated) = en_input.low
        /\ \A k \in Kinds : notes_allocated[k] <= notes[k]
    BY <1>1, <1>2, <1>4 DEF Circuit!Sound, Circuit!Worth, Worth, allocator_port, Kinds,
                            Circuit!Kinds
  <1>6. /\ notes \in [Kinds -> 0..(ByteRange - 1)]
        /\ notes_allocated \in [Kinds -> 0..(ByteRange - 1)]
    BY DEF MachineInv, DataInv, AllocatorInv, Circuit!OutputsOK, Circuit!Counts, Circuit!Kinds,
           Counts, Kinds, MaxNotes
  <1>7. ASSUME NEW k \in Kinds
        PROVE  /\ notes'[k] = notes[k] - notes_allocated[k]
               /\ notes'[k] \in Nat /\ notes'[k] <= notes[k]
    <2>1. notes[k] - notes_allocated[k] \in 0..(ByteRange - 1)
      BY <1>5, <1>6
    <2>2. \A x \in 0..(ByteRange - 1) : x % ByteRange = x
      OBVIOUS
    <2> QED BY <1>1, <1>6, <2>1, <2>2
  <1>8. notes' \in [Kinds -> Nat] /\ notes \in [Kinds -> Nat] /\ notes_allocated \in [Kinds -> Nat]
    BY <1>1, <1>6, <1>7
  <1>9. Worth(notes) - Worth(notes') = Worth(notes_allocated)
    BY <1>7, <1>8, WorthLeft
  <1> QED BY <1>1, <1>5, <1>7, <1>9

\* Nothing else takes notes, or gives them, outside a load.
LEMMA OnlyDispensingTakes ==
    ASSUME Next, notes' # notes, system_state # "LoadingCash"
    PROVE  Dispensing
  <1>1. ASSUME NEW chan \in Channels, HostBranch(chan) PROVE notes' = notes
    BY <1>1 DEF HostBranch, StartSync, Ready, Communicating, Setup, SyncCache
  <1>2. OwnBranch => Dispensing
    BY DEF OwnBranch, TakingInput, NoteAllocation, Encrypt, Decrypt, LoadingCash, AwaitDone,
           DecryptSetup, CommLost, NotInCache, CommRegained, UpdateCache
  <1>3. ~Reset
    BY DEF Reset
  <1> QED BY <1>1, <1>2, <1>3 DEF Next, Tick, MainProcess

\* atm_top_level.vhd:487-526, 702-714, note_allocator.vhd:79-239: the notes that
\* leave the registers are worth the amount that was entered, and no count wraps,
\* though the main process never waits for the allocator nor looks whether its
\* answer is still for this request.
THEOREM LeavesAsAsked == Spec => NotesLeaveAsAsked
  <1>1. ASSUME MachineInv, [Next]_vars, notes' # notes, system_state # "LoadingCash"
        PROVE  /\ \A k \in Kinds : notes'[k] <= notes[k]
               /\ Worth(notes) - Worth(notes') = en_input.low
    BY <1>1, OnlyDispensingTakes, TakesAsAsked DEF vars
  <1> QED BY <1>1, MachineHolds, PTL DEF Spec, NotesLeaveAsAsked

LEMMA OfflineHolds == Spec => []OfflineInv
  <1>1. MachineInv /\ OfflineInv /\ [Next]_vars => OfflineInv'
    <2> SUFFICES ASSUME MachineInv, OfflineInv, [Next]_vars PROVE OfflineInv'
      OBVIOUS
    <2>1. CASE Next
      BY <2>1, OfflineStep DEF MachineInv
    <2>2. CASE UNCHANGED vars
      BY <2>2 DEF OfflineInv, PaysOffline, Offline, Engaged, vars, inputs, payout, status, memory
    <2> QED BY <2>1, <2>2
  <1> QED BY <1>1, MachineInit, MachineHolds, PTL DEF Spec

\* atm_top_level.vhd:717-758, 1056-1100: the entry that an offline service debits
\* is the one that the PIN was matched in, and it covers the amount: of a customer
\* whose user id is not that of the empty entries.
THEOREM DebitsCovered ==
    ASSUME \A w \in Requests : w.uid # 0
    PROVE  Spec => OfflineDebitCovered
  <1>1. ASSUME MachineInv, OfflineInv, [Next]_vars,
               system_state = "Dispensing", notes' # notes, Offline
        PROVE  \E i \in 1..CacheSize :
                   /\ High(cache[i]) = High(en_input)
                   /\ cache'[1] = [cache[i] EXCEPT !.low = @ - en_input.low]
                   /\ cache'[1].low >= 0
    <2>1. ~dispensing_done_already /\ adequate_cash_in_account /\ RememberPaid
      BY <1>1, OnlyDispensingTakes, TakesAsAsked DEF vars
    <2>2. PICK i \in 1..CacheSize : /\ High(cache[i]) = High(en_input)
                                    /\ en_input.low <= cache[i].low
      BY <1>1, <2>1 DEF OfflineInv, PaysOffline
    <2>3. cache_mode /\ en_input.uid # 0
      BY <1>1, <2>1 DEF OfflineInv, PaysOffline, Engaged
    <2> QED BY <1>1, <2>1, <2>2, <2>3, DebitsMatch DEF MachineInv
  <1> QED BY <1>1, MachineHolds, OfflineHolds, PTL DEF Spec, OfflineDebitCovered

-----------------------------------------------------------------------------
(* The time the allocation takes.                                           *)

\* At least so many clocks to the one that looks at the verdict, if the host
\* answers and if it is given up.
ClocksOnline ==
    IF system_state = "Encrypt" THEN (Rounds + 2 - en_round) + 1 + (Rounds + 2)
    ELSE IF system_state = "Communicating" THEN 1 + (Rounds + 2)
    ELSE IF system_state = "Decrypt" THEN Rounds + 2 - de_round
    ELSE 0

ClocksOffline ==
    IF system_state = "Encrypt" THEN (Rounds + 2 - en_round) + TimeOut + 1
    ELSE IF system_state = "Communicating" THEN TimeOut - time_out_counter + 1
    ELSE IF system_state = "CommLost" THEN 1
    ELSE 0

\* A search that takes that many clocks is over on either way.
EndsInTime(left) ==
    /\ system_state # "CommLost" => left <= ClocksOnline
    /\ system_state # "Decrypt" => left <= ClocksOffline

Decided == na_state = 6 /\ note_allocation_over

RoundAndRound == \E k \in Circuit!Kinds : Circuit!Stuck(k)

TimeInv(clocks) ==
    /\ Circuit!Ordered
    /\ Engaged => \/ Decided
                  \/ RoundAndRound
                  \/ na_state <= 5 /\ EndsInTime(Circuit!ClocksLeft(clocks))

\* Enough clocks for the searches are fewer than the service takes.
Outlasted(clocks) == OutlastsSearch(clocks, MaxNotes, Rounds, TimeOut)

LEMMA SameClocks ==
    ASSUME NEW clocks, Outlasted(clocks)
    PROVE  /\ Circuit!SearchClocks(clocks, MaxNotes)
           /\ Circuit!AllocationClocks(clocks, MaxNotes) <= (Rounds + 2) + 1 + (Rounds + 2)
           /\ Circuit!AllocationClocks(clocks, MaxNotes) <= (Rounds + 2) + TimeOut + 1
  BY DEF Outlasted, OutlastsSearch, Allocator!SearchClocks, Circuit!SearchClocks,
         Allocator!AllocationClocks, Circuit!AllocationClocks

LEMMA CircuitTypes ==
    ASSUME DataInv, AllocatorInv
    PROVE  Circuit!RegistersOK /\ Circuit!OutLinesOK
  BY PortType DEF AllocatorInv, Circuit!RegistersOK, Circuit!OutputsOK

\* While its lines are still the allocator comes nearer to its verdict.
LEMMA StillAdvances ==
    ASSUME NEW clocks, Outlasted(clocks), DataInv, AllocatorInv, Circuit!Ordered,
           Units, start_note_allocation, UNCHANGED <<start_note_allocation, allocator_port>>
    PROVE  /\ Decided => Decided'
           /\ RoundAndRound => RoundAndRound'
           /\ na_state <= 5 =>
                  \/ Decided'
                  \/ RoundAndRound'
                  \/ na_state' <= 5 /\ Circuit!ClocksLeft(clocks)' < Circuit!ClocksLeft(clocks)
  <1>1. Circuit!Edge /\ Circuit!RegistersOK /\ Circuit!OutLinesOK
    BY SameEdge, CircuitTypes DEF Units
  <1>2. UNCHANGED Circuit!client
    BY DEF Circuit!client
  <1>3. ASSUME Decided PROVE Decided'
    BY <1>1, <1>3 DEF Decided, Circuit!Edge, Circuit!Latch, Circuit!Allocate, Circuit!TakeAll,
         Circuit!StartSearch, Circuit!LowerRight, Circuit!RaiseLeft, Circuit!Settle,
         Circuit!MaySettle, Circuit!Searching, Circuit!AtKind, Circuit!Verdict, Circuit!Hold,
         Circuit!StartLow, Circuit!registers, Circuit!verdict, Circuit!Kinds
  <1>4. ASSUME RoundAndRound PROVE RoundAndRound'
    BY <1>1, <1>2, <1>4, CircuitFits, Circuit!StuckStays DEF RoundAndRound
  <1>5. ASSUME na_state <= 5 PROVE Circuit!Advances(clocks)
    BY <1>1, <1>2, <1>5, CircuitFits, SameClocks, Circuit!EdgeAdvances
  <1>6. Circuit!Advances(clocks) =>
            \/ Decided'
            \/ RoundAndRound'
            \/ na_state' <= 5 /\ Circuit!ClocksLeft(clocks)' < Circuit!ClocksLeft(clocks)
    BY DEF Circuit!Advances, Decided, RoundAndRound
  <1> QED BY <1>3, <1>4, <1>5, <1>6

\* A clock of the way to Dispensing is one clock less of the bounds.
LEMMA BoundsStep ==
    ASSUME CountersInv, CountersInv', SealInv, SealInv', OpenInv, OpenInv', Tick,
           Engaged, Engaged',
           NEW left \in Int, NEW next \in Int, next < left, EndsInTime(left)
    PROVE  EndsInTime(next)'
  <1> USE DEF starts
  <1>1. /\ Rounds \in Int /\ TimeOut \in Int
        /\ en_round \in Int /\ en_round' \in Int /\ de_round \in Int /\ de_round' \in Int
        /\ time_out_counter \in Int /\ time_out_counter' \in Int
    BY DEF CountersInv, CountersOK, SealInv, OpenInv
  <1>2. en_round' <= en_round + 1 /\ de_round' <= de_round + 1
    <2>1. Encrypter!ClockEdge /\ Decrypter!ClockEdge
      BY DEF Tick, Units
    <2>2. en_round \in 0..(Rounds + 1) /\ de_round \in 0..(Rounds + 1)
      BY DEF SealInv, OpenInv
    <2> QED BY <1>1, <2>1, <2>2
        DEF Encrypter!ClockEdge, Encrypter!Load, Encrypter!Turn, Encrypter!Finish,
            Encrypter!Hold, Encrypter!StartLow, Decrypter!ClockEdge, Decrypter!Load,
            Decrypter!Turn, Decrypter!Finish, Decrypter!Hold, Decrypter!StartLow
  <1>2a. PICK en \in Int, de \in Int, outs \in Int :
            en = en_round' /\ de = de_round' /\ outs = time_out_counter'
    BY <1>1
  <1>3. CASE Encrypt
    <2>1. /\ system_state = "Encrypt" /\ system_state' \in {"Encrypt", "Communicating"}
          /\ system_state' = "Communicating" => encryption_over
          /\ time_out_counter' = 0 /\ time_out_counter = 0
      BY <1>3 DEF Encrypt, Engaged, CountersInv, CountersRun
    <2>2. encryption_over => en_round = Rounds + 1
      BY <2>1 DEF SealInv, Sealing
    <2>3. /\ left <= (Rounds + 2 - en_round) + 1 + (Rounds + 2)
          /\ left <= (Rounds + 2 - en_round) + TimeOut + 1
      BY <2>1 DEF EndsInTime, ClocksOnline, ClocksOffline
    <2>4. CASE system_state' = "Encrypt"
      <3>1. en <= en_round + 1
        BY <1>2a, <1>2
      <3>2. /\ next <= (Rounds + 2 - en) + 1 + (Rounds + 2)
            /\ next <= (Rounds + 2 - en) + TimeOut + 1
        BY <1>1, <2>3, <3>1
      <3> QED BY <1>2a, <2>4, <3>2 DEF EndsInTime, ClocksOnline, ClocksOffline
    <2>5. CASE system_state' = "Communicating"
      <3>1. next <= 1 + (Rounds + 2) /\ next <= TimeOut - time_out_counter' + 1
        BY <1>1, <2>1, <2>2, <2>3, <2>5
      <3> QED BY <2>5, <3>1 DEF EndsInTime, ClocksOnline, ClocksOffline
    <2> QED BY <2>1, <2>4, <2>5
  <1>4. ASSUME NEW chan \in Channels, Communicating(chan) PROVE EndsInTime(next)'
    <2>1. /\ system_state = "Communicating"
          /\ system_state' \in {"Communicating", "Decrypt", "CommLost"}
          /\ time_out_counter' <= time_out_counter + 1
          /\ system_state' = "CommLost" => time_out_counter' = TimeOut
      <3>1. time_out_counter' <= time_out_counter + 1
        BY <1>1, <1>4 DEF Communicating, CountTimeOut
      <3>2. system_state' \in {"Communicating", "Decrypt", "CommLost", "Ready"}
        BY <1>4 DEF Communicating
      <3>3. system_state' # "Ready"
        BY DEF Engaged
      <3>4. system_state' = "CommLost" => time_out_counter' = TimeOut
        BY <1>4 DEF Communicating
      <3> QED BY <1>4, <3>1, <3>2, <3>3, <3>4 DEF Communicating
    <2>2. de_round = 0 /\ ~start_decrypt
      BY <2>1 DEF OpenInv
    <2>3. de_round' = 0
      BY <2>2 DEF Tick, Units, Decrypter!ClockEdge, Decrypter!Load, Decrypter!Turn,
                  Decrypter!Finish, Decrypter!Hold, Decrypter!StartLow
    <2>4. left <= 1 + (Rounds + 2) /\ left <= TimeOut - time_out_counter + 1
      BY <2>1 DEF EndsInTime, ClocksOnline, ClocksOffline
    <2>5. CASE system_state' = "Communicating"
      <3>1. outs <= time_out_counter + 1
        BY <1>2a, <2>1
      <3>2. next <= 1 + (Rounds + 2) /\ next <= TimeOut - outs + 1
        BY <1>1, <2>4, <3>1
      <3> QED BY <1>2a, <2>5, <3>2 DEF EndsInTime, ClocksOnline, ClocksOffline
    <2>6. CASE system_state' = "Decrypt"
      <3>1. next <= Rounds + 2 - de_round'
        BY <1>1, <2>3, <2>4
      <3> QED BY <2>6, <3>1 DEF EndsInTime, ClocksOnline, ClocksOffline
    <2>7. CASE system_state' = "CommLost"
      <3>1. next <= 1
        BY <1>1, <2>1, <2>4, <2>7
      <3> QED BY <2>7, <3>1 DEF EndsInTime, ClocksOnline, ClocksOffline
    <2> QED BY <2>1, <2>5, <2>6, <2>7
  <1>5. CASE Decrypt
    <2>1. /\ system_state = "Decrypt" /\ system_state' \in {"Decrypt", "Dispensing"}
          /\ system_state' = "Dispensing" => decryption_over
      BY <1>5 DEF Decrypt, Engaged
    <2>2. decryption_over => de_round = Rounds + 1
      BY <2>1 DEF OpenInv, Opening
    <2>3. left <= Rounds + 2 - de_round
      BY <2>1 DEF EndsInTime, ClocksOnline
    <2>4. CASE system_state' = "Decrypt"
      <3>1. de <= de_round + 1
        BY <1>2a, <1>2
      <3>2. next <= Rounds + 2 - de
        BY <1>1, <2>3, <3>1
      <3> QED BY <1>2a, <2>4, <3>2 DEF EndsInTime, ClocksOnline
    <2>5. CASE system_state' = "Dispensing"
      <3>1. next <= 0
        BY <1>1, <2>1, <2>2, <2>3, <2>5
      <3> QED BY <2>5, <3>1 DEF EndsInTime, ClocksOnline, ClocksOffline
    <2> QED BY <2>1, <2>4, <2>5
  <1>6. CASE CommLost
    <2>1. system_state = "CommLost" /\ system_state' = "Dispensing"
      BY <1>6 DEF CommLost, Engaged
    <2>2. left <= 1
      BY <2>1 DEF EndsInTime, ClocksOffline
    <2>3. next <= 0
      BY <2>2
    <2> QED BY <2>1, <2>3 DEF EndsInTime, ClocksOnline, ClocksOffline
  <1>7. CASE Dispensing
    BY <1>7 DEF Dispensing, PayOut, Refuse, Engaged
  <1>8. system_state \in {"Encrypt", "Communicating", "Decrypt", "CommLost", "Dispensing"}
    BY DEF Engaged
  <1> QED BY <1>3, <1>4, <1>5, <1>6, <1>7, <1>8
      DEF Tick, MainProcess, HostBranch, OwnBranch, StartSync, HostIsBack, Ready, Setup, SyncCache,
          TakingInput, NoteAllocation, LoadingCash, AwaitDone, DecryptSetup, NotInCache,
          CommRegained, UpdateCache

\* From the start of the allocation until its verdict is used the lines stand
\* still and the state only moves on towards Dispensing.
LEMMA EngagedLines ==
    ASSUME Tick, Engaged, Engaged'
    PROVE  UNCHANGED <<start_note_allocation, allocator_port>>
  <1> USE DEF Engaged, starts, inputs, limits, payout, allocator_port
  <1>1. ASSUME NEW chan \in Channels, Communicating(chan)
        PROVE  UNCHANGED <<start_note_allocation, allocator_port>>
    BY <1>1 DEF Communicating
  <1>2. CASE Encrypt \/ Decrypt \/ CommLost
    BY <1>2 DEF Encrypt, Decrypt, CommLost
  <1>3. CASE Dispensing
    BY <1>3 DEF Dispensing, PayOut, Refuse
  <1>4. system_state \in {"Encrypt", "Communicating", "Decrypt", "CommLost", "Dispensing"}
    OBVIOUS
  <1> QED BY <1>1, <1>2, <1>3, <1>4
      DEF Tick, MainProcess, HostBranch, OwnBranch, StartSync, HostIsBack, Ready, Setup, SyncCache,
          TakingInput, NoteAllocation, LoadingCash, AwaitDone, DecryptSetup, NotInCache,
          CommRegained, UpdateCache

\* Who comes into Engaged starts the allocation.
LEMMA OnlyStartEngages ==
    ASSUME PayoutInv, Tick, ~Engaged, Engaged'
    PROVE  NoteAllocation
  <1> USE DEF Engaged, payout
  <1>1. ASSUME NEW chan \in Channels, HostBranch(chan) PROVE FALSE
    BY <1>1 DEF HostBranch, StartSync, Ready, Communicating, Setup, SyncCache
  <1>2. CASE TakingInput \/ LoadingCash \/ AwaitDone \/ DecryptSetup \/ NotInCache
    BY <1>2 DEF TakingInput, TakeByte, LoadingCash, AwaitDone, DecryptSetup, NotInCache
  <1>3. CASE CommRegained \/ UpdateCache
    BY <1>3 DEF CommRegained, UpdateCache
  <1>4. CASE Encrypt \/ Decrypt \/ CommLost
    BY <1>4 DEF Encrypt, Decrypt, CommLost
  <1>5. CASE Dispensing
    BY <1>5 DEF Dispensing, PayOut, Refuse
  <1> QED BY <1>1, <1>2, <1>3, <1>4, <1>5 DEF Tick, MainProcess, OwnBranch

LEMMA TimeStep ==
    ASSUME NEW clocks, Outlasted(clocks), MachineInv, MachineInv', TimeInv(clocks), Next
    PROVE  TimeInv(clocks)'
  <1> USE DEF MachineInv
  <1>1. CASE Tick
    <2>1. Circuit!Edge /\ Circuit!RegistersOK /\ Circuit!OutLinesOK
      BY <1>1, SameEdge, CircuitTypes DEF Tick, Units
    <2>2. Circuit!Ordered'
      <3>1. Circuit!Ordered
        BY DEF TimeInv
      <3> QED BY <2>1, <3>1, CircuitFits, Circuit!OrderedStep
    <2>3. Circuit!RegistersOK' /\ Circuit!OutLinesOK'
      <3>1. allocator_port' \in Circuit!Ports
        BY DEF DataInv, allocator_port, Circuit!Ports, Circuit!PortRange, Circuit!Counts,
               Circuit!Kinds, Counts, Kinds, Amounts
      <3> QED BY <3>1 DEF AllocatorInv, Circuit!RegistersOK, Circuit!OutputsOK, Circuit!OutLinesOK
    <2>4. Circuit!SearchClocks(clocks, MaxNotes)
      BY SameClocks
    <2>5. CASE ~Engaged'
      BY <2>2, <2>5 DEF TimeInv
    <2>6. CASE Engaged /\ Engaged'
      <3>1. start_note_allocation /\ UNCHANGED <<start_note_allocation, allocator_port>>
        BY <1>1, <2>6, EngagedLines DEF MoneyInv
      <3>2. /\ Decided => Decided'
            /\ RoundAndRound => RoundAndRound'
            /\ na_state <= 5 =>
                  \/ Decided'
                  \/ RoundAndRound'
                  \/ na_state' <= 5 /\ Circuit!ClocksLeft(clocks)' < Circuit!ClocksLeft(clocks)
        BY <1>1, <3>1, StillAdvances DEF Tick, TimeInv
      <3>3. ASSUME na_state <= 5, EndsInTime(Circuit!ClocksLeft(clocks)), na_state' <= 5,
                   Circuit!ClocksLeft(clocks)' < Circuit!ClocksLeft(clocks)
            PROVE  EndsInTime(Circuit!ClocksLeft(clocks))'
        <4>1. Circuit!ClocksLeft(clocks) \in Int
          BY <2>1, <2>4, <3>3, CircuitFits, Circuit!ClocksToCome DEF TimeInv
        <4>2. Circuit!ClocksLeft(clocks)' \in Int
          BY <2>2, <2>3, <2>4, <3>3, CircuitFits, Circuit!ClocksAfter
        <4>3. PICK left \in Int, next \in Int :
                  left = Circuit!ClocksLeft(clocks) /\ next = Circuit!ClocksLeft(clocks)'
          BY <4>1, <4>2
        <4>4. EndsInTime(next)'
          BY <1>1, <2>6, <3>3, <4>3, BoundsStep
        <4> QED BY <4>3, <4>4 DEF EndsInTime
      <3> QED BY <2>2, <2>6, <3>2, <3>3 DEF TimeInv
    <2>7. CASE ~Engaged /\ Engaged'
      <3>1. NoteAllocation /\ system_state' = "Encrypt" /\ ~start_note_allocation
            /\ ~start_encrypt /\ en_round = 0 /\ time_out_counter' = time_out_counter
        BY <1>1, <2>7, OnlyStartEngages DEF NoteAllocation, MoneyInv, SealInv
      <3>2. na_state' = 0 /\ en_round' = 0
        <4>1. na_state' = 0
          BY <1>1, <3>1, StoppedAllocator DEF Tick
        <4>2. en_round' = 0
          BY <1>1, <3>1 DEF Tick, Units, Encrypter!ClockEdge, Encrypter!Load, Encrypter!Turn,
                            Encrypter!Finish, Encrypter!Hold, Encrypter!StartLow
        <4> QED BY <4>1, <4>2
      <3>3. Circuit!ClocksLeft(clocks)' = Circuit!AllocationClocks(clocks, MaxNotes)
        BY <3>2 DEF Circuit!ClocksLeft
      <3>4. EndsInTime(Circuit!ClocksLeft(clocks))'
        BY <3>1, <3>2, <3>3, SameClocks DEF EndsInTime, ClocksOnline, ClocksOffline
      <3> QED BY <2>2, <3>2, <3>4 DEF TimeInv
    <2> QED BY <2>5, <2>6, <2>7
  <1>2. CASE Reset
    <2>1. ~binarysearch_start' /\ system_state' = "Ready"
      BY <1>2 DEF Reset, Allocator!ResetRegisters
    <2> QED BY <2>1 DEF TimeInv, Circuit!Ordered, Engaged
  <1> QED BY <1>1, <1>2 DEF Next

\* atm_top_level.vhd:488-492, 702: what the main process takes for the verdict is
\* the verdict, though it never waits for it, on every number of notes, rounds and
\* blinks for which the way through the cipher units, or the time-out, is at least as
\* long as the longest search.
THEOREM AllocatesInTime ==
    ASSUME NEW clocks, Outlasted(clocks)
    PROVE  Spec => []AllocatedBeforeUse
  <1>1. Init => MachineInv /\ TimeInv(clocks)
    BY MachineInit DEF Init, TimeInv, Circuit!Ordered, Engaged
  <1>2. MachineInv /\ TimeInv(clocks) /\ [Next]_vars => (MachineInv /\ TimeInv(clocks))'
    <2> SUFFICES ASSUME MachineInv, TimeInv(clocks), [Next]_vars
                 PROVE  MachineInv' /\ TimeInv(clocks)'
      OBVIOUS
    <2>1. MachineInv'
      BY MachineStep
    <2>2. CASE UNCHANGED vars
      <3>1. UNCHANGED allocator_port
        BY <2>2 DEF vars, allocator_port, limits, inputs
      <3> QED
        BY <2>1, <2>2, <3>1
        DEF TimeInv, vars, starts, encrypter, decrypter, allocator, payout, Engaged, Decided,
            RoundAndRound, EndsInTime, ClocksOnline, ClocksOffline, Circuit!Ordered,
            Circuit!ClocksLeft, Circuit!KindClocks, Circuit!Stuck, Circuit!Searching,
            Circuit!AtKind, Circuit!Avail
    <2> QED BY <2>1, <2>2, TimeStep
  <1>3. MachineInv /\ TimeInv(clocks) => AllocatedBeforeUse
    <2> SUFFICES ASSUME MachineInv, TimeInv(clocks),
                        system_state = "Dispensing", ~dispensing_done_already
                 PROVE  note_allocation_over \/ Stuck
      BY DEF AllocatedBeforeUse
    <2>1. CASE Decided
      BY <2>1 DEF Decided
    <2>2. CASE RoundAndRound
      BY <2>2 DEF RoundAndRound, Stuck, Circuit!Stuck, Allocator!Stuck, Circuit!Searching,
                  Allocator!Searching, Circuit!AtKind, Allocator!AtKind, Circuit!Avail,
                  Allocator!Avail, Circuit!Kinds, Kinds
    <2>3. CASE na_state <= 5 /\ EndsInTime(Circuit!ClocksLeft(clocks))
      <3>1. Circuit!ClocksLeft(clocks) \in Nat \ {0}
        BY <2>3, CircuitFits, CircuitTypes, SameClocks, Circuit!ClocksToCome
        DEF MachineInv, TimeInv
      <3>2. Circuit!ClocksLeft(clocks) <= 0
        BY <2>3 DEF EndsInTime, ClocksOnline
      <3> QED BY <3>1, <3>2
    <2> QED BY <2>1, <2>2, <2>3 DEF TimeInv, Engaged
  <1> QED BY <1>1, <1>2, <1>3, PTL DEF Spec

-----------------------------------------------------------------------------
(* The synchronisation round of AtmSync, for a cache of every size, a host   *)
(* that writes what and when it likes, and resets at any clock of the round. *)

\* Where the entry at place i was when the round began, once count entries have
\* been sent and the cache has turned as often.
From(i, count) == IF i > count THEN i - count ELSE CacheSize + i - count

Turned(count) ==
    \A i \in 1..CacheSize : High(cache[i]) = High(before[From(i, count)])

\* A round begins with a count of 0, which only Ready clears: whoever sets
\* cache_mode comes from Ready, and nobody counts before the round.  In it the
\* cache has turned as often as it was counted, and the entry that comes first is
\* the one that is encrypted, sent and answered.
RoundInv ==
    /\ cache_mode => cache_update_count = 0
    /\ ~InRound(system_state) /\ system_state # "Ready" => cache_update_count = 0
    /\ InRound(system_state) => ~cache_mode /\ Turned(cache_update_count)
    /\ system_state = "CommRegained" /\ start_encrypt => en_input = cache[1]
    /\ system_state \in {"SyncCache", "UpdateCache"} => ~start_encrypt /\ en_input = cache[1]

\* One more turn of the cache is one more in the count.
LEMMA RotateTurns ==
    ASSUME cache \in Caches, NEW count \in 0..(CacheSize - 1), Turned(count),
           NEW b \in 0..(HalfRange - 1), cache' = Rotate(cache, b)
    PROVE  \A i \in 1..CacheSize : High(cache'[i]) = High(before[From(i, count + 1)])
  <1> SUFFICES ASSUME NEW i \in 1..CacheSize
               PROVE  High(cache'[i]) = High(before[From(i, count + 1)])
    OBVIOUS
  <1>1. CASE i = 1
    <2>1. cache'[1] = cache[CacheSize]
      BY DEF Rotate
    <2>2. From(CacheSize, count) = From(1, count + 1)
      BY DEF From
    <2> QED BY <1>1, <2>1, <2>2 DEF Turned
  <1>2. CASE i > 1
    <2>1. i - 1 \in 1..CacheSize /\ From(i - 1, count) = From(i, count + 1)
      BY <1>2 DEF From
    <2>2. High(cache'[i]) = High(cache[i - 1])
      <3>1. CASE i = 2
        <4>1. cache[1] \in Words /\ cache'[2] = [cache[1] EXCEPT !.low = b]
          BY DEF Rotate, Caches
        <4> QED BY <3>1, <4>1, Rebalanced DEF High
      <3>2. CASE i > 2
        BY <3>2 DEF Rotate
      <3> QED BY <1>2, <3>1, <3>2
    <2> QED BY <2>1, <2>2 DEF Turned
  <1> QED BY <1>1, <1>2

LEMMA RoundInit == SyncInit => RoundInv
  BY DEF SyncInit, Init, RoundInv, InRound

LEMMA RoundStep ==
    ASSUME MachineInv, RoundInv, SyncNext
    PROVE  RoundInv'
  <1> USE DEF RoundInv, InRound, SyncNext, Record, memory, starts, inputs
  <1>1. ASSUME ~InRound(system_state'), UNCHANGED memory, ~InRound(system_state),
               system_state = "Ready" => system_state' = "Ready"
        PROVE  RoundInv'
    BY <1>1
  <1>2. ASSUME NEW chan \in Channels, StartSync(chan) PROVE RoundInv'
    <2>1. /\ cache_mode /\ system_state = "Ready" /\ ~cache_mode'
          /\ system_state' = "CommRegained" /\ ~start_encrypt'
          /\ UNCHANGED <<cache, cache_update_count>>
      BY <1>2 DEF StartSync, HostIsBack
    <2>2. before' = cache /\ cache_update_count' = 0
      BY <2>1
    <2>3. Turned(0)'
      BY <2>1, <2>2 DEF Turned, From
    <2>4. Turned(cache_update_count)'
      BY <2>2, <2>3 DEF Turned, From
    <2> QED BY <2>1, <2>2, <2>4
  <1>3. ASSUME NEW chan \in Channels, Ready(chan) PROVE RoundInv'
    BY <1>3 DEF Ready
  <1>4. ASSUME NEW chan \in Channels, Communicating(chan) \/ Setup(chan) PROVE RoundInv'
    BY <1>1, <1>4 DEF Communicating, Setup
  <1>5. ASSUME NEW chan \in Channels, SyncCache(chan) PROVE RoundInv'
    <2>1. /\ system_state = "SyncCache" /\ system_state' \in {"SyncCache", "UpdateCache"}
          /\ UNCHANGED <<memory, start_encrypt, en_input>> /\ before' = before
      BY <1>5 DEF SyncCache
    <2> QED BY <2>1 DEF Turned
  <1>6. CASE \/ TakingInput \/ NoteAllocation \/ Encrypt \/ Decrypt \/ LoadingCash
             \/ AwaitDone \/ DecryptSetup \/ NotInCache
    BY <1>1, <1>6 DEF TakingInput, TakeByte, NoteAllocation, Encrypt, Decrypt, LoadingCash,
                      AwaitDone, DecryptSetup, NotInCache
  <1>7. CASE Dispensing
    BY <1>7 DEF Dispensing, PayOut, Refuse
  <1>8. CASE CommLost
    BY <1>8 DEF CommLost
  <1>9. CASE CommRegained
    <2>1. /\ system_state = "CommRegained" /\ UNCHANGED <<cache, cache_update_count>>
          /\ ~cache_mode'
          /\ IF start_encrypt THEN UNCHANGED en_input ELSE en_input' = cache[1]
          /\ \/ system_state' = "Ready"
             \/ system_state' = "CommRegained"
             \/ system_state' = "SyncCache" /\ ~start_encrypt'
      BY <1>9 DEF CommRegained
    <2>2. en_input' = cache'[1]
      BY <2>1
    <2>3. CASE system_state' = "Ready"
      BY <2>1, <2>3
    <2>4. CASE system_state' # "Ready"
      <3>1. before' = before
        BY <2>1, <2>4
      <3> QED BY <2>1, <2>2, <2>4, <3>1 DEF Turned
    <2> QED BY <2>3, <2>4
  <1>10. CASE UpdateCache
    <2>1. /\ system_state = "UpdateCache" /\ before' = before
          /\ system_state' \in {"UpdateCache", "CommRegained"}
          /\ UNCHANGED <<start_encrypt, en_input, cache_mode>>
      BY <1>10 DEF UpdateCache
    <2>2. CASE ~decryption_over
      BY <1>10, <2>1, <2>2 DEF UpdateCache, Turned
    <2>3. CASE decryption_over
      <3>1. /\ cache' = Rotate(cache, de_output.low)
            /\ cache_update_count' = cache_update_count + 1
            /\ system_state' = "CommRegained"
        BY <1>10, <2>3 DEF UpdateCache
      <3>2. cache_update_count \in 0..(CacheSize - 1)
        BY <2>1 DEF MachineInv, CountersInv, CountersOK, CountersRun
      <3>3. cache \in Caches /\ de_output.low \in 0..(HalfRange - 1)
        BY WordType DEF MachineInv, DataInv
      <3>4. \A i \in 1..CacheSize :
                High(cache'[i]) = High(before[From(i, cache_update_count + 1)])
        BY <2>1, <3>1, <3>2, <3>3, RotateTurns
      <3>5. Turned(cache_update_count)'
        BY <2>1, <3>1, <3>4 DEF Turned, From
      <3> QED BY <2>1, <3>1, <3>5
    <2> QED BY <2>2, <2>3
  <1>11. CASE Reset
    BY <1>11 DEF Reset
  <1> QED
    BY <1>2, <1>3, <1>4, <1>5, <1>6, <1>7, <1>8, <1>9, <1>10, <1>11
    DEF Next, Tick, MainProcess, HostBranch, OwnBranch

\* The machine with its history variable makes the machine's steps.
LEMMA SyncIsMachine ==
    ASSUME [SyncNext]_allVars
    PROVE  [Next]_vars
  BY DEF SyncNext, allVars

LEMMA RoundKept ==
    ASSUME MachineInv, RoundInv, [SyncNext]_allVars
    PROVE  MachineInv' /\ RoundInv'
  <1>1. MachineInv'
    BY SyncIsMachine, MachineStep
  <1>2. CASE SyncNext
    BY <1>1, <1>2, RoundStep
  <1>3. CASE UNCHANGED allVars
    BY <1>1, <1>3 DEF RoundInv, Turned, InRound, allVars, vars, starts, inputs, memory
  <1> QED BY <1>2, <1>3

LEMMA RoundHolds == SyncSpec => [](MachineInv /\ RoundInv)
  <1>1. SyncInit => MachineInv /\ RoundInv
    BY RoundInit, MachineInit DEF SyncInit
  <1>2. MachineInv /\ RoundInv /\ [SyncNext]_allVars => (MachineInv /\ RoundInv)'
    BY RoundKept
  <1> QED BY <1>1, <1>2, PTL DEF SyncSpec

\* atm_top_level.vhd:1104-1137: the entries are sent in the order they will come
\* to the front, first, last, last but one and so on, each as it stood when the
\* host came back, for a cache of every size and whatever was served, reset or
\* timed out before the round.
THEOREM EachIsAsked == SyncSpec => []AsksEachOnce
  <1>1. MachineInv /\ RoundInv => AsksEachOnce
    <2> SUFFICES ASSUME MachineInv, RoundInv, system_state = "SyncCache"
                 PROVE  High(en_input) = High(before[Origin(cache_update_count)])
      BY DEF AsksEachOnce
    <2>1. cache_update_count \in 0..CacheSize /\ 1 \in 1..CacheSize
      BY DEF MachineInv, CountersInv, CountersOK
    <2>2. From(1, cache_update_count) = Origin(cache_update_count)
      BY <2>1 DEF From, Origin
    <2>3. en_input = cache[1] /\ Turned(cache_update_count)
      BY DEF RoundInv, InRound
    <2> QED BY <2>1, <2>2, <2>3 DEF Turned
  <1> QED BY <1>1, RoundHolds, PTL

\* atm_top_level.vhd:1198-1206: after as many turns as there are entries every
\* customer is back in the place it had before the round.
THEOREM PlacesRestored == SyncSpec => RoundRestoresPlaces
  <1>1. ASSUME RoundInv, system_state = "CommRegained", cache_update_count = CacheSize
        PROVE  \A i \in 1..CacheSize : High(cache[i]) = High(before[i])
    <2>1. \A i \in 1..CacheSize : From(i, CacheSize) = i
      BY DEF From
    <2>2. Turned(CacheSize)
      BY <1>1 DEF RoundInv, InRound
    <2> QED BY <2>1, <2>2 DEF Turned
  <1>2. RoundInv => [(system_state = "CommRegained" /\ cache_update_count = CacheSize) =>
                        \A i \in 1..CacheSize : High(cache[i]) = High(before[i])]_allVars
    BY <1>1
  <1> QED BY <1>2, RoundHolds, PTL DEF RoundRestoresPlaces

\* Only the first entry has the card that is being asked about.
LEMMA FirstIsAlone ==
    ASSUME MachineInv, NEW j \in 2..CacheSize, cache[j].uid # 0
    PROVE  High(cache[j]) # High(cache[1])
  <1>1. 1 \in 1..CacheSize /\ j \in 1..CacheSize /\ j # 1
    OBVIOUS
  <1>2. cache[1] \in Words /\ cache[j] \in Words
    BY <1>1 DEF MachineInv, DataInv, Caches
  <1>3. cache[j].uid # cache[1].uid
    BY <1>1 DEF MachineInv, Unique
  <1> QED BY <1>2, <1>3, HighIsCardAndPin

\* atm_top_level.vhd:1146-1207: the balance that the backend sent goes to the
\* customer it was asked about and to nobody else, though the entry has moved to
\* the second place in the same assignment.
THEOREM FiledUnderCard == SyncSpec => ReplyFiledUnderCard
  <1>1. ASSUME MachineInv, RoundInv, [SyncNext]_allVars, system_state = "UpdateCache",
               cache' # cache, NEW i \in 1..CacheSize, cache'[i].uid # 0
        PROVE  \E j \in 1..CacheSize :
                   /\ High(cache'[i]) = High(cache[j])
                   /\ cache'[i].low = IF High(cache'[i]) = High(en_input) THEN de_output.low
                                      ELSE cache[j].low
    <2>1. UpdateCache
      <3>1. SyncNext
        BY <1>1 DEF allVars, vars, memory
      <3>2. ASSUME NEW chan \in Channels, HostBranch(chan) PROVE FALSE
        BY <1>1, <3>2 DEF HostBranch, StartSync, HostIsBack, Ready, Communicating, Setup, SyncCache
      <3>3. OwnBranch => UpdateCache
        BY <1>1 DEF OwnBranch, TakingInput, NoteAllocation, Encrypt, Decrypt, LoadingCash,
                    Dispensing, AwaitDone, DecryptSetup, CommLost, NotInCache, CommRegained
      <3>4. ~Reset
        BY <1>1 DEF Reset, memory
      <3> QED BY <3>1, <3>2, <3>3, <3>4 DEF SyncNext, Next, Tick, MainProcess
    <2>2. cache' = Rotate(cache, de_output.low)
      BY <1>1, <2>1 DEF UpdateCache
    <2>3. en_input = cache[1]
      BY <1>1 DEF RoundInv
    <2>4. cache \in Caches /\ cache[1] \in Words /\ de_output.low \in 0..(HalfRange - 1)
      BY <1>1, WordType DEF MachineInv, DataInv, Caches
    <2>5. CASE i = 2
      <3>1. cache'[i] = [cache[1] EXCEPT !.low = de_output.low]
        BY <2>2, <2>5 DEF Rotate
      <3>2. High(cache'[i]) = High(cache[1]) /\ cache'[i].low = de_output.low
        BY <2>4, <3>1, Rebalanced DEF High
      <3>3. 1 \in 1..CacheSize
        OBVIOUS
      <3> QED BY <2>3, <3>2, <3>3
    <2>6. CASE i # 2
      <3> DEFINE j == IF i = 1 THEN CacheSize ELSE i - 1
      <3>1. j \in 2..CacheSize /\ j \in 1..CacheSize
        BY <2>6
      <3>2. cache'[i] = cache[j]
        BY <2>2, <2>6 DEF Rotate
      <3>3. High(cache[j]) # High(cache[1])
        BY <1>1, <3>1, <3>2, FirstIsAlone
      <3> QED BY <2>3, <3>1, <3>2, <3>3
    <2> QED BY <2>5, <2>6
  <1>2. ASSUME MachineInv, RoundInv, [SyncNext]_allVars
        PROVE  [(system_state = "UpdateCache" /\ cache' # cache) =>
                  \A i \in 1..CacheSize : cache'[i].uid # 0 => \E j \in 1..CacheSize :
                      /\ High(cache'[i]) = High(cache[j])
                      /\ cache'[i].low = IF High(cache'[i]) = High(en_input) THEN de_output.low
                                         ELSE cache[j].low]_allVars
    BY <1>1, <1>2
  <1> QED BY <1>2, RoundHolds, PTL DEF SyncSpec, ReplyFiledUnderCard
=============================================================================
