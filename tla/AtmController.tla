---------------------------- MODULE AtmController ----------------------------
(***************************************************************************)
(* The ATM on the board: the main process of                               *)
(* src/frontend/atm_top_level.vhd with the three units it drives, the      *)
(* encrypter, the decrypter and the note allocator, all on one clock.      *)
(*                                                                         *)
(* A step is a clock edge.  On it the main process runs the branch of its  *)
(* state and each unit makes its own step, all from the values before the  *)
(* edge.  The customer (buttons and switches) and the host (the channel    *)
(* address and what is written to it) are free: on every edge they may do  *)
(* anything their lines can carry.  The LEDs are left out, except that the *)
(* notes are handed out as blinks.                                         *)
(***************************************************************************)
EXTENDS AtmData

CONSTANTS
    Value, IntRange,    \* of the note allocator
    Rounds,             \* of the two cipher units
    WordBytes,          \* bytes of a word: 8
    N,                  \* clocks of a blink, less one
    MaxBlinks,          \* max_no_of_blinks: 8
    TimeOut,            \* blinks before the host is given up: 31
    BankIds,            \* what the switches carry when load_bank_id is pressed
    Requests,           \* words the customers enter: card, PIN and amount
    StatusCodes,        \* codes the host may send: 1 .. 4
    HostWords,          \* words the host seals
    SetupWords,         \* words the host seals for the setup
    MaxCustomers        \* how many press start (a bound of the model)

Kinds == 1..4
MaxNotes == ByteRange - 1
Counts == [Kinds -> 0..MaxNotes]

ASSUME TimingAssumption ==
    /\ Rounds \in Nat \ {0} /\ WordBytes \in Nat \ {0} /\ N \in Nat
    /\ MaxBlinks \in Nat \ {0} /\ TimeOut \in Nat \ {0}

\* Either half of a word fits the 32 bits of the allocator's amounts.
ASSUME MoneyAssumption ==
    /\ Value \in [Kinds -> Nat \ {0}]
    /\ IntRange \in Nat \ {0} /\ HalfRange <= 2 * IntRange

Words == {w \in [uid : Nat, pin : 0..(PinRange - 1), low : 0..(HalfRange - 1)] :
             High(w) < 2 * IntRange}

ASSUME InputsAssumption ==
    /\ BankIds \subseteq 0..(Banks - 1)
    /\ Requests \subseteq Words /\ HostWords \subseteq Words
    /\ SetupWords \subseteq Words /\ GarbledWords \subseteq Words

VARIABLES
    system_state,
    input_byte_count, input_taken_already,      \* entering a request
    start_encrypt, en_input,
    en_round, en_loaded, en_output, encryption_over,
    start_decrypt, de_input,
    de_round, de_loaded, de_output, decryption_over,
    start_note_allocation, amount_to_be_allocated,
    na_state, amount_asked_int, binarysearch_start, left_limit, right_limit,
    notes_allocated, adequate_cash_in_atm, note_allocation_over,
    bank_id,
    notes,                                      \* n2000, n1000, n500, n100
    limit_notes, limit_total_amount,
    response,                                   \* bytes from the backend
    adequate_cash_in_account, user_is_admin,
    dispensing_done_already, to_be_dispensed, time_gap, led_blink_counter,
    time_counter, time_out_counter,
    cache, cache_mode, cache_update_count,
    prevchan_is_0,                              \* prevchanAddr = 0: all that is read of it
    customers                                   \* presses of start so far

entry == <<input_byte_count, input_taken_already>>
starts == <<start_encrypt, start_decrypt, start_note_allocation>>
inputs == <<en_input, de_input, amount_to_be_allocated>>
encrypter == <<en_round, en_loaded, en_output, encryption_over>>
decrypter == <<de_round, de_loaded, de_output, decryption_over>>
allocator == <<na_state, amount_asked_int, binarysearch_start, left_limit, right_limit,
               notes_allocated, adequate_cash_in_atm, note_allocation_over>>
status == <<adequate_cash_in_account, user_is_admin>>
payout == <<dispensing_done_already, to_be_dispensed, time_gap>>
limits == <<limit_notes, limit_total_amount>>
memory == <<cache, cache_mode, cache_update_count>>
vars == <<system_state, entry, starts, inputs, encrypter, decrypter, allocator, bank_id,
          notes, limits, response, status, payout, led_blink_counter, time_counter,
          time_out_counter, memory, prevchan_is_0, customers>>

NoByte == [none |-> TRUE]
NoBytes == [i \in 1..WordBytes |-> NoByte]
NoNotes == [k \in Kinds |-> 0]

-----------------------------------------------------------------------------
(* The units, wired as in the port maps. *)

Encrypter == INSTANCE CipherUnit
    WITH Results <- Seals, Blank <- Garbled, start <- start_encrypt, input <- en_input,
         round <- en_round, loaded <- en_loaded, output <- en_output,
         done <- encryption_over

Decrypter == INSTANCE CipherUnit
    WITH Results <- Opens, Blank <- ZeroWord, start <- start_decrypt, input <- de_input,
         round <- de_round, loaded <- de_loaded, output <- de_output,
         done <- decryption_over

\* The lines into the allocator.
allocator_port == [stock |-> notes, limit |-> limit_notes,
                   total |-> limit_total_amount, amount |-> amount_to_be_allocated]

\* Inputs are driven by the main process here, not chosen.
Allocator == INSTANCE NoteAllocator
    WITH Inputs <- {}, start <- start_note_allocation, port <- allocator_port,
         system_state <- na_state, notes_out <- notes_allocated,
         allocation_possible <- adequate_cash_in_atm, done <- note_allocation_over

\* Every unit makes its step of the edge.
Units == Encrypter!ClockEdge /\ Decrypter!ClockEdge /\ Allocator!Edge

-----------------------------------------------------------------------------
Init ==
    /\ system_state = "Setup"
    /\ input_byte_count = 0 /\ input_taken_already = FALSE
    /\ start_encrypt = FALSE /\ start_decrypt = FALSE /\ start_note_allocation = FALSE
    /\ en_input = ZeroWord /\ de_input = Garbled /\ amount_to_be_allocated = 0
    /\ Encrypter!Init(ZeroWord) /\ Decrypter!Init(Garbled)
    /\ na_state = 0 /\ amount_asked_int = 0 /\ binarysearch_start = FALSE
    /\ left_limit = 0 /\ right_limit = 0 /\ notes_allocated = NoNotes
    /\ adequate_cash_in_atm = FALSE /\ note_allocation_over = FALSE
    /\ bank_id = 0
    /\ notes = NoNotes /\ limit_notes = NoNotes /\ limit_total_amount = 0
    /\ response = NoBytes
    /\ adequate_cash_in_account = FALSE /\ user_is_admin = FALSE
    /\ dispensing_done_already = FALSE /\ to_be_dispensed = NoNotes /\ time_gap = FALSE
    /\ led_blink_counter = 0
    /\ time_counter = 0 /\ time_out_counter = 0
    /\ cache = EmptyCache /\ cache_mode = FALSE /\ cache_update_count = 0
    /\ prevchan_is_0 = TRUE
    /\ customers = 0

\* The variables of one transaction are cleared, by Ready and by the reset: here
\* all but the start lines of the cipher units.
ClearRest ==
    /\ input_byte_count' = 0 /\ input_taken_already' = FALSE
    /\ start_note_allocation' = FALSE
    /\ response' = NoBytes
    /\ adequate_cash_in_account' = FALSE /\ user_is_admin' = FALSE
    /\ dispensing_done_already' = FALSE /\ to_be_dispensed' = NoNotes /\ time_gap' = FALSE
    /\ led_blink_counter' = 0
    /\ time_out_counter' = 0

\* Mutants of ClearTransaction: a start line is forgotten.
ClearButEncrypt == ClearRest /\ start_decrypt' = FALSE /\ UNCHANGED start_encrypt
ClearButDecrypt == ClearRest /\ start_encrypt' = FALSE /\ UNCHANGED start_decrypt

ClearTransaction == ClearRest /\ start_encrypt' = FALSE /\ start_decrypt' = FALSE

\* A blink ends when the time counter reaches N.
BlinkEnds == time_counter = N

-----------------------------------------------------------------------------
(* The branches of the main process, one per value of system_state.  chan  *)
(* is the channel address on this edge.                                    *)

\* The channel address has just become 0 in Ready after an offline service:
\* the host is taken to be back.  This branch comes before Ready's own.
HostIsBack(chan) ==
    cache_mode /\ chan = 0 /\ ~prevchan_is_0 /\ system_state = "Ready"

StartSync(chan) ==
    /\ HostIsBack(chan)
    /\ cache_mode' = FALSE
    /\ system_state' = "CommRegained"
    /\ start_encrypt' = FALSE
    /\ UNCHANGED <<entry, start_decrypt, start_note_allocation, inputs, bank_id, notes,
                   limits, response, status, payout, led_blink_counter, time_out_counter,
                   cache, cache_update_count, customers>>

Ready(chan) ==
    /\ system_state = "Ready"
    /\ ~HostIsBack(chan)
    /\ ClearTransaction
    /\ cache_update_count' = 0
    /\ bank_id' \in {bank_id} \cup BankIds              \* load_bank_id may be pressed
    /\ \/ /\ customers < MaxCustomers                   \* start pressed
          /\ system_state' = "TakingInput"
          /\ customers' = customers + 1
       \/ UNCHANGED <<system_state, customers>>
    /\ UNCHANGED <<inputs, notes, limits, cache, cache_mode>>

\* A byte is taken once per press of next_data; which word the bytes make is
\* decided when the last is taken.
TakeByte ==
    /\ ~input_taken_already
    /\ input_taken_already' = TRUE
    /\ input_byte_count' = input_byte_count + 1
    /\ IF input_byte_count + 1 = WordBytes
       THEN /\ \E word \in Requests : /\ en_input' = word
                                      /\ amount_to_be_allocated' = word.low
            /\ system_state' = "NoteAllocation"
       ELSE UNCHANGED <<en_input, amount_to_be_allocated, system_state>>

TakingInput ==
    /\ system_state = "TakingInput"
    /\ \/ TakeByte
       \/ /\ input_taken_already                        \* next_data held
          /\ UNCHANGED <<entry, en_input, amount_to_be_allocated, system_state>>
       \/ /\ input_taken_already' = FALSE               \* next_data not pressed
          /\ UNCHANGED <<input_byte_count, en_input, amount_to_be_allocated, system_state>>
    /\ UNCHANGED <<starts, de_input, bank_id, notes, limits, response, status, payout,
                   led_blink_counter, time_out_counter, memory, customers>>

\* Whether the allocation is over is not waited for: the code's comparison
\* "note_allocation_over <= '1'" is true of either value.
NoteAllocation ==
    /\ system_state = "NoteAllocation"
    /\ start_note_allocation' = TRUE
    /\ system_state' = "Encrypt"
    /\ UNCHANGED <<entry, start_encrypt, start_decrypt, inputs, bank_id, notes, limits,
                   response, status, payout, led_blink_counter, time_out_counter, memory,
                   customers>>

\* Mutant of Encrypt: encryption_over is not waited for.
EncryptAtOnce ==
    /\ system_state = "Encrypt"
    /\ start_encrypt' = TRUE
    /\ system_state' = IF BankOf(en_input) = bank_id THEN "Communicating" ELSE "Ethernet"
    /\ UNCHANGED <<entry, start_decrypt, start_note_allocation, inputs, bank_id, notes,
                   limits, response, status, payout, led_blink_counter, time_out_counter,
                   memory, customers>>

Encrypt ==
    /\ system_state = "Encrypt"
    /\ start_encrypt' = TRUE
    /\ system_state' = IF ~encryption_over THEN system_state
                       ELSE IF BankOf(en_input) = bank_id THEN "Communicating"
                       ELSE "Ethernet"
    /\ UNCHANGED <<entry, start_decrypt, start_note_allocation, inputs, bank_id, notes,
                   limits, response, status, payout, led_blink_counter, time_out_counter,
                   memory, customers>>

-----------------------------------------------------------------------------
(* Talking to the host. *)

\* Channels the host writes to: the status of a request, then the bytes of a
\* reply, then those of the setup.  Reads, of channels 0 to 8, change nothing.
StatusChannel == 9
ReplyChannel == 10
SetupChannel == ReplyChannel + WordBytes

Channels == {0} \cup (StatusChannel..(SetupChannel + WordBytes - 1))

\* What the host replies with: a sealed word, or the zeros it sends for a card
\* it does not know.
Replies == {Seal(w) : w \in HostWords} \cup {Garbled}

\* The host writes byte i of a block, to the channels from first on.
ReceiveByte(chan, first, blocks) ==
    \E i \in 1..WordBytes, block \in blocks :
        /\ chan = first + i - 1
        /\ response' = [response EXCEPT ![i] = block]

AllReceived(bytes) == \A i \in 1..WordBytes : bytes[i] # NoByte

\* Once every byte is there the block goes to the decrypter.
HandOver ==
    de_input' = IF AllReceived(response') THEN Assemble(response') ELSE de_input

\* 1: enough in the account, 2: not enough, 3: an administrator, 4: not valid.
ReceiveStatus(chan, code) ==
    /\ chan = StatusChannel
    /\ adequate_cash_in_account' = IF code \in {1, 2} THEN code = 1
                                   ELSE adequate_cash_in_account
    /\ user_is_admin' = IF code = 4 THEN user_is_admin ELSE code = 3

\* Mutant of CountTimeOut: it is not counted.
NeverTimesOut == UNCHANGED time_out_counter

CountTimeOut ==
    time_out_counter' = IF BlinkEnds THEN time_out_counter + 1 ELSE time_out_counter

\* The time-out is looked at last and wins.
Communicating(chan) ==
    /\ system_state = "Communicating"
    /\ CountTimeOut
    /\ \E invalid \in BOOLEAN :
         /\ \/ /\ ~invalid                              \* nothing written
               /\ UNCHANGED <<response, status>>
            \/ /\ \E code \in StatusCodes : /\ ReceiveStatus(chan, code)
                                            /\ invalid = (code = 4)
               /\ UNCHANGED response
            \/ /\ ~invalid
               /\ ReceiveByte(chan, ReplyChannel, Replies)
               /\ UNCHANGED status
         /\ system_state' = IF time_out_counter' = TimeOut THEN "CommLost"
                            ELSE IF AllReceived(response') THEN "Decrypt"
                            ELSE IF invalid THEN "Ready"
                            ELSE system_state
    /\ HandOver
    /\ UNCHANGED <<entry, starts, en_input, amount_to_be_allocated, bank_id, notes, limits,
                   payout, led_blink_counter, memory, customers>>

Decrypt ==
    /\ system_state = "Decrypt"
    /\ start_decrypt' = TRUE
    /\ system_state' = IF ~decryption_over THEN system_state
                       ELSE IF user_is_admin THEN "LoadingCash" ELSE "Dispensing"
    /\ UNCHANGED <<entry, start_encrypt, start_note_allocation, inputs, bank_id, notes,
                   limits, response, status, payout, led_blink_counter, time_out_counter,
                   memory, customers>>

-----------------------------------------------------------------------------
(* Serving the customer. *)

CountBlink ==
    led_blink_counter' = IF BlinkEnds THEN led_blink_counter + 1 ELSE led_blink_counter

\* An administrator's word says how many notes there are now.
LoadingCash ==
    /\ system_state = "LoadingCash"
    /\ notes' = NotesOf(de_output)
    /\ CountBlink
    /\ system_state' = IF led_blink_counter' = MaxBlinks THEN "Dummy" ELSE system_state
    /\ UNCHANGED <<entry, starts, inputs, bank_id, limits, response, status, payout,
                   time_out_counter, memory, customers>>

\* The customer's entry comes first in the cache, with the balance the backend
\* sent, or in cache mode the one the entry had, less what is spent.
Remember(place, balance) ==
    cache' = MoveToFront(cache, place, [en_input EXCEPT !.low = balance])

RememberPaid ==
    LET place == EntryOf(cache, en_input.uid, CacheSize)
    IN  Remember(place,
                 IF cache_mode /\ Cached(cache, en_input.uid)
                 THEN (cache[place].low - en_input.low) % HalfRange
                 ELSE de_output.low)

\* A refusal does not look whether the last entry is the customer's: it takes
\* the place, and in cache mode the balance, of whatever entry is last.
RememberRefused ==
    LET place == EntryOf(cache, en_input.uid, CacheSize - 1)
    IN  Remember(place, IF cache_mode THEN cache[place].low ELSE de_output.low)

\* One note is handed out per blink, the larger first, with a gap after each.
HandOut(pending) ==
    LET k == CHOOSE j \in Kinds : pending[j] > 0 /\ \A i \in Kinds : i < j => pending[i] = 0
    IN  /\ time_gap' = (time_gap # BlinkEnds)
        /\ to_be_dispensed' = IF BlinkEnds /\ ~time_gap
                              THEN [pending EXCEPT ![k] = @ - 1] ELSE pending

\* At the end of every Dispensing branch; the branch has looked at the counter.
BlinksUp == led_blink_counter = MaxBlinks

\* Mutant of BlinkUntilUp: the blinks are counted on.
BlinkOn == CountBlink

BlinkUntilUp == IF BlinksUp THEN UNCHANGED led_blink_counter ELSE CountBlink

\* The account and the machine can pay: on the first edge the notes leave the
\* registers, on the following ones they are handed out.
PayOut ==
    /\ adequate_cash_in_account /\ adequate_cash_in_atm
    /\ dispensing_done_already' = TRUE
    /\ IF dispensing_done_already
       THEN UNCHANGED <<notes, cache>>
       ELSE /\ notes' = [k \in Kinds |-> (notes[k] - notes_allocated[k]) % ByteRange]
            /\ RememberPaid
    /\ LET pending == IF dispensing_done_already THEN to_be_dispensed ELSE notes_allocated
       IN  IF pending # NoNotes
           THEN HandOut(pending) /\ UNCHANGED system_state
           ELSE /\ to_be_dispensed' = pending
                /\ system_state' = IF BlinksUp THEN "Dummy" ELSE system_state
                /\ UNCHANGED time_gap

\* The account or the machine cannot.
Refuse ==
    /\ ~(adequate_cash_in_account /\ adequate_cash_in_atm)
    /\ dispensing_done_already' = TRUE
    /\ IF dispensing_done_already THEN UNCHANGED cache ELSE RememberRefused
    /\ system_state' = IF BlinksUp THEN "Dummy" ELSE system_state
    /\ UNCHANGED <<notes, to_be_dispensed, time_gap>>

\* Mutant of Dispensing: the allocator is let go once the notes are taken.
DispensingReleases ==
    /\ system_state = "Dispensing"
    /\ PayOut \/ Refuse
    /\ BlinkUntilUp
    /\ start_note_allocation' = FALSE
    /\ UNCHANGED <<entry, start_encrypt, start_decrypt, inputs, bank_id, limits, response,
                   status, time_out_counter, cache_mode, cache_update_count, customers>>

Dispensing ==
    /\ system_state = "Dispensing"
    /\ PayOut \/ Refuse
    /\ BlinkUntilUp
    /\ UNCHANGED <<entry, starts, inputs, bank_id, limits, response, status,
                   time_out_counter, cache_mode, cache_update_count, customers>>

\* Dummy after a service, Ethernet for another bank's card: done is waited for.
AwaitDone ==
    /\ system_state \in {"Dummy", "Ethernet"}
    /\ system_state' \in {system_state, "Ready"}
    /\ UNCHANGED <<entry, starts, inputs, bank_id, notes, limits, response, status, payout,
                   led_blink_counter, time_out_counter, memory, customers>>

-----------------------------------------------------------------------------
(* Setup, before the first customer. *)

Setup(chan) ==
    /\ system_state = "Setup"
    /\ \/ UNCHANGED response
       \/ ReceiveByte(chan, SetupChannel, {Seal(w) : w \in SetupWords})
    /\ HandOver
    /\ system_state' = IF AllReceived(response') THEN "DecryptSetup" ELSE system_state
    /\ UNCHANGED <<entry, starts, en_input, amount_to_be_allocated, bank_id, notes, limits,
                   status, payout, led_blink_counter, time_out_counter, memory, customers>>

DecryptSetup ==
    /\ system_state = "DecryptSetup"
    /\ start_decrypt' = TRUE
    /\ IF decryption_over
       THEN /\ limit_total_amount' = High(de_output)
            /\ limit_notes' = NotesOf(de_output)
            /\ system_state' = "Ready"
       ELSE UNCHANGED <<limits, system_state>>
    /\ UNCHANGED <<entry, start_encrypt, start_note_allocation, inputs, bank_id, notes,
                   response, status, payout, led_blink_counter, time_out_counter, memory,
                   customers>>

-----------------------------------------------------------------------------
(* Without the host, and when it is back. *)

\* The first entry with the customer's card and PIN answers for the host.
CommLost ==
    /\ system_state = "CommLost"
    /\ LET matches == MatchOf(cache, en_input)
       IN  IF matches = {}
           THEN /\ system_state' = "NotInCache"
                /\ UNCHANGED <<status, cache_mode>>
           ELSE \E i \in matches :
                    /\ \A j \in matches : i <= j
                    /\ adequate_cash_in_account' = (en_input.low <= cache[i].low)
                    /\ cache_mode' = TRUE
                    /\ system_state' = "Dispensing"
                    /\ UNCHANGED user_is_admin
    /\ UNCHANGED <<entry, starts, inputs, bank_id, notes, limits, response, payout,
                   led_blink_counter, time_out_counter, cache, cache_update_count, customers>>

NotInCache ==
    /\ system_state = "NotInCache"
    /\ CountBlink
    /\ system_state' = IF led_blink_counter' = MaxBlinks THEN "Ready" ELSE system_state
    /\ UNCHANGED <<entry, starts, inputs, bank_id, notes, limits, response, status, payout,
                   time_out_counter, memory, customers>>

\* The first entry is encrypted, unless all have been sent.  start_encrypt is
\* read as it was before the edge; encryption_over may still be up from before.
CommRegained ==
    /\ system_state = "CommRegained"
    /\ IF start_encrypt
       THEN UNCHANGED <<start_decrypt, en_input, response>>
       ELSE /\ start_decrypt' = FALSE
            /\ en_input' = cache[1]
            /\ response' = NoBytes
    /\ IF cache_update_count = CacheSize
       THEN /\ system_state' = "Ready"
            /\ cache_mode' = FALSE
            /\ start_encrypt' = TRUE
       ELSE /\ system_state' = IF encryption_over THEN "SyncCache" ELSE system_state
            /\ start_encrypt' = ~encryption_over
            /\ UNCHANGED cache_mode
    /\ UNCHANGED <<entry, start_note_allocation, de_input, amount_to_be_allocated, bank_id,
                   notes, limits, status, payout, led_blink_counter, time_out_counter,
                   cache, cache_update_count, customers>>

\* The host reads the block and replies with the balance.  Nothing times out.
SyncCache(chan) ==
    /\ system_state = "SyncCache"
    /\ \/ UNCHANGED response
       \/ ReceiveByte(chan, ReplyChannel, Replies)
    /\ HandOver
    /\ system_state' = IF AllReceived(response') THEN "UpdateCache" ELSE system_state
    /\ UNCHANGED <<entry, starts, en_input, amount_to_be_allocated, bank_id, notes, limits,
                   status, payout, led_blink_counter, time_out_counter, memory, customers>>

UpdateCache ==
    /\ system_state = "UpdateCache"
    /\ start_decrypt' = TRUE
    /\ IF decryption_over
       THEN /\ cache' = Rotate(cache, de_output.low)
            /\ cache_update_count' = cache_update_count + 1
            /\ system_state' = "CommRegained"
       ELSE UNCHANGED <<cache, cache_update_count, system_state>>
    /\ UNCHANGED <<entry, start_encrypt, start_note_allocation, inputs, bank_id, notes,
                   limits, response, status, payout, led_blink_counter, time_out_counter,
                   cache_mode, customers>>

-----------------------------------------------------------------------------
\* The branches that look at the channel, and those that do not.
HostBranch(chan) ==
    \/ StartSync(chan)
    \/ Ready(chan)
    \/ Communicating(chan)
    \/ Setup(chan)
    \/ SyncCache(chan)

OwnBranch ==
    \/ TakingInput
    \/ NoteAllocation
    \/ Encrypt
    \/ Decrypt
    \/ LoadingCash
    \/ Dispensing
    \/ AwaitDone
    \/ DecryptSetup
    \/ CommLost
    \/ NotInCache
    \/ CommRegained
    \/ UpdateCache

\* At the end of the process the channel address is kept, whatever it is now.
\* Only Ready reads it: on the way to another state it is not told apart.
MainProcess ==
    \/ \E chan \in Channels :
         /\ HostBranch(chan)
         /\ prevchan_is_0' = (chan = 0 \/ system_state' # "Ready")
    \/ /\ OwnBranch
       /\ prevchan_is_0' \in {TRUE, system_state' # "Ready"}

\* The time counter wraps.
After(counter) == IF counter = N THEN 0 ELSE counter + 1

Tick ==
    /\ MainProcess
    /\ Units
    /\ time_counter' = After(time_counter)

\* The reset button.  The cache, the notes, the limits and the bank stay.
Reset ==
    /\ ClearTransaction
    /\ system_state' = "Ready"
    /\ Encrypter!ResetRegisters
    /\ Decrypter!ResetRegisters
    /\ Allocator!ResetRegisters
    /\ time_counter' = After(0)
    /\ prevchan_is_0' \in BOOLEAN
    /\ UNCHANGED <<inputs, bank_id, notes, limits, memory, customers>>

Next == Tick \/ Reset

\* The clock does not stop.
Spec == Init /\ [][Next]_vars /\ WF_vars(Tick)

-----------------------------------------------------------------------------
(* Properties. *)

States == {"Setup", "DecryptSetup", "Ready", "TakingInput", "NoteAllocation", "Encrypt",
           "Communicating", "Decrypt", "LoadingCash", "Dispensing", "Dummy", "Ethernet",
           "CommLost", "NotInCache", "CommRegained", "SyncCache", "UpdateCache"}

TypeOK ==
    /\ system_state \in States
    /\ input_byte_count \in 0..WordBytes
    /\ en_input \in Words /\ de_output \in Words
    /\ bank_id \in 0..(Banks - 1)
    /\ notes \in Counts /\ limit_notes \in Counts /\ to_be_dispensed \in Counts
    /\ led_blink_counter \in 0..MaxBlinks
    /\ time_counter \in 0..N
    /\ time_out_counter \in 0..TimeOut
    /\ DOMAIN cache = 1..CacheSize /\ \A i \in 1..CacheSize : cache[i] \in Words
    /\ cache_update_count \in 0..CacheSize
    /\ Allocator!LinesOK
    /\ na_state \in 0..6 /\ amount_asked_int \in 0..(IntRange - 1)
    /\ {en_round, de_round} \subseteq 0..(Rounds + 1)

\* This service is offline: the host was given up.
Offline == time_out_counter = TimeOut

\* What the counts q are worth.
Worth(q) == Value[1] * q[1] + Value[2] * q[2] + Value[3] * q[3] + Value[4] * q[4]

\* atm_top_level.vhd:702-714: outside a load the notes only ever leave the
\* machine as an exact payment of the amount of the customer being served, and
\* no count wraps below zero: the answer the allocator gave when the request
\* was entered is still good when it is used.
NotesLeaveAsAsked ==
    [][(notes' # notes /\ system_state # "LoadingCash") =>
          /\ \A k \in Kinds : notes'[k] <= notes[k]
          /\ Worth(notes) - Worth(notes') = en_input.low]_vars

\* The search goes round in a bracket that an allocation that was dropped has left.
Stuck == \E k \in Kinds : Allocator!Stuck(k)

\* The request is enciphered and the reply deciphered, or the host given up, in no
\* fewer clocks than any search that ends may take.
OutlastsSearch(clocks, most_notes, rounds, time_out) ==
    LET most == Allocator!AllocationClocks(clocks, most_notes)
    IN  /\ Allocator!SearchClocks(clocks, most_notes)
        /\ most <= (rounds + 2) + 1 + (rounds + 2)
        /\ most <= (rounds + 2) + time_out + 1

\* atm_top_level.vhd:488-492, 702: NoteAllocation does not wait for the
\* allocator, and Dispensing does not look at note_allocation_over, but what
\* happens in between takes longer than any allocation that ends: notes are
\* never given out, nor refused, on a search that is merely not finished.
AllocatedBeforeUse ==
    (system_state = "Dispensing" /\ ~dispensing_done_already)
    => note_allocation_over \/ Stuck

\* atm_top_level.vhd:503-526, 1246-1255: while the host may read channels 1 to 8
\* of a request they hold the sealed request that was just entered, never the
\* one of the customer before.
RequestIsSealed == system_state = "Communicating" => en_output = Seal(en_input)

\* atm_top_level.vhd:651-680, 717-758: what is loaded, or remembered as a
\* balance when the host answered, was deciphered from the reply to this very
\* request.
ReplyIsOpened ==
    (\/ system_state = "LoadingCash"
     \/ system_state = "Dispensing" /\ ~dispensing_done_already /\ ~Offline)
    => /\ de_output \in Opens(de_input)
       /\ de_input = Assemble(response)

\* atm_top_level.vhd:717-758, 1056-1100: an offline service never pays more than
\* the balance it remembers for the customer: the entry the PIN was matched in
\* is the one that is debited, and its balance does not wrap below zero.
OfflineDebitCovered ==
    [][(system_state = "Dispensing" /\ notes' # notes /\ Offline) =>
          \E i \in 1..CacheSize :
              /\ High(cache[i]) = High(en_input)
              /\ cache'[1] = [cache[i] EXCEPT !.low = @ - en_input.low]
              /\ cache'[1].low >= 0]_vars

\* atm_top_level.vhd:717-758, 832-867, 1198-1206: a customer has one entry in
\* the cache at most, in spite of misses, hits in any place, refusals and the
\* rotations of the synchronisation.
OneEntryPerCustomer ==
    \A i, j \in 1..CacheSize :
        (i # j /\ cache[i].uid = cache[j].uid) => cache[i].uid = 0

\* atm_top_level.vhd:761-825: the customer is done with only when every note
\* that left the registers has been handed out: the answers of the account and
\* of the allocator stand until then, so that no pay-out turns into a refusal
\* halfway.
AllHandedOut == system_state = "Dummy" => to_be_dispensed = NoNotes

\* atm_top_level.vhd:487-1120: a request entered is either served, refused,
\* sent to another bank or given up, whatever the host does or does not do.
RequestResolves ==
    system_state = "NoteAllocation" ~> system_state \in {"Ready", "Dummy", "Ethernet"}

-----------------------------------------------------------------------------
(* What the comments say and the code does not do. *)

\* atm_top_level.vhd:1146 (state 01101): "Communicate the cache changes to
\* Backend": what channels 1 to 8 hold is the cache entry, sealed.
SyncSendsEntry == system_state = "SyncCache" => en_output = Seal(en_input)

\* Some set of notes within the stock and the limits pays the amount.
CanPay(amount) ==
    /\ amount <= limit_total_amount
    /\ \E q \in Counts : /\ \A k \in Kinds : q[k] <= notes[k] /\ q[k] <= limit_notes[k]
                         /\ Worth(q) = amount

\* note_allocator.vhd:24-26: "is the allocation possible, i.e. required amount
\* must be in atm and can be allocated to notes properly": a customer the
\* machine refuses could not have been paid by it.
RefusedOnlyWhenUnpayable ==
    (/\ system_state = "Dispensing" /\ ~dispensing_done_already
     /\ ~adequate_cash_in_atm)
    => ~CanPay(en_input.low)

=============================================================================
