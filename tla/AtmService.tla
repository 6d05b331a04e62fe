----------------------------- MODULE AtmService -----------------------------
(***************************************************************************)
(* The machine as its host and its customers see it: the states of the      *)
(* main process (src/frontend/atm_top_level.vhd) without the clock.  Runs of *)
(* clocks in which nothing from outside is read are one step: entering,      *)
(* allocating and encrypting a request; deciphering a reply and changing the *)
(* registers; handing out.  Notes are an amount of cash.  What the clocks,   *)
(* the units and the notes do is in AtmController; here is what a service    *)
(* means for accounts.                                                       *)
(***************************************************************************)
EXTENDS AtmData

CONSTANTS
    ReplyBytes,     \* bytes of a reply: 8
    bank_id         \* of the machine, once load_bank_id has taken it

VARIABLES
    system_state, en_input,
    en_output, encryption_over,     \* of the encrypter
    allocating,         \* the allocator has not given its verdict yet
    adequate_cash_in_atm, adequate_cash_in_account, user_is_admin,
    response,           \* bytes of the reply, by channel
    cash,               \* worth of the notes
    cache, cache_mode, cache_update_count,
    chanAddr_is_0       \* whether the host's last access was to channel 0

encrypter == <<en_output, encryption_over>>
atmVars == <<system_state, en_input, encrypter, allocating, adequate_cash_in_atm,
             adequate_cash_in_account, user_is_admin, response, cash, cache, cache_mode,
             cache_update_count, chanAddr_is_0>>

NoByte == [none |-> TRUE]
NoBytes == [i \in 1 .. ReplyBytes |-> NoByte]

AtmInit(notes) ==
    /\ system_state = "Setup" /\ en_input = ZeroWord
    /\ en_output = Garbled /\ encryption_over = FALSE
    /\ allocating = FALSE /\ adequate_cash_in_atm = FALSE
    /\ adequate_cash_in_account = FALSE /\ user_is_admin = FALSE
    /\ response = NoBytes /\ cash = notes
    /\ cache = EmptyCache /\ cache_mode = FALSE /\ cache_update_count = 0
    /\ chanAddr_is_0 = TRUE

Syncing == system_state \in {"CommRegained", "SyncCache", "UpdateCache"}
AllReceived(bytes) == \A i \in 1 .. ReplyBytes : bytes[i] # NoByte

-----------------------------------------------------------------------------
(* The host's accesses.                                                     *)

\* A change of the channel address to 0, seen in Ready in cache mode, starts
\* the synchronisation.
StartsSync(chan) == chan = 0 /\ ~chanAddr_is_0 /\ cache_mode /\ system_state = "Ready"

\* What channel 0 says.
CodeOf(state) ==
    CASE state = "Communicating" -> IF adequate_cash_in_atm THEN 1 ELSE 2
      [] state \in {"Decrypt", "Offline", "Dispensing", "Dummy"} -> 3
      [] state \in {"CommRegained", "SyncCache", "UpdateCache"} -> 5
      [] OTHER -> 0

\* The host reads channel 0.
ReadCode(code) ==
    /\ chanAddr_is_0' = TRUE
    /\ IF StartsSync(0)
       THEN system_state' = "CommRegained" /\ cache_mode' = FALSE
       ELSE UNCHANGED <<system_state, cache_mode>>
    /\ code = CodeOf(system_state')
    /\ UNCHANGED <<en_input, encrypter, allocating, adequate_cash_in_atm, adequate_cash_in_account,
                   user_is_admin, response, cash, cache, cache_update_count>>

\* Where Done, or the end of the blinks, leads to Ready.
Ending == system_state \in {"Dummy", "NotInCache", "Ethernet"}

\* The access to channel 0 falls on the first clock of Ready: Ready's own branch
\* does not run, so start_encrypt is low for no clock before CommRegained looks at
\* encryption_over, which is still that of the request before.
ReadCodeAtEnd(code) ==
    /\ Ending /\ cache_mode /\ ~chanAddr_is_0
    /\ system_state' = "CommRegained" /\ cache_mode' = FALSE
    /\ chanAddr_is_0' = TRUE
    /\ code = CodeOf(system_state')
    /\ UNCHANGED <<en_input, encrypter, allocating, adequate_cash_in_atm,
                   adequate_cash_in_account, user_is_admin, response, cash, cache,
                   cache_update_count>>

\* The block whose bytes channels 1 .. 8 carry: zeros outside of a request.
OnChannels ==
    IF system_state \in {"Communicating", "SyncCache"} THEN en_output ELSE Garbled

Accessed == chanAddr_is_0' = FALSE

ReadByte ==
    /\ Accessed
    /\ UNCHANGED <<system_state, en_input, encrypter, allocating, adequate_cash_in_atm,
                   adequate_cash_in_account, user_is_admin, response, cash, cache,
                   cache_mode, cache_update_count>>

\* What is cleared once Ready has run its own branch.
Cleared ==
    /\ encryption_over' = FALSE /\ allocating' = FALSE /\ adequate_cash_in_atm' = FALSE
    /\ adequate_cash_in_account' = FALSE /\ user_is_admin' = FALSE
    /\ response' = NoBytes

\* Channel 9: who the customer is.  Code 4 ends the service at once.
TakeStatus(code) ==
    /\ Accessed
    /\ IF system_state = "Communicating" /\ code = 4
       THEN system_state' = "Ready" /\ Cleared
       ELSE /\ IF system_state = "Communicating" /\ code # 0
               THEN /\ adequate_cash_in_account' =
                          IF code = 3 THEN adequate_cash_in_account ELSE code = 1
                    /\ user_is_admin' = (code = 3)
               ELSE UNCHANGED <<adequate_cash_in_account, user_is_admin>>
            /\ UNCHANGED <<system_state, encryption_over, allocating, adequate_cash_in_atm,
                           response>>
    /\ UNCHANGED <<en_input, en_output, cash, cache, cache_mode, cache_update_count>>

\* Channels 10 .. 17: byte i of a reply; with all there it is deciphered.
TakeByte(i, block) ==
    /\ Accessed
    /\ IF system_state \in {"Communicating", "SyncCache"}
       THEN /\ response' = [response EXCEPT ![i] = block]
            /\ system_state' =
                  IF ~AllReceived(response') THEN system_state
                  ELSE IF system_state = "SyncCache" THEN "UpdateCache" ELSE "Decrypt"
       ELSE UNCHANGED <<response, system_state>>
    /\ UNCHANGED <<en_input, encrypter, allocating, adequate_cash_in_atm, adequate_cash_in_account,
                   user_is_admin, cash, cache, cache_mode, cache_update_count>>

\* Channels 18 .. 25: the limits, which only the state Setup takes.
TakeSetup(last) ==
    /\ Accessed
    /\ system_state' = IF last /\ system_state = "Setup" THEN "Ready" ELSE system_state
    /\ UNCHANGED <<en_input, encrypter, allocating, adequate_cash_in_atm, adequate_cash_in_account,
                   user_is_admin, response, cash, cache, cache_mode, cache_update_count>>

-----------------------------------------------------------------------------
(* The customer and the machine's own steps.                                *)

\* Start is pressed.
PressStart ==
    /\ system_state = "Ready"
    /\ system_state' = "TakingInput"
    /\ UNCHANGED <<en_input, encrypter, allocating, adequate_cash_in_atm, adequate_cash_in_account,
                   user_is_admin, response, cash, cache, cache_mode, cache_update_count,
                   chanAddr_is_0>>

\* The request is entered and encrypted; the search for notes runs.  A card of
\* this bank is offered to the host; for one of another there is only Done.
Submit(w) ==
    /\ system_state = "TakingInput"
    /\ system_state' = IF BankOf(w) = bank_id THEN "Communicating" ELSE "Ethernet"
    /\ en_input' = w /\ en_output' = Seal(w) /\ encryption_over' = TRUE
    /\ allocating' = TRUE /\ adequate_cash_in_atm' = FALSE
    /\ response' = NoBytes
    /\ adequate_cash_in_account' = FALSE /\ user_is_admin' = FALSE
    /\ UNCHANGED <<cash, cache, cache_mode, cache_update_count, chanAddr_is_0>>

\* The search finds no more than there is; the notes at hand, the limits and a
\* bracket of a search before may keep it from an amount that there is.
Allocated ==
    /\ allocating /\ allocating' = FALSE
    /\ \E found \in BOOLEAN : adequate_cash_in_atm' = (found /\ en_input.low <= cash)
    /\ UNCHANGED <<system_state, en_input, encrypter, adequate_cash_in_account,
                   user_is_admin, response, cash, cache, cache_mode, cache_update_count,
                   chanAddr_is_0>>

Pays == adequate_cash_in_account /\ adequate_cash_in_atm

Remember(place, balance) == MoveToFront(cache, place, [en_input EXCEPT !.low = balance])

\* Mutant of CacheIfPaid: the subtraction is not one of 32 bits.
CacheIfPaidUnwrapped(bal) ==
    LET place == EntryOf(cache, en_input.uid, CacheSize)
    IN  Remember(place, IF cache_mode /\ Cached(cache, en_input.uid)
                        THEN cache[place].low - en_input.low ELSE bal)

\* The cache after a service that paid, and after one that did not, when the
\* reply held the balance `bal'.
CacheIfPaid(bal) ==
    LET place == EntryOf(cache, en_input.uid, CacheSize)
    IN  Remember(place, IF cache_mode /\ Cached(cache, en_input.uid)
                        THEN (cache[place].low - en_input.low) % HalfRange ELSE bal)

CacheIfRefused(bal) ==
    LET place == EntryOf(cache, en_input.uid, CacheSize - 1)
    IN  Remember(place, IF cache_mode THEN cache[place].low ELSE bal)

\* LoadingCash, to the end of the blinks, or the first clock of Dispensing.
ServeReply ==
    /\ system_state = "Decrypt" /\ ~allocating
    /\ system_state' = IF user_is_admin THEN "Dummy" ELSE "Dispensing"
    /\ \E w \in Opens(Assemble(response)) :
         IF user_is_admin
         THEN cash' = w.low /\ UNCHANGED cache
         ELSE /\ cash' = IF Pays THEN cash - en_input.low ELSE cash
              /\ cache' = IF Pays THEN CacheIfPaid(w.low) ELSE CacheIfRefused(w.low)
    /\ UNCHANGED <<en_input, encrypter, allocating, adequate_cash_in_atm, adequate_cash_in_account,
                   user_is_admin, response, cache_mode, cache_update_count, chanAddr_is_0>>

\* The host is given up: the first entry with the card and the PIN answers.
OfflineEntry == MatchOf(cache, en_input)

TimeOut ==
    /\ system_state = "Communicating" /\ ~allocating
    /\ IF OfflineEntry = {}
       THEN /\ system_state' = "NotInCache"
            /\ UNCHANGED <<adequate_cash_in_account, cache_mode>>
       ELSE /\ system_state' = "Offline"
            /\ cache_mode' = TRUE
            /\ \E i \in OfflineEntry :
                 /\ \A j \in OfflineEntry : i <= j
                 /\ adequate_cash_in_account' = (en_input.low <= cache[i].low)
    /\ UNCHANGED <<en_input, encrypter, allocating, adequate_cash_in_atm, user_is_admin,
                   response, cash, cache, cache_update_count, chanAddr_is_0>>

\* The first clock of Dispensing without the host; the balance of the reply is
\* not looked at.
ServeOffline ==
    /\ system_state = "Offline"
    /\ system_state' = "Dispensing"
    /\ cash' = IF Pays THEN cash - en_input.low ELSE cash
    /\ cache' = IF Pays THEN CacheIfPaid(0) ELSE CacheIfRefused(0)
    /\ UNCHANGED <<en_input, encrypter, allocating, adequate_cash_in_atm,
                   adequate_cash_in_account, user_is_admin, response, cache_mode,
                   cache_update_count, chanAddr_is_0>>

\* The notes have all been handed out, or the blinks of a refusal are over.
HandedOut ==
    /\ system_state = "Dispensing"
    /\ system_state' = "Dummy"
    /\ UNCHANGED <<en_input, encrypter, allocating, adequate_cash_in_atm,
                   adequate_cash_in_account, user_is_admin, response, cash, cache, cache_mode,
                   cache_update_count, chanAddr_is_0>>

\* Done is pressed, or the blinks that say that the customer is not cached end,
\* and Ready clears what was left of the service.
EndService ==
    /\ Ending
    /\ system_state' = "Ready" /\ Cleared
    /\ UNCHANGED <<en_input, en_output, cash, cache, cache_mode, cache_update_count,
                   chanAddr_is_0>>

\* The reset button, in any state: the transaction and the units are cleared, the
\* cache, its mode and the notes are not.  While it is held a change of the
\* channel address to 0 passes unseen.
PressReset(to0) ==
    /\ system_state' = "Ready" /\ Cleared
    /\ en_output' = Garbled /\ cache_update_count' = 0
    /\ chanAddr_is_0' = (chanAddr_is_0 \/ to0)
    /\ UNCHANGED <<en_input, cash, cache, cache_mode>>

\* Mutant of NextEntry: the encrypter is not started for the entry.
NextEntryUnstarted ==
    /\ system_state = "CommRegained"
    /\ encryption_over \/ cache_update_count = CacheSize
    /\ en_input' = cache[1]
    /\ IF cache_update_count = CacheSize
       THEN /\ system_state' = "Ready" /\ Cleared /\ cache_mode' = FALSE
            /\ cache_update_count' = 0
       ELSE /\ system_state' = "SyncCache" /\ encryption_over' = FALSE
            /\ response' = NoBytes
            /\ UNCHANGED <<allocating, adequate_cash_in_atm, adequate_cash_in_account,
                           user_is_admin, cache_mode, cache_update_count>>
    /\ UNCHANGED <<en_output, cash, cache, chanAddr_is_0>>

\* The first entry is encrypted, or the round is over.  What SyncCache offers is
\* the block before if encryption_over was still high.
NextEntry ==
    /\ system_state = "CommRegained"
    /\ en_input' = cache[1]
    /\ IF cache_update_count = CacheSize
       THEN /\ system_state' = "Ready" /\ Cleared /\ cache_mode' = FALSE
            /\ cache_update_count' = 0
            /\ UNCHANGED en_output
       ELSE /\ system_state' = "SyncCache" /\ encryption_over' = FALSE
            /\ en_output' = IF encryption_over THEN en_output ELSE Seal(cache[1])
            /\ response' = NoBytes
            /\ UNCHANGED <<allocating, adequate_cash_in_atm, adequate_cash_in_account,
                           user_is_admin, cache_mode, cache_update_count>>
    /\ UNCHANGED <<cash, cache, chanAddr_is_0>>

\* The reply becomes the balance of the entry that was sent.
UpdateEntry ==
    /\ system_state = "UpdateCache"
    /\ \E w \in Opens(Assemble(response)) : cache' = Rotate(cache, w.low)
    /\ cache_update_count' = cache_update_count + 1
    /\ system_state' = "CommRegained"
    /\ UNCHANGED <<en_input, encrypter, allocating, adequate_cash_in_atm,
                   adequate_cash_in_account, user_is_admin, response, cash, cache_mode,
                   chanAddr_is_0>>
=============================================================================
