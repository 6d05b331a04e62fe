------------------------------ MODULE AtmSystem ------------------------------
(***************************************************************************)
(* The bank's program (BankHost) and the machine (AtmService) over the       *)
(* channels, with customers who press buttons when they like, a host that    *)
(* may stop at any step and be started again, a machine that may be reset,   *)
(* and services that time out.  Each access of the host to a channel is one  *)
(* step of both.                                                             *)
(* `odd' records each mishap that the accounts do not survive, with the      *)
(* customer whose account it may spoil; every other account must be right.   *)
(***************************************************************************)
EXTENDS BankHost, AtmService, FiniteSets

CONSTANTS Requests,      \* words that customers enter
          FirstCash,     \* worth of the notes at the start
          MaxServices, MaxUpsets    \* bounds

ASSUME SystemAssumption == ReplyBytes = WordBytes

\* The words that registers and channels can hold.
Words == [uid : Nat, pin : 0 .. PinRange - 1, low : 0 .. HalfRange - 1]

\* The file as it is kept: one record of a user, none of user 0, whose card an
\* empty entry of the cache would pass for, and balances that an int holds.
ASSUME AccountsAssumption ==
    /\ Accounts \in Seq([uid : Nat \ {0}, hash : Nat, admin : BOOLEAN, bal : Nat])
    /\ \A i, j \in DOMAIN Accounts : Accounts[i].uid = Accounts[j].uid => i = j
    /\ \A i \in DOMAIN Accounts : 2 * Accounts[i].bal < HalfRange

\* The notes that fill the machine are worth less than half of what a word holds
\* (4 * 255 notes); what administrators enter are such notes.
ASSUME EntryAssumption ==
    /\ FirstCash \in Nat /\ 2 * FirstCash < HalfRange
    /\ Requests \subseteq Words
    /\ \A w \in Requests : \A i \in DOMAIN Accounts :
          Accounts[i].uid = w.uid /\ Accounts[i].admin => 2 * w.low < HalfRange

\* Deciphering a block that nobody sealed names no user of the bank.
ASSUME GarbledAssumption ==
    /\ GarbledWords \subseteq Words
    /\ \A w \in GarbledWords : \A i \in DOMAIN Accounts : w.uid # Accounts[i].uid

VARIABLES paid,          \* what each account was paid in cash
          service,       \* services so far
          serves,        \* the service whose request the bank read last
          upsets,        \* time-outs, crashes and resets so far
          odd,           \* mishaps: pairs of what happened and a user id
          seen           \* whether the host has made an access since the last request

ghosts == <<paid, service, serves, upsets, odd>>
vars == <<bankVars, atmVars, ghosts, seen>>

Users == {Accounts[i].uid : i \in DOMAIN Accounts}

Init ==
    /\ BankInit /\ AtmInit(FirstCash)
    /\ paid = [u \in Users |-> 0]
    /\ service = 0 /\ serves = 0 /\ upsets = 0 /\ odd = {} /\ seen = FALSE

-----------------------------------------------------------------------------
(* The host's accesses, each with what the machine makes of it.             *)

Upset == upsets < MaxUpsets /\ upsets' = upsets + 1

\* The host sleeps a second before each access (flSleep); what the machine has
\* begun before the last one, a search or an encryption, is over by then.
Settled == ~allocating /\ system_state \notin {"CommRegained", "UpdateCache"}
Paced   == (seen => Settled) /\ seen' = TRUE

\* The marks that a step leaves: what happened, and the customers it happened to.
Mishaps == {"hasty", "stale", "late", "mistaken", "credited", "crossed", "torn", "stuck",
            "unpaid", "cut"}
Marks(happens, kind, uids) == IF happens THEN {<<kind, u>> : u \in uids} ELSE {}

\* The code is confirmed for a request whose notes are still searched for.
Hasty == Marks(bank' = "read" /\ allocating, "hasty", {en_input.uid})

\* A synchronisation starts with the block of the request before: the customer of
\* that request is debited what the amount misses, and the first entry gets the
\* balance that comes back.
Restale == Marks(encryption_over /\ Syncing', "stale", {en_input.uid, cache[1].uid})

Asks ==
    /\ Paced
    /\ \E code \in {0, 1, 2, 3, 5} :
         /\ ReadCode(code) \/ ReadCodeAtEnd(code)
         /\ Poll(code) \/ Confirm(code)
    /\ serves' = IF bank' = "read" THEN service ELSE serves
    /\ odd' = odd \cup Hasty \cup Restale
    /\ UNCHANGED <<paid, service, upsets>>

\* The machine has another request on than the one whose code was confirmed.
Strays == system_state = "Communicating" /\ serves # service

\* Its block is read: for another, or as an entry of the cache.
Mistaken ==
    Marks(Strays, IF valRead = 5 THEN "mistaken" ELSE "late", {en_input.uid})

\* An amount of 2^31 or more is negative as an int: its withdrawal is a deposit.
Credited ==
    Marks(reply'.line # NoChange /\ valRead # 5 /\ reply'.bal > db[reply'.line].bal,
          "credited", {db[reply'.line].uid})

Reads ==
    /\ Paced
    /\ ReadRequest(OnChannels) /\ ReadByte
    /\ odd' = odd \cup Mistaken \cup Credited
    /\ UNCHANGED <<paid, service, serves, upsets>>

SetsUp == Paced /\ WriteSetup /\ TakeSetup(byteNo = WordBytes) /\ UNCHANGED ghosts

\* What is written while the machine strays reaches another than it answers.
Writes ==
    /\ Paced
    /\ \/ WriteStatus /\ TakeStatus(reply.status)
       \/ WriteReply /\ TakeByte(byteNo, reply.block)
    /\ odd' = odd \cup Marks(Strays, "crossed", {en_input.uid})
    /\ UNCHANGED <<paid, service, serves, upsets>>

Saves == (Debit \/ Rewrite) /\ UNCHANGED <<atmVars, ghosts, seen>>

\* A crash after the reply and before the file is whole loses the debit.
Stops ==
    /\ Upset
    /\ Crash
    /\ odd' = odd \cup Marks(bank \in {"save", "rewrite"}, "torn", {Accounts[reply.line].uid})
    /\ UNCHANGED <<atmVars, paid, service, serves, seen>>

Starts == Start /\ UNCHANGED <<atmVars, ghosts, seen>>

-----------------------------------------------------------------------------
(* The machine and its customers.                                           *)

Enters ==
    /\ service < MaxServices
    /\ \/ PressStart /\ UNCHANGED <<service, seen>>
       \/ \E w \in Requests : Submit(w) /\ service' = service + 1 /\ seen' = FALSE
    /\ UNCHANGED <<bankVars, paid, serves, upsets, odd>>

\* What is about to be handed out counts as paid.
Pay == IF Pays /\ en_input.uid \in Users
       THEN paid' = [paid EXCEPT ![en_input.uid] = @ + en_input.low] ELSE UNCHANGED paid

\* A service that the bank has answered; in cache mode the bank and the cache both
\* take the amount, and a refusal takes the balance of the last entry.
ServesReply ==
    /\ ServeReply
    /\ IF user_is_admin THEN UNCHANGED paid ELSE Pay
    /\ odd' = odd \cup Marks(cache_mode /\ ~user_is_admin, "stuck",
                             {en_input.uid, cache[CacheSize].uid})
    /\ UNCHANGED <<bankVars, service, serves, upsets, seen>>

ServesOffline ==
    /\ ServeOffline /\ Pay
    /\ UNCHANGED <<bankVars, service, serves, upsets, odd, seen>>

\* The bank is at work on this very request when the machine gives it up.
Races == serves = service /\ bank \in {"read", "status", "reply", "save", "rewrite"}
Late == Marks(system_state = "Communicating" /\ Races, "late", {en_input.uid})

GivesUp ==
    /\ Upset
    /\ TimeOut
    /\ odd' = odd \cup Late
    /\ UNCHANGED <<bankVars, paid, service, serves, seen>>

\* A reset between the bank's answer and the pay-out, or while the notes are handed
\* out, leaves the customer without what was debited.
PaysUser == Pays /\ ~user_is_admin /\ en_input.uid \in Users
Unpaid == Marks((system_state = "Decrypt" /\ PaysUser) \/ paid' # paid,
                "unpaid", {en_input.uid})
HandsOutLess ==
    IF system_state = "Dispensing" /\ Pays /\ en_input.uid \in Users
    THEN \E kept \in 0 .. en_input.low : paid' = [paid EXCEPT ![en_input.uid] = @ - kept]
    ELSE UNCHANGED paid

\* A reset before the round is over leaves payments that are never reported.
Cut == Marks(Syncing /\ cache_update_count < CacheSize,
             "cut", {cache[j].uid : j \in 1 .. CacheSize})

\* A change of the channel address that the held button hides is a look for work.
Resets ==
    /\ Upset
    /\ \E to0 \in BOOLEAN : PressReset(to0) /\ (to0 => bank = "poll")
    /\ HandsOutLess
    /\ odd' = odd \cup Late \cup Unpaid \cup Cut
    /\ UNCHANGED <<bankVars, service, serves, seen>>

Works == (Allocated \/ HandedOut \/ EndService \/ NextEntry \/ UpdateEntry)
         /\ UNCHANGED <<bankVars, ghosts, seen>>

HostStep == Asks \/ Reads \/ SetsUp \/ Writes \/ Saves
AtmStep  == ServesReply \/ ServesOffline \/ Works

Next == HostStep \/ AtmStep \/ Stops \/ Starts \/ Enters \/ GivesUp \/ Resets

\* The program goes on while it runs, and the machine's clock does not stop.
Spec == Init /\ [][Next]_vars /\ WF_vars(HostStep) /\ WF_vars(AtmStep)

-----------------------------------------------------------------------------
(* Properties.                                                              *)

BankStates == {"down", "setup", "poll", "confirm", "read", "status", "reply", "save", "rewrite"}

\* Every variable is in the range of its type.
TypeOK ==
    /\ bank \in BankStates /\ cnt \in 0 .. 3 /\ byteNo \in 1 .. WordBytes + 1
    /\ valRead \in {0, 1, 2, 5} /\ Len(request) <= WordBytes
    /\ reply.status \in 0 .. 4 /\ reply.line \in 0 .. Len(Accounts)
    /\ cash \in 0 .. HalfRange - 1
    /\ \A i \in 1 .. CacheSize : cache[i].low \in 0 .. HalfRange - 1
    /\ cache_update_count \in 0 .. CacheSize

\* The bank waits, the machine is ready, and its cache has been reported.
Quiet == bank = "poll" /\ system_state = "Ready" /\ ~cache_mode

DebitedFrom(i) == Accounts[i].bal - db[i].bal

\* What has happened to a user, of all mishaps.
MishapsOf(u) == {what \in Mishaps : <<what, u>> \in odd}

\* main.c:478, atm_top_level.vhd:1200: when all is quiet, every account that no
\* mishap has touched has lost what it was paid, online or not, and what the
\* machine keeps of its customer is what the bank would let them spend, whatever
\* has happened to others.
BooksBalance ==
    Quiet =>
        \A i \in DOMAIN db : MishapsOf(db[i].uid) = {} =>
            /\ DebitedFrom(i) = paid[db[i].uid]
            /\ \A j \in 1 .. CacheSize :
                 cache[j].uid = db[i].uid => cache[j].low = Spendable(db[i].bal)

\* Mishaps that may leave a customer debited and not paid, not the other way round.
Unserved == {"late", "unpaid"}

\* main.c:479: a withdrawal that is paid from the cache because the bank's reply
\* came too late, or that the machine is reset in, is never paid without a debit,
\* whatever is debited twice or for nothing.
NeverUnderDebited ==
    Quiet =>
        \A i \in DOMAIN db : MishapsOf(db[i].uid) \subseteq Unserved =>
            DebitedFrom(i) >= paid[db[i].uid]

\* main.c:481: the bank looks at no request, and dies in no loop, with a
\* balance in memory that is not in the file; a restart finds all of them.
SavedBeforePolling ==
    bank \in {"poll", "confirm", "read", "status", "reply"} => file = db

\* atm_top_level.vhd:1147: a synchronisation ends, or the bank has stopped.
SyncEnds == Syncing ~> (~Syncing \/ bank = "down")

\* atm_top_level.vhd:373, "Check chanAddr change to signify the signal is back
\* up": with the bank running the cache mode ends.
CacheModeEnds == (cache_mode /\ bank # "down") ~> (~cache_mode \/ bank = "down")
=============================================================================
