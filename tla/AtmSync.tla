------------------------------- MODULE AtmSync -------------------------------
(***************************************************************************)
(* The synchronisation round of AtmController after offline services, with *)
(* a history variable: the cache as it was when the round began.           *)
(***************************************************************************)
EXTENDS AtmController

VARIABLE before     \* the cache at the start of the round; empty outside rounds

allVars == <<vars, before>>

InRound(state) == state \in {"CommRegained", "SyncCache", "UpdateCache"}

SyncInit == Init /\ before = EmptyCache

Record == before' = IF ~InRound(system_state') THEN EmptyCache
                    ELSE IF ~InRound(system_state) THEN cache
                    ELSE before

SyncNext == Next /\ Record

SyncSpec == SyncInit /\ [][SyncNext]_allVars /\ WF_allVars(Tick /\ Record)

\* Where the entry sent at this point of the round was when it began.
Origin(count) == IF count = 0 THEN 1 ELSE CacheSize + 1 - count

\* atm_top_level.vhd:1122-1137: the round asks the backend about every customer
\* of the cache once, in spite of the entries moving under it.
AsksEachOnce ==
    system_state = "SyncCache" =>
        High(en_input) = High(before[Origin(cache_update_count)])

\* atm_top_level.vhd:1198-1206: "Update with circular rotation of entries so that
\* after a complete round everything is in place".
RoundRestoresPlaces ==
    [][(system_state = "CommRegained" /\ cache_update_count = CacheSize) =>
          \A i \in 1..CacheSize : High(cache[i]) = High(before[i])]_allVars

\* atm_top_level.vhd:1146-1207: the balance the backend replied with is filed
\* under the card it was asked about, and no other customer's balance changes.
ReplyFiledUnderCard ==
    [][(system_state = "UpdateCache" /\ cache' # cache) =>
          \A i \in 1..CacheSize : cache'[i].uid # 0 => \E j \in 1..CacheSize :
              /\ High(cache'[i]) = High(cache[j])
              /\ cache'[i].low = IF High(cache'[i]) = High(en_input) THEN de_output.low
                                 ELSE cache[j].low]_allVars

=============================================================================
