--------------------------- MODULE AtmSystemProofs ---------------------------
(***************************************************************************)
(* Proofs about AtmSystem, for every file of accounts, every set of requests *)
(* and of garbled words, every size of words, PINs and cache, and any number *)
(* of services, resets, time-outs and crashes.                              *)
(*                                                                         *)
(* The accounts rest on one inductive invariant, IInv.  CoordInv says where  *)
(* the program and the machine are in their common protocol: who may be in   *)
(* the cache (OfflineInv), what a synchronisation has shown and asked        *)
(* (RoundInv, EntryInv), and what a service has (ServeInv).  AccountInv is   *)
(* about one account, so that it survives whatever befalls the others: what  *)
(* has been decided, asked, reported and answered of it is its own, and what *)
(* the bank has booked is what its customer has left, from above (UnderOf)   *)
(* and, when nothing at all has befallen it, from below (OverOf), but for    *)
(* what is still to be reported or paid.                                    *)
(***************************************************************************)
EXTENDS AtmSystem, NaturalsInduction, WellFoundedInduction, SequenceTheorems, TLAPS

\* The sets that the variables range over.
Places == 1 .. CacheSize
Lines == 1 .. Len(Accounts)
Blocks == {Garbled} \cup [sealed : Words]
Bytes == [1 .. WordBytes -> Blocks \cup {NoByte}]
Caches == [Places -> Words]
Replies == [status : 0 .. 4, block : Blocks, line : 0 .. Len(Accounts), bal : Int]
Records == [uid : Nat \ {0}, hash : Nat, admin : BOOLEAN, bal : Int]

-----------------------------------------------------------------------------
(* Words, blocks and the cache.                                             *)

\* A half word has values.
LEMMA HalfRangeType == HalfRange \in Nat \ {0}
  <1>1. ByteRange * ByteRange \in Nat \ {0}
    BY ByteRangeAssumption
  <1>2. ByteRange * ByteRange * ByteRange \in Nat \ {0}
    BY <1>1, ByteRangeAssumption
  <1> QED BY <1>2, ByteRangeAssumption DEF HalfRange

\* A word with a low half alone, as the bank answers with.
LEMMA PlainWord ==
    ASSUME NEW low \in 0 .. HalfRange - 1
    PROVE  Word(0, 0, low) \in Words /\ Word(0, 0, low).low = low
  BY FieldAssumption, HalfRangeType DEF Word, Words

\* The fields of a word.
LEMMA WordType ==
    ASSUME NEW w \in Words
    PROVE  w.uid \in Nat /\ w.pin \in 0 .. PinRange - 1 /\ w.low \in 0 .. HalfRange - 1 /\ w.low \in Nat
  BY HalfRangeType DEF Words

\* An empty entry of the cache is a word, of user 0.
LEMMA ZeroWordType == ZeroWord \in Words /\ ZeroWord.uid = 0 /\ ZeroWord.low = 0
  BY FieldAssumption, HalfRangeType DEF ZeroWord, Word, Words

\* A word keeps its card when its low half is written.
LEMMA Rebalanced ==
    ASSUME NEW w \in Words, NEW b \in 0 .. HalfRange - 1
    PROVE  LET v == [w EXCEPT !.low = b]
           IN  v \in Words /\ v.uid = w.uid /\ v.pin = w.pin /\ v.low = b
  BY DEF Words

\* A block is never taken for the lack of one, and opens to the word in it.
LEMMA BlockType ==
    /\ Garbled \in Blocks /\ NoByte \notin Blocks
    /\ \A w \in Words : Seal(w) \in Blocks /\ Seal(w) # Garbled /\ Opens(Seal(w)) = {w}
    /\ \A b \in Blocks : Opens(b) \subseteq Words
  <1>1. \A w : Seal(w) # Garbled /\ Seal(w) # NoByte
    BY DEF Seal, Garbled, NoByte
  <1>2. Garbled # NoByte
    BY DEF NoByte, Garbled
  <1>3. \A b \in [sealed : Words] : b = Seal(b.sealed) /\ b.sealed \in Words
    BY DEF Seal
  <1>4. NoByte \notin Blocks
    BY <1>1, <1>2, <1>3 DEF Blocks
  <1>5. \A w \in Words : Seal(w) \in Blocks /\ Opens(Seal(w)) = {w}
    BY <1>1 DEF Blocks, Seal, Opens
  <1>6. \A b \in Blocks : Opens(b) \subseteq Words
    BY <1>3, GarbledAssumption DEF Blocks, Opens
  <1> QED BY <1>1, <1>4, <1>5, <1>6 DEF Blocks

\* Bytes of one block make that block, and bytes of any blocks a block.
LEMMA AssembleType ==
    ASSUME NEW n \in Nat \ {0}, NEW bytes, DOMAIN bytes = 1 .. n,
           \A k \in 1 .. n : bytes[k] \in Blocks
    PROVE  /\ Assemble(bytes) \in Blocks
           /\ Assemble(bytes) \in {Garbled, bytes[1]}
           /\ \A b : (\A k \in 1 .. n : bytes[k] = b) => Assemble(bytes) = b
  BY DEF Assemble, Blocks

\* A set of naturals that is not empty has a least member.
LEMMA Least ==
    ASSUME NEW T, T \subseteq Nat, T # {}
    PROVE  \E x \in T : \A y \in T : x <= y
  <1> DEFINE below == OpToRel(<, Nat)
  <1>1. IsWellFoundedOn(below, Nat)
    BY NatLessThanWellFounded
  <1>2. \A x, y \in Nat : y < x => <<y, x>> \in below
    BY DEF OpToRel
  <1> HIDE DEF below
  <1>3. PICK x \in T : \A y \in T : <<y, x>> \notin below
    BY <1>1, WFMin
  <1>4. \A y \in T : ~(y < x)
    BY <1>2, <1>3
  <1>5. \A y \in T : y \in Nat /\ x \in Nat
    BY <1>3
  <1> QED
    BY <1>4, <1>5

\* The place that is looked for: the first hit, or the last entry of all.
LEMMA EntryOfType ==
    ASSUME NEW c, NEW uid, NEW n \in Places
    PROVE  LET p == EntryOf(c, uid, n)
           IN  /\ p \in Places
               /\ \/ p <= n /\ c[p].uid = uid
                  \/ p = CacheSize /\ \A i \in 1 .. n : c[i].uid # uid
  <1> DEFINE hits == {i \in 1 .. n : c[i].uid = uid}
  <1>0. CacheSize \in Nat \ {0, 1} /\ n \in Nat
    BY CacheSizeAssumption DEF Places
  <1>1. CASE hits = {}
    BY <1>0, <1>1 DEF EntryOf, Places
  <1>2. CASE hits # {}
    <2>1. EntryOf(c, uid, n) = CHOOSE i \in hits : \A j \in hits : i <= j
      BY <1>2 DEF EntryOf
    <2>2. \E i \in hits : \A j \in hits : i <= j
      <3>1. hits \subseteq Nat
        OBVIOUS
      <3> HIDE DEF hits
      <3> QED BY <1>2, <3>1, Least
    <2>3. EntryOf(c, uid, n) \in hits
      <3> HIDE DEF hits
      <3> QED BY <2>1, <2>2
    <2> QED BY <1>0, <2>3 DEF Places
  <1> QED BY <1>1, <1>2

\* The entries of a cache in which w was moved to the front over place p.
LEMMA MovedEntries ==
    ASSUME NEW c \in Caches, NEW p \in Places, NEW w \in Words
    PROVE  LET d == MoveToFront(c, p, w)
           IN  /\ d \in Caches /\ d[1] = w
               /\ \A k \in Places : k # 1 => \E j \in Places \ {p} : d[k] = c[j]
               /\ \A j \in Places \ {p} : \E k \in Places \ {1} : d[k] = c[j]
               /\ \A k, l \in Places : k # 1 /\ l # 1 /\ k # l =>
                     \E i, j \in Places \ {p} : i # j /\ d[k] = c[i] /\ d[l] = c[j]
  <1> DEFINE d == MoveToFront(c, p, w)
             from(k) == IF k <= p THEN k - 1 ELSE k
  <1>0. CacheSize \in Nat \ {0, 1}
    BY CacheSizeAssumption
  <1>1. d \in Caches /\ d[1] = w
    BY <1>0 DEF MoveToFront, Caches, Places
  <1>2. \A k \in Places : k # 1 => from(k) \in Places \ {p} /\ d[k] = c[from(k)]
    BY <1>0 DEF MoveToFront, Places
  <1>3. \A k, l \in Places : k # 1 /\ l # 1 /\ k # l => from(k) # from(l)
    BY <1>0 DEF Places
  <1>4. \A j \in Places \ {p} : \E k \in Places \ {1} : from(k) = j
    <2> TAKE j \in Places \ {p}
    <2>1. CASE j < p
      <3>1. j + 1 \in Places \ {1} /\ from(j + 1) = j
        BY <1>0, <2>1 DEF Places
      <3> QED BY <3>1
    <2>2. CASE j > p
      <3>1. j \in Places \ {1} /\ from(j) = j
        BY <1>0, <2>2 DEF Places
      <3> QED BY <3>1
    <2> QED BY <2>1, <2>2, <1>0 DEF Places
  <1> HIDE DEF from, d
  <1>5. \A j \in Places \ {p} : \E k \in Places \ {1} : d[k] = c[j]
    BY <1>2, <1>4
  <1>6. \A k, l \in Places : k # 1 /\ l # 1 /\ k # l =>
                     \E i, j \in Places \ {p} : i # j /\ d[k] = c[i] /\ d[l] = c[j]
    BY <1>2, <1>3
  <1>7. \A k \in Places : k # 1 => \E j \in Places \ {p} : d[k] = c[j]
    BY <1>2
  <1> QED BY <1>1, <1>5, <1>6, <1>7 DEF d

\* The entries of a cache after a step of the round: place 2 holds the first
\* entry with its new balance, every other place the entry from one place above.
RotatedFrom(k) == IF k = 1 THEN CacheSize ELSE k - 1

\* Each place of the cache goes to one place in a step of the round.
LEMMA RotatedPlaces ==
    /\ \A k \in Places : RotatedFrom(k) \in Places /\ (k # 2 => RotatedFrom(k) # 1)
    /\ \A k, l \in Places : k # l => RotatedFrom(k) # RotatedFrom(l)
    /\ \A j \in Places : \E k \in Places : RotatedFrom(k) = j
    /\ RotatedFrom(2) = 1 /\ 1 \in Places /\ 2 \in Places
  <1>0. CacheSize \in Nat \ {0, 1} /\ 1 \in Places /\ 2 \in Places
    BY CacheSizeAssumption DEF Places
  <1>1. \A k \in Places : RotatedFrom(k) \in Places /\ (k # 2 => RotatedFrom(k) # 1)
    BY <1>0 DEF RotatedFrom, Places
  <1>2. \A k, l \in Places : k # l => RotatedFrom(k) # RotatedFrom(l)
    BY <1>0 DEF RotatedFrom, Places
  <1>3. \A j \in Places : \E k \in Places : RotatedFrom(k) = j
    <2> TAKE j \in Places
    <2>1. CASE j = CacheSize
      <3>1. 1 \in Places /\ RotatedFrom(1) = j
        BY <1>0, <2>1 DEF RotatedFrom
      <3> QED BY <3>1
    <2>2. CASE j # CacheSize
      <3>1. j + 1 \in Places /\ RotatedFrom(j + 1) = j
        BY <1>0, <2>2 DEF RotatedFrom, Places
      <3> QED BY <3>1
    <2> QED BY <2>1, <2>2
  <1>4. RotatedFrom(2) = 1
    BY DEF RotatedFrom
  <1> QED BY <1>0, <1>1, <1>2, <1>3, <1>4

\* What each place holds after a step of the round.
LEMMA RotatedEntries ==
    ASSUME NEW c \in Caches, NEW b \in 0 .. HalfRange - 1
    PROVE  /\ Rotate(c, b) \in Caches
           /\ Rotate(c, b)[2] = [c[1] EXCEPT !.low = b]
           /\ \A k \in Places : k # 2 => Rotate(c, b)[k] = c[RotatedFrom(k)]
           /\ \A k \in Places : /\ Rotate(c, b)[k].uid = c[RotatedFrom(k)].uid
                                 /\ Rotate(c, b)[k].pin = c[RotatedFrom(k)].pin
  <1>0. CacheSize \in Nat \ {0, 1} /\ 1 \in Places /\ 2 \in Places
    BY CacheSizeAssumption DEF Places
  <1>1. c[1] \in Words /\ [c[1] EXCEPT !.low = b] \in Words
    BY <1>0, Rebalanced DEF Caches
  <1>2. Rotate(c, b) \in Caches
    BY <1>0, <1>1 DEF Rotate, Caches, Places
  <1>3. Rotate(c, b)[2] = [c[1] EXCEPT !.low = b]
    BY <1>0 DEF Rotate, Places
  <1>4. \A k \in Places : k # 2 => Rotate(c, b)[k] = c[RotatedFrom(k)]
    BY <1>0 DEF Rotate, Places, RotatedFrom
  <1>5. [c[1] EXCEPT !.low = b].uid = c[1].uid /\ [c[1] EXCEPT !.low = b].pin = c[1].pin
    BY <1>1, Rebalanced
  <1>6. ASSUME NEW k \in Places
        PROVE  /\ Rotate(c, b)[k].uid = c[RotatedFrom(k)].uid
               /\ Rotate(c, b)[k].pin = c[RotatedFrom(k)].pin
    <2>1. CASE k = 2
      BY <1>3, <1>5, <2>1, RotatedPlaces
    <2>2. CASE k # 2
      BY <1>4, <2>2
    <2> QED BY <2>1, <2>2
  <1> QED BY <1>2, <1>3, <1>4, <1>6

-----------------------------------------------------------------------------
(* The arithmetic of the bank.                                              *)

\* Dropping what is behind the point takes less than a unit, towards zero.
LEMMA TruncatedOf ==
    ASSUME NEW x \in Int
    PROVE  LET q == Truncated(x)
           IN  /\ q \in Int
               /\ x >= 0 => 5 * q <= x /\ x <= 5 * q + 4
               /\ x < 0 => x <= 5 * q /\ 5 * q <= x + 4
  <1>1. CASE x >= 0
    BY <1>1 DEF Truncated
  <1>2. CASE x < 0
    <2>1. -x \in Nat /\ Truncated(x) = -((-x) \div 5)
      BY <1>2 DEF Truncated
    <2> QED BY <1>2, <2>1
  <1> QED BY <1>1, <1>2

\* What may be spent fits the low half of a word.
LEMMA SpendableType ==
    ASSUME NEW b \in Int
    PROVE  Spendable(b) \in 0 .. HalfRange - 1
  <1>1. Truncated(4 * b) \in Int
    BY TruncatedOf
  <1> QED BY <1>1, HalfRangeType DEF Spendable

\* What a customer may spend is the integer part of four fifths.
LEMMA SpendableOf ==
    ASSUME NEW b \in Nat, 2 * b < HalfRange
    PROVE  LET s == Spendable(b)
           IN  s \in 0 .. HalfRange - 1 /\ 5 * s <= 4 * b /\ 4 * b <= 5 * s + 4
  <1> DEFINE q == Truncated(4 * b)
  <1>1. q \in Int /\ 5 * q <= 4 * b /\ 4 * b <= 5 * q + 4
    BY TruncatedOf
  <1> HIDE DEF q
  <1>2. q \in 0 .. HalfRange - 1
    BY <1>1, HalfRangeType
  <1>3. q % HalfRange = q
    BY <1>2, HalfRangeType
  <1> QED BY <1>1, <1>2, <1>3 DEF Spendable, q

\* An entry of the cache that holds `low' makes the bank's balance e one that is
\* never below zero, and neither above nor below what is left to the customer
\* when the entry was not.
LEMMA Reconciled ==
    ASSUME NEW e \in Nat, NEW low \in Nat, NEW left \in Int, e + 5 * low <= 5 * left
    PROVE  LET f == e - Truncated(4 * e - 5 * low)
           IN  /\ f \in Nat /\ f <= left
               /\ left <= e /\ 5 * left <= e + 5 * low + 4 => left <= f
  <1> DEFINE x == 4 * e - 5 * low
             q == Truncated(x)
  <1>1. x \in Int
    OBVIOUS
  <1>2. /\ q \in Int
        /\ x >= 0 => 5 * q <= x /\ x <= 5 * q + 4
        /\ x < 0 => x <= 5 * q /\ 5 * q <= x + 4
    BY <1>1, TruncatedOf
  <1> DEFINE f == e - q
  <1> HIDE DEF q
  <1> SUFFICES /\ f \in Nat /\ f <= left
               /\ left <= e /\ 5 * left <= e + 5 * low + 4 => left <= f
    BY DEF q
  <1>3. CASE x >= 0
    BY <1>2, <1>3
  <1>4. CASE x < 0
    BY <1>2, <1>4
  <1> QED BY <1>1, <1>3, <1>4

\* The lower half of the values of a half word are ints unchanged.
LEMMA AsIntOf ==
    ASSUME NEW low \in 0 .. HalfRange - 1
    PROVE  AsInt(low) \in Int /\ (2 * low < HalfRange => AsInt(low) = low)
  BY HalfRangeType DEF AsInt

-----------------------------------------------------------------------------
(* The records, and what is made of a request.                              *)

\* Records of the file, or the first of them: only the balances have changed.
Kept(records) ==
    /\ records \in Seq(Records) /\ Len(records) <= Len(Accounts)
    /\ \A i \in 1 .. Len(records) :
          /\ records[i].uid = Accounts[i].uid /\ records[i].hash = Accounts[i].hash
          /\ records[i].admin = Accounts[i].admin

\* The records of the file at the start.
LEMMA AccountType ==
    /\ Len(Accounts) \in Nat /\ DOMAIN Accounts = Lines
    /\ \A i \in Lines :
          /\ Accounts[i].uid \in Nat \ {0} /\ Accounts[i].hash \in Nat
          /\ Accounts[i].admin \in BOOLEAN /\ Accounts[i].bal \in Nat
          /\ 2 * Accounts[i].bal < HalfRange /\ Accounts[i].uid \in Users
    /\ \A i, j \in Lines : Accounts[i].uid = Accounts[j].uid => i = j
    /\ \A u \in Users : \E i \in Lines : u = Accounts[i].uid
    /\ 0 \notin Users
  <1>1. Len(Accounts) \in Nat /\ DOMAIN Accounts = Lines
    BY AccountsAssumption DEF Lines
  <1> DEFINE S == [uid : Nat \ {0}, hash : Nat, admin : BOOLEAN, bal : Nat]
  <1>2. \A i \in Lines : Accounts[i] \in S
    <2>1. Accounts \in Seq(S)
      BY AccountsAssumption
    <2> HIDE DEF S
    <2> QED BY <2>1 DEF Lines
  <1>3. /\ \A i, j \in Lines : Accounts[i].uid = Accounts[j].uid => i = j
        /\ \A i \in Lines : 2 * Accounts[i].bal < HalfRange
    BY <1>1, AccountsAssumption
  <1>4. Users = {Accounts[i].uid : i \in Lines}
    BY <1>1 DEF Users
  <1>5. 0 \notin Users
    BY <1>2, <1>4
  <1>6. \A i \in Lines :
          /\ Accounts[i].uid \in Nat \ {0} /\ Accounts[i].hash \in Nat
          /\ Accounts[i].admin \in BOOLEAN /\ Accounts[i].bal \in Nat
    BY <1>2
  <1>7. \A i \in Lines : Accounts[i].uid \in Users
    BY <1>4
  <1>8. \A u \in Users : \E i \in Lines : u = Accounts[i].uid
    BY <1>4
  <1> QED BY <1>1, <1>3, <1>5, <1>6, <1>7, <1>8

\* A record in memory or in the file is the account of that line.
LEMMA KeptRecord ==
    ASSUME NEW records, Kept(records), NEW i \in 1 .. Len(records)
    PROVE  /\ i \in Lines /\ records[i] \in Records
           /\ records[i].uid = Accounts[i].uid /\ records[i].hash = Accounts[i].hash
           /\ records[i].admin = Accounts[i].admin
           /\ records[i].bal \in Int /\ records[i].admin \in BOOLEAN
  <1>1. records[i] \in Records /\ Len(records) \in Nat
    BY DEF Kept
  <1>2. i \in Lines
    BY <1>1, AccountType DEF Kept, Lines
  <1> QED BY <1>1, <1>2 DEF Kept, Records

\* A search finds the one record of the user with that PIN, if there is one.
LEMMA FindType ==
    ASSUME Kept(db), NEW uid, NEW hash
    PROVE  LET l == find(uid, hash)
           IN  /\ l \in 0 .. Len(db) /\ l \in 0 .. Len(Accounts) /\ l \in Nat
               /\ l # 0 => l \in 1 .. Len(db) /\ Accounts[l].uid = uid /\ Accounts[l].hash = hash
               /\ \A i \in 1 .. Len(db) : Accounts[i].uid = uid /\ Accounts[i].hash = hash => l = i
  <1> DEFINE hits == {i \in DOMAIN db : db[i].uid = uid /\ db[i].hash = hash}
  <1>1. DOMAIN db = 1 .. Len(db) /\ Len(db) \in Nat /\ Len(db) <= Len(Accounts)
    BY DEF Kept
  <1>2. \A i \in hits : i \in 1 .. Len(db) /\ i \in Lines /\ Accounts[i].uid = uid /\ Accounts[i].hash = hash
    BY <1>1, KeptRecord
  <1>3. \A i \in 1 .. Len(db) : Accounts[i].uid = uid /\ Accounts[i].hash = hash => i \in hits
    BY <1>1, KeptRecord
  <1>4. \A i, j \in hits : i = j
    BY <1>2, AccountType
  <1>5. find(uid, hash) = IF hits = {} THEN 0 ELSE CHOOSE i \in hits : \A j \in hits : i <= j
    BY DEF find
  <1> HIDE DEF hits
  <1>6. CASE hits = {}
    BY <1>1, <1>3, <1>5, <1>6, AccountType
  <1>7. CASE hits # {}
    <2>1. PICK i \in hits : TRUE
      BY <1>7
    <2>2. \A j \in hits : i <= j
      BY <1>1, <1>2, <1>4, <2>1
    <2>3. find(uid, hash) \in hits
      BY <1>5, <1>7, <2>1, <2>2
    <2> QED BY <1>1, <1>2, <1>3, <1>4, <2>3, AccountType
  <1> QED BY <1>6, <1>7

\* What an answer holds.
LEMMA AnswerType ==
    ASSUME NEW status \in 0 .. 4, NEW low \in 0 .. HalfRange - 1
    PROVE  /\ Answer(status, low) \in Replies
           /\ Answer(status, low).status = status /\ Answer(status, low).line = 0
           /\ Answer(status, low).block = Seal(Word(0, 0, low))
  BY PlainWord, BlockType, AccountType DEF Answer, Replies, NoChange

\* What the bank makes of a request: an unknown card, an administrator, a
\* customer whose balance does not change, one whose balance is lowered.
LEMMA ServeRequestType ==
    ASSUME Kept(db), NEW w \in Words
    PROVE  LET l == find(w.uid, myHash(w.pin))
               r == ServeRequest(w)
           IN  /\ r \in Replies
               /\ l = 0 => r.status = 4 /\ r.line = 0
               /\ l # 0 /\ db[l].admin =>
                     r.status = 3 /\ r.line = 0 /\ r.block = Seal(Word(0, 0, w.low))
               /\ l # 0 /\ ~db[l].admin =>
                     \/ /\ r.line = 0 /\ r.status \in {1, 2} /\ (r.status = 1 => valRead # 1)
                        /\ r.block = Seal(Word(0, 0, Spendable(db[l].bal)))
                     \/ /\ r.line = l /\ r.status = 1 /\ valRead = 1
                        /\ r.bal = db[l].bal - AsInt(w.low)
                        /\ 5 * AsInt(w.low) <= 4 * db[l].bal
                        /\ r.block = Seal(Word(0, 0, Spendable(r.bal)))
  <1> DEFINE l == find(w.uid, myHash(w.pin))
             a == AsInt(w.low)
  <1>1. l \in 0 .. Len(db) /\ l \in 0 .. Len(Accounts) /\ (l # 0 => l \in 1 .. Len(db))
    BY FindType
  <1>2. a \in Int /\ w.low \in 0 .. HalfRange - 1
    BY AsIntOf, WordType
  <1> HIDE DEF l, a
  <1>3. CASE l = 0
    <2>0. 0 \in 0 .. HalfRange - 1
      BY HalfRangeType
    <2>1. ServeRequest(w) = [Answer(4, 0) EXCEPT !.block = Garbled]
      BY <1>3 DEF ServeRequest, l
    <2>2. Answer(4, 0) \in Replies /\ Answer(4, 0).status = 4 /\ Answer(4, 0).line = 0
      BY <2>0, AnswerType
    <2>3. ServeRequest(w) \in Replies /\ ServeRequest(w).status = 4 /\ ServeRequest(w).line = 0
      BY <2>1, <2>2, BlockType DEF Replies
    <2> QED BY <1>3, <2>3 DEF l
  <1>4. CASE l # 0 /\ db[l].admin
    <2>1. ServeRequest(w) = Answer(3, w.low)
      BY <1>4 DEF ServeRequest, l
    <2> QED BY <1>2, <1>4, <2>1, AnswerType DEF l
  <1>5. CASE l # 0 /\ ~db[l].admin
    <2> DEFINE bal == db[l].bal
    <2>1. bal \in Int
      BY <1>1, <1>5, KeptRecord
    <2>2. ServeRequest(w) = ServeCustomer(l, a)
      BY <1>5 DEF ServeRequest, l, a
    <2>3. Spendable(bal) \in 0 .. HalfRange - 1 /\ Spendable(bal - a) \in 0 .. HalfRange - 1
      BY <1>2, <2>1, SpendableType
    <2>4. CASE ~suffBalUser(bal, a)
      <3>1. ServeRequest(w) = Answer(2, Spendable(bal))
        BY <2>2, <2>4 DEF ServeCustomer
      <3> QED BY <1>5, <2>3, <3>1, AnswerType DEF l
    <2>5. CASE suffBalUser(bal, a) /\ valRead # 1
      <3>1. ServeRequest(w) = Answer(1, Spendable(bal))
        BY <2>2, <2>5 DEF ServeCustomer
      <3> QED BY <1>5, <2>3, <2>5, <3>1, AnswerType DEF l
    <2>6. CASE suffBalUser(bal, a) /\ valRead = 1
      <3> DEFINE r == ServeRequest(w)
                 s == Answer(1, Spendable(bal - a))
      <3>1. r = [s EXCEPT !.line = l, !.bal = bal - a]
        BY <2>2, <2>6 DEF ServeCustomer
      <3>2. s \in Replies /\ s.status = 1 /\ s.block = Seal(Word(0, 0, Spendable(bal - a)))
        BY <2>3, AnswerType
      <3>3. bal - a \in Int /\ 5 * a <= 4 * bal
        BY <1>2, <2>1, <2>6 DEF suffBalUser
      <3> HIDE DEF s, r
      <3>4. /\ r \in Replies /\ r.line = l /\ r.status = 1 /\ r.bal = bal - a
            /\ r.block = Seal(Word(0, 0, Spendable(bal - a)))
        BY <1>1, <3>1, <3>2, <3>3 DEF Replies
      <3> QED BY <1>5, <2>6, <3>3, <3>4 DEF l, a, r
    <2> QED BY <2>4, <2>5, <2>6
  <1> QED BY <1>3, <1>4, <1>5 DEF l

\* What the bank makes of an entry of the cache.
LEMMA ServeEntryType ==
    ASSUME Kept(db), NEW w \in Words
    PROVE  LET l == find(w.uid, myHash(w.pin))
               r == ServeCacheEntry(w)
           IN  /\ r \in Replies
               /\ l = 0 => r.line = 0 /\ r.block = Seal(Word(0, 0, 0))
               /\ l # 0 => /\ r.line = l
                           /\ r.bal = db[l].bal - Truncated(4 * db[l].bal - 5 * AsInt(w.low))
                           /\ r.block = Seal(Word(0, 0, Spendable(r.bal)))
  <1> DEFINE l == find(w.uid, myHash(w.pin))
             f == db[l].bal - Truncated(4 * db[l].bal - 5 * AsInt(w.low))
             r == ServeCacheEntry(w)
  <1>1. l \in 0 .. Len(db) /\ l \in 0 .. Len(Accounts) /\ (l # 0 => l \in 1 .. Len(db))
    BY FindType
  <1>2. AsInt(w.low) \in Int
    BY AsIntOf, WordType
  <1>3. r = IF l = 0 THEN Answer(0, 0) ELSE [Answer(0, Spendable(f)) EXCEPT !.line = l, !.bal = f]
    BY DEF ServeCacheEntry
  <1> HIDE DEF l, r
  <1>4. CASE l = 0
    <2>0. 0 \in 0 .. HalfRange - 1
      BY HalfRangeType
    <2>1. r \in Replies /\ r.line = 0 /\ r.block = Seal(Word(0, 0, 0))
      BY <1>3, <1>4, <2>0, AnswerType
    <2> QED BY <1>4, <2>1 DEF l, r
  <1>5. CASE l # 0
    <2>1. 4 * db[l].bal - 5 * AsInt(w.low) \in Int /\ db[l].bal \in Int
      BY <1>1, <1>2, <1>5, KeptRecord
    <2>2. f \in Int
      BY <2>1, TruncatedOf
    <2> DEFINE s == Answer(0, Spendable(f))
    <2>3. r = [s EXCEPT !.line = l, !.bal = f]
      BY <1>3, <1>5
    <2> HIDE DEF f
    <2>4. s \in Replies /\ s.block = Seal(Word(0, 0, Spendable(f)))
      BY <2>2, SpendableType, AnswerType
    <2> HIDE DEF s
    <2>5. r \in Replies /\ r.line = l /\ r.bal = f /\ r.block = Seal(Word(0, 0, Spendable(f)))
      BY <1>1, <2>2, <2>3, <2>4 DEF Replies
    <2> QED BY <1>5, <2>5 DEF l, r, f
  <1> QED BY <1>4, <1>5 DEF l

-----------------------------------------------------------------------------
(* The cache after a service.                                               *)

\* No user of the bank has two entries.
Unique(c) == \A j, k \in Places : j # k /\ c[j].uid = c[k].uid => c[j].uid \notin Users

\* The last place that a service looks at.
LastPlace(n) == n \in {CacheSize - 1, CacheSize}

\* The place for a user is theirs if they have one, and then their only one.
LEMMA PlaceType ==
    ASSUME NEW c, NEW uid, NEW n, LastPlace(n)
    PROVE  LET p == EntryOf(c, uid, n)
           IN  /\ p \in Places
               /\ (\E j \in Places : c[j].uid = uid) => c[p].uid = uid
               /\ Unique(c) /\ uid \in Users => \A j \in Places \ {p} : c[j].uid # uid
  <1> DEFINE p == EntryOf(c, uid, n)
  <1>0. CacheSize \in Nat \ {0, 1} /\ n \in Places
    BY CacheSizeAssumption DEF LastPlace, Places
  <1>1. /\ p \in Places
        /\ \/ p <= n /\ c[p].uid = uid
           \/ p = CacheSize /\ \A i \in 1 .. n : c[i].uid # uid
    BY <1>0, EntryOfType, Zenon
  <1> HIDE DEF p
  <1>2. CASE c[p].uid = uid
    BY <1>1, <1>2 DEF Unique, p
  <1>3. CASE c[p].uid # uid
    <2>1. \A i \in Places : c[i].uid # uid
      BY <1>0, <1>1, <1>3 DEF Places, LastPlace
    <2> QED BY <1>1, <2>1 DEF p
  <1> QED BY <1>2, <1>3

\* A service leaves no user with two entries.
LEMMA MovedUnique ==
    ASSUME NEW c \in Caches, NEW w \in Words, NEW n, LastPlace(n), Unique(c)
    PROVE  Unique(MoveToFront(c, EntryOf(c, w.uid, n), w))
  <1> DEFINE p == EntryOf(c, w.uid, n)
             d == MoveToFront(c, p, w)
  <1>1. p \in Places /\ (w.uid \in Users => \A j \in Places \ {p} : c[j].uid # w.uid)
    BY PlaceType
  <1> HIDE DEF p
  <1>2. /\ d[1] = w
        /\ \A k \in Places : k # 1 => \E j \in Places \ {p} : d[k] = c[j]
        /\ \A k, l \in Places : k # 1 /\ l # 1 /\ k # l =>
                     \E i, j \in Places \ {p} : i # j /\ d[k] = c[i] /\ d[l] = c[j]
    BY <1>1, MovedEntries
  <1> HIDE DEF d
  <1> SUFFICES ASSUME NEW k \in Places, NEW l \in Places, k # l, d[k].uid = d[l].uid,
                      d[k].uid \in Users
               PROVE  FALSE
    BY DEF Unique, d, p
  <1>3. CASE k = 1
    BY <1>1, <1>2, <1>3
  <1>4. CASE l = 1
    BY <1>1, <1>2, <1>4
  <1>5. CASE k # 1 /\ l # 1
    BY <1>2, <1>5 DEF Unique
  <1> QED BY <1>3, <1>4, <1>5

\* A step of the round leaves no user with two entries.
LEMMA RotatedUnique ==
    ASSUME NEW c \in Caches, NEW b \in 0 .. HalfRange - 1, Unique(c)
    PROVE  Unique(Rotate(c, b))
  <1> DEFINE d == Rotate(c, b)
  <1>1. \A k \in Places : d[k].uid = c[RotatedFrom(k)].uid
    BY RotatedEntries
  <1> HIDE DEF d
  <1>2. Unique(d)
    BY <1>1, RotatedPlaces DEF Unique
  <1> QED BY <1>2 DEF d

\* The balance that a paid, or refused, request leaves in the cache.
PaidBalance(bal) ==
    IF cache_mode /\ Cached(cache, en_input.uid)
    THEN (cache[EntryOf(cache, en_input.uid, CacheSize)].low - en_input.low) % HalfRange ELSE bal
RefusedBalance(bal) ==
    IF cache_mode THEN cache[EntryOf(cache, en_input.uid, CacheSize - 1)].low ELSE bal

\* The cache after a service, as the last place and the balance written there.
LEMMA ServedCache ==
    ASSUME cache \in Caches, en_input \in Words, NEW bal \in 0 .. HalfRange - 1
    PROVE  /\ PaidBalance(bal) \in 0 .. HalfRange - 1 /\ RefusedBalance(bal) \in 0 .. HalfRange - 1
           /\ CacheIfPaid(bal) = MoveToFront(cache, EntryOf(cache, en_input.uid, CacheSize),
                                             [en_input EXCEPT !.low = PaidBalance(bal)])
           /\ CacheIfRefused(bal) = MoveToFront(cache, EntryOf(cache, en_input.uid, CacheSize - 1),
                                                [en_input EXCEPT !.low = RefusedBalance(bal)])
           /\ CacheIfPaid(bal) \in Caches /\ CacheIfRefused(bal) \in Caches
           /\ Unique(cache) => Unique(CacheIfPaid(bal)) /\ Unique(CacheIfRefused(bal))
  <1> DEFINE p == EntryOf(cache, en_input.uid, CacheSize)
             q == EntryOf(cache, en_input.uid, CacheSize - 1)
             v == [en_input EXCEPT !.low = PaidBalance(bal)]
             u == [en_input EXCEPT !.low = RefusedBalance(bal)]
  <1>0. LastPlace(CacheSize) /\ LastPlace(CacheSize - 1)
    BY DEF LastPlace
  <1>1. p \in Places /\ q \in Places
    BY <1>0, PlaceType
  <1>2. cache[p].low \in 0 .. HalfRange - 1 /\ cache[q].low \in 0 .. HalfRange - 1 /\ en_input.low \in Nat
    BY <1>1, WordType DEF Caches
  <1>3. PaidBalance(bal) \in 0 .. HalfRange - 1 /\ RefusedBalance(bal) \in 0 .. HalfRange - 1
    <2>1. (cache[p].low - en_input.low) % HalfRange \in 0 .. HalfRange - 1
      BY <1>2, HalfRangeType
    <2> QED BY <1>2, <2>1 DEF PaidBalance, RefusedBalance
  <1>4. CacheIfPaid(bal) = MoveToFront(cache, p, v) /\ CacheIfRefused(bal) = MoveToFront(cache, q, u)
    BY DEF CacheIfPaid, CacheIfRefused, Remember, PaidBalance, RefusedBalance
  <1>5. v \in Words /\ u \in Words /\ v.uid = en_input.uid /\ u.uid = en_input.uid
    BY <1>3, Rebalanced
  <1>6. MoveToFront(cache, p, v) \in Caches /\ MoveToFront(cache, q, u) \in Caches
    BY <1>1, <1>5, MovedEntries
  <1>7. Unique(cache) => Unique(MoveToFront(cache, p, v)) /\ Unique(MoveToFront(cache, q, u))
    <2> HIDE DEF v, u
    <2>1. Unique(cache) => Unique(MoveToFront(cache, EntryOf(cache, v.uid, CacheSize), v))
      BY <1>0, <1>5, MovedUnique
    <2>2. Unique(cache) => Unique(MoveToFront(cache, EntryOf(cache, u.uid, CacheSize - 1), u))
      BY <1>0, <1>5, MovedUnique
    <2> QED BY <1>5, <2>1, <2>2
  <1> QED BY <1>3, <1>4, <1>6, <1>7

-----------------------------------------------------------------------------
(* Types.                                                                   *)

\* The states of the main process that a service is made of.
States == {"Setup", "Ready", "TakingInput", "Communicating", "Ethernet", "Decrypt", "Offline",
           "NotInCache", "Dispensing", "Dummy", "CommRegained", "SyncCache", "UpdateCache"}
Waiting == system_state \in {"Setup", "Ready", "TakingInput"}
InService == system_state \in {"Communicating", "Decrypt", "Offline"}

\* The types of the machine: its words, what has been received, that what it has
\* found notes for is in it, and that what it has encrypted is its request.
MachineTypes ==
    /\ system_state \in States
    /\ en_input \in Words
    /\ en_output \in Blocks /\ encryption_over \in BOOLEAN
    /\ allocating \in BOOLEAN /\ adequate_cash_in_atm \in BOOLEAN
    /\ adequate_cash_in_account \in BOOLEAN /\ user_is_admin \in BOOLEAN
    /\ response \in Bytes
    /\ cash \in 0 .. HalfRange - 1
    /\ cache \in Caches /\ Unique(cache)
    /\ cache_mode \in BOOLEAN /\ chanAddr_is_0 \in BOOLEAN
    /\ cache_update_count \in 0 .. CacheSize
    /\ ~Syncing => cache_update_count = 0
    /\ system_state \in {"SyncCache", "UpdateCache"} => cache_update_count < CacheSize
    /\ system_state \in {"Decrypt", "UpdateCache"} => AllReceived(response)
    /\ InService => en_input \in Requests /\ (adequate_cash_in_atm => en_input.low <= cash)
    /\ system_state \in {"Offline", "Dispensing"} => ~allocating
    /\ encryption_over => en_output = Seal(en_input)
    /\ system_state = "Communicating" => encryption_over
    /\ Waiting => ~encryption_over

\* Where the bank is at work on a request.
Working == {"read", "status", "reply", "save", "rewrite"}

\* The types of the bank: its records, and how far its loops are.
BankTypes ==
    /\ bank \in BankStates
    /\ Kept(db) /\ Kept(file)
    /\ valRead \in {0, 1, 2, 5} /\ cnt \in 0 .. 3 /\ byteNo \in 1 .. WordBytes + 1
    /\ request \in Seq(Blocks) /\ Len(request) <= WordBytes
    /\ reply \in Replies
    /\ bank = "confirm" => cnt \in {1, 2}
    /\ bank \in {"setup", "status", "reply"} => byteNo <= WordBytes
    /\ bank = "read" => Len(request) < WordBytes
    /\ bank \in Working \cup {"confirm"} => valRead # 0
    /\ bank \in {"poll", "confirm"} => request = <<>>
    /\ bank = "status" => valRead # 5 /\ byteNo = 1
    /\ bank = "save" => reply.line # 0

\* The types of what is recorded of the past, and that what is being handed out has
\* been recorded.
HandingOut == system_state = "Dispensing" /\ Pays /\ en_input.uid \in Users
GhostTypes ==
    /\ paid \in [Users -> Nat] /\ service \in Nat /\ serves \in Nat /\ serves <= service
    /\ seen \in BOOLEAN
    /\ HandingOut => en_input.low <= paid[en_input.uid]

\* The inductive invariant of the types.
TypeInv == MachineTypes /\ BankTypes /\ GhostTypes

\* The sizes of words and of the cache.
LEMMA Sizes == WordBytes \in Nat \ {0} /\ ReplyBytes = WordBytes /\ CacheSize \in Nat \ {0, 1}
  BY BankAssumption, SystemAssumption, CacheSizeAssumption

\* The types hold at the start.
LEMMA InitTypes == Init => TypeInv
  <1> SUFFICES ASSUME Init PROVE TypeInv
    OBVIOUS
  <1>1. EmptyCache \in Caches /\ Unique(EmptyCache)
    BY ZeroWordType, AccountType DEF EmptyCache, Caches, Places, Unique
  <1>2. NoBytes \in Bytes
    BY Sizes DEF NoBytes, Bytes
  <1>3. FirstCash \in 0 .. HalfRange - 1
    BY EntryAssumption, HalfRangeType
  <1>4. MachineTypes
    <2>1. AtmInit(FirstCash)
      BY DEF Init
    <2>2. /\ allocating \in BOOLEAN /\ adequate_cash_in_atm \in BOOLEAN
          /\ adequate_cash_in_account \in BOOLEAN /\ user_is_admin \in BOOLEAN
          /\ cache_mode \in BOOLEAN /\ chanAddr_is_0 \in BOOLEAN
          /\ en_output \in Blocks /\ encryption_over = FALSE
      BY <2>1, BlockType DEF AtmInit
    <2>3. /\ system_state = "Setup" /\ en_input \in Words /\ response \in Bytes
          /\ cash \in 0 .. HalfRange - 1 /\ cache \in Caches /\ Unique(cache)
          /\ cache_update_count = 0
      BY <1>1, <1>2, <1>3, <2>1, ZeroWordType DEF AtmInit
    <2>4. cache_update_count \in 0 .. CacheSize
      BY <2>3, Sizes
    <2> QED BY <2>2, <2>3, <2>4 DEF MachineTypes, States, InService, Waiting
  <1>5. Kept(<<>>)
    BY AccountType DEF Kept
  <1>6. Kept(Accounts)
    <2> DEFINE S == [uid : Nat \ {0}, hash : Nat, admin : BOOLEAN, bal : Nat]
    <2>1. Accounts \in Seq(S)
      BY AccountsAssumption
    <2>2. S \subseteq Records
      BY DEF Records
    <2> HIDE DEF S
    <2>3. Accounts \in Seq(Records)
      BY <2>1, <2>2
    <2> QED BY <2>3, AccountType DEF Kept
  <1>7. NoReply \in Replies
    BY BlockType, AccountType DEF NoReply, Replies, NoChange
  <1>8. BankTypes
    BY <1>5, <1>6, <1>7, Sizes DEF Init, BankInit, BankTypes, BankStates, Working
  <1>9. GhostTypes
    <2>1. paid = [u \in Users |-> 0] /\ service = 0 /\ serves = 0 /\ seen = FALSE
      BY DEF Init
    <2>2. seen \in BOOLEAN
      BY <2>1
    <2>3. paid \in [Users -> Nat]
      BY <2>1
    <2>4. ~HandingOut
      BY DEF HandingOut, Init, AtmInit
    <2> QED BY <2>1, <2>2, <2>3, <2>4 DEF GhostTypes
  <1> QED BY <1>4, <1>8, <1>9 DEF TypeInv

\* What the reset button, and Ready after a service, leave.
LEMMA ClearedTypes ==
    ASSUME MachineTypes, Cleared, system_state' = "Ready", en_input' \in Words, en_output' \in Blocks,
           cache_update_count' = 0, chanAddr_is_0' \in BOOLEAN, cache_mode' \in BOOLEAN,
           UNCHANGED <<cash, cache>>
    PROVE  MachineTypes'
  <1>1. NoBytes \in Bytes
    BY Sizes DEF NoBytes, Bytes
  <1>2. /\ encryption_over' = FALSE /\ allocating' = FALSE /\ adequate_cash_in_atm' = FALSE
        /\ adequate_cash_in_account' = FALSE /\ user_is_admin' = FALSE /\ response' = NoBytes
    BY DEF Cleared
  <1>3. 0 \in 0 .. CacheSize
    BY Sizes
  <1> QED BY <1>1, <1>2, <1>3 DEF MachineTypes, States, InService, Waiting

\* The host's accesses, and what a button press and the end of a service do.
LEMMA AccessTypes ==
    ASSUME MachineTypes,
           \/ \E code : ReadCode(code) \/ ReadCodeAtEnd(code)
           \/ ReadByte \/ \E last : TakeSetup(last) \/ \E code \in 0 .. 4 : TakeStatus(code)
           \/ PressStart \/ Allocated \/ HandedOut \/ EndService \/ \E to0 \in BOOLEAN : PressReset(to0)
    PROVE  MachineTypes'
  <1> USE DEF encrypter
  <1>1. ASSUME NEW code, ReadCode(code) PROVE MachineTypes'
    BY <1>1 DEF MachineTypes, ReadCode, StartsSync, Syncing, States, InService, AllReceived, Waiting
  <1>2. ASSUME NEW code, ReadCodeAtEnd(code) PROVE MachineTypes'
    BY <1>2 DEF MachineTypes, ReadCodeAtEnd, Ending, Syncing, States, InService, AllReceived, Waiting
  <1>3. CASE ReadByte
    BY <1>3 DEF MachineTypes, ReadByte, Accessed, Syncing, States, InService, AllReceived, Waiting
  <1>4. ASSUME NEW last, TakeSetup(last) PROVE MachineTypes'
    BY <1>4 DEF MachineTypes, TakeSetup, Accessed, Syncing, States, InService, AllReceived, Waiting
  <1>5. ASSUME NEW code \in 0 .. 4, TakeStatus(code) PROVE MachineTypes'
    <2>1. /\ chanAddr_is_0' = FALSE
          /\ UNCHANGED <<en_input, en_output, cash, cache, cache_mode, cache_update_count>>
      BY <1>5 DEF TakeStatus, Accessed
    <2>2. CASE system_state = "Communicating" /\ code = 4
      <3>1. system_state' = "Ready" /\ Cleared /\ cache_update_count = 0
        BY <1>5, <2>2 DEF TakeStatus, MachineTypes, Syncing
      <3> QED BY <2>1, <3>1, ClearedTypes DEF MachineTypes
    <2>3. CASE ~(system_state = "Communicating" /\ code = 4)
      BY <1>5, <2>1, <2>3 DEF MachineTypes, TakeStatus, Syncing, States, InService, AllReceived, Waiting
    <2> QED BY <2>2, <2>3
  <1>6. CASE PressStart
    BY <1>6 DEF MachineTypes, PressStart, Syncing, States, InService, AllReceived, Waiting
  <1>7. CASE HandedOut
    BY <1>7 DEF MachineTypes, HandedOut, Syncing, States, InService, AllReceived, Waiting
  <1>8. CASE EndService
    <2>1. /\ system_state' = "Ready" /\ Cleared /\ cache_update_count = 0
          /\ UNCHANGED <<en_input, en_output, cash, cache, cache_mode, cache_update_count,
                         chanAddr_is_0>>
      BY <1>8 DEF MachineTypes, EndService, Ending, Syncing
    <2> QED BY <2>1, ClearedTypes DEF MachineTypes
  <1>9. ASSUME NEW to0 \in BOOLEAN, PressReset(to0) PROVE MachineTypes'
    <2>1. /\ system_state' = "Ready" /\ Cleared /\ cache_update_count' = 0
          /\ en_output' = Garbled /\ chanAddr_is_0' \in BOOLEAN
          /\ UNCHANGED <<en_input, cash, cache, cache_mode>>
      BY <1>9 DEF PressReset
    <2> QED BY <2>1, ClearedTypes, BlockType DEF MachineTypes
  <1>10. CASE Allocated
    <2>1. PICK found \in BOOLEAN : adequate_cash_in_atm' = (found /\ en_input.low <= cash)
      BY <1>10 DEF Allocated
    <2>2. adequate_cash_in_atm' \in BOOLEAN /\ (adequate_cash_in_atm' => en_input.low <= cash)
      BY <2>1
    <2> QED BY <1>10, <2>2 DEF MachineTypes, Allocated, Syncing, States, InService, AllReceived, Waiting
  <1> QED BY <1>1, <1>2, <1>3, <1>4, <1>5, <1>6, <1>7, <1>8, <1>9, <1>10

\* A byte of a reply.
LEMMA TakeByteTypes ==
    ASSUME MachineTypes, NEW i, NEW block \in Blocks, TakeByte(i, block)
    PROVE  MachineTypes'
  <1>1. response' \in Bytes
    BY DEF MachineTypes, TakeByte, Bytes
  <1> QED BY <1>1 DEF MachineTypes, TakeByte, Accessed, Syncing, States, InService, Waiting, encrypter

\* A request is entered.
LEMMA SubmitTypes ==
    ASSUME MachineTypes, NEW w \in Requests, Submit(w)
    PROVE  MachineTypes'
  <1>1. NoBytes \in Bytes /\ w \in Words /\ Seal(w) \in Blocks
    BY Sizes, EntryAssumption, BlockType DEF NoBytes, Bytes
  <1> QED BY <1>1 DEF MachineTypes, Submit, Syncing, States, InService, Waiting

\* The host is given up.
LEMMA TimeOutTypes ==
    ASSUME MachineTypes, TimeOut
    PROVE  MachineTypes'
  <1>1. adequate_cash_in_account' \in BOOLEAN
    <2>1. CASE OfflineEntry = {}
      BY <2>1 DEF MachineTypes, TimeOut
    <2>2. CASE OfflineEntry # {}
      <3>1. PICK i \in OfflineEntry : adequate_cash_in_account' = (en_input.low <= cache[i].low)
        BY <2>2 DEF TimeOut
      <3> QED BY <3>1
    <2> QED BY <2>1, <2>2
  <1> QED BY <1>1 DEF MachineTypes, TimeOut, Syncing, States, InService, Waiting, encrypter

\* A reply that has been received is one block or none.
LEMMA Received ==
    ASSUME MachineTypes, system_state \in {"Decrypt", "UpdateCache"}
    PROVE  /\ \A k \in 1 .. WordBytes : response[k] \in Blocks
           /\ Opens(Assemble(response)) \subseteq Words
           /\ \A b : (\A k \in 1 .. WordBytes : response[k] = b) => Assemble(response) = b
  <1>1. \A k \in 1 .. WordBytes : response[k] \in Blocks
    BY Sizes DEF MachineTypes, AllReceived, Bytes
  <1>2. DOMAIN response = 1 .. WordBytes
    BY DEF MachineTypes, Bytes
  <1> QED BY <1>1, <1>2, Sizes, AssembleType, BlockType

\* A service comes to its reply: only notes that are there are paid.
LEMMA ServiceTypes ==
    ASSUME MachineTypes, ServeReply \/ ServeOffline
    PROVE  MachineTypes'
  <1> USE DEF encrypter
  <1>0. Pays /\ InService => cash - en_input.low \in 0 .. HalfRange - 1
    <2>1. en_input.low \in Nat /\ cash \in 0 .. HalfRange - 1
      BY WordType DEF MachineTypes
    <2>2. Pays /\ InService => en_input.low <= cash
      BY DEF Pays, MachineTypes
    <2> QED BY <2>1, <2>2, HalfRangeType
  <1>1. CASE ServeReply
    <2>1. PICK w \in Opens(Assemble(response)) :
            IF user_is_admin
            THEN cash' = w.low /\ UNCHANGED cache
            ELSE /\ cash' = IF Pays THEN cash - en_input.low ELSE cash
                 /\ cache' = IF Pays THEN CacheIfPaid(w.low) ELSE CacheIfRefused(w.low)
      BY <1>1 DEF ServeReply
    <2>2. w.low \in 0 .. HalfRange - 1
      BY <1>1, Received, WordType DEF ServeReply
    <2>3. cash' \in 0 .. HalfRange - 1
      BY <1>0, <1>1, <2>1, <2>2 DEF ServeReply, InService, MachineTypes
    <2>4. cache' \in Caches /\ Unique(cache')
      BY <2>1, <2>2, ServedCache DEF MachineTypes
    <2> QED BY <1>1, <2>3, <2>4 DEF MachineTypes, ServeReply, Syncing, States, InService, Waiting
  <1>2. CASE ServeOffline
    <2>1. cash' \in 0 .. HalfRange - 1
      BY <1>0, <1>2 DEF ServeOffline, InService, MachineTypes
    <2>2. 0 \in 0 .. HalfRange - 1
      BY HalfRangeType
    <2>3. cache' \in Caches /\ Unique(cache')
      BY <1>2, <2>2, ServedCache DEF MachineTypes, ServeOffline
    <2> QED BY <1>2, <2>1, <2>3 DEF MachineTypes, ServeOffline, Syncing, States, InService, Waiting
  <1> QED BY <1>1, <1>2

\* The steps of a round of synchronisation.
LEMMA RoundTypes ==
    ASSUME MachineTypes, NextEntry \/ UpdateEntry
    PROVE  MachineTypes'
  <1>0. NoBytes \in Bytes /\ cache[1] \in Words /\ Seal(cache[1]) \in Blocks
    BY Sizes, BlockType DEF NoBytes, Bytes, MachineTypes, Caches, Places
  <1>1. CASE NextEntry
    <2>1. en_input' = cache[1] /\ UNCHANGED <<cash, cache, chanAddr_is_0>>
      BY <1>1 DEF NextEntry
    <2>2. CASE cache_update_count = CacheSize
      <3>1. /\ system_state' = "Ready" /\ cache_update_count' = 0 /\ cache_mode' = FALSE /\ Cleared
            /\ UNCHANGED en_output
        BY <1>1, <2>2 DEF NextEntry
      <3> QED BY <1>0, <2>1, <3>1, ClearedTypes DEF MachineTypes
    <2>3. CASE cache_update_count # CacheSize
      <3>1. /\ system_state' = "SyncCache" /\ response' = NoBytes /\ encryption_over' = FALSE
            /\ en_output' \in Blocks
            /\ UNCHANGED <<allocating, adequate_cash_in_atm, adequate_cash_in_account,
                            user_is_admin, cache_mode, cache_update_count>>
        BY <1>0, <1>1, <2>3 DEF NextEntry, MachineTypes
      <3>2. /\ encryption_over' \in BOOLEAN /\ allocating' \in BOOLEAN /\ adequate_cash_in_atm' \in BOOLEAN
            /\ adequate_cash_in_account' \in BOOLEAN /\ user_is_admin' \in BOOLEAN
            /\ cache_mode' \in BOOLEAN /\ chanAddr_is_0' \in BOOLEAN
        BY <2>1, <3>1 DEF MachineTypes
      <3>3. cache_update_count' \in 0 .. CacheSize /\ cache_update_count' < CacheSize
        BY <2>3, <3>1, Sizes DEF MachineTypes
      <3>4. /\ en_input' \in Words /\ response' \in Bytes /\ cash' \in 0 .. HalfRange - 1
            /\ cache' \in Caches /\ Unique(cache')
        BY <1>0, <2>1, <3>1 DEF MachineTypes
      <3> QED BY <3>1, <3>2, <3>3, <3>4 DEF MachineTypes, Syncing, States, InService, Waiting
    <2> QED BY <2>2, <2>3
  <1>2. CASE UpdateEntry
    <2>1. PICK w \in Opens(Assemble(response)) : cache' = Rotate(cache, w.low)
      BY <1>2 DEF UpdateEntry
    <2>2. w.low \in 0 .. HalfRange - 1
      BY <1>2, Received, WordType DEF UpdateEntry
    <2>3. cache' \in Caches /\ Unique(cache')
      BY <2>1, <2>2, RotatedEntries, RotatedUnique DEF MachineTypes
    <2> QED BY <1>2, <2>3, Sizes
        DEF MachineTypes, UpdateEntry, Syncing, States, InService, Waiting, encrypter
  <1> QED BY <1>1, <1>2

\* A reply that says nothing.
LEMMA NoReplyType == NoReply \in Replies /\ NoReply.line = 0
  BY BlockType, AccountType DEF NoReply, Replies, NoChange

\* The bank begins a round of its loop.
LEMMA RoundOver ==
    ASSUME BankTypes, NextRound, Kept(db'), Kept(file')
    PROVE  BankTypes'
  <1>1. <<>> \in Seq(Blocks) /\ Len(<<>>) = 0
    OBVIOUS
  <1>2. /\ bank' = "poll" /\ valRead' = 0 /\ cnt' = 0 /\ byteNo' = 1 /\ request' = <<>>
        /\ reply' = NoReply
    BY DEF NextRound
  <1> QED BY <1>1, <1>2, NoReplyType, Sizes DEF BankTypes, BankStates, Working

\* The bank asks what the machine wants.
LEMMA PollTypes ==
    ASSUME BankTypes, NEW code \in {0, 1, 2, 3, 5}, Poll(code) \/ Confirm(code)
    PROVE  BankTypes'
  <1>1. CASE Poll(code)
    BY <1>1, Sizes DEF BankTypes, Poll, BankStates, Working
  <1>2. CASE Confirm(code) /\ code # valRead
    BY <1>2, RoundOver DEF BankTypes, Confirm
  <1>3. CASE Confirm(code) /\ code = valRead
    <2>1. /\ bank = "confirm" /\ cnt \in {1, 2} /\ cnt' = cnt + 1 /\ request = <<>>
          /\ bank' = IF cnt' = 3 THEN "read" ELSE bank
          /\ UNCHANGED <<valRead, byteNo, request, reply, db, file>>
      BY <1>3 DEF BankTypes, Confirm
    <2>2. cnt' \in 0 .. 3 /\ (bank' = "confirm" => cnt' \in {1, 2}) /\ bank' \in {"confirm", "read"}
      BY <2>1
    <2>3. Len(request) = 0
      BY <2>1
    <2> QED BY <2>1, <2>2, <2>3, Sizes DEF BankTypes, BankStates, Working
  <1> QED BY <1>1, <1>2, <1>3

\* The bank reads a byte of a request, and decides after the last.
LEMMA ReadTypes ==
    ASSUME BankTypes, NEW byte \in Blocks, ReadRequest(byte)
    PROVE  BankTypes'
  <1>1. request' = Append(request, byte) /\ request \in Seq(Blocks) /\ Len(request) < WordBytes
    BY DEF ReadRequest, BankTypes
  <1>2. request' \in Seq(Blocks) /\ Len(request') = Len(request) + 1 /\ Len(request') \in Nat
    BY <1>1
  <1>3. CASE Len(request') < WordBytes
    BY <1>2, <1>3, Sizes DEF BankTypes, ReadRequest, BankStates, Working
  <1>4. CASE ~(Len(request') < WordBytes)
    <2>1. PICK w \in Opens(Assemble(request')) :
              IF valRead # 5
              THEN bank' = "status" /\ reply' = ServeRequest(w)
              ELSE IF IsAdmin(w)
              THEN bank' = "down" /\ reply' = NoReply
              ELSE bank' = "reply" /\ reply' = ServeCacheEntry(w)
      BY <1>4 DEF ReadRequest
    <2>2. Len(request') = WordBytes /\ Assemble(request') \in Blocks
      <3>1. Len(request') = WordBytes
        BY <1>1, <1>2, <1>4, Sizes
      <3>2. \A k \in 1 .. WordBytes : request'[k] \in Blocks
        BY <1>2, <3>1
      <3>3. DOMAIN request' = 1 .. WordBytes
        BY <1>2, <3>1
      <3> QED BY <3>1, <3>2, <3>3, Sizes, AssembleType
    <2>3. w \in Words
      BY <2>1, <2>2, BlockType
    <2>4. reply' \in Replies
      BY <2>1, <2>3, NoReplyType, ServeRequestType, ServeEntryType DEF BankTypes
    <2>5. bank' \in {"status", "down", "reply"} /\ (bank' = "status" => valRead # 5)
      BY <2>1
    <2> QED BY <1>2, <2>2, <2>4, <2>5, Sizes DEF BankTypes, ReadRequest, BankStates, Working
  <1> QED BY <1>3, <1>4

\* The bank writes.
LEMMA WriteTypes ==
    ASSUME BankTypes, WriteSetup \/ WriteStatus \/ WriteReply
    PROVE  BankTypes'
  <1>1. CASE WriteSetup
    <2>1. CASE byteNo = WordBytes
      BY <1>1, <2>1, RoundOver DEF BankTypes, WriteSetup
    <2>2. CASE byteNo # WordBytes
      BY <1>1, <2>2, Sizes DEF BankTypes, WriteSetup, BankStates, Working
    <2> QED BY <2>1, <2>2
  <1>2. CASE WriteStatus
    BY <1>2, Sizes DEF BankTypes, WriteStatus, BankStates, Working
  <1>3. CASE WriteReply
    <2>1. CASE byteNo = WordBytes /\ reply.line = NoChange
      BY <1>3, <2>1, RoundOver DEF BankTypes, WriteReply
    <2>2. CASE ~(byteNo = WordBytes /\ reply.line = NoChange)
      BY <1>3, <2>2, Sizes DEF BankTypes, WriteReply, BankStates, Working, NoChange
    <2> QED BY <2>1, <2>2
  <1> QED BY <1>1, <1>2, <1>3

\* The first records of the book are kept ones.
LEMMA FirstRecords ==
    ASSUME NEW records, Kept(records), NEW n \in 0 .. Len(records)
    PROVE  /\ Kept(SubSeq(records, 1, n)) /\ Len(SubSeq(records, 1, n)) = n
           /\ \A i \in 1 .. n : SubSeq(records, 1, n)[i] = records[i]
  <1> DEFINE front == SubSeq(records, 1, n)
  <1>1. records \in Seq(Records) /\ Len(records) \in Nat /\ n \in Nat /\ n <= Len(records)
    BY DEF Kept
  <1>2. front \in Seq(Records) /\ Len(front) = n /\ \A i \in 1 .. n : front[i] = records[i]
    BY <1>1, SubSeqProperties
  <1>3. Len(records) <= Len(Accounts) /\ \A i \in 1 .. n :
           /\ records[i].uid = Accounts[i].uid /\ records[i].hash = Accounts[i].hash
           /\ records[i].admin = Accounts[i].admin
    BY <1>1 DEF Kept
  <1>4. Len(front) <= Len(Accounts)
    BY <1>1, <1>2, <1>3, AccountType
  <1> QED BY <1>2, <1>3, <1>4 DEF Kept

\* The bank changes its records, rewrites the file, ends and starts; a file that
\* was being rewritten holds the first of the records.
LEMMA SaveTypes ==
    ASSUME BankTypes, Debit \/ Rewrite \/ Start \/ Crash
    PROVE  BankTypes'
  <1>0. Kept(<<>>)
    BY AccountType DEF Kept
  <1>1. CASE Debit
    <2>1. reply.bal \in Int /\ db \in Seq(Records)
      BY DEF BankTypes, Replies, Kept
    <2>2. db' = [db EXCEPT ![reply.line].bal = reply.bal]
      BY <1>1 DEF Debit
    <2>3. DOMAIN db' = 1 .. Len(db) /\ Len(db) \in Nat /\ \A i \in 1 .. Len(db) :
            db'[i] = IF i = reply.line THEN [db[i] EXCEPT !.bal = reply.bal] ELSE db[i]
      BY <2>1, <2>2
    <2>4. \A i \in 1 .. Len(db) :
            /\ db'[i] \in Records /\ db'[i].uid = db[i].uid /\ db'[i].hash = db[i].hash
            /\ db'[i].admin = db[i].admin
      <3> TAKE i \in 1 .. Len(db)
      <3>1. db[i] \in Records
        BY <2>1
      <3>2. [db[i] EXCEPT !.bal = reply.bal] \in Records
        BY <2>1, <3>1 DEF Records
      <3> QED BY <2>3, <3>1, <3>2 DEF Records
    <2>5. db' \in Seq(Records) /\ Len(db') = Len(db)
      <3>1. db' = [i \in 1 .. Len(db) |-> db'[i]]
        BY <2>2, <2>3
      <3> QED BY <2>3, <2>4, <3>1
    <2>6. Kept(db')
      BY <2>4, <2>5 DEF Kept, BankTypes
    <2> QED BY <1>0, <1>1, <2>6 DEF BankTypes, Debit, BankStates, Working
  <1>2. CASE Rewrite
    BY <1>2, RoundOver DEF BankTypes, Rewrite
  <1>3. CASE Start
    BY <1>3, Sizes DEF BankTypes, Start, BankStates, Working
  <1>4. CASE Crash
    <2>1. Kept(file')
      <3>1. CASE UNCHANGED file
        BY <3>1 DEF BankTypes
      <3>2. ASSUME NEW n \in 0 .. Len(db), file' = SubSeq(db, 1, n)
            PROVE  Kept(file')
        BY <3>2, FirstRecords DEF BankTypes
      <3> QED BY <1>4, <3>1, <3>2 DEF Crash
    <2>2. <<>> \in Seq(Blocks) /\ Len(<<>>) = 0
      OBVIOUS
    <2> QED BY <1>0, <1>4, <2>1, <2>2, NoReplyType, Sizes DEF BankTypes, Crash, BankStates, Working
  <1> QED BY <1>1, <1>2, <1>3, <1>4

-----------------------------------------------------------------------------
(* Types of the whole system.                                               *)

\* The channels carry a block.
LEMMA ChannelBlock ==
    ASSUME MachineTypes
    PROVE  OnChannels \in Blocks
  BY BlockType DEF MachineTypes, OnChannels

\* The host's accesses.
LEMMA HostTypes ==
    ASSUME TypeInv, Asks \/ Reads \/ SetsUp \/ Writes
    PROVE  MachineTypes' /\ BankTypes'
  <1>0. MachineTypes /\ BankTypes
    BY DEF TypeInv
  <1>1. CASE Asks
    <2>1. PICK code \in {0, 1, 2, 3, 5} : /\ ReadCode(code) \/ ReadCodeAtEnd(code)
                                          /\ Poll(code) \/ Confirm(code)
      BY <1>1 DEF Asks
    <2> QED BY <1>0, <2>1, AccessTypes, PollTypes
  <1>2. CASE Reads
    BY <1>0, <1>2, AccessTypes, ReadTypes, ChannelBlock DEF Reads
  <1>3. CASE SetsUp
    BY <1>0, <1>3, AccessTypes, WriteTypes DEF SetsUp
  <1>4. CASE Writes
    <2>1. reply.status \in 0 .. 4 /\ reply.block \in Blocks
      BY <1>0 DEF BankTypes, Replies
    <2>2. CASE WriteStatus /\ TakeStatus(reply.status)
      BY <1>0, <2>1, <2>2, AccessTypes, WriteTypes
    <2>3. CASE WriteReply /\ TakeByte(byteNo, reply.block)
      BY <1>0, <2>1, <2>3, TakeByteTypes, WriteTypes
    <2> QED BY <1>4, <2>2, <2>3 DEF Writes
  <1> QED BY <1>1, <1>2, <1>3, <1>4

\* The host's accesses start no pay-out and do not touch one.
LEMMA AccessHandsOut ==
    ASSUME MachineTypes, MachineTypes',
           \/ \E code : ReadCode(code) \/ ReadCodeAtEnd(code)
           \/ ReadByte \/ \E last : TakeSetup(last)
           \/ \E code : TakeStatus(code) \/ \E i, block : TakeByte(i, block)
    PROVE  HandingOut' => HandingOut /\ UNCHANGED en_input
  <1> USE DEF encrypter, HandingOut, Pays
  <1>1. ASSUME NEW code, ReadCode(code) PROVE HandingOut' => HandingOut /\ UNCHANGED en_input
    BY <1>1 DEF ReadCode, StartsSync
  <1>2. ASSUME NEW code, ReadCodeAtEnd(code) PROVE HandingOut' => HandingOut /\ UNCHANGED en_input
    BY <1>2 DEF ReadCodeAtEnd
  <1>3. CASE ReadByte
    BY <1>3 DEF ReadByte
  <1>4. ASSUME NEW last, TakeSetup(last) PROVE HandingOut' => HandingOut /\ UNCHANGED en_input
    BY <1>4 DEF TakeSetup
  <1>5. ASSUME NEW code, TakeStatus(code) PROVE HandingOut' => HandingOut /\ UNCHANGED en_input
    BY <1>5 DEF TakeStatus
  <1>6. ASSUME NEW i, NEW block, TakeByte(i, block) PROVE HandingOut' => HandingOut /\ UNCHANGED en_input
    BY <1>6 DEF TakeByte
  <1> QED BY <1>1, <1>2, <1>3, <1>4, <1>5, <1>6

\* What the host's accesses record.
LEMMA HostGhosts ==
    ASSUME TypeInv, MachineTypes', Asks \/ Reads \/ SetsUp \/ Writes
    PROVE  GhostTypes'
  <1>1. /\ UNCHANGED <<paid, service>> /\ serves' \in {serves, service} /\ seen' = TRUE
    BY DEF Asks, Reads, SetsUp, Writes, Paced, ghosts
  <1>2. HandingOut' => HandingOut /\ UNCHANGED en_input
    BY AccessHandsOut DEF TypeInv, Asks, Reads, SetsUp, Writes
  <1> QED BY <1>1, <1>2 DEF TypeInv, GhostTypes

\* A step that leaves the machine alone.
LEMMA SameMachine ==
    ASSUME MachineTypes, UNCHANGED atmVars
    PROVE  MachineTypes' /\ (HandingOut' <=> HandingOut)
  BY DEF MachineTypes, atmVars, encrypter, Syncing, InService, AllReceived, Waiting, HandingOut, Pays

\* A step that leaves the bank alone.
LEMMA SameBank ==
    ASSUME BankTypes, UNCHANGED bankVars
    PROVE  BankTypes'
  BY DEF BankTypes, bankVars

\* What is about to be handed out is recorded.
LEMMA PayTypes ==
    ASSUME TypeInv, Pay, UNCHANGED <<en_input, adequate_cash_in_atm, adequate_cash_in_account>>
    PROVE  paid' \in [Users -> Nat] /\ (HandingOut' => en_input'.low <= paid'[en_input'.uid])
  <1>1. en_input.low \in Nat /\ paid \in [Users -> Nat]
    BY WordType DEF TypeInv, GhostTypes, MachineTypes
  <1>2. CASE Pays /\ en_input.uid \in Users
    <2>1. paid' = [paid EXCEPT ![en_input.uid] = @ + en_input.low]
      BY <1>2 DEF Pay
    <2> QED BY <1>1, <1>2, <2>1
  <1>3. CASE ~(Pays /\ en_input.uid \in Users)
    <2>1. UNCHANGED paid /\ ~HandingOut'
      BY <1>3 DEF Pay, HandingOut, Pays
    <2> QED BY <1>1, <2>1
  <1> QED BY <1>2, <1>3

\* The steps of the machine that answer a request.
LEMMA ServiceStepTypes ==
    ASSUME TypeInv, ServesReply \/ ServesOffline
    PROVE  MachineTypes' /\ GhostTypes' /\ UNCHANGED bankVars
  <1>0. MachineTypes /\ GhostTypes
    BY DEF TypeInv
  <1>1. CASE ServesReply
    <2>1. /\ UNCHANGED <<bankVars, service, serves, seen>> /\ ServeReply
          /\ UNCHANGED <<en_input, adequate_cash_in_atm, adequate_cash_in_account>>
      BY <1>1 DEF ServesReply, ServeReply
    <2>2. MachineTypes'
      BY <1>0, <2>1, ServiceTypes
    <2>3. paid' \in [Users -> Nat] /\ (HandingOut' => en_input'.low <= paid'[en_input'.uid])
      <3>1. CASE user_is_admin
        BY <1>0, <1>1, <3>1 DEF ServesReply, ServeReply, GhostTypes, HandingOut
      <3>2. CASE ~user_is_admin
        BY <1>1, <2>1, <3>2, PayTypes DEF ServesReply
      <3> QED BY <3>1, <3>2
    <2> QED BY <1>0, <2>1, <2>2, <2>3 DEF GhostTypes
  <1>2. CASE ServesOffline
    <2>1. /\ UNCHANGED <<bankVars, service, serves, seen>> /\ ServeOffline /\ Pay
          /\ UNCHANGED <<en_input, adequate_cash_in_atm, adequate_cash_in_account>>
      BY <1>2 DEF ServesOffline, ServeOffline
    <2>2. MachineTypes'
      BY <1>0, <2>1, ServiceTypes
    <2>3. paid' \in [Users -> Nat] /\ (HandingOut' => en_input'.low <= paid'[en_input'.uid])
      BY <2>1, PayTypes
    <2> QED BY <1>0, <2>1, <2>2, <2>3 DEF GhostTypes
  <1> QED BY <1>1, <1>2

\* A reset takes back what has not been handed out.
LEMMA ResetTypes ==
    ASSUME TypeInv, Resets
    PROVE  MachineTypes' /\ GhostTypes' /\ UNCHANGED bankVars
  <1>0. MachineTypes /\ GhostTypes
    BY DEF TypeInv
  <1>1. PICK to0 \in BOOLEAN : PressReset(to0)
    BY DEF Resets
  <1>2. MachineTypes' /\ UNCHANGED <<bankVars, service, serves, seen>> /\ HandsOutLess /\ ~HandingOut'
    BY <1>0, <1>1, AccessTypes DEF Resets, PressReset, HandingOut
  <1>3. paid' \in [Users -> Nat]
    <2>1. CASE HandingOut
      <3>1. PICK kept \in 0 .. en_input.low : paid' = [paid EXCEPT ![en_input.uid] = @ - kept]
        BY <1>2, <2>1 DEF HandsOutLess, HandingOut
      <3>2. en_input.low \in Nat /\ en_input.low <= paid[en_input.uid] /\ paid \in [Users -> Nat]
            /\ en_input.uid \in Users
        BY <1>0, <2>1, WordType DEF GhostTypes, MachineTypes, HandingOut
      <3>3. paid[en_input.uid] - kept \in Nat
        BY <3>2
      <3> QED BY <3>1, <3>2, <3>3
    <2>2. CASE ~HandingOut
      BY <1>0, <1>2, <2>2 DEF HandsOutLess, HandingOut, GhostTypes
    <2> QED BY <2>1, <2>2
  <1> QED BY <1>0, <1>2, <1>3 DEF GhostTypes

\* The other steps of the machine and its customers.
LEMMA MachineStepTypes ==
    ASSUME TypeInv, Works \/ Enters \/ GivesUp
    PROVE  MachineTypes' /\ GhostTypes' /\ UNCHANGED bankVars
  <1> USE DEF encrypter
  <1>0. MachineTypes /\ GhostTypes
    BY DEF TypeInv
  <1>1. CASE Works
    <2>1. /\ UNCHANGED <<bankVars, paid, service, serves, seen>>
          /\ Allocated \/ HandedOut \/ EndService \/ NextEntry \/ UpdateEntry
      BY <1>1 DEF Works, ghosts
    <2>2. MachineTypes'
      BY <1>0, <2>1, AccessTypes, RoundTypes
    <2>3. ~HandingOut'
      <3>1. CASE Allocated
        <4>1. system_state' # "Dispensing"
          BY <1>0, <3>1 DEF Allocated, MachineTypes
        <4> QED BY <4>1 DEF HandingOut
      <3>2. CASE HandedOut \/ EndService \/ NextEntry \/ UpdateEntry
        BY <3>2 DEF HandingOut, HandedOut, EndService, NextEntry, UpdateEntry
      <3> QED BY <2>1, <3>1, <3>2
    <2> QED BY <1>0, <2>1, <2>2, <2>3 DEF GhostTypes
  <1>2. CASE Enters
    <2>1. UNCHANGED <<bankVars, paid, serves>> /\ service' \in {service, service + 1} /\ seen' \in BOOLEAN
      BY <1>0, <1>2 DEF Enters, GhostTypes
    <2>2. MachineTypes'
      BY <1>0, <1>2, AccessTypes, SubmitTypes DEF Enters
    <2>3. ~HandingOut'
      BY <1>2 DEF Enters, PressStart, Submit, HandingOut
    <2> QED BY <1>0, <2>1, <2>2, <2>3 DEF GhostTypes
  <1>3. CASE GivesUp
    <2>1. UNCHANGED <<bankVars, paid, service, serves, seen>> /\ TimeOut
      BY <1>3 DEF GivesUp
    <2>2. MachineTypes' /\ ~HandingOut'
      BY <1>0, <2>1, TimeOutTypes DEF TimeOut, HandingOut
    <2> QED BY <1>0, <2>1, <2>2 DEF GhostTypes
  <1> QED BY <1>1, <1>2, <1>3

\* The steps of the bank that make no access.
LEMMA BankStepTypes ==
    ASSUME TypeInv, Saves \/ Stops \/ Starts
    PROVE  BankTypes' /\ GhostTypes' /\ UNCHANGED atmVars
  <1>0. BankTypes /\ GhostTypes /\ MachineTypes
    BY DEF TypeInv
  <1>1. UNCHANGED <<atmVars, paid, service, serves, seen>> /\ (Debit \/ Rewrite \/ Crash \/ Start)
    BY DEF Saves, Stops, Starts, ghosts
  <1>2. BankTypes'
    BY <1>0, <1>1, SaveTypes
  <1>3. (HandingOut' <=> HandingOut) /\ UNCHANGED en_input
    BY <1>0, <1>1, SameMachine DEF atmVars
  <1> QED BY <1>0, <1>1, <1>2, <1>3 DEF GhostTypes

\* The steps of the machine and its customers.
AtmMoves == AtmStep \/ Enters \/ GivesUp \/ Resets

\* The types are inductive.
LEMMA NextTypes ==
    ASSUME TypeInv, [Next]_vars
    PROVE  TypeInv'
  <1>0. MachineTypes /\ BankTypes /\ GhostTypes
    BY DEF TypeInv
  <1>1. CASE Asks \/ Reads \/ SetsUp \/ Writes
    BY <1>1, HostTypes, HostGhosts DEF TypeInv
  <1>2. CASE Saves \/ Stops \/ Starts
    BY <1>0, <1>2, BankStepTypes, SameMachine DEF TypeInv
  <1>3. CASE AtmMoves
    BY <1>0, <1>3, ServiceStepTypes, ResetTypes, MachineStepTypes, SameBank
       DEF TypeInv, AtmMoves, AtmStep
  <1>4. CASE UNCHANGED vars
    <2>1. UNCHANGED <<bankVars, atmVars, paid, service, serves, seen>>
      BY <1>4 DEF vars, ghosts
    <2>2. UNCHANGED en_input
      BY <2>1 DEF atmVars
    <2> QED BY <1>0, <2>1, <2>2, SameMachine, SameBank DEF TypeInv, GhostTypes
  <1> QED BY <1>1, <1>2, <1>3, <1>4 DEF Next, HostStep, AtmMoves

\* The type invariant of AtmSystem, for every value of the constants: of the
\* machine and its channels, of the bank and its loops.
THEOREM TypeCorrect == Spec => []TypeOK
  <1>1. TypeInv => TypeOK
    <2> SUFFICES ASSUME TypeInv PROVE TypeOK
      OBVIOUS
    <2>1. \A i \in 1 .. CacheSize : cache[i].low \in 0 .. HalfRange - 1
      BY WordType DEF TypeInv, MachineTypes, Caches, Places
    <2> QED BY <2>1 DEF TypeInv, MachineTypes, BankTypes, TypeOK, Replies
  <1>2. TypeInv /\ [Next]_vars => TypeInv'
    BY NextTypes
  <1> QED
    BY InitTypes, <1>1, <1>2, PTL DEF Spec

-----------------------------------------------------------------------------
(* Memory and file.                                                         *)

\* Memory and file agree wherever the program is, from the end of loading on,
\* but for the time of the rewriting.
SavedInv == bank \notin {"down", "rewrite"} => file = db

\* The step of a program that is up, not rewriting, and touches neither copy.
LEMMA NoSaveKeepsFile ==
    ASSUME SavedInv, bank \notin {"down", "rewrite"}, UNCHANGED <<db, file>>
    PROVE  SavedInv'
  BY DEF SavedInv

\* The host's accesses to the channels.
LEMMA AccessKeepsFile ==
    ASSUME SavedInv, Asks \/ Reads \/ SetsUp \/ Writes
    PROVE  SavedInv'
  <1>1. CASE Asks
    <2>1. PICK code \in {0, 1, 2, 3, 5} : Poll(code) \/ Confirm(code)
      BY <1>1 DEF Asks
    <2> QED
      BY <2>1, NoSaveKeepsFile DEF Poll, Confirm
  <1>2. CASE Reads
    BY <1>2, NoSaveKeepsFile DEF Reads, ReadRequest
  <1>3. CASE SetsUp
    BY <1>3, NoSaveKeepsFile DEF SetsUp, WriteSetup
  <1>4. CASE Writes
    BY <1>4, NoSaveKeepsFile DEF Writes, WriteStatus, WriteReply
  <1> QED
    BY <1>1, <1>2, <1>3, <1>4

\* The file is emptied in the step that changes the balance, and is whole again
\* in the step that ends the rewriting.
LEMMA SaveRestoresFile ==
    ASSUME SavedInv, Saves
    PROVE  SavedInv'
  BY DEF Saves, SavedInv, Debit, Rewrite

\* The end of the program leaves nothing in memory; its start reads the file.
LEMMA RestartReadsFile ==
    ASSUME SavedInv, Stops \/ Starts
    PROVE  SavedInv'
  BY DEF Stops, Starts, SavedInv, Crash, Start

\* The machine and its customers do not reach into the bank.
LEMMA MachineKeepsBank ==
    ASSUME AtmMoves
    PROVE  UNCHANGED bankVars
  BY DEF AtmMoves, AtmStep, Enters, GivesUp, Resets, ServesReply, ServesOffline, Works

\* That memory and file agree is inductive.
LEMMA SavedStep ==
    ASSUME SavedInv, [Next]_vars
    PROVE  SavedInv'
  <1>1. CASE HostStep
    BY <1>1, AccessKeepsFile, SaveRestoresFile DEF HostStep
  <1>2. CASE Stops \/ Starts
    BY <1>2, RestartReadsFile
  <1>3. CASE AtmMoves
    <2>1. UNCHANGED <<bank, db, file>>
      BY <1>3, MachineKeepsBank DEF bankVars
    <2> QED
      BY <2>1 DEF SavedInv
  <1>4. CASE UNCHANGED vars
    BY <1>4 DEF vars, bankVars, SavedInv
  <1> QED
    BY <1>1, <1>2, <1>3, <1>4 DEF Next, AtmMoves

\* main.c:481, the property of AtmSystem: the bank looks at no request, and
\* waits for none, with a balance in memory that is not in the file, after
\* whatever crashes and restarts.
THEOREM SavedAtRest == Spec => []SavedBeforePolling
  <1>1. Init => SavedInv
    BY DEF Init, BankInit, SavedInv
  <1>2. SavedInv /\ [Next]_vars => SavedInv'
    BY SavedStep
  <1>3. SavedInv => SavedBeforePolling
    BY DEF SavedInv, SavedBeforePolling
  <1> QED
    BY <1>1, <1>2, <1>3, PTL DEF Spec

-----------------------------------------------------------------------------
(* The common protocol of the bank and the machine, in every schedule.       *)

\* The mishap has happened to the user.
Marked(kind, uid) == <<kind, uid>> \in odd

\* A machine that serves without the host has found the customer in its cache.
OfflineInv ==
    system_state = "Offline" =>
        /\ cache_mode
        /\ \E j \in Places : /\ cache[j].uid = en_input.uid /\ cache[j].pin = en_input.pin
                             /\ adequate_cash_in_account => en_input.low <= cache[j].low

\* In a round the machine offers its first entry, or the block of the request
\* before, and then the customers of both are marked.
OffersEntry ==
    \/ en_output = Seal(cache[1])
    \/ /\ Marked("stale", cache[1].uid)
       /\ \E w \in Words : en_output = Seal(w) /\ Marked("stale", w.uid)
RoundInv ==
    /\ Syncing => seen /\ ~cache_mode
    /\ system_state \in {"SyncCache", "UpdateCache"} => en_input = cache[1]
    /\ Syncing /\ encryption_over =>
          /\ system_state = "CommRegained" /\ cache_update_count = 0
          /\ Marked("stale", en_input.uid) /\ Marked("stale", cache[1].uid)
    /\ system_state = "SyncCache" => response[WordBytes] = NoByte /\ OffersEntry

\* The bank is at work on the entry that the machine offers, until a reset ends the
\* round; then it stays with that block until it has asked again.
EntryInv ==
    /\ bank = "confirm" => chanAddr_is_0
    /\ bank \in {"read", "reply"} /\ valRead = 5 /\ Syncing => system_state = "SyncCache"
    /\ bank = "read" /\ valRead = 5 /\ Syncing =>
          \A k \in 1 .. Len(request) : request[k] = en_output
    /\ bank = "reply" /\ valRead = 5 /\ Syncing =>
          \A k \in 1 .. byteNo - 1 : response[k] = reply.block
    /\ bank \in Working /\ valRead = 5 => serves < service \/ Waiting \/ Syncing

\* The bank is at work on a request, and the machine still waits for the answer.
Serving == bank \in {"read", "status", "reply"} /\ valRead \in {1, 2}
Live == serves = service /\ system_state = "Communicating"

\* The bank and the machine take the same steps of a request: unless the machine
\* has given up on it, the bank answers what the machine has asked.
ServeInv ==
    /\ Serving => ~Syncing
    /\ Serving /\ bank = "read" =>
          \A k \in 1 .. Len(request) :
             /\ request[k] = Garbled \/ \E w \in Requests : request[k] = Seal(w)
             /\ Live => request[k] = Seal(en_input)
    /\ Serving /\ bank # "read" /\ Live => reply = ServeRequest(en_input)
    /\ Serving /\ bank = "reply" /\ Live =>
          /\ reply.status # 4
          /\ \A k \in 1 .. byteNo - 1 : response[k] = reply.block
          /\ reply.status # 3 => adequate_cash_in_account = (reply.status = 1)
          /\ user_is_admin = (reply.status = 3)

CoordInv == OfflineInv /\ RoundInv /\ EntryInv /\ ServeInv

\* What is marked stays marked.
LEMMA OddGrows ==
    ASSUME [Next]_vars
    PROVE  odd \subseteq odd'
  <1>1. CASE HostStep
    BY <1>1 DEF HostStep, Asks, Reads, SetsUp, Writes, Saves, ghosts
  <1>2. CASE AtmStep
    BY <1>2 DEF AtmStep, ServesReply, ServesOffline, Works, ghosts
  <1>3. CASE Stops \/ Starts \/ Enters \/ GivesUp \/ Resets
    BY <1>3 DEF Stops, Starts, Enters, GivesUp, Resets, ghosts
  <1>4. CASE UNCHANGED vars
    BY <1>4 DEF vars, ghosts
  <1> QED BY <1>1, <1>2, <1>3, <1>4 DEF Next

\* The customers that a step marks are marked after it.
LEMMA MarksLeft ==
    ASSUME NEW happens, happens, NEW kind, NEW uids, NEW uid \in uids, Marks(happens, kind, uids) \subseteq odd'
    PROVE  <<kind, uid>> \in odd'
  BY DEF Marks

\* The machine but for the address of the last access.
machine == <<system_state, en_input, en_output, encryption_over, allocating, adequate_cash_in_atm,
             adequate_cash_in_account, user_is_admin, response, cash, cache, cache_mode,
             cache_update_count>>

\* A step that touches no more of the machine than the address of the last access.
LEMMA RoundKept ==
    ASSUME OfflineInv, RoundInv, UNCHANGED machine, odd \subseteq odd', seen => seen'
    PROVE  OfflineInv' /\ RoundInv' /\ (Syncing' <=> Syncing)
  <1> USE DEF machine
  <1>1. OfflineInv'
    BY DEF OfflineInv
  <1>2. OffersEntry => OffersEntry'
    BY DEF OffersEntry, Marked
  <1>3. RoundInv'
    BY <1>2 DEF RoundInv, Syncing, Marked
  <1> QED BY <1>1, <1>3 DEF Syncing

\* Of a read of channel 0: a synchronisation that starts finds nothing reported.
LEMMA CodeRead ==
    ASSUME TypeInv, TypeInv', RoundInv, Paced, NEW code, ReadCode(code) \/ ReadCodeAtEnd(code)
    PROVE  /\ UNCHANGED <<en_input, en_output, encryption_over, allocating, adequate_cash_in_atm,
                          adequate_cash_in_account, user_is_admin, response, cash, cache,
                          cache_update_count>>
           /\ chanAddr_is_0' = TRUE /\ seen' = TRUE
           /\ Syncing => system_state = "SyncCache" /\ UNCHANGED <<system_state, cache_mode>>
           /\ ~Syncing' => UNCHANGED <<system_state, cache_mode>>
           /\ ~Syncing /\ Syncing' =>
                 /\ system_state' = "CommRegained" /\ cache_mode /\ cache_mode' = FALSE
                 /\ cache_update_count' = 0 /\ ~chanAddr_is_0 /\ system_state \in {"Ready"} \cup
                       {"Dummy", "NotInCache", "Ethernet"}
           /\ code = 5 <=> Syncing'
           /\ code \in {1, 2} <=> system_state' = "Communicating"
           /\ code = 1 => adequate_cash_in_atm'
           /\ code = 2 => ~adequate_cash_in_atm'
  <1> USE DEF encrypter
  <1>1. /\ UNCHANGED <<en_input, en_output, encryption_over, allocating, adequate_cash_in_atm,
                       adequate_cash_in_account, user_is_admin, response, cash, cache,
                       cache_update_count>>
        /\ chanAddr_is_0' = TRUE /\ seen' = TRUE /\ code = CodeOf(system_state')
    BY DEF ReadCode, ReadCodeAtEnd, Paced
  <1>2. /\ code = 5 <=> Syncing'
        /\ code \in {1, 2} <=> system_state' = "Communicating"
        /\ code = 1 => adequate_cash_in_atm'
        /\ code = 2 => ~adequate_cash_in_atm'
    <2>1. system_state' \in States /\ adequate_cash_in_atm' = adequate_cash_in_atm
      BY <1>1 DEF TypeInv, MachineTypes
    <2> QED BY <1>1, <2>1 DEF States, CodeOf, Syncing
  <1>3. Syncing => system_state = "SyncCache"
    BY DEF RoundInv, Paced, Settled, Syncing
  <1>4. ~Syncing => cache_update_count = 0
    BY DEF TypeInv, MachineTypes
  <1>5. CASE ReadCode(code) /\ ~StartsSync(0)
    <2>1. UNCHANGED <<system_state, cache_mode>>
      BY <1>5 DEF ReadCode
    <2>2. Syncing' <=> Syncing
      BY <2>1 DEF Syncing
    <2> QED BY <1>1, <1>2, <1>3, <2>1, <2>2
  <1>6. CASE (ReadCode(code) /\ StartsSync(0)) \/ ReadCodeAtEnd(code)
    <2>1. /\ system_state \in {"Ready"} \cup {"Dummy", "NotInCache", "Ethernet"} /\ cache_mode
          /\ ~chanAddr_is_0 /\ system_state' = "CommRegained" /\ cache_mode' = FALSE
      BY <1>6 DEF ReadCode, StartsSync, ReadCodeAtEnd, Ending
    <2>2. ~Syncing /\ Syncing'
      BY <2>1 DEF Syncing
    <2> QED BY <1>1, <1>2, <1>4, <2>1, <2>2
  <1> QED BY <1>5, <1>6

\* The bank asks what the machine wants.
LEMMA AsksCoord ==
    ASSUME TypeInv, TypeInv', CoordInv, Asks
    PROVE  CoordInv'
  <1>1. PICK code \in {0, 1, 2, 3, 5} : /\ ReadCode(code) \/ ReadCodeAtEnd(code)
                                        /\ Poll(code) \/ Confirm(code)
    BY DEF Asks
  <1>2. Paced /\ OfflineInv /\ RoundInv /\ EntryInv /\ odd \subseteq odd' /\ Restale \subseteq odd'
        /\ UNCHANGED service
    BY DEF Asks, CoordInv
  <1>3. /\ UNCHANGED <<en_input, en_output, encryption_over, allocating, adequate_cash_in_atm,
                        adequate_cash_in_account, user_is_admin, response, cash, cache,
                        cache_update_count>>
        /\ chanAddr_is_0' = TRUE /\ seen' = TRUE
        /\ Syncing => system_state = "SyncCache" /\ UNCHANGED <<system_state, cache_mode>>
        /\ ~Syncing' => UNCHANGED <<system_state, cache_mode>>
    BY <1>1, <1>2, CodeRead, Zenon
  <1>4. /\ ~Syncing /\ Syncing' =>
              /\ system_state' = "CommRegained" /\ cache_mode' = FALSE
              /\ cache_update_count' = 0 /\ ~chanAddr_is_0
        /\ code = 5 <=> Syncing'
        /\ code \in {1, 2} <=> system_state' = "Communicating"
    BY <1>1, <1>2, CodeRead, Zenon
  <1>5. /\ bank' \in {"poll", "confirm", "read"}
        /\ bank' = "read" => /\ bank = "confirm" /\ code = valRead /\ UNCHANGED <<valRead, request>>
                             /\ Len(request') = 0 /\ valRead' \in {1, 2, 5}
    <2>1. bank = "confirm" => request = <<>> /\ valRead \in {1, 2, 5}
      BY DEF TypeInv, BankTypes
    <2> QED BY <1>1, <2>1 DEF Poll, Confirm, NextRound
  <1>6. OfflineInv'
    <2>1. system_state' = "Offline" => ~Syncing'
      BY DEF Syncing
    <2> QED BY <1>2, <1>3, <2>1 DEF OfflineInv
  <1>7. RoundInv'
    <2>1. Syncing' => seen' /\ ~cache_mode'
      BY <1>2, <1>3, <1>4 DEF RoundInv
    <2>2. system_state' \in {"SyncCache", "UpdateCache"} => Syncing /\ system_state = "SyncCache"
      BY <1>3, <1>4 DEF Syncing
    <2>3. Syncing' /\ encryption_over' =>
            /\ system_state' = "CommRegained" /\ cache_update_count' = 0
            /\ Marked("stale", en_input.uid)' /\ Marked("stale", cache[1].uid)'
      <3> SUFFICES ASSUME Syncing', encryption_over' PROVE
            /\ system_state' = "CommRegained" /\ cache_update_count' = 0
            /\ Marked("stale", en_input.uid)' /\ Marked("stale", cache[1].uid)'
        OBVIOUS
      <3>1. ~Syncing
        BY <1>2, <1>3 DEF RoundInv
      <3>2. Restale = {<<"stale", u>> : u \in {en_input.uid, cache[1].uid}}
        BY <1>3 DEF Restale, Marks
      <3>3. <<"stale", en_input.uid>> \in odd' /\ <<"stale", cache[1].uid>> \in odd'
        BY <1>2, <3>2
      <3> QED BY <1>3, <1>4, <3>1, <3>3 DEF Marked
    <2>4. system_state' = "SyncCache" => response'[WordBytes] = NoByte /\ OffersEntry'
      <3>1. system_state' = "SyncCache" => response[WordBytes] = NoByte /\ OffersEntry
        BY <1>2, <2>2 DEF RoundInv
      <3> QED BY <1>2, <1>3, <3>1 DEF OffersEntry, Marked
    <2>5. system_state' \in {"SyncCache", "UpdateCache"} => en_input' = cache'[1]
      BY <1>2, <1>3, <2>2 DEF RoundInv
    <2> QED BY <2>1, <2>3, <2>4, <2>5 DEF RoundInv
  <1>8. EntryInv'
    <2>1. bank' = "read" /\ valRead' = 5 => Syncing' /\ system_state' = "SyncCache"
      BY <1>2, <1>3, <1>4, <1>5 DEF EntryInv
    <2> QED BY <1>3, <1>5, <2>1 DEF EntryInv, Working
  <1>9. ServeInv'
    <2>1. Serving' => bank' = "read" /\ system_state' = "Communicating"
      BY <1>4, <1>5 DEF Serving
    <2> QED BY <1>5, <2>1 DEF ServeInv, Syncing
  <1> QED BY <1>6, <1>7, <1>8, <1>9 DEF CoordInv

\* The answer to the request depends on the records only.
LEMMA RequestKept ==
    ASSUME UNCHANGED <<db, valRead, en_input>>
    PROVE  ServeRequest(en_input)' = ServeRequest(en_input)
  BY DEF ServeRequest, find, ServeCustomer, Answer

\* The answer to the first entry depends on the records only.
LEMMA EntryAnswerKept ==
    ASSUME UNCHANGED <<db, cache>>
    PROVE  ServeCacheEntry(cache[1])' = ServeCacheEntry(cache[1])
  BY DEF ServeCacheEntry, find, Answer

\* A byte is read: the request so far, and what is decided after the last byte.
LEMMA ByteRead ==
    ASSUME TypeInv, Reads
    PROVE  /\ Len(request') = Len(request) + 1 /\ Len(request) \in Nat
           /\ \A k \in 1 .. Len(request') :
                 request'[k] = IF k <= Len(request) THEN request[k] ELSE OnChannels
           /\ bank = "read" /\ byteNo' = 1
           /\ UNCHANGED machine /\ seen' = TRUE
           /\ UNCHANGED <<db, file, valRead, cnt, paid, service, serves>>
           /\ odd' = odd \cup Mistaken \cup Credited
           /\ OnChannels \in Blocks
           /\ \/ bank' = "read" /\ UNCHANGED reply
              \/ \E w \in Words :
                   /\ w \in GarbledWords \/ request'[1] = Seal(w)
                   /\ \A v \in Words : (\A k \in 1 .. WordBytes : request'[k] = Seal(v)) => w = v
                   /\ IF valRead # 5 THEN bank' = "status" /\ reply' = ServeRequest(w)
                      ELSE IF IsAdmin(w) THEN bank' = "down" /\ reply' = NoReply
                      ELSE bank' = "reply" /\ reply' = ServeCacheEntry(w)
                   /\ Len(request') = WordBytes
  <1>1. MachineTypes /\ BankTypes /\ OnChannels \in Blocks
    BY ChannelBlock DEF TypeInv
  <1>2. /\ bank = "read" /\ request' = Append(request, OnChannels) /\ byteNo' = 1
        /\ request \in Seq(Blocks) /\ Len(request) < WordBytes
        /\ UNCHANGED <<db, file, valRead, cnt, paid, service, serves>>
        /\ odd' = odd \cup Mistaken \cup Credited
    BY <1>1 DEF Reads, ReadRequest, BankTypes
  <1>3. /\ Len(request') = Len(request) + 1 /\ Len(request) \in Nat /\ DOMAIN request' = 1 .. Len(request')
        /\ \A k \in 1 .. Len(request') :
              /\ request'[k] = IF k <= Len(request) THEN request[k] ELSE OnChannels
              /\ request'[k] \in Blocks
    BY <1>1, <1>2
  <1>4. UNCHANGED machine /\ seen' = TRUE
    BY DEF Reads, ReadByte, Paced, machine, encrypter
  <1>5. CASE Len(request') < WordBytes
    <2>1. bank' = "read" /\ UNCHANGED reply
      BY <1>2, <1>5 DEF Reads, ReadRequest
    <2> QED BY <1>1, <1>2, <1>3, <1>4, <2>1
  <1>6. CASE ~(Len(request') < WordBytes)
    <2>1. PICK w \in Opens(Assemble(request')) :
              IF valRead # 5
              THEN bank' = "status" /\ reply' = ServeRequest(w)
              ELSE IF IsAdmin(w)
              THEN bank' = "down" /\ reply' = NoReply
              ELSE bank' = "reply" /\ reply' = ServeCacheEntry(w)
      BY <1>6 DEF Reads, ReadRequest
    <2>2. Len(request') = WordBytes
      BY <1>2, <1>3, <1>6, Sizes
    <2>3. /\ Assemble(request') \in Blocks /\ Assemble(request') \in {Garbled, request'[1]}
          /\ \A b : (\A k \in 1 .. WordBytes : request'[k] = b) => Assemble(request') = b
      BY <1>3, <2>2, Sizes, AssembleType
    <2>4. w \in Words
      BY <2>1, <2>3, BlockType
    <2>5. w \in GarbledWords \/ request'[1] = Seal(w)
      <3>1. CASE Assemble(request') = Garbled
        BY <2>1, <3>1 DEF Opens
      <3>2. CASE Assemble(request') # Garbled
        <4>1. request'[1] = Assemble(request') /\ request'[1] \in [sealed : Words]
          BY <2>3, <3>2 DEF Blocks
        <4>2. w = request'[1].sealed
          BY <2>1, <3>2, <4>1 DEF Opens
        <4> QED BY <4>1, <4>2 DEF Seal
      <3> QED BY <3>1, <3>2
    <2>6. ASSUME NEW v \in Words, \A k \in 1 .. WordBytes : request'[k] = Seal(v)
          PROVE  w = v
      BY <2>1, <2>3, <2>6, BlockType
    <2> QED BY <1>1, <1>2, <1>3, <1>4, <2>1, <2>2, <2>4, <2>5, <2>6
  <1> QED BY <1>5, <1>6

\* The bank reads a byte of a request, and decides after the last.
LEMMA ReadsCoord ==
    ASSUME TypeInv, TypeInv', CoordInv, Reads
    PROVE  CoordInv'
  <1>0. OfflineInv /\ RoundInv /\ EntryInv /\ ServeInv /\ MachineTypes
    BY DEF CoordInv, TypeInv
  <1>1. /\ Len(request') = Len(request) + 1 /\ Len(request) \in Nat
        /\ \A k \in 1 .. Len(request') :
              request'[k] = IF k <= Len(request) THEN request[k] ELSE OnChannels
        /\ bank = "read" /\ byteNo' = 1
        /\ UNCHANGED machine /\ seen' = TRUE
        /\ UNCHANGED <<db, file, valRead, cnt, paid, service, serves>>
        /\ odd' = odd \cup Mistaken \cup Credited
        /\ OnChannels \in Blocks
    BY ByteRead, Zenon
  <1>2. \/ bank' = "read" /\ UNCHANGED reply
        \/ \E w \in Words :
           /\ \A v \in Words : (\A k \in 1 .. WordBytes : request'[k] = Seal(v)) => w = v
           /\ IF valRead # 5 THEN bank' = "status" /\ reply' = ServeRequest(w)
              ELSE bank' \in {"down", "reply"}
           /\ Len(request') = WordBytes
    <2>1. \/ bank' = "read" /\ UNCHANGED reply
          \/ \E w \in Words :
                   /\ w \in GarbledWords \/ request'[1] = Seal(w)
                   /\ \A v \in Words : (\A k \in 1 .. WordBytes : request'[k] = Seal(v)) => w = v
                   /\ IF valRead # 5 THEN bank' = "status" /\ reply' = ServeRequest(w)
                      ELSE IF IsAdmin(w) THEN bank' = "down" /\ reply' = NoReply
                      ELSE bank' = "reply" /\ reply' = ServeCacheEntry(w)
                   /\ Len(request') = WordBytes
      BY ByteRead, Zenon
    <2> QED BY <2>1
  <1>3. OfflineInv' /\ RoundInv' /\ (Syncing' <=> Syncing)
    BY <1>0, <1>1, RoundKept
  <1>4. (Live' <=> Live) /\ (Waiting' <=> Waiting) /\ UNCHANGED <<system_state, en_input, en_output, response>>
    BY <1>1 DEF machine, Live, Waiting
  <1>5. system_state = "SyncCache" => OnChannels = en_output
    BY DEF OnChannels
  <1>6. EntryInv'
    <2>1. bank' \in {"read", "status", "reply", "down"}
      BY <1>2
    <2>2. bank' = "read" /\ valRead' = 5 /\ Syncing' => \A k \in 1 .. Len(request') : request'[k] = en_output'
      BY <1>0, <1>1, <1>3, <1>4, <1>5 DEF EntryInv
    <2> QED BY <1>0, <1>1, <1>3, <1>4, <2>1, <2>2 DEF EntryInv, Working
  <1>7. ASSUME valRead = 5 PROVE ServeInv'
    BY <1>1, <1>7 DEF ServeInv, Serving
  <1>8. ASSUME valRead # 5 PROVE ServeInv'
    <2>1. Serving /\ ~Syncing
      <3>1. valRead \in {1, 2}
        BY <1>1, <1>8 DEF TypeInv, BankTypes, Working
      <3>2. Serving
        BY <1>1, <3>1 DEF Serving
      <3> QED BY <1>0, <3>2 DEF ServeInv
    <2>2. /\ OnChannels = Garbled \/ \E w \in Requests : OnChannels = Seal(w)
          /\ Live => OnChannels = Seal(en_input)
      <3>1. CASE system_state = "Communicating"
        <4>1. OnChannels = Seal(en_input) /\ en_input \in Requests
          BY <1>0, <3>1 DEF OnChannels, MachineTypes, InService
        <4> QED BY <4>1
      <3>2. CASE system_state # "Communicating"
        BY <2>1, <3>2 DEF OnChannels, Live, Syncing
      <3> QED BY <3>1, <3>2
    <2>3. \A k \in 1 .. Len(request') :
             /\ request'[k] = Garbled \/ \E w \in Requests : request'[k] = Seal(w)
             /\ Live => request'[k] = Seal(en_input)
      <3> TAKE k \in 1 .. Len(request')
      <3>1. CASE k <= Len(request)
        <4>1. k \in 1 .. Len(request) /\ request'[k] = request[k]
          BY <1>1, <3>1
        <4> QED BY <1>0, <1>1, <2>1, <4>1 DEF ServeInv
      <3>2. CASE ~(k <= Len(request))
        BY <1>1, <2>2, <3>2
      <3> QED BY <3>1, <3>2
    <2>4. bank' # "read" /\ Live => reply' = ServeRequest(en_input)
      <3> SUFFICES ASSUME bank' # "read", Live PROVE reply' = ServeRequest(en_input)
        OBVIOUS
      <3>1. PICK w \in Words :
              /\ \A v \in Words : (\A k \in 1 .. WordBytes : request'[k] = Seal(v)) => w = v
              /\ reply' = ServeRequest(w) /\ Len(request') = WordBytes
        BY <1>2, <1>8
      <3>2. w = en_input
        BY <1>0, <2>3, <3>1 DEF MachineTypes
      <3> QED BY <3>1, <3>2
    <2>5. ServeRequest(en_input)' = ServeRequest(en_input)
      BY <1>1, <1>4, RequestKept
    <2>6. bank' \in {"read", "status"}
      BY <1>2, <1>8
    <2> QED BY <1>3, <1>4, <2>1, <2>3, <2>4, <2>5, <2>6 DEF ServeInv
  <1> QED BY <1>3, <1>6, <1>7, <1>8 DEF CoordInv

\* A byte is written: how far the bank is, and what the machine has received.
Taking == system_state \in {"Communicating", "SyncCache"}
LEMMA ByteTaken ==
    ASSUME TypeInv, WriteReply, TakeByte(byteNo, reply.block)
    PROVE  /\ bank = "reply" /\ byteNo \in 1 .. WordBytes /\ UNCHANGED <<db, file>>
           /\ reply.block \in Blocks /\ reply.block # NoByte
           /\ \/ byteNo < WordBytes /\ bank' = "reply" /\ byteNo' = byteNo + 1 /\ UNCHANGED <<valRead, reply>>
              \/ byteNo = WordBytes /\ reply.line # 0 /\ bank' = "save" /\ UNCHANGED <<valRead, reply>>
              \/ byteNo = WordBytes /\ reply.line = 0 /\ bank' = "poll" /\ reply' = NoReply
           /\ UNCHANGED <<en_input, en_output, encryption_over, allocating, adequate_cash_in_atm,
                          adequate_cash_in_account, user_is_admin, cash, cache, cache_mode,
                          cache_update_count>>
           /\ ~Taking => UNCHANGED <<system_state, response>>
           /\ Taking => /\ \A k \in 1 .. WordBytes :
                              response'[k] = IF k = byteNo THEN reply.block ELSE response[k]
                        /\ \/ UNCHANGED system_state /\ \E k \in 1 .. WordBytes : response'[k] = NoByte
                           \/ /\ \A k \in 1 .. WordBytes : response'[k] # NoByte
                              /\ system_state' = IF system_state = "SyncCache" THEN "UpdateCache" ELSE "Decrypt"
  <1> USE DEF encrypter
  <1>1. /\ bank = "reply" /\ byteNo \in 1 .. WordBytes /\ UNCHANGED <<db, file>>
        /\ reply.block \in Blocks /\ reply.block # NoByte
    <2>1. bank = "reply" /\ byteNo <= WordBytes /\ byteNo \in 1 .. WordBytes + 1 /\ UNCHANGED <<db, file>>
      BY DEF WriteReply, TypeInv, BankTypes
    <2> QED BY <2>1, BlockType, Sizes DEF TypeInv, BankTypes, Replies
  <1>2. \/ byteNo < WordBytes /\ bank' = "reply" /\ byteNo' = byteNo + 1 /\ UNCHANGED <<valRead, reply>>
        \/ byteNo = WordBytes /\ reply.line # 0 /\ bank' = "save" /\ UNCHANGED <<valRead, reply>>
        \/ byteNo = WordBytes /\ reply.line = 0 /\ bank' = "poll" /\ reply' = NoReply
    BY <1>1, Sizes DEF WriteReply, NoChange, NextRound
  <1>3. UNCHANGED <<en_input, en_output, encryption_over, allocating, adequate_cash_in_atm,
                    adequate_cash_in_account, user_is_admin, cash, cache, cache_mode,
                    cache_update_count>>
    BY DEF TakeByte
  <1>4. ~Taking => UNCHANGED <<system_state, response>>
    BY DEF TakeByte, Taking
  <1>5. ASSUME Taking
        PROVE  /\ \A k \in 1 .. WordBytes :
                     response'[k] = IF k = byteNo THEN reply.block ELSE response[k]
               /\ \/ UNCHANGED system_state /\ \E k \in 1 .. WordBytes : response'[k] = NoByte
                  \/ /\ \A k \in 1 .. WordBytes : response'[k] # NoByte
                     /\ system_state' = IF system_state = "SyncCache" THEN "UpdateCache" ELSE "Decrypt"
    <2>1. /\ response' = [response EXCEPT ![byteNo] = reply.block]
          /\ system_state' = IF ~AllReceived(response') THEN system_state
                             ELSE IF system_state = "SyncCache" THEN "UpdateCache" ELSE "Decrypt"
      BY <1>5 DEF TakeByte, Taking
    <2>2. \A k \in 1 .. WordBytes : response'[k] = IF k = byteNo THEN reply.block ELSE response[k]
      BY <1>1, <2>1 DEF TypeInv, MachineTypes, Bytes
    <2> QED BY <2>1, <2>2, Sizes DEF AllReceived
  <1> QED BY <1>1, <1>2, <1>3, <1>4, <1>5

\* The bank writes a byte of a reply.
LEMMA BytesCoord ==
    ASSUME TypeInv, TypeInv', CoordInv, Writes, WriteReply, TakeByte(byteNo, reply.block)
    PROVE  CoordInv'
  <1>0. OfflineInv /\ RoundInv /\ EntryInv /\ ServeInv /\ odd \subseteq odd' /\ seen' = TRUE
        /\ UNCHANGED <<service, serves>> /\ valRead \in {1, 2, 5}
    <2>1. bank = "reply"
      BY DEF WriteReply
    <2> QED BY <2>1 DEF CoordInv, Writes, Paced, TypeInv, BankTypes, Working
  <1>1. /\ bank = "reply" /\ byteNo \in 1 .. WordBytes /\ UNCHANGED <<db, file>>
        /\ reply.block \in Blocks /\ reply.block # NoByte
        /\ \/ byteNo < WordBytes /\ bank' = "reply" /\ byteNo' = byteNo + 1 /\ UNCHANGED <<valRead, reply>>
           \/ byteNo = WordBytes /\ reply.line # 0 /\ bank' = "save" /\ UNCHANGED <<valRead, reply>>
           \/ byteNo = WordBytes /\ reply.line = 0 /\ bank' = "poll" /\ reply' = NoReply
        /\ UNCHANGED <<en_input, en_output, encryption_over, allocating, adequate_cash_in_atm,
                       adequate_cash_in_account, user_is_admin, cash, cache, cache_mode,
                       cache_update_count>>
        /\ ~Taking => UNCHANGED <<system_state, response>>
    BY ByteTaken, Zenon
  <1>2. Taking => /\ \A k \in 1 .. WordBytes :
                        response'[k] = IF k = byteNo THEN reply.block ELSE response[k]
                  /\ \/ UNCHANGED system_state /\ \E k \in 1 .. WordBytes : response'[k] = NoByte
                     \/ /\ \A k \in 1 .. WordBytes : response'[k] # NoByte
                        /\ system_state' = IF system_state = "SyncCache" THEN "UpdateCache" ELSE "Decrypt"
    BY ByteTaken, Zenon
  <1>3. (Syncing' <=> Syncing) /\ (Waiting' <=> Waiting)
    BY <1>1, <1>2 DEF Syncing, Waiting, Taking
  <1>4. OfflineInv'
    BY <1>0, <1>1, <1>2 DEF OfflineInv, Taking
  <1>5. OffersEntry => OffersEntry'
    BY <1>0, <1>1 DEF OffersEntry, Marked
  <1>6. ASSUME system_state' = "SyncCache"
        PROVE  system_state = "SyncCache" /\ response'[WordBytes] = NoByte
    <2>1. system_state = "SyncCache"
      BY <1>1, <1>2, <1>6 DEF Taking
    <2>2. Syncing /\ response[WordBytes] = NoByte
      BY <1>0, <2>1 DEF RoundInv, Syncing
    <2>3. valRead = 5
      BY <1>0, <1>1, <2>2 DEF ServeInv, Serving
    <2>4. \A k \in 1 .. byteNo - 1 : response[k] = reply.block
      BY <1>0, <1>1, <2>2, <2>3 DEF EntryInv
    <2>5. byteNo # WordBytes
      <3> SUFFICES ASSUME byteNo = WordBytes PROVE FALSE
        OBVIOUS
      <3>1. \A k \in 1 .. WordBytes : response'[k] = reply.block
        BY <1>1, <1>2, <2>1, <2>4, Sizes DEF Taking
      <3>2. system_state' = "UpdateCache"
        BY <1>1, <1>2, <2>1, <3>1 DEF Taking
      <3> QED BY <1>6, <3>2
    <2> QED BY <1>1, <1>2, <2>1, <2>2, <2>5, Sizes DEF Taking
  <1>7. RoundInv'
    <2>1. Syncing' => seen' /\ ~cache_mode'
      BY <1>0, <1>1, <1>3 DEF RoundInv
    <2>2. system_state' \in {"SyncCache", "UpdateCache"} => en_input' = cache'[1]
      BY <1>0, <1>1, <1>2 DEF RoundInv, Taking
    <2>3. Syncing' /\ encryption_over' => ~Taking /\ Syncing /\ encryption_over
      <3>1. Taking /\ Syncing => system_state = "SyncCache"
        BY DEF Taking, Syncing
      <3> QED BY <1>0, <1>1, <1>3, <3>1 DEF RoundInv
    <2>4. Syncing' /\ encryption_over' =>
            /\ system_state' = "CommRegained" /\ cache_update_count' = 0
            /\ Marked("stale", en_input.uid)' /\ Marked("stale", cache[1].uid)'
      BY <1>0, <1>1, <2>3 DEF RoundInv, Marked
    <2>5. system_state' = "SyncCache" => response'[WordBytes] = NoByte /\ OffersEntry'
      BY <1>0, <1>5, <1>6 DEF RoundInv
    <2> QED BY <2>1, <2>2, <2>4, <2>5 DEF RoundInv
  <1>8. EntryInv'
    <2>1. bank' = "reply" /\ valRead' = 5 /\ Syncing' =>
             system_state' = "SyncCache" /\ \A k \in 1 .. byteNo' - 1 : response'[k] = reply'.block
      <3> SUFFICES ASSUME bank' = "reply", valRead' = 5, Syncing'
                   PROVE system_state' = "SyncCache" /\ \A k \in 1 .. byteNo' - 1 : response'[k] = reply'.block
        OBVIOUS
      <3>1. /\ system_state = "SyncCache" /\ byteNo < WordBytes /\ byteNo' = byteNo + 1
            /\ UNCHANGED <<valRead, reply>>
            /\ \A k \in 1 .. byteNo - 1 : response[k] = reply.block
        BY <1>0, <1>1, <1>3 DEF EntryInv
      <3>2. response'[WordBytes] = NoByte
        BY <1>0, <1>1, <1>2, <3>1, Sizes DEF Taking, RoundInv
      <3>3. system_state' = "SyncCache"
        BY <1>2, <3>1, <3>2, Sizes DEF Taking
      <3>4. \A k \in 1 .. byteNo : response'[k] = reply.block
        BY <1>1, <1>2, <3>1, Sizes DEF Taking
      <3> QED BY <1>1, <3>1, <3>3, <3>4, Sizes
    <2>2. bank' \in Working /\ valRead' = 5 => serves' < service' \/ Waiting' \/ Syncing'
      BY <1>0, <1>1, <1>3 DEF EntryInv, Working
    <2> QED BY <1>1, <2>1, <2>2 DEF EntryInv
  <1>9. ServeInv'
    <2>1. Serving' => Serving /\ bank' = "reply"
      BY <1>0, <1>1 DEF Serving
    <2>2. Live' => Live /\ UNCHANGED system_state
      BY <1>0, <1>1, <1>2 DEF Live, Taking
    <2>3. ASSUME Serving', Live'
          PROVE  /\ reply' = ServeRequest(en_input)' /\ reply'.status # 4
                 /\ \A k \in 1 .. byteNo' - 1 : response'[k] = reply'.block
                 /\ reply'.status # 3 => adequate_cash_in_account' = (reply'.status = 1)
                 /\ user_is_admin' = (reply'.status = 3)
      <3>1. /\ Serving /\ Live /\ byteNo < WordBytes /\ byteNo' = byteNo + 1
            /\ UNCHANGED <<valRead, reply>>
        BY <1>1, <2>1, <2>2, <2>3
      <3>2. ServeRequest(en_input)' = ServeRequest(en_input)
        BY <1>1, <3>1, RequestKept
      <3>3. /\ reply = ServeRequest(en_input) /\ reply.status # 4
            /\ \A k \in 1 .. byteNo - 1 : response[k] = reply.block
            /\ reply.status # 3 => adequate_cash_in_account = (reply.status = 1)
            /\ user_is_admin = (reply.status = 3)
        BY <1>0, <1>1, <3>1 DEF ServeInv
      <3>4. \A k \in 1 .. byteNo : response'[k] = reply.block
        BY <1>1, <1>2, <3>1, <3>3, Sizes DEF Taking, Live
      <3> QED BY <1>1, <3>1, <3>2, <3>3, <3>4, Sizes
    <2>4. Serving' => ~Syncing'
      BY <1>0, <1>3, <2>1 DEF ServeInv
    <2> QED BY <2>1, <2>3, <2>4 DEF ServeInv
  <1> QED BY <1>4, <1>7, <1>8, <1>9 DEF CoordInv

\* A status is written: what the machine makes of it.
LEMMA StatusTaken ==
    ASSUME TypeInv, WriteStatus, TakeStatus(reply.status)
    PROVE  /\ bank = "status" /\ bank' = "reply" /\ valRead \in {1, 2} /\ byteNo = 1
           /\ UNCHANGED <<db, file, valRead, cnt, byteNo, request, reply>>
           /\ UNCHANGED <<en_input, en_output, cash, cache, cache_mode, cache_update_count>>
           /\ system_state # "Communicating" => UNCHANGED machine
           /\ system_state = "Communicating" /\ reply.status = 4 =>
                 system_state' = "Ready" /\ Cleared
           /\ system_state = "Communicating" /\ reply.status # 4 =>
                 /\ UNCHANGED <<system_state, encryption_over, allocating, adequate_cash_in_atm,
                                response>>
                 /\ reply.status # 0 =>
                      /\ user_is_admin' = (reply.status = 3)
                      /\ reply.status # 3 => adequate_cash_in_account' = (reply.status = 1)
  <1>1. /\ bank = "status" /\ bank' = "reply" /\ valRead \in {1, 2} /\ byteNo = 1
        /\ UNCHANGED <<db, file, valRead, cnt, byteNo, request, reply>>
    BY DEF WriteStatus, TypeInv, BankTypes, Working
  <1>2. UNCHANGED <<en_input, en_output, cash, cache, cache_mode, cache_update_count>>
    BY DEF TakeStatus
  <1>3. system_state # "Communicating" => UNCHANGED machine
    BY <1>2 DEF TakeStatus, machine
  <1>4. system_state = "Communicating" /\ reply.status = 4 => system_state' = "Ready" /\ Cleared
    BY DEF TakeStatus
  <1>5. system_state = "Communicating" /\ reply.status # 4 =>
                 /\ UNCHANGED <<system_state, encryption_over, allocating, adequate_cash_in_atm,
                                response>>
                 /\ reply.status # 0 =>
                      /\ user_is_admin' = (reply.status = 3)
                      /\ reply.status # 3 => adequate_cash_in_account' = (reply.status = 1)
    BY DEF TakeStatus
  <1> QED BY <1>1, <1>2, <1>3, <1>4, <1>5

\* The bank writes a status.
LEMMA StatusCoord ==
    ASSUME TypeInv, TypeInv', CoordInv, Writes, WriteStatus, TakeStatus(reply.status)
    PROVE  CoordInv'
  <1>0. /\ OfflineInv /\ RoundInv /\ EntryInv /\ ServeInv /\ odd \subseteq odd' /\ seen' = TRUE
        /\ UNCHANGED <<service, serves>>
    BY DEF CoordInv, Writes, Paced
  <1>1. /\ bank = "status" /\ bank' = "reply" /\ valRead \in {1, 2} /\ byteNo = 1
        /\ UNCHANGED <<db, file, valRead, byteNo, reply>>
        /\ UNCHANGED <<en_input, en_output, cash, cache, cache_mode, cache_update_count>>
        /\ system_state # "Communicating" => UNCHANGED machine
        /\ system_state = "Communicating" /\ reply.status = 4 => system_state' = "Ready"
        /\ system_state = "Communicating" /\ reply.status # 4 =>
                 /\ UNCHANGED <<system_state, encryption_over, allocating, adequate_cash_in_atm,
                                response>>
                 /\ reply.status # 0 =>
                      /\ user_is_admin' = (reply.status = 3)
                      /\ reply.status # 3 => adequate_cash_in_account' = (reply.status = 1)
    BY StatusTaken, Zenon
  <1>2. Serving /\ ~Syncing
    BY <1>0, <1>1 DEF Serving, ServeInv
  <1>3. ~Syncing' /\ (system_state' # "Communicating" \/ UNCHANGED system_state)
    BY <1>1, <1>2 DEF Syncing, machine
  <1>4. OfflineInv'
    BY <1>0, <1>1 DEF OfflineInv, machine
  <1>5. RoundInv'
    BY <1>3 DEF RoundInv, Syncing
  <1>6. EntryInv'
    BY <1>1 DEF EntryInv
  <1>7. ServeInv'
    <2>1. ASSUME Live'
          PROVE  /\ reply' = ServeRequest(en_input)' /\ reply'.status # 4
                 /\ reply'.status # 3 => adequate_cash_in_account' = (reply'.status = 1)
                 /\ user_is_admin' = (reply'.status = 3)
      <3>1. Live /\ reply.status # 4 /\ system_state = "Communicating"
        BY <1>0, <1>1, <1>3, <2>1 DEF Live
      <3>2. reply = ServeRequest(en_input) /\ ServeRequest(en_input)' = ServeRequest(en_input)
        BY <1>0, <1>1, <1>2, <3>1, RequestKept DEF ServeInv
      <3>3. reply.status # 0
        <4>1. Kept(db) /\ en_input \in Words
          BY DEF TypeInv, BankTypes, MachineTypes
        <4> DEFINE l == find(en_input.uid, myHash(en_input.pin))
        <4>2. l # 0 => db[l].admin \/ ~db[l].admin
          OBVIOUS
        <4>3. reply.status \in {1, 2, 3, 4}
          BY <3>2, <4>1, <4>2, ServeRequestType
        <4> QED BY <4>3
      <3> QED BY <1>1, <3>1, <3>2, <3>3
    <2>2. 1 .. byteNo' - 1 = {}
      BY <1>1
    <2> QED BY <1>1, <1>3, <2>1, <2>2 DEF ServeInv, Serving
  <1> QED BY <1>4, <1>5, <1>6, <1>7 DEF CoordInv

\* The steps of the bank that the machine makes nothing of.
LEMMA BankCoord ==
    ASSUME TypeInv, TypeInv', CoordInv, SetsUp \/ Saves \/ Stops \/ Starts
    PROVE  CoordInv' /\ UNCHANGED <<en_input, cache, service>>
  <1> USE DEF encrypter
  <1>0. OfflineInv /\ RoundInv /\ EntryInv /\ ServeInv
    BY DEF CoordInv
  <1>1. CASE SetsUp
    <2>1. /\ bank = "setup" /\ bank' \in {"setup", "poll"} /\ odd' = odd /\ seen' = TRUE
          /\ UNCHANGED service
      BY <1>1 DEF SetsUp, WriteSetup, NextRound, Paced, ghosts
    <2>2. EntryInv' /\ ServeInv'
      BY <2>1 DEF EntryInv, ServeInv, Serving, Working
    <2>3. /\ UNCHANGED <<en_input, en_output, encryption_over, allocating, adequate_cash_in_atm,
                         adequate_cash_in_account, user_is_admin, response, cash, cache,
                         cache_mode, cache_update_count>>
          /\ system_state' = system_state \/ (system_state = "Setup" /\ system_state' = "Ready")
      BY <1>1 DEF SetsUp, TakeSetup
    <2>4. CASE system_state' = system_state
      <3>1. UNCHANGED machine
        BY <2>3, <2>4 DEF machine
      <3> QED BY <1>0, <2>1, <2>2, <2>3, <3>1, RoundKept DEF CoordInv
    <2>5. CASE system_state' = "Ready"
      BY <2>1, <2>2, <2>3, <2>5 DEF CoordInv, OfflineInv, RoundInv, Syncing
    <2> QED BY <2>3, <2>4, <2>5
  <1>2. CASE Saves \/ Stops \/ Starts
    <2>1. UNCHANGED <<atmVars, service, serves, seen>> /\ odd \subseteq odd'
      BY <1>2 DEF Saves, Stops, Starts, ghosts
    <2>2. UNCHANGED machine /\ UNCHANGED <<en_input, cache, chanAddr_is_0, system_state>>
      BY <2>1 DEF atmVars, machine
    <2>3. OfflineInv' /\ RoundInv' /\ (Syncing' <=> Syncing) /\ (Waiting' <=> Waiting)
      BY <1>0, <2>1, <2>2, RoundKept DEF Waiting
    <2>4. bank' \in {"rewrite", "poll", "down", "setup"} /\ (bank' = "rewrite" => bank \in Working /\ UNCHANGED valRead)
      BY <1>2 DEF Saves, Stops, Starts, Debit, Rewrite, NextRound, Crash, Start, Working
    <2>5. EntryInv' /\ ServeInv'
      BY <1>0, <2>1, <2>3, <2>4 DEF EntryInv, ServeInv, Serving, Working
    <2> QED BY <2>1, <2>2, <2>3, <2>5 DEF CoordInv
  <1> QED BY <1>1, <1>2

\* What the machine's own steps leave of the common protocol: no round begins, and
\* a request that is waited for is the one that was.
LEMMA MovesApart ==
    ASSUME TypeInv, AtmMoves
    PROVE  /\ Syncing' => Syncing
           /\ Live' => /\ Live
                       /\ UNCHANGED <<en_input, response, adequate_cash_in_account, user_is_admin>>
           /\ system_state = "SyncCache" =>
                 \/ UNCHANGED <<system_state, en_output, response>> \/ system_state' = "Ready"
           /\ Waiting' \/ Syncing' \/ serves' < service' \/
                 (~Waiting /\ ~Syncing /\ UNCHANGED <<serves, service>>)
           /\ Waiting => Waiting' \/ serves' < service'
           /\ Syncing => Waiting' \/ Syncing'
           /\ serves < service => serves' < service'
           /\ UNCHANGED bankVars /\ (chanAddr_is_0 => chanAddr_is_0')
  <1> USE DEF encrypter
  <1>0. UNCHANGED bankVars /\ service \in Nat /\ serves \in Nat /\ serves <= service
    BY MachineKeepsBank DEF TypeInv, GhostTypes
  <1>1. CASE AtmStep
    <2>1. UNCHANGED <<serves, service>>
      BY <1>1 DEF AtmStep, ServesReply, ServesOffline, Works, ghosts
    <2>2. CASE Allocated
      <3>1. UNCHANGED <<system_state, en_input, en_output, response, adequate_cash_in_account, user_is_admin,
                        chanAddr_is_0>>
        BY <2>2 DEF Allocated
      <3> QED BY <1>0, <2>1, <3>1 DEF Syncing, Waiting, Live
    <2>3. CASE ServesReply \/ ServesOffline \/ HandedOut \/ EndService
      <3>1. /\ system_state \in {"Decrypt", "Offline", "Dispensing", "Dummy", "NotInCache", "Ethernet"}
            /\ system_state' \in {"Dispensing", "Dummy", "Ready"} /\ UNCHANGED chanAddr_is_0
        BY <2>3 DEF ServesReply, ServesOffline, ServeReply, ServeOffline, HandedOut, EndService, Ending
      <3> QED BY <1>0, <2>1, <3>1 DEF Syncing, Waiting, Live
    <2>4. CASE NextEntry \/ UpdateEntry
      <3>1. /\ system_state \in {"CommRegained", "UpdateCache"}
            /\ system_state' \in {"SyncCache", "CommRegained", "Ready"} /\ UNCHANGED chanAddr_is_0
        BY <2>4 DEF NextEntry, UpdateEntry
      <3> QED BY <1>0, <2>1, <3>1 DEF Syncing, Waiting, Live
    <2> QED BY <1>1, <2>2, <2>3, <2>4 DEF AtmStep, Works
  <1>2. CASE Enters
    <2>1. CASE PressStart /\ UNCHANGED service
      <3>1. system_state = "Ready" /\ system_state' = "TakingInput" /\ UNCHANGED <<serves, service, chanAddr_is_0>>
        BY <1>2, <2>1 DEF Enters, PressStart
      <3> QED BY <1>0, <3>1 DEF Syncing, Waiting, Live
    <2>2. CASE \E w \in Requests : Submit(w) /\ service' = service + 1
      <3>1. /\ system_state = "TakingInput" /\ system_state' \in {"Communicating", "Ethernet"}
            /\ UNCHANGED <<serves, chanAddr_is_0>> /\ service' = service + 1
        BY <1>2, <2>2 DEF Enters, Submit
      <3>2. serves' < service'
        BY <1>0, <3>1
      <3> QED BY <1>0, <3>1, <3>2 DEF Syncing, Waiting, Live
    <2> QED BY <1>2, <2>1, <2>2 DEF Enters
  <1>3. CASE GivesUp
    <2>1. /\ system_state = "Communicating" /\ system_state' \in {"NotInCache", "Offline"}
          /\ UNCHANGED <<serves, service, chanAddr_is_0>>
      BY <1>3 DEF GivesUp, TimeOut
    <2> QED BY <1>0, <2>1 DEF Syncing, Waiting, Live
  <1>4. CASE Resets
    <2>1. system_state' = "Ready" /\ (chanAddr_is_0 => chanAddr_is_0') /\ UNCHANGED <<serves, service>>
      BY <1>4 DEF Resets, PressReset
    <2> QED BY <1>0, <2>1 DEF Syncing, Waiting, Live
  <1> QED BY <1>1, <1>2, <1>3, <1>4 DEF AtmMoves

\* The machine's own steps leave the bank's part of the protocol.
LEMMA MovesKeepServing ==
    ASSUME TypeInv, EntryInv, ServeInv, AtmMoves
    PROVE  EntryInv' /\ ServeInv'
  <1>1. /\ Syncing' => Syncing
        /\ Live' => /\ Live
                    /\ UNCHANGED <<en_input, response, adequate_cash_in_account, user_is_admin>>
        /\ system_state = "SyncCache" =>
              \/ UNCHANGED <<system_state, en_output, response>> \/ system_state' = "Ready"
        /\ Waiting => Waiting' \/ serves' < service'
        /\ Syncing => Waiting' \/ Syncing'
        /\ serves < service => serves' < service'
        /\ chanAddr_is_0 => chanAddr_is_0'
    BY MovesApart, Zenon
  <1>2. UNCHANGED <<bank, db, valRead, byteNo, request, reply>>
    BY MachineKeepsBank DEF bankVars
  <1>3. Syncing' => system_state' # "Ready"
    BY DEF Syncing
  <1>4. EntryInv'
    <2>1. bank' = "confirm" => chanAddr_is_0'
      BY <1>1, <1>2 DEF EntryInv
    <2>2. bank' \in {"read", "reply"} /\ valRead' = 5 /\ Syncing' =>
            /\ system_state = "SyncCache" /\ system_state' = "SyncCache" /\ Syncing
            /\ UNCHANGED <<en_output, response>>
      BY <1>1, <1>2, <1>3 DEF EntryInv
    <2>3. bank' = "read" /\ valRead' = 5 /\ Syncing' =>
            \A k \in 1 .. Len(request') : request'[k] = en_output'
      BY <1>2, <2>2 DEF EntryInv
    <2>4. bank' = "reply" /\ valRead' = 5 /\ Syncing' =>
            \A k \in 1 .. byteNo' - 1 : response'[k] = reply'.block
      BY <1>2, <2>2 DEF EntryInv
    <2>5. bank' \in Working /\ valRead' = 5 => serves' < service' \/ Waiting' \/ Syncing'
      BY <1>1, <1>2 DEF EntryInv
    <2> QED BY <2>1, <2>2, <2>3, <2>4, <2>5 DEF EntryInv
  <1>5. ServeInv'
    <2>1. Serving' <=> Serving
      BY <1>2 DEF Serving
    <2>2. Live' => ServeRequest(en_input)' = ServeRequest(en_input)
      BY <1>1, <1>2, RequestKept
    <2>3. Serving' => ~Syncing'
      BY <1>1, <2>1 DEF ServeInv
    <2>4. Serving' /\ bank' = "read" =>
          \A k \in 1 .. Len(request') :
             /\ request'[k] = Garbled \/ \E w \in Requests : request'[k] = Seal(w)
             /\ Live' => request'[k] = Seal(en_input')
      BY <1>1, <1>2, <2>1 DEF ServeInv
    <2>5. Serving' /\ bank' # "read" /\ Live' => reply' = ServeRequest(en_input)'
      BY <1>1, <1>2, <2>1, <2>2 DEF ServeInv
    <2>6. Serving' /\ bank' = "reply" /\ Live' =>
          /\ reply'.status # 4
          /\ \A k \in 1 .. byteNo' - 1 : response'[k] = reply'.block
          /\ reply'.status # 3 => adequate_cash_in_account' = (reply'.status = 1)
          /\ user_is_admin' = (reply'.status = 3)
      BY <1>1, <1>2, <2>1 DEF ServeInv
    <2> QED BY <2>3, <2>4, <2>5, <2>6 DEF ServeInv
  <1> QED BY <1>4, <1>5

\* Two words with one upper half are of one user and one PIN.
LEMMA SameCard ==
    ASSUME NEW v \in Words, NEW w \in Words, High(v) = High(w)
    PROVE  v.uid = w.uid /\ v.pin = w.pin
  <1> DEFINE a == v.uid
             b == w.uid
             p == v.pin
             q == w.pin
             R == PinRange
  <1>1. a \in Nat /\ b \in Nat /\ p \in 0 .. R - 1 /\ q \in 0 .. R - 1 /\ R \in Nat \ {0}
    BY FieldAssumption DEF Words
  <1>2. a * R + p = b * R + q
    BY DEF High
  <1> HIDE DEF a, b, p, q, R
  <1>3. ASSUME NEW x \in Nat, NEW y \in Nat, NEW r \in 0 .. R - 1, NEW s \in 0 .. R - 1,
               x * R + r = y * R + s, x < y
        PROVE  FALSE
    <2>1. PICK d \in Nat : y = x + 1 + d
      BY <1>3
    <2>2. y * R = x * R + R + d * R /\ d * R \in Nat /\ x * R \in Nat
      BY <1>1, <2>1
    <2> QED BY <1>1, <1>3, <2>2
  <1>4. a = b
    <2>1. ~(a < b) /\ ~(b < a)
      BY <1>1, <1>2, <1>3
    <2> QED BY <1>1, <2>1
  <1>5. p = q
    <2>1. a * R \in Nat
      BY <1>1
    <2> QED BY <1>1, <1>2, <1>4, <2>1
  <1> QED BY <1>4, <1>5 DEF a, b, p, q

\* A time-out leaves the machine with an entry of the customer, or without one.
LEMMA TimeOutFinds ==
    ASSUME TypeInv, TimeOut
    PROVE  OfflineInv'
  <1> USE DEF encrypter
  <1>1. MachineTypes
    BY DEF TypeInv
  <1>2. CASE OfflineEntry = {}
    BY <1>2 DEF TimeOut, OfflineInv
  <1>3. CASE OfflineEntry # {}
    <2>1. PICK j \in OfflineEntry : adequate_cash_in_account' = (en_input.low <= cache[j].low)
      BY <1>3 DEF TimeOut
    <2>2. j \in Places /\ High(cache[j]) = High(en_input)
      BY <2>1 DEF OfflineEntry, MatchOf, Places
    <2>3. cache[j].uid = en_input.uid /\ cache[j].pin = en_input.pin
      BY <1>1, <2>2, SameCard DEF MachineTypes, Caches
    <2>4. cache_mode' = TRUE /\ UNCHANGED <<cache, en_input>>
      BY <1>3 DEF TimeOut
    <2> QED BY <2>1, <2>2, <2>3, <2>4 DEF OfflineInv
  <1> QED BY <1>2, <1>3

\* The machine's own steps leave its part of the protocol.
LEMMA MovesKeepRound ==
    ASSUME TypeInv, OfflineInv, RoundInv, AtmMoves
    PROVE  OfflineInv' /\ RoundInv'
  <1> USE DEF encrypter
  <1>0. MachineTypes
    BY DEF TypeInv
  <1>1. CASE Allocated /\ UNCHANGED <<bankVars, ghosts, seen>>
    <2>1. /\ UNCHANGED <<system_state, en_input, en_output, encryption_over, adequate_cash_in_account,
                         response, cache, cache_mode, cache_update_count>>
          /\ odd' = odd /\ seen' = seen
      BY <1>1 DEF Allocated, ghosts
    <2>2. OffersEntry => OffersEntry'
      BY <2>1 DEF OffersEntry, Marked
    <2> QED BY <2>1, <2>2 DEF OfflineInv, RoundInv, Syncing, Marked
  <1>2. CASE NextEntry /\ UNCHANGED <<bankVars, ghosts, seen>>
    <2>1. /\ system_state = "CommRegained" /\ en_input' = cache[1] /\ UNCHANGED cache
          /\ odd' = odd /\ seen' = seen /\ system_state' # "Offline"
      BY <1>2 DEF NextEntry, ghosts
    <2>2. CASE cache_update_count = CacheSize
      <3>1. system_state' = "Ready"
        BY <1>2, <2>2 DEF NextEntry
      <3> QED BY <3>1 DEF OfflineInv, RoundInv, Syncing
    <2>3. CASE cache_update_count # CacheSize
      <3>1. /\ system_state' = "SyncCache" /\ encryption_over' = FALSE /\ response' = NoBytes
            /\ en_output' = IF encryption_over THEN en_output ELSE Seal(cache[1])
            /\ UNCHANGED cache_mode
        BY <1>2, <2>3 DEF NextEntry
      <3>2. response'[WordBytes] = NoByte
        BY <3>1, Sizes DEF NoBytes
      <3>3. OffersEntry'
        <4>1. CASE ~encryption_over
          BY <2>1, <3>1, <4>1 DEF OffersEntry
        <4>2. CASE encryption_over
          <5>1. Marked("stale", en_input.uid) /\ Marked("stale", cache[1].uid)
            BY <2>1, <4>2 DEF RoundInv, Syncing
          <5>2. en_output' = Seal(en_input) /\ en_input \in Words
            BY <1>0, <3>1, <4>2 DEF MachineTypes
          <5> QED BY <2>1, <5>1, <5>2 DEF OffersEntry, Marked
        <4> QED BY <4>1, <4>2
      <3> QED BY <2>1, <3>1, <3>2, <3>3 DEF OfflineInv, RoundInv, Syncing
    <2> QED BY <2>2, <2>3
  <1>3. CASE UpdateEntry /\ UNCHANGED <<bankVars, ghosts, seen>>
    <2>1. /\ system_state = "UpdateCache" /\ system_state' = "CommRegained" /\ seen' = seen
          /\ UNCHANGED <<encryption_over, cache_mode>>
      BY <1>3 DEF UpdateEntry
    <2>2. ~encryption_over /\ seen /\ ~cache_mode
      BY <2>1 DEF RoundInv, Syncing
    <2> QED BY <2>1, <2>2 DEF OfflineInv, RoundInv
  <1>4. CASE GivesUp
    <2>1. system_state' \in {"NotInCache", "Offline"}
      BY <1>4 DEF GivesUp, TimeOut
    <2>2. OfflineInv'
      BY <1>4, TimeOutFinds DEF GivesUp
    <2> QED BY <2>1, <2>2 DEF RoundInv, Syncing
  <1>5. CASE ServesReply \/ ServesOffline \/ HandedOut \/ EndService \/ Enters \/ Resets
    <2>1. system_state' \in {"Dispensing", "Dummy", "Ready", "TakingInput", "Communicating", "Ethernet"}
      BY <1>5 DEF ServesReply, ServesOffline, ServeReply, ServeOffline, HandedOut, EndService, Enters,
                  PressStart, Submit, Resets, PressReset
    <2> QED BY <2>1 DEF OfflineInv, RoundInv, Syncing
  <1> QED BY <1>1, <1>2, <1>3, <1>4, <1>5 DEF AtmMoves, AtmStep, Works

\* The common protocol is inductive.
LEMMA CoordStep ==
    ASSUME TypeInv, TypeInv', CoordInv, [Next]_vars
    PROVE  CoordInv'
  <1>1. CASE Asks
    BY <1>1, AsksCoord
  <1>2. CASE Reads
    BY <1>2, ReadsCoord
  <1>3. CASE Writes
    BY <1>3, BytesCoord, StatusCoord DEF Writes
  <1>4. CASE SetsUp \/ Saves \/ Stops \/ Starts
    BY <1>4, BankCoord
  <1>5. CASE AtmMoves
    BY <1>5, MovesKeepServing, MovesKeepRound DEF CoordInv
  <1>6. CASE UNCHANGED vars
    <2>1. UNCHANGED machine /\ odd' = odd /\ seen' = seen /\ UNCHANGED en_input
      BY <1>6 DEF vars, atmVars, machine, encrypter, ghosts
    <2>2. OfflineInv' /\ RoundInv' /\ (Syncing' <=> Syncing)
      BY <2>1, RoundKept DEF CoordInv
    <2>3. UNCHANGED <<bank, db, valRead, byteNo, request, reply, chanAddr_is_0, service, serves>>
          /\ UNCHANGED <<system_state, en_output, response, adequate_cash_in_account, user_is_admin>>
      BY <1>6 DEF vars, bankVars, atmVars, encrypter, ghosts
    <2>4. EntryInv'
      BY <2>2, <2>3 DEF CoordInv, EntryInv, Waiting
    <2>5. ServeInv'
      <3>1. ServeRequest(en_input)' = ServeRequest(en_input)
        BY <2>1, <2>3, RequestKept
      <3>2. (Serving' <=> Serving) /\ (Live' <=> Live)
        BY <2>3 DEF Serving, Live
      <3> QED BY <2>1, <2>2, <2>3, <3>1, <3>2 DEF CoordInv, ServeInv
    <2> QED BY <2>2, <2>4, <2>5 DEF CoordInv
  <1> QED BY <1>1, <1>2, <1>3, <1>4, <1>5, <1>6 DEF Next, HostStep, AtmMoves

-----------------------------------------------------------------------------
(* One account.                                                             *)

\* Nothing has happened to the customer of line i that may leave them paid and not
\* debited; nothing at all has.
Fine(i) == MishapsOf(Accounts[i].uid) \subseteq Unserved
Clean(i) == MishapsOf(Accounts[i].uid) = {}

\* The records that are or will be in memory, and the balance of line i in them
\* once what has been decided is written.
Book == IF bank = "down" THEN file ELSE db
Booked(i) == IF bank = "save" /\ reply.line = i THEN reply.bal ELSE Book[i].bal

\* What is left to the customer of line i of the balance at the start, and what
\* the machine is about to pay them for a reply of the bank.
Left(i) == Accounts[i].bal - paid[Accounts[i].uid]
Due(i) == system_state = "Decrypt" /\ Pays /\ ~user_is_admin /\ en_input.uid = Accounts[i].uid
Owes(i) == IF Due(i) THEN en_input.low ELSE 0

\* w names the customer of line i and their PIN.
HoldsCard(w, i) ==
    Accounts[i].uid = w.uid /\ Accounts[i].hash = myHash(w.pin) /\ ~Accounts[i].admin

\* The balance of the account is between nothing and that of the start, and so is
\* what is about to be written.
BookOf(i) == Book[i].bal \in Nat /\ Book[i].bal <= Accounts[i].bal
CommitOf(i) ==
    /\ bank = "save" /\ reply.line = i => reply.bal \in Nat /\ reply.bal <= Accounts[i].bal
    /\ bank \in {"status", "reply"} /\ valRead # 5 /\ reply.line = i =>
          reply.bal \in Nat /\ reply.bal <= Book[i].bal

\* The customer is in the cache only with their PIN.
CardOf(i) == \A j \in Places : cache[j].uid = Accounts[i].uid => HoldsCard(cache[j], i)

\* Of a request of the customer that the bank is at work on, and that the machine no
\* longer waits for, it is marked that the answer is late.
AskedOf(i) ==
    /\ Serving /\ bank = "read" /\ ~Live =>
          \A k \in 1 .. Len(request) : \A w \in Words :
             request[k] = Seal(w) /\ w.uid = Accounts[i].uid => Marked("late", w.uid)
    /\ Serving /\ bank # "read" /\ ~Live /\ reply.line = i => Marked("late", Accounts[i].uid)

\* The reply that a block that all bytes are of makes known: a balance.
Tells(bytes, bal) == \A k \in 1 .. WordBytes : bytes[k] = Seal(Word(0, 0, Spendable(bal)))

\* An entry that the bank changes the account for is the one that the machine
\* offers, and what the machine gets for it is the balance of the account.
ReportOf(i) ==
    /\ bank = "read" /\ valRead = 5 /\ ~Syncing =>
          \A k \in 1 .. Len(request) : \A w \in Words :
             request[k] = Seal(w) => w.uid # Accounts[i].uid
    /\ bank = "reply" /\ valRead = 5 /\ reply.line = i =>
          system_state = "SyncCache" /\ cache[1].uid = Accounts[i].uid
    /\ bank = "reply" /\ valRead = 5 /\ system_state = "SyncCache" /\ cache[1].uid = Accounts[i].uid =>
          reply = ServeCacheEntry(cache[1])
    /\ system_state = "UpdateCache" /\ cache[1].uid = Accounts[i].uid => Tells(response, Booked(i))

\* What the machine gets for the customer whom it serves is the bank's answer to
\* them, whole, and given after the notes were searched for.
ServedOf(i) ==
    en_input.uid = Accounts[i].uid =>
        /\ system_state = "Communicating" => response[WordBytes] = NoByte
        /\ Serving /\ Live => ~allocating /\ (valRead = 1 <=> adequate_cash_in_atm)
        /\ system_state = "Decrypt" => ~allocating /\ bank \notin {"read", "status", "reply"}
        /\ system_state = "Decrypt" /\ ~user_is_admin =>
              HoldsCard(en_input, i) /\ Tells(response, Booked(i))

\* The entry at place j has been reported to the bank in this round; it may
\* still hold payments that the bank does not know.
Updated(j) ==
    IF j = 1 THEN cache_update_count = CacheSize \/ system_state = "UpdateCache"
    ELSE j <= cache_update_count + 1
Stale(j) == cache_mode \/ (Syncing /\ ~Updated(j))
Replaced(j) == system_state = "UpdateCache" /\ j = 1
EntriesOf(i) == {j \in Places : cache[j].uid = Accounts[i].uid}

\* The customer has not been paid what is not or will not be debited: at once, or,
\* with an entry that is to be reported, by that report.
UnderOf(i) ==
    /\ (\A j \in EntriesOf(i) : ~Stale(j)) => Booked(i) + Owes(i) <= Left(i)
    /\ \A j \in EntriesOf(i) : ~Replaced(j) => Booked(i) + 5 * cache[j].low <= 5 * Left(i)

\* The customer has not been debited what they were not or will not be paid.
OverOf(i) ==
    /\ Left(i) <= Booked(i) + Owes(i)
    /\ \A j \in EntriesOf(i) : ~Replaced(j) /\ ~Due(i) =>
          5 * Left(i) <= Booked(i) + 5 * cache[j].low + 4

GoodOf(i) == BookOf(i) /\ CommitOf(i) /\ CardOf(i) /\ AskedOf(i) /\ ReportOf(i) /\ ServedOf(i)
             /\ UnderOf(i)

\* The inductive invariant of an account, and of the whole.
AccountInv(i) == Fine(i) /\ i <= Len(Book) => GoodOf(i) /\ (Clean(i) => OverOf(i))
IInv == TypeInv /\ SavedInv /\ CoordInv /\ \A i \in Lines : AccountInv(i)

-----------------------------------------------------------------------------
(* Facts about an account in one state.                                     *)

\* A customer whom nothing harmful has happened to is not marked with it.
LEMMA FineMarks ==
    ASSUME NEW h \in Lines, Fine(h)
    PROVE  \A kind \in {"hasty", "stale", "mistaken", "credited", "crossed", "torn", "stuck", "cut"} :
              ~Marked(kind, Accounts[h].uid)
  BY DEF Fine, MishapsOf, Mishaps, Unserved, Marked

\* A customer whom nothing has happened to has no mark.
LEMMA CleanMarks ==
    ASSUME NEW h \in Lines, Clean(h)
    PROVE  ~Marked("late", Accounts[h].uid) /\ ~Marked("unpaid", Accounts[h].uid) /\ Fine(h)
  BY DEF Clean, Fine, MishapsOf, Mishaps, Marked

\* The record of an account in the book.
LEMMA BookRecord ==
    ASSUME TypeInv, NEW h \in Lines, h <= Len(Book)
    PROVE  /\ Book[h].uid = Accounts[h].uid /\ Book[h].hash = Accounts[h].hash
           /\ Book[h].admin = Accounts[h].admin /\ h \in 1 .. Len(Book) /\ Len(Book) \in Nat
  <1>1. Kept(Book) /\ h \in Nat /\ h >= 1
    BY DEF TypeInv, BankTypes, Book, Lines
  <1>2. Len(Book) \in Nat
    BY <1>1 DEF Kept
  <1> QED BY <1>1, <1>2, KeptRecord

\* A balance that is decided is one that an int holds.
LEMMA BookedType ==
    ASSUME TypeInv, NEW h \in Lines, BookOf(h), CommitOf(h)
    PROVE  Booked(h) \in Nat /\ Booked(h) <= Accounts[h].bal /\ 2 * Booked(h) < HalfRange
  <1>1. Booked(h) \in Nat /\ Booked(h) <= Accounts[h].bal
    BY DEF Booked, BookOf, CommitOf
  <1> QED BY <1>1, AccountType, HalfRangeType

\* What is left, and what is owed.
LEMMA LeftType ==
    ASSUME TypeInv, NEW h \in Lines
    PROVE  Left(h) \in Int /\ Left(h) <= Accounts[h].bal /\ Owes(h) \in Nat
  <1>1. paid[Accounts[h].uid] \in Nat /\ Accounts[h].bal \in Nat
    BY AccountType DEF TypeInv, GhostTypes
  <1>2. Owes(h) \in Nat
    BY WordType DEF Owes, TypeInv, MachineTypes
  <1> QED BY <1>1, <1>2 DEF Left

\* The search for a customer's record in memory.
LEMMA FindCustomer ==
    ASSUME TypeInv, NEW h \in Lines, h <= Len(Book), bank # "down", NEW w
    PROVE  LET l == find(w.uid, myHash(w.pin))
           IN  /\ Accounts[h].uid = w.uid /\ Accounts[h].hash = myHash(w.pin) => l = h
               /\ l = h => Accounts[h].uid = w.uid /\ Accounts[h].hash = myHash(w.pin)
               /\ l # 0 /\ w.uid = Accounts[h].uid => l = h
               /\ l # 0 => Accounts[l].uid = w.uid /\ l \in 1 .. Len(db)
  <1>1. Kept(db) /\ Book = db /\ h \in 1 .. Len(db) /\ h # 0
    BY BookRecord DEF TypeInv, BankTypes, Book
  <1> DEFINE l == find(w.uid, myHash(w.pin))
  <1>2. /\ l # 0 => l \in 1 .. Len(db) /\ Accounts[l].uid = w.uid /\ Accounts[l].hash = myHash(w.pin)
        /\ Accounts[h].uid = w.uid /\ Accounts[h].hash = myHash(w.pin) => l = h
    BY <1>1, FindType
  <1>3. l # 0 => l \in Lines
    BY <1>1, <1>2, KeptRecord
  <1> HIDE DEF l
  <1>4. l # 0 /\ w.uid = Accounts[h].uid => l = h
    BY <1>2, <1>3, AccountType
  <1> QED BY <1>1, <1>2, <1>4 DEF l

\* A sealed word is one word.
LEMMA OneSeal ==
    ASSUME NEW v \in Words, NEW w \in Words, Seal(v) = Seal(w)
    PROVE  v = w
  BY BlockType

\* The account of a step that changes no balance, pays nothing, owes as much as
\* before, leaves the cache alone, and takes no entry for reported.
LEMMA MoneyKept ==
    ASSUME NEW h \in Lines, Booked(h)' = Booked(h), Due(h)' <=> Due(h), Due(h) => UNCHANGED en_input,
           UNCHANGED <<cache, paid>>,
           \A j \in EntriesOf(h) : (Stale(j) => Stale(j)') /\ (Replaced(j)' <=> Replaced(j))
    PROVE  (UnderOf(h) => UnderOf(h)') /\ (OverOf(h) => OverOf(h)')
  <1>1. Left(h)' = Left(h) /\ Owes(h)' = Owes(h) /\ EntriesOf(h)' = EntriesOf(h)
    BY DEF Left, Owes, EntriesOf
  <1>2. ASSUME UnderOf(h) PROVE UnderOf(h)'
    BY <1>1, <1>2 DEF UnderOf
  <1>3. ASSUME OverOf(h) PROVE OverOf(h)'
    BY <1>1, <1>3 DEF OverOf
  <1> QED BY <1>2, <1>3

\* A step outside of a synchronisation, or within a part of it, leaves the entries
\* to be reported.
LEMMA StaleKept ==
    ASSUME \/ UNCHANGED <<system_state, cache_mode, cache_update_count>>
           \/ UNCHANGED cache_mode /\ ~Syncing /\ ~Syncing'
    PROVE  \A j : (Stale(j) => Stale(j)') /\ (Replaced(j)' <=> Replaced(j))
  BY DEF Stale, Updated, Syncing, Replaced

\* The balances of a step that only moves the bank on.
LEMMA BookedKept ==
    ASSUME Book' = Book, bank # "save", bank' # "save", NEW h
    PROVE  Booked(h)' = Booked(h)
  BY DEF Booked

\* What is owed is the same unless a service comes to its reply or leaves it.
LEMMA DueKept ==
    ASSUME \/ UNCHANGED <<system_state, adequate_cash_in_atm, adequate_cash_in_account,
                          user_is_admin, en_input>>
           \/ system_state # "Decrypt" /\ system_state' # "Decrypt",
           NEW h
    PROVE  (Due(h)' <=> Due(h)) /\ (Due(h) => UNCHANGED en_input)
  BY DEF Due, Pays

\* What a step starts from, and what it has to leave, for an account that is still in
\* the book, and that nothing harmful has happened to, after it.
Upheld(i) ==
    /\ TypeInv /\ TypeInv' /\ SavedInv /\ CoordInv /\ CoordInv' /\ odd \subseteq odd'
    /\ i <= Len(Book) /\ i <= Len(Book)' /\ Fine(i) /\ Fine(i)' /\ GoodOf(i)
Upholds(i) == GoodOf(i)' /\ (Clean(i)' /\ OverOf(i) => OverOf(i)')


\* The same of the state after a step.
LEMMA MarksAfter ==
    ASSUME NEW h \in Lines
    PROVE  /\ Fine(h)' => \A kind \in {"hasty", "stale", "mistaken", "credited", "crossed", "torn",
                                       "stuck", "cut"} : <<kind, Accounts[h].uid>> \notin odd'
           /\ Clean(h)' => <<"late", Accounts[h].uid>> \notin odd' /\ <<"unpaid", Accounts[h].uid>> \notin odd'
  BY DEF Fine, Clean, MishapsOf, Mishaps, Unserved

-----------------------------------------------------------------------------
(* Each step keeps what is true of an account.                              *)

\* The bank asks what the machine wants; a round that starts has all to report.
LEMMA AsksAccount ==
    ASSUME NEW h \in Lines, Upheld(h), Asks
    PROVE  Upholds(h)
  <1>1. PICK code \in {0, 1, 2, 3, 5} : /\ ReadCode(code) \/ ReadCodeAtEnd(code)
                                        /\ Poll(code) \/ Confirm(code)
    BY DEF Asks
  <1>2. /\ TypeInv /\ TypeInv' /\ RoundInv /\ Paced /\ UNCHANGED <<paid, service>>
        /\ GoodOf(h) /\ Fine(h)'
        /\ serves' = IF bank' = "read" THEN service ELSE serves
        /\ Hasty \subseteq odd'
    BY DEF Asks, Upheld, CoordInv
  <1>3. /\ UNCHANGED <<en_input, allocating, adequate_cash_in_atm, adequate_cash_in_account,
                       user_is_admin, response, cache, cache_update_count>>
        /\ Syncing => system_state = "SyncCache" /\ UNCHANGED <<system_state, cache_mode>>
        /\ ~Syncing' => UNCHANGED <<system_state, cache_mode>>
        /\ ~Syncing /\ Syncing' => system_state' = "CommRegained" /\ cache_update_count' = 0
    BY <1>1, <1>2, CodeRead, Zenon
  <1>4. /\ code = 5 <=> Syncing'
        /\ code \in {1, 2} <=> system_state' = "Communicating"
        /\ code = 1 => adequate_cash_in_atm'
        /\ code = 2 => ~adequate_cash_in_atm'
    BY <1>1, <1>2, CodeRead, Zenon
  <1>5. /\ bank \in {"poll", "confirm"} /\ bank' \in {"poll", "confirm", "read"} /\ UNCHANGED <<db, file>>
        /\ bank' = "read" => /\ code = valRead' /\ valRead' \in {1, 2, 5}
                             /\ Len(request') = 0
    <2>1. bank = "confirm" => request = <<>> /\ valRead \in {1, 2, 5}
      BY <1>2 DEF TypeInv, BankTypes
    <2> QED BY <1>1, <2>1 DEF Poll, Confirm, NextRound
  <1>6. Book' = Book /\ Booked(h)' = Booked(h)
    <2>1. Book' = Book
      BY <1>5 DEF Book
    <2> QED BY <1>5, <2>1, BookedKept
  <1>7. Serving' => Live' /\ system_state' = "Communicating"
    BY <1>2, <1>4, <1>5 DEF Serving, Live
  <1>8. BookOf(h)' /\ CommitOf(h)' /\ CardOf(h)' /\ AskedOf(h)'
    BY <1>2, <1>3, <1>5, <1>6, <1>7 DEF GoodOf, BookOf, CommitOf, CardOf, AskedOf, HoldsCard, Serving
  <1>9. system_state' # "UpdateCache" /\ system_state # "UpdateCache"
    BY <1>3 DEF Syncing
  <1>10. ReportOf(h)'
    BY <1>5, <1>9 DEF ReportOf
  <1>11. ServedOf(h)'
    <2> SUFFICES ASSUME en_input.uid = Accounts[h].uid PROVE ServedOf(h)'
      BY <1>3 DEF ServedOf
    <2>1. system_state' \in {"Communicating", "Decrypt"} => UNCHANGED system_state
      BY <1>3 DEF Syncing
    <2>2. Serving' => ~allocating'
      <3>1. bank' = "read" /\ allocating => <<"hasty", en_input.uid>> \in odd'
        BY <1>2 DEF Hasty, Marks
      <3> QED BY <1>2, <1>3, <1>5, <3>1, MarksAfter DEF Serving
    <2>3. Serving' => (valRead' = 1 <=> adequate_cash_in_atm')
      BY <1>4, <1>5 DEF Serving
    <2>4. system_state' = "Decrypt" => bank' # "read"
      BY <1>4, <1>5 DEF Syncing
    <2>5. \A b : Tells(response, b)' <=> Tells(response, b)
      BY <1>3 DEF Tells
    <2>6. ServedOf(h)
      BY <1>2 DEF GoodOf
    <2> QED BY <1>3, <1>5, <1>6, <2>1, <2>2, <2>3, <2>4, <2>5, <2>6 DEF ServedOf, HoldsCard, Tells
  <1>12. (UnderOf(h) => UnderOf(h)') /\ (OverOf(h) => OverOf(h)')
    <2>1. (Due(h)' <=> Due(h)) /\ (Due(h) => UNCHANGED en_input)
      <3>1. UNCHANGED system_state \/ (system_state # "Decrypt" /\ system_state' # "Decrypt")
        <4>1. Syncing' => system_state' # "Decrypt"
          BY DEF Syncing
        <4>2. ~Syncing /\ Syncing' => system_state # "Decrypt"
          <5>1. ~Syncing /\ Syncing' => system_state \in {"Ready"} \cup {"Dummy", "NotInCache", "Ethernet"}
            BY <1>1, <1>2, CodeRead, Zenon
          <5> QED BY <5>1
        <4> QED BY <1>3, <4>1, <4>2
      <3> QED BY <1>3, <3>1, DueKept
    <2>2. \A j \in Places : (Stale(j) => Stale(j)') /\ (Replaced(j)' <=> Replaced(j))
      <3>1. CASE Syncing \/ ~Syncing'
        <4>1. UNCHANGED <<system_state, cache_mode, cache_update_count>>
          BY <1>3, <3>1
        <4> QED BY <4>1, StaleKept
      <3>2. CASE ~Syncing /\ Syncing'
        <4>1. system_state' = "CommRegained" /\ cache_update_count' = 0
          BY <1>3, <3>2
        <4>2. \A j \in Places : ~Updated(j)'
          BY <4>1, Sizes DEF Updated, Places
        <4> QED BY <1>9, <3>2, <4>2 DEF Stale, Replaced
      <3> QED BY <3>1, <3>2
    <2>3. \A j \in EntriesOf(h) : (Stale(j) => Stale(j)') /\ (Replaced(j)' <=> Replaced(j))
      BY <2>2 DEF EntriesOf
    <2> QED BY <1>2, <1>3, <1>6, <2>1, <2>3, MoneyKept
  <1> QED BY <1>2, <1>8, <1>10, <1>11, <1>12 DEF Upholds, GoodOf

\* A byte that names the customer, read while the bank serves or reports a request.
LEMMA BytesNaming ==
    ASSUME NEW h \in Lines, Upheld(h), Reads,
           NEW k \in 1 .. Len(request'), NEW w \in Words, request'[k] = Seal(w), w.uid = Accounts[h].uid
    PROVE  /\ Serving /\ ~Live => <<"late", Accounts[h].uid>> \in odd'
           /\ ~(valRead = 5 /\ ~Syncing)
  <1>1. /\ TypeInv /\ CoordInv /\ GoodOf(h) /\ Fine(h)'
    BY DEF Upheld
  <1>2. /\ Len(request') = Len(request) + 1 /\ Len(request) \in Nat
        /\ request'[k] = IF k <= Len(request) THEN request[k] ELSE OnChannels
        /\ bank = "read" /\ odd' = odd \cup Mistaken \cup Credited
    BY <1>1, ByteRead
  <1>3. CASE k <= Len(request)
    <2>1. k \in 1 .. Len(request) /\ request[k] = Seal(w)
      BY <1>2, <1>3
    <2>2. AskedOf(h) /\ ReportOf(h)
      BY <1>1 DEF GoodOf
    <2> QED BY <1>2, <2>1, <2>2 DEF AskedOf, ReportOf, Marked
  <1>4. CASE ~(k <= Len(request))
    <2>1. OnChannels = Seal(w) /\ OnChannels # Garbled
      BY <1>2, <1>4, BlockType
    <2>2. system_state \in {"Communicating", "SyncCache"} /\ en_output = Seal(w)
      BY <2>1 DEF OnChannels
    <2>3. SUFFICES ASSUME ~Syncing, (Serving /\ ~Live) \/ valRead = 5
                   PROVE  Serving /\ ~Live /\ <<"late", Accounts[h].uid>> \in odd'
      BY <1>1 DEF CoordInv, ServeInv, Serving
    <2>4. system_state = "Communicating" /\ w = en_input
      <3>1. system_state = "Communicating"
        BY <2>2, <2>3 DEF Syncing
      <3>2. en_output = Seal(en_input) /\ en_input \in Words
        BY <1>1, <3>1 DEF TypeInv, MachineTypes
      <3> QED BY <2>2, <3>1, <3>2, OneSeal
    <2>5. Strays
      <3>1. valRead = 5 => serves < service
        BY <1>1, <1>2, <2>3, <2>4 DEF CoordInv, EntryInv, Working, Waiting
      <3>2. serves \in Nat /\ service \in Nat
        BY <1>1 DEF TypeInv, GhostTypes
      <3> QED BY <2>3, <2>4, <3>1, <3>2 DEF Strays, Live
    <2>6. /\ valRead = 5 => <<"mistaken", Accounts[h].uid>> \in odd'
          /\ valRead # 5 => <<"late", Accounts[h].uid>> \in odd'
      BY <1>2, <2>4, <2>5 DEF Mistaken, Marks
    <2>7. valRead # 5
      BY <1>1, <2>6, MarksAfter
    <2> QED BY <2>3, <2>6, <2>7
  <1> QED BY <1>3, <1>4

\* A byte of a request or of an entry is read, and with the last the bank decides.
LEMMA ReadsAccount ==
    ASSUME NEW h \in Lines, Upheld(h), Reads
    PROVE  Upholds(h)
  <1>1. /\ TypeInv /\ TypeInv' /\ SavedInv /\ RoundInv /\ EntryInv /\ ServeInv
        /\ GoodOf(h) /\ Fine(h)' /\ h <= Len(Book)
    BY DEF Upheld, CoordInv
  <1>2. /\ Len(request') = Len(request) + 1 /\ Len(request) \in Nat
        /\ \A k \in 1 .. Len(request') :
              request'[k] = IF k <= Len(request) THEN request[k] ELSE OnChannels
        /\ bank = "read" /\ UNCHANGED machine
        /\ UNCHANGED <<db, file, valRead, paid, service, serves>>
        /\ odd' = odd \cup Mistaken \cup Credited
    BY <1>1, ByteRead
  <1>3. \/ bank' = "read"
        \/ \E w \in Words :
             /\ w \in GarbledWords \/ request'[1] = Seal(w)
             /\ \A v \in Words : (\A k \in 1 .. WordBytes : request'[k] = Seal(v)) => w = v
             /\ IF valRead # 5 THEN bank' = "status" /\ reply' = ServeRequest(w)
                ELSE IF IsAdmin(w) THEN bank' = "down"
                ELSE bank' = "reply" /\ reply' = ServeCacheEntry(w)
             /\ Len(request') = WordBytes
    BY <1>1, ByteRead
  <1>4. Kept(db) /\ Book = db /\ Book' = Book /\ Booked(h)' = Booked(h)
    <2>1. file = db /\ Book = db
      BY <1>1, <1>2 DEF SavedInv, Book
    <2>2. bank' # "save"
      BY <1>3
    <2> QED BY <1>1, <1>2, <2>1, <2>2, BookedKept DEF Book, TypeInv, BankTypes
  <1>5. \A w \in Words : find(w.uid, myHash(w.pin)) = h /\ (w \in GarbledWords \/ request'[1] = Seal(w))
            => w.uid = Accounts[h].uid /\ request'[1] = Seal(w)
    <2> TAKE w \in Words
    <2>1. find(w.uid, myHash(w.pin)) = h => w.uid = Accounts[h].uid
      BY <1>1, <1>2, FindCustomer
    <2>2. w.uid = Accounts[h].uid => w \notin GarbledWords
      BY GarbledAssumption, AccountType
    <2> QED BY <2>1, <2>2
  <1>6. BookOf(h)' /\ CardOf(h)'
    BY <1>1, <1>2, <1>4 DEF GoodOf, BookOf, CardOf, HoldsCard, machine
  <1>7. CommitOf(h)'
    <2> SUFFICES ASSUME bank' = "status", valRead # 5, reply'.line = h
                 PROVE  reply'.bal \in Nat /\ reply'.bal <= db[h].bal
      BY <1>2, <1>3, <1>4 DEF CommitOf
    <2>1. PICK w \in Words : reply' = ServeRequest(w)
      BY <1>3
    <2>2. h # 0 /\ db[h].bal \in Nat
      BY <1>1, <1>4, AccountType DEF GoodOf, BookOf, Lines
    <2>3. reply'.bal = db[h].bal - AsInt(w.low) /\ 5 * AsInt(w.low) <= 4 * db[h].bal
      <3> DEFINE l == find(w.uid, myHash(w.pin))
      <3>1. /\ l = 0 => ServeRequest(w).line = 0
            /\ l # 0 /\ db[l].admin => ServeRequest(w).line = 0
            /\ l # 0 /\ ~db[l].admin =>
                 \/ ServeRequest(w).line = 0
                 \/ /\ ServeRequest(w).line = l /\ ServeRequest(w).bal = db[l].bal - AsInt(w.low)
                    /\ 5 * AsInt(w.low) <= 4 * db[l].bal
        BY <1>4, ServeRequestType
      <3> HIDE DEF l
      <3> QED BY <2>1, <2>2, <3>1
    <2>4. AsInt(w.low) \in Int
      BY WordType, AsIntOf
    <2>5. reply'.bal <= db[h].bal
      <3>1. db[h].uid = Accounts[h].uid
        BY <1>1, <1>4, BookRecord
      <3>2. reply'.bal > db[h].bal => <<"credited", Accounts[h].uid>> \in odd'
        BY <1>2, <2>2, <3>1 DEF Credited, Marks, NoChange
      <3>3. ~(reply'.bal > db[h].bal)
        BY <1>1, <3>2, MarksAfter
      <3> QED BY <2>2, <2>3, <2>4, <3>3
    <2> QED BY <2>2, <2>3, <2>4, <2>5
  <1>8. Live' <=> Live
    BY <1>2 DEF Live, machine
  <1>9. AskedOf(h)'
    <2>1. ASSUME Serving', bank' = "read", ~Live', NEW k \in 1 .. Len(request'), NEW w \in Words,
                 request'[k] = Seal(w), w.uid = Accounts[h].uid
          PROVE  Marked("late", w.uid)'
      <3>1. Serving /\ ~Live
        BY <1>2, <1>8, <2>1 DEF Serving
      <3> QED BY <2>1, <3>1, BytesNaming DEF Marked
    <2>2. ASSUME Serving', bank' # "read", ~Live', reply'.line = h
          PROVE  Marked("late", Accounts[h].uid)'
      <3>1. Serving /\ ~Live
        BY <1>2, <1>8, <2>2 DEF Serving
      <3>2. PICK w \in Words : /\ w \in GarbledWords \/ request'[1] = Seal(w)
                               /\ reply' = ServeRequest(w) /\ Len(request') = WordBytes
        BY <1>2, <1>3, <2>2, <3>1 DEF Serving
      <3>3. find(w.uid, myHash(w.pin)) = h
        <4> DEFINE l == find(w.uid, myHash(w.pin))
        <4>1. /\ l = 0 => ServeRequest(w).line = 0
              /\ l # 0 /\ db[l].admin => ServeRequest(w).line = 0
              /\ l # 0 /\ ~db[l].admin => ServeRequest(w).line \in {0, l}
          BY <1>4, ServeRequestType
        <4>2. h # 0
          BY DEF Lines
        <4> HIDE DEF l
        <4>3. l = h
          BY <2>2, <3>2, <4>1, <4>2
        <4> QED BY <4>3 DEF l
      <3>4. w.uid = Accounts[h].uid /\ request'[1] = Seal(w) /\ 1 \in 1 .. Len(request')
        BY <1>5, <3>2, <3>3, Sizes
      <3> QED BY <3>1, <3>4, BytesNaming DEF Marked
    <2> QED BY <2>1, <2>2 DEF AskedOf
  <1>10. ReportOf(h)'
    <2>1. ASSUME valRead = 5, system_state = "SyncCache"
          PROVE  \A k \in 1 .. Len(request') : request'[k] = en_output
      <3>1. \A k \in 1 .. Len(request) : request[k] = en_output
        BY <1>1, <1>2, <2>1 DEF EntryInv, Syncing
      <3>2. OnChannels = en_output
        BY <2>1 DEF OnChannels
      <3> QED BY <1>2, <3>1, <3>2
    <2>2. ASSUME valRead = 5, system_state = "SyncCache", NEW w \in Words, en_output = Seal(w),
                 w.uid = Accounts[h].uid
          PROVE  w = cache[1]
      <3>1. OffersEntry /\ cache[1] \in Words /\ Fine(h)
        BY <1>1, <2>2, Sizes DEF RoundInv, TypeInv, MachineTypes, Caches, Places, Upheld
      <3>2. ~Marked("stale", Accounts[h].uid)
        BY <3>1, FineMarks
      <3>3. ASSUME NEW v \in Words, en_output = Seal(v), Marked("stale", v.uid)
            PROVE  FALSE
        <4>1. v = w
          BY <2>2, <3>3, OneSeal
        <4> QED BY <2>2, <3>2, <3>3, <4>1
      <3>4. en_output = Seal(cache[1])
        BY <3>1, <3>3 DEF OffersEntry
      <3> QED BY <2>2, <3>1, <3>4, OneSeal
    <2>3. ASSUME bank' = "read", valRead' = 5, ~Syncing', NEW k \in 1 .. Len(request'), NEW w \in Words,
                 request'[k] = Seal(w)
          PROVE  w.uid # Accounts[h].uid
      <3>1. valRead = 5 /\ ~Syncing
        BY <1>2, <2>3 DEF Syncing, machine
      <3> QED BY <2>3, <3>1, BytesNaming
    <2>4. ASSUME bank' = "reply", valRead' = 5
          PROVE  /\ reply'.line = h => system_state' = "SyncCache" /\ cache'[1].uid = Accounts[h].uid
                 /\ system_state' = "SyncCache" /\ cache'[1].uid = Accounts[h].uid =>
                      reply' = ServeCacheEntry(cache[1])'
      <3>1. PICK w \in Words :
               /\ w \in GarbledWords \/ request'[1] = Seal(w)
               /\ \A v \in Words : (\A k \in 1 .. WordBytes : request'[k] = Seal(v)) => w = v
               /\ reply' = ServeCacheEntry(w) /\ Len(request') = WordBytes
        BY <1>2, <1>3, <2>4
      <3>2. ASSUME reply'.line = h
            PROVE  system_state = "SyncCache" /\ cache[1].uid = Accounts[h].uid
        <4>1. find(w.uid, myHash(w.pin)) = h
          <5> DEFINE l == find(w.uid, myHash(w.pin))
          <5>1. (l = 0 => ServeCacheEntry(w).line = 0) /\ (l # 0 => ServeCacheEntry(w).line = l)
            BY <1>4, ServeEntryType
          <5>2. h # 0
            BY DEF Lines
          <5> HIDE DEF l
          <5>3. l = h
            BY <3>1, <3>2, <5>1, <5>2
          <5> QED BY <5>3 DEF l
        <4>2. w.uid = Accounts[h].uid /\ request'[1] = Seal(w) /\ 1 \in 1 .. Len(request')
          BY <1>5, <3>1, <4>1, Sizes
        <4>3. Syncing
          BY <1>2, <2>4, <4>2, BytesNaming
        <4>4. system_state = "SyncCache"
          BY <1>1, <1>2, <2>4, <4>3 DEF EntryInv
        <4> QED BY <1>2, <2>1, <2>2, <2>4, <4>2, <4>4
      <3>3. ASSUME system_state = "SyncCache", cache[1].uid = Accounts[h].uid
            PROVE  w = cache[1]
        <4>1. cache[1] \in Words /\ OffersEntry /\ Fine(h)
          BY <1>1, <3>3, Sizes DEF RoundInv, TypeInv, MachineTypes, Caches, Places, Upheld
        <4>2. en_output = Seal(cache[1])
          BY <3>3, <4>1, FineMarks DEF OffersEntry
        <4> QED BY <1>2, <2>1, <2>4, <3>1, <3>3, <4>1, <4>2
      <3>4. ServeCacheEntry(cache[1])' = ServeCacheEntry(cache[1])
        BY <1>2, EntryAnswerKept DEF machine
      <3> QED BY <1>2, <3>1, <3>2, <3>3, <3>4 DEF machine
    <2>5. system_state' = "UpdateCache" /\ cache'[1].uid = Accounts[h].uid => Tells(response, Booked(h))'
      BY <1>1, <1>2, <1>4 DEF GoodOf, ReportOf, Tells, machine
    <2> QED BY <2>3, <2>4, <2>5 DEF ReportOf
  <1>11. ServedOf(h)'
    <2>1. ServedOf(h)
      BY <1>1 DEF GoodOf
    <2>2. Serving' => Serving
      BY <1>2 DEF Serving
    <2> QED BY <1>2, <1>8, <2>1, <2>2 DEF ServedOf, machine
  <1>12. (UnderOf(h) => UnderOf(h)') /\ (OverOf(h) => OverOf(h)')
    <2>1. (Due(h)' <=> Due(h)) /\ (Due(h) => UNCHANGED en_input)
      BY <1>2, DueKept DEF machine
    <2>2. \A j : (Stale(j) => Stale(j)') /\ (Replaced(j)' <=> Replaced(j))
      BY <1>2, StaleKept DEF machine
    <2> QED BY <1>2, <1>4, <2>1, <2>2, MoneyKept DEF machine
  <1> QED BY <1>1, <1>6, <1>7, <1>9, <1>10, <1>11, <1>12 DEF Upholds, GoodOf

\* The status of the customer is written.
LEMMA StatusAccount ==
    ASSUME NEW h \in Lines, Upheld(h), Writes, WriteStatus, TakeStatus(reply.status)
    PROVE  Upholds(h)
  <1>1. /\ TypeInv /\ RoundInv /\ ServeInv /\ GoodOf(h) /\ Fine(h)' /\ h <= Len(Book)
        /\ odd \subseteq odd' /\ UNCHANGED <<paid, service, serves>>
    BY DEF Upheld, CoordInv, Writes
  <1>2. /\ bank = "status" /\ bank' = "reply" /\ valRead \in {1, 2}
        /\ UNCHANGED <<db, file, valRead, request, reply>>
        /\ UNCHANGED <<en_input, cache, cache_mode, cache_update_count>>
        /\ system_state # "Communicating" => UNCHANGED machine
        /\ system_state = "Communicating" =>
              \/ reply.status = 4 /\ system_state' = "Ready"
              \/ /\ reply.status # 4
                 /\ UNCHANGED <<system_state, encryption_over, allocating, adequate_cash_in_atm,
                                response>>
    BY <1>1, StatusTaken
  <1>3. Serving /\ Book' = Book /\ Booked(h)' = Booked(h)
    <2>1. Book' = Book
      BY <1>2 DEF Book
    <2> QED BY <1>2, <2>1, BookedKept DEF Serving
  <1>4. BookOf(h)' /\ CommitOf(h)' /\ CardOf(h)'
    BY <1>1, <1>2, <1>3 DEF GoodOf, BookOf, CommitOf, CardOf, HoldsCard
  <1>5. ASSUME reply.line = h, Live PROVE Live'
    <2>1. reply = ServeRequest(en_input) /\ en_input \in Words /\ Kept(db)
      BY <1>1, <1>2, <1>3, <1>5 DEF ServeInv, TypeInv, MachineTypes, BankTypes
    <2>2. h # 0
      BY DEF Lines
    <2>3. reply.status # 4
      <3> DEFINE l == find(en_input.uid, myHash(en_input.pin))
      <3>1. LET r == ServeRequest(en_input)
            IN  /\ l = 0 => r.line = 0
                /\ l # 0 /\ db[l].admin => r.line = 0
                /\ l # 0 /\ ~db[l].admin => r.status \in {1, 2}
        BY <2>1, ServeRequestType
      <3> HIDE DEF l
      <3> QED BY <1>5, <2>1, <2>2, <3>1
    <2> QED BY <1>1, <1>2, <1>5, <2>3 DEF Live
  <1>6. AskedOf(h)'
    <2>1. reply'.line = h /\ ~Live' => Marked("late", Accounts[h].uid)
      BY <1>1, <1>2, <1>3, <1>5 DEF GoodOf, AskedOf
    <2> QED BY <1>1, <1>2, <2>1 DEF AskedOf, Marked
  <1>7. ReportOf(h)'
    <2>1. system_state' = "UpdateCache" => system_state = "UpdateCache" /\ UNCHANGED machine
      BY <1>2 DEF machine
    <2>2. ReportOf(h)
      BY <1>1 DEF GoodOf
    <2> QED BY <1>2, <1>3, <2>1, <2>2 DEF ReportOf, Tells, machine
  <1>8. ServedOf(h)'
    <2>1. ServedOf(h)
      BY <1>1 DEF GoodOf
    <2>2. en_input.uid = Accounts[h].uid => system_state # "Decrypt"
      BY <1>2, <2>1 DEF ServedOf
    <2>3. system_state' = "Decrypt" => system_state = "Decrypt"
      BY <1>2 DEF machine
    <2>4. system_state' = "Communicating" =>
             UNCHANGED <<system_state, allocating, adequate_cash_in_atm, response>>
      BY <1>2 DEF machine
    <2>5. Live' => Live
      BY <1>1, <2>4 DEF Live
    <2> QED BY <1>2, <1>3, <2>1, <2>2, <2>3, <2>4, <2>5 DEF ServedOf, Live
  <1>9. (UnderOf(h) => UnderOf(h)') /\ (OverOf(h) => OverOf(h)')
    <2>1. (Due(h)' <=> Due(h)) /\ (Due(h) => UNCHANGED en_input)
      <3>1. CASE system_state = "Communicating"
        <4>1. system_state # "Decrypt" /\ system_state' # "Decrypt"
          BY <1>2, <3>1
        <4> QED BY <4>1, DueKept
      <3>2. CASE system_state # "Communicating"
        BY <1>2, <3>2, DueKept DEF machine
      <3> QED BY <3>1, <3>2
    <2>2. \A j : (Stale(j) => Stale(j)') /\ (Replaced(j)' <=> Replaced(j))
      <3>1. \/ UNCHANGED <<system_state, cache_mode, cache_update_count>>
            \/ UNCHANGED cache_mode /\ ~Syncing /\ ~Syncing'
        BY <1>2 DEF machine, Syncing
      <3> QED BY <3>1, StaleKept
    <2> QED BY <1>1, <1>2, <1>3, <2>1, <2>2, MoneyKept
  <1> QED BY <1>1, <1>4, <1>6, <1>7, <1>8, <1>9 DEF Upholds, GoodOf

\* The account of a step that pays nothing and debits no more than is owed after it.
LEMMA MoneyMoved ==
    ASSUME TypeInv, TypeInv', NEW h \in Lines, GoodOf(h), BookOf(h)', CommitOf(h)',
           ~Due(h), UNCHANGED <<cache, paid>>,
           Booked(h)' + Owes(h)' <= Booked(h), Booked(h)' <= Booked(h),
           \A j \in EntriesOf(h) : (Stale(j) => Stale(j)') /\ (Replaced(j)' <=> Replaced(j))
    PROVE  /\ UnderOf(h)'
           /\ Booked(h)' + Owes(h)' = Booked(h) /\ OverOf(h) => OverOf(h)'
  <1>1. UnderOf(h) /\ Booked(h) \in Nat
    BY BookedType DEF GoodOf
  <1>2. Left(h)' = Left(h) /\ EntriesOf(h)' = EntriesOf(h) /\ Owes(h) = 0 /\ Left(h) \in Int
    BY LeftType DEF Left, EntriesOf, Owes
  <1>3. Booked(h)' \in Nat /\ Owes(h)' \in Nat /\ (~Due(h)' => Owes(h)' = 0)
    <2>1. Booked(h)' \in Nat
      BY DEF Booked, BookOf, CommitOf
    <2>2. en_input' \in Words
      BY DEF TypeInv, MachineTypes
    <2>3. en_input'.low \in Nat
      BY <2>2, WordType
    <2> QED BY <2>1, <2>3 DEF Owes
  <1>4. \A j \in EntriesOf(h) : cache[j].low \in Nat
    BY WordType DEF EntriesOf, TypeInv, MachineTypes, Caches
  <1>5. UnderOf(h)'
    <2>1. (\A j \in EntriesOf(h)' : ~Stale(j)') => Booked(h)' + Owes(h)' <= Left(h)'
      <3>1. (\A j \in EntriesOf(h) : ~Stale(j)') => Booked(h) + Owes(h) <= Left(h)
        BY <1>1 DEF UnderOf
      <3> QED BY <1>1, <1>2, <1>3, <3>1
    <2>2. ASSUME NEW j \in EntriesOf(h), ~Replaced(j)'
          PROVE  Booked(h)' + 5 * cache[j].low <= 5 * Left(h)
      <3>1. Booked(h) + 5 * cache[j].low <= 5 * Left(h)
        BY <1>1, <2>2 DEF UnderOf
      <3> QED BY <1>1, <1>2, <1>3, <1>4, <3>1
    <2> QED BY <1>2, <2>1, <2>2 DEF UnderOf
  <1>6. ASSUME Booked(h)' + Owes(h)' = Booked(h), OverOf(h)
        PROVE  OverOf(h)'
    <2>1. Left(h)' <= Booked(h)' + Owes(h)'
      BY <1>1, <1>2, <1>6 DEF OverOf
    <2>2. ASSUME NEW j \in EntriesOf(h), ~Replaced(j)', ~Due(h)'
          PROVE  5 * Left(h) <= Booked(h)' + 5 * cache[j].low + 4
      <3>1. 5 * Left(h) <= Booked(h) + 5 * cache[j].low + 4
        BY <1>6, <2>2 DEF OverOf
      <3>2. Booked(h)' = Booked(h)
        BY <1>1, <1>3, <1>6, <2>2
      <3> QED BY <3>1, <3>2
    <2> QED BY <1>2, <2>1, <2>2 DEF OverOf
  <1> QED BY <1>5, <1>6

\* A byte of the answer that the customer's machine waits for: the bank's answer is
\* to them, and deciphered it is whole.
LEMMA AnswerTaken ==
    ASSUME NEW h \in Lines, Upheld(h), Writes, WriteReply, TakeByte(byteNo, reply.block),
           valRead # 5, system_state = "Communicating", en_input.uid = Accounts[h].uid
    PROVE  /\ Live /\ Serving /\ ~allocating
           /\ byteNo < WordBytes =>
                 UNCHANGED system_state /\ response'[WordBytes] = NoByte /\ bank' = "reply"
           /\ byteNo = WordBytes =>
                 /\ system_state' = "Decrypt" /\ bank' \in {"save", "poll"}
                 /\ \A k \in 1 .. WordBytes : response'[k] = reply.block
           /\ user_is_admin => reply.line = 0
           /\ ~user_is_admin =>
                 /\ HoldsCard(en_input, h)
                 /\ \/ /\ reply.line = 0 /\ ~Pays
                       /\ reply.block = Seal(Word(0, 0, Spendable(db[h].bal)))
                    \/ /\ reply.line = h /\ Pays /\ reply.bal = db[h].bal - en_input.low
                       /\ reply.block = Seal(Word(0, 0, Spendable(reply.bal)))
  <1>1. /\ TypeInv /\ ServeInv /\ GoodOf(h) /\ Fine(h)' /\ h <= Len(Book)
        /\ Marks(Strays, "crossed", {en_input.uid}) \subseteq odd'
    BY DEF Upheld, CoordInv, Writes
  <1>2. /\ bank = "reply" /\ byteNo \in 1 .. WordBytes /\ reply.block # NoByte
        /\ \/ byteNo < WordBytes /\ bank' = "reply"
           \/ byteNo = WordBytes /\ bank' \in {"save", "poll"}
        /\ \A k \in 1 .. WordBytes : response'[k] = IF k = byteNo THEN reply.block ELSE response[k]
        /\ \/ UNCHANGED system_state /\ \E k \in 1 .. WordBytes : response'[k] = NoByte
           \/ /\ \A k \in 1 .. WordBytes : response'[k] # NoByte
              /\ system_state' = "Decrypt"
    BY <1>1, ByteTaken DEF Taking
  <1>3. Live /\ Serving
    <2>1. ~Strays
      BY <1>1, MarksAfter DEF Marks
    <2> QED BY <1>1, <1>2, <2>1 DEF Strays, Live, Serving, TypeInv, BankTypes, Working
  <1>4. /\ ~allocating /\ (valRead = 1 <=> adequate_cash_in_atm) /\ response[WordBytes] = NoByte
    BY <1>1, <1>3 DEF GoodOf, ServedOf
  <1>5. /\ reply = ServeRequest(en_input) /\ reply.status # 4
        /\ \A k \in 1 .. byteNo - 1 : response[k] = reply.block
        /\ reply.status # 3 => adequate_cash_in_account = (reply.status = 1)
        /\ user_is_admin = (reply.status = 3)
    BY <1>1, <1>2, <1>3 DEF ServeInv
  <1>6. byteNo < WordBytes => UNCHANGED system_state /\ response'[WordBytes] = NoByte /\ bank' = "reply"
    <2>1. ASSUME byteNo < WordBytes PROVE response'[WordBytes] = NoByte /\ WordBytes \in 1 .. WordBytes
      BY <1>2, <1>4, <2>1, Sizes
    <2> QED BY <1>2, <2>1
  <1>7. byteNo = WordBytes =>
           /\ system_state' = "Decrypt" /\ bank' \in {"save", "poll"}
           /\ \A k \in 1 .. WordBytes : response'[k] = reply.block
    <2>1. ASSUME byteNo = WordBytes PROVE \A k \in 1 .. WordBytes : response'[k] = reply.block
      <3>1. \A k \in 1 .. WordBytes : k = byteNo \/ k \in 1 .. byteNo - 1
        BY <2>1, Sizes
      <3> QED BY <1>2, <1>5, <3>1
    <2> QED BY <1>2, <2>1
  <1>8. Kept(db) /\ en_input \in Words /\ Book = db
    BY <1>1, <1>2 DEF TypeInv, BankTypes, MachineTypes, Book
  <1> DEFINE l == find(en_input.uid, myHash(en_input.pin))
  <1>9. LET r == ServeRequest(en_input)
        IN  /\ l = 0 => r.status = 4
            /\ l # 0 /\ db[l].admin => r.status = 3 /\ r.line = 0
            /\ l # 0 /\ ~db[l].admin =>
                  \/ /\ r.line = 0 /\ r.status \in {1, 2} /\ (r.status = 1 => valRead # 1)
                     /\ r.block = Seal(Word(0, 0, Spendable(db[l].bal)))
                  \/ /\ r.line = l /\ r.status = 1 /\ valRead = 1
                     /\ r.bal = db[l].bal - AsInt(en_input.low)
                     /\ r.block = Seal(Word(0, 0, Spendable(r.bal)))
    BY <1>8, ServeRequestType
  <1>10. l = h /\ Accounts[h].uid = en_input.uid /\ Accounts[h].hash = myHash(en_input.pin)
    <2>1. /\ l # 0 /\ en_input.uid = Accounts[h].uid => l = h
          /\ l = h => Accounts[h].uid = en_input.uid /\ Accounts[h].hash = myHash(en_input.pin)
      BY <1>1, <1>2, FindCustomer
    <2>2. l # 0
      BY <1>5, <1>9
    <2> HIDE DEF l
    <2> QED BY <2>1, <2>2
  <1> HIDE DEF l
  <1>11. h # 0 /\ db[h].admin = Accounts[h].admin /\ db[h].bal \in Nat
    BY <1>1, <1>8, BookRecord DEF Lines, GoodOf, BookOf
  <1>12. ASSUME reply.line = h PROVE AsInt(en_input.low) = en_input.low
    <2>1. reply.bal \in Nat /\ reply.bal <= db[h].bal
      BY <1>1, <1>2, <1>8, <1>12 DEF GoodOf, CommitOf
    <2>2. reply.bal = db[h].bal - AsInt(en_input.low)
      BY <1>5, <1>9, <1>10, <1>11, <1>12
    <2>3. en_input.low \in 0 .. HalfRange - 1
      BY <1>8, WordType
    <2> QED BY <1>11, <2>1, <2>2, <2>3, HalfRangeType DEF AsInt
  <1>13. user_is_admin => reply.line = 0
    BY <1>5, <1>9, <1>10, <1>11
  <1>14. ASSUME ~user_is_admin
         PROVE  /\ HoldsCard(en_input, h)
                /\ \/ /\ reply.line = 0 /\ ~Pays
                      /\ reply.block = Seal(Word(0, 0, Spendable(db[h].bal)))
                   \/ /\ reply.line = h /\ Pays /\ reply.bal = db[h].bal - en_input.low
                      /\ reply.block = Seal(Word(0, 0, Spendable(reply.bal)))
    <2>1. reply.status # 3 /\ ~db[h].admin
      BY <1>5, <1>9, <1>10, <1>11, <1>14
    <2>2. HoldsCard(en_input, h)
      BY <1>10, <1>11, <2>1 DEF HoldsCard
    <2>3. \/ /\ reply.line = 0 /\ (reply.status = 1 => valRead # 1)
             /\ reply.block = Seal(Word(0, 0, Spendable(db[h].bal)))
          \/ /\ reply.line = h /\ reply.status = 1 /\ valRead = 1
             /\ reply.bal = db[h].bal - AsInt(en_input.low)
             /\ reply.block = Seal(Word(0, 0, Spendable(reply.bal)))
      BY <1>5, <1>9, <1>10, <1>11, <2>1
    <2> QED BY <1>4, <1>5, <1>12, <2>1, <2>2, <2>3 DEF Pays
  <1> QED BY <1>3, <1>4, <1>6, <1>7, <1>13, <1>14

\* The answer that the machine waits for is about the customer whom it serves.
LEMMA LiveLine ==
    ASSUME NEW h \in Lines, TypeInv, ServeInv, h <= Len(Book), Serving, Live, bank # "read", reply.line = h
    PROVE  en_input.uid = Accounts[h].uid
  <1>1. reply = ServeRequest(en_input) /\ en_input \in Words /\ Kept(db) /\ bank # "down"
    BY DEF ServeInv, TypeInv, MachineTypes, BankTypes, Serving
  <1> DEFINE l == find(en_input.uid, myHash(en_input.pin))
  <1>2. LET r == ServeRequest(en_input)
        IN  /\ l = 0 => r.line = 0
            /\ l # 0 /\ db[l].admin => r.line = 0
            /\ l # 0 /\ ~db[l].admin => r.line \in {0, l}
    BY <1>1, ServeRequestType
  <1>3. l = h => en_input.uid = Accounts[h].uid
    BY <1>1, FindCustomer
  <1>4. h # 0
    BY DEF Lines
  <1> HIDE DEF l
  <1> QED BY <1>1, <1>2, <1>3, <1>4

\* A byte of an answer to a request is written.
LEMMA AnswerAccount ==
    ASSUME NEW h \in Lines, Upheld(h), Writes, WriteReply, TakeByte(byteNo, reply.block), valRead # 5
    PROVE  Upholds(h)
  <1>1. /\ TypeInv /\ TypeInv' /\ ServeInv /\ GoodOf(h) /\ Fine(h)' /\ h <= Len(Book)
        /\ odd \subseteq odd' /\ UNCHANGED <<paid, service, serves>>
    BY DEF Upheld, CoordInv, Writes
  <1>2. /\ bank = "reply" /\ byteNo \in 1 .. WordBytes /\ UNCHANGED <<db, file>>
        /\ \/ byteNo < WordBytes /\ bank' = "reply" /\ UNCHANGED <<valRead, reply>>
           \/ byteNo = WordBytes /\ reply.line # 0 /\ bank' = "save" /\ UNCHANGED <<valRead, reply>>
           \/ byteNo = WordBytes /\ reply.line = 0 /\ bank' = "poll" /\ reply' = NoReply
        /\ UNCHANGED <<en_input, allocating, adequate_cash_in_atm,
                       adequate_cash_in_account, user_is_admin, cache, cache_mode,
                       cache_update_count>>
    BY <1>1, ByteTaken
  <1>3. Serving /\ ~Syncing
    BY <1>1, <1>2 DEF Serving, ServeInv, TypeInv, BankTypes, Working
  <1>4. /\ ~Taking => UNCHANGED <<system_state, response>>
        /\ Taking => system_state = "Communicating" /\ system_state' \in {"Communicating", "Decrypt"}
    <2>1. Taking => system_state = "Communicating"
      BY <1>3 DEF Taking, Syncing
    <2> QED BY <1>1, <2>1, ByteTaken
  <1>5. Book' = Book /\ Book = db
    BY <1>2 DEF Book
  <1>6. /\ Booked(h) = db[h].bal
        /\ reply.line = h /\ byteNo = WordBytes => Booked(h)' = reply.bal
        /\ reply.line # h \/ byteNo # WordBytes => Booked(h)' = db[h].bal
    <2>1. h # 0
      BY DEF Lines
    <2> QED BY <1>2, <1>5, <2>1 DEF Booked
  <1>7. reply.line = h => reply.bal \in Nat /\ reply.bal <= db[h].bal
    BY <1>1, <1>2, <1>5 DEF GoodOf, CommitOf
  <1>8. db[h].bal \in Nat /\ db[h].bal <= Accounts[h].bal /\ Accounts[h].bal \in Nat
    BY <1>1, <1>5, AccountType DEF GoodOf, BookOf
  <1>9. BookOf(h)' /\ CardOf(h)'
    BY <1>1, <1>2, <1>5, <1>8 DEF GoodOf, BookOf, CardOf, HoldsCard
  <1>10. CommitOf(h)'
    <2>1. bank' = "save" \/ bank' = "reply" => UNCHANGED <<valRead, reply>>
      BY <1>2
    <2> QED BY <1>2, <1>5, <1>7, <1>8, <2>1 DEF CommitOf
  <1>11. ASSUME reply.line = h, Live
         PROVE  en_input.uid = Accounts[h].uid
    BY <1>1, <1>2, <1>3, <1>11, LiveLine
  <1>12. AskedOf(h)'
    <2> SUFFICES ASSUME Serving', ~Live', reply'.line = h
                 PROVE  Marked("late", Accounts[h].uid)'
      BY <1>2 DEF AskedOf, Serving
    <2>1. byteNo < WordBytes /\ bank' = "reply" /\ UNCHANGED reply
      BY <1>2 DEF Serving
    <2>2. ~Live
      <3>1. SUFFICES ASSUME Live PROVE FALSE
        OBVIOUS
      <3>2. en_input.uid = Accounts[h].uid /\ system_state = "Communicating"
        BY <1>11, <2>1, <3>1 DEF Live
      <3>3. UNCHANGED system_state
        BY <2>1, <3>2, AnswerTaken
      <3> QED BY <1>1, <3>1, <3>3 DEF Live
    <2>3. Marked("late", Accounts[h].uid)
      BY <1>1, <1>2, <1>3, <2>1, <2>2 DEF GoodOf, AskedOf
    <2> QED BY <1>1, <2>3 DEF Marked
  <1>13. ReportOf(h)'
    <2>1. system_state' # "UpdateCache"
      BY <1>3, <1>4 DEF Syncing
    <2>2. bank' = "reply" => valRead' # 5
      BY <1>2
    <2>3. bank' # "read"
      BY <1>2
    <2> QED BY <2>1, <2>2, <2>3 DEF ReportOf
  <1>14. ServedOf(h)'
    <2> SUFFICES ASSUME en_input.uid = Accounts[h].uid PROVE ServedOf(h)'
      BY <1>2 DEF ServedOf
    <2>1. ServedOf(h) /\ system_state # "Decrypt"
      BY <1>1, <1>2 DEF GoodOf, ServedOf
    <2>2. CASE system_state = "Communicating"
      <3>1. /\ Live /\ Serving /\ ~allocating
            /\ byteNo < WordBytes =>
                  UNCHANGED system_state /\ response'[WordBytes] = NoByte /\ bank' = "reply"
            /\ byteNo = WordBytes =>
                  /\ system_state' = "Decrypt" /\ bank' \in {"save", "poll"}
                  /\ \A k \in 1 .. WordBytes : response'[k] = reply.block
            /\ ~user_is_admin =>
                  /\ HoldsCard(en_input, h)
                  /\ \/ /\ reply.line = 0
                        /\ reply.block = Seal(Word(0, 0, Spendable(db[h].bal)))
                     \/ /\ reply.line = h
                        /\ reply.block = Seal(Word(0, 0, Spendable(reply.bal)))
        BY <2>2, AnswerTaken
      <3>2. CASE byteNo < WordBytes
        BY <1>2, <2>1, <3>1, <3>2 DEF ServedOf, Serving, Live
      <3>3. CASE byteNo = WordBytes
        <4>1. h # 0
          BY DEF Lines
        <4>2. ~user_is_admin => HoldsCard(en_input, h) /\ Tells(response, Booked(h))'
          BY <1>6, <3>1, <3>3, <4>1 DEF Tells
        <4> QED BY <1>2, <3>1, <3>3, <4>2 DEF ServedOf, Serving, HoldsCard
      <3> QED BY <1>2, <3>2, <3>3, Sizes
    <2>3. CASE system_state # "Communicating"
      <3>1. UNCHANGED system_state
        BY <1>4, <2>3
      <3> QED BY <2>1, <2>3, <3>1 DEF ServedOf, Live
    <2> QED BY <2>2, <2>3
  <1>15. ~Due(h)
    BY <1>1, <1>2 DEF Due, GoodOf, ServedOf
  <1>16. \A j : (Stale(j) => Stale(j)') /\ (Replaced(j)' <=> Replaced(j))
    <2>1. ~Syncing'
      BY <1>3, <1>4 DEF Syncing
    <2> QED BY <1>2, <1>3, <2>1, StaleKept
  <1>17. /\ Booked(h)' <= Booked(h) /\ Booked(h)' + Owes(h)' <= Booked(h)
         /\ Clean(h)' => Booked(h)' + Owes(h)' = Booked(h)
    <2>1. CASE system_state = "Communicating" /\ en_input.uid = Accounts[h].uid
      <3>1. /\ byteNo < WordBytes => UNCHANGED system_state
            /\ byteNo = WordBytes => system_state' = "Decrypt"
            /\ user_is_admin => reply.line = 0
            /\ ~user_is_admin => \/ reply.line = 0 /\ ~Pays
                                 \/ reply.line = h /\ Pays /\ reply.bal = db[h].bal - en_input.low
        BY <2>1, AnswerTaken
      <3>2. Pays' <=> Pays
        BY <1>2 DEF Pays
      <3>3. h # 0 /\ en_input.low \in Nat
        BY <1>1, WordType DEF Lines, TypeInv, MachineTypes
      <3>4. CASE byteNo < WordBytes
        <4>1. ~Due(h)' /\ Booked(h)' = db[h].bal
          BY <1>6, <2>1, <3>1, <3>4, Sizes DEF Due
        <4> QED BY <1>6, <1>8, <4>1 DEF Owes
      <3>5. CASE byteNo = WordBytes
        <4>1. Due(h)' <=> (reply.line = h)
          BY <1>2, <2>1, <3>1, <3>2, <3>3, <3>5 DEF Due
        <4>2. Owes(h)' = IF reply.line = h THEN en_input.low ELSE 0
          BY <1>2, <4>1 DEF Owes
        <4>3. reply.line = h => reply.bal = db[h].bal - en_input.low
          BY <3>1, <3>3
        <4> QED BY <1>6, <1>7, <1>8, <3>3, <3>5, <4>2, <4>3
      <3> QED BY <1>2, <3>4, <3>5, Sizes
    <2>2. CASE ~(system_state = "Communicating" /\ en_input.uid = Accounts[h].uid)
      <3>1. ~Due(h)'
        <4>1. Pays' <=> Pays
          BY <1>2 DEF Pays
        <4> QED BY <1>2, <1>4, <1>15, <2>2, <4>1 DEF Due
      <3>2. Clean(h)' => reply.line # h
        <4>1. ASSUME reply.line = h PROVE <<"late", Accounts[h].uid>> \in odd'
          <5>1. ~Live
            BY <1>11, <2>2, <4>1 DEF Live
          <5> QED BY <1>1, <1>2, <1>3, <4>1, <5>1 DEF GoodOf, AskedOf, Marked
        <4> QED BY <4>1, MarksAfter
      <3> QED BY <1>6, <1>7, <1>8, <3>1, <3>2 DEF Owes
    <2> QED BY <2>1, <2>2
  <1>18. UnderOf(h)' /\ (Clean(h)' /\ OverOf(h) => OverOf(h)')
    BY <1>1, <1>2, <1>9, <1>10, <1>15, <1>16, <1>17, MoneyMoved
  <1> QED BY <1>9, <1>10, <1>12, <1>13, <1>14, <1>18 DEF Upholds, GoodOf

\* A byte of an answer to an entry of the cache is written; the last makes the
\* balance of the account the entry's.
LEMMA EntryAccount ==
    ASSUME NEW h \in Lines, Upheld(h), Writes, WriteReply, TakeByte(byteNo, reply.block), valRead = 5
    PROVE  Upholds(h)
  <1>1. /\ TypeInv /\ TypeInv' /\ RoundInv /\ EntryInv /\ GoodOf(h) /\ Fine(h)' /\ h <= Len(Book)
        /\ odd \subseteq odd' /\ UNCHANGED <<paid, service, serves>>
        /\ Marks(Strays, "crossed", {en_input.uid}) \subseteq odd'
    BY DEF Upheld, CoordInv, Writes
  <1>2. /\ bank = "reply" /\ byteNo \in 1 .. WordBytes /\ UNCHANGED <<db, file>>
        /\ reply.block # NoByte
        /\ \/ byteNo < WordBytes /\ bank' = "reply" /\ UNCHANGED <<valRead, reply>>
           \/ byteNo = WordBytes /\ reply.line # 0 /\ bank' = "save" /\ UNCHANGED <<valRead, reply>>
           \/ byteNo = WordBytes /\ reply.line = 0 /\ bank' = "poll" /\ reply' = NoReply
        /\ UNCHANGED <<en_input, allocating, adequate_cash_in_atm,
                       adequate_cash_in_account, user_is_admin, cache, cache_mode,
                       cache_update_count>>
    BY <1>1, ByteTaken
  <1>3. /\ ~Taking => UNCHANGED <<system_state, response>>
        /\ Taking =>
              /\ \A k \in 1 .. WordBytes : response'[k] = IF k = byteNo THEN reply.block ELSE response[k]
              /\ \/ UNCHANGED system_state /\ \E k \in 1 .. WordBytes : response'[k] = NoByte
                 \/ /\ \A k \in 1 .. WordBytes : response'[k] # NoByte
                    /\ system_state' = IF system_state = "SyncCache" THEN "UpdateCache" ELSE "Decrypt"
    BY <1>1, ByteTaken
  <1>4. /\ Syncing => system_state = "SyncCache"
        /\ system_state # "UpdateCache"
        /\ system_state = "Communicating" => en_input.uid # Accounts[h].uid
        /\ system_state = "Decrypt" => en_input.uid # Accounts[h].uid
    <2>1. Syncing => system_state = "SyncCache"
      BY <1>1, <1>2 DEF EntryInv
    <2>2. system_state = "Communicating" => Strays
      <3>1. serves \in Nat /\ service \in Nat
        BY <1>1 DEF TypeInv, GhostTypes
      <3> QED BY <1>1, <1>2, <3>1 DEF EntryInv, Working, Waiting, Syncing, Strays
    <2>3. system_state = "Communicating" => en_input.uid # Accounts[h].uid
      BY <1>1, <2>2, MarksAfter DEF Marks
    <2> QED BY <1>1, <1>2, <2>1, <2>3 DEF Syncing, GoodOf, ServedOf
  <1>5. Book' = Book /\ Book = db /\ Kept(db)
    BY <1>1, <1>2 DEF Book, TypeInv, BankTypes
  <1>6. /\ Booked(h) = db[h].bal /\ h # 0
        /\ reply.line = h /\ byteNo = WordBytes => Booked(h)' = reply.bal
        /\ reply.line # h \/ byteNo # WordBytes => Booked(h)' = db[h].bal
    <2>1. h # 0
      BY DEF Lines
    <2> QED BY <1>2, <1>5, <2>1 DEF Booked
  <1>7. db[h].bal \in Nat /\ db[h].bal <= Accounts[h].bal /\ Accounts[h].bal \in Nat
        /\ 2 * Accounts[h].bal < HalfRange /\ HalfRange \in Nat
    BY <1>1, <1>5, AccountType, HalfRangeType DEF GoodOf, BookOf
  <1>8. cache[1] \in Words /\ 1 \in Places /\ cache[1].low \in 0 .. HalfRange - 1
    <2>1. cache[1] \in Words /\ 1 \in Places
      BY <1>1, Sizes DEF TypeInv, MachineTypes, Caches, Places
    <2> QED BY <2>1, WordType
  <1>9. ASSUME system_state = "SyncCache"
        PROVE  /\ response[WordBytes] = NoByte /\ \A k \in 1 .. byteNo - 1 : response[k] = reply.block
               /\ byteNo < WordBytes => UNCHANGED system_state
               /\ byteNo = WordBytes => /\ system_state' = "UpdateCache"
                                        /\ \A k \in 1 .. WordBytes : response'[k] = reply.block
    <2>1. response[WordBytes] = NoByte /\ \A k \in 1 .. byteNo - 1 : response[k] = reply.block
      BY <1>1, <1>2, <1>9 DEF RoundInv, EntryInv, Syncing
    <2>2. ASSUME byteNo < WordBytes PROVE response'[WordBytes] = NoByte /\ WordBytes \in 1 .. WordBytes
      BY <1>2, <1>3, <1>9, <2>1, <2>2, Sizes DEF Taking
    <2>3. ASSUME byteNo = WordBytes PROVE \A k \in 1 .. WordBytes : response'[k] = reply.block
      <3>1. \A k \in 1 .. WordBytes : k = byteNo \/ k \in 1 .. byteNo - 1
        BY <2>3, Sizes
      <3> QED BY <1>3, <1>9, <2>1, <3>1 DEF Taking
    <2> QED BY <1>2, <1>3, <1>9, <2>1, <2>2, <2>3 DEF Taking
  <1>10. reply.line = h => system_state = "SyncCache" /\ cache[1].uid = Accounts[h].uid
    BY <1>1, <1>2 DEF GoodOf, ReportOf
  <1>11. ASSUME system_state = "SyncCache", cache[1].uid = Accounts[h].uid
         PROVE  LET r == db[h].bal - Truncated(4 * db[h].bal - 5 * cache[1].low)
                IN  /\ reply.line = h /\ reply.bal = r /\ r \in Nat /\ r <= Left(h)
                    /\ OverOf(h) => Left(h) <= r
                    /\ reply.block = Seal(Word(0, 0, Spendable(r)))
    <2> DEFINE l == find(cache[1].uid, myHash(cache[1].pin))
    <2>1. reply = ServeCacheEntry(cache[1]) /\ HoldsCard(cache[1], h)
      BY <1>1, <1>2, <1>8, <1>11 DEF GoodOf, ReportOf, CardOf
    <2>2. l = h
      BY <1>1, <1>2, <2>1, FindCustomer DEF HoldsCard
    <2> DEFINE s == ServeCacheEntry(cache[1])
    <2>3. /\ s.line = h
          /\ s.bal = db[h].bal - Truncated(4 * db[h].bal - 5 * AsInt(cache[1].low))
          /\ s.block = Seal(Word(0, 0, Spendable(s.bal)))
      BY <1>5, <1>6, <1>8, <2>2, ServeEntryType
    <2> HIDE DEF l, s
    <2>4. Left(h) \in Int /\ Left(h) <= Accounts[h].bal
      BY <1>1, LeftType
    <2>5. 1 \in EntriesOf(h) /\ ~Replaced(1) /\ ~Due(h)
      BY <1>8, <1>11 DEF EntriesOf, Replaced, Due
    <2>6. db[h].bal + 5 * cache[1].low <= 5 * Left(h)
      BY <1>1, <1>6, <2>5 DEF GoodOf, UnderOf
    <2>7. AsInt(cache[1].low) = cache[1].low
      <3>1. 2 * cache[1].low < HalfRange
        BY <1>7, <1>8, <2>4, <2>6
      <3> QED BY <1>8, <3>1, AsIntOf
    <2> DEFINE r == db[h].bal - Truncated(4 * db[h].bal - 5 * cache[1].low)
    <2>8. /\ r \in Nat /\ r <= Left(h)
          /\ Left(h) <= db[h].bal /\ 5 * Left(h) <= db[h].bal + 5 * cache[1].low + 4 => Left(h) <= r
      <3>1. cache[1].low \in Nat
        BY <1>8
      <3> QED BY <1>7, <2>4, <2>6, <3>1, Reconciled
    <2>9. OverOf(h) => Left(h) <= db[h].bal /\ 5 * Left(h) <= db[h].bal + 5 * cache[1].low + 4
      <3>1. OverOf(h) => Left(h) <= db[h].bal + 0
        BY <1>6, <2>5 DEF OverOf, Owes
      <3>2. OverOf(h) => 5 * Left(h) <= db[h].bal + 5 * cache[1].low + 4
        BY <1>6, <2>5 DEF OverOf
      <3> QED BY <1>7, <3>1, <3>2
    <2>10. s = reply
      BY <2>1 DEF s
    <2>11. s.bal = r
      BY <2>3, <2>7
    <2> HIDE DEF r
    <2>12. /\ reply.line = h /\ reply.bal = r /\ r \in Nat /\ r <= Left(h)
           /\ OverOf(h) => Left(h) <= r
           /\ reply.block = Seal(Word(0, 0, Spendable(r)))
      BY <2>3, <2>8, <2>9, <2>10, <2>11
    <2> QED BY <2>12 DEF r
  <1>12. BookOf(h)' /\ CardOf(h)' /\ AskedOf(h)'
    <2>1. ~Serving'
      BY <1>2 DEF Serving
    <2> QED BY <1>1, <1>2, <1>5, <1>7, <2>1 DEF GoodOf, BookOf, CardOf, HoldsCard, AskedOf
  <1>13. CommitOf(h)'
    <2>1. ASSUME bank' = "save", reply'.line = h
          PROVE  reply'.bal \in Nat /\ reply'.bal <= Accounts[h].bal
      <3>1. UNCHANGED reply
        BY <1>2, <2>1
      <3>2. reply.bal \in Nat /\ reply.bal <= Left(h)
        BY <1>10, <1>11, <2>1, <3>1
      <3>3. Left(h) \in Int /\ Left(h) <= Accounts[h].bal
        BY <1>1, LeftType
      <3> QED BY <1>7, <3>1, <3>2, <3>3
    <2>2. bank' \in {"status", "reply"} => valRead' = 5
      BY <1>2
    <2> QED BY <2>1, <2>2 DEF CommitOf
  <1>14. ReportOf(h)'
    <2>1. bank' = "reply" /\ system_state = "SyncCache" => UNCHANGED <<system_state, reply>>
      BY <1>2, <1>9
    <2>2. system_state' = "SyncCache" => system_state = "SyncCache"
      BY <1>3
    <2>3. ASSUME bank' = "reply", reply'.line = h
          PROVE  system_state' = "SyncCache" /\ cache'[1].uid = Accounts[h].uid
      <3>1. UNCHANGED reply
        BY <1>2, <2>3
      <3> QED BY <1>2, <1>10, <2>1, <2>3, <3>1
    <2>4. ASSUME bank' = "reply", system_state' = "SyncCache", cache'[1].uid = Accounts[h].uid
          PROVE  reply' = ServeCacheEntry(cache[1])'
      <3>1. UNCHANGED reply
        BY <1>2, <2>4
      <3>2. reply = ServeCacheEntry(cache[1])
        BY <1>1, <1>2, <2>2, <2>4 DEF GoodOf, ReportOf
      <3> QED BY <1>2, <3>1, <3>2, EntryAnswerKept
    <2>5. ASSUME system_state' = "UpdateCache", cache'[1].uid = Accounts[h].uid
          PROVE  Tells(response, Booked(h))'
      <3>1. system_state = "SyncCache"
        BY <1>3, <1>4, <2>5 DEF Taking
      <3>2. byteNo = WordBytes /\ \A k \in 1 .. WordBytes : response'[k] = reply.block
        BY <1>2, <1>9, <2>5, <3>1, Sizes
      <3>3. reply.line = h /\ reply.block = Seal(Word(0, 0, Spendable(reply.bal)))
        BY <1>2, <1>11, <2>5, <3>1
      <3> QED BY <1>6, <3>2, <3>3 DEF Tells
    <2>6. bank' # "read"
      BY <1>2
    <2> QED BY <2>3, <2>4, <2>5, <2>6 DEF ReportOf
  <1>15. ServedOf(h)'
    <2>1. en_input.uid = Accounts[h].uid => system_state' \notin {"Communicating", "Decrypt"}
      BY <1>3, <1>4 DEF Taking
    <2>2. ~Serving'
      BY <1>2 DEF Serving
    <2> QED BY <1>2, <2>1, <2>2 DEF ServedOf
  <1>16. ~Due(h) /\ ~Due(h)' /\ Owes(h)' = 0
    BY <1>2, <1>3, <1>4 DEF Due, Taking, Owes
  <1>17. UnderOf(h)' /\ (Clean(h)' /\ OverOf(h) => OverOf(h)')
    <2>1. CASE reply.line = h /\ byteNo = WordBytes
      <3>1. /\ system_state' = "UpdateCache" /\ cache[1].uid = Accounts[h].uid
            /\ Booked(h)' \in Nat /\ Booked(h)' <= Left(h) /\ (OverOf(h) => Left(h) <= Booked(h)')
        BY <1>6, <1>9, <1>10, <1>11, <2>1
      <3>2. EntriesOf(h)' = {1}
        <4>1. Unique(cache) /\ Accounts[h].uid \in Users
          BY <1>1, AccountType DEF TypeInv, MachineTypes
        <4>2. \A j \in Places : cache[j].uid = Accounts[h].uid => j = 1
          BY <1>8, <3>1, <4>1 DEF Unique
        <4>3. EntriesOf(h) = {1}
          BY <1>8, <3>1, <4>2 DEF EntriesOf
        <4> QED BY <1>2, <4>3 DEF EntriesOf
      <3>3. Replaced(1)' /\ Left(h)' = Left(h) /\ Left(h) \in Int
        BY <1>1, <3>1, LeftType DEF Replaced, Left
      <3>4. UnderOf(h)'
        BY <1>16, <3>1, <3>2, <3>3 DEF UnderOf
      <3>5. OverOf(h) => OverOf(h)'
        BY <1>16, <3>1, <3>2, <3>3 DEF OverOf
      <3> QED BY <3>4, <3>5
    <2>2. CASE ~(reply.line = h /\ byteNo = WordBytes)
      <3>1. Booked(h)' = Booked(h)
        BY <1>6, <2>2
      <3>2. \A j \in EntriesOf(h) : (Stale(j) => Stale(j)') /\ (Replaced(j)' <=> Replaced(j))
        <4>1. CASE UNCHANGED system_state
          BY <1>2, <4>1, StaleKept
        <4>2. CASE system_state = "SyncCache" /\ system_state' = "UpdateCache"
          <5>1. 1 \notin EntriesOf(h)
            BY <1>2, <1>9, <1>11, <2>2, <4>2 DEF EntriesOf
          <5>2. \A j \in EntriesOf(h) : j # 1
            BY <5>1
          <5> QED BY <1>2, <4>2, <5>2 DEF Stale, Replaced, Updated, Syncing
        <4>3. CASE system_state = "Communicating"
          <5>1. ~Syncing /\ ~Syncing'
            BY <1>3, <4>3 DEF Syncing
          <5> QED BY <1>2, <5>1, StaleKept
        <4> QED BY <1>3, <4>1, <4>2, <4>3 DEF Taking
      <3> QED BY <1>1, <1>2, <1>16, <3>1, <3>2, MoneyKept DEF GoodOf
    <2> QED BY <2>1, <2>2
  <1> QED BY <1>12, <1>13, <1>14, <1>15, <1>17 DEF Upholds, GoodOf

\* A step of the bank alone, which changes no balance that is or will be in memory.
LEMMA BankAlone ==
    ASSUME NEW h \in Lines, Upheld(h), bank' \notin {"read", "status", "reply", "save"},
           Booked(h)' = Booked(h), BookOf(h)',
           UNCHANGED <<en_input, allocating, adequate_cash_in_atm, adequate_cash_in_account,
                       user_is_admin, response, cache, cache_mode, cache_update_count, paid>>,
           UNCHANGED system_state \/ (system_state = "Setup" /\ system_state' = "Ready")
    PROVE  Upholds(h)
  <1>1. GoodOf(h)
    BY DEF Upheld
  <1>2. ~Serving'
    BY DEF Serving
  <1>3. \A bytes, b : Tells(response, b)' <=> Tells(response, b)
    BY DEF Tells
  <1>4. CommitOf(h)' /\ CardOf(h)' /\ AskedOf(h)' /\ ReportOf(h)'
    BY <1>1, <1>2 DEF GoodOf, CommitOf, CardOf, HoldsCard, AskedOf, ReportOf, Tells
  <1>5. ServedOf(h)'
    BY <1>1, <1>2 DEF GoodOf, ServedOf, HoldsCard, Tells
  <1>6. (UnderOf(h) => UnderOf(h)') /\ (OverOf(h) => OverOf(h)')
    <2>1. (Due(h)' <=> Due(h)) /\ (Due(h) => UNCHANGED en_input)
      BY DueKept
    <2>2. \A j : (Stale(j) => Stale(j)') /\ (Replaced(j)' <=> Replaced(j))
      <3>1. \/ UNCHANGED <<system_state, cache_mode, cache_update_count>>
            \/ UNCHANGED cache_mode /\ ~Syncing /\ ~Syncing'
        BY DEF Syncing
      <3> QED BY <3>1, StaleKept
    <2> QED BY <2>1, <2>2, MoneyKept
  <1> QED BY <1>1, <1>4, <1>5, <1>6 DEF Upholds, GoodOf

\* The set-up, the debit, the file, a crash and a restart.
LEMMA BankAccount ==
    ASSUME NEW h \in Lines, Upheld(h), SetsUp \/ Saves \/ Stops \/ Starts
    PROVE  Upholds(h)
  <1>1. /\ TypeInv /\ SavedInv /\ GoodOf(h) /\ Fine(h)' /\ h <= Len(Book) /\ h <= Len(Book')
        /\ BookOf(h) /\ CommitOf(h) /\ Kept(db) /\ h \in 1 .. Len(Book)
    BY BookRecord DEF Upheld, GoodOf, TypeInv, BankTypes
  <1>2. /\ UNCHANGED <<en_input, allocating, adequate_cash_in_atm, adequate_cash_in_account,
                       user_is_admin, response, cache, cache_mode, cache_update_count, paid>>
        /\ UNCHANGED system_state \/ (system_state = "Setup" /\ system_state' = "Ready")
    BY DEF SetsUp, TakeSetup, Saves, Stops, Starts, ghosts, atmVars
  <1>3. bank' \notin {"read", "status", "reply", "save"} /\ Booked(h)' = Book'[h].bal
    <2>1. bank' \notin {"read", "status", "reply", "save"}
      BY DEF SetsUp, WriteSetup, Saves, Debit, Rewrite, Stops, Crash, Starts, Start, NextRound
    <2> QED BY <2>1 DEF Booked
  <1>4. Book'[h].bal = Booked(h)
    <2>1. CASE SetsUp
      BY <2>1 DEF SetsUp, WriteSetup, NextRound, Book, Booked
    <2>2. CASE Saves /\ Debit
      <3>1. /\ db' = [db EXCEPT ![reply.line].bal = reply.bal] /\ bank = "save" /\ bank' = "rewrite"
            /\ DOMAIN db = 1 .. Len(db) /\ h \in 1 .. Len(db)
        BY <1>1, <2>2 DEF Debit, Kept, Book
      <3> QED BY <3>1 DEF Book, Booked
    <2>3. CASE Saves /\ Rewrite
      BY <2>3 DEF Rewrite, NextRound, Book, Booked
    <2>4. CASE Stops
      <3>1. /\ bank # "down" /\ bank' = "down" /\ Book = db /\ Book' = file'
            /\ Marks(bank \in {"save", "rewrite"}, "torn", {Accounts[reply.line].uid}) \subseteq odd'
        BY <2>4 DEF Stops, Crash, Book
      <3>2. CASE bank # "rewrite"
        <4>1. file' = db
          BY <1>1, <2>4, <3>1, <3>2 DEF Stops, Crash, SavedInv
        <4>2. ~(bank = "save" /\ reply.line = h)
          BY <1>1, <3>1, MarksAfter DEF Marks
        <4> QED BY <3>1, <4>1, <4>2 DEF Booked
      <3>3. CASE bank = "rewrite"
        <4>1. PICK n \in 0 .. Len(db) : file' = SubSeq(db, 1, n)
          BY <2>4, <3>3 DEF Stops, Crash
        <4>2. h \in 1 .. n
          BY <1>1, <3>1, <4>1, FirstRecords
        <4>3. file'[h] = db[h]
          BY <1>1, <4>1, <4>2, FirstRecords
        <4> QED BY <3>1, <3>3, <4>3 DEF Booked
      <3> QED BY <3>2, <3>3
    <2>5. CASE Starts
      BY <2>5 DEF Starts, Start, Book, Booked
    <2> QED BY <2>1, <2>2, <2>3, <2>4, <2>5 DEF Saves
  <1>5. BookOf(h)'
    <2>1. Booked(h) \in Nat /\ Booked(h) <= Accounts[h].bal
      BY <1>1, BookedType
    <2> QED BY <1>4, <2>1 DEF BookOf
  <1> QED BY <1>2, <1>3, <1>4, <1>5, BankAlone

\* What the machine does, does not change the bank; a request that it gives up while
\* the bank is at work on it is marked.
LEMMA MovesAsked ==
    ASSUME NEW h \in Lines, Upheld(h), AtmMoves
    PROVE  /\ UNCHANGED bankVars /\ Book' = Book /\ Booked(h)' = Booked(h)
           /\ BookOf(h)' /\ CommitOf(h)' /\ AskedOf(h)'
  <1>1. /\ TypeInv /\ ServeInv /\ GoodOf(h) /\ h <= Len(Book) /\ odd \subseteq odd' /\ UNCHANGED bankVars
    BY MachineKeepsBank DEF Upheld, CoordInv
  <1>2. Book' = Book /\ Booked(h)' = Booked(h)
    BY <1>1 DEF bankVars, Book, Booked
  <1>3. BookOf(h)' /\ CommitOf(h)'
    BY <1>1, <1>2 DEF GoodOf, BookOf, CommitOf, bankVars
  <1>4. Live /\ ~Live' /\ Serving => <<"late", en_input.uid>> \in odd'
    <2>1. CASE AtmStep \/ Enters
      <3>1. Live => Live'
        BY <2>1 DEF Live, AtmStep, ServesReply, ServeReply, ServesOffline, ServeOffline, Works,
                    Allocated, HandedOut, EndService, Ending, NextEntry, UpdateEntry, Enters,
                    PressStart, Submit, ghosts
      <3> QED BY <3>1
    <2>2. CASE GivesUp \/ Resets
      <3>1. Late \subseteq odd'
        BY <2>2 DEF GivesUp, Resets
      <3> QED BY <3>1 DEF Late, Marks, Live, Serving, Races
    <2> QED BY <2>1, <2>2 DEF AtmMoves
  <1>5. Serving' <=> Serving
    BY <1>1 DEF Serving, bankVars
  <1>6. AskedOf(h)'
    <2>1. ASSUME Serving', bank' = "read", ~Live', NEW k \in 1 .. Len(request'), NEW w \in Words,
                 request'[k] = Seal(w), w.uid = Accounts[h].uid
          PROVE  Marked("late", w.uid)'
      <3>1. Serving /\ bank = "read" /\ k \in 1 .. Len(request) /\ request[k] = Seal(w)
        BY <1>1, <1>5, <2>1 DEF bankVars
      <3>2. CASE Live
        <4>1. request[k] = Seal(en_input) /\ en_input \in Words
          BY <1>1, <3>1, <3>2 DEF ServeInv, TypeInv, MachineTypes
        <4>2. w = en_input
          BY <3>1, <4>1, OneSeal
        <4> QED BY <1>4, <2>1, <3>1, <3>2, <4>2 DEF Marked
      <3>3. CASE ~Live
        BY <1>1, <2>1, <3>1, <3>3 DEF GoodOf, AskedOf, Marked
      <3> QED BY <3>2, <3>3
    <2>2. ASSUME Serving', bank' # "read", ~Live', reply'.line = h
          PROVE  Marked("late", Accounts[h].uid)'
      <3>1. Serving /\ bank # "read" /\ reply.line = h
        BY <1>1, <1>5, <2>2 DEF bankVars
      <3>2. CASE Live
        BY <1>1, <1>4, <2>2, <3>1, <3>2, LiveLine DEF Marked
      <3>3. CASE ~Live
        BY <1>1, <3>1, <3>3 DEF GoodOf, AskedOf, Marked
      <3> QED BY <3>2, <3>3
    <2> QED BY <2>1, <2>2 DEF AskedOf
  <1> QED BY <1>1, <1>2, <1>3, <1>6

\* Where the machine moves within a round, and out of one.
LEMMA MovesOfRound ==
    ASSUME TypeInv, AtmMoves
    PROVE  /\ Syncing /\ ~Syncing' => \/ system_state = "CommRegained" /\ cache_update_count = CacheSize
                                      \/ Cut \subseteq odd'
           /\ system_state = "SyncCache" =>
                 UNCHANGED <<system_state, cache>> \/ (system_state' = "Ready" /\ Cut \subseteq odd')
           /\ system_state' = "SyncCache" /\ system_state # "SyncCache" => system_state = "CommRegained"
           /\ system_state' = "UpdateCache" => UNCHANGED <<system_state, cache, response>>
  <1>1. CASE ServesReply \/ ServesOffline
    BY <1>1 DEF ServesReply, ServeReply, ServesOffline, ServeOffline, Syncing
  <1>2. CASE Works /\ ~NextEntry /\ ~UpdateEntry
    BY <1>2 DEF Works, Allocated, HandedOut, EndService, Ending, Syncing
  <1>3. CASE NextEntry \/ UpdateEntry
    BY <1>3 DEF NextEntry, UpdateEntry, Syncing
  <1>4. CASE Enters \/ GivesUp
    BY <1>4 DEF Enters, PressStart, Submit, GivesUp, TimeOut, Syncing
  <1>5. CASE Resets
    BY <1>5 DEF Resets, PressReset, Cleared, Syncing
  <1> QED BY <1>1, <1>2, <1>3, <1>4, <1>5 DEF AtmMoves, AtmStep, Works

\* A round that is cut short spoils the customers of the entries.
LEMMA CutMarks ==
    ASSUME NEW h \in Lines, Fine(h)', Cut \subseteq odd', Syncing, cache_update_count < CacheSize
    PROVE  EntriesOf(h) = {}
  <1>1. \A j \in Places : <<"cut", cache[j].uid>> \in odd'
    BY DEF Cut, Marks, Places
  <1> QED BY <1>1, MarksAfter DEF EntriesOf

\* What the machine does leaves the entry that the bank reports, or marks it.
LEMMA MovesReport ==
    ASSUME NEW h \in Lines, Upheld(h), AtmMoves
    PROVE  ReportOf(h)'
  <1>1. /\ TypeInv /\ EntryInv /\ RoundInv /\ ReportOf(h) /\ Fine(h) /\ Fine(h)'
    BY DEF Upheld, CoordInv, GoodOf
  <1>2. UNCHANGED bankVars /\ Booked(h)' = Booked(h)
    BY MovesAsked
  <1>3. /\ Syncing /\ ~Syncing' => \/ system_state = "CommRegained" /\ cache_update_count = CacheSize
                                   \/ Cut \subseteq odd'
        /\ system_state = "SyncCache" =>
              UNCHANGED <<system_state, cache>> \/ (system_state' = "Ready" /\ Cut \subseteq odd')
        /\ system_state' = "SyncCache" /\ system_state # "SyncCache" => system_state = "CommRegained"
        /\ system_state' = "UpdateCache" => UNCHANGED <<system_state, cache, response>>
    BY <1>1, MovesOfRound
  <1>4. system_state = "SyncCache" /\ Cut \subseteq odd' => EntriesOf(h) = {}
    BY <1>1, CutMarks DEF TypeInv, MachineTypes, Syncing
  <1>5. 1 \in Places /\ cache[1] \in Words
    BY <1>1, Sizes DEF TypeInv, MachineTypes, Caches, Places
  <1>6. ASSUME bank' = "read", valRead' = 5, ~Syncing', NEW k \in 1 .. Len(request'), NEW w \in Words,
               request'[k] = Seal(w)
        PROVE  w.uid # Accounts[h].uid
    <2>1. bank = "read" /\ valRead = 5 /\ k \in 1 .. Len(request) /\ request[k] = Seal(w)
      BY <1>2, <1>6 DEF bankVars
    <2>2. CASE ~Syncing
      BY <1>1, <2>1, <2>2 DEF ReportOf
    <2>3. CASE Syncing
      <3>1. system_state = "SyncCache" /\ en_output = Seal(w) /\ OffersEntry
        BY <1>1, <2>1, <2>3 DEF EntryInv, RoundInv
      <3>2. Cut \subseteq odd'
        BY <1>3, <1>6, <2>3, <3>1
      <3>3. cache[1].uid # Accounts[h].uid
        BY <1>4, <1>5, <3>1, <3>2 DEF EntriesOf
      <3>4. CASE en_output = Seal(cache[1])
        <4>1. w = cache[1]
          BY <1>5, <3>1, <3>4, OneSeal
        <4> QED BY <3>3, <4>1
      <3>5. CASE \E v \in Words : en_output = Seal(v) /\ Marked("stale", v.uid)
        <4>1. PICK v \in Words : en_output = Seal(v) /\ Marked("stale", v.uid)
          BY <3>5
        <4>2. v = w
          BY <3>1, <4>1, OneSeal
        <4> QED BY <1>1, <4>1, <4>2, FineMarks
      <3> QED BY <3>1, <3>4, <3>5 DEF OffersEntry
    <2> QED BY <2>2, <2>3
  <1>7. ASSUME bank' = "reply", valRead' = 5, reply'.line = h
        PROVE  system_state' = "SyncCache" /\ cache'[1].uid = Accounts[h].uid
    <2>1. system_state = "SyncCache" /\ cache[1].uid = Accounts[h].uid
      BY <1>1, <1>2, <1>7 DEF ReportOf, bankVars
    <2>2. 1 \in EntriesOf(h)
      BY <1>5, <2>1 DEF EntriesOf
    <2> QED BY <1>3, <1>4, <2>1, <2>2
  <1>8. ASSUME bank' = "reply", valRead' = 5, system_state' = "SyncCache", cache'[1].uid = Accounts[h].uid
        PROVE  reply' = ServeCacheEntry(cache[1])'
    <2>1. bank = "reply" /\ valRead = 5 /\ UNCHANGED <<reply, db>>
      BY <1>2, <1>8 DEF bankVars
    <2>2. system_state = "SyncCache"
      BY <1>1, <1>3, <1>8, <2>1 DEF EntryInv, Syncing
    <2>3. UNCHANGED cache
      BY <1>3, <1>8, <2>2
    <2>4. reply = ServeCacheEntry(cache[1])
      BY <1>1, <1>8, <2>1, <2>2, <2>3 DEF ReportOf
    <2> QED BY <2>1, <2>3, <2>4, EntryAnswerKept
  <1>9. ASSUME system_state' = "UpdateCache", cache'[1].uid = Accounts[h].uid
        PROVE  Tells(response, Booked(h))'
    BY <1>1, <1>2, <1>3, <1>9 DEF ReportOf, Tells
  <1> QED BY <1>6, <1>7, <1>8, <1>9 DEF ReportOf

\* What the machine does leaves it with the answer that it got, or with none.
LEMMA MovesServed ==
    ASSUME NEW h \in Lines, Upheld(h), AtmMoves
    PROVE  ServedOf(h)'
  <1>1. TypeInv /\ ServedOf(h) /\ UNCHANGED bankVars
    BY MachineKeepsBank DEF Upheld, GoodOf
  <1>2. CASE Enters /\ ~PressStart
    <2>1. system_state' # "Decrypt" /\ response' = NoBytes /\ ~Live'
      <3>1. PICK w \in Requests : Submit(w) /\ service' = service + 1
        BY <1>2 DEF Enters
      <3>2. serves' = serves /\ serves \in Nat /\ service \in Nat /\ serves <= service
        BY <1>1, <1>2 DEF Enters, TypeInv, GhostTypes
      <3>3. system_state' # "Decrypt" /\ response' = NoBytes
        BY <3>1 DEF Submit
      <3> QED BY <3>1, <3>2, <3>3 DEF Live
    <2>2. response'[WordBytes] = NoByte
      BY <2>1, Sizes DEF NoBytes
    <2> QED BY <2>1, <2>2 DEF ServedOf
  <1>3. CASE Works /\ Allocated
    <2>1. /\ UNCHANGED <<system_state, en_input, response, user_is_admin>>
          /\ UNCHANGED <<serves, service>> /\ allocating
      BY <1>3 DEF Allocated, Works, ghosts
    <2>2. en_input.uid = Accounts[h].uid => ~(Serving /\ Live) /\ system_state # "Decrypt"
      BY <1>1, <2>1 DEF ServedOf
    <2>3. (Serving' <=> Serving) /\ (Live' <=> Live)
      BY <1>1, <2>1 DEF Serving, Live, bankVars
    <2> QED BY <1>1, <2>1, <2>2, <2>3 DEF ServedOf
  <1>4. CASE system_state' \notin {"Communicating", "Decrypt"}
    BY <1>4 DEF ServedOf, Live
  <1>5. \/ Enters /\ ~PressStart
        \/ Works /\ Allocated
        \/ system_state' \notin {"Communicating", "Decrypt"}
    <2>1. CASE ServesReply \/ ServesOffline
      BY <2>1 DEF ServesReply, ServeReply, ServesOffline, ServeOffline
    <2>2. CASE Works /\ ~Allocated
      BY <2>2 DEF Works, HandedOut, EndService, NextEntry, UpdateEntry
    <2>3. CASE GivesUp \/ Resets
      BY <2>3 DEF GivesUp, TimeOut, Resets, PressReset
    <2>4. CASE Enters
      <3>1. PressStart => system_state' = "TakingInput"
        BY DEF PressStart
      <3> QED BY <2>4, <3>1
    <2> QED BY <2>1, <2>2, <2>3, <2>4 DEF AtmMoves, AtmStep
  <1> QED BY <1>2, <1>3, <1>4, <1>5

\* What a step of the machine has to leave of an account, besides.
Settles(i) == CardOf(i)' /\ UnderOf(i)' /\ (Clean(i)' /\ OverOf(i) => OverOf(i)')

\* A step that neither serves a request nor changes the entries.
LEMMA PlainMoves ==
    ASSUME NEW h \in Lines, Upheld(h), AtmMoves,
           (Works /\ ~UpdateEntry) \/ Enters \/ GivesUp
    PROVE  Settles(h)
  <1>1. /\ TypeInv /\ RoundInv /\ CardOf(h) /\ ServedOf(h) /\ UnderOf(h) /\ Booked(h)' = Booked(h)
    BY MovesAsked DEF Upheld, CoordInv, GoodOf
  <1>2. UNCHANGED <<cache, paid>>
    BY DEF Works, Allocated, HandedOut, EndService, NextEntry, Enters, PressStart, Submit, GivesUp,
           TimeOut, ghosts
  <1>3. CardOf(h)'
    BY <1>1, <1>2 DEF CardOf, HoldsCard
  <1>4. (Due(h)' <=> Due(h)) /\ (Due(h) => UNCHANGED en_input)
    <2>1. CASE Works /\ Allocated
      <3>1. allocating /\ UNCHANGED <<system_state, en_input>>
        BY <2>1 DEF Allocated
      <3>2. ~Due(h)
        BY <1>1, <3>1 DEF Due, ServedOf
      <3>3. ~Due(h)'
        BY <1>1, <3>1 DEF Due, ServedOf
      <3> QED BY <3>2, <3>3
    <2>2. CASE ~(Works /\ Allocated)
      <3>1. system_state # "Decrypt" /\ system_state' # "Decrypt"
        BY <2>2 DEF Works, HandedOut, EndService, Ending, NextEntry, Enters, PressStart, Submit,
                    GivesUp, TimeOut
      <3> QED BY <3>1, DueKept
    <2> QED BY <2>1, <2>2
  <1>5. \A j \in Places : (Stale(j) => Stale(j)') /\ (Replaced(j)' <=> Replaced(j))
    <2>1. CASE (Works /\ ~NextEntry /\ ~UpdateEntry) \/ Enters
      <3>1. \/ UNCHANGED <<system_state, cache_mode, cache_update_count>>
            \/ UNCHANGED cache_mode /\ ~Syncing /\ ~Syncing'
        BY <2>1 DEF Works, Allocated, HandedOut, EndService, Ending, Enters, PressStart, Submit, Syncing
      <3> QED BY <3>1, StaleKept
    <2>2. CASE NextEntry
      <3>1. CASE cache_update_count = CacheSize
        <4>1. system_state = "CommRegained" /\ system_state' = "Ready" /\ ~cache_mode
          BY <1>1, <2>2, <3>1 DEF NextEntry, RoundInv, Syncing
        <4>2. \A j \in Places : ~Stale(j)
          BY <3>1, <4>1, Sizes DEF Stale, Updated, Places
        <4> QED BY <4>1, <4>2 DEF Replaced
      <3>2. CASE cache_update_count # CacheSize
        <4>1. /\ system_state = "CommRegained" /\ system_state' = "SyncCache"
              /\ UNCHANGED <<cache_mode, cache_update_count>>
          BY <2>2, <3>2 DEF NextEntry
        <4> QED BY <4>1 DEF Stale, Updated, Replaced, Syncing
      <3> QED BY <3>1, <3>2
    <2>3. CASE GivesUp
      <3>1. /\ system_state = "Communicating" /\ system_state' \in {"NotInCache", "Offline"}
            /\ cache_mode => cache_mode'
        BY <2>3 DEF GivesUp, TimeOut
      <3> QED BY <3>1 DEF Stale, Replaced, Syncing
    <2> QED BY <2>1, <2>2, <2>3
  <1>6. \A j \in EntriesOf(h) : (Stale(j) => Stale(j)') /\ (Replaced(j)' <=> Replaced(j))
    BY <1>5 DEF EntriesOf
  <1> QED BY <1>1, <1>2, <1>3, <1>4, <1>6, MoneyKept DEF Settles

\* A reset leaves what is cached, unless it marks its customers, and what it keeps of
\* the notes is left to the customer.
LEMMA ResetAccount ==
    ASSUME NEW h \in Lines, Upheld(h), Resets
    PROVE  Settles(h)
  <1>1. /\ TypeInv /\ CardOf(h) /\ UnderOf(h) /\ Booked(h)' = Booked(h) /\ Booked(h) \in Int
        /\ Fine(h)' /\ Left(h) \in Int
    <2>1. Booked(h) \in Nat
      BY BookedType DEF Upheld, GoodOf
    <2>2. Left(h) \in Int
      BY LeftType DEF Upheld
    <2> QED BY <2>1, <2>2, MovesAsked DEF Upheld, CoordInv, GoodOf, AtmMoves
  <1>2. /\ system_state' = "Ready" /\ UNCHANGED <<cache, cache_mode>>
        /\ Unpaid \subseteq odd' /\ Cut \subseteq odd' /\ HandsOutLess
    BY DEF Resets, PressReset
  <1>3. CardOf(h)'
    BY <1>1, <1>2 DEF CardOf, HoldsCard
  <1>4. EntriesOf(h)' = EntriesOf(h) /\ ~Due(h)' /\ Owes(h)' = 0 /\ Owes(h) \in Nat
    BY <1>1, <1>2, LeftType DEF EntriesOf, Due, Owes
  <1>5. \A j \in EntriesOf(h) : (Stale(j) => Stale(j)') /\ ~Replaced(j) /\ ~Replaced(j)'
    <2>1. CASE Syncing /\ cache_update_count < CacheSize
      BY <1>1, <1>2, <2>1, CutMarks
    <2>2. CASE ~Syncing
      BY <1>2, <2>2 DEF Stale, Replaced, Syncing
    <2>3. CASE Syncing /\ ~(cache_update_count < CacheSize)
      <3>1. cache_update_count = CacheSize /\ system_state # "UpdateCache"
        BY <1>1, <2>3, Sizes DEF TypeInv, MachineTypes
      <3>2. \A j \in Places : Updated(j)
        BY <3>1, Sizes DEF Updated, Places
      <3> QED BY <1>2, <3>1, <3>2 DEF Stale, Replaced, EntriesOf
    <2> QED BY <2>1, <2>2, <2>3
  <1>6. Left(h)' >= Left(h) /\ Left(h)' \in Int /\ (paid' = paid => Left(h)' = Left(h))
        /\ (en_input.uid # Accounts[h].uid => Left(h)' = Left(h))
    <2>1. /\ paid \in [Users -> Nat] /\ Accounts[h].uid \in Users /\ Accounts[h].bal \in Nat
          /\ en_input.low \in Nat
      BY <1>1, AccountType, WordType DEF TypeInv, GhostTypes, MachineTypes
    <2>2. CASE paid' = paid
      BY <1>1, <2>2 DEF Left
    <2>3. CASE paid' # paid
      <3>1. PICK kept \in 0 .. en_input.low : paid' = [paid EXCEPT ![en_input.uid] = @ - kept]
        BY <1>2, <2>3 DEF HandsOutLess
      <3> DEFINE u == Accounts[h].uid
      <3>2. paid'[u] = IF u = en_input.uid THEN paid[u] - kept ELSE paid[u]
        BY <2>1, <3>1
      <3>3. paid[u] \in Nat /\ kept \in Nat
        BY <2>1
      <3> HIDE DEF u
      <3>4. Left(h) = Accounts[h].bal - paid[u] /\ Left(h)' = Accounts[h].bal - paid'[u]
        BY DEF Left, u
      <3>5. u = Accounts[h].uid
        BY DEF u
      <3> QED BY <2>1, <2>3, <3>2, <3>3, <3>4, <3>5
    <2> QED BY <2>2, <2>3
  <1>7. \A j \in EntriesOf(h) : cache[j].low \in Nat
    BY <1>1, WordType DEF EntriesOf, TypeInv, MachineTypes, Caches
  <1>8. UnderOf(h)'
    <2>1. (\A j \in EntriesOf(h) : ~Stale(j)') => Booked(h) <= Left(h)'
      <3>1. (\A j \in EntriesOf(h) : ~Stale(j)') => Booked(h) + Owes(h) <= Left(h)
        BY <1>1, <1>5 DEF UnderOf
      <3> QED BY <1>1, <1>4, <1>6, <3>1
    <2>2. ASSUME NEW j \in EntriesOf(h) PROVE Booked(h) + 5 * cache[j].low <= 5 * Left(h)'
      <3>1. Booked(h) + 5 * cache[j].low <= 5 * Left(h)
        BY <1>1, <1>5 DEF UnderOf
      <3> QED BY <1>1, <1>6, <1>7, <3>1
    <2> QED BY <1>1, <1>2, <1>4, <2>1, <2>2 DEF UnderOf
  <1>9. ASSUME Clean(h)', OverOf(h) PROVE OverOf(h)'
    <2>1. ~(system_state = "Decrypt" /\ PaysUser /\ en_input.uid = Accounts[h].uid)
      BY <1>2, <1>9, MarksAfter DEF Unpaid, Marks
    <2>2. paid' = paid \/ en_input.uid # Accounts[h].uid
      BY <1>2, <1>9, MarksAfter DEF Unpaid, Marks
    <2>3. ~Due(h)
      BY <2>1, AccountType DEF Due, PaysUser
    <2>4. Left(h)' = Left(h) /\ Owes(h) = 0
      BY <1>6, <2>2, <2>3 DEF Owes
    <2> QED BY <1>1, <1>2, <1>4, <1>5, <1>9, <2>3, <2>4 DEF OverOf
  <1> QED BY <1>3, <1>8, <1>9 DEF Settles

\* The round goes on: the entries are each at their next place, and the one that was
\* reported holds what the bank would let its customer spend.
LEMMA RoundAccount ==
    ASSUME NEW h \in Lines, Upheld(h), Works, UpdateEntry
    PROVE  Settles(h)
  <1>1. /\ TypeInv /\ RoundInv /\ CardOf(h) /\ UnderOf(h) /\ ReportOf(h) /\ Booked(h)' = Booked(h)
        /\ Booked(h) \in Nat /\ 2 * Booked(h) < HalfRange /\ Left(h) \in Int
    <2>1. Booked(h) \in Nat /\ 2 * Booked(h) < HalfRange
      BY BookedType DEF Upheld, GoodOf
    <2>2. Left(h) \in Int
      BY LeftType DEF Upheld
    <2> QED BY <2>1, <2>2, MovesAsked DEF Upheld, CoordInv, GoodOf, AtmMoves, AtmStep
  <1>2. PICK w \in Opens(Assemble(response)) : cache' = Rotate(cache, w.low)
    BY DEF UpdateEntry
  <1>3. /\ system_state = "UpdateCache" /\ system_state' = "CommRegained" /\ ~cache_mode /\ ~cache_mode'
        /\ cache_update_count' = cache_update_count + 1 /\ UNCHANGED paid
        /\ cache_update_count \in Nat /\ cache_update_count < CacheSize
    BY <1>1, Sizes DEF UpdateEntry, Works, ghosts, RoundInv, Syncing, TypeInv, MachineTypes
  <1>4. cache \in Caches /\ w.low \in 0 .. HalfRange - 1 /\ w.low \in Nat
    <2>1. w \in Words
      BY <1>1, <1>2, <1>3, Received DEF TypeInv
    <2> QED BY <1>1, <2>1, WordType DEF TypeInv, MachineTypes
  <1>5. /\ cache'[2] = [cache[1] EXCEPT !.low = w.low]
        /\ \A k \in Places : k # 2 => cache'[k] = cache[RotatedFrom(k)]
        /\ \A k \in Places : /\ cache'[k].uid = cache[RotatedFrom(k)].uid
                              /\ cache'[k].pin = cache[RotatedFrom(k)].pin
    BY <1>2, <1>4, RotatedEntries
  <1>6. \A k \in Places : k \in EntriesOf(h)' <=> RotatedFrom(k) \in EntriesOf(h)
    BY <1>5, RotatedPlaces DEF EntriesOf
  <1>7. CardOf(h)'
    BY <1>1, <1>5, RotatedPlaces DEF CardOf, HoldsCard
  <1>8. \A k \in Places : (Stale(RotatedFrom(k)) => Stale(k)') /\ ~Replaced(k)'
    <2> TAKE k \in Places
    <2>1. k \in Nat /\ k >= 1 /\ k <= CacheSize /\ CacheSize \in Nat
      BY Sizes DEF Places
    <2>2. Updated(k)' => Updated(RotatedFrom(k))
      <3>1. CASE k = 1
        BY <1>3, <2>1, <3>1, Sizes DEF Updated, RotatedFrom
      <3>2. CASE k = 2
        BY <1>3, <2>1, <3>2, Sizes DEF Updated, RotatedFrom
      <3>3. CASE k # 1 /\ k # 2
        BY <1>3, <2>1, <3>3, Sizes DEF Updated, RotatedFrom
      <3> QED BY <3>1, <3>2, <3>3
    <2> QED BY <1>3, <2>2 DEF Stale, Replaced, Syncing
  <1>9. ~Due(h) /\ ~Due(h)' /\ Owes(h) = 0 /\ Owes(h)' = 0 /\ Left(h)' = Left(h)
    BY <1>3 DEF Due, Owes, Left
  <1>10. (\A k \in EntriesOf(h)' : ~Stale(k)') => Booked(h) <= Left(h)
    <2>1. ASSUME \A k \in EntriesOf(h)' : ~Stale(k)', NEW j \in EntriesOf(h) PROVE ~Stale(j)
      <3>1. PICK k \in Places : RotatedFrom(k) = j
        BY RotatedPlaces DEF EntriesOf
      <3>2. k \in EntriesOf(h)'
        BY <1>6, <3>1
      <3> QED BY <1>8, <2>1, <3>1, <3>2
    <2>2. (\A j \in EntriesOf(h) : ~Stale(j)) => Booked(h) + 0 <= Left(h)
      BY <1>1, <1>9 DEF UnderOf
    <2> QED BY <1>1, <2>1, <2>2
  <1>11. ASSUME 1 \in EntriesOf(h)
         PROVE  /\ Booked(h) <= Left(h) /\ 5 * w.low <= 4 * Booked(h) /\ 4 * Booked(h) <= 5 * w.low + 4
    <2>1. \A j \in EntriesOf(h) : j = 1
      BY <1>1, <1>11, AccountType DEF EntriesOf, TypeInv, MachineTypes, Unique
    <2>2. ~Stale(1)
      BY <1>3 DEF Stale, Updated
    <2>3. Booked(h) + 0 <= Left(h)
      BY <1>1, <1>9, <2>1, <2>2 DEF UnderOf
    <2>4. w.low = Spendable(Booked(h))
      <3>1. Tells(response, Booked(h))
        BY <1>1, <1>3, <1>11 DEF ReportOf, EntriesOf
      <3>2. /\ Word(0, 0, Spendable(Booked(h))) \in Words
            /\ Word(0, 0, Spendable(Booked(h))).low = Spendable(Booked(h))
        BY <1>1, SpendableType, PlainWord
      <3>3. Assemble(response) = Seal(Word(0, 0, Spendable(Booked(h))))
        BY <1>1, <1>3, <3>1, Received DEF TypeInv, Tells
      <3>4. w = Word(0, 0, Spendable(Booked(h)))
        BY <1>2, <3>2, <3>3, BlockType
      <3> QED BY <3>2, <3>4
    <2>5. 5 * Spendable(Booked(h)) <= 4 * Booked(h) /\ 4 * Booked(h) <= 5 * Spendable(Booked(h)) + 4
      BY <1>1, SpendableOf
    <2> QED BY <1>1, <2>3, <2>4, <2>5
  <1>12. \A j \in EntriesOf(h) : cache[j].low \in Nat
    BY <1>4, WordType DEF EntriesOf, Caches
  <1>13. UnderOf(h)'
    <2>1. ASSUME NEW k \in EntriesOf(h)' PROVE Booked(h) + 5 * cache'[k].low <= 5 * Left(h)
      <3>1. k \in Places /\ RotatedFrom(k) \in EntriesOf(h)
        BY <1>6 DEF EntriesOf
      <3>2. CASE k = 2
        <4>1. 1 \in EntriesOf(h) /\ cache'[2].low = w.low
          <5>1. cache[1] \in Words
            BY <1>4, RotatedPlaces DEF Caches
          <5> QED BY <1>4, <1>5, <3>1, <3>2, <5>1, RotatedPlaces, Rebalanced
        <4> QED BY <1>1, <1>4, <1>11, <3>2, <4>1
      <3>3. CASE k # 2
        <4>1. ~Replaced(RotatedFrom(k)) /\ cache'[k] = cache[RotatedFrom(k)]
          BY <1>5, <3>1, <3>3, RotatedPlaces DEF Replaced
        <4> QED BY <1>1, <3>1, <4>1 DEF UnderOf
      <3> QED BY <3>2, <3>3
    <2> QED BY <1>1, <1>9, <1>10, <2>1 DEF UnderOf
  <1>14. ASSUME OverOf(h) PROVE OverOf(h)'
    <2>1. Left(h) <= Booked(h) + 0
      BY <1>9, <1>14 DEF OverOf
    <2>2. ASSUME NEW k \in EntriesOf(h)' PROVE 5 * Left(h) <= Booked(h) + 5 * cache'[k].low + 4
      <3>1. k \in Places /\ RotatedFrom(k) \in EntriesOf(h)
        BY <1>6 DEF EntriesOf
      <3>2. CASE k = 2
        <4>1. 1 \in EntriesOf(h) /\ cache'[2].low = w.low
          <5>1. cache[1] \in Words
            BY <1>4, RotatedPlaces DEF Caches
          <5> QED BY <1>4, <1>5, <3>1, <3>2, <5>1, RotatedPlaces, Rebalanced
        <4> QED BY <1>1, <1>4, <1>11, <2>1, <3>2, <4>1
      <3>3. CASE k # 2
        <4>1. ~Replaced(RotatedFrom(k)) /\ cache'[k] = cache[RotatedFrom(k)]
          BY <1>5, <3>1, <3>3, RotatedPlaces DEF Replaced
        <4> QED BY <1>9, <1>14, <3>1, <4>1 DEF OverOf
      <3> QED BY <3>2, <3>3
    <2> QED BY <1>1, <1>9, <2>1, <2>2 DEF OverOf
  <1> QED BY <1>7, <1>13, <1>14 DEF Settles

\* Of the entries d after a request has been filed: all but the first were in c, and
\* all of c but that at place p are still there.
StillThere(c, p, d) ==
    /\ \A k \in Places : k # 1 => \E j \in Places \ {p} : d[k] = c[j]
    /\ \A j \in Places \ {p} : \E k \in Places \ {1} : d[k] = c[j]

\* A service files its request over one place of the cache.
LEMMA MovedTo ==
    ASSUME NEW c \in Caches, NEW p \in Places, NEW w \in Words
    PROVE  MoveToFront(c, p, w)[1] = w /\ StillThere(c, p, MoveToFront(c, p, w))
  <1> DEFINE d == MoveToFront(c, p, w)
  <1>1. /\ d[1] = w
        /\ \A k \in Places : k # 1 => \E j \in Places \ {p} : d[k] = c[j]
        /\ \A j \in Places \ {p} : \E k \in Places \ {1} : d[k] = c[j]
    BY MovedEntries
  <1> HIDE DEF d
  <1>2. d[1] = w /\ StillThere(c, p, d)
    BY <1>1 DEF StillThere
  <1> QED BY <1>2 DEF d

\* A service of another customer may push the entry of this one out of the cache,
\* but, in cache mode, it marks them then.
LEMMA OthersService ==
    ASSUME NEW h \in Lines, Upheld(h), Booked(h)' = Booked(h), Left(h)' = Left(h),
           NEW p \in Places, NEW w \in Words, cache' = MoveToFront(cache, p, w),
           w.uid # Accounts[h].uid, cache[p].uid = Accounts[h].uid => ~cache_mode,
           UNCHANGED cache_mode, ~Syncing, ~Syncing', ~Due(h), ~Due(h)'
    PROVE  Settles(h)
  <1>1. /\ CardOf(h) /\ UnderOf(h) /\ cache \in Caches
    BY DEF Upheld, GoodOf, TypeInv, MachineTypes
  <1>2. /\ cache'[1] = w
        /\ \A k \in Places : k # 1 => \E j \in Places \ {p} : cache'[k] = cache[j]
        /\ \A j \in Places \ {p} : \E k \in Places \ {1} : cache'[k] = cache[j]
    <2>1. cache'[1] = w /\ StillThere(cache, p, cache')
      BY <1>1, MovedTo
    <2> QED BY <2>1 DEF StillThere
  <1>3. ASSUME NEW k \in EntriesOf(h)' PROVE \E j \in EntriesOf(h) : cache'[k] = cache[j]
    BY <1>2, <1>3 DEF EntriesOf
  <1>4. CardOf(h)'
    <2> SUFFICES ASSUME NEW k \in Places, cache'[k].uid = Accounts[h].uid PROVE HoldsCard(cache'[k], h)
      BY DEF CardOf, HoldsCard
    <2>1. k \in EntriesOf(h)'
      BY DEF EntriesOf
    <2> QED BY <1>1, <1>3, <2>1 DEF CardOf, EntriesOf
  <1>5. \A j : (Stale(j) <=> cache_mode) /\ (Stale(j)' <=> cache_mode) /\ ~Replaced(j) /\ ~Replaced(j)'
    BY DEF Stale, Replaced, Syncing
  <1>6. cache_mode /\ EntriesOf(h) # {} => EntriesOf(h)' # {}
    BY <1>2 DEF EntriesOf
  <1>7. Owes(h) = 0 /\ Owes(h)' = 0
    BY DEF Owes
  <1>8. UnderOf(h)'
    <2>1. (\A k \in EntriesOf(h)' : ~Stale(k)') => Booked(h) + 0 <= Left(h)
      <3>1. (\A k \in EntriesOf(h)' : ~Stale(k)') => \A j \in EntriesOf(h) : ~Stale(j)
        BY <1>5, <1>6
      <3> QED BY <1>1, <1>7, <3>1 DEF UnderOf
    <2>2. ASSUME NEW k \in EntriesOf(h)' PROVE Booked(h) + 5 * cache'[k].low <= 5 * Left(h)
      BY <1>1, <1>3, <1>5 DEF UnderOf
    <2> QED BY <1>7, <2>1, <2>2 DEF UnderOf
  <1>9. ASSUME OverOf(h) PROVE OverOf(h)'
    <2>1. Left(h) <= Booked(h) + 0
      BY <1>7, <1>9 DEF OverOf
    <2>2. ASSUME NEW k \in EntriesOf(h)' PROVE 5 * Left(h) <= Booked(h) + 5 * cache'[k].low + 4
      BY <1>3, <1>5, <1>9 DEF OverOf
    <2> QED BY <1>7, <2>1, <2>2 DEF OverOf
  <1> QED BY <1>4, <1>8, <1>9 DEF Settles

\* After a service of the customer, the first entry is theirs alone.
LEMMA OwnService ==
    ASSUME NEW h \in Lines, Upheld(h), Booked(h)' = Booked(h), Booked(h) \in Int,
           NEW p \in Places, NEW w \in Words, cache' = MoveToFront(cache, p, w), HoldsCard(w, h),
           ~Syncing', ~Due(h)', ~cache_mode' => Booked(h) <= Left(h)',
           Booked(h) + 5 * w.low <= 5 * Left(h)',
           OverOf(h) => Left(h)' <= Booked(h) /\ 5 * Left(h)' <= Booked(h) + 5 * w.low + 4
    PROVE  Settles(h)
  <1>1. cache'[1] = w /\ Unique(cache') /\ Accounts[h].uid \in Users /\ 1 \in Places
    <2>1. cache \in Caches /\ Unique(cache') /\ Accounts[h].uid \in Users /\ 1 \in Places
      BY AccountType, Sizes DEF Upheld, TypeInv, MachineTypes, Places
    <2>2. MoveToFront(cache, p, w)[1] = w
      BY <2>1, MovedEntries
    <2> QED BY <2>1, <2>2
  <1>2. EntriesOf(h)' = {1}
    <2>1. w.uid = Accounts[h].uid
      BY DEF HoldsCard
    <2>2. \A k \in Places : cache'[k].uid = Accounts[h].uid => k = 1
      BY <1>1, <2>1 DEF Unique
    <2> QED BY <1>1, <2>1, <2>2 DEF EntriesOf
  <1>3. CardOf(h)'
    <2> SUFFICES ASSUME NEW k \in Places, cache'[k].uid = Accounts[h].uid PROVE HoldsCard(cache'[k], h)
      BY DEF CardOf, HoldsCard
    <2>1. k \in EntriesOf(h)'
      BY DEF EntriesOf
    <2> QED BY <1>1, <1>2, <2>1
  <1>4. (Stale(1)' <=> cache_mode') /\ Owes(h)' = 0
    BY DEF Stale, Owes
  <1>5. UnderOf(h)'
    <2>1. ~Stale(1)' => Booked(h)' + Owes(h)' <= Left(h)'
      BY <1>4
    <2> QED BY <1>1, <1>2, <2>1 DEF UnderOf
  <1>6. OverOf(h) => OverOf(h)'
    <2>1. OverOf(h) => Left(h)' <= Booked(h)' + Owes(h)'
      BY <1>4
    <2> QED BY <1>1, <1>2, <2>1 DEF OverOf
  <1> QED BY <1>3, <1>5, <1>6 DEF Settles

\* What is paid is taken from what is left of the customer who is served.
LEMMA PaidLeft ==
    ASSUME TypeInv, NEW h \in Lines, Pay
    PROVE  /\ en_input.uid # Accounts[h].uid => Left(h)' = Left(h)
           /\ en_input.uid = Accounts[h].uid => Left(h)' = Left(h) - (IF Pays THEN en_input.low ELSE 0)
  <1>1. /\ paid \in [Users -> Nat] /\ Accounts[h].uid \in Users /\ Accounts[h].bal \in Nat
        /\ en_input.low \in Nat
    BY AccountType, WordType DEF TypeInv, GhostTypes, MachineTypes
  <1> DEFINE u == Accounts[h].uid
  <1>2. paid'[u] = IF Pays /\ en_input.uid = u THEN paid[u] + en_input.low ELSE paid[u]
    BY <1>1 DEF Pay
  <1>3. paid[u] \in Nat
    BY <1>1
  <1>4. Left(h) = Accounts[h].bal - paid[u] /\ Left(h)' = Accounts[h].bal - paid'[u]
    BY DEF Left
  <1>5. u = Accounts[h].uid
    OBVIOUS
  <1> HIDE DEF u
  <1> QED BY <1>1, <1>2, <1>3, <1>4, <1>5

\* The cache after a service: one entry, made of the request and a balance, comes first.
LEMMA CacheAfter ==
    ASSUME TypeInv, NEW bal \in 0 .. HalfRange - 1, NEW c,
           c = IF Pays THEN CacheIfPaid(bal) ELSE CacheIfRefused(bal)
    PROVE  LET n == IF Pays THEN CacheSize ELSE CacheSize - 1
               low == IF Pays THEN PaidBalance(bal) ELSE RefusedBalance(bal)
           IN  /\ c = MoveToFront(cache, EntryOf(cache, en_input.uid, n), [en_input EXCEPT !.low = low])
               /\ [en_input EXCEPT !.low = low] \in Words /\ [en_input EXCEPT !.low = low].low = low
               /\ \A i : HoldsCard([en_input EXCEPT !.low = low], i) <=> HoldsCard(en_input, i)
               /\ [en_input EXCEPT !.low = low].uid = en_input.uid
               /\ LastPlace(n) /\ n \in Places /\ low \in 0 .. HalfRange - 1
  <1> DEFINE n == IF Pays THEN CacheSize ELSE CacheSize - 1
             low == IF Pays THEN PaidBalance(bal) ELSE RefusedBalance(bal)
             v == [en_input EXCEPT !.low = low]
  <1>1. cache \in Caches /\ en_input \in Words
    BY DEF TypeInv, MachineTypes
  <1>2. low \in 0 .. HalfRange - 1 /\ c = MoveToFront(cache, EntryOf(cache, en_input.uid, n), v)
    BY <1>1, ServedCache
  <1>3. v \in Words /\ v.uid = en_input.uid /\ v.pin = en_input.pin /\ v.low = low
    BY <1>1, <1>2, Rebalanced
  <1>4. \A i : HoldsCard(v, i) <=> HoldsCard(en_input, i)
    BY <1>3 DEF HoldsCard
  <1>5. LastPlace(n) /\ n \in Places
    BY Sizes DEF LastPlace, Places
  <1> HIDE DEF n, low, v
  <1>6. /\ c = MoveToFront(cache, EntryOf(cache, en_input.uid, n), v) /\ v \in Words /\ v.low = low
        /\ v.uid = en_input.uid /\ LastPlace(n) /\ n \in Places /\ low \in 0 .. HalfRange - 1
        /\ \A i : HoldsCard(v, i) <=> HoldsCard(en_input, i)
    BY <1>2, <1>3, <1>4, <1>5
  <1> QED BY <1>6 DEF n, low, v

\* A service that the bank has answered.
LEMMA ReplyAccount ==
    ASSUME NEW h \in Lines, Upheld(h), ServesReply
    PROVE  Settles(h)
  <1>1. /\ TypeInv /\ CardOf(h) /\ ServedOf(h) /\ UnderOf(h) /\ Fine(h)' /\ Booked(h)' = Booked(h)
        /\ Booked(h) \in Nat /\ 2 * Booked(h) < HalfRange /\ Left(h) \in Int
    <2>1. Booked(h) \in Nat /\ 2 * Booked(h) < HalfRange
      BY BookedType DEF Upheld, GoodOf
    <2>2. Left(h) \in Int
      BY LeftType DEF Upheld
    <2> QED BY <2>1, <2>2, MovesAsked DEF Upheld, CoordInv, GoodOf, AtmMoves, AtmStep
  <1>2. /\ system_state = "Decrypt" /\ system_state' \in {"Dummy", "Dispensing"}
        /\ UNCHANGED <<en_input, adequate_cash_in_atm, adequate_cash_in_account, user_is_admin,
                       cache_mode, cache_update_count>>
    BY DEF ServesReply, ServeReply
  <1>3. ~Syncing /\ ~Syncing' /\ ~Due(h)' /\ Owes(h)' = 0
    BY <1>2 DEF Syncing, Due, Owes
  <1>4. CASE user_is_admin
    <2>1. UNCHANGED <<cache, paid>>
      BY <1>4 DEF ServesReply, ServeReply
    <2>2. CardOf(h)'
      BY <1>1, <2>1 DEF CardOf, HoldsCard
    <2>3. \A j : (Stale(j) => Stale(j)') /\ (Replaced(j)' <=> Replaced(j))
      BY <1>2, <1>3, StaleKept
    <2>4. ~Due(h)
      BY <1>4 DEF Due
    <2> QED BY <1>1, <1>3, <2>1, <2>2, <2>3, <2>4, MoneyKept DEF Settles
  <1>5. CASE ~user_is_admin
    <2>1. PICK w \in Opens(Assemble(response)) :
             cache' = IF Pays THEN CacheIfPaid(w.low) ELSE CacheIfRefused(w.low)
      BY <1>5 DEF ServesReply, ServeReply
    <2>2. w.low \in 0 .. HalfRange - 1
      <3>1. w \in Words
        BY <1>1, <1>2, <2>1, Received DEF TypeInv
      <3> QED BY <3>1, WordType
    <2> DEFINE n == IF Pays THEN CacheSize ELSE CacheSize - 1
               low == IF Pays THEN PaidBalance(w.low) ELSE RefusedBalance(w.low)
               v == [en_input EXCEPT !.low = low]
               p == EntryOf(cache, en_input.uid, n)
    <2>3. /\ cache' = MoveToFront(cache, p, v) /\ v \in Words /\ v.low = low
          /\ HoldsCard(v, h) <=> HoldsCard(en_input, h)
          /\ v.uid = en_input.uid /\ n \in Places
      BY <1>1, <2>1, <2>2, CacheAfter
    <2>4. p \in Places /\ (p = CacheSize \/ cache[p].uid = en_input.uid)
      BY <2>3, EntryOfType
    <2>5. Pay /\ (cache_mode => /\ <<"stuck", en_input.uid>> \in odd'
                                /\ <<"stuck", cache[CacheSize].uid>> \in odd')
      BY <1>5 DEF ServesReply, Marks
    <2>6. ~cache_mode => low = w.low
      BY DEF PaidBalance, RefusedBalance
    <2> HIDE DEF n, low, v, p
    <2>7. CASE en_input.uid # Accounts[h].uid
      <3>1. cache[p].uid = Accounts[h].uid => ~cache_mode
        BY <1>1, <2>4, <2>5, <2>7, MarksAfter
      <3>2. ~Due(h) /\ Left(h)' = Left(h)
        BY <1>1, <2>5, <2>7, PaidLeft DEF Due
      <3> QED BY <1>1, <1>2, <1>3, <2>3, <2>4, <2>7, <3>1, <3>2, OthersService
    <2>8. CASE en_input.uid = Accounts[h].uid
      <3>1. ~cache_mode
        BY <1>1, <2>5, <2>8, MarksAfter
      <3>2. HoldsCard(en_input, h) /\ Tells(response, Booked(h))
        BY <1>1, <1>2, <1>5, <2>8 DEF ServedOf
      <3>3. low = Spendable(Booked(h))
        <4>1. /\ Word(0, 0, Spendable(Booked(h))) \in Words
              /\ Word(0, 0, Spendable(Booked(h))).low = Spendable(Booked(h))
          BY <1>1, SpendableType, PlainWord
        <4>2. Assemble(response) = Seal(Word(0, 0, Spendable(Booked(h))))
          BY <1>1, <1>2, <3>2, Received DEF TypeInv, Tells
        <4>3. w = Word(0, 0, Spendable(Booked(h)))
          BY <2>1, <4>1, <4>2, BlockType
        <4> QED BY <2>6, <3>1, <4>1, <4>3
      <3>4. /\ 5 * low <= 4 * Booked(h) /\ 4 * Booked(h) <= 5 * low + 4 /\ low \in Nat
        BY <1>1, <3>3, SpendableOf
      <3>5. Owes(h) = (IF Pays THEN en_input.low ELSE 0) /\ Left(h)' = Left(h) - Owes(h) /\ Owes(h) \in Nat
        <4>1. Owes(h) = IF Pays THEN en_input.low ELSE 0
          BY <1>2, <1>5, <2>8 DEF Owes, Due
        <4>2. Left(h)' = Left(h) - (IF Pays THEN en_input.low ELSE 0)
          BY <1>1, <2>5, <2>8, PaidLeft
        <4>3. Owes(h) \in Nat
          BY <1>1, LeftType
        <4> QED BY <4>1, <4>2, <4>3
      <3>6. Booked(h) + Owes(h) <= Left(h)
        <4>1. \A j : ~Stale(j)
          BY <1>3, <3>1 DEF Stale
        <4> QED BY <1>1, <4>1 DEF UnderOf
      <3>7. OverOf(h) => Left(h) <= Booked(h) + Owes(h)
        BY DEF OverOf
      <3>8. /\ Booked(h) <= Left(h)' /\ Booked(h) + 5 * v.low <= 5 * Left(h)'
            /\ OverOf(h) => Left(h)' <= Booked(h) /\ 5 * Left(h)' <= Booked(h) + 5 * v.low + 4
        BY <1>1, <2>3, <3>4, <3>5, <3>6, <3>7
      <3> QED BY <1>1, <1>3, <2>3, <2>4, <3>2, <3>8, OwnService
    <2> QED BY <2>7, <2>8
  <1> QED BY <1>4, <1>5

\* A service without the bank takes what it pays from the customer's own entry.
LEMMA OfflineAccount ==
    ASSUME NEW h \in Lines, Upheld(h), ServesOffline
    PROVE  Settles(h)
  <1>1. /\ TypeInv /\ OfflineInv /\ CardOf(h) /\ UnderOf(h) /\ Booked(h)' = Booked(h)
        /\ Booked(h) \in Nat /\ Left(h) \in Int
    <2>1. Booked(h) \in Nat
      BY BookedType DEF Upheld, GoodOf
    <2>2. Left(h) \in Int
      BY LeftType DEF Upheld
    <2> QED BY <2>1, <2>2, MovesAsked DEF Upheld, CoordInv, GoodOf, AtmMoves, AtmStep
  <1>2. /\ system_state = "Offline" /\ system_state' = "Dispensing" /\ Pay /\ UNCHANGED cache_mode
        /\ cache' = IF Pays THEN CacheIfPaid(0) ELSE CacheIfRefused(0)
    BY DEF ServesOffline, ServeOffline
  <1>3. ~Syncing /\ ~Syncing' /\ ~Due(h)' /\ ~Due(h) /\ Owes(h) = 0
    BY <1>2 DEF Syncing, Due, Owes
  <1>4. 0 \in 0 .. HalfRange - 1
    BY HalfRangeType
  <1> DEFINE n == IF Pays THEN CacheSize ELSE CacheSize - 1
             low == IF Pays THEN PaidBalance(0) ELSE RefusedBalance(0)
             v == [en_input EXCEPT !.low = low]
             p == EntryOf(cache, en_input.uid, n)
  <1>5. /\ cache' = MoveToFront(cache, p, v) /\ v \in Words /\ v.low = low
        /\ HoldsCard(v, h) <=> HoldsCard(en_input, h)
        /\ v.uid = en_input.uid /\ LastPlace(n)
    BY <1>1, <1>2, <1>4, CacheAfter
  <1>6. PICK k \in Places : /\ cache[k].uid = en_input.uid /\ cache[k].pin = en_input.pin
                            /\ adequate_cash_in_account => en_input.low <= cache[k].low
    BY <1>1, <1>2 DEF OfflineInv
  <1>7. p \in Places /\ cache[p].uid = en_input.uid /\ cache_mode
    BY <1>1, <1>2, <1>5, <1>6, PlaceType DEF OfflineInv
  <1>8. low = IF Pays THEN (cache[p].low - en_input.low) % HalfRange ELSE cache[p].low
    <2>1. Cached(cache, en_input.uid)
      BY <1>6 DEF Cached, Places
    <2> QED BY <1>7, <2>1 DEF PaidBalance, RefusedBalance
  <1>9. cache[p].low \in 0 .. HalfRange - 1 /\ en_input.low \in Nat
    BY <1>1, <1>7, WordType DEF TypeInv, MachineTypes, Caches
  <1> HIDE DEF n, low, v, p
  <1>10. CASE en_input.uid # Accounts[h].uid
    <2>1. Left(h)' = Left(h)
      BY <1>1, <1>2, <1>10, PaidLeft
    <2> QED BY <1>1, <1>2, <1>3, <1>5, <1>7, <1>10, <2>1, OthersService
  <1>11. CASE en_input.uid = Accounts[h].uid
    <2>1. k = p
      BY <1>1, <1>6, <1>7, <1>11, AccountType DEF Unique, TypeInv, MachineTypes
    <2>2. HoldsCard(en_input, h)
      BY <1>1, <1>6, <1>11 DEF CardOf, HoldsCard
    <2> DEFINE out == IF Pays THEN en_input.low ELSE 0
    <2>3. low = cache[p].low - out /\ out \in Nat
      <3>1. Pays => en_input.low <= cache[p].low
        BY <1>6, <2>1 DEF Pays
      <3>2. Pays => (cache[p].low - en_input.low) % HalfRange = cache[p].low - en_input.low
        <4>1. Pays => cache[p].low - en_input.low \in 0 .. HalfRange - 1
          BY <1>9, <3>1, HalfRangeType
        <4> QED BY <4>1, HalfRangeType
      <3> QED BY <1>8, <1>9, <3>2
    <2>4. Left(h)' = Left(h) - out
      BY <1>1, <1>2, <1>11, PaidLeft
    <2>5. p \in EntriesOf(h) /\ ~Replaced(p)
      BY <1>2, <1>7, <1>11 DEF EntriesOf, Replaced
    <2>6. Booked(h) + 5 * cache[p].low <= 5 * Left(h)
      BY <1>1, <2>5 DEF UnderOf
    <2>7. OverOf(h) => Left(h) <= Booked(h) + 0 /\ 5 * Left(h) <= Booked(h) + 5 * cache[p].low + 4
      BY <1>3, <2>5 DEF OverOf
    <2> HIDE DEF out
    <2>8. /\ Booked(h) + 5 * v.low <= 5 * Left(h)'
          /\ OverOf(h) => Left(h)' <= Booked(h) /\ 5 * Left(h)' <= Booked(h) + 5 * v.low + 4
      BY <1>1, <1>5, <1>9, <2>3, <2>4, <2>6, <2>7
    <2> QED BY <1>1, <1>2, <1>3, <1>5, <1>7, <2>2, <2>8, OwnService
  <1> QED BY <1>10, <1>11

\* What the machine does keeps what is true of an account.
LEMMA MovesAccount ==
    ASSUME NEW h \in Lines, Upheld(h), AtmMoves
    PROVE  Upholds(h)
  <1>1. BookOf(h)' /\ CommitOf(h)' /\ AskedOf(h)' /\ ReportOf(h)' /\ ServedOf(h)'
    BY MovesAsked, MovesReport, MovesServed
  <1>2. Settles(h)
    <2>1. CASE (Works /\ ~UpdateEntry) \/ Enters \/ GivesUp
      BY <2>1, PlainMoves
    <2>2. CASE Works /\ UpdateEntry
      BY <2>2, RoundAccount
    <2>3. CASE ServesReply
      BY <2>3, ReplyAccount
    <2>4. CASE ServesOffline
      BY <2>4, OfflineAccount
    <2>5. CASE Resets
      BY <2>5, ResetAccount
    <2> QED BY <2>1, <2>2, <2>3, <2>4, <2>5 DEF AtmMoves, AtmStep
  <1> QED BY <1>1, <1>2 DEF Settles, Upholds, GoodOf

\* No step brings a record back that a crash has lost.
LEMMA BookShrinks ==
    ASSUME TypeInv, SavedInv, [Next]_vars
    PROVE  Len(Book') <= Len(Book)
  <1>1. Kept(db) /\ Kept(file) /\ Len(db) \in Nat /\ Len(file) \in Nat
    BY DEF TypeInv, BankTypes, Kept
  <1>2. CASE Asks \/ Reads \/ SetsUp \/ Writes
    <2>1. UNCHANGED <<db, file>> /\ bank \notin {"down", "rewrite"} /\ file = db
      BY <1>2 DEF Asks, Poll, Confirm, Reads, ReadRequest, SetsUp, WriteSetup, Writes, WriteStatus,
                  WriteReply, SavedInv
    <2> QED BY <1>1, <2>1 DEF Book
  <1>3. CASE Saves
    <2>1. CASE Debit
      <3>1. Len(db') = Len(db) /\ Book' = db' /\ Book = db
        BY <1>1, <2>1 DEF Debit, Book, Kept
      <3> QED BY <1>1, <3>1
    <2>2. CASE Rewrite
      BY <1>1, <2>2 DEF Rewrite, NextRound, Book
    <2> QED BY <1>3, <2>1, <2>2 DEF Saves
  <1>4. CASE Stops
    <2>1. bank # "down" /\ Book = db /\ Book' = file'
      BY <1>4 DEF Stops, Crash, Book
    <2>2. CASE bank # "rewrite"
      BY <1>1, <1>4, <2>1, <2>2 DEF Stops, Crash, SavedInv
    <2>3. CASE bank = "rewrite"
      <3>1. PICK n \in 0 .. Len(db) : file' = SubSeq(db, 1, n)
        BY <1>4, <2>3 DEF Stops, Crash
      <3> QED BY <1>1, <2>1, <3>1, FirstRecords
    <2> QED BY <2>2, <2>3
  <1>5. CASE Starts
    BY <1>1, <1>5 DEF Starts, Start, Book
  <1>6. CASE AtmMoves
    BY <1>1, <1>6, MachineKeepsBank DEF bankVars, Book
  <1>7. CASE UNCHANGED vars
    BY <1>1, <1>7 DEF vars, bankVars, Book
  <1> QED BY <1>2, <1>3, <1>4, <1>5, <1>6, <1>7 DEF Next, HostStep, AtmMoves

\* A step that changes nothing.
LEMMA StutterAccount ==
    ASSUME NEW h \in Lines, Upheld(h), UNCHANGED vars
    PROVE  Upholds(h)
  <1> USE DEF vars, bankVars, atmVars, encrypter, ghosts
  <1>1. GoodOf(h) /\ Book' = Book /\ Booked(h)' = Booked(h)
    BY DEF Upheld, Book, Booked
  <1>2. BookOf(h)' /\ CommitOf(h)' /\ CardOf(h)'
    BY <1>1 DEF GoodOf, BookOf, CommitOf, CardOf, HoldsCard
  <1>3. (Serving' <=> Serving) /\ (Live' <=> Live)
    BY DEF Serving, Live
  <1>4. AskedOf(h)' /\ ServedOf(h)'
    BY <1>1, <1>3 DEF GoodOf, AskedOf, Marked, ServedOf, HoldsCard, Tells
  <1>5. ReportOf(h)'
    <2>1. ServeCacheEntry(cache[1])' = ServeCacheEntry(cache[1])
      BY EntryAnswerKept
    <2>2. Tells(response, Booked(h))' <=> Tells(response, Booked(h))
      BY <1>1 DEF Tells
    <2> QED BY <1>1, <2>1, <2>2 DEF GoodOf, ReportOf, Syncing
  <1>6. (UnderOf(h) => UnderOf(h)') /\ (OverOf(h) => OverOf(h)')
    <2>1. (Due(h)' <=> Due(h)) /\ (Due(h) => UNCHANGED en_input)
      BY DueKept
    <2>2. \A j : (Stale(j) => Stale(j)') /\ (Replaced(j)' <=> Replaced(j))
      BY StaleKept
    <2> QED BY <1>1, <2>1, <2>2, MoneyKept
  <1> QED BY <1>1, <1>2, <1>4, <1>5, <1>6 DEF Upholds, GoodOf

\* Every step keeps what is true of an account.
LEMMA AccountStep ==
    ASSUME NEW h \in Lines, IInv, [Next]_vars, TypeInv', SavedInv', CoordInv'
    PROVE  AccountInv(h)'
  <1> SUFFICES ASSUME Fine(h)', h <= Len(Book)' PROVE GoodOf(h)' /\ (Clean(h)' => OverOf(h)')
    BY DEF AccountInv
  <1>1. odd \subseteq odd' /\ h <= Len(Book)
    <2>1. Len(Book') <= Len(Book) /\ Len(Book) \in Nat /\ Len(Book') \in Nat /\ h \in Nat
      <3>1. Kept(db) /\ Kept(file) /\ Kept(db') /\ Kept(file')
        BY DEF IInv, TypeInv, BankTypes
      <3>2. Len(db) \in Nat /\ Len(file) \in Nat /\ Len(db') \in Nat /\ Len(file') \in Nat
        BY <3>1 DEF Kept
      <3> QED BY <3>2, BookShrinks DEF IInv, Book, Lines
    <2> QED BY <2>1, OddGrows
  <1>2. Fine(h) /\ (Clean(h)' => Clean(h))
    BY <1>1 DEF Fine, Clean, MishapsOf
  <1>3. GoodOf(h) /\ (Clean(h) => OverOf(h))
    BY <1>1, <1>2 DEF IInv, AccountInv
  <1>4. Upheld(h)
    BY <1>1, <1>2, <1>3 DEF Upheld, IInv
  <1>5. Upholds(h)
    <2>1. CASE Asks
      BY <1>4, <2>1, AsksAccount
    <2>2. CASE Reads
      BY <1>4, <2>2, ReadsAccount
    <2>3. CASE Writes
      <3>1. CASE WriteStatus /\ TakeStatus(reply.status)
        BY <1>4, <2>3, <3>1, StatusAccount
      <3>2. CASE WriteReply /\ TakeByte(byteNo, reply.block)
        BY <1>4, <2>3, <3>2, AnswerAccount, EntryAccount
      <3> QED BY <2>3, <3>1, <3>2 DEF Writes
    <2>4. CASE SetsUp \/ Saves \/ Stops \/ Starts
      BY <1>4, <2>4, BankAccount
    <2>5. CASE AtmMoves
      BY <1>4, <2>5, MovesAccount
    <2>6. CASE UNCHANGED vars
      BY <1>4, <2>6, StutterAccount
    <2> QED BY <2>1, <2>2, <2>3, <2>4, <2>5, <2>6 DEF Next, HostStep, AtmMoves
  <1> QED BY <1>2, <1>3, <1>5 DEF Upholds

\* At the start the file is what it was, and nobody is in the cache.
LEMMA AccountsStart ==
    ASSUME Init
    PROVE  IInv
  <1>1. TypeInv
    BY InitTypes
  <1>2. SavedInv /\ CoordInv
    BY DEF Init, BankInit, AtmInit, SavedInv, CoordInv, OfflineInv, RoundInv, EntryInv, ServeInv,
           Syncing, Serving, Working
  <1>3. ASSUME NEW h \in Lines PROVE AccountInv(h)
    <2>1. /\ bank = "down" /\ system_state = "Setup" /\ Book = Accounts /\ cache = EmptyCache
          /\ en_input = ZeroWord /\ Accounts[h].uid # 0 /\ Accounts[h].bal \in Nat
          /\ paid[Accounts[h].uid] = 0
      BY AccountType DEF Init, BankInit, AtmInit, Book
    <2>2. EntriesOf(h) = {} /\ CardOf(h)
      BY <2>1, ZeroWordType DEF EntriesOf, CardOf, EmptyCache, Places
    <2>3. Booked(h) = Accounts[h].bal /\ Left(h) = Accounts[h].bal /\ Owes(h) = 0
      BY <2>1 DEF Booked, Left, Owes, Due
    <2>4. BookOf(h) /\ CommitOf(h) /\ AskedOf(h) /\ ReportOf(h)
      BY <2>1 DEF BookOf, CommitOf, AskedOf, ReportOf, Serving
    <2>5. ServedOf(h)
      BY <2>1, ZeroWordType DEF ServedOf
    <2>6. UnderOf(h) /\ OverOf(h)
      BY <2>1, <2>2, <2>3 DEF UnderOf, OverOf
    <2> QED BY <2>2, <2>4, <2>5, <2>6 DEF AccountInv, GoodOf
  <1> QED BY <1>1, <1>2, <1>3 DEF IInv

\* The inductive invariant holds in every behaviour.
LEMMA AccountsInvariant == Spec => []IInv
  <1>1. Init => IInv
    BY AccountsStart
  <1>2. IInv /\ [Next]_vars => IInv'
    <2> SUFFICES ASSUME IInv, [Next]_vars PROVE IInv'
      OBVIOUS
    <2>1. TypeInv' /\ SavedInv'
      BY NextTypes, SavedStep DEF IInv
    <2>2. CoordInv'
      BY <2>1, CoordStep DEF IInv
    <2>3. \A h \in Lines : AccountInv(h)'
      BY <2>1, <2>2, AccountStep
    <2> QED BY <2>1, <2>2, <2>3 DEF IInv
  <1> QED BY <1>1, <1>2, PTL DEF Spec

\* Of a record in memory while all is quiet: what is decided is what is kept, nobody is
\* owed anything, and the bank knows of every payment.
LEMMA QuietAccount ==
    ASSUME TypeInv, Quiet, NEW i \in DOMAIN db
    PROVE  /\ i \in Lines /\ i <= Len(Book) /\ db[i].uid = Accounts[i].uid
           /\ Booked(i) = db[i].bal /\ ~Due(i) /\ Owes(i) = 0
           /\ \A j : ~Stale(j) /\ ~Replaced(j)
           /\ DebitedFrom(i) = Accounts[i].bal - db[i].bal
  <1>1. Kept(db) /\ Book = db /\ i \in 1 .. Len(db)
    BY DEF TypeInv, BankTypes, Kept, Quiet, Book
  <1>2. i \in Lines /\ db[i].uid = Accounts[i].uid /\ i <= Len(Book)
    BY <1>1, KeptRecord
  <1>3. Booked(i) = db[i].bal /\ ~Due(i) /\ Owes(i) = 0
    BY <1>1 DEF Quiet, Booked, Due, Owes
  <1>4. \A j : ~Stale(j) /\ ~Replaced(j)
    BY DEF Quiet, Stale, Replaced, Syncing
  <1> QED BY <1>2, <1>3, <1>4 DEF DebitedFrom

\* What is exactly the bank's balance leaves no choice for the entry.
LEMMA Pinned ==
    ASSUME NEW b \in Nat, NEW f \in Int, NEW low \in Nat, NEW s \in Nat,
           b + 0 <= f, f <= b + 0, b + 5 * low <= 5 * f, 5 * f <= b + 5 * low + 4,
           5 * s <= 4 * b, 4 * b <= 5 * s + 4
    PROVE  low = s
  <1>1. f = b
    OBVIOUS
  <1>2. 5 * low <= 4 * b /\ 4 * b <= 5 * low + 4
    BY <1>1
  <1>3. 5 * low <= 5 * s + 4 /\ 5 * s <= 5 * low + 4
    BY <1>2
  <1> QED BY <1>3

\* main.c:478, atm_top_level.vhd:1200: in every behaviour, with any accounts, requests,
\* services, time-outs, crashes and resets: when all is quiet, an account that no
\* mishap has touched has lost exactly what it was paid, and the entry of its customer
\* is what the bank would let them spend, whatever has happened to the others.
THEOREM BooksAlwaysBalance == Spec => []BooksBalance
  <1>1. IInv => BooksBalance
    <2> SUFFICES ASSUME IInv, Quiet, NEW i \in DOMAIN db, MishapsOf(db[i].uid) = {}
                 PROVE  /\ DebitedFrom(i) = paid[db[i].uid]
                        /\ \A j \in 1 .. CacheSize :
                              cache[j].uid = db[i].uid => cache[j].low = Spendable(db[i].bal)
      BY DEF BooksBalance
    <2>1. /\ i \in Lines /\ i <= Len(Book) /\ db[i].uid = Accounts[i].uid
          /\ Booked(i) = db[i].bal /\ ~Due(i) /\ Owes(i) = 0 /\ (\A j : ~Stale(j) /\ ~Replaced(j))
          /\ DebitedFrom(i) = Accounts[i].bal - db[i].bal
      BY QuietAccount DEF IInv
    <2>2. Clean(i) /\ Fine(i) /\ TypeInv
      <3>1. Clean(i)
        BY <2>1 DEF Clean
      <3> QED BY <2>1, <3>1, CleanMarks DEF IInv
    <2>3. GoodOf(i) /\ OverOf(i)
      BY <2>1, <2>2 DEF IInv, AccountInv
    <2>4. db[i].bal \in Nat /\ 2 * db[i].bal < HalfRange /\ Left(i) \in Int
          /\ Accounts[i].bal \in Nat /\ paid[Accounts[i].uid] \in Nat
      <3>1. Booked(i) \in Nat /\ 2 * Booked(i) < HalfRange
        BY <2>1, <2>2, <2>3, BookedType DEF GoodOf
      <3>2. Left(i) \in Int
        BY <2>1, <2>2, LeftType
      <3> QED BY <2>1, <2>2, <3>1, <3>2, AccountType DEF TypeInv, GhostTypes
    <2>5. db[i].bal + 0 <= Left(i) /\ Left(i) <= db[i].bal + 0
      BY <2>1, <2>3 DEF GoodOf, UnderOf, OverOf
    <2>6. DebitedFrom(i) = paid[db[i].uid]
      BY <2>1, <2>4, <2>5 DEF Left
    <2>7. ASSUME NEW j \in Places, cache[j].uid = db[i].uid PROVE cache[j].low = Spendable(db[i].bal)
      <3>1. j \in EntriesOf(i) /\ cache[j].low \in Nat
        BY <2>1, <2>2, <2>7, WordType DEF EntriesOf, TypeInv, MachineTypes, Caches
      <3>2. /\ db[i].bal + 5 * cache[j].low <= 5 * Left(i)
            /\ 5 * Left(i) <= db[i].bal + 5 * cache[j].low + 4
        BY <2>1, <2>3, <3>1 DEF GoodOf, UnderOf, OverOf
      <3> DEFINE s == Spendable(db[i].bal)
      <3>3. s \in Nat /\ 5 * s <= 4 * db[i].bal /\ 4 * db[i].bal <= 5 * s + 4
        BY <2>4, SpendableOf
      <3> HIDE DEF s
      <3>4. cache[j].low = s
        BY <2>4, <2>5, <3>1, <3>2, <3>3, Pinned
      <3> QED BY <3>4 DEF s
    <2> QED BY <2>6, <2>7 DEF Places
  <1> QED BY <1>1, AccountsInvariant, PTL

\* main.c:479: in every behaviour, with any accounts, requests, services, time-outs,
\* crashes and resets: when all is quiet, nobody is paid more than they are debited,
\* even with replies that came too late and resets between an answer and its notes.
THEOREM NeverUnder == Spec => []NeverUnderDebited
  <1>1. IInv => NeverUnderDebited
    <2> SUFFICES ASSUME IInv, Quiet, NEW i \in DOMAIN db, MishapsOf(db[i].uid) \subseteq Unserved
                 PROVE  DebitedFrom(i) >= paid[db[i].uid]
      BY DEF NeverUnderDebited
    <2>1. /\ i \in Lines /\ i <= Len(Book) /\ db[i].uid = Accounts[i].uid
          /\ Booked(i) = db[i].bal /\ Owes(i) = 0 /\ (\A j : ~Stale(j))
          /\ DebitedFrom(i) = Accounts[i].bal - db[i].bal
      BY QuietAccount DEF IInv
    <2>2. GoodOf(i) /\ TypeInv
      BY <2>1 DEF IInv, AccountInv, Fine
    <2>3. db[i].bal + 0 <= Left(i)
      BY <2>1, <2>2 DEF GoodOf, UnderOf
    <2>4. db[i].bal \in Nat /\ Accounts[i].bal \in Nat /\ paid[Accounts[i].uid] \in Nat
      <3>1. Booked(i) \in Nat
        BY <2>1, <2>2, BookedType DEF GoodOf
      <3> QED BY <2>1, <2>2, <3>1, AccountType DEF TypeInv, GhostTypes
    <2> QED BY <2>1, <2>3, <2>4 DEF Left
  <1> QED BY <1>1, AccountsInvariant, PTL
=============================================================================
