------------------------------ MODULE BankHost ------------------------------
(***************************************************************************)
(* The bank's side: the loop of src/backend/apps/flcli/main.c over the       *)
(* channels of the machine.  It writes the set-up, then asks channel 0 three *)
(* times, a second apart, what the machine wants; it reads the eight bytes   *)
(* of a request, looks the customer up, writes a status and eight bytes of   *)
(* reply, and last changes the database in memory and rewrites its file.     *)
(* A call on the link that fails ends the program, wherever it is.           *)
(* What is read from a channel is a parameter of the steps.                  *)
(***************************************************************************)
EXTENDS AtmData, Sequences

CONSTANTS
    WordBytes,      \* bytes of a word: 8
    PinBits,        \* bits of a PIN: 16
    bankID,         \* the bank's number
    Accounts        \* the file at the start: records [uid, hash, admin, bal]

ASSUME BankAssumption ==
    /\ WordBytes \in Nat \ {0} /\ PinBits \in Nat \ {0} /\ PinRange = 2^PinBits
    /\ bankID \in 0 .. 31

VARIABLES
    bank,       \* where the program is: a loop, or "down"
    db, file,   \* dataFromCSV and the records of the CSV file
    valRead, cnt,   \* the code read on channel 0, and how often
    byteNo,     \* the next byte of the loop over the channels
    request,    \* the bytes read from channels 1 .. 8
    reply       \* what was decided: status, block, account and its new balance

bankVars == <<bank, db, file, valRead, cnt, byteNo, request, reply>>

NoChange == 0
NoReply == [status |-> 0, block |-> Garbled, line |-> NoChange, bal |-> 0]

BankInit ==
    /\ bank = "down" /\ db = <<>> /\ file = Accounts
    /\ valRead = 0 /\ cnt = 0 /\ byteNo = 1
    /\ request = <<>> /\ reply = NoReply

-----------------------------------------------------------------------------
(* The arithmetic of the bank.                                              *)

\* The bits of the PIN move up by the bank's number, round the end.
myHash(pin) ==
    LET shifted == pin * 2^(bankID % PinBits)
    IN  (shifted % PinRange) + (shifted \div PinRange)

\* The line of the first record of the user with the hashed PIN; 0 for none.
find(uid, hash) ==
    LET hits == {i \in DOMAIN db : db[i].uid = uid /\ db[i].hash = hash}
    IN  IF hits = {} THEN 0 ELSE CHOOSE i \in hits : \A j \in hits : i <= j

\* The low half of a word as the C int it is assigned to.
AsInt(low) == IF 2 * low >= HalfRange THEN low - HalfRange ELSE low

\* fifths / 5 as an int: a double assigned to one loses what is behind the point.
Truncated(fifths) == IF fifths >= 0 THEN fifths \div 5 ELSE -((-fifths) \div 5)

\* maxPercent of a balance, as a word holds it.
Spendable(bal) == Truncated(4 * bal) % HalfRange

suffBalUser(bal, reqAmo) == 5 * reqAmo <= 4 * bal

-----------------------------------------------------------------------------
(* What the bank makes of a request: codes 1 and 2, and code 5.             *)

Answer(status, low) ==
    [status |-> status, block |-> Seal(Word(0, 0, low)), line |-> NoChange, bal |-> 0]

\* Mutant of ServeCustomer: the codes are taken for each other.
ServeCustomerSwapped(line, reqAmo) ==
    LET bal == db[line].bal IN
    IF ~suffBalUser(bal, reqAmo) THEN Answer(2, Spendable(bal))
    ELSE IF valRead = 2
         THEN [Answer(1, Spendable(bal - reqAmo)) EXCEPT !.line = line, !.bal = bal - reqAmo]
         ELSE Answer(1, Spendable(bal))

\* Only a machine that said it can pay, code 1, has the amount debited.
ServeCustomer(line, reqAmo) ==
    LET bal == db[line].bal IN
    IF ~suffBalUser(bal, reqAmo) THEN Answer(2, Spendable(bal))
    ELSE IF valRead = 1
         THEN [Answer(1, Spendable(bal - reqAmo)) EXCEPT !.line = line, !.bal = bal - reqAmo]
         ELSE Answer(1, Spendable(bal))

\* An unknown customer gets zero bytes that no word was sealed into.
ServeRequest(w) ==
    LET line == find(w.uid, myHash(w.pin)) IN
    IF line = 0 THEN [Answer(4, 0) EXCEPT !.block = Garbled]
    ELSE IF db[line].admin THEN Answer(3, w.low)
    ELSE ServeCustomer(line, AsInt(w.low))

\* Mutant of ServeCacheEntry: the cached balance becomes the balance.
ServeCacheEntryAsBalance(w) ==
    LET line == find(w.uid, myHash(w.pin)) IN
    IF line = 0 THEN Answer(0, 0)
    ELSE [Answer(0, Spendable(w.low)) EXCEPT !.line = line, !.bal = AsInt(w.low)]

\* An entry of the machine's cache: what is missing of the spendable balance
\* was paid without the bank.
ServeCacheEntry(w) ==
    LET line == find(w.uid, myHash(w.pin))
        bal == db[line].bal
        finalBal == bal - Truncated(4 * bal - 5 * AsInt(w.low))
    IN  IF line = 0 THEN Answer(0, 0)
        ELSE [Answer(0, Spendable(finalBal)) EXCEPT !.line = line, !.bal = finalBal]

IsAdmin(w) == LET line == find(w.uid, myHash(w.pin)) IN line # 0 /\ db[line].admin

-----------------------------------------------------------------------------
(* The steps.  Each makes one call on the link, or none.                    *)

\* A round of the loop is over: the next has its own variables.
NextRound ==
    /\ bank' = "poll"
    /\ valRead' = 0 /\ cnt' = 0 /\ byteNo' = 1 /\ request' = <<>> /\ reply' = NoReply

\* The file is loaded.
Start ==
    /\ bank = "down"
    /\ bank' = "setup" /\ byteNo' = 1 /\ db' = file
    /\ UNCHANGED <<file, valRead, cnt, request, reply>>

\* The limits on channels 18 .. 25.
WriteSetup ==
    /\ bank = "setup"
    /\ IF byteNo = WordBytes THEN NextRound
       ELSE byteNo' = byteNo + 1 /\ UNCHANGED <<bank, valRead, cnt, request, reply>>
    /\ UNCHANGED <<db, file>>

Poll(code) ==
    /\ bank = "poll"
    /\ IF code \in {1, 2, 5}
       THEN bank' = "confirm" /\ valRead' = code /\ cnt' = 1
       ELSE UNCHANGED <<bank, valRead, cnt>>
    /\ UNCHANGED <<db, file, byteNo, request, reply>>

\* The code is read until it has been the same three times.
Confirm(code) ==
    /\ bank = "confirm"
    /\ IF code # valRead THEN NextRound
       ELSE /\ cnt' = cnt + 1
            /\ bank' = IF cnt' = 3 THEN "read" ELSE bank
            /\ UNCHANGED <<valRead, byteNo, request, reply>>
    /\ UNCHANGED <<db, file>>

\* A byte of the request; the last is followed by the decision.  An
\* administrator's entry of the cache ends the program.
ReadRequest(byte) ==
    /\ bank = "read"
    /\ request' = Append(request, byte)
    /\ byteNo' = 1
    /\ IF Len(request') < WordBytes THEN UNCHANGED <<bank, reply>>
       ELSE \E w \in Opens(Assemble(request')) :
              IF valRead # 5
              THEN bank' = "status" /\ reply' = ServeRequest(w)
              ELSE IF IsAdmin(w)
              THEN bank' = "down" /\ reply' = NoReply
              ELSE bank' = "reply" /\ reply' = ServeCacheEntry(w)
    /\ UNCHANGED <<db, file, valRead, cnt>>

WriteStatus ==
    /\ bank = "status"
    /\ bank' = "reply"
    /\ UNCHANGED <<db, file, valRead, cnt, byteNo, request, reply>>

\* Mutant of WriteReply: the file is rewritten only after withdrawals.
WriteReplyUnsaved ==
    /\ bank = "reply"
    /\ IF byteNo = WordBytes /\ (reply.line = NoChange \/ valRead = 5)
       THEN NextRound
       ELSE /\ bank' = IF byteNo < WordBytes THEN bank ELSE "save"
            /\ byteNo' = byteNo + 1
            /\ UNCHANGED <<valRead, cnt, request, reply>>
    /\ db' = IF byteNo = WordBytes /\ reply.line # NoChange /\ valRead = 5
             THEN [db EXCEPT ![reply.line].bal = reply.bal] ELSE db
    /\ UNCHANGED file

WriteReply ==
    /\ bank = "reply"
    /\ IF byteNo = WordBytes /\ reply.line = NoChange
       THEN NextRound
       ELSE /\ bank' = IF byteNo < WordBytes THEN bank ELSE "save"
            /\ byteNo' = byteNo + 1
            /\ UNCHANGED <<valRead, cnt, request, reply>>
    /\ UNCHANGED <<db, file>>

\* The balance is changed in memory; opening the file with "w+" empties it.
Debit ==
    /\ bank = "save"
    /\ db' = [db EXCEPT ![reply.line].bal = reply.bal]
    /\ file' = <<>>
    /\ bank' = "rewrite"
    /\ UNCHANGED <<valRead, cnt, byteNo, request, reply>>

\* All records are in the file once it is closed.
Rewrite ==
    /\ bank = "rewrite"
    /\ file' = db
    /\ NextRound
    /\ UNCHANGED db

\* The program ends: a call fails, or it is stopped.  Of a file that was
\* being rewritten some first records are there.
Crash ==
    /\ bank # "down"
    /\ bank' = "down"
    /\ \/ bank # "rewrite" /\ UNCHANGED file
       \/ bank = "rewrite" /\ \E n \in 0 .. Len(db) : file' = SubSeq(db, 1, n)
    /\ db' = <<>> /\ valRead' = 0 /\ cnt' = 0 /\ byteNo' = 1
    /\ request' = <<>> /\ reply' = NoReply
=============================================================================
