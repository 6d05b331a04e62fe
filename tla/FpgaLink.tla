------------------------------ MODULE FpgaLink ------------------------------
(***************************************************************************)
(* The host's side of the USB link: the channel calls of libfpgalink.c over *)
(* the asynchronous transfers of libusbwrap.c and their work queue.  The    *)
(* host is one thread.  A call is broken into the steps that it makes on    *)
(* the queue, in `todo'; the steps of the USB controller and of the FPGA    *)
(* come between them.  The only steps that block are those that wait for    *)
(* the oldest transfer (usbBulkAwaitCompletion).                            *)
(* Memory is modelled where it is shared: a transfer refers to a buffer by  *)
(* name, its own one or the caller's, and the controller reads or writes    *)
(* that buffer when the packet moves, not when the transfer is submitted.   *)
(***************************************************************************)
EXTENDS CommFormat, UnboundedQueue, FiniteSets, SequencesExt

CONSTANTS InitialCapacity,   \* items of a new queue (4)
          MaxCapacity,       \* bound: a put that would grow the queue further fails
          BalancedDepth,     \* transfers that are left in flight (2)
          MaxReads,          \* bound: reads of a session
          MaxFaults          \* bound: failed transfers, submissions and allocations

ASSUME LinkAssumption ==
    /\ InitialCapacity \in Nat \ {0} /\ MaxCapacity \in Nat /\ MaxCapacity >= InitialCapacity
    /\ BalancedDepth \in Nat /\ MaxReads \in Nat /\ MaxFaults \in Nat

VARIABLES
  held,       \* what usbOpenDevice and flOpen have acquired
  commCapable,\* whether the device said that it supports CommFPGA
  queue,      \* the work queue of transfer wrappers
  transfer,   \* what each wrapper was last filled with
  memory,     \* contents of the wrappers' and of the callers' buffers
  writeBuf, fill,   \* the prepared buffer, and writePtr - writeBuf
  chunkSize, report,
  todo,       \* the steps that are left of the call in progress
  status,     \* what the last call returned
  outbound, inbound,  \* transfers submitted to each endpoint, oldest first
  asked,      \* the bytes that the calls so far write or read, in order
  reads,      \* for each read submitted: the place of its first byte, its length
  answers,    \* the data that each await returned
  faults      \* what has failed so far

handleVars == <<writeBuf, fill, chunkSize, report>>
usbVars    == <<queue, transfer, memory, outbound, inbound>>
history    == <<asked, reads, answers>>
deviceVars == <<held, commCapable>>
linkVars   == <<deviceVars, handleVars, usbVars, history, todo, status, faults>>

None      == MaxCapacity + MaxReads            \* no wrapper, no buffer
Wrappers  == 0 .. MaxCapacity - 1
Buffers   == 0 .. None - 1                     \* one of each wrapper, one of each read
CallersBuffer(nth) == MaxCapacity + nth - 1

NoReport   == [isRead |-> FALSE, buffer |-> None, request |-> 0, actual |-> 0]
NoTransfer == [isRead |-> FALSE, buffer |-> None, length |-> 0, actual |-> 0, state |-> "idle"]

LinkInit ==
    /\ held = {} /\ commCapable = FALSE
    /\ queue = queueInit(InitialCapacity)
    /\ transfer = [w \in Wrappers |-> NoTransfer]
    /\ memory = [b \in Buffers |-> <<>>]
    /\ writeBuf = None /\ fill = 0 /\ chunkSize = MaxLength /\ report = NoReport
    /\ todo = <<>> /\ status = "none"
    /\ outbound = <<>> /\ inbound = <<>>
    /\ asked = <<>> /\ reads = <<>> /\ answers = <<>>
    /\ faults = 0

-----------------------------------------------------------------------------
(* Steps of a call.                                                         *)

Doing(step) == todo # <<>> /\ Head(todo).do = step
Done        == todo' = Tail(todo)
Again(step) == todo' = <<step>> \o Tail(todo)

\* The call returns an error and the steps that are left are not taken.
Return(error) == todo' = <<>> /\ status' = error

\* The last step of a call returns success.
Proceed == Done /\ status' = IF Len(todo) = 1 THEN "FL_SUCCESS" ELSE status

CanFail == faults < MaxFaults /\ faults' = faults + 1
Fail(error) == CanFail /\ Return(error)

\* The bytes of a buffer after `bytes' were copied to it from place `at' on.
Overlaid(old, at, bytes) ==
    [i \in 1 .. (IF Len(old) > at + Len(bytes) THEN Len(old) ELSE at + Len(bytes)) |->
        IF i > at /\ i <= at + Len(bytes) THEN bytes[i - at] ELSE old[i]]

Filled(isRead, buffer, length) ==
    [isRead |-> isRead, buffer |-> buffer, length |-> length, actual |-> 0,
     state |-> "pending"]

CanGrow(q) == ~IsFull(q) \/ 2 * q.capacity <= MaxCapacity

-----------------------------------------------------------------------------
(* usbBulkAwaitCompletion.  A report is filled in before the status of the  *)
(* transfer is looked at; what the report of a write says is never used.    *)

ReportOf(t) ==
    IF t.isRead
    THEN [isRead |-> TRUE, buffer |-> t.buffer, request |-> t.length, actual |-> t.actual]
    ELSE NoReport

\* The oldest transfer is over and leaves the queue.
TakeOldest ==
    /\ queue' = queueCommitTake(queue)
    /\ transfer' = [transfer EXCEPT ![ItemToTake(queue)] = NoTransfer]
    /\ UNCHANGED memory

AwaitOldest ==
    /\ queueSize(queue) > 0
    /\ LET t == transfer[ItemToTake(queue)]
       IN /\ t.state # "pending"
          /\ TakeOldest
          /\ report' = ReportOf(t)
          /\ IF t.state = "completed" THEN UNCHANGED <<todo, status>>
                                      ELSE Return("FL_USB_ERR")
    /\ UNCHANGED <<deviceVars, writeBuf, fill, chunkSize, outbound, inbound, history, faults>>

\* The transfers of an endpoint but that of wrapper w.
Without(pending, w) ==
    IF w \in ToSet(pending) THEN RemoveAt(pending, CHOOSE i \in DOMAIN pending : pending[i] = w)
                            ELSE pending

\* The event loop fails: the transfer waited for is cancelled, or was over
\* already, and no report is made of it.
EventLoopFails ==
    /\ queueSize(queue) > 0
    /\ transfer[ItemToTake(queue)].state = "pending"
    /\ TakeOldest
    /\ outbound' = Without(outbound, ItemToTake(queue))
    /\ inbound'  = Without(inbound, ItemToTake(queue))
    /\ Fail("FL_USB_ERR")
    /\ UNCHANGED <<deviceVars, handleVars, history>>

Await == AwaitOldest \/ EventLoopFails

\* The loops that reduce the depth of the queue stop at a completed read.
Deep(limit) == queueSize(queue) > limit /\ ~report.isRead

-----------------------------------------------------------------------------
(* bufferAppend: data is collected in a prepared buffer, which is submitted *)
(* when it is full.                                                         *)

Collect(bytes) == [do |-> "append", bytes |-> bytes]
Space == chunkSize - fill

\* usbBulkWriteAsyncPrepare hands out the buffer of the item at putIndex.
PrepareBuffer ==
    /\ Doing("append") /\ writeBuf = None
    /\ \/ /\ CanGrow(queue)
          /\ queue' = queuePut(queue)
          /\ writeBuf' = ItemToPut(queue') /\ fill' = 0
          /\ UNCHANGED <<todo, status, faults>>
       \/ /\ IsFull(queue) /\ Fail("FL_ALLOC_ERR")
          /\ UNCHANGED <<queue, writeBuf, fill>>
    /\ UNCHANGED <<deviceVars, chunkSize, report, transfer, memory, outbound, inbound, history>>

AppendBalances ==
    /\ Doing("append") /\ writeBuf # None
    /\ Len(Head(todo).bytes) >= Space /\ Deep(BalancedDepth)
    /\ Await

\* usbBulkWriteAsyncSubmit of `length' bytes of the buffer of the item at
\* putIndex: the queue, the wrapper and the endpoint.
SubmitWrite(length) ==
    LET w == ItemToPut(queuePut(queue))
    IN /\ CanGrow(queue)
       /\ transfer' = [transfer EXCEPT ![w] = Filled(FALSE, w, length)]
       /\ outbound' = outbound \o <<w>>
       /\ UNCHANGED inbound

\* A put that is not committed: the ring may have grown, or was not allocated.
PutFails == queue' \in {queue} \cup {q \in {queuePut(queue)} : CanGrow(queue)}

SubmitFails ==
    /\ Fail("FL_USB_ERR") /\ PutFails
    /\ UNCHANGED <<transfer, outbound, inbound, writeBuf, fill>>

\* The buffer is full: it is submitted, and a new one prepared for the rest.
\* A prepare that fails leaves the pointers in the buffer just submitted.
FillAndSubmit ==
    /\ Doing("append") /\ writeBuf # None
    /\ Len(Head(todo).bytes) >= Space /\ ~Deep(BalancedDepth)
    /\ LET bytes == Head(todo).bytes
           rest  == SubSeq(bytes, Space + 1, Len(bytes))
           next  == queueCommitPut(queuePut(queue))
       IN /\ memory' = [memory EXCEPT ![writeBuf] = Overlaid(@, fill, SubSeq(bytes, 1, Space))]
          /\ \/ SubmitFails
             \/ /\ SubmitWrite(chunkSize)
                /\ \/ /\ rest = <<>>
                      /\ queue' = next /\ writeBuf' = None /\ fill' = 0
                      /\ Proceed /\ UNCHANGED faults
                   \/ /\ rest # <<>> /\ CanGrow(next)
                      /\ queue' = queuePut(next)
                      /\ writeBuf' = ItemToPut(queue') /\ fill' = 0
                      /\ Again(Collect(rest)) /\ UNCHANGED <<status, faults>>
                   \/ /\ rest # <<>> /\ IsFull(next)
                      /\ queue' = next /\ Fail("FL_USB_ERR")
                      /\ UNCHANGED <<writeBuf, fill>>
    /\ UNCHANGED <<deviceVars, chunkSize, report, history>>

AppendRest ==
    /\ Doing("append") /\ writeBuf # None
    /\ Len(Head(todo).bytes) < Space
    /\ memory' = [memory EXCEPT ![writeBuf] = Overlaid(@, fill, Head(todo).bytes)]
    /\ fill' = fill + Len(Head(todo).bytes)
    /\ Proceed
    /\ UNCHANGED <<deviceVars, writeBuf, chunkSize, report, queue, transfer, outbound,
                   inbound, history, faults>>

bufferAppend == PrepareBuffer \/ AppendBalances \/ FillAndSubmit \/ AppendRest

-----------------------------------------------------------------------------
(* The other steps that the calls share.                                    *)

\* flFlushAsyncWrites submits what has been collected.
Flush ==
    /\ Doing("flush")
    /\ \/ /\ writeBuf # None /\ fill > 0
          /\ \/ SubmitFails
             \/ /\ SubmitWrite(fill)
                /\ queue' = queueCommitPut(queuePut(queue))
                /\ writeBuf' = None /\ fill' = 0
                /\ Proceed /\ UNCHANGED faults
       \/ /\ writeBuf = None \/ fill = 0
          /\ Proceed
          /\ UNCHANGED <<queue, transfer, outbound, inbound, writeBuf, fill, faults>>
    /\ UNCHANGED <<deviceVars, chunkSize, report, memory, history>>

\* flAwaitAsyncWrites, once flushed.
AwaitWrites ==
    /\ Doing("awaitWrites")
    /\ \/ Deep(0) /\ Await
       \/ /\ ~Deep(0)
          /\ IF queueSize(queue) > 0 THEN Return("FL_BAD_STATE") ELSE Proceed
          /\ UNCHANGED <<deviceVars, handleVars, usbVars, history, faults>>

\* The awaits of flReadChannelAsyncSubmit that keep things balanced.
Balance ==
    /\ Doing("balance")
    /\ \/ Deep(BalancedDepth) /\ Await
       \/ /\ ~Deep(BalancedDepth) /\ Proceed
          /\ UNCHANGED <<deviceVars, handleVars, usbVars, history, faults>>

\* usbBulkReadAsync into the caller's buffer, or the wrapper's when it is NULL.
ReadAsync ==
    /\ Doing("readAsync")
    /\ LET q == queuePut(queue)
           w == ItemToPut(q)
           b == IF Head(todo).buffer = None THEN w ELSE Head(todo).buffer
       IN \/ /\ CanGrow(queue)
             /\ queue' = queueCommitPut(q)
             /\ transfer' = [transfer EXCEPT ![w] = Filled(TRUE, b, Head(todo).length)]
             /\ inbound' = inbound \o <<w>>
             /\ Proceed /\ UNCHANGED faults
          \/ /\ Fail("FL_USB_ERR") /\ PutFails
             /\ UNCHANGED <<transfer, inbound>>
    /\ UNCHANGED <<deviceVars, handleVars, memory, outbound, history>>

\* flReadChannelAsyncAwait, and the test of the lengths in flReadChannel.
AwaitRead ==
    /\ Doing("awaitRead")
    /\ \/ /\ ~report.isRead /\ Await
       \/ /\ ~report.isRead /\ queueSize(queue) = 0
          /\ Return("FL_USB_ERR")
          /\ UNCHANGED <<deviceVars, handleVars, usbVars, history, faults>>
       \/ /\ report.isRead
          /\ answers' = answers \o <<SubSeq(memory[report.buffer], 1, report.actual)>>
          /\ report' = NoReport
          /\ IF Head(todo).whole /\ report.actual # report.request
             THEN Return("FL_EARLY_TERM") ELSE Proceed
          /\ UNCHANGED <<deviceVars, writeBuf, fill, chunkSize, usbVars, asked, reads, faults>>

\* flClose awaits as many completions as there are, whatever comes of them,
\* into a report of its own; usbCloseDevice then frees all there is.
Drain ==
    /\ Doing("drain") /\ queueSize(queue) > 0
    /\ \/ /\ transfer[ItemToTake(queue)].state # "pending"
          /\ UNCHANGED <<outbound, inbound, faults>>
       \/ /\ transfer[ItemToTake(queue)].state = "pending"
          /\ CanFail
          /\ outbound' = Without(outbound, ItemToTake(queue))
          /\ inbound'  = Without(inbound, ItemToTake(queue))
    /\ TakeOldest
    /\ UNCHANGED <<deviceVars, handleVars, history, todo, status>>

CloseDevice ==
    /\ Doing("drain") /\ queueSize(queue) = 0
    /\ held' = {} /\ commCapable' = FALSE
    /\ Proceed
    /\ UNCHANGED <<handleVars, usbVars, history, faults>>

-----------------------------------------------------------------------------
(* flOpen and usbOpenDevice: each step acquires something and may fail, and *)
(* a failure jumps to the label that releases what was acquired before it.  *)

\* Mutant of OpenSteps: an interface that cannot be claimed leaves the handle open.
OpenStepsWrongLabel ==
    LET step(get, drop) == [do |-> "open", get |-> get, drop |-> drop]
    IN <<step({"context"}, {}), step({"device"}, {"context"}),
         step({"queue"}, {"context", "device"}), step({"handle"}, {"context", "device", "queue"}),
         step({"interface"}, {"context", "device", "queue"}), [do |-> "getStatus"]>>

OpenSteps == <<[do |-> "open", get |-> {"context"},   drop |-> {}],
               [do |-> "open", get |-> {"device"},    drop |-> {"context"}],
               [do |-> "open", get |-> {"queue"},     drop |-> {"context", "device"}],
               [do |-> "open", get |-> {"handle"},    drop |-> {"context", "device", "queue"}],
               [do |-> "open", get |-> {},            drop |-> {"context", "device", "queue", "handle"}],
               [do |-> "open", get |-> {"interface"}, drop |-> {"context", "device", "queue", "handle"}],
               [do |-> "open", get |-> {},
                drop |-> {"context", "device", "queue", "handle", "interface"}],
               [do |-> "getStatus"]>>

OpenStep ==
    /\ Doing("open")
    /\ \/ /\ held' = held \cup Head(todo).get /\ Proceed /\ UNCHANGED faults
       \/ /\ held' = held \ Head(todo).drop /\ Fail("FL_USB_ERR")
    /\ UNCHANGED <<commCapable, handleVars, usbVars, history>>

\* The sixteen status bytes: who the device is and what it supports.
GetStatus ==
    /\ Doing("getStatus")
    /\ \/ /\ commCapable' \in BOOLEAN /\ Proceed /\ UNCHANGED <<held, faults>>
       \/ /\ held' = {} /\ Fail("FL_PROTOCOL_ERR") /\ UNCHANGED commCapable
    /\ UNCHANGED <<handleVars, usbVars, history>>

-----------------------------------------------------------------------------
(* The calls.  A byte that is written or read is the number of its place    *)
(* among all that the calls so far have asked for.                          *)

Everything == {"context", "device", "queue", "handle", "interface"}
IsOpen == held = Everything
Ready  == todo = <<>> /\ IsOpen

LengthBytes(n) == <<(n \div Radix) % Radix, n % Radix>>
Command(chan, read, n) ==
    Collect(<<chan + (IF read THEN Channels ELSE 0)>> \o LengthBytes(n))

\* The lengths of the messages that n bytes are sent as.
Pieces(n) == [i \in 1 .. n \div MaxLength |-> MaxLength]
             \o (IF n % MaxLength = 0 THEN <<>> ELSE <<n % MaxLength>>)

\* flWriteChannelAsync: for each message its command, then its bytes.
WriteSteps(chan, n) ==
    FlattenSeq([i \in DOMAIN Pieces(n) |->
        <<Command(chan, FALSE, Pieces(n)[i]),
          Collect([k \in 1 .. Pieces(n)[i] |-> Len(asked) + (i - 1) * MaxLength + k])>>])

\* Mutant of SubmitSteps: the command is not flushed before the read is queued.
SubmitStepsUnflushed(chan, n, buffer) ==
    <<Command(chan, TRUE, n), [do |-> "balance"],
      [do |-> "readAsync", buffer |-> buffer, length |-> n]>>

\* flReadChannelAsyncSubmit, and the await that goes with it.
SubmitSteps(chan, n, buffer) ==
    <<Command(chan, TRUE, n), [do |-> "flush"], [do |-> "balance"],
      [do |-> "readAsync", buffer |-> buffer, length |-> n]>>
AwaitStep(whole) == <<[do |-> "awaitRead", whole |-> whole]>>

\* flReadChannel: one read is kept ahead of the one awaited.
ReadSteps(chan, n) ==
    FlattenSeq([i \in DOMAIN Pieces(n) |->
        SubmitSteps(chan, Pieces(n)[i], CallersBuffer(Len(reads) + i))
        \o (IF i > 1 THEN AwaitStep(TRUE) ELSE <<>>)])
    \o AwaitStep(TRUE)

Ask(chan, read, n) == 
    asked' = asked \o [i \in 1 .. n |-> Transfer(chan, read, Len(asked) + i)]

\* A call that is refused at once: nothing to transfer, or no CommFPGA.
Refused(n) == n = 0 \/ ~commCapable

Begin(steps) == todo' = steps /\ status' = "none"

Call == UNCHANGED <<deviceVars, handleVars, usbVars, answers, faults>>

flOpen ==
    /\ todo = <<>> /\ held = {}
    /\ status \in {"none", "FL_USB_ERR", "FL_PROTOCOL_ERR"} /\ asked = <<>>
    /\ Begin(OpenSteps)
    /\ Call /\ UNCHANGED <<asked, reads>>

flClose == Ready /\ Begin(<<[do |-> "flush"], [do |-> "drain"]>>)
           /\ Call /\ UNCHANGED <<asked, reads>>

Refuse(n) ==
    /\ Ready /\ Refused(n) /\ status' = "FL_PROTOCOL_ERR"
    /\ Call /\ UNCHANGED <<asked, reads, todo>>

WriteThen(chan, n, steps) ==
    /\ Ready /\ ~Refused(n)
    /\ Begin(WriteSteps(chan, n) \o steps)
    /\ Ask(chan, FALSE, n)
    /\ Call /\ UNCHANGED reads

\* Mutant of Settle: what was collected is not flushed before the await.
SettleUnflushed == <<[do |-> "awaitWrites"]>>

\* What flAwaitAsyncWrites does.
Settle == <<[do |-> "flush"], [do |-> "awaitWrites"]>>

flWriteChannelAsync(chan, n) == WriteThen(chan, n, <<>>)
flWriteChannel(chan, n)      == WriteThen(chan, n, Settle)

flFlushAsyncWrites == Ready /\ Begin(<<[do |-> "flush"]>>) /\ Call /\ UNCHANGED <<asked, reads>>
flAwaitAsyncWrites == Ready /\ Begin(Settle) /\ Call /\ UNCHANGED <<asked, reads>>

flSetAsyncWriteChunkSize(size) ==
    /\ Ready
    /\ IF writeBuf # None
       THEN status' = "FL_BAD_STATE" /\ UNCHANGED chunkSize
       ELSE status' = "FL_SUCCESS" /\ chunkSize' = IF size = 0 THEN MaxLength ELSE size
    /\ UNCHANGED <<deviceVars, writeBuf, fill, report, usbVars, history, todo, faults>>

\* The reads of a call, with the place of the first byte of each.
NewReads(n, borrowed) ==
    [i \in DOMAIN Pieces(n) |-> [first |-> Len(asked) + (i - 1) * MaxLength + 1,
                                 count |-> Pieces(n)[i], borrowed |-> borrowed]]

Read(chan, n, borrowed, steps) ==
    /\ Ready /\ ~Refused(n) /\ Len(reads) + Len(Pieces(n)) <= MaxReads
    /\ Begin(steps)
    /\ Ask(chan, TRUE, n)
    /\ reads' = reads \o NewReads(n, borrowed)
    /\ Call

flReadChannel(chan, n) == Read(chan, n, FALSE, ReadSteps(chan, n))

flReadChannelAsyncSubmit(chan, n, borrowed) ==
    /\ n <= MaxLength
    /\ Read(chan, n, borrowed,
            SubmitSteps(chan, n, IF borrowed THEN None ELSE CallersBuffer(Len(reads) + 1)))

flReadChannelAsyncAwait == Ready /\ Begin(AwaitStep(FALSE)) /\ Call /\ UNCHANGED <<asked, reads>>

\* The steps of the call in progress.
HostStep == bufferAppend \/ Flush \/ AwaitWrites \/ Balance \/ ReadAsync \/ AwaitRead
            \/ Drain \/ CloseDevice \/ OpenStep \/ GetStatus
=============================================================================
