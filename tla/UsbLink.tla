------------------------------ MODULE UsbLink ------------------------------
(***************************************************************************)
(* The whole link: the host's library (FpgaLink), the USB controllers and   *)
(* the micro-controller's FIFOs between, and the FPGA's channel interface   *)
(* (CommFpga).  The USB controllers are not in this repository: they move   *)
(* the packets of the oldest transfer of each endpoint while there is room. *)
(***************************************************************************)
EXTENDS FpgaLink, CommFpga

CONSTANTS OutSize,               \* bytes that the OUT FIFO holds
          WriteSizes, ReadSizes, ChunkSizes,   \* arguments of the calls
          BorrowDepth,           \* reads without a buffer that may be outstanding
          WritesWhileBorrowing,  \* whether the client writes while one is
          MaxCalls               \* bound: calls that transfer

ASSUME ClientAssumption ==
    /\ OutSize >= BlockSize
    /\ WriteSizes \subseteq Nat /\ ReadSizes \subseteq Nat /\ ChunkSizes \subseteq Nat
    /\ MaxCalls \in Nat

VARIABLE calls   \* calls so far

Transfers == INSTANCE ChannelTransfers

vars == <<linkVars, commVars, calls>>

Init == LinkInit /\ CommInit /\ calls = 0

-----------------------------------------------------------------------------
(* The USB controllers.                                                     *)

Moved(t, actual, end) == [t EXCEPT !.actual = actual, !.state = end]
Over(w, actual, end)  == transfer' = [transfer EXCEPT ![w] = Moved(@, actual, end)]

\* A wrapper's buffer is zeroed when it is made (calloc).
ByteAt(b, i) == IF i <= Len(memory[b]) THEN memory[b][i] ELSE 0

\* The next packet of the oldest OUT transfer, read from its buffer now.
MoveOut ==
    /\ outbound # <<>>
    /\ LET w == Head(outbound)
           t == transfer[w]
           n == IF t.length - t.actual < BlockSize THEN t.length - t.actual ELSE BlockSize
           last == t.actual + n = t.length
       IN /\ Len(outFifo) + n <= OutSize
          /\ outFifo' = outFifo \o [i \in 1 .. n |-> ByteAt(t.buffer, t.actual + i)]
          /\ Over(w, t.actual + n, IF last THEN "completed" ELSE "pending")
          /\ outbound' = IF last THEN Tail(outbound) ELSE outbound
    /\ UNCHANGED <<deviceVars, handleVars, queue, memory, inbound, history, todo, status, faults>>
    /\ UNCHANGED <<registers, inPacket, inFifo, performed, calls>>

\* A packet into the oldest IN transfer, which ends when it is full or the
\* packet is short; a packet that does not fit is an overflow.
MoveIn ==
    /\ inbound # <<>> /\ inFifo # <<>>
    /\ LET w == Head(inbound)
           t == transfer[w]
           packet == Head(inFifo)
           actual == t.actual + Len(packet)
           overflow == actual > t.length
           last == overflow \/ actual = t.length \/ Len(packet) < BlockSize
       IN /\ inFifo' = Tail(inFifo)
          /\ IF overflow
             THEN Over(w, t.actual, "error") /\ UNCHANGED memory
             ELSE /\ Over(w, actual, IF last THEN "completed" ELSE "pending")
                  /\ memory' = [memory EXCEPT ![t.buffer] = Overlaid(@, t.actual, packet)]
          /\ inbound' = IF last THEN Tail(inbound) ELSE inbound
    /\ UNCHANGED <<deviceVars, handleVars, queue, outbound, history, todo, status, faults>>
    /\ UNCHANGED <<registers, outFifo, inPacket, performed, calls>>

\* A transfer fails: a stall, a time-out, the device gone.
TransferFails ==
    /\ CanFail
    /\ \/ /\ outbound # <<>>
          /\ Over(Head(outbound), transfer[Head(outbound)].actual, "error")
          /\ outbound' = Tail(outbound) /\ UNCHANGED inbound
       \/ /\ inbound # <<>>
          /\ Over(Head(inbound), transfer[Head(inbound)].actual, "error")
          /\ inbound' = Tail(inbound) /\ UNCHANGED outbound
    /\ UNCHANGED <<deviceVars, handleVars, queue, memory, history, todo, status>>
    /\ UNCHANGED <<commVars, calls>>

-----------------------------------------------------------------------------
(* The client: it closes the link after an error, as the backend does       *)
(* (flcli/main.c), and keeps to what libfpgalink.h asks of it between the   *)
(* submit and the await of a read.                                          *)

Outstanding == Len(reads) - Len(answers)
Borrowed == {r \in Len(answers) + 1 .. Len(reads) : reads[r].borrowed}
Healthy == status \in {"none", "FL_SUCCESS"}

MayWrite == Healthy /\ (Borrowed = {} \/ WritesWhileBorrowing)
MaySync  == Healthy /\ Outstanding = 0
MayRead(borrowed) == Healthy /\ (borrowed \/ Borrowed # {} => Outstanding < BorrowDepth)

Transferring(chan) ==
    \/ \E n \in WriteSizes :
         \/ MayWrite /\ flWriteChannelAsync(chan, n)
         \/ MaySync /\ flWriteChannel(chan, n)
    \/ MayWrite /\ flFlushAsyncWrites
    \/ MaySync /\ flAwaitAsyncWrites
    \/ \E n \in ReadSizes :
         \/ MaySync /\ flReadChannel(chan, n)
         \/ \E borrowed \in BOOLEAN :
              /\ MayRead(borrowed)
              /\ flReadChannelAsyncSubmit(chan, n, borrowed)
    \/ Healthy /\ Outstanding > 0 /\ flReadChannelAsyncAwait

\* The channels take turns.  The interface has left its reset before the
\* first of them: it takes one clock from when the micro enables the FIFOs,
\* and the host selects the conduit by a control transfer first (main.c).
Calling == /\ calls < MaxCalls /\ calls' = calls + 1
           /\ state # "S_RESET"
           /\ Transferring(calls % Channels)
           /\ UNCHANGED commVars

\* The calls that transfer nothing are not counted.
Managing == /\ \/ flOpen
               \/ flClose
               \/ \E size \in ChunkSizes : MaySync /\ flSetAsyncWriteChunkSize(size)
               \/ \E n \in {0, 1} : Refuse(n)
            /\ UNCHANGED <<commVars, calls>>

Working  == HostStep /\ UNCHANGED <<commVars, calls>>
Clocking == Clock /\ UNCHANGED <<linkVars, calls>>

Next == Calling \/ Managing \/ Working \/ Clocking \/ MoveOut \/ MoveIn \/ TransferFails

\* The host's thread, the controllers and the clock of the FPGA do not stop;
\* the channel logic of the ATM is always ready (atm_top_level.vhd:1259).
\* Nothing is bound to fail.
Fairness == /\ WF_vars(Working /\ faults' = faults)
            /\ WF_vars(Clocking) /\ WF_vars(MoveOut) /\ WF_vars(MoveIn)

Spec == Init /\ [][Next]_vars /\ Fairness

-----------------------------------------------------------------------------
InFlight == ToSet(outbound) \cup ToSet(inbound)

\* A wrapper that the USB stack still uses is never one that the ring would
\* hand out again (libusbwrap.c: a transfer is in flight while it is queued),
\* and no two places of the ring hold the same wrapper, also after it has
\* grown and when transfers have failed.
QueueHoldsInFlight ==
    /\ InFlight \subseteq ToSet(Committed(queue))
    /\ \A i, j \in 0 .. queue.capacity - 1 :
          queue.itemArray[i] = queue.itemArray[j] => i = j

\* Between usbBulkWriteAsyncPrepare and usbBulkWriteAsyncSubmit the buffer
\* that the library writes to is the one that will be submitted, and neither
\* a transfer in flight nor a read waiting to be fetched uses it; it has room, as
\* one that is full is submitted at once.
BuffersArePrivate ==
    faults = 0 /\ writeBuf # None =>
        /\ fill < chunkSize
        /\ ~IsFull(queue) /\ ItemToPut(queue) = writeBuf
        /\ \A w \in InFlight : transfer[w].buffer # writeBuf
        /\ report.buffer # writeBuf

\* flOpen and usbOpenDevice acquire all or nothing, and no transfer outlives
\* the device that flClose frees.
OpenAllOrNothing ==
    /\ todo = <<>> => held \in {{}, Everything}
    /\ "device" \notin held => InFlight = {}

\* flAwaitAsyncWrites, alone or as the end of flWriteChannel, only returns
\* success when all that was written has been received by the micro.
AwaitedWritesHaveLeft ==
    [][Doing("awaitWrites") /\ todo' = <<>> /\ status' = "FL_SUCCESS"
       => InFlight = {} /\ writeBuf = None /\ queueSize(queue) = 0]_vars

\* libfpgalink.h: while nothing has failed the link implements
\* ChannelTransfers: bytes are seen once and in order, reads get their bytes.
ImplementsTransfers ==
    Transfers!Init /\ [][faults' = 0 => Transfers!Next]_(Transfers!vars)

\* libfpgalink.h:579-581: the data that an await returns, also from a borrowed
\* buffer, is what the FPGA sent for that read.
AwaitReturnsItsData ==
    faults = 0 => \A k \in DOMAIN answers :
        answers[k] = [i \in 1 .. reads[k].count |-> performed[reads[k].first + i - 1].byte]

\* Every call returns, unless a transfer was lost under it: no loop waits for
\* a transfer that waits for the host.
EveryCallReturns == todo # <<>> ~> (todo = <<>> \/ faults > 0)
=============================================================================
