------------------------------ MODULE CommFpga ------------------------------
(***************************************************************************)
(* The channel interface of the FPGA (comm_fgpa_fx2.vhd).  It reads the     *)
(* stream of bytes in the OUT FIFO of the USB micro-controller as messages, *)
(* each a byte with the direction and the channel, two bytes of length and, *)
(* for a write by the host, that many bytes; for a read by the host it      *)
(* writes that many bytes into the IN FIFO.  One action per state of the    *)
(* state machine; a clock on which a FIFO or the channel logic is not ready *)
(* changes nothing and is a stuttering step.  reset_in is tied to '0' by    *)
(* the top level.                                                           *)
(* The FIFOs are the micro-controller's and not in this repository: the OUT *)
(* FIFO is a bounded sequence of bytes; the IN FIFO commits a packet when   *)
(* it is full or when the FPGA ends it.                                     *)
(***************************************************************************)
EXTENDS CommFormat

CONSTANTS BlockSize,   \* bytes of a full packet (512)
          InPackets    \* committed packets the IN FIFO holds

ASSUME CommAssumption ==
    /\ BlockSize \in Nat \ {0} /\ InPackets \in Nat \ {0}
    /\ MaxLength % BlockSize = 0

VARIABLES
  state, count, chanAddr, isWrite, isAligned,  \* the registers of the process
  outFifo,    \* bytes from the host that the FPGA has not read
  inPacket,   \* bytes written since the last committed packet
  inFifo,     \* committed packets that the host has not fetched
  performed   \* what the channels saw: the bytes written and read, in order

registers == <<state, count, chanAddr, isWrite, isAligned>>
fifos     == <<outFifo, inPacket, inFifo>>
commVars  == <<registers, fifos, performed>>

CommInit ==
    /\ state = "S_RESET" /\ count = 0 /\ chanAddr = 0
    /\ isWrite = FALSE /\ isAligned = FALSE
    /\ outFifo = <<>> /\ inPacket = <<>> /\ inFifo = <<>>
    /\ performed = <<>>

-----------------------------------------------------------------------------
fx2GotData == outFifo # <<>>
fx2GotRoom == Len(inFifo) < InPackets

\* One byte leaves the OUT FIFO.
TakeByte == outFifo' = Tail(outFifo) /\ UNCHANGED <<inPacket, inFifo>>

LeaveReset ==
    /\ state = "S_RESET" /\ ~fx2GotData
    /\ state' = "S_IDLE"
    /\ UNCHANGED <<count, chanAddr, isWrite, isAligned, fifos, performed>>

Idle ==
    /\ state = "S_IDLE" /\ fx2GotData
    /\ chanAddr' = Head(outFifo) % Channels
    /\ isWrite' = ((Head(outFifo) \div Channels) % 2 = 1)
    /\ state' = "S_GET_COUNT0"
    /\ TakeByte
    /\ UNCHANGED <<count, isAligned, performed>>

GetCount0 ==
    /\ state = "S_GET_COUNT0" /\ fx2GotData
    /\ count' = MaxLength * (count \div MaxLength)
                 + Radix * (Head(outFifo) % Radix) + (count % Radix)
    /\ state' = "S_GET_COUNT1"
    /\ TakeByte
    /\ UNCHANGED <<chanAddr, isWrite, isAligned, performed>>

\* Mutant of GetCount1: the seventeenth bit is never set.
GetCount1SixteenBits ==
    /\ state = "S_GET_COUNT1" /\ fx2GotData
    /\ count' = Radix * ((count \div Radix) % Radix) + (Head(outFifo) % Radix)
    /\ state' = IF isWrite THEN "S_BEGIN_WRITE" ELSE "S_READ"
    /\ TakeByte
    /\ UNCHANGED <<chanAddr, isWrite, isAligned, performed>>

\* The seventeenth bit of the length is set for two zero bytes.
GetCount1 ==
    /\ state = "S_GET_COUNT1" /\ fx2GotData
    /\ LET high == (count \div Radix) % Radix
           low  == Head(outFifo) % Radix
       IN count' = Radix * high + low + (IF high = 0 /\ low = 0 THEN MaxLength ELSE 0)
    /\ state' = IF isWrite THEN "S_BEGIN_WRITE" ELSE "S_READ"
    /\ TakeByte
    /\ UNCHANGED <<chanAddr, isWrite, isAligned, performed>>

BeginWrite ==
    /\ state = "S_BEGIN_WRITE"
    /\ isAligned' = (count % BlockSize = 0)
    /\ state' = "S_WRITE"
    /\ UNCHANGED <<count, chanAddr, isWrite, fifos, performed>>

\* A byte into the IN FIFO, which commits a packet that has become full.
PutByte(byte) ==
    LET packet == Append(inPacket, byte)
    IN IF Len(packet) = BlockSize
       THEN inFifo' = Append(inFifo, packet) /\ inPacket' = <<>>
       ELSE inPacket' = packet /\ UNCHANGED inFifo

WriteByte ==
    /\ state = "S_WRITE" /\ fx2GotRoom
    /\ LET event == Transfer(chanAddr, TRUE, Len(performed) + 1)
       IN performed' = Append(performed, event) /\ PutByte(event.byte)
    /\ count' = count - 1
    /\ state' = IF count # 1 THEN "S_WRITE"
                ELSE IF isAligned THEN "S_END_WRITE_ALIGNED"
                ELSE "S_END_WRITE_NONALIGNED"
    /\ UNCHANGED <<outFifo, chanAddr, isWrite, isAligned>>

EndWriteAligned ==
    /\ state = "S_END_WRITE_ALIGNED"
    /\ state' = "S_IDLE"
    /\ UNCHANGED <<count, chanAddr, isWrite, isAligned, fifos, performed>>

\* Mutant of EndWriteNonAligned: the short packet is not committed.
EndWriteUncommitted ==
    /\ state = "S_END_WRITE_NONALIGNED"
    /\ state' = "S_IDLE"
    /\ UNCHANGED <<fifos, count, chanAddr, isWrite, isAligned, performed>>

\* fx2PktEnd_out commits what there is as a short packet.
EndWriteNonAligned ==
    /\ state = "S_END_WRITE_NONALIGNED"
    /\ inFifo' = Append(inFifo, inPacket) /\ inPacket' = <<>>
    /\ state' = "S_IDLE"
    /\ UNCHANGED <<outFifo, count, chanAddr, isWrite, isAligned, performed>>

ReadByte ==
    /\ state = "S_READ" /\ fx2GotData
    /\ performed' = Append(performed, Transfer(chanAddr, FALSE, Head(outFifo)))
    /\ count' = count - 1
    /\ state' = IF count = 1 THEN "S_IDLE" ELSE "S_READ"
    /\ TakeByte
    /\ UNCHANGED <<chanAddr, isWrite, isAligned>>

Clock == LeaveReset \/ Idle \/ GetCount0 \/ GetCount1 \/ BeginWrite \/ WriteByte
         \/ EndWriteAligned \/ EndWriteNonAligned \/ ReadByte
=============================================================================
