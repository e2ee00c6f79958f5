-------------------------- MODULE MemoryBitStream --------------------------
(***************************************************************************)
(* A packet on its way: fields of any width are written to an              *)
(* OutputMemoryBitStream, the bytes are sent, and the other end reads      *)
(* fields of any width from an InputMemoryBitStream over what arrived.     *)
(* The two ends need not agree on the widths: the streams promise bits in  *)
(* order, whatever the fields are.                                         *)
(***************************************************************************)
EXTENDS BitStreams, Sequences

CONSTANTS
  InitialCapacity,   \* bits of a new OutputMemoryBitStream (1500 * 8 in the code)
  PacketMem,         \* bytes of packetMem, which cuts longer datagrams (1500)
  Data,              \* the source bytes that are written
  FieldWidth,        \* the widths that fields are written and read with
  MaxBits            \* bound: bits written

ASSUME StreamAssumption ==
  /\ InitialCapacity \in Nat /\ InitialCapacity % 8 = 0 /\ InitialCapacity >= 8
  /\ PacketMem \in Nat \ {0}
  /\ Data \subseteq Byte
  /\ FieldWidth \subseteq Nat \ {0}
  /\ MaxBits \in Nat

VARIABLES
  out,         \* OutputMemoryBitStream
  in,          \* InputMemoryBitStream
  inBitCount,  \* bits of the current field that its loop has still to move
  arrived,     \* the datagram has been sent and read into in
  outData,     \* the byte that ReadBits returned last
  written,     \* history: the bits written
  read         \* history: the bits read

vars == <<out, in, inBitCount, arrived, outData, written, read>>

Init ==
  /\ out = [buffer |-> [i \in 0 .. InitialCapacity \div 8 - 1 |-> ZeroByte],
            head |-> 0, capacity |-> InitialCapacity]
  /\ in = [buffer |-> [i \in {} |-> ZeroByte], head |-> 0, capacity |-> 0]
  /\ inBitCount = 0
  /\ arrived = FALSE
  /\ outData = ZeroByte
  /\ written = <<>> /\ read = <<>>

\* The loops of WriteBits and ReadBits on a field: bytes, then what is left.
NextBitCount == IF inBitCount > 8 THEN 8 ELSE inBitCount

\* The first n bits of a byte, in order.
FirstBits(byte, n) == [i \in 1 .. n |-> byte[i - 1]]

BeginWrite(width) ==
  /\ ~arrived /\ inBitCount = 0
  /\ out.head + width <= MaxBits
  /\ inBitCount' = width
  /\ UNCHANGED <<out, in, arrived, outData, written, read>>

WriteByte(byte) ==
  /\ ~arrived /\ inBitCount > 0
  /\ out' = WriteBits(out, byte, NextBitCount)
  /\ inBitCount' = inBitCount - NextBitCount
  /\ written' = written \o FirstBits(byte, NextBitCount)
  /\ UNCHANGED <<in, arrived, outData, read>>

\* Mutant: the length is rounded down.
GetByteLengthDown == out.head \div 8

GetByteLength == (out.head + 7) \div 8

\* SendTo and ReceiveFrom, then ResetToCapacity, and the copy that
\* ReceivedPacket makes of the bytes.
Arrive ==
  LET byteCount == IF GetByteLength > PacketMem THEN PacketMem ELSE GetByteLength
  IN
  /\ ~arrived /\ inBitCount = 0 /\ out.head > 0
  /\ arrived' = TRUE
  /\ in' = [buffer |-> [i \in 0 .. byteCount - 1 |-> out.buffer[i]],
            head |-> 0, capacity |-> byteCount * 8]
  /\ UNCHANGED <<out, inBitCount, outData, written, read>>

\* The reader asks for no more than there is.
BeginRead(width) ==
  /\ arrived /\ inBitCount = 0
  /\ in.head + width <= in.capacity
  /\ inBitCount' = width
  /\ UNCHANGED <<out, in, arrived, outData, written, read>>

ReadByte ==
  /\ arrived /\ inBitCount > 0
  /\ outData' = ReadBits(in, NextBitCount)
  /\ in' = [buffer |-> in.buffer, head |-> in.head + NextBitCount, capacity |-> in.capacity]
  /\ inBitCount' = inBitCount - NextBitCount
  /\ read' = read \o FirstBits(outData', NextBitCount)
  /\ UNCHANGED <<out, arrived, written>>

Next ==
  \/ \E width \in FieldWidth : BeginWrite(width) \/ BeginRead(width)
  \/ \E byte \in Data : WriteByte(byte)
  \/ Arrive \/ ReadByte

Spec == Init /\ [][Next]_vars

---------------------------------------------------------------------------
Stream(n) == [buffer : [0 .. n \div 8 - 1 -> Byte], head : 0 .. n, capacity : {n}]

StreamTypeOK ==
  /\ out.capacity \in Nat /\ out.capacity % 8 = 0 /\ out.capacity >= 8
  /\ out \in Stream(out.capacity)
  /\ in.capacity \in Nat /\ in.capacity % 8 = 0
  /\ in \in Stream(in.capacity)
  /\ inBitCount \in Nat
  /\ arrived \in BOOLEAN
  /\ outData \in Byte
  /\ written \in Seq(Bit) /\ Len(written) = out.head
  /\ read \in Seq(Bit) /\ Len(read) = in.head
  /\ arrived => in.head + inBitCount <= in.capacity

(* However fields share bytes, leave stray bits behind the head, or make the *)
(* buffer move: every bit written stays in its place.                        *)
Intact == \A k \in 0 .. Len(written) - 1 : BitAt(out.buffer, k) = written[k + 1]

(* What is read is what was written, bit for bit, although the reader may    *)
(* cut the bits into other fields; only the padding of the last byte, and    *)
(* what a full packetMem cut off, is not from the writer.                    *)
ReadIsWritten ==
  \A k \in 1 .. Len(read) : k <= Len(written) => read[k] = written[k]

(* Everything that was written can be read, up to the size of packetMem: a   *)
(* last byte that is incomplete is sent, too.                                *)
NothingCut ==
  arrived => in.capacity >= IF out.head > 8 * PacketMem THEN 8 * PacketMem ELSE out.head

(* A field that is narrower than a byte is returned with zeros above it, so  *)
(* that neighbouring fields do not show in its value.                        *)
ReadStaysInField ==
  [][\A n \in 1 .. 8 : Len(read') = Len(read) + n =>
       \A i \in n .. 7 : outData'[i] = 0]_vars
=============================================================================
