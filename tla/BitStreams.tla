----------------------------- MODULE BitStreams -----------------------------
(***************************************************************************)
(* The two calls that every field of a packet goes through                 *)
(* (src/Common/MemoryBitStream): WriteBits and ReadBits of at most eight   *)
(* bits.  A byte is a function from bit positions, 0 the lowest, to bits; a *)
(* buffer is a function from byte offsets to bytes.  Heads and capacities  *)
(* are counted in bits.                                                    *)
(***************************************************************************)
EXTENDS Integers

Bit == {0, 1}
Byte == [0 .. 7 -> Bit]
ZeroByte == [i \in 0 .. 7 |-> 0]

\* The bit at position k of a buffer.
BitAt(buffer, k) == buffer[k \div 8][k % 8]

\* Mutant: the old bytes are not copied.
ReallocBufferEmpty(out, newBitLength) ==
  [buffer |-> [i \in 0 .. newBitLength \div 8 - 1 |-> ZeroByte],
   head |-> out.head, capacity |-> newBitLength]

\* The old bytes, then zeros.
ReallocBuffer(out, newBitLength) ==
  [buffer |-> [i \in 0 .. newBitLength \div 8 - 1 |->
                 IF i < out.capacity \div 8 THEN out.buffer[i] ELSE ZeroByte],
   head |-> out.head, capacity |-> newBitLength]

Larger(a, b) == IF a > b THEN a ELSE b

\* Mutant: the head is compared before the field is added.
WithRoomForLate(out, nextBitHead) ==
  IF out.head > out.capacity
  THEN ReallocBuffer(out, Larger(out.capacity * 2, nextBitHead))
  ELSE out

WithRoomFor(out, nextBitHead) ==
  IF nextBitHead > out.capacity
  THEN ReallocBuffer(out, Larger(out.capacity * 2, nextBitHead))
  ELSE out

\* Mutant: currentMask is left out, so that the new bits are ored in.
BehindOred(byte, bitOffset, inData) ==
  [i \in 0 .. 7 |-> IF i < bitOffset THEN byte[i]
                    ELSE IF byte[i] = 1 THEN 1 ELSE inData[i - bitOffset]]

\* inData << bitOffset behind the low bitOffset bits of a byte.
Behind(byte, bitOffset, inData) ==
  [i \in 0 .. 7 |-> IF i < bitOffset THEN byte[i] ELSE inData[i - bitOffset]]

\* inData >> shift.
Shifted(inData, shift) == [i \in 0 .. 7 |-> IF i + shift < 8 THEN inData[i + shift] ELSE 0]

\* The bits of inData from inBitCount on are not masked: they stay in the
\* buffer beyond the head until the next write.
WriteBits(out, inData, inBitCount) ==
  LET grown == WithRoomFor(out, out.head + inBitCount)
      byteOffset == out.head \div 8
      bitOffset == out.head % 8
      first == [grown.buffer EXCEPT ![byteOffset] = Behind(@, bitOffset, inData)]
  IN [buffer |-> IF 8 - bitOffset < inBitCount
                 THEN [first EXCEPT ![byteOffset + 1] = Shifted(inData, 8 - bitOffset)]
                 ELSE first,
      head |-> out.head + inBitCount,
      capacity |-> grown.capacity]

\* What ReadBits puts into outData.  The next byte is looked at only when
\* the field reaches into it.
ReadBits(in, inBitCount) ==
  LET byteOffset == in.head \div 8
      bitOffset == in.head % 8
      low == Shifted(in.buffer[byteOffset], bitOffset)
  IN [i \in 0 .. 7 |->
        IF i >= inBitCount THEN 0
        ELSE IF 8 - bitOffset < inBitCount /\ i >= 8 - bitOffset
        THEN in.buffer[byteOffset + 1][i - (8 - bitOffset)]
        ELSE low[i]]
=============================================================================
