------------------------ MODULE PacketEncodingProofs ------------------------
(***************************************************************************)
(* The reader of every packet understands its writer, for every name that  *)
(* fits a packet, every id, sequence number and range.                     *)
(***************************************************************************)
EXTENDS PacketEncoding, SequenceTheorems, TLAPS

\* What MemoryBitStreamProofs says of WriteBits and ReadBits.  Its own
\* variables do not matter here.
Streams == INSTANCE MemoryBitStreamProofs WITH
  PacketMem <- 1, Data <- {}, FieldWidth <- {}, MaxBits <- 0,
  inBitCount <- 0, arrived <- FALSE, outData <- ZeroByte, written <- <<>>, read <- <<>>

---------------------------------------------------------------------------
(* Values and their bytes *)

(* The bits of a number make up its lowest byte.                             *)
LEMMA ByteValueOfBits ==
  ASSUME NEW x \in Int, NEW b, \A i \in 0 .. 7 : b[i] = (x \div Place[i + 1]) % 2
  PROVE  ByteValue(b) = x % 256
<1>1. /\ b[0] = (x \div 1) % 2 /\ b[1] = (x \div 2) % 2
      /\ b[2] = (x \div 4) % 2 /\ b[3] = (x \div 8) % 2
      /\ b[4] = (x \div 16) % 2 /\ b[5] = (x \div 32) % 2
      /\ b[6] = (x \div 64) % 2 /\ b[7] = (x \div 128) % 2
  BY DEF Place
<1>2. /\ x \div 1 = x /\ x = 2 * (x \div 2) + (x % 2)
      /\ x \div 2 = 2 * (x \div 4) + ((x \div 2) % 2)
      /\ x \div 4 = 2 * (x \div 8) + ((x \div 4) % 2)
      /\ x \div 8 = 2 * (x \div 16) + ((x \div 8) % 2)
      /\ x \div 16 = 2 * (x \div 32) + ((x \div 16) % 2)
      /\ x \div 32 = 2 * (x \div 64) + ((x \div 32) % 2)
      /\ x \div 64 = 2 * (x \div 128) + ((x \div 64) % 2)
      /\ x \div 128 = 2 * (x \div 256) + ((x \div 128) % 2)
  OBVIOUS
<1>3. x = 256 * (x \div 256) + (x % 256)
  OBVIOUS
<1> QED BY <1>1, <1>2, <1>3 DEF ByteValue

(* A number below 2^(8 * count) is its bytes.                                *)
LEMMA UnsignedOfBytes ==
  ASSUME NEW x \in Nat, NEW count \in {1, 2, 4},
         count = 1 => x < 256, count = 2 => x < 65536, count = 4 => x \div 65536 < 65536
  PROVE  Unsigned(Bytes(x, count)) = x
<1> SUFFICES ASSUME NEW bytes, bytes = Bytes(x, count) PROVE Unsigned(bytes) = x
  OBVIOUS
<1>1. DOMAIN bytes = 1 .. count
  BY DEF Bytes
<1>2. ASSUME NEW j \in 1 .. count PROVE ByteValue(bytes[j]) = (x \div Digit[j]) % 256
  <2>1. x \div Digit[j] \in Int
    BY DEF Digit
  <2>2. \A i \in 0 .. 7 : bytes[j][i] = ((x \div Digit[j]) \div Place[i + 1]) % 2
    BY DEF Bytes
  <2> QED BY <2>1, <2>2, ByteValueOfBits
<1>3. Digit[1] = 1 /\ Digit[2] = 256 /\ Digit[3] = 65536 /\ Digit[4] = 16777216
  BY DEF Digit
<1>4. /\ x \div 1 = x /\ x = 256 * (x \div 256) + (x % 256)
      /\ x \div 256 = 256 * (x \div 65536) + ((x \div 256) % 256)
      /\ x \div 65536 = 256 * (x \div 16777216) + ((x \div 65536) % 256)
  OBVIOUS
<1>5. CASE count = 1
  <2>1. Unsigned(bytes) = Digit[1] * ByteValue(bytes[1]) + 0 + 0 + 0
    BY <1>1, <1>5 DEF Unsigned
  <2> QED BY <1>2, <1>3, <1>4, <1>5, <2>1
<1>6. CASE count = 2
  <2>1. Unsigned(bytes) = Digit[1] * ByteValue(bytes[1]) + Digit[2] * ByteValue(bytes[2]) + 0 + 0
    BY <1>1, <1>6 DEF Unsigned
  <2>2. ByteValue(bytes[1]) = (x \div 1) % 256 /\ ByteValue(bytes[2]) = (x \div 256) % 256
    BY <1>2, <1>3, <1>6
  <2>3. (x \div 256) % 256 = x \div 256
    BY <1>6
  <2> QED BY <1>3, <1>4, <2>1, <2>2, <2>3
<1>7. CASE count = 4
  <2>1. Unsigned(bytes) = Digit[1] * ByteValue(bytes[1]) + Digit[2] * ByteValue(bytes[2])
                            + Digit[3] * ByteValue(bytes[3]) + Digit[4] * ByteValue(bytes[4])
    BY <1>1, <1>7 DEF Unsigned
  <2>2. /\ ByteValue(bytes[1]) = (x \div 1) % 256 /\ ByteValue(bytes[2]) = (x \div 256) % 256
        /\ ByteValue(bytes[3]) = (x \div 65536) % 256
        /\ ByteValue(bytes[4]) = (x \div 16777216) % 256
    BY <1>2, <1>3, <1>7
  <2>3. (x \div 16777216) % 256 = x \div 16777216
    BY <1>7
  <2> QED BY <1>3, <1>4, <2>1, <2>2, <2>3
<1> QED BY <1>5, <1>6, <1>7

(* Turning every bit of x over gives -1 - x.                                 *)
LEMMA ComplementOfBytes ==
  ASSUME NEW x \in Int
  PROVE  Complement(Bytes(x, 4)) = Bytes(-1 - x, 4)
<1>1. ASSUME NEW j \in 1 .. 4, NEW i \in 0 .. 7
      PROVE  1 - (((x \div Digit[j]) \div Place[i + 1]) % 2)
               = (((-1 - x) \div Digit[j]) \div Place[i + 1]) % 2
  <2>1. Digit[j] \in {1, 256, 65536, 16777216}
    BY DEF Digit
  <2>2. Place[i + 1] \in {1, 2, 4, 8, 16, 32, 64, 128}
    BY DEF Place
  <2>3. PICK y : y = x \div Digit[j]
    OBVIOUS
  <2>4. y \in Int /\ (-1 - x) \div Digit[j] = -1 - y
    BY <2>1, <2>3
  <2>5. (-1 - y) \div Place[i + 1] = -1 - (y \div Place[i + 1]) /\ y \div Place[i + 1] \in Int
    BY <2>2, <2>4
  <2>6. PICK z : z = y \div Place[i + 1]
    OBVIOUS
  <2>7. 1 - (z % 2) = (-1 - z) % 2
    BY <2>5, <2>6
  <2> QED BY <2>3, <2>4, <2>5, <2>6, <2>7
<1>2. Complement(Bytes(x, 4)) =
        [j \in 1 .. 4 |-> [i \in 0 .. 7 |-> 1 - (((x \div Digit[j]) \div Place[i + 1]) % 2)]]
  BY DEF Complement, Bytes
<1> QED BY <1>1, <1>2 DEF Bytes

(* An int is its bytes, read as two's complement.                            *)
LEMMA SignedOfBytes ==
  ASSUME NEW x \in Int32
  PROVE  Signed(Bytes(x, 4)) = x
<1>1. Bytes(x, 4)[4][7] = ((x \div 16777216) \div 128) % 2 /\ Len(Bytes(x, 4)) = 4
  BY DEF Bytes, Digit, Place
<1>2. CASE x >= 0
  <2>1. ((x \div 16777216) \div 128) % 2 = 0
    BY <1>2 DEF Int32
  <2>2. x \in Nat /\ x \div 65536 < 65536
    BY <1>2 DEF Int32
  <2>3. Unsigned(Bytes(x, 4)) = x
    BY <2>2, UnsignedOfBytes
  <2> QED BY <1>1, <2>1, <2>3 DEF Signed
<1>3. CASE x < 0
  <2>1. ((x \div 16777216) \div 128) % 2 = 1
    BY <1>3 DEF Int32
  <2>2. -1 - x \in Nat /\ (-1 - x) \div 65536 < 65536 /\ x \in Int
    BY <1>3 DEF Int32
  <2>3. Unsigned(Bytes(-1 - x, 4)) = -1 - x
    BY <2>2, UnsignedOfBytes
  <2>4. Complement(Bytes(x, 4)) = Bytes(-1 - x, 4)
    BY <2>2, ComplementOfBytes
  <2>5. Signed(Bytes(x, 4)) = -1 - (-1 - x)
    BY <1>1, <2>1, <2>3, <2>4 DEF Signed
  <2> QED BY <2>2, <2>5
<1> QED BY <1>2, <1>3 DEF Int32

---------------------------------------------------------------------------
(* Fields in a buffer *)

(* Every byte of a value is a byte.                                          *)
LEMMA BytesAreBytes ==
  ASSUME NEW x \in Int, NEW count \in {1, 2, 4}
  PROVE  Bytes(x, count) \in [1 .. count -> Byte]
<1>1. ASSUME NEW j \in 1 .. count, NEW i \in 0 .. 7
      PROVE  ((x \div Digit[j]) \div Place[i + 1]) % 2 \in Bit
  <2>1. Digit[j] \in {1, 256, 65536, 16777216} /\ Place[i + 1] \in {1, 2, 4, 8, 16, 32, 64, 128}
    BY DEF Digit, Place
  <2>2. x \div Digit[j] \in Int
    BY <2>1
  <2>3. (x \div Digit[j]) \div Place[i + 1] \in Int
    BY <2>1, <2>2
  <2> QED BY <2>3 DEF Bit
<1> QED BY <1>1 DEF Bytes, Byte

\* The bits of a value stand at a position of a buffer.
FieldAt(buffer, at, x, width) ==
  \A j \in 1 .. (width + 7) \div 8, i \in 0 .. 7 : i < BitsOf(width, j) =>
    BitAt(buffer, at + 8 * (j - 1) + i) = Bytes(x, (width + 7) \div 8)[j][i]

WellFormed(s) == Streams!WellFormed(s)

(* What MemoryBitStreamProofs says of ReadBits.                              *)
LEMMA ReadBitsReturns ==
  ASSUME NEW s, WellFormed(s), NEW n \in 1 .. 8, s.head + n <= s.capacity
  PROVE  /\ ReadBits(s, n) \in [0 .. 7 -> Bit]
         /\ \A i \in 0 .. n - 1 : ReadBits(s, n)[i] = BitAt(s.buffer, s.head + i)
         /\ \A i \in n .. 7 : ReadBits(s, n)[i] = 0
<1>1. Streams!StreamAssumption
  BY EncodingAssumption DEF Streams!StreamAssumption
<1>2. Streams!WellFormed(s)
  BY DEF WellFormed
<1>3. /\ Streams!ReadBits(s, n) \in Streams!Byte
      /\ \A i \in 0 .. n - 1 : Streams!ReadBits(s, n)[i] = Streams!BitAt(s.buffer, s.head + i)
      /\ \A i \in n .. 7 : Streams!ReadBits(s, n)[i] = 0
  BY <1>1, <1>2, Streams!ReadBitsReturns
<1>4. Streams!ReadBits(s, n) = ReadBits(s, n)
  BY DEF Streams!ReadBits, ReadBits, Streams!Shifted, Shifted
<1>5. Streams!Byte = [0 .. 7 -> Bit]
  BY DEF Streams!Byte, Streams!Bit, Bit
<1> QED BY <1>3, <1>4, <1>5 DEF Streams!BitAt, BitAt

(* ... and of WriteBits.                                                     *)
LEMMA WriteBitsAppends ==
  ASSUME NEW s, WellFormed(s), s.capacity >= 8, NEW d \in Byte, NEW n \in 1 .. 8,
         NEW t, t = WriteBits(s, d, n)
  PROVE  /\ WellFormed(t) /\ t.capacity >= 8 /\ t.head = s.head + n
         /\ \A k \in 0 .. s.head - 1 : BitAt(t.buffer, k) = BitAt(s.buffer, k)
         /\ \A i \in 0 .. n - 1 : BitAt(t.buffer, s.head + i) = d[i]
<1>1. d \in Streams!Byte
  BY DEF Byte, Bit, Streams!Byte, Streams!Bit
<1>2. Streams!WriteBits(s, d, n) = t
  BY DEF WriteBits, WithRoomFor, ReallocBuffer, Larger, Behind, Shifted, ZeroByte,
         Streams!WriteBits, Streams!WithRoomFor, Streams!ReallocBuffer, Streams!Larger,
         Streams!Behind, Streams!Shifted, Streams!ZeroByte
<1>3. Streams!StreamAssumption
  BY EncodingAssumption DEF Streams!StreamAssumption
<1>4. Streams!WellFormed(s)
  BY DEF WellFormed
<1>5. Streams!Appended(s, d, n, Streams!WriteBits(s, d, n))
  BY <1>1, <1>3, <1>4, Streams!WriteBitsAppends
<1> QED BY <1>2, <1>5 DEF Streams!Appended, WellFormed, Streams!BitAt, BitAt

(* A field of whole bytes is read as those bytes.                            *)
LEMMA ReadsField ==
  ASSUME NEW s, WellFormed(s), NEW x \in Int, NEW width \in {8, 16, 32},
         s.head + width <= s.capacity, FieldAt(s.buffer, s.head, x, width)
  PROVE  Read(s, width) = Bytes(x, width \div 8)
<1> DEFINE count == width \div 8
<1>0. count \in {1, 2, 4} /\ (width + 7) \div 8 = count /\ width = 8 * count
  OBVIOUS
<1>1. ASSUME NEW j \in 1 .. count
      PROVE  ReadBits([s EXCEPT !.head = @ + 8 * (j - 1)], BitsOf(width, j)) = Bytes(x, count)[j]
  <2> DEFINE t == [s EXCEPT !.head = @ + 8 * (j - 1)]
  <2>1. BitsOf(width, j) = 8
    BY <1>0 DEF BitsOf
  <2>2. /\ s.capacity \in Nat /\ s.head \in 0 .. s.capacity
        /\ s = [buffer |-> s.buffer, head |-> s.head, capacity |-> s.capacity]
    BY DEF WellFormed, Streams!WellFormed
  <2>3. t = [buffer |-> s.buffer, head |-> s.head + 8 * (j - 1), capacity |-> s.capacity]
    BY <2>2
  <2>4. t.buffer = s.buffer /\ t.head = s.head + 8 * (j - 1) /\ t.capacity = s.capacity
        /\ t = [buffer |-> t.buffer, head |-> t.head, capacity |-> t.capacity]
    BY <2>3
  <2> HIDE DEF t
  <2>5. t.head \in 0 .. t.capacity /\ t.head + 8 <= t.capacity
    BY <1>0, <2>2, <2>4
  <2>6. WellFormed(t)
    BY <2>2, <2>4, <2>5 DEF WellFormed, Streams!WellFormed
  <2>7. /\ ReadBits(t, 8) \in [0 .. 7 -> Bit]
        /\ \A i \in 0 .. 7 : ReadBits(t, 8)[i] = BitAt(s.buffer, s.head + 8 * (j - 1) + i)
    BY <2>4, <2>5, <2>6, ReadBitsReturns
  <2>8. \A i \in 0 .. 7 : BitAt(s.buffer, s.head + 8 * (j - 1) + i) = Bytes(x, count)[j][i]
    BY <1>0, <2>1 DEF FieldAt
  <2>9. Bytes(x, count)[j] \in [0 .. 7 -> Bit]
    BY <1>0, BytesAreBytes DEF Byte
  <2>10. ReadBits(t, 8) = Bytes(x, count)[j]
    BY <2>7, <2>8, <2>9
  <2> QED BY <2>1, <2>10 DEF t
<1>2. Bytes(x, count) = [j \in 1 .. count |-> Bytes(x, count)[j]]
  BY DEF Bytes
<1> QED BY <1>0, <1>1, <1>2 DEF Read

(* A flag is read as it was written: the bits around it do not show.         *)
LEMMA ReadsFlag ==
  ASSUME NEW s, WellFormed(s), NEW x \in {0, 1},
         s.head + 1 <= s.capacity, FieldAt(s.buffer, s.head, x, 1)
  PROVE  Unsigned(Read(s, 1)) = x
<1>1. BitsOf(1, 1) = 1 /\ (1 + 7) \div 8 = 1
  BY DEF BitsOf
<1>2. s.head \in Nat /\ s = [buffer |-> s.buffer, head |-> s.head, capacity |-> s.capacity]
  BY DEF WellFormed, Streams!WellFormed
<1>3. [s EXCEPT !.head = @ + 8 * (1 - 1)] = s
  BY <1>2
<1>4. DOMAIN Read(s, 1) = {1} /\ Read(s, 1)[1] = ReadBits(s, 1)
  BY <1>1, <1>3 DEF Read
<1>5. BitAt(s.buffer, s.head + 8 * (1 - 1) + 0) = Bytes(x, 1)[1][0]
  BY <1>1 DEF FieldAt
<1>6. Bytes(x, 1)[1][0] = x
  BY DEF Bytes, Digit, Place
<1>7. BitAt(s.buffer, s.head) = x
  BY <1>2, <1>5, <1>6
<1>8. /\ ReadBits(s, 1)[0] = x
      /\ \A i \in 1 .. 7 : ReadBits(s, 1)[i] = 0
  <2>1. ReadBits(s, 1)[0] = BitAt(s.buffer, s.head + 0)
    BY ReadBitsReturns
  <2> QED BY <1>2, <1>7, <2>1, ReadBitsReturns
<1>9. ByteValue(ReadBits(s, 1)) = x
  BY <1>8 DEF ByteValue
<1>10. Digit[1] = 1
  BY DEF Digit
<1> QED BY <1>4, <1>9, <1>10 DEF Unsigned

---------------------------------------------------------------------------
(* The calls that a packet comes to *)

Call == [inData : Byte, inBitCount : 1 .. 8]

\* Behind the first k calls stand those of a field.
FieldIn(calls, k, x, width) ==
  /\ k + (width + 7) \div 8 <= Len(calls)
  /\ \A j \in 1 .. (width + 7) \div 8 :
       calls[k + j] = [inData |-> Bytes(x, (width + 7) \div 8)[j], inBitCount |-> BitsOf(width, j)]

LEMMA FieldIsCalls ==
  ASSUME NEW x \in Int, NEW width \in {1, 8, 16, 32}
  PROVE  /\ Field(x, width) \in Seq(Call) /\ Len(Field(x, width)) = (width + 7) \div 8
         /\ FieldIn(Field(x, width), 0, x, width)
<1> DEFINE count == (width + 7) \div 8
<1>1. count \in {1, 2, 4}
  OBVIOUS
<1>2. Bytes(x, count) \in [1 .. count -> Byte]
  BY <1>1, BytesAreBytes
<1>3. \A j \in 1 .. count : BitsOf(width, j) \in 1 .. 8
  BY DEF BitsOf
<1>4. Field(x, width) =
        [j \in 1 .. count |-> [inData |-> Bytes(x, count)[j], inBitCount |-> BitsOf(width, j)]]
  BY <1>2 DEF Field
<1> HIDE DEF count
<1>5. Field(x, width) \in [1 .. count -> Call]
  BY <1>2, <1>3, <1>4 DEF Call
<1>6. Field(x, width) \in Seq(Call) /\ Len(Field(x, width)) = count
  BY <1>1, <1>5
<1>7. \A j \in 1 .. count : 0 + j = j
  BY <1>1
<1> QED BY <1>1, <1>4, <1>6, <1>7 DEF FieldIn, count

(* Fields stay where they are when calls are put behind them, and move when  *)
(* calls are put in front.                                                   *)
LEMMA JoinedCalls ==
  ASSUME NEW s \in Seq(Call), NEW t \in Seq(Call)
  PROVE  /\ s \o t \in Seq(Call) /\ Len(s \o t) = Len(s) + Len(t)
         /\ \A i \in 1 .. Len(s) : (s \o t)[i] = s[i]
         /\ \A i \in 1 .. Len(t) : (s \o t)[Len(s) + i] = t[i]
         /\ Len(s) \in Nat /\ Len(t) \in Nat
  OBVIOUS

LEMMA FieldInFront ==
  ASSUME NEW s \in Seq(Call), NEW t \in Seq(Call), NEW k \in Nat, NEW x,
         NEW width \in {1, 8, 16, 32}, FieldIn(s, k, x, width)
  PROVE  FieldIn(s \o t, k, x, width)
<1>1. (width + 7) \div 8 \in {1, 2, 4}
  OBVIOUS
<1> QED BY <1>1, JoinedCalls DEF FieldIn

LEMMA FieldBehind ==
  ASSUME NEW s \in Seq(Call), NEW t \in Seq(Call), NEW k \in Nat, NEW x,
         NEW width \in {1, 8, 16, 32}, FieldIn(t, k, x, width)
  PROVE  FieldIn(s \o t, Len(s) + k, x, width)
<1>1. PICK count : count = (width + 7) \div 8 /\ count \in {1, 2, 4}
  OBVIOUS
<1>2. k + count <= Len(t)
  BY <1>1 DEF FieldIn
<1>3. ASSUME NEW j \in 1 .. count PROVE (s \o t)[Len(s) + k + j] = t[k + j]
  <2>1. k + j \in 1 .. Len(t) /\ Len(s) + k + j = Len(s) + (k + j)
    BY <1>1, <1>2, JoinedCalls
  <2> QED BY <2>1, JoinedCalls
<1>4. Len(s) + k + count <= Len(s \o t)
  BY <1>1, <1>2, JoinedCalls
<1> QED BY <1>1, <1>3, <1>4 DEF FieldIn

\* What a message is, by its type.
IsHello(m) ==
  /\ m.name \in Names
  /\ m = [type |-> HelloPacketId, name |-> m.name, playerId |-> -1, sequenceNumber |-> 0,
          ack |-> NoAckData]
IsOfPlayer(m) ==
  /\ m.type \in {WelcomePacketId, WinPacketId} /\ m.playerId \in PlayerIds
  /\ m = [type |-> m.type, name |-> <<>>, playerId |-> m.playerId, sequenceNumber |-> 0,
          ack |-> NoAckData]
IsState(m) ==
  /\ m.sequenceNumber \in SequenceNumbers
  /\ \/ m.ack = NoAckData
     \/ m.ack = Ranges!EmptyRange
     \/ /\ m.ack.start \in SequenceNumbers /\ m.ack.count \in Counts \ {0}
        /\ m.ack = [start |-> m.ack.start, count |-> m.ack.count]
  /\ m = [type |-> StatePacketId, name |-> <<>>, playerId |-> -1,
          sequenceNumber |-> m.sequenceNumber, ack |-> m.ack]

LEMMA MessageKinds ==
  ASSUME NEW m \in Message
  PROVE  IsHello(m) \/ IsOfPlayer(m) \/ IsState(m)
<1>1. ASSUME NEW name \in Names, m = HelloPacket(name) PROVE IsHello(m)
  BY <1>1 DEF HelloPacket, Blank, IsHello
<1>2. ASSUME NEW type \in {WelcomePacketId, WinPacketId}, NEW id \in PlayerIds,
             m = PlayerPacket(type, id)
      PROVE  IsOfPlayer(m)
  BY <1>2 DEF PlayerPacket, Blank, IsOfPlayer
<1>3. ASSUME NEW s \in SequenceNumbers, NEW range \in AckRange \cup {NoAckData},
             m = StatePacket(s, range)
      PROVE  IsState(m)
  <2>1. m.ack = range /\ m.sequenceNumber = s
        /\ m = [type |-> StatePacketId, name |-> <<>>, playerId |-> -1,
                sequenceNumber |-> s, ack |-> range]
    BY <1>3 DEF StatePacket, Blank
  <2>2. \/ range = NoAckData
        \/ range = Ranges!EmptyRange
        \/ /\ range.start \in SequenceNumbers /\ range.count \in Counts \ {0}
           /\ range = [start |-> range.start, count |-> range.count]
    BY DEF AckRange
  <2> QED BY <2>1, <2>2 DEF IsState
<1> QED BY <1>1, <1>2, <1>3 DEF Message

LEMMA HelloCalls ==
  ASSUME NEW m, IsHello(m)
  PROVE  /\ m.type = HelloPacketId /\ Len(m.name) \in Nat
         /\ FieldsOf(m) \in Seq(Call) /\ Len(FieldsOf(m)) = 8 + Len(m.name)
         /\ FieldIn(FieldsOf(m), 0, HelloPacketId, 32)
         /\ FieldIn(FieldsOf(m), 4, Len(m.name), 32)
         /\ \A i \in 1 .. Len(m.name) : FieldIn(FieldsOf(m), 7 + i, m.name[i], 8)
<1>1. m.type = HelloPacketId
  BY DEF IsHello
<1>2. m.name \in Seq(Char) /\ Len(m.name) \in Nat
  BY EncodingAssumption DEF IsHello
<1>3. PICK name : name = m.name
  OBVIOUS
<1>4. PICK type : type = Field(HelloPacketId, 32)
  OBVIOUS
<1>5. PICK elementCount : elementCount = Field(Len(name), 32)
  OBVIOUS
<1>6. PICK elements : elements = [i \in 1 .. Len(name) |-> Field(name[i], 8)[1]]
  OBVIOUS
<1>7. /\ type \in Seq(Call) /\ Len(type) = 4 /\ FieldIn(type, 0, HelloPacketId, 32)
      /\ elementCount \in Seq(Call) /\ Len(elementCount) = 4
      /\ FieldIn(elementCount, 0, Len(name), 32)
  <2>1. HelloPacketId \in Int
    BY DEF HelloPacketId
  <2>2. Len(name) \in Int /\ (32 + 7) \div 8 = 4
    BY <1>2, <1>3
  <2> QED BY <1>4, <1>5, <2>1, <2>2, FieldIsCalls
<1>8. ASSUME NEW i \in 1 .. Len(name)
      PROVE  /\ Field(name[i], 8)[1] \in Call
             /\ Field(name[i], 8)[1] = [inData |-> Bytes(name[i], 1)[1], inBitCount |-> BitsOf(8, 1)]
  <2>0. name[i] \in Char
    BY <1>2, <1>3
  <2>1. name[i] \in Int
    BY <2>0 DEF Char
  <2>2. (8 + 7) \div 8 = 1 /\ 0 + 1 = 1
    OBVIOUS
  <2>3. Field(name[i], 8) \in Seq(Call) /\ Len(Field(name[i], 8)) = 1
    BY <2>1, <2>2, FieldIsCalls
  <2>4. FieldIn(Field(name[i], 8), 0, name[i], 8)
    BY <2>1, FieldIsCalls
  <2> QED BY <2>2, <2>3, <2>4 DEF FieldIn
<1>9. elements \in Seq(Call) /\ Len(elements) = Len(name)
      /\ \A i \in 1 .. Len(name) : elements[i] = Field(name[i], 8)[1]
  <2>1. elements \in [1 .. Len(name) -> Call]
    BY <1>6, <1>8
  <2>2. Len(name) \in Nat
    BY <1>2, <1>3
  <2> QED BY <1>6, <2>1, <2>2
<1>10. \A i \in 1 .. Len(name) : FieldIn(elements, i - 1, name[i], 8)
  <2> SUFFICES ASSUME NEW i \in 1 .. Len(name) PROVE FieldIn(elements, i - 1, name[i], 8)
    OBVIOUS
  <2>1. (8 + 7) \div 8 = 1 /\ i - 1 + 1 = i
    OBVIOUS
  <2>2. elements[i] = [inData |-> Bytes(name[i], 1)[1], inBitCount |-> BitsOf(8, 1)]
    BY <1>8, <1>9
  <2>3. i <= Len(elements)
    BY <1>2, <1>3, <1>9
  <2> QED BY <2>1, <2>2, <2>3 DEF FieldIn
<1>11. PICK string : string = elementCount \o elements
  OBVIOUS
<1>12. /\ string \in Seq(Call) /\ Len(string) = 4 + Len(name)
       /\ FieldIn(string, 0, Len(name), 32)
       /\ \A i \in 1 .. Len(name) : FieldIn(string, 4 + (i - 1), name[i], 8)
  <2>1. string \in Seq(Call) /\ Len(string) = 4 + Len(name)
    <3>1. /\ elementCount \o elements \in Seq(Call)
          /\ Len(elementCount \o elements) = Len(elementCount) + Len(elements)
      BY <1>7, <1>9, JoinedCalls
    <3> QED BY <1>7, <1>9, <1>11, <3>1
  <2>2. FieldIn(string, 0, Len(name), 32)
    BY <1>7, <1>9, <1>11, FieldInFront
  <2>3. ASSUME NEW i \in 1 .. Len(name) PROVE FieldIn(string, 4 + (i - 1), name[i], 8)
    <3>1. i - 1 \in Nat
      BY <1>2, <1>3
    <3> QED BY <1>7, <1>9, <1>10, <1>11, <3>1, FieldBehind
  <2> QED BY <2>1, <2>2, <2>3
<1>13. FieldsOf(m) = type \o string
  <2>1. WriteString(m.name) = string
    BY <1>3, <1>5, <1>6, <1>11 DEF WriteString
  <2>2. FieldsOf(m) = Field(m.type, 32) \o WriteString(m.name)
    BY <1>1 DEF FieldsOf, HelloPacketId, WelcomePacketId, WinPacketId, StatePacketId
  <2> QED BY <1>1, <1>4, <2>1, <2>2
<1>14. FieldsOf(m) \in Seq(Call) /\ Len(FieldsOf(m)) = 8 + Len(name)
  <2>1. FieldsOf(m) \in Seq(Call) /\ Len(FieldsOf(m)) = 4 + (4 + Len(name))
    <3>1. type \o string \in Seq(Call) /\ Len(type \o string) = Len(type) + Len(string)
      BY <1>7, <1>12, JoinedCalls
    <3> QED BY <1>7, <1>12, <1>13, <3>1
  <2> QED BY <1>2, <1>3, <2>1
<1>15. FieldIn(FieldsOf(m), 0, HelloPacketId, 32)
  BY <1>7, <1>12, <1>13, FieldInFront
<1>16. FieldIn(FieldsOf(m), 4, Len(name), 32)
  <2>1. FieldIn(FieldsOf(m), 4 + 0, Len(name), 32)
    BY <1>7, <1>12, <1>13, FieldBehind
  <2> QED BY <2>1
<1>17. ASSUME NEW i \in 1 .. Len(name) PROVE FieldIn(FieldsOf(m), 7 + i, name[i], 8)
  <2>1. 4 + (i - 1) \in Nat /\ 4 + (4 + (i - 1)) = 7 + i
    BY <1>2, <1>3
  <2>2. FieldIn(FieldsOf(m), 4 + (4 + (i - 1)), name[i], 8)
    BY <1>7, <1>12, <1>13, <2>1, FieldBehind
  <2> QED BY <2>1, <2>2
<1> QED BY <1>1, <1>2, <1>3, <1>14, <1>15, <1>16, <1>17

LEMMA PlayerCalls ==
  ASSUME NEW m, IsOfPlayer(m)
  PROVE  /\ FieldsOf(m) \in Seq(Call) /\ Len(FieldsOf(m)) = 8
         /\ FieldIn(FieldsOf(m), 0, m.type, 32)
         /\ FieldIn(FieldsOf(m), 4, m.playerId, 32)
<1>1. m.type \in Int /\ m.playerId \in Int
  BY EncodingAssumption DEF IsOfPlayer, WelcomePacketId, WinPacketId, Int32
<1>2. FieldsOf(m) = Field(m.type, 32) \o Field(m.playerId, 32)
  BY DEF IsOfPlayer, FieldsOf, HelloPacketId, WelcomePacketId, WinPacketId, StatePacketId
<1>3. (32 + 7) \div 8 = 4
  OBVIOUS
<1>4. PICK type : type = Field(m.type, 32)
  OBVIOUS
<1>5. PICK playerId : playerId = Field(m.playerId, 32)
  OBVIOUS
<1>6. type \in Seq(Call) /\ Len(type) = 4 /\ FieldIn(type, 0, m.type, 32)
  BY <1>1, <1>3, <1>4, FieldIsCalls
<1>7. playerId \in Seq(Call) /\ Len(playerId) = 4 /\ FieldIn(playerId, 0, m.playerId, 32)
  BY <1>1, <1>3, <1>5, FieldIsCalls
<1>8. type \o playerId \in Seq(Call) /\ Len(type \o playerId) = Len(type) + Len(playerId)
  BY <1>6, <1>7, JoinedCalls
<1>9. FieldIn(type \o playerId, 0, m.type, 32)
  BY <1>6, <1>7, FieldInFront
<1>10. FieldIn(type \o playerId, 4 + 0, m.playerId, 32)
  BY <1>6, <1>7, FieldBehind
<1>11. FieldsOf(m) = type \o playerId /\ 4 + 0 = 4
  BY <1>2, <1>4, <1>5
<1> QED BY <1>6, <1>7, <1>8, <1>9, <1>10, <1>11

\* The byte that the count of a range is stored in.
CountToAck(range) == IF range.count - 1 > 255 THEN 255 ELSE range.count - 1

LEMMA AckRangeCalls ==
  ASSUME NEW range, range.start \in SequenceNumbers, range.count \in Nat \ {0},
         NEW calls, calls = WriteAckRange(range)
  PROVE  /\ calls \in Seq(Call) /\ Len(calls) = IF range.count > 1 THEN 4 ELSE 3
         /\ FieldIn(calls, 0, range.start, 16)
         /\ FieldIn(calls, 2, IF range.count > 1 THEN 1 ELSE 0, 1)
         /\ range.count > 1 => FieldIn(calls, 3, CountToAck(range), 8)
<1> DEFINE hasCount == IF range.count > 1 THEN 1 ELSE 0
<1>1. range.start \in Int /\ hasCount \in Int
  BY EncodingAssumption
<1>2. (16 + 7) \div 8 = 2 /\ (1 + 7) \div 8 = 1 /\ (8 + 7) \div 8 = 1
  OBVIOUS
<1>3. PICK start : start = Field(range.start, 16)
  OBVIOUS
<1>4. PICK flag : flag = Field(hasCount, 1)
  OBVIOUS
<1>5. start \in Seq(Call) /\ Len(start) = 2 /\ FieldIn(start, 0, range.start, 16)
  BY <1>1, <1>2, <1>3, FieldIsCalls
<1> HIDE DEF hasCount
<1>6. flag \in Seq(Call) /\ Len(flag) = 1 /\ FieldIn(flag, 0, hasCount, 1)
  BY <1>1, <1>2, <1>4, FieldIsCalls
<1>7. PICK both : both = start \o flag
  OBVIOUS
<1>8. /\ both \in Seq(Call) /\ Len(both) = 3
      /\ FieldIn(both, 0, range.start, 16) /\ FieldIn(both, 2, hasCount, 1)
  <2>1. start \o flag \in Seq(Call) /\ Len(start \o flag) = Len(start) + Len(flag)
    BY <1>5, <1>6, JoinedCalls
  <2>2. FieldIn(start \o flag, 0, range.start, 16)
    BY <1>5, <1>6, FieldInFront
  <2>3. FieldIn(start \o flag, 2 + 0, hasCount, 1)
    BY <1>5, <1>6, FieldBehind
  <2> QED BY <1>5, <1>6, <1>7, <2>1, <2>2, <2>3
<1>9. CASE range.count > 1
  <2>1. PICK count : count = Field(CountToAck(range), 8)
    OBVIOUS
  <2>2. CountToAck(range) \in Int
    BY DEF CountToAck
  <2>3. count \in Seq(Call) /\ Len(count) = 1 /\ FieldIn(count, 0, CountToAck(range), 8)
    BY <1>2, <2>1, <2>2, FieldIsCalls
  <2>4. calls = both \o count
    BY <1>3, <1>4, <1>7, <1>9, <2>1 DEF WriteAckRange, CountToAck, hasCount
  <2>5. both \o count \in Seq(Call) /\ Len(both \o count) = Len(both) + Len(count)
    BY <1>8, <2>3, JoinedCalls
  <2>6. FieldIn(both \o count, 0, range.start, 16) /\ FieldIn(both \o count, 2, hasCount, 1)
    BY <1>8, <2>3, FieldInFront
  <2>7. FieldIn(both \o count, 3 + 0, CountToAck(range), 8)
    BY <1>8, <2>3, FieldBehind
  <2> QED BY <1>8, <1>9, <2>3, <2>4, <2>5, <2>6, <2>7 DEF hasCount
<1>10. CASE ~(range.count > 1)
  <2>1. calls = both \o <<>>
    BY <1>3, <1>4, <1>7, <1>10 DEF WriteAckRange, hasCount
  <2>2. calls = both
    BY <1>8, <2>1
  <2> QED BY <1>8, <1>10, <2>2 DEF hasCount
<1> QED BY <1>9, <1>10

LEMMA AckDataCalls ==
  ASSUME NEW range, NEW calls, calls = WriteAckData(range), range.count \in Nat,
         range.count > 0 => range.start \in SequenceNumbers
  PROVE  /\ calls \in Seq(Call)
         /\ Len(calls) = IF range.count > 1 THEN 5 ELSE IF range.count = 1 THEN 4 ELSE 1
         /\ FieldIn(calls, 0, IF range.count > 0 THEN 1 ELSE 0, 1)
         /\ range.count > 0 => /\ FieldIn(calls, 1, range.start, 16)
                               /\ FieldIn(calls, 3, IF range.count > 1 THEN 1 ELSE 0, 1)
         /\ range.count > 1 => FieldIn(calls, 4, CountToAck(range), 8)
<1> DEFINE hasAcks == IF range.count > 0 THEN 1 ELSE 0
           hasCount == IF range.count > 1 THEN 1 ELSE 0
<1>1. hasAcks \in Int /\ (1 + 7) \div 8 = 1
  OBVIOUS
<1>2. PICK flag : flag = Field(hasAcks, 1)
  OBVIOUS
<1>3. PICK acks : acks = IF range.count > 0 THEN WriteAckRange(range) ELSE <<>>
  OBVIOUS
<1>4. calls = flag \o acks
  BY <1>2, <1>3 DEF WriteAckData
<1> HIDE DEF hasAcks, hasCount
<1>5. flag \in Seq(Call) /\ Len(flag) = 1 /\ FieldIn(flag, 0, hasAcks, 1)
  BY <1>1, <1>2, FieldIsCalls
<1>6. /\ acks \in Seq(Call)
      /\ Len(acks) = IF range.count > 1 THEN 4 ELSE IF range.count = 1 THEN 3 ELSE 0
      /\ range.count > 0 => FieldIn(acks, 0, range.start, 16) /\ FieldIn(acks, 2, hasCount, 1)
      /\ range.count > 1 => FieldIn(acks, 3, CountToAck(range), 8)
  <2>1. CASE range.count > 0
    <3>1. acks = WriteAckRange(range) /\ range.count \in Nat \ {0}
      BY <1>3, <2>1
    <3>2. /\ acks \in Seq(Call) /\ Len(acks) = IF range.count > 1 THEN 4 ELSE 3
          /\ FieldIn(acks, 0, range.start, 16)
          /\ FieldIn(acks, 2, IF range.count > 1 THEN 1 ELSE 0, 1)
          /\ range.count > 1 => FieldIn(acks, 3, CountToAck(range), 8)
      BY <2>1, <3>1, AckRangeCalls
    <3>3. range.count > 1 \/ range.count = 1
      BY <3>1
    <3> QED BY <3>2, <3>3 DEF hasCount
  <2>2. CASE ~(range.count > 0)
    BY <1>3, <2>2
  <2> QED BY <2>1, <2>2
<1>7. flag \o acks \in Seq(Call) /\ Len(flag \o acks) = Len(flag) + Len(acks)
  BY <1>5, <1>6, JoinedCalls
<1>8. FieldIn(flag \o acks, 0, hasAcks, 1)
  BY <1>5, <1>6, FieldInFront
<1>9. range.count > 0 =>
        FieldIn(flag \o acks, 1 + 0, range.start, 16) /\ FieldIn(flag \o acks, 1 + 2, hasCount, 1)
  BY <1>5, <1>6, FieldBehind
<1>10. range.count > 1 => FieldIn(flag \o acks, 1 + 3, CountToAck(range), 8)
  BY <1>5, <1>6, FieldBehind
<1>11. Len(calls) = IF range.count > 1 THEN 5 ELSE IF range.count = 1 THEN 4 ELSE 1
  BY <1>4, <1>5, <1>6, <1>7
<1> QED BY <1>4, <1>7, <1>8, <1>9, <1>10, <1>11 DEF hasAcks, hasCount

\* The calls of a state packet, by what it acknowledges.
StateLen(ack) ==
  IF ack = NoAckData THEN 6 ELSE IF ack.count > 1 THEN 11 ELSE IF ack.count = 1 THEN 10 ELSE 7

LEMMA StateCalls ==
  ASSUME NEW m, IsState(m)
  PROVE  /\ m.ack.count \in Nat /\ (m.ack.count > 0 => m.ack # NoAckData)
         /\ FieldsOf(m) \in Seq(Call) /\ Len(FieldsOf(m)) = StateLen(m.ack)
         /\ FieldIn(FieldsOf(m), 0, StatePacketId, 32)
         /\ FieldIn(FieldsOf(m), 4, m.sequenceNumber, 16)
         /\ m.ack # NoAckData => FieldIn(FieldsOf(m), 6, IF m.ack.count > 0 THEN 1 ELSE 0, 1)
         /\ m.ack.count > 0 => /\ FieldIn(FieldsOf(m), 7, m.ack.start, 16)
                               /\ FieldIn(FieldsOf(m), 9, IF m.ack.count > 1 THEN 1 ELSE 0, 1)
         /\ m.ack.count > 1 => FieldIn(FieldsOf(m), 10, CountToAck(m.ack), 8)
<1> DEFINE hasAcks == IF m.ack.count > 0 THEN 1 ELSE 0
           hasCount == IF m.ack.count > 1 THEN 1 ELSE 0
<1>1. /\ m.ack.count \in Nat /\ (m.ack.count > 0 => m.ack.start \in SequenceNumbers)
      /\ (m.ack.count > 0 => m.ack # NoAckData)
  BY EncodingAssumption DEF IsState, Ranges!EmptyRange, NoAckData
<1>2. m.sequenceNumber \in Int /\ StatePacketId \in Int
  BY EncodingAssumption DEF IsState, StatePacketId
<1>3. (32 + 7) \div 8 = 4 /\ (16 + 7) \div 8 = 2
  OBVIOUS
<1>4. PICK type : type = Field(StatePacketId, 32)
  OBVIOUS
<1>5. PICK number : number = Field(m.sequenceNumber, 16)
  OBVIOUS
<1>6. PICK acks : acks = IF m.ack = NoAckData THEN <<>> ELSE WriteAckData(m.ack)
  OBVIOUS
<1> HIDE DEF hasAcks, hasCount
<1>7. type \in Seq(Call) /\ Len(type) = 4 /\ FieldIn(type, 0, StatePacketId, 32)
  BY <1>2, <1>3, <1>4, FieldIsCalls
<1>8. number \in Seq(Call) /\ Len(number) = 2 /\ FieldIn(number, 0, m.sequenceNumber, 16)
  BY <1>2, <1>3, <1>5, FieldIsCalls
<1>9. /\ acks \in Seq(Call) /\ Len(acks) = StateLen(m.ack) - 6
      /\ m.ack # NoAckData => FieldIn(acks, 0, hasAcks, 1)
      /\ m.ack.count > 0 => FieldIn(acks, 1, m.ack.start, 16) /\ FieldIn(acks, 3, hasCount, 1)
      /\ m.ack.count > 1 => FieldIn(acks, 4, CountToAck(m.ack), 8)
  <2>1. CASE m.ack = NoAckData
    BY <1>1, <1>6, <2>1 DEF StateLen
  <2>2. CASE m.ack # NoAckData
    <3>1. PICK range : range = m.ack
      OBVIOUS
    <3>2. acks = WriteAckData(range) /\ range.count \in Nat
          /\ (range.count > 0 => range.start \in SequenceNumbers)
      BY <1>1, <1>6, <2>2, <3>1
    <3>3. /\ acks \in Seq(Call)
          /\ Len(acks) = IF range.count > 1 THEN 5 ELSE IF range.count = 1 THEN 4 ELSE 1
          /\ FieldIn(acks, 0, IF range.count > 0 THEN 1 ELSE 0, 1)
          /\ range.count > 0 => /\ FieldIn(acks, 1, range.start, 16)
                                /\ FieldIn(acks, 3, IF range.count > 1 THEN 1 ELSE 0, 1)
          /\ range.count > 1 => FieldIn(acks, 4, CountToAck(range), 8)
      BY <3>2, AckDataCalls
    <3>4. Len(acks) = StateLen(range) - 6
      BY <2>2, <3>1, <3>3 DEF StateLen
    <3> QED BY <3>1, <3>3, <3>4 DEF hasAcks, hasCount
  <2> QED BY <2>1, <2>2
<1>10. PICK state : state = number \o acks
  OBVIOUS
<1>11. Len(acks) \in Nat
  BY <1>9
<1>12. /\ state \in Seq(Call) /\ Len(state) = 2 + Len(acks)
       /\ FieldIn(state, 0, m.sequenceNumber, 16)
       /\ m.ack # NoAckData => FieldIn(state, 2, hasAcks, 1)
       /\ m.ack.count > 0 => FieldIn(state, 3, m.ack.start, 16) /\ FieldIn(state, 5, hasCount, 1)
       /\ m.ack.count > 1 => FieldIn(state, 6, CountToAck(m.ack), 8)
  <2>1. number \o acks \in Seq(Call) /\ Len(number \o acks) = Len(number) + Len(acks)
    BY <1>8, <1>9, JoinedCalls
  <2>2. FieldIn(number \o acks, 0, m.sequenceNumber, 16)
    BY <1>8, <1>9, FieldInFront
  <2>3. m.ack # NoAckData => FieldIn(number \o acks, 2 + 0, hasAcks, 1)
    BY <1>8, <1>9, FieldBehind
  <2>4. m.ack.count > 0 =>
          FieldIn(number \o acks, 2 + 1, m.ack.start, 16) /\ FieldIn(number \o acks, 2 + 3, hasCount, 1)
    BY <1>8, <1>9, FieldBehind
  <2>5. m.ack.count > 1 => FieldIn(number \o acks, 2 + 4, CountToAck(m.ack), 8)
    BY <1>8, <1>9, FieldBehind
  <2> QED BY <1>8, <1>10, <2>1, <2>2, <2>3, <2>4, <2>5
<1>13. FieldsOf(m) = type \o state
  <2>1. WriteState(m.sequenceNumber, m.ack) = state
    BY <1>5, <1>6, <1>10 DEF WriteState
  <2>2. m.type = StatePacketId
    BY DEF IsState
  <2>3. FieldsOf(m) = Field(m.type, 32) \o WriteState(m.sequenceNumber, m.ack)
    BY <2>2 DEF FieldsOf, HelloPacketId, WelcomePacketId, WinPacketId, StatePacketId
  <2> QED BY <1>4, <2>1, <2>2, <2>3
<1>14. type \o state \in Seq(Call) /\ Len(type \o state) = Len(type) + Len(state)
  BY <1>7, <1>12, JoinedCalls
<1>15. FieldIn(type \o state, 0, StatePacketId, 32)
  BY <1>7, <1>12, FieldInFront
<1>16. /\ FieldIn(type \o state, 4 + 0, m.sequenceNumber, 16)
       /\ m.ack # NoAckData => FieldIn(type \o state, 4 + 2, hasAcks, 1)
  BY <1>7, <1>12, FieldBehind
<1>17. m.ack.count > 0 => /\ FieldIn(type \o state, 4 + 3, m.ack.start, 16)
                          /\ FieldIn(type \o state, 4 + 5, hasCount, 1)
  BY <1>7, <1>12, FieldBehind
<1>18. m.ack.count > 1 => FieldIn(type \o state, 4 + 6, CountToAck(m.ack), 8)
  BY <1>7, <1>12, FieldBehind
<1>19. Len(FieldsOf(m)) = StateLen(m.ack)
  <2>1. PICK l : l = StateLen(m.ack) /\ l \in Int
    BY DEF StateLen
  <2> QED BY <1>7, <1>9, <1>12, <1>13, <1>14, <2>1
<1> QED BY <1>1, <1>13, <1>14, <1>15, <1>16, <1>17, <1>18, <1>19 DEF hasAcks, hasCount

---------------------------------------------------------------------------
(* Where the calls put their bits *)

\* The bits in front of call i: eight for every call but a flag.
FlagsBefore(m, i) ==
  IF m.type = StatePacketId
  THEN (IF i > 7 THEN 1 ELSE 0) + (IF i > 10 THEN 1 ELSE 0)
  ELSE 0
Position(m, i) == 8 * (i - 1) - 7 * FlagsBefore(m, i)
Total(m) == Position(m, Len(FieldsOf(m)) + 1)

\* The bits of the first n calls stand in the buffer.
InBuffer(m, n, buffer) ==
  \A i \in 1 .. n, b \in 0 .. 7 : b < FieldsOf(m)[i].inBitCount =>
    BitAt(buffer, Position(m, i) + b) = FieldsOf(m)[i].inData[b]

(* The calls of a field, and the positions that they need.                   *)
LEMMA FieldStands ==
  ASSUME NEW m, NEW buffer, InBuffer(m, Len(FieldsOf(m)), buffer), Len(FieldsOf(m)) \in Nat,
         NEW k \in Nat, NEW x, NEW width \in {1, 8, 16, 32}, FieldIn(FieldsOf(m), k, x, width),
         NEW at \in Nat,
         \A j \in 1 .. (width + 7) \div 8 : Position(m, k + j) = at + 8 * (j - 1)
  PROVE  FieldAt(buffer, at, x, width)
<1>1. PICK count : count = (width + 7) \div 8 /\ count \in {1, 2, 4}
  OBVIOUS
<1> SUFFICES ASSUME NEW j \in 1 .. count, NEW i \in 0 .. 7, i < BitsOf(width, j)
             PROVE  BitAt(buffer, at + 8 * (j - 1) + i) = Bytes(x, count)[j][i]
  BY <1>1 DEF FieldAt
<1>2. k + j \in 1 .. Len(FieldsOf(m))
  BY <1>1 DEF FieldIn
<1>3. FieldsOf(m)[k + j] = [inData |-> Bytes(x, count)[j], inBitCount |-> BitsOf(width, j)]
  BY <1>1 DEF FieldIn
<1>4. BitAt(buffer, Position(m, k + j) + i) = Bytes(x, count)[j][i]
  BY <1>2, <1>3 DEF InBuffer
<1> QED BY <1>1, <1>4

LEMMA CallOfField ==
  ASSUME NEW calls, NEW k, NEW x, NEW width \in {1, 8, 16, 32}, FieldIn(calls, k, x, width)
  PROVE  \A j \in 1 .. (width + 7) \div 8 :
           calls[k + j].inBitCount = IF width = 1 THEN 1 ELSE 8
<1> SUFFICES ASSUME NEW j \in 1 .. (width + 7) \div 8
             PROVE  calls[k + j].inBitCount = IF width = 1 THEN 1 ELSE 8
  OBVIOUS
<1>0. calls[k + j] =
        [inData |-> Bytes(x, (width + 7) \div 8)[j], inBitCount |-> BitsOf(width, j)]
  BY DEF FieldIn
<1>1. calls[k + j].inBitCount = BitsOf(width, j)
  BY <1>0
<1> QED BY <1>1 DEF BitsOf

(* The bit counts of the calls.                                              *)
LEMMA BitCounts ==
  ASSUME NEW m \in Message, NEW i \in 1 .. Len(FieldsOf(m))
  PROVE  FieldsOf(m)[i].inBitCount = IF m.type = StatePacketId /\ i \in {7, 10} THEN 1 ELSE 8
<1>0. /\ (32 + 7) \div 8 = 4 /\ (16 + 7) \div 8 = 2 /\ (8 + 7) \div 8 = 1 /\ (1 + 7) \div 8 = 1
  OBVIOUS
<1>1. CASE IsHello(m)
  <2>1. m.type # StatePacketId
    BY <1>1 DEF IsHello, HelloPacketId, StatePacketId
  <2>2. Len(FieldsOf(m)) = 8 + Len(m.name) /\ Len(m.name) \in Nat
    BY <1>1, HelloCalls
  <2>3. CASE i \in 1 .. 4
    <3>1. FieldsOf(m)[0 + i].inBitCount = 8
      BY <1>0, <1>1, <2>3, HelloCalls, CallOfField
    <3> QED BY <2>1, <3>1
  <2>4. CASE i \in 5 .. 8
    <3>1. i - 4 \in 1 .. 4 /\ 4 + (i - 4) = i
      BY <2>4
    <3>2. FieldsOf(m)[4 + (i - 4)].inBitCount = 8
      BY <1>0, <1>1, <3>1, HelloCalls, CallOfField
    <3> QED BY <2>1, <3>1, <3>2
  <2>5. CASE i > 8
    <3>1. i - 8 \in 1 .. Len(m.name) /\ (7 + (i - 8)) + 1 = i
      BY <2>2, <2>5
    <3>2. FieldIn(FieldsOf(m), 7 + (i - 8), m.name[i - 8], 8)
      BY <1>1, <3>1, HelloCalls
    <3>3. FieldsOf(m)[(7 + (i - 8)) + 1].inBitCount = 8
      BY <1>0, <3>2, CallOfField
    <3> QED BY <2>1, <3>1, <3>3
  <2> QED BY <2>2, <2>3, <2>4, <2>5
<1>2. CASE IsOfPlayer(m)
  <2>1. m.type # StatePacketId
    BY <1>2 DEF IsOfPlayer, WelcomePacketId, WinPacketId, StatePacketId
  <2>2. Len(FieldsOf(m)) = 8
    BY <1>2, PlayerCalls
  <2>3. CASE i \in 1 .. 4
    <3>1. FieldsOf(m)[0 + i].inBitCount = 8
      <4>1. PICK type : type = m.type
        OBVIOUS
      <4>2. FieldIn(FieldsOf(m), 0, type, 32)
        BY <1>2, <4>1, PlayerCalls
      <4> QED BY <1>0, <2>3, <4>2, CallOfField
    <3> QED BY <2>1, <3>1
  <2>4. CASE i \in 5 .. 8
    <3>1. i - 4 \in 1 .. 4 /\ 4 + (i - 4) = i
      BY <2>4
    <3>2. FieldsOf(m)[4 + (i - 4)].inBitCount = 8
      <4>1. PICK playerId : playerId = m.playerId
        OBVIOUS
      <4>2. FieldIn(FieldsOf(m), 4, playerId, 32)
        BY <1>2, <4>1, PlayerCalls
      <4> QED BY <1>0, <3>1, <4>2, CallOfField
    <3> QED BY <2>1, <3>1, <3>2
  <2> QED BY <2>2, <2>3, <2>4
<1>3. CASE IsState(m)
  <2>1. m.type = StatePacketId
    BY <1>3 DEF IsState
  <2>2. PICK calls : calls = FieldsOf(m)
    OBVIOUS
  <2>3. m.ack.count \in Nat /\ Len(calls) = StateLen(m.ack)
    BY <1>3, <2>2, StateCalls
  <2>4. \A j \in 1 .. 4 : calls[0 + j].inBitCount = 8
    BY <1>0, <1>3, <2>2, StateCalls, CallOfField
  <2>5. \A j \in 1 .. 2 : calls[4 + j].inBitCount = 8
    BY <1>0, <1>3, <2>2, StateCalls, CallOfField
  <2>6. m.ack # NoAckData => \A j \in 1 .. 1 : calls[6 + j].inBitCount = 1
    BY <1>0, <1>3, <2>2, StateCalls, CallOfField
  <2>7. m.ack.count > 0 => \A j \in 1 .. 2 : calls[7 + j].inBitCount = 8
    BY <1>0, <1>3, <2>2, StateCalls, CallOfField
  <2>8. m.ack.count > 0 => \A j \in 1 .. 1 : calls[9 + j].inBitCount = 1
    BY <1>0, <1>3, <2>2, StateCalls, CallOfField
  <2>9. m.ack.count > 1 => \A j \in 1 .. 1 : calls[10 + j].inBitCount = 8
    <3>1. m.ack.count > 1 => FieldIn(calls, 10, CountToAck(m.ack), 8)
      BY <1>3, <2>2, StateCalls
    <3> QED BY <1>0, <3>1, CallOfField
  <2>10. /\ calls[1].inBitCount = 8 /\ calls[2].inBitCount = 8
         /\ calls[3].inBitCount = 8 /\ calls[4].inBitCount = 8
         /\ calls[5].inBitCount = 8 /\ calls[6].inBitCount = 8
         /\ m.ack # NoAckData => calls[7].inBitCount = 1
         /\ m.ack.count > 0 => /\ calls[8].inBitCount = 8 /\ calls[9].inBitCount = 8
                               /\ calls[10].inBitCount = 1
         /\ m.ack.count > 1 => calls[11].inBitCount = 8
    BY <2>4, <2>5, <2>6, <2>7, <2>8, <2>9
  <2>11. /\ i \in 1 .. 11 /\ (i > 6 => m.ack # NoAckData)
         /\ (i > 7 => m.ack.count > 0) /\ (i > 10 => m.ack.count > 1)
    BY <2>2, <2>3 DEF StateLen
  <2> QED BY <2>1, <2>2, <2>10, <2>11
<1> QED BY <1>1, <1>2, <1>3, MessageKinds

(* Every call starts where the one before it ended.                          *)
LEMMA Advances ==
  ASSUME NEW m \in Message, NEW i \in 1 .. Len(FieldsOf(m))
  PROVE  /\ FieldsOf(m) \in Seq(Call) /\ Len(FieldsOf(m)) \in Nat /\ FieldsOf(m)[i] \in Call
         /\ Position(m, i) \in Nat
         /\ Position(m, i + 1) = Position(m, i) + FieldsOf(m)[i].inBitCount
<1>1. FieldsOf(m) \in Seq(Call)
  BY MessageKinds, HelloCalls, PlayerCalls, StateCalls
<1>2. Len(FieldsOf(m)) \in Nat /\ i \in Nat /\ i >= 1 /\ FieldsOf(m)[i] \in Call
  BY <1>1
<1>3. CASE m.type = StatePacketId
  <2>1. Len(FieldsOf(m)) \in {6, 7, 10, 11}
    <3>1. IsState(m)
      BY <1>3, MessageKinds
         DEF IsHello, IsOfPlayer, HelloPacketId, WelcomePacketId, WinPacketId, StatePacketId
    <3> QED BY <3>1, StateCalls DEF StateLen
  <2> QED BY <1>1, <1>2, <1>3, BitCounts DEF Position, FlagsBefore
<1>4. CASE m.type # StatePacketId
  BY <1>1, <1>2, <1>4, BitCounts DEF Position, FlagsBefore
<1> QED BY <1>3, <1>4

(* Where the fields of a packet stand once all of its calls are made.        *)
LEMMA HelloStands ==
  ASSUME NEW m, IsHello(m), NEW buffer, InBuffer(m, Len(FieldsOf(m)), buffer)
  PROVE  /\ FieldAt(buffer, 0, HelloPacketId, 32) /\ FieldAt(buffer, 32, Len(m.name), 32)
         /\ \A i \in 1 .. Len(m.name) : FieldAt(buffer, 64 + 8 * (i - 1), m.name[i], 8)
         /\ Total(m) = 64 + 8 * Len(m.name)
<1>1. \A i \in Nat : Position(m, i) = 8 * (i - 1)
  BY HelloCalls DEF Position, FlagsBefore, HelloPacketId, StatePacketId
<1>2. Len(FieldsOf(m)) = 8 + Len(m.name) /\ Len(m.name) \in Nat
  BY HelloCalls
<1>3. (32 + 7) \div 8 = 4 /\ (8 + 7) \div 8 = 1
  OBVIOUS
<1>4. FieldAt(buffer, 0, HelloPacketId, 32)
  <2>1. \A j \in 1 .. 4 : Position(m, 0 + j) = 0 + 8 * (j - 1)
    BY <1>1
  <2> QED BY <1>2, <1>3, <2>1, HelloCalls, FieldStands
<1>5. FieldAt(buffer, 32, Len(m.name), 32)
  <2>1. \A j \in 1 .. 4 : Position(m, 4 + j) = 32 + 8 * (j - 1)
    BY <1>1
  <2> QED BY <1>2, <1>3, <2>1, HelloCalls, FieldStands
<1>6. ASSUME NEW i \in 1 .. Len(m.name) PROVE FieldAt(buffer, 64 + 8 * (i - 1), m.name[i], 8)
  <2>1. \A j \in 1 .. 1 : Position(m, (7 + i) + j) = 64 + 8 * (i - 1) + 8 * (j - 1)
    BY <1>1, <1>2
  <2>2. 7 + i \in Nat /\ 64 + 8 * (i - 1) \in Nat
    BY <1>2
  <2> QED BY <1>2, <1>3, <2>1, <2>2, HelloCalls, FieldStands
<1>7. Total(m) = 64 + 8 * Len(m.name)
  BY <1>1, <1>2 DEF Total
<1> QED BY <1>4, <1>5, <1>6, <1>7

LEMMA PlayerStands ==
  ASSUME NEW m, IsOfPlayer(m), NEW buffer, InBuffer(m, Len(FieldsOf(m)), buffer)
  PROVE  /\ FieldAt(buffer, 0, m.type, 32) /\ FieldAt(buffer, 32, m.playerId, 32)
         /\ Total(m) = 64
<1>1. \A i \in Nat : Position(m, i) = 8 * (i - 1)
  BY DEF IsOfPlayer, Position, FlagsBefore, WelcomePacketId, WinPacketId, StatePacketId
<1>2. Len(FieldsOf(m)) = 8 /\ (32 + 7) \div 8 = 4
  BY PlayerCalls
<1>3. Len(FieldsOf(m)) \in Nat /\ (32 + 7) \div 8 = 4
  BY <1>2
<1>4. FieldAt(buffer, 0, m.type, 32)
  <2>1. \A j \in 1 .. 4 : Position(m, 0 + j) = 0 + 8 * (j - 1)
    BY <1>1
  <2>2. PICK type : type = m.type
    OBVIOUS
  <2>3. FieldIn(FieldsOf(m), 0, type, 32)
    BY <2>2, PlayerCalls
  <2>4. FieldAt(buffer, 0, type, 32)
    BY <1>3, <2>1, <2>3, FieldStands
  <2> QED BY <2>2, <2>4
<1>5. FieldAt(buffer, 32, m.playerId, 32)
  <2>1. \A j \in 1 .. 4 : Position(m, 4 + j) = 32 + 8 * (j - 1)
    BY <1>1
  <2>2. PICK playerId : playerId = m.playerId
    OBVIOUS
  <2>3. FieldIn(FieldsOf(m), 4, playerId, 32)
    BY <2>2, PlayerCalls
  <2>4. FieldAt(buffer, 32, playerId, 32)
    BY <1>3, <2>1, <2>3, FieldStands
  <2> QED BY <2>2, <2>4
<1> QED BY <1>1, <1>2, <1>4, <1>5 DEF Total

\* The bits of a state packet, by what it acknowledges.
StateTotal(ack) ==
  IF ack = NoAckData THEN 48 ELSE IF ack.count > 1 THEN 74 ELSE IF ack.count = 1 THEN 66 ELSE 49

LEMMA StateStands ==
  ASSUME NEW m, IsState(m), NEW buffer, InBuffer(m, Len(FieldsOf(m)), buffer)
  PROVE  /\ FieldAt(buffer, 0, StatePacketId, 32) /\ FieldAt(buffer, 32, m.sequenceNumber, 16)
         /\ m.ack # NoAckData => FieldAt(buffer, 48, IF m.ack.count > 0 THEN 1 ELSE 0, 1)
         /\ m.ack.count > 0 => /\ FieldAt(buffer, 49, m.ack.start, 16)
                               /\ FieldAt(buffer, 65, IF m.ack.count > 1 THEN 1 ELSE 0, 1)
         /\ m.ack.count > 1 => FieldAt(buffer, 66, CountToAck(m.ack), 8)
         /\ m.ack.count \in Nat /\ (m.ack.count > 0 => m.ack # NoAckData)
         /\ Total(m) = StateTotal(m.ack)
<1>1. \A i \in Nat : Position(m, i) =
        8 * (i - 1) - 7 * ((IF i > 7 THEN 1 ELSE 0) + (IF i > 10 THEN 1 ELSE 0))
  BY DEF IsState, Position, FlagsBefore
<1>2. /\ m.ack.count \in Nat /\ (m.ack.count > 0 => m.ack # NoAckData)
      /\ Len(FieldsOf(m)) = StateLen(m.ack)
  BY StateCalls
<1>3. /\ (32 + 7) \div 8 = 4 /\ (16 + 7) \div 8 = 2 /\ (8 + 7) \div 8 = 1 /\ (1 + 7) \div 8 = 1
      /\ Len(FieldsOf(m)) \in Nat
  BY <1>2 DEF StateLen
<1>4. FieldAt(buffer, 0, StatePacketId, 32)
  <2>1. \A j \in 1 .. 4 : Position(m, 0 + j) = 0 + 8 * (j - 1)
    BY <1>1
  <2> QED BY <1>3, <2>1, StateCalls, FieldStands
<1>5. FieldAt(buffer, 32, m.sequenceNumber, 16)
  <2>1. \A j \in 1 .. 2 : Position(m, 4 + j) = 32 + 8 * (j - 1)
    BY <1>1
  <2> QED BY <1>3, <2>1, StateCalls, FieldStands
<1>6. ASSUME m.ack # NoAckData PROVE FieldAt(buffer, 48, IF m.ack.count > 0 THEN 1 ELSE 0, 1)
  <2>1. \A j \in 1 .. 1 : Position(m, 6 + j) = 48 + 8 * (j - 1)
    BY <1>1
  <2>2. PICK flag : flag = IF m.ack.count > 0 THEN 1 ELSE 0
    OBVIOUS
  <2>3. FieldIn(FieldsOf(m), 6, flag, 1)
    BY <1>6, <2>2, StateCalls
  <2> QED BY <1>3, <2>1, <2>2, <2>3, FieldStands
<1>7. ASSUME m.ack.count > 0 PROVE FieldAt(buffer, 49, m.ack.start, 16)
  <2>1. \A j \in 1 .. 2 : Position(m, 7 + j) = 49 + 8 * (j - 1)
    BY <1>1
  <2> QED BY <1>3, <1>7, <2>1, StateCalls, FieldStands
<1>8. ASSUME m.ack.count > 0 PROVE FieldAt(buffer, 65, IF m.ack.count > 1 THEN 1 ELSE 0, 1)
  <2>1. \A j \in 1 .. 1 : Position(m, 9 + j) = 65 + 8 * (j - 1)
    BY <1>1
  <2>2. PICK flag : flag = IF m.ack.count > 1 THEN 1 ELSE 0
    OBVIOUS
  <2>3. FieldIn(FieldsOf(m), 9, flag, 1)
    BY <1>8, <2>2, StateCalls
  <2> QED BY <1>3, <2>1, <2>2, <2>3, FieldStands
<1>9. ASSUME m.ack.count > 1 PROVE FieldAt(buffer, 66, CountToAck(m.ack), 8)
  <2>1. \A j \in 1 .. 1 : Position(m, 10 + j) = 66 + 8 * (j - 1)
    BY <1>1
  <2>2. FieldIn(FieldsOf(m), 10, CountToAck(m.ack), 8)
    BY <1>9, StateCalls
  <2> QED BY <1>3, <2>1, <2>2, FieldStands
<1>10. Total(m) = StateTotal(m.ack)
  BY <1>1, <1>2 DEF Total, StateLen, StateTotal
<1> QED BY <1>2, <1>4, <1>5, <1>6, <1>7, <1>8, <1>9, <1>10

---------------------------------------------------------------------------
(* Writing and sending *)

(* Later calls stand behind earlier ones.                                    *)
LEMMA PositionsGrow ==
  ASSUME NEW m, NEW i \in Nat, NEW n \in Nat, i <= n
  PROVE  Position(m, i) <= Position(m, n)
BY DEF Position, FlagsBefore

\* What is left of the calls when n are made.
Left(calls, n) == SubSeq(calls, n + 1, Len(calls))

LEMMA LeftCalls ==
  ASSUME NEW calls \in Seq(Call), NEW n \in 0 .. Len(calls)
  PROVE  /\ Left(calls, 0) = calls
         /\ Left(calls, n) = <<>> <=> n = Len(calls)
         /\ n < Len(calls) => /\ Head(Left(calls, n)) = calls[n + 1]
                              /\ Tail(Left(calls, n)) = Left(calls, n + 1)
<1>1. Len(calls) \in Nat /\ calls = [i \in 1 .. Len(calls) |-> calls[i]]
  OBVIOUS
<1>2. \A k \in 0 .. Len(calls) :
        Left(calls, k) = [i \in 1 .. Len(calls) - k |-> calls[k + i]]
        /\ Left(calls, k) \in Seq(Call) /\ Len(Left(calls, k)) = Len(calls) - k
  BY <1>1 DEF Left
<1>3. Left(calls, 0) = calls
  <2>1. 0 \in 0 .. Len(calls) /\ Len(calls) - 0 = Len(calls)
    BY <1>1
  <2>2. \A i \in 1 .. Len(calls) : 0 + i = i
    BY <1>1
  <2>3. Left(calls, 0) = [i \in 1 .. Len(calls) - 0 |-> calls[0 + i]]
    BY <1>2, <2>1
  <2> QED BY <1>1, <2>1, <2>2, <2>3
<1>4. Left(calls, n) = <<>> <=> n = Len(calls)
  <2>1. PICK s : s = Left(calls, n)
    OBVIOUS
  <2>2. s \in Seq(Call) /\ Len(s) = Len(calls) - n
    BY <1>2, <2>1
  <2>3. s = <<>> <=> Len(s) = 0
    BY <2>2
  <2> QED BY <1>1, <2>1, <2>2, <2>3
<1>5. ASSUME n < Len(calls)
      PROVE  /\ Head(Left(calls, n)) = calls[n + 1]
             /\ Tail(Left(calls, n)) = Left(calls, n + 1)
  <2>1. PICK s : s = Left(calls, n)
    OBVIOUS
  <2>2. s = [i \in 1 .. Len(calls) - n |-> calls[n + i]] /\ s \in Seq(Call)
        /\ Len(s) = Len(calls) - n
    BY <1>2, <2>1
  <2>3. Head(s) = s[1] /\ s[1] = calls[n + 1]
    BY <1>1, <1>5, <2>2
  <2>4. Tail(s) = [i \in 1 .. Len(s) - 1 |-> s[i + 1]]
    BY <1>1, <1>5, <2>2
  <2>5. \A i \in 1 .. Len(calls) - (n + 1) : s[i + 1] = calls[(n + 1) + i]
    BY <1>1, <1>5, <2>2
  <2>6. Left(calls, n + 1) = [i \in 1 .. Len(calls) - (n + 1) |-> calls[(n + 1) + i]]
    <3>1. n + 1 \in 0 .. Len(calls) /\ n + 1 \in Nat
      BY <1>1, <1>5
    <3>2. PICK k : k = n + 1
      OBVIOUS
    <3>3. Left(calls, k) = [i \in 1 .. Len(calls) - k |-> calls[k + i]]
      BY <1>2, <3>1, <3>2
    <3> QED BY <3>2, <3>3
  <2>7. Len(s) - 1 = Len(calls) - (n + 1)
    BY <1>1, <2>2
  <2> QED BY <2>1, <2>3, <2>4, <2>5, <2>6, <2>7
<1> QED BY <1>3, <1>4, <1>5

(* One more call puts its bits behind those of the others.                   *)
LEMMA CallIsMade ==
  ASSUME NEW m \in Message, NEW n \in 0 .. Len(FieldsOf(m)) - 1, NEW s, NEW t,
         WellFormed(s), s.capacity >= 8, s.head = Position(m, n + 1),
         InBuffer(m, n, s.buffer),
         t = WriteBits(s, FieldsOf(m)[n + 1].inData, FieldsOf(m)[n + 1].inBitCount)
  PROVE  /\ WellFormed(t) /\ t.capacity >= 8 /\ t.head = Position(m, (n + 1) + 1)
         /\ InBuffer(m, n + 1, t.buffer)
<1>0. FieldsOf(m) \in Seq(Call)
  BY MessageKinds, HelloCalls, PlayerCalls, StateCalls
<1>1. n \in Nat /\ n + 1 \in 1 .. Len(FieldsOf(m)) /\ Len(FieldsOf(m)) \in Nat
  BY <1>0
<1>2. PICK data, count : /\ data = FieldsOf(m)[n + 1].inData /\ count = FieldsOf(m)[n + 1].inBitCount
                         /\ data \in Byte /\ count \in 1 .. 8
  BY <1>1, Advances DEF Call
<1>3. /\ WellFormed(t) /\ t.capacity >= 8 /\ t.head = s.head + count
      /\ \A k \in 0 .. s.head - 1 : BitAt(t.buffer, k) = BitAt(s.buffer, k)
      /\ \A i \in 0 .. count - 1 : BitAt(t.buffer, s.head + i) = data[i]
  <2>1. t = WriteBits(s, data, count)
    BY <1>2
  <2>2. data \in Byte /\ count \in 1 .. 8
    BY <1>2
  <2>3. \A u : u = WriteBits(s, data, count) =>
          /\ WellFormed(u) /\ u.capacity >= 8 /\ u.head = s.head + count
          /\ \A k \in 0 .. s.head - 1 : BitAt(u.buffer, k) = BitAt(s.buffer, k)
          /\ \A i \in 0 .. count - 1 : BitAt(u.buffer, s.head + i) = data[i]
    BY <2>2, WriteBitsAppends
  <2> QED BY <2>1, <2>3
<1>4. t.head = Position(m, (n + 1) + 1)
  BY <1>1, <1>2, <1>3, Advances
<1>5. ASSUME NEW i \in 1 .. n + 1, NEW b \in 0 .. 7, b < FieldsOf(m)[i].inBitCount
      PROVE  BitAt(t.buffer, Position(m, i) + b) = FieldsOf(m)[i].inData[b]
  <2>1. CASE i = n + 1
    BY <1>2, <1>3, <1>5, <2>1
  <2>2. CASE i # n + 1
    <3>1. i \in 1 .. n /\ i \in 1 .. Len(FieldsOf(m)) /\ i + 1 <= n + 1 /\ i + 1 \in Nat /\ n + 1 \in Nat
      BY <1>1, <2>2
    <3>2. /\ Position(m, i) \in Nat /\ FieldsOf(m)[i].inBitCount \in 1 .. 8
          /\ Position(m, i + 1) = Position(m, i) + FieldsOf(m)[i].inBitCount
      BY <3>1, Advances DEF Call
    <3>3. Position(m, i + 1) <= s.head
      BY <3>1, PositionsGrow
    <3>4. s.head \in Nat
      BY <1>1, Advances
    <3>5. Position(m, i) + b \in 0 .. s.head - 1
      <4>1. PICK p, c, h : p = Position(m, i) /\ c = FieldsOf(m)[i].inBitCount /\ h = s.head
        OBVIOUS
      <4>2. p \in Nat /\ c \in 1 .. 8 /\ p + c <= h /\ h \in Nat /\ b < c
        BY <1>5, <3>2, <3>3, <3>4, <4>1
      <4>3. p + b \in 0 .. h - 1
        BY <4>2
      <4> QED BY <4>1, <4>3
    <3>6. BitAt(s.buffer, Position(m, i) + b) = FieldsOf(m)[i].inData[b]
      BY <1>5, <3>1 DEF InBuffer
    <3> QED BY <1>3, <3>5, <3>6
  <2> QED BY <2>1, <2>2
<1>6. InBuffer(m, n + 1, t.buffer)
  BY <1>5 DEF InBuffer
<1> QED BY <1>3, <1>4, <1>6
---------------------------------------------------------------------------
(* Reading *)

(* A number that fits its field is read as it is.                            *)
LEMMA ReadsUnsigned ==
  ASSUME NEW s, WellFormed(s), NEW x \in Nat, NEW width \in {8, 16, 32},
         width = 8 => x < 256, width = 16 => x < 65536, width = 32 => x \div 65536 < 65536,
         s.head + width <= s.capacity, FieldAt(s.buffer, s.head, x, width)
  PROVE  Unsigned(Read(s, width)) = x
<1>1. PICK count : count = width \div 8 /\ count \in {1, 2, 4}
  OBVIOUS
<1>2. x \in Int /\ (count = 1 => width = 8) /\ (count = 2 => width = 16) /\ (count = 4 => width = 32)
  BY <1>1
<1>3. Read(s, width) = Bytes(x, count)
  <2>1. Read(s, width) = Bytes(x, width \div 8)
    BY <1>2, ReadsField
  <2> QED BY <1>1, <2>1
<1>4. Unsigned(Bytes(x, count)) = x
  <2>1. /\ count = 1 => x < 256
        /\ count = 2 => x < 65536
        /\ count = 4 => x \div 65536 < 65536
    BY <1>2
  <2> QED BY <1>1, <2>1, UnsignedOfBytes
<1> QED BY <1>3, <1>4

\* What the reader has made of message m when it expects e next, at position h.
Known(type, name, playerId, sequenceNumber, ack) ==
  [type |-> type, name |-> name, playerId |-> playerId,
   sequenceNumber |-> sequenceNumber, ack |-> ack]

KnownName(m, n) == [i \in 1 .. Len(m.name) |-> IF i < n THEN m.name[i] ELSE -1]

HelloProgress(m, r, e, h, p) ==
  /\ IsHello(m) /\ r = "new client"
  /\ \/ e = "elementCount" /\ h = 32 /\ p = Blank
     \/ /\ e = "element"
        /\ \E n \in 1 .. Len(m.name) :
             /\ h = 64 + 8 * (n - 1)
             /\ p = Known(HelloPacketId, KnownName(m, n), -1, 0, NoAckData)

PlayerProgress(m, e, h, p) ==
  /\ IsOfPlayer(m) /\ e = "playerId" /\ h = 32
  /\ p = Known(m.type, <<>>, -1, 0, NoAckData)

StateKnown(sequenceNumber, ack) == Known(StatePacketId, <<>>, -1, sequenceNumber, ack)

StateProgress(m, r, e, h, p) ==
  /\ IsState(m) /\ r \in AtManager /\ (r = "shouldProcessAcks" <=> m.ack # NoAckData)
  /\ \/ e = "sequenceNumber" /\ h = 32 /\ p = StateKnown(0, NoAckData)
     \/ /\ e = "hasAcks" /\ h = 48 /\ p = StateKnown(m.sequenceNumber, NoAckData)
        /\ m.ack # NoAckData
     \/ /\ e = "start" /\ h = 49 /\ p = StateKnown(m.sequenceNumber, NoAckData)
        /\ m.ack.count > 0
     \/ /\ e = "hasCount" /\ h = 65
        /\ p = StateKnown(m.sequenceNumber, [start |-> m.ack.start, count |-> 0])
        /\ m.ack.count > 0
     \/ /\ e = "countMinusOne" /\ h = 66
        /\ p = StateKnown(m.sequenceNumber, [start |-> m.ack.start, count |-> 0])
        /\ m.ack.count > 1

\* A handler has not begun, reads on, has no use for what is behind the type, or
\* has read everything.
Progress(m, r, e, h, p) ==
  \/ e = "packetType" /\ h = 0 /\ p = Blank
  \/ HelloProgress(m, r, e, h, p)
  \/ PlayerProgress(m, e, h, p)
  \/ StateProgress(m, r, e, h, p)
  \/ e = "nothing" /\ h = 32 /\ p.type = m.type
  \/ e = "nothing" /\ h = Total(m) /\ p = [m EXCEPT !.ack = Ranges!Written(@)]

\* A datagram of message m in the reader's stream.
Datagram(m, s) ==
  /\ WellFormed(s)
  /\ Total(m) \in Nat /\ Total(m) <= s.capacity /\ s.capacity <= Total(m) + 7
  /\ InBuffer(m, Len(FieldsOf(m)), s.buffer)

Sending ==
  /\ expects = "datagram" /\ parsed = Blank
  /\ in.head = 0 /\ in.capacity = 0
  /\ WellFormed(out) /\ out.capacity >= 8
  /\ \E n \in 0 .. Len(FieldsOf(message)) :
       /\ fields = Left(FieldsOf(message), n)
       /\ out.head = Position(message, n + 1)
       /\ InBuffer(message, n, out.buffer)

Reading ==
  /\ fields = <<>> /\ out.head = Total(message)
  /\ Datagram(message, in)
  /\ Progress(message, reader, expects, in.head, parsed)

\* Strengthening: what stands in the buffers, and what the reader knows of it.
EncodingInv == message \in Message /\ reader \in Readers(message) /\ (Sending \/ Reading)

(* The reader's head moves and nothing else of the stream.                   *)
LEMMA HeadMoves ==
  ASSUME NEW m, NEW s, Datagram(m, s), NEW width \in Nat, s.head + width <= Total(m),
         NEW t, t = [s EXCEPT !.head = @ + width]
  PROVE  Datagram(m, t) /\ t.head = s.head + width
<1>1. s = [buffer |-> s.buffer, head |-> s.head, capacity |-> s.capacity]
      /\ s.head \in Nat /\ s.capacity \in Nat
  BY DEF Datagram, WellFormed, Streams!WellFormed
<1>2. t = [buffer |-> s.buffer, head |-> s.head + width, capacity |-> s.capacity]
  BY <1>1
<1>3. t.buffer = s.buffer /\ t.head = s.head + width /\ t.capacity = s.capacity
      /\ t = [buffer |-> t.buffer, head |-> t.head, capacity |-> t.capacity]
  BY <1>2
<1>4. t.head \in 0 .. t.capacity
  BY <1>1, <1>3 DEF Datagram
<1>5. WellFormed(t)
  BY <1>3, <1>4 DEF Datagram, WellFormed, Streams!WellFormed
<1> QED BY <1>3, <1>5 DEF Datagram

(* A read that leads on keeps the invariant.                                 *)
---------------------------------------------------------------------------
(* Steps *)

LEMMA CallsOfMessage ==
  ASSUME NEW m \in Message
  PROVE  FieldsOf(m) \in Seq(Call) /\ Len(FieldsOf(m)) \in Nat
BY MessageKinds, HelloCalls, PlayerCalls, StateCalls

LEMMA InitHolds ==
  ASSUME Init
  PROVE  EncodingInv
<1>1. PICK m : m = message /\ m \in Message
  BY DEF Init
<1>2. FieldsOf(m) \in Seq(Call) /\ Len(FieldsOf(m)) \in Nat
  BY <1>1, CallsOfMessage
<1>3. fields = Left(FieldsOf(message), 0)
  BY <1>1, <1>2, LeftCalls DEF Init
<1>4. Position(message, 0 + 1) = 0 /\ out.head = 0
  BY DEF Init, Position, FlagsBefore
<1>5. InBuffer(message, 0, out.buffer)
  BY DEF InBuffer
<1>6. WellFormed(out) /\ out.capacity >= 8
  <2>1. PICK bytes : bytes = [i \in 0 .. InitialCapacity \div 8 - 1 |-> ZeroByte]
    OBVIOUS
  <2>2. out = [buffer |-> bytes, head |-> 0, capacity |-> InitialCapacity]
    BY <2>1 DEF Init
  <2>3. out.buffer = bytes /\ out.head = 0 /\ out.capacity = InitialCapacity
    BY <2>2
  <2>4. ZeroByte \in Streams!Byte
    BY DEF ZeroByte, Streams!Byte, Streams!Bit
  <2>5. bytes \in [0 .. InitialCapacity \div 8 - 1 -> Streams!Byte]
    BY <2>1, <2>4
  <2> QED BY <2>2, <2>3, <2>5, EncodingAssumption DEF WellFormed, Streams!WellFormed
<1>7. 0 \in 0 .. Len(FieldsOf(message))
  BY <1>1, <1>2
<1>8. expects = "datagram" /\ parsed = Blank /\ in.head = 0 /\ in.capacity = 0
  BY DEF Init
<1>9. reader \in Readers(message)
  BY DEF Init
<1> QED BY <1>1, <1>3, <1>4, <1>5, <1>6, <1>7, <1>8, <1>9 DEF EncodingInv, Sending

LEMMA WriteFieldKeeps ==
  ASSUME EncodingInv, WriteField
  PROVE  EncodingInv'
<1>1. Sending
  BY DEF EncodingInv, Reading, WriteField
<1>2. PICK n \in 0 .. Len(FieldsOf(message)) :
        /\ fields = Left(FieldsOf(message), n)
        /\ out.head = Position(message, n + 1)
        /\ InBuffer(message, n, out.buffer)
  BY <1>1 DEF Sending
<1>3. PICK m, s, t, calls :
        /\ m = message /\ s = out /\ t = out' /\ m \in Message /\ calls = FieldsOf(m)
  BY DEF EncodingInv
<1>4. calls \in Seq(Call) /\ Len(calls) \in Nat
  BY <1>3, CallsOfMessage
<1>5. n < Len(calls)
  BY <1>2, <1>3, <1>4, LeftCalls DEF WriteField
<1>6. Head(fields) = calls[n + 1] /\ Tail(fields) = Left(calls, n + 1)
  BY <1>2, <1>3, <1>4, <1>5, LeftCalls
<1>7. t = WriteBits(s, FieldsOf(m)[n + 1].inData, FieldsOf(m)[n + 1].inBitCount)
  BY <1>3, <1>6 DEF WriteField
<1>8. n \in 0 .. Len(FieldsOf(m)) - 1 /\ n + 1 \in 0 .. Len(FieldsOf(m))
  BY <1>3, <1>4, <1>5
<1>9. /\ WellFormed(s) /\ s.capacity >= 8 /\ s.head = Position(m, n + 1)
      /\ InBuffer(m, n, s.buffer)
  BY <1>1, <1>2, <1>3 DEF Sending
<1>10. /\ WellFormed(t) /\ t.capacity >= 8 /\ t.head = Position(m, (n + 1) + 1)
       /\ InBuffer(m, n + 1, t.buffer)
  BY <1>3, <1>7, <1>8, <1>9, CallIsMade
<1>11. /\ message' = m /\ reader' = reader /\ fields' = Left(FieldsOf(m), n + 1) /\ out' = t
       /\ expects' = "datagram" /\ parsed' = Blank /\ in' = in
       /\ in.head = 0 /\ in.capacity = 0
  BY <1>1, <1>3, <1>6 DEF WriteField, Sending
<1>12. Sending'
  BY <1>8, <1>10, <1>11 DEF Sending
<1> QED BY <1>3, <1>11, <1>12 DEF EncodingInv

(* The bytes that are sent hold every bit, and less than a byte more.        *)
LEMMA BytesHoldBits ==
  ASSUME NEW head \in Nat, NEW capacity \in Nat, capacity % 8 = 0, head <= capacity,
         NEW byteCount, byteCount = (head + 7) \div 8
  PROVE  /\ byteCount \in Nat /\ byteCount <= capacity \div 8
         /\ head <= byteCount * 8 /\ byteCount * 8 <= head + 7
         /\ \A k \in 0 .. head - 1 : k \div 8 \in 0 .. byteCount - 1
OBVIOUS

LEMMA ReceiveKeeps ==
  ASSUME EncodingInv, Receive
  PROVE  EncodingInv'
<1>1. Sending
  BY DEF EncodingInv, Reading, Progress, HelloProgress, PlayerProgress, StateProgress, Receive
<1>2. PICK n \in 0 .. Len(FieldsOf(message)) :
        /\ fields = Left(FieldsOf(message), n)
        /\ out.head = Position(message, n + 1)
        /\ InBuffer(message, n, out.buffer)
  BY <1>1 DEF Sending
<1>3. PICK m, s, t, byteCount :
        /\ m = message /\ s = out /\ t = in' /\ m \in Message
        /\ byteCount = (s.head + 7) \div 8
  BY DEF EncodingInv
<1>4. FieldsOf(m) \in Seq(Call) /\ Len(FieldsOf(m)) \in Nat
  BY <1>3, CallsOfMessage
<1>5. n = Len(FieldsOf(m))
  BY <1>2, <1>3, <1>4, LeftCalls DEF Receive
<1>6. s.head = Total(m) /\ InBuffer(m, Len(FieldsOf(m)), s.buffer)
  BY <1>2, <1>3, <1>5 DEF Total
<1>7. /\ s.capacity \in Nat /\ s.capacity % 8 = 0 /\ s.head \in 0 .. s.capacity
      /\ s.buffer \in [0 .. s.capacity \div 8 - 1 -> Streams!Byte]
  BY <1>1, <1>3 DEF Sending, WellFormed, Streams!WellFormed
<1>8. byteCount \in Nat /\ byteCount <= s.capacity \div 8
      /\ s.head <= byteCount * 8 /\ byteCount * 8 <= s.head + 7
      /\ \A k \in 0 .. s.head - 1 : k \div 8 \in 0 .. byteCount - 1
  <2>1. PICK h, c : h = s.head /\ c = s.capacity
    OBVIOUS
  <2>2. h \in Nat /\ c \in Nat /\ c % 8 = 0 /\ h <= c /\ byteCount = (h + 7) \div 8
    BY <1>3, <1>7, <2>1
  <2>3. /\ byteCount \in Nat /\ byteCount <= c \div 8
        /\ h <= byteCount * 8 /\ byteCount * 8 <= h + 7
        /\ \A k \in 0 .. h - 1 : k \div 8 \in 0 .. byteCount - 1
    BY <2>2, BytesHoldBits
  <2> QED BY <2>1, <2>3
<1>9. PICK bytes : bytes = [i \in 0 .. byteCount - 1 |-> s.buffer[i]]
  OBVIOUS
<1>10. t = [buffer |-> bytes, head |-> 0, capacity |-> byteCount * 8]
  BY <1>3, <1>9 DEF Receive
<1>11. t.buffer = bytes /\ t.head = 0 /\ t.capacity = byteCount * 8
       /\ t = [buffer |-> t.buffer, head |-> t.head, capacity |-> t.capacity]
  BY <1>10
<1>12. bytes \in [0 .. byteCount - 1 -> Streams!Byte]
  <2>1. PICK c : c = s.capacity \div 8 /\ c \in Int
    BY <1>7
  <2>2. \A i \in 0 .. byteCount - 1 : i \in 0 .. c - 1
    BY <1>8, <2>1
  <2>3. \A i \in 0 .. byteCount - 1 : s.buffer[i] \in Streams!Byte
    BY <1>7, <2>1, <2>2
  <2> QED BY <1>9, <2>3
<1>13. WellFormed(t)
  <2>1. (byteCount * 8) % 8 = 0 /\ (byteCount * 8) \div 8 = byteCount /\ byteCount * 8 \in Nat
    BY <1>8
  <2> QED BY <1>11, <1>12, <2>1 DEF WellFormed, Streams!WellFormed
<1>14. \A k \in 0 .. s.head - 1 : BitAt(bytes, k) = BitAt(s.buffer, k)
  <2> SUFFICES ASSUME NEW k \in 0 .. s.head - 1 PROVE BitAt(bytes, k) = BitAt(s.buffer, k)
    OBVIOUS
  <2>1. k \div 8 \in 0 .. byteCount - 1
    BY <1>8
  <2> QED BY <1>9, <2>1 DEF BitAt
<1>15. InBuffer(m, Len(FieldsOf(m)), bytes)
  <2> SUFFICES ASSUME NEW i \in 1 .. Len(FieldsOf(m)), NEW b \in 0 .. 7,
                      b < FieldsOf(m)[i].inBitCount
               PROVE  BitAt(bytes, Position(m, i) + b) = FieldsOf(m)[i].inData[b]
    BY DEF InBuffer
  <2>1. BitAt(s.buffer, Position(m, i) + b) = FieldsOf(m)[i].inData[b]
    BY <1>6 DEF InBuffer
  <2>2. /\ Position(m, i) \in Nat /\ FieldsOf(m)[i].inBitCount \in 1 .. 8
        /\ Position(m, i + 1) = Position(m, i) + FieldsOf(m)[i].inBitCount
    BY <1>3, Advances DEF Call
  <2>3. Position(m, i + 1) <= s.head
    <3>1. i + 1 \in Nat /\ Len(FieldsOf(m)) + 1 \in Nat /\ i + 1 <= Len(FieldsOf(m)) + 1
      BY <1>4
    <3> QED BY <1>6, <3>1, PositionsGrow DEF Total
  <2>4. PICK p, c, h : p = Position(m, i) /\ c = FieldsOf(m)[i].inBitCount /\ h = s.head
    OBVIOUS
  <2>5. p \in Nat /\ c \in 1 .. 8 /\ p + c <= h /\ h \in Nat /\ b < c
    BY <1>7, <2>2, <2>3, <2>4
  <2>6. p + b \in 0 .. h - 1
    <3>1. p + b \in Nat /\ p + b < h
      BY <2>5
    <3> QED BY <2>5, <3>1
  <2> QED BY <1>14, <2>1, <2>4, <2>6
<1>16. Datagram(m, t)
  BY <1>6, <1>7, <1>8, <1>11, <1>13, <1>15 DEF Datagram
<1>17. /\ message' = m /\ reader' = reader /\ fields' = <<>> /\ out' = s /\ in' = t
       /\ expects' = "packetType" /\ parsed' = Blank
  BY <1>1, <1>3 DEF Receive, Sending
<1>18. Progress(message', reader', expects', in'.head, parsed')
  BY <1>11, <1>17 DEF Progress
<1>19. Datagram(message', in') /\ out'.head = Total(message')
  BY <1>6, <1>16, <1>17
<1> QED BY <1>3, <1>17, <1>18, <1>19 DEF EncodingInv, Reading
---------------------------------------------------------------------------
(* Reads *)

(* What the reader is at when it is reading.                                 *)
LEMMA IsReading ==
  ASSUME EncodingInv, expects # "datagram"
  PROVE  /\ message \in Message /\ reader \in Readers(message)
         /\ fields = <<>> /\ out.head = Total(message) /\ Datagram(message, in)
         /\ Progress(message, reader, expects, in.head, parsed)
         /\ WellFormed(in) /\ in.head \in Nat /\ in.capacity \in Nat
         /\ InBuffer(message, Len(FieldsOf(message)), in.buffer)
         /\ Total(message) \in Nat /\ Total(message) <= in.capacity
BY DEF EncodingInv, Sending, Reading, Datagram, WellFormed, Streams!WellFormed

(* A step of the reader that comes to what the next field's reader must know. *)
LEMMA Reads ==
  ASSUME NEW what, NEW width \in Nat, NEW p, NEW next, EncodingInv, what # "datagram",
         Take(what, width, p, next), in.head + width <= Total(message),
         Progress(message, reader, next, in.head + width, p)
  PROVE  EncodingInv'
<1>1. PICK s, t, m, r : s = in /\ t = in' /\ m = message /\ r = reader
  OBVIOUS
<1>2. /\ m \in Message /\ r \in Readers(m) /\ fields = <<>> /\ out.head = Total(m)
      /\ Datagram(m, s)
  BY <1>1, IsReading DEF Take
<1>3. t = [s EXCEPT !.head = @ + width]
  BY <1>1 DEF Take
<1>4. Datagram(m, t) /\ t.head = s.head + width
  BY <1>1, <1>2, <1>3, HeadMoves
<1>5. /\ message' = m /\ reader' = r /\ fields' = <<>> /\ out' = out
      /\ expects' = next /\ parsed' = p /\ in' = t
  BY <1>1, <1>2 DEF Take
<1>6. Datagram(message', in') /\ out'.head = Total(message')
  BY <1>2, <1>4, <1>5
<1>7. Progress(message', reader', expects', in'.head, parsed')
  BY <1>1, <1>4, <1>5
<1> QED BY <1>2, <1>5, <1>6, <1>7 DEF EncodingInv, Reading

LEMMA ReadPacketTypeKeeps ==
  ASSUME EncodingInv, ReadPacketType
  PROVE  EncodingInv'
<1>1. expects = "packetType"
  BY DEF ReadPacketType, Take
<1>2. /\ message \in Message /\ reader \in Readers(message) /\ fields = <<>> /\ Datagram(message, in)
      /\ Progress(message, reader, "packetType", in.head, parsed)
      /\ WellFormed(in) /\ in.capacity \in Nat
      /\ Total(message) \in Nat /\ Total(message) <= in.capacity
      /\ InBuffer(message, Len(FieldsOf(message)), in.buffer)
  BY <1>1, IsReading
<1>3. in.head = 0 /\ parsed = Blank
  BY <1>2 DEF Progress, HelloProgress, PlayerProgress, StateProgress
<1>4. PICK m, r, s : m = message /\ r = reader /\ s = in
  OBVIOUS
<1>5. /\ FieldAt(s.buffer, 0, m.type, 32) /\ 32 <= Total(m)
      /\ \/ IsHello(m) /\ m.type = HelloPacketId
         \/ IsOfPlayer(m) /\ m.type \in {WelcomePacketId, WinPacketId}
         \/ IsState(m) /\ m.type = StatePacketId
  <2>1. CASE IsHello(m)
    <3>1. m.type = HelloPacketId /\ Len(m.name) \in Nat
      BY <2>1, HelloCalls
    <3> QED BY <1>2, <1>4, <2>1, <3>1, HelloStands
  <2>2. CASE IsOfPlayer(m)
    BY <1>2, <1>4, <2>2, PlayerStands DEF IsOfPlayer
  <2>3. CASE IsState(m)
    <3>1. m.type = StatePacketId
      BY <2>3 DEF IsState
    <3>2. FieldAt(s.buffer, 0, StatePacketId, 32)
      BY <1>2, <1>4, <2>3, StateStands
    <3>3. 32 <= Total(m)
      <4>1. m.ack.count \in Nat /\ Total(m) = StateTotal(m.ack)
        BY <1>2, <1>4, <2>3, StateStands
      <4> QED BY <4>1 DEF StateTotal
    <3> QED BY <2>3, <3>1, <3>2, <3>3
  <2> QED BY <1>2, <1>4, <2>1, <2>2, <2>3, MessageKinds
<1>6. m.type \in Nat /\ m.type \div 65536 < 65536
  BY <1>5 DEF HelloPacketId, WelcomePacketId, WinPacketId, StatePacketId
<1>7. Unsigned(Read(in, 32)) = m.type
  <2>1. PICK type : type = m.type
    OBVIOUS
  <2>2. type \in Nat /\ (32 = 32 => type \div 65536 < 65536)
    BY <1>6, <2>1
  <2>3. WellFormed(s) /\ s.head + 32 <= s.capacity /\ FieldAt(s.buffer, s.head, type, 32)
    BY <1>2, <1>3, <1>4, <1>5, <2>1
  <2>4. Unsigned(Read(s, 32)) = type
    BY <2>2, <2>3, ReadsUnsigned
  <2> QED BY <1>4, <2>1, <2>4
<1>8. PICK p, next :
        /\ p = [parsed EXCEPT !.type = m.type]
        /\ next = CASE reader \in AtClient -> ClientReads(m.type)
                     [] reader \in AtServer -> ServerReads(m.type)
                     [] reader \in AtManager -> "sequenceNumber"
  OBVIOUS
<1>9. Take("packetType", 32, p, next)
  BY <1>4, <1>7, <1>8 DEF ReadPacketType
<1>10. p = Known(m.type, <<>>, -1, 0, NoAckData) /\ p.type = m.type
  BY <1>3, <1>8 DEF Blank, Known
<1>11. Progress(m, r, next, 32, p)
  <2>1. CASE r \in AtClient
    <3>1. next = ClientReads(m.type)
      <4>1. reader \in AtClient /\ reader \notin AtServer /\ reader \notin AtManager
        BY <1>4, <2>1 DEF AtClient, AtServer, AtManager
      <4> QED BY <1>8, <4>1
    <3>2. \/ next = "nothing"
          \/ next = "playerId" /\ m.type \in {WelcomePacketId, WinPacketId}
      BY <3>1 DEF ClientReads
    <3>3. m.type \in {WelcomePacketId, WinPacketId} => IsOfPlayer(m)
      BY <1>5 DEF HelloPacketId, WelcomePacketId, WinPacketId, StatePacketId
    <3> QED BY <1>10, <3>2, <3>3 DEF Progress, PlayerProgress
  <2>2. CASE r \in AtServer
    <3>1. next = ServerReads(m.type)
      <4>1. reader \notin AtClient /\ reader \in AtServer /\ reader \notin AtManager
        BY <1>4, <2>2 DEF AtClient, AtServer, AtManager
      <4> QED BY <1>8, <4>1
    <3>2. \/ next = "nothing"
          \/ next = "elementCount" /\ m.type = HelloPacketId /\ r = "new client"
      BY <1>4, <3>1 DEF ServerReads
    <3>3. m.type = HelloPacketId => IsHello(m) /\ p = Blank
      BY <1>5, <1>10 DEF HelloPacketId, WelcomePacketId, WinPacketId, StatePacketId, Blank, Known
    <3> QED BY <1>10, <3>2, <3>3 DEF Progress, HelloProgress
  <2>3. CASE r \in AtManager
    <3>1. next = "sequenceNumber"
      <4>1. reader \notin AtClient /\ reader \notin AtServer /\ reader \in AtManager
        BY <1>4, <2>3 DEF AtClient, AtServer, AtManager
      <4> QED BY <1>8, <4>1
    <3>2. IsState(m) /\ m.type = StatePacketId /\ (r = "shouldProcessAcks" <=> m.ack # NoAckData)
      <4>1. r \in Readers(m)
        BY <1>2, <1>4
      <4>2. r \notin AtServer /\ r \notin AtClient /\ r \notin AtServer \cup AtClient
        BY <2>3 DEF AtClient, AtServer, AtManager
      <4>3. m.type \notin {HelloPacketId, WelcomePacketId, WinPacketId}
        <5>1. m.type = HelloPacketId => Readers(m) = AtServer
          BY DEF Readers, HelloPacketId, WelcomePacketId, WinPacketId, StatePacketId
        <5>2. m.type = WelcomePacketId => Readers(m) = AtClient
          BY DEF Readers, HelloPacketId, WelcomePacketId, WinPacketId, StatePacketId
        <5>3. m.type = WinPacketId => Readers(m) = AtServer \cup AtClient
          BY DEF Readers, HelloPacketId, WelcomePacketId, WinPacketId, StatePacketId
        <5> QED BY <4>1, <4>2, <5>1, <5>2, <5>3
      <4>4. IsState(m) /\ m.type = StatePacketId
        BY <1>5, <4>3
      <4>5. r \in IF m.ack = NoAckData
                 THEN AtClient \cup {"ignores acks"} ELSE {"shouldProcessAcks"}
        <5>1. Readers(m) = IF m.ack = NoAckData
                           THEN AtClient \cup {"ignores acks"} ELSE {"shouldProcessAcks"}
          <6>1. m.type = StatePacketId /\ m.type # HelloPacketId /\ m.type # WelcomePacketId
                /\ m.type # WinPacketId
            BY <4>4 DEF HelloPacketId, WelcomePacketId, WinPacketId, StatePacketId
          <6> QED BY <6>1 DEF Readers
        <5> QED BY <4>1, <5>1
      <4>6. CASE m.ack = NoAckData
        BY <4>2, <4>4, <4>5, <4>6
      <4>7. CASE m.ack # NoAckData
        BY <4>4, <4>5, <4>7
      <4> QED BY <4>6, <4>7
    <3> QED BY <1>10, <2>3, <3>1, <3>2 DEF Progress, StateProgress, StateKnown
  <2>4. r \in AtClient \cup AtServer \cup AtManager
    <3>1. r \in Readers(m)
      BY <1>2, <1>4
    <3> QED BY <1>5, <3>1 DEF Readers, AtManager
  <2> QED BY <2>1, <2>2, <2>3, <2>4
<1>12. in.head + 32 <= Total(message) /\ Progress(message, reader, next, in.head + 32, p)
  BY <1>3, <1>4, <1>5, <1>11
<1> QED BY <1>9, <1>12, Reads

(* A packet is over when its last field is read.                             *)
LEMMA HelloIsOver ==
  ASSUME NEW m, IsHello(m)
  PROVE  [m EXCEPT !.ack = Ranges!Written(@)] =
           Known(HelloPacketId, m.name, -1, 0, NoAckData)
<1>1. Ranges!Written(NoAckData) = NoAckData
  BY DEF Ranges!Written, NoAckData
<1> QED BY <1>1 DEF IsHello, Known

LEMMA PlayerIsOver ==
  ASSUME NEW m, IsOfPlayer(m)
  PROVE  [m EXCEPT !.ack = Ranges!Written(@)] =
           Known(m.type, <<>>, m.playerId, 0, NoAckData)
<1>1. Ranges!Written(NoAckData) = NoAckData
  BY DEF Ranges!Written, NoAckData
<1> QED BY <1>1 DEF IsOfPlayer, Known

LEMMA StateIsOver ==
  ASSUME NEW m, IsState(m)
  PROVE  /\ m.ack = NoAckData => [m EXCEPT !.ack = Ranges!Written(@)] =
                                    StateKnown(m.sequenceNumber, NoAckData)
         /\ m.ack.count = 0 /\ m.ack # NoAckData =>
              [m EXCEPT !.ack = Ranges!Written(@)] = StateKnown(m.sequenceNumber, Ranges!EmptyRange)
         /\ m.ack.count = 1 =>
              [m EXCEPT !.ack = Ranges!Written(@)] =
                StateKnown(m.sequenceNumber, [start |-> m.ack.start, count |-> 1])
         /\ m.ack.count > 1 =>
              [m EXCEPT !.ack = Ranges!Written(@)] =
                StateKnown(m.sequenceNumber,
                           [start |-> m.ack.start, count |-> CountToAck(m.ack) + 1])
<1>1. m.ack = [start |-> m.ack.start, count |-> m.ack.count] /\ m.ack.count \in Nat
      /\ (m.ack.count = 0 => m.ack \in {NoAckData, Ranges!EmptyRange})
  BY EncodingAssumption DEF IsState, Ranges!EmptyRange, NoAckData
<1>2. PICK ack : ack = m.ack
  OBVIOUS
<1>3. Ranges!Written(ack) =
        [start |-> ack.start, count |-> IF ack.count > 256 THEN 256 ELSE ack.count]
  BY <1>1, <1>2 DEF Ranges!Written
<1>4. [m EXCEPT !.ack = Ranges!Written(@)] = StateKnown(m.sequenceNumber, Ranges!Written(ack))
  BY <1>2 DEF IsState, StateKnown, Known
<1>5. ack.count = 0 => Ranges!Written(ack) = ack
  BY <1>1, <1>2 DEF Ranges!Written, Ranges!EmptyRange, NoAckData
<1>6. ack.count = 1 => Ranges!Written(ack) = [start |-> ack.start, count |-> 1]
  BY <1>3
<1>7. ack.count > 1 => Ranges!Written(ack) = [start |-> ack.start, count |-> CountToAck(ack) + 1]
  <2>1. ack.count > 1 => (IF ack.count > 256 THEN 256 ELSE ack.count) = CountToAck(ack) + 1
    BY <1>1, <1>2 DEF CountToAck
  <2> QED BY <1>3, <2>1
<1>8. ack = NoAckData => Ranges!Written(ack) = NoAckData
  BY <1>5 DEF NoAckData
<1>9. ack.count = 0 /\ ack # NoAckData => Ranges!Written(ack) = Ranges!EmptyRange
  BY <1>1, <1>2, <1>5
<1> QED BY <1>2, <1>4, <1>6, <1>7, <1>8, <1>9

(* Characters are bytes.                                                     *)
LEMMA CharsOfHello ==
  ASSUME NEW m, IsHello(m)
  PROVE  /\ Len(m.name) \in Nat /\ Len(m.name) <= 1492
         /\ \A i \in 1 .. Len(m.name) : m.name[i] \in Nat /\ m.name[i] < 256
<1>1. m.name \in Seq(Char) /\ Len(m.name) \in Nat /\ 64 + 8 * Len(m.name) <= 1500 * 8
  BY EncodingAssumption DEF IsHello
<1>2. \A i \in 1 .. Len(m.name) : m.name[i] \in Char
  BY <1>1
<1> QED BY <1>1, <1>2 DEF Char

(* A name, as a function.                                                    *)
LEMMA NameOfHello ==
  ASSUME NEW m, IsHello(m)
  PROVE  m.name = [i \in 1 .. Len(m.name) |-> m.name[i]]
<1>1. m.name \in Seq(Char)
  BY EncodingAssumption DEF IsHello
<1> QED BY <1>1

LEMMA ReadElementCountKeeps ==
  ASSUME EncodingInv, ReadElementCount
  PROVE  EncodingInv'
<1>1. expects = "elementCount"
  BY DEF ReadElementCount, Take
<1>2. /\ message \in Message /\ fields = <<>> /\ Datagram(message, in)
      /\ Progress(message, reader, "elementCount", in.head, parsed)
      /\ WellFormed(in) /\ in.capacity \in Nat
      /\ Total(message) \in Nat /\ Total(message) <= in.capacity
      /\ InBuffer(message, Len(FieldsOf(message)), in.buffer)
  BY <1>1, IsReading
<1>3. HelloProgress(message, reader, "elementCount", in.head, parsed)
  BY <1>2 DEF Progress, HelloProgress, PlayerProgress, StateProgress
<1>4. PICK m, r, s : m = message /\ r = reader /\ s = in
  OBVIOUS
<1>5. IsHello(m) /\ s.head = 32 /\ parsed = Blank
  BY <1>3, <1>4 DEF HelloProgress
<1>5a. r = "new client"
  BY <1>3, <1>4 DEF HelloProgress
<1>6. PICK n : n = Len(m.name) /\ n \in Nat /\ n <= 1492
  <2>1. Len(m.name) \in Nat /\ Len(m.name) <= 1492
    BY <1>5, CharsOfHello
  <2> QED BY <2>1
<1>7. FieldAt(s.buffer, s.head, n, 32) /\ Total(m) = 64 + 8 * n
  BY <1>2, <1>4, <1>5, <1>6, HelloStands
<1>8. Unsigned(Read(s, 32)) = n
  <2>1. s.head + 32 <= s.capacity /\ WellFormed(s)
    BY <1>2, <1>4, <1>5, <1>6, <1>7
  <2>2. n \div 65536 < 65536
    <3>1. n \in Nat /\ n <= 1492
      BY <1>6
    <3>2. n \div 65536 <= n
      BY <3>1
    <3> QED BY <3>1, <3>2
  <2> QED BY <1>6, <1>7, <2>1, <2>2, ReadsUnsigned
<1>9. PICK p, next : /\ p = [parsed EXCEPT !.name = [i \in 1 .. n |-> -1]]
                     /\ next = IF n = 0 THEN "nothing" ELSE "element"
  OBVIOUS
<1>10. Take("elementCount", 32, p, next)
  BY <1>4, <1>8, <1>9 DEF ReadElementCount
<1>11. p = Known(HelloPacketId, [i \in 1 .. n |-> -1], -1, 0, NoAckData)
  BY <1>5, <1>9 DEF Blank, Known
<1>12. Progress(m, r, next, 64, p)
  <2>1. CASE n = 0
    <3>1. m.name = [i \in 1 .. n |-> -1]
      <4>1. m.name = [i \in 1 .. n |-> m.name[i]]
        BY <1>5, <1>6, NameOfHello
      <4> QED BY <2>1, <4>1
    <3>2. p = [m EXCEPT !.ack = Ranges!Written(@)]
      BY <1>5, <1>11, <3>1, HelloIsOver
    <3>3. next = "nothing" /\ Total(m) = 64
      BY <1>7, <1>9, <2>1
    <3> QED BY <3>2, <3>3 DEF Progress
  <2>2. CASE n # 0
    <3>1. KnownName(m, 1) = [i \in 1 .. n |-> -1]
      BY <1>6 DEF KnownName
    <3>2. 1 \in 1 .. Len(m.name) /\ 64 = 64 + 8 * (1 - 1)
      BY <1>6, <2>2
    <3>3. next = "element" /\ p = Known(HelloPacketId, KnownName(m, 1), -1, 0, NoAckData)
      BY <1>9, <1>11, <2>2, <3>1
    <3>4. HelloProgress(m, r, next, 64, p)
      BY <1>5, <1>5a, <3>2, <3>3 DEF HelloProgress
    <3> QED BY <3>4 DEF Progress
  <2> QED BY <2>1, <2>2
<1>13. in.head + 32 <= Total(message) /\ Progress(message, reader, next, in.head + 32, p)
  BY <1>4, <1>5, <1>6, <1>7, <1>12
<1> QED BY <1>10, <1>13, Reads

LEMMA ReadElementKeeps ==
  ASSUME EncodingInv, ReadElement
  PROVE  EncodingInv'
<1>1. expects = "element"
  BY DEF ReadElement, Take
<1>2. /\ message \in Message /\ fields = <<>> /\ Datagram(message, in)
      /\ Progress(message, reader, "element", in.head, parsed)
      /\ WellFormed(in) /\ in.capacity \in Nat
      /\ Total(message) \in Nat /\ Total(message) <= in.capacity
      /\ InBuffer(message, Len(FieldsOf(message)), in.buffer)
  BY <1>1, IsReading
<1>3. HelloProgress(message, reader, "element", in.head, parsed)
  BY <1>2 DEF Progress, HelloProgress, PlayerProgress, StateProgress
<1>4. PICK m, r, s : m = message /\ r = reader /\ s = in
  OBVIOUS
<1>5. /\ IsHello(m) /\ r = "new client"
      /\ \E n \in 1 .. Len(m.name) :
           /\ s.head = 64 + 8 * (n - 1)
           /\ parsed = Known(HelloPacketId, KnownName(m, n), -1, 0, NoAckData)
  BY <1>3, <1>4 DEF HelloProgress
<1>6. PICK n \in 1 .. Len(m.name) :
           /\ s.head = 64 + 8 * (n - 1)
           /\ parsed = Known(HelloPacketId, KnownName(m, n), -1, 0, NoAckData)
  BY <1>5
<1>7. PICK l : l = Len(m.name) /\ l \in Nat /\ n \in 1 .. l
               /\ \A i \in 1 .. l : m.name[i] \in Nat /\ m.name[i] < 256
  <2>0. IsHello(m)
    BY <1>5
  <2>1. /\ Len(m.name) \in Nat
        /\ \A i \in 1 .. Len(m.name) : m.name[i] \in Nat /\ m.name[i] < 256
    BY <2>0, CharsOfHello
  <2>2. PICK l : l = Len(m.name)
    OBVIOUS
  <2>3. l \in Nat /\ n \in 1 .. l
    BY <2>1, <2>2
  <2>4. \A i \in 1 .. l : m.name[i] \in Nat /\ m.name[i] < 256
    BY <2>1, <2>2
  <2> QED BY <2>2, <2>3, <2>4
<1>8. PICK name : /\ name = KnownName(m, n) /\ parsed.name = name /\ DOMAIN name = 1 .. l
                  /\ Len(name) = l
                  /\ \A i \in 1 .. l : name[i] = IF i < n THEN m.name[i] ELSE -1
  <2>1. PICK name : name = KnownName(m, n)
    OBVIOUS
  <2>2. name = [i \in 1 .. l |-> IF i < n THEN m.name[i] ELSE -1]
    BY <1>7, <2>1 DEF KnownName
  <2>3. parsed.name = name
    BY <1>6, <2>1 DEF Known
  <2>4. name \in [1 .. l -> Int]
    BY <1>7, <2>2
  <2>5. name \in Seq(Int) /\ Len(name) = l
    BY <1>7, <2>4
  <2> QED BY <2>1, <2>2, <2>3, <2>5
<1>9. (CHOOSE j \in DOMAIN parsed.name :
         /\ parsed.name[j] = -1
         /\ \A k \in 1 .. j - 1 : parsed.name[k] # -1) = n
  <2>1. /\ n \in DOMAIN parsed.name /\ parsed.name[n] = -1
        /\ \A k \in 1 .. n - 1 : parsed.name[k] # -1
    BY <1>7, <1>8
  <2>2. ASSUME NEW j \in DOMAIN parsed.name, parsed.name[j] = -1,
               \A k \in 1 .. j - 1 : parsed.name[k] # -1
        PROVE  j = n
    <3>1. j \in 1 .. l /\ n \in 1 .. l
      BY <1>7, <1>8
    <3>2. ~(j < n)
      BY <1>7, <1>8, <2>2, <3>1
    <3>3. ~(n < j)
      BY <2>1, <2>2, <3>1
    <3> QED BY <3>1, <3>2, <3>3
  <2> QED BY <2>1, <2>2
<1>10. FieldAt(s.buffer, s.head, m.name[n], 8) /\ Total(m) = 64 + 8 * l
  <2>1. IsHello(m) /\ InBuffer(m, Len(FieldsOf(m)), s.buffer)
    BY <1>2, <1>4, <1>5
  <2>2. /\ \A i \in 1 .. Len(m.name) : FieldAt(s.buffer, 64 + 8 * (i - 1), m.name[i], 8)
        /\ Total(m) = 64 + 8 * Len(m.name)
    BY <2>1, HelloStands
  <2> QED BY <1>6, <1>7, <2>2
<1>11. PICK x : x = m.name[n] /\ x \in Nat /\ x < 256
  BY <1>7
<1>12. s.head + 8 <= Total(m)
  BY <1>6, <1>7, <1>10
<1>13. Unsigned(Read(s, 8)) = x
  <2>1. s.head \in Nat /\ s.capacity \in Nat /\ Total(m) <= s.capacity /\ Total(m) \in Nat
    BY <1>2, <1>4, <1>6, <1>7
  <2>2. s.head + 8 <= s.capacity /\ WellFormed(s)
    BY <1>2, <1>4, <1>12, <2>1
  <2>3. FieldAt(s.buffer, s.head, x, 8)
    BY <1>10, <1>11
  <2> QED BY <1>11, <2>2, <2>3, ReadsUnsigned
<1>14. PICK p, next : /\ p = [parsed EXCEPT !.name[n] = x]
                      /\ next = IF n = l THEN "nothing" ELSE "element"
  OBVIOUS
<1>15. Take("element", 8, p, next)
  BY <1>4, <1>8, <1>9, <1>13, <1>14 DEF ReadElement
<1>16. p = Known(HelloPacketId, KnownName(m, n + 1), -1, 0, NoAckData)
  <2>1. p = Known(HelloPacketId, [name EXCEPT ![n] = x], -1, 0, NoAckData)
    BY <1>6, <1>8, <1>14 DEF Known
  <2>2. name = [i \in 1 .. l |-> IF i < n THEN m.name[i] ELSE -1]
    BY <1>7, <1>8 DEF KnownName
  <2>3. [name EXCEPT ![n] = x] = [i \in 1 .. l |-> IF i < n + 1 THEN m.name[i] ELSE -1]
    <3>1. [name EXCEPT ![n] = x] = [i \in 1 .. l |-> IF i = n THEN x ELSE name[i]]
      BY <2>2
    <3>2. \A i \in 1 .. l :
            (IF i = n THEN x ELSE name[i]) = IF i < n + 1 THEN m.name[i] ELSE -1
      BY <1>7, <1>8, <1>11
    <3> QED BY <3>1, <3>2
  <2> QED BY <1>7, <2>1, <2>3 DEF KnownName
<1>17. Progress(m, r, next, s.head + 8, p)
  <2>1. CASE n = l
    <3>1. m.name = KnownName(m, n + 1)
      <4>1. m.name = [i \in 1 .. l |-> m.name[i]]
        BY <1>5, <1>7, NameOfHello
      <4>2. KnownName(m, n + 1) = [i \in 1 .. l |-> IF i < n + 1 THEN m.name[i] ELSE -1]
        BY <1>7 DEF KnownName
      <4>3. \A i \in 1 .. l : i < n + 1
        BY <1>7, <2>1
      <4> QED BY <4>1, <4>2, <4>3
    <3>2. p = [m EXCEPT !.ack = Ranges!Written(@)]
      BY <1>5, <1>16, <3>1, HelloIsOver
    <3>3. s.head + 8 = Total(m)
      BY <1>6, <1>7, <1>10, <2>1
    <3> QED BY <1>14, <2>1, <3>2, <3>3 DEF Progress
  <2>2. CASE n # l
    <3>1. n + 1 \in 1 .. Len(m.name) /\ s.head + 8 = 64 + 8 * ((n + 1) - 1)
      BY <1>6, <1>7, <2>2
    <3>2. HelloProgress(m, r, "element", s.head + 8, p)
      BY <1>5, <1>16, <3>1 DEF HelloProgress
    <3> QED BY <1>14, <2>2, <3>2 DEF Progress
  <2> QED BY <2>1, <2>2
<1>18. in.head + 8 <= Total(message) /\ Progress(message, reader, next, in.head + 8, p)
  BY <1>4, <1>12, <1>17
<1> QED BY <1>15, <1>18, Reads

LEMMA ReadPlayerIdKeeps ==
  ASSUME EncodingInv, ReadPlayerId
  PROVE  EncodingInv'
<1>1. expects = "playerId"
  BY DEF ReadPlayerId, Take
<1>2. /\ message \in Message /\ fields = <<>> /\ Datagram(message, in)
      /\ Progress(message, reader, "playerId", in.head, parsed)
      /\ WellFormed(in) /\ in.capacity \in Nat
      /\ Total(message) \in Nat /\ Total(message) <= in.capacity
      /\ InBuffer(message, Len(FieldsOf(message)), in.buffer)
  BY <1>1, IsReading
<1>3. PlayerProgress(message, "playerId", in.head, parsed)
  BY <1>2 DEF Progress, HelloProgress, PlayerProgress, StateProgress
<1>4. PICK m, r, s : m = message /\ r = reader /\ s = in
  OBVIOUS
<1>5. IsOfPlayer(m) /\ s.head = 32 /\ parsed = Known(m.type, <<>>, -1, 0, NoAckData)
  BY <1>3, <1>4 DEF PlayerProgress
<1>6. PICK id : id = m.playerId /\ id \in Int32 /\ id \in Int
  BY <1>5, EncodingAssumption DEF IsOfPlayer, Int32
<1>7. FieldAt(s.buffer, s.head, id, 32) /\ Total(m) = 64
  BY <1>2, <1>4, <1>5, <1>6, PlayerStands
<1>8. Signed(Read(s, 32)) = id
  <2>1. s.head + 32 <= s.capacity /\ WellFormed(s)
    BY <1>2, <1>4, <1>5, <1>7
  <2>2. Read(s, 32) = Bytes(id, 32 \div 8) /\ 32 \div 8 = 4
    BY <1>6, <1>7, <2>1, ReadsField
  <2> QED BY <1>6, <2>2, SignedOfBytes
<1>9. PICK p : p = [parsed EXCEPT !.playerId = id]
  OBVIOUS
<1>10. Take("playerId", 32, p, "nothing")
  BY <1>4, <1>8, <1>9 DEF ReadPlayerId
<1>11. p = Known(m.type, <<>>, m.playerId, 0, NoAckData)
  BY <1>5, <1>6, <1>9 DEF Known
<1>12. p = [m EXCEPT !.ack = Ranges!Written(@)]
  BY <1>5, <1>11, PlayerIsOver
<1>13. in.head + 32 <= Total(message) /\ Progress(message, reader, "nothing", in.head + 32, p)
  BY <1>4, <1>5, <1>7, <1>12 DEF Progress
<1> QED BY <1>10, <1>13, Reads

(* A sequence number, and the start of a range, fit sixteen bits.            *)
LEMMA NumbersOfState ==
  ASSUME NEW m, IsState(m)
  PROVE  /\ m.sequenceNumber \in Nat /\ m.sequenceNumber < 65536
         /\ m.ack.count > 0 => m.ack.start \in Nat /\ m.ack.start < 65536
BY EncodingAssumption DEF IsState, Ranges!EmptyRange, NoAckData

LEMMA ReadSequenceNumberKeeps ==
  ASSUME EncodingInv, ReadSequenceNumber
  PROVE  EncodingInv'
<1>1. expects = "sequenceNumber"
  BY DEF ReadSequenceNumber, Take
<1>2. /\ message \in Message /\ fields = <<>> /\ Datagram(message, in)
      /\ Progress(message, reader, "sequenceNumber", in.head, parsed)
      /\ WellFormed(in) /\ in.capacity \in Nat
      /\ Total(message) \in Nat /\ Total(message) <= in.capacity
      /\ InBuffer(message, Len(FieldsOf(message)), in.buffer)
  BY <1>1, IsReading
<1>3. StateProgress(message, reader, "sequenceNumber", in.head, parsed)
  BY <1>2 DEF Progress, HelloProgress, PlayerProgress, StateProgress
<1>4. PICK m, r, s : m = message /\ r = reader /\ s = in
  OBVIOUS
<1>5. /\ IsState(m) /\ s.head = 32
      /\ r \in AtManager /\ (r = "shouldProcessAcks" <=> m.ack # NoAckData)
      /\ parsed = StateKnown(0, NoAckData)
  BY <1>3, <1>4 DEF StateProgress
<1>6. InBuffer(m, Len(FieldsOf(m)), s.buffer) /\ WellFormed(s)
      /\ s.capacity \in Nat /\ Total(m) \in Nat /\ Total(m) <= s.capacity
  BY <1>2, <1>4
<1>7. /\ m.ack.count \in Nat /\ (m.ack.count > 0 => m.ack # NoAckData)
      /\ Total(m) = StateTotal(m.ack)
  BY <1>5, <1>6, StateStands
<1>8. PICK x : x = m.sequenceNumber /\ x \in Nat /\ x < 65536
  <2>1. m.sequenceNumber \in Nat /\ m.sequenceNumber < 65536
    BY <1>5, NumbersOfState
  <2> QED BY <2>1
<1>9. FieldAt(s.buffer, s.head, x, 16)
  <2>1. FieldAt(s.buffer, 32, m.sequenceNumber, 16)
    BY <1>5, <1>6, StateStands
  <2> QED BY <1>5, <1>8, <2>1
<1>10. Unsigned(Read(s, 16)) = x
  <2>1. s.head + 16 <= s.capacity
    BY <1>5, <1>6, <1>7 DEF StateTotal
  <2> QED BY <1>6, <1>8, <1>9, <2>1, ReadsUnsigned
<1>11. PICK p, next : /\ p = [parsed EXCEPT !.sequenceNumber = x]
                      /\ next = IF r = "shouldProcessAcks" THEN "hasAcks" ELSE "nothing"
  OBVIOUS
<1>12. Take("sequenceNumber", 16, p, next)
  BY <1>4, <1>10, <1>11 DEF ReadSequenceNumber
<1>13. p = StateKnown(m.sequenceNumber, NoAckData)
  BY <1>5, <1>8, <1>11 DEF StateKnown, Known
<1>14. Progress(m, r, next, 48, p)
  <2>1. CASE r = "shouldProcessAcks"
    BY <1>5, <1>11, <1>13, <2>1 DEF Progress, StateProgress
  <2>2. CASE r # "shouldProcessAcks"
    <3>1. next = "nothing" /\ m.ack = NoAckData /\ Total(m) = 48
      BY <1>5, <1>7, <1>11, <2>2 DEF StateTotal
    <3>2. p = [m EXCEPT !.ack = Ranges!Written(@)]
      BY <1>5, <1>13, <3>1, StateIsOver
    <3> QED BY <3>1, <3>2 DEF Progress
  <2> QED BY <2>1, <2>2
<1>15. in.head + 16 <= Total(message) /\ Progress(message, reader, next, in.head + 16, p)
  BY <1>4, <1>5, <1>7, <1>14 DEF StateTotal
<1> QED BY <1>12, <1>15, Reads

LEMMA ReadHasAcksKeeps ==
  ASSUME EncodingInv, ReadHasAcks
  PROVE  EncodingInv'
<1>1. expects = "hasAcks"
  BY DEF ReadHasAcks, Take
<1>2. /\ message \in Message /\ fields = <<>> /\ Datagram(message, in)
      /\ Progress(message, reader, "hasAcks", in.head, parsed)
      /\ WellFormed(in) /\ in.capacity \in Nat
      /\ Total(message) \in Nat /\ Total(message) <= in.capacity
      /\ InBuffer(message, Len(FieldsOf(message)), in.buffer)
  BY <1>1, IsReading
<1>3. StateProgress(message, reader, "hasAcks", in.head, parsed)
  BY <1>2 DEF Progress, HelloProgress, PlayerProgress, StateProgress
<1>4. PICK m, r, s : m = message /\ r = reader /\ s = in
  OBVIOUS
<1>5. /\ IsState(m) /\ s.head = 48
      /\ r \in AtManager /\ (r = "shouldProcessAcks" <=> m.ack # NoAckData)
      /\ parsed = StateKnown(m.sequenceNumber, NoAckData) /\ m.ack # NoAckData
  BY <1>3, <1>4 DEF StateProgress
<1>6. InBuffer(m, Len(FieldsOf(m)), s.buffer) /\ WellFormed(s)
      /\ s.capacity \in Nat /\ Total(m) \in Nat /\ Total(m) <= s.capacity
  BY <1>2, <1>4
<1>7. /\ m.ack.count \in Nat /\ (m.ack.count > 0 => m.ack # NoAckData)
      /\ Total(m) = StateTotal(m.ack)
  BY <1>5, <1>6, StateStands
<1>8. PICK x : x \in {0, 1} /\ (x = 1 <=> m.ack.count > 0) /\ FieldAt(s.buffer, s.head, x, 1)
  <2>1. PICK x : x = IF m.ack.count > 0 THEN 1 ELSE 0
    OBVIOUS
  <2>2. FieldAt(s.buffer, 48, x, 1)
    BY <1>5, <1>6, <2>1, StateStands
  <2> QED BY <1>5, <2>1, <2>2
<1>9. Unsigned(Read(s, 1)) = x
  <2>1. s.head + 1 <= s.capacity
    BY <1>5, <1>6, <1>7 DEF StateTotal
  <2> QED BY <1>6, <1>8, <2>1, ReadsFlag
<1>10. PICK p, next :
         /\ p = IF x = 1 THEN parsed ELSE [parsed EXCEPT !.ack = Ranges!EmptyRange]
         /\ next = IF x = 1 THEN "start" ELSE "nothing"
  OBVIOUS
<1>11. Take("hasAcks", 1, p, next)
  BY <1>4, <1>9, <1>10 DEF ReadHasAcks
<1>12. Progress(m, r, next, 49, p)
  <2>1. CASE x = 1
    BY <1>5, <1>8, <1>10, <2>1 DEF Progress, StateProgress
  <2>2. CASE x = 0
    <3>1. m.ack.count = 0 /\ next = "nothing"
      BY <1>7, <1>8, <1>10, <2>2
    <3>2. p = StateKnown(m.sequenceNumber, Ranges!EmptyRange)
      BY <1>5, <1>10, <2>2 DEF StateKnown, Known
    <3>3. p = [m EXCEPT !.ack = Ranges!Written(@)]
      BY <1>5, <3>1, <3>2, StateIsOver
    <3>4. Total(m) = 49
      BY <1>5, <1>7, <3>1 DEF StateTotal
    <3> QED BY <3>1, <3>3, <3>4 DEF Progress
  <2> QED BY <1>8, <2>1, <2>2
<1>13. in.head + 1 <= Total(message) /\ Progress(message, reader, next, in.head + 1, p)
  BY <1>4, <1>5, <1>7, <1>12 DEF StateTotal
<1> QED BY <1>11, <1>13, Reads

LEMMA ReadStartKeeps ==
  ASSUME EncodingInv, ReadStart
  PROVE  EncodingInv'
<1>1. expects = "start"
  BY DEF ReadStart, Take
<1>2. /\ message \in Message /\ fields = <<>> /\ Datagram(message, in)
      /\ Progress(message, reader, "start", in.head, parsed)
      /\ WellFormed(in) /\ in.capacity \in Nat
      /\ Total(message) \in Nat /\ Total(message) <= in.capacity
      /\ InBuffer(message, Len(FieldsOf(message)), in.buffer)
  BY <1>1, IsReading
<1>3. StateProgress(message, reader, "start", in.head, parsed)
  BY <1>2 DEF Progress, HelloProgress, PlayerProgress, StateProgress
<1>4. PICK m, r, s : m = message /\ r = reader /\ s = in
  OBVIOUS
<1>5. /\ IsState(m) /\ s.head = 49
      /\ r \in AtManager /\ (r = "shouldProcessAcks" <=> m.ack # NoAckData)
      /\ parsed = StateKnown(m.sequenceNumber, NoAckData)
      /\ m.ack.count > 0
  BY <1>3, <1>4 DEF StateProgress
<1>6. InBuffer(m, Len(FieldsOf(m)), s.buffer) /\ WellFormed(s)
      /\ s.capacity \in Nat /\ Total(m) \in Nat /\ Total(m) <= s.capacity
  BY <1>2, <1>4
<1>7. /\ m.ack.count \in Nat /\ (m.ack.count > 0 => m.ack # NoAckData)
      /\ Total(m) = StateTotal(m.ack)
  BY <1>5, <1>6, StateStands
<1>8. PICK x : x = m.ack.start /\ x \in Nat /\ x < 65536
  <2>1. m.ack.start \in Nat /\ m.ack.start < 65536
    BY <1>5, NumbersOfState
  <2> QED BY <2>1
<1>9. FieldAt(s.buffer, s.head, x, 16)
  <2>1. FieldAt(s.buffer, 49, m.ack.start, 16)
    BY <1>5, <1>6, StateStands
  <2> QED BY <1>5, <1>8, <2>1
<1>10. Unsigned(Read(s, 16)) = x
  <2>1. s.head + 16 <= s.capacity
    BY <1>5, <1>6, <1>7 DEF StateTotal
  <2> QED BY <1>6, <1>8, <1>9, <2>1, ReadsUnsigned
<1>11. PICK p : p = [parsed EXCEPT !.ack.start = x]
  OBVIOUS
<1>12. Take("start", 16, p, "hasCount")
  BY <1>4, <1>10, <1>11 DEF ReadStart
<1>13. p = StateKnown(m.sequenceNumber, [start |-> m.ack.start, count |-> 0])
  BY <1>5, <1>8, <1>11 DEF StateKnown, Known, NoAckData
<1>14. Progress(m, r, "hasCount", 65, p)
  BY <1>5, <1>13 DEF Progress, StateProgress
<1>15. in.head + 16 <= Total(message) /\ Progress(message, reader, "hasCount", in.head + 16, p)
  BY <1>4, <1>5, <1>7, <1>14 DEF StateTotal
<1> QED BY <1>12, <1>15, Reads

LEMMA ReadHasCountKeeps ==
  ASSUME EncodingInv, ReadHasCount
  PROVE  EncodingInv'
<1>1. expects = "hasCount"
  BY DEF ReadHasCount, Take
<1>2. /\ message \in Message /\ fields = <<>> /\ Datagram(message, in)
      /\ Progress(message, reader, "hasCount", in.head, parsed)
      /\ WellFormed(in) /\ in.capacity \in Nat
      /\ Total(message) \in Nat /\ Total(message) <= in.capacity
      /\ InBuffer(message, Len(FieldsOf(message)), in.buffer)
  BY <1>1, IsReading
<1>3. StateProgress(message, reader, "hasCount", in.head, parsed)
  BY <1>2 DEF Progress, HelloProgress, PlayerProgress, StateProgress
<1>4. PICK m, r, s : m = message /\ r = reader /\ s = in
  OBVIOUS
<1>5. /\ IsState(m) /\ s.head = 65
      /\ r \in AtManager /\ (r = "shouldProcessAcks" <=> m.ack # NoAckData)
      /\ parsed = StateKnown(m.sequenceNumber, [start |-> m.ack.start, count |-> 0])
      /\ m.ack.count > 0
  BY <1>3, <1>4 DEF StateProgress
<1>6. InBuffer(m, Len(FieldsOf(m)), s.buffer) /\ WellFormed(s)
      /\ s.capacity \in Nat /\ Total(m) \in Nat /\ Total(m) <= s.capacity
  BY <1>2, <1>4
<1>7. /\ m.ack.count \in Nat /\ (m.ack.count > 0 => m.ack # NoAckData)
      /\ Total(m) = StateTotal(m.ack)
  BY <1>5, <1>6, StateStands
<1>8. PICK x : x \in {0, 1} /\ (x = 1 <=> m.ack.count > 1) /\ FieldAt(s.buffer, s.head, x, 1)
  <2>1. PICK x : x = IF m.ack.count > 1 THEN 1 ELSE 0
    OBVIOUS
  <2>2. FieldAt(s.buffer, 65, x, 1)
    BY <1>5, <1>6, <2>1, StateStands
  <2> QED BY <1>5, <2>1, <2>2
<1>9. Unsigned(Read(s, 1)) = x
  <2>1. s.head + 1 <= s.capacity
    BY <1>5, <1>6, <1>7 DEF StateTotal
  <2> QED BY <1>6, <1>8, <2>1, ReadsFlag
<1>10. PICK p, next : /\ p = IF x = 1 THEN parsed ELSE [parsed EXCEPT !.ack.count = 1]
                      /\ next = IF x = 1 THEN "countMinusOne" ELSE "nothing"
  OBVIOUS
<1>11. Take("hasCount", 1, p, next)
  BY <1>4, <1>9, <1>10 DEF ReadHasCount
<1>12. Progress(m, r, next, 66, p)
  <2>1. CASE x = 1
    BY <1>5, <1>8, <1>10, <2>1 DEF Progress, StateProgress
  <2>2. CASE x = 0
    <3>1. m.ack.count = 1 /\ next = "nothing"
      BY <1>5, <1>7, <1>8, <1>10, <2>2
    <3>2. p = StateKnown(m.sequenceNumber, [start |-> m.ack.start, count |-> 1])
      BY <1>5, <1>10, <2>2 DEF StateKnown, Known
    <3>3. p = [m EXCEPT !.ack = Ranges!Written(@)]
      BY <1>5, <3>1, <3>2, StateIsOver
    <3>4. Total(m) = 66
      BY <1>7, <3>1 DEF StateTotal
    <3> QED BY <3>1, <3>3, <3>4 DEF Progress
  <2> QED BY <1>8, <2>1, <2>2
<1>13. in.head + 1 <= Total(message) /\ Progress(message, reader, next, in.head + 1, p)
  BY <1>4, <1>5, <1>7, <1>12 DEF StateTotal
<1> QED BY <1>11, <1>13, Reads

LEMMA ReadCountMinusOneKeeps ==
  ASSUME EncodingInv, ReadCountMinusOne
  PROVE  EncodingInv'
<1>1. expects = "countMinusOne"
  BY DEF ReadCountMinusOne, Take
<1>2. /\ message \in Message /\ fields = <<>> /\ Datagram(message, in)
      /\ Progress(message, reader, "countMinusOne", in.head, parsed)
      /\ WellFormed(in) /\ in.capacity \in Nat
      /\ Total(message) \in Nat /\ Total(message) <= in.capacity
      /\ InBuffer(message, Len(FieldsOf(message)), in.buffer)
  BY <1>1, IsReading
<1>3. StateProgress(message, reader, "countMinusOne", in.head, parsed)
  BY <1>2 DEF Progress, HelloProgress, PlayerProgress, StateProgress
<1>4. PICK m, r, s : m = message /\ r = reader /\ s = in
  OBVIOUS
<1>5. /\ IsState(m) /\ s.head = 66
      /\ r \in AtManager /\ (r = "shouldProcessAcks" <=> m.ack # NoAckData)
      /\ parsed = StateKnown(m.sequenceNumber, [start |-> m.ack.start, count |-> 0])
      /\ m.ack.count > 1
  BY <1>3, <1>4 DEF StateProgress
<1>6. InBuffer(m, Len(FieldsOf(m)), s.buffer) /\ WellFormed(s)
      /\ s.capacity \in Nat /\ Total(m) \in Nat /\ Total(m) <= s.capacity
  BY <1>2, <1>4
<1>7. /\ m.ack.count \in Nat /\ (m.ack.count > 0 => m.ack # NoAckData)
      /\ Total(m) = StateTotal(m.ack)
  BY <1>5, <1>6, StateStands
<1>8. PICK x : x = CountToAck(m.ack) /\ x \in Nat /\ x < 256
  BY <1>5, <1>7 DEF CountToAck
<1>9. FieldAt(s.buffer, s.head, x, 8)
  <2>1. FieldAt(s.buffer, 66, CountToAck(m.ack), 8)
    BY <1>5, <1>6, StateStands
  <2> QED BY <1>5, <1>8, <2>1
<1>10. Unsigned(Read(s, 8)) = x
  <2>1. s.head + 8 <= s.capacity
    BY <1>5, <1>6, <1>7 DEF StateTotal
  <2> QED BY <1>6, <1>8, <1>9, <2>1, ReadsUnsigned
<1>11. PICK p : p = [parsed EXCEPT !.ack.count = x + 1]
  OBVIOUS
<1>12. Take("countMinusOne", 8, p, "nothing")
  BY <1>4, <1>10, <1>11 DEF ReadCountMinusOne
<1>13. p = [m EXCEPT !.ack = Ranges!Written(@)]
  <2>1. p = StateKnown(m.sequenceNumber, [start |-> m.ack.start, count |-> x + 1])
    BY <1>5, <1>11 DEF StateKnown, Known
  <2> QED BY <1>5, <1>8, <2>1, StateIsOver
<1>14. in.head + 8 = Total(message) /\ Progress(message, reader, "nothing", in.head + 8, p)
  BY <1>4, <1>5, <1>7, <1>13 DEF Progress, StateTotal
<1>15. in.head + 8 <= Total(message)
  BY <1>2, <1>14
<1> QED BY <1>12, <1>14, <1>15, Reads

---------------------------------------------------------------------------
(* Theorems *)

LEMMA StepHolds ==
  ASSUME EncodingInv, [Next]_vars
  PROVE  EncodingInv'
<1>1. CASE WriteField
  BY <1>1, WriteFieldKeeps
<1>2. CASE Receive
  BY <1>2, ReceiveKeeps
<1>3. CASE ReadField
  BY <1>3, ReadPacketTypeKeeps, ReadElementCountKeeps, ReadElementKeeps, ReadPlayerIdKeeps,
     ReadSequenceNumberKeeps, ReadHasAcksKeeps, ReadStartKeeps, ReadHasCountKeeps,
     ReadCountMinusOneKeeps DEF ReadField
<1>4. CASE UNCHANGED vars
  <2>1. /\ message' = message /\ reader' = reader /\ fields' = fields /\ out' = out /\ in' = in
        /\ expects' = expects /\ parsed' = parsed
    BY <1>4 DEF vars
  <2>2. Sending' = Sending
    BY <2>1 DEF Sending
  <2>3. Reading' = Reading
    BY <2>1 DEF Reading
  <2> QED BY <2>1, <2>2, <2>3 DEF EncodingInv
<1> QED BY <1>1, <1>2, <1>3, <1>4 DEF Next

(* At every step the bits of what has been written stand in the buffer, and  *)
(* what the reader knows is what the writer meant so far.                    *)
THEOREM EncodingInvHolds == Spec => []EncodingInv
<1>1. Init => EncodingInv
  BY InitHolds
<1>2. EncodingInv /\ [Next]_vars => EncodingInv'
  BY StepHolds
<1> QED BY <1>1, <1>2, PTL DEF Spec

(* What a handler reads of a packet is what was meant: its type, and the     *)
(* whole packet if it reads on; for every packet and every handler it comes  *)
(* to.                                                                       *)
THEOREM UnderstoodHolds == Spec => []Understood
<1>1. EncodingInv => Understood
  <2> SUFFICES ASSUME EncodingInv, expects = "nothing"
               PROVE  /\ parsed.type = message.type
                      /\ in.head > 32 => parsed = [message EXCEPT !.ack = Ranges!Written(@)]
    BY DEF Understood
  <2>1. Reading /\ message \in Message
    BY DEF EncodingInv, Sending
  <2>2. PICK meant, h : meant = [message EXCEPT !.ack = Ranges!Written(@)] /\ h = in.head
    OBVIOUS
  <2>3. (h = 32 /\ parsed.type = message.type) \/ parsed = meant
    BY <2>1, <2>2 DEF Reading, Progress, HelloProgress, PlayerProgress, StateProgress
  <2>4. meant.type = message.type
    BY <2>1, <2>2, MessageKinds DEF IsHello, IsOfPlayer, IsState
  <2>5. parsed.type = message.type /\ (h > 32 => parsed = meant)
    BY <2>3, <2>4
  <2> QED BY <2>2, <2>5
<1> QED BY <1>1, EncodingInvHolds, PTL

(* No handler reads behind the bytes that arrived, whose number nothing      *)
(* checks, and one that reads on behind the type stops where the sender      *)
(* stopped.                                                                  *)
THEOREM ReadsWhatArrivedHolds == Spec => []ReadsWhatArrived
<1>1. EncodingInv => ReadsWhatArrived
  <2> SUFFICES ASSUME EncodingInv PROVE ReadsWhatArrived
    OBVIOUS
  <2>1. CASE Sending
    BY <2>1 DEF Sending, ReadsWhatArrived
  <2>2. CASE Reading
    <3>1. in.head <= in.capacity
      BY <2>2 DEF Reading, Datagram, WellFormed, Streams!WellFormed
    <3>2. expects = "nothing" => in.head = 32 \/ in.head = Total(message)
      BY <2>2 DEF Reading, Progress, HelloProgress, PlayerProgress, StateProgress
    <3>3. out.head = Total(message)
      BY <2>2 DEF Reading
    <3> QED BY <3>1, <3>2, <3>3 DEF ReadsWhatArrived
  <2> QED BY <2>1, <2>2 DEF EncodingInv
<1> QED BY <1>1, EncodingInvHolds, PTL
=============================================================================
