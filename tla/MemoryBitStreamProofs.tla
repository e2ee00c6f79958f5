----------------------- MODULE MemoryBitStreamProofs -----------------------
(***************************************************************************)
(* For every initial capacity, packet memory, field width and data: the    *)
(* streams never leave their buffers, and what is read is what was         *)
(* written.                                                                *)
(***************************************************************************)
EXTENDS MemoryBitStream, TLAPS

\* A stream whose head is inside its whole bytes.
WellFormed(s) ==
  /\ s.capacity \in Nat /\ s.capacity % 8 = 0
  /\ s.head \in 0 .. s.capacity
  /\ s.buffer \in [0 .. s.capacity \div 8 - 1 -> Byte]
  /\ s = [buffer |-> s.buffer, head |-> s.head, capacity |-> s.capacity]

---------------------------------------------------------------------------
(* Arithmetic and bytes *)

(* A position is in the byte that head >> 3 and head & 7 name. *)
LEMMA DivMod ==
  ASSUME NEW k \in Nat
  PROVE  /\ k \div 8 \in Nat /\ k % 8 \in 0 .. 7
         /\ k = 8 * (k \div 8) + (k % 8)
  OBVIOUS

(* Only one byte and one bit of it are at a position. *)
LEMMA DivUnique ==
  ASSUME NEW k \in Nat, NEW q \in Nat, NEW r \in 0 .. 7, k = 8 * q + r
  PROVE  k \div 8 = q /\ k % 8 = r
  OBVIOUS

(* A position inside whole bytes is in one of those bytes. *)
LEMMA ByteInside ==
  ASSUME NEW c \in Nat, c % 8 = 0, NEW k \in Nat, k < c
  PROVE  k \div 8 \in 0 .. c \div 8 - 1
  OBVIOUS

(* The field of n bits behind a head lies in the byte of the head and the next. *)
LEMMA FieldInside ==
  ASSUME NEW c \in Nat, c % 8 = 0, NEW h \in Nat, NEW n \in 1 .. 8, h + n <= c
  PROVE  /\ h \div 8 \in 0 .. c \div 8 - 1
         /\ 8 - (h % 8) < n => h \div 8 + 1 \in 0 .. c \div 8 - 1
<1>1. h \div 8 \in 0 .. c \div 8 - 1
  BY ByteInside
<1>2. ASSUME 8 - (h % 8) < n
      PROVE  h \div 8 + 1 \in 0 .. c \div 8 - 1
  <2> DEFINE k == 8 * (h \div 8 + 1)
  <2>1. h \div 8 \in Nat /\ h % 8 \in 0 .. 7 /\ h = 8 * (h \div 8) + (h % 8)
    BY DivMod
  <2>2. k \in Nat /\ k < c
    BY <1>2, <2>1
  <2>3. k \div 8 = h \div 8 + 1
    BY <2>1, DivUnique
  <2> HIDE DEF k
  <2> QED BY <2>2, <2>3, ByteInside
<1> QED BY <1>1, <1>2

(* The byte operations of WriteBits and ReadBits return bytes. *)
LEMMA BytesStayBytes ==
  ASSUME NEW b \in Byte, NEW d \in Byte, NEW o \in 0 .. 7
  PROVE  ZeroByte \in Byte /\ Behind(b, o, d) \in Byte /\ Shifted(d, o) \in Byte
  BY DEF ZeroByte, Byte, Bit, Behind, Shifted

---------------------------------------------------------------------------
(* WriteBits *)

(* ReallocBuffer, called when a field does not fit, makes enough room and    *)
(* keeps every old byte.                                                     *)
LEMMA RoomIsMade ==
  ASSUME NEW s, WellFormed(s), s.capacity >= 8, NEW n \in 1 .. 8,
         NEW g, g = WithRoomFor(s, s.head + n)
  PROVE  /\ WellFormed(g) /\ g.head = s.head
         /\ s.head + n <= g.capacity /\ s.capacity <= g.capacity
         /\ \A i \in 0 .. s.capacity \div 8 - 1 : g.buffer[i] = s.buffer[i]
<1> DEFINE L == Larger(s.capacity * 2, s.head + n)
<1>1. CASE s.head + n <= s.capacity
  <2>1. g = s
    BY <1>1 DEF WithRoomFor, WellFormed
  <2> QED BY <1>1, <2>1 DEF WellFormed
<1>2. CASE s.head + n > s.capacity
  <2>1. L = s.capacity * 2
    BY DEF Larger, WellFormed
  <2> DEFINE moved == [i \in 0 .. L \div 8 - 1 |->
                         IF i < s.capacity \div 8 THEN s.buffer[i] ELSE ZeroByte]
  <2>2. g = [buffer |-> moved, head |-> s.head, capacity |-> L]
    BY <1>2 DEF WithRoomFor, ReallocBuffer, WellFormed
  <2>3. L \in Nat /\ L % 8 = 0 /\ L \div 8 = 2 * (s.capacity \div 8)
    BY <2>1 DEF WellFormed
  <2> HIDE DEF L
  <2>4. ZeroByte \in Byte
    BY DEF ZeroByte, Byte, Bit
  <2>5. g.buffer \in [0 .. L \div 8 - 1 -> Byte]
    BY <2>2, <2>3, <2>4, SMTT(30) DEF WellFormed
  <2>6. WellFormed(g)
    BY <2>1, <2>2, <2>3, <2>5 DEF WellFormed
  <2>7. s.head + n <= L /\ s.capacity <= L
    BY <1>2, <2>1 DEF WellFormed
  <2>8. \A i \in 0 .. s.capacity \div 8 - 1 : g.buffer[i] = s.buffer[i]
    <3> SUFFICES ASSUME NEW i \in 0 .. s.capacity \div 8 - 1
                 PROVE  g.buffer[i] = s.buffer[i]
      OBVIOUS
    <3>1. s.capacity \div 8 \in Nat
      BY DEF WellFormed
    <3>2. i \in 0 .. L \div 8 - 1 /\ i < s.capacity \div 8
      BY <2>3, <3>1
    <3>3. moved[i] = s.buffer[i]
      BY <3>2
    <3> HIDE DEF moved
    <3> QED BY <2>2, <3>3
  <2> QED BY <2>2, <2>6, <2>7, <2>8
<1> QED BY <1>1, <1>2, SMTT(30) DEF WellFormed

\* t is s with the first n bits of the byte d put behind the head.
Appended(s, d, n, t) ==
  /\ WellFormed(t) /\ t.capacity >= 8 /\ t.head = s.head + n
  /\ s.capacity <= t.capacity
  /\ \A k \in 0 .. s.head - 1 : BitAt(t.buffer, k) = BitAt(s.buffer, k)
  /\ \A i \in 0 .. n - 1 : BitAt(t.buffer, s.head + i) = d[i]

(* WriteBits puts the first bits of the byte behind the head and disturbs    *)
(* nothing in front of it.                                                   *)
LEMMA WriteBitsAppends ==
  ASSUME NEW s, WellFormed(s), s.capacity >= 8, NEW d \in Byte, NEW n \in 1 .. 8
  PROVE  Appended(s, d, n, WriteBits(s, d, n))
<1>0. PICK t : t = WriteBits(s, d, n)
  OBVIOUS
<1> DEFINE g == WithRoomFor(s, s.head + n)
           byteOffset == s.head \div 8
           bitOffset == s.head % 8
           first == [g.buffer EXCEPT ![byteOffset] = Behind(@, bitOffset, d)]
           bytes == IF 8 - bitOffset < n
                    THEN [first EXCEPT ![byteOffset + 1] = Shifted(d, 8 - bitOffset)]
                    ELSE first
<1>1. t = [buffer |-> bytes, head |-> s.head + n, capacity |-> g.capacity]
  BY <1>0 DEF WriteBits
<1>2. /\ WellFormed(g) /\ g.head = s.head
      /\ s.head + n <= g.capacity /\ s.capacity <= g.capacity
      /\ \A i \in 0 .. s.capacity \div 8 - 1 : g.buffer[i] = s.buffer[i]
  BY RoomIsMade
<1> HIDE DEF g
<1>3. s.head \in Nat /\ byteOffset \in Nat /\ bitOffset \in 0 .. 7
      /\ s.head = 8 * byteOffset + bitOffset
  BY DivMod DEF WellFormed
<1>4. byteOffset \in 0 .. g.capacity \div 8 - 1
      /\ (8 - bitOffset < n => byteOffset + 1 \in 0 .. g.capacity \div 8 - 1)
  BY <1>2, <1>3, FieldInside DEF WellFormed
<1> HIDE DEF byteOffset, bitOffset
<1>5. g.buffer \in [0 .. g.capacity \div 8 - 1 -> Byte]
  BY <1>2 DEF WellFormed
<1>6. first \in [0 .. g.capacity \div 8 - 1 -> Byte]
  BY <1>3, <1>4, <1>5, BytesStayBytes
<1>7. bytes \in [0 .. g.capacity \div 8 - 1 -> Byte]
  <2>1. 8 - bitOffset < n => 8 - bitOffset \in 0 .. 7
    BY <1>3
  <2>2. 8 - bitOffset < n => Shifted(d, 8 - bitOffset) \in Byte
    BY <2>1, BytesStayBytes
  <2> QED BY <1>4, <1>6, <2>2
<1>8. WellFormed(t) /\ t.capacity >= 8
  <2>1. /\ t.capacity = g.capacity /\ t.head = s.head + n /\ t.buffer = bytes
        /\ t = [buffer |-> t.buffer, head |-> t.head, capacity |-> t.capacity]
    BY <1>1
  <2> HIDE DEF bytes
  <2> QED BY <1>2, <1>3, <1>7, <2>1, SMTT(30) DEF WellFormed
<1>9. first[byteOffset] = Behind(g.buffer[byteOffset], bitOffset, d)
      /\ \A j \in 0 .. g.capacity \div 8 - 1 : j # byteOffset => first[j] = g.buffer[j]
  BY <1>4, <1>5
<1>10. /\ \A j \in 0 .. g.capacity \div 8 - 1 :
            j # byteOffset + 1 => bytes[j] = first[j]
       /\ 8 - bitOffset < n => bytes[byteOffset + 1] = Shifted(d, 8 - bitOffset)
  BY <1>4, <1>6
<1> HIDE DEF first, bytes
<1>11. ASSUME NEW k \in 0 .. s.head - 1
       PROVE  BitAt(t.buffer, k) = BitAt(s.buffer, k)
  <2>1. /\ k \div 8 \in 0 .. s.capacity \div 8 - 1 /\ k \div 8 \in 0 .. g.capacity \div 8 - 1
        /\ k \div 8 <= byteOffset /\ k % 8 \in 0 .. 7
        /\ (k \div 8 = byteOffset => k % 8 < bitOffset)
    <3>1. k \div 8 \in Nat /\ k % 8 \in 0 .. 7 /\ k = 8 * (k \div 8) + (k % 8)
      BY <1>3, DivMod
    <3>2. k \div 8 \in 0 .. s.capacity \div 8 - 1
      BY <1>3, ByteInside DEF WellFormed
    <3>3. k \div 8 \in 0 .. g.capacity \div 8 - 1
      BY <1>2, <1>3, ByteInside, SMTT(30) DEF WellFormed
    <3>4. k \div 8 <= byteOffset /\ (k \div 8 = byteOffset => k % 8 < bitOffset)
      BY <1>3, <3>1
    <3> QED BY <3>1, <3>2, <3>3, <3>4
  <2>2. bytes[k \div 8] = first[k \div 8]
    BY <1>3, <1>10, <2>1
  <2>3. g.buffer[k \div 8] = s.buffer[k \div 8]
    BY <1>2, <2>1
  <2>4. CASE k \div 8 = byteOffset
    BY <1>1, <1>9, <2>1, <2>2, <2>3, <2>4 DEF BitAt, Behind
  <2>5. CASE k \div 8 # byteOffset
    BY <1>1, <1>9, <2>1, <2>2, <2>3, <2>5 DEF BitAt
  <2> QED BY <2>4, <2>5
<1>12. ASSUME NEW i \in 0 .. n - 1
       PROVE  BitAt(t.buffer, s.head + i) = d[i]
  <2>1. CASE bitOffset + i < 8
    <3>1. (s.head + i) \div 8 = byteOffset /\ (s.head + i) % 8 = bitOffset + i
      BY <1>3, <2>1, DivUnique
    <3>2. bytes[byteOffset] = Behind(g.buffer[byteOffset], bitOffset, d)
      BY <1>3, <1>4, <1>9, <1>10
    <3>3. Behind(g.buffer[byteOffset], bitOffset, d)[bitOffset + i] = d[i]
      BY <1>3, <2>1 DEF Behind
    <3> QED BY <1>1, <3>1, <3>2, <3>3 DEF BitAt
  <2>2. CASE bitOffset + i >= 8
    <3>1. (s.head + i) \div 8 = byteOffset + 1 /\ (s.head + i) % 8 = bitOffset + i - 8
      BY <1>3, <2>2
    <3>2. 8 - bitOffset < n
      BY <1>3, <2>2
    <3>3. Shifted(d, 8 - bitOffset)[bitOffset + i - 8] = d[i]
      BY <1>3, <2>2 DEF Shifted
    <3> QED BY <1>1, <1>10, <3>1, <3>2, <3>3 DEF BitAt
  <2> QED BY <1>3, <2>1, <2>2
<1> QED BY <1>0, <1>1, <1>2, <1>8, <1>11, <1>12 DEF Appended

---------------------------------------------------------------------------
(* ReadBits *)

(* ReadBits returns the bits behind the head, and zeros above them.          *)
LEMMA ReadBitsReturns ==
  ASSUME NEW s, WellFormed(s), NEW n \in 1 .. 8, s.head + n <= s.capacity
  PROVE  /\ ReadBits(s, n) \in Byte
         /\ \A i \in 0 .. n - 1 : ReadBits(s, n)[i] = BitAt(s.buffer, s.head + i)
         /\ \A i \in n .. 7 : ReadBits(s, n)[i] = 0
<1> DEFINE byteOffset == s.head \div 8
           bitOffset == s.head % 8
           low == Shifted(s.buffer[byteOffset], bitOffset)
<1>1. s.head \in Nat /\ byteOffset \in Nat /\ bitOffset \in 0 .. 7
      /\ s.head = 8 * byteOffset + bitOffset
  BY DivMod, SMTT(30) DEF WellFormed
<1>2. byteOffset \in 0 .. s.capacity \div 8 - 1
      /\ (8 - bitOffset < n => byteOffset + 1 \in 0 .. s.capacity \div 8 - 1)
  BY <1>1, FieldInside DEF WellFormed
<1>3. ReadBits(s, n) =
        [i \in 0 .. 7 |->
           IF i >= n THEN 0
           ELSE IF 8 - bitOffset < n /\ i >= 8 - bitOffset
           THEN s.buffer[byteOffset + 1][i - (8 - bitOffset)]
           ELSE low[i]]
  BY DEF ReadBits
<1> HIDE DEF byteOffset, bitOffset
<1>4. s.buffer[byteOffset] \in Byte
      /\ (8 - bitOffset < n => s.buffer[byteOffset + 1] \in Byte)
  BY <1>2 DEF WellFormed
<1>5. ASSUME NEW i \in 0 .. n - 1
      PROVE  ReadBits(s, n)[i] = BitAt(s.buffer, s.head + i)
  <2>1. CASE bitOffset + i < 8
    <3>1. (s.head + i) \div 8 = byteOffset /\ (s.head + i) % 8 = bitOffset + i
      BY <1>1, <2>1
    <3>2. low[i] = s.buffer[byteOffset][bitOffset + i]
      BY <1>1, <2>1 DEF Shifted
    <3>3. ReadBits(s, n)[i] = low[i]
      BY <1>1, <1>3, <2>1
    <3> QED BY <3>1, <3>2, <3>3 DEF BitAt
  <2>2. CASE bitOffset + i >= 8
    <3>1. (s.head + i) \div 8 = byteOffset + 1 /\ (s.head + i) % 8 = bitOffset + i - 8
      BY <1>1, <2>2
    <3>2. ReadBits(s, n)[i] = s.buffer[byteOffset + 1][i - (8 - bitOffset)]
      BY <1>1, <1>3, <2>2
    <3>3. i - (8 - bitOffset) = bitOffset + i - 8
      BY <1>1
    <3> QED BY <3>1, <3>2, <3>3 DEF BitAt
  <2> QED BY <1>1, <2>1, <2>2
<1>6. \A i \in n .. 7 : ReadBits(s, n)[i] = 0
  BY <1>3
<1>7. ReadBits(s, n) \in Byte
  <2>1. low \in Byte
    BY <1>1, <1>4, BytesStayBytes
  <2> HIDE DEF low
  <2> QED BY <1>1, <1>3, <1>4, <2>1 DEF Byte, Bit
<1> QED BY <1>5, <1>6, <1>7

---------------------------------------------------------------------------
(* The inductive invariant *)

(* What the reader holds is a prefix of what the writer holds, and what was  *)
(* read is what lies in front of the reader's head.                          *)
Arrived ==
  /\ in.capacity <= out.capacity
  /\ arrived => \A i \in 0 .. in.capacity \div 8 - 1 : in.buffer[i] = out.buffer[i]
  /\ ~arrived => in.head = 0
  /\ \A k \in 0 .. Len(read) - 1 : BitAt(in.buffer, k) = read[k + 1]

StreamInv == StreamTypeOK /\ Intact /\ Arrived

(* The two ways of saying that a stream is well formed. *)
LEMMA StreamIsWellFormed ==
  ASSUME NEW s
  PROVE  WellFormed(s) <=>
           s.capacity \in Nat /\ s.capacity % 8 = 0 /\ s \in Stream(s.capacity)
  BY DEF WellFormed, Stream

LEMMA StreamInvInit == ASSUME Init PROVE StreamInv
<1>1. ZeroByte \in Byte
  BY DEF ZeroByte, Byte, Bit
<1>2. WellFormed(out) /\ out.capacity >= 8
  BY <1>1, StreamAssumption DEF Init, WellFormed
<1>3. WellFormed(in)
  BY <1>1 DEF Init, WellFormed
<1>4. written \in Seq(Bit) /\ Len(written) = 0 /\ read \in Seq(Bit) /\ Len(read) = 0
  BY DEF Init
<1>5. StreamTypeOK
  BY <1>1, <1>2, <1>3, <1>4, StreamIsWellFormed DEF Init, StreamTypeOK
<1>6. Intact /\ Arrived
  BY <1>4, StreamAssumption DEF Init, Intact, Arrived
<1> QED BY <1>5, <1>6 DEF StreamInv

\* The history r is h with the first n bits of the byte b behind it.
BitsAppended(h, b, n, r) ==
  /\ r \in Seq(Bit) /\ Len(r) = Len(h) + n
  /\ \A k \in 0 .. Len(h) - 1 : r[k + 1] = h[k + 1]
  /\ \A i \in 0 .. n - 1 : r[Len(h) + i + 1] = b[i]

(* The bits that a step appends to a history. *)
LEMMA FirstBitsAppended ==
  ASSUME NEW h \in Seq(Bit), NEW b \in Byte, NEW n \in 1 .. 8
  PROVE  BitsAppended(h, b, n, h \o FirstBits(b, n))
<1>1. FirstBits(b, n) \in Seq(Bit) /\ Len(FirstBits(b, n)) = n
      /\ \A i \in 0 .. n - 1 : FirstBits(b, n)[i + 1] = b[i]
  <2>1. FirstBits(b, n) \in [1 .. n -> Bit]
    BY DEF FirstBits, Byte
  <2>2. FirstBits(b, n) \in Seq(Bit) /\ Len(FirstBits(b, n)) = n
    BY <2>1
  <2> QED BY <2>2 DEF FirstBits
<1> QED BY <1>1 DEF BitsAppended

(* A field's loop moves between one and eight bits at a time. *)
LEMMA NextBitCountRange ==
  ASSUME inBitCount \in Nat, inBitCount > 0
  PROVE  NextBitCount \in 1 .. 8 /\ NextBitCount <= inBitCount
  BY DEF NextBitCount

LEMMA WriteByteStep ==
  ASSUME StreamInv, NEW byte \in Data, WriteByte(byte)
  PROVE  StreamInv'
<1>0. PICK n : n = NextBitCount
  OBVIOUS
<1>1. n \in 1 .. 8 /\ n <= inBitCount /\ byte \in Byte
  BY <1>0, NextBitCountRange, StreamAssumption DEF StreamInv, StreamTypeOK, WriteByte
<1>2. WellFormed(out) /\ out.capacity >= 8
  BY StreamIsWellFormed DEF StreamInv, StreamTypeOK
<1>3. /\ out' = WriteBits(out, byte, n) /\ inBitCount' = inBitCount - n
      /\ written' = written \o FirstBits(byte, n)
      /\ ~arrived /\ UNCHANGED <<in, arrived, outData, read>>
  BY <1>0 DEF WriteByte
<1>4. /\ WellFormed(out') /\ out'.capacity >= 8 /\ out'.head = out.head + n
      /\ out.capacity <= out'.capacity
      /\ \A k \in 0 .. out.head - 1 : BitAt(out'.buffer, k) = BitAt(out.buffer, k)
      /\ \A i \in 0 .. n - 1 : BitAt(out'.buffer, out.head + i) = byte[i]
  BY <1>1, <1>2, <1>3, WriteBitsAppends DEF Appended
<1>5. /\ written' \in Seq(Bit) /\ Len(written') = Len(written) + n
      /\ \A k \in 0 .. Len(written) - 1 : written'[k + 1] = written[k + 1]
      /\ \A i \in 0 .. n - 1 : written'[Len(written) + i + 1] = byte[i]
  BY <1>1, <1>3, FirstBitsAppended DEF BitsAppended, StreamInv, StreamTypeOK
<1>6. StreamTypeOK'
  BY <1>1, <1>3, <1>4, <1>5, StreamIsWellFormed DEF StreamInv, StreamTypeOK
<1>7. Intact'
  <2> SUFFICES ASSUME NEW k \in 0 .. Len(written') - 1
               PROVE  BitAt(out'.buffer, k) = written'[k + 1]
    BY DEF Intact
  <2>0. Len(written) = out.head /\ out.head \in Nat
    BY <1>2 DEF StreamInv, StreamTypeOK, WellFormed
  <2>1. Len(written) = out.head /\ out.head \in Nat /\ k \in 0 .. out.head + n - 1
    BY <1>1, <1>5, <2>0
  <2>2. CASE k < Len(written)
    <3>1. k \in 0 .. Len(written) - 1
      BY <1>1, <2>1, <2>2
    <3>2. BitAt(out.buffer, k) = written[k + 1]
      BY <3>1 DEF StreamInv, Intact
    <3> QED BY <1>4, <1>5, <2>1, <3>1, <3>2
  <2>3. CASE k >= Len(written)
    <3> DEFINE i == k - Len(written)
    <3>1. i \in 0 .. n - 1 /\ k = out.head + i /\ k + 1 = Len(written) + i + 1
      BY <1>1, <2>1, <2>3
    <3> HIDE DEF i
    <3> QED BY <1>4, <1>5, <3>1
  <2> QED BY <2>1, <2>2, <2>3
<1>8. Arrived'
  <2>1. in.capacity <= out.capacity /\ in.capacity \in Nat /\ out.capacity \in Nat
        /\ out'.capacity \in Nat
    BY <1>4 DEF StreamInv, Arrived, StreamTypeOK, WellFormed
  <2>2. in'.capacity <= out'.capacity
    BY <1>3, <1>4, <2>1
  <2> QED BY <1>3, <2>2 DEF StreamInv, Arrived
<1> QED BY <1>6, <1>7, <1>8 DEF StreamInv

LEMMA ArriveStep ==
  ASSUME StreamInv, Arrive
  PROVE  StreamInv'
<1> DEFINE byteCount == IF GetByteLength > PacketMem THEN PacketMem ELSE GetByteLength
<1>1. WellFormed(out) /\ out.capacity >= 8
  BY StreamIsWellFormed DEF StreamInv, StreamTypeOK
<1>2. out.head \in Nat /\ GetByteLength \in Nat /\ GetByteLength <= out.capacity \div 8
  BY <1>1 DEF GetByteLength, WellFormed
<1>3. byteCount \in Nat /\ byteCount <= out.capacity \div 8
  BY <1>1, <1>2, StreamAssumption DEF WellFormed
<1>4. /\ arrived' /\ inBitCount = 0
      /\ in' = [buffer |-> [i \in 0 .. byteCount - 1 |-> out.buffer[i]],
                head |-> 0, capacity |-> byteCount * 8]
      /\ UNCHANGED <<out, inBitCount, outData, written, read>>
  BY DEF Arrive
<1> HIDE DEF byteCount
<1>5. byteCount * 8 \in Nat /\ (byteCount * 8) % 8 = 0 /\ (byteCount * 8) \div 8 = byteCount
      /\ byteCount * 8 <= out.capacity
  BY <1>1, <1>3 DEF WellFormed
<1>6. in'.buffer \in [0 .. byteCount - 1 -> Byte]
  BY <1>1, <1>3, <1>4 DEF WellFormed
<1>7. in'.capacity = byteCount * 8 /\ in'.head = 0
      /\ \A i \in 0 .. byteCount - 1 : in'.buffer[i] = out.buffer[i]
  BY <1>4
<1>8. WellFormed(in')
  BY <1>3, <1>4, <1>5, <1>6, <1>7 DEF WellFormed
<1>9. Len(read) = 0
  BY DEF StreamInv, Arrived, StreamTypeOK, Arrive
<1>10. StreamTypeOK'
  BY <1>4, <1>7, <1>8, <1>5, <1>9, StreamIsWellFormed DEF StreamInv, StreamTypeOK, Arrive
<1>11. Intact'
  BY <1>4 DEF StreamInv, Intact
<1>12. Arrived'
  BY <1>4, <1>5, <1>7, <1>9 DEF Arrived
<1> QED BY <1>10, <1>11, <1>12 DEF StreamInv

LEMMA ReadByteStep ==
  ASSUME StreamInv, ReadByte
  PROVE  StreamInv'
<1>0. PICK n : n = NextBitCount
  OBVIOUS
<1>1. n \in 1 .. 8 /\ n <= inBitCount
  BY <1>0, NextBitCountRange DEF StreamInv, StreamTypeOK, ReadByte
<1>2. WellFormed(in)
  BY StreamIsWellFormed DEF StreamInv, StreamTypeOK
<1>3. /\ outData' = ReadBits(in, n) /\ in' = [buffer |-> in.buffer, head |-> in.head + n, capacity |-> in.capacity]
      /\ inBitCount' = inBitCount - n /\ read' = read \o FirstBits(outData', n)
      /\ arrived /\ UNCHANGED <<out, arrived, written>>
  BY <1>0 DEF ReadByte
<1>4. in.head \in Nat /\ in.head + inBitCount <= in.capacity /\ Len(read) = in.head
      /\ inBitCount \in Nat /\ in.capacity \in Nat
  BY <1>2, <1>3 DEF StreamInv, StreamTypeOK, WellFormed
<1>5. in.head + n <= in.capacity
  BY <1>1, <1>4
<1>6. /\ outData' \in Byte
      /\ \A i \in 0 .. n - 1 : outData'[i] = BitAt(in.buffer, in.head + i)
  BY <1>1, <1>2, <1>3, <1>5, ReadBitsReturns
<1>7. /\ in'.buffer = in.buffer /\ in'.head = in.head + n /\ in'.capacity = in.capacity
      /\ in' = [buffer |-> in'.buffer, head |-> in'.head, capacity |-> in'.capacity]
  BY <1>2, <1>3 DEF WellFormed
<1>8. WellFormed(in')
  BY <1>1, <1>2, <1>4, <1>5, <1>7, SMTT(30) DEF WellFormed
<1>9. /\ read' \in Seq(Bit) /\ Len(read') = Len(read) + n
      /\ \A k \in 0 .. Len(read) - 1 : read'[k + 1] = read[k + 1]
      /\ \A i \in 0 .. n - 1 : read'[Len(read) + i + 1] = outData'[i]
  BY <1>1, <1>3, <1>6, FirstBitsAppended DEF BitsAppended, StreamInv, StreamTypeOK
<1>10. StreamTypeOK'
  BY <1>1, <1>3, <1>4, <1>6, <1>7, <1>8, <1>9, StreamIsWellFormed DEF StreamInv, StreamTypeOK
<1>11. Intact'
  BY <1>3 DEF StreamInv, Intact
<1>12. \A k \in 0 .. Len(read') - 1 : BitAt(in'.buffer, k) = read'[k + 1]
  <2> SUFFICES ASSUME NEW k \in 0 .. Len(read') - 1
               PROVE  BitAt(in.buffer, k) = read'[k + 1]
    BY <1>7
  <2>0. /\ Len(read') = Len(read) + n /\ n \in Nat
        /\ Len(read) \in Nat /\ in.head = Len(read)
    BY <1>1, <1>4, <1>9
  <2>1. CASE k < Len(read)
    <3>1. k \in 0 .. Len(read) - 1
      BY <2>0, <2>1
    <3> QED BY <1>9, <3>1 DEF StreamInv, Arrived
  <2>2. CASE k >= Len(read)
    <3> DEFINE i == k - Len(read)
    <3>1. i \in 0 .. n - 1 /\ k = in.head + i /\ k + 1 = Len(read) + i + 1
      BY <2>0, <2>2
    <3> HIDE DEF i
    <3> QED BY <1>6, <1>9, <3>1
  <2> QED BY <1>4, <2>1, <2>2
<1>13. Arrived'
  BY <1>3, <1>7, <1>12 DEF StreamInv, Arrived
<1> QED BY <1>10, <1>11, <1>13 DEF StreamInv

LEMMA StreamInvStep == StreamInv /\ [Next]_vars => StreamInv'
<1> SUFFICES ASSUME StreamInv, [Next]_vars PROVE StreamInv'
  OBVIOUS
<1>1. ASSUME NEW width \in FieldWidth, BeginWrite(width)
      PROVE  StreamInv'
  BY <1>1, StreamAssumption DEF BeginWrite, StreamInv, StreamTypeOK, Intact, Arrived
<1>2. ASSUME NEW width \in FieldWidth, BeginRead(width)
      PROVE  StreamInv'
  BY <1>2, StreamAssumption DEF BeginRead, StreamInv, StreamTypeOK, Intact, Arrived
<1>3. CASE UNCHANGED vars
  BY <1>3 DEF vars, StreamInv, StreamTypeOK, Intact, Arrived
<1> QED BY <1>1, <1>2, <1>3, WriteByteStep, ArriveStep, ReadByteStep DEF Next

(* What is read agrees with what was written, by way of the two buffers.     *)
LEMMA StreamInvGivesReadIsWritten == ASSUME StreamInv PROVE ReadIsWritten
<1> SUFFICES ASSUME NEW k \in 1 .. Len(read), k <= Len(written)
             PROVE  read[k] = written[k]
  BY DEF ReadIsWritten
<1> DEFINE j == k - 1
<1>1. Len(read) \in Nat /\ Len(written) \in Nat /\ Len(read) = in.head
  BY DEF StreamInv, StreamTypeOK
<1>2. j \in 0 .. Len(read) - 1 /\ j \in 0 .. Len(written) - 1 /\ k = j + 1
  BY <1>1
<1> HIDE DEF j
<1>3. BitAt(in.buffer, j) = read[k] /\ BitAt(out.buffer, j) = written[k]
  BY <1>2 DEF StreamInv, Arrived, Intact
<1>4. WellFormed(in)
  BY StreamIsWellFormed DEF StreamInv, StreamTypeOK
<1>5. j \div 8 \in 0 .. in.capacity \div 8 - 1
  BY <1>1, <1>2, <1>4, ByteInside DEF WellFormed
<1>6. arrived
  BY <1>1, <1>2 DEF StreamInv, Arrived
<1>7. in.buffer[j \div 8] = out.buffer[j \div 8]
  BY <1>5, <1>6 DEF StreamInv, Arrived
<1> QED BY <1>3, <1>7 DEF BitAt

---------------------------------------------------------------------------
(* Type correctness: neither stream's head leaves its buffer, and every byte *)
(* of a buffer, moved or not, is a byte (MemoryBitStream.cpp).               *)
THEOREM StreamTypeCorrect == Spec => []StreamTypeOK
<1>1. StreamInv => StreamTypeOK
  BY DEF StreamInv
<1> QED BY <1>1, StreamInvInit, StreamInvStep, PTL DEF Spec

(* Every bit that WriteBits wrote stays at its position, whatever fields     *)
(* follow and however often ReallocBuffer moves the buffer.                  *)
THEOREM WrittenBitsStayIntact == Spec => []Intact
<1>1. StreamInv => Intact
  BY DEF StreamInv
<1> QED BY <1>1, StreamInvInit, StreamInvStep, PTL DEF Spec

(* ReadBits returns, in order, the bits that WriteBits was given, for any    *)
(* two ways of cutting them into fields.                                     *)
THEOREM StreamsAgree == Spec => []ReadIsWritten
<1>1. Spec => []StreamInv
  BY StreamInvInit, StreamInvStep, PTL DEF Spec
<1>2. StreamInv => ReadIsWritten
  BY StreamInvGivesReadIsWritten
<1> QED BY <1>1, <1>2, PTL

(* The bytes that are sent and kept hold every bit that was written, up to   *)
(* the size of packetMem: GetByteLength rounds up (MemoryBitStream.h:38).    *)
THEOREM NothingIsCut == Spec => []NothingCut
<1>1. Init => NothingCut
  BY DEF Init, NothingCut
<1>2. StreamInv /\ NothingCut /\ [Next]_vars => NothingCut'
  <2> SUFFICES ASSUME StreamInv, NothingCut, [Next]_vars PROVE NothingCut'
    OBVIOUS
  <2>1. CASE Arrive
    <3>1. out.head \in Nat /\ PacketMem \in Nat
      BY StreamAssumption DEF StreamInv, StreamTypeOK, Stream
    <3>2. GetByteLength \in Nat /\ 8 * GetByteLength >= out.head
          /\ (GetByteLength > PacketMem <=> out.head > 8 * PacketMem)
      BY <3>1 DEF GetByteLength
    <3>3. in'.capacity = (IF GetByteLength > PacketMem THEN PacketMem ELSE GetByteLength) * 8
          /\ out' = out
      BY <2>1 DEF Arrive
    <3> HIDE DEF GetByteLength
    <3> QED BY <3>1, <3>2, <3>3 DEF NothingCut
  <2>2. ASSUME NEW byte \in Data, WriteByte(byte) PROVE NothingCut'
    BY <2>2 DEF WriteByte, NothingCut
  <2>3. CASE ReadByte
    BY <2>3 DEF ReadByte, NothingCut
  <2>4. ASSUME NEW width \in FieldWidth, BeginWrite(width) \/ BeginRead(width)
        PROVE  NothingCut'
    BY <2>4 DEF BeginWrite, BeginRead, NothingCut
  <2>5. CASE UNCHANGED vars
    BY <2>5 DEF vars, NothingCut
  <2> QED BY <2>1, <2>2, <2>3, <2>4, <2>5 DEF Next
<1> QED BY <1>1, <1>2, StreamInvInit, StreamInvStep, PTL DEF Spec

(* ReadBits masks its result: no bit of the neighbouring field shows.        *)
THEOREM ReadsStayInTheirField == Spec => ReadStaysInField
<1> DEFINE A == \A n \in 1 .. 8 : Len(read') = Len(read) + n =>
                  \A i \in n .. 7 : outData'[i] = 0
<1>1. StreamInv /\ [Next]_vars => [A]_vars
  <2> SUFFICES ASSUME StreamInv, Next PROVE A
    OBVIOUS
  <2>0. Len(read) \in Nat
    BY DEF StreamInv, StreamTypeOK
  <2>1. CASE ReadByte
    <3>1. NextBitCount \in 1 .. 8 /\ NextBitCount <= inBitCount
      BY <2>1, NextBitCountRange DEF StreamInv, StreamTypeOK, ReadByte
    <3>2. WellFormed(in) /\ in.head + NextBitCount <= in.capacity
      <4>1. WellFormed(in)
        BY StreamIsWellFormed DEF StreamInv, StreamTypeOK
      <4>2. in.head + inBitCount <= in.capacity /\ inBitCount \in Nat
        BY <2>1 DEF StreamInv, StreamTypeOK, ReadByte
      <4> QED BY <3>1, <4>1, <4>2, SMTT(30) DEF WellFormed
    <3>3. /\ outData' \in Byte
          /\ \A i \in NextBitCount .. 7 : outData'[i] = 0
      BY <2>1, <3>1, <3>2, ReadBitsReturns DEF ReadByte
    <3>4. Len(read') = Len(read) + NextBitCount
      BY <2>1, <3>1, <3>3, FirstBitsAppended DEF BitsAppended, StreamInv, StreamTypeOK, ReadByte
    <3> HIDE DEF NextBitCount
    <3> QED BY <2>0, <3>1, <3>3, <3>4
  <2>2. CASE read' = read
    BY <2>0, <2>2
  <2>3. \/ ReadByte \/ read' = read
    BY DEF Next, BeginWrite, BeginRead, WriteByte, Arrive
  <2> QED BY <2>1, <2>2, <2>3
<1>2. Spec => []StreamInv
  BY StreamInvInit, StreamInvStep, PTL DEF Spec
<1>3. ReadStaysInField <=> [][A]_vars
  BY DEF ReadStaysInField
<1> QED BY <1>1, <1>2, <1>3, PTL DEF Spec
=============================================================================
