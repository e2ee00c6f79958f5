--------------------------- MODULE PacketEncoding ---------------------------
(***************************************************************************)
(* The packets of the game, field by field: what the senders write to an   *)
(* OutputMemoryBitStream and what the handler that gets the packet makes   *)
(* of the bytes.  It decides from what it has read what to read next, and  *)
(* leaves alone what it has no use for.                                    *)
(***************************************************************************)
EXTENDS BitStreams, Sequences

CONSTANTS
  InitialCapacity,    \* bits of a new OutputMemoryBitStream
  Names,              \* names of clients, sequences of characters
  PlayerIds,          \* ints, -1 of a client that is not welcomed included
  SequenceNumbers,    \* some PacketSequenceNumbers
  Counts              \* numbers that an AckRange may hold, 0 for no acks

Char == {c \in Nat : c <= 255}

\* The values of an int.
Int32 == {n \in Int : -2147483647 - 1 <= n /\ n <= 2147483647}

ASSUME EncodingAssumption ==
  /\ InitialCapacity \in Nat /\ InitialCapacity % 8 = 0 /\ InitialCapacity >= 8
  /\ Names \subseteq Seq(Char)
  /\ \A name \in Names : 64 + 8 * Len(name) <= 1500 * 8   \* a hello fits packetMem
  /\ PlayerIds \subseteq Int32
  /\ \A s \in SequenceNumbers : s \in Nat /\ s <= 65535
  /\ Counts \subseteq Nat

Ranges == INSTANCE AckRanges WITH SeqMod <- 65536, MaxRange <- 256

VARIABLES
  message,   \* the packet that is sent
  reader,    \* who handles it
  fields,    \* what of it is still to be written
  out,       \* OutputMemoryBitStream
  in,        \* InputMemoryBitStream
  expects,   \* what the reader reads next
  parsed     \* what it has read

vars == <<message, reader, fields, out, in, expects, parsed>>

---------------------------------------------------------------------------
(* Values of up to four bytes in memory, little-endian, in two's complement *)

\* The places of the bits of a byte, and of the bytes of an int.
Place == <<1, 2, 4, 8, 16, 32, 64, 128>>
Digit == <<1, 256, 65536, 16777216>>

Bytes(n, count) ==
  [j \in 1 .. count |-> [i \in 0 .. 7 |-> ((n \div Digit[j]) \div Place[i + 1]) % 2]]

ByteValue(byte) ==
  byte[0] + 2 * byte[1] + 4 * byte[2] + 8 * byte[3]
    + 16 * byte[4] + 32 * byte[5] + 64 * byte[6] + 128 * byte[7]

\* A byte that a narrow value does not have counts nothing.
Unsigned(bytes) ==
  LET Part(j) == IF j \in DOMAIN bytes THEN Digit[j] * ByteValue(bytes[j]) ELSE 0
  IN Part(1) + Part(2) + Part(3) + Part(4)

Complement(bytes) == [j \in DOMAIN bytes |-> [i \in 0 .. 7 |-> 1 - bytes[j][i]]]

Signed(bytes) ==
  IF bytes[Len(bytes)][7] = 1 THEN -1 - Unsigned(Complement(bytes)) ELSE Unsigned(bytes)

---------------------------------------------------------------------------
(* Fields on streams *)

\* The bits that the loop over a field's bytes moves with byte j.
BitsOf(width, j) == IF width - 8 * (j - 1) > 8 THEN 8 ELSE width - 8 * (j - 1)

\* A field as the calls of WriteBits that it comes to.
Field(n, width) ==
  LET bytes == Bytes(n, (width + 7) \div 8)
  IN [j \in DOMAIN bytes |-> [inData |-> bytes[j], inBitCount |-> BitsOf(width, j)]]

\* The bytes that a field of the given width is read into.
Read(stream, width) ==
  [j \in 1 .. (width + 7) \div 8 |->
     ReadBits([stream EXCEPT !.head = @ + 8 * (j - 1)], BitsOf(width, j))]

---------------------------------------------------------------------------
(* Packets *)

HelloPacketId == 49
WelcomePacketId == 50
WinPacketId == 51
StatePacketId == 52

\* Of a packet whose sender writes no ack data; not a range of the program.
NoAckData == [start |-> -1, count |-> 0]

Blank == [type |-> HelloPacketId, name |-> <<>>, playerId |-> -1, sequenceNumber |-> 0,
          ack |-> NoAckData]

AckRange == {Ranges!EmptyRange} \cup
            {[start |-> s, count |-> n] : s \in SequenceNumbers, n \in Counts \ {0}}

\* SendHelloPacket; SendWelcomePacket, SendWinPacket and HandleWinPacket;
\* SendStatePacketToClient, whose manager sends no acks (NoAckData), and what
\* its counterpart would send.
HelloPacket(name) == [Blank EXCEPT !.name = name]
PlayerPacket(type, id) == [Blank EXCEPT !.type = type, !.playerId = id]
StatePacket(s, range) ==
  [Blank EXCEPT !.type = StatePacketId, !.sequenceNumber = s, !.ack = range]

Message ==
  {HelloPacket(name) : name \in Names}
    \cup {PlayerPacket(type, id) : type \in {WelcomePacketId, WinPacketId}, id \in PlayerIds}
    \cup {StatePacket(s, range) : s \in SequenceNumbers, range \in AckRange \cup {NoAckData}}

\* A ClientNetworkManager before and after its welcome; ServerNetworkManager,
\* from a client it does not know and from one it does.
AtClient == {"NCS_SayingHello", "NCS_Welcomed"}
AtServer == {"new client", "known client"}

\* ReadAndProcessState, at an end that processes acks and at one that does not.
\* It has no caller: it stands for one that reads the type before it.
AtManager == {"shouldProcessAcks", "ignores acks"}

\* A manager's packets go to one of the opposite kind, as ClientProxy's
\* (false, true) demands.  Only the server's are sent at all, to a client.
Readers(m) ==
  CASE m.type = HelloPacketId -> AtServer
    [] m.type = WelcomePacketId -> AtClient
    [] m.type = WinPacketId -> AtServer \cup AtClient
    [] m.type = StatePacketId -> IF m.ack = NoAckData
                                 THEN AtClient \cup {"ignores acks"} ELSE {"shouldProcessAcks"}

\* Mutant: countMinusOne is not cut before it is stored in eight bits.
WriteAckRangeUncut(range) ==
  Field(range.start, 16) \o Field(IF range.count > 1 THEN 1 ELSE 0, 1)
    \o IF range.count > 1 THEN Field(range.count - 1, 8) ELSE <<>>

\* AckRange::Write.
WriteAckRange(range) ==
  LET countMinusOne == range.count - 1
  IN Field(range.start, 16) \o Field(IF range.count > 1 THEN 1 ELSE 0, 1)
       \o IF range.count > 1
          THEN Field(IF countMinusOne > 255 THEN 255 ELSE countMinusOne, 8)
          ELSE <<>>

WriteAckData(range) ==
  Field(IF range.count > 0 THEN 1 ELSE 0, 1)
    \o IF range.count > 0 THEN WriteAckRange(range) ELSE <<>>

WriteState(sequenceNumber, range) ==
  Field(sequenceNumber, 16) \o IF range = NoAckData THEN <<>> ELSE WriteAckData(range)

WriteString(string) ==
  Field(Len(string), 32) \o [i \in 1 .. Len(string) |-> Field(string[i], 8)[1]]

FieldsOf(m) ==
  Field(m.type, 32)
    \o CASE m.type = HelloPacketId -> WriteString(m.name)
         [] m.type \in {WelcomePacketId, WinPacketId} -> Field(m.playerId, 32)
         [] m.type = StatePacketId -> WriteState(m.sequenceNumber, m.ack)

---------------------------------------------------------------------------
Init ==
  /\ message \in Message
  /\ reader \in Readers(message)
  /\ fields = FieldsOf(message)
  /\ out = [buffer |-> [i \in 0 .. InitialCapacity \div 8 - 1 |-> ZeroByte],
            head |-> 0, capacity |-> InitialCapacity]
  /\ in = [buffer |-> [i \in {} |-> ZeroByte], head |-> 0, capacity |-> 0]
  /\ expects = "datagram"
  /\ parsed = Blank

WriteField ==
  /\ fields # <<>>
  /\ out' = WriteBits(out, Head(fields).inData, Head(fields).inBitCount)
  /\ fields' = Tail(fields)
  /\ UNCHANGED <<message, reader, in, expects, parsed>>

\* The bytes that hold the bits, as ReadIncomingPacketsIntoQueue finds them.
Receive ==
  LET byteCount == (out.head + 7) \div 8
  IN
  /\ fields = <<>> /\ expects = "datagram"
  /\ in' = [buffer |-> [i \in 0 .. byteCount - 1 |-> out.buffer[i]],
            head |-> 0, capacity |-> byteCount * 8]
  /\ expects' = "packetType"
  /\ UNCHANGED <<message, reader, fields, out, parsed>>

\* The reader takes a field of the given width, keeps what it makes of it and
\* goes on to another.
Take(what, width, parsedNow, next) ==
  /\ expects = what
  /\ in' = [in EXCEPT !.head = @ + width]
  /\ parsed' = parsedNow
  /\ expects' = next
  /\ UNCHANGED <<message, reader, fields, out>>

\* What the handlers read behind the type.  A client reads the id of a welcome
\* that it waits for and that of a game over, and breaks on anything else.
ClientReads(type) ==
  IF type = WinPacketId \/ (type = WelcomePacketId /\ reader = "NCS_SayingHello")
  THEN "playerId" ELSE "nothing"

\* The server reads the name in the first hello of a client.  A later hello is
\* answered, a win announced and anything else logged without another read.
ServerReads(type) ==
  IF type = HelloPacketId /\ reader = "new client" THEN "elementCount" ELSE "nothing"

ReadPacketType ==
  LET type == Unsigned(Read(in, 32))
  IN Take("packetType", 32, [parsed EXCEPT !.type = type],
          CASE reader \in AtClient -> ClientReads(type)
            [] reader \in AtServer -> ServerReads(type)
            [] reader \in AtManager -> "sequenceNumber")

\* inString.resize(elementCount): the string has its length before its characters.
ReadElementCount ==
  LET elementCount == Unsigned(Read(in, 32))
  IN Take("elementCount", 32, [parsed EXCEPT !.name = [i \in 1 .. elementCount |-> -1]],
          IF elementCount = 0 THEN "nothing" ELSE "element")

ReadElement ==
  LET i == CHOOSE j \in DOMAIN parsed.name :
             /\ parsed.name[j] = -1
             /\ \A k \in 1 .. j - 1 : parsed.name[k] # -1
  IN /\ expects = "element"
     /\ Take("element", 8, [parsed EXCEPT !.name[i] = Unsigned(Read(in, 8))],
             IF i = Len(parsed.name) THEN "nothing" ELSE "element")

ReadPlayerId ==
  Take("playerId", 32, [parsed EXCEPT !.playerId = Signed(Read(in, 32))], "nothing")

ReadSequenceNumber ==
  Take("sequenceNumber", 16, [parsed EXCEPT !.sequenceNumber = Unsigned(Read(in, 16))],
       IF reader = "shouldProcessAcks" THEN "hasAcks" ELSE "nothing")

\* Mutant: there is no Read of a bool, whose size is a byte.
ReadHasAcksByte ==
  LET hasAcks == Unsigned(Read(in, 8)) = 1
  IN Take("hasAcks", 8, IF hasAcks THEN parsed ELSE [parsed EXCEPT !.ack = Ranges!EmptyRange],
          IF hasAcks THEN "start" ELSE "nothing")

\* Without acks ProcessAcks does nothing, as it does for an empty range.
ReadHasAcks ==
  LET hasAcks == Unsigned(Read(in, 1)) = 1
  IN Take("hasAcks", 1, IF hasAcks THEN parsed ELSE [parsed EXCEPT !.ack = Ranges!EmptyRange],
          IF hasAcks THEN "start" ELSE "nothing")

ReadStart ==
  Take("start", 16, [parsed EXCEPT !.ack.start = Unsigned(Read(in, 16))], "hasCount")

ReadHasCount ==
  LET hasCount == Unsigned(Read(in, 1)) = 1
  IN Take("hasCount", 1, IF hasCount THEN parsed ELSE [parsed EXCEPT !.ack.count = 1],
          IF hasCount THEN "countMinusOne" ELSE "nothing")

ReadCountMinusOne ==
  Take("countMinusOne", 8, [parsed EXCEPT !.ack.count = Unsigned(Read(in, 8)) + 1], "nothing")

ReadField ==
  \/ ReadPacketType \/ ReadElementCount \/ ReadElement \/ ReadPlayerId
  \/ ReadSequenceNumber \/ ReadHasAcks \/ ReadStart \/ ReadHasCount \/ ReadCountMinusOne

Next == WriteField \/ Receive \/ ReadField

Spec == Init /\ [][Next]_vars

---------------------------------------------------------------------------
(* What a handler reads is what the sender meant: it takes the packet for    *)
(* what it is, and if it reads on behind the type (welcomes, game overs,     *)
(* first hellos, and what ReadAndProcessState is given) it gets every field  *)
(* in its order and width, an ack range as AckRanges!Written cuts it.        *)
Understood ==
  expects = "nothing" =>
    /\ parsed.type = message.type
    /\ in.head > 32 => parsed = [message EXCEPT !.ack = Ranges!Written(@)]

(* Nothing in InputMemoryBitStream stops a read behind the bytes that        *)
(* arrived, but no handler makes one.  A handler that reads on behind the    *)
(* type stops at the very bit where the sender stopped; the others stop      *)
(* behind the type and leave the rest (state packets, second welcomes,       *)
(* claims of a win, hellos of a known client).                               *)
ReadsWhatArrived ==
  /\ in.head <= in.capacity
  /\ expects = "nothing" => in.head \in {32, out.head}
=============================================================================
