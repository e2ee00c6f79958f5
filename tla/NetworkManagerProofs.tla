------------------------ MODULE NetworkManagerProofs ------------------------
(***************************************************************************)
(* Proofs about the receiving half of a NetworkManager, on its own and in  *)
(* the servers that the fixture of the tests builds one after another.     *)
(***************************************************************************)
EXTENDS ServerFixture, SequenceTheorems, FiniteSetTheorems, TLAPS

PacketInQueue == [packet : Watched \cup {Noise}, wait : Int]

LEMMA WatchedApart ==
  /\ Watched \subseteq Nat /\ Noise \notin Watched /\ Failed \notin Watched /\ Noise # Failed
  BY FrameAssumption DEF Watched

(* The packets of a queue, one for one.                                      *)
LEMMA QueuedIsQueue ==
  ASSUME NEW queue \in Seq(PacketInQueue)
  PROVE  /\ [i \in 1 .. Len(queue) |-> queue[i].packet] \in Seq(Watched \cup {Noise})
         /\ Len([i \in 1 .. Len(queue) |-> queue[i].packet]) = Len(queue)
<1>1. Len(queue) \in Nat /\ \A i \in 1 .. Len(queue) : queue[i] \in PacketInQueue
  BY LenProperties, ElementOfSeq
<1>2. \A i \in 1 .. Len(queue) : queue[i].packet \in Watched \cup {Noise}
  BY <1>1 DEF PacketInQueue
<1>3. [i \in 1 .. Len(queue) |-> queue[i].packet] \in [1 .. Len(queue) -> Watched \cup {Noise}]
  BY <1>2
<1> QED BY <1>1, <1>3, SeqDef, LenProperties

---------------------------------------------------------------------------
(* Types *)

LEMMA TickKeepsType ==
  ASSUME NetTypeOK, Tick
  PROVE  packetQueue' \in Seq(PacketInQueue)
<1>1. /\ packetQueue \in Seq(PacketInQueue) /\ Len(packetQueue) \in Nat
      /\ \A i \in 1 .. Len(packetQueue) : packetQueue[i] \in PacketInQueue
  BY LenProperties, ElementOfSeq DEF NetTypeOK, PacketInQueue
<1>2. ASSUME NEW i \in 1 .. Len(packetQueue)
      PROVE  [packetQueue[i] EXCEPT !.wait = IF @ >= 0 THEN @ - 1 ELSE @] \in PacketInQueue
  <2> DEFINE rest == IF packetQueue[i].wait >= 0 THEN packetQueue[i].wait - 1
                     ELSE packetQueue[i].wait
  <2>1. packetQueue[i] \in PacketInQueue /\ rest \in Int
    BY <1>1 DEF PacketInQueue
  <2> HIDE DEF rest
  <2>2. [packetQueue[i] EXCEPT !.wait = rest] \in PacketInQueue
    BY <2>1 DEF PacketInQueue
  <2> QED BY <2>2 DEF rest
<1>3. packetQueue' \in [1 .. Len(packetQueue) -> PacketInQueue]
  BY <1>2 DEF Tick
<1> QED BY <1>1, <1>3, SeqDef

LEMMA SendKeepsType ==
  ASSUME NetTypeOK, SendPacket
  PROVE  unanswered' \in 0 .. MaxUnanswered
<1>1. buffer \in Seq(Watched \cup {Noise, Failed}) /\ DOMAIN buffer = 1 .. Len(buffer)
      /\ Len(buffer) \in Nat
  BY LenProperties DEF NetTypeOK
<1>2. IsFiniteSet({i \in DOMAIN buffer : buffer[i] = Failed})
  <2>1. IsFiniteSet(DOMAIN buffer)
    BY <1>1, FS_Interval
  <2> QED BY <2>1, FS_Subset
<1>3. Cardinality({i \in DOMAIN buffer : buffer[i] = Failed}) \in Nat
  BY <1>2, FS_CardinalityType
<1> QED BY <1>3, FrameAssumption DEF NetTypeOK, SendPacket

LEMMA FrameStepKeepsType ==
  ASSUME NetTypeOK, FrameStep
  PROVE  NetTypeOK'
<1>0. /\ buffer \in Seq(Watched \cup {Noise, Failed})
      /\ packetQueue \in Seq(PacketInQueue)
      /\ handled \in Seq(Watched)
      /\ receivedPackedCount \in 0 .. kMaxPacketsPerFrameCount
      /\ simulatedLatency \in Latency /\ dropped \subseteq Watched
  BY DEF NetTypeOK, PacketInQueue
<1>1. CASE ReceivePacket
  <2>1. /\ Head(buffer) \in Watched \cup {Noise}
        /\ buffer' \in Seq(Watched \cup {Noise, Failed})
    <3>1. buffer # <<>> /\ Head(buffer) # Failed /\ buffer' = Tail(buffer)
      BY <1>1 DEF ReceivePacket
    <3> QED BY <1>0, <3>1, HeadTailProperties
  <2>2. receivedPackedCount' \in 0 .. kMaxPacketsPerFrameCount
    BY <1>0, <1>1, FrameAssumption DEF ReceivePacket, MayReceive
  <2>3. [packet |-> Head(buffer), wait |-> simulatedLatency] \in PacketInQueue
    BY <1>0, <2>1, FrameAssumption DEF PacketInQueue
  <2>4. Append(packetQueue, [packet |-> Head(buffer), wait |-> simulatedLatency])
          \in Seq(PacketInQueue)
    BY <1>0, <2>3, AppendProperties
  <2>5. packetQueue' \in Seq(PacketInQueue) /\ dropped' \subseteq Watched
    BY <1>0, <1>1, <2>1, <2>4 DEF ReceivePacket
  <2> QED BY <1>1, <2>1, <2>2, <2>5 DEF NetTypeOK, PacketInQueue, ReceivePacket, settings
<1>2. CASE ReceiveFailure
  <2>1. buffer' \in Seq(Watched \cup {Noise, Failed})
    BY <1>0, <1>2, HeadTailProperties DEF ReceiveFailure
  <2> QED BY <1>2, <2>1 DEF NetTypeOK, ReceiveFailure, settings
<1>3. CASE StopReading
  BY <1>3 DEF NetTypeOK, StopReading, settings
<1>4. CASE ProcessQueuedPacket
  <2>1. packetQueue # <<>> /\ packetQueue' = Tail(packetQueue)
    BY <1>4 DEF ProcessQueuedPacket, HeadIsDue
  <2>2. Head(packetQueue) \in PacketInQueue /\ packetQueue' \in Seq(PacketInQueue)
    BY <1>0, <2>1, HeadTailProperties
  <2>3. handled' \in Seq(Watched)
    BY <1>0, <1>4, <2>2, AppendProperties DEF ProcessQueuedPacket, PacketInQueue
  <2> QED BY <1>4, <2>2, <2>3 DEF NetTypeOK, PacketInQueue, ProcessQueuedPacket, settings
<1>5. CASE EndFrame
  BY <1>5 DEF NetTypeOK, EndFrame, settings
<1> QED BY <1>1, <1>2, <1>3, <1>4, <1>5 DEF FrameStep

LEMMA SurroundingsKeepType ==
  ASSUME NetTypeOK, BeginFrame \/ Surroundings
  PROVE  NetTypeOK'
<1>1. CASE BeginFrame
  BY <1>1, FrameAssumption DEF NetTypeOK, BeginFrame, settings
<1>2. CASE Arrive
  <2>1. arrived' \in 0 .. MaxWatched /\ arrived' \in Watched
    BY <1>2, FrameAssumption DEF NetTypeOK, Arrive, Watched
  <2>2. buffer' \in Seq(Watched \cup {Noise, Failed})
    BY <1>2, <2>1, AppendProperties DEF NetTypeOK, Arrive
  <2> QED BY <1>2, <2>1, <2>2 DEF NetTypeOK, Arrive, settings
<1>3. CASE NoiseArrives
  BY <1>3, AppendProperties DEF NetTypeOK, NoiseArrives, settings
<1>4. CASE Bounce
  <2>1. buffer' \in Seq(Watched \cup {Noise, Failed})
    BY <1>4, AppendProperties DEF NetTypeOK, Bounce
  <2>2. unanswered' \in 0 .. MaxUnanswered
    BY <1>4, FrameAssumption DEF NetTypeOK, Bounce
  <2> QED BY <1>4, <2>1, <2>2 DEF NetTypeOK, Bounce, settings
<1>5. CASE Tick
  BY <1>5, TickKeepsType DEF NetTypeOK, Tick, settings, PacketInQueue
<1>6. CASE SendPacket
  BY <1>6, SendKeepsType DEF NetTypeOK, SendPacket, settings
<1>7. ASSUME NEW latency \in Latency, SetSimulatedLatency(latency) PROVE NetTypeOK'
  BY <1>7 DEF NetTypeOK, SetSimulatedLatency
<1>8. ASSUME NEW chance \in {"zero", "positive"}, SetDropPacketChance(chance) PROVE NetTypeOK'
  BY <1>8 DEF NetTypeOK, SetDropPacketChance
<1> QED BY <1>1, <1>2, <1>3, <1>4, <1>5, <1>6, <1>7, <1>8 DEF Surroundings

LEMMA NewManagerType ==
  ASSUME NEW s \in {"none", "unbound", "open"}, NewNetworkManager(s)
  PROVE  NetTypeOK
<1>1. /\ <<>> \in Seq(Watched \cup {Noise, Failed})
      /\ <<>> \in Seq([packet : Watched \cup {Noise}, wait : Int])
      /\ <<>> \in Seq(Watched)
  BY EmptySeq
<1> QED BY <1>1, FrameAssumption DEF NewNetworkManager, NetTypeOK

LEMMA NetStepType == NetTypeOK /\ [NetNext]_netVars => NetTypeOK'
<1> SUFFICES ASSUME NetTypeOK, [NetNext]_netVars PROVE NetTypeOK'
  OBVIOUS
<1>1. CASE NetNext
  BY <1>1, FrameStepKeepsType, SurroundingsKeepType DEF NetNext
<1>2. CASE UNCHANGED netVars
  BY <1>2 DEF NetTypeOK, netVars, settings
<1> QED BY <1>1, <1>2

(* Every variable of the manager keeps its type: in particular no more       *)
(* packets are counted in a frame than the limit (NetworkManager.cpp:36-61).  *)
THEOREM NetTypeCorrect == NetSpec => []NetTypeOK
<1>1. NetInit => NetTypeOK
  BY NewManagerType DEF NetInit
<1> QED BY <1>1, NetStepType, PTL DEF NetSpec

---------------------------------------------------------------------------
(* The order of the packets *)

Members(s) == {s[i] : i \in 1 .. Len(s)}

\* Of the watched packets, the ones of s are in order, and the ones of X
\* arrived before the ones of Y.
InOrder(s) ==
  \A i, j \in 1 .. Len(s) : i < j /\ s[i] \in Watched /\ s[j] \in Watched => s[i] < s[j]
Before(X, Y) == \A x \in X \cap Watched, y \in Y \cap Watched : x < y

\* NothingMislaid by the three places a packet may be at: what is handled, h,
\* arrived before what is in the queue, q, and that before what is in the
\* socket, b; of the packets 1 .. n that arrived, the ones of d are dropped.
Line(h, q, b, n, d) ==
  /\ d \subseteq 1 .. n
  /\ InOrder(h) /\ InOrder(q) /\ InOrder(b)
  /\ Before(Members(h), Members(q)) /\ Before(Members(h), Members(b))
  /\ Before(Members(q), Members(b))
  /\ (Members(h) \cup Members(q) \cup Members(b)) \cap Watched = (1 .. n) \ d

ArrivalInv == Line(handled, QueuedPackets, buffer, arrived, dropped)

LEMMA AppendInOrder ==
  ASSUME NEW S, NEW s \in Seq(S), NEW x \in S
  PROVE  /\ Members(Append(s, x)) = Members(s) \cup {x}
         /\ InOrder(s) /\ Before(Members(s), {x}) => InOrder(Append(s, x))
<1>1. /\ Len(s) \in Nat /\ Len(Append(s, x)) = Len(s) + 1
      /\ \A i \in 1 .. Len(s) : Append(s, x)[i] = s[i]
      /\ Append(s, x)[Len(s) + 1] = x
  BY AppendProperties, LenProperties
<1>2. Members(Append(s, x)) = Members(s) \cup {x}
  <2>1. ASSUME NEW y \in Members(Append(s, x)) PROVE y \in Members(s) \cup {x}
    <3>1. PICK i \in 1 .. Len(s) + 1 : Append(s, x)[i] = y
      BY <1>1, <2>1 DEF Members
    <3>2. i \in 1 .. Len(s) \/ i = Len(s) + 1
      BY <1>1, <3>1
    <3> QED BY <1>1, <3>1, <3>2 DEF Members
  <2>2. ASSUME NEW y \in Members(s) PROVE y \in Members(Append(s, x))
    BY <1>1, <2>2 DEF Members
  <2>3. x \in Members(Append(s, x))
    <3>1. Len(s) + 1 \in 1 .. Len(Append(s, x))
      BY <1>1
    <3> QED BY <1>1, <3>1 DEF Members
  <2> QED BY <2>1, <2>2, <2>3
<1>3. ASSUME InOrder(s), Before(Members(s), {x}) PROVE InOrder(Append(s, x))
  <2> SUFFICES ASSUME NEW i \in 1 .. Len(s) + 1, NEW j \in 1 .. Len(s) + 1, i < j,
                      Append(s, x)[i] \in Watched, Append(s, x)[j] \in Watched
               PROVE  Append(s, x)[i] < Append(s, x)[j]
    BY <1>1 DEF InOrder
  <2>1. i \in 1 .. Len(s) /\ Append(s, x)[i] = s[i] /\ s[i] \in Members(s)
    BY <1>1 DEF Members
  <2>2. CASE j \in 1 .. Len(s)
    BY <1>1, <1>3, <2>1, <2>2 DEF InOrder
  <2>3. CASE j = Len(s) + 1
    BY <1>1, <1>3, <2>1, <2>3 DEF Before
  <2> QED BY <1>1, <2>2, <2>3
<1> QED BY <1>2, <1>3

LEMMA TailInOrder ==
  ASSUME NEW S, NEW s \in Seq(S), s # <<>>, InOrder(s)
  PROVE  /\ Members(s) = {Head(s)} \cup Members(Tail(s))
         /\ InOrder(Tail(s)) /\ Before({Head(s)}, Members(Tail(s)))
<1>1. /\ Len(s) \in Nat \ {0} /\ Head(s) = s[1] /\ Len(Tail(s)) = Len(s) - 1
      /\ \A i \in 1 .. Len(s) - 1 : Tail(s)[i] = s[i + 1]
  <2>1. Len(s) \in Nat /\ Len(s) # 0
    BY LenProperties, EmptySeq
  <2> QED BY <2>1, HeadTailProperties
<1>2. Members(s) = {Head(s)} \cup Members(Tail(s))
  <2>1. ASSUME NEW y \in Members(s) PROVE y \in {Head(s)} \cup Members(Tail(s))
    <3>1. PICK i \in 1 .. Len(s) : s[i] = y
      BY <2>1 DEF Members
    <3>2. CASE i = 1
      BY <1>1, <3>1, <3>2
    <3>3. CASE i # 1
      <4>1. i - 1 \in 1 .. Len(Tail(s)) /\ Tail(s)[i - 1] = y
        BY <1>1, <3>1, <3>3
      <4> QED BY <4>1 DEF Members
    <3> QED BY <3>2, <3>3
  <2>2. ASSUME NEW y \in Members(Tail(s)) PROVE y \in Members(s)
    <3>1. PICK i \in 1 .. Len(s) - 1 : Tail(s)[i] = y
      BY <1>1, <2>2 DEF Members
    <3>2. i + 1 \in 1 .. Len(s) /\ s[i + 1] = y
      BY <1>1, <3>1
    <3> QED BY <3>2 DEF Members
  <2>3. Head(s) \in Members(s)
    BY <1>1 DEF Members
  <2> QED BY <2>1, <2>2, <2>3
<1>3. InOrder(Tail(s))
  <2> SUFFICES ASSUME NEW i \in 1 .. Len(s) - 1, NEW j \in 1 .. Len(s) - 1, i < j,
                      Tail(s)[i] \in Watched, Tail(s)[j] \in Watched
               PROVE  Tail(s)[i] < Tail(s)[j]
    BY <1>1 DEF InOrder
  <2>1. /\ i + 1 \in 1 .. Len(s) /\ j + 1 \in 1 .. Len(s) /\ i + 1 < j + 1
        /\ Tail(s)[i] = s[i + 1] /\ Tail(s)[j] = s[j + 1]
    BY <1>1
  <2> QED BY <2>1 DEF InOrder
<1>4. Before({Head(s)}, Members(Tail(s)))
  <2> SUFFICES ASSUME NEW i \in 1 .. Len(s) - 1, Head(s) \in Watched, Tail(s)[i] \in Watched
               PROVE  Head(s) < Tail(s)[i]
    BY <1>1 DEF Before, Members
  <2>1. 1 \in 1 .. Len(s) /\ i + 1 \in 1 .. Len(s) /\ 1 < i + 1 /\ Tail(s)[i] = s[i + 1]
    BY <1>1
  <2> QED BY <1>1, <2>1 DEF InOrder
<1> QED BY <1>2, <1>3, <1>4

LEMMA QueuedAfterAppend ==
  ASSUME NEW queue \in Seq(PacketInQueue), NEW e \in PacketInQueue
  PROVE  [i \in 1 .. Len(Append(queue, e)) |-> Append(queue, e)[i].packet]
           = Append([i \in 1 .. Len(queue) |-> queue[i].packet], e.packet)
<1> DEFINE q == [i \in 1 .. Len(queue) |-> queue[i].packet]
           r == [i \in 1 .. Len(Append(queue, e)) |-> Append(queue, e)[i].packet]
<1>1. /\ Len(queue) \in Nat /\ Append(queue, e) \in Seq(PacketInQueue)
      /\ Len(Append(queue, e)) = Len(queue) + 1
      /\ \A i \in 1 .. Len(queue) : Append(queue, e)[i] = queue[i]
      /\ Append(queue, e)[Len(queue) + 1] = e
  BY AppendProperties, LenProperties
<1>2. /\ q \in Seq(Watched \cup {Noise}) /\ Len(q) = Len(queue)
      /\ r \in Seq(Watched \cup {Noise}) /\ Len(r) = Len(queue) + 1
  BY <1>1, QueuedIsQueue
<1>3. e.packet \in Watched \cup {Noise}
  BY DEF PacketInQueue
<1>4. /\ \A i \in 1 .. Len(queue) : r[i] = q[i]
      /\ r[Len(queue) + 1] = e.packet
  BY <1>1
<1> HIDE DEF q, r
<1>5. /\ Append(q, e.packet) \in Seq(Watched \cup {Noise})
      /\ Len(Append(q, e.packet)) = Len(queue) + 1
      /\ \A i \in 1 .. Len(queue) : Append(q, e.packet)[i] = q[i]
      /\ Append(q, e.packet)[Len(queue) + 1] = e.packet
  BY <1>2, <1>3, AppendProperties
<1>6. \A i \in 1 .. Len(queue) + 1 : r[i] = Append(q, e.packet)[i]
  BY <1>1, <1>4, <1>5
<1>7. r = Append(q, e.packet)
  BY <1>2, <1>5, <1>6, SeqEqual
<1> QED BY <1>7 DEF q, r

LEMMA QueuedAfterTail ==
  ASSUME NEW queue \in Seq(PacketInQueue), queue # <<>>
  PROVE  /\ [i \in 1 .. Len(Tail(queue)) |-> Tail(queue)[i].packet]
              = Tail([i \in 1 .. Len(queue) |-> queue[i].packet])
         /\ Head([i \in 1 .. Len(queue) |-> queue[i].packet]) = Head(queue).packet
         /\ [i \in 1 .. Len(queue) |-> queue[i].packet] # <<>>
<1> DEFINE q == [i \in 1 .. Len(queue) |-> queue[i].packet]
           r == [i \in 1 .. Len(Tail(queue)) |-> Tail(queue)[i].packet]
<1>1. /\ Len(queue) \in Nat \ {0} /\ Tail(queue) \in Seq(PacketInQueue)
      /\ Head(queue) = queue[1] /\ Len(Tail(queue)) = Len(queue) - 1
      /\ \A i \in 1 .. Len(queue) - 1 : Tail(queue)[i] = queue[i + 1]
  <2>1. Len(queue) \in Nat /\ Len(queue) # 0
    BY LenProperties, EmptySeq
  <2> QED BY <2>1, HeadTailProperties
<1>2. /\ q \in Seq(Watched \cup {Noise}) /\ Len(q) = Len(queue)
      /\ r \in Seq(Watched \cup {Noise}) /\ Len(r) = Len(queue) - 1
  BY <1>1, QueuedIsQueue
<1>3. /\ \A i \in 1 .. Len(queue) - 1 : r[i] = q[i + 1]
      /\ q[1] = Head(queue).packet
  BY <1>1
<1> HIDE DEF q, r
<1>4. q # <<>>
  BY <1>1, <1>2, EmptySeq
<1>5. /\ Tail(q) \in Seq(Watched \cup {Noise}) /\ Len(Tail(q)) = Len(queue) - 1
      /\ \A i \in 1 .. Len(queue) - 1 : Tail(q)[i] = q[i + 1]
      /\ Head(q) = q[1]
  BY <1>2, <1>4, HeadTailProperties
<1>6. r = Tail(q)
  BY <1>2, <1>3, <1>5, SeqEqual
<1> QED BY <1>3, <1>4, <1>5, <1>6 DEF q, r

---------------------------------------------------------------------------
(* Each way a packet moves keeps the line in order.                          *)

LEMMA LineGrows ==
  ASSUME NEW h, NEW q, NEW b \in Seq(Watched \cup {Noise, Failed}), NEW n \in Nat, NEW d,
         Line(h, q, b, n, d), n + 1 \in Watched
  PROVE  Line(h, q, Append(b, n + 1), n + 1, d)
<1>1. ASSUME NEW x \in Members(h) \cup Members(q) \cup Members(b), x \in Watched
      PROVE  x < n + 1
  BY <1>1 DEF Line
<1>2. /\ Before(Members(h), {n + 1}) /\ Before(Members(q), {n + 1})
      /\ Before(Members(b), {n + 1})
  BY <1>1 DEF Before
<1>3. Members(Append(b, n + 1)) = Members(b) \cup {n + 1} /\ InOrder(Append(b, n + 1))
  BY <1>2, AppendInOrder, SMTT(30) DEF Line
<1>4. /\ Before(Members(h), Members(b) \cup {n + 1})
      /\ Before(Members(q), Members(b) \cup {n + 1})
  BY <1>2 DEF Line, Before
<1>5. /\ d \subseteq 1 .. n + 1
      /\ (Members(h) \cup Members(q) \cup (Members(b) \cup {n + 1})) \cap Watched
           = (1 .. n + 1) \ d
  BY DEF Line
<1> QED BY <1>3, <1>4, <1>5 DEF Line

(* Noise, and a packet that comes back as an error.                          *)
LEMMA LineWithNoise ==
  ASSUME NEW h, NEW q, NEW b \in Seq(Watched \cup {Noise, Failed}), NEW n, NEW d,
         Line(h, q, b, n, d), NEW x \in {Noise, Failed}
  PROVE  Line(h, q, Append(b, x), n, d)
<1>1. x \notin Watched /\ x \in Watched \cup {Noise, Failed}
  BY WatchedApart
<1>2. Before(Members(b), {x})
  BY <1>1 DEF Before
<1>3. Members(Append(b, x)) = Members(b) \cup {x} /\ InOrder(Append(b, x))
  BY <1>1, <1>2, AppendInOrder DEF Line
<1>4. /\ Before(Members(h), Members(b) \cup {x}) /\ Before(Members(q), Members(b) \cup {x})
      /\ (Members(h) \cup Members(q) \cup (Members(b) \cup {x})) \cap Watched = (1 .. n) \ d
  BY <1>1 DEF Line, Before
<1> QED BY <1>3, <1>4 DEF Line

(* A packet that is received, and kept.                                      *)
LEMMA LineReceives ==
  ASSUME NEW h, NEW q \in Seq(Watched \cup {Noise}),
         NEW b \in Seq(Watched \cup {Noise, Failed}), NEW n, NEW d,
         Line(h, q, b, n, d), b # <<>>, Head(b) \in Watched \cup {Noise}
  PROVE  Line(h, Append(q, Head(b)), Tail(b), n, d)
<1>1. /\ Members(b) = {Head(b)} \cup Members(Tail(b))
      /\ InOrder(Tail(b)) /\ Before({Head(b)}, Members(Tail(b)))
  BY TailInOrder DEF Line
<1>2. Before(Members(q), {Head(b)}) /\ Before(Members(h), {Head(b)})
  BY <1>1 DEF Line, Before
<1>3. Members(Append(q, Head(b))) = Members(q) \cup {Head(b)} /\ InOrder(Append(q, Head(b)))
  BY <1>2, AppendInOrder, SMTT(30) DEF Line
<1>4. /\ Before(Members(h), Members(q) \cup {Head(b)})
      /\ Before(Members(h), Members(Tail(b)))
      /\ Before(Members(q) \cup {Head(b)}, Members(Tail(b)))
  BY <1>1, <1>2 DEF Line, Before
<1>5. (Members(h) \cup (Members(q) \cup {Head(b)}) \cup Members(Tail(b))) \cap Watched
        = (1 .. n) \ d
  BY <1>1 DEF Line
<1> QED BY <1>1, <1>3, <1>4, <1>5 DEF Line

(* A packet that is dropped, or an error that is passed over.                *)
LEMMA LineLoses ==
  ASSUME NEW h, NEW q, NEW b \in Seq(Watched \cup {Noise, Failed}), NEW n, NEW d,
         Line(h, q, b, n, d), b # <<>>
  PROVE  Line(h, q, Tail(b), n, d \cup ({Head(b)} \cap Watched))
<1> DEFINE x == Head(b)
           D == d \cup ({x} \cap Watched)
<1>1. /\ Members(b) = {x} \cup Members(Tail(b)) /\ Watched \subseteq Nat
      /\ InOrder(Tail(b)) /\ Before({x}, Members(Tail(b)))
  BY TailInOrder, WatchedApart DEF Line
<1>2. /\ Before(Members(h), Members(Tail(b))) /\ Before(Members(q), Members(Tail(b)))
      /\ Before(Members(h), {x}) /\ Before(Members(q), {x})
  BY <1>1 DEF Line, Before
<1>3. x \in Watched => x \notin Members(h) \cup Members(q) \cup Members(Tail(b))
  <2>1. ASSUME x \in Nat PROVE ~(x < x)
    BY <2>1
  <2> HIDE DEF x
  <2> QED BY <1>1, <1>2, <2>1 DEF Before
<1>4. x \in Watched => x \in 1 .. n
  BY <1>1 DEF Line
<1>5. /\ D \subseteq 1 .. n
      /\ (Members(h) \cup Members(q) \cup Members(Tail(b))) \cap Watched = (1 .. n) \ D
  <2> HIDE DEF x
  <2> QED BY <1>1, <1>3, <1>4 DEF Line
<1> HIDE DEF x
<1> QED BY <1>1, <1>2, <1>5 DEF Line, x

(* The packet at the front of the queue is handled.                          *)
LEMMA LineHandles ==
  ASSUME NEW h \in Seq(Watched), NEW q \in Seq(Watched \cup {Noise}), NEW b, NEW n, NEW d,
         Line(h, q, b, n, d), q # <<>>
  PROVE  Line(IF Head(q) = Noise THEN h ELSE Append(h, Head(q)), Tail(q), b, n, d)
<1>1. /\ Members(q) = {Head(q)} \cup Members(Tail(q))
      /\ InOrder(Tail(q)) /\ Before({Head(q)}, Members(Tail(q)))
  BY TailInOrder DEF Line
<1>2. /\ Before(Members(h), {Head(q)}) /\ Before({Head(q)}, Members(b))
      /\ Before(Members(h), Members(Tail(q))) /\ Before(Members(Tail(q)), Members(b))
  BY <1>1 DEF Line, Before
<1>3. CASE Head(q) = Noise
  <2>1. Head(q) \notin Watched
    BY <1>3, WatchedApart
  <2>2. (Members(h) \cup Members(Tail(q)) \cup Members(b)) \cap Watched = (1 .. n) \ d
    BY <1>1, <2>1 DEF Line
  <2> QED BY <1>1, <1>2, <1>3, <2>2 DEF Line
<1>4. CASE Head(q) # Noise
  <2>1. Head(q) \in Watched
    BY <1>4, HeadTailProperties
  <2>2. Members(Append(h, Head(q))) = Members(h) \cup {Head(q)} /\ InOrder(Append(h, Head(q)))
    BY <1>2, <2>1, AppendInOrder DEF Line
  <2>3. /\ Before(Members(h) \cup {Head(q)}, Members(Tail(q)))
        /\ Before(Members(h) \cup {Head(q)}, Members(b))
        /\ (Members(h) \cup {Head(q)} \cup Members(Tail(q)) \cup Members(b)) \cap Watched
             = (1 .. n) \ d
    BY <1>1, <1>2 DEF Line, Before
  <2> QED BY <1>1, <1>2, <1>4, <2>2, <2>3 DEF Line
<1> QED BY <1>3, <1>4

---------------------------------------------------------------------------
LEMMA PlacesTyped ==
  ASSUME NetTypeOK
  PROVE  /\ handled \in Seq(Watched) /\ buffer \in Seq(Watched \cup {Noise, Failed})
         /\ packetQueue \in Seq(PacketInQueue)
         /\ QueuedPackets \in Seq(Watched \cup {Noise}) /\ Len(QueuedPackets) = Len(packetQueue)
         /\ arrived \in Nat
<1>1. /\ handled \in Seq(Watched) /\ packetQueue \in Seq(PacketInQueue)
      /\ buffer \in Seq(Watched \cup {Noise, Failed}) /\ arrived \in Nat
  BY DEF NetTypeOK, PacketInQueue
<1>2. QueuedPackets \in Seq(Watched \cup {Noise}) /\ Len(QueuedPackets) = Len(packetQueue)
  BY <1>1, QueuedIsQueue DEF QueuedPackets
<1> QED BY <1>1, <1>2

LEMMA LineNext ==
  Line(handled', QueuedPackets', buffer', arrived', dropped') => ArrivalInv'
  BY DEF ArrivalInv, Line, Members, InOrder, Before

LEMMA ArriveKeepsOrder ==
  ASSUME NetTypeOK, ArrivalInv, Arrive
  PROVE  ArrivalInv'
<1>1. /\ arrived' = arrived + 1 /\ arrived + 1 \in Watched
      /\ buffer' = Append(buffer, arrived + 1)
      /\ handled' = handled /\ QueuedPackets' = QueuedPackets /\ dropped' = dropped
  BY FrameAssumption DEF NetTypeOK, Arrive, Watched, QueuedPackets
<1>2. Line(handled, QueuedPackets, Append(buffer, arrived + 1), arrived + 1, dropped)
  BY <1>1, PlacesTyped, LineGrows DEF ArrivalInv
<1> QED BY <1>1, <1>2, LineNext

LEMMA NoiseKeepsOrder ==
  ASSUME NetTypeOK, ArrivalInv, NEW x \in {Noise, Failed}, buffer' = Append(buffer, x),
         UNCHANGED <<arrived, handled, packetQueue, dropped>>
  PROVE  ArrivalInv'
<1>1. QueuedPackets' = QueuedPackets
  BY DEF QueuedPackets
<1>2. Line(handled, QueuedPackets, Append(buffer, x), arrived, dropped)
  BY PlacesTyped, LineWithNoise DEF ArrivalInv
<1> QED BY <1>1, <1>2, LineNext

LEMMA ReceiveKeepsOrder ==
  ASSUME NetTypeOK, ArrivalInv, ReceivePacket
  PROVE  ArrivalInv'
<1>1. /\ packetQueue \in Seq(PacketInQueue) /\ QueuedPackets \in Seq(Watched \cup {Noise})
      /\ buffer \in Seq(Watched \cup {Noise, Failed})
      /\ buffer # <<>> /\ Head(buffer) # Failed /\ buffer' = Tail(buffer)
      /\ UNCHANGED <<arrived, handled>>
  BY PlacesTyped DEF ReceivePacket
<1>2. Head(buffer) \in Watched \cup {Noise}
  BY <1>1, HeadTailProperties
<1>3. CASE /\ packetQueue' = Append(packetQueue,
                                    [packet |-> Head(buffer), wait |-> simulatedLatency])
           /\ UNCHANGED dropped
  <2>1. [packet |-> Head(buffer), wait |-> simulatedLatency] \in PacketInQueue
    BY <1>2, FrameAssumption DEF NetTypeOK, PacketInQueue
  <2>2. QueuedPackets' = Append(QueuedPackets, Head(buffer))
    BY <1>1, <1>3, <2>1, QueuedAfterAppend DEF QueuedPackets
  <2>3. Line(handled, Append(QueuedPackets, Head(buffer)), Tail(buffer), arrived, dropped)
    BY <1>1, <1>2, LineReceives DEF ArrivalInv
  <2> QED BY <1>1, <1>3, <2>2, <2>3, LineNext
<1>4. CASE /\ dropped' = dropped \cup ({Head(buffer)} \ {Noise})
           /\ UNCHANGED packetQueue
  <2>1. {Head(buffer)} \ {Noise} = {Head(buffer)} \cap Watched
    BY <1>2, WatchedApart
  <2>2. QueuedPackets' = QueuedPackets
    BY <1>4 DEF QueuedPackets
  <2>3. Line(handled, QueuedPackets, Tail(buffer), arrived,
             dropped \cup ({Head(buffer)} \cap Watched))
    BY <1>1, LineLoses DEF ArrivalInv
  <2> QED BY <1>1, <1>4, <2>1, <2>2, <2>3, LineNext
<1> QED BY <1>3, <1>4 DEF ReceivePacket

LEMMA FailureKeepsOrder ==
  ASSUME NetTypeOK, ArrivalInv, ReceiveFailure
  PROVE  ArrivalInv'
<1>1. /\ dropped \cup ({Head(buffer)} \cap Watched) = dropped
      /\ QueuedPackets' = QueuedPackets
  BY WatchedApart DEF ReceiveFailure, QueuedPackets
<1>2. Line(handled, QueuedPackets, Tail(buffer), arrived, dropped)
  <2>1. Line(handled, QueuedPackets, Tail(buffer), arrived,
             dropped \cup ({Head(buffer)} \cap Watched))
    BY PlacesTyped, LineLoses DEF ArrivalInv, ReceiveFailure
  <2> QED BY <1>1, <2>1
<1> QED BY <1>1, <1>2, LineNext DEF ReceiveFailure

LEMMA ProcessKeepsOrder ==
  ASSUME NetTypeOK, ArrivalInv, ProcessQueuedPacket
  PROVE  ArrivalInv'
<1>1. /\ packetQueue \in Seq(PacketInQueue) /\ packetQueue # <<>>
      /\ packetQueue' = Tail(packetQueue)
      /\ UNCHANGED <<buffer, arrived, dropped>>
  BY PlacesTyped DEF ProcessQueuedPacket, HeadIsDue
<1>2. /\ QueuedPackets' = Tail(QueuedPackets) /\ QueuedPackets # <<>>
      /\ Head(QueuedPackets) = Head(packetQueue).packet
  BY <1>1, QueuedAfterTail DEF QueuedPackets
<1>3. Line(IF Head(QueuedPackets) = Noise THEN handled
           ELSE Append(handled, Head(QueuedPackets)),
           Tail(QueuedPackets), buffer, arrived, dropped)
  BY <1>2, PlacesTyped, LineHandles DEF ArrivalInv
<1>4. handled' = IF Head(QueuedPackets) = Noise THEN handled
                 ELSE Append(handled, Head(QueuedPackets))
  BY <1>2 DEF ProcessQueuedPacket
<1> QED BY <1>1, <1>2, <1>3, <1>4, LineNext

(* New waits, or none: the packets of the queue are the same.                *)
LEMMA SamePlacesKeepOrder ==
  ASSUME ArrivalInv, QueuedPackets' = QueuedPackets,
         UNCHANGED <<buffer, arrived, handled, dropped>>
  PROVE  ArrivalInv'
  BY LineNext DEF ArrivalInv

LEMMA TickKeepsOrder ==
  ASSUME NetTypeOK, ArrivalInv, Tick
  PROVE  ArrivalInv'
<1>1. /\ packetQueue \in Seq(PacketInQueue) /\ Len(packetQueue) \in Nat
      /\ \A i \in 1 .. Len(packetQueue) : packetQueue[i] \in PacketInQueue
  BY PlacesTyped, LenProperties, ElementOfSeq
<1>2. Len(packetQueue') = Len(packetQueue)
  <2>1. packetQueue' \in Seq(PacketInQueue) /\ DOMAIN packetQueue' = 1 .. Len(packetQueue)
    BY TickKeepsType DEF Tick
  <2> QED BY <1>1, <2>1, LenProperties
<1>3. ASSUME NEW i \in 1 .. Len(packetQueue) PROVE packetQueue'[i].packet = packetQueue[i].packet
  <2>1. packetQueue[i] \in PacketInQueue
    BY <1>1
  <2>2. \A w : [packetQueue[i] EXCEPT !.wait = w].packet = packetQueue[i].packet
    BY <2>1 DEF PacketInQueue
  <2>3. packetQueue'[i] = [packetQueue[i] EXCEPT !.wait = IF @ >= 0 THEN @ - 1 ELSE @]
    BY DEF Tick
  <2> QED BY <2>2, <2>3
<1>4. QueuedPackets' = QueuedPackets
  BY <1>2, <1>3 DEF QueuedPackets
<1> QED BY <1>4, SamePlacesKeepOrder DEF Tick

LEMMA NetStepKeepsOrder ==
  NetTypeOK /\ ArrivalInv /\ [NetNext]_netVars => ArrivalInv'
<1> SUFFICES ASSUME NetTypeOK, ArrivalInv, [NetNext]_netVars PROVE ArrivalInv'
  OBVIOUS
<1>1. CASE UNCHANGED <<buffer, packetQueue, arrived, handled, dropped>>
  BY <1>1, SamePlacesKeepOrder DEF QueuedPackets
<1>2. CASE ReceivePacket
  BY <1>2, ReceiveKeepsOrder
<1>3. CASE ReceiveFailure
  BY <1>3, FailureKeepsOrder
<1>4. CASE NoiseArrives \/ Bounce
  BY <1>4, NoiseKeepsOrder DEF NoiseArrives, Bounce
<1>5. CASE UNCHANGED netVars
  BY <1>1, <1>5 DEF netVars
<1>6. CASE BeginFrame \/ StopReading \/ EndFrame \/ SendPacket
  BY <1>1, <1>6 DEF BeginFrame, StopReading, EndFrame, SendPacket
<1>7. ASSUME NEW x, SetSimulatedLatency(x) \/ SetDropPacketChance(x) PROVE ArrivalInv'
  BY <1>1, <1>7 DEF SetSimulatedLatency, SetDropPacketChance
<1> QED BY <1>2, <1>3, <1>4, <1>5, <1>6, <1>7, ArriveKeepsOrder, TickKeepsOrder, ProcessKeepsOrder
        DEF NetNext, FrameStep, Surroundings

LEMMA NewManagerOrder ==
  ASSUME NEW s, NewNetworkManager(s)
  PROVE  ArrivalInv
<1>1. /\ Len(<<>>) = 0 /\ handled = <<>> /\ buffer = <<>> /\ packetQueue = <<>>
      /\ arrived = 0 /\ dropped = {}
  BY EmptySeq DEF NewNetworkManager
<1>2. QueuedPackets \in Seq({}) /\ Len(QueuedPackets) = 0
  <2>1. QueuedPackets \in [1 .. 0 -> {}]
    BY <1>1 DEF QueuedPackets
  <2>2. QueuedPackets \in Seq({})
    BY <2>1, SeqDef
  <2> QED BY <2>1, <2>2, LenProperties
<1>3. Members(handled) = {} /\ Members(buffer) = {} /\ Members(QueuedPackets) = {}
  BY <1>1, <1>2 DEF Members
<1>4. InOrder(handled) /\ InOrder(buffer) /\ InOrder(QueuedPackets)
  BY <1>1, <1>2 DEF InOrder
<1> QED BY <1>1, <1>3, <1>4 DEF ArrivalInv, Line, Before

(* What holds of the places holds of the line they form.                     *)
LEMMA JoinInOrder ==
  ASSUME NEW S, NEW s \in Seq(S), NEW t \in Seq(S), InOrder(s), InOrder(t),
         Before(Members(s), Members(t))
  PROVE  InOrder(s \o t) /\ Members(s \o t) = Members(s) \cup Members(t)
<1>1. /\ Len(s) \in Nat /\ Len(t) \in Nat
      /\ Len(s \o t) = Len(s) + Len(t)
      /\ \A i \in 1 .. Len(s) + Len(t) :
           (s \o t)[i] = IF i <= Len(s) THEN s[i] ELSE t[i - Len(s)]
  BY ConcatProperties, LenProperties
<1>2. InOrder(s \o t)
  <2> SUFFICES ASSUME NEW i \in 1 .. Len(s) + Len(t), NEW j \in 1 .. Len(s) + Len(t), i < j,
                      (s \o t)[i] \in Watched, (s \o t)[j] \in Watched
               PROVE  (s \o t)[i] < (s \o t)[j]
    BY <1>1 DEF InOrder
  <2>1. CASE j <= Len(s)
    <3>1. i \in 1 .. Len(s) /\ j \in 1 .. Len(s) /\ (s \o t)[i] = s[i] /\ (s \o t)[j] = s[j]
      BY <1>1, <2>1
    <3> QED BY <3>1 DEF InOrder
  <2>2. CASE i > Len(s)
    <3>1. /\ i - Len(s) \in 1 .. Len(t) /\ j - Len(s) \in 1 .. Len(t) /\ i - Len(s) < j - Len(s)
          /\ (s \o t)[i] = t[i - Len(s)] /\ (s \o t)[j] = t[j - Len(s)]
      BY <1>1, <2>2
    <3> QED BY <3>1 DEF InOrder
  <2>3. CASE i <= Len(s) /\ j > Len(s)
    <3>1. /\ i \in 1 .. Len(s) /\ j - Len(s) \in 1 .. Len(t)
          /\ (s \o t)[i] = s[i] /\ (s \o t)[j] = t[j - Len(s)]
      BY <1>1, <2>3
    <3> QED BY <3>1 DEF Before, Members
  <2> QED BY <1>1, <2>1, <2>2, <2>3
<1>3. ASSUME NEW y \in Members(s \o t) PROVE y \in Members(s) \cup Members(t)
  <2>1. PICK i \in 1 .. Len(s) + Len(t) : (s \o t)[i] = y
    BY <1>1, <1>3 DEF Members
  <2>2. CASE i <= Len(s)
    BY <1>1, <2>1, <2>2 DEF Members
  <2>3. CASE i > Len(s)
    <3>1. i - Len(s) \in 1 .. Len(t) /\ t[i - Len(s)] = y
      BY <1>1, <2>1, <2>3
    <3> QED BY <3>1 DEF Members
  <2> QED BY <1>1, <2>2, <2>3
<1>4. ASSUME NEW y \in Members(s) PROVE y \in Members(s \o t)
  <2>1. PICK i \in 1 .. Len(s) : s[i] = y
    BY <1>4 DEF Members
  <2>2. i \in 1 .. Len(s) + Len(t) /\ (s \o t)[i] = y
    BY <1>1, <2>1
  <2> QED BY <1>1, <2>2 DEF Members
<1>5. ASSUME NEW y \in Members(t) PROVE y \in Members(s \o t)
  <2>1. PICK i \in 1 .. Len(t) : t[i] = y
    BY <1>5 DEF Members
  <2>2. Len(s) + i \in 1 .. Len(s) + Len(t) /\ (s \o t)[Len(s) + i] = y
    BY <1>1, <2>1
  <2> QED BY <1>1, <2>2 DEF Members
<1> QED BY <1>2, <1>3, <1>4, <1>5

LEMMA LineIsKept ==
  ASSUME NEW S, NEW h \in Seq(S), NEW q \in Seq(S), NEW b \in Seq(S), NEW n, NEW d,
         Line(h, q, b, n, d)
  PROVE  /\ InOrder(h \o q \o b) /\ h \o q \o b \in Seq(S)
         /\ Members(h \o q \o b) \cap Watched = (1 .. n) \ d
<1>1. /\ h \o q \in Seq(S) /\ InOrder(h \o q) /\ Members(h \o q) = Members(h) \cup Members(q)
  BY JoinInOrder, ConcatProperties DEF Line
<1>2. PICK f \in Seq(S) : f = h \o q
  BY <1>1
<1>3. Before(Members(f), Members(b))
  BY <1>1, <1>2 DEF Line, Before
<1>4. /\ f \o b \in Seq(S) /\ InOrder(f \o b) /\ Members(f \o b) = Members(f) \cup Members(b)
  <2>1. InOrder(f) /\ InOrder(b)
    BY <1>1, <1>2 DEF Line
  <2>2. f \o b \in Seq(S)
    BY ConcatProperties
  <2>3. InOrder(f \o b) /\ Members(f \o b) = Members(f) \cup Members(b)
    BY <1>3, <2>1, JoinInOrder
  <2> QED BY <2>2, <2>3
<1> QED BY <1>1, <1>2, <1>4 DEF Line

LEMMA ArrivalsAreKept == NetTypeOK /\ ArrivalInv => NothingMislaid
<1> SUFFICES ASSUME NetTypeOK, ArrivalInv PROVE NothingMislaid
  OBVIOUS
<1>1. PICK S : handled \in Seq(S) /\ QueuedPackets \in Seq(S) /\ buffer \in Seq(S)
  <2>1. /\ handled \in Seq(Watched) /\ QueuedPackets \in Seq(Watched \cup {Noise})
        /\ buffer \in Seq(Watched \cup {Noise, Failed})
    BY PlacesTyped
  <2>2. /\ Seq(Watched) \subseteq Seq(Watched \cup {Noise, Failed})
        /\ Seq(Watched \cup {Noise}) \subseteq Seq(Watched \cup {Noise, Failed})
    BY SeqDef
  <2> QED BY <2>1, <2>2
<1>2. /\ OnTheWay \in Seq(S) /\ InOrder(OnTheWay)
      /\ Members(OnTheWay) \cap Watched = (1 .. arrived) \ dropped
  BY <1>1, LineIsKept DEF OnTheWay, ArrivalInv
<1>3. DOMAIN OnTheWay = 1 .. Len(OnTheWay)
  BY <1>2, LenProperties
<1>4. {OnTheWay[i] : i \in DOMAIN OnTheWay} \cap Watched = (1 .. arrived) \ dropped
  BY <1>2, <1>3 DEF Members
<1> QED BY <1>2, <1>3, <1>4 DEF NothingMislaid, InOrder

(* However the latency and the drop chance are changed while packets wait,   *)
(* and whatever else arrives, every watched packet is handled once, in the   *)
(* order of arrival, or dropped on purpose: none is lost between the socket, *)
(* the queue and ProcessPacket (NetworkManager.cpp:25-103).                  *)
THEOREM NothingMislaidHolds == NetSpec => []NothingMislaid
<1>1. NetInit => NetTypeOK /\ ArrivalInv
  BY NewManagerType, NewManagerOrder DEF NetInit
<1> QED BY <1>1, NetStepKeepsOrder, NetStepType, ArrivalsAreKept, PTL DEF NetSpec

---------------------------------------------------------------------------
(* The servers of the fixture *)

\* SetUp leaves the variables of the manager as a new one has them.
NewManagerNext(s) ==
  /\ udpSocket' = s
  /\ buffer' = <<>> /\ packetQueue' = <<>>
  /\ frame' = "idle" /\ receivedPackedCount' = 0
  /\ simulatedLatency' = 0 /\ packetDropChance' = "zero"
  /\ unanswered' = 0
  /\ arrived' = 0 /\ handled' = <<>> /\ dropped' = {}

LEMMA NewManagerInPlace ==
  ASSUME NEW s \in {"none", "unbound", "open"}, NewManagerNext(s)
  PROVE  (NetTypeOK /\ ArrivalInv)'
<1>1. NewNetworkManager(s)'
  BY DEF NewManagerNext, NewNetworkManager
<1> QED BY <1>1, NewManagerType, NewManagerOrder, PTL

\* What each step of the fixture does to the manager.
LEMMA FixtureStepOfManager ==
  ASSUME [FixtureNext]_<<netVars, fixtureVars>>
  PROVE  [NetNext]_netVars \/ NewManagerNext("unbound") \/ NewManagerNext("open")
<1>1. CASE UNCHANGED <<netVars, fixtureVars>>
  BY <1>1
<1>2. CASE TestThread
  <2>1. CASE SetUp
    BY <2>1 DEF SetUp, InitNetworkManager, NewManagerNext
  <2> QED BY <1>2, <2>1 DEF TestThread, SeeServerReady, TearDown, Join
<1>3. CASE ServerThread
  BY <1>3 DEF ServerThread, SetServerReady, Run, Return, BeginServerFrame, ServerFrameStep, NetNext
<1>4. CASE PollQuit
  BY <1>4 DEF PollQuit, NetNext
<1>5. CASE Outside
  BY <1>5 DEF Outside, NetNext, Surroundings
<1> QED BY <1>1, <1>2, <1>3, <1>4, <1>5 DEF FixtureNext, Finished

\* FixtureTypeOK without the manager.
ThreadsTypeOK ==
  /\ tests \in 0 .. MaxTests
  /\ fixture \in {"between tests", "waiting", "test", "joining"}
  /\ serverReady \in BOOLEAN
  /\ serverThread \in {"none", "started", "running", "returned"}
  /\ quit \in BOOLEAN
  /\ portInUse \in BOOLEAN

LEMMA FixtureStepOfThreads ==
  ASSUME ThreadsTypeOK, [FixtureNext]_<<netVars, fixtureVars>>
  PROVE  ThreadsTypeOK'
<1>1. CASE SetUp
  <2>1. tests' \in 0 .. MaxTests
    <3>1. MaxTests \in Nat /\ tests \in 0 .. MaxTests
      BY FixtureAssumption DEF ThreadsTypeOK
    <3>2. tests < MaxTests /\ tests' = tests + 1
      BY <1>1 DEF SetUp
    <3> QED BY <3>1, <3>2
  <2> QED BY <1>1, <2>1 DEF SetUp, InitNetworkManager, ThreadsTypeOK
<1>2. CASE SeeServerReady \/ TearDown \/ Join
  BY <1>2 DEF SeeServerReady, TearDown, Join, ThreadsTypeOK
<1>3. CASE SetServerReady \/ Run \/ Return
  BY <1>3 DEF SetServerReady, Run, Return, ThreadsTypeOK
<1>4. CASE PollQuit
  BY <1>4 DEF PollQuit, ThreadsTypeOK
<1>5. CASE UNCHANGED fixtureVars
  BY <1>5 DEF fixtureVars, ThreadsTypeOK
<1> QED BY <1>1, <1>2, <1>3, <1>4, <1>5 DEF FixtureNext, TestThread, ServerThread, BeginServerFrame,
        ServerFrameStep, Outside, Finished

LEMMA FixtureInvariance == FixtureSpec => [](NetTypeOK /\ ArrivalInv /\ ThreadsTypeOK)
<1>1. FixtureInit => NetTypeOK /\ ArrivalInv /\ ThreadsTypeOK
  <2>1. FixtureInit => NetTypeOK /\ ArrivalInv
    BY NewManagerType, NewManagerOrder DEF FixtureInit
  <2>2. FixtureInit => ThreadsTypeOK
    <3>1. 0 \in 0 .. MaxTests /\ PortTaken \in BOOLEAN
      <4>1. MaxTests \in Nat
        BY FixtureAssumption
      <4> QED BY <4>1, FixtureAssumption
    <3> QED BY <3>1, Zenon DEF FixtureInit, ThreadsTypeOK
  <2> QED BY <2>1, <2>2
<1>2. NetTypeOK /\ ArrivalInv /\ ThreadsTypeOK /\ [FixtureNext]_<<netVars, fixtureVars>>
        => (NetTypeOK /\ ArrivalInv /\ ThreadsTypeOK)'
  <2> SUFFICES ASSUME NetTypeOK, ArrivalInv, ThreadsTypeOK, [FixtureNext]_<<netVars, fixtureVars>>
               PROVE  NetTypeOK' /\ ArrivalInv' /\ ThreadsTypeOK'
    OBVIOUS
  <2>1. NetTypeOK' /\ ArrivalInv'
    <3>1. CASE [NetNext]_netVars
      BY <3>1, NetStepType, NetStepKeepsOrder
    <3>2. CASE NewManagerNext("unbound") \/ NewManagerNext("open")
      BY <3>2, NewManagerInPlace
    <3> QED BY <3>1, <3>2, FixtureStepOfManager
  <2> QED BY <2>1, FixtureStepOfThreads
<1> QED BY <1>1, <1>2, PTL DEF FixtureSpec

(* Every variable of a server's life keeps its type, whether or not its      *)
(* socket could be bound (IntegrationTests.cpp, Engine.cpp).                  *)
THEOREM FixtureTypeCorrect == FixtureSpec => []FixtureTypeOK
<1>1. NetTypeOK /\ ThreadsTypeOK => FixtureTypeOK
  BY DEF ThreadsTypeOK, FixtureTypeOK
<1> QED BY <1>1, FixtureInvariance, PTL

(* Nor does a server of the fixture mislay a packet, started, asked to quit  *)
(* and joined when it may be.                                                *)
THEOREM FixtureMislaysNothing == FixtureSpec => []NothingMislaid
  BY FixtureInvariance, ArrivalsAreKept, PTL
=============================================================================
