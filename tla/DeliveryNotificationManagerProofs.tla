----------------- MODULE DeliveryNotificationManagerProofs -----------------
(***************************************************************************)
(* Proofs about DeliveryNotificationManager, for every pair of peers,      *)
(* every size of the sequence number space, every range limit and every    *)
(* bound.                                                                  *)
(***************************************************************************)
EXTENDS DeliveryNotificationManager, TLAPS, SequenceTheorems

---------------------------------------------------------------------------
(* Lemmas about the operators. *)

(* There are exactly two ends. *)
LEMMA OtherPeer ==
  \A p \in Peer : /\ Other(p) \in Peer
                  /\ Other(p) # p
                  /\ Other(Other(p)) = p
                  /\ \A q \in Peer : q # p => q = Other(p)
BY PeerAssumption DEF Other

(* Incrementing a sequence number stays in its type. *)
LEMMA SuccessorType == \A s \in PacketSequenceNumber : Successor(s) \in PacketSequenceNumber
BY NumberAssumption DEF Successor, PacketSequenceNumber

(* A written range is a range that names only numbers of the range it was. *)
LEMMA WrittenRange ==
  ASSUME NEW range \in AckRange
  PROVE  /\ Written(range) \in AckRange
         /\ \A x \in Nat : InRange(x, Written(range)) => InRange(x, range)
<1> DEFINE c == IF range.count > MaxRange THEN MaxRange ELSE range.count
<1>1. /\ range.start \in PacketSequenceNumber
      /\ range.start \in Int
      /\ range.count \in Nat
      /\ range = [start |-> range.start, count |-> range.count]
  BY DEF AckRange, PacketSequenceNumber
<1>2. Written(range) = [start |-> range.start, count |-> c]
  BY <1>1 DEF Written
<1>3. c \in Nat /\ c <= range.count
  BY <1>1, NumberAssumption
<1>4. Written(range) \in AckRange
  BY <1>1, <1>2, <1>3 DEF AckRange
<1>5. ASSUME NEW x \in Nat, InRange(x, Written(range)) PROVE InRange(x, range)
  BY <1>1, <1>2, <1>3, <1>5 DEF InRange
<1> QED BY <1>4, <1>5

(* AddPendingAck keeps a deque of ranges, ... *)
LEMMA AddPendingAckType ==
  ASSUME NEW acks \in Seq(AckRange), NEW s \in PacketSequenceNumber
  PROVE  AddPendingAck(acks, s) \in Seq(AckRange)
<1> DEFINE new == [start |-> s, count |-> 1]
<1>1. new \in AckRange
  BY DEF AckRange
<1>2. CASE acks # <<>> /\ ShouldExtend(acks[Len(acks)], s)
  <2>1. Len(acks) \in 1 .. Len(acks) /\ acks[Len(acks)] \in AckRange
    BY <1>2, LenProperties, EmptySeq
  <2>2. [acks[Len(acks)] EXCEPT !.count = @ + 1] \in AckRange
    BY <2>1 DEF AckRange
  <2>3. AddPendingAck(acks, s)
          = [acks EXCEPT ![Len(acks)] = [acks[Len(acks)] EXCEPT !.count = @ + 1]]
    BY <1>2, <2>1, LenProperties DEF AddPendingAck
  <2> QED BY <2>1, <2>2, <2>3, ExceptSeq
<1>3. CASE ~(acks # <<>> /\ ShouldExtend(acks[Len(acks)], s))
  BY <1>1, <1>3 DEF AddPendingAck
<1> QED BY <1>2, <1>3

(* ... and names no number but s and those that were pending. *)
LEMMA AddPendingAckNames ==
  ASSUME NEW acks \in Seq(AckRange), NEW s \in PacketSequenceNumber,
         NEW i \in 1 .. Len(AddPendingAck(acks, s)), NEW x \in Nat,
         InRange(x, AddPendingAck(acks, s)[i])
  PROVE  x = s \/ \E j \in 1 .. Len(acks) : InRange(x, acks[j])
<1> DEFINE new == [start |-> s, count |-> 1]
           last == acks[Len(acks)]
<1>1. CASE acks # <<>> /\ ShouldExtend(last, s)
  <2>1. Len(acks) \in 1 .. Len(acks) /\ last \in AckRange
    BY <1>1, LenProperties, EmptySeq
  <2>2. AddPendingAck(acks, s) = [acks EXCEPT ![Len(acks)] = [last EXCEPT !.count = @ + 1]]
    BY <1>1, <2>1, LenProperties DEF AddPendingAck
  <2>3. [last EXCEPT !.count = @ + 1] \in AckRange
    BY <2>1 DEF AckRange
  <2>4. /\ Len(AddPendingAck(acks, s)) = Len(acks)
        /\ AddPendingAck(acks, s)[i] =
             IF i = Len(acks) THEN [last EXCEPT !.count = @ + 1] ELSE acks[i]
    BY <2>1, <2>2, <2>3, ExceptSeq
  <2>5. CASE i = Len(acks)
    <3>1. /\ last.start \in Nat /\ last.count \in Nat /\ s = last.start + last.count
          /\ [last EXCEPT !.count = @ + 1].start = last.start
          /\ [last EXCEPT !.count = @ + 1].count = last.count + 1
      BY <1>1, <2>1 DEF AckRange, PacketSequenceNumber, ShouldExtend
    <3>2. last.start <= x /\ x < last.start + (last.count + 1)
      BY <2>4, <2>5, <3>1 DEF InRange
    <3>3. x = s \/ InRange(x, last)
      BY <3>1, <3>2 DEF InRange
    <3> QED BY <2>1, <3>3
  <2>6. CASE i # Len(acks)
    BY <2>4, <2>6
  <2> QED BY <2>5, <2>6
<1>2. CASE ~(acks # <<>> /\ ShouldExtend(last, s))
  <2>1. AddPendingAck(acks, s) = Append(acks, new)
    BY <1>2 DEF AddPendingAck
  <2>2. new \in AckRange /\ new.start = s /\ new.count = 1
    BY DEF AckRange
  <2>3. CASE i = Len(acks) + 1
    <3>1. s \in Nat /\ AddPendingAck(acks, s)[i] = new
      BY <2>1, <2>3, NumberAssumption DEF PacketSequenceNumber
    <3> QED BY <2>2, <3>1 DEF InRange
  <2>4. CASE i # Len(acks) + 1
    <3>1. i \in 1 .. Len(acks) /\ AddPendingAck(acks, s)[i] = acks[i]
      BY <2>1, <2>4
    <3> QED BY <3>1
  <2> QED BY <2>3, <2>4
<1> QED BY <1>1, <1>2

(* The failures a range settles are among the packets it settles. *)
LEMMA SettlesOrder ==
  ASSUME NEW q \in Seq(PacketSequenceNumber), NEW range \in AckRange,
         NEW f \in 0 .. Len(q), NEW n \in 0 .. Len(q), Settles(q, range, f, n)
  PROVE  f <= n
<1>1. /\ range.start \in Nat /\ range.count \in Nat
      /\ \A i \in 1 .. Len(q) : q[i] \in Nat
  BY NumberAssumption DEF AckRange, PacketSequenceNumber
<1>2. SUFFICES ASSUME n < f PROVE FALSE
  OBVIOUS
<1>3. n + 1 \in 1 .. f /\ n + 1 \in 1 .. Len(q)
  BY <1>2
<1>4. q[n + 1] < range.start
  BY <1>3 DEF Settles, LongestPrefixBelow
<1>5. q[n + 1] >= range.start + range.count
  BY <1>3 DEF Settles, LongestPrefixBelow
<1> QED BY <1>1, <1>3, <1>4, <1>5

---------------------------------------------------------------------------
(* Type correctness. *)

(* Reporting f failures and n - f successes keeps the types of what it       *)
(* changes.                                                                  *)
LEMMA ReportType ==
  ASSUME TypeOK, NEW p \in Peer,
         NEW f \in 0 .. Len(inFlightPackets[p]), NEW n \in 0 .. Len(inFlightPackets[p]),
         f <= n, Report(p, f, n)
  PROVE  /\ inFlightPackets' \in [Peer -> Seq(PacketSequenceNumber)]
         /\ droppedPacketCount' \in [Peer -> Nat]
         /\ deliveredPacketCount' \in [Peer -> Nat]
         /\ confirmed' \in [Peer -> SUBSET Nat]
<1> DEFINE q == inFlightPackets[p]
<1>1. q \in Seq(PacketSequenceNumber) /\ Len(q) \in Nat
  BY LenProperties DEF TypeOK
<1>2. SubSeq(q, n + 1, Len(q)) \in Seq(PacketSequenceNumber)
  BY <1>1, SubSeqProperties, ElementOfSeq
<1>3. inFlightPackets' \in [Peer -> Seq(PacketSequenceNumber)]
  BY <1>2 DEF TypeOK, Report
<1>4. /\ droppedPacketCount' \in [Peer -> Nat]
      /\ deliveredPacketCount' \in [Peer -> Nat]
  BY <1>1 DEF TypeOK, Report
<1>5. {FirstInFlight(p) + i : i \in f .. n - 1} \subseteq Nat
  BY <1>1 DEF TypeOK, FirstInFlight
<1>6. confirmed' \in [Peer -> SUBSET Nat]
  BY <1>5 DEF TypeOK, Report
<1> QED BY <1>3, <1>4, <1>6

(* Processing acknowledgements is such a report. *)
LEMMA ProcessAcksReports ==
  ASSUME TypeOK, NEW p \in Peer, NEW range \in AckRange, ProcessAcks(p, range)
  PROVE  \E f, n \in 0 .. Len(inFlightPackets[p]) :
           /\ f <= n
           /\ Settles(inFlightPackets[p], range, f, n)
           /\ Report(p, f, n)
<1>1. inFlightPackets[p] \in Seq(PacketSequenceNumber)
  BY DEF TypeOK
<1>2. PICK f, n \in 0 .. Len(inFlightPackets[p]) :
        Settles(inFlightPackets[p], range, f, n) /\ Report(p, f, n)
  BY DEF ProcessAcks
<1>3. f <= n
  BY <1>1, <1>2, SettlesOrder
<1> QED BY <1>2, <1>3

(* Each action keeps the types. *)
LEMMA WriteStateType ==
  ASSUME TypeOK, NEW p \in Peer, WriteState(p)
  PROVE  TypeOK'
<1> DEFINE s == nextOutgoingSequenceNumber[p]
           m == [from |-> p, nth |-> dispatchedPacketCount[p], sequenceNumber |-> s,
                 ack |-> WriteAckData(p)]
<1>1. s \in PacketSequenceNumber /\ Successor(s) \in PacketSequenceNumber
  BY SuccessorType DEF TypeOK
<1>2. /\ nextOutgoingSequenceNumber' \in [Peer -> PacketSequenceNumber]
      /\ dispatchedPacketCount' \in [Peer -> Nat]
  BY <1>1 DEF TypeOK, WriteState
<1>3. inFlightPackets' \in [Peer -> Seq(PacketSequenceNumber)]
  BY <1>1 DEF TypeOK, WriteState
<1>4. pendingAcks[p] \in Seq(AckRange)
  BY DEF TypeOK
<1>5. pendingAcks[p] # <<>> =>
        Head(pendingAcks[p]) \in AckRange /\ Tail(pendingAcks[p]) \in Seq(AckRange)
  BY <1>4, HeadTailProperties
<1>6. pendingAcks' \in [Peer -> Seq(AckRange)]
  BY <1>5 DEF TypeOK, WriteState
<1>7. WriteAckData(p) \in AckRange
  <2>1. EmptyRange \in AckRange
    BY NumberAssumption DEF EmptyRange, AckRange, PacketSequenceNumber
  <2> QED BY <1>5, <2>1, WrittenRange DEF WriteAckData
<1>8. m \in Packet
  BY <1>1, <1>7 DEF TypeOK, Packet
<1>9. network' \subseteq Packet
  BY <1>8 DEF TypeOK, WriteState
<1> QED BY <1>2, <1>3, <1>6, <1>9 DEF TypeOK, WriteState, counts

LEMMA ReadAndProcessStateType ==
  ASSUME TypeOK, NEW p \in Peer, NEW m \in network, ReadAndProcessState(p, m)
  PROVE  TypeOK'
<1>1. /\ m.sequenceNumber \in PacketSequenceNumber
      /\ m.ack \in AckRange /\ m.nth \in Nat
  BY DEF TypeOK, Packet
<1>2. /\ nextExpectedSequenceNumber' \in [Peer -> PacketSequenceNumber]
      /\ pendingAcks' \in [Peer -> Seq(AckRange)]
      /\ accepted' \in [Peer -> Seq(Nat)]
  <2>1. CASE m.sequenceNumber >= nextExpectedSequenceNumber[p]
    <3> DEFINE s == m.sequenceNumber
    <3>0. /\ nextExpectedSequenceNumber' =
               [nextExpectedSequenceNumber EXCEPT ![p] = Successor(s)]
          /\ accepted' = [accepted EXCEPT ![p] = Append(@, m.nth)]
      BY <2>1 DEF ReadAndProcessState, ProcessSequenceNumber
    <3>1. nextExpectedSequenceNumber' \in [Peer -> PacketSequenceNumber]
      BY <1>1, <3>0, SuccessorType DEF TypeOK
    <3>2. AddPendingAck(pendingAcks[p], m.sequenceNumber) \in Seq(AckRange)
      BY <1>1, AddPendingAckType DEF TypeOK
    <3>3. pendingAcks' \in [Peer -> Seq(AckRange)]
      BY <2>1, <3>2 DEF TypeOK, ReadAndProcessState, ProcessSequenceNumber
    <3>4. accepted' \in [Peer -> Seq(Nat)]
      BY <1>1, <3>0 DEF TypeOK
    <3> QED BY <3>1, <3>3, <3>4
  <2>2. CASE ~(m.sequenceNumber >= nextExpectedSequenceNumber[p])
    BY <2>2 DEF TypeOK, ReadAndProcessState, ProcessSequenceNumber
  <2> QED BY <2>1, <2>2
<1>3. /\ inFlightPackets' \in [Peer -> Seq(PacketSequenceNumber)]
      /\ droppedPacketCount' \in [Peer -> Nat]
      /\ deliveredPacketCount' \in [Peer -> Nat]
      /\ confirmed' \in [Peer -> SUBSET Nat]
  <2>1. CASE ShouldProcessAcks[p]
    <3>1. ProcessAcks(p, m.ack)
      BY <2>1 DEF ReadAndProcessState
    <3>2. PICK f, n \in 0 .. Len(inFlightPackets[p]) : f <= n /\ Report(p, f, n)
      BY <1>1, <3>1, ProcessAcksReports
    <3> QED BY <3>2, ReportType
  <2>2. CASE ~ShouldProcessAcks[p]
    BY <2>2 DEF TypeOK, ReadAndProcessState, counts
  <2> QED BY <2>1, <2>2
<1> QED BY <1>2, <1>3 DEF TypeOK, ReadAndProcessState

LEMMA ProcessTimedOutPacketsType ==
  ASSUME TypeOK, NEW p \in Peer, ProcessTimedOutPackets(p)
  PROVE  TypeOK'
<1>1. Len(inFlightPackets[p]) \in Nat
  BY LenProperties DEF TypeOK
<1>2. PICK n \in 1 .. Len(inFlightPackets[p]) : Report(p, n, n)
  BY DEF ProcessTimedOutPackets
<1>3. n \in 0 .. Len(inFlightPackets[p]) /\ n <= n
  BY <1>1
<1>4. /\ inFlightPackets' \in [Peer -> Seq(PacketSequenceNumber)]
      /\ droppedPacketCount' \in [Peer -> Nat]
      /\ deliveredPacketCount' \in [Peer -> Nat]
      /\ confirmed' \in [Peer -> SUBSET Nat]
  BY <1>2, <1>3, ReportType
<1> QED BY <1>4 DEF TypeOK, ProcessTimedOutPackets

LEMMA TypeStep == TypeOK /\ [Next]_vars => TypeOK'
<1> SUFFICES ASSUME TypeOK, [Next]_vars PROVE TypeOK'
  OBVIOUS
<1>1. ASSUME NEW p \in Peer, WriteState(p) PROVE TypeOK'
  BY <1>1, WriteStateType
<1>2. ASSUME NEW p \in Peer, NEW m \in network, ReadAndProcessState(p, m) PROVE TypeOK'
  BY <1>2, ReadAndProcessStateType
<1>3. ASSUME NEW p \in Peer, ProcessTimedOutPackets(p) PROVE TypeOK'
  BY <1>3, ProcessTimedOutPacketsType
<1>4. CASE UNCHANGED vars
  BY <1>4 DEF TypeOK, vars, counts
<1> QED BY <1>1, <1>2, <1>3, <1>4 DEF Next

LEMMA TypeInit == Init => TypeOK
<1> SUFFICES ASSUME Init PROVE TypeOK
  OBVIOUS
<1>1. 0 \in PacketSequenceNumber
  BY NumberAssumption DEF PacketSequenceNumber
<1> QED BY <1>1 DEF Init, TypeOK

(* The members keep the types of their C++ declarations: in particular no    *)
(* sequence number leaves its 16 bits and no count goes below zero.          *)
THEOREM TypeCorrect == Spec => []TypeOK
BY TypeInit, TypeStep, PTL DEF Spec

---------------------------------------------------------------------------
(* Accounting. *)

(* What a report does to the deque and to the position of its front.         *)
LEMMA ReportMoves ==
  ASSUME TypeOK, NEW p \in Peer,
         NEW f \in 0 .. Len(inFlightPackets[p]), NEW n \in 0 .. Len(inFlightPackets[p]),
         f <= n, Report(p, f, n)
  PROVE  /\ Len(inFlightPackets'[p]) = Len(inFlightPackets[p]) - n
         /\ \A i \in 1 .. Len(inFlightPackets'[p]) :
              inFlightPackets'[p][i] = inFlightPackets[p][i + n]
         /\ FirstInFlight(p)' = FirstInFlight(p) + n
         /\ \A q \in Peer : q # p =>
              /\ inFlightPackets'[q] = inFlightPackets[q]
              /\ FirstInFlight(q)' = FirstInFlight(q)
              /\ confirmed'[q] = confirmed[q]
         /\ confirmed'[p] = confirmed[p] \cup {FirstInFlight(p) + i : i \in f .. n - 1}
<1> DEFINE d == inFlightPackets[p]
<1>1. d \in Seq(PacketSequenceNumber) /\ Len(d) \in Nat
  BY LenProperties DEF TypeOK
<1>2. inFlightPackets'[p] = SubSeq(d, n + 1, Len(d))
  BY DEF TypeOK, Report
<1>3. /\ Len(SubSeq(d, n + 1, Len(d))) = IF n + 1 <= Len(d) THEN Len(d) - (n + 1) + 1 ELSE 0
      /\ \A i \in 1 .. Len(d) - (n + 1) + 1 :
           SubSeq(d, n + 1, Len(d))[i] = d[n + 1 + i - 1]
  BY <1>1, SubSeqProperties, ElementOfSeq
<1>4. /\ Len(inFlightPackets'[p]) = Len(d) - n
      /\ \A i \in 1 .. Len(inFlightPackets'[p]) : inFlightPackets'[p][i] = d[i + n]
  BY <1>1, <1>2, <1>3
<1>5. FirstInFlight(p)' = FirstInFlight(p) + n
  BY <1>1 DEF TypeOK, Report, FirstInFlight
<1>6. \A q \in Peer : q # p =>
        /\ inFlightPackets'[q] = inFlightPackets[q]
        /\ FirstInFlight(q)' = FirstInFlight(q)
        /\ confirmed'[q] = confirmed[q]
  BY DEF TypeOK, Report, FirstInFlight
<1>7. confirmed'[p] = confirmed[p] \cup {FirstInFlight(p) + i : i \in f .. n - 1}
  BY DEF TypeOK, Report
<1> QED BY <1>4, <1>5, <1>6, <1>7

(* Reading a packet reports some prefix of the deque, possibly an empty one. *)
LEMMA ReadReports ==
  ASSUME TypeOK, NEW p \in Peer, NEW m \in network, ReadAndProcessState(p, m)
  PROVE  \/ /\ ~ShouldProcessAcks[p]
            /\ UNCHANGED <<inFlightPackets, droppedPacketCount, deliveredPacketCount, confirmed>>
         \/ \E f, n \in 0 .. Len(inFlightPackets[p]) :
              /\ f <= n
              /\ Settles(inFlightPackets[p], m.ack, f, n)
              /\ Report(p, f, n)
<1>1. m.ack \in AckRange
  BY DEF TypeOK, Packet
<1>2. CASE ShouldProcessAcks[p]
  <2>1. ProcessAcks(p, m.ack)
    BY <1>2 DEF ReadAndProcessState
  <2> QED BY <1>1, <2>1, ProcessAcksReports
<1>3. CASE ~ShouldProcessAcks[p]
  BY <1>3 DEF ReadAndProcessState, counts
<1> QED BY <1>2, <1>3

LEMMA AccountingStep == TypeOK /\ Accounting /\ [Next]_vars => Accounting'
<1> SUFFICES ASSUME TypeOK, Accounting, [Next]_vars,
                    NEW q \in Peer, ShouldProcessAcks[q]
             PROVE  FirstInFlight(q)' + Len(inFlightPackets'[q]) = dispatchedPacketCount'[q]
  BY DEF Accounting, FirstInFlight
<1>0. /\ FirstInFlight(q) \in Nat /\ Len(inFlightPackets[q]) \in Nat
      /\ FirstInFlight(q) + Len(inFlightPackets[q]) = dispatchedPacketCount[q]
  BY LenProperties DEF TypeOK, Accounting, FirstInFlight
<1>1. ASSUME NEW p \in Peer, WriteState(p)
      PROVE  FirstInFlight(q)' + Len(inFlightPackets'[q]) = dispatchedPacketCount'[q]
  <2>1. FirstInFlight(q)' = FirstInFlight(q)
    BY <1>1 DEF WriteState, FirstInFlight, counts
  <2>2. CASE p = q
    <3>1. /\ inFlightPackets'[q] = Append(inFlightPackets[q], nextOutgoingSequenceNumber[q])
          /\ dispatchedPacketCount'[q] = dispatchedPacketCount[q] + 1
      BY <1>1, <2>2 DEF WriteState, TypeOK
    <3>2. inFlightPackets[q] \in Seq(PacketSequenceNumber)
      BY DEF TypeOK
    <3>3. Len(inFlightPackets'[q]) = Len(inFlightPackets[q]) + 1
      BY <3>1, <3>2
    <3> QED BY <1>0, <2>1, <3>1, <3>3
  <2>3. CASE p # q
    BY <1>0, <1>1, <2>1, <2>3 DEF WriteState, TypeOK
  <2> QED BY <2>2, <2>3
<1>2. ASSUME NEW p \in Peer, UNCHANGED dispatchedPacketCount,
             NEW f \in 0 .. Len(inFlightPackets[p]), NEW n \in 0 .. Len(inFlightPackets[p]),
             f <= n, Report(p, f, n)
      PROVE  FirstInFlight(q)' + Len(inFlightPackets'[q]) = dispatchedPacketCount'[q]
  <2>1. CASE p = q
    <3>1. /\ Len(inFlightPackets'[q]) = Len(inFlightPackets[q]) - n
          /\ FirstInFlight(q)' = FirstInFlight(q) + n
      BY <1>2, <2>1, ReportMoves
    <3> QED BY <1>0, <1>2, <2>1, <3>1
  <2>2. CASE p # q
    BY <1>0, <1>2, <2>2, ReportMoves
  <2> QED BY <2>1, <2>2
<1>3. ASSUME NEW p \in Peer, NEW m \in network, ReadAndProcessState(p, m)
      PROVE  FirstInFlight(q)' + Len(inFlightPackets'[q]) = dispatchedPacketCount'[q]
  <2>1. UNCHANGED dispatchedPacketCount
    BY <1>3 DEF ReadAndProcessState
  <2>2. CASE UNCHANGED <<inFlightPackets, droppedPacketCount, deliveredPacketCount, confirmed>>
    BY <1>0, <2>1, <2>2 DEF FirstInFlight
  <2>3. CASE \E f, n \in 0 .. Len(inFlightPackets[p]) : f <= n /\ Report(p, f, n)
    BY <1>2, <2>1, <2>3
  <2> QED BY <1>3, <2>2, <2>3, ReadReports
<1>4. ASSUME NEW p \in Peer, ProcessTimedOutPackets(p)
      PROVE  FirstInFlight(q)' + Len(inFlightPackets'[q]) = dispatchedPacketCount'[q]
  <2>1. PICK n \in 1 .. Len(inFlightPackets[p]) :
          Report(p, n, n) /\ UNCHANGED dispatchedPacketCount
    BY <1>4 DEF ProcessTimedOutPackets
  <2>2. n \in 0 .. Len(inFlightPackets[p]) /\ n <= n
    BY LenProperties DEF TypeOK
  <2> QED BY <1>2, <2>1, <2>2
<1>5. CASE UNCHANGED vars
  BY <1>0, <1>5 DEF vars, counts, FirstInFlight
<1> QED BY <1>1, <1>3, <1>4, <1>5 DEF Next

LEMMA AccountingInit == Init => Accounting
BY EmptySeq DEF Init, Accounting

(* Every dispatched packet is in flight or was reported exactly once, before *)
(* and after a wrap.                                                         *)
THEOREM AccountingHolds == Spec => []Accounting
BY TypeInit, TypeStep, AccountingInit, AccountingStep, PTL DEF Spec

---------------------------------------------------------------------------
(* The invariant.  One lemma for each action of the sender p and of the      *)
(* other end.                                                                *)

LEMMA Types ==
  ASSUME TypeOK, NEW p \in Peer
  PROVE  /\ nextOutgoingSequenceNumber[p] \in Nat
         /\ nextExpectedSequenceNumber[p] \in Nat
         /\ dispatchedPacketCount[p] \in Nat
         /\ FirstInFlight(p) \in Nat
         /\ inFlightPackets[p] \in Seq(PacketSequenceNumber)
         /\ Len(inFlightPackets[p]) \in Nat
         /\ pendingAcks[p] \in Seq(AckRange)
         /\ Len(pendingAcks[p]) \in Nat
         /\ accepted[p] \in Seq(Nat)
         /\ Len(accepted[p]) \in Nat
         /\ \A i \in 1 .. Len(accepted[p]) : accepted[p][i] \in Nat
  BY NumberAssumption, LenProperties DEF TypeOK, FirstInFlight, PacketSequenceNumber

LEMMA SenderWrites ==
  ASSUME TypeOK, Accounting, NEW p \in Peer, NotWrapped(p)', PeerInv(p), WriteState(p)
  PROVE  PeerInv(p)'
<1> DEFINE q == Other(p)
           m == [from |-> p, nth |-> dispatchedPacketCount[p],
                 sequenceNumber |-> nextOutgoingSequenceNumber[p], ack |-> WriteAckData(p)]
<1>1. q \in Peer /\ q # p
  BY OtherPeer
<1>2. /\ dispatchedPacketCount'[p] = dispatchedPacketCount[p] + 1
      /\ nextOutgoingSequenceNumber'[p] = Successor(nextOutgoingSequenceNumber[p])
      /\ network' = network \cup {m}
      /\ UNCHANGED <<nextExpectedSequenceNumber, accepted, confirmed>>
      /\ FirstInFlight(p)' = FirstInFlight(p)
      /\ pendingAcks'[q] = pendingAcks[q]
  BY <1>1 DEF WriteState, TypeOK, counts, FirstInFlight
<1>3. NumbersInv(p)'
  <2>1. nextOutgoingSequenceNumber[p] = dispatchedPacketCount[p]
    BY DEF PeerInv, NumbersInv
  <2>2. dispatchedPacketCount[p] + 1 < SeqMod
    BY <1>2 DEF NotWrapped
  <2>3. nextOutgoingSequenceNumber'[p] = dispatchedPacketCount'[p]
    BY <1>2, <2>1, <2>2, Types, NumberAssumption DEF Successor
  <2>4. ASSUME NEW o \in network', o.from = p
        PROVE  o.sequenceNumber = o.nth /\ o.nth < dispatchedPacketCount'[p]
    <3>1. CASE o \in network
      <4>1. o.nth \in Nat
        BY <3>1 DEF TypeOK, Packet
      <4>2. o.sequenceNumber = o.nth /\ o.nth < dispatchedPacketCount[p]
        BY <2>4, <3>1 DEF PeerInv, NumbersInv
      <4> QED BY <1>2, <4>1, <4>2, Types
    <3>2. CASE o = m
      BY <1>2, <2>1, <3>2, Types
    <3> QED BY <1>2, <3>1, <3>2
  <2> QED BY <2>3, <2>4 DEF NumbersInv
<1>4. FlightInv(p)'
  <2>1. CASE ShouldProcessAcks[p]
    <3>1. inFlightPackets'[p] = Append(inFlightPackets[p], nextOutgoingSequenceNumber[p])
      BY <2>1 DEF WriteState, TypeOK
    <3>2. /\ Len(inFlightPackets'[p]) = Len(inFlightPackets[p]) + 1
          /\ \A i \in 1 .. Len(inFlightPackets[p]) :
               inFlightPackets'[p][i] = inFlightPackets[p][i]
          /\ inFlightPackets'[p][Len(inFlightPackets[p]) + 1] = nextOutgoingSequenceNumber[p]
      BY <3>1, Types
    <3>3. nextOutgoingSequenceNumber[p] = FirstInFlight(p) + Len(inFlightPackets[p])
      BY <2>1 DEF Accounting, FirstInFlight, PeerInv, NumbersInv
    <3>4. ASSUME NEW i \in 1 .. Len(inFlightPackets'[p])
          PROVE  inFlightPackets'[p][i] = FirstInFlight(p)' + i - 1
      <4>1. CASE i \in 1 .. Len(inFlightPackets[p])
        BY <1>2, <3>2, <4>1 DEF PeerInv, FlightInv
      <4>2. CASE i = Len(inFlightPackets[p]) + 1
        BY <1>2, <3>2, <3>3, <4>2, Types
      <4> QED BY <3>2, <4>1, <4>2, Types
    <3> QED BY <3>4 DEF FlightInv
  <2>2. CASE ~ShouldProcessAcks[p]
    <3>1. inFlightPackets'[p] = inFlightPackets[p]
      BY <2>2 DEF WriteState, TypeOK
    <3> QED BY <1>2, <3>1 DEF PeerInv, FlightInv
  <2> QED BY <2>1, <2>2
<1>5. AcceptedInv(p)'
  BY <1>1, <1>2, Types DEF PeerInv, AcceptedInv
<1>6. AckInv(p)'
  BY <1>1, <1>2 DEF PeerInv, AckInv, Accepted
<1>7. confirmed'[p] \subseteq Accepted(q)'
  BY <1>2 DEF PeerInv, Accepted
<1> QED BY <1>3, <1>4, <1>5, <1>6, <1>7 DEF PeerInv

(* The other end takes a range off its deque: it still names accepted        *)
(* packets only.                                                             *)
LEMMA AcceptorWrites ==
  ASSUME TypeOK, NEW p \in Peer, PeerInv(p), WriteState(Other(p))
  PROVE  PeerInv(p)'
<1> DEFINE q == Other(p)
           m == [from |-> q, nth |-> dispatchedPacketCount[q],
                 sequenceNumber |-> nextOutgoingSequenceNumber[q], ack |-> WriteAckData(q)]
<1>1. q \in Peer /\ q # p
  BY OtherPeer
<1>2. /\ dispatchedPacketCount'[p] = dispatchedPacketCount[p]
      /\ nextOutgoingSequenceNumber'[p] = nextOutgoingSequenceNumber[p]
      /\ network' = network \cup {m}
      /\ inFlightPackets'[p] = inFlightPackets[p]
      /\ UNCHANGED <<nextExpectedSequenceNumber, accepted, confirmed>>
      /\ FirstInFlight(p)' = FirstInFlight(p)
      /\ pendingAcks'[q] = IF ShouldSendAcks[q] /\ pendingAcks[q] # <<>>
                           THEN Tail(pendingAcks[q]) ELSE pendingAcks[q]
  BY <1>1 DEF WriteState, TypeOK, counts, FirstInFlight
<1>3. NumbersInv(p)'
  BY <1>1, <1>2 DEF PeerInv, NumbersInv
<1>4. FlightInv(p)' /\ AcceptedInv(p)' /\ confirmed'[p] \subseteq Accepted(q)'
  BY <1>2 DEF PeerInv, FlightInv, AcceptedInv, Accepted
<1>5. AckInv(p)'
  <2>1. \A i \in 1 .. Len(pendingAcks[q]) : \A x \in PacketSequenceNumber :
           InRange(x, pendingAcks[q][i]) => x \in Accepted(q)
    BY DEF PeerInv, AckInv
  <2>2. ASSUME NEW i \in 1 .. Len(pendingAcks'[q]), NEW x \in PacketSequenceNumber,
               InRange(x, pendingAcks'[q][i])
        PROVE  x \in Accepted(q)
    <3>1. CASE ShouldSendAcks[q] /\ pendingAcks[q] # <<>>
      <4>1. /\ Len(pendingAcks'[q]) = Len(pendingAcks[q]) - 1
            /\ pendingAcks'[q][i] = pendingAcks[q][i + 1]
        BY <1>1, <1>2, <3>1, Types, HeadTailProperties
      <4>2. i + 1 \in 1 .. Len(pendingAcks[q])
        BY <1>1, <4>1, Types
      <4> QED BY <2>1, <2>2, <4>1, <4>2
    <3>2. CASE ~(ShouldSendAcks[q] /\ pendingAcks[q] # <<>>)
      BY <1>2, <2>1, <2>2, <3>2
    <3> QED BY <3>1, <3>2
  <2>3. ASSUME NEW x \in PacketSequenceNumber, InRange(x, WriteAckData(q))
        PROVE  x \in Accepted(q)
    <3>1. x \in Nat
      BY NumberAssumption DEF PacketSequenceNumber
    <3>2. CASE ShouldSendAcks[q] /\ pendingAcks[q] # <<>>
      <4>1. Head(pendingAcks[q]) = pendingAcks[q][1] /\ 1 \in 1 .. Len(pendingAcks[q])
        BY <1>1, <3>2, Types, EmptySeq
      <4>2. Head(pendingAcks[q]) \in AckRange
        BY <1>1, <3>2, Types, HeadTailProperties
      <4>3. InRange(x, Head(pendingAcks[q]))
        BY <2>3, <3>1, <3>2, <4>2, WrittenRange DEF WriteAckData
      <4> QED BY <2>1, <4>1, <4>3
    <3>3. CASE ~(ShouldSendAcks[q] /\ pendingAcks[q] # <<>>)
      BY <2>3, <3>1, <3>3 DEF WriteAckData, EmptyRange, InRange
    <3> QED BY <3>2, <3>3
  <2>4. ASSUME NEW o \in network', o.from = q, NEW x \in PacketSequenceNumber,
               InRange(x, o.ack)
        PROVE  x \in Accepted(q)
    <3>1. CASE o \in network
      BY <2>4, <3>1 DEF PeerInv, AckInv
    <3>2. CASE o = m
      BY <2>3, <2>4, <3>2
    <3> QED BY <1>2, <3>1, <3>2
  <2>5. Accepted(q)' = Accepted(q)
    BY <1>2 DEF Accepted
  <2> QED BY <2>2, <2>4, <2>5 DEF AckInv
<1> QED BY <1>3, <1>4, <1>5 DEF PeerInv

(* The other end reads a packet of p: it accepts the packet only if it is    *)
(* later than all it accepted before, and then acknowledges it.              *)
LEMMA AcceptorReads ==
  ASSUME TypeOK, NEW p \in Peer, NotWrapped(p), PeerInv(p),
         NEW m \in network, ReadAndProcessState(Other(p), m)
  PROVE  PeerInv(p)'
<1> DEFINE q == Other(p)
           s == m.sequenceNumber
<1>1. q \in Peer /\ q # p /\ Other(q) = p
  BY OtherPeer
<1>2. m.from = p
  <2>1. m.from \in Peer /\ m.from # q
    BY DEF TypeOK, Packet, ReadAndProcessState
  <2> QED BY <1>1, <2>1, OtherPeer
<1>3. /\ s = m.nth /\ s < dispatchedPacketCount[p] /\ s \in PacketSequenceNumber /\ s \in Nat
  BY <1>2, NumberAssumption DEF PeerInv, NumbersInv, TypeOK, Packet, PacketSequenceNumber
<1>4. Successor(s) = s + 1
  BY <1>3, Types, NumberAssumption DEF NotWrapped, Successor
<1>5. /\ UNCHANGED <<nextOutgoingSequenceNumber, dispatchedPacketCount, network>>
      /\ inFlightPackets'[p] = inFlightPackets[p]
      /\ FirstInFlight(p)' = FirstInFlight(p)
      /\ confirmed'[p] = confirmed[p]
  <2>1. UNCHANGED <<nextOutgoingSequenceNumber, dispatchedPacketCount, network>>
    BY DEF ReadAndProcessState
  <2>2. /\ inFlightPackets'[p] = inFlightPackets[p]
        /\ FirstInFlight(p)' = FirstInFlight(p)
        /\ confirmed'[p] = confirmed[p]
    <3>1. CASE UNCHANGED <<inFlightPackets, droppedPacketCount, deliveredPacketCount, confirmed>>
      BY <3>1 DEF FirstInFlight
    <3>2. CASE \E f, n \in 0 .. Len(inFlightPackets[q]) : f <= n /\ Report(q, f, n)
      BY <1>1, <3>2, ReportMoves
    <3> QED BY <1>1, <3>1, <3>2, ReadReports
  <2> QED BY <2>1, <2>2
<1>6. NumbersInv(p)' /\ FlightInv(p)'
  BY <1>5 DEF PeerInv, NumbersInv, FlightInv
<1>7. CASE ~(s >= nextExpectedSequenceNumber[q])
  <2>1. UNCHANGED <<nextExpectedSequenceNumber, pendingAcks, accepted>>
    BY <1>7 DEF ReadAndProcessState, ProcessSequenceNumber
  <2>2. AcceptedInv(p)' /\ AckInv(p)' /\ confirmed'[p] \subseteq Accepted(q)'
    BY <1>5, <2>1 DEF PeerInv, AcceptedInv, AckInv, Accepted
  <2> QED BY <1>6, <2>2 DEF PeerInv
<1>8. CASE s >= nextExpectedSequenceNumber[q]
  <2>1. /\ nextExpectedSequenceNumber'[q] = s + 1
        /\ pendingAcks'[q] = IF ShouldSendAcks[q] THEN AddPendingAck(pendingAcks[q], s)
                                                 ELSE pendingAcks[q]
        /\ accepted'[q] = Append(accepted[q], s)
    BY <1>1, <1>3, <1>4, <1>8 DEF ReadAndProcessState, ProcessSequenceNumber, TypeOK
  <2>2. /\ Len(accepted'[q]) = Len(accepted[q]) + 1
        /\ \A i \in 1 .. Len(accepted[q]) : accepted'[q][i] = accepted[q][i]
        /\ accepted'[q][Len(accepted[q]) + 1] = s
    BY <1>1, <1>3, <2>1, Types
  <2>3. \A i \in 1 .. Len(accepted'[q]) :
          i \in 1 .. Len(accepted[q]) \/ i = Len(accepted[q]) + 1
    BY <1>1, <2>2, Types
  <2>4. \A i \in 1 .. Len(accepted[q]) : accepted[q][i] < s
    <3>1. \A i \in 1 .. Len(accepted[q]) :
            accepted[q][i] < nextExpectedSequenceNumber[q]
      BY DEF PeerInv, AcceptedInv
    <3> QED BY <1>1, <1>3, <1>8, <3>1, Types
  <2>5. AcceptedInv(p)'
    <3>1. nextExpectedSequenceNumber'[q] <= dispatchedPacketCount'[p]
      BY <1>3, <1>5, <2>1, Types
    <3>2. \A i \in 1 .. Len(accepted'[q]) :
            accepted'[q][i] < nextExpectedSequenceNumber'[q]
      BY <1>1, <1>3, <2>1, <2>2, <2>3, <2>4, Types, SMTT(30)
    <3>3. ASSUME NEW i \in 1 .. Len(accepted'[q]), NEW j \in 1 .. Len(accepted'[q]), i < j
          PROVE  accepted'[q][i] < accepted'[q][j]
      <4>1. i \in 1 .. Len(accepted[q])
        BY <1>1, <2>2, <3>3, Types
      <4>2. CASE j \in 1 .. Len(accepted[q])
        BY <2>2, <3>3, <4>1, <4>2 DEF PeerInv, AcceptedInv
      <4>3. CASE j = Len(accepted[q]) + 1
        BY <2>2, <2>4, <4>1, <4>3
      <4> QED BY <2>3, <4>2, <4>3
    <3> QED BY <3>1, <3>2, <3>3 DEF AcceptedInv
  <2>6. Accepted(q) \subseteq Accepted(q)' /\ s \in Accepted(q)'
    <3>1. ASSUME NEW x \in Accepted(q) PROVE x \in Accepted(q)'
      <4>1. PICK i \in 1 .. Len(accepted[q]) : x = accepted[q][i]
        BY <3>1 DEF Accepted
      <4>2. i \in 1 .. Len(accepted'[q]) /\ x = accepted'[q][i]
        BY <1>1, <2>2, <4>1, Types
      <4> QED BY <4>2 DEF Accepted
    <3>2. Len(accepted[q]) + 1 \in 1 .. Len(accepted'[q])
      BY <1>1, <2>2, Types
    <3> QED BY <2>2, <3>1, <3>2 DEF Accepted
  <2>7. AckInv(p)'
    <3>1. ASSUME NEW i \in 1 .. Len(pendingAcks'[q]), NEW x \in PacketSequenceNumber,
                 InRange(x, pendingAcks'[q][i])
          PROVE  x \in Accepted(q)'
      <4>1. x \in Nat
        BY NumberAssumption DEF PacketSequenceNumber
      <4>2. x = s \/ \E j \in 1 .. Len(pendingAcks[q]) : InRange(x, pendingAcks[q][j])
        BY <1>1, <1>3, <2>1, <3>1, <4>1, Types, AddPendingAckNames
      <4>3. x = s \/ x \in Accepted(q)
        BY <4>2 DEF PeerInv, AckInv
      <4> QED BY <2>6, <4>3
    <3>2. ASSUME NEW o \in network', o.from = q, NEW x \in PacketSequenceNumber,
                 InRange(x, o.ack)
          PROVE  x \in Accepted(q)'
      <4>1. o \in network
        BY <1>5
      <4>2. x \in Accepted(q)
        BY <3>2, <4>1 DEF PeerInv, AckInv
      <4> QED BY <2>6, <4>2
    <3> QED BY <3>1, <3>2 DEF AckInv
  <2>8. confirmed'[p] \subseteq Accepted(q)'
    BY <1>5, <2>6 DEF PeerInv
  <2> QED BY <1>6, <2>5, <2>7, <2>8 DEF PeerInv
<1> QED BY <1>7, <1>8

(* A report of p's own packets disturbs only the deque and what is confirmed.*)
LEMMA SenderReports ==
  ASSUME TypeOK, NEW p \in Peer, PeerInv(p),
         NEW f \in 0 .. Len(inFlightPackets[p]), NEW n \in 0 .. Len(inFlightPackets[p]),
         f <= n, Report(p, f, n),
         \A i \in f .. n - 1 : FirstInFlight(p) + i \in Accepted(Other(p)),
         UNCHANGED <<nextOutgoingSequenceNumber, dispatchedPacketCount, network>>,
         nextExpectedSequenceNumber'[Other(p)] = nextExpectedSequenceNumber[Other(p)],
         pendingAcks'[Other(p)] = pendingAcks[Other(p)],
         accepted'[Other(p)] = accepted[Other(p)]
  PROVE  PeerInv(p)'
<1>1. NumbersInv(p)' /\ AcceptedInv(p)' /\ AckInv(p)'
  BY DEF PeerInv, NumbersInv, AcceptedInv, AckInv, Accepted
<1>2. FlightInv(p)'
  <2>1. /\ Len(inFlightPackets'[p]) = Len(inFlightPackets[p]) - n
        /\ FirstInFlight(p)' = FirstInFlight(p) + n
        /\ \A i \in 1 .. Len(inFlightPackets'[p]) :
             inFlightPackets'[p][i] = inFlightPackets[p][i + n]
    BY ReportMoves
  <2>2. ASSUME NEW i \in 1 .. Len(inFlightPackets'[p])
        PROVE  inFlightPackets'[p][i] = FirstInFlight(p)' + i - 1
    <3>1. i + n \in 1 .. Len(inFlightPackets[p])
      BY <2>1, Types
    <3>2. inFlightPackets[p][i + n] = FirstInFlight(p) + (i + n) - 1
      BY <3>1 DEF PeerInv, FlightInv
    <3> QED BY <2>1, <3>2, Types
  <2> QED BY <2>2 DEF FlightInv
<1>3. confirmed'[p] \subseteq Accepted(Other(p))'
  <2>1. confirmed'[p] = confirmed[p] \cup {FirstInFlight(p) + i : i \in f .. n - 1}
    BY ReportMoves
  <2>2. Accepted(Other(p))' = Accepted(Other(p))
    BY DEF Accepted
  <2> QED BY <2>1, <2>2 DEF PeerInv
<1> QED BY <1>1, <1>2, <1>3 DEF PeerInv

(* p reads a packet of the other end: what it reports as delivered lies in   *)
(* the acknowledged range, and so was accepted.                              *)
LEMMA SenderReads ==
  ASSUME TypeOK, NEW p \in Peer, PeerInv(p), NEW m \in network, ReadAndProcessState(p, m)
  PROVE  PeerInv(p)'
<1> DEFINE q == Other(p)
<1>1. q \in Peer /\ q # p
  BY OtherPeer
<1>2. m.from = q
  <2>1. m.from \in Peer /\ m.from # p
    BY DEF TypeOK, Packet, ReadAndProcessState
  <2> QED BY <2>1, OtherPeer
<1>3. /\ UNCHANGED <<nextOutgoingSequenceNumber, dispatchedPacketCount, network>>
      /\ nextExpectedSequenceNumber'[q] = nextExpectedSequenceNumber[q]
      /\ pendingAcks'[q] = pendingAcks[q]
      /\ accepted'[q] = accepted[q]
  <2>1. CASE m.sequenceNumber >= nextExpectedSequenceNumber[p]
    BY <1>1, <2>1 DEF TypeOK, ReadAndProcessState, ProcessSequenceNumber
  <2>2. CASE ~(m.sequenceNumber >= nextExpectedSequenceNumber[p])
    BY <2>2 DEF ReadAndProcessState, ProcessSequenceNumber
  <2> QED BY <2>1, <2>2
<1>4. CASE UNCHANGED <<inFlightPackets, droppedPacketCount, deliveredPacketCount, confirmed>>
  BY <1>3, <1>4 DEF PeerInv, NumbersInv, FlightInv, AcceptedInv, AckInv, Accepted,
                    FirstInFlight
<1>5. ASSUME NEW f \in 0 .. Len(inFlightPackets[p]), NEW n \in 0 .. Len(inFlightPackets[p]),
             f <= n, Settles(inFlightPackets[p], m.ack, f, n), Report(p, f, n)
      PROVE  PeerInv(p)'
  <2>1. ASSUME NEW i \in f .. n - 1
        PROVE  FirstInFlight(p) + i \in Accepted(q)
    <3> DEFINE x == inFlightPackets[p][i + 1]
    <3>1. i + 1 \in 1 .. n /\ i + 1 \in 1 .. Len(inFlightPackets[p]) /\ i \in Int
      BY Types
    <3>2. x = FirstInFlight(p) + i /\ x \in PacketSequenceNumber /\ x \in Nat
      BY <3>1, Types, ElementOfSeq, NumberAssumption, SMTT(30)
         DEF PeerInv, FlightInv, PacketSequenceNumber
    <3>3. x < m.ack.start + m.ack.count
      BY <1>5, <3>1 DEF Settles, LongestPrefixBelow
    <3>4. m.ack.start <= x
      <4>1. f < Len(inFlightPackets[p]) /\ f + 1 \in 1 .. Len(inFlightPackets[p])
        BY <2>1, Types
      <4>2. inFlightPackets[p][f + 1] >= m.ack.start
        BY <1>5, <4>1 DEF Settles, LongestPrefixBelow
      <4>3. inFlightPackets[p][f + 1] = FirstInFlight(p) + f
        BY <4>1, Types DEF PeerInv, FlightInv
      <4>4. m.ack.start \in Int
        BY NumberAssumption, SMTT(30) DEF TypeOK, Packet, AckRange, PacketSequenceNumber
      <4> QED BY <2>1, <3>2, <4>2, <4>3, <4>4, Types
    <3> QED BY <1>2, <3>2, <3>3, <3>4 DEF PeerInv, AckInv, InRange
  <2> QED BY <1>3, <1>5, <2>1, SenderReports
<1> QED BY <1>4, <1>5, ReadReports

(* Packets that time out are dropped, never delivered. *)
LEMMA TimesOut ==
  ASSUME TypeOK, NEW p \in Peer, PeerInv(p), NEW r \in Peer, ProcessTimedOutPackets(r)
  PROVE  PeerInv(p)'
<1>1. Other(p) \in Peer
  BY OtherPeer
<1>2. PICK n \in 1 .. Len(inFlightPackets[r]) :
        /\ Report(r, n, n)
        /\ UNCHANGED <<nextOutgoingSequenceNumber, nextExpectedSequenceNumber, pendingAcks,
                       dispatchedPacketCount, network, accepted>>
  BY DEF ProcessTimedOutPackets
<1>3. n \in 0 .. Len(inFlightPackets[r]) /\ n <= n /\ \A i \in n .. n - 1 : FALSE
  BY Types
<1>4. CASE r = p
  BY <1>2, <1>3, <1>4, SenderReports
<1>5. CASE r # p
  <2>1. /\ inFlightPackets'[p] = inFlightPackets[p]
        /\ FirstInFlight(p)' = FirstInFlight(p)
        /\ confirmed'[p] = confirmed[p]
    BY <1>2, <1>3, <1>5, ReportMoves
  <2> QED BY <1>2, <2>1 DEF PeerInv, NumbersInv, FlightInv, AcceptedInv, AckInv, Accepted
<1> QED BY <1>4, <1>5

LEMMA InvStep == Inv /\ [Next]_vars => Inv'
<1> SUFFICES ASSUME Inv, [Next]_vars PROVE Inv'
  OBVIOUS
<1>1. TypeOK /\ TypeOK' /\ Accounting /\ Accounting'
  BY TypeStep, AccountingStep DEF Inv
<1>2. ASSUME NEW p \in Peer, NotWrapped(p)' PROVE PeerInv(p)'
  <2>1. CASE UNCHANGED vars
    <3>1. NotWrapped(p)
      BY <1>2, <2>1 DEF NotWrapped, vars
    <3> QED BY <2>1, <3>1 DEF Inv, PeerInv, NumbersInv, FlightInv, AcceptedInv, AckInv,
                              Accepted, FirstInFlight, vars, counts
  <2>2. ASSUME NEW r \in Peer, WriteState(r) PROVE PeerInv(p)'
    <3>1. NotWrapped(p)
      <4>1. /\ dispatchedPacketCount \in [Peer -> Nat]
            /\ dispatchedPacketCount' = [dispatchedPacketCount EXCEPT ![r] = @ + 1]
        BY <1>1, <2>2 DEF WriteState, TypeOK
      <4>2. /\ dispatchedPacketCount[p] \in Nat
            /\ dispatchedPacketCount'[p] \in {dispatchedPacketCount[p],
                                              dispatchedPacketCount[p] + 1}
        BY <4>1
      <4> QED BY <1>2, <4>2, NumberAssumption DEF NotWrapped
    <3>2. PeerInv(p)
      BY <3>1 DEF Inv
    <3>3. CASE r = p
      BY <1>1, <1>2, <2>2, <3>2, <3>3, SenderWrites
    <3>4. CASE r = Other(p)
      BY <1>1, <2>2, <3>2, <3>4, AcceptorWrites
    <3> QED BY <3>3, <3>4, OtherPeer
  <2>3. ASSUME NEW r \in Peer, NEW m \in network, ReadAndProcessState(r, m)
        PROVE  PeerInv(p)'
    <3>1. NotWrapped(p) /\ PeerInv(p)
      BY <1>2, <2>3 DEF NotWrapped, ReadAndProcessState, Inv
    <3>2. CASE r = p
      BY <1>1, <2>3, <3>1, <3>2, SenderReads
    <3>3. CASE r = Other(p)
      BY <1>1, <2>3, <3>1, <3>3, AcceptorReads
    <3> QED BY <3>2, <3>3, OtherPeer
  <2>4. ASSUME NEW r \in Peer, ProcessTimedOutPackets(r) PROVE PeerInv(p)'
    <3>1. NotWrapped(p) /\ PeerInv(p)
      BY <1>2, <2>4 DEF NotWrapped, ProcessTimedOutPackets, Inv
    <3> QED BY <1>1, <2>4, <3>1, TimesOut
  <2> QED BY <2>1, <2>2, <2>3, <2>4 DEF Next
<1> QED BY <1>1, <1>2 DEF Inv

LEMMA InvInit == Init => Inv
<1> SUFFICES ASSUME Init PROVE Inv
  OBVIOUS
<1>1. ASSUME NEW p \in Peer PROVE PeerInv(p)
  <2>1. Other(p) \in Peer
    BY OtherPeer
  <2> QED BY <2>1, EmptySeq DEF Init, PeerInv, NumbersInv, FlightInv, AcceptedInv, AckInv,
                                Accepted
<1> QED BY <1>1, TypeInit, AccountingInit DEF Inv

(* Every reachable state satisfies the invariant. *)
THEOREM Invariance == Spec => []Inv
BY InvInit, InvStep, PTL DEF Spec

(* Until the sender's numbers wrap, a packet is reported as delivered only   *)
(* if the other end accepted it.                                             *)
THEOREM DeliveredWasAcceptedHolds == Spec => []DeliveredWasAccepted
<1>1. Inv => DeliveredWasAccepted
  BY DEF Inv, PeerInv, DeliveredWasAccepted
<1> QED BY <1>1, Invariance, PTL

(* Until the sender's numbers wrap, the other end accepts each of its        *)
(* packets at most once and in the order of sending.                         *)
THEOREM AcceptedInOrderHolds == Spec => []AcceptedInOrder
<1>1. ASSUME Inv PROVE AcceptedInOrder
  <2> SUFFICES ASSUME NEW p \in Peer, NotWrapped(Other(p)),
                      NEW i \in 1 .. Len(accepted[p]), NEW j \in 1 .. Len(accepted[p]), i < j
               PROVE  accepted[p][i] < accepted[p][j]
    BY DEF AcceptedInOrder
  <2>1. Other(p) \in Peer /\ Other(Other(p)) = p
    BY OtherPeer
  <2>2. AcceptedInv(Other(p))
    BY <1>1, <2>1 DEF Inv, PeerInv
  <2> QED BY <2>1, <2>2 DEF AcceptedInv
<1> QED BY <1>1, Invariance, PTL

---------------------------------------------------------------------------
(* No acknowledgement is mislaid: one that is pending stays pending or is    *)
(* written, in every step, and what is written stays in the network.  That   *)
(* the number acknowledged is the position of the packet accepted comes from *)
(* Inv.                                                                      *)

\* The disjuncts of AckLostOnlyBehindFullRange.
AckWaits(acks, x) == \E i \in 1 .. Len(acks) : InRange(x, acks[i])
AckSent(q, x) ==
  \E m \in network : /\ m.from = q
                     /\ \/ InRange(x, m.ack)
                        \/ m.ack.count = MaxRange /\ x >= m.ack.start + MaxRange
AckKept(q, x) == AckWaits(pendingAcks[q], x) \/ AckSent(q, x)

---------------------------------------------------------------------------
(* AddPendingAck names s and everything that it was given. *)
LEMMA AddPendingAckKeeps ==
  ASSUME NEW acks \in Seq(AckRange), NEW s \in PacketSequenceNumber,
         NEW x \in Nat, x = s \/ AckWaits(acks, x)
  PROVE  AckWaits(AddPendingAck(acks, s), x)
<1> DEFINE new == [start |-> s, count |-> 1]
           last == acks[Len(acks)]
<1>0. s \in Nat
  BY NumberAssumption DEF PacketSequenceNumber
<1>1. CASE acks # <<>> /\ ShouldExtend(last, s)
  <2>1. Len(acks) \in 1 .. Len(acks) /\ last \in AckRange
    BY <1>1, LenProperties, EmptySeq
  <2>2. AddPendingAck(acks, s) = [acks EXCEPT ![Len(acks)] = [last EXCEPT !.count = @ + 1]]
    BY <1>1, <2>1, LenProperties DEF AddPendingAck
  <2>3. [last EXCEPT !.count = @ + 1] \in AckRange
    BY <2>1 DEF AckRange
  <2>4. /\ Len(AddPendingAck(acks, s)) = Len(acks)
        /\ \A i \in 1 .. Len(acks) :
             AddPendingAck(acks, s)[i] =
               IF i = Len(acks) THEN [last EXCEPT !.count = @ + 1] ELSE acks[i]
    BY <2>1, <2>2, <2>3, ExceptSeq
  <2>5. /\ last.start \in Nat /\ last.count \in Nat /\ s = last.start + last.count
        /\ [last EXCEPT !.count = @ + 1].start = last.start
        /\ [last EXCEPT !.count = @ + 1].count = last.count + 1
    BY <1>1, <2>1, NumberAssumption DEF AckRange, PacketSequenceNumber, ShouldExtend
  <2>6. x = s \/ InRange(x, last) => InRange(x, [last EXCEPT !.count = @ + 1])
    BY <1>0, <2>5 DEF InRange
  <2>7. CASE x = s
    BY <2>1, <2>4, <2>6, <2>7 DEF AckWaits
  <2>8. CASE AckWaits(acks, x)
    <3>1. PICK i \in 1 .. Len(acks) : InRange(x, acks[i])
      BY <2>8 DEF AckWaits
    <3>2. InRange(x, AddPendingAck(acks, s)[i])
      BY <2>4, <2>6, <3>1
    <3> QED BY <2>4, <3>2 DEF AckWaits
  <2> QED BY <2>7, <2>8
<1>2. CASE ~(acks # <<>> /\ ShouldExtend(last, s))
  <2>1. AddPendingAck(acks, s) = Append(acks, new)
    BY <1>2 DEF AddPendingAck
  <2>2. new \in AckRange /\ new.start = s /\ new.count = 1
    BY DEF AckRange
  <2>3. /\ Len(Append(acks, new)) = Len(acks) + 1
        /\ \A i \in 1 .. Len(acks) : Append(acks, new)[i] = acks[i]
        /\ Append(acks, new)[Len(acks) + 1] = new
        /\ Len(acks) \in Nat
    BY <2>2, AppendProperties, LenProperties
  <2>4. CASE x = s
    <3>1. InRange(x, new)
      BY <1>0, <2>2, <2>4 DEF InRange
    <3>2. Len(acks) + 1 \in 1 .. Len(Append(acks, new))
      BY <2>3
    <3> QED BY <2>1, <2>3, <3>1, <3>2 DEF AckWaits
  <2>5. CASE AckWaits(acks, x)
    <3>1. PICK i \in 1 .. Len(acks) : InRange(x, acks[i])
      BY <2>5 DEF AckWaits
    <3>2. i \in 1 .. Len(Append(acks, new))
      BY <2>3
    <3> QED BY <2>1, <2>3, <3>1, <3>2 DEF AckWaits
  <2> QED BY <2>4, <2>5
<1> QED BY <1>1, <1>2

(* A written range names what the range named, or is full and what it cuts   *)
(* off lies behind it.                                                       *)
LEMMA WrittenKeeps ==
  ASSUME NEW range \in AckRange, NEW x \in Nat, InRange(x, range)
  PROVE  \/ InRange(x, Written(range))
         \/ /\ Written(range).count = MaxRange
            /\ x >= Written(range).start + MaxRange
<1> DEFINE c == IF range.count > MaxRange THEN MaxRange ELSE range.count
<1>1. /\ range.start \in Int /\ range.count \in Nat
      /\ range = [start |-> range.start, count |-> range.count]
  BY DEF AckRange, PacketSequenceNumber
<1>2. Written(range) = [start |-> range.start, count |-> c]
  BY <1>1 DEF Written
<1>3. Written(range).start = range.start /\ Written(range).count = c
  BY <1>2
<1>4. range.start <= x /\ x < range.start + range.count
  BY DEF InRange
<1>5. CASE range.count > MaxRange
  BY <1>1, <1>3, <1>4, <1>5, NumberAssumption DEF InRange
<1>6. CASE ~(range.count > MaxRange)
  BY <1>1, <1>3, <1>4, <1>6, NumberAssumption DEF InRange
<1> QED BY <1>5, <1>6

---------------------------------------------------------------------------
(* No step loses an acknowledgement. *)

(* Writing a packet moves the front range into the network. *)
LEMMA WriteStateKeeps ==
  ASSUME TypeOK, NEW q \in Peer, ShouldSendAcks[q], NEW r \in Peer, WriteState(r),
         NEW x \in Nat, AckKept(q, x)
  PROVE  AckKept(q, x)'
<1> DEFINE m == [from |-> r, nth |-> dispatchedPacketCount[r],
                 sequenceNumber |-> nextOutgoingSequenceNumber[r], ack |-> WriteAckData(r)]
<1>1. network' = network \cup {m} /\ m.from = r /\ m.ack = WriteAckData(r)
  BY DEF WriteState
<1>2. CASE AckSent(q, x)
  BY <1>1, <1>2 DEF AckSent, AckKept
<1>3. CASE AckWaits(pendingAcks[q], x) /\ r # q
  <2>1. pendingAcks'[q] = pendingAcks[q]
    BY <1>3 DEF WriteState, TypeOK
  <2> QED BY <1>3, <2>1 DEF AckKept, AckWaits
<1>4. CASE AckWaits(pendingAcks[q], x) /\ r = q
  <2>1. pendingAcks[q] \in Seq(AckRange)
    BY DEF TypeOK
  <2>2. PICK i \in 1 .. Len(pendingAcks[q]) : InRange(x, pendingAcks[q][i])
    BY <1>4 DEF AckWaits
  <2>3. pendingAcks[q] # <<>>
    BY <2>2, EmptySeq
  <2>4. pendingAcks'[q] = Tail(pendingAcks[q])
    BY <1>4, <2>3 DEF WriteState, TypeOK
  <2>5. CASE i = 1
    <3>1. Head(pendingAcks[q]) = pendingAcks[q][1] /\ pendingAcks[q][1] \in AckRange
      BY <2>1, <2>2, <2>3, <2>5, HeadTailProperties, ElementOfSeq
    <3>2. m.ack = Written(pendingAcks[q][1])
      BY <1>1, <1>4, <2>3, <3>1 DEF WriteAckData
    <3>3. InRange(x, m.ack) \/ (m.ack.count = MaxRange /\ x >= m.ack.start + MaxRange)
      BY <2>2, <2>5, <3>1, <3>2, WrittenKeeps
    <3>4. m \in network' /\ m.from = q
      BY <1>1, <1>4
    <3> QED BY <3>3, <3>4 DEF AckSent, AckKept
  <2>6. CASE i # 1
    <3>1. /\ Len(Tail(pendingAcks[q])) = Len(pendingAcks[q]) - 1
          /\ \A j \in 1 .. Len(Tail(pendingAcks[q])) :
               Tail(pendingAcks[q])[j] = pendingAcks[q][j + 1]
      BY <2>1, <2>3, HeadTailProperties
    <3>2. Len(pendingAcks[q]) \in Nat
      BY <2>1, LenProperties
    <3>3. PICK j \in 1 .. Len(Tail(pendingAcks[q])) : i = j + 1
      BY <2>2, <2>6, <3>1, <3>2
    <3>4. InRange(x, pendingAcks'[q][j])
      BY <2>2, <2>4, <3>1, <3>3
    <3> QED BY <2>4, <3>4 DEF AckWaits, AckKept
  <2> QED BY <2>5, <2>6
<1> QED BY <1>2, <1>3, <1>4 DEF AckKept

(* Reading a packet only adds to what is pending. *)
LEMMA ReadKeeps ==
  ASSUME TypeOK, NEW q \in Peer, ShouldSendAcks[q], NEW r \in Peer, NEW m \in network,
         ReadAndProcessState(r, m), NEW x \in Nat, AckKept(q, x)
  PROVE  AckKept(q, x)'
<1>1. network' = network
  BY DEF ReadAndProcessState
<1>2. m.sequenceNumber \in PacketSequenceNumber /\ pendingAcks[q] \in Seq(AckRange)
  BY DEF TypeOK, Packet
<1>3. \/ pendingAcks'[q] = pendingAcks[q]
      \/ pendingAcks'[q] = AddPendingAck(pendingAcks[q], m.sequenceNumber)
  <2>1. CASE m.sequenceNumber >= nextExpectedSequenceNumber[r]
    BY <2>1 DEF ReadAndProcessState, ProcessSequenceNumber, TypeOK
  <2>2. CASE ~(m.sequenceNumber >= nextExpectedSequenceNumber[r])
    BY <2>2 DEF ReadAndProcessState, ProcessSequenceNumber
  <2> QED BY <2>1, <2>2
<1>4. CASE AckSent(q, x)
  BY <1>1, <1>4 DEF AckSent, AckKept
<1>5. CASE AckWaits(pendingAcks[q], x)
  <2>1. AckWaits(pendingAcks'[q], x)
    BY <1>2, <1>3, <1>5, AddPendingAckKeeps
  <2> QED BY <2>1 DEF AckKept, AckWaits
<1> QED BY <1>4, <1>5 DEF AckKept

---------------------------------------------------------------------------
(* What is accepted by a step is acknowledged by it. *)

(* A step that accepts a packet accepts the one it reads, under its number. *)
LEMMA NewlyAccepted ==
  ASSUME Inv, NEW q \in Peer, NotWrapped(Other(q)), ShouldSendAcks[q],
         NEW r \in Peer, NEW m \in network, ReadAndProcessState(r, m),
         NEW x \in Accepted(q)', x \notin Accepted(q)
  PROVE  AckKept(q, x)'
<1>1. accepted[q] \in Seq(Nat) /\ pendingAcks[q] \in Seq(AckRange) /\ TypeOK
  BY DEF Inv, TypeOK
<1>2. accepted'[q] # accepted[q]
  BY DEF Accepted
<1>3. /\ m.sequenceNumber >= nextExpectedSequenceNumber[r]
      /\ accepted' = [accepted EXCEPT ![r] = Append(@, m.nth)]
      /\ pendingAcks' = [pendingAcks EXCEPT ![r] =
            IF ShouldSendAcks[r] THEN AddPendingAck(@, m.sequenceNumber) ELSE @]
  BY <1>2 DEF ReadAndProcessState, ProcessSequenceNumber
<1>4. r = q
  BY <1>1, <1>2, <1>3 DEF TypeOK
<1>5. /\ accepted'[q] = Append(accepted[q], m.nth)
      /\ pendingAcks'[q] = AddPendingAck(pendingAcks[q], m.sequenceNumber)
  BY <1>1, <1>3, <1>4 DEF TypeOK
<1>6. m.from \in Peer /\ m.from # q /\ m.sequenceNumber \in PacketSequenceNumber /\ m.nth \in Nat
  BY <1>1, <1>4 DEF TypeOK, Packet, ReadAndProcessState
<1>7. m.from = Other(q) /\ Other(q) \in Peer
  BY <1>6, OtherPeer
<1>8. m.sequenceNumber = m.nth
  BY <1>7 DEF Inv, PeerInv, NumbersInv
<1>9. x = m.nth
  <2>1. PICK i \in 1 .. Len(accepted'[q]) : x = accepted'[q][i]
    BY DEF Accepted
  <2>2. /\ Len(accepted'[q]) = Len(accepted[q]) + 1 /\ Len(accepted[q]) \in Nat
        /\ \A j \in 1 .. Len(accepted[q]) : accepted'[q][j] = accepted[q][j]
        /\ accepted'[q][Len(accepted[q]) + 1] = m.nth
    BY <1>1, <1>5, <1>6, AppendProperties, LenProperties
  <2>3. i \notin 1 .. Len(accepted[q])
    BY <2>1, <2>2 DEF Accepted
  <2>4. i = Len(accepted[q]) + 1
    BY <2>1, <2>2, <2>3
  <2> QED BY <2>1, <2>2, <2>4
<1>10. AckWaits(pendingAcks'[q], x)
  BY <1>1, <1>5, <1>6, <1>8, <1>9, AddPendingAckKeeps
<1> QED BY <1>10 DEF AckKept, AckWaits

LEMMA ConservationStep ==
  Inv /\ AckLostOnlyBehindFullRange /\ [Next]_vars => AckLostOnlyBehindFullRange'
<1> SUFFICES ASSUME Inv, AckLostOnlyBehindFullRange, [Next]_vars,
                    NEW q \in Peer, ShouldSendAcks[q], NotWrapped(Other(q))',
                    NEW x \in Accepted(q)'
             PROVE  AckKept(q, x)'
  BY DEF AckLostOnlyBehindFullRange, AckKept, AckWaits, AckSent
<1>1. TypeOK /\ TypeOK' /\ Other(q) \in Peer
  BY TypeStep, OtherPeer DEF Inv
<1>2. x \in Nat
  <2>1. accepted'[q] \in Seq(Nat)
    BY <1>1 DEF TypeOK
  <2>2. PICK i \in 1 .. Len(accepted'[q]) : x = accepted'[q][i]
    BY DEF Accepted
  <2> QED BY <2>1, <2>2, ElementOfSeq
<1>3. NotWrapped(Other(q)) /\ x \in Accepted(q) => AckKept(q, x)
  BY DEF AckLostOnlyBehindFullRange, AckKept, AckWaits, AckSent
<1>4. CASE UNCHANGED vars
  <2>1. NotWrapped(Other(q)) /\ x \in Accepted(q)
    BY <1>4 DEF NotWrapped, Accepted, vars
  <2> QED BY <1>3, <1>4, <2>1 DEF AckKept, AckWaits, AckSent, vars
<1>5. ASSUME NEW r \in Peer, WriteState(r) PROVE AckKept(q, x)'
  <2>1. /\ dispatchedPacketCount[Other(q)] \in Nat
        /\ dispatchedPacketCount'[Other(q)] \in {dispatchedPacketCount[Other(q)],
                                                 dispatchedPacketCount[Other(q)] + 1}
    BY <1>1, <1>5 DEF WriteState, TypeOK
  <2>2. NotWrapped(Other(q))
    BY <2>1, NumberAssumption DEF NotWrapped
  <2>3. x \in Accepted(q)
    BY <1>5 DEF WriteState, Accepted
  <2> QED BY <1>1, <1>2, <1>3, <1>5, <2>2, <2>3, WriteStateKeeps
<1>6. ASSUME NEW r \in Peer, NEW m \in network, ReadAndProcessState(r, m)
      PROVE  AckKept(q, x)'
  <2>1. NotWrapped(Other(q))
    BY <1>6 DEF NotWrapped, ReadAndProcessState
  <2>2. CASE x \in Accepted(q)
    BY <1>1, <1>2, <1>3, <1>6, <2>1, <2>2, ReadKeeps
  <2>3. CASE x \notin Accepted(q)
    BY <1>6, <2>1, <2>3, NewlyAccepted
  <2> QED BY <2>2, <2>3
<1>7. ASSUME NEW r \in Peer, ProcessTimedOutPackets(r) PROVE AckKept(q, x)'
  <2>1. UNCHANGED <<pendingAcks, network, accepted, dispatchedPacketCount>>
    BY <1>7 DEF ProcessTimedOutPackets
  <2>2. NotWrapped(Other(q)) /\ x \in Accepted(q)
    BY <2>1 DEF NotWrapped, Accepted
  <2> QED BY <1>3, <2>1, <2>2 DEF AckKept, AckWaits, AckSent
<1> QED BY <1>4, <1>5, <1>6, <1>7 DEF Next

LEMMA ConservationInit == Init => AckLostOnlyBehindFullRange
BY EmptySeq DEF Init, AckLostOnlyBehindFullRange, Accepted

(* Until the sender's numbers wrap, a packet that was accepted is named by a *)
(* range that waits or was written, or lies behind a written range that was  *)
(* cut at its limit: the code that merges, pops and cuts ranges loses no     *)
(* acknowledgement otherwise.                                                *)
THEOREM AcksAreConserved == Spec => []AckLostOnlyBehindFullRange
BY Invariance, ConservationInit, ConservationStep, PTL DEF Spec

---------------------------------------------------------------------------
(* DeliveryNotificationManager implements NotifiedDelivery as long as no end *)
(* sends so many packets that its sequence numbers wrap.                     *)

NoWrap == \A p \in Peer : MaxSends[p] < SeqMod

Bounded == \A p \in Peer : dispatchedPacketCount[p] <= MaxSends[p]

\* An end that expects no acks keeps no packets in flight.
NothingInFlight == \A p \in Peer : ~ShouldProcessAcks[p] => inFlightPackets[p] = <<>>

(* The invariant with nothing left that depends on a wrap.                   *)
NoWrapInv == Inv /\ Bounded /\ NothingInFlight /\ \A p \in Peer : PeerInv(p)

LEMMA BoundedStep == TypeOK /\ Bounded /\ [Next]_vars => Bounded'
<1> SUFFICES ASSUME TypeOK, Bounded, [Next]_vars, NEW q \in Peer
             PROVE  dispatchedPacketCount'[q] <= MaxSends[q]
  BY DEF Bounded
<1>1. dispatchedPacketCount[q] \in Nat /\ MaxSends[q] \in Nat
  BY BoundAssumption DEF TypeOK
<1>2. ASSUME NEW p \in Peer, WriteState(p)
      PROVE  dispatchedPacketCount'[q] <= MaxSends[q]
  <2>1. /\ dispatchedPacketCount' = [dispatchedPacketCount EXCEPT ![p] = @ + 1]
        /\ dispatchedPacketCount[p] < MaxSends[p]
    BY <1>2 DEF WriteState
  <2>2. CASE p = q
    BY <1>1, <2>1, <2>2 DEF TypeOK
  <2>3. CASE p # q
    BY <2>1, <2>3 DEF TypeOK, Bounded
  <2> QED BY <2>2, <2>3
<1>3. CASE UNCHANGED dispatchedPacketCount
  BY <1>3 DEF Bounded
<1> QED BY <1>2, <1>3 DEF Next, ReadAndProcessState, ProcessTimedOutPackets, vars

LEMMA NothingInFlightStep == TypeOK /\ NothingInFlight /\ [Next]_vars => NothingInFlight'
<1> SUFFICES ASSUME TypeOK, NothingInFlight, [Next]_vars,
                    NEW q \in Peer, ~ShouldProcessAcks[q]
             PROVE  inFlightPackets'[q] = <<>>
  BY DEF NothingInFlight
<1>1. inFlightPackets[q] = <<>>
  BY DEF NothingInFlight
<1>2. ASSUME NEW p \in Peer, WriteState(p) PROVE inFlightPackets'[q] = <<>>
  BY <1>1, <1>2 DEF TypeOK, WriteState
<1>3. ASSUME NEW p \in Peer, NEW f \in 0 .. Len(inFlightPackets[p]),
             NEW n \in 0 .. Len(inFlightPackets[p]), Report(p, f, n),
             p # q \/ n = 0
      PROVE  inFlightPackets'[q] = <<>>
  <2>1. CASE p # q
    BY <1>1, <1>3, <2>1 DEF TypeOK, Report
  <2>2. CASE p = q /\ n = 0
    <3>1. inFlightPackets'[q] = SubSeq(<<>>, 1, 0)
      BY <1>1, <1>3, <2>2, EmptySeq DEF TypeOK, Report
    <3> QED BY <3>1, SubSeqEmpty
  <2> QED BY <1>3, <2>1, <2>2
<1>4. ASSUME NEW p \in Peer, NEW m \in network, ReadAndProcessState(p, m)
      PROVE  inFlightPackets'[q] = <<>>
  <2>1. CASE UNCHANGED inFlightPackets
    BY <1>1, <2>1
  <2>2. CASE p # q /\ \E f, n \in 0 .. Len(inFlightPackets[p]) : Report(p, f, n)
    BY <1>3, <2>2
  <2> QED BY <1>4, <2>1, <2>2, ReadReports DEF ReadAndProcessState
<1>5. ASSUME NEW p \in Peer, ProcessTimedOutPackets(p) PROVE inFlightPackets'[q] = <<>>
  <2>1. PICK n \in 1 .. Len(inFlightPackets[p]) : Report(p, n, n)
    BY <1>5 DEF ProcessTimedOutPackets
  <2>2. p # q
    BY <1>1, <2>1, EmptySeq
  <2>3. n \in 0 .. Len(inFlightPackets[p])
    BY Types
  <2> QED BY <1>3, <2>1, <2>2, <2>3
<1>6. CASE UNCHANGED vars
  BY <1>1, <1>6 DEF vars
<1> QED BY <1>2, <1>4, <1>5, <1>6 DEF Next

LEMMA NoWrapIsInvariant == ASSUME NoWrap PROVE Spec => []NoWrapInv
<1>1. Init => Bounded /\ NothingInFlight
  BY BoundAssumption DEF Init, Bounded, NothingInFlight
<1>2. Inv /\ Bounded /\ NothingInFlight /\ [Next]_vars => (Bounded /\ NothingInFlight)'
  BY BoundedStep, NothingInFlightStep DEF Inv
<1>3. Inv /\ Bounded /\ NothingInFlight => NoWrapInv
  <2> SUFFICES ASSUME Inv, Bounded, NEW p \in Peer PROVE PeerInv(p)
    BY DEF NoWrapInv
  <2>1. /\ dispatchedPacketCount[p] \in Nat /\ MaxSends[p] \in Nat /\ SeqMod \in Nat
        /\ dispatchedPacketCount[p] <= MaxSends[p] /\ MaxSends[p] < SeqMod
    BY NoWrap, BoundAssumption, NumberAssumption DEF Inv, TypeOK, Bounded, NoWrap
  <2>2. NotWrapped(p)
    BY <2>1 DEF NotWrapped
  <2> QED BY <2>2 DEF Inv
<1> QED BY <1>1, <1>2, <1>3, Invariance, PTL DEF Spec

---------------------------------------------------------------------------
(* What the abstract specification calls accepted. *)
AcceptedFrom == [p \in Peer |-> accepted[Other(p)]]
Reported == [p \in Peer |-> FirstInFlight(p)]

LEMMA InitRefines == Init => Promise!Init
<1> SUFFICES ASSUME Init PROVE Promise!Init
  OBVIOUS
<1>1. [p \in Peer |-> accepted[Other(p)]] = [p \in Peer |-> <<>>]
  BY OtherPeer DEF Init
<1>2. [p \in Peer |-> FirstInFlight(p)] = [p \in Peer |-> 0]
  BY DEF Init, FirstInFlight
<1> QED BY <1>1, <1>2 DEF Init, Promise!Init

(* Writing a packet is sending it. *)
LEMMA WriteStateRefines ==
  ASSUME TypeOK, NEW p \in Peer, WriteState(p)
  PROVE  Promise!Send(p)
<1>1. dispatchedPacketCount' = [dispatchedPacketCount EXCEPT ![p] = @ + 1]
  BY DEF WriteState
<1>2. UNCHANGED <<AcceptedFrom, Reported, confirmed>>
  BY DEF WriteState, counts, AcceptedFrom, Reported, FirstInFlight
<1> QED BY <1>1, <1>2 DEF Promise!Send, AcceptedFrom, Reported

(* Settling a prefix of the deque is reporting it. *)
LEMMA ReportRefines ==
  ASSUME NoWrapInv, NoWrapInv', NEW p \in Peer, ShouldProcessAcks[p],
         NEW f \in 0 .. Len(inFlightPackets[p]), NEW n \in 0 .. Len(inFlightPackets[p]),
         f <= n, Report(p, f, n), accepted'[Other(p)] = accepted[Other(p)]
  PROVE  Promise!Report(p) \/ UNCHANGED <<Reported, confirmed>>
<1> DEFINE q == Other(p)
           first == FirstInFlight(p)
           D == {first + i : i \in f .. n - 1}
<1>0. TypeOK /\ Accounting /\ q \in Peer
  BY OtherPeer DEF NoWrapInv, Inv
<1>1. /\ first \in Nat /\ Len(inFlightPackets[p]) \in Nat /\ dispatchedPacketCount[p] \in Nat
      /\ first + Len(inFlightPackets[p]) = dispatchedPacketCount[p]
  BY <1>0, Types DEF Accounting, FirstInFlight
<1>2. /\ FirstInFlight(p)' = first + n
      /\ \A r \in Peer : r # p => FirstInFlight(r)' = FirstInFlight(r) /\ confirmed'[r] = confirmed[r]
      /\ confirmed'[p] = confirmed[p] \cup D
  BY <1>0, ReportMoves
<1>3. /\ confirmed \in [Peer -> SUBSET Nat] /\ confirmed' \in [Peer -> SUBSET Nat]
  BY <1>0 DEF NoWrapInv, Inv, TypeOK
<1>4. confirmed' = [confirmed EXCEPT ![p] = @ \cup D]
  BY <1>2, <1>3
<1>5. Reported' = [Reported EXCEPT ![p] = @ + n]
  <2>1. Reported' = [r \in Peer |-> FirstInFlight(r)']
    BY DEF Reported
  <2>2. \A r \in Peer : FirstInFlight(r)' = IF r = p THEN first + n ELSE FirstInFlight(r)
    BY <1>2
  <2> QED BY <2>1, <2>2 DEF Reported
<1>6. CASE n = 0
  <2>1. D = {}
    BY <1>6, <1>1
  <2>2. confirmed' = confirmed
    BY <1>3, <1>4, <2>1
  <2>3. Reported' = Reported
    BY <1>1, <1>2, <1>6 DEF Reported
  <2> QED BY <2>2, <2>3
<1>7. CASE n # 0
  <2>1. Reported[p] = first /\ AcceptedFrom[p] = accepted[q]
    BY DEF Reported, AcceptedFrom
  <2>2. n \in 1 .. dispatchedPacketCount[p] - Reported[p]
    BY <1>1, <1>7, <2>1
  <2>3. D \in SUBSET (Reported[p] .. Reported[p] + n - 1)
    BY <1>1, <2>1
  <2>4. ASSUME NEW x \in D
        PROVE  \E i \in 1 .. Len(AcceptedFrom[p]) : AcceptedFrom[p][i] = x
    <3>1. x \in confirmed'[p]
      BY <1>2
    <3>2. x \in Accepted(q)'
      BY <3>1 DEF NoWrapInv, PeerInv
    <3>3. x \in Accepted(q)
      BY <3>2 DEF Accepted
    <3> QED BY <2>1, <3>3 DEF Accepted
  <2> HIDE DEF D
  <2>5. /\ Reported' = [Reported EXCEPT ![p] = @ + n]
        /\ confirmed' = [confirmed EXCEPT ![p] = @ \cup D]
    BY <1>4, <1>5
  <2>6. Promise!Report(p)
    BY <2>2, <2>3, <2>4, <2>5 DEF Promise!Report, Reported, AcceptedFrom
  <2> QED BY <2>6
<1> QED BY <1>6, <1>7

(* Accepting a packet, or refusing it. *)
LEMMA AcceptRefines ==
  ASSUME NoWrapInv, NEW q \in Peer, NEW m \in network, ReadAndProcessState(q, m)
  PROVE  /\ Promise!Accept(Other(q)) \/ UNCHANGED AcceptedFrom
         /\ accepted'[Other(q)] = accepted[Other(q)]
<1> DEFINE p == Other(q)
<1>0. /\ TypeOK /\ PeerInv(p) /\ p \in Peer /\ p # q /\ Other(p) = q
      /\ \A r \in Peer : r # p => Other(r) # q
  BY OtherPeer DEF NoWrapInv, Inv
<1>1. m.from = p /\ m.nth \in Nat /\ m.sequenceNumber = m.nth
      /\ m.nth < dispatchedPacketCount[p]
  <2>1. m.from \in Peer /\ m.from # q /\ m.nth \in Nat
    BY <1>0 DEF TypeOK, Packet, ReadAndProcessState
  <2>2. m.from = p
    BY <2>1, OtherPeer
  <2> QED BY <1>0, <2>1, <2>2 DEF PeerInv, NumbersInv
<1>2. CASE m.sequenceNumber >= nextExpectedSequenceNumber[q]
  <2>1. accepted' = [accepted EXCEPT ![q] = Append(@, m.nth)]
    BY <1>2 DEF ReadAndProcessState, ProcessSequenceNumber
  <2>2. /\ accepted'[q] = Append(accepted[q], m.nth)
        /\ \A r \in Peer : r # q => accepted'[r] = accepted[r]
    BY <1>0, <2>1 DEF TypeOK
  <2>3. AcceptedFrom' = [AcceptedFrom EXCEPT ![p] = Append(@, m.nth)]
    <3>1. AcceptedFrom' = [r \in Peer |-> accepted'[Other(r)]]
      BY DEF AcceptedFrom
    <3>2. \A r \in Peer : accepted'[Other(r)] =
            IF r = p THEN Append(accepted[q], m.nth) ELSE accepted[Other(r)]
      BY <1>0, <2>2, OtherPeer
    <3> QED BY <1>0, <3>1, <3>2 DEF AcceptedFrom
  <2>4. AcceptedFrom[p] = accepted[q]
    BY <1>0 DEF AcceptedFrom
  <2>5. m.nth \in 0 .. dispatchedPacketCount[p] - 1
    BY <1>0, <1>1 DEF TypeOK
  <2>6. \A i \in 1 .. Len(AcceptedFrom[p]) : AcceptedFrom[p][i] < m.nth
    <3>1. \A i \in 1 .. Len(accepted[q]) : accepted[q][i] < nextExpectedSequenceNumber[q]
      BY <1>0 DEF PeerInv, AcceptedInv
    <3> QED BY <1>0, <1>1, <1>2, <2>4, <3>1, Types
  <2>7. Promise!Accept(p)
    BY <2>3, <2>5, <2>6 DEF Promise!Accept, AcceptedFrom
  <2> QED BY <1>0, <2>2, <2>7
<1>3. CASE ~(m.sequenceNumber >= nextExpectedSequenceNumber[q])
  <2>1. accepted' = accepted
    BY <1>3 DEF ReadAndProcessState, ProcessSequenceNumber
  <2> QED BY <2>1 DEF AcceptedFrom
<1> QED BY <1>2, <1>3

(* Reading a packet may do both at once. *)
LEMMA ReadRefines ==
  ASSUME NoWrapInv, NoWrapInv', NEW q \in Peer, NEW m \in network, ReadAndProcessState(q, m)
  PROVE  Promise!Next
<1> DEFINE p == Other(q)
<1>1. TypeOK /\ p \in Peer /\ p # q
  BY OtherPeer DEF NoWrapInv, Inv
<1>2. /\ Promise!Accept(p) \/ UNCHANGED AcceptedFrom
      /\ accepted'[p] = accepted[p]
  BY AcceptRefines
<1>3. Promise!Report(q) \/ UNCHANGED <<Reported, confirmed>>
  <2>1. CASE ~ShouldProcessAcks[q]
    BY <2>1 DEF ReadAndProcessState, counts, Reported, FirstInFlight
  <2>2. CASE ShouldProcessAcks[q]
    <3>1. CASE UNCHANGED <<inFlightPackets, droppedPacketCount, deliveredPacketCount, confirmed>>
      BY <3>1 DEF Reported, FirstInFlight
    <3>2. CASE \E f, n \in 0 .. Len(inFlightPackets[q]) : f <= n /\ Report(q, f, n)
      BY <1>2, <2>2, <3>2, ReportRefines
    <3> QED BY <1>1, <2>2, <3>1, <3>2, ReadReports
  <2> QED BY <2>1, <2>2
<1>4. UNCHANGED dispatchedPacketCount
  BY DEF ReadAndProcessState
<1>5. Promise!Read(p, q)
  BY <1>2, <1>3, <1>4 DEF Promise!Read, AcceptedFrom, Reported
<1> QED BY <1>1, <1>5 DEF Promise!Next

(* A timeout reports a prefix of the deque with nothing delivered. *)
LEMMA TimeoutRefines ==
  ASSUME NoWrapInv, NoWrapInv', NEW p \in Peer, ProcessTimedOutPackets(p)
  PROVE  Promise!Next \/ UNCHANGED Promise!vars
<1>1. TypeOK /\ Other(p) \in Peer /\ Other(p) # p
  BY OtherPeer DEF NoWrapInv, Inv
<1>2. PICK n \in 1 .. Len(inFlightPackets[p]) :
        Report(p, n, n) /\ UNCHANGED <<dispatchedPacketCount, accepted>>
  BY DEF ProcessTimedOutPackets
<1>3. n \in 0 .. Len(inFlightPackets[p]) /\ n <= n
  BY <1>1, Types
<1>4. UNCHANGED AcceptedFrom
  BY <1>2 DEF AcceptedFrom
<1>5. CASE ShouldProcessAcks[p]
  <2>1. Promise!Report(p) \/ UNCHANGED <<Reported, confirmed>>
    BY <1>2, <1>3, <1>5, ReportRefines
  <2>2. Promise!Read(Other(p), p)
    BY <1>2, <1>4, <2>1 DEF Promise!Read, AcceptedFrom, Reported
  <2> QED BY <1>1, <2>2 DEF Promise!Next
<1>6. CASE ~ShouldProcessAcks[p]
  <2>1. inFlightPackets[p] = <<>>
    BY <1>6 DEF NoWrapInv, NothingInFlight
  <2> QED BY <1>1, <1>2, <2>1, EmptySeq
<1> QED BY <1>5, <1>6

(* The two managers implement the abstract promise: each packet is reported  *)
(* once and in order, as delivered only if the other end accepted it, and    *)
(* the other end accepts packets once and in order.  The assumption cannot   *)
(* be dropped: past a wrap old packets are accepted again.                   *)
THEOREM Refinement == ASSUME NoWrap PROVE Spec => KeepsPromise
<1>1. NoWrapInv /\ NoWrapInv' /\ [Next]_vars => [Promise!Next]_Promise!vars
  <2> SUFFICES ASSUME NoWrapInv, NoWrapInv', [Next]_vars
               PROVE  Promise!Next \/ UNCHANGED Promise!vars
    OBVIOUS
  <2>1. ASSUME NEW p \in Peer, WriteState(p) PROVE Promise!Next
    BY <2>1, WriteStateRefines DEF NoWrapInv, Inv, Promise!Next
  <2>2. ASSUME NEW p \in Peer, NEW m \in network, ReadAndProcessState(p, m) PROVE Promise!Next
    BY <2>2, ReadRefines
  <2>3. ASSUME NEW p \in Peer, ProcessTimedOutPackets(p)
        PROVE  Promise!Next \/ UNCHANGED Promise!vars
    BY <2>3, TimeoutRefines
  <2>4. CASE UNCHANGED vars
    BY <2>4 DEF vars, counts, Promise!vars, FirstInFlight
  <2> QED BY <2>1, <2>2, <2>3, <2>4 DEF Next
<1> QED BY <1>1, InitRefines, NoWrapIsInvariant, PTL DEF Spec, KeepsPromise, Promise!Spec
=============================================================================
