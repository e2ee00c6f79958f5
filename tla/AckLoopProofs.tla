--------------------------- MODULE AckLoopProofs ---------------------------
(***************************************************************************)
(* The loop of ProcessAcks computes Settles, for every number of sequence  *)
(* numbers, every range and every deque of consecutive numbers, wraps      *)
(* included: the step that DeliveryNotificationManager takes is the loop.  *)
(***************************************************************************)
EXTENDS AckLoop, TLAPS

start == ackRange.start
taken == Len(reports)

(* After k packets, the first f of them failed.  As long as nothing was      *)
(* delivered the counter has only skipped numbers below the front; from then *)
(* on it is the front's number.                                              *)
LoopState(f) ==
  /\ f \in 0 .. taken
  /\ \A i \in 1 .. taken :
       reports[i] = IF i <= f THEN Failure(initialPackets[i]) ELSE Success(initialPackets[i])
  /\ \A i \in 1 .. f : initialPackets[i] < start
  /\ \A i \in f + 1 .. taken : initialPackets[i] < onePastAckdSequenceNumber
  /\ f < taken => /\ initialPackets[f + 1] >= start
                  /\ nextAckdSequenceNumber = Successor(initialPackets[taken])
  /\ f = taken /\ nextAckdSequenceNumber # start =>
       /\ nextAckdSequenceNumber > start
       /\ taken < Len(initialPackets)
       /\ initialPackets[taken + 1] >= nextAckdSequenceNumber
  /\ onePastAckdSequenceNumber < SeqMod =>
       \A i \in f + 1 .. taken : initialPackets[i] >= start

LoopInv ==
  /\ TypeOK
  /\ Consecutive(initialPackets)
  /\ taken <= Len(initialPackets)
  /\ Len(inFlightPackets) = Len(initialPackets) - taken
  /\ \A i \in 1 .. Len(inFlightPackets) : inFlightPackets[i] = initialPackets[taken + i]
  /\ \E f \in 0 .. taken : LoopState(f)

---------------------------------------------------------------------------
(* The numbers of a range. *)
LEMMA RangeNumbers ==
  ASSUME TypeOK
  PROVE  /\ start \in 0 .. SeqMod - 1 /\ SeqMod \in Nat
         /\ onePastAckdSequenceNumber \in Nat /\ start < onePastAckdSequenceNumber
         /\ onePastAckdSequenceNumber <= SeqMod
  BY NumberAssumption DEF TypeOK, WrittenRange, PacketSequenceNumber, start,
     onePastAckdSequenceNumber

(* The successor of a number is the next one, but for the last. *)
LEMMA SuccessorNumber ==
  ASSUME NEW s \in PacketSequenceNumber
  PROVE  /\ Successor(s) \in PacketSequenceNumber
         /\ s < SeqMod - 1 => Successor(s) = s + 1
  BY NumberAssumption DEF Successor, PacketSequenceNumber

LEMMA LoopInvInit == Init => LoopInv
<1> SUFFICES ASSUME Init PROVE LoopInv
  OBVIOUS
<1>1. initialPackets \in Seq(PacketSequenceNumber) /\ Consecutive(initialPackets)
  BY MaxInFlightAssumption DEF Init, Deques
<1>2. taken = 0 /\ inFlightPackets = initialPackets /\ nextAckdSequenceNumber = start
  BY DEF Init, taken, start
<1>3. TypeOK
  BY <1>1 DEF Init, TypeOK, WrittenRange
<1>4. LoopState(0)
  BY <1>2 DEF LoopState
<1> QED BY <1>1, <1>2, <1>3, <1>4 DEF LoopInv

(* What the front of the deque is, and what is behind it.                    *)
LEMMA FrontPacket ==
  ASSUME LoopInv, Running
  PROVE  /\ taken \in Nat /\ Len(initialPackets) \in Nat /\ taken < Len(initialPackets)
         /\ Head(inFlightPackets) = initialPackets[taken + 1]
         /\ initialPackets[taken + 1] \in PacketSequenceNumber
         /\ Len(Tail(inFlightPackets)) = Len(initialPackets) - (taken + 1)
         /\ \A i \in 1 .. Len(initialPackets) - (taken + 1) :
              Tail(inFlightPackets)[i] = initialPackets[taken + 1 + i]
         /\ taken > 0 => /\ initialPackets[taken] \in PacketSequenceNumber
                         /\ initialPackets[taken + 1] = Successor(initialPackets[taken])
<1>1. taken \in Nat /\ Len(initialPackets) \in Nat /\ inFlightPackets # <<>>
      /\ inFlightPackets \in Seq(PacketSequenceNumber)
  BY DEF LoopInv, TypeOK, taken, Running
<1>2. Len(inFlightPackets) = Len(initialPackets) - taken /\ Len(inFlightPackets) > 0
  BY <1>1 DEF LoopInv
<1>3. Head(inFlightPackets) = inFlightPackets[1]
      /\ inFlightPackets[1] = initialPackets[taken + 1]
  BY <1>1, <1>2 DEF LoopInv
<1>4. Len(Tail(inFlightPackets)) = Len(inFlightPackets) - 1
      /\ \A i \in 1 .. Len(inFlightPackets) - 1 :
           Tail(inFlightPackets)[i] = inFlightPackets[i + 1]
  BY <1>1, <1>2
<1>5. ASSUME NEW i \in 1 .. Len(initialPackets) - (taken + 1)
      PROVE  Tail(inFlightPackets)[i] = initialPackets[taken + 1 + i]
  <2>1. i \in 1 .. Len(inFlightPackets) - 1 /\ i + 1 \in 1 .. Len(inFlightPackets)
    BY <1>1, <1>2
  <2>2. inFlightPackets[i + 1] = initialPackets[taken + (i + 1)]
    BY <2>1 DEF LoopInv
  <2>3. taken + (i + 1) = taken + 1 + i
    BY <1>1
  <2> QED BY <1>4, <2>1, <2>2, <2>3
<1>6. taken + 1 \in 1 .. Len(initialPackets)
      /\ (taken > 0 => taken \in 1 .. Len(initialPackets) - 1)
  BY <1>1, <1>2
<1>7. /\ initialPackets[taken + 1] \in PacketSequenceNumber
      /\ taken > 0 => /\ initialPackets[taken] \in PacketSequenceNumber
                      /\ initialPackets[taken + 1] = Successor(initialPackets[taken])
  BY <1>1, <1>6 DEF LoopInv, TypeOK, Consecutive
<1> QED BY <1>1, <1>2, <1>3, <1>4, <1>5, <1>7

(* A packet leaves the front: the parts of the invariant about the deque.    *)
LEMMA FrontLeaves ==
  ASSUME LoopInv, Running, NEW b \in BOOLEAN,
         inFlightPackets' = Tail(inFlightPackets),
         reports' = Append(reports, [packet |-> Head(inFlightPackets), delivered |-> b]),
         nextAckdSequenceNumber' \in PacketSequenceNumber,
         UNCHANGED <<ackRange, initialPackets>>
  PROVE  /\ TypeOK' /\ taken' = taken + 1
         /\ \A i \in 1 .. taken : reports'[i] = reports[i]
         /\ reports'[taken + 1] = [packet |-> initialPackets[taken + 1], delivered |-> b]
         /\ (\E f \in 0 .. taken' : LoopState(f)') => LoopInv'
<1>1. /\ reports \in Seq([packet : PacketSequenceNumber, delivered : BOOLEAN])
      /\ inFlightPackets \in Seq(PacketSequenceNumber) /\ inFlightPackets # <<>>
  BY DEF LoopInv, TypeOK, Running
<1>2. [packet |-> Head(inFlightPackets), delivered |-> b]
        \in [packet : PacketSequenceNumber, delivered : BOOLEAN]
  BY FrontPacket
<1>3. /\ reports' \in Seq([packet : PacketSequenceNumber, delivered : BOOLEAN])
      /\ taken' = taken + 1
      /\ \A i \in 1 .. taken : reports'[i] = reports[i]
      /\ reports'[taken + 1] = [packet |-> initialPackets[taken + 1], delivered |-> b]
  BY <1>1, <1>2, FrontPacket DEF taken
<1>4. inFlightPackets' \in Seq(PacketSequenceNumber)
  BY <1>1
<1>5. TypeOK'
  BY <1>3, <1>4 DEF LoopInv, TypeOK
<1>6. Consecutive(initialPackets)' /\ Len(initialPackets)' = Len(initialPackets)
  BY DEF LoopInv, Consecutive
<1>7. taken \in Nat /\ Len(initialPackets) \in Nat /\ taken < Len(initialPackets)
  BY FrontPacket
<1>8. /\ taken' <= Len(initialPackets)
      /\ Len(inFlightPackets') = Len(initialPackets) - taken'
  <2>1. Len(inFlightPackets') = Len(initialPackets) - (taken + 1)
    BY FrontPacket
  <2> QED BY <1>3, <1>7, <2>1
<1>9. \A i \in 1 .. Len(inFlightPackets') : inFlightPackets'[i] = initialPackets[taken' + i]
  <2>1. \A i \in 1 .. Len(initialPackets) - (taken + 1) :
          inFlightPackets'[i] = initialPackets[taken + 1 + i]
    BY FrontPacket
  <2> QED BY <1>3, <1>8, <2>1
<1>10. initialPackets' = initialPackets
  OBVIOUS
<1> QED BY <1>3, <1>5, <1>6, <1>8, <1>9, <1>10 DEF LoopInv

(* Nothing was delivered before: the front is below the range, too.          *)
LEMMA DropFrontStep ==
  ASSUME LoopInv, DropFront
  PROVE  LoopInv'
<1>1. PICK f \in 0 .. taken : LoopState(f)
  BY DEF LoopInv
<1>2. Running /\ Head(inFlightPackets) < nextAckdSequenceNumber
      /\ UNCHANGED <<ackRange, initialPackets, nextAckdSequenceNumber>>
  BY DEF DropFront
<1>3. /\ TypeOK' /\ taken' = taken + 1
      /\ \A i \in 1 .. taken : reports'[i] = reports[i]
      /\ reports'[taken + 1] = Failure(initialPackets[taken + 1])
      /\ (\E g \in 0 .. taken' : LoopState(g)') => LoopInv'
  BY <1>2, FrontLeaves DEF DropFront, Failure, LoopInv, TypeOK
<1>4. /\ taken \in Nat /\ taken < Len(initialPackets) /\ Len(initialPackets) \in Nat
      /\ Head(inFlightPackets) = initialPackets[taken + 1]
      /\ initialPackets[taken + 1] \in Nat /\ nextAckdSequenceNumber \in Nat
      /\ taken > 0 => initialPackets[taken + 1] = Successor(initialPackets[taken])
  BY <1>2, FrontPacket DEF PacketSequenceNumber, LoopInv, TypeOK
<1>5. start \in Nat /\ start < onePastAckdSequenceNumber /\ onePastAckdSequenceNumber \in Nat
      /\ start' = start /\ onePastAckdSequenceNumber' = onePastAckdSequenceNumber
  BY <1>2, RangeNumbers DEF LoopInv, start, onePastAckdSequenceNumber
<1>6. f = taken
  BY <1>1, <1>2, <1>4 DEF LoopState
<1>7. nextAckdSequenceNumber = start
  BY <1>1, <1>2, <1>4, <1>5, <1>6 DEF LoopState
<1>8. PICK g \in Nat : g = taken + 1
  BY <1>4
<1>9. LoopState(g)'
  <2>1. \A i \in 1 .. g : reports'[i] = Failure(initialPackets[i])
    BY <1>1, <1>3, <1>4, <1>6, <1>8 DEF LoopState
  <2>2. \A i \in 1 .. g : initialPackets[i] < start
    BY <1>1, <1>2, <1>4, <1>6, <1>7, <1>8 DEF LoopState
  <2>3. initialPackets' = initialPackets /\ nextAckdSequenceNumber' = start /\ taken' = g
    BY <1>2, <1>3, <1>7, <1>8
  <2>4. \A i \in 1 .. taken' : reports'[i] =
          IF i <= g THEN Failure(initialPackets'[i]) ELSE Success(initialPackets'[i])
    BY <1>8, <2>1, <2>3
  <2>5. \A i \in g + 1 .. taken' : FALSE
    BY <1>8, <2>3
  <2>6. g \in 0 .. taken' /\ ~(g < taken')
    BY <1>8, <2>3
  <2> QED BY <1>5, <2>2, <2>3, <2>4, <2>5, <2>6 DEF LoopState, Failure, Success
<1>10. g \in 0 .. taken'
  BY <1>3, <1>8
<1> QED BY <1>3, <1>9, <1>10

(* The front has the number of the counter, and the next packet the next one. *)
LEMMA DeliverFrontStep ==
  ASSUME LoopInv, DeliverFront
  PROVE  LoopInv'
<1>1. PICK f \in 0 .. taken : LoopState(f)
  BY DEF LoopInv
<1>2. Running /\ Head(inFlightPackets) = nextAckdSequenceNumber
      /\ nextAckdSequenceNumber' = Successor(nextAckdSequenceNumber)
      /\ UNCHANGED <<ackRange, initialPackets>>
  BY DEF DeliverFront
<1>3. /\ TypeOK' /\ taken' = taken + 1
      /\ \A i \in 1 .. taken : reports'[i] = reports[i]
      /\ reports'[taken + 1] = Success(initialPackets[taken + 1])
      /\ (\E g \in 0 .. taken' : LoopState(g)') => LoopInv'
  <2>1. nextAckdSequenceNumber' \in PacketSequenceNumber
    BY <1>2, SuccessorNumber DEF LoopInv, TypeOK
  <2> QED BY <1>2, <2>1, FrontLeaves DEF DeliverFront, Success
<1>4. /\ taken \in Nat /\ taken < Len(initialPackets) /\ Len(initialPackets) \in Nat
      /\ initialPackets[taken + 1] = nextAckdSequenceNumber
      /\ nextAckdSequenceNumber \in Nat
      /\ taken > 0 => /\ initialPackets[taken] \in PacketSequenceNumber
                      /\ initialPackets[taken + 1] = Successor(initialPackets[taken])
  BY <1>2, FrontPacket DEF PacketSequenceNumber, LoopInv, TypeOK
<1>5. /\ start \in Nat /\ start < onePastAckdSequenceNumber /\ onePastAckdSequenceNumber \in Nat
      /\ SeqMod \in Nat
      /\ start' = start /\ onePastAckdSequenceNumber' = onePastAckdSequenceNumber
      /\ nextAckdSequenceNumber < onePastAckdSequenceNumber
  BY <1>2, RangeNumbers DEF LoopInv, start, onePastAckdSequenceNumber, Running
<1>6. \A i \in f + 1 .. taken + 1 : initialPackets[i] < onePastAckdSequenceNumber
  BY <1>1, <1>4, <1>5 DEF LoopState
<1>7. f = taken => nextAckdSequenceNumber >= start
  BY <1>1, <1>4, <1>5 DEF LoopState
<1>8. ASSUME onePastAckdSequenceNumber < SeqMod
      PROVE  \A i \in f + 1 .. taken + 1 : initialPackets[i] >= start
  <2>1. \A i \in f + 1 .. taken : initialPackets[i] >= start
    BY <1>1, <1>8 DEF LoopState
  <2>2. initialPackets[taken + 1] >= start
    <3>1. CASE f = taken
      BY <1>4, <1>7, <3>1
    <3>2. CASE f < taken
      <4>1. taken \in f + 1 .. taken /\ taken > 0
        BY <1>1, <1>4, <3>2
      <4>2. initialPackets[taken] >= start
            /\ initialPackets[taken] < onePastAckdSequenceNumber
        BY <1>1, <2>1, <4>1 DEF LoopState
      <4>3. initialPackets[taken + 1] = initialPackets[taken] + 1
            /\ initialPackets[taken] \in Nat
        <5>1. initialPackets[taken] \in PacketSequenceNumber
              /\ initialPackets[taken + 1] = Successor(initialPackets[taken])
          BY <1>4, <4>1
        <5>2. initialPackets[taken] \in Nat
          BY <5>1 DEF PacketSequenceNumber
        <5>3. initialPackets[taken] < SeqMod - 1
          BY <1>5, <1>8, <4>2, <5>2
        <5> QED BY <5>1, <5>2, <5>3, SuccessorNumber
      <4> QED BY <1>5, <4>2, <4>3
    <3> QED BY <1>1, <1>4, <3>1, <3>2
  <2> QED BY <1>1, <1>4, <2>1, <2>2
<1>9. LoopState(f)'
  <2>1. f \in 0 .. taken' /\ f < taken'
    BY <1>1, <1>3, <1>4
  <2>2. \A i \in 1 .. taken' :
          reports'[i] = IF i <= f THEN Failure(initialPackets[i]) ELSE Success(initialPackets[i])
    <3>1. \A i \in 1 .. taken :
            reports[i] = IF i <= f THEN Failure(initialPackets[i]) ELSE Success(initialPackets[i])
      BY <1>1 DEF LoopState
    <3>2. ~(taken + 1 <= f)
      BY <1>1, <1>4
    <3>3. \A i \in 1 .. taken' : i \in 1 .. taken \/ i = taken + 1
      BY <1>3, <1>4
    <3> QED BY <1>3, <3>1, <3>2, <3>3
  <2>3. \A i \in 1 .. f : initialPackets[i] < start
    BY <1>1 DEF LoopState
  <2>4. initialPackets[f + 1] >= start
    BY <1>1, <1>4, <1>7 DEF LoopState
  <2> QED BY <1>2, <1>3, <1>4, <1>5, <1>6, <1>8, <2>1, <2>2, <2>3, <2>4
          DEF LoopState, Failure, Success
<1> QED BY <1>1, <1>3, <1>4, <1>9

(* Nothing was delivered, and the front is still above the counter.          *)
LEMMA SkipNumberStep ==
  ASSUME LoopInv, SkipNumber
  PROVE  LoopInv'
<1>1. PICK f \in 0 .. taken : LoopState(f)
  BY DEF LoopInv
<1>2. Running /\ Head(inFlightPackets) > nextAckdSequenceNumber
      /\ nextAckdSequenceNumber' = Successor(nextAckdSequenceNumber)
      /\ UNCHANGED <<ackRange, initialPackets, inFlightPackets, reports>>
  BY DEF SkipNumber
<1>3. /\ taken \in Nat /\ taken < Len(initialPackets) /\ Len(initialPackets) \in Nat
      /\ initialPackets[taken + 1] > nextAckdSequenceNumber
      /\ initialPackets[taken + 1] \in 0 .. SeqMod - 1
      /\ nextAckdSequenceNumber \in 0 .. SeqMod - 1 /\ SeqMod \in Nat
      /\ taken > 0 => initialPackets[taken + 1] = Successor(initialPackets[taken])
  BY <1>2, FrontPacket, NumberAssumption DEF PacketSequenceNumber, LoopInv, TypeOK
<1>4. nextAckdSequenceNumber' = nextAckdSequenceNumber + 1
  BY <1>2, <1>3 DEF Successor
<1>5. f = taken
  BY <1>1, <1>3 DEF LoopState
<1>6. start \in Nat /\ nextAckdSequenceNumber >= start
      /\ start' = start /\ onePastAckdSequenceNumber' = onePastAckdSequenceNumber
      /\ taken' = taken
  BY <1>1, <1>2, <1>3, <1>5, RangeNumbers
     DEF LoopInv, LoopState, start, onePastAckdSequenceNumber, taken
<1>7. LoopState(f)'
  BY <1>1, <1>2, <1>3, <1>4, <1>5, <1>6 DEF LoopState, Failure, Success
<1>8. TypeOK'
  BY <1>2, <1>3, <1>4, SMTT(30) DEF LoopInv, TypeOK, PacketSequenceNumber
<1> QED BY <1>1, <1>2, <1>6, <1>7, <1>8 DEF LoopInv, Consecutive

LEMMA LoopInvStep == LoopInv /\ [Next]_vars => LoopInv'
<1> SUFFICES ASSUME LoopInv, [Next]_vars PROVE LoopInv'
  OBVIOUS
<1>1. CASE UNCHANGED vars
  <2>1. taken' = taken /\ start' = start
        /\ onePastAckdSequenceNumber' = onePastAckdSequenceNumber
    BY <1>1 DEF vars, taken, start, onePastAckdSequenceNumber
  <2> QED BY <1>1, <2>1 DEF vars, LoopInv, TypeOK, Consecutive, LoopState
<1> QED BY <1>1, DropFrontStep, DeliverFrontStep, SkipNumberStep DEF Next

LEMMA LoopInvariance == Spec => []LoopInv
  BY LoopInvInit, LoopInvStep, PTL DEF Spec

---------------------------------------------------------------------------
(* The loop's variables keep their types; the counter stays in 16 bits.      *)
THEOREM LoopTypeCorrect == Spec => []TypeOK
<1>1. LoopInv => TypeOK
  BY DEF LoopInv
<1> QED BY <1>1, LoopInvariance, PTL

(* Where the loop of ProcessAcks ends (DeliveryNotificationManager.cpp:82)   *)
(* it has dropped the longest prefix of the deque below the range, delivered *)
(* what followed up to the range's end, and left the rest.                   *)
THEOREM LoopComputesSettles == Spec => []LoopSettles
<1>1. ASSUME LoopInv, ~Running PROVE LoopSettles
  <2>1. PICK f \in 0 .. taken : LoopState(f)
    BY <1>1 DEF LoopInv
  <2>2. /\ taken \in Nat /\ Len(initialPackets) \in Nat /\ taken <= Len(initialPackets)
        /\ Len(inFlightPackets) = Len(initialPackets) - taken
        /\ initialPackets \in Seq(PacketSequenceNumber)
        /\ inFlightPackets \in Seq(PacketSequenceNumber)
    BY <1>1 DEF LoopInv, TypeOK, taken
  <2>3. /\ start \in Nat /\ onePastAckdSequenceNumber \in Nat
        /\ start < onePastAckdSequenceNumber
        /\ nextAckdSequenceNumber \in Nat
        /\ start = ackRange.start
        /\ onePastAckdSequenceNumber = ackRange.start + ackRange.count
    BY <1>1, RangeNumbers DEF LoopInv, TypeOK, PacketSequenceNumber, start,
       onePastAckdSequenceNumber
  <2>4. ASSUME taken < Len(initialPackets)
        PROVE  initialPackets[taken + 1] >= onePastAckdSequenceNumber
    <3>1. inFlightPackets # <<>> /\ nextAckdSequenceNumber >= onePastAckdSequenceNumber
      BY <1>1, <2>2, <2>3, <2>4 DEF Running
    <3>2. initialPackets[taken + 1] \in Nat
          /\ (taken > 0 => initialPackets[taken + 1] = Successor(initialPackets[taken]))
      <4>1. taken + 1 \in 1 .. Len(initialPackets)
            /\ (taken > 0 => taken \in 1 .. Len(initialPackets) - 1)
        BY <2>2, <2>4
      <4>2. initialPackets[taken + 1] \in PacketSequenceNumber
        BY <2>2, <4>1
      <4>3. initialPackets[taken + 1] \in Nat
        BY <4>2 DEF PacketSequenceNumber
      <4>4. taken > 0 => initialPackets[taken + 1] = Successor(initialPackets[taken])
        BY <1>1, <4>1 DEF LoopInv, Consecutive
      <4> QED BY <4>3, <4>4
    <3>3. CASE f < taken
      <4>1. nextAckdSequenceNumber = initialPackets[taken + 1]
        BY <2>1, <2>2, <3>2, <3>3 DEF LoopState
      <4> QED BY <3>1, <4>1
    <3>4. CASE f = taken
      <4>1. nextAckdSequenceNumber # start
        BY <2>3, <3>1
      <4>2. initialPackets[taken + 1] >= nextAckdSequenceNumber
        BY <2>1, <3>4, <4>1 DEF LoopState
      <4> QED BY <2>3, <3>1, <3>2, <4>2
    <3> QED BY <2>1, <2>2, <3>3, <3>4
  <2>5. \A i \in 1 .. taken : initialPackets[i] \in Nat
    <3> SUFFICES ASSUME NEW i \in 1 .. taken PROVE initialPackets[i] \in Nat
      OBVIOUS
    <3>1. i \in 1 .. Len(initialPackets)
      BY <2>2
    <3>2. initialPackets[i] \in PacketSequenceNumber
      BY <2>2, <3>1
    <3> QED BY <3>2 DEF PacketSequenceNumber
  <2>6. LongestPrefixBelow(initialPackets, f, start)
    <3>1. f \in 0 .. Len(initialPackets)
      BY <2>1, <2>2
    <3>2. \A i \in 1 .. f : initialPackets[i] < start
      BY <2>1 DEF LoopState
    <3>3. ASSUME f < Len(initialPackets) PROVE initialPackets[f + 1] >= start
      <4>1. CASE f < taken
        BY <2>1, <4>1 DEF LoopState
      <4>2. CASE f = taken
        <5>1. initialPackets[taken + 1] >= onePastAckdSequenceNumber
          BY <2>4, <3>3, <4>2
        <5>2. taken + 1 \in 1 .. Len(initialPackets)
          BY <2>2, <3>3, <4>2
        <5>3. initialPackets[taken + 1] \in PacketSequenceNumber
          BY <2>2, <5>2
        <5>4. initialPackets[taken + 1] \in Nat
          BY <5>3 DEF PacketSequenceNumber
        <5> QED BY <2>3, <4>2, <5>1, <5>4
      <4> QED BY <2>1, <2>2, <4>1, <4>2
    <3> QED BY <3>1, <3>2, <3>3 DEF LongestPrefixBelow
  <2>7. LongestPrefixBelow(initialPackets, taken, onePastAckdSequenceNumber)
    <3>1. \A i \in 1 .. taken : initialPackets[i] < onePastAckdSequenceNumber
      <4> SUFFICES ASSUME NEW i \in 1 .. taken
                   PROVE  initialPackets[i] < onePastAckdSequenceNumber
        OBVIOUS
      <4>1. CASE i <= f
        BY <2>1, <2>3, <2>5, <4>1 DEF LoopState
      <4>2. CASE i > f
        BY <2>1, <2>2, <4>2 DEF LoopState
      <4> QED BY <2>1, <2>2, <4>1, <4>2
    <3> QED BY <2>2, <2>4, <3>1 DEF LongestPrefixBelow
  <2>8. Settles(initialPackets, ackRange, f, taken)
    BY <2>3, <2>6, <2>7 DEF Settles
  <2>9. inFlightPackets = SubSeq(initialPackets, taken + 1, Len(initialPackets))
    <3> DEFINE rest == SubSeq(initialPackets, taken + 1, Len(initialPackets))
    <3>1. rest \in Seq(PacketSequenceNumber) /\ Len(rest) = Len(initialPackets) - taken
          /\ \A i \in 1 .. Len(initialPackets) - taken : rest[i] = initialPackets[taken + i]
      BY <2>2
    <3>2. \A i \in 1 .. Len(initialPackets) - taken :
            inFlightPackets[i] = initialPackets[taken + i]
      BY <1>1, <2>2 DEF LoopInv
    <3> HIDE DEF rest
    <3> QED BY <2>2, <3>1, <3>2
  <2>10. reports = [i \in 1 .. taken |-> IF i <= f THEN Failure(initialPackets[i])
                                                   ELSE Success(initialPackets[i])]
    <3>1. reports = [i \in 1 .. taken |-> reports[i]]
      BY <1>1 DEF LoopInv, TypeOK, taken
    <3>2. \A i \in 1 .. taken :
            reports[i] = IF i <= f THEN Failure(initialPackets[i]) ELSE Success(initialPackets[i])
      BY <2>1 DEF LoopState
    <3> QED BY <3>1, <3>2
  <2>11. f \in 0 .. Len(initialPackets) /\ taken \in 0 .. Len(initialPackets)
    BY <2>1, <2>2
  <2> QED BY <2>8, <2>9, <2>10, <2>11 DEF LoopSettles
<1>2. LoopInv => LoopSettles
  BY <1>1 DEF LoopSettles
<1> QED BY <1>2, LoopInvariance, PTL

(* Only packets that the range names are reported as delivered, unless it    *)
(* ends at the last number, which the 16-bit counter cannot pass.            *)
THEOREM OnlyAckedDeliveredHolds == Spec => []OnlyAckedDelivered
<1>1. LoopInv => OnlyAckedDelivered
  <2> SUFFICES ASSUME LoopInv, onePastAckdSequenceNumber < SeqMod,
                      NEW i \in 1 .. taken, reports[i].delivered
               PROVE  InRange(reports[i].packet, ackRange)
    BY DEF OnlyAckedDelivered, taken
  <2>1. PICK f \in 0 .. taken : LoopState(f)
    BY DEF LoopInv
  <2>2. taken \in Nat
    BY DEF LoopInv, TypeOK, taken
  <2>3. reports[i] = IF i <= f THEN Failure(initialPackets[i]) ELSE Success(initialPackets[i])
    BY <2>1 DEF LoopState
  <2>4. ~(i <= f)
    <3> SUFFICES ASSUME i <= f PROVE FALSE
      OBVIOUS
    <3>1. reports[i] = Failure(initialPackets[i])
      BY <2>3
    <3>2. reports[i].delivered = FALSE
      BY <3>1 DEF Failure
    <3> QED BY <3>2
  <2>5. reports[i].packet = initialPackets[i]
    BY <2>3, <2>4 DEF Success
  <2>6. i \in f + 1 .. taken
    BY <2>1, <2>2, <2>4
  <2>7. initialPackets[i] >= start /\ initialPackets[i] < onePastAckdSequenceNumber
    BY <2>1, <2>6 DEF LoopState
  <2>8. start <= initialPackets[i]
    <3>1. i \in 1 .. Len(initialPackets) /\ initialPackets \in Seq(PacketSequenceNumber)
      BY <2>2 DEF LoopInv, TypeOK
    <3>2. initialPackets[i] \in PacketSequenceNumber /\ start \in Nat
      BY <3>1, RangeNumbers DEF LoopInv
    <3> QED BY <2>7, <3>2 DEF PacketSequenceNumber
  <2> QED BY <2>5, <2>7, <2>8 DEF InRange, start, onePastAckdSequenceNumber
<1> QED BY <1>1, LoopInvariance, PTL
=============================================================================
