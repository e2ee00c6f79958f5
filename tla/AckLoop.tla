------------------------------ MODULE AckLoop ------------------------------
(***************************************************************************)
(* The loop of DeliveryNotificationManager::ProcessAcks, one iteration per *)
(* step, for one acknowledged range and one deque of packets in flight.    *)
(* nextAckdSequenceNumber is a uint16_t and onePastAckdSequenceNumber a    *)
(* uint32_t, so a range that ends at the last number never reaches its end.*)
(***************************************************************************)
EXTENDS AckRanges

CONSTANT MaxInFlight    \* bound: packets in flight when the loop starts

ASSUME MaxInFlightAssumption == MaxInFlight \in Nat

VARIABLES
  ackRange,                  \* the range read from the packet
  initialPackets,            \* the deque when the loop starts
  inFlightPackets,           \* the deque now
  nextAckdSequenceNumber,
  reports                    \* history: handlers called, in order

vars == <<ackRange, initialPackets, inFlightPackets, nextAckdSequenceNumber, reports>>

\* The deque WriteSequenceNumber builds: consecutive numbers.
Consecutive(q) == \A i \in 1 .. Len(q) - 1 : q[i + 1] = Successor(q[i])

\* The ranges AddPendingAck builds and Written cuts: never past the last number.
WrittenRange == {r \in [start : PacketSequenceNumber, count : 1 .. MaxRange] :
                   r.start + r.count <= SeqMod}

Deques == UNION {{q \in [1 .. n -> PacketSequenceNumber] : Consecutive(q)} :
                   n \in 0 .. MaxInFlight}

\* Mutant: off by one.
twoPastAckdSequenceNumber == ackRange.start + ackRange.count + 1

onePastAckdSequenceNumber == ackRange.start + ackRange.count

Init ==
  /\ ackRange \in WrittenRange
  /\ initialPackets \in Deques
  /\ inFlightPackets = initialPackets
  /\ nextAckdSequenceNumber = ackRange.start
  /\ reports = <<>>

Failure(s) == [packet |-> s, delivered |-> FALSE]
Success(s) == [packet |-> s, delivered |-> TRUE]

Running ==
  /\ nextAckdSequenceNumber < onePastAckdSequenceNumber
  /\ inFlightPackets # <<>>

\* Mutant: HandlePacketDeliveryFailure is not called.
DropFrontUnreported ==
  /\ Running
  /\ Head(inFlightPackets) < nextAckdSequenceNumber
  /\ inFlightPackets' = Tail(inFlightPackets)
  /\ UNCHANGED <<ackRange, initialPackets, nextAckdSequenceNumber, reports>>

DropFront ==
  /\ Running
  /\ Head(inFlightPackets) < nextAckdSequenceNumber
  /\ inFlightPackets' = Tail(inFlightPackets)
  /\ reports' = Append(reports, Failure(Head(inFlightPackets)))
  /\ UNCHANGED <<ackRange, initialPackets, nextAckdSequenceNumber>>

DeliverFront ==
  /\ Running
  /\ Head(inFlightPackets) = nextAckdSequenceNumber
  /\ inFlightPackets' = Tail(inFlightPackets)
  /\ reports' = Append(reports, Success(Head(inFlightPackets)))
  /\ nextAckdSequenceNumber' = Successor(nextAckdSequenceNumber)
  /\ UNCHANGED <<ackRange, initialPackets>>

\* Mutant: the last branch of the loop is empty.
SkipNothing ==
  /\ Running
  /\ Head(inFlightPackets) > nextAckdSequenceNumber
  /\ UNCHANGED vars

SkipNumber ==
  /\ Running
  /\ Head(inFlightPackets) > nextAckdSequenceNumber
  /\ nextAckdSequenceNumber' = Successor(nextAckdSequenceNumber)
  /\ UNCHANGED <<ackRange, initialPackets, inFlightPackets, reports>>

Next == DropFront \/ DeliverFront \/ SkipNumber

Spec == Init /\ [][Next]_vars /\ WF_vars(Next)

---------------------------------------------------------------------------
TypeOK ==
  /\ ackRange \in WrittenRange
  /\ initialPackets \in Seq(PacketSequenceNumber)
  /\ inFlightPackets \in Seq(PacketSequenceNumber)
  /\ nextAckdSequenceNumber \in PacketSequenceNumber
  /\ reports \in Seq([packet : PacketSequenceNumber, delivered : BOOLEAN])

(* When the loop ends it has done what Settles says: each packet it took off *)
(* the deque was handed to one handler, failures first, and the deque keeps  *)
(* the rest.  This is what DeliveryNotificationManager takes for one step.   *)
LoopSettles ==
  ~Running =>
    \E f, n \in 0 .. Len(initialPackets) :
      /\ Settles(initialPackets, ackRange, f, n)
      /\ inFlightPackets = SubSeq(initialPackets, n + 1, Len(initialPackets))
      /\ reports = [i \in 1 .. n |-> IF i <= f THEN Failure(initialPackets[i])
                                              ELSE Success(initialPackets[i])]

(* Unless the range ends at the last number, only packets whose numbers it   *)
(* names are reported as delivered.                                          *)
OnlyAckedDelivered ==
  onePastAckdSequenceNumber < SeqMod =>
    \A i \in 1 .. Len(reports) :
      reports[i].delivered => InRange(reports[i].packet, ackRange)

(* The loop ends, even when the 16-bit counter can never reach the range's   *)
(* end: it goes round until the deque is empty.                              *)
Terminates == <>[]~Running
============================================================================
