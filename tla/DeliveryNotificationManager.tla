-------------------- MODULE DeliveryNotificationManager --------------------
(***************************************************************************)
(* Two ends of a UDP conversation, each owning a                           *)
(* DeliveryNotificationManager (src/Common/DeliveryNotificationManager):   *)
(* every packet is numbered, the receiving end queues acknowledgements as  *)
(* AckRanges, and the sending end learns of each packet it wrote, in the   *)
(* order it wrote them, that it was delivered or that it was dropped.      *)
(*                                                                         *)
(* UDP may lose, duplicate and reorder: network holds every packet ever    *)
(* sent, a packet may be read any number of times in any order, and one    *)
(* that is never read again is lost.                                       *)
(***************************************************************************)
EXTENDS AckRanges

CONSTANTS
  Peer,               \* the two ends
  ShouldSendAcks,     \* shouldSendAcks of each end
  ShouldProcessAcks,  \* shouldProcessAcks of each end
  MaxSends,           \* bound: packets each end writes
  MaxAccepts          \* bound: packets each end accepts (past a wrap it may accept
                      \* the same ones for ever; before it, no more than were sent)

Other(p) == CHOOSE q \in Peer : q # p

\* What an end writes after the sequence number is what the other end parses.
ASSUME PeerAssumption ==
  /\ \E a, b \in Peer : a # b /\ Peer = {a, b}
  /\ ShouldSendAcks \in [Peer -> BOOLEAN]
  /\ ShouldProcessAcks \in [Peer -> BOOLEAN]
  /\ \A p \in Peer : ShouldProcessAcks[p] = ShouldSendAcks[Other(p)]

ASSUME BoundAssumption ==
  /\ MaxSends \in [Peer -> Nat]
  /\ MaxAccepts \in [Peer -> Nat]

VARIABLES
  nextOutgoingSequenceNumber,
  nextExpectedSequenceNumber,
  inFlightPackets,       \* deque of the numbers of the packets in flight
  pendingAcks,           \* deque of AckRanges
  deliveredPacketCount,
  droppedPacketCount,
  dispatchedPacketCount,
  network,               \* every packet sent so far
  accepted,              \* history: nth of the packets ReadAndProcessState returned true for
  confirmed              \* history: nth of the packets HandleDeliverySuccess was called for

counts == <<deliveredPacketCount, droppedPacketCount>>
vars == <<nextOutgoingSequenceNumber, nextExpectedSequenceNumber, inFlightPackets,
          pendingAcks, counts, dispatchedPacketCount, network, accepted, confirmed>>

\* nth is the position of the packet among those its sender wrote; it is not
\* on the wire.  Until the sequence number wraps it equals sequenceNumber.
Packet == [from : Peer, nth : Nat, sequenceNumber : PacketSequenceNumber, ack : AckRange]

---------------------------------------------------------------------------
Init ==
  /\ nextOutgoingSequenceNumber = [p \in Peer |-> 0]
  /\ nextExpectedSequenceNumber = [p \in Peer |-> 0]
  /\ inFlightPackets = [p \in Peer |-> <<>>]
  /\ pendingAcks = [p \in Peer |-> <<>>]
  /\ deliveredPacketCount = [p \in Peer |-> 0]
  /\ droppedPacketCount = [p \in Peer |-> 0]
  /\ dispatchedPacketCount = [p \in Peer |-> 0]
  /\ network = {}
  /\ accepted = [p \in Peer |-> <<>>]
  /\ confirmed = [p \in Peer |-> {}]

\* WriteAckData: the front range is written and popped, whole, even when
\* Written cuts it short.
WriteAckData(p) ==
  IF ShouldSendAcks[p] /\ pendingAcks[p] # <<>>
  THEN Written(Head(pendingAcks[p]))
  ELSE EmptyRange

\* Mutant: packets are counted by the 16-bit number.
WriteStateCountedByNumber(p) ==
  LET s == nextOutgoingSequenceNumber[p]
  IN
  /\ dispatchedPacketCount[p] < MaxSends[p]
  /\ nextOutgoingSequenceNumber' = [nextOutgoingSequenceNumber EXCEPT ![p] = Successor(s)]
  /\ dispatchedPacketCount' = [dispatchedPacketCount EXCEPT ![p] = Successor(s)]
  /\ inFlightPackets' = [inFlightPackets EXCEPT ![p] =
                           IF ShouldProcessAcks[p] THEN Append(@, s) ELSE @]
  /\ UNCHANGED <<nextExpectedSequenceNumber, pendingAcks, counts, network, accepted, confirmed>>

\* WriteState, and the packet it heads goes out.
WriteState(p) ==
  LET s == nextOutgoingSequenceNumber[p]
  IN
  /\ dispatchedPacketCount[p] < MaxSends[p]
  /\ nextOutgoingSequenceNumber' = [nextOutgoingSequenceNumber EXCEPT ![p] = Successor(s)]
  /\ dispatchedPacketCount' = [dispatchedPacketCount EXCEPT ![p] = @ + 1]
  /\ inFlightPackets' = [inFlightPackets EXCEPT ![p] =
                           IF ShouldProcessAcks[p] THEN Append(@, s) ELSE @]
  /\ pendingAcks' = [pendingAcks EXCEPT ![p] =
                       IF ShouldSendAcks[p] /\ @ # <<>> THEN Tail(@) ELSE @]
  /\ network' = network \cup
       {[from |-> p, nth |-> dispatchedPacketCount[p], sequenceNumber |-> s,
         ack |-> WriteAckData(p)]}
  /\ UNCHANGED <<nextExpectedSequenceNumber, counts, accepted, confirmed>>

\* Mutant: an earlier number is accepted too.
ProcessAnySequenceNumber(p, m) ==
  /\ Len(accepted[p]) < MaxAccepts[p]
  /\ nextExpectedSequenceNumber' =
       [nextExpectedSequenceNumber EXCEPT ![p] = Successor(m.sequenceNumber)]
  /\ pendingAcks' = [pendingAcks EXCEPT ![p] =
       IF ShouldSendAcks[p] THEN AddPendingAck(@, m.sequenceNumber) ELSE @]
  /\ accepted' = [accepted EXCEPT ![p] = Append(@, m.nth)]

\* ProcessSequenceNumber: the next number or any later one is accepted, and
\* acknowledged; an earlier one is refused.
ProcessSequenceNumber(p, m) ==
  IF m.sequenceNumber >= nextExpectedSequenceNumber[p]
  THEN /\ Len(accepted[p]) < MaxAccepts[p]
       /\ nextExpectedSequenceNumber' =
            [nextExpectedSequenceNumber EXCEPT ![p] = Successor(m.sequenceNumber)]
       /\ pendingAcks' = [pendingAcks EXCEPT ![p] =
            IF ShouldSendAcks[p] THEN AddPendingAck(@, m.sequenceNumber) ELSE @]
       /\ accepted' = [accepted EXCEPT ![p] = Append(@, m.nth)]
  ELSE UNCHANGED <<nextExpectedSequenceNumber, pendingAcks, accepted>>

\* nth of the packet at the front of p's deque.
FirstInFlight(p) == deliveredPacketCount[p] + droppedPacketCount[p]

\* The first n packets leave the deque; the first f of them are handed to
\* HandlePacketDeliveryFailure, the others to HandlePacketDeliverySuccess.
Report(p, f, n) ==
  /\ inFlightPackets' = [inFlightPackets EXCEPT ![p] = SubSeq(@, n + 1, Len(@))]
  /\ droppedPacketCount' = [droppedPacketCount EXCEPT ![p] = @ + f]
  /\ deliveredPacketCount' = [deliveredPacketCount EXCEPT ![p] = @ + (n - f)]
  /\ confirmed' = [confirmed EXCEPT ![p] =
                     @ \cup {FirstInFlight(p) + i : i \in f .. n - 1}]

\* Mutant: a range acknowledges everything before it as well.
ProcessAcksCumulative(p, range) ==
  \E f, n \in 0 .. Len(inFlightPackets[p]) :
    /\ Settles(inFlightPackets[p], range, f, n)
    /\ Report(p, 0, n)

\* ProcessAcks: what its loop has done when it ends.
ProcessAcks(p, range) ==
  \E f, n \in 0 .. Len(inFlightPackets[p]) :
    /\ Settles(inFlightPackets[p], range, f, n)
    /\ Report(p, f, n)

\* ReadAndProcessState: the acks are processed whether or not the packet
\* that carries them is accepted.
ReadAndProcessState(p, m) ==
  /\ m.from # p
  /\ ProcessSequenceNumber(p, m)
  /\ IF ShouldProcessAcks[p]
     THEN ProcessAcks(p, m.ack)
     ELSE UNCHANGED <<inFlightPackets, counts, confirmed>>
  /\ UNCHANGED <<nextOutgoingSequenceNumber, dispatchedPacketCount, network>>

\* Mutant: the loop stops before the last packet.
ProcessAllButLastTimedOut(p) ==
  \E n \in 1 .. Len(inFlightPackets[p]) - 1 :
    /\ Report(p, n, n)
    /\ UNCHANGED <<nextOutgoingSequenceNumber, nextExpectedSequenceNumber, pendingAcks,
                   dispatchedPacketCount, network, accepted>>

\* ProcessTimedOutPackets: the clock is not modelled.  The loop stops at the
\* first packet young enough, so any prefix of the deque may have timed out.
ProcessTimedOutPackets(p) ==
  \E n \in 1 .. Len(inFlightPackets[p]) :
    /\ Report(p, n, n)
    /\ UNCHANGED <<nextOutgoingSequenceNumber, nextExpectedSequenceNumber, pendingAcks,
                   dispatchedPacketCount, network, accepted>>

Next ==
  \E p \in Peer :
    \/ WriteState(p)
    \/ \E m \in network : ReadAndProcessState(p, m)
    \/ ProcessTimedOutPackets(p)

\* The owner of a manager that expects acks calls ProcessTimedOutPackets in
\* every frame, and the clock advances.
Fairness == \A p \in Peer : WF_vars(ProcessTimedOutPackets(p))

Spec == Init /\ [][Next]_vars /\ Fairness

---------------------------------------------------------------------------
(* Type invariant: each variable has the C++ member's type. *)
TypeOK ==
  /\ nextOutgoingSequenceNumber \in [Peer -> PacketSequenceNumber]
  /\ nextExpectedSequenceNumber \in [Peer -> PacketSequenceNumber]
  /\ inFlightPackets \in [Peer -> Seq(PacketSequenceNumber)]
  /\ pendingAcks \in [Peer -> Seq(AckRange)]
  /\ deliveredPacketCount \in [Peer -> Nat]
  /\ droppedPacketCount \in [Peer -> Nat]
  /\ dispatchedPacketCount \in [Peer -> Nat]
  /\ network \subseteq Packet
  /\ accepted \in [Peer -> Seq(Nat)]
  /\ confirmed \in [Peer -> SUBSET Nat]

\* The packets p's manager accepted from the other end.
Accepted(p) == {accepted[p][i] : i \in 1 .. Len(accepted[p])}

\* Until p has used its last sequence number, number and position agree.
\* Past it the comparisons of sequence numbers no longer order the packets.
NotWrapped(p) == dispatchedPacketCount[p] < SeqMod

(* Every dispatched packet is in flight or was reported exactly once, so the *)
(* rates the destructor logs add up; this holds across a wrap as well.       *)
Accounting ==
  \A p \in Peer : ShouldProcessAcks[p] =>
    deliveredPacketCount[p] + droppedPacketCount[p] + Len(inFlightPackets[p])
      = dispatchedPacketCount[p]

(* A packet reported as delivered was accepted by the other end, whatever    *)
(* the network lost, repeated or reordered, and however late an ack came.    *)
DeliveredWasAccepted ==
  \A p \in Peer : NotWrapped(p) => confirmed[p] \subseteq Accepted(Other(p))

(* No packet is accepted twice or after a later one: what reaches the        *)
(* game is in the order it was sent.                                         *)
AcceptedInOrder ==
  \A p \in Peer : NotWrapped(Other(p)) =>
    \A i, j \in 1 .. Len(accepted[p]) : i < j => accepted[p][i] < accepted[p][j]

(* An acknowledgement is never mislaid: an accepted packet is in a pending   *)
(* range or in one that was written, unless it lies behind a written range   *)
(* that was full, where Written cut the rest off.                            *)
AckLostOnlyBehindFullRange ==
  \A p \in Peer : (ShouldSendAcks[p] /\ NotWrapped(Other(p))) =>
    \A s \in Accepted(p) :
      \/ \E i \in 1 .. Len(pendingAcks[p]) : InRange(s, pendingAcks[p][i])
      \/ \E m \in network : /\ m.from = p
                            /\ \/ InRange(s, m.ack)
                               \/ m.ack.count = MaxRange /\ s >= m.ack.start + MaxRange

(* Every packet written is eventually reported, one way or the other.        *)
EveryPacketReported ==
  \A p \in Peer : ShouldProcessAcks[p] =>
    \A n \in 0 .. MaxSends[p] - 1 :
      (dispatchedPacketCount[p] > n) ~> (FirstInFlight(p) > n)

---------------------------------------------------------------------------
(* Why it works: the invariant behind the safety properties.  p sends and     *)
(* Other(p) accepts, until p's numbers wrap.                                  *)

\* A packet's number is its position.
NumbersInv(p) ==
  /\ nextOutgoingSequenceNumber[p] = dispatchedPacketCount[p]
  /\ \A m \in network : m.from = p =>
       m.sequenceNumber = m.nth /\ m.nth < dispatchedPacketCount[p]

\* The deque holds the packets not yet reported, in order.
FlightInv(p) ==
  \A i \in 1 .. Len(inFlightPackets[p]) :
    inFlightPackets[p][i] = FirstInFlight(p) + i - 1

\* What was accepted lies below what is expected, in order.
AcceptedInv(p) ==
  LET q == Other(p)
  IN  /\ nextExpectedSequenceNumber[q] <= dispatchedPacketCount[p]
      /\ \A i \in 1 .. Len(accepted[q]) : accepted[q][i] < nextExpectedSequenceNumber[q]
      /\ \A i, j \in 1 .. Len(accepted[q]) : i < j => accepted[q][i] < accepted[q][j]

\* An acknowledgement, pending or sent, names accepted packets only.
AckInv(p) ==
  LET q == Other(p)
  IN  /\ \A i \in 1 .. Len(pendingAcks[q]) : \A x \in PacketSequenceNumber :
           InRange(x, pendingAcks[q][i]) => x \in Accepted(q)
      /\ \A m \in network : m.from = q =>
           \A x \in PacketSequenceNumber : InRange(x, m.ack) => x \in Accepted(q)

PeerInv(p) ==
  /\ NumbersInv(p)
  /\ FlightInv(p)
  /\ AcceptedInv(p)
  /\ AckInv(p)
  /\ confirmed[p] \subseteq Accepted(Other(p))

(* The conjunction that every step preserves: the counts add up across a      *)
(* wrap, and numbers, deque, ranges and history agree until there is one.     *)
Inv ==
  /\ TypeOK
  /\ Accounting
  /\ \A p \in Peer : NotWrapped(p) => PeerInv(p)

---------------------------------------------------------------------------
Promise == INSTANCE NotifiedDelivery WITH
  sent <- dispatchedPacketCount,
  accepted <- [p \in Peer |-> accepted[Other(p)]],
  reported <- [p \in Peer |-> FirstInFlight(p)],
  delivered <- confirmed

(* As long as neither end has used up its sequence numbers, the two managers *)
(* implement the abstract promise: each packet reported once, in order, and  *)
(* as delivered only if the other end accepted it, in order and once.        *)
KeepsPromise == Promise!Spec

============================================================================
