----------------------------- MODULE AckRanges -----------------------------
(***************************************************************************)
(* Packet sequence numbers (src/Common/InFlightPacket.h) and the ranges of *)
(* them that an acknowledgement carries (src/Common/AckRange).             *)
(***************************************************************************)
EXTENDS Integers, Sequences

CONSTANTS
  SeqMod,    \* number of PacketSequenceNumbers (2^16 in the code)
  MaxRange   \* numbers one written AckRange can carry (256 in the code)

ASSUME NumberAssumption ==
  /\ SeqMod \in Nat \ {0}
  /\ MaxRange \in Nat \ {0}

PacketSequenceNumber == 0 .. SeqMod - 1
AckRange == [start : PacketSequenceNumber, count : Nat]

\* Mutant: the increment is made in 32 bits.
SuccessorUnwrapped(s) == s + 1

\* A uint16_t increment.
Successor(s) == IF s = SeqMod - 1 THEN 0 ELSE s + 1

\* AckRange(): the empty range, which is also what an absent one acknowledges.
EmptyRange == [start |-> 0, count |-> 0]

\* Mutant: a gap does not start a new range.
ShouldExtendOverGap(range, s) == s >= range.start + range.count

\* The comparison is made in 32 bits, so a range never continues past a wrap.
ShouldExtend(range, s) == s = range.start + range.count

\* What the far end reads back: the count travels minus one in a uint8_t.
Written(range) ==
  [range EXCEPT !.count = IF @ > MaxRange THEN MaxRange ELSE @]

\* Mutant: a new range takes the place of those that wait.
AddPendingAckAlone(acks, s) ==
  IF acks # <<>> /\ ShouldExtend(acks[Len(acks)], s)
  THEN [acks EXCEPT ![Len(acks)].count = @ + 1]
  ELSE <<[start |-> s, count |-> 1]>>

AddPendingAck(acks, s) ==
  IF acks # <<>> /\ ShouldExtend(acks[Len(acks)], s)
  THEN [acks EXCEPT ![Len(acks)].count = @ + 1]
  ELSE Append(acks, [start |-> s, count |-> 1])

InRange(s, range) == range.start <= s /\ s < range.start + range.count

\* The first n numbers of q are below x and the next one is not.
LongestPrefixBelow(q, n, x) ==
  /\ n \in 0 .. Len(q)
  /\ \A i \in 1 .. n : q[i] < x
  /\ n < Len(q) => q[n + 1] >= x

\* Mutant: the two branches of the loop are exchanged.
SettlesExchanged(q, range, f, n) ==
  /\ LongestPrefixBelow(q, n, range.start)
  /\ LongestPrefixBelow(q, f, range.start + range.count)

\* What ProcessAcks comes to for a deque q and a range: the first n packets
\* leave the deque, the first f of them as failures.  Everything numbered
\* before the range is dropped, and then everything before the range's end is
\* delivered.  A range that ends at the last sequence number is above every
\* number, so it empties the deque.  AckLoop shows the loop computes this.
Settles(q, range, f, n) ==
  /\ LongestPrefixBelow(q, f, range.start)
  /\ LongestPrefixBelow(q, n, range.start + range.count)
============================================================================
