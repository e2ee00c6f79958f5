-------------------------- MODULE NotifiedDelivery --------------------------
(***************************************************************************)
(* What delivery notification promises, without sequence numbers, ranges,  *)
(* acknowledgements or a network.  Each end's packets are numbered 0, 1,   *)
(* 2, ... in the order they are sent.  The other end accepts some of them, *)
(* never going back; the sender is told of each one exactly once, in the   *)
(* order of sending, and is told "delivered" only of accepted ones (it may *)
(* be told "dropped" of an accepted one).                                  *)
(***************************************************************************)
EXTENDS Integers, Sequences

CONSTANT Peer

VARIABLES
  sent,        \* sent[p]: packets p has sent
  accepted,    \* accepted[p]: packets of p that the other end accepted, in order
  reported,    \* reported[p]: packets p has been told about
  delivered    \* delivered[p]: those p was told were delivered

vars == <<sent, accepted, reported, delivered>>

Init ==
  /\ sent = [p \in Peer |-> 0]
  /\ accepted = [p \in Peer |-> <<>>]
  /\ reported = [p \in Peer |-> 0]
  /\ delivered = [p \in Peer |-> {}]

Send(p) ==
  /\ sent' = [sent EXCEPT ![p] = @ + 1]
  /\ UNCHANGED <<accepted, reported, delivered>>

\* The other end accepts a packet of p later than all it accepted before.
Accept(p) ==
  \E n \in 0 .. sent[p] - 1 :
    /\ \A i \in 1 .. Len(accepted[p]) : accepted[p][i] < n
    /\ accepted' = [accepted EXCEPT ![p] = Append(@, n)]

\* p is told of its next k packets; those in D were delivered.
Report(p) ==
  \E k \in 1 .. sent[p] - reported[p] :
    \E D \in SUBSET (reported[p] .. reported[p] + k - 1) :
      /\ \A n \in D : \E i \in 1 .. Len(accepted[p]) : accepted[p][i] = n
      /\ reported' = [reported EXCEPT ![p] = @ + k]
      /\ delivered' = [delivered EXCEPT ![p] = @ \cup D]

\* One packet read by q may be accepted from p and settle some of q's own.
Read(p, q) ==
  /\ Accept(p) \/ UNCHANGED accepted
  /\ Report(q) \/ UNCHANGED <<reported, delivered>>
  /\ UNCHANGED sent

Next ==
  \/ \E p \in Peer : Send(p)
  \/ \E p, q \in Peer : p # q /\ Read(p, q)

Spec == Init /\ [][Next]_vars
============================================================================
