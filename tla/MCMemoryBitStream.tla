------------------------- MODULE MCMemoryBitStream -------------------------
(* TLC instance of MemoryBitStream. *)
EXTENDS MemoryBitStream

\* A byte of ones, which leaves stray bits behind every narrow field, and one
\* that reads differently in either direction and when shifted.
Ones == [i \in 0 .. 7 |-> 1]
Mixed == [i \in 0 .. 7 |-> IF i \in {1, 4, 5} THEN 1 ELSE 0]
TwoBytes == {Ones, Mixed}
=============================================================================
