--------------------------- MODULE MCClientServer ---------------------------
(* TLC instances of ClientServer. *)
EXTENDS ClientServer

CONSTANTS c1, c2

C1Two == [p \in Process |-> IF p = c1 THEN 2 ELSE 1]
OneEach == [c \in Client |-> 1]
=============================================================================
