--------------------------- MODULE MCReplication ---------------------------
(* TLC instances of Replication. *)
EXTENDS Replication

Both == {server, client}
ServerProcessesAcks == [p \in Both |-> p = server]
ClientSendsAcks == [p \in Both |-> p = client]
ServerFourClientTwo == [p \in Both |-> IF p = server THEN 4 ELSE 2]
Five == [p \in Both |-> 5]
=============================================================================
