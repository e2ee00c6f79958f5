---------------- MODULE MCDeliveryNotificationManager ----------------
(* TLC instances of DeliveryNotificationManager. *)
EXTENDS DeliveryNotificationManager

CONSTANTS server, client

Both == {server, client}

(* The wiring ClientProxy's constructor chooses: the server numbers packets  *)
(* and expects acks, the client sends them.                                  *)
ServerProcessesAcks == [p \in Both |-> p = server]
ClientSendsAcks == [p \in Both |-> p = client]

ServerFiveClientThree == [p \in Both |-> IF p = server THEN 5 ELSE 3]
ServerFourClientTwo == [p \in Both |-> IF p = server THEN 4 ELSE 2]
ServerTwoClientFour == [p \in Both |-> IF p = server THEN 2 ELSE 4]
Five == [p \in Both |-> 5]
======================================================================
