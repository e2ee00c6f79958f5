-------------------------- MODULE ReplicatedObjects --------------------------
(***************************************************************************)
(* What replication promises, without commands, transmissions, packets or  *)
(* acknowledgements.  The server's objects are made and destroyed once.    *)
(* The client learns of them late, of several at a time and perhaps never: *)
(* it may miss the whole life of an object, but it never learns of one     *)
(* that was not made, never takes a living object for destroyed, and never *)
(* sees a destroyed one again.  The server may forget an object only when  *)
(* the client knows that it is gone.                                       *)
(***************************************************************************)
CONSTANT NetworkId

Life == {"unknown", "alive", "destroyed"}

VARIABLES
  object,     \* object[n] is "new", "registered" or "gone"
  replica,    \* replica[n] at the client: "unknown", "alive" or "destroyed"
  forgotten   \* ids that the server holds nothing for any more

vars == <<object, replica, forgotten>>

Init ==
  /\ object = [n \in NetworkId |-> "new"]
  /\ replica = [n \in NetworkId |-> "unknown"]
  /\ forgotten = {}

Create(n) ==
  /\ object[n] = "new"
  /\ object' = [object EXCEPT ![n] = "registered"]
  /\ UNCHANGED <<replica, forgotten>>

Destroy(n) ==
  /\ object[n] = "registered"
  /\ object' = [object EXCEPT ![n] = "gone"]
  /\ UNCHANGED <<replica, forgotten>>

\* What the client may come to know of n by one packet.  A packet that was
\* sent before n was destroyed may still bring n to life.
Learns(n, before, after) ==
  \/ after = before
  \/ after = "alive" /\ before = "unknown" /\ object[n] # "new"
  \/ after = "destroyed" /\ object[n] = "gone"

Learn ==
  LET before == replica
      after == replica'
  IN  /\ UNCHANGED <<object, forgotten>>
      /\ after \in [NetworkId -> Life]
      /\ \A n \in NetworkId : Learns(n, before[n], after[n])

Forget ==
  /\ forgotten \subseteq forgotten'
  /\ \A n \in forgotten' \ forgotten : replica[n] = "destroyed"
  /\ UNCHANGED <<object, replica>>

Next ==
  \/ \E n \in NetworkId : Create(n) \/ Destroy(n)
  \/ Learn
  \/ Forget

Spec == Init /\ [][Next]_vars
=============================================================================
