----------------------------- MODULE Replication -----------------------------
(***************************************************************************)
(* A server replicates its game objects to one client: the                 *)
(* ReplicationManagerServer of a ClientProxy, the transmission data it     *)
(* attaches to each packet, and the two DeliveryNotificationManagers that  *)
(* decide which packets were delivered.  What the game does to its objects *)
(* is external: an object is registered and created once, its state        *)
(* changes, it is unregistered and destroyed once, and no network id is    *)
(* used twice.                                                             *)
(***************************************************************************)
EXTENDS DeliveryNotificationManager

CONSTANTS
  server, client,
  NetworkId,
  StateBit          \* the bits of an object's state mask

ASSUME ClientProxyWiring ==
  /\ Peer = {server, client} /\ server # client
  /\ ShouldSendAcks[client] /\ ~ShouldSendAcks[server]
  /\ StateBit # {}

VARIABLES
  object,            \* object[n] is "new", "registered" or "gone"
  commands,          \* networkIdToReplicationCommand
  transmissions,     \* transmissions[k + 1]: what the server's packet nth k carried
  replica            \* history: what the client makes of each object

replicationVars == <<object, commands, transmissions, replica>>

CONSTANTS
  Absent,            \* no command under this id
  Nothing,           \* nothing transmitted for this id
  Indeterminate      \* the members ReplicationCommand() leaves uninitialized

ReplicationAction == {"RA_Create", "RA_Update", "RA_Destroy"}
Command == [action : ReplicationAction \cup {Indeterminate},
            dirtyState : SUBSET (StateBit \cup {Indeterminate})]
Transmission == [action : ReplicationAction, state : SUBSET StateBit]

ASSUME SentinelAssumption ==
  /\ Absent \notin Command
  /\ Nothing \notin Transmission
  /\ Indeterminate \notin ReplicationAction \cup StateBit

---------------------------------------------------------------------------
(* ReplicationManagerServer, on one map m from ids to commands *)

\* m[n] as operator[] sees it: an absent id gets a default ReplicationCommand.
At(m, n) ==
  IF m[n] = Absent
  THEN [action |-> Indeterminate, dirtyState |-> {Indeterminate}]
  ELSE m[n]

ReplicateCreate(m, n, initialDirtyState) ==
  [m EXCEPT ![n] = [action |-> "RA_Create", dirtyState |-> initialDirtyState]]

ReplicateDestroy(m, n) == [m EXCEPT ![n] = [At(m, n) EXCEPT !.action = "RA_Destroy"]]

AddDirtyState(m, n, state) ==
  [m EXCEPT ![n] = [At(m, n) EXCEPT !.dirtyState = @ \cup state]]

HandleCreateAckd(m, n) ==
  [m EXCEPT ![n] = [At(m, n) EXCEPT
                      !.action = IF @ = "RA_Create" THEN "RA_Update" ELSE @]]

RemoveFromReplication(m, n) == [m EXCEPT ![n] = Absent]

HasDirtyState(command) ==
  command # Absent /\ (command.action = "RA_Destroy" \/ command.dirtyState # {})

\* Mutant: a destroy stays one.
ClearDirtyStateOnly(command, state) == [command EXCEPT !.dirtyState = @ \ state]

\* Mutant: a create becomes an update when it is sent, not when it is acked.
ClearDirtyStateAndCreate(command, state) ==
  [action |-> "RA_Update", dirtyState |-> command.dirtyState \ state]

\* A destroy is sent once; it then looks like an update with nothing dirty.
ClearDirtyState(command, state) ==
  [action |-> IF command.action = "RA_Destroy" THEN "RA_Update" ELSE command.action,
   dirtyState |-> command.dirtyState \ state]

---------------------------------------------------------------------------
(* ReplicationManagerTransmissionData *)

Sent(k, n) == transmissions[k + 1][n]
Carries(k, n, action) == Sent(k, n) # Nothing /\ Sent(k, n).action = action
StateSent(k, n) == IF Sent(k, n) = Nothing THEN {} ELSE Sent(k, n).state

\* The state of some object that a packet in flight carries.  The object is
\* not compared.
StateInFlight(packets) == UNION {StateSent(k, n) : k \in packets, n \in NetworkId}

\* Mutant: GetGameObject is not asked.
HandleUpdateFailureUnasked(m, n, state, inFlight) ==
  LET lost == state \ StateInFlight(inFlight)
  IN  IF lost # {} THEN AddDirtyState(m, n, lost) ELSE m

HandleUpdateStateDeliveryFailure(m, n, state, inFlight) ==
  LET lost == state \ StateInFlight(inFlight)
  IN  IF object[n] = "registered" /\ lost # {} THEN AddDirtyState(m, n, lost) ELSE m

\* Mutant: a lost create is left to the updates.
FailureOfCreateIgnored(m, k, n, inFlight) ==
  CASE Sent(k, n) = Nothing -> m
    [] Carries(k, n, "RA_Destroy") -> ReplicateDestroy(m, n)
    [] OTHER -> HandleUpdateStateDeliveryFailure(m, n, Sent(k, n).state, inFlight)

\* Mutant: a lost destroy is not repeated.
FailureOfDestroyIgnored(m, k, n, inFlight) ==
  CASE Sent(k, n) = Nothing -> m
    [] Carries(k, n, "RA_Create") ->
         IF object[n] = "registered" THEN ReplicateCreate(m, n, StateBit) ELSE m
    [] OTHER -> HandleUpdateStateDeliveryFailure(m, n, Sent(k, n).state, inFlight)

FailureOf(m, k, n, inFlight) ==
  CASE Sent(k, n) = Nothing -> m
    [] Carries(k, n, "RA_Create") ->
         IF object[n] = "registered" THEN ReplicateCreate(m, n, StateBit) ELSE m
    [] Carries(k, n, "RA_Update") ->
         HandleUpdateStateDeliveryFailure(m, n, Sent(k, n).state, inFlight)
    [] Carries(k, n, "RA_Destroy") -> ReplicateDestroy(m, n)

SuccessOf(m, k, n) ==
  CASE Sent(k, n) = Nothing -> m
    [] Carries(k, n, "RA_Create") -> HandleCreateAckd(m, n)
    [] Carries(k, n, "RA_Destroy") -> RemoveFromReplication(m, n)
    [] OTHER -> m

\* A packet holds one transmission per id and each handler touches only the
\* command of its id, so a packet's transmissions are handled side by side.
HandleDeliveryFailure(m, k, inFlight) ==
  [n \in NetworkId |-> FailureOf(m, k, n, inFlight)[n]]
HandleDeliverySuccess(m, k) == [n \in NetworkId |-> SuccessOf(m, k, n)[n]]

\* The handlers of n packets from the front, the first f of them failures.
\* stillQueued is 1 when a failing packet is still in the deque while its
\* handler looks through the deque, 0 when it has been taken off before.
Handled(f, n, stillQueued) ==
  LET first == FirstInFlight(server)
      last == dispatchedPacketCount[server] - 1
      after[i \in 0 .. n] ==
        IF i = 0 THEN commands
        ELSE IF i <= f
        THEN HandleDeliveryFailure(after[i - 1], first + i - 1, (first + i - stillQueued) .. last)
        ELSE HandleDeliverySuccess(after[i - 1], first + i - 1)
  IN after[n]

NewlyDropped == droppedPacketCount'[server] - droppedPacketCount[server]
NewlyDelivered == deliveredPacketCount'[server] - deliveredPacketCount[server]

---------------------------------------------------------------------------
ReplicationInit ==
  /\ Init
  /\ object = [n \in NetworkId |-> "new"]
  /\ commands = [n \in NetworkId |-> Absent]
  /\ transmissions = <<>>
  /\ replica = [n \in NetworkId |-> "unknown"]

\* The game registers an object and replicates its creation.
CreateObject(n) ==
  /\ object[n] = "new"
  /\ object' = [object EXCEPT ![n] = "registered"]
  /\ commands' = ReplicateCreate(commands, n, StateBit)
  /\ UNCHANGED <<vars, transmissions, replica>>

\* The game unregisters an object and replicates its destruction.
DestroyObject(n) ==
  /\ object[n] = "registered"
  /\ object' = [object EXCEPT ![n] = "gone"]
  /\ commands' = ReplicateDestroy(commands, n)
  /\ UNCHANGED <<vars, transmissions, replica>>

SetStateDirty(n, b) ==
  /\ object[n] = "registered"
  /\ b \notin At(commands, n).dirtyState
  /\ commands' = AddDirtyState(commands, n, {b})
  /\ UNCHANGED <<vars, object, transmissions, replica>>

\* GameObject::Write is external: it may write any of the dirty state.  A
\* destroy writes nothing and counts all of it as written.
WritableState(n) ==
  IF commands[n].action = "RA_Destroy"
  THEN {commands[n].dirtyState}
  ELSE SUBSET commands[n].dirtyState

\* Mutant: a packet with nothing to replicate gets no transmission data.
SendStatePacketBare ==
  LET dirty == {n \in NetworkId : HasDirtyState(commands[n])}
  IN
  /\ WriteState(server)
  /\ dirty = {}
  /\ UNCHANGED replicationVars

\* SendStatePacketToClient, with ReplicationManagerServer::Write.
SendStatePacketToClient ==
  LET dirty == {n \in NetworkId : HasDirtyState(commands[n])}
  IN
  /\ WriteState(server)
  /\ \E written \in [dirty -> SUBSET (StateBit \cup {Indeterminate})] :
       /\ \A n \in dirty : written[n] \in WritableState(n)
       /\ transmissions' = Append(transmissions,
            [n \in NetworkId |->
               IF n \in dirty
               THEN [action |-> commands[n].action, state |-> written[n]]
               ELSE Nothing])
       /\ commands' = [n \in NetworkId |->
            IF n \in dirty THEN ClearDirtyState(commands[n], written[n]) ELSE commands[n]]
  /\ UNCHANGED <<object, replica>>

\* Mutant: ProcessAcks pops a failing packet after it calls the handler.
ServerReadsUnpopped(m) ==
  /\ ReadAndProcessState(server, m)
  /\ commands' = Handled(NewlyDropped, NewlyDropped + NewlyDelivered, 1)
  /\ UNCHANGED <<object, transmissions, replica>>

\* ProcessAcks pops a failing packet before it calls the handler.
ServerReads(m) ==
  /\ ReadAndProcessState(server, m)
  /\ commands' = Handled(NewlyDropped, NewlyDropped + NewlyDelivered, 0)
  /\ UNCHANGED <<object, transmissions, replica>>

\* ProcessTimedOutPackets calls the handler before it pops the packet.
ServerTimesOut ==
  /\ ProcessTimedOutPackets(server)
  /\ commands' = Handled(NewlyDropped, NewlyDropped, 1)
  /\ UNCHANGED <<object, transmissions, replica>>

\* What a packet makes of the client's replica of n.  "confused" is no state
\* of a replica: an update of an object the client does not have, or anything
\* but a destroy after a destroy.
ReplicaAfter(life, k, n) ==
  IF Sent(k, n) = Nothing \/ life = "confused" THEN life
  ELSE IF Carries(k, n, "RA_Destroy") THEN "destroyed"
  ELSE IF life = "alive" \/ (life = "unknown" /\ Carries(k, n, "RA_Create")) THEN "alive"
  ELSE "confused"

ClientReads(m) ==
  /\ ReadAndProcessState(client, m)
  /\ replica' = IF accepted'[client] = accepted[client]
                THEN replica
                ELSE [n \in NetworkId |-> ReplicaAfter(replica[n], m.nth, n)]
  /\ UNCHANGED <<object, commands, transmissions>>

ClientWrites == WriteState(client) /\ UNCHANGED replicationVars

ReplicationNext ==
  \/ \E n \in NetworkId : CreateObject(n) \/ DestroyObject(n)
  \/ \E n \in NetworkId, b \in StateBit : SetStateDirty(n, b)
  \/ SendStatePacketToClient
  \/ \E m \in network : ServerReads(m) \/ ClientReads(m)
  \/ ServerTimesOut
  \/ ClientWrites

ReplicationSpec == ReplicationInit /\ [][ReplicationNext]_<<vars, replicationVars>>

---------------------------------------------------------------------------
ReplicationTypeOK ==
  /\ TypeOK
  /\ object \in [NetworkId -> {"new", "registered", "gone"}]
  /\ commands \in [NetworkId -> Command \cup {Absent}]
  /\ transmissions \in Seq([NetworkId -> Transmission \cup {Nothing}])
  /\ Len(transmissions) = dispatchedPacketCount[server]
  /\ replica \in [NetworkId -> {"unknown", "alive", "destroyed", "confused"}]

PacketsInFlight == FirstInFlight(server) .. Len(transmissions) - 1

(* No callback that comes late finds its command gone: operator[] never      *)
(* makes a ReplicationCommand whose action and dirty state are uninitialized.*)
NoIndeterminateCommand ==
  \A n \in NetworkId : commands[n] # Absent =>
    /\ commands[n].action # Indeterminate
    /\ Indeterminate \notin commands[n].dirtyState

(* Write never looks up an object that is no longer registered, which would  *)
(* dereference a null pointer: a command left with state to write for an     *)
(* unregistered object is a destroy.                                         *)
WritesOnlyRegistered ==
  \A n \in NetworkId :
    HasDirtyState(commands[n]) /\ commands[n].action # "RA_Destroy" =>
      object[n] = "registered"

(* While an object lives, its creation is waiting to be sent, in flight or   *)
(* accepted by the client, however many of its packets were lost.            *)
CreateNotForgotten ==
  \A n \in NetworkId : object[n] = "registered" =>
    \/ commands[n].action = "RA_Create" /\ commands[n].dirtyState # {}
    \/ \E k \in PacketsInFlight \cup Accepted(client) : Carries(k, n, "RA_Create")

(* Once an object is destroyed, its destruction is waiting, in flight or     *)
(* accepted, and its command is dropped only when the client accepted it.    *)
DestroyNotForgotten ==
  \A n \in NetworkId : object[n] = "gone" =>
    \/ commands[n] # Absent /\ commands[n].action = "RA_Destroy"
    \/ commands[n] # Absent /\ \E k \in PacketsInFlight : Carries(k, n, "RA_Destroy")
    \/ \E k \in Accepted(client) : Carries(k, n, "RA_Destroy")

(* State lost in a packet that an acknowledgement shows to be dropped is     *)
(* dirty again, unless a later packet carries the same bit.  The later       *)
(* packet may carry it for another object, and a packet that times out is    *)
(* its own "later" packet: in both cases the state is lost.                  *)
AckedLossIsDirtyAgain ==
  [][NewlyDelivered > 0 =>
       \A k \in FirstInFlight(server) .. FirstInFlight(server) + NewlyDropped - 1,
          n \in {o \in NetworkId : object[o] = "registered"} :
         StateSent(k, n) \subseteq
           commands'[n].dirtyState \cup StateInFlight(k + 1 .. Len(transmissions) - 1)
    ]_<<vars, replicationVars>>

---------------------------------------------------------------------------
(* Why it works: the invariant behind these properties. *)

\* A command with every member initialized.
SoundCommand == [action : ReplicationAction, dirtyState : SUBSET StateBit]

From(k) == k .. Len(transmissions) - 1

\* c is what the map holds for n when k is the first packet not yet reported
\* and those in delivered were reported as delivered.

\* The creation of an object that lives is never forgotten, and its command
\* is an update only once the creation was delivered.
RegisteredInv(c, k, delivered, n) ==
  /\ c # Absent /\ c.action # "RA_Destroy"
  /\ c.action = "RA_Update" => \E i \in delivered : Carries(i, n, "RA_Create")
  /\ \/ c.action = "RA_Create" /\ c.dirtyState # {}
     \/ \E i \in From(k) \cup delivered : Carries(i, n, "RA_Create")

\* The destruction of an object waits, or is the last that is in flight of
\* it, or was delivered.
GoneInv(c, k, delivered, n) ==
  \/ /\ c # Absent /\ c.action = "RA_Destroy"
     /\ \A i \in From(k) : ~Carries(i, n, "RA_Destroy")
  \/ /\ c # Absent /\ c.action = "RA_Update" /\ c.dirtyState = {}
     /\ \E j \in From(k) :
          /\ Carries(j, n, "RA_Destroy")
          /\ \A i \in k .. j - 1 : ~Carries(i, n, "RA_Destroy")
          /\ \A i \in From(j + 1) : Sent(i, n) = Nothing
  \/ /\ c = Absent
     /\ \A i \in From(k) : Sent(i, n) = Nothing
     /\ \E i \in delivered : Carries(i, n, "RA_Destroy")

CommandInv(c, k, delivered, n) ==
  /\ c \in SoundCommand \cup {Absent}
  /\ object[n] = "new" => c = Absent
  /\ object[n] = "registered" => RegisteredInv(c, k, delivered, n)
  /\ object[n] = "gone" => GoneInv(c, k, delivered, n)

\* What was ever sent of n: nothing before it is made, a destroy only when it
\* is gone and nothing else after one, an update only after a creation that
\* was delivered by then.
TransmissionsInv(n) ==
  /\ \A i \in From(0) : Sent(i, n) # Nothing => object[n] # "new"
  /\ \A i \in From(0) : Carries(i, n, "RA_Destroy") =>
       /\ object[n] = "gone"
       /\ \A j \in From(i + 1) : Sent(j, n) # Nothing => Carries(j, n, "RA_Destroy")
  /\ \A i \in From(0) : Carries(i, n, "RA_Update") =>
       \E j \in confirmed[server] : j < i /\ Carries(j, n, "RA_Create")

ObjectInv(n) ==
  /\ CommandInv(commands[n], FirstInFlight(server), confirmed[server], n)
  /\ TransmissionsInv(n)

\* The client knows what the packets it accepted told it.
ReplicaInv(n) ==
  /\ replica[n] # "confused"
  /\ replica[n] = "unknown" => \A i \in Accepted(client) : Sent(i, n) = Nothing
  /\ replica[n] = "destroyed" <=> \E i \in Accepted(client) : Carries(i, n, "RA_Destroy")

(* The conjunction that every step preserves; the client's replica is what   *)
(* it should be until the server's sequence numbers wrap.                    *)
ReplicationInv ==
  /\ Inv
  /\ ReplicationTypeOK
  /\ confirmed[server] \subseteq 0 .. FirstInFlight(server) - 1
  /\ \A n \in NetworkId : ObjectInv(n)
  /\ NotWrapped(server) => \A n \in NetworkId : ReplicaInv(n)

---------------------------------------------------------------------------
Objects == INSTANCE ReplicatedObjects WITH
  forgotten <- {n \in NetworkId : object[n] = "gone" /\ commands[n] = Absent}

(* The managers at both ends implement the promise of ReplicatedObjects:     *)
(* lost, repeated and reordered packets and late callbacks never show the    *)
(* client an object that was not made, never update one it does not have,    *)
(* never bring one back, and never let the server drop a destroy that the    *)
(* client has not seen.                                                      *)
ReplicatesObjects == Objects!Spec
=============================================================================
