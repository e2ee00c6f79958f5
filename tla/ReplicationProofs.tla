-------------------------- MODULE ReplicationProofs --------------------------
(***************************************************************************)
(* Proofs about Replication, for every set of objects and of state bits,   *)
(* every bound and every size of the sequence number space.                *)
(***************************************************************************)
EXTENDS Replication, DeliveryNotificationManagerProofs, WellFoundedInduction

---------------------------------------------------------------------------
(* Induction over a set of naturals, and the recursion of Handled. *)

(* A set that holds 0 and the successor of each of its members holds Nat.    *)
LEMMA InductiveSet ==
  ASSUME NEW S, 0 \in S, \A i \in Nat : i \in S => i + 1 \in S
  PROVE  Nat \subseteq S
<1> DEFINE T == Nat \ S
<1>1. SUFFICES ASSUME T # {} PROVE FALSE
  OBVIOUS
<1>2. PICK x \in T : \A y \in T : ~(<<y, x>> \in OpToRel(<, Nat))
  <2>1. T \subseteq Nat
    OBVIOUS
  <2> HIDE DEF T
  <2> QED BY <1>1, <2>1, NatLessThanWellFounded, WFMin
<1>3. x \in Nat /\ x # 0
  OBVIOUS
<1>4. x - 1 \in Nat /\ x - 1 < x /\ x = (x - 1) + 1
  BY <1>3
<1>5. <<x - 1, x>> \in OpToRel(<, Nat)
  BY <1>3, <1>4 DEF OpToRel
<1>6. x - 1 \in S
  BY <1>2, <1>4, <1>5
<1> QED BY <1>4, <1>6

\* One turn of the recursion of Handled.
HandleNext(m, i, f, stillQueued) ==
  IF i <= f
  THEN HandleDeliveryFailure(m, FirstInFlight(server) + i - 1,
         (FirstInFlight(server) + i - stillQueued) .. dispatchedPacketCount[server] - 1)
  ELSE HandleDeliverySuccess(m, FirstInFlight(server) + i - 1)

\* after[i] is the map when the handlers of the first i packets are done.
IsHistory(after, f, n, stillQueued) ==
  after = [i \in 0 .. n |->
             IF i = 0 THEN commands ELSE HandleNext(after[i - 1], i, f, stillQueued)]

(* The recursion has a solution, ...                                         *)
LEMMA HistoryExists ==
  ASSUME NEW f, NEW q, NEW n \in Nat
  PROVE  \E after : IsHistory(after, f, n, q)
<1> DEFINE S == {j \in Nat : \E after : IsHistory(after, f, j, q)}
<1>1. 0 \in S
  <2>1. IsHistory([i \in 0 .. 0 |-> commands], f, 0, q)
    BY DEF IsHistory
  <2> QED BY <2>1
<1>2. ASSUME NEW j \in Nat, j \in S PROVE j + 1 \in S
  <2>1. PICK after : IsHistory(after, f, j, q)
    BY <1>2
  <2> DEFINE longer == [i \in 0 .. j + 1 |->
                          IF i = j + 1 THEN HandleNext(after[j], j + 1, f, q) ELSE after[i]]
  <2>2. ASSUME NEW i \in 0 .. j + 1
        PROVE  longer[i] = IF i = 0 THEN commands ELSE HandleNext(longer[i - 1], i, f, q)
    <3>1. CASE i = j + 1
      <4>1. j \in 0 .. j + 1 /\ j # j + 1 /\ i # 0 /\ i - 1 = j
        BY <3>1
      <4>2. longer[i] = HandleNext(after[j], j + 1, f, q) /\ longer[j] = after[j]
        BY <3>1, <4>1
      <4> HIDE DEF longer
      <4> QED BY <3>1, <4>1, <4>2
    <3>2. CASE i # j + 1
      <4>1. i \in 0 .. j
        BY <3>2
      <4>2. longer[i] = after[i]
        BY <3>2
      <4>3. after[i] = IF i = 0 THEN commands ELSE HandleNext(after[i - 1], i, f, q)
        BY <2>1, <4>1 DEF IsHistory
      <4>4. i # 0 => longer[i - 1] = after[i - 1]
        BY <4>1
      <4> HIDE DEF longer
      <4> QED BY <4>2, <4>3, <4>4
    <3> QED BY <3>1, <3>2
  <2>3. IsHistory(longer, f, j + 1, q)
    <3>1. longer = [i \in 0 .. j + 1 |-> longer[i]]
      OBVIOUS
    <3> HIDE DEF longer
    <3> QED BY <2>2, <3>1 DEF IsHistory
  <2> QED BY <2>3
<1>3. Nat \subseteq S
  <2> HIDE DEF S
  <2> QED BY <1>1, <1>2, InductiveSet
<1> QED BY <1>3

(* ... which is what Handled computes.                                       *)
LEMMA HandledIsHistory ==
  ASSUME NEW f, NEW q, NEW n \in Nat
  PROVE  \E after : IsHistory(after, f, n, q) /\ Handled(f, n, q) = after[n]
<1> DEFINE chosen == CHOOSE after : IsHistory(after, f, n, q)
<1>1. IsHistory(chosen, f, n, q)
  BY HistoryExists
<1>2. Handled(f, n, q) = chosen[n]
  BY DEF Handled, IsHistory, HandleNext
<1> QED BY <1>1, <1>2

---------------------------------------------------------------------------
(* The report of one packet, k, seen from one object, n. *)

CommandMap == [NetworkId -> SoundCommand \cup {Absent}]

LEMMA FromSplit ==
  ASSUME Len(transmissions) \in Nat, NEW k \in From(0)
  PROVE  k \in Nat /\ k \in From(k) /\ From(k) = {k} \cup From(k + 1)
BY DEF From

(* No command is the sentinel for none, and sets of bits are not.            *)
LEMMA SoundIsPresent ==
  ASSUME NEW c \in SoundCommand
  PROVE  c # Absent /\ c.action # Indeterminate /\ Indeterminate \notin c.dirtyState
<1>1. c \in Command
  BY DEF SoundCommand, Command
<1> QED BY <1>1, SentinelAssumption DEF SoundCommand

(* A report that leaves a command as it is, or only adds to its dirty state, *)
(* is harmless unless it is the loss of the creation of an object that lives *)
(* or the fate of a destruction.                                             *)
LEMMA Advance ==
  ASSUME Len(transmissions) \in Nat, NEW n \in NetworkId, NEW k \in From(0),
         NEW delivered, NEW c, CommandInv(c, k, delivered, n),
         ~Carries(k, n, "RA_Destroy"),
         Carries(k, n, "RA_Create") /\ object[n] = "registered" => k \in delivered
  PROVE  CommandInv(c, k + 1, delivered, n)
<1> USE FromSplit
<1>1. CASE object[n] = "registered"
  <2>1. RegisteredInv(c, k, delivered, n)
    BY <1>1 DEF CommandInv
  <2>2. RegisteredInv(c, k + 1, delivered, n)
    BY <1>1, <2>1 DEF RegisteredInv
  <2> QED BY <1>1, <2>2 DEF CommandInv
<1>2. CASE object[n] = "gone"
  <2>1. GoneInv(c, k, delivered, n)
    BY <1>2 DEF CommandInv
  <2>2. CASE c # Absent /\ c.action = "RA_Destroy" /\ \A i \in From(k) : ~Carries(i, n, "RA_Destroy")
    <3>1. GoneInv(c, k + 1, delivered, n)
      BY <2>2 DEF GoneInv
    <3> QED BY <1>2, <3>1 DEF CommandInv
  <2>3. CASE c = Absent /\ (\A i \in From(k) : Sent(i, n) = Nothing)
             /\ \E i \in delivered : Carries(i, n, "RA_Destroy")
    <3>1. GoneInv(c, k + 1, delivered, n)
      BY <2>3 DEF GoneInv
    <3> QED BY <1>2, <3>1 DEF CommandInv
  <2>4. ASSUME c # Absent, c.action = "RA_Update", c.dirtyState = {},
               NEW j \in From(k), Carries(j, n, "RA_Destroy"),
               \A i \in k .. j - 1 : ~Carries(i, n, "RA_Destroy"),
               \A i \in From(j + 1) : Sent(i, n) = Nothing
        PROVE  CommandInv(c, k + 1, delivered, n)
    <3>1. j # k
      BY <2>4
    <3>2. j \in From(k + 1)
      BY <3>1
    <3>3. \A i \in k + 1 .. j - 1 : ~Carries(i, n, "RA_Destroy")
      BY <2>4, <3>1, <3>2 DEF From
    <3>4. GoneInv(c, k + 1, delivered, n)
      BY <2>4, <3>2, <3>3 DEF GoneInv
    <3> QED BY <1>2, <3>4 DEF CommandInv
  <2> QED BY <2>1, <2>2, <2>3, <2>4 DEF GoneInv
<1>3. CASE object[n] # "registered" /\ object[n] # "gone"
  BY <1>3 DEF CommandInv
<1> QED BY <1>1, <1>2, <1>3

(* The front packet is the destroy that is in flight: nothing follows it.    *)
LEMMA DestroyReported ==
  ASSUME Len(transmissions) \in Nat, NEW n \in NetworkId, NEW k \in From(0),
         NEW delivered, NEW c, CommandInv(c, k, delivered, n), TransmissionsInv(n),
         Carries(k, n, "RA_Destroy")
  PROVE  /\ object[n] = "gone" /\ c \in SoundCommand
         /\ \A i \in From(k + 1) : Sent(i, n) = Nothing
<1> USE FromSplit
<1>1. object[n] = "gone"
  BY DEF TransmissionsInv
<1>2. GoneInv(c, k, delivered, n)
  BY <1>1 DEF CommandInv
<1>3. Sent(k, n) # Nothing
  BY DEF Carries
<1>4. PICK j \in From(k) : /\ c # Absent
                           /\ Carries(j, n, "RA_Destroy")
                           /\ \A i \in k .. j - 1 : ~Carries(i, n, "RA_Destroy")
                           /\ \A i \in From(j + 1) : Sent(i, n) = Nothing
  BY <1>2, <1>3 DEF GoneInv
<1>5. j = k
  BY <1>4 DEF From
<1> QED BY <1>1, <1>4, <1>5 DEF CommandInv

LEMMA FailureStep ==
  ASSUME Len(transmissions) \in Nat, NEW n \in NetworkId, NEW k \in From(0),
         NEW delivered, NEW inFlight, NEW m \in CommandMap,
         Sent(k, n) \in Transmission \cup {Nothing},
         CommandInv(m[n], k, delivered, n), TransmissionsInv(n)
  PROVE  CommandInv(FailureOf(m, k, n, inFlight)[n], k + 1, delivered, n)
<1> DEFINE c == FailureOf(m, k, n, inFlight)[n]
<1> USE FromSplit
<1>0. m[n] \in SoundCommand \cup {Absent} /\ DOMAIN m = NetworkId
  BY DEF CommandMap
<1>1. CASE Sent(k, n) = Nothing
  <2>1. FailureOf(m, k, n, inFlight) = m
    BY <1>1 DEF FailureOf, Carries
  <2>2. ~Carries(k, n, "RA_Destroy") /\ ~Carries(k, n, "RA_Create")
    BY <1>1 DEF Carries
  <2> QED BY <2>1, <2>2, Advance
<1>2. CASE Carries(k, n, "RA_Create") /\ object[n] = "registered"
  <2>1. FailureOf(m, k, n, inFlight) = ReplicateCreate(m, n, StateBit)
    BY <1>2 DEF FailureOf, Carries
  <2>2. c = [action |-> "RA_Create", dirtyState |-> StateBit]
    BY <1>0, <2>1 DEF ReplicateCreate
  <2>3. c \in SoundCommand /\ c.action = "RA_Create" /\ c.dirtyState # {}
    BY <2>2, ClientProxyWiring DEF SoundCommand, ReplicationAction
  <2> HIDE DEF c
  <2>4. RegisteredInv(c, k + 1, delivered, n)
    BY <2>3, SoundIsPresent DEF RegisteredInv
  <2>5. CommandInv(c, k + 1, delivered, n)
    BY <1>2, <2>3, <2>4 DEF CommandInv
  <2> QED BY <2>5 DEF c
<1>3. CASE Carries(k, n, "RA_Create") /\ object[n] # "registered"
  <2>1. FailureOf(m, k, n, inFlight) = m
    BY <1>3 DEF FailureOf, Carries
  <2>2. ~Carries(k, n, "RA_Destroy")
    BY <1>3 DEF Carries
  <2> QED BY <1>3, <2>1, <2>2, Advance
<1>4. CASE Carries(k, n, "RA_Update")
  <2> DEFINE lost == Sent(k, n).state \ StateInFlight(inFlight)
  <2>1. /\ FailureOf(m, k, n, inFlight)
             = HandleUpdateStateDeliveryFailure(m, n, Sent(k, n).state, inFlight)
        /\ Sent(k, n).state \subseteq StateBit
    BY <1>4 DEF FailureOf, Carries, Transmission
  <2>2. ~Carries(k, n, "RA_Destroy") /\ ~Carries(k, n, "RA_Create")
    BY <1>4 DEF Carries
  <2>3. CommandInv(m[n], k + 1, delivered, n)
    BY <2>2, Advance
  <2>4. CASE object[n] = "registered" /\ lost # {}
    <3>1. RegisteredInv(m[n], k + 1, delivered, n)
      BY <2>3, <2>4 DEF CommandInv
    <3>2. m[n] \in SoundCommand
      BY <1>0, <3>1 DEF RegisteredInv
    <3>3. c = [m[n] EXCEPT !.dirtyState = @ \cup lost]
      BY <1>0, <2>1, <2>4, <3>1 DEF HandleUpdateStateDeliveryFailure, AddDirtyState, At, RegisteredInv
    <3>4. /\ c \in SoundCommand /\ c.action = m[n].action
          /\ m[n].dirtyState \subseteq c.dirtyState
      BY <2>1, <3>2, <3>3 DEF SoundCommand
    <3> HIDE DEF c
    <3>5. RegisteredInv(c, k + 1, delivered, n)
      BY <3>1, <3>4, SoundIsPresent DEF RegisteredInv
    <3>6. CommandInv(c, k + 1, delivered, n)
      BY <2>4, <3>4, <3>5 DEF CommandInv
    <3> QED BY <3>6 DEF c
  <2>5. CASE ~(object[n] = "registered" /\ lost # {})
    <3>1. c = m[n]
      BY <2>1, <2>5 DEF HandleUpdateStateDeliveryFailure
    <3> QED BY <2>3, <3>1
  <2> QED BY <2>4, <2>5
<1>5. CASE Carries(k, n, "RA_Destroy")
  <2>1. /\ object[n] = "gone" /\ m[n] \in SoundCommand
        /\ \A i \in From(k + 1) : Sent(i, n) = Nothing
    BY <1>5, DestroyReported
  <2>2. FailureOf(m, k, n, inFlight) = ReplicateDestroy(m, n)
    BY <1>5 DEF FailureOf, Carries
  <2>3. c = [m[n] EXCEPT !.action = "RA_Destroy"]
    BY <1>0, <2>1, <2>2, SoundIsPresent DEF ReplicateDestroy, At
  <2>4. c \in SoundCommand /\ c.action = "RA_Destroy"
    BY <2>1, <2>3 DEF SoundCommand, ReplicationAction
  <2> HIDE DEF c
  <2>5. GoneInv(c, k + 1, delivered, n)
    BY <2>1, <2>4, SoundIsPresent DEF GoneInv, Carries
  <2>6. CommandInv(c, k + 1, delivered, n)
    BY <2>1, <2>4, <2>5 DEF CommandInv
  <2> QED BY <2>6 DEF c
<1>6. \/ Sent(k, n) = Nothing \/ Carries(k, n, "RA_Create")
      \/ Carries(k, n, "RA_Update") \/ Carries(k, n, "RA_Destroy")
  BY DEF Transmission, ReplicationAction, Carries
<1> QED BY <1>1, <1>2, <1>3, <1>4, <1>5, <1>6

LEMMA SuccessStep ==
  ASSUME Len(transmissions) \in Nat, NEW n \in NetworkId, NEW k \in From(0),
         object[n] \in {"new", "registered", "gone"},
         NEW delivered, k \in delivered, NEW m \in CommandMap,
         Sent(k, n) \in Transmission \cup {Nothing},
         CommandInv(m[n], k, delivered, n), TransmissionsInv(n)
  PROVE  CommandInv(SuccessOf(m, k, n)[n], k + 1, delivered, n)
<1> DEFINE c == SuccessOf(m, k, n)[n]
<1> USE FromSplit
<1>0. m[n] \in SoundCommand \cup {Absent} /\ DOMAIN m = NetworkId
  BY DEF CommandMap
<1>1. CASE Sent(k, n) = Nothing \/ Carries(k, n, "RA_Update")
  <2>1. SuccessOf(m, k, n) = m
    <3>1. CASE Sent(k, n) = Nothing
      BY <3>1 DEF SuccessOf, Carries
    <3>2. CASE Carries(k, n, "RA_Update")
      <4>1. Sent(k, n) # Nothing /\ Sent(k, n).action = "RA_Update"
        BY <3>2 DEF Carries
      <4> QED BY <4>1 DEF SuccessOf, Carries
    <3> QED BY <1>1, <3>1, <3>2
  <2>2. ~Carries(k, n, "RA_Destroy") /\ ~Carries(k, n, "RA_Create")
    BY <1>1 DEF Carries
  <2> QED BY <2>1, <2>2, Advance
<1>2. CASE Carries(k, n, "RA_Create")
  <2>1. ~Carries(k, n, "RA_Destroy") /\ Sent(k, n) # Nothing
    BY <1>2 DEF Carries
  <2>2. CommandInv(m[n], k + 1, delivered, n)
    BY <2>1, Advance
  <2>3. object[n] # "new"
    BY <2>1 DEF TransmissionsInv
  <2>4. object[n] = "gone" => GoneInv(m[n], k, delivered, n)
    BY DEF CommandInv
  <2>5. object[n] = "registered" => m[n] # Absent
    BY <2>2 DEF CommandInv, RegisteredInv
  <2>6. object[n] = "gone" => m[n] # Absent /\ m[n].action # "RA_Create"
    BY <2>1, <2>4 DEF GoneInv
  <2>7. SuccessOf(m, k, n) = HandleCreateAckd(m, n)
    BY <1>2 DEF SuccessOf, Carries
  <2>8. CASE object[n] = "registered" /\ m[n].action = "RA_Create"
    <3>1. m[n] \in SoundCommand
      BY <1>0, <2>5, <2>8
    <3>2. c = [m[n] EXCEPT !.action = "RA_Update"]
      BY <1>0, <2>5, <2>7, <2>8 DEF HandleCreateAckd, At
    <3>3. c \in SoundCommand /\ c.action = "RA_Update"
      BY <3>1, <3>2 DEF SoundCommand, ReplicationAction
    <3> HIDE DEF c
    <3>4. RegisteredInv(c, k + 1, delivered, n)
      BY <1>2, <3>3, SoundIsPresent DEF RegisteredInv
    <3>5. CommandInv(c, k + 1, delivered, n)
      BY <2>8, <3>3, <3>4 DEF CommandInv
    <3> QED BY <3>5 DEF c
  <2>9. CASE m[n] \in SoundCommand /\ m[n].action # "RA_Create"
    <3>1. c = [m[n] EXCEPT !.action = m[n].action]
      BY <1>0, <2>7, <2>9, SoundIsPresent DEF HandleCreateAckd, At
    <3>2. c = m[n]
      BY <2>9, <3>1 DEF SoundCommand
    <3> QED BY <2>2, <3>2
  <2> QED BY <1>0, <2>3, <2>5, <2>6, <2>8, <2>9
<1>3. CASE Carries(k, n, "RA_Destroy")
  <2>1. /\ object[n] = "gone" /\ m[n] \in SoundCommand
        /\ \A i \in From(k + 1) : Sent(i, n) = Nothing
    BY <1>3, DestroyReported
  <2>2. SuccessOf(m, k, n) = RemoveFromReplication(m, n)
    BY <1>3 DEF SuccessOf, Carries
  <2>3. c = Absent
    BY <1>0, <2>2 DEF RemoveFromReplication
  <2> HIDE DEF c
  <2>4. GoneInv(c, k + 1, delivered, n)
    BY <1>3, <2>1, <2>3 DEF GoneInv
  <2>5. CommandInv(c, k + 1, delivered, n)
    BY <2>1, <2>3, <2>4 DEF CommandInv
  <2> QED BY <2>5 DEF c
<1>4. \/ Sent(k, n) = Nothing \/ Carries(k, n, "RA_Create")
      \/ Carries(k, n, "RA_Update") \/ Carries(k, n, "RA_Destroy")
  BY DEF Transmission, ReplicationAction, Carries
<1> QED BY <1>1, <1>2, <1>3, <1>4

---------------------------------------------------------------------------
(* The reports of several packets, for every object. *)

\* Every command is as it should be when the packets before k are reported.
CommandsInv(m, k, delivered) ==
  /\ m \in CommandMap
  /\ \A n \in NetworkId : CommandInv(m[n], k, delivered, n)

\* What the reports do not change.
Settled ==
  /\ ReplicationTypeOK
  /\ \A n \in NetworkId : TransmissionsInv(n)

LEMMA SettledTypes ==
  ASSUME Settled
  PROVE  /\ Len(transmissions) \in Nat
         /\ \A n \in NetworkId :
              /\ object[n] \in {"new", "registered", "gone"}
              /\ TransmissionsInv(n)
              /\ \A k \in From(0) : Sent(k, n) \in Transmission \cup {Nothing}
<1>1. transmissions \in Seq([NetworkId -> Transmission \cup {Nothing}])
  BY DEF Settled, ReplicationTypeOK
<1>2. Len(transmissions) \in Nat
  BY <1>1, LenProperties
<1>3. ASSUME NEW n \in NetworkId, NEW k \in From(0)
      PROVE  Sent(k, n) \in Transmission \cup {Nothing}
  <2>1. k + 1 \in 1 .. Len(transmissions)
    BY <1>2, <1>3 DEF From
  <2>2. transmissions[k + 1] \in [NetworkId -> Transmission \cup {Nothing}]
    BY <1>1, <2>1, ElementOfSeq
  <2> QED BY <2>2 DEF Sent
<1> QED BY <1>2, <1>3 DEF Settled, ReplicationTypeOK

LEMMA MoreDelivered ==
  ASSUME NEW c, NEW k, NEW delivered, NEW larger, delivered \subseteq larger,
         NEW n, CommandInv(c, k, delivered, n)
  PROVE  CommandInv(c, k, larger, n)
<1>1. RegisteredInv(c, k, delivered, n) => RegisteredInv(c, k, larger, n)
  BY DEF RegisteredInv
<1>2. GoneInv(c, k, delivered, n) => GoneInv(c, k, larger, n)
  BY DEF GoneInv
<1> QED BY <1>1, <1>2 DEF CommandInv

LEMMA HandleDeliveryFailureStep ==
  ASSUME Settled, NEW k \in From(0), NEW delivered, NEW inFlight, NEW m,
         CommandsInv(m, k, delivered)
  PROVE  CommandsInv(HandleDeliveryFailure(m, k, inFlight), k + 1, delivered)
<1>1. ASSUME NEW n \in NetworkId
      PROVE  CommandInv(FailureOf(m, k, n, inFlight)[n], k + 1, delivered, n)
  BY SettledTypes, FailureStep DEF CommandsInv
<1>2. \A n \in NetworkId : FailureOf(m, k, n, inFlight)[n] \in SoundCommand \cup {Absent}
  BY <1>1 DEF CommandInv
<1>3. \A n \in NetworkId :
        HandleDeliveryFailure(m, k, inFlight)[n] = FailureOf(m, k, n, inFlight)[n]
  BY DEF HandleDeliveryFailure
<1>4. HandleDeliveryFailure(m, k, inFlight) \in CommandMap
  BY <1>2 DEF HandleDeliveryFailure, CommandMap
<1> QED BY <1>1, <1>3, <1>4 DEF CommandsInv

LEMMA HandleDeliverySuccessStep ==
  ASSUME Settled, NEW k \in From(0), NEW delivered, k \in delivered, NEW m,
         CommandsInv(m, k, delivered)
  PROVE  CommandsInv(HandleDeliverySuccess(m, k), k + 1, delivered)
<1>1. ASSUME NEW n \in NetworkId
      PROVE  CommandInv(SuccessOf(m, k, n)[n], k + 1, delivered, n)
  BY SettledTypes, SuccessStep DEF CommandsInv
<1>2. \A n \in NetworkId : SuccessOf(m, k, n)[n] \in SoundCommand \cup {Absent}
  BY <1>1 DEF CommandInv
<1>3. \A n \in NetworkId : HandleDeliverySuccess(m, k)[n] = SuccessOf(m, k, n)[n]
  BY DEF HandleDeliverySuccess
<1>4. HandleDeliverySuccess(m, k) \in CommandMap
  BY <1>2 DEF HandleDeliverySuccess, CommandMap
<1> QED BY <1>1, <1>3, <1>4 DEF CommandsInv

(* By induction on the packets: whatever was reported, and in whatever mix   *)
(* of failures and successes, the commands are as they should be.            *)
LEMMA HistoryKeeps ==
  ASSUME Settled, NEW n \in Nat, NEW f \in 0 .. n, NEW q, NEW after, IsHistory(after, f, n, q),
         FirstInFlight(server) \in Nat, FirstInFlight(server) + n <= Len(transmissions),
         NEW delivered, \A i \in f .. n - 1 : FirstInFlight(server) + i \in delivered,
         CommandsInv(commands, FirstInFlight(server), delivered)
  PROVE  \A i \in 0 .. n : CommandsInv(after[i], FirstInFlight(server) + i, delivered)
<1> DEFINE first == FirstInFlight(server)
<1>1. \A i \in 0 .. n :
        after[i] = IF i = 0 THEN commands ELSE HandleNext(after[i - 1], i, f, q)
  BY DEF IsHistory
<1> DEFINE S == {i \in Nat : i <= n => CommandsInv(after[i], first + i, delivered)}
<1>2. 0 \in S
  <2>1. after[0] = commands /\ first + 0 = first
    BY <1>1
  <2> HIDE DEF first
  <2> QED BY <2>1 DEF first
<1>3. ASSUME NEW i \in Nat, i \in S PROVE i + 1 \in S
  <2>1. SUFFICES ASSUME i + 1 <= n
                 PROVE  CommandsInv(after[i + 1], first + (i + 1), delivered)
    OBVIOUS
  <2>2. CommandsInv(after[i], first + i, delivered)
    BY <1>3, <2>1
  <2>3. /\ i + 1 \in 0 .. n /\ i + 1 # 0 /\ (i + 1) - 1 = i
        /\ first + (i + 1) - 1 = first + i /\ first + (i + 1) = (first + i) + 1
    BY <2>1
  <2>4. after[i + 1] = HandleNext(after[i], i + 1, f, q)
    BY <1>1, <2>3
  <2>5. first + i \in From(0)
    BY <2>1, SettledTypes DEF From
  <2>6. CASE i + 1 <= f
    <3>1. \E inFlight : after[i + 1] = HandleDeliveryFailure(after[i], first + i, inFlight)
      BY <2>3, <2>4, <2>6 DEF HandleNext
    <3> HIDE DEF first
    <3> QED BY <2>2, <2>3, <2>5, <3>1, HandleDeliveryFailureStep
  <2>7. CASE ~(i + 1 <= f)
    <3>1. after[i + 1] = HandleDeliverySuccess(after[i], first + i)
      BY <2>3, <2>4, <2>7 DEF HandleNext
    <3>2. first + i \in delivered
      BY <2>1, <2>7
    <3> HIDE DEF first
    <3> QED BY <2>2, <2>3, <2>5, <3>1, <3>2, HandleDeliverySuccessStep
  <2> QED BY <2>6, <2>7
<1>4. Nat \subseteq S
  <2> HIDE DEF S
  <2> QED BY <1>2, <1>3, InductiveSet
<1> QED BY <1>4

LEMMA HandledKeeps ==
  ASSUME Settled, NEW n \in Nat, NEW f \in 0 .. n, NEW q,
         FirstInFlight(server) \in Nat, FirstInFlight(server) + n <= Len(transmissions),
         NEW delivered, \A i \in f .. n - 1 : FirstInFlight(server) + i \in delivered,
         CommandsInv(commands, FirstInFlight(server), delivered)
  PROVE  CommandsInv(Handled(f, n, q), FirstInFlight(server) + n, delivered)
<1>1. PICK after : IsHistory(after, f, n, q) /\ Handled(f, n, q) = after[n]
  BY HandledIsHistory
<1>2. n \in 0 .. n
  OBVIOUS
<1>3. CommandsInv(after[n], FirstInFlight(server) + n, delivered)
  BY <1>1, <1>2, HistoryKeeps
<1> QED BY <1>1, <1>3

---------------------------------------------------------------------------
(* What a lost packet carried. *)

LEMMA FailureMakesDirty ==
  ASSUME Settled, NEW k \in From(0), NEW delivered, NEW inFlight, NEW m,
         CommandsInv(m, k, delivered), NEW n \in NetworkId, object[n] = "registered"
  PROVE  LET c == HandleDeliveryFailure(m, k, inFlight)[n]
         IN  /\ m[n].dirtyState \subseteq c.dirtyState
             /\ StateSent(k, n) \subseteq c.dirtyState \cup StateInFlight(inFlight)
<1> DEFINE c == HandleDeliveryFailure(m, k, inFlight)[n]
<1>1. /\ m \in CommandMap /\ DOMAIN m = NetworkId /\ m[n] \in SoundCommand /\ m[n] # Absent
      /\ Sent(k, n) \in Transmission \cup {Nothing}
      /\ ~Carries(k, n, "RA_Destroy")
  BY SettledTypes DEF CommandsInv, CommandMap, CommandInv, RegisteredInv, TransmissionsInv
<1>2. c = FailureOf(m, k, n, inFlight)[n]
  BY DEF HandleDeliveryFailure
<1>3. m[n].dirtyState \subseteq StateBit
  BY <1>1 DEF SoundCommand
<1>4. CASE Sent(k, n) = Nothing
  <2>1. FailureOf(m, k, n, inFlight) = m
    BY <1>4 DEF FailureOf, Carries
  <2> QED BY <1>2, <1>4, <2>1 DEF StateSent
<1>5. CASE Carries(k, n, "RA_Create")
  <2>1. FailureOf(m, k, n, inFlight) = ReplicateCreate(m, n, StateBit)
    BY <1>5 DEF FailureOf, Carries
  <2>2. c.dirtyState = StateBit
    BY <1>1, <1>2, <2>1 DEF ReplicateCreate
  <2>3. StateSent(k, n) \subseteq StateBit
    BY <1>1 DEF StateSent, Transmission
  <2> QED BY <1>3, <2>2, <2>3
<1>6. CASE Carries(k, n, "RA_Update")
  <2> DEFINE lost == Sent(k, n).state \ StateInFlight(inFlight)
  <2>1. FailureOf(m, k, n, inFlight)
          = HandleUpdateStateDeliveryFailure(m, n, Sent(k, n).state, inFlight)
    BY <1>6 DEF FailureOf, Carries
  <2>2. StateSent(k, n) = Sent(k, n).state
    BY <1>6 DEF StateSent, Carries
  <2>3. CASE lost # {}
    <3>1. c = [m[n] EXCEPT !.dirtyState = @ \cup lost]
      BY <1>1, <1>2, <2>1, <2>3 DEF HandleUpdateStateDeliveryFailure, AddDirtyState, At
    <3>2. c.dirtyState = m[n].dirtyState \cup lost
      BY <1>1, <3>1 DEF SoundCommand
    <3> QED BY <2>2, <3>2
  <2>4. CASE lost = {}
    <3>1. c = m[n]
      BY <1>2, <2>1, <2>4 DEF HandleUpdateStateDeliveryFailure
    <3> QED BY <2>2, <2>4, <3>1
  <2> QED BY <2>3, <2>4
<1>7. \/ Sent(k, n) = Nothing \/ Carries(k, n, "RA_Create") \/ Carries(k, n, "RA_Update")
  BY <1>1 DEF Transmission, ReplicationAction, Carries
<1> QED BY <1>4, <1>5, <1>6, <1>7

LEMMA SuccessKeepsDirty ==
  ASSUME Settled, NEW k \in From(0), NEW delivered, NEW m,
         CommandsInv(m, k, delivered), NEW n \in NetworkId, object[n] = "registered"
  PROVE  m[n].dirtyState \subseteq HandleDeliverySuccess(m, k)[n].dirtyState
<1> DEFINE c == HandleDeliverySuccess(m, k)[n]
<1>1. /\ m \in CommandMap /\ DOMAIN m = NetworkId /\ m[n] \in SoundCommand /\ m[n] # Absent
      /\ Sent(k, n) \in Transmission \cup {Nothing}
      /\ ~Carries(k, n, "RA_Destroy")
  BY SettledTypes DEF CommandsInv, CommandMap, CommandInv, RegisteredInv, TransmissionsInv
<1>2. c = SuccessOf(m, k, n)[n]
  BY DEF HandleDeliverySuccess
<1>3. CASE Carries(k, n, "RA_Create")
  <2>1. SuccessOf(m, k, n) = HandleCreateAckd(m, n)
    BY <1>3 DEF SuccessOf, Carries
  <2>2. c = [m[n] EXCEPT !.action = IF @ = "RA_Create" THEN "RA_Update" ELSE @]
    BY <1>1, <1>2, <2>1 DEF HandleCreateAckd, At
  <2>3. c.dirtyState = m[n].dirtyState
    BY <1>1, <2>2 DEF SoundCommand
  <2> QED BY <2>3
<1>4. CASE ~Carries(k, n, "RA_Create")
  <2>1. SuccessOf(m, k, n) = m
    BY <1>1, <1>4 DEF SuccessOf, Carries
  <2> QED BY <1>2, <2>1
<1> QED BY <1>3, <1>4

(* By induction on the packets, when each is taken off the deque before its  *)
(* handler looks through it: what a failing packet carried is dirty again or *)
(* carried by a later packet, and stays dirty while the others are reported. *)
LEMMA HandledMakesDirty ==
  ASSUME Settled, NEW n \in Nat, NEW f \in 0 .. n,
         FirstInFlight(server) \in Nat, FirstInFlight(server) + n <= Len(transmissions),
         dispatchedPacketCount[server] = Len(transmissions),
         NEW delivered, \A i \in f .. n - 1 : FirstInFlight(server) + i \in delivered,
         CommandsInv(commands, FirstInFlight(server), delivered),
         NEW o \in NetworkId, object[o] = "registered",
         NEW k \in FirstInFlight(server) .. FirstInFlight(server) + f - 1
  PROVE  StateSent(k, o) \subseteq
           Handled(f, n, 0)[o].dirtyState \cup StateInFlight(From(k + 1))
<1> DEFINE first == FirstInFlight(server)
           Covered(m) == StateSent(k, o) \subseteq m[o].dirtyState \cup StateInFlight(From(k + 1))
<1>1. PICK after : IsHistory(after, f, n, 0) /\ Handled(f, n, 0) = after[n]
  BY HandledIsHistory
<1>2. \A i \in 0 .. n :
        after[i] = IF i = 0 THEN commands ELSE HandleNext(after[i - 1], i, f, 0)
  BY <1>1 DEF IsHistory
<1>3. \A i \in 0 .. n : CommandsInv(after[i], first + i, delivered)
  BY <1>1, HistoryKeeps
<1> DEFINE S == {i \in Nat : i <= n /\ k < first + i => Covered(after[i])}
<1>4. 0 \in S
  OBVIOUS
<1>5. ASSUME NEW i \in Nat, i \in S PROVE i + 1 \in S
  <2>1. SUFFICES ASSUME i + 1 <= n, k < first + (i + 1) PROVE Covered(after[i + 1])
    OBVIOUS
  <2>2. /\ i + 1 \in 0 .. n /\ i + 1 # 0 /\ (i + 1) - 1 = i /\ i \in 0 .. n
        /\ first + (i + 1) - 1 = first + i /\ first + (i + 1) - 0 = (first + i) + 1
    BY <2>1
  <2>3. after[i + 1] = HandleNext(after[i], i + 1, f, 0)
    BY <1>2, <2>2
  <2>4. first + i \in From(0)
    BY <2>1, SettledTypes DEF From
  <2>5. CommandsInv(after[i], first + i, delivered)
    BY <1>3, <2>2
  <2>6. CASE i + 1 <= f
    <3>1. after[i + 1] = HandleDeliveryFailure(after[i], first + i, From((first + i) + 1))
      BY <2>2, <2>3, <2>6 DEF HandleNext, From
    <3>2. CASE k = first + i
      <4> HIDE DEF first
      <4> QED BY <2>4, <2>5, <3>1, <3>2, FailureMakesDirty
    <3>3. CASE k # first + i
      <4>1. i <= n /\ k < first + i
        BY <2>1, <3>3
      <4>2. Covered(after[i])
        BY <1>5, <4>1
      <4> HIDE DEF first
      <4>3. after[i][o].dirtyState \subseteq after[i + 1][o].dirtyState
        BY <2>4, <2>5, <3>1, FailureMakesDirty
      <4> QED BY <4>2, <4>3
    <3> QED BY <3>2, <3>3
  <2>7. CASE ~(i + 1 <= f)
    <3>1. after[i + 1] = HandleDeliverySuccess(after[i], first + i)
      BY <2>2, <2>3, <2>7 DEF HandleNext
    <3>2. i <= n /\ k < first + i
      BY <2>1, <2>7
    <3>3. Covered(after[i])
      BY <1>5, <3>2
    <3> HIDE DEF first
    <3>4. after[i][o].dirtyState \subseteq after[i + 1][o].dirtyState
      BY <2>4, <2>5, <3>1, SuccessKeepsDirty
    <3> QED BY <3>3, <3>4
  <2> QED BY <2>6, <2>7
<1>6. Nat \subseteq S
  <2> HIDE DEF S
  <2> QED BY <1>4, <1>5, InductiveSet
<1> QED BY <1>1, <1>6

---------------------------------------------------------------------------
(* What the replication actions are to the delivery managers. *)

LEMMA Wiring ==
  /\ server \in Peer /\ client \in Peer /\ server # client
  /\ Other(server) = client /\ Other(client) = server
  /\ ShouldProcessAcks[server] /\ ~ShouldProcessAcks[client]
<1>1. server \in Peer /\ client \in Peer /\ server # client
  BY ClientProxyWiring
<1>2. Other(server) = client /\ Other(client) = server
  BY <1>1, OtherPeer
<1> QED BY <1>1, <1>2, ClientProxyWiring, PeerAssumption

LEMMA ActionsDeliver == ReplicationNext => [Next]_vars
<1> SUFFICES ASSUME ReplicationNext PROVE Next \/ UNCHANGED vars
  OBVIOUS
<1>1. ASSUME NEW n \in NetworkId, CreateObject(n) \/ DestroyObject(n) PROVE UNCHANGED vars
  BY <1>1 DEF CreateObject, DestroyObject
<1>2. ASSUME NEW n \in NetworkId, NEW b \in StateBit, SetStateDirty(n, b) PROVE UNCHANGED vars
  BY <1>2 DEF SetStateDirty
<1>3. CASE SendStatePacketToClient
  BY <1>3, Wiring DEF SendStatePacketToClient, Next
<1>4. ASSUME NEW m \in network, ServerReads(m) \/ ClientReads(m) PROVE Next
  BY <1>4, Wiring DEF ServerReads, ClientReads, Next
<1>5. CASE ServerTimesOut
  BY <1>5, Wiring DEF ServerTimesOut, Next
<1>6. CASE ClientWrites
  BY <1>6, Wiring DEF ClientWrites, Next
<1> QED BY <1>1, <1>2, <1>3, <1>4, <1>5, <1>6 DEF ReplicationNext

(* The packets in flight are the last ones transmitted. *)
LEMMA Flight ==
  ASSUME ReplicationInv
  PROVE  /\ FirstInFlight(server) \in Nat
         /\ Len(inFlightPackets[server]) \in Nat
         /\ Len(transmissions) \in Nat
         /\ Len(transmissions) = dispatchedPacketCount[server]
         /\ FirstInFlight(server) + Len(inFlightPackets[server]) = Len(transmissions)
         /\ Settled
         /\ CommandsInv(commands, FirstInFlight(server), confirmed[server])
<1>1. TypeOK /\ Accounting /\ ReplicationTypeOK
  BY DEF ReplicationInv, Inv
<1>2. /\ FirstInFlight(server) \in Nat /\ Len(inFlightPackets[server]) \in Nat
      /\ Len(transmissions) = dispatchedPacketCount[server]
      /\ dispatchedPacketCount[server] \in Nat
  BY <1>1, Wiring, Types DEF ReplicationTypeOK
<1>3. FirstInFlight(server) + Len(inFlightPackets[server]) = dispatchedPacketCount[server]
  BY <1>1, Wiring DEF Accounting, FirstInFlight
<1>4. Settled
  BY DEF Settled, ReplicationInv, ObjectInv
<1>5. CommandsInv(commands, FirstInFlight(server), confirmed[server])
  <2>1. \A n \in NetworkId :
          CommandInv(commands[n], FirstInFlight(server), confirmed[server], n)
    BY DEF ReplicationInv, ObjectInv
  <2>2. commands \in [NetworkId -> Command \cup {Absent}]
    BY <1>1 DEF ReplicationTypeOK
  <2>3. \A n \in NetworkId : commands[n] \in SoundCommand \cup {Absent}
    BY <2>1 DEF CommandInv
  <2>4. commands \in CommandMap
    BY <2>2, <2>3 DEF CommandMap
  <2> QED BY <2>1, <2>4 DEF CommandsInv
<1> QED BY <1>2, <1>3, <1>4, <1>5

---------------------------------------------------------------------------
(* The invariant, action by action.  Inv' comes from the delivery managers. *)

(* An object that a step does not touch, while nothing is sent or reported.  *)
LEMMA Untouched ==
  ASSUME UNCHANGED <<transmissions, confirmed, counts>>,
         NEW n, object'[n] = object[n], commands'[n] = commands[n], ObjectInv(n)
  PROVE  ObjectInv(n)'
BY DEF ObjectInv, CommandInv, RegisteredInv, GoneInv, TransmissionsInv, From, Carries, Sent,
       FirstInFlight, counts

(* The game only touches objects and commands. *)
LEMMA GameSteps ==
  ASSUME ReplicationInv, Inv', UNCHANGED <<vars, transmissions, replica>>,
         object' \in [NetworkId -> {"new", "registered", "gone"}],
         commands' \in CommandMap,
         \A n \in NetworkId : ObjectInv(n)'
  PROVE  ReplicationInv'
<1>1. ReplicationTypeOK'
  <2>1. SoundCommand \subseteq Command
    BY DEF SoundCommand, Command
  <2>2. commands' \in [NetworkId -> Command \cup {Absent}]
    BY <2>1 DEF CommandMap
  <2> QED BY <2>2 DEF ReplicationInv, ReplicationTypeOK, Inv, vars
<1>2. (confirmed[server] \subseteq 0 .. FirstInFlight(server) - 1)'
  BY DEF ReplicationInv, vars, counts, FirstInFlight
<1>3. (NotWrapped(server) => \A n \in NetworkId : ReplicaInv(n))'
  BY DEF ReplicationInv, NotWrapped, ReplicaInv, Accepted, Sent, Carries, vars
<1> QED BY <1>1, <1>2, <1>3 DEF ReplicationInv

LEMMA CreateObjectKeeps ==
  ASSUME ReplicationInv, Inv', NEW n \in NetworkId, CreateObject(n)
  PROVE  ReplicationInv'
<1>1. /\ commands \in CommandMap
      /\ object \in [NetworkId -> {"new", "registered", "gone"}]
      /\ UNCHANGED <<vars, transmissions, replica>>
      /\ object[n] = "new"
  BY Flight DEF CommandsInv, ReplicationInv, ReplicationTypeOK, CreateObject
<1>2. object' = [object EXCEPT ![n] = "registered"]
  BY DEF CreateObject
<1>3. commands' = [commands EXCEPT ![n] = [action |-> "RA_Create", dirtyState |-> StateBit]]
  BY DEF CreateObject, ReplicateCreate
<1>4. [action |-> "RA_Create", dirtyState |-> StateBit] \in SoundCommand
  BY DEF SoundCommand, ReplicationAction
<1>5. commands' \in CommandMap /\ object' \in [NetworkId -> {"new", "registered", "gone"}]
  BY <1>1, <1>2, <1>3, <1>4 DEF CommandMap
<1>6. ASSUME NEW x \in NetworkId, x # n PROVE ObjectInv(x)'
  <2>1. object'[x] = object[x] /\ commands'[x] = commands[x]
    BY <1>1, <1>2, <1>3, <1>6 DEF CommandMap
  <2> QED BY <1>1, <1>6, <2>1, Untouched DEF ReplicationInv, vars
<1>7. ObjectInv(n)'
  <2>1. /\ object'[n] = "registered"
        /\ commands'[n] \in SoundCommand
        /\ commands'[n].action = "RA_Create" /\ commands'[n].dirtyState # {}
    BY <1>1, <1>2, <1>3, <1>4, ClientProxyWiring DEF CommandMap
  <2>2. RegisteredInv(commands[n], FirstInFlight(server), confirmed[server], n)'
    BY <2>1, SoundIsPresent DEF RegisteredInv
  <2>3. CommandInv(commands[n], FirstInFlight(server), confirmed[server], n)'
    BY <2>1, <2>2 DEF CommandInv
  <2>4. \A i \in From(0) : Sent(i, n) = Nothing
    BY <1>1 DEF ReplicationInv, ObjectInv, TransmissionsInv
  <2>5. (\A i \in From(0) : Sent(i, n) = Nothing)'
    BY <1>1, <2>4 DEF From, Sent
  <2>6. TransmissionsInv(n)'
    BY <2>5 DEF TransmissionsInv, Carries
  <2> QED BY <2>3, <2>6 DEF ObjectInv
<1> QED BY <1>1, <1>5, <1>6, <1>7, GameSteps

LEMMA DestroyObjectKeeps ==
  ASSUME ReplicationInv, Inv', NEW n \in NetworkId, DestroyObject(n)
  PROVE  ReplicationInv'
<1>1. /\ commands \in CommandMap
      /\ object \in [NetworkId -> {"new", "registered", "gone"}]
      /\ UNCHANGED <<vars, transmissions, replica>>
      /\ object[n] = "registered"
      /\ TransmissionsInv(n)
      /\ RegisteredInv(commands[n], FirstInFlight(server), confirmed[server], n)
  BY Flight DEF CommandsInv, ReplicationInv, ReplicationTypeOK, DestroyObject, ObjectInv, CommandInv
<1>2. object' = [object EXCEPT ![n] = "gone"]
  BY DEF DestroyObject
<1>3. commands[n] \in SoundCommand /\ commands[n] # Absent
  BY <1>1 DEF RegisteredInv, CommandMap
<1>4. commands' = [commands EXCEPT ![n] = [commands[n] EXCEPT !.action = "RA_Destroy"]]
  BY <1>3 DEF DestroyObject, ReplicateDestroy, At
<1>5. /\ [commands[n] EXCEPT !.action = "RA_Destroy"] \in SoundCommand
      /\ [commands[n] EXCEPT !.action = "RA_Destroy"].action = "RA_Destroy"
  BY <1>3 DEF SoundCommand, ReplicationAction
<1>6. commands' \in CommandMap /\ object' \in [NetworkId -> {"new", "registered", "gone"}]
  BY <1>1, <1>2, <1>4, <1>5 DEF CommandMap
<1>7. ASSUME NEW x \in NetworkId, x # n PROVE ObjectInv(x)'
  <2>1. object'[x] = object[x] /\ commands'[x] = commands[x]
    BY <1>1, <1>2, <1>4, <1>7 DEF CommandMap
  <2> QED BY <1>1, <1>7, <2>1, Untouched DEF ReplicationInv, vars
<1>8. ObjectInv(n)'
  <2>1. /\ object'[n] = "gone"
        /\ commands'[n] \in SoundCommand
        /\ commands'[n].action = "RA_Destroy"
    BY <1>1, <1>2, <1>4, <1>5 DEF CommandMap
  <2>2. \A i \in From(0) : ~Carries(i, n, "RA_Destroy")
    BY <1>1 DEF TransmissionsInv
  <2>3. (\A i \in From(0) : ~Carries(i, n, "RA_Destroy"))'
    BY <1>1, <2>2 DEF From, Sent, Carries
  <2>4. From(FirstInFlight(server))' \subseteq From(0)'
    <3>1. FirstInFlight(server)' \in Nat
      BY <1>1, Flight DEF vars, counts, FirstInFlight
    <3>2. Len(transmissions)' \in Nat
      BY <1>1, Flight
    <3> QED BY <3>1, <3>2 DEF From
  <2>5. GoneInv(commands[n], FirstInFlight(server), confirmed[server], n)'
    BY <2>1, <2>3, <2>4, SoundIsPresent DEF GoneInv
  <2>6. CommandInv(commands[n], FirstInFlight(server), confirmed[server], n)'
    BY <2>1, <2>5 DEF CommandInv
  <2>7. TransmissionsInv(n)'
    BY <1>1, <2>1, <2>3 DEF TransmissionsInv, Carries, Sent, From, vars
  <2> QED BY <2>6, <2>7 DEF ObjectInv
<1> QED BY <1>1, <1>6, <1>7, <1>8, GameSteps

LEMMA SetStateDirtyKeeps ==
  ASSUME ReplicationInv, Inv', NEW n \in NetworkId, NEW b \in StateBit, SetStateDirty(n, b)
  PROVE  ReplicationInv'
<1>1. /\ commands \in CommandMap
      /\ object \in [NetworkId -> {"new", "registered", "gone"}]
      /\ UNCHANGED <<vars, object, transmissions, replica>>
      /\ object[n] = "registered"
      /\ TransmissionsInv(n)
      /\ RegisteredInv(commands[n], FirstInFlight(server), confirmed[server], n)
  BY Flight DEF CommandsInv, ReplicationInv, ReplicationTypeOK, SetStateDirty, ObjectInv, CommandInv
<1>2. commands[n] \in SoundCommand /\ commands[n] # Absent
  BY <1>1 DEF RegisteredInv, CommandMap
<1> DEFINE c == [commands[n] EXCEPT !.dirtyState = @ \cup {b}]
<1>3. commands' = [commands EXCEPT ![n] = c]
  BY <1>2 DEF SetStateDirty, AddDirtyState, At
<1>4. /\ c \in SoundCommand /\ c.action = commands[n].action
      /\ commands[n].dirtyState \subseteq c.dirtyState
  BY <1>2 DEF SoundCommand
<1> HIDE DEF c
<1>5. commands' \in CommandMap /\ object' \in [NetworkId -> {"new", "registered", "gone"}]
  BY <1>1, <1>3, <1>4 DEF CommandMap
<1>6. ASSUME NEW x \in NetworkId, x # n PROVE ObjectInv(x)'
  <2>1. object'[x] = object[x] /\ commands'[x] = commands[x]
    BY <1>1, <1>3, <1>6 DEF CommandMap
  <2> QED BY <1>1, <1>6, <2>1, Untouched DEF ReplicationInv, vars
<1>7. ObjectInv(n)'
  <2>1. object'[n] = "registered" /\ commands'[n] = c
    BY <1>1, <1>3 DEF CommandMap
  <2>2. RegisteredInv(c, FirstInFlight(server), confirmed[server], n)
    BY <1>1, <1>4, SoundIsPresent DEF RegisteredInv
  <2>3. RegisteredInv(commands[n], FirstInFlight(server), confirmed[server], n)'
    BY <1>1, <2>1, <2>2 DEF RegisteredInv, From, Carries, Sent, FirstInFlight, vars, counts
  <2>4. CommandInv(commands[n], FirstInFlight(server), confirmed[server], n)'
    BY <1>4, <2>1, <2>3 DEF CommandInv
  <2>5. TransmissionsInv(n)'
    BY <1>1 DEF TransmissionsInv, Carries, Sent, From, vars
  <2> QED BY <2>4, <2>5 DEF ObjectInv
<1> QED BY <1>1, <1>5, <1>6, <1>7, GameSteps

---------------------------------------------------------------------------
(* Sending. *)

\* Packet number sent is written: what the earlier ones carried of n, and what
\* was reported of them, does not change.
NewPacket(sent, n) ==
  /\ sent \in Nat /\ Len(transmissions) = sent /\ Len(transmissions') = sent + 1
  /\ \A i \in 0 .. sent - 1 : Sent(i, n)' = Sent(i, n)
  /\ FirstInFlight(server) \in 0 .. sent
  /\ confirmed[server] \subseteq 0 .. FirstInFlight(server) - 1
  /\ UNCHANGED <<object, confirmed, counts>>

LEMMA NewPacketExtends ==
  ASSUME NEW sent, NEW n, NewPacket(sent, n)
  PROVE  /\ \A k \in 0 .. sent : From(k)' = From(k) \cup {sent}
         /\ From(sent + 1)' = {}
         /\ \A k \in Nat : From(k) \subseteq 0 .. sent - 1
         /\ \A i \in 0 .. sent - 1, a \in ReplicationAction :
              Carries(i, n, a)' = Carries(i, n, a)
         /\ FirstInFlight(server)' = FirstInFlight(server)
         /\ FirstInFlight(server) \in 0 .. sent
         /\ \A i \in confirmed[server] : i \in 0 .. sent - 1
         /\ confirmed'[server] = confirmed[server] /\ object'[n] = object[n]
<1>1. ASSUME NEW k \in 0 .. sent PROVE From(k)' = From(k) \cup {sent}
  BY DEF NewPacket, From
<1>2. From(sent + 1)' = {}
  BY DEF NewPacket, From
<1>3. \A k \in Nat : From(k) \subseteq 0 .. sent - 1
  BY DEF NewPacket, From
<1>4. ASSUME NEW i \in 0 .. sent - 1, NEW a \in ReplicationAction
      PROVE  Carries(i, n, a)' = Carries(i, n, a)
  <2>1. Sent(i, n)' = Sent(i, n)
    BY DEF NewPacket
  <2> QED BY <2>1 DEF Carries
<1>5. FirstInFlight(server)' = FirstInFlight(server)
  BY DEF NewPacket, FirstInFlight, counts
<1> QED BY <1>1, <1>2, <1>3, <1>4, <1>5 DEF NewPacket

\* Transmissions that carry nothing more of n, or what its command asks for.
LEMMA NothingSent ==
  ASSUME NEW sent, NEW n \in NetworkId, NewPacket(sent, n), ObjectInv(n),
         Sent(sent, n)' = Nothing, commands'[n] = commands[n]
  PROVE  ObjectInv(n)'
<1> DEFINE c == commands[n]
           k == FirstInFlight(server)
           D == confirmed[server]
<1>1. /\ k' = k /\ D' = D /\ c' = c /\ object'[n] = object[n]
      /\ From(k)' = From(k) \cup {sent} /\ From(k) \subseteq 0 .. sent - 1
      /\ From(0)' = From(0) \cup {sent} /\ From(0) \subseteq 0 .. sent - 1
      /\ k \in Nat /\ D \subseteq 0 .. sent - 1
  <2>1. FirstInFlight(server)' = FirstInFlight(server) /\ FirstInFlight(server) \in 0 .. sent
    BY NewPacketExtends
  <2>2. (From(FirstInFlight(server)))' = From(FirstInFlight(server)) \cup {sent}
    BY <2>1 DEF NewPacket, From
  <2>3. 0 \in 0 .. sent /\ FirstInFlight(server) \in Nat
    BY <2>1 DEF NewPacket
  <2> QED BY <2>1, <2>2, <2>3, NewPacketExtends
<1>2. \A i \in 0 .. sent - 1 : Sent(i, n)' = Sent(i, n)
  BY DEF NewPacket
<1>3. \A i \in 0 .. sent - 1, a \in ReplicationAction : Carries(i, n, a)' = Carries(i, n, a)
  BY NewPacketExtends
<1>4. \A a : ~Carries(sent, n, a)'
  BY DEF Carries
<1>5. CommandInv(c, k, D, n)
  BY DEF ObjectInv
<1>6. RegisteredInv(c, k, D, n) => RegisteredInv(c, k, D, n)'
  <2> SUFFICES ASSUME RegisteredInv(c, k, D, n) PROVE RegisteredInv(c, k, D, n)'
    OBVIOUS
  <2>1. c.action = "RA_Update" => (\E i \in D : Carries(i, n, "RA_Create"))'
    BY <1>1, <1>3 DEF RegisteredInv, ReplicationAction
  <2>2. (\E i \in From(k) \cup D : Carries(i, n, "RA_Create"))
          => (\E i \in From(k) \cup D : Carries(i, n, "RA_Create"))'
    BY <1>1, <1>3 DEF ReplicationAction
  <2> HIDE DEF c, k, D
  <2> QED BY <1>1, <2>1, <2>2 DEF RegisteredInv
<1>7. GoneInv(c, k, D, n) => GoneInv(c, k, D, n)'
  <2>1. ASSUME c # Absent, c.action = "RA_Destroy", \A i \in From(k) : ~Carries(i, n, "RA_Destroy")
        PROVE  GoneInv(c, k, D, n)'
    <3>1. (\A i \in From(k) : ~Carries(i, n, "RA_Destroy"))'
      BY <1>1, <1>3, <1>4, <2>1 DEF ReplicationAction
    <3> HIDE DEF c, k, D
    <3> QED BY <1>1, <2>1, <3>1 DEF GoneInv
  <2>2. ASSUME c = Absent, \A i \in From(k) : Sent(i, n) = Nothing,
               \E i \in D : Carries(i, n, "RA_Destroy")
        PROVE  GoneInv(c, k, D, n)'
    <3>1. (\A i \in From(k) : Sent(i, n) = Nothing)'
      BY <1>1, <1>2, <2>2
    <3>2. (\E i \in D : Carries(i, n, "RA_Destroy"))'
      BY <1>1, <1>3, <2>2 DEF ReplicationAction
    <3> HIDE DEF c, k, D
    <3> QED BY <1>1, <2>2, <3>1, <3>2 DEF GoneInv
  <2>3. ASSUME c # Absent, c.action = "RA_Update", c.dirtyState = {},
               NEW j \in From(k), Carries(j, n, "RA_Destroy"),
               \A i \in k .. j - 1 : ~Carries(i, n, "RA_Destroy"),
               \A i \in From(j + 1) : Sent(i, n) = Nothing
        PROVE  GoneInv(c, k, D, n)'
    <3>1. /\ j \in 0 .. sent - 1 /\ j \in From(k)' /\ Carries(j, n, "RA_Destroy")'
          /\ From(j + 1)' = From(j + 1) \cup {sent} /\ From(j + 1) \subseteq 0 .. sent - 1
      <4>1. j \in 0 .. sent - 1 /\ j + 1 \in 0 .. sent /\ j + 1 \in Nat
        BY <1>1, <2>3 DEF NewPacket
      <4> QED BY <1>1, <1>3, <2>3, <4>1, NewPacketExtends DEF ReplicationAction
    <3>2. \A i \in k .. j - 1 : i \in 0 .. sent - 1
      <4>1. k \in Nat /\ j \in Nat /\ j <= sent - 1 /\ sent \in Nat
        BY <1>1, <3>1 DEF NewPacket
      <4> HIDE DEF k
      <4> QED BY <4>1
    <3>3. (\A i \in k .. j - 1 : ~Carries(i, n, "RA_Destroy"))'
      BY <1>1, <1>3, <2>3, <3>2 DEF ReplicationAction
    <3>4. (\A i \in From(j + 1) : Sent(i, n) = Nothing)'
      BY <1>2, <2>3, <3>1
    <3> HIDE DEF c, k, D
    <3> QED BY <1>1, <2>3, <3>1, <3>3, <3>4 DEF GoneInv
  <2> HIDE DEF c, k, D
  <2> QED BY <2>1, <2>2, <2>3 DEF GoneInv
<1>8. CommandInv(c, k, D, n)'
  <2> HIDE DEF c, k, D
  <2> QED BY <1>1, <1>5, <1>6, <1>7 DEF CommandInv
<1>9. TransmissionsInv(n)'
  <2>1. TransmissionsInv(n)
    BY DEF ObjectInv
  <2>2. (\A i \in From(0) : Sent(i, n) # Nothing => object[n] # "new")'
    BY <1>1, <1>2, <2>1 DEF TransmissionsInv
  <2>3. ASSUME NEW i \in From(0)', Carries(i, n, "RA_Destroy")'
        PROVE  /\ object'[n] = "gone"
               /\ (\A j \in From(i + 1) : Sent(j, n) # Nothing => Carries(j, n, "RA_Destroy"))'
    <3>1. i \in From(0) /\ i \in 0 .. sent - 1 /\ Carries(i, n, "RA_Destroy")
      BY <1>1, <1>3, <1>4, <2>3 DEF ReplicationAction
    <3>2. From(i + 1)' = From(i + 1) \cup {sent} /\ From(i + 1) \subseteq 0 .. sent - 1
      <4>1. i + 1 \in 0 .. sent /\ i + 1 \in Nat
        BY <3>1 DEF NewPacket
      <4> QED BY <4>1, NewPacketExtends
    <3>3. \A j \in From(i + 1) : Sent(j, n) # Nothing => Carries(j, n, "RA_Destroy")
      BY <2>1, <3>1 DEF TransmissionsInv
    <3> QED BY <1>1, <1>2, <1>3, <2>1, <3>1, <3>2, <3>3 DEF TransmissionsInv, ReplicationAction
  <2>4. ASSUME NEW i \in From(0)', Carries(i, n, "RA_Update")'
        PROVE  (\E j \in D : j < i /\ Carries(j, n, "RA_Create"))'
    <3>1. i \in From(0) /\ Carries(i, n, "RA_Update")
      BY <1>1, <1>3, <1>4, <2>4 DEF ReplicationAction
    <3>2. \E j \in D : j < i /\ Carries(j, n, "RA_Create")
      BY <2>1, <3>1 DEF TransmissionsInv
    <3> QED BY <1>1, <1>3, <3>2 DEF ReplicationAction
  <2> QED BY <2>2, <2>3, <2>4 DEF TransmissionsInv
<1> QED BY <1>8, <1>9 DEF ObjectInv

LEMMA CommandSent ==
  ASSUME NEW sent, NEW n \in NetworkId, NewPacket(sent, n), ObjectInv(n),
         object[n] \in {"new", "registered", "gone"},
         HasDirtyState(commands[n]), NEW written \in WritableState(n),
         Sent(sent, n)' = [action |-> commands[n].action, state |-> written],
         Sent(sent, n)' \in Transmission, Nothing \notin Transmission,
         commands'[n] = ClearDirtyState(commands[n], written)
  PROVE  ObjectInv(n)'
<1> DEFINE c == commands[n]
           d == commands'[n]
           k == FirstInFlight(server)
           D == confirmed[server]
<1>1. /\ k' = k /\ D' = D /\ object'[n] = object[n] /\ k \in 0 .. sent /\ k \in Nat
      /\ From(k)' = From(k) \cup {sent} /\ From(k) \subseteq 0 .. sent - 1
      /\ From(0)' = From(0) \cup {sent} /\ From(0) \subseteq 0 .. sent - 1
      /\ From(sent + 1)' = {} /\ sent \in Nat
      /\ D \subseteq 0 .. sent - 1
  <2>1. FirstInFlight(server)' = FirstInFlight(server) /\ FirstInFlight(server) \in 0 .. sent
    BY NewPacketExtends
  <2>2. (From(FirstInFlight(server)))' = From(FirstInFlight(server)) \cup {sent}
    BY <2>1 DEF NewPacket, From
  <2>3. 0 \in 0 .. sent /\ FirstInFlight(server) \in Nat /\ sent \in Nat
    BY <2>1 DEF NewPacket
  <2> QED BY <2>1, <2>2, <2>3, NewPacketExtends
<1>2. \A i \in 0 .. sent - 1 : Sent(i, n)' = Sent(i, n)
  BY DEF NewPacket
<1>3. \A i \in 0 .. sent - 1, a \in ReplicationAction : Carries(i, n, a)' = Carries(i, n, a)
  BY NewPacketExtends
<1>4. Sent(sent, n)' # Nothing
  OBVIOUS
<1>5. \A a : Carries(sent, n, a)' <=> c.action = a
  BY <1>4 DEF Carries
<1>6. CommandInv(c, k, D, n) /\ TransmissionsInv(n)
  BY DEF ObjectInv
<1>7. /\ c \in SoundCommand /\ c # Absent
      /\ d = [action |-> IF c.action = "RA_Destroy" THEN "RA_Update" ELSE c.action,
              dirtyState |-> c.dirtyState \ written]
      /\ d.action = IF c.action = "RA_Destroy" THEN "RA_Update" ELSE c.action
      /\ d.dirtyState = c.dirtyState \ written
      /\ d \in SoundCommand /\ d # Absent
  <2>1. c \in SoundCommand /\ c # Absent
    BY <1>6 DEF HasDirtyState, CommandInv
  <2>2. d = [action |-> IF c.action = "RA_Destroy" THEN "RA_Update" ELSE c.action,
             dirtyState |-> c.dirtyState \ written]
    BY DEF ClearDirtyState
  <2>3. d \in SoundCommand
    BY <2>1, <2>2 DEF SoundCommand, ReplicationAction
  <2>4. d # Absent
    BY <2>3, SoundIsPresent
  <2> QED BY <2>1, <2>2, <2>3, <2>4
<1>8. CASE object[n] = "registered"
  <2>1. RegisteredInv(c, k, D, n)
    BY <1>6, <1>8 DEF CommandInv
  <2>2. d.action = c.action /\ c.action # "RA_Destroy"
    BY <1>7, <2>1 DEF RegisteredInv
  <2>3. c.action = "RA_Update" => \E i \in D : Carries(i, n, "RA_Create")
    BY <2>1 DEF RegisteredInv
  <2>4. c.action = "RA_Update" => (\E i \in D : Carries(i, n, "RA_Create"))'
    BY <1>1, <1>3, <2>3 DEF ReplicationAction
  <2>5. c.action = "RA_Update" \/ c.action = "RA_Create"
    BY <1>7, <2>2 DEF SoundCommand, ReplicationAction
  <2>6. (\E i \in From(k) \cup D : Carries(i, n, "RA_Create"))'
    <3>1. CASE c.action = "RA_Update"
      BY <2>4, <3>1
    <3>2. CASE c.action = "RA_Create"
      BY <1>1, <1>5, <3>2
    <3> QED BY <2>5, <3>1, <3>2
  <2>7. RegisteredInv(c, k, D, n)'
    <3>1. d # Absent /\ d.action # "RA_Destroy"
      BY <1>7, <2>2
    <3>2. d.action = "RA_Update" => (\E i \in D : Carries(i, n, "RA_Create"))'
      BY <2>2, <2>4
    <3> HIDE DEF k, D
    <3> QED BY <2>6, <3>1, <3>2 DEF RegisteredInv
  <2>8. CommandInv(c, k, D, n)'
    <3> HIDE DEF k, D
    <3> QED BY <1>1, <1>7, <1>8, <2>7 DEF CommandInv
  <2>9. (\A i \in From(0) : Sent(i, n) # Nothing => object[n] # "new")'
    BY <1>1, <1>8
  <2>10. \A i \in From(0)' : ~Carries(i, n, "RA_Destroy")'
    <3>1. \A i \in From(0) : ~Carries(i, n, "RA_Destroy")
      BY <1>6, <1>8 DEF TransmissionsInv
    <3> QED BY <1>1, <1>3, <1>5, <2>2, <3>1 DEF ReplicationAction
  <2>11. ASSUME NEW i \in From(0)', Carries(i, n, "RA_Update")'
         PROVE  (\E j \in D : j < i /\ Carries(j, n, "RA_Create"))'
    <3>1. CASE i = sent
      <4>1. PICK j \in D : Carries(j, n, "RA_Create")
        BY <1>5, <2>3, <2>11, <3>1
      <4>2. j \in 0 .. sent - 1 /\ Carries(j, n, "RA_Create")'
        BY <1>1, <1>3, <4>1 DEF ReplicationAction
      <4> QED BY <1>1, <3>1, <4>1, <4>2
    <3>2. CASE i # sent
      <4>1. i \in From(0) /\ Carries(i, n, "RA_Update")
        BY <1>1, <1>3, <2>11, <3>2 DEF ReplicationAction
      <4>2. \E j \in D : j < i /\ Carries(j, n, "RA_Create")
        BY <1>6, <4>1 DEF TransmissionsInv
      <4> QED BY <1>1, <1>3, <4>2 DEF ReplicationAction
    <3> QED BY <3>1, <3>2
  <2>12. TransmissionsInv(n)'
    BY <2>9, <2>10, <2>11 DEF TransmissionsInv
  <2> QED BY <2>8, <2>12 DEF ObjectInv
<1>9. CASE object[n] = "gone"
  <2>1. GoneInv(c, k, D, n)
    BY <1>6, <1>9 DEF CommandInv
  <2>2. c.action = "RA_Destroy" /\ \A i \in From(k) : ~Carries(i, n, "RA_Destroy")
    BY <1>7, <2>1 DEF GoneInv, HasDirtyState
  <2>3. d.action = "RA_Update" /\ d.dirtyState = {}
    <3>1. written = c.dirtyState
      BY <2>2 DEF WritableState
    <3> QED BY <1>7, <2>2, <3>1
  <2>4. sent \in From(k)' /\ Carries(sent, n, "RA_Destroy")'
    BY <1>1, <1>5, <2>2
  <2>5. (\A i \in k .. sent - 1 : ~Carries(i, n, "RA_Destroy"))'
    <3>1. \A i \in k .. sent - 1 : i \in From(k) /\ i \in 0 .. sent - 1
      BY <1>1 DEF From, NewPacket
    <3> QED BY <1>1, <1>3, <2>2, <3>1 DEF ReplicationAction
  <2>6. GoneInv(c, k, D, n)'
    <3>1. (\A i \in From(sent + 1) : Sent(i, n) = Nothing)'
      BY <1>1
    <3>2. d # Absent
      BY <1>7
    <3> HIDE DEF k, D
    <3> QED BY <2>3, <2>4, <2>5, <3>1, <3>2 DEF GoneInv
  <2>7. CommandInv(c, k, D, n)'
    <3> HIDE DEF k, D
    <3> QED BY <1>1, <1>7, <1>9, <2>6 DEF CommandInv
  <2>8. (\A i \in From(0) : Sent(i, n) # Nothing => object[n] # "new")'
    BY <1>1, <1>9
  <2>9. ASSUME NEW i \in From(0)', Carries(i, n, "RA_Destroy")'
        PROVE  (\A j \in From(i + 1) : Sent(j, n) # Nothing => Carries(j, n, "RA_Destroy"))'
    <3>1. CASE i = sent
      BY <1>1, <3>1
    <3>2. CASE i # sent
      <4>1. i \in From(0) /\ i \in 0 .. sent - 1 /\ Carries(i, n, "RA_Destroy")
        BY <1>1, <1>3, <2>9, <3>2 DEF ReplicationAction
      <4>2. From(i + 1)' = From(i + 1) \cup {sent} /\ From(i + 1) \subseteq 0 .. sent - 1
        <5>1. i + 1 \in 0 .. sent /\ i + 1 \in Nat
          BY <4>1 DEF NewPacket
        <5> QED BY <5>1, NewPacketExtends
      <4>3. \A j \in From(i + 1) : Sent(j, n) # Nothing => Carries(j, n, "RA_Destroy")
        BY <1>6, <4>1 DEF TransmissionsInv
      <4> QED BY <1>2, <1>3, <2>4, <4>2, <4>3 DEF ReplicationAction
    <3> QED BY <3>1, <3>2
  <2>10. ASSUME NEW i \in From(0)', Carries(i, n, "RA_Update")'
         PROVE  (\E j \in D : j < i /\ Carries(j, n, "RA_Create"))'
    <3>1. i # sent
      BY <1>5, <2>2, <2>10
    <3>2. i \in From(0) /\ Carries(i, n, "RA_Update")
      BY <1>1, <1>3, <2>10, <3>1 DEF ReplicationAction
    <3>3. \E j \in D : j < i /\ Carries(j, n, "RA_Create")
      BY <1>6, <3>2 DEF TransmissionsInv
    <3> QED BY <1>1, <1>3, <3>3 DEF ReplicationAction
  <2>11. TransmissionsInv(n)'
    BY <1>1, <1>9, <2>8, <2>9, <2>10 DEF TransmissionsInv
  <2> QED BY <2>7, <2>11 DEF ObjectInv
<1>10. object[n] # "new"
  BY <1>6, <1>7 DEF CommandInv
<1> QED BY <1>8, <1>9, <1>10

(* Until the server's numbers wrap, the client accepts what was sent.        *)
LEMMA AcceptedBelow ==
  ASSUME Inv, NotWrapped(server)
  PROVE  /\ \A x \in Accepted(client) : x \in Nat /\ x < nextExpectedSequenceNumber[client]
         /\ nextExpectedSequenceNumber[client] \in Nat
         /\ nextExpectedSequenceNumber[client] <= dispatchedPacketCount[server]
         /\ dispatchedPacketCount[server] \in Nat
         /\ confirmed[server] \subseteq Accepted(client)
<1>1. TypeOK /\ PeerInv(server)
  BY Wiring DEF Inv
<1>2. AcceptedInv(server) /\ confirmed[server] \subseteq Accepted(client)
  BY <1>1, Wiring DEF PeerInv
<1>3. /\ nextExpectedSequenceNumber[client] \in Nat /\ dispatchedPacketCount[server] \in Nat
      /\ \A i \in 1 .. Len(accepted[client]) : accepted[client][i] \in Nat
  BY <1>1, Wiring, Types
<1> QED BY <1>2, <1>3, Wiring DEF AcceptedInv, Accepted

LEMMA SendStatePacketKeeps ==
  ASSUME ReplicationInv, Inv', SendStatePacketToClient
  PROVE  ReplicationInv'
<1> DEFINE Map == [NetworkId -> Transmission \cup {Nothing}]
           dirty == {n \in NetworkId : HasDirtyState(commands[n])}
<1>1. PICK sent \in Nat : sent = Len(transmissions)
  BY Flight
<1>2. PICK written \in [dirty -> SUBSET (StateBit \cup {Indeterminate})] :
        /\ \A n \in dirty : written[n] \in WritableState(n)
        /\ transmissions' = Append(transmissions,
             [n \in NetworkId |->
                IF n \in dirty
                THEN [action |-> commands[n].action, state |-> written[n]]
                ELSE Nothing])
        /\ commands' = [n \in NetworkId |->
             IF n \in dirty THEN ClearDirtyState(commands[n], written[n]) ELSE commands[n]]
  BY DEF SendStatePacketToClient
<1>3. /\ UNCHANGED <<object, replica, counts, accepted, confirmed>>
      /\ dispatchedPacketCount' = [dispatchedPacketCount EXCEPT ![server] = @ + 1]
      /\ TypeOK /\ ReplicationTypeOK /\ TypeOK'
  BY DEF SendStatePacketToClient, WriteState, ReplicationInv, Inv
<1>4. /\ dispatchedPacketCount[server] = sent /\ dispatchedPacketCount'[server] = sent + 1
      /\ FirstInFlight(server) \in 0 .. sent
      /\ confirmed[server] \subseteq 0 .. FirstInFlight(server) - 1
      /\ \A n \in NetworkId : ObjectInv(n) /\ commands[n] \in SoundCommand \cup {Absent}
  <2>1. /\ FirstInFlight(server) \in Nat /\ Len(inFlightPackets[server]) \in Nat
        /\ dispatchedPacketCount[server] = sent
        /\ FirstInFlight(server) + Len(inFlightPackets[server]) = sent
        /\ commands \in CommandMap
    BY <1>1, Flight DEF CommandsInv
  <2>2. dispatchedPacketCount'[server] = sent + 1
    BY <1>3, <2>1, Wiring DEF TypeOK
  <2>3. FirstInFlight(server) \in 0 .. sent
    BY <2>1
  <2> QED BY <2>1, <2>2, <2>3 DEF ReplicationInv, CommandMap
<1> DEFINE t == [n \in NetworkId |->
                   IF n \in dirty
                   THEN [action |-> commands[n].action, state |-> written[n]]
                   ELSE Nothing]
<1>5. ASSUME NEW n \in dirty
      PROVE  /\ [action |-> commands[n].action, state |-> written[n]] \in Transmission
             /\ ClearDirtyState(commands[n], written[n]) \in SoundCommand
  <2>1. commands[n] \in SoundCommand
    BY <1>4 DEF HasDirtyState
  <2>2. written[n] \subseteq commands[n].dirtyState
    BY <1>2 DEF WritableState
  <2>3. [action |-> commands[n].action, state |-> written[n]] \in Transmission
    BY <2>1, <2>2 DEF SoundCommand, Transmission
  <2>4. ClearDirtyState(commands[n], written[n]) \in SoundCommand
    BY <2>1 DEF SoundCommand, ClearDirtyState, ReplicationAction
  <2> QED BY <2>3, <2>4
<1>6. t \in Map /\ transmissions' = Append(transmissions, t)
  BY <1>2, <1>5
<1>7. transmissions \in Seq(Map)
  BY <1>3 DEF ReplicationTypeOK
<1>8. /\ transmissions' \in Seq(Map) /\ Len(transmissions') = sent + 1
      /\ \A i \in 1 .. sent : transmissions'[i] = transmissions[i]
      /\ transmissions'[sent + 1] = t
  <2> HIDE DEF t, Map
  <2> QED BY <1>1, <1>6, <1>7, AppendProperties
<1>9. commands' \in CommandMap
  BY <1>2, <1>4, <1>5 DEF CommandMap
<1>10. ReplicationTypeOK'
  <2>1. SoundCommand \subseteq Command
    BY DEF SoundCommand, Command
  <2>2. commands' \in [NetworkId -> Command \cup {Absent}]
    BY <1>9, <2>1 DEF CommandMap
  <2> QED BY <1>3, <1>4, <1>8, <2>2 DEF ReplicationTypeOK
<1>11. ASSUME NEW n \in NetworkId PROVE ObjectInv(n)'
  <2>1. Sent(sent, n)' = t[n] /\ \A i \in 0 .. sent - 1 : Sent(i, n)' = Sent(i, n)
    <3> HIDE DEF t
    <3>1. \A i \in 0 .. sent - 1 : i + 1 \in 1 .. sent
      BY <1>1
    <3> QED BY <1>8, <3>1 DEF Sent
  <2>2. NewPacket(sent, n)
    BY <1>1, <1>3, <1>4, <1>8, <2>1 DEF NewPacket
  <2>3. CASE n \in dirty
    <3>1. HasDirtyState(commands[n]) /\ written[n] \in WritableState(n)
      BY <1>2, <2>3
    <3>2. /\ Sent(sent, n)' = [action |-> commands[n].action, state |-> written[n]]
          /\ Sent(sent, n)' \in Transmission
          /\ commands'[n] = ClearDirtyState(commands[n], written[n])
      BY <1>2, <1>5, <2>1, <2>3
    <3>3. object[n] \in {"new", "registered", "gone"}
      BY <1>3 DEF ReplicationTypeOK
    <3> HIDE DEF t, dirty
    <3> QED BY <1>4, <2>2, <3>1, <3>2, <3>3, CommandSent, SentinelAssumption
  <2>4. CASE n \notin dirty
    <3>1. Sent(sent, n)' = Nothing /\ commands'[n] = commands[n]
      BY <1>2, <2>1, <2>4
    <3> HIDE DEF t, dirty
    <3> QED BY <1>4, <2>2, <3>1, NothingSent
  <2> QED BY <2>3, <2>4
<1>12. (confirmed[server] \subseteq 0 .. FirstInFlight(server) - 1)'
  BY <1>3, <1>4 DEF FirstInFlight, counts
<1>13. ASSUME NotWrapped(server)', NEW n \in NetworkId PROVE ReplicaInv(n)'
  <2>1. NotWrapped(server)
    BY <1>4, <1>13, NumberAssumption DEF NotWrapped
  <2>2. ReplicaInv(n)
    BY <2>1 DEF ReplicationInv
  <2>3. \A i \in Accepted(client) : i \in 0 .. sent - 1
    BY <1>4, <2>1, AcceptedBelow DEF ReplicationInv
  <2>4. \A i \in Accepted(client) : Sent(i, n)' = Sent(i, n)
    <3>1. \A i \in 0 .. sent - 1 : i + 1 \in 1 .. sent
      BY <1>1
    <3> QED BY <1>8, <2>3, <3>1 DEF Sent
  <2>5. Accepted(client)' = Accepted(client) /\ replica' = replica
    BY <1>3 DEF Accepted
  <2>6. (replica[n] = "unknown" => \A i \in Accepted(client) : Sent(i, n) = Nothing)'
    BY <2>2, <2>4, <2>5 DEF ReplicaInv
  <2>7. \A i \in Accepted(client) : Carries(i, n, "RA_Destroy")' <=> Carries(i, n, "RA_Destroy")
    BY <2>4 DEF Carries
  <2>8. (replica[n] = "destroyed" <=> \E i \in Accepted(client) : Carries(i, n, "RA_Destroy"))'
    BY <2>2, <2>5, <2>7 DEF ReplicaInv
  <2> QED BY <2>2, <2>5, <2>6, <2>8 DEF ReplicaInv
<1> QED BY <1>10, <1>11, <1>12, <1>13 DEF ReplicationInv

---------------------------------------------------------------------------
(* Reporting. *)

LEMMA ReportKeeps ==
  ASSUME ReplicationInv, Inv', NEW f \in Nat, NEW n \in Nat, NEW q, f <= n,
         n <= Len(inFlightPackets[server]), Report(server, f, n),
         UNCHANGED <<dispatchedPacketCount, object, transmissions, replica>>,
         accepted'[client] = accepted[client],
         commands' = Handled(f, n, q)
  PROVE  ReplicationInv'
<1> DEFINE first == FirstInFlight(server)
           more == confirmed'[server]
<1>1. /\ TypeOK /\ ReplicationTypeOK /\ Settled /\ first \in Nat /\ f \in 0 .. n
      /\ first + n <= Len(transmissions)
      /\ CommandsInv(commands, first, confirmed[server])
      /\ confirmed[server] \subseteq 0 .. first - 1
  BY Flight, SMTT(30) DEF ReplicationInv, Inv
<1>2. more = confirmed[server] \cup {first + i : i \in f .. n - 1}
  BY <1>1, Wiring DEF Report, TypeOK
<1>3. FirstInFlight(server)' = first + n
  <2>1. /\ droppedPacketCount'[server] = droppedPacketCount[server] + f
        /\ deliveredPacketCount'[server] = deliveredPacketCount[server] + (n - f)
        /\ droppedPacketCount[server] \in Nat /\ deliveredPacketCount[server] \in Nat
    BY <1>1, Wiring DEF Report, TypeOK
  <2> QED BY <2>1 DEF FirstInFlight
<1>4. CommandsInv(commands, first, more)
  <2> HIDE DEF first, more
  <2> QED BY <1>1, <1>2, MoreDelivered DEF CommandsInv
<1>5. \A i \in f .. n - 1 : first + i \in more
  BY <1>2
<1>6. CommandsInv(commands', first + n, more)
  <2> HIDE DEF more
  <2> QED BY <1>1, <1>4, <1>5, HandledKeeps
<1>7. ReplicationTypeOK'
  <2>1. SoundCommand \subseteq Command
    BY DEF SoundCommand, Command
  <2>2. commands' \in [NetworkId -> Command \cup {Absent}]
    BY <1>6, <2>1 DEF CommandsInv, CommandMap
  <2> QED BY <1>1, <2>2 DEF ReplicationTypeOK, Inv
<1>8. more \subseteq 0 .. (first + n) - 1
  <2> HIDE DEF first
  <2> QED BY <1>1, <1>2
<1>9. ASSUME NEW x \in NetworkId PROVE ObjectInv(x)'
  <2>1. CommandInv(commands'[x], first + n, more, x)
    BY <1>6 DEF CommandsInv
  <2>2. CommandInv(commands[x], FirstInFlight(server), confirmed[server], x)'
    <3> HIDE DEF first, more
    <3>1. CommandInv(commands'[x], FirstInFlight(server)', confirmed'[server], x)
      BY <1>3, <2>1 DEF more
    <3> QED BY <3>1 DEF CommandInv, RegisteredInv, GoneInv, From, Carries, Sent
  <2>3. TransmissionsInv(x) /\ confirmed[server] \subseteq confirmed'[server]
    BY <1>2 DEF ReplicationInv, ObjectInv
  <2>4. TransmissionsInv(x)'
    BY <2>3 DEF TransmissionsInv, From, Carries, Sent
  <2> QED BY <2>2, <2>4 DEF ObjectInv
<1>10. (NotWrapped(server) => \A x \in NetworkId : ReplicaInv(x))'
  BY DEF ReplicationInv, NotWrapped, ReplicaInv, Accepted, Sent, Carries
<1>11. (confirmed[server] \subseteq 0 .. FirstInFlight(server) - 1)'
  <2> HIDE DEF first
  <2> QED BY <1>3, <1>8
<1> QED BY <1>7, <1>9, <1>10, <1>11 DEF ReplicationInv

LEMMA NewlyReported ==
  ASSUME TypeOK, NEW f \in Nat, NEW n \in Nat, f <= n, Report(server, f, n)
  PROVE  NewlyDropped = f /\ NewlyDelivered = n - f
<1>1. /\ droppedPacketCount'[server] = droppedPacketCount[server] + f
      /\ deliveredPacketCount'[server] = deliveredPacketCount[server] + (n - f)
      /\ droppedPacketCount[server] \in Nat /\ deliveredPacketCount[server] \in Nat
  BY Wiring DEF Report, TypeOK
<1> QED BY <1>1 DEF NewlyDropped, NewlyDelivered

(* An acknowledgement makes failures of a front part of the deque and        *)
(* successes of the part behind it.                                          *)
LEMMA ServerReadsReports ==
  ASSUME TypeOK, NEW m \in network, ServerReads(m)
  PROVE  \E f, n \in Nat :
           /\ f <= n /\ n <= Len(inFlightPackets[server])
           /\ Report(server, f, n)
           /\ NewlyDropped = f /\ NewlyDelivered = n - f
           /\ commands' = Handled(f, n, 0)
           /\ accepted'[client] = accepted[client]
           /\ UNCHANGED <<dispatchedPacketCount, object, transmissions, replica>>
<1>1. ReadAndProcessState(server, m) /\ UNCHANGED <<object, transmissions, replica>>
      /\ commands' = Handled(NewlyDropped, NewlyDropped + NewlyDelivered, 0)
  BY DEF ServerReads
<1>2. PICK f, n \in 0 .. Len(inFlightPackets[server]) : f <= n /\ Report(server, f, n)
  BY <1>1, Wiring, ReadReports
<1>3. f \in Nat /\ n \in Nat /\ n <= Len(inFlightPackets[server])
  BY Wiring, Types
<1>4. NewlyDropped = f /\ NewlyDelivered = n - f
  BY <1>2, <1>3, NewlyReported
<1>5. NewlyDropped + NewlyDelivered = n
  BY <1>3, <1>4
<1>6. accepted'[client] = accepted[client]
  BY <1>1, Wiring DEF ReadAndProcessState, ProcessSequenceNumber, TypeOK
<1>7. UNCHANGED dispatchedPacketCount
  BY <1>1 DEF ReadAndProcessState
<1> QED BY <1>1, <1>2, <1>3, <1>4, <1>5, <1>6, <1>7

LEMMA ServerReadsKeeps ==
  ASSUME ReplicationInv, Inv', NEW m \in network, ServerReads(m)
  PROVE  ReplicationInv'
<1>1. TypeOK
  BY DEF ReplicationInv, Inv
<1> QED BY <1>1, ServerReadsReports, ReportKeeps

LEMMA ServerTimesOutKeeps ==
  ASSUME ReplicationInv, Inv', ServerTimesOut
  PROVE  ReplicationInv'
<1>1. TypeOK
  BY DEF ReplicationInv, Inv
<1>2. PICK n \in 1 .. Len(inFlightPackets[server]) :
        /\ Report(server, n, n)
        /\ UNCHANGED <<dispatchedPacketCount, accepted>>
  BY DEF ServerTimesOut, ProcessTimedOutPackets
<1>3. n \in Nat /\ n <= n /\ n <= Len(inFlightPackets[server])
  BY <1>1, Wiring, Types
<1>4. NewlyDropped = n
  BY <1>1, <1>2, <1>3, NewlyReported
<1>5. commands' = Handled(n, n, 1) /\ UNCHANGED <<object, transmissions, replica>>
  BY <1>4 DEF ServerTimesOut
<1> QED BY <1>2, <1>3, <1>5, ReportKeeps

---------------------------------------------------------------------------
(* The client. *)

(* Until the server's numbers wrap, the client accepts a packet that was     *)
(* sent, after all those that it accepted before.                            *)
LEMMA ClientAccepts ==
  ASSUME Inv, NotWrapped(server), NEW m \in network, ReadAndProcessState(client, m),
         accepted'[client] # accepted[client]
  PROVE  /\ m.nth \in 0 .. dispatchedPacketCount[server] - 1
         /\ Accepted(client)' = Accepted(client) \cup {m.nth}
         /\ \A x \in Accepted(client) : x \in Nat /\ x < m.nth
<1>1. TypeOK /\ NumbersInv(server)
  BY Wiring DEF Inv, PeerInv
<1>2. m.from \in Peer /\ m.nth \in Nat /\ m.sequenceNumber \in Nat
  <2>1. m \in Packet
    BY <1>1 DEF TypeOK
  <2>2. m.from \in Peer /\ m.nth \in Nat /\ m.sequenceNumber \in PacketSequenceNumber
    BY <2>1 DEF Packet
  <2> QED BY <2>2, NumberAssumption DEF PacketSequenceNumber
<1>3. m.from = server
  BY <1>2, Wiring, OtherPeer DEF ReadAndProcessState
<1>4. m.sequenceNumber = m.nth /\ m.nth < dispatchedPacketCount[server]
  BY <1>1, <1>3 DEF NumbersInv
<1>5. /\ m.sequenceNumber >= nextExpectedSequenceNumber[client]
      /\ accepted'[client] = Append(accepted[client], m.nth)
  BY <1>1, Wiring DEF ReadAndProcessState, ProcessSequenceNumber, TypeOK
<1>6. /\ accepted[client] \in Seq(Nat) /\ Len(accepted[client]) \in Nat
      /\ dispatchedPacketCount[server] \in Nat
  BY <1>1, Wiring, Types
<1>7. /\ Len(accepted'[client]) = Len(accepted[client]) + 1
      /\ \A i \in 1 .. Len(accepted[client]) : accepted'[client][i] = accepted[client][i]
      /\ accepted'[client][Len(accepted[client]) + 1] = m.nth
  BY <1>2, <1>5, <1>6, AppendProperties
<1>8. Accepted(client)' = Accepted(client) \cup {m.nth}
  <2>1. ASSUME NEW x \in Accepted(client)' PROVE x \in Accepted(client) \cup {m.nth}
    <3>1. PICK i \in 1 .. Len(accepted'[client]) : x = accepted'[client][i]
      BY <2>1 DEF Accepted
    <3>2. i \in 1 .. Len(accepted[client]) \/ i = Len(accepted[client]) + 1
      BY <1>6, <1>7, <3>1
    <3> QED BY <1>7, <3>1, <3>2 DEF Accepted
  <2>2. ASSUME NEW x \in Accepted(client) PROVE x \in Accepted(client)'
    <3>1. PICK i \in 1 .. Len(accepted[client]) : x = accepted[client][i]
      BY <2>2 DEF Accepted
    <3>2. i \in 1 .. Len(accepted'[client])
      BY <1>6, <1>7, <3>1
    <3> QED BY <1>7, <3>1, <3>2 DEF Accepted
  <2>3. m.nth \in Accepted(client)'
    <3>1. Len(accepted[client]) + 1 \in 1 .. Len(accepted'[client])
      BY <1>6, <1>7
    <3> QED BY <1>7, <3>1 DEF Accepted
  <2> QED BY <2>1, <2>2, <2>3
<1>9. ASSUME NEW x \in Accepted(client) PROVE x \in Nat /\ x < m.nth
  <2>1. /\ x \in Nat /\ x < nextExpectedSequenceNumber[client]
        /\ nextExpectedSequenceNumber[client] \in Nat
    BY <1>9, AcceptedBelow
  <2> QED BY <1>2, <1>4, <1>5, <2>1
<1> QED BY <1>2, <1>4, <1>6, <1>8, <1>9

(* What one packet makes of one replica.                                     *)
LEMMA ReplicaLearns ==
  ASSUME ReplicationInv, NotWrapped(server), NEW m \in network, ClientReads(m),
         NEW n \in NetworkId
  PROVE  /\ ReplicaInv(n)'
         /\ \/ replica'[n] = replica[n]
            \/ replica'[n] = "alive" /\ replica[n] = "unknown" /\ object[n] # "new"
            \/ replica'[n] = "destroyed" /\ object[n] = "gone"
<1>1. /\ ReplicaInv(n) /\ TransmissionsInv(n) /\ Inv
      /\ replica[n] \in {"unknown", "alive", "destroyed", "confused"}
      /\ Len(transmissions) = dispatchedPacketCount[server]
  BY Flight DEF ReplicationInv, ObjectInv, ReplicationTypeOK
<1>2. UNCHANGED <<object, transmissions>> /\ ReadAndProcessState(client, m)
  BY DEF ClientReads
<1>3. \A i : Sent(i, n)' = Sent(i, n)
  BY <1>2 DEF Sent
<1>4. CASE accepted'[client] = accepted[client]
  <2>1. replica' = replica /\ Accepted(client)' = Accepted(client)
    BY <1>4 DEF ClientReads, Accepted
  <2> QED BY <1>1, <1>3, <2>1 DEF ReplicaInv, Carries
<1>5. CASE accepted'[client] # accepted[client]
  <2> DEFINE k == m.nth
  <2>1. /\ k \in From(0) /\ Accepted(client)' = Accepted(client) \cup {k}
        /\ \A x \in Accepted(client) : x \in Nat /\ x < k
        /\ k \in Nat
    BY <1>1, <1>2, <1>5, ClientAccepts DEF From
  <2>2. replica'[n] = ReplicaAfter(replica[n], k, n)
    BY <1>5 DEF ClientReads
  <2> HIDE DEF k
  <2>3. \A i \in Accepted(client) : i \in From(0) /\ k \in From(i + 1)
    BY <2>1 DEF From
  <2>4. \A a, i : Carries(i, n, a)' = Carries(i, n, a)
    BY <1>3 DEF Carries
  <2>5. (\E i \in Accepted(client) : Carries(i, n, "RA_Destroy"))'
          <=> \/ \E i \in Accepted(client) : Carries(i, n, "RA_Destroy")
              \/ Carries(k, n, "RA_Destroy")
    BY <2>1, <2>4
  <2>6. CASE Sent(k, n) = Nothing
    <3>1. replica'[n] = replica[n] /\ ~Carries(k, n, "RA_Destroy")
      BY <2>2, <2>6 DEF ReplicaAfter, Carries
    <3> QED BY <1>1, <1>3, <2>1, <2>5, <2>6, <3>1 DEF ReplicaInv
  <2>7. CASE Carries(k, n, "RA_Destroy")
    <3>1. Sent(k, n) # Nothing /\ replica[n] # "confused"
      BY <1>1, <2>7 DEF Carries, ReplicaInv
    <3>2. replica'[n] = "destroyed"
      BY <2>2, <2>7, <3>1 DEF ReplicaAfter
    <3>3. object[n] = "gone"
      BY <1>1, <2>1, <2>7 DEF TransmissionsInv
    <3> QED BY <2>5, <2>7, <3>2, <3>3 DEF ReplicaInv
  <2>8. CASE Sent(k, n) # Nothing /\ ~Carries(k, n, "RA_Destroy")
    <3>1. replica[n] # "destroyed"
      <4>1. SUFFICES ASSUME replica[n] = "destroyed" PROVE FALSE
        OBVIOUS
      <4>2. PICK i \in Accepted(client) : Carries(i, n, "RA_Destroy")
        BY <1>1, <4>1 DEF ReplicaInv
      <4> QED BY <1>1, <2>3, <2>8, <4>2 DEF TransmissionsInv
    <3>2. replica[n] = "unknown" => Carries(k, n, "RA_Create")
      <4>1. SUFFICES ASSUME replica[n] = "unknown", ~Carries(k, n, "RA_Create") PROVE FALSE
        OBVIOUS
      <4>2. Sent(k, n) \in Transmission
        BY <2>1, <2>8, Flight, SettledTypes
      <4>3. Carries(k, n, "RA_Update")
        BY <2>8, <4>1, <4>2 DEF Carries, Transmission, ReplicationAction
      <4>4. PICK j \in confirmed[server] : Carries(j, n, "RA_Create")
        BY <1>1, <2>1, <4>3 DEF TransmissionsInv
      <4>5. j \in Accepted(client)
        BY <1>1, AcceptedBelow
      <4> QED BY <1>1, <4>1, <4>4, <4>5 DEF ReplicaInv, Carries
    <3>3. replica'[n] = "alive"
      <4>1. replica[n] = "alive" \/ replica[n] = "unknown"
        BY <1>1, <3>1 DEF ReplicaInv
      <4> QED BY <2>2, <2>8, <3>2, <4>1 DEF ReplicaAfter
    <3>4. object[n] # "new"
      BY <1>1, <2>1, <2>8 DEF TransmissionsInv
    <3>5. ~\E i \in Accepted(client) : Carries(i, n, "RA_Destroy")
      BY <1>1, <3>1 DEF ReplicaInv
    <3>6. ReplicaInv(n)'
      BY <2>5, <2>8, <3>3, <3>5 DEF ReplicaInv
    <3>7. replica[n] = "alive" \/ replica[n] = "unknown"
      BY <1>1, <3>1 DEF ReplicaInv
    <3> QED BY <3>3, <3>4, <3>6, <3>7
  <2> QED BY <2>6, <2>7, <2>8
<1> QED BY <1>4, <1>5

(* A step that neither sends from the server nor reports to it.              *)
LEMMA ClientSteps ==
  ASSUME ReplicationInv, Inv', UNCHANGED <<object, commands, transmissions, counts>>,
         confirmed'[server] = confirmed[server],
         dispatchedPacketCount'[server] = dispatchedPacketCount[server],
         replica' \in [NetworkId -> {"unknown", "alive", "destroyed", "confused"}],
         NotWrapped(server) => \A n \in NetworkId : ReplicaInv(n)'
  PROVE  ReplicationInv'
<1>1. ReplicationTypeOK'
  BY DEF ReplicationInv, ReplicationTypeOK, Inv
<1>2. (confirmed[server] \subseteq 0 .. FirstInFlight(server) - 1)'
  BY DEF ReplicationInv, counts, FirstInFlight
<1>3. ASSUME NEW n \in NetworkId PROVE ObjectInv(n)'
  <2>1. ObjectInv(n)
    BY DEF ReplicationInv
  <2> QED BY <2>1 DEF ObjectInv, CommandInv, RegisteredInv, GoneInv, TransmissionsInv, From,
                      Carries, Sent, FirstInFlight, counts
<1>4. NotWrapped(server)' => NotWrapped(server)
  BY DEF NotWrapped
<1> QED BY <1>1, <1>2, <1>3, <1>4 DEF ReplicationInv

LEMMA ClientReadsKeeps ==
  ASSUME ReplicationInv, Inv', NEW m \in network, ClientReads(m)
  PROVE  ReplicationInv'
<1>1. /\ UNCHANGED <<object, commands, transmissions, dispatchedPacketCount>>
      /\ UNCHANGED <<counts, confirmed>>
  BY Wiring DEF ClientReads, ReadAndProcessState
<1>2. replica' \in [NetworkId -> {"unknown", "alive", "destroyed", "confused"}]
  <2>1. replica \in [NetworkId -> {"unknown", "alive", "destroyed", "confused"}]
    BY DEF ReplicationInv, ReplicationTypeOK
  <2>2. \A n \in NetworkId :
          ReplicaAfter(replica[n], m.nth, n) \in {"unknown", "alive", "destroyed", "confused"}
    BY <2>1 DEF ReplicaAfter
  <2> QED BY <2>1, <2>2 DEF ClientReads
<1>3. NotWrapped(server) => \A n \in NetworkId : ReplicaInv(n)'
  BY ReplicaLearns
<1> QED BY <1>1, <1>2, <1>3, ClientSteps

LEMMA ClientWritesKeeps ==
  ASSUME ReplicationInv, Inv', ClientWrites
  PROVE  ReplicationInv'
<1>1. /\ UNCHANGED <<object, commands, transmissions, replica, counts, confirmed, accepted>>
      /\ dispatchedPacketCount' = [dispatchedPacketCount EXCEPT ![client] = @ + 1]
  BY DEF ClientWrites, WriteState, replicationVars
<1>2. dispatchedPacketCount'[server] = dispatchedPacketCount[server]
  BY <1>1, Wiring DEF ReplicationInv, Inv, TypeOK
<1>3. NotWrapped(server) => \A n \in NetworkId : ReplicaInv(n)'
  BY <1>1 DEF ReplicationInv, ReplicaInv, Accepted, Carries, Sent
<1> QED BY <1>1, <1>2, <1>3, ClientSteps DEF ReplicationInv, ReplicationTypeOK

---------------------------------------------------------------------------
(* The theorems. *)

LEMMA ReplicationInitKeeps == ReplicationInit => ReplicationInv
<1> SUFFICES ASSUME ReplicationInit PROVE ReplicationInv
  OBVIOUS
<1>1. Inv
  BY InvInit DEF ReplicationInit
<1>2. /\ object = [n \in NetworkId |-> "new"] /\ commands = [n \in NetworkId |-> Absent]
      /\ transmissions = <<>> /\ replica = [n \in NetworkId |-> "unknown"]
      /\ dispatchedPacketCount[server] = 0 /\ confirmed[server] = {}
      /\ accepted[client] = <<>>
  BY Wiring DEF ReplicationInit, Init
<1>3. Len(transmissions) = 0 /\ From(0) = {} /\ Accepted(client) = {}
  BY <1>2, EmptySeq DEF From, Accepted
<1>4. ReplicationTypeOK
  BY <1>1, <1>2, <1>3, EmptySeq DEF ReplicationTypeOK, Inv
<1>5. ASSUME NEW n \in NetworkId PROVE ObjectInv(n) /\ ReplicaInv(n)
  BY <1>2, <1>3 DEF ObjectInv, CommandInv, TransmissionsInv, ReplicaInv
<1> QED BY <1>1, <1>2, <1>4, <1>5 DEF ReplicationInv

LEMMA ReplicationStep ==
  ReplicationInv /\ [ReplicationNext]_<<vars, replicationVars>> => ReplicationInv'
<1> SUFFICES ASSUME ReplicationInv, [ReplicationNext]_<<vars, replicationVars>>
             PROVE  ReplicationInv'
  OBVIOUS
<1>1. Inv'
  BY InvStep, ActionsDeliver DEF ReplicationInv
<1>2. ASSUME NEW n \in NetworkId, CreateObject(n) PROVE ReplicationInv'
  BY <1>1, <1>2, CreateObjectKeeps
<1>3. ASSUME NEW n \in NetworkId, DestroyObject(n) PROVE ReplicationInv'
  BY <1>1, <1>3, DestroyObjectKeeps
<1>4. ASSUME NEW n \in NetworkId, NEW b \in StateBit, SetStateDirty(n, b) PROVE ReplicationInv'
  BY <1>1, <1>4, SetStateDirtyKeeps
<1>5. CASE SendStatePacketToClient
  BY <1>1, <1>5, SendStatePacketKeeps
<1>6. ASSUME NEW m \in network, ServerReads(m) PROVE ReplicationInv'
  BY <1>1, <1>6, ServerReadsKeeps
<1>7. ASSUME NEW m \in network, ClientReads(m) PROVE ReplicationInv'
  BY <1>1, <1>7, ClientReadsKeeps
<1>8. CASE ServerTimesOut
  BY <1>1, <1>8, ServerTimesOutKeeps
<1>9. CASE ClientWrites
  BY <1>1, <1>9, ClientWritesKeeps
<1>10. CASE UNCHANGED <<vars, replicationVars>>
  <2>1. UNCHANGED <<object, commands, transmissions, replica, counts, confirmed, accepted,
                    dispatchedPacketCount>>
    BY <1>10 DEF vars, replicationVars
  <2>2. NotWrapped(server) => \A n \in NetworkId : ReplicaInv(n)'
    BY <2>1 DEF ReplicationInv, ReplicaInv, Accepted, Carries, Sent
  <2> QED BY <1>1, <2>1, <2>2, ClientSteps DEF ReplicationInv, ReplicationTypeOK
<1> QED BY <1>2, <1>3, <1>4, <1>5, <1>6, <1>7, <1>8, <1>9, <1>10 DEF ReplicationNext

(* Every reachable state satisfies the invariant.                            *)
THEOREM ReplicationInvariance == ReplicationSpec => []ReplicationInv
BY ReplicationInitKeeps, ReplicationStep, PTL DEF ReplicationSpec

(* Type correctness: one transmission is recorded for each packet written,   *)
(* with actions and state bits only, and every command is a command.         *)
THEOREM ReplicationTypeCorrect == ReplicationSpec => []ReplicationTypeOK
<1>1. ReplicationInv => ReplicationTypeOK
  BY DEF ReplicationInv
<1> QED BY <1>1, ReplicationInvariance, PTL

(* Whatever is lost, repeated, reordered or late, and even past a wrap of    *)
(* the sequence numbers, no callback finds its command gone: operator[]      *)
(* never makes an uninitialized ReplicationCommand.                          *)
THEOREM NoIndeterminateCommandHolds == ReplicationSpec => []NoIndeterminateCommand
<1>1. ReplicationInv => NoIndeterminateCommand
  <2> SUFFICES ASSUME ReplicationInv, NEW n \in NetworkId, commands[n] # Absent
               PROVE  commands[n].action # Indeterminate /\ Indeterminate \notin commands[n].dirtyState
    BY DEF NoIndeterminateCommand
  <2>1. commands[n] \in SoundCommand
    BY DEF ReplicationInv, ObjectInv, CommandInv
  <2> QED BY <2>1, SoundIsPresent
<1> QED BY <1>1, ReplicationInvariance, PTL

(* Write never asks for an object that was unregistered: a command left with *)
(* state to write for one is a destroy.                                      *)
THEOREM WritesOnlyRegisteredHolds == ReplicationSpec => []WritesOnlyRegistered
<1>1. ReplicationInv => WritesOnlyRegistered
  <2> SUFFICES ASSUME ReplicationInv, NEW n \in NetworkId,
                      HasDirtyState(commands[n]), commands[n].action # "RA_Destroy",
                      object[n] # "registered"
               PROVE  FALSE
    BY DEF WritesOnlyRegistered
  <2>1. object[n] \in {"new", "registered", "gone"}
    BY DEF ReplicationInv, ReplicationTypeOK
  <2>2. CommandInv(commands[n], FirstInFlight(server), confirmed[server], n)
    BY DEF ReplicationInv, ObjectInv
  <2>3. commands[n] # Absent /\ commands[n].dirtyState # {}
    BY DEF HasDirtyState
  <2>4. GoneInv(commands[n], FirstInFlight(server), confirmed[server], n)
    BY <2>1, <2>2, <2>3 DEF CommandInv
  <2> QED BY <2>3, <2>4 DEF GoneInv
<1> QED BY <1>1, ReplicationInvariance, PTL

(* Until the server's numbers wrap, the creation of an object that lives is  *)
(* waiting, in flight or accepted, however many of its packets were lost.    *)
THEOREM CreateIsNotForgotten ==
  ReplicationSpec => [](NotWrapped(server) => CreateNotForgotten)
<1>1. ASSUME ReplicationInv, NotWrapped(server) PROVE CreateNotForgotten
  <2> SUFFICES ASSUME NEW n \in NetworkId, object[n] = "registered",
                      ~(commands[n].action = "RA_Create" /\ commands[n].dirtyState # {})
               PROVE  \E k \in PacketsInFlight \cup Accepted(client) : Carries(k, n, "RA_Create")
    BY DEF CreateNotForgotten
  <2>1. RegisteredInv(commands[n], FirstInFlight(server), confirmed[server], n)
    BY <1>1 DEF ReplicationInv, ObjectInv, CommandInv
  <2>2. confirmed[server] \subseteq Accepted(client)
    BY <1>1, AcceptedBelow DEF ReplicationInv
  <2> QED BY <2>1, <2>2 DEF RegisteredInv, From, PacketsInFlight
<1> QED BY <1>1, ReplicationInvariance, PTL

(* Until the server's numbers wrap, the destruction of an object is waiting, *)
(* in flight or accepted, and its command goes only when it was accepted.    *)
THEOREM DestroyIsNotForgotten ==
  ReplicationSpec => [](NotWrapped(server) => DestroyNotForgotten)
<1>1. ASSUME ReplicationInv, NotWrapped(server) PROVE DestroyNotForgotten
  <2> SUFFICES ASSUME NEW n \in NetworkId, object[n] = "gone"
               PROVE  \/ commands[n] # Absent /\ commands[n].action = "RA_Destroy"
                      \/ commands[n] # Absent /\ \E k \in PacketsInFlight : Carries(k, n, "RA_Destroy")
                      \/ \E k \in Accepted(client) : Carries(k, n, "RA_Destroy")
    BY DEF DestroyNotForgotten
  <2>1. GoneInv(commands[n], FirstInFlight(server), confirmed[server], n)
    BY <1>1 DEF ReplicationInv, ObjectInv, CommandInv
  <2>2. confirmed[server] \subseteq Accepted(client)
    BY <1>1, AcceptedBelow DEF ReplicationInv
  <2> QED BY <2>1, <2>2 DEF GoneInv, From, PacketsInFlight
<1> QED BY <1>1, ReplicationInvariance, PTL

---------------------------------------------------------------------------
(* State lost in an acknowledged gap. *)

(* State lost in a packet that an acknowledgement shows to be dropped is     *)
(* dirty again, unless a later packet carries the same bit.                  *)
THEOREM AckedLossIsDirtyAgainHolds == ReplicationSpec => AckedLossIsDirtyAgain
<1> DEFINE Redone ==
      NewlyDelivered > 0 =>
        \A k \in FirstInFlight(server) .. FirstInFlight(server) + NewlyDropped - 1,
           n \in {o \in NetworkId : object[o] = "registered"} :
          StateSent(k, n) \subseteq
            commands'[n].dirtyState \cup StateInFlight(k + 1 .. Len(transmissions) - 1)
<1>1. ReplicationInv /\ [ReplicationNext]_<<vars, replicationVars>>
        => [Redone]_<<vars, replicationVars>>
  <2> SUFFICES ASSUME ReplicationInv, ReplicationNext, NewlyDelivered > 0 PROVE Redone
    OBVIOUS
  <2>1. TypeOK /\ deliveredPacketCount[server] \in Nat
    BY Wiring DEF ReplicationInv, Inv, TypeOK
  <2>2. deliveredPacketCount'[server] # deliveredPacketCount[server]
    BY <2>1 DEF NewlyDelivered
  <2>3. ~UNCHANGED counts
    BY <2>2 DEF counts
  <2>4. ~ServerTimesOut
    <3>1. SUFFICES ASSUME ServerTimesOut PROVE FALSE
      OBVIOUS
    <3>2. PICK n \in 1 .. Len(inFlightPackets[server]) : Report(server, n, n)
      BY <3>1 DEF ServerTimesOut, ProcessTimedOutPackets
    <3>3. n \in Nat /\ n <= n
      BY <2>1, Wiring, Types
    <3>4. NewlyDelivered = n - n
      BY <2>1, <3>2, <3>3, NewlyReported
    <3> QED BY <3>3, <3>4
  <2>5. PICK m \in network : ServerReads(m)
    <3>1. \A n \in NetworkId : ~CreateObject(n) /\ ~DestroyObject(n)
      BY <2>3 DEF CreateObject, DestroyObject, vars
    <3>2. \A n \in NetworkId, b \in StateBit : ~SetStateDirty(n, b)
      BY <2>3 DEF SetStateDirty, vars
    <3>3. ~SendStatePacketToClient /\ ~ClientWrites
      BY <2>3 DEF SendStatePacketToClient, ClientWrites, WriteState
    <3>4. \A m \in network : ~ClientReads(m)
      BY <2>3, Wiring DEF ClientReads, ReadAndProcessState
    <3> QED BY <2>4, <3>1, <3>2, <3>3, <3>4 DEF ReplicationNext
  <2>6. PICK f, n \in Nat :
          /\ f <= n /\ n <= Len(inFlightPackets[server])
          /\ NewlyDropped = f /\ commands' = Handled(f, n, 0)
    BY <2>1, <2>5, ServerReadsReports
  <2> DEFINE delivered == confirmed[server] \cup {FirstInFlight(server) + i : i \in f .. n - 1}
  <2>7. \A i \in f .. n - 1 : FirstInFlight(server) + i \in delivered
    OBVIOUS
  <2>8. CommandsInv(commands, FirstInFlight(server), delivered)
    <3>1. confirmed[server] \subseteq delivered
      OBVIOUS
    <3> HIDE DEF delivered
    <3> QED BY <3>1, Flight, MoreDelivered DEF CommandsInv
  <2>9. /\ FirstInFlight(server) \in Nat /\ FirstInFlight(server) + n <= Len(transmissions)
        /\ dispatchedPacketCount[server] = Len(transmissions) /\ Settled /\ f \in 0 .. n
    BY <2>6, Flight
  <2> HIDE DEF delivered
  <2> SUFFICES ASSUME NEW k \in FirstInFlight(server) .. FirstInFlight(server) + f - 1,
                      NEW o \in NetworkId, object[o] = "registered"
               PROVE  StateSent(k, o) \subseteq
                        commands'[o].dirtyState \cup StateInFlight(From(k + 1))
    BY <2>6 DEF From
  <2> QED BY <2>6, <2>7, <2>8, <2>9, HandledMakesDirty
<1> QED BY <1>1, ReplicationInvariance, PTL DEF ReplicationSpec, AckedLossIsDirtyAgain

---------------------------------------------------------------------------
(* Replication implements ReplicatedObjects. *)

Forgotten == {n \in NetworkId : object[n] = "gone" /\ commands[n] = Absent}

(* Reports leave alone what no unreported packet carried anything of.        *)
LEMMA HandledLeaves ==
  ASSUME NEW n \in Nat, NEW f, NEW q, NEW o \in NetworkId,
         FirstInFlight(server) \in Nat, FirstInFlight(server) + n <= Len(transmissions),
         Len(transmissions) \in Nat,
         \A k \in From(FirstInFlight(server)) : Sent(k, o) = Nothing
  PROVE  Handled(f, n, q)[o] = commands[o]
<1> DEFINE first == FirstInFlight(server)
<1>1. PICK after : IsHistory(after, f, n, q) /\ Handled(f, n, q) = after[n]
  BY HandledIsHistory
<1>2. \A i \in 0 .. n :
        after[i] = IF i = 0 THEN commands ELSE HandleNext(after[i - 1], i, f, q)
  BY <1>1 DEF IsHistory
<1> DEFINE S == {i \in Nat : i <= n => after[i][o] = commands[o]}
<1>3. 0 \in S
  BY <1>2
<1>4. ASSUME NEW i \in Nat, i \in S PROVE i + 1 \in S
  <2>1. SUFFICES ASSUME i + 1 <= n PROVE after[i + 1][o] = commands[o]
    OBVIOUS
  <2>2. after[i][o] = commands[o]
    BY <1>4, <2>1
  <2>3. /\ i + 1 \in 0 .. n /\ i + 1 # 0 /\ (i + 1) - 1 = i
        /\ first + (i + 1) - 1 = first + i
    BY <2>1
  <2>4. after[i + 1] = HandleNext(after[i], i + 1, f, q)
    BY <1>2, <2>3
  <2>5. Sent(first + i, o) = Nothing
    BY <2>1 DEF From
  <2>6. \A m, inFlight : /\ FailureOf(m, first + i, o, inFlight) = m
                         /\ SuccessOf(m, first + i, o) = m
    <3> HIDE DEF first
    <3> QED BY <2>5 DEF FailureOf, SuccessOf, Carries
  <2>7. CASE i + 1 <= f
    <3>1. \E inFlight : after[i + 1] = HandleDeliveryFailure(after[i], first + i, inFlight)
      BY <2>3, <2>4, <2>7 DEF HandleNext
    <3> HIDE DEF first
    <3> QED BY <2>2, <2>6, <3>1 DEF HandleDeliveryFailure
  <2>8. CASE ~(i + 1 <= f)
    <3>1. after[i + 1] = HandleDeliverySuccess(after[i], first + i)
      BY <2>3, <2>4, <2>8 DEF HandleNext
    <3> HIDE DEF first
    <3> QED BY <2>2, <2>6, <3>1 DEF HandleDeliverySuccess
  <2> QED BY <2>7, <2>8
<1>5. Nat \subseteq S
  <2> HIDE DEF S
  <2> QED BY <1>3, <1>4, InductiveSet
<1> QED BY <1>1, <1>5

(* What the server's reports forget, the client knows to be gone.            *)
LEMMA ReportForgets ==
  ASSUME ReplicationInv, ReplicationInv', NotWrapped(server)', NEW f, NEW n \in Nat, NEW q,
         n <= Len(inFlightPackets[server]), commands' = Handled(f, n, q),
         UNCHANGED <<object, replica>>
  PROVE  Objects!Next
<1>1. Forgotten \subseteq Forgotten'
  <2> SUFFICES ASSUME NEW o \in NetworkId, object[o] = "gone", commands[o] = Absent
               PROVE  commands'[o] = Absent
    BY DEF Forgotten
  <2>1. GoneInv(commands[o], FirstInFlight(server), confirmed[server], o)
    BY DEF ReplicationInv, ObjectInv, CommandInv
  <2>2. \A k \in From(FirstInFlight(server)) : Sent(k, o) = Nothing
    BY <2>1 DEF GoneInv
  <2>3. /\ FirstInFlight(server) \in Nat /\ Len(transmissions) \in Nat
        /\ FirstInFlight(server) + n <= Len(transmissions)
    BY Flight
  <2> QED BY <2>2, <2>3, HandledLeaves
<1>2. ASSUME NEW o \in NetworkId, object'[o] = "gone", commands'[o] = Absent
      PROVE  replica'[o] = "destroyed"
  <2>1. GoneInv(commands[o], FirstInFlight(server), confirmed[server], o)' /\ ReplicaInv(o)'
    BY <1>2 DEF ReplicationInv, ObjectInv, CommandInv
  <2>2. (\E i \in confirmed[server] : Carries(i, o, "RA_Destroy"))'
    BY <1>2, <2>1 DEF GoneInv
  <2>3. (confirmed[server] \subseteq Accepted(client))'
    <3>1. PeerInv(server)'
      BY Wiring DEF ReplicationInv, Inv
    <3> QED BY <3>1, Wiring DEF PeerInv
  <2> QED BY <2>1, <2>2, <2>3 DEF ReplicaInv
<1>3. Objects!Forget
  BY <1>1, <1>2 DEF Objects!Forget, Forgotten
<1> QED BY <1>3 DEF Objects!Next

LEMMA ReplicationRefines ==
  ReplicationInv /\ ReplicationInv' /\ NotWrapped(server) /\ NotWrapped(server)'
    /\ [ReplicationNext]_<<vars, replicationVars>> => [Objects!Next]_Objects!vars
<1> SUFFICES ASSUME ReplicationInv, ReplicationInv', NotWrapped(server), NotWrapped(server)',
                    [ReplicationNext]_<<vars, replicationVars>>
             PROVE  Objects!Next \/ UNCHANGED <<object, replica, Forgotten>>
  BY DEF Objects!vars, Forgotten
<1>1. /\ object \in [NetworkId -> {"new", "registered", "gone"}]
      /\ commands \in CommandMap
  BY Flight DEF ReplicationInv, ReplicationTypeOK, CommandsInv
<1>2. ASSUME NEW n \in NetworkId, CreateObject(n) PROVE Objects!Next
  <2>1. Forgotten' = Forgotten
    <3>1. /\ object[n] = "new" /\ object' = [object EXCEPT ![n] = "registered"]
          /\ \A x \in NetworkId : x # n => commands'[x] = commands[x]
      BY <1>1, <1>2 DEF CreateObject, ReplicateCreate, CommandMap
    <3>2. \A x \in NetworkId : x # n => object'[x] = object[x]
      BY <1>1, <3>1
    <3>3. object'[n] = "registered"
      BY <1>1, <3>1
    <3> QED BY <3>1, <3>2, <3>3 DEF Forgotten
  <2>2. Objects!Create(n)
    BY <1>2, <2>1 DEF CreateObject, Objects!Create, Forgotten
  <2> QED BY <2>2 DEF Objects!Next
<1>3. ASSUME NEW n \in NetworkId, DestroyObject(n) PROVE Objects!Next
  <2>1. Forgotten' = Forgotten
    <3>1. /\ object[n] = "registered" /\ object' = [object EXCEPT ![n] = "gone"]
          /\ \A x \in NetworkId : x # n => commands'[x] = commands[x]
          /\ commands'[n] = [At(commands, n) EXCEPT !.action = "RA_Destroy"]
      BY <1>1, <1>3 DEF DestroyObject, ReplicateDestroy, CommandMap
    <3>2. RegisteredInv(commands[n], FirstInFlight(server), confirmed[server], n)
      BY <3>1 DEF ReplicationInv, ObjectInv, CommandInv
    <3>3. commands[n] \in SoundCommand /\ commands[n] # Absent
      BY <1>1, <3>2 DEF RegisteredInv, CommandMap
    <3>4. commands'[n] \in SoundCommand
      BY <3>1, <3>3 DEF At, SoundCommand, ReplicationAction
    <3>5. commands'[n] # Absent
      BY <3>4, SoundIsPresent
    <3>6. \A x \in NetworkId : x # n => object'[x] = object[x]
      BY <1>1, <3>1
    <3> QED BY <3>1, <3>5, <3>6 DEF Forgotten
  <2>2. Objects!Destroy(n)
    BY <1>3, <2>1 DEF DestroyObject, Objects!Destroy, Forgotten
  <2> QED BY <2>2 DEF Objects!Next
<1>4. ASSUME NEW n \in NetworkId, NEW b \in StateBit, SetStateDirty(n, b)
      PROVE  UNCHANGED <<object, replica, Forgotten>>
  <2>1. /\ object[n] = "registered" /\ object' = object /\ replica' = replica
        /\ \A x \in NetworkId : x # n => commands'[x] = commands[x]
    BY <1>1, <1>4 DEF SetStateDirty, AddDirtyState, CommandMap
  <2> QED BY <2>1 DEF Forgotten
<1>5. CASE SendStatePacketToClient
  <2>1. object' = object /\ replica' = replica
    BY <1>5 DEF SendStatePacketToClient
  <2>2. ASSUME NEW n \in NetworkId PROVE commands'[n] = Absent <=> commands[n] = Absent
    <3>1. PICK written : commands'[n] = IF HasDirtyState(commands[n])
                                        THEN ClearDirtyState(commands[n], written[n])
                                        ELSE commands[n]
      BY <1>5 DEF SendStatePacketToClient
    <3>2. CASE HasDirtyState(commands[n])
      <4>1. commands[n] \in SoundCommand /\ commands[n] # Absent
        BY <1>1, <3>2 DEF HasDirtyState, CommandMap
      <4>2. ClearDirtyState(commands[n], written[n]) \in SoundCommand
        BY <4>1 DEF SoundCommand, ClearDirtyState, ReplicationAction
      <4> QED BY <3>1, <3>2, <4>1, <4>2, SoundIsPresent
    <3>3. CASE ~HasDirtyState(commands[n])
      BY <3>1, <3>3
    <3> QED BY <3>2, <3>3
  <2> QED BY <2>1, <2>2 DEF Forgotten
<1>6. ASSUME NEW m \in network, ServerReads(m) PROVE Objects!Next
  <2>1. \E f, n \in Nat : /\ n <= Len(inFlightPackets[server])
                          /\ commands' = Handled(f, n, 0)
                          /\ UNCHANGED <<object, replica>>
    BY <1>6, ServerReadsReports DEF ReplicationInv, Inv
  <2> QED BY <2>1, ReportForgets
<1>7. ASSUME NEW m \in network, ClientReads(m) PROVE Objects!Next
  <2>1. object' = object /\ commands' = commands
    BY <1>7 DEF ClientReads
  <2>2. ASSUME NEW n \in NetworkId PROVE replica'[n] \in Objects!Life
    <3>1. ReplicaInv(n)'
      BY <1>7, ReplicaLearns
    <3> QED BY <3>1 DEF ReplicationInv, ReplicationTypeOK, ReplicaInv, Objects!Life
  <2>3. replica' \in [NetworkId -> Objects!Life]
    BY <2>2 DEF ReplicationInv, ReplicationTypeOK
  <2>4. \A n \in NetworkId : Objects!Learns(n, replica[n], replica'[n])
    BY <1>7, ReplicaLearns DEF Objects!Learns
  <2>5. Objects!Learn
    BY <2>1, <2>3, <2>4 DEF Objects!Learn
  <2> QED BY <2>5 DEF Objects!Next
<1>8. CASE ServerTimesOut
  <2>1. PICK n \in 1 .. Len(inFlightPackets[server]) : Report(server, n, n)
    BY <1>8 DEF ServerTimesOut, ProcessTimedOutPackets
  <2>2. n \in Nat /\ n <= n /\ n <= Len(inFlightPackets[server])
    BY <2>1, Flight
  <2>3. commands' = Handled(n, n, 1) /\ UNCHANGED <<object, replica>>
    BY <1>8, <2>1, <2>2, NewlyReported DEF ServerTimesOut, ReplicationInv, Inv
  <2> QED BY <2>2, <2>3, ReportForgets
<1>9. CASE ClientWrites
  BY <1>9 DEF ClientWrites, replicationVars, Forgotten
<1>10. CASE UNCHANGED <<vars, replicationVars>>
  BY <1>10 DEF replicationVars, Forgotten
<1> QED BY <1>2, <1>3, <1>4, <1>5, <1>6, <1>7, <1>8, <1>9, <1>10 DEF ReplicationNext

(* As long as the server's sequence numbers have not wrapped, the managers   *)
(* at both ends keep the promise of ReplicatedObjects: the client never sees *)
(* an object that was not made, never updates one it does not have, never    *)
(* sees one come back, and the server forgets a destroyed one only when the  *)
(* client knows of it.                                                       *)
THEOREM ReplicationRefinement ==
  ReplicationSpec /\ []NotWrapped(server) => ReplicatesObjects
<1>1. ReplicationInit => Objects!Init
  BY DEF ReplicationInit, Objects!Init
<1> QED BY <1>1, ReplicationRefines, ReplicationInvariance, PTL
        DEF ReplicationSpec, ReplicatesObjects, Objects!Spec
=============================================================================
