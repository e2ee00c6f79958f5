--------------------------- MODULE SessionProofs ---------------------------
(***************************************************************************)
(* Type correctness and the safety of joining and winning, for any number  *)
(* of clients.                                                             *)
(***************************************************************************)
EXTENDS Session, TLAPS

\* Players keep apart: an id belongs to one address, and is below the next.
PlayersApart ==
  \A c, d \in Known : c # d => addressToClient[c] # addressToClient[d]

\* A welcome on its way names the id of the client it goes to.
WelcomesTrue ==
  \A c \in Client, id \in Nat : Welcome(c, id) \in network =>
    c \in Known /\ addressToClient[c] = id

\* A game over on its way names a player whose claim was taken.
GameOversTrue ==
  \A c \in Client, id \in Nat : GameOver(c, id) \in network =>
    \E d \in claims : addressToClient[d] = id

ClaimsKnown == claims \subseteq Known

\* A client has no id until it is welcomed, and then the server's.
ClientsAgree ==
  \A c \in Client :
    /\ state[c] = "NCS_SayingHello" => playerId[c] = -1
    /\ state[c] = "NCS_Welcomed" => c \in Known /\ playerId[c] = addressToClient[c]

SessionInv ==
  /\ TypeOK /\ PlayersApart /\ WelcomesTrue /\ GameOversTrue /\ ClaimsKnown /\ ClientsAgree
  /\ WonOnlyByClaim /\ LostOnlyToAnother

---------------------------------------------------------------------------
(* The four kinds of packet are different, and each names its client and id. *)
LEMMA PacketsDiffer ==
  ASSUME NEW c, NEW d, NEW i, NEW j
  PROVE  /\ Welcome(c, i) # Hello(d) /\ Welcome(c, i) # ClaimWin(d)
         /\ Welcome(c, i) # GameOver(d, j)
         /\ GameOver(c, i) # Hello(d) /\ GameOver(c, i) # ClaimWin(d)
         /\ (Welcome(c, i) = Welcome(d, j) <=> c = d /\ i = j)
         /\ (GameOver(c, i) = GameOver(d, j) <=> c = d /\ i = j)
  BY DEF Welcome, Hello, ClaimWin, GameOver

(* The set of packets in terms of what they name. *)
LEMMA PacketKinds ==
  ASSUME NEW m
  PROVE  m \in Packet <=>
           \E c \in Client :
             \/ m = Hello(c) \/ m = ClaimWin(c)
             \/ \E id \in PlayerId : m = Welcome(c, id) \/ m = GameOver(c, id)
  BY DEF Packet

(* The ids in use are those below the next one. *)
LEMMA RangesGrow ==
  ASSUME NEW m \in Nat, NEW n \in Nat
  PROVE  /\ m <= n => 0 .. m - 1 \subseteq 0 .. n - 1
         /\ m < n => m \in 0 .. n - 1
  OBVIOUS

(* What is known about ids: they are natural numbers, and NoProxy is none.   *)
LEMMA KnownIds ==
  ASSUME TypeOK, NEW c \in Client
  PROVE  /\ c \in Known <=> addressToClient[c] \in PlayerId
         /\ c \in Known <=> addressToClient[c] # NoProxy
         /\ PlayerId \subseteq Nat /\ NewPlayerId \in Nat /\ NewPlayerId \notin PlayerId
         /\ addressToClient[c] \in PlayerId => addressToClient[c] \in Nat
<1>1. PlayerId \subseteq Nat /\ NewPlayerId \in Nat /\ NewPlayerId \notin PlayerId
  BY DEF TypeOK, PlayerId
<1>2. NoProxy \notin PlayerId
  BY ProxyAssumption DEF PlayerId
<1> QED BY <1>1, <1>2 DEF TypeOK, Known

LEMMA SessionInvInit == Init => SessionInv
<1> SUFFICES ASSUME Init PROVE SessionInv
  OBVIOUS
<1>1. TypeOK
  BY DEF Init, TypeOK, PlayerId
<1>2. Known = {}
  BY DEF Init, Known
<1>3. WonOnlyByClaim /\ LostOnlyToAnother /\ ClaimsKnown /\ WelcomesTrue /\ GameOversTrue
  BY DEF Init, WonOnlyByClaim, LostOnlyToAnother, ClaimsKnown, WelcomesTrue, GameOversTrue
<1>4. PlayersApart /\ ClientsAgree
  BY <1>2 DEF Init, PlayersApart, ClientsAgree
<1> QED BY <1>1, <1>3, <1>4 DEF SessionInv

---------------------------------------------------------------------------
(* A hello from an unknown address makes a player with a new id; the others  *)
(* keep theirs.  Every hello is answered with the id of its sender.          *)
LEMMA ServerReadsHelloStep ==
  ASSUME SessionInv, NEW c \in Client, ServerReadsHello(c)
  PROVE  SessionInv'
<1> USE DEF SessionInv
<1>0. UNCHANGED <<clientVars, claims>>
  BY DEF ServerReadsHello
<1>1. PICK id \in Nat :
        /\ network' = network \cup {Welcome(c, id)}
        /\ addressToClient' = [addressToClient EXCEPT ![c] = id]
        /\ NewPlayerId' \in {NewPlayerId, NewPlayerId + 1} /\ id < NewPlayerId'
        /\ c \in Known => id = addressToClient[c]
        /\ c \notin Known => id = NewPlayerId
  <2>1. CASE c \in Known
    <3>1. addressToClient[c] \in Nat /\ addressToClient[c] < NewPlayerId
      BY <2>1, KnownIds DEF PlayerId
    <3>2. addressToClient = [addressToClient EXCEPT ![c] = addressToClient[c]]
      BY DEF TypeOK
    <3> QED BY <2>1, <3>1, <3>2 DEF ServerReadsHello, serverVars
  <2>2. CASE c \notin Known
    BY <2>2 DEF ServerReadsHello, TypeOK
  <2> QED BY <2>1, <2>2
<1>2. NewPlayerId \in Nat /\ NewPlayerId' \in Nat
      /\ PlayerId \subseteq PlayerId' /\ id \in PlayerId'
  <2>1. NewPlayerId \in Nat /\ NewPlayerId' \in Nat /\ NewPlayerId <= NewPlayerId'
    BY <1>1 DEF TypeOK
  <2>2. PlayerId = 0 .. NewPlayerId - 1 /\ PlayerId' = 0 .. NewPlayerId' - 1
    BY DEF PlayerId
  <2>3. PlayerId \subseteq PlayerId'
    BY <2>1, <2>2, RangesGrow
  <2>4. id \in PlayerId'
    BY <1>1, <2>1, <2>2, RangesGrow
  <2> QED BY <2>1, <2>3, <2>4
<1>3. addressToClient \in [Client -> PlayerId \cup {NoProxy}]
  BY DEF TypeOK
<1>4. addressToClient' \in [Client -> PlayerId' \cup {NoProxy}]
  BY <1>1, <1>2, <1>3
<1>5. Packet \subseteq Packet' /\ Welcome(c, id) \in Packet'
  BY <1>2 DEF Packet
<1>6. TypeOK'
  <2>1. network' \subseteq Packet'
    BY <1>1, <1>5 DEF TypeOK
  <2>2. playerId' \in [Client -> PlayerId' \cup {-1}]
    BY <1>0, <1>2 DEF TypeOK, clientVars
  <2>3. verdicts' \in [Client -> SUBSET [winner : PlayerId', won : BOOLEAN, welcomed : BOOLEAN]]
    <3>1. [winner : PlayerId, won : BOOLEAN, welcomed : BOOLEAN]
            \subseteq [winner : PlayerId', won : BOOLEAN, welcomed : BOOLEAN]
      BY <1>2
    <3> QED BY <1>0, <3>1 DEF TypeOK, clientVars
  <2> QED BY <1>0, <1>2, <1>4, <2>1, <2>2, <2>3 DEF TypeOK, clientVars
<1>7. /\ Known' = Known \cup {c}
      /\ \A d \in Known : addressToClient'[d] = addressToClient[d]
      /\ addressToClient'[c] = id
  <2>1. id # NoProxy
    BY ProxyAssumption
  <2> QED BY <1>1, <1>3, <2>1 DEF Known
<1>8. PlayersApart'
  <2>1. \A d \in Known : addressToClient[d] < NewPlayerId /\ addressToClient[d] \in Nat
    BY KnownIds DEF PlayerId, Known
  <2>2. \A d \in Known \ {c} : addressToClient[d] # id
    BY <1>1, <2>1 DEF PlayersApart
  <2> QED BY <1>7, <2>2 DEF PlayersApart
<1>9. WelcomesTrue'
  BY <1>1, <1>7, PacketsDiffer DEF WelcomesTrue
<1>10. GameOversTrue' /\ ClaimsKnown'
  BY <1>0, <1>1, <1>7, PacketsDiffer DEF GameOversTrue, ClaimsKnown
<1>11. ClientsAgree'
  BY <1>0, <1>7 DEF ClientsAgree, clientVars
<1>12. WonOnlyByClaim' /\ LostOnlyToAnother'
  BY <1>0, <1>7 DEF WonOnlyByClaim, LostOnlyToAnother, ClaimsKnown, clientVars
<1> QED BY <1>6, <1>8, <1>9, <1>10, <1>11, <1>12

(* A claim from a known client makes it a winner and is announced to all.    *)
LEMMA ServerReadsWinStep ==
  ASSUME SessionInv, NEW c \in Client, ServerReadsWin(c)
  PROVE  SessionInv'
<1> USE DEF SessionInv
<1>0. UNCHANGED <<serverVars, clientVars>>
  BY DEF ServerReadsWin
<1>1. Known' = Known /\ PlayerId' = PlayerId /\ Packet' = Packet
  BY <1>0 DEF serverVars, Known, PlayerId, Packet
<1>2. CASE c \notin Known
  <2>1. UNCHANGED vars
    BY <1>0, <1>2 DEF ServerReadsWin, vars
  <2> QED BY <1>1, <2>1 DEF vars, serverVars, clientVars, TypeOK, PlayersApart, WelcomesTrue,
               GameOversTrue, ClaimsKnown, ClientsAgree, WonOnlyByClaim, LostOnlyToAnother
<1>3. CASE c \in Known
  <2>1. /\ network' = network \cup {GameOver(d, addressToClient[c]) : d \in Known}
        /\ claims' = claims \cup {c}
    BY <1>3 DEF ServerReadsWin, HandleWinPacket
  <2>2. {GameOver(d, addressToClient[c]) : d \in Known} \subseteq Packet
    BY <1>3, KnownIds, PacketKinds DEF Known
  <2>3. TypeOK'
    BY <1>0, <1>1, <2>1, <2>2 DEF TypeOK, serverVars, clientVars
  <2>4. GameOversTrue'
    <3> SUFFICES ASSUME NEW d \in Client, NEW id \in Nat, GameOver(d, id) \in network'
                 PROVE  \E e \in claims' : addressToClient[e] = id
      BY <1>0 DEF GameOversTrue, serverVars
    <3>1. CASE GameOver(d, id) \in network
      BY <2>1, <3>1 DEF GameOversTrue
    <3>2. CASE GameOver(d, id) \notin network
      BY <2>1, <3>2, PacketsDiffer
    <3> QED BY <3>1, <3>2
  <2>5. WelcomesTrue'
    BY <1>0, <1>1, <2>1, PacketsDiffer DEF WelcomesTrue, serverVars
  <2>6. PlayersApart' /\ ClaimsKnown' /\ ClientsAgree'
    BY <1>0, <1>1, <1>3, <2>1 DEF PlayersApart, ClaimsKnown, ClientsAgree, serverVars, clientVars
  <2>7. WonOnlyByClaim' /\ LostOnlyToAnother'
    BY <1>0, <2>1 DEF WonOnlyByClaim, LostOnlyToAnother, serverVars, clientVars
  <2> QED BY <2>3, <2>4, <2>5, <2>6, <2>7
<1> QED BY <1>2, <1>3

(* Steps of a client that say something, or quit: they add no welcome and no *)
(* game over.                                                                *)
LEMMA QuietStep ==
  ASSUME SessionInv,
         \/ \E c \in Client : PressReturn(c) \/ CloseWindow(c) \/ EndFrame(c)
         \/ UNCHANGED vars
  PROVE  SessionInv'
<1> USE DEF SessionInv
<1>1. UNCHANGED <<serverVars, state, playerId, verdicts, claims>>
  BY DEF PressReturn, CloseWindow, EndFrame, clientVars, vars
<1>2. \E s \in SUBSET ({Hello(c) : c \in Client} \cup {ClaimWin(c) : c \in Client}) :
        network' \subseteq network \cup s
  <2>1. CASE \E c \in Client : PressReturn(c) \/ EndFrame(c)
    BY <2>1 DEF PressReturn, EndFrame
  <2>2. CASE network' \subseteq network
    BY <2>2
  <2> QED BY <2>1, <2>2 DEF CloseWindow, vars
<1>3. Known' = Known /\ PlayerId' = PlayerId /\ Packet' = Packet
  BY <1>1 DEF serverVars, Known, PlayerId, Packet
<1>4. quit' \in [Client -> BOOLEAN] /\ exited' \in [Client -> BOOLEAN]
  BY DEF TypeOK, PressReturn, CloseWindow, EndFrame, clientVars, vars
<1>5. network' \subseteq Packet
  BY <1>2 DEF TypeOK, Packet
<1>6. TypeOK'
  BY <1>1, <1>3, <1>4, <1>5 DEF TypeOK, serverVars
<1>7. \A c \in Client, id \in Nat :
        /\ Welcome(c, id) \in network' => Welcome(c, id) \in network
        /\ GameOver(c, id) \in network' => GameOver(c, id) \in network
  BY <1>2, PacketsDiffer
<1>8. WelcomesTrue' /\ GameOversTrue'
  BY <1>1, <1>3, <1>7 DEF WelcomesTrue, GameOversTrue, serverVars
<1>9. PlayersApart' /\ ClaimsKnown' /\ ClientsAgree' /\ WonOnlyByClaim' /\ LostOnlyToAnother'
  BY <1>1, <1>3 DEF PlayersApart, ClaimsKnown, ClientsAgree, WonOnlyByClaim, LostOnlyToAnother,
                    serverVars
<1> QED BY <1>6, <1>8, <1>9

(* The first welcome gives a client the id that the server has for it.       *)
LEMMA HandleWelcomePacketStep ==
  ASSUME SessionInv, NEW c \in Client, NEW id \in PlayerId, HandleWelcomePacket(c, id)
  PROVE  SessionInv'
<1> USE DEF SessionInv
<1>1. UNCHANGED <<network, serverVars, quit, exited, verdicts, claims>>
  BY DEF HandleWelcomePacket
<1>2. Known' = Known /\ PlayerId' = PlayerId /\ Packet' = Packet
  BY <1>1 DEF serverVars, Known, PlayerId, Packet
<1>3. id \in Nat /\ c \in Known /\ addressToClient[c] = id
  BY KnownIds DEF HandleWelcomePacket, WelcomesTrue
<1>4. playerId' \in [Client -> PlayerId \cup {-1}]
      /\ state' \in [Client -> {"NCS_SayingHello", "NCS_Welcomed"}]
  BY DEF HandleWelcomePacket, TypeOK
<1>5. TypeOK'
  BY <1>1, <1>2, <1>4 DEF TypeOK, serverVars
<1>6. ClientsAgree'
  BY <1>1, <1>2, <1>3 DEF HandleWelcomePacket, ClientsAgree, TypeOK, serverVars
<1>7. /\ PlayersApart' /\ WelcomesTrue' /\ GameOversTrue' /\ ClaimsKnown'
      /\ WonOnlyByClaim' /\ LostOnlyToAnother'
  BY <1>1, <1>2 DEF PlayersApart, WelcomesTrue, GameOversTrue, ClaimsKnown, WonOnlyByClaim,
                    LostOnlyToAnother, serverVars
<1> QED BY <1>5, <1>6, <1>7

(* The verdict of a welcomed client is right, because its id is the          *)
(* server's, the winner claimed, and ids are not shared.                     *)
LEMMA HandleGameOverPacketStep ==
  ASSUME SessionInv, NEW c \in Client, NEW id \in PlayerId, HandleGameOverPacket(c, id)
  PROVE  SessionInv'
<1> USE DEF SessionInv
<1>1. UNCHANGED <<network, serverVars, state, playerId, exited, claims>>
  BY DEF HandleGameOverPacket
<1>2. Known' = Known /\ PlayerId' = PlayerId /\ Packet' = Packet
  BY <1>1 DEF serverVars, Known, PlayerId, Packet
<1>3. /\ verdicts' = [verdicts EXCEPT ![c] = @ \cup {Verdict(c, id)}]
      /\ quit' = [quit EXCEPT ![c] = TRUE]
  BY DEF HandleGameOverPacket
<1>4. id \in Nat
  BY KnownIds
<1>5. PICK d \in claims : addressToClient[d] = id
  BY <1>4 DEF HandleGameOverPacket, GameOversTrue
<1>6. d \in Known /\ d \in Client
  BY <1>5 DEF ClaimsKnown, Known
<1>7. Verdict(c, id) \in [winner : PlayerId, won : BOOLEAN, welcomed : BOOLEAN]
  BY DEF Verdict
<1>8. TypeOK'
  <2>1. verdicts' \in [Client -> SUBSET [winner : PlayerId, won : BOOLEAN, welcomed : BOOLEAN]]
    BY <1>3, <1>7 DEF TypeOK
  <2>2. quit' \in [Client -> BOOLEAN]
    BY <1>3 DEF TypeOK
  <2> QED BY <1>1, <1>2, <2>1, <2>2 DEF TypeOK, serverVars
<1>9. state[c] \in {"NCS_SayingHello", "NCS_Welcomed"}
  BY DEF TypeOK
<1>10. Verdict(c, id).won => c \in claims
  <2> SUFFICES ASSUME id = playerId[c] PROVE c \in claims
    BY DEF Verdict
  <2>1. state[c] = "NCS_Welcomed" /\ c \in Known /\ playerId[c] = addressToClient[c]
    BY <1>4, <1>9 DEF ClientsAgree
  <2> QED BY <1>5, <1>6, <2>1 DEF PlayersApart
<1>11. Verdict(c, id).welcomed /\ ~Verdict(c, id).won =>
         \E e \in claims \ {c} : addressToClient[e] = id
  BY <1>5 DEF Verdict, ClientsAgree
<1>12. \A e \in Client : \A v \in verdicts'[e] :
         v \in verdicts[e] \/ (e = c /\ v = Verdict(c, id))
  BY <1>3 DEF TypeOK
<1>13. WonOnlyByClaim'
  BY <1>1, <1>10, <1>12 DEF WonOnlyByClaim
<1>14. LostOnlyToAnother'
  <2>1. Verdict(c, id).winner = id
    BY DEF Verdict
  <2> QED BY <1>1, <1>11, <1>12, <2>1 DEF LostOnlyToAnother, serverVars
<1>15. PlayersApart' /\ WelcomesTrue' /\ GameOversTrue' /\ ClaimsKnown' /\ ClientsAgree'
  BY <1>1, <1>2 DEF PlayersApart, WelcomesTrue, GameOversTrue, ClaimsKnown, ClientsAgree, serverVars
<1> QED BY <1>8, <1>13, <1>14, <1>15

LEMMA SessionInvStep == SessionInv /\ [Next]_vars => SessionInv'
  BY ServerReadsHelloStep, ServerReadsWinStep, QuietStep, HandleWelcomePacketStep,
     HandleGameOverPacketStep DEF Next, Reads

(* The inductive invariant of joining and winning.                           *)
THEOREM SessionInvariance == Spec => []SessionInv
  BY SessionInvInit, SessionInvStep, PTL DEF Spec

---------------------------------------------------------------------------
(* Every variable keeps its type; in particular an id is always below the    *)
(* server's NewPlayerId (ServerNetworkManager.cpp:58).                       *)
THEOREM SessionTypeCorrect == Spec => []TypeOK
<1>1. SessionInv => TypeOK
  BY DEF SessionInv
<1> QED BY <1>1, SessionInvariance, PTL

(* However hellos and welcomes are lost, repeated or delayed, a welcomed     *)
(* client goes by the id that the server has for its address, and by no      *)
(* other client's (ServerNetworkManager.cpp:51-80, ClientNetworkManager.cpp: *)
(* 71-77).                                                                   *)
THEOREM WelcomedIdHolds == Spec => []WelcomedIdIsTheServers
<1>1. SessionInv => WelcomedIdIsTheServers
  <2> SUFFICES ASSUME SessionInv, NEW c \in Client, state[c] = "NCS_Welcomed"
               PROVE  /\ playerId[c] = addressToClient[c]
                      /\ \A d \in Client \ {c} : playerId[d] # playerId[c]
    BY DEF WelcomedIdIsTheServers
  <2>1. c \in Known /\ playerId[c] = addressToClient[c] /\ playerId[c] \in Nat
    BY KnownIds DEF SessionInv, ClientsAgree
  <2>2. ASSUME NEW d \in Client \ {c} PROVE playerId[d] # playerId[c]
    <3>1. CASE state[d] = "NCS_SayingHello"
      BY <2>1, <3>1 DEF SessionInv, ClientsAgree
    <3>2. CASE state[d] = "NCS_Welcomed"
      BY <2>1, <3>2 DEF SessionInv, ClientsAgree, PlayersApart
    <3> QED BY <3>1, <3>2 DEF SessionInv, TypeOK
  <2> QED BY <2>1, <2>2
<1> QED BY <1>1, SessionInvariance, PTL

(* Only a client whose claim the server took is told that it won.            *)
THEOREM WonOnlyByClaimHolds == Spec => []WonOnlyByClaim
<1>1. SessionInv => WonOnlyByClaim
  BY DEF SessionInv
<1> QED BY <1>1, SessionInvariance, PTL

(* A welcomed client is told that it lost only if another claimed the win.   *)
THEOREM LostOnlyToAnotherHolds == Spec => []LostOnlyToAnother
<1>1. SessionInv => LostOnlyToAnother
  BY DEF SessionInv
<1> QED BY <1>1, SessionInvariance, PTL
=============================================================================
