------------------------------ MODULE Session ------------------------------
(***************************************************************************)
(* Clients join a server and race for the win: ClientNetworkManager and    *)
(* the client's frame loop on one side, ServerNetworkManager on the other. *)
(* A client says hello in every frame until it is welcomed; the Return key *)
(* claims the win; the server tells every player it knows who won; a       *)
(* client that is told quits at the end of its frame.                      *)
(*                                                                         *)
(* network holds every packet that was sent.  UDP may lose a packet,       *)
(* deliver it more than once, and deliver packets in any order: any packet *)
(* of network may be read next, again, or never.                           *)
(***************************************************************************)
EXTENDS Integers, FiniteSets

CONSTANTS
  Client,      \* the clients, each with a socket address of its own
  NoProxy      \* the server knows no client at this address

ASSUME ProxyAssumption == NoProxy \notin Int

VARIABLES
  network,
  addressToClient,    \* server: player id of the ClientProxy of each address
  NewPlayerId,        \* server
  state,              \* client: NCS_SayingHello or NCS_Welcomed
  playerId,           \* client
  quit,               \* client: Engine::quit
  exited,             \* client: Engine::Run has returned
  verdicts,           \* history: results logged by HandleGameOverPacket
  claims              \* history: clients whose win packet HandleWinPacket took

serverVars == <<addressToClient, NewPlayerId>>
clientVars == <<state, playerId, quit, exited, verdicts>>
vars == <<network, serverVars, clientVars, claims>>

Hello(c) == [type |-> "HelloPacketId", client |-> c]
ClaimWin(c) == [type |-> "WinPacketId", client |-> c]
Welcome(c, id) == [type |-> "WelcomePacketId", to |-> c, id |-> id]
GameOver(c, winner) == [type |-> "WinPacketId", to |-> c, id |-> winner]

Known == {c \in Client : addressToClient[c] # NoProxy}

Init ==
  /\ network = {}
  /\ addressToClient = [c \in Client |-> NoProxy]
  /\ NewPlayerId = 0
  /\ state = [c \in Client |-> "NCS_SayingHello"]
  /\ playerId = [c \in Client |-> -1]
  /\ quit = [c \in Client |-> FALSE]
  /\ exited = [c \in Client |-> FALSE]
  /\ verdicts = [c \in Client |-> {}]
  /\ claims = {}

---------------------------------------------------------------------------
(* The server *)

\* Mutant: NewPlayerId is not incremented.
ServerReadsHelloUncounted(c) ==
  /\ Hello(c) \in network
  /\ addressToClient' = [addressToClient EXCEPT ![c] = NewPlayerId]
  /\ network' = network \cup {Welcome(c, NewPlayerId)}
  /\ UNCHANGED <<NewPlayerId, clientVars, claims>>

\* Mutant: every hello makes a new player.
ServerReadsHelloAnew(c) ==
  /\ Hello(c) \in network
  /\ addressToClient' = [addressToClient EXCEPT ![c] = NewPlayerId]
  /\ NewPlayerId' = NewPlayerId + 1
  /\ network' = network \cup {Welcome(c, NewPlayerId)}
  /\ UNCHANGED <<clientVars, claims>>

\* A hello from an unknown address makes a new player; any hello is welcomed.
ServerReadsHello(c) ==
  /\ Hello(c) \in network
  /\ IF c \in Known
     THEN /\ network' = network \cup {Welcome(c, addressToClient[c])}
          /\ UNCHANGED serverVars
     ELSE /\ addressToClient' = [addressToClient EXCEPT ![c] = NewPlayerId]
          /\ NewPlayerId' = NewPlayerId + 1
          /\ network' = network \cup {Welcome(c, NewPlayerId)}
  /\ UNCHANGED <<clientVars, claims>>

\* Mutant: every player is sent its own id.
HandleWinPacketOwnId(c) ==
  /\ network' = network \cup {GameOver(d, addressToClient[d]) : d \in Known}
  /\ claims' = claims \cup {c}

\* Mutant: the newest player is taken for the winner.
HandleWinPacketNewest(c) ==
  /\ network' = network \cup {GameOver(d, NewPlayerId - 1) : d \in Known}
  /\ claims' = claims \cup {c}

\* The id in the packet is not looked at: the sender's address says who won.
HandleWinPacket(c) ==
  /\ network' = network \cup {GameOver(d, addressToClient[c]) : d \in Known}
  /\ claims' = claims \cup {c}

\* A win from an unknown address is only logged.
ServerReadsWin(c) ==
  /\ ClaimWin(c) \in network
  /\ IF c \in Known THEN HandleWinPacket(c) ELSE UNCHANGED <<network, claims>>
  /\ UNCHANGED <<serverVars, clientVars>>

---------------------------------------------------------------------------
(* A client's frame polls one event, reads packets and sends.  A frame may   *)
(* find no event and no packet, so until the client quits the steps below    *)
(* come in any order; once it quits it polls no more and sends once more.    *)

\* Key down and key up alike, welcomed or not.
PressReturn(c) ==
  /\ ~quit[c]
  /\ network' = network \cup {ClaimWin(c)}
  /\ UNCHANGED <<serverVars, clientVars, claims>>

\* SDL_QUIT: the frame it comes in is still finished.
CloseWindow(c) ==
  /\ ~quit[c]
  /\ quit' = [quit EXCEPT ![c] = TRUE]
  /\ UNCHANGED <<network, serverVars, state, playerId, exited, verdicts, claims>>

HandleWelcomePacket(c, id) ==
  /\ ~exited[c]
  /\ Welcome(c, id) \in network
  /\ IF state[c] = "NCS_SayingHello"
     THEN /\ playerId' = [playerId EXCEPT ![c] = id]
          /\ state' = [state EXCEPT ![c] = "NCS_Welcomed"]
     ELSE UNCHANGED <<playerId, state>>
  /\ UNCHANGED <<network, serverVars, quit, exited, verdicts, claims>>

\* A verdict as it is logged: the winner's id, who it is taken to be, and
\* whether the client had its own id by then.
Verdict(c, winner) ==
  [winner |-> winner, won |-> winner = playerId[c], welcomed |-> state[c] = "NCS_Welcomed"]

\* The packets behind this one in the queue are still handled before the
\* client quits, so it may log more than one verdict.
HandleGameOverPacket(c, winner) ==
  /\ ~exited[c]
  /\ GameOver(c, winner) \in network
  /\ verdicts' = [verdicts EXCEPT ![c] = @ \cup {Verdict(c, winner)}]
  /\ quit' = [quit EXCEPT ![c] = TRUE]
  /\ UNCHANGED <<network, serverVars, state, playerId, exited, claims>>

\* SendOutgoingPackets, and the test at the head of Engine::Run's loop.
EndFrame(c) ==
  /\ ~exited[c]
  /\ network' = IF state[c] = "NCS_SayingHello" THEN network \cup {Hello(c)} ELSE network
  /\ exited' = [exited EXCEPT ![c] = quit[c]]
  /\ UNCHANGED <<serverVars, state, playerId, quit, verdicts, claims>>

---------------------------------------------------------------------------
PlayerId == 0 .. NewPlayerId - 1
Reads(c) == \E id \in PlayerId : HandleWelcomePacket(c, id) \/ HandleGameOverPacket(c, id)

Next ==
  \E c \in Client :
    \/ ServerReadsHello(c) \/ ServerReadsWin(c)
    \/ PressReturn(c) \/ CloseWindow(c) \/ Reads(c) \/ EndFrame(c)

\* Who is welcomed and told in the end is in ClientServer.
Spec == Init /\ [][Next]_vars

---------------------------------------------------------------------------
Packet ==
  {Hello(c) : c \in Client} \cup {ClaimWin(c) : c \in Client}
    \cup {Welcome(c, id) : c \in Client, id \in PlayerId}
    \cup {GameOver(c, id) : c \in Client, id \in PlayerId}

TypeOK ==
  /\ network \subseteq Packet
  /\ addressToClient \in [Client -> PlayerId \cup {NoProxy}]
  /\ NewPlayerId \in Nat
  /\ state \in [Client -> {"NCS_SayingHello", "NCS_Welcomed"}]
  /\ playerId \in [Client -> PlayerId \cup {-1}]
  /\ quit \in [Client -> BOOLEAN]
  /\ exited \in [Client -> BOOLEAN]
  /\ verdicts \in [Client -> SUBSET [winner : PlayerId, won : BOOLEAN, welcomed : BOOLEAN]]
  /\ claims \subseteq Client

(* However often hellos and welcomes are lost or repeated, a welcomed client *)
(* goes by the id the server knows it by, and no two of them share it.       *)
WelcomedIdIsTheServers ==
  \A c \in Client : state[c] = "NCS_Welcomed" =>
    /\ playerId[c] = addressToClient[c]
    /\ \A d \in Client \ {c} : playerId[d] # playerId[c]

(* "You won!" is logged only by a client whose claim the server took.        *)
WonOnlyByClaim ==
  \A c \in Client : \A v \in verdicts[c] : v.won => c \in claims

(* "You lost!" is logged by a welcomed client only if another one claimed    *)
(* the win.  A client that is not yet welcomed may be told so of its own win.*)
LostOnlyToAnother ==
  \A c \in Client : \A v \in verdicts[c] :
    v.welcomed /\ ~v.won => \E d \in claims \ {c} : addressToClient[d] = v.winner

============================================================================
