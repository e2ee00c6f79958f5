---------------------------- MODULE ClientServer ----------------------------
(***************************************************************************)
(* Joining and winning as the programs run it: the frames of the clients   *)
(* and of the server, each a loop that empties its socket into a queue and *)
(* handles the packets of the queue that are due.  All run on one machine  *)
(* (the client connects to 127.0.0.1:2000), so that packets reach a socket *)
(* in the order they are sent, or not at all: nobody has the port yet, the *)
(* socket's buffer is full, or its owner has left.                         *)
(***************************************************************************)
EXTENDS Integers, Sequences, SequencesExt

CONSTANTS
  Client,
  Server,                     \* the server's process
  NoProxy, NoClaim,
  kMaxPacketsPerFrameCount,
  MaxHeld,                    \* bound: packets in a socket and the queue behind it
  MaxPresses                  \* bound: how often each player presses Return

ASSUME ProcessAssumption ==
  /\ Server \notin Client
  /\ NoProxy \notin Int
  /\ NoClaim \notin [winner : Int, players : SUBSET Client]
  /\ kMaxPacketsPerFrameCount \in Nat \ {0}
  /\ MaxHeld \in [Client \cup {Server} -> Nat \ {0}]
  /\ MaxPresses \in [Client -> Nat]

Process == Client \cup {Server}

VARIABLES
  held,                 \* packets in each process's queue and, behind them, its socket
  queued,               \* how many of them are in the queue
  frame,                \* where each process is in its frame
  addressToClient, NewPlayerId, state, playerId, quit,
  presses,
  sent,                 \* history: packets that were sent
  verdicts,             \* history: results each client logged, in order
  claims,               \* history: clients whose win packet was handled
  firstClaim,           \* history: the winner's id and the players it went to
  missed                \* history: clients that a game over did not reach

netVars == <<held, queued, frame>>
serverVars == <<addressToClient, NewPlayerId>>
clientVars == <<state, playerId, quit, presses, verdicts>>
histories == <<claims, firstClaim, missed>>
vars == <<netVars, serverVars, clientVars, sent, histories>>

Session == INSTANCE Session WITH
  network <- sent,
  exited <- [c \in Client |-> frame[c] = "left"],
  verdicts <- [c \in Client |-> ToSet(verdicts[c])]

Known == {c \in Client : addressToClient[c] # NoProxy}

Init ==
  /\ held = [p \in Process |-> <<>>] /\ queued = [p \in Process |-> 0]
  /\ frame = [p \in Process |-> IF p = Server THEN "down" ELSE "polling"]
  /\ addressToClient = [c \in Client |-> NoProxy] /\ NewPlayerId = 0
  /\ state = [c \in Client |-> "NCS_SayingHello"]
  /\ playerId = [c \in Client |-> -1]
  /\ quit = [c \in Client |-> FALSE]
  /\ presses = [c \in Client |-> 0]
  /\ sent = {}
  /\ verdicts = [c \in Client |-> <<>>]
  /\ claims = {} /\ firstClaim = NoClaim /\ missed = {}

---------------------------------------------------------------------------
(* SendPacket and the loopback interface *)

Reachable(p) == frame[p] \notin {"down", "left"} /\ Len(held[p]) < MaxHeld[p]

\* To each receiver, a member of DOMAIN m, its packet, when the processes hold h.
Send(h, m) ==
  /\ sent' = sent \cup {m[p] : p \in DOMAIN m}
  /\ held' = [p \in Process |->
       IF p \in DOMAIN m /\ Reachable(p) THEN Append(h[p], m[p]) ELSE h[p]]

---------------------------------------------------------------------------
(* NetworkManager *)

\* Mutant: the frame is taken to be full.
ReadFullFrame(p) ==
  /\ queued' = [queued EXCEPT ![p] = @ + kMaxPacketsPerFrameCount]
  /\ frame' = [frame EXCEPT ![p] = "processing"]

\* A frame of p begins with this, as far as packets go.  It is one step: a
\* packet that arrives meanwhile may be taken to come before it or after it.
ReadIncomingPacketsIntoQueue(p) ==
  /\ queued' = [queued EXCEPT ![p] = Min({Len(held[p]), @ + kMaxPacketsPerFrameCount})]
  /\ frame' = [frame EXCEPT ![p] = "processing"]

\* ProcessQueuedPackets hands the front of the queue to ProcessPacket.
Handles(p, m) ==
  /\ frame[p] = "processing" /\ queued[p] > 0
  /\ m = Head(held[p])
  /\ queued' = [queued EXCEPT ![p] = @ - 1]
  /\ UNCHANGED frame

WithoutFront(p) == [held EXCEPT ![p] = Tail(@)]

---------------------------------------------------------------------------
(* The server's frame *)

\* The port is bound once ServerNetworkManager::StaticInit returns.  What is
\* left in the queue of a frame that ends is not due yet; SendOutgoingPackets
\* has nothing to send, as no proxy has a dirty timestamp.
ServerBeginsFrame ==
  /\ ReadIncomingPacketsIntoQueue(Server)
  /\ UNCHANGED <<held, serverVars, clientVars, sent, histories>>

\* Mutant: a new client has to say hello once more to be welcomed.
ServerHandlesHelloLate(c) ==
  /\ Handles(Server, Session!Hello(c))
  /\ IF c \in Known
     THEN /\ Send(WithoutFront(Server), [p \in {c} |-> Session!Welcome(c, addressToClient[c])])
          /\ UNCHANGED serverVars
     ELSE /\ addressToClient' = [addressToClient EXCEPT ![c] = NewPlayerId]
          /\ NewPlayerId' = NewPlayerId + 1
          /\ held' = WithoutFront(Server) /\ UNCHANGED sent
  /\ UNCHANGED <<clientVars, histories>>

\* Mutant: every hello makes a new player.
ServerHandlesHelloAnew(c) ==
  /\ Handles(Server, Session!Hello(c))
  /\ addressToClient' = [addressToClient EXCEPT ![c] = NewPlayerId]
  /\ NewPlayerId' = NewPlayerId + 1
  /\ Send(WithoutFront(Server), [p \in {c} |-> Session!Welcome(c, NewPlayerId)])
  /\ UNCHANGED <<clientVars, histories>>

\* A new player for a hello from an unknown address; any hello is welcomed.
ServerHandlesHello(c) ==
  /\ Handles(Server, Session!Hello(c))
  /\ IF c \in Known
     THEN UNCHANGED serverVars
     ELSE /\ addressToClient' = [addressToClient EXCEPT ![c] = NewPlayerId]
          /\ NewPlayerId' = NewPlayerId + 1
  /\ Send(WithoutFront(Server), [p \in {c} |-> Session!Welcome(c, addressToClient'[c])])
  /\ UNCHANGED <<clientVars, histories>>

\* A win from an unknown address is only logged.
ServerIgnoresWin(c) ==
  /\ c \notin Known
  /\ Handles(Server, Session!ClaimWin(c))
  /\ held' = WithoutFront(Server)
  /\ UNCHANGED <<serverVars, clientVars, sent, histories>>

\* History of a game over packet, by its winner and the players it is sent to.
Announced(c, players) ==
  /\ claims' = claims \cup {c}
  /\ firstClaim' = IF firstClaim = NoClaim
                   THEN [winner |-> addressToClient[c], players |-> Known]
                   ELSE firstClaim
  /\ missed' = missed \cup {d \in players : ~Reachable(d)}

\* Mutant: every player is sent its own id.
HandleWinPacketOwnId(c) ==
  /\ c \in Known
  /\ Handles(Server, Session!ClaimWin(c))
  /\ Send(WithoutFront(Server), [p \in Known |-> Session!GameOver(p, addressToClient[p])])
  /\ Announced(c, Known)
  /\ UNCHANGED <<serverVars, clientVars>>

\* Mutant: only the winner is told.
HandleWinPacketToWinner(c) ==
  /\ c \in Known
  /\ Handles(Server, Session!ClaimWin(c))
  /\ Send(WithoutFront(Server), [p \in {c} |-> Session!GameOver(p, addressToClient[c])])
  /\ Announced(c, {c})
  /\ UNCHANGED <<serverVars, clientVars>>

HandleWinPacket(c) ==
  /\ c \in Known
  /\ Handles(Server, Session!ClaimWin(c))
  /\ Send(WithoutFront(Server), [p \in Known |-> Session!GameOver(p, addressToClient[c])])
  /\ Announced(c, Known)
  /\ UNCHANGED <<serverVars, clientVars>>

ServerHandles ==
  \E c \in Client : ServerHandlesHello(c) \/ ServerIgnoresWin(c) \/ HandleWinPacket(c)

ServerStep == ServerBeginsFrame \/ ServerHandles

---------------------------------------------------------------------------
(* A client's frame *)

\* No event, or one that means nothing to the client.
PollNothing(c) ==
  /\ frame[c] = "polling"
  /\ ReadIncomingPacketsIntoQueue(c)
  /\ UNCHANGED <<held, serverVars, clientVars, sent, histories>>

PressReturn(c) ==
  /\ frame[c] = "polling" /\ presses[c] < MaxPresses[c]
  /\ presses' = [presses EXCEPT ![c] = @ + 1]
  /\ Send(held, [p \in {Server} |-> Session!ClaimWin(c)])
  /\ ReadIncomingPacketsIntoQueue(c)
  /\ UNCHANGED <<serverVars, state, playerId, quit, verdicts, histories>>

CloseWindow(c) ==
  /\ frame[c] = "polling"
  /\ quit' = [quit EXCEPT ![c] = TRUE]
  /\ ReadIncomingPacketsIntoQueue(c)
  /\ UNCHANGED <<held, serverVars, state, playerId, presses, verdicts, sent, histories>>

HandleWelcomePacket(c, id) ==
  /\ Handles(c, Session!Welcome(c, id))
  /\ held' = WithoutFront(c)
  /\ IF state[c] = "NCS_SayingHello"
     THEN /\ playerId' = [playerId EXCEPT ![c] = id]
          /\ state' = [state EXCEPT ![c] = "NCS_Welcomed"]
     ELSE UNCHANGED <<playerId, state>>
  /\ UNCHANGED <<serverVars, quit, presses, verdicts, sent, histories>>

HandleGameOverPacket(c, winner) ==
  /\ Handles(c, Session!GameOver(c, winner))
  /\ held' = WithoutFront(c)
  /\ verdicts' = [verdicts EXCEPT ![c] = Append(@, Session!Verdict(c, winner))]
  /\ quit' = [quit EXCEPT ![c] = TRUE]
  /\ UNCHANGED <<serverVars, state, playerId, presses, sent, histories>>

ClientHandles(c) ==
  \E id \in Session!PlayerId : HandleWelcomePacket(c, id) \/ HandleGameOverPacket(c, id)

\* Mutant: hello is said once.
EndFrameGreetedOnce(c) ==
  /\ frame[c] = "processing"
  /\ frame' = [frame EXCEPT ![c] = IF quit[c] THEN "left" ELSE "polling"]
  /\ IF state[c] = "NCS_SayingHello" /\ Session!Hello(c) \notin sent
     THEN Send(held, [p \in {Server} |-> Session!Hello(c)])
     ELSE UNCHANGED <<held, sent>>
  /\ UNCHANGED <<queued, serverVars, clientVars, histories>>

\* SendOutgoingPackets, and the test at the head of Engine::Run's loop.
EndFrame(c) ==
  /\ frame[c] = "processing"
  /\ frame' = [frame EXCEPT ![c] = IF quit[c] THEN "left" ELSE "polling"]
  /\ IF state[c] = "NCS_SayingHello"
     THEN Send(held, [p \in {Server} |-> Session!Hello(c)])
     ELSE UNCHANGED <<held, sent>>
  /\ UNCHANGED <<queued, serverVars, clientVars, histories>>

ClientStep(c) ==
  PollNothing(c) \/ PressReturn(c) \/ CloseWindow(c) \/ ClientHandles(c) \/ EndFrame(c)

Next == ServerStep \/ \E c \in Client : ClientStep(c)

\* Every loop goes round, and in some frame what waits in the queue is due
\* (NetworkManager!EventuallyHandled).  Nothing is assumed of what the
\* sockets take, nor of the players.
Spec ==
  /\ Init /\ [][Next]_vars
  /\ WF_vars(ServerStep) /\ SF_vars(ServerHandles)
  /\ \A c \in Client : WF_vars(ClientStep(c)) /\ SF_vars(ClientHandles(c))

---------------------------------------------------------------------------
ClientServerTypeOK ==
  /\ Session!TypeOK
  /\ held \in [Process -> Seq(sent)]
  /\ \A p \in Process : Len(held[p]) <= MaxHeld[p] /\ queued[p] \in 0 .. Len(held[p])
  /\ frame \in [Process -> {"down", "polling", "processing", "left"}]
  /\ \A c \in Client : presses[c] \in 0 .. MaxPresses[c]
  /\ missed \subseteq Client
  /\ firstClaim \in {NoClaim} \cup [winner : Session!PlayerId, players : SUBSET Client]

(* The frames, the sockets and the queues implement Session: whatever order  *)
(* ServerNetworkManager and ClientNetworkManager handle packets in, each     *)
(* handler takes a step that Session allows.                                 *)
ImplementsSession == Session!Init /\ [][Session!Next]_(Session!vars)

(* On one machine a client is never told the result before it is welcomed,   *)
(* even when its socket overflows: so it is told that it won if, and only    *)
(* if, the claim was its own.  (Where packets may overtake each other this   *)
(* fails.)                                                                   *)
ResultAfterWelcome ==
  \A c \in Client : \A i \in 1 .. Len(verdicts[c]) :
    /\ verdicts[c][i].welcomed
    /\ verdicts[c][i].won <=> verdicts[c][i].winner = addressToClient[c]

(* Players that were known at the first claim first hear of its winner,      *)
(* although every further claim is announced, too.                           *)
FirstResultsAgree ==
  firstClaim # NoClaim =>
    \A c \in firstClaim.players \ missed :
      verdicts[c] # <<>> => verdicts[c][1].winner = firstClaim.winner

(* Every client that keeps running is welcomed, although hellos find no      *)
(* server or a full socket, and no fairness of the network is assumed.       *)
EventuallyWelcomed ==
  <>(\A c \in Client : state[c] = "NCS_Welcomed" \/ quit[c])

(* A claim ends the game: every player it was announced to leaves, unless    *)
(* its socket was full, as the announcement is not repeated.                 *)
ClaimEndsGame ==
  firstClaim # NoClaim ~>
    firstClaim # NoClaim /\ \A c \in firstClaim.players \ missed : frame[c] = "left"
=============================================================================
