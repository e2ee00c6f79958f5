------------------------- MODULE ClientServerProofs -------------------------
(***************************************************************************)
(* Proof that the frames, queues and sockets of ClientServer implement     *)
(* Session.  A handler acts on the packet at the front of its queue, which *)
(* is one that was sent; a client that quits polls no more.  And of the    *)
(* order the socket adds to Session: a client is welcomed before it is     *)
(* told a result, and told the first result first.                         *)
(***************************************************************************)
EXTENDS ClientServer, SequenceTheorems, TLAPS

\* The packets, whatever their ids.
PacketType == {"HelloPacketId", "WelcomePacketId", "WinPacketId"}
AnyPacket ==
  [type : PacketType, client : Client]
    \cup [type : PacketType, to : Client, id : Int \cup {NoProxy}]
AnyVerdict == [winner : Int, won : BOOLEAN, welcomed : BOOLEAN]

ImplTypeOK ==
  /\ held \in [Process -> Seq(AnyPacket)]
  /\ queued \in [Process -> Nat]
  /\ frame \in [Process -> {"down", "polling", "processing", "left"}]
  /\ addressToClient \in [Client -> Int \cup {NoProxy}]
  /\ NewPlayerId \in Nat
  /\ state \in [Client -> {"NCS_SayingHello", "NCS_Welcomed"}]
  /\ playerId \in [Client -> Int]
  /\ quit \in [Client -> BOOLEAN]
  /\ verdicts \in [Client -> Seq(AnyVerdict)]

\* What a process holds was sent, and its queue is part of it.
HeldInv ==
  \A p \in Process :
    /\ queued[p] <= Len(held[p])
    /\ \A i \in 1 .. Len(held[p]) : held[p][i] \in sent

\* Quit is tested before the next event is polled.
QuitInv == \A c \in Client : frame[c] = "polling" => ~quit[c]

ImplInv == ImplTypeOK /\ HeldInv /\ QuitInv

---------------------------------------------------------------------------
LEMMA MinOfTwo ==
  ASSUME NEW a \in Nat, NEW b \in Nat
  PROVE  Min({a, b}) \in Nat /\ Min({a, b}) <= a
<1>1. \E x \in {a, b} : \A y \in {a, b} : x <= y
  OBVIOUS
<1> QED BY <1>1 DEF Min

LEMMA ToSetOfAppend ==
  ASSUME NEW S, NEW s \in Seq(S), NEW x \in S
  PROVE  ToSet(Append(s, x)) = ToSet(s) \cup {x}
<1>1. /\ Append(s, x) \in Seq(S) /\ Len(Append(s, x)) = Len(s) + 1
      /\ \A i \in 1 .. Len(s) : Append(s, x)[i] = s[i]
      /\ Append(s, x)[Len(s) + 1] = x
      /\ Len(s) \in Nat /\ DOMAIN s = 1 .. Len(s)
      /\ DOMAIN Append(s, x) = 1 .. Len(s) + 1
  BY AppendProperties, LenProperties
<1>2. ASSUME NEW y \in ToSet(Append(s, x)) PROVE y \in ToSet(s) \cup {x}
  BY <1>1, <1>2 DEF ToSet
<1>3. ASSUME NEW y \in ToSet(s) PROVE y \in ToSet(Append(s, x))
  BY <1>1, <1>3 DEF ToSet
<1>4. x \in ToSet(Append(s, x))
  <2>1. Len(s) + 1 \in DOMAIN Append(s, x)
    BY <1>1
  <2> QED BY <1>1, <2>1 DEF ToSet
<1> QED BY <1>2, <1>3, <1>4

(* The packet that is handled was sent, and what is left keeps the invariant. *)
LEMMA FrontWasSent ==
  ASSUME ImplInv, NEW p \in Process, NEW m, Handles(p, m)
  PROVE  /\ m \in sent
         /\ Tail(held[p]) \in Seq(AnyPacket)
         /\ Len(Tail(held[p])) = Len(held[p]) - 1
         /\ \A i \in 1 .. Len(Tail(held[p])) : Tail(held[p])[i] \in sent
         /\ queued' = [queued EXCEPT ![p] = @ - 1]
         /\ queued'[p] \in Nat /\ queued'[p] <= Len(Tail(held[p]))
<1>1. /\ held[p] \in Seq(AnyPacket) /\ Len(held[p]) \in Nat /\ queued[p] \in Nat
      /\ queued[p] > 0 /\ queued[p] <= Len(held[p])
  BY LenProperties DEF ImplInv, ImplTypeOK, HeldInv, Handles
<1>2. held[p] # <<>>
  BY <1>1, EmptySeq
<1>3. /\ Head(held[p]) = held[p][1]
      /\ Tail(held[p]) \in Seq(AnyPacket)
      /\ Len(Tail(held[p])) = Len(held[p]) - 1
      /\ \A i \in 1 .. Len(Tail(held[p])) : Tail(held[p])[i] = held[p][i + 1]
  BY <1>1, <1>2, HeadTailProperties
<1>4. m \in sent
  BY <1>1, <1>3 DEF Handles, ImplInv, HeldInv
<1>5. \A i \in 1 .. Len(Tail(held[p])) : Tail(held[p])[i] \in sent
  BY <1>1, <1>3 DEF ImplInv, HeldInv
<1>6. queued' = [queued EXCEPT ![p] = @ - 1] /\ queued'[p] = queued[p] - 1
  BY DEF Handles, ImplInv, ImplTypeOK
<1> QED BY <1>1, <1>3, <1>4, <1>5, <1>6

(* What a process finds in its socket is what it was sent. *)
LEMMA SendKeeps ==
  ASSUME NEW h \in [Process -> Seq(AnyPacket)],
         \A p \in Process : \A i \in 1 .. Len(h[p]) : h[p][i] \in sent,
         NEW D \in SUBSET Process, NEW m \in [D -> AnyPacket],
         Send(h, m)
  PROVE  /\ sent' = sent \cup {m[p] : p \in D}
         /\ held' \in [Process -> Seq(AnyPacket)]
         /\ \A p \in Process :
              /\ Len(h[p]) <= Len(held'[p])
              /\ \A i \in 1 .. Len(held'[p]) : held'[p][i] \in sent'
<1>1. sent' = sent \cup {m[p] : p \in D}
  BY DEF Send
<1>2. ASSUME NEW p \in Process
      PROVE  /\ held'[p] \in Seq(AnyPacket)
             /\ Len(h[p]) <= Len(held'[p])
             /\ \A i \in 1 .. Len(held'[p]) : held'[p][i] \in sent'
  <2>1. h[p] \in Seq(AnyPacket) /\ Len(h[p]) \in Nat
    BY LenProperties
  <2>2. CASE held'[p] = h[p]
    BY <1>1, <2>1, <2>2
  <2>3. CASE p \in D /\ held'[p] = Append(h[p], m[p])
    <3>1. m[p] \in AnyPacket /\ m[p] \in sent'
      BY <1>1, <2>3
    <3>2. /\ Append(h[p], m[p]) \in Seq(AnyPacket)
          /\ Len(Append(h[p], m[p])) = Len(h[p]) + 1
          /\ \A i \in 1 .. Len(h[p]) : Append(h[p], m[p])[i] = h[p][i]
          /\ Append(h[p], m[p])[Len(h[p]) + 1] = m[p]
      BY <2>1, <3>1, AppendProperties
    <3>3. ASSUME NEW i \in 1 .. Len(h[p]) + 1 PROVE Append(h[p], m[p])[i] \in sent'
      <4>1. CASE i \in 1 .. Len(h[p])
        BY <1>1, <3>2, <4>1
      <4>2. CASE i = Len(h[p]) + 1
        BY <3>1, <3>2, <4>2
      <4> QED BY <2>1, <4>1, <4>2
    <3> QED BY <2>1, <2>3, <3>2, <3>3
  <2>4. held'[p] = IF p \in D /\ Reachable(p) THEN Append(h[p], m[p]) ELSE h[p]
    BY DEF Send
  <2> QED BY <2>2, <2>3, <2>4
<1>3. held' = [p \in Process |-> held'[p]]
  BY DEF Send
<1> QED BY <1>1, <1>2, <1>3

(* What is left when the packet at the front is handled. *)
LEMMA WithoutFrontKeeps ==
  ASSUME ImplInv, NEW p \in Process, NEW m, Handles(p, m)
  PROVE  /\ m \in sent
         /\ WithoutFront(p) \in [Process -> Seq(AnyPacket)]
         /\ \A q \in Process : /\ queued'[q] <= Len(WithoutFront(p)[q])
                               /\ \A i \in 1 .. Len(WithoutFront(p)[q]) :
                                    WithoutFront(p)[q][i] \in sent
         /\ queued' \in [Process -> Nat]
         /\ frame' = frame /\ frame[p] = "processing"
<1>1. /\ held \in [Process -> Seq(AnyPacket)] /\ queued \in [Process -> Nat]
      /\ \A q \in Process : /\ queued[q] <= Len(held[q])
                            /\ \A i \in 1 .. Len(held[q]) : held[q][i] \in sent
  BY DEF ImplInv, ImplTypeOK, HeldInv
<1>2. /\ WithoutFront(p) = [held EXCEPT ![p] = Tail(held[p])]
      /\ frame' = frame /\ frame[p] = "processing"
  BY DEF WithoutFront, Handles
<1>3. WithoutFront(p) \in [Process -> Seq(AnyPacket)]
  BY <1>1, <1>2, FrontWasSent
<1>4. queued' \in [Process -> Nat]
  BY <1>1, FrontWasSent
<1>5. ASSUME NEW q \in Process
      PROVE  /\ queued'[q] <= Len(WithoutFront(p)[q])
             /\ \A i \in 1 .. Len(WithoutFront(p)[q]) : WithoutFront(p)[q][i] \in sent
  <2>1. CASE q = p
    BY <1>1, <1>2, <2>1, FrontWasSent
  <2>2. CASE q # p
    BY <1>1, <1>2, <2>2, FrontWasSent
  <2> QED BY <2>1, <2>2
<1> QED BY <1>2, <1>3, <1>4, <1>5, FrontWasSent

(* Reading into the queue leaves the order of what is held alone. *)
LEMMA ReadingKeeps ==
  ASSUME ImplInv, NEW p \in Process, ReadIncomingPacketsIntoQueue(p)
  PROVE  /\ queued' \in [Process -> Nat]
         /\ \A q \in Process : queued'[q] <= Len(held[q])
         /\ frame' = [frame EXCEPT ![p] = "processing"]
<1>1. /\ Len(held[p]) \in Nat /\ queued[p] + kMaxPacketsPerFrameCount \in Nat
      /\ queued \in [Process -> Nat]
      /\ \A q \in Process : queued[q] <= Len(held[q])
  BY LenProperties, ProcessAssumption DEF ImplInv, ImplTypeOK, HeldInv
<1>2. /\ Min({Len(held[p]), queued[p] + kMaxPacketsPerFrameCount}) \in Nat
      /\ Min({Len(held[p]), queued[p] + kMaxPacketsPerFrameCount}) <= Len(held[p])
  BY <1>1, MinOfTwo
<1> QED BY <1>1, <1>2 DEF ReadIncomingPacketsIntoQueue
---------------------------------------------------------------------------
(* Each step keeps the invariant, and is the step of Session of its name or  *)
(* leaves the variables of Session alone.                                    *)

LEMMA ServerHandlesHelloStep ==
  ASSUME ImplInv, NEW c \in Client, ServerHandlesHello(c)
  PROVE  ImplInv' /\ Session!ServerReadsHello(c)
<1> DEFINE w == Session!Welcome(c, addressToClient'[c])
           m == [p \in {c} |-> w]
<1>1. /\ Server \in Process /\ {c} \in SUBSET Process
      /\ Handles(Server, Session!Hello(c))
      /\ Send(WithoutFront(Server), m)
      /\ UNCHANGED <<clientVars, histories>>
  BY DEF ServerHandlesHello, Process
<1>2. /\ addressToClient' \in [Client -> Int \cup {NoProxy}] /\ NewPlayerId' \in Nat
      /\ w \in AnyPacket
  <2>1. /\ addressToClient \in [Client -> Int \cup {NoProxy}] /\ NewPlayerId \in Nat
        /\ NewPlayerId \in Int \cup {NoProxy}
    BY DEF ImplInv, ImplTypeOK
  <2>2. addressToClient' \in [Client -> Int \cup {NoProxy}] /\ NewPlayerId' \in Nat
    <3>1. CASE c \in Known
      BY <2>1, <3>1 DEF ServerHandlesHello, serverVars
    <3>2. CASE c \notin Known
      BY <2>1, <3>2 DEF ServerHandlesHello
    <3> QED BY <3>1, <3>2
  <2>3. addressToClient'[c] \in Int \cup {NoProxy}
    BY <2>2
  <2> QED BY <2>2, <2>3 DEF Session!Welcome, AnyPacket, PacketType
<1>3. m \in [{c} -> AnyPacket] /\ {m[p] : p \in {c}} = {w}
  BY <1>2
<1>4. /\ sent' = sent \cup {m[p] : p \in {c}}
      /\ held' \in [Process -> Seq(AnyPacket)]
      /\ \A p \in Process :
           /\ Len(WithoutFront(Server)[p]) <= Len(held'[p])
           /\ \A i \in 1 .. Len(held'[p]) : held'[p][i] \in sent'
  <2> HIDE DEF m
  <2> QED BY <1>1, <1>3, WithoutFrontKeeps, SendKeeps
<1>5. ImplTypeOK'
  BY <1>1, <1>2, <1>4, WithoutFrontKeeps DEF ImplInv, ImplTypeOK, clientVars
<1>6. HeldInv'
  <2>1. ASSUME NEW p \in Process PROVE queued'[p] <= Len(held'[p])
    <3>1. /\ queued'[p] \in Nat /\ queued'[p] <= Len(WithoutFront(Server)[p])
          /\ Len(WithoutFront(Server)[p]) \in Nat /\ Len(held'[p]) \in Nat
          /\ Len(WithoutFront(Server)[p]) <= Len(held'[p])
      BY <1>1, <1>4, WithoutFrontKeeps, LenProperties
    <3> QED BY <3>1
  <2> QED BY <1>4, <2>1 DEF HeldInv
<1>7. QuitInv'
  BY <1>1, WithoutFrontKeeps DEF ImplInv, QuitInv, clientVars
<1>8. Session!ServerReadsHello(c)
  <2>1. Session!Hello(c) \in sent /\ frame' = frame
    BY <1>1, WithoutFrontKeeps
  <2>2. sent' = sent \cup {w}
    BY <1>3, <1>4
  <2>3. Known = Session!Known
    BY DEF Known, Session!Known
  <2>4. IF c \in Session!Known
        THEN /\ sent' = sent \cup {Session!Welcome(c, addressToClient[c])}
             /\ UNCHANGED Session!serverVars
        ELSE /\ addressToClient' = [addressToClient EXCEPT ![c] = NewPlayerId]
             /\ NewPlayerId' = NewPlayerId + 1
             /\ sent' = sent \cup {Session!Welcome(c, NewPlayerId)}
    <3>1. CASE c \in Known
      BY <2>2, <2>3, <3>1 DEF ServerHandlesHello, serverVars, Session!serverVars
    <3>2. CASE c \notin Known
      <4>1. addressToClient'[c] = NewPlayerId
        BY <3>2 DEF ServerHandlesHello, ImplInv, ImplTypeOK
      <4> QED BY <2>2, <2>3, <3>2, <4>1 DEF ServerHandlesHello
    <3> QED BY <3>1, <3>2
  <2> QED BY <1>1, <2>1, <2>4 DEF Session!ServerReadsHello,
         clientVars, histories, Session!clientVars
<1> QED BY <1>5, <1>6, <1>7, <1>8 DEF ImplInv

LEMMA ServerIgnoresWinStep ==
  ASSUME ImplInv, NEW c \in Client, ServerIgnoresWin(c)
  PROVE  ImplInv' /\ Session!ServerReadsWin(c)
<1>1. /\ Server \in Process
      /\ Handles(Server, Session!ClaimWin(c)) /\ held' = WithoutFront(Server)
      /\ UNCHANGED <<serverVars, clientVars, sent, histories>>
  BY DEF ServerIgnoresWin, Process
<1>2. ImplTypeOK'
  BY <1>1, WithoutFrontKeeps DEF ImplInv, ImplTypeOK, serverVars, clientVars
<1>3. HeldInv'
  BY <1>1, WithoutFrontKeeps DEF HeldInv
<1>4. QuitInv'
  BY <1>1, WithoutFrontKeeps DEF ImplInv, QuitInv, clientVars
<1>5. Session!ClaimWin(c) \in sent /\ frame' = frame
  BY <1>1, WithoutFrontKeeps
<1>6. Session!ServerReadsWin(c)
  BY <1>1, <1>5 DEF ServerIgnoresWin, Session!ServerReadsWin, Known, Session!Known,
     serverVars, clientVars, histories, Session!serverVars, Session!clientVars
<1> QED BY <1>2, <1>3, <1>4, <1>6 DEF ImplInv

LEMMA HandleWinPacketStep ==
  ASSUME ImplInv, NEW c \in Client, HandleWinPacket(c)
  PROVE  ImplInv' /\ Session!ServerReadsWin(c)
<1> DEFINE m == [p \in Known |-> Session!GameOver(p, addressToClient[c])]
<1>1. /\ Server \in Process /\ Known \in SUBSET Process
      /\ Handles(Server, Session!ClaimWin(c))
      /\ Send(WithoutFront(Server), m)
      /\ UNCHANGED <<serverVars, clientVars>>
  BY DEF HandleWinPacket, Process, Known
<1>2. m \in [Known -> AnyPacket]
  <2>1. addressToClient[c] \in Int \cup {NoProxy} /\ \A p \in Known : p \in Client
    BY DEF ImplInv, ImplTypeOK, Known
  <2>2. \A p \in Known : Session!GameOver(p, addressToClient[c]) \in AnyPacket
    BY <2>1 DEF Session!GameOver, AnyPacket, PacketType
  <2> QED BY <2>2
<1>3. /\ sent' = sent \cup {m[p] : p \in Known}
      /\ held' \in [Process -> Seq(AnyPacket)]
      /\ \A p \in Process :
           /\ Len(WithoutFront(Server)[p]) <= Len(held'[p])
           /\ \A i \in 1 .. Len(held'[p]) : held'[p][i] \in sent'
  BY <1>1, <1>2, WithoutFrontKeeps, SendKeeps
<1>4. ImplTypeOK'
  BY <1>1, <1>3, WithoutFrontKeeps DEF ImplInv, ImplTypeOK, serverVars, clientVars
<1>5. HeldInv'
  <2>1. ASSUME NEW p \in Process PROVE queued'[p] <= Len(held'[p])
    <3>1. /\ queued'[p] \in Nat /\ queued'[p] <= Len(WithoutFront(Server)[p])
          /\ Len(WithoutFront(Server)[p]) \in Nat /\ Len(held'[p]) \in Nat
          /\ Len(WithoutFront(Server)[p]) <= Len(held'[p])
      BY <1>1, <1>3, WithoutFrontKeeps, LenProperties
    <3> QED BY <3>1
  <2> QED BY <1>3, <2>1 DEF HeldInv
<1>6. QuitInv'
  BY <1>1, WithoutFrontKeeps DEF ImplInv, QuitInv, clientVars
<1>7. Session!ServerReadsWin(c)
  <2>1. Session!ClaimWin(c) \in sent /\ frame' = frame
    BY <1>1, WithoutFrontKeeps
  <2>2. sent' = sent \cup {Session!GameOver(d, addressToClient[c]) : d \in Session!Known}
    BY <1>3 DEF Known, Session!Known
  <2>3. c \in Session!Known /\ claims' = claims \cup {c}
    BY DEF HandleWinPacket, Announced, Known, Session!Known
  <2> QED BY <1>1, <2>1, <2>2, <2>3 DEF Session!ServerReadsWin, Session!HandleWinPacket,
         serverVars, clientVars, Session!serverVars, Session!clientVars
<1> QED BY <1>4, <1>5, <1>6, <1>7 DEF ImplInv

LEMMA ServerBeginsFrameStep ==
  ASSUME ImplInv, ServerBeginsFrame
  PROVE  ImplInv' /\ UNCHANGED Session!vars
<1>1. /\ Server \in Process /\ \A c \in Client : c \in Process /\ c # Server
      /\ ReadIncomingPacketsIntoQueue(Server)
      /\ UNCHANGED <<held, serverVars, clientVars, sent, histories>>
  BY ProcessAssumption DEF ServerBeginsFrame, Process
<1>2. /\ queued' \in [Process -> Nat]
      /\ \A q \in Process : queued'[q] <= Len(held[q])
      /\ frame' = [frame EXCEPT ![Server] = "processing"]
  BY <1>1, ReadingKeeps
<1>3. ImplTypeOK'
  <2>1. frame' \in [Process -> {"down", "polling", "processing", "left"}]
    BY <1>1, <1>2 DEF ImplInv, ImplTypeOK
  <2> QED BY <1>1, <1>2, <2>1 DEF ImplInv, ImplTypeOK, serverVars, clientVars
<1>4. HeldInv'
  BY <1>1, <1>2 DEF ImplInv, HeldInv
<1>5. \A c \in Client : frame'[c] = frame[c]
  BY <1>1, <1>2 DEF ImplInv, ImplTypeOK
<1>6. QuitInv'
  BY <1>1, <1>5 DEF ImplInv, QuitInv, clientVars
<1>7. UNCHANGED Session!vars
  BY <1>1, <1>5 DEF serverVars, clientVars, histories, Session!vars, Session!serverVars,
     Session!clientVars
<1> QED BY <1>3, <1>4, <1>6, <1>7 DEF ImplInv

LEMMA PollNothingStep ==
  ASSUME ImplInv, NEW c \in Client, PollNothing(c)
  PROVE  ImplInv' /\ UNCHANGED Session!vars
<1>1. /\ c \in Process /\ frame[c] = "polling"
      /\ ReadIncomingPacketsIntoQueue(c)
      /\ UNCHANGED <<held, serverVars, clientVars, sent, histories>>
  BY DEF PollNothing, Process
<1>2. /\ queued' \in [Process -> Nat]
      /\ \A q \in Process : queued'[q] <= Len(held[q])
      /\ frame' = [frame EXCEPT ![c] = "processing"]
  BY <1>1, ReadingKeeps
<1>3. ImplTypeOK'
  <2>1. frame' \in [Process -> {"down", "polling", "processing", "left"}]
    BY <1>1, <1>2 DEF ImplInv, ImplTypeOK
  <2> QED BY <1>1, <1>2, <2>1 DEF ImplInv, ImplTypeOK, serverVars, clientVars
<1>4. HeldInv'
  BY <1>1, <1>2 DEF ImplInv, HeldInv
<1>5. \A d \in Client : (frame'[d] = "left" <=> frame[d] = "left")
                        /\ (frame'[d] = "polling" => frame[d] = "polling")
  BY <1>1, <1>2 DEF ImplInv, ImplTypeOK, Process
<1>6. QuitInv'
  BY <1>1, <1>5 DEF ImplInv, QuitInv, clientVars
<1>7. UNCHANGED Session!vars
  <2>1. [d \in Client |-> frame[d] = "left"]' = [d \in Client |-> frame[d] = "left"]
    BY <1>5
  <2> QED BY <1>1, <2>1 DEF serverVars, clientVars, histories, Session!vars,
         Session!serverVars, Session!clientVars
<1> QED BY <1>3, <1>4, <1>6, <1>7 DEF ImplInv

LEMMA PressReturnStep ==
  ASSUME ImplInv, NEW c \in Client, PressReturn(c)
  PROVE  ImplInv' /\ Session!PressReturn(c)
<1> DEFINE w == Session!ClaimWin(c)
           m == [p \in {Server} |-> w]
<1>1. /\ c \in Process /\ {Server} \in SUBSET Process /\ frame[c] = "polling"
      /\ Send(held, m)
      /\ ReadIncomingPacketsIntoQueue(c)
      /\ UNCHANGED <<serverVars, state, playerId, quit, verdicts, histories>>
  BY DEF PressReturn, Process
<1>2. /\ queued' \in [Process -> Nat]
      /\ \A q \in Process : queued'[q] <= Len(held[q])
      /\ frame' = [frame EXCEPT ![c] = "processing"]
  BY <1>1, ReadingKeeps
<1>3. m \in [{Server} -> AnyPacket] /\ {m[p] : p \in {Server}} = {w}
  <2>1. w \in AnyPacket
    BY DEF Session!ClaimWin, AnyPacket, PacketType
  <2> QED BY <2>1
<1>4. /\ sent' = sent \cup {m[p] : p \in {Server}}
      /\ held' \in [Process -> Seq(AnyPacket)]
      /\ \A p \in Process :
           /\ Len(held[p]) <= Len(held'[p])
           /\ \A i \in 1 .. Len(held'[p]) : held'[p][i] \in sent'
  <2>1. /\ held \in [Process -> Seq(AnyPacket)]
        /\ \A p \in Process : \A i \in 1 .. Len(held[p]) : held[p][i] \in sent
    BY DEF ImplInv, ImplTypeOK, HeldInv
  <2> HIDE DEF m
  <2> QED BY <1>1, <1>3, <2>1, SendKeeps
<1>5. ImplTypeOK'
  <2>1. frame' \in [Process -> {"down", "polling", "processing", "left"}]
    BY <1>1, <1>2 DEF ImplInv, ImplTypeOK
  <2> QED BY <1>1, <1>2, <1>4, <2>1 DEF ImplInv, ImplTypeOK, serverVars
<1>6. HeldInv'
  <2>1. ASSUME NEW p \in Process PROVE queued'[p] <= Len(held'[p])
    <3>1. /\ queued'[p] \in Nat /\ queued'[p] <= Len(held[p])
          /\ Len(held[p]) \in Nat /\ Len(held'[p]) \in Nat
          /\ Len(held[p]) <= Len(held'[p])
      BY <1>2, <1>4, LenProperties DEF ImplInv, ImplTypeOK
    <3> QED BY <3>1
  <2> QED BY <1>4, <2>1 DEF HeldInv
<1>7. \A d \in Client : (frame'[d] = "left" <=> frame[d] = "left")
                        /\ (frame'[d] = "polling" => frame[d] = "polling")
  BY <1>1, <1>2 DEF ImplInv, ImplTypeOK, Process
<1>8. QuitInv'
  BY <1>1, <1>7 DEF ImplInv, QuitInv
<1>9. Session!PressReturn(c)
  <2>1. [d \in Client |-> frame[d] = "left"]' = [d \in Client |-> frame[d] = "left"]
    BY <1>7
  <2>2. ~quit[c] /\ sent' = sent \cup {w}
    BY <1>1, <1>3, <1>4 DEF ImplInv, QuitInv
  <2> QED BY <1>1, <2>1, <2>2 DEF serverVars, histories, Session!PressReturn,
         Session!serverVars, Session!clientVars
<1> QED BY <1>5, <1>6, <1>8, <1>9 DEF ImplInv

LEMMA CloseWindowStep ==
  ASSUME ImplInv, NEW c \in Client, CloseWindow(c)
  PROVE  ImplInv' /\ Session!CloseWindow(c)
<1>1. /\ c \in Process /\ frame[c] = "polling"
      /\ quit' = [quit EXCEPT ![c] = TRUE]
      /\ ReadIncomingPacketsIntoQueue(c)
      /\ UNCHANGED <<held, serverVars, state, playerId, presses, verdicts, sent, histories>>
  BY DEF CloseWindow, Process
<1>2. /\ queued' \in [Process -> Nat]
      /\ \A q \in Process : queued'[q] <= Len(held[q])
      /\ frame' = [frame EXCEPT ![c] = "processing"]
  BY <1>1, ReadingKeeps
<1>3. ImplTypeOK'
  <2>1. frame' \in [Process -> {"down", "polling", "processing", "left"}]
    BY <1>1, <1>2 DEF ImplInv, ImplTypeOK
  <2> QED BY <1>1, <1>2, <2>1 DEF ImplInv, ImplTypeOK, serverVars
<1>4. HeldInv'
  BY <1>1, <1>2 DEF ImplInv, HeldInv
<1>5. /\ \A d \in Client : frame'[d] = "left" <=> frame[d] = "left"
      /\ frame'[c] = "processing"
      /\ \A d \in Client \ {c} : frame'[d] = frame[d] /\ quit'[d] = quit[d]
  BY <1>1, <1>2 DEF ImplInv, ImplTypeOK, Process
<1>6. QuitInv'
  BY <1>5 DEF ImplInv, QuitInv
<1>7. Session!CloseWindow(c)
  <2>1. [d \in Client |-> frame[d] = "left"]' = [d \in Client |-> frame[d] = "left"]
    BY <1>5
  <2> QED BY <1>1, <2>1 DEF ImplInv, QuitInv, serverVars, histories, Session!CloseWindow,
         Session!serverVars
<1> QED BY <1>3, <1>4, <1>6, <1>7 DEF ImplInv

LEMMA HandleWelcomePacketStep ==
  ASSUME ImplInv, NEW c \in Client, NEW id \in Session!PlayerId, HandleWelcomePacket(c, id)
  PROVE  ImplInv' /\ Session!HandleWelcomePacket(c, id)
<1>1. /\ c \in Process
      /\ Handles(c, Session!Welcome(c, id)) /\ held' = WithoutFront(c)
      /\ UNCHANGED <<serverVars, quit, presses, verdicts, sent, histories>>
  BY DEF HandleWelcomePacket, Process
<1>2. ImplTypeOK'
  <2>1. /\ state' \in [Client -> {"NCS_SayingHello", "NCS_Welcomed"}]
        /\ playerId' \in [Client -> Int]
    <3>1. /\ id \in Int
          /\ state \in [Client -> {"NCS_SayingHello", "NCS_Welcomed"}]
          /\ playerId \in [Client -> Int]
      BY DEF ImplInv, ImplTypeOK, Session!PlayerId
    <3>2. CASE state[c] = "NCS_SayingHello"
      BY <3>1, <3>2 DEF HandleWelcomePacket
    <3>3. CASE state[c] # "NCS_SayingHello"
      BY <3>1, <3>3 DEF HandleWelcomePacket
    <3> QED BY <3>2, <3>3
  <2> QED BY <1>1, <2>1, WithoutFrontKeeps DEF ImplInv, ImplTypeOK, serverVars
<1>3. HeldInv'
  BY <1>1, WithoutFrontKeeps DEF HeldInv
<1>4. QuitInv'
  BY <1>1, WithoutFrontKeeps DEF ImplInv, QuitInv
<1>5. Session!Welcome(c, id) \in sent /\ frame' = frame /\ frame[c] = "processing"
  BY <1>1, WithoutFrontKeeps
<1>6. Session!HandleWelcomePacket(c, id)
  BY <1>1, <1>5 DEF HandleWelcomePacket, Session!HandleWelcomePacket,
     serverVars, histories, Session!serverVars
<1> QED BY <1>2, <1>3, <1>4, <1>6 DEF ImplInv

LEMMA HandleGameOverPacketStep ==
  ASSUME ImplInv, NEW c \in Client, NEW winner \in Session!PlayerId,
         HandleGameOverPacket(c, winner)
  PROVE  ImplInv' /\ Session!HandleGameOverPacket(c, winner)
<1> DEFINE v == Session!Verdict(c, winner)
<1>1. /\ c \in Process
      /\ Handles(c, Session!GameOver(c, winner)) /\ held' = WithoutFront(c)
      /\ verdicts' = [verdicts EXCEPT ![c] = Append(verdicts[c], v)]
      /\ quit' = [quit EXCEPT ![c] = TRUE]
      /\ UNCHANGED <<serverVars, state, playerId, presses, sent, histories>>
  BY DEF HandleGameOverPacket, Process
<1>2. v \in AnyVerdict
  BY DEF Session!Verdict, Session!PlayerId, AnyVerdict, ImplInv, ImplTypeOK
<1>3. verdicts \in [Client -> Seq(AnyVerdict)] /\ verdicts[c] \in Seq(AnyVerdict)
  BY DEF ImplInv, ImplTypeOK
<1>4. /\ Append(verdicts[c], v) \in Seq(AnyVerdict)
      /\ ToSet(Append(verdicts[c], v)) = ToSet(verdicts[c]) \cup {v}
  BY <1>2, <1>3, AppendProperties, ToSetOfAppend
<1>5. ImplTypeOK'
  <2> HIDE DEF v
  <2>1. verdicts' \in [Client -> Seq(AnyVerdict)]
    BY <1>1, <1>3, <1>4
  <2> QED BY <1>1, <2>1, WithoutFrontKeeps DEF ImplInv, ImplTypeOK, serverVars
<1>6. HeldInv'
  BY <1>1, WithoutFrontKeeps DEF HeldInv
<1>7. Session!GameOver(c, winner) \in sent /\ frame' = frame /\ frame[c] = "processing"
  BY <1>1, WithoutFrontKeeps
<1>8. QuitInv'
  BY <1>1, <1>7 DEF ImplInv, ImplTypeOK, QuitInv
<1>9. Session!HandleGameOverPacket(c, winner)
  <2>1. [d \in Client |-> ToSet(verdicts'[d])] =
          [[d \in Client |-> ToSet(verdicts[d])] EXCEPT ![c] = @ \cup {v}]
    <3> HIDE DEF v
    <3> QED BY <1>1, <1>3, <1>4
  <2> QED BY <1>1, <1>7, <2>1 DEF Session!HandleGameOverPacket, serverVars, histories,
         Session!serverVars
<1> QED BY <1>5, <1>6, <1>8, <1>9 DEF ImplInv

LEMMA EndFrameStep ==
  ASSUME ImplInv, NEW c \in Client, EndFrame(c)
  PROVE  ImplInv' /\ Session!EndFrame(c)
<1> DEFINE w == Session!Hello(c)
           m == [p \in {Server} |-> w]
<1>1. /\ c \in Process /\ {Server} \in SUBSET Process /\ frame[c] = "processing"
      /\ frame' = [frame EXCEPT ![c] = IF quit[c] THEN "left" ELSE "polling"]
      /\ UNCHANGED <<queued, serverVars, clientVars, histories>>
  BY DEF EndFrame, Process
<1>2. /\ held \in [Process -> Seq(AnyPacket)]
      /\ \A p \in Process : /\ queued[p] \in Nat /\ queued[p] <= Len(held[p])
                            /\ \A i \in 1 .. Len(held[p]) : held[p][i] \in sent
  BY DEF ImplInv, ImplTypeOK, HeldInv
<1>3. /\ sent' = IF state[c] = "NCS_SayingHello" THEN sent \cup {w} ELSE sent
      /\ held' \in [Process -> Seq(AnyPacket)]
      /\ \A p \in Process :
           /\ Len(held[p]) <= Len(held'[p])
           /\ \A i \in 1 .. Len(held'[p]) : held'[p][i] \in sent'
  <2>1. CASE state[c] = "NCS_SayingHello"
    <3>1. Send(held, m)
      BY <2>1 DEF EndFrame
    <3>2. m \in [{Server} -> AnyPacket] /\ {m[p] : p \in {Server}} = {w}
      <4>1. w \in AnyPacket
        BY DEF Session!Hello, AnyPacket, PacketType
      <4> QED BY <4>1
    <3>3. /\ sent' = sent \cup {m[p] : p \in {Server}}
          /\ held' \in [Process -> Seq(AnyPacket)]
          /\ \A p \in Process :
               /\ Len(held[p]) <= Len(held'[p])
               /\ \A i \in 1 .. Len(held'[p]) : held'[p][i] \in sent'
      <4>1. \A p \in Process : \A i \in 1 .. Len(held[p]) : held[p][i] \in sent
        BY <1>2
      <4>2. {Server} \in SUBSET Process /\ held \in [Process -> Seq(AnyPacket)]
        BY <1>1, <1>2
      <4> HIDE DEF m, w
      <4> QED BY <3>1, <3>2, <4>1, <4>2, SendKeeps
    <3> QED BY <2>1, <3>2, <3>3
  <2>2. CASE state[c] # "NCS_SayingHello"
    <3>1. held' = held /\ sent' = sent
      BY <2>2 DEF EndFrame
    <3>2. \A p \in Process : Len(held[p]) \in Nat
      BY <1>2, LenProperties
    <3> QED BY <1>2, <2>2, <3>1, <3>2
  <2> QED BY <2>1, <2>2
<1>4. ImplTypeOK'
  <2>1. frame' \in [Process -> {"down", "polling", "processing", "left"}]
    BY <1>1 DEF ImplInv, ImplTypeOK
  <2> QED BY <1>1, <1>3, <2>1 DEF ImplInv, ImplTypeOK, serverVars, clientVars
<1>5. HeldInv'
  <2>1. ASSUME NEW p \in Process PROVE queued'[p] <= Len(held'[p])
    <3>1. /\ queued'[p] \in Nat /\ queued'[p] <= Len(held[p])
          /\ Len(held[p]) \in Nat /\ Len(held'[p]) \in Nat
          /\ Len(held[p]) <= Len(held'[p])
      BY <1>1, <1>2, <1>3, LenProperties
    <3> QED BY <3>1
  <2> QED BY <1>3, <2>1 DEF HeldInv
<1>6. /\ frame'[c] = IF quit[c] THEN "left" ELSE "polling"
      /\ \A d \in Client \ {c} : frame'[d] = frame[d]
      /\ quit[c] \in BOOLEAN
  BY <1>1 DEF ImplInv, ImplTypeOK, Process
<1>7. QuitInv'
  BY <1>1, <1>6 DEF ImplInv, QuitInv, clientVars
<1>8. Session!EndFrame(c)
  <2>1. [d \in Client |-> frame'[d] = "left"] =
          [[d \in Client |-> frame[d] = "left"] EXCEPT ![c] = quit[c]]
    <3>1. ASSUME NEW d \in Client
          PROVE (frame'[d] = "left") =
                  [[e \in Client |-> frame[e] = "left"] EXCEPT ![c] = quit[c]][d]
      BY <1>6
    <3> QED BY <3>1
  <2> QED BY <1>1, <1>3, <2>1 DEF serverVars, clientVars, histories, Session!EndFrame,
         Session!serverVars
<1> QED BY <1>4, <1>5, <1>7, <1>8 DEF ImplInv

---------------------------------------------------------------------------
LEMMA ImplInit == Init => ImplInv /\ Session!Init
<1> SUFFICES ASSUME Init PROVE ImplInv /\ Session!Init
  OBVIOUS
<1>1. /\ \A c \in Client : c \in Process /\ c # Server
      /\ <<>> \in Seq(AnyPacket) /\ <<>> \in Seq(AnyVerdict) /\ Len(<<>>) = 0
  BY ProcessAssumption, EmptySeq DEF Process
<1>2. ImplTypeOK
  BY <1>1 DEF Init, ImplTypeOK
<1>3. HeldInv
  BY <1>1 DEF Init, HeldInv
<1>4. QuitInv
  BY DEF Init, QuitInv
<1>5. Session!Init
  <2>1. ToSet(<<>>) = {}
    BY DEF ToSet
  <2>2. [c \in Client |-> frame[c] = "left"] = [c \in Client |-> FALSE]
    BY <1>1 DEF Init
  <2>3. [c \in Client |-> ToSet(verdicts[c])] = [c \in Client |-> {}]
    BY <2>1 DEF Init
  <2> QED BY <2>2, <2>3 DEF Init, Session!Init
<1> QED BY <1>2, <1>3, <1>4, <1>5 DEF ImplInv

LEMMA ImplStep == ImplInv /\ [Next]_vars => ImplInv' /\ [Session!Next]_(Session!vars)
<1> SUFFICES ASSUME ImplInv, [Next]_vars PROVE ImplInv' /\ [Session!Next]_(Session!vars)
  OBVIOUS
<1>1. CASE UNCHANGED vars
  BY <1>1 DEF vars, netVars, serverVars, clientVars, histories, ImplInv, ImplTypeOK, HeldInv,
     QuitInv, Session!vars, Session!serverVars, Session!clientVars
<1>2. CASE ServerBeginsFrame
  BY <1>2, ServerBeginsFrameStep
<1>3. ASSUME NEW c \in Client, ServerHandlesHello(c) \/ ServerIgnoresWin(c) \/ HandleWinPacket(c)
      PROVE  ImplInv' /\ Session!Next
  BY <1>3, ServerHandlesHelloStep, ServerIgnoresWinStep, HandleWinPacketStep DEF Session!Next
<1>4. ASSUME NEW c \in Client, ClientStep(c)
      PROVE  ImplInv' /\ [Session!Next]_(Session!vars)
  <2>1. CASE PollNothing(c)
    BY <2>1, PollNothingStep
  <2>2. CASE PressReturn(c) \/ CloseWindow(c) \/ EndFrame(c)
    BY <2>2, PressReturnStep, CloseWindowStep, EndFrameStep DEF Session!Next
  <2>3. CASE ClientHandles(c)
    BY <2>3, HandleWelcomePacketStep, HandleGameOverPacketStep
       DEF ClientHandles, Session!Next, Session!Reads
  <2> QED BY <1>4, <2>1, <2>2, <2>3 DEF ClientStep
<1> QED BY <1>1, <1>2, <1>3, <1>4 DEF Next, ServerStep, ServerHandles

(* Whatever order the frames empty their sockets and handle their queues in, *)
(* and whatever the sockets drop, each handler of ServerNetworkManager and   *)
(* ClientNetworkManager takes the step that Session gives it.                *)
THEOREM SessionImplemented == Spec => ImplementsSession
<1>1. Init => ImplInv /\ Session!Init
  BY ImplInit
<1>2. ImplInv /\ [Next]_vars => ImplInv' /\ [Session!Next]_(Session!vars)
  BY ImplStep
<1> QED BY <1>1, <1>2, PTL DEF Spec, ImplementsSession
---------------------------------------------------------------------------
(* What is proved of Session holds of the frames. *)

Joining == INSTANCE SessionProofs WITH
  network <- sent,
  exited <- [c \in Client |-> frame[c] = "left"],
  verdicts <- [c \in Client |-> ToSet(verdicts[c])]

LEMMA SameSession ==
  /\ Session!Init <=> Joining!Init
  /\ [Session!Next]_(Session!vars) <=> [Joining!Next]_(Joining!vars)
<1>1. Session!Init <=> Joining!Init
  BY DEF Session!Init, Joining!Init
<1>2. [Session!Next]_(Session!vars) <=> [Joining!Next]_(Joining!vars)
  BY DEF Session!Next, Joining!Next, Session!ServerReadsHello,
         Joining!ServerReadsHello, Session!ServerReadsWin,
         Joining!ServerReadsWin, Session!HandleWinPacket,
         Joining!HandleWinPacket, Session!PressReturn, Joining!PressReturn,
         Session!CloseWindow, Joining!CloseWindow, Session!Reads,
         Joining!Reads, Session!HandleWelcomePacket,
         Joining!HandleWelcomePacket, Session!HandleGameOverPacket,
         Joining!HandleGameOverPacket, Session!EndFrame, Joining!EndFrame,
         Session!Verdict, Joining!Verdict, Session!PlayerId,
         Joining!PlayerId, Session!Known, Joining!Known, Session!Hello,
         Joining!Hello, Session!ClaimWin, Joining!ClaimWin, Session!Welcome,
         Joining!Welcome, Session!GameOver, Joining!GameOver,
         Session!serverVars, Joining!serverVars, Session!clientVars,
         Joining!clientVars, Session!vars, Joining!vars
<1> QED BY <1>1, <1>2

\* The promises of Session, of the clients as the frames leave them.
SessionPromises ==
  Session!WelcomedIdIsTheServers /\ Session!WonOnlyByClaim /\ Session!LostOnlyToAnother

(* For any number of clients, sockets of any size and frames of any length:  *)
(* a welcomed client goes by the id the server knows it by and shares it     *)
(* with no other, only a claimant is told that it won, and a client is told  *)
(* that it lost only when another one claimed.                               *)
THEOREM FramesKeepSessionPromises == Spec => []SessionPromises
<1>1. Joining!ProxyAssumption
  BY ProcessAssumption DEF Joining!ProxyAssumption
<1>2. Joining!Spec => /\ []Joining!WelcomedIdIsTheServers
                      /\ []Joining!WonOnlyByClaim
                      /\ []Joining!LostOnlyToAnother
  BY <1>1, Joining!WelcomedIdHolds, Joining!WonOnlyByClaimHolds, Joining!LostOnlyToAnotherHolds
<1>3. ImplementsSession => Joining!Spec
  BY SameSession, PTL DEF ImplementsSession, Joining!Spec
<1>4. /\ Joining!WelcomedIdIsTheServers => Session!WelcomedIdIsTheServers
      /\ Joining!WonOnlyByClaim => Session!WonOnlyByClaim
      /\ Joining!LostOnlyToAnother => Session!LostOnlyToAnother
  BY DEF Joining!WelcomedIdIsTheServers, Session!WelcomedIdIsTheServers,
         Joining!WonOnlyByClaim, Session!WonOnlyByClaim,
         Joining!LostOnlyToAnother, Session!LostOnlyToAnother
<1> QED BY <1>2, <1>3, <1>4, SessionImplemented, PTL DEF SessionPromises
---------------------------------------------------------------------------
(* The order in which a client hears: its welcome, then the first result.    *)

\* The bounds that ClientServerTypeOK states beside ImplInv and the type of Session.
BoundInv ==
  /\ \A p \in Process : Len(held[p]) <= MaxHeld[p]
  /\ \A c \in Client : frame[c] # "down"
  /\ presses \in [Client -> Nat] /\ \A c \in Client : presses[c] <= MaxPresses[c]
  /\ missed \subseteq Client
  /\ firstClaim \in {NoClaim} \cup [winner : Session!PlayerId, players : SUBSET Client]

\* The server knows a client no earlier than it sends the welcome, and that
\* one finds the client's socket empty: it stays the first packet in it until
\* the client handles it, however full the socket gets behind it.
WelcomeFirst(c) ==
  IF c \in Known
  THEN state[c] = "NCS_SayingHello" /\ frame[c] # "left" =>
         held[c] # <<>> /\ held[c][1].type = "WelcomePacketId"
  ELSE held[c] = <<>> /\ state[c] = "NCS_SayingHello" /\ verdicts[c] = <<>>

ResultsRight(c) ==
  \A i \in 1 .. Len(verdicts[c]) :
    /\ verdicts[c][i].welcomed
    /\ verdicts[c][i].won <=> verdicts[c][i].winner = addressToClient[c]

OnlyWelcomes(c, n) == \A i \in 1 .. n : held[c][i].type = "WelcomePacketId"

\* The first result that c logged, or is going to log.
FirstHeard(c) ==
  IF verdicts[c] = <<>>
  THEN \E i \in 1 .. Len(held[c]) :
         /\ held[c][i] = Session!GameOver(c, firstClaim.winner)
         /\ OnlyWelcomes(c, i - 1)
  ELSE verdicts[c][1].winner = firstClaim.winner

FirstInv ==
  IF firstClaim = NoClaim
  THEN \A c \in Client : verdicts[c] = <<>> /\ OnlyWelcomes(c, Len(held[c]))
  ELSE \A c \in firstClaim.players \ missed : FirstHeard(c)

OrderInv == BoundInv /\ (\A c \in Client : WelcomeFirst(c) /\ ResultsRight(c)) /\ FirstInv

\* What is proved of Session, used of the frames.
SessionFacts == Session!TypeOK /\ Session!WelcomedIdIsTheServers
---------------------------------------------------------------------------
(* A packet joins the end of what a reachable process holds, and nothing     *)
(* joins what an unreachable one holds.                                      *)
LEMMA SendAppends ==
  ASSUME ImplInv, BoundInv,
         NEW h \in [Process -> Seq(AnyPacket)],
         \A p \in Process : Len(h[p]) <= Len(held[p]),
         NEW D, NEW m \in [D -> AnyPacket],
         Send(h, m), NEW q \in Process
  PROVE  /\ held'[q] = IF q \in D /\ Reachable(q) THEN Append(h[q], m[q]) ELSE h[q]
         /\ Len(held'[q]) <= MaxHeld[q]
<1>1. held'[q] = IF q \in D /\ Reachable(q) THEN Append(h[q], m[q]) ELSE h[q]
  BY DEF Send
<1>2. /\ h[q] \in Seq(AnyPacket) /\ Len(h[q]) \in Nat
      /\ Len(held[q]) \in Nat /\ MaxHeld[q] \in Nat
      /\ Len(held[q]) <= MaxHeld[q] /\ Len(h[q]) <= Len(held[q])
  BY LenProperties, ProcessAssumption DEF ImplInv, ImplTypeOK, BoundInv, Process
<1>3. CASE q \in D /\ Reachable(q)
  <2>1. Len(held[q]) < MaxHeld[q] /\ m[q] \in AnyPacket
    BY <1>3 DEF Reachable
  <2>2. Len(Append(h[q], m[q])) = Len(h[q]) + 1
    BY <1>2, <2>1, AppendProperties
  <2>3. Len(h[q]) + 1 <= MaxHeld[q]
    BY <1>2, <2>1
  <2> QED BY <1>1, <1>3, <2>2, <2>3
<1>4. CASE ~(q \in D /\ Reachable(q))
  BY <1>1, <1>2, <1>4
<1> QED BY <1>1, <1>3, <1>4

(* What handling a packet leaves of each process's packets. *)
LEMMA FrontGone ==
  ASSUME ImplInv, NEW p \in Process, NEW m, Handles(p, m)
  PROVE  /\ WithoutFront(p) \in [Process -> Seq(AnyPacket)]
         /\ \A q \in Process : Len(WithoutFront(p)[q]) <= Len(held[q])
         /\ \A q \in Process \ {p} : WithoutFront(p)[q] = held[q]
         /\ WithoutFront(p)[p] = Tail(held[p])
         /\ held[p] # <<>> /\ Len(held[p]) \in Nat \ {0} /\ m = held[p][1]
         /\ Len(Tail(held[p])) = Len(held[p]) - 1
         /\ \A i \in 1 .. Len(held[p]) - 1 : Tail(held[p])[i] = held[p][i + 1]
<1>1. held \in [Process -> Seq(AnyPacket)]
  BY DEF ImplInv, ImplTypeOK
<1>2. WithoutFront(p) = [held EXCEPT ![p] = Tail(held[p])]
  BY DEF WithoutFront
<1>3. /\ WithoutFront(p)[p] = Tail(held[p])
      /\ \A q \in Process \ {p} : WithoutFront(p)[q] = held[q]
  BY <1>1, <1>2
<1>4. /\ held[p] \in Seq(AnyPacket) /\ Len(held[p]) \in Nat /\ queued[p] \in Nat
      /\ queued[p] > 0 /\ queued[p] <= Len(held[p])
  BY LenProperties DEF ImplInv, ImplTypeOK, HeldInv, Handles
<1>5. held[p] # <<>> /\ Len(held[p]) # 0
  BY <1>4, EmptySeq
<1>6. /\ Head(held[p]) = held[p][1]
      /\ Tail(held[p]) \in Seq(AnyPacket)
      /\ Len(Tail(held[p])) = Len(held[p]) - 1
      /\ \A i \in 1 .. Len(Tail(held[p])) : Tail(held[p])[i] = held[p][i + 1]
  BY <1>4, <1>5, HeadTailProperties
<1>7. m = held[p][1]
  BY <1>6 DEF Handles
<1>8. \A q \in Process : Len(WithoutFront(p)[q]) <= Len(held[q])
  <2>1. ASSUME NEW q \in Process PROVE Len(WithoutFront(p)[q]) <= Len(held[q])
    <3>1. Len(held[q]) \in Nat
      BY <1>1, LenProperties
    <3>2. CASE q = p
      <4>1. Len(WithoutFront(p)[p]) <= Len(held[p])
        BY <1>3, <1>4, <1>6
      <4> QED BY <3>2, <4>1
    <3>3. CASE q # p
      BY <1>3, <3>1, <3>3
    <3> QED BY <3>2, <3>3
  <2> QED BY <2>1
<1>9. WithoutFront(p) \in [Process -> Seq(AnyPacket)]
  BY <1>1, <1>2, <1>6
<1> QED BY <1>3, <1>4, <1>5, <1>6, <1>7, <1>8, <1>9

\* Nothing that OrderInv says of client c changes, except that it may leave.
Quiet(c) ==
  /\ held'[c] = held[c] /\ verdicts'[c] = verdicts[c]
  /\ state'[c] = state[c] /\ addressToClient'[c] = addressToClient[c]
  /\ frame[c] = "left" => frame'[c] = "left"

LEMMA QuietKeeps ==
  ASSUME NEW c \in Client, Quiet(c)
  PROVE  /\ WelcomeFirst(c) => WelcomeFirst(c)'
         /\ ResultsRight(c) => ResultsRight(c)'
         /\ \A n : OnlyWelcomes(c, n) => \A k : k = n => OnlyWelcomes(c, k)'
         /\ firstClaim' = firstClaim /\ FirstHeard(c) => FirstHeard(c)'
<1>1. c \in Known' <=> c \in Known
  BY DEF Known, Quiet
<1>2. WelcomeFirst(c) => WelcomeFirst(c)'
  BY <1>1 DEF WelcomeFirst, Quiet
<1>3. ResultsRight(c) => ResultsRight(c)'
  BY DEF ResultsRight, Quiet
<1>4. \A n : OnlyWelcomes(c, n) => \A k : k = n => OnlyWelcomes(c, k)'
  BY DEF OnlyWelcomes, Quiet
<1>5. firstClaim' = firstClaim /\ FirstHeard(c) => FirstHeard(c)'
  BY DEF FirstHeard, OnlyWelcomes, Quiet
<1> QED BY <1>2, <1>3, <1>4, <1>5

LEMMA IdsStay ==
  ASSUME NEW a \in Nat, NEW b \in Nat, a <= b, NEW id \in 0 .. a - 1
  PROVE  id \in 0 .. b - 1
  OBVIOUS

LEMMA BoundsKept ==
  ASSUME BoundInv, NewPlayerId \in Nat, NewPlayerId' \in Nat, NewPlayerId <= NewPlayerId',
         \A p \in Process : Len(held'[p]) <= MaxHeld[p],
         \A c \in Client : frame'[c] # "down",
         UNCHANGED <<presses, firstClaim, missed>>
  PROVE  BoundInv'
<1>1. \A id \in 0 .. NewPlayerId - 1 : id \in 0 .. NewPlayerId' - 1
  BY IdsStay
<1>2. \A id \in Session!PlayerId : id \in Session!PlayerId'
  BY <1>1 DEF Session!PlayerId
<1> QED BY <1>2 DEF BoundInv

(* A step in which no client hears or handles anything. *)
LEMMA QuietStep ==
  ASSUME OrderInv, BoundInv', \A c \in Client : Quiet(c), UNCHANGED <<firstClaim, missed>>
  PROVE  OrderInv'
<1>1. ASSUME NEW c \in Client PROVE (WelcomeFirst(c) /\ ResultsRight(c))'
  BY <1>1, QuietKeeps DEF OrderInv
<1>2. FirstInv'
  <2>1. CASE firstClaim = NoClaim
    <3>1. ASSUME NEW c \in Client
          PROVE  verdicts'[c] = <<>> /\ OnlyWelcomes(c, Len(held[c]))'
      BY <2>1 DEF OrderInv, FirstInv, Quiet, OnlyWelcomes
    <3> QED BY <2>1, <3>1 DEF FirstInv
  <2>2. CASE firstClaim # NoClaim
    <3>1. \A c \in firstClaim.players : c \in Client
      BY <2>2 DEF OrderInv, BoundInv
    <3>2. ASSUME NEW c \in firstClaim.players \ missed PROVE FirstHeard(c)'
      BY <2>2, <3>1, QuietKeeps DEF OrderInv, FirstInv
    <3> QED BY <2>2, <3>2 DEF FirstInv
  <2> QED BY <2>1, <2>2
<1> QED BY <1>1, <1>2 DEF OrderInv

(* The server's frame, and its handling of a win that it ignores. *)
LEMMA QuietServerStep ==
  ASSUME ImplInv, OrderInv,
         ServerBeginsFrame \/ \E c \in Client : ServerIgnoresWin(c)
  PROVE  OrderInv'
<1>1. /\ Server \in Process /\ \A c \in Client : c \in Process /\ c # Server
      /\ UNCHANGED <<serverVars, clientVars, sent, histories>>
  BY ProcessAssumption DEF ServerBeginsFrame, ServerIgnoresWin, Process
<1>2. /\ \A p \in Process : Len(held'[p]) <= MaxHeld[p]
      /\ \A c \in Client : held'[c] = held[c]
      /\ \A c \in Client : frame'[c] = frame[c]
  <2>1. CASE ServerBeginsFrame
    BY <1>1, <2>1 DEF ServerBeginsFrame, ReadIncomingPacketsIntoQueue, OrderInv, BoundInv,
       ImplInv, ImplTypeOK
  <2>2. ASSUME NEW c \in Client, ServerIgnoresWin(c)
        PROVE  /\ \A p \in Process : Len(held'[p]) <= MaxHeld[p]
               /\ \A d \in Client : held'[d] = held[d]
               /\ frame' = frame
    <3>1. /\ Handles(Server, Session!ClaimWin(c)) /\ held' = WithoutFront(Server)
          /\ frame' = frame
      BY <2>2 DEF ServerIgnoresWin, Handles
    <3>2. /\ \A p \in Process : Len(held'[p]) <= Len(held[p])
          /\ \A q \in Process \ {Server} : held'[q] = held[q]
          /\ held' \in [Process -> Seq(AnyPacket)]
      BY <1>1, <3>1, FrontGone
    <3>3. ASSUME NEW p \in Process PROVE Len(held'[p]) <= MaxHeld[p]
      <4>1. /\ Len(held'[p]) \in Nat /\ Len(held[p]) \in Nat /\ MaxHeld[p] \in Nat
            /\ Len(held'[p]) <= Len(held[p]) /\ Len(held[p]) <= MaxHeld[p]
        BY <3>2, LenProperties, ProcessAssumption DEF ImplInv, ImplTypeOK, OrderInv, BoundInv,
           Process
      <4> QED BY <4>1
    <3> QED BY <1>1, <3>1, <3>2, <3>3
  <2> QED BY <2>1, <2>2
<1>3. \A c \in Client : Quiet(c)
  BY <1>1, <1>2 DEF Quiet, serverVars, clientVars
<1>4. BoundInv'
  <2>1. \A c \in Client : frame'[c] # "down"
    BY <1>2 DEF OrderInv, BoundInv
  <2> QED BY <1>1, <1>2, <2>1, BoundsKept
          DEF OrderInv, ImplInv, ImplTypeOK, serverVars, clientVars, histories
<1> QED BY <1>1, <1>3, <1>4, QuietStep DEF histories

(* What a client sends finds room with the server or is lost. *)
LEMMA ClientSends ==
  ASSUME ImplInv, BoundInv, NEW w \in AnyPacket, Send(held, [p \in {Server} |-> w])
  PROVE  /\ \A p \in Process : Len(held'[p]) <= MaxHeld[p]
         /\ \A c \in Client : held'[c] = held[c]
<1> DEFINE m == [p \in {Server} |-> w]
<1>1. /\ held \in [Process -> Seq(AnyPacket)] /\ \A p \in Process : Len(held[p]) \in Nat
      /\ \A c \in Client : c \in Process /\ c \notin {Server}
  BY LenProperties, ProcessAssumption DEF ImplInv, ImplTypeOK, Process
<1>2. m \in [{Server} -> AnyPacket] /\ Send(held, m)
      /\ \A p \in Process : Len(held[p]) <= Len(held[p])
  BY <1>1
<1> HIDE DEF m
<1>3. \A q \in Process :
        /\ held'[q] = IF q \in {Server} /\ Reachable(q) THEN Append(held[q], m[q]) ELSE held[q]
        /\ Len(held'[q]) <= MaxHeld[q]
  BY <1>1, <1>2, SendAppends
<1> QED BY <1>1, <1>3

(* Polling, and the end of a frame: a client hears nothing in them. *)
LEMMA QuietClientStep ==
  ASSUME ImplInv, OrderInv, NEW c \in Client,
         PollNothing(c) \/ PressReturn(c) \/ CloseWindow(c) \/ EndFrame(c)
  PROVE  OrderInv'
<1>1. /\ Session!ClaimWin(c) \in AnyPacket
      /\ Session!Hello(c) \in AnyPacket
  BY DEF Session!ClaimWin, Session!Hello, AnyPacket, PacketType
<1>2. /\ \A p \in Process : Len(held'[p]) <= MaxHeld[p]
      /\ \A d \in Client : held'[d] = held[d]
  <2>1. CASE held' = held
    BY <2>1 DEF OrderInv, BoundInv
  <2>2. CASE Send(held, [p \in {Server} |-> Session!ClaimWin(c)])
    BY <1>1, <2>2, ClientSends DEF OrderInv
  <2>3. CASE Send(held, [p \in {Server} |-> Session!Hello(c)])
    BY <1>1, <2>3, ClientSends DEF OrderInv
  <2> QED BY <2>1, <2>2, <2>3 DEF PollNothing, PressReturn, CloseWindow, EndFrame
<1>3. UNCHANGED <<serverVars, state, playerId, verdicts, histories>>
  BY DEF PollNothing, PressReturn, CloseWindow, EndFrame, clientVars
<1>4. ASSUME NEW d \in Client PROVE Quiet(d)
  <2>1. frame[d] = "left" => frame'[d] = "left"
    BY DEF PollNothing, PressReturn, CloseWindow, EndFrame, ReadIncomingPacketsIntoQueue,
       ImplInv, ImplTypeOK, Process
  <2> QED BY <1>2, <1>3, <2>1 DEF Quiet, serverVars
<1>5. BoundInv'
  <2>1. presses' \in [Client -> Nat] /\ \A d \in Client : presses'[d] <= MaxPresses[d]
    <3>1. /\ presses \in [Client -> Nat] /\ \A d \in Client : presses[d] <= MaxPresses[d]
          /\ MaxPresses \in [Client -> Nat]
      BY ProcessAssumption DEF OrderInv, BoundInv
    <3>2. CASE PressReturn(c)
      BY <3>1, <3>2 DEF PressReturn
    <3>3. CASE presses' = presses
      BY <3>1, <3>3
    <3> QED BY <3>2, <3>3 DEF PollNothing, CloseWindow, EndFrame, clientVars
  <2>2. \A d \in Client : frame'[d] # "down"
    BY DEF PollNothing, PressReturn, CloseWindow, EndFrame, ReadIncomingPacketsIntoQueue,
       ImplInv, ImplTypeOK, Process, OrderInv, BoundInv
  <2> QED BY <1>2, <1>3, <2>1, <2>2 DEF OrderInv, BoundInv, serverVars, histories,
         Session!PlayerId
<1> QED BY <1>3, <1>4, <1>5, QuietStep DEF histories

(* A client that hears one more packet. *)
LEMMA HearsKeeps ==
  ASSUME NEW c \in Client, held[c] \in Seq(AnyPacket), NEW x \in AnyPacket,
         held'[c] = Append(held[c], x),
         verdicts'[c] = verdicts[c], state'[c] = state[c], frame'[c] = frame[c]
  PROVE  /\ Len(held'[c]) = Len(held[c]) + 1 /\ held'[c][Len(held[c]) + 1] = x
         /\ \A i \in 1 .. Len(held[c]) : held'[c][i] = held[c][i]
         /\ \A n \in 0 .. Len(held[c]) : OnlyWelcomes(c, n) => \A k : k = n => OnlyWelcomes(c, k)'
         /\ c \in Known /\ c \in Known' /\ WelcomeFirst(c) => WelcomeFirst(c)'
         /\ firstClaim' = firstClaim /\ FirstHeard(c) => FirstHeard(c)'
<1>1. /\ Len(held[c]) \in Nat /\ Len(held'[c]) = Len(held[c]) + 1
      /\ held'[c][Len(held[c]) + 1] = x
      /\ \A i \in 1 .. Len(held[c]) : held'[c][i] = held[c][i]
  BY AppendProperties, LenProperties
<1>2. ASSUME NEW n \in 0 .. Len(held[c]), OnlyWelcomes(c, n), NEW k, k = n
      PROVE  OnlyWelcomes(c, k)'
  BY <1>1, <1>2 DEF OnlyWelcomes
<1>3. ASSUME c \in Known, c \in Known', WelcomeFirst(c) PROVE WelcomeFirst(c)'
  <2> SUFFICES ASSUME state'[c] = "NCS_SayingHello", frame'[c] # "left"
               PROVE  held'[c] # <<>> /\ held'[c][1].type = "WelcomePacketId"
    BY <1>3 DEF WelcomeFirst
  <2>1. held[c] # <<>> /\ held[c][1].type = "WelcomePacketId"
    BY <1>3 DEF WelcomeFirst
  <2>2. Len(held[c]) # 0 /\ held'[c] # <<>>
    BY <1>1, <2>1, EmptySeq
  <2> QED BY <1>1, <2>1, <2>2
<1>4. ASSUME firstClaim' = firstClaim, FirstHeard(c) PROVE FirstHeard(c)'
  <2>1. CASE verdicts[c] = <<>>
    <3>1. PICK i \in 1 .. Len(held[c]) : /\ held[c][i] = Session!GameOver(c, firstClaim.winner)
                                         /\ OnlyWelcomes(c, i - 1)
      BY <1>4, <2>1 DEF FirstHeard
    <3>2. /\ i \in 1 .. Len(held'[c])
          /\ held'[c][i] = Session!GameOver(c, firstClaim'.winner)
      BY <1>1, <1>4, <3>1
    <3>3. \A j \in 1 .. i - 1 : held'[c][j].type = "WelcomePacketId"
      BY <1>1, <3>1 DEF OnlyWelcomes
    <3> QED BY <2>1, <3>2, <3>3 DEF FirstHeard, OnlyWelcomes, Session!GameOver
  <2>2. CASE verdicts[c] # <<>>
    BY <1>4, <2>2 DEF FirstHeard
  <2> QED BY <2>1, <2>2
<1> QED BY <1>1, <1>2, <1>3, <1>4

LEMMA HelloKeepsOrder ==
  ASSUME ImplInv, ImplInv', OrderInv, NEW c \in Client, ServerHandlesHello(c)
  PROVE  OrderInv'
<1> DEFINE w == Session!Welcome(c, addressToClient'[c])
           m == [p \in {c} |-> w]
<1>1. /\ Server \in Process /\ \A d \in Client : d \in Process \ {Server}
      /\ Handles(Server, Session!Hello(c)) /\ frame' = frame
      /\ Send(WithoutFront(Server), m)
      /\ UNCHANGED <<clientVars, histories>>
  BY ProcessAssumption DEF ServerHandlesHello, Process, Handles
<1>2. w \in AnyPacket /\ w.type = "WelcomePacketId"
  BY DEF ImplInv, ImplTypeOK, Session!Welcome, AnyPacket, PacketType
<1> HIDE DEF w
<1>3. m \in [{c} -> AnyPacket] /\ m[c] = w
  BY <1>2
<1> HIDE DEF m
<1>4. \A q \in Process :
        /\ held'[q] = IF q \in {c} /\ Reachable(q) THEN Append(WithoutFront(Server)[q], m[q])
                      ELSE WithoutFront(Server)[q]
        /\ Len(held'[q]) <= MaxHeld[q]
  BY <1>1, <1>3, FrontGone, SendAppends DEF OrderInv
<1>5. /\ \A d \in Client \ {c} : held'[d] = held[d]
      /\ held'[c] = IF Reachable(c) THEN Append(held[c], w) ELSE held[c]
      /\ held[c] \in Seq(AnyPacket)
  <2>1. \A d \in Client : WithoutFront(Server)[d] = held[d]
    BY <1>1, FrontGone
  <2>2. held[c] \in Seq(AnyPacket)
    BY <1>1 DEF ImplInv, ImplTypeOK
  <2>3. \A d \in Client \ {c} : held'[d] = held[d]
    BY <1>1, <1>4, <2>1
  <2>4. held'[c] = IF Reachable(c) THEN Append(held[c], w) ELSE held[c]
    BY <1>1, <1>3, <1>4, <2>1
  <2> QED BY <2>2, <2>3, <2>4
<1>6. /\ \A d \in Client \ {c} : addressToClient'[d] = addressToClient[d]
      /\ c \in Known => addressToClient'[c] = addressToClient[c] /\ c \in Known'
      /\ c \in Known'
      /\ NewPlayerId \in Nat /\ NewPlayerId' \in Nat /\ NewPlayerId <= NewPlayerId'
  <2>1. /\ addressToClient \in [Client -> Int \cup {NoProxy}] /\ NewPlayerId \in Nat
        /\ NewPlayerId # NoProxy
    BY ProcessAssumption DEF ImplInv, ImplTypeOK
  <2>2. CASE c \in Known
    BY <2>1, <2>2 DEF ServerHandlesHello, serverVars, Known
  <2>3. CASE c \notin Known
    BY <2>1, <2>3 DEF ServerHandlesHello, Known
  <2> QED BY <2>2, <2>3
<1>7. \A d \in Client \ {c} : Quiet(d)
  BY <1>1, <1>5, <1>6 DEF Quiet, clientVars
<1>8. BoundInv'
  <2>1. \A d \in Client : frame'[d] # "down"
    BY <1>1 DEF OrderInv, BoundInv
  <2>2. BoundInv /\ \A p \in Process : Len(held'[p]) <= MaxHeld[p]
    BY <1>4 DEF OrderInv
  <2> QED BY <1>1, <1>6, <2>1, <2>2, BoundsKept DEF clientVars, histories
<1>9. ResultsRight(c)'
  <2>1. CASE c \in Known
    BY <1>1, <1>6, <2>1 DEF OrderInv, ResultsRight, clientVars
  <2>2. CASE c \notin Known
    <3>1. verdicts'[c] = <<>>
      BY <1>1, <2>2 DEF OrderInv, WelcomeFirst, clientVars
    <3> QED BY <3>1, EmptySeq DEF ResultsRight
  <2> QED BY <2>1, <2>2
<1>10. WelcomeFirst(c)'
  <2>1. CASE c \in Known
    <3>1. CASE Reachable(c)
      BY <1>1, <1>2, <1>5, <1>6, <2>1, <3>1, HearsKeeps DEF OrderInv, clientVars
    <3>2. CASE ~Reachable(c)
      BY <1>1, <1>5, <1>6, <2>1, <3>2 DEF OrderInv, WelcomeFirst, clientVars
    <3> QED BY <3>1, <3>2
  <2>2. CASE c \notin Known
    <3>1. held[c] = <<>> /\ Len(held[c]) = 0
      BY <2>2, EmptySeq DEF OrderInv, WelcomeFirst
    <3>2. CASE frame[c] = "left"
      BY <1>1, <1>6, <3>2 DEF WelcomeFirst
    <3>3. CASE frame[c] # "left"
      <4>1. Reachable(c)
        BY <3>1, <3>3, ProcessAssumption DEF Reachable, OrderInv, BoundInv
      <4>2. Len(held'[c]) = 1 /\ held'[c][1] = w
        BY <1>1, <1>2, <1>5, <3>1, <4>1, HearsKeeps DEF clientVars
      <4>3. held'[c] # <<>>
        BY <4>2, EmptySeq
      <4> QED BY <1>2, <1>6, <4>2, <4>3 DEF WelcomeFirst
    <3> QED BY <3>2, <3>3
  <2> QED BY <2>1, <2>2
<1>11. FirstInv'
  <2>1. CASE firstClaim = NoClaim
    <3>1. OnlyWelcomes(c, Len(held[c]))' /\ verdicts'[c] = <<>>
      <4>1. verdicts[c] = <<>> /\ OnlyWelcomes(c, Len(held[c]))
        BY <2>1 DEF OrderInv, FirstInv
      <4>2. CASE Reachable(c)
        <5>1. /\ Len(held[c]) \in Nat /\ Len(held'[c]) = Len(held[c]) + 1
              /\ held'[c][Len(held[c]) + 1] = w
              /\ \A i \in 1 .. Len(held[c]) : held'[c][i] = held[c][i]
          BY <1>1, <1>2, <1>5, <4>2, HearsKeeps, LenProperties DEF clientVars
        <5>2. ASSUME NEW i \in 1 .. Len(held[c]) + 1
              PROVE  held'[c][i].type = "WelcomePacketId"
          <6>1. i = Len(held[c]) + 1 \/ i \in 1 .. Len(held[c])
            BY <5>1
          <6> QED BY <1>2, <4>1, <5>1, <6>1 DEF OnlyWelcomes
        <5> QED BY <1>1, <4>1, <5>1, <5>2 DEF OnlyWelcomes, clientVars
      <4>3. CASE ~Reachable(c)
        BY <1>1, <1>5, <4>1, <4>3 DEF OnlyWelcomes, clientVars
      <4> QED BY <4>2, <4>3
    <3>2. ASSUME NEW d \in Client \ {c}
          PROVE  OnlyWelcomes(d, Len(held[d]))' /\ verdicts'[d] = <<>>
      BY <1>7, <2>1 DEF OrderInv, FirstInv, Quiet, OnlyWelcomes
    <3>3. firstClaim' = NoClaim
      BY <1>1, <2>1 DEF histories
    <3> QED BY <3>1, <3>2, <3>3 DEF FirstInv
  <2>2. CASE firstClaim # NoClaim
    <3>1. \A d \in firstClaim.players : d \in Client
      BY <2>2 DEF OrderInv, BoundInv
    <3>2. firstClaim' = firstClaim /\ missed' = missed
      BY <1>1 DEF histories
    <3>3. ASSUME NEW d \in firstClaim.players \ missed PROVE FirstHeard(d)'
      <4>1. FirstHeard(d) /\ d \in Client
        BY <2>2, <3>1 DEF OrderInv, FirstInv
      <4>2. CASE d # c
        BY <1>7, <3>2, <4>1, <4>2, QuietKeeps
      <4>3. CASE d = c /\ Reachable(c)
        BY <1>1, <1>2, <1>5, <3>2, <4>1, <4>3, HearsKeeps DEF clientVars
      <4>4. CASE d = c /\ ~Reachable(c)
        BY <1>1, <1>5, <3>2, <4>1, <4>4 DEF FirstHeard, OnlyWelcomes, clientVars
      <4> QED BY <4>2, <4>3, <4>4
    <3> QED BY <2>2, <3>2, <3>3 DEF FirstInv
  <2> QED BY <2>1, <2>2
<1>12. ASSUME NEW d \in Client PROVE (WelcomeFirst(d) /\ ResultsRight(d))'
  BY <1>7, <1>9, <1>10, QuietKeeps DEF OrderInv
<1> QED BY <1>8, <1>11, <1>12 DEF OrderInv

(* What handling a packet changes, of client c and of the others. *)
LEMMA ClientHandlesOne ==
  ASSUME ImplInv, OrderInv, NEW c \in Client, NEW m, Handles(c, m), held' = WithoutFront(c)
  PROVE  /\ \A p \in Process : Len(held'[p]) <= MaxHeld[p]
         /\ \A d \in Client \ {c} : held'[d] = held[d]
         /\ held[c] # <<>> /\ m = held[c][1] /\ Len(held[c]) \in Nat \ {0}
         /\ Len(held'[c]) = Len(held[c]) - 1
         /\ \A i \in 1 .. Len(held[c]) - 1 : held'[c][i] = held[c][i + 1]
         /\ frame' = frame /\ frame[c] = "processing" /\ c \in Known
<1>1. c \in Process /\ \A d \in Client \ {c} : d \in Process \ {c}
  BY DEF Process
<1>2. /\ held' \in [Process -> Seq(AnyPacket)]
      /\ \A q \in Process : Len(held'[q]) <= Len(held[q])
      /\ \A q \in Process \ {c} : held'[q] = held[q]
      /\ held'[c] = Tail(held[c])
      /\ held[c] # <<>> /\ Len(held[c]) \in Nat \ {0} /\ m = held[c][1]
      /\ Len(Tail(held[c])) = Len(held[c]) - 1
      /\ \A i \in 1 .. Len(held[c]) - 1 : Tail(held[c])[i] = held[c][i + 1]
  BY <1>1, FrontGone
<1>3. ASSUME NEW p \in Process PROVE Len(held'[p]) <= MaxHeld[p]
  <2>1. /\ Len(held'[p]) \in Nat /\ Len(held[p]) \in Nat /\ MaxHeld[p] \in Nat
        /\ Len(held'[p]) <= Len(held[p]) /\ Len(held[p]) <= MaxHeld[p]
    BY <1>2, LenProperties, ProcessAssumption DEF ImplInv, ImplTypeOK, OrderInv, BoundInv, Process
  <2> QED BY <2>1
<1>4. c \in Known
  BY <1>2 DEF OrderInv, WelcomeFirst
<1>5. frame' = frame /\ frame[c] = "processing"
  BY DEF Handles
<1> QED BY <1>1, <1>2, <1>3, <1>4, <1>5

LEMMA WelcomeKeepsOrder ==
  ASSUME ImplInv, ImplInv', OrderInv,
         NEW c \in Client, NEW id \in Session!PlayerId, HandleWelcomePacket(c, id)
  PROVE  OrderInv'
<1>1. /\ Handles(c, Session!Welcome(c, id)) /\ held' = WithoutFront(c)
      /\ UNCHANGED <<serverVars, quit, presses, verdicts, sent, histories>>
  BY DEF HandleWelcomePacket
<1>2. /\ \A p \in Process : Len(held'[p]) <= MaxHeld[p]
      /\ \A d \in Client \ {c} : held'[d] = held[d]
      /\ held[c] # <<>> /\ Session!Welcome(c, id) = held[c][1] /\ Len(held[c]) \in Nat \ {0}
      /\ Len(held'[c]) = Len(held[c]) - 1
      /\ \A i \in 1 .. Len(held[c]) - 1 : held'[c][i] = held[c][i + 1]
      /\ frame' = frame /\ frame[c] = "processing" /\ c \in Known
  BY <1>1, ClientHandlesOne
<1>3. state'[c] = "NCS_Welcomed" /\ \A d \in Client \ {c} : state'[d] = state[d]
  BY DEF HandleWelcomePacket, ImplInv, ImplTypeOK
<1>4. \A d \in Client \ {c} : Quiet(d)
  BY <1>1, <1>2, <1>3 DEF Quiet, serverVars
<1>5. BoundInv'
  <2>1. \A d \in Client : frame'[d] # "down"
    BY <1>2 DEF OrderInv, BoundInv
  <2>2. BoundInv /\ NewPlayerId \in Nat /\ NewPlayerId' = NewPlayerId /\ NewPlayerId <= NewPlayerId'
    BY <1>1 DEF OrderInv, ImplInv, ImplTypeOK, serverVars
  <2> QED BY <1>1, <1>2, <2>1, <2>2, BoundsKept DEF histories
<1>6. WelcomeFirst(c)' /\ ResultsRight(c)'
  BY <1>1, <1>2, <1>3 DEF OrderInv, WelcomeFirst, ResultsRight, Known, serverVars
<1>7. ASSUME NEW d \in Client PROVE (WelcomeFirst(d) /\ ResultsRight(d))'
  BY <1>4, <1>6, QuietKeeps DEF OrderInv
<1>8. FirstInv'
  <2>1. CASE firstClaim = NoClaim
    <3>1. /\ \A d \in Client : verdicts'[d] = <<>>
          /\ \A d \in Client : OnlyWelcomes(d, Len(held[d]))
      BY <1>1, <2>1 DEF OrderInv, FirstInv
    <3>2. ASSUME NEW d \in Client \ {c} PROVE OnlyWelcomes(d, Len(held[d]))'
      BY <1>2, <3>1 DEF OnlyWelcomes
    <3>3. OnlyWelcomes(c, Len(held[c]))'
      BY <1>2, <3>1 DEF OnlyWelcomes
    <3> QED BY <1>1, <2>1, <3>1, <3>2, <3>3 DEF FirstInv, histories
  <2>2. CASE firstClaim # NoClaim
    <3>1. \A d \in firstClaim.players : d \in Client
      BY <2>2 DEF OrderInv, BoundInv
    <3>2. firstClaim' = firstClaim /\ missed' = missed
      BY <1>1 DEF histories
    <3>3. ASSUME c \in firstClaim.players \ missed PROVE FirstHeard(c)'
      <4>1. FirstHeard(c)
        BY <2>2, <3>3 DEF OrderInv, FirstInv
      <4>2. CASE verdicts[c] = <<>>
        <5>1. PICK i \in 1 .. Len(held[c]) : /\ held[c][i] = Session!GameOver(c, firstClaim.winner)
                                             /\ OnlyWelcomes(c, i - 1)
          BY <4>1, <4>2 DEF FirstHeard
        <5>2. i # 1
          BY <1>2, <5>1 DEF Session!GameOver, Session!Welcome
        <5>3. i - 1 \in 1 .. Len(held'[c]) /\ held'[c][i - 1] = held[c][i]
          BY <1>2, <5>1, <5>2
        <5>4. ASSUME NEW j \in 1 .. (i - 1) - 1 PROVE held'[c][j].type = "WelcomePacketId"
          <6>1. j + 1 \in 1 .. i - 1 /\ j \in 1 .. Len(held[c]) - 1
            BY <1>2, <5>1
          <6> QED BY <1>2, <5>1, <6>1 DEF OnlyWelcomes
        <5>5. (held'[c][i - 1] = Session!GameOver(c, firstClaim'.winner)) /\ verdicts'[c] = <<>>
          BY <1>1, <3>2, <4>2, <5>1, <5>3
        <5> QED BY <5>3, <5>4, <5>5 DEF FirstHeard, OnlyWelcomes, Session!GameOver
      <4>3. CASE verdicts[c] # <<>>
        BY <1>1, <3>2, <4>1, <4>3 DEF FirstHeard
      <4> QED BY <4>2, <4>3
    <3>4. ASSUME NEW d \in firstClaim.players \ missed, d # c PROVE FirstHeard(d)'
      BY <1>4, <2>2, <3>1, <3>2, <3>4, QuietKeeps DEF OrderInv, FirstInv
    <3> QED BY <2>2, <3>2, <3>3, <3>4 DEF FirstInv
  <2> QED BY <2>1, <2>2
<1> QED BY <1>5, <1>7, <1>8 DEF OrderInv

LEMMA GameOverKeepsOrder ==
  ASSUME ImplInv, ImplInv', OrderInv, SessionFacts,
         NEW c \in Client, NEW winner \in Session!PlayerId, HandleGameOverPacket(c, winner)
  PROVE  OrderInv'
<1> DEFINE v == Session!Verdict(c, winner)
<1>1. /\ Handles(c, Session!GameOver(c, winner)) /\ held' = WithoutFront(c)
      /\ verdicts' = [verdicts EXCEPT ![c] = Append(verdicts[c], v)]
      /\ UNCHANGED <<serverVars, state, playerId, presses, sent, histories>>
  BY DEF HandleGameOverPacket
<1>2. /\ \A p \in Process : Len(held'[p]) <= MaxHeld[p]
      /\ \A d \in Client \ {c} : held'[d] = held[d]
      /\ held[c] # <<>> /\ Session!GameOver(c, winner) = held[c][1]
      /\ Len(held[c]) \in Nat \ {0}
      /\ Len(held'[c]) = Len(held[c]) - 1
      /\ \A i \in 1 .. Len(held[c]) - 1 : held'[c][i] = held[c][i + 1]
      /\ frame' = frame /\ frame[c] = "processing" /\ c \in Known
  BY <1>1, ClientHandlesOne
<1>3. held[c][1].type = "WinPacketId" /\ held[c][1].id = winner
  BY <1>2 DEF Session!GameOver
<1>4. state[c] = "NCS_Welcomed" /\ playerId[c] = addressToClient[c]
  <2>1. state[c] # "NCS_SayingHello"
    BY <1>2, <1>3 DEF OrderInv, WelcomeFirst
  <2>2. state[c] = "NCS_Welcomed"
    BY <2>1 DEF ImplInv, ImplTypeOK
  <2> QED BY <2>2 DEF SessionFacts, Session!WelcomedIdIsTheServers
<1>5. /\ v \in AnyVerdict /\ v.winner = winner /\ v.welcomed
      /\ v.won <=> winner = addressToClient[c]
  <2>1. winner \in Int /\ state[c] = "NCS_Welcomed" /\ playerId[c] = addressToClient[c]
    BY <1>4 DEF Session!PlayerId, ImplInv, ImplTypeOK
  <2>2. v = [winner |-> winner, won |-> winner = playerId[c], welcomed |-> TRUE]
    BY <2>1 DEF Session!Verdict
  <2>3. v \in AnyVerdict
    BY <2>1, <2>2 DEF AnyVerdict
  <2> HIDE DEF v
  <2>4. v.winner = winner /\ v.welcomed
    BY <2>2
  <2>5. v.won <=> winner = addressToClient[c]
    BY <2>1, <2>2
  <2> QED BY <2>3, <2>4, <2>5
<1> HIDE DEF v
<1>6. /\ verdicts[c] \in Seq(AnyVerdict) /\ Len(verdicts[c]) \in Nat
      /\ verdicts'[c] = Append(verdicts[c], v)
      /\ \A d \in Client \ {c} : verdicts'[d] = verdicts[d]
  BY <1>1, LenProperties DEF ImplInv, ImplTypeOK
<1>7. /\ Len(verdicts'[c]) = Len(verdicts[c]) + 1
      /\ verdicts'[c][Len(verdicts[c]) + 1] = v
      /\ \A i \in 1 .. Len(verdicts[c]) : verdicts'[c][i] = verdicts[c][i]
  BY <1>5, <1>6, AppendProperties
<1>8. verdicts'[c] # <<>>
  BY <1>6, <1>7, EmptySeq
<1>9. \A d \in Client \ {c} : Quiet(d)
  BY <1>1, <1>2, <1>6 DEF Quiet, serverVars
<1>10. BoundInv'
  <2>1. \A d \in Client : frame'[d] # "down"
    BY <1>2 DEF OrderInv, BoundInv
  <2>2. BoundInv /\ NewPlayerId \in Nat /\ NewPlayerId' = NewPlayerId /\ NewPlayerId <= NewPlayerId'
    BY <1>1 DEF OrderInv, ImplInv, ImplTypeOK, serverVars
  <2> QED BY <1>1, <1>2, <2>1, <2>2, BoundsKept DEF histories
<1>11. WelcomeFirst(c)'
  BY <1>1, <1>2, <1>4 DEF WelcomeFirst, Known, serverVars
<1>12. ResultsRight(c)'
  <2>1. ASSUME NEW i \in 1 .. Len(verdicts[c]) + 1
        PROVE  /\ verdicts'[c][i].welcomed
               /\ verdicts'[c][i].won <=> verdicts'[c][i].winner = addressToClient[c]
    <3>1. i = Len(verdicts[c]) + 1 \/ i \in 1 .. Len(verdicts[c])
      BY <1>6
    <3> QED BY <1>5, <1>7, <3>1, SMTT(30) DEF OrderInv, ResultsRight
  <2>2. addressToClient' = addressToClient
    BY <1>1 DEF serverVars
  <2> QED BY <1>7, <2>1, <2>2 DEF ResultsRight
<1>13. ASSUME NEW d \in Client PROVE (WelcomeFirst(d) /\ ResultsRight(d))'
  BY <1>9, <1>11, <1>12, QuietKeeps DEF OrderInv
<1>14. FirstInv'
  <2>1. firstClaim # NoClaim
    BY <1>2, <1>3 DEF OrderInv, FirstInv, OnlyWelcomes
  <2>2. \A d \in firstClaim.players : d \in Client
    BY <2>1 DEF OrderInv, BoundInv
  <2>3. firstClaim' = firstClaim /\ missed' = missed
    BY <1>1 DEF histories
  <2>4. ASSUME c \in firstClaim.players \ missed PROVE FirstHeard(c)'
    <3>1. FirstHeard(c)
      BY <2>1, <2>4 DEF OrderInv, FirstInv
    <3>2. verdicts'[c][1].winner = firstClaim.winner
      <4>1. CASE verdicts[c] = <<>>
        <5>1. PICK i \in 1 .. Len(held[c]) : /\ held[c][i] = Session!GameOver(c, firstClaim.winner)
                                             /\ OnlyWelcomes(c, i - 1)
          BY <3>1, <4>1 DEF FirstHeard
        <5>2. i = 1
          BY <1>2, <1>3, <5>1 DEF OnlyWelcomes
        <5>3. winner = firstClaim.winner
          BY <1>3, <5>1, <5>2 DEF Session!GameOver
        <5>4. Len(verdicts[c]) = 0
          BY <4>1, EmptySeq
        <5> QED BY <1>5, <1>7, <5>3, <5>4
      <4>2. CASE verdicts[c] # <<>>
        <5>1. Len(verdicts[c]) # 0 /\ verdicts[c][1].winner = firstClaim.winner
          BY <1>6, <3>1, <4>2, EmptySeq DEF FirstHeard
        <5> QED BY <1>6, <1>7, <5>1
      <4> QED BY <4>1, <4>2
    <3> QED BY <1>8, <2>3, <3>2 DEF FirstHeard
  <2>5. ASSUME NEW d \in firstClaim.players \ missed, d # c PROVE FirstHeard(d)'
    BY <1>9, <2>1, <2>2, <2>3, <2>5, QuietKeeps DEF OrderInv, FirstInv
  <2> QED BY <2>1, <2>3, <2>4, <2>5 DEF FirstInv
<1> QED BY <1>10, <1>13, <1>14 DEF OrderInv

LEMMA WinKeepsOrder ==
  ASSUME ImplInv, ImplInv', OrderInv, SessionFacts, NEW c \in Client, HandleWinPacket(c)
  PROVE  OrderInv'
<1> DEFINE won == addressToClient[c]
           m == [p \in Known |-> Session!GameOver(p, won)]
<1>1. /\ Server \in Process /\ Known \subseteq Client
      /\ \A d \in Client : d \in Process \ {Server}
      /\ c \in Known /\ Handles(Server, Session!ClaimWin(c)) /\ frame' = frame
      /\ Send(WithoutFront(Server), m)
      /\ Announced(c, Known)
      /\ UNCHANGED <<serverVars, clientVars>>
  BY ProcessAssumption DEF HandleWinPacket, Process, Handles, Known
<1>2. won \in Session!PlayerId /\ won \in Int
  BY <1>1 DEF SessionFacts, Session!TypeOK, Known, Session!PlayerId
<1> HIDE DEF won
<1>3. \A d \in Client : Session!GameOver(d, won) \in AnyPacket
  BY <1>2 DEF Session!GameOver, AnyPacket, PacketType
<1>4. m \in [Known -> AnyPacket] /\ \A d \in Known : m[d] = Session!GameOver(d, won)
  BY <1>1, <1>3
<1> HIDE DEF m
<1>5. \A q \in Process :
        /\ held'[q] = IF q \in Known /\ Reachable(q) THEN Append(WithoutFront(Server)[q], m[q])
                      ELSE WithoutFront(Server)[q]
        /\ Len(held'[q]) <= MaxHeld[q]
  BY <1>1, <1>4, FrontGone, SendAppends DEF OrderInv
<1>6. ASSUME NEW d \in Client
      PROVE  /\ held[d] \in Seq(AnyPacket)
             /\ held'[d] = IF d \in Known /\ Reachable(d)
                           THEN Append(held[d], Session!GameOver(d, won)) ELSE held[d]
             /\ verdicts'[d] = verdicts[d] /\ state'[d] = state[d]
             /\ frame'[d] = frame[d] /\ addressToClient'[d] = addressToClient[d]
  <2>1. WithoutFront(Server)[d] = held[d]
    BY <1>1, FrontGone
  <2>2. held[d] \in Seq(AnyPacket)
    BY <1>1 DEF ImplInv, ImplTypeOK
  <2>3. held'[d] = IF d \in Known /\ Reachable(d)
                   THEN Append(held[d], Session!GameOver(d, won)) ELSE held[d]
    BY <1>1, <1>4, <1>5, <2>1
  <2> QED BY <1>1, <2>2, <2>3 DEF serverVars, clientVars
<1>7. ASSUME NEW d \in Client, ~(d \in Known /\ Reachable(d)) PROVE Quiet(d)
  BY <1>6, <1>7 DEF Quiet
<1>8. ASSUME NEW d \in Client PROVE (WelcomeFirst(d) /\ ResultsRight(d))'
  <2>1. CASE d \in Known /\ Reachable(d)
    <3>1. d \in Known'
      BY <1>6, <2>1 DEF Known
    <3>2. WelcomeFirst(d)'
      BY <1>3, <1>6, <2>1, <3>1, HearsKeeps DEF OrderInv
    <3>3. ResultsRight(d)'
      BY <1>6 DEF OrderInv, ResultsRight
    <3> QED BY <3>2, <3>3
  <2>2. CASE ~(d \in Known /\ Reachable(d))
    BY <1>7, <2>2, QuietKeeps DEF OrderInv
  <2> QED BY <2>1, <2>2
<1>9. /\ missed' = missed \cup {d \in Known : ~Reachable(d)}
      /\ firstClaim' = IF firstClaim = NoClaim THEN [winner |-> won, players |-> Known]
                       ELSE firstClaim
  BY <1>1 DEF Announced, won
<1>10. [winner |-> won, players |-> Known] # NoClaim
  BY <1>1, <1>2, ProcessAssumption
<1>11. BoundInv'
  <2>1. \A d \in Client : frame'[d] # "down"
    BY <1>1 DEF OrderInv, BoundInv
  <2>2. \A p \in Process : Len(held'[p]) <= MaxHeld[p]
    BY <1>5
  <2>3. missed' \subseteq Client
    BY <1>1, <1>9 DEF OrderInv, BoundInv
  <2>4. Session!PlayerId' = Session!PlayerId
    BY <1>1 DEF Session!PlayerId, serverVars
  <2>5. firstClaim' \in {NoClaim} \cup [winner : Session!PlayerId, players : SUBSET Client]
    BY <1>1, <1>2, <1>9 DEF OrderInv, BoundInv
  <2>6. presses' = presses
    BY <1>1 DEF clientVars
  <2> QED BY <2>1, <2>2, <2>3, <2>4, <2>5, <2>6 DEF OrderInv, BoundInv
<1>12. FirstInv'
  <2>1. CASE firstClaim = NoClaim
    <3>1. firstClaim'.winner = won /\ firstClaim'.players = Known /\ firstClaim' # NoClaim
      BY <1>9, <1>10, <2>1
    <3>2. ASSUME NEW d \in Known \ missed' PROVE FirstHeard(d)'
      <4>1. d \in Client /\ d \in Known /\ Reachable(d)
        BY <1>1, <1>9, <3>2
      <4>2. verdicts[d] = <<>> /\ OnlyWelcomes(d, Len(held[d]))
        BY <2>1, <4>1 DEF OrderInv, FirstInv
      <4>3. /\ Len(held'[d]) = Len(held[d]) + 1 /\ Len(held[d]) \in Nat
            /\ held'[d][Len(held[d]) + 1] = Session!GameOver(d, won)
            /\ \A i \in 1 .. Len(held[d]) : held'[d][i] = held[d][i]
        BY <1>3, <1>6, <4>1, HearsKeeps, LenProperties
      <4>4. /\ Len(held[d]) + 1 \in 1 .. Len(held'[d])
            /\ held'[d][Len(held[d]) + 1] = Session!GameOver(d, firstClaim'.winner)
        BY <3>1, <4>3
      <4>5. \A j \in 1 .. (Len(held[d]) + 1) - 1 : held'[d][j].type = "WelcomePacketId"
        BY <4>2, <4>3 DEF OnlyWelcomes
      <4>6. verdicts'[d] = <<>>
        BY <1>6, <4>1, <4>2
      <4> QED BY <4>4, <4>5, <4>6 DEF FirstHeard, OnlyWelcomes, Session!GameOver
    <3> QED BY <3>1, <3>2 DEF FirstInv
  <2>2. CASE firstClaim # NoClaim
    <3>1. firstClaim' = firstClaim /\ \A d \in firstClaim.players : d \in Client
      BY <1>9, <2>2 DEF OrderInv, BoundInv
    <3>2. ASSUME NEW d \in firstClaim.players \ missed' PROVE FirstHeard(d)'
      <4>1. d \in Client /\ FirstHeard(d)
        BY <1>9, <2>2, <3>1, <3>2 DEF OrderInv, FirstInv
      <4>2. CASE d \in Known /\ Reachable(d)
        BY <1>3, <1>6, <3>1, <4>1, <4>2, HearsKeeps
      <4>3. CASE ~(d \in Known /\ Reachable(d))
        BY <1>7, <3>1, <4>1, <4>3, QuietKeeps
      <4> QED BY <4>2, <4>3
    <3> QED BY <2>2, <3>1, <3>2 DEF FirstInv
  <2> QED BY <2>1, <2>2
<1> QED BY <1>8, <1>11, <1>12 DEF OrderInv

---------------------------------------------------------------------------
LEMMA OrderInit == Init => OrderInv
<1> SUFFICES ASSUME Init PROVE OrderInv
  OBVIOUS
<1>1. /\ \A c \in Client : c \in Process /\ c # Server
      /\ Len(<<>>) = 0 /\ \A p \in Process : MaxHeld[p] \in Nat
  BY ProcessAssumption, EmptySeq DEF Process
<1>2. BoundInv
  BY <1>1, ProcessAssumption DEF Init, BoundInv
<1>3. ASSUME NEW c \in Client PROVE WelcomeFirst(c) /\ ResultsRight(c)
  BY <1>1 DEF Init, WelcomeFirst, ResultsRight, Known
<1>4. FirstInv
  BY <1>1 DEF Init, FirstInv, OnlyWelcomes
<1> QED BY <1>2, <1>3, <1>4 DEF OrderInv

LEMMA OrderStep ==
  ImplInv /\ ImplInv' /\ SessionFacts /\ OrderInv /\ [Next]_vars => OrderInv'
<1> SUFFICES ASSUME ImplInv, ImplInv', SessionFacts, OrderInv, [Next]_vars PROVE OrderInv'
  OBVIOUS
<1>1. CASE UNCHANGED vars
  BY <1>1 DEF vars, netVars, serverVars, clientVars, histories, OrderInv, BoundInv,
     WelcomeFirst, ResultsRight, FirstInv, FirstHeard, OnlyWelcomes, Known, Session!PlayerId,
     Session!GameOver
<1>2. CASE ServerBeginsFrame
  BY <1>2, QuietServerStep
<1>3. ASSUME NEW c \in Client, ServerHandlesHello(c) \/ ServerIgnoresWin(c) \/ HandleWinPacket(c)
      PROVE  OrderInv'
  BY <1>3, QuietServerStep, HelloKeepsOrder, WinKeepsOrder
<1>4. ASSUME NEW c \in Client, ClientStep(c) PROVE OrderInv'
  <2>1. CASE PollNothing(c) \/ PressReturn(c) \/ CloseWindow(c) \/ EndFrame(c)
    BY <2>1, QuietClientStep
  <2>2. CASE ClientHandles(c)
    BY <2>2, WelcomeKeepsOrder, GameOverKeepsOrder DEF ClientHandles
  <2> QED BY <1>4, <2>1, <2>2 DEF ClientStep
<1> QED BY <1>1, <1>2, <1>3, <1>4 DEF Next, ServerStep, ServerHandles

LEMMA FramesInvariance == Spec => [](ImplInv /\ SessionFacts /\ OrderInv)
<1>1. Spec => []SessionFacts
  <2>1. Joining!ProxyAssumption
    BY ProcessAssumption DEF Joining!ProxyAssumption
  <2>2. Joining!Spec => []Joining!TypeOK /\ []Joining!WelcomedIdIsTheServers
    BY <2>1, Joining!SessionTypeCorrect, Joining!WelcomedIdHolds
  <2>3. ImplementsSession => Joining!Spec
    BY SameSession, PTL DEF ImplementsSession, Joining!Spec
  <2>4. Joining!TypeOK /\ Joining!WelcomedIdIsTheServers => SessionFacts
    BY DEF Joining!TypeOK, Session!TypeOK, Joining!WelcomedIdIsTheServers,
           Session!WelcomedIdIsTheServers, SessionFacts, Joining!Packet, Session!Packet,
           Joining!PlayerId, Session!PlayerId, Joining!Hello, Session!Hello,
           Joining!ClaimWin, Session!ClaimWin, Joining!Welcome, Session!Welcome,
           Joining!GameOver, Session!GameOver
  <2> QED BY <2>2, <2>3, <2>4, SessionImplemented, PTL
<1>2. Init => ImplInv /\ OrderInv
  BY ImplInit, OrderInit
<1>3. ImplInv /\ [Next]_vars => ImplInv'
  BY ImplStep
<1>4. ImplInv /\ ImplInv' /\ SessionFacts /\ OrderInv /\ [Next]_vars => OrderInv'
  BY OrderStep
<1> QED BY <1>1, <1>2, <1>3, <1>4, PTL DEF Spec

(* Every variable keeps its type: what a process holds are packets that were *)
(* sent, never more than its socket and queue take, and ids are the server's.*)
THEOREM FramesTypeCorrect == Spec => []ClientServerTypeOK
<1>1. ImplInv /\ SessionFacts /\ OrderInv => ClientServerTypeOK
  <2> SUFFICES ASSUME ImplInv, SessionFacts, OrderInv PROVE ClientServerTypeOK
    OBVIOUS
  <2>1. held \in [Process -> Seq(sent)]
    <3>1. ASSUME NEW p \in Process PROVE held[p] \in Seq(sent)
      <4>1. held[p] \in Seq(AnyPacket) /\ \A i \in 1 .. Len(held[p]) : held[p][i] \in sent
        BY DEF ImplInv, ImplTypeOK, HeldInv
      <4>2. Len(held[p]) \in Nat /\ held[p] \in [1 .. Len(held[p]) -> AnyPacket]
        BY <4>1, LenProperties
      <4>3. held[p] \in [1 .. Len(held[p]) -> sent]
        BY <4>1, <4>2
      <4> QED BY <4>2, <4>3, SeqDef
    <3> QED BY <3>1 DEF ImplInv, ImplTypeOK
  <2>2. ASSUME NEW p \in Process
        PROVE  Len(held[p]) <= MaxHeld[p] /\ queued[p] \in 0 .. Len(held[p])
    <3>1. Len(held[p]) \in Nat /\ queued[p] \in Nat /\ queued[p] <= Len(held[p])
      BY LenProperties DEF ImplInv, ImplTypeOK, HeldInv
    <3> QED BY <3>1 DEF OrderInv, BoundInv
  <2>3. \A c \in Client : presses[c] \in 0 .. MaxPresses[c]
    BY ProcessAssumption DEF OrderInv, BoundInv
  <2> QED BY <2>1, <2>2, <2>3 DEF ClientServerTypeOK, SessionFacts, ImplInv, ImplTypeOK,
         OrderInv, BoundInv
<1> QED BY <1>1, FramesInvariance, PTL

(* However small its socket, however long its frames and whoever claims when,*)
(* a client that logs a result was welcomed before (ClientNetworkManager.cpp:*)
(* 79-94 compares the winner with the id the welcome brought), and is told   *)
(* that it won if and only if the server meant it.                           *)
THEOREM ResultAfterWelcomeHolds == Spec => []ResultAfterWelcome
<1>1. OrderInv => ResultAfterWelcome
  BY DEF OrderInv, ResultsRight, ResultAfterWelcome
<1> QED BY <1>1, FramesInvariance, PTL

(* Of several claims, every player the first was announced to logs the first *)
(* one's winner first, unless an announcement found its socket full          *)
(* (ServerNetworkManager.cpp:82-104).                                        *)
THEOREM FirstResultsAgreeHolds == Spec => []FirstResultsAgree
<1>1. OrderInv => FirstResultsAgree
  BY DEF OrderInv, FirstInv, FirstHeard, FirstResultsAgree
<1> QED BY <1>1, FramesInvariance, PTL
=============================================================================
