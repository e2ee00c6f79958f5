--------------------------- MODULE NetworkManager ---------------------------
(***************************************************************************)
(* The receiving half of a NetworkManager: once a frame it empties the     *)
(* socket into packetQueue, up to a limit, and hands the queued packets    *)
(* whose simulated latency is over to ProcessPacket.  Datagrams arrive     *)
(* while the frame runs.                                                   *)
(*                                                                         *)
(* The first few packets of interest are watched, and called 1, 2, ... in  *)
(* the order they arrive; all others are Noise, and may arrive for ever.   *)
(* Rates and byte counts are left out: nothing reads them.                 *)
(***************************************************************************)
EXTENDS Integers, Sequences, FiniteSets

CONSTANTS
  MaxWatched,                 \* bound: packets told apart
  Noise,                      \* any other packet
  Failed,                     \* a receive that fails: a reset, or another error
  kMaxPacketsPerFrameCount,
  Latency,                    \* values of simulatedLatency, in clock ticks
  MaxHeld,                    \* bound: datagrams in the socket and the queue
  MaxUnanswered               \* bound: errors on their way or waiting to be read

ASSUME FrameAssumption ==
  /\ kMaxPacketsPerFrameCount \in Nat \ {0}
  /\ Latency \subseteq Nat /\ 0 \in Latency
  /\ MaxWatched \in Nat /\ MaxHeld \in Nat /\ MaxUnanswered \in Nat
  /\ Noise \notin Nat /\ Failed \notin Nat /\ Noise # Failed

VARIABLES
  udpSocket,          \* "none", "unbound" (Init failed: still blocking) or "open"
  buffer,             \* what the socket holds
  packetQueue,        \* packets with the ticks they still wait; due below 0
  frame,              \* where ProcessIncomingPackets is
  receivedPackedCount,
  simulatedLatency,
  packetDropChance,   \* "zero", which drops nothing, or "positive"
  unanswered,         \* packets sent that may still come back as errors
  arrived,            \* history: how many watched packets have arrived
  handled,            \* history: watched packets in the order of ProcessPacket
  dropped             \* history: watched packets dropped on purpose

settings == <<simulatedLatency, packetDropChance>>
netVars == <<udpSocket, buffer, packetQueue, frame, receivedPackedCount, settings,
             unanswered, arrived, handled, dropped>>

Held == Len(buffer) + Len(packetQueue)
Watched == 1 .. MaxWatched

\* A new NetworkManager, before Init or with the socket Init made.
NewNetworkManager(s) ==
  /\ udpSocket = s
  /\ buffer = <<>> /\ packetQueue = <<>>
  /\ frame = "idle" /\ receivedPackedCount = 0
  /\ simulatedLatency = 0 /\ packetDropChance = "zero"
  /\ unanswered = 0
  /\ arrived = 0 /\ handled = <<>> /\ dropped = {}

---------------------------------------------------------------------------
(* The network and the clock *)

Receivable == udpSocket = "open" /\ Held < MaxHeld

Arrive ==
  /\ Receivable /\ arrived < MaxWatched
  /\ arrived' = arrived + 1
  /\ buffer' = Append(buffer, arrived')
  /\ UNCHANGED <<udpSocket, packetQueue, frame, receivedPackedCount, settings,
                 unanswered, handled, dropped>>

NoiseArrives ==
  /\ Receivable
  /\ buffer' = Append(buffer, Noise)
  /\ UNCHANGED <<udpSocket, packetQueue, frame, receivedPackedCount, settings,
                 unanswered, arrived, handled, dropped>>

\* A packet sent earlier could not be delivered.
Bounce ==
  /\ unanswered > 0
  /\ unanswered' = unanswered - 1
  /\ buffer' = Append(buffer, Failed)
  /\ UNCHANGED <<udpSocket, packetQueue, frame, receivedPackedCount, settings,
                 arrived, handled, dropped>>

Tick ==
  /\ \E i \in 1 .. Len(packetQueue) : packetQueue[i].wait >= 0
  /\ packetQueue' = [i \in 1 .. Len(packetQueue) |->
       [packetQueue[i] EXCEPT !.wait = IF @ >= 0 THEN @ - 1 ELSE @]]
  /\ UNCHANGED <<udpSocket, buffer, frame, receivedPackedCount, settings,
                 unanswered, arrived, handled, dropped>>

---------------------------------------------------------------------------
(* Whoever owns the manager.  Handlers send as well, so packets also leave  *)
(* while the queue is processed.                                            *)

SendPacket ==
  /\ frame # "reading" /\ udpSocket = "open"
  /\ unanswered + Cardinality({i \in DOMAIN buffer : buffer[i] = Failed}) < MaxUnanswered
  /\ unanswered' = unanswered + 1
  /\ UNCHANGED <<udpSocket, buffer, packetQueue, frame, receivedPackedCount, settings,
                 arrived, handled, dropped>>

\* Mutant: the new latency is applied to the packets in the queue.
SetLatencyOfQueue(inLatency) ==
  /\ frame = "idle" /\ udpSocket = "open"
  /\ simulatedLatency' = inLatency
  /\ packetQueue' = [i \in 1 .. Len(packetQueue) |-> [packetQueue[i] EXCEPT !.wait = inLatency]]
  /\ UNCHANGED <<udpSocket, buffer, frame, receivedPackedCount,
                 packetDropChance, unanswered, arrived, handled, dropped>>

SetSimulatedLatency(inLatency) ==
  /\ frame = "idle" /\ udpSocket = "open"
  /\ simulatedLatency' = inLatency
  /\ UNCHANGED <<udpSocket, buffer, packetQueue, frame, receivedPackedCount,
                 packetDropChance, unanswered, arrived, handled, dropped>>

SetDropPacketChance(inChance) ==
  /\ frame = "idle" /\ udpSocket = "open"
  /\ packetDropChance' = inChance
  /\ UNCHANGED <<udpSocket, buffer, packetQueue, frame, receivedPackedCount,
                 simulatedLatency, unanswered, arrived, handled, dropped>>

---------------------------------------------------------------------------
(* ProcessIncomingPackets *)

BeginFrame ==
  /\ frame = "idle"
  /\ frame' = "reading"
  /\ receivedPackedCount' = 0
  /\ UNCHANGED <<udpSocket, buffer, packetQueue, settings, unanswered,
                 arrived, handled, dropped>>

\* Mutant: off by one.
MayReceiveOneMore == frame = "reading" /\ receivedPackedCount <= kMaxPacketsPerFrameCount

MayReceive == frame = "reading" /\ receivedPackedCount < kMaxPacketsPerFrameCount

\* Mutant: a packet that is dropped is not counted.
ReceivePacketCountKept ==
  /\ MayReceive /\ buffer # <<>> /\ Head(buffer) # Failed
  /\ buffer' = Tail(buffer)
  /\ \/ /\ receivedPackedCount' = receivedPackedCount + 1
        /\ packetQueue' = Append(packetQueue,
                                 [packet |-> Head(buffer), wait |-> simulatedLatency])
        /\ UNCHANGED dropped
     \/ /\ packetDropChance = "positive"
        /\ dropped' = dropped \cup ({Head(buffer)} \ {Noise})
        /\ UNCHANGED <<packetQueue, receivedPackedCount>>
  /\ UNCHANGED <<udpSocket, frame, settings, unanswered, arrived, handled>>

ReceivePacket ==
  /\ MayReceive /\ buffer # <<>> /\ Head(buffer) # Failed
  /\ buffer' = Tail(buffer)
  /\ receivedPackedCount' = receivedPackedCount + 1
  /\ \/ /\ packetQueue' = Append(packetQueue,
                                 [packet |-> Head(buffer), wait |-> simulatedLatency])
        /\ UNCHANGED dropped
     \/ /\ packetDropChance = "positive"
        /\ dropped' = dropped \cup ({Head(buffer)} \ {Noise})
        /\ UNCHANGED packetQueue
  /\ UNCHANGED <<udpSocket, frame, settings, unanswered, arrived, handled>>

\* A reset or another error is passed over and not counted.
ReceiveFailure ==
  /\ MayReceive /\ buffer # <<>> /\ Head(buffer) = Failed
  /\ buffer' = Tail(buffer)
  /\ UNCHANGED <<udpSocket, packetQueue, frame, receivedPackedCount, settings,
                 unanswered, arrived, handled, dropped>>

\* ReceiveFrom returns 0 on an empty socket, but only a nonblocking one.
StopReading ==
  /\ frame = "reading"
  /\ ~MayReceive \/ (buffer = <<>> /\ udpSocket = "open")
  /\ frame' = "processing"
  /\ UNCHANGED <<udpSocket, buffer, packetQueue, receivedPackedCount, settings,
                 unanswered, arrived, handled, dropped>>

HeadIsDue == packetQueue # <<>> /\ Head(packetQueue).wait < 0

\* Mutant: the packets that are due are handled first.
ProcessAnyDuePacket ==
  /\ frame = "processing"
  /\ \E i \in 1 .. Len(packetQueue) :
       /\ packetQueue[i].wait < 0
       /\ handled' = IF packetQueue[i].packet = Noise
                     THEN handled
                     ELSE Append(handled, packetQueue[i].packet)
       /\ packetQueue' = SubSeq(packetQueue, 1, i - 1)
                           \o SubSeq(packetQueue, i + 1, Len(packetQueue))
  /\ UNCHANGED <<udpSocket, buffer, frame, receivedPackedCount, settings,
                 unanswered, arrived, dropped>>

\* The queue is in order of arrival: a packet waits behind one received
\* under a longer latency.
ProcessQueuedPacket ==
  /\ frame = "processing" /\ HeadIsDue
  /\ handled' = IF Head(packetQueue).packet = Noise
                THEN handled
                ELSE Append(handled, Head(packetQueue).packet)
  /\ packetQueue' = Tail(packetQueue)
  /\ UNCHANGED <<udpSocket, buffer, frame, receivedPackedCount, settings,
                 unanswered, arrived, dropped>>

EndFrame ==
  /\ frame = "processing" /\ ~HeadIsDue
  /\ frame' = "idle"
  /\ UNCHANGED <<udpSocket, buffer, packetQueue, receivedPackedCount, settings,
                 unanswered, arrived, handled, dropped>>

FrameStep ==
  ReceivePacket \/ ReceiveFailure \/ StopReading \/ ProcessQueuedPacket \/ EndFrame

Surroundings ==
  \/ Arrive \/ NoiseArrives \/ Bounce \/ Tick
  \/ SendPacket
  \/ \E latency \in Latency : SetSimulatedLatency(latency)
  \/ \E chance \in {"zero", "positive"} : SetDropPacketChance(chance)

NetInit == NewNetworkManager("open")
NetNext == BeginFrame \/ FrameStep \/ Surroundings

\* The engine's loop never sleeps and the clock never stops.
NetSpec ==
  NetInit /\ [][NetNext]_netVars /\ WF_netVars(BeginFrame \/ FrameStep) /\ WF_netVars(Tick)

---------------------------------------------------------------------------
NetTypeOK ==
  /\ udpSocket \in {"none", "unbound", "open"}
  /\ buffer \in Seq(Watched \cup {Noise, Failed})
  /\ packetQueue \in Seq([packet : Watched \cup {Noise}, wait : Int])
  /\ frame \in {"idle", "reading", "processing"}
  /\ receivedPackedCount \in 0 .. kMaxPacketsPerFrameCount
  /\ simulatedLatency \in Latency
  /\ packetDropChance \in {"zero", "positive"}
  /\ unanswered \in 0 .. MaxUnanswered
  /\ arrived \in 0 .. MaxWatched /\ handled \in Seq(Watched)
  /\ dropped \subseteq Watched

QueuedPackets == [i \in 1 .. Len(packetQueue) |-> packetQueue[i].packet]

\* What has been handled and what is still to be, in the order of the handling.
OnTheWay == handled \o QueuedPackets \o buffer

(* Whatever the latency is changed to on the way, packets are handled in the *)
(* order they arrived, each once, and only the simulated drop loses one.     *)
NothingMislaid ==
  /\ \A i, j \in DOMAIN OnTheWay :
       i < j /\ {OnTheWay[i], OnTheWay[j]} \subseteq Watched => OnTheWay[i] < OnTheWay[j]
  /\ {OnTheWay[i] : i \in DOMAIN OnTheWay} \cap Watched = (1 .. arrived) \ dropped

(* However fast packets arrive, a frame ends: the limit per frame stops the  *)
(* reading, and errors, which it does not count, are never more than the     *)
(* packets sent before the reading began.                                    *)
FrameEnds == frame # "idle" ~> frame = "idle"

(* No packet starves, in the socket or behind others in the queue.           *)
EventuallyHandled ==
  \A m \in Watched :
    arrived >= m ~> (m \in dropped \/ \E i \in 1 .. Len(handled) : handled[i] = m)
============================================================================
