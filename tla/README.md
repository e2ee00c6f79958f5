# Verification of Robo

Robo is a small client/server game in C++: a server and its clients talk UDP,
the server decides who won, and a replication layer (after *Multiplayer Game
Programming*) sends the state of game objects to each client and learns which
packets arrived. This directory holds TLA+ models of the parts of it that keep
state and can go wrong, the TLC configurations that check them, and TLAPS
proofs of what they promise. Paths below are relative to the repository.

## The system

| Component | State | Operations | What makes it correct |
|---|---|---|---|
| Delivery notification: `src/Common/DeliveryNotificationManager`, `AckRange`, `InFlightPacket` | next outgoing and next expected number (16 bits), deque of packets in flight, deque of pending ack ranges, three counters | `WriteState`, `ReadAndProcessState`, `ProcessTimedOutPackets` | each packet is reported once, in order, as delivered only if it was; no packet is accepted twice or late |
| Replication manager: `src/Server/Lib/ReplicationManagerServer`, `ReplicationManagerTransmissionData`, `src/Common/ReplicationCommand.h` | a map from network ids to commands (action, dirty bits); a list of transmissions per packet in flight | `ReplicateCreate`, `ReplicateDestroy`, `SetStateDirty`, `Write`, the callbacks on delivery and loss | nothing created, changed or destroyed is forgotten because a packet was; no command is used after it is gone |
| Session: `ServerNetworkManager`, `ClientProxy`, `ClientNetworkManager`, `InputManager`, `Client` | server: client proxies by address and by id, next id; client: state, player id, quit | hello, welcome, win, game over | a client ends with the id the server knows it by; the right one is told it won; clients that are told the result end |
| Packet reception: `src/Common/NetworkManager`, `UDPSocket` | the socket, the queue of received packets, simulated latency and loss | `ProcessIncomingPackets`, `SendPacket`, the two setters | order is kept, a frame ends, no packet starves |
| Engine and server life: `src/Common/Engine`, `src/Server/Lib/Server`, `test/IntegrationTests.cpp` | quit, the server thread, port 2000 | `StaticInit`, `Run`, `SetQuit` | asking the server to quit ends its thread |
| Bit streams: `src/Common/MemoryBitStream`, and the packets that are written on them | buffer, head, capacity | `WriteBits`, `ReadBits`, `ReallocBuffer`; `AckRange::Write` and `Read`, the packets of the session | what is read is what was written, however fields share bytes |
| Averages, world and game objects, client start, windows, socket addresses, TCP | | | see "Not modelled" |

How they interact. `Engine::Run` goes round on one thread and calls `Update`
once a frame. The server's `Update` is `ProcessIncomingPackets` (read, queue,
dispatch to `ServerNetworkManager::ProcessPacket`), then `SendOutgoingPackets`,
which for every `ClientProxy` calls `ProcessTimedOutPackets` and, if the proxy's
move timestamp is dirty, sends a state packet: `WriteState` writes a sequence
number and remembers the packet in flight, `ReplicationManagerServer::Write`
adds the commands, and the transmission data is attached to the packet in
flight. When the packet is reported, its transmission data calls back into the
same `ReplicationManagerServer`. The only second thread is the test's, which
builds the server, starts it, sets `quit` and joins.

**Dormant wiring.** At this commit nothing calls `SetIsLastMoveTimestampDirty`,
the client ignores `StatePacketId`, the server never calls
`ReadAndProcessState`, and the map behind `GetGameObject` is never filled. The
classes are complete, the game does not use them yet. `DeliveryNotificationManager`
and `Replication` therefore model the classes' API with the wiring that
`ClientProxy` chooses (server: `shouldProcessAcks`, so its peer: `shouldSendAcks`)
and what the code shows of its intended callers, and say nothing about the
running game. `Session`, `NetworkManager` and `ServerFixture` model what runs.

What is hard here: packets are lost, repeated and reordered; acknowledgements
are ranges that are merged, cut and sent once; callbacks about a packet arrive
long after the state that the packet carried has changed; 16-bit numbers wrap;
receiving competes with arrivals; a flag set by one thread ends another.
`PROJECT.json` lists each hazard at its line.

## Modules

| Module | Models | Notes |
|---|---|---|
| `AckRanges` | sequence numbers, `AckRange`, `AddPendingAck`, and what `ProcessAcks` comes to (`Settles`) | shared by the next two |
| `AckLoop` | the loop of `ProcessAcks`, an iteration a step | shows that `Settles` is what the loop computes |
| `NotifiedDelivery` | the abstract promise | no numbers, acks or network |
| `DeliveryNotificationManager` | both ends of a conversation | one action per public operation |
| `Replication` | the replication manager over `DeliveryNotificationManager` | composes the two by joint actions |
| `ReplicatedObjects` | the abstract promise of replication | no commands, transmissions or packets |
| `Session` | joining and winning | several clients, a network that loses, repeats and reorders |
| `NetworkManager` | the receiving half of a frame | |
| `ClientServer` | joining and winning by frames, queues and sockets | implements `Session` (`ImplementsSession`) |
| `ServerFixture` | engine, server and test fixture over `NetworkManager` | two threads |
| `BitStreams` | `OutputMemoryBitStream` and `InputMemoryBitStream`, as operators | shared by the next two |
| `MemoryBitStream` | fields of any width through a datagram | |
| `PacketEncoding` | the packets, field by field, from writer to reader | with `AckRanges!Written` |
| `MC...` | values for TLC | |
| `DeliveryNotificationManagerProofs`, `AckLoopProofs`, `ReplicationProofs`, `SessionProofs`, `ClientServerProofs`, `NetworkManagerProofs`, `MemoryBitStreamProofs`, `PacketEncodingProofs` | proofs | |

Modules define a few operators commented "Mutant:" next to the operators
they would replace. They are plausible mistakes in the code; `PROJECT.json`
says which property each of them breaks, and nothing else refers to them.

### State and code

*DeliveryNotificationManager.* Variables have the names of the C++ members.
`inFlightPackets` keeps only the numbers: the dispatch time is abstracted (any
prefix of the deque may have timed out, because the loop stops at the first
packet that is young enough), and the transmission data is in `Replication`.
`network` is a set that only grows, so that a packet may be read never, once or
often and in any order. `accepted` and `confirmed` are histories. `nth` in a
packet is its position in the sender's output; it is not on the wire and only
histories and properties look at it. `ProcessAcks` is one step that takes the
first `n` packets off the deque and hands the first `f` to the failure handler;
`AckLoop` shows that this is what the loop does, including where its 16-bit
counter wraps. Acks are processed also from packets that are refused, as in
`ReadAndProcessState`. A packet without acks acknowledges an empty range.

*Replication.* `commands` is the map, `Absent` where it has no entry. What
`operator[]` builds for an absent id has `Indeterminate` members, since
`ReplicationCommand()` initializes nothing. `transmissions` gives what each
packet carried. The two places that report packets differ and so do the
actions: `ProcessAcks` pops a failing packet before it calls the handler
(`Handled(..., 0)`), `ProcessTimedOutPackets` after (`Handled(..., 1)`), and
the handler looks through the deque. The game is external: it registers an
object and replicates its creation in one step, changes its state while it is
registered, unregisters and destroys it once, and does not reuse ids. What
`GameObject::Write` reports as written is any subset of the dirty bits. An
object's `GetAllStateMask` is not zero (`StateBit # {}`): one whose mask is zero,
like the base class's, has nothing dirty and would never be created at a client.

What the client would make of the packets it accepts is the history `replica`,
computed from their actions (`ReplicaAfter`); `ReplicatesObjects` maps that, the
life of the objects and the objects whose command is gone to `ReplicatedObjects`.
A replica that is "confused" is no state of that module, so the refinement also
says that it never happens.

*Session.* A frame of a client polls an event, reads packets and sends; as a
frame may find neither, the model lets these come in any order until the client
quits. The server's handlers are single steps: one thread runs them and a packet
is handled to the end. `network` only grows, as in `DeliveryNotificationManager`:
a packet may be read never, once or often, at any time. The module is about
safety; who is welcomed and told in the end depends on frames, queues and
sockets and is in `ClientServer`.

*NetworkManager.* `buffer` is what the socket holds, `packetQueue` what was
read, with the ticks each packet has still to wait (the code compares the clock
with a due time, strictly, so a packet is due below zero). A few packets are
watched and numbered in the order they arrive; all others are noise, which
arrives without end. Errors come back for packets that were sent. No peer sends
empty datagrams, which the code would take for an empty socket, so there are none.

*ClientServer.* `held[p]` is the queue of process p (its first `queued[p]`
packets) and behind it its socket; `frame[p]` is the place in its loop. The poll
for an event and the reading of packets are one step of a client, because
nothing another process does in between makes a difference; each packet handled
is a step. The client connects to 127.0.0.1:2000
(`src/Client/Lib/Client.cpp:19`), so packets reach a socket in the order they are sent, or are dropped:
the port is not bound yet, the buffer is full, or the process has left. `sent`
is the network of `Session`, and `missed` a history of the players that a game
over did not reach. Latency is whatever makes `SF` of handling true; the server
does not quit.

*BitStreams, MemoryBitStream.* A byte is a function from 0..7 to bits. The two
ends cut the same bits into fields of any width, each independently.
`PacketMem` cuts a datagram as `recvfrom` does. `Write` and `Read` of values that
are wider than a byte are the loop over bytes. The bounds leave out fields wider
than the bits that are left: `ReadBits` does not check, see `PacketEncoding`.

*PacketEncoding.* `FieldsOf` is what the senders write, in order. `reader` is who
handles the packet (`Readers`), and each `Read...` action what that handler reads
next. The program's handlers read behind the type only what they use:

| Packet | Read to its end by | Left behind the type by |
|---|---|---|
| hello | the server, from a client it does not know | the server, from one it knows |
| welcome | a client that says hello | a client that is welcomed |
| win | every client (a game over) | the server, which knows who sent it |
| state | nobody | every client |

`ReadAndProcessState` has no caller. The fields of `WriteState` are modelled with
it as the class offers it: at an end that processes acks (`"shouldProcessAcks"`)
for the packets of one that sends them, and at one that ignores them for the others
(`NoAckData`). The latter are the server's, because `ClientProxy` makes its manager
process acks and send none. A state packet ends after the acks: nothing in the
repository reads what the replication manager writes behind them.

*ServerFixture.* The test's thread and the server's thread are program
counters; a frame of the server is a frame of `NetworkManager`. `portInUse`
stays true once a socket is bound, because `ServerNetworkManager::StaticInit`
never deletes the manager it replaces.

## Runs

| Run | Instance | Shows |
|---|---|---|
| `ack_loop` | numbers mod 5, every range, every deque of up to 6 | the loop ends and computes `Settles`; it reports as delivered only acked numbers, unless the range ends at the last number |
| `delivery` | server sends 5 and processes acks, client sends 3 and acks; ranges of at most 2 | no false delivery, acceptance in order, acks lost only behind a full range; refinement of `NotifiedDelivery` |
| `delivery_wrap` | numbers mod 2, 4 and 2 packets | accounting and eventual report across two wraps |
| `replication` | one object, one bit, 4 and 2 packets | the life of an object under loss: no command used after it is gone, nothing forgotten; refinement of `ReplicatedObjects` |
| `session` | two clients | joining and winning under loss, duplication and reordering: ids and results agree |
| `client_server` | two clients with a claim each; a socket of 2 packets, the others of 1; one packet a frame | refinement of `Session`; results come after the welcome, and first results agree; every client that stays is welcomed; a claim ends the game |
| `network_manager` | two watched packets, two packets a frame, at most 3 held | order, end of frame, no starvation |
| `memory_bit_stream` | fields of 2, 3 and 11 bits, up to 18 bits, a datagram of 2 bytes | bits stay where they are written, what fits arrives whole and is read as written |
| `packet_encoding` | every type of packet, to every handler that may get it; ranges of 0, 1, 2, 255, 256, 257 and 300 | what a handler reads is what was written; it stays within what arrived |
| `server_fixture` | one test, port free | `TearDown` returns |
| `server_fixture_repeated` | two tests in one process | **violated**: see "Finding" |

The bounds. Five packets are enough for a range to be extended, cut at
`MaxRange = 2` and followed by another, with a gap and a duplicate; below that
`AckLostOnlyBehindFullRange` has nothing to say. `MaxAccepts` matters only after
a wrap, where duplicates are accepted without end. In `delivery_wrap` and
`ack_loop` the number space is small so that wraps happen; in the others it is
larger than any packet count, as it is in a session of fewer than 65536 packets.
`replication` needs four server packets for a destroy to be lost, repeated and
acknowledged after a create that was lost and repeated; one state bit is enough
for the sets of bits because all operations on the mask are bitwise. One object is
enough, too: a packet holds one transmission per id, and each callback touches the
command of its own id; objects meet only in the mask of the failure handler, that
is in dirty bits, on which their life does not depend. `ReplicationRefinement` is
proved for any set of objects.
The two acknowledging packets of `replication` let create and destroy be
confirmed apart. `session` needs two clients for
a loser; ids are not bounded otherwise, as each client is known by at most one
address. In `network_manager` three held datagrams exceed the limit of two a
frame; latencies 0 and 1 put an impatient packet behind a patient one.
In `client_server` a client that says hello twice in a row, or both clients at
once, overflow the server's socket, which holds a single packet; the client whose
socket holds two gets a welcome and a game over, or two game overs, before it
handles either. `memory_bit_stream` writes more bits than a datagram holds, moves
the buffer, and has fields that begin in the middle of a byte, end in the next or
the one after. `packet_encoding` starts in every packet of its sets; the numbers
lie at the limits of bytes and of 16 bits.
`NetworkManager`, `ServerFixture` and `ClientServer` (whose server goes on) are
checked for deadlock; of the others, `Session` stops when its clients have left
and the rest when a bound is reached or everything has been read.

Fairness. `ProcessTimedOutPackets` is called in every frame
(`ServerNetworkManager::SendOutgoingPackets`) and the clock advances: weak
fairness at each end. The frame of `NetworkManager` is weakly fair because the
loop never sleeps. `Session` has safety properties only and assumes no fairness.
The two threads of `ServerFixture` are weakly fair; SDL_QUIT is not.
`ClientServer` assumes nothing of the network. Each process is weakly fair, since
its loop never sleeps, and handling is strongly fair: a packet in the queue is
handled in some later frame, which `NetworkManager` checks (`EventuallyHandled`).
Events from the players have no fairness.

## Proofs

`DeliveryNotificationManagerProofs` proves, for every number space, range limit,
pair of peers and bounds (the assumptions `NumberAssumption`, `PeerAssumption`,
`BoundAssumption`):

* `TypeCorrect`: `Spec => []TypeOK`;
* `AccountingHolds`: the counts add up, wraps included. It is inductive with
  `TypeOK`: every packet taken off the deque is counted once;
* `Invariance`: `Spec => []Inv`. `DeliveredWasAccepted` and `AcceptedInOrder`
  are not inductive. That an ack never names a packet that was not accepted
  needs the same of every range pending or in the network (`AckInv`); that a
  number in the deque stands for the packet it stood for needs numbers to equal
  positions (`NumbersInv`) and the deque to hold exactly the unreported ones
  (`FlightInv`); order of acceptance needs accepted packets to lie below the
  expected number (`AcceptedInv`). All of this is conditional on the sender not
  having wrapped, and one end's wrap leaves the other end's half intact;
* `DeliveredWasAcceptedHolds` and `AcceptedInOrderHolds` follow.

The same module proves `AcksAreConserved`:
`Spec => []AckLostOnlyBehindFullRange`. It builds on `Invariance` (a number
stands for the packet it was given to) and shows of every step that a number in
a pending range stays there, or goes into the network with the range that is
written, or lies behind that range when `Written` cuts it; and that accepting a
packet adds its number to a pending range (`AddPendingAckKeeps`).

It also proves `Refinement`: if every end sends fewer
packets than there are numbers (`NoWrap`), `Spec` implements
`NotifiedDelivery`. Writing maps to `Send`; reading to `Read`, where acceptance
and report are each a step or a stutter; a timeout to a `Read` that accepts
nothing.

`AckLoopProofs` proves `LoopTypeCorrect`, `LoopComputesSettles` (`Settles`, the
one step of `DeliveryNotificationManager`, is what the loop of `ProcessAcks`
computes for any deque, range and number space) and `OnlyAckedDeliveredHolds`.
The invariant says, for the iterations done, where the loop's counter stands and
which packets it passed as dropped and which as delivered; it needs a case for the
counter that has wrapped, where the loop goes on to the end of the deque.

`MemoryBitStreamProofs` proves `StreamTypeCorrect`, `WrittenBitsStayIntact`,
`StreamsAgree`, `NothingIsCut` and `ReadsStayInTheirField`, for every initial
capacity, width and content. The lemmas `WriteBitsAppends` and `ReadBitsReturns` say
what a call does to bits: the first leaves those before the head alone and adds
its own. The invariant `StreamInv` adds to the two histories that what arrived has
the bits of what was sent, up to the end of the datagram. `ReadStaysInField` is
proved only: no run checks it.

`ReplicationProofs` proves every property of the run `replication`, for every set
of objects and of state bits and every number space: `ReplicationTypeCorrect`,
`NoIndeterminateCommandHolds`, `WritesOnlyRegisteredHolds`,
`AckedLossIsDirtyAgainHolds`; and, as long as the server's numbers have not wrapped
(`NotWrapped(server)`, which the definitions of "accepted" need and a session of
fewer than 65536 packets satisfies), `CreateIsNotForgotten`, `DestroyIsNotForgotten`
and the refinement `ReplicationRefinement`. It assumes of the sentinels of the model
that they are no values of the program (`SentinelAssumption`).

* `ReplicationInv`, which `ReplicationInvariance` proves and which is at the end of
  `Replication` so that TLC can check it too, has a part for each phase of an
  object's life. None of the properties is inductive without it: that a callback
  finds its command (`NoIndeterminateCommand`) rests on the command of a destroyed
  object being there until its destroy is confirmed, hence on that destroy being
  the last packet in flight that mentions the object (`GoneInv`), hence on what was
  ever sent of it (`TransmissionsInv`). `RegisteredInv` says the same of a create.
* The invariant is stated for "the first packet not yet reported" (`k`) and "the
  packets reported as delivered", so that it can be read between two callbacks of
  one `ReadAndProcessState`. `FailureStep` and `SuccessStep` move `k` by one packet.
* `Handled` is recursive over the packets reported. `HistoryExists` and the lemmas
  behind it use induction in the form of `InductiveSet` (a set that holds 0 and
  successors holds every natural number), proved from the well-foundedness of `<`.
* The client's half (`ReplicaInv`) needs that what it accepts comes in the order
  it was sent (`AcceptedInOrder`) and that a create was confirmed before an update
  is sent (`TransmissionsInv`).

`SessionProofs` proves `SessionTypeCorrect`, `WelcomedIdHolds`,
`WonOnlyByClaimHolds` and `LostOnlyToAnotherHolds`, for any set of clients. None
is inductive: each needs that packets on the network carry ids the server gave
(a welcome the addressee's, a game over that of a client that claimed), that ids
are given once and stay, and that a verdict remembers an id that was given.

`ClientServerProofs` proves `SessionImplemented`: `Spec => ImplementsSession`, one
lemma for each handler. Its invariant says that what a process holds was sent and
that a queue is part of it (so a handler acts on a packet of `Session`'s
network), and that a client that quits is past its poll (so it claims nothing
more). `FramesKeepSessionPromises` carries the theorems of `SessionProofs` over,
by instantiating that module.

`FramesTypeCorrect`, `ResultAfterWelcomeHolds` and `FirstResultsAgreeHolds` are about
the order of packets in a queue, for any number of clients and any sizes of
sockets and frames. Their invariant (`OrderInv`) is built on one fact: when a
client's first hello is handled nothing was ever sent to it, so its welcome, if its
socket takes it, is the first packet it holds (`WelcomeFirst`); a game over comes
later and stays behind. It follows that results are compared with an id that is
known (`ResultsRight`). For the first result, the invariant counts what a player
holds or has logged: the first game over, unless that one is among the `missed`
(`FirstHeard`).

`NetworkManagerProofs` proves `NetTypeCorrect` and `NothingMislaidHolds`, for any
latencies, limit and number of packets. The invariant puts the three places a
packet can be in behind one another: what was handled, the queue and the socket are
one `Line` of arrivals, in which the watched packets increase and none is missing
but those dropped. Each action then takes the line's end further, moves the border
between two of its parts, or removes noise, an error or a dropped packet.
`FixtureTypeCorrect` and `FixtureMislaysNothing` carry this to `ServerFixture`, whose
server begins frames when its thread does.

`PacketEncodingProofs` proves `EncodingInvHolds`, `UnderstoodHolds` and
`ReadsWhatArrivedHolds`, for every handler and for every initial capacity, every name that fits a packet
(`packetMem` cuts a longer one), every `int` as an id, every 16-bit number and every
count (`EncodingAssumption`).

* Values: `UnsignedOfBytes` and `SignedOfBytes` say that a value is its bytes, from
  the quotients of the value by the places of its bits. `Place` and `Digit` list these
  because the provers know no powers of two.
* Layout: `HelloCalls`, `PlayerCalls` and `StateCalls` say which calls of `WriteBits`
  a packet comes to, `Position` where each puts its bits, and `HelloStands`,
  `PlayerStands` and `StateStands` where the fields stand in the end: a state packet's
  flags are one bit wide and shift what follows out of step with the bytes.
* Calls: what one call does to bits is `WriteBitsAppends` and `ReadBitsReturns` of
  `MemoryBitStreamProofs`, by instantiation.
* The invariant: while the sender writes, the bits of the calls made stand in the
  buffer, wherever it has moved (`Sending`); then the datagram has them all and less
  than a byte more, and what the reader knows is what lies before its head
  (`Progress`): all of the packet when it has read on to the end, its type when it
  stopped there. One lemma for each read shows that the width it takes is the width
  that was written there.

Only model-checked:

* liveness (`EveryPacketReported`, `Terminates`, `FrameEnds`, `EventuallyHandled`,
  `EventuallyWelcomed`, `ClaimEndsGame`, `TearDownReturns`), because the prover does
  not deal with fairness.

## Finding

`TearDownReturns` (run `server_fixture_repeated`). `TearDown` sets `quit` and
joins the server's thread (`test/IntegrationTests.cpp:25-30`). It need not
return: `Server`'s constructor ignores the result of `InitNetworkManager`
(`src/Server/Lib/Server.cpp:15-17`); when `bind` fails, `NetworkManager::Init`
returns before `SetNonBlockingMode` (`src/Common/NetworkManager.cpp:15-17,28`);
`Run` then waits in `recvfrom` on a blocking socket to which nothing can be sent,
and never looks at `quit` again. `bind` fails for the second server of a process,
because `ServerNetworkManager::StaticInit` leaks the first one's manager and its
socket (`src/Server/Lib/ServerNetworkManager.cpp:16`), and for a first server
when another process has the port (`PortTaken = TRUE`). The comment in `SetUp`
suspects a race between the fixture and `Run`; `server_fixture` shows that
setting `quit` before `Run` starts is harmless, as only the constructor clears it.

Behaviour worth knowing that no comment or test speaks about:

* State lost in a packet that times out is never sent again unless it changes
  again: the handler runs while the packet is still in the deque
  (`DeliveryNotificationManager.cpp:107-108`) and finds its own state in flight.
  `AckedLossIsDirtyAgain` therefore speaks of losses that an ack reveals.
* The same handler does not compare network ids
  (`ReplicationManagerTransmissionData.cpp:78-80`): another object's state in
  flight hides a loss.
* Past 65536 packets nothing is promised but accounting and eventual report.
* A player whose game over arrives before its welcome is told that it lost,
  even if it won; two claims make two winners; a lost game over is not repeated.
  `ResultAfterWelcome` shows that on one machine, where packets do not overtake
  each other, the first cannot happen.
* An average of `NetworkManager` becomes NaN for ever when two entries fall into
  one millisecond, or one into that of its construction
  (`WeightedTimedMovingAveraged.h:15-16`); it keeps its last value while nothing is
  sent or received. Nothing reads the averages.
* `NetworkManager::Init` calls `udpSocket->Bind` (line 15) before it compares
  `udpSocket` with null (line 24).
* `SocketUtil::Select` fills the same set three times and passes `nfds` as 0
  (`SocketUtil.cpp:106-112`); it has no callers.
* An ack range of more than 256 numbers is cut (`AckRange.cpp:9`), see
  `AckLostOnlyBehindFullRange`.

## Not modelled

The body of a state packet behind the acks: it has no reader
(`ReplicationCommand::Read` is declared only), `GameObject::Write` has no
implementation, and a packet that outgrows `packetMem` could only be compared
with what nobody parses. Reads beyond what arrived: `ReadBits` does not check, but
what a handler reads of a packet matches what its sender wrote
(`ReadsWhatArrived`), although much of what is sent is never read (see the table in
"State and code").

`World` and `GameObject` (base classes whose methods do nothing, without
subclasses; `AddGameObject` has no caller); `GameManager::WinButton`,
`InputManager::IsTimeToSampleInput`, `WeightedTimedMovingAverage::Update` and
`Clock::Update` (no callers); the byte counters and averages of `NetworkManager`
(nothing reads them); windows, socket addresses, the
TCP classes and `SocketUtil` (thin wrappers of system calls, whose outcomes are
choices of `NetworkManager` and `ServerFixture`); the frame counter and the
accumulator of `Engine::Run`, which have no effect; destructors, which never run
on what the models are about. `~DeliveryNotificationManager` would divide by a
count that may be zero, but nothing deletes the managers.

## Plan

Done, in this order: `AckRanges`, `DeliveryNotificationManager` with
`NotifiedDelivery` and its proofs, `AckLoop`, `Replication`, `Session`,
`NetworkManager`, `ServerFixture`; then `BitStreams`, `MemoryBitStream` and
`PacketEncoding`, `ClientServer`, `ReplicatedObjects`, and the proofs about
`AckLoop`, `MemoryBitStream`, `Session`, `AckLostOnlyBehindFullRange` and
`ImplementsSession`; then the proofs about `Replication` with its refinement, the
order of packets in `ClientServer`, `NetworkManager` and `ServerFixture`; last those
about `PacketEncoding`.

Next: state packets in `ClientServer`, as soon as the client reads them.
