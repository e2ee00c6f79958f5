--------------------------- MODULE ServerFixture ---------------------------
(***************************************************************************)
(* The life of a server: the fixture of IntegrationTests builds one, runs  *)
(* it in a thread of its own, and in TearDown asks it to quit and joins    *)
(* the thread.  Engine::Run goes round on that thread, and each round is a *)
(* frame of NetworkManager.  Repeating the tests in one process builds a   *)
(* server for each test; the manager of an earlier one is never deleted.   *)
(***************************************************************************)
EXTENDS NetworkManager

CONSTANTS
  MaxTests,         \* bound: tests run in one process
  PortTaken         \* port 2000 belongs to another process

ASSUME FixtureAssumption == MaxTests \in Nat \ {0} /\ PortTaken \in BOOLEAN

VARIABLES
  tests,            \* tests begun
  fixture,          \* where the test's thread is
  serverReady,
  serverThread,     \* where the server's thread is
  quit,             \* Engine::quit
  portInUse         \* a socket is bound to port 2000

fixtureVars == <<tests, fixture, serverReady, serverThread, quit, portInUse>>

FixtureInit ==
  /\ NewNetworkManager("none")
  /\ tests = 0 /\ fixture = "between tests"
  /\ serverReady = FALSE /\ serverThread = "none" /\ quit = FALSE
  /\ portInUse = PortTaken

---------------------------------------------------------------------------
(* The test's thread *)

\* NetworkManager::Init: the socket becomes nonblocking only once it is bound.
\* A bound socket is never closed.
InitNetworkManager ==
  /\ udpSocket' = IF portInUse THEN "unbound" ELSE "open"
  /\ portInUse' = TRUE
  /\ buffer' = <<>> /\ packetQueue' = <<>>
  /\ frame' = "idle" /\ receivedPackedCount' = 0
  /\ simulatedLatency' = 0 /\ packetDropChance' = "zero"
  /\ unanswered' = 0
  /\ arrived' = 0 /\ handled' = <<>> /\ dropped' = {}

\* Server::StaticInit does not look at what InitNetworkManager returns.
SetUp ==
  /\ fixture = "between tests" /\ tests < MaxTests
  /\ tests' = tests + 1
  /\ InitNetworkManager
  /\ quit' = FALSE
  /\ serverReady' = FALSE
  /\ serverThread' = "started"
  /\ fixture' = "waiting"

SeeServerReady ==
  /\ fixture = "waiting" /\ serverReady
  /\ fixture' = "test"
  /\ UNCHANGED <<netVars, tests, serverReady, serverThread, quit, portInUse>>

\* TearDown up to join.
TearDown ==
  /\ fixture = "test"
  /\ quit' = TRUE
  /\ fixture' = "joining"
  /\ UNCHANGED <<netVars, tests, serverReady, serverThread, portInUse>>

Join ==
  /\ fixture = "joining" /\ serverThread = "returned"
  /\ fixture' = "between tests"
  /\ serverThread' = "none"
  /\ UNCHANGED <<netVars, tests, serverReady, quit, portInUse>>

---------------------------------------------------------------------------
(* The server's thread *)

SetServerReady ==
  /\ serverThread = "started" /\ ~serverReady
  /\ serverReady' = TRUE
  /\ UNCHANGED <<netVars, tests, fixture, serverThread, quit, portInUse>>

\* Mutant: Run, and not the constructor, clears quit.
RunClearsQuit ==
  /\ serverThread = "started" /\ serverReady
  /\ serverThread' = "running"
  /\ quit' = FALSE
  /\ UNCHANGED <<netVars, tests, fixture, serverReady, portInUse>>

\* Engine::Run does not touch quit before its first test.
Run ==
  /\ serverThread = "started" /\ serverReady
  /\ serverThread' = "running"
  /\ UNCHANGED <<netVars, tests, fixture, serverReady, quit, portInUse>>

Return ==
  /\ serverThread = "running" /\ frame = "idle" /\ quit
  /\ serverThread' = "returned"
  /\ UNCHANGED <<netVars, tests, fixture, serverReady, quit, portInUse>>

\* SDL_QUIT is noticed at the head of a frame, and the frame is still run.
PollQuit ==
  /\ serverThread = "running" /\ frame = "idle" /\ ~quit
  /\ BeginFrame
  /\ quit' = TRUE
  /\ UNCHANGED <<tests, fixture, serverReady, serverThread, portInUse>>

BeginServerFrame ==
  /\ serverThread = "running" /\ ~quit
  /\ BeginFrame
  /\ UNCHANGED fixtureVars

ServerFrameStep ==
  /\ serverThread = "running"
  /\ FrameStep
  /\ UNCHANGED fixtureVars

---------------------------------------------------------------------------
Outside == (Arrive \/ NoiseArrives \/ Tick) /\ UNCHANGED fixtureVars

\* The tests are over, and the process with them.
Finished == fixture = "between tests" /\ tests = MaxTests /\ UNCHANGED <<netVars, fixtureVars>>

TestThread == SetUp \/ SeeServerReady \/ TearDown \/ Join
ServerThread == SetServerReady \/ Run \/ Return \/ BeginServerFrame \/ ServerFrameStep

FixtureNext == TestThread \/ ServerThread \/ PollQuit \/ Outside \/ Finished

\* The threads are scheduled; nobody has to close the server from outside.
FixtureSpec ==
  /\ FixtureInit /\ [][FixtureNext]_<<netVars, fixtureVars>>
  /\ WF_<<netVars, fixtureVars>>(TestThread)
  /\ WF_<<netVars, fixtureVars>>(ServerThread)

---------------------------------------------------------------------------
FixtureTypeOK ==
  /\ NetTypeOK
  /\ tests \in 0 .. MaxTests
  /\ fixture \in {"between tests", "waiting", "test", "joining"}
  /\ serverReady \in BOOLEAN
  /\ serverThread \in {"none", "started", "running", "returned"}
  /\ quit \in BOOLEAN
  /\ portInUse \in BOOLEAN

(* TearDown's join returns: the flag it sets is not lost when the server has *)
(* not entered its loop yet, nor while packets keep coming.                  *)
TearDownReturns == fixture = "joining" ~> fixture = "between tests"
============================================================================
