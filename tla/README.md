# RokLegend: specifications and proofs

RokLegend is a client for Ragnarok Online servers, in C++ on boost.asio and TBB.  This directory holds TLA+ models of its core: how threads
talk through message queues, how a connection lives and dies, how the network manager owns connections, what the game knows of them, how
the game moves from the login prompt to character selection and inside it, and what lies beside that: reading packets, the packet database, the archives, the stored data.  TLC checks the models on small instances, TLAPS proves their safety for every value of the constants.

The client's own code, some twenty thousand lines, is under `src/source`.  The other nine tenths of the repository are vendored (`dependencies` with SQLite, zlib, irrKlang and the grf
library; `math/Eigen`, `xml/tinyxml`, `application/infectorpp`): they are external here, modelled by what the client relies on.  The repository has no tests, so comments, error texts and the code itself are the reference.

## 1. Inventory

### Threads

| thread | runs | waits in |
|---|---|---|
| main | the loop of `RokLegend::run`: change of game state, schedule of an update, dispatch of the Default queue, update of the game state | the handlers it calls |
| workers (TBB) | the prompts of the game states; `_NetworkUpdate`, which dispatches the Network queue | the player; `join_all` |
| one service thread per connection | every handler of `RoNetTcpConnection` | blocking reads of a packet's body; the lock of `mThreads` |
| timer threads | one `io_service::run` each, started by `doKeepAlive` | the heart-beat timer |

### Components

**Message queues** (`core/message_queue`).  State: three `tbb::concurrent_queue`s, each with a filter.  `Append`, from any thread, puts a message
into the first queue whose filter accepts its name; `dispatch` pops until it finds the queue empty.  The main thread dispatches Default, a worker
Network.  Hard: the order of the filters, as `.*` accepts everything.  Correct when messages reach the thread meant for them, once, in order.

**Server connection** (`RoNetTcpConnection`).  State: `mConnected` (a plain bool), `mPostMessage` (atomic), the socket, an io_service and its
threads.  The owner constructs, sends, closes and destroys; the service thread resolves, connects, reads, keeps alive and ends in `doClose`.
Hard: both sides read and write the two flags with no lock, `close` joins only if it still reads `mConnected`, the constructor starts the
thread before it stores `mPostMessage`.  Correct when a connection reports one outcome, the destructor leaves no handler behind, and the
connection it replaces is silent.

**Network manager** (`RoNetworkManager`, `RoNetServer`).  State: one slot per server type and `mOkToUpdate`.  Its static functions post requests; its
handlers create, replace, close and use connections, and pass events on as `<type>Server...` messages.  Hard: the game loop schedules an update
on every turn, handlers wait for threads that go on posting, connections end by themselves.  Correct when one worker dispatches at a time, there
is one connection per server, none leaks or dangles, and dead ones leave.

**Server interface** (`RoServerInterface`).  State: `mConnectionStatus`, `mConnectCallback`.  `connect` runs in a prompt, on a worker; the events,
`disconnect` and `asyncSendPacket` on the main thread.  Hard: `connect` posts before it changes the status, events name no connection, there is one callback.
Correct when a connect is answered once, by its own connection, and the status follows the connection.

**Character selection** (`RoCharacterSelectState`, `RoCharacterServerInterface`).  State: an atomic stage, callbacks for creation and deletion,
the character listing.  Prompts run on workers and schedule one another; answers of the server run callbacks on the main thread.  Hard: nobody looks
at the result of a change of stage, callbacks are stored on one thread and reset on another, the interface outlives the state.  Correct when the player
faces one prompt, every answer brings the player back, and nothing points into a destroyed state.

**Login and server selection** (`RoLoginState`, `RoCharacterServerSelectState`, `RoLoginServerInterface`).  Stages, prompts and callbacks of the same
kind, ahead of the state above.  Hard: the same, and stages from which no step leads on.

**Game loop and task registry** (`RokLegend`, `RoGameState`, `core/task`).  The loop replaces the game state, whose destructor unregisters its tasks
while prompts may run.  Correct when a task that runs still has its handler's object.

**Packet database** (`RoNetXmlPacketDb`, `RoNetPacketBuilder`).  State: maps of versions, structures, heart-beats, packets by id, and ids by action,
filled from an XML file, section by section.  Hard: ids and actions are given again in later versions, definitions for later clients are skipped, structures are captured where they are used.
Correct when what is read and written is the newest layout the client knows.

**Packet reading** (`RoNetPacket`, `RoNetListContainer`, `RoNetTcpConnection::doReadPacket`).  State: the database's packets, into whose fields every
connection reads.  Hard: nothing on the wire ends a packet, service threads share the fields, a failed read is logged and the packet posted all
the same.  Correct when events are the packets sent, in order, with what was sent in them.

**GRF archive** (`archive`).  State: the backend's listings, by the order of loading, and cache files of listings on disk.  Hard: caches outlive the
process and may be cut short, the id of an archive depends on the order, names are shared.  Correct when a file is read where it is.

**Data store** (`RoDataStore`, `RoDataInfo`).  State: SQLite tables, one of keys and five of values; the map of texts that refer to one another.  Hard: a put is two
commits, a key may change its table, the map is changed while it is walked.  Correct when a key reads as it was put and every text resolves, or the cycle is reported.

**Glob patterns** (`RoGlobPattern`): a list of matchers built from a pattern.  Correct when a search finds what the pattern means.

**The rest**: strings, variants, properties (`core`); console input (`application/utilities`); audio; math; XML iterators.  Wrappers, formatting and I/O.

`PROJECT.json` lists every component with what is modelled, and under `hazards` where each of these things bites.

### Who calls whom

    prompt --connect()--> ServerInterface --Network queue--> NetworkManager (worker) --owns--> TcpConnection
                               ^                                   |     ^                          |
                               |                                   v     +------Network queue-------+
       game states <-callback- main thread <----Default queue------+<--------packets----------------+

## 2. Modules

| module | models | extends |
|---|---|---|
| `MessageQueue` | `Append` and its filters; a message is a name, a server type and a history field naming its connection | |
| `TcpConnection` | both threads of every connection | `MessageQueue` |
| `SerialDispatch` | abstract: a queue dispatched by one thread at a time | |
| `NetworkManager` | workers, slots, handlers; composes all of the above | `TcpConnection`; instance of `SerialDispatch` |
| `ServerInterface` | the status and the callback, `connect` and the main thread | `NetworkManager` |
| `LoginFlow` | the game loop, login and server selection, their prompts, and the callbacks left in the two interfaces | |
| `CharacterSelect` | the stages, prompts and creations of character selection | |
| `PacketDb` | the load of the packet database | |
| `PacketReader` | packets read by several connections into the shared prototypes | |
| `GrfArchive` | archives loaded from themselves or from a cache, in several runs of the game | |
| `GlobPattern` | a pattern cut into matchers, and matched; `Means` says what it means | |
| `DataStore` | puts over SQLite, cut by a crash | |
| `DataInfo` | texts resolved in a map while it is walked; `Meaning` says to what | |
| `Selection` | joined sequences, and the part of a sequence that is of one kind; used to state and to build | |
| `MC*` | constants for TLC | the module they name |
| `MCLibrary` | the six parts from `PacketDb` to `DataInfo` side by side | all six |
| `*_proof` | theorems | the module they name |
| `Packets_proof` | theorems about `PacketDb` and `PacketReader` | both, `Selection_proof` |
| `Library_proof` | theorems about `DataStore`, `GrfArchive`, `GlobPattern`, `DataInfo`, and the types of all | `MCLibrary`, `Packets_proof` |
| `Selection_proof` | lemmas about counting, recursive functions and joined sequences, for the other proofs | `Selection` |

Every definition that stands for code is in `map` of `PROJECT.json` with the lines it models.

### How state and actions correspond to the code

*TcpConnection.*  `service[c]` is where the service thread stands, `owner[c]` where the owner stands in the life of the object; the comment at the head
of the module lists the places.  A handler is one step up to the next access that another thread can see: `doClose` is `DoClose`
(test and clear of `mConnected`), `ReadPostMessage`, `NotifyDisconnected`, `StopService`; the constructor is `Construct` and `EnablePosting`; the destructor
`BeginDestroy`, `DestroyClose` and `DestroyReturn`.  `ready` holds completed operations whose handlers wait in front of a posted `doClose`: io_service
runs handlers in order, and what completes later is never run, as `doClose` stops the service.  `Completes` is the network's part.
A read of `mPostMessage` before the constructor stores it returns a member of `UninitPostMessage`: both values, unless a run says otherwise.
`HandleWriteError` is a late error of any write, at any place, since nothing keeps writes apart from the stages of a connection.

*NetworkManager.*  `pc[w]`, `hand[w]` and `busy[w]` are where a worker stands, the message it handles and the connection its handler builds or destroys.
Each handler is a first step (`ConnectToServer`, `DisconnectFrom`, `ServerDisconnected`, `ServerConnected`, `SendPacket`), then the waits inside
it: `CloseReturned` and `EndDisconnect` for `close()`, `Destroy` and `AfterDestroy` for the destructor that `reset()` runs, `EndConnect` for the end of
the constructor.  A worker that finds `mOkToUpdate` false returns without changing anything, so it has no action.
The game is any game: `GameStep` asks for what it likes when it likes.

*ServerInterface* replaces that game by the real one.  `connect()` is `BeginConnect`, `StoreCallback`, `PostConnect`, `LoadStatus`, `EndConnectCall`: one step per
access to what the main thread shares.  The main thread takes a message (`TakeMessage`), changes the status (`OnConnectionSuccess`, `OnConnectionFailed`,
`OnDisconnect`) and calls back (`CallBack`), sending the login packet as both users do, or ending by the exception `asyncSendPacket` throws.  The guard
`NoAnswerDue` is the users' discipline: neither state turns to a server again before its callback was called, and its one prompt makes the calls of
`connect` to a server one after the other (`OnePrompt` of `LoginFlow`).

*LoginFlow.*  Game states are numbered in the order they are made, and `object` is the one alive: the loop makes the next one and drops the last reference
to the one before (`ChangeGameState`).  Prompts and callbacks hold a bare `this`, so `for[p]`, `mConnectCallback` and `mLoginCallback` are such
numbers.  `mTasks` is the registry of prompts: a state's first update registers its prompt, its destructor takes it out.  A prompt is one
step per access to the stage (`StartPrompt`, `CancelPrompt`, `ExchangeStage`), the player's answer and the call of `connect`.  An update that finds the stage NONE
(`FindNoStage`) exchanges it in a step of its own (`ShowPrompt`), and the login state schedules its prompt even if that fails; that it never fails is part of the invariant proved.  `connect` is one step
here, and the network is a list of requests per server, carried out in order; `ServerInterface` looks inside both.  `Handles` takes
an answer whose callback is bound to the state alive or to nobody; `CallDestroyed` is the other case, where the code calls into a destroyed object and
anything may follow, so the model stops there.  `mUsername` stands for both credentials, which are stored and reset together.

*CharacterSelect.*  `at[x]` is where a prompt or the main thread stands.  `scheduleStage` is `LoadStage`, `ExchangeStage`, `SchedulePrompt`.  A handler of an
answer is `TakeReply`, which calls the callback, the `scheduleStage` in that callback, and `ResetCallbacks`.  The two
answers, success and failure, do the same to this state and are one.  `left` is the moment after which the loop destroys the state.
Storing and resetting `mCreateCharacterCallbacks` are each one step, although the code does both on a plain `optional` from two threads.
TcpConnection treats `mConnected`, a plain bool, the same way: each access reads or writes a whole value.

*PacketDb.*  `section` is what is being parsed; a definition in the file is a record, chosen freely as the parser meets it, and an entry of a map is its place in the file, so that
the properties can say which definition was kept.  What a packet holds besides its name is one datum, enough for every way `parseAllData` can go.  `Throws` is the order of the checks: the version
is looked up before it is compared with the client's.

*PacketReader.*  A cell of the wire is what one read takes.  `proto` is the fields of the database's packets, `reader[c]` the place and the locals of a service thread.  `Writes` sets the history
`shared` of any other thread inside the same packet: the race is on whole fields.  `TranslatePacket` and `PostPacket` are the two calls of
`getProperties`.  A packet of an unknown id has a body like the others, which is read as ids.  The two packets stand for all kinds of fields: one is read by itself, the other has a size that says how much more is read.

*GrfArchive.*  The id of a GRF is its index in `mGrfs`, less one.  A listing maps names to an info, the GRF it was listed in and its place there.  Loading and
saving the cache are two steps, since a process may end between them (`GrfRestart`), in the header of the cache or after it; `LoadThrows` is the archive that throws on a cache cut short,
which leaves the id taken, unless the header is whole and another GRF's: then the list is read anew.  `LoadAgain` loads a GRF that has its id, and reads its cache over its list.  Only one GRF is loaded at a time.

*DataStore.*  `PutKey` is `putValue` up to its second lookup, `InsertValue` and `UpdateValue` the rest.  `Stored` is what `getValue` finds.  The branch that
calls `removeValue` compares the table with itself, is never taken, and is left out.

*GlobPattern*, *DataInfo.*  `NewTurn` is one turn of the loop in `New`, and `Found` the chain of its conditions.  A text is a sequence of words and references;
`ResolveWithin` is one call and keeps the arguments of the code, among them that every level passes the key of the first call; `ResolveString` is its recursion.

## 3. Runs

| run | question | instance | states |
|---|---|---|---|
| `connection` | types, one outcome, no handler after destruction, silence of a joined destructor | a connection with and one without heart beat, one packet each, `mPostMessage` uninitialised | 1 896 347 |
| `manager` | one dispatcher, one per server, no leak, dead slots have their notice, refinement of `SerialDispatch` | two connections to one server, two workers, one request | 1 257 690 |
| `manager_progress` | is every end reported; does `close` return and dispatch end; do dead connections leave their slots | one connection with heart beat, two requests | 58 696 |
| `interface` | events in order, each connect answered once | two connects, two workers, one disconnect, one packet each | 2 708 738 |
| `interface_answers` | does the answer reach the callback | two connects | 201 836 |
| `login_flow` | one prompt, of the state alive; answers find the stage that waits for them; which callbacks dangle; is the player asked again | five game states in a row, two prompt tasks | 21 772 |
| `character_select` | one prompt, nothing left behind, every creation answered | three creations, any number of menus | 31 874 |
| `library` | what is read from the data store, the packet database, the wire and an archive is what was put there; searches and texts mean what they say | see below | 3 251 204 |

Four more runs end in a counterexample; section 6 says what they show.

**Bounds.**  Two connections to the *same* server are the case the slots are about: a replacement while the first one ends, and its late disconnection
arriving after the second was built.  A second server type shares nothing but the queue and the dispatcher, and the proofs cover it.  Two workers are enough for two
updates to meet; more only repeat it (proved for any number).  One packet reaches every branch of the read handler, including the blocking body; `interface_answers` has none, since they
change nothing on the way of an answer.  `MaxRequests` in the interface runs leaves room for every request the interface can make, as
`InterfaceAssumption` says; it cuts nothing off.  Three prompt tasks are one that ends, one it schedules and one to spare; three creations let a second one
lose its callbacks while a third is stored.
Five game states are a pass through all three, back to LOGIN, and once more into server selection, with the callbacks of the first pass still held.
Symmetry is used for workers, and in `library` for connections, GRFs and file names, and only in runs without liveness.

`library` runs six systems that share nothing.  Interleaving them would only multiply their states, so a behaviour chooses one and is a behaviour of
it; each step of the others is the same step in their own specification.  Their bounds: two keys and values, and four types, of which two share a table and one has none;
files of three definitions with two ids, actions and one structure, in versions before, at and after the client's; three packets to two connections, with
lists of no element and of one, and values and bodies of unknown packets that look like ids; two GRFs of one base name with two files, each patched or emptied at will, so that a cache meets another GRF, another place and
a shared name; every pattern of five characters against every name of four, over two letters; every table of three rows whose texts have two parts.
A third definition comes between two of the same id; a third packet shares its fields while another is behind it; a third row
closes a cycle that does not start at its own key.

**Deadlock** is left unchecked where the system may stop: connections all destroyed and nobody asking for more; one worker waiting in a stuck `join_all`; the
player leaving the menu or the game; a call into a destroyed state; a load, a search or a resolution that is done.  In the other runs it is checked.

## 4. Fairness

Weak fairness of each thread's own steps, as the operating system and TBB schedule them: `ServiceRuns`, each worker's steps, the main thread, `connect` once called,
and in `TcpConnection` the owner once inside a constructor, `close` or a destructor.  The loop schedules an update on every turn, so a free worker runs
one again and again; a worker is assumed to be left for it (a pool whose workers all wait for the player is listed as a hazard).

Nothing is assumed of the network: connects and reads may stay incomplete for ever (`Completes`, `DoReadPacket`, `HandleWriteError` are unfair), so
`CloseReturns`, `DispatchReturns` and `ReportedIsAnswered` name the one way the code can wait for good: `join_all` on a service thread that is in a
blocking read, or that wants the lock `join_all` holds.  In `CharacterSelect` the character server is assumed to answer (`Answer`), the player is not.  In
`LoginFlow` connections and servers answer (`ServerAnswers`) unless the connection is lost; losing it, the packet about pin codes and the player are unfair.

One assumption there is about safety.  A connection answers a login at most once, with success or failure, and only a character server says more, after
its answer and about pin codes.  The code relies on it and does not enforce it: `AnswersAreDue`, `OnePrompt` and `OnlyPinCodeDangles`, and their theorems, hold for such servers.

## 5. Proofs

All theorems hold for any set of connections, servers, workers and any bounds, under the named assumptions of the modules: types of the constants, and
`NoConn`, `NoMsg`, `NoText` distinct from what they stand in for.

**TcpConnection_proof.**  `OneOutcome` is not inductive: that a second report cannot come depends on where the thread stands and on `mConnected`.
`Agree` ties these together per connection: what was posted at each place of the service thread (`ReportAgrees`), when `mConnected` is true
(`ConnectedAgrees`), what the owner has cleared (`OwnerAgrees`), and what an end has reported (`EndAgrees`).  From it follow `OneOutcomeHolds`,
`NoHandlerAfterDestroyHolds`, `EndIsReportedHolds` (if the uninitialised flag reads as true) and `JoinedDestructorIsSilentHolds`.
The step lemmas do not mention the queues, so the next module uses them again.

**NetworkManager_proof.**  `Inv` is types, `Good` (a connect request names the connection it will create), `OneDispatcher`, and `Manages`: the place of the
worker, the slot and the owner's place of each connection fit together.  Every handler touches several connections' owners, so `ManagesByOne` reduces a step to the one connection in
hand.  It gives `OneDispatcherHolds`, `OnePerServerHolds`, `NoLeakNoDanglingHolds`, and, since only the one dispatcher takes messages, `ImplementsSerialDispatch`: every step of the
detailed system is a step of the abstract one or a stutter.  `ConnectionsUnderManager` carries the promises of connections over, as the manager is an
owner.  `DeadSlotHasNoticeHolds` needs one invariant more, `Notices`: a connection reported as disconnected and not yet under destruction has its notice in the queue
or in hand, and no notice is taken without clearing the slot.

**ServerInterface_proof.**  `ImplementsManager` shows that the interface, its prompts and its main thread are one of the games `NetworkManager` allows; then
`ManagerUnderInterface` has the manager's safety for the whole chain.  Typing and simulation are proved together (`InterfaceInv`): a step is a game's step because queues are well typed.
`AnsweredOnce` needs to know where an answer is: in the Network queue, in a worker's hand, in the Default queue, in the main thread's hand or with its callback, in one of them and once, and
only when `handleConnect` has spoken (`OnePlace`).  That it then finds its own callback is `CallbackKept`: `mConnectCallback` names every connection asked for that is not answered, because
`connect()` is not called again before.
`EventsInOrder` adds up, for one connection, what the main thread took, what the Default queue, the worker's hand and the Network queue hold of it, and compares that with what its service thread
said.  Each step moves one message from one of these to the next, so the proof is about what a selection does at the ends of a queue; what it needs besides is that the
worker that builds a connection holds a request and no event (`BuildsOnRequest`).

**LoginFlow_proof.**  `OnePrompt` and `AnswersAreDue` hold each other up.  `NetOK` says that of prompt, request, open connection and answer at most one is under way, for the state alive
and in the one stage that waits for it; `PromptsOK` says where a prompt is and which stage holds it; `StageOK` and `TasksOK` say that the loop replaces no state that waits, and
that the registry has the prompt of the object alive.  Every handler takes the only answer (`AnswerOK`), so what it calls is alive; the packet about
pin codes is the one message the invariant says nothing of, hence `OnlyPinCodesDangle`.  `MainOK` says that a stage read as NONE is still NONE when it is exchanged.  All rests on servers that
answer a login once (section 4).

**CharacterSelect_proof.**  Whatever schedules a prompt holds the right to: one task (`OneTask`), or one creation the server has to answer, or the main thread with
its answer (`OneAnswer`).  `TaskOK` and `MainOK` tie the stage to the place of each thread, which is why the result of a change of stage need
not be looked at.  `CallbacksAreUsed` says who still needs the callbacks, and gives `NobodyComesBack`.

**Packets_proof.**  Four invariants on the file met so far: every entry is a usable definition of its id (`PacketsAreDefinitions`), every usable definition has an entry as late as
itself (`UsableAreKept`), the last definition of an action gives its id (`LastGivesId`), and packets follow all structures (`PacketsComeLast`).  For the connections, that a torn event is the
last needs the thread that will post it: it is past its reads, and nothing is left on a wire that has ended (`TornThreadEnds`, `TornEventEnds`).
`PostedAsSent` is not inductive: why a thread that reads an id reads one that was sent is that it knows its place.  `KnowsPlace` splits what was sent into packets done with, whose events are posted
(`PostedAre`), and packets to come, of which the wire and the place inside the first are what is left (`ReadsOn`, `ToCome`), and what was read of it is in the fields unless they are shared
(`Written`).  The wire is a prefix of the cells of what is to come, and all of them unless it has ended (`Arrives`).  A step of another thread into the same packet sets `shared`, and a list read by another's size ends the
claim for that connection, as the property says.

**Library_proof.**  *Data store:* the properties are inductive once the key of a put between its writes has a table (`PutHasTable`).  *Archives:* `Honest`: in a listing, in memory or cached, a name that was
not taken from another GRF has the place at which it was read.  That the first listing with a name exists needs a least index, from the well-foundedness of `<`.

*Patterns:* the meaning of a pattern is restated as the existence of a cut, which says how much of the name the first n characters stand for (`StandsFor`).  `GlobInv` says what the builder has at each turn: every
piece between stars behind it has its matcher (`Compared`), but for the end of one character the code forgets (`LastLetter`), and a matcher searches no further to the right than any cut allows, since `globIndex - globCount` counts the
letters so far.  Then a cut gives every matcher a place (`MeantIsFound`), and in the three simple shapes the places of the matchers make a cut (`FoundIsMeant`).

*Texts:* `InfoInv` says that a text the walk has passed is what its key means and that nothing its key leads to is missing or leads back (`Fine`), so a resolution may find a text resolved or not and gives the same.  A call adds a
key to its path, so calls end, and both halves go by the number of keys not on the path: a call that resolves shows its key fine (`ResolvedIsMeant`), one that throws is followed down to a
reference that is missing or closes a cycle of at most as many references as the table has rows (`ThrownIsUnsound`).  That as many rounds as rows are enough for what a key means is `Settles`.

**Selection_proof.**  Induction over data is done here without a predicate as a parameter: a set of numbers that has zero and the successor of each member has all (`CountsUp`), as the least number missing would contradict it; a step that is
a function can be repeated (`IterationExists`, `RepetitionExists`), so a recursive function is one that obeys its equation (`JoinedRecurs`, `MeansRecurs`, `ReachedRecurs`, `MeaningRecurs`, `ResolveRecurs`).

**Only model-checked:** all liveness (`CloseReturns`, `DispatchReturns`, `DeadConnectionLeaves`, `ReportedIsAnswered`, `CreationIsAnswered`, `NeverStranded`), which is out of reach of
the prover under fairness.  Every invariant of the runs has its theorem.

## 6. What the models found

* `connected_when_told` (`RoServerInterface.cpp:36`): `connect` posts its request before it moves the status to CONNECTING.  An answer that comes in
  between finds no CONNECTING to exchange; the callback is told of success, sends, and `asyncSendPacket` throws out of the game loop.
* `every_connect_is_answered` (`RoNetTcpConnection.cpp:116`): a host that does not resolve is reported as a disconnection, and the connect callback is never called.
* `current_callback` (`RoCharacterServerInterface.cpp:193`): the handler of an answer resets the callbacks after its call has scheduled the menu, and may
  throw away those of the next creation.  The player is then never prompted again.
* `login_rejected` (`RoLoginState.cpp:209`): a rejected login moves the stage to LOGIN_SUCCEEDED and sets no next state; nothing asks the player again.

The models also show, as parts of them or of properties that hold:

* `mPostMessage` is stored after the thread that reads it was started: `EndIsReported` needs it to read as true.
* `join_all` may wait for good: `CloseReturns`, `DispatchReturns`, `DeadConnectionLeaves` and `ReportedIsAnswered` name when.
* `onDisconnect` expects DISCONNECTING (`RoServerInterface.cpp:99`), which nothing sets: the interface stays CONNECTED, and the manager drops what it sends.
* The character server's interface keeps its login callback after the listing (`RoCharacterServerInterface.cpp:115`), which ends the state behind
  it: a packet about pin codes that follows calls `loginResult` on the destroyed state.  Of what servers send that answer a login once and then speak of pin codes only, nothing else
  does (`OnlyPinCodeDangles`); a second answer of the character server would call into it as well.
* An UPDATE in the data store names no key (`RoDataStore.cpp:234`): the second put of a key overwrites all keys of its table.  `ReadsWhatWasPut` excepts them.
* A process that ends inside a put that changes a key's table leaves the key without its value; `KnownKeyHasValue` shows it is the only way.
* Nothing compares a cached listing with the GRF (`RoGrfVersion2.cpp:75`), and names found in a GRF loaded before are cached with its places; `ReadsItsContents` names both.
  A process that dies writing a cache leaves one that throws in every later run (`OnlyACrashTearsACache`).
* Two connections that read the same packet share its fields: values mix, and a list may be read by the other's size, after which the connection has lost its place
  (`PostedAsSent`).  So it has after a packet the database lacks: nothing calls `expectNonStandardPacketWithUint32PacketId`, so only the id is dropped.
* An action whose id a later definition gives to another is written in the other's layout (`ActionGetsItsLastPacket`).
* A pattern's end of one character is never compared, and pieces between stars may overlap in the name (`NothingElseIsFound`).
* `addVariableString` ignores the field it is told to depend on; `RoNetStructure` reads and writes nothing; cloning a packet with a list throws, as the clone's fields are not there yet.

## 7. Not modelled

Formatting, logging, menus, sounds, configuration, math: no state a property is about.  Decompression, sockets, SQLite, TBB and boost.asio: external, modelled by what they promise.
The share of the repository's lines that a definition here stands for is small, and stays so: nine tenths of them are vendored libraries, and most of the rest is headers, getters and I/O.

*Packets.*  Strings and nested structures (the latter are not read at all), the writing of packets, and the SQLite packet database, whose methods are empty.  The typed packets are
records of properties.  A field is read in one step; parts of one can be seen only in a packet that connections share, which `PostedAsSent` excepts.  `event.packet` is null where no translator is
registered, and the translator's own packet where it threw (`RoPacketTranslator.cpp:24`): what was sent is then in the properties of the event alone.  `SendPacket` always finds its packet and can convert every
field: the game sends `MasterLogin`, `GameLogin` and `CharacterCreate`, which `packets.xml` defines for its client version with types that convert.  With a database that lacks one,
`RoNetworkManager.cpp:116` would throw, `mOkToUpdate` would stay false and no update would run again.  The bytes of a write whose buffer the caller has freed.  Packets no handler is registered for.

*Archives.*  The bytes of listings and files, encryption, and `RoGrf2`, which streams sounds.  `RoGrfVersion1` and `RoGrfSqliteBackend` are never built.  Nothing outside `archive` loads a
`RoGrf` yet, so `GrfArchive` lets GRFs load in any order, and again.

*Data.*  The application only reads the store so far (`RoBackgroundScore.cpp:59`, `RoButtonSound.cpp:16`); puts are those its interface offers.

*Application.*  Handlers that throw because a message carries arguments of another type: nothing posts such messages.  The deletion of characters in `RoCharacterServerInterface`, which nothing
calls, and the map server's interface, which is empty.  Console keys taken by the loop and by a prompt: I/O.  The escape key, and what workers do while the program ends.
The index the player selects in the list of servers is never stored (`RoCharacterServerSelectState.cpp:91`): the first server is always used, so one character server is all there is.

## 8. What is left

1. A refinement of `ServerInterface` by the list of requests `LoginFlow` puts in its place.
2. The deletion of characters, once the game asks for it, and `RoGrf2` with its thread.
