------------------------ MODULE NetworkManager_proof ------------------------
(***************************************************************************)
(* Proofs about RoNetworkManager, for any number of workers, servers,      *)
(* connections and requests.                                               *)
(*                                                                         *)
(* The inductive invariant has three parts.  Good: a NetworkServerConnect  *)
(* message names the connection it will create.  OneDispatcher: the part   *)
(* mOkToUpdate plays.  Manages: the place of the dispatching worker, the   *)
(* slots and the owner's place of each connection fit together.            *)
(***************************************************************************)
EXTENDS NetworkManager, TcpConnection_proof

\* The messages that can be in the Network queue.
GoodMessage ==
  {m \in NetMessage : m.name = "NetworkServerConnect" =>
                        m.conn \in Conn /\ m.type = TypeOf[m.conn]}

Good == netQueue \in Seq(GoodMessage) /\ hand \in [Worker -> GoodMessage \union {NoMsg}]

InHandler == {"handle", "close", "destroy", "construct"}

\* What the place of a worker says of its hands and of the slot it works on.
WorkerAgrees(w) ==
  /\ hand[w] # NoMsg <=> pc[w] \in InHandler
  /\ busy[w] # NoConn <=> pc[w] \in {"close", "destroy", "construct"}
  /\ pc[w] = "close" =>
       /\ busy[w] = Slot(w)
       /\ hand[w].name = "NetworkServerDisconnect"
       /\ owner[busy[w]] \in {"joining", "closed"}
  /\ pc[w] = "destroy" =>
       /\ Slot(w) = NoConn
       /\ TypeOf[busy[w]] = hand[w].type
       /\ owner[busy[w]] \in {"destroying", "dtorJoining", "destroyed"}
  /\ pc[w] = "construct" =>
       /\ Slot(w) = NoConn
       /\ TypeOf[busy[w]] = hand[w].type
       /\ owner[busy[w]] = "constructing"

SlotAgrees(t) ==
  mConnections[t] # NoConn =>
    /\ TypeOf[mConnections[t]] = t
    /\ owner[mConnections[t]] \in {"held", "joining", "closed"}

\* Who answers for a connection at each place of its owner.
OwnedAgrees(c) ==
  /\ owner[c] \in {"held", "joining", "closed"} => mConnections[TypeOf[c]] = c
  /\ owner[c] \in {"joining", "closed"} => \E w \in Worker : pc[w] = "close" /\ busy[w] = c
  /\ owner[c] \in {"destroying", "dtorJoining"} =>
       \E w \in Worker : pc[w] = "destroy" /\ busy[w] = c
  /\ owner[c] = "constructing" => \E w \in Worker : pc[w] = "construct" /\ busy[w] = c

Manages ==
  /\ \A w \in Worker : WorkerAgrees(w)
  /\ \A t \in ServerType : SlotAgrees(t)
  /\ \A c \in Conn : OwnedAgrees(c)

Inv == TypeOK /\ Good /\ OneDispatcher /\ Manages

\* A connection reported as disconnected and not yet being destroyed still
\* has its notice to come.
Notice(c) == Msg("NetworkServerDisconnected", TypeOf[c], c)

InHands(m) == \E w \in Worker : pc[w] = "handle" /\ hand[w] = m

Alive(c) == owner[c] \in {"constructing", "held", "joining", "closed"}

NoticeComes(c) == EndReported(c) /\ Alive(c) => InQueue(Notice(c)) \/ InHands(Notice(c))

Notices == \A c \in Conn : NoticeComes(c)

-----------------------------------------------------------------------------
(* Types, and what the Network queue holds.                                *)

HandlerStep(w) ==
  \/ ConnectToServer(w) \/ EndConnect(w)
  \/ DisconnectFrom(w) \/ CloseReturned(w) \/ EndDisconnect(w)
  \/ Destroy(w) \/ AfterDestroy(w)
  \/ ServerDisconnected(w) \/ ServerConnected(w) \/ SendPacket(w)

ManagerTypes ==
  /\ mOkToUpdate \in BOOLEAN
  /\ mConnections \in [ServerType -> Conn \union {NoConn}]
  /\ pc \in [Worker -> WorkerPC]
  /\ hand \in [Worker -> NetMessage \union {NoMsg}]
  /\ busy \in [Worker -> Conn \union {NoConn}]

LEMMA TypeOKParts ==
  TypeOK <=> /\ QueueTypeOK /\ ConnTypeOK /\ ManagerTypes
             /\ wanted \in SUBSET Conn /\ requests \in 0..MaxRequests
BY DEF TypeOK, ManagerTypes

\* The message a handler works on, and the slot it names.
LEMMA HandTypes ==
  ASSUME TypeOK, Good, Manages, NEW w \in Worker, pc[w] \in InHandler
  PROVE  /\ hand[w] \in GoodMessage
         /\ hand[w].type \in ServerType
         /\ hand[w].name \in NetworkName
         /\ Slot(w) \in Conn \union {NoConn}
<1>1. hand[w] \in GoodMessage
  BY DEF Good, Manages, WorkerAgrees
<1>2. hand[w] \in NetMessage
  BY <1>1 DEF GoodMessage
<1>3. hand[w].type \in ServerType /\ hand[w].name \in NetworkName
  BY <1>2 DEF NetMessage
<1> QED
  BY <1>1, <1>3 DEF TypeOK, Slot

LEMMA DoneTypes ==
  ASSUME ManagerTypes, NEW w \in Worker, Done(w)
  PROVE  /\ pc' \in [Worker -> WorkerPC]
         /\ hand' \in [Worker -> NetMessage \union {NoMsg}]
         /\ busy' \in [Worker -> Conn \union {NoConn}]
BY DEF ManagerTypes, Done, WorkerPC

LEMMA PassOnTypes ==
  ASSUME TypeOK, Good, Manages, NEW w \in Worker, pc[w] \in InHandler,
         NEW n \in DefaultName, PassOn(w, n)
  PROVE  QueueTypeOK' /\ netQueue' = netQueue
<1>1. hand[w] \in NetMessage
  BY HandTypes DEF GoodMessage
<1>2. Msg(n, hand[w].type, hand[w].conn) \in Message
  BY <1>1 DEF NetMessage, Msg, Message
<1>3. QueueTypeOK'
  BY <1>2, PostTypes DEF PassOn, TypeOK
<1>4. n \notin NetworkName
  BY DEF DefaultName, NetworkName, ReportName, RequestName
<1>5. netQueue' = netQueue
  BY <1>4 DEF PassOn, Post, Msg
<1> QED
  BY <1>3, <1>5

LEMMA ResetSlotTypes ==
  ASSUME TypeOK, Good, Manages, NEW w \in Worker, pc[w] \in InHandler,
         Slot(w) # NoConn, ResetSlot(w), UNCHANGED mOkToUpdate
  PROVE  QueueTypeOK' /\ ConnTypeOK' /\ ManagerTypes'
<1>1. Slot(w) \in Conn
  BY HandTypes
<1>2. ConnTypeOK'
  BY <1>1, OwnerOpTypes DEF ResetSlot, OwnerOp, TypeOK
<1>3. ManagerTypes'
  BY <1>1, HandTypes DEF ResetSlot, TypeOK, ManagerTypes, WorkerPC
<1> QED
  BY <1>2, <1>3 DEF ResetSlot, TypeOK, QueueTypeOK, queueVars

LEMMA NewConnectionTypes ==
  ASSUME TypeOK, Good, Manages, NEW w \in Worker, pc[w] \in InHandler,
         hand[w].name = "NetworkServerConnect", NewConnection(w), UNCHANGED mOkToUpdate
  PROVE  QueueTypeOK' /\ ConnTypeOK' /\ ManagerTypes'
<1>1. hand[w].conn \in Conn
  BY HandTypes DEF GoodMessage
<1>2. ConnTypeOK'
  BY <1>1, OwnerOpTypes DEF NewConnection, OwnerOp, TypeOK
<1>3. ManagerTypes'
  BY <1>1 DEF NewConnection, TypeOK, ManagerTypes, WorkerPC
<1> QED
  BY <1>2, <1>3 DEF NewConnection, TypeOK, QueueTypeOK, queueVars

LEMMA HandlerTypes ==
  ASSUME TypeOK, Good, Manages, NEW w \in Worker, HandlerStep(w)
  PROVE  TypeOK'
<1>1. wanted' \in SUBSET Conn /\ requests' \in 0..MaxRequests
  BY DEF HandlerStep, ConnectToServer, EndConnect, DisconnectFrom, CloseReturned,
         EndDisconnect, Destroy, AfterDestroy, ServerDisconnected, ServerConnected,
         SendPacket, gameVars, TypeOK
<1> SUFFICES QueueTypeOK' /\ ConnTypeOK' /\ ManagerTypes'
  BY <1>1 DEF TypeOK, ManagerTypes
<1>a. ConnTypeOK /\ QueueTypeOK /\ ManagerTypes
  BY TypeOKParts
<1>b. ASSUME UNCHANGED managerVars
      PROVE  ManagerTypes'
  BY <1>a, <1>b DEF managerVars, ManagerTypes
<1>c. ASSUME UNCHANGED queueVars
      PROVE  QueueTypeOK'
  BY <1>a, <1>c DEF queueVars, QueueTypeOK
<1>d. ASSUME UNCHANGED connVars
      PROVE  ConnTypeOK'
  BY <1>a, <1>d DEF connVars, flagVars, ioVars, historyVars, ConnTypeOK
<1>e. ASSUME Done(w), UNCHANGED <<mOkToUpdate, mConnections>>
      PROVE  ManagerTypes'
  BY <1>a, <1>e, DoneTypes DEF ManagerTypes
<1>f. pc[w] \in {"close", "destroy", "construct"} => busy[w] \in Conn
  BY <1>a DEF Manages, WorkerAgrees, ManagerTypes
<1>2. CASE ConnectToServer(w)
  <2>1. pc[w] \in InHandler /\ hand[w].name = "NetworkServerConnect"
    BY <1>2 DEF ConnectToServer, Handling, InHandler
  <2> QED
    BY <1>2, <2>1, ResetSlotTypes, NewConnectionTypes DEF ConnectToServer
<1>3. CASE EndConnect(w)
  <2>1. ConnTypeOK'
    BY <1>3, <1>a, <1>f, OwnerOpTypes DEF EndConnect, OwnerOp
  <2>2. ManagerTypes'
    <3>1. mConnections' \in [ServerType -> Conn \union {NoConn}]
      BY <1>3, <1>a, <1>f, HandTypes DEF EndConnect, ManagerTypes, InHandler
    <3>2. UNCHANGED mOkToUpdate /\ Done(w)
      BY <1>3 DEF EndConnect
    <3> QED
      BY <1>a, <3>1, <3>2, DoneTypes DEF ManagerTypes
  <2> QED
    BY <1>3, <1>c, <2>1, <2>2 DEF EndConnect
<1>4. CASE DisconnectFrom(w)
  <2>1. UNCHANGED <<queueVars, mOkToUpdate, mConnections>> /\ pc[w] \in InHandler
    BY <1>4 DEF DisconnectFrom, Handling, InHandler
  <2>2. CASE Slot(w) = NoConn
    BY <1>4, <2>1, <2>2, <1>c, <1>d, <1>e DEF DisconnectFrom
  <2>3. CASE Slot(w) # NoConn
    <3>1. Slot(w) \in Conn /\ Close(Slot(w))
      BY <1>4, <2>1, <2>3, HandTypes DEF DisconnectFrom
    <3>2. ConnTypeOK'
      BY <3>1, <1>a, OwnerOpTypes DEF OwnerOp
    <3>3. ManagerTypes'
      BY <1>4, <1>a, <2>1, <2>3, <3>1 DEF DisconnectFrom, ManagerTypes, WorkerPC
    <3> QED
      BY <2>1, <1>c, <3>2, <3>3
  <2> QED
    BY <2>2, <2>3
<1>5. CASE CloseReturned(w) \/ Destroy(w)
  <2>1. UNCHANGED <<queueVars, managerVars>>
    BY <1>5 DEF CloseReturned, Destroy
  <2>2. ConnTypeOK'
    BY <1>5, <1>a, <1>f, OwnerOpTypes DEF CloseReturned, Destroy, OwnerOp
  <2> QED
    BY <1>b, <1>c, <2>1, <2>2
<1>6. CASE EndDisconnect(w)
  <2>1. pc[w] \in InHandler /\ Slot(w) = busy[w] /\ busy[w] \in Conn
    BY <1>6, <1>f DEF EndDisconnect, InHandler, Manages, WorkerAgrees
  <2> QED
    BY <1>6, <2>1, ResetSlotTypes, NoConnAssumption DEF EndDisconnect
<1>7. CASE AfterDestroy(w)
  <2>1. pc[w] \in InHandler /\ UNCHANGED mOkToUpdate
    BY <1>7 DEF AfterDestroy, InHandler
  <2>2. CASE hand[w].name = "NetworkServerConnect"
    BY <1>7, <2>1, <2>2, NewConnectionTypes DEF AfterDestroy
  <2>3. CASE hand[w].name = "NetworkServerDisconnect"
    BY <1>7, <2>1, <2>3, <1>c, <1>d, <1>e DEF AfterDestroy
  <2>4. CASE hand[w].name = "NetworkServerDisconnected"
    <3>1. PassOn(w, "ServerDisconnected") /\ Done(w) /\ UNCHANGED <<connVars, mConnections>>
      BY <1>7, <2>4 DEF AfterDestroy
    <3> QED
      BY <2>1, <3>1, <1>d, <1>e, PassOnTypes DEF DefaultName
  <2> QED
    BY <1>7, <2>2, <2>3, <2>4 DEF AfterDestroy
<1>8. CASE ServerDisconnected(w)
  <2>1. pc[w] \in InHandler /\ UNCHANGED mOkToUpdate
    BY <1>8 DEF ServerDisconnected, Handling, InHandler
  <2>2. CASE Slot(w) # NoConn
    BY <1>8, <2>1, <2>2, ResetSlotTypes DEF ServerDisconnected
  <2>3. CASE Slot(w) = NoConn
    <3>1. PassOn(w, "ServerDisconnected") /\ Done(w) /\ UNCHANGED <<connVars, mConnections>>
      BY <1>8, <2>3 DEF ServerDisconnected
    <3> QED
      BY <2>1, <3>1, <1>d, <1>e, PassOnTypes DEF DefaultName
  <2> QED
    BY <2>2, <2>3
<1>9. CASE ServerConnected(w)
  <2>1. /\ pc[w] \in InHandler /\ Done(w)
        /\ UNCHANGED <<connVars, mOkToUpdate, mConnections>>
        /\ PassOn(w, "ServerConnected") \/ PassOn(w, "ServerConnectionFailed")
    BY <1>9 DEF ServerConnected, Handling, InHandler
  <2> QED
    BY <2>1, <1>d, <1>e, PassOnTypes DEF DefaultName
<1>10. CASE SendPacket(w)
  <2>1. /\ pc[w] \in InHandler /\ Done(w)
        /\ UNCHANGED <<queueVars, mOkToUpdate, mConnections>>
    BY <1>10 DEF SendPacket, Handling, InHandler
  <2>2. CASE Slot(w) = NoConn
    BY <1>10, <2>1, <2>2, <1>c, <1>d, <1>e DEF SendPacket
  <2>3. CASE Slot(w) # NoConn
    <3>1. Slot(w) \in Conn /\ Send(Slot(w))
      BY <1>10, <2>1, <2>3, HandTypes DEF SendPacket
    <3> QED
      BY <2>1, <3>1, <1>a, <1>c, <1>e, OwnerOpTypes DEF OwnerOp
  <2> QED
    BY <2>2, <2>3
<1> QED
  BY <1>2, <1>3, <1>4, <1>5, <1>6, <1>7, <1>8, <1>9, <1>10 DEF HandlerStep

DispatchStep(w) == BeginUpdate(w) \/ TryPop(w) \/ TryPopEmpty(w) \/ EndUpdate(w)

GameRequest ==
  \/ \E c \in Conn : Connect(c)
  \/ \E t \in ServerType : Disconnect(t) \/ SendToServer(t)

GameTakes ==
  /\ defQueue # <<>>
  /\ defQueue' = Tail(defQueue)
  /\ UNCHANGED <<netQueue, connVars, managerVars, gameVars>>

LEMMA NextParts ==
  Next <=> \/ \E w \in Worker : DispatchStep(w) \/ HandlerStep(w)
           \/ \E c \in Conn : NetworkStep(c)
           \/ GameRequest
           \/ GameTakes
BY DEF Next, WorkerStep, DispatchStep, HandlerStep, GameStep, GameRequest, GameTakes

LEMMA DispatchTypes ==
  ASSUME TypeOK, NEW w \in Worker, DispatchStep(w)
  PROVE  TypeOK'
<1>1. CASE TryPop(w)
  <2>1. netQueue \in Seq(NetMessage) /\ netQueue # <<>>
    BY <1>1 DEF TryPop, TypeOK, QueueTypeOK
  <2>2. Head(netQueue) \in NetMessage /\ Tail(netQueue) \in Seq(NetMessage)
    BY <2>1, HeadTailProperties
  <2> QED
    BY <1>1, <2>2 DEF TryPop, TypeOK, QueueTypeOK, ConnTypeOK, WorkerGoto, WorkerPC,
       connVars, flagVars, ioVars, historyVars, gameVars
<1>2. CASE BeginUpdate(w) \/ TryPopEmpty(w) \/ EndUpdate(w)
  BY <1>2 DEF BeginUpdate, TryPopEmpty, EndUpdate, TypeOK, QueueTypeOK, ConnTypeOK, WorkerGoto,
     WorkerPC, queueVars, connVars, flagVars, ioVars, historyVars, gameVars
<1> QED
  BY <1>1, <1>2 DEF DispatchStep

LEMMA GameRequestTypes ==
  ASSUME TypeOK, GameRequest
  PROVE  TypeOK'
<1>1. ASSUME NEW c \in Conn, Connect(c)
      PROVE  TypeOK'
  <2>1. Msg("NetworkServerConnect", TypeOf[c], c) \in Message
    BY MsgTypes DEF NetworkName, RequestName
  <2>2. QueueTypeOK'
    BY <1>1, <2>1, PostTypes DEF Connect, TypeOK
  <2> QED
    BY <1>1, <2>2 DEF Connect, TypeOK, ConnTypeOK, connVars, flagVars, ioVars, historyVars,
                      managerVars
<1>2. ASSUME NEW t \in ServerType, NEW n \in RequestName, Request(t, n)
      PROVE  TypeOK'
  <2>1. Msg(n, t, NoConn) \in Message
    BY DEF NetworkName, Msg, Message
  <2>2. QueueTypeOK'
    BY <1>2, <2>1, PostTypes DEF Request, TypeOK
  <2>3. requests' \in 0..MaxRequests
    BY <1>2, ManagerAssumption DEF Request, TypeOK
  <2> QED
    BY <1>2, <2>2, <2>3 DEF Request, TypeOK, ConnTypeOK, connVars, flagVars, ioVars,
                            historyVars, managerVars
<1> QED
  BY <1>1, <1>2 DEF GameRequest, Disconnect, SendToServer, RequestName

LEMMA NextTypes ==
  ASSUME TypeOK, Good, Manages, [Next]_vars
  PROVE  TypeOK'
<1>1. ASSUME NEW w \in Worker, DispatchStep(w) \/ HandlerStep(w)
      PROVE  TypeOK'
  BY <1>1, DispatchTypes, HandlerTypes
<1>2. ASSUME NEW c \in Conn, NetworkStep(c)
      PROVE  TypeOK'
  BY <1>2, ServiceStepTypes DEF NetworkStep, managerVars, gameVars, TypeOK
<1>3. CASE GameRequest
  BY <1>3, GameRequestTypes
<1>4. CASE GameTakes
  <2>1. defQueue' \in Seq(DefMessage)
    BY <1>4, HeadTailProperties DEF GameTakes, TypeOK, QueueTypeOK
  <2> QED
    BY <1>4, <2>1 DEF GameTakes, TypeOK, QueueTypeOK, ConnTypeOK, connVars, flagVars, ioVars,
                      historyVars, managerVars, gameVars
<1>5. CASE UNCHANGED vars
  BY <1>5 DEF vars, TypeOK, QueueTypeOK, ConnTypeOK, queueVars, connVars, flagVars, ioVars,
              historyVars, managerVars, gameVars
<1> QED
  BY <1>1, <1>2, <1>3, <1>4, <1>5, NextParts

-----------------------------------------------------------------------------
(* The Network queue holds good messages.                                  *)

LEMMA ReportIsGood ==
  ASSUME ConnTypeOK, netQueue \in Seq(GoodMessage), NEW c \in Conn, NEW n \in ReportName,
         Report(c, n)
  PROVE  netQueue' \in Seq(GoodMessage)
<1>1. Msg(n, TypeOf[c], c) \in GoodMessage
  BY ConnectionAssumption DEF GoodMessage, NetMessage, Msg, NetworkName
<1> QED
  BY <1>1 DEF Report, Post

LEMMA HandlerKeepsQueue ==
  ASSUME TypeOK, Good, Manages, NEW w \in Worker, HandlerStep(w)
  PROVE  netQueue' = netQueue
<1>1. pc[w] \in InHandler
  BY DEF HandlerStep, ConnectToServer, EndConnect, DisconnectFrom, CloseReturned,
         EndDisconnect, Destroy, AfterDestroy, ServerDisconnected, ServerConnected,
         SendPacket, Handling, InHandler
<1>2. ASSUME NEW n \in DefaultName, PassOn(w, n)
      PROVE  netQueue' = netQueue
  BY <1>1, <1>2, PassOnTypes
<1> QED
  BY <1>2 DEF HandlerStep, ConnectToServer, EndConnect, DisconnectFrom, CloseReturned,
              EndDisconnect, Destroy, AfterDestroy, ServerDisconnected, ServerConnected,
              SendPacket, ResetSlot, NewConnection, queueVars, DefaultName

LEMMA HandlerHands ==
  ASSUME NEW w \in Worker, HandlerStep(w)
  PROVE  \/ UNCHANGED hand
         \/ Done(w)
BY DEF HandlerStep, ConnectToServer, EndConnect, DisconnectFrom, CloseReturned,
       EndDisconnect, Destroy, AfterDestroy, ServerDisconnected, ServerConnected,
       SendPacket, ResetSlot, NewConnection, managerVars

LEMMA NextGood ==
  ASSUME TypeOK, Good, Manages, [Next]_vars
  PROVE  Good'
<1> USE DEF Good
<1>1. ASSUME NEW w \in Worker, DispatchStep(w)
      PROVE  Good'
  <2>1. CASE TryPop(w)
    <3>1. Head(netQueue) \in GoodMessage /\ Tail(netQueue) \in Seq(GoodMessage)
      BY <2>1, HeadTailProperties DEF TryPop
    <3> QED
      BY <2>1, <3>1 DEF TryPop
  <2>2. CASE BeginUpdate(w) \/ TryPopEmpty(w) \/ EndUpdate(w)
    BY <2>2 DEF BeginUpdate, TryPopEmpty, EndUpdate, queueVars
  <2> QED
    BY <1>1, <2>1, <2>2 DEF DispatchStep
<1>2. ASSUME NEW w \in Worker, HandlerStep(w)
      PROVE  Good'
  BY <1>2, HandlerKeepsQueue, HandlerHands DEF Done
<1>3. ASSUME NEW c \in Conn, NetworkStep(c)
      PROVE  Good'
  <2>1. hand' = hand
    BY <1>3 DEF NetworkStep, managerVars
  <2>2. \/ netQueue' = netQueue
        \/ \E n \in ReportName : Report(c, n)
        \/ Post(Msg("Packet", TypeOf[c], c))
    BY <1>3 DEF NetworkStep, ServiceStep, ServiceRuns, Completes, RunPostedClose, HandleWriteError,
       HandleResolve, HandleConnect, HandleConnectError, ClearConnected, HandleHeartBeat,
       DoKeepAlive, HandleReadPacket, DoReadPacket, DoClose, ReadPostMessage,
       NotifyDisconnected, StopService, queueVars, ReportName
  <2>3. CASE Post(Msg("Packet", TypeOf[c], c))
    BY <2>1, <2>3 DEF Post, Msg, NetworkName, ReportName, RequestName
  <2> QED
    BY <2>1, <2>2, <2>3, ReportIsGood DEF TypeOK
<1>4. CASE GameRequest
  <2>1. \E m \in GoodMessage : Post(m) /\ UNCHANGED managerVars
    <3>1. ASSUME NEW c \in Conn, Connect(c)
          PROVE  \E m \in GoodMessage : Post(m) /\ UNCHANGED managerVars
      <4>1. Msg("NetworkServerConnect", TypeOf[c], c) \in GoodMessage
        BY ConnectionAssumption DEF GoodMessage, NetMessage, Msg, NetworkName, RequestName
      <4> QED
        BY <3>1, <4>1 DEF Connect
    <3>2. ASSUME NEW t \in ServerType, Disconnect(t) \/ SendToServer(t)
          PROVE  \E m \in GoodMessage : Post(m) /\ UNCHANGED managerVars
      <4>1. /\ Msg("NetworkServerDisconnect", t, NoConn) \in GoodMessage
            /\ Msg("NetworkServerSend", t, NoConn) \in GoodMessage
        BY DEF GoodMessage, NetMessage, Msg, NetworkName, RequestName
      <4> QED
        BY <3>2, <4>1 DEF Disconnect, SendToServer, Request
    <3> QED
      BY <1>4, <3>1, <3>2 DEF GameRequest
  <2> QED
    BY <2>1 DEF Post, managerVars
<1>5. CASE GameTakes \/ UNCHANGED vars
  BY <1>5 DEF GameTakes, vars, queueVars, managerVars
<1> QED
  BY <1>1, <1>2, <1>3, <1>4, <1>5, NextParts

-----------------------------------------------------------------------------
(* mOkToUpdate.                                                            *)

LEMMA HandlerPlaces ==
  ASSUME NEW w \in Worker, HandlerStep(w)
  PROVE  /\ pc[w] \in InHandler
         /\ mOkToUpdate' = mOkToUpdate
         /\ pc' = pc \/ \E p \in InHandler \union {"pop"} : pc' = [pc EXCEPT ![w] = p]
BY DEF HandlerStep, ConnectToServer, EndConnect, DisconnectFrom, CloseReturned,
       EndDisconnect, Destroy, AfterDestroy, ServerDisconnected, ServerConnected,
       SendPacket, ResetSlot, NewConnection, Done, Handling, InHandler, managerVars

LEMMA NextOneDispatcher ==
  ASSUME TypeOK, OneDispatcher, [Next]_vars
  PROVE  OneDispatcher'
<1> USE DEF OneDispatcher, InUpdate
<1>a. pc \in [Worker -> WorkerPC] /\ mOkToUpdate \in BOOLEAN
  BY DEF TypeOK
<1>1. ASSUME NEW w \in Worker, BeginUpdate(w)
      PROVE  OneDispatcher'
  BY <1>1, <1>a DEF BeginUpdate, WorkerGoto
<1>2. ASSUME NEW w \in Worker, EndUpdate(w)
      PROVE  OneDispatcher'
  BY <1>2, <1>a DEF EndUpdate, WorkerGoto
<1>3. ASSUME NEW w \in Worker, TryPop(w) \/ TryPopEmpty(w)
      PROVE  OneDispatcher'
  BY <1>3, <1>a DEF TryPop, TryPopEmpty, WorkerGoto
<1>4. ASSUME NEW w \in Worker, HandlerStep(w)
      PROVE  OneDispatcher'
  BY <1>4, <1>a, HandlerPlaces DEF InHandler
<1>5. ASSUME UNCHANGED managerVars
      PROVE  OneDispatcher'
  BY <1>5 DEF managerVars
<1>6. \/ \E w \in Worker : DispatchStep(w) \/ HandlerStep(w)
      \/ UNCHANGED managerVars
  BY NextParts DEF NetworkStep, GameRequest, Connect, Disconnect, SendToServer, Request,
                   GameTakes, vars
<1> QED
  BY <1>1, <1>2, <1>3, <1>4, <1>5, <1>6 DEF DispatchStep

-----------------------------------------------------------------------------
(* Slots, workers and owners.                                              *)

\* While one worker is in update(), the others hold nothing.
LEMMA Alone ==
  ASSUME TypeOK, OneDispatcher, Manages, NEW w \in Worker, pc[w] # "idle",
         NEW v \in Worker, v # w
  PROVE  pc[v] = "idle" /\ hand[v] = NoMsg /\ busy[v] = NoConn
<1>1. pc[v] = "idle"
  BY DEF OneDispatcher, InUpdate
<1> QED
  BY <1>1 DEF Manages, WorkerAgrees, InHandler

\* A connection on the way from one place to another is in the hands of the
\* one worker in update().
LEMMA Settled ==
  ASSUME TypeOK, OneDispatcher, Manages, NEW w \in Worker, pc[w] # "idle",
         NEW d \in Conn, d # busy[w]
  PROVE  owner[d] \in {"none", "held", "destroyed"}
<1>1. OwnedAgrees(d) /\ owner[d] \in OwnerPC
  BY DEF Manages, TypeOK, ConnTypeOK
<1> QED
  BY <1>1, Alone DEF OwnedAgrees, OwnerPC

\* What is enough to show after a step of the dispatching worker on c.
LEMMA ManagesByOne ==
  ASSUME TypeOK, OneDispatcher, Manages, NEW w \in Worker, pc[w] # "idle",
         NEW c \in Conn \union {NoConn}, busy[w] \in {c, NoConn},
         \A d \in Conn \ {c} : owner'[d] = owner[d],
         \A v \in Worker \ {w} : pc'[v] = pc[v] /\ hand'[v] = hand[v] /\ busy'[v] = busy[v],
         WorkerAgrees(w)',
         \A t \in ServerType : SlotAgrees(t)',
         \A d \in Conn \ {c} : mConnections[TypeOf[d]] = d => mConnections'[TypeOf[d]] = d,
         c # NoConn => OwnedAgrees(c)'
  PROVE  Manages'
<1>1. ASSUME NEW v \in Worker
      PROVE  WorkerAgrees(v)'
  <2>1. CASE v = w
    BY <2>1
  <2>2. CASE v # w
    <3>1. pc'[v] = "idle" /\ hand'[v] = NoMsg /\ busy'[v] = NoConn
      BY <2>2, Alone
    <3> QED
      BY <3>1 DEF WorkerAgrees, InHandler
  <2> QED
    BY <2>1, <2>2
<1>2. ASSUME NEW d \in Conn
      PROVE  OwnedAgrees(d)'
  <2>1. CASE d = c
    BY <2>1, NoConnAssumption
  <2>2. CASE d # c
    <3>1. d # busy[w]
      BY <2>2, NoConnAssumption
    <3>2. owner'[d] = owner[d] /\ owner[d] \in {"none", "held", "destroyed"}
      BY <2>2, <3>1, Settled
    <3>3. owner[d] = "held" => mConnections'[TypeOf[d]] = d
      BY <2>2 DEF Manages, OwnedAgrees
    <3> QED
      BY <3>2, <3>3 DEF OwnedAgrees
  <2> QED
    BY <2>1, <2>2
<1> QED
  BY <1>1, <1>2 DEF Manages

LEMMA ResetSlotManages ==
  ASSUME TypeOK, Good, OneDispatcher, Manages, NEW w \in Worker, pc[w] \in InHandler,
         Slot(w) # NoConn, busy[w] \in {Slot(w), NoConn}, ResetSlot(w)
  PROVE  Manages'
<1>a. PICK t \in ServerType : t = hand[w].type
  BY HandTypes
<1>b. PICK c \in Conn : c = mConnections[t]
  BY <1>a, HandTypes DEF Slot
<1>1. c = Slot(w) /\ t = hand[w].type /\ hand[w] \in GoodMessage /\ mConnections[t] = c
  BY <1>a, <1>b, HandTypes DEF Slot
<1>2. TypeOf[c] = t
  BY <1>1 DEF Manages, SlotAgrees
<1>3. /\ owner' = [owner EXCEPT ![c] = "destroying"]
      /\ mConnections' = [mConnections EXCEPT ![t] = NoConn]
      /\ busy' = [busy EXCEPT ![w] = c]
      /\ pc' = [pc EXCEPT ![w] = "destroy"]
      /\ hand' = hand
  BY <1>1 DEF ResetSlot, BeginDestroy
<1>4. /\ owner \in [Conn -> OwnerPC] /\ pc \in [Worker -> WorkerPC]
      /\ busy \in [Worker -> Conn \union {NoConn}]
      /\ mConnections \in [ServerType -> Conn \union {NoConn}]
      /\ TypeOf \in [Conn -> ServerType]
  BY ConnectionAssumption DEF TypeOK, ConnTypeOK
<1>5. hand[w] # NoMsg
  BY DEF Manages, WorkerAgrees
<1>6. WorkerAgrees(w)'
  BY <1>1, <1>2, <1>3, <1>4, <1>5, NoConnAssumption DEF WorkerAgrees, Slot, InHandler
<1>7. ASSUME NEW u \in ServerType
      PROVE  SlotAgrees(u)'
  <2>1. SlotAgrees(u)
    BY DEF Manages
  <2>2. CASE u = t
    BY <2>2, <1>3, <1>4 DEF SlotAgrees
  <2>3. CASE u # t
    <3>1. mConnections'[u] = mConnections[u]
      BY <2>3, <1>3, <1>4
    <3>2. CASE mConnections[u] # NoConn
      <4>1. mConnections[u] \in Conn /\ mConnections[u] # c
        BY <2>1, <2>3, <3>2, <1>2, <1>4 DEF SlotAgrees
      <4> QED
        BY <2>1, <3>1, <4>1, <1>3, <1>4 DEF SlotAgrees
    <3> QED
      BY <3>1, <3>2 DEF SlotAgrees
  <2> QED
    BY <2>2, <2>3
<1>8. OwnedAgrees(c)'
  BY <1>1, <1>3, <1>4 DEF OwnedAgrees
<1>9. \A d \in Conn \ {c} : mConnections[TypeOf[d]] = d => mConnections'[TypeOf[d]] = d
  BY <1>1, <1>3, <1>4
<1> QED
  <2>1. pc[w] # "idle" /\ c \in Conn \union {NoConn} /\ busy[w] \in {c, NoConn}
    BY <1>1 DEF InHandler
  <2>2. \A d \in Conn \ {c} : owner'[d] = owner[d]
    BY <1>3, <1>4
  <2>3. \A v \in Worker \ {w} : pc'[v] = pc[v] /\ hand'[v] = hand[v] /\ busy'[v] = busy[v]
    BY <1>3, <1>4
  <2> QED
    BY <1>6, <1>7, <1>8, <1>9, <2>1, <2>2, <2>3, ManagesByOne

LEMMA NewConnectionManages ==
  ASSUME TypeOK, Good, OneDispatcher, Manages, NEW w \in Worker, pc[w] \in InHandler,
         hand[w].name = "NetworkServerConnect", Slot(w) = NoConn, NewConnection(w),
         busy[w] = NoConn \/ owner[busy[w]] = "destroyed", UNCHANGED mOkToUpdate
  PROVE  Manages'
<1>a. PICK c \in Conn : c = hand[w].conn
  BY HandTypes DEF GoodMessage
<1>1. /\ c = hand[w].conn /\ TypeOf[c] = hand[w].type /\ TypeOf[c] \in ServerType
      /\ mConnections[TypeOf[c]] = NoConn
  BY <1>a, HandTypes DEF Slot, GoodMessage
<1>2. /\ owner[c] = "none"
      /\ owner' = [owner EXCEPT ![c] = "constructing"]
      /\ busy' = [busy EXCEPT ![w] = c]
      /\ pc' = [pc EXCEPT ![w] = "construct"]
      /\ mConnections' = mConnections
      /\ hand' = hand
  BY <1>1 DEF NewConnection, Construct
<1>3. /\ owner \in [Conn -> OwnerPC] /\ pc \in [Worker -> WorkerPC]
      /\ busy \in [Worker -> Conn \union {NoConn}]
  BY DEF TypeOK, ConnTypeOK
<1>4. hand[w] # NoMsg /\ pc[w] # "idle"
  BY DEF Manages, WorkerAgrees, InHandler
<1>5. WorkerAgrees(w)'
  BY <1>1, <1>2, <1>3, <1>4, NoConnAssumption DEF WorkerAgrees, Slot, InHandler
<1>6. ASSUME NEW u \in ServerType
      PROVE  SlotAgrees(u)'
  <2>1. SlotAgrees(u) /\ mConnections[u] \in Conn \union {NoConn}
    BY DEF Manages, TypeOK
  <2> QED
    BY <2>1, <1>1, <1>2, <1>3 DEF SlotAgrees
<1>7. ASSUME NEW v \in Worker
      PROVE  WorkerAgrees(v)'
  <2>1. CASE v # w
    <3>1. pc'[v] = "idle" /\ hand'[v] = NoMsg /\ busy'[v] = NoConn
      BY <2>1, <1>2, <1>3, <1>4, Alone
    <3> QED
      BY <3>1 DEF WorkerAgrees, InHandler
  <2> QED
    BY <2>1, <1>5
<1>8. ASSUME NEW d \in Conn
      PROVE  OwnedAgrees(d)'
  <2>1. CASE d = c
    BY <2>1, <1>1, <1>2, <1>3 DEF OwnedAgrees
  <2>2. CASE d # c
    <3>1. owner'[d] = owner[d] /\ owner[d] \in {"none", "held", "destroyed"}
      <4>1. CASE d = busy[w]
        BY <2>2, <4>1, <1>2, <1>3, NoConnAssumption
      <4>2. CASE d # busy[w]
        BY <2>2, <4>2, <1>2, <1>3, <1>4, Settled
      <4> QED
        BY <4>1, <4>2
    <3>2. owner[d] = "held" => mConnections'[TypeOf[d]] = d
      BY <1>2 DEF Manages, OwnedAgrees
    <3> QED
      BY <3>1, <3>2 DEF OwnedAgrees
  <2> QED
    BY <2>1, <2>2
<1> QED
  BY <1>6, <1>7, <1>8 DEF Manages

\* A handler that returns with every connection settled.
LEMMA DoneManages ==
  ASSUME TypeOK, OneDispatcher, Manages, NEW w \in Worker, pc[w] \in InHandler, Done(w),
         UNCHANGED <<owner, mConnections>>,
         busy[w] = NoConn \/ owner[busy[w]] = "destroyed"
  PROVE  Manages'
<1>1. pc[w] # "idle"
  BY DEF InHandler
<1>2. /\ pc' = [pc EXCEPT ![w] = "pop"] /\ hand' = [hand EXCEPT ![w] = NoMsg]
      /\ busy' = [busy EXCEPT ![w] = NoConn]
      /\ pc \in [Worker -> WorkerPC] /\ DOMAIN hand = Worker /\ DOMAIN busy = Worker
  BY DEF Done, TypeOK
<1>3. ASSUME NEW v \in Worker
      PROVE  WorkerAgrees(v)'
  <2>1. CASE v = w
    BY <2>1, <1>2 DEF WorkerAgrees, InHandler
  <2>2. CASE v # w
    <3>1. pc'[v] = "idle" /\ hand'[v] = NoMsg /\ busy'[v] = NoConn
      BY <2>2, <1>1, <1>2, Alone
    <3> QED
      BY <3>1 DEF WorkerAgrees, InHandler
  <2> QED
    BY <2>1, <2>2
<1>4. ASSUME NEW t \in ServerType
      PROVE  SlotAgrees(t)'
  BY DEF Manages, SlotAgrees
<1>5. ASSUME NEW d \in Conn
      PROVE  OwnedAgrees(d)'
  <2>1. owner'[d] = owner[d] /\ owner[d] \in {"none", "held", "destroyed"}
    <3>1. CASE d = busy[w]
      BY <3>1, NoConnAssumption
    <3>2. CASE d # busy[w]
      BY <3>2, <1>1, Settled
    <3> QED
      BY <3>1, <3>2
  <2>2. owner[d] = "held" => mConnections'[TypeOf[d]] = d
    BY DEF Manages, OwnedAgrees
  <2> QED
    BY <2>1, <2>2 DEF OwnedAgrees
<1> QED
  BY <1>3, <1>4, <1>5 DEF Manages

LEMMA EndConnectManages ==
  ASSUME TypeOK, Good, OneDispatcher, Manages, NEW w \in Worker, EndConnect(w)
  PROVE  Manages'
<1>1. pc[w] = "construct" /\ pc[w] # "idle" /\ pc[w] \in InHandler
  BY DEF EndConnect, InHandler
<1>2. PICK c \in Conn : c = busy[w]
  BY <1>1 DEF Manages, WorkerAgrees, TypeOK
<1>3. /\ hand[w].type = TypeOf[c] /\ TypeOf[c] \in ServerType
      /\ mConnections[TypeOf[c]] = NoConn
  BY <1>1, <1>2, HandTypes DEF Manages, WorkerAgrees, Slot
<1>4. /\ owner' = [owner EXCEPT ![c] = "held"]
      /\ mConnections' = [mConnections EXCEPT ![TypeOf[c]] = c]
      /\ pc' = [pc EXCEPT ![w] = "pop"] /\ hand' = [hand EXCEPT ![w] = NoMsg]
      /\ busy' = [busy EXCEPT ![w] = NoConn]
  BY <1>2, <1>3 DEF EndConnect, EnablePosting, Done
<1>5. /\ owner \in [Conn -> OwnerPC] /\ pc \in [Worker -> WorkerPC]
      /\ busy \in [Worker -> Conn \union {NoConn}] /\ DOMAIN hand = Worker
      /\ mConnections \in [ServerType -> Conn \union {NoConn}]
  BY DEF TypeOK, ConnTypeOK
<1>6. WorkerAgrees(w)'
  BY <1>4, <1>5 DEF WorkerAgrees, InHandler
<1>7. ASSUME NEW u \in ServerType
      PROVE  SlotAgrees(u)'
  <2>1. CASE u = TypeOf[c]
    BY <2>1, <1>3, <1>4, <1>5 DEF SlotAgrees
  <2>2. CASE u # TypeOf[c]
    <3>1. mConnections'[u] = mConnections[u] /\ SlotAgrees(u)
      BY <2>2, <1>4, <1>5 DEF Manages
    <3>2. mConnections[u] # NoConn => mConnections[u] \in Conn /\ mConnections[u] # c
      BY <2>2, <3>1, <1>5 DEF SlotAgrees
    <3> QED
      BY <3>1, <3>2, <1>4, <1>5 DEF SlotAgrees
  <2> QED
    BY <2>1, <2>2
<1>8. OwnedAgrees(c)'
  BY <1>3, <1>4, <1>5 DEF OwnedAgrees
<1>9. \A d \in Conn \ {c} : mConnections[TypeOf[d]] = d => mConnections'[TypeOf[d]] = d
  <2> SUFFICES ASSUME NEW d \in Conn \ {c}, mConnections[TypeOf[d]] = d
               PROVE  mConnections'[TypeOf[d]] = d
    OBVIOUS
  <2>1. TypeOf[d] # TypeOf[c]
    BY <1>3, NoConnAssumption
  <2>2. TypeOf[d] \in ServerType
    BY ConnectionAssumption
  <2> QED
    BY <2>1, <2>2, <1>4, <1>5
<1> QED
  <2>1. \A d \in Conn \ {c} : owner'[d] = owner[d]
    BY <1>4, <1>5
  <2>2. \A v \in Worker \ {w} : pc'[v] = pc[v] /\ hand'[v] = hand[v] /\ busy'[v] = busy[v]
    BY <1>4, <1>5
  <2> QED
    BY <1>1, <1>2, <1>6, <1>7, <1>8, <1>9, <2>1, <2>2, ManagesByOne

\* close(), its return, and the steps of the destructor move only the owner's
\* place of the connection in hand.
LEMMA OwnerMovesManages ==
  ASSUME TypeOK, OneDispatcher, Manages, NEW w \in Worker, pc[w] \in InHandler,
         NEW c \in Conn, busy[w] \in {c, NoConn}, NEW p \in OwnerPC,
         owner' = [owner EXCEPT ![c] = p],
         busy' = [busy EXCEPT ![w] = c],
         UNCHANGED <<mConnections, hand>>,
         TypeOf[c] = hand[w].type,
         \/ /\ pc' = [pc EXCEPT ![w] = "close"]
            /\ Slot(w) = c /\ hand[w].name = "NetworkServerDisconnect"
            /\ p \in {"joining", "closed"}
         \/ /\ pc' = [pc EXCEPT ![w] = "destroy"]
            /\ Slot(w) = NoConn
            /\ p \in {"destroying", "dtorJoining", "destroyed"}
  PROVE  Manages'
<1>1. pc[w] # "idle"
  BY DEF InHandler
<1>2. /\ owner \in [Conn -> OwnerPC] /\ pc \in [Worker -> WorkerPC]
      /\ busy \in [Worker -> Conn \union {NoConn}]
      /\ mConnections \in [ServerType -> Conn \union {NoConn}]
      /\ TypeOf[c] \in ServerType
  BY ConnectionAssumption DEF TypeOK, ConnTypeOK
<1>3. hand[w] # NoMsg
  BY DEF Manages, WorkerAgrees
<1>4. WorkerAgrees(w)'
  BY <1>2, <1>3, NoConnAssumption DEF WorkerAgrees, Slot, InHandler
<1>5. ASSUME NEW u \in ServerType
      PROVE  SlotAgrees(u)'
  <2>1. SlotAgrees(u)
    BY DEF Manages
  <2>2. CASE mConnections[u] = c
    <3>1. u = TypeOf[c]
      BY <2>1, <2>2, NoConnAssumption DEF SlotAgrees
    <3>2. Slot(w) = c
      BY <2>2, <3>1 DEF Slot
    <3> QED
      BY <2>1, <2>2, <3>1, <3>2, <1>2, NoConnAssumption DEF SlotAgrees
  <2>3. CASE mConnections[u] # c
    BY <2>1, <2>3, <1>2 DEF SlotAgrees
  <2> QED
    BY <2>2, <2>3
<1>6. OwnedAgrees(c)'
  BY <1>2 DEF OwnedAgrees, Slot
<1> QED
  <2>1. \A d \in Conn \ {c} : owner'[d] = owner[d]
    BY <1>2
  <2>2. \A v \in Worker \ {w} : pc'[v] = pc[v] /\ hand'[v] = hand[v] /\ busy'[v] = busy[v]
    BY <1>2
  <2>3. \A d \in Conn \ {c} : mConnections[TypeOf[d]] = d => mConnections'[TypeOf[d]] = d
    OBVIOUS
  <2> QED
    BY <1>1, <1>4, <1>5, <1>6, <2>1, <2>2, <2>3, ManagesByOne

\* The connection in hand while a close or a destructor runs.
LEMMA InHand ==
  ASSUME TypeOK, Good, Manages, NEW w \in Worker, pc[w] \in {"close", "destroy"}
  PROVE  /\ busy[w] \in Conn /\ TypeOf[busy[w]] = hand[w].type
         /\ busy = [busy EXCEPT ![w] = busy[w]] /\ pc = [pc EXCEPT ![w] = pc[w]]
<1>1. busy[w] \in Conn
  BY DEF Manages, WorkerAgrees, TypeOK
<1>2. hand[w].type \in ServerType
  BY HandTypes DEF InHandler
<1>3. TypeOf[busy[w]] = hand[w].type
  <2>1. CASE pc[w] = "close"
    <3>1. mConnections[hand[w].type] = busy[w]
      BY <2>1 DEF Manages, WorkerAgrees, Slot
    <3> QED
      BY <1>1, <1>2, <3>1, NoConnAssumption DEF Manages, SlotAgrees
  <2>2. CASE pc[w] = "destroy"
    BY <2>2 DEF Manages, WorkerAgrees
  <2> QED
    BY <2>1, <2>2
<1> QED
  BY <1>1, <1>3 DEF TypeOK

LEMMA HandlerManages ==
  ASSUME TypeOK, Good, OneDispatcher, Manages, NEW w \in Worker, HandlerStep(w)
  PROVE  Manages'
<1>a. WorkerAgrees(w)
  BY DEF Manages
<1>b. pc[w] \in InHandler
  BY HandlerPlaces
<1>c. pc[w] = "handle" => busy[w] = NoConn
  BY <1>a DEF WorkerAgrees, TypeOK
<1>1. CASE ConnectToServer(w)
  BY <1>1, <1>b, <1>c, ResetSlotManages, NewConnectionManages DEF ConnectToServer, Handling
<1>2. CASE EndConnect(w)
  BY <1>2, EndConnectManages
<1>3. CASE DisconnectFrom(w)
  <2>1. pc[w] = "handle" /\ hand[w].name = "NetworkServerDisconnect" /\ UNCHANGED mConnections
    BY <1>3 DEF DisconnectFrom, Handling
  <2>2. CASE Slot(w) = NoConn
    BY <1>3, <1>b, <1>c, <2>1, <2>2, DoneManages DEF DisconnectFrom, connVars
  <2>3. CASE Slot(w) # NoConn
    <3>1. PICK c \in Conn : c = Slot(w)
      BY <1>b, <2>3, HandTypes
    <3>2. PICK p \in {"joining", "closed"} : owner' = [owner EXCEPT ![c] = p]
      BY <1>3, <2>3, <3>1 DEF DisconnectFrom, Close, CallClose
    <3>3. TypeOf[c] = hand[w].type
      BY <1>b, <2>3, <3>1, HandTypes DEF Manages, SlotAgrees, Slot
    <3>4. /\ busy' = [busy EXCEPT ![w] = c] /\ pc' = [pc EXCEPT ![w] = "close"]
          /\ hand' = hand
      BY <1>3, <2>3, <3>1 DEF DisconnectFrom
    <3>5. p \in OwnerPC
      BY DEF OwnerPC
    <3> QED
      BY <1>b, <1>c, <2>1, <3>1, <3>2, <3>3, <3>4, <3>5, OwnerMovesManages
  <2> QED
    BY <2>2, <2>3
<1>4. CASE CloseReturned(w)
  <2>1. PICK c \in Conn : c = busy[w]
    BY <1>4, InHand DEF CloseReturned
  <2>2. owner' = [owner EXCEPT ![c] = "closed"] /\ pc[w] = "close"
    BY <1>4, <2>1 DEF CloseReturned, CloseReturn
  <2>3. UNCHANGED managerVars
    BY <1>4 DEF CloseReturned
  <2>4. Slot(w) = c /\ hand[w].name = "NetworkServerDisconnect"
    BY <1>a, <2>1, <2>2 DEF WorkerAgrees
  <2>5. TypeOf[c] = hand[w].type /\ busy' = [busy EXCEPT ![w] = c]
        /\ pc' = [pc EXCEPT ![w] = "close"]
    BY <2>1, <2>2, <2>3, InHand DEF managerVars
  <2> QED
    BY <1>b, <2>1, <2>2, <2>3, <2>4, <2>5, OwnerMovesManages DEF managerVars, OwnerPC
<1>5. CASE EndDisconnect(w)
  <2>1. pc[w] = "close" /\ ResetSlot(w)
    BY <1>5 DEF EndDisconnect
  <2>2. Slot(w) = busy[w] /\ Slot(w) # NoConn
    BY <1>a, <2>1 DEF WorkerAgrees
  <2> QED
    BY <1>b, <2>1, <2>2, ResetSlotManages
<1>6. CASE Destroy(w)
  <2>1. PICK c \in Conn : c = busy[w]
    BY <1>6, InHand DEF Destroy
  <2>2. pc[w] = "destroy" /\ UNCHANGED managerVars
    BY <1>6 DEF Destroy
  <2>3. PICK p \in {"dtorJoining", "destroyed"} : owner' = [owner EXCEPT ![c] = p]
    BY <1>6, <2>1 DEF Destroy, DestroyClose, DestroyReturn, CallClose
  <2>4. Slot(w) = NoConn
    BY <1>a, <2>2 DEF WorkerAgrees
  <2>5. TypeOf[c] = hand[w].type /\ busy' = [busy EXCEPT ![w] = c]
        /\ pc' = [pc EXCEPT ![w] = "destroy"]
    BY <2>1, <2>2, InHand DEF managerVars
  <2> QED
    BY <1>b, <2>1, <2>2, <2>3, <2>4, <2>5, OwnerMovesManages DEF managerVars, OwnerPC
<1>7. CASE AfterDestroy(w)
  <2>1. pc[w] = "destroy" /\ owner[busy[w]] = "destroyed" /\ UNCHANGED mOkToUpdate
    BY <1>7 DEF AfterDestroy
  <2>2. Slot(w) = NoConn
    BY <1>a, <2>1 DEF WorkerAgrees
  <2>3. \/ hand[w].name = "NetworkServerConnect" /\ NewConnection(w)
        \/ Done(w) /\ UNCHANGED <<owner, mConnections>>
    BY <1>7 DEF AfterDestroy, connVars
  <2> QED
    BY <1>b, <2>1, <2>2, <2>3, NewConnectionManages, DoneManages
<1>8. CASE ServerDisconnected(w)
  BY <1>8, <1>b, <1>c, ResetSlotManages, DoneManages DEF ServerDisconnected, Handling, connVars
<1>9. CASE ServerConnected(w)
  BY <1>9, <1>b, <1>c, DoneManages DEF ServerConnected, Handling, connVars
<1>10. CASE SendPacket(w)
  BY <1>10, <1>b, <1>c, DoneManages DEF SendPacket, Handling, Send, connVars
<1> QED
  BY <1>1, <1>2, <1>3, <1>4, <1>5, <1>6, <1>7, <1>8, <1>9, <1>10 DEF HandlerStep

LEMMA DispatchManages ==
  ASSUME TypeOK, Good, OneDispatcher, Manages, NEW w \in Worker, DispatchStep(w)
  PROVE  Manages'
<1>1. UNCHANGED <<owner, mConnections, busy>>
  BY DEF DispatchStep, BeginUpdate, TryPop, TryPopEmpty, EndUpdate, connVars
<1>2. pc[w] \in {"idle", "pop", "release"} /\ hand[w] = NoMsg /\ busy[w] = NoConn
  <2>1. pc[w] \in {"idle", "pop", "release"}
    BY DEF DispatchStep, BeginUpdate, TryPop, TryPopEmpty, EndUpdate, WorkerGoto
  <2> QED
    BY <2>1 DEF Manages, WorkerAgrees, InHandler
<1>3. ASSUME NEW v \in Worker
      PROVE  WorkerAgrees(v)'
  <2>1. CASE v # w
    <3>1. pc'[v] = pc[v] /\ hand'[v] = hand[v]
      BY <2>1 DEF DispatchStep, BeginUpdate, TryPop, TryPopEmpty, EndUpdate, WorkerGoto, TypeOK
    <3> QED
      BY <1>1, <3>1 DEF Manages, WorkerAgrees, Slot
  <2>2. CASE v = w
    <3>1. CASE TryPop(w)
      <4>1. Head(netQueue) \in GoodMessage
        BY <3>1, HeadTailProperties DEF TryPop, Good
      <4>2. Head(netQueue) # NoMsg
        BY <4>1, ManagerAssumption DEF GoodMessage
      <4> QED
        BY <1>1, <1>2, <2>2, <3>1, <4>2 DEF TryPop, WorkerGoto, WorkerAgrees, InHandler, TypeOK
    <3>2. CASE BeginUpdate(w) \/ TryPopEmpty(w) \/ EndUpdate(w)
      BY <1>1, <1>2, <2>2, <3>2
      DEF BeginUpdate, TryPopEmpty, EndUpdate, WorkerGoto, WorkerAgrees, InHandler, TypeOK
    <3> QED
      BY <3>1, <3>2 DEF DispatchStep
  <2> QED
    BY <2>1, <2>2
<1>4. ASSUME NEW t \in ServerType
      PROVE  SlotAgrees(t)'
  BY <1>1 DEF Manages, SlotAgrees
<1>5. ASSUME NEW c \in Conn
      PROVE  OwnedAgrees(c)'
  <2>1. \A v \in Worker : pc[v] \in {"close", "destroy", "construct"} => pc'[v] = pc[v]
    BY <1>2 DEF DispatchStep, BeginUpdate, TryPop, TryPopEmpty, EndUpdate, WorkerGoto, TypeOK
  <2> QED
    BY <1>1, <2>1 DEF Manages, OwnedAgrees
<1> QED
  BY <1>3, <1>4, <1>5 DEF Manages

LEMMA NextManages ==
  ASSUME TypeOK, Good, OneDispatcher, Manages, [Next]_vars
  PROVE  Manages'
<1>1. ASSUME UNCHANGED <<owner, managerVars>>
      PROVE  Manages'
  BY <1>1 DEF managerVars, Manages, WorkerAgrees, SlotAgrees, OwnedAgrees, Slot
<1>2. ASSUME NEW c \in Conn, NetworkStep(c)
      PROVE  UNCHANGED <<owner, managerVars>>
  BY <1>2 DEF NetworkStep, ServiceStep, ServiceRuns, Completes, RunPostedClose, HandleWriteError,
     HandleResolve, HandleConnect, HandleConnectError, ClearConnected, HandleHeartBeat,
     DoKeepAlive, HandleReadPacket, DoReadPacket, DoClose, ReadPostMessage,
     NotifyDisconnected, StopService
<1>3. GameRequest \/ GameTakes \/ UNCHANGED vars => UNCHANGED <<owner, managerVars>>
  BY DEF GameRequest, Connect, Disconnect, SendToServer, Request, GameTakes, vars, connVars
<1> QED
  BY <1>1, <1>2, <1>3, DispatchManages, HandlerManages, NextParts

-----------------------------------------------------------------------------
(* The inductive invariant and what follows from it.                       *)

LEMMA InitInv == Init => Inv
<1> SUFFICES ASSUME Init
             PROVE  Inv
  OBVIOUS
<1>1. QueueTypeOK /\ ConnTypeOK
  BY InitTypes DEF Init, ConnectionTypeOK
<1>2. TypeOK
  BY <1>1, ManagerAssumption DEF Init, TypeOK, WorkerPC
<1>3. Good
  BY DEF Init, QueueInit, Good
<1>4. OneDispatcher
  BY DEF Init, OneDispatcher, InUpdate
<1>5. Manages
  BY DEF Init, ConnInit, Manages, WorkerAgrees, SlotAgrees, OwnedAgrees, InHandler
<1> QED
  BY <1>2, <1>3, <1>4, <1>5 DEF Inv

LEMMA NextInv == Inv /\ [Next]_vars => Inv'
BY NextTypes, NextGood, NextOneDispatcher, NextManages DEF Inv

\* What the steps keep, whatever fairness goes with them.
Steps == Init /\ [][Next]_vars

LEMMA SpecSteps == Spec => Steps
BY DEF Spec, Steps

LEMMA ManagerInvariant == Steps => []Inv
BY InitInv, NextInv, PTL DEF Steps

LEMMA InvTypeOK == Inv => TypeOK
BY DEF Inv

(***************************************************************************)
(* Type correctness of the whole composition: the handlers of              *)
(* RoNetworkManager find in the Network queue only what was meant for it.  *)
(***************************************************************************)
THEOREM ManagerTypeOK == Spec => []TypeOK
BY InvTypeOK, ManagerInvariant, SpecSteps, PTL

LEMMA InvOneDispatcher == Inv => OneDispatcher
BY DEF Inv

(***************************************************************************)
(* However many updates are scheduled, one worker at a time dispatches.    *)
(***************************************************************************)
THEOREM OneDispatcherHolds == Spec => []OneDispatcher
BY InvOneDispatcher, ManagerInvariant, SpecSteps, PTL

LEMMA InvOnePerServer == Inv => OnePerServer
<1> SUFFICES ASSUME Inv, NEW b \in Conn, NEW c \in Conn, Live(b), Live(c),
                    TypeOf[b] = TypeOf[c]
             PROVE  b = c
  BY DEF OnePerServer
<1> DEFINE InSlot(d) == mConnections[TypeOf[d]] = d
<1>1. ASSUME NEW d \in Conn, Live(d), ~InSlot(d)
      PROVE  \E w \in Worker : /\ busy[w] = d /\ InUpdate(w)
                               /\ mConnections[TypeOf[d]] = NoConn
  <2>1. OwnedAgrees(d) /\ owner[d] \in OwnerPC
    BY DEF Inv, Manages, TypeOK, ConnTypeOK
  <2>2. PICK w \in Worker : pc[w] \in {"destroy", "construct"} /\ busy[w] = d
    BY <1>1, <2>1 DEF Live, OwnedAgrees, OwnerPC
  <2>3. WorkerAgrees(w)
    BY DEF Inv, Manages
  <2> QED
    BY <2>2, <2>3 DEF WorkerAgrees, Slot, InUpdate
<1>2. CASE InSlot(b) /\ InSlot(c)
  BY <1>2
<1>3. CASE ~InSlot(b) /\ InSlot(c)
  BY <1>1, <1>3, NoConnAssumption
<1>4. CASE InSlot(b) /\ ~InSlot(c)
  BY <1>1, <1>4, NoConnAssumption
<1>5. CASE ~InSlot(b) /\ ~InSlot(c)
  BY <1>1, <1>5 DEF Inv, OneDispatcher
<1> QED
  BY <1>2, <1>3, <1>4, <1>5

(***************************************************************************)
(* Never two live connection objects to one server.                        *)
(***************************************************************************)
THEOREM OnePerServerHolds == Spec => []OnePerServer
BY InvOnePerServer, ManagerInvariant, SpecSteps, PTL

LEMMA InvNoLeakNoDangling == Inv => NoLeakNoDangling
<1> SUFFICES ASSUME Inv
             PROVE  NoLeakNoDangling
  OBVIOUS
<1>1. ASSUME NEW t \in ServerType, mConnections[t] # NoConn
      PROVE  /\ TypeOf[mConnections[t]] = t
             /\ owner[mConnections[t]] \in {"held", "joining", "closed"}
  BY <1>1 DEF Inv, Manages, SlotAgrees
<1>2. ASSUME NEW c \in Conn, Live(c)
      PROVE  mConnections[TypeOf[c]] = c \/ \E w \in Worker : busy[w] = c
  <2>1. OwnedAgrees(c) /\ owner[c] \in OwnerPC
    BY DEF Inv, Manages, TypeOK, ConnTypeOK
  <2> QED
    BY <1>2, <2>1 DEF Live, OwnedAgrees, OwnerPC
<1> QED
  BY <1>1, <1>2 DEF NoLeakNoDangling

(***************************************************************************)
(* Every live connection object is in its slot or in a handler's hands,    *)
(* and no slot holds one whose destructor has begun.                       *)
(***************************************************************************)
THEOREM NoLeakNoDanglingHolds == Spec => []NoLeakNoDangling
BY InvNoLeakNoDangling, ManagerInvariant, SpecSteps, PTL

-----------------------------------------------------------------------------
(* The Network queue implements SerialDispatch.                            *)

LEMMA CurrentInOf ==
  ASSUME NEW hands, NEW w \in Worker, \A v \in Worker : v # w => hands[v] = NoMsg
  PROVE  CurrentIn(hands) = hands[w]
<1>1. CASE hands[w] = NoMsg
  BY <1>1 DEF CurrentIn
<1>2. CASE hands[w] # NoMsg
  <2>1. \A v \in Worker : hands[v] # NoMsg <=> v = w
    BY <1>2
  <2>2. (CHOOSE v \in Worker : hands[v] # NoMsg) = w
    BY <2>1
  <2> QED
    BY <1>2, <2>2 DEF CurrentIn
<1> QED
  BY <1>1, <1>2

\* Service threads and the game only append to the Network queue.
AppendsOnly ==
  /\ UNCHANGED hand
  /\ \/ UNCHANGED netQueue
     \/ \E m \in NetMessage : netQueue' = Append(netQueue, m)

LEMMA NetworkAppends ==
  ASSUME ConnTypeOK, NEW c \in Conn, NetworkStep(c)
  PROVE  AppendsOnly
<1>1. hand' = hand
  BY DEF NetworkStep, managerVars
<1>2. \/ netQueue' = netQueue
      \/ \E n \in ReportName : Report(c, n)
      \/ Post(Msg("Packet", TypeOf[c], c))
  BY DEF NetworkStep, ServiceStep, ServiceRuns, Completes, RunPostedClose, HandleWriteError,
     HandleResolve, HandleConnect, HandleConnectError, ClearConnected, HandleHeartBeat,
     DoKeepAlive, HandleReadPacket, DoReadPacket, DoClose, ReadPostMessage,
     NotifyDisconnected, StopService, queueVars, ReportName
<1>3. ASSUME NEW n \in ReportName, Report(c, n)
      PROVE  \E m \in NetMessage : netQueue' = Append(netQueue, m)
  <2>1. Msg(n, TypeOf[c], c) \in NetMessage /\ Msg(n, TypeOf[c], c).name \in NetworkName
    BY ConnectionAssumption DEF NetMessage, Msg, NetworkName
  <2>2. netQueue' = Append(netQueue, Msg(n, TypeOf[c], c))
    BY <1>3, <2>1 DEF Report, Post
  <2> QED
    BY <2>1, <2>2
<1>4. CASE Post(Msg("Packet", TypeOf[c], c))
  <2>1. Msg("Packet", TypeOf[c], c).name = "Packet" /\ "Packet" \notin NetworkName
    BY DEF Msg, NetworkName, ReportName, RequestName
  <2>2. netQueue' = netQueue
    BY <1>4, <2>1 DEF Post
  <2> QED
    BY <1>1, <2>2 DEF AppendsOnly
<1> QED
  BY <1>1, <1>2, <1>3, <1>4 DEF AppendsOnly

LEMMA GameAppends ==
  ASSUME GameRequest
  PROVE  AppendsOnly
<1>1. ASSUME NEW m \in NetMessage, Post(m), UNCHANGED hand
      PROVE  AppendsOnly
  <2>1. m.name \in NetworkName
    BY DEF NetMessage
  <2> QED
    BY <1>1, <2>1 DEF Post, AppendsOnly
<1>2. ASSUME NEW d \in Conn, Connect(d)
      PROVE  AppendsOnly
  <2>1. Msg("NetworkServerConnect", TypeOf[d], d) \in NetMessage
    BY ConnectionAssumption DEF NetMessage, Msg, NetworkName, RequestName
  <2> QED
    BY <1>1, <1>2, <2>1 DEF Connect, managerVars
<1>3. ASSUME NEW t \in ServerType, NEW n \in RequestName, Request(t, n)
      PROVE  AppendsOnly
  <2>1. Msg(n, t, NoConn) \in NetMessage
    BY DEF NetMessage, Msg, NetworkName
  <2> QED
    BY <1>1, <1>3, <2>1 DEF Request, managerVars
<1> QED
  BY <1>2, <1>3 DEF GameRequest, Disconnect, SendToServer, RequestName

LEMMA AppendSerial ==
  ASSUME AppendsOnly
  PROVE  Serial!Accept \/ UNCHANGED <<netQueue, Current>>
BY DEF AppendsOnly, Serial!Accept, Current

\* The dispatching worker holds the message that is being handled.
LEMMA CurrentOf ==
  ASSUME Inv, NEW w \in Worker, InUpdate(w)
  PROVE  /\ \A v \in Worker : v # w => hand[v] = NoMsg
         /\ Current = hand[w]
         /\ hand[w] # NoMsg <=> pc[w] \in InHandler
         /\ DOMAIN hand = Worker
<1>1. WorkerAgrees(w) /\ DOMAIN hand = Worker
  BY DEF Inv, Manages, Good
<1>2. ASSUME NEW v \in Worker, v # w
      PROVE  hand[v] = NoMsg
  <2>1. WorkerAgrees(v) /\ pc[v] = "idle"
    BY <1>2 DEF Inv, Manages, OneDispatcher, InUpdate
  <2> QED
    BY <2>1 DEF WorkerAgrees, InHandler
<1>3. Current = hand[w]
  BY <1>2, CurrentInOf DEF Current
<1> QED
  BY <1>1, <1>2, <1>3 DEF WorkerAgrees

\* Taking a message and finishing one, in terms of Current.
LEMMA CurrentAfter ==
  ASSUME Inv, NEW w \in Worker, InUpdate(w), NEW m, hand' = [hand EXCEPT ![w] = m]
  PROVE  Current' = m
<1>1. \A v \in Worker : v # w => hand'[v] = NoMsg
  BY CurrentOf
<1>2. hand'[w] = m
  BY CurrentOf
<1>3. PICK hands : hands = hand'
  OBVIOUS
<1>4. CurrentIn(hands) = m
  BY <1>1, <1>2, <1>3, CurrentInOf
<1> QED
  BY <1>3, <1>4 DEF Current

LEMMA NextSerial ==
  ASSUME Inv, [Next]_vars
  PROVE  [Serial!Next]_<<netQueue, Current>>
<1>a. ASSUME UNCHANGED hand
      PROVE  UNCHANGED Current
  BY <1>a DEF Current
<1>1. ASSUME NEW w \in Worker, TryPop(w)
      PROVE  Serial!Take
  <2>1. pc[w] = "pop" /\ InUpdate(w)
    BY <1>1 DEF TryPop, WorkerGoto, InUpdate
  <2>2. Current = NoMsg
    BY <2>1, CurrentOf DEF InHandler
  <2>3. Current' = Head(netQueue)
    BY <1>1, <2>1, CurrentAfter DEF TryPop
  <2> QED
    BY <1>1, <2>2, <2>3 DEF TryPop, Serial!Take
<1>2. ASSUME NEW w \in Worker, BeginUpdate(w) \/ TryPopEmpty(w) \/ EndUpdate(w)
      PROVE  UNCHANGED <<netQueue, Current>>
  BY <1>2, <1>a DEF BeginUpdate, TryPopEmpty, EndUpdate, queueVars
<1>3. ASSUME NEW w \in Worker, HandlerStep(w)
      PROVE  Serial!Finish \/ UNCHANGED <<netQueue, Current>>
  <2>1. netQueue' = netQueue
    BY <1>3, HandlerKeepsQueue DEF Inv
  <2>2. CASE UNCHANGED hand
    BY <2>1, <2>2, <1>a
  <2>3. CASE Done(w)
    <3>1. pc[w] \in InHandler /\ InUpdate(w)
      BY <1>3, HandlerPlaces DEF InHandler, InUpdate
    <3>2. Current # NoMsg
      BY <3>1, CurrentOf
    <3>3. Current' = NoMsg
      BY <2>3, <3>1, CurrentAfter DEF Done
    <3> QED
      BY <2>1, <3>2, <3>3 DEF Serial!Finish
  <2> QED
    BY <1>3, <2>2, <2>3, HandlerHands
<1>4. ASSUME NEW c \in Conn, NetworkStep(c)
      PROVE  Serial!Accept \/ UNCHANGED <<netQueue, Current>>
  BY <1>4, NetworkAppends, AppendSerial DEF Inv, TypeOK
<1>5. CASE GameRequest
  BY <1>5, GameAppends, AppendSerial DEF Serial!Next
<1>6. CASE GameTakes \/ UNCHANGED vars
  BY <1>6, <1>a DEF GameTakes, managerVars, vars, queueVars
<1> QED
  BY <1>1, <1>2, <1>3, <1>4, <1>5, <1>6, NextParts DEF DispatchStep, Serial!Next

LEMMA InitSerial == Init => Serial!Init
<1> SUFFICES ASSUME Init
             PROVE  Serial!Init
  OBVIOUS
<1>1. \A w \in Worker : hand[w] = NoMsg
  BY DEF Init
<1>2. Current = NoMsg
  BY <1>1 DEF Current, CurrentIn
<1> QED
  BY <1>2 DEF Init, QueueInit, Serial!Init

(***************************************************************************)
(* Whatever the workers, the connections and the game do, the Network      *)
(* queue under update() is a serial dispatcher: every step of the system   *)
(* is a step of SerialDispatch or leaves its variables alone.              *)
(***************************************************************************)
THEOREM ImplementsSerialDispatch == Spec => SerialSpec
<1>1. Inv /\ [Next]_vars => [Serial!Next]_<<netQueue, Current>>
  BY NextSerial
<1> QED
  BY <1>1, InitSerial, ManagerInvariant, PTL DEF Spec, Steps, SerialSpec, Serial!Spec
-----------------------------------------------------------------------------
(* The notice of a connection that ended by itself.                        *)

\* What a handler does to a connection is an operation of its owner.
LEMMA HandlerOwnerOp ==
  ASSUME Inv, NEW w \in Worker, HandlerStep(w)
  PROVE  UNCHANGED connVars \/ \E c \in Conn : OwnerOp(c)
<1>a. pc[w] \in InHandler /\ WorkerAgrees(w)
  BY HandlerPlaces DEF Inv, Manages
<1>b. Slot(w) # NoConn => Slot(w) \in Conn
  BY <1>a, HandTypes DEF Inv
<1>c. pc[w] \in {"close", "destroy", "construct"} => busy[w] \in Conn
  BY <1>a DEF WorkerAgrees, Inv, TypeOK
<1>d. hand[w].name = "NetworkServerConnect" => hand[w].conn \in Conn
  BY <1>a, HandTypes DEF GoodMessage, Inv
<1>1. CASE ConnectToServer(w)
  BY <1>1, <1>b, <1>d DEF ConnectToServer, Handling, ResetSlot, NewConnection, OwnerOp
<1>2. CASE EndConnect(w)
  BY <1>2, <1>c DEF EndConnect, OwnerOp
<1>3. CASE DisconnectFrom(w) \/ SendPacket(w)
  BY <1>3, <1>b DEF DisconnectFrom, SendPacket, OwnerOp
<1>4. CASE CloseReturned(w) \/ Destroy(w)
  BY <1>4, <1>c DEF CloseReturned, Destroy, OwnerOp
<1>5. CASE EndDisconnect(w)
  <2>1. Slot(w) = busy[w]
    BY <1>5, <1>a DEF EndDisconnect, WorkerAgrees
  <2> QED
    BY <1>5, <1>c, <2>1 DEF EndDisconnect, ResetSlot, OwnerOp
<1>6. CASE AfterDestroy(w)
  BY <1>6, <1>d DEF AfterDestroy, NewConnection, OwnerOp
<1>7. CASE ServerDisconnected(w) \/ ServerConnected(w)
  BY <1>7, <1>b DEF ServerDisconnected, ServerConnected, ResetSlot, OwnerOp
<1> QED
  BY <1>1, <1>2, <1>3, <1>4, <1>5, <1>6, <1>7 DEF HandlerStep

\* So the invariant of a single connection holds under RoNetworkManager.
LEMMA NextAgree == Inv /\ Agree /\ [Next]_vars => Agree'
<1> SUFFICES ASSUME Inv, Agree, [Next]_vars
             PROVE  Agree'
  OBVIOUS
<1>a. ConnTypeOK
  BY DEF Inv, TypeOK
<1>b. ASSUME UNCHANGED connVars
      PROVE  Agree'
  BY <1>b DEF connVars, flagVars, historyVars, Agree, Agrees, ReportAgrees, ConnectedAgrees,
              OwnerAgrees, EndAgrees
<1>1. ASSUME NEW w \in Worker, HandlerStep(w)
      PROVE  Agree'
  BY <1>1, <1>a, <1>b, HandlerOwnerOp, OwnerOpAgrees
<1>2. ASSUME NEW c \in Conn, NetworkStep(c)
      PROVE  Agree'
  BY <1>2, <1>a, ServiceStepAgrees DEF NetworkStep
<1>3. ASSUME NEW w \in Worker, DispatchStep(w)
      PROVE  UNCHANGED connVars
  BY <1>3 DEF DispatchStep, BeginUpdate, TryPop, TryPopEmpty, EndUpdate
<1>4. GameRequest \/ GameTakes \/ UNCHANGED vars => UNCHANGED connVars
  BY DEF GameRequest, Connect, Disconnect, SendToServer, Request, GameTakes, vars
<1> QED
  BY <1>b, <1>1, <1>2, <1>3, <1>4, NextParts

\* An owner's operation reports nothing and brings nothing back to life.
LEMMA OwnerOpKeeps ==
  ASSUME ConnTypeOK, Agree, NEW d \in Conn, OwnerOp(d), NEW c \in Conn, Alive(c)', EndReported(c)'
  PROVE  Alive(c) /\ EndReported(c)
<1>1. reported' = reported
  BY DEF OwnerOp, Construct, EnablePosting, Send, Close, CallClose, CloseReturn, BeginDestroy,
         DestroyClose, DestroyReturn, historyVars
<1>2. EndReported(c)
  BY <1>1 DEF EndReported
<1>3. owner[c] # "none"
  <2>1. owner[c] = "none" => reported[c] = <<>>
    BY DEF Agree, Agrees, OwnerAgrees, ReportAgrees
  <2> QED
    BY <1>2, <2>1 DEF EndReported
<1>4. Alive(c)
  BY <1>3 DEF Alive, OwnerOp, Construct, EnablePosting, Send, Close, CallClose, CloseReturn,
       BeginDestroy, DestroyClose, DestroyReturn, ConnTypeOK
<1> QED
  BY <1>2, <1>4

\* While a notice is being handled, its connection is in the slot it names.
LEMMA NoticeFindsSlot ==
  ASSUME Inv, NEW c \in Conn, Alive(c), NEW w \in Worker, pc[w] = "handle", hand[w] = Notice(c)
  PROVE  Slot(w) = c
<1>1. OwnedAgrees(c) /\ hand[w].type = TypeOf[c]
  BY DEF Inv, Manages, Notice, Msg
<1>2. owner[c] # "constructing"
  <2>1. \A v \in Worker : pc[v] # "construct"
    BY Alone DEF Inv
  <2> QED
    BY <1>1, <2>1 DEF OwnedAgrees
<1> QED
  BY <1>1, <1>2 DEF OwnedAgrees, Alive, Slot

LEMMA InQueueAfterAppend ==
  ASSUME netQueue \in Seq(NetMessage), NEW n \in NetMessage, netQueue' = Append(netQueue, n),
         NEW m, InQueue(m) \/ m = n
  PROVE  InQueue(m)'
<1>1. /\ Len(netQueue') = Len(netQueue) + 1 /\ netQueue'[Len(netQueue) + 1] = n
      /\ \A i \in 1..Len(netQueue) : netQueue'[i] = netQueue[i]
      /\ Len(netQueue) \in Nat
  BY AppendProperties, LenProperties
<1>2. CASE InQueue(m)
  <2>1. PICK i \in 1..Len(netQueue) : netQueue[i] = m
    BY <1>2 DEF InQueue
  <2>2. i \in 1..Len(netQueue') /\ netQueue'[i] = m
    BY <1>1, <2>1
  <2> QED
    BY <2>2 DEF InQueue
<1>3. CASE m = n
  <2>1. Len(netQueue) + 1 \in 1..Len(netQueue') /\ netQueue'[Len(netQueue) + 1] = m
    BY <1>1, <1>3
  <2> QED
    BY <2>1 DEF InQueue
<1> QED
  BY <1>2, <1>3

\* An event other than a disconnection does not report an end.
LEMMA EndReportedAfterAppend ==
  ASSUME NEW c \in Conn, NEW n \in ReportName, n # "NetworkServerDisconnected",
         ConnTypeOK, NEW d \in Conn, reported' = [reported EXCEPT ![d] = Append(@, n)],
         EndReported(c)'
  PROVE  EndReported(c)
<1>1. CASE c # d
  BY <1>1 DEF EndReported, ConnTypeOK
<1>2. CASE c = d
  <2>1. reported'[c] = Append(reported[c], n) /\ reported[c] \in Seq(ReportName)
    BY <1>2 DEF ConnTypeOK
  <2>2. /\ Len(reported'[c]) = Len(reported[c]) + 1
        /\ reported'[c][Len(reported[c]) + 1] = n
        /\ \A i \in 1..Len(reported[c]) : reported'[c][i] = reported[c][i]
        /\ Len(reported[c]) \in Nat
    BY <2>1, AppendProperties, LenProperties
  <2>3. PICK i \in 1..Len(reported'[c]) : reported'[c][i] = "NetworkServerDisconnected"
    BY DEF EndReported
  <2>4. i \in 1..Len(reported[c])
    BY <2>2, <2>3
  <2> QED
    BY <2>2, <2>3, <2>4 DEF EndReported
<1> QED
  BY <1>1, <1>2

LEMMA NetworkNotices ==
  ASSUME Inv, Notices, NEW d \in Conn, NetworkStep(d)
  PROVE  Notices'
<1> SUFFICES ASSUME NEW c \in Conn, EndReported(c)', Alive(c)'
             PROVE  InQueue(Notice(c))' \/ InHands(Notice(c))'
  BY DEF Notices, NoticeComes, Notice, InQueue, InHands
<1>a. netQueue \in Seq(NetMessage) /\ ConnTypeOK
  BY DEF Inv, TypeOK, QueueTypeOK
<1>b. UNCHANGED managerVars /\ owner' = owner
  BY DEF NetworkStep, ServiceStep, ServiceRuns, Completes, RunPostedClose, HandleWriteError,
     HandleResolve, HandleConnect, HandleConnectError, ClearConnected, HandleHeartBeat,
     DoKeepAlive, HandleReadPacket, DoReadPacket, DoClose, ReadPostMessage,
     NotifyDisconnected, StopService
<1>c. Alive(c)
  BY <1>b DEF Alive
<1>d. Notice(c) \in NetMessage
  BY ConnectionAssumption DEF Notice, Msg, NetMessage, NetworkName, ReportName
<1>1. ASSUME EndReported(c)
      PROVE  InQueue(Notice(c))' \/ InHands(Notice(c))'
  <2>1. InQueue(Notice(c)) \/ InHands(Notice(c))
    BY <1>1, <1>c DEF Notices, NoticeComes
  <2>2. CASE InHands(Notice(c))
    BY <1>b, <2>2 DEF InHands, managerVars, Notice
  <2>3. CASE InQueue(Notice(c))
    <3>1. AppendsOnly
      BY <1>a, NetworkAppends
    <3>2. CASE UNCHANGED netQueue
      BY <2>3, <3>2 DEF InQueue, Notice
    <3>3. ASSUME NEW n \in NetMessage, netQueue' = Append(netQueue, n)
          PROVE  InQueue(Notice(c))'
      <4>1. \E i \in 1..Len(netQueue') : netQueue'[i] = Notice(c)
        BY <1>a, <2>3, <3>3, InQueueAfterAppend DEF InQueue
      <4> QED
        BY <4>1 DEF InQueue, Notice
    <3> QED
      BY <3>1, <3>2, <3>3 DEF AppendsOnly
  <2> QED
    BY <2>1, <2>2, <2>3
<1>2. CASE ~EndReported(c)
  <2>1. \/ reported' = reported
        \/ \E n \in ReportName : Report(d, n)
    BY DEF NetworkStep, ServiceStep, ServiceRuns, Completes, RunPostedClose, HandleWriteError,
       HandleResolve, HandleConnect, HandleConnectError, ClearConnected, HandleHeartBeat,
       DoKeepAlive, HandleReadPacket, DoReadPacket, DoClose, ReadPostMessage,
       NotifyDisconnected, StopService, historyVars, ReportName
  <2>2. PICK n \in ReportName : Report(d, n)
    BY <1>2, <2>1 DEF EndReported
  <2>3. reported' = [reported EXCEPT ![d] = Append(@, n)]
    BY <2>2 DEF Report
  <2>4. n = "NetworkServerDisconnected"
    BY <1>2, <1>a, <2>3, EndReportedAfterAppend
  <2>5. c = d
    BY <1>2, <1>a, <2>3 DEF EndReported, ConnTypeOK
  <2>6. netQueue' = Append(netQueue, Notice(c))
    BY <1>d, <2>2, <2>4, <2>5 DEF Report, Post, Notice, NetMessage
  <2>7. \E i \in 1..Len(netQueue') : netQueue'[i] = Notice(c)
    BY <1>a, <1>d, <2>6, InQueueAfterAppend DEF InQueue
  <2> QED
    BY <2>7 DEF InQueue, Notice
<1> QED
  BY <1>1, <1>2

LEMMA HandlerNotices ==
  ASSUME Inv, Agree, Notices, NEW w \in Worker, HandlerStep(w)
  PROVE  Notices'
<1> SUFFICES ASSUME NEW c \in Conn, EndReported(c)', Alive(c)'
             PROVE  InQueue(Notice(c))' \/ InHands(Notice(c))'
  BY DEF Notices, NoticeComes, Notice, InQueue, InHands
<1>a. netQueue' = netQueue
  BY HandlerKeepsQueue DEF Inv
<1>b. Alive(c) /\ EndReported(c)
  <2>1. CASE UNCHANGED connVars
    BY <2>1 DEF connVars, historyVars, Alive, EndReported
  <2>2. ASSUME NEW d \in Conn, OwnerOp(d)
        PROVE  Alive(c) /\ EndReported(c)
    BY <2>2, OwnerOpKeeps DEF Inv, TypeOK
  <2> QED
    BY <2>1, <2>2, HandlerOwnerOp
<1>1. CASE InQueue(Notice(c))
  BY <1>1, <1>a DEF InQueue, Notice
<1>2. ASSUME NEW v \in Worker, pc[v] = "handle", hand[v] = Notice(c)
      PROVE  FALSE
  <2>1. v = w
    BY <1>2, HandlerPlaces DEF Inv, OneDispatcher, InUpdate, InHandler
  <2>2. pc[w] = "handle" /\ hand[w].name = "NetworkServerDisconnected"
    BY <1>2, <2>1 DEF Notice, Msg
  <2>3. ServerDisconnected(w)
    BY <2>2 DEF HandlerStep, ConnectToServer, EndConnect, DisconnectFrom, CloseReturned,
       EndDisconnect, Destroy, AfterDestroy, ServerConnected, SendPacket, Handling
  <2>4. Slot(w) = c
    BY <1>b, <1>2, <2>1, NoticeFindsSlot
  <2>5. BeginDestroy(c)
    BY <2>3, <2>4, NoConnAssumption DEF ServerDisconnected, ResetSlot
  <2> QED
    BY <2>5 DEF BeginDestroy, Alive, Inv, TypeOK, ConnTypeOK
<1> QED
  BY <1>1, <1>2, <1>b DEF Notices, NoticeComes, InHands

LEMMA DispatchNotices ==
  ASSUME Inv, Notices, NEW w \in Worker, DispatchStep(w)
  PROVE  Notices'
<1> SUFFICES ASSUME NEW c \in Conn, EndReported(c)', Alive(c)'
             PROVE  InQueue(Notice(c))' \/ InHands(Notice(c))'
  BY DEF Notices, NoticeComes, Notice, InQueue, InHands
<1>a. Alive(c) /\ EndReported(c)
  BY DEF DispatchStep, BeginUpdate, TryPop, TryPopEmpty, EndUpdate, connVars, historyVars,
         Alive, EndReported
<1>b. InQueue(Notice(c)) \/ InHands(Notice(c))
  BY <1>a DEF Notices, NoticeComes
<1>c. pc[w] # "handle" /\ pc \in [Worker -> WorkerPC] /\ DOMAIN hand = Worker
  BY DEF DispatchStep, BeginUpdate, TryPop, TryPopEmpty, EndUpdate, WorkerGoto, Inv, TypeOK
<1>1. ASSUME NEW v \in Worker, pc[v] = "handle", hand[v] = Notice(c)
      PROVE  InHands(Notice(c))'
  <2>1. pc'[v] = "handle" /\ hand'[v] = Notice(c)
    BY <1>1, <1>c DEF DispatchStep, BeginUpdate, TryPop, TryPopEmpty, EndUpdate, WorkerGoto
  <2> QED
    BY <2>1 DEF InHands, Notice
<1>2. CASE InQueue(Notice(c)) /\ ~TryPop(w)
  BY <1>2 DEF DispatchStep, BeginUpdate, TryPopEmpty, EndUpdate, queueVars, InQueue, Notice
<1>3. CASE InQueue(Notice(c)) /\ TryPop(w)
  <2>1. PICK i \in 1..Len(netQueue) : netQueue[i] = Notice(c)
    BY <1>3 DEF InQueue
  <2>2. netQueue \in Seq(NetMessage) /\ netQueue # <<>> /\ netQueue' = Tail(netQueue)
    BY <1>3 DEF TryPop, Inv, TypeOK, QueueTypeOK
  <2>3. CASE i = 1
    <3>1. hand'[w] = Notice(c) /\ pc'[w] = "handle"
      BY <1>3, <1>c, <2>1, <2>2, <2>3, HeadTailProperties DEF TryPop, WorkerGoto
    <3> QED
      BY <3>1 DEF InHands, Notice
  <2>4. CASE i # 1
    <3>1. i - 1 \in 1..Len(netQueue') /\ netQueue'[i - 1] = Notice(c)
      BY <2>1, <2>2, <2>4, HeadTailProperties
    <3> QED
      BY <3>1 DEF InQueue, Notice
  <2> QED
    BY <2>3, <2>4
<1> QED
  BY <1>b, <1>1, <1>2, <1>3 DEF InHands

LEMMA NextNotices == Inv /\ Agree /\ Notices /\ [Next]_vars => Notices'
<1> SUFFICES ASSUME Inv, Agree, Notices, [Next]_vars
             PROVE  Notices'
  OBVIOUS
<1>1. CASE GameRequest
  <2>1. UNCHANGED <<connVars, managerVars>> /\ AppendsOnly
    BY <1>1, GameAppends DEF GameRequest, Connect, Disconnect, SendToServer, Request
  <2>2. netQueue \in Seq(NetMessage)
    BY DEF Inv, TypeOK, QueueTypeOK
  <2>3. ASSUME NEW m, InQueue(m)
        PROVE  \E i \in 1..Len(netQueue') : netQueue'[i] = m
    BY <2>1, <2>2, <2>3, InQueueAfterAppend DEF AppendsOnly, InQueue
  <2>4. \A c \in Conn : InQueue(Notice(c)) => InQueue(Notice(c))'
    BY <2>3 DEF InQueue, Notice
  <2> QED
    BY <2>1, <2>4 DEF connVars, historyVars, managerVars, Notices, NoticeComes, EndReported,
       Alive, InHands, Notice
<1>2. CASE GameTakes \/ UNCHANGED vars
  BY <1>2 DEF GameTakes, vars, queueVars, connVars, historyVars, managerVars, Notices,
     NoticeComes, EndReported, Alive, InHands, InQueue, Notice
<1> QED
  BY <1>1, <1>2, NetworkNotices, HandlerNotices, DispatchNotices, NextParts

LEMMA NoticeInvariant == Steps => [](Inv /\ Agree /\ Notices)
<1>1. Init => Agree /\ Notices
  BY InitAgrees DEF Init, ConnInit, Notices, NoticeComes, EndReported
<1> QED
  BY <1>1, InitInv, NextInv, NextAgree, NextNotices, PTL DEF Steps

LEMMA InvConnections == Inv /\ Agree => OneOutcome /\ NoHandlerAfterDestroy
<1>1. Agree => OneOutcome
  BY DEF Agree, Agrees, OneOutcome
<1>2. ASSUME Inv, Agree, NEW c \in Conn, owner[c] = "destroyed"
      PROVE  service[c] \in DyingTail /\ ~mConnected[c]
  <2>1. Agrees(c) /\ service[c] \in ServicePC
    BY <1>2 DEF Agree, Inv, TypeOK, ConnTypeOK
  <2> QED
    BY <1>2, <2>1 DEF Agrees, ConnectedAgrees, OwnerAgrees, ServicePC, Waiting, DyingTail
<1> QED
  BY <1>1, <1>2 DEF NoHandlerAfterDestroy

(***************************************************************************)
(* What a connection promises its owner, it promises RoNetworkManager,     *)
(* however many connections and workers there are: one outcome for each,   *)
(* and no handler left to run after the destructor.                        *)
(***************************************************************************)
THEOREM ConnectionsUnderManager == Spec => [](OneOutcome /\ NoHandlerAfterDestroy)
BY InvConnections, NoticeInvariant, SpecSteps, PTL

LEMMA InvDeadSlotHasNotice == Inv /\ Notices => DeadSlotHasNotice
<1> SUFFICES ASSUME Inv, Notices, NEW c \in Conn, mConnections[TypeOf[c]] = c, EndReported(c)
             PROVE  InQueue(Notice(c)) \/ InHands(Notice(c))
  BY DEF DeadSlotHasNotice, Notice, InHands
<1>1. SlotAgrees(TypeOf[c])
  BY ConnectionAssumption DEF Inv, Manages
<1>2. Alive(c)
  BY <1>1, NoConnAssumption DEF SlotAgrees, Alive
<1> QED
  BY <1>2 DEF Notices, NoticeComes

(***************************************************************************)
(* A connection that ended by itself never sits in its slot forgotten: the *)
(* notice that makes serverDisconnected clear the slot is still to come.   *)
(***************************************************************************)
THEOREM DeadSlotHasNoticeHolds == Spec => []DeadSlotHasNotice
BY InvDeadSlotHasNotice, NoticeInvariant, SpecSteps, PTL

=============================================================================
