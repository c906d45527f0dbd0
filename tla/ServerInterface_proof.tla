----------------------- MODULE ServerInterface_proof -----------------------
(***************************************************************************)
(* Proofs about RoServerInterface over RoNetworkManager.  The interface is *)
(* one of the games NetworkManager allows, so all that is proved of the    *)
(* manager and of its connections holds under it.  The two facts are       *)
(* proved together: a step of the interface is a step of a game because    *)
(* the queues are well typed, and they stay so because it is such a step.  *)
(* The last part follows the answer to a connect() through the queues and  *)
(* hands it passes, down to the callback it belongs to.                    *)
(***************************************************************************)
EXTENDS ServerInterface, NetworkManager_proof, Selection_proof

\* The types of the interface's own state.
OwnTypes ==
  /\ mConnectionStatus \in [ServerType -> Status]
  /\ mConnectCallback \in [ServerType -> Conn \union {NoConn}]
  /\ prompt \in [ServerType -> {"idle", "callback", "post", "load", "exchange"}]
  /\ seen \in [ServerType -> Status]
  /\ main \in {"idle", "status", "callback", "ended"}
  /\ event \in DefMessage \union {NoMsg}
  /\ disconnects \in 0..MaxDisconnects
  /\ taken \in [Conn -> Seq(EventName)]
  /\ answers \in [Conn -> Seq(DefMessage)]

\* Inside a handler the main thread has an event in its hands.
HoldsEvent == main \in {"status", "callback"} => event \in DefMessage

\* connect() has stored its callback before it posts the request.
HoldsCallback == \A t \in ServerType : prompt[t] = "post" => mConnectCallback[t] \in Conn

InterfaceInv == Inv /\ OwnTypes /\ HoldsEvent /\ HoldsCallback

LEMMA DefTypes ==
  ASSUME Inv, defQueue # <<>>
  PROVE  Head(defQueue) \in DefMessage
BY HeadTailProperties DEF Inv, TypeOK, QueueTypeOK

\* A request of the interface is one a game of NetworkManager may make.
LEMMA RequestIsGame ==
  ASSUME NEW t \in ServerType, Disconnect(t) \/ SendToServer(t)
  PROVE  Next
<1>1. GameStep
  BY DEF GameStep
<1> QED
  BY <1>1 DEF Next

LEMMA ConnectIsGame ==
  ASSUME NEW t \in ServerType, InterfaceInv, PostConnect(t)
  PROVE  Next
<1>1. Connect(mConnectCallback[t]) /\ mConnectCallback[t] \in Conn
  BY DEF InterfaceInv, HoldsCallback, PostConnect, PromptGoto
<1>2. GameStep
  BY <1>1 DEF GameStep
<1> QED
  BY <1>2 DEF Next

LEMMA StepIsGame ==
  ASSUME InterfaceInv, [InterfaceNext]_allVars
  PROVE  [Next]_vars
<1>1. ASSUME NEW w \in Worker, ManagerStep(w)
      PROVE  Next
  BY <1>1 DEF ManagerStep, Next
<1>2. ASSUME NEW c \in Conn, NetworkStep(c)
      PROVE  Next
  BY <1>2 DEF Next
<1>3. ASSUME NEW t \in ServerType, BeginConnect(t) \/ GameDisconnect(t)
      PROVE  [Next]_vars
  <2>1. Disconnect(t) \/ UNCHANGED vars
    BY <1>3 DEF BeginConnect, GameDisconnect
  <2> QED
    BY <2>1, RequestIsGame
<1>4. ASSUME NEW t \in ServerType, ConnectCall(t)
      PROVE  [Next]_vars
  BY <1>4, ConnectIsGame DEF ConnectCall, StoreCallback, LoadStatus, EndConnectCall
<1>5. CASE TakeMessage
  <2>1. GameStep
    BY <1>5 DEF TakeMessage, GameStep
  <2> QED
    BY <2>1 DEF Next
<1>6. CASE CallBack
  <2>1. SendToServer(event.type) \/ UNCHANGED vars
    BY <1>6 DEF CallBack
  <2>2. event.type \in ServerType
    BY <1>6 DEF InterfaceInv, HoldsEvent, CallBack, DefMessage
  <2> QED
    BY <2>1, <2>2, RequestIsGame
<1>7. CASE OnConnectionSuccess \/ OnConnectionFailed \/ OnDisconnect \/ UNCHANGED allVars
  BY <1>7 DEF OnConnectionSuccess, OnConnectionFailed, OnDisconnect, allVars
<1> QED
  BY <1>1, <1>2, <1>3, <1>4, <1>5, <1>6, <1>7 DEF InterfaceNext, MainRuns

-----------------------------------------------------------------------------
LEMMA PromptTypes ==
  ASSUME InterfaceInv, NEW t \in ServerType,
         BeginConnect(t) \/ ConnectCall(t) \/ GameDisconnect(t)
  PROVE  OwnTypes' /\ HoldsEvent' /\ HoldsCallback'
<1> USE DEF InterfaceInv, OwnTypes, HoldsEvent, HoldsCallback, Status, answerVars,
        mainVars, PromptGoto
<1>1. CASE BeginConnect(t)
  BY <1>1 DEF BeginConnect
<1>2. CASE StoreCallback(t)
  BY <1>2 DEF StoreCallback
<1>3. CASE PostConnect(t)
  BY <1>3 DEF PostConnect
<1>4. CASE LoadStatus(t)
  BY <1>4 DEF LoadStatus
<1>5. CASE EndConnectCall(t)
  BY <1>5 DEF EndConnectCall, ChangeStatus
<1>6. CASE GameDisconnect(t)
  BY <1>6, InterfaceAssumption DEF GameDisconnect, connectVars
<1> QED
  BY <1>1, <1>2, <1>3, <1>4, <1>5, <1>6 DEF ConnectCall

LEMMA AppendTypes ==
  ASSUME NEW S, NEW f \in [Conn -> Seq(S)], NEW c, NEW e \in S
  PROVE  [f EXCEPT ![c] = Append(@, e)] \in [Conn -> Seq(S)]
<1>1. CASE c \in Conn
  <2>1. Append(f[c], e) \in Seq(S)
    BY <1>1, AppendProperties
  <2> QED
    BY <2>1
<1>2. CASE c \notin Conn
  BY <1>2
<1> QED
  BY <1>1, <1>2

LEMMA MainTypes ==
  ASSUME InterfaceInv, MainRuns
  PROVE  OwnTypes' /\ HoldsEvent' /\ HoldsCallback'
<1>a. main \in {"status", "callback"} => event \in DefMessage /\ event.type \in ServerType
  BY DEF InterfaceInv, HoldsEvent, DefMessage
<1>1. CASE TakeMessage
  <2>1. Head(defQueue) \in DefMessage
    BY <1>1, DefTypes DEF TakeMessage, InterfaceInv
  <2>2. CASE UNCHANGED <<main, event, taken>>
    BY <1>1, <2>2 DEF InterfaceInv, OwnTypes, HoldsEvent, HoldsCallback, TakeMessage,
       connectVars
  <2>3. CASE /\ main' = "status" /\ event' = Head(defQueue)
             /\ Head(defQueue).name \in EventName
             /\ taken' = [taken EXCEPT ![Head(defQueue).conn] = Append(@, Head(defQueue).name)]
    <3>1. taken' \in [Conn -> Seq(EventName)]
      BY <2>3, AppendTypes DEF InterfaceInv, OwnTypes
    <3> QED
      BY <1>1, <2>1, <2>3, <3>1 DEF InterfaceInv, OwnTypes, HoldsEvent, HoldsCallback,
         TakeMessage, connectVars
  <2> QED
    BY <1>1, <2>2, <2>3 DEF TakeMessage
<1>2. CASE OnConnectionSuccess \/ OnConnectionFailed \/ OnDisconnect
  BY <1>2, <1>a DEF OnConnectionSuccess, OnConnectionFailed, OnDisconnect, Handles, Return,
     ChangeStatus, InterfaceInv, OwnTypes, HoldsEvent, HoldsCallback, Status,
     connectVars, answerVars
<1>3. CASE CallBack
  <2>1. answers' \in [Conn -> Seq(DefMessage)]
    BY <1>3, <1>a, AppendTypes DEF CallBack, InterfaceInv, OwnTypes
  <2> QED
    BY <1>3, <1>a, <2>1 DEF CallBack, Return, InterfaceInv, OwnTypes, HoldsEvent,
       HoldsCallback, connectVars
<1> QED
  BY <1>1, <1>2, <1>3 DEF MainRuns

LEMMA NextInterfaceInv ==
  ASSUME InterfaceInv, [InterfaceNext]_allVars
  PROVE  InterfaceInv'
<1>1. Inv'
  BY StepIsGame, NextInv DEF InterfaceInv
<1>2. OwnTypes' /\ HoldsEvent' /\ HoldsCallback'
  <2>1. CASE UNCHANGED interfaceVars
    BY <2>1 DEF InterfaceInv, OwnTypes, HoldsEvent, HoldsCallback, interfaceVars,
       connectVars, mainVars, answerVars
  <2> QED
    BY <2>1, PromptTypes, MainTypes DEF InterfaceNext, ManagerStep, allVars
<1> QED
  BY <1>1, <1>2 DEF InterfaceInv

LEMMA InterfaceInvariant == InterfaceSpec => []InterfaceInv
<1>1. InterfaceInit => InterfaceInv
  BY InitInv, InterfaceAssumption DEF InterfaceInit, InterfaceInv, OwnTypes, HoldsEvent,
     HoldsCallback, Status
<1> QED
  BY <1>1, NextInterfaceInv, PTL DEF InterfaceSpec

(***************************************************************************)
(* The state of the interface stays well typed: the handlers find in the   *)
(* Default queue only events of the manager, and a prompt posts only the   *)
(* request whose callback it has stored.                                   *)
(***************************************************************************)
THEOREM InterfaceTypes == InterfaceSpec => []InterfaceTypeOK
<1>1. InterfaceInv => InterfaceTypeOK
  BY InvTypeOK DEF InterfaceInv, OwnTypes, InterfaceTypeOK
<1> QED
  BY <1>1, InterfaceInvariant, PTL

(***************************************************************************)
(* The prompts and the main thread, as RoServerInterface runs them, do to  *)
(* the network what some game of NetworkManager does, step by step.        *)
(***************************************************************************)
THEOREM ImplementsManager == InterfaceSpec => Steps
<1>1. InterfaceInit => Init
  BY DEF InterfaceInit
<1> QED
  BY <1>1, InterfaceInvariant, StepIsGame, PTL DEF InterfaceSpec, Steps

(***************************************************************************)
(* So what is proved of the manager and its connections for every game     *)
(* holds under the interface.                                              *)
(***************************************************************************)
THEOREM ManagerUnderInterface ==
  InterfaceSpec => [](/\ OneDispatcher /\ OnePerServer /\ NoLeakNoDangling
                      /\ DeadSlotHasNotice /\ OneOutcome /\ NoHandlerAfterDestroy)
BY ImplementsManager, NoticeInvariant, InvOneDispatcher, InvOnePerServer, InvNoLeakNoDangling,
   InvDeadSlotHasNotice, InvConnections, PTL

-----------------------------------------------------------------------------
(* The answer to a connect().                                              *)

AnswerName == {"NetworkServerConnected", "NetworkServerConnectFailed"}
CallbackName == {"ServerConnected", "ServerConnectionFailed"}

\* What handleConnect posts about c, and what serverConnected and
\* serverConnectionFailed make of it.
Reports(c) == {Msg(n, TypeOf[c], c) : n \in AnswerName}
Answers(c) == {Msg(n, TypeOf[c], c) : n \in CallbackName}

\* An answer names its connection, and only what the game asked for is built.
SoundReport ==
  {m \in NetMessage :
     /\ m.name \in AnswerName => m.conn \in Conn /\ m.type = TypeOf[m.conn]
     /\ m.name = "NetworkServerConnect" => m.conn \in wanted}

SoundEvent ==
  {m \in DefMessage : m.name \in CallbackName => m.conn \in Conn /\ m.type = TypeOf[m.conn]}

NetSound ==
  /\ netQueue \in Seq(SoundReport) /\ hand \in [Worker -> SoundReport \union {NoMsg}]
  /\ defQueue \in Seq(SoundEvent)
  /\ \A c \in Conn : owner[c] # "none" => c \in wanted

MainSound ==
  /\ main \in {"status", "callback"} => event \in SoundEvent
  /\ main = "callback" => event.name \in CallbackName

\* The places the answer about c goes through, one after the other.
InNet(c) == \E i \in 1..Len(netQueue) : netQueue[i] \in Reports(c)
InWork(c) == \E w \in Worker : pc[w] = "handle" /\ hand[w] \in Reports(c)
InDef(c) == \E i \in 1..Len(defQueue) : defQueue[i] \in Answers(c)
InMain(c) == main \in {"status", "callback"} /\ event \in Answers(c)
Answered(c) == answers[c] # <<>>

OnceInNet(c) ==
  \A i, j \in 1..Len(netQueue) : netQueue[i] \in Reports(c) /\ netQueue[j] \in Reports(c) => i = j

OnceInDef(c) ==
  \A i, j \in 1..Len(defQueue) : defQueue[i] \in Answers(c) /\ defQueue[j] \in Answers(c) => i = j

\* It is in one of them, once, and only when handleConnect has spoken.
OnePlace(c) ==
  /\ OnceInNet(c) /\ OnceInDef(c)
  /\ InNet(c) => ~InWork(c) /\ ~InDef(c) /\ ~InMain(c) /\ ~Answered(c)
  /\ InWork(c) => ~InDef(c) /\ ~InMain(c) /\ ~Answered(c)
  /\ InDef(c) => ~InMain(c) /\ ~Answered(c)
  /\ InMain(c) => ~Answered(c)
  /\ InNet(c) \/ InWork(c) \/ InDef(c) \/ InMain(c) \/ Answered(c) => Answerable(c)

\* mConnectCallback is the callback of every connection still to be answered.
CallbackKept ==
  /\ \A t \in ServerType : mConnectCallback[t] # NoConn => TypeOf[mConnectCallback[t]] = t
  /\ \A t \in ServerType : prompt[t] = "callback" => NoAnswerDue(t)
  /\ \A c \in wanted : mConnectCallback[TypeOf[c]] = c \/ Answered(c)

AnswerInv ==
  /\ NetSound /\ MainSound
  /\ \A c \in Conn : OnePlace(c)
  /\ CallbackKept
  /\ AnsweredOnce

-----------------------------------------------------------------------------
(* What the queues hold.                                                   *)

LEMMA SoundGrows ==
  ASSUME wanted \subseteq wanted'
  PROVE  /\ SoundReport \subseteq SoundReport'
         /\ \A q : q \in Seq(SoundReport) => q \in Seq(SoundReport')
<1>1. SoundReport \subseteq SoundReport'
  BY DEF SoundReport
<1>2. \A q : q \in Seq(SoundReport) => q \in Seq(SoundReport')
  BY <1>1
<1> QED
  BY <1>1, <1>2

\* The message an action of the manager works on.
LEMMA SoundHand ==
  ASSUME Inv, NetSound, NEW w \in Worker, pc[w] \in InHandler
  PROVE  hand[w] \in SoundReport
BY DEF Inv, Manages, WorkerAgrees, NetSound

\* What a handler does to the queues, to its hands and to the places.
LEMMA HandlerEffect ==
  ASSUME Inv, NetSound, NEW w \in Worker, HandlerStep(w)
  PROVE  /\ netQueue' = netQueue /\ wanted' = wanted /\ reported' = reported
         /\ hand' = hand \/ hand' = [hand EXCEPT ![w] = NoMsg]
         /\ \/ /\ \/ defQueue' = defQueue
                  \/ defQueue' = Append(defQueue, Msg("ServerDisconnected", hand[w].type, hand[w].conn))
               /\ \A v \in Worker : pc'[v] = "handle" => pc[v] = "handle" /\ hand'[v] = hand[v]
            \/ /\ pc[w] = "handle" /\ hand[w].name \in AnswerName
               /\ defQueue' = Append(defQueue, Msg(Event[hand[w].name], hand[w].type, hand[w].conn))
               /\ pc' = [pc EXCEPT ![w] = "pop"] /\ hand' = [hand EXCEPT ![w] = NoMsg]
               /\ Event[hand[w].name] \in CallbackName
<1>1. netQueue' = netQueue
  BY HandlerKeepsQueue DEF Inv
<1>2. wanted' = wanted
  BY DEF HandlerStep, ConnectToServer, EndConnect, DisconnectFrom, CloseReturned, EndDisconnect, Destroy,
         AfterDestroy, ServerDisconnected, ServerConnected, SendPacket, gameVars
<1>3. hand' = hand \/ hand' = [hand EXCEPT ![w] = NoMsg]
  BY HandlerHands DEF Done
<1>4. reported' = reported
  <2>1. ASSUME NEW c \in Conn, OwnerOp(c) PROVE reported' = reported
    BY <2>1 DEF OwnerOp, Construct, EnablePosting, Send, Close, CallClose, CloseReturn, BeginDestroy,
                DestroyClose, DestroyReturn, historyVars
  <2>. QED BY <2>1, HandlerOwnerOp DEF connVars, historyVars
<1>5. pc \in [Worker -> WorkerPC] /\ DOMAIN hand = Worker
  BY DEF Inv, TypeOK
<1>6. ASSUME NEW n \in DefaultName, PassOn(w, n)
      PROVE  defQueue' = Append(defQueue, Msg(n, hand[w].type, hand[w].conn))
  BY <1>6 DEF PassOn, Post, Msg, DefaultName, NetworkName, ReportName, RequestName
<1>7. CASE ServerConnected(w)
  <2>1. pc[w] = "handle" /\ Done(w)
    BY <1>7 DEF ServerConnected, Handling
  <2>2. CASE hand[w].name = "NetworkServerConnected"
    BY <1>1, <1>2, <1>4, <1>5, <1>6, <1>7, <2>1, <2>2
    DEF ServerConnected, Handling, Done, DefaultName, AnswerName, CallbackName, Event
  <2>3. CASE hand[w].name = "NetworkServerConnectFailed"
    BY <1>1, <1>2, <1>4, <1>5, <1>6, <1>7, <2>1, <2>3
    DEF ServerConnected, Handling, Done, DefaultName, AnswerName, CallbackName, Event
  <2>. QED BY <1>7, <2>2, <2>3 DEF ServerConnected, Handling
<1>8. CASE ~ServerConnected(w)
  <2>1. \/ defQueue' = defQueue
        \/ defQueue' = Append(defQueue, Msg("ServerDisconnected", hand[w].type, hand[w].conn))
    BY <1>6, <1>8 DEF HandlerStep, ConnectToServer, EndConnect, DisconnectFrom, CloseReturned, EndDisconnect,
       Destroy, AfterDestroy, ServerDisconnected, SendPacket, ResetSlot, NewConnection, queueVars, DefaultName
  <2>2. \A v \in Worker : pc'[v] = "handle" => v # w /\ pc[v] = "handle"
    BY <1>5, <1>8 DEF HandlerStep, ConnectToServer, EndConnect, DisconnectFrom, CloseReturned, EndDisconnect,
       Destroy, AfterDestroy, ServerDisconnected, SendPacket, ResetSlot, NewConnection, Done, managerVars
  <2>. QED BY <1>1, <1>2, <1>3, <1>4, <1>5, <2>1, <2>2
<1>. QED BY <1>7, <1>8

\* What a service thread does to the queues.
LEMMA NetworkEffect ==
  ASSUME ConnTypeOK, NEW c \in Conn, NetworkStep(c)
  PROVE  /\ UNCHANGED <<hand, pc, wanted, owner>>
         /\ \/ UNCHANGED <<netQueue, defQueue, reported>>
            \/ /\ UNCHANGED <<netQueue, reported>>
               /\ defQueue' = Append(defQueue, Msg("Packet", TypeOf[c], c))
            \/ \E n \in ReportName :
                 /\ netQueue' = Append(netQueue, Msg(n, TypeOf[c], c)) /\ defQueue' = defQueue
                 /\ reported' = [reported EXCEPT ![c] = Append(@, n)]
                 /\ n # "NetworkServerDisconnected" => service[c] = "connecting"
<1>1. UNCHANGED <<hand, pc, wanted>>
  BY DEF NetworkStep, managerVars, gameVars
<1>2. UNCHANGED owner
  BY DEF NetworkStep, ServiceStep, ServiceRuns, Completes, RunPostedClose, HandleWriteError,
     HandleResolve, HandleConnect, HandleConnectError, ClearConnected, HandleHeartBeat,
     DoKeepAlive, HandleReadPacket, DoReadPacket, DoClose, ReadPostMessage,
     NotifyDisconnected, StopService
<1>3. ASSUME NEW n \in ReportName, Report(c, n)
      PROVE  /\ netQueue' = Append(netQueue, Msg(n, TypeOf[c], c)) /\ defQueue' = defQueue
             /\ reported' = [reported EXCEPT ![c] = Append(@, n)]
  BY <1>3 DEF Report, Post, Msg, NetworkName
<1>4. CASE HandleConnect(c)
  <2>1. Report(c, "NetworkServerConnected") /\ service[c] = "connecting"
    BY <1>4 DEF HandleConnect, ServiceGoto
  <2>. QED BY <1>1, <1>2, <1>3, <2>1 DEF ReportName
<1>5. CASE HandleConnectError(c)
  <2>1. Report(c, "NetworkServerConnectFailed") /\ service[c] = "connecting"
    BY <1>5 DEF HandleConnectError, ServiceGoto
  <2>. QED BY <1>1, <1>2, <1>3, <2>1 DEF ReportName
<1>6. CASE NotifyDisconnected(c)
  <2>1. Report(c, "NetworkServerDisconnected")
    BY <1>6 DEF NotifyDisconnected
  <2>. QED BY <1>1, <1>2, <1>3, <2>1 DEF ReportName
<1>7. CASE DoReadPacket(c)
  <2>1. defQueue' = Append(defQueue, Msg("Packet", TypeOf[c], c)) /\ UNCHANGED <<netQueue, reported>>
    BY <1>7 DEF DoReadPacket, Post, Msg, NetworkName, ReportName, RequestName, historyVars
  <2>. QED BY <1>1, <1>2, <2>1
<1>8. CASE ~HandleConnect(c) /\ ~HandleConnectError(c) /\ ~NotifyDisconnected(c) /\ ~DoReadPacket(c)
  <2>1. UNCHANGED <<netQueue, defQueue, reported>>
    BY <1>8 DEF NetworkStep, ServiceStep, ServiceRuns, Completes, RunPostedClose, HandleWriteError,
       HandleResolve, ClearConnected, HandleHeartBeat, DoKeepAlive, HandleReadPacket, DoClose,
       ReadPostMessage, StopService, queueVars, historyVars
  <2>. QED BY <1>1, <1>2, <2>1
<1>. QED BY <1>4, <1>5, <1>6, <1>7, <1>8

\* Only connectToServer builds, and what it builds the game has asked for.
LEMMA HandlerBuilds ==
  ASSUME Inv, NetSound, NEW w \in Worker, HandlerStep(w), NEW c \in Conn, owner'[c] # "none"
  PROVE  c \in wanted
<1>1. CASE owner[c] # "none"
  BY <1>1 DEF NetSound
<1>2. CASE owner[c] = "none"
  <2>1. ~UNCHANGED connVars
    BY <1>2 DEF connVars
  <2>2. PICK d \in Conn : OwnerOp(d)
    BY <2>1, HandlerOwnerOp
  <2>3. Construct(d) /\ c = d
    BY <1>2, <2>2 DEF OwnerOp, Construct, EnablePosting, Send, Close, CallClose, CloseReturn, BeginDestroy,
       DestroyClose, DestroyReturn, Inv, TypeOK, ConnTypeOK
  <2>4. owner[c] = "none" /\ owner'[c] = "constructing"
    BY <2>3 DEF Construct, Inv, TypeOK, ConnTypeOK
  <2>5. NewConnection(w) /\ hand[w].name = "NetworkServerConnect"
    <3>1. ASSUME NEW b, \/ EnablePosting(b) \/ Send(b) \/ Close(b) \/ CloseReturn(b)
                        \/ BeginDestroy(b) \/ DestroyClose(b) \/ DestroyReturn(b)
          PROVE  FALSE
      BY <2>4, <3>1 DEF EnablePosting, Send, Close, CallClose, CloseReturn, BeginDestroy, DestroyClose,
         DestroyReturn, Inv, TypeOK, ConnTypeOK
    <3>. QED
      BY <2>1, <3>1 DEF HandlerStep, ConnectToServer, EndConnect, DisconnectFrom, CloseReturned, EndDisconnect,
         Destroy, AfterDestroy, ServerDisconnected, ServerConnected, SendPacket, ResetSlot, Handling
  <2>6. owner'[hand[w].conn] = "constructing" /\ hand[w].conn = c
    BY <2>4, <2>5 DEF NewConnection, Construct, Inv, TypeOK, ConnTypeOK
  <2>7. pc[w] \in InHandler
    BY HandlerPlaces
  <2>. QED BY <2>5, <2>6, <2>7, SoundHand DEF SoundReport
<1>. QED BY <1>1, <1>2

LEMMA NextNetSound ==
  ASSUME Inv, NetSound, [Next]_vars
  PROVE  NetSound'
<1>0. SoundEvent' = SoundEvent
  BY DEF SoundEvent
<1>a. /\ netQueue \in Seq(SoundReport) /\ hand \in [Worker -> SoundReport \union {NoMsg}]
      /\ defQueue \in Seq(SoundEvent) /\ \A c \in Conn : owner[c] # "none" => c \in wanted
  BY DEF NetSound
<1>b. wanted' = wanted => SoundReport' = SoundReport
  BY DEF SoundReport
<1>c. \A q \in Seq(SoundReport), m \in SoundReport : Append(q, m) \in Seq(SoundReport)
  BY AppendProperties
<1>d. \A q \in Seq(SoundEvent), m \in SoundEvent : Append(q, m) \in Seq(SoundEvent)
  BY AppendProperties
<1>1. ASSUME NEW w \in Worker, DispatchStep(w)
      PROVE  NetSound'
  <2>1. UNCHANGED <<wanted, owner, defQueue>>
    BY <1>1 DEF DispatchStep, BeginUpdate, TryPop, TryPopEmpty, EndUpdate, gameVars, connVars, queueVars
  <2>2. CASE TryPop(w)
    <3>1. Head(netQueue) \in SoundReport /\ Tail(netQueue) \in Seq(SoundReport)
      BY <1>a, <2>2, HeadTailProperties DEF TryPop
    <3>. QED BY <1>0, <1>a, <1>b, <2>1, <2>2, <3>1 DEF TryPop, NetSound
  <2>3. CASE BeginUpdate(w) \/ TryPopEmpty(w) \/ EndUpdate(w)
    BY <1>0, <1>a, <1>b, <2>1, <2>3 DEF BeginUpdate, TryPopEmpty, EndUpdate, queueVars, NetSound
  <2>. QED BY <1>1, <2>2, <2>3 DEF DispatchStep
<1>2. ASSUME NEW w \in Worker, HandlerStep(w)
      PROVE  NetSound'
  <2>1. wanted' = wanted /\ netQueue' = netQueue /\ hand' \in [Worker -> SoundReport \union {NoMsg}]
    BY <1>2, <1>a, HandlerEffect
  <2>2. hand[w] \in SoundReport
    BY <1>2, SoundHand, HandlerPlaces
  <2>3. hand[w].type \in ServerType /\ hand[w].conn \in Conn \union {NoConn}
        /\ (hand[w].name \in AnswerName => hand[w].conn \in Conn /\ hand[w].type = TypeOf[hand[w].conn])
    BY <2>2 DEF SoundReport, NetMessage
  <2>4. Msg("ServerDisconnected", hand[w].type, hand[w].conn) \in SoundEvent
    BY <2>3 DEF SoundEvent, DefMessage, Msg, DefaultName, CallbackName
  <2>5. ASSUME hand[w].name \in AnswerName, NEW n \in CallbackName
        PROVE  Msg(n, hand[w].type, hand[w].conn) \in SoundEvent
    BY <2>3, <2>5 DEF SoundEvent, DefMessage, Msg, DefaultName, CallbackName
  <2>6. defQueue' \in Seq(SoundEvent)
    <3>1. CASE \/ defQueue' = defQueue
               \/ defQueue' = Append(defQueue, Msg("ServerDisconnected", hand[w].type, hand[w].conn))
      BY <1>a, <1>d, <2>4, <3>1
    <3>2. CASE /\ hand[w].name \in AnswerName /\ Event[hand[w].name] \in CallbackName
               /\ defQueue' = Append(defQueue, Msg(Event[hand[w].name], hand[w].type, hand[w].conn))
      <4>1. Msg(Event[hand[w].name], hand[w].type, hand[w].conn) \in SoundEvent
        BY <2>5, <3>2
      <4>. QED BY <1>a, <1>d, <3>2, <4>1
    <3>. QED BY <1>2, <3>1, <3>2, HandlerEffect
  <2>7. \A c \in Conn : owner'[c] # "none" => c \in wanted
    BY <1>2, HandlerBuilds
  <2>. QED BY <1>0, <1>a, <1>b, <2>1, <2>6, <2>7 DEF NetSound
<1>3. ASSUME NEW c \in Conn, NetworkStep(c)
      PROVE  NetSound'
  <2>1. Msg("Packet", TypeOf[c], c) \in SoundEvent
    BY ConnectionAssumption DEF SoundEvent, DefMessage, Msg, DefaultName, CallbackName
  <2>2. \A n \in ReportName : Msg(n, TypeOf[c], c) \in SoundReport
    BY ConnectionAssumption DEF SoundReport, NetMessage, Msg, NetworkName, ReportName
  <2>3. ConnTypeOK
    BY DEF Inv, TypeOK
  <2>4. wanted' = wanted /\ hand' = hand /\ owner' = owner
    BY <1>3, <2>3, NetworkEffect
  <2>5. netQueue' \in Seq(SoundReport) /\ defQueue' \in Seq(SoundEvent)
    BY <1>3, <1>a, <1>c, <1>d, <2>1, <2>2, <2>3, NetworkEffect
  <2>. QED BY <1>0, <1>a, <1>b, <2>4, <2>5 DEF NetSound
<1>4. CASE GameRequest
  <2>1. wanted \subseteq wanted' /\ UNCHANGED <<hand, owner>>
    BY <1>4 DEF GameRequest, Connect, Disconnect, SendToServer, Request, connVars, managerVars
  <2>2. defQueue' = defQueue /\ netQueue' \in Seq(SoundReport')
    <3>1. ASSUME NEW c \in Conn, Connect(c)
          PROVE  defQueue' = defQueue /\ netQueue' \in Seq(SoundReport')
      <4>1. Msg("NetworkServerConnect", TypeOf[c], c) \in SoundReport'
        BY <3>1, ConnectionAssumption DEF Connect, SoundReport, NetMessage, Msg, NetworkName, RequestName, AnswerName
      <4>2. netQueue' = Append(netQueue, Msg("NetworkServerConnect", TypeOf[c], c)) /\ defQueue' = defQueue
        BY <3>1 DEF Connect, Post, Msg, NetworkName, RequestName
      <4>3. netQueue \in Seq(SoundReport')
        BY <1>a, <2>1, SoundGrows
      <4>. QED BY <4>1, <4>2, <4>3, AppendProperties
    <3>2. ASSUME NEW t \in ServerType, NEW n \in {"NetworkServerDisconnect", "NetworkServerSend"}, Request(t, n)
          PROVE  defQueue' = defQueue /\ netQueue' \in Seq(SoundReport')
      <4>1. Msg(n, t, NoConn) \in SoundReport
        BY DEF SoundReport, NetMessage, Msg, NetworkName, RequestName, AnswerName
      <4>2. netQueue' = Append(netQueue, Msg(n, t, NoConn)) /\ defQueue' = defQueue /\ wanted' = wanted
        BY <3>2 DEF Request, Post, Msg, NetworkName, RequestName
      <4>. QED BY <1>a, <1>b, <1>c, <4>1, <4>2
    <3>. QED BY <1>4, <3>1, <3>2 DEF GameRequest, Disconnect, SendToServer
  <2>3. hand' \in [Worker -> SoundReport' \union {NoMsg}]
    BY <1>a, <2>1, SoundGrows
  <2>. QED BY <1>0, <1>a, <2>1, <2>2, <2>3 DEF NetSound
<1>5. CASE GameTakes
  <2>1. Tail(defQueue) \in Seq(SoundEvent)
    BY <1>5, <1>a, HeadTailProperties DEF GameTakes
  <2>. QED BY <1>5, <1>0, <1>a, <1>b, <2>1 DEF GameTakes, connVars, managerVars, gameVars, NetSound
<1>6. CASE UNCHANGED vars
  BY <1>6, <1>0, <1>a, <1>b DEF vars, queueVars, connVars, managerVars, gameVars, NetSound
<1>. QED BY <1>1, <1>2, <1>3, <1>4, <1>5, <1>6, NextParts

-----------------------------------------------------------------------------
(* Where the answer is.                                                    *)

\* A message added to a queue is there, and what was there still is, once.
LEMMA AppendPlaces ==
  ASSUME NEW S, NEW q \in Seq(S), NEW m \in S, NEW M
  PROVE  LET r == Append(q, m) IN
         /\ (\E i \in 1..Len(r) : r[i] \in M) <=> m \in M \/ \E i \in 1..Len(q) : q[i] \in M
         /\ (\A i, j \in 1..Len(q) : q[i] \in M /\ q[j] \in M => i = j)
            /\ ~(m \in M /\ \E i \in 1..Len(q) : q[i] \in M)
            => \A i, j \in 1..Len(r) : r[i] \in M /\ r[j] \in M => i = j
<1> DEFINE r == Append(q, m)
<1>1. /\ Len(q) \in Nat /\ Len(r) = Len(q) + 1 /\ r[Len(q) + 1] = m
      /\ \A i \in 1..Len(q) : r[i] = q[i]
  BY AppendProperties, LenProperties
<1>2. 1..Len(r) = (1..Len(q)) \union {Len(q) + 1}
  BY <1>1
<1> HIDE DEF r
<1>3. (\E i \in 1..Len(r) : r[i] \in M) <=> m \in M \/ \E i \in 1..Len(q) : q[i] \in M
  BY <1>1, <1>2
<1>4. ASSUME \A i, j \in 1..Len(q) : q[i] \in M /\ q[j] \in M => i = j,
             ~(m \in M /\ \E i \in 1..Len(q) : q[i] \in M),
             NEW i \in 1..Len(r), NEW j \in 1..Len(r), r[i] \in M, r[j] \in M
      PROVE  i = j
  BY <1>1, <1>2, <1>4
<1>. QED BY <1>3, <1>4 DEF r

\* A message taken from a queue was there, and what was there once is gone.
LEMMA TailPlaces ==
  ASSUME NEW S, NEW q \in Seq(S), q # <<>>, NEW M
  PROVE  LET r == Tail(q) IN
         /\ (\E i \in 1..Len(r) : r[i] \in M) => \E i \in 1..Len(q) : q[i] \in M
         /\ Head(q) \in M => \E i \in 1..Len(q) : q[i] \in M
         /\ (\A i, j \in 1..Len(q) : q[i] \in M /\ q[j] \in M => i = j) =>
              /\ \A i, j \in 1..Len(r) : r[i] \in M /\ r[j] \in M => i = j
              /\ Head(q) \in M => ~\E i \in 1..Len(r) : r[i] \in M
<1> DEFINE r == Tail(q)
<1>1. /\ Len(q) \in Nat \ {0} /\ Len(r) = Len(q) - 1 /\ Head(q) = q[1]
      /\ \A i \in 1..Len(r) : r[i] = q[i + 1]
  BY HeadTailProperties, EmptySeq, LenProperties
<1>2. \A i \in 1..Len(r) : i + 1 \in 1..Len(q) /\ i + 1 # 1 /\ i \in Int
  BY <1>1
<1>3. 1 \in 1..Len(q)
  BY <1>1
<1> HIDE DEF r
<1>. QED BY <1>1, <1>2, <1>3 DEF r

\* A step that brings the answer to no new place.
LEMMA NoNewPlace ==
  ASSUME NEW c \in Conn, OnePlace(c), OnceInNet(c)', OnceInDef(c)',
         InNet(c)' => InNet(c), InWork(c)' => InWork(c), InDef(c)' => InDef(c),
         InMain(c)' => InMain(c), Answered(c)' => Answered(c), Answerable(c) => Answerable(c)'
  PROVE  OnePlace(c)'
BY DEF OnePlace

\* No message of the queues is looked at twice under two names.
LEMMA ReportsKeep ==
  ASSUME NEW c \in Conn
  PROVE  Reports(c)' = Reports(c) /\ Answers(c)' = Answers(c)
BY DEF Reports, Answers, Msg

LEMMA SameQueues ==
  ASSUME NEW c \in Conn
  PROVE  /\ netQueue' = netQueue => (InNet(c)' <=> InNet(c)) /\ (OnceInNet(c)' <=> OnceInNet(c))
         /\ defQueue' = defQueue => (InDef(c)' <=> InDef(c)) /\ (OnceInDef(c)' <=> OnceInDef(c))
         /\ reported' = reported => (Answerable(c)' <=> Answerable(c))
         /\ pc' = pc /\ hand' = hand => (InWork(c)' <=> InWork(c))
         /\ main' = main /\ event' = event => (InMain(c)' <=> InMain(c))
         /\ answers' = answers => (Answered(c)' <=> Answered(c))
BY ReportsKeep DEF InNet, InDef, OnceInNet, OnceInDef, Answerable, InWork, InMain, Answered

LEMMA AppendNet ==
  ASSUME NetSound, NEW c \in Conn, NEW m, netQueue' = Append(netQueue, m), OnceInNet(c),
         m \in Reports(c) => ~InNet(c)
  PROVE  OnceInNet(c)' /\ (InNet(c)' <=> InNet(c) \/ m \in Reports(c))
<1> DEFINE S == SoundReport \union {m}
<1>1. netQueue \in Seq(S) /\ m \in S
  BY DEF NetSound
<1> HIDE DEF S
<1>. QED BY <1>1, AppendPlaces, ReportsKeep DEF OnceInNet, InNet

LEMMA AppendDef ==
  ASSUME NetSound, NEW c \in Conn, NEW m, defQueue' = Append(defQueue, m), OnceInDef(c),
         m \in Answers(c) => ~InDef(c)
  PROVE  OnceInDef(c)' /\ (InDef(c)' <=> InDef(c) \/ m \in Answers(c))
<1> DEFINE S == SoundEvent \union {m}
<1>1. defQueue \in Seq(S) /\ m \in S
  BY DEF NetSound
<1> HIDE DEF S
<1>. QED BY <1>1, AppendPlaces, ReportsKeep DEF OnceInDef, InDef

\* While one worker handles a message there is no other one in a handler.
LEMMA DispatchOnePlace ==
  ASSUME Inv, NetSound, NEW w \in Worker, DispatchStep(w), UNCHANGED interfaceVars,
         NEW c \in Conn, OnePlace(c)
  PROVE  OnePlace(c)'
<1>0. /\ pc \in [Worker -> WorkerPC] /\ DOMAIN hand = Worker
      /\ UNCHANGED <<main, event, answers, reported, defQueue>>
  BY DEF Inv, TypeOK, DispatchStep, BeginUpdate, TryPop, TryPopEmpty, EndUpdate, queueVars, connVars, historyVars,
         interfaceVars, mainVars, answerVars
<1>1. CASE TryPop(w)
  <2>1. ~InWork(c)
    BY <1>1 DEF TryPop, WorkerGoto, InWork, Inv, OneDispatcher, InUpdate
  <2>2. /\ netQueue \in Seq(SoundReport) /\ netQueue # <<>> /\ netQueue' = Tail(netQueue)
        /\ hand' = [hand EXCEPT ![w] = Head(netQueue)] /\ pc' = [pc EXCEPT ![w] = "handle"]
    BY <1>1 DEF TryPop, WorkerGoto, NetSound
  <2>3. /\ InNet(c)' => InNet(c)
        /\ Head(netQueue) \in Reports(c) => InNet(c) /\ ~InNet(c)'
        /\ OnceInNet(c)'
    BY <2>2, TailPlaces, ReportsKeep DEF InNet, OnceInNet, OnePlace
  <2>4. InWork(c)' => Head(netQueue) \in Reports(c)
    <3>1. \A v \in Worker : pc[v] # "handle"
      BY <1>1 DEF TryPop, WorkerGoto, Inv, OneDispatcher, InUpdate
    <3>2. \A v \in Worker : pc'[v] = "handle" => v = w /\ hand'[v] = Head(netQueue)
      BY <1>0, <2>2, <3>1
    <3>. QED BY <3>2, ReportsKeep DEF InWork
  <2>. QED BY <1>0, <2>1, <2>3, <2>4, SameQueues DEF OnePlace
<1>2. CASE BeginUpdate(w) \/ TryPopEmpty(w) \/ EndUpdate(w)
  <2>1. netQueue' = netQueue
    BY <1>2 DEF BeginUpdate, TryPopEmpty, EndUpdate, queueVars
  <2>2. InWork(c)' => InWork(c)
    BY <1>0, <1>2, ReportsKeep DEF BeginUpdate, TryPopEmpty, EndUpdate, WorkerGoto, InWork
  <2>. QED BY <1>0, <2>1, <2>2, SameQueues, NoNewPlace DEF OnePlace
<1>. QED BY <1>1, <1>2 DEF DispatchStep

LEMMA HandlerOnePlace ==
  ASSUME Inv, NetSound, NEW w \in Worker, HandlerStep(w), UNCHANGED interfaceVars,
         NEW c \in Conn, OnePlace(c)
  PROVE  OnePlace(c)'
<1>0. /\ pc \in [Worker -> WorkerPC] /\ DOMAIN hand = Worker
      /\ UNCHANGED <<main, event, answers, reported, netQueue>>
  BY HandlerEffect DEF Inv, TypeOK, interfaceVars, mainVars, answerVars
<1>1. CASE /\ \/ defQueue' = defQueue
              \/ defQueue' = Append(defQueue, Msg("ServerDisconnected", hand[w].type, hand[w].conn))
           /\ \A v \in Worker : pc'[v] = "handle" => pc[v] = "handle" /\ hand'[v] = hand[v]
  <2>1. InWork(c)' => InWork(c)
    BY <1>1, ReportsKeep DEF InWork
  <2>2. Msg("ServerDisconnected", hand[w].type, hand[w].conn) \notin Answers(c)
    BY DEF Answers, Msg, CallbackName
  <2>3. OnceInDef(c)' /\ (InDef(c)' => InDef(c))
    BY <1>1, <2>2, AppendDef, SameQueues DEF OnePlace
  <2>. QED BY <1>0, <2>1, <2>3, SameQueues, NoNewPlace DEF OnePlace
<1>2. CASE /\ pc[w] = "handle" /\ hand[w].name \in AnswerName
           /\ defQueue' = Append(defQueue, Msg(Event[hand[w].name], hand[w].type, hand[w].conn))
           /\ pc' = [pc EXCEPT ![w] = "pop"] /\ hand' = [hand EXCEPT ![w] = NoMsg]
           /\ Event[hand[w].name] \in CallbackName
  <2> DEFINE m == Msg(Event[hand[w].name], hand[w].type, hand[w].conn)
  <2>1. \A v \in Worker : pc[v] = "handle" => v = w
    BY <1>2 DEF Inv, OneDispatcher, InUpdate
  <2>2. ~InWork(c)'
    BY <1>0, <1>2, <2>1 DEF InWork
  <2>3. m \in Answers(c) => InWork(c)
    <3>1. hand[w] \in SoundReport
      BY <1>2, SoundHand DEF InHandler
    <3>2. hand[w] = Msg(hand[w].name, hand[w].type, hand[w].conn)
      BY <3>1 DEF SoundReport, NetMessage, Msg
    <3>3. m \in Answers(c) => hand[w].type = TypeOf[c] /\ hand[w].conn = c
      BY DEF Answers, Msg
    <3>. QED BY <1>2, <3>2, <3>3 DEF Reports, InWork
  <2>4. m \in Answers(c) => ~InDef(c)
    BY <2>3 DEF OnePlace
  <2>5. OnceInDef(c)' /\ (InDef(c)' <=> InDef(c) \/ m \in Answers(c))
    BY <1>2, <2>4, AppendDef DEF OnePlace
  <2>. QED BY <1>0, <2>2, <2>3, <2>5, SameQueues DEF OnePlace
<1>. QED BY <1>1, <1>2, HandlerEffect

LEMMA NetworkOnePlace ==
  ASSUME Inv, Agree, NetSound, NEW d \in Conn, NetworkStep(d), UNCHANGED interfaceVars,
         NEW c \in Conn, OnePlace(c)
  PROVE  OnePlace(c)'
<1>0. UNCHANGED <<main, event, answers, hand, pc>> /\ ConnTypeOK
  BY NetworkEffect DEF Inv, TypeOK, interfaceVars, mainVars, answerVars
<1>1. CASE UNCHANGED <<netQueue, defQueue, reported>>
  BY <1>0, <1>1, SameQueues DEF OnePlace
<1>2. CASE UNCHANGED <<netQueue, reported>> /\ defQueue' = Append(defQueue, Msg("Packet", TypeOf[d], d))
  <2>1. Msg("Packet", TypeOf[d], d) \notin Answers(c)
    BY DEF Answers, Msg, CallbackName
  <2>2. OnceInDef(c)' /\ (InDef(c)' <=> InDef(c))
    BY <1>2, <2>1, AppendDef DEF OnePlace
  <2>. QED BY <1>0, <1>2, <2>2, SameQueues DEF OnePlace
<1>3. ASSUME NEW n \in ReportName,
             netQueue' = Append(netQueue, Msg(n, TypeOf[d], d)), defQueue' = defQueue,
             reported' = [reported EXCEPT ![d] = Append(@, n)],
             n # "NetworkServerDisconnected" => service[d] = "connecting"
      PROVE  OnePlace(c)'
  <2>1. /\ reported[c] \in Seq(ReportName) /\ (c # d => reported'[c] = reported[c])
        /\ (c = d => reported'[c] = Append(reported[c], n))
    BY <1>0, <1>3 DEF ConnTypeOK
  <2>2. c = d => /\ Len(reported[c]) \in Nat /\ Len(reported'[c]) = Len(reported[c]) + 1
                 /\ reported'[c][Len(reported[c]) + 1] = n
                 /\ \A i \in 1..Len(reported[c]) : reported'[c][i] = reported[c][i]
    BY <2>1, AppendProperties, LenProperties
  <2>3. Answerable(c) => Answerable(c)'
    BY <2>1, <2>2 DEF Answerable
  <2>4. CASE Msg(n, TypeOf[d], d) \in Reports(c)
    <3>1. c = d /\ n # "NetworkServerDisconnected"
      BY <2>4 DEF Reports, Msg, AnswerName
    <3>2. reported[c] = <<>>
      BY <1>3, <3>1 DEF Agree, Agrees, ReportAgrees
    <3>3. ~Answerable(c)
      BY <3>2 DEF Answerable
    <3>4. ~InNet(c) /\ ~InWork(c) /\ ~InDef(c) /\ ~InMain(c) /\ ~Answered(c)
      BY <3>3 DEF OnePlace
    <3>5. Answerable(c)'
      <4>1. Len(reported[c]) + 1 \in 1..Len(reported'[c])
        BY <2>2, <3>1
      <4>. QED BY <2>2, <3>1, <4>1 DEF Answerable
    <3>6. OnceInNet(c)'
      BY <1>3, <3>4, AppendNet DEF OnePlace
    <3>. QED BY <1>0, <1>3, <3>4, <3>5, <3>6, SameQueues DEF OnePlace
  <2>5. CASE Msg(n, TypeOf[d], d) \notin Reports(c)
    <3>1. OnceInNet(c)' /\ (InNet(c)' <=> InNet(c))
      BY <1>3, <2>5, AppendNet DEF OnePlace
    <3>. QED BY <1>0, <1>3, <2>3, <3>1, SameQueues, NoNewPlace DEF OnePlace
  <2>. QED BY <2>4, <2>5
<1>. QED BY <1>0, <1>1, <1>2, <1>3, NetworkEffect

\* A request of the game is no report.
LEMMA RequestPlaces ==
  ASSUME NetSound, NEW n \in RequestName, NEW t, NEW d, Post(Msg(n, t, d)), UNCHANGED <<connVars, managerVars>>,
         NEW c \in Conn, OnePlace(c)
  PROVE  /\ OnceInNet(c)' /\ OnceInDef(c)'
         /\ InNet(c)' <=> InNet(c)
         /\ InWork(c)' <=> InWork(c)
         /\ InDef(c)' <=> InDef(c)
         /\ Answerable(c)' <=> Answerable(c)
<1>1. netQueue' = Append(netQueue, Msg(n, t, d)) /\ defQueue' = defQueue
  BY DEF Post, Msg, NetworkName
<1>2. Msg(n, t, d) \notin Reports(c)
  BY DEF Reports, Msg, AnswerName, RequestName
<1>3. OnceInNet(c)' /\ (InNet(c)' <=> InNet(c))
  BY <1>1, <1>2, AppendNet DEF OnePlace
<1>. QED BY <1>1, <1>3, SameQueues DEF OnePlace, connVars, historyVars, managerVars

\* ... and a step that does not make one leaves these places alone.
LEMMA StillPlaces ==
  ASSUME UNCHANGED vars, NEW c \in Conn, OnePlace(c)
  PROVE  /\ OnceInNet(c)' /\ OnceInDef(c)'
         /\ InNet(c)' <=> InNet(c)
         /\ InWork(c)' <=> InWork(c)
         /\ InDef(c)' <=> InDef(c)
         /\ Answerable(c)' <=> Answerable(c)
BY SameQueues DEF OnePlace, vars, queueVars, connVars, historyVars, managerVars

-----------------------------------------------------------------------------
(* The interface.                                                          *)

LEMMA MainStays ==
  ASSUME UNCHANGED <<main, event>>, MainSound
  PROVE  MainSound'
BY DEF MainSound, SoundEvent

\* The callbacks are kept by whatever leaves them and the prompts alone.
LEMMA CallbacksStay ==
  ASSUME CallbackKept, UNCHANGED <<wanted, mConnectCallback, prompt>>,
         mConnectCallback \in [ServerType -> Conn \union {NoConn}], wanted \subseteq Conn,
         \A c \in Conn : answers'[c] = <<>> => answers[c] = <<>>
  PROVE  CallbackKept'
<1>1. \A c \in wanted : mConnectCallback'[TypeOf[c]] = c \/ Answered(c)'
  BY DEF CallbackKept, Answered
<1>2. \A t \in ServerType : NoAnswerDue(t) => NoAnswerDue(t)'
  BY DEF NoAnswerDue
<1>. QED BY <1>1, <1>2 DEF CallbackKept

LEMMA ManagerAnswers ==
  ASSUME Inv, Agree, AnswerInv, NetSound', InterfaceInv, UNCHANGED interfaceVars,
         \/ \E w \in Worker : WorkerStep(w)
         \/ \E d \in Conn : NetworkStep(d)
         \/ UNCHANGED vars
  PROVE  AnswerInv'
<1>1. UNCHANGED <<main, event, answers, mConnectCallback, prompt>>
  BY DEF interfaceVars, mainVars, answerVars, connectVars
<1>2. wanted' = wanted
  BY DEF WorkerStep, BeginUpdate, TryPop, TryPopEmpty, EndUpdate, ConnectToServer, EndConnect, DisconnectFrom,
     CloseReturned, EndDisconnect, Destroy, AfterDestroy, ServerDisconnected, ServerConnected, SendPacket,
     NetworkStep, gameVars, vars
<1>3. ASSUME NEW c \in Conn PROVE OnePlace(c)'
  <2>1. OnePlace(c) /\ NetSound
    BY DEF AnswerInv
  <2>2. ASSUME NEW w \in Worker, WorkerStep(w) PROVE OnePlace(c)'
    BY <2>1, <2>2, DispatchOnePlace, HandlerOnePlace DEF WorkerStep, DispatchStep, HandlerStep
  <2>3. ASSUME NEW d \in Conn, NetworkStep(d) PROVE OnePlace(c)'
    BY <2>1, <2>3, NetworkOnePlace
  <2>4. CASE UNCHANGED vars
    BY <1>1, <2>1, <2>4, StillPlaces, SameQueues DEF OnePlace
  <2>. QED BY <2>2, <2>3, <2>4
<1>4. CallbackKept'
  BY <1>1, <1>2, CallbacksStay DEF AnswerInv, InterfaceInv, OwnTypes, Inv, TypeOK
<1>5. MainSound' /\ AnsweredOnce'
  BY <1>1, MainStays DEF AnswerInv, AnsweredOnce
<1>. QED BY <1>3, <1>4, <1>5 DEF AnswerInv

LEMMA PromptAnswers ==
  ASSUME Inv, AnswerInv, NetSound', InterfaceInv, NEW t \in ServerType,
         BeginConnect(t) \/ ConnectCall(t) \/ GameDisconnect(t)
  PROVE  AnswerInv'
<1>1. UNCHANGED <<event, answers>> /\ main' = main
  BY DEF BeginConnect, ConnectCall, StoreCallback, PostConnect, LoadStatus, EndConnectCall, GameDisconnect,
     mainVars, answerVars
<1>2. MainSound' /\ AnsweredOnce'
  BY <1>1, MainStays DEF AnswerInv, AnsweredOnce
<1>3. ASSUME NEW c \in Conn PROVE OnePlace(c)'
  <2>1. OnePlace(c) /\ NetSound
    BY DEF AnswerInv
  <2>2. CASE UNCHANGED vars
    BY <1>1, <2>1, <2>2, StillPlaces, SameQueues DEF OnePlace
  <2>3. CASE \E n \in RequestName : \E u, d : Post(Msg(n, u, d)) /\ UNCHANGED <<connVars, managerVars>>
    BY <1>1, <2>1, <2>3, RequestPlaces, SameQueues DEF OnePlace
  <2>4. \/ UNCHANGED vars
        \/ \E n \in RequestName : \E u, d : Post(Msg(n, u, d)) /\ UNCHANGED <<connVars, managerVars>>
    <3>1. ASSUME Disconnect(t)
          PROVE  \E n \in RequestName : \E u, d : Post(Msg(n, u, d)) /\ UNCHANGED <<connVars, managerVars>>
      BY <3>1 DEF Disconnect, Request, RequestName
    <3>2. ASSUME PostConnect(t)
          PROVE  \E n \in RequestName : \E u, d : Post(Msg(n, u, d)) /\ UNCHANGED <<connVars, managerVars>>
      BY <3>2 DEF PostConnect, Connect, RequestName
    <3>. QED BY <3>1, <3>2 DEF BeginConnect, ConnectCall, StoreCallback, LoadStatus, EndConnectCall, GameDisconnect
  <2>. QED BY <2>2, <2>3, <2>4
<1>4. CallbackKept'
  <2>0. /\ mConnectCallback \in [ServerType -> Conn \union {NoConn}] /\ NoConn \notin Conn
        /\ prompt \in [ServerType -> {"idle", "callback", "post", "load", "exchange"}]
        /\ TypeOf \in [Conn -> ServerType] /\ wanted \subseteq Conn
    BY NoConnAssumption, ConnectionAssumption DEF InterfaceInv, OwnTypes, Inv, TypeOK
  <2>1. CallbackKept
    BY DEF AnswerInv
  <2>2. CASE BeginConnect(t)
    <3>1. wanted' = wanted /\ mConnectCallback' = mConnectCallback /\ NoAnswerDue(t)
          /\ prompt' = [prompt EXCEPT ![t] = "callback"]
      BY <2>2 DEF BeginConnect, PromptGoto, Disconnect, Request, vars, gameVars
    <3>2. \A u \in ServerType : NoAnswerDue(u) => NoAnswerDue(u)'
      BY <1>1, <3>1 DEF NoAnswerDue
    <3>. QED BY <1>1, <2>0, <2>1, <3>1, <3>2 DEF CallbackKept, Answered
  <2>3. CASE StoreCallback(t)
    <3>1. PICK c \in Conn \ wanted :
            TypeOf[c] = t /\ mConnectCallback' = [mConnectCallback EXCEPT ![t] = c]
      BY <2>3 DEF StoreCallback
    <3>2. wanted' = wanted /\ prompt[t] = "callback" /\ prompt' = [prompt EXCEPT ![t] = "post"]
      BY <2>3 DEF StoreCallback, PromptGoto, vars, gameVars
    <3>3. NoAnswerDue(t)
      BY <2>1, <3>2 DEF CallbackKept
    <3>4. \A u \in ServerType : mConnectCallback'[u] # NoConn => TypeOf[mConnectCallback'[u]] = u
      BY <2>0, <2>1, <3>1 DEF CallbackKept
    <3>5. \A u \in ServerType : prompt'[u] = "callback" => NoAnswerDue(u)'
      BY <1>1, <2>0, <2>1, <3>1, <3>2 DEF CallbackKept, NoAnswerDue
    <3>6. ASSUME NEW e \in wanted PROVE mConnectCallback'[TypeOf[e]] = e \/ Answered(e)'
      <4>1. CASE TypeOf[e] # t
        BY <1>1, <2>0, <2>1, <3>1, <4>1 DEF CallbackKept, Answered
      <4>2. CASE TypeOf[e] = t
        BY <1>1, <2>0, <2>1, <3>3, <4>2 DEF CallbackKept, Answered, NoAnswerDue
      <4>. QED BY <4>1, <4>2
    <3>. QED BY <3>2, <3>4, <3>5, <3>6 DEF CallbackKept
  <2>4. CASE PostConnect(t)
    <3>1. /\ mConnectCallback[t] \in Conn /\ mConnectCallback' = mConnectCallback
          /\ wanted' = wanted \union {mConnectCallback[t]}
          /\ prompt' = [prompt EXCEPT ![t] = "load"]
      BY <2>4 DEF PostConnect, PromptGoto, Connect, InterfaceInv, HoldsCallback
    <3>2. TypeOf[mConnectCallback[t]] = t
      BY <2>0, <2>1, <3>1 DEF CallbackKept
    <3>3. \A u \in ServerType : NoAnswerDue(u) => NoAnswerDue(u)'
      BY <1>1, <3>1 DEF NoAnswerDue
    <3>. QED BY <1>1, <2>0, <2>1, <3>1, <3>2, <3>3 DEF CallbackKept, Answered
  <2>5. CASE LoadStatus(t) \/ EndConnectCall(t) \/ GameDisconnect(t)
    <3>1. /\ wanted' = wanted /\ mConnectCallback' = mConnectCallback
          /\ \A u \in ServerType : prompt'[u] = "callback" => prompt[u] = "callback"
      BY <2>0, <2>5 DEF LoadStatus, EndConnectCall, GameDisconnect, PromptGoto, Disconnect, Request, vars, gameVars,
         connectVars
    <3>2. \A u \in ServerType : NoAnswerDue(u) => NoAnswerDue(u)'
      BY <1>1, <3>1 DEF NoAnswerDue
    <3>. QED BY <1>1, <2>1, <3>1, <3>2 DEF CallbackKept, Answered
  <2>. QED BY <2>2, <2>3, <2>4, <2>5 DEF ConnectCall
<1>. QED BY <1>2, <1>3, <1>4 DEF AnswerInv

LEMMA TakeAnswers ==
  ASSUME Inv, AnswerInv, NetSound', InterfaceInv, TakeMessage
  PROVE  AnswerInv'
<1> DEFINE m == Head(defQueue)
<1>0. /\ defQueue \in Seq(SoundEvent) /\ defQueue # <<>> /\ defQueue' = Tail(defQueue) /\ main = "idle"
      /\ UNCHANGED <<netQueue, pc, hand, reported, wanted, mConnectCallback, prompt, answers>>
  BY DEF AnswerInv, NetSound, TakeMessage, connVars, historyVars, managerVars, gameVars, connectVars
<1>1. /\ m \in SoundEvent
      /\ main' = "idle" \/ (main' = "status" /\ event' = m)
  BY <1>0, HeadTailProperties DEF TakeMessage
<1>2. SoundEvent' = SoundEvent
  BY DEF SoundEvent
<1>3. ASSUME NEW c \in Conn PROVE OnePlace(c)'
  <2>1. OnePlace(c) /\ ~InMain(c)
    BY <1>0 DEF AnswerInv, InMain
  <2>2. /\ InDef(c)' => InDef(c)
        /\ m \in Answers(c) => InDef(c) /\ ~InDef(c)'
        /\ OnceInDef(c)'
    BY <1>0, <2>1, TailPlaces, ReportsKeep DEF InDef, OnceInDef, OnePlace
  <2>3. InMain(c)' => m \in Answers(c)
    BY <1>1, ReportsKeep DEF InMain
  <2>. QED BY <1>0, <2>1, <2>2, <2>3, SameQueues DEF OnePlace
<1>4. CallbackKept'
  BY <1>0, CallbacksStay DEF AnswerInv, InterfaceInv, OwnTypes, Inv, TypeOK
<1>5. MainSound' /\ AnsweredOnce'
  BY <1>0, <1>1, <1>2 DEF MainSound, AnswerInv, AnsweredOnce
<1>. QED BY <1>3, <1>4, <1>5 DEF AnswerInv

LEMMA HandlersAnswer ==
  ASSUME Inv, AnswerInv, NetSound', InterfaceInv, OnConnectionSuccess \/ OnConnectionFailed \/ OnDisconnect
  PROVE  AnswerInv'
<1>1. /\ UNCHANGED vars /\ UNCHANGED <<mConnectCallback, prompt, answers>> /\ main = "status"
      /\ \/ main' = "idle"
         \/ main' = "callback" /\ event' = event /\ event.name \in CallbackName
  BY DEF OnConnectionSuccess, OnConnectionFailed, OnDisconnect, Handles, Return, connectVars, answerVars, CallbackName
<1>2. MainSound' /\ AnsweredOnce'
  BY <1>1 DEF AnswerInv, MainSound, SoundEvent, AnsweredOnce
<1>3. ASSUME NEW c \in Conn PROVE OnePlace(c)'
  <2>1. OnePlace(c)
    BY DEF AnswerInv
  <2>2. InMain(c)' => InMain(c)
    BY <1>1, ReportsKeep DEF InMain
  <2>. QED BY <1>1, <2>1, <2>2, StillPlaces, SameQueues, NoNewPlace
<1>4. CallbackKept'
  BY <1>1, CallbacksStay DEF AnswerInv, InterfaceInv, OwnTypes, Inv, TypeOK, vars, gameVars
<1>. QED BY <1>2, <1>3, <1>4 DEF AnswerInv

\* The callback called is the one of the connection the event is about.
LEMMA CallBackAnswers ==
  ASSUME Inv, Agree, AnswerInv, NetSound', InterfaceInv, CallBack
  PROVE  AnswerInv'
<1> DEFINE d == event.conn
<1>1. /\ main = "callback" /\ event \in SoundEvent /\ event.name \in CallbackName
      /\ d \in Conn /\ event.type = TypeOf[d] /\ event \in DefMessage
  BY DEF CallBack, AnswerInv, MainSound, SoundEvent
<1>2. event = Msg(event.name, TypeOf[d], d)
  BY <1>1 DEF DefMessage, Msg
<1>3. InMain(d) /\ OnePlace(d)
  BY <1>1, <1>2 DEF InMain, Answers, AnswerInv
<1>4. ~Answered(d) /\ Answerable(d)
  BY <1>3 DEF OnePlace
<1>5. d \in wanted
  <2>1. reported[d] # <<>>
    BY <1>4 DEF Answerable
  <2>2. owner[d] # "none"
    BY <1>1, <2>1 DEF Agree, Agrees, ReportAgrees, OwnerAgrees
  <2>. QED BY <1>1, <2>2 DEF AnswerInv, NetSound
<1>6. mConnectCallback[event.type] = d
  BY <1>1, <1>4, <1>5 DEF AnswerInv, CallbackKept
<1>7. /\ answers \in [Conn -> Seq(DefMessage)] /\ answers' = [answers EXCEPT ![d] = Append(@, event)]
      /\ UNCHANGED <<mConnectCallback, prompt>> /\ main' \in {"idle", "ended"}
  BY <1>6 DEF CallBack, Return, InterfaceInv, OwnTypes, connectVars
<1>8. answers'[d] = <<event>> /\ \A c \in Conn \ {d} : answers'[c] = answers[c]
  <2>1. answers'[d] = Append(answers[d], event) /\ answers[d] = <<>>
    BY <1>1, <1>4, <1>7 DEF Answered
  <2>. QED BY <1>7, <2>1
<1>9. wanted' = wanted
  BY DEF CallBack, SendToServer, Request, vars, gameVars
<1>10. AnsweredOnce'
  <2>1. ASSUME NEW c \in Conn, c # d
        PROVE  \/ answers'[c] = <<>>
               \/ \E name \in {"ServerConnected", "ServerConnectionFailed"} : answers'[c] = <<Msg(name, TypeOf[c], c)>>
    BY <1>8, <2>1 DEF AnswerInv, AnsweredOnce
  <2>2. \E name \in {"ServerConnected", "ServerConnectionFailed"} : answers'[d] = <<Msg(name, TypeOf[d], d)>>
    BY <1>1, <1>2, <1>8 DEF CallbackName
  <2>. QED BY <2>1, <2>2 DEF AnsweredOnce
<1>11. ASSUME NEW c \in Conn PROVE OnePlace(c)'
  <2>1. OnePlace(c) /\ NetSound
    BY DEF AnswerInv
  <2>2. /\ OnceInNet(c)' /\ OnceInDef(c)'
        /\ InNet(c)' <=> InNet(c)
        /\ InWork(c)' <=> InWork(c)
        /\ InDef(c)' <=> InDef(c)
        /\ Answerable(c)' <=> Answerable(c)
    <3>1. CASE UNCHANGED vars
      BY <2>1, <3>1, StillPlaces
    <3>2. CASE SendToServer(event.type)
      <4>1. Post(Msg("NetworkServerSend", event.type, NoConn)) /\ UNCHANGED <<connVars, managerVars>>
        BY <3>2 DEF SendToServer, Request
      <4>. QED BY <2>1, <4>1, RequestPlaces DEF RequestName
    <3>. QED BY <3>1, <3>2 DEF CallBack
  <2>3. ~InMain(c)'
    BY <1>7 DEF InMain
  <2>4. c # d => (Answered(c)' <=> Answered(c))
    BY <1>8 DEF Answered
  <2>5. c = d => ~InNet(c) /\ ~InWork(c) /\ ~InDef(c) /\ Answerable(c)
    BY <1>3, <1>4 DEF OnePlace
  <2>. QED BY <2>1, <2>2, <2>3, <2>4, <2>5 DEF OnePlace
<1>12. CallbackKept'
  <2>1. \A c \in Conn : answers'[c] = <<>> => answers[c] = <<>>
    BY <1>8
  <2>. QED BY <1>7, <1>9, <2>1, CallbacksStay DEF AnswerInv, InterfaceInv, OwnTypes, Inv, TypeOK
<1>13. MainSound'
  BY <1>7 DEF MainSound
<1>. QED BY <1>10, <1>11, <1>12, <1>13 DEF AnswerInv

LEMMA NextAnswers ==
  ASSUME InterfaceInv, Agree, AnswerInv, [InterfaceNext]_allVars
  PROVE  AnswerInv'
<1>1. Inv /\ NetSound'
  BY StepIsGame, NextNetSound DEF InterfaceInv, AnswerInv
<1>2. CASE \/ \E w \in Worker : ManagerStep(w)
           \/ \E c \in Conn : NetworkStep(c) /\ UNCHANGED interfaceVars
           \/ UNCHANGED allVars
  BY <1>1, <1>2, ManagerAnswers DEF ManagerStep, allVars
<1>3. ASSUME NEW t \in ServerType, BeginConnect(t) \/ ConnectCall(t) \/ GameDisconnect(t)
      PROVE  AnswerInv'
  BY <1>1, <1>3, PromptAnswers
<1>4. CASE MainRuns
  BY <1>1, <1>4, TakeAnswers, HandlersAnswer, CallBackAnswers DEF MainRuns
<1>. QED BY <1>2, <1>3, <1>4 DEF InterfaceNext

LEMMA InitAnswers == InterfaceInit => AnswerInv
<1> SUFFICES ASSUME InterfaceInit PROVE AnswerInv
  OBVIOUS
<1>1. /\ netQueue = <<>> /\ defQueue = <<>> /\ wanted = {} /\ main = "idle"
      /\ hand = [w \in Worker |-> NoMsg] /\ pc = [w \in Worker |-> "idle"]
      /\ owner = [c \in Conn |-> "none"] /\ answers = [c \in Conn |-> <<>>]
      /\ mConnectCallback = [t \in ServerType |-> NoConn] /\ prompt = [t \in ServerType |-> "idle"]
  BY DEF InterfaceInit, Init, QueueInit, ConnInit
<1>2. NetSound /\ MainSound
  BY <1>1 DEF NetSound, MainSound
<1>3. \A c \in Conn : OnePlace(c)
  BY <1>1 DEF OnePlace, OnceInNet, OnceInDef, InNet, InDef, InWork, InMain, Answered
<1>4. CallbackKept /\ AnsweredOnce
  BY <1>1 DEF CallbackKept, AnsweredOnce
<1>. QED BY <1>2, <1>3, <1>4 DEF AnswerInv

(***************************************************************************)
(* A callback is called at most once, with an event about its own          *)
(* connection, for any number of servers, connections and workers: the     *)
(* answer is in one place at a time, and mConnectCallback is not replaced  *)
(* while it is under way.                                                  *)
(***************************************************************************)
THEOREM EachConnectAnsweredOnce == InterfaceSpec => []AnsweredOnce
<1>1. AnswerInv => AnsweredOnce
  BY DEF AnswerInv
<1>. QED
  BY <1>1, InitAnswers, NextAnswers, InterfaceInvariant, ImplementsManager, NoticeInvariant, PTL DEF InterfaceSpec

-----------------------------------------------------------------------------
(* The events of a connection, from its service thread to the main thread. *)

LEMMA NamesType ==
  ASSUME NEW c, NEW kinds, NEW S, NEW q \in Seq(S)
  PROVE  NamesAbout(c, q, kinds) \in Seq(kinds)
<1>1. Selected(q, About(c, kinds)) \in Seq(S \cap About(c, kinds))
  BY SelectedType
<1>2. PICK s \in Seq(About(c, kinds)) : s = Selected(q, About(c, kinds))
  BY <1>1
<1>3. \A i \in 1 .. Len(s) : s[i].name \in kinds
  <2>1. \A i \in 1 .. Len(s) : s[i] \in About(c, kinds)
    BY ElementOfSeq
  <2>. QED BY <2>1 DEF About
<1>4. Names(s) \in Seq(kinds)
  BY <1>3 DEF Names
<1>. QED BY <1>2, <1>4 DEF NamesAbout

LEMMA NamesConcat ==
  ASSUME NEW c, NEW kinds, NEW S, NEW p \in Seq(S), NEW q \in Seq(S)
  PROVE  NamesAbout(c, p \o q, kinds) = NamesAbout(c, p, kinds) \o NamesAbout(c, q, kinds)
<1> DEFINE K == About(c, kinds)
<1>1. Selected(p \o q, K) = Selected(p, K) \o Selected(q, K)
  BY SelectedConcat
<1>2. Selected(p, K) \in Seq(S) /\ Selected(q, K) \in Seq(S)
  BY SelectedType
<1>3. ASSUME NEW a \in Seq(S), NEW b \in Seq(S) PROVE Names(a \o b) = Names(a) \o Names(b)
  BY DEF Names
<1>. QED BY <1>1, <1>2, <1>3, Zenon DEF NamesAbout

LEMMA NamesOne ==
  ASSUME NEW c, NEW kinds, NEW m
  PROVE  NamesAbout(c, <<m>>, kinds) = IF m \in About(c, kinds) THEN <<m.name>> ELSE <<>>
<1> DEFINE K == About(c, kinds)
<1>1. Names(<<m>>) = <<m.name>> /\ Names(<<>>) = <<>>
  BY DEF Names
<1> HIDE DEF K
<1>2. Selected(<<m>>, K) = IF m \in K THEN <<m>> ELSE <<>>
  BY SelectedOne
<1>. QED BY <1>1, <1>2 DEF NamesAbout, K

LEMMA EventsConcat ==
  ASSUME NEW a \in Seq(ReportName), NEW b \in Seq(ReportName)
  PROVE  /\ AsEvents(a) \in Seq(EventName)
         /\ AsEvents(a \o b) = AsEvents(a) \o AsEvents(b)
<1>1. \A i \in 1 .. Len(a) : Event[a[i]] \in EventName
  BY ElementOfSeq DEF EventName
<1>2. AsEvents(a) \in Seq(EventName)
  BY <1>1 DEF AsEvents
<1>3. AsEvents(a \o b) = AsEvents(a) \o AsEvents(b)
  BY DEF AsEvents
<1>. QED BY <1>2, <1>3

LEMMA EventsOne == ASSUME NEW n PROVE AsEvents(<<n>>) = <<Event[n]>>
BY DEF AsEvents

\* A message is the last, or the first, of those about its connection.
LEMMA NamesLast ==
  ASSUME NEW c, NEW kinds, NEW S, NEW q \in Seq(S), NEW m \in S
  PROVE  NamesAbout(c, Append(q, m), kinds) =
           IF m \in About(c, kinds) THEN NamesAbout(c, q, kinds) \o <<m.name>> ELSE NamesAbout(c, q, kinds)
<1>1. <<m>> \in Seq(S) /\ Append(q, m) = q \o <<m>>
  BY AppendIsConcat
<1>2. NamesAbout(c, q \o <<m>>, kinds) = NamesAbout(c, q, kinds) \o NamesAbout(c, <<m>>, kinds)
  BY <1>1, NamesConcat
<1>3. NamesAbout(c, q, kinds) \o <<>> = NamesAbout(c, q, kinds)
  BY NamesType, ConcatEmptySeq
<1>. QED BY <1>1, <1>2, <1>3, NamesOne

LEMMA NamesFirst ==
  ASSUME NEW c, NEW kinds, NEW S, NEW q \in Seq(S), NEW m \in S
  PROVE  NamesAbout(c, <<m>> \o q, kinds) =
           IF m \in About(c, kinds) THEN <<m.name>> \o NamesAbout(c, q, kinds) ELSE NamesAbout(c, q, kinds)
<1> DEFINE p == <<m>>
<1>1. p \in Seq(S)
  OBVIOUS
<1>2. NamesAbout(c, p \o q, kinds) = NamesAbout(c, p, kinds) \o NamesAbout(c, q, kinds)
  <2> HIDE DEF p
  <2>. QED BY <1>1, NamesConcat
<1>3. <<>> \o NamesAbout(c, q, kinds) = NamesAbout(c, q, kinds)
  BY NamesType, ConcatEmptySeq
<1>. QED BY <1>2, <1>3, NamesOne

\* Only a NetworkServerConnect makes the dispatcher build a connection.
BuildsOnRequest == \A w \in Worker : pc[w] = "construct" => hand[w].name = "NetworkServerConnect"

\* The events of c that have reached the Default queue, and those on their way.
Arrived(c) == NamesAbout(c, defQueue, EventName)
OnTheWay(c) == NamesAbout(c, Held \o netQueue, ReportName)

InOrder(c) == taken[c] \o Arrived(c) \o AsEvents(OnTheWay(c)) = AsEvents(reported[c])

LEMMA OrderTypes ==
  ASSUME InterfaceInv, NEW c \in Conn
  PROVE  /\ netQueue \in Seq(NetMessage) /\ defQueue \in Seq(DefMessage)
         /\ Held \in Seq(NetMessage) /\ Held \o netQueue \in Seq(NetMessage)
         /\ taken \in [Conn -> Seq(EventName)] /\ taken[c] \in Seq(EventName)
         /\ Arrived(c) \in Seq(EventName) /\ OnTheWay(c) \in Seq(ReportName)
         /\ AsEvents(OnTheWay(c)) \in Seq(EventName)
         /\ reported \in [Conn -> Seq(ReportName)] /\ reported[c] \in Seq(ReportName)
<1>1. netQueue \in Seq(NetMessage) /\ defQueue \in Seq(DefMessage)
  BY DEF InterfaceInv, Inv, TypeOK, QueueTypeOK
<1>2. taken \in [Conn -> Seq(EventName)] /\ reported \in [Conn -> Seq(ReportName)]
  BY DEF InterfaceInv, OwnTypes, Inv, TypeOK, ConnTypeOK
<1>3. Held \in Seq(NetMessage)
  <2>1. hand \in [Worker -> NetMessage \union {NoMsg}]
    BY DEF InterfaceInv, Inv, TypeOK
  <2>2. Current \in NetMessage \union {NoMsg}
    BY <2>1 DEF Current, CurrentIn
  <2>. QED BY <2>2 DEF Held
<1>4. Held \o netQueue \in Seq(NetMessage)
  BY <1>1, <1>3, ConcatProperties
<1>5. Arrived(c) \in Seq(EventName) /\ OnTheWay(c) \in Seq(ReportName)
  BY <1>1, <1>4, NamesType DEF Arrived, OnTheWay
<1>6. AsEvents(OnTheWay(c)) \in Seq(EventName)
  BY <1>5, EventsConcat
<1>. QED BY <1>1, <1>2, <1>3, <1>4, <1>5, <1>6

LEMMA OrderStays ==
  ASSUME NEW c \in Conn, InOrder(c), UNCHANGED <<netQueue, defQueue, hand, reported, taken>>
  PROVE  InOrder(c)'
<1>1. Current' = Current
  BY Zenon DEF Current
<1>2. Held' = Held
  BY <1>1 DEF Held
<1>3. Arrived(c)' = Arrived(c) /\ OnTheWay(c)' = OnTheWay(c)
  BY <1>2 DEF Arrived, OnTheWay, NamesAbout, About
<1>. QED BY <1>3 DEF InOrder

\* What a handler does to the event in its hands.
LEMMA HandlerEvents ==
  ASSUME Inv, BuildsOnRequest, NEW w \in Worker, HandlerStep(w)
  PROVE  \/ hand' = hand /\ defQueue' = defQueue
         \/ /\ hand' = [hand EXCEPT ![w] = NoMsg] /\ defQueue' = defQueue
            /\ hand[w].name \in RequestName
         \/ /\ hand' = [hand EXCEPT ![w] = NoMsg] /\ hand[w].name \in ReportName
            /\ defQueue' = Append(defQueue, Msg(Event[hand[w].name], hand[w].type, hand[w].conn))
<1>1. ASSUME NEW n \in DefaultName, PassOn(w, n)
      PROVE  defQueue' = Append(defQueue, Msg(n, hand[w].type, hand[w].conn))
  BY <1>1 DEF PassOn, Post, Msg, DefaultName, NetworkName, ReportName, RequestName
<1>2. ASSUME NEW n \in ReportName, hand[w].name = n, PassOn(w, Event[n]), Done(w)
      PROVE  /\ hand' = [hand EXCEPT ![w] = NoMsg] /\ hand[w].name \in ReportName
             /\ defQueue' = Append(defQueue, Msg(Event[hand[w].name], hand[w].type, hand[w].conn))
  BY <1>1, <1>2 DEF Done, ReportName, Event, DefaultName
<1>3. CASE ConnectToServer(w) \/ CloseReturned(w) \/ EndDisconnect(w) \/ Destroy(w)
  BY <1>3 DEF ConnectToServer, CloseReturned, EndDisconnect, Destroy, ResetSlot, NewConnection, queueVars, managerVars
<1>4. CASE EndConnect(w)
  BY <1>4 DEF EndConnect, BuildsOnRequest, Done, queueVars, RequestName
<1>5. CASE DisconnectFrom(w) \/ SendPacket(w)
  BY <1>5 DEF DisconnectFrom, SendPacket, Handling, Done, queueVars, RequestName
<1>6. CASE AfterDestroy(w)
  BY <1>2, <1>6 DEF AfterDestroy, NewConnection, Done, queueVars, RequestName, ReportName, Event
<1>7. CASE ServerDisconnected(w) \/ ServerConnected(w)
  BY <1>2, <1>7 DEF ServerDisconnected, ServerConnected, ResetSlot, Handling, queueVars, ReportName, Event
<1>. QED BY <1>3, <1>4, <1>5, <1>6, <1>7 DEF HandlerStep

LEMMA NextBuilds ==
  ASSUME Inv, BuildsOnRequest, [Next]_vars
  PROVE  BuildsOnRequest'
<1> USE DEF BuildsOnRequest
<1>0. pc \in [Worker -> WorkerPC] /\ hand \in [Worker -> NetMessage \union {NoMsg}]
  BY DEF Inv, TypeOK
<1>1. ASSUME NEW w \in Worker, DispatchStep(w) PROVE BuildsOnRequest'
  BY <1>0, <1>1 DEF DispatchStep, BeginUpdate, TryPop, TryPopEmpty, EndUpdate, WorkerGoto
<1>2. ASSUME NEW w \in Worker, HandlerStep(w) PROVE BuildsOnRequest'
  BY <1>0, <1>2 DEF HandlerStep, ConnectToServer, EndConnect, DisconnectFrom, CloseReturned, EndDisconnect,
     Destroy, AfterDestroy, ServerDisconnected, ServerConnected, SendPacket, ResetSlot, NewConnection, Done,
     Handling, managerVars
<1>3. CASE (\E c \in Conn : NetworkStep(c)) \/ GameRequest \/ GameTakes \/ UNCHANGED vars
  BY <1>3 DEF NetworkStep, GameRequest, GameTakes, Connect, Disconnect, SendToServer, Request, vars, managerVars
<1>. QED BY <1>1, <1>2, <1>3, NextParts

\* A message that is no event about c may join a queue.
LEMMA OthersOrdered ==
  ASSUME InterfaceInv, NEW c \in Conn, InOrder(c), UNCHANGED <<hand, taken>>, reported'[c] = reported[c],
         \/ UNCHANGED queueVars
         \/ \E m \in DefMessage \ About(c, EventName) :
              defQueue' = Append(defQueue, m) /\ netQueue' = netQueue
         \/ \E m \in NetMessage \ About(c, ReportName) :
              netQueue' = Append(netQueue, m) /\ defQueue' = defQueue
  PROVE  InOrder(c)'
<1>0. Held' = Held
  <2>1. Current' = Current
    BY Zenon DEF Current
  <2>. QED BY <2>1 DEF Held
<1>2. Arrived(c)' = Arrived(c)
  <2>1. CASE defQueue' = defQueue
    BY <2>1 DEF Arrived, NamesAbout, About
  <2>2. ASSUME NEW m \in DefMessage \ About(c, EventName), defQueue' = Append(defQueue, m)
        PROVE  Arrived(c)' = Arrived(c)
    <3>1. NamesAbout(c, Append(defQueue, m), EventName) = Arrived(c)
      BY OrderTypes, NamesLast DEF Arrived
    <3>. QED BY <2>2, <3>1 DEF Arrived, NamesAbout, About
  <2>. QED BY <2>1, <2>2 DEF queueVars
<1>3. OnTheWay(c)' = OnTheWay(c)
  <2>1. CASE netQueue' = netQueue
    BY <1>0, <2>1 DEF OnTheWay, NamesAbout, About
  <2>2. ASSUME NEW m \in NetMessage \ About(c, ReportName), netQueue' = Append(netQueue, m)
        PROVE  OnTheWay(c)' = OnTheWay(c)
    <3>1. Held' \o netQueue' = Append(Held \o netQueue, m)
      BY <1>0, <2>2, OrderTypes
    <3>2. NamesAbout(c, Append(Held \o netQueue, m), ReportName) = OnTheWay(c)
      BY OrderTypes, NamesLast DEF OnTheWay
    <3>. QED BY <3>1, <3>2 DEF OnTheWay, NamesAbout, About
  <2>. QED BY <2>1, <2>2 DEF queueVars
<1>. QED BY <1>2, <1>3 DEF InOrder

LEMMA NetworkOrdered ==
  ASSUME InterfaceInv, NEW d \in Conn, NetworkStep(d), taken' = taken, NEW c \in Conn, InOrder(c)
  PROVE  InOrder(c)'
<1>0. ConnTypeOK /\ TypeOf[d] \in ServerType
  BY ConnectionAssumption DEF InterfaceInv, Inv, TypeOK
<1>1. hand' = hand
  BY <1>0, NetworkEffect
<1>2. CASE UNCHANGED <<netQueue, defQueue, reported>>
  BY <1>1, <1>2, OrderStays
<1>3. CASE /\ UNCHANGED <<netQueue, reported>>
           /\ defQueue' = Append(defQueue, Msg("Packet", TypeOf[d], d))
  <2>1. Msg("Packet", TypeOf[d], d) \in DefMessage \ About(c, EventName)
    BY <1>0 DEF Msg, DefMessage, DefaultName, About, EventName, Event, ReportName
  <2>. QED BY <1>1, <1>3, <2>1, OthersOrdered
<1>4. ASSUME NEW n \in ReportName,
             netQueue' = Append(netQueue, Msg(n, TypeOf[d], d)), defQueue' = defQueue,
             reported' = [reported EXCEPT ![d] = Append(@, n)]
      PROVE  InOrder(c)'
  <2> DEFINE m == Msg(n, TypeOf[d], d)
  <2>1. m \in NetMessage /\ m.name = n /\ (m \in About(c, ReportName) <=> c = d)
    BY <1>0 DEF Msg, NetMessage, NetworkName, About
  <2>2. CASE c # d
    BY <1>1, <1>4, <2>1, <2>2, OrderTypes, OthersOrdered
  <2>3. CASE c = d
    <3>1. Held' = Held
      <4>1. Current' = Current
        BY <1>1, Zenon DEF Current
      <4>. QED BY <4>1 DEF Held
    <3> HIDE DEF m
    <3>2. Held' \o netQueue' = Append(Held \o netQueue, m)
      BY <1>4, <3>1, OrderTypes DEF m
    <3>3. NamesAbout(c, Append(Held \o netQueue, m), ReportName) = OnTheWay(c) \o <<n>>
      BY <2>1, <2>3, OrderTypes, NamesLast DEF OnTheWay
    <3>4. OnTheWay(c)' = OnTheWay(c) \o <<n>>
      BY <3>2, <3>3 DEF OnTheWay, NamesAbout, About
    <3>5. Arrived(c)' = Arrived(c)
      BY <1>4 DEF Arrived, NamesAbout, About
    <3>6. reported'[c] = reported[c] \o <<n>> /\ <<n>> \in Seq(ReportName)
      <4>1. reported'[c] = Append(reported[c], n)
        BY <1>4, <2>3, OrderTypes
      <4>2. Append(reported[c], n) = reported[c] \o <<n>>
        BY OrderTypes, AppendIsConcat
      <4>. QED BY <4>1, <4>2
    <3>7. /\ AsEvents(OnTheWay(c) \o <<n>>) = AsEvents(OnTheWay(c)) \o <<Event[n]>>
          /\ AsEvents(reported[c] \o <<n>>) = AsEvents(reported[c]) \o <<Event[n]>>
      BY <3>6, OrderTypes, EventsConcat, EventsOne
    <3> DEFINE f == <<Event[n]>>
    <3>8. f \in Seq(EventName)
      BY DEF EventName
    <3>9. taken[c] \o Arrived(c) \o (AsEvents(OnTheWay(c)) \o f) = AsEvents(reported[c]) \o f
      <4> DEFINE told == Join(taken[c], Arrived(c))
      <4>1. told \in Seq(EventName)
        BY OrderTypes, JoinAssociates
      <4>2. Join(told, Join(AsEvents(OnTheWay(c)), f)) = Join(Join(told, AsEvents(OnTheWay(c))), f)
        <5> HIDE DEF told, f
        <5>. QED BY <3>8, <4>1, OrderTypes, JoinAssociates
      <4>. QED BY <4>2, Zenon DEF Join, InOrder
    <3>10. AsEvents(OnTheWay(c))' = AsEvents(OnTheWay(c)) \o <<Event[n]>>
           /\ AsEvents(reported[c])' = AsEvents(reported[c]) \o <<Event[n]>>
      BY <3>4, <3>6, <3>7 DEF AsEvents
    <3>. QED BY <3>5, <3>9, <3>10 DEF InOrder
  <2>. QED BY <2>2, <2>3
<1>. QED BY <1>0, <1>2, <1>3, <1>4, NetworkEffect

LEMMA RequestOrdered ==
  ASSUME InterfaceInv, NEW n \in RequestName, NEW t \in ServerType, NEW d \in Conn \union {NoConn},
         Post(Msg(n, t, d)), UNCHANGED <<connVars, managerVars, taken>>, NEW c \in Conn, InOrder(c)
  PROVE  InOrder(c)'
<1>1. Msg(n, t, d) \in NetMessage \ About(c, ReportName)
  BY DEF Msg, NetMessage, NetworkName, About, RequestName, ReportName
<1>2. netQueue' = Append(netQueue, Msg(n, t, d)) /\ defQueue' = defQueue
  BY DEF Post, Msg, NetworkName
<1>. QED BY <1>1, <1>2, OthersOrdered DEF connVars, historyVars, managerVars

LEMMA DispatchOrdered ==
  ASSUME InterfaceInv, NEW w \in Worker, DispatchStep(w), taken' = taken, NEW c \in Conn, InOrder(c)
  PROVE  InOrder(c)'
<1>1. UNCHANGED <<defQueue, reported>>
  BY DEF DispatchStep, BeginUpdate, TryPop, TryPopEmpty, EndUpdate, connVars, queueVars, historyVars
<1>2. CASE TryPop(w)
  <2>1. Inv /\ InUpdate(w) /\ pc[w] = "pop"
    BY <1>2 DEF TryPop, WorkerGoto, InUpdate, InterfaceInv
  <2>2. Current = NoMsg /\ Held = <<>>
    BY <2>1, CurrentOf DEF InHandler, Held
  <2>3. /\ netQueue \in Seq(NetMessage) /\ netQueue # <<>> /\ netQueue' = Tail(netQueue)
        /\ hand' = [hand EXCEPT ![w] = Head(netQueue)]
    BY <1>2, OrderTypes DEF TryPop
  <2>4. Head(netQueue) # NoMsg /\ Head(netQueue) \in NetMessage /\ Tail(netQueue) \in Seq(NetMessage)
    BY <2>3, HeadTailProperties, ManagerAssumption
  <2>5. Current' = Head(netQueue)
    BY <2>1, <2>3, CurrentAfter
  <2>6. Held' = <<Head(netQueue)>>
    BY <2>4, <2>5 DEF Held
  <2>7. Held' \o netQueue' = Held \o netQueue
    <3>1. netQueue = <<Head(netQueue)>> \o Tail(netQueue) /\ <<>> \o netQueue = netQueue
      BY <2>3
    <3>. QED BY <2>2, <2>3, <2>6, <3>1
  <2>8. OnTheWay(c)' = OnTheWay(c) /\ Arrived(c)' = Arrived(c)
    BY <1>1, <2>7 DEF OnTheWay, Arrived, NamesAbout, About
  <2>. QED BY <1>1, <2>8 DEF InOrder
<1>3. CASE BeginUpdate(w) \/ TryPopEmpty(w) \/ EndUpdate(w)
  BY <1>1, <1>3, OrderStays DEF BeginUpdate, TryPopEmpty, EndUpdate, queueVars
<1>. QED BY <1>2, <1>3 DEF DispatchStep

LEMMA HandlerOrdered ==
  ASSUME InterfaceInv, NetSound, BuildsOnRequest, NEW w \in Worker, HandlerStep(w), taken' = taken,
         NEW c \in Conn, InOrder(c)
  PROVE  InOrder(c)'
<1> DEFINE m == hand[w]
<1>0. Inv /\ InUpdate(w) /\ pc[w] \in InHandler
  BY HandlerPlaces DEF InterfaceInv, InUpdate, InHandler
<1>1. netQueue' = netQueue /\ reported' = reported
  BY <1>0, HandlerEffect
<1>2. m # NoMsg /\ Current = m
  BY <1>0, CurrentOf
<1>3. m \in NetMessage /\ Held = <<m>>
  BY <1>0, <1>2 DEF Held, Inv, TypeOK
<1> HIDE DEF m
<1>4. CASE hand' = hand /\ defQueue' = defQueue
  BY <1>1, <1>4, OrderStays
<1>5. CASE hand' = [hand EXCEPT ![w] = NoMsg]
  <2>1. Current' = NoMsg
    BY <1>0, <1>5, CurrentAfter
  <2>2. Held' \o netQueue' = netQueue
    <3>1. Held' = <<>>
      BY <2>1 DEF Held
    <3>. QED BY <1>1, <3>1, OrderTypes
  <2>3. OnTheWay(c)' = NamesAbout(c, netQueue, ReportName)
    BY <2>2 DEF OnTheWay, NamesAbout, About
  <2>4. OnTheWay(c) = IF m \in About(c, ReportName) THEN <<m.name>> \o OnTheWay(c)' ELSE OnTheWay(c)'
    BY <1>3, <2>3, OrderTypes, NamesFirst DEF OnTheWay
  <2>5. CASE m.name \in RequestName /\ defQueue' = defQueue
    <3>1. m \notin About(c, ReportName)
      BY <2>5 DEF About, RequestName, ReportName
    <3>2. Arrived(c)' = Arrived(c)
      BY <2>5 DEF Arrived, NamesAbout, About
    <3>. QED BY <1>1, <2>4, <3>1, <3>2 DEF InOrder, AsEvents
  <2>6. CASE /\ m.name \in ReportName
             /\ defQueue' = Append(defQueue, Msg(Event[m.name], m.type, m.conn))
    <3> DEFINE e == Msg(Event[m.name], m.type, m.conn)
    <3>1. /\ e \in DefMessage /\ e.name = Event[m.name]
          /\ e \in About(c, EventName) <=> m.conn = c
          /\ m \in About(c, ReportName) <=> m.conn = c
      <4>1. Event[m.name] \in DefaultName /\ Event[m.name] \in EventName
        BY <2>6 DEF Event, EventName, ReportName, DefaultName
      <4>. QED BY <1>3, <2>6, <4>1 DEF Msg, DefMessage, NetMessage, About
    <3> HIDE DEF e
    <3>2. Arrived(c)' = NamesAbout(c, Append(defQueue, e), EventName)
      BY <2>6 DEF Arrived, NamesAbout, About, e
    <3>3. Arrived(c)' = IF m.conn = c THEN Arrived(c) \o <<Event[m.name]>> ELSE Arrived(c)
      BY <3>1, <3>2, OrderTypes, NamesLast DEF Arrived
    <3>4. CASE m.conn # c
      BY <1>1, <2>4, <3>1, <3>3, <3>4 DEF InOrder, AsEvents
    <3>5. CASE m.conn = c
      <4> DEFINE left == NamesAbout(c, netQueue, ReportName)
                 f == <<Event[m.name]>>
      <4>1. left \in Seq(ReportName) /\ f \in Seq(EventName) /\ <<m.name>> \in Seq(ReportName)
        <5>1. left \in Seq(ReportName)
          BY OrderTypes, NamesType
        <5>2. Event[m.name] \in EventName
          BY <2>6 DEF EventName
        <5>. QED BY <2>6, <5>1, <5>2
      <4>2. AsEvents(left) \in Seq(EventName) /\ AsEvents(OnTheWay(c)) = f \o AsEvents(left)
        <5>1. OnTheWay(c) = <<m.name>> \o left
          BY <2>3, <2>4, <3>1, <3>5
        <5>2. AsEvents(<<m.name>> \o left) = AsEvents(<<m.name>>) \o AsEvents(left)
          BY <4>1, EventsConcat
        <5>. QED BY <4>1, <5>1, <5>2, EventsConcat, EventsOne
      <4>3. AsEvents(OnTheWay(c))' = AsEvents(left)
        BY <2>3 DEF AsEvents
      <4>4. Arrived(c)' = Arrived(c) \o f
        BY <3>3, <3>5
      <4> HIDE DEF left, f
      <4>5. taken[c] \o (Arrived(c) \o f) \o AsEvents(left) = taken[c] \o Arrived(c) \o (f \o AsEvents(left))
        <5>1. /\ Join(taken[c], Join(Arrived(c), f)) = Join(Join(taken[c], Arrived(c)), f)
              /\ Join(taken[c], Arrived(c)) \in Seq(EventName)
          BY <4>1, OrderTypes, JoinAssociates
        <5>2. Join(Join(taken[c], Arrived(c)), Join(f, AsEvents(left)))
                = Join(Join(Join(taken[c], Arrived(c)), f), AsEvents(left))
          BY <4>1, <4>2, <5>1, JoinAssociates
        <5>3. Join(Join(taken[c], Arrived(c)), Join(f, AsEvents(left)))
                = Join(Join(taken[c], Join(Arrived(c), f)), AsEvents(left))
          BY <5>1, <5>2, Zenon
        <5>. QED BY <5>3, Zenon DEF Join
      <4>6. AsEvents(reported[c])' = AsEvents(reported[c])
        BY <1>1 DEF AsEvents
      <4>. QED BY <4>2, <4>3, <4>4, <4>5, <4>6, Zenon DEF InOrder
    <3>. QED BY <3>4, <3>5
  <2>. QED
    <3>1. \/ hand' = hand /\ defQueue' = defQueue
          \/ m.name \in RequestName /\ defQueue' = defQueue
          \/ m.name \in ReportName /\ defQueue' = Append(defQueue, Msg(Event[m.name], m.type, m.conn))
      BY <1>0, HandlerEvents DEF m
    <3>. QED BY <1>4, <2>5, <2>6, <3>1
<1>. QED BY <1>0, <1>4, <1>5, HandlerEvents

LEMMA TakeOrdered ==
  ASSUME InterfaceInv, TakeMessage, NEW c \in Conn, InOrder(c)
  PROVE  InOrder(c)'
<1> DEFINE m == Head(defQueue)
           rest == Tail(defQueue)
<1>1. UNCHANGED <<netQueue, hand, reported>> /\ defQueue # <<>> /\ defQueue' = rest
  BY DEF TakeMessage, connVars, historyVars, managerVars
<1>2. defQueue = <<m>> \o rest /\ m \in DefMessage /\ rest \in Seq(DefMessage)
  BY <1>1, OrderTypes
<1>3. \/ m.name = "Packet" /\ taken' = taken
      \/ m.name \in EventName /\ taken' = [taken EXCEPT ![m.conn] = Append(@, m.name)]
  BY DEF TakeMessage
<1> HIDE DEF m, rest
<1>4. Arrived(c)' = NamesAbout(c, rest, EventName)
  BY <1>1 DEF Arrived, NamesAbout, About
<1>5. Arrived(c) = IF m \in About(c, EventName) THEN <<m.name>> \o Arrived(c)' ELSE Arrived(c)'
  BY <1>2, <1>4, NamesFirst DEF Arrived
<1>6. OnTheWay(c)' = OnTheWay(c)
  <2>1. Current' = Current
    BY <1>1, Zenon DEF Current
  <2>2. Held' = Held
    BY <2>1 DEF Held
  <2>. QED BY <1>1, <2>2 DEF OnTheWay, NamesAbout, About
<1>7. AsEvents(OnTheWay(c))' = AsEvents(OnTheWay(c)) /\ AsEvents(reported[c])' = AsEvents(reported[c])
  BY <1>1, <1>6 DEF AsEvents
<1>8. CASE m \notin About(c, EventName)
  <2>1. taken'[c] = taken[c]
    BY <1>2, <1>3, <1>8, OrderTypes DEF About, DefMessage
  <2>. QED BY <1>5, <1>7, <1>8, <2>1 DEF InOrder
<1>9. CASE m \in About(c, EventName)
  <2> DEFINE f == <<m.name>>
             left == NamesAbout(c, rest, EventName)
  <2>1. m.name \in EventName /\ m.conn = c
    BY <1>9 DEF About
  <2>2. m.name # "Packet"
    BY <2>1 DEF EventName, Event, ReportName
  <2>3. taken'[c] = taken[c] \o f
    <3>1. taken'[c] = Append(taken[c], m.name)
      BY <1>3, <2>1, <2>2, OrderTypes
    <3>2. Append(taken[c], m.name) = taken[c] \o <<m.name>>
      BY <2>1, OrderTypes, AppendIsConcat
    <3>. QED BY <3>1, <3>2
  <2>4. f \in Seq(EventName) /\ left \in Seq(EventName)
    BY <1>2, <2>1, NamesType
  <2> HIDE DEF f, left
  <2>5. Arrived(c)' = left /\ Arrived(c) = f \o left
    BY <1>4, <1>5, <1>9 DEF left, f
  <2>6. Join(taken[c], Join(f, left)) = Join(Join(taken[c], f), left)
    BY <2>4, OrderTypes, JoinAssociates
  <2>7. taken'[c] \o Arrived(c)' = taken[c] \o Arrived(c)
    BY <2>3, <2>5, <2>6, Zenon DEF Join
  <2>. QED BY <1>7, <2>7, Zenon DEF InOrder
<1>. QED BY <1>8, <1>9

LEMMA CallsOrdered ==
  ASSUME InterfaceInv, NEW c \in Conn, InOrder(c),
         \/ \E t \in ServerType : BeginConnect(t) \/ ConnectCall(t) \/ GameDisconnect(t)
         \/ OnConnectionSuccess \/ OnConnectionFailed \/ OnDisconnect \/ CallBack
  PROVE  InOrder(c)'
<1>1. taken' = taken
  BY DEF BeginConnect, ConnectCall, StoreCallback, PostConnect, LoadStatus, EndConnectCall, GameDisconnect,
     OnConnectionSuccess, OnConnectionFailed, OnDisconnect, CallBack, answerVars
<1>2. CASE UNCHANGED vars
  BY <1>1, <1>2, OrderStays DEF vars, queueVars, connVars, historyVars, managerVars
<1>3. ASSUME NEW t \in ServerType, Disconnect(t) \/ SendToServer(t) PROVE InOrder(c)'
  <2>1. PICK n \in RequestName : Post(Msg(n, t, NoConn)) /\ UNCHANGED <<connVars, managerVars>>
    BY <1>3 DEF Disconnect, SendToServer, Request, RequestName
  <2>. QED BY <1>1, <2>1, RequestOrdered
<1>4. ASSUME NEW t \in ServerType, PostConnect(t) PROVE InOrder(c)'
  <2> DEFINE d == mConnectCallback[t]
  <2>1. d \in Conn /\ Connect(d)
    BY <1>4 DEF InterfaceInv, HoldsCallback, PostConnect, PromptGoto
  <2>2. TypeOf[d] \in ServerType /\ "NetworkServerConnect" \in RequestName
    BY <2>1, ConnectionAssumption DEF RequestName
  <2> HIDE DEF d
  <2>3. Post(Msg("NetworkServerConnect", TypeOf[d], d)) /\ UNCHANGED <<connVars, managerVars>>
    BY <2>1 DEF Connect
  <2>. QED BY <1>1, <2>1, <2>2, <2>3, RequestOrdered
<1>5. CASE CallBack
  <2>1. event.type \in ServerType
    BY <1>5 DEF CallBack, InterfaceInv, HoldsEvent, DefMessage
  <2>. QED BY <1>2, <1>3, <1>5, <2>1 DEF CallBack
<1>. QED BY <1>2, <1>3, <1>4, <1>5 DEF BeginConnect, ConnectCall, StoreCallback, LoadStatus, EndConnectCall,
            GameDisconnect, OnConnectionSuccess, OnConnectionFailed, OnDisconnect

LEMMA NextOrdered ==
  ASSUME InterfaceInv, NetSound, BuildsOnRequest, [InterfaceNext]_allVars, NEW c \in Conn, InOrder(c)
  PROVE  InOrder(c)'
<1>1. ASSUME NEW w \in Worker, ManagerStep(w) PROVE InOrder(c)'
  <2>1. taken' = taken /\ (DispatchStep(w) \/ HandlerStep(w))
    BY <1>1 DEF ManagerStep, WorkerStep, DispatchStep, HandlerStep, interfaceVars, answerVars
  <2>. QED BY <2>1, DispatchOrdered, HandlerOrdered
<1>2. ASSUME NEW d \in Conn, NetworkStep(d), UNCHANGED interfaceVars PROVE InOrder(c)'
  BY <1>2, NetworkOrdered DEF interfaceVars, answerVars
<1>3. CASE UNCHANGED allVars
  BY <1>3, OrderStays DEF allVars, interfaceVars, answerVars, vars, queueVars, connVars, historyVars, managerVars
<1>. QED BY <1>1, <1>2, <1>3, TakeOrdered, CallsOrdered DEF InterfaceNext, MainRuns

LEMMA OrderedIsInOrder == EventsInOrder <=> \A c \in Conn : InOrder(c)
BY DEF EventsInOrder, InOrder, Arrived, OnTheWay

LEMMA InitOrdered == InterfaceInit => BuildsOnRequest /\ EventsInOrder
<1> SUFFICES ASSUME InterfaceInit PROVE BuildsOnRequest /\ \A c \in Conn : InOrder(c)
  BY OrderedIsInOrder
<1>1. /\ netQueue = <<>> /\ defQueue = <<>> /\ taken = [c \in Conn |-> <<>>]
      /\ reported = [c \in Conn |-> <<>>] /\ pc = [w \in Worker |-> "idle"]
      /\ hand = [w \in Worker |-> NoMsg]
  BY DEF InterfaceInit, Init, QueueInit, ConnInit
<1>2. Held = <<>>
  BY <1>1 DEF Held, Current, CurrentIn
<1>3. \A c, k : NamesAbout(c, <<>>, k) = <<>>
  BY SelectedEmpty DEF NamesAbout, Names
<1>4. AsEvents(<<>>) = <<>> /\ <<>> \o <<>> = <<>>
  BY DEF AsEvents
<1>5. ASSUME NEW c \in Conn PROVE InOrder(c)
  <2>1. Held \o netQueue = <<>> /\ taken[c] = <<>> /\ reported[c] = <<>>
    BY <1>1, <1>2, <1>4
  <2>2. Arrived(c) = <<>> /\ OnTheWay(c) = <<>>
    BY <1>1, <1>3, <2>1 DEF Arrived, OnTheWay
  <2>. QED BY <1>4, <2>1, <2>2 DEF InOrder
<1>6. BuildsOnRequest
  BY <1>1 DEF BuildsOnRequest
<1>. QED BY <1>5, <1>6

(***************************************************************************)
(* For any number of connections, servers and workers, what the main       *)
(* thread has been told of a connection, what the two queues and the       *)
(* worker that dispatches still hold of it, and what its service thread    *)
(* has said are one sequence: no event is lost, repeated or overtaken.     *)
(***************************************************************************)
THEOREM EventsKeepTheirOrder == InterfaceSpec => []EventsInOrder
<1>1. InterfaceInv /\ AnswerInv /\ BuildsOnRequest /\ EventsInOrder /\ [InterfaceNext]_allVars
        => BuildsOnRequest' /\ EventsInOrder'
  <2> SUFFICES ASSUME InterfaceInv, AnswerInv, BuildsOnRequest, \A c \in Conn : InOrder(c),
                      [InterfaceNext]_allVars
               PROVE  BuildsOnRequest' /\ \A c \in Conn : InOrder(c)'
    BY OrderedIsInOrder DEF EventsInOrder, InOrder, Arrived, OnTheWay
  <2>1. BuildsOnRequest'
    BY StepIsGame, NextBuilds DEF InterfaceInv
  <2>2. \A c \in Conn : InOrder(c)'
    BY NextOrdered DEF AnswerInv
  <2>. QED BY <2>1, <2>2
<1>. QED
  BY <1>1, InitOrdered, InitAnswers, NextAnswers, InterfaceInvariant, ImplementsManager, NoticeInvariant, PTL
  DEF InterfaceSpec
=============================================================================
