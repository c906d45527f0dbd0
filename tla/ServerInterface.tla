--------------------------- MODULE ServerInterface ---------------------------
(***************************************************************************)
(* RoServerInterface: what the game knows of its connection to one server. *)
(* connect() runs on the worker thread of a prompt; the events of the      *)
(* connection come back through the Default queue, which the main thread   *)
(* dispatches; disconnect() and asyncSendPacket() run on the main thread.  *)
(* The two threads share mConnectionStatus and mConnectCallback.           *)
(*                                                                         *)
(* The users are RoLoginState and RoCharacterServerInterface.  Both leave  *)
(* a server alone until their callback has been called, and both send the  *)
(* login packet from the callback, when it brings no error.                *)
(*                                                                         *)
(* prompt[t] is where the thread in connect() to t stands: about to store  *)
(* the callback, to post the request, to load the status, to exchange it.  *)
(* main is where the main thread stands:                                   *)
(*   idle      between two messages, or in the update of the game state    *)
(*   status    at the changeStatus of the handler of event                 *)
(*   callback  about to look at mConnectCallback                           *)
(*   ended     an exception has ended the game loop                        *)
(***************************************************************************)
EXTENDS NetworkManager, Selection, FiniteSets

CONSTANT MaxDisconnects   (* bound: disconnect() called by the game states *)

\* MaxRequests leaves room for every request the interface makes.
ASSUME InterfaceAssumption ==
  /\ MaxDisconnects \in Nat
  /\ MaxRequests >= 2 * Cardinality(Conn) + MaxDisconnects

VARIABLES
  mConnectionStatus,  (* atomic, for each server type                      *)
  mConnectCallback,   (* the callback stored, named by its connection      *)
  prompt, seen,       (* the thread in connect(), and the status it loaded *)
  main, event,        (* the main thread, and the message it handles       *)
  disconnects,        (* disconnect() so far, for the bound MaxDisconnects *)
  taken,              (* history: the events handled about a connection    *)
  answers             (* history: the calls of each callback               *)

connectVars == <<mConnectCallback, prompt, seen>>
mainVars == <<main, event, disconnects>>
answerVars == <<taken, answers>>
interfaceVars == <<mConnectionStatus, connectVars, mainVars, answerVars>>

allVars == <<vars, interfaceVars>>

Status == {"DISCONNECTED", "CONNECTING", "CONNECTED", "DISCONNECTING"}

InterfaceInit ==
  /\ Init
  /\ mConnectionStatus = [t \in ServerType |-> "DISCONNECTED"]
  /\ mConnectCallback = [t \in ServerType |-> NoConn]
  /\ prompt = [t \in ServerType |-> "idle"]
  /\ seen = [t \in ServerType |-> "DISCONNECTED"]
  /\ main = "idle"
  /\ event = NoMsg
  /\ disconnects = 0
  /\ taken = [c \in Conn |-> <<>>]
  /\ answers = [c \in Conn |-> <<>>]

IsConnected(t) == mConnectionStatus[t] = "CONNECTED"

\* A game state waits for its callback before it turns to the server again.
NoAnswerDue(t) == mConnectCallback[t] # NoConn => answers[mConnectCallback[t]] # <<>>

\* changeStatus: a compare and exchange that fails is only logged.
ChangeStatus(t, expected, new) ==
  mConnectionStatus' = [mConnectionStatus EXCEPT ![t] = IF @ = expected THEN new ELSE @]

-----------------------------------------------------------------------------
(* connect(), one step for each access another thread can see.             *)

PromptGoto(t, from, to) ==
  /\ prompt[t] = from
  /\ prompt' = [prompt EXCEPT ![t] = to]

\* One prompt of one state calls connect() of an interface, and the game shows
\* one prompt at a time (OnePrompt of LoginFlow): the calls do not overlap.
\* disconnect() looks at the status again and finds the same: only connect()
\* itself moves it away from CONNECTED.
BeginConnect(t) ==
  /\ main # "ended" /\ NoAnswerDue(t)
  /\ \E c \in Conn \ wanted : TypeOf[c] = t
  /\ PromptGoto(t, "idle", "callback")
  /\ IF IsConnected(t) THEN Disconnect(t) ELSE UNCHANGED vars
  /\ UNCHANGED <<mConnectionStatus, mConnectCallback, seen, mainVars, answerVars>>

StoreCallback(t) ==
  /\ PromptGoto(t, "callback", "post")
  /\ \E c \in Conn \ wanted :
       /\ TypeOf[c] = t
       /\ mConnectCallback' = [mConnectCallback EXCEPT ![t] = c]
  /\ UNCHANGED <<vars, mConnectionStatus, seen, mainVars, answerVars>>

PostConnect(t) ==
  /\ PromptGoto(t, "post", "load")
  /\ Connect(mConnectCallback[t])
  /\ UNCHANGED <<mConnectionStatus, mConnectCallback, seen, mainVars, answerVars>>

LoadStatus(t) ==
  /\ PromptGoto(t, "load", "exchange")
  /\ seen' = [seen EXCEPT ![t] = mConnectionStatus[t]]
  /\ UNCHANGED <<vars, mConnectionStatus, mConnectCallback, mainVars, answerVars>>

EndConnectCall(t) ==
  /\ PromptGoto(t, "exchange", "idle")
  /\ ChangeStatus(t, seen[t], "CONNECTING")
  /\ UNCHANGED <<vars, mConnectCallback, seen, mainVars, answerVars>>

ConnectCall(t) ==
  \/ StoreCallback(t) \/ PostConnect(t) \/ LoadStatus(t) \/ EndConnectCall(t)

-----------------------------------------------------------------------------
(* The main thread: the Default queue and the handlers of the interface.   *)

Event == [NetworkServerConnected |-> "ServerConnected",
          NetworkServerConnectFailed |-> "ServerConnectionFailed",
          NetworkServerDisconnected |-> "ServerDisconnected"]

EventName == {Event[n] : n \in ReportName}

\* The handlers of packets are not part of this module.
TakeMessage ==
  /\ main = "idle"
  /\ defQueue # <<>>
  /\ defQueue' = Tail(defQueue)
  /\ LET m == Head(defQueue)
     IN  \/ m.name = "Packet" /\ UNCHANGED <<main, event, taken>>
         \/ /\ m.name \in EventName
            /\ main' = "status"
            /\ event' = m
            /\ taken' = [taken EXCEPT ![m.conn] = Append(@, m.name)]
  /\ UNCHANGED <<netQueue, connVars, managerVars, gameVars,
                 mConnectionStatus, connectVars, disconnects, answers>>

Handles(name) == main = "status" /\ event.name = name

\* The handler returns to the dispatch of the Default queue.
Return == main' = "idle" /\ event' = NoMsg

OnConnectionSuccess ==
  /\ Handles("ServerConnected")
  /\ ChangeStatus(event.type, "CONNECTING", "CONNECTED")
  /\ main' = "callback"
  /\ UNCHANGED <<vars, connectVars, event, disconnects, answerVars>>

OnConnectionFailed ==
  /\ Handles("ServerConnectionFailed")
  /\ ChangeStatus(event.type, "CONNECTING", "DISCONNECTED")
  /\ main' = "callback"
  /\ UNCHANGED <<vars, connectVars, event, disconnects, answerVars>>

\* Mutant: a disconnection is told to the callback of connect() as well.
OnDisconnect_TellsConnect ==
  /\ Handles("ServerDisconnected")
  /\ ChangeStatus(event.type, "DISCONNECTING", "DISCONNECTED")
  /\ main' = "callback"
  /\ UNCHANGED <<vars, connectVars, event, disconnects, answerVars>>

\* mDisconnectCallback is never set, so there is nothing to call.
OnDisconnect ==
  /\ Handles("ServerDisconnected")
  /\ ChangeStatus(event.type, "DISCONNECTING", "DISCONNECTED")
  /\ Return
  /\ UNCHANGED <<vars, connectVars, disconnects, answerVars>>

\* Mutant: a callback is dropped unless the connection is up.
CallBack_OnlyIfConnected ==
  /\ main = "callback"
  /\ LET t == event.type
     IN  IF IsConnected(t)
         THEN /\ answers' = [answers EXCEPT ![mConnectCallback[t]] = Append(@, event)]
              /\ SendToServer(t)
         ELSE UNCHANGED <<answers, vars>>
  /\ Return
  /\ UNCHANGED <<mConnectionStatus, connectVars, disconnects, taken>>

\* Told of no error the callback sends a packet, and asyncSendPacket throws
\* when it does not find itself connected.
CallBack ==
  /\ main = "callback"
  /\ LET t == event.type
     IN  /\ answers' = [answers EXCEPT ![mConnectCallback[t]] = Append(@, event)]
         /\ \/ /\ event.name # "ServerConnected"
               /\ Return
               /\ UNCHANGED vars
            \/ /\ event.name = "ServerConnected" /\ IsConnected(t)
               /\ SendToServer(t)
               /\ Return
            \/ /\ event.name = "ServerConnected" /\ ~IsConnected(t)
               /\ main' = "ended"
               /\ UNCHANGED <<vars, event>>
  /\ UNCHANGED <<mConnectionStatus, connectVars, disconnects, taken>>

\* A game state disconnects, between two messages, what it finds connected.
GameDisconnect(t) ==
  /\ main = "idle" /\ disconnects < MaxDisconnects
  /\ NoAnswerDue(t) /\ IsConnected(t)
  /\ Disconnect(t)
  /\ disconnects' = disconnects + 1
  /\ UNCHANGED <<mConnectionStatus, connectVars, main, event, answerVars>>

MainRuns == TakeMessage \/ OnConnectionSuccess \/ OnConnectionFailed \/ OnDisconnect \/ CallBack

-----------------------------------------------------------------------------
ManagerStep(w) == WorkerStep(w) /\ UNCHANGED interfaceVars

InterfaceNext ==
  \/ \E w \in Worker : ManagerStep(w)
  \/ \E c \in Conn : NetworkStep(c) /\ UNCHANGED interfaceVars
  \/ \E t \in ServerType : BeginConnect(t) \/ ConnectCall(t) \/ GameDisconnect(t)
  \/ MainRuns

\* Every thread runs; the player and the network decide when they like.
InterfaceFairness ==
  /\ \A w \in Worker : WF_allVars(ManagerStep(w))
  /\ \A c \in Conn :
       WF_allVars(ServiceRuns(c) /\ UNCHANGED <<managerVars, gameVars, interfaceVars>>)
  /\ \A t \in ServerType : WF_allVars(ConnectCall(t))
  /\ WF_allVars(MainRuns)

InterfaceSpec == InterfaceInit /\ [][InterfaceNext]_allVars /\ InterfaceFairness

-----------------------------------------------------------------------------
InterfaceTypeOK ==
  /\ TypeOK
  /\ mConnectionStatus \in [ServerType -> Status]
  /\ mConnectCallback \in [ServerType -> Conn \union {NoConn}]
  /\ prompt \in [ServerType -> {"idle", "callback", "post", "load", "exchange"}]
  /\ seen \in [ServerType -> Status]
  /\ main \in {"idle", "status", "callback", "ended"}
  /\ event \in DefMessage \union {NoMsg}
  /\ disconnects \in 0..MaxDisconnects
  /\ taken \in [Conn -> Seq(EventName)]
  /\ answers \in [Conn -> Seq(DefMessage)]

(***************************************************************************)
(* The interface keeps one callback and its events name no connection, yet *)
(* a callback is called at most once and hears of its own connection only: *)
(* what connections that were closed or replaced still had to say (a late  *)
(* disconnection, say) is never taken for the answer to a later connect(). *)
(***************************************************************************)
AnsweredOnce ==
  \A c \in Conn :
    \/ answers[c] = <<>>
    \/ \E name \in {"ServerConnected", "ServerConnectionFailed"} :
         answers[c] = <<Msg(name, TypeOf[c], c)>>

About(c, kinds) == [name : kinds, type : ServerType, conn : {c}]

\* The names of the messages of q that are about c.
Names(q) == [i \in 1..Len(q) |-> q[i].name]
NamesAbout(c, q, kinds) == Names(Selected(q, About(c, kinds)))

AsEvents(names) == [i \in 1..Len(names) |-> Event[names[i]]]

Held == IF Current = NoMsg THEN <<>> ELSE <<Current>>

(***************************************************************************)
(* From the service thread through the Network queue, update() on some     *)
(* worker and the Default queue to the main thread: no event about a       *)
(* connection is lost, repeated or overtaken by another one, whatever the  *)
(* workers, the destructors and the game do on the way.                    *)
(***************************************************************************)
EventsInOrder ==
  \A c \in Conn :
    taken[c] \o NamesAbout(c, defQueue, EventName)
             \o AsEvents(NamesAbout(c, Held \o netQueue, ReportName))
      = AsEvents(reported[c])

Answerable(c) ==
  \E i \in 1..Len(reported[c]) : reported[c][i] # "NetworkServerDisconnected"

(***************************************************************************)
(* Once handleConnect has had its say about a connection the callback of   *)
(* its connect() is called, unless the game has ended or the dispatcher    *)
(* waits for good in the close() of a stuck connection.                    *)
(***************************************************************************)
ReportedIsAnswered ==
  \A c \in Conn :
    Answerable(c) ~> \/ answers[c] # <<>>
                     \/ main = "ended"
                     \/ \E d \in Conn : []StuckInClose(d)

-----------------------------------------------------------------------------
(* What the code says of itself and does not keep.                         *)

(***************************************************************************)
(* asyncSendPacket refuses to send "when it's not connected", and the      *)
(* users send from the callback that brings no error: when it is called    *)
(* the interface is connected.  connect() posts the request before it      *)
(* moves the status to CONNECTING, so the answer may come first.           *)
(***************************************************************************)
ConnectedWhenTold ==
  main = "callback" /\ event.name = "ServerConnected" => IsConnected(event.type)

(***************************************************************************)
(* The callback is there "to notify about connection status", with an      *)
(* error message if any: a connection that ends without having connected   *)
(* is an answer too.  A host that does not resolve is reported as a        *)
(* disconnection, which no callback hears of.                              *)
(***************************************************************************)
EveryConnectIsAnswered ==
  \A c \in Conn :
    reported[c] # <<>> ~> \/ answers[c] # <<>>
                         \/ main = "ended"
                         \/ \E d \in Conn : []StuckInClose(d)
=============================================================================
