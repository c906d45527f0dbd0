--------------------------- MODULE NetworkManager ---------------------------
(***************************************************************************)
(* RoNetworkManager: it owns one connection slot per server type and       *)
(* handles the messages of the Network queue.  The game loop schedules an  *)
(* update on every turn, so several worker threads may be in update() at   *)
(* once: mOkToUpdate lets one of them dispatch.  That worker runs the      *)
(* handlers, and waits inside them for the threads of the connections it   *)
(* closes, while service threads and the game go on posting.               *)
(*                                                                         *)
(* pc[w] is where worker w stands:                                         *)
(*   idle       not in update()                                            *)
(*   pop        in RoMessageQueue::dispatch, about to call try_pop         *)
(*   handle     at the first line of the handler of hand[w]                *)
(*   close      in disconnectFrom, in close() of busy[w]                   *)
(*   destroy    in the destructor of busy[w]                               *)
(*   construct  in connectToServer, in the constructor of busy[w]          *)
(*   release    dispatch() has returned, mOkToUpdate is still false        *)
(***************************************************************************)
EXTENDS TcpConnection

CONSTANTS
  Worker,       (* threads of the task scheduler that run _NetworkUpdate   *)
  NoMsg,        (* no message in hand                                      *)
  MaxRequests   (* bound: disconnect and send requests the game posts      *)

ASSUME ManagerAssumption == NoMsg \notin NetMessage /\ MaxRequests \in Nat

VARIABLES
  mOkToUpdate,    (* atomic bool                                           *)
  mConnections,   (* the slots                                             *)
  pc,             (* where each worker stands                              *)
  hand,           (* the message a worker has popped and is handling       *)
  busy,           (* the connection its handler builds, closes or destroys *)
  wanted,         (* connections the game has asked for                    *)
  requests        (* other requests so far, for the bound MaxRequests      *)

managerVars == <<mOkToUpdate, mConnections, pc, hand, busy>>
gameVars == <<wanted, requests>>
vars == <<queueVars, connVars, managerVars, gameVars>>

WorkerPC == {"idle", "pop", "handle", "close", "destroy", "construct", "release"}

\* The constructor of RoNetworkManager has registered the handlers.
Init ==
  /\ QueueInit /\ ConnInit
  /\ mOkToUpdate = TRUE
  /\ mConnections = [t \in ServerType |-> NoConn]
  /\ pc = [w \in Worker |-> "idle"]
  /\ hand = [w \in Worker |-> NoMsg]
  /\ busy = [w \in Worker |-> NoConn]
  /\ wanted = {}
  /\ requests = 0

-----------------------------------------------------------------------------
(* The static functions, called on any thread of the game.                 *)

\* The message carries the identity of the connection it will create.
Connect(c) ==
  /\ c \notin wanted
  /\ wanted' = wanted \union {c}
  /\ Post(Msg("NetworkServerConnect", TypeOf[c], c))
  /\ UNCHANGED <<connVars, managerVars, requests>>

Request(t, name) ==
  /\ requests < MaxRequests
  /\ requests' = requests + 1
  /\ Post(Msg(name, t, NoConn))
  /\ UNCHANGED <<connVars, managerVars, wanted>>

Disconnect(t) == Request(t, "NetworkServerDisconnect")
SendToServer(t) == Request(t, "NetworkServerSend")

-----------------------------------------------------------------------------
(* update() and RoMessageQueue::dispatch on a worker.                      *)

WorkerGoto(w, from, to) ==
  /\ pc[w] = from
  /\ pc' = [pc EXCEPT ![w] = to]

\* Mutant: the result of the compare and exchange is not looked at.
BeginUpdate_Always(w) ==
  /\ WorkerGoto(w, "idle", "pop")
  /\ mOkToUpdate' = FALSE
  /\ UNCHANGED <<queueVars, connVars, mConnections, hand, busy, gameVars>>

\* A worker that finds mOkToUpdate false returns at once, changing nothing.
BeginUpdate(w) ==
  /\ mOkToUpdate
  /\ WorkerGoto(w, "idle", "pop")
  /\ mOkToUpdate' = FALSE
  /\ UNCHANGED <<queueVars, connVars, mConnections, hand, busy, gameVars>>

TryPop(w) ==
  /\ netQueue # <<>>
  /\ WorkerGoto(w, "pop", "handle")
  /\ hand' = [hand EXCEPT ![w] = Head(netQueue)]
  /\ netQueue' = Tail(netQueue)
  /\ UNCHANGED <<defQueue, connVars, mOkToUpdate, mConnections, busy, gameVars>>

TryPopEmpty(w) ==
  /\ netQueue = <<>>
  /\ WorkerGoto(w, "pop", "release")
  /\ UNCHANGED <<queueVars, connVars, mOkToUpdate, mConnections, hand, busy, gameVars>>

EndUpdate(w) ==
  /\ WorkerGoto(w, "release", "idle")
  /\ mOkToUpdate' = TRUE
  /\ UNCHANGED <<queueVars, connVars, mConnections, hand, busy, gameVars>>

-----------------------------------------------------------------------------
(* The handlers.                                                           *)

Handling(w, name) == pc[w] = "handle" /\ hand[w].name = name

Slot(w) == mConnections[hand[w].type]

\* The handler returns to dispatch().
Done(w) ==
  /\ pc' = [pc EXCEPT ![w] = "pop"]
  /\ hand' = [hand EXCEPT ![w] = NoMsg]
  /\ busy' = [busy EXCEPT ![w] = NoConn]

\* RoNetServerActions: the event goes on to the interface of that server.
PassOn(w, name) == Post(Msg(name, hand[w].type, hand[w].conn))

\* Mutant: the destructor runs, the slot keeps its pointer.
ResetSlot_KeepsPointer(w) ==
  /\ BeginDestroy(Slot(w))
  /\ busy' = [busy EXCEPT ![w] = Slot(w)]
  /\ pc' = [pc EXCEPT ![w] = "destroy"]
  /\ UNCHANGED <<queueVars, mConnections, hand>>

\* mConnections[type].reset() on a slot that is not empty: the slot is null
\* before the destructor runs.
ResetSlot(w) ==
  /\ BeginDestroy(Slot(w))
  /\ mConnections' = [mConnections EXCEPT ![hand[w].type] = NoConn]
  /\ busy' = [busy EXCEPT ![w] = Slot(w)]
  /\ pc' = [pc EXCEPT ![w] = "destroy"]
  /\ UNCHANGED <<queueVars, hand>>

\* connectToServer: a connection already in the slot is destroyed first.
NewConnection(w) ==
  /\ Construct(hand[w].conn)
  /\ busy' = [busy EXCEPT ![w] = hand[w].conn]
  /\ pc' = [pc EXCEPT ![w] = "construct"]
  /\ UNCHANGED <<queueVars, mConnections, hand>>

\* Mutant: the old connection is left to the assignment of the new one.
ConnectToServer_NoReset(w) ==
  /\ Handling(w, "NetworkServerConnect")
  /\ NewConnection(w)
  /\ UNCHANGED <<mOkToUpdate, gameVars>>

ConnectToServer(w) ==
  /\ Handling(w, "NetworkServerConnect")
  /\ \/ Slot(w) # NoConn /\ ResetSlot(w)
     \/ Slot(w) = NoConn /\ NewConnection(w)
  /\ UNCHANGED <<mOkToUpdate, gameVars>>

EndConnect(w) ==
  /\ pc[w] = "construct"
  /\ EnablePosting(busy[w])
  /\ mConnections' = [mConnections EXCEPT ![hand[w].type] = busy[w]]
  /\ Done(w)
  /\ UNCHANGED <<queueVars, mOkToUpdate, gameVars>>

\* disconnectFrom: close(), then reset().
DisconnectFrom(w) ==
  /\ Handling(w, "NetworkServerDisconnect")
  /\ \/ /\ Slot(w) = NoConn
        /\ Done(w)
        /\ UNCHANGED connVars
     \/ /\ Slot(w) # NoConn
        /\ Close(Slot(w))
        /\ busy' = [busy EXCEPT ![w] = Slot(w)]
        /\ pc' = [pc EXCEPT ![w] = "close"]
        /\ UNCHANGED hand
  /\ UNCHANGED <<queueVars, mOkToUpdate, mConnections, gameVars>>

CloseReturned(w) ==
  /\ pc[w] = "close"
  /\ CloseReturn(busy[w])
  /\ UNCHANGED <<queueVars, managerVars, gameVars>>

EndDisconnect(w) ==
  /\ pc[w] = "close"
  /\ owner[busy[w]] = "closed"
  /\ ResetSlot(w)
  /\ UNCHANGED <<mOkToUpdate, gameVars>>

\* The destructor runs to its end, then the handler goes on.
Destroy(w) ==
  /\ pc[w] = "destroy"
  /\ DestroyClose(busy[w]) \/ DestroyReturn(busy[w])
  /\ UNCHANGED <<queueVars, managerVars, gameVars>>

AfterDestroy(w) ==
  /\ pc[w] = "destroy"
  /\ owner[busy[w]] = "destroyed"
  /\ \/ /\ hand[w].name = "NetworkServerConnect"
        /\ NewConnection(w)
     \/ /\ hand[w].name = "NetworkServerDisconnect"
        /\ Done(w)
        /\ UNCHANGED <<queueVars, connVars, mConnections>>
     \/ /\ hand[w].name = "NetworkServerDisconnected"
        /\ PassOn(w, "ServerDisconnected")
        /\ Done(w)
        /\ UNCHANGED <<connVars, mConnections>>
  /\ UNCHANGED <<mOkToUpdate, gameVars>>

\* Mutant: the event is passed on, the slot is left alone.
ServerDisconnected_KeepsSlot(w) ==
  /\ Handling(w, "NetworkServerDisconnected")
  /\ PassOn(w, "ServerDisconnected")
  /\ Done(w)
  /\ UNCHANGED <<connVars, mConnections, mOkToUpdate, gameVars>>

\* serverDisconnected: whatever the slot holds is destroyed.
ServerDisconnected(w) ==
  /\ Handling(w, "NetworkServerDisconnected")
  /\ \/ Slot(w) # NoConn /\ ResetSlot(w)
     \/ /\ Slot(w) = NoConn
        /\ PassOn(w, "ServerDisconnected")
        /\ Done(w)
        /\ UNCHANGED <<connVars, mConnections>>
  /\ UNCHANGED <<mOkToUpdate, gameVars>>

\* serverConnected, serverConnectionFailed: the slot is left alone.
ServerConnected(w) ==
  /\ \/ /\ Handling(w, "NetworkServerConnected")
        /\ PassOn(w, "ServerConnected")
     \/ /\ Handling(w, "NetworkServerConnectFailed")
        /\ PassOn(w, "ServerConnectionFailed")
  /\ Done(w)
  /\ UNCHANGED <<connVars, mOkToUpdate, mConnections, gameVars>>

\* sendToServer: without a connection in the slot the packet is dropped.  The
\* database has the three packets the game sends and a conversion for each of
\* their fields; without them the request would throw, and mOkToUpdate stay
\* false.
SendPacket(w) ==
  /\ Handling(w, "NetworkServerSend")
  /\ \/ Slot(w) # NoConn /\ Send(Slot(w))
     \/ Slot(w) = NoConn /\ UNCHANGED connVars
  /\ Done(w)
  /\ UNCHANGED <<queueVars, mOkToUpdate, mConnections, gameVars>>

-----------------------------------------------------------------------------
WorkerStep(w) ==
  \/ BeginUpdate(w) \/ TryPop(w) \/ TryPopEmpty(w) \/ EndUpdate(w)
  \/ ConnectToServer(w) \/ EndConnect(w)
  \/ DisconnectFrom(w) \/ CloseReturned(w) \/ EndDisconnect(w)
  \/ Destroy(w) \/ AfterDestroy(w)
  \/ ServerDisconnected(w) \/ ServerConnected(w) \/ SendPacket(w)

NetworkStep(c) == ServiceStep(c) /\ UNCHANGED <<managerVars, gameVars>>

\* Any game: it asks for what it likes, when it likes, and takes its events
\* in order.
GameStep ==
  \/ \E c \in Conn : Connect(c)
  \/ \E t \in ServerType : Disconnect(t) \/ SendToServer(t)
  \/ /\ defQueue # <<>>
     /\ defQueue' = Tail(defQueue)
     /\ UNCHANGED <<netQueue, connVars, managerVars, gameVars>>

Next ==
  \/ \E w \in Worker : WorkerStep(w)
  \/ \E c \in Conn : NetworkStep(c)
  \/ GameStep

\* Threads run when they can, and the game loop schedules updates for ever.
\* Nothing is assumed of the network or of the player.
Fairness ==
  /\ \A w \in Worker : WF_vars(WorkerStep(w))
  /\ \A c \in Conn : WF_vars(ServiceRuns(c) /\ UNCHANGED <<managerVars, gameVars>>)

Spec == Init /\ [][Next]_vars /\ Fairness

-----------------------------------------------------------------------------
TypeOK ==
  /\ QueueTypeOK /\ ConnTypeOK
  /\ mOkToUpdate \in BOOLEAN
  /\ mConnections \in [ServerType -> Conn \union {NoConn}]
  /\ pc \in [Worker -> WorkerPC]
  /\ hand \in [Worker -> NetMessage \union {NoMsg}]
  /\ busy \in [Worker -> Conn \union {NoConn}]
  /\ wanted \in SUBSET Conn
  /\ requests \in 0..MaxRequests

InUpdate(w) == pc[w] # "idle"

(***************************************************************************)
(* mOkToUpdate lets one worker at a time into dispatch(), however many     *)
(* updates the game loop has scheduled, and that worker keeps it across    *)
(* every handler, those that wait for other threads included.              *)
(***************************************************************************)
OneDispatcher ==
  /\ \A v, w \in Worker : InUpdate(v) /\ InUpdate(w) => v = w
  /\ mOkToUpdate <=> \A w \in Worker : ~InUpdate(w)

Live(c) == owner[c] \notin {"none", "destroyed"}

(***************************************************************************)
(* connectToServer empties the slot before it builds: there are never two  *)
(* connection objects to one server, not even while one of them is being   *)
(* closed on the service thread.                                           *)
(***************************************************************************)
OnePerServer ==
  \A b, c \in Conn : Live(b) /\ Live(c) /\ TypeOf[b] = TypeOf[c] => b = c

(***************************************************************************)
(* Every connection object is in the slot of its server or in the hands of *)
(* the handler that builds or destroys it, and a slot never holds an       *)
(* object whose destructor has begun.                                      *)
(***************************************************************************)
NoLeakNoDangling ==
  /\ \A t \in ServerType :
       LET c == mConnections[t]
       IN  c # NoConn => TypeOf[c] = t /\ owner[c] \in {"held", "joining", "closed"}
  /\ \A c \in Conn :
       Live(c) => mConnections[TypeOf[c]] = c \/ \E w \in Worker : busy[w] = c

EndReported(c) == \E i \in 1..Len(reported[c]) : reported[c][i] = "NetworkServerDisconnected"

InQueue(m) == \E i \in 1..Len(netQueue) : netQueue[i] = m

(***************************************************************************)
(* serverDisconnected is the only place that clears a slot whose           *)
(* connection ended by itself: while such a connection is in its slot, its *)
(* NetworkServerDisconnected is in the queue or about to be handled.       *)
(***************************************************************************)
DeadSlotHasNotice ==
  \A c \in Conn :
    /\ mConnections[TypeOf[c]] = c
    /\ EndReported(c)
    => LET m == Msg("NetworkServerDisconnected", TypeOf[c], c)
       IN  InQueue(m) \/ \E w \in Worker : pc[w] = "handle" /\ hand[w] = m

\* A worker waits in join_all for a thread that never ends: it is in a
\* blocking read of a server gone quiet, or wants the lock join_all holds.
StuckInClose(c) == Joining(c) /\ service[c] \in {"body", "keepAlive"}

(***************************************************************************)
(* dispatch() comes to its end, or waits for good in the join_all of one   *)
(* stuck close(): nothing else in update(), in the handlers or in the      *)
(* threads of the connections can hold the dispatcher up.                  *)
(***************************************************************************)
DispatchReturns ==
  ~mOkToUpdate ~> mOkToUpdate \/ \E c \in Conn : []StuckInClose(c)

(***************************************************************************)
(* A connection that doClose reported as disconnected does not stay in its *)
(* slot, where connectToServer and sendToServer would use it, unless the   *)
(* dispatcher is stuck in another handler.                                 *)
(***************************************************************************)
DeadConnectionLeaves ==
  \A c \in Conn :
    mConnections[TypeOf[c]] = c /\ EndReported(c)
      ~> mConnections[TypeOf[c]] # c \/ \E d \in Conn : []StuckInClose(d)

(***************************************************************************)
(* The Network queue under update() is a serial dispatcher: messages are   *)
(* handled one at a time, in the order they were appended, each once.      *)
(***************************************************************************)
CurrentIn(hands) ==
  IF \E w \in Worker : hands[w] # NoMsg
  THEN hands[CHOOSE w \in Worker : hands[w] # NoMsg]
  ELSE NoMsg

Current == CurrentIn(hand)

Serial == INSTANCE SerialDispatch
            WITH Message <- NetMessage, NoMessage <- NoMsg,
                 queue <- netQueue, current <- Current

SerialSpec == Serial!Spec
=============================================================================
