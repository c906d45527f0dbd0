---------------------------- MODULE TcpConnection ----------------------------
(***************************************************************************)
(* RoNetTcpConnection: one socket, the io_service thread that runs its     *)
(* handlers, and the owner (a thread inside RoNetworkManager) that         *)
(* constructs, closes and destroys it.  The two threads share mConnected,  *)
(* mPostMessage, the handler queue of mService and the lock of mThreads.   *)
(*                                                                         *)
(* service[c] is where the service thread of c stands:                     *)
(*   resolving, connecting, reading   inside mService.run(), between two   *)
(*              handlers; the asynchronous operation under way is that one *)
(*   failed     handleConnect has posted NetworkServerConnectFailed        *)
(*   keepAlive  about to create the timer thread (doKeepAlive)             *)
(*   body       in the blocking reads of doReadPacket                      *)
(*   doClose    at the first line of doClose                               *)
(*   closed     doClose has cleared mConnected and closed the socket       *)
(*   notify     doClose has read mPostMessage as true                      *)
(*   stop       about to stop mService and return from run()               *)
(*                                                                         *)
(* owner[c] is where the owner stands in the life of the object:           *)
(*   constructing  the service thread is started, mPostMessage not stored  *)
(*   held          in a slot of RoNetworkManager::mConnections             *)
(*   joining       close() called by disconnectFrom, in join_all           *)
(*   closed        that close() has returned                               *)
(*   destroying    the destructor has cleared mPostMessage                 *)
(*   dtorJoining   the destructor's close() is in join_all                 *)
(*   destroyed     the members are gone                                    *)
(***************************************************************************)
EXTENDS MessageQueue

CONSTANTS
  TypeOf,             (* mType of each connection                          *)
  HeartBeat,          (* server types with a heart-beat packet             *)
  MaxPackets,         (* bound: packets one server sends on a connection   *)
  UninitPostMessage   (* values a read of mPostMessage may return before   *)
                      (* the constructor stores it                         *)

ASSUME ConnectionAssumption ==
  /\ TypeOf \in [Conn -> ServerType]
  /\ HeartBeat \subseteq ServerType
  /\ MaxPackets \in Nat
  /\ UninitPostMessage \subseteq BOOLEAN
  /\ UninitPostMessage # {}

VARIABLES
  service,        (* program counter of the service thread                 *)
  owner,          (* life of the object, as the owner drives it            *)
  mConnected,     (* plain bool, read by the owner without a lock          *)
  mPostMessage,   (* atomic bool                                           *)
  posted,         (* doClose has been posted to mService                   *)
  ready,          (* completed operations whose handlers are queued, all   *)
                  (* in front of a posted doClose                          *)
  writing,        (* an async_write has been started                       *)
  packets,        (* packets read so far, for the bound MaxPackets         *)
  reported        (* history: the events posted about the connection       *)

flagVars == <<mConnected, mPostMessage>>
ioVars == <<posted, ready, writing>>
historyVars == <<packets, reported>>
connVars == <<service, owner, flagVars, ioVars, historyVars>>

Waiting == {"resolving", "connecting", "reading"}

ServicePC == Waiting \union
  {"none", "failed", "keepAlive", "body",
   "doClose", "closed", "notify", "stop", "exited"}

\* The operation service[c] names, and the keep-alive timer.
Operation == {"op", "timer"}

OwnerPC == {"none", "constructing", "held", "joining", "closed",
            "destroying", "dtorJoining", "destroyed"}

\* The owner is inside thread_group::join_all and holds its shared lock.
Joining(c) == owner[c] \in {"joining", "dtorJoining"}

ConnInit ==
  /\ service = [c \in Conn |-> "none"]
  /\ owner = [c \in Conn |-> "none"]
  /\ mConnected = [c \in Conn |-> FALSE]
  /\ mPostMessage = [c \in Conn |-> FALSE]
  /\ posted = [c \in Conn |-> FALSE]
  /\ ready = [c \in Conn |-> {}]
  /\ writing = [c \in Conn |-> FALSE]
  /\ packets = [c \in Conn |-> 0]
  /\ reported = [c \in Conn |-> <<>>]

-----------------------------------------------------------------------------
(* The owner's operations.                                                 *)

\* The constructor up to create_thread: mConnected is already true, the
\* resolve is under way and mPostMessage holds whatever the memory held.
Construct(c) ==
  /\ owner[c] = "none"
  /\ owner' = [owner EXCEPT ![c] = "constructing"]
  /\ service' = [service EXCEPT ![c] = "resolving"]
  /\ mConnected' = [mConnected EXCEPT ![c] = TRUE]
  /\ \E b \in UninitPostMessage : mPostMessage' = [mPostMessage EXCEPT ![c] = b]
  /\ UNCHANGED <<ioVars, historyVars>>

\* The last line of the constructor.
EnablePosting(c) ==
  /\ owner[c] = "constructing"
  /\ owner' = [owner EXCEPT ![c] = "held"]
  /\ mPostMessage' = [mPostMessage EXCEPT ![c] = TRUE]
  /\ UNCHANGED <<service, mConnected, ioVars, historyVars>>

\* send(): mConnected is true from the start, so the write may be started on
\* a socket that is not connected yet.
Send(c) ==
  /\ owner[c] = "held"
  /\ writing' = [writing EXCEPT ![c] = @ \/ mConnected[c]]
  /\ UNCHANGED <<service, owner, flagVars, posted, ready, historyVars>>

\* Mutant: close() posts doClose but does not wait for the threads.
CallClose_NoJoin(c, joins, returned) ==
  /\ owner' = [owner EXCEPT ![c] = returned]
  /\ posted' = [posted EXCEPT ![c] = @ \/ mConnected[c]]
  /\ UNCHANGED <<service, flagVars, ready, writing, historyVars>>

\* close(): post doClose and join, but only if mConnected is still true.
CallClose(c, joins, returned) ==
  /\ owner' = [owner EXCEPT ![c] = IF mConnected[c] THEN joins ELSE returned]
  /\ posted' = [posted EXCEPT ![c] = @ \/ mConnected[c]]
  /\ UNCHANGED <<service, flagVars, ready, writing, historyVars>>

\* close() as disconnectFrom calls it, and its return.
Close(c) == owner[c] = "held" /\ CallClose(c, "joining", "closed")

CloseReturn(c) ==
  /\ owner[c] = "joining" /\ service[c] = "exited"
  /\ owner' = [owner EXCEPT ![c] = "closed"]
  /\ UNCHANGED <<service, flagVars, ioVars, historyVars>>

\* Mutant: The destructor leaves mPostMessage alone.
BeginDestroy_StillPosting(c) ==
  /\ owner[c] \in {"held", "closed"}
  /\ owner' = [owner EXCEPT ![c] = "destroying"]
  /\ UNCHANGED <<service, flagVars, ioVars, historyVars>>

\* The destructor: clear mPostMessage, then close(), then the members go.
BeginDestroy(c) ==
  /\ owner[c] \in {"held", "closed"}
  /\ owner' = [owner EXCEPT ![c] = "destroying"]
  /\ mPostMessage' = [mPostMessage EXCEPT ![c] = FALSE]
  /\ UNCHANGED <<service, mConnected, ioVars, historyVars>>

DestroyClose(c) == owner[c] = "destroying" /\ CallClose(c, "dtorJoining", "destroyed")

DestroyReturn(c) ==
  /\ owner[c] = "dtorJoining" /\ service[c] = "exited"
  /\ owner' = [owner EXCEPT ![c] = "destroyed"]
  /\ UNCHANGED <<service, flagVars, ioVars, historyVars>>

-----------------------------------------------------------------------------
(* The service thread.                                                     *)

ServiceGoto(c, from, to) ==
  /\ service[c] = from
  /\ service' = [service EXCEPT ![c] = to]

Report(c, name) ==
  /\ Post(Msg(name, TypeOf[c], c))
  /\ reported' = [reported EXCEPT ![c] = Append(@, name)]

\* The thread finds an operation completed.  io_service runs handlers in
\* order: what completes after doClose was posted is queued behind it, and
\* doClose stops the service.
Completes(c) ==
  /\ service[c] \in Waiting
  /\ ~posted[c]
  /\ \/ ready' = [ready EXCEPT ![c] = @ \union {"op"}]
     \/ /\ service[c] = "reading" /\ TypeOf[c] \in HeartBeat
        /\ ready' = [ready EXCEPT ![c] = @ \union {"timer"}]
  /\ UNCHANGED <<queueVars, service, owner, flagVars, posted, writing, historyVars>>

RunPostedClose(c) ==
  /\ posted[c] /\ ready[c] = {}
  /\ service[c] \in Waiting
  /\ service' = [service EXCEPT ![c] = "doClose"]
  /\ UNCHANGED <<queueVars, owner, flagVars, ioVars, historyVars>>

\* The handler of a completed operation starts.
RunHandler(c, operation) ==
  /\ operation \in ready[c]
  /\ ready' = [ready EXCEPT ![c] = @ \ {operation}]

\* handleResolve: an error only closes the connection.
HandleResolve(c) ==
  /\ RunHandler(c, "op")
  /\ \/ ServiceGoto(c, "resolving", "connecting")
     \/ mConnected[c] /\ ServiceGoto(c, "resolving", "doClose")
  /\ UNCHANGED <<queueVars, owner, flagVars, posted, writing, historyVars>>

\* handleConnect without error, up to doKeepAlive.
HandleConnect(c) ==
  /\ RunHandler(c, "op")
  /\ ServiceGoto(c, "connecting",
                 IF TypeOf[c] \in HeartBeat THEN "keepAlive" ELSE "reading")
  /\ mConnected' = [mConnected EXCEPT ![c] = TRUE]
  /\ Report(c, "NetworkServerConnected")
  /\ UNCHANGED <<owner, mPostMessage, posted, writing, packets>>

\* handleConnect with an error: the report is posted whatever mPostMessage
\* says, then mConnected is cleared, then doClose finds nothing to report.
HandleConnectError(c) ==
  /\ mConnected[c]
  /\ RunHandler(c, "op")
  /\ ServiceGoto(c, "connecting", "failed")
  /\ Report(c, "NetworkServerConnectFailed")
  /\ UNCHANGED <<owner, flagVars, posted, writing, packets>>

\* Mutant: The failure lambda of handleConnect does not clear mConnected.
ClearConnected_Forgotten(c) ==
  /\ ServiceGoto(c, "failed", "doClose")
  /\ UNCHANGED <<queueVars, owner, flagVars, ioVars, historyVars>>

ClearConnected(c) ==
  /\ ServiceGoto(c, "failed", "doClose")
  /\ mConnected' = [mConnected EXCEPT ![c] = FALSE]
  /\ UNCHANGED <<queueVars, owner, mPostMessage, ioVars, historyVars>>

\* handleHeartBeat: send the packet, then doKeepAlive starts the timer again.
HandleHeartBeat(c) ==
  /\ RunHandler(c, "timer")
  /\ ServiceGoto(c, "reading", "keepAlive")
  /\ writing' = [writing EXCEPT ![c] = @ \/ mConnected[c]]
  /\ UNCHANGED <<queueVars, owner, flagVars, posted, historyVars>>

\* handleWrite with an error, whatever stage the connection is at.
HandleWriteError(c) ==
  /\ writing[c] /\ mConnected[c]
  /\ service[c] \in Waiting
  /\ service' = [service EXCEPT ![c] = "doClose"]
  /\ UNCHANGED <<queueVars, owner, flagVars, ioVars, historyVars>>

\* mThreads.create_thread wants the lock join_all shares.
DoKeepAlive(c) ==
  /\ ~Joining(c)
  /\ ServiceGoto(c, "keepAlive", "reading")
  /\ UNCHANGED <<queueVars, owner, flagVars, ioVars, historyVars>>

\* handleReadPacket: an error, a packet-id nobody knows (or 0), or a packet.
HandleReadPacket(c) ==
  /\ RunHandler(c, "op")
  /\ \/ /\ mConnected[c] /\ ServiceGoto(c, "reading", "doClose")
        /\ UNCHANGED packets
     \/ /\ packets[c] < MaxPackets
        /\ packets' = [packets EXCEPT ![c] = @ + 1]
        /\ \/ ServiceGoto(c, "reading", "reading")
           \/ ServiceGoto(c, "reading", "body")
  /\ UNCHANGED <<queueVars, owner, flagVars, posted, writing, reported>>

\* doReadPacket after its blocking reads.  A read that failed is logged and
\* the packet is posted all the same.
DoReadPacket(c) ==
  /\ ServiceGoto(c, "body", "reading")
  /\ Post(Msg("Packet", TypeOf[c], c))
  /\ UNCHANGED <<owner, flagVars, ioVars, historyVars>>

\* doClose, one step for each access another thread can see.
DoClose(c) ==
  /\ ServiceGoto(c, "doClose", IF mConnected[c] THEN "closed" ELSE "stop")
  /\ mConnected' = [mConnected EXCEPT ![c] = FALSE]
  /\ UNCHANGED <<queueVars, owner, mPostMessage, ioVars, historyVars>>

\* Mutant: doClose tests mPostMessage the wrong way round.
ReadPostMessage_Inverted(c) ==
  /\ ServiceGoto(c, "closed", IF mPostMessage[c] THEN "stop" ELSE "notify")
  /\ UNCHANGED <<queueVars, owner, flagVars, ioVars, historyVars>>

ReadPostMessage(c) ==
  /\ ServiceGoto(c, "closed", IF mPostMessage[c] THEN "notify" ELSE "stop")
  /\ UNCHANGED <<queueVars, owner, flagVars, ioVars, historyVars>>

NotifyDisconnected(c) ==
  /\ ServiceGoto(c, "notify", "stop")
  /\ Report(c, "NetworkServerDisconnected")
  /\ UNCHANGED <<owner, flagVars, ioVars, packets>>

\* Mutant: doClose returns to the event loop without stopping the service.
StopService_Forgotten(c) ==
  /\ ServiceGoto(c, "stop", "reading")
  /\ UNCHANGED <<queueVars, owner, flagVars, ioVars, historyVars>>

StopService(c) ==
  /\ ServiceGoto(c, "stop", "exited")
  /\ UNCHANGED <<queueVars, owner, flagVars, ioVars, historyVars>>

-----------------------------------------------------------------------------
OwnerOp(c) ==
  \/ Construct(c) \/ EnablePosting(c) \/ Send(c)
  \/ Close(c) \/ CloseReturn(c)
  \/ BeginDestroy(c) \/ DestroyClose(c) \/ DestroyReturn(c)

OwnerStep(c) == OwnerOp(c) /\ UNCHANGED queueVars

\* Steps the thread takes on its own, and those the network decides on.
ServiceRuns(c) ==
  \/ RunPostedClose(c) \/ HandleResolve(c)
  \/ HandleConnect(c) \/ HandleConnectError(c) \/ ClearConnected(c)
  \/ DoKeepAlive(c) \/ HandleHeartBeat(c) \/ HandleReadPacket(c)
  \/ DoClose(c) \/ ReadPostMessage(c) \/ NotifyDisconnected(c) \/ StopService(c)

ServiceStep(c) == ServiceRuns(c) \/ Completes(c) \/ HandleWriteError(c) \/ DoReadPacket(c)

ConnTypeOK ==
  /\ service \in [Conn -> ServicePC]
  /\ owner \in [Conn -> OwnerPC]
  /\ mConnected \in [Conn -> BOOLEAN]
  /\ mPostMessage \in [Conn -> BOOLEAN]
  /\ posted \in [Conn -> BOOLEAN]
  /\ ready \in [Conn -> SUBSET Operation]
  /\ writing \in [Conn -> BOOLEAN]
  /\ packets \in [Conn -> 0..MaxPackets]
  /\ reported \in [Conn -> Seq(ReportName)]

-----------------------------------------------------------------------------
(* A connection and an owner that may do whatever a slot's owner does.     *)

FirstInit == QueueInit /\ ConnInit

ConnNext == \E c \in Conn : OwnerStep(c) \/ ServiceStep(c)

allConnVars == <<queueVars, connVars>>

\* The operating system schedules both threads.  Nothing is assumed of the
\* network: a read may wait for ever (Completes, DoReadPacket), and the owner
\* need not close what it holds.
ConnFairness ==
  \A c \in Conn :
    /\ WF_allConnVars(ServiceRuns(c))
    /\ WF_allConnVars(OwnerStep(c) /\ owner[c] \in {"constructing", "joining",
                                                    "destroying", "dtorJoining"})

ConnSpec == FirstInit /\ [][ConnNext]_allConnVars /\ ConnFairness

ConnectionTypeOK == QueueTypeOK /\ ConnTypeOK

(***************************************************************************)
(* What handleConnect and doClose post about one connection, between them  *)
(* and whatever the owner does meanwhile: a failed connect and nothing     *)
(* else, or at most one Connected followed by at most one Disconnected.    *)
(***************************************************************************)
LegalReport == {<<>>,
                <<"NetworkServerConnectFailed">>,
                <<"NetworkServerDisconnected">>,
                <<"NetworkServerConnected">>,
                <<"NetworkServerConnected", "NetworkServerDisconnected">>}

OneOutcome == \A c \in Conn : reported[c] \in LegalReport

(***************************************************************************)
(* close() joins only when it reads mConnected as true, so the destructor  *)
(* may finish before the service thread does.  However the two interleave, *)
(* the thread is then past its last handler: only the tail of doClose      *)
(* still runs, never a read, a connect or a heart beat.                    *)
(***************************************************************************)
DyingTail == {"doClose", "closed", "notify", "stop", "exited"}

NoHandlerAfterDestroy ==
  \A c \in Conn : owner[c] = "destroyed" => service[c] \in DyingTail /\ ~mConnected[c]

(***************************************************************************)
(* The destructor clears mPostMessage before it calls close(), so a        *)
(* destructor that has to join never lets doClose report a disconnection   *)
(* of the connection it replaces.                                          *)
(***************************************************************************)
JoinedDestructorIsSilent ==
  [][\A c \in Conn :
       owner[c] = "dtorJoining" =>
         reported'[c] # Append(reported[c], "NetworkServerDisconnected")]_allConnVars

(***************************************************************************)
(* A connection whose service thread has ended, and which nobody is        *)
(* destroying, has been reported as failed or as disconnected: doClose is  *)
(* silent only for a destructor.  It needs mPostMessage to read as true    *)
(* during construction, which the constructor does not ensure.             *)
(***************************************************************************)
EndIsReported ==
  FALSE \notin UninitPostMessage =>
    \A c \in Conn :
      service[c] = "exited" /\ owner[c] \in {"constructing", "held", "joining", "closed"}
        => reported[c] # <<>> /\ reported[c] # <<"NetworkServerConnected">>

(***************************************************************************)
(* join_all returns, or the service thread is blocked for good in one of   *)
(* two places: the blocking reads of a packet's body, or create_thread     *)
(* waiting for the lock join_all holds.                                    *)
(***************************************************************************)
CloseReturns ==
  \A c \in Conn :
    Joining(c) ~> \/ ~Joining(c)
                  \/ [](service[c] = "body")
                  \/ [](service[c] = "keepAlive")
=============================================================================
