---------------------------- MODULE MessageQueue ----------------------------
(***************************************************************************)
(* RoMessageQueue: the message queues through which the threads of the     *)
(* client talk to each other.  Any thread appends; the queue whose filter  *)
(* accepts the name of the message first receives it.  The Graphics queue  *)
(* is left out: nothing posts to it and nothing dispatches it.             *)
(*                                                                         *)
(* A message is a name and the server type it speaks of.  The field conn   *)
(* is a history field: the connection that posted the event, or that the   *)
(* request will create.  No handler reads it (the code has no such field). *)
(***************************************************************************)
EXTENDS Integers, Sequences

CONSTANTS
  ServerType,   (* the server types in use: LOGIN, CHARACTER, MAP          *)
  Conn,         (* identities of RoNetTcpConnection objects                *)
  NoConn        (* a null connection pointer                               *)

ASSUME NoConnAssumption == NoConn \notin Conn

VARIABLES
  netQueue,     (* sQueues[eMessageQueue_Network]                          *)
  defQueue      (* sQueues[eMessageQueue_Default]                          *)

queueVars == <<netQueue, defQueue>>

\* What the service thread of a connection posts about it.
ReportName == {"NetworkServerConnected", "NetworkServerConnectFailed",
               "NetworkServerDisconnected"}

\* What the game asks of the network; the three Network*ServerSend are one.
RequestName == {"NetworkServerConnect", "NetworkServerDisconnect",
                "NetworkServerSend"}

\* Names that match "^Network.*".
NetworkName == ReportName \union RequestName

\* Names only ".*" accepts: <type>ServerConnected ..., and packet actions.
DefaultName == {"ServerConnected", "ServerConnectionFailed",
                "ServerDisconnected", "Packet"}

Message == [name : NetworkName \union DefaultName,
            type : ServerType,
            conn : Conn \union {NoConn}]

NetMessage == [name : NetworkName, type : ServerType, conn : Conn \union {NoConn}]
DefMessage == [name : DefaultName, type : ServerType, conn : Conn \union {NoConn}]

Msg(n, t, c) == [name |-> n, type |-> t, conn |-> c]

\* Mutant: the queues are tried in another order, ".*" before "^Network.*".
Post_DefaultFirst(m) ==
  /\ defQueue' = Append(defQueue, m)
  /\ UNCHANGED netQueue

\* RoMessageQueue::Append.  tbb::concurrent_queue makes a push one step.
Post(m) ==
  \/ /\ m.name \in NetworkName
     /\ netQueue' = Append(netQueue, m)
     /\ UNCHANGED defQueue
  \/ /\ m.name \notin NetworkName
     /\ defQueue' = Append(defQueue, m)
     /\ UNCHANGED netQueue

QueueInit == netQueue = <<>> /\ defQueue = <<>>

QueueTypeOK ==
  /\ netQueue \in Seq(NetMessage)
  /\ defQueue \in Seq(DefMessage)
=============================================================================
