------------------------- MODULE TcpConnection_proof -------------------------
(***************************************************************************)
(* Proofs about RoNetTcpConnection, for any number of connections, packets *)
(* and heart beats, and whatever an uninitialised mPostMessage holds.      *)
(*                                                                         *)
(* The argument is one inductive invariant, Agree: for each connection it  *)
(* ties the place of the service thread to mConnected and to the events    *)
(* posted so far, and the place of the owner to mPostMessage.  The owner's *)
(* operations and the service thread's steps preserve it one by one; these *)
(* lemmas do not mention the queues, so NetworkManager_proof reuses them.  *)
(***************************************************************************)
EXTENDS TcpConnection, SequenceTheorems, TLAPS

\* What the service thread has posted by the time it stands at each place.
ReportAgrees(c) ==
  /\ service[c] \in {"none", "resolving", "connecting"} => reported[c] = <<>>
  /\ service[c] \in {"reading", "keepAlive", "body"} =>
       reported[c] = <<"NetworkServerConnected">>
  /\ service[c] = "failed" => reported[c] = <<"NetworkServerConnectFailed">>
  /\ service[c] = "doClose" /\ ~mConnected[c] =>
       reported[c] = <<"NetworkServerConnectFailed">>
  /\ service[c] = "doClose" /\ mConnected[c] =>
       reported[c] \in {<<>>, <<"NetworkServerConnected">>}
  /\ service[c] \in {"closed", "notify"} =>
       reported[c] \in {<<>>, <<"NetworkServerConnected">>}

\* mConnected is true until doClose clears it or a connect fails.
ConnectedAgrees(c) ==
  /\ service[c] \in Waiting \union {"failed", "keepAlive", "body"} => mConnected[c]
  /\ service[c] \in {"none", "closed", "notify", "stop", "exited"} => ~mConnected[c]

\* The owner's side: what it has cleared, and what that keeps the thread from.
OwnerAgrees(c) ==
  /\ owner[c] = "none" <=> service[c] = "none"
  /\ owner[c] = "destroyed" => ~mConnected[c]
  /\ owner[c] \in {"destroying", "dtorJoining", "destroyed"} => ~mPostMessage[c]
  /\ owner[c] = "dtorJoining" => service[c] # "notify"

\* Before the destructor begins, mPostMessage is true and doClose reports.
EndAgrees(c) ==
  FALSE \notin UninitPostMessage
    /\ owner[c] \in {"constructing", "held", "joining", "closed"} =>
  /\ mPostMessage[c]
  /\ service[c] \in {"stop", "exited"} =>
       reported[c] # <<>> /\ reported[c] # <<"NetworkServerConnected">>

Agrees(c) ==
  /\ ReportAgrees(c) /\ reported[c] \in LegalReport
  /\ ConnectedAgrees(c)
  /\ OwnerAgrees(c)
  /\ EndAgrees(c)

Agree == \A c \in Conn : Agrees(c)

-----------------------------------------------------------------------------
(* Types.                                                                  *)

LEMMA OwnerOpTypes ==
  ASSUME ConnTypeOK, NEW c \in Conn, OwnerOp(c)
  PROVE  ConnTypeOK'
<1> USE DEF ConnTypeOK, OwnerPC, ServicePC, Waiting, flagVars, ioVars, historyVars
<1>1. CASE Construct(c)
  BY <1>1, ConnectionAssumption DEF Construct
<1>2. CASE EnablePosting(c)
  BY <1>2 DEF EnablePosting
<1>3. CASE Send(c)
  BY <1>3 DEF Send
<1>4. CASE Close(c) \/ DestroyClose(c)
  BY <1>4 DEF Close, DestroyClose, CallClose
<1>5. CASE CloseReturn(c) \/ DestroyReturn(c)
  BY <1>5 DEF CloseReturn, DestroyReturn
<1>6. CASE BeginDestroy(c)
  BY <1>6 DEF BeginDestroy
<1> QED
  BY <1>1, <1>2, <1>3, <1>4, <1>5, <1>6 DEF OwnerOp

\* Posting keeps the two queues apart.
LEMMA PostTypes ==
  ASSUME QueueTypeOK, NEW m \in Message, Post(m)
  PROVE  QueueTypeOK'
<1>1. CASE m.name \in NetworkName
  <2>1. m \in NetMessage
    BY <1>1 DEF Message, NetMessage
  <2> QED
    BY <1>1, <2>1 DEF Post, QueueTypeOK
<1>2. CASE m.name \notin NetworkName
  <2>1. m \in DefMessage
    BY <1>2 DEF Message, DefMessage
  <2> QED
    BY <1>2, <2>1 DEF Post, QueueTypeOK
<1> QED
  BY <1>1, <1>2

LEMMA MsgTypes ==
  ASSUME NEW c \in Conn, NEW n \in NetworkName \union DefaultName
  PROVE  Msg(n, TypeOf[c], c) \in Message
BY ConnectionAssumption DEF Msg, Message

LEMMA ReportTypes ==
  ASSUME QueueTypeOK, ConnTypeOK, NEW c \in Conn, NEW n \in ReportName, Report(c, n)
  PROVE  QueueTypeOK' /\ reported' \in [Conn -> Seq(ReportName)]
<1>1. Msg(n, TypeOf[c], c) \in Message
  BY MsgTypes DEF NetworkName
<1>2. QueueTypeOK'
  BY <1>1, PostTypes DEF Report
<1>3. reported' \in [Conn -> Seq(ReportName)]
  BY DEF Report, ConnTypeOK
<1> QED
  BY <1>2, <1>3

LEMMA ServiceStepTypes ==
  ASSUME QueueTypeOK, ConnTypeOK, NEW c \in Conn, ServiceStep(c)
  PROVE  QueueTypeOK' /\ ConnTypeOK'
<1> USE DEF ServiceGoto, ServicePC, Waiting, Operation, RunHandler,
            queueVars, flagVars, ioVars, historyVars
<1>1. CASE Completes(c) \/ RunPostedClose(c) \/ HandleWriteError(c)
  BY <1>1 DEF Completes, RunPostedClose, HandleWriteError, ConnTypeOK, QueueTypeOK
<1>2. CASE HandleResolve(c)
  BY <1>2 DEF HandleResolve, ConnTypeOK, QueueTypeOK
<1>3. CASE HandleHeartBeat(c)
  <2>1. mConnected[c] \in BOOLEAN /\ writing[c] \in BOOLEAN
    BY DEF ConnTypeOK
  <2>2. writing' \in [Conn -> BOOLEAN]
    BY <1>3, <2>1 DEF HandleHeartBeat, ConnTypeOK
  <2> QED
    BY <1>3, <2>2 DEF HandleHeartBeat, ConnTypeOK, QueueTypeOK
<1>4. CASE DoKeepAlive(c)
  BY <1>4 DEF DoKeepAlive, ConnTypeOK, QueueTypeOK
<1>5. CASE HandleConnect(c)
  <2>1. Report(c, "NetworkServerConnected")
    BY <1>5 DEF HandleConnect
  <2>2. QueueTypeOK' /\ reported' \in [Conn -> Seq(ReportName)]
    BY <2>1, ReportTypes DEF ReportName
  <2> QED
    BY <1>5, <2>2 DEF HandleConnect, ConnTypeOK
<1>6. CASE HandleConnectError(c)
  <2>1. Report(c, "NetworkServerConnectFailed")
    BY <1>6 DEF HandleConnectError
  <2>2. QueueTypeOK' /\ reported' \in [Conn -> Seq(ReportName)]
    BY <2>1, ReportTypes DEF ReportName
  <2> QED
    BY <1>6, <2>2 DEF HandleConnectError, ConnTypeOK
<1>7. CASE HandleReadPacket(c)
  <2>0. MaxPackets \in Nat /\ packets \in [Conn -> 0..MaxPackets]
    BY ConnectionAssumption DEF ConnTypeOK
  <2>1. packets' \in [Conn -> 0..MaxPackets]
    <3>1. CASE UNCHANGED packets
      BY <2>0, <3>1
    <3>2. CASE packets[c] < MaxPackets /\ packets' = [packets EXCEPT ![c] = @ + 1]
      BY <2>0, <3>2
    <3> QED
      BY <1>7, <3>1, <3>2 DEF HandleReadPacket
  <2> QED
    BY <1>7, <2>1 DEF HandleReadPacket, ConnTypeOK, QueueTypeOK
<1>8. CASE DoReadPacket(c)
  <2>1. Msg("Packet", TypeOf[c], c) \in Message
    BY MsgTypes DEF DefaultName
  <2>2. QueueTypeOK'
    BY <1>8, <2>1, PostTypes DEF DoReadPacket
  <2> QED
    BY <1>8, <2>2 DEF DoReadPacket, ConnTypeOK
<1>9. CASE ClearConnected(c) \/ DoClose(c) \/ ReadPostMessage(c) \/ StopService(c)
  BY <1>9 DEF ClearConnected, DoClose, ReadPostMessage, StopService, ConnTypeOK, QueueTypeOK
<1>10. CASE NotifyDisconnected(c)
  <2>1. Report(c, "NetworkServerDisconnected")
    BY <1>10 DEF NotifyDisconnected
  <2>2. QueueTypeOK' /\ reported' \in [Conn -> Seq(ReportName)]
    BY <2>1, ReportTypes DEF ReportName
  <2> QED
    BY <1>10, <2>2 DEF NotifyDisconnected, ConnTypeOK
<1> QED
  BY <1>1, <1>2, <1>3, <1>4, <1>5, <1>6, <1>7, <1>8, <1>9, <1>10
  DEF ServiceStep, ServiceRuns

LEMMA InitTypes == QueueInit /\ ConnInit => ConnectionTypeOK
BY ConnectionAssumption
   DEF QueueInit, ConnInit, ConnectionTypeOK, QueueTypeOK, ConnTypeOK, ServicePC, OwnerPC

(***************************************************************************)
(* Type correctness of a connection under any owner: posting never puts a  *)
(* message of the game into the Network queue or the other way round.      *)
(***************************************************************************)
THEOREM ConnectionTypes == ConnSpec => []ConnectionTypeOK
<1>1. ConnectionTypeOK /\ [ConnNext]_allConnVars => ConnectionTypeOK'
  <2> SUFFICES ASSUME ConnectionTypeOK, [ConnNext]_allConnVars
               PROVE  ConnectionTypeOK'
    OBVIOUS
  <2> USE DEF ConnectionTypeOK
  <2>1. ASSUME NEW c \in Conn, OwnerStep(c)
        PROVE  ConnectionTypeOK'
    BY <2>1, OwnerOpTypes DEF OwnerStep, queueVars, QueueTypeOK
  <2>2. ASSUME NEW c \in Conn, ServiceStep(c)
        PROVE  ConnectionTypeOK'
    BY <2>2, ServiceStepTypes
  <2>3. CASE UNCHANGED allConnVars
    BY <2>3 DEF allConnVars, connVars, queueVars, flagVars, ioVars, historyVars,
                QueueTypeOK, ConnTypeOK
  <2> QED
    BY <2>1, <2>2, <2>3 DEF ConnNext
<1> QED
  BY <1>1, InitTypes, PTL DEF ConnSpec, FirstInit

-----------------------------------------------------------------------------
(* Agree.                                                                  *)

\* A step on c changes nothing of another connection.
ChangesOnly(c) ==
  \A d \in Conn \ {c} :
    /\ service'[d] = service[d] /\ owner'[d] = owner[d]
    /\ mConnected'[d] = mConnected[d] /\ mPostMessage'[d] = mPostMessage[d]
    /\ reported'[d] = reported[d]

LEMMA AgreesForOne ==
  ASSUME Agree, NEW c \in Conn, ChangesOnly(c), Agrees(c)'
  PROVE  Agree'
BY DEF ChangesOnly, Agree, Agrees, ReportAgrees, ConnectedAgrees, OwnerAgrees,
       EndAgrees

LEMMA OwnerOpAgrees ==
  ASSUME ConnTypeOK, Agree, NEW c \in Conn, OwnerOp(c)
  PROVE  Agree'
<1> SUFFICES ChangesOnly(c) /\ Agrees(c)'
  BY AgreesForOne
<1>a. Agrees(c)
  BY DEF Agree
<1> USE DEF ConnTypeOK, flagVars, ioVars, historyVars, ChangesOnly,
            Agrees, ReportAgrees, ConnectedAgrees, OwnerAgrees, EndAgrees,
            Waiting
<1>1. CASE Construct(c)
  BY <1>1, <1>a, ConnectionAssumption DEF Construct
<1>2. CASE EnablePosting(c)
  BY <1>2, <1>a DEF EnablePosting
<1>3. CASE Send(c)
  BY <1>3, <1>a DEF Send
<1>4. CASE Close(c)
  BY <1>4, <1>a DEF Close, CallClose
<1>5. CASE CloseReturn(c)
  BY <1>5, <1>a DEF CloseReturn
<1>6. CASE BeginDestroy(c)
  BY <1>6, <1>a DEF BeginDestroy
<1>7. CASE DestroyClose(c)
  BY <1>7, <1>a DEF DestroyClose, CallClose
<1>8. CASE DestroyReturn(c)
  BY <1>8, <1>a DEF DestroyReturn
<1> QED
  BY <1>1, <1>2, <1>3, <1>4, <1>5, <1>6, <1>7, <1>8 DEF OwnerOp

LEMMA ReportsDiffer ==
  /\ <<"NetworkServerConnectFailed">> # <<>>
  /\ <<"NetworkServerConnectFailed">> # <<"NetworkServerConnected">>
  /\ <<"NetworkServerDisconnected">> # <<>>
  /\ <<"NetworkServerDisconnected">> # <<"NetworkServerConnected">>
  /\ <<"NetworkServerConnected", "NetworkServerDisconnected">> # <<>>
  /\ <<"NetworkServerConnected", "NetworkServerDisconnected">> # <<"NetworkServerConnected">>
OBVIOUS

LEMMA AppendDisconnected ==
  /\ Append(<<>>, "NetworkServerDisconnected") = <<"NetworkServerDisconnected">>
  /\ Append(<<"NetworkServerConnected">>, "NetworkServerDisconnected")
       = <<"NetworkServerConnected", "NetworkServerDisconnected">>
<1> DEFINE s == <<"NetworkServerConnected">>
           t == <<"NetworkServerConnected", "NetworkServerDisconnected">>
<1>1. Append(s, "NetworkServerDisconnected") = t
  <2>1. s \in Seq(ReportName) /\ t \in Seq(ReportName) /\ Len(s) = 1 /\ Len(t) = 2
    BY DEF ReportName
  <2>2. "NetworkServerDisconnected" \in ReportName
    BY DEF ReportName
  <2>3. /\ Append(s, "NetworkServerDisconnected") \in Seq(ReportName)
        /\ Len(Append(s, "NetworkServerDisconnected")) = 2
        /\ \A i \in 1..2 : Append(s, "NetworkServerDisconnected")[i] = t[i]
    BY <2>1, <2>2, AppendProperties
  <2> QED
    BY <2>1, <2>3, SeqEqual
<1>2. Append(<<>>, "NetworkServerDisconnected") = <<"NetworkServerDisconnected">>
  OBVIOUS
<1> QED
  BY <1>1, <1>2

LEMMA ServiceStepAgrees ==
  ASSUME ConnTypeOK, Agree, NEW c \in Conn, ServiceStep(c)
  PROVE  Agree'
<1> SUFFICES ChangesOnly(c) /\ Agrees(c)'
  BY AgreesForOne
<1>a. Agrees(c)
  BY DEF Agree
<1> USE DEF ConnTypeOK, flagVars, ioVars, historyVars, ChangesOnly, ServiceGoto,
            Agrees, ReportAgrees, ConnectedAgrees, OwnerAgrees, EndAgrees,
            Waiting
<1>1. CASE Completes(c)
  BY <1>1, <1>a DEF Completes
<1>2. CASE RunPostedClose(c)
  BY <1>2, <1>a DEF RunPostedClose
<1>3. CASE HandleWriteError(c)
  BY <1>3, <1>a DEF HandleWriteError
<1>4. CASE HandleResolve(c)
  BY <1>4, <1>a DEF HandleResolve
<1>5. CASE HandleConnect(c)
  <2>1. reported'[c] = <<"NetworkServerConnected">>
    BY <1>5, <1>a DEF HandleConnect, Report
  <2> QED
    BY <1>5, <1>a, <2>1 DEF HandleConnect, Report, LegalReport
<1>6. CASE HandleConnectError(c)
  <2>1. reported'[c] = <<"NetworkServerConnectFailed">>
    BY <1>6, <1>a DEF HandleConnectError, Report
  <2> QED
    BY <1>6, <1>a, <2>1 DEF HandleConnectError, Report, LegalReport
<1>7. CASE ClearConnected(c)
  BY <1>7, <1>a DEF ClearConnected
<1>8. CASE HandleHeartBeat(c)
  BY <1>8, <1>a DEF HandleHeartBeat
<1>9. CASE DoKeepAlive(c)
  BY <1>9, <1>a DEF DoKeepAlive
<1>10. CASE HandleReadPacket(c)
  BY <1>10, <1>a DEF HandleReadPacket
<1>11. CASE DoReadPacket(c)
  BY <1>11, <1>a DEF DoReadPacket
<1>12. CASE DoClose(c)
  BY <1>12, <1>a, ReportsDiffer DEF DoClose
<1>13. CASE ReadPostMessage(c)
  BY <1>13, <1>a DEF ReadPostMessage
<1>14. CASE NotifyDisconnected(c)
  <2>1. reported'[c] \in {<<"NetworkServerDisconnected">>,
                          <<"NetworkServerConnected", "NetworkServerDisconnected">>}
    BY <1>14, <1>a, AppendDisconnected DEF NotifyDisconnected, Report
  <2> QED
    BY <1>14, <1>a, <2>1, ReportsDiffer DEF NotifyDisconnected, Report, LegalReport
<1>15. CASE StopService(c)
  BY <1>15, <1>a DEF StopService
<1> QED
  BY <1>1, <1>2, <1>3, <1>4, <1>5, <1>6, <1>7, <1>8, <1>9, <1>10,
     <1>11, <1>12, <1>13, <1>14, <1>15
  DEF ServiceStep, ServiceRuns

LEMMA InitAgrees == QueueInit /\ ConnInit => Agree
BY DEF ConnInit, Agree, Agrees, ReportAgrees, ConnectedAgrees, OwnerAgrees, EndAgrees,
       LegalReport, Waiting

\* The inductive invariant, on its own and with types.
LEMMA ConnInvariant == ConnSpec => [](ConnectionTypeOK /\ Agree)
<1>1. ConnectionTypeOK /\ Agree /\ [ConnNext]_allConnVars => Agree'
  <2> SUFFICES ASSUME ConnectionTypeOK, Agree, [ConnNext]_allConnVars
               PROVE  Agree'
    OBVIOUS
  <2>1. ASSUME NEW c \in Conn, OwnerStep(c)
        PROVE  Agree'
    BY <2>1, OwnerOpAgrees DEF OwnerStep, ConnectionTypeOK
  <2>2. ASSUME NEW c \in Conn, ServiceStep(c)
        PROVE  Agree'
    BY <2>2, ServiceStepAgrees DEF ConnectionTypeOK
  <2>3. CASE UNCHANGED allConnVars
    BY <2>3 DEF allConnVars, connVars, flagVars, historyVars,
                Agree, Agrees, ReportAgrees, ConnectedAgrees, OwnerAgrees, EndAgrees
  <2> QED
    BY <2>1, <2>2, <2>3 DEF ConnNext
<1> QED
  BY <1>1, InitAgrees, ConnectionTypes, PTL DEF ConnSpec, FirstInit

-----------------------------------------------------------------------------
(***************************************************************************)
(* What handleConnect and doClose report of a connection is one of the     *)
(* five legal histories, however closing and destroying interleave.        *)
(***************************************************************************)
THEOREM OneOutcomeHolds == ConnSpec => []OneOutcome
<1>1. Agree => OneOutcome
  BY DEF Agree, Agrees, OneOutcome
<1> QED
  BY <1>1, ConnInvariant, PTL

(***************************************************************************)
(* A destructor that returned without joining left only the tail of        *)
(* doClose running on the service thread.                                  *)
(***************************************************************************)
THEOREM NoHandlerAfterDestroyHolds == ConnSpec => []NoHandlerAfterDestroy
<1>1. ConnectionTypeOK /\ Agree => NoHandlerAfterDestroy
  BY DEF ConnectionTypeOK, ConnTypeOK, ServicePC, Agree, Agrees, ConnectedAgrees, OwnerAgrees,
         NoHandlerAfterDestroy, DyingTail, Waiting
<1> QED
  BY <1>1, ConnInvariant, PTL

(***************************************************************************)
(* A connection that ended while nobody destroyed it was reported to have  *)
(* ended, provided mPostMessage never reads as false before it is stored.  *)
(***************************************************************************)
THEOREM EndIsReportedHolds == ConnSpec => []EndIsReported
<1>1. Agree => EndIsReported
  BY DEF Agree, Agrees, EndAgrees, EndIsReported
<1> QED
  BY <1>1, ConnInvariant, PTL

(***************************************************************************)
(* While the destructor waits in join_all, doClose posts no                *)
(* NetworkServerDisconnected.                                              *)
(***************************************************************************)
THEOREM JoinedDestructorIsSilentHolds == ConnSpec => JoinedDestructorIsSilent
<1> DEFINE Silent(c) == owner[c] = "dtorJoining" =>
                         reported'[c] # Append(reported[c], "NetworkServerDisconnected")
<1>1. ConnectionTypeOK /\ Agree /\ [ConnNext]_allConnVars => \A c \in Conn : Silent(c)
  <2> SUFFICES ASSUME ConnectionTypeOK, Agree, [ConnNext]_allConnVars, NEW c \in Conn,
                      owner[c] = "dtorJoining"
               PROVE  reported'[c] # Append(reported[c], "NetworkServerDisconnected")
    OBVIOUS
  <2>1. reported[c] \in Seq(ReportName) /\ reported \in [Conn -> Seq(ReportName)]
    BY DEF ConnectionTypeOK, ConnTypeOK
  <2>2. CASE reported'[c] = reported[c]
    BY <2>1, <2>2, AppendProperties DEF ReportName
  <2>3. ASSUME NEW n \in {"NetworkServerConnected", "NetworkServerConnectFailed"},
               reported'[c] = Append(reported[c], n)
        PROVE  reported'[c] # Append(reported[c], "NetworkServerDisconnected")
    BY <2>1, <2>3, AppendProperties DEF ReportName
  <2>4. service[c] # "notify"
    BY DEF Agree, Agrees, OwnerAgrees
  <2>5. ASSUME NEW d \in Conn, OwnerStep(d)
        PROVE  reported' = reported
    BY <2>5 DEF OwnerStep, OwnerOp, Construct, EnablePosting, Send, Close, CloseReturn,
                BeginDestroy, DestroyClose, DestroyReturn, CallClose, historyVars
  <2>6. ASSUME NEW d \in Conn, ServiceStep(d)
        PROVE  \/ reported' = reported
               \/ d # c /\ reported'[c] = reported[c]
               \/ \E n \in {"NetworkServerConnected", "NetworkServerConnectFailed"} :
                    reported'[c] = Append(reported[c], n)
    <3>1. CASE HandleConnect(d) \/ HandleConnectError(d) \/ NotifyDisconnected(d)
      BY <3>1, <2>1, <2>4 DEF HandleConnect, HandleConnectError, NotifyDisconnected, Report,
                              ServiceGoto
    <3>2. CASE Completes(d) \/ RunPostedClose(d) \/ HandleWriteError(d) \/ HandleResolve(d)
      BY <3>2 DEF Completes, RunPostedClose, HandleWriteError, HandleResolve, historyVars
    <3>3. CASE ClearConnected(d) \/ HandleHeartBeat(d) \/ DoKeepAlive(d)
      BY <3>3 DEF ClearConnected, HandleHeartBeat, DoKeepAlive, historyVars
    <3>4. CASE HandleReadPacket(d) \/ DoReadPacket(d)
      BY <3>4 DEF HandleReadPacket, DoReadPacket, historyVars
    <3>5. CASE DoClose(d) \/ ReadPostMessage(d) \/ StopService(d)
      BY <3>5 DEF DoClose, ReadPostMessage, StopService, historyVars
    <3> QED
      BY <2>6, <3>1, <3>2, <3>3, <3>4, <3>5 DEF ServiceStep, ServiceRuns
  <2>7. CASE UNCHANGED allConnVars
    BY <2>2, <2>7 DEF allConnVars, connVars, historyVars
  <2> QED
    BY <2>2, <2>3, <2>5, <2>6, <2>7 DEF ConnNext
<1>2. ConnectionTypeOK /\ Agree /\ [ConnNext]_allConnVars
        => [\A c \in Conn : Silent(c)]_allConnVars
  BY <1>1
<1> QED
  BY <1>2, ConnInvariant, PTL DEF ConnSpec, FirstInit, JoinedDestructorIsSilent
=============================================================================
