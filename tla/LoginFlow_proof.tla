--------------------------- MODULE LoginFlow_proof ---------------------------
(***************************************************************************)
(* Why an answer finds the state that waits for it.  At any time there is  *)
(* at most one of: a prompt, a request to connect or to log in, a          *)
(* connection that owes an answer, an answer in the queue.  Each of them   *)
(* holds the state alive in one stage, and keeps the loop from replacing   *)
(* it.                                                                     *)
(***************************************************************************)
EXTENDS LoginFlow, SequenceTheorems, TLAPS

-----------------------------------------------------------------------------
(* The parts of the invariant.                                             *)

Alive(s) == mGameState = StateOf[s] /\ mNewGameState = mGameState

\* The state waits for the answer to a connect, and to a login.
LoginStage == [LOGIN |-> "LOGIN_REQUEST_SENT", CHARACTER |-> "CHARACTER_SERVER_CONNECTING"]

WaitsConnect(s) ==
  /\ Alive(s) /\ mStage = ConnectingOf[s]
  /\ IF s = "LOGIN" THEN mUsername /\ mConnectCallback = object ELSE mLoginCallback[s] = object

WaitsLogin(s) == Alive(s) /\ mStage = LoginStage[s] /\ mLoginCallback[s] = object

\* Nothing is under way to a server, or to any, and no answer has arrived.
Disconnects == Seq({"disconnect"})
Open == {"connecting", "up", "asked"}
Quiet(s) == requests[s] \in Disconnects /\ link[s] \notin Open
NoAnswer == \A i \in DOMAIN queue : queue[i].name = "PinCode"
Calm == NoAnswer /\ \A s \in Server : Quiet(s)

RequestsOK(s) ==
  \/ requests[s] \in Disconnects
  \/ requests[s] = <<"send">> /\ WaitsLogin(s) /\ link[s] \in {"up", "none"}
  \/ (\E d \in Disconnects : requests[s] = Append(d, "connect")) /\ WaitsConnect(s) /\ link[s] \notin Open

LinkOK(s) ==
  /\ link[s] = "connecting" => requests[s] = <<>> /\ WaitsConnect(s)
  /\ link[s] = "up" => \/ requests[s] = <<"send">>
                       \/ requests[s] = <<>> /\ \E i \in DOMAIN queue : queue[i] = Message(s, "Connected")
  /\ link[s] = "asked" => requests[s] = <<>> /\ WaitsLogin(s)

AnswerOK(i) ==
  queue[i].name # "PinCode" =>
    /\ requests[queue[i].server] = <<>>
    /\ \A j \in DOMAIN queue : queue[j].name # "PinCode" => j = i
    /\ IF queue[i].name \in {"Connected", "ConnectFailed"}
       THEN WaitsConnect(queue[i].server) ELSE WaitsLogin(queue[i].server)
    /\ IF queue[i].name = "Connected"
       THEN link[queue[i].server] \in {"up", "none"} ELSE link[queue[i].server] \notin Open

NetOK == (\A s \in Server : RequestsOK(s) /\ LinkOK(s)) /\ \A i \in DOMAIN queue : AnswerOK(i)

PromptOK(p) ==
  at[p] # "none" =>
    /\ for[p] = object
    /\ \E s \in Server :
         /\ Alive(s)
         /\ at[p] # "connect" => mStage = PromptOf[s]
         /\ at[p] = "connect" => mStage = ConnectingOf[s] /\ Calm
         /\ s = "LOGIN" /\ at[p] \in {"exchange", "connect"} => mUsername

PromptsOK ==
  /\ \A p \in Task : PromptOK(p)
  /\ \A p, q \in Task : at[p] # "none" /\ at[q] # "none" => p = q

StageOK == mStage = "NONE" /\ mGameState # "CHARACTER_SELECT" /\ mGameState # "NONE" => mNewGameState = mGameState

TasksOK ==
  \A s \in Server : mTasks[s] = IF mGameState = StateOf[s] /\ ~mShouldInitialize THEN object ELSE 0

\* The stage that is about to be exchanged is still the one that was read.
MainOK ==
  /\ main = "dangling" => queue # <<>> /\ Head(queue).name = "PinCode"
  /\ main = "show" => mStage = "NONE" /\ ~mShouldInitialize /\ \E s \in Server : mGameState = StateOf[s]

IInv == TypeOK /\ NetOK /\ PromptsOK /\ StageOK /\ TasksOK /\ MainOK

-----------------------------------------------------------------------------
(* Requests and queues.                                                    *)

Request == {"connect", "disconnect", "send"}
Answer == [server : Server, name : {"Connected", "ConnectFailed", "Accepted", "Rejected", "PinCode"}]

LEMMA DisconnectsFirst ==
  ASSUME NEW d \in Disconnects, d # <<>>
  PROVE  Head(d) = "disconnect" /\ Tail(d) \in Disconnects
<1>1. Head(d) \in {"disconnect"} /\ Tail(d) \in Seq({"disconnect"})
  BY HeadTailProperties DEF Disconnects
<1>. QED BY <1>1 DEF Disconnects

LEMMA SendIsNoDisconnect ==
  <<"send">> \notin Disconnects /\ <<>> \in Disconnects /\ <<"send">> # <<>>
  /\ Head(<<"send">>) = "send" /\ Tail(<<"send">>) = <<>>
<1>1. <<"send">> \in Seq({"send"}) /\ <<"send">> # <<>> /\ Head(<<"send">>) = "send" /\ Tail(<<"send">>) = <<>>
  OBVIOUS
<1>. QED BY <1>1, DisconnectsFirst DEF Disconnects

LEMMA ConnectIsLast ==
  ASSUME NEW d \in Disconnects
  PROVE  /\ Append(d, "connect") # <<>> /\ Append(d, "connect") \in Seq(Request)
         /\ IF d = <<>> THEN Head(Append(d, "connect")) = "connect" /\ Tail(Append(d, "connect")) = <<>>
            ELSE Head(Append(d, "connect")) = "disconnect" /\ Tail(Append(d, "connect")) = Append(Tail(d), "connect")
<1>1. d \in Seq(Request)
  <2>1. {"disconnect"} \subseteq Request
    BY DEF Request
  <2>. QED BY <2>1, SeqMonotonic DEF Disconnects
<1>2. Append(d, "connect") # <<>> /\ Append(d, "connect") \in Seq(Request)
  BY <1>1, AppendProperties DEF Request
<1>3. CASE d = <<>>
  BY <1>2, <1>3
<1>4. CASE d # <<>>
  <2>1. Head(Append(d, "connect")) = Head(d) /\ Tail(Append(d, "connect")) = Append(Tail(d), "connect")
    BY <1>1, <1>4, HeadTailAppend DEF Request
  <2>. QED BY <1>2, <1>4, <2>1, DisconnectsFirst
<1>. QED BY <1>3, <1>4

\* What disconnect() adds, and connect().
LEMMA MoreRequests ==
  ASSUME NEW d \in Disconnects, NEW s \in Server
  PROVE  /\ d \o DisconnectOf(s) \in Disconnects
         /\ d \o (DisconnectOf(s) \o <<"connect">>) = Append(d \o DisconnectOf(s), "connect")
<1>1. DisconnectOf(s) \in Disconnects
  <2>1. <<"disconnect">> \in Seq({"disconnect"}) /\ <<>> \in Seq({"disconnect"})
    OBVIOUS
  <2>. QED BY <2>1 DEF DisconnectOf, Disconnects
<1>2. d \o DisconnectOf(s) \in Disconnects
  BY <1>1, ConcatProperties DEF Disconnects
<1>3. d \in Seq(Request) /\ DisconnectOf(s) \in Seq(Request) /\ <<"connect">> \in Seq(Request)
      /\ d \o DisconnectOf(s) \in Seq(Request)
  <2>1. {"disconnect"} \subseteq Request /\ <<"connect">> \in Seq(Request)
    BY DEF Request
  <2>. QED BY <1>1, <1>2, <2>1, SeqMonotonic DEF Disconnects
<1>4. d \o (DisconnectOf(s) \o <<"connect">>) = (d \o DisconnectOf(s)) \o <<"connect">>
  BY <1>3, ConcatAssociative
<1>5. (d \o DisconnectOf(s)) \o <<"connect">> = Append(d \o DisconnectOf(s), "connect")
  BY <1>3, AppendIsConcat DEF Request
<1>. QED BY <1>2, <1>4, <1>5

LEMMA DisconnectsAreRequests == Disconnects \subseteq Seq(Request)
<1>1. {"disconnect"} \subseteq Request
  BY DEF Request
<1>. QED BY <1>1, SeqMonotonic DEF Disconnects

\* A message that is taken from the queue was the first.
LEMMA Popped ==
  ASSUME queue \in Seq(Answer), queue # <<>>, queue' = Tail(queue)
  PROVE  /\ queue' \in Seq(Answer) /\ 1 \in DOMAIN queue /\ Head(queue) = queue[1] /\ Head(queue) \in Answer
         /\ \A i \in DOMAIN queue' : i \in Nat \ {0} /\ i + 1 \in DOMAIN queue /\ queue'[i] = queue[i + 1]
         /\ \A i \in DOMAIN queue \ {1} : i - 1 \in DOMAIN queue' /\ queue'[i - 1] = queue[i]
<1>1. Len(queue) \in Nat /\ Len(queue) # 0 /\ DOMAIN queue = 1 .. Len(queue)
  BY EmptySeq, LenProperties
<1>2. Tail(queue) \in Seq(Answer) /\ Len(Tail(queue)) = Len(queue) - 1
      /\ \A i \in 1 .. Len(queue) - 1 : Tail(queue)[i] = queue[i + 1]
  BY HeadTailProperties
<1>3. DOMAIN Tail(queue) = 1 .. Len(queue) - 1
  BY <1>2, LenProperties
<1>4. Head(queue) = queue[1] /\ Head(queue) \in Answer
  BY HeadTailProperties
<1>. QED BY <1>1, <1>2, <1>3, <1>4

\* A message that is posted becomes the last.
LEMMA Posted ==
  ASSUME queue \in Seq(Answer), NEW m \in Answer, queue' = Append(queue, m)
  PROVE  /\ queue' \in Seq(Answer) /\ queue' # <<>>
         /\ Len(queue) \in Nat /\ DOMAIN queue = 1 .. Len(queue) /\ DOMAIN queue' = 1 .. Len(queue) + 1
         /\ queue'[Len(queue) + 1] = m /\ \A i \in DOMAIN queue : queue'[i] = queue[i]
         /\ queue # <<>> => Head(queue') = Head(queue)
<1>1. /\ queue' \in Seq(Answer) /\ queue' # <<>> /\ Len(queue') = Len(queue) + 1
      /\ queue'[Len(queue) + 1] = m /\ \A i \in 1 .. Len(queue) : queue'[i] = queue[i]
  BY AppendProperties
<1>2. Len(queue) \in Nat /\ DOMAIN queue = 1 .. Len(queue) /\ DOMAIN queue' = 1 .. Len(queue')
  BY <1>1, LenProperties
<1>3. ASSUME queue # <<>> PROVE Head(queue') = Head(queue)
  BY <1>3, HeadTailAppend
<1>. QED BY <1>1, <1>2, <1>3

-----------------------------------------------------------------------------
(* Types.                                                                  *)

LEMMA ServerNames ==
  /\ Server = {"LOGIN", "CHARACTER"}
  /\ StateOf["LOGIN"] = "LOGIN" /\ StateOf["CHARACTER"] = "CHARACTER_SERVER_SELECT"
  /\ PromptOf["LOGIN"] = "LOGIN_PROMPT" /\ PromptOf["CHARACTER"] = "SERVER_SELECT_PROMPT"
  /\ ConnectingOf["LOGIN"] = "LOGIN_SERVER_CONNECTING"
  /\ ConnectingOf["CHARACTER"] = "CHARACTER_SERVER_CONNECTING"
  /\ LoginStage["LOGIN"] = "LOGIN_REQUEST_SENT" /\ LoginStage["CHARACTER"] = "CHARACTER_SERVER_CONNECTING"
BY DEF Server, StateOf, PromptOf, ConnectingOf, LoginStage

\* The stages of the two states.
LEMMA StageSets ==
  /\ \A s \in Server : {"NONE", "LOGIN_CANCELLED", PromptOf[s], ConnectingOf[s], LoginStage[s]} \subseteq Stages[StateOf[s]]
  /\ "LOGIN_SUCCEEDED" \in Stages["LOGIN"] /\ "LOGIN_FAILED" \in Stages["CHARACTER_SERVER_SELECT"]
  /\ Stages["NONE"] = {"NONE"} /\ Stages["CHARACTER_SELECT"] = {"NONE"}
BY ServerNames DEF Stages

GameState == {"LOGIN", "CHARACTER_SERVER_SELECT", "CHARACTER_SELECT"}
Place == {"none", "scheduled", "asking", "cancel", "exchange", "connect"}

StateTypes ==
  /\ mNewGameState \in GameState /\ mGameState \in GameState \union {"NONE"}
  /\ object \in 0..MaxStates
  /\ mShouldInitialize \in BOOLEAN /\ mStage \in Stages[mGameState] /\ mUsername \in BOOLEAN
  /\ mTasks \in [Server -> 0..MaxStates]
  /\ main \in {"turn", "dispatch", "update", "show", "ended", "dangling"}

PromptTypes == at \in [Task -> Place] /\ for \in [Task -> 0..MaxStates]

ServiceTypes ==
  /\ mConnectionStatus \in [Server -> {"DISCONNECTED", "CONNECTING", "CONNECTED"}]
  /\ mConnectCallback \in 0..MaxStates
  /\ mLoginCallback \in [Server -> 0..MaxStates]

NetTypes ==
  /\ requests \in [Server -> Seq(Request)]
  /\ link \in [Server -> {"none", "connecting", "up", "asked", "accepted", "rejected"}]
  /\ queue \in Seq(Answer)
  /\ lost \in BOOLEAN

LEMMA TypeParts == TypeOK <=> StateTypes /\ PromptTypes /\ ServiceTypes /\ NetTypes
<1>1. GameState \union {"NONE"} = {"NONE", "LOGIN", "CHARACTER_SERVER_SELECT", "CHARACTER_SELECT"}
  BY DEF GameState
<1>. QED
  BY <1>1 DEF TypeOK, StateTypes, PromptTypes, ServiceTypes, NetTypes, GameState, Place, Request, Answer

LEMMA TypePartsNext == ASSUME StateTypes', PromptTypes', ServiceTypes', NetTypes' PROVE TypeOK'
BY DEF TypeOK, StateTypes, PromptTypes, ServiceTypes, NetTypes, GameState, Place, Request, Answer

LEMMA InitTypes == Init => TypeOK
<1> SUFFICES ASSUME Init PROVE StateTypes /\ PromptTypes /\ ServiceTypes /\ NetTypes
  BY TypeParts
<1>1. StateTypes
  <2>1. mStage \in Stages[mGameState]
    BY StageSets DEF Init
  <2>2. mTasks \in [Server -> 0..MaxStates] /\ object \in 0..MaxStates
    BY FlowAssumption DEF Init
  <2>. QED BY <2>1, <2>2 DEF Init, StateTypes, GameState
<1>2. PromptTypes /\ ServiceTypes
  BY FlowAssumption DEF Init, PromptTypes, ServiceTypes, Place
<1>3. <<>> \in Seq(Request) /\ <<>> \in Seq(Answer)
  OBVIOUS
<1>4. NetTypes
  BY <1>3 DEF Init, NetTypes
<1>. QED BY <1>1, <1>2, <1>4

LEMMA AskTypes ==
  ASSUME NetTypes, NEW s \in Server, NEW r \in Seq(Request), Ask(s, r)
  PROVE  /\ requests' \in [Server -> Seq(Request)] /\ requests'[s] = requests[s] \o r
         /\ \A t \in Server \ {s} : requests'[t] = requests[t]
<1>1. requests[s] \o r \in Seq(Request)
  BY ConcatProperties DEF NetTypes
<1>. QED BY <1>1 DEF NetTypes, Ask

LEMMA RequestTypes ==
  ASSUME NEW s \in Server
  PROVE  DisconnectOf(s) \in Seq(Request) /\ <<"send">> \in Seq(Request) /\ <<"disconnect">> \in Seq(Request)
         /\ DisconnectOf(s) \o <<"connect">> \in Seq(Request)
<1>1. <<"send">> \in Seq(Request) /\ <<"disconnect">> \in Seq(Request) /\ <<"connect">> \in Seq(Request) /\ <<>> \in Seq(Request)
  BY DEF Request
<1>2. DisconnectOf(s) \in Seq(Request)
  BY <1>1 DEF DisconnectOf
<1>. QED BY <1>1, <1>2, ConcatProperties

-----------------------------------------------------------------------------
(* What the parts of the invariant say together.                           *)

\* The two states and the stages they wait in are different.
LEMMA OneWaits ==
  ASSUME NEW s \in Server, NEW t \in Server, Alive(s), Alive(t)
  PROVE  s = t
BY ServerNames DEF Alive

LEMMA WaitsStage ==
  ASSUME NEW s \in Server, WaitsConnect(s) \/ WaitsLogin(s)
  PROVE  Alive(s) /\ mStage \in {ConnectingOf[s], LoginStage[s]} /\ mStage \notin {PromptOf[s], "NONE", "LOGIN_CANCELLED", "LOGIN_SUCCEEDED", "LOGIN_FAILED"}
BY ServerNames DEF WaitsConnect, WaitsLogin

\* The character server's state waits in one stage for both.
LEMMA CharacterWaits ==
  WaitsConnect("CHARACTER") => WaitsLogin("CHARACTER")
BY ServerNames DEF WaitsConnect, WaitsLogin

LEMMA AnswerFacts ==
  ASSUME IInv, NEW i \in DOMAIN queue, queue[i].name # "PinCode"
  PROVE  /\ queue[i].server \in Server /\ queue[i] \in Answer /\ AnswerOK(i)
         /\ Alive(queue[i].server)
         /\ WaitsConnect(queue[i].server) \/ WaitsLogin(queue[i].server)
<1>1. queue \in Seq(Answer)
  BY TypeParts DEF IInv, NetTypes
<1>2. queue[i] \in Answer
  BY <1>1
<1>3. AnswerOK(i)
  BY DEF IInv, NetOK
<1>. QED BY <1>2, <1>3 DEF Answer, AnswerOK, WaitsConnect, WaitsLogin

\* Nothing is under way when no state waits for it.
LEMMA QuietWhen ==
  ASSUME IInv, NEW s \in Server, ~WaitsConnect(s), ~WaitsLogin(s)
  PROVE  Quiet(s)
<1>1. RequestsOK(s) /\ LinkOK(s)
  BY DEF IInv, NetOK
<1>2. requests[s] \in Disconnects
  BY <1>1 DEF RequestsOK
<1>3. link[s] \notin {"connecting", "asked"}
  BY <1>1 DEF LinkOK
<1>4. link[s] # "up"
  <2> SUFFICES ASSUME link[s] = "up" PROVE FALSE
    OBVIOUS
  <2>1. PICK i \in DOMAIN queue : queue[i] = Message(s, "Connected")
    BY <1>1, <1>2, SendIsNoDisconnect DEF LinkOK
  <2>2. queue[i].name = "Connected" /\ queue[i].server = s
    BY <2>1 DEF Message
  <2>. QED BY <2>2, AnswerFacts
<1>. QED BY <1>2, <1>3, <1>4 DEF Quiet, Open

LEMMA CalmWhen ==
  ASSUME IInv, \A s \in Server : ~WaitsConnect(s) /\ ~WaitsLogin(s)
  PROVE  Calm
<1>1. NoAnswer
  BY AnswerFacts DEF NoAnswer
<1>. QED BY <1>1, QuietWhen DEF Calm

\* ... which is so when no state is alive that talks to a server, or it is in
\* another stage, or is about to be replaced.
LEMMA CalmStages ==
  ASSUME IInv,
         \/ mNewGameState # mGameState
         \/ \A s \in Server : mGameState # StateOf[s]
         \/ mStage \in {"NONE", "LOGIN_CANCELLED", "LOGIN_SUCCEEDED", "LOGIN_FAILED", "LOGIN_PROMPT", "SERVER_SELECT_PROMPT"}
  PROVE  Calm
<1>1. ASSUME NEW s \in Server, WaitsConnect(s) \/ WaitsLogin(s) PROVE FALSE
  BY <1>1, ServerNames DEF WaitsConnect, WaitsLogin, Alive
<1>. QED BY <1>1, CalmWhen

\* A prompt that is under way: all is calm.
LEMMA PromptFacts ==
  ASSUME IInv, NEW p \in Task, at[p] # "none", NEW s \in Server, mGameState = StateOf[s]
  PROVE  /\ for[p] = object /\ Alive(s) /\ Calm
         /\ mStage = (IF at[p] = "connect" THEN ConnectingOf[s] ELSE PromptOf[s])
         /\ s = "LOGIN" /\ at[p] \in {"exchange", "connect"} => mUsername
         /\ \A q \in Task \ {p} : at[q] = "none"
<1>1. PromptOK(p) /\ \A q \in Task \ {p} : at[q] = "none"
  BY DEF IInv, PromptsOK
<1>2. PICK t \in Server : /\ Alive(t)
                          /\ at[p] # "connect" => mStage = PromptOf[t]
                          /\ at[p] = "connect" => mStage = ConnectingOf[t] /\ Calm
                          /\ t = "LOGIN" /\ at[p] \in {"exchange", "connect"} => mUsername
  BY <1>1 DEF PromptOK
<1>3. t = s
  BY <1>2, ServerNames DEF Alive
<1>4. Calm
  BY <1>2, CalmStages, ServerNames
<1>. QED BY <1>1, <1>2, <1>3, <1>4 DEF PromptOK

\* The server whose state shows a prompt.
LEMMA PromptServer ==
  ASSUME IInv, NEW p \in Task, at[p] # "none"
  PROVE  \E s \in Server : mGameState = StateOf[s]
BY DEF IInv, PromptsOK, PromptOK, Alive

\* While an answer is due no prompt is under way.
LEMMA NoPrompt ==
  ASSUME IInv, \/ ~Calm
               \/ mNewGameState # mGameState
               \/ mStage \in {"NONE", "LOGIN_CANCELLED", "LOGIN_SUCCEEDED", "LOGIN_FAILED"}
               \/ \A s \in Server : mGameState # StateOf[s]
  PROVE  \A p \in Task : at[p] = "none"
<1> SUFFICES ASSUME NEW p \in Task, at[p] # "none" PROVE FALSE
  OBVIOUS
<1>1. PICK s \in Server : mGameState = StateOf[s]
  BY PromptServer
<1>2. Alive(s) /\ Calm /\ mStage \in {ConnectingOf[s], PromptOf[s]}
  BY <1>1, PromptFacts
<1>. QED BY <1>1, <1>2, ServerNames DEF Alive

\* A calm network is as it should be, whatever the states do.
LEMMA CalmIsOK == Calm => NetOK
<1> SUFFICES ASSUME Calm PROVE NetOK
  OBVIOUS
<1>1. \A s \in Server : RequestsOK(s) /\ LinkOK(s)
  BY DEF Calm, Quiet, RequestsOK, LinkOK, Open
<1>2. \A i \in DOMAIN queue : AnswerOK(i)
  BY DEF Calm, NoAnswer, AnswerOK
<1>. QED BY <1>1, <1>2 DEF NetOK

LEMMA CalmIsOKNext == Calm' => NetOK'
<1> SUFFICES ASSUME Calm' PROVE NetOK'
  OBVIOUS
<1>1. \A s \in Server : RequestsOK(s)' /\ LinkOK(s)'
  BY DEF Calm, Quiet, RequestsOK, LinkOK, Open
<1>2. \A i \in DOMAIN queue' : AnswerOK(i)'
  BY DEF Calm, NoAnswer, AnswerOK
<1>. QED BY <1>1, <1>2 DEF NetOK

\* No prompts are as they should be.
LEMMA NoPromptIsOK == ASSUME \A p \in Task : at'[p] = "none" PROVE PromptsOK'
BY DEF PromptsOK, PromptOK

LEMMA InvInit == Init => IInv
<1> SUFFICES ASSUME Init PROVE IInv
  OBVIOUS
<1>1. TypeOK
  BY InitTypes
<1>2. Calm
  BY SendIsNoDisconnect DEF Init, Calm, NoAnswer, Quiet, Open
<1>3. PromptsOK /\ StageOK /\ MainOK
  BY DEF Init, PromptsOK, PromptOK, StageOK, MainOK
<1>4. TasksOK
  BY ServerNames DEF Init, TasksOK
<1>. QED BY <1>1, <1>2, <1>3, <1>4, CalmIsOK DEF IInv

-----------------------------------------------------------------------------
(* The steps of the loop.                                                  *)

LEMMA OneBusy ==
  ASSUME NoAnswer', NEW s \in Server, RequestsOK(s)', LinkOK(s)', \A t \in Server \ {s} : Quiet(t)'
  PROVE  NetOK'
<1>1. \A t \in Server \ {s} : RequestsOK(t)' /\ LinkOK(t)'
  BY DEF Quiet, RequestsOK, LinkOK, Open
<1>2. \A i \in DOMAIN queue' : AnswerOK(i)'
  BY DEF NoAnswer, AnswerOK
<1>. QED BY <1>1, <1>2 DEF NetOK

coreVars == <<mNewGameState, mGameState, object, mStage, mUsername, promptVars, serviceVars, netVars>>

LEMMA CoreKept == ASSUME IInv, UNCHANGED coreVars PROVE NetOK' /\ PromptsOK' /\ StageOK'
<1>1. UNCHANGED <<mNewGameState, mGameState, object, mStage, mUsername, at, for, mConnectCallback, mLoginCallback,
                  requests, link, queue>>
  BY DEF coreVars, promptVars, serviceVars, netVars
<1>2. \A s \in Server : RequestsOK(s)' /\ LinkOK(s)'
  BY <1>1 DEF IInv, NetOK, RequestsOK, LinkOK, WaitsConnect, WaitsLogin, Alive
<1>3. \A i \in DOMAIN queue' : AnswerOK(i)'
  BY <1>1 DEF IInv, NetOK, AnswerOK, WaitsConnect, WaitsLogin, Alive
<1>4. Calm' <=> Calm
  BY <1>1 DEF Calm, NoAnswer, Quiet
<1>5. PromptsOK'
  BY <1>1, <1>4 DEF IInv, PromptsOK, PromptOK, Alive
<1>6. StageOK'
  BY <1>1 DEF IInv, StageOK
<1>. QED BY <1>2, <1>3, <1>5, <1>6 DEF NetOK

LEMMA Changes == ASSUME IInv, ChangeGameState PROVE IInv'
<1>1. /\ main = "turn" /\ main' = "dispatch"
      /\ UNCHANGED <<mNewGameState, at, for, promptVars, serviceVars, netVars>>
      /\ StateTypes /\ PromptTypes /\ ServiceTypes /\ NetTypes
  BY TypeParts DEF ChangeGameState, IInv, promptVars
<1>2. PromptTypes' /\ ServiceTypes' /\ NetTypes' /\ MainOK'
  BY <1>1 DEF PromptTypes, ServiceTypes, NetTypes, serviceVars, netVars, MainOK
<1>3. CASE mNewGameState = mGameState /\ UNCHANGED <<mGameState, stateVars, mTasks>>
  <2>1. StateTypes' /\ TasksOK'
    BY <1>1, <1>3 DEF StateTypes, stateVars, TasksOK, IInv
  <2>2. UNCHANGED coreVars
    BY <1>1, <1>3 DEF coreVars, stateVars
  <2>. QED BY <1>2, <2>1, <2>2, CoreKept, TypePartsNext DEF IInv
<1>4. CASE /\ mNewGameState # mGameState /\ object < MaxStates
           /\ mGameState' = mNewGameState /\ object' = object + 1
           /\ mShouldInitialize' = TRUE /\ mStage' = "NONE" /\ mUsername' = FALSE
           /\ mTasks' = [s \in Server |-> IF StateOf[s] = mGameState THEN 0 ELSE mTasks[s]]
  <2>1. Calm' /\ \A p \in Task : at'[p] = "none"
    <3>1. Calm /\ \A p \in Task : at[p] = "none"
      BY <1>4, CalmStages, NoPrompt
    <3>2. UNCHANGED <<requests, link, queue>>
      BY <1>1 DEF netVars
    <3>. QED BY <1>1, <3>1, <3>2 DEF Calm, NoAnswer, Quiet
  <2>2. mTasks' = [s \in Server |-> 0]
    BY <1>4 DEF IInv, TasksOK
  <2>3. TasksOK'
    BY <1>4, <2>2 DEF TasksOK
  <2>4. StateTypes'
    <3>1. mStage' \in Stages[mGameState']
      BY <1>1, <1>4, StageSets, ServerNames DEF StateTypes, GameState
    <3>2. object' \in 0..MaxStates /\ mTasks' \in [Server -> 0..MaxStates]
      BY <1>1, <1>4, <2>2, FlowAssumption DEF StateTypes
    <3>. QED BY <1>1, <1>4, <3>1, <3>2 DEF StateTypes
  <2>5. StageOK'
    BY <1>1, <1>4 DEF StageOK
  <2>. QED BY <1>2, <2>1, <2>3, <2>4, <2>5, CalmIsOKNext, NoPromptIsOK, TypePartsNext DEF IInv
<1>. QED BY <1>3, <1>4 DEF ChangeGameState

LEMMA EndsDispatch == ASSUME IInv, EndDispatch PROVE IInv'
<1>1. main' = "update" /\ UNCHANGED <<mNewGameState, mGameState, mTasks, stateVars, promptVars, serviceVars, netVars>>
  BY DEF EndDispatch
<1>2. UNCHANGED coreVars
  BY <1>1 DEF coreVars, stateVars
<1>3. TypeOK'
  <2>1. StateTypes /\ PromptTypes /\ ServiceTypes /\ NetTypes
    BY TypeParts DEF IInv
  <2>2. StateTypes' /\ PromptTypes' /\ ServiceTypes' /\ NetTypes'
    BY <1>1, <2>1 DEF StateTypes, PromptTypes, ServiceTypes, NetTypes, stateVars, promptVars, serviceVars, netVars
  <2>. QED BY <2>2, TypePartsNext
<1>4. TasksOK' /\ MainOK'
  BY <1>1 DEF IInv, TasksOK, MainOK, stateVars
<1>. QED BY <1>2, <1>3, <1>4, CoreKept DEF IInv

\* initialize() registers the prompt of the object alive.
LEMMA Registers ==
  ASSUME IInv
  PROVE  /\ Registered \in [Server -> 0..MaxStates]
         /\ \A s \in Server : Registered[s] = IF mGameState = StateOf[s] THEN object ELSE 0
<1>1. StateTypes
  BY TypeParts DEF IInv
<1>. QED BY <1>1 DEF IInv, TasksOK, Registered, StateTypes

\* What every update does.
LEMMA UpdateFacts ==
  ASSUME IInv, Update
  PROVE  /\ main = "update" /\ mTasks' = Registered /\ mShouldInitialize' = FALSE
         /\ UNCHANGED <<mGameState, object, mUsername, serviceVars, link, queue, lost>>
         /\ mTasks' \in [Server -> 0..MaxStates] /\ TasksOK' /\ ServiceTypes'
<1>1. /\ main = "update" /\ mTasks' = Registered /\ mShouldInitialize' = FALSE
      /\ UNCHANGED <<mGameState, object, mUsername, serviceVars, link, queue, lost>>
  BY DEF Update
<1>2. mTasks' \in [Server -> 0..MaxStates] /\ TasksOK'
  BY <1>1, Registers DEF TasksOK
<1>3. ServiceTypes'
  BY <1>1, TypeParts DEF IInv, ServiceTypes, serviceVars
<1>. QED BY <1>1, <1>2, <1>3

\* The stage NONE is found; nothing else happens yet.
LEMMA FindsNoStage == ASSUME IInv, Update, FindNoStage PROVE IInv'
<1>1. /\ \E s \in Server : mGameState = StateOf[s]
      /\ mStage = "NONE" /\ main' = "show"
      /\ UNCHANGED <<mNewGameState, mStage, promptVars, requests>>
  BY DEF FindNoStage
<1>2. UNCHANGED coreVars
  BY <1>1, UpdateFacts DEF coreVars, netVars
<1>3. StateTypes /\ PromptTypes /\ NetTypes
  BY TypeParts DEF IInv
<1>4. StateTypes' /\ PromptTypes' /\ NetTypes'
  BY <1>1, <1>3, UpdateFacts DEF StateTypes, PromptTypes, NetTypes, promptVars
<1>5. MainOK'
  BY <1>1, UpdateFacts DEF MainOK
<1>. QED BY <1>2, <1>4, <1>5, CoreKept, UpdateFacts, TypePartsNext DEF IInv

LEMMA GoesBack == ASSUME IInv, Update, GoBack PROVE IInv'
<1>1. /\ Ask("CHARACTER", DisconnectOf("CHARACTER")) /\ mNewGameState' = "LOGIN" /\ main' = "turn"
      /\ UNCHANGED <<mStage, at, for>>
      /\ mStage \in {"LOGIN_FAILED", "LOGIN_CANCELLED"} \/ mGameState = "CHARACTER_SELECT"
  BY DEF GoBack, promptVars
<1>2. StateTypes /\ PromptTypes /\ NetTypes /\ "CHARACTER" \in Server
  BY TypeParts, ServerNames DEF IInv
<1>3. Calm /\ \A q \in Task : at[q] = "none"
  BY <1>1, ServerNames, CalmStages, NoPrompt
<1>4. requests' \in [Server -> Seq(Request)] /\ \A t \in Server : requests'[t] \in Disconnects
  <2>1. requests["CHARACTER"] \o DisconnectOf("CHARACTER") \in Disconnects
    BY <1>2, <1>3, MoreRequests DEF Calm, Quiet
  <2>. QED BY <1>1, <1>2, <1>3, <2>1, AskTypes, RequestTypes DEF Calm, Quiet
<1>5. UNCHANGED <<link, queue, lost, mGameState, object, mUsername>>
  BY UpdateFacts
<1>6. Calm' /\ NetTypes' /\ PromptTypes'
  BY <1>1, <1>2, <1>3, <1>4, <1>5 DEF Calm, NoAnswer, Quiet, NetTypes, PromptTypes
<1>7. StateTypes'
  BY <1>1, <1>2, UpdateFacts DEF StateTypes, GameState
<1>8. StageOK' /\ MainOK'
  <2>1. mStage' # "NONE" \/ mGameState' = "CHARACTER_SELECT"
    BY <1>1, <1>5
  <2>. QED BY <1>1, <2>1 DEF StageOK, MainOK
<1>. QED BY <1>1, <1>3, <1>6, <1>7, <1>8, UpdateFacts, CalmIsOKNext, NoPromptIsOK, TypePartsNext DEF IInv

LEMMA LeavesAlone == ASSUME IInv, Update, ExitGame \/ NothingToDo PROVE IInv'
<1>1. main' \in {"ended", "turn"} /\ UNCHANGED <<mNewGameState, mStage, promptVars, requests>>
  BY DEF ExitGame, NothingToDo
<1>2. UNCHANGED coreVars
  BY <1>1, UpdateFacts DEF coreVars, netVars
<1>3. StateTypes /\ PromptTypes /\ NetTypes
  BY TypeParts DEF IInv
<1>4. StateTypes' /\ PromptTypes' /\ NetTypes'
  BY <1>1, <1>3, UpdateFacts DEF StateTypes, PromptTypes, NetTypes, promptVars
<1>5. MainOK'
  BY <1>1 DEF MainOK
<1>. QED BY <1>2, <1>4, <1>5, CoreKept, UpdateFacts, TypePartsNext DEF IInv

LEMMA Updates == ASSUME IInv, Update PROVE IInv'
BY FindsNoStage, GoesBack, LeavesAlone DEF Update

\* What was read of the stage still holds when it is exchanged.
LEMMA Shows == ASSUME IInv, NEW s \in Server, ShowPrompt(s) PROVE IInv'
<1>1. /\ main = "show" /\ mGameState = StateOf[s] /\ main' = "turn"
      /\ UNCHANGED <<object, mShouldInitialize, mUsername, mNewGameState, mGameState, mTasks, serviceVars,
                     link, queue, lost>>
      /\ IF s = "LOGIN" THEN Ask(s, DisconnectOf(s)) ELSE UNCHANGED requests
  BY DEF ShowPrompt
<1>2. StateTypes /\ PromptTypes /\ ServiceTypes /\ NetTypes
  BY TypeParts DEF IInv
<1>3. mStage = "NONE" /\ ~mShouldInitialize /\ mStage' = PromptOf[s]
  BY <1>1 DEF IInv, MainOK, ShowPrompt
<1>4. mNewGameState = mGameState /\ mTasks[s] = object
  BY <1>1, <1>3, ServerNames DEF IInv, StageOK, TasksOK
<1>5. Calm /\ \A q \in Task : at[q] = "none"
  BY <1>3, CalmStages, NoPrompt
<1>6. PICK p \in Task : /\ at' = [at EXCEPT ![p] = "scheduled"]
                        /\ for' = [for EXCEPT ![p] = object]
  BY <1>3, <1>4 DEF ShowPrompt, SchedulePrompt
<1>7. at'[p] = "scheduled" /\ for'[p] = object /\ \A q \in Task \ {p} : at'[q] = "none"
  BY <1>2, <1>5, <1>6 DEF PromptTypes
<1>8. PromptTypes' /\ ServiceTypes'
  BY <1>1, <1>2, <1>6 DEF StateTypes, PromptTypes, ServiceTypes, serviceVars, Place
<1>9. requests' \in [Server -> Seq(Request)] /\ \A t \in Server : requests'[t] \in Disconnects
  <2>1. CASE s = "LOGIN"
    <3>1. requests[s] \in Disconnects
      BY <1>5 DEF Calm, Quiet
    <3>2. requests[s] \o DisconnectOf(s) \in Disconnects
      BY <3>1, MoreRequests
    <3>. QED BY <1>1, <1>2, <1>5, <2>1, <3>2, AskTypes, RequestTypes DEF Calm, Quiet
  <2>2. CASE s # "LOGIN"
    BY <1>1, <1>2, <1>5, <2>2 DEF NetTypes, Calm, Quiet
  <2>. QED BY <2>1, <2>2
<1>10. Calm' /\ NetTypes'
  BY <1>1, <1>2, <1>5, <1>9 DEF Calm, NoAnswer, Quiet, NetTypes
<1>11. PromptsOK'
  <2>1. Alive(s)'
    BY <1>1, <1>4 DEF Alive
  <2>2. PromptOK(p)'
    BY <1>1, <1>3, <1>7, <2>1 DEF PromptOK
  <2>. QED BY <1>7, <2>2 DEF PromptsOK, PromptOK
<1>12. StateTypes'
  <2>1. mStage' \in Stages[mGameState']
    BY <1>1, <1>3, StageSets
  <2>. QED BY <1>1, <1>2, <2>1 DEF StateTypes
<1>13. StageOK' /\ TasksOK' /\ MainOK'
  BY <1>1, <1>3, ServerNames DEF IInv, StageOK, TasksOK, MainOK
<1>. QED BY <1>8, <1>10, <1>11, <1>12, <1>13, CalmIsOKNext, TypePartsNext DEF IInv

-----------------------------------------------------------------------------
(* The steps of a prompt.                                                  *)

\* A step that leaves the services and the network alone.
LEMMA PromptStep ==
  ASSUME IInv, NEW p \in Task, at[p] # "none", NEW s \in Server, Prompts(p, s),
         NEW v \in Place, at' = [at EXCEPT ![p] = v], mStage' \in Stages[StateOf[s]], mUsername' \in BOOLEAN,
         mStage' # "NONE", UNCHANGED <<object, mShouldInitialize, loopVars, for, serviceVars, netVars>>,
         \/ v = "none"
         \/ /\ mStage' = (IF v = "connect" THEN ConnectingOf[s] ELSE PromptOf[s])
            /\ s = "LOGIN" /\ v \in {"exchange", "connect"} => mUsername'
  PROVE  IInv'
<1>1. StateTypes /\ PromptTypes /\ ServiceTypes /\ NetTypes /\ mGameState = StateOf[s]
  BY TypeParts DEF IInv, Prompts
<1>2. StateTypes' /\ PromptTypes' /\ ServiceTypes' /\ NetTypes'
  BY <1>1 DEF StateTypes, PromptTypes, ServiceTypes, NetTypes, loopVars, serviceVars, netVars
<1>3. for[p] = object /\ Alive(s) /\ Calm /\ \A q \in Task \ {p} : at[q] = "none"
  BY <1>1, PromptFacts
<1>4. Calm' /\ Alive(s)'
  BY <1>3 DEF Calm, NoAnswer, Quiet, Alive, netVars, loopVars
<1>5. at'[p] = v /\ \A q \in Task \ {p} : at'[q] = "none"
  BY <1>1, <1>3 DEF PromptTypes
<1>6. PromptOK(p)'
  BY <1>3, <1>4, <1>5 DEF PromptOK
<1>7. PromptsOK'
  BY <1>5, <1>6 DEF PromptsOK, PromptOK
<1>8. StageOK' /\ TasksOK' /\ MainOK'
  BY NoPrompt DEF IInv, StageOK, TasksOK, MainOK, loopVars, netVars
<1>. QED BY <1>2, <1>4, <1>7, <1>8, CalmIsOKNext, TypePartsNext DEF IInv

\* The stages a prompt leaves behind.
LEMMA PromptStages ==
  ASSUME IInv, NEW p \in Task, at[p] # "none", NEW s \in Server, Prompts(p, s)
  PROVE  /\ {"LOGIN_CANCELLED", PromptOf[s], ConnectingOf[s]} \subseteq Stages[StateOf[s]] \ {"NONE"}
         /\ mStage = (IF at[p] = "connect" THEN ConnectingOf[s] ELSE PromptOf[s])
         /\ mStage \in Stages[StateOf[s]] /\ mUsername \in BOOLEAN
         /\ s = "LOGIN" /\ at[p] \in {"exchange", "connect"} => mUsername
<1>1. mGameState = StateOf[s] /\ mUsername \in BOOLEAN
  BY TypeParts DEF Prompts, IInv, StateTypes
<1>. QED BY <1>1, PromptFacts, StageSets, ServerNames

LEMMA Starts == ASSUME IInv, NEW p \in Task, StartPrompt(p) PROVE IInv'
<1>1. PICK s \in Server : /\ Prompts(p, s)
                          /\ at' = [at EXCEPT ![p] = IF mStage = PromptOf[s] THEN "asking" ELSE "none"]
                          /\ mStage' = IF s = "LOGIN" /\ mStage # PromptOf[s] THEN "NONE" ELSE mStage
  BY DEF StartPrompt
<1>2. at[p] = "scheduled" /\ UNCHANGED <<object, mShouldInitialize, mUsername, loopVars, for, serviceVars, netVars>>
  BY DEF StartPrompt
<1>3. mStage = PromptOf[s] /\ mStage' = PromptOf[s] /\ at' = [at EXCEPT ![p] = "asking"]
      /\ mStage' \in Stages[StateOf[s]] \ {"NONE"} /\ mUsername' \in BOOLEAN
  BY <1>1, <1>2, PromptStages
<1>4. "asking" \in Place
  BY DEF Place
<1>. QED BY <1>1, <1>2, <1>3, <1>4, PromptStep

LEMMA PlayerAnswered == ASSUME IInv, NEW p \in Task, PlayerAnswers(p) PROVE IInv'
<1>1. at[p] = "asking" /\ UNCHANGED <<object, mShouldInitialize, mStage, loopVars, for, serviceVars, netVars>>
  BY DEF PlayerAnswers
<1>2. PICK s \in Server, v \in {"cancel", "exchange"} :
        /\ Prompts(p, s) /\ at' = [at EXCEPT ![p] = v]
        /\ IF v = "cancel" THEN UNCHANGED mUsername ELSE mUsername' = (s = "LOGIN")
  BY DEF PlayerAnswers
<1>3. mStage' = PromptOf[s] /\ mStage' \in Stages[StateOf[s]] \ {"NONE"} /\ mUsername' \in BOOLEAN
  BY <1>1, <1>2, PromptStages
<1>4. v \in Place /\ v # "connect"
  BY DEF Place
<1>5. s = "LOGIN" /\ v \in {"exchange", "connect"} => mUsername'
  BY <1>2
<1>. QED BY <1>1, <1>2, <1>3, <1>4, <1>5, PromptStep

LEMMA Cancels == ASSUME IInv, NEW p \in Task, CancelPrompt(p) PROVE IInv'
<1>1. at[p] = "cancel" /\ at' = [at EXCEPT ![p] = "none"]
      /\ UNCHANGED <<object, mShouldInitialize, mUsername, loopVars, for, serviceVars, netVars>>
  BY DEF CancelPrompt
<1>2. PICK s \in Server : Prompts(p, s) /\ mStage' \in {"LOGIN_CANCELLED", mStage}
  BY ServerNames DEF CancelPrompt, ChangeStage
<1>3. mStage' \in Stages[StateOf[s]] \ {"NONE"} /\ mUsername' \in BOOLEAN
  BY <1>1, <1>2, PromptStages
<1>4. "none" \in Place
  BY DEF Place
<1>. QED BY <1>1, <1>2, <1>3, <1>4, PromptStep

LEMMA Exchanges == ASSUME IInv, NEW p \in Task, ExchangeStage(p) PROVE IInv'
<1>1. at[p] = "exchange" /\ UNCHANGED <<object, mShouldInitialize, mUsername, loopVars, for, serviceVars, netVars>>
  BY DEF ExchangeStage
<1>2. PICK s \in Server :
        /\ Prompts(p, s)
        /\ mStage = PromptOf[s] => mStage' = ConnectingOf[s] /\ at' = [at EXCEPT ![p] = "connect"]
  BY DEF ExchangeStage
<1>3. mStage = PromptOf[s] /\ mStage' = ConnectingOf[s] /\ at' = [at EXCEPT ![p] = "connect"]
      /\ mStage' \in Stages[StateOf[s]] \ {"NONE"} /\ mUsername' \in BOOLEAN /\ (s = "LOGIN" => mUsername')
  BY <1>1, <1>2, PromptStages
<1>4. "connect" \in Place
  BY DEF Place
<1>. QED BY <1>1, <1>2, <1>3, <1>4, PromptStep

LEMMA Connects == ASSUME IInv, NEW p \in Task, ConnectServer(p) PROVE IInv'
<1>1. at[p] = "connect" /\ at' = [at EXCEPT ![p] = "none"] /\ UNCHANGED <<stateVars, loopVars, for, link, queue, lost>>
  BY DEF ConnectServer
<1>2. PICK s \in Server :
        /\ Prompts(p, s)
        /\ IF s = "LOGIN"
           THEN mConnectCallback' = for[p] /\ UNCHANGED mLoginCallback
           ELSE mLoginCallback' = [mLoginCallback EXCEPT ![s] = for[p]] /\ UNCHANGED mConnectCallback
        /\ Ask(s, DisconnectOf(s) \o <<"connect">>)
        /\ mConnectionStatus' = [mConnectionStatus EXCEPT ![s] = "CONNECTING"]
  BY DEF ConnectServer
<1>3. StateTypes /\ PromptTypes /\ ServiceTypes /\ NetTypes /\ mGameState = StateOf[s]
  BY <1>2, TypeParts DEF IInv, Prompts
<1>4. for[p] = object /\ Alive(s) /\ Calm /\ mStage = ConnectingOf[s] /\ (s = "LOGIN" => mUsername)
      /\ \A q \in Task \ {p} : at[q] = "none"
  BY <1>1, <1>3, PromptFacts
<1>5. PICK d \in Disconnects : requests[s] \o (DisconnectOf(s) \o <<"connect">>) = Append(d, "connect")
  BY <1>4, MoreRequests DEF Calm, Quiet
<1>6. requests' \in [Server -> Seq(Request)] /\ requests'[s] = Append(d, "connect")
      /\ \A t \in Server \ {s} : requests'[t] = requests[t]
  BY <1>2, <1>3, <1>5, AskTypes, RequestTypes
<1>7. StateTypes' /\ PromptTypes' /\ ServiceTypes' /\ NetTypes'
  BY <1>1, <1>2, <1>3, <1>6 DEF StateTypes, PromptTypes, ServiceTypes, NetTypes, stateVars, loopVars, Place
<1>8. WaitsConnect(s)'
  BY <1>1, <1>2, <1>3, <1>4 DEF WaitsConnect, Alive, ServiceTypes, stateVars, loopVars
<1>9. RequestsOK(s)' /\ LinkOK(s)'
  BY <1>1, <1>4, <1>6, <1>8 DEF RequestsOK, LinkOK, Calm, Quiet, Open
<1>10. NoAnswer' /\ \A t \in Server \ {s} : Quiet(t)'
  BY <1>1, <1>4, <1>6 DEF Calm, NoAnswer, Quiet
<1>11. \A q \in Task : at'[q] = "none"
  BY <1>1, <1>3, <1>4 DEF PromptTypes
<1>12. StageOK' /\ TasksOK' /\ MainOK'
  BY <1>1 DEF IInv, StageOK, TasksOK, MainOK, stateVars, loopVars
<1>. QED BY <1>7, <1>9, <1>10, <1>11, <1>12, OneBusy, NoPromptIsOK, TypePartsNext DEF IInv

-----------------------------------------------------------------------------
(* The steps of the network.                                               *)

restVars == <<stateVars, loopVars, promptVars, serviceVars>>

LEMMA NetStep ==
  ASSUME IInv, UNCHANGED restVars, NetTypes', NetOK', Calm => Calm',
         \/ queue' = queue
         \/ main # "dangling"
         \/ queue' # <<>> /\ (queue # <<>> => Head(queue') = Head(queue))
  PROVE  IInv'
<1>1. UNCHANGED <<mNewGameState, mGameState, object, mShouldInitialize, mStage, mUsername, mTasks, main, at, for,
                  mConnectionStatus, mConnectCallback, mLoginCallback>>
  BY DEF restVars, stateVars, loopVars, promptVars, serviceVars
<1>2. StateTypes /\ PromptTypes /\ ServiceTypes
  BY TypeParts DEF IInv
<1>3. StateTypes' /\ PromptTypes' /\ ServiceTypes'
  BY <1>1, <1>2 DEF StateTypes, PromptTypes, ServiceTypes
<1>4. PromptsOK'
  BY <1>1 DEF IInv, PromptsOK, PromptOK, Alive
<1>5. StageOK' /\ TasksOK' /\ MainOK'
  BY <1>1 DEF IInv, StageOK, TasksOK, MainOK
<1>. QED BY <1>3, <1>4, <1>5, TypePartsNext DEF IInv

\* What the states wait for is not changed by the network.
LEMMA WaitsKept ==
  ASSUME UNCHANGED restVars, NEW s \in Server
  PROVE  (WaitsConnect(s)' <=> WaitsConnect(s)) /\ (WaitsLogin(s)' <=> WaitsLogin(s))
BY DEF restVars, stateVars, loopVars, serviceVars, WaitsConnect, WaitsLogin, Alive

\* What a request that is carried out can be, and what it leaves.
LEMMA RequestCases ==
  ASSUME NEW s \in Server, RequestsOK(s), requests[s] # <<>>
  PROVE  \/ /\ Head(requests[s]) = "disconnect" /\ requests[s] \in Disconnects
            /\ Tail(requests[s]) \in Disconnects
         \/ /\ Head(requests[s]) = "disconnect" /\ WaitsConnect(s)
            /\ \E d \in Disconnects : Tail(requests[s]) = Append(d, "connect")
         \/ /\ Head(requests[s]) = "connect" /\ requests[s] \notin Disconnects
            /\ Tail(requests[s]) = <<>> /\ WaitsConnect(s)
         \/ /\ Head(requests[s]) = "send" /\ requests[s] \notin Disconnects
            /\ Tail(requests[s]) = <<>> /\ WaitsLogin(s) /\ link[s] \in {"up", "none"}
<1>1. CASE requests[s] \in Disconnects
  BY <1>1, DisconnectsFirst
<1>2. CASE requests[s] = <<"send">> /\ WaitsLogin(s) /\ link[s] \in {"up", "none"}
  BY <1>2, SendIsNoDisconnect
<1>3. CASE (\E d \in Disconnects : requests[s] = Append(d, "connect")) /\ WaitsConnect(s) /\ link[s] \notin Open
  <2>1. PICK d \in Disconnects : requests[s] = Append(d, "connect")
    BY <1>3
  <2>2. CASE d = <<>>
    <3>1. Head(requests[s]) = "connect" /\ Tail(requests[s]) = <<>>
      BY <2>1, <2>2, ConnectIsLast
    <3>2. requests[s] \notin Disconnects
      BY <3>1, DisconnectsFirst
    <3>. QED BY <1>3, <3>1, <3>2
  <2>3. CASE d # <<>>
    BY <1>3, <2>1, <2>3, ConnectIsLast, DisconnectsFirst
  <2>. QED BY <2>2, <2>3
<1>. QED BY <1>1, <1>2, <1>3 DEF RequestsOK

LEMMA CarriesOut == ASSUME IInv, NEW s \in Server, CarryOut(s) PROVE IInv'
<1>1. /\ requests[s] # <<>> /\ requests' = [requests EXCEPT ![s] = Tail(@)]
      /\ UNCHANGED restVars /\ UNCHANGED <<queue, lost>>
  BY DEF CarryOut, restVars
<1>2. PICK to \in {"connecting", "none", "asked", link[s]} :
        /\ link' = [link EXCEPT ![s] = to]
        /\ Head(requests[s]) = "connect" => to = "connecting"
        /\ Head(requests[s]) = "disconnect" => to = "none"
        /\ Head(requests[s]) = "send" => to = IF link[s] = "up" THEN "asked" ELSE link[s]
  BY DEF CarryOut
<1>3. NetTypes /\ RequestsOK(s) /\ LinkOK(s) /\ requests[s] \in Seq(Request)
  BY TypeParts DEF IInv, NetOK, NetTypes
<1>4. Tail(requests[s]) \in Seq(Request)
  BY <1>1, <1>3, HeadTailProperties
<1>5. /\ requests'[s] = Tail(requests[s]) /\ link'[s] = to
      /\ \A t \in Server \ {s} : requests'[t] = requests[t] /\ link'[t] = link[t]
  BY <1>1, <1>2, <1>3 DEF NetTypes
<1>6. NetTypes'
  BY <1>1, <1>2, <1>3, <1>4 DEF NetTypes
<1>7. RequestsOK(s)' /\ LinkOK(s)' /\ (Calm => Quiet(s)')
  <2>1. (WaitsConnect(s)' <=> WaitsConnect(s)) /\ (WaitsLogin(s)' <=> WaitsLogin(s))
    BY <1>1, WaitsKept
  <2>2. CASE Head(requests[s]) = "disconnect" /\ Tail(requests[s]) \in Disconnects
    BY <1>2, <1>5, <2>2 DEF RequestsOK, LinkOK, Quiet, Open
  <2>3. CASE /\ Head(requests[s]) = "disconnect" /\ WaitsConnect(s)
             /\ requests[s] \notin Disconnects
             /\ \E d \in Disconnects : Tail(requests[s]) = Append(d, "connect")
    BY <1>2, <1>5, <2>1, <2>3 DEF RequestsOK, LinkOK, Quiet, Calm, Open
  <2>4. CASE /\ Head(requests[s]) = "connect" /\ requests[s] \notin Disconnects
             /\ Tail(requests[s]) = <<>> /\ WaitsConnect(s)
    BY <1>2, <1>5, <2>1, <2>4, SendIsNoDisconnect DEF RequestsOK, LinkOK, Quiet, Calm
  <2>5. CASE /\ Head(requests[s]) = "send" /\ requests[s] \notin Disconnects
             /\ Tail(requests[s]) = <<>> /\ WaitsLogin(s) /\ link[s] \in {"up", "none"}
    BY <1>2, <1>5, <2>1, <2>5, SendIsNoDisconnect DEF RequestsOK, LinkOK, Quiet, Calm
  <2>6. requests[s] \in Disconnects => Tail(requests[s]) \in Disconnects
    BY <1>1, DisconnectsFirst
  <2>. QED BY <1>1, <1>3, <2>2, <2>3, <2>4, <2>5, <2>6, RequestCases
<1>8. ASSUME NEW t \in Server \ {s} PROVE RequestsOK(t)' /\ LinkOK(t)' /\ (Calm => Quiet(t)')
  <2>1. (WaitsConnect(t)' <=> WaitsConnect(t)) /\ (WaitsLogin(t)' <=> WaitsLogin(t)) /\ RequestsOK(t) /\ LinkOK(t)
    BY <1>1, WaitsKept DEF IInv, NetOK
  <2>. QED BY <1>1, <1>5, <2>1 DEF RequestsOK, LinkOK, Quiet, Calm
<1>9. ASSUME NEW i \in DOMAIN queue' PROVE AnswerOK(i)'
  <2> SUFFICES ASSUME queue'[i].name # "PinCode" PROVE AnswerOK(i)'
    BY DEF AnswerOK
  <2>1. i \in DOMAIN queue /\ queue'[i] = queue[i] /\ queue[i].name # "PinCode"
    BY <1>1
  <2>2. AnswerOK(i) /\ queue[i].server \in Server /\ requests[queue[i].server] = <<>>
    BY <2>1, AnswerFacts DEF AnswerOK
  <2>3. queue[i].server \in Server \ {s}
    BY <1>1, <2>2
  <2>. QED
    BY <1>1, <1>5, <2>1, <2>2, <2>3
    DEF AnswerOK, WaitsConnect, WaitsLogin, Alive, restVars, stateVars, loopVars, serviceVars
<1>10. NetOK' /\ (Calm => Calm')
  BY <1>1, <1>7, <1>8, <1>9 DEF NetOK, Calm, NoAnswer
<1>. QED BY <1>1, <1>6, <1>10, NetStep

\* An answer is posted: it is the only one.
LEMMA Posts ==
  ASSUME IInv, NEW s \in Server, NEW from, NEW name, NEW to, Answers(s, from, name, to),
         from \in {"connecting", "asked"}, name \in {"Connected", "ConnectFailed", "Accepted", "Rejected"},
         to \in {"up", "none", "accepted", "rejected"},
         IF name \in {"Connected", "ConnectFailed"} THEN from = "connecting" ELSE from = "asked",
         (to = "up") <=> (name = "Connected")
  PROVE  IInv'
<1>1. /\ link[s] = from /\ link' = [link EXCEPT ![s] = to] /\ queue' = Append(queue, Message(s, name))
      /\ UNCHANGED restVars /\ UNCHANGED <<requests, lost>>
  BY DEF Answers, restVars
<1>2. NetTypes /\ queue \in Seq(Answer) /\ LinkOK(s)
  BY TypeParts DEF IInv, NetTypes, NetOK
<1>3. Message(s, name) \in Answer /\ Message(s, name).server = s /\ Message(s, name).name = name
  BY DEF Message, Answer
<1>4. requests[s] = <<>> /\ (from = "connecting" => WaitsConnect(s)) /\ (from = "asked" => WaitsLogin(s)) /\ Alive(s)
  BY <1>1, <1>2 DEF LinkOK, WaitsConnect, WaitsLogin
<1>5. NoAnswer
  <2> SUFFICES ASSUME NEW i \in DOMAIN queue, queue[i].name # "PinCode" PROVE FALSE
    BY DEF NoAnswer
  <2>1. queue[i].server = s
    BY <1>4, AnswerFacts, OneWaits
  <2>. QED BY <1>1, <2>1, AnswerFacts DEF AnswerOK, Open
<1>6. /\ queue' \in Seq(Answer) /\ queue' # <<>>
      /\ Len(queue) \in Nat /\ DOMAIN queue = 1 .. Len(queue) /\ DOMAIN queue' = 1 .. Len(queue) + 1
      /\ queue'[Len(queue) + 1] = Message(s, name) /\ \A i \in DOMAIN queue : queue'[i] = queue[i]
      /\ queue # <<>> => Head(queue') = Head(queue)
  BY <1>1, <1>2, <1>3, Posted
<1>7. link'[s] = to /\ \A t \in Server \ {s} : link'[t] = link[t]
  BY <1>1, <1>2 DEF NetTypes
<1>8. NetTypes'
  BY <1>1, <1>2, <1>6 DEF NetTypes
<1>9. RequestsOK(s)' /\ LinkOK(s)'
  <2>1. requests'[s] = <<>> /\ requests'[s] \in Disconnects
    BY <1>1, <1>4, SendIsNoDisconnect
  <2>2. to = "up" => \E i \in DOMAIN queue' : queue'[i] = Message(s, "Connected")
    <3>1. Len(queue) + 1 \in DOMAIN queue'
      BY <1>6
    <3>. QED BY <1>6, <3>1
  <2>. QED BY <1>7, <2>1, <2>2 DEF RequestsOK, LinkOK
<1>10. ASSUME NEW t \in Server \ {s} PROVE RequestsOK(t)' /\ LinkOK(t)'
  <2>1. ~WaitsConnect(t) /\ ~WaitsLogin(t)
    BY <1>4, OneWaits DEF WaitsConnect, WaitsLogin
  <2>2. Quiet(t)
    BY <2>1, QuietWhen
  <2>. QED BY <1>1, <1>7, <2>2 DEF Quiet, RequestsOK, LinkOK, Open
<1>11. ASSUME NEW i \in DOMAIN queue' PROVE AnswerOK(i)'
  <2>1. CASE i = Len(queue) + 1
    <3>1. \A j \in DOMAIN queue' : queue'[j].name # "PinCode" => j = i
      BY <1>5, <1>6, <2>1 DEF NoAnswer
    <3>2. (WaitsConnect(s)' <=> WaitsConnect(s)) /\ (WaitsLogin(s)' <=> WaitsLogin(s))
      BY <1>1, WaitsKept
    <3>3. queue'[i] = Message(s, name) /\ queue'[i].server = s /\ queue'[i].name = name
      BY <1>3, <1>6, <2>1
    <3>4. IF name \in {"Connected", "ConnectFailed"} THEN WaitsConnect(s)' ELSE WaitsLogin(s)'
      BY <1>4, <3>2
    <3>5. IF name = "Connected" THEN link'[s] \in {"up", "none"} ELSE link'[s] \notin Open
      BY <1>7 DEF Open
    <3>6. requests'[s] = <<>>
      BY <1>1, <1>4
    <3>. QED BY <3>1, <3>3, <3>4, <3>5, <3>6 DEF AnswerOK
  <2>2. CASE i \in DOMAIN queue
    BY <1>5, <1>6, <2>2 DEF NoAnswer, AnswerOK
  <2>. QED BY <1>6, <2>1, <2>2
<1>12. NetOK'
  BY <1>9, <1>10, <1>11 DEF NetOK
<1>13. ~Calm
  BY <1>1 DEF Calm, Quiet, Open
<1>. QED BY <1>1, <1>6, <1>8, <1>12, <1>13, NetStep

LEMMA ServersAnswer == ASSUME IInv, NEW s \in Server, ServerAnswers(s) PROVE IInv'
<1>1. CASE Answers(s, "connecting", "Connected", "up")
  BY <1>1, Posts
<1>2. CASE Answers(s, "connecting", "ConnectFailed", "none")
  BY <1>2, Posts
<1>3. CASE Answers(s, "asked", "Accepted", "accepted")
  BY <1>3, Posts
<1>4. CASE Answers(s, "asked", "Rejected", "rejected")
  BY <1>4, Posts
<1>. QED BY <1>1, <1>2, <1>3, <1>4 DEF ServerAnswers

LEMMA PinCodes == ASSUME IInv, SendPinCode PROVE IInv'
<1>1. /\ link["CHARACTER"] = "accepted" /\ link' = [link EXCEPT !["CHARACTER"] = "rejected"]
      /\ queue' = Append(queue, Message("CHARACTER", "PinCode"))
      /\ UNCHANGED restVars /\ UNCHANGED <<requests, lost>>
  BY DEF SendPinCode, Answers, restVars
<1>2. NetTypes /\ queue \in Seq(Answer) /\ "CHARACTER" \in Server
  BY TypeParts, ServerNames DEF IInv, NetTypes
<1>3. Message("CHARACTER", "PinCode") \in Answer /\ Message("CHARACTER", "PinCode").name = "PinCode"
  BY <1>2 DEF Message, Answer
<1>6. /\ queue' \in Seq(Answer) /\ queue' # <<>>
      /\ Len(queue) \in Nat /\ DOMAIN queue = 1 .. Len(queue) /\ DOMAIN queue' = 1 .. Len(queue) + 1
      /\ queue'[Len(queue) + 1] = Message("CHARACTER", "PinCode") /\ \A i \in DOMAIN queue : queue'[i] = queue[i]
      /\ queue # <<>> => Head(queue') = Head(queue)
  BY <1>1, <1>2, <1>3, Posted
<1>7. link'["CHARACTER"] = "rejected" /\ \A t \in Server \ {"CHARACTER"} : link'[t] = link[t]
  BY <1>1, <1>2 DEF NetTypes
<1>8. NetTypes'
  BY <1>1, <1>2, <1>6 DEF NetTypes
<1>9. ASSUME NEW t \in Server PROVE RequestsOK(t)' /\ LinkOK(t)' /\ (Quiet(t) => Quiet(t)')
  <2>1. (WaitsConnect(t)' <=> WaitsConnect(t)) /\ (WaitsLogin(t)' <=> WaitsLogin(t)) /\ RequestsOK(t) /\ LinkOK(t)
    BY <1>1, WaitsKept DEF IInv, NetOK
  <2>2. (link'[t] = link[t]) \/ (link[t] = "accepted" /\ link'[t] = "rejected")
    BY <1>1, <1>7
  <2>3. RequestsOK(t)' /\ (Quiet(t) => Quiet(t)')
    BY <1>1, <2>1, <2>2 DEF RequestsOK, Quiet, Open
  <2>4. LinkOK(t)'
    BY <1>1, <1>6, <2>1, <2>2 DEF LinkOK
  <2>. QED BY <2>3, <2>4
<1>11. ASSUME NEW i \in DOMAIN queue' PROVE AnswerOK(i)'
  <2>1. CASE i = Len(queue) + 1
    BY <1>3, <1>6, <2>1 DEF AnswerOK
  <2>2. CASE i \in DOMAIN queue /\ queue[i].name # "PinCode"
    <3>1. AnswerOK(i) /\ queue[i].server \in Server
      BY <2>2, AnswerFacts
    <3>2. \A t \in Server : (WaitsConnect(t)' <=> WaitsConnect(t)) /\ (WaitsLogin(t)' <=> WaitsLogin(t))
      BY <1>1, WaitsKept
    <3>3. queue'[i] = queue[i] /\ \A j \in DOMAIN queue' : queue'[j].name # "PinCode" => j = i
      BY <1>3, <1>6, <2>2, <3>1 DEF AnswerOK
    <3>4. IF queue[i].name = "Connected" THEN link'[queue[i].server] \in {"up", "none"} ELSE link'[queue[i].server] \notin Open
      BY <1>1, <1>7, <2>2, <3>1 DEF AnswerOK, Open
    <3>5. IF queue[i].name \in {"Connected", "ConnectFailed"}
          THEN WaitsConnect(queue[i].server)' ELSE WaitsLogin(queue[i].server)'
      BY <2>2, <3>1, <3>2, <1>1 DEF AnswerOK, WaitsConnect, WaitsLogin, Alive, restVars, stateVars, loopVars, serviceVars
    <3>6. requests'[queue[i].server] = <<>>
      BY <1>1, <2>2, <3>1 DEF AnswerOK
    <3>. QED BY <1>1, <3>3, <3>4, <3>5, <3>6 DEF AnswerOK, WaitsConnect, WaitsLogin, Alive
  <2>3. CASE i \in DOMAIN queue /\ queue[i].name = "PinCode"
    BY <1>6, <2>3 DEF AnswerOK
  <2>. QED BY <1>6, <2>1, <2>2, <2>3
<1>12. NetOK' /\ (Calm => Calm')
  <2>1. NoAnswer => NoAnswer'
    BY <1>3, <1>6 DEF NoAnswer
  <2>. QED BY <1>9, <1>11, <2>1 DEF NetOK, Calm
<1>. QED BY <1>1, <1>6, <1>8, <1>12, NetStep

LEMMA Loses == ASSUME IInv, NEW s \in Server, LoseConnection(s) PROVE IInv'
<1>1. /\ link[s] \in Open /\ link' = [link EXCEPT ![s] = "none"] /\ lost' = TRUE
      /\ UNCHANGED restVars /\ UNCHANGED <<requests, queue>>
  BY DEF LoseConnection, restVars, Open
<1>2. NetTypes
  BY TypeParts DEF IInv
<1>3. link'[s] = "none" /\ \A t \in Server \ {s} : link'[t] = link[t]
  BY <1>1, <1>2 DEF NetTypes
<1>4. NetTypes'
  BY <1>1, <1>2 DEF NetTypes
<1>5. \A t \in Server : (WaitsConnect(t)' <=> WaitsConnect(t)) /\ (WaitsLogin(t)' <=> WaitsLogin(t))
  BY <1>1, WaitsKept
<1>6. ASSUME NEW t \in Server PROVE RequestsOK(t)' /\ LinkOK(t)'
  <2>1. RequestsOK(t) /\ LinkOK(t) /\ (link'[t] = link[t] \/ link'[t] = "none")
    BY <1>3 DEF IInv, NetOK
  <2>2. RequestsOK(t)'
    BY <1>1, <1>5, <2>1 DEF RequestsOK, Open
  <2>3. LinkOK(t)'
    BY <1>1, <1>5, <2>1 DEF LinkOK
  <2>. QED BY <2>2, <2>3
<1>7. ASSUME NEW i \in DOMAIN queue' PROVE AnswerOK(i)'
  <2> SUFFICES ASSUME queue[i].name # "PinCode" PROVE AnswerOK(i)'
    BY <1>1 DEF AnswerOK
  <2>1. i \in DOMAIN queue /\ AnswerOK(i) /\ queue[i].server \in Server
    BY <1>1, AnswerFacts
  <2>2. link'[queue[i].server] \in {link[queue[i].server], "none"}
    BY <1>3, <2>1
  <2>3. IF queue[i].name = "Connected" THEN link'[queue[i].server] \in {"up", "none"} ELSE link'[queue[i].server] \notin Open
    BY <2>1, <2>2 DEF AnswerOK, Open
  <2>. QED
    BY <1>1, <2>1, <2>3
    DEF AnswerOK, WaitsConnect, WaitsLogin, Alive, restVars, stateVars, loopVars, serviceVars
<1>8. NetOK' /\ ~Calm
  BY <1>1, <1>6, <1>7 DEF NetOK, Calm, Quiet
<1>. QED BY <1>1, <1>4, <1>8, NetStep

-----------------------------------------------------------------------------
(* The handlers.                                                           *)

\* The only answer is taken from the queue.
LEMMA TakesAnswer ==
  ASSUME IInv, NEW s \in Server, NEW name, name # "PinCode", Handles(s, name)
  PROVE  /\ main = "dispatch" /\ queue' \in Seq(Answer) /\ NoAnswer'
         /\ Head(queue).server = s /\ Head(queue).name = name
         /\ requests[s] = <<>> /\ Alive(s) /\ \A p \in Task : at[p] = "none"
         /\ IF name \in {"Connected", "ConnectFailed"} THEN WaitsConnect(s) ELSE WaitsLogin(s)
         /\ IF name = "Connected" THEN link[s] \in {"up", "none"} ELSE link[s] \notin Open
         /\ \A t \in Server \ {s} : Quiet(t)
<1>1. main = "dispatch" /\ queue # <<>> /\ Head(queue) = Message(s, name) /\ queue' = Tail(queue)
  BY DEF Handles
<1>2. queue \in Seq(Answer)
  BY TypeParts DEF IInv, NetTypes
<1>3. /\ queue' \in Seq(Answer) /\ 1 \in DOMAIN queue /\ Head(queue) = queue[1]
      /\ \A i \in DOMAIN queue' : i \in Nat \ {0} /\ i + 1 \in DOMAIN queue /\ queue'[i] = queue[i + 1]
  BY <1>1, <1>2, Popped
<1>4. queue[1].server = s /\ queue[1].name = name /\ Head(queue).server = s /\ Head(queue).name = name
  BY <1>1, <1>3 DEF Message
<1>5. AnswerOK(1) /\ Alive(s)
  BY <1>3, <1>4, AnswerFacts
<1>6. NoAnswer'
  <2> SUFFICES ASSUME NEW i \in DOMAIN queue' PROVE queue'[i].name = "PinCode"
    BY DEF NoAnswer
  <2>1. i + 1 \in DOMAIN queue /\ i + 1 # 1 /\ queue'[i] = queue[i + 1]
    BY <1>3
  <2>. QED BY <1>4, <1>5, <2>1 DEF AnswerOK
<1>7. ~Calm
  BY <1>3, <1>4 DEF Calm, NoAnswer
<1>8. ASSUME NEW t \in Server \ {s} PROVE Quiet(t)
  <2>1. ~WaitsConnect(t) /\ ~WaitsLogin(t)
    BY <1>5, OneWaits DEF WaitsConnect, WaitsLogin
  <2>. QED BY <2>1, QuietWhen
<1>. QED BY <1>1, <1>3, <1>4, <1>5, <1>6, <1>7, <1>8, NoPrompt DEF AnswerOK

\* A handler that has taken an answer.
LEMMA HandlerStep ==
  ASSUME IInv, NEW s \in Server, main = "dispatch", UNCHANGED <<mGameState, object, mShouldInitialize, mTasks, main, promptVars>>,
         mNewGameState' \in GameState, mStage' \in Stages[mGameState], mUsername' \in BOOLEAN,
         \A p \in Task : at[p] = "none", ServiceTypes', NetTypes',
         StageOK', NoAnswer', RequestsOK(s)', LinkOK(s)', \A t \in Server \ {s} : Quiet(t)'
  PROVE  IInv'
<1>1. StateTypes /\ PromptTypes
  BY TypeParts DEF IInv
<1>2. StateTypes' /\ PromptTypes'
  BY <1>1 DEF StateTypes, PromptTypes, promptVars
<1>3. PromptsOK'
  BY NoPromptIsOK DEF promptVars
<1>4. TasksOK' /\ MainOK'
  BY DEF IInv, TasksOK, MainOK
<1>. QED BY <1>2, <1>3, <1>4, OneBusy, TypePartsNext DEF IInv

LEMMA StatusTypes ==
  ASSUME ServiceTypes, NEW s \in Server, NEW new \in {"DISCONNECTED", "CONNECTED"}, ChangeStatus(s, new)
  PROVE  mConnectionStatus' \in [Server -> {"DISCONNECTED", "CONNECTING", "CONNECTED"}]
BY DEF ServiceTypes, ChangeStatus

LEMMA SendsLogin ==
  ASSUME NetTypes, NEW s \in Server, requests[s] = <<>>, Ask(s, <<"send">>)
  PROVE  requests' \in [Server -> Seq(Request)] /\ requests'[s] = <<"send">>
         /\ \A t \in Server \ {s} : requests'[t] = requests[t]
<1>1. <<>> \o <<"send">> = <<"send">>
  OBVIOUS
<1>. QED BY <1>1, AskTypes, RequestTypes

LEMMA ServerConnects == ASSUME IInv, ServerConnectResponse PROVE IInv'
<1>1. Handles("LOGIN", "Connected") /\ ChangeStatus("LOGIN", "CONNECTED")
      /\ UNCHANGED <<object, mShouldInitialize, loopVars, promptVars, mConnectCallback, link, lost>>
  BY DEF ServerConnectResponse
<1>2. "LOGIN" \in Server /\ StateTypes /\ ServiceTypes /\ NetTypes
  BY TypeParts, ServerNames DEF IInv
<1>3. /\ main = "dispatch" /\ queue' \in Seq(Answer) /\ NoAnswer'
      /\ requests["LOGIN"] = <<>> /\ WaitsConnect("LOGIN") /\ link["LOGIN"] \in {"up", "none"}
      /\ \A p \in Task : at[p] = "none"
      /\ \A t \in Server \ {"LOGIN"} : Quiet(t)
  BY <1>1, <1>2, TakesAnswer
<1>4. mStage = "LOGIN_SERVER_CONNECTING" /\ mUsername /\ mConnectCallback = object /\ Alive("LOGIN")
  BY <1>3, ServerNames DEF WaitsConnect
<1>5. /\ mStage' = "LOGIN_REQUEST_SENT" /\ mUsername' = FALSE /\ Ask("LOGIN", <<"send">>)
      /\ mLoginCallback' = [mLoginCallback EXCEPT !["LOGIN"] = mConnectCallback]
  BY <1>4 DEF ServerConnectResponse
<1>6. requests' \in [Server -> Seq(Request)] /\ requests'["LOGIN"] = <<"send">>
      /\ \A t \in Server \ {"LOGIN"} : requests'[t] = requests[t]
  BY <1>2, <1>3, <1>5, SendsLogin
<1>7. ServiceTypes' /\ NetTypes'
  BY <1>1, <1>2, <1>3, <1>5, <1>6, StatusTypes DEF ServiceTypes, NetTypes
<1>8. UNCHANGED <<mNewGameState, mGameState, mTasks, main>>
  BY <1>1 DEF loopVars
<1>9. WaitsLogin("LOGIN")'
  BY <1>1, <1>2, <1>4, <1>5, <1>8, ServerNames DEF WaitsLogin, Alive, ServiceTypes
<1>10. RequestsOK("LOGIN")' /\ LinkOK("LOGIN")'
  BY <1>1, <1>3, <1>6, <1>9 DEF RequestsOK, LinkOK
<1>11. \A t \in Server \ {"LOGIN"} : Quiet(t)'
  BY <1>1, <1>3, <1>6 DEF Quiet
<1>12. mStage' \in Stages[mGameState] /\ StageOK'
  BY <1>2, <1>4, <1>5, StageSets, ServerNames DEF Alive, StageOK
<1>13. mNewGameState' \in GameState
  BY <1>2, <1>8 DEF StateTypes
<1>. QED BY <1>1, <1>2, <1>3, <1>5, <1>7, <1>8, <1>10, <1>11, <1>12, <1>13, HandlerStep

LEMMA CharacterConnects == ASSUME IInv, ConnectResponse PROVE IInv'
<1>1. Handles("CHARACTER", "Connected") /\ ChangeStatus("CHARACTER", "CONNECTED") /\ Ask("CHARACTER", <<"send">>)
      /\ UNCHANGED <<stateVars, loopVars, promptVars, mConnectCallback, mLoginCallback, link, lost>>
  BY DEF ConnectResponse
<1>2. "CHARACTER" \in Server /\ StateTypes /\ ServiceTypes /\ NetTypes
  BY TypeParts, ServerNames DEF IInv
<1>3. /\ main = "dispatch" /\ queue' \in Seq(Answer) /\ NoAnswer'
      /\ requests["CHARACTER"] = <<>> /\ WaitsConnect("CHARACTER") /\ link["CHARACTER"] \in {"up", "none"}
      /\ \A p \in Task : at[p] = "none"
      /\ \A t \in Server \ {"CHARACTER"} : Quiet(t)
  BY <1>1, <1>2, TakesAnswer
<1>4. requests' \in [Server -> Seq(Request)] /\ requests'["CHARACTER"] = <<"send">>
      /\ \A t \in Server \ {"CHARACTER"} : requests'[t] = requests[t]
  BY <1>1, <1>2, <1>3, SendsLogin
<1>5. ServiceTypes' /\ NetTypes'
  BY <1>1, <1>2, <1>3, <1>4, StatusTypes DEF ServiceTypes, NetTypes
<1>6. UNCHANGED <<mNewGameState, mGameState, mTasks, main, object, mShouldInitialize, mStage, mUsername>>
  BY <1>1 DEF loopVars, stateVars
<1>7. WaitsLogin("CHARACTER")'
  <2>1. WaitsLogin("CHARACTER")
    BY <1>3, CharacterWaits
  <2>. QED BY <1>1, <1>6, <2>1 DEF WaitsLogin, Alive
<1>8. RequestsOK("CHARACTER")' /\ LinkOK("CHARACTER")'
  BY <1>1, <1>3, <1>4, <1>7 DEF RequestsOK, LinkOK
<1>9. \A t \in Server \ {"CHARACTER"} : Quiet(t)'
  BY <1>1, <1>3, <1>4 DEF Quiet
<1>10. StageOK' /\ mStage' \in Stages[mGameState] /\ mNewGameState' \in GameState /\ mUsername' \in BOOLEAN
  BY <1>2, <1>6 DEF StateTypes, StageOK, IInv
<1>. QED BY <1>1, <1>2, <1>3, <1>5, <1>6, <1>8, <1>9, <1>10, HandlerStep

\* A handler after which nothing is under way.
LEMMA CalmStep ==
  ASSUME IInv, NEW s \in Server, main = "dispatch", UNCHANGED <<mGameState, object, mShouldInitialize, mTasks, main, promptVars, link>>,
         mNewGameState' \in GameState, mStage' \in Stages[mGameState], mUsername' \in BOOLEAN,
         \A p \in Task : at[p] = "none", ServiceTypes', NetTypes',
         StageOK', NoAnswer', requests'[s] \in Disconnects, link[s] \notin Open,
         \A t \in Server \ {s} : Quiet(t) /\ requests'[t] = requests[t]
  PROVE  IInv'
<1>1. RequestsOK(s)' /\ LinkOK(s)'
  BY DEF RequestsOK, LinkOK, Open
<1>2. \A t \in Server \ {s} : Quiet(t)'
  BY DEF Quiet
<1>. QED BY <1>1, <1>2, HandlerStep

LEMMA FailsToConnect == ASSUME IInv, ConnectFailed PROVE IInv'
<1>1. PICK s \in Server : Handles(s, "ConnectFailed") /\ ChangeStatus(s, "DISCONNECTED")
  BY DEF ConnectFailed
<1>2. /\ UNCHANGED <<object, mShouldInitialize, mUsername, loopVars, promptVars, mConnectCallback, mLoginCallback,
                     requests, link, lost>>
      /\ mStage' \in {mStage, "NONE"}
  BY DEF ConnectFailed
<1>3. StateTypes /\ ServiceTypes /\ NetTypes
  BY TypeParts DEF IInv
<1>4. /\ main = "dispatch" /\ queue' \in Seq(Answer) /\ NoAnswer'
      /\ requests[s] = <<>> /\ Alive(s) /\ link[s] \notin Open
      /\ \A p \in Task : at[p] = "none"
      /\ \A t \in Server \ {s} : Quiet(t)
  BY <1>1, TakesAnswer
<1>5. ServiceTypes' /\ NetTypes'
  BY <1>1, <1>2, <1>3, <1>4, StatusTypes DEF ServiceTypes, NetTypes
<1>6. UNCHANGED <<mNewGameState, mGameState, mTasks, main>>
  BY <1>2 DEF loopVars
<1>7. mStage' \in Stages[mGameState] /\ mNewGameState' \in GameState /\ mUsername' \in BOOLEAN
  BY <1>2, <1>3, <1>4, <1>6, StageSets DEF StateTypes, Alive
<1>8. StageOK'
  BY <1>4, <1>6 DEF StageOK, Alive
<1>9. requests'[s] \in Disconnects /\ \A t \in Server \ {s} : requests'[t] = requests[t]
  BY <1>2, <1>4, SendIsNoDisconnect
<1>. QED BY <1>2, <1>4, <1>5, <1>6, <1>7, <1>8, <1>9, CalmStep

LEMMA LogsIn == ASSUME IInv, LoginResponse PROVE IInv'
<1>1. PICK name \in {"Accepted", "Rejected"} : Handles("LOGIN", name)
  BY DEF LoginResponse
<1>2. /\ UNCHANGED <<object, mShouldInitialize, mUsername, mGameState, mTasks, main, promptVars,
                     mConnectionStatus, mConnectCallback, link, lost>>
      /\ mLoginCallback' = [mLoginCallback EXCEPT !["LOGIN"] = 0]
      /\ mStage' \in {mStage, "LOGIN_SUCCEEDED"} /\ mNewGameState' \in {mNewGameState, "CHARACTER_SERVER_SELECT"}
      /\ Ask("LOGIN", DisconnectOf("LOGIN")) \/ UNCHANGED requests
  BY DEF LoginResponse
<1>3. StateTypes /\ ServiceTypes /\ NetTypes /\ "LOGIN" \in Server
  BY TypeParts, ServerNames DEF IInv
<1>4. /\ main = "dispatch" /\ queue' \in Seq(Answer) /\ NoAnswer'
      /\ requests["LOGIN"] = <<>> /\ Alive("LOGIN") /\ link["LOGIN"] \notin Open /\ WaitsLogin("LOGIN")
      /\ \A p \in Task : at[p] = "none"
      /\ \A t \in Server \ {"LOGIN"} : Quiet(t)
  BY <1>1, <1>3, TakesAnswer
<1>5. requests["LOGIN"] \in Disconnects /\ requests["LOGIN"] \o DisconnectOf("LOGIN") \in Disconnects
  BY <1>3, <1>4, SendIsNoDisconnect, MoreRequests
<1>6. /\ requests' \in [Server -> Seq(Request)] /\ requests'["LOGIN"] \in Disconnects
      /\ \A t \in Server \ {"LOGIN"} : requests'[t] = requests[t]
  <2>1. CASE Ask("LOGIN", DisconnectOf("LOGIN"))
    BY <1>3, <1>5, <2>1, AskTypes, RequestTypes
  <2>2. CASE UNCHANGED requests
    BY <1>3, <1>5, <2>2 DEF NetTypes
  <2>. QED BY <1>2, <2>1, <2>2
<1>7. ServiceTypes' /\ NetTypes'
  <2>1. 0 \in 0..MaxStates
    BY FlowAssumption
  <2>. QED BY <1>2, <1>3, <1>4, <1>6, <2>1 DEF ServiceTypes, NetTypes
<1>8. mStage' # "NONE" /\ mStage' \in Stages[mGameState] /\ mNewGameState' \in GameState /\ mUsername' \in BOOLEAN
  BY <1>2, <1>3, <1>4, StageSets, ServerNames DEF WaitsLogin, Alive, StateTypes, GameState
<1>9. StageOK'
  BY <1>8 DEF StageOK
<1>. QED BY <1>2, <1>3, <1>4, <1>6, <1>7, <1>8, <1>9, CalmStep

\* A packet about pin codes is taken, and nothing comes of it.
LEMMA IgnoresPinCode ==
  ASSUME IInv, Handles("CHARACTER", "PinCode"), UNCHANGED restVars, UNCHANGED <<requests, link, lost>>
  PROVE  IInv'
<1>1. main = "dispatch" /\ queue # <<>> /\ Head(queue).name = "PinCode" /\ queue' = Tail(queue)
  BY DEF Handles, Message
<1>2. NetTypes /\ queue \in Seq(Answer)
  BY TypeParts DEF IInv, NetTypes
<1>3. /\ queue' \in Seq(Answer) /\ 1 \in DOMAIN queue /\ Head(queue) = queue[1]
      /\ \A i \in DOMAIN queue' : i \in Nat \ {0} /\ i + 1 \in DOMAIN queue /\ queue'[i] = queue[i + 1]
      /\ \A i \in DOMAIN queue \ {1} : i - 1 \in DOMAIN queue' /\ queue'[i - 1] = queue[i]
  BY <1>1, <1>2, Popped
<1>4. NetTypes'
  BY <1>2, <1>3 DEF NetTypes
<1>5. ASSUME NEW t \in Server PROVE RequestsOK(t)' /\ LinkOK(t)' /\ (Quiet(t) => Quiet(t)')
  <2>1. (WaitsConnect(t)' <=> WaitsConnect(t)) /\ (WaitsLogin(t)' <=> WaitsLogin(t)) /\ RequestsOK(t) /\ LinkOK(t)
    BY WaitsKept DEF IInv, NetOK
  <2>2. RequestsOK(t)' /\ (Quiet(t) => Quiet(t)')
    BY <2>1 DEF RequestsOK, Quiet
  <2>3. ASSUME NEW i \in DOMAIN queue, queue[i] = Message(t, "Connected")
        PROVE  \E j \in DOMAIN queue' : queue'[j] = Message(t, "Connected")
    <3>1. i # 1
      BY <1>1, <1>3, <2>3 DEF Message
    <3>. QED BY <1>3, <2>3, <3>1
  <2>4. LinkOK(t)'
    BY <2>1, <2>3 DEF LinkOK
  <2>. QED BY <2>2, <2>4
<1>6. ASSUME NEW i \in DOMAIN queue' PROVE AnswerOK(i)'
  <2> SUFFICES ASSUME queue'[i].name # "PinCode" PROVE AnswerOK(i)'
    BY DEF AnswerOK
  <2>1. i \in Nat \ {0} /\ i + 1 \in DOMAIN queue /\ queue'[i] = queue[i + 1] /\ queue[i + 1].name # "PinCode"
    BY <1>3
  <2>2. AnswerOK(i + 1) /\ queue[i + 1].server \in Server
    BY <2>1, AnswerFacts
  <2>3. ASSUME NEW j \in DOMAIN queue', queue'[j].name # "PinCode" PROVE j = i
    <3>1. j \in Nat \ {0} /\ j + 1 \in DOMAIN queue /\ queue[j + 1].name # "PinCode"
      BY <1>3, <2>3
    <3>2. j + 1 = i + 1
      BY <2>1, <2>2, <3>1 DEF AnswerOK
    <3>. QED BY <2>1, <3>1, <3>2
  <2>. QED
    BY <2>1, <2>2, <2>3
    DEF AnswerOK, WaitsConnect, WaitsLogin, Alive, restVars, stateVars, loopVars, serviceVars
<1>7. NoAnswer => NoAnswer'
  BY <1>3 DEF NoAnswer
<1>8. NetOK' /\ (Calm => Calm')
  BY <1>5, <1>6, <1>7 DEF NetOK, Calm
<1>. QED BY <1>1, <1>4, <1>8, NetStep

LEMMA LoginResults == ASSUME IInv, LoginResult PROVE IInv'
<1>1. UNCHANGED <<object, mShouldInitialize, mUsername, mGameState, mTasks, main, promptVars,
                  serviceVars, requests, link, lost>>
  BY DEF LoginResult
<1>2. CASE Handles("CHARACTER", "PinCode") /\ UNCHANGED <<mStage, mNewGameState>>
  <2>1. UNCHANGED restVars
    BY <1>1, <1>2 DEF restVars, stateVars, loopVars
  <2>. QED BY <1>1, <1>2, <2>1, IgnoresPinCode
<1>3. ASSUME NEW name \in {"Accepted", "Rejected"}, Handles("CHARACTER", name),
             mNewGameState' \in {mNewGameState, "CHARACTER_SELECT"}, mStage' \in {mStage, "LOGIN_FAILED"}
      PROVE  IInv'
  <2>1. StateTypes /\ ServiceTypes /\ NetTypes /\ "CHARACTER" \in Server
    BY TypeParts, ServerNames DEF IInv
  <2>2. /\ main = "dispatch" /\ queue' \in Seq(Answer) /\ NoAnswer'
        /\ requests["CHARACTER"] = <<>> /\ link["CHARACTER"] \notin Open /\ WaitsLogin("CHARACTER")
        /\ \A p \in Task : at[p] = "none"
        /\ \A t \in Server \ {"CHARACTER"} : Quiet(t)
    BY <1>3, <2>1, TakesAnswer
  <2>3. ServiceTypes' /\ NetTypes'
    BY <1>1, <2>1, <2>2 DEF ServiceTypes, NetTypes, serviceVars
  <2>4. mStage' # "NONE" /\ mStage' \in Stages[mGameState] /\ mNewGameState' \in GameState /\ mUsername' \in BOOLEAN
    BY <1>1, <1>3, <2>1, <2>2, StageSets, ServerNames DEF WaitsLogin, Alive, StateTypes, GameState
  <2>5. StageOK'
    BY <2>4 DEF StageOK
  <2>6. requests'["CHARACTER"] \in Disconnects /\ \A t \in Server \ {"CHARACTER"} : requests'[t] = requests[t]
    BY <1>1, <2>2, SendIsNoDisconnect
  <2>. QED BY <1>1, <2>1, <2>2, <2>3, <2>4, <2>5, <2>6, CalmStep
<1>4. \/ Handles("CHARACTER", "PinCode") /\ UNCHANGED <<mStage, mNewGameState>>
      \/ /\ \E name \in {"Accepted", "Rejected"} : Handles("CHARACTER", name)
         /\ mNewGameState' \in {mNewGameState, "CHARACTER_SELECT"} /\ mStage' \in {mStage, "LOGIN_FAILED"}
  BY DEF LoginResult
<1>. QED BY <1>2, <1>3, <1>4

\* Every answer but a pin code is called back on the state alive.
LEMMA OnlyPinCodesMiss ==
  ASSUME IInv, queue # <<>>, Callee(Head(queue)) \notin {0, object}
  PROVE  Head(queue).name = "PinCode"
<1> SUFFICES ASSUME Head(queue).name # "PinCode" PROVE FALSE
  OBVIOUS
<1>1. queue \in Seq(Answer)
  BY TypeParts DEF IInv, NetTypes
<1>2. Head(queue) = queue[1] /\ 1 \in DOMAIN queue
  <2>1. Len(queue) \in Nat /\ Len(queue) # 0 /\ DOMAIN queue = 1 .. Len(queue)
    BY <1>1, EmptySeq, LenProperties
  <2>. QED BY <1>1, <2>1, HeadTailProperties
<1>3. AnswerOK(1) /\ queue[1] \in Answer /\ queue[1].server \in Server
  BY <1>2, AnswerFacts
<1>4. CASE queue[1].name \in {"Connected", "ConnectFailed"}
  <2>1. WaitsConnect(queue[1].server)
    BY <1>2, <1>3, <1>4 DEF AnswerOK
  <2>. QED BY <1>2, <1>3, <1>4, <2>1, ServerNames DEF Callee, WaitsConnect
<1>5. CASE queue[1].name \notin {"Connected", "ConnectFailed"}
  <2>1. WaitsLogin(queue[1].server)
    BY <1>2, <1>3, <1>5 DEF AnswerOK
  <2>. QED BY <1>2, <1>3, <1>5, <2>1 DEF Callee, WaitsLogin
<1>. QED BY <1>4, <1>5

LEMMA CallsDestroyed == ASSUME IInv, CallDestroyed PROVE IInv'
<1>1. /\ queue # <<>> /\ Callee(Head(queue)) \notin {0, object} /\ main' = "dangling"
      /\ UNCHANGED <<mNewGameState, mGameState, mTasks, stateVars, promptVars, serviceVars, netVars>>
  BY DEF CallDestroyed
<1>2. UNCHANGED coreVars
  BY <1>1 DEF coreVars, stateVars
<1>3. StateTypes /\ PromptTypes /\ ServiceTypes /\ NetTypes
  BY TypeParts DEF IInv
<1>4. StateTypes' /\ PromptTypes' /\ ServiceTypes' /\ NetTypes'
  BY <1>1, <1>3 DEF StateTypes, PromptTypes, ServiceTypes, NetTypes, stateVars, promptVars, serviceVars, netVars
<1>5. TasksOK' /\ MainOK'
  BY <1>1, OnlyPinCodesMiss DEF IInv, TasksOK, MainOK, stateVars, netVars
<1>. QED BY <1>2, <1>4, <1>5, CoreKept, TypePartsNext DEF IInv

-----------------------------------------------------------------------------
(* The invariant, and what follows from it.                                *)

LEMMA InvStep == IInv /\ [Next]_vars => IInv'
<1> SUFFICES ASSUME IInv, [Next]_vars PROVE IInv'
  OBVIOUS
<1>1. CASE UNCHANGED vars
  <2>1. UNCHANGED coreVars /\ UNCHANGED <<stateVars, loopVars, promptVars, serviceVars, netVars>>
    BY <1>1 DEF vars, coreVars, stateVars, loopVars
  <2>2. StateTypes /\ PromptTypes /\ ServiceTypes /\ NetTypes
    BY TypeParts DEF IInv
  <2>3. StateTypes' /\ PromptTypes' /\ ServiceTypes' /\ NetTypes'
    BY <2>1, <2>2 DEF StateTypes, PromptTypes, ServiceTypes, NetTypes, stateVars, loopVars, promptVars, serviceVars, netVars
  <2>4. TasksOK' /\ MainOK'
    BY <2>1 DEF IInv, TasksOK, MainOK, stateVars, loopVars, netVars
  <2>. QED BY <2>1, <2>3, <2>4, CoreKept, TypePartsNext DEF IInv
<1>2. CASE MainRuns
  BY <1>2, Changes, EndsDispatch, Updates, Shows, CallsDestroyed, ServerConnects, CharacterConnects, FailsToConnect,
     LogsIn, LoginResults
  DEF MainRuns
<1>3. CASE \E p \in Task : PromptRuns(p) \/ PlayerAnswers(p)
  BY <1>3, Starts, Cancels, Exchanges, Connects, PlayerAnswered DEF PromptRuns
<1>4. CASE \E s \in Server : CarryOut(s) \/ ServerAnswers(s) \/ LoseConnection(s)
  BY <1>4, CarriesOut, ServersAnswer, Loses
<1>5. CASE SendPinCode
  BY <1>5, PinCodes
<1>. QED BY <1>1, <1>2, <1>3, <1>4, <1>5 DEF Next

LEMMA AlwaysInv == Spec => []IInv
BY InvInit, InvStep, PTL DEF Spec

(***************************************************************************)
(* The variables of the loop, the states, the prompts and the network hold *)
(* what the code puts into them; the stage is one of the state alive.      *)
(***************************************************************************)
THEOREM FlowTypeCorrect == Spec => []TypeOK
<1>1. IInv => TypeOK
  BY DEF IInv
<1>. QED BY <1>1, AlwaysInv, PTL

(***************************************************************************)
(* Of all the states' prompts one at most is under way, with any number of *)
(* worker threads, and it is the prompt of the state alive.                *)
(***************************************************************************)
THEOREM OnePromptAtATime == Spec => []OnePrompt
<1>1. IInv => OnePrompt
  BY DEF IInv, PromptsOK, PromptOK, OnePrompt
<1>. QED BY <1>1, AlwaysInv, PTL

(***************************************************************************)
(* Every answer but the packet about pin codes arrives while the state it  *)
(* is for waits for it, in the stage in which it waits.                    *)
(***************************************************************************)
THEOREM AnswersFindTheirState == Spec => []AnswersAreDue
<1>1. IInv => AnswersAreDue
  <2> SUFFICES ASSUME IInv, NEW i \in 1 .. Len(queue), queue[i].name # "PinCode"
               PROVE  mGameState = StateOf[queue[i].server] /\ Due(queue[i])
    BY DEF AnswersAreDue
  <2>1. i \in DOMAIN queue
    <3>1. queue \in Seq(Answer)
      BY TypeParts DEF IInv, NetTypes
    <3>. QED BY <3>1, LenProperties
  <2>2. AnswerOK(i) /\ Alive(queue[i].server) /\ queue[i].server \in Server
    BY <2>1, AnswerFacts
  <2>3. IF queue[i].name \in {"Connected", "ConnectFailed"}
        THEN WaitsConnect(queue[i].server) ELSE WaitsLogin(queue[i].server)
    BY <2>1, <2>2 DEF AnswerOK
  <2>. QED BY <2>2, <2>3, ServerNames DEF Due, WaitsConnect, WaitsLogin, Alive
<1>. QED BY <1>1, AlwaysInv, PTL

(***************************************************************************)
(* The main thread calls into a destroyed state for a pin code packet      *)
(* only.                                                                   *)
(***************************************************************************)
THEOREM OnlyPinCodesDangle == Spec => []OnlyPinCodeDangles
<1>1. IInv => OnlyPinCodeDangles
  BY DEF IInv, MainOK, OnlyPinCodeDangles
<1>. QED BY <1>1, AlwaysInv, PTL
=============================================================================
