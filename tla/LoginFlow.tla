------------------------------ MODULE LoginFlow ------------------------------
(***************************************************************************)
(* From the login prompt to character selection: the game loop, which      *)
(* replaces one game state by another, RoLoginState,                       *)
(* RoCharacterServerSelectState, their prompts on worker threads, and the  *)
(* callbacks they leave in the two server interfaces, which outlive them.  *)
(*                                                                         *)
(* Game states are numbered in the order they are made; object is the one  *)
(* alive, those before it have been destroyed.  CHARACTER_SELECT is only a *)
(* state that goes back to LOGIN some time (CharacterSelect looks inside). *)
(* connect() is one step here, and the network carries out the requests    *)
(* made of one server in order (ServerInterface looks inside).             *)
(*                                                                         *)
(* main is where the main thread stands in its loop: turn, dispatch (of    *)
(* the Default queue), update, show (inside update: the stage NONE was     *)
(* read and is about to be exchanged); ended; or dangling: it has called   *)
(* into a game state that was destroyed, and what it does then is          *)
(* undefined.                                                              *)
(***************************************************************************)
EXTENDS Integers, Sequences

CONSTANTS
  Task,        (* prompt tasks that can be under way at once               *)
  MaxStates    (* bound: game states made                                  *)

ASSUME FlowAssumption == MaxStates \in Nat

VARIABLES
  mNewGameState, mGameState,
  object,              (* the game state object alive                      *)
  mShouldInitialize,   (* of that object                                   *)
  mStage,              (* of that object, atomic                           *)
  mUsername,           (* of that object: the credentials are there        *)
  mTasks,              (* the task registry: the object behind each prompt *)
  main,
  at, for,             (* each prompt: where it stands, whose it is        *)
  mConnectionStatus,   (* of each interface                                *)
  mConnectCallback,    (* of the login interface: bound to that object     *)
  mLoginCallback,      (* of each interface: bound to that object, or 0    *)
  requests,            (* made of the network, for each server             *)
  link,                (* the connection, as the server sees it            *)
  queue,               (* the Default queue                                *)
  lost                 (* history: connections lost before their answer    *)

stateVars == <<object, mShouldInitialize, mStage, mUsername>>
loopVars == <<mNewGameState, mGameState, mTasks, main>>
promptVars == <<at, for>>
serviceVars == <<mConnectionStatus, mConnectCallback, mLoginCallback>>
netVars == <<requests, link, queue, lost>>
vars == <<stateVars, loopVars, promptVars, serviceVars, netVars>>

Server == {"LOGIN", "CHARACTER"}

\* The state that talks to each server, and its prompt.
StateOf == [LOGIN |-> "LOGIN", CHARACTER |-> "CHARACTER_SERVER_SELECT"]
PromptOf == [LOGIN |-> "LOGIN_PROMPT", CHARACTER |-> "SERVER_SELECT_PROMPT"]
ConnectingOf == [LOGIN |-> "LOGIN_SERVER_CONNECTING", CHARACTER |-> "CHARACTER_SERVER_CONNECTING"]

Init ==
  /\ mNewGameState = "LOGIN" /\ mGameState = "NONE"
  /\ object = 0
  /\ mShouldInitialize = FALSE /\ mStage = "NONE" /\ mUsername = FALSE
  /\ mTasks = [s \in Server |-> 0]
  /\ main = "turn"
  /\ at = [p \in Task |-> "none"] /\ for = [p \in Task |-> 0]
  /\ mConnectionStatus = [s \in Server |-> "DISCONNECTED"]
  /\ mConnectCallback = 0
  /\ mLoginCallback = [s \in Server |-> 0]
  /\ requests = [s \in Server |-> <<>>]
  /\ link = [s \in Server |-> "none"]
  /\ queue = <<>>
  /\ lost = FALSE

IsConnected(s) == mConnectionStatus[s] = "CONNECTED"

Ask(s, what) == requests' = [requests EXCEPT ![s] = @ \o what]

\* disconnect() of the interface, and what connect() asks for.
DisconnectOf(s) == IF IsConnected(s) THEN <<"disconnect">> ELSE <<>>

-----------------------------------------------------------------------------
(* The loop.                                                               *)

\* Mutant: the new state takes over the stage of the old one.
ChangeGameState_StageKept ==
  /\ main = "turn" /\ main' = "dispatch"
  /\ \/ mNewGameState = mGameState /\ UNCHANGED <<object, mShouldInitialize>>
     \/ mNewGameState # mGameState /\ object' = object + 1 /\ mShouldInitialize' = TRUE
  /\ object' <= MaxStates
  /\ mGameState' = mNewGameState
  /\ UNCHANGED <<mNewGameState, mStage, mUsername, mTasks, promptVars, serviceVars, netVars>>

\* The new state is made, then the old one goes with its task handlers.
ChangeGameState ==
  /\ main = "turn"
  /\ main' = "dispatch"
  /\ \/ /\ mNewGameState = mGameState
        /\ UNCHANGED <<mGameState, stateVars, mTasks>>
     \/ /\ mNewGameState # mGameState
        /\ object < MaxStates
        /\ mGameState' = mNewGameState
        /\ object' = object + 1
        /\ mShouldInitialize' = TRUE /\ mStage' = "NONE" /\ mUsername' = FALSE
        /\ mTasks' = [s \in Server |-> IF StateOf[s] = mGameState THEN 0 ELSE mTasks[s]]
  /\ UNCHANGED <<mNewGameState, promptVars, serviceVars, netVars>>

\* dispatch() returns when it finds the queue empty.
EndDispatch ==
  /\ main = "dispatch" /\ queue = <<>>
  /\ main' = "update"
  /\ UNCHANGED <<mNewGameState, mGameState, mTasks, stateVars, promptVars, serviceVars, netVars>>

\* initialize() registers the prompt of the state; a name that is taken is
\* not taken over.
Registered ==
  IF ~mShouldInitialize THEN mTasks
  ELSE [s \in Server |-> IF mGameState = StateOf[s] /\ mTasks[s] = 0 THEN object ELSE mTasks[s]]

SchedulePrompt(s) ==
  \E p \in Task :
    /\ at[p] = "none"
    /\ at' = [at EXCEPT ![p] = "scheduled"]
    /\ for' = [for EXCEPT ![p] = mTasks[s]]

\* updateState of either state finds the stage NONE ...
FindNoStage ==
  /\ \E s \in Server : mGameState = StateOf[s]
  /\ mStage = "NONE"
  /\ main' = "show"
  /\ UNCHANGED <<mNewGameState, mStage, promptVars, requests>>

\* Mutant: the stage is left as it was.
ShowPrompt_StageKept(s) ==
  /\ main = "show" /\ mGameState = StateOf[s]
  /\ SchedulePrompt(s)
  /\ main' = "turn"
  /\ IF s = "LOGIN" THEN Ask(s, DisconnectOf(s)) ELSE UNCHANGED requests
  /\ UNCHANGED <<stateVars, mNewGameState, mGameState, mTasks, serviceVars, link, queue, lost>>

\* ... and exchanges it later.  The login state disconnects first, and
\* schedules its prompt even if another stage has come in between.
ShowPrompt(s) ==
  /\ main = "show" /\ mGameState = StateOf[s]
  /\ mStage' = IF mStage = "NONE" THEN PromptOf[s] ELSE mStage
  /\ IF s = "LOGIN" \/ mStage = "NONE" THEN SchedulePrompt(s) ELSE UNCHANGED promptVars
  /\ main' = "turn"
  /\ IF s = "LOGIN" THEN Ask(s, DisconnectOf(s)) ELSE UNCHANGED requests
  /\ UNCHANGED <<object, mShouldInitialize, mUsername, mNewGameState, mGameState, mTasks,
                 serviceVars, link, queue, lost>>

\* updateState of the states that leave for LOGIN.
GoBack ==
  /\ \/ mGameState = "CHARACTER_SERVER_SELECT" /\ mStage \in {"LOGIN_FAILED", "LOGIN_CANCELLED"}
     \/ mGameState = "CHARACTER_SELECT"
  /\ Ask("CHARACTER", DisconnectOf("CHARACTER"))
  /\ mNewGameState' = "LOGIN"
  /\ main' = "turn"
  /\ UNCHANGED <<mStage, promptVars>>

ExitGame ==
  /\ mGameState = "LOGIN" /\ mStage = "LOGIN_CANCELLED"
  /\ main' = "ended"
  /\ UNCHANGED <<mNewGameState, mStage, promptVars, requests>>

\* The stages updateState does nothing in.
NothingToDo ==
  /\ mGameState = "CHARACTER_SELECT" \/ mStage \notin {"NONE", "LOGIN_CANCELLED"}
  /\ mGameState = "CHARACTER_SERVER_SELECT" => mStage # "LOGIN_FAILED"
  /\ main' = "turn"
  /\ UNCHANGED <<mNewGameState, mStage, promptVars, requests>>

Update ==
  /\ main = "update"
  /\ FindNoStage \/ GoBack \/ ExitGame \/ NothingToDo
  /\ mTasks' = Registered
  /\ mShouldInitialize' = FALSE
  /\ UNCHANGED <<mGameState, object, mUsername, serviceVars, link, queue, lost>>

-----------------------------------------------------------------------------
(* The prompts.  A prompt belongs to the state that was registered; when   *)
(* that one is gone it no longer works on the state alive.                 *)

Prompts(p, s) == for[p] = object /\ mGameState = StateOf[s]

\* changeStage on the state alive.
ChangeStage(expected, new) == mStage' = IF mStage = expected THEN new ELSE mStage

StartPrompt(p) ==
  /\ at[p] = "scheduled"
  /\ \E s \in Server :
       /\ Prompts(p, s)
       /\ at' = [at EXCEPT ![p] = IF mStage = PromptOf[s] THEN "asking" ELSE "none"]
       /\ mStage' = IF s = "LOGIN" /\ mStage # PromptOf[s] THEN "NONE" ELSE mStage
  /\ UNCHANGED <<object, mShouldInitialize, mUsername, loopVars, for, serviceVars, netVars>>

\* The player answers, or does not want to.
PlayerAnswers(p) ==
  /\ at[p] = "asking"
  /\ \E s \in Server :
       /\ Prompts(p, s)
       /\ \/ /\ at' = [at EXCEPT ![p] = "cancel"]
             /\ UNCHANGED mUsername
          \/ /\ at' = [at EXCEPT ![p] = "exchange"]
             /\ mUsername' = (s = "LOGIN")
  /\ UNCHANGED <<object, mShouldInitialize, mStage, loopVars, for, serviceVars, netVars>>

CancelPrompt(p) ==
  /\ at[p] = "cancel"
  /\ at' = [at EXCEPT ![p] = "none"]
  /\ \/ Prompts(p, "LOGIN") /\ mStage' = "LOGIN_CANCELLED"
     \/ Prompts(p, "CHARACTER") /\ ChangeStage(PromptOf["CHARACTER"], "LOGIN_CANCELLED")
  /\ UNCHANGED <<object, mShouldInitialize, mUsername, loopVars, for, serviceVars, netVars>>

\* An exchange that fails ends the login prompt; the other prompt then
\* cancels from the stage it found.
ExchangeStage(p) ==
  /\ at[p] = "exchange"
  /\ \E s \in Server :
       /\ Prompts(p, s)
       /\ IF mStage = PromptOf[s]
          THEN mStage' = ConnectingOf[s] /\ at' = [at EXCEPT ![p] = "connect"]
          ELSE /\ mStage' = IF s = "CHARACTER" THEN "LOGIN_CANCELLED" ELSE mStage
               /\ at' = [at EXCEPT ![p] = "none"]
  /\ UNCHANGED <<object, mShouldInitialize, mUsername, loopVars, for, serviceVars, netVars>>

\* Mutant: the login callback is stored by the first connect only.
ConnectServer_FirstCallback(p) ==
  /\ at[p] = "connect"
  /\ at' = [at EXCEPT ![p] = "none"]
  /\ \E s \in Server :
       /\ Prompts(p, s)
       /\ mConnectCallback' = IF mConnectCallback = 0 THEN for[p] ELSE mConnectCallback
       /\ mLoginCallback' = [mLoginCallback EXCEPT !["CHARACTER"] = for[p]]
       /\ Ask(s, DisconnectOf(s) \o <<"connect">>)
       /\ mConnectionStatus' = [mConnectionStatus EXCEPT ![s] = "CONNECTING"]
  /\ UNCHANGED <<stateVars, loopVars, for, link, queue, lost>>

\* connect() to the login server, or loginToServerAtIndex.
ConnectServer(p) ==
  /\ at[p] = "connect"
  /\ at' = [at EXCEPT ![p] = "none"]
  /\ \E s \in Server :
       /\ Prompts(p, s)
       /\ \/ /\ s = "LOGIN"
             /\ mConnectCallback' = for[p]
             /\ UNCHANGED mLoginCallback
          \/ /\ s = "CHARACTER"
             /\ mLoginCallback' = [mLoginCallback EXCEPT ![s] = for[p]]
             /\ UNCHANGED mConnectCallback
       /\ Ask(s, DisconnectOf(s) \o <<"connect">>)
       /\ mConnectionStatus' = [mConnectionStatus EXCEPT ![s] = "CONNECTING"]
  /\ UNCHANGED <<stateVars, loopVars, for, link, queue, lost>>

PromptRuns(p) ==
  StartPrompt(p) \/ CancelPrompt(p) \/ ExchangeStage(p) \/ ConnectServer(p)
-----------------------------------------------------------------------------
(* The network: it carries out requests, and connections and servers       *)
(* answer, or are lost.  onDisconnect has no effect on what is here.       *)
(*                                                                         *)
(* Of the servers it is assumed that each connection answers a login at    *)
(* most once, with its success or its failure, and that only a character   *)
(* server says more, after that answer and about pin codes.  The code does *)
(* not enforce it: a second answer would find other states and stages.     *)

Message(s, name) == [server |-> s, name |-> name]

CarryOut(s) ==
  /\ requests[s] # <<>>
  /\ requests' = [requests EXCEPT ![s] = Tail(@)]
  /\ \/ Head(requests[s]) = "connect" /\ link' = [link EXCEPT ![s] = "connecting"]
     \/ Head(requests[s]) = "disconnect" /\ link' = [link EXCEPT ![s] = "none"]
     \/ /\ Head(requests[s]) = "send"
        /\ link' = [link EXCEPT ![s] = IF @ = "up" THEN "asked" ELSE @]
  /\ UNCHANGED <<stateVars, loopVars, promptVars, serviceVars, queue, lost>>

Answers(s, from, name, to) ==
  /\ link[s] = from
  /\ link' = [link EXCEPT ![s] = to]
  /\ queue' = Append(queue, Message(s, name))
  /\ UNCHANGED <<stateVars, loopVars, promptVars, serviceVars, requests, lost>>

ServerAnswers(s) ==
  \/ Answers(s, "connecting", "Connected", "up")
  \/ Answers(s, "connecting", "ConnectFailed", "none")
  \/ Answers(s, "asked", "Accepted", "accepted")
  \/ Answers(s, "asked", "Rejected", "rejected")

\* A character server may follow its listing up with a packet about pin codes.
SendPinCode == Answers("CHARACTER", "accepted", "PinCode", "rejected")

LoseConnection(s) ==
  /\ link[s] \in {"connecting", "up", "asked"}
  /\ link' = [link EXCEPT ![s] = "none"]
  /\ lost' = TRUE
  /\ UNCHANGED <<stateVars, loopVars, promptVars, serviceVars, requests, queue>>

-----------------------------------------------------------------------------
(* The handlers of the interfaces, with the callbacks they call.           *)

\* The object a message is passed on to, through its callback; 0 for none.
Callee(m) ==
  IF m.server = "LOGIN" /\ m.name \in {"Connected", "ConnectFailed"} THEN mConnectCallback
  ELSE IF m.name = "Connected" THEN 0 ELSE mLoginCallback[m.server]

Handles(s, name) ==
  /\ main = "dispatch" /\ queue # <<>>
  /\ Head(queue) = Message(s, name)
  /\ queue' = Tail(queue)
  /\ Callee(Head(queue)) \in {0, object}

ChangeStatus(s, new) ==
  mConnectionStatus' =
    [mConnectionStatus EXCEPT ![s] = IF @ = "CONNECTING" THEN new ELSE @]

\* A callback that is bound to a state that has been destroyed.
CallDestroyed ==
  /\ main = "dispatch" /\ queue # <<>>
  /\ Callee(Head(queue)) \notin {0, object}
  /\ main' = "dangling"
  /\ UNCHANGED <<mNewGameState, mGameState, mTasks, stateVars, promptVars, serviceVars, netVars>>

\* Mutant: the login is sent without a change of the stage.
ServerConnectResponse_StageKept ==
  /\ Handles("LOGIN", "Connected")
  /\ ChangeStatus("LOGIN", "CONNECTED")
  /\ mLoginCallback' = [mLoginCallback EXCEPT !["LOGIN"] = mConnectCallback]
  /\ Ask("LOGIN", <<"send">>)
  /\ mUsername' = FALSE
  /\ UNCHANGED <<object, mShouldInitialize, mStage, loopVars, promptVars, mConnectCallback, link, lost>>

\* serverConnectResponse without error: login(), if the stage is right and
\* the credentials are there.
ServerConnectResponse ==
  /\ Handles("LOGIN", "Connected")
  /\ ChangeStatus("LOGIN", "CONNECTED")
  /\ IF mStage # "LOGIN_SERVER_CONNECTING"
     THEN UNCHANGED <<mStage, mUsername, mLoginCallback, requests>>
     ELSE IF ~mUsername
     THEN Ask("LOGIN", <<"disconnect">>) /\ UNCHANGED <<mStage, mUsername, mLoginCallback>>
     ELSE /\ mStage' = "LOGIN_REQUEST_SENT"
          /\ mLoginCallback' = [mLoginCallback EXCEPT !["LOGIN"] = mConnectCallback]
          /\ Ask("LOGIN", <<"send">>)
          /\ mUsername' = FALSE
  /\ UNCHANGED <<object, mShouldInitialize, loopVars, promptVars, mConnectCallback, link, lost>>

\* connectResponse of the character server's interface.
ConnectResponse ==
  /\ Handles("CHARACTER", "Connected")
  /\ ChangeStatus("CHARACTER", "CONNECTED")
  /\ Ask("CHARACTER", <<"send">>)
  /\ UNCHANGED <<stateVars, loopVars, promptVars, mConnectCallback, mLoginCallback, link, lost>>

\* Either state goes back to NONE, from whatever stage it is in.
ConnectFailed ==
  /\ \E s \in Server : Handles(s, "ConnectFailed") /\ ChangeStatus(s, "DISCONNECTED")
  /\ mStage' = IF Callee(Head(queue)) = 0 THEN mStage ELSE "NONE"
  /\ UNCHANGED <<object, mShouldInitialize, mUsername, loopVars, promptVars,
                 mConnectCallback, mLoginCallback, requests, link, lost>>

\* Mutant: the answer is logged, and nobody is told.
LoginResponse_NotTold ==
  /\ \E name \in {"Accepted", "Rejected"} : Handles("LOGIN", name)
  /\ mLoginCallback' = [mLoginCallback EXCEPT !["LOGIN"] = 0]
  /\ UNCHANGED <<stateVars, loopVars, promptVars, mConnectionStatus, mConnectCallback, requests, link, lost>>

\* loginResponse; the callback is reset after it.
LoginResponse ==
  /\ mLoginCallback' = [mLoginCallback EXCEPT !["LOGIN"] = 0]
  /\ \/ Handles("LOGIN", "Accepted")
     \/ Handles("LOGIN", "Rejected")
  /\ IF mLoginCallback["LOGIN"] # 0 /\ mStage = "LOGIN_REQUEST_SENT"
     THEN /\ mStage' = "LOGIN_SUCCEEDED"
          /\ \/ /\ Head(queue).name = "Accepted"
                /\ mNewGameState' = "CHARACTER_SERVER_SELECT"
                /\ UNCHANGED requests
             \/ /\ Head(queue).name = "Rejected"
                /\ Ask("LOGIN", DisconnectOf("LOGIN"))
                /\ UNCHANGED mNewGameState
     ELSE UNCHANGED <<mStage, mNewGameState, requests>>
  /\ UNCHANGED <<object, mShouldInitialize, mUsername, mGameState, mTasks, main, promptVars,
                 mConnectionStatus, mConnectCallback, link, lost>>

\* loginResult; the callback stays.
LoginResult ==
  /\ \/ /\ Handles("CHARACTER", "Accepted")
        /\ mNewGameState' = IF mLoginCallback["CHARACTER"] = 0 THEN mNewGameState ELSE "CHARACTER_SELECT"
        /\ UNCHANGED mStage
     \/ /\ Handles("CHARACTER", "Rejected")
        /\ mStage' = IF mLoginCallback["CHARACTER"] = 0 THEN mStage ELSE "LOGIN_FAILED"
        /\ UNCHANGED mNewGameState
     \/ /\ Handles("CHARACTER", "PinCode")
        /\ UNCHANGED <<mStage, mNewGameState>>
  /\ UNCHANGED <<object, mShouldInitialize, mUsername, mGameState, mTasks, main, promptVars,
                 serviceVars, requests, link, lost>>

MainRuns ==
  \/ ChangeGameState \/ EndDispatch \/ Update \/ \E s \in Server : ShowPrompt(s)
  \/ CallDestroyed \/ ServerConnectResponse \/ ConnectResponse \/ ConnectFailed
  \/ LoginResponse \/ LoginResult

-----------------------------------------------------------------------------
Next ==
  \/ MainRuns
  \/ \E p \in Task : PromptRuns(p) \/ PlayerAnswers(p)
  \/ \E s \in Server : CarryOut(s) \/ ServerAnswers(s) \/ LoseConnection(s)
  \/ SendPinCode

\* Threads run, and connections and servers answer unless they are lost;
\* the player need not.
Fairness ==
  /\ WF_vars(MainRuns)
  /\ \A p \in Task : WF_vars(PromptRuns(p))
  /\ \A s \in Server : WF_vars(CarryOut(s)) /\ WF_vars(ServerAnswers(s))

Spec == Init /\ [][Next]_vars /\ Fairness

-----------------------------------------------------------------------------
\* The stages each state gets into; the others are declared and never set.
Stages == [NONE |-> {"NONE"},
           LOGIN |-> {"NONE", "LOGIN_PROMPT", "LOGIN_CANCELLED", "LOGIN_SERVER_CONNECTING",
                      "LOGIN_REQUEST_SENT", "LOGIN_SUCCEEDED"},
           CHARACTER_SERVER_SELECT |->
                     {"NONE", "SERVER_SELECT_PROMPT", "LOGIN_CANCELLED",
                      "CHARACTER_SERVER_CONNECTING", "LOGIN_FAILED"},
           CHARACTER_SELECT |-> {"NONE"}]

TypeOK ==
  /\ mNewGameState \in {"LOGIN", "CHARACTER_SERVER_SELECT", "CHARACTER_SELECT"}
  /\ mGameState \in {"NONE", "LOGIN", "CHARACTER_SERVER_SELECT", "CHARACTER_SELECT"}
  /\ object \in 0..MaxStates
  /\ mShouldInitialize \in BOOLEAN /\ mStage \in Stages[mGameState] /\ mUsername \in BOOLEAN
  /\ mTasks \in [Server -> 0..MaxStates]
  /\ main \in {"turn", "dispatch", "update", "show", "ended", "dangling"}
  /\ at \in [Task -> {"none", "scheduled", "asking", "cancel", "exchange", "connect"}]
  /\ for \in [Task -> 0..MaxStates]
  /\ mConnectionStatus \in [Server -> {"DISCONNECTED", "CONNECTING", "CONNECTED"}]
  /\ mConnectCallback \in 0..MaxStates
  /\ mLoginCallback \in [Server -> 0..MaxStates]
  /\ requests \in [Server -> Seq({"connect", "disconnect", "send"})]
  /\ link \in [Server -> {"none", "connecting", "up", "asked", "accepted", "rejected"}]
  /\ queue \in Seq([server : Server,
                     name : {"Connected", "ConnectFailed", "Accepted", "Rejected", "PinCode"}])
  /\ lost \in BOOLEAN

(***************************************************************************)
(* The prompts of all the states together: the player faces one at a time, *)
(* and it belongs to the state alive.  The loop destroys a state as soon   *)
(* as another one is asked for; a prompt of it that had not come to its    *)
(* last access would work on a destroyed object.                           *)
(***************************************************************************)
OnePrompt ==
  /\ \A p, q \in Task : at[p] # "none" /\ at[q] # "none" => p = q
  /\ \A p \in Task : at[p] # "none" => for[p] = object

(***************************************************************************)
(* An answer finds the state that waits for it, in the stage in which it   *)
(* waits, although the handlers of the character server's answers do not   *)
(* look at the stage, and the others only "punt" when it is another one:   *)
(* it holds because each server answers a login at most once.              *)
(***************************************************************************)
Due(m) ==
  IF m.server = "CHARACTER" THEN mStage = "CHARACTER_SERVER_CONNECTING"
  ELSE IF m.name \in {"Connected", "ConnectFailed"} THEN mStage = "LOGIN_SERVER_CONNECTING" /\ mUsername
  ELSE mStage = "LOGIN_REQUEST_SENT"

AnswersAreDue ==
  \A i \in 1..Len(queue) :
    queue[i].name # "PinCode" => mGameState = StateOf[queue[i].server] /\ Due(queue[i])

(***************************************************************************)
(* The interfaces outlive the states whose callbacks they hold, and the    *)
(* loop destroys a state as soon as the next one is asked for: yet of all  *)
(* that the servers are assumed to send (a login is answered once) only    *)
(* the packet about pin codes, which comes after the answer that ends the  *)
(* state, can call into a state that has been destroyed.                   *)
(***************************************************************************)
OnlyPinCodeDangles == main = "dangling" => Head(queue).name = "PinCode"

(***************************************************************************)
(* Whoever waits for an answer is asked again, or moves on to the next     *)
(* state, unless a connection is lost before its answer, which no callback *)
(* hears of, or a login is rejected, which leaves LOGIN_SUCCEEDED behind.  *)
(***************************************************************************)
Awaits == mStage \in {"LOGIN_SERVER_CONNECTING", "LOGIN_REQUEST_SENT", "CHARACTER_SERVER_CONNECTING"}

NeverStranded ==
  Awaits ~> \/ \E p \in Task : at[p] = "asking"
            \/ mNewGameState # mGameState
            \/ lost
            \/ mStage = "LOGIN_SUCCEEDED"
            \/ main = "dangling"

-----------------------------------------------------------------------------
(***************************************************************************)
(* A login reported as "[FAILED]" does not end in the stage of one that    *)
(* succeeded: the stage LOGIN_SUCCEEDED leads to the next state.           *)
(***************************************************************************)
SucceededMovesOn ==
  mGameState = "LOGIN" /\ mStage = "LOGIN_SUCCEEDED" ~> mNewGameState # "LOGIN" \/ mGameState # "LOGIN"
=============================================================================
