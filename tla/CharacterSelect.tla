--------------------------- MODULE CharacterSelect ---------------------------
(***************************************************************************)
(* RoCharacterSelectState, and the creation of characters by               *)
(* RoCharacterServerInterface.  Every prompt is a task on some worker; it  *)
(* ends by scheduling the next prompt or by leaving a stage the main       *)
(* thread acts upon.  The main thread shows the menu when it finds such a  *)
(* stage, and when the character server answers a creation: the callback   *)
(* runs inside the handler, and the handler goes on after it.              *)
(*                                                                         *)
(* at[x] is where thread x stands:                                         *)
(*   none       no such task          idle      the main thread, free      *)
(*   scheduled  not started yet       asking    waiting for the player     *)
(*   cancel, listed   the changeStage at the end of a prompt               *)
(*   load, exchange, schedule         in scheduleStage, goal[x] its prompt *)
(*   store, send                      in createCharacter                   *)
(*   reset      the handler of a reply, after its callback                 *)
(*   leave      the main thread, about to leave for the login state        *)
(* The prompt that deletes a character is left out: nothing schedules it.  *)
(***************************************************************************)
EXTENDS Integers, Sequences

CONSTANTS
  Task,          (* identities of prompt tasks, at least one to spare      *)
  Main,          (* the main thread                                        *)
  MaxCreations   (* bound: characters the player tries to create           *)

ASSUME SelectAssumption == Main \notin Task /\ MaxCreations \in Nat

VARIABLES
  mStage,                      (* atomic                                   *)
  at, goal, seen,              (* the threads, and the stage each loaded   *)
  kind,                        (* the prompt a task runs                   *)
  mCreateCharacterCallbacks,   (* the creation that stored them, or 0      *)
  current,                     (* the creation whose reply is handled      *)
  creations,                   (* creations so far                         *)
  asked,                       (* requests the server has not answered     *)
  replies,                     (* answers the main thread has not handled  *)
  heard, lost,                 (* history: callbacks called, or discarded  *)
  left                         (* the state has been replaced              *)

threadVars == <<at, goal, seen, kind>>
serviceVars == <<mCreateCharacterCallbacks, creations, asked>>
replyVars == <<current, replies, heard, lost>>
vars == <<mStage, threadVars, serviceVars, replyVars, left>>

Thread == Task \union {Main}
Prompt == {"menu", "select", "create"}

\* The stages the code sets, and those on which updateState shows the menu.
StageOf == [menu |-> "MAIN_MENU", select |-> "CHARACTER_LISTING", create |-> "CREATE_CHARACTER"]
Resting == {"NONE", "CHARACTER_LISTING_CANCELLED", "CREATE_CHARACTER_CANCELLED",
            "DELETE_CHARACTER_CANCELLED"}

Init ==
  /\ mStage = "NONE"
  /\ at = [x \in Thread |-> IF x = Main THEN "idle" ELSE "none"]
  /\ goal = [x \in Thread |-> "menu"]
  /\ seen = [x \in Thread |-> "NONE"]
  /\ kind = [x \in Task |-> "menu"]
  /\ mCreateCharacterCallbacks = 0
  /\ current = 0 /\ creations = 0
  /\ asked = <<>> /\ replies = <<>>
  /\ heard = {} /\ lost = {}
  /\ left = FALSE

Goto(x, from, to) == at[x] = from /\ at' = [at EXCEPT ![x] = to]

-----------------------------------------------------------------------------
(* changeStage and scheduleStage, on any thread.                           *)

\* A compare and exchange that fails is only reported to the player.
ChangeStage(expected, new) == mStage' = IF mStage = expected THEN new ELSE mStage

LoadStage(x) ==
  /\ Goto(x, "load", "exchange")
  /\ seen' = [seen EXCEPT ![x] = mStage]
  /\ UNCHANGED <<mStage, goal, kind, serviceVars, replyVars, left>>

\* Mutant: the stage is left as it was.
ExchangeStage_Skipped(x) ==
  /\ Goto(x, "exchange", "schedule")
  /\ UNCHANGED <<mStage, goal, seen, kind, serviceVars, replyVars, left>>

ExchangeStage(x) ==
  /\ Goto(x, "exchange", "schedule")
  /\ ChangeStage(seen[x], StageOf[goal[x]])
  /\ UNCHANGED <<goal, seen, kind, serviceVars, replyVars, left>>

\* The prompt is scheduled whether or not the stage could be changed.  A
\* task has ended then; a handler goes on.
SchedulePrompt(x) ==
  /\ at[x] = "schedule"
  /\ \E p \in Task :
       /\ at[p] = "none"
       /\ kind' = [kind EXCEPT ![p] = goal[x]]
       /\ at' = [at EXCEPT ![p] = "scheduled",
                           ![x] = IF x # Main THEN "none"
                                  ELSE IF current # 0 THEN "reset" ELSE "idle"]
  /\ UNCHANGED <<mStage, goal, seen, serviceVars, replyVars, left>>

ScheduleStage(x) == LoadStage(x) \/ ExchangeStage(x) \/ SchedulePrompt(x)

-----------------------------------------------------------------------------
(* The prompts.                                                            *)

\* Only selectCharacterPrompt uses the stage loaded here.
StartPrompt(p) ==
  /\ Goto(p, "scheduled", IF kind[p] = "select" THEN "listed" ELSE "asking")
  /\ seen' = [seen EXCEPT ![p] = mStage]
  /\ UNCHANGED <<mStage, goal, kind, serviceVars, replyVars, left>>

Asks(p, prompt) == at[p] = "asking" /\ kind[p] = prompt

\* mainMenuPrompt: the player cancels, picks a character, or an empty slot.
MainMenuPrompt(p) ==
  /\ Asks(p, "menu")
  /\ \/ Goto(p, "asking", "cancel") /\ UNCHANGED goal
     \/ \E next \in {"select", "create"} :
          /\ next = "create" => creations < MaxCreations
          /\ Goto(p, "asking", "load")
          /\ goal' = [goal EXCEPT ![p] = next]
  /\ UNCHANGED <<mStage, seen, kind, serviceVars, replyVars, left>>

CancelMenu(p) ==
  /\ Goto(p, "cancel", "none")
  /\ ChangeStage("MAIN_MENU", "MAIN_MENU_CANCELLED")
  /\ UNCHANGED <<goal, seen, kind, serviceVars, replyVars, left>>

\* selectCharacterPrompt: from the stage it loaded.
SelectCharacterPrompt(p) ==
  /\ Goto(p, "listed", "none")
  /\ ChangeStage(seen[p], "CHARACTER_LISTING_CANCELLED")
  /\ UNCHANGED <<goal, seen, kind, serviceVars, replyVars, left>>

\* createCharacterPrompt, once the name is read.
CreateCharacterPrompt(p) ==
  /\ Asks(p, "create")
  /\ Goto(p, "asking", "store")
  /\ UNCHANGED <<mStage, goal, seen, kind, serviceVars, replyVars, left>>

\* createCharacter of the service: store the callbacks, then send.
StoreCallbacks(p) ==
  /\ Goto(p, "store", "send")
  /\ creations' = creations + 1
  /\ mCreateCharacterCallbacks' = creations + 1
  /\ UNCHANGED <<mStage, goal, seen, kind, asked, replyVars, left>>

\* Mutant: the prompt leaves its stage as well, as the others do.
SendCreate_Cancels(p) ==
  /\ Goto(p, "send", "none")
  /\ asked' = Append(asked, creations)
  /\ ChangeStage("CREATE_CHARACTER", "CREATE_CHARACTER_CANCELLED")
  /\ UNCHANGED <<goal, seen, kind, mCreateCharacterCallbacks, creations, replyVars, left>>

SendCreate(p) ==
  /\ Goto(p, "send", "none")
  /\ asked' = Append(asked, creations)
  /\ UNCHANGED <<mStage, goal, seen, kind, mCreateCharacterCallbacks, creations, replyVars, left>>

PromptRuns(p) ==
  \/ StartPrompt(p) \/ ScheduleStage(p) \/ CancelMenu(p) \/ SelectCharacterPrompt(p)
  \/ StoreCallbacks(p) \/ SendCreate(p)

PlayerStep(p) == MainMenuPrompt(p) \/ CreateCharacterPrompt(p)

\* The character server answers each request, in order.
Answer ==
  /\ asked # <<>>
  /\ asked' = Tail(asked)
  /\ replies' = Append(replies, Head(asked))
  /\ UNCHANGED <<mStage, threadVars, mCreateCharacterCallbacks, creations, current, heard, lost, left>>

-----------------------------------------------------------------------------
(* The main thread.                                                        *)

\* updateState, between two messages.
UpdateState ==
  /\ ~left
  /\ \/ mStage \in Resting /\ Goto(Main, "idle", "load")
     \/ mStage = "MAIN_MENU_CANCELLED" /\ Goto(Main, "idle", "leave")
  /\ goal' = [goal EXCEPT ![Main] = "menu"]
  /\ UNCHANGED <<mStage, seen, kind, serviceVars, replyVars, left>>

\* setGameState(LOGIN): the loop destroys the state on its next turn.
LeaveForLogin ==
  /\ Goto(Main, "leave", "idle")
  /\ left' = TRUE
  /\ UNCHANGED <<mStage, goal, seen, kind, serviceVars, replyVars>>

\* Mutant: a failure is logged and the callback is not called.
TakeReply_FailureIgnored ==
  /\ replies # <<>>
  /\ replies' = Tail(replies)
  /\ Goto(Main, "idle", "idle")
  /\ UNCHANGED <<mStage, goal, seen, kind, serviceVars, current, heard, lost, left>>

\* onSuccessful- and onFailedCharacterCreation, up to the callback.  Both
\* callbacks of the state only show the menu.
TakeReply ==
  /\ replies # <<>>
  /\ replies' = Tail(replies)
  /\ \/ /\ mCreateCharacterCallbacks # 0
        /\ Goto(Main, "idle", "load")
        /\ current' = Head(replies)
        /\ heard' = heard \union {mCreateCharacterCallbacks}
        /\ goal' = [goal EXCEPT ![Main] = "menu"]
     \/ /\ mCreateCharacterCallbacks = 0
        /\ Goto(Main, "idle", "idle")
        /\ UNCHANGED <<current, heard, goal>>
  /\ UNCHANGED <<mStage, seen, kind, serviceVars, lost, left>>

\* The handler goes on after the callback.
ResetCallbacks ==
  /\ Goto(Main, "reset", "idle")
  /\ lost' = lost \union ({mCreateCharacterCallbacks} \ ({current} \union {0}))
  /\ mCreateCharacterCallbacks' = 0
  /\ current' = 0
  /\ UNCHANGED <<mStage, goal, seen, kind, creations, asked, replies, heard, left>>

MainRuns == UpdateState \/ LeaveForLogin \/ TakeReply \/ ScheduleStage(Main) \/ ResetCallbacks

-----------------------------------------------------------------------------
Next ==
  \/ \E p \in Task : PromptRuns(p) \/ PlayerStep(p)
  \/ Answer
  \/ MainRuns

\* Threads run and the server answers; the player need not.
Fairness ==
  /\ \A p \in Task : WF_vars(PromptRuns(p))
  /\ WF_vars(MainRuns)
  /\ WF_vars(Answer)

Spec == Init /\ [][Next]_vars /\ Fairness

-----------------------------------------------------------------------------
Stage == {"NONE", "MAIN_MENU", "MAIN_MENU_CANCELLED", "CHARACTER_LISTING",
          "CHARACTER_LISTING_CANCELLED", "CREATE_CHARACTER"}

Place == {"none", "idle", "scheduled", "asking", "cancel", "listed", "load",
          "exchange", "schedule", "store", "send", "reset", "leave"}

(***************************************************************************)
(* The stage takes only the values above: CREATE_CHARACTER_CANCELLED and   *)
(* the stages of a deletion are looked for, and never set.                 *)
(***************************************************************************)
TypeOK ==
  /\ mStage \in Stage
  /\ at \in [Thread -> Place]
  /\ goal \in [Thread -> Prompt]
  /\ seen \in [Thread -> Stage]
  /\ kind \in [Task -> Prompt]
  /\ mCreateCharacterCallbacks \in 0..MaxCreations
  /\ current \in 0..MaxCreations
  /\ creations \in 0..MaxCreations
  /\ asked \in Seq(1..MaxCreations) /\ replies \in Seq(1..MaxCreations)
  /\ heard \subseteq 1..MaxCreations /\ lost \subseteq 1..MaxCreations
  /\ left \in BOOLEAN

Waits(p) == at[p] \in {"scheduled", "asking"}

(***************************************************************************)
(* The player faces one prompt at a time, although prompts schedule one    *)
(* another, the update and the answers of the server schedule them too,    *)
(* and nobody looks at whether the stage could be changed.                 *)
(***************************************************************************)
OnePrompt == \A p, q \in Task : Waits(p) /\ Waits(q) => p = q

(***************************************************************************)
(* When the state has been replaced, and is destroyed, nobody can come     *)
(* back to it: no prompt runs on a worker, and the character server's      *)
(* interface, which outlives it, holds no callback into it.                *)
(***************************************************************************)
DestroyedIsUnreachable ==
  left => /\ \A p \in Task : at[p] = "none"
          /\ mCreateCharacterCallbacks = 0

(***************************************************************************)
(* The answer to a creation brings the player back to the menu, unless the *)
(* handler of the answer before has thrown its callbacks away.             *)
(***************************************************************************)
CreationIsAnswered ==
  \A k \in 1..MaxCreations : k = mCreateCharacterCallbacks ~> k \in heard \union lost

-----------------------------------------------------------------------------
(***************************************************************************)
(* After its callback the handler "gets rid of the current callback".  The *)
(* callback has scheduled the menu by then: a quick player's next creation *)
(* may already have stored its own.                                        *)
(***************************************************************************)
CurrentCallbackOnly == at[Main] = "reset" => mCreateCharacterCallbacks = current
=============================================================================
