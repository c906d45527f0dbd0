------------------------ MODULE CharacterSelect_proof ------------------------
(***************************************************************************)
(* Why the player faces one prompt at a time: whatever schedules a prompt, *)
(* there is one thread that may, or one creation the server has to answer. *)
(* The thread is a task, or the main thread before it has scheduled the    *)
(* menu; what the handler of a reply does after that is only to discard    *)
(* the callbacks.                                                          *)
(***************************************************************************)
EXTENDS CharacterSelect, SequenceTheorems, TLAPS

\* Where each thread may be, and the stage it is in there.
TaskOK(p) ==
  /\ at[p] \in {"none", "scheduled", "asking", "cancel", "listed", "load", "exchange", "schedule",
                "store", "send"}
  /\ at[p] \in {"scheduled", "asking"} => mStage = StageOf[kind[p]]
  /\ at[p] \in {"load", "exchange", "cancel"} => mStage = "MAIN_MENU"
  /\ at[p] \in {"exchange", "listed"} => seen[p] = mStage
  /\ at[p] = "listed" => mStage = "CHARACTER_LISTING"
  /\ at[p] = "schedule" => mStage = StageOf[goal[p]]
  /\ at[p] \in {"store", "send"} => mStage = "CREATE_CHARACTER"
  /\ at[p] \in {"load", "exchange", "schedule"} /\ goal[p] = "create" => creations < MaxCreations
  /\ at[p] \in {"scheduled", "asking"} /\ kind[p] = "create" => creations < MaxCreations
  /\ at[p] = "store" => creations < MaxCreations
  /\ at[p] = "send" => creations # 0

MainOK ==
  /\ at[Main] \in {"idle", "load", "exchange", "schedule", "reset", "leave"}
  /\ at[Main] \in {"load", "exchange", "schedule"} => goal[Main] = "menu"
  /\ at[Main] = "exchange" => seen[Main] = mStage
  /\ at[Main] = "schedule" => mStage = "MAIN_MENU"
  /\ at[Main] # "idle" => ~left

\* A task runs only while nobody else may schedule a prompt.
OneTask ==
  /\ \A p, q \in Task : at[p] # "none" /\ at[q] # "none" => p = q
  /\ \A p \in Task : at[p] # "none" =>
       asked = <<>> /\ replies = <<>> /\ at[Main] \in {"idle", "reset"} /\ ~left

\* So does the server have a creation to answer, or the main thread its answer.
OneAnswer ==
  /\ asked = <<>> \/ replies = <<>>
  /\ Len(asked) <= 1 /\ Len(replies) <= 1
  /\ asked # <<>> \/ replies # <<>> =>
       at[Main] \in {"idle", "reset"} /\ mStage = "CREATE_CHARACTER" /\ ~left

\* Who may still need the callbacks.
CallbacksAreUsed ==
  /\ current # 0 => at[Main] \in {"load", "exchange", "schedule", "reset"}
  /\ mCreateCharacterCallbacks # 0 =>
       \/ current # 0
       \/ \E p \in Task : at[p] = "send"
       \/ asked # <<>> \/ replies # <<>>

IInv ==
  /\ TypeOK
  /\ \A p \in Task : TaskOK(p)
  /\ MainOK /\ OneTask /\ OneAnswer /\ CallbacksAreUsed

\* What the variables of the threads are.
LEMMA TypeFacts ==
  ASSUME TypeOK
  PROVE  /\ at \in [Thread -> Place] /\ goal \in [Thread -> Prompt] /\ seen \in [Thread -> Stage]
         /\ kind \in [Task -> Prompt]
         /\ creations \in 0..MaxCreations /\ mStage \in Stage
         /\ Main \in Thread /\ \A p \in Task : p \in Thread /\ p # Main
BY SelectAssumption DEF TypeOK, Thread

\* A queue that holds one element at most.
LEMMA OneElement ==
  ASSUME NEW S, NEW s \in Seq(S), s # <<>>, Len(s) <= 1
  PROVE  Len(s) = 1 /\ Tail(s) = <<>> /\ Head(s) \in S
<1>1. Len(s) \in Nat /\ Len(s) # 0
  BY EmptySeq
<1>2. Len(s) = 1 /\ Head(s) \in S
  <2>1. Len(s) = 1
    BY <1>1
  <2>2. Head(s) \in S
    BY HeadTailProperties
  <2>. QED BY <2>1, <2>2
<1>3. Tail(s) \in Seq(S) /\ Len(Tail(s)) = 0
  BY <1>2, HeadTailProperties
<1>. QED BY <1>2, <1>3, EmptySeq

LEMMA InvInit == Init => IInv
<1> SUFFICES ASSUME Init PROVE IInv
  OBVIOUS
<1>1. <<>> \in Seq(1..MaxCreations) /\ Len(<<>>) = 0
  OBVIOUS
<1>2. Main \in Thread /\ Main \notin Task /\ \A p \in Task : p \in Thread /\ p # Main
  BY SelectAssumption DEF Thread
<1>3. TypeOK
  <2>1. /\ goal \in [Thread -> Prompt] /\ kind \in [Task -> Prompt] /\ seen \in [Thread -> Stage]
        /\ mStage \in Stage /\ left \in BOOLEAN
    BY DEF Init, Prompt, Stage
  <2>2. at \in [Thread -> Place]
    BY DEF Init, Place
  <2>3. /\ mCreateCharacterCallbacks \in 0..MaxCreations /\ current \in 0..MaxCreations
        /\ creations \in 0..MaxCreations /\ heard \subseteq 1..MaxCreations /\ lost \subseteq 1..MaxCreations
        /\ asked \in Seq(1..MaxCreations) /\ replies \in Seq(1..MaxCreations)
    BY <1>1, SelectAssumption DEF Init
  <2>. QED BY <2>1, <2>2, <2>3 DEF TypeOK
<1>4. at[Main] = "idle" /\ \A p \in Task : at[p] = "none"
  BY <1>2 DEF Init
<1>5. (\A p \in Task : TaskOK(p)) /\ MainOK /\ OneTask /\ CallbacksAreUsed
  BY <1>4 DEF Init, TaskOK, MainOK, OneTask, CallbacksAreUsed
<1>6. OneAnswer
  BY <1>1 DEF Init, OneAnswer
<1>. QED BY <1>3, <1>5, <1>6 DEF IInv

-----------------------------------------------------------------------------

\* While a task runs the others do not, and their facts do not matter.
LEMMA Runs ==
  ASSUME IInv, NEW p \in Task, at[p] # "none"
  PROVE  /\ Main # p /\ p \in Thread /\ Main \in Thread /\ at \in [Thread -> Place]
         /\ asked = <<>> /\ replies = <<>> /\ at[Main] \in {"idle", "reset"} /\ ~left /\ TaskOK(p)
         /\ \A q \in Task \ {p} : at[q] = "none" /\ q # Main /\ q \in Thread
BY TypeFacts DEF IInv, OneTask

\* A step of a task that leaves the services and the main thread alone.
LEMMA TaskStep ==
  ASSUME IInv, NEW p \in Task, at[p] # "none", at[p] # "send", NEW v, at' = [at EXCEPT ![p] = v],
         TypeOK', UNCHANGED <<goal[Main], seen[Main], mCreateCharacterCallbacks, asked, replies, current, left>>,
         TaskOK(p)'
  PROVE  IInv'
<1>1. at'[p] = v /\ at'[Main] = at[Main] /\ \A q \in Task \ {p} : at'[q] = "none"
  BY Runs
<1>2. \A q \in Task : TaskOK(q)'
  BY <1>1 DEF TaskOK
<1>3. MainOK'
  BY <1>1, Runs DEF IInv, MainOK
<1>4. OneTask' /\ OneAnswer'
  BY <1>1, Runs DEF IInv, OneTask, OneAnswer
<1>5. CallbacksAreUsed'
  BY <1>1, Runs DEF IInv, CallbacksAreUsed
<1>. QED BY <1>2, <1>3, <1>4, <1>5 DEF IInv

LEMMA TaskLoads == ASSUME IInv, NEW p \in Task, LoadStage(p) PROVE IInv'
<1>1. at[p] = "load" /\ at' = [at EXCEPT ![p] = "exchange"] /\ seen' = [seen EXCEPT ![p] = mStage]
      /\ UNCHANGED <<mStage, goal, kind, serviceVars, replyVars, left>>
  BY DEF LoadStage, Goto
<1>2. TypeOK'
  BY <1>1, TypeFacts DEF IInv, TypeOK, Stage, Place, serviceVars, replyVars
<1>3. at'[p] = "exchange" /\ seen'[p] = mStage /\ seen'[Main] = seen[Main]
  BY <1>1, TypeFacts DEF IInv
<1>4. TaskOK(p)'
  BY <1>1, <1>3, Runs DEF TaskOK, serviceVars
<1>. QED BY <1>1, <1>2, <1>3, <1>4, TaskStep DEF serviceVars, replyVars

LEMMA TaskExchanges == ASSUME IInv, NEW p \in Task, ExchangeStage(p) PROVE IInv'
<1>1. at[p] = "exchange" /\ at' = [at EXCEPT ![p] = "schedule"]
      /\ UNCHANGED <<goal, seen, kind, serviceVars, replyVars, left>>
  BY DEF ExchangeStage, Goto
<1>2. mStage' = StageOf[goal[p]]
  BY <1>1, Runs DEF ExchangeStage, ChangeStage, TaskOK
<1>3. goal[p] \in Prompt
  BY TypeFacts DEF IInv
<1>4. TypeOK'
  BY <1>1, <1>2, <1>3, TypeFacts DEF IInv, TypeOK, Stage, Place, serviceVars, replyVars, StageOf, Prompt
<1>5. at'[p] = "schedule"
  BY <1>1, TypeFacts DEF IInv
<1>6. TaskOK(p)'
  BY <1>1, <1>2, <1>5, Runs DEF TaskOK, serviceVars
<1>. QED BY <1>1, <1>4, <1>6, TaskStep DEF serviceVars, replyVars

LEMMA TaskSchedules == ASSUME IInv, NEW x \in Task, SchedulePrompt(x) PROVE IInv'
<1>1. PICK p \in Task : /\ at[p] = "none"
                        /\ kind' = [kind EXCEPT ![p] = goal[x]]
                        /\ at' = [at EXCEPT ![p] = "scheduled", ![x] = "none"]
  BY TypeFacts DEF SchedulePrompt, IInv
<1>2. at[x] = "schedule" /\ UNCHANGED <<mStage, goal, seen, serviceVars, replyVars, left>>
  BY DEF SchedulePrompt
<1>3. /\ at'[p] = "scheduled" /\ at'[Main] = at[Main] /\ kind'[p] = goal[x]
      /\ \A q \in Task \ {p} : at'[q] = "none"
  BY <1>1, <1>2, Runs, TypeFacts DEF IInv
<1>4. TypeOK'
  BY <1>1, <1>2, TypeFacts DEF IInv, TypeOK, Stage, Place, serviceVars, replyVars
<1>5. \A q \in Task : TaskOK(q)'
  BY <1>2, <1>3, Runs DEF TaskOK, serviceVars
<1>6. MainOK' /\ OneTask' /\ OneAnswer' /\ CallbacksAreUsed'
  BY <1>2, <1>3, Runs DEF IInv, MainOK, OneTask, OneAnswer, CallbacksAreUsed, serviceVars, replyVars
<1>. QED BY <1>4, <1>5, <1>6 DEF IInv

LEMMA TaskStarts == ASSUME IInv, NEW p \in Task, StartPrompt(p) PROVE IInv'
<1>1. at[p] = "scheduled" /\ at' = [at EXCEPT ![p] = IF kind[p] = "select" THEN "listed" ELSE "asking"]
      /\ seen' = [seen EXCEPT ![p] = mStage]
      /\ UNCHANGED <<mStage, goal, kind, serviceVars, replyVars, left>>
  BY DEF StartPrompt, Goto
<1>2. TypeOK'
  BY <1>1, TypeFacts DEF IInv, TypeOK, Stage, Place, serviceVars, replyVars
<1>3. at'[p] = (IF kind[p] = "select" THEN "listed" ELSE "asking") /\ seen'[p] = mStage /\ seen'[Main] = seen[Main]
  BY <1>1, TypeFacts DEF IInv
<1>4. TaskOK(p)'
  BY <1>1, <1>3, Runs DEF TaskOK, serviceVars, StageOf
<1>. QED BY <1>1, <1>2, <1>3, <1>4, TaskStep DEF serviceVars, replyVars

LEMMA MenuAnswered == ASSUME IInv, NEW p \in Task, MainMenuPrompt(p) PROVE IInv'
<1>1. at[p] = "asking" /\ kind[p] = "menu" /\ UNCHANGED <<mStage, seen, kind, serviceVars, replyVars, left>>
  BY DEF MainMenuPrompt, Asks
<1>2. CASE Goto(p, "asking", "cancel") /\ UNCHANGED goal
  <2>1. at' = [at EXCEPT ![p] = "cancel"] /\ at'[p] = "cancel"
    BY <1>2, TypeFacts DEF IInv, Goto
  <2>2. TypeOK'
    BY <1>1, <1>2, <2>1, TypeFacts DEF IInv, TypeOK, Stage, Place, serviceVars, replyVars
  <2>3. TaskOK(p)'
    BY <1>1, <2>1, Runs DEF TaskOK, StageOf
  <2>. QED BY <1>1, <1>2, <2>1, <2>2, <2>3, TaskStep DEF serviceVars, replyVars
<1>3. ASSUME NEW next \in {"select", "create"}, next = "create" => creations < MaxCreations,
             Goto(p, "asking", "load"), goal' = [goal EXCEPT ![p] = next]
      PROVE  IInv'
  <2>1. at' = [at EXCEPT ![p] = "load"] /\ at'[p] = "load" /\ goal'[p] = next /\ goal'[Main] = goal[Main]
    BY <1>3, TypeFacts DEF IInv, Goto
  <2>2. TypeOK'
    BY <1>1, <1>3, <2>1, TypeFacts DEF IInv, TypeOK, Stage, Place, serviceVars, replyVars, Prompt
  <2>3. TaskOK(p)'
    BY <1>1, <1>3, <2>1, Runs DEF TaskOK, StageOf, serviceVars
  <2>. QED BY <1>1, <2>1, <2>2, <2>3, TaskStep DEF serviceVars, replyVars
<1>. QED BY <1>2, <1>3 DEF MainMenuPrompt

LEMMA TaskEnds ==
  ASSUME IInv, NEW p \in Task, CancelMenu(p) \/ SelectCharacterPrompt(p)
  PROVE  IInv'
<1>1. at[p] \in {"cancel", "listed"} /\ at' = [at EXCEPT ![p] = "none"]
      /\ UNCHANGED <<goal, seen, kind, serviceVars, replyVars, left>>
  BY DEF CancelMenu, SelectCharacterPrompt, Goto
<1>2. mStage' \in {"MAIN_MENU_CANCELLED", "CHARACTER_LISTING_CANCELLED", mStage}
  BY DEF CancelMenu, SelectCharacterPrompt, ChangeStage
<1>3. TypeOK'
  BY <1>1, <1>2, TypeFacts DEF IInv, TypeOK, Stage, Place, serviceVars, replyVars
<1>4. at'[p] = "none"
  BY <1>1, TypeFacts DEF IInv
<1>5. TaskOK(p)'
  BY <1>4 DEF TaskOK
<1>. QED BY <1>1, <1>3, <1>5, TaskStep DEF serviceVars, replyVars

LEMMA NameRead == ASSUME IInv, NEW p \in Task, CreateCharacterPrompt(p) PROVE IInv'
<1>1. at[p] = "asking" /\ kind[p] = "create" /\ at' = [at EXCEPT ![p] = "store"]
      /\ UNCHANGED <<mStage, goal, seen, kind, serviceVars, replyVars, left>>
  BY DEF CreateCharacterPrompt, Asks, Goto
<1>2. TypeOK'
  BY <1>1, TypeFacts DEF IInv, TypeOK, Stage, Place, serviceVars, replyVars
<1>3. at'[p] = "store"
  BY <1>1, TypeFacts DEF IInv
<1>4. TaskOK(p)'
  BY <1>1, <1>3, Runs DEF TaskOK, serviceVars, StageOf
<1>. QED BY <1>1, <1>2, <1>4, TaskStep DEF serviceVars, replyVars

LEMMA Stores == ASSUME IInv, NEW p \in Task, StoreCallbacks(p) PROVE IInv'
<1>1. at[p] = "store" /\ at' = [at EXCEPT ![p] = "send"] /\ creations' = creations + 1
      /\ mCreateCharacterCallbacks' = creations + 1
      /\ UNCHANGED <<mStage, goal, seen, kind, asked, replyVars, left>>
  BY DEF StoreCallbacks, Goto
<1>2. creations \in Nat /\ creations < MaxCreations /\ MaxCreations \in Nat
  BY <1>1, Runs, SelectAssumption DEF TaskOK, IInv, TypeOK
<1>3. creations + 1 \in 0..MaxCreations
  BY <1>2
<1>4. TypeOK'
  BY <1>1, <1>3, TypeFacts DEF IInv, TypeOK, Stage, Place, replyVars
<1>5. /\ at'[p] = "send" /\ at'[Main] = at[Main]
      /\ \A q \in Task \ {p} : at'[q] = "none"
  BY <1>1, Runs
<1>6. \A q \in Task : TaskOK(q)'
  BY <1>1, <1>2, <1>5, Runs DEF TaskOK
<1>7. MainOK' /\ OneTask' /\ OneAnswer' /\ CallbacksAreUsed'
  BY <1>1, <1>5, Runs DEF IInv, MainOK, OneTask, OneAnswer, CallbacksAreUsed, replyVars
<1>. QED BY <1>4, <1>6, <1>7 DEF IInv

LEMMA Sends == ASSUME IInv, NEW p \in Task, SendCreate(p) PROVE IInv'
<1>1. at[p] = "send" /\ at' = [at EXCEPT ![p] = "none"] /\ asked' = Append(asked, creations)
      /\ UNCHANGED <<mStage, goal, seen, kind, mCreateCharacterCallbacks, creations, replyVars, left>>
  BY DEF SendCreate, Goto
<1>2. creations \in 1..MaxCreations /\ asked = <<>>
  BY <1>1, Runs, SelectAssumption DEF TaskOK, IInv, TypeOK
<1>3. asked' \in Seq(1..MaxCreations) /\ Len(asked') = 1 /\ asked' # <<>>
  BY <1>1, <1>2
<1>4. TypeOK'
  BY <1>1, <1>3, TypeFacts DEF IInv, TypeOK, Stage, Place, replyVars
<1>5. at'[Main] = at[Main] /\ \A q \in Task : at'[q] = "none"
  BY <1>1, Runs
<1>6. \A q \in Task : TaskOK(q)'
  BY <1>5 DEF TaskOK
<1>7. MainOK' /\ OneTask' /\ CallbacksAreUsed'
  BY <1>1, <1>3, <1>5, Runs DEF IInv, MainOK, OneTask, CallbacksAreUsed, replyVars
<1>8. OneAnswer'
  BY <1>1, <1>3, <1>5, Runs DEF OneAnswer, TaskOK, replyVars, IInv
<1>. QED BY <1>4, <1>6, <1>7, <1>8 DEF IInv

-----------------------------------------------------------------------------

\* No task runs while the main thread is in the middle of a stage, or the
\* server or the main thread has an answer to give.
LEMMA NoTask ==
  ASSUME IInv, at[Main] \notin {"idle", "reset"} \/ asked # <<>> \/ replies # <<>> \/ left
  PROVE  \A p \in Task : at[p] = "none"
BY DEF IInv, OneTask

LEMMA Answers == ASSUME IInv, Answer PROVE IInv'
<1>1. asked # <<>> /\ asked' = Tail(asked) /\ replies' = Append(replies, Head(asked))
      /\ UNCHANGED <<mStage, threadVars, mCreateCharacterCallbacks, creations, current, heard, lost, left>>
  BY DEF Answer
<1>2. asked \in Seq(1..MaxCreations) /\ replies = <<>> /\ Len(asked) <= 1
  BY <1>1 DEF IInv, TypeOK, Stage, Place, OneAnswer
<1>3. asked' = <<>> /\ Head(asked) \in 1..MaxCreations
  BY <1>1, <1>2, OneElement
<1>7. Len(asked') = 0 /\ Len(replies') = 1 /\ replies' # <<>>
      /\ replies' \in Seq(1..MaxCreations) /\ asked' \in Seq(1..MaxCreations)
  BY <1>1, <1>2, <1>3
<1>4. TypeOK'
  BY <1>1, <1>3, <1>7 DEF IInv, TypeOK, Stage, Place, threadVars
<1>5. (\A q \in Task : TaskOK(q)') /\ MainOK' /\ OneTask' /\ CallbacksAreUsed'
  BY <1>1, <1>3, <1>7, NoTask DEF IInv, TaskOK, MainOK, OneTask, CallbacksAreUsed, threadVars
<1>6. OneAnswer'
  BY <1>1, <1>3, <1>7 DEF IInv, OneAnswer, threadVars
<1>. QED BY <1>4, <1>5, <1>6 DEF IInv

\* The stages in which a task runs are none the main thread acts upon.
LEMMA NoTaskAtRest ==
  ASSUME IInv, mStage \in Resting \union {"MAIN_MENU_CANCELLED"}
  PROVE  (\A p \in Task : at[p] = "none") /\ asked = <<>> /\ replies = <<>>
<1>1. asked = <<>> /\ replies = <<>>
  BY DEF IInv, OneAnswer, Resting
<1>2. ASSUME NEW p \in Task, at[p] # "none" PROVE FALSE
  <2>1. kind[p] \in Prompt /\ goal[p] \in Prompt /\ TaskOK(p)
    BY TypeFacts DEF IInv
  <2>. QED BY <1>2, <2>1 DEF TaskOK, Resting, StageOf, Prompt
<1>. QED BY <1>1, <1>2

LEMMA Updates == ASSUME IInv, UpdateState PROVE IInv'
<1>1. ~left /\ at[Main] = "idle" /\ goal' = [goal EXCEPT ![Main] = "menu"]
      /\ UNCHANGED <<mStage, seen, kind, serviceVars, replyVars, left>>
      /\ mStage \in Resting \union {"MAIN_MENU_CANCELLED"}
  BY DEF UpdateState, Goto
<1>2. PICK v \in {"load", "leave"} : at' = [at EXCEPT ![Main] = v]
  BY DEF UpdateState, Goto
<1>3. TypeOK'
  BY <1>1, <1>2, TypeFacts DEF IInv, TypeOK, Stage, Place, serviceVars, replyVars, Prompt
<1>4. at'[Main] = v /\ goal'[Main] = "menu" /\ \A q \in Task : at'[q] = "none"
  BY <1>1, <1>2, NoTaskAtRest, TypeFacts DEF IInv
<1>5. \A q \in Task : TaskOK(q)'
  BY <1>4 DEF TaskOK
<1>6. MainOK' /\ OneTask' /\ OneAnswer'
  BY <1>1, <1>4, NoTaskAtRest DEF IInv, MainOK, OneTask, OneAnswer, serviceVars, replyVars
<1>7. mCreateCharacterCallbacks = 0 /\ current = 0
  BY <1>1, NoTaskAtRest DEF IInv, CallbacksAreUsed
<1>8. CallbacksAreUsed'
  BY <1>1, <1>7 DEF CallbacksAreUsed, serviceVars, replyVars
<1>. QED BY <1>3, <1>5, <1>6, <1>8 DEF IInv

LEMMA Leaves == ASSUME IInv, LeaveForLogin PROVE IInv'
<1>1. at[Main] = "leave" /\ at' = [at EXCEPT ![Main] = "idle"] /\ left' = TRUE
      /\ UNCHANGED <<mStage, goal, seen, kind, serviceVars, replyVars>>
  BY DEF LeaveForLogin, Goto
<1>2. TypeOK'
  BY <1>1, TypeFacts DEF IInv, TypeOK, Stage, Place, serviceVars, replyVars
<1>3. at'[Main] = "idle" /\ \A q \in Task : at'[q] = "none"
  BY <1>1, NoTask, TypeFacts DEF IInv
<1>4. (\A q \in Task : TaskOK(q)') /\ MainOK' /\ OneTask'
  BY <1>1, <1>3 DEF TaskOK, MainOK, OneTask
<1>5. OneAnswer' /\ CallbacksAreUsed'
  BY <1>1, <1>3, NoTask DEF IInv, OneAnswer, CallbacksAreUsed, serviceVars, replyVars
<1>. QED BY <1>2, <1>4, <1>5 DEF IInv

LEMMA TakesReply == ASSUME IInv, TakeReply PROVE IInv'
<1>1. replies # <<>> /\ replies' = Tail(replies) /\ at[Main] = "idle"
      /\ UNCHANGED <<mStage, seen, kind, serviceVars, lost, left>>
  BY DEF TakeReply, Goto
<1>2. /\ replies \in Seq(1..MaxCreations) /\ Len(replies) <= 1 /\ asked = <<>> /\ ~left
      /\ mStage = "CREATE_CHARACTER" /\ current = 0
  BY <1>1 DEF IInv, TypeOK, Stage, Place, OneAnswer, CallbacksAreUsed
<1>7. replies' = <<>> /\ Head(replies) \in 1..MaxCreations
  BY <1>1, <1>2, OneElement
<1>3. replies' = <<>> /\ Len(replies') = 0 /\ replies' \in Seq(1..MaxCreations) /\ Head(replies) \in 1..MaxCreations
      /\ asked' = <<>> /\ Len(asked') = 0
  <2>1. <<>> \in Seq(1..MaxCreations) /\ Len(<<>>) = 0
    OBVIOUS
  <2>. QED BY <1>1, <1>2, <1>7, <2>1 DEF serviceVars
<1>4. CASE /\ mCreateCharacterCallbacks # 0 /\ Goto(Main, "idle", "load")
           /\ current' = Head(replies) /\ heard' = heard \union {mCreateCharacterCallbacks}
           /\ goal' = [goal EXCEPT ![Main] = "menu"]
  <2>1. at' = [at EXCEPT ![Main] = "load"]
    BY <1>4 DEF Goto
  <2>2. at'[Main] = "load" /\ goal'[Main] = "menu" /\ \A q \in Task : at'[q] = "none"
    BY <1>1, <1>4, <2>1, NoTask, TypeFacts DEF IInv
  <2>3. mCreateCharacterCallbacks \in 1..MaxCreations
    BY <1>4, SelectAssumption DEF IInv, TypeOK, Stage, Place
  <2>4. TypeOK'
    BY <1>1, <1>3, <1>4, <2>1, <2>3, TypeFacts DEF IInv, TypeOK, Stage, Place, serviceVars, Prompt
  <2>5. (\A q \in Task : TaskOK(q)') /\ MainOK' /\ OneTask'
    BY <1>1, <1>2, <2>2 DEF TaskOK, MainOK, OneTask
  <2>6. OneAnswer'
    BY <1>1, <1>2, <1>3 DEF OneAnswer, serviceVars
  <2>7. CallbacksAreUsed'
    BY <1>1, <1>3, <1>4, <2>2 DEF CallbacksAreUsed, serviceVars
  <2>. QED BY <2>4, <2>5, <2>6, <2>7 DEF IInv
<1>5. CASE mCreateCharacterCallbacks = 0 /\ Goto(Main, "idle", "idle") /\ UNCHANGED <<current, heard, goal>>
  <2>1. at' = at
    BY <1>5, TypeFacts DEF IInv, Goto
  <2>2. TypeOK'
    BY <1>1, <1>3, <1>5, <2>1 DEF IInv, TypeOK, Stage, Place, serviceVars
  <2>3. (\A q \in Task : TaskOK(q)') /\ MainOK' /\ OneTask'
    BY <1>1, <1>2, <1>5, <2>1, NoTask DEF IInv, TaskOK, MainOK, OneTask
  <2>4. OneAnswer' /\ CallbacksAreUsed'
    BY <1>2, <1>3, <1>5, <1>1 DEF OneAnswer, CallbacksAreUsed, serviceVars
  <2>. QED BY <2>2, <2>3, <2>4 DEF IInv
<1>. QED BY <1>4, <1>5 DEF TakeReply

LEMMA MainLoads == ASSUME IInv, LoadStage(Main) PROVE IInv'
<1>1. at[Main] = "load" /\ at' = [at EXCEPT ![Main] = "exchange"] /\ seen' = [seen EXCEPT ![Main] = mStage]
      /\ UNCHANGED <<mStage, goal, kind, serviceVars, replyVars, left>>
  BY DEF LoadStage, Goto
<1>2. TypeOK'
  BY <1>1, TypeFacts DEF IInv, TypeOK, Stage, Place, serviceVars, replyVars
<1>3. at'[Main] = "exchange" /\ seen'[Main] = mStage /\ \A q \in Task : at'[q] = "none"
  BY <1>1, NoTask, TypeFacts DEF IInv
<1>4. (\A q \in Task : TaskOK(q)') /\ MainOK' /\ OneTask'
  BY <1>1, <1>3 DEF IInv, TaskOK, MainOK, OneTask
<1>5. OneAnswer' /\ CallbacksAreUsed'
  BY <1>1, <1>3, NoTask DEF IInv, OneAnswer, CallbacksAreUsed, serviceVars, replyVars
<1>. QED BY <1>2, <1>4, <1>5 DEF IInv

LEMMA MainExchanges == ASSUME IInv, ExchangeStage(Main) PROVE IInv'
<1>1. at[Main] = "exchange" /\ at' = [at EXCEPT ![Main] = "schedule"]
      /\ UNCHANGED <<goal, seen, kind, serviceVars, replyVars, left>>
  BY DEF ExchangeStage, Goto
<1>2. mStage' = "MAIN_MENU"
  BY <1>1 DEF ExchangeStage, ChangeStage, IInv, MainOK, StageOf
<1>3. TypeOK'
  BY <1>1, <1>2, TypeFacts DEF IInv, TypeOK, Stage, Place, serviceVars, replyVars
<1>4. at'[Main] = "schedule" /\ \A q \in Task : at'[q] = "none"
  BY <1>1, NoTask, TypeFacts DEF IInv
<1>5. (\A q \in Task : TaskOK(q)') /\ MainOK' /\ OneTask'
  BY <1>1, <1>2, <1>4 DEF IInv, TaskOK, MainOK, OneTask
<1>6. OneAnswer' /\ CallbacksAreUsed'
  BY <1>1, <1>4, NoTask DEF IInv, OneAnswer, CallbacksAreUsed, serviceVars, replyVars
<1>. QED BY <1>3, <1>5, <1>6 DEF IInv

LEMMA MainSchedules == ASSUME IInv, SchedulePrompt(Main) PROVE IInv'
<1>1. PICK p \in Task : /\ at[p] = "none"
                        /\ kind' = [kind EXCEPT ![p] = goal[Main]]
                        /\ at' = [at EXCEPT ![p] = "scheduled",
                                            ![Main] = IF current # 0 THEN "reset" ELSE "idle"]
  BY DEF SchedulePrompt
<1>2. at[Main] = "schedule" /\ UNCHANGED <<mStage, goal, seen, serviceVars, replyVars, left>>
  BY DEF SchedulePrompt
<1>3. mStage = "MAIN_MENU" /\ goal[Main] = "menu" /\ asked = <<>> /\ replies = <<>> /\ ~left
  BY <1>2 DEF IInv, MainOK, OneAnswer
<1>4. /\ at'[p] = "scheduled" /\ at'[Main] = (IF current # 0 THEN "reset" ELSE "idle") /\ kind'[p] = "menu"
      /\ \A q \in Task \ {p} : at'[q] = "none"
  BY <1>1, <1>2, <1>3, NoTask, TypeFacts DEF IInv
<1>5. TypeOK'
  BY <1>1, <1>2, TypeFacts DEF IInv, TypeOK, Stage, Place, serviceVars, replyVars
<1>6. \A q \in Task : TaskOK(q)'
  BY <1>2, <1>3, <1>4 DEF TaskOK, StageOf
<1>7. MainOK' /\ OneTask' /\ OneAnswer'
  BY <1>2, <1>3, <1>4 DEF IInv, MainOK, OneTask, OneAnswer, serviceVars, replyVars
<1>8. CallbacksAreUsed'
  BY <1>2, <1>3, <1>4, NoTask DEF IInv, CallbacksAreUsed, serviceVars, replyVars
<1>. QED BY <1>5, <1>6, <1>7, <1>8 DEF IInv

LEMMA Resets == ASSUME IInv, ResetCallbacks PROVE IInv'
<1>1. at[Main] = "reset" /\ at' = [at EXCEPT ![Main] = "idle"]
      /\ lost' = lost \union ({mCreateCharacterCallbacks} \ ({current} \union {0}))
      /\ mCreateCharacterCallbacks' = 0 /\ current' = 0
      /\ UNCHANGED <<mStage, goal, seen, kind, creations, asked, replies, heard, left>>
  BY DEF ResetCallbacks, Goto
<1>2. mCreateCharacterCallbacks = 0 \/ mCreateCharacterCallbacks \in 1..MaxCreations
  BY SelectAssumption DEF IInv, TypeOK, Stage, Place
<1>3. lost' \subseteq 1..MaxCreations
  BY <1>1, <1>2 DEF IInv, TypeOK, Stage, Place
<1>4. TypeOK'
  BY <1>1, <1>3, TypeFacts, SelectAssumption DEF IInv, TypeOK, Stage, Place
<1>5. at'[Main] = "idle" /\ \A q \in Task : at'[q] = at[q]
  BY <1>1, TypeFacts DEF IInv
<1>6. (\A q \in Task : TaskOK(q)') /\ MainOK' /\ OneTask' /\ OneAnswer'
  BY <1>1, <1>5 DEF IInv, TaskOK, MainOK, OneTask, OneAnswer
<1>7. CallbacksAreUsed'
  BY <1>1 DEF CallbacksAreUsed
<1>. QED BY <1>4, <1>6, <1>7 DEF IInv

-----------------------------------------------------------------------------

LEMMA InvStep == ASSUME IInv, [Next]_vars PROVE IInv'
<1>1. ASSUME NEW p \in Task, PromptRuns(p) PROVE IInv'
  BY <1>1, TaskStarts, TaskLoads, TaskExchanges, TaskSchedules, TaskEnds, Stores, Sends
     DEF PromptRuns, ScheduleStage
<1>2. ASSUME NEW p \in Task, PlayerStep(p) PROVE IInv'
  BY <1>2, MenuAnswered, NameRead DEF PlayerStep
<1>3. CASE Answer
  BY <1>3, Answers
<1>4. CASE MainRuns
  BY <1>4, Updates, Leaves, TakesReply, MainLoads, MainExchanges, MainSchedules, Resets DEF MainRuns, ScheduleStage
<1>5. CASE UNCHANGED vars
  BY <1>5 DEF vars, threadVars, serviceVars, replyVars, IInv, TypeOK, TaskOK, MainOK, OneTask, OneAnswer,
              CallbacksAreUsed
<1>. QED BY <1>1, <1>2, <1>3, <1>4, <1>5 DEF Next

LEMMA SelectInvariant == Spec => []IInv
BY InvInit, InvStep, PTL DEF Spec

(***************************************************************************)
(* The stage, the threads and the callbacks keep their types: above all,   *)
(* the stages of a deletion and CREATE_CHARACTER_CANCELLED are never set.  *)
(***************************************************************************)
THEOREM SelectTypeCorrect == Spec => []TypeOK
<1>1. IInv => TypeOK
  BY DEF IInv
<1>. QED BY <1>1, SelectInvariant, PTL

(***************************************************************************)
(* With any number of tasks and creations, one prompt waits at a time.     *)
(***************************************************************************)
THEOREM PlayerFacesOnePrompt == Spec => []OnePrompt
<1>1. IInv => OnePrompt
  BY DEF IInv, OneTask, OnePrompt, Waits
<1>. QED BY <1>1, SelectInvariant, PTL

(***************************************************************************)
(* Neither a worker nor the interface can come back to the state when it   *)
(* has been replaced.                                                      *)
(***************************************************************************)
THEOREM NobodyComesBack == Spec => []DestroyedIsUnreachable
<1>1. IInv => DestroyedIsUnreachable
  <2> SUFFICES ASSUME IInv, left PROVE (\A p \in Task : at[p] = "none") /\ mCreateCharacterCallbacks = 0
    BY DEF DestroyedIsUnreachable
  <2>1. \A p \in Task : at[p] = "none"
    BY NoTask
  <2>2. at[Main] = "idle" /\ asked = <<>> /\ replies = <<>>
    BY DEF IInv, MainOK, OneAnswer
  <2>. QED BY <2>1, <2>2 DEF IInv, CallbacksAreUsed
<1>. QED BY <1>1, SelectInvariant, PTL
=============================================================================
