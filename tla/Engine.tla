---------------------------- MODULE Engine ----------------------------
(* The engine behind the full-screen UI (rusty-claude-cli/src/engine.rs).   *)
(* Three kinds of threads share a handful of mutexes and atomics:           *)
(*  - the command thread (forward_commands) receives the UI's commands, lets *)
(*    interrupts, answers and the shutdown act at once and queues the rest;  *)
(*  - the engine thread (serve, submit, run_turn) takes the queue one command *)
(*    at a time; a turn's tools run on it, so it also asks the questions;    *)
(*  - every prompt's turn has an interrupt monitor (watch_turn_interrupts).  *)
(* One action is one region under a lock, one atomic access or one channel   *)
(* operation. Prompts and questions are numbered in the order they are made; *)
(* texts, reports, the footer and the model's own steps are left out.        *)
EXTENDS Integers, Sequences, FiniteSets

CONSTANTS
  MaxPrompts,    \* bound: Submit commands the UI sends
  MaxQuestions,  \* bound: AskUserQuestion calls the agent makes
  MaxOthers,     \* bound: other queued commands the UI sends
  MaxInterrupts  \* bound: interrupts the user presses

ASSUME BoundsAssumption ==
  /\ MaxPrompts \in Nat \ {0}
  /\ MaxQuestions \in Nat
  /\ MaxOthers \in Nat
  /\ MaxInterrupts \in Nat

-----------------------------------------------------------------------------
(* Types *)

Prompts == 1..MaxPrompts
NoTurn == 0
SignIn == MaxPrompts + 1          \* the sign-in's turn, which has no prompt
Tokens == Prompts \cup {SignIn}   \* whose CancellationToken
NoQuestion == -1
Questions == 0..(MaxQuestions - 1)

Item(kind, id) == [kind |-> kind, id |-> id]
NoItem == Item("none", 0)
Items == [kind : {"none", "submit", "answer", "closed", "login", "other",
                  "exit", "shutdown"},
          id : 0..(MaxPrompts + MaxQuestions)]

EnginePC == {"idle", "take", "prepare", "watch", "recheck", "running",
             "calling", "waiting", "withdraw", "ended", "drop", "finish", "done"}
CommandPC == {"recv", "sendPrompt", "sendAnswer", "stopTurn", "dropAnswer",
              "sendShutdown", "done"}
MonitorState == {"absent", "polling", "waiting", "woken", "done"}
Fates == {"unsent", "queued", "running", "ended", "finished", "answering",
          "answered", "lost"}

VARIABLES
  \* command thread
  cmd,            \* [pc, item it is about to send, question it holds the sender of]
  \* Shared and Interrupts
  closing, presses, queuedPrompts, early, turn, answer, nextQuestion,
  queue,          \* the engine's queue
  \* engine thread
  stage,          \* "signedOut" (SignedOut) or "ready" (Engine)
  pc, cur,        \* where it is, and the turn it is in
  question,       \* the question it waits on
  reply,          \* what that question's answer channel holds
  cancelled, aborted,   \* tokens cancelled, hook signals aborted
  \* the turns' interrupt monitors
  monitor,        \* thread state per prompt
  permit,         \* prompts whose InterruptPresses keeps a press
  stopping,       \* prompts whose monitor was told to stop
  seen,           \* presses the monitor handled
  forceQuit,
  \* history, read by no guard of the program
  fate,           \* what became of each Submit
  pressed,        \* interrupts a prompt's turn received before it ended: at most one
                  \* while it was queued, at most two counted
  interrupted,    \* prompts the user interrupted
  sentPrompts, sentOthers, sentInterrupts

sentVars == <<sentPrompts, sentOthers, sentInterrupts>>
cmdVars == <<cmd, sentVars>>
lockVars == <<presses, queuedPrompts, early, turn>>
askVars == <<answer, nextQuestion, question, reply>>
tokenVars == <<cancelled, aborted>>
monitorVars == <<monitor, permit, stopping, seen, forceQuit>>
historyVars == <<pressed, interrupted>>
engineVars == <<stage, pc, cur>>
vars == <<cmdVars, closing, lockVars, askVars, queue, engineVars, tokenVars,
          monitorVars, historyVars, fate>>

Init ==
  /\ cmd = [pc |-> "recv", item |-> NoItem, question |-> NoQuestion]
  /\ closing = FALSE
  /\ presses = NoTurn /\ queuedPrompts = 0 /\ early = FALSE /\ turn = NoTurn
  /\ answer = NoQuestion /\ nextQuestion = 0
  /\ question = NoQuestion /\ reply = NoItem
  /\ queue = <<>>
  /\ stage \in {"signedOut", "ready"} /\ pc = "idle" /\ cur = NoTurn
  /\ cancelled = {} /\ aborted = {}
  /\ monitor = [p \in Prompts |-> "absent"]
  /\ permit = {} /\ stopping = {} /\ seen = [p \in Prompts |-> 0]
  /\ forceQuit = FALSE
  /\ fate = [p \in Prompts |-> "unsent"]
  /\ pressed = [p \in Prompts |-> 0] /\ interrupted = {}
  /\ sentPrompts = 0 /\ sentOthers = 0 /\ sentInterrupts = 0

-----------------------------------------------------------------------------
(* Shared *)

\* The prompt an interrupt is meant for: the running turn's, else the oldest one
\* the engine has not reached. A sign-in is interrupted itself. (History only.)
Running == {p \in Prompts : fate[p] = "running"}
Waiting == {p \in Prompts : fate[p] = "queued"}
Oldest(S) == {p \in S : \A q \in S : p <= q}
Meant == IF Running # {} THEN Running
         ELSE IF turn = SignIn THEN {}
         ELSE Oldest(Waiting)

\* tokio's Notify behind InterruptPresses: notify_one wakes the waiter, and with
\* nobody waiting keeps one permit, once.
Press(p) ==
  IF monitor[p] = "waiting"
  THEN /\ monitor' = [monitor EXCEPT ![p] = "woken"]
       /\ UNCHANGED permit
  ELSE /\ permit' = permit \cup {p}
       /\ UNCHANGED monitor

\* A prompt is queued, so an interrupt that finds no turn is kept for it.
PromptIsComing_Unchecked == TRUE
PromptIsComing == queuedPrompts > 0

\* Shared::interrupt, under both locks.
Interrupt ==
  \/ /\ presses # NoTurn
     /\ Press(presses)
     /\ IF turn # NoTurn
        THEN cancelled' = cancelled \cup {turn} /\ UNCHANGED early
        ELSE early' = TRUE /\ UNCHANGED cancelled
  \/ /\ presses = NoTurn /\ turn # NoTurn
     /\ cancelled' = cancelled \cup {turn}
     /\ UNCHANGED <<early, monitor, permit>>
  \/ /\ presses = NoTurn /\ turn = NoTurn /\ PromptIsComing
     /\ early' = TRUE
     /\ UNCHANGED <<cancelled, monitor, permit>>
  \/ /\ presses = NoTurn /\ turn = NoTurn /\ ~PromptIsComing
     /\ UNCHANGED <<early, cancelled, monitor, permit>>

\* Shared::stop_turn, under the turn lock.
StopTurn_NoTurnToo ==
  cancelled' = cancelled \cup {turn} /\ aborted' = aborted \cup {turn}
StopTurn ==
  IF turn # NoTurn
  THEN cancelled' = cancelled \cup {turn} /\ aborted' = aborted \cup {turn}
  ELSE UNCHANGED tokenVars

\* Shared::turn_cancelled.
TurnCancelled_Unseen == FALSE
TurnCancelled == turn \in cancelled

Saturating(n) == IF n = 0 THEN 0 ELSE n - 1

-----------------------------------------------------------------------------
(* The command thread: forward_commands. The UI may send any command at any   *)
(* time, so the command channel is the choice of the next Receive action.     *)

CommandTo(next) == cmd' = [cmd EXCEPT !.pc = next]

\* queue.send: the receiver goes with the engine thread, and the command thread
\* then returns.
Send_JumpingTheQueue(item, next) ==
  IF pc = "done"
  THEN UNCHANGED queue /\ CommandTo("done")
  ELSE queue' = <<item>> \o queue /\ CommandTo(next)
Send(item, next) ==
  IF pc = "done"
  THEN UNCHANGED queue /\ CommandTo("done")
  ELSE queue' = Append(queue, item) /\ CommandTo(next)

ReceiveInterrupt ==
  /\ cmd.pc = "recv" /\ sentInterrupts < MaxInterrupts
  /\ sentInterrupts' = sentInterrupts + 1
  /\ Interrupt
  /\ LET counts == IF pc \in {"ended", "drop"} THEN Meant \ {cur} ELSE Meant
         most == [p \in Prompts |-> IF fate[p] = "queued" THEN 1 ELSE 2]
     IN  pressed' = [p \in Prompts |-> IF p \in counts /\ pressed[p] < most[p]
                                       THEN pressed[p] + 1 ELSE pressed[p]]
  /\ interrupted' = interrupted \cup Meant
  /\ UNCHANGED <<cmd, sentPrompts, sentOthers, closing, presses, queuedPrompts,
                 turn, askVars, queue, engineVars, aborted, stopping, seen,
                 forceQuit, fate>>

\* A Submit while a question waits is its answer; else the prompt is counted
\* before it is sent. No interrupt comes between take_answer and prompt_queued:
\* they are this thread's.
ReceiveSubmit ==
  /\ cmd.pc = "recv" /\ sentPrompts < MaxPrompts
  /\ LET p == sentPrompts + 1 IN
     /\ sentPrompts' = p
     /\ \/ /\ answer # NoQuestion
           /\ answer' = NoQuestion
           /\ cmd' = [pc |-> "sendAnswer", item |-> Item("submit", p),
                      question |-> answer]
           /\ fate' = [fate EXCEPT ![p] = "answering"]
           /\ UNCHANGED queuedPrompts
        \/ /\ answer = NoQuestion
           /\ queuedPrompts' = queuedPrompts + 1
           /\ cmd' = [cmd EXCEPT !.pc = "sendPrompt", !.item = Item("submit", p)]
           /\ fate' = [fate EXCEPT ![p] = "queued"]
           /\ UNCHANGED answer
  /\ UNCHANGED <<sentOthers, sentInterrupts, closing, presses, early, turn,
                 nextQuestion, question, reply, queue, engineVars, tokenVars,
                 monitorVars, historyVars>>

SendPrompt ==
  /\ cmd.pc = "sendPrompt"
  /\ Send(cmd.item, "recv")
  /\ UNCHANGED <<sentVars, closing, lockVars, askVars, engineVars, tokenVars,
                 monitorVars, historyVars, fate>>

\* Shared::take_answer_to: a stale or unknown id answers nothing.
IsPending_Any(id) == answer # NoQuestion
IsPending(id) == answer = id

ReceiveAnswer(id) ==
  /\ cmd.pc = "recv"
  /\ \/ /\ IsPending(id)
        /\ answer' = NoQuestion
        /\ cmd' = [pc |-> "sendAnswer", item |-> Item("answer", id),
                   question |-> answer]
     \/ ~IsPending(id) /\ UNCHANGED <<answer, cmd>>
  /\ UNCHANGED <<sentVars, closing, lockVars, nextQuestion, question, reply,
                 queue, engineVars, tokenVars, monitorVars, historyVars, fate>>

\* answer.send after the lock was released: the asking thread may have given up.
SendAnswer ==
  /\ cmd.pc = "sendAnswer"
  /\ LET asking == pc \in {"waiting", "withdraw"} /\ question = cmd.question
     IN \/ /\ asking
           /\ reply' = cmd.item
           /\ UNCHANGED fate
        \/ /\ ~asking
           /\ fate' = IF cmd.item.kind = "submit"
                      THEN [fate EXCEPT ![cmd.item.id] = "lost"] ELSE fate
           /\ UNCHANGED reply
  /\ CommandTo("recv")
  /\ UNCHANGED <<sentVars, closing, lockVars, answer, nextQuestion, question,
                 queue, engineVars, tokenVars, monitorVars, historyVars>>

\* Commands that only queue: /login, /exit, and all the others.
ReceiveOther(kind) ==
  /\ cmd.pc = "recv" /\ sentOthers < MaxOthers
  /\ sentOthers' = sentOthers + 1
  /\ Send(Item(kind, 0), "recv")
  /\ UNCHANGED <<sentPrompts, sentInterrupts, closing, lockVars, askVars,
                 engineVars, tokenVars, monitorVars, historyVars, fate>>

\* Shutdown, or the UI dropped its sender.
ReceiveShutdown ==
  /\ cmd.pc = "recv"
  /\ closing' = TRUE
  /\ CommandTo("stopTurn")
  /\ UNCHANGED <<sentVars, lockVars, askVars, queue, engineVars, tokenVars,
                 monitorVars, historyVars, fate>>

ShutdownStopsTurn ==
  /\ cmd.pc = "stopTurn"
  /\ StopTurn
  /\ CommandTo("dropAnswer")
  /\ UNCHANGED <<sentVars, closing, lockVars, askVars, queue, engineVars,
                 monitorVars, historyVars, fate>>

ShutdownDropsAnswer ==
  /\ cmd.pc = "dropAnswer"
  /\ IF answer # NoQuestion
     THEN answer' = NoQuestion /\ reply' = Item("closed", 0)
     ELSE UNCHANGED <<answer, reply>>
  /\ CommandTo("sendShutdown")
  /\ UNCHANGED <<sentVars, closing, lockVars, nextQuestion, question, queue,
                 engineVars, tokenVars, monitorVars, historyVars, fate>>

SendShutdown ==
  /\ cmd.pc = "sendShutdown"
  /\ Send(Item("shutdown", 0), "done")
  /\ UNCHANGED <<sentVars, closing, lockVars, askVars, engineVars, tokenVars,
                 monitorVars, historyVars, fate>>

-----------------------------------------------------------------------------
(* The engine thread: serve and handle *)

To(next) == pc' = next /\ UNCHANGED <<stage, cur>>

\* serve's end of a command; the signed-out stage does not look at force_quit.
AfterCommand ==
  pc' = IF stage = "ready" /\ forceQuit THEN "done" ELSE "idle"

\* queue.recv and the closing check: what is queued behind a shutdown is dropped.
Take ==
  /\ pc = "idle" /\ queue # <<>>
  /\ queue' = Tail(queue)
  /\ LET kind == Head(queue).kind IN
     \/ /\ closing \/ kind \in {"shutdown", "exit"}
        /\ To("done")
     \/ /\ ~closing /\ kind = "submit"
        /\ pc' = "take" /\ cur' = Head(queue).id /\ UNCHANGED stage
     \/ /\ ~closing /\ kind = "login"
        /\ pc' = "watch" /\ cur' = SignIn /\ UNCHANGED stage
     \/ /\ ~closing /\ kind = "other"
        /\ AfterCommand /\ UNCHANGED <<stage, cur>>
  /\ cancelled' = IF pc' = "watch" THEN cancelled \ {SignIn} ELSE cancelled
  /\ aborted' = IF pc' = "watch" THEN aborted \ {SignIn} ELSE aborted
  /\ UNCHANGED <<cmdVars, closing, lockVars, askVars, monitorVars, historyVars,
                 fate>>

\* SignedOut::serve refuses a prompt: prompt_dropped.
RefusePrompt ==
  /\ pc = "take" /\ stage = "signedOut"
  /\ queuedPrompts' = Saturating(queuedPrompts)
  /\ early' = FALSE
  /\ fate' = [fate EXCEPT ![cur] = "ended"]
  /\ To("finish")
  /\ UNCHANGED <<cmdVars, closing, presses, turn, askVars, queue, tokenVars,
                 monitorVars, historyVars>>

\* RunningTurn::for_prompt: the prompt's turn owns the presses from here on.
ForPrompt ==
  /\ pc = "take" /\ stage = "ready"
  /\ queuedPrompts' = Saturating(queuedPrompts)
  /\ presses' = cur
  /\ permit' = IF early THEN permit \cup {cur} ELSE permit
  /\ fate' = [fate EXCEPT ![cur] = "running"]
  /\ To("prepare")
  /\ UNCHANGED <<cmdVars, closing, early, turn, askVars, queue, tokenVars,
                 monitor, stopping, seen, forceQuit, historyVars>>

\* submit: an empty prompt ends at once, prepare_turn_runtime_watching may fail, and
\* building the runtime may panic; else the monitor starts.
Prepare ==
  /\ pc = "prepare"
  /\ \/ To("drop") /\ UNCHANGED monitor
     \/ To("watch") /\ monitor' = [monitor EXCEPT ![cur] = "polling"]
  /\ UNCHANGED <<cmdVars, closing, lockVars, askVars, queue, tokenVars, permit,
                 stopping, seen, forceQuit, historyVars, fate>>

\* An interrupt came before the prompt's cancellation was installed.
PressedEarly_Forgotten == FALSE
PressedEarly == cur \in Prompts /\ early

\* RunningTurn::watch, under the interrupts lock.
Watch ==
  /\ pc = "watch"
  /\ turn' = cur
  /\ IF PressedEarly
     THEN /\ early' = FALSE
          /\ cancelled' = cancelled \cup {cur} /\ aborted' = aborted \cup {cur}
     ELSE UNCHANGED <<early, tokenVars>>
  /\ To("recheck")
  /\ UNCHANGED <<cmdVars, closing, presses, queuedPrompts, askVars, queue,
                 monitorVars, historyVars, fate>>

\* watch's second half: a shutdown that came before the turn could be reached.
Recheck_Skipped ==
  /\ pc = "recheck" /\ To("running")
  /\ UNCHANGED <<cmdVars, closing, lockVars, askVars, queue, tokenVars, monitorVars,
                 historyVars, fate>>
Recheck ==
  /\ pc = "recheck"
  /\ IF closing THEN StopTurn ELSE UNCHANGED tokenVars
  /\ To("running")
  /\ UNCHANGED <<cmdVars, closing, lockVars, askVars, queue, monitorVars,
                 historyVars, fate>>

\* The turn (or the sign-in) ends by itself; a sign-in that succeeded while signed
\* out starts the session, if it can be opened.
Completes ==
  /\ pc = "running"
  /\ \/ cur \in Prompts /\ pc' = "ended" /\ stopping' = stopping \cup {cur}
        /\ UNCHANGED stage
     \/ cur = SignIn /\ pc' = "drop" /\ stage' \in {stage, "ready"}
        /\ UNCHANGED stopping
  /\ UNCHANGED <<cmdVars, closing, lockVars, askVars, queue, cur, tokenVars,
                 monitor, permit, seen, forceQuit, historyVars, fate>>

\* The turn (or the sign-in) sees its cancelled token.
Stops ==
  /\ pc = "running" /\ cur \in cancelled
  /\ \/ cur \in Prompts /\ To("ended") /\ stopping' = stopping \cup {cur}
     \/ cur = SignIn /\ To("drop") /\ UNCHANGED stopping
  /\ UNCHANGED <<cmdVars, closing, lockVars, askVars, queue, tokenVars, monitor,
                 permit, seen, forceQuit, historyVars, fate>>

\* serve catches a panic in the turn: unwinding tells the monitor to stop, without
\* waiting for it, and drops the RunningTurn.
Panics ==
  /\ pc = "running" /\ cur \in Prompts
  /\ To("drop") /\ stopping' = stopping \cup {cur}
  /\ UNCHANGED <<cmdVars, closing, lockVars, askVars, queue, tokenVars, monitor,
                 permit, seen, forceQuit, historyVars, fate>>

\* HookAbortMonitor::stop: waits for the monitor thread.
JoinMonitor ==
  /\ pc = "ended" /\ monitor[cur] = "done"
  /\ To("drop")
  /\ UNCHANGED <<cmdVars, closing, lockVars, askVars, queue, tokenVars,
                 monitorVars, historyVars, fate>>

\* RunningTurn::drop.
DropRunning ==
  /\ pc = "drop"
  /\ turn' = NoTurn
  /\ IF cur \in Prompts
     THEN /\ presses' = NoTurn /\ early' = FALSE
          /\ fate' = [fate EXCEPT ![cur] = "ended"]
     ELSE UNCHANGED <<presses, early, fate>>
  /\ To("finish")
  /\ UNCHANGED <<cmdVars, closing, queuedPrompts, askVars, queue, tokenVars,
                 monitorVars, historyVars>>

\* finish_turn: TurnFinished.
Finish ==
  /\ pc = "finish"
  /\ fate' = IF cur \in Prompts THEN [fate EXCEPT ![cur] = "finished"] ELSE fate
  /\ cur' = NoTurn
  /\ AfterCommand
  /\ UNCHANGED <<cmdVars, closing, lockVars, askVars, queue, stage, tokenVars,
                 monitorVars, historyVars>>

-----------------------------------------------------------------------------
(* ask_the_ui, on the engine thread during a turn *)

\* The turn calls the tool, having just seen its token uncancelled.
CallTool ==
  /\ pc = "running" /\ cur \in Prompts \ cancelled /\ nextQuestion < MaxQuestions
  /\ To("calling")
  /\ UNCHANGED <<cmdVars, closing, lockVars, askVars, queue, tokenVars, monitorVars,
                 historyVars, fate>>

Ask ==
  /\ pc = "calling"
  /\ question' = nextQuestion /\ answer' = nextQuestion
  /\ nextQuestion' = nextQuestion + 1
  /\ reply' = NoItem
  /\ To("waiting")
  /\ UNCHANGED <<cmdVars, closing, lockVars, queue, tokenVars, monitorVars,
                 historyVars, fate>>

\* recv_timeout returns the answer, or that its sender is gone.
Answered ==
  /\ pc = "waiting" /\ reply # NoItem
  /\ fate' = IF reply.kind = "submit"
             THEN [fate EXCEPT ![reply.id] = "answered"] ELSE fate
  /\ question' = NoQuestion
  /\ To("running")
  /\ UNCHANGED <<cmdVars, closing, lockVars, answer, nextQuestion, reply, queue,
                 tokenVars, monitorVars, historyVars>>

\* recv_timeout timed out with the turn cancelled, or the session closing.
GiveUp ==
  /\ pc = "waiting" /\ reply = NoItem
  /\ TurnCancelled \/ closing
  /\ To("withdraw")
  /\ UNCHANGED <<cmdVars, closing, lockVars, askVars, queue, tokenVars,
                 monitorVars, historyVars, fate>>

\* withdraw: only its own question.
Withdrawn_Forgotten == answer
Withdrawn == IF IsPending(question) THEN NoQuestion ELSE answer

\* ask_the_ui gives up; an answer that came since is dropped unread.
Withdraw ==
  /\ pc = "withdraw"
  /\ answer' = Withdrawn
  /\ question' = NoQuestion
  /\ fate' = IF reply.kind = "submit"
             THEN [fate EXCEPT ![reply.id] = "lost"] ELSE fate
  /\ To("running")
  /\ UNCHANGED <<cmdVars, closing, lockVars, nextQuestion, reply, queue,
                 tokenVars, monitorVars, historyVars>>

-----------------------------------------------------------------------------
(* watch_turn_interrupts, one thread per prompt's turn. Its select is biased: a  *)
(* press that was kept counts before the stop.                                   *)

MonitorPoll_Unbiased(p) ==
  /\ monitor[p] = "polling"
  /\ monitor' = [monitor EXCEPT ![p] = IF p \in stopping THEN "done" ELSE "waiting"]
  /\ UNCHANGED <<cmdVars, closing, lockVars, askVars, queue, engineVars, tokenVars,
                 permit, stopping, seen, forceQuit, historyVars, fate>>
MonitorPoll(p) ==
  /\ monitor[p] = "polling" /\ p \notin permit
  /\ monitor' = [monitor EXCEPT ![p] = IF p \in stopping THEN "done" ELSE "waiting"]
  /\ UNCHANGED <<cmdVars, closing, lockVars, askVars, queue, engineVars,
                 tokenVars, permit, stopping, seen, forceQuit, historyVars, fate>>

\* A press, fed through handle_turn_interrupt: the first cancels and aborts, a later
\* one also asks to quit.
MonitorPress(p) ==
  /\ \/ monitor[p] = "polling" /\ p \in permit /\ permit' = permit \ {p}
     \/ monitor[p] = "woken" /\ UNCHANGED permit
  /\ monitor' = [monitor EXCEPT ![p] = "polling"]
  /\ cancelled' = cancelled \cup {p}
  /\ \/ /\ seen[p] = 0
        /\ seen' = [seen EXCEPT ![p] = 1]
        /\ aborted' = aborted \cup {p}
        /\ UNCHANGED forceQuit
     \/ /\ seen[p] > 0
        /\ forceQuit' = TRUE
        /\ UNCHANGED <<seen, aborted>>
  /\ UNCHANGED <<cmdVars, closing, lockVars, askVars, queue, engineVars, stopping,
                 historyVars, fate>>

MonitorStop(p) ==
  /\ monitor[p] = "waiting" /\ p \in stopping
  /\ monitor' = [monitor EXCEPT ![p] = "done"]
  /\ UNCHANGED <<cmdVars, closing, lockVars, askVars, queue, engineVars,
                 tokenVars, permit, stopping, seen, forceQuit, historyVars, fate>>

-----------------------------------------------------------------------------
(* Both threads returned. *)
Terminated ==
  /\ pc = "done" /\ cmd.pc = "done"
  /\ UNCHANGED vars

\* The user's commands, and what the model or the code under it does by itself.
Environment ==
  \/ ReceiveInterrupt \/ ReceiveSubmit \/ ReceiveShutdown
  \/ \E id \in Questions : ReceiveAnswer(id)
  \/ \E kind \in {"login", "other", "exit"} : ReceiveOther(kind)
  \/ Completes \/ Panics \/ CallTool

CommandThread ==
  SendPrompt \/ SendAnswer \/ ShutdownStopsTurn \/ ShutdownDropsAnswer \/ SendShutdown

EngineThread ==
  \/ Take \/ RefusePrompt \/ ForPrompt \/ Prepare \/ Watch \/ Recheck \/ Stops
  \/ JoinMonitor \/ DropRunning \/ Finish
  \/ Ask \/ Answered \/ GiveUp \/ Withdraw

Monitor(p) == MonitorPoll(p) \/ MonitorPress(p) \/ MonitorStop(p)

Next ==
  \/ Environment \/ CommandThread \/ EngineThread
  \/ \E p \in Prompts : Monitor(p)
  \/ Terminated

\* The scheduler runs every thread; a cancelled stream, tool or sign-in returns; the
\* user, the model and a panic owe nothing.
Fairness ==
  /\ WF_vars(CommandThread)
  /\ WF_vars(EngineThread)
  /\ \A p \in Prompts : WF_vars(Monitor(p))

Spec == Init /\ [][Next]_vars
FairSpec == Spec /\ Fairness
-----------------------------------------------------------------------------
(* Safety *)

TypeOK ==
  /\ cmd \in [pc : CommandPC, item : Items, question : Questions \cup {NoQuestion}]
  /\ closing \in BOOLEAN
  /\ presses \in Prompts \cup {NoTurn}
  /\ queuedPrompts \in Nat /\ early \in BOOLEAN
  /\ turn \in Tokens \cup {NoTurn}
  /\ answer \in Questions \cup {NoQuestion}
  /\ nextQuestion \in 0..MaxQuestions
  /\ queue \in Seq(Items)
  /\ stage \in {"signedOut", "ready"} /\ pc \in EnginePC
  /\ cur \in Tokens \cup {NoTurn}
  /\ question \in Questions \cup {NoQuestion} /\ reply \in Items
  /\ cancelled \subseteq Tokens /\ aborted \subseteq Tokens
  /\ monitor \in [Prompts -> MonitorState]
  /\ permit \subseteq Prompts /\ stopping \subseteq Prompts
  /\ seen \in [Prompts -> 0..1] /\ forceQuit \in BOOLEAN
  /\ fate \in [Prompts -> Fates]
  /\ pressed \in [Prompts -> 0..2] /\ interrupted \subseteq Prompts
  /\ sentPrompts \in 0..MaxPrompts /\ sentOthers \in 0..MaxOthers
  /\ sentInterrupts \in 0..MaxInterrupts

InTurn == {"running", "calling", "waiting", "withdraw"}

\* An interrupted prompt never sends its first request, nor goes on: once its turn
\* runs, its token is cancelled, whenever the interrupt came (queued, being readied,
\* between for_prompt and watch, or during the turn). Its hooks are aborted too before the
\* monitor is gone, also when the turn ended before the monitor got to the press.
InterruptReachesItsTurn ==
  /\ pc \in InTurn /\ cur \in Prompts /\ pressed[cur] > 0
       => cur \in cancelled
  /\ pc = "drop" /\ cur \in Prompts /\ monitor[cur] = "done" /\ pressed[cur] > 0
       => cur \in aborted

\* Interrupts.early and kept presses never leak: without a shutdown, a prompt's token
\* is cancelled only by an interrupt meant for that prompt, and no interrupt is kept
\* without a prompt to cancel.
InterruptReachesNoOther ==
  /\ ~closing => cancelled \cap Prompts \subseteq interrupted
  /\ early => presses # NoTurn \/ Waiting # {}

\* Shutdown and watch cannot miss each other: after stop_turn no turn runs uncancelled.
ShutdownReachesTurn ==
  cmd.pc \in {"dropAnswer", "sendShutdown", "done"} /\ closing
    /\ pc \in InTurn
    => cur \in cancelled /\ cur \in aborted

\* Every answered question got its own answer: an Answer with another question's id
\* never reaches the channel the agent reads.
AnswersAreForTheirQuestion ==
  pc = "waiting" /\ reply.kind = "answer" => reply.id = question

\* A pending question has an asker: none is left behind to swallow a later prompt.
PendingQuestionHasAsker ==
  answer # NoQuestion => pc \in {"waiting", "withdraw"} /\ question = answer

\* What EngineExit::ForceQuit promises: a second interrupt during a turn quits.
SecondInterruptQuits ==
  pc = "ended" /\ monitor[cur] = "done" /\ pressed[cur] = 2 => forceQuit

\* What the module's documentation promises of a Submit: a turn, or the answer to the
\* waiting question, unless the session closes.
NoSubmitLost ==
  ~closing => \A p \in Prompts : fate[p] # "lost"

-----------------------------------------------------------------------------
(* Refinement *)

Ledger == INSTANCE PromptLedger

\* Prompts run in order, one at a time, each ends once; only a running turn's
\* question takes a text as its answer (PromptLedger).
LedgerSpec == Ledger!Spec

-----------------------------------------------------------------------------
(* Liveness *)

\* An interrupted turn ends with its TurnFinished, waiting question or not.
InterruptedTurnFinishes ==
  \A p \in Prompts :
    fate[p] = "running" /\ pressed[p] > 0 ~> fate[p] = "finished"

\* EngineHandle::finish: a shutdown at any moment ends the engine thread.
ShutdownStopsEngine == closing ~> pc = "done" /\ cmd.pc = "done"
=============================================================================
