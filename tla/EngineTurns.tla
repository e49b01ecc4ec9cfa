--------------------------- MODULE EngineTurns ---------------------------
(* Engine with the turn loop in it. In Engine a running turn ends by itself, calls the   *)
(* question tool, or stops at its token, whenever it likes; here it does what TurnLoop   *)
(* does, on the engine thread, and shares its token with the command thread and the      *)
(* monitors (engine.rs, run_turn). A panic in a turn is left to Engine.                  *)
EXTENDS Engine

CONSTANTS CallIds, Signatures, CallLists, Texts, Threshold, MaxIterations,
          MaxTurns, MaxCompactions, MaxFailures, MaxCrashes

\* TurnLoop's assumptions on them.
ASSUME LoopAssumption ==
  /\ CallLists \subseteq Seq([id : CallIds, sig : Signatures]) /\ <<>> \in CallLists
  /\ Texts \subseteq {"none", "blank", "some"}
  /\ Threshold \in Nat \ {0} /\ MaxIterations \in Nat
  /\ MaxTurns \in Nat /\ MaxCompactions \in Nat /\ MaxFailures \in Nat /\ MaxCrashes \in Nat

VARIABLES transcript, file, loopPc, loopCancelled, iterations, recovered, continued,
          nudged, checked, edited, guard, pending, truncated, outcome, executed,
          turns, compactions, failures, crashes,
          ranFor,     \* the prompt the loop last ran for
          asking      \* the call the loop executes asked the user

Loop == INSTANCE TurnLoop WITH pc <- loopPc, cancelled <- loopCancelled

loopVars == <<transcript, file, loopPc, loopCancelled, iterations, recovered, continued,
              nudged, checked, edited, guard, pending, truncated, outcome, executed,
              turns, compactions, failures, crashes>>
turnsVars == <<vars, loopVars, ranFor, asking>>

TurnsInit == Init /\ Loop!Init /\ ranFor = NoTurn /\ asking = FALSE

-----------------------------------------------------------------------------
(* Engine::run_turn *)

\* The runtime's token is the one RunningTurn::watch was given.
Token == cur \in cancelled

InLoop == pc = "running" /\ cur \in Prompts /\ ranFor = cur

\* The runtime's run_turn is called, once watch returned.
LoopStarts ==
  /\ pc = "running" /\ cur \in Prompts /\ ranFor # cur
  /\ Loop!StartTurn
  /\ ranFor' = cur
  /\ UNCHANGED <<vars, asking>>

\* The token is shared: whoever cancels it, the loop's next check sees it. A tool that
\* runs is not stopped by it: its result comes first.
LoopSeesToken ==
  /\ InLoop /\ Token /\ ~asking
  /\ Loop!Interrupt
  /\ UNCHANGED <<vars, ranFor, asking>>

\* A step of the loop that looks at the token sees it as it is.
Polls == {"loop", "stream", "reply", "calls", "execute"}
LoopStep ==
  /\ InLoop /\ loopPc # "save"
  /\ loopPc \in Polls /\ ~asking => loopCancelled = Token
  /\ Loop!Turn
  /\ asking' = FALSE
  /\ UNCHANGED <<vars, ranFor>>

\* The call it executes is AskUserQuestion, which asks once.
LoopAsks ==
  /\ InLoop /\ loopPc = "execute" /\ ~asking
  /\ CallTool
  /\ asking' = TRUE
  /\ UNCHANGED <<loopVars, ranFor>>

\* The loop is over, however it ended: monitor.stop comes next.
TurnReturns_KeepingMonitor ==
  /\ InLoop /\ loopPc = "save" /\ To("drop")
  /\ UNCHANGED <<cmdVars, closing, lockVars, askVars, queue, tokenVars, monitorVars,
                 historyVars, fate, loopVars, ranFor, asking>>
TurnReturns ==
  /\ InLoop /\ loopPc = "save"
  /\ Completes
  /\ UNCHANGED <<loopVars, ranFor, asking>>

\* persist, after the RunningTurn was dropped and before TurnFinished.
TurnIsSaved ==
  /\ pc = "finish" /\ loopPc = "save"
  /\ Loop!Save
  /\ UNCHANGED <<vars, ranFor, asking>>

\* The engine thread outside the loop.
OwnSteps ==
  \/ Take \/ RefusePrompt \/ ForPrompt \/ Prepare \/ Watch \/ Recheck
  \/ JoinMonitor \/ DropRunning
  \/ loopPc = "idle" /\ Finish
  \/ cur = SignIn /\ Stops
  \/ Ask \/ Answered \/ GiveUp \/ Withdraw

LoopAlone == UNCHANGED <<loopVars, ranFor, asking>>
EngineRuns ==
  \/ OwnSteps /\ LoopAlone
  \/ LoopStarts \/ LoopSeesToken \/ LoopStep \/ TurnReturns \/ TurnIsSaved

\* The user's commands, a sign-in that ends, and a question the model asks.
Others ==
  \/ ReceiveInterrupt \/ ReceiveSubmit \/ ReceiveShutdown
  \/ \E id \in Questions : ReceiveAnswer(id)
  \/ \E kind \in {"login", "other", "exit"} : ReceiveOther(kind)
  \/ cur = SignIn /\ Completes

TurnsNext ==
  \/ EngineRuns
  \/ LoopAsks
  \/ Others /\ LoopAlone
  \/ CommandThread /\ LoopAlone
  \/ \E p \in Prompts : Monitor(p) /\ LoopAlone
  \/ Terminated /\ LoopAlone

\* Every thread runs, and a stream, hook, approval or tool returns (TurnLoop); that a
\* cancelled turn stops is not assumed.
TurnsSpec ==
  /\ TurnsInit /\ [][TurnsNext]_turnsVars
  /\ WF_turnsVars(EngineRuns)
  /\ WF_turnsVars(CommandThread /\ LoopAlone)
  /\ \A p \in Prompts : WF_turnsVars(Monitor(p) /\ LoopAlone)

-----------------------------------------------------------------------------
(* Properties *)

\* What Engine assumes of a turn the loop keeps: it ends at its cancelled token, and calls
\* the question tool only before (Engine's Stops and CallTool, with their fairness).
ImplementsEngine == FairSpec

\* An interrupt the user sent before or during the turn reaches the loop: from then on
\* it sends no request, takes up no call, and runs none whose hook or approval was waiting
\* when the user pressed, the question tool included, whichever thread had to carry the
\* interrupt there. A question that was asked before may still be answered.
NothingStartsOnceInterrupted ==
  [][pc = "running" /\ cur \in Prompts /\ pressed[cur] > 0 =>
       /\ loopPc' = "stream" => loopPc = "stream"
       /\ loopPc' = "execute" => loopPc = "execute"
       /\ loopPc = "execute" /\ executed' # executed => asking
       /\ asking' => asking]_turnsVars

\* A prompt whose turn began is finished, and every turn of the loop ends, interrupted or
\* not, also when the model never stops calling tools, if the user does not leave a
\* question waiting.
PromptsFinish ==
  []<>(pc # "waiting") =>
    /\ \A p \in Prompts : fate[p] = "running" ~> fate[p] = "finished"
    /\ loopPc # "idle" ~> loopPc = "idle"
==========================================================================
