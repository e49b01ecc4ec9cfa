-------------------------- MODULE EngineProofs --------------------------
(* For any number of prompts, questions, other commands and interrupts: the    *)
(* types, what a shutdown and a waiting question rest on; every Submit goes      *)
(* through the ledger of PromptLedger, and an interrupt reaches the turn it was  *)
(* meant for and no other.                                                       *)
EXTENDS MCEngineTurns, ChannelLemmas, FiniteSetTheorems, TLAPS

-----------------------------------------------------------------------------
(* Types, by the threads' shared state *)

\* The command thread.
CommandTypes ==
  /\ cmd \in [pc : CommandPC, item : Items, question : Questions \cup {NoQuestion}]
  /\ cmd.item.kind = "submit" => cmd.item.id \in Prompts

CountTypes ==
  /\ sentPrompts \in 0..MaxPrompts /\ sentOthers \in 0..MaxOthers
  /\ sentInterrupts \in 0..MaxInterrupts

\* A queued Submit carries a prompt.
QueueTypes ==
  /\ queue \in Seq(Items)
  /\ \A k \in 1..Len(queue) : queue[k].kind = "submit" => queue[k].id \in Prompts

FlagTypes == closing \in BOOLEAN /\ early \in BOOLEAN /\ forceQuit \in BOOLEAN

LockTypes ==
  /\ presses \in Prompts \cup {NoTurn} /\ queuedPrompts \in Nat
  /\ turn \in Tokens \cup {NoTurn}

QuestionTypes ==
  /\ answer \in Questions \cup {NoQuestion} /\ nextQuestion \in 0..MaxQuestions
  /\ question \in Questions \cup {NoQuestion} /\ reply \in Items
  /\ pc = "calling" => nextQuestion < MaxQuestions

\* A turn is a prompt's or the sign-in's.
Busy == EnginePC \ {"idle", "done"}
ThreadTypes ==
  /\ stage \in {"signedOut", "ready"} /\ pc \in EnginePC
  /\ cur \in Tokens \cup {NoTurn}
  /\ pc \in Busy => cur \in Tokens
  /\ pc \in {"take", "prepare", "ended"} => cur \in Prompts

TokenTypes == cancelled \subseteq Tokens /\ aborted \subseteq Tokens

MonitorTypes ==
  /\ monitor \in [Prompts -> MonitorState]
  /\ permit \subseteq Prompts /\ stopping \subseteq Prompts
  /\ seen \in [Prompts -> 0..1]

HistoryTypes ==
  /\ fate \in [Prompts -> Fates]
  /\ pressed \in [Prompts -> 0..2] /\ interrupted \subseteq Prompts

TypeInv ==
  /\ CommandTypes /\ CountTypes /\ QueueTypes /\ FlagTypes /\ LockTypes
  /\ QuestionTypes /\ ThreadTypes /\ TokenTypes /\ MonitorTypes /\ HistoryTypes

\* What a send does to the queue's types, and to the command thread's.
LEMMA SendKeepsTypes ==
  ASSUME NEW item \in Items, NEW next \in CommandPC \ {"sendPrompt"},
         QueueTypes, CommandTypes, Send(item, next),
         item.kind = "submit" => item.id \in Prompts
  PROVE  QueueTypes' /\ CommandTypes'
<1>1. QueueTypes'
  <2>1. CASE pc = "done"
    BY <2>1 DEF Send, QueueTypes
  <2>2. CASE pc # "done"
    BY <2>2, LastAdded DEF Send, QueueTypes
  <2>3. QED
    BY <2>1, <2>2
<1>2. CommandTypes'
  BY DEF Send, CommandTo, CommandTypes, CommandPC
<1>3. QED
  BY <1>1, <1>2

\* The command thread holds an item of the queue and a question's sender.
LEMMA NextCommandTypes == TypeInv /\ [Next]_vars => CommandTypes'
<1> SUFFICES ASSUME TypeInv, [Next]_vars PROVE CommandTypes'
  OBVIOUS
<1> USE BoundsAssumption DEF TypeInv, CommandTypes, sentVars, cmdVars, lockVars,
  askVars, tokenVars, monitorVars, historyVars, engineVars, Prompts, NoTurn, SignIn,
  Tokens, NoQuestion, Questions, Item, NoItem, Items, EnginePC, CommandPC,
  MonitorState, Fates, Busy
<1>1. CASE ReceiveSubmit
  <2> DEFINE p == sentPrompts + 1
             held == Item("submit", p)
  <2>1. p \in Prompts
    BY <1>1 DEF ReceiveSubmit, CountTypes
  <2>2. held \in Items /\ held.id = p
    BY <2>1
  <2>3. CASE cmd' = [pc |-> "sendAnswer", item |-> held, question |-> answer]
    BY <2>1, <2>2, <2>3 DEF QuestionTypes
  <2>4. CASE cmd' = [cmd EXCEPT !.pc = "sendPrompt", !.item = held]
    BY <2>1, <2>2, <2>4
  <2>5. QED
    BY <1>1, <2>3, <2>4 DEF ReceiveSubmit
<1>2. CASE SendPrompt
  <2>1. cmd.item \in Items /\ (cmd.item.kind = "submit" => cmd.item.id \in Prompts)
    BY DEF CommandTypes
  <2>2. "recv" \in CommandPC \ {"sendPrompt"}
    OBVIOUS
  <2>3. Send(cmd.item, "recv")
    BY <1>2 DEF SendPrompt
  <2> HIDE DEF Item, Items, CommandPC
  <2>4. QED
    BY <2>1, <2>2, <2>3, SendKeepsTypes
<1>3. ASSUME NEW id \in Questions, ReceiveAnswer(id) PROVE CommandTypes'
  BY <1>3 DEF ReceiveAnswer, IsPending, CountTypes, QuestionTypes
<1>4. CASE SendAnswer
  BY <1>4 DEF SendAnswer, CommandTo, CountTypes, QuestionTypes
<1>5. ASSUME NEW kind \in {"login", "other", "exit"}, ReceiveOther(kind)
     PROVE CommandTypes'
  <2>1. Item(kind, 0) \in Items /\ Item(kind, 0).kind # "submit"
    OBVIOUS
  <2>2. "recv" \in CommandPC \ {"sendPrompt"}
    OBVIOUS
  <2>3. Send(Item(kind, 0), "recv")
    BY <1>5 DEF ReceiveOther
  <2> HIDE DEF Item, Items, CommandPC
  <2>4. QED
    BY <2>1, <2>2, <2>3, SendKeepsTypes
<1>6. CASE ReceiveShutdown
  BY <1>6 DEF ReceiveShutdown, CommandTo, CountTypes, QuestionTypes
<1>7. CASE ShutdownStopsTurn
  BY <1>7 DEF ShutdownStopsTurn, CommandTo, StopTurn, CountTypes, QuestionTypes
<1>8. CASE ShutdownDropsAnswer
  BY <1>8 DEF ShutdownDropsAnswer, CommandTo, CountTypes, QuestionTypes
<1>9. CASE SendShutdown
  <2>1. Item("shutdown", 0) \in Items /\ Item("shutdown", 0).kind # "submit"
    OBVIOUS
  <2>2. "done" \in CommandPC \ {"sendPrompt"}
    OBVIOUS
  <2>3. Send(Item("shutdown", 0), "done")
    BY <1>9 DEF SendShutdown
  <2> HIDE DEF Item, Items, CommandPC
  <2>4. QED
    BY <2>1, <2>2, <2>3, SendKeepsTypes
<1>10. CASE UNCHANGED cmd
  BY <1>10
<1> HIDE DEF TypeInv, CommandTypes
<1>11. QED
  BY <1>1, <1>2, <1>3, <1>4, <1>5, <1>6, <1>7, <1>8, <1>9, <1>10 DEF Next,
    Environment, CommandThread, EngineThread, Monitor, Terminated, vars,
    ReceiveInterrupt, Take, To, RefusePrompt, ForPrompt, Prepare, Watch, Recheck,
    Completes, Stops, Panics, JoinMonitor, DropRunning, Finish, CallTool, Ask,
    Answered, GiveUp, Withdraw, MonitorPoll, MonitorPress, MonitorStop

\* The bounds on the user's commands.
LEMMA NextCountTypes == TypeInv /\ [Next]_vars => CountTypes'
<1> SUFFICES ASSUME TypeInv, [Next]_vars PROVE CountTypes'
  OBVIOUS
<1> USE BoundsAssumption DEF TypeInv, CountTypes, sentVars, cmdVars, lockVars,
  askVars, tokenVars, monitorVars, historyVars, engineVars, Prompts, NoTurn, SignIn,
  Tokens, NoQuestion, Questions, Item, NoItem, Items, EnginePC, CommandPC,
  MonitorState, Fates, Busy
<1>1. CASE ReceiveInterrupt
  BY <1>1 DEF ReceiveInterrupt, Interrupt, PromptIsComing, Press, Meant, Running,
    Waiting, Oldest
<1>2. CASE ReceiveSubmit
  BY <1>2 DEF ReceiveSubmit
<1>3. ASSUME NEW kind \in {"login", "other", "exit"}, ReceiveOther(kind) PROVE CountTypes'
  BY <1>3 DEF ReceiveOther, Send, CommandTo
<1>4. CASE UNCHANGED sentVars
  BY <1>4
<1> HIDE DEF TypeInv, CountTypes
<1>5. QED
  BY <1>1, <1>2, <1>3, <1>4 DEF Next, Environment, CommandThread, EngineThread,
    Monitor, Terminated, vars, SendPrompt, Send, CommandTo, SendAnswer,
    ReceiveShutdown, ShutdownStopsTurn, ShutdownDropsAnswer, SendShutdown, Take, To,
    RefusePrompt, ForPrompt, Prepare, Watch, Recheck, Completes, Stops, Panics,
    JoinMonitor, DropRunning, Finish, CallTool, Ask, Answered, GiveUp, Withdraw,
    ReceiveAnswer, MonitorPoll, MonitorPress, MonitorStop

\* The queue holds items, and every Submit in it names its prompt.
LEMMA NextQueueTypes == TypeInv /\ [Next]_vars => QueueTypes'
<1> SUFFICES ASSUME TypeInv, [Next]_vars PROVE QueueTypes'
  OBVIOUS
<1> USE BoundsAssumption DEF TypeInv, QueueTypes, sentVars, cmdVars, lockVars,
  askVars, tokenVars, monitorVars, historyVars, engineVars, Prompts, NoTurn, SignIn,
  Tokens, NoQuestion, Questions, Item, NoItem, Items, EnginePC, CommandPC,
  MonitorState, Fates, Busy
<1>1. CASE SendPrompt
  <2>1. cmd.item \in Items /\ (cmd.item.kind = "submit" => cmd.item.id \in Prompts)
    BY DEF CommandTypes
  <2>2. "recv" \in CommandPC \ {"sendPrompt"}
    OBVIOUS
  <2>3. Send(cmd.item, "recv")
    BY <1>1 DEF SendPrompt
  <2> HIDE DEF Item, Items, CommandPC
  <2>4. QED
    BY <2>1, <2>2, <2>3, SendKeepsTypes
<1>2. ASSUME NEW kind \in {"login", "other", "exit"}, ReceiveOther(kind)
     PROVE QueueTypes'
  <2>1. Item(kind, 0) \in Items /\ Item(kind, 0).kind # "submit"
    OBVIOUS
  <2>2. "recv" \in CommandPC \ {"sendPrompt"}
    OBVIOUS
  <2>3. Send(Item(kind, 0), "recv")
    BY <1>2 DEF ReceiveOther
  <2> HIDE DEF Item, Items, CommandPC
  <2>4. QED
    BY <2>1, <2>2, <2>3, SendKeepsTypes
<1>3. CASE SendShutdown
  <2>1. Item("shutdown", 0) \in Items /\ Item("shutdown", 0).kind # "submit"
    OBVIOUS
  <2>2. "done" \in CommandPC \ {"sendPrompt"}
    OBVIOUS
  <2>3. Send(Item("shutdown", 0), "done")
    BY <1>3 DEF SendShutdown
  <2> HIDE DEF Item, Items, CommandPC
  <2>4. QED
    BY <2>1, <2>2, <2>3, SendKeepsTypes
<1>4. CASE Take
  BY <1>4, FirstTaken DEF Take
<1>5. CASE UNCHANGED queue
  BY <1>5
<1> HIDE DEF TypeInv, QueueTypes
<1>6. QED
  BY <1>1, <1>2, <1>3, <1>4, <1>5 DEF Next, Environment, CommandThread,
    EngineThread, Monitor, Terminated, vars, ReceiveInterrupt, ReceiveSubmit,
    SendAnswer, CommandTo, ReceiveShutdown, ShutdownStopsTurn, ShutdownDropsAnswer,
    RefusePrompt, To, ForPrompt, Prepare, Watch, Recheck, Completes, Stops, Panics,
    JoinMonitor, DropRunning, Finish, CallTool, Ask, Answered, GiveUp, Withdraw,
    ReceiveAnswer, MonitorPoll, MonitorPress, MonitorStop

\* The flags stay flags.
LEMMA NextFlagTypes == TypeInv /\ [Next]_vars => FlagTypes'
<1> SUFFICES ASSUME TypeInv, [Next]_vars PROVE FlagTypes'
  OBVIOUS
<1> USE BoundsAssumption DEF TypeInv, FlagTypes, sentVars, cmdVars, lockVars,
  askVars, tokenVars, monitorVars, historyVars, engineVars, Prompts, NoTurn, SignIn,
  Tokens, NoQuestion, Questions, Item, NoItem, Items, EnginePC, CommandPC,
  MonitorState, Fates, Busy
<1>1. CASE ReceiveInterrupt
  BY <1>1 DEF ReceiveInterrupt, Interrupt, PromptIsComing, Press, Meant, Running,
    Waiting, Oldest
<1>2. CASE ReceiveShutdown
  BY <1>2 DEF ReceiveShutdown, CommandTo
<1>3. CASE RefusePrompt
  BY <1>3 DEF RefusePrompt, To, Saturating
<1>4. CASE Watch
  BY <1>4 DEF Watch, To, PressedEarly
<1>5. CASE DropRunning
  BY <1>5 DEF DropRunning, To
<1>6. ASSUME NEW p \in Prompts, MonitorPress(p) PROVE FlagTypes'
  BY <1>6 DEF MonitorPress
<1>7. CASE UNCHANGED <<closing, early, forceQuit>>
  BY <1>7
<1> HIDE DEF TypeInv, FlagTypes
<1>8. QED
  BY <1>1, <1>2, <1>3, <1>4, <1>5, <1>6, <1>7 DEF Next, Environment, CommandThread,
    EngineThread, Monitor, Terminated, vars, ReceiveSubmit, SendPrompt, Send,
    CommandTo, SendAnswer, ShutdownStopsTurn, ShutdownDropsAnswer, SendShutdown,
    Take, To, ForPrompt, Prepare, Recheck, Completes, Stops, Panics, JoinMonitor,
    Finish, CallTool, Ask, Answered, GiveUp, Withdraw, ReceiveAnswer, ReceiveOther,
    MonitorPoll, MonitorStop

\* What the two locks guard names a turn of the session.
LEMMA NextLockTypes == TypeInv /\ [Next]_vars => LockTypes'
<1> SUFFICES ASSUME TypeInv, [Next]_vars PROVE LockTypes'
  OBVIOUS
<1> USE BoundsAssumption DEF TypeInv, LockTypes, sentVars, cmdVars, lockVars,
  askVars, tokenVars, monitorVars, historyVars, engineVars, Prompts, NoTurn, SignIn,
  Tokens, NoQuestion, Questions, Item, NoItem, Items, EnginePC, CommandPC,
  MonitorState, Fates, Busy
<1>1. CASE ReceiveSubmit
  BY <1>1 DEF ReceiveSubmit, ThreadTypes
<1>2. CASE RefusePrompt
  BY <1>2 DEF RefusePrompt, To, Saturating, ThreadTypes
<1>3. CASE ForPrompt
  BY <1>3 DEF ForPrompt, To, Saturating, ThreadTypes
<1>4. CASE Watch
  BY <1>4 DEF Watch, To, PressedEarly, ThreadTypes
<1>5. CASE DropRunning
  BY <1>5 DEF DropRunning, To, ThreadTypes
<1>6. CASE UNCHANGED <<presses, queuedPrompts, turn>>
  BY <1>6
<1> HIDE DEF TypeInv, LockTypes
<1>7. QED
  BY <1>1, <1>2, <1>3, <1>4, <1>5, <1>6 DEF Next, Environment, CommandThread,
    EngineThread, Monitor, Terminated, vars, ReceiveInterrupt, SendPrompt, Send,
    CommandTo, SendAnswer, ReceiveShutdown, ShutdownStopsTurn, ShutdownDropsAnswer,
    SendShutdown, Take, To, Prepare, Recheck, Completes, Stops, Panics, JoinMonitor,
    Finish, CallTool, Ask, Answered, GiveUp, Withdraw, ReceiveAnswer, ReceiveOther,
    MonitorPoll, MonitorPress, MonitorStop

\* Questions are numbered below the bound.
LEMMA NextQuestionTypes == TypeInv /\ [Next]_vars => QuestionTypes'
<1> SUFFICES ASSUME TypeInv, [Next]_vars PROVE QuestionTypes'
  OBVIOUS
<1> USE BoundsAssumption DEF TypeInv, QuestionTypes, sentVars, cmdVars, lockVars,
  askVars, tokenVars, monitorVars, historyVars, engineVars, Prompts, NoTurn, SignIn,
  Tokens, NoQuestion, Questions, Item, NoItem, Items, EnginePC, CommandPC,
  MonitorState, Fates, Busy
<1>1. CASE ReceiveSubmit
  BY <1>1 DEF ReceiveSubmit, CommandTypes, QueueTypes, ThreadTypes
<1>2. ASSUME NEW id \in Questions, ReceiveAnswer(id) PROVE QuestionTypes'
  BY <1>2 DEF ReceiveAnswer, IsPending, CommandTypes, QueueTypes, ThreadTypes
<1>3. CASE SendAnswer
  BY <1>3 DEF SendAnswer, CommandTo, CommandTypes, QueueTypes, ThreadTypes
<1>4. CASE ShutdownDropsAnswer
  BY <1>4 DEF ShutdownDropsAnswer, CommandTo, CommandTypes, QueueTypes, ThreadTypes
<1>5. CASE Take
  BY <1>5 DEF Take, AfterCommand, To, CommandTypes, QueueTypes, ThreadTypes
<1>6. CASE RefusePrompt
  BY <1>6 DEF RefusePrompt, To, Saturating, CommandTypes, QueueTypes, ThreadTypes
<1>7. CASE ForPrompt
  BY <1>7 DEF ForPrompt, To, Saturating, CommandTypes, QueueTypes, ThreadTypes
<1>8. CASE Prepare
  BY <1>8 DEF Prepare, To, CommandTypes, QueueTypes, ThreadTypes
<1>9. CASE Watch
  BY <1>9 DEF Watch, To, PressedEarly, CommandTypes, QueueTypes, ThreadTypes
<1>10. CASE Recheck
  BY <1>10 DEF Recheck, To, StopTurn, CommandTypes, QueueTypes, ThreadTypes
<1>11. CASE Completes
  BY <1>11 DEF Completes, CommandTypes, QueueTypes, ThreadTypes
<1>12. CASE Stops
  BY <1>12 DEF Stops, To, CommandTypes, QueueTypes, ThreadTypes
<1>13. CASE Panics
  BY <1>13 DEF Panics, To, CommandTypes, QueueTypes, ThreadTypes
<1>14. CASE JoinMonitor
  BY <1>14 DEF JoinMonitor, To, CommandTypes, QueueTypes, ThreadTypes
<1>15. CASE DropRunning
  BY <1>15 DEF DropRunning, To, CommandTypes, QueueTypes, ThreadTypes
<1>16. CASE Finish
  BY <1>16 DEF Finish, AfterCommand, CommandTypes, QueueTypes, ThreadTypes
<1>17. CASE CallTool
  BY <1>17 DEF CallTool, To, CommandTypes, QueueTypes, ThreadTypes
<1>18. CASE Ask
  BY <1>18 DEF Ask, To, CommandTypes, QueueTypes, ThreadTypes
<1>19. CASE Answered
  BY <1>19 DEF Answered, To, CommandTypes, QueueTypes, ThreadTypes
<1>20. CASE GiveUp
  BY <1>20 DEF GiveUp, To, TurnCancelled, CommandTypes, QueueTypes, ThreadTypes
<1>21. CASE Withdraw
  BY <1>21 DEF Withdraw, To, Withdrawn, IsPending, CommandTypes, QueueTypes,
    ThreadTypes
<1>22. CASE UNCHANGED <<answer, nextQuestion, question, reply, pc>>
  BY <1>22
<1> HIDE DEF TypeInv, QuestionTypes
<1>23. QED
  BY <1>1, <1>2, <1>3, <1>4, <1>5, <1>6, <1>7, <1>8, <1>9, <1>10, <1>11, <1>12,
    <1>13, <1>14, <1>15, <1>16, <1>17, <1>18, <1>19, <1>20, <1>21, <1>22 DEF Next,
    Environment, CommandThread, EngineThread, Monitor, Terminated, vars,
    ReceiveInterrupt, SendPrompt, Send, CommandTo, ReceiveShutdown,
    ShutdownStopsTurn, SendShutdown, ReceiveOther, MonitorPoll, MonitorPress,
    MonitorStop

\* The engine thread is busy with a turn, or idle.
LEMMA NextThreadTypes == TypeInv /\ [Next]_vars => ThreadTypes'
<1> SUFFICES ASSUME TypeInv, [Next]_vars PROVE ThreadTypes'
  OBVIOUS
<1> USE BoundsAssumption DEF TypeInv, ThreadTypes, sentVars, cmdVars, lockVars,
  askVars, tokenVars, monitorVars, historyVars, engineVars, Prompts, NoTurn, SignIn,
  Tokens, NoQuestion, Questions, Item, NoItem, Items, EnginePC, CommandPC,
  MonitorState, Fates, Busy
<1>1. CASE Take
  <2>1. Head(queue) \in Items /\ (Head(queue).kind = "submit" => Head(queue).id \in Prompts)
    BY <1>1, FirstTaken DEF Take, QueueTypes
  <2>2. QED
    BY <1>1, <2>1 DEF Take, AfterCommand, To
<1>2. CASE RefusePrompt
  BY <1>2 DEF RefusePrompt, To, Saturating, QueueTypes, CommandTypes
<1>3. CASE ForPrompt
  BY <1>3 DEF ForPrompt, To, Saturating, QueueTypes, CommandTypes
<1>4. CASE Prepare
  BY <1>4 DEF Prepare, To, QueueTypes, CommandTypes
<1>5. CASE Watch
  BY <1>5 DEF Watch, To, PressedEarly, QueueTypes, CommandTypes
<1>6. CASE Recheck
  BY <1>6 DEF Recheck, To, StopTurn, QueueTypes, CommandTypes
<1>7. CASE Completes
  BY <1>7 DEF Completes, QueueTypes, CommandTypes
<1>8. CASE Stops
  BY <1>8 DEF Stops, To, QueueTypes, CommandTypes
<1>9. CASE Panics
  BY <1>9 DEF Panics, To, QueueTypes, CommandTypes
<1>10. CASE JoinMonitor
  BY <1>10 DEF JoinMonitor, To, QueueTypes, CommandTypes
<1>11. CASE DropRunning
  BY <1>11 DEF DropRunning, To, QueueTypes, CommandTypes
<1>12. CASE Finish
  BY <1>12 DEF Finish, AfterCommand, QueueTypes, CommandTypes
<1>13. CASE CallTool
  BY <1>13 DEF CallTool, To, QueueTypes, CommandTypes
<1>14. CASE Ask
  BY <1>14 DEF Ask, To, QueueTypes, CommandTypes
<1>15. CASE Answered
  BY <1>15 DEF Answered, To, QueueTypes, CommandTypes
<1>16. CASE GiveUp
  BY <1>16 DEF GiveUp, To, TurnCancelled, QueueTypes, CommandTypes
<1>17. CASE Withdraw
  BY <1>17 DEF Withdraw, To, Withdrawn, IsPending, QueueTypes, CommandTypes
<1>18. CASE UNCHANGED <<stage, pc, cur>>
  BY <1>18
<1> HIDE DEF TypeInv, ThreadTypes
<1>19. QED
  BY <1>1, <1>2, <1>3, <1>4, <1>5, <1>6, <1>7, <1>8, <1>9, <1>10, <1>11, <1>12,
    <1>13, <1>14, <1>15, <1>16, <1>17, <1>18 DEF Next, Environment, CommandThread,
    EngineThread, Monitor, Terminated, vars, ReceiveInterrupt, ReceiveSubmit,
    SendPrompt, Send, CommandTo, SendAnswer, ReceiveShutdown, ShutdownStopsTurn,
    ShutdownDropsAnswer, SendShutdown, ReceiveAnswer, ReceiveOther, MonitorPoll,
    MonitorPress, MonitorStop

\* Only turns are cancelled.
LEMMA NextTokenTypes == TypeInv /\ [Next]_vars => TokenTypes'
<1> SUFFICES ASSUME TypeInv, [Next]_vars PROVE TokenTypes'
  OBVIOUS
<1> USE BoundsAssumption DEF TypeInv, TokenTypes, sentVars, cmdVars, lockVars,
  askVars, tokenVars, monitorVars, historyVars, engineVars, Prompts, NoTurn, SignIn,
  Tokens, NoQuestion, Questions, Item, NoItem, Items, EnginePC, CommandPC,
  MonitorState, Fates, Busy
<1>1. CASE ReceiveInterrupt
  BY <1>1 DEF ReceiveInterrupt, Interrupt, PromptIsComing, Press, Meant, Running,
    Waiting, Oldest, LockTypes, ThreadTypes
<1>2. CASE ShutdownStopsTurn
  BY <1>2 DEF ShutdownStopsTurn, CommandTo, StopTurn, LockTypes, ThreadTypes
<1>3. CASE Take
  BY <1>3 DEF Take, AfterCommand, To, LockTypes, ThreadTypes
<1>4. CASE Watch
  BY <1>4 DEF Watch, To, PressedEarly, LockTypes, ThreadTypes
<1>5. CASE Recheck
  BY <1>5 DEF Recheck, To, StopTurn, LockTypes, ThreadTypes
<1>6. ASSUME NEW p \in Prompts, MonitorPress(p) PROVE TokenTypes'
  BY <1>6 DEF MonitorPress, LockTypes, ThreadTypes
<1>7. CASE UNCHANGED <<cancelled, aborted>>
  BY <1>7
<1> HIDE DEF TypeInv, TokenTypes
<1>8. QED
  BY <1>1, <1>2, <1>3, <1>4, <1>5, <1>6, <1>7 DEF Next, Environment, CommandThread,
    EngineThread, Monitor, Terminated, vars, ReceiveSubmit, SendPrompt, Send,
    CommandTo, SendAnswer, ReceiveShutdown, ShutdownDropsAnswer, SendShutdown,
    RefusePrompt, To, ForPrompt, Prepare, Completes, Stops, Panics, JoinMonitor,
    DropRunning, Finish, CallTool, Ask, Answered, GiveUp, Withdraw, ReceiveAnswer,
    ReceiveOther, MonitorPoll, MonitorStop

\* Only prompts have monitors, and a monitor counts its presses.
LEMMA NextMonitorTypes == TypeInv /\ [Next]_vars => MonitorTypes'
<1> SUFFICES ASSUME TypeInv, [Next]_vars PROVE MonitorTypes'
  OBVIOUS
<1> USE BoundsAssumption DEF TypeInv, MonitorTypes, sentVars, cmdVars, lockVars,
  askVars, tokenVars, monitorVars, historyVars, engineVars, Prompts, NoTurn, SignIn,
  Tokens, NoQuestion, Questions, Item, NoItem, Items, EnginePC, CommandPC,
  MonitorState, Fates, Busy
<1>1. CASE ReceiveInterrupt
  BY <1>1 DEF ReceiveInterrupt, Interrupt, PromptIsComing, Press, Meant, Running,
    Waiting, Oldest, LockTypes, ThreadTypes
<1>2. CASE ForPrompt
  BY <1>2 DEF ForPrompt, To, Saturating, LockTypes, ThreadTypes
<1>3. CASE Prepare
  BY <1>3 DEF Prepare, To, LockTypes, ThreadTypes
<1>4. CASE Completes
  BY <1>4 DEF Completes, LockTypes, ThreadTypes
<1>5. CASE Stops
  BY <1>5 DEF Stops, To, LockTypes, ThreadTypes
<1>6. CASE Panics
  BY <1>6 DEF Panics, To, LockTypes, ThreadTypes
<1>7. ASSUME NEW p \in Prompts, MonitorPoll(p) PROVE MonitorTypes'
  BY <1>7 DEF MonitorPoll, LockTypes, ThreadTypes
<1>8. ASSUME NEW p \in Prompts, MonitorPress(p) PROVE MonitorTypes'
  <2>1. monitor' \in [Prompts -> MonitorState]
    BY <1>8 DEF MonitorPress
  <2>2. permit' \subseteq Prompts /\ stopping' \subseteq Prompts
    BY <1>8 DEF MonitorPress
  <2>3. seen' \in [Prompts -> 0..1]
    BY <1>8 DEF MonitorPress
  <2>4. QED
    BY <2>1, <2>2, <2>3
<1>9. ASSUME NEW p \in Prompts, MonitorStop(p) PROVE MonitorTypes'
  BY <1>9 DEF MonitorStop, LockTypes, ThreadTypes
<1>10. CASE UNCHANGED <<monitor, permit, stopping, seen>>
  BY <1>10
<1> HIDE DEF TypeInv, MonitorTypes
<1>11. QED
  BY <1>1, <1>2, <1>3, <1>4, <1>5, <1>6, <1>7, <1>8, <1>9, <1>10 DEF Next,
    Environment, CommandThread, EngineThread, Monitor, Terminated, vars,
    ReceiveSubmit, SendPrompt, Send, CommandTo, SendAnswer, ReceiveShutdown,
    ShutdownStopsTurn, ShutdownDropsAnswer, SendShutdown, Take, To, RefusePrompt,
    Watch, Recheck, JoinMonitor, DropRunning, Finish, CallTool, Ask, Answered,
    GiveUp, Withdraw, ReceiveAnswer, ReceiveOther

\* The history stays in its sets.
LEMMA NextHistoryTypes == TypeInv /\ [Next]_vars => HistoryTypes'
<1> SUFFICES ASSUME TypeInv, [Next]_vars PROVE HistoryTypes'
  OBVIOUS
<1> USE BoundsAssumption DEF TypeInv, HistoryTypes, sentVars, cmdVars, lockVars,
  askVars, tokenVars, monitorVars, historyVars, engineVars, Prompts, NoTurn, SignIn,
  Tokens, NoQuestion, Questions, Item, NoItem, Items, EnginePC, CommandPC,
  MonitorState, Fates, Busy
<1>1. CASE ReceiveInterrupt
  <2>1. Meant \subseteq Prompts
    BY DEF Meant, Running, Waiting, Oldest
  <2>2. interrupted' \subseteq Prompts /\ fate' = fate
    BY <1>1, <2>1 DEF ReceiveInterrupt
  <2>3. ASSUME NEW p \in Prompts PROVE pressed'[p] \in 0..2
    BY <1>1 DEF ReceiveInterrupt
  <2>4. pressed' = [p \in Prompts |-> pressed'[p]]
    BY <1>1 DEF ReceiveInterrupt
  <2>5. pressed' \in [Prompts -> 0..2]
    BY <2>3, <2>4
  <2>6. QED
    BY <2>2, <2>5
<1>2. CASE ReceiveSubmit
  BY <1>2 DEF ReceiveSubmit, ThreadTypes
<1>3. CASE SendAnswer
  BY <1>3 DEF SendAnswer, CommandTo, ThreadTypes
<1>4. CASE RefusePrompt
  BY <1>4 DEF RefusePrompt, To, Saturating, ThreadTypes
<1>5. CASE ForPrompt
  BY <1>5 DEF ForPrompt, To, Saturating, ThreadTypes
<1>6. CASE DropRunning
  BY <1>6 DEF DropRunning, To, ThreadTypes
<1>7. CASE Finish
  BY <1>7 DEF Finish, AfterCommand, ThreadTypes
<1>8. CASE Answered
  BY <1>8 DEF Answered, To, ThreadTypes
<1>9. CASE Withdraw
  BY <1>9 DEF Withdraw, To, Withdrawn, IsPending, ThreadTypes
<1>10. CASE UNCHANGED <<fate, pressed, interrupted>>
  BY <1>10
<1> HIDE DEF TypeInv, HistoryTypes
<1>11. QED
  BY <1>1, <1>2, <1>3, <1>4, <1>5, <1>6, <1>7, <1>8, <1>9, <1>10 DEF Next,
    Environment, CommandThread, EngineThread, Monitor, Terminated, vars, SendPrompt,
    Send, CommandTo, ReceiveShutdown, ShutdownStopsTurn, ShutdownDropsAnswer,
    SendShutdown, Take, To, Prepare, Watch, Recheck, Completes, Stops, Panics,
    JoinMonitor, CallTool, Ask, GiveUp, ReceiveAnswer, ReceiveOther, MonitorPoll,
    MonitorPress, MonitorStop

-----------------------------------------------------------------------------
(* What a shutdown rests on: from watch on, the turn is the one installed. *)

WatchedTurn == pc \in {"recheck"} \cup InTurn => turn = cur
TurnStopped ==
  closing /\ cmd.pc \in {"dropAnswer", "sendShutdown", "done"} /\ pc \in InTurn
    => cur \in cancelled /\ cur \in aborted
ShutdownInv == WatchedTurn /\ TurnStopped

(* What a question rests on: its sender is in one place, the pending slot, the *)
(* command thread's hand, or nowhere.                                          *)

PendingIsAsked ==
  answer # NoQuestion => pc \in {"waiting", "withdraw"} /\ question = answer
RepliedIsNotPending == reply # NoItem => answer = NoQuestion
HeldIsNotPending ==
  cmd.pc = "sendAnswer" => /\ cmd.question # NoQuestion /\ cmd.question # answer
                           /\ cmd.question < nextQuestion
AskedBefore == answer < nextQuestion
HeldIsForItsQuestion ==
  cmd.pc = "sendAnswer" /\ cmd.item.kind = "answer" => cmd.item.id = cmd.question
ReplyIsForItsQuestion ==
  pc \in {"waiting", "withdraw"} /\ reply.kind = "answer" => reply.id = question
QuestionInv ==
  /\ PendingIsAsked /\ RepliedIsNotPending /\ HeldIsNotPending /\ AskedBefore
  /\ HeldIsForItsQuestion /\ ReplyIsForItsQuestion

IInv == TypeInv /\ ShutdownInv /\ QuestionInv

\* The shutdown's invariant is kept.
LEMMA NextShutdownInv == TypeInv /\ ShutdownInv /\ [Next]_vars => ShutdownInv'
<1> SUFFICES ASSUME TypeInv, ShutdownInv, [Next]_vars PROVE ShutdownInv'
  OBVIOUS
<1> USE BoundsAssumption DEF TypeInv, ThreadTypes, TokenTypes, CommandTypes,
  ShutdownInv, WatchedTurn, TurnStopped, InTurn, sentVars, cmdVars, lockVars,
  askVars, tokenVars, monitorVars, historyVars, engineVars, Prompts, NoTurn, SignIn,
  Tokens, NoQuestion, Questions, Item, NoItem, Items, EnginePC, CommandPC,
  MonitorState, Fates, Busy
<1>1. CASE ReceiveInterrupt
  BY <1>1 DEF ReceiveInterrupt, Interrupt, PromptIsComing, Press, Meant, Running,
    Waiting, Oldest
<1>2. CASE ReceiveSubmit
  <2>1. CASE answer # NoQuestion
    <3>1. cmd' = [pc |-> "sendAnswer", item |-> Item("submit", sentPrompts + 1),
                  question |-> answer]
      BY <1>2, <2>1 DEF ReceiveSubmit
    <3>2. cmd'.pc = "sendAnswer" /\ cmd'.item.kind = "submit" /\ cmd'.question = answer
      BY <3>1
    <3>3. QED
      BY <1>2, <2>1, <3>2 DEF ReceiveSubmit
  <2>2. CASE answer = NoQuestion
    <3>1. cmd' = [cmd EXCEPT !.pc = "sendPrompt", !.item = Item("submit", sentPrompts + 1)]
      BY <1>2, <2>2 DEF ReceiveSubmit
    <3>2. cmd'.pc = "sendPrompt"
      BY <3>1
    <3>3. QED
      BY <1>2, <2>2, <3>2 DEF ReceiveSubmit
  <2>3. QED
    BY <2>1, <2>2
<1>3. CASE SendPrompt
  BY <1>3 DEF SendPrompt, Send, CommandTo
<1>4. ASSUME NEW id \in Questions, ReceiveAnswer(id) PROVE ShutdownInv'
  BY <1>4 DEF ReceiveAnswer, IsPending
<1>5. CASE SendAnswer
  BY <1>5 DEF SendAnswer, CommandTo
<1>6. ASSUME NEW kind \in {"login", "other", "exit"}, ReceiveOther(kind) PROVE ShutdownInv'
  BY <1>6 DEF ReceiveOther, Send, CommandTo
<1>7. CASE ReceiveShutdown
  BY <1>7 DEF ReceiveShutdown, CommandTo
<1>8. CASE ShutdownStopsTurn
  BY <1>8 DEF ShutdownStopsTurn, CommandTo, StopTurn
<1>9. CASE ShutdownDropsAnswer
  BY <1>9 DEF ShutdownDropsAnswer, CommandTo
<1>10. CASE SendShutdown
  BY <1>10 DEF SendShutdown, Send, CommandTo
<1>11. CASE Take
  BY <1>11 DEF Take, AfterCommand, To
<1>12. CASE RefusePrompt
  BY <1>12 DEF RefusePrompt, To, Saturating
<1>13. CASE ForPrompt
  BY <1>13 DEF ForPrompt, To, Saturating
<1>14. CASE Prepare
  BY <1>14 DEF Prepare, To
<1>15. CASE Watch
  BY <1>15 DEF Watch, To, PressedEarly
<1>16. CASE Recheck
  BY <1>16 DEF Recheck, To, StopTurn
<1>17. CASE Completes
  BY <1>17 DEF Completes
<1>18. CASE Stops
  BY <1>18 DEF Stops, To
<1>19. CASE Panics
  BY <1>19 DEF Panics, To
<1>20. CASE JoinMonitor
  BY <1>20 DEF JoinMonitor, To
<1>21. CASE DropRunning
  BY <1>21 DEF DropRunning, To
<1>22. CASE Finish
  BY <1>22 DEF Finish, AfterCommand
<1>23. CASE CallTool
  BY <1>23 DEF CallTool, To
<1>24. CASE Ask
  BY <1>24 DEF Ask, To
<1>25. CASE Answered
  BY <1>25 DEF Answered, To
<1>26. CASE GiveUp
  BY <1>26 DEF GiveUp, To, TurnCancelled
<1>27. CASE Withdraw
  BY <1>27 DEF Withdraw, To, Withdrawn, IsPending
<1>28. ASSUME NEW p \in Prompts, MonitorPress(p) PROVE ShutdownInv'
  BY <1>28 DEF MonitorPress
<1>29. CASE UNCHANGED <<cmd, closing, turn, pc, cur, cancelled, aborted>>
  BY <1>29
<1> HIDE DEF TypeInv, ShutdownInv
<1>30. QED
  BY <1>1, <1>2, <1>3, <1>4, <1>5, <1>6, <1>7, <1>8, <1>9, <1>10, <1>11, <1>12,
    <1>13, <1>14, <1>15, <1>16, <1>17, <1>18, <1>19, <1>20, <1>21, <1>22, <1>23,
    <1>24, <1>25, <1>26, <1>27, <1>28, <1>29 DEF Next, Environment, CommandThread,
    EngineThread, Monitor, Terminated, vars, MonitorPoll, MonitorStop

\* The question's invariant is kept.
LEMMA NextQuestionInv == TypeInv /\ QuestionInv /\ [Next]_vars => QuestionInv'
<1> SUFFICES ASSUME TypeInv, QuestionInv, [Next]_vars PROVE QuestionInv'
  OBVIOUS
<1> USE BoundsAssumption DEF TypeInv, ThreadTypes, QuestionTypes, CommandTypes,
  QuestionInv, PendingIsAsked, RepliedIsNotPending, HeldIsNotPending, AskedBefore,
  HeldIsForItsQuestion, ReplyIsForItsQuestion, sentVars, cmdVars, lockVars, askVars,
  tokenVars, monitorVars, historyVars, engineVars, Prompts, NoTurn, SignIn, Tokens,
  NoQuestion, Questions, Item, NoItem, Items, EnginePC, CommandPC, MonitorState,
  Fates, Busy
<1>1. CASE ReceiveSubmit
  <2>1. CASE answer # NoQuestion
    <3>1. cmd' = [pc |-> "sendAnswer", item |-> Item("submit", sentPrompts + 1),
                  question |-> answer]
      BY <1>1, <2>1 DEF ReceiveSubmit
    <3>2. cmd'.pc = "sendAnswer" /\ cmd'.item.kind = "submit" /\ cmd'.question = answer
      BY <3>1
    <3>3. QED
      BY <1>1, <2>1, <3>2 DEF ReceiveSubmit
  <2>2. CASE answer = NoQuestion
    <3>1. cmd' = [cmd EXCEPT !.pc = "sendPrompt", !.item = Item("submit", sentPrompts + 1)]
      BY <1>1, <2>2 DEF ReceiveSubmit
    <3>2. cmd'.pc = "sendPrompt"
      BY <3>1
    <3>3. QED
      BY <1>1, <2>2, <3>2 DEF ReceiveSubmit
  <2>3. QED
    BY <2>1, <2>2
<1>2. CASE SendPrompt
  BY <1>2 DEF SendPrompt, Send, CommandTo
<1>3. ASSUME NEW id \in Questions, ReceiveAnswer(id) PROVE QuestionInv'
  BY <1>3 DEF ReceiveAnswer, IsPending
<1>4. CASE SendAnswer
  BY <1>4 DEF SendAnswer, CommandTo
<1>5. ASSUME NEW kind \in {"login", "other", "exit"}, ReceiveOther(kind) PROVE QuestionInv'
  BY <1>5 DEF ReceiveOther, Send, CommandTo
<1>6. CASE ReceiveShutdown
  BY <1>6 DEF ReceiveShutdown, CommandTo
<1>7. CASE ShutdownStopsTurn
  BY <1>7 DEF ShutdownStopsTurn, CommandTo, StopTurn
<1>8. CASE ShutdownDropsAnswer
  BY <1>8 DEF ShutdownDropsAnswer, CommandTo
<1>9. CASE SendShutdown
  BY <1>9 DEF SendShutdown, Send, CommandTo
<1>10. CASE Take
  BY <1>10 DEF Take, AfterCommand, To
<1>11. CASE RefusePrompt
  BY <1>11 DEF RefusePrompt, To, Saturating
<1>12. CASE ForPrompt
  BY <1>12 DEF ForPrompt, To, Saturating
<1>13. CASE Prepare
  BY <1>13 DEF Prepare, To
<1>14. CASE Watch
  BY <1>14 DEF Watch, To, PressedEarly
<1>15. CASE Recheck
  BY <1>15 DEF Recheck, To, StopTurn
<1>16. CASE Completes
  BY <1>16 DEF Completes
<1>17. CASE Stops
  BY <1>17 DEF Stops, To
<1>18. CASE Panics
  BY <1>18 DEF Panics, To
<1>19. CASE JoinMonitor
  BY <1>19 DEF JoinMonitor, To
<1>20. CASE DropRunning
  BY <1>20 DEF DropRunning, To
<1>21. CASE Finish
  BY <1>21 DEF Finish, AfterCommand
<1>22. CASE CallTool
  BY <1>22 DEF CallTool, To
<1>23. CASE Ask
  BY <1>23 DEF Ask, To
<1>24. CASE Answered
  BY <1>24 DEF Answered, To
<1>25. CASE GiveUp
  BY <1>25 DEF GiveUp, To, TurnCancelled
<1>26. CASE Withdraw
  BY <1>26 DEF Withdraw, To, Withdrawn, IsPending
<1>27. CASE UNCHANGED <<cmd, pc, answer, nextQuestion, question, reply>>
  BY <1>27
<1> HIDE DEF TypeInv, QuestionInv
<1>28. QED
  BY <1>1, <1>2, <1>3, <1>4, <1>5, <1>6, <1>7, <1>8, <1>9, <1>10, <1>11, <1>12,
    <1>13, <1>14, <1>15, <1>16, <1>17, <1>18, <1>19, <1>20, <1>21, <1>22, <1>23,
    <1>24, <1>25, <1>26, <1>27 DEF Next, Environment, CommandThread, EngineThread,
    Monitor, Terminated, vars, ReceiveInterrupt, MonitorPoll, MonitorPress,
    MonitorStop

-----------------------------------------------------------------------------
(* The theorems *)

\* The invariant holds when the session starts.
LEMMA InitIInv == Init => IInv
<1> SUFFICES ASSUME Init PROVE IInv
  OBVIOUS
<1> USE BoundsAssumption DEF Init, Prompts, NoTurn, SignIn, Tokens, NoQuestion,
  Questions, Item, NoItem, Items, EnginePC, CommandPC, MonitorState, Fates, Busy
<1>1. CommandTypes /\ CountTypes /\ QueueTypes
  BY DEF CommandTypes, CountTypes, QueueTypes
<1>2. FlagTypes
  BY DEF FlagTypes
<1>3. LockTypes /\ ThreadTypes /\ TokenTypes
  BY DEF LockTypes, ThreadTypes, TokenTypes
<1>4. QuestionTypes
  BY DEF QuestionTypes
<1>5. MonitorTypes /\ HistoryTypes
  BY DEF MonitorTypes, HistoryTypes
<1>6. ShutdownInv
  BY DEF ShutdownInv, WatchedTurn, TurnStopped, InTurn
<1>7. QuestionInv
  BY DEF QuestionInv, PendingIsAsked, RepliedIsNotPending, HeldIsNotPending,
    AskedBefore, HeldIsForItsQuestion, ReplyIsForItsQuestion
<1>8. QED
  BY <1>1, <1>2, <1>3, <1>4, <1>5, <1>6, <1>7 DEF IInv, TypeInv

\* Every step keeps it.
LEMMA NextIInv == IInv /\ [Next]_vars => IInv'
BY NextCommandTypes, NextCountTypes, NextQueueTypes, NextFlagTypes, NextLockTypes,
  NextQuestionTypes, NextThreadTypes, NextTokenTypes, NextMonitorTypes,
  NextHistoryTypes, NextShutdownInv, NextQuestionInv DEF IInv, TypeInv

\* The inductive invariant of the engine holds throughout a session.
THEOREM Invariance == Spec => []IInv
<1>1. Init => IInv
  BY InitIInv
<1>2. IInv /\ [Next]_vars => IInv'
  BY NextIInv
<1>3. QED
  BY <1>1, <1>2, PTL DEF Spec

\* Every lock, channel and thread of the engine keeps its type, for any number of
\* prompts, questions, commands and interrupts.
THEOREM TypesHold == Spec => []TypeOK
<1>1. IInv => TypeOK
  BY DEF IInv, TypeInv, TypeOK, CommandTypes, CountTypes, QueueTypes, FlagTypes,
    LockTypes, QuestionTypes, ThreadTypes, TokenTypes, MonitorTypes, HistoryTypes
<1>2. QED
  BY <1>1, Invariance, PTL

\* forward_commands sets closing and then stops the turn; watch installs the turn and
\* then looks at closing: whichever comes first, no turn is left running uncancelled.
THEOREM ShutdownsReachTheTurn == Spec => []ShutdownReachesTurn
<1>1. IInv => ShutdownReachesTurn
  BY DEF IInv, ShutdownInv, TurnStopped, ShutdownReachesTurn
<1>2. QED
  BY <1>1, Invariance, PTL

\* A question left pending is the one the engine waits on: a later prompt is never
\* taken for the answer to a question nobody asks any more.
THEOREM PendingQuestionsHaveAskers == Spec => []PendingQuestionHasAsker
<1>1. IInv => PendingQuestionHasAsker
  BY DEF IInv, QuestionInv, PendingIsAsked, PendingQuestionHasAsker
<1>2. QED
  BY <1>1, Invariance, PTL

\* An Answer reaches the channel of the question it names and no other, though it is
\* sent after the lock was released.
THEOREM AnswersReachTheirQuestion == Spec => []AnswersAreForTheirQuestion
<1>1. IInv => AnswersAreForTheirQuestion
  BY DEF IInv, QuestionInv, ReplyIsForItsQuestion, AnswersAreForTheirQuestion
<1>2. QED
  BY <1>1, Invariance, PTL

-----------------------------------------------------------------------------
(* Order: a Submit is in one place at a time, and the queue keeps the order the *)
(* prompts were sent in.                                                        *)

\* Where the engine thread holds a RunningTurn.
OnTurn == {"prepare", "watch", "recheck", "ended", "drop"} \cup InTurn

SentOnes == \A p \in Prompts : fate[p] = "unsent" <=> sentPrompts < p

\* The engine thread's prompt and its fate.
CurrentFate ==
  /\ \A p \in Prompts : /\ fate[p] = "running" <=> pc \in OnTurn /\ p = cur
                        /\ fate[p] = "ended" <=> pc = "finish" /\ p = cur
  /\ pc = "take" => fate[cur] = "queued"
  /\ pc \in {"calling", "waiting", "withdraw"} => cur \in Prompts

\* The prompt the command thread is about to send is the last one.
HeldPrompt ==
  cmd.pc = "sendPrompt" =>
    /\ cmd.item.kind = "submit" /\ cmd.item.id = sentPrompts
    /\ fate[sentPrompts] = "queued"
    /\ pc = "take" => cur < sentPrompts

\* A place of the queue that holds a prompt.
PromptAt(k) == k \in 1..Len(queue) /\ queue[k].kind = "submit"

QueueInOrder ==
  \A k \in 1..Len(queue) : PromptAt(k) =>
    /\ fate[queue[k].id] = "queued"
    /\ pc = "take" => cur < queue[k].id
    /\ cmd.pc = "sendPrompt" => queue[k].id < sentPrompts
    /\ \A l \in 1..Len(queue) : PromptAt(l) /\ k < l => queue[k].id < queue[l].id

\* While the engine thread lives a waiting prompt is in its hands, the command
\* thread's or the queue.
WaitingIsKept ==
  pc # "done" => \A p \in Prompts : fate[p] = "queued" =>
    \/ pc = "take" /\ p = cur
    \/ cmd.pc = "sendPrompt" /\ p = sentPrompts
    \/ \E k \in 1..Len(queue) : PromptAt(k) /\ queue[k].id = p

\* A prompt taken as an answer is in the command thread's hands or in the channel.
AnswerIsKept ==
  /\ cmd.pc = "sendAnswer" /\ cmd.item.kind = "submit" =>
       cmd.item.id = sentPrompts /\ fate[sentPrompts] = "answering"
  /\ pc \in {"waiting", "withdraw"} /\ reply.kind = "submit" =>
       /\ reply.id \in Prompts /\ fate[reply.id] = "answering"
       /\ cmd.pc = "sendAnswer" /\ cmd.item.kind = "submit" => reply.id # sentPrompts

OrderInv ==
  /\ SentOnes /\ CurrentFate /\ HeldPrompt /\ QueueInOrder /\ WaitingIsKept /\ AnswerIsKept

-----------------------------------------------------------------------------
(* Interrupts: what the two locks hold at each place of the engine thread, and *)
(* what an interrupt leaves behind for the turn it was meant for.              *)

LocksFollow ==
  /\ presses = IF pc \in OnTurn /\ cur \in Prompts THEN cur ELSE NoTurn
  /\ pc \in {"recheck", "ended"} \cup InTurn => turn = cur
  /\ pc \in {"idle", "take", "prepare", "watch", "finish", "done"} => turn = NoTurn
  /\ pc = "drop" => turn \in {cur, NoTurn}

WaitingAreCounted == queuedPrompts = Cardinality(Waiting)

\* The monitor of a prompt: it has one once its turn is prepared, it is told to stop
\* when the turn ended, and it does not wait beside a press that was kept.
MonitorFollows ==
  \A p \in Prompts :
    /\ monitor[p] # "absent" =>
         /\ fate[p] \in {"running", "ended", "finished"}
         /\ p = cur /\ fate[p] = "running" => pc \notin {"prepare"}
    /\ p \in stopping =>
         /\ fate[p] \in {"running", "ended", "finished"}
         /\ fate[p] = "running" => pc \in {"ended", "drop"}
    /\ monitor[p] = "done" => p \in stopping
    /\ monitor[p] = "waiting" => p \notin permit
    /\ seen[p] > 0 => p \in aborted

\* A kept press is a press on the prompt that waits longest, or whose turn runs.
EarlyIsMeant ==
  early => IF Running # {} THEN Running \subseteq interrupted
           ELSE Waiting # {} /\ Oldest(Waiting) \subseteq interrupted

KeptAreMeant ==
  /\ permit \subseteq interrupted
  /\ \A p \in Prompts : monitor[p] = "woken" => p \in interrupted
  /\ cmd.pc = "stopTurn" => closing
  /\ ~closing => cancelled \cap Prompts \subseteq interrupted

\* A pressed prompt that waits is the next one, and the press is kept in early.
QueuedPress ==
  \A p \in Prompts : pressed[p] > 0 =>
    /\ fate[p] # "unsent"
    /\ fate[p] = "queued" => early /\ Running = {} /\ p \in Oldest(Waiting)

\* Until watch a running prompt's press is kept in early, then it is in the token; its
\* monitor has handled it or will.
RunningPress ==
  pc \in OnTurn /\ cur \in Prompts /\ pressed[cur] > 0 =>
    /\ pc \in {"prepare", "watch"} => early
    /\ pc \in {"recheck"} \cup InTurn => cur \in cancelled
    /\ cur \in aborted \/ cur \in permit \/ monitor[cur] = "woken"
    /\ monitor[cur] = "done" => cur \in aborted

InterruptInv ==
  /\ LocksFollow /\ WaitingAreCounted /\ MonitorFollows
  /\ EarlyIsMeant /\ KeptAreMeant /\ QueuedPress /\ RunningPress

PromptsInv == IInv /\ OrderInv /\ InterruptInv

\* A step that leaves the prompts and where they are alone keeps their order.
LEMMA OrderRests ==
  ASSUME OrderInv, UNCHANGED <<cmd, sentPrompts, queue, pc, cur, fate, reply>>
  PROVE  OrderInv'
<1>1. /\ cmd' = cmd /\ sentPrompts' = sentPrompts /\ queue' = queue /\ pc' = pc
      /\ cur' = cur /\ fate' = fate /\ reply' = reply
  OBVIOUS
<1>2. SentOnes'
  BY <1>1 DEF OrderInv, SentOnes
<1>3. CurrentFate'
  BY <1>1 DEF OrderInv, CurrentFate
<1>4. HeldPrompt'
  BY <1>1 DEF OrderInv, HeldPrompt
<1>5. QueueInOrder'
  BY <1>1 DEF OrderInv, QueueInOrder, PromptAt
<1>6. WaitingIsKept'
  BY <1>1 DEF OrderInv, WaitingIsKept, PromptAt
<1>7. AnswerIsKept'
  BY <1>1 DEF OrderInv, AnswerIsKept
<1>8. QED
  BY <1>2, <1>3, <1>4, <1>5, <1>6, <1>7 DEF OrderInv

\* What is sent besides prompts does not touch their order.
LEMMA SendsNoPrompt ==
  ASSUME IInv, OrderInv, NEW item \in Items, item.kind # "submit",
         NEW next \in {"recv", "done"}, cmd.pc \in {"recv", "sendShutdown"},
         Send(item, next), UNCHANGED <<sentPrompts, pc, cur, fate, reply>>
  PROVE  OrderInv'
<1> USE DEF IInv, TypeInv, CommandTypes, QueueTypes, OrderInv, SentOnes, CurrentFate,
  HeldPrompt, QueueInOrder, WaitingIsKept, AnswerIsKept, PromptAt
<1>1. cmd'.pc \in {"recv", "done"} /\ cmd'.item = cmd.item
  BY DEF Send, CommandTo
<1>2. SentOnes' /\ CurrentFate' /\ HeldPrompt' /\ AnswerIsKept'
  BY <1>1
<1>3. CASE pc = "done"
  BY <1>1, <1>2, <1>3 DEF Send
<1>4. CASE pc # "done"
  <2>1. queue' = Append(queue, item)
    BY <1>4 DEF Send
  <2>2. \A k \in 1..Len(queue') :
          PromptAt(k)' => k \in 1..Len(queue) /\ PromptAt(k) /\ queue'[k] = queue[k]
    BY <2>1, LastAdded
  <2>3. \A k \in 1..Len(queue) : k \in 1..Len(queue') /\ queue'[k] = queue[k]
    BY <2>1, AppendProperties, LenProperties
  <2>4. QueueInOrder'
    BY <1>1, <2>2
  <2>5. WaitingIsKept'
    BY <1>1, <2>3
  <2>6. QED
    BY <1>2, <2>4, <2>5
<1>5. QED
  BY <1>3, <1>4

\* The order of the prompts is kept.
LEMMA NextOrderInv == IInv /\ OrderInv /\ [Next]_vars => OrderInv'
<1> SUFFICES ASSUME IInv, OrderInv, [Next]_vars PROVE OrderInv'
  OBVIOUS
<1> USE BoundsAssumption DEF IInv, TypeInv, ThreadTypes, CommandTypes, CountTypes,
  QueueTypes, HistoryTypes, OrderInv, SentOnes, CurrentFate, HeldPrompt, QueueInOrder,
  WaitingIsKept, AnswerIsKept, PromptAt, OnTurn, InTurn, sentVars, cmdVars, lockVars,
  askVars, tokenVars, monitorVars, historyVars, engineVars, Prompts, NoTurn, SignIn,
  Tokens, NoQuestion, Item, NoItem, EnginePC
<1>1. CASE ReceiveInterrupt
  BY <1>1 DEF ReceiveInterrupt
<1>2. CASE ReceiveSubmit
  <2> DEFINE p == sentPrompts + 1
  <2>1. p \in Prompts /\ fate[p] = "unsent" /\ sentPrompts' = p
    BY <1>2 DEF ReceiveSubmit
  <2>2. UNCHANGED <<queue, pc, cur, reply>>
    BY <1>2 DEF ReceiveSubmit
  <2>6. \A k \in 1..Len(queue) : PromptAt(k) =>
          /\ queue[k].id \in Prompts /\ fate[queue[k].id] = "queued"
          /\ queue[k].id # p /\ queue[k].id < p
    BY SMTT(30), <2>1
  <2>7. cmd.pc = "recv"
    BY <1>2 DEF ReceiveSubmit
  <2>3. CASE answer # NoQuestion
    <3>1. /\ cmd' = [pc |-> "sendAnswer", item |-> Item("submit", p), question |-> answer]
          /\ fate' = [fate EXCEPT ![p] = "answering"]
      BY <1>2, <2>3 DEF ReceiveSubmit
    <3>2. cmd'.pc = "sendAnswer" /\ cmd'.item.kind = "submit" /\ cmd'.item.id = p
      BY <3>1
    <3>3. \A q \in Prompts : fate'[q] = IF q = p THEN "answering" ELSE fate[q]
      BY <2>1, <3>1
    <3>4. SentOnes' /\ CurrentFate' /\ HeldPrompt'
      <4>1. SentOnes'
        BY <2>1, <3>3
      <4>2. CurrentFate'
        BY <2>1, <2>2, <3>3
      <4>3. HeldPrompt'
        BY <3>2
      <4>4. QED
        BY <4>1, <4>2, <4>3
    <3>5. QueueInOrder'
      <4>1. ASSUME NEW k \in 1..Len(queue), PromptAt(k)
            PROVE  /\ fate'[queue[k].id] = "queued" /\ queue[k].id < p
                   /\ pc = "take" => cur < queue[k].id
                   /\ \A l \in 1..Len(queue) : PromptAt(l) /\ k < l => queue[k].id < queue[l].id
        BY SMTT(30), <2>6, <3>3, <4>1
      <4>2. queue' = queue /\ pc' = pc /\ cur' = cur /\ sentPrompts' = p
        BY <2>1, <2>2
      <4> HIDE DEF p
      <4>3. QED
        BY <4>1, <4>2
    <3>6. WaitingIsKept'
      BY SMTT(30), <2>1, <2>2, <2>7, <3>2, <3>3
    <3>7. AnswerIsKept'
      BY <2>1, <2>2, <3>2, <3>3
    <3>8. QED
      BY <3>4, <3>5, <3>6, <3>7
  <2>4. CASE answer = NoQuestion
    <3>1. /\ cmd' = [cmd EXCEPT !.pc = "sendPrompt", !.item = Item("submit", p)]
          /\ fate' = [fate EXCEPT ![p] = "queued"]
      BY <1>2, <2>4 DEF ReceiveSubmit
    <3>2. cmd'.pc = "sendPrompt" /\ cmd'.item.kind = "submit" /\ cmd'.item.id = p
      BY <3>1
    <3>3. \A q \in Prompts : fate'[q] = IF q = p THEN "queued" ELSE fate[q]
      BY <2>1, <3>1
    <3>4. SentOnes' /\ CurrentFate' /\ HeldPrompt'
      BY <2>1, <2>2, <3>2, <3>3
    <3>5. QueueInOrder'
      <4>1. ASSUME NEW k \in 1..Len(queue), PromptAt(k)
            PROVE  /\ fate'[queue[k].id] = "queued" /\ queue[k].id < p
                   /\ pc = "take" => cur < queue[k].id
                   /\ \A l \in 1..Len(queue) : PromptAt(l) /\ k < l => queue[k].id < queue[l].id
        BY <2>6, <3>3, <4>1
      <4>2. queue' = queue /\ pc' = pc /\ cur' = cur /\ sentPrompts' = p
        BY <2>1, <2>2
      <4> HIDE DEF p
      <4>3. QED
        BY <4>1, <4>2
    <3>6. WaitingIsKept'
      BY SMTT(30), <2>1, <2>2, <2>7, <3>2, <3>3
    <3>7. AnswerIsKept'
      BY <2>1, <2>2, <3>2, <3>3
    <3>8. QED
      BY <3>4, <3>5, <3>6, <3>7
  <2>5. QED
    BY <2>3, <2>4
<1>3. CASE SendPrompt
  <2>1. /\ cmd'.pc \in {"recv", "done"} /\ cmd'.item = cmd.item /\ cmd.pc = "sendPrompt"
        /\ UNCHANGED <<sentPrompts, pc, cur, fate, reply>>
    BY <1>3 DEF SendPrompt, Send, CommandTo
  <2>2. SentOnes' /\ CurrentFate' /\ HeldPrompt' /\ AnswerIsKept'
    BY <2>1
  <2>3. CASE pc = "done"
    BY <1>3, <2>1, <2>2, <2>3 DEF SendPrompt, Send
  <2>4. CASE pc # "done"
    <3>1. queue' = Append(queue, cmd.item) /\ cmd.item \in Items
      BY <1>3, <2>4 DEF SendPrompt, Send
    <3>2. /\ Len(queue') = Len(queue) + 1 /\ queue'[Len(queue) + 1] = cmd.item
          /\ Len(queue) \in Nat
          /\ \A k \in 1..Len(queue) : k \in 1..Len(queue') /\ queue'[k] = queue[k]
          /\ \A k \in 1..Len(queue') : k = Len(queue) + 1 \/ k \in 1..Len(queue)
      BY <3>1, AppendProperties, LenProperties
    <3>3. QueueInOrder'
      <4>1. SUFFICES ASSUME NEW k \in 1..Len(queue'), PromptAt(k)'
                     PROVE  /\ fate[queue'[k].id] = "queued"
                            /\ pc = "take" => cur < queue'[k].id
                            /\ \A l \in 1..Len(queue') :
                                 PromptAt(l)' /\ k < l => queue'[k].id < queue'[l].id
        BY <2>1
      <4>2. CASE k = Len(queue) + 1
        BY <2>1, <3>2, <4>2
      <4>3. CASE k \in 1..Len(queue)
        <5>1. PromptAt(k) /\ queue'[k] = queue[k]
          BY <3>2, <4>1, <4>3
        <5>2. queue[k].id < sentPrompts
          BY <2>1, <4>3, <5>1
        <5>3. ASSUME NEW l \in 1..Len(queue'), PromptAt(l)', k < l
              PROVE  queue'[k].id < queue'[l].id
          BY <2>1, <3>2, <4>3, <5>1, <5>2, <5>3
        <5>4. QED
          BY <4>3, <5>1, <5>3
      <4>4. QED
        BY <3>2, <4>2, <4>3
    <3>4. WaitingIsKept'
      <4>1. PICK last \in 1..Len(queue') : last = Len(queue) + 1
        BY <3>2
      <4>2. PromptAt(last)' /\ queue'[last].id = sentPrompts
        BY <2>1, <3>2, <4>1
      <4>3. \A k \in 1..Len(queue) : PromptAt(k) => PromptAt(k)' /\ queue'[k].id = queue[k].id
        BY <3>2
      <4>4. QED
        BY <2>1, <3>2, <4>1, <4>2, <4>3
    <3>5. QED
      BY <2>2, <3>3, <3>4
  <2>5. QED
    BY <2>3, <2>4
<1>4. CASE SendAnswer
  <2>1. /\ cmd.pc = "sendAnswer" /\ cmd'.pc = "recv" /\ cmd'.item = cmd.item
        /\ UNCHANGED <<sentPrompts, queue, pc, cur>>
    BY <1>4 DEF SendAnswer, CommandTo
  <2>2. CASE reply' = cmd.item /\ fate' = fate
    <3>1. SentOnes' /\ CurrentFate' /\ HeldPrompt'
      BY <2>1, <2>2
    <3>5. QueueInOrder'
      BY <2>1, <2>2
    <3>6. WaitingIsKept'
      BY <2>1, <2>2
    <3>2. cmd.item.kind = "submit" =>
            cmd.item.id \in Prompts /\ fate[cmd.item.id] = "answering"
      BY <2>1
    <3>3. AnswerIsKept'
      BY <2>1, <2>2, <3>2
    <3>4. QED
      BY <3>1, <3>3, <3>5, <3>6
  <2>3. CASE /\ reply' = reply
             /\ fate' = IF cmd.item.kind = "submit"
                        THEN [fate EXCEPT ![cmd.item.id] = "lost"] ELSE fate
    <3>1. CASE cmd.item.kind = "submit"
      <4>1. \A q \in Prompts : fate'[q] = IF q = cmd.item.id THEN "lost" ELSE fate[q]
        BY <2>3, <3>1
      <4>2. /\ cmd.item.id = sentPrompts /\ cmd.item.id \in Prompts
            /\ fate[cmd.item.id] = "answering"
        BY <2>1, <3>1
      <4>3. SentOnes' /\ CurrentFate' /\ HeldPrompt'
        <5>1. SentOnes'
          BY <2>1, <4>1, <4>2
        <5>2. CurrentFate'
          BY <2>1, <4>1, <4>2
        <5>3. HeldPrompt'
          BY <2>1
        <5>4. QED
          BY <5>1, <5>2, <5>3
      <4>4. \A k \in 1..Len(queue) : PromptAt(k) =>
              queue[k].id \in Prompts /\ fate'[queue[k].id] = fate[queue[k].id]
        BY <4>1, <4>2
      <4>5. QueueInOrder'
        BY <2>1, <4>4
      <4>6. WaitingIsKept'
        BY <2>1, <4>1
      <4>7. AnswerIsKept'
        BY <2>1, <2>3, <4>1, <4>2
      <4>8. QED
        BY <4>3, <4>5, <4>6, <4>7
    <3>2. CASE cmd.item.kind # "submit"
      BY <2>1, <2>3, <3>2
    <3>3. QED
      BY <3>1, <3>2
  <2>4. QED
    BY <1>4, <2>2, <2>3 DEF SendAnswer
<1>5. CASE ReceiveShutdown
  BY <1>5 DEF ReceiveShutdown, CommandTo
<1>6. CASE ShutdownStopsTurn
  BY <1>6 DEF ShutdownStopsTurn, CommandTo
<1>7. CASE ShutdownDropsAnswer
  BY <1>7 DEF ShutdownDropsAnswer, CommandTo
<1>8. CASE SendShutdown
  <2>1. Item("shutdown", 0) \in Items /\ Item("shutdown", 0).kind # "submit"
    BY DEF Items
  <2>2. Send(Item("shutdown", 0), "done") /\ cmd.pc = "sendShutdown"
        /\ UNCHANGED <<sentPrompts, pc, cur, fate, reply>>
    BY <1>8 DEF SendShutdown
  <2> HIDE DEF IInv, OrderInv, Item
  <2>3. QED
    BY <2>1, <2>2, SendsNoPrompt
<1>9. CASE Take
  <2>1. /\ UNCHANGED <<cmd, sentPrompts, fate, reply>> /\ pc = "idle" /\ queue # <<>>
        /\ queue' = Tail(queue)
    BY <1>9 DEF Take
  <2>2. /\ Head(queue) = queue[1] /\ 1 \in 1..Len(queue) /\ Len(queue) \in Nat
        /\ Len(queue') = Len(queue) - 1
        /\ \A k \in 1..Len(queue') : k + 1 \in 1..Len(queue) /\ queue'[k] = queue[k + 1]
    BY <2>1, FirstTaken, HeadTailProperties, LenProperties
  <2>3. \A k \in 1..Len(queue) : k = 1 \/ k - 1 \in 1..Len(queue')
    BY <2>2
  <2>4. \/ pc' = "done" /\ cur' = cur
        \/ pc' = "take" /\ queue[1].kind = "submit" /\ cur' = queue[1].id
        \/ pc' = "watch" /\ queue[1].kind = "login" /\ cur' = SignIn
        \/ pc' \in {"done", "idle"} /\ queue[1].kind = "other" /\ cur' = cur
    BY <1>9, <2>2 DEF Take, AfterCommand, To
  <2>5. SentOnes' /\ CurrentFate' /\ AnswerIsKept'
    BY <2>1, <2>2, <2>4
  <2>6. HeldPrompt'
    BY <2>1, <2>2, <2>4
  <2>7. QueueInOrder'
    BY <2>1, <2>2, <2>4
  <2>8. WaitingIsKept'
    <3>1. SUFFICES ASSUME pc' # "done", NEW p \in Prompts, fate[p] = "queued",
                          ~(cmd.pc = "sendPrompt" /\ p = sentPrompts),
                          ~(pc' = "take" /\ p = cur')
                   PROVE  \E k \in 1..Len(queue') : PromptAt(k)' /\ queue'[k].id = p
      <4>1. fate' = fate /\ cmd' = cmd /\ sentPrompts' = sentPrompts
        BY <2>1
      <4> HIDE DEF PromptAt
      <4>2. QED
        BY <4>1
    <3>2. PICK k \in 1..Len(queue) : PromptAt(k) /\ queue[k].id = p
      BY <2>1, <3>1
    <3>3. k # 1
      BY <2>4, <3>1, <3>2
    <3>4. k - 1 \in 1..Len(queue') /\ queue'[k - 1] = queue[k]
      BY <2>2, <2>3, <3>3
    <3>5. QED
      BY <3>2, <3>4
  <2>9. QED
    BY <2>5, <2>6, <2>7, <2>8
<1>10. CASE RefusePrompt
  BY <1>10 DEF RefusePrompt, To
<1>11. CASE ForPrompt
  BY <1>11 DEF ForPrompt, To
<1>12. CASE Prepare
  BY <1>12 DEF Prepare, To
<1>13. CASE Watch
  BY <1>13 DEF Watch, To
<1>14. CASE Recheck
  BY <1>14 DEF Recheck, To
<1>15. CASE Completes
  BY <1>15 DEF Completes
<1>16. CASE Stops
  BY <1>16 DEF Stops, To
<1>17. CASE Panics
  BY <1>17 DEF Panics, To
<1>18. CASE JoinMonitor
  BY <1>18 DEF JoinMonitor, To
<1>19. CASE DropRunning
  BY <1>19 DEF DropRunning, To
<1>20. CASE Finish
  BY <1>20 DEF Finish, AfterCommand
<1>21. CASE CallTool
  BY <1>21 DEF CallTool, To
<1>22. CASE Ask
  BY <1>22 DEF Ask, To
<1>23. CASE Answered
  BY <1>23 DEF Answered, To
<1>24. CASE GiveUp
  BY <1>24 DEF GiveUp, To
<1>25. CASE Withdraw
  BY <1>25 DEF Withdraw, To
<1>26. ASSUME NEW id \in Questions, ReceiveAnswer(id) PROVE OrderInv'
  BY <1>26 DEF ReceiveAnswer
<1>27. ASSUME NEW kind \in {"login", "other", "exit"}, ReceiveOther(kind) PROVE OrderInv'
  <2>1. Item(kind, 0) \in Items /\ Item(kind, 0).kind # "submit"
    BY DEF Items
  <2>2. Send(Item(kind, 0), "recv") /\ cmd.pc = "recv"
        /\ UNCHANGED <<sentPrompts, pc, cur, fate, reply>>
    BY <1>27 DEF ReceiveOther
  <2> HIDE DEF IInv, OrderInv, Item
  <2>3. QED
    BY <2>1, <2>2, SendsNoPrompt
<1>28. CASE UNCHANGED <<cmd, sentPrompts, queue, pc, cur, fate, reply>>
  <2> HIDE DEF IInv, OrderInv
  <2>1. OrderInv
    OBVIOUS
  <2>2. QED
    BY <1>28, <2>1, OrderRests
<1> HIDE DEF IInv, OrderInv
<1>29. QED
  BY <1>1, <1>2, <1>3, <1>4, <1>5, <1>6, <1>7, <1>8, <1>9, <1>10, <1>11, <1>12, <1>13,
    <1>14, <1>15, <1>16, <1>17, <1>18, <1>19, <1>20, <1>21, <1>22, <1>23, <1>24, <1>25,
    <1>26, <1>27, <1>28 DEF Next, Environment, CommandThread, EngineThread, Monitor,
    Terminated, vars, MonitorPoll, MonitorPress, MonitorStop

-----------------------------------------------------------------------------
(* The ledger *)

\* Every step of the engine is one entry of the ledger, or none.
LEMMA LedgerStep == IInv /\ OrderInv /\ [Next]_vars => [Ledger!Next]_fate
<1> SUFFICES ASSUME IInv, OrderInv, [Next]_vars, fate' # fate PROVE Ledger!Next
  OBVIOUS
<1> USE DEF Ledger!Next, Ledger!Becomes, Ledger!State, OnTurn, InTurn
<1> fate \in [Prompts -> Fates] /\ Prompts \subseteq Int
  BY DEF IInv, TypeInv, HistoryTypes, Prompts
<1>1. CASE ReceiveSubmit
  <2> DEFINE p == sentPrompts + 1
  <2>1. p \in Prompts /\ fate[p] = "unsent"
    BY <1>1, BoundsAssumption DEF ReceiveSubmit, IInv, TypeInv, CountTypes, OrderInv,
      SentOnes, Prompts
  <2>2. Ledger!NextToSend(p)
    BY <2>1, BoundsAssumption DEF Ledger!NextToSend, IInv, TypeInv, CountTypes,
      OrderInv, SentOnes, Prompts
  <2>3. CASE answer # NoQuestion
    <3>1. cur \in Prompts /\ fate[cur] = "running"
      BY <2>3 DEF IInv, QuestionInv, PendingIsAsked, OrderInv, CurrentFate
    <3>2. Ledger!AcceptAsAnswer(p)
      BY <1>1, <2>1, <2>2, <2>3, <3>1 DEF ReceiveSubmit, Ledger!AcceptAsAnswer
    <3>3. QED
      BY <2>1, <3>2
  <2>4. CASE answer = NoQuestion
    <3>1. Ledger!Accept(p)
      BY <1>1, <2>1, <2>2, <2>4 DEF ReceiveSubmit, Ledger!Accept
    <3>2. QED
      BY <2>1, <3>1
  <2>5. QED
    BY <2>3, <2>4
<1>2. CASE SendAnswer
  <2>1. /\ cmd.pc = "sendAnswer" /\ cmd.item.kind = "submit"
        /\ fate' = [fate EXCEPT ![cmd.item.id] = "lost"]
    BY <1>2 DEF SendAnswer
  <2>2. cmd.item.id \in Prompts /\ fate[cmd.item.id] = "answering"
    BY <2>1 DEF IInv, TypeInv, CommandTypes, OrderInv, AnswerIsKept
  <2>3. Ledger!Settle(cmd.item.id)
    BY <2>1, <2>2 DEF Ledger!Settle
  <2>4. QED
    BY <2>2, <2>3
<1>3. CASE Answered \/ Withdraw
  <2>1. /\ pc \in {"waiting", "withdraw"} /\ reply.kind = "submit"
        /\ \E f \in {"answered", "lost"} : fate' = [fate EXCEPT ![reply.id] = f]
    BY <1>3 DEF Answered, Withdraw
  <2>2. reply.id \in Prompts /\ fate[reply.id] = "answering"
    BY <2>1 DEF OrderInv, AnswerIsKept
  <2>3. Ledger!Settle(reply.id)
    BY <2>1, <2>2 DEF Ledger!Settle
  <2>4. QED
    BY <2>2, <2>3
<1>4. CASE RefusePrompt \/ ForPrompt
  <2>1. /\ pc = "take" /\ cur \in Prompts /\ fate[cur] = "queued"
        /\ \/ fate' = [fate EXCEPT ![cur] = "ended"]
           \/ fate' = [fate EXCEPT ![cur] = "running"]
    BY <1>4 DEF RefusePrompt, ForPrompt, IInv, TypeInv, ThreadTypes, OrderInv,
      CurrentFate
  <2>2. Ledger!Idle
    BY <2>1 DEF Ledger!Idle, OrderInv, CurrentFate
  <2>3. \A q \in Prompts : fate[q] = "queued" => cur <= q
    <3>1. SUFFICES ASSUME NEW q \in Prompts, fate[q] = "queued", q # cur PROVE cur <= q
      BY <2>1
    <3>2. \/ cmd.pc = "sendPrompt" /\ q = sentPrompts
          \/ \E k \in 1..Len(queue) : PromptAt(k) /\ queue[k].id = q
      BY <2>1, <3>1 DEF OrderInv, WaitingIsKept
    <3>3. cur < q
      BY <2>1, <3>2 DEF OrderInv, HeldPrompt, QueueInOrder
    <3>4. QED
      BY <2>1, <3>3
  <2>4. Ledger!OldestQueued(cur)
    BY <2>3 DEF Ledger!OldestQueued
  <2>5. Ledger!Start(cur) \/ Ledger!Refuse(cur)
    BY <2>1, <2>2, <2>4 DEF Ledger!Start, Ledger!Refuse
  <2>6. QED
    BY <2>1, <2>5
<1>5. CASE DropRunning
  <2>1. cur \in Prompts /\ fate[cur] = "running" /\ fate' = [fate EXCEPT ![cur] = "ended"]
    BY <1>5 DEF DropRunning, OrderInv, CurrentFate
  <2>2. Ledger!End(cur)
    BY <2>1 DEF Ledger!End
  <2>3. QED
    BY <2>1, <2>2
<1>6. CASE Finish
  <2>1. cur \in Prompts /\ fate[cur] = "ended" /\ fate' = [fate EXCEPT ![cur] = "finished"]
    BY <1>6 DEF Finish, OrderInv, CurrentFate
  <2>2. Ledger!Finish(cur)
    BY <2>1 DEF Ledger!Finish
  <2>3. QED
    BY <2>1, <2>2
<1> HIDE DEF Ledger!Next
<1>7. QED
  BY <1>1, <1>2, <1>3, <1>4, <1>5, <1>6 DEF Next, Environment, CommandThread,
    EngineThread, Monitor, Terminated, vars, ReceiveInterrupt, SendPrompt,
    ReceiveShutdown, ShutdownStopsTurn, ShutdownDropsAnswer, SendShutdown, Take,
    Prepare, Watch, Recheck, Completes, Stops, Panics, JoinMonitor, CallTool, Ask,
    GiveUp, ReceiveAnswer, ReceiveOther, MonitorPoll, MonitorPress, MonitorStop

-----------------------------------------------------------------------------
(* Interrupts *)

\* What the lemmas below need of the types.
LEMMA FateTypes == IInv => /\ fate \in [Prompts -> Fates] /\ Prompts \subseteq Int
                           /\ sentPrompts \in Nat /\ cur \in Tokens \cup {NoTurn}
                           /\ pc = "take" => cur \in Prompts
BY BoundsAssumption DEF IInv, TypeInv, HistoryTypes, CountTypes, ThreadTypes, Prompts

\* The running prompt is the engine thread's.
LEMMA RunningIsCurrent ==
  OrderInv => Running = IF pc \in OnTurn /\ cur \in Prompts THEN {cur} ELSE {}
BY DEF OrderInv, CurrentFate, Running

\* So the waiting prompts can be counted.
LEMMA WaitingIsFinite == IsFiniteSet(Waiting) /\ Cardinality(Waiting) \in Nat
<1>1. IsFiniteSet(Prompts)
  BY BoundsAssumption, FS_Interval DEF Prompts
<1>2. IsFiniteSet(Waiting)
  BY <1>1, FS_Subset DEF Waiting
<1>3. QED
  BY <1>2, FS_CardinalityType

\* Taking the prompt uncounts it.
LEMMA TakenIsUncounted ==
  ASSUME IInv, OrderInv, WaitingAreCounted, pc = "take", NEW f \in Fates \ {"queued"},
         fate' = [fate EXCEPT ![cur] = f], queuedPrompts' = Saturating(queuedPrompts)
  PROVE  WaitingAreCounted' /\ Waiting' = Waiting \ {cur} /\ cur \in Waiting
<1>1. cur \in Waiting /\ Waiting' = Waiting \ {cur}
  BY FateTypes DEF OrderInv, CurrentFate, Waiting
<1>2. Cardinality(Waiting') = Cardinality(Waiting) - 1
  BY <1>1, WaitingIsFinite, FS_RemoveElement
<1>3. Cardinality(Waiting) # 0
  BY <1>1, WaitingIsFinite, FS_EmptySet
<1>4. QED
  BY <1>1, <1>2, <1>3, WaitingIsFinite DEF WaitingAreCounted, Saturating

\* A Submit joins the waiting prompts as the last of them, or not at all.
LEMMA SubmitWaitsLast ==
  ASSUME IInv, OrderInv, ReceiveSubmit
  PROVE  /\ sentPrompts + 1 \in Prompts /\ fate[sentPrompts + 1] = "unsent"
         /\ \E f \in {"queued", "answering"} : fate' = [fate EXCEPT ![sentPrompts + 1] = f]
         /\ Running' = Running /\ \A q \in Waiting : q < sentPrompts + 1
         /\ Waiting' \in {Waiting, Waiting \cup {sentPrompts + 1}}
<1>1. sentPrompts + 1 \in Prompts /\ fate[sentPrompts + 1] = "unsent"
  BY FateTypes, BoundsAssumption DEF ReceiveSubmit, OrderInv, SentOnes, Prompts
<1>2. \E f \in {"queued", "answering"} : fate' = [fate EXCEPT ![sentPrompts + 1] = f]
  BY DEF ReceiveSubmit
<1>3. \A q \in Waiting : q < sentPrompts + 1
  BY FateTypes DEF OrderInv, SentOnes, Waiting
<1>4. Running' = Running
  BY <1>1, <1>2, FateTypes DEF Running
<1>5. Waiting' \in {Waiting, Waiting \cup {sentPrompts + 1}}
  BY <1>1, <1>2, FateTypes DEF Waiting
<1>6. QED
  BY <1>1, <1>2, <1>3, <1>4, <1>5

\* A prompt that answers a question neither waits nor runs.
LEMMA AnswersDoNotWait ==
  ASSUME IInv, OrderInv, SendAnswer \/ Answered \/ Withdraw
  PROVE  /\ Running' = Running /\ Waiting' = Waiting
         /\ \A p \in Prompts : \/ fate'[p] = fate[p]
                               \/ fate[p] = "answering" /\ fate'[p] \in {"answered", "lost"}
<1>1. \A p \in Prompts : \/ fate'[p] = fate[p]
                         \/ fate[p] = "answering" /\ fate'[p] \in {"answered", "lost"}
  <2>1. CASE SendAnswer
    BY <2>1, FateTypes DEF SendAnswer, OrderInv, AnswerIsKept
  <2>2. CASE Answered
    BY <2>2, FateTypes DEF Answered, OrderInv, AnswerIsKept
  <2>3. CASE Withdraw
    BY <2>3, FateTypes DEF Withdraw, OrderInv, AnswerIsKept
  <2>4. QED
    BY <2>1, <2>2, <2>3
<1>2. QED
  BY <1>1 DEF Running, Waiting

\* The prompt the engine takes up is the one that waits longest, and no other runs.
LEMMA OldestIsTaken ==
  ASSUME IInv, OrderInv, RefusePrompt \/ ForPrompt
  PROVE  /\ cur \in Prompts /\ Running = {} /\ Oldest(Waiting) = {cur}
         /\ Waiting' = Waiting \ {cur}
         /\ Running' = IF ForPrompt THEN {cur} ELSE {}
<1>1. pc = "take" /\ cur \in Prompts /\ fate[cur] = "queued"
  BY FateTypes DEF RefusePrompt, ForPrompt, OrderInv, CurrentFate
<1>2. Running = {}
  BY <1>1, RunningIsCurrent DEF OnTurn, InTurn
<1>3. \A q \in Waiting : cur <= q
  <2>1. SUFFICES ASSUME NEW q \in Waiting, q # cur PROVE cur < q
    BY <1>1, FateTypes DEF Waiting
  <2>2. \/ cmd.pc = "sendPrompt" /\ q = sentPrompts
        \/ \E k \in 1..Len(queue) : PromptAt(k) /\ queue[k].id = q
    BY <1>1, <2>1 DEF OrderInv, WaitingIsKept, Waiting
  <2>3. QED
    BY <1>1, <2>2 DEF OrderInv, HeldPrompt, QueueInOrder
<1>4. Oldest(Waiting) = {cur}
  BY <1>1, <1>3, FateTypes DEF Oldest, Waiting
<1>5. Waiting' = Waiting \ {cur} /\ Running' = IF ForPrompt THEN {cur} ELSE {}
  <2>1. CASE ForPrompt
    BY <1>1, <1>2, <2>1, FateTypes DEF ForPrompt, Waiting, Running
  <2>2. CASE RefusePrompt
    BY <1>1, <1>2, <2>2, FateTypes DEF ForPrompt, RefusePrompt, Waiting, Running
  <2>3. QED
    BY <2>1, <2>2
<1>6. QED
  BY <1>1, <1>2, <1>4, <1>5

\* A turn that ends leaves the waiting prompts alone.
LEMMA EndedTurnRuns ==
  ASSUME IInv, OrderInv, DropRunning \/ Finish
  PROVE  /\ Waiting' = Waiting
         /\ Running' = IF DropRunning THEN {} ELSE Running
<1>1. CASE DropRunning
  <2>1. /\ pc = "drop"
        /\ IF cur \in Prompts THEN fate' = [fate EXCEPT ![cur] = "ended"] ELSE fate' = fate
    BY <1>1 DEF DropRunning
  <2>2. Running = IF cur \in Prompts THEN {cur} ELSE {}
    BY <2>1, RunningIsCurrent DEF OnTurn
  <2>3. QED
    BY <1>1, <2>1, <2>2, FateTypes DEF Waiting, Running
<1>2. CASE Finish
  <2>1. /\ pc = "finish"
        /\ IF cur \in Prompts THEN fate' = [fate EXCEPT ![cur] = "finished"] ELSE fate' = fate
    BY <1>2 DEF Finish
  <2>2. ~DropRunning /\ (cur \in Prompts => fate[cur] = "ended")
    BY <2>1 DEF DropRunning, OrderInv, CurrentFate
  <2>3. QED
    BY <2>1, <2>2, FateTypes DEF Waiting, Running
<1>3. QED
  BY <1>1, <1>2

\* The two locks follow the engine thread.
LEMMA NextLocksFollow == IInv /\ LocksFollow /\ [Next]_vars => LocksFollow'
<1> SUFFICES ASSUME IInv, LocksFollow, [Next]_vars PROVE LocksFollow'
  OBVIOUS
<1> USE BoundsAssumption DEF IInv, TypeInv, ThreadTypes, LockTypes, LocksFollow,
  sentVars, cmdVars, lockVars, askVars, tokenVars, monitorVars, historyVars, engineVars,
  Prompts, NoTurn, SignIn, Tokens, NoItem, Item, EnginePC, Busy, OnTurn, InTurn
<1>1. CASE Take
  BY <1>1 DEF Take, AfterCommand, To
<1>2. CASE RefusePrompt
  BY <1>2 DEF RefusePrompt, To
<1>3. CASE ForPrompt
  BY <1>3 DEF ForPrompt, To
<1>4. CASE Prepare
  BY <1>4 DEF Prepare, To
<1>5. CASE Watch
  BY <1>5 DEF Watch, PressedEarly, To
<1>6. CASE Recheck
  BY <1>6 DEF Recheck, StopTurn, To
<1>7. CASE Completes
  BY <1>7 DEF Completes
<1>8. CASE Stops
  BY <1>8 DEF Stops, To
<1>9. CASE Panics
  BY <1>9 DEF Panics, To
<1>10. CASE JoinMonitor
  BY <1>10 DEF JoinMonitor, To
<1>11. CASE DropRunning
  BY <1>11 DEF DropRunning, To
<1>12. CASE Finish
  BY <1>12 DEF Finish, AfterCommand
<1>13. CASE CallTool
  BY <1>13 DEF CallTool, To
<1>14. CASE Ask
  BY <1>14 DEF Ask, To
<1>15. CASE Answered
  BY <1>15 DEF Answered, To
<1>16. CASE GiveUp
  BY <1>16 DEF GiveUp, To
<1>17. CASE Withdraw
  BY <1>17 DEF Withdraw, To
<1>18. CASE UNCHANGED <<presses, turn, pc, cur>>
  BY <1>18
<1> HIDE DEF IInv, TypeInv, OrderInv, LocksFollow
<1>19. QED
  BY <1>1, <1>2, <1>3, <1>4, <1>5, <1>6, <1>7, <1>8, <1>9, <1>10, <1>11, <1>12, <1>13,
    <1>14, <1>15, <1>16, <1>17, <1>18 DEF Next, Environment, CommandThread,
    EngineThread, Monitor, Terminated, vars, sentVars, cmdVars, lockVars, askVars,
    tokenVars, monitorVars, historyVars, engineVars, ReceiveInterrupt, ReceiveSubmit,
    SendPrompt, Send, CommandTo, SendAnswer, ReceiveShutdown, ShutdownStopsTurn,
    StopTurn, ShutdownDropsAnswer, SendShutdown, ReceiveAnswer, ReceiveOther,
    MonitorPoll, MonitorPress, MonitorStop, To

\* As many prompts are counted as wait.
LEMMA NextWaitingAreCounted ==
  IInv /\ OrderInv /\ WaitingAreCounted /\ [Next]_vars => WaitingAreCounted'
<1> SUFFICES ASSUME IInv, OrderInv, WaitingAreCounted, [Next]_vars
             PROVE WaitingAreCounted'
  OBVIOUS
<1> USE DEF WaitingAreCounted
<1>1. CASE ReceiveSubmit
  <2> DEFINE p == sentPrompts + 1
  <2>1. p \in Prompts /\ fate[p] = "unsent"
    BY <1>1, FateTypes, BoundsAssumption DEF ReceiveSubmit, OrderInv, SentOnes, Prompts
  <2>2. CASE answer # NoQuestion
    <3>1. Waiting' = Waiting /\ queuedPrompts' = queuedPrompts
      BY <1>1, <2>1, <2>2, FateTypes DEF ReceiveSubmit, Waiting
    <3>2. QED
      BY <3>1
  <2>3. CASE answer = NoQuestion
    <3>1. Waiting' = Waiting \cup {p} /\ queuedPrompts' = queuedPrompts + 1
      BY <1>1, <2>1, <2>3, FateTypes DEF ReceiveSubmit, Waiting
    <3>2. p \notin Waiting
      BY <2>1 DEF Waiting
    <3>3. QED
      BY <3>1, <3>2, WaitingIsFinite, FS_AddElement
  <2>4. QED
    BY <2>2, <2>3
<1>2. CASE SendAnswer
  <2>1. queuedPrompts' = queuedPrompts
    BY <1>2 DEF SendAnswer, lockVars
  <2>2. Waiting' = Waiting
    BY <1>2, FateTypes DEF SendAnswer, Waiting, OrderInv, AnswerIsKept
  <2>3. QED
    BY <2>1, <2>2
<1>3. CASE RefusePrompt
  <2>1. pc = "take" /\ fate' = [fate EXCEPT ![cur] = "ended"]
    BY <1>3 DEF RefusePrompt
  <2>2. queuedPrompts' = Saturating(queuedPrompts)
    BY <1>3 DEF RefusePrompt
  <2>3. "ended" \in Fates \ {"queued"} /\ "running" \in Fates \ {"queued"}
    BY DEF Fates
  <2> HIDE DEF WaitingAreCounted
  <2>4. QED
    BY <2>1, <2>2, <2>3, TakenIsUncounted
<1>4. CASE ForPrompt
  <2>1. pc = "take" /\ fate' = [fate EXCEPT ![cur] = "running"]
    BY <1>4 DEF ForPrompt
  <2>2. queuedPrompts' = Saturating(queuedPrompts)
    BY <1>4 DEF ForPrompt
  <2>3. "ended" \in Fates \ {"queued"} /\ "running" \in Fates \ {"queued"}
    BY DEF Fates
  <2> HIDE DEF WaitingAreCounted
  <2>4. QED
    BY <2>1, <2>2, <2>3, TakenIsUncounted
<1>5. CASE DropRunning
  <2>1. queuedPrompts' = queuedPrompts
    BY <1>5 DEF DropRunning
  <2>2. Waiting' = Waiting
    BY <1>5, FateTypes DEF DropRunning, Waiting, OrderInv, CurrentFate, OnTurn
  <2>3. QED
    BY <2>1, <2>2
<1>6. CASE Finish
  <2>1. queuedPrompts' = queuedPrompts
    BY <1>6 DEF Finish, lockVars
  <2>2. Waiting' = Waiting
    BY <1>6, FateTypes DEF Finish, Waiting, OrderInv, CurrentFate
  <2>3. QED
    BY <2>1, <2>2
<1>7. CASE Answered
  <2>1. queuedPrompts' = queuedPrompts
    BY <1>7 DEF Answered, lockVars
  <2>2. Waiting' = Waiting
    BY <1>7, FateTypes DEF Answered, Waiting, OrderInv, AnswerIsKept
  <2>3. QED
    BY <2>1, <2>2
<1>8. CASE Withdraw
  <2>1. queuedPrompts' = queuedPrompts
    BY <1>8 DEF Withdraw, lockVars
  <2>2. Waiting' = Waiting
    BY <1>8, FateTypes DEF Withdraw, Waiting, OrderInv, AnswerIsKept
  <2>3. QED
    BY <2>1, <2>2
<1>9. CASE UNCHANGED <<queuedPrompts, fate>>
  BY <1>9 DEF Waiting
<1> HIDE DEF IInv, TypeInv, OrderInv, WaitingAreCounted
<1>10. QED
  BY <1>1, <1>2, <1>3, <1>4, <1>5, <1>6, <1>7, <1>8, <1>9 DEF Next, Environment,
    CommandThread, EngineThread, Monitor, Terminated, vars, sentVars, cmdVars, lockVars,
    askVars, tokenVars, monitorVars, historyVars, engineVars, ReceiveInterrupt,
    SendPrompt, Send, CommandTo, ReceiveShutdown, ShutdownStopsTurn, StopTurn,
    ShutdownDropsAnswer, SendShutdown, Take, AfterCommand, To, Prepare, Watch,
    PressedEarly, Recheck, Completes, Stops, Panics, JoinMonitor, CallTool, Ask, GiveUp,
    ReceiveAnswer, ReceiveOther, MonitorPoll, MonitorPress, MonitorStop


\* What an interrupt does, by where the engine thread is: it presses the running
\* prompt's monitor, cancels the sign-in, is kept for the prompt that waits longest, or
\* has nobody to stop.
PressesRunning(p) ==
  /\ Running = {p} /\ cur = p /\ pc \in OnTurn /\ Meant = {p}
  /\ \/ /\ monitor[p] = "waiting"
        /\ monitor' = [monitor EXCEPT ![p] = "woken"] /\ permit' = permit
     \/ /\ monitor[p] # "waiting"
        /\ permit' = permit \cup {p} /\ monitor' = monitor
  /\ \/ turn = p /\ cancelled' = cancelled \cup {p} /\ early' = early
     \/ turn = NoTurn /\ early' = TRUE /\ cancelled' = cancelled
CancelsSignIn ==
  /\ Running = {} /\ Meant = {} /\ turn = SignIn /\ cancelled' = cancelled \cup {SignIn}
  /\ UNCHANGED <<early, monitor, permit>>
KeptForOldest ==
  /\ Running = {} /\ Waiting # {} /\ Meant = Oldest(Waiting) /\ early' = TRUE
  /\ UNCHANGED <<cancelled, monitor, permit>>
StopsNobody ==
  /\ Running = {} /\ Meant = {} /\ UNCHANGED <<early, cancelled, monitor, permit>>

\* Shared::interrupt does one of the four.
LEMMA InterruptEffect ==
  ASSUME IInv, OrderInv, LocksFollow, WaitingAreCounted, ReceiveInterrupt
  PROVE  \/ \E p \in Prompts : PressesRunning(p)
         \/ CancelsSignIn \/ KeptForOldest \/ StopsNobody
<1>1. turn \in {NoTurn, SignIn, cur} /\ NoTurn \notin Prompts /\ SignIn \notin Prompts
  BY BoundsAssumption DEF IInv, TypeInv, ThreadTypes, LocksFollow, EnginePC, OnTurn,
    InTurn, Prompts, NoTurn, SignIn
<1>2. CASE presses # NoTurn
  <2>1. pc \in OnTurn /\ cur \in Prompts /\ presses = cur /\ Running = {cur}
    BY <1>2, RunningIsCurrent DEF LocksFollow
  <2>2. Meant = {cur}
    BY <2>1 DEF Meant
  <2>3. turn \in {NoTurn, cur}
    BY <2>1 DEF LocksFollow, OnTurn, InTurn
  <2>4. /\ Press(cur)
        /\ IF turn # NoTurn THEN cancelled' = cancelled \cup {turn} /\ UNCHANGED early
           ELSE early' = TRUE /\ UNCHANGED cancelled
    BY <1>2, <2>1 DEF ReceiveInterrupt, Interrupt
  <2>5. PressesRunning(cur)
    BY <2>1, <2>2, <2>3, <2>4, <1>1 DEF PressesRunning, Press
  <2>6. QED
    BY <2>1, <2>5
<1>3. CASE presses = NoTurn
  <2>1. Running = {} /\ ~(pc \in OnTurn /\ cur \in Prompts)
    BY <1>1, <1>3, RunningIsCurrent DEF LocksFollow
  <2>2. turn \in {NoTurn, SignIn}
    BY <1>1, <2>1 DEF LocksFollow, OnTurn, InTurn, IInv, TypeInv, ThreadTypes, EnginePC,
      Tokens
  <2>3. CASE turn = SignIn
    <3>1. turn # NoTurn
      BY <2>3, BoundsAssumption DEF SignIn, NoTurn
    <3>2. Meant = {}
      BY <2>1, <2>3 DEF Meant
    <3>3. cancelled' = cancelled \cup {turn} /\ UNCHANGED <<early, monitor, permit>>
      BY <1>3, <3>1 DEF ReceiveInterrupt, Interrupt
    <3>4. QED
      BY <2>1, <2>3, <3>2, <3>3 DEF CancelsSignIn
  <2>4. CASE turn = NoTurn
    <3>1. SignIn # NoTurn /\ Meant = Oldest(Waiting)
      BY <2>1, <2>4, BoundsAssumption DEF SignIn, NoTurn, Meant
    <3>2. CASE PromptIsComing
      <4>1. Waiting # {}
        BY <3>2, FS_EmptySet DEF PromptIsComing, WaitingAreCounted
      <4>2. early' = TRUE /\ UNCHANGED <<cancelled, monitor, permit>>
        BY <1>3, <2>4, <3>2 DEF ReceiveInterrupt, Interrupt
      <4>3. QED
        BY <2>1, <3>1, <4>1, <4>2 DEF KeptForOldest
    <3>3. CASE ~PromptIsComing
      <4>1. Waiting = {}
        BY <3>3, WaitingIsFinite, FS_EmptySet DEF PromptIsComing, WaitingAreCounted
      <4>2. Meant = {}
        BY <3>1, <4>1 DEF Oldest
      <4>3. UNCHANGED <<early, cancelled, monitor, permit>>
        BY <1>3, <2>4, <3>3 DEF ReceiveInterrupt, Interrupt
      <4>4. QED
        BY <2>1, <4>2, <4>3 DEF StopsNobody
    <3>4. QED
      BY <3>2, <3>3
  <2>5. QED
    BY <2>2, <2>3, <2>4
<1>4. QED
  BY <1>2, <1>3

\* Every monitor follows its prompt's turn.
LEMMA NextMonitorFollows ==
  IInv /\ OrderInv /\ MonitorFollows /\ [Next]_vars => MonitorFollows'
<1> SUFFICES ASSUME IInv, OrderInv, MonitorFollows, [Next]_vars PROVE MonitorFollows'
  OBVIOUS
<1>a. ASSUME ReceiveSubmit PROVE \A p \in Prompts :
        \/ fate'[p] = fate[p]
        \/ fate[p] = "unsent" /\ fate'[p] \in {"queued", "answering"}
  BY <1>a, SubmitWaitsLast, FateTypes
<1>b. ASSUME SendAnswer \/ Answered \/ Withdraw
      PROVE  \A p \in Prompts :
               \/ fate'[p] = fate[p]
               \/ fate[p] = "answering" /\ fate'[p] \in {"answered", "lost"}
  BY <1>b, AnswersDoNotWait
<1> USE BoundsAssumption DEF IInv, TypeInv, ThreadTypes, HistoryTypes, MonitorTypes,
  OrderInv, CurrentFate, MonitorFollows, sentVars, cmdVars, lockVars, askVars,
  tokenVars, monitorVars, historyVars, engineVars, Prompts, NoTurn, SignIn, Tokens,
  NoItem, Item, EnginePC, Busy, OnTurn, InTurn
<1>1. CASE ReceiveInterrupt
  <2>1. UNCHANGED <<fate, stopping, seen, aborted, pc, cur>>
    BY <1>1 DEF ReceiveInterrupt
  <2>2. Press(presses) \/ UNCHANGED <<monitor, permit>>
    BY <1>1 DEF ReceiveInterrupt, Interrupt
  <2>3. QED
    BY <2>1, <2>2 DEF Press
<1>2. CASE ReceiveSubmit
  <2>1. UNCHANGED <<monitor, stopping, permit, seen, aborted, pc, cur>>
    BY <1>2 DEF ReceiveSubmit
  <2>2. QED
    BY <1>2, <2>1, <1>a
<1>3. CASE SendAnswer
  <2>1. UNCHANGED <<monitor, stopping, permit, seen, aborted, pc, cur>>
    BY <1>3 DEF SendAnswer
  <2>2. QED
    BY <1>3, <2>1, <1>b
<1>4. CASE ShutdownStopsTurn
  BY <1>4 DEF ShutdownStopsTurn, StopTurn, CommandTo
<1>5. CASE Take
  BY <1>5 DEF Take, AfterCommand, To
<1>6. CASE RefusePrompt
  BY <1>6 DEF RefusePrompt, To
<1>7. CASE ForPrompt
  BY <1>7 DEF ForPrompt, To
<1>8. CASE Prepare
  BY <1>8 DEF Prepare, To
<1>9. CASE Watch
  BY <1>9 DEF Watch, PressedEarly, To
<1>10. CASE Recheck
  BY <1>10 DEF Recheck, StopTurn, To
<1>11. CASE Completes
  BY <1>11 DEF Completes
<1>12. CASE Stops
  BY <1>12 DEF Stops, To
<1>13. CASE Panics
  BY <1>13 DEF Panics, To
<1>14. CASE JoinMonitor
  BY <1>14 DEF JoinMonitor, To
<1>15. CASE DropRunning
  BY <1>15 DEF DropRunning, To
<1>16. CASE Finish
  BY <1>16 DEF Finish, AfterCommand
<1>17. CASE CallTool
  BY <1>17 DEF CallTool, To
<1>18. CASE Ask
  BY <1>18 DEF Ask, To
<1>19. CASE Answered
  <2>1. /\ UNCHANGED <<monitor, stopping, permit, seen, aborted, cur>>
        /\ pc = "waiting" /\ pc' = "running"
    BY <1>19 DEF Answered, To
  <2>2. QED
    BY <1>19, <2>1, <1>b
<1>20. CASE GiveUp
  BY <1>20 DEF GiveUp, To
<1>21. CASE Withdraw
  <2>1. /\ UNCHANGED <<monitor, stopping, permit, seen, aborted, cur>>
        /\ pc = "withdraw" /\ pc' = "running"
    BY <1>21 DEF Withdraw, To
  <2>2. QED
    BY <1>21, <2>1, <1>b
<1>22. ASSUME NEW p \in Prompts, MonitorPoll(p) PROVE MonitorFollows'
  BY <1>22 DEF MonitorPoll
<1>23. ASSUME NEW p \in Prompts, MonitorPress(p) PROVE MonitorFollows'
  BY <1>23 DEF MonitorPress
<1>24. ASSUME NEW p \in Prompts, MonitorStop(p) PROVE MonitorFollows'
  BY <1>24 DEF MonitorStop
<1>25. CASE UNCHANGED <<fate, monitor, stopping, permit, seen, aborted, pc, cur>>
  BY <1>25
<1> HIDE DEF IInv, TypeInv, OrderInv, MonitorFollows
<1>26. QED
  BY <1>1, <1>2, <1>3, <1>4, <1>5, <1>6, <1>7, <1>8, <1>9, <1>10, <1>11, <1>12, <1>13,
    <1>14, <1>15, <1>16, <1>17, <1>18, <1>19, <1>20, <1>21, <1>22, <1>23, <1>24, <1>25
    DEF Next, Environment, CommandThread, EngineThread, Monitor, Terminated, vars,
    sentVars, cmdVars, lockVars, askVars, tokenVars, monitorVars, historyVars,
    engineVars, SendPrompt, Send, CommandTo, ReceiveShutdown, ShutdownDropsAnswer,
    SendShutdown, ReceiveAnswer, ReceiveOther, To

\* A kept interrupt was meant for the prompt that comes next.
LEMMA NextEarlyIsMeant ==
  IInv /\ OrderInv /\ LocksFollow
    /\ WaitingAreCounted /\ EarlyIsMeant /\ [Next]_vars => EarlyIsMeant'
<1> SUFFICES ASSUME IInv, OrderInv, LocksFollow, WaitingAreCounted, EarlyIsMeant,
                    [Next]_vars
             PROVE EarlyIsMeant'
  OBVIOUS
<1> USE DEF EarlyIsMeant
<1>1. CASE ReceiveInterrupt
  <2>1. /\ Running' = Running /\ Waiting' = Waiting /\ interrupted' = interrupted \cup Meant
        /\ Oldest(Waiting)' = Oldest(Waiting)
    BY <1>1 DEF ReceiveInterrupt, Running, Waiting, Oldest
  <2>2. CASE \E p \in Prompts : PressesRunning(p)
    BY <2>1, <2>2 DEF PressesRunning
  <2>3. CASE CancelsSignIn
    BY <2>1, <2>3 DEF CancelsSignIn
  <2>4. CASE KeptForOldest
    BY <2>1, <2>4 DEF KeptForOldest
  <2>5. CASE StopsNobody
    BY <2>1, <2>5 DEF StopsNobody
  <2>6. QED
    BY <1>1, <2>2, <2>3, <2>4, <2>5, InterruptEffect
<1>2. CASE ReceiveSubmit
  <2>1. early' = early /\ interrupted' = interrupted
    BY <1>2 DEF ReceiveSubmit, historyVars
  <2>2. /\ Running' = Running /\ \A q \in Waiting : q < sentPrompts + 1
        /\ Waiting' \in {Waiting, Waiting \cup {sentPrompts + 1}}
    BY <1>2, SubmitWaitsLast
  <2>3. Waiting # {} => Oldest(Waiting') \subseteq Oldest(Waiting)
    BY <2>2, FateTypes DEF Oldest, Waiting
  <2>4. QED
    BY <2>1, <2>2, <2>3
<1>3. CASE SendAnswer
  <2>1. early' = early /\ interrupted' = interrupted
    BY <1>3 DEF SendAnswer, historyVars, lockVars
  <2>2. QED
    BY <1>3, <2>1, AnswersDoNotWait
<1>4. CASE Answered
  <2>1. early' = early /\ interrupted' = interrupted
    BY <1>4 DEF Answered, historyVars, lockVars
  <2>2. QED
    BY <1>4, <2>1, AnswersDoNotWait
<1>5. CASE Withdraw
  <2>1. early' = early /\ interrupted' = interrupted
    BY <1>5 DEF Withdraw, historyVars, lockVars
  <2>2. QED
    BY <1>5, <2>1, AnswersDoNotWait
<1>6. CASE RefusePrompt
  BY <1>6 DEF RefusePrompt
<1>7. CASE ForPrompt
  <2>1. early' = early /\ interrupted' = interrupted
    BY <1>7 DEF ForPrompt, historyVars
  <2>2. QED
    BY <1>7, <2>1, OldestIsTaken
<1>8. CASE Watch
  <2>1. (early' => early) /\ fate' = fate /\ interrupted' = interrupted
    BY <1>8 DEF Watch, historyVars
  <2>2. QED
    BY <2>1 DEF Running, Waiting, Oldest
<1>9. CASE DropRunning
  <2>1. CASE cur \in Prompts
    BY <1>9, <2>1 DEF DropRunning
  <2>2. CASE cur \notin Prompts
    <3>1. UNCHANGED <<early, fate, interrupted>>
      BY <1>9, <2>2 DEF DropRunning, historyVars
    <3>2. QED
      BY <3>1 DEF Running, Waiting, Oldest
  <2>3. QED
    BY <2>1, <2>2
<1>10. CASE Finish
  <2>1. early' = early /\ interrupted' = interrupted /\ ~DropRunning
    BY <1>10 DEF Finish, historyVars, lockVars, DropRunning
  <2>2. QED
    BY <1>10, <2>1, EndedTurnRuns
<1>11. CASE UNCHANGED <<fate, early, interrupted>>
  BY <1>11 DEF Running, Waiting, Oldest
<1> HIDE DEF IInv, TypeInv, OrderInv, EarlyIsMeant
<1>12. QED
  BY <1>1, <1>2, <1>3, <1>4, <1>5, <1>6, <1>7, <1>8, <1>9, <1>10, <1>11 DEF Next,
    Environment, CommandThread, EngineThread, Monitor, Terminated, vars, sentVars,
    cmdVars, lockVars, askVars, tokenVars, monitorVars, historyVars, engineVars,
    SendPrompt, Send, CommandTo, ReceiveShutdown, ShutdownStopsTurn, StopTurn,
    ShutdownDropsAnswer, SendShutdown, Take, AfterCommand, To, Prepare, Recheck,
    Completes, Stops, Panics, JoinMonitor, CallTool, Ask, GiveUp, ReceiveAnswer,
    ReceiveOther, MonitorPoll, MonitorPress, MonitorStop

\* Every press and every cancellation was meant for its prompt.
LEMMA NextKeptAreMeant ==
  IInv /\ OrderInv /\ LocksFollow /\ WaitingAreCounted
    /\ EarlyIsMeant /\ KeptAreMeant /\ [Next]_vars => KeptAreMeant'
<1> SUFFICES ASSUME IInv, OrderInv, LocksFollow, WaitingAreCounted, EarlyIsMeant,
                    KeptAreMeant, [Next]_vars
             PROVE KeptAreMeant'
  OBVIOUS
<1>a. ReceiveInterrupt => \/ \E p \in Prompts : PressesRunning(p)
                          \/ CancelsSignIn \/ KeptForOldest \/ StopsNobody
  BY InterruptEffect
<1>b. ForPrompt /\ early => cur \in interrupted
  BY OldestIsTaken DEF EarlyIsMeant
<1>c. pc = "watch" /\ early /\ cur \in Prompts => cur \in interrupted
  BY RunningIsCurrent DEF EarlyIsMeant, OnTurn
<1> USE BoundsAssumption DEF KeptAreMeant, IInv, TypeInv, ThreadTypes, MonitorTypes,
  CommandTypes, CommandPC, sentVars, cmdVars, lockVars, askVars, tokenVars, monitorVars,
  historyVars, engineVars, Prompts, NoTurn, SignIn, Tokens, NoItem, Item, EnginePC,
  Busy, OnTurn, InTurn
<1>1. CASE ReceiveInterrupt
  <2>1. interrupted' = interrupted \cup Meant /\ UNCHANGED <<closing, cmd>>
    BY <1>1 DEF ReceiveInterrupt
  <2>2. CASE \E p \in Prompts : PressesRunning(p)
    BY <2>1, <2>2 DEF PressesRunning
  <2>3. CASE CancelsSignIn
    BY <2>1, <2>3 DEF CancelsSignIn
  <2>4. CASE KeptForOldest
    BY <2>1, <2>4 DEF KeptForOldest
  <2>5. CASE StopsNobody
    BY <2>1, <2>5 DEF StopsNobody
  <2>6. QED
    BY <1>1, <2>2, <2>3, <2>4, <2>5, <1>a
<1>2. CASE ReceiveSubmit
  <2>1. UNCHANGED <<closing, interrupted, cancelled, permit, monitor>>
    BY <1>2 DEF ReceiveSubmit
  <2>2. CASE cmd' = [pc |-> "sendAnswer", item |-> Item("submit", sentPrompts + 1),
                     question |-> answer]
    BY <2>1, <2>2
  <2>3. CASE cmd' = [cmd EXCEPT !.pc = "sendPrompt", !.item = Item("submit", sentPrompts + 1)]
    BY <2>1, <2>3
  <2>4. QED
    BY <1>2, <2>2, <2>3 DEF ReceiveSubmit
<1>3. CASE SendPrompt
  BY <1>3 DEF SendPrompt, Send, CommandTo
<1>4. CASE SendAnswer
  BY <1>4 DEF SendAnswer, CommandTo
<1>5. CASE ReceiveShutdown
  BY <1>5 DEF ReceiveShutdown, CommandTo
<1>6. CASE ShutdownStopsTurn
  BY <1>6 DEF ShutdownStopsTurn, StopTurn, CommandTo
<1>7. CASE ShutdownDropsAnswer
  BY <1>7 DEF ShutdownDropsAnswer, CommandTo
<1>8. CASE SendShutdown
  BY <1>8 DEF SendShutdown, Send, CommandTo
<1>9. CASE Take
  BY <1>9 DEF Take, AfterCommand, To
<1>10. CASE ForPrompt
  <2>1. early => cur \in interrupted
    BY <1>10, <1>b
  <2>2. QED
    BY <1>10, <2>1 DEF ForPrompt, To
<1>11. CASE Prepare
  BY <1>11 DEF Prepare, To
<1>12. CASE Watch
  <2>1. early /\ cur \in Prompts => cur \in interrupted
    BY <1>12, <1>c DEF Watch
  <2>2. QED
    BY <1>12, <2>1 DEF Watch, PressedEarly, To
<1>13. CASE Recheck
  BY <1>13 DEF Recheck, StopTurn, To
<1>14. ASSUME NEW p \in Prompts, MonitorPoll(p) PROVE KeptAreMeant'
  BY <1>14 DEF MonitorPoll
<1>15. ASSUME NEW p \in Prompts, MonitorPress(p) PROVE KeptAreMeant'
  BY <1>15 DEF MonitorPress
<1>16. ASSUME NEW p \in Prompts, MonitorStop(p) PROVE KeptAreMeant'
  BY <1>16 DEF MonitorStop
<1>17. ASSUME NEW id \in Questions, ReceiveAnswer(id) PROVE KeptAreMeant'
  BY <1>17 DEF ReceiveAnswer
<1>18. ASSUME NEW kind \in {"login", "other", "exit"}, ReceiveOther(kind)
      PROVE  KeptAreMeant'
  BY <1>18 DEF ReceiveOther, Send, CommandTo
<1>19. CASE UNCHANGED <<cmd, closing, interrupted, cancelled, permit, monitor>>
  BY <1>19
<1> HIDE DEF IInv, TypeInv, OrderInv, KeptAreMeant
<1>20. QED
  BY <1>1, <1>2, <1>3, <1>4, <1>5, <1>6, <1>7, <1>8, <1>9, <1>10, <1>11, <1>12, <1>13,
    <1>14, <1>15, <1>16, <1>17, <1>18, <1>19 DEF Next, Environment, CommandThread,
    EngineThread, Monitor, Terminated, vars, sentVars, cmdVars, lockVars, askVars,
    tokenVars, monitorVars, historyVars, engineVars, RefusePrompt, To, Completes, Stops,
    Panics, JoinMonitor, DropRunning, Finish, AfterCommand, CallTool, Ask, Answered,
    GiveUp, Withdraw, ReceiveAnswer, ReceiveOther, Send, CommandTo

\* A waiting prompt's interrupt is kept for it.
LEMMA NextQueuedPress ==
  IInv /\ OrderInv /\ LocksFollow
    /\ WaitingAreCounted /\ QueuedPress /\ [Next]_vars => QueuedPress'
<1> SUFFICES ASSUME IInv, OrderInv, LocksFollow, WaitingAreCounted, QueuedPress,
                    [Next]_vars
             PROVE QueuedPress'
  OBVIOUS
<1> USE DEF QueuedPress
<1>1. CASE ReceiveInterrupt
  <2>1. /\ Running' = Running /\ Waiting' = Waiting /\ fate' = fate
        /\ Oldest(Waiting)' = Oldest(Waiting)
    BY <1>1 DEF ReceiveInterrupt, Running, Waiting, Oldest
  <2>2. \A p \in Prompts : pressed'[p] > 0 => pressed[p] > 0 \/ p \in Meant
    BY <1>1 DEF ReceiveInterrupt
  <2>3. \A p \in Meant : p \in Prompts /\ fate[p] # "unsent"
    BY DEF Meant, Running, Waiting, Oldest
  <2>5. CASE \E p \in Prompts : PressesRunning(p)
    BY <2>1, <2>2, <2>3, <2>5 DEF PressesRunning, Running
  <2>6. CASE CancelsSignIn
    BY <2>1, <2>2, <2>3, <2>6 DEF CancelsSignIn
  <2>7. CASE KeptForOldest
    BY <2>1, <2>2, <2>3, <2>7 DEF KeptForOldest
  <2>8. CASE StopsNobody
    BY <2>1, <2>2, <2>3, <2>8 DEF StopsNobody
  <2>9. QED
    BY <1>1, <2>5, <2>6, <2>7, <2>8, InterruptEffect
<1>2. CASE ReceiveSubmit
  <2>1. early' = early /\ pressed' = pressed
    BY <1>2 DEF ReceiveSubmit, historyVars
  <2>2. /\ Running' = Running /\ \A q \in Waiting : q < sentPrompts + 1
        /\ Waiting' \in {Waiting, Waiting \cup {sentPrompts + 1}}
        /\ sentPrompts + 1 \in Prompts /\ fate[sentPrompts + 1] = "unsent"
        /\ \A p \in Prompts : p # sentPrompts + 1 => fate'[p] = fate[p]
        /\ fate'[sentPrompts + 1] # "unsent"
    BY <1>2, SubmitWaitsLast, FateTypes
  <2>3. \A q \in Oldest(Waiting) : q \in Oldest(Waiting')
    BY <2>2, FateTypes DEF Oldest, Waiting
  <2>4. QED
    BY <2>1, <2>2, <2>3
<1>3. CASE SendAnswer
  <2>1. early' = early /\ pressed' = pressed
    BY <1>3 DEF SendAnswer, historyVars, lockVars
  <2>2. QED
    BY <1>3, <2>1, AnswersDoNotWait
<1>4. CASE Answered
  <2>1. early' = early /\ pressed' = pressed
    BY <1>4 DEF Answered, historyVars, lockVars
  <2>2. QED
    BY <1>4, <2>1, AnswersDoNotWait
<1>5. CASE Withdraw
  <2>1. early' = early /\ pressed' = pressed
    BY <1>5 DEF Withdraw, historyVars, lockVars
  <2>2. QED
    BY <1>5, <2>1, AnswersDoNotWait
<1>6. CASE RefusePrompt
  <2>1. pressed' = pressed /\ fate' = [fate EXCEPT ![cur] = "ended"]
    BY <1>6 DEF RefusePrompt, historyVars
  <2>2. QED
    BY <1>6, <2>1, OldestIsTaken, FateTypes
<1>7. CASE ForPrompt
  <2>1. pressed' = pressed /\ fate' = [fate EXCEPT ![cur] = "running"]
    BY <1>7 DEF ForPrompt, historyVars
  <2>2. QED
    BY <1>7, <2>1, OldestIsTaken, FateTypes
<1>8. CASE Watch
  <2>1. /\ pc = "watch" /\ fate' = fate /\ pressed' = pressed
        /\ cur \notin Prompts => early' = early
    BY <1>8 DEF Watch, historyVars, PressedEarly
  <2>2. cur \in Prompts => Running # {}
    BY <2>1, RunningIsCurrent DEF OnTurn
  <2>3. QED
    BY <2>1, <2>2 DEF Running, Waiting, Oldest
<1>9. CASE DropRunning
  <2>1. /\ pc = "drop" /\ pressed' = pressed
        /\ IF cur \in Prompts THEN fate' = [fate EXCEPT ![cur] = "ended"]
           ELSE fate' = fate /\ early' = early
    BY <1>9 DEF DropRunning, historyVars
  <2>2. cur \in Prompts => Running # {}
    BY <2>1, RunningIsCurrent DEF OnTurn
  <2>3. QED
    BY <1>9, <2>1, <2>2, EndedTurnRuns, FateTypes
<1>10. CASE Finish
  <2>1. /\ early' = early /\ pressed' = pressed /\ ~DropRunning
        /\ fate' = IF cur \in Prompts THEN [fate EXCEPT ![cur] = "finished"] ELSE fate
    BY <1>10 DEF Finish, historyVars, lockVars, DropRunning
  <2>2. QED
    BY <1>10, <2>1, EndedTurnRuns, FateTypes
<1>11. CASE UNCHANGED <<fate, early, pressed>>
  BY <1>11 DEF Running, Waiting, Oldest
<1> HIDE DEF IInv, TypeInv, OrderInv, QueuedPress
<1>12. QED
  BY <1>1, <1>2, <1>3, <1>4, <1>5, <1>6, <1>7, <1>8, <1>9, <1>10, <1>11 DEF Next,
    Environment, CommandThread, EngineThread, Monitor, Terminated, vars, sentVars,
    cmdVars, lockVars, askVars, tokenVars, monitorVars, historyVars, engineVars,
    SendPrompt, Send, CommandTo, ReceiveShutdown, ShutdownStopsTurn, StopTurn,
    ShutdownDropsAnswer, SendShutdown, Take, AfterCommand, To, Prepare, Recheck,
    Completes, Stops, Panics, JoinMonitor, CallTool, Ask, GiveUp, ReceiveAnswer,
    ReceiveOther, MonitorPoll, MonitorPress, MonitorStop

\* An interrupt is kept until it is in its turn's token and handled by its monitor.
LEMMA NextRunningPress ==
  IInv /\ OrderInv /\ LocksFollow /\ WaitingAreCounted
    /\ MonitorFollows /\ QueuedPress /\ RunningPress /\ [Next]_vars => RunningPress'
<1> SUFFICES ASSUME IInv, OrderInv, LocksFollow, WaitingAreCounted, MonitorFollows,
                    QueuedPress, RunningPress, [Next]_vars
             PROVE RunningPress'
  OBVIOUS
<1>a. ASSUME ReceiveInterrupt, NEW p \in Prompts, pressed'[p] > 0
      PROVE  pressed[p] > 0 \/ (p \in Meant /\ ~(pc \in {"ended", "drop"} /\ p = cur))
  BY <1>a DEF ReceiveInterrupt
<1> USE BoundsAssumption DEF IInv, TypeInv, ThreadTypes, HistoryTypes, MonitorTypes,
  LocksFollow, OrderInv, CurrentFate, MonitorFollows, RunningPress, sentVars, cmdVars,
  lockVars, askVars, tokenVars, monitorVars, historyVars, engineVars, Prompts, NoTurn,
  SignIn, Tokens, NoItem, Item, EnginePC, Busy, OnTurn, InTurn
<1>1. CASE ReceiveInterrupt
  <2>1. UNCHANGED <<aborted, pc, cur>>
    BY <1>1 DEF ReceiveInterrupt
  <2>2. cur \in Prompts /\ monitor[cur] = "done" /\ pc \in OnTurn => pc \in {"ended", "drop"}
    OBVIOUS
  <2>3. cur \in Prompts /\ pc \in OnTurn => Running = {cur} /\ presses = cur
    BY RunningIsCurrent
  <2>4. cur \in Prompts /\ pc \in OnTurn => PressesRunning(cur)
    <3> HIDE DEF IInv, OrderInv, LocksFollow, OnTurn
    <3>1. QED
      BY <1>1, <2>3, InterruptEffect DEF PressesRunning, CancelsSignIn, KeptForOldest,
        StopsNobody
  <2>5. QED
    BY <1>1, <1>a, <2>1, <2>2, <2>4 DEF PressesRunning
<1>2. CASE ShutdownStopsTurn
  BY <1>2 DEF ShutdownStopsTurn, StopTurn, CommandTo
<1>3. CASE Take
  BY <1>3 DEF Take, AfterCommand, To
<1>4. CASE RefusePrompt
  BY <1>4 DEF RefusePrompt, To
<1>5. CASE ForPrompt
  <2>1. pressed[cur] > 0 => early
    BY <1>5 DEF ForPrompt, QueuedPress
  <2>2. QED
    BY <1>5, <2>1 DEF ForPrompt, To
<1>6. CASE Prepare
  BY <1>6 DEF Prepare, To
<1>7. CASE Watch
  BY <1>7 DEF Watch, PressedEarly, To
<1>8. CASE Recheck
  BY <1>8 DEF Recheck, StopTurn, To
<1>9. CASE Completes
  BY <1>9 DEF Completes
<1>10. CASE Stops
  BY <1>10 DEF Stops, To
<1>11. CASE Panics
  BY <1>11 DEF Panics, To
<1>12. CASE JoinMonitor
  BY <1>12 DEF JoinMonitor, To
<1>13. CASE DropRunning
  BY <1>13 DEF DropRunning, To
<1>14. CASE Finish
  BY <1>14 DEF Finish, AfterCommand
<1>15. CASE CallTool
  BY <1>15 DEF CallTool, To
<1>16. CASE Ask
  BY <1>16 DEF Ask, To
<1>17. CASE Answered
  BY <1>17 DEF Answered, To
<1>18. CASE GiveUp
  BY <1>18 DEF GiveUp, To
<1>19. CASE Withdraw
  BY <1>19 DEF Withdraw, To
<1>20. ASSUME NEW p \in Prompts, MonitorPoll(p) PROVE RunningPress'
  BY <1>20 DEF MonitorPoll
<1>21. ASSUME NEW p \in Prompts, MonitorPress(p) PROVE RunningPress'
  BY <1>21 DEF MonitorPress
<1>22. ASSUME NEW p \in Prompts, MonitorStop(p) PROVE RunningPress'
  BY <1>22 DEF MonitorStop
<1>23. CASE UNCHANGED <<early, pressed, aborted, cancelled, permit, monitor, pc, cur>>
  BY <1>23
<1> HIDE DEF IInv, TypeInv, OrderInv, RunningPress
<1>24. QED
  BY <1>1, <1>2, <1>3, <1>4, <1>5, <1>6, <1>7, <1>8, <1>9, <1>10, <1>11, <1>12, <1>13,
    <1>14, <1>15, <1>16, <1>17, <1>18, <1>19, <1>20, <1>21, <1>22, <1>23 DEF Next,
    Environment, CommandThread, EngineThread, Monitor, Terminated, vars, sentVars,
    cmdVars, lockVars, askVars, tokenVars, monitorVars, historyVars, engineVars,
    ReceiveSubmit, SendPrompt, Send, CommandTo, SendAnswer, ReceiveShutdown,
    ShutdownDropsAnswer, SendShutdown, ReceiveAnswer, ReceiveOther, To

-----------------------------------------------------------------------------
(* The theorems *)

\* The first state has both invariants.
LEMMA InitPromptsInv == Init => OrderInv /\ InterruptInv
<1> SUFFICES ASSUME Init PROVE OrderInv /\ InterruptInv
  OBVIOUS
<1>1. OrderInv
  BY BoundsAssumption, EmptySeq DEF Init, OrderInv, SentOnes, CurrentFate, HeldPrompt,
    QueueInOrder, WaitingIsKept, AnswerIsKept, PromptAt, OnTurn, InTurn, Prompts,
    NoTurn, NoItem, Item
<1>2. Waiting = {} /\ Running = {}
  BY DEF Init, Waiting, Running
<1>3. LocksFollow /\ WaitingAreCounted
  BY <1>2, FS_EmptySet DEF Init, LocksFollow, WaitingAreCounted, OnTurn, InTurn
<1>4. MonitorFollows /\ EarlyIsMeant /\ KeptAreMeant /\ QueuedPress /\ RunningPress
  BY DEF Init, MonitorFollows, EarlyIsMeant, KeptAreMeant, QueuedPress, RunningPress,
    NoTurn, OnTurn, InTurn
<1>5. QED
  BY <1>1, <1>3, <1>4 DEF InterruptInv

\* Both invariants hold throughout a session.
THEOREM PromptsInvariance == Spec => [](IInv /\ OrderInv /\ InterruptInv)
<1>1. IInv /\ OrderInv /\ InterruptInv /\ [Next]_vars => (OrderInv /\ InterruptInv)'
  BY NextOrderInv, NextLocksFollow, NextWaitingAreCounted, NextMonitorFollows,
    NextEarlyIsMeant, NextKeptAreMeant, NextQueuedPress, NextRunningPress DEF
    InterruptInv
<1>2. QED
  BY InitPromptsInv, <1>1, Invariance, PTL DEF Spec

\* The engine implements PromptLedger: however commands, turns, panics and a shutdown
\* interleave, prompts run in the order they were sent, one at a time, each ends once, and
\* a Submit is taken as an answer only while a turn runs.
THEOREM KeepsTheLedger == Spec => LedgerSpec
<1>1. Init => Ledger!Init
  BY DEF Init, Ledger!Init
<1>2. IInv /\ OrderInv /\ [Next]_vars => [Ledger!Next]_fate
  BY LedgerStep
<1>3. QED
  BY <1>1, <1>2, PromptsInvariance, PTL DEF Spec, LedgerSpec, Ledger!Spec

\* Whenever an interrupt comes (its prompt still queued, its turn being readied, between
\* for_prompt and watch, or later) the turn it was meant for finds its token cancelled,
\* and its hooks are aborted by the time its monitor is gone.
THEOREM InterruptsReachTheirTurn == Spec => []InterruptReachesItsTurn
<1>1. IInv /\ OrderInv /\ InterruptInv => InterruptReachesItsTurn
  BY DEF InterruptInv, RunningPress, InterruptReachesItsTurn, OnTurn, InTurn
<1>2. QED
  BY <1>1, PromptsInvariance, PTL

\* Neither Interrupts.early nor a kept press reaches another prompt's turn: without a
\* shutdown every cancelled prompt was interrupted itself, and an interrupt is kept only
\* while a prompt waits or runs.
THEOREM InterruptsReachNoOther == Spec => []InterruptReachesNoOther
<1>1. IInv /\ OrderInv /\ InterruptInv => InterruptReachesNoOther
  <2>1. SUFFICES ASSUME IInv, OrderInv, InterruptInv, early, Waiting = {}
                 PROVE  presses # NoTurn
    BY DEF InterruptInv, KeptAreMeant, InterruptReachesNoOther
  <2>2. Running # {}
    BY <2>1 DEF InterruptInv, EarlyIsMeant
  <2>3. pc \in OnTurn /\ cur \in Prompts
    BY <2>1, <2>2, RunningIsCurrent
  <2>4. QED
    BY <2>1, <2>3, BoundsAssumption DEF InterruptInv, LocksFollow, Prompts, NoTurn
<1>2. QED
  BY <1>1, PromptsInvariance, PTL

-----------------------------------------------------------------------------
(* With the turn loop in it *)

\* What the engine thread does with the loop in it is a step of Engine's, or none.
LEMMA TurnsStepIsEngines == [TurnsNext]_turnsVars => [Next]_vars
<1> SUFFICES ASSUME [TurnsNext]_turnsVars PROVE [Next]_vars
  OBVIOUS
<1>1. CASE EngineRuns
  <2>1. CASE OwnSteps
    BY <2>1 DEF OwnSteps, Next, EngineThread
  <2>2. CASE LoopStarts
    BY <2>2 DEF LoopStarts
  <2>3. CASE LoopSeesToken
    BY <2>3 DEF LoopSeesToken
  <2>4. CASE LoopStep
    BY <2>4 DEF LoopStep
  <2>5. CASE TurnReturns
    BY <2>5 DEF TurnReturns, Next, Environment
  <2>6. CASE TurnIsSaved
    BY <2>6 DEF TurnIsSaved
  <2>7. QED
    BY <1>1, <2>1, <2>2, <2>3, <2>4, <2>5, <2>6 DEF EngineRuns
<1>2. CASE LoopAsks
  BY <1>2 DEF LoopAsks, Next, Environment
<1>3. CASE Others
  BY <1>3 DEF Others, Next, Environment
<1>4. CASE CommandThread \/ (\E p \in Prompts : Monitor(p)) \/ Terminated
  BY <1>4 DEF Next
<1>5. CASE UNCHANGED turnsVars
  BY <1>5 DEF turnsVars
<1>6. QED
  BY <1>1, <1>2, <1>3, <1>4, <1>5 DEF TurnsNext

\* In the run's specification too, where the engine stands still while the loop runs alone.
LEMMA BothStepIsEngines == [BothNext]_bothVars => [Next]_vars
BY TurnsStepIsEngines DEF BothNext, Composed, Alone, bothVars, turnsVars

\* A turn that runs the loop is a turn of Engine: the loop ends it, or calls the question
\* tool, only where Engine lets a turn do so. All Engine promises is so promised with the
\* loop in it.
THEOREM LoopKeepsTheEngine == (TurnsSpec => Spec) /\ (BothSpec => Spec)
<1>1. TurnsInit => Init
  BY DEF TurnsInit
<1>2. BothInit => Init
  BY <1>1 DEF BothInit
<1>3. TurnsSpec => Spec
  BY <1>1, TurnsStepIsEngines, PTL DEF TurnsSpec, Spec
<1>4. BothSpec => Spec
  BY <1>2, BothStepIsEngines, PTL DEF BothSpec, Spec
<1>5. QED
  BY <1>3, <1>4

\* A tool that asks is the call the loop executes.
AskingExecutes == asking => loopPc = "execute"
\* The engine stands still while the loop runs alone, and no tool asks.
AloneIsApart == part = "loop" => pc = "idle" /\ ~asking

\* Only LoopAsks asks, and every step of the loop comes after the answer.
LEMMA NextAskingExecutes == AskingExecutes /\ [TurnsNext]_turnsVars => AskingExecutes'
<1> SUFFICES ASSUME AskingExecutes, [TurnsNext]_turnsVars PROVE AskingExecutes'
  OBVIOUS
<1>1. CASE LoopAlone \/ UNCHANGED turnsVars
  BY <1>1 DEF LoopAlone, turnsVars, loopVars, AskingExecutes
<1>2. CASE LoopStarts
  <2>1. loopPc = "idle" /\ asking' = asking
    BY <1>2 DEF LoopStarts, Loop!StartTurn
  <2>2. QED
    BY <2>1 DEF AskingExecutes
<1>3. CASE LoopSeesToken
  BY <1>3 DEF LoopSeesToken, Loop!Interrupt, AskingExecutes
<1>4. CASE LoopStep
  BY <1>4 DEF LoopStep, AskingExecutes
<1>5. CASE TurnReturns
  BY <1>5 DEF TurnReturns, loopVars, AskingExecutes
<1>6. CASE TurnIsSaved
  <2>1. loopPc = "save" /\ asking' = asking
    BY <1>6 DEF TurnIsSaved
  <2>2. QED
    BY <2>1 DEF AskingExecutes
<1>7. CASE LoopAsks
  BY <1>7 DEF LoopAsks, loopVars, AskingExecutes
<1>8. QED
  BY <1>1, <1>2, <1>3, <1>4, <1>5, <1>6, <1>7 DEF TurnsNext, EngineRuns

\* In the run's specification the loop's part leaves the engine alone.
LEMMA NextBothApart ==
  AskingExecutes /\ AloneIsApart /\ [BothNext]_bothVars => (AskingExecutes /\ AloneIsApart)'
<1> SUFFICES ASSUME AskingExecutes, AloneIsApart, [BothNext]_bothVars
             PROVE  (AskingExecutes /\ AloneIsApart)'
  OBVIOUS
<1>1. CASE Composed /\ TurnsNext
  BY <1>1, NextAskingExecutes DEF Composed, AloneIsApart
<1>2. CASE Alone /\ Longer!Next
  BY <1>2 DEF Alone, vars, engineVars, AloneIsApart, AskingExecutes
<1>3. CASE UNCHANGED bothVars
  BY <1>3 DEF bothVars, turnsVars, vars, engineVars, loopVars, AskingExecutes, AloneIsApart
<1>4. QED
  BY <1>1, <1>2, <1>3 DEF BothNext

\* The step that sends a request, takes up a call, or runs the one it took up, has seen the
\* token uncancelled.
LEMMA StartsUncancelled ==
  ASSUME Loop!Turn
  PROVE  /\ loopPc' = "stream" => loopPc = "loop" /\ ~loopCancelled
         /\ loopPc' = "execute" => loopPc = "calls" /\ ~loopCancelled
         /\ loopPc = "execute" /\ executed' # executed => ~loopCancelled
<1>1. CASE Loop!LoopTop
  BY <1>1 DEF Loop!LoopTop, Loop!Shrinks
<1>2. CASE Loop!Stream
  <2>1. CASE Loop!StreamInterrupted \/ Loop!StreamOverflows \/ Loop!StreamFails
    BY <2>1 DEF Loop!StreamInterrupted, Loop!StreamOverflows, Loop!StreamFails,
      Loop!Push, Loop!Shrinks
  <2>2. ASSUME NEW calls \in CallLists, NEW text \in Texts, Loop!Refuses(calls, text)
        PROVE  loopPc = "stream" /\ loopPc' # "stream" /\ loopPc' # "execute"
    BY <2>2 DEF Loop!Refuses, Loop!Push
  <2>3. ASSUME NEW calls \in CallLists, NEW text \in Texts, NEW cutOff \in BOOLEAN,
               Loop!Responds(calls, text, cutOff)
        PROVE  loopPc = "stream" /\ loopPc' # "stream" /\ loopPc' # "execute"
    BY <2>3 DEF Loop!Responds, Loop!Push
  <2>4. QED
    BY <1>2, <2>1, <2>2, <2>3 DEF Loop!Stream
<1>3. CASE Loop!Continue \/ Loop!Nudge \/ Loop!EndReply
  BY <1>3 DEF Loop!Continue, Loop!Nudge, Loop!EndReply, Loop!Push
<1>4. CASE Loop!CallsDone \/ Loop!InterruptCalls \/ Loop!RejectCall \/ Loop!StopLoop
  BY <1>4 DEF Loop!CallsDone, Loop!InterruptCalls, Loop!RejectCall, Loop!StopLoop,
    Loop!EndCalls, Loop!Push
<1>5. CASE Loop!StartCall
  BY <1>5 DEF Loop!StartCall
<1>6. CASE Loop!ExecuteCall \/ Loop!AbandonCall
  BY <1>6 DEF Loop!ExecuteCall, Loop!AbandonCall, Loop!SeesInterrupt, Loop!EndCalls, Loop!Push
<1>7. CASE Loop!Close \/ Loop!CloseFailed \/ Loop!Save
  BY <1>7 DEF Loop!Close, Loop!CloseFailed, Loop!Save
<1>8. QED
  BY <1>1, <1>2, <1>3, <1>4, <1>5, <1>6, <1>7 DEF Loop!Turn

\* Whichever thread carried it to the token, the engine's or the monitor's, a press is in
\* the token of the turn that runs, so the loop's next look at it finds it there, after the
\* hook and the approval of a call too; and a turn whose token is cancelled asks nothing.
LEMMA InterruptStopsStarts ==
  ASSUME InterruptReachesItsTurn, AskingExecutes, [TurnsNext]_turnsVars,
         pc = "running", cur \in Prompts, pressed[cur] > 0
  PROVE  /\ loopPc' = "stream" => loopPc = "stream"
         /\ loopPc' = "execute" => loopPc = "execute"
         /\ loopPc = "execute" /\ executed' # executed => asking
         /\ asking' => asking
<1>1. cur \in cancelled
  BY DEF InterruptReachesItsTurn, InTurn
<1>2. CASE LoopAlone \/ UNCHANGED turnsVars
  BY <1>2 DEF LoopAlone, turnsVars, loopVars
<1>3. CASE LoopStarts
  BY <1>3 DEF LoopStarts, Loop!StartTurn
<1>4. CASE LoopSeesToken
  BY <1>4 DEF LoopSeesToken, Loop!Interrupt
<1>5. CASE LoopStep
  <2>1. /\ loopPc \in {"loop", "calls"} => loopCancelled
        /\ loopPc = "execute" /\ ~asking => loopCancelled
        /\ asking' = FALSE
    BY <1>1, <1>5 DEF LoopStep, Polls, Token, AskingExecutes
  <2>2. Loop!Turn
    BY <1>5 DEF LoopStep
  <2>3. QED
    BY <2>1, <2>2, StartsUncancelled
<1>6. CASE TurnReturns
  BY <1>6 DEF TurnReturns, loopVars
<1>7. CASE TurnIsSaved
  BY <1>7 DEF TurnIsSaved, Loop!Save
<1>8. CASE LoopAsks
  BY <1>1, <1>8 DEF LoopAsks, CallTool
<1>9. QED
  BY <1>2, <1>3, <1>4, <1>5, <1>6, <1>7, <1>8 DEF TurnsNext, EngineRuns

\* An interrupt the user sent before or during the turn, carried by the command thread or
\* the monitor, reaches the loop: from then on it sends no request, takes up no call, runs
\* none that waited for its hook or approval, and asks the user nothing.
THEOREM InterruptsReachTheLoop ==
  /\ TurnsSpec => NothingStartsOnceInterrupted
  /\ BothSpec => NothingStartsOnceInterrupted
<1> DEFINE Stays == pc = "running" /\ cur \in Prompts /\ pressed[cur] > 0 =>
                      /\ loopPc' = "stream" => loopPc = "stream"
                      /\ loopPc' = "execute" => loopPc = "execute"
                      /\ loopPc = "execute" /\ executed' # executed => asking
                      /\ asking' => asking
<1>1. TurnsInit => AskingExecutes
  BY DEF TurnsInit, AskingExecutes
<1>2. BothInit => AskingExecutes /\ AloneIsApart
  BY <1>1 DEF BothInit, TurnsInit, Init, AloneIsApart
<1>3. InterruptReachesItsTurn /\ AskingExecutes /\ [TurnsNext]_turnsVars => [Stays]_turnsVars
  BY InterruptStopsStarts
<1>4. InterruptReachesItsTurn /\ AskingExecutes /\ AloneIsApart /\ [BothNext]_bothVars
        => [Stays]_turnsVars
  <2> SUFFICES ASSUME InterruptReachesItsTurn, AskingExecutes, AloneIsApart,
                      [BothNext]_bothVars
               PROVE  Stays
    OBVIOUS
  <2>1. CASE Composed /\ TurnsNext
    BY <2>1, InterruptStopsStarts
  <2>2. CASE Alone /\ Longer!Next
    BY <2>2 DEF Alone, AloneIsApart
  <2>3. CASE UNCHANGED bothVars
    BY <2>3 DEF bothVars, turnsVars, loopVars
  <2>4. QED
    BY <2>1, <2>2, <2>3 DEF BothNext
<1>5. TurnsSpec => []AskingExecutes
  BY <1>1, NextAskingExecutes, PTL DEF TurnsSpec
<1>6. BothSpec => [](AskingExecutes /\ AloneIsApart)
  BY <1>2, NextBothApart, PTL DEF BothSpec
<1>7. TurnsSpec => NothingStartsOnceInterrupted
  BY <1>3, <1>5, LoopKeepsTheEngine, InterruptsReachTheirTurn, PTL DEF TurnsSpec,
    NothingStartsOnceInterrupted
<1>8. BothSpec => NothingStartsOnceInterrupted
  BY <1>4, <1>6, LoopKeepsTheEngine, InterruptsReachTheirTurn, PTL DEF BothSpec,
    NothingStartsOnceInterrupted
<1>9. QED
  BY <1>7, <1>8

-----------------------------------------------------------------------------
(* The loop's prompts, in the engine and alone *)

LoopFacts == INSTANCE TurnLoopProofs WITH pc <- loopPc, cancelled <- loopCancelled
LongerFacts == INSTANCE TurnLoopProofs WITH
  pc <- loopPc, cancelled <- loopCancelled,
  CallLists <- {<<>>, <<Call("a", "s"), Call("b", "t")>>},
  MaxIterations <- 4, MaxFailures <- 0

\* The composed loop is the one the lemmas are about.
LEMMA LoopFactsFit ==
  /\ Loop!Init = LoopFacts!Init /\ Loop!Next = LoopFacts!Next
  /\ Loop!vars = LoopFacts!vars
  /\ Loop!FewAutomaticPrompts = LoopFacts!FewAutomaticPrompts
<1>1. \A s, I : Loop!Kept(s, I) = LoopFacts!Kept(s, I)
  BY DEF Loop!Kept, LoopFacts!Kept
<1>2. \A s : Loop!DropBlankTail(s) = LoopFacts!DropBlankTail(s)
  BY DEF Loop!DropBlankTail, LoopFacts!DropBlankTail, Loop!IsBlankReply,
     LoopFacts!IsBlankReply
<1>3. \A ids : Loop!Track(ids) = LoopFacts!Track(ids)
  BY DEF Loop!Track, LoopFacts!Track, Loop!Kept, LoopFacts!Kept
<1>4. \A open : Loop!Flush(open) = LoopFacts!Flush(open)
  BY DEF Loop!Flush, LoopFacts!Flush, Loop!Kept, LoopFacts!Kept, Loop!Result,
     LoopFacts!Result, Loop!Message, LoopFacts!Message
<1>5. \A acc, m : Loop!Normalized1(acc, m) = LoopFacts!Normalized1(acc, m)
  BY ZenonT(30), <1>3, <1>4
  DEF Loop!Normalized1, LoopFacts!Normalized1, Loop!SetOf, LoopFacts!SetOf,
     Loop!NoCalls, LoopFacts!NoCalls
<1>6. \A s : Loop!Normalize(s) = LoopFacts!Normalize(s)
  BY <1>2, <1>4, <1>5
  DEF Loop!Normalize, LoopFacts!Normalize, Loop!NoCalls, LoopFacts!NoCalls
<1>7. Loop!Request = LoopFacts!Request /\ Loop!RepairedFile = LoopFacts!RepairedFile
  BY <1>6
  DEF Loop!Request, LoopFacts!Request, Loop!RepairedFile, LoopFacts!RepairedFile
<1>8. \A ms, next : Loop!Push(ms, next) = LoopFacts!Push(ms, next)
  BY DEF Loop!Push, LoopFacts!Push, Loop!FailedWrite, LoopFacts!FailedWrite
<1>9. \A min : Loop!Compacted(min) = LoopFacts!Compacted(min)
  BY DEF Loop!Compacted, LoopFacts!Compacted, Loop!PairSafe, LoopFacts!PairSafe,
     Loop!PrefixLen, LoopFacts!PrefixLen, Loop!IsSummary, LoopFacts!IsSummary,
     Loop!Summary, LoopFacts!Summary, Loop!Message, LoopFacts!Message
<1>10. \A min, next : Loop!Shrinks(min, next) = LoopFacts!Shrinks(min, next)
  BY <1>9
  DEF Loop!Shrinks, LoopFacts!Shrinks, Loop!FailedWrite, LoopFacts!FailedWrite
<1>11. Loop!FreshTurn = LoopFacts!FreshTurn
  BY DEF Loop!FreshTurn, LoopFacts!FreshTurn, Loop!NoCallYet, LoopFacts!NoCallYet,
     Loop!NoneExecuted, LoopFacts!NoneExecuted
<1>12. Loop!CloseWithNote = LoopFacts!CloseWithNote
  BY DEF Loop!CloseWithNote, LoopFacts!CloseWithNote, Loop!EndsUnanswered,
     LoopFacts!EndsUnanswered, Loop!FailedWrite, LoopFacts!FailedWrite, Loop!Last,
     LoopFacts!Last, Loop!Note, LoopFacts!Note, Loop!Assistant, LoopFacts!Assistant,
     Loop!Message, LoopFacts!Message, Loop!session, LoopFacts!session
<1>13. Loop!EndCalls = LoopFacts!EndCalls
  BY <1>8
  DEF Loop!EndCalls, LoopFacts!EndCalls, Loop!Results, LoopFacts!Results,
     Loop!Result, LoopFacts!Result, Loop!Message, LoopFacts!Message
<1>14. /\ Loop!StartTurn = LoopFacts!StartTurn
      /\ Loop!Crash = LoopFacts!Crash
      /\ Loop!Save = LoopFacts!Save
  BY <1>6, <1>7, <1>11
  DEF Loop!StartTurn, LoopFacts!StartTurn, Loop!Crash, LoopFacts!Crash, Loop!Save,
     LoopFacts!Save, Loop!FailedWrite, LoopFacts!FailedWrite, Loop!User,
     LoopFacts!User, Loop!Message, LoopFacts!Message, Loop!turnVars,
     LoopFacts!turnVars, Loop!progressVars, LoopFacts!progressVars
<1>15. Loop!LoopTop = LoopFacts!LoopTop /\ Loop!StreamOverflows = LoopFacts!StreamOverflows
  BY <1>10
  DEF Loop!LoopTop, LoopFacts!LoopTop, Loop!StreamOverflows,
     LoopFacts!StreamOverflows, Loop!CapReached, LoopFacts!CapReached, Loop!session,
     LoopFacts!session
<1>16. /\ Loop!StreamInterrupted = LoopFacts!StreamInterrupted
      /\ Loop!StreamFails = LoopFacts!StreamFails
  BY <1>8
  DEF Loop!StreamInterrupted, LoopFacts!StreamInterrupted, Loop!StreamFails,
     LoopFacts!StreamFails, Loop!Note, LoopFacts!Note, Loop!Assistant,
     LoopFacts!Assistant, Loop!Message, LoopFacts!Message, Loop!session,
     LoopFacts!session, Loop!progressVars, LoopFacts!progressVars
<1>17. \A calls, text : Loop!Refuses(calls, text) = LoopFacts!Refuses(calls, text)
  BY <1>8
  DEF Loop!Refuses, LoopFacts!Refuses, Loop!Assistant, LoopFacts!Assistant,
     Loop!Ids, LoopFacts!Ids, Loop!Results, LoopFacts!Results, Loop!Result,
     LoopFacts!Result, Loop!Message, LoopFacts!Message, Loop!progressVars,
     LoopFacts!progressVars
<1>18. \A calls, text, cutOff : Loop!Responds(calls, text, cutOff)
      
         = LoopFacts!Responds(calls, text, cutOff)
  BY <1>8
  DEF Loop!Responds, LoopFacts!Responds, Loop!Note, LoopFacts!Note, Loop!Assistant,
     LoopFacts!Assistant, Loop!Ids, LoopFacts!Ids, Loop!Message, LoopFacts!Message,
     Loop!progressVars, LoopFacts!progressVars
<1>19. Loop!Stream = LoopFacts!Stream
  BY <1>15, <1>16, <1>17, <1>18
  DEF Loop!Stream, LoopFacts!Stream
<1>20. /\ Loop!Continue = LoopFacts!Continue
      /\ Loop!Nudge = LoopFacts!Nudge
      /\ Loop!EndReply = LoopFacts!EndReply
  BY <1>8, <1>11
  DEF Loop!Continue, LoopFacts!Continue, Loop!Nudge, LoopFacts!Nudge,
     Loop!EndReply, LoopFacts!EndReply, Loop!MayContinue, LoopFacts!MayContinue,
     Loop!NotYet, LoopFacts!NotYet, Loop!User, LoopFacts!User, Loop!Message,
     LoopFacts!Message, Loop!session, LoopFacts!session
<1>21. /\ Loop!CallsDone = LoopFacts!CallsDone
      /\ Loop!InterruptCalls = LoopFacts!InterruptCalls
      /\ Loop!AbandonCall = LoopFacts!AbandonCall
  BY <1>13
  DEF Loop!CallsDone, LoopFacts!CallsDone, Loop!InterruptCalls,
     LoopFacts!InterruptCalls, Loop!AbandonCall, LoopFacts!AbandonCall,
     Loop!SeesInterrupt, LoopFacts!SeesInterrupt, Loop!session, LoopFacts!session,
     Loop!progressVars, LoopFacts!progressVars
<1>22. Loop!RejectCall = LoopFacts!RejectCall /\ Loop!ExecuteCall = LoopFacts!ExecuteCall
  BY <1>8
  DEF Loop!RejectCall, LoopFacts!RejectCall, Loop!ExecuteCall,
     LoopFacts!ExecuteCall, Loop!SeesInterrupt, LoopFacts!SeesInterrupt, Loop!Result,
     LoopFacts!Result, Loop!Message, LoopFacts!Message, Loop!progressVars,
     LoopFacts!progressVars
<1>23. Loop!StartCall = LoopFacts!StartCall
  BY DEF Loop!StartCall, LoopFacts!StartCall, Loop!Observed, LoopFacts!Observed,
     Loop!Warns, LoopFacts!Warns, Loop!Proceeds, LoopFacts!Proceeds, Loop!session,
     LoopFacts!session, Loop!progressVars, LoopFacts!progressVars
<1>24. Loop!StopLoop = LoopFacts!StopLoop
  BY <1>8, <1>11
  DEF Loop!StopLoop, LoopFacts!StopLoop, Loop!Observed, LoopFacts!Observed,
     Loop!Warns, LoopFacts!Warns, Loop!Proceeds, LoopFacts!Proceeds, Loop!Results,
     LoopFacts!Results, Loop!Result, LoopFacts!Result, Loop!Message,
     LoopFacts!Message, Loop!progressVars, LoopFacts!progressVars
<1>25. Loop!Close = LoopFacts!Close /\ Loop!CloseFailed = LoopFacts!CloseFailed
  BY <1>11, <1>12
  DEF Loop!Close, LoopFacts!Close, Loop!CloseFailed, LoopFacts!CloseFailed
<1>26. /\ Loop!vars = LoopFacts!vars
      /\ Loop!Interrupt = LoopFacts!Interrupt
      /\ Loop!AllTurnsDone = LoopFacts!AllTurnsDone
  BY DEF Loop!vars, LoopFacts!vars, Loop!Interrupt, LoopFacts!Interrupt,
     Loop!AllTurnsDone, LoopFacts!AllTurnsDone, Loop!session, LoopFacts!session,
     Loop!progressVars, LoopFacts!progressVars
<1>27. Loop!Turn = LoopFacts!Turn
  BY <1>14, <1>15, <1>19, <1>20, <1>21, <1>22, <1>23, <1>24, <1>25
  DEF Loop!Turn, LoopFacts!Turn
<1>28. Loop!Next = LoopFacts!Next
  BY <1>14, <1>26, <1>27
  DEF Loop!Next, LoopFacts!Next
<1>29. Loop!Init = LoopFacts!Init
  BY DEF Loop!Init, LoopFacts!Init, Loop!NoCallYet, LoopFacts!NoCallYet,
     Loop!NoneExecuted, LoopFacts!NoneExecuted
<1>30. \A s : Loop!Prompts(s) = LoopFacts!Prompts(s)
  BY DEF Loop!Prompts, LoopFacts!Prompts, Loop!Cardinality, LoopFacts!Cardinality
<1>31. Loop!FewAutomaticPrompts = LoopFacts!FewAutomaticPrompts
  BY <1>30
  DEF Loop!FewAutomaticPrompts, LoopFacts!FewAutomaticPrompts
<1>32. QED
  BY <1>26, <1>28, <1>29, <1>31

\* And so is the loop alone.
LEMMA LongerFactsFit ==
  /\ Longer!Init = LongerFacts!Init /\ Longer!Next = LongerFacts!Next
  /\ Longer!vars = LongerFacts!vars
  /\ Longer!FewAutomaticPrompts = LongerFacts!FewAutomaticPrompts
<1>1. \A s, I : Longer!Kept(s, I) = LongerFacts!Kept(s, I)
  BY DEF Longer!Kept, LongerFacts!Kept
<1>2. \A s : Longer!DropBlankTail(s) = LongerFacts!DropBlankTail(s)
  BY DEF Longer!DropBlankTail, LongerFacts!DropBlankTail, Longer!IsBlankReply,
     LongerFacts!IsBlankReply
<1>3. \A ids : Longer!Track(ids) = LongerFacts!Track(ids)
  BY DEF Longer!Track, LongerFacts!Track, Longer!Kept, LongerFacts!Kept
<1>4. \A open : Longer!Flush(open) = LongerFacts!Flush(open)
  BY DEF Longer!Flush, LongerFacts!Flush, Longer!Kept, LongerFacts!Kept,
     Longer!Result, LongerFacts!Result, Longer!Message, LongerFacts!Message
<1>5. \A acc, m : Longer!Normalized1(acc, m) = LongerFacts!Normalized1(acc, m)
  BY ZenonT(30), <1>3, <1>4
  DEF Longer!Normalized1, LongerFacts!Normalized1, Longer!SetOf, LongerFacts!SetOf,
     Longer!NoCalls, LongerFacts!NoCalls
<1>6. \A s : Longer!Normalize(s) = LongerFacts!Normalize(s)
  BY <1>2, <1>4, <1>5
  DEF Longer!Normalize, LongerFacts!Normalize, Longer!NoCalls, LongerFacts!NoCalls
<1>7. Longer!Request = LongerFacts!Request /\ Longer!RepairedFile = LongerFacts!RepairedFile
  BY <1>6
  DEF Longer!Request, LongerFacts!Request, Longer!RepairedFile,
     LongerFacts!RepairedFile
<1>8. \A ms, next : Longer!Push(ms, next) = LongerFacts!Push(ms, next)
  BY DEF Longer!Push, LongerFacts!Push, Longer!FailedWrite, LongerFacts!FailedWrite
<1>9. \A min : Longer!Compacted(min) = LongerFacts!Compacted(min)
  BY DEF Longer!Compacted, LongerFacts!Compacted, Longer!PairSafe,
     LongerFacts!PairSafe, Longer!PrefixLen, LongerFacts!PrefixLen, Longer!IsSummary,
     LongerFacts!IsSummary, Longer!Summary, LongerFacts!Summary, Longer!Message,
     LongerFacts!Message
<1>10. \A min, next : Longer!Shrinks(min, next) = LongerFacts!Shrinks(min, next)
  BY <1>9
  DEF Longer!Shrinks, LongerFacts!Shrinks, Longer!FailedWrite,
     LongerFacts!FailedWrite
<1>11. Longer!FreshTurn = LongerFacts!FreshTurn
  BY DEF Longer!FreshTurn, LongerFacts!FreshTurn, Longer!NoCallYet,
     LongerFacts!NoCallYet, Longer!NoneExecuted, LongerFacts!NoneExecuted
<1>12. Longer!CloseWithNote = LongerFacts!CloseWithNote
  BY DEF Longer!CloseWithNote, LongerFacts!CloseWithNote, Longer!EndsUnanswered,
     LongerFacts!EndsUnanswered, Longer!FailedWrite, LongerFacts!FailedWrite,
     Longer!Last, LongerFacts!Last, Longer!Note, LongerFacts!Note, Longer!Assistant,
     LongerFacts!Assistant, Longer!Message, LongerFacts!Message, Longer!session,
     LongerFacts!session
<1>13. Longer!EndCalls = LongerFacts!EndCalls
  BY <1>8
  DEF Longer!EndCalls, LongerFacts!EndCalls, Longer!Results, LongerFacts!Results,
     Longer!Result, LongerFacts!Result, Longer!Message, LongerFacts!Message
<1>14. /\ Longer!StartTurn = LongerFacts!StartTurn
      /\ Longer!Crash = LongerFacts!Crash
      /\ Longer!Save = LongerFacts!Save
  BY <1>6, <1>7, <1>11
  DEF Longer!StartTurn, LongerFacts!StartTurn, Longer!Crash, LongerFacts!Crash,
     Longer!Save, LongerFacts!Save, Longer!FailedWrite, LongerFacts!FailedWrite,
     Longer!User, LongerFacts!User, Longer!Message, LongerFacts!Message,
     Longer!turnVars, LongerFacts!turnVars, Longer!progressVars,
     LongerFacts!progressVars
<1>15. /\ Longer!LoopTop = LongerFacts!LoopTop
      /\ Longer!StreamOverflows = LongerFacts!StreamOverflows
  BY <1>10
  DEF Longer!LoopTop, LongerFacts!LoopTop, Longer!StreamOverflows,
     LongerFacts!StreamOverflows, Longer!CapReached, LongerFacts!CapReached,
     Longer!session, LongerFacts!session
<1>16. /\ Longer!StreamInterrupted = LongerFacts!StreamInterrupted
      /\ Longer!StreamFails = LongerFacts!StreamFails
  BY <1>8
  DEF Longer!StreamInterrupted, LongerFacts!StreamInterrupted, Longer!StreamFails,
     LongerFacts!StreamFails, Longer!Note, LongerFacts!Note, Longer!Assistant,
     LongerFacts!Assistant, Longer!Message, LongerFacts!Message, Longer!session,
     LongerFacts!session, Longer!progressVars, LongerFacts!progressVars
<1>17. \A calls, text : Longer!Refuses(calls, text) = LongerFacts!Refuses(calls, text)
  BY <1>8
  DEF Longer!Refuses, LongerFacts!Refuses, Longer!Assistant, LongerFacts!Assistant,
     Longer!Ids, LongerFacts!Ids, Longer!Results, LongerFacts!Results, Longer!Result,
     LongerFacts!Result, Longer!Message, LongerFacts!Message, Longer!progressVars,
     LongerFacts!progressVars
<1>18. \A calls, text, cutOff : Longer!Responds(calls, text, cutOff)
      
         = LongerFacts!Responds(calls, text, cutOff)
  BY <1>8
  DEF Longer!Responds, LongerFacts!Responds, Longer!Note, LongerFacts!Note,
     Longer!Assistant, LongerFacts!Assistant, Longer!Ids, LongerFacts!Ids,
     Longer!Message, LongerFacts!Message, Longer!progressVars, LongerFacts!progressVars
<1>19. Longer!Stream = LongerFacts!Stream
  BY <1>15, <1>16, <1>17, <1>18
  DEF Longer!Stream, LongerFacts!Stream
<1>20. /\ Longer!Continue = LongerFacts!Continue
      /\ Longer!Nudge = LongerFacts!Nudge
      /\ Longer!EndReply = LongerFacts!EndReply
  BY <1>8, <1>11
  DEF Longer!Continue, LongerFacts!Continue, Longer!Nudge, LongerFacts!Nudge,
     Longer!EndReply, LongerFacts!EndReply, Longer!MayContinue,
     LongerFacts!MayContinue, Longer!NotYet, LongerFacts!NotYet, Longer!User,
     LongerFacts!User, Longer!Message, LongerFacts!Message, Longer!session,
     LongerFacts!session
<1>21. /\ Longer!CallsDone = LongerFacts!CallsDone
      /\ Longer!InterruptCalls = LongerFacts!InterruptCalls
      /\ Longer!AbandonCall = LongerFacts!AbandonCall
  BY <1>13
  DEF Longer!CallsDone, LongerFacts!CallsDone, Longer!InterruptCalls,
     LongerFacts!InterruptCalls, Longer!AbandonCall, LongerFacts!AbandonCall,
     Longer!SeesInterrupt, LongerFacts!SeesInterrupt, Longer!session,
     LongerFacts!session, Longer!progressVars, LongerFacts!progressVars
<1>22. /\ Longer!RejectCall = LongerFacts!RejectCall
      /\ Longer!ExecuteCall = LongerFacts!ExecuteCall
  BY <1>8
  DEF Longer!RejectCall, LongerFacts!RejectCall, Longer!ExecuteCall,
     LongerFacts!ExecuteCall, Longer!SeesInterrupt, LongerFacts!SeesInterrupt,
     Longer!Result, LongerFacts!Result, Longer!Message, LongerFacts!Message,
     Longer!progressVars, LongerFacts!progressVars
<1>23. Longer!StartCall = LongerFacts!StartCall
  BY DEF Longer!StartCall, LongerFacts!StartCall, Longer!Observed,
     LongerFacts!Observed, Longer!Warns, LongerFacts!Warns, Longer!Proceeds,
     LongerFacts!Proceeds, Longer!session, LongerFacts!session, Longer!progressVars,
     LongerFacts!progressVars
<1>24. Longer!StopLoop = LongerFacts!StopLoop
  BY <1>8, <1>11
  DEF Longer!StopLoop, LongerFacts!StopLoop, Longer!Observed, LongerFacts!Observed,
     Longer!Warns, LongerFacts!Warns, Longer!Proceeds, LongerFacts!Proceeds,
     Longer!Results, LongerFacts!Results, Longer!Result, LongerFacts!Result,
     Longer!Message, LongerFacts!Message, Longer!progressVars, LongerFacts!progressVars
<1>25. Longer!Close = LongerFacts!Close /\ Longer!CloseFailed = LongerFacts!CloseFailed
  BY <1>11, <1>12
  DEF Longer!Close, LongerFacts!Close, Longer!CloseFailed, LongerFacts!CloseFailed
<1>26. /\ Longer!vars = LongerFacts!vars
      /\ Longer!Interrupt = LongerFacts!Interrupt
      /\ Longer!AllTurnsDone = LongerFacts!AllTurnsDone
  BY DEF Longer!vars, LongerFacts!vars, Longer!Interrupt, LongerFacts!Interrupt,
     Longer!AllTurnsDone, LongerFacts!AllTurnsDone, Longer!session,
     LongerFacts!session, Longer!progressVars, LongerFacts!progressVars
<1>27. Longer!Turn = LongerFacts!Turn
  BY <1>14, <1>15, <1>19, <1>20, <1>21, <1>22, <1>23, <1>24, <1>25
  DEF Longer!Turn, LongerFacts!Turn
<1>28. Longer!Next = LongerFacts!Next
  BY <1>14, <1>26, <1>27
  DEF Longer!Next, LongerFacts!Next
<1>29. Longer!Init = LongerFacts!Init
  BY DEF Longer!Init, LongerFacts!Init, Longer!NoCallYet, LongerFacts!NoCallYet,
     Longer!NoneExecuted, LongerFacts!NoneExecuted
<1>30. \A s : Longer!Prompts(s) = LongerFacts!Prompts(s)
  BY DEF Longer!Prompts, LongerFacts!Prompts, Longer!Cardinality,
     LongerFacts!Cardinality
<1>31. Longer!FewAutomaticPrompts = LongerFacts!FewAutomaticPrompts
  BY <1>30
  DEF Longer!FewAutomaticPrompts, LongerFacts!FewAutomaticPrompts
<1>32. QED
  BY <1>26, <1>28, <1>29, <1>31

\* The prompts of the two loops (conversation.rs): never more than the runtime may write.
FewSpoken ==
  \/ part = "composed" /\ LoopFacts!SpokenInv
  \/ part = "loop" /\ LongerFacts!SpokenInv

\* The assumptions of TurnLoop hold of both.
LEMMA LoopsConstants ==
  /\ CallLists \subseteq Seq([id : CallIds, sig : Signatures]) /\ <<>> \in CallLists
  /\ {<<>>, <<Call("a", "s"), Call("b", "t")>>}
       \subseteq Seq([id : CallIds, sig : Signatures])
  /\ <<>> \in {<<>>, <<Call("a", "s"), Call("b", "t")>>}
  /\ 4 \in Nat /\ 0 \in Nat
<1>1. Call("a", "s") \in [id : CallIds, sig : Signatures]
  BY LongerAssumption DEF Call, MCSignatures
<1>2. Call("b", "t") \in [id : CallIds, sig : Signatures]
  BY LongerAssumption DEF Call, MCSignatures
<1>3. <<Call("a", "s"), Call("b", "t")>> \in Seq([id : CallIds, sig : Signatures])
  BY <1>1, <1>2
<1>4. QED
  BY <1>3, LoopAssumption

\* The invariant of each loop, where it runs.
LEMMA SpokenInBoth ==
  /\ LoopFacts!Init => LoopFacts!SpokenInv
  /\ LoopFacts!SpokenInv /\ [LoopFacts!Next]_LoopFacts!vars => LoopFacts!SpokenInv'
  /\ LoopFacts!SpokenInv => LoopFacts!FewAutomaticPrompts
  /\ LongerFacts!Init => LongerFacts!SpokenInv
  /\ LongerFacts!SpokenInv /\ [LongerFacts!Next]_LongerFacts!vars => LongerFacts!SpokenInv'
  /\ LongerFacts!SpokenInv => LongerFacts!FewAutomaticPrompts
<1>1. /\ LoopFacts!Init => LoopFacts!SpokenInv
      /\ LoopFacts!SpokenInv /\ [LoopFacts!Next]_LoopFacts!vars => LoopFacts!SpokenInv'
      /\ LoopFacts!SpokenInv => LoopFacts!FewAutomaticPrompts
  BY LoopAssumption, LoopFacts!SpokenInvariance
<1>2. /\ LongerFacts!Init => LongerFacts!SpokenInv
      /\ LongerFacts!SpokenInv /\ [LongerFacts!Next]_LongerFacts!vars => LongerFacts!SpokenInv'
      /\ LongerFacts!SpokenInv => LongerFacts!FewAutomaticPrompts
  BY LoopAssumption, LoopsConstants, LongerFacts!SpokenInvariance
<1>3. QED
  BY <1>1, <1>2

\* What the engine does with the loop in it is a step of the loop's, or none.
LEMMA TurnsStepIsLoops == [TurnsNext]_turnsVars => [Loop!Next]_Loop!vars
<1> SUFFICES ASSUME [TurnsNext]_turnsVars PROVE [Loop!Next]_Loop!vars
  OBVIOUS
<1>1. UNCHANGED loopVars => UNCHANGED Loop!vars
  BY DEF loopVars, Loop!vars, Loop!session, Loop!progressVars
<1>2. CASE EngineRuns
  <2>1. CASE LoopStarts \/ LoopSeesToken \/ LoopStep \/ TurnIsSaved
    BY <2>1 DEF LoopStarts, LoopSeesToken, LoopStep, TurnIsSaved, Loop!Next, Loop!Turn
  <2>2. CASE TurnReturns
    BY <1>1, <2>2 DEF TurnReturns
  <2>3. CASE LoopAlone
    BY <1>1, <2>3 DEF LoopAlone
  <2>4. QED
    BY <1>2, <2>1, <2>2, <2>3 DEF EngineRuns
<1>3. CASE LoopAsks
  BY <1>1, <1>3 DEF LoopAsks
<1>4. CASE LoopAlone
  BY <1>1, <1>4 DEF LoopAlone
<1>5. CASE UNCHANGED turnsVars
  BY <1>1, <1>5 DEF turnsVars
<1>6. QED
  BY <1>2, <1>3, <1>4, <1>5 DEF TurnsNext

\* Engine::run_turn and RunningTurn (engine.rs): whatever the engine's threads do, the loop
\* in the engine is the loop of TurnLoop, so what is proved of it holds there too.
THEOREM EngineKeepsTheLoop == TurnsSpec => Loop!Spec
<1>1. TurnsInit => Loop!Init
  BY DEF TurnsInit
<1>2. QED
  BY <1>1, TurnsStepIsLoops, PTL DEF TurnsSpec, Loop!Spec

\* before_finishing and the continuation of a cut-off reply (conversation.rs), in the engine
\* and alone: the runtime speaks for the user at most three times in a turn after the prompt.
THEOREM LoopSpeaksRarely == BothSpec => []LoopPromptsRarely
<1>1. BothInit => FewSpoken
  <2> SUFFICES ASSUME BothInit PROVE FewSpoken
    OBVIOUS
  <2>1. LoopFacts!Init /\ part \in {"composed", "loop"}
    BY LoopFactsFit DEF BothInit, TurnsInit
  <2>2. LongerFacts!Init
    BY <2>1 DEF LoopFacts!Init, LongerFacts!Init, LoopFacts!NoCallYet, LongerFacts!NoCallYet,
       LoopFacts!NoneExecuted, LongerFacts!NoneExecuted
  <2>3. QED
    BY <2>1, <2>2, SpokenInBoth DEF FewSpoken
<1>2. FewSpoken /\ [BothNext]_bothVars => FewSpoken'
  <2> SUFFICES ASSUME FewSpoken, [BothNext]_bothVars PROVE FewSpoken'
    OBVIOUS
  <2>1. UNCHANGED loopVars => UNCHANGED LongerFacts!vars /\ UNCHANGED LoopFacts!vars
    BY DEF loopVars, LongerFacts!vars, LongerFacts!session, LongerFacts!progressVars,
       LoopFacts!vars, LoopFacts!session, LoopFacts!progressVars
  <2>2. CASE Composed /\ TurnsNext
    <3>1. [Loop!Next]_Loop!vars
      BY <2>2, TurnsStepIsLoops
    <3>2. [LoopFacts!Next]_LoopFacts!vars
      BY <3>1, LoopFactsFit DEF LoopFacts!vars, Loop!vars, Loop!session, LoopFacts!session,
         Loop!progressVars, LoopFacts!progressVars
    <3>3. part = "composed" /\ part' = "composed"
      BY <2>2 DEF Composed
    <3>4. QED
      BY <3>2, <3>3, SpokenInBoth DEF FewSpoken
  <2>3. CASE Alone /\ Longer!Next
    <3>1. [LongerFacts!Next]_LongerFacts!vars
      BY <2>3, LongerFactsFit
    <3>2. part = "loop" /\ part' = "loop"
      BY <2>3 DEF Alone
    <3>3. QED
      BY <3>1, <3>2, SpokenInBoth DEF FewSpoken
  <2>4. CASE UNCHANGED bothVars
    <3>1. UNCHANGED LongerFacts!vars /\ UNCHANGED LoopFacts!vars /\ part' = part
      BY <2>1, <2>4 DEF bothVars, turnsVars
    <3>2. QED
      BY <3>1, SpokenInBoth DEF FewSpoken
  <2>5. QED
    BY <2>2, <2>3, <2>4 DEF BothNext
<1>3. FewSpoken => LoopPromptsRarely
  <2>1. LoopFacts!FewAutomaticPrompts = LongerFacts!FewAutomaticPrompts
    <3>1. \A s : LoopFacts!Prompts(s) = LongerFacts!Prompts(s)
      BY DEF LoopFacts!Prompts, LongerFacts!Prompts, LoopFacts!Cardinality,
         LongerFacts!Cardinality
    <3>2. QED
      BY <3>1 DEF LoopFacts!FewAutomaticPrompts, LongerFacts!FewAutomaticPrompts
  <2>2. QED
    BY <2>1, LongerFactsFit, SpokenInBoth DEF FewSpoken, LoopPromptsRarely
<1>4. QED
  BY <1>1, <1>2, <1>3, PTL DEF BothSpec
============================================================================
