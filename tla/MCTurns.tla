------------------------------- MODULE MCTurns -------------------------------
(* What a turn does and what it may do, checked in one run: each behaviour is one of *)
(* TurnLoop or Permissions; the other stays as it starts.                            *)
EXTENDS MCTurnLoop, Permissions

VARIABLE part      \* the component that runs

\* A command that tests and a search, whose arguments read otherwise once parsed: both may
\* be asked about, as bash and WebSearch; a fetch, and a tool of an MCP server.
TestCommand == [tool |-> "bash", enforced |-> TRUE, static |-> ReadOnly,
                needs |-> DangerFullAccess, scope |-> "test", plain |-> TRUE]
KindsOfCalls ==
  {TestCommand,
   [TestCommand EXCEPT !.tool = "WebFetch", !.scope = "host"],
   [TestCommand EXCEPT !.tool = "WebSearch", !.scope = "search", !.plain = FALSE],
   [TestCommand EXCEPT !.tool = "MCPTool", !.enforced = FALSE, !.static = DangerFullAccess, !.scope = ""]}

turnAndPermVars == <<part, vars, permVars>>

TurnOrPermInit ==
  /\ part \in {"loop", "permissions"}
  /\ Init /\ PermInit
  /\ part # "permissions" => rules = {} /\ userMode = ReadOnly

OnlyLoop == UNCHANGED <<part, permVars>>
OnlyPermissions == UNCHANGED <<part, vars>>

TurnOrPermNext ==
  \/ part = "loop" /\ StartTurn /\ OnlyLoop
  \/ part = "loop" /\ LoopTop /\ OnlyLoop
  \/ part = "loop" /\ StreamInterrupted /\ OnlyLoop
  \/ part = "loop" /\ StreamOverflows /\ OnlyLoop
  \/ part = "loop" /\ StreamFails /\ OnlyLoop
  \/ \E calls \in CallLists, text \in Texts :
       /\ part = "loop" /\ (calls # <<>> => text = "none")
       /\ \/ Refuses(calls, text) /\ OnlyLoop
          \/ \E cutOff \in BOOLEAN : Responds(calls, text, cutOff) /\ OnlyLoop
  \/ part = "loop" /\ Continue /\ OnlyLoop
  \/ part = "loop" /\ Nudge /\ OnlyLoop
  \/ part = "loop" /\ EndReply /\ OnlyLoop
  \/ part = "loop" /\ CallsDone /\ OnlyLoop
  \/ part = "loop" /\ InterruptCalls /\ OnlyLoop
  \/ part = "loop" /\ RejectCall /\ OnlyLoop
  \/ part = "loop" /\ StartCall /\ OnlyLoop
  \/ part = "loop" /\ StopLoop /\ OnlyLoop
  \/ part = "loop" /\ ExecuteCall /\ OnlyLoop
  \/ part = "loop" /\ AbandonCall /\ OnlyLoop
  \/ part = "loop" /\ Close /\ OnlyLoop
  \/ part = "loop" /\ CloseFailed /\ OnlyLoop
  \/ part = "loop" /\ Save /\ OnlyLoop
  \/ part = "loop" /\ Interrupt /\ OnlyLoop
  \/ part = "loop" /\ Crash /\ OnlyLoop
  \/ part = "loop" /\ AllTurnsDone /\ OnlyLoop
  \/ \E hook \in {"none", "ask", "deny"} :
       \/ \E c \in ToolCalls : part = "permissions" /\ CallTool(c, hook) /\ OnlyPermissions
       \/ part = "permissions" /\ ProjectCheck(hook) /\ OnlyPermissions
  \/ \E answer \in {"once", "session", "deny"} :
       part = "permissions" /\ UserAnswers(answer) /\ OnlyPermissions
  \/ part = "permissions" /\ InterruptedFirst /\ OnlyPermissions
  \/ part = "permissions" /\ ExecutorRefuses /\ OnlyPermissions
  \/ part = "permissions" /\ ToolChecks /\ OnlyPermissions
  \/ \E rebuild \in BOOLEAN : part = "permissions" /\ PrepareTurn(rebuild) /\ OnlyPermissions
  \/ part = "permissions" /\ TurnIsOver /\ OnlyPermissions
  \/ part = "permissions" /\ PlanOn /\ OnlyPermissions
  \/ part = "permissions" /\ PlanOff /\ OnlyPermissions
  \/ \E mode \in Modes :
       \/ part = "permissions" /\ SetMode(mode) /\ OnlyPermissions
       \/ part = "permissions" /\ PermissionsCommand(mode) /\ OnlyPermissions
  \/ part = "permissions" /\ PermRests /\ OnlyPermissions

TurnOrPermSpec == TurnOrPermInit /\ [][TurnOrPermNext]_turnAndPermVars

\* Every variable of the loop and of the permissions has a value of its kind.
TurnTypesOK == TypeOK /\ PermTypeOK
==============================================================================
