---------------------------- MODULE MCWaits ----------------------------
(* What a turn waits for, checked in one run: each behaviour is one of *)
(* PermissionPrompts, McpServer or ModelCall; the others stay as they start. *)
EXTENDS PermissionPrompts, McpServer, ModelCall

VARIABLE part      \* the component that runs

waitsVars == <<part, vars, mcpVars, callVars>>

WaitsInit ==
  /\ part \in {"prompts", "server", "model"}
  /\ Init /\ McpInit /\ CallInit

OnlyPrompts == UNCHANGED <<part, mcpVars, callVars>>
OnlyServer == UNCHANGED <<part, vars, callVars>>
OnlyModel == UNCHANGED <<part, vars, mcpVars>>

WaitsNext ==
  \/ part = "prompts" /\ StartTurn /\ OnlyPrompts
  \/ part = "prompts" /\ Drain /\ OnlyPrompts
  \/ part = "prompts" /\ Drained /\ OnlyPrompts
  \/ part = "prompts" /\ CheckCancelled /\ OnlyPrompts
  \/ part = "prompts" /\ Receive /\ OnlyPrompts
  \/ part = "prompts" /\ TimesOut /\ OnlyPrompts
  \/ part = "prompts" /\ RunCall /\ OnlyPrompts
  \/ part = "prompts" /\ Decide /\ OnlyPrompts
  \/ part = "prompts" /\ EndTurn /\ OnlyPrompts
  \/ part = "prompts" /\ PanicTurn /\ OnlyPrompts
  \/ part = "prompts" /\ Interrupt /\ OnlyPrompts
  \/ \E request \in Requests, allow \in BOOLEAN : part = "prompts" /\ ReplyTo(request, allow) /\ OnlyPrompts
  \/ part = "prompts" /\ Finished /\ OnlyPrompts
  \/ part = "server" /\ BeginCall /\ OnlyServer
  \/ \E kind \in {"discover", "list"} : part = "server" /\ BeginListing(kind) /\ OnlyServer
  \/ part = "server" /\ PrepareServer /\ OnlyServer
  \/ part = "server" /\ StartServer /\ OnlyServer
  \/ part = "server" /\ SkipStart /\ OnlyServer
  \/ part = "server" /\ SendInitialize /\ OnlyServer
  \/ part = "server" /\ SendRequest /\ OnlyServer
  \/ part = "server" /\ InitializeFails /\ OnlyServer
  \/ part = "server" /\ InitializeAnswered /\ OnlyServer
  \/ part = "server" /\ NotifyInitialized /\ OnlyServer
  \/ part = "server" /\ RequestFails /\ OnlyServer
  \/ part = "server" /\ CallAnswered /\ OnlyServer
  \/ part = "server" /\ ListingAnswered /\ OnlyServer
  \/ part = "server" /\ InterruptCall /\ OnlyServer
  \/ part = "server" /\ ShutDown /\ OnlyServer
  \/ part = "server" /\ ServerReplies /\ OnlyServer
  \/ part = "server" /\ ServerRepeats /\ OnlyServer
  \/ \E state \in {"closed", "exited"} : part = "server" /\ ServerStops(state) /\ OnlyServer
  \/ part = "server" /\ McpFinished /\ OnlyServer
  \/ part = "model" /\ BeginModelCall /\ OnlyModel
  \/ part = "model" /\ PauseEnds /\ OnlyModel
  \/ part = "model" /\ Connect /\ OnlyModel
  \/ part = "model" /\ PreflightRefuses /\ OnlyModel
  \/ part = "model" /\ WaitEnds /\ OnlyModel
  \/ part = "model" /\ RequestRefused /\ OnlyModel
  \/ part = "model" /\ StreamOpens /\ OnlyModel
  \/ part = "model" /\ StreamBreaks /\ OnlyModel
  \/ part = "model" /\ WholeReply /\ OnlyModel
  \/ part = "model" /\ InterruptModelCall /\ OnlyModel
  \/ part = "model" /\ CallsMade /\ OnlyModel
  \/ \E refusal \in Refusals :
       part = "model" /\ Refused(refusal[1], refusal[2], refusal[3]) /\ OnlyModel
  \/ \E event \in {"text", "open", "call", "stop"} :
       part = "model" /\ StreamBrings(event) /\ OnlyModel
  \/ \E cut \in BOOLEAN : part = "model" /\ StreamEnds(cut) /\ OnlyModel

\* Each component's own fairness (its FairSpec), while it is the one that runs.
OwedStep ==
  \/ part = "prompts" /\ EngineThread /\ OnlyPrompts
  \/ part = "server" /\ ManagerStep /\ OnlyServer
  \/ part = "model" /\ CallStep /\ OnlyModel
WaitsSpec == WaitsInit /\ [][WaitsNext]_waitsVars /\ WF_waitsVars(OwedStep)

\* Every variable of the approvals, of the server's manager and of the model's call has a
\* value of its kind.
WaitsTypesOK == TypeOK /\ McpTypeOK /\ CallTypeOK

\* Tries again are counted: the starts of a failing server (StartsAreBounded), the requests
\* and waits of a call of the model (RetriesStayInTheirLimits).
RetriesAreBounded == StartsAreBounded /\ RetriesStayInTheirLimits

\* What the turn waits for comes back by itself: an approval nobody gives once the user
\* interrupts (InterruptedRequestEnds), an operation on a server that does not answer
\* (OperationEnds), and a call of the model whatever its provider does (ModelCallEnds).
WaitsEnd ==
  /\ InterruptedRequestEnds
  /\ operation # "none" \/ place # "idle" ~> operation = "none" /\ place = "idle"
=======================================================================
