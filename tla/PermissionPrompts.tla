----------------------- MODULE PermissionPrompts -----------------------
(* The full-screen UI's tool approvals (ChannelPermissionPrompter in         *)
(* rusty-claude-cli/src/executor.rs), over the engine's turns (run_turn in    *)
(* engine.rs) and up to the call they guard (execute_tool_use in              *)
(* runtime/src/conversation.rs). One replies channel outlives all the turns;  *)
(* the UI answers any request it has seen, once, as late as it likes. Which    *)
(* tool is called, why it needs an approval and what a session grant remembers *)
(* are left out: every modelled call asks.                                     *)
EXTENDS Integers, Sequences, FiniteSets

CONSTANTS
  MaxTurns,      \* bound: prompts run
  MaxRequests,   \* bound: approvals asked over all the turns
  MaxPanics      \* bound: turns that panic

ASSUME BoundsAssumption ==
  MaxTurns \in Nat /\ MaxRequests \in Nat /\ MaxPanics \in Nat

VARIABLES
  turns,        \* turns started
  pc,           \* where the engine thread is
  cancelled,    \* the running turn's token
  nextId,       \* the prompter's next_id
  lastId,       \* the engine's last_permission_id
  replies,      \* the channel: replies the UI sent that nobody received
  requests,     \* history: the id of each request the UI was shown, in order
  answered,     \* history: the requests the UI replied to
  approval,     \* history: the request whose reply allowed the current call
  ran,          \* history: <<request, request whose reply allowed it>> of each call run
  panics

uiVars == <<requests, answered>>
vars == <<turns, pc, cancelled, nextId, lastId, replies, uiVars, approval, ran, panics>>

\* A request is named by its place among all requests; its id is what is sent.
Requests == 1..MaxRequests
NoRequest == 0
Asked == 1..Len(requests)
Current == Len(requests)
Reply(request, allow) == [request |-> request, id |-> requests[request],
                          allow |-> allow]
PC == {"between", "drain", "running", "check", "receive", "allowed"}

Init ==
  /\ turns = 0 /\ pc = "between" /\ cancelled = FALSE
  /\ nextId = 0 /\ lastId = 0
  /\ replies = <<>> /\ requests = <<>> /\ answered = {}
  /\ approval = NoRequest /\ ran = {} /\ panics = 0

-----------------------------------------------------------------------------
(* The engine thread *)

\* A turn starts with a fresh token.
StartTurn ==
  /\ pc = "between" /\ turns < MaxTurns
  /\ turns' = turns + 1 /\ cancelled' = FALSE /\ pc' = "drain"
  /\ UNCHANGED <<nextId, lastId, replies, uiVars, approval, ran, panics>>

\* Answers to an earlier turn's requests are stale: try_recv until there is none.
Drain ==
  /\ pc = "drain" /\ replies # <<>>
  /\ replies' = Tail(replies)
  /\ UNCHANGED <<turns, pc, cancelled, nextId, lastId, uiVars, approval, ran, panics>>

\* ChannelPermissionPrompter::numbered_after, the start of the turn's numbering.
FirstNumber_Restarted == 0
FirstNumber_PastOne == lastId + 1
FirstNumber == lastId

Drained ==
  /\ pc = "drain" /\ replies = <<>>
  /\ nextId' = FirstNumber /\ pc' = "running"
  /\ UNCHANGED <<turns, cancelled, lastId, replies, uiVars, approval, ran, panics>>

\* decide: number the request and show it. The tool loop saw the token uncancelled
\* before the call, but the user may have interrupted since.
Decide ==
  /\ pc = "running" /\ Len(requests) < MaxRequests
  /\ nextId' = nextId + 1
  /\ requests' = Append(requests, nextId + 1)
  /\ pc' = "check"
  /\ UNCHANGED <<turns, cancelled, lastId, replies, answered, approval, ran, panics>>

\* The waiting loop looks at the token before each recv_timeout.
SeesInterrupt_Never == FALSE
SeesInterrupt == cancelled

CheckCancelled ==
  /\ pc = "check"
  /\ pc' = IF SeesInterrupt THEN "running" ELSE "receive"
  /\ UNCHANGED <<turns, cancelled, nextId, lastId, replies, uiVars, approval, ran,
                 panics>>

\* reply.id == id, the request being decided.
Matches_Any(reply) == TRUE
Matches(reply) == reply.id = nextId

\* recv_timeout: this request's answer, or one to a request already given up on.
Receive ==
  /\ pc = "receive" /\ replies # <<>>
  /\ replies' = Tail(replies)
  /\ LET reply == Head(replies) IN
     \/ /\ Matches(reply) /\ reply.allow
        /\ pc' = "allowed" /\ approval' = reply.request
     \/ /\ Matches(reply) /\ ~reply.allow
        /\ pc' = "running" /\ UNCHANGED approval
     \/ /\ ~Matches(reply)
        /\ pc' = "check" /\ UNCHANGED approval
  /\ UNCHANGED <<turns, cancelled, nextId, lastId, uiVars, ran, panics>>

TimesOut ==
  /\ pc = "receive" /\ replies = <<>>
  /\ pc' = "check"
  /\ UNCHANGED <<turns, cancelled, nextId, lastId, replies, uiVars, approval, ran,
                 panics>>

\* execute_tool_use: an allowed call the user interrupted meanwhile is never started.
RunCall ==
  /\ pc = "allowed"
  /\ ran' = IF ~cancelled THEN ran \cup {<<Current, approval>>} ELSE ran
  /\ approval' = NoRequest /\ pc' = "running"
  /\ UNCHANGED <<turns, cancelled, nextId, lastId, replies, uiVars, panics>>

EndTurn ==
  /\ pc = "running"
  /\ lastId' = nextId /\ pc' = "between"
  /\ UNCHANGED <<turns, cancelled, nextId, replies, uiVars, approval, ran, panics>>

\* serve catches the panic; last_permission_id is not assigned.
PanicTurn ==
  /\ pc = "running" /\ panics < MaxPanics
  /\ panics' = panics + 1 /\ pc' = "between"
  /\ UNCHANGED <<turns, cancelled, nextId, lastId, replies, uiVars, approval, ran>>

-----------------------------------------------------------------------------
(* The UI *)

\* An interrupt reaches a running turn (Engine.tla).
Interrupt ==
  /\ pc # "between" /\ ~cancelled
  /\ cancelled' = TRUE
  /\ UNCHANGED <<turns, pc, nextId, lastId, replies, uiVars, approval, ran, panics>>

ReplyTo(request, allow) ==
  /\ request \in Asked \ answered
  /\ answered' = answered \cup {request}
  /\ replies' = Append(replies, Reply(request, allow))
  /\ UNCHANGED <<turns, pc, cancelled, nextId, lastId, requests, approval, ran, panics>>

\* Every turn has run.
Finished ==
  /\ pc = "between" /\ turns = MaxTurns
  /\ UNCHANGED vars

EngineThread ==
  Drain \/ Drained \/ CheckCancelled \/ Receive \/ TimesOut \/ RunCall

Next ==
  \/ StartTurn \/ EngineThread \/ Decide \/ EndTurn \/ PanicTurn \/ Interrupt
  \/ \E request \in Requests, allow \in BOOLEAN : ReplyTo(request, allow)
  \/ Finished

Spec == Init /\ [][Next]_vars

\* The engine thread runs; the user owes no reply and no interrupt.
FairSpec == Spec /\ WF_vars(EngineThread)

-----------------------------------------------------------------------------
(* Properties *)

TypeOK ==
  /\ turns \in 0..MaxTurns /\ pc \in PC /\ cancelled \in BOOLEAN
  /\ nextId \in 0..MaxRequests /\ lastId \in 0..MaxRequests
  /\ requests \in Seq(Requests) /\ answered \subseteq Requests
  /\ replies \in Seq([request : Requests, id : Requests, allow : BOOLEAN])
  /\ approval \in Requests \cup {NoRequest}
  /\ ran \subseteq Requests \X Requests /\ panics \in 0..MaxPanics

\* A tool call runs only on the answer to its own request: a late answer to an
\* earlier call's request, of this turn or another, never approves it.
RunsOnItsOwnApproval == \A call \in ran : call[1] = call[2]

\* The same, as long as no turn panicked: after a panic last_permission_id is behind,
\* and the next turn uses its numbers again.
OwnApprovalUntilAPanic == panics = 0 => RunsOnItsOwnApproval

\* A request an interrupted turn waits on is decided without the user.
InterruptedRequestEnds ==
  pc \in {"check", "receive"} /\ cancelled ~> pc \in {"running", "between"}
=============================================================================
