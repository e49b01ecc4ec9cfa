---------------------------- MODULE McpServer ----------------------------
(* One stdio MCP server as McpServerManager drives it (runtime/src/mcp_stdio.rs): *)
(* starting and initializing its process, listing its tools and resources, calls   *)
(* and their interruption, retries, resets, and the process on the other side,     *)
(* which may be slow, answer twice, close its pipes or exit at any moment. The      *)
(* manager's operations come one at a time (&mut self); its servers share only the  *)
(* request counter, so one of them is modelled. Texts, tools' names, the route      *)
(* table and how a process is killed are left out; the kill itself is not.          *)
EXTENDS Integers, Sequences, FiniteSets

CONSTANTS
  McpCallsMade,    \* bound: tool calls
  McpListings,     \* bound: discoveries and resource listings
  McpPages,        \* bound: pages of one listing a server may have
  McpFaults        \* bound: duplicated replies, closed pipes and exits

ASSUME McpBoundsAssumption ==
  /\ McpCallsMade \in Nat /\ McpListings \in Nat
  /\ McpPages \in Nat \ {0} /\ McpFaults \in Nat

VARIABLES
  process,       \* ManagedMcpServer::process and what its pipes hold
  initialized,   \* ManagedMcpServer::initialized
  exitedOnStart, \* exited_on_start
  operation,     \* the manager's operation: none, discover, list (resources) or call
  at,            \* where it is
  retries,       \* attempts of the operation and of ensure_ready
  requestId,     \* the id of the last request, next_request_id - 1
  pages,         \* listing pages read
  closed,        \* the manager was shut down
  call,          \* history: calls begun
  asked,         \* history: the calls written to a server, in order
  served,        \* history: the calls a server answered
  outcomes,      \* history: what became of each call
  starts,        \* history: processes started in this operation
  listed, faults

mcpState == <<process, initialized, exitedOnStart, operation, at, retries, requestId,
              pages, closed>>
mcpHistory == <<call, asked, served, outcomes, starts>>
mcpVars == <<mcpState, mcpHistory, listed, faults>>

McpCallIds == 1..McpCallsMade
Kinds == {"result", "error", "empty"}

\* A process: whether it runs, the requests it holds, and its replies not yet read.
NoProcess == [state |-> "none", inbox |-> <<>>, outbox |-> <<>>]
Spawned == [NoProcess EXCEPT !.state = "up"]
Up == process.state = "up"

McpInit ==
  /\ process = NoProcess /\ initialized = FALSE /\ exitedOnStart = FALSE
  /\ operation = "none" /\ at = "idle"
  /\ retries = [operation |-> 0, ready |-> 0]
  /\ requestId = 0 /\ pages = 0 /\ closed = FALSE
  /\ call = 0 /\ asked = <<>> /\ served = {} /\ outcomes = <<>> /\ starts = 0
  /\ listed = 0 /\ faults = 0

-----------------------------------------------------------------------------
(* Errors *)

\* is_retryable_error and should_reset_server.
Retryable(error) == error \in {"transport", "timeout"}
Resets(error) == error \in {"transport", "timeout", "invalid"}

\* reset and abandon: the process is killed and forgotten, its pipes with it.
Reset_KeepsInitialized == process' = NoProcess /\ UNCHANGED initialized
Reset == process' = NoProcess /\ initialized' = FALSE
KeepProcess == UNCHANGED <<process, initialized>>
Abandon_Kept == KeepProcess
Abandon == Reset

Ended ==
  /\ operation' = "none" /\ at' = "idle" /\ retries' = [operation |-> 0, ready |-> 0]
  /\ pages' = 0 /\ starts' = 0
GoesOn == UNCHANGED <<operation, outcomes, pages, starts>>

\* How the caller learns the end of an operation; only calls are recorded.
Conclude(outcome) ==
  /\ Ended
  /\ outcomes' = IF operation = "call" THEN Append(outcomes, outcome) ELSE outcomes

\* discover_tools, list_resources and read_resource try once more after a broken
\* connection or a timeout; discover_tools not when the process exited as it started.
\* A call is never tried again: its server may have carried it out.
TriesAgain_CallsToo(error, exited) ==
  retries.operation = 0 /\ Retryable(error) /\ ~(operation = "discover" /\ exited)
TriesAgain_Uncounted(error, exited) ==
  /\ operation \in {"discover", "list"}
  /\ Retryable(error) /\ ~(operation = "discover" /\ exited)
TriesAgain(error, exited) ==
  /\ operation \in {"discover", "list"}
  /\ retries.operation = 0 /\ Retryable(error)
  /\ ~(operation = "discover" /\ exited)

OperationFails(error, exited) ==
  \/ /\ TriesAgain(error, exited)
     /\ Reset
     /\ at' = "prepare" /\ retries' = [operation |-> 1, ready |-> 0]
     /\ GoesOn
  \/ /\ ~TriesAgain(error, exited)
     /\ IF Resets(error) THEN Reset ELSE KeepProcess
     /\ Conclude("failed")

-----------------------------------------------------------------------------
(* Operations *)

BeginCall ==
  /\ operation = "none" /\ ~closed /\ call < McpCallsMade
  /\ call' = call + 1
  /\ operation' = "call" /\ at' = "prepare"
  /\ UNCHANGED <<process, initialized, exitedOnStart, retries, requestId, pages, closed,
                 asked, served, outcomes, starts, listed, faults>>

BeginListing(kind) ==
  /\ operation = "none" /\ ~closed /\ listed < McpListings
  /\ listed' = listed + 1
  /\ operation' = kind /\ at' = "prepare"
  /\ UNCHANGED <<process, initialized, exitedOnStart, retries, requestId, pages, closed,
                 mcpHistory, faults>>

\* ensure_ready, its beginning: a process that exited meanwhile is dropped.
PrepareServer ==
  /\ at = "prepare"
  /\ exitedOnStart' = FALSE
  /\ IF process.state = "exited" THEN Reset ELSE KeepProcess
  /\ at' = "start" /\ retries' = [retries EXCEPT !.ready = 0]
  /\ pages' = 0
  /\ UNCHANGED <<operation, requestId, closed, mcpHistory, listed, faults>>

\* A new process when there is none; the handshake once per process.
StartServer ==
  /\ at = "start" /\ process = NoProcess
  /\ \/ /\ process' = Spawned /\ initialized' = FALSE
        /\ starts' = starts + 1
        /\ at' = "handshake"
        /\ UNCHANGED <<operation, retries, outcomes, pages>>
     \/ KeepProcess /\ Conclude("failed")
  /\ UNCHANGED <<exitedOnStart, requestId, closed, call, asked, served, listed, faults>>

SkipStart ==
  /\ at = "start" /\ process # NoProcess
  /\ at' = IF initialized THEN "ask" ELSE "handshake"
  /\ UNCHANGED <<process, initialized, exitedOnStart, operation, retries, requestId, pages,
                 closed, mcpHistory, listed, faults>>

\* send_request; a write to a process that is gone may still succeed.
Write(request) ==
  process' = IF Up THEN [process EXCEPT !.inbox = Append(@, request)] ELSE process

SendInitialize ==
  /\ at = "handshake"
  /\ requestId' = requestId + 1
  /\ Write([id |-> requestId + 1, call |-> 0]) /\ at' = "initialize"
  /\ UNCHANGED <<initialized, exitedOnStart, operation, retries, pages, closed, mcpHistory,
                 listed, faults>>

SendRequest ==
  /\ at = "ask"
  /\ requestId' = requestId + 1
  /\ Write([id |-> requestId + 1, call |-> IF operation = "call" THEN call ELSE 0])
  /\ asked' = IF operation = "call" /\ Up THEN Append(asked, call) ELSE asked
  /\ at' = "answer"
  /\ UNCHANGED <<initialized, exitedOnStart, operation, retries, pages, closed, call,
                 served, outcomes, starts, listed, faults>>

-----------------------------------------------------------------------------
(* Replies *)

Waiting == at \in {"initialize", "answer"}

\* request: the message read must carry the id of the request.
OwnReply(reply) == reply.id = requestId

GivesUp_Never == FALSE
GivesUp == TRUE

\* What run_process_request may return of a wait that brings no reply.
RequestFailed(error) ==
  \/ error = "timeout" /\ GivesUp
  \/ error = "transport" /\ ~Up
  \/ error = "invalid" /\ process.outbox # <<>> /\ ~OwnReply(Head(process.outbox))

Received(kind) ==
  /\ process.outbox # <<>> /\ OwnReply(Head(process.outbox))
  /\ Head(process.outbox).kind = kind
Read == process' = [process EXCEPT !.outbox = Tail(@)]

\* ensure_ready when initialize failed: note_exit_on_start, then one more try with a
\* fresh process, else the error is the operation's.
HandshakeFails(error) ==
  LET exited == error = "transport" /\ process.state = "exited"
      again == retries.ready = 0 /\ Retryable(error) /\ ~exited
  IN
  /\ exitedOnStart' = exited
  /\ \/ /\ again
        /\ Reset
        /\ retries' = [retries EXCEPT !.ready = 1] /\ at' = "start"
        /\ GoesOn
     \/ ~again /\ OperationFails(error, exited)

InitializeFails ==
  /\ at = "initialize"
  /\ \E error \in {"timeout", "transport", "invalid"} :
       RequestFailed(error) /\ HandshakeFails(error)
  /\ UNCHANGED <<requestId, closed, call, asked, served, listed, faults>>

\* A refused initialize leaves the process; one without a result does not.
InitializeAnswered ==
  /\ at = "initialize"
  /\ \/ /\ Received("result") /\ Read
        /\ at' = "notify"
        /\ GoesOn /\ UNCHANGED <<initialized, retries>>
     \/ Received("error") /\ Read /\ Conclude("failed") /\ UNCHANGED initialized
     \/ Received("empty") /\ OperationFails("invalid", FALSE)
  /\ UNCHANGED <<exitedOnStart, requestId, closed, call, asked, served, listed, faults>>

\* send_initialized_notification.
NotifyInitialized ==
  /\ at = "notify"
  /\ \/ /\ initialized' = TRUE /\ at' = "ask"
        /\ GoesOn /\ UNCHANGED <<process, retries>>
     \/ ~Up /\ OperationFails("transport", FALSE)
     \/ GivesUp /\ OperationFails("timeout", FALSE)
  /\ UNCHANGED <<exitedOnStart, requestId, closed, call, asked, served, listed, faults>>

RequestFails ==
  /\ at = "answer"
  /\ \E error \in {"timeout", "transport", "invalid"} :
       RequestFailed(error) /\ OperationFails(error, FALSE)
  /\ UNCHANGED <<exitedOnStart, requestId, closed, call, asked, served, listed, faults>>

\* A call's reply is the call's result whatever it holds; an error ends a listing, and
\* so does a reply without a result, which is invalid.
CallAnswered ==
  /\ at = "answer" /\ operation = "call"
  /\ \E kind \in Kinds : Received(kind)
  /\ Read /\ Conclude("result")
  /\ UNCHANGED <<initialized, exitedOnStart, requestId, closed, call, asked, served, listed,
                 faults>>

ListingAnswered ==
  /\ at = "answer" /\ operation \in {"discover", "list"}
  /\ \/ /\ Received("result") /\ Read /\ UNCHANGED initialized
        /\ \/ /\ pages + 1 < McpPages
              /\ pages' = pages + 1 /\ at' = "ask"
              /\ UNCHANGED <<operation, retries, outcomes, starts>>
           \/ Conclude("result")
     \/ Received("error") /\ Read /\ Conclude("failed") /\ UNCHANGED initialized
     \/ Received("empty") /\ OperationFails("invalid", FALSE)
  /\ UNCHANGED <<exitedOnStart, requestId, closed, call, asked, served, listed, faults>>

\* call_tool_unless_cancelled: an interrupt drops the call wherever it waits.
InterruptCall ==
  /\ operation = "call" /\ at # "idle"
  /\ Abandon /\ Conclude("interrupted")
  /\ UNCHANGED <<exitedOnStart, requestId, closed, call, asked, served, listed, faults>>

\* shutdown, between operations or when the first discovery is cancelled; a process
\* that cannot be stopped is an error.
ShutDown ==
  /\ operation \in {"none", "discover"} /\ ~closed
  /\ closed' = TRUE /\ Ended
  /\ Reset \/ KeepProcess
  /\ UNCHANGED <<exitedOnStart, requestId, call, asked, served, outcomes, listed, faults>>

-----------------------------------------------------------------------------
(* The server's process *)

ServerUnchanged == UNCHANGED <<initialized, exitedOnStart, operation, at, retries, requestId,
                               pages, closed, call, asked, outcomes, starts, listed>>

ServerReplies ==
  /\ Up /\ process.inbox # <<>>
  /\ LET request == Head(process.inbox) IN
     /\ \E kind \in Kinds :
          process' = [process EXCEPT
            !.inbox = Tail(@),
            !.outbox = Append(@, [id |-> request.id, kind |-> kind, stray |-> FALSE])]
     /\ served' = IF request.call # 0 THEN served \cup {request.call} ELSE served
  /\ UNCHANGED faults /\ ServerUnchanged

\* A message nobody asked for: a second reply to the last request.
ServerRepeats ==
  /\ Up /\ process.inbox = <<>> /\ requestId > 0 /\ faults < McpFaults
  /\ faults' = faults + 1
  /\ process' = [process EXCEPT
       !.outbox = Append(@, [id |-> requestId, kind |-> "result", stray |-> TRUE])]
  /\ UNCHANGED served /\ ServerUnchanged

ServerStops(state) ==
  /\ Up /\ faults < McpFaults
  /\ faults' = faults + 1
  /\ process' = [process EXCEPT !.state = state]
  /\ UNCHANGED served /\ ServerUnchanged

\* Everything was done.
McpFinished ==
  /\ operation = "none"
  /\ closed \/ (call = McpCallsMade /\ listed = McpListings)
  /\ UNCHANGED mcpVars

ManagerStep ==
  \/ PrepareServer \/ StartServer \/ SkipStart \/ SendInitialize \/ SendRequest
  \/ InitializeFails \/ InitializeAnswered \/ NotifyInitialized
  \/ RequestFails \/ CallAnswered \/ ListingAnswered

McpNext ==
  \/ BeginCall \/ \E kind \in {"discover", "list"} : BeginListing(kind)
  \/ ManagerStep \/ InterruptCall \/ ShutDown
  \/ ServerReplies \/ ServerRepeats
  \/ \E state \in {"closed", "exited"} : ServerStops(state)
  \/ McpFinished

McpSpec == McpInit /\ [][McpNext]_mcpVars

\* The runtime polls the operation under way; no server owes it an answer.
McpFairSpec == McpSpec /\ WF_mcpVars(ManagerStep)

-----------------------------------------------------------------------------
(* Properties *)

McpTypeOK ==
  /\ process.state \in {"none", "up", "closed", "exited"}
  /\ process.inbox \in Seq([id : Nat, call : McpCallIds \cup {0}])
  /\ process.outbox \in Seq([id : Nat, kind : Kinds, stray : BOOLEAN])
  /\ initialized \in BOOLEAN /\ (initialized => process # NoProcess) /\ exitedOnStart \in BOOLEAN /\ closed \in BOOLEAN
  /\ operation \in {"none", "discover", "list", "call"}
  /\ at \in {"idle", "prepare", "start", "handshake", "initialize", "notify", "ask",
             "answer"}
  /\ (at = "idle") = (operation = "none")
  /\ retries \in [operation : 0..1, ready : 0..1]
  /\ requestId \in Nat /\ pages \in 0..McpPages
  /\ call \in 0..McpCallsMade /\ asked \in Seq(McpCallIds) /\ served \subseteq McpCallIds
  /\ outcomes \in Seq({"result", "failed", "interrupted"})
  /\ Len(outcomes) \in 0..call /\ starts \in Nat
  /\ listed \in 0..McpListings /\ faults \in 0..McpFaults

\* Between operations a server that is kept owes no reply and none is unread: whatever
\* ended the last operation (a timeout, an interrupt, an error, a retry), the next
\* request does not find an earlier one's answer before its own.
KeptServerIsInSync ==
  operation = "none" /\ ~closed =>
    /\ process.inbox = <<>>
    /\ \A i \in DOMAIN process.outbox : process.outbox[i].stray

\* No operation starts a failing server without end: a call twice at most, a listing four
\* times, since ensure_ready tries again within each of its own two tries.
StartsAreBounded == starts <= (IF operation = "call" THEN 2 ELSE 4)

\* discover_tools says a broken connection or a timeout "is retried once with a fresh
\* process".
StartedTwiceAtMost == operation = "discover" => starts <= 2

\* Every call keeps what McpCalls promises: it is written to a server at most once, and
\* a result is handed over only when the server answered that very call.
Calls == INSTANCE McpCalls WITH
  Calls <- McpCallIds,
  current <- IF operation = "call" THEN call ELSE 0,
  sent <- asked, replied <- served, results <- outcomes
CallsSpec == Calls!Spec

\* An operation ends even if its server never answers.
OperationEnds == operation # "none" ~> operation = "none"
==========================================================================
