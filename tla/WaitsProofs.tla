--------------------------- MODULE WaitsProofs ---------------------------
(* The approvals a turn waits for, for any number of turns, requests and      *)
(* panics: a tool call runs on the answer to its own request, until a turn     *)
(* panics. What the calls of one MCP server keep, for any number of calls,      *)
(* listings, pages and faults of the server: the server kept in sync, the       *)
(* starts of a failing one, and McpCalls, the caller's view, implemented. What  *)
(* a call of the model keeps, whatever its provider refuses, delays or breaks    *)
(* off and for any limits. And what the three components a turn waits for keep   *)
(* in the specification that runs them, MCWaits.                                *)
EXTENDS MCWaits, ChannelLemmas

-----------------------------------------------------------------------------
(* McpServer *)

McpRequests == [id : Nat, call : McpCallIds \cup {0}]
McpReplies == [id : Nat, kind : Kinds, stray : BOOLEAN]

Inbox == process.inbox
Outbox == process.outbox

\* The process is a record of its kind; forgotten, it holds nothing.
ProcessTypeOK ==
  /\ process \in [state : {"none", "up", "closed", "exited"},
                  inbox : Seq(McpRequests), outbox : Seq(McpReplies)]
  /\ process.state = "none" => process = NoProcess
  /\ initialized \in BOOLEAN /\ (initialized => process # NoProcess)
  /\ at \notin {"idle", "prepare", "start"} => process # NoProcess

ControlOK ==
  /\ exitedOnStart \in BOOLEAN /\ closed \in BOOLEAN
  /\ operation \in {"none", "discover", "list", "call"}
  /\ at \in {"idle", "prepare", "start", "handshake", "initialize", "notify", "ask",
             "answer"}
  /\ (at = "idle") = (operation = "none")
  /\ retries \in [operation : 0..1, ready : 0..1]
  /\ requestId \in Nat /\ pages \in 0..McpPages
  /\ listed \in 0..McpListings /\ faults \in 0..McpFaults
  /\ closed => operation = "none"

\* Calls are numbered as they begin; all but the one under way have an outcome.
CallsAreCounted ==
  /\ call \in 0..McpCallsMade
  /\ operation = "call" => call > 0
  /\ outcomes \in Seq({"result", "failed", "interrupted"})
  /\ Len(outcomes) = IF operation = "call" THEN call - 1 ELSE call

\* A try of an operation starts two processes at most, the second in ensure_ready's own
\* second try; a call is tried once.
StartsAreCounted ==
  /\ starts \in Nat
  /\ operation \in {"none", "call"} => retries.operation = 0
  /\ starts <= 2 * retries.operation
                 + (IF at = "start" THEN retries.ready
                    ELSE IF at \in {"idle", "prepare"} THEN 0 ELSE retries.ready + 1)

\* The call under way is not written before its request is sent, and then once; what a
\* process holds or has answered was written to it.
CallsAreAsked ==
  /\ asked \in Seq(McpCallIds) /\ served \subseteq McpCallIds
  /\ \A i \in 1..Len(asked) : asked[i] <= call
  /\ operation = "call" /\ at # "answer" => \A i \in 1..Len(asked) : asked[i] # call
  /\ \A i \in 1..Len(Inbox) :
       Inbox[i].call # 0 => \E j \in 1..Len(asked) : asked[j] = Inbox[i].call
  /\ \A c \in served : \E j \in 1..Len(asked) : asked[j] = c

\* No request and no reply carries an id not given yet.
IdsAreGiven ==
  /\ \A i \in 1..Len(Inbox) : Inbox[i].id <= requestId
  /\ \A i \in 1..Len(Outbox) : Outbox[i].id <= requestId

\* While nobody waits, the process owes nothing and holds strays only.
NothingIsOwed ==
  ~Waiting /\ ~closed => Inbox = <<>> /\ \A i \in 1..Len(Outbox) : Outbox[i].stray

\* While somebody waits, one request is out: still unread, and then no reply has its id,
\* or answered, and then no message before its reply has its id.
OneRequestIsOut ==
  Waiting =>
    /\ Inbox # <<>> =>
         /\ Len(Inbox) = 1 /\ Inbox[1].id = requestId
         /\ \A i \in 1..Len(Outbox) : Outbox[i].stray /\ Outbox[i].id # requestId
    /\ \A i \in 1..Len(Outbox) :
         ~Outbox[i].stray =>
           Outbox[i].id = requestId /\ \A j \in 1..(i - 1) : Outbox[j].id # requestId

\* While a call waits, its request is out, or answered, or the process was gone when it was
\* written; a reply with its id is there only once it was answered.
ReplyMeansServed ==
  operation = "call" /\ at = "answer" =>
    /\ Inbox # <<>> => Inbox[1].call = call
    /\ Up /\ Inbox = <<>> => call \in served
    /\ \A i \in 1..Len(Outbox) : Outbox[i].id = requestId => call \in served

McpInv ==
  /\ ProcessTypeOK /\ ControlOK /\ CallsAreCounted /\ StartsAreCounted
  /\ CallsAreAsked /\ IdsAreGiven
  /\ NothingIsOwed /\ OneRequestIsOut /\ ReplyMeansServed

-----------------------------------------------------------------------------
(* The steps by what they do: a failure resets the process, and tries again or ends the *)
(* operation; a reply that is read ends the operation or not.                            *)

McpErrors == {"timeout", "transport", "invalid"}

RetriesOnce ==
  /\ operation \in {"discover", "list"} /\ retries.operation = 0
  /\ Reset /\ at' = "prepare" /\ retries' = [operation |-> 1, ready |-> 0]
  /\ GoesOn

RestartsOnce ==
  /\ at = "initialize" /\ retries.ready = 0
  /\ Reset /\ at' = "start" /\ retries' = [retries EXCEPT !.ready = 1]
  /\ GoesOn

FailedStep ==
  /\ at \in {"initialize", "notify", "answer"}
  /\ RetriesOnce \/ RestartsOnce \/ (Reset /\ Conclude("failed"))
  /\ exitedOnStart' \in BOOLEAN
  /\ UNCHANGED <<requestId, closed, call, asked, served, listed, faults>>

ReadsReply ==
  /\ Waiting
  /\ Outbox # <<>> /\ OwnReply(Head(Outbox)) /\ Read
  /\ UNCHANGED <<initialized, exitedOnStart, requestId, closed, call, asked, served, listed,
                 faults>>

ReplyEnds(result) ==
  /\ ReadsReply /\ Conclude(result)
  /\ result = "result" /\ operation = "call" => at = "answer"

ReplyGoesOn ==
  /\ ReadsReply
  /\ \/ at = "initialize" /\ at' = "notify" /\ pages' = pages
     \/ at = "answer" /\ operation # "call" /\ at' = "ask" /\ pages' \in {pages, pages + 1}
        /\ pages' <= McpPages
  /\ UNCHANGED <<operation, retries, outcomes, starts>>

Notified ==
  /\ at = "notify" /\ initialized' = TRUE /\ at' = "ask"
  /\ UNCHANGED <<process, retries, exitedOnStart, requestId, closed, call, asked, served,
                 listed, faults>>
  /\ GoesOn

\* A failed operation is tried again or over, its process gone either way.
LEMMA FailureShape ==
  ASSUME NEW error \in McpErrors, NEW exited, OperationFails(error, exited)
  PROVE  RetriesOnce \/ (Reset /\ Conclude("failed"))
<1>1. Resets(error)
  BY DEF Resets, McpErrors
<1>2. CASE TriesAgain(error, exited)
  BY <1>2 DEF OperationFails, TriesAgain, RetriesOnce
<1>3. CASE ~TriesAgain(error, exited)
  BY <1>1, <1>3 DEF OperationFails
<1>4. QED
  BY <1>2, <1>3

\* The manager's steps that wait for the server are of these shapes.
LEMMA StepShapes ==
  ASSUME ControlOK, McpBoundsAssumption,
         InitializeFails \/ InitializeAnswered \/ NotifyInitialized
           \/ RequestFails \/ CallAnswered \/ ListingAnswered
  PROVE  \/ FailedStep \/ ReplyGoesOn \/ Notified
         \/ \E result \in {"result", "failed"} : ReplyEnds(result)
<1>1. CASE InitializeFails
  <2>1. PICK error \in McpErrors : HandshakeFails(error)
    BY <1>1 DEF InitializeFails, McpErrors
  <2>2. exitedOnStart' \in BOOLEAN
    BY <2>1 DEF HandshakeFails
  <2>3. CASE /\ Reset /\ retries.ready = 0
             /\ retries' = [retries EXCEPT !.ready = 1] /\ at' = "start"
             /\ GoesOn
    BY <1>1, <2>2, <2>3 DEF InitializeFails, FailedStep, RestartsOnce
  <2>4. CASE \E exited : OperationFails(error, exited)
    BY <1>1, <2>2, <2>4, FailureShape DEF InitializeFails, FailedStep
  <2>5. QED
    BY <2>1, <2>3, <2>4 DEF HandshakeFails
<1>2. CASE InitializeAnswered
  <2>1. CASE Received("result") /\ Read /\ at' = "notify" /\ GoesOn
             /\ UNCHANGED <<initialized, retries>>
    BY <1>2, <2>1 DEF InitializeAnswered, ReplyGoesOn, ReadsReply, GoesOn, Waiting,
      Received, Outbox
  <2>2. CASE Received("error") /\ Read /\ Conclude("failed") /\ UNCHANGED initialized
    BY <1>2, <2>2 DEF InitializeAnswered, ReplyEnds, ReadsReply, Waiting, Received,
      Outbox
  <2>3. CASE OperationFails("invalid", FALSE)
    <3>1. RetriesOnce \/ (Reset /\ Conclude("failed"))
      BY <2>3, FailureShape DEF McpErrors
    <3>2. QED
      BY <1>2, <3>1 DEF InitializeAnswered, FailedStep, ControlOK
  <2>4. QED
    BY <1>2, <2>1, <2>2, <2>3 DEF InitializeAnswered
<1>3. CASE NotifyInitialized
  <2>1. CASE initialized' = TRUE /\ at' = "ask" /\ GoesOn /\ UNCHANGED <<process, retries>>
    BY <1>3, <2>1 DEF NotifyInitialized, Notified
  <2>2. CASE \E error \in {"transport", "timeout"} : OperationFails(error, FALSE)
    <3>1. RetriesOnce \/ (Reset /\ Conclude("failed"))
      BY <2>2, FailureShape DEF McpErrors
    <3>2. QED
      BY <1>3, <3>1 DEF NotifyInitialized, FailedStep, ControlOK
  <2>3. QED
    BY <1>3, <2>1, <2>2 DEF NotifyInitialized
<1>4. CASE RequestFails
  <2>1. PICK error \in McpErrors : OperationFails(error, FALSE)
    BY <1>4 DEF RequestFails, McpErrors
  <2>2. RetriesOnce \/ (Reset /\ Conclude("failed"))
    BY <2>1, FailureShape
  <2>3. QED
    BY <1>4, <2>2 DEF RequestFails, FailedStep, ControlOK
<1>5. CASE CallAnswered
  BY <1>5 DEF CallAnswered, ReplyEnds, ReadsReply, Waiting, Received, Outbox
<1>6. CASE ListingAnswered
  <2>1. CASE /\ Received("result") /\ Read /\ UNCHANGED initialized
             /\ pages + 1 < McpPages /\ pages' = pages + 1 /\ at' = "ask"
             /\ UNCHANGED <<operation, retries, outcomes, starts>>
    BY <1>6, <2>1 DEF ListingAnswered, ReplyGoesOn, ReadsReply, Waiting, Received,
      Outbox, McpBoundsAssumption, ControlOK
  <2>2. CASE \E kind \in {"result", "error"}, result \in {"result", "failed"} :
               Received(kind) /\ Read /\ UNCHANGED initialized /\ Conclude(result)
    BY <1>6, <2>2 DEF ListingAnswered, ReplyEnds, ReadsReply, Waiting, Received, Outbox
  <2>3. CASE OperationFails("invalid", FALSE)
    <3>1. RetriesOnce \/ (Reset /\ Conclude("failed"))
      BY <2>3, FailureShape DEF McpErrors
    <3>2. QED
      BY <1>6, <3>1 DEF ListingAnswered, FailedStep, ControlOK
  <2>4. QED
    BY <1>6, <2>1, <2>2, <2>3 DEF ListingAnswered
<1>7. QED
  BY <1>1, <1>2, <1>3, <1>4, <1>5, <1>6

\* One step of the manager or of the server.
McpStep ==
  \/ BeginCall \/ \E kind \in {"discover", "list"} : BeginListing(kind)
  \/ PrepareServer \/ StartServer \/ SkipStart \/ SendInitialize \/ SendRequest
  \/ FailedStep \/ ReplyGoesOn \/ (\E result \in {"result", "failed"} : ReplyEnds(result))
  \/ Notified \/ InterruptCall \/ ShutDown \/ ServerReplies \/ ServerRepeats
  \/ \E state \in {"closed", "exited"} : ServerStops(state)
  \/ UNCHANGED mcpVars

\* There are no other steps.
LEMMA StepsKnown ==
  ASSUME ControlOK, McpBoundsAssumption, [McpNext]_mcpVars
  PROVE  McpStep
BY StepShapes DEF McpNext, ManagerStep, McpStep, McpFinished

\* What the manager keeps stays of its kind.
LEMMA ControlKept ==
  ASSUME ControlOK,
         McpStep, McpBoundsAssumption
  PROVE  ControlOK'
<1> USE DEF ControlOK, Waiting
<1>1. CASE BeginCall
  BY <1>1 DEF BeginCall
<1>2. ASSUME NEW kind \in {"discover", "list"}, BeginListing(kind) PROVE ControlOK'
  BY <1>2 DEF BeginListing, mcpHistory
<1>3. CASE PrepareServer
  <2>1. retries' \in [operation : 0..1, ready : 0..1]
    BY <1>3 DEF PrepareServer
  <2>2. /\ at = "prepare" /\ at' = "start" /\ exitedOnStart' \in BOOLEAN /\ pages' = 0
        /\ UNCHANGED <<operation, requestId, closed, listed, faults>>
    BY <1>3 DEF PrepareServer
  <2>3. QED
    BY <2>1, <2>2 DEF McpBoundsAssumption
<1>4. CASE StartServer
  BY <1>4 DEF StartServer, KeepProcess, Conclude, Ended
<1>5. CASE SkipStart
  BY <1>5 DEF SkipStart, mcpHistory
<1>6. CASE SendInitialize
  BY <1>6 DEF SendInitialize, mcpHistory, Write
<1>7. CASE SendRequest
  BY <1>7 DEF SendRequest, Write
<1>8. CASE FailedStep
  BY <1>8 DEF FailedStep, RetriesOnce, RestartsOnce, Reset, Conclude, Ended, GoesOn
<1>9. CASE ReplyGoesOn
  BY <1>9 DEF ReplyGoesOn, ReadsReply, Read
<1>10. ASSUME NEW result \in {"result", "failed"}, ReplyEnds(result) PROVE ControlOK'
  BY <1>10 DEF ReplyEnds, ReadsReply, Read, Conclude, Ended
<1>11. CASE Notified
  BY <1>11 DEF Notified, GoesOn
<1>12. CASE InterruptCall
  BY <1>12 DEF InterruptCall, Abandon, Reset, Conclude, Ended
<1>13. CASE ShutDown
  BY <1>13 DEF ShutDown, Ended, Reset, KeepProcess
<1>14. CASE ServerReplies
  BY <1>14 DEF ServerReplies, ServerUnchanged
<1>15. CASE ServerRepeats
  BY <1>15 DEF ServerRepeats, ServerUnchanged
<1>16. ASSUME NEW state \in {"closed", "exited"}, ServerStops(state) PROVE ControlOK'
  BY <1>16 DEF ServerStops, ServerUnchanged
<1>17. CASE UNCHANGED mcpVars
  BY <1>17 DEF mcpVars, mcpState, mcpHistory
<1>18. QED
  BY <1>1, <1>2, <1>3, <1>4, <1>5, <1>6, <1>7, <1>8, <1>9, <1>10, <1>11, <1>12, <1>13,
    <1>14, <1>15, <1>16, <1>17 DEF McpStep

\* Processes are counted by the tries.
LEMMA StartsKept ==
  ASSUME ControlOK, StartsAreCounted,
         McpStep, McpBoundsAssumption
  PROVE  StartsAreCounted'
<1> USE DEF ControlOK, StartsAreCounted
<1>1. CASE BeginCall
  BY <1>1 DEF BeginCall
<1>2. ASSUME NEW kind \in {"discover", "list"}, BeginListing(kind) PROVE StartsAreCounted'
  BY <1>2 DEF BeginListing, mcpHistory
<1>3. CASE PrepareServer
  BY <1>3 DEF PrepareServer, mcpHistory, KeepProcess, Reset
<1>4. CASE StartServer
  BY <1>4 DEF StartServer, KeepProcess, Conclude, Ended
<1>5. CASE SkipStart
  BY <1>5 DEF SkipStart, mcpHistory
<1>6. CASE SendInitialize
  BY <1>6 DEF SendInitialize, mcpHistory, Write
<1>7. CASE SendRequest
  BY <1>7 DEF SendRequest, Write
<1>8. CASE FailedStep
  BY SMTT(60), <1>8 DEF FailedStep, RetriesOnce, RestartsOnce, Reset, Conclude, Ended, GoesOn
<1>9. CASE ReplyGoesOn
  BY <1>9 DEF ReplyGoesOn, ReadsReply, Read
<1>10. ASSUME NEW result \in {"result", "failed"}, ReplyEnds(result) PROVE StartsAreCounted'
  BY <1>10 DEF ReplyEnds, ReadsReply, Read, Conclude, Ended
<1>11. CASE Notified
  BY <1>11 DEF Notified, GoesOn
<1>12. CASE InterruptCall
  BY <1>12 DEF InterruptCall, Abandon, Reset, Conclude, Ended
<1>13. CASE ShutDown
  BY <1>13 DEF ShutDown, Ended, Reset, KeepProcess
<1>14. CASE ServerReplies
  BY <1>14 DEF ServerReplies, ServerUnchanged
<1>15. CASE ServerRepeats
  BY <1>15 DEF ServerRepeats, ServerUnchanged
<1>16. ASSUME NEW state \in {"closed", "exited"}, ServerStops(state) PROVE StartsAreCounted'
  BY <1>16 DEF ServerStops, ServerUnchanged
<1>17. CASE UNCHANGED mcpVars
  BY <1>17 DEF mcpVars, mcpState, mcpHistory
<1>18. QED
  BY <1>1, <1>2, <1>3, <1>4, <1>5, <1>6, <1>7, <1>8, <1>9, <1>10, <1>11, <1>12, <1>13,
    <1>14, <1>15, <1>16, <1>17 DEF McpStep

\* A call gets its outcome when it ends.
LEMMA CallsKept ==
  ASSUME ControlOK, CallsAreCounted,
         McpStep, McpBoundsAssumption
  PROVE  CallsAreCounted'
<1> USE DEF ControlOK, CallsAreCounted
<1>1. CASE BeginCall
  BY <1>1 DEF BeginCall
<1>2. ASSUME NEW kind \in {"discover", "list"}, BeginListing(kind) PROVE CallsAreCounted'
  BY <1>2 DEF BeginListing, mcpHistory
<1>3. CASE PrepareServer
  BY <1>3 DEF PrepareServer, mcpHistory, KeepProcess, Reset
<1>4. CASE StartServer
  BY <1>4 DEF StartServer, KeepProcess, Conclude, Ended
<1>5. CASE SkipStart
  BY <1>5 DEF SkipStart, mcpHistory
<1>6. CASE SendInitialize
  BY <1>6 DEF SendInitialize, mcpHistory, Write
<1>7. CASE SendRequest
  BY <1>7 DEF SendRequest, Write
<1>8. CASE FailedStep
  <2>1. CASE RetriesOnce \/ RestartsOnce
    BY <1>8, <2>1 DEF FailedStep, RetriesOnce, RestartsOnce, GoesOn
  <2>2. CASE Reset /\ Conclude("failed")
    BY <1>8, <2>2 DEF FailedStep, Conclude, Ended
  <2>3. QED
    BY <1>8, <2>1, <2>2 DEF FailedStep
<1>9. CASE ReplyGoesOn
  BY <1>9 DEF ReplyGoesOn, ReadsReply, Read
<1>10. ASSUME NEW result \in {"result", "failed"}, ReplyEnds(result) PROVE CallsAreCounted'
  BY SMTT(60), <1>10 DEF ReplyEnds, ReadsReply, Read, Conclude, Ended
<1>11. CASE Notified
  BY <1>11 DEF Notified, GoesOn
<1>12. CASE InterruptCall
  BY <1>12 DEF InterruptCall, Abandon, Reset, Conclude, Ended
<1>13. CASE ShutDown
  BY <1>13 DEF ShutDown, Ended, Reset, KeepProcess
<1>14. CASE ServerReplies
  BY <1>14 DEF ServerReplies, ServerUnchanged
<1>15. CASE ServerRepeats
  BY <1>15 DEF ServerRepeats, ServerUnchanged
<1>16. ASSUME NEW state \in {"closed", "exited"}, ServerStops(state) PROVE CallsAreCounted'
  BY <1>16 DEF ServerStops, ServerUnchanged
<1>17. CASE UNCHANGED mcpVars
  BY <1>17 DEF mcpVars, mcpState, mcpHistory
<1>18. QED
  BY <1>1, <1>2, <1>3, <1>4, <1>5, <1>6, <1>7, <1>8, <1>9, <1>10, <1>11, <1>12, <1>13,
    <1>14, <1>15, <1>16, <1>17 DEF McpStep


\* What a process holds stays of its kind.
LEMMA ProcessKept ==
  ASSUME ProcessTypeOK, ControlOK, CallsAreCounted,
         McpStep, McpBoundsAssumption
  PROVE  ProcessTypeOK'
<1> USE DEF ProcessTypeOK, ControlOK, CallsAreCounted, McpRequests, McpReplies
<1>0. /\ NoProcess \in [state : {"none", "up", "closed", "exited"},
                        inbox : Seq(McpRequests), outbox : Seq(McpReplies)]
      /\ Spawned \in [state : {"none", "up", "closed", "exited"},
                      inbox : Seq(McpRequests), outbox : Seq(McpReplies)]
      /\ Spawned # NoProcess /\ Spawned.state = "up"
  BY EmptySeq DEF NoProcess, Spawned
<1>w. ASSUME NEW request \in McpRequests, Write(request), UNCHANGED initialized,
             at \in {"handshake", "ask"}
      PROVE  ProcessTypeOK'
  BY <1>w, AppendProperties DEF Write, Up, NoProcess
<1>r. ASSUME ReadsReply
      PROVE  ProcessTypeOK'
  <2>1. process.outbox # <<>> /\ process' = [process EXCEPT !.outbox = Tail(@)]
    BY <1>r DEF ReadsReply, Read, Outbox
  <2>2. process.state # "none" /\ Tail(process.outbox) \in Seq(McpReplies)
    BY <2>1, FirstTaken DEF NoProcess
  <2>3. QED
    BY <1>r, <2>1, <2>2 DEF ReadsReply, NoProcess
<1>1. CASE BeginCall
  BY <1>1 DEF BeginCall
<1>2. ASSUME NEW kind \in {"discover", "list"}, BeginListing(kind) PROVE ProcessTypeOK'
  BY <1>2 DEF BeginListing, mcpHistory
<1>3. CASE PrepareServer
  BY <1>3, <1>0 DEF PrepareServer, mcpHistory, KeepProcess, Reset
<1>4. CASE StartServer
  BY <1>4, <1>0 DEF StartServer, KeepProcess, Conclude, Ended
<1>5. CASE SkipStart
  BY <1>5 DEF SkipStart, mcpHistory
<1>6. CASE SendInitialize
  <2>1. [id |-> requestId + 1, call |-> 0] \in McpRequests
    OBVIOUS
  <2>2. QED
    BY <1>6, <2>1, <1>w DEF SendInitialize
<1>7. CASE SendRequest
  <2>1. [id |-> requestId + 1, call |-> IF operation = "call" THEN call ELSE 0]
          \in McpRequests
    BY DEF McpCallIds
  <2>2. QED
    BY <1>7, <2>1, <1>w DEF SendRequest
<1>8. CASE FailedStep
  BY <1>8, <1>0 DEF FailedStep, RetriesOnce, RestartsOnce, Reset, Conclude, Ended,
    GoesOn
<1>9. CASE ReplyGoesOn
  BY <1>9, <1>r DEF ReplyGoesOn
<1>10. ASSUME NEW result \in {"result", "failed"}, ReplyEnds(result) PROVE ProcessTypeOK'
  BY <1>10, <1>r DEF ReplyEnds
<1>11. CASE Notified
  BY <1>11 DEF Notified, GoesOn
<1>12. CASE InterruptCall
  BY <1>12, <1>0 DEF InterruptCall, Abandon, Reset, Conclude, Ended
<1>13. CASE ShutDown
  BY <1>13, <1>0 DEF ShutDown, Ended, Reset, KeepProcess
<1>14. CASE ServerReplies
  <2>1. PICK kind \in Kinds : process' = [process EXCEPT
            !.inbox = Tail(@),
            !.outbox = Append(@, [id |-> Head(process.inbox).id, kind |-> kind,
                                  stray |-> FALSE])]
    BY <1>14 DEF ServerReplies
  <2>2. /\ process.inbox # <<>> /\ process.state = "up"
        /\ UNCHANGED initialized
    BY <1>14 DEF ServerReplies, ServerUnchanged, Up
  <2>3. Tail(process.inbox) \in Seq(McpRequests) /\ Head(process.inbox) \in McpRequests
    BY <2>2, FirstTaken
  <2>4. [id |-> Head(process.inbox).id, kind |-> kind, stray |-> FALSE] \in McpReplies
    BY <2>3
  <2>5. Append(process.outbox, [id |-> Head(process.inbox).id, kind |-> kind,
                                stray |-> FALSE]) \in Seq(McpReplies)
    BY <2>4, AppendProperties
  <2>6. QED
    BY <2>1, <2>2, <2>3, <2>5 DEF NoProcess
<1>15. CASE ServerRepeats
  <2>1. [id |-> requestId, kind |-> "result", stray |-> TRUE] \in McpReplies
    BY DEF Kinds
  <2>2. Append(process.outbox, [id |-> requestId, kind |-> "result", stray |-> TRUE])
          \in Seq(McpReplies)
    BY <2>1, AppendProperties
  <2>3. QED
    BY <1>15, <2>2 DEF ServerRepeats, ServerUnchanged, Up, NoProcess
<1>16. ASSUME NEW state \in {"closed", "exited"}, ServerStops(state) PROVE ProcessTypeOK'
  BY <1>16 DEF ServerStops, ServerUnchanged, Up, NoProcess
<1>17. CASE UNCHANGED mcpVars
  BY <1>17 DEF mcpVars, mcpState, mcpHistory
<1>18. QED
  BY <1>1, <1>2, <1>3, <1>4, <1>5, <1>6, <1>7, <1>8, <1>9, <1>10, <1>11, <1>12, <1>13,
    <1>14, <1>15, <1>16, <1>17 DEF McpStep


\* The requests and replies a process holds carry ids and calls.
LEMMA PipesTyped ==
  ASSUME ProcessTypeOK
  PROVE  /\ \A i \in 1..Len(Inbox) :
              Inbox[i] \in McpRequests /\ Inbox[i].id \in Nat
         /\ \A i \in 1..Len(Outbox) :
              /\ Outbox[i] \in McpReplies
              /\ Outbox[i].id \in Nat /\ Outbox[i].stray \in BOOLEAN
<1>1. Inbox \in Seq(McpRequests) /\ Outbox \in Seq(McpReplies)
  BY DEF ProcessTypeOK, Inbox, Outbox
<1>2. ASSUME NEW i \in 1..Len(Inbox)
      PROVE  Inbox[i] \in McpRequests
  BY <1>1
<1>3. ASSUME NEW i \in 1..Len(Outbox)
      PROVE  Outbox[i] \in McpReplies
  BY <1>1
<1>4. QED
  BY <1>2, <1>3 DEF McpRequests, McpReplies

\* What the steps do to the requests and replies a process holds.
LEMMA PipesMove ==
  ASSUME ProcessTypeOK, ControlOK
  PROVE  /\ Inbox \in Seq(McpRequests) /\ Outbox \in Seq(McpReplies)
         /\ process' = NoProcess => Inbox' = <<>> /\ Outbox' = <<>> /\ ~Up'
         /\ process' = Spawned => Inbox' = <<>> /\ Outbox' = <<>>
         /\ \A request : Write(request) =>
              /\ Outbox' = Outbox /\ (Up' <=> Up)
              /\ Inbox' = IF Up THEN Append(Inbox, request) ELSE Inbox
         /\ Read => Inbox' = Inbox /\ Outbox' = Tail(Outbox) /\ (Up' <=> Up)
         /\ ServerReplies =>
              /\ Inbox # <<>> /\ Inbox' = Tail(Inbox)
              /\ \E kind \in Kinds :
                   Outbox' = Append(Outbox, [id |-> Head(Inbox).id, kind |-> kind,
                                             stray |-> FALSE])
         /\ ServerRepeats =>
              /\ Up /\ Inbox = <<>> /\ Inbox' = <<>>
              /\ Outbox' = Append(Outbox, [id |-> requestId, kind |-> "result",
                                           stray |-> TRUE])
         /\ \A state : ServerStops(state) => Inbox' = Inbox /\ Outbox' = Outbox /\ Up
<1> USE DEF ProcessTypeOK, Inbox, Outbox
<1>1. /\ process.inbox \in Seq(McpRequests) /\ process.outbox \in Seq(McpReplies)
      /\ process' = NoProcess =>
           process'.inbox = <<>> /\ process'.outbox = <<>> /\ ~Up'
      /\ process' = Spawned => process'.inbox = <<>> /\ process'.outbox = <<>>
  BY DEF NoProcess, Spawned, Up
<1>2. ASSUME NEW request, Write(request)
      PROVE  /\ process'.outbox = process.outbox /\ (Up' <=> Up)
             /\ process'.inbox =
                  IF Up THEN Append(process.inbox, request) ELSE process.inbox
  BY <1>2 DEF Write, Up
<1>3. ASSUME Read
      PROVE  /\ process'.inbox = process.inbox /\ process'.outbox = Tail(process.outbox)
             /\ Up' <=> Up
  BY <1>3 DEF Read, Up
<1>4. ASSUME ServerReplies
      PROVE  /\ process.inbox # <<>> /\ process'.inbox = Tail(process.inbox)
             /\ \E kind \in Kinds :
                  process'.outbox = Append(process.outbox, [id |-> Head(process.inbox).id,
                                               kind |-> kind, stray |-> FALSE])
  BY <1>4 DEF ServerReplies
<1>5. ASSUME ServerRepeats
      PROVE  /\ Up /\ process.inbox = <<>> /\ process'.inbox = <<>>
             /\ process'.outbox = Append(process.outbox, [id |-> requestId,
                                            kind |-> "result", stray |-> TRUE])
  BY <1>5 DEF ServerRepeats
<1>6. ASSUME NEW state, ServerStops(state)
      PROVE  process'.inbox = process.inbox /\ process'.outbox = process.outbox /\ Up
  BY <1>6 DEF ServerStops
<1>7. QED
  BY <1>1, <1>2, <1>3, <1>4, <1>5, <1>6

\* What a process holds or has answered was written to it, each call once.
LEMMA AskedKept ==
  ASSUME ProcessTypeOK, ControlOK, CallsAreCounted, CallsAreAsked,
         McpStep, McpBoundsAssumption
  PROVE  CallsAreAsked'
<1>0. /\ Inbox \in Seq(McpRequests) /\ Outbox \in Seq(McpReplies)
      /\ process' = NoProcess => Inbox' = <<>> /\ Outbox' = <<>> /\ ~Up'
      /\ process' = Spawned => Inbox' = <<>> /\ Outbox' = <<>>
      /\ \A request : Write(request) =>
           /\ Outbox' = Outbox /\ (Up' <=> Up)
           /\ Inbox' = IF Up THEN Append(Inbox, request) ELSE Inbox
      /\ Read => Inbox' = Inbox /\ Outbox' = Tail(Outbox) /\ (Up' <=> Up)
      /\ ServerReplies => Inbox # <<>> /\ Inbox' = Tail(Inbox)
      /\ ServerRepeats => Up /\ Inbox = <<>> /\ Inbox' = <<>>
      /\ \A state : ServerStops(state) => Inbox' = Inbox /\ Outbox' = Outbox /\ Up
  BY PipesMove
<1> USE DEF ControlOK, CallsAreCounted, CallsAreAsked
<1>1. CASE BeginCall
  <2>1. \A i \in 1..Len(asked) : asked[i] <= call + 1 /\ asked[i] # call + 1
    <3>1. \A i \in 1..Len(asked) : asked[i] \in McpCallIds
      OBVIOUS
    <3>2. call \in Int
      BY DEF McpBoundsAssumption
    <3>3. QED
      BY <3>1, <3>2 DEF McpCallIds
  <2>2. QED
    BY <1>1, <2>1 DEF BeginCall, Inbox
<1>2. ASSUME NEW kind \in {"discover", "list"}, BeginListing(kind) PROVE CallsAreAsked'
  BY <1>2 DEF BeginListing, mcpHistory, Inbox
<1>3. CASE PrepareServer
  BY SMTT(60), <1>3, <1>0 DEF PrepareServer, mcpHistory, KeepProcess, Reset, Inbox
<1>4. CASE StartServer
  BY <1>4, <1>0 DEF StartServer, KeepProcess, Conclude, Ended, Inbox
<1>5. CASE SkipStart
  BY <1>5 DEF SkipStart, mcpHistory, Inbox
<1>6. CASE SendInitialize
  <2>1. Inbox' = (IF Up THEN Append(Inbox, [id |-> requestId + 1, call |-> 0]) ELSE Inbox)
    BY <1>6, <1>0 DEF SendInitialize
  <2>2. [id |-> requestId + 1, call |-> 0] \in McpRequests
    BY DEF McpRequests, ControlOK
  <2>3. \A i \in 1..Len(Inbox') :
          Inbox'[i].call # 0 => \E j \in 1..Len(asked) : asked[j] = Inbox'[i].call
    BY SMTT(60), <2>1, <2>2, <1>0, LastAdded
  <2>4. QED
    BY <1>6, <2>3 DEF SendInitialize, mcpHistory
<1>7. CASE SendRequest
  <2> DEFINE request == [id |-> requestId + 1,
                         call |-> IF operation = "call" THEN call ELSE 0]
  <2>1. Inbox' = (IF Up THEN Append(Inbox, request) ELSE Inbox)
    BY <1>7, <1>0 DEF SendRequest
  <2>2. request \in McpRequests /\ (operation = "call" => call \in McpCallIds)
    BY DEF McpRequests, ControlOK, CallsAreCounted, McpCallIds
  <2>3. asked' = IF operation = "call" /\ Up THEN Append(asked, call) ELSE asked
    BY <1>7 DEF SendRequest
  <2>4. /\ asked' \in Seq(McpCallIds)
        /\ \A i \in 1..Len(asked') : asked'[i] <= call
        /\ \A i \in 1..Len(asked) : i \in 1..Len(asked') /\ asked'[i] = asked[i]
        /\ operation = "call" /\ Up =>
             Len(asked') \in 1..Len(asked') /\ asked'[Len(asked')] = call
    <3>1. CASE operation = "call" /\ Up
      <4>1. /\ Append(asked, call) \in Seq(McpCallIds)
            /\ Len(Append(asked, call)) = Len(asked) + 1 /\ Len(asked) \in Nat
            /\ \A i \in 1..Len(asked) : Append(asked, call)[i] = asked[i]
            /\ Append(asked, call)[Len(asked) + 1] = call
        BY <3>1, <2>2, AppendProperties, LenProperties
      <4>2. \A i \in 1..Len(asked') : i \in 1..Len(asked) \/ i = Len(asked) + 1
        BY <4>1, <3>1, <2>3
      <4>3. QED
        BY <4>1, <4>2, <3>1, <2>3 DEF CallsAreCounted
    <3>2. CASE ~(operation = "call" /\ Up)
      BY <3>2, <2>3
    <3>3. QED
      BY <3>1, <3>2
  <2>5. \A i \in 1..Len(Inbox') :
          Inbox'[i].call # 0 => \E j \in 1..Len(asked') : asked'[j] = Inbox'[i].call
    <3>1. CASE Up
      <4> SUFFICES ASSUME NEW i \in 1..Len(Inbox'), Inbox'[i].call # 0
                   PROVE  \E j \in 1..Len(asked') : asked'[j] = Inbox'[i].call
        OBVIOUS
      <4>1. (i \in 1..Len(Inbox) /\ Inbox'[i] = Inbox[i]) \/ Inbox'[i] = request
        BY <2>1, <2>2, <3>1, <1>0, LastAdded
      <4>2. CASE i \in 1..Len(Inbox) /\ Inbox'[i] = Inbox[i]
        BY <4>2, <2>4
      <4>3. CASE Inbox'[i] = request
        BY <4>3, <2>4, <3>1
      <4>4. QED
        BY <4>1, <4>2, <4>3
    <3>2. CASE ~Up
      BY <3>2, <2>1, <2>4
    <3>3. QED
      BY <3>1, <3>2
  <2>6. \A c \in served : \E j \in 1..Len(asked') : asked'[j] = c
    BY <2>4
  <2>7. QED
    BY <1>7, <2>4, <2>5, <2>6 DEF SendRequest
<1>8. CASE FailedStep
  BY SMTT(60), <1>8, <1>0 DEF FailedStep, RetriesOnce, RestartsOnce, Reset, Conclude, Ended,
    GoesOn, Inbox
<1>9. CASE ReplyGoesOn
  BY <1>9, <1>0 DEF ReplyGoesOn, ReadsReply
<1>10. ASSUME NEW result \in {"result", "failed"}, ReplyEnds(result) PROVE CallsAreAsked'
  BY <1>10, <1>0 DEF ReplyEnds, ReadsReply, Conclude, Ended
<1>11. CASE Notified
  BY <1>11 DEF Notified, GoesOn, Inbox
<1>12. CASE InterruptCall
  BY <1>12, <1>0 DEF InterruptCall, Abandon, Reset, Conclude, Ended, Inbox
<1>13. CASE ShutDown
  BY <1>13, <1>0 DEF ShutDown, Ended, Reset, KeepProcess, Inbox
<1>14. CASE ServerReplies
  <2>1. /\ Inbox # <<>> /\ Inbox' = Tail(Inbox)
        /\ served' = IF Head(Inbox).call # 0 THEN served \cup {Head(Inbox).call} ELSE served
        /\ UNCHANGED <<asked, call, at, operation>>
    BY <1>14, <1>0 DEF ServerReplies, ServerUnchanged, Inbox
  <2>2. /\ Head(Inbox) = Inbox[1] /\ 1 \in 1..Len(Inbox)
        /\ \A k \in 1..Len(Tail(Inbox)) :
             k + 1 \in 1..Len(Inbox) /\ Tail(Inbox)[k] = Inbox[k + 1]
    BY <2>1, <1>0, FirstTaken
  <2>3. Head(Inbox).call # 0 => Head(Inbox).call \in McpCallIds
    <3>1. Head(Inbox) \in McpRequests
      BY <2>1, <1>0, FirstTaken
    <3>2. QED
      BY <3>1 DEF McpRequests
  <2>4. \A i \in 1..Len(Inbox') :
          Inbox'[i].call # 0 => \E j \in 1..Len(asked') : asked'[j] = Inbox'[i].call
    BY <2>1, <2>2
  <2>5. \A c \in served' : \E j \in 1..Len(asked') : asked'[j] = c
    BY <2>1, <2>2
  <2>6. QED
    BY <2>1, <2>3, <2>4, <2>5
<1>15. CASE ServerRepeats
  BY <1>15, <1>0, EmptySeq DEF ServerRepeats, ServerUnchanged
<1>16. ASSUME NEW state \in {"closed", "exited"}, ServerStops(state) PROVE CallsAreAsked'
  <2>1. Inbox' = Inbox
    BY <1>16, <1>0
  <2>2. QED
    BY <1>16, <2>1 DEF ServerStops, ServerUnchanged
<1>17. CASE UNCHANGED mcpVars
  BY <1>17 DEF mcpVars, mcpState, mcpHistory, Inbox
<1>18. QED
  BY <1>1, <1>2, <1>3, <1>4, <1>5, <1>6, <1>7, <1>8, <1>9, <1>10, <1>11, <1>12, <1>13,
    <1>14, <1>15, <1>16, <1>17 DEF McpStep

\* Requests get the ids in order.
LEMMA IdsKept ==
  ASSUME ProcessTypeOK, ControlOK, CallsAreCounted, IdsAreGiven,
         McpStep, McpBoundsAssumption
  PROVE  IdsAreGiven'
<1>0. /\ Inbox \in Seq(McpRequests) /\ Outbox \in Seq(McpReplies)
      /\ process' = NoProcess => Inbox' = <<>> /\ Outbox' = <<>> /\ ~Up'
      /\ process' = Spawned => Inbox' = <<>> /\ Outbox' = <<>>
      /\ \A request : Write(request) =>
           /\ Outbox' = Outbox /\ (Up' <=> Up)
           /\ Inbox' = IF Up THEN Append(Inbox, request) ELSE Inbox
      /\ Read => Inbox' = Inbox /\ Outbox' = Tail(Outbox) /\ (Up' <=> Up)
      /\ ServerReplies =>
           /\ Inbox # <<>> /\ Inbox' = Tail(Inbox)
           /\ \E kind \in Kinds :
                Outbox' = Append(Outbox, [id |-> Head(Inbox).id, kind |-> kind,
                                          stray |-> FALSE])
      /\ ServerRepeats =>
           /\ Up /\ Inbox = <<>> /\ Inbox' = <<>>
           /\ Outbox' = Append(Outbox, [id |-> requestId, kind |-> "result",
                                        stray |-> TRUE])
      /\ \A state : ServerStops(state) => Inbox' = Inbox /\ Outbox' = Outbox /\ Up
  BY PipesMove
<1>e. \A S : \A s \in Seq(S) : s = <<>> => Len(s) = 0
  BY EmptySeq
<1> USE DEF ControlOK, IdsAreGiven
<1>1. CASE BeginCall
  BY <1>1 DEF BeginCall, Inbox, Outbox
<1>2. ASSUME NEW kind \in {"discover", "list"}, BeginListing(kind) PROVE IdsAreGiven'
  BY <1>2 DEF BeginListing, mcpHistory, Inbox, Outbox
<1>3. CASE PrepareServer
  BY SMTT(60), <1>3, <1>0 DEF PrepareServer, mcpHistory, KeepProcess, Reset, Inbox, Outbox
<1>4. CASE StartServer
  BY <1>4, <1>0 DEF StartServer, KeepProcess, Conclude, Ended, Inbox, Outbox
<1>5. CASE SkipStart
  BY <1>5 DEF SkipStart, mcpHistory, Inbox, Outbox
<1>6. CASE SendInitialize
  <2> DEFINE request == [id |-> requestId + 1, call |-> 0]
  <2>1. /\ Outbox' = Outbox /\ requestId' = requestId + 1
        /\ Inbox' = IF Up THEN Append(Inbox, request) ELSE Inbox
    BY <1>6, <1>0 DEF SendInitialize
  <2>2. request \in McpRequests
    BY DEF McpRequests, CallsAreCounted, McpCallIds
  <2>3. \A i \in 1..Len(Outbox) : Outbox[i].id \in Nat
    BY PipesTyped
  <2>4. \A i \in 1..Len(Inbox) : Inbox[i].id \in Nat
    BY PipesTyped
  <2>5. \A i \in 1..Len(Inbox') :
          Inbox'[i] = request \/ (i \in 1..Len(Inbox) /\ Inbox'[i] = Inbox[i])
    BY <2>1, <2>2, <1>0, LastAdded
  <2>6. QED
    BY <2>1, <2>3, <2>4, <2>5
<1>7. CASE SendRequest
  <2> DEFINE request == [id |-> requestId + 1,
                         call |-> IF operation = "call" THEN call ELSE 0]
  <2>1. /\ Outbox' = Outbox /\ requestId' = requestId + 1
        /\ Inbox' = IF Up THEN Append(Inbox, request) ELSE Inbox
    BY <1>7, <1>0 DEF SendRequest
  <2>2. request \in McpRequests
    BY DEF McpRequests, CallsAreCounted, McpCallIds
  <2>3. \A i \in 1..Len(Outbox) : Outbox[i].id \in Nat
    BY PipesTyped
  <2>4. \A i \in 1..Len(Inbox) : Inbox[i].id \in Nat
    BY PipesTyped
  <2>5. \A i \in 1..Len(Inbox') :
          Inbox'[i] = request \/ (i \in 1..Len(Inbox) /\ Inbox'[i] = Inbox[i])
    BY <2>1, <2>2, <1>0, LastAdded
  <2>6. QED
    BY <2>1, <2>3, <2>4, <2>5
<1>8. CASE FailedStep
  BY <1>8, <1>0 DEF FailedStep, RetriesOnce, RestartsOnce, Reset, Conclude, Ended,
    GoesOn, Inbox, Outbox
<1>9. CASE ReplyGoesOn
  <2>1. Inbox' = Inbox /\ Outbox' = Tail(Outbox) /\ Outbox # <<>> /\ requestId' = requestId
    BY <1>9, <1>0 DEF ReplyGoesOn, ReadsReply
  <2>2. \A k \in 1..Len(Tail(Outbox)) :
          k + 1 \in 1..Len(Outbox) /\ Tail(Outbox)[k] = Outbox[k + 1]
    BY <2>1, <1>0, FirstTaken
  <2>3. QED
    BY <2>1, <2>2
<1>10. ASSUME NEW result \in {"result", "failed"}, ReplyEnds(result) PROVE IdsAreGiven'
  <2>1. Inbox' = Inbox /\ Outbox' = Tail(Outbox) /\ Outbox # <<>> /\ requestId' = requestId
    BY <1>10, <1>0 DEF ReplyEnds, ReadsReply
  <2>2. \A k \in 1..Len(Tail(Outbox)) :
          k + 1 \in 1..Len(Outbox) /\ Tail(Outbox)[k] = Outbox[k + 1]
    BY <2>1, <1>0, FirstTaken
  <2>3. QED
    BY <2>1, <2>2
<1>11. CASE Notified
  BY <1>11 DEF Notified, GoesOn, Inbox, Outbox
<1>12. CASE InterruptCall
  BY <1>12, <1>0 DEF InterruptCall, Abandon, Reset, Conclude, Ended, Inbox, Outbox
<1>13. CASE ShutDown
  BY <1>13, <1>0 DEF ShutDown, Ended, Reset, KeepProcess, Inbox, Outbox
<1>14. CASE ServerReplies
  <2>1. PICK kind \in Kinds :
          /\ Inbox # <<>> /\ Inbox' = Tail(Inbox)
          /\ Outbox' = Append(Outbox, [id |-> Head(Inbox).id, kind |-> kind,
                                       stray |-> FALSE])
    BY <1>14, <1>0
  <2> DEFINE reply == [id |-> Head(Inbox).id, kind |-> kind, stray |-> FALSE]
  <2>2. /\ Head(Inbox) = Inbox[1] /\ 1 \in 1..Len(Inbox) /\ Head(Inbox) \in McpRequests
        /\ \A k \in 1..Len(Tail(Inbox)) :
             k + 1 \in 1..Len(Inbox) /\ Tail(Inbox)[k] = Inbox[k + 1]
    BY <2>1, <1>0, FirstTaken
  <2>3. reply \in McpReplies
    BY <2>2 DEF McpReplies, McpRequests
  <2>4. \A k \in 1..Len(Outbox') :
          Outbox'[k] = reply \/ (k \in 1..Len(Outbox) /\ Outbox'[k] = Outbox[k])
    BY <2>1, <2>3, <1>0, LastAdded
  <2>5. requestId' = requestId
    BY <1>14 DEF ServerReplies, ServerUnchanged
  <2>6. QED
    BY <2>1, <2>2, <2>4, <2>5
<1>15. CASE ServerRepeats
  <2> DEFINE reply == [id |-> requestId, kind |-> "result", stray |-> TRUE]
  <2>1. Inbox' = <<>> /\ Inbox = <<>> /\ Outbox' = Append(Outbox, reply)
    BY <1>15, <1>0
  <2>2. reply \in McpReplies
    BY DEF McpReplies, Kinds
  <2>3. \A k \in 1..Len(Outbox') :
          Outbox'[k] = reply \/ (k \in 1..Len(Outbox) /\ Outbox'[k] = Outbox[k])
    BY <2>1, <2>2, <1>0, LastAdded
  <2>4. requestId' = requestId
    BY <1>15 DEF ServerRepeats, ServerUnchanged
  <2>5. QED
    BY <2>1, <2>3, <2>4
<1>16. ASSUME NEW state \in {"closed", "exited"}, ServerStops(state) PROVE IdsAreGiven'
  <2>1. Inbox' = Inbox /\ Outbox' = Outbox
    BY <1>16, <1>0
  <2>2. QED
    BY <1>16, <2>1 DEF ServerStops, ServerUnchanged
<1>17. CASE UNCHANGED mcpVars
  BY <1>17 DEF mcpVars, mcpState, mcpHistory, Inbox, Outbox
<1>18. QED
  BY <1>1, <1>2, <1>3, <1>4, <1>5, <1>6, <1>7, <1>8, <1>9, <1>10, <1>11, <1>12, <1>13,
    <1>14, <1>15, <1>16, <1>17 DEF McpStep

\* Whoever stops waiting has read the reply or has reset the process.
LEMMA NothingOwedKept ==
  ASSUME ProcessTypeOK, ControlOK, IdsAreGiven, OneRequestIsOut, NothingIsOwed,
         McpStep, McpBoundsAssumption
  PROVE  NothingIsOwed'
<1>0. /\ Inbox \in Seq(McpRequests) /\ Outbox \in Seq(McpReplies)
      /\ process' = NoProcess => Inbox' = <<>> /\ Outbox' = <<>> /\ ~Up'
      /\ process' = Spawned => Inbox' = <<>> /\ Outbox' = <<>>
      /\ \A request : Write(request) =>
           /\ Outbox' = Outbox /\ (Up' <=> Up)
           /\ Inbox' = IF Up THEN Append(Inbox, request) ELSE Inbox
      /\ Read => Inbox' = Inbox /\ Outbox' = Tail(Outbox) /\ (Up' <=> Up)
      /\ ServerReplies =>
           /\ Inbox # <<>> /\ Inbox' = Tail(Inbox)
           /\ \E kind \in Kinds :
                Outbox' = Append(Outbox, [id |-> Head(Inbox).id, kind |-> kind,
                                          stray |-> FALSE])
      /\ ServerRepeats =>
           /\ Up /\ Inbox = <<>> /\ Inbox' = <<>>
           /\ Outbox' = Append(Outbox, [id |-> requestId, kind |-> "result",
                                        stray |-> TRUE])
      /\ \A state : ServerStops(state) => Inbox' = Inbox /\ Outbox' = Outbox /\ Up
  BY PipesMove
<1>e. \A S : \A s \in Seq(S) : s = <<>> => Len(s) = 0
  BY EmptySeq
<1> USE DEF NothingIsOwed
<1>1. CASE BeginCall
  BY <1>1 DEF BeginCall, Inbox, Outbox, Waiting, ControlOK
<1>2. ASSUME NEW kind \in {"discover", "list"}, BeginListing(kind) PROVE NothingIsOwed'
  BY <1>2 DEF BeginListing, mcpHistory, Inbox, Outbox, Waiting, ControlOK
<1>3. CASE PrepareServer
  BY <1>3, <1>0, <1>e DEF PrepareServer, mcpHistory, KeepProcess, Reset, Inbox, Outbox,
    Waiting
<1>4. CASE StartServer
  BY <1>4, <1>0, <1>e DEF StartServer, KeepProcess, Conclude, Ended, Inbox, Outbox,
    Waiting
<1>5. CASE SkipStart
  BY <1>5 DEF SkipStart, mcpHistory, Inbox, Outbox, Waiting
<1>6. CASE SendInitialize
  BY <1>6 DEF SendInitialize, Waiting
<1>7. CASE SendRequest
  BY <1>7 DEF SendRequest, Waiting
<1>8. CASE FailedStep
  BY <1>8, <1>0, <1>e DEF FailedStep, RetriesOnce, RestartsOnce, Reset, Conclude, Ended,
    GoesOn, Inbox, Outbox, Waiting
<1>9. CASE ReplyGoesOn
  <2>1. /\ Inbox' = Inbox /\ Outbox' = Tail(Outbox) /\ Outbox # <<>>
        /\ Waiting /\ Head(Outbox).id = requestId
    BY <1>9, <1>0 DEF ReplyGoesOn, ReadsReply, OwnReply
  <2>2. /\ Head(Outbox) = Outbox[1] /\ 1 \in 1..Len(Outbox)
        /\ \A k \in 1..Len(Tail(Outbox)) :
             k + 1 \in 1..Len(Outbox) /\ Tail(Outbox)[k] = Outbox[k + 1]
    BY <2>1, <1>0, FirstTaken
  <2>3. Inbox = <<>>
    BY <2>1, <2>2 DEF OneRequestIsOut
  <2>4. \A k \in 1..Len(Tail(Outbox)) : Outbox[k + 1].stray /\ 1 \in 1..((k + 1) - 1)
    BY <2>1, <2>2 DEF OneRequestIsOut
  <2>5. QED
    BY <2>1, <2>2, <2>3, <2>4
<1>10. ASSUME NEW result \in {"result", "failed"}, ReplyEnds(result) PROVE NothingIsOwed'
  <2>1. /\ Inbox' = Inbox /\ Outbox' = Tail(Outbox) /\ Outbox # <<>>
        /\ Waiting /\ Head(Outbox).id = requestId
    BY <1>10, <1>0 DEF ReplyEnds, ReadsReply, OwnReply
  <2>2. /\ Head(Outbox) = Outbox[1] /\ 1 \in 1..Len(Outbox)
        /\ \A k \in 1..Len(Tail(Outbox)) :
             k + 1 \in 1..Len(Outbox) /\ Tail(Outbox)[k] = Outbox[k + 1]
    BY <2>1, <1>0, FirstTaken
  <2>3. Inbox = <<>>
    BY <2>1, <2>2 DEF OneRequestIsOut
  <2>4. \A k \in 1..Len(Tail(Outbox)) : Outbox[k + 1].stray /\ 1 \in 1..((k + 1) - 1)
    BY <2>1, <2>2 DEF OneRequestIsOut
  <2>5. QED
    BY <2>1, <2>2, <2>3, <2>4
<1>11. CASE Notified
  BY <1>11 DEF Notified, GoesOn, Inbox, Outbox, Waiting
<1>12. CASE InterruptCall
  BY <1>12, <1>0, <1>e DEF InterruptCall, Abandon, Reset, Conclude, Ended, Inbox,
    Outbox, Waiting
<1>13. CASE ShutDown
  BY <1>13, <1>0, <1>e DEF ShutDown, Ended, Reset, KeepProcess, Inbox, Outbox, Waiting
<1>14. CASE ServerReplies
  <2>1. Inbox # <<>> /\ UNCHANGED <<at, closed>>
    BY <1>14, <1>0 DEF ServerReplies, ServerUnchanged
  <2>2. QED
    BY <2>1 DEF Waiting
<1>15. CASE ServerRepeats
  <2> DEFINE reply == [id |-> requestId, kind |-> "result", stray |-> TRUE]
  <2>1. Inbox' = <<>> /\ Inbox = <<>> /\ Outbox' = Append(Outbox, reply)
    BY <1>15, <1>0
  <2>2. reply \in McpReplies
    BY DEF McpReplies, Kinds, ControlOK
  <2>3. \A k \in 1..Len(Outbox') :
          Outbox'[k] = reply \/ (k \in 1..Len(Outbox) /\ Outbox'[k] = Outbox[k])
    BY <2>1, <2>2, <1>0, LastAdded
  <2>4. UNCHANGED <<at, closed>>
    BY <1>15 DEF ServerRepeats, ServerUnchanged
  <2>5. QED
    BY <2>1, <2>3, <2>4 DEF Waiting
<1>16. ASSUME NEW state \in {"closed", "exited"}, ServerStops(state) PROVE NothingIsOwed'
  <2>1. Inbox' = Inbox /\ Outbox' = Outbox
    BY <1>16, <1>0
  <2>2. QED
    BY <1>16, <2>1 DEF ServerStops, ServerUnchanged, Waiting
<1>17. CASE UNCHANGED mcpVars
  BY <1>17 DEF mcpVars, mcpState, mcpHistory, Inbox, Outbox, Waiting
<1>18. QED
  BY <1>1, <1>2, <1>3, <1>4, <1>5, <1>6, <1>7, <1>8, <1>9, <1>10, <1>11, <1>12, <1>13,
    <1>14, <1>15, <1>16, <1>17 DEF McpStep

\* A request goes out to a process that owes nothing, and its reply comes once.
LEMMA OneRequestKept ==
  ASSUME ProcessTypeOK, ControlOK, CallsAreCounted, IdsAreGiven, NothingIsOwed,
         OneRequestIsOut, McpStep, McpBoundsAssumption
  PROVE  OneRequestIsOut'
<1>0. /\ Inbox \in Seq(McpRequests) /\ Outbox \in Seq(McpReplies)
      /\ process' = NoProcess => Inbox' = <<>> /\ Outbox' = <<>> /\ ~Up'
      /\ process' = Spawned => Inbox' = <<>> /\ Outbox' = <<>>
      /\ \A request : Write(request) =>
           /\ Outbox' = Outbox /\ (Up' <=> Up)
           /\ Inbox' = IF Up THEN Append(Inbox, request) ELSE Inbox
      /\ Read => Inbox' = Inbox /\ Outbox' = Tail(Outbox) /\ (Up' <=> Up)
      /\ ServerReplies =>
           /\ Inbox # <<>> /\ Inbox' = Tail(Inbox)
           /\ \E kind \in Kinds :
                Outbox' = Append(Outbox, [id |-> Head(Inbox).id, kind |-> kind,
                                          stray |-> FALSE])
      /\ ServerRepeats =>
           /\ Up /\ Inbox = <<>> /\ Inbox' = <<>>
           /\ Outbox' = Append(Outbox, [id |-> requestId, kind |-> "result",
                                        stray |-> TRUE])
      /\ \A state : ServerStops(state) => Inbox' = Inbox /\ Outbox' = Outbox /\ Up
  BY PipesMove
<1>e. \A S : \A s \in Seq(S) : s = <<>> => Len(s) = 0
  BY EmptySeq
<1> USE DEF OneRequestIsOut
<1>1. CASE BeginCall
  BY <1>1 DEF BeginCall, Waiting
<1>2. ASSUME NEW kind \in {"discover", "list"}, BeginListing(kind) PROVE OneRequestIsOut'
  BY <1>2 DEF BeginListing, mcpHistory, Waiting
<1>3. CASE PrepareServer
  BY <1>3 DEF PrepareServer, mcpHistory, KeepProcess, Reset, Waiting
<1>4. CASE StartServer
  BY <1>4 DEF StartServer, KeepProcess, Conclude, Ended, Waiting
<1>5. CASE SkipStart
  BY <1>5 DEF SkipStart, mcpHistory, Waiting
<1>6. CASE SendInitialize
  <2> DEFINE request == [id |-> requestId + 1, call |-> 0]
  <2>1. /\ Outbox' = Outbox /\ requestId' = requestId + 1
        /\ Inbox' = IF Up THEN Append(Inbox, request) ELSE Inbox
    BY <1>6, <1>0 DEF SendInitialize
  <2>2. Inbox = <<>> /\ \A i \in 1..Len(Outbox) : Outbox[i].stray
    BY <1>6 DEF SendInitialize, NothingIsOwed, ControlOK, Waiting
  <2>3. \A i \in 1..Len(Outbox) : Outbox[i].id # requestId + 1
    BY PipesTyped DEF IdsAreGiven, ControlOK
  <2>4. request \in McpRequests
    BY DEF McpRequests, ControlOK, CallsAreCounted, McpCallIds
  <2>5. Up => Len(Inbox') = 1 /\ Inbox'[1] = request
    BY <2>1, <2>2, <2>4, <1>0, <1>e, AppendProperties
  <2>6. QED
    BY <2>1, <2>2, <2>3, <2>5
<1>7. CASE SendRequest
  <2> DEFINE request == [id |-> requestId + 1,
                         call |-> IF operation = "call" THEN call ELSE 0]
  <2>1. /\ Outbox' = Outbox /\ requestId' = requestId + 1
        /\ Inbox' = IF Up THEN Append(Inbox, request) ELSE Inbox
    BY <1>7, <1>0 DEF SendRequest
  <2>2. Inbox = <<>> /\ \A i \in 1..Len(Outbox) : Outbox[i].stray
    BY <1>7 DEF SendRequest, NothingIsOwed, ControlOK, Waiting
  <2>3. \A i \in 1..Len(Outbox) : Outbox[i].id # requestId + 1
    BY PipesTyped DEF IdsAreGiven, ControlOK
  <2>4. request \in McpRequests
    BY DEF McpRequests, ControlOK, CallsAreCounted, McpCallIds
  <2>5. Up => Len(Inbox') = 1 /\ Inbox'[1] = request
    BY <2>1, <2>2, <2>4, <1>0, <1>e, AppendProperties
  <2>6. QED
    BY <2>1, <2>2, <2>3, <2>5
<1>8. CASE FailedStep
  BY <1>8 DEF FailedStep, RetriesOnce, RestartsOnce, Reset, Conclude, Ended, GoesOn,
    Waiting
<1>9. CASE ReplyGoesOn
  BY <1>9 DEF ReplyGoesOn, Waiting
<1>10. ASSUME NEW result \in {"result", "failed"}, ReplyEnds(result) PROVE OneRequestIsOut'
  BY <1>10 DEF ReplyEnds, Conclude, Ended, Waiting
<1>11. CASE Notified
  BY <1>11 DEF Notified, GoesOn, Waiting
<1>12. CASE InterruptCall
  BY <1>12 DEF InterruptCall, Abandon, Reset, Conclude, Ended, Waiting
<1>13. CASE ShutDown
  BY <1>13 DEF ShutDown, Ended, Reset, KeepProcess, Waiting
<1>14. CASE ServerReplies
  <2>1. PICK kind \in Kinds :
          /\ Inbox # <<>> /\ Inbox' = Tail(Inbox)
          /\ Outbox' = Append(Outbox, [id |-> Head(Inbox).id, kind |-> kind,
                                       stray |-> FALSE])
    BY <1>14, <1>0
  <2> DEFINE reply == [id |-> Head(Inbox).id, kind |-> kind, stray |-> FALSE]
  <2>2. Head(Inbox) = Inbox[1] /\ Head(Inbox) \in McpRequests
    BY <2>1, <1>0, FirstTaken
  <2>3. reply \in McpReplies
    BY <2>2 DEF McpReplies, McpRequests
  <2>4. /\ \A k \in 1..Len(Outbox') :
             \/ k = Len(Outbox) + 1 /\ Outbox'[k] = reply
             \/ k \in 1..Len(Outbox) /\ Outbox'[k] = Outbox[k]
        /\ Len(Outbox) \in Nat
    BY <2>1, <2>3, <1>0, LastAdded
  <2>5. UNCHANGED <<requestId, at>>
    BY <1>14 DEF ServerReplies, ServerUnchanged
  <2> SUFFICES ASSUME Waiting
               PROVE  OneRequestIsOut'
    BY <2>5 DEF Waiting
  <2>6. /\ Len(Inbox) = 1 /\ Inbox[1].id = requestId
        /\ \A i \in 1..Len(Outbox) : Outbox[i].stray /\ Outbox[i].id # requestId
    BY <2>1
  <2>7. Inbox' = <<>>
    BY <2>1, <2>6, <1>0, HeadTailProperties, EmptySeq
  <2>8. ASSUME NEW i \in 1..Len(Outbox'), ~Outbox'[i].stray
        PROVE  /\ Outbox'[i].id = requestId
               /\ \A j \in 1..(i - 1) : Outbox'[j].id # requestId
    <3>1. i = Len(Outbox) + 1 /\ Outbox'[i] = reply
      BY <2>4, <2>6, <2>8
    <3>2. ASSUME NEW j \in 1..(i - 1)
          PROVE  Outbox'[j].id # requestId
      <4>1. j \in 1..Len(Outbox) /\ j \in 1..Len(Outbox') /\ j # Len(Outbox) + 1
        BY <3>1, <2>4
      <4>2. QED
        BY <4>1, <2>4, <2>6
    <3>3. QED
      BY <3>1, <3>2, <2>2, <2>6
  <2>9. QED
    BY <2>5, <2>7, <2>8
<1>15. CASE ServerRepeats
  <2> DEFINE reply == [id |-> requestId, kind |-> "result", stray |-> TRUE]
  <2>1. Inbox' = <<>> /\ Inbox = <<>> /\ Outbox' = Append(Outbox, reply)
    BY <1>15, <1>0
  <2>2. reply \in McpReplies
    BY DEF McpReplies, Kinds, ControlOK
  <2>3. /\ \A k \in 1..Len(Outbox') :
             \/ k = Len(Outbox) + 1 /\ Outbox'[k] = reply
             \/ k \in 1..Len(Outbox) /\ Outbox'[k] = Outbox[k]
        /\ Len(Outbox) \in Nat /\ Len(Outbox') = Len(Outbox) + 1
    BY <2>1, <2>2, <1>0, LastAdded
  <2>4. UNCHANGED <<requestId, at>>
    BY <1>15 DEF ServerRepeats, ServerUnchanged
  <2> SUFFICES ASSUME Waiting
               PROVE  OneRequestIsOut'
    BY <2>4 DEF Waiting
  <2>5. ASSUME NEW i \in 1..Len(Outbox'), ~Outbox'[i].stray
        PROVE  /\ Outbox'[i].id = requestId
               /\ \A j \in 1..(i - 1) : Outbox'[j].id # requestId
    <3>1. i \in 1..Len(Outbox) /\ Outbox'[i] = Outbox[i]
      BY <2>3, <2>5
    <3>2. ASSUME NEW j \in 1..(i - 1)
          PROVE  Outbox'[j] = Outbox[j]
      BY <3>1, <2>3
    <3>3. QED
      BY <3>1, <3>2, <2>5
  <2>6. QED
    BY <2>1, <2>4, <2>5
<1>16. ASSUME NEW state \in {"closed", "exited"}, ServerStops(state) PROVE OneRequestIsOut'
  <2>1. Inbox' = Inbox /\ Outbox' = Outbox
    BY <1>16, <1>0
  <2>2. QED
    BY <1>16, <2>1 DEF ServerStops, ServerUnchanged, Waiting
<1>17. CASE UNCHANGED mcpVars
  BY <1>17 DEF mcpVars, mcpState, mcpHistory, Inbox, Outbox, Waiting
<1>18. QED
  BY <1>1, <1>2, <1>3, <1>4, <1>5, <1>6, <1>7, <1>8, <1>9, <1>10, <1>11, <1>12, <1>13,
    <1>14, <1>15, <1>16, <1>17 DEF McpStep

\* A reply with the id of a call's request comes after the server answered it.
LEMMA ReplyMeansServedKept ==
  ASSUME ProcessTypeOK, ControlOK, CallsAreCounted, IdsAreGiven, NothingIsOwed,
         OneRequestIsOut, ReplyMeansServed, McpStep, McpBoundsAssumption
  PROVE  ReplyMeansServed'
<1>0. /\ Inbox \in Seq(McpRequests) /\ Outbox \in Seq(McpReplies)
      /\ process' = NoProcess => Inbox' = <<>> /\ Outbox' = <<>> /\ ~Up'
      /\ process' = Spawned => Inbox' = <<>> /\ Outbox' = <<>>
      /\ \A request : Write(request) =>
           /\ Outbox' = Outbox /\ (Up' <=> Up)
           /\ Inbox' = IF Up THEN Append(Inbox, request) ELSE Inbox
      /\ Read => Inbox' = Inbox /\ Outbox' = Tail(Outbox) /\ (Up' <=> Up)
      /\ ServerReplies =>
           /\ Inbox # <<>> /\ Inbox' = Tail(Inbox)
           /\ \E kind \in Kinds :
                Outbox' = Append(Outbox, [id |-> Head(Inbox).id, kind |-> kind,
                                          stray |-> FALSE])
      /\ ServerRepeats =>
           /\ Up /\ Inbox = <<>> /\ Inbox' = <<>>
           /\ Outbox' = Append(Outbox, [id |-> requestId, kind |-> "result",
                                        stray |-> TRUE])
      /\ \A state : ServerStops(state) => Inbox' = Inbox /\ Outbox' = Outbox /\ Up
  BY PipesMove
<1>e. \A S : \A s \in Seq(S) : s = <<>> => Len(s) = 0
  BY EmptySeq
<1> USE DEF ReplyMeansServed
<1>1. CASE BeginCall
  BY <1>1 DEF BeginCall
<1>2. ASSUME NEW kind \in {"discover", "list"}, BeginListing(kind) PROVE ReplyMeansServed'
  BY <1>2 DEF BeginListing, mcpHistory
<1>3. CASE PrepareServer
  BY <1>3 DEF PrepareServer, mcpHistory, KeepProcess, Reset
<1>4. CASE StartServer
  BY <1>4 DEF StartServer, KeepProcess, Conclude, Ended
<1>5. CASE SkipStart
  BY <1>5 DEF SkipStart, mcpHistory
<1>6. CASE SendInitialize
  BY <1>6 DEF SendInitialize
<1>7. CASE SendRequest
  <2> DEFINE request == [id |-> requestId + 1,
                         call |-> IF operation = "call" THEN call ELSE 0]
  <2>1. /\ Outbox' = Outbox /\ requestId' = requestId + 1
        /\ Inbox' = IF Up THEN Append(Inbox, request) ELSE Inbox
    BY <1>7, <1>0 DEF SendRequest
  <2>2. Inbox = <<>> /\ \A i \in 1..Len(Outbox) : Outbox[i].stray
    BY <1>7 DEF SendRequest, NothingIsOwed, ControlOK, Waiting
  <2>3. \A i \in 1..Len(Outbox) : Outbox[i].id # requestId + 1
    BY PipesTyped DEF IdsAreGiven, ControlOK
  <2>4. request \in McpRequests
    BY DEF McpRequests, ControlOK, CallsAreCounted, McpCallIds
  <2>5. Up => Inbox' # <<>> /\ Inbox'[1] = request
    BY <2>1, <2>2, <2>4, <1>0, <1>e, AppendProperties
  <2>6. (Up' <=> Up) /\ UNCHANGED <<operation, call, served>>
    BY <1>7, <1>0 DEF SendRequest
  <2>7. QED
    BY <2>1, <2>2, <2>3, <2>5, <2>6
<1>8. CASE FailedStep
  BY <1>8 DEF FailedStep, RetriesOnce, RestartsOnce, Reset, Conclude, Ended, GoesOn
<1>9. CASE ReplyGoesOn
  BY <1>9 DEF ReplyGoesOn
<1>10. ASSUME NEW result \in {"result", "failed"}, ReplyEnds(result) PROVE ReplyMeansServed'
  BY <1>10 DEF ReplyEnds, Conclude, Ended
<1>11. CASE Notified
  BY <1>11 DEF Notified, GoesOn
<1>12. CASE InterruptCall
  BY <1>12 DEF InterruptCall, Abandon, Reset, Conclude, Ended
<1>13. CASE ShutDown
  BY <1>13 DEF ShutDown, Ended, Reset, KeepProcess
<1>14. CASE ServerReplies
  <2>1. Inbox # <<>> /\ UNCHANGED <<operation, at, call>>
    BY <1>14, <1>0 DEF ServerReplies, ServerUnchanged
  <2>2. Head(Inbox) = Inbox[1]
    BY <2>1, <1>0, FirstTaken
  <2>3. served' = IF Head(Inbox).call # 0 THEN served \cup {Head(Inbox).call} ELSE served
    BY <1>14 DEF ServerReplies, Inbox
  <2>4. operation = "call" /\ at = "answer" => call \in served'
    BY <2>1, <2>2, <2>3 DEF CallsAreCounted
  <2>5. operation = "call" /\ at = "answer" => Inbox' = <<>>
    BY <1>14, <2>1, <1>0, HeadTailProperties, EmptySeq DEF OneRequestIsOut, Waiting
  <2>6. QED
    BY <2>1, <2>4, <2>5
<1>15. CASE ServerRepeats
  <2>1. Up /\ Inbox' = <<>> /\ Inbox = <<>>
    BY <1>15, <1>0
  <2>2. UNCHANGED <<operation, at, call, served>>
    BY <1>15 DEF ServerRepeats, ServerUnchanged
  <2>3. QED
    BY <2>1, <2>2
<1>16. ASSUME NEW state \in {"closed", "exited"}, ServerStops(state) PROVE ReplyMeansServed'
  <2>1. Inbox' = Inbox /\ Outbox' = Outbox /\ Up
    BY <1>16, <1>0
  <2>2. UNCHANGED <<operation, at, call, served, requestId>>
    BY <1>16 DEF ServerStops, ServerUnchanged
  <2>3. QED
    BY <2>1, <2>2
<1>17. CASE UNCHANGED mcpVars
  BY <1>17 DEF mcpVars, mcpState, mcpHistory, Inbox, Outbox, Up
<1>18. QED
  BY <1>1, <1>2, <1>3, <1>4, <1>5, <1>6, <1>7, <1>8, <1>9, <1>10, <1>11, <1>12, <1>13,
    <1>14, <1>15, <1>16, <1>17 DEF McpStep

-----------------------------------------------------------------------------
(* Theorems *)

\* The invariant holds at first and every step keeps it.
LEMMA McpInvStarts == McpBoundsAssumption /\ McpInit => McpInv
<1> SUFFICES ASSUME McpBoundsAssumption, McpInit PROVE McpInv
  OBVIOUS
<1> USE DEF McpInit
<1>1. ProcessTypeOK /\ Inbox = <<>> /\ Outbox = <<>>
  BY EmptySeq DEF ProcessTypeOK, NoProcess, Inbox, Outbox
<1>2. \A S : Len(<<>>) = 0 /\ <<>> \in Seq(S)
  BY EmptySeq
<1>3. ControlOK /\ CallsAreCounted /\ StartsAreCounted
  <2>1. /\ retries = [operation |-> 0, ready |-> 0]
        /\ retries \in [operation : 0..1, ready : 0..1]
    OBVIOUS
  <2>2. exitedOnStart \in BOOLEAN /\ closed \in BOOLEAN
    OBVIOUS
  <2>3. ControlOK
    BY <2>1, <2>2 DEF ControlOK, McpBoundsAssumption
  <2>4. CallsAreCounted
    BY <1>2 DEF CallsAreCounted, McpBoundsAssumption
  <2>5. StartsAreCounted
    BY <2>1 DEF StartsAreCounted
  <2>6. QED
    BY <2>3, <2>4, <2>5
<1>4. CallsAreAsked /\ IdsAreGiven
  BY <1>1, <1>2 DEF CallsAreAsked, IdsAreGiven
<1>5. NothingIsOwed /\ OneRequestIsOut /\ ReplyMeansServed
  BY <1>1, <1>2 DEF NothingIsOwed, OneRequestIsOut, ReplyMeansServed, Waiting
<1>6. QED
  BY <1>1, <1>3, <1>4, <1>5 DEF McpInv

LEMMA McpInvKept == McpBoundsAssumption /\ McpInv /\ [McpNext]_mcpVars => McpInv'
<1> SUFFICES ASSUME McpBoundsAssumption, McpInv, [McpNext]_mcpVars PROVE McpInv'
  OBVIOUS
<1>1. McpStep
  BY StepsKnown DEF McpInv
<1>2. ControlOK' /\ StartsAreCounted' /\ CallsAreCounted'
  BY <1>1, ControlKept, StartsKept, CallsKept DEF McpInv
<1>3. ProcessTypeOK' /\ CallsAreAsked' /\ IdsAreGiven'
  BY <1>1, ProcessKept, AskedKept, IdsKept DEF McpInv
<1>4. NothingIsOwed' /\ OneRequestIsOut' /\ ReplyMeansServed'
  BY <1>1, NothingOwedKept, OneRequestKept, ReplyMeansServedKept DEF McpInv
<1>5. QED
  BY <1>2, <1>3, <1>4 DEF McpInv

\* The manager of one MCP server keeps its invariant, for any number of calls, listings,
\* pages and faults.
THEOREM McpInvariance == McpSpec => []McpInv
<1>1. McpInit => McpInv
  BY McpInvStarts, McpBoundsAssumption
<1>2. McpInv /\ [McpNext]_mcpVars => McpInv'
  BY McpInvKept, McpBoundsAssumption
<1>3. QED
  BY <1>1, <1>2, PTL DEF McpSpec

\* Every variable of the manager and of the process it drives has a value of its kind, and
\* no process is initialized that is not there.
THEOREM McpTypes == McpSpec => []McpTypeOK
<1>1. McpInv => McpTypeOK
  <2> SUFFICES ASSUME McpInv PROVE McpTypeOK
    OBVIOUS
  <2>1. /\ process.state \in {"none", "up", "closed", "exited"}
        /\ process.inbox \in Seq([id : Nat, call : McpCallIds \cup {0}])
        /\ process.outbox \in Seq([id : Nat, kind : Kinds, stray : BOOLEAN])
        /\ initialized \in BOOLEAN /\ (initialized => process # NoProcess)
    BY DEF McpInv, ProcessTypeOK, McpRequests, McpReplies
  <2>2. /\ outcomes \in Seq({"result", "failed", "interrupted"})
        /\ Len(outcomes) \in 0..call /\ starts \in Nat
    BY McpBoundsAssumption
       DEF McpInv, CallsAreCounted, StartsAreCounted, McpBoundsAssumption
  <2>3. QED
    BY <2>1, <2>2 DEF McpInv, McpTypeOK, ControlOK, CallsAreCounted, CallsAreAsked
<1>2. QED
  BY <1>1, McpInvariance, PTL

\* Between operations the server that is kept owes no reply and holds none but strays:
\* whatever ended the last operation of McpServerManager (a timeout, an interrupt, an error,
\* a retry), the next request cannot find the answer of an earlier one before its own.
THEOREM KeptServersAreInSync == McpSpec => []KeptServerIsInSync
<1>1. McpInv => KeptServerIsInSync
  <2> SUFFICES ASSUME McpInv, operation = "none", ~closed
               PROVE  /\ process.inbox = <<>>
                      /\ \A i \in DOMAIN process.outbox : process.outbox[i].stray
    BY DEF KeptServerIsInSync
  <2>1. Inbox = <<>> /\ \A i \in 1..Len(Outbox) : Outbox[i].stray
    BY DEF McpInv, ControlOK, NothingIsOwed, Waiting
  <2>2. DOMAIN Outbox = 1..Len(Outbox)
    BY DEF McpInv, ProcessTypeOK, Outbox
  <2>3. QED
    BY <2>1, <2>2 DEF Inbox, Outbox
<1>2. QED
  BY <1>1, McpInvariance, PTL

\* However its processes fail, a call starts two of them at most, a listing four.
THEOREM McpStartsAreBounded == McpSpec => []StartsAreBounded
<1>1. McpInv => StartsAreBounded
  BY DEF McpInv, ControlOK, StartsAreCounted, StartsAreBounded
<1>2. QED
  BY <1>1, McpInvariance, PTL

-----------------------------------------------------------------------------
(* The caller's view *)

CurrentCall == IF operation = "call" THEN call ELSE 0

\* A call that ends appends its outcome.
LEMMA CallFinishes ==
  ASSUME McpBoundsAssumption, McpInv, NEW result \in {"result", "failed", "interrupted"},
         operation = "call", Conclude(result), UNCHANGED <<asked, served>>,
         result = "result" => call \in served
  PROVE  Calls!Finish(result)
<1>1. /\ outcomes' = Append(outcomes, result) /\ operation' = "none"
      /\ outcomes \in Seq({"result", "failed", "interrupted"})
      /\ Len(outcomes) = call - 1 /\ call \in Nat /\ call > 0
  BY DEF Conclude, Ended, McpInv, CallsAreCounted, McpBoundsAssumption
<1>2. /\ DOMAIN outcomes = 1..(call - 1)
      /\ outcomes' \in Seq({"result", "failed", "interrupted"})
      /\ Len(outcomes') = call
      /\ \A i \in 1..(call - 1) : outcomes'[i] = outcomes[i]
      /\ outcomes'[call] = result
  BY <1>1, AppendProperties
<1>3. DOMAIN outcomes \cup {call} = 1..call
  BY <1>1, <1>2
<1>4. outcomes' = [c \in 1..call |-> outcomes'[c]]
  BY <1>2
<1>5. \A c \in 1..call : outcomes'[c] = IF c = call THEN result ELSE outcomes[c]
  BY <1>1, <1>2
<1>6. outcomes' = [c \in DOMAIN outcomes \cup {call} |->
                     IF c = call THEN result ELSE outcomes[c]]
  BY <1>3, <1>4, <1>5
<1>7. QED
  BY <1>1, <1>6 DEF Calls!Finish, Calls!Finished

\* Nothing the caller sees changes.
CallsStutter == UNCHANGED <<CurrentCall, asked, served, outcomes>>

\* Every step of the manager and of the server is one the caller expects, or none it sees.
LEMMA CallsRefined ==
  ASSUME McpBoundsAssumption, McpInv, McpStep
  PROVE  Calls!Next \/ CallsStutter
<1>1. CASE BeginCall
  <2>1. call + 1 \in McpCallIds /\ (call + 1) \notin DOMAIN outcomes
    BY <1>1 DEF BeginCall, McpInv, CallsAreCounted, McpCallIds, McpBoundsAssumption
  <2>2. Calls!Begin(call + 1)
    BY <1>1, <2>1 DEF BeginCall, Calls!Begin, Calls!Finished
  <2>3. QED
    BY <2>1, <2>2 DEF Calls!Next
<1>2. ASSUME NEW kind \in {"discover", "list"}, BeginListing(kind)
      PROVE  Calls!Next \/ CallsStutter
  BY <1>2 DEF BeginListing, mcpHistory, CallsStutter, CurrentCall
<1>3. CASE PrepareServer
  BY <1>3 DEF PrepareServer, mcpHistory, KeepProcess, Reset, CallsStutter, CurrentCall
<1>4. CASE StartServer
  <2>1. CASE KeepProcess /\ Conclude("failed")
    <3>1. CASE operation = "call"
      <4>1. Calls!Finish("failed")
        BY <1>4, <2>1, <3>1, CallFinishes DEF StartServer
      <4>2. QED
        BY <4>1 DEF Calls!Next, Calls!Outcomes
    <3>2. CASE operation # "call"
      BY <1>4, <2>1, <3>2 DEF StartServer, Conclude, Ended, CallsStutter, CurrentCall
    <3>3. QED
      BY <3>1, <3>2
  <2>2. CASE UNCHANGED <<operation, outcomes>>
    BY <1>4, <2>2 DEF StartServer, CallsStutter, CurrentCall
  <2>3. QED
    BY <1>4, <2>1, <2>2 DEF StartServer
<1>5. CASE SkipStart
  BY <1>5 DEF SkipStart, mcpHistory, CallsStutter, CurrentCall
<1>6. CASE SendInitialize
  BY <1>6 DEF SendInitialize, mcpHistory, Write, CallsStutter, CurrentCall
<1>7. CASE SendRequest
  <2>1. CASE operation = "call" /\ Up
    <3>1. call \notin {asked[i] : i \in 1..Len(asked)} /\ call # 0
      BY <1>7, <2>1 DEF SendRequest, McpInv, CallsAreAsked, CallsAreCounted
    <3>2. Calls!Send
      BY <1>7, <2>1, <3>1 DEF SendRequest, Calls!Send, Calls!SentCalls
    <3>3. QED
      BY <3>2 DEF Calls!Next
  <2>2. CASE ~(operation = "call" /\ Up)
    BY <1>7, <2>2 DEF SendRequest, CallsStutter, CurrentCall
  <2>3. QED
    BY <2>1, <2>2
<1>8. CASE FailedStep
  <2>1. CASE Reset /\ Conclude("failed")
    <3>1. CASE operation = "call"
      <4>1. Calls!Finish("failed")
        BY <1>8, <2>1, <3>1, CallFinishes DEF FailedStep
      <4>2. QED
        BY <4>1 DEF Calls!Next, Calls!Outcomes
    <3>2. CASE operation # "call"
      BY <1>8, <2>1, <3>2 DEF FailedStep, Conclude, Ended, CallsStutter, CurrentCall
    <3>3. QED
      BY <3>1, <3>2
  <2>2. CASE UNCHANGED <<operation, outcomes>>
    BY <1>8, <2>2 DEF FailedStep, CallsStutter, CurrentCall
  <2>3. QED
    BY <1>8, <2>1, <2>2 DEF FailedStep, RetriesOnce, RestartsOnce, GoesOn
<1>9. CASE ReplyGoesOn
  BY <1>9 DEF ReplyGoesOn, ReadsReply, Read, CallsStutter, CurrentCall
<1>10. ASSUME NEW result \in {"result", "failed"}, ReplyEnds(result)
      PROVE  Calls!Next \/ CallsStutter
  <2>1. CASE operation = "call"
    <3>1. result = "result" => call \in served
      <4>1. Outbox # <<>> /\ Head(Outbox).id = requestId
        BY <1>10 DEF ReplyEnds, ReadsReply, OwnReply
      <4>2. Outbox[1].id = requestId /\ 1 \in 1..Len(Outbox)
        BY <4>1, FirstTaken DEF McpInv, ProcessTypeOK, Outbox
      <4>3. QED
        BY <1>10, <2>1, <4>2 DEF ReplyEnds, McpInv, ReplyMeansServed
    <3>2. Calls!Finish(result)
      BY <1>10, <2>1, <3>1, CallFinishes DEF ReplyEnds, ReadsReply
    <3>3. QED
      BY <3>2 DEF Calls!Next, Calls!Outcomes
  <2>2. CASE operation # "call"
    BY <1>10, <2>2 DEF ReplyEnds, ReadsReply, Conclude, Ended, CallsStutter, CurrentCall
  <2>3. QED
    BY <2>1, <2>2
<1>11. CASE Notified
  BY <1>11 DEF Notified, GoesOn, CallsStutter, CurrentCall
<1>12. CASE InterruptCall
  <2>1. Calls!Finish("interrupted")
    BY <1>12, CallFinishes DEF InterruptCall
  <2>2. QED
    BY <2>1 DEF Calls!Next, Calls!Outcomes
<1>13. CASE ShutDown
  BY <1>13 DEF ShutDown, Ended, CallsStutter, CurrentCall
<1>14. CASE ServerReplies
  <2>1. Inbox # <<>> /\ UNCHANGED <<operation, call, asked, outcomes>>
    BY <1>14 DEF ServerReplies, ServerUnchanged, Inbox
  <2>2. Head(Inbox) = Inbox[1] /\ 1 \in 1..Len(Inbox) /\ Head(Inbox) \in McpRequests
    BY <2>1, FirstTaken DEF McpInv, ProcessTypeOK, Inbox
  <2>3. served' = IF Head(Inbox).call # 0 THEN served \cup {Head(Inbox).call} ELSE served
    BY <1>14 DEF ServerReplies, Inbox
  <2>4. CASE Head(Inbox).call # 0
    <3>1. Head(Inbox).call \in McpCallIds
      BY <2>2, <2>4 DEF McpRequests
    <3>2. Head(Inbox).call \in {asked[i] : i \in 1..Len(asked)}
      BY <2>2, <2>4 DEF McpInv, CallsAreAsked
    <3>3. Calls!Reply(Head(Inbox).call)
      BY <2>1, <2>3, <2>4, <3>2 DEF Calls!Reply, Calls!SentCalls
    <3>4. QED
      BY <3>1, <3>3 DEF Calls!Next
  <2>5. CASE Head(Inbox).call = 0
    BY <2>1, <2>3, <2>5 DEF CallsStutter, CurrentCall
  <2>6. QED
    BY <2>4, <2>5
<1>15. CASE ServerRepeats
  BY <1>15 DEF ServerRepeats, ServerUnchanged, CallsStutter, CurrentCall
<1>16. ASSUME NEW state \in {"closed", "exited"}, ServerStops(state)
      PROVE  Calls!Next \/ CallsStutter
  BY <1>16 DEF ServerStops, ServerUnchanged, CallsStutter, CurrentCall
<1>17. CASE UNCHANGED mcpVars
  BY <1>17 DEF mcpVars, mcpState, mcpHistory, CallsStutter, CurrentCall
<1>18. QED
  BY <1>1, <1>2, <1>3, <1>4, <1>5, <1>6, <1>7, <1>8, <1>9, <1>10, <1>11, <1>12, <1>13,
    <1>14, <1>15, <1>16, <1>17 DEF McpStep


\* McpServerManager keeps what McpCalls promises its callers: a call is written to a server
\* at most once, and a result handed over is one the server gave to that very call, whatever
\* it repeats, closes, delays or drops.
THEOREM McpKeepsItsCalls == McpSpec => CallsSpec
<1>1. McpInit => Calls!Init
  BY DEF McpInit, Calls!Init
<1>2. McpInv /\ [McpNext]_mcpVars => [Calls!Next]_Calls!vars
  <2> SUFFICES ASSUME McpInv, [McpNext]_mcpVars PROVE [Calls!Next]_Calls!vars
    OBVIOUS
  <2>1. McpStep
    BY StepsKnown, McpBoundsAssumption DEF McpInv
  <2>2. Calls!Next \/ CallsStutter
    BY <2>1, CallsRefined, McpBoundsAssumption
  <2>3. QED
    BY <2>2 DEF CallsStutter, CurrentCall, Calls!vars
<1>3. QED
  BY <1>1, <1>2, McpInvariance, PTL DEF McpSpec, CallsSpec, Calls!Spec

-----------------------------------------------------------------------------
(* PermissionPrompts *)

AskingPC == {"check", "receive", "allowed"}
Replies == [request : Requests, id : Requests, allow : BOOLEAN]

\* What TypeOK rests on: no number runs ahead of the requests asked.
Counted ==
  /\ Len(requests) <= MaxRequests
  /\ nextId <= Len(requests) /\ lastId <= Len(requests)
  /\ pc \in AskingPC => Len(requests) > 0
  /\ pc = "allowed" => approval # NoRequest

\* Without a panic a request's id is its place, so a reply's id names its request.
Numbered ==
  /\ \A i \in 1..Len(requests) : requests[i] = i
  /\ pc \in {"between", "drain"} => lastId = Len(requests)
  /\ pc \in {"running"} \cup AskingPC => nextId = Len(requests)
  /\ \A k \in 1..Len(replies) : replies[k].id = replies[k].request
  /\ pc = "allowed" => approval = Len(requests)
  /\ RunsOnItsOwnApproval

TypeInv == TypeOK /\ Counted
IInv == TypeInv /\ (panics = 0 => Numbered)

-----------------------------------------------------------------------------
(* The invariant *)

\* The first state has the invariant.
LEMMA InitIInv == Init => IInv
<1> SUFFICES ASSUME Init PROVE IInv
  OBVIOUS
<1>1. <<>> \in Seq(Requests) /\ <<>> \in Seq(Replies) /\ Len(<<>>) = 0
  BY EmptySeq
<1>2. cancelled \in BOOLEAN
  BY DEF Init
<1>3. TypeOK
  BY <1>1, <1>2, BoundsAssumption DEF Init, TypeOK, Replies, NoRequest, PC
<1>4. Counted /\ Numbered
  BY <1>1, BoundsAssumption DEF Init, Counted, Numbered, RunsOnItsOwnApproval, AskingPC
<1>5. QED
  BY <1>3, <1>4 DEF IInv, TypeInv

\* Every step keeps the types and the counts, panics included.
LEMMA NextTypeInv == TypeInv /\ [Next]_vars => TypeInv'
<1> SUFFICES ASSUME TypeInv, [Next]_vars PROVE TypeInv'
  OBVIOUS
<1> Len(requests) \in Nat
  BY LenProperties DEF TypeInv, TypeOK
<1> USE BoundsAssumption DEF TypeInv, TypeOK, Counted, Replies, Requests, NoRequest, PC,
    AskingPC
<1>1. CASE StartTurn
  <2>1. cancelled' \in BOOLEAN
    BY <1>1 DEF StartTurn
  <2>2. QED
    BY <1>1, <2>1 DEF StartTurn, uiVars
<1>2. CASE Drain
  <2>1. replies' \in Seq(Replies)
    BY <1>2, FirstTaken DEF Drain
  <2>2. QED
    BY <1>2, <2>1 DEF Drain, uiVars
<1>3. CASE Drained
  BY <1>3 DEF Drained, FirstNumber, uiVars
<1>4. CASE Decide
  <2>1. nextId + 1 \in Requests
    BY <1>4 DEF Decide
  <2>2. requests' \in Seq(Requests) /\ Len(requests') = Len(requests) + 1
    BY <1>4, <2>1, LastAdded DEF Decide
  <2>3. QED
    BY <1>4, <2>1, <2>2 DEF Decide
<1>5. CASE CheckCancelled
  BY <1>5 DEF CheckCancelled, SeesInterrupt, uiVars
<1>6. CASE Receive
  <2>1. replies' \in Seq(Replies) /\ Head(replies) \in Replies
    BY <1>6, FirstTaken DEF Receive
  <2>2. Head(replies).request \in Requests
    BY <2>1
  <2>3. requests' = requests /\ answered' = answered
    BY <1>6 DEF Receive, uiVars
  <2>4. \/ pc' = "allowed" /\ approval' = Head(replies).request
        \/ pc' \in {"running", "check"} /\ approval' = approval
    BY <1>6 DEF Receive
  <2>5. UNCHANGED <<turns, cancelled, nextId, lastId, ran, panics>> /\ pc = "receive"
    BY <1>6 DEF Receive
  <2>6. TypeOK'
    BY <2>1, <2>2, <2>3, <2>4, <2>5
  <2>7. Counted'
    BY <2>2, <2>3, <2>4, <2>5
  <2>8. QED
    BY <2>6, <2>7
<1>7. CASE TimesOut
  BY <1>7 DEF TimesOut, uiVars
<1>8. CASE RunCall
  BY <1>8 DEF RunCall, Current, uiVars
<1>9. CASE EndTurn
  BY <1>9 DEF EndTurn, uiVars
<1>10. CASE PanicTurn
  BY <1>10 DEF PanicTurn, uiVars
<1>11. CASE Interrupt
  BY <1>11 DEF Interrupt, uiVars
<1>12. ASSUME NEW request \in Requests, NEW allow \in BOOLEAN, ReplyTo(request, allow)
      PROVE TypeInv'
  <2>1. request \in 1..Len(requests) /\ Reply(request, allow) \in Replies
    BY <1>12, ElementOfSeq DEF ReplyTo, Reply, Asked
  <2>2. replies' \in Seq(Replies)
    BY <1>12, <2>1, LastAdded DEF ReplyTo
  <2>3. QED
    BY <1>12, <2>2 DEF ReplyTo
<1>13. CASE UNCHANGED vars
  BY <1>13 DEF vars, uiVars
<1> HIDE DEF TypeInv
<1>14. QED
  BY <1>1, <1>2, <1>3, <1>4, <1>5, <1>6, <1>7, <1>8,
     <1>9, <1>10, <1>11, <1>12, <1>13 DEF Next, EngineThread, Finished

\* Every step of a run without a panic keeps the numbering.
LEMMA NextNumbered ==
  TypeInv /\ Numbered /\ panics = 0 /\ [Next]_vars => (panics' = 0 => Numbered')
<1> SUFFICES ASSUME TypeInv, Numbered, panics = 0, [Next]_vars, panics' = 0
             PROVE Numbered'
  OBVIOUS
<1> Len(requests) \in Nat
  BY LenProperties DEF TypeInv, TypeOK
<1> USE BoundsAssumption DEF TypeInv, TypeOK, Counted, Numbered, RunsOnItsOwnApproval,
    Replies, Requests, NoRequest, PC, AskingPC
<1>1. CASE StartTurn
  BY <1>1 DEF StartTurn, uiVars
<1>2. CASE Drain
  <2>1. \A k \in 1..Len(replies') : replies'[k].id = replies'[k].request
    BY <1>2, FirstTaken DEF Drain
  <2>2. QED
    BY <1>2, <2>1 DEF Drain, uiVars
<1>3. CASE Drained
  BY <1>3 DEF Drained, FirstNumber, uiVars
<1>4. CASE Decide
  <2>1. nextId + 1 \in Requests /\ nextId = Len(requests)
    BY <1>4 DEF Decide
  <2>2. \A i \in 1..Len(requests') : requests'[i] = i
    BY <1>4, <2>1, LastAdded DEF Decide
  <2>3. Len(requests') = nextId'
    BY <1>4, <2>1, LastAdded DEF Decide
  <2>4. QED
    BY <1>4, <2>2, <2>3 DEF Decide
<1>5. CASE CheckCancelled
  BY <1>5 DEF CheckCancelled, SeesInterrupt, uiVars
<1>6. CASE Receive
  <2>1. /\ \A k \in 1..Len(replies') : replies'[k].id = replies'[k].request
        /\ Head(replies).id = Head(replies).request
    BY <1>6, FirstTaken DEF Receive
  <2>2. requests' = requests /\ ran' = ran /\ nextId' = nextId /\ nextId = Len(requests)
    BY <1>6 DEF Receive, uiVars
  <2>3. \/ /\ pc' = "allowed" /\ approval' = Head(replies).request
           /\ Head(replies).id = nextId
        \/ pc' \in {"running", "check"}
    BY <1>6 DEF Receive, Matches
  <2>4. QED
    BY <2>1, <2>2, <2>3
<1>7. CASE TimesOut
  BY <1>7 DEF TimesOut, uiVars
<1>8. CASE RunCall
  BY <1>8 DEF RunCall, Current, uiVars
<1>9. CASE EndTurn
  BY <1>9 DEF EndTurn, uiVars
<1>10. CASE PanicTurn
  BY <1>10 DEF PanicTurn, uiVars
<1>11. CASE Interrupt
  BY <1>11 DEF Interrupt, uiVars
<1>12. ASSUME NEW request \in Requests, NEW allow \in BOOLEAN, ReplyTo(request, allow)
      PROVE Numbered'
  <2>1. /\ Reply(request, allow) \in Replies
        /\ Reply(request, allow).id = Reply(request, allow).request
    BY <1>12, ElementOfSeq DEF ReplyTo, Reply, Asked
  <2>2. \A k \in 1..Len(replies') : replies'[k].id = replies'[k].request
    BY <1>12, <2>1, LastAdded DEF ReplyTo
  <2>3. UNCHANGED <<pc, nextId, lastId, requests, approval, ran>>
    BY <1>12 DEF ReplyTo
  <2>4. QED
    BY <2>2, <2>3
<1>13. CASE UNCHANGED vars
  BY <1>13 DEF vars, uiVars
<1> HIDE DEF Numbered
<1>14. QED
  BY <1>1, <1>2, <1>3, <1>4, <1>5, <1>6, <1>7, <1>8,
     <1>9, <1>10, <1>11, <1>12, <1>13 DEF Next, EngineThread, Finished

\* The number of panics never falls.
LEMMA PanicsStay == TypeInv /\ [Next]_vars /\ panics' = 0 => panics = 0
  BY DEF TypeInv, TypeOK, Next, EngineThread, StartTurn, Drain, Drained, Decide,
     CheckCancelled, Receive, TimesOut, RunCall, EndTurn, PanicTurn, Interrupt, ReplyTo,
     Finished, vars

-----------------------------------------------------------------------------
(* The theorems *)

\* The invariant is inductive.
THEOREM Invariance == Spec => []IInv
<1>1. IInv /\ [Next]_vars => IInv'
  BY NextTypeInv, NextNumbered, PanicsStay DEF IInv
<1>2. QED
  BY InitIInv, <1>1, PTL DEF Spec

\* The prompter's and the engine's variables keep their types.
THEOREM TypesHold == Spec => []TypeOK
<1>1. IInv => TypeOK
  BY DEF IInv, TypeInv
<1>2. QED
  BY Invariance, <1>1, PTL

\* ChannelPermissionPrompter with numbered_after: however many turns, requests and late
\* answers, a tool call runs only on the answer to its own request until a turn panics.
THEOREM OwnApprovals == Spec => []OwnApprovalUntilAPanic
<1>1. IInv => OwnApprovalUntilAPanic
  BY DEF IInv, Numbered, OwnApprovalUntilAPanic
<1>2. QED
  BY Invariance, <1>1, PTL

-----------------------------------------------------------------------------
(* ModelCall *)

Places == {"idle", "connect", "send", "wait", "pause", "read"}
Whiches == {"stream", "whole"}

\* What the call is at, and what it counts.
CallControlOK ==
  /\ place \in Places /\ asking \in Whiches
  /\ delay \in Nat /\ attempt \in 1..MaxStreamAttempts
  /\ progress \in [Whiches -> [attempts : Nat, slept : Nat]]
  /\ deferred \in {"none", "sent", "dropped"}
  /\ outcome \in {"none", "replied", "partial", "cancelled", "failed"}
  /\ callsMade \in 0..ModelCalls /\ stream \in Nat
  /\ received \subseteq {"text", "open", "call", "stop"}
  /\ shown \subseteq 1..stream
  /\ place \in {"send", "wait", "read"} => stream > 0

CallFlagsOK ==
  /\ oversized \in BOOLEAN /\ textShown \in BOOLEAN
  /\ unmarked \in BOOLEAN /\ capacity \in BOOLEAN

\* Only the retry of a stream waits in the pause, and it is the first attempt's.
PauseIsTheFirst == place = "pause" => attempt = 1

\* Before a request is answered nothing of its reply was read.
NothingReadYet == place \in {"send", "wait"} => "text" \notin received

\* The requests so far, and how many may still follow from where the call is.
Dropped == IF deferred = "dropped" THEN 1 ELSE 0
RequestsAreCounted ==
  /\ progress["stream"].attempts <= MaxRetries + 1 + Dropped
  /\ place \in {"connect", "pause"} => progress["stream"].attempts <= MaxRetries + Dropped
  /\ progress["whole"].attempts <= MaxRetries + 1
  /\ place = "wait" => progress[asking].attempts <= MaxRetries

\* The wait under way is in the budget already.
WaitsAreBudgeted ==
  /\ \A which \in Whiches : progress[which].slept <= Budget(capacity)
  /\ place = "wait" => progress[asking].slept + delay <= Budget(capacity)

\* Unless a too large request left text behind: what is shown is the text of the stream being
\* read, and textShown tells of it.
ShownIsTheStreams ==
  place # "idle" /\ ~unmarked =>
    /\ shown = (IF place = "read" /\ "text" \in received THEN {stream} ELSE {})
    /\ textShown <=> shown # {}

CallInv ==
  /\ CallControlOK /\ CallFlagsOK /\ PauseIsTheFirst /\ NothingReadYet
  /\ RequestsAreCounted /\ WaitsAreBudgeted /\ ShownIsTheStreams /\ OneReplyShown

-----------------------------------------------------------------------------
(* The steps of a call by what they do. *)

FailStep ==
  /\ place \in {"connect", "send", "read"}
  /\ \E failure \in {"too_large", "fatal", "broken"} : StreamFails(failure)

FailUnchanged ==
  /\ place \in {"connect", "send", "read"}
  /\ UNCHANGED <<asking, progress, delay, received, callsMade, stream, capacity>>

\* Without the deferred tools, another time, or not at all.
DropStep ==
  /\ FailUnchanged
  /\ deferred = "sent" /\ deferred' = "dropped" /\ place' = "connect"
  /\ unmarked' = (unmarked \/ shown # {})
  /\ UNCHANGED <<attempt, oversized, textShown, outcome, shown>>

AgainStep ==
  /\ FailUnchanged
  /\ attempt < MaxStreamAttempts /\ progress["stream"].attempts <= MaxRetries
  /\ place' = "pause" /\ textShown' = FALSE /\ shown' = Discarded
  /\ UNCHANGED <<attempt, deferred, oversized, outcome, unmarked>>

GiveUpStep ==
  /\ FailUnchanged
  /\ UNCHANGED deferred /\ Return("failed")
  /\ UNCHANGED <<attempt, textShown, shown, unmarked>>

\* A refusal that may pass is waited for.
WaitStep(refusal) ==
  /\ place = "send" /\ progress[asking].attempts <= MaxRetries
  /\ delay' \in Planned(refusal[1], refusal[2], refusal[3], progress[asking].slept)
  /\ place' = "wait" /\ capacity' = (capacity \/ refusal[1])
  /\ UNCHANGED <<asking, progress, attempt, deferred, oversized, textShown, received,
                 outcome, callsMade, stream, shown, unmarked>>

ReplyStep ==
  /\ place = "read" /\ UNCHANGED deferred /\ Return("replied")
  /\ UNCHANGED <<asking, progress, delay, attempt, textShown, received, callsMade,
                 stream, shown, unmarked, capacity>>

\* The stream brought nothing; the reply is asked for in one piece.
FallbackStep ==
  /\ place = "read" /\ "text" \notin received
  /\ place' = "send" /\ asking' = "whole"
  /\ progress' = [progress EXCEPT !.whole = [FreshProgress EXCEPT !.attempts = 1]]
  /\ UNCHANGED <<delay, attempt, deferred, oversized, textShown, received, outcome,
                 callsMade, stream, shown, unmarked, capacity>>

Events == {"text", "open", "call", "stop"}

CallMoves ==
  \/ BeginModelCall \/ PauseEnds \/ Connect \/ DropStep \/ AgainStep \/ GiveUpStep
  \/ (\E refusal \in Refusals : WaitStep(refusal)) \/ WaitEnds
  \/ StreamOpens \/ (\E event \in Events : StreamBrings(event))
  \/ ReplyStep \/ FallbackStep \/ WholeReply \/ InterruptModelCall
  \/ UNCHANGED callVars

\* A failure is one of the three.
LEMMA FailureMoves == FailStep => DropStep \/ AgainStep \/ GiveUpStep
<1> SUFFICES ASSUME FailStep PROVE DropStep \/ AgainStep \/ GiveUpStep
  OBVIOUS
<1>1. PICK failure \in {"too_large", "fatal", "broken"} : StreamFails(failure)
  BY DEF FailStep
<1>2. FailUnchanged
  BY <1>1 DEF FailStep, FailUnchanged, StreamFails
<1>3. CASE failure = "too_large" /\ deferred = "sent"
  BY <1>1, <1>2, <1>3 DEF StreamFails, DropStep
<1>4. CASE failure = "broken" /\ attempt < MaxStreamAttempts /\ CanResend
  BY <1>1, <1>2, <1>4 DEF StreamFails, AgainStep, CanResend
<1>5. CASE /\ ~(failure = "too_large" /\ deferred = "sent")
           /\ ~(failure = "broken" /\ attempt < MaxStreamAttempts /\ CanResend)
  BY <1>1, <1>2, <1>5 DEF StreamFails, GiveUpStep
<1>6. QED
  BY <1>3, <1>4, <1>5

\* There are no other steps.
LEMMA CallMovesKnown ==
  ASSUME [CallNext]_callVars, CallControlOK
  PROVE  CallMoves
<1>0. FailStep => CallMoves
  BY FailureMoves DEF CallMoves
<1>1. ASSUME NEW failure \in {"too_large", "fatal", "broken"}, RequestFailsFor(failure),
             place = "send"
      PROVE  FailStep
  <2>1. CASE asking = "stream"
    BY <1>1, <2>1 DEF RequestFailsFor, FailStep
  <2>2. CASE asking # "stream"
    BY <1>1, <2>2 DEF RequestFailsFor, FailStep
  <2>3. QED
    BY <2>1, <2>2
<1>2. ASSUME NEW refusal \in Refusals, Refused(refusal[1], refusal[2], refusal[3])
      PROVE  CallMoves
  <2> DEFINE planned == Planned(refusal[1], refusal[2], refusal[3], progress[asking].slept)
             waits == IF progress[asking].attempts > MaxRetries THEN {} ELSE planned
  <2>1. place = "send"
    BY <1>2 DEF Refused
  <2>2. CASE /\ waits # {}
             /\ delay' \in waits /\ place' = "wait" /\ capacity' = (capacity \/ refusal[1])
             /\ UNCHANGED <<asking, progress, attempt, deferred, oversized, textShown,
                            received, outcome, callsMade, stream, shown, unmarked>>
    <3>1. ~(progress[asking].attempts > MaxRetries) /\ delay' \in planned
      BY <2>2
    <3>2. progress[asking].attempts <= MaxRetries
      BY <3>1, ModelCallAssumption DEF CallControlOK, Whiches
    <3>3. QED
      BY <2>1, <2>2, <3>1, <3>2 DEF WaitStep, CallMoves
  <2>3. CASE RequestFailsFor("fatal")
    BY <1>0, <1>1, <2>1, <2>3
  <2>4. QED
    BY <1>2, <2>2, <2>3 DEF Refused
<1>3. ASSUME NEW cut \in BOOLEAN, StreamEnds(cut)
      PROVE  CallMoves
  <2>1. CASE CutAmongCalls(cut) /\ StreamFails("broken")
    BY <1>0, <1>3, <2>1 DEF StreamEnds, FailStep
  <2>2. CASE ~CutAmongCalls(cut) /\ ~Complete(cut)
    <3>1. "text" \notin received
      BY <2>2 DEF Complete, CutAmongCalls
    <3>2. QED
      BY <1>3, <2>2, <3>1 DEF StreamEnds, FallbackStep, CallMoves
  <2>3. CASE ~CutAmongCalls(cut) /\ Complete(cut)
    BY <1>3, <2>3 DEF StreamEnds, ReplyStep, CallMoves
  <2>4. QED
    BY <1>3, <2>1, <2>2, <2>3 DEF StreamEnds
<1>4. CASE RequestRefused
  BY <1>0, <1>1, <1>4 DEF RequestRefused, FailStep
<1>5. CASE PreflightRefuses \/ StreamBreaks
  BY <1>0, <1>5 DEF PreflightRefuses, StreamBreaks, FailStep
<1>6. QED
  BY <1>2, <1>3, <1>4, <1>5 DEF CallNext, CallStep, CallMoves, CallsMade, Events

\* What the requests and waits of each kind become.
LEMMA ProgressMoves ==
  ASSUME CallControlOK
  PROVE  /\ BeginModelCall \/ Connect \/ WaitEnds \/ FallbackStep =>
              progress' \in [Whiches -> [attempts : Nat, slept : Nat]]
         /\ BeginModelCall => \A which \in Whiches :
              progress'[which].attempts = 0 /\ progress'[which].slept = 0
         /\ Connect =>
              /\ progress'["stream"].attempts = progress["stream"].attempts + 1
              /\ progress'["stream"].slept = progress["stream"].slept
              /\ progress'["whole"] = progress["whole"]
         /\ WaitEnds =>
              /\ progress'[asking].attempts = progress[asking].attempts + 1
              /\ progress'[asking].slept = progress[asking].slept + delay
              /\ \A which \in Whiches \ {asking} : progress'[which] = progress[which]
         /\ FallbackStep =>
              /\ progress'["whole"].attempts = 1 /\ progress'["whole"].slept = 0
              /\ progress'["stream"] = progress["stream"]
<1> USE DEF CallControlOK, Whiches
<1>1. ASSUME BeginModelCall
      PROVE  /\ progress' \in [Whiches -> [attempts : Nat, slept : Nat]]
             /\ \A which \in Whiches :
                  progress'[which].attempts = 0 /\ progress'[which].slept = 0
  <2>1. progress' = [stream |-> [attempts |-> 0, slept |-> 0],
                     whole |-> [attempts |-> 0, slept |-> 0]]
    BY <1>1 DEF BeginModelCall, FreshProgress
  <2>2. progress' = [which \in Whiches |-> [attempts |-> 0, slept |-> 0]]
    BY <2>1
  <2>3. QED
    BY <2>2
<1>2. ASSUME Connect
      PROVE  /\ progress' \in [Whiches -> [attempts : Nat, slept : Nat]]
             /\ progress'["stream"].attempts = progress["stream"].attempts + 1
             /\ progress'["stream"].slept = progress["stream"].slept
             /\ progress'["whole"] = progress["whole"]
  <2>1. progress' = [progress EXCEPT !["stream"] =
                       [progress["stream"] EXCEPT !.attempts = @ + 1]]
    BY <1>2 DEF Connect, Sent
  <2>2. [progress["stream"] EXCEPT !.attempts = @ + 1] =
          [attempts |-> progress["stream"].attempts + 1, slept |-> progress["stream"].slept]
    OBVIOUS
  <2>3. QED
    BY <2>1, <2>2
<1>3. ASSUME WaitEnds
      PROVE  /\ progress' \in [Whiches -> [attempts : Nat, slept : Nat]]
             /\ progress'[asking].attempts = progress[asking].attempts + 1
             /\ progress'[asking].slept = progress[asking].slept + delay
             /\ \A which \in Whiches \ {asking} : progress'[which] = progress[which]
  <2>1. progress' = [progress EXCEPT ![asking].slept = @ + delay, ![asking].attempts = @ + 1]
    BY <1>3 DEF WaitEnds
  <2>2. /\ progress' \in [Whiches -> [attempts : Nat, slept : Nat]]
        /\ \A which \in Whiches \ {asking} : progress'[which] = progress[which]
    BY <2>1
  <2>3. /\ progress'[asking].attempts = progress[asking].attempts + 1
        /\ progress'[asking].slept = progress[asking].slept + delay
    BY <2>1
  <2>4. QED
    BY <2>2, <2>3
<1>4. ASSUME FallbackStep
      PROVE  /\ progress' \in [Whiches -> [attempts : Nat, slept : Nat]]
             /\ progress'["whole"].attempts = 1 /\ progress'["whole"].slept = 0
             /\ progress'["stream"] = progress["stream"]
  <2>1. progress' = [progress EXCEPT !["whole"] = [attempts |-> 1, slept |-> 0]]
    <3>1. [FreshProgress EXCEPT !.attempts = 1] = [attempts |-> 1, slept |-> 0]
      BY DEF FreshProgress
    <3>2. QED
      BY <1>4, <3>1 DEF FallbackStep
  <2>2. QED
    BY <2>1
<1>5. QED
  BY <1>1, <1>2, <1>3, <1>4

\* A planned wait is a number, and what was slept and the wait fit the budget.
LEMMA PlannedFits ==
  ASSUME ModelCallAssumption, NEW refusal \in Refusals, NEW slept \in Nat,
         NEW wait \in Planned(refusal[1], refusal[2], refusal[3], slept)
  PROVE  /\ wait \in Nat
         /\ wait = 0 \/ slept + wait <= Budget(refusal[1])
<1>1. /\ refusal[1] \in BOOLEAN /\ refusal[3] \in Nat
      /\ refusal[2] = -1 \/ refusal[2] \in Nat
  BY ModelCallAssumption DEF Refusals, NoRetryAfter, ModelCallAssumption
<1>2. Budget(refusal[1]) \in Nat
  BY ModelCallAssumption DEF ModelCallAssumption, Budget
<1> DEFINE left == Remaining(refusal[1], slept)
<1>3. left \in Nat /\ (left = 0 \/ slept + left <= Budget(refusal[1]))
  BY <1>2 DEF Remaining
<1>4. wait \in Nat /\ wait <= left
  <2>1. CASE refusal[2] # NoRetryAfter
    BY <1>1, <2>1 DEF Planned, NoRetryAfter
  <2>2. CASE refusal[2] = NoRetryAfter
    <3>1. wait = IF refusal[3] < left THEN refusal[3] ELSE left
      BY <2>2 DEF Planned
    <3>2. QED
      BY <1>1, <1>3, <3>1
  <2>3. QED
    BY <2>1, <2>2
<1> HIDE DEF left
<1>5. QED
  BY <1>2, <1>3, <1>4

\* What a call is at and counts stays of its kind.
LEMMA CallControlKept ==
  ASSUME CallControlOK, PauseIsTheFirst, CallMoves, ModelCallAssumption
  PROVE  CallControlOK'
<1>p. BeginModelCall \/ Connect \/ WaitEnds \/ FallbackStep =>
        progress' \in [Whiches -> [attempts : Nat, slept : Nat]]
  BY ProgressMoves
<1> USE DEF CallControlOK, PauseIsTheFirst, MaxStreamAttempts, Places
<1>1. CASE BeginModelCall
  BY <1>1, <1>p DEF BeginModelCall, ModelCallAssumption
<1>2. CASE PauseEnds
  BY <1>2 DEF PauseEnds
<1>3. CASE Connect
  BY <1>3, <1>p DEF Connect, Sent
<1>4. CASE DropStep
  BY <1>4 DEF DropStep, FailUnchanged
<1>5. CASE AgainStep
  BY <1>5 DEF AgainStep, FailUnchanged, Discarded
<1>6. CASE GiveUpStep
  BY <1>6 DEF GiveUpStep, FailUnchanged, Return
<1>7. ASSUME NEW refusal \in Refusals, WaitStep(refusal)
      PROVE  CallControlOK'
  <2>1. delay' \in Nat
    BY <1>7, PlannedFits DEF WaitStep
  <2>2. QED
    BY <1>7, <2>1 DEF WaitStep
<1>8. CASE WaitEnds
  BY <1>8, <1>p DEF WaitEnds
<1>9. CASE StreamOpens
  BY <1>9 DEF StreamOpens
<1>10. ASSUME NEW event \in Events, StreamBrings(event)
      PROVE  CallControlOK'
  <2>1. stream' = stream /\ shown' \subseteq shown \cup {stream} /\ stream > 0
    BY <1>10 DEF StreamBrings
  <2>2. shown' \subseteq 1..stream'
    BY <2>1
  <2>3. received' \subseteq {"text", "open", "call", "stop"}
    BY <1>10 DEF StreamBrings, Events
  <2>4. QED
    BY <1>10, <2>1, <2>2, <2>3 DEF StreamBrings
<1>11. CASE ReplyStep
  BY <1>11 DEF ReplyStep, Return
<1>12. CASE FallbackStep
  <2>1. progress' \in [Whiches -> [attempts : Nat, slept : Nat]]
    BY <1>12, <1>p
  <2>2. QED
    BY <1>12, <2>1 DEF FallbackStep, Whiches
<1>13. CASE WholeReply
  BY <1>13 DEF WholeReply, Return
<1>14. CASE InterruptModelCall
  BY <1>14 DEF InterruptModelCall, Return
<1>15. CASE UNCHANGED callVars
  BY <1>15 DEF callVars
<1>16. QED
  BY <1>1, <1>2, <1>3, <1>4, <1>5, <1>6, <1>7, <1>8, <1>9, <1>10, <1>11, <1>12, <1>13,
    <1>14, <1>15 DEF CallMoves

\* Flags stay flags.
LEMMA CallFlagsKept ==
  ASSUME CallFlagsOK, CallMoves, ModelCallAssumption
  PROVE  CallFlagsOK'
<1> USE DEF CallFlagsOK
<1>1. CASE BeginModelCall
  BY <1>1 DEF BeginModelCall
<1>2. CASE PauseEnds
  BY <1>2 DEF PauseEnds
<1>3. CASE Connect
  BY <1>3 DEF Connect, Sent
<1>4. CASE DropStep
  BY <1>4 DEF DropStep, FailUnchanged
<1>5. CASE AgainStep
  BY <1>5 DEF AgainStep, FailUnchanged, Discarded
<1>6. CASE GiveUpStep
  BY <1>6 DEF GiveUpStep, FailUnchanged, Return
<1>7. ASSUME NEW refusal \in Refusals, WaitStep(refusal)
      PROVE  CallFlagsOK'
  BY <1>7 DEF WaitStep
<1>8. CASE WaitEnds
  BY <1>8 DEF WaitEnds
<1>9. CASE StreamOpens
  BY <1>9 DEF StreamOpens
<1>10. ASSUME NEW event \in Events, StreamBrings(event)
      PROVE  CallFlagsOK'
  BY <1>10 DEF StreamBrings
<1>11. CASE ReplyStep
  BY <1>11 DEF ReplyStep, Return
<1>12. CASE FallbackStep
  BY <1>12 DEF FallbackStep
<1>13. CASE WholeReply
  BY <1>13 DEF WholeReply, Return
<1>14. CASE InterruptModelCall
  BY <1>14 DEF InterruptModelCall, Return
<1>15. CASE UNCHANGED callVars
  BY <1>15 DEF callVars
<1>16. QED
  BY <1>1, <1>2, <1>3, <1>4, <1>5, <1>6, <1>7, <1>8, <1>9, <1>10, <1>11, <1>12, <1>13,
    <1>14, <1>15 DEF CallMoves

\* Only the first attempt is followed by a pause.
LEMMA PauseKept ==
  ASSUME CallControlOK, PauseIsTheFirst, CallMoves, ModelCallAssumption
  PROVE  PauseIsTheFirst'
<1> USE DEF PauseIsTheFirst, MaxStreamAttempts, CallControlOK
<1>1. CASE BeginModelCall
  BY <1>1 DEF BeginModelCall
<1>2. CASE PauseEnds
  BY <1>2 DEF PauseEnds
<1>3. CASE Connect
  BY <1>3 DEF Connect, Sent
<1>4. CASE DropStep
  BY <1>4 DEF DropStep, FailUnchanged
<1>5. CASE AgainStep
  BY <1>5 DEF AgainStep, FailUnchanged, Discarded
<1>6. CASE GiveUpStep
  BY <1>6 DEF GiveUpStep, FailUnchanged, Return
<1>7. ASSUME NEW refusal \in Refusals, WaitStep(refusal)
      PROVE  PauseIsTheFirst'
  BY <1>7 DEF WaitStep
<1>8. CASE WaitEnds
  BY <1>8 DEF WaitEnds
<1>9. CASE StreamOpens
  BY <1>9 DEF StreamOpens
<1>10. ASSUME NEW event \in Events, StreamBrings(event)
      PROVE  PauseIsTheFirst'
  BY <1>10 DEF StreamBrings
<1>11. CASE ReplyStep
  BY <1>11 DEF ReplyStep, Return
<1>12. CASE FallbackStep
  BY <1>12 DEF FallbackStep
<1>13. CASE WholeReply
  BY <1>13 DEF WholeReply, Return
<1>14. CASE InterruptModelCall
  BY <1>14 DEF InterruptModelCall, Return
<1>15. CASE UNCHANGED callVars
  BY <1>15 DEF callVars
<1>16. QED
  BY <1>1, <1>2, <1>3, <1>4, <1>5, <1>6, <1>7, <1>8, <1>9, <1>10, <1>11, <1>12, <1>13,
    <1>14, <1>15 DEF CallMoves

\* A request starts its reply anew.
LEMMA UnreadKept ==
  ASSUME CallControlOK, NothingReadYet, CallMoves, ModelCallAssumption
  PROVE  NothingReadYet'
<1> USE DEF NothingReadYet
<1>1. CASE BeginModelCall
  BY <1>1 DEF BeginModelCall
<1>2. CASE PauseEnds
  BY <1>2 DEF PauseEnds
<1>3. CASE Connect
  BY <1>3 DEF Connect, Sent
<1>4. CASE DropStep
  BY <1>4 DEF DropStep, FailUnchanged
<1>5. CASE AgainStep
  BY <1>5 DEF AgainStep, FailUnchanged, Discarded
<1>6. CASE GiveUpStep
  BY <1>6 DEF GiveUpStep, FailUnchanged, Return
<1>7. ASSUME NEW refusal \in Refusals, WaitStep(refusal)
      PROVE  NothingReadYet'
  BY <1>7 DEF WaitStep
<1>8. CASE WaitEnds
  BY <1>8 DEF WaitEnds
<1>9. CASE StreamOpens
  BY <1>9 DEF StreamOpens
<1>10. ASSUME NEW event \in Events, StreamBrings(event)
      PROVE  NothingReadYet'
  BY <1>10 DEF StreamBrings
<1>11. CASE ReplyStep
  BY <1>11 DEF ReplyStep, Return
<1>12. CASE FallbackStep
  BY <1>12 DEF FallbackStep
<1>13. CASE WholeReply
  BY <1>13 DEF WholeReply, Return
<1>14. CASE InterruptModelCall
  BY <1>14 DEF InterruptModelCall, Return
<1>15. CASE UNCHANGED callVars
  BY <1>15 DEF callVars
<1>16. QED
  BY <1>1, <1>2, <1>3, <1>4, <1>5, <1>6, <1>7, <1>8, <1>9, <1>10, <1>11, <1>12, <1>13,
    <1>14, <1>15 DEF CallMoves

\* A request goes out only while one is left.
LEMMA RequestsKept ==
  ASSUME CallControlOK, RequestsAreCounted, CallMoves, ModelCallAssumption
  PROVE  RequestsAreCounted'
<1>p. /\ progress["stream"].attempts \in Nat /\ progress["whole"].attempts \in Nat
      /\ asking \in Whiches /\ MaxRetries \in Nat
  BY DEF CallControlOK, Whiches, ModelCallAssumption
<1> USE DEF RequestsAreCounted, Dropped
<1>1. CASE BeginModelCall
  <2>1. /\ progress'["stream"].attempts = 0 /\ progress'["whole"].attempts = 0
        /\ place' = "connect" /\ deferred' # "dropped"
    BY <1>1, ProgressMoves DEF BeginModelCall, Whiches
  <2>2. QED
    BY <1>p, <2>1
<1>2. CASE PauseEnds
  BY <1>2 DEF PauseEnds
<1>3. CASE Connect
  BY <1>3, <1>p, ProgressMoves DEF Connect, Sent, Whiches
<1>4. CASE DropStep
  BY <1>4, <1>p DEF DropStep, FailUnchanged
<1>5. CASE AgainStep
  BY <1>5, <1>p DEF AgainStep, FailUnchanged, Discarded
<1>6. CASE GiveUpStep
  BY <1>6 DEF GiveUpStep, FailUnchanged, Return
<1>7. ASSUME NEW refusal \in Refusals, WaitStep(refusal)
      PROVE  RequestsAreCounted'
  BY <1>7 DEF WaitStep
<1>8. CASE WaitEnds
  BY <1>8, <1>p, ProgressMoves DEF WaitEnds, Whiches
<1>9. CASE StreamOpens
  BY <1>9 DEF StreamOpens
<1>10. ASSUME NEW event \in Events, StreamBrings(event)
      PROVE  RequestsAreCounted'
  BY <1>10 DEF StreamBrings
<1>11. CASE ReplyStep
  BY <1>11 DEF ReplyStep, Return
<1>12. CASE FallbackStep
  BY <1>12, <1>p, ProgressMoves DEF FallbackStep, Whiches
<1>13. CASE WholeReply
  BY <1>13 DEF WholeReply, Return
<1>14. CASE InterruptModelCall
  BY <1>14 DEF InterruptModelCall, Return
<1>15. CASE UNCHANGED callVars
  BY <1>15 DEF callVars
<1>16. QED
  BY <1>1, <1>2, <1>3, <1>4, <1>5, <1>6, <1>7, <1>8, <1>9, <1>10, <1>11, <1>12, <1>13,
    <1>14, <1>15 DEF CallMoves

\* A wait is planned within the budget.
LEMMA BudgetKept ==
  ASSUME CallControlOK, CallFlagsOK, WaitsAreBudgeted, CallMoves, ModelCallAssumption
  PROVE  WaitsAreBudgeted'
<1>p. /\ \A which \in Whiches : progress[which].slept \in Nat
      /\ asking \in Whiches /\ delay \in Nat
      /\ Budget(TRUE) \in Nat /\ Budget(FALSE) \in Nat /\ Budget(FALSE) <= Budget(TRUE)
  BY DEF CallControlOK, Whiches, ModelCallAssumption, Budget
<1> USE DEF WaitsAreBudgeted
<1>1. CASE BeginModelCall
  <2>1. capacity' = FALSE /\ place' # "wait"
    BY <1>1 DEF BeginModelCall
  <2>2. \A which \in Whiches : progress'[which].slept = 0
    BY <1>1, ProgressMoves
  <2>3. QED
    BY <1>p, <2>1, <2>2 DEF Budget, ModelCallAssumption
<1>2. CASE PauseEnds
  BY <1>2 DEF PauseEnds
<1>3. CASE Connect
  BY <1>3, <1>p, ProgressMoves DEF Connect, Sent, Whiches
<1>4. CASE DropStep
  BY <1>4 DEF DropStep, FailUnchanged
<1>5. CASE AgainStep
  BY <1>5 DEF AgainStep, FailUnchanged, Discarded
<1>6. CASE GiveUpStep
  BY <1>6 DEF GiveUpStep, FailUnchanged, Return
<1>7. ASSUME NEW refusal \in Refusals, WaitStep(refusal)
      PROVE  WaitsAreBudgeted'
  <2>1. /\ progress' = progress /\ asking' = asking /\ refusal[1] \in BOOLEAN
        /\ capacity' = (capacity \/ refusal[1])
        /\ delay' \in Planned(refusal[1], refusal[2], refusal[3], progress[asking].slept)
    BY <1>7 DEF WaitStep, Refusals
  <2>2. /\ Budget(capacity) <= Budget(capacity') /\ Budget(refusal[1]) <= Budget(capacity')
        /\ Budget(capacity') \in Nat /\ Budget(capacity) \in Nat
        /\ Budget(refusal[1]) \in Nat
    <3>1. (capacity => capacity') /\ (refusal[1] => capacity')
      BY <2>1, Zenon
    <3>2. QED
      BY <3>1 DEF Budget, ModelCallAssumption
  <2>3. /\ delay' \in Nat
        /\ delay' = 0 \/ progress[asking].slept + delay' <= Budget(refusal[1])
    BY <1>p, <2>1, PlannedFits
  <2>4. progress[asking].slept + delay' <= Budget(capacity')
    BY <1>p, <2>2, <2>3
  <2>5. QED
    BY <1>p, <2>1, <2>2, <2>4
<1>8. CASE WaitEnds
  BY <1>8, <1>p, ProgressMoves DEF WaitEnds, Whiches
<1>9. CASE StreamOpens
  BY <1>9 DEF StreamOpens
<1>10. ASSUME NEW event \in Events, StreamBrings(event)
      PROVE  WaitsAreBudgeted'
  BY <1>10 DEF StreamBrings
<1>11. CASE ReplyStep
  BY <1>11 DEF ReplyStep, Return
<1>12. CASE FallbackStep
  <2>1. /\ progress'["whole"].slept = 0 /\ progress'["stream"] = progress["stream"]
    BY <1>12, ProgressMoves
  <2>2. place' = "send" /\ capacity' = capacity /\ Budget(capacity) \in Nat
    BY <1>12, <1>p DEF FallbackStep, CallFlagsOK
  <2>3. QED
    BY <2>1, <2>2 DEF Whiches
<1>13. CASE WholeReply
  BY <1>13 DEF WholeReply, Return
<1>14. CASE InterruptModelCall
  BY <1>14 DEF InterruptModelCall, Return
<1>15. CASE UNCHANGED callVars
  BY <1>15 DEF callVars
<1>16. QED
  BY <1>1, <1>2, <1>3, <1>4, <1>5, <1>6, <1>7, <1>8, <1>9, <1>10, <1>11, <1>12, <1>13,
    <1>14, <1>15 DEF CallMoves

\* What is shown is discarded with its stream.
LEMMA ShownKept ==
  ASSUME CallControlOK, CallFlagsOK, NothingReadYet, ShownIsTheStreams, CallMoves, ModelCallAssumption
  PROVE  ShownIsTheStreams'
<1> USE DEF ShownIsTheStreams, NothingReadYet
<1>1. CASE BeginModelCall
  BY <1>1 DEF BeginModelCall
<1>2. CASE PauseEnds
  BY <1>2 DEF PauseEnds
<1>3. CASE Connect
  BY <1>3 DEF Connect, Sent
<1>4. CASE DropStep
  BY <1>4 DEF DropStep, FailUnchanged
<1>5. CASE AgainStep
  BY <1>5 DEF AgainStep, FailUnchanged, Discarded
<1>6. CASE GiveUpStep
  BY <1>6 DEF GiveUpStep, FailUnchanged, Return
<1>7. ASSUME NEW refusal \in Refusals, WaitStep(refusal)
      PROVE  ShownIsTheStreams'
  BY <1>7 DEF WaitStep
<1>8. CASE WaitEnds
  BY <1>8 DEF WaitEnds
<1>9. CASE StreamOpens
  BY <1>9 DEF StreamOpens
<1>10. ASSUME NEW event \in Events, StreamBrings(event)
      PROVE  ShownIsTheStreams'
  BY <1>10 DEF StreamBrings
<1>11. CASE ReplyStep
  BY <1>11 DEF ReplyStep, Return
<1>12. CASE FallbackStep
  BY <1>12 DEF FallbackStep
<1>13. CASE WholeReply
  BY <1>13 DEF WholeReply, Return
<1>14. CASE InterruptModelCall
  BY <1>14 DEF InterruptModelCall, Return
<1>15. CASE UNCHANGED callVars
  BY <1>15 DEF callVars
<1>16. QED
  BY <1>1, <1>2, <1>3, <1>4, <1>5, <1>6, <1>7, <1>8, <1>9, <1>10, <1>11, <1>12, <1>13,
    <1>14, <1>15 DEF CallMoves

\* A call returns with one reply shown.
LEMMA OneReplyKept ==
  ASSUME CallControlOK, CallFlagsOK, ShownIsTheStreams, OneReplyShown, CallMoves, ModelCallAssumption
  PROVE  OneReplyShown'
<1> USE DEF OneReplyShown, ShownIsTheStreams
<1>1. CASE BeginModelCall
  BY <1>1 DEF BeginModelCall
<1>2. CASE PauseEnds
  BY <1>2 DEF PauseEnds
<1>3. CASE Connect
  BY <1>3 DEF Connect, Sent
<1>4. CASE DropStep
  BY <1>4 DEF DropStep, FailUnchanged
<1>5. CASE AgainStep
  BY <1>5 DEF AgainStep, FailUnchanged, Discarded
<1>6. CASE GiveUpStep
  BY <1>6 DEF GiveUpStep, FailUnchanged, Return
<1>7. ASSUME NEW refusal \in Refusals, WaitStep(refusal)
      PROVE  OneReplyShown'
  BY <1>7 DEF WaitStep
<1>8. CASE WaitEnds
  BY <1>8 DEF WaitEnds
<1>9. CASE StreamOpens
  BY <1>9 DEF StreamOpens
<1>10. ASSUME NEW event \in Events, StreamBrings(event)
      PROVE  OneReplyShown'
  BY <1>10 DEF StreamBrings
<1>11. CASE ReplyStep
  BY <1>11 DEF ReplyStep, Return
<1>12. CASE FallbackStep
  BY <1>12 DEF FallbackStep
<1>13. CASE WholeReply
  BY <1>13 DEF WholeReply, Return
<1>14. CASE InterruptModelCall
  BY <1>14 DEF InterruptModelCall, Return
<1>15. CASE UNCHANGED callVars
  BY <1>15 DEF callVars
<1>16. QED
  BY <1>1, <1>2, <1>3, <1>4, <1>5, <1>6, <1>7, <1>8, <1>9, <1>10, <1>11, <1>12, <1>13,
    <1>14, <1>15 DEF CallMoves

-----------------------------------------------------------------------------
(* Theorems about the call *)

\* The invariant holds at first.
LEMMA CallInvStarts == ModelCallAssumption /\ CallInit => CallInv
<1> SUFFICES ASSUME ModelCallAssumption, CallInit PROVE CallInv
  OBVIOUS
<1>1. progress = [which \in Whiches |-> [attempts |-> 0, slept |-> 0]]
  BY DEF CallInit, FreshProgress, Whiches
<1>2. /\ progress \in [Whiches -> [attempts : Nat, slept : Nat]]
      /\ \A which \in Whiches : progress[which].attempts = 0 /\ progress[which].slept = 0
  BY <1>1
<1>3. CallControlOK
  BY <1>2 DEF CallInit, CallControlOK, Places, Whiches, MaxStreamAttempts,
    ModelCallAssumption
<1>4. RequestsAreCounted
  BY <1>2 DEF CallInit, RequestsAreCounted, Dropped, Whiches, ModelCallAssumption
<1>5. WaitsAreBudgeted
  <2>1. Budget(capacity) \in Nat
    BY DEF CallInit, Budget, ModelCallAssumption
  <2>2. QED
    BY <1>2, <2>1 DEF CallInit, WaitsAreBudgeted
<1>6. CallFlagsOK
  BY DEF CallInit, CallFlagsOK
<1>7. PauseIsTheFirst /\ NothingReadYet /\ ShownIsTheStreams /\ OneReplyShown
  BY DEF CallInit, PauseIsTheFirst, NothingReadYet, ShownIsTheStreams, OneReplyShown
<1>8. QED
  BY <1>3, <1>4, <1>5, <1>6, <1>7 DEF CallInv

\* Every step keeps it.
LEMMA CallInvKept ==
  ModelCallAssumption /\ CallInv /\ [CallNext]_callVars => CallInv'
<1> SUFFICES ASSUME ModelCallAssumption, CallInv, [CallNext]_callVars PROVE CallInv'
  OBVIOUS
<1>1. CallMoves
  BY CallMovesKnown DEF CallInv
<1>2. CallControlOK' /\ CallFlagsOK' /\ PauseIsTheFirst' /\ NothingReadYet'
  BY <1>1, CallControlKept, CallFlagsKept, PauseKept, UnreadKept DEF CallInv
<1>3. RequestsAreCounted' /\ WaitsAreBudgeted'
  BY <1>1, RequestsKept, BudgetKept DEF CallInv
<1>4. ShownIsTheStreams' /\ OneReplyShown'
  BY <1>1, ShownKept, OneReplyKept DEF CallInv
<1>5. QED
  BY <1>2, <1>3, <1>4 DEF CallInv

\* A call of the model keeps its invariant, for any limits, backoffs and number of calls.
THEOREM CallInvariance == CallSpec => []CallInv
<1>1. CallInit => CallInv
  BY CallInvStarts, ModelCallAssumption
<1>2. CallInv /\ [CallNext]_callVars => CallInv'
  BY CallInvKept, ModelCallAssumption
<1>3. QED
  BY <1>1, <1>2, PTL DEF CallSpec

\* Every variable of a call has a value of its kind.
THEOREM CallTypes == CallSpec => []CallTypeOK
<1>1. CallInv => CallTypeOK
  BY DEF CallInv, CallControlOK, CallFlagsOK, CallTypeOK, Places, Whiches
<1>2. QED
  BY <1>1, CallInvariance, PTL

\* When a call returns, the text that stands on the output without a mark is that of the one
\* reply the turn keeps, of the part an interrupt left, or none: no attempt's text that
\* consume_stream discarded, whatever broke off, was refused or was asked for again.
THEOREM OneReplyIsShown == CallSpec => []OneReplyShown
<1>1. CallInv => OneReplyShown
  BY DEF CallInv
<1>2. QED
  BY <1>1, CallInvariance, PTL

\* Whatever a provider refuses, a call sends its requests again at most max_retries times
\* (once more without the deferred tools) and waits no longer than its budget.
THEOREM RetriesKeepTheirLimits == CallSpec => []RetriesStayInTheirLimits
<1>1. CallInv => RetriesStayInTheirLimits
  BY DEF CallInv, RequestsAreCounted, WaitsAreBudgeted, Dropped, Whiches,
    RetriesStayInTheirLimits
<1>2. QED
  BY <1>1, CallInvariance, PTL

-----------------------------------------------------------------------------
(* The three components in one specification *)

\* Each component goes its own way while the others stay.
LEMMA WaitsRefineTheirParts == WaitsSpec => Spec /\ McpSpec /\ CallSpec
<1>1. WaitsInit => Init /\ McpInit /\ CallInit
  BY DEF WaitsInit
<1>2. [WaitsNext]_waitsVars => [Next]_vars
  BY DEF WaitsNext, waitsVars, OnlyServer, OnlyModel, OnlyPrompts, Next, EngineThread
<1>3. [WaitsNext]_waitsVars => [McpNext]_mcpVars
  BY DEF WaitsNext, waitsVars, OnlyServer, OnlyModel, OnlyPrompts, McpNext, ManagerStep
<1>4. [WaitsNext]_waitsVars => [CallNext]_callVars
  BY DEF WaitsNext, waitsVars, OnlyServer, OnlyModel, OnlyPrompts, CallNext, CallStep
<1>5. QED
  BY <1>1, <1>2, <1>3, <1>4, PTL DEF WaitsSpec, Spec, McpSpec, CallSpec

\* Every variable of the approvals, of the server's manager and of the model's call has a
\* value of its kind.
THEOREM WaitsTypes == WaitsSpec => []WaitsTypesOK
<1>1. TypeOK /\ McpTypeOK /\ CallTypeOK => WaitsTypesOK
  BY DEF WaitsTypesOK
<1>2. QED
  BY <1>1, WaitsRefineTheirParts, TypesHold, McpTypes, CallTypes, PTL

\* Tries again are counted: the processes started for one operation of a failing server, and
\* the requests and waits of one call of the model.
THEOREM RetriesAreAllBounded == WaitsSpec => []RetriesAreBounded
<1>1. StartsAreBounded /\ RetriesStayInTheirLimits => RetriesAreBounded
  BY DEF RetriesAreBounded
<1>2. QED
  BY <1>1, WaitsRefineTheirParts, McpStartsAreBounded, RetriesKeepTheirLimits, PTL

\* The approvals, the server and the model's reply keep in it what they promise alone.
THEOREM WaitsKeepTheirPromises ==
  WaitsSpec => [](OwnApprovalUntilAPanic /\ KeptServerIsInSync /\ OneReplyShown) /\ CallsSpec
  BY WaitsRefineTheirParts, OwnApprovals, KeptServersAreInSync, OneReplyIsShown,
     McpKeepsItsCalls, PTL
===========================================================================
