---------------------------- MODULE TurnLoop ----------------------------
(* One session's turns: ConversationRuntime::run_turn and the loop of model    *)
(* requests and tool calls behind it (runtime/src/conversation.rs), the        *)
(* transcript it leaves for the next request (runtime/src/transcript.rs), and  *)
(* how that is shrunk to fit the model (context_manager.rs, compact.rs).        *)
(* A message keeps its role, the ids of its tool calls (or the id a result      *)
(* answers) and whether its text is blank. The model's response, what a hook,   *)
(* an approval or a tool says of a call, the user's interrupt, a failed write   *)
(* of the session file, a crash and what counts as too large are choices. Token  *)
(* estimates, usage accounting, tracing and the words of the notes and of the    *)
(* summary are left out.                                                         *)
EXTENDS Integers, Sequences, FiniteSets

CONSTANTS
  CallIds,        \* tool_use ids
  Signatures,     \* a tool's name and arguments (tool_call_signature)
  CallLists,      \* the tool calls a response may make
  Texts,          \* the texts of a response without calls: "none", "blank", "some"
  Threshold,      \* LOOP_GUARD_THRESHOLD
  MaxIterations,  \* the iteration cap (max_iterations)
  MaxTurns,       \* bound: prompts
  MaxCompactions, \* bound: compactions
  MaxFailures,    \* bound: failed writes of the session file
  MaxCrashes      \* bound: crashes

ASSUME CallsAssumption ==
  /\ CallLists \subseteq Seq([id : CallIds, sig : Signatures])
  /\ <<>> \in CallLists
  /\ Texts \subseteq {"none", "blank", "some"}
ASSUME BoundsAssumption ==
  /\ Threshold \in Nat \ {0} /\ MaxIterations \in Nat
  /\ MaxTurns \in Nat /\ MaxCompactions \in Nat /\ MaxFailures \in Nat /\ MaxCrashes \in Nat

VARIABLES
  transcript,   \* Session::messages
  file,         \* the messages a load of the session file would read
  pc,
  cancelled,    \* the turn's CancellationToken
  iterations, recovered, continued, nudged, checked, edited,   \* TurnProgress
  guard,        \* LoopGuard
  pending,      \* the response's calls without a result
  truncated,    \* its stop reason is a truncation
  outcome,      \* how the last turn ended
  executed,     \* history: how often the last call tried was executed in a row
  turns, compactions, failures, crashes

progressVars == <<iterations, recovered, continued, nudged, checked, edited>>
session == <<transcript, file, compactions>>
vars == <<session, pc, cancelled, progressVars, guard, pending, truncated, outcome,
          executed, turns, failures, crashes>>

-----------------------------------------------------------------------------
(* Messages *)

Message(role, ids, blank) == [role |-> role, ids |-> ids, blank |-> blank]
User == Message("user", <<>>, FALSE)
Assistant(ids, blank) == Message("assistant", ids, blank)
Note == Assistant(<<>>, FALSE)     \* the runtime's own words in the assistant's turn
Result(id) == Message("tool", <<id>>, FALSE)

Ids(calls) == [i \in DOMAIN calls |-> calls[i].id]
Results(calls) == [i \in DOMAIN calls |-> Result(calls[i].id)]
SetOf(s) == {s[i] : i \in DOMAIN s}
Last(s) == s[Len(s)]

(* transcript.rs: normalize_messages *)

\* The elements of s at the places I, in order.
Kept(s, I) ==
  LET kept[n \in 0..Len(s)] == IF n = 0 THEN <<>>
                               ELSE IF n \in I THEN Append(kept[n - 1], s[n])
                               ELSE kept[n - 1]
  IN  kept[Len(s)]

\* PendingToolUses: the calls of the last assistant message, in order and once each,
\* and those with a result.
NoCalls == [calls |-> <<>>, answered |-> {}]
Track(ids) ==
  [calls |-> Kept(ids, {i \in DOMAIN ids : \A j \in 1..(i - 1) : ids[j] # ids[i]}),
   answered |-> {}]

\* flush_into: a synthetic result for every call without one.
Flush_Nothing(open) == <<>>
Flush(open) ==
  LET kept == Kept(open.calls,
                   {i \in DOMAIN open.calls : open.calls[i] \notin open.answered})
  IN  [i \in DOMAIN kept |-> Result(kept[i])]

\* One message read with the result so far and the calls still open.
Normalized1(acc, m) ==
  IF m.role = "assistant" THEN
    [out |-> Append(acc.out \o Flush(acc.open), m), open |-> Track(m.ids)]
  ELSE IF m.role = "tool" THEN
    LET id == m.ids[1] IN
    IF id \in SetOf(acc.open.calls) \ acc.open.answered
    THEN [out |-> Append(acc.out, m),
          open |-> [acc.open EXCEPT !.answered = @ \cup {id}]]
    ELSE acc
  ELSE [out |-> Append(acc.out \o Flush(acc.open), m), open |-> NoCalls]

\* Assistant messages of blank text at the end are dropped.
IsBlankReply(m) == m.role = "assistant" /\ m.blank /\ m.ids = <<>>
DropBlankTail(s) ==
  LET kept[n \in 0..Len(s)] ==
        IF n > 0 /\ IsBlankReply(s[n]) THEN kept[n - 1] ELSE n
  IN  SubSeq(s, 1, kept[Len(s)])

Normalize(s) ==
  LET read[n \in 0..Len(s)] == IF n = 0 THEN [out |-> <<>>, open |-> NoCalls]
                               ELSE Normalized1(read[n - 1], s[n])
      all == read[Len(s)]
  IN  DropBlankTail(all.out \o Flush(all.open))

\* request_messages: the roles of the normalized transcript (notes are reworded).
Request == Normalize(transcript)

-----------------------------------------------------------------------------
(* Writing the session *)

FailedWrite == failures < MaxFailures /\ failures' = failures + 1

\* push_message for each of ms, then next: a write that fails leaves the messages
\* before it and fails the turn.
Push(ms, next) ==
  /\ \/ /\ transcript' = transcript \o ms /\ file' = file \o ms
        /\ pc' = next /\ UNCHANGED failures
     \/ /\ FailedWrite
        /\ \E n \in 0..(Len(ms) - 1) :
             /\ transcript' = transcript \o SubSeq(ms, 1, n)
             /\ file' = file \o SubSeq(ms, 1, n)
        /\ pc' = "failed"
  /\ UNCHANGED compactions

NoCallYet == [last |-> "none", streak |-> 0, warned |-> FALSE]     \* LoopGuard::new
NoneExecuted == [sig |-> "none", times |-> 0]

Init ==
  /\ transcript = <<>> /\ file = <<>> /\ compactions = 0
  /\ pc = "idle" /\ cancelled = FALSE
  /\ iterations = 0 /\ recovered = FALSE /\ continued = FALSE
  /\ nudged = FALSE /\ checked = FALSE /\ edited = FALSE
  /\ guard = NoCallYet /\ executed = NoneExecuted
  /\ pending = <<>> /\ truncated = FALSE /\ outcome = "none"
  /\ turns = 0 /\ failures = 0 /\ crashes = 0

-----------------------------------------------------------------------------
(* A turn *)

\* The turn's own variables end with it; the next one starts with fresh ones.
turnVars == <<cancelled, progressVars, guard, pending, truncated, executed>>
FreshTurn ==
  /\ cancelled' = FALSE /\ guard' = NoCallYet /\ executed' = NoneExecuted
  /\ pending' = <<>> /\ truncated' = FALSE
  /\ iterations' = 0 /\ recovered' = FALSE /\ continued' = FALSE
  /\ nudged' = FALSE /\ checked' = FALSE /\ edited' = FALSE

\* begin_checkpoint and run_turn: repair what a failure or a crash left (a save of its
\* own, whose failure begin_checkpoint ignores), then the prompt. A failed write in
\* run_turn returns before the loop, so nothing closes the turn.
RepairedFile == IF Request = transcript THEN file ELSE Request
StartTurn ==
  /\ pc = "idle" /\ turns < MaxTurns
  /\ turns' = turns + 1
  /\ \/ /\ transcript' = Append(Request, User)
        /\ pc' = "loop" /\ outcome' = "none"
        /\ \/ file' = Append(RepairedFile, User) /\ UNCHANGED failures
           \/ Request # transcript /\ FailedWrite /\ file' = Append(file, User)
     \/ /\ FailedWrite
        /\ transcript' = Request /\ file' \in {file, RepairedFile}
        /\ pc' = "save" /\ outcome' = "unsent"
  /\ UNCHANGED <<compactions, turnVars, crashes>>

(* Shrinking the context: ContextManager *)

Summary == Message("system", <<>>, FALSE)
IsSummary(m) == m.role = "system"
\* compacted_summary_prefix_len: an earlier summary is merged into the new one.
PrefixLen == IF transcript # <<>> /\ IsSummary(transcript[1]) THEN 1 ELSE 0

\* pair_safe_boundary: the kept end never starts with the result of a call that goes.
PairSafe_Raw(keepFrom) == keepFrom
PairSafe(keepFrom) ==
  CHOOSE b \in PrefixLen..keepFrom :
    /\ b = PrefixLen \/ transcript[b + 1].role # "tool"
    /\ \A c \in (b + 1)..keepFrom : transcript[c + 1].role = "tool"

\* compact_session_with_policy: a summary, then at least minRecent of the latest
\* messages, and as many more as the budget takes.
Compacted(minRecent) ==
  {<<Summary>> \o SubSeq(transcript, b + 1, Len(transcript)) :
     b \in {PairSafe(k) : k \in PrefixLen..(Len(transcript) - minRecent)} \ {PrefixLen}}

\* prepare_session or recover_from_overflow changed something, which is saved: results
\* were shortened (the model keeps no text), or the transcript was compacted.
Shrinks(minRecent, next) ==
  /\ \/ UNCHANGED <<transcript, compactions>>
     \/ /\ compactions < MaxCompactions /\ compactions' = compactions + 1
        /\ transcript' \in Compacted(minRecent)
  /\ \/ file' = transcript' /\ pc' = next /\ UNCHANGED failures
     \/ FailedWrite /\ pc' = "failed" /\ UNCHANGED file

\* The top of run_turn_loop: the interrupt, the iteration cap, then prepare_context.
CapReached_Late == iterations > MaxIterations
CapReached == iterations >= MaxIterations

LoopTop ==
  /\ pc = "loop"
  /\ \/ /\ cancelled
        /\ outcome' = "cancelled" /\ pc' = "close"
        /\ UNCHANGED <<session, failures, iterations>>
     \/ /\ ~cancelled /\ CapReached
        /\ pc' = "failed" /\ UNCHANGED <<session, failures, iterations, outcome>>
     \/ /\ ~cancelled /\ ~CapReached
        /\ iterations' = iterations + 1 /\ UNCHANGED outcome
        /\ \/ pc' = "stream" /\ UNCHANGED <<session, failures>>
           \/ Shrinks(2, "stream")
  /\ UNCHANGED <<cancelled, recovered, continued, nudged, checked, edited, guard,
                 pending, truncated, executed, turns, crashes>>

\* The stream stopped because of the interrupt; what the user saw of it stays.
StreamInterrupted ==
  /\ pc = "stream" /\ cancelled
  /\ \E partial \in {<<>>, <<Note>>} : Push(partial, "close")
  /\ outcome' = IF pc' = "close" THEN "cancelled" ELSE outcome
  /\ UNCHANGED <<cancelled, progressVars, guard, pending, truncated, executed, turns,
                 crashes>>

\* A context overflow: shrink and retry, once; an error when nothing can shrink.
StreamOverflows_Uncounted ==
  /\ pc = "stream" /\ ~cancelled
  /\ pc' = "loop" /\ iterations' = iterations - 1
  /\ UNCHANGED <<session, cancelled, recovered, continued, nudged, checked, edited,
                 guard, pending, truncated, outcome, executed, turns, failures,
                 crashes>>
StreamOverflows ==
  /\ pc = "stream" /\ ~cancelled /\ ~recovered
  /\ recovered' = TRUE
  /\ \/ Shrinks(1, "loop")
     \/ pc' = "failed" /\ UNCHANGED <<session, failures>>
  /\ UNCHANGED <<cancelled, iterations, continued, nudged, checked, edited, guard,
                 pending, truncated, outcome, executed, turns, crashes>>

\* The provider failed, or the response is no message: unfinished, or empty though
\* neither refused nor cut off.
StreamFails ==
  /\ pc = "stream"
  /\ pc' = "failed"
  /\ UNCHANGED <<session, cancelled, progressVars, guard, pending, truncated,
                 outcome, executed, turns, failures, crashes>>

\* A refusal: its text stays, its calls do not run.
Refuses(calls, text) ==
  /\ pc = "stream"
  /\ LET message == IF calls = <<>> /\ text = "none" THEN <<>>
                    ELSE <<Assistant(Ids(calls), text # "some")>>
     IN  Push(message \o Results(calls), "close")
  /\ outcome' = IF pc' = "close" THEN "refused" ELSE outcome
  /\ UNCHANGED <<cancelled, progressVars, guard, pending, truncated, executed, turns,
                 crashes>>

\* Any other response; a note stands in for one cut off before it said anything.
Responds(calls, text, cutOff) ==
  /\ pc = "stream"
  /\ text = "none" => calls # <<>> \/ cutOff
  /\ LET message == IF calls = <<>> /\ text = "none" THEN Note
                    ELSE Assistant(Ids(calls), text # "some")
     IN  Push(<<message>>, IF calls = <<>> THEN "reply" ELSE "calls")
  /\ pending' = IF pc' = "failed" THEN <<>> ELSE calls
  /\ truncated' = cutOff
  /\ UNCHANGED <<cancelled, progressVars, guard, outcome, executed, turns, crashes>>

(* A response without tool calls *)

\* One automatic continuation after a cut-off reply.
MayContinue == ~continued

Continue ==
  /\ pc = "reply" /\ truncated /\ MayContinue
  /\ continued' = TRUE
  /\ Push(<<User>>, "loop")
  /\ UNCHANGED <<cancelled, iterations, recovered, nudged, checked, edited, guard,
                 pending, truncated, outcome, executed, turns, crashes>>

\* before_finishing: the action nudge, then the completion check, once each.
NotYet_Again(flag) == TRUE
NotYet(flag) == ~flag

Nudge ==
  /\ pc = "reply" /\ ~truncated /\ ~cancelled
  /\ \/ NotYet(nudged) /\ nudged' = TRUE /\ UNCHANGED checked
     \/ edited /\ NotYet(checked) /\ checked' = TRUE /\ UNCHANGED nudged
  /\ Push(<<User>>, "loop")
  /\ UNCHANGED <<cancelled, iterations, recovered, continued, edited, guard, pending,
                 truncated, outcome, executed, turns, crashes>>

\* The turn ends with the model's reply.
EndReply ==
  /\ pc = "reply" /\ (truncated => ~MayContinue)
  /\ outcome' = IF truncated THEN "truncated" ELSE "completed"
  /\ pc' = "save" /\ FreshTurn
  /\ UNCHANGED <<session, turns, failures, crashes>>

(* A response's tool calls, in order *)

CallsDone ==
  /\ pc = "calls" /\ pending = <<>>
  /\ pc' = "loop"
  /\ UNCHANGED <<session, cancelled, progressVars, guard, pending, truncated,
                 outcome, executed, turns, failures, crashes>>

\* push_synthetic_results for every call left, which ends the turn as interrupted.
EndCalls_AfterFirst ==
  /\ Push(Results(Tail(pending)), "close")
  /\ outcome' = IF pc' = "close" THEN "cancelled" ELSE outcome
  /\ pending' = <<>>
EndCalls ==
  /\ Push(Results(pending), "close")
  /\ outcome' = IF pc' = "close" THEN "cancelled" ELSE outcome
  /\ pending' = <<>>

InterruptCalls ==
  /\ pc = "calls" /\ pending # <<>> /\ cancelled
  /\ EndCalls
  /\ UNCHANGED <<cancelled, progressVars, guard, truncated, executed, turns, crashes>>

\* A call of a cut-off response, or one whose arguments are no JSON object, is only
\* answered.
RejectCall ==
  /\ pc = "calls" /\ pending # <<>> /\ ~cancelled
  /\ Push(<<Result(Head(pending).id)>>, "calls")
  /\ pending' = IF pc' = "failed" THEN <<>> ELSE Tail(pending)
  /\ UNCHANGED <<cancelled, progressVars, guard, truncated, outcome, executed, turns,
                 crashes>>

\* LoopGuard::observe.
Observed(sig) ==
  [last |-> sig, streak |-> IF guard.last = sig THEN guard.streak + 1 ELSE 1,
   warned |-> guard.warned]
Warns(g) == g.streak = Threshold /\ ~g.warned
Proceeds_OneMore(g) == g.streak <= Threshold + 1
Proceeds(g) == g.streak < Threshold \/ Warns(g)

StartCall ==
  /\ pc = "calls" /\ pending # <<>> /\ ~cancelled /\ ~truncated
  /\ LET g == Observed(Head(pending).sig) IN
     /\ Proceeds(g)
     /\ guard' = [g EXCEPT !.warned = @ \/ Warns(g)]
     /\ executed' = IF executed.sig = g.last THEN executed
                    ELSE [sig |-> g.last, times |-> 0]
  /\ pc' = "execute"
  /\ UNCHANGED <<session, cancelled, progressVars, pending, truncated, outcome,
                 turns, failures, crashes>>

StopLoop ==
  /\ pc = "calls" /\ pending # <<>> /\ ~cancelled /\ ~truncated
  /\ ~Proceeds(Observed(Head(pending).sig))
  /\ Push(Results(pending), "save")
  /\ \/ pc' = "save" /\ outcome' = "loop" /\ FreshTurn
     \/ pc' = "failed" /\ pending' = <<>>
        /\ UNCHANGED <<cancelled, progressVars, guard, truncated, outcome, executed>>
  /\ UNCHANGED <<turns, crashes>>

\* execute_tool_use once the hook and the approval returned: the call ran (an edit
\* counts), or they or the tool refused it.
SeesInterrupt_Never == FALSE
SeesInterrupt == cancelled

ExecuteCall ==
  /\ pc = "execute" /\ ~SeesInterrupt
  /\ Push(<<Result(Head(pending).id)>>, "calls")
  /\ \/ /\ executed' = [executed EXCEPT !.times = @ + 1]
        /\ edited' \in {edited, TRUE}
     \/ UNCHANGED <<executed, edited>>
  /\ pending' = IF pc' = "failed" THEN <<>> ELSE Tail(pending)
  /\ UNCHANGED <<cancelled, iterations, recovered, continued, nudged, checked, guard,
                 truncated, outcome, turns, crashes>>

\* The user interrupted while the hook or the approval was waiting.
AbandonCall ==
  /\ pc = "execute" /\ SeesInterrupt
  /\ EndCalls
  /\ UNCHANGED <<cancelled, progressVars, guard, truncated, executed, turns, crashes>>

(* How a turn is closed *)

\* close_turn_with_note, whose failed write is ignored.
EndsUnanswered_PromptOnly == transcript # <<>> /\ Last(transcript).role = "user"
EndsUnanswered == transcript # <<>> /\ Last(transcript).role # "assistant"
CloseWithNote ==
  \/ /\ EndsUnanswered
     /\ transcript' = Append(transcript, Note) /\ file' = Append(file, Note)
     /\ UNCHANGED <<compactions, failures>>
  \/ EndsUnanswered /\ FailedWrite /\ UNCHANGED session
  \/ ~EndsUnanswered /\ UNCHANGED <<session, failures>>

\* finish_turn for an interrupted turn, finish_refused_turn for a refused one.
Close ==
  /\ pc = "close"
  /\ CloseWithNote
  /\ pc' = "save" /\ FreshTurn
  /\ UNCHANGED <<outcome, turns, crashes>>

\* close_failed_turn.
CloseFailed ==
  /\ pc = "failed"
  /\ CloseWithNote
  /\ outcome' = "failed" /\ pc' = "save" /\ FreshTurn
  /\ UNCHANGED <<turns, crashes>>

\* Engine::run_turn saves the session however the turn ended; a failure is a notice.
Save ==
  /\ pc = "save" /\ pc' = "idle"
  /\ \/ file' = transcript /\ UNCHANGED failures
     \/ FailedWrite /\ UNCHANGED file
  /\ UNCHANGED <<transcript, compactions, turnVars, outcome, turns, crashes>>

-----------------------------------------------------------------------------
(* Around the turn *)

\* The token has no reader once the loop was left.
Interrupt ==
  /\ pc \in {"loop", "stream", "reply", "calls", "execute"} /\ ~cancelled
  /\ cancelled' = TRUE
  /\ UNCHANGED <<session, pc, progressVars, guard, pending, truncated, outcome,
                 executed, turns, failures, crashes>>

\* The process dies and the session is loaded again: a torn last record is skipped and
\* the load repairs the rest, the file too (rewrite_before_append: its next write).
Crash ==
  /\ pc # "idle" /\ crashes < MaxCrashes
  /\ crashes' = crashes + 1
  /\ transcript' = Normalize(file) /\ file' = transcript'
  /\ pc' = "idle" /\ outcome' = "crashed" /\ FreshTurn
  /\ UNCHANGED <<compactions, turns, failures>>

AllTurnsDone == pc = "idle" /\ turns = MaxTurns /\ UNCHANGED vars

\* With calls the text is of no account.
Stream ==
  \/ StreamInterrupted \/ StreamOverflows \/ StreamFails
  \/ \E calls \in CallLists, text \in Texts :
       /\ calls # <<>> => text = "none"
       /\ \/ Refuses(calls, text)
          \/ \E cutOff \in BOOLEAN : Responds(calls, text, cutOff)

Turn ==
  \/ LoopTop \/ Stream \/ Continue \/ Nudge \/ EndReply
  \/ CallsDone \/ InterruptCalls \/ RejectCall \/ StartCall \/ StopLoop
  \/ ExecuteCall \/ AbandonCall \/ Close \/ CloseFailed \/ Save

Next == StartTurn \/ Turn \/ Interrupt \/ Crash \/ AllTurnsDone

Spec == Init /\ [][Next]_vars

-----------------------------------------------------------------------------
(* Properties *)

TypeOK ==
  /\ {transcript, file} \subseteq
       Seq([role : {"user", "assistant", "tool", "system"}, ids : Seq(CallIds),
            blank : BOOLEAN])
  /\ pc \in {"idle", "loop", "save", "stream", "reply", "calls", "execute", "close", "failed"}
  /\ {cancelled, recovered, continued, nudged, checked, edited, truncated}
       \subseteq BOOLEAN
  /\ iterations \in 0..MaxIterations
  /\ guard \in [last : Signatures \cup {"none"}, streak : Nat, warned : BOOLEAN]
  /\ pending \in Seq([id : CallIds, sig : Signatures])
  /\ outcome \in {"none", "unsent", "completed", "cancelled", "loop", "truncated",
                  "refused", "failed", "crashed"}
  /\ executed \in [sig : Signatures \cup {"none"}, times : Nat]
  /\ turns \in 0..MaxTurns /\ failures \in 0..MaxFailures
  /\ crashes \in 0..MaxCrashes /\ compactions \in 0..MaxCompactions

\* The tool messages right after message i.
Answers(s, i) ==
  {s[j].ids[1] : j \in {j \in (i + 1)..Len(s) :
                         \A k \in (i + 1)..j : s[k].role = "tool"}}
AllCallsAnswered(s) ==
  \A i \in DOMAIN s : s[i].role = "assistant" => Answers(s, i) = SetOf(s[i].ids)
\* Every result is for a call of the assistant message it follows, and the first one.
NoStrayResult(s) ==
  \A j \in DOMAIN s : s[j].role = "tool" =>
    \E i \in 1..(j - 1) :
      /\ s[i].role = "assistant" /\ s[j].ids[1] \in SetOf(s[i].ids)
      /\ \A k \in (i + 1)..(j - 1) : s[k].role = "tool" /\ s[k].ids # s[j].ids

\* No request is refused for its tool calls: after any crashes, failed writes and
\* duplicate ids, every call in it has one result, right after it, and no result has
\* no call.
RequestsAreWellFormed ==
  pc = "stream" => AllCallsAnswered(Request) /\ NoStrayResult(Request)

\* run_turn's promise: however the turn ends, the transcript itself answers every
\* call (a failed write excepted), so no repair is needed to continue.
EveryCallGetsAResult ==
  pc = "idle" /\ failures = 0 => AllCallsAnswered(transcript)

\* run_turn's promise: an interrupted or failed turn ends with an assistant message, so
\* the next request does not answer its prompt again.
StoppedTurnIsClosed ==
  pc = "idle" /\ outcome \in {"cancelled", "failed", "refused", "truncated"}
    /\ failures = 0
    => Last(transcript).role = "assistant"

\* LoopGuard: an identical call is executed at most Threshold times with no other call
\* tried in between, however the calls are spread over responses and whatever rejected
\* or denied calls lie between them.
RepeatedCallsStop == executed.times <= Threshold

\* The runtime speaks for the user at most three times in a turn (one continuation,
\* one nudge, one completion check) after the prompt.
Prompts(s) == Cardinality({i \in DOMAIN s : s[i].role = "user"})
FewAutomaticPrompts == Prompts(transcript) <= 4 * turns

\* A user message right after tool results is refused by some providers.
NoPromptAfterResults ==
  pc = "stream" => \A i \in 2..Len(Request) :
    ~(Request[i].role = "user" /\ Request[i - 1].role = "tool")

\* No two user prompts follow each other without an assistant reply between them.
NoPromptAfterPrompt ==
  pc = "stream" /\ failures = 0 /\ crashes = 0 => \A i \in 2..Len(Request) :
    ~(Request[i].role = "user" /\ Request[i - 1].role = "user")

\* A compaction loses nothing it keeps: the next request is the summary and an end of
\* the request before, of at least the latest two messages (one after an overflow), no
\* result among them dropped because its call was summarized away.
CompactionKeepsTheRest ==
  [][compactions' > compactions =>
       LET before == Request
           after == Normalize(transcript')
       IN  \E n \in 1..Len(before) :
             /\ after = <<Summary>> \o SubSeq(before, n, Len(before))
             /\ Len(before) - n >= IF pc = "loop" THEN 1 ELSE 0]_vars
=============================================================================
