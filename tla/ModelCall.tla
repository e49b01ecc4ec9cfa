---------------------------- MODULE ModelCall ----------------------------
(* A call of the model (rusty-claude-cli/src/api_client.rs over api/src/retry.rs and *)
(* the providers' send_with_retry): requests sent again after an error, waits between  *)
(* them, a stream that stalls, breaks off, is cut or brings nothing, the one retry of a  *)
(* stream, the request without the tools a search brought in, the fallback that asks     *)
(* for the reply in one piece, and an interrupt at any await. Texts, tokens, prices and   *)
(* how events are drawn are left out. A duration is a number; deadlines pass when the     *)
(* provider lets them. Only a gateway reports a lack of capacity.                         *)
EXTENDS Integers, FiniteSets

CONSTANTS
  MaxRetries,       \* the client's max_retries
  StandardBudget,   \* max_total_backoff
  CapacityBudget,   \* capacity_budget.total
  CapacityWait,     \* capacity_budget.max_wait
  RetryAfters,      \* bound: what a Retry-After may ask for
  Backoffs,         \* bound: jittered backoffs
  ModelCalls        \* bound: calls of one turn

ASSUME ModelCallAssumption ==
  /\ MaxRetries \in Nat /\ ModelCalls \in Nat
  /\ StandardBudget \in Nat /\ CapacityBudget \in Nat /\ CapacityWait \in Nat
  /\ StandardBudget <= CapacityBudget
  /\ RetryAfters \subseteq Nat /\ Backoffs \subseteq Nat \ {0}

VARIABLES
  place,         \* where the call is
  asking,        \* the request under way: the stream's or the fallback's
  progress,      \* each one's RetryProgress: attempts and slept
  delay,         \* the wait under way
  attempt,       \* of the stream
  deferred,      \* whether the request has deferred tools, had them and dropped them, or not
  oversized,     \* oversized_with_deferred_tools: the turn's later requests leave them out
  textShown,     \* text_shown
  received,      \* what came of the stream: text, a call begun or whole, the stop
  outcome,       \* of the last call
  callsMade,
  stream,        \* history: streams consumed in this call
  shown,         \* history: those with text on the output that no mark discards
  unmarked,      \* history: a reply was left there when its stream's request was too large
  capacity       \* history: a request was refused for lack of capacity

callVars == <<place, asking, progress, delay, attempt, deferred, oversized, textShown, received,
              outcome, callsMade, stream, shown, unmarked, capacity>>

MaxStreamAttempts == 2
FreshProgress == [attempts |-> 0, slept |-> 0]

CallInit ==
  /\ place = "idle" /\ asking = "stream" /\ delay = 0 /\ attempt = 1
  /\ progress = [stream |-> FreshProgress, whole |-> FreshProgress]
  /\ deferred = "none" /\ oversized = FALSE
  /\ textShown = FALSE /\ received = {} /\ outcome = "none" /\ callsMade = 0
  /\ stream = 0 /\ shown = {} /\ unmarked = FALSE /\ capacity = FALSE

\* The call returns; what the turn remembers is set whatever the outcome.
Return(result) ==
  /\ place' = "idle" /\ outcome' = result
  /\ oversized' = (oversized \/ deferred' = "dropped")

-----------------------------------------------------------------------------
(* stream_with_cancellation and the start of consume_stream *)

BeginModelCall ==
  /\ place = "idle" /\ callsMade < ModelCalls
  /\ callsMade' = callsMade + 1
  /\ place' = "connect" /\ attempt' = 1 /\ textShown' = FALSE
  /\ progress' = [stream |-> FreshProgress, whole |-> FreshProgress]
  /\ deferred' \in IF oversized THEN {"none"} ELSE {"none", "sent"}
  /\ asking' = "stream" /\ received' = {} /\ outcome' = "none" /\ delay' = 0
  /\ stream' = 0 /\ shown' = {} /\ unmarked' = FALSE /\ capacity' = FALSE
  /\ UNCHANGED oversized

\* RetryProgress::can_resend.
CanResend_Always == TRUE
CanResend == progress.stream.attempts <= MaxRetries

\* reply_discarded: what was shown is marked before the reply comes again.
Discarded_Unmarked == shown
Discarded == IF textShown THEN {} ELSE shown

\* What becomes of a stream that failed.
StreamFails(failure) ==
  /\ UNCHANGED <<asking, progress, delay, callsMade, stream, capacity>>
  /\ LET drops == failure = "too_large" /\ deferred = "sent"
         again == /\ failure = "broken" /\ attempt < MaxStreamAttempts
                  /\ CanResend
     IN
     \/ /\ drops
        /\ deferred' = "dropped" /\ place' = "connect"
        /\ unmarked' = (unmarked \/ shown # {})
        /\ UNCHANGED <<attempt, oversized, textShown, received, outcome, shown>>
     \/ /\ again
        /\ place' = "pause" /\ textShown' = FALSE
        /\ shown' = Discarded
        /\ UNCHANGED <<attempt, deferred, oversized, received, outcome, unmarked>>
     \/ /\ ~drops /\ ~again
        /\ UNCHANGED deferred /\ Return("failed")
        /\ UNCHANGED <<attempt, textShown, received, shown, unmarked>>

\* The retry of a stream waits first.
PauseEnds ==
  /\ place = "pause"
  /\ place' = "connect" /\ attempt' = attempt + 1
  /\ UNCHANGED <<asking, progress, delay, deferred, oversized, textShown, received, outcome,
                 callsMade, stream, shown, unmarked, capacity>>

-----------------------------------------------------------------------------
(* send_with_retry *)

\* start_attempt; a request is sent.
Sent(which) ==
  /\ place' = "send"
  /\ asking' = which
  /\ progress' = [progress EXCEPT ![which].attempts = @ + 1]

\* The first request of a stream, unless it is refused before it is sent.
Connect ==
  /\ place = "connect"
  /\ stream' = stream + 1 /\ received' = {}
  /\ Sent("stream")
  /\ UNCHANGED <<delay, attempt, deferred, oversized, textShown, outcome, callsMade, shown,
                 unmarked, capacity>>

PreflightRefuses ==
  /\ place = "connect"
  /\ \E failure \in {"too_large", "fatal", "broken"} : StreamFails(failure)

\* An error that is not the stream's to retry: the fallback's too.
RequestFailsFor(failure) ==
  IF asking = "stream" THEN StreamFails(failure)
  ELSE StreamFails(IF failure = "too_large" THEN failure ELSE "fatal")

\* plan_retry_delay and RetryBudget::plan: the waits that fit the budget, none or one.
NoRetryAfter == -1
Budget(full) == IF full THEN CapacityBudget ELSE StandardBudget
Remaining(full, slept) == IF slept >= Budget(full) THEN 0 ELSE Budget(full) - slept

Planned(full, retryAfter, backoff, slept) ==
  LET left == Remaining(full, slept)
      capped == IF backoff < left THEN backoff ELSE left
      wait == IF retryAfter # NoRetryAfter THEN retryAfter ELSE capped
      fits == IF retryAfter # NoRetryAfter THEN retryAfter <= left ELSE left > 0
  IN {w \in {wait} : fits /\ (full => w <= CapacityWait)}

\* A refusal that may pass: the request is sent again after a wait, unless the requests or
\* the budget are used up.
Refused(full, retryAfter, backoff) ==
  LET mine == progress[asking]
      waits == IF mine.attempts > MaxRetries THEN {}
               ELSE Planned(full, retryAfter, backoff, mine.slept)
  IN
  /\ place = "send"
  /\ \/ /\ waits # {}
        /\ delay' \in waits /\ place' = "wait" /\ capacity' = (capacity \/ full)
        /\ UNCHANGED <<asking, progress, attempt, deferred, oversized, textShown, received,
                       outcome, callsMade, stream, shown, unmarked>>
     \/ waits = {} /\ RequestFailsFor("fatal")

\* RetryProgress::wait, then the loop again.
WaitEnds ==
  /\ place = "wait"
  /\ place' = "send"
  /\ progress' = [progress EXCEPT ![asking].slept = @ + delay, ![asking].attempts = @ + 1]
  /\ delay' = 0
  /\ UNCHANGED <<asking, attempt, deferred, oversized, textShown, received, outcome, callsMade,
                 stream, shown, unmarked, capacity>>

\* An error that is not retried here, or the first-token deadline of a stream; it does not
\* run while the request waits to be sent again.
RequestRefused ==
  /\ place = "send"
  /\ \/ \E failure \in {"too_large", "fatal"} : RequestFailsFor(failure)
     \/ asking = "stream" /\ StreamFails("broken")

-----------------------------------------------------------------------------
(* consume_stream *)

StreamOpens ==
  /\ place = "send" /\ asking = "stream"
  /\ place' = "read"
  /\ UNCHANGED <<asking, progress, delay, attempt, deferred, oversized, textShown, received,
                 outcome, callsMade, stream, shown, unmarked, capacity>>

\* An event: text, a call's beginning or its end, the message's stop.
StreamBrings(event) ==
  /\ place = "read" /\ "stop" \notin received
  /\ event \notin received /\ (event = "call" => "open" \in received)
  /\ received' = (IF event = "call" THEN received \ {"open"} ELSE received) \cup {event}
  /\ textShown' = (textShown \/ event = "text")
  /\ shown' = IF event = "text" THEN shown \cup {stream} ELSE shown
  /\ UNCHANGED <<place, asking, progress, delay, attempt, deferred, oversized, outcome,
                 callsMade, stream, unmarked, capacity>>

\* The stream breaks off, goes silent or carries an error.
StreamBreaks ==
  /\ place = "read"
  /\ \E failure \in {"broken", "too_large", "fatal"} : StreamFails(failure)

\* The stream ends: with a reply, cut at the output limit or not; in the middle of calls;
\* or with nothing, and the reply is asked for in one piece, with retries of its own.
Complete(cut) ==
  IF "open" \in received THEN cut ELSE "stop" \in received \/ "text" \in received

CutAmongCalls(cut) ==
  \/ "open" \in received /\ ~cut
  \/ "call" \in received /\ {"open", "stop"} \cap received = {}

StreamEnds(cut) ==
  /\ place = "read"
  /\ \/ /\ ~CutAmongCalls(cut) /\ Complete(cut)
        /\ UNCHANGED deferred /\ Return("replied")
        /\ UNCHANGED <<asking, progress, delay, attempt, textShown, received, callsMade,
                       stream, shown, unmarked, capacity>>
     \/ CutAmongCalls(cut) /\ StreamFails("broken")
     \/ /\ ~CutAmongCalls(cut) /\ ~Complete(cut)
        /\ place' = "send" /\ asking' = "whole"
        /\ progress' = [progress EXCEPT !.whole = [FreshProgress EXCEPT !.attempts = 1]]
        /\ UNCHANGED <<delay, attempt, deferred, oversized, textShown, received, outcome,
                       callsMade, stream, shown, unmarked, capacity>>

\* The fallback's reply, shown as it is.
WholeReply ==
  /\ place = "send" /\ asking = "whole"
  /\ shown' = shown \cup {stream}
  /\ UNCHANGED deferred /\ Return("replied")
  /\ UNCHANGED <<asking, progress, delay, attempt, textShown, received, callsMade, stream,
                 unmarked, capacity>>

\* An interrupt drops the call wherever it waits; what streamed so far is the turn's.
InterruptModelCall ==
  /\ place \in {"connect", "send", "wait", "read", "pause"}
  /\ UNCHANGED deferred
  /\ Return(IF place = "read" /\ "text" \in received THEN "partial" ELSE "cancelled")
  /\ UNCHANGED <<asking, progress, delay, attempt, textShown, received, callsMade, stream,
                 shown, unmarked, capacity>>

\* The turn made its calls.
CallsMade == place = "idle" /\ callsMade = ModelCalls /\ UNCHANGED callVars

Refusals == BOOLEAN \X (RetryAfters \cup {NoRetryAfter}) \X Backoffs

CallStep ==
  \/ PauseEnds \/ Connect \/ PreflightRefuses \/ WaitEnds \/ RequestRefused
  \/ \E refusal \in Refusals : Refused(refusal[1], refusal[2], refusal[3])
  \/ StreamOpens \/ \E event \in {"text", "open", "call", "stop"} : StreamBrings(event)
  \/ StreamBreaks \/ \E cut \in BOOLEAN : StreamEnds(cut)
  \/ WholeReply

CallNext == BeginModelCall \/ CallStep \/ InterruptModelCall \/ CallsMade

CallSpec == CallInit /\ [][CallNext]_callVars

\* The client polls the call; its deadlines end a request or a stream that is silent, and no
\* stream goes on for ever.
CallFairSpec == CallSpec /\ WF_callVars(CallStep)

-----------------------------------------------------------------------------
(* Properties *)

CallTypeOK ==
  /\ place \in {"idle", "connect", "send", "wait", "pause", "read"}
  /\ asking \in {"stream", "whole"} /\ delay \in Nat /\ attempt \in 1..MaxStreamAttempts
  /\ progress \in [{"stream", "whole"} -> [attempts : Nat, slept : Nat]]
  /\ deferred \in {"none", "sent", "dropped"} /\ oversized \in BOOLEAN
  /\ textShown \in BOOLEAN /\ received \subseteq {"text", "open", "call", "stop"}
  /\ outcome \in {"none", "replied", "partial", "cancelled", "failed"}
  /\ callsMade \in 0..ModelCalls /\ stream \in Nat /\ shown \subseteq 1..stream
  /\ unmarked \in BOOLEAN /\ capacity \in BOOLEAN

\* "Requests and waits already recorded in progress count against the same limits": however
\* a call's streams fail, its requests together are sent again at most max_retries times,
\* and once more without the deferred tools, and all its waits fit one budget, the larger
\* one only once capacity was lacking. The fallback keeps to the limits on its own.
RetriesStayInTheirLimits ==
  /\ \A which \in {"stream", "whole"} : progress[which].slept <= Budget(capacity)
  /\ progress.stream.attempts <= MaxRetries + 1 + (IF deferred = "dropped" THEN 1 ELSE 0)
  /\ progress.whole.attempts <= MaxRetries + 1

\* When a call returns without an error, what the user sees unmarked is what the turn keeps: the text of the
\* one reply, of the part of it an interrupt left, or none; never a discarded attempt's
\* before it. Only text shown before the provider called the request too large stays.
OneReplyShown ==
  place = "idle" /\ ~unmarked =>
    /\ outcome = "replied" => shown \subseteq {stream}
    /\ outcome = "partial" => shown = {stream}
    /\ outcome = "cancelled" => shown = {}

\* A call returns by itself, whatever the provider refuses, delays or breaks off.
ModelCallEnds == place # "idle" ~> place = "idle"
==========================================================================
