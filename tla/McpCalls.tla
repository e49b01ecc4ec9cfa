---------------------------- MODULE McpCalls ----------------------------
(* What a caller of MCP tools may rely on, whatever the server does: a call  *)
(* is asked of the server at most once, calls do not overlap, and a result   *)
(* handed to the caller is the one the server gave to that very call.        *)
EXTENDS Integers, Sequences

CONSTANT Calls     \* the calls, numbered in the order they are made

VARIABLES
  current,         \* the call under way, 0 when there is none
  sent,            \* the calls written to a server, in order
  replied,         \* the calls a server answered
  results          \* what became of each finished call

vars == <<current, sent, replied, results>>

Outcomes == {"result", "failed", "interrupted"}
Finished == DOMAIN results
SentCalls == {sent[i] : i \in 1..Len(sent)}

Init == current = 0 /\ sent = <<>> /\ replied = {} /\ results = <<>>

Begin(call) ==
  /\ current = 0 /\ call \notin Finished
  /\ current' = call
  /\ UNCHANGED <<sent, replied, results>>

Send ==
  /\ current # 0 /\ current \notin SentCalls
  /\ sent' = Append(sent, current)
  /\ UNCHANGED <<current, replied, results>>

\* A server may answer long after its caller gave up.
Reply(call) ==
  /\ call \in SentCalls
  /\ replied' = replied \cup {call}
  /\ UNCHANGED <<current, sent, results>>

Finish(outcome) ==
  /\ current # 0
  /\ outcome = "result" => current \in replied
  /\ results' = [c \in Finished \cup {current} |->
                   IF c = current THEN outcome ELSE results[c]]
  /\ current' = 0
  /\ UNCHANGED <<sent, replied>>

Next ==
  \/ Send
  \/ \E call \in Calls : Begin(call) \/ Reply(call)
  \/ \E outcome \in Outcomes : Finish(outcome)

Spec == Init /\ [][Next]_vars
=========================================================================
