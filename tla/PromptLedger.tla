------------------------- MODULE PromptLedger -------------------------
(* What the engine promises of every Submit, whatever its threads do: prompts *)
(* run one at a time, in the order they were sent, each ends once, and a text *)
(* is taken as an answer only while a turn that could have asked runs.        *)
EXTENDS Integers

CONSTANT Prompts   \* the prompts, numbered in the order they are sent

VARIABLE fate      \* what became of each

State(f) == {p \in Prompts : fate[p] = f}

NextToSend(p) == \A q \in Prompts : fate[q] = "unsent" => p <= q
OldestQueued(p) == \A q \in State("queued") : p <= q
Becomes(p, f) == fate' = [fate EXCEPT ![p] = f]

Init == fate = [p \in Prompts |-> "unsent"]

Accept(p) == fate[p] = "unsent" /\ NextToSend(p) /\ Becomes(p, "queued")
AcceptAsAnswer(p) ==
  /\ fate[p] = "unsent" /\ NextToSend(p)
  /\ State("running") # {}
  /\ Becomes(p, "answering")

Idle == State("running") = {} /\ State("ended") = {}
Start(p) == fate[p] = "queued" /\ OldestQueued(p) /\ Idle /\ Becomes(p, "running")
Refuse(p) == fate[p] = "queued" /\ OldestQueued(p) /\ Idle /\ Becomes(p, "ended")
End(p) == fate[p] = "running" /\ Becomes(p, "ended")
Finish(p) == fate[p] = "ended" /\ Becomes(p, "finished")

Settle(p) == fate[p] = "answering" /\ \E f \in {"answered", "lost"} : Becomes(p, f)

Next == \E p \in Prompts :
  \/ Accept(p) \/ AcceptAsAnswer(p)
  \/ Start(p) \/ Refuse(p) \/ End(p) \/ Finish(p) \/ Settle(p)

Spec == Init /\ [][Next]_fate
=======================================================================
