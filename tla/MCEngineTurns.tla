--------------------------- MODULE MCEngineTurns ---------------------------
(* EngineTurns with short turns, and in the same run TurnLoop alone with longer ones: each *)
(* behaviour is one of the two.                                                            *)
EXTENDS EngineTurns

VARIABLE part      \* "composed", or the loop alone

MCSignatures == {"s", "t"}
Call(id, sig) == [id |-> id, sig |-> sig]
OneCallOrNone == {<<>>, <<Call("a", "s")>>}

\* Responses of no call, and of two calls, which the loop guard never stops.
ASSUME LongerAssumption == {"a", "b"} \subseteq CallIds /\ MCSignatures \subseteq Signatures
Longer == INSTANCE TurnLoop WITH
  pc <- loopPc, cancelled <- loopCancelled,
  CallLists <- {<<>>, <<Call("a", "s"), Call("b", "t")>>},
  MaxIterations <- 4, MaxFailures <- 0

bothVars == <<part, turnsVars>>
BothInit == part \in {"composed", "loop"} /\ TurnsInit
Composed == part = "composed" /\ UNCHANGED part
Alone == part = "loop" /\ UNCHANGED <<part, vars, ranFor, asking>>

BothNext ==
  \/ Composed /\ TurnsNext
  \/ Alone /\ Longer!Next

\* The fairness of EngineTurns, and of TurnLoop.
BothSpec ==
  /\ BothInit /\ [][BothNext]_bothVars
  /\ WF_bothVars((Composed /\ EngineRuns) \/ (Alone /\ Longer!Turn))
  /\ WF_bothVars(Composed /\ CommandThread /\ LoopAlone)
  /\ \A p \in Prompts : WF_bothVars(Composed /\ Monitor(p) /\ LoopAlone)

\* The runtime speaks for the user at most three times in a turn (TurnLoop's
\* FewAutomaticPrompts).
LoopPromptsRarely == Longer!FewAutomaticPrompts
=============================================================================
