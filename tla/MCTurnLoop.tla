--------------------------- MODULE MCTurnLoop ---------------------------
(* TurnLoop with responses of no call, two calls, and two calls a provider    *)
(* gave the same id.                                                         *)
EXTENDS TurnLoop

MCCallIds == {"a", "b"}
MCSignatures == {"s", "t"}
Call(id, sig) == [id |-> id, sig |-> sig]
MCCallLists ==
  {<<>>, <<Call("a", "s"), Call("b", "t")>>, <<Call("a", "s"), Call("a", "s")>>}
=========================================================================
