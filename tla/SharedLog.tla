---------------------------- MODULE SharedLog ----------------------------
(* What the remote protocol gives a client: the session has one history, only *)
(* ever added to; a client that follows it shows the session as it stood at one *)
(* point of that history, and moves forward through it one step at a time.      *)
EXTENDS Integers, Sequences

CONSTANT States        \* what a session can look like

VARIABLES
  log,                 \* the session's states, the first being the initial one
  at,                  \* where in it the client is; 0 while it does not follow
  shown                \* what the client shows

vars == <<log, at, shown>>

Init == log \in [{1} -> States] /\ at = 0 /\ shown \in States

Add(state) == UNCHANGED <<at, shown>> /\ log' = Append(log, state)

Show(place) == at' = place /\ shown' = log[place] /\ UNCHANGED log
Advance == at > 0 /\ at < Len(log) /\ Show(at + 1)
Attach(place) == at = 0 /\ Show(place)
Leave(state) == at' = 0 /\ UNCHANGED log /\ shown' = state

Next ==
  \/ Advance
  \/ \E place \in DOMAIN log : Attach(place)
  \/ \E state \in States : Leave(state)
  \/ \E state \in States : Add(state)

Spec == Init /\ [][Next]_vars
==========================================================================
