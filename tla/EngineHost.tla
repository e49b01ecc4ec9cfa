---------------------------- MODULE EngineHost ----------------------------
(* The host that serves one engine to several clients (ui/neuron-client/src/node/ *)
(* host.ts), with the session state all of them share (session.ts), the engine's   *)
(* transport (stdio-transport.ts) and a client's side of the connection (remote.ts *)
(* and controller.ts). Engines crash, are replaced on request, and their events lie *)
(* in a pipe; clients leave and come back, and what they send may be as old as what *)
(* they were shown. Of the session only the connection, whether it is busy and the  *)
(* waiting approvals are kept; questions, sign-in, terminals and files are left out. *)
EXTENDS Integers, Sequences, FiniteSets

CONSTANTS
  HostDisruptions, \* bound: engines replaced (engine.restart), engines that stop by
                  \* themselves and connections lost, together
  HostSubmits,    \* bound: prompts and slash commands sent
  HostRequests,   \* bound: approvals one engine asks for
  HostAnswers     \* bound: answers that reach the host

ASSUME HostBoundsAssumption ==
  /\ HostDisruptions \in Nat /\ HostSubmits \in Nat
  /\ HostRequests \in Nat /\ HostAnswers \in Nat

Engines == 0..HostDisruptions
HostRequestIds == 1..HostRequests

VARIABLES
  engines,      \* each engine: its phase, its work and what it asked; out is the
                \* events it wrote that its listeners did not get yet
  transport,    \* NeuronHost::transport
  attached,     \* the engines the host listens to (unsubscribers)
  restarting,   \* the restartEngine calls waiting for the old engine to close
  session,      \* NeuronHost::state
  seq,          \* NeuronHost::seq
  joined,       \* whether the client's connection is open and welcomed
  downlink,     \* frames on their way to it
  lastSeq,      \* WebSocketTransport::lastSeq
  view,         \* the client's SessionController::state
  log,          \* history: the session at each seq
  overlapped,   \* history: a restart began while another was under way
  created, submits, answers, restarts, disruptions

clientVars == <<joined, downlink, lastSeq, view>>
hostVars == <<transport, attached, restarting, session, seq>>
hostBounds == <<created, submits, answers, restarts, disruptions>>
hostAllVars == <<engines, hostVars, clientVars, log, overlapped, hostBounds>>

Sessions == [connection : {"connecting", "ready", "exited"}, busy : BOOLEAN,
             permissions : SUBSET HostRequestIds]
InitialSession == [connection |-> "connecting", busy |-> FALSE, permissions |-> {}]

Action(type) == [type |-> type, id |-> 0]
About(type, id) == [type |-> type, id |-> id]

NewEngine(resumed) == [phase |-> "starting", resumed |-> resumed, work |-> 0,
                       asked |-> 0, pending |-> 0, out |-> <<>>]
NoEngine == [NewEngine(FALSE) EXCEPT !.phase = "absent"]

-----------------------------------------------------------------------------
(* reduceSession *)

\* What ends the turn or command the session is busy with: neither a new engine nor its
\* ready does.
EndsTurn_OnlyFinished(action) == action.type = "finished"
EndsTurn(action) == action.type \in {"finished", "disconnected"}

Reduce(s, action) ==
  [connection |-> CASE action.type = "connecting" -> "connecting"
                    [] action.type = "ready" -> "ready"
                    [] action.type = "disconnected" -> "exited"
                    [] OTHER -> s.connection,
   busy |-> (s.busy \/ action.type = "submitted") /\ ~EndsTurn(action),
   permissions |-> CASE action.type = "requested" -> s.permissions \cup {action.id}
                     [] action.type = "answered" -> s.permissions \ {action.id}
                     [] EndsTurn(action) \/ action.type = "transcript" -> {}
                     [] OTHER -> s.permissions]

\* record: reduce, count, and tell every client that is connected.
FrameSeq_Before == seq
FrameSeq == seq + 1

Record(action) ==
  /\ session' = Reduce(session, action)
  /\ seq' = seq + 1
  /\ log' = Append(log, session')
  /\ downlink' = IF joined
       THEN Append(downlink, [t |-> "action", seq |-> FrameSeq, action |-> action])
       ELSE downlink
NoRecord == UNCHANGED <<session, seq, log, downlink>>

\* start: listen, record and start the first engine.
HostInit ==
  /\ engines = [e \in Engines |-> IF e = 0 THEN NewEngine(FALSE) ELSE NoEngine]
  /\ transport = 0 /\ attached = {0} /\ restarting = {}
  /\ session = InitialSession /\ seq = 0
  /\ joined = FALSE /\ downlink = <<>> /\ lastSeq = -1 /\ view = InitialSession
  /\ log = <<InitialSession>> /\ overlapped = FALSE
  /\ created = 0 /\ submits = 0 /\ answers = 0 /\ restarts = 0 /\ disruptions = 0

-----------------------------------------------------------------------------
(* Engines, as far as the host can tell *)

Disrupt == disruptions < HostDisruptions /\ disruptions' = disruptions + 1

\* Events nobody listens to are gone.
Emit(e, record, events) ==
  engines' = [engines EXCEPT ![e] =
    [record EXCEPT !.out = IF e \in attached THEN @ \o events ELSE <<>>]]

EngineUnchanged == UNCHANGED <<hostVars, clientVars, log, overlapped, created,
                               submits, answers, restarts>>

\* The engine announces itself, then the chat it continues.
EngineReady(e) ==
  /\ engines[e].phase = "starting"
  /\ Emit(e, [engines[e] EXCEPT !.phase = "running"],
          IF engines[e].resumed THEN <<Action("ready"), Action("transcript")>>
                                ELSE <<Action("ready")>>)
  /\ UNCHANGED disruptions /\ EngineUnchanged

EngineAsks(e) ==
  LET engine == engines[e] IN
  /\ engine.phase = "running" /\ engine.work > 0 /\ engine.pending = 0
  /\ engine.asked < HostRequests
  /\ Emit(e, [engine EXCEPT !.asked = @ + 1, !.pending = engine.asked + 1],
          <<About("requested", engine.asked + 1)>>)
  /\ UNCHANGED disruptions /\ EngineUnchanged

\* A turn ends, also one that waited for an approval (an interrupt, the shutdown).
EngineFinishes(e) ==
  /\ engines[e].phase \in {"running", "closing"} /\ engines[e].work > 0
  /\ Emit(e, [engines[e] EXCEPT !.work = @ - 1, !.pending = 0], <<Action("finished")>>)
  /\ UNCHANGED disruptions /\ EngineUnchanged

\* The process is gone; its transport tells so after the events before it.
EngineExits(e) ==
  /\ engines[e].phase \in {"starting", "running", "closing"}
  /\ IF engines[e].phase = "closing" THEN UNCHANGED disruptions ELSE Disrupt
  /\ Emit(e, [engines[e] EXCEPT !.phase = "exited", !.work = 0, !.pending = 0],
          <<Action("disconnected")>>)
  /\ EngineUnchanged

-----------------------------------------------------------------------------
(* The host *)

\* A listener gets an engine's next event.
HostHears(e) ==
  /\ e \in attached /\ engines[e].out # <<>>
  /\ Record(Head(engines[e].out))
  /\ engines' = [engines EXCEPT ![e].out = Tail(@)]
  /\ UNCHANGED <<transport, attached, restarting, joined, lastSeq, view, overlapped,
                 hostBounds>>

\* forward: a submit or a slash command, refused unless the session is ready. An engine
\* that stopped reading loses it, or its pipe refuses it before it is recorded.
HostForwards ==
  /\ submits < HostSubmits /\ submits' = submits + 1
  /\ \/ /\ session.connection = "ready"
        /\ engines' = IF engines[transport].phase = "running"
                      THEN [engines EXCEPT ![transport].work = @ + 1] ELSE engines
        /\ Record(Action("submitted"))
     \/ /\ session.connection # "ready" \/ engines[transport].phase # "running"
        /\ NoRecord /\ UNCHANGED engines
  /\ UNCHANGED <<transport, attached, restarting, joined, lastSeq, view, overlapped,
                 created, answers, restarts, disruptions>>

\* The answers that may be on their way: a client was shown that request.
Shown == {card \in Engines \X HostRequestIds : card[2] <= engines[card[1]].asked}

\* forward: the first answer wins; later ones (another client's) are dropped.
StillWaits(id) == id \in session.permissions

HostForwardsAnswer(card) ==
  /\ answers < HostAnswers /\ answers' = answers + 1
  /\ card \in Shown
  /\ \/ /\ session.connection = "ready" /\ StillWaits(card[2])
        /\ engines' = [engines EXCEPT ![transport].pending =
                         IF @ = card[2] THEN 0 ELSE @]
        /\ Record(About("answered", card[2]))
     \/ /\ ~(session.connection = "ready" /\ StillWaits(card[2]))
        /\ NoRecord /\ UNCHANGED engines
  /\ UNCHANGED <<transport, attached, restarting, joined, lastSeq, view, overlapped, created,
                 submits, restarts, disruptions>>

\* restartEngine, to its first await: nothing of the old engine is heard any more.
StopListening_Never == UNCHANGED attached
StopListening == attached' = {}

HostRestart(resumed) ==
  /\ Disrupt /\ restarts' = restarts + 1
  /\ StopListening
  /\ engines' = [e \in Engines |->
       [engines[e] EXCEPT
          !.out = IF e \in attached' THEN @ ELSE <<>>,
          !.phase = IF e = transport /\ @ \in {"starting", "running"} THEN "closing" ELSE @]]
  /\ restarting' = restarting \cup {[old |-> transport, resumed |-> resumed, n |-> restarts]}
  /\ overlapped' = (overlapped \/ restarting # {})
  /\ UNCHANGED <<transport, session, seq, clientVars, log, created, submits, answers>>

\* restartEngine, once the old engine has closed: a new one is made and followed.
HostReplaces ==
  \E restart \in restarting :
    /\ engines[restart.old].phase = "exited"
    /\ restarting' = restarting \ {restart}
    /\ created' = created + 1
    /\ transport' = created + 1
    /\ attached' = attached \cup {created + 1}
    /\ engines' = [engines EXCEPT ![created + 1] = NewEngine(restart.resumed)]
    /\ Record(Action("connecting"))
    /\ UNCHANGED <<joined, lastSeq, view, overlapped, submits, answers, restarts,
                   disruptions>>

-----------------------------------------------------------------------------
(* A client's connection *)

\* hello: the client is welcomed and sent the session as it stands.
HostWelcomes ==
  /\ ~joined
  /\ joined' = TRUE
  /\ downlink' = <<[t |-> "snapshot", seq |-> seq, state |-> session]>>
  /\ UNCHANGED <<engines, hostVars, lastSeq, view, log, overlapped, hostBounds>>

\* onmessage: a snapshot replaces the state; an action seen before is dropped.
IsNew(frame) == frame.seq > lastSeq

ClientReceives ==
  /\ joined /\ downlink # <<>>
  /\ LET frame == Head(downlink) IN
     \/ /\ frame.t = "snapshot"
        /\ view' = frame.state /\ lastSeq' = frame.seq
     \/ /\ frame.t = "action" /\ IsNew(frame)
        /\ view' = Reduce(view, frame.action) /\ lastSeq' = frame.seq
     \/ /\ frame.t = "action" /\ ~IsNew(frame)
        /\ UNCHANGED <<view, lastSeq>>
  /\ downlink' = Tail(downlink)
  /\ UNCHANGED <<engines, hostVars, joined, log, overlapped, hostBounds>>

\* The connection is lost, with the frames on it; the client shows that it is alone.
ClientLeaves ==
  /\ joined /\ Disrupt
  /\ joined' = FALSE /\ downlink' = <<>>
  /\ view' = Reduce(view, Action("disconnected"))
  /\ UNCHANGED <<engines, hostVars, lastSeq, log, overlapped, created, submits,
                 answers, restarts>>

\* Nothing has to happen any more.
HostRests ==
  /\ restarting = {} /\ downlink = <<>>
  /\ \A e \in attached : engines[e].phase # "starting" /\ engines[e].out = <<>>
  /\ UNCHANGED hostAllVars

HostNext ==
  \/ \E e \in Engines :
       EngineReady(e) \/ EngineAsks(e) \/ EngineFinishes(e) \/ EngineExits(e) \/ HostHears(e)
  \/ HostForwards \/ \E card \in Engines \X HostRequestIds : HostForwardsAnswer(card)
  \/ \E resumed \in BOOLEAN : HostRestart(resumed)
  \/ HostReplaces \/ HostWelcomes \/ ClientReceives \/ ClientLeaves
  \/ HostRests

HostSpec == HostInit /\ [][HostNext]_hostAllVars

-----------------------------------------------------------------------------
(* Properties *)

Phases == {"absent", "starting", "running", "closing", "exited"}
ActionTypes == {"connecting", "disconnected", "submitted", "answered", "ready", "transcript",
                "requested", "finished"}
Actions == [type : ActionTypes, id : HostRequestIds \cup {0}]

HostTypeOK ==
  /\ DOMAIN engines = Engines
  /\ \A e \in Engines :
       /\ engines[e].phase \in Phases /\ engines[e].resumed \in BOOLEAN
       /\ engines[e].work \in 0..HostSubmits
       /\ engines[e].asked \in 0..HostRequests /\ engines[e].pending \in 0..engines[e].asked
       /\ engines[e].out \in Seq(Actions)
       /\ (engines[e].phase = "absent") = (e > created)
  /\ transport = created /\ attached \subseteq 0..created
  /\ restarting \subseteq [old : Engines, resumed : BOOLEAN, n : Nat]
  /\ session \in Sessions /\ view \in Sessions
  /\ seq = Len(log) - 1 /\ lastSeq \in -1..seq /\ joined \in BOOLEAN
  /\ overlapped \in BOOLEAN
  /\ created <= restarts /\ restarts <= disruptions /\ disruptions \in 0..HostDisruptions
  /\ submits \in 0..HostSubmits /\ answers \in 0..HostAnswers

\* A client that has its snapshot shows the session exactly as it stood at the last seq it
\* got, missing and repeating nothing, also when it connects in the middle of a turn.
Following == joined /\ \A i \in DOMAIN downlink : downlink[i].t # "snapshot"
Shared == INSTANCE SharedLog WITH
  States <- Sessions,
  log <- log, at <- IF Following THEN lastSeq + 1 ELSE 0, shown <- view
SharedLogSpec == Shared!Spec

\* busy: "The current turn (or slash command) has not finished" (session.ts). Some engine
\* the host listens to still has work, or the event that clears it is on its way.
BusyHasATurn ==
  session.busy =>
    \E e \in attached :
      \/ engines[e].work > 0
      \/ \E i \in DOMAIN engines[e].out :
           engines[e].out[i].type \in {"finished", "disconnected"}

\* The same until the engine is replaced: a restart stops listening to the engine whose
\* turn_finished would have cleared it, and nothing else does.
BusyUntilARestart == restarts = 0 => BusyHasATurn

\* Once a restart is over and the events have arrived, the host listens to one engine, the
\* one it sends to, and the session says of it what is true, whatever the old engine did
\* while it closed. Two restarts that overlap leave the first one's engine behind.
HostKnowsItsEngine ==
  restarting = {} /\ ~overlapped =>
    /\ attached = {transport}
    /\ engines[transport].out = <<>> =>
         session.connection = (CASE engines[transport].phase = "starting" -> "connecting"
                                 [] engines[transport].phase = "running" -> "ready"
                                 [] engines[transport].phase = "exited" -> "exited")
===========================================================================
