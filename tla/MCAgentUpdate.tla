---------------------------- MODULE MCAgentUpdate ----------------------------
(***************************************************************************)
(* The two halves of an update of the agent, side by side: the connection  *)
(* drains the agent's activity until the updater may be launched           *)
(* (ActivityDrain), and the updater replaces the executable and settles it *)
(* (AgentUpdate).  One of them moves, the other one has not begun.         *)
(***************************************************************************)
EXTENDS AgentUpdate

CONSTANTS
  Works, Streams,  \* of ActivityDrain
  w1, w2, s1, u1

ASSUME WorksAssumption == IsFiniteSet(Works) /\ Streams \subseteq Works

MCWorkers == {u1}
MCWorks   == {w1, w2, s1}
MCStreams == {s1}

VARIABLES
  part,  \* which of the two moves
  draining, active, notified, changed, work, closing, drainTask, aborted, owned, loop

D == INSTANCE ActivityDrain WITH task <- drainTask
drainVars == <<draining, active, notified, changed, work, closing, drainTask, aborted, owned, loop>>

Begun == part \in {"drain", "replace"} /\ D!Init /\ Init
Moves ==
  /\ UNCHANGED part
  /\ \/ part = "drain" /\ D!Next /\ UNCHANGED vars
     \/ part = "replace" /\ Next /\ UNCHANGED drainVars
\* Fairness of the two modules, each for its own half.
Drains(A) == part = "drain" /\ A
Replaces(A) == part = "replace" /\ A
Fair ==
  /\ \A w \in Works : WF_drainVars(Drains(D!WorkStep(w)))
  /\ \A w \in Works : WF_drainVars(Drains((w \in Streams => w \in closing) /\ D!End(w)))
  /\ WF_drainVars(Drains(D!TaskStep)) /\ WF_drainVars(Drains(D!LoopStep))
  /\ \A w \in Workers : WF_vars(Replaces(Applies(w)))
  /\ WF_vars(Replaces(Runs)) /\ WF_vars(Replaces(Prepares))
UpdateSpec == Begun /\ [][Moves]_<<part, vars, drainVars>> /\ Fair

\* The tracker, the update task and the message loop are one atomic gate.
ImplementsGate == D!ImplementsGate
\* An update that waits for idle is woken.
WaitEnds == D!WaitEnds
=============================================================================
