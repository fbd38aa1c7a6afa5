---------------------------- MODULE AgentSessions ----------------------------
(***************************************************************************)
(* The web terminals, the Docker operations, the Docker streams and the    *)
(* remote desktop of one instance on the connection they share: the        *)
(* connection is registered, lost, swept and revoked for all of them at    *)
(* once (backend, ws.rs), and the agent drops all of them when it leaves   *)
(* (instanceEnd/src/ws.rs).                                                *)
(***************************************************************************)
EXTENDS AgentLink

CONSTANTS
  Terms, Asks, MaxSessions, EventRoom, MaxInputs, MaxOutputs,
  Requests, MaxPending, MaxTasks,
  Logs, Execs, MaxStreams, Buffer, MaxChunks,
  StreamRoom,
  Desks

ASSUME SessionsAssumption ==
  /\ \A things \in {Terms, Asks, Requests, Logs, Execs, Desks} : IsFiniteSet(things)
  /\ Logs \cap Execs = {}
  /\ {MaxSessions, EventRoom, MaxPending, MaxTasks, MaxStreams, Buffer, StreamRoom} \subseteq Nat \ {0}
  /\ {MaxInputs, MaxOutputs, MaxChunks} \subseteq Nat

VARIABLES
  tab, sessions, events, tabAudit, tabDown, tabUp, tabStream, terminals, shell, outputs,
  ask, asked,
  call, cleanup, pending, permits, callAudit, finish, told, orders, answers, task,
  view, table, chunks, final, viewAudit, viewOrders, feed, job, jobs, sent, astray,
  visit, desks, ending, record, attention, channel, joined, toAgent, fromAgent,
  managed, signalled, relay

T == INSTANCE Terminals WITH
       audit <- tabAudit, down <- tabDown, up <- tabUp, stream <- tabStream,
       manager <- terminals
R == INSTANCE DockerRequests WITH audit <- callAudit
S == INSTANCE DockerStreams WITH audit <- viewAudit, orders <- viewOrders
D == INSTANCE DesktopSessions

tabVars  == <<tab, sessions, events, tabAudit, tabDown, tabUp, tabStream, terminals, shell,
              outputs, ask, asked>>
callVars == <<call, cleanup, pending, permits, callAudit, finish, told, orders, answers, task>>
viewVars == <<view, table, chunks, final, viewAudit, viewOrders, feed, job, jobs, sent, astray>>
deskVars == <<visit, desks, ending, record, attention, channel, joined, toAgent, fromAgent,
              managed, signalled, relay>>
vars == <<net, tabVars, callVars, viewVars, deskVars>>

Init == Offline /\ T!Start /\ R!Start /\ S!Start /\ D!Start

\* What happens to the connection happens to all parts.
Connect(c) == T!Connect(c) /\ R!Connect(c) /\ S!Connect(c) /\ D!Connect(c)
Lose(c)    == T!Lose(c) /\ R!Lose(c) /\ S!Lose(c) /\ D!Lose(c)
Sweep(c)   == T!Sweep(c) /\ R!Sweep(c) /\ S!Sweep(c) /\ D!Sweep(c)
Vanish(c)  == T!Vanish(c) /\ R!Vanish(c) /\ S!Vanish(c) /\ D!Vanish(c)
Disconnect == T!Disconnect /\ R!Disconnect /\ S!Disconnect /\ D!Disconnect
Revoke     == T!Revoke /\ R!Revoke /\ S!Revoke /\ D!Revoke
Cut        == T!Cut /\ R!Cut /\ S!Cut /\ D!Cut
Admit      == T!Admit /\ R!Admit /\ S!Admit /\ D!Admit

Next ==
  \/ \E c \in Conns : Connect(c) \/ Lose(c) \/ Sweep(c) \/ Vanish(c)
  \/ Disconnect \/ Revoke \/ Cut \/ Admit
  \/ T!Step /\ UNCHANGED <<callVars, viewVars, deskVars>>
  \/ R!Step /\ UNCHANGED <<tabVars, viewVars, deskVars>>
  \/ S!Step /\ UNCHANGED <<tabVars, callVars, deskVars>>
  \/ D!Step /\ UNCHANGED <<tabVars, callVars, viewVars>>

\* Both ends notice a connection that the other one left, and the parts go on.
Due ==
  \/ \E c \in Conns : (on # c /\ Lose(c)) \/ Sweep(c) \/ Vanish(c)
  \/ on # 0 /\ (broken \/ link[on] # "up") /\ Disconnect
  \/ UNCHANGED <<callVars, viewVars, deskVars>> /\ T!Due
  \/ UNCHANGED <<tabVars, viewVars, deskVars>> /\ R!Due
  \/ UNCHANGED <<tabVars, callVars, deskVars>> /\ S!Due
  \/ UNCHANGED <<tabVars, callVars, viewVars>> /\ D!Due
Fairness == WF_vars(Due)

Spec == Init /\ [][Next]_vars
FairSpec == Spec /\ Fairness

-----------------------------------------------------------------------------
(* Properties *)

\* Each tab is told its own end last and shells are terminated for their own
\* reasons only; the limits hold; no operation or log is left in the table of a
\* connection that was swept, with a record that fits what was told of it; and
\* there is one helper of the remote desktop at most.
SessionsAreSound ==
  /\ T!TypeOK /\ T!SessionsBounded /\ T!EndIsLast /\ T!TabsAreApart
  /\ R!TypeOK /\ R!SweptIsEmpty /\ R!RecordAgrees /\ R!PermitsHeld
  /\ S!TypeOK /\ S!SweptIsEmpty /\ S!EndIsKnown
  /\ D!TypeOK /\ D!OneHelper /\ D!RecordsAgree

\* Whatever ends first, the browser, the agent or the connection: nothing is left
\* behind in the end.  A remote desktop may go on, but not in part.
SessionsSettle ==
  <>[](/\ \A t \in Terms : T!TabOver(t)
       /\ \A a \in Asks : T!AskOver(a)
       /\ \A r \in Requests : R!RequestOver(r)
       /\ \A s \in S!Streams : S!StreamOver(s)
       /\ \A d \in Desks : D!DeskSettled(d))
=============================================================================
