------------------------------ MODULE Terminals ------------------------------
(***************************************************************************)
(* Web terminals: the handler of a browser's terminal tab and the messages *)
(* of the agent about it (backend, ws.rs), and the agent's TerminalManager *)
(* and its worker threads (terminal.rs).  Also the request for the list of *)
(* shells, which goes the same way.                                        *)
(*                                                                         *)
(* The tabs are those of one instance.  What is typed and shown is left    *)
(* out: an input is accepted or fails its session, an output is an event   *)
(* that takes room in the queues.                                          *)
(***************************************************************************)
EXTENDS AgentLink

CONSTANTS
  Terms,        \* terminal tabs
  Asks,         \* requests for the list of shells
  MaxSessions,  \* MAX_TERMINAL_SESSIONS_PER_INSTANCE, MAX_TERMINAL_SESSIONS
  EventRoom,    \* TERMINAL_EVENT_QUEUE_CAPACITY
  StreamRoom,   \* capacity of the agent's terminal stream queue
  MaxInputs,    \* inputs of a tab
  MaxOutputs    \* outputs of a shell

VARIABLES
  tab,       \* the handler of each tab
  sessions,  \* terminal_sessions
  events,    \* the event queue of each tab
  audit,     \* the audit event of each tab
  down,      \* messages on their way to the agent
  up,        \* messages of the agent's control queue
  stream,    \* messages of the agent's terminal stream queue
  manager,   \* TerminalManager.sessions of the agent's connection
  shell,     \* the worker thread of each tab
  outputs,   \* counts the outputs of each shell, for the bound
  ask,       \* the handler of each request for the shells
  asked      \* terminal_shell_requests

server == <<tab, sessions, events, audit>>
worker == <<manager, shell, outputs>>
shells == <<ask, asked>>
wires  == <<down, up, stream>>
vars   == <<net, wires, server, worker, shells>>

Ended == {"done", "refused"}
Alive == {"starting", "greeting", "running", "leaving"}

Msg(t, type) == [of |-> t, type |-> type]
NoTab == [at |-> "idle", conn |-> 0, end |-> "none", inputs |-> 0]
NoAsk == [at |-> "idle", conn |-> 0]

TypeOK ==
  /\ NetOK
  /\ \A t \in Terms :
       /\ tab[t].at \in {"idle", "agent", "audited", "registered", "opening", "running",
                         "ending", "recording"} \cup Ended
       /\ tab[t].conn \in 0..MaxConns
       /\ tab[t].end \in {"none", "success", "failed"} /\ tab[t].inputs \in 0..MaxInputs
       /\ Len(events[t]) <= EventRoom
  /\ sessions \subseteq Terms /\ manager \subseteq Terms
  /\ audit \in [Terms -> {"none", "running", "success", "failed"}]
  /\ shell \in [Terms -> Alive \cup {"none", "failing", "dead"}]
  /\ outputs \in [Terms -> 0..MaxOutputs]
  /\ Len(stream) <= StreamRoom
  /\ \A a \in Asks :
       /\ ask[a].at \in {"idle", "agent", "waiting", "answered", "over"}
       /\ ask[a].conn \in 0..MaxConns
  /\ asked \subseteq Asks

Start ==
  /\ tab = [t \in Terms |-> NoTab]
  /\ sessions = {} /\ events = [t \in Terms |-> <<>>] /\ audit = [t \in Terms |-> "none"]
  /\ down = <<>> /\ up = <<>> /\ stream = <<>>
  /\ manager = {} /\ shell = [t \in Terms |-> "none"] /\ outputs = [t \in Terms |-> 0]
  /\ ask = [a \in Asks |-> NoAsk] /\ asked = {}
Init == Offline /\ Start

Goes(t, p) == tab' = [tab EXCEPT ![t].at = p]
Ends(t, verdict) == tab' = [tab EXCEPT ![t].at = "ending", ![t].end = verdict]

-----------------------------------------------------------------------------
(* The connection *)

Connect(c) == ConnectLink(c) /\ UNCHANGED <<wires, server, worker, shells>>
Lose(c) == LoseLink(c) /\ UNCHANGED <<wires, server, worker, shells>>
Vanish(c) == VanishLink(c) /\ UNCHANGED <<wires, server, worker, shells>>
Revoke == RevokeLink /\ UNCHANGED <<wires, server, worker, shells>>
Admit == AdmitLink /\ UNCHANGED <<wires, server, worker, shells>>

\* The revocation has nothing of its own to clear up here, it sweeps.
Cut == CutLink /\ UNCHANGED <<wires, server, worker, shells>>

\* close_connection_terminals: the sessions of the connection are removed and
\* told, and the requests for its shells fail.
Told(queue) == IF Len(queue) < EventRoom THEN Append(queue, "lost") ELSE queue
Sweep(c) ==
  /\ SweepLink(c)
  /\ sessions' = {t \in sessions : tab[t].conn # c}
  /\ events' = [t \in Terms |-> IF t \in sessions \ sessions' THEN Told(events[t]) ELSE events[t]]
  /\ asked' = {a \in asked : ask[a].conn # c}
  /\ ask' = [a \in Asks |-> IF a \in asked \ asked' THEN [ask[a] EXCEPT !.at = "over"] ELSE ask[a]]
  /\ UNCHANGED <<wires, tab, audit, worker>>

\* The agent's connection ends: close_all, and its queues are dropped.
DisconnectKeeps ==
  /\ LeaveLink
  /\ down' = <<>> /\ up' = <<>> /\ stream' = <<>>
  /\ UNCHANGED <<server, worker, shells>>

Disconnect ==
  /\ LeaveLink
  /\ down' = <<>> /\ up' = <<>> /\ stream' = <<>>
  /\ manager' = {}
  /\ UNCHANGED <<server, shell, outputs, shells>>

-----------------------------------------------------------------------------
(* A tab in the backend: terminal_socket *)

\* It takes the handle of the connection that is registered.
Open(t) ==
  /\ tab[t].at = "idle" /\ conn # 0
  /\ tab' = [tab EXCEPT ![t].at = "agent", ![t].conn = conn]
  /\ UNCHANGED <<net, wires, sessions, events, audit, worker, shells>>

\* Its audit event is written, or the tab is refused.
Record(t) ==
  /\ tab[t].at = "agent"
  /\ \/ Goes(t, "audited") /\ audit' = [audit EXCEPT ![t] = "running"]
     \/ Goes(t, "refused") /\ UNCHANGED audit
  /\ UNCHANGED <<net, wires, sessions, events, worker, shells>>

\* The limit is checked and the session inserted under one lock.
RegisterAnyway(t) ==
  /\ tab[t].at = "audited"
  /\ Goes(t, "registered") /\ sessions' = sessions \cup {t}
  /\ UNCHANGED <<net, wires, events, audit, worker, shells>>

Register(t) ==
  /\ tab[t].at = "audited"
  /\ IF Cardinality(sessions) < MaxSessions
     THEN Goes(t, "registered") /\ sessions' = sessions \cup {t}
     ELSE tab' = [tab EXCEPT ![t].at = "recording", ![t].end = "failed"] /\ UNCHANGED sessions
  /\ UNCHANGED <<net, wires, events, audit, worker, shells>>

SendOpen(t) ==
  /\ tab[t].at = "registered"
  /\ IF Refuses(tab[t].conn)
     THEN Ends(t, "failed") /\ UNCHANGED down
     ELSE Goes(t, "opening") /\ down' = Put(down, tab[t].conn, Msg(t, "open"))
  /\ UNCHANGED <<net, up, stream, sessions, events, audit, worker, shells>>

\* The browser is told that the terminal opens.
Greet(t) ==
  /\ tab[t].at = "opening"
  /\ Goes(t, "running") \/ Ends(t, "failed")
  /\ UNCHANGED <<net, wires, sessions, events, audit, worker, shells>>

\* The browser types or resizes.
Type(t) ==
  /\ tab[t].at = "running" /\ tab[t].inputs < MaxInputs
  /\ IF Refuses(tab[t].conn)
     THEN Ends(t, "failed") /\ UNCHANGED down
     ELSE /\ tab' = [tab EXCEPT ![t].inputs = @ + 1]
          /\ down' = Put(down, tab[t].conn, Msg(t, "input"))
  /\ UNCHANGED <<net, up, stream, sessions, events, audit, worker, shells>>

\* The browser closes the tab, goes away, sends too much, or is logged out.
Leave(t) ==
  /\ tab[t].at = "running"
  /\ \E verdict \in {"success", "failed"} : Ends(t, verdict)
  /\ UNCHANGED <<net, wires, sessions, events, audit, worker, shells>>

\* TERMINAL_SESSION_TIMEOUT
TimeLimitBusy(t) ==
  /\ tab[t].at = "running" /\ events[t] # <<>>
  /\ Ends(t, "failed")
  /\ UNCHANGED <<net, wires, sessions, events, audit, worker, shells>>

TimeLimit(t) ==
  /\ tab[t].at = "running"
  /\ Ends(t, "failed")
  /\ UNCHANGED <<net, wires, sessions, events, audit, worker, shells>>

\* An event is shown, which may fail; the last one ends the tab.
Show(t) ==
  /\ tab[t].at = "running" /\ events[t] # <<>>
  /\ events' = [events EXCEPT ![t] = Tail(@)]
  /\ CASE Head(events[t]) = "exit" -> \E verdict \in {"success", "failed"} : Ends(t, verdict)
       [] Head(events[t]) = "lost" -> Ends(t, "failed")
       [] OTHER -> UNCHANGED tab \/ Ends(t, "failed")
  /\ UNCHANGED <<net, wires, sessions, audit, worker, shells>>

\* The session was removed and every event shown.
Dropped(t) ==
  /\ tab[t].at = "running" /\ events[t] = <<>> /\ t \notin sessions
  /\ Ends(t, "failed")
  /\ UNCHANGED <<net, wires, sessions, events, audit, worker, shells>>

\* finish_terminal_session
FinishQuietly(t) ==
  /\ tab[t].at = "ending"
  /\ Goes(t, "recording") /\ sessions' = sessions \ {t}
  /\ UNCHANGED <<net, wires, events, audit, worker, shells>>

Finish(t) ==
  /\ tab[t].at = "ending"
  /\ Goes(t, "recording") /\ sessions' = sessions \ {t}
  /\ down' = Put(down, tab[t].conn, Msg(t, "close"))
  /\ UNCHANGED <<net, up, stream, events, audit, worker, shells>>

\* mark_terminal_session_ended
MarkEnded(t) ==
  /\ tab[t].at = "recording"
  /\ Goes(t, "done") /\ audit' = [audit EXCEPT ![t] = tab[t].end]
  /\ UNCHANGED <<net, wires, sessions, events, worker, shells>>

-----------------------------------------------------------------------------
(* Messages of the agent in the backend: send_terminal_event *)

\* An event is queued for its tab.  A tab that is too slow loses its session,
\* and the agent is told unless its connection was replaced.
Event(t, e) ==
  IF t \notin sessions THEN UNCHANGED <<sessions, events, down>>
  ELSE IF Len(events[t]) < EventRoom
  THEN events' = [events EXCEPT ![t] = Append(@, e)] /\ UNCHANGED <<sessions, down>>
  ELSE /\ sessions' = sessions \ {t}
       /\ down' = IF conn = tab[t].conn THEN Put(down, conn, Msg(t, "close")) ELSE down
       /\ UNCHANGED events

\* The last event removes the session, and is lost when there is no room.
ExitStays(t) == Event(t, "exit")

Exit(t) ==
  /\ sessions' = sessions \ {t}
  /\ events' = IF t \in sessions /\ Len(events[t]) < EventRoom
               THEN [events EXCEPT ![t] = Append(@, "exit")] ELSE events
  /\ UNCHANGED down

Handle(m) ==
  CASE m.type \in {"opened", "output"} -> Event(m.of, m.type) /\ UNCHANGED shells
    [] m.type = "closed" -> Exit(m.of) /\ UNCHANGED shells
    [] m.type = "shells" ->
         /\ asked' = asked \ {m.of}
         /\ ask' = IF m.of \in asked THEN [ask EXCEPT ![m.of].at = "answered"] ELSE ask
         /\ UNCHANGED <<sessions, events, down>>

\* The agent's loop takes a message from either queue, the backend's loop
\* handles it.
Control ==
  /\ up # <<>> /\ link[on] = "up"
  /\ Handle(Head(up)) /\ up' = Tail(up)
  /\ UNCHANGED <<net, stream, tab, audit, worker>>

Stream ==
  /\ stream # <<>> /\ link[on] = "up"
  /\ Handle(Head(stream)) /\ stream' = Tail(stream)
  /\ UNCHANGED <<net, up, tab, audit, worker>>

-----------------------------------------------------------------------------
(* The agent: TerminalManager, called by the message loop *)

Take(type) ==
  /\ down # <<>> /\ Head(down).type = type
  /\ down' = Tail(down)

Say(t, type) == up' = Append(up, Msg(t, type))

\* Each worker of the connection has one of its slots.
Slots == {t \in Terms : shell[t] \in Alive \cup {"failing"} /\ tab[t].conn = on}
OpenSession ==
  LET t == Head(down).of IN
  /\ Take("open")
  /\ Cardinality(Slots) < MaxSessions
  /\ manager' = manager \cup {t} /\ shell' = [shell EXCEPT ![t] = "starting"]
  /\ UNCHANGED <<net, up, stream, server, outputs, shells>>

\* The agent drains for an update, has no slot left or can start no thread.
RefuseSession ==
  /\ Take("open")
  /\ Say(Head(down).of, "closed")
  /\ UNCHANGED <<net, stream, server, worker, shells>>

Input ==
  /\ Take("input")
  /\ UNCHANGED <<net, up, stream, server, worker, shells>>

\* The input is too large or wrong, or the worker is behind: fail_session.
FailSession ==
  /\ Take("input") /\ Head(down).of \in manager
  /\ manager' = manager \ {Head(down).of} /\ Say(Head(down).of, "closed")
  /\ UNCHANGED <<net, stream, server, shell, outputs, shells>>

CloseSessionOfAll ==
  /\ Take("close")
  /\ manager' = {}
  /\ UNCHANGED <<net, up, stream, server, shell, outputs, shells>>

CloseSession ==
  /\ Take("close")
  /\ manager' = manager \ {Head(down).of}
  /\ UNCHANGED <<net, up, stream, server, shell, outputs, shells>>

ListShells ==
  /\ Take("shells")
  /\ Say(Head(down).of, "shells")
  /\ UNCHANGED <<net, stream, server, worker, shells>>

-----------------------------------------------------------------------------
(* The worker thread of a tab, which outlives its connection *)

\* A blocking send ends when there is room or the queue was dropped.
Sends(t, type) ==
  IF on = tab[t].conn
  THEN Len(stream) < StreamRoom /\ stream' = Append(stream, Msg(t, type))
  ELSE UNCHANGED stream

Is(t, p) == shell' = [shell EXCEPT ![t] = p]

Launch(t) ==
  /\ shell[t] = "starting"
  /\ Is(t, "greeting") \/ Is(t, "failing")
  /\ UNCHANGED <<net, down, up, stream, server, manager, outputs, shells>>

Opened(t) ==
  /\ shell[t] = "greeting"
  /\ Sends(t, "opened")
  /\ Is(t, IF on = tab[t].conn THEN "running" ELSE "failing")
  /\ UNCHANGED <<net, down, up, server, manager, outputs, shells>>

\* The shell exits.
ShellExits(t) ==
  /\ shell[t] = "running"
  /\ Is(t, "leaving")
  /\ UNCHANGED <<net, wires, server, manager, outputs, shells>>

\* The session was closed, or failed and its control queue dropped: the worker
\* terminates its process.
Terminate(t) ==
  /\ shell[t] = "running" /\ t \notin manager
  /\ Is(t, "leaving")
  /\ UNCHANGED <<net, wires, server, manager, outputs, shells>>

Leaves(t) ==
  /\ shell[t] \in {"leaving", "failing"}
  /\ Sends(t, "closed")
  /\ Is(t, "dead")
  /\ UNCHANGED <<net, down, up, server, manager, outputs, shells>>

\* The reader is a thread of its own, which nobody waits for.
Output(t) ==
  /\ shell[t] \in {"running", "leaving", "dead"} /\ outputs[t] < MaxOutputs
  /\ on = tab[t].conn /\ Sends(t, "output")
  /\ outputs' = [outputs EXCEPT ![t] = @ + 1]
  /\ UNCHANGED <<net, down, up, server, manager, shell, shells>>

-----------------------------------------------------------------------------
(* request_terminal_shells *)

Ask(a) ==
  /\ ask[a].at = "idle" /\ conn # 0
  /\ ask' = [ask EXCEPT ![a] = [at |-> "agent", conn |-> conn]]
  /\ UNCHANGED <<net, wires, server, worker, asked>>

RequestShells(a) ==
  /\ ask[a].at = "agent"
  /\ IF Refuses(ask[a].conn)
     THEN ask' = [ask EXCEPT ![a].at = "over"] /\ UNCHANGED <<asked, down>>
     ELSE /\ ask' = [ask EXCEPT ![a].at = "waiting"] /\ asked' = asked \cup {a}
          /\ down' = Put(down, ask[a].conn, Msg(a, "shells"))
  /\ UNCHANGED <<net, up, stream, server, worker>>

\* The answer is taken, or TERMINAL_SHELLS_TIMEOUT is over.
AskEnds(a) ==
  /\ ask[a].at \in {"waiting", "answered"}
  /\ ask' = [ask EXCEPT ![a].at = "over"] /\ asked' = asked \ {a}
  /\ UNCHANGED <<net, wires, server, worker>>

-----------------------------------------------------------------------------
Handler(t) ==
  \/ Record(t) \/ Register(t) \/ SendOpen(t) \/ Greet(t) \/ Show(t) \/ Dropped(t)
  \/ TimeLimit(t) \/ Finish(t) \/ MarkEnded(t)
Worker(t) == Launch(t) \/ Opened(t) \/ Terminate(t) \/ Leaves(t)
Loop == OpenSession \/ RefuseSession \/ Input \/ FailSession \/ CloseSession \/ ListShells
AskStep(a) == RequestShells(a) \/ AskEnds(a)

Step ==
  \/ \E t \in Terms :
       \/ Open(t) \/ Type(t) \/ Leave(t) \/ Handler(t)
       \/ Worker(t) \/ ShellExits(t) \/ Output(t)
  \/ Control \/ Stream \/ Loop
  \/ \E a \in Asks : Ask(a) \/ AskStep(a)

Next ==
  \/ \E c \in Conns : Connect(c) \/ Lose(c) \/ Sweep(c) \/ Vanish(c)
  \/ Disconnect \/ Revoke \/ Cut \/ Admit
  \/ Step

\* Tasks, threads and timers go on, and both ends notice a connection that the
\* other left.  A browser need not do anything, nor a shell.  Nothing here goes
\* round in circles, so that it is enough to be fair to all of it together.
Due ==
  \/ \E t \in Terms : Handler(t) \/ Worker(t)
  \/ \E a \in Asks : AskStep(a)
  \/ Loop \/ Control \/ Stream

Spec == Init /\ [][Next]_vars

-----------------------------------------------------------------------------
(* Properties *)

\* However tabs open and close at once, an instance has no more sessions than
\* the limit, and a connection of the agent no more workers.
SessionsBounded == Cardinality(sessions) <= MaxSessions /\ Cardinality(Slots) <= MaxSessions

\* Nothing is queued for a tab after the event that ends it, although the
\* reader of a shell may still send.
EndIsLast ==
  \A t \in Terms : \A i \in 1..Len(events[t]) :
    events[t][i] \in {"exit", "lost"} => i = Len(events[t]) /\ t \notin sessions

\* README.md:481: closing one tab ends only its own session.  A shell is
\* terminated only for its own tab's end, the end of its connection, or an input
\* of its own that failed.
Spared(t) == tab[t].at = "running" /\ t \in sessions /\ on = tab[t].conn /\ tab[t].inputs = 0
TabsAreApart == \A t \in Terms : shell[t] = "running" /\ Spared(t) => t \in manager

\* Nothing of a tab is left when it is over, and every tab is over in the end: its
\* audit event does not stay running, its session is removed, also when it is
\* registered after the sweep of its connection, and its shell ends, whatever the
\* order of the open and the close message and of the end of the connection.
TabOver(t) ==
  /\ tab[t].at \in {"idle"} \cup Ended /\ t \notin sessions /\ audit[t] # "running"
  /\ shell[t] \in {"none", "dead"} /\ t \notin manager

\* A request for the shells is answered or given up.
AskOver(a) == ask[a].at \in {"idle", "over"} /\ a \notin asked

=============================================================================
