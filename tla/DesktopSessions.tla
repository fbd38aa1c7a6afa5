--------------------------- MODULE DesktopSessions ---------------------------
(***************************************************************************)
(* Sessions of the remote desktop of one instance: the handler of the      *)
(* browser's websocket, the websocket on which the agent sends the         *)
(* pictures, and end_desktop_session, which any of them and the sweep of   *)
(* the agent's connection calls (backend, remote_desktop.rs); the agent's  *)
(* DesktopManager (remote_desktop/mod.rs) and the task of each session,    *)
(* which starts the helper process (remote_desktop/windows.rs).  What is   *)
(* shown and typed is left out, except for Ctrl+Alt+Del, which has an      *)
(* audit record of its own.                                                *)
(***************************************************************************)
EXTENDS AgentLink

CONSTANT Desks   \* visits of the remote desktop

VARIABLES
  visit,     \* the handler of each browser, with the connection whose handle it has
  desks,     \* desktop_sessions
  ending,    \* how far end_desktop_session got for each session
  record,    \* the audit record of each session
  attention, \* the audit record of its Ctrl+Alt+Del
  channel,   \* the agent's websocket of each session in the backend
  joined,    \* sessions of which the browser heard from the helper
  toAgent,   \* messages on their way to the agent
  fromAgent, \* sessions that the agent reports as closed
  managed,   \* DesktopManager.sessions
  signalled, \* sessions whose task was told to close
  relay      \* the agent's task of each session

server  == <<visit, desks, ending, record, attention, channel, joined>>
wires   == <<toAgent, fromAgent>>
manager == <<managed, signalled>>
vars    == <<net, wires, server, manager, relay>>

Msg(d, type) == [of |-> d, type |-> type]
NoVisit == [at |-> "idle", conn |-> 0]

\* The helper of the session may be there, and its devices in use.
Active == {"establishing", "connected", "relaying", "stopping"}

TypeOK ==
  /\ NetOK
  /\ \A d \in Desks :
       /\ visit[d].at \in {"idle", "agent", "inserted", "recorded", "running", "over"}
       /\ visit[d].conn \in 0..MaxConns
  /\ desks \subseteq Desks /\ joined \subseteq Desks
  /\ ending \in [Desks -> {"no", "removed", "done"}]
  /\ record \in [Desks -> {"none", "running", "over", "left"}]
  /\ attention \in [Desks -> {"none", "running", "over"}]
  /\ channel \in [Desks -> {"none", "claimed", "handed", "joined", "deaf", "over"}]
  /\ managed \subseteq Desks /\ signalled \subseteq Desks
  /\ relay \in [Desks -> Active \cup {"none", "over"}]

Start ==
  /\ visit = [d \in Desks |-> NoVisit] /\ desks = {} /\ joined = {}
  /\ ending = [d \in Desks |-> "no"] /\ record = [d \in Desks |-> "none"]
  /\ attention = [d \in Desks |-> "none"] /\ channel = [d \in Desks |-> "none"]
  /\ toAgent = <<>> /\ fromAgent = <<>>
  /\ managed = {} /\ signalled = {} /\ relay = [d \in Desks |-> "none"]
Init == Offline /\ Start

Goes(d, p) == visit' = [visit EXCEPT ![d].at = p]

-----------------------------------------------------------------------------
(* end_desktop_session *)

\* The first caller removes the session and signals both websockets.
Removes(ds) ==
  /\ desks' = desks \ ds
  /\ ending' = [d \in Desks |-> IF d \in ds \cap desks THEN "removed" ELSE ending[d]]

\* Then the agent is told, unless its connection is another one by now, and the
\* audit record is closed, if it is written already.
Finish(d) ==
  /\ ending[d] = "removed"
  /\ ending' = [ending EXCEPT ![d] = "done"]
  /\ toAgent' = IF conn = visit[d].conn THEN Put(toAgent, conn, Msg(d, "close")) ELSE toAgent
  /\ record' = [record EXCEPT ![d] = IF @ = "running" THEN "over" ELSE @]
  /\ UNCHANGED <<net, fromAgent, visit, desks, attention, channel, joined, manager, relay>>

-----------------------------------------------------------------------------
(* The connection *)

\* The agent connects again when close_all has waited for its sessions.
ConnectAtOnce(c) ==
  /\ ConnectLink(c)
  /\ UNCHANGED <<wires, server, manager, relay>>

Connect(c) ==
  /\ \A d \in Desks : relay[d] \notin Active
  /\ ConnectLink(c)
  /\ UNCHANGED <<wires, server, manager, relay>>

Lose(c) == LoseLink(c) /\ UNCHANGED <<wires, server, manager, relay>>
Vanish(c) == VanishLink(c) /\ UNCHANGED <<wires, server, manager, relay>>
Revoke == RevokeLink /\ UNCHANGED <<wires, server, manager, relay>>
Admit == AdmitLink /\ UNCHANGED <<wires, server, manager, relay>>

\* The revocation has nothing of its own to clear up here, it sweeps.
Cut == CutLink /\ UNCHANGED <<wires, server, manager, relay>>

\* close_connection_desktops
Sweep(c) ==
  /\ SweepLink(c)
  /\ Removes({d \in desks : visit[d].conn = c})
  /\ UNCHANGED <<wires, visit, record, attention, channel, joined, manager, relay>>

\* The agent's connection ends: close_all signals the sessions.
Disconnect ==
  /\ LeaveLink
  /\ toAgent' = <<>> /\ fromAgent' = <<>>
  /\ signalled' = signalled \cup managed /\ managed' = {}
  /\ UNCHANGED <<server, relay>>

-----------------------------------------------------------------------------
(* A browser in the backend: desktop_browser_socket *)

\* It takes the handle of the connection that is registered.
Open(d) ==
  /\ visit[d].at = "idle" /\ conn # 0
  /\ visit' = [visit EXCEPT ![d] = [at |-> "agent", conn |-> conn]]
  /\ UNCHANGED <<net, wires, desks, ending, record, attention, channel, joined, manager, relay>>

\* The instance must have no session; this is decided under the lock.
Insert(d) ==
  /\ visit[d].at = "agent"
  /\ IF desks = {} THEN Goes(d, "inserted") /\ desks' = {d}
                   ELSE Goes(d, "over") /\ UNCHANGED desks
  /\ UNCHANGED <<net, wires, ending, record, attention, channel, joined, manager, relay>>

\* A record that is written when the session was ended already stays as it is.
RecordStart(d) ==
  /\ visit[d].at = "inserted"
  /\ \/ /\ Goes(d, "recorded")
        /\ record' = [record EXCEPT ![d] = IF ending[d] = "done" THEN "left" ELSE "running"]
        /\ UNCHANGED <<desks, ending>>
     \/ Goes(d, "over") /\ Removes({d}) /\ UNCHANGED record
  /\ UNCHANGED <<net, wires, attention, channel, joined, manager, relay>>

\* The agent is told to open it, then the browser, which may be gone.
SendOpen(d) ==
  /\ visit[d].at = "recorded"
  /\ toAgent' = Put(toAgent, visit[d].conn, Msg(d, "open"))
  /\ \/ ~Refuses(visit[d].conn) /\ Goes(d, "running") /\ UNCHANGED <<desks, ending>>
     \/ Goes(d, "over") /\ Removes({d})
  /\ UNCHANGED <<net, fromAgent, record, attention, channel, joined, manager, relay>>

\* The loop ends, what became of Ctrl+Alt+Del is recorded, and the handler drops
\* its queue of inputs when it has ended the session.
Leaves(d) ==
  /\ visit[d].at = "running"
  /\ Goes(d, "over") /\ Removes({d})
  /\ attention' = [attention EXCEPT ![d] = IF @ = "running" THEN "over" ELSE @]
  /\ UNCHANGED <<net, wires, record, channel, joined, manager, relay>>

\* The close signal of end_desktop_session, whoever called it.
HeedClose(d) == ending[d] # "no" /\ Leaves(d)

\* HELPER_JOIN_TIMEOUT
HelperTimeout(d) == d \notin joined /\ Leaves(d)

\* The browser closes, sends what it must not, is idle, or its time is over.
Quit(d) == Leaves(d)

\* A task beside the loop waits for the administrator's session to end.
AuthorizationRevoked(d) ==
  /\ visit[d].at = "running" /\ d \in desks
  /\ Removes({d})
  /\ UNCHANGED <<net, wires, visit, record, attention, channel, joined, manager, relay>>

\* Ctrl+Alt+Del is recorded before it is sent, and its result or
\* SECURE_ATTENTION_RESULT_TIMEOUT closes the record.
SecureAttention(d) ==
  /\ visit[d].at = "running" /\ d \in joined /\ attention[d] = "none"
  /\ attention' = [attention EXCEPT ![d] = "running"]
  /\ UNCHANGED <<net, wires, visit, desks, ending, record, channel, joined, manager, relay>>

AttentionResult(d) ==
  /\ visit[d].at = "running" /\ attention[d] = "running"
  /\ attention' = [attention EXCEPT ![d] = "over"]
  /\ UNCHANGED <<net, wires, visit, desks, ending, record, channel, joined, manager, relay>>

-----------------------------------------------------------------------------
(* The agent's websocket in the backend: desktop_agent_socket *)

ChannelIs(d, p) == channel' = [channel EXCEPT ![d] = p]

\* It reads the handle of the session, if there still is one,
HandOver(d) ==
  /\ channel[d] = "claimed"
  /\ ChannelIs(d, IF d \in desks THEN "handed" ELSE "over")
  /\ UNCHANGED <<net, wires, visit, desks, ending, record, attention, joined, manager, relay>>

\* and subscribes to its close signal, which may have been sent before.
Subscribe(d) ==
  /\ channel[d] = "handed"
  /\ ChannelIs(d, IF ending[d] = "no" THEN "joined" ELSE "deaf")
  /\ UNCHANGED <<net, wires, visit, desks, ending, record, attention, joined, manager, relay>>

ChannelEnds(d) ==
  /\ channel[d] \in {"joined", "deaf"}
  /\ ChannelIs(d, "over") /\ Removes({d})
  /\ UNCHANGED <<net, wires, visit, record, attention, joined, manager, relay>>

\* The close signal, the end of the agent's websocket, or of the queue of inputs.
ChannelMustEnd(d) ==
  \/ channel[d] = "joined" /\ ending[d] # "no"
  \/ relay[d] \notin {"connected", "relaying"}
  \/ visit[d].at = "over"

\* The helper is ready or asks for consent, and the browser is told.
Join(d) ==
  /\ relay[d] = "relaying" /\ channel[d] \in {"joined", "deaf"}
  /\ visit[d].at = "running" /\ d \notin joined
  /\ joined' = joined \cup {d}
  /\ UNCHANGED <<net, wires, visit, desks, ending, record, attention, channel, manager, relay>>

\* desktop_agent_closed
AgentClosed ==
  /\ fromAgent # <<>> /\ link[on] = "up"
  /\ fromAgent' = Tail(fromAgent)
  /\ IF visit[Head(fromAgent)].conn = on
     THEN Removes({Head(fromAgent)}) ELSE UNCHANGED <<desks, ending>>
  /\ UNCHANGED <<net, toAgent, visit, record, attention, channel, joined, manager, relay>>

-----------------------------------------------------------------------------
(* The agent: DesktopManager *)

Take(type) ==
  /\ toAgent # <<>> /\ Head(toAgent).type = type
  /\ toAgent' = Tail(toAgent)

\* reap_finished, then a session at a time.
OpenAnyway ==
  LET d == Head(toAgent).of IN
  /\ Take("open")
  /\ managed' = managed \cup {d} /\ relay' = [relay EXCEPT ![d] = "establishing"]
  /\ UNCHANGED <<net, fromAgent, server, signalled>>

OpenDesktop ==
  LET d    == Head(toAgent).of
      live == {e \in managed : relay[e] # "over"} IN
  /\ Take("open")
  /\ \/ /\ live = {}
        /\ managed' = {d} /\ relay' = [relay EXCEPT ![d] = "establishing"]
        /\ UNCHANGED fromAgent
     \/ \* It has another one, or it drains for an update.
        /\ managed' = live /\ fromAgent' = Append(fromAgent, d)
        /\ UNCHANGED relay
  /\ UNCHANGED <<net, server, signalled>>

CloseDesktop ==
  /\ Take("close")
  /\ signalled' = signalled \cup ({Head(toAgent).of} \cap managed)
  /\ UNCHANGED <<net, fromAgent, server, managed, relay>>

-----------------------------------------------------------------------------
(* The agent: the task of a session *)

RelayIs(d, p) == relay' = [relay EXCEPT ![d] = p]

\* The backend accepts the token of the session once, from the connection that
\* is registered: claim_agent_data_channel.
Claim(d) ==
  /\ relay[d] = "establishing" /\ channel[d] = "none"
  /\ d \in desks /\ conn = visit[d].conn
  /\ ChannelIs(d, "claimed") /\ RelayIs(d, "connected")
  /\ UNCHANGED <<net, wires, visit, desks, ending, record, attention, joined, manager>>

\* The helper has connected as well.
Established(d) ==
  /\ relay[d] = "connected"
  /\ RelayIs(d, "relaying")
  /\ UNCHANGED <<net, wires, server, manager>>

\* The closed message of a task, which is lost when its connection is over.
Gone(d) ==
  /\ RelayIs(d, "over")
  /\ fromAgent' = IF on # 0 /\ on = visit[d].conn THEN Append(fromAgent, d) ELSE fromAgent
  /\ UNCHANGED <<net, toAgent, server, manager>>

\* Any step of establish_session fails, or DATA_CHANNEL_JOIN_TIMEOUT is over.
\* The close signal is not heeded until then.
EstablishFails(d) == relay[d] \in {"establishing", "connected"} /\ Gone(d)

\* relay ends: told to close, its websocket closed, or the helper failed.
RelayEnds(d) ==
  /\ relay[d] = "relaying"
  /\ RelayIs(d, "stopping")
  /\ UNCHANGED <<net, wires, server, manager>>

RelayMustEnd(d) == d \in signalled \/ channel[d] = "over"

\* The helper has released what it held, or is terminated without.
RelayStopped(d) == relay[d] = "stopping" /\ Gone(d)

-----------------------------------------------------------------------------
Handler(d) ==
  \/ Insert(d) \/ RecordStart(d) \/ SendOpen(d)
  \/ HeedClose(d) \/ HelperTimeout(d) \/ AttentionResult(d)
Socket(d) == HandOver(d) \/ Subscribe(d) \/ (ChannelMustEnd(d) /\ ChannelEnds(d))
Task(d) ==
  \/ Claim(d) \/ Established(d) \/ EstablishFails(d) \/ Join(d)
  \/ (RelayMustEnd(d) /\ RelayEnds(d)) \/ RelayStopped(d)
Loop == AgentClosed \/ OpenDesktop \/ CloseDesktop

Step ==
  \/ \E d \in Desks :
       \/ Open(d) \/ Handler(d) \/ Quit(d) \/ AuthorizationRevoked(d) \/ SecureAttention(d)
       \/ Finish(d) \/ HandOver(d) \/ Subscribe(d) \/ ChannelEnds(d)
       \/ Claim(d) \/ Established(d) \/ EstablishFails(d) \/ Join(d)
       \/ RelayEnds(d) \/ RelayStopped(d)
  \/ Loop

Next ==
  \/ \E c \in Conns : Connect(c) \/ Lose(c) \/ Sweep(c) \/ Vanish(c)
  \/ Disconnect \/ Revoke \/ Cut \/ Admit
  \/ Step

\* Tasks go on and notice that the other end is gone.  The browser need not
\* leave, and neither a websocket nor the helper need fail.
Due ==
  \/ \E d \in Desks : Handler(d) \/ Finish(d) \/ Socket(d) \/ Task(d)
  \/ Loop

Spec == Init /\ [][Next]_vars

-----------------------------------------------------------------------------
(* Properties *)

\* The instance never has two helpers, also when the agent connects again while
\* the backend still clears up, or a browser comes before the last one is gone.
OneHelper == Cardinality({d \in Desks : relay[d] \in Active}) <= 1

\* While a session can be used its audit record says that it runs, and a
\* Ctrl+Alt+Del is not left open by a handler that ended.
RecordsAgree ==
  \A d \in Desks :
    /\ visit[d].at = "running" /\ d \in desks => record[d] = "running"
    /\ attention[d] = "running" => visit[d].at = "running"

\* Nothing is left of a session: no entry that keeps others away, no helper, no
\* websocket, and no record that says that it runs, except the one that was
\* written after the session had ended.
DeskOver(d) ==
  /\ visit[d].at \in {"idle", "over"} /\ d \notin desks
  /\ record[d] # "running" /\ attention[d] # "running"
  /\ channel[d] \in {"none", "over"} /\ relay[d] \in {"none", "over"}

\* Or all of it is there, on the connection that is registered.
DeskWhole(d) ==
  /\ visit[d].at = "running" /\ d \in desks /\ record[d] = "running"
  /\ channel[d] = "joined" /\ relay[d] = "relaying" /\ d \in managed
  /\ conn = visit[d].conn

\* A session ends as a whole, whichever part ends first.
DeskSettled(d) == DeskOver(d) \/ DeskWhole(d)
=============================================================================
