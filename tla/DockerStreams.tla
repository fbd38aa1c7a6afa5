---------------------------- MODULE DockerStreams ----------------------------
(***************************************************************************)
(* Container logs and container terminals: the handlers of a browser's     *)
(* websocket and the messages of the agent about it (backend, docker.rs),  *)
(* and the streams of the agent's DockerManager (instanceEnd/src/          *)
(* docker.rs).                                                             *)
(*                                                                         *)
(* A chunk is a piece of a log, or an output of a terminal or its opening. *)
(* What is typed is left out: the agent's control queue of a terminal only *)
(* matters when it fails the session.                                      *)
(***************************************************************************)
EXTENDS AgentLink

CONSTANTS
  Logs,        \* log views of a browser
  Execs,       \* terminals of a browser
  MaxStreams,  \* MAX_STREAMS_PER_INSTANCE, and the agent's stream slots
  Buffer,      \* STREAM_BUFFER
  StreamRoom,  \* capacity of the agent's Docker stream queue
  MaxChunks    \* chunks of a stream

Streams == Logs \cup Execs

VARIABLES
  view,    \* the handler of each stream
  table,   \* docker_log_streams and docker_exec_sessions
  chunks,  \* the queue of each stream's handler
  final,   \* close_tx of each stream
  audit,   \* the audit event of each stream
  orders,  \* messages on their way to the agent
  feed,    \* the agent's Docker stream queue
  job,     \* the agent's task or thread of each stream
  jobs,    \* DockerManager.logs and DockerExecManager.sessions
  sent,    \* counts the chunks of each stream, for the bound
  astray   \* streams of a later connection that a revocation has taken out

server == <<view, table, chunks, final, audit>>
manager == <<job, jobs, sent>>
vars == <<net, server, orders, feed, manager, astray>>

NoView == [at |-> "idle", conn |-> 0, end |-> "none"]
Msg(s, type) == [of |-> s, type |-> type]
Held == {s \in Streams : view[s].at \notin {"idle", "over"}}

TypeOK ==
  /\ NetOK
  /\ \A s \in Streams :
       /\ view[s].at \in {"idle", "agent", "audited", "opening", "checked", "submitted",
                          "running", "ending", "recording", "over"}
       /\ view[s].conn \in 0..MaxConns
       /\ view[s].end \in {"none", "success", "failed", "lost"}
       /\ Len(chunks[s]) <= Buffer
  /\ table \subseteq Streams /\ jobs \subseteq Streams
  /\ final \in [Streams -> {"none", "closed", "failed", "full", "lost"}]
  /\ audit \in [Streams -> {"none", "running", "success", "failed", "cancelled"}]
  /\ Len(feed) <= StreamRoom
  /\ job \in [Streams -> {"none", "running", "leaving", "dead"}]
  /\ sent \in [Streams -> 0..MaxChunks] /\ astray \subseteq Streams

Start ==
  /\ view = [s \in Streams |-> NoView] /\ table = {}
  /\ chunks = [s \in Streams |-> <<>>] /\ final = [s \in Streams |-> "none"]
  /\ audit = [s \in Streams |-> "none"]
  /\ orders = <<>> /\ feed = <<>>
  /\ job = [s \in Streams |-> "none"] /\ jobs = {} /\ sent = [s \in Streams |-> 0]
  /\ astray = {}
Init == Offline /\ Start

Goes(s, p) == view' = [view EXCEPT ![s].at = p]
Ends(s, verdict) == view' = [view EXCEPT ![s].at = "ending", ![s].end = verdict]
Closed(ss, status) ==
  [s \in Streams |-> IF s \in ss /\ audit[s] = "running" THEN status ELSE audit[s]]

-----------------------------------------------------------------------------
(* The connection *)

Rest == <<server, orders, feed, manager, astray>>
Connect(c) == ConnectLink(c) /\ UNCHANGED Rest
Lose(c) == LoseLink(c) /\ UNCHANGED Rest
Vanish(c) == VanishLink(c) /\ UNCHANGED Rest
Revoke == RevokeLink /\ UNCHANGED Rest
Admit == AdmitLink /\ UNCHANGED Rest

\* The streams ss are taken from the table and told why.  A log's record is
\* left to its handler, a terminal's is closed here.
Remove(ss, why, status) ==
  /\ table' = table \ ss
  /\ final' = [s \in Streams |-> IF s \in ss THEN why ELSE final[s]]
  /\ audit' = Closed(ss \cap Execs, status)

\* close_connection_docker
Sweep(c) ==
  /\ SweepLink(c)
  /\ Remove({s \in table : view[s].conn = c}, "lost", "failed")
  /\ UNCHANGED <<astray, view, chunks, orders, feed, manager>>

\* cancel_instance_docker: all streams of the instance are taken out, those of a
\* later connection too, but only the agent of the revoked one is told.
Cut ==
  /\ CutLink
  /\ Remove(table, "lost", "cancelled")
  /\ astray' = {s \in table : link[view[s].conn] = "up"}
  /\ UNCHANGED <<view, chunks, orders, feed, manager>>

\* The agent's connection ends: close_all aborts the logs and tells the
\* terminals to close, and the queues are dropped.
Disconnect ==
  /\ LeaveLink
  /\ orders' = <<>> /\ feed' = <<>> /\ jobs' = {}
  /\ job' = [s \in Streams |-> IF s \in Logs \cap jobs THEN "dead" ELSE job[s]]
  /\ UNCHANGED <<server, sent, astray>>

-----------------------------------------------------------------------------
(* The handler of a stream: docker_logs_socket, docker_exec_socket *)

\* The handle of the connection that is registered, and a stream slot.
Open(s) ==
  /\ view[s].at = "idle" /\ conn # 0 /\ Cardinality(Held) < MaxStreams
  /\ view' = [view EXCEPT ![s] = [@ EXCEPT !.at = "agent", !.conn = conn]]
  /\ UNCHANGED <<net, astray, table, chunks, final, audit, orders, feed, manager>>

Record(s) ==
  /\ view[s].at = "agent"
  /\ \/ Goes(s, "audited") /\ audit' = [audit EXCEPT ![s] = "running"]
     \/ Goes(s, "over") /\ UNCHANGED audit
  /\ UNCHANGED <<net, astray, table, chunks, final, orders, feed, manager>>

\* The record of a handler that did not get to its loop.
Abandon(s) == view' = [view EXCEPT ![s].at = "recording", ![s].end = "failed"]

\* The browser is told that the stream opens.
Greet(s) ==
  /\ view[s].at = "audited"
  /\ Goes(s, "opening") \/ Abandon(s)
  /\ UNCHANGED <<net, astray, table, chunks, final, audit, orders, feed, manager>>

\* A log is registered and its start sent while the registry is locked.
SubmitLog(s) ==
  /\ view[s].at = "opening" /\ s \in Logs
  /\ IF conn = view[s].conn
     THEN /\ Goes(s, "submitted") /\ table' = table \cup {s}
          /\ orders' = Put(orders, conn, Msg(s, "start"))
     ELSE Abandon(s) /\ UNCHANGED <<table, orders>>
  /\ UNCHANGED <<net, astray, chunks, final, audit, feed, manager>>

\* A terminal only checks that the connection is still registered and is
\* registered afterwards.
CheckExec(s) ==
  /\ view[s].at = "opening" /\ s \in Execs
  /\ IF conn = view[s].conn THEN Goes(s, "checked") ELSE Abandon(s)
  /\ UNCHANGED <<net, astray, table, chunks, final, audit, orders, feed, manager>>

SubmitExec(s) ==
  /\ view[s].at = "checked"
  /\ IF Refuses(view[s].conn)
     THEN Abandon(s) /\ UNCHANGED <<table, orders>>
     ELSE /\ Goes(s, "running") /\ table' = table \cup {s}
          /\ orders' = Put(orders, view[s].conn, Msg(s, "start"))
  /\ UNCHANGED <<net, astray, chunks, final, audit, feed, manager>>

\* The browser is told that the log is ready; when that fails the agent is told
\* to stop, on the connection of the handler.
Ready(s) ==
  /\ view[s].at = "submitted"
  /\ \/ Goes(s, "running") /\ UNCHANGED <<table, orders>>
     \/ /\ Abandon(s) /\ table' = table \ {s}
        /\ orders' = Put(orders, view[s].conn, Msg(s, "cancel"))
  /\ UNCHANGED <<net, astray, chunks, final, audit, feed, manager>>

\* A chunk is shown, or the browser is gone.
Show(s) ==
  /\ view[s].at = "running" /\ chunks[s] # <<>>
  /\ chunks' = [chunks EXCEPT ![s] = Tail(@)]
  /\ UNCHANGED view \/ Ends(s, "failed")
  /\ UNCHANGED <<net, astray, table, final, audit, orders, feed, manager>>

\* The end of the stream is seen after the chunks before it.  A log whose sender
\* is gone may also be taken for one whose agent is lost: both arms of the
\* select are ready.
Verdict(s) == CASE final[s] = "closed" -> "success"
                [] final[s] = "lost" -> "lost"
                [] OTHER -> "failed"
SeeEnd(s) ==
  /\ view[s].at = "running" /\ chunks[s] = <<>> /\ final[s] # "none"
  /\ Ends(s, Verdict(s)) \/ (s \in Logs /\ Ends(s, "lost"))
  /\ UNCHANGED <<net, astray, table, chunks, final, audit, orders, feed, manager>>

\* The browser leaves.
Leave(s) ==
  /\ view[s].at = "running"
  /\ \E verdict \in {"success", "failed"} : Ends(s, verdict)
  /\ UNCHANGED <<net, astray, table, chunks, final, audit, orders, feed, manager>>

\* STREAM_SESSION_TIMEOUT, or the administrator's session ends.
TimeLimitLogs(s) ==
  /\ view[s].at = "running" /\ s \in Logs
  /\ Ends(s, "failed")
  /\ UNCHANGED <<net, astray, table, chunks, final, audit, orders, feed, manager>>

TimeLimit(s) ==
  /\ view[s].at = "running"
  /\ Ends(s, "failed")
  /\ UNCHANGED <<net, astray, table, chunks, final, audit, orders, feed, manager>>

\* A stream that is still in the table is taken out, and the agent is told
\* unless its connection was replaced.  A terminal's record is closed by
\* whoever takes it out.
Finish(s) ==
  /\ view[s].at = "ending"
  /\ Goes(s, IF s \in Logs THEN "recording" ELSE "over")
  /\ table' = table \ {s}
  /\ orders' = IF s \in table /\ conn = view[s].conn
               THEN Put(orders, conn, Msg(s, "cancel")) ELSE orders
  /\ audit' = Closed({s} \cap table \cap Execs, "failed")
  /\ UNCHANGED <<net, astray, chunks, final, feed, manager>>

MarkEnded(s) ==
  /\ view[s].at = "recording"
  /\ Goes(s, "over")
  /\ audit' = Closed({s}, IF view[s].end = "success" THEN "success" ELSE "failed")
  /\ UNCHANGED <<net, astray, table, chunks, final, orders, feed, manager>>

-----------------------------------------------------------------------------
(* Messages of the agent in the backend *)

\* handle_docker_log_chunk, handle_docker_exec_event: a stream whose browser is
\* too slow loses its place, and the agent is told.
Chunk(s) ==
  IF s \notin table \/ view[s].conn # on
  THEN UNCHANGED <<table, chunks, final, audit, orders>>
  ELSE IF Len(chunks[s]) < Buffer
  THEN chunks' = [chunks EXCEPT ![s] = Append(@, "chunk")] /\ UNCHANGED <<table, final, audit, orders>>
  ELSE /\ Remove({s}, "full", "failed")
       /\ orders' = IF conn = on THEN Put(orders, conn, Msg(s, "cancel")) ELSE orders
       /\ UNCHANGED chunks

\* handle_docker_log_closed, and the end of a terminal.
EndOf(s, type) ==
  /\ IF s \in table /\ view[s].conn = on
     THEN Remove({s}, type, IF type = "closed" THEN "success" ELSE "failed")
     ELSE UNCHANGED <<table, final, audit>>
  /\ UNCHANGED <<chunks, orders>>

Receive ==
  /\ feed # <<>> /\ link[on] = "up"
  /\ LET m == Head(feed) IN
     IF m.type = "chunk" THEN Chunk(m.of) ELSE EndOf(m.of, m.type)
  /\ feed' = Tail(feed)
  /\ UNCHANGED <<net, astray, view, manager>>

-----------------------------------------------------------------------------
(* The agent: DockerManager and DockerExecManager *)

Take(type) == orders # <<>> /\ Head(orders).type = type /\ orders' = Tail(orders)

\* The message loop sends without waiting.  A full queue fails the connection.
Tries(m) ==
  IF Len(feed) < StreamRoom THEN feed' = Append(feed, m) /\ UNCHANGED broken
  ELSE broken' = TRUE /\ UNCHANGED feed

\* A task or a thread waits for room, or for the queue to be dropped.
Sends(s, type) ==
  IF on = view[s].conn THEN Len(feed) < StreamRoom /\ feed' = Append(feed, Msg(s, type))
  ELSE UNCHANGED feed

Busy == {s \in Streams : job[s] \in {"running", "leaving"} /\ view[s].conn = on}

StartStream ==
  LET s == Head(orders).of IN
  /\ ~broken /\ Take("start") /\ Cardinality(Busy) < MaxStreams
  /\ job' = [job EXCEPT ![s] = "running"] /\ jobs' = jobs \cup {s}
  /\ UNCHANGED <<net, astray, server, feed, sent>>

\* Docker cannot be managed, no slot is left or the agent drains.
RefuseStream ==
  /\ ~broken /\ Take("start")
  /\ Tries(Msg(Head(orders).of, "failed"))
  /\ UNCHANGED <<line, astray, server, manager>>

\* A log's task that is still there is aborted, and its end sent for it.
Abort(s) == job' = [job EXCEPT ![s] = "dead"]
CancelLog ==
  LET s == Head(orders).of IN
  /\ ~broken /\ Take("cancel") /\ s \in Logs
  /\ jobs' = jobs \ {s}
  /\ IF s \in jobs /\ job[s] # "dead"
     THEN Abort(s) /\ Tries(Msg(s, "closed"))
     ELSE UNCHANGED <<job, feed, broken>>
  /\ UNCHANGED <<line, astray, server, sent>>

\* A terminal is told to close.
CloseExec ==
  /\ ~broken /\ Take("cancel") /\ Head(orders).of \in Execs
  /\ jobs' = jobs \ {Head(orders).of}
  /\ UNCHANGED <<net, astray, server, feed, job, sent>>

\* The input of a terminal is wrong or its queue is full: fail_session.
FailExec(s) ==
  /\ on # 0 /\ ~broken /\ s \in Execs \cap jobs
  /\ jobs' = jobs \ {s} /\ Tries(Msg(s, "failed"))
  /\ UNCHANGED <<line, astray, server, orders, job, sent>>

\* close_streams_for_update, when the agent starts to drain.
DrainLog(s) ==
  /\ on # 0 /\ ~broken /\ s \in Logs \cap jobs
  /\ jobs' = jobs \ {s} /\ Abort(s) /\ Tries(Msg(s, "failed"))
  /\ UNCHANGED <<line, astray, server, orders, sent>>

\* What Docker writes.
Write(s) ==
  /\ job[s] = "running" /\ sent[s] < MaxChunks
  /\ on = view[s].conn /\ Sends(s, "chunk")
  /\ sent' = [sent EXCEPT ![s] = @ + 1]
  /\ UNCHANGED <<net, astray, server, orders, job, jobs>>

\* The docker command ends by itself, or the terminal was told to close.
Stops(s) ==
  /\ job[s] = "running"
  /\ job' = [job EXCEPT ![s] = "leaving"]
  /\ UNCHANGED <<net, astray, server, orders, feed, jobs, sent>>
Told(s) == s \in Execs \ jobs /\ Stops(s)

Leaves(s) ==
  /\ job[s] = "leaving"
  /\ \E type \in {"closed", "failed"} : Sends(s, type)
  /\ job' = [job EXCEPT ![s] = "dead"]
  /\ UNCHANGED <<net, astray, server, orders, jobs, sent>>

-----------------------------------------------------------------------------
Handler(s) ==
  \/ Record(s) \/ Greet(s) \/ SubmitLog(s) \/ CheckExec(s) \/ SubmitExec(s) \/ Ready(s)
  \/ Show(s) \/ SeeEnd(s) \/ TimeLimit(s) \/ Finish(s) \/ MarkEnded(s)
Worker(s) == Told(s) \/ Leaves(s)
Loop == StartStream \/ RefuseStream \/ CancelLog \/ CloseExec

Step ==
  \/ \E s \in Streams :
       \/ Open(s) \/ Leave(s) \/ Handler(s)
       \/ Worker(s) \/ Stops(s) \/ Write(s) \/ FailExec(s) \/ DrainLog(s)
  \/ Receive \/ Loop

Next ==
  \/ \E c \in Conns : Connect(c) \/ Lose(c) \/ Sweep(c) \/ Vanish(c)
  \/ Disconnect \/ Revoke \/ Cut \/ Admit
  \/ Step

\* Tasks, threads and timers go on, and both ends notice a connection that the
\* other left.  A browser need not do anything, nor a container.  Nothing here
\* goes round in circles, so that it is enough to be fair to all of it together.
Due == (\E s \in Streams : Handler(s) \/ Worker(s)) \/ Loop \/ Receive

Spec == Init /\ [][Next]_vars

-----------------------------------------------------------------------------
(* Properties *)

\* No log is left in the table of a connection that was swept, and a terminal
\* only while its handler runs.
SweptIsEmpty ==
  \A s \in table :
    /\ view[s].at \in {"submitted", "running", "ending"}
    /\ s \in Logs => link[view[s].conn] \notin {"swept", "gone"}

\* A stream has its record open as long as it is in the table; a stream that was
\* taken out has a reason for its handler, or the handler took it out.
EndIsKnown ==
  \A s \in Streams :
    /\ s \in table => final[s] = "none" /\ audit[s] = "running"
    /\ view[s].at = "running" /\ s \notin table => final[s] # "none"

\* A handler that is over leaves nothing behind: its record is closed, and the
\* agent's task or thread of it ends, unless it went astray.
StreamOver(s) ==
  /\ view[s].at \in {"idle", "over"} /\ s \notin table /\ audit[s] # "running"
  /\ job[s] \in {"none", "dead"} \/ s \in astray
=============================================================================
