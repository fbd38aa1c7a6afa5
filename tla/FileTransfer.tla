---------------------------- MODULE FileTransfer ----------------------------
(***************************************************************************)
(* Remote files: the requests of the administrators (backend, files.rs),   *)
(* the connection of one agent that carries them (ws.rs of both sides) and *)
(* the agent's FileManager (file_manager.rs).                              *)
(*                                                                         *)
(* A request is an upload or a download of a file of a few chunks, or a    *)
(* control request that is one message each way: it deletes the file,      *)
(* moves another file to its name, or leaves it alone (listings, new       *)
(* directories).  The instance has one slot for transfers.                 *)
(* On both sides control messages and chunks wait in two queues, and the   *)
(* loop that writes the socket takes from either: only the order inside a  *)
(* queue is kept.                                                          *)
(*                                                                         *)
(* All requests are about one name, whose file another program may create. *)
(***************************************************************************)
EXTENDS Integers, Sequences, FiniteSets

CONSTANTS
  Requests,   \* file requests of administrators
  None,       \* no request
  Foreign,    \* the contents another program writes
  Size,       \* the chunks of the longest file each request may move
  Window,     \* TRANSFER_WINDOW
  MaxConns,   \* connections the agent makes
  MaxLosses   \* connections that one end gives up for a reason of its own

ASSUME FileTransferAssumption ==
  /\ None \notin Requests /\ Foreign \notin Requests /\ None # Foreign
  /\ Size \in [Requests -> Nat] /\ Window \in Nat \ {0} /\ MaxConns \in Nat /\ MaxLosses \in Nat

VARIABLES
  conn,    \* state.agents: the registered connection, 0 is none
  link,    \* the backend's task of each connection
  on,      \* the connection the agent is on, 0 is none
  losses,  \* counts the connections given up, for the bound
  down,    \* control messages on their way to the agent
  frames,  \* chunks on their way to the agent
  up,      \* responses on their way to the backend
  data,    \* chunks on their way to the backend
  active,  \* active_file_transfers: who has the instance's transfer slot
  pending, \* file_requests: the connection a registered request waits for
  req,     \* the handler of each request
  inbox,   \* its event channel
  drop,    \* what the task that a dropped RequestCleanup spawned has left to do
  audit,   \* the audit event of a download
  xfer,    \* FileManager.transfers: the agent's transfer
  temp,    \* the temporary files of uploads: "part" while one is written, "left" for good
  target,  \* what the file of the name contains
  backup   \* what was set aside by each upload

wires == <<down, frames, up, data>>
server == <<active, pending, req, inbox, drop, audit>>
disk == <<temp, target, backup>>
net == <<conn, link, on, losses>>
vars == <<net, wires, server, xfer, disk>>

Conns == 1..MaxConns
Transfers == {"upload", "download"}
Controls == {"list", "delete", "move"}
Contents == Requests \cup {None, Foreign}
Over == {"done", "failed", "abandoned"}

Idle == [at |-> "idle", kind |-> "list", over |-> FALSE, size |-> 0, conn |-> 0,
         sent |-> 0, got |-> 0]
NoXfer == [req |-> None, kind |-> "upload", at |-> "opening", over |-> FALSE, size |-> 0,
           sent |-> 0, got |-> 0, queue |-> <<>>]

Msg(r, t, n) == [req |-> r, type |-> t, n |-> n]

TypeOK ==
  /\ conn \in 0..MaxConns /\ on \in 0..MaxConns /\ losses \in 0..MaxLosses
  /\ link \in [Conns -> {"new", "up", "closing", "swept", "gone"}]
  /\ active \in Requests \cup {None}
  /\ pending \in [Requests -> 0..MaxConns]
  /\ \A r \in Requests :
       /\ req[r].at \in {"idle", "agent", "slot", "starting", "ready", "opened",
                         "streaming", "finishing"} \cup Over
       /\ req[r].kind \in Transfers \cup Controls
       /\ req[r].size \in 0..Size[r] /\ req[r].sent \in 0..Size[r] /\ req[r].got \in 0..Size[r]
       /\ Len(inbox[r]) <= 2 * Window + 4
  /\ drop \in [Requests -> {"none", "forget", "cancel"}]
  /\ audit \in [Requests -> {"none", "running", "success", "failed", "lost"}]
  /\ xfer.req \in Requests \cup {None} /\ Len(xfer.queue) <= Window
  /\ temp \in [Requests -> {"none", "part", "left"}]
  /\ target \in Contents /\ backup \in [Requests -> Contents]

Init ==
  /\ conn = 0 /\ on = 0 /\ losses = 0 /\ link = [c \in Conns |-> "new"]
  /\ down = <<>> /\ frames = <<>> /\ up = <<>> /\ data = <<>>
  /\ active = None /\ pending = [r \in Requests |-> 0]
  /\ req = [r \in Requests |-> Idle]
  /\ inbox = [r \in Requests |-> <<>>]
  /\ drop = [r \in Requests |-> "none"]
  /\ audit = [r \in Requests |-> "none"]
  /\ xfer = NoXfer
  /\ temp = [r \in Requests |-> "none"]
  /\ target \in {None, Foreign}
  /\ backup = [r \in Requests |-> None]

-----------------------------------------------------------------------------
(* The connection *)

\* A message that is put on connection c reaches the agent when both ends of
\* the connection are there.
Reaches(c) == link[c] = "up" /\ on = c
\* The receiver of the connection's queue is dropped with its task.
Refuses(c) == link[c] = "gone"
Put(queue, c, m) == IF Reaches(c) THEN Append(queue, m) ELSE queue

\* The agent connects and replaces the connection the backend still has.
Connect(c) ==
  /\ on = 0 /\ link[c] = "new" /\ \A d \in Conns : d < c => link[d] # "new"
  /\ on' = c /\ conn' = c
  /\ link' = [d \in Conns |-> IF d = c THEN "up"
                              ELSE IF link[d] = "up" THEN "closing" ELSE link[d]]
  /\ UNCHANGED <<losses, wires, server, xfer, disk>>

\* One end gives the connection up, or notices that the other one did.
Parts(cause) ==
  IF cause THEN UNCHANGED losses ELSE losses < MaxLosses /\ losses' = losses + 1

\* The backend's loop ends: a closed socket, a heartbeat, a failed send, a
\* full queue.  The connection is removed from the registry first.
Lose(c) ==
  /\ link[c] = "up"
  /\ link' = [link EXCEPT ![c] = "closing"]
  /\ conn' = IF conn = c THEN 0 ELSE conn
  /\ Parts(on # c)
  /\ UNCHANGED <<on, wires, server, xfer, disk>>

\* close_connection_file_requests: every request registered for the connection
\* is removed and told.
Swept(c) == {r \in Requests : pending[r] = c}
Sweep(c) ==
  /\ link[c] = "closing"
  /\ link' = [link EXCEPT ![c] = "swept"]
  /\ pending' = [r \in Requests |-> IF r \in Swept(c) THEN 0 ELSE pending[r]]
  /\ inbox' = [r \in Requests |-> IF r \in Swept(c) /\ Len(inbox[r]) < 2 * Window + 4
                                  THEN Append(inbox[r], Msg(r, "gone", 0)) ELSE inbox[r]]
  /\ UNCHANGED <<conn, on, losses, wires, active, req, drop, audit, xfer, disk>>

\* The task of the connection ends and drops its queues.
Vanish(c) ==
  /\ link[c] = "swept"
  /\ link' = [link EXCEPT ![c] = "gone"]
  /\ UNCHANGED <<conn, on, losses, wires, server, xfer, disk>>

-----------------------------------------------------------------------------
(* The handler of a request *)

\* A request takes the handle of the connection that is registered now.
Taken(r, k, o, n) ==
  /\ req[r].at = "idle" /\ conn # 0
  /\ req' = [req EXCEPT ![r] = [Idle EXCEPT !.at = IF k \in Transfers THEN "agent" ELSE "slot",
                                            !.kind = k, !.over = o, !.size = n, !.conn = conn]]
  /\ UNCHANGED <<net, wires, active, pending, inbox, drop, audit, xfer, disk>>
BeginControl(r, k, o) == k \in Controls /\ (o => k = "move") /\ Taken(r, k, o, 0)
BeginUpload(r, o, n) == Taken(r, "upload", o, n)
BeginDownload(r) == Taken(r, "download", FALSE, 0)

\* register_request: a transfer takes the slot of the instance, or is refused.
TakeSlot(r) ==
  /\ req[r].at = "agent"
  /\ IF active = None
     THEN active' = r /\ req' = [req EXCEPT ![r].at = "slot"]
     ELSE req' = [req EXCEPT ![r].at = "failed"] /\ UNCHANGED active
  /\ UNCHANGED <<net, wires, pending, inbox, drop, audit, xfer, disk>>

\* The handler ends without an answer and drops its RequestCleanup, which
\* spawns the task that forgets the request.  The handler of a download awaits
\* the end of its audit event before that (Recorded).
Fails(r) ==
  /\ req' = [req EXCEPT ![r].at = "failed"]
  /\ drop' = [drop EXCEPT ![r] = "forget"]
  /\ UNCHANGED audit

\* The request is registered, its cleanup exists from here on, and the first
\* message is sent.
Register(r) ==
  LET c == req[r].conn IN
  /\ req[r].at = "slot"
  /\ pending' = [pending EXCEPT ![r] = c]
  /\ IF Refuses(c)
     THEN Fails(r) /\ UNCHANGED down
     ELSE /\ down' = Put(down, c, Msg(r, "start", 0))
          /\ req' = [req EXCEPT ![r].at = "starting"]
          /\ UNCHANGED <<drop, audit>>
  /\ UNCHANGED <<net, frames, up, data, active, inbox, xfer, disk>>

\* The browser goes away and the handler is dropped where it waits.  Before
\* the cleanup exists nothing undoes what was taken.
LeavesEarly(r) ==
  /\ req[r].at \in {"agent", "slot"}
  /\ req' = [req EXCEPT ![r].at = "abandoned"]
  /\ UNCHANGED drop

\* What becomes of the audit event: one that is inserted for a body that was
\* never polled has no guard yet; the guard spawns a write, which may fail.
Audited(r) ==
  CASE req[r].at = "ready"     -> {"none", "lost"}
    [] req[r].at = "opened"    -> {"lost"}
    [] audit[r] = "running"    -> {"failed", "lost"}
    [] OTHER                   -> {audit[r]}

Leave(r) ==
  /\ req[r].at \notin {"idle"} \cup Over
  /\ \/ LeavesEarly(r)
     \/ /\ req[r].at \notin {"agent", "slot"}
        /\ req' = [req EXCEPT ![r].at = "failed"]
        /\ drop' = [drop EXCEPT ![r] = "forget"]
  /\ \E a \in Audited(r) : audit' = [audit EXCEPT ![r] = a]
  /\ UNCHANGED <<net, wires, active, pending, inbox, xfer, disk>>

\* No event for CONTROL_TIMEOUT or TRANSFER_IDLE_TIMEOUT.
Awaits(r) ==
  \/ req[r].at \in {"starting", "finishing"}
  \/ req[r].at = "streaming" /\ req[r].kind = "download"
  \/ /\ req[r].at = "streaming" /\ req[r].kind = "upload"
     /\ \/ req[r].sent - req[r].got >= Window
        \/ req[r].sent = req[r].size /\ req[r].got < req[r].sent

\* TimeoutStreams: Faulty: only the stream of a transfer has a time limit.
TimeoutStreams(r) ==
  /\ Awaits(r) /\ inbox[r] = <<>> /\ req[r].at = "streaming"
  /\ Fails(r)
  /\ UNCHANGED <<net, wires, active, pending, inbox, xfer, disk>>
Timeout(r) ==
  /\ Awaits(r) /\ inbox[r] = <<>>
  /\ Fails(r)
  /\ UNCHANGED <<net, wires, active, pending, inbox, xfer, disk>>

\* Upload: one more chunk of the body while the window has room.
\* RoomOff: Faulty: one chunk more than the window.
RoomOff(r) == req[r].sent - req[r].got <= Window
Room(r) == req[r].sent - req[r].got < Window

\* MoreOff: Faulty: a body longer than its declared length goes through.
MoreOff(r) == req[r].sent <= req[r].size
More(r) == req[r].sent < req[r].size

SendChunk(r) ==
  LET c == req[r].conn IN
  /\ req[r].at = "streaming" /\ req[r].kind = "upload"
  /\ More(r) /\ Room(r)
  /\ IF Refuses(c)
     THEN Fails(r) /\ UNCHANGED frames
     ELSE /\ frames' = Put(frames, c, Msg(r, "chunk", req[r].sent))
          /\ req' = [req EXCEPT ![r].sent = @ + 1]
          /\ UNCHANGED <<drop, audit>>
  /\ UNCHANGED <<net, down, up, data, active, pending, inbox, xfer, disk>>

\* The body breaks off or is shorter than its declared length.
BodyBreaks(r) ==
  /\ req[r].at = "streaming" /\ req[r].kind = "upload" /\ req[r].sent < req[r].size
  /\ Fails(r)
  /\ UNCHANGED <<net, wires, active, pending, inbox, xfer, disk>>

\* Upload: every chunk was acknowledged, the agent is asked to finish.
SendFinish(r) ==
  LET c == req[r].conn IN
  /\ req[r].at = "streaming" /\ req[r].kind = "upload"
  /\ req[r].sent = req[r].size /\ req[r].got = req[r].sent
  /\ IF Refuses(c)
     THEN Fails(r) /\ UNCHANGED down
     ELSE /\ down' = Put(down, c, Msg(r, "finish", 0))
          /\ req' = [req EXCEPT ![r].at = "finishing"]
          /\ UNCHANGED <<drop, audit>>
  /\ UNCHANGED <<net, frames, up, data, active, pending, inbox, xfer, disk>>

\* Download: the audit event is written and the response returned; then the
\* body is polled for the first time.
OpenStream(r) ==
  /\ req[r].at = "ready"
  /\ audit' = [audit EXCEPT ![r] = "running"]
  /\ req' = [req EXCEPT ![r].at = "opened"]
  /\ UNCHANGED <<net, wires, active, pending, inbox, drop, xfer, disk>>
Poll(r) ==
  /\ req[r].at = "opened"
  /\ req' = [req EXCEPT ![r].at = "streaming"]
  /\ UNCHANGED <<net, wires, active, pending, inbox, drop, audit, xfer, disk>>

\* RequestCleanup.release: the request is answered.  A download awaits the end
\* of its audit event after that.
Answered(r) ==
  /\ req' = [req EXCEPT ![r].at = "done"]
  /\ pending' = [pending EXCEPT ![r] = 0]
  /\ active' = IF active = r THEN None ELSE active
  /\ UNCHANGED <<drop, audit, down>>

\* DownloadAuditGuard.finish: the end of the audit event is written.
Recorded(r) ==
  /\ req[r].at \in Over /\ audit[r] = "running"
  /\ audit' = [audit EXCEPT ![r] = IF req[r].at = "done" THEN "success" ELSE "failed"]
  /\ UNCHANGED <<net, wires, active, pending, req, inbox, drop, xfer, disk>>

\* The guard counts as finished before its write: a write that fails, or is
\* dropped with its handler, leaves the event running for good.
Unrecorded(r) ==
  /\ req[r].at \in Over /\ audit[r] = "running"
  /\ audit' = [audit EXCEPT ![r] = "lost"]
  /\ UNCHANGED <<net, wires, active, pending, req, inbox, drop, xfer, disk>>

\* The first response: the result of a control request, or ready to transfer.
OnStart(r, e) ==
  IF e.type = "ready" /\ req[r].kind \in Transfers
  THEN /\ req' = [req EXCEPT ![r].at = IF @ = "starting" /\ req[r].kind = "upload"
                                       THEN "streaming" ELSE "ready",
                             ![r].size = e.n]
       /\ UNCHANGED <<pending, active, drop, audit, down>>
  ELSE IF e.type = "result" THEN Answered(r)
  ELSE Fails(r) /\ UNCHANGED <<pending, active, down>>

\* An upload in its window takes acknowledgements in order only.
OnAck(r, e) ==
  IF e.type = "ack" /\ e.n = req[r].got
  THEN /\ req' = [req EXCEPT ![r].got = @ + 1]
       /\ UNCHANGED <<pending, active, drop, audit, down>>
  ELSE Fails(r) /\ UNCHANGED <<pending, active, down>>

\* The agent reports the file in place.
\* OnFinishAny: Faulty: any response is taken for the completion.
OnFinishAny(r, e) == Answered(r)
OnFinish(r, e) ==
  IF e.type = "complete" /\ e.n = req[r].size THEN Answered(r)
  ELSE Fails(r) /\ UNCHANGED <<pending, active, down>>

\* The stream of a download: chunks in order, each acknowledged, until the
\* agent says that it sent everything.
OnStream(r, e) ==
  LET c == req[r].conn IN
  IF e.type = "chunk" /\ e.n = req[r].got /\ e.n < req[r].size /\ ~Refuses(c)
  THEN /\ req' = [req EXCEPT ![r].got = @ + 1]
       /\ down' = Put(down, c, Msg(r, "ack", e.n))
       /\ UNCHANGED <<pending, active, drop, audit>>
  ELSE IF e.type = "complete" /\ e.n = req[r].size /\ req[r].got = req[r].size
  THEN Answered(r)
  ELSE Fails(r) /\ UNCHANGED <<pending, active, down>>

Receive(r) ==
  /\ inbox[r] # <<>> /\ Awaits(r)
  /\ inbox' = [inbox EXCEPT ![r] = Tail(@)]
  /\ LET e == Head(inbox[r]) IN
     CASE req[r].at = "starting"  -> OnStart(r, e)
       [] req[r].at = "finishing" -> OnFinish(r, e)
       [] req[r].at = "streaming" /\ req[r].kind = "upload"   -> OnAck(r, e)
       [] req[r].at = "streaming" /\ req[r].kind = "download" -> OnStream(r, e)
  /\ UNCHANGED <<net, frames, up, data, xfer, disk>>

\* The task that the dropped cleanup spawned: the request is removed and its
\* slot freed, then a transfer is cancelled at the agent if its connection is
\* still the one.
\* ForgetOnly: Faulty: the cleanup of a transfer does not cancel it.
ForgetOnly(r) ==
  /\ drop[r] = "forget" /\ audit[r] # "running"
  /\ pending' = [pending EXCEPT ![r] = 0]
  /\ active' = IF active = r THEN None ELSE active
  /\ drop' = [drop EXCEPT ![r] = "none"]
  /\ UNCHANGED <<net, wires, req, inbox, audit, xfer, disk>>
Forget(r) ==
  /\ drop[r] = "forget" /\ audit[r] # "running"
  /\ pending' = [pending EXCEPT ![r] = 0]
  /\ active' = IF active = r THEN None ELSE active
  /\ drop' = [drop EXCEPT ![r] = IF req[r].kind \in Transfers THEN "cancel" ELSE "none"]
  /\ UNCHANGED <<net, wires, req, inbox, audit, xfer, disk>>

Cancel(r) ==
  /\ drop[r] = "cancel"
  /\ drop' = [drop EXCEPT ![r] = "none"]
  /\ down' = IF conn = req[r].conn THEN Put(down, conn, Msg(r, "cancel", 0)) ELSE down
  /\ UNCHANGED <<net, frames, up, data, active, pending, req, inbox, audit, xfer, disk>>

\* handle_agent_file_response, handle_agent_file_binary: an event reaches the
\* request it names if that still waits for this connection.  A chunk that does
\* not fit makes the agent stop.
Delivered(m) == /\ pending[m.req] = on /\ Len(inbox[m.req]) < 2 * Window + 4
Response ==
  /\ up # <<>> /\ link[on] = "up"
  /\ up' = Tail(up)
  /\ LET m == Head(up) IN
     inbox' = IF Delivered(m) THEN [inbox EXCEPT ![m.req] = Append(@, m)] ELSE inbox
  /\ UNCHANGED <<net, down, frames, data, active, pending, req, drop, audit, xfer, disk>>
Chunk ==
  /\ data # <<>> /\ link[on] = "up"
  /\ data' = Tail(data)
  /\ LET m == Head(data) IN
     /\ inbox' = IF Delivered(m) THEN [inbox EXCEPT ![m.req] = Append(@, m)] ELSE inbox
     /\ down' = IF pending[m.req] = on /\ ~Delivered(m) /\ conn # 0
                THEN Put(down, conn, Msg(m.req, "cancel", 0)) ELSE down
  /\ UNCHANGED <<net, frames, up, active, pending, req, drop, audit, xfer, disk>>

-----------------------------------------------------------------------------
(* The agent: FileManager and the task of its transfer *)

Say(m) == up' = Append(up, m)
Ends == xfer' = NoXfer

\* The temporary file of the transfer is there no more, or as it says.
Temporary(a) == temp' = [r \in Requests |-> IF r = xfer.req THEN a ELSE temp[r]]

\* The task of an upload is aborted: what it waited for happens or not, and
\* UploadCleanup removes the temporary file with the task.  It exists only once
\* the file was opened: one that is being created is, and stays.
\* AbortedLeaves: Faulty: an aborted task leaves its temporary file.
AbortedLeaves == Ends /\ UNCHANGED disk
Aborted ==
  /\ Ends
  /\ Temporary("none") \/ (xfer.at = "creating" /\ Temporary("left"))
  /\ \/ UNCHANGED <<target, backup>>
     \/ /\ xfer.at = "backing"
        /\ backup' = [backup EXCEPT ![xfer.req] = target] /\ target' = None
     \/ /\ xfer.at = "renaming" /\ (xfer.over \/ target = None)
        /\ target' = xfer.req /\ UNCHANGED backup
     \/ /\ xfer.at = "clearing"
        /\ backup' = [backup EXCEPT ![xfer.req] = None] /\ UNCHANGED target

\* The connection of the agent ends: close_all aborts the transfer.
Disconnect ==
  /\ on # 0
  /\ on' = 0
  /\ down' = <<>> /\ frames' = <<>> /\ up' = <<>> /\ data' = <<>>
  /\ Aborted /\ Parts(link[on] # "up")
  /\ UNCHANGED <<conn, link, server>>

\* A control request is carried out in one piece.  A move that may not
\* overwrite fails where a file is.
Listed == UNCHANGED target
Deleted == target # None /\ target' = None
Moved(r) == (req[r].over \/ target = None) /\ target' = r
CarriedOut(r) ==
  \/ req[r].kind = "list" /\ Listed
  \/ req[r].kind = "delete" /\ Deleted
  \/ req[r].kind = "move" /\ Moved(r)

\* handle_request: a control request is done and answered, a transfer starts if
\* none runs.  Either is refused while the agent drains for an update.
Refused(r) == Say(Msg(r, "error", 0)) /\ UNCHANGED <<xfer, target>>
Control(r) ==
  /\ req[r].kind \in Controls
  /\ CarriedOut(r) /\ Say(Msg(r, "result", 0)) /\ UNCHANGED xfer
Free == xfer.req = None
Launched(r, n) ==
  /\ Free
  /\ xfer' = [NoXfer EXCEPT !.req = r, !.kind = req[r].kind, !.over = req[r].over, !.size = n]
  /\ UNCHANGED <<up, target>>
StartUpload(r, n) == req[r].kind = "upload" /\ n = req[r].size /\ Launched(r, n)
StartDownload(r, n) == req[r].kind = "download" /\ Launched(r, n)
Start(r, n) ==
  /\ down # <<>> /\ Head(down).type = "start" /\ Head(down).req = r
  /\ down' = Tail(down)
  /\ Refused(r) \/ Control(r) \/ StartUpload(r, n) \/ StartDownload(r, n)
  /\ UNCHANGED <<net, frames, data, server, temp, backup>>

\* What the transfer's own channel takes, or the transfer fails as busy.
Takes(m) ==
  IF xfer.req # m.req \/ (m.type = "ack") # (xfer.kind = "download")
  THEN UNCHANGED <<xfer, up, disk>>
  ELSE IF Len(xfer.queue) < Window
  THEN xfer' = [xfer EXCEPT !.queue = Append(@, m)] /\ UNCHANGED <<up, disk>>
  ELSE Aborted /\ Say(Msg(m.req, "error", 0))

FinishUpload ==
  /\ down # <<>> /\ Head(down).type = "finish"
  /\ down' = Tail(down)
  /\ Takes(Head(down))
  /\ UNCHANGED <<net, frames, data, server>>
AcknowledgeDownload ==
  /\ down # <<>> /\ Head(down).type = "ack"
  /\ down' = Tail(down)
  /\ Takes(Head(down))
  /\ UNCHANGED <<net, frames, data, server>>
Frame ==
  /\ frames # <<>>
  /\ frames' = Tail(frames)
  /\ Takes(Head(frames))
  /\ UNCHANGED <<net, down, data, server>>

\* cancel
Stop ==
  /\ down # <<>> /\ Head(down).type = "cancel"
  /\ down' = Tail(down)
  /\ IF xfer.req = Head(down).req THEN Aborted ELSE UNCHANGED <<xfer, disk>>
  /\ UNCHANGED <<net, frames, up, data, server>>

\* The transfer fails: the task reports, and UploadCleanup removes the file.
TaskFails ==
  /\ Say(Msg(xfer.req, "error", 0)) /\ Ends
  /\ Temporary("none")

\* run_upload looks whether there is a file of the name, which it does not
\* replace unless the request says so, and then creates its temporary file.
Look ==
  /\ xfer.req # None /\ xfer.kind = "upload" /\ xfer.at = "opening"
  /\ \/ TaskFails
     \/ /\ target = None \/ xfer.over
        /\ xfer' = [xfer EXCEPT !.at = "creating"] /\ UNCHANGED <<up, temp>>
  /\ UNCHANGED <<net, down, frames, data, server, target, backup>>

\* run_upload and run_download have opened their file.
Opening == IF xfer.kind = "upload" THEN "creating" ELSE "opening"
Open ==
  /\ xfer.req # None /\ xfer.at = Opening
  /\ \/ TaskFails
     \/ /\ Temporary(IF xfer.kind = "upload" THEN "part" ELSE "none")
        /\ xfer' = [xfer EXCEPT !.at = "moving"] /\ Say(Msg(xfer.req, "ready", xfer.size))
  /\ UNCHANGED <<net, down, frames, data, server, target, backup>>

\* An upload writes the next chunk, or goes on to its commit.
Write ==
  LET m == Head(xfer.queue) IN
  /\ xfer.req # None /\ xfer.kind = "upload" /\ xfer.at = "moving" /\ xfer.queue # <<>>
  /\ \/ TaskFails
     \/ /\ m.type = "chunk" /\ m.n = xfer.got /\ xfer.got < xfer.size
        /\ xfer' = [xfer EXCEPT !.queue = Tail(@), !.got = @ + 1]
        /\ Say(Msg(xfer.req, "ack", m.n)) /\ UNCHANGED temp
     \/ /\ m.type = "finish" /\ xfer.got = xfer.size
        /\ xfer' = [xfer EXCEPT !.queue = Tail(@), !.at = "checking"] /\ UNCHANGED <<up, temp>>
  /\ UNCHANGED <<net, down, frames, data, server, target, backup>>

\* commit_upload: what is there is looked at again, set aside, replaced, and
\* removed.  A failed rename puts it back.
Check ==
  /\ xfer.req # None /\ xfer.at = "checking"
  /\ IF target # None /\ ~xfer.over
     THEN TaskFails
     ELSE /\ xfer' = [xfer EXCEPT !.at = IF target = None THEN "renaming" ELSE "backing"]
          /\ UNCHANGED <<up, temp>>
  /\ UNCHANGED <<net, down, frames, data, server, target, backup>>
SetAside ==
  /\ xfer.req # None /\ xfer.at = "backing"
  /\ \/ /\ target # None
        /\ backup' = [backup EXCEPT ![xfer.req] = target] /\ target' = None
        /\ xfer' = [xfer EXCEPT !.at = "renaming"] /\ UNCHANGED <<up, temp>>
     \/ TaskFails /\ UNCHANGED <<backup, target>>
  /\ UNCHANGED <<net, down, frames, data, server>>

CanRename == xfer.over \/ target = None

Rename ==
  /\ xfer.req # None /\ xfer.at = "renaming" /\ CanRename
  /\ target' = xfer.req /\ temp' = [temp EXCEPT ![xfer.req] = "none"]
  /\ xfer' = [xfer EXCEPT !.at = "clearing"]
  /\ UNCHANGED <<net, wires, server, backup>>

\* PutBackNot: Faulty: a failed rename leaves the name empty.
PutBackNot(r) == target
PutBack(r) == IF backup[r] = None THEN target ELSE backup[r]

RenameFails ==
  /\ xfer.req # None /\ xfer.at = "renaming"
  /\ target' = PutBack(xfer.req) /\ backup' = [backup EXCEPT ![xfer.req] = None]
  /\ TaskFails
  /\ UNCHANGED <<net, down, frames, data, server>>
Committed ==
  /\ xfer.req # None /\ xfer.at = "clearing"
  /\ backup' = [backup EXCEPT ![xfer.req] = None]
  /\ Say(Msg(xfer.req, "complete", xfer.got)) /\ Ends
  /\ UNCHANGED <<net, down, frames, data, server, temp, target>>

\* A download fills its window, then takes acknowledgements in order, and ends
\* when everything was acknowledged.
InFlight == xfer.sent - xfer.got
Sending == xfer.req # None /\ xfer.kind = "download" /\ xfer.at = "moving"
Read ==
  /\ Sending /\ xfer.sent < xfer.size /\ InFlight < Window
  /\ \/ /\ data' = Append(data, Msg(xfer.req, "chunk", xfer.sent))
        /\ xfer' = [xfer EXCEPT !.sent = @ + 1] /\ UNCHANGED <<up, temp>>
     \/ TaskFails /\ UNCHANGED data
  /\ UNCHANGED <<net, down, frames, server, target, backup>>
TakeAck ==
  /\ Sending /\ InFlight > 0 /\ (xfer.sent = xfer.size \/ InFlight = Window)
  /\ xfer.queue # <<>>
  /\ IF Head(xfer.queue).n = xfer.got
     THEN xfer' = [xfer EXCEPT !.queue = Tail(@), !.got = @ + 1] /\ UNCHANGED <<up, temp>>
     ELSE TaskFails
  /\ UNCHANGED <<net, down, frames, data, server, target, backup>>
SentAll ==
  /\ Sending /\ xfer.sent = xfer.size /\ InFlight = 0
  /\ Say(Msg(xfer.req, "complete", xfer.size)) /\ Ends
  /\ UNCHANGED <<net, down, frames, data, server, disk>>

\* Another program creates the file of the name.
Created ==
  /\ target = None /\ Foreign \notin {backup[r] : r \in Requests}
  /\ target' = Foreign
  /\ UNCHANGED <<net, wires, server, xfer, temp, backup>>

-----------------------------------------------------------------------------
Next ==
  \/ \E c \in Conns : Connect(c) \/ Lose(c) \/ Sweep(c) \/ Vanish(c)
  \/ Disconnect
  \/ \E r \in Requests :
       \/ \E k \in Controls, o \in BOOLEAN : BeginControl(r, k, o)
       \/ \E o \in BOOLEAN, n \in 0..Size[r] : BeginUpload(r, o, n)
       \/ BeginDownload(r)
       \/ TakeSlot(r) \/ Register(r) \/ Leave(r) \/ Timeout(r) \/ Receive(r)
       \/ SendChunk(r) \/ BodyBreaks(r) \/ SendFinish(r) \/ OpenStream(r) \/ Poll(r)
       \/ Recorded(r) \/ Unrecorded(r) \/ Forget(r) \/ Cancel(r)
       \/ \E n \in 0..Size[r] : Start(r, n)
  \/ Response \/ Chunk \/ FinishUpload \/ AcknowledgeDownload \/ Frame \/ Stop
  \/ Look \/ Open \/ Write \/ Check \/ SetAside \/ Rename \/ RenameFails \/ Committed
  \/ Read \/ TakeAck \/ SentAll \/ Created

\* The handler goes on only when the browser does, or never if it neither goes
\* on nor away: an upload with room in its window waits for the next piece of
\* the body, a download until its body is polled and each chunk it yields is
\* taken.  Nothing limits the time of that.
Yields(r) ==
  /\ req[r].at = "streaming" /\ req[r].kind = "download" /\ inbox[r] # <<>>
  /\ Head(inbox[r]).type = "chunk" /\ Head(inbox[r]).n = req[r].got
  /\ req[r].got < req[r].size
AwaitsBrowser(r) ==
  \/ req[r].at = "streaming" /\ req[r].kind = "upload" /\ More(r) /\ Room(r)
  \/ req[r].at = "opened"
  \/ Yields(r)

\* Tasks go on, so do handlers that do not wait for their browser, timers fire,
\* and both ends notice a connection that the other left.
Handler(r) ==
  \/ TakeSlot(r) \/ Register(r) \/ Timeout(r) \/ (Receive(r) /\ ~Yields(r))
  \/ SendFinish(r) \/ OpenStream(r) \/ Recorded(r) \/ Unrecorded(r)
AgentLoop ==
  \/ \E r \in Requests : \E n \in 0..Size[r] : Start(r, n)
  \/ FinishUpload \/ AcknowledgeDownload \/ Frame \/ Stop
Task ==
  \/ Look \/ Open \/ Write \/ Check \/ SetAside \/ Rename \/ RenameFails \/ Committed
  \/ Read \/ TakeAck \/ SentAll
Fairness ==
  /\ \A c \in Conns : WF_vars((Lose(c) /\ on # c) \/ Sweep(c) \/ Vanish(c))
  /\ WF_vars(Disconnect /\ link[on] # "up")
  /\ \A r \in Requests : WF_vars(Handler(r)) /\ WF_vars(Forget(r) \/ Cancel(r))
  /\ WF_vars(Response \/ Chunk) /\ WF_vars(AgentLoop) /\ WF_vars(Task)

Spec == Init /\ [][Next]_vars
FairSpec == Spec /\ Fairness

-----------------------------------------------------------------------------
(* Properties *)

Of(q, r, types) == Cardinality({i \in 1..Len(q) : q[i].req = r /\ q[i].type \in types})

\* The window of a transfer is what the queues on its way hold: whatever is
\* under way to the task of a transfer fits its channel, and whatever is under
\* way to a handler fits its events.  No transfer fails for being too fast,
\* and no response is dropped.  (Every value has its type, too.)
QueuesHold ==
  /\ TypeOK
  /\ xfer.req # None =>
       Len(xfer.queue) + Of(frames, xfer.req, {"chunk"})
         + Of(down, xfer.req, {"finish", "ack"}) <= Window
  /\ \A r \in Requests :
       Len(inbox[r]) + Of(up, r, {"ready", "result", "ack", "complete", "error"})
         + Of(data, r, {"chunk"}) <= 2 * Window + 4

\* A temporary file that is written is there only while the task that writes it
\* runs, however an upload ends: by an error, a cancel or the end of the
\* connection.  What stays is the file of an upload that was aborted while the
\* file was being created, before anything removes it.
TempIsUsed == \A r \in Requests : temp[r] = "part" => xfer.req = r

\* A request that takes the file away from its name.
Moves(q) == req[q].kind \in {"delete", "move"} /\ req[q].at # "idle"

\* What the administrator is told: an upload that was answered is the file of
\* its name (or another request moved it), a download that was answered carried
\* every chunk, and only then does the audit call it a success.
DoneIsWhole ==
  [][\A r \in Requests :
       /\ req[r].at # "done" /\ req'[r].at = "done" =>
            /\ req[r].kind = "upload" => target = r \/ \E q \in Requests : Moves(q)
            /\ req[r].kind = "download" => req[r].got = req[r].size
       /\ audit[r] # "success" /\ audit'[r] = "success" =>
            req'[r].at = "done"]_vars

\* The last copy of a file is given up only by an upload that may overwrite,
\* and only when there is a file in its place: not by a failed or aborted
\* commit, and a file that appears while an upload that may not overwrite runs
\* is left alone.
Asked == down # <<>> /\ Head(down).type = "start" /\ Moves(Head(down).req)
Held(c) == target = c \/ \E r \in Requests : backup[r] = c
FileIsKept ==
  [][\A c \in Contents \ {None} :
       Held(c) /\ ~Held(c)' =>
         \/ Asked
         \/ xfer.over /\ (target' # None \/ \E q \in Requests : Moves(q))]_vars

\* Every request ends or waits for its browser, whatever is lost on the way and
\* also when it was registered after the sweep of its connection, and what it held
\* is given back: its slot, its registration, its running audit event.  A drop of
\* the handler between taking the slot and making the cleanup leaves the slot; an
\* audit event nobody writes any more is "lost", where Leave and Unrecorded say so.
GivenBack(r) ==
  /\ pending[r] = 0 /\ drop[r] = "none" /\ audit[r] # "running"
  /\ req[r].at # "abandoned" => active # r
RequestSettles ==
  \A r \in Requests :
    req[r].at # "idle" ~> ((req[r].at \in Over /\ GivenBack(r)) \/ AwaitsBrowser(r))

\* A transfer whose request is over ends at the agent too, where it would
\* refuse every other one and hold up an update.
AgentIsFreed ==
  \A r \in Requests : (xfer.req = r /\ req[r].at \in Over) ~> xfer.req # r

\* Both sides are through with a request.
TransferSettles == RequestSettles /\ AgentIsFreed
=============================================================================
