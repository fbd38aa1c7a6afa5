---------------------------- MODULE CommandJobs ----------------------------
(***************************************************************************)
(* Shell commands sent to one instance: the rows of command_jobs           *)
(* (backend/src/jobs.rs), the HTTP handlers that create and dispatch them, *)
(* the agent registry and the websocket tasks that own a connection        *)
(* (backend/src/ws.rs), disabling and deleting the instance                *)
(* (backend/src/handlers/mod.rs), the restart of the backend               *)
(* (backend/src/db.rs), and the agent that runs the commands               *)
(* (instanceEnd/src/ws.rs, command.rs).                                    *)
(*                                                                         *)
(* Every statement and handler of the code names the instance, and         *)
(* connection ids are unique, so instances do not interact: one is         *)
(* modelled.  A statement of the database and a section under the lock of  *)
(* the registry are one step each; everything between them interleaves.    *)
(* Database errors are not modelled.                                       *)
(*                                                                         *)
(* An operator that stands directly before another one of the same name    *)
(* with a suffix removed (CreateJobOffByOne before CreateJob) is a faulty  *)
(* variant of it; the README lists the property each of them breaks.       *)
(***************************************************************************)
EXTENDS Integers, Sequences, FiniteSets, SequencesExt

CONSTANTS
  Jobs,           \* ids of command_jobs rows, each used by one request
  Conns,          \* ids of agent connections, each used by one websocket
  Admins,         \* requests that disable or delete the instance
  None,           \* no connection
  MaxInflight,    \* MAX_INFLIGHT_COMMANDS_PER_INSTANCE
  MaxSlots,       \* MAX_CONCURRENT_COMMANDS of the agent
  DownCap,        \* AGENT_OUTBOUND_QUEUE_CAPACITY of the backend
  UpCap           \* AGENT_EVENT_QUEUE_CAPACITY of the agent

ASSUME NoneAssumption == None \notin Conns
ASSUME JobsAssumption == IsFiniteSet(Jobs)
ASSUME BoundAssumption ==
  MaxInflight \in Nat /\ MaxSlots \in Nat /\ DownCap \in Nat /\ UpCap \in Nat

VARIABLES
  (* the database *)
  instance,       \* "approved", "disabled", "deleted"
  status,         \* command_jobs.status
  owner,          \* command_jobs.agent_connection_id
  output,         \* command_jobs.output, up to what tells its writers apart
  overdue,        \* rows whose started_at is more than 60 minutes ago
  (* the backend's memory *)
  handler,        \* program point of the request that dispatches the job
  picked,         \* the connection id that request read
  registry,       \* state.agents[instance]: connection in use
  socket,         \* program point of agent_socket for a connection
  victim,         \* the connection it replaced
  shutdown,       \* connections whose shutdown watch was set
  down,           \* RunCommand messages queued for a connection
  revoke,         \* program point of a request that disables or deletes
  target,         \* the connection it took out of the registry
  (* the agent *)
  agentConn,      \* the connection the agent uses
  executing,      \* running commands, with the connection they report to
  up              \* messages on the way from the agent

db      == <<instance, status, owner, output, overdue>>
memory  == <<handler, picked, registry, socket, victim, shutdown, down,
             revoke, target>>
agent   == <<agentConn, executing, up>>
vars    == <<db, memory, agent>>

Statuses      == {"absent", "queued", "running", "completed", "failed", "deleted"}
HandlerPoints == {"idle", "created", "offline", "picked", "marked", "unsent",
                  "done", "dropped"}
SocketPoints  == {"none", "upgrading", "replacing", "checking", "rejecting",
                  "rejected", "open", "leaving", "failing", "closed"}
RevokePoints  == {"idle", "committed", "removed", "failing", "dropped"}
MaybeConn     == Conns \cup {None}
Messages      == [kind : {"output", "ok", "error"}, job : Jobs]

Inflight == {j \in Jobs : status[j] \in {"queued", "running"}}

Init ==
  /\ instance = "approved"
  /\ status = [j \in Jobs |-> "absent"]
  /\ owner = [j \in Jobs |-> None]
  /\ output = [j \in Jobs |-> "empty"]
  /\ overdue = {}
  /\ handler = [j \in Jobs |-> "idle"]
  /\ picked = [j \in Jobs |-> None]
  /\ registry = None
  /\ socket = [c \in Conns |-> "none"]
  /\ victim = [c \in Conns |-> None]
  /\ shutdown = {}
  /\ down = [c \in Conns |-> <<>>]
  /\ revoke = [a \in Admins |-> "idle"]
  /\ target = [a \in Admins |-> None]
  /\ agentConn = None
  /\ executing = {}
  /\ up = [c \in Conns |-> <<>>]

(***************************************************************************)
(* Statements on command_jobs.  Each changes the rows of a set at once.    *)
(***************************************************************************)
FailRows(rows) ==
  /\ status' = [j \in Jobs |-> IF j \in rows THEN "failed" ELSE status[j]]
  /\ output' = [j \in Jobs |-> IF j \in rows THEN "notice" ELSE output[j]]

RunningOn(c) == {j \in Jobs : status[j] = "running" /\ owner[j] = c}

\* fail_connection_command_jobs
FailConnectionJobsAnyStatus(c) ==
  FailRows({j \in Jobs : status[j] \in {"running", "completed"} /\ owner[j] = c})
FailConnectionJobs(c) == FailRows(RunningOn(c))

(***************************************************************************)
(* The request that runs a command: admin_run_whitelist_command calls      *)
(* create_command_job, then dispatch_command.  It is dropped, wherever it  *)
(* awaits, when its HTTP client goes away.                                 *)
(***************************************************************************)
CreateJobOffByOne(j) ==
  /\ status[j] = "absent" /\ handler[j] = "idle" /\ instance # "deleted"
  /\ Cardinality(Inflight) <= MaxInflight
  /\ status' = [status EXCEPT ![j] = "queued"]
  /\ handler' = [handler EXCEPT ![j] = "created"]
  /\ UNCHANGED <<instance, owner, output, overdue, picked, registry, socket,
                 victim, shutdown, down, revoke, target, agent>>
CreateJob(j) ==
  /\ status[j] = "absent" /\ handler[j] = "idle"
  /\ instance # "deleted"
  /\ Cardinality(Inflight) < MaxInflight
  /\ status' = [status EXCEPT ![j] = "queued"]
  /\ handler' = [handler EXCEPT ![j] = "created"]
  /\ UNCHANGED <<instance, owner, output, overdue, picked, registry, socket,
                 victim, shutdown, down, revoke, target, agent>>

PickConnectionForgetful(j) ==
  /\ handler[j] = "created"
  /\ picked' = [picked EXCEPT ![j] = registry]
  /\ handler' = [handler EXCEPT ![j] = IF registry = None THEN "done" ELSE "picked"]
  /\ UNCHANGED <<db, registry, socket, victim, shutdown, down, revoke, target, agent>>
PickConnection(j) ==
  /\ handler[j] = "created"
  /\ picked' = [picked EXCEPT ![j] = registry]
  /\ handler' = [handler EXCEPT ![j] = IF registry = None THEN "offline" ELSE "picked"]
  /\ UNCHANGED <<db, registry, socket, victim, shutdown, down, revoke, target, agent>>

\* fail_queued_command_job
FailOffline(j) ==
  /\ handler[j] = "offline"
  /\ FailRows({i \in {j} : status[i] = "queued"})
  /\ handler' = [handler EXCEPT ![j] = "done"]
  /\ UNCHANGED <<instance, owner, overdue, picked, registry, socket, victim,
                 shutdown, down, revoke, target, agent>>

MarkRunning(j) ==
  /\ handler[j] = "picked"
  /\ IF status[j] = "queued"
       THEN /\ status' = [status EXCEPT ![j] = "running"]
            /\ owner' = [owner EXCEPT ![j] = picked[j]]
            /\ handler' = [handler EXCEPT ![j] = "marked"]
       ELSE /\ handler' = [handler EXCEPT ![j] = "done"]
            /\ UNCHANGED <<status, owner>>
  /\ UNCHANGED <<instance, output, overdue, picked, registry, socket, victim,
                 shutdown, down, revoke, target, agent>>

SendCommandToCurrent(j) ==
  /\ handler[j] = "marked" /\ registry # None
  /\ down' = [down EXCEPT ![registry] = Append(@, j)]
  /\ handler' = [handler EXCEPT ![j] = "done"]
  /\ UNCHANGED <<db, picked, registry, socket, victim, shutdown, revoke, target, agent>>
SendCommandIgnoringError(j) ==
  /\ handler[j] = "marked"
  /\ IF registry = picked[j] THEN down' = [down EXCEPT ![picked[j]] = Append(@, j)]
                             ELSE UNCHANGED down
  /\ handler' = [handler EXCEPT ![j] = "done"]
  /\ UNCHANGED <<db, picked, registry, socket, victim, shutdown, revoke, target, agent>>
\* A full queue sets the shutdown watch of the connection: AgentOutboundSender.
SendCommand(j) ==
  LET c == picked[j] IN
  /\ handler[j] = "marked"
  /\ \/ /\ registry = c /\ Len(down[c]) < DownCap
        /\ down' = [down EXCEPT ![c] = Append(@, j)]
        /\ handler' = [handler EXCEPT ![j] = "done"]
        /\ UNCHANGED shutdown
     \/ /\ registry = c /\ Len(down[c]) >= DownCap
        /\ shutdown' = shutdown \cup {c}
        /\ handler' = [handler EXCEPT ![j] = "unsent"]
        /\ UNCHANGED down
     \/ /\ registry # c
        /\ handler' = [handler EXCEPT ![j] = "unsent"]
        /\ UNCHANGED <<shutdown, down>>
  /\ UNCHANGED <<db, picked, registry, socket, victim, revoke, target, agent>>

\* fail_running_command_job
FailUnsent(j) ==
  /\ handler[j] = "unsent"
  /\ FailRows({i \in {j} : status[i] = "running" /\ owner[i] = picked[i]})
  /\ handler' = [handler EXCEPT ![j] = "done"]
  /\ UNCHANGED <<instance, owner, overdue, picked, registry, socket, victim,
                 shutdown, down, revoke, target, agent>>

DropHandler(j) ==
  /\ handler[j] \in {"created", "offline", "picked", "marked", "unsent"}
  /\ handler' = [handler EXCEPT ![j] = "dropped"]
  /\ UNCHANGED <<db, picked, registry, socket, victim, shutdown, down, revoke, target, agent>>

(***************************************************************************)
(* expire_command_jobs, every 30 seconds; and the clock.                   *)
(***************************************************************************)
BecomeOverdue(j) ==
  /\ status[j] = "running" /\ j \notin overdue
  /\ overdue' = overdue \cup {j}
  /\ UNCHANGED <<instance, status, owner, output, memory, agent>>

ExpiredQueued == {j \in overdue : status[j] = "queued"}
Expired == {j \in overdue : status[j] = "running"}

ExpireJobs ==
  /\ Expired # {}
  /\ FailRows(Expired)
  /\ UNCHANGED <<instance, owner, overdue, memory, agent>>

(***************************************************************************)
(* agent_ws and agent_socket: one websocket task per connection.           *)
(***************************************************************************)
\* The upgrade request checks the instance; the task starts later.
Upgrade(c) ==
  /\ socket[c] = "none" /\ agentConn = None /\ instance = "approved"
  /\ socket' = [socket EXCEPT ![c] = "upgrading"]
  /\ agentConn' = c
  /\ UNCHANGED <<db, handler, picked, registry, victim, shutdown, down, revoke,
                 target,                 executing, up>>

RegisterSocket(c) ==
  /\ socket[c] = "upgrading"
  /\ registry' = c
  /\ victim' = [victim EXCEPT ![c] = registry]
  /\ IF registry = None
       THEN /\ socket' = [socket EXCEPT ![c] = "checking"]
            /\ UNCHANGED shutdown
       ELSE /\ socket' = [socket EXCEPT ![c] = "replacing"]
            /\ shutdown' = shutdown \cup {registry}
  /\ UNCHANGED <<db, handler, picked, down, revoke, target, agent>>

FailReplaced(c) ==
  /\ socket[c] = "replacing"
  /\ FailConnectionJobs(victim[c])
  /\ socket' = [socket EXCEPT ![c] = "checking"]
  /\ victim' = [victim EXCEPT ![c] = None]
  /\ UNCHANGED <<instance, owner, overdue, handler, picked, registry, shutdown,
                 down, revoke, target, agent>>

AuthorizeOnUpgrade(c) ==
  /\ socket[c] = "checking"
  /\ socket' = [socket EXCEPT ![c] = "open"]
  /\ UNCHANGED <<db, handler, picked, registry, victim, shutdown, down, revoke, target, agent>>
Authorize(c) ==
  /\ socket[c] = "checking"
  /\ socket' = [socket EXCEPT ![c] = IF instance = "approved" THEN "open" ELSE "rejecting"]
  /\ UNCHANGED <<db, handler, picked, registry, victim, shutdown, down, revoke, target, agent>>

\* remove_current_agent
RemoveCurrentOnlyOthers(c) == registry' = IF registry # c THEN None ELSE registry
RemoveCurrent(c) == registry' = IF registry = c THEN None ELSE registry

\* The early return of an unauthorized socket leaves the jobs alone.
RejectSocket(c) ==
  /\ socket[c] = "rejecting"
  /\ RemoveCurrent(c)
  /\ socket' = [socket EXCEPT ![c] = "rejected"]
  /\ down' = [down EXCEPT ![c] = <<>>]
  /\ up' = [up EXCEPT ![c] = <<>>]
  /\ UNCHANGED <<db, handler, picked, victim, shutdown, revoke, target, agentConn, executing>>

\* Shutdown watch, closed or failed socket, heartbeat timeout, oversized message.
LeaveLoop(c) ==
  /\ socket[c] = "open"
  /\ socket' = [socket EXCEPT ![c] = "leaving"]
  /\ UNCHANGED <<db, handler, picked, registry, victim, shutdown, down, revoke, target, agent>>

UnregisterEarlyReturn(c) ==
  /\ socket[c] = "leaving"
  /\ RemoveCurrent(c)
  /\ socket' = [socket EXCEPT ![c] = IF registry = c THEN "failing" ELSE "closed"]
  /\ down' = [down EXCEPT ![c] = <<>>]
  /\ up' = [up EXCEPT ![c] = <<>>]
  /\ UNCHANGED <<db, handler, picked, victim, shutdown, revoke, target, agentConn, executing>>
Unregister(c) ==
  /\ socket[c] = "leaving"
  /\ RemoveCurrent(c)
  /\ socket' = [socket EXCEPT ![c] = "failing"]
  /\ down' = [down EXCEPT ![c] = <<>>]
  /\ up' = [up EXCEPT ![c] = <<>>]
  /\ UNCHANGED <<db, handler, picked, victim, shutdown, revoke, target, agentConn, executing>>

FailOnExit(c) ==
  /\ socket[c] = "failing"
  /\ FailConnectionJobs(c)
  /\ socket' = [socket EXCEPT ![c] = "closed"]
  /\ UNCHANGED <<instance, owner, overdue, handler, picked, registry, victim,
                 shutdown, down, revoke, target, agent>>

(***************************************************************************)
(* The two directions of an open socket.                                   *)
(***************************************************************************)
\* The message is lost when the agent has already left the connection.
\* Otherwise the agent starts the command, or refuses it: no free slot, or
\* an update is draining its activity (the choice of refused).
DeliverCommand(c, refused) ==
  LET j == Head(down[c]) IN
  /\ socket[c] = "open" /\ down[c] # <<>>
  /\ down' = [down EXCEPT ![c] = Tail(@)]
  /\ \/ /\ agentConn # c
        /\ UNCHANGED <<agentConn, executing, up>>
     \/ /\ agentConn = c /\ ~refused /\ Cardinality(executing) < MaxSlots
        /\ executing' = executing \cup {[job |-> j, conn |-> c]}
        /\ UNCHANGED <<agentConn, up>>
     \/ /\ agentConn = c /\ (refused \/ Cardinality(executing) >= MaxSlots)
        /\ Len(up[c]) < UpCap
        /\ up' = [up EXCEPT ![c] = Append(@, [kind |-> "error", job |-> j])]
        /\ UNCHANGED <<agentConn, executing>>
     \/ /\ agentConn = c /\ (refused \/ Cardinality(executing) >= MaxSlots)
        /\ Len(up[c]) >= UpCap
        /\ agentConn' = None
        /\ UNCHANGED <<executing, up>>
  /\ UNCHANGED <<db, handler, picked, registry, socket, victim, shutdown,
                 revoke, target>>

\* Both statements match the row by instance, connection and status.
AcceptsStale(c, j) == owner[j] = c
Accepts(c, j) == status[j] = "running" /\ owner[j] = c

\* append_command_job_output keeps the old text when the limit would be passed.
\* complete_command_job stores the whole result over the streamed output.
ReceiveMessage(c) ==
  LET m == Head(up[c]) IN
  /\ socket[c] = "open" /\ up[c] # <<>>
  /\ up' = [up EXCEPT ![c] = Tail(@)]
  /\ \/ /\ Accepts(c, m.job) /\ m.kind = "output"
        /\ \E text \in {"partial", output[m.job]} :
             output' = [output EXCEPT ![m.job] = text]
        /\ UNCHANGED status
     \/ /\ Accepts(c, m.job) /\ m.kind # "output"
        /\ status' = [status EXCEPT ![m.job] = IF m.kind = "ok" THEN "completed" ELSE "failed"]
        /\ output' = [output EXCEPT ![m.job] = "result"]
     \/ /\ ~Accepts(c, m.job)
        /\ UNCHANGED <<status, output>>
  /\ UNCHANGED <<instance, owner, overdue, memory, agentConn, executing>>

(***************************************************************************)
(* The agent: dispatch_command_job runs the command in a task of its own,  *)
(* which outlives the connection it reports to.  A full event queue makes  *)
(* the agent reconnect.                                                    *)
(***************************************************************************)
Report(c, m) ==
  \/ /\ agentConn = c /\ Len(up[c]) < UpCap
     /\ up' = [up EXCEPT ![c] = Append(@, m)]
     /\ UNCHANGED agentConn
  \/ /\ agentConn = c /\ Len(up[c]) >= UpCap
     /\ agentConn' = None
     /\ UNCHANGED up
  \/ /\ agentConn # c
     /\ UNCHANGED <<agentConn, up>>

StreamOutput(run) ==
  /\ agentConn = run.conn
  /\ Report(run.conn, [kind |-> "output", job |-> run.job])
  /\ UNCHANGED <<db, memory, executing>>

FinishCommand(run, kind) ==
  /\ executing' = executing \ {run}
  /\ Report(run.conn, [kind |-> kind, job |-> run.job])
  /\ UNCHANGED <<db, memory>>

AgentDisconnect ==
  /\ agentConn # None
  /\ agentConn' = None
  /\ UNCHANGED <<db, memory, executing, up>>

AgentCrash ==
  /\ executing # {}
  /\ agentConn' = None
  /\ executing' = {}
  /\ UNCHANGED <<db, memory, up>>

(***************************************************************************)
(* Disabling or deleting the instance: a transaction, then                 *)
(* revoke_instance_connection, which waits for the alert of the lost       *)
(* connection between taking the handle out and setting its watch.         *)
(***************************************************************************)
Revoking(a, at, c) ==
  /\ revoke' = [revoke EXCEPT ![a] = at]
  /\ target' = [target EXCEPT ![a] = c]

DisableInstance(a) ==
  /\ revoke[a] \in {"idle", "dropped"} /\ instance # "deleted"
  /\ instance' = "disabled"
  /\ Revoking(a, "committed", None)
  /\ UNCHANGED <<status, owner, output, overdue, handler, picked, registry, socket,
                 victim, shutdown, down, agent>>

DeleteInstance(a) ==
  /\ revoke[a] \in {"idle", "dropped"} /\ instance # "deleted"
  /\ instance' = "deleted"
  /\ status' = [j \in Jobs |-> IF status[j] = "absent" THEN "absent" ELSE "deleted"]
  /\ Revoking(a, "committed", None)
  /\ UNCHANGED <<owner, output, overdue, handler, picked, registry, socket,
                 victim, shutdown, down, agent>>

RevokeRemove(a) ==
  /\ revoke[a] = "committed"
  /\ registry' = None
  /\ IF registry = None THEN Revoking(a, "idle", None)
                        ELSE Revoking(a, "removed", registry)
  /\ UNCHANGED <<db, handler, picked, socket, victim, shutdown, down, agent>>

RevokeShutdown(a) ==
  /\ revoke[a] = "removed"
  /\ shutdown' = shutdown \cup {target[a]}
  /\ Revoking(a, "failing", target[a])
  /\ UNCHANGED <<db, handler, picked, registry, socket, victim, down, agent>>

RevokeFail(a) ==
  /\ revoke[a] = "failing"
  /\ FailConnectionJobs(target[a])
  /\ Revoking(a, "idle", None)
  /\ UNCHANGED <<instance, owner, overdue, handler, picked, registry, socket,
                 victim, shutdown, down, agent>>

\* Dropped with the handle in its hands, the request closes the watch unless a
\* session still holds a clone of it.
DropRevoke(a) ==
  /\ \/ /\ revoke[a] = "committed"
        /\ Revoking(a, "dropped", None)
        /\ UNCHANGED shutdown
     \/ /\ revoke[a] = "removed"
        /\ Revoking(a, "idle", None)
        /\ \/ shutdown' = shutdown \cup {target[a]}
           \/ UNCHANGED shutdown
     \/ /\ revoke[a] = "failing"
        /\ Revoking(a, "idle", None)
        /\ UNCHANGED shutdown
  /\ UNCHANGED <<db, handler, picked, registry, socket, victim, down, agent>>

\* A deleted agent registers again and is approved again.
ApproveInstance ==
  /\ instance = "deleted"
  /\ instance' = "approved"
  /\ UNCHANGED <<status, owner, output, overdue, memory, agent>>

(***************************************************************************)
(* The backend stops and starts: its memory is gone, and the startup of    *)
(* db.rs fails every job that was under way.                               *)
(***************************************************************************)
RestartBackend ==
  /\ FailRows(Inflight)
  /\ handler' = [j \in Jobs |-> IF handler[j] \in {"idle", "done"} THEN handler[j] ELSE "dropped"]
  /\ registry' = None
  /\ socket' = [c \in Conns |-> IF socket[c] = "none" THEN "none" ELSE "closed"]
  /\ shutdown' = {}
  /\ down' = [c \in Conns |-> <<>>]
  /\ revoke' = [a \in Admins |-> "idle"]
  /\ target' = [a \in Admins |-> None]
  /\ agentConn' = None
  /\ up' = [c \in Conns |-> <<>>]
  /\ UNCHANGED <<instance, owner, overdue, picked, victim, executing>>

-----------------------------------------------------------------------------

HandlerStep(j) == \/ PickConnection(j) \/ FailOffline(j) \/ MarkRunning(j)
                  \/ SendCommand(j) \/ FailUnsent(j)

SocketStep(c) == \/ RegisterSocket(c) \/ FailReplaced(c) \/ Authorize(c)
                 \/ RejectSocket(c) \/ Unregister(c) \/ FailOnExit(c)

RevokeStep(a) == \/ RevokeRemove(a) \/ RevokeShutdown(a) \/ RevokeFail(a)

Next ==
  \/ \E j \in Jobs : CreateJob(j) \/ HandlerStep(j) \/ DropHandler(j) \/ BecomeOverdue(j)
  \/ ExpireJobs
  \/ \E c \in Conns : \/ Upgrade(c) \/ SocketStep(c) \/ LeaveLoop(c) \/ ReceiveMessage(c)
                      \/ \E refused \in BOOLEAN : DeliverCommand(c, refused)
  \/ \E run \in executing : \/ StreamOutput(run)
                            \/ \E kind \in {"ok", "error"} : FinishCommand(run, kind)
  \/ AgentDisconnect \/ AgentCrash
  \/ \E a \in Admins : \/ DisableInstance(a) \/ DeleteInstance(a)
                       \/ RevokeStep(a) \/ DropRevoke(a)
  \/ ApproveInstance
  \/ RestartBackend

Spec == Init /\ [][Next]_vars

\* The tasks of the runtime are scheduled, time passes and the loop ticks.
\* Nothing is assumed of the agent, of the network or of the administrators.
Fairness ==
  /\ \A j \in Jobs : WF_vars(HandlerStep(j)) /\ WF_vars(BecomeOverdue(j))
  /\ \A c \in Conns : WF_vars(SocketStep(c)) /\ WF_vars(c \in shutdown /\ LeaveLoop(c))
  /\ \A a \in Admins : WF_vars(RevokeStep(a))
  /\ WF_vars(ExpireJobs)

FairSpec == Spec /\ Fairness

-----------------------------------------------------------------------------

TypeOK ==
  /\ instance \in {"approved", "disabled", "deleted"}
  /\ status \in [Jobs -> Statuses]
  /\ owner \in [Jobs -> MaybeConn]
  /\ output \in [Jobs -> {"empty", "partial", "result", "notice"}]
  /\ overdue \subseteq Jobs
  /\ handler \in [Jobs -> HandlerPoints]
  /\ picked \in [Jobs -> MaybeConn]
  /\ registry \in MaybeConn
  /\ socket \in [Conns -> SocketPoints]
  /\ victim \in [Conns -> MaybeConn]
  /\ shutdown \subseteq Conns
  /\ down \in [Conns -> Seq(Jobs)]
  /\ revoke \in [Admins -> RevokePoints]
  /\ target \in [Admins -> MaybeConn]
  /\ agentConn \in MaybeConn
  /\ executing \subseteq [job : Jobs, conn : Conns]
  /\ up \in [Conns -> Seq(Messages)]

\* A request that works on a connection has one.
HandlesHeld ==
  /\ \A j \in Jobs : handler[j] \in {"picked", "marked", "unsent"} => picked[j] # None
  /\ \A a \in Admins : revoke[a] \in {"removed", "failing"} => target[a] # None

\* A row knows its connection from the moment it is running, never before, and
\* so does the request that is dispatching it.
OwnerAgrees ==
  \A j \in Jobs :
    /\ owner[j] # None => status[j] \notin {"absent", "queued"}
    /\ status[j] = "running" => owner[j] # None
    /\ handler[j] \in {"marked", "unsent"} => owner[j] = picked[j]

\* The registry only names a connection whose task is still going to take it
\* out again: dispatch_command relies on this when it sends under the lock.
Registered == {"replacing", "checking", "rejecting", "open", "leaving"}
RegistryIsLive == registry # None => socket[registry] \in Registered

\* Who is still bound to finish a running job, besides the 60-minute limit:
\* the task of its connection before its last statement, or the request that
\* has not handed the command over.
TaskWillFail(c) == socket[c] \in {"replacing", "checking", "open", "leaving", "failing"}
\* Jobs only the limit finishes: their request was dropped before it sent the
\* command, or their connection was refused after it was registered.
Abandoned(j) == handler[j] = "dropped" \/ socket[owner[j]] \in {"rejecting", "rejected"}

\* No running job is forgotten.  When a connection is replaced, revoked or
\* lost while a command is dispatched to it, some task still fails the job,
\* whatever the order of registry updates, database statements and sends.
RunningIsWatched ==
  \A j \in Jobs : status[j] = "running" =>
    \/ TaskWillFail(owner[j])
    \/ handler[j] \in {"marked", "unsent"}
    \/ Abandoned(j)

\* A disabled or deleted instance loses its connection once the request that
\* disabled it is through, even if the agent reconnects at that moment: all
\* that can be registered is a socket that is going to be refused.
DisabledIsCut ==
  /\ instance # "approved"
  /\ \A a \in Admins : revoke[a] \notin {"committed", "dropped"}
  => registry = None \/ socket[registry] \in {"replacing", "checking", "rejecting"}

\* A command on its way to the agent, or under way at the agent, is one whose
\* row was first marked running for exactly that connection, so that a result
\* is never refused for having come before the row.
CommandFollowsRow ==
  /\ \A c \in Conns : \A j \in ToSet(down[c]) : owner[j] = c
  /\ \A run \in executing : owner[run.job] = run.conn

\* create_command_job bounds the unfinished jobs of an instance.
InflightBounded == Cardinality(Inflight) <= MaxInflight

\* Late results, duplicated closers, the timeout and a restart never rewrite
\* a finished row: neither its status nor the output shown with it.
FinishedIsFrozen ==
  [][\A j \in Jobs : status[j] \in {"completed", "failed"} =>
       \/ status'[j] = status[j] /\ output'[j] = output[j]
       \/ status'[j] = "deleted"]_vars

\* The inductive invariant behind the theorems about CommandJobs.
IInv == /\ TypeOK /\ HandlesHeld /\ OwnerAgrees /\ RegistryIsLive
        /\ CommandFollowsRow /\ RunningIsWatched /\ DisabledIsCut

\* The rows follow the ledger of JobLedger.
Ledger == INSTANCE JobLedger
ImplementsLedger == Ledger!Spec

\* A running job ends, even when the agent is gone and the closers were lost.
RunningEnds == \A j \in Jobs : status[j] = "running" ~> status[j] # "running"

\* A queued job leaves the queue unless its request was dropped: no timeout
\* covers queued rows.
QueuedLeaves ==
  \A j \in Jobs : status[j] = "queued" ~> (status[j] # "queued" \/ handler[j] = "dropped")

\* No job stays unfinished.
JobsSettle == RunningEnds /\ QueuedLeaves
=============================================================================
