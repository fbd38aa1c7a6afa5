--------------------------- MODULE DockerRequests ---------------------------
(***************************************************************************)
(* Docker operations that change something on an instance: the handler of  *)
(* the HTTP request and its cleanup (backend, docker.rs), the messages of  *)
(* the agent about it, and the task of the agent's DockerManager that runs *)
(* it (instanceEnd/src/docker.rs).  An operation that only reads goes the  *)
(* same way without an audit event.                                        *)
(*                                                                         *)
(* What an operation does is left out: it succeeds, wholly or in part, or   *)
(* it does not.                                                            *)
(***************************************************************************)
EXTENDS AgentLink

CONSTANTS
  Requests,    \* Docker requests
  MaxPending,  \* MAX_PENDING_REQUESTS_PER_INSTANCE
  MaxTasks     \* the agent's mutation slots

VARIABLES
  call,     \* the handler of each request
  cleanup,  \* DockerRequestCleanup of each request
  pending,  \* docker_requests
  permits,  \* the permits taken of the instance's semaphore of requests
  audit,    \* the audit event of each request
  finish,   \* how the event of a request that was taken out is to end, until it
            \* is written; "unwritten" when that failed
  told,     \* what the administrator was told
  orders,   \* messages on their way to the agent
  answers,  \* messages of the agent's control queue
  task      \* the agent's task of each request

server == <<call, cleanup, pending, permits, audit, finish, told>>
agent  == <<orders, answers, task>>
vars   == <<net, server, agent>>

NoCall == [at |-> "idle", conn |-> 0]
Msg(r, type) == [of |-> r, type |-> type]
Final == {"success", "partial", "failed", "cancelled"}
Ending == {r \in Requests : finish[r] \in Final}

TypeOK ==
  /\ NetOK
  /\ \A r \in Requests :
       /\ call[r].at \in {"idle", "audited", "found", "admitted", "waiting", "over", "dropped"}
       /\ call[r].conn \in 0..MaxConns
  /\ cleanup \in [Requests -> {"none", "matching", "grace"}]
  /\ pending \subseteq Requests /\ permits \subseteq Requests
  /\ audit \in [Requests -> Final \cup {"none", "running"}]
  /\ finish \in [Requests -> Final \cup {"none", "unwritten"}]
  /\ told \in [Requests -> {"nothing", "done", "partial", "failed", "lost", "late"}]
  /\ task \in [Requests -> {"none", "running", "done", "partial", "failed", "aborted"}]

Start ==
  /\ call = [r \in Requests |-> NoCall]
  /\ cleanup = [r \in Requests |-> "none"] /\ pending = {} /\ permits = {}
  /\ audit = [r \in Requests |-> "none"] /\ finish = [r \in Requests |-> "none"]
  /\ told = [r \in Requests |-> "nothing"]
  /\ orders = <<>> /\ answers = <<>> /\ task = [r \in Requests |-> "none"]
Init == Offline /\ Start

Goes(r, p) == call' = [call EXCEPT ![r].at = p]
Says(r, answer) == told' = [told EXCEPT ![r] = answer]

\* finish_event writes only an event that is still running.  The write may fail,
\* which is logged and nothing else.
Closes(r, status) ==
  \/ /\ audit' = [audit EXCEPT ![r] = IF @ = "running" THEN status ELSE @]
     /\ finish' = [finish EXCEPT ![r] = "none"]
  \/ finish' = [finish EXCEPT ![r] = "unwritten"] /\ UNCHANGED audit

-----------------------------------------------------------------------------
(* The connection *)

Connect(c) == ConnectLink(c) /\ UNCHANGED <<server, agent>>
Lose(c) == LoseLink(c) /\ UNCHANGED <<server, agent>>
Vanish(c) == VanishLink(c) /\ UNCHANGED <<server, agent>>
Revoke == RevokeLink /\ UNCHANGED <<server, agent>>
Admit == AdmitLink /\ UNCHANGED <<server, agent>>

\* The requests rs are taken from the table.
Remove(rs, status) ==
  /\ pending' = pending \ rs
  /\ finish' = [r \in Requests |-> IF r \in rs THEN status ELSE finish[r]]

\* One after the other those that still wait are told that the agent is gone.
Fail(r) ==
  /\ r \in Ending /\ call[r].at = "waiting"
  /\ Goes(r, "over") /\ Says(r, "lost")
  /\ UNCHANGED <<net, cleanup, pending, permits, audit, finish, agent>>

\* Whoever took a request out writes its record afterwards.  The permit is given
\* back with the entry of the table, which is dropped then.
FinishAudit(r) ==
  /\ r \in Ending /\ call[r].at # "waiting"
  /\ Closes(r, finish[r]) /\ permits' = permits \ {r}
  /\ UNCHANGED <<net, call, cleanup, pending, told, agent>>

\* close_connection_docker
Sweep(c) ==
  /\ SweepLink(c)
  /\ Remove({r \in pending : call[r].conn = c}, "failed")
  /\ UNCHANGED <<call, cleanup, permits, audit, told, agent>>

\* cancel_instance_docker: all requests of the instance, and its semaphore.
Cut ==
  /\ CutLink
  /\ Remove(pending, "cancelled") /\ permits' = {}
  /\ UNCHANGED <<call, cleanup, audit, told, agent>>

\* The agent's connection ends: close_all aborts the tasks.
Disconnect ==
  /\ LeaveLink
  /\ orders' = <<>> /\ answers' = <<>>
  /\ task' = [r \in Requests |-> IF task[r] = "running" THEN "aborted" ELSE task[r]]
  /\ UNCHANGED server

-----------------------------------------------------------------------------
(* The handler: execute_request *)

StartAudit(r) ==
  /\ call[r].at = "idle"
  /\ Goes(r, "audited") /\ audit' = [audit EXCEPT ![r] = "running"]
  /\ UNCHANGED <<net, cleanup, pending, permits, finish, told, agent>>

\* The handler closes the record itself before it answers.
Refuse(r) == Closes(r, "failed") /\ Goes(r, "over") /\ Says(r, "failed")

\* connected_manageable_agent clones the handle of the connection.
FindAgent(r) ==
  /\ call[r].at = "audited"
  /\ \/ /\ conn # 0 /\ call' = [call EXCEPT ![r] = [at |-> "found", conn |-> conn]]
        /\ UNCHANGED <<told, audit, finish>>
     \/ Refuse(r)
  /\ UNCHANGED <<net, cleanup, pending, permits, agent>>

AcquireSlot(r) ==
  /\ call[r].at = "found"
  /\ IF Cardinality(permits) < MaxPending
     THEN /\ Goes(r, "admitted") /\ permits' = permits \cup {r}
          /\ UNCHANGED <<told, audit, finish>>
     ELSE Refuse(r) /\ UNCHANGED permits
  /\ UNCHANGED <<net, cleanup, pending, agent>>

\* The registry is locked while the request is registered and sent, so that a
\* connection that is removed has all its requests in the table.
SubmitUnlocked(r) ==
  /\ call[r].at = "admitted"
  /\ Goes(r, "waiting") /\ pending' = pending \cup {r}
  /\ orders' = Put(orders, call[r].conn, Msg(r, "request"))
  /\ UNCHANGED <<net, cleanup, permits, told, audit, finish, answers, task>>

Submit(r) ==
  /\ call[r].at = "admitted"
  /\ IF conn = call[r].conn
     THEN /\ Goes(r, "waiting") /\ pending' = pending \cup {r}
          /\ orders' = Put(orders, conn, Msg(r, "request"))
          /\ UNCHANGED <<permits, told, audit, finish>>
     ELSE Refuse(r) /\ permits' = permits \ {r} /\ UNCHANGED <<pending, orders>>
  /\ UNCHANGED <<net, cleanup, answers, task>>

\* The time is over, or the client goes away and the handler is dropped.  The
\* cleanup is a task of its own.
GiveUp(r) ==
  /\ call[r].at = "waiting"
  /\ Goes(r, "over") /\ \E answer \in {"late", "nothing"} : Says(r, answer)
  /\ cleanup' = [cleanup EXCEPT ![r] = "matching"]
  /\ UNCHANGED <<net, pending, permits, audit, finish, agent>>

\* A handler that is dropped earlier has no cleanup that finds a request: its
\* audit event stays as it is until the backend restarts.
Drop(r) ==
  /\ call[r].at \in {"audited", "found", "admitted"}
  /\ Goes(r, "dropped") /\ permits' = permits \ {r}
  /\ UNCHANGED <<net, cleanup, pending, audit, finish, told, agent>>

\* DockerRequestCleanup: the agent is asked to cancel and has CANCEL_GRACE to
\* answer.
AskCancel(r) ==
  /\ cleanup[r] = "matching"
  /\ IF r \in pending
     THEN /\ cleanup' = [cleanup EXCEPT ![r] = "grace"]
          /\ orders' = IF conn = call[r].conn THEN Put(orders, conn, Msg(r, "cancel")) ELSE orders
     ELSE cleanup' = [cleanup EXCEPT ![r] = "none"] /\ UNCHANGED orders
  /\ UNCHANGED <<net, call, pending, permits, audit, finish, told, answers, task>>

GraceQuiet(r) ==
  /\ cleanup[r] = "grace"
  /\ cleanup' = [cleanup EXCEPT ![r] = "none"]
  /\ pending' = pending \ {r} /\ permits' = permits \ {r}
  /\ UNCHANGED <<net, call, audit, finish, told, agent>>

GraceOver(r) ==
  /\ cleanup[r] = "grace"
  /\ cleanup' = [cleanup EXCEPT ![r] = "none"]
  /\ Remove(pending \cap {r}, "failed")
  /\ UNCHANGED <<net, call, permits, audit, told, agent>>

\* handle_docker_response: the first answer of the connection that the request
\* was sent on takes it from the table, whether or not anyone still waits.
Takes(m) ==
  LET r == m.of IN
  /\ Remove({r}, CASE m.type = "done" -> "success" [] m.type = "aborted" -> "cancelled"
                   [] OTHER -> m.type)
  /\ IF call[r].at = "waiting"
     THEN Goes(r, "over") /\ Says(r, IF m.type = "aborted" THEN "failed" ELSE m.type)
     ELSE UNCHANGED <<call, told>>

AnswerAny ==
  /\ answers # <<>> /\ link[on] = "up"
  /\ Takes(Head(answers)) /\ answers' = Tail(answers)
  /\ UNCHANGED <<net, cleanup, permits, audit, orders, task>>

Answer ==
  /\ answers # <<>> /\ link[on] = "up"
  /\ LET r == Head(answers).of IN
     IF r \in pending /\ call[r].conn = on THEN Takes(Head(answers))
     ELSE UNCHANGED <<pending, finish, call, told>>
  /\ answers' = Tail(answers)
  /\ UNCHANGED <<net, cleanup, permits, audit, orders, task>>

-----------------------------------------------------------------------------
(* The agent: DockerManager *)

Take(type) == orders # <<>> /\ Head(orders).type = type /\ orders' = Tail(orders)
Reply(r, type) == answers' = Append(answers, Msg(r, type))
Is(r, p) == task' = [task EXCEPT ![r] = p]

HandleRequest ==
  /\ Take("request")
  /\ Cardinality({r \in Requests : task[r] = "running"}) < MaxTasks
  /\ Is(Head(orders).of, "running")
  /\ UNCHANGED <<net, server, answers>>

\* Docker cannot be managed, all slots are taken or the agent drains for an
\* update.
RefuseRequest ==
  /\ Take("request") /\ Reply(Head(orders).of, "failed")
  /\ UNCHANGED <<net, server, task>>

\* The task ends with its operation or at the time limit of the agent.
Complete(r) ==
  /\ task[r] = "running"
  /\ \E result \in {"done", "partial", "failed"} : Is(r, result) /\ Reply(r, result)
  /\ UNCHANGED <<net, server, orders>>

\* cancel: a task that is over has answered.
CancelTask ==
  LET r == Head(orders).of IN
  /\ Take("cancel")
  /\ IF task[r] = "running" THEN Is(r, "aborted") /\ Reply(r, "aborted") ELSE UNCHANGED <<task, answers>>
  /\ UNCHANGED <<net, server>>

-----------------------------------------------------------------------------
Handler(r) == FindAgent(r) \/ AcquireSlot(r) \/ Submit(r) \/ GiveUp(r)
Cleanup(r) == AskCancel(r) \/ GraceOver(r)
Ends(r) == Fail(r) \/ FinishAudit(r)
Loop == HandleRequest \/ RefuseRequest \/ CancelTask

Step ==
  \/ \E r \in Requests :
       StartAudit(r) \/ Handler(r) \/ Drop(r) \/ Cleanup(r) \/ Ends(r) \/ Complete(r)
  \/ Answer \/ Loop

Next ==
  \/ \E c \in Conns : Connect(c) \/ Lose(c) \/ Sweep(c) \/ Vanish(c)
  \/ Disconnect \/ Revoke \/ Cut \/ Admit
  \/ Step

\* Tasks and timers go on, each of them once.
Due == \E r \in Requests : Handler(r) \/ Cleanup(r) \/ Ends(r)

Spec == Init /\ [][Next]_vars

-----------------------------------------------------------------------------
(* Properties *)

\* No request is left in the table of a connection that was swept: a handler
\* that found the agent before it disconnected does not register after the sweep.
SweptIsEmpty == \A r \in pending : link[call[r].conn] \notin {"swept", "gone"}

\* How the record of r ends, or is to end by the one who took r out.
Record(r) == IF finish[r] = "none" THEN audit[r] ELSE finish[r]

\* What the administrator was told and what is recorded agree, now or once the
\* end of the record is written, unless that write fails: an operation that was
\* reported done, wholly or in part, ran to that end and is recorded so; one that
\* failed, was refused or whose agent was lost is not recorded as done.  A record
\* does not end before its operation is out of the table, and only once.
RecordAgrees ==
  \A r \in Requests :
    /\ told[r] = "done" => Record(r) \in {"success", "unwritten"} /\ task[r] = "done"
    /\ told[r] = "partial" => Record(r) \in {"partial", "unwritten"} /\ task[r] = "partial"
    /\ told[r] \in {"failed", "lost"} => Record(r) \in {"failed", "cancelled", "unwritten"}
    /\ finish[r] # "none" => audit[r] = "running"
    /\ Record(r) # "running" => r \notin pending

\* A permit is held only by a request that is being admitted, is pending or has a
\* record to be closed.
PermitsHeld ==
  permits \subseteq pending \cup Ending \cup {r \in Requests : call[r].at = "admitted"}

\* An operation's record does not stay running and its permit is given back,
\* unless the client left before the request was registered or the record could
\* not be written.
RequestOver(r) ==
  /\ call[r].at \in {"idle", "over", "dropped"} /\ r \notin pending \cup permits \cup Ending
  /\ audit[r] = "running" => call[r].at = "dropped" \/ finish[r] = "unwritten"
=============================================================================
