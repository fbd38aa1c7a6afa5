------------------------------ MODULE AgentLink ------------------------------
(***************************************************************************)
(* The websocket connection of one agent as the parts that use it see it:  *)
(* the registry of agents and the task of each connection in the backend   *)
(* (ws.rs), and the connection the agent is on (instanceEnd/src/ws.rs).    *)
(* The agent may connect again while the task of its last connection is    *)
(* still clearing up, and either end may give the connection up first.  An *)
(* administrator may delete the instance, which cuts its connection, and   *)
(* approve it again when it has registered once more.                      *)
(***************************************************************************)
EXTENDS Integers, Sequences, FiniteSets

CONSTANTS
  MaxConns,   \* connections the agent makes
  MaxLosses   \* connections that one end gives up for a reason of its own

ASSUME LinkAssumption == MaxConns \in Nat \ {0} /\ MaxLosses \in Nat

VARIABLES
  conn,    \* state.agents: the registered connection, 0 is none
  link,    \* the backend's task of each connection
  on,      \* the connection the agent is on, 0 is none
  losses,  \* counts the connections given up, for the bound
  grant,   \* the instance is approved for the first time, deleted, or again
  cutting, \* revoke_instance_connection is still clearing up
  broken   \* a queue of the agent that is full has failed its connection

line == <<conn, link, on, losses, grant, cutting>>
net  == <<line, broken>>

Conns == 1..MaxConns

NetOK ==
  /\ conn \in 0..MaxConns /\ on \in 0..MaxConns /\ losses \in 0..MaxLosses
  /\ link \in [Conns -> {"new", "up", "closing", "swept", "gone"}]
  /\ grant \in {"first", "off", "again"} /\ cutting \in BOOLEAN /\ broken \in BOOLEAN

Offline ==
  /\ conn = 0 /\ on = 0 /\ losses = 0 /\ link = [c \in Conns |-> "new"]
  /\ grant = "first" /\ cutting = FALSE /\ broken = FALSE

\* A message that is put on connection c reaches the agent when both ends of
\* the connection are there.
Reaches(c) == link[c] = "up" /\ on = c

\* The receiver of the connection's queue is dropped with its task.
Refuses(c) == link[c] = "gone"

\* A queue to the agent after m was put on connection c.
Put(queue, c, m) == IF Reaches(c) THEN Append(queue, m) ELSE queue

\* The agent connects and replaces the connection the backend still has.
ConnectLink(c) ==
  /\ grant # "off" /\ on = 0 /\ link[c] = "new" /\ \A d \in Conns : d < c => link[d] # "new"
  /\ on' = c /\ conn' = c
  /\ link' = [d \in Conns |-> IF d = c THEN "up"
                              ELSE IF link[d] = "up" THEN "closing" ELSE link[d]]
  /\ UNCHANGED <<losses, grant, cutting, broken>>

\* One end gives the connection up, or has a reason to.
Parts(cause) ==
  IF cause THEN UNCHANGED losses ELSE losses < MaxLosses /\ losses' = losses + 1

\* The backend's loop ends: a closed socket, a heartbeat, a failed send, a
\* full queue.  The connection is removed from the registry first.
LoseLink(c) ==
  /\ link[c] = "up"
  /\ link' = [link EXCEPT ![c] = "closing"]
  /\ conn' = IF conn = c THEN 0 ELSE conn
  /\ Parts(on # c)
  /\ UNCHANGED <<on, grant, cutting, broken>>

\* What was registered for the connection is swept once.
SweepLink(c) ==
  /\ link[c] = "closing"
  /\ link' = [link EXCEPT ![c] = "swept"]
  /\ UNCHANGED <<conn, on, losses, grant, cutting, broken>>

\* The task of the connection ends and drops its queues.
VanishLink(c) ==
  /\ link[c] = "swept"
  /\ link' = [link EXCEPT ![c] = "gone"]
  /\ UNCHANGED <<conn, on, losses, grant, cutting, broken>>

\* The agent's loop ends.
LeaveLink ==
  /\ on # 0
  /\ on' = 0 /\ broken' = FALSE
  /\ Parts(broken \/ link[on] # "up")
  /\ UNCHANGED <<conn, link, grant, cutting>>

\* The instance is deleted: its connection is removed from the registry and
\* told to shut down, and what used it is then cleared up.
RevokeLink ==
  /\ grant = "first"
  /\ grant' = "off" /\ cutting' = TRUE /\ conn' = 0
  /\ link' = [d \in Conns |-> IF d = conn THEN "closing" ELSE link[d]]
  /\ UNCHANGED <<on, losses, broken>>

CutLink ==
  /\ cutting
  /\ cutting' = FALSE
  /\ UNCHANGED <<conn, link, on, losses, grant, broken>>

\* The instance is approved again, which need not wait for the clearing up.
AdmitLink ==
  /\ grant = "off"
  /\ grant' = "again"
  /\ UNCHANGED <<conn, link, on, losses, cutting, broken>>
=============================================================================
