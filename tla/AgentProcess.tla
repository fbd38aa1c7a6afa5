----------------------------- MODULE AgentProcess -----------------------------
(***************************************************************************)
(* The processes of the agent and the commands start and stop              *)
(* (lifecycle.rs).  What runs is known by the lock of one file, which an   *)
(* agent holds as long as it lives; three other files say which process it *)
(* is, that it is ready and that it is to stop.  A command finds out       *)
(* whether an agent runs by taking the lock itself for a moment, and the   *)
(* files are read, written and removed by agents and commands in any       *)
(* order.  An agent that dies leaves its files behind.                     *)
(***************************************************************************)
EXTENDS Naturals, FiniteSets

CONSTANTS
  Users,     \* who gives commands, one at a time each
  None,
  MaxPid,    \* bound on the agents that are started
  MaxTurns   \* bound on the commands

Pids == 1..MaxPid
Any  == 0          \* the request "stop", of a command that knows no process

VARIABLES
  lock,      \* agent.lock: the agent or the user who holds it, or None
  pidFile,   \* agent.pid
  readyFile, \* agent.ready
  stopFile,  \* agent.stop: a process, Any or None
  agent,     \* [process -> what it is doing]
  asked,     \* the agents that held the lock when a request for them was written
  cli,       \* [user -> the command under way]
  turns      \* the commands given so far

marks == <<pidFile, readyFile, stopFile>>
vars  == <<lock, marks, agent, asked, cli, turns>>

\* "saw" is the agent the command found, "child" the one it started.
Working(at, verb, saw, pid, child) ==
  [at |-> at, verb |-> verb, saw |-> saw, pid |-> pid, child |-> child, says |-> "nothing"]
Idle == Working("idle", "stop", None, None, None)
Free(p)    == agent[p] = "none"
Alive(p)   == agent[p] \notin {"none", "gone"}
Holding(p) == agent[p] \in {"locked", "marking", "marked", "ready", "asked", "leaving", "left"}

TypeOK ==
  /\ lock \in Pids \cup Users \cup {None}
  /\ {pidFile, readyFile} \subseteq Pids \cup {None} /\ stopFile \in Pids \cup {Any, None}
  /\ agent \in [Pids -> {"none", "new", "locked", "marking", "marked", "ready", "asked",
                         "leaving", "left", "gone"}]
  /\ asked \subseteq Pids /\ turns \in 0..MaxTurns
  /\ \A u \in Users : cli[u].saw \in Pids \cup {None} /\ cli[u].child \in Pids \cup {None}

Init ==
  /\ lock = None /\ pidFile = None /\ readyFile = None /\ stopFile = None
  /\ agent = [p \in Pids |-> "none"] /\ asked = {} /\ cli = [u \in Users |-> Idle] /\ turns = 0

-----------------------------------------------------------------------------
(* An agent *)

Becomes(p, s) == agent' = [agent EXCEPT ![p] = s]
First(p)      == Free(p) /\ \A q \in Pids : q < p => ~Free(q)

\* In the foreground or by a service manager.
Run(p) ==
  /\ First(p) /\ Becomes(p, "new") /\ UNCHANGED <<lock, marks, asked, cli, turns>>

\* It gives up when the lock is held, by an agent or by a command that looks.
Acquire(p) ==
  /\ agent[p] = "new"
  /\ IF lock = None THEN lock' = p /\ Becomes(p, "locked")
     ELSE UNCHANGED lock /\ Becomes(p, "gone")
  /\ UNCHANGED <<marks, asked, cli, turns>>

\* What an agent left that died is removed.
RemoveStale == pidFile' = None /\ readyFile' = None /\ stopFile' = None
ClearMarksKeep(p) ==
  /\ agent[p] = "locked" /\ Becomes(p, "marking")
  /\ UNCHANGED <<lock, marks, asked, cli, turns>>
ClearMarks(p) ==
  /\ agent[p] = "locked" /\ Becomes(p, "marking") /\ RemoveStale
  /\ UNCHANGED <<lock, asked, cli, turns>>

WritePid(p) ==
  /\ agent[p] = "marking" /\ pidFile' = p /\ Becomes(p, "marked")
  /\ UNCHANGED <<lock, readyFile, stopFile, asked, cli, turns>>

MarkReady(p) ==
  /\ agent[p] = "marked" /\ readyFile' = p /\ Becomes(p, "ready")
  /\ UNCHANGED <<lock, pidFile, stopFile, asked, cli, turns>>

\* It stops at a request for it or for any agent, at a signal, or with an error.
SeeStop(p) ==
  /\ agent[p] = "ready" /\ stopFile \in {p, Any} /\ Becomes(p, "asked")
  /\ UNCHANGED <<lock, marks, asked, cli, turns>>
Quit(p) ==
  /\ agent[p] \in {"marked", "ready"} /\ Becomes(p, "leaving")
  /\ UNCHANGED <<lock, marks, asked, cli, turns>>

\* The files that are its own go before the lock does.
Owned(p, f) == IF f = p THEN None ELSE f
DropMarks(p) ==
  /\ agent[p] \in {"asked", "leaving"} /\ Becomes(p, "left")
  /\ pidFile' = Owned(p, pidFile) /\ readyFile' = Owned(p, readyFile)
  /\ stopFile' = IF stopFile \in {p, Any} THEN None ELSE stopFile
  /\ UNCHANGED <<lock, asked, cli, turns>>
Exit(p) ==
  /\ agent[p] = "left" /\ Becomes(p, "gone") /\ lock' = None
  /\ UNCHANGED <<marks, asked, cli, turns>>

\* It dies, or is killed.
Unlocked(p) == IF lock = p THEN None ELSE lock
Die(p) ==
  /\ Alive(p) /\ Becomes(p, "gone") /\ lock' = Unlocked(p)
  /\ UNCHANGED <<marks, asked, cli, turns>>

-----------------------------------------------------------------------------
(* The commands *)

Set(u, c) == cli' = [cli EXCEPT ![u] = c]
Step(u, at) == Set(u, [cli[u] EXCEPT !.at = at])
Done(saw, child, what) ==
  [at |-> "idle", verb |-> "stop", saw |-> saw, pid |-> None, child |-> child, says |-> what]
Says(u, what) ==
  Set(u, Done(IF what = "stopped" THEN cli[u].saw ELSE None, cli[u].child, what))

Command(u, verb) ==
  /\ cli[u].at = "idle" /\ turns < MaxTurns /\ turns' = turns + 1
  /\ Set(u, Working("look", verb, None, None, None))
  /\ UNCHANGED <<lock, marks, agent, asked>>

\* The lock is taken for a moment, or it is held.
Look(u) ==
  /\ cli[u].at \in {"look", "wait"} /\ UNCHANGED <<marks, agent, asked, turns>>
  /\ IF lock = None THEN lock' = u /\ Step(u, "unlock")
     ELSE /\ UNCHANGED lock /\ cli[u].at = "look"
          /\ Set(u, Working("running", cli[u].verb, IF lock \in Pids THEN lock ELSE None,
                              None, None))

Unlock(u) ==
  /\ cli[u].at = "unlock" /\ lock' = None /\ Step(u, "stale")
  /\ UNCHANGED <<marks, agent, asked, turns>>

\* No agent runs: its files go, and a start goes on.
Stale(u) ==
  /\ cli[u].at = "stale" /\ RemoveStale
  /\ IF cli[u].verb = "start" THEN Step(u, "spawn") ELSE Says(u, "stopped")
  /\ UNCHANGED <<lock, agent, asked, turns>>

\* An agent runs: a start is done, and a stop reads which it is.
ReadPid(u) ==
  /\ cli[u].at = "running"
  /\ IF cli[u].verb = "start" THEN Says(u, "running")
     ELSE Set(u, Working("request", "stop", cli[u].saw, pidFile, None))
  /\ UNCHANGED <<lock, marks, agent, asked, turns>>

Request(u) ==
  /\ cli[u].at = "request" /\ Step(u, "wait")
  /\ stopFile' = IF cli[u].pid = None THEN Any ELSE cli[u].pid
  /\ asked' = asked \cup {p \in Pids : lock = p /\ cli[u].pid \in {p, None}}
  /\ UNCHANGED <<lock, pidFile, readyFile, agent, turns>>

\* The agent did not stop in time; the request stays.
GiveUp(u) ==
  /\ cli[u].at = "wait" /\ Says(u, "failed")
  /\ UNCHANGED <<lock, marks, agent, asked, turns>>

Spawn(u, p) ==
  /\ cli[u].at = "spawn" /\ First(p) /\ Becomes(p, "new")
  /\ Set(u, Working("child", "start", cli[u].saw, None, p))
  /\ UNCHANGED <<lock, marks, asked, turns>>

\* The child is ready when the files name it and the lock is held.
SeeReady(u) ==
  /\ cli[u].at = "child" /\ readyFile = cli[u].child /\ pidFile = cli[u].child /\ lock # None
  /\ Alive(cli[u].child) /\ Says(u, "started")
  /\ UNCHANGED <<lock, marks, agent, asked, turns>>

\* It has ended, or is killed when the time is over.
SeeEnd(u) ==
  /\ cli[u].at = "child" /\ Says(u, "failed")
  /\ IF Alive(cli[u].child)
     THEN Becomes(cli[u].child, "gone") /\ lock' = Unlocked(cli[u].child)
     ELSE UNCHANGED <<agent, lock>>
  /\ UNCHANGED <<marks, asked, turns>>

Next ==
  \/ \E p \in Pids :
       \/ Run(p) \/ Acquire(p) \/ ClearMarks(p) \/ WritePid(p) \/ MarkReady(p) \/ SeeStop(p)
       \/ Quit(p) \/ DropMarks(p) \/ Exit(p) \/ Die(p)
  \/ \E u \in Users :
       \/ Command(u, "start") \/ Command(u, "stop") \/ Look(u) \/ Unlock(u) \/ Stale(u)
       \/ ReadPid(u) \/ Request(u) \/ GiveUp(u) \/ SeeReady(u) \/ SeeEnd(u)
       \/ \E p \in Pids : Spawn(u, p)
Spec == Init /\ [][Next]_vars

-----------------------------------------------------------------------------
(* Properties *)

\* One agent holds the lock, and it is alive.
OneAgent == \A p \in Pids : Holding(p) <=> lock = p

\* An agent that obeys a request was there when the request was written, and was meant:
\* none that is for another process, or was left behind, ends it (RuntimeGuard,
\* wait_for_stop).
StopIsMeant == \A p \in Pids : agent[p] = "asked" => p \in asked

\* A stop that reports success found an agent that is gone now; a start that reports
\* a failure has left none of its own behind, and none reports an agent started that
\* never was ready (stop_if_running, wait_until_ready).
ReportsAreTrue ==
  \A u \in Users :
    /\ cli[u].says = "stopped" /\ cli[u].saw # None => ~Alive(cli[u].saw)
    /\ cli[u].says = "failed" /\ cli[u].child # None => ~Alive(cli[u].child)
    /\ cli[u].says = "started" => agent[cli[u].child] \in {"ready", "asked", "leaving", "left", "gone"}

ProcessesHold == TypeOK /\ OneAgent /\ StopIsMeant /\ ReportsAreTrue
=============================================================================
