---------------------------- MODULE AgentUpdate ----------------------------
(***************************************************************************)
(* The update of one installed agent (instanceEnd/src/update.rs, with its  *)
(* callers in ws.rs): the agent prepares a package, a detached updater     *)
(* stops the service, replaces the executable, restarts the service and    *)
(* waits for the new version to report itself, or puts the previous        *)
(* version back.  Agent, updater and the administrator's `update` command  *)
(* meet in the state file, the health file and the lock of the updater.    *)
(*                                                                         *)
(* A release is a version.  A retry of an attempt has a higher number.     *)
(***************************************************************************)
EXTENDS Integers, FiniteSets

CONSTANTS
  MaxVersion,   \* releases are 1 .. MaxVersion; 1 is installed at first
  Workers,      \* detached updaters
  None,
  MaxRetry,     \* bound: retry_count of offers
  MaxUpdates,   \* bound: updaters started
  MaxFaults     \* bound: kinds of failed steps, crashes and crossings

ASSUME BoundAssumption ==
  /\ MaxVersion \in Nat \ {0} /\ MaxRetry \in Nat /\ MaxUpdates \in Nat /\ MaxFaults \in Nat

Versions == 1 .. MaxVersion

\* UpdateOffer and RollbackOffer; a forced update is a manual upgrade.
Upgrades  == [kind : {"upgrade"}, target : Versions \ {1}, retry : 0 .. MaxRetry]
Rollbacks == [kind : {"rollback"}, target : Versions \ {MaxVersion}, retry : 0 .. MaxRetry]
Forced    == [kind : {"manual"}, target : Versions, retry : {0}]
Offers    == Upgrades \cup Rollbacks \cup Forced

\* Where a package lies: downloaded for an attempt, staged by the administrator,
\* or copied from the installed executable.  CachedPackage keeps the path and
\* the retry_count it was installed with.
Paths    == [kind : {"upgrade"}, ver : Versions, retry : 0 .. MaxRetry]
            \cup [kind : {"rollback", "manual", "copy"}, ver : Versions, retry : {0}]
Packages == [path : Paths, retry : 0 .. MaxRetry]

\* UpdateAttempt, UpdateState and HealthMarker.
Attempts == [offer : Offers, status : {"waiting", "waiting_idle", "installing", "awaiting_restart",
                                       "succeeded", "rollback_succeeded", "failed"},
             path : Paths \cup {None}, previous : Packages \cup {None},
             phase : {"staging", "target", "rollback", "completed"}]
States == [current : Packages \cup {None}, baseline : Packages \cup {None},
           attempt : Attempts \cup {None}]

Marks  == [ver : Versions, retry : 0 .. MaxRetry]

ASSUME NoneAssumption ==
  None \notin Attempts /\ None \notin Paths /\ None \notin Packages /\ None \notin Marks

VARIABLES
  installed,  \* version of the installed executable
  service,    \* "running" or "stopped", for the service manager
  agent,      \* the agent process: where it is, its version and what it read
  task,       \* ActiveUpdate of the agent's connection
  state,      \* UpdateState: current and rollback package, attempt
  health,     \* HealthMarker, or none
  files,      \* paths of intact packages
  worker,     \* detached updaters: where each is and its ApplyPlan
  lock,       \* who holds updater.lock
  cli,        \* the forced update between its check and its handoff
  updates,    \* updaters started
  faults      \* kinds of what failed or crossed so far

disk == <<state, health, files>>
vars == <<installed, service, agent, task, disk, worker, lock, cli, updates, faults>>

Down    == [at |-> "down", ver |-> 1, seen |-> None]
NoTask  == [at |-> "none", offer |-> None, worker |-> None]
NoPlan  == [at |-> "none", offer |-> None, path |-> None, previous |-> None]

Init ==
  /\ installed = 1 /\ service = "running"
  /\ agent = [Down EXCEPT !.at = "boot"]
  /\ task = NoTask
  /\ state = [current |-> None, baseline |-> None, attempt |-> None]
  /\ health = None /\ files = {}
  /\ worker = [w \in Workers |-> NoPlan]
  /\ lock = None /\ cli = None
  /\ updates = 0 /\ faults = {}

Attempt == state.attempt

\* No guard of the code keeps these from happening; they are counted with the faults:
\* a version reports itself at the deadline of its updater ("late"), a
\* second update begins, or a forced one, while another one is under way ("beside"), and
\* the version that is installed is forced again ("same").
Crossings  == {"late", "beside", "same"}
FaultKinds == {"prepare", "handoff", "stop", "install", "restore", "state", "worker", "machine"}
              \cup Crossings
Notes(kinds) == Cardinality(faults \cup kinds) <= MaxFaults /\ faults' = faults \cup kinds
Fault(kind)  == Notes({kind})
When(condition, kind) == IF condition THEN {kind} ELSE {}

\* offer_generation_matches: same attempt, same retry.
Current(o) == Attempt # None /\ Attempt.offer = o
SameAttempt(o) == Attempt.offer.kind = o.kind /\ Attempt.offer.target = o.target

Final(status) == status \in {"succeeded", "rollback_succeeded", "failed"}
Success(o)    == IF o.kind = "rollback" THEN "rollback_succeeded" ELSE "succeeded"

\* Faulty: a rollback that was undone counts as one.
RestoredAlways(o) == "rollback_succeeded"

Restored(o) == IF o.kind = "rollback" THEN "failed" ELSE "rollback_succeeded"

\* A handoff is under way, or was when a process died.
HandedOff ==
  /\ Attempt # None /\ Attempt.phase \in {"target", "rollback"}
  /\ Attempt.status \in {"installing", "awaiting_restart"}

\* The attempt at its start, and a change of the current attempt.
NewAttempt(o, previous) ==
  [offer |-> o, status |-> "waiting", path |-> None, previous |-> previous, phase |-> "staging"]
SetStatus(status, phase) ==
  state' = [state EXCEPT !.attempt.status = status, !.attempt.phase = phase]

-----------------------------------------------------------------------------
(***************************************************************************)
(* The agent process.                                                      *)
(***************************************************************************)
\* connected_status, which reads the state file, writes the health file and
\* writes the state file back.
Untimely ==
  /\ \E w \in Workers : worker[w].at = "back"
  /\ Attempt # None /\ Attempt.phase = "target" /\ agent.ver = Attempt.offer.target

Connect ==
  /\ agent.at = "boot"
  /\ agent' = [agent EXCEPT !.at = "read", !.seen = state]
  /\ Notes(When(Untimely, "late") \cup When(cli # None, "beside"))
  /\ UNCHANGED <<installed, service, task, disk, worker, lock, cli, updates>>

\* What the version that runs says of the attempt that was read.
Seen == agent.seen.attempt
OnTarget   == Seen.phase = "target" /\ agent.ver = Seen.offer.target
OnPrevious == /\ Seen.phase = "rollback" /\ Seen.previous # None
              /\ agent.ver = Seen.previous.path.ver
Finalizes  == OnTarget \/ OnPrevious

Marker ==
  IF Seen = None THEN None
  ELSE IF OnTarget \/ (/\ Seen.phase = "completed" /\ Seen.status = Success(Seen.offer)
                       /\ agent.ver = Seen.offer.target)
  THEN [ver |-> Seen.offer.target, retry |-> Seen.offer.retry]
  ELSE IF OnPrevious \/ (/\ Seen.phase = "completed" /\ Seen.status = "rollback_succeeded"
                         /\ Seen.offer.kind # "rollback" /\ Seen.previous # None
                         /\ agent.ver = Seen.previous.path.ver)
  THEN [ver |-> Seen.previous.path.ver, retry |-> Seen.previous.retry]
  ELSE None

WriteHealth ==
  /\ agent.at = "read"
  /\ health' = IF Marker = None THEN health ELSE Marker
  /\ agent' = [agent EXCEPT !.at = IF Seen # None /\ Finalizes THEN "settle" ELSE "up",
                            !.seen = IF Seen # None /\ Finalizes THEN @ ELSE None]
  /\ UNCHANGED <<installed, service, task, state, files, worker, lock, cli, updates, faults>>

\* rotate_successful_package_state.
\* Faulty: a rollback leaves the packages as they are.
Package(a) == [path |-> a.path, retry |-> a.offer.retry]
RotatedForUpgrade(s, a) ==
  IF a.offer.kind = "rollback" THEN s
  ELSE [s EXCEPT !.current = Package(a), !.baseline = a.previous]

Rotated(s, a) == [s EXCEPT !.current = Package(a), !.baseline = a.previous]

\* The older baseline.  Faulty: removed even when it is what was installed.
StaleAlways(s, a) ==
  IF s.baseline = None \/ (a.previous # None /\ s.baseline.path = a.previous.path)
  THEN {} ELSE {s.baseline.path}

Stale(s, a) ==
  IF s.baseline = None \/ s.baseline.path = a.path
     \/ (a.previous # None /\ s.baseline.path = a.previous.path)
  THEN {} ELSE {s.baseline.path}

Settle ==
  /\ agent.at = "settle"
  /\ LET a == Seen
         s == IF OnTarget THEN Rotated(agent.seen, a) ELSE agent.seen
     IN  /\ state' = [s EXCEPT !.attempt.phase = "completed",
                               !.attempt.status = IF OnTarget THEN Success(a.offer)
                                                  ELSE Restored(a.offer)]
         /\ files' = files \ (IF OnTarget THEN Stale(agent.seen, a) ELSE {})
  /\ agent' = [agent EXCEPT !.at = "up", !.seen = None]
  /\ UNCHANGED <<installed, service, task, health, worker, lock, cli, updates, faults>>

\* The connection ends and ActiveUpdate with it; a pending handoff ends the process.
Disconnect ==
  /\ agent.at = "up" /\ task.at # "spawned"
  /\ task' = NoTask
  /\ \/ agent' = [agent EXCEPT !.at = "boot"]
     \/ HandedOff /\ agent' = Down
  /\ UNCHANGED <<installed, service, disk, worker, lock, cli, updates, faults>>

\* The service manager starts what should run.
ServiceStarts ==
  /\ service = "running" /\ agent.at = "down"
  /\ agent' = [Down EXCEPT !.at = "boot", !.ver = installed]
  /\ UNCHANGED <<installed, service, task, disk, worker, lock, cli, updates, faults>>

-----------------------------------------------------------------------------
(***************************************************************************)
(* Offers and their preparation: ws.rs, prepare and prepare_rollback.      *)
(***************************************************************************)
LockHeld == lock # None

\* can_start_offer
CanStartOffer(o) ==
  /\ ~LockHeld
  /\ IF Attempt = None THEN TRUE
     ELSE IF HandedOff
     THEN IF SameAttempt(o) THEN o.retry > Attempt.offer.retry ELSE o.target > Attempt.offer.target
     ELSE ~SameAttempt(o) \/ (IF Final(Attempt.status) THEN o.retry > Attempt.offer.retry
                                                       ELSE o.retry >= Attempt.offer.retry)

\* can_start_rollback
CanStartRollback(o) ==
  /\ ~LockHeld
  /\ IF Attempt = None THEN TRUE
     ELSE /\ ~HandedOff
          /\ IF SameAttempt(o)
             THEN IF Final(Attempt.status) THEN o.retry > Attempt.offer.retry
                                           ELSE o.retry >= Attempt.offer.retry
             ELSE Final(Attempt.status)

Offer(o) ==
  /\ agent.at = "up" /\ task = NoTask /\ updates < MaxUpdates
  /\ IF o.kind = "upgrade" THEN CanStartOffer(o) ELSE CanStartRollback(o)
  /\ task' = [NoTask EXCEPT !.at = "begin", !.offer = o]
  /\ Notes(When(cli # None \/ \E w \in Workers : worker[w].at # "none", "beside"))
  /\ UNCHANGED <<installed, service, agent, disk, worker, lock, cli, updates>>

\* local_rollback_package
LocalBaseline(o) ==
  /\ o.kind = "rollback" /\ state.baseline # None
  /\ state.baseline.path.ver = o.target /\ state.baseline.path \in files

Finish(s) == task' = NoTask /\ state' = s
Ended(s, status) == [s EXCEPT !.attempt.status = status, !.attempt.phase = "completed"]

\* begin_attempt and the comparison of versions.  A rollback to a version that is
\* not lower, or from another one than the running version, is refused before its
\* attempt begins.
Begin ==
  /\ task.at = "begin"
  /\ LET o == task.offer
         s == [state EXCEPT !.attempt = NewAttempt(o, state.current)]
     IN  IF o.kind = "rollback" /\ o.target >= agent.ver
         THEN Finish(IF Current(o) /\ o.target > agent.ver THEN Ended(state, "failed") ELSE state)
         ELSE IF o.kind = "upgrade" /\ o.target = agent.ver THEN Finish(Ended(s, "succeeded"))
         ELSE IF o.kind = "upgrade" /\ o.target < agent.ver THEN Finish(Ended(s, "failed"))
         ELSE state' = s /\ task' = [task EXCEPT !.at = "fetch"]
  /\ UNCHANGED <<installed, service, agent, health, files, worker, lock, cli, updates, faults>>

\* send_status of an attempt that is no longer current fails, and so does the rest.
FetchedAt(path) ==
  /\ files' = files \cup {path}
  /\ IF Current(task.offer)
     THEN /\ state' = [state EXCEPT !.attempt.path = path, !.attempt.status = "waiting_idle"]
          /\ task' = [task EXCEPT !.at = "ready"]
     ELSE Finish(state)

\* The server's package: download, verification, set_package_path.
Download ==
  /\ task.at = "fetch"
  /\ FetchedAt([kind |-> task.offer.kind, ver |-> task.offer.target,
                retry |-> IF task.offer.kind = "upgrade" THEN task.offer.retry ELSE 0])
  /\ UNCHANGED <<installed, service, agent, health, worker, lock, cli, updates, faults>>

\* A rollback without a package of the server, or whose download failed.
UseBaseline ==
  /\ task.at = "fetch" /\ LocalBaseline(task.offer)
  /\ FetchedAt(state.baseline.path)
  /\ UNCHANGED <<installed, service, agent, health, worker, lock, cli, updates, faults>>

PrepareFails ==
  /\ task.at = "fetch"
  /\ Finish(IF Current(task.offer) THEN Ended(state, "failed") ELSE state)
  /\ Fault("prepare")
  /\ UNCHANGED <<installed, service, agent, health, files, worker, lock, cli, updates>>

-----------------------------------------------------------------------------
(***************************************************************************)
(* The handoff: launch_prepared_update and spawn_updater.                  *)
(***************************************************************************)
Free(w) == worker[w].at = "none"

\* Without a cached package of the running version the executable is copied.
\* Faulty: it is not.
PreviousCached(a) == a.previous

PreviousOf(a) ==
  IF a.previous # None THEN a.previous
  ELSE [path |-> [kind |-> "copy", ver |-> IF a.offer.kind = "manual" THEN installed ELSE agent.ver,
                  retry |-> 0], retry |-> 0]

Plan(a) == [at |-> "lock", offer |-> a.offer, path |-> a.path, previous |-> PreviousOf(a)]

\* The attempt that is handed over, with its worker started.
Spawn(w, a) ==
  /\ Free(w) /\ worker' = [worker EXCEPT ![w] = Plan(a)]
  /\ updates < MaxUpdates /\ updates' = updates + 1
  /\ state' = [state EXCEPT !.attempt = [a EXCEPT !.previous = PreviousOf(a)]]
  /\ files' = files \cup {a.path} \cup {p.path : p \in {PreviousOf(a)} \ {a.previous, None}}

Launch(w) ==
  /\ task.at = "ready"
  /\ IF Current(task.offer) /\ ~LockHeld
     THEN Spawn(w, Attempt) /\ task' = [task EXCEPT !.at = "spawned", !.worker = w]
     ELSE /\ Finish(IF Current(task.offer) THEN Ended(state, "failed") ELSE state)
          /\ UNCHANGED <<worker, files, updates>>
  /\ UNCHANGED <<installed, service, agent, health, lock, cli, faults>>

\* wait_for_worker_ownership and mark_handoff_started; the agent exits.
HandOver ==
  /\ task.at = "spawned" /\ lock = task.worker
  /\ IF Current(task.offer) THEN SetStatus("awaiting_restart", "target") ELSE state' = state
  /\ task' = NoTask /\ agent' = Down
  /\ UNCHANGED <<installed, service, health, files, worker, lock, cli, updates, faults>>

\* The worker did not take the lock within 5 seconds.
HandOverFails ==
  /\ task.at = "spawned" /\ lock # task.worker /\ Fault("handoff")
  /\ Finish(IF Current(task.offer) THEN Ended(state, "failed") ELSE state)
  /\ UNCHANGED <<installed, service, agent, health, files, worker, lock, cli, updates>>

-----------------------------------------------------------------------------
(***************************************************************************)
(* force_update: the check of the lock, then the attempt and the worker.   *)
(***************************************************************************)
Staged(o) == [kind |-> "manual", ver |-> o.target, retry |-> 0]

ForceCheck(o) ==
  /\ cli = None /\ ~LockHeld /\ updates < MaxUpdates
  /\ Staged(o) \notin files /\ (Attempt # None => Attempt.offer # o)
  /\ \A w \in Workers : worker[w].offer # o
  /\ cli' = o
  /\ Notes(When(\/ task # NoTask \/ agent.at \in {"read", "settle"}
                \/ \E w \in Workers : ~Free(w), "beside")
           \cup When(o.target = installed, "same"))
  /\ UNCHANGED <<installed, service, agent, task, disk, worker, lock, updates>>

ForceUpdate(w) ==
  /\ cli # None /\ cli' = None
  /\ LET a == [NewAttempt(cli, None) EXCEPT !.path = Staged(cli), !.status = "awaiting_restart",
                                            !.phase = "target"]
     IN  IF LockHeld
         THEN /\ state' = Ended([state EXCEPT !.attempt = a], "failed")
              /\ files' = files \cup {Staged(cli)} /\ UNCHANGED <<worker, updates>>
         ELSE Spawn(w, a)
  /\ UNCHANGED <<installed, service, agent, task, health, lock, faults>>

-----------------------------------------------------------------------------
(***************************************************************************)
(* The detached updater: apply_update.                                     *)
(***************************************************************************)
Step(w, at) == worker' = [worker EXCEPT ![w].at = at]

\* The process of the worker ends, and its lock with it.
Gone(w) == /\ worker' = [worker EXCEPT ![w] = NoPlan]
           /\ lock' = IF lock = w THEN None ELSE lock

\* persist_apply_status: nothing of a stale plan, and no step back from a
\* final status but another final one or the phase of the rollback.
Persisted(w, status, phase) ==
  IF ~Current(worker[w].offer) THEN state
  ELSE IF /\ Attempt.phase = "completed"
          /\ \/ Final(Attempt.status) /\ Attempt.status = status
             \/ /\ ~Final(status)
                /\ <<Attempt.status, phase>> \in
                     {<<"succeeded", "target">>, <<"rollback_succeeded", "target">>,
                      <<"rollback_succeeded", "rollback">>, <<"failed", "rollback">>}
  THEN state
  ELSE [state EXCEPT !.attempt.status = status, !.attempt.phase = phase]

Persist(w, status, phase) == state' = Persisted(w, status, phase)


Fail(w) == Persist(w, "failed", "completed") /\ Gone(w)

\* acquire_worker_ownership, which gives up after 5 seconds.
Acquire(w) ==
  /\ worker[w].at = "lock"
  /\ IF lock = None THEN lock' = w /\ Step(w, "handoff") ELSE Gone(w)
  /\ UNCHANGED <<installed, service, agent, task, disk, cli, updates, faults>>

\* ensure_plan_handoff_is_active
Active(w) == /\ Current(worker[w].offer) /\ Attempt.phase = "target"
             /\ Attempt.status \in {"installing", "awaiting_restart"}

\* wait_for_plan_handoff: 10 seconds for the parent.
Handoff(w) ==
  /\ worker[w].at = "handoff"
  /\ IF Active(w) THEN Step(w, "stop") /\ UNCHANGED <<state, lock, faults>>
     ELSE /\ Fail(w)
          /\ IF task.at = "spawned" /\ task.worker = w THEN Fault("handoff") ELSE faults' = faults
  /\ UNCHANGED <<installed, service, agent, task, health, files, cli, updates>>

\* stop_standalone_service and wait_for_process_exit
Stopped == service' = "stopped" /\ agent' = Down /\ task' = NoTask

Stop(w) ==
  /\ worker[w].at = "stop" /\ Stopped
  /\ IF Active(w)
     THEN Persist(w, "installing", "target") /\ health' = None /\ Step(w, "install") /\ lock' = lock
     ELSE Fail(w) /\ health' = health
  /\ UNCHANGED <<installed, files, cli, updates, faults>>

\* The command of the service manager fails, or the process does not exit.
StopFails(w) ==
  /\ worker[w].at = "stop" /\ Fault("stop")
  /\ \/ UNCHANGED <<service, agent, task>>
     \/ Stopped
  /\ Fail(w)
  /\ UNCHANGED <<installed, health, files, cli, updates>>

\* verify_package_at_rest and install_standalone, which renames a complete copy.
Install(w) ==
  /\ worker[w].at = "install"
  /\ IF worker[w].path \in files
     THEN /\ installed' = worker[w].path.ver
          /\ Persist(w, "awaiting_restart", "target") /\ Step(w, "restart")
     ELSE Step(w, "back") /\ UNCHANGED <<installed, state>>
  /\ UNCHANGED <<service, agent, task, health, files, lock, cli, updates, faults>>

Restarted == service' = "running" /\ agent' = [Down EXCEPT !.at = "boot", !.ver = installed]
             /\ task' = NoTask

Restart(w) ==
  /\ worker[w].at = "restart" /\ Restarted /\ Step(w, "health")
  /\ UNCHANGED <<installed, disk, lock, cli, updates, faults>>

\* A step after the service was stopped fails.  Faulty: its error ends the updater.
BreaksOff(w) ==
  /\ worker[w].at \in {"install", "restart"} /\ Fault("install") /\ Fail(w)
  /\ UNCHANGED <<installed, service, agent, task, health, files, cli, updates>>

Breaks(w) ==
  /\ worker[w].at \in {"install", "restart"} /\ Fault("install") /\ Step(w, "back")
  /\ UNCHANGED <<installed, service, agent, task, disk, lock, cli, updates>>

\* wait_for_health and complete_target_update, which does nothing when the agent
\* has recorded the success.
Cached(w)    == state.current = [path |-> worker[w].path, retry |-> worker[w].offer.retry]
Completed(w) ==
  IF Cached(w) \/ ~Current(worker[w].offer) THEN state
  ELSE [state EXCEPT !.current = Package(Attempt), !.baseline = worker[w].previous,
                     !.attempt.status = Success(worker[w].offer), !.attempt.phase = "completed"]

\* The older baseline, or a previous package that was preserved elsewhere.
Removed(w) ==
  IF Cached(w)
  THEN IF state.baseline = None THEN {}
       ELSE {worker[w].previous.path} \ {worker[w].path, state.baseline.path}
  ELSE IF ~Current(worker[w].offer) THEN {}
  ELSE Stale(state, [path |-> Attempt.path, previous |-> worker[w].previous])

MarkerMatches(m, ver, retry) == m = [ver |-> ver, retry |-> retry]

Healthy(w) ==
  /\ worker[w].at = "health"
  /\ MarkerMatches(health, worker[w].offer.target, worker[w].offer.retry)
  /\ state' = Completed(w)
  /\ files' = files \ Removed(w)
  /\ Gone(w)
  /\ UNCHANGED <<installed, service, agent, task, health, cli, updates, faults>>

\* The new version did not report itself within HEALTH_TIMEOUT.
Unhealthy(w) ==
  /\ worker[w].at = "health"
  /\ ~MarkerMatches(health, worker[w].offer.target, worker[w].offer.retry)
  /\ Step(w, "back")
  /\ Notes(When(agent.at \in {"read", "settle"}, "late"))
  /\ UNCHANGED <<installed, service, agent, task, disk, lock, cli, updates>>

\* attempt_rollback
Back(w) ==
  /\ worker[w].at = "back"
  /\ health' = None /\ Persist(w, "installing", "rollback") /\ Step(w, "restore")
  /\ UNCHANGED <<installed, service, agent, task, files, lock, cli, updates, faults>>

Restore(w) ==
  /\ worker[w].at = "restore"
  /\ IF worker[w].previous.path \in files
     THEN /\ Stopped /\ installed' = worker[w].previous.path.ver
          /\ Persist(w, "awaiting_restart", "rollback") /\ Step(w, "rerestart") /\ lock' = lock
     ELSE Fail(w) /\ UNCHANGED <<installed, service, agent, task>>
  /\ UNCHANGED <<health, files, cli, updates, faults>>

\* The service does not stop, or it does and the executable is not replaced.
RestoreFails(w) ==
  /\ worker[w].at = "restore" /\ Fault("restore")
  /\ \/ UNCHANGED <<service, agent, task>>
     \/ Stopped
  /\ Fail(w)
  /\ UNCHANGED <<installed, health, files, cli, updates>>

Rerestart(w) ==
  /\ worker[w].at = "rerestart" /\ Restarted /\ Step(w, "rehealth")
  /\ UNCHANGED <<installed, disk, lock, cli, updates, faults>>

RerestartFails(w) ==
  /\ worker[w].at = "rerestart" /\ Fault("restore") /\ Fail(w)
  /\ UNCHANGED <<installed, service, agent, task, health, files, cli, updates>>

\* The previous version reports itself; the package that failed is removed.
BackAgain(w) == MarkerMatches(health, worker[w].previous.path.ver, worker[w].previous.retry)

Rehealthy(w) ==
  /\ worker[w].at = "rehealth" /\ BackAgain(w)
  /\ files' = files \ {worker[w].path}
  /\ Persist(w, Restored(worker[w].offer), "completed") /\ Gone(w)
  /\ UNCHANGED <<installed, service, agent, task, health, cli, updates, faults>>

Reunhealthy(w) ==
  /\ worker[w].at = "rehealth" /\ ~BackAgain(w) /\ Fault("restore") /\ Fail(w)
  /\ UNCHANGED <<installed, service, agent, task, health, files, cli, updates>>

\* The state file cannot be written between two steps: `?` ends the updater where it is,
\* and the service stays as it was.  Writing "failed" then is tried and not insisted on;
\* where that fails of another error, the worker might as well have died.
StateFails(w) ==
  /\ Fault("state") /\ Gone(w)
  /\ state' = state \/ Persist(w, "failed", "completed")
  /\ \/ worker[w].at = "stop" /\ Active(w) /\ Stopped /\ health' = None /\ UNCHANGED installed
     \/ /\ worker[w].at = "install" /\ worker[w].path \in files
        /\ installed' = worker[w].path.ver /\ UNCHANGED <<service, agent, task, health>>
     \/ /\ worker[w].at = "back"
        /\ health' = None /\ UNCHANGED <<installed, service, agent, task>>
     \/ /\ worker[w].at = "restore" /\ worker[w].previous.path \in files
        /\ Stopped /\ installed' = worker[w].previous.path.ver /\ UNCHANGED health
     \/ /\ worker[w].at = "health" /\ ~Cached(w)
        /\ MarkerMatches(health, worker[w].offer.target, worker[w].offer.retry)
        /\ UNCHANGED <<installed, service, agent, task, health>>
  /\ UNCHANGED <<files, cli, updates>>

RehealthyUnsaved(w) ==
  /\ worker[w].at = "rehealth" /\ BackAgain(w) /\ Fault("state")
  /\ files' = files \ {worker[w].path}
  /\ (state' = state \/ Persist(w, "failed", "completed")) /\ Gone(w)
  /\ UNCHANGED <<installed, service, agent, task, health, cli, updates>>

\* The process of the updater dies.
WorkerDies(w) ==
  /\ worker[w].at # "none" /\ Fault("worker") /\ Gone(w)
  /\ UNCHANGED <<installed, service, agent, task, disk, cli, updates>>

\* The machine restarts.
Reboot ==
  /\ Fault("machine")
  /\ service' = "running" /\ agent' = Down /\ task' = NoTask
  /\ worker' = [w \in Workers |-> NoPlan] /\ lock' = None /\ cli' = None
  /\ UNCHANGED <<installed, disk, updates>>

-----------------------------------------------------------------------------
Applies(w) ==
  \/ Acquire(w) \/ Handoff(w) \/ Stop(w) \/ Install(w) \/ Restart(w) \/ Healthy(w) \/ Unhealthy(w)
  \/ Back(w) \/ Restore(w) \/ Rerestart(w) \/ Rehealthy(w)

Runs == Connect \/ WriteHealth \/ Settle \/ ServiceStarts
Prepares ==
  Begin \/ Download \/ UseBaseline \/ HandOver \/ \E w \in Workers : Launch(w)

Forces == (\E o \in Forced : ForceCheck(o)) \/ \E w \in Workers : ForceUpdate(w)

Next ==
  \/ Runs \/ Disconnect
  \/ \E o \in Upgrades \cup Rollbacks : Offer(o)
  \/ Prepares \/ PrepareFails \/ HandOverFails
  \/ Forces
  \/ \E w \in Workers :
       \/ Applies(w)
       \/ StopFails(w) \/ Breaks(w) \/ RestoreFails(w) \/ RerestartFails(w) \/ Reunhealthy(w)
       \/ StateFails(w) \/ RehealthyUnsaved(w) \/ WorkerDies(w)
  \/ Reboot

Spec == Init /\ [][Next]_vars

\* The updater and the tasks of the agent go on; the service manager starts what
\* should run, and the agent that runs connects.
Fairness ==
  /\ \A w \in Workers : WF_vars(Applies(w))
  /\ WF_vars(Runs) /\ WF_vars(Prepares)
FairSpec == Spec /\ Fairness

-----------------------------------------------------------------------------
(***************************************************************************)
(* Properties.                                                             *)
(***************************************************************************)
TypeOK ==
  /\ installed \in Versions /\ service \in {"running", "stopped"}
  /\ agent \in [at : {"down", "boot", "read", "settle", "up"}, ver : Versions,
                seen : States \cup {None}]
  /\ task \in [at : {"none", "begin", "fetch", "ready", "spawned"}, offer : Offers \cup {None},
               worker : Workers \cup {None}]
  /\ state \in States
  /\ health \in Marks \cup {None}
  /\ files \subseteq Paths
  /\ \A w \in Workers : worker[w].at # "none" =>
       worker[w].offer \in Offers /\ worker[w].path \in Paths /\ worker[w].previous \in Packages
  /\ lock \in Workers \cup {None}
  /\ cli \in Forced \cup {None}
  /\ updates \in 0 .. MaxUpdates /\ faults \subseteq FaultKinds

\* What was restored, saved or running when it broke off is not known.
Broken  == faults \cap {"restore", "state", "worker", "machine"} # {}
Crossed == faults \cap Crossings # {}

\* When nobody works on the attempt any more, its status tells what is installed, unless
\* updates crossed and one of them broke off.
Quiet == agent.at = "up" /\ task = NoTask /\ cli = None /\ \A w \in Workers : Free(w)
StatusIsTrue ==
  /\ Quiet /\ ~(Crossed /\ Broken)
  /\ Attempt # None /\ Attempt.phase = "completed" /\ Attempt.path # None
  => /\ Attempt.status = Success(Attempt.offer) /\ Attempt.offer.kind = "rollback"
          => installed = Attempt.offer.target
     /\ Attempt.status = "succeeded" => installed = Attempt.offer.target
     /\ Attempt.status = "rollback_succeeded" /\ Attempt.offer.kind # "rollback"
          => installed = Attempt.previous.path.ver

\* While an updater may need it, the previous package is there, unless an earlier update
\* broke off, settled late or was not alone.  (Every value has its type, too.)
FallbackIsKept ==
  /\ TypeOK
  /\ \A w \in Workers :
       /\ ~Broken /\ faults \cap {"late", "beside"} = {}
       /\ worker[w].at \in {"stop", "install", "restart", "health", "back", "restore"}
       => worker[w].previous.path \in files

\* An updater that has not replaced the executable would restore the version that is
\* installed, unless an earlier update broke off or settled late.
FallbackIsPrevious ==
  \A w \in Workers :
    ~Broken /\ "late" \notin faults /\ worker[w].at \in {"stop", "install"}
      => worker[w].previous.path.ver = installed

\* README.md:448: the state directory keeps the current package and one baseline.
BaselineIsKept == state.baseline # None => state.baseline.path \in files

\* The service stays stopped only when it did not stop, the previous version could not be
\* put back, the updater died or could not write its state, or updates crossed.
ServiceReturns ==
  []<>(service = "running" \/ Crossed \/ faults \cap {"stop", "restore", "state", "worker"} # {})

\* An attempt that was handed over gets its result, whatever crosses, unless a process died
\* under it or the result could not be written.
AttemptSettles == []<>(~HandedOff \/ faults \cap {"state", "worker", "machine"} # {})

=============================================================================
