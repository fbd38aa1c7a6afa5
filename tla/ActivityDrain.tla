---------------------------- MODULE ActivityDrain ----------------------------
(***************************************************************************)
(* How the agent waits for its work to end before it updates itself: the   *)
(* activity tracker (instanceEnd/src/activity.rs), the update task that    *)
(* drains it (update.rs), and the message loop that starts that task,      *)
(* launches the updater and drops the task with its connection (ws.rs).    *)
(*                                                                         *)
(* An access to an atomic is one step; the tasks run on several threads,   *)
(* and abort() stops a task only where it awaits.  A rollback drains in    *)
(* the same way as an upgrade; one kind of task stands for both.           *)
(*                                                                         *)
(* An operator that stands directly before another one of the same name    *)
(* with a suffix removed is a faulty variant of it; the README lists the   *)
(* property each of them breaks.                                           *)
(***************************************************************************)
EXTENDS Integers, FiniteSets

CONSTANTS
  Works,          \* finite: commands, terminals, transfers, Docker requests
  Streams         \* those of Works that close_streams_for_update closes

VARIABLES
  draining,       \* ActivityState.draining
  active,         \* ActivityState.active
  notified,       \* notify_waiters was called since the task's Notified exists
  changed,        \* the loop has not seen the last change of draining_updates
  work,           \* program point of a piece of work
  closing,        \* streams told to close
  task,           \* program point of the update task
  aborted,        \* its JoinHandle was aborted
  owned,          \* the loop holds it as active_update
  loop            \* program point of the message loop

tracker == <<draining, active, notified, changed>>
vars    == <<tracker, work, closing, task, aborted, owned, loop>>

WorkPoints == {"none", "asked", "looked", "counted", "inside", "leaving",
               "notifying"}
TaskPoints == {"none", "preparing", "verifying", "counting", "arming",
               "checking", "polling", "waiting", "ready", "failing",
               "finished"}
LoopPoints == {"offline", "online", "launching", "flushing", "closing",
               "resuming", "leaving", "quitting", "exiting"}

Init ==
  /\ draining = FALSE /\ active = 0 /\ notified = FALSE /\ changed = FALSE
  /\ work = [w \in Works |-> "none"] /\ closing = {}
  /\ task = "none" /\ aborted = FALSE /\ owned = FALSE
  /\ loop = "offline"

Inside == {w \in Works : work[w] = "inside"}

\* set_draining: subscribers are told of a change only.
SetDraining(b) ==
  /\ draining' = b
  /\ changed' = (changed \/ draining # b)
  /\ UNCHANGED <<active, notified>>

(***************************************************************************)
(* A piece of work.  A stream enters within the loop, which does nothing   *)
(* else meanwhile; a command does so in a task of its own.                 *)
(***************************************************************************)
LoopFree ==
  loop = "online" /\ \A s \in Streams : work[s] \notin {"asked", "looked", "counted"}

Ask(w) ==
  /\ LoopFree /\ work[w] = "none"
  /\ work' = [work EXCEPT ![w] = "asked"]
  /\ UNCHANGED <<tracker, closing, task, aborted, owned, loop>>

LookLeaves(w) ==
  /\ work[w] = "asked"
  /\ work' = [work EXCEPT ![w] = IF draining THEN "leaving" ELSE "looked"]
  /\ UNCHANGED <<tracker, closing, task, aborted, owned, loop>>
Look(w) ==
  /\ work[w] = "asked"
  /\ work' = [work EXCEPT ![w] = IF draining THEN "none" ELSE "looked"]
  /\ UNCHANGED <<tracker, closing, task, aborted, owned, loop>>

Count(w) ==
  /\ work[w] = "looked"
  /\ active' = active + 1
  /\ work' = [work EXCEPT ![w] = "counted"]
  /\ UNCHANGED <<draining, notified, changed, closing, task, aborted, owned, loop>>

LookAgainNever(w) ==
  /\ work[w] = "counted"
  /\ work' = [work EXCEPT ![w] = "inside"]
  /\ UNCHANGED <<tracker, closing, task, aborted, owned, loop>>
LookAgain(w) ==
  /\ work[w] = "counted"
  /\ work' = [work EXCEPT ![w] = IF draining THEN "leaving" ELSE "inside"]
  /\ UNCHANGED <<tracker, closing, task, aborted, owned, loop>>

\* The work ends and drops its ActivityGuard.
End(w) ==
  /\ work[w] = "inside"
  /\ work' = [work EXCEPT ![w] = "leaving"]
  /\ closing' = closing \ {w}
  /\ UNCHANGED <<tracker, task, aborted, owned, loop>>

\* leave
Uncount(w) ==
  /\ work[w] = "leaving"
  /\ active' = active - 1
  /\ work' = [work EXCEPT ![w] = IF active = 1 THEN "notifying" ELSE "none"]
  /\ UNCHANGED <<draining, notified, changed, closing, task, aborted, owned, loop>>

NotifyPolled(w) ==
  /\ work[w] = "notifying"
  /\ notified' = (notified \/ task = "waiting")
  /\ work' = [work EXCEPT ![w] = "none"]
  /\ UNCHANGED <<draining, active, changed, closing, task, aborted, owned, loop>>
Notify(w) ==
  /\ work[w] = "notifying"
  /\ notified' = TRUE
  /\ work' = [work EXCEPT ![w] = "none"]
  /\ UNCHANGED <<draining, active, changed, closing, task, aborted, owned, loop>>

WorkStep(w) == Look(w) \/ Count(w) \/ LookAgain(w) \/ Uncount(w) \/ Notify(w)

(***************************************************************************)
(* The update task.  What it reports to the loop is lost when the loop has *)
(* dropped it.                                                             *)
(***************************************************************************)
Report(t) == IF aborted THEN "none" ELSE t

StartUpdate ==
  /\ LoopFree /\ ~owned
  /\ task = "none"    \* a poll that was aborted is over before the next offer
  /\ task' = "preparing" /\ aborted' = FALSE /\ owned' = TRUE
  /\ UNCHANGED <<tracker, work, closing, loop>>

\* The offer turns out to be the version that runs, or a step fails.
Prepare ==
  /\ task = "preparing"
  /\ task' \in {"verifying", "failing", "finished"}
  /\ UNCHANGED <<tracker, work, closing, aborted, owned, loop>>

RejectPackage ==
  /\ task = "verifying"
  /\ task' = "failing"
  /\ UNCHANGED <<tracker, work, closing, aborted, owned, loop>>

StartDraining ==
  /\ task = "verifying"
  /\ SetDraining(TRUE)
  /\ task' = "counting"
  /\ UNCHANGED <<work, closing, aborted, owned, loop>>

\* The status "waiting_idle" may fail to be written.
ReportWaiting ==
  /\ task = "counting"
  /\ task' \in {"arming"} \cup {t \in {"failing"} : active > 0}
  /\ UNCHANGED <<tracker, work, closing, aborted, owned, loop>>

Arm ==
  /\ task = "arming"
  /\ notified' = FALSE
  /\ task' = "checking"
  /\ UNCHANGED <<draining, active, changed, work, closing, aborted, owned, loop>>

Check ==
  /\ task = "checking"
  /\ task' = IF active = 0 THEN Report("ready") ELSE "polling"
  /\ UNCHANGED <<tracker, work, closing, aborted, owned, loop>>

\* The first poll of Notified: the task awaits unless it was notified already.
Poll ==
  /\ task = "polling"
  /\ task' = IF notified THEN "arming" ELSE Report("waiting")
  /\ UNCHANGED <<tracker, work, closing, aborted, owned, loop>>

Wake ==
  /\ task = "waiting" /\ notified
  /\ task' = "arming"
  /\ UNCHANGED <<tracker, work, closing, aborted, owned, loop>>

\* The error path of prepare and prepare_rollback.
Fail ==
  /\ task = "failing"
  /\ SetDraining(FALSE)
  /\ task' = Report("finished")
  /\ UNCHANGED <<work, closing, aborted, owned, loop>>

TaskStep == Prepare \/ RejectPackage \/ StartDraining \/ ReportWaiting
            \/ Arm \/ Check \/ Poll \/ Wake \/ Fail

(***************************************************************************)
(* The message loop.                                                       *)
(***************************************************************************)
Reconnect ==
  /\ loop = "offline"
  /\ loop' = "online" /\ changed' = FALSE
  /\ UNCHANGED <<draining, active, notified, work, closing, task, aborted, owned>>

\* The branch of draining_updates.changed().
CloseStreams ==
  /\ LoopFree /\ changed
  /\ changed' = FALSE
  /\ closing' = IF draining THEN closing \cup (Inside \cap Streams) ELSE closing
  /\ UNCHANGED <<draining, active, notified, work, task, aborted, owned, loop>>

\* Drop of an ActiveUpdate, first half: task.abort().
Abort ==
  /\ task' = IF task \in {"preparing", "waiting", "ready", "finished"}
             THEN "none" ELSE task
  /\ aborted' = TRUE /\ owned' = FALSE

\* Second half: cancel_preparation().
CancelPreparation ==
  /\ loop \in {"resuming", "leaving", "quitting"}
  /\ SetDraining(FALSE)
  /\ loop' = CASE loop = "resuming" -> "online"
               [] loop = "leaving"  -> "offline"
               [] loop = "quitting" -> "exiting"
  /\ UNCHANGED <<work, closing, task, aborted, owned>>

TakeFinished ==
  /\ LoopFree /\ owned /\ task = "finished"
  /\ Abort
  /\ loop' = "resuming"
  /\ UNCHANGED <<tracker, work, closing>>

TakeReadyStale ==
  /\ LoopFree /\ owned /\ task \in {"ready", "waiting"}
  /\ task' = "none" /\ owned' = FALSE
  /\ loop' = "launching"
  /\ UNCHANGED <<tracker, work, closing, aborted>>
TakeReady ==
  /\ LoopFree /\ owned /\ task = "ready"
  /\ task' = "none" /\ owned' = FALSE
  /\ loop' = "launching"
  /\ UNCHANGED <<tracker, work, closing, aborted>>

Launch ==
  /\ loop = "launching"
  /\ loop' = "flushing"
  /\ UNCHANGED <<tracker, work, closing, task, aborted, owned>>

LaunchFails ==
  /\ loop = "launching"
  /\ SetDraining(FALSE)
  /\ loop' = "resuming"
  /\ UNCHANGED <<work, closing, task, aborted, owned>>

\* The last statuses are sent, or two seconds are over; active is dropped.
Flush ==
  /\ loop = "flushing"
  /\ Abort
  /\ loop' = "quitting"
  /\ UNCHANGED <<tracker, work, closing>>

\* The socket ends: close_all, which may await, then drop(active_update).
Disconnect ==
  /\ LoopFree
  /\ closing' = closing \cup (Inside \cap Streams)
  /\ loop' = "closing"
  /\ UNCHANGED <<tracker, work, task, aborted, owned>>

DropUpdate ==
  /\ loop = "closing"
  /\ IF owned
     THEN Abort /\ loop' = "leaving"
     ELSE loop' = "offline" /\ UNCHANGED <<task, aborted, owned>>
  /\ UNCHANGED <<tracker, work, closing>>

\* The process ends, after an update, on request or by a crash; the service
\* starts another.
Restart ==
  /\ draining' = FALSE /\ active' = 0 /\ notified' = FALSE /\ changed' = FALSE
  /\ work' = [w \in Works |-> "none"] /\ closing' = {}
  /\ task' = "none" /\ aborted' = FALSE /\ owned' = FALSE
  /\ loop' = "offline"

LoopStep == CloseStreams \/ CancelPreparation \/ TakeFinished \/ TakeReady
            \/ Launch \/ LaunchFails \/ Flush \/ DropUpdate

Next ==
  \/ \E w \in Works : Ask(w) \/ WorkStep(w) \/ End(w)
  \/ StartUpdate \/ TaskStep
  \/ LoopStep \/ Reconnect \/ Disconnect \/ Restart

Spec == Init /\ [][Next]_vars

(***************************************************************************)
(* Threads make progress, and work comes to an end by itself, except that  *)
(* nothing is assumed of a stream that was not told to close.              *)
(***************************************************************************)
Fairness ==
  /\ \A w \in Works : WF_vars(WorkStep(w))
  /\ \A w \in Works : WF_vars((w \in Streams => w \in closing) /\ End(w))
  /\ WF_vars(TaskStep)
  /\ WF_vars(LoopStep)

FairSpec == Spec /\ Fairness

(***************************************************************************)
(* Properties.                                                             *)
(***************************************************************************)
\* The tracker's counter counts, and every program point is one of the code's.
TypeOK ==
  /\ draining \in BOOLEAN /\ active \in Nat
  /\ notified \in BOOLEAN /\ changed \in BOOLEAN
  /\ work \in [Works -> WorkPoints] /\ closing \subseteq Streams
  /\ task \in TaskPoints /\ aborted \in BOOLEAN /\ owned \in BOOLEAN
  /\ loop \in LoopPoints

\* From the moment wait_until_idle returns until the updater has been
\* launched, no work is inside and none can enter: the two loads of
\* try_enter and the order of the two steps before it in the update task.
ReadyIsQuiet ==
  task = "ready" \/ loop \in {"launching", "flushing"} =>
    draining /\ Inside = {}

\* A work that counts, looks again and leaves, and an update that drains and
\* is dropped with its connection, behave as one atomic gate (UpdateGate).
Gate == INSTANCE UpdateGate WITH
  gate    <- IF draining THEN "shut" ELSE "open",
  inside  <- Inside,
  updater <- loop \in {"flushing", "quitting", "exiting"}
ImplementsGate == Gate!Spec

\* An update that waits for idle becomes ready, unless its connection ends: the
\* last work to leave wakes it, also when it leaves between the check and the
\* wait, and Docker streams are closed for it.
WaitEnds == task = "waiting" /\ owned ~> task = "ready" \/ ~owned
=============================================================================
