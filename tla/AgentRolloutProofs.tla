------------------------ MODULE AgentRolloutProofs --------------------------
(***************************************************************************)
(* Theorems about AgentRollout, for any releases, instances, requests and  *)
(* bounds: at most one release is under control and the rollout states     *)
(* change as ReleaseControl says; an upgrade leaves "pending" only while   *)
(* its release is offered; what is finished stays finished; an instance    *)
(* gets a second upgrade to a release only after it was rolled back from   *)
(* it; a release is said to be rolled back when it is; and deleting a      *)
(* release strands no instance.                                            *)
(***************************************************************************)
EXTENDS AgentRollout, FiniteSetTheorems, TLAPS

-----------------------------------------------------------------------------
(***************************************************************************)
(* The states of releases.  ReleaseControl preserves IControl, so it is    *)
(* enough to show that every step of AgentRollout is one of its steps.     *)
(***************************************************************************)
IControl == rollout \in [Releases -> States] /\ OneControlledRelease

\* The actions of the console that set a rollout state, each with the step
\* of ReleaseControl it is.
LEMMA ConsoleIsControl ==
  ASSUME IControl, NEW r \in Releases
  PROVE  /\ CreateRelease(r) => Control!Create(r)
         /\ Pause(r) => Control!Pause(r)
         /\ Resume(r) => Control!Resume(r)
         /\ RollbackRelease(r) => Control!Rollback(r)
         /\ DeleteRelease(r) => Control!Delete(r)
<1> USE DEF IControl, SetRollout, Control!Move, NoOtherControlled, Control!Free,
            Controlled, Control!Controlled, Canary, Control!Canary, Offering, Live,
            Control!Live, Full, Missing, States, Control!States, Withdrawn
<1>1. CreateRelease(r) => Control!Create(r)
  BY DEF CreateRelease, Control!Create
<1>2. Pause(r) => Control!Pause(r)
  BY DEF Pause, SetPaused, Control!Pause
<1>3. Resume(r) => Control!Resume(r)
  BY DEF Resume, Control!Resume
<1>4. RollbackRelease(r) => Control!Rollback(r)
  BY DEF RollbackRelease, Control!Rollback
<1>5. DeleteRelease(r) => Control!Delete(r)
  BY DEF DeleteRelease, DeleteRows, DeleteWithout, Control!Delete
<1> QED BY <1>1, <1>2, <1>3, <1>4, <1>5

\* Retrying a failed rollback of a release that was partly rolled back
\* starts its rollback again; every other retry leaves the releases alone.
LEMMA RetryIsControl ==
  ASSUME IControl, NEW a \in Attempts, row[a].rel \in Releases, Retry(a)
  PROVE  Control!Rollback(row[a].rel) \/ UNCHANGED rollout
<1> USE DEF IControl, SetRollout, Control!Move, NoOtherControlled, Control!Free,
            Controlled, Control!Controlled, Canary, Control!Canary, Live, Control!Live, Full
<1>1. CASE rollout[row[a].rel] # "rollback_partial"
  BY <1>1 DEF Retry, Requeue
<1>2. CASE rollout[row[a].rel] = "rollback_partial"
  <2>1. RetryableRollback(a)
    BY <1>2 DEF Retry, RetryableUpgrade
  <2>2. NoOtherControlled(row[a].rel)
    BY <1>2, <2>1 DEF RetryableRollback
  <2>3. SetRollout(row[a].rel, "rollback_active")
    BY <1>2 DEF Retry, Requeue
  <2> QED BY <1>2, <2>2, <2>3 DEF Control!Rollback
<1> QED BY <1>1, <1>2

\* Setting the state of what is not a release has no effect.
LEMMA SetNothing ==
  ASSUME IControl, NEW r, r \notin Releases, NEW s, SetRollout(r, s)
  PROVE  UNCHANGED rollout
  BY DEF IControl, SetRollout

\* The actions that run on what a request or a reconciliation read before.
LEMMA PreparedIsControl ==
  ASSUME IControl, NEW d \in Admins
  PROVE  /\ Publish(d) => Control!Start(admin[d].rel) \/ UNCHANGED rollout
         /\ Promote(d) => Control!Promote(admin[d].rel)
<1> USE DEF IControl, SetRollout, Control!Move, NoOtherControlled, Control!Free,
            Controlled, Control!Controlled, Canary, Control!Canary
<1>1. Publish(d) => Control!Start(admin[d].rel) \/ UNCHANGED rollout
  BY DEF Publish, Control!Start
<1>2. Promote(d) => Control!Promote(admin[d].rel)
  BY DEF Promote, Control!Promote
<1> QED BY <1>1, <1>2

LEMMA CloseIsControl ==
  ASSUME IControl, NEW k \in Reconcilers, Close(k)
  PROVE  Control!Settle(recon[k].rel) \/ UNCHANGED rollout
  BY DEF IControl, Close, SetRollout, Control!Settle, Control!Move

\* Everything else leaves the releases alone.
LEMMA OthersKeepReleases ==
  ASSUME NEW i \in Instances
  PROVE  /\ Approve(i) \/ Disable(i) => UNCHANGED rollout
         /\ LookActive(i) \/ LookCandidate(i) \/ DropLook(i) => UNCHANGED rollout
         /\ InsertAttempt(i) \/ Deliver(i) \/ TakeOffer(i) => UNCHANGED rollout
         /\ HandOff(i) \/ FailTask(i) \/ Install(i) \/ Restore(i) \/ Botch(i) => UNCHANGED rollout
         /\ RecordStatus(i) \/ Register(i) \/ Metrics(i) => UNCHANGED rollout
  BY DEF releases, Approve, Disable, LookActive, LookCandidate, DropLook, InsertAttempt,
         Deliver, DeliverTo, TakeOffer, HandOff, FailTask, Install, Restore, Botch, AgentStep,
         RecordStatus, Register, Metrics

LEMMA RequestsKeepReleases ==
  ASSUME NEW d \in Admins, NEW r, NEW i, NEW ids
  PROVE  /\ PreparePublish(d, r, ids) \/ PrepareAdd(d, r, ids) \/ PreparePromote(d, r)
            => UNCHANGED rollout
         /\ PrepareInstanceRollback(d, r, i) \/ PrepareReupgrade(d, r, i) => UNCHANGED rollout
         /\ AddTargets(d) \/ RollbackInstance(d) \/ Reupgrade(d) \/ GiveUp(d)
            => UNCHANGED rollout
  BY DEF releases, Prepare, PreparePublish, PrepareAdd, PreparePromote,
         PrepareInstanceRollback, PrepareReupgrade, AddTargets, RollbackInstance,
         Reupgrade, GiveUp

LEMMA BackgroundKeepsReleases ==
  ASSUME NEW k \in Reconcilers, NEW u
  PROVE  /\ BeginReconcile(k, u) \/ QueueOne(k, u) \/ QueuedAll(k) => UNCHANGED rollout
         /\ CountActive(k) \/ CountUnqueued(k) => UNCHANGED rollout
         /\ Expire(u) \/ RestartBackend => UNCHANGED rollout
  BY DEF releases, BeginReconcile, QueueOne, QueuedAll, CountActive, CountUnqueued,
         Expire, RestartBackend

LEMMA StepIsControl ==
  ASSUME IControl, [Next]_vars
  PROVE  [Control!Next]_rollout
<1>1. CASE UNCHANGED vars
  BY <1>1 DEF vars, releases
<1>2. CASE Console
  <2>1. ASSUME NEW r \in Releases, CreateRelease(r) \/ Pause(r) \/ Resume(r)
                                   \/ RollbackRelease(r) \/ DeleteRelease(r)
        PROVE  Control!Next
    BY <2>1, ConsoleIsControl DEF Control!Next
  <2>2. ASSUME NEW r \in Releases, UploadArtifact(r)
        PROVE  UNCHANGED rollout
    BY <2>2 DEF UploadArtifact
  <2>3. ASSUME NEW a \in Attempts, Retry(a)
        PROVE  [Control!Next]_rollout
    <3>1. CASE row[a].rel \in Releases
      BY <2>3, <3>1, RetryIsControl DEF Control!Next
    <3>2. CASE row[a].rel \notin Releases
      BY <2>3, <3>2, SetNothing DEF Retry, Requeue
    <3> QED BY <3>1, <3>2
  <2>4. ASSUME NEW i \in Instances, Approve(i) \/ Disable(i)
        PROVE  UNCHANGED rollout
    BY <2>4, OthersKeepReleases
  <2>5. ASSUME NEW d \in Admins, Publish(d) \/ Promote(d)
        PROVE  [Control!Next]_rollout
    <3>1. CASE admin[d].rel \in Releases
      BY <2>5, <3>1, PreparedIsControl DEF Control!Next
    <3>2. CASE admin[d].rel \notin Releases
      BY <2>5, <3>2, SetNothing DEF Publish, Promote
    <3> QED BY <3>1, <3>2
  <2>6. ASSUME NEW d \in Admins, NEW r \in Releases,
               \/ \E ids \in SUBSET Instances : PreparePublish(d, r, ids) \/ PrepareAdd(d, r, ids)
               \/ PreparePromote(d, r)
               \/ \E i \in Instances : \/ PrepareInstanceRollback(d, r, i)
                                       \/ PrepareReupgrade(d, r, i)
        PROVE  UNCHANGED rollout
    BY <2>6, RequestsKeepReleases
  <2>7. ASSUME NEW d \in Admins, AddTargets(d) \/ RollbackInstance(d) \/ Reupgrade(d)
                                 \/ GiveUp(d)
        PROVE  UNCHANGED rollout
    BY <2>7, RequestsKeepReleases
  <2> QED BY <1>2, <2>1, <2>2, <2>3, <2>4, <2>5, <2>6, <2>7 DEF Console
<1>3. CASE AgentActions
  BY <1>3, OthersKeepReleases DEF AgentActions
<1>4. CASE Background
  <2>1. ASSUME NEW k \in Reconcilers, Close(k)
        PROVE  [Control!Next]_rollout
    <3>1. CASE recon[k].rel \in Releases
      BY <2>1, <3>1, CloseIsControl DEF Control!Next
    <3>2. CASE recon[k].rel \notin Releases
      BY <2>1, <3>2, SetNothing DEF Close
    <3> QED BY <3>1, <3>2
  <2>2. ASSUME NEW k \in Reconcilers, NEW r \in Releases, BeginReconcile(k, r)
        PROVE  UNCHANGED rollout
    BY <2>2, BackgroundKeepsReleases
  <2>3. ASSUME NEW k \in Reconcilers, ReconcileStep(k), ~Close(k)
        PROVE  UNCHANGED rollout
    BY <2>3, BackgroundKeepsReleases DEF ReconcileStep
  <2>4. ASSUME (\E a \in Attempts : Expire(a)) \/ RestartBackend
        PROVE  UNCHANGED rollout
    BY <2>4 DEF Expire, RestartBackend, releases
  <2> QED BY <1>4, <2>1, <2>2, <2>3, <2>4 DEF Background, ReconcileStep
<1> QED BY <1>1, <1>2, <1>3, <1>4 DEF Next

LEMMA ControlKeeps == IControl /\ [Control!Next]_rollout => IControl'
<1> SUFFICES ASSUME IControl, [Control!Next]_rollout PROVE IControl'
  OBVIOUS
<1> USE DEF IControl, OneControlledRelease, Control!Move, Control!Free, Controlled,
            Control!Controlled, Canary, Control!Canary, States, Live, Full, Control!Live,
            Withdrawn, Missing
<1>1. CASE UNCHANGED rollout
  BY <1>1
<1>2. ASSUME NEW r \in Releases, Control!Create(r) PROVE IControl'
  BY <1>2 DEF Control!Create
<1>3. ASSUME NEW r \in Releases, Control!Start(r) PROVE IControl'
  BY <1>3 DEF Control!Start
<1>4. ASSUME NEW r \in Releases, Control!Pause(r) PROVE IControl'
  BY <1>4 DEF Control!Pause
<1>5. ASSUME NEW r \in Releases, Control!Resume(r) PROVE IControl'
  BY <1>5 DEF Control!Resume
<1>6. ASSUME NEW r \in Releases, Control!Promote(r) PROVE IControl'
  BY <1>6 DEF Control!Promote
<1>7. ASSUME NEW r \in Releases, Control!Rollback(r) PROVE IControl'
  BY <1>7 DEF Control!Rollback
<1>8. ASSUME NEW r \in Releases, Control!Settle(r) PROVE IControl'
  BY <1>8 DEF Control!Settle
<1>9. ASSUME NEW r \in Releases, Control!Delete(r) PROVE IControl'
  BY <1>9 DEF Control!Delete
<1> QED BY <1>1, <1>2, <1>3, <1>4, <1>5, <1>6, <1>7, <1>8, <1>9 DEF Control!Next

LEMMA ControlInit == Init => IControl /\ Control!Init
  BY DEF Init, IControl, OneControlledRelease, Controlled, Canary, States, Missing, Live,
         Withdrawn, Control!Init

LEMMA ControlInvariant == Spec => []IControl
<1>1. IControl /\ [Next]_vars => IControl'
  BY StepIsControl, ControlKeeps
<1> QED BY <1>1, ControlInit, PTL DEF Spec

\* At most one release is in a canary, paused or being rolled back, whatever
\* the number of releases, administrators and instances: every handler that
\* puts a release under control takes ensure_no_other_controlled_release
\* inside the transaction that does it.
THEOREM OneReleaseControlled == Spec => []OneControlledRelease
  BY ControlInvariant, PTL DEF IControl

\* The rollout states of the backend go through the life ReleaseControl
\* describes, and nothing but a console action or the end of a rollback
\* moves them.
THEOREM ControlImplemented == Spec => ImplementsControl
<1>1. Init => Control!Init
  BY ControlInit
<1>2. IControl /\ [Next]_vars => [Control!Next]_rollout
  BY StepIsControl
<1> QED BY <1>1, <1>2, ControlInvariant, PTL DEF Spec, ImplementsControl, Control!Spec

-----------------------------------------------------------------------------
(***************************************************************************)
(* Attempts and their copies.  An offer, a task or a delivery about to be  *)
(* made carries the retry count of the attempt it was made from; counts    *)
(* only grow, a retry makes its attempt pending, and identifiers are not   *)
(* used twice.  So no copy outside the database is as recent as a pending  *)
(* attempt, and a report cannot get one going.                             *)
(***************************************************************************)
AttemptShape ==
  /\ next \in Nat \ {0}
  /\ row = [a \in Attempts |-> row[a]]
  /\ status \in [Attempts -> Active \cup Terminal \cup {"none"}]
  /\ retry \in [Attempts -> Nat]
  /\ \A a \in Attempts : a >= next => row[a] = None

\* n was the retry count of attempt a; if it was sent, a is not pending on it.
Known(a, n) == a \in Attempts /\ a < next /\ n \in Nat /\ (a \in Rows => n <= retry[a])
Sent(a, n) == Known(a, n) /\ (a \in Rows /\ status[a] = "pending" => n < retry[a])

TaskStates == {"waiting", "installing", "succeeded", "rollback_succeeded", "failed"}

Shapes ==
  /\ offer = [i \in Instances |-> offer[i]]
  /\ task = [i \in Instances |-> task[i]]
  /\ look = [i \in Instances |-> look[i]]

Copies ==
  /\ Shapes
  /\ \A i \in Instances :
       /\ offer[i] # None => Sent(offer[i].id, offer[i].retry)
       /\ task[i] # None => /\ Sent(task[i].id, task[i].retry)
                            /\ task[i].state \in TaskStates
       /\ look[i] # None /\ look[i].step = "deliver" => Known(look[i].id, look[i].retry)

\* A request names instances.
Requests ==
  /\ admin = [d \in Admins |-> admin[d]]
  /\ \A d \in Admins : admin[d] # None => admin[d].ids \subseteq Instances

IAttempts == AttemptShape /\ Copies /\ Requests

\* What every step does to the attempts that exist.
Onward ==
  /\ next' \in Nat /\ next' >= next
  /\ \A a \in Rows' : a < next =>
       /\ a \in Rows
       /\ retry'[a] >= retry[a]
       /\ status'[a] = "pending" => status[a] = "pending" \/ retry'[a] > retry[a]

\* The two action properties, as conditions on a step.
Held ==
  \A a \in Rows : /\ row[a].op = "upgrade" /\ status[a] = "pending"
                  /\ status'[a] \in {"waiting", "installing"}
                  => rollout[row[a].rel] \in Offering
Final ==
  \A a \in Rows : row'[a] # None /\ status[a] \in Terminal /\ status'[a] # status[a] =>
    \/ retry'[a] = retry[a] + 1 /\ status'[a] = "pending"
    \/ status[a] = "cancelled" /\ status'[a] = "succeeded"
       /\ rollout[row[a].rel] = "rollback_active"

\* A step on the attempts is in order.
Orderly == AttemptShape' /\ Onward /\ Held /\ Final

LEMMA KnownOn ==
  ASSUME IAttempts, AttemptShape', Onward, NEW a, NEW n
  PROVE  /\ Known(a, n) => Known(a, n)'
         /\ Sent(a, n) => Sent(a, n)'
<1>1. ASSUME Known(a, n) PROVE Known(a, n)'
  <2>1. a \in Nat /\ a < next /\ next \in Nat /\ n \in Nat /\ retry[a] \in Nat
    BY <1>1, BoundAssumption DEF Known, Attempts, IAttempts, AttemptShape
  <2>2. ASSUME a \in Rows' PROVE n <= retry'[a]
    <3>1. a \in Rows /\ retry'[a] >= retry[a] /\ retry'[a] \in Nat
      BY <1>1, <2>1, <2>2 DEF Onward, AttemptShape, Known
    <3> QED BY <1>1, <2>1, <3>1 DEF Known
  <2> QED BY <1>1, <2>1, <2>2 DEF Known, Onward
<1>2. ASSUME Sent(a, n) PROVE Sent(a, n)'
  <2>1. Known(a, n) /\ Known(a, n)'
    BY <1>1, <1>2 DEF Sent
  <2>2. a \in Nat /\ a < next /\ n \in Nat /\ retry[a] \in Nat /\ retry'[a] \in Nat
    BY <2>1, BoundAssumption DEF Known, Attempts, IAttempts, AttemptShape
  <2>3. ASSUME a \in Rows', status'[a] = "pending" PROVE n < retry'[a]
    <3>1. /\ a \in Rows /\ retry'[a] >= retry[a]
          /\ status[a] = "pending" \/ retry'[a] > retry[a]
      BY <2>2, <2>3 DEF Onward
    <3> QED BY <1>2, <2>1, <2>2, <3>1 DEF Sent, Known
  <2> QED BY <2>1, <2>3 DEF Sent
<1> QED BY <1>1, <1>2

LEMMA CopiesOn ==
  ASSUME IAttempts, AttemptShape', Onward, UNCHANGED <<offer, task, look>>
  PROVE  Copies'
  BY KnownOn DEF IAttempts, Copies, Shapes

LEMMA AttemptsUnchanged ==
  ASSUME IAttempts, UNCHANGED attempts
  PROVE  Orderly
  BY DEF IAttempts, AttemptShape, attempts, Orderly, Onward, Held, Final, Rows, Active, Terminal

\* Rows are appended; what is inserted was not there.
LEMMA Inserted ==
  ASSUME IAttempts, NEW n \in Nat, next' = next + n,
         row' = [a \in Attempts |-> row'[a]],
         status' \in [Attempts -> Active \cup Terminal \cup {"none"}],
         UNCHANGED retry,
         \A a \in Attempts \ (next..(next + n - 1)) : row'[a] = row[a] /\ status'[a] = status[a]
  PROVE  Orderly
  BY DEF IAttempts, AttemptShape, Orderly, Onward, Held, Final, Rows, Attempts

LEMMA InsertUpgradesOrderly ==
  ASSUME IAttempts, NEW ACTION S, S \subseteq Instances, NEW STATE r, NEW STATE view,
         InsertUpgrades(r, S, view)
  PROVE  Orderly
<1>1. Cardinality(S) \in Nat
  BY InstancesAssumption, FS_Subset, FS_CardinalityType
<1>2. \A a \in Attempts \ (next..(next + Cardinality(S) - 1)) :
        row'[a] = row[a] /\ status'[a] = status[a]
  BY DEF InsertUpgrades
<1>3. /\ next' = next + Cardinality(S)
      /\ row' = [a \in Attempts |-> row'[a]]
      /\ status' \in [Attempts -> Active \cup Terminal \cup {"none"}]
      /\ UNCHANGED retry
  BY DEF InsertUpgrades, IAttempts, AttemptShape, Active, Terminal
<1> QED BY <1>1, <1>2, <1>3, Inserted

LEMMA InsertRollbackOrderly ==
  ASSUME IAttempts, NEW STATE u, InsertRollback(u)
  PROVE  Orderly
<1>1. next' = next + 1 /\ UNCHANGED retry
  BY DEF InsertRollback
<1>2. row' = [a \in Attempts |-> row'[a]]
  BY DEF InsertRollback, IAttempts, AttemptShape
<1>3. status' \in [Attempts -> Active \cup Terminal \cup {"none"}]
  BY DEF InsertRollback, IAttempts, AttemptShape, Active, Terminal
<1>4. \A a \in Attempts \ (next..(next + 1 - 1)) : row'[a] = row[a] /\ status'[a] = status[a]
  <2>1. \A a \in Attempts : a # next => row'[a] = row[a] /\ status'[a] = status[a]
    BY DEF InsertRollback, IAttempts, AttemptShape
  <2>2. next \in next..(next + 1 - 1)
    BY DEF IAttempts, AttemptShape
  <2> QED BY <2>1, <2>2
<1> QED BY <1>1, <1>2, <1>3, <1>4, Inserted

\* Only statuses change, none of them to "pending".
LEMMA Changed ==
  ASSUME IAttempts, UNCHANGED <<row, retry, next>>,
         status' \in [Attempts -> Active \cup Terminal \cup {"none"}],
         \A a \in Rows : status'[a] = "pending" => status[a] = "pending",
         Held, Final
  PROVE  Orderly
  BY DEF IAttempts, AttemptShape, Orderly, Onward, Rows

LEMMA Finished ==
  ASSUME IAttempts, NEW STATE S, S \subseteq Rows, NEW STATE new, Finish(S, new),
         \A a \in S : new[a] \in Terminal \cup {"waiting", "installing"}
  PROVE  /\ UNCHANGED <<row, retry, next>>
         /\ status' \in [Attempts -> Active \cup Terminal \cup {"none"}]
         /\ \A a \in Rows : status'[a] = "pending" => status[a] = "pending"
         /\ \A a \in S : status'[a] = new[a]
         /\ \A a \in Rows \ S : status'[a] = status[a]
  BY DEF Finish, IAttempts, AttemptShape, Rows, Active, Terminal

LEMMA RollbackReleaseOrderly ==
  ASSUME IAttempts, NEW r \in Releases, RollbackRelease(r)
  PROVE  Orderly
<1> DEFINE U == {a \in Rows : /\ row[a].rel = r /\ row[a].op = "upgrade"
                              /\ status[a] = "pending"}
<1> DEFINE new == [a \in U |-> "cancelled"]
<1>1. Finish(U, new)
  BY DEF RollbackRelease
<1>2. U \subseteq Rows /\ \A a \in U : new[a] = "cancelled"
  OBVIOUS
<1>a. \A a \in U : new[a] \in Terminal \cup {"waiting", "installing"}
  BY <1>2 DEF Terminal
<1> HIDE DEF U, new
<1>3. /\ UNCHANGED <<row, retry, next>>
      /\ status' \in [Attempts -> Active \cup Terminal \cup {"none"}]
      /\ \A a \in Rows : status'[a] = "pending" => status[a] = "pending"
      /\ \A a \in U : status'[a] = new[a]
      /\ \A a \in Rows \ U : status'[a] = status[a]
  BY <1>1, <1>2, <1>a, Finished
<1>4. Held
  BY <1>2, <1>3 DEF Held
<1>5. Final
  BY <1>2, <1>3 DEF Final, U, Terminal
<1> QED BY <1>3, <1>4, <1>5, Changed

LEMMA ExpireOrderly ==
  ASSUME IAttempts, NEW a \in Attempts, Expire(a)
  PROVE  Orderly
<1>1. Finish({a}, [b \in {a} |-> "failed"]) /\ a \in Rows /\ status[a] = "installing"
  BY DEF Expire
<1>2. \A c \in {a} : [b \in {a} |-> "failed"][c] \in Terminal \cup {"waiting", "installing"}
  BY DEF Terminal
<1>3. /\ UNCHANGED <<row, retry, next>>
      /\ status' \in [Attempts -> Active \cup Terminal \cup {"none"}]
      /\ \A c \in Rows : status'[c] = "pending" => status[c] = "pending"
      /\ status'[a] = "failed"
      /\ \A c \in Rows \ {a} : status'[c] = status[c]
  BY <1>1, <1>2, Finished
<1>4. Held
  BY <1>3 DEF Held
<1>5. Final
  BY <1>1, <1>3 DEF Final, Terminal
<1> QED BY <1>3, <1>4, <1>5, Changed

LEMMA RetryOrderly ==
  ASSUME IAttempts, NEW a \in Attempts, Retry(a)
  PROVE  Orderly
<1>1. /\ a \in Rows
      /\ status' = [status EXCEPT ![a] = "pending"]
      /\ retry' = [retry EXCEPT ![a] = @ + 1]
      /\ UNCHANGED <<row, next>>
  BY DEF Retry, Requeue
<1>2. status[a] # "pending"
  BY DEF Retry, RetryableUpgrade, RetryableRollback
<1>3. AttemptShape' /\ retry'[a] = retry[a] + 1 /\ retry[a] \in Nat
  BY <1>1 DEF IAttempts, AttemptShape, Active
<1>4. \A b \in Rows \ {a} : /\ status'[b] = status[b] /\ retry'[b] = retry[b]
                             /\ retry[b] \in Nat
  BY <1>1 DEF IAttempts, AttemptShape, Rows
<1>5. Onward
  BY <1>1, <1>3, <1>4 DEF Onward, IAttempts, AttemptShape, Rows
<1>6. Held /\ Final
  BY <1>1, <1>3, <1>4 DEF Held, Final, IAttempts, AttemptShape
<1> QED BY <1>3, <1>5, <1>6 DEF Orderly

LEMMA DeleteOrderly ==
  ASSUME IAttempts, NEW r \in Releases, DeleteRelease(r)
  PROVE  Orderly
<1>1. DeleteRows(r) /\ UNCHANGED next
  BY DEF DeleteRelease
<1>2. AttemptShape'
  BY <1>1 DEF DeleteRows, DeleteWithout, IAttempts, AttemptShape
<1>3. \A a \in Rows : row'[a] # None =>
        row'[a] = row[a] /\ status'[a] = status[a] /\ retry'[a] = retry[a]
  BY <1>1 DEF DeleteRows, DeleteWithout, Rows
<1>4. \A a \in Rows : status'[a] \in {status[a], "none"}
  BY <1>1 DEF DeleteRows, DeleteWithout, Rows
<1>5. Rows' \subseteq Rows
  BY <1>1 DEF DeleteRows, DeleteWithout, Rows
<1>6. Onward
  BY <1>1, <1>3, <1>5 DEF Onward, IAttempts, AttemptShape, Rows
<1>7. Held
  BY <1>4 DEF Held
<1>8. Final
  BY <1>3 DEF Final
<1> QED BY <1>2, <1>6, <1>7, <1>8 DEF Orderly

\* A report names an attempt and a retry count that were sent, hence not a
\* pending attempt; and one that is finished only as it is.
LEMMA RecordOrderly ==
  ASSUME IAttempts, NEW i \in Instances, RecordStatus(i)
  PROVE  Orderly
<1> DEFINE a == task[i].id
           s == task[i].state
<1>1. /\ task[i] # None /\ a \in Rows /\ retry[a] = task[i].retry
      /\ TransitionAllowed(status[a], s)
  BY DEF RecordStatus, Matches
<1>2. /\ s \in TaskStates
      /\ status[a] # "pending"
  <2>1. Sent(a, task[i].retry) /\ s \in TaskStates
    BY <1>1 DEF IAttempts, Copies
  <2>2. retry[a] \in Nat
    BY <1>1 DEF IAttempts, AttemptShape, Rows
  <2> QED BY <1>1, <2>1, <2>2 DEF Sent
<1>3. CASE s = status[a]
  BY <1>3, AttemptsUnchanged DEF RecordStatus
<1>4. CASE s # status[a]
  <2> DEFINE new == [b \in {a} |-> s]
             S == {a}
  <2>1. Finish(S, new)
    BY <1>4 DEF RecordStatus
  <2>2. S \subseteq Rows /\ \A b \in S : new[b] \in Terminal \cup {"waiting", "installing"}
    BY <1>1, <1>2 DEF TaskStates, Terminal
  <2>3. status[a] \notin Terminal
    BY <1>1, <1>4 DEF TransitionAllowed
  <2>4. \A b \in S : b = a
    OBVIOUS
  <2> HIDE DEF a, s, new, S
  <2>5. /\ UNCHANGED <<row, retry, next>>
        /\ status' \in [Attempts -> Active \cup Terminal \cup {"none"}]
        /\ \A b \in Rows : status'[b] = "pending" => status[b] = "pending"
        /\ \A b \in Rows \ S : status'[b] = status[b]
    BY <2>1, <2>2, Finished
  <2>6. Held
    BY <1>2, <2>4, <2>5 DEF Held
  <2>7. Final
    BY <2>3, <2>4, <2>5 DEF Final
  <2> QED BY <2>5, <2>6, <2>7, Changed
<1> QED BY <1>3, <1>4

\* The reported version is confirmed for what is under way, and for an
\* upgrade that was cancelled too late.
LEMMA MetricsOrderly ==
  ASSUME IAttempts, NEW i \in Instances, Metrics(i)
  PROVE  Orderly
<1> DEFINE S == Confirmed(i)
           new == [a \in S |-> IF row[a].op = "rollback" THEN "rollback_succeeded"
                                                        ELSE "succeeded"]
<1>1. Finish(S, new)
  BY DEF Metrics
<1>2. S \subseteq Rows
  BY DEF Confirmed
<1>3. \A a \in S : new[a] \in {"rollback_succeeded", "succeeded"}
  OBVIOUS
<1>4. \A a \in S : status[a] \in Terminal =>
        /\ status[a] = "cancelled" /\ new[a] = "succeeded"
        /\ rollout[row[a].rel] = "rollback_active"
  BY DEF Confirmed, Active, Terminal
<1>a. \A a \in S : new[a] \in Terminal \cup {"waiting", "installing"}
  BY <1>3 DEF Terminal
<1> HIDE DEF S, new
<1>5. /\ UNCHANGED <<row, retry, next>>
      /\ status' \in [Attempts -> Active \cup Terminal \cup {"none"}]
      /\ \A a \in Rows : status'[a] = "pending" => status[a] = "pending"
      /\ \A a \in S : status'[a] = new[a]
      /\ \A a \in Rows \ S : status'[a] = status[a]
  BY <1>1, <1>2, <1>a, Finished
<1>6. Held
  BY <1>3, <1>5 DEF Held
<1>7. Final
  BY <1>4, <1>5 DEF Final
<1> QED BY <1>5, <1>6, <1>7, Changed

LEMMA DeliverOrderly ==
  ASSUME IAttempts, NEW i \in Instances, Deliver(i)
  PROVE  Orderly /\ UNCHANGED retry
<1> DEFINE a == look[i].id
           allowed == a \in Rows /\ (row[a].op = "upgrade" => rollout[row[a].rel] \in Offering)
<1>1. DeliverTo(i, allowed)
  BY DEF Deliver
<1>2. UNCHANGED <<row, retry, next>>
  BY <1>1 DEF DeliverTo
<1>3. CASE status[a] = "pending" /\ allowed
  <2>1. status' = [status EXCEPT ![a] = "waiting"]
    BY <1>1, <1>3 DEF DeliverTo
  <2> QED BY <1>2, <1>3, <2>1, Changed
      DEF IAttempts, AttemptShape, Held, Final, Active, Terminal, Rows
<1>4. CASE ~(status[a] = "pending" /\ allowed)
  BY <1>1, <1>2, <1>4, Changed DEF DeliverTo, IAttempts, AttemptShape, Held, Final
<1> QED BY <1>2, <1>3, <1>4

LEMMA InsertAttemptOrderly ==
  ASSUME IAttempts, NEW i \in Instances, InsertAttempt(i)
  PROVE  Orderly
<1>1. CASE UNCHANGED attempts
  BY <1>1, AttemptsUnchanged
<1>2. CASE /\ next \in Attempts
           /\ next' = next + 1
           /\ \E x : row' = [row EXCEPT ![next] = x]
           /\ status' = [status EXCEPT ![next] = "pending"]
           /\ UNCHANGED retry
  <2>1. row' = [a \in Attempts |-> row'[a]]
    BY <1>2 DEF IAttempts, AttemptShape
  <2>2. status' \in [Attempts -> Active \cup Terminal \cup {"none"}]
    BY <1>2 DEF IAttempts, AttemptShape, Active
  <2>3. \A a \in Attempts : a # next => row'[a] = row[a] /\ status'[a] = status[a]
    BY <1>2 DEF IAttempts, AttemptShape
  <2>4. next \in next..(next + 1 - 1)
    BY DEF IAttempts, AttemptShape
  <2> QED BY <1>2, <2>1, <2>2, <2>3, <2>4, Inserted
<1>3. QED
  <2>1. next <= MaxAttempts => next \in Attempts
    BY BoundAssumption DEF IAttempts, AttemptShape, Attempts
  <2> QED BY <1>1, <1>2, <2>1 DEF InsertAttempt, InsertLooked

\* The requests that were prepared before.
LEMMA RequestsOrderly ==
  ASSUME IAttempts, NEW d \in Admins
  PROVE  /\ Publish(d) => Orderly
         /\ AddTargets(d) => Orderly
         /\ Promote(d) => Orderly
         /\ Reupgrade(d) => Orderly
         /\ RollbackInstance(d) => Orderly
<1> DEFINE q == admin[d]
           r == q.rel
           state == IF rollout[r] = "draft" THEN "canary_active" ELSE rollout[r]
           chosen == {i \in {j \in Instances : q.view[j] # None} :
                        \/ state \in Full /\ target[r, i] # "excluded"
                        \/ target'[r, i] = "included"}
           S1 == {i \in chosen : Queues(r, i, q.view[i], FALSE)}
           S2 == {i \in q.ids : Queues(r, i, q.view[i], FALSE)}
           S3 == {i \in Instances : /\ target[r, i] # "excluded"
                                    /\ Eligible(q, i)
                                    /\ Queues(r, i, q.view[i], FALSE)}
<1>1. Publish(d) => InsertUpgrades(r, S1, q.view)
  BY DEF Publish
<1>2. AddTargets(d) => InsertUpgrades(r, S2, q.view)
  BY DEF AddTargets
<1>3. Promote(d) => InsertUpgrades(r, S3, q.view)
  BY DEF Promote
<1>4. Reupgrade(d) => InsertUpgrades(r, q.ids, q.view)
  BY DEF Reupgrade
<1>5. RollbackInstance(d) => InsertRollback(q.parent)
  BY DEF RollbackInstance
<1>6. S1 \subseteq Instances /\ S3 \subseteq Instances
  OBVIOUS
<1> HIDE DEF S1, S2, S3, q, r
<1>7. (Publish(d) => Orderly) /\ (Promote(d) => Orderly)
  BY <1>1, <1>3, <1>6, InsertUpgradesOrderly
<1>8. RollbackInstance(d) => Orderly
  BY <1>5, InsertRollbackOrderly
<1>9. AddTargets(d) \/ Reupgrade(d) => q.ids \subseteq Instances
  BY DEF AddTargets, Reupgrade, IAttempts, Requests, q
<1>10. S2 \subseteq q.ids
  BY DEF S2
<1>11. (AddTargets(d) => Orderly) /\ (Reupgrade(d) => Orderly)
  BY <1>2, <1>4, <1>9, <1>10, InsertUpgradesOrderly
<1> QED BY <1>7, <1>8, <1>11

LEMMA QueueOneOrderly ==
  ASSUME IAttempts, NEW k \in Reconcilers, NEW u, QueueOne(k, u)
  PROVE  Orderly
  BY AttemptsUnchanged, InsertRollbackOrderly DEF QueueOne

\* Every step: the attempts stay in order.
LEMMA StepOrderly ==
  ASSUME IAttempts, [Next]_vars
  PROVE  Orderly
<1>1. CASE UNCHANGED vars
  BY <1>1, AttemptsUnchanged DEF vars
<1>2. CASE Console
  <2>1. ASSUME NEW r \in Releases, CreateRelease(r) \/ UploadArtifact(r) \/ Pause(r) \/ Resume(r)
        PROVE  UNCHANGED attempts
    BY <2>1 DEF CreateRelease, UploadArtifact, Pause, SetPaused, Resume
  <2>2. ASSUME NEW r \in Releases, RollbackRelease(r) \/ DeleteRelease(r)
        PROVE  Orderly
    BY <2>2, RollbackReleaseOrderly, DeleteOrderly
  <2>3. ASSUME NEW i \in Instances, Approve(i) \/ Disable(i)
        PROVE  UNCHANGED attempts
    BY <2>3 DEF Approve, Disable
  <2>4. ASSUME NEW d \in Admins, NEW r \in Releases,
               \/ \E ids \in SUBSET Instances : PreparePublish(d, r, ids) \/ PrepareAdd(d, r, ids)
               \/ PreparePromote(d, r)
               \/ \E i \in Instances : \/ PrepareInstanceRollback(d, r, i)
                                       \/ PrepareReupgrade(d, r, i)
        PROVE  UNCHANGED attempts
    BY <2>4 DEF Prepare, PreparePublish, PrepareAdd, PreparePromote,
                PrepareInstanceRollback, PrepareReupgrade
  <2>5. ASSUME NEW d \in Admins, GiveUp(d)
        PROVE  UNCHANGED attempts
    BY <2>5 DEF GiveUp
  <2> QED BY <1>2, <2>1, <2>2, <2>3, <2>4, <2>5, AttemptsUnchanged, RetryOrderly,
             RequestsOrderly DEF Console
<1>3. CASE AgentActions
  <2>1. ASSUME NEW i \in Instances,
               \/ LookActive(i) \/ LookCandidate(i) \/ DropLook(i) \/ TakeOffer(i)
               \/ HandOff(i) \/ FailTask(i) \/ Install(i) \/ Restore(i) \/ Botch(i) \/ Register(i)
        PROVE  UNCHANGED attempts
    BY <2>1 DEF LookActive, LookCandidate, DropLook, TakeOffer, HandOff, FailTask, Install,
                Restore, Botch, AgentStep, Register
  <2> QED BY <1>3, <2>1, AttemptsUnchanged, InsertAttemptOrderly, DeliverOrderly,
             RecordOrderly, MetricsOrderly DEF AgentActions
<1>4. CASE Background
  <2>1. ASSUME NEW k \in Reconcilers,
               \/ \E r \in Releases : BeginReconcile(k, r)
               \/ QueuedAll(k) \/ CountActive(k) \/ CountUnqueued(k) \/ Close(k)
        PROVE  UNCHANGED attempts
    BY <2>1 DEF BeginReconcile, QueuedAll, CountActive, CountUnqueued, Close
  <2>2. RestartBackend => UNCHANGED attempts
    BY DEF RestartBackend
  <2> QED BY <1>4, <2>1, <2>2, AttemptsUnchanged, QueueOneOrderly, ExpireOrderly
          DEF Background, ReconcileStep
<1> QED BY <1>1, <1>2, <1>3, <1>4 DEF Next

LEMMA RequestsStep ==
  ASSUME Requests, [Next]_vars
  PROVE  Requests'
<1>1. UNCHANGED admin => Requests'
  BY DEF Requests
<1>2. ASSUME NEW d \in Admins, Done(d) PROVE Requests'
  BY <1>2 DEF Done, Requests
<1>3. ASSUME NEW d \in Admins, NEW op, NEW r, NEW ids \in SUBSET Instances, NEW STATE view,
             NEW STATE parent, Prepare(d, op, r, ids, view, parent)
      PROVE  Requests'
  BY <1>3 DEF Prepare, Requests
<1>4. RestartBackend => Requests'
  BY DEF RestartBackend, Requests
<1>5. CASE UNCHANGED vars
  BY <1>1, <1>5 DEF vars
<1>6. CASE Console
  <2>1. ASSUME NEW r \in Releases, \/ CreateRelease(r) \/ UploadArtifact(r) \/ Pause(r)
                                   \/ Resume(r) \/ RollbackRelease(r) \/ DeleteRelease(r)
        PROVE  UNCHANGED admin
    BY <2>1 DEF CreateRelease, UploadArtifact, Pause, SetPaused, Resume, RollbackRelease,
                DeleteRelease
  <2>2. ASSUME NEW a \in Attempts, Retry(a) PROVE UNCHANGED admin
    BY <2>2 DEF Retry, Requeue
  <2>3. ASSUME NEW i \in Instances, Approve(i) \/ Disable(i) PROVE UNCHANGED admin
    BY <2>3 DEF Approve, Disable
  <2>4. ASSUME NEW d \in Admins, \/ Publish(d) \/ AddTargets(d) \/ Promote(d)
                                 \/ RollbackInstance(d) \/ Reupgrade(d) \/ GiveUp(d)
        PROVE  Requests'
    BY <1>2, <2>4 DEF Publish, AddTargets, Promote, RollbackInstance, Reupgrade, GiveUp
  <2>5. ASSUME NEW d \in Admins, NEW r \in Releases, NEW ids \in SUBSET Instances,
               PreparePublish(d, r, ids) \/ PrepareAdd(d, r, ids) \/ PreparePromote(d, r)
        PROVE  Requests'
    BY <1>3, <2>5 DEF PreparePublish, PrepareAdd, PreparePromote
  <2>6. ASSUME NEW d \in Admins, NEW r \in Releases, NEW i \in Instances,
               PrepareInstanceRollback(d, r, i) \/ PrepareReupgrade(d, r, i)
        PROVE  Requests'
    BY <1>3, <2>6 DEF PrepareInstanceRollback, PrepareReupgrade
  <2> QED BY <1>1, <1>6, <2>1, <2>2, <2>3, <2>4, <2>5, <2>6 DEF Console
<1>7. CASE AgentActions
  <2>1. UNCHANGED admin
    BY <1>7 DEF AgentActions, LookActive, LookCandidate, InsertAttempt, Deliver, DeliverTo,
                DropLook, TakeOffer, HandOff, FailTask, Install, Restore, Botch, AgentStep,
                RecordStatus, Register, Metrics
  <2> QED BY <1>1, <2>1
<1>8. CASE Background
  BY <1>1, <1>4, <1>8 DEF Background, BeginReconcile, ReconcileStep, QueueOne, QueuedAll,
                          CountActive, CountUnqueued, Close, Expire
<1> QED BY <1>5, <1>6, <1>7, <1>8 DEF Next

\* The copies of an instance stay as they were, or they are new and right.
OfferStep(i) == \/ offer'[i] = offer[i] \/ offer'[i] = None
                \/ Sent(offer[i].id, offer[i].retry)'
TaskStep(i)  == \/ task'[i] = task[i]
                \/ Sent(task[i].id, task[i].retry)' /\ task'[i].state \in TaskStates
LookStep(i)  == \/ look'[i] = look[i] \/ look'[i] = None \/ look'[i].step # "deliver"
                \/ Known(look[i].id, look[i].retry)'
LEMMA CopiesStep ==
  ASSUME IAttempts, Orderly, Shapes',
         \A i \in Instances : OfferStep(i) /\ TaskStep(i) /\ LookStep(i)
  PROVE  Copies'
<1>1. ASSUME NEW i \in Instances, offer'[i] # None
      PROVE  Sent(offer[i].id, offer[i].retry)'
  <2>1. CASE offer'[i] = offer[i]
    <3>1. Sent(offer[i].id, offer[i].retry)
      BY <1>1, <2>1 DEF IAttempts, Copies
    <3>2. \A a, n : Sent(a, n) => Sent(a, n)'
      BY KnownOn DEF Orderly
    <3> QED BY <2>1, <3>1, <3>2 DEF Sent, Known
  <2> QED BY <1>1, <2>1 DEF OfferStep
<1>2. ASSUME NEW i \in Instances, task'[i] # None
      PROVE  Sent(task[i].id, task[i].retry)' /\ task'[i].state \in TaskStates
  <2>1. CASE task'[i] = task[i]
    <3>1. Sent(task[i].id, task[i].retry) /\ task[i].state \in TaskStates
      BY <1>2, <2>1 DEF IAttempts, Copies
    <3>2. \A a, n : Sent(a, n) => Sent(a, n)'
      BY KnownOn DEF Orderly
    <3> QED BY <2>1, <3>1, <3>2 DEF Sent, Known
  <2> QED BY <1>2, <2>1 DEF TaskStep
<1>3. ASSUME NEW i \in Instances, look'[i] # None, look'[i].step = "deliver"
      PROVE  Known(look[i].id, look[i].retry)'
  <2>1. CASE look'[i] = look[i]
    <3>1. Known(look[i].id, look[i].retry)
      BY <1>3, <2>1 DEF IAttempts, Copies
    <3>2. \A a, n : Known(a, n) => Known(a, n)'
      BY KnownOn DEF Orderly
    <3> QED BY <2>1, <3>1, <3>2 DEF Known
  <2> QED BY <1>3, <2>1 DEF LookStep
<1> QED BY <1>1, <1>2, <1>3 DEF Copies, Shapes

LEMMA AttemptTypes ==
  ASSUME IAttempts, NEW a \in Rows
  PROVE  a \in Attempts /\ a \in Nat /\ a < next /\ retry[a] \in Nat
  BY BoundAssumption DEF IAttempts, AttemptShape, Rows, Attempts

LEMMA LooksKeepCopies ==
  ASSUME IAttempts, Orderly, NEW i \in Instances,
         LookActive(i) \/ LookCandidate(i) \/ DropLook(i) \/ Deliver(i)
  PROVE  Copies'
<1> USE DEF OfferStep, TaskStep, LookStep, Shapes, IAttempts, Copies
<1>1. ASSUME LookActive(i) PROVE Copies'
  <2>1. UNCHANGED attempts /\ UNCHANGED task
    BY <1>1 DEF LookActive
  <2>2. PICK a \in Offerable(i) :
          IF status[a] = "pending"
          THEN /\ look' = [look EXCEPT ![i] = [step |-> "deliver", id |-> a, retry |-> retry[a]]]
               /\ UNCHANGED offer
          ELSE Send(i, a, retry[a]) /\ UNCHANGED look
    BY <1>1 DEF LookActive
  <2>3. a \in Rows
    BY DEF Offerable, ActiveRows
  <2>4. a \in Attempts /\ a < next /\ retry[a] \in Nat
    BY <2>3, AttemptTypes
  <2>5. CASE status[a] = "pending"
    <3>1. UNCHANGED offer
      BY <2>2, <2>5
    <3>2. /\ look' = [j \in Instances |-> look'[j]]
          /\ \A j \in Instances : look'[j] = look[j] \/ (look'[j].id = a /\ look'[j].retry = retry[a])
      BY <2>2, <2>5
    <3>3. \A j \in Instances : LookStep(j)
      BY <2>1, <2>4, <3>2 DEF Known, Rows, attempts
    <3> QED BY <2>1, <3>1, <3>2, <3>3, CopiesStep
  <2>6. CASE status[a] # "pending"
    <3>1. UNCHANGED look
      BY <2>2, <2>6
    <3>2. /\ offer' = [j \in Instances |-> offer'[j]]
          /\ \A j \in Instances : offer'[j] = offer[j] \/ (offer'[j].id = a /\ offer'[j].retry = retry[a])
      BY <2>2, <2>6 DEF Send
    <3>3. \A j \in Instances : OfferStep(j)
      BY <2>1, <2>4, <2>6, <3>2 DEF Sent, Known, Rows, attempts
    <3> QED BY <2>1, <3>1, <3>2, <3>3, CopiesStep
  <2> QED BY <2>5, <2>6
<1>2. ASSUME LookCandidate(i) PROVE Copies'
  <2>1. /\ UNCHANGED <<offer, task>>
        /\ look' = [j \in Instances |-> look'[j]]
        /\ \A j \in Instances : look'[j] = look[j] \/ look'[j].step = "insert"
    BY <1>2 DEF LookCandidate, agents
  <2> QED BY <2>1, CopiesStep
<1>3. ASSUME DropLook(i) PROVE Copies'
  <2>1. /\ UNCHANGED <<offer, task>>
        /\ look' = [j \in Instances |-> look'[j]]
        /\ \A j \in Instances : look'[j] = look[j] \/ look'[j] = None
    BY <1>3 DEF DropLook, agents
  <2> QED BY <2>1, CopiesStep
<1>4. ASSUME Deliver(i) PROVE Copies'
  <2> DEFINE a == look[i].id
             n == look[i].retry
  <2>1. /\ look[i] # None /\ Known(a, n)
        /\ look' = [j \in Instances |-> look'[j]]
        /\ \A j \in Instances : look'[j] = look[j] \/ look'[j] = None
        /\ UNCHANGED <<task, row, retry, next>>
    BY <1>4 DEF Deliver, DeliverTo
  <2>2. CASE UNCHANGED offer
    BY <2>1, <2>2, CopiesStep
  <2>3. CASE Send(i, a, n) /\ status' = [status EXCEPT ![a] = "waiting"]
    <3>1. /\ offer' = [j \in Instances |-> offer'[j]]
          /\ \A j \in Instances : offer'[j] = offer[j] \/ (offer'[j].id = a /\ offer'[j].retry = n)
      BY <2>3 DEF Send
    <3>2. status'[a] = "waiting"
      BY <2>1, <2>3 DEF Known, AttemptShape
    <3>3. \A j \in Instances : OfferStep(j)
      BY <2>1, <3>1, <3>2 DEF Sent, Known, Rows
    <3> QED BY <2>1, <3>1, <3>3, CopiesStep
  <2> QED BY <1>4, <2>2, <2>3 DEF Deliver, DeliverTo
<1> QED BY <1>1, <1>2, <1>3, <1>4

LEMMA InsertKeepsCopies ==
  ASSUME IAttempts, Orderly, NEW i \in Instances, InsertAttempt(i)
  PROVE  Copies'
<1> USE DEF OfferStep, TaskStep, LookStep, Shapes, IAttempts, Copies
<1>1. /\ UNCHANGED <<offer, task>>
      /\ look' = [j \in Instances |-> look'[j]]
  BY DEF InsertAttempt, InsertLooked, agents
<1>2. ASSUME next <= MaxAttempts, next' = next + 1, UNCHANGED retry,
             look' = [look EXCEPT ![i] = [step |-> "deliver", id |-> next, retry |-> 0]]
      PROVE  \A j \in Instances : LookStep(j)
  <2>1. next \in Attempts /\ next < next' /\ retry'[next] >= 0
    BY <1>2, BoundAssumption DEF AttemptShape, Attempts
  <2>2. \A j \in Instances : look'[j] = look[j] \/ (look'[j].id = next /\ look'[j].retry = 0)
    BY <1>2
  <2> QED BY <2>1, <2>2 DEF Known
<1>3. ASSUME look' = [look EXCEPT ![i] = None]
      PROVE  \A j \in Instances : LookStep(j)
  BY <1>3
<1>4. \A j \in Instances : LookStep(j)
  BY <1>2, <1>3 DEF InsertAttempt, InsertLooked
<1> QED BY <1>1, <1>4, CopiesStep

\* The agent's own steps: a task begins with an offer and keeps its numbers.
LEMMA AgentKeepsCopies ==
  ASSUME IAttempts, Orderly, NEW i \in Instances, UNCHANGED attempts,
         TakeOffer(i) \/ HandOff(i) \/ FailTask(i) \/ Install(i) \/ Restore(i) \/ Botch(i)
  PROVE  Copies'
<1> USE DEF OfferStep, TaskStep, LookStep, Shapes, IAttempts, Copies
<1>1. ASSUME TakeOffer(i) PROVE Copies'
  <2>1. /\ offer[i] # None /\ Sent(offer[i].id, offer[i].retry)
        /\ offer' = [j \in Instances |-> offer'[j]]
        /\ \A j \in Instances : offer'[j] = offer[j] \/ offer'[j] = None
        /\ UNCHANGED look
    BY <1>1 DEF TakeOffer
  <2>2. FirstState(i, offer[i]) \in TaskStates
    BY DEF FirstState, TaskStates
  <2>3. /\ task' = [j \in Instances |-> task'[j]]
        /\ \A j \in Instances : \/ task'[j] = task[j]
                               \/ /\ task'[j].id = offer[i].id
                                  /\ task'[j].retry = offer[i].retry
                                  /\ task'[j].state \in TaskStates
    BY <1>1, <2>2 DEF TakeOffer
  <2>4. \A j \in Instances : TaskStep(j)
    BY <2>1, <2>3 DEF Sent, Known, Rows, attempts
  <2> QED BY <2>1, <2>3, <2>4, CopiesStep
<1>2. ASSUME NEW from, NEW STATE to, to \in TaskStates, AgentStep(i, from, to)
      PROVE  Copies'
  <2>1. /\ UNCHANGED <<offer, look>>
        /\ task[i] # None /\ Sent(task[i].id, task[i].retry)
        /\ task' = [task EXCEPT ![i] = [task[i] EXCEPT !.state = to]]
    BY <1>2 DEF AgentStep
  <2>2. /\ task' = [j \in Instances |-> task'[j]]
        /\ \A j \in Instances : j # i => task'[j] = task[j]
        /\ task'[i] = [task[i] EXCEPT !.state = to]
    BY <2>1
  <2>3. /\ task'[i].id = task[i].id
        /\ task'[i].retry = task[i].retry
        /\ task'[i].state \in TaskStates
    BY <1>2, <2>2
  <2>4. \A j \in Instances : TaskStep(j)
    BY <2>1, <2>2, <2>3 DEF Sent, Known, Rows, attempts
  <2>5. \A j \in Instances : OfferStep(j) /\ LookStep(j)
    BY <2>1
  <2>6. Shapes'
    BY <2>1, <2>2
  <2> QED BY <2>4, <2>5, <2>6, CopiesStep
<1> QED BY <1>1, <1>2 DEF HandOff, FailTask, Install, Restore, Botch, TaskStates

LEMMA CopiesKept ==
  ASSUME IAttempts, [Next]_vars
  PROVE  Copies'
<1>1. Orderly
  BY StepOrderly
<1>2. UNCHANGED <<offer, task, look>> => Copies'
  BY <1>1, CopiesOn DEF Orderly
<1>3. CASE UNCHANGED vars
  BY <1>2, <1>3 DEF vars, agents
<1>4. CASE Console
  <2>1. ASSUME NEW r \in Releases, \/ CreateRelease(r) \/ UploadArtifact(r) \/ Pause(r)
                                   \/ Resume(r) \/ RollbackRelease(r) \/ DeleteRelease(r)
        PROVE  UNCHANGED <<offer, task, look>>
    BY <2>1 DEF CreateRelease, UploadArtifact, Pause, SetPaused, Resume, RollbackRelease,
                DeleteRelease, agents
  <2>2. ASSUME NEW a \in Attempts, Retry(a) PROVE UNCHANGED <<offer, task, look>>
    BY <2>2 DEF Retry, Requeue, agents
  <2>3. ASSUME NEW i \in Instances, Approve(i) \/ Disable(i)
        PROVE  UNCHANGED <<offer, task, look>>
    BY <2>3 DEF Approve, Disable, agents
  <2>4. ASSUME NEW d \in Admins, \/ Publish(d) \/ AddTargets(d) \/ Promote(d)
                                 \/ RollbackInstance(d) \/ Reupgrade(d) \/ GiveUp(d)
        PROVE  UNCHANGED <<offer, task, look>>
    BY <2>4 DEF Publish, AddTargets, Promote, RollbackInstance, Reupgrade, GiveUp, agents
  <2>5. ASSUME NEW d \in Admins, NEW r \in Releases,
               \/ \E ids \in SUBSET Instances : PreparePublish(d, r, ids) \/ PrepareAdd(d, r, ids)
               \/ PreparePromote(d, r)
               \/ \E i \in Instances : \/ PrepareInstanceRollback(d, r, i)
                                       \/ PrepareReupgrade(d, r, i)
        PROVE  UNCHANGED <<offer, task, look>>
    BY <2>5 DEF Prepare, PreparePublish, PrepareAdd, PreparePromote,
                PrepareInstanceRollback, PrepareReupgrade, agents
  <2> QED BY <1>2, <1>4, <2>1, <2>2, <2>3, <2>4, <2>5 DEF Console
<1>5. CASE AgentActions
  <2>1. ASSUME NEW i \in Instances, RecordStatus(i) \/ Register(i) \/ Metrics(i)
        PROVE  UNCHANGED <<offer, task, look>>
    BY <2>1 DEF RecordStatus, Register, Metrics, agents
  <2>2. ASSUME NEW i \in Instances,
               TakeOffer(i) \/ HandOff(i) \/ FailTask(i) \/ Install(i) \/ Restore(i) \/ Botch(i)
        PROVE  UNCHANGED attempts
    BY <2>2 DEF TakeOffer, HandOff, FailTask, Install, Restore, Botch, AgentStep
  <2> QED BY <1>1, <1>2, <1>5, <2>1, <2>2, LooksKeepCopies, InsertKeepsCopies,
             AgentKeepsCopies DEF AgentActions
<1>6. CASE Background
  <2>1. ASSUME ~RestartBackend PROVE UNCHANGED <<offer, task, look>>
    BY <1>6, <2>1 DEF Background, agents, BeginReconcile, ReconcileStep, QueueOne, QueuedAll,
       CountActive, CountUnqueued, Close, Expire
  <2>2. ASSUME RestartBackend PROVE Copies'
    <3>1. /\ UNCHANGED <<offer, task>>
          /\ look' = [j \in Instances |-> None]
      BY <2>2 DEF RestartBackend, agents
    <3> QED BY <1>1, <3>1, CopiesStep DEF OfferStep, TaskStep, LookStep, Shapes, IAttempts, Copies
  <2> QED BY <1>2, <2>1, <2>2
<1> QED BY <1>3, <1>4, <1>5, <1>6 DEF Next

LEMMA AttemptsInvariant == Spec => []IAttempts
<1>1. Init => IAttempts
  BY DEF Init, IAttempts, AttemptShape, Copies, Shapes, Requests
<1>2. IAttempts /\ [Next]_vars => IAttempts'
  BY StepOrderly, CopiesKept, RequestsStep DEF IAttempts, Orderly
<1> QED BY <1>1, <1>2, PTL DEF Spec

\* Pausing or rolling back a release stops every upgrade that was not
\* delivered: whatever deliveries were decided before and whatever reports on
\* earlier tries still arrive, an upgrade leaves "pending" for the instance
\* only while its release is offered.
THEOREM PauseAlwaysHolds == Spec => PauseHoldsBack
<1>1. IAttempts /\ [Next]_vars =>
        [\A a \in Rows : /\ row[a].op = "upgrade"
                         /\ status[a] = "pending"
                         /\ status'[a] \in {"waiting", "installing"}
                         => rollout[row[a].rel] \in Offering]_vars
  BY StepOrderly DEF Orderly, Held
<1> QED BY <1>1, AttemptsInvariant, PTL DEF Spec, PauseHoldsBack

\* A finished attempt stays finished, against late, repeated and reordered
\* reports, confirmed versions, timeouts and reconciliations: only a retry
\* that counts itself reopens it, and only an upgrade cancelled too late is
\* corrected.
THEOREM FinishedStaysFinal == Spec => FinishedIsFinal
<1>1. IAttempts /\ [Next]_vars =>
        [\A a \in Rows :
           (row'[a] # None /\ status[a] \in Terminal /\ status'[a] # status[a]) =>
             \/ retry'[a] = retry[a] + 1 /\ status'[a] = "pending"
             \/ /\ status[a] = "cancelled" /\ status'[a] = "succeeded"
                /\ rollout[row[a].rel] = "rollback_active"]_vars
  BY StepOrderly DEF Orderly, Final
<1> QED BY <1>1, AttemptsInvariant, PTL DEF Spec, FinishedIsFinal

-----------------------------------------------------------------------------
(***************************************************************************)
(* Two facts about finite sets the operators rest on.                      *)
(***************************************************************************)
\* Of finitely many natural numbers one is the largest.
LEMMA Largest ==
  ASSUME NEW n \in Nat, NEW f, \A a \in 1..n : f[a] \in Nat
  PROVE  \E m \in {0} \cup {f[a] : a \in 1..n} : \A a \in 1..n : f[a] <= m
<1> DEFINE M(k) == {0} \cup {f[a] : a \in 1..k}
           Bad == {k \in 0..n : ~\E m \in M(k) : \A a \in 1..k : f[a] <= m}
           Less == {p \in Nat \X Nat : p[1] < p[2]}
<1>1. IsWellFoundedOn(Less, Nat)
  BY NatLessThanWellFounded DEF OpToRel
<1>2. ASSUME Bad # {} PROVE FALSE
  <2>1. Bad \subseteq Nat
    OBVIOUS
  <2>2. PICK k \in Bad : \A y \in Bad : <<y, k>> \notin Less
    <3> HIDE DEF Bad, Less
    <3> QED BY <1>1, <1>2, <2>1, WFMin
  <2>3. k \in 0..n /\ ~\E m \in M(k) : \A a \in 1..k : f[a] <= m
    OBVIOUS
  <2>4. k # 0
    <3>1. k = 0 => 0 \in M(k) /\ \A a \in 1..k : f[a] <= 0
      OBVIOUS
    <3> QED BY <2>3, <3>1
  <2>5. k - 1 \in 0..n /\ <<k - 1, k>> \in Less
    BY <2>3, <2>4
  <2>6. PICK m \in M(k - 1) : \A a \in 1..(k - 1) : f[a] <= m
    BY <2>2, <2>5
  <2>7. m \in Nat /\ f[k] \in Nat /\ m \in M(k) /\ f[k] \in M(k)
    BY <2>3, <2>4, <2>6
  <2>8. \A a \in 1..k : a = k \/ a \in 1..(k - 1)
    BY <2>3
  <2>9. CASE f[k] <= m
    <3>1. \A a \in 1..k : f[a] <= m
      BY <2>6, <2>8, <2>9
    <3> QED BY <2>3, <2>7, <3>1
  <2>10. CASE ~(f[k] <= m)
    <3>1. \A a \in 1..k : f[a] \in Nat
      BY <2>3
    <3>2. ASSUME NEW a \in 1..k PROVE f[a] <= f[k]
      <4>1. a = k \/ f[a] <= m
        BY <2>6, <2>8
      <4>2. f[a] \in Nat
        BY <3>1
      <4> QED BY <2>7, <2>10, <4>1, <4>2
    <3> QED BY <2>3, <2>7, <3>2
  <2> QED BY <2>9, <2>10
<1>3. n \in 0..n
  OBVIOUS
<1> QED BY <1>2, <1>3

\* As many numbers from n on as there are instances name each of them once.
LEMMA OneEach ==
  ASSUME NEW S, IsFiniteSet(S), NEW n \in Nat
  PROVE  \E f \in [n..(n + Cardinality(S) - 1) -> S] :
           \A a, b \in n..(n + Cardinality(S) - 1) : f[a] = f[b] => a = b
<1> DEFINE new == n..(n + Cardinality(S) - 1)
<1>1. Cardinality(S) \in Nat
  BY FS_CardinalityType
<1>2. IsFiniteSet(new) /\ Cardinality(new) = Cardinality(S)
  <2>1. n \in Int /\ n + Cardinality(S) - 1 \in Int
    BY <1>1
  <2>2. Cardinality(new) = IF n > n + Cardinality(S) - 1 THEN 0
                                               ELSE (n + Cardinality(S) - 1) - n + 1
    BY <2>1, FS_Interval
  <2>3. IsFiniteSet(new)
    BY <2>1, FS_Interval
  <2> QED BY <1>1, <2>2, <2>3
<1>3. ExistsBijection(new, S)
  BY <1>2, FS_SameCardinalityBij
<1> QED BY <1>3, Zenon DEF ExistsBijection, Bijection, Injection, IsInjective

\* A highest stamp exists, so a succeeding upgrade is stamped with a number.
LEMMA FinishStamps ==
  ASSUME NEW S, NEW new, Finish(S, new), stamp \in [Attempts -> Nat]
  PROVE  stamp' \in [Attempts -> Nat]
<1> DEFINE Bound(n) == \A a \in Attempts : stamp[a] <= n
           last == CHOOSE n \in {0} \cup {stamp[a] : a \in Attempts} : Bound(n)
<1>1. \E n \in {0} \cup {stamp[a] : a \in Attempts} : Bound(n)
  BY Largest, BoundAssumption DEF Attempts
<1>2. last \in {0} \cup {stamp[a] : a \in Attempts}
  <2> HIDE DEF Bound
  <2> QED BY <1>1
<1>3. last \in Nat
  <2> HIDE DEF last
  <2> QED BY <1>2
<1>4. stamp' = [a \in Attempts |->
                 IF a \in S /\ new[a] = "succeeded" THEN last + 1 ELSE stamp[a]]
  BY DEF Finish
<1> HIDE DEF last
<1> QED BY <1>3, <1>4

-----------------------------------------------------------------------------
(***************************************************************************)
(* What becomes of the rows.  IRows says where requests, reconciliations,  *)
(* offers and tasks come from; RowsMove, what every step does to the rows. *)
(* It is enough for a second upgrade to be recognised when it is inserted, *)
(* whatever the handler read before its transaction.                       *)
(***************************************************************************)
Ending     == Withdrawn \cup {"deleted"}
\* A row that a step inserts.  It comes behind a reconciliation only if
\* the release is marked as overtaken.
Fresh(a) ==
  /\ row'[a] \in Row
  /\ status'[a] \in {"pending", "failed"}
  /\ row'[a].op = "rollback" =>
       /\ row'[a].parent \in Rows /\ row[row'[a].parent].op = "upgrade"
       /\ row[row'[a].parent].rel = row'[a].rel
       /\ row[row'[a].parent].inst = row'[a].inst
  /\ row'[a].op = "upgrade" =>
       Upgrades(row'[a].rel, row'[a].inst) = {} \/ WentBack(row'[a].rel, row'[a].inst)
  /\ rollout[row'[a].rel] \in Ending =>
       /\ Closing(row'[a].rel) => row'[a].rel \in overtaken'
       /\ row'[a].op = "upgrade" /\ rollout[row'[a].rel] = "rolled_back" =>
            row'[a].rel \in overtaken'

Appending ==
  /\ row' = [a \in Attempts |-> row'[a]]
  /\ \A a \in Rows : row'[a] = row[a] /\ status'[a] = status[a]
  /\ \A a \in Attempts \ Rows : row'[a] # None => Fresh(a)
  /\ UNCHANGED <<retry, stamp>>

NewRows == Attempts \cap next..(next' - 1)

\* Rows are inserted from next on, where there were none.
LEMMA AppendingFrom ==
  ASSUME IAttempts, TypeOK, next' \in Nat,
         row' = [a \in Attempts |-> row'[a]],
         \A a \in Attempts \ NewRows : row'[a] = row[a] /\ status'[a] = status[a],
         \A a \in NewRows : Fresh(a),
         UNCHANGED <<retry, stamp>>
  PROVE  Appending
<1>1. Rows \cap NewRows = {}
  BY DEF IAttempts, AttemptShape, Rows, NewRows, Attempts
<1>2. \A a \in Rows : a \in Attempts \ NewRows
  BY <1>1 DEF Rows
<1>3. ASSUME NEW a \in Attempts \ Rows, row'[a] # None PROVE Fresh(a)
  BY <1>3 DEF Rows
<1> QED BY <1>2, <1>3 DEF Appending

\* The rows that publishing, batches, promotion and re-upgrades insert.
LEMMA UpgradesAppend ==
  ASSUME IAttempts, TypeOK, NEW ACTION S, S \subseteq Instances, NEW STATE r, r \in Releases,
         NEW STATE view, \A i \in S : view[i] \in Versions,
         \A i \in S : Upgrades(r, i) = {} \/ WentBack(r, i),
         rollout[r] \notin Ending,
         InsertUpgrades(r, S, view)
  PROVE  Appending
<1> DEFINE new == next..(next + Cardinality(S) - 1)
           Names(f) == \A a, b \in new : f[a] = f[b] => a = b
           of == CHOOSE f \in [new -> S] : Names(f)
<1>1. next \in Nat /\ IsFiniteSet(S) /\ Cardinality(S) \in Nat
  BY InstancesAssumption, FS_Subset, FS_CardinalityType DEF IAttempts, AttemptShape
<1>2. \E f \in [new -> S] : Names(f)
  BY <1>1, OneEach
<1>3. of \in [new -> S]
  <2> HIDE DEF Names
  <2> QED BY <1>2
<1>4. /\ next' = next + Cardinality(S)
      /\ row' = [a \in Attempts |->
                   IF a \in new
                   THEN [op |-> "upgrade", rel |-> r, inst |-> of[a],
                         parent |-> None, from |-> view[of[a]], to |-> r]
                   ELSE row[a]]
      /\ status' = [a \in Attempts |->
                      IF a \in new
                      THEN IF of[a] \in Privileged THEN "pending" ELSE "failed"
                      ELSE status[a]]
      /\ UNCHANGED <<retry, stamp>>
  BY DEF InsertUpgrades
<1>5. next' \in Nat /\ NewRows = Attempts \cap new
  BY <1>1, <1>4 DEF NewRows
<1> HIDE DEF of, new
<1>6. ASSUME NEW a \in NewRows PROVE Fresh(a)
  <2>1. a \in Attempts /\ a \in new /\ of[a] \in S
    BY <1>3, <1>5
  <2>2. /\ row'[a] = [op |-> "upgrade", rel |-> r, inst |-> of[a],
                      parent |-> None, from |-> view[of[a]], to |-> r]
        /\ status'[a] \in {"pending", "failed"}
    BY <1>4, <2>1
  <2>3. row'[a] \in Row
    BY <2>1, <2>2 DEF Row, Versions
  <2>4. row'[a].op = "upgrade" /\ row'[a].rel = r /\ row'[a].inst \in S
    BY <2>1, <2>2
  <2> QED BY <2>2, <2>3, <2>4 DEF Fresh
<1>7. \A a \in Attempts \ NewRows : row'[a] = row[a] /\ status'[a] = status[a]
  BY <1>4, <1>5
<1>8. row' = [a \in Attempts |-> row'[a]]
  BY <1>4
<1> QED BY <1>4, <1>5, <1>6, <1>7, <1>8, AppendingFrom

\* The row of a rollback, requested or queued by a reconciliation.
LEMMA RollbackAppends ==
  ASSUME IAttempts, TypeOK, NEW STATE u, u \in Rows, row[u].op = "upgrade",
         rollout[row[u].rel] \in Ending => (Closing(row[u].rel) => row[u].rel \in overtaken'),
         InsertRollback(u)
  PROVE  Appending
<1>1. next \in Nat /\ next' = next + 1 /\ next \in Attempts
  BY BoundAssumption DEF InsertRollback, IAttempts, AttemptShape, Attempts
<1>2. NewRows = {next}
  BY <1>1 DEF NewRows
<1>3. /\ row' = [row EXCEPT ![next] =
                  [op |-> "rollback", rel |-> row[u].rel, inst |-> row[u].inst,
                   parent |-> u, from |-> row[u].to, to |-> row[u].from]]
      /\ status' = [status EXCEPT ![next] = IF CanRollBack(u) THEN "pending" ELSE "failed"]
      /\ UNCHANGED <<retry, stamp>>
  BY DEF InsertRollback
<1>4. /\ row'[next] = [op |-> "rollback", rel |-> row[u].rel, inst |-> row[u].inst,
                       parent |-> u, from |-> row[u].to, to |-> row[u].from]
      /\ status'[next] \in {"pending", "failed"}
  BY <1>1, <1>3 DEF TypeOK
<1>5. u \in Attempts /\ row[u] \in Row
  BY DEF Rows, TypeOK
<1>6. row'[next] \in Row
  BY <1>4, <1>5 DEF Row
<1>7. /\ row'[next].op = "rollback" /\ row'[next].parent = u
      /\ row'[next].rel = row[u].rel
  BY <1>4
<1>8. Fresh(next)
  BY <1>4, <1>6, <1>7 DEF Fresh
<1>9. \A a \in Attempts \ NewRows : row'[a] = row[a] /\ status'[a] = status[a]
  BY <1>2, <1>3 DEF TypeOK
<1>10. row' = [a \in Attempts |-> row'[a]]
  BY <1>3 DEF TypeOK
<1> QED BY <1>1, <1>2, <1>3, <1>8, <1>9, <1>10, AppendingFrom

\* The row an instance gets by asking for an offer; if the release has been
\* settled meanwhile, it is marked as overtaken.
LEMMA LookedAppends ==
  ASSUME IAttempts, TypeOK, NEW i \in Instances, InsertAttempt(i)
  PROVE  Appending \/ UNCHANGED attempts
<1> DEFINE r == look[i].rel
<1>1. look[i] \in Look /\ look[i].step = "insert"
  BY DEF InsertAttempt, TypeOK
<1>2. r \in Releases /\ look[i].from \in Versions
  BY <1>1 DEF Look
<1>3. CASE ~(Upgrades(r, i) = {} /\ ~Busy(i) /\ Published(r))
  BY <1>3 DEF InsertAttempt, InsertLooked
<1>4. CASE Upgrades(r, i) = {} /\ ~Busy(i) /\ Published(r)
  <2>1. /\ next <= MaxAttempts
        /\ next' = next + 1
        /\ row' = [row EXCEPT ![next] =
                     [op |-> "upgrade", rel |-> r, inst |-> i, parent |-> None,
                      from |-> look[i].from, to |-> r]]
        /\ status' = [status EXCEPT ![next] = "pending"]
        /\ overtaken' = overtaken \cup
             {s \in {r} : Closing(s) \/ rollout[s] \in {"rolled_back", "rollback_partial"}}
        /\ UNCHANGED <<retry, stamp>>
    BY <1>4 DEF InsertAttempt, InsertLooked
  <2>2. next \in Nat /\ next' = next + 1 /\ next \in Attempts
    BY <2>1, BoundAssumption DEF IAttempts, AttemptShape, Attempts
  <2>3. NewRows = {next}
    BY <2>2 DEF NewRows
  <2>4. /\ row'[next] = [op |-> "upgrade", rel |-> r, inst |-> i, parent |-> None,
                         from |-> look[i].from, to |-> r]
        /\ status'[next] = "pending"
    BY <2>1, <2>2 DEF TypeOK
  <2>5. row'[next] \in Row
    BY <1>2, <2>4 DEF Row, Versions
  <2>6. row'[next].op = "upgrade" /\ row'[next].rel = r /\ row'[next].inst = i
    BY <2>4
  <2>7. Closing(r) \/ rollout[r] = "rolled_back" => r \in overtaken'
    BY <2>1
  <2> HIDE DEF r
  <2>8. Fresh(next)
    BY <1>4, <2>4, <2>5, <2>6, <2>7 DEF Fresh
  <2>9. \A a \in Attempts \ NewRows : row'[a] = row[a] /\ status'[a] = status[a]
    BY <2>1, <2>3 DEF TypeOK
  <2>10. row' = [a \in Attempts |-> row'[a]]
    BY <2>1 DEF TypeOK
  <2> QED BY <2>1, <2>2, <2>3, <2>8, <2>9, <2>10, AppendingFrom
<1> QED BY <1>3, <1>4

\* What a handler read before its transaction still holds of what it names.
Prepared ==
  \A d \in Admins : admin[d] # None =>
    /\ admin[d].op = "reupgrade" =>
         /\ admin[d].view \in [Instances -> Versions]
         /\ rollout[admin[d].rel] # "deleted" =>
              \A i \in admin[d].ids : WentBack(admin[d].rel, i)
    /\ admin[d].op = "rollback" =>
         /\ admin[d].parent \in Attempts /\ admin[d].parent < next
         /\ rollout[admin[d].rel] # "deleted" => admin[d].parent \in Rows
         /\ admin[d].parent \in Rows => /\ row[admin[d].parent].rel = admin[d].rel
                                        /\ row[admin[d].parent].op = "upgrade"

\* A rollback is under way, failed or done, and undoes an upgrade of its release.
RollbackStates == Active \cup {"failed", "rollback_succeeded"}
Undoes(a, u) == row[u].rel = row[a].rel /\ row[u].inst = row[a].inst /\ row[u].op = "upgrade"
Rollbacks ==
  \A a \in Rows :
    /\ status[a] \in Active \cup Terminal
    /\ row[a].op = "rollback" =>
         /\ status[a] \in RollbackStates
         /\ row[a].parent \in Attempts /\ row[a].parent < next
         /\ rollout[row[a].rel] # "deleted" => row[a].parent \in Rows
         /\ row[a].parent \in Rows => Undoes(a, row[a].parent)

\* A reconciliation goes through upgrades of its release.
Todo ==
  \A k \in Reconcilers : recon[k] # None =>
    \A u \in recon[k].todo : /\ u < next
                             /\ u \in Rows => /\ row[u].rel = recon[k].rel
                                              /\ row[u].op = "upgrade"

\* An agent knows which way an attempt goes.
Directions ==
  \A i \in Instances :
    /\ offer[i] # None /\ offer[i].id \in Rows => offer[i].op = row[offer[i].id].op
    /\ task[i] # None => /\ task[i].id \in Rows => task[i].op = row[task[i].id].op
                         /\ task[i].op = "rollback" => task[i].state # "succeeded"

Origins == Prepared /\ Rollbacks /\ Todo /\ Directions

IRows == IControl /\ IAttempts /\ TypeOK /\ Origins

\* What a step does to a row it keeps.
Kept(a) ==
  \/ status'[a] = status[a] /\ stamp'[a] = stamp[a]
  \/ /\ status'[a] \in Active \cup Terminal
     /\ row[a].op = "rollback" => /\ status'[a] \in RollbackStates
                                  /\ status[a] # "rollback_succeeded"
     /\ Closing(row[a].rel) \/ rollout[row[a].rel] = "rolled_back" =>
          row[a].rel \in overtaken' \/ status[a] \in Active

\* What has become of a row that goes: its release is deleted, or it was a rollback
\* to a version that is, which marks its release if it was about to be settled and
\* is remembered if it had succeeded.
Gone(a) ==
  /\ row'[a] = None
  /\ \/ rollout'[row[a].rel] = "deleted"
     \/ /\ row[a].op = "rollback"
        /\ Closing(row[a].rel) => row[a].rel \in overtaken'
        /\ status[a] = "rollback_succeeded" => row[a].parent \in forgotten'

\* And to the rows on the whole.
RowsMove ==
  /\ row' = [a \in Attempts |-> row'[a]]
  /\ \A a \in Rows : \/ row'[a] = row[a] /\ Kept(a)
                     \/ Gone(a)
  /\ \A a \in Attempts \ Rows : row'[a] # None => Fresh(a)

\* Two simple ways to move: rows are only inserted, or nothing happens.
LEMMA AppendingMoves ==
  ASSUME Appending
  PROVE  RowsMove
  BY DEF Appending, RowsMove, Kept

LEMMA UnchangedMoves ==
  ASSUME TypeOK, UNCHANGED attempts
  PROVE  RowsMove
  BY DEF attempts, RowsMove, Kept, Rows, TypeOK

\* The statuses of some rows change.
LEMMA FinishMoves ==
  ASSUME IRows, NEW S, S \subseteq Rows, NEW new, Finish(S, new),
         \A a \in S :
           /\ new[a] \in Active \cup Terminal
           /\ row[a].op = "rollback" => /\ new[a] \in RollbackStates
                                        /\ status[a] # "rollback_succeeded"
           /\ Closing(row[a].rel) \/ rollout[row[a].rel] = "rolled_back" =>
                row[a].rel \in overtaken' \/ status[a] \in Active
  PROVE  RowsMove
<1>1. UNCHANGED row
  BY DEF Finish
<1>2. ASSUME NEW a \in Rows PROVE Kept(a)
  <2>1. a \in Attempts
    BY DEF Rows
  <2>2. CASE a \in S
    <3>1. status'[a] = new[a]
      BY <2>1, <2>2 DEF Finish
    <3> QED BY <2>2, <3>1 DEF Kept
  <2>3. CASE a \notin S
    BY <2>1, <2>3 DEF Finish, Kept
  <2> QED BY <2>2, <2>3
<1>3. row' = [a \in Attempts |-> row'[a]]
  BY <1>1 DEF IRows, TypeOK
<1>4. \A a \in Attempts \ Rows : row'[a] = None
  BY <1>1 DEF Rows
<1> QED BY <1>1, <1>2, <1>3, <1>4 DEF RowsMove

\* The actions that change statuses, one by one.
LEMMA RollbackReleaseMoves ==
  ASSUME IRows, NEW r \in Releases, RollbackRelease(r)
  PROVE  RowsMove
<1> DEFINE U == {a \in Rows : /\ row[a].rel = r /\ row[a].op = "upgrade"
                              /\ status[a] = "pending"}
           new == [a \in U |-> "cancelled"]
<1>1. Finish(U, new)
  BY DEF RollbackRelease
<1>2. \A a \in U : /\ a \in Rows /\ new[a] = "cancelled" /\ row[a].op = "upgrade"
                   /\ status[a] = "pending"
  OBVIOUS
<1> HIDE DEF U, new
<1>3. U \subseteq Rows
  BY <1>2
<1>4. "cancelled" \in Terminal /\ "pending" \in Active
  BY DEF Terminal, Active
<1> QED BY <1>1, <1>2, <1>3, <1>4, FinishMoves

LEMMA ExpireMoves ==
  ASSUME IRows, NEW a \in Attempts, Expire(a)
  PROVE  RowsMove
<1> DEFINE new == [b \in {a} |-> "failed"]
<1>1. Finish({a}, new) /\ a \in Rows /\ status[a] = "installing" /\ new[a] = "failed"
  BY DEF Expire
<1> HIDE DEF new
<1>2. "failed" \in Terminal /\ "failed" \in RollbackStates /\ "installing" \in Active
  BY DEF Terminal, Active, RollbackStates
<1> QED BY <1>1, <1>2, FinishMoves

LEMMA RetryMoves ==
  ASSUME IRows, NEW a \in Attempts, Retry(a)
  PROVE  RowsMove
<1>1. /\ a \in Rows
      /\ RetryableUpgrade(a) \/ RetryableRollback(a)
      /\ status' = [status EXCEPT ![a] = "pending"]
      /\ overtaken' = overtaken \cup {s \in {row[a].rel} : Closing(s)}
      /\ UNCHANGED <<row, stamp>>
  BY DEF Retry, Requeue
<1>2. /\ \A b \in Rows \ {a} : status'[b] = status[b]
      /\ status'[a] = "pending"
  BY <1>1 DEF IRows, TypeOK, Rows
<1>3. /\ "pending" \in Active /\ "pending" \in RollbackStates
      /\ row[a].op = "rollback" => status[a] # "rollback_succeeded"
      /\ rollout[row[a].rel] # "rolled_back"
  BY <1>1 DEF Active, RollbackStates, RetryableUpgrade, RetryableRollback, Live, Canary, Full
<1>4. Closing(row[a].rel) => row[a].rel \in overtaken'
  BY <1>1
<1>5. Kept(a)
  BY <1>2, <1>3, <1>4 DEF Kept
<1>6. \A b \in Rows : Kept(b)
  BY <1>1, <1>2, <1>5 DEF Kept
<1>7. row' = [b \in Attempts |-> row'[b]]
  BY <1>1 DEF IRows, TypeOK
<1>8. \A b \in Attempts \ Rows : row'[b] = None
  BY <1>1 DEF Rows
<1> QED BY <1>1, <1>6, <1>7, <1>8 DEF RowsMove

\* Only the rows of the deleted release and the rollbacks to it go.
LEMMA DeleteMoves ==
  ASSUME IRows, NEW r \in Releases, DeleteRelease(r)
  PROVE  RowsMove
<1>1. /\ rollout' = [rollout EXCEPT ![r] = "deleted"]
      /\ row' = [a \in Attempts |-> IF a \in Cascaded(r) THEN None ELSE row[a]]
      /\ status' = [a \in Attempts |-> IF a \in Cascaded(r) THEN "none" ELSE status[a]]
      /\ stamp' = [a \in Attempts |-> IF a \in Cascaded(r) THEN 0 ELSE stamp[a]]
      /\ overtaken' = overtaken \cup {s \in {row[a].rel : a \in Cascaded(r)} : Closing(s)}
      /\ forgotten' = forgotten \cup
           {row[a].parent : a \in {b \in RollbacksTo(r) : status[b] = "rollback_succeeded"}}
  BY DEF DeleteRelease, DeleteRows, DeleteWithout, SetRollout
<1>2. rollout'[r] = "deleted"
  BY <1>1 DEF IRows, TypeOK
<1>3. ASSUME NEW a \in Rows, a \in Cascaded(r)
      PROVE  Gone(a)
  <2>1. a \in Attempts /\ row'[a] = None
    BY <1>1, <1>3 DEF Rows
  <2>2. CASE row[a].rel = r
    BY <1>2, <2>1, <2>2 DEF Gone
  <2>3. CASE a \in RollbacksTo(r)
    <3>1. row[a].op = "rollback"
      BY <2>3 DEF RollbacksTo
    <3>2. Closing(row[a].rel) => row[a].rel \in overtaken'
      BY <1>1, <1>3
    <3>3. status[a] = "rollback_succeeded" => row[a].parent \in forgotten'
      BY <1>1, <2>3
    <3> QED BY <2>1, <3>1, <3>2, <3>3 DEF Gone
  <2> QED BY <1>3, <2>2, <2>3 DEF Cascaded, RowsOf
<1>4. ASSUME NEW a \in Rows, a \notin Cascaded(r)
      PROVE  row'[a] = row[a] /\ Kept(a)
  BY <1>1, <1>4 DEF Rows, Kept
<1>5. \A a \in Attempts \ Rows : row'[a] = None
  BY <1>1 DEF Rows
<1>6. row' = [a \in Attempts |-> row'[a]]
  BY <1>1
<1> QED BY <1>3, <1>4, <1>5, <1>6 DEF RowsMove

\* What is delivered was pending.
LEMMA DeliverMoves ==
  ASSUME IRows, NEW i \in Instances, Deliver(i)
  PROVE  RowsMove
<1> DEFINE a == look[i].id
<1>1. CASE UNCHANGED attempts
  BY <1>1, UnchangedMoves DEF IRows
<1>2. CASE ~UNCHANGED attempts
  <2>1. /\ status[a] = "pending"
        /\ status' = [status EXCEPT ![a] = "waiting"]
        /\ UNCHANGED <<row, stamp>>
    BY <1>2 DEF Deliver, DeliverTo, attempts
  <2> HIDE DEF a
  <2>2. \A b \in Rows : \/ status'[b] = status[b]
                        \/ status'[b] = "waiting" /\ status[b] = "pending"
    BY <2>1 DEF IRows, TypeOK, Rows
  <2>3. "waiting" \in Active /\ "pending" \in Active /\ "waiting" \in RollbackStates
    BY DEF Active, RollbackStates
  <2>4. \A b \in Rows : Kept(b)
    BY <2>1, <2>2, <2>3 DEF Kept
  <2>5. row' = [b \in Attempts |-> row'[b]]
    BY <2>1 DEF IRows, TypeOK
  <2>6. \A b \in Attempts \ Rows : row'[b] = None
    BY <2>1 DEF Rows
  <2> QED BY <2>1, <2>4, <2>5, <2>6 DEF RowsMove
<1> QED BY <1>1, <1>2

\* A report is on an attempt that is not finished, or leaves it as it is.
LEMMA RecordMoves ==
  ASSUME IRows, NEW i \in Instances, RecordStatus(i)
  PROVE  RowsMove
<1> DEFINE a == task[i].id
           s == task[i].state
           new == [b \in {a} |-> s]
<1>1. /\ task[i] # None /\ a \in Rows /\ TransitionAllowed(status[a], s)
      /\ IF s = status[a] THEN UNCHANGED attempts ELSE Finish({a}, new)
  BY DEF RecordStatus, Matches
<1>2. /\ s \in TaskStates
      /\ row[a].op = "rollback" => s # "succeeded"
  BY <1>1 DEF IRows, IAttempts, Copies, Origins, Directions
<1>3. CASE s = status[a]
  BY <1>1, <1>3, UnchangedMoves DEF IRows
<1>4. CASE s # status[a]
  <2>1. status[a] \notin Terminal
    BY <1>1, <1>4 DEF TransitionAllowed
  <2>2. status[a] \in Active
    BY <1>1, <2>1 DEF IRows, Origins, Rollbacks
  <2>3. s \in Active \cup Terminal /\ (s # "succeeded" => s \in RollbackStates)
    BY <1>2 DEF TaskStates, Active, Terminal, RollbackStates
  <2>4. new[a] = s /\ status[a] # "rollback_succeeded"
    BY <2>2 DEF Active
  <2>5. Finish({a}, new)
    BY <1>1, <1>4
  <2> HIDE DEF a, s, new
  <2> QED BY <1>1, <1>2, <2>2, <2>3, <2>4, <2>5, FinishMoves
<1> QED BY <1>3, <1>4

\* A confirmed version ends attempts under way, and cancelled upgrades of a
\* release that is being rolled back.
LEMMA MetricsMoves ==
  ASSUME IRows, NEW i \in Instances, Metrics(i)
  PROVE  RowsMove
<1> DEFINE S == Confirmed(i)
           new == [a \in S |-> IF row[a].op = "rollback" THEN "rollback_succeeded"
                                                        ELSE "succeeded"]
<1>1. /\ Finish(S, new)
      /\ overtaken' = overtaken \cup {r \in {row[a].rel : a \in S} : Closing(r)}
  BY DEF Metrics
<1>2. \A a \in S :
        /\ a \in Rows
        /\ new[a] = IF row[a].op = "rollback" THEN "rollback_succeeded" ELSE "succeeded"
        /\ status[a] \in Active \/ (status[a] = "cancelled" /\ row[a].op = "upgrade"
                                   /\ rollout[row[a].rel] = "rollback_active")
  BY DEF Confirmed
<1>3. S \subseteq Rows
  BY <1>2
<1> HIDE DEF S, new
<1>4. \A a \in S : Closing(row[a].rel) => row[a].rel \in overtaken'
  BY <1>1
<1>5. /\ {"rollback_succeeded", "succeeded"} \subseteq Terminal
      /\ "rollback_succeeded" \in RollbackStates
      /\ "rollback_succeeded" \notin Active
  BY DEF Terminal, RollbackStates, Active
<1>6. ASSUME NEW a \in S
      PROVE  /\ new[a] \in Active \cup Terminal
             /\ row[a].op = "rollback" => /\ new[a] \in RollbackStates
                                          /\ status[a] # "rollback_succeeded"
             /\ Closing(row[a].rel) \/ rollout[row[a].rel] = "rolled_back" =>
                  row[a].rel \in overtaken' \/ status[a] \in Active
  BY <1>2, <1>4, <1>5
<1> QED BY <1>1, <1>3, <1>6, FinishMoves

\* The requests that insert attempts.
LEMMA PublishMoves ==
  ASSUME IRows, NEW d \in Admins, Publish(d) \/ AddTargets(d) \/ Promote(d)
  PROVE  RowsMove
<1> DEFINE q == admin[d]
           r == q.rel
           state == IF rollout[r] = "draft" THEN "canary_active" ELSE rollout[r]
           chosen == {i \in {j \in Instances : q.view[j] # None} :
                        \/ state \in Full /\ target[r, i] # "excluded"
                        \/ target'[r, i] = "included"}
           S1 == {i \in chosen : Queues(r, i, q.view[i], FALSE)}
           S2 == {i \in q.ids : Queues(r, i, q.view[i], FALSE)}
           S3 == {i \in Instances : /\ target[r, i] # "excluded"
                                    /\ Eligible(q, i)
                                    /\ Queues(r, i, q.view[i], FALSE)}
<1>1. q \in Request
  BY DEF Publish, AddTargets, Promote, IRows, TypeOK
<1>2. /\ r \in Releases /\ q.ids \subseteq Instances
      /\ \A i \in Instances : q.view[i] # None => q.view[i] \in Versions
  BY <1>1 DEF Request
<1>3. /\ Publish(d) => InsertUpgrades(r, S1, q.view) /\ rollout[r] \notin Missing \cup Withdrawn
      /\ AddTargets(d) => /\ InsertUpgrades(r, S2, q.view) /\ rollout[r] \in Canary
                          /\ \A i \in q.ids : Eligible(q, i)
      /\ Promote(d) => InsertUpgrades(r, S3, q.view) /\ rollout[r] \in Canary
  BY DEF Publish, AddTargets, Promote
<1>4. rollout[r] \notin Ending
  BY <1>3 DEF Ending, Canary, Missing, Withdrawn
<1>5. /\ S1 \subseteq Instances /\ S3 \subseteq Instances /\ S2 \subseteq q.ids
      /\ \A i \in S1 : q.view[i] # None
      /\ \A i \in S3 : Eligible(q, i)
      /\ \A i \in S1 \cup S2 \cup S3 : Queues(r, i, q.view[i], FALSE)
  OBVIOUS
<1>6. \A i \in S1 \cup S2 \cup S3 : Upgrades(r, i) = {}
  BY <1>5 DEF Queues
<1> HIDE DEF S1, S2, S3, q, r
<1>7. \A i \in Instances : Eligible(q, i) => q.view[i] \in Versions
  BY <1>2 DEF Eligible
<1>8. /\ \A i \in S1 \cup S3 : q.view[i] \in Versions
      /\ AddTargets(d) => S2 \subseteq Instances /\ \A i \in S2 : q.view[i] \in Versions
  BY <1>2, <1>3, <1>5, <1>7
<1>9. Publish(d) => Appending
  BY <1>2, <1>3, <1>4, <1>5, <1>6, <1>8, UpgradesAppend DEF IRows
<1>10. AddTargets(d) => Appending
  BY <1>2, <1>3, <1>4, <1>6, <1>8, UpgradesAppend DEF IRows
<1>11. Promote(d) => Appending
  BY <1>2, <1>3, <1>4, <1>5, <1>6, <1>8, UpgradesAppend DEF IRows
<1> QED BY <1>9, <1>10, <1>11, AppendingMoves

\* What is upgraded again was rolled back, and stays so until the request runs.
LEMMA ReupgradeMoves ==
  ASSUME IRows, NEW d \in Admins, Reupgrade(d)
  PROVE  RowsMove
<1> DEFINE q == admin[d]
<1>1. /\ q # None /\ q.op = "reupgrade" /\ rollout[q.rel] \in Live
      /\ InsertUpgrades(q.rel, q.ids, q.view)
  BY DEF Reupgrade
<1>2. q \in Request
  BY <1>1 DEF IRows, TypeOK
<1>3. q.rel \in Releases /\ q.ids \subseteq Instances
  BY <1>2 DEF Request
<1>4. rollout[q.rel] \notin Ending
  BY <1>1 DEF Ending, Live, Canary, Full, Withdrawn
<1>5. /\ q.view \in [Instances -> Versions]
      /\ \A i \in q.ids : WentBack(q.rel, i)
  BY <1>1, <1>4 DEF IRows, Origins, Prepared, Ending
<1>6. \A i \in q.ids : q.view[i] \in Versions
  BY <1>3, <1>5
<1> HIDE DEF q
<1>7. Appending
  BY <1>1, <1>3, <1>4, <1>5, <1>6, UpgradesAppend DEF IRows
<1> QED BY <1>7, AppendingMoves

\* A request to roll back names an upgrade of the release.
LEMMA RollbackInstanceMoves ==
  ASSUME IRows, NEW d \in Admins, RollbackInstance(d)
  PROVE  RowsMove
<1> DEFINE q == admin[d]
           u == q.parent
<1>1. /\ q # None /\ q.op = "rollback" /\ rollout[q.rel] \in Live
      /\ InsertRollback(u)
  BY DEF RollbackInstance
<1>2. rollout[q.rel] \notin Ending
  BY <1>1 DEF Ending, Live, Canary, Full, Withdrawn
<1>3. u \in Rows /\ row[u].rel = q.rel /\ row[u].op = "upgrade"
  BY <1>1, <1>2 DEF IRows, Origins, Prepared, Ending
<1> HIDE DEF u, q
<1>4. Appending
  BY <1>1, <1>2, <1>3, RollbackAppends DEF IRows
<1> QED BY <1>4, AppendingMoves

\* So does the list a reconciliation goes through.
LEMMA QueueOneMoves ==
  ASSUME IRows, NEW k \in Reconcilers, NEW u \in Attempts, QueueOne(k, u)
  PROVE  RowsMove
<1>1. CASE ~(u \in Rows /\ QueuesRollback(u))
  BY <1>1, UnchangedMoves DEF QueueOne, IRows
<1>2. CASE u \in Rows /\ QueuesRollback(u)
  <2>1. /\ recon[k] # None /\ u \in recon[k].todo
        /\ InsertRollback(u)
        /\ overtaken' = overtaken \cup {r \in {recon[k].rel} : Closing(r)}
    BY <1>2 DEF QueueOne, At
  <2>2. row[u].rel = recon[k].rel /\ row[u].op = "upgrade"
    BY <1>2, <2>1 DEF IRows, Origins, Todo
  <2>3. Closing(row[u].rel) => row[u].rel \in overtaken'
    BY <2>1, <2>2
  <2>4. Appending
    BY <1>2, <2>1, <2>2, <2>3, RollbackAppends DEF IRows
  <2> QED BY <2>4, AppendingMoves
<1> QED BY <1>1, <1>2

\* The actions that leave the attempts alone.
LEMMA AttemptsStay ==
  ASSUME NEW r, NEW i, NEW d, NEW k
  PROVE  /\ CreateRelease(r) \/ UploadArtifact(r) \/ Pause(r) \/ Resume(r) => UNCHANGED attempts
         /\ Approve(i) \/ Disable(i) \/ GiveUp(d) => UNCHANGED attempts
         /\ \A ids : PreparePublish(d, r, ids) \/ PrepareAdd(d, r, ids) => UNCHANGED attempts
         /\ PreparePromote(d, r) \/ PrepareInstanceRollback(d, r, i) \/ PrepareReupgrade(d, r, i)
              => UNCHANGED attempts
         /\ LookActive(i) \/ LookCandidate(i) \/ DropLook(i) \/ TakeOffer(i) => UNCHANGED attempts
         /\ HandOff(i) \/ FailTask(i) \/ Install(i) \/ Restore(i) \/ Botch(i) \/ Register(i)
              => UNCHANGED attempts
         /\ BeginReconcile(k, r) \/ QueuedAll(k) \/ CountActive(k) \/ CountUnqueued(k)
            \/ Close(k) \/ RestartBackend => UNCHANGED attempts
  BY DEF CreateRelease, UploadArtifact, Pause, SetPaused, Resume, Approve, Disable, GiveUp,
         Prepare, PreparePublish, PrepareAdd, PreparePromote, PrepareInstanceRollback,
         PrepareReupgrade, LookActive, LookCandidate, DropLook, TakeOffer, HandOff, FailTask,
         Install, Restore, Botch, AgentStep, Register, BeginReconcile, QueuedAll, CountActive,
         CountUnqueued, Close, RestartBackend

\* Every step moves the rows this way.
LEMMA StepMoves ==
  ASSUME IRows, [Next]_vars
  PROVE  RowsMove
<1>0. UNCHANGED attempts => RowsMove
  BY UnchangedMoves DEF IRows
<1>1. CASE UNCHANGED vars
  BY <1>0, <1>1 DEF vars
<1>2. CASE Console
  <2>1. ASSUME NEW r \in Releases, \/ CreateRelease(r) \/ UploadArtifact(r) \/ Pause(r)
                                   \/ Resume(r) \/ RollbackRelease(r) \/ DeleteRelease(r)
        PROVE  RowsMove
    BY <1>0, <2>1, AttemptsStay, RollbackReleaseMoves, DeleteMoves
  <2>2. ASSUME NEW d \in Admins, NEW r \in Releases,
               \/ \E ids \in SUBSET Instances : PreparePublish(d, r, ids) \/ PrepareAdd(d, r, ids)
               \/ PreparePromote(d, r)
               \/ \E i \in Instances : \/ PrepareInstanceRollback(d, r, i)
                                       \/ PrepareReupgrade(d, r, i)
        PROVE  RowsMove
    BY <1>0, <2>2, AttemptsStay
  <2>3. ASSUME NEW d \in Admins, \/ Publish(d) \/ AddTargets(d) \/ Promote(d)
                                 \/ RollbackInstance(d) \/ Reupgrade(d) \/ GiveUp(d)
        PROVE  RowsMove
    BY <1>0, <2>3, AttemptsStay, PublishMoves, RollbackInstanceMoves, ReupgradeMoves
  <2>4. ASSUME NEW i \in Instances, Approve(i) \/ Disable(i)
        PROVE  RowsMove
    BY <1>0, <2>4, AttemptsStay
  <2> QED BY <1>2, <2>1, <2>2, <2>3, <2>4, RetryMoves DEF Console
<1>3. CASE AgentActions
  <2>1. ASSUME NEW i \in Instances, InsertAttempt(i)
        PROVE  RowsMove
    BY <1>0, <2>1, LookedAppends, AppendingMoves DEF IRows
  <2>2. ASSUME NEW i \in Instances,
               \/ LookActive(i) \/ LookCandidate(i) \/ DropLook(i) \/ TakeOffer(i)
               \/ HandOff(i) \/ FailTask(i) \/ Install(i) \/ Restore(i) \/ Botch(i) \/ Register(i)
        PROVE  RowsMove
    BY <1>0, <2>2, AttemptsStay
  <2> QED BY <1>3, <2>1, <2>2, DeliverMoves, RecordMoves, MetricsMoves DEF AgentActions
<1>4. CASE Background
  <2>1. ASSUME NEW k \in Reconcilers, NEW r \in Releases, BeginReconcile(k, r)
        PROVE  RowsMove
    BY <1>0, <2>1, AttemptsStay
  <2>2. ASSUME NEW k \in Reconcilers,
               QueuedAll(k) \/ CountActive(k) \/ CountUnqueued(k) \/ Close(k)
        PROVE  RowsMove
    BY <1>0, <2>2, AttemptsStay
  <2>3. RestartBackend => RowsMove
    BY <1>0, AttemptsStay
  <2> QED BY <1>4, <2>1, <2>2, <2>3, QueueOneMoves, ExpireMoves DEF Background, ReconcileStep
<1> QED BY <1>1, <1>2, <1>3, <1>4 DEF Next

-----------------------------------------------------------------------------
(***************************************************************************)
(* Types.  A step changes a few variables, and those keep their types.     *)
(***************************************************************************)
TargetTypes == fresh \subseteq Releases /\ target \in [Releases \X Instances -> TargetState]

\* Packages and targets.
LEMMA TargetsKept ==
  ASSUME IRows, [Next]_vars
  PROVE  TargetTypes'
<1>0. fresh \subseteq Releases /\ target \in [Releases \X Instances -> TargetState]
  BY DEF IRows, TypeOK
<1>1. UNCHANGED <<fresh, target>> => TargetTypes'
  BY <1>0 DEF TargetTypes
<1>2. ASSUME NEW r, NEW ids, NEW s, s \in TargetState, SetTargets(r, ids, s)
      PROVE  target' \in [Releases \X Instances -> TargetState]
  BY <1>0, <1>2 DEF SetTargets
<1>3. {"included", "excluded", "none"} \subseteq TargetState
  BY DEF TargetState
<1>4. CASE UNCHANGED vars
  BY <1>1, <1>4 DEF vars, releases
<1>5. CASE Console
  <2>1. ASSUME NEW r \in Releases, UploadArtifact(r) PROVE TargetTypes'
    BY <1>0, <2>1 DEF UploadArtifact, TargetTypes
  <2>2. ASSUME NEW r \in Releases, DeleteRelease(r) PROVE TargetTypes'
    BY <1>0, <1>3, <2>2 DEF DeleteRelease, DeleteRows, DeleteWithout, TargetTypes
  <2>3. ASSUME NEW d \in Admins, Publish(d) PROVE TargetTypes'
    <3>1. /\ fresh' = fresh \ {admin[d].rel}
          /\ \E ids : SetTargets(admin[d].rel, ids, "included")
      BY <2>3 DEF Publish
    <3> QED BY <1>0, <1>2, <1>3, <3>1 DEF TargetTypes
  <2>4. ASSUME NEW d \in Admins, AddTargets(d) PROVE TargetTypes'
    BY <1>0, <1>2, <1>3, <2>4 DEF AddTargets, TargetTypes
  <2>5. ASSUME NEW d \in Admins, RollbackInstance(d) PROVE TargetTypes'
    BY <1>0, <1>2, <1>3, <2>5 DEF RollbackInstance, TargetTypes
  <2>6. ASSUME NEW d \in Admins, Reupgrade(d) PROVE TargetTypes'
    BY <1>0, <1>2, <1>3, <2>6 DEF Reupgrade, TargetTypes
  <2>7. ASSUME NEW r \in Releases, \/ CreateRelease(r) \/ Pause(r) \/ Resume(r)
                                   \/ RollbackRelease(r)
        PROVE  UNCHANGED <<fresh, target>>
    BY <2>7 DEF CreateRelease, Pause, SetPaused, Resume, RollbackRelease
  <2>8. ASSUME NEW a \in Attempts, Retry(a) PROVE UNCHANGED <<fresh, target>>
    BY <2>8 DEF Retry, Requeue
  <2>9. ASSUME NEW i \in Instances, Approve(i) \/ Disable(i)
        PROVE  UNCHANGED <<fresh, target>>
    BY <2>9 DEF Approve, Disable, releases
  <2>10. ASSUME NEW d \in Admins, NEW r \in Releases,
               \/ \E ids \in SUBSET Instances : PreparePublish(d, r, ids) \/ PrepareAdd(d, r, ids)
               \/ PreparePromote(d, r)
               \/ \E i \in Instances : \/ PrepareInstanceRollback(d, r, i)
                                       \/ PrepareReupgrade(d, r, i)
        PROVE  UNCHANGED <<fresh, target>>
    BY <2>10 DEF Prepare, PreparePublish, PrepareAdd, PreparePromote,
                PrepareInstanceRollback, PrepareReupgrade, releases
  <2>11. ASSUME NEW d \in Admins, Promote(d) \/ GiveUp(d)
         PROVE  UNCHANGED <<fresh, target>>
    BY <2>11 DEF Promote, GiveUp, releases
  <2> QED BY <1>1, <1>5, <2>1, <2>2, <2>3, <2>4, <2>5, <2>6, <2>7, <2>8, <2>9, <2>10,
             <2>11 DEF Console
<1>6. CASE AgentActions
  <2>1. UNCHANGED <<fresh, target>>
    BY <1>6 DEF AgentActions, LookActive, LookCandidate, InsertAttempt, Deliver, DeliverTo,
                DropLook, TakeOffer, HandOff, FailTask, Install, Restore, Botch, AgentStep,
                RecordStatus, Register, Metrics, releases
  <2> QED BY <1>1, <2>1
<1>7. CASE Background
  <2>1. UNCHANGED <<fresh, target>>
    BY <1>7 DEF Background, BeginReconcile, ReconcileStep, QueueOne, QueuedAll,
                CountActive, CountUnqueued, Close, Expire, RestartBackend, releases
  <2> QED BY <1>1, <2>1
<1> QED BY <1>4, <1>5, <1>6, <1>7 DEF Next

ColumnTypes ==
  /\ member \in [Instances -> {"pending", "approved", "disabled"}]
  /\ version \in [Instances -> Versions]
  /\ supported \in [Instances -> BOOLEAN]
  /\ baseline \in [Instances -> Versions \cup {None}]

\* The columns of instances, and what agents run and keep.
LEMMA ColumnsKept ==
  ASSUME IRows, [Next]_vars
  PROVE  ColumnTypes'
<1>0. /\ ColumnTypes
      /\ running \in [Instances -> Versions]
      /\ kept \in [Instances -> Versions \cup {None}]
      /\ row \in [Attempts -> Row \cup {None}]
  BY DEF IRows, TypeOK, ColumnTypes
<1>1. UNCHANGED columns => ColumnTypes'
  BY <1>0 DEF ColumnTypes, columns
<1>2. CASE UNCHANGED vars
  BY <1>1, <1>2 DEF vars
<1>3. CASE Console
  <2>1. ASSUME NEW r \in Releases, \/ CreateRelease(r) \/ UploadArtifact(r) \/ Pause(r)
                                   \/ Resume(r) \/ RollbackRelease(r) \/ DeleteRelease(r)
        PROVE  UNCHANGED columns
    BY <2>1 DEF CreateRelease, UploadArtifact, Pause, SetPaused, Resume, RollbackRelease,
                DeleteRelease
  <2>2. ASSUME NEW a \in Attempts, Retry(a) PROVE UNCHANGED columns
    BY <2>2 DEF Retry, Requeue
  <2>3. ASSUME NEW i \in Instances, Approve(i) \/ Disable(i) PROVE ColumnTypes'
    BY <1>0, <2>3 DEF Approve, Disable, ColumnTypes
  <2>4. ASSUME NEW d \in Admins, \/ Publish(d) \/ AddTargets(d) \/ Promote(d)
                                 \/ RollbackInstance(d) \/ Reupgrade(d) \/ GiveUp(d)
        PROVE  UNCHANGED columns
    BY <2>4 DEF Publish, AddTargets, Promote, RollbackInstance, Reupgrade, GiveUp
  <2>5. ASSUME NEW d \in Admins, NEW r \in Releases,
               \/ \E ids \in SUBSET Instances : PreparePublish(d, r, ids) \/ PrepareAdd(d, r, ids)
               \/ PreparePromote(d, r)
               \/ \E i \in Instances : \/ PrepareInstanceRollback(d, r, i)
                                       \/ PrepareReupgrade(d, r, i)
        PROVE  UNCHANGED columns
    BY <2>5 DEF Prepare, PreparePublish, PrepareAdd, PreparePromote,
                PrepareInstanceRollback, PrepareReupgrade
  <2> QED BY <1>1, <1>3, <2>1, <2>2, <2>3, <2>4, <2>5 DEF Console
<1>4. CASE AgentActions
  <2>1. ASSUME NEW i \in Instances, RecordStatus(i) PROVE ColumnTypes'
    <3> DEFINE a == task[i].id
    <3>1. /\ a \in Rows
          /\ \/ \E v \in {row[a].from, row[a].to} : version' = [version EXCEPT ![i] = v]
             \/ UNCHANGED version
          /\ supported' \in {supported, [supported EXCEPT ![i] = FALSE]}
          /\ baseline' \in {baseline, [baseline EXCEPT ![i] = None]}
          /\ UNCHANGED member
      BY <2>1 DEF RecordStatus, Matches
    <3>2. row[a].from \in Versions /\ row[a].to \in Versions
      BY <1>0, <3>1 DEF Rows, Row
    <3> QED BY <1>0, <3>1, <3>2 DEF ColumnTypes
  <2>2. ASSUME NEW i \in Instances, Register(i) PROVE ColumnTypes'
    BY <1>0, <2>2 DEF Register, ReportColumns, ColumnTypes
  <2>3. ASSUME NEW i \in Instances, Metrics(i) PROVE ColumnTypes'
    <3>1. /\ UNCHANGED member
          /\ version' = [version EXCEPT ![i] = running[i]]
          /\ \E b \in BOOLEAN : supported' = [supported EXCEPT ![i] = b]
          /\ \E v \in {kept[i], None} : baseline' = [baseline EXCEPT ![i] = v]
      BY <2>3 DEF Metrics
    <3> QED BY <1>0, <3>1 DEF ColumnTypes
  <2>4. ASSUME NEW i \in Instances, \/ LookActive(i) \/ LookCandidate(i) \/ InsertAttempt(i)
               \/ Deliver(i) \/ DropLook(i) \/ TakeOffer(i) \/ HandOff(i) \/ FailTask(i)
               \/ Install(i) \/ Restore(i) \/ Botch(i)
        PROVE  UNCHANGED columns
    BY <2>4 DEF LookActive, LookCandidate, InsertAttempt, Deliver, DeliverTo,
                DropLook, TakeOffer, HandOff, FailTask, Install, Restore, Botch, AgentStep
  <2> QED BY <1>1, <1>4, <2>1, <2>2, <2>3, <2>4 DEF AgentActions
<1>5. CASE Background
  <2>1. UNCHANGED columns
    BY <1>5 DEF Background, BeginReconcile, ReconcileStep, QueueOne, QueuedAll,
                CountActive, CountUnqueued, Close, Expire, RestartBackend
  <2> QED BY <1>1, <2>1
<1> QED BY <1>2, <1>3, <1>4, <1>5 DEF Next

AttemptTypesHold ==
  /\ row \in [Attempts -> Row \cup {None}]
  /\ status \in [Attempts -> Active \cup Terminal \cup {"none"}]
  /\ retry \in [Attempts -> 0..MaxRetry]
  /\ stamp \in [Attempts -> Nat]
  /\ next \in 1..(MaxAttempts + 1)

NumberTypes ==
  /\ retry \in [Attempts -> 0..MaxRetry]
  /\ stamp \in [Attempts -> Nat]
  /\ next \in 1..(MaxAttempts + 1)

\* The numbers of an attempt: inserted rows leave them alone.
LEMMA InsertKeepsNumbers ==
  ASSUME IRows, NEW ACTION S, S \subseteq Instances, NEW STATE r, NEW STATE view, NEW STATE u,
         InsertUpgrades(r, S, view) \/ InsertRollback(u)
  PROVE  NumberTypes'
<1>1. NumberTypes /\ next \in Nat /\ MaxAttempts \in Nat
  BY BoundAssumption DEF IRows, TypeOK, NumberTypes
<1>2. Cardinality(S) \in Nat
  BY InstancesAssumption, FS_Subset, FS_CardinalityType
<1>3. UNCHANGED <<retry, stamp>>
  BY DEF InsertUpgrades, InsertRollback
<1>4. \/ next' = next + Cardinality(S) /\ next + Cardinality(S) <= MaxAttempts + 1
      \/ next' = next + 1 /\ next <= MaxAttempts
  BY DEF InsertUpgrades, InsertRollback
<1>5. next' \in 1..(MaxAttempts + 1)
  BY <1>1, <1>2, <1>4 DEF NumberTypes
<1> QED BY <1>1, <1>3, <1>5 DEF NumberTypes

\* Retry counts and stamps: requests of the console do not touch them.
LEMMA RequestsKeepNumbers ==
  ASSUME IRows, NEW d \in Admins,
         Publish(d) \/ AddTargets(d) \/ Promote(d) \/ RollbackInstance(d) \/ Reupgrade(d)
  PROVE  NumberTypes'
<1> DEFINE q == admin[d]
           r == q.rel
           state == IF rollout[r] = "draft" THEN "canary_active" ELSE rollout[r]
           chosen == {i \in {j \in Instances : q.view[j] # None} :
                        \/ state \in Full /\ target[r, i] # "excluded"
                        \/ target'[r, i] = "included"}
           S1 == {i \in chosen : Queues(r, i, q.view[i], FALSE)}
           S2 == {i \in q.ids : Queues(r, i, q.view[i], FALSE)}
           S3 == {i \in Instances : /\ target[r, i] # "excluded"
                                    /\ Eligible(q, i)
                                    /\ Queues(r, i, q.view[i], FALSE)}
<1>1. q \in Request
  BY DEF Publish, AddTargets, Promote, RollbackInstance, Reupgrade, IRows, TypeOK
<1>2. q.ids \subseteq Instances /\ {} \subseteq Instances
  BY <1>1 DEF Request
<1>3. /\ Publish(d) => InsertUpgrades(r, S1, q.view)
      /\ AddTargets(d) => InsertUpgrades(r, S2, q.view)
      /\ Promote(d) => InsertUpgrades(r, S3, q.view)
      /\ Reupgrade(d) => InsertUpgrades(r, q.ids, q.view)
      /\ RollbackInstance(d) => InsertRollback(q.parent)
  BY DEF Publish, AddTargets, Promote, Reupgrade, RollbackInstance
<1>4. S1 \subseteq Instances /\ S2 \subseteq q.ids /\ S3 \subseteq Instances
  OBVIOUS
<1> HIDE DEF S1, S2, S3, q, r
<1>5. (Publish(d) => NumberTypes') /\ (AddTargets(d) => NumberTypes')
  BY <1>2, <1>3, <1>4, InsertKeepsNumbers
<1>6. (Promote(d) => NumberTypes') /\ (Reupgrade(d) => NumberTypes')
  BY <1>2, <1>3, <1>4, InsertKeepsNumbers
<1>7. RollbackInstance(d) => NumberTypes'
  BY <1>2, <1>3, InsertKeepsNumbers
<1> QED BY <1>5, <1>6, <1>7

\* The stamp given to a success is a number, since a highest one exists.
LEMMA FinishKeepsNumbers ==
  ASSUME IRows, NEW S, NEW new, Finish(S, new)
  PROVE  NumberTypes'
<1>1. NumberTypes
  BY DEF IRows, TypeOK, NumberTypes
<1>2. stamp' \in [Attempts -> Nat]
  BY <1>1, FinishStamps DEF NumberTypes
<1>3. UNCHANGED <<retry, next>>
  BY DEF Finish
<1> QED BY <1>1, <1>2, <1>3 DEF NumberTypes

\* A retry counts one more, and only below the bound.
LEMMA NumbersKept ==
  ASSUME IRows, [Next]_vars
  PROVE  NumberTypes'
<1>0. NumberTypes
  BY DEF IRows, TypeOK, NumberTypes
<1>1. UNCHANGED attempts => NumberTypes'
  BY <1>0 DEF NumberTypes, attempts
<1>2. CASE UNCHANGED vars
  BY <1>1, <1>2 DEF vars
<1>3. CASE Console
  <2>1. ASSUME NEW r \in Releases, CreateRelease(r) \/ UploadArtifact(r) \/ Pause(r) \/ Resume(r)
        PROVE  NumberTypes'
    BY <1>1, <2>1, AttemptsStay
  <2>2. ASSUME NEW r \in Releases, RollbackRelease(r) PROVE NumberTypes'
    BY <2>2, FinishKeepsNumbers DEF RollbackRelease
  <2>3. ASSUME NEW r \in Releases, DeleteRelease(r) PROVE NumberTypes'
    <3>1. DeleteRows(r) /\ UNCHANGED next
      BY <2>3 DEF DeleteRelease
    <3>2. 0 \in 0..MaxRetry /\ 0 \in Nat
      BY BoundAssumption
    <3>3. /\ retry' = [a \in Attempts |-> IF a \in Cascaded(r) THEN 0 ELSE retry[a]]
          /\ stamp' = [a \in Attempts |-> IF a \in Cascaded(r) THEN 0 ELSE stamp[a]]
      BY <3>1 DEF DeleteRows, DeleteWithout
    <3> QED BY <1>0, <3>1, <3>2, <3>3 DEF NumberTypes
  <2>4. ASSUME NEW a \in Attempts, Retry(a) PROVE NumberTypes'
    <3>1. /\ retry[a] < MaxRetry /\ retry[a] \in 0..MaxRetry
          /\ retry' = [retry EXCEPT ![a] = @ + 1]
          /\ UNCHANGED <<stamp, next>>
      BY <1>0, <2>4 DEF Retry, Requeue, NumberTypes
    <3>2. retry[a] + 1 \in 0..MaxRetry
      BY <3>1, BoundAssumption
    <3> QED BY <1>0, <3>1, <3>2 DEF NumberTypes
  <2>5. ASSUME NEW d \in Admins, NEW r \in Releases,
               \/ \E ids \in SUBSET Instances : PreparePublish(d, r, ids) \/ PrepareAdd(d, r, ids)
               \/ PreparePromote(d, r)
               \/ \E i \in Instances : \/ PrepareInstanceRollback(d, r, i)
                                       \/ PrepareReupgrade(d, r, i)
        PROVE  NumberTypes'
    BY <1>1, <2>5, AttemptsStay
  <2>6. ASSUME NEW d \in Admins, GiveUp(d) PROVE NumberTypes'
    BY <1>1, <2>6, AttemptsStay
  <2>7. ASSUME NEW i \in Instances, Approve(i) \/ Disable(i)
        PROVE  NumberTypes'
    BY <1>1, <2>7, AttemptsStay
  <2> QED BY <1>3, <2>1, <2>2, <2>3, <2>4, <2>5, <2>6, <2>7, RequestsKeepNumbers DEF Console
<1>4. CASE AgentActions
  <2>1. ASSUME NEW i \in Instances, InsertAttempt(i)
        PROVE  NumberTypes'
    <3>1. CASE UNCHANGED attempts
      BY <1>1, <3>1
    <3>2. CASE ~UNCHANGED attempts
      <4>1. next <= MaxAttempts /\ next' = next + 1 /\ UNCHANGED <<retry, stamp>>
        BY <2>1, <3>2 DEF InsertAttempt, InsertLooked
      <4>2. next' \in 1..(MaxAttempts + 1)
        BY <1>0, <4>1, BoundAssumption DEF NumberTypes
      <4> QED BY <1>0, <4>1, <4>2 DEF NumberTypes
    <3> QED BY <3>1, <3>2
  <2>2. ASSUME NEW i \in Instances,
               \/ LookActive(i) \/ LookCandidate(i) \/ DropLook(i) \/ TakeOffer(i)
               \/ HandOff(i) \/ FailTask(i) \/ Install(i) \/ Restore(i) \/ Botch(i) \/ Register(i)
        PROVE  NumberTypes'
    BY <1>1, <2>2, AttemptsStay
  <2>3. ASSUME NEW i \in Instances, Deliver(i) PROVE NumberTypes'
    BY <1>0, <2>3 DEF Deliver, DeliverTo, NumberTypes
  <2>4. ASSUME NEW i \in Instances, RecordStatus(i) PROVE NumberTypes'
    BY <1>1, <2>4, FinishKeepsNumbers DEF RecordStatus
  <2>5. ASSUME NEW i \in Instances, Metrics(i) PROVE NumberTypes'
    BY <2>5, FinishKeepsNumbers DEF Metrics
  <2> QED BY <1>4, <2>1, <2>2, <2>3, <2>4, <2>5 DEF AgentActions
<1>5. CASE Background
  <2>1. ASSUME NEW k \in Reconcilers, NEW r \in Releases, BeginReconcile(k, r)
        PROVE  NumberTypes'
    BY <1>1, <2>1, AttemptsStay
  <2>2. ASSUME NEW k \in Reconcilers,
               QueuedAll(k) \/ CountActive(k) \/ CountUnqueued(k) \/ Close(k)
        PROVE  NumberTypes'
    BY <1>1, <2>2, AttemptsStay
  <2>3. RestartBackend => NumberTypes'
    BY <1>1, AttemptsStay
  <2>4. ASSUME NEW k \in Reconcilers, NEW u \in Attempts, QueueOne(k, u)
        PROVE  NumberTypes'
    <3>1. {} \subseteq Instances
      OBVIOUS
    <3> QED BY <1>1, <2>4, <3>1, InsertKeepsNumbers DEF QueueOne
  <2>5. ASSUME NEW a \in Attempts, Expire(a) PROVE NumberTypes'
    BY <2>5, FinishKeepsNumbers DEF Expire
  <2> QED BY <1>5, <2>1, <2>2, <2>3, <2>4, <2>5 DEF Background, ReconcileStep
<1> QED BY <1>2, <1>3, <1>4, <1>5 DEF Next

\* The attempts as a whole.
LEMMA AttemptTypesKept ==
  ASSUME IRows, [Next]_vars
  PROVE  AttemptTypesHold'
<1>1. NumberTypes' /\ RowsMove /\ AttemptShape'
  BY NumbersKept, StepMoves, StepOrderly DEF IRows, Orderly
<1>2. row \in [Attempts -> Row \cup {None}]
  BY DEF IRows, TypeOK
<1>3. ASSUME NEW a \in Attempts PROVE row'[a] \in Row \cup {None}
  BY <1>1, <1>2 DEF RowsMove, Gone, Fresh, Rows
<1>4. row' \in [Attempts -> Row \cup {None}]
  BY <1>1, <1>3 DEF RowsMove
<1> QED BY <1>1, <1>4 DEF AttemptTypesHold, NumberTypes, AttemptShape

RequestTypes == admin \in [Admins -> Request \cup {None}]

\* The requests that wait for their transaction.
LEMMA RequestTypesKept ==
  ASSUME IRows, [Next]_vars
  PROVE  RequestTypes'
<1>0. /\ RequestTypes
      /\ version \in [Instances -> Versions]
  BY DEF IRows, TypeOK, RequestTypes
<1>1. UNCHANGED admin => RequestTypes'
  BY <1>0 DEF RequestTypes
<1>2. ASSUME NEW d \in Admins, Done(d) PROVE RequestTypes'
  BY <1>0, <1>2 DEF Done, RequestTypes
<1>3. ASSUME NEW d \in Admins, NEW op \in {"publish", "add", "promote", "rollback", "reupgrade"},
             NEW r \in Releases, NEW ids \in SUBSET Instances,
             NEW STATE view, view \in [Instances -> Versions \cup {None}],
             NEW STATE parent, parent \in Attempts \cup {None},
             Prepare(d, op, r, ids, view, parent)
      PROVE  RequestTypes'
  <2>1. [op |-> op, rel |-> r, ids |-> ids, view |-> view, parent |-> parent] \in Request
    BY <1>3 DEF Request
  <2> QED BY <1>0, <1>3, <2>1 DEF Prepare, RequestTypes
<1>4. RestartBackend => RequestTypes'
  BY DEF RestartBackend, RequestTypes
<1>5. CASE UNCHANGED vars
  BY <1>1, <1>5 DEF vars
<1>6. CASE Console
  <2>0. /\ Seen \in [Instances -> Versions \cup {None}]
        /\ [j \in Instances |-> None] \in [Instances -> Versions \cup {None}]
        /\ version \in [Instances -> Versions \cup {None}]
        /\ \A r : LatestUpgrades(r) \subseteq Attempts
    BY <1>0 DEF Seen, LatestUpgrades, Rows
  <2>1. ASSUME NEW r \in Releases, \/ CreateRelease(r) \/ UploadArtifact(r) \/ Pause(r)
                                   \/ Resume(r) \/ RollbackRelease(r) \/ DeleteRelease(r)
        PROVE  UNCHANGED admin
    BY <2>1 DEF CreateRelease, UploadArtifact, Pause, SetPaused, Resume, RollbackRelease,
                DeleteRelease
  <2>2. ASSUME NEW a \in Attempts, Retry(a) PROVE UNCHANGED admin
    BY <2>2 DEF Retry, Requeue
  <2>3. ASSUME NEW i \in Instances, Approve(i) \/ Disable(i) PROVE UNCHANGED admin
    BY <2>3 DEF Approve, Disable
  <2>4. ASSUME NEW d \in Admins, \/ Publish(d) \/ AddTargets(d) \/ Promote(d)
                                 \/ RollbackInstance(d) \/ Reupgrade(d) \/ GiveUp(d)
        PROVE  RequestTypes'
    BY <1>2, <2>4 DEF Publish, AddTargets, Promote, RollbackInstance, Reupgrade, GiveUp
  <2>5. ASSUME NEW d \in Admins, NEW r \in Releases, NEW ids \in SUBSET Instances,
               PreparePublish(d, r, ids) \/ PrepareAdd(d, r, ids) \/ PreparePromote(d, r)
        PROVE  RequestTypes'
    <3>1. \E op \in {"publish", "add", "promote"}, S \in {ids, {}} : Prepare(d, op, r, S, Seen, None)
      BY <2>5 DEF PreparePublish, PrepareAdd, PreparePromote
    <3> QED BY <1>3, <2>0, <3>1
  <2>6. ASSUME NEW d \in Admins, NEW r \in Releases, NEW i \in Instances,
               PrepareInstanceRollback(d, r, i)
        PROVE  RequestTypes'
    <3>1. PICK u \in LatestUpgrades(r) :
            Prepare(d, "rollback", r, {i}, [j \in Instances |-> None], u)
      BY <2>6 DEF PrepareInstanceRollback
    <3> QED BY <1>3, <2>0, <3>1
  <2>7. ASSUME NEW d \in Admins, NEW r \in Releases, NEW i \in Instances,
               PrepareReupgrade(d, r, i)
        PROVE  RequestTypes'
    <3>1. Prepare(d, "reupgrade", r, {i}, version, None)
      BY <2>7 DEF PrepareReupgrade
    <3> QED BY <1>3, <2>0, <3>1
  <2> QED BY <1>1, <1>6, <2>1, <2>2, <2>3, <2>4, <2>5, <2>6, <2>7 DEF Console
<1>7. CASE AgentActions
  <2>1. UNCHANGED admin
    BY <1>7 DEF AgentActions, LookActive, LookCandidate, InsertAttempt, Deliver, DeliverTo,
                DropLook, TakeOffer, HandOff, FailTask, Install, Restore, Botch, AgentStep,
                RecordStatus, Register, Metrics
  <2> QED BY <1>1, <2>1
<1>8. CASE Background
  BY <1>1, <1>4, <1>8 DEF Background, BeginReconcile, ReconcileStep, QueueOne, QueuedAll,
                          CountActive, CountUnqueued, Close, Expire
<1> QED BY <1>5, <1>6, <1>7, <1>8 DEF Next

ReconTypes == recon \in [Reconcilers -> Recon \cup {None}]

\* The reconciliations.
LEMMA ReconTypesKept ==
  ASSUME IRows, [Next]_vars
  PROVE  ReconTypes'
<1>0. ReconTypes
  BY DEF IRows, TypeOK, ReconTypes
<1>1. UNCHANGED recon => ReconTypes'
  BY <1>0 DEF ReconTypes
<1>2. ASSUME NEW k \in Reconcilers, Stop(k) PROVE ReconTypes'
  BY <1>0, <1>2 DEF Stop, ReconTypes
<1>3. ASSUME NEW k \in Reconcilers, NEW s \in {"queue", "active", "unqueued", "close"},
             recon[k] # None, GoTo(k, s)
      PROVE  ReconTypes'
  <2>1. recon[k] \in Recon
    BY <1>0, <1>3 DEF ReconTypes
  <2>2. [recon[k] EXCEPT !.step = s] \in Recon
    BY <2>1 DEF Recon
  <2> QED BY <1>0, <1>3, <2>2 DEF GoTo, ReconTypes
<1>4. ASSUME NEW k \in Reconcilers, NEW u \in Attempts, QueueOne(k, u)
      PROVE  ReconTypes'
  <2>1. recon[k] # None /\ recon' = [recon EXCEPT ![k] = [recon[k] EXCEPT !.todo = @ \ {u}]]
    BY <1>4 DEF QueueOne, At
  <2>2. recon[k] \in Recon
    BY <1>0, <2>1 DEF ReconTypes
  <2>3. [recon[k] EXCEPT !.todo = @ \ {u}] \in Recon
    BY <2>2 DEF Recon
  <2> QED BY <1>0, <2>1, <2>3 DEF ReconTypes
<1>5. ASSUME NEW k \in Reconcilers, NEW r \in Releases, BeginReconcile(k, r)
      PROVE  ReconTypes'
  <2>1. LatestUpgrades(r) \subseteq Attempts
    BY DEF LatestUpgrades, Rows
  <2>2. [step |-> "queue", rel |-> r, todo |-> LatestUpgrades(r)] \in Recon
    BY <2>1 DEF Recon
  <2> QED BY <1>0, <1>5, <2>2 DEF BeginReconcile, ReconTypes
<1>6. ASSUME NEW k \in Reconcilers,
             QueuedAll(k) \/ CountActive(k) \/ CountUnqueued(k) \/ Close(k)
      PROVE  ReconTypes'
  BY <1>2, <1>3, <1>6 DEF QueuedAll, CountActive, CountUnqueued, Close, At
<1>7. RestartBackend => ReconTypes'
  BY DEF RestartBackend, ReconTypes
<1>8. ASSUME NEW a \in Attempts, Expire(a) PROVE UNCHANGED recon
  BY <1>8 DEF Expire
<1>9. CASE UNCHANGED vars
  BY <1>1, <1>9 DEF vars
<1>10. CASE Console
  <2>1. ASSUME NEW r \in Releases, \/ CreateRelease(r) \/ UploadArtifact(r) \/ Pause(r)
                                   \/ Resume(r) \/ RollbackRelease(r) \/ DeleteRelease(r)
        PROVE  UNCHANGED recon
    BY <2>1 DEF CreateRelease, UploadArtifact, Pause, SetPaused, Resume, RollbackRelease,
                DeleteRelease
  <2>2. ASSUME NEW a \in Attempts, Retry(a) PROVE UNCHANGED recon
    BY <2>2 DEF Retry, Requeue
  <2>3. ASSUME NEW i \in Instances, Approve(i) \/ Disable(i) PROVE UNCHANGED recon
    BY <2>3 DEF Approve, Disable
  <2>4. ASSUME NEW d \in Admins, \/ Publish(d) \/ AddTargets(d) \/ Promote(d)
                                 \/ RollbackInstance(d) \/ Reupgrade(d) \/ GiveUp(d)
        PROVE  UNCHANGED recon
    BY <2>4 DEF Publish, AddTargets, Promote, RollbackInstance, Reupgrade, GiveUp
  <2>5. ASSUME NEW d \in Admins, NEW r \in Releases,
               \/ \E ids \in SUBSET Instances : PreparePublish(d, r, ids) \/ PrepareAdd(d, r, ids)
               \/ PreparePromote(d, r)
               \/ \E i \in Instances : \/ PrepareInstanceRollback(d, r, i)
                                       \/ PrepareReupgrade(d, r, i)
        PROVE  UNCHANGED recon
    BY <2>5 DEF Prepare, PreparePublish, PrepareAdd, PreparePromote,
                PrepareInstanceRollback, PrepareReupgrade
  <2> QED BY <1>1, <1>10, <2>1, <2>2, <2>3, <2>4, <2>5 DEF Console
<1>11. CASE AgentActions
  <2>1. UNCHANGED recon
    BY <1>11 DEF AgentActions, LookActive, LookCandidate, InsertAttempt, Deliver, DeliverTo,
                 DropLook, TakeOffer, HandOff, FailTask, Install, Restore, Botch, AgentStep,
                 RecordStatus, Register, Metrics
  <2> QED BY <1>1, <2>1
<1>12. CASE Background
  BY <1>1, <1>4, <1>5, <1>6, <1>7, <1>8, <1>12 DEF Background, ReconcileStep
<1> QED BY <1>9, <1>10, <1>11, <1>12 DEF Next

AgentTypes ==
  /\ look \in [Instances -> Look \cup {None}]
  /\ offer \in [Instances -> Offer \cup {None}]
  /\ task \in [Instances -> Task \cup {None}]
  /\ running \in [Instances -> Versions]
  /\ kept \in [Instances -> Versions \cup {None}]

\* An offer is made of an attempt that exists, and goes the same way.
LEMMA SendRight ==
  ASSUME IRows, NEW i \in Instances, NEW a \in Rows, NEW n \in 0..MaxRetry, Send(i, a, n)
  PROVE  /\ offer' \in [Instances -> Offer \cup {None}]
         /\ offer'[i].op = row[a].op /\ offer'[i].id = a
         /\ \A j \in Instances \ {i} : offer'[j] = offer[j]
<1>1. a \in Attempts /\ row[a] \in Row /\ offer \in [Instances -> Offer \cup {None}]
  BY DEF IRows, TypeOK, Rows
<1>2. [id |-> a, retry |-> n, op |-> row[a].op, from |-> row[a].from, to |-> row[a].to] \in Offer
  BY <1>1 DEF Offer, Row
<1>3. offer' = [offer EXCEPT ![i] = [id |-> a, retry |-> n, op |-> row[a].op,
                                     from |-> row[a].from, to |-> row[a].to]]
  BY DEF Send
<1> QED BY <1>1, <1>2, <1>3

\* What a look for an offer stores and sends.
LEMMA LooksKeepTypes ==
  ASSUME IRows, NEW i \in Instances,
         LookActive(i) \/ LookCandidate(i) \/ InsertAttempt(i) \/ Deliver(i) \/ DropLook(i)
  PROVE  AgentTypes'
<1>0. /\ AgentTypes
      /\ version \in [Instances -> Versions]
      /\ retry \in [Attempts -> 0..MaxRetry]
  BY DEF IRows, TypeOK, AgentTypes
<1>1. UNCHANGED <<task, running, kept>>
  BY DEF LookActive, LookCandidate, InsertAttempt, Deliver, DeliverTo, DropLook, agents
<1>2. ASSUME LookActive(i) PROVE AgentTypes'
  <2>1. PICK a \in Offerable(i) :
          IF status[a] = "pending"
          THEN /\ look' = [look EXCEPT ![i] = [step |-> "deliver", id |-> a, retry |-> retry[a]]]
               /\ UNCHANGED offer
          ELSE Send(i, a, retry[a]) /\ UNCHANGED look
    BY <1>2 DEF LookActive
  <2>2. a \in Rows /\ a \in Attempts /\ retry[a] \in 0..MaxRetry
    BY <1>0 DEF Offerable, ActiveRows, Rows
  <2>3. [step |-> "deliver", id |-> a, retry |-> retry[a]] \in Look
    BY <2>2 DEF Look
  <2>4. CASE status[a] = "pending"
    BY <1>0, <1>1, <2>1, <2>3, <2>4 DEF AgentTypes
  <2>5. CASE status[a] # "pending"
    BY <1>0, <1>1, <2>1, <2>2, <2>5, SendRight DEF AgentTypes
  <2> QED BY <2>4, <2>5
<1>3. ASSUME LookCandidate(i) PROVE AgentTypes'
  <2>1. PICK r \in Releases :
          look' = [look EXCEPT ![i] = [step |-> "insert", rel |-> r, from |-> version[i]]]
    BY <1>3 DEF LookCandidate
  <2>2. [step |-> "insert", rel |-> r, from |-> version[i]] \in Look
    BY <1>0 DEF Look
  <2>3. UNCHANGED offer
    BY <1>3 DEF LookCandidate, agents
  <2> QED BY <1>0, <1>1, <2>1, <2>2, <2>3 DEF AgentTypes
<1>4. ASSUME InsertAttempt(i) PROVE AgentTypes'
  <2>1. UNCHANGED offer
    BY <1>4 DEF InsertAttempt, agents
  <2>2. CASE look' = [look EXCEPT ![i] = None]
    BY <1>0, <1>1, <2>1, <2>2 DEF AgentTypes
  <2>3. CASE /\ next <= MaxAttempts
             /\ look' = [look EXCEPT ![i] = [step |-> "deliver", id |-> next, retry |-> 0]]
    <3>1. next \in Attempts /\ 0 \in 0..MaxRetry
      BY <2>3, BoundAssumption DEF IRows, IAttempts, AttemptShape, Attempts
    <3>2. [step |-> "deliver", id |-> next, retry |-> 0] \in Look
      BY <3>1 DEF Look
    <3> QED BY <1>0, <1>1, <2>1, <2>3, <3>2 DEF AgentTypes
  <2> QED BY <1>4, <2>2, <2>3 DEF InsertAttempt, InsertLooked
<1>5. ASSUME Deliver(i) PROVE AgentTypes'
  <2>1. look' = [look EXCEPT ![i] = None]
    BY <1>5 DEF Deliver, DeliverTo
  <2>2. look[i] \in Look /\ look[i].step = "deliver"
    BY <1>0, <1>5 DEF Deliver, AgentTypes
  <2>3. look[i].retry \in 0..MaxRetry
    BY <2>2 DEF Look
  <2>4. UNCHANGED offer \/ (look[i].id \in Rows /\ Send(i, look[i].id, look[i].retry))
    BY <1>5 DEF Deliver, DeliverTo
  <2> QED BY <1>0, <1>1, <2>1, <2>3, <2>4, SendRight DEF AgentTypes
<1>6. ASSUME DropLook(i) PROVE AgentTypes'
  BY <1>0, <1>1, <1>6 DEF DropLook, agents, AgentTypes
<1> QED BY <1>2, <1>3, <1>4, <1>5, <1>6

\* What the agent stores.
LEMMA AgentKeepsTypes ==
  ASSUME IRows, NEW i \in Instances,
         TakeOffer(i) \/ HandOff(i) \/ FailTask(i) \/ Install(i) \/ Restore(i) \/ Botch(i)
  PROVE  AgentTypes'
<1>0. AgentTypes
  BY DEF IRows, TypeOK, AgentTypes
<1>1. UNCHANGED look
  BY DEF TakeOffer, HandOff, FailTask, Install, Restore, Botch, AgentStep
<1>2. ASSUME TakeOffer(i) PROVE AgentTypes'
  <2> DEFINE o == offer[i]
             t == [id |-> o.id, retry |-> o.retry, op |-> o.op, to |-> o.to,
                   state |-> FirstState(i, o)]
  <2>1. o \in Offer
    BY <1>0, <1>2 DEF TakeOffer, AgentTypes
  <2>2. FirstState(i, o) \in {"waiting", "installing", "succeeded", "rollback_succeeded", "failed"}
    BY DEF FirstState
  <2>3. t \in Task
    BY <2>1, <2>2 DEF Offer, Task
  <2>4. /\ offer' = [offer EXCEPT ![i] = None]
        /\ task' = [task EXCEPT ![i] = t] \/ UNCHANGED task
        /\ UNCHANGED <<running, kept>>
    BY <1>2 DEF TakeOffer
  <2> HIDE DEF t
  <2> QED BY <1>0, <1>1, <2>3, <2>4 DEF AgentTypes
<1>3. ASSUME NEW from, NEW STATE to, AgentStep(i, from, to),
             to \in {"waiting", "installing", "succeeded", "rollback_succeeded", "failed"}
      PROVE  /\ task' \in [Instances -> Task \cup {None}]
             /\ task[i].to \in Versions
             /\ UNCHANGED offer
  <2>1. task[i] \in Task /\ task' = [task EXCEPT ![i] = [task[i] EXCEPT !.state = to]]
    BY <1>0, <1>3 DEF AgentStep, AgentTypes
  <2>2. [task[i] EXCEPT !.state = to] \in Task
    BY <1>3, <2>1 DEF Task
  <2>3. task[i].to \in Versions
    BY <2>1 DEF Task
  <2> QED BY <1>0, <1>3, <2>1, <2>2, <2>3 DEF AgentStep, AgentTypes
<1>4. ASSUME HandOff(i) \/ FailTask(i) \/ Restore(i) PROVE AgentTypes'
  <2>1. \E from, to \in {"waiting", "installing", "rollback_succeeded", "failed"} :
          AgentStep(i, from, to)
    BY <1>4 DEF HandOff, FailTask, Restore
  <2>2. UNCHANGED <<running, kept>>
    BY <1>4 DEF HandOff, FailTask, Restore
  <2> QED BY <1>0, <1>1, <1>3, <2>1, <2>2 DEF AgentTypes
<1>5. ASSUME Install(i) PROVE AgentTypes'
  <2>1. \E to \in {"succeeded", "rollback_succeeded"} : AgentStep(i, "installing", to)
    BY <1>5 DEF Install
  <2>2. /\ running' = [running EXCEPT ![i] = task[i].to]
        /\ kept' = [kept EXCEPT ![i] = running[i]]
    BY <1>5 DEF Install
  <2>3. /\ task' \in [Instances -> Task \cup {None}]
        /\ task[i].to \in Versions
        /\ UNCHANGED offer
    BY <1>3, <2>1
  <2> QED BY <1>0, <1>1, <2>2, <2>3 DEF AgentTypes
<1>6. ASSUME Botch(i) PROVE AgentTypes'
  <2>1. /\ AgentStep(i, "installing", "failed")
        /\ UNCHANGED kept
    BY <1>6 DEF Botch
  <2>2. PICK v \in {running[i], task[i].to} : running' = [running EXCEPT ![i] = v]
    BY <1>6 DEF Botch
  <2>3. /\ task' \in [Instances -> Task \cup {None}]
        /\ task[i].to \in Versions
        /\ UNCHANGED offer
    BY <1>3, <2>1
  <2> QED BY <1>0, <1>1, <2>1, <2>2, <2>3 DEF AgentTypes
<1> QED BY <1>2, <1>4, <1>5, <1>6

\* The actions that leave the agents and the looks alone.
LEMMA AgentsStay ==
  ASSUME NEW r, NEW i, NEW d, NEW k, NEW a
  PROVE  /\ CreateRelease(r) \/ UploadArtifact(r) \/ Pause(r) \/ Resume(r) \/ RollbackRelease(r)
            \/ DeleteRelease(r) \/ Retry(a) => UNCHANGED <<agents, look>>
         /\ Approve(i) \/ Disable(i) \/ GiveUp(d) => UNCHANGED <<agents, look>>
         /\ \A ids : PreparePublish(d, r, ids) \/ PrepareAdd(d, r, ids) => UNCHANGED <<agents, look>>
         /\ PreparePromote(d, r) \/ PrepareInstanceRollback(d, r, i) \/ PrepareReupgrade(d, r, i)
              => UNCHANGED <<agents, look>>
         /\ Publish(d) \/ AddTargets(d) \/ Promote(d) \/ RollbackInstance(d) \/ Reupgrade(d)
              => UNCHANGED <<agents, look>>
         /\ RecordStatus(i) \/ Register(i) \/ Metrics(i) => UNCHANGED <<agents, look>>
         /\ BeginReconcile(k, r) \/ QueueOne(k, a) \/ QueuedAll(k) \/ CountActive(k)
            \/ CountUnqueued(k) \/ Close(k) \/ Expire(a) => UNCHANGED <<agents, look>>
  BY DEF CreateRelease, UploadArtifact, Pause, SetPaused, Resume, RollbackRelease, DeleteRelease,
         Retry, Requeue, Approve, Disable, GiveUp, Prepare, PreparePublish, PrepareAdd,
         PreparePromote, PrepareInstanceRollback, PrepareReupgrade, Publish, AddTargets, Promote,
         RollbackInstance, Reupgrade, RecordStatus, Register, Metrics, BeginReconcile, QueueOne,
         QueuedAll, CountActive, CountUnqueued, Close, Expire

\* The steps of an instance that are not: an offer is looked for or taken up,
\* or the backend forgets what it looked for.
LEMMA AgentSteps ==
  ASSUME [Next]_vars
  PROVE  \/ UNCHANGED <<agents, look>>
         \/ \E i \in Instances : \/ LookActive(i) \/ LookCandidate(i) \/ InsertAttempt(i)
                                 \/ Deliver(i) \/ DropLook(i)
         \/ \E i \in Instances : \/ TakeOffer(i) \/ HandOff(i) \/ FailTask(i) \/ Install(i)
                                 \/ Restore(i) \/ Botch(i)
         \/ RestartBackend
<1> DEFINE Stay == UNCHANGED <<agents, look>>
<1>1. CASE UNCHANGED vars
  BY <1>1 DEF vars
<1>2. CASE Console
  <2>1. ASSUME NEW r \in Releases, \/ CreateRelease(r) \/ UploadArtifact(r) \/ Pause(r)
                                   \/ Resume(r) \/ RollbackRelease(r) \/ DeleteRelease(r)
        PROVE  Stay
    BY <2>1, AgentsStay
  <2>2. ASSUME NEW a \in Attempts, Retry(a) PROVE Stay
    BY <2>2, AgentsStay
  <2>3. ASSUME NEW i \in Instances, Approve(i) \/ Disable(i) PROVE Stay
    BY <2>3, AgentsStay
  <2>4. ASSUME NEW d \in Admins, NEW r \in Releases,
               \/ \E ids \in SUBSET Instances : PreparePublish(d, r, ids) \/ PrepareAdd(d, r, ids)
               \/ PreparePromote(d, r)
               \/ \E i \in Instances : \/ PrepareInstanceRollback(d, r, i)
                                       \/ PrepareReupgrade(d, r, i)
        PROVE  Stay
    BY <2>4, AgentsStay
  <2>5. ASSUME NEW d \in Admins, \/ Publish(d) \/ AddTargets(d) \/ Promote(d)
                                 \/ RollbackInstance(d) \/ Reupgrade(d) \/ GiveUp(d)
        PROVE  Stay
    BY <2>5, AgentsStay
  <2> HIDE DEF Stay
  <2>6. Stay
    BY <1>2, <2>1, <2>2, <2>3, <2>4, <2>5 DEF Console
  <2> QED BY <2>6 DEF Stay
<1>3. CASE AgentActions
  BY <1>3, AgentsStay DEF AgentActions
<1>4. CASE Background
  BY <1>4, AgentsStay DEF Background, ReconcileStep
<1> QED BY <1>1, <1>2, <1>3, <1>4 DEF Next

\* The agents as a whole.
LEMMA AgentTypesKept ==
  ASSUME IRows, [Next]_vars
  PROVE  AgentTypes'
<1>0. AgentTypes
  BY DEF IRows, TypeOK, AgentTypes
<1>1. UNCHANGED <<agents, look>> => AgentTypes'
  BY <1>0 DEF AgentTypes, agents
<1>2. RestartBackend => AgentTypes'
  BY <1>0 DEF RestartBackend, AgentTypes, agents
<1> QED BY <1>1, <1>2, AgentSteps, LooksKeepTypes, AgentKeepsTypes

\* A release stays overtaken.
Grows == overtaken \subseteq overtaken' /\ overtaken' \subseteq Releases

\* The history of overtaken releases only grows.
LEMMA OvertakenGrows ==
  ASSUME IRows, [Next]_vars
  PROVE  Grows
<1>0. overtaken \subseteq Releases
  BY DEF IRows, TypeOK
<1>1. UNCHANGED overtaken => Grows
  BY <1>0 DEF Grows
<1>2. ASSUME NEW S, overtaken' = overtaken \cup S, S \subseteq Releases PROVE Grows
  BY <1>0, <1>2 DEF Grows
<1>3. \A a \in Rows : row[a].rel \in Releases
  BY DEF IRows, TypeOK, Rows, Row
<1>4. CASE UNCHANGED vars
  BY <1>1, <1>4 DEF vars
<1>5. CASE Console
  <2>1. ASSUME NEW r \in Releases, \/ CreateRelease(r) \/ UploadArtifact(r) \/ Pause(r)
                                   \/ Resume(r) \/ RollbackRelease(r)
        PROVE  UNCHANGED overtaken
    BY <2>1 DEF CreateRelease, UploadArtifact, Pause, SetPaused, Resume, RollbackRelease
  <2>2. ASSUME NEW a \in Attempts, Retry(a) PROVE Grows
    <3>1. a \in Rows /\ overtaken' = overtaken \cup {s \in {row[a].rel} : Closing(s)}
      BY <2>2 DEF Retry, Requeue
    <3>2. {s \in {row[a].rel} : Closing(s)} \subseteq Releases
      BY <1>3, <3>1
    <3> QED BY <1>2, <3>1, <3>2
  <2>3. ASSUME NEW i \in Instances, Approve(i) \/ Disable(i) PROVE UNCHANGED overtaken
    BY <2>3 DEF Approve, Disable
  <2>4. ASSUME NEW d \in Admins, \/ Publish(d) \/ AddTargets(d) \/ Promote(d)
                                 \/ RollbackInstance(d) \/ Reupgrade(d) \/ GiveUp(d)
        PROVE  UNCHANGED overtaken
    BY <2>4 DEF Publish, AddTargets, Promote, RollbackInstance, Reupgrade, GiveUp
  <2>5. ASSUME NEW d \in Admins, NEW r \in Releases,
               \/ \E ids \in SUBSET Instances : PreparePublish(d, r, ids) \/ PrepareAdd(d, r, ids)
               \/ PreparePromote(d, r)
               \/ \E i \in Instances : \/ PrepareInstanceRollback(d, r, i)
                                       \/ PrepareReupgrade(d, r, i)
        PROVE  UNCHANGED overtaken
    BY <2>5 DEF Prepare, PreparePublish, PrepareAdd, PreparePromote,
                PrepareInstanceRollback, PrepareReupgrade
  <2>6. ASSUME NEW r \in Releases, DeleteRelease(r) PROVE Grows
    <3> DEFINE S == {s \in {row[a].rel : a \in Cascaded(r)} : Closing(s)}
    <3>1. overtaken' = overtaken \cup S
      BY <2>6 DEF DeleteRelease, DeleteRows, DeleteWithout
    <3>2. Cascaded(r) \subseteq Rows
      BY DEF Cascaded, RowsOf, RollbacksTo
    <3>3. S \subseteq Releases
      BY <1>3, <3>2
    <3> HIDE DEF S
    <3> QED BY <1>2, <3>1, <3>3
  <2> QED BY <1>1, <1>5, <2>1, <2>2, <2>3, <2>4, <2>5, <2>6 DEF Console
<1>6. CASE AgentActions
  <2>1. ASSUME NEW i \in Instances, InsertAttempt(i) PROVE Grows
    <3>1. look[i].rel \in Releases
      <4>1. look[i] \in Look /\ look[i].step = "insert"
        BY <2>1 DEF InsertAttempt, IRows, TypeOK
      <4> QED BY <4>1 DEF Look
    <3> DEFINE S == {s \in {look[i].rel} :
                       Closing(s) \/ rollout[s] \in {"rolled_back", "rollback_partial"}}
    <3>2. S \subseteq Releases
      BY <3>1
    <3>3. UNCHANGED overtaken \/ overtaken' = overtaken \cup S
      BY <2>1 DEF InsertAttempt, InsertLooked
    <3> HIDE DEF S
    <3> QED BY <1>1, <1>2, <3>2, <3>3
  <2>2. ASSUME NEW i \in Instances, Metrics(i) PROVE Grows
    <3> DEFINE S == {r \in {row[a].rel : a \in Confirmed(i)} : Closing(r)}
    <3>1. overtaken' = overtaken \cup S
      BY <2>2 DEF Metrics
    <3>2. S \subseteq Releases
      BY <1>3 DEF Confirmed
    <3> HIDE DEF S
    <3> QED BY <1>2, <3>1, <3>2
  <2>3. ASSUME NEW i \in Instances, \/ LookActive(i) \/ LookCandidate(i) \/ Deliver(i)
               \/ DropLook(i) \/ TakeOffer(i) \/ HandOff(i) \/ FailTask(i) \/ Install(i)
               \/ Restore(i) \/ Botch(i) \/ RecordStatus(i) \/ Register(i)
        PROVE  UNCHANGED overtaken
    BY <2>3 DEF LookActive, LookCandidate, Deliver, DeliverTo, DropLook, TakeOffer, HandOff,
                FailTask, Install, Restore, Botch, AgentStep, RecordStatus, Register
  <2> QED BY <1>1, <1>6, <2>1, <2>2, <2>3 DEF AgentActions
<1>7. CASE Background
  <2>1. ASSUME NEW k \in Reconcilers, NEW u \in Attempts, QueueOne(k, u) PROVE Grows
    <3>1. recon[k] \in Recon
      BY <2>1 DEF QueueOne, At, IRows, TypeOK
    <3>2. recon[k].rel \in Releases
      BY <3>1 DEF Recon
    <3> DEFINE S == {r \in {recon[k].rel} : Closing(r)}
    <3>3. UNCHANGED overtaken \/ overtaken' = overtaken \cup S
      BY <2>1 DEF QueueOne
    <3>4. S \subseteq Releases
      BY <3>2
    <3> HIDE DEF S
    <3> QED BY <1>1, <1>2, <3>3, <3>4
  <2>2. ASSUME NEW k \in Reconcilers,
               \/ \E r \in Releases : BeginReconcile(k, r)
               \/ QueuedAll(k) \/ CountActive(k) \/ CountUnqueued(k) \/ Close(k)
        PROVE  UNCHANGED overtaken
    BY <2>2 DEF BeginReconcile, QueuedAll, CountActive, CountUnqueued, Close
  <2>3. ASSUME NEW a \in Attempts, Expire(a) PROVE UNCHANGED overtaken
    BY <2>3 DEF Expire
  <2>4. RestartBackend => UNCHANGED overtaken
    BY DEF RestartBackend
  <2> QED BY <1>1, <1>7, <2>1, <2>2, <2>3, <2>4 DEF Background, ReconcileStep
<1> QED BY <1>4, <1>5, <1>6, <1>7 DEF Next

\* What a deletion takes is remembered for good.
LEMMA ForgottenGrows ==
  ASSUME IRows, [Next]_vars
  PROVE  forgotten \subseteq forgotten' /\ forgotten' \subseteq Attempts \cup {None}
<1>1. forgotten \subseteq Attempts \cup {None}
  BY DEF IRows, TypeOK
<1>2. ASSUME NEW r \in Releases, DeleteRelease(r)
      PROVE  forgotten \subseteq forgotten' /\ forgotten' \subseteq Attempts \cup {None}
  <2> DEFINE S == {row[a].parent : a \in {b \in RollbacksTo(r) : status[b] = "rollback_succeeded"}}
  <2>1. forgotten' = forgotten \cup S
    BY <1>2 DEF DeleteRelease, DeleteRows, DeleteWithout
  <2>2. \A a \in Rows : row[a].parent \in Attempts \cup {None}
    BY DEF IRows, TypeOK, Rows, Row
  <2>3. S \subseteq Attempts \cup {None}
    BY <2>2 DEF RollbacksTo
  <2> HIDE DEF S
  <2> QED BY <1>1, <2>1, <2>3
<1>3. CASE UNCHANGED vars
  BY <1>1, <1>3 DEF vars, releases
<1>4. CASE Console /\ \A r \in Releases : ~DeleteRelease(r)
  <2>1. ASSUME NEW r \in Releases, \/ CreateRelease(r) \/ UploadArtifact(r) \/ Pause(r)
                                   \/ Resume(r) \/ RollbackRelease(r)
        PROVE  UNCHANGED forgotten
    BY <2>1 DEF CreateRelease, UploadArtifact, Pause, SetPaused, Resume, RollbackRelease, releases
  <2>2. ASSUME NEW a \in Attempts, Retry(a) PROVE UNCHANGED forgotten
    BY <2>2 DEF Retry, Requeue, releases
  <2>3. ASSUME NEW i \in Instances, Approve(i) \/ Disable(i) PROVE UNCHANGED forgotten
    BY <2>3 DEF Approve, Disable, releases
  <2>4. ASSUME NEW d \in Admins, \/ Publish(d) \/ AddTargets(d) \/ Promote(d)
                                 \/ RollbackInstance(d) \/ Reupgrade(d) \/ GiveUp(d)
        PROVE  UNCHANGED forgotten
    BY <2>4 DEF Publish, AddTargets, Promote, RollbackInstance, Reupgrade, GiveUp, releases
  <2>5. ASSUME NEW d \in Admins, NEW r \in Releases,
               \/ \E ids \in SUBSET Instances : PreparePublish(d, r, ids) \/ PrepareAdd(d, r, ids)
               \/ PreparePromote(d, r)
               \/ \E i \in Instances : \/ PrepareInstanceRollback(d, r, i)
                                       \/ PrepareReupgrade(d, r, i)
        PROVE  UNCHANGED forgotten
    BY <2>5 DEF Prepare, PreparePublish, PrepareAdd, PreparePromote,
                PrepareInstanceRollback, PrepareReupgrade, releases
  <2> QED BY <1>1, <1>4, <2>1, <2>2, <2>3, <2>4, <2>5 DEF Console
<1>5. CASE AgentActions
  BY <1>1, <1>5 DEF AgentActions, releases, LookActive, LookCandidate, InsertAttempt, Deliver,
        DeliverTo, DropLook, TakeOffer, HandOff, FailTask, Install, Restore, Botch, AgentStep,
        RecordStatus, Register, Metrics
<1>6. CASE Background
  BY <1>1, <1>6 DEF Background, releases, BeginReconcile, ReconcileStep, QueueOne, QueuedAll,
        CountActive, CountUnqueued, Close, Expire, RestartBackend
<1> QED BY <1>2, <1>3, <1>4, <1>5, <1>6 DEF Next, Console

\* Together: TypeOK is inductive.
LEMMA TypesKept ==
  ASSUME IRows, [Next]_vars
  PROVE  TypeOK'
<1>1. IControl'
  BY StepIsControl, ControlKeeps DEF IRows
<1>2. TargetTypes' /\ ColumnTypes' /\ AttemptTypesHold'
  BY TargetsKept, ColumnsKept, AttemptTypesKept
<1>3. RequestTypes' /\ ReconTypes' /\ AgentTypes'
  BY RequestTypesKept, ReconTypesKept, AgentTypesKept
<1>4. overtaken' \subseteq Releases /\ forgotten' \subseteq Attempts \cup {None}
  BY OvertakenGrows, ForgottenGrows DEF Grows
<1> QED BY <1>1, <1>2, <1>3, <1>4 DEF TypeOK, IControl, TargetTypes, ColumnTypes,
           AttemptTypesHold, RequestTypes, ReconTypes, AgentTypes

-----------------------------------------------------------------------------
(***************************************************************************)
(* Where requests, rollbacks, reconciliations and agents come from.        *)
(***************************************************************************)
\* A release that is being withdrawn is never offered again.
LEMMA EndingStays ==
  ASSUME IRows, [Next]_vars, NEW r \in Releases
  PROVE  /\ rollout[r] \in Ending => rollout'[r] \in Ending
         /\ rollout[r] = "deleted" => rollout'[r] = "deleted"
<1>1. [Control!Next]_rollout /\ rollout \in [Releases -> States]
  BY StepIsControl DEF IRows, IControl
<1> USE DEF Control!Move, Ending, Withdrawn
<1>2. CASE UNCHANGED rollout
  BY <1>2
<1>3. ASSUME NEW s \in Releases, Control!Create(s) \/ Control!Start(s) \/ Control!Pause(s)
      PROVE  r # s \/ rollout[r] \notin Ending
  BY <1>3 DEF Control!Create, Control!Start, Control!Pause
<1>4. ASSUME NEW s \in Releases, Control!Resume(s) \/ Control!Promote(s)
      PROVE  r # s \/ rollout[r] \notin Ending
  BY <1>4 DEF Control!Resume, Control!Promote, Control!Canary
<1>5. ASSUME NEW s \in Releases, Control!Rollback(s) \/ Control!Settle(s) \/ Control!Delete(s)
      PROVE  /\ \E t \in Ending : rollout' = [rollout EXCEPT ![s] = t]
             /\ rollout[s] # "deleted"
  BY <1>5 DEF Control!Rollback, Control!Settle, Control!Delete, Control!Live, Control!Canary
<1>6. ASSUME NEW s \in Releases, NEW t \in States, rollout' = [rollout EXCEPT ![s] = t], r # s
      PROVE  rollout'[r] = rollout[r]
  BY <1>1, <1>6
<1>7. ASSUME NEW s \in Releases,
             \/ Control!Create(s) \/ Control!Start(s) \/ Control!Pause(s)
             \/ Control!Resume(s) \/ Control!Promote(s)
      PROVE  \E t \in States : rollout' = [rollout EXCEPT ![s] = t]
  BY <1>7 DEF Control!Create, Control!Start, Control!Pause, Control!Resume, Control!Promote,
              States, Live, Canary, Full
<1>8. ASSUME NEW s \in Releases,
             \/ Control!Create(s) \/ Control!Start(s) \/ Control!Pause(s)
             \/ Control!Resume(s) \/ Control!Promote(s)
      PROVE  rollout[r] \in Ending => rollout'[r] = rollout[r]
  BY <1>3, <1>4, <1>6, <1>7, <1>8
<1>9. ASSUME NEW s \in Releases, Control!Rollback(s) \/ Control!Settle(s) \/ Control!Delete(s)
      PROVE  /\ rollout[r] \in Ending => rollout'[r] \in Ending
             /\ rollout[r] = "deleted" => rollout'[r] = "deleted"
  BY <1>1, <1>5, <1>9
<1> QED BY <1>1, <1>2, <1>8, <1>9 DEF Control!Next

\* A rollback is inserted for an upgrade of its release, and never cancelled
\* nor said to have succeeded as an upgrade.
RollbackRow(a) ==
  /\ status[a] \in Active \cup Terminal
  /\ row[a].op = "rollback" =>
       /\ status[a] \in RollbackStates
       /\ row[a].parent \in Attempts /\ row[a].parent < next
       /\ rollout[row[a].rel] # "deleted" => row[a].parent \in Rows
       /\ row[a].parent \in Rows => Undoes(a, row[a].parent)

LEMMA RollbacksKept ==
  ASSUME IRows, [Next]_vars
  PROVE  Rollbacks'
<1>1. RowsMove /\ AttemptShape' /\ Onward
  BY StepMoves, StepOrderly DEF IRows, Orderly
<1>2. next' >= next /\ next \in Nat /\ next' \in Nat
  BY <1>1 DEF Onward, IRows, IAttempts, AttemptShape
<1>3. ASSUME NEW a \in Rows' PROVE a \in Attempts /\ row'[a] # None
  BY DEF Rows
<1>4. ASSUME NEW u \in Attempts, u < next, row'[u] # None
      PROVE  u \in Rows /\ row'[u] = row[u]
  <2>1. u \in Rows
    BY <1>1, <1>4 DEF Onward, Rows
  <2> QED BY <1>1, <1>4, <2>1 DEF RowsMove, Gone
<1>5. ASSUME NEW u \in Rows, row[u].op = "upgrade", rollout'[row[u].rel] # "deleted"
      PROVE  u \in Rows' /\ row'[u] = row[u]
  BY <1>1, <1>5 DEF RowsMove, Gone, Rows
<1>6. ASSUME NEW a \in Rows', a \in Rows
      PROVE  RollbackRow(a)'
  <2>1. row'[a] = row[a] /\ Kept(a)
    BY <1>1, <1>3, <1>6 DEF RowsMove, Gone
  <2>2. RollbackRow(a) /\ row[a].rel \in Releases
    BY <1>6 DEF IRows, Origins, Rollbacks, RollbackRow, TypeOK, Rows, Row
  <2>3. status'[a] \in Active \cup Terminal /\ (row[a].op = "rollback" => status'[a] \in RollbackStates)
    BY <2>1, <2>2 DEF Kept, RollbackRow
  <2> DEFINE u == row[a].parent
  <2>4. ASSUME row[a].op = "rollback"
        PROVE  /\ u < next'
               /\ rollout'[row[a].rel] # "deleted" => u \in Rows'
               /\ u \in Rows' => Undoes(a, u) /\ row'[u] = row[u]
    <3>1. u \in Nat /\ u \in Attempts /\ u < next
      BY <2>2, <2>4, BoundAssumption DEF Attempts, RollbackRow
    <3>2. u < next'
      BY <1>2, <3>1
    <3>3. ASSUME u \in Rows' PROVE u \in Rows /\ row'[u] = row[u]
      BY <1>3, <1>4, <3>1, <3>3
    <3>4. ASSUME rollout'[row[a].rel] # "deleted" PROVE u \in Rows'
      <4>1. rollout[row[a].rel] # "deleted"
        BY <2>2, <3>4, EndingStays
      <4>2. u \in Rows /\ Undoes(a, u)
        BY <2>2, <2>4, <4>1 DEF RollbackRow
      <4> QED BY <1>5, <3>4, <4>2 DEF Undoes
    <3> QED BY <2>2, <2>4, <3>2, <3>3, <3>4 DEF RollbackRow
  <2>5. row[a].op = "rollback" => u \in Attempts
    BY <2>2 DEF RollbackRow
  <2> QED BY <2>1, <2>3, <2>4, <2>5 DEF RollbackRow, Undoes
<1>7. ASSUME NEW a \in Rows', a \notin Rows
      PROVE  RollbackRow(a)'
  <2>1. Fresh(a)
    BY <1>1, <1>3, <1>7 DEF RowsMove
  <2>2. status'[a] \in Active \cup Terminal /\ status'[a] \in RollbackStates
    BY <2>1 DEF Fresh, Active, Terminal, RollbackStates
  <2> DEFINE u == row'[a].parent
  <2>3. ASSUME row'[a].op = "rollback"
        PROVE  /\ u \in Attempts /\ u < next'
               /\ rollout'[row'[a].rel] # "deleted" => u \in Rows'
               /\ u \in Rows' => /\ row'[u].rel = row'[a].rel /\ row'[u].inst = row'[a].inst
                                 /\ row'[u].op = "upgrade"
    <3>1. /\ u \in Rows /\ row[u].rel = row'[a].rel /\ row[u].inst = row'[a].inst
          /\ row[u].op = "upgrade"
      BY <2>1, <2>3 DEF Fresh
    <3>2. u \in Attempts /\ u \in Nat /\ u < next
      BY <3>1, AttemptTypes DEF IRows
    <3>3. u < next'
      BY <1>2, <3>2
    <3>4. u \in Rows' => row'[u] = row[u]
      BY <1>3, <1>4, <3>2
    <3>5. rollout'[row'[a].rel] # "deleted" => u \in Rows'
      BY <1>5, <3>1
    <3> QED BY <3>1, <3>2, <3>3, <3>4, <3>5
  <2> QED BY <2>2, <2>3 DEF RollbackRow, Undoes
<1> QED BY <1>6, <1>7 DEF Rollbacks, RollbackRow

\* What a step does to a reconciliation.
ReconMoves(k) ==
  \/ recon'[k] \in {None, recon[k]}
  \/ /\ recon[k] # None
     /\ recon'[k].rel = recon[k].rel /\ recon'[k].todo \subseteq recon[k].todo
     /\ recon'[k].step \in {"queue", "active"}
  \/ CountActive(k) /\ RowsOf(recon[k].rel) \cap ActiveRows = {} /\ GoTo(k, "unqueued")
  \/ CountUnqueued(k) /\ Unqueued(recon[k].rel) = {} /\ GoTo(k, "close")
  \/ \E r \in Releases : BeginReconcile(k, r)

\* Every step moves every reconciliation this way.
LEMMA ReconSteps ==
  ASSUME IRows, [Next]_vars
  PROVE  \A k \in Reconcilers : ReconMoves(k)
<1>0. recon \in [Reconcilers -> Recon \cup {None}]
  BY DEF IRows, TypeOK
<1>1. ASSUME UNCHANGED recon PROVE \A k \in Reconcilers : ReconMoves(k)
  BY <1>1 DEF ReconMoves
<1>2. ASSUME NEW k \in Reconcilers, NEW v, recon' = [recon EXCEPT ![k] = v], ReconMoves(k)
      PROVE  \A j \in Reconcilers : ReconMoves(j)
  <2>1. \A j \in Reconcilers \ {k} : recon'[j] = recon[j]
    BY <1>0, <1>2
  <2>2. \A j \in Reconcilers \ {k} : ReconMoves(j)
    BY <2>1 DEF ReconMoves
  <2> QED BY <1>2, <2>2
<1>3. ASSUME NEW k \in Reconcilers, Stop(k) PROVE \A j \in Reconcilers : ReconMoves(j)
  <2>1. recon' = [recon EXCEPT ![k] = None] /\ recon'[k] = None
    BY <1>0, <1>3 DEF Stop
  <2> QED BY <1>2, <2>1 DEF ReconMoves
<1>4. ASSUME NEW k \in Reconcilers, NEW s \in {"active", "unqueued", "close"}, recon[k] # None,
             GoTo(k, s)
      PROVE  /\ recon' = [recon EXCEPT ![k] = [recon[k] EXCEPT !.step = s]]
             /\ recon'[k].rel = recon[k].rel /\ recon'[k].todo = recon[k].todo
             /\ recon'[k].step = s
  <2>1. recon[k] \in Recon
    BY <1>0, <1>4
  <2>2. recon' = [recon EXCEPT ![k] = [recon[k] EXCEPT !.step = s]]
    BY <1>4 DEF GoTo
  <2>3. recon'[k] = [recon[k] EXCEPT !.step = s]
    BY <1>0, <2>2
  <2> QED BY <2>1, <2>2, <2>3 DEF Recon
<1>5. ASSUME NEW k \in Reconcilers, QueuedAll(k) PROVE \A j \in Reconcilers : ReconMoves(j)
  <2>1. recon[k] # None /\ GoTo(k, "active")
    BY <1>5 DEF QueuedAll, At
  <2>2. /\ recon' = [recon EXCEPT ![k] = [recon[k] EXCEPT !.step = "active"]]
        /\ recon'[k].rel = recon[k].rel /\ recon'[k].todo = recon[k].todo
        /\ recon'[k].step = "active"
    BY <1>4, <2>1
  <2>3. ReconMoves(k)
    BY <2>1, <2>2 DEF ReconMoves
  <2> QED BY <1>2, <2>2, <2>3
<1>6. ASSUME NEW k \in Reconcilers, CountActive(k) \/ CountUnqueued(k)
      PROVE  \A j \in Reconcilers : ReconMoves(j)
  <2>1. \/ Stop(k)
        \/ CountActive(k) /\ RowsOf(recon[k].rel) \cap ActiveRows = {} /\ GoTo(k, "unqueued")
        \/ CountUnqueued(k) /\ Unqueued(recon[k].rel) = {} /\ GoTo(k, "close")
    BY <1>6 DEF CountActive, CountUnqueued
  <2>2. \A s : GoTo(k, s) => \E v : recon' = [recon EXCEPT ![k] = v]
    BY DEF GoTo
  <2>3. ~Stop(k) => ReconMoves(k)
    BY <2>1 DEF ReconMoves
  <2> QED BY <1>2, <1>3, <2>1, <2>2, <2>3
<1>7. ASSUME NEW k \in Reconcilers, NEW u \in Attempts, QueueOne(k, u)
      PROVE  \A j \in Reconcilers : ReconMoves(j)
  <2>1. /\ recon[k] # None /\ recon[k].step = "queue"
        /\ recon' = [recon EXCEPT ![k] = [recon[k] EXCEPT !.todo = @ \ {u}]]
    BY <1>7 DEF QueueOne, At
  <2>2. recon[k] \in Recon /\ recon'[k] = [recon[k] EXCEPT !.todo = @ \ {u}]
    BY <1>0, <2>1
  <2>3. /\ recon'[k].rel = recon[k].rel /\ recon'[k].todo \subseteq recon[k].todo
        /\ recon'[k].step = "queue"
    BY <2>1, <2>2 DEF Recon
  <2>4. ReconMoves(k)
    BY <2>1, <2>3 DEF ReconMoves
  <2> QED BY <1>2, <2>1, <2>4
<1>8. ASSUME NEW k \in Reconcilers, NEW r \in Releases, BeginReconcile(k, r)
      PROVE  \A j \in Reconcilers : ReconMoves(j)
  <2>1. \E v : recon' = [recon EXCEPT ![k] = v]
    BY <1>8 DEF BeginReconcile
  <2>2. ReconMoves(k)
    BY <1>8 DEF ReconMoves
  <2> QED BY <1>2, <2>1, <2>2
<1>9. ASSUME NEW k \in Reconcilers, Close(k) PROVE \A j \in Reconcilers : ReconMoves(j)
  BY <1>3, <1>9 DEF Close
<1>10. RestartBackend => \A j \in Reconcilers : ReconMoves(j)
  BY DEF RestartBackend, ReconMoves
<1>11. ASSUME NEW a \in Attempts, Expire(a) PROVE UNCHANGED recon
  BY <1>11 DEF Expire
<1>12. CASE UNCHANGED vars
  BY <1>1, <1>12 DEF vars
<1>13. CASE Console
  <2>1. ASSUME NEW r \in Releases, \/ CreateRelease(r) \/ UploadArtifact(r) \/ Pause(r)
                                   \/ Resume(r) \/ RollbackRelease(r) \/ DeleteRelease(r)
        PROVE  UNCHANGED recon
    BY <2>1 DEF CreateRelease, UploadArtifact, Pause, SetPaused, Resume, RollbackRelease,
                DeleteRelease
  <2>2. ASSUME NEW a \in Attempts, Retry(a) PROVE UNCHANGED recon
    BY <2>2 DEF Retry, Requeue
  <2>3. ASSUME NEW i \in Instances, Approve(i) \/ Disable(i) PROVE UNCHANGED recon
    BY <2>3 DEF Approve, Disable
  <2>4. ASSUME NEW d \in Admins, \/ Publish(d) \/ AddTargets(d) \/ Promote(d)
                                 \/ RollbackInstance(d) \/ Reupgrade(d) \/ GiveUp(d)
        PROVE  UNCHANGED recon
    BY <2>4 DEF Publish, AddTargets, Promote, RollbackInstance, Reupgrade, GiveUp
  <2>5. ASSUME NEW d \in Admins, NEW r \in Releases,
               \/ \E ids \in SUBSET Instances : PreparePublish(d, r, ids) \/ PrepareAdd(d, r, ids)
               \/ PreparePromote(d, r)
               \/ \E i \in Instances : \/ PrepareInstanceRollback(d, r, i)
                                       \/ PrepareReupgrade(d, r, i)
        PROVE  UNCHANGED recon
    BY <2>5 DEF Prepare, PreparePublish, PrepareAdd, PreparePromote,
                PrepareInstanceRollback, PrepareReupgrade
  <2> QED BY <1>1, <1>13, <2>1, <2>2, <2>3, <2>4, <2>5 DEF Console
<1>14. CASE AgentActions
  <2>1. UNCHANGED recon
    BY <1>14 DEF AgentActions, LookActive, LookCandidate, InsertAttempt, Deliver, DeliverTo,
                 DropLook, TakeOffer, HandOff, FailTask, Install, Restore, Botch, AgentStep,
                 RecordStatus, Register, Metrics
  <2> QED BY <1>1, <2>1
<1>15. CASE Background
  BY <1>1, <1>5, <1>6, <1>7, <1>8, <1>9, <1>10, <1>11, <1>15 DEF Background, ReconcileStep
<1> QED BY <1>12, <1>13, <1>14, <1>15 DEF Next

\* An attempt with a number given out before the step is what it was.
LEMMA OldRows ==
  ASSUME IRows, [Next]_vars, NEW u \in Attempts, u < next
  PROVE  /\ u < next'
         /\ u \in Rows' => u \in Rows /\ row'[u] = row[u]
         /\ u \in Rows /\ u \notin Rows' /\ row[u].op = "upgrade" =>
              rollout'[row[u].rel] = "deleted"
<1>1. RowsMove /\ Onward
  BY StepMoves, StepOrderly DEF IRows, Orderly
<1>2. u \in Nat /\ next \in Nat /\ next' \in Nat /\ next' >= next
  BY <1>1, BoundAssumption DEF Onward, IRows, IAttempts, AttemptShape, Attempts
<1>3. u < next'
  BY <1>2
<1>4. u \in Rows' => u \in Rows
  BY <1>1 DEF Onward
<1>5. u \in Rows' => row'[u] # None
  BY DEF Rows
<1>6. u \in Rows /\ u \notin Rows' => row'[u] = None
  BY DEF Rows
<1>7. u \in Rows => row[u] # None
  BY DEF Rows
<1> QED BY <1>1, <1>3, <1>4, <1>5, <1>6, <1>7 DEF RowsMove, Gone

\* The list of a reconciliation only shrinks, and identifiers are not reused.
LEMMA TodoKept ==
  ASSUME IRows, [Next]_vars
  PROVE  Todo'
<1> SUFFICES ASSUME NEW k \in Reconcilers, recon'[k] # None, NEW u \in recon'[k].todo
             PROVE  u < next' /\ (u \in Rows' => /\ row'[u].rel = recon'[k].rel
                                                 /\ row'[u].op = "upgrade")
  BY DEF Todo
<1>1. ReconMoves(k)
  BY ReconSteps
<1>2. CASE recon[k] # None /\ recon'[k].rel = recon[k].rel /\ u \in recon[k].todo
  <2>1. u < next /\ (u \in Rows => row[u].rel = recon[k].rel /\ row[u].op = "upgrade")
    BY <1>2 DEF IRows, Origins, Todo
  <2>2. recon[k] \in Recon
    BY <1>2 DEF IRows, TypeOK
  <2>3. u \in Attempts
    BY <1>2, <2>2 DEF Recon
  <2> QED BY <1>2, <2>1, <2>3, OldRows
<1>3. ASSUME NEW r \in Releases, BeginReconcile(k, r)
      PROVE  u < next' /\ (u \in Rows' => row'[u].rel = recon'[k].rel /\ row'[u].op = "upgrade")
  <2>1. recon'[k] = [step |-> "queue", rel |-> r, todo |-> LatestUpgrades(r)]
    BY <1>3 DEF BeginReconcile, IRows, TypeOK
  <2>2. UNCHANGED <<row, next>>
    BY <1>3 DEF BeginReconcile, attempts
  <2>3. u \in LatestUpgrades(r) /\ recon'[k].rel = r
    BY <2>1
  <2>4. u \in Rows /\ row[u].rel = r /\ row[u].op = "upgrade"
    BY <2>3 DEF LatestUpgrades, Succeeded, Upgrades
  <2>5. u < next
    BY <2>4, AttemptTypes DEF IRows
  <2> QED BY <2>2, <2>3, <2>4, <2>5
<1>4. recon[k] # None => recon[k] \in Recon
  BY DEF IRows, TypeOK
<1>5. ASSUME NEW s, recon[k] # None, GoTo(k, s)
      PROVE  recon'[k].rel = recon[k].rel /\ recon'[k].todo = recon[k].todo
  <2>1. recon[k] \in Recon /\ recon'[k] = [recon[k] EXCEPT !.step = s]
    BY <1>4, <1>5 DEF GoTo, IRows, TypeOK
  <2> QED BY <2>1 DEF Recon
<1>6. CountActive(k) \/ CountUnqueued(k) => recon[k] # None
  BY DEF CountActive, CountUnqueued, At
<1>7. \/ recon[k] # None /\ recon'[k].rel = recon[k].rel /\ u \in recon[k].todo
      \/ \E r \in Releases : BeginReconcile(k, r)
  BY <1>1, <1>5, <1>6 DEF ReconMoves
<1> QED BY <1>2, <1>3, <1>7

\* Whatever an instance has was made of an attempt that goes the same way.
DirectionStep(i) ==
  /\ offer'[i] # None /\ offer'[i].id \in Rows' => offer'[i].op = row'[offer'[i].id].op
  /\ task'[i] # None => /\ task'[i].id \in Rows' => task'[i].op = row'[task'[i].id].op
                        /\ task'[i].op = "rollback" => task'[i].state # "succeeded"

\* An instance whose agent does nothing.
LEMMA DirectionsStay ==
  ASSUME IRows, [Next]_vars, NEW i \in Instances,
         offer'[i] \in {offer[i], None}, task'[i] = task[i]
  PROVE  DirectionStep(i)
<1>1. /\ offer[i] # None => /\ offer[i].id \in Attempts /\ offer[i].id < next
                            /\ offer[i].id \in Rows => offer[i].op = row[offer[i].id].op
      /\ task[i] # None => /\ task[i].id \in Attempts /\ task[i].id < next
                           /\ task[i].id \in Rows => task[i].op = row[task[i].id].op
                           /\ task[i].op = "rollback" => task[i].state # "succeeded"
  BY DEF IRows, IAttempts, Copies, Sent, Known, Origins, Directions
<1>2. offer[i] # None /\ offer[i].id \in Rows' =>
        offer[i].id \in Rows /\ row'[offer[i].id] = row[offer[i].id]
  BY <1>1, OldRows
<1>3. task[i] # None /\ task[i].id \in Rows' =>
        task[i].id \in Rows /\ row'[task[i].id] = row[task[i].id]
  BY <1>1, OldRows
<1> QED BY <1>1, <1>2, <1>3 DEF DirectionStep

\* An offer is made of a row, a task of an offer.
LEMMA DirectionsKept ==
  ASSUME IRows, [Next]_vars
  PROVE  Directions'
<1>0. /\ offer \in [Instances -> Offer \cup {None}]
      /\ task \in [Instances -> Task \cup {None}]
  BY DEF IRows, TypeOK
<1>1. ASSUME NEW i \in Instances, LookActive(i) \/ Deliver(i)
      PROVE  \A j \in Instances : DirectionStep(j)
  <2>1. UNCHANGED task /\ UNCHANGED row
    BY <1>1 DEF LookActive, Deliver, DeliverTo, attempts
  <2>2. CASE UNCHANGED offer
    BY <2>1, <2>2, DirectionsStay
  <2>3. CASE ~UNCHANGED offer
    <3>1. PICK a \in Rows, n \in 0..MaxRetry : Send(i, a, n)
      <4>1. ASSUME LookActive(i) PROVE \E a \in Rows, n \in 0..MaxRetry : Send(i, a, n)
        <5>1. PICK a \in Offerable(i) : Send(i, a, retry[a])
          BY <2>3, <4>1 DEF LookActive
        <5>2. a \in Rows /\ retry[a] \in 0..MaxRetry
          BY DEF Offerable, ActiveRows, Rows, IRows, TypeOK
        <5> QED BY <5>1, <5>2
      <4>2. ASSUME Deliver(i) PROVE \E a \in Rows, n \in 0..MaxRetry : Send(i, a, n)
        <5>1. look[i].id \in Rows /\ Send(i, look[i].id, look[i].retry)
          BY <2>3, <4>2 DEF Deliver, DeliverTo
        <5>2. look[i] \in Look /\ look[i].step = "deliver"
          BY <4>2 DEF Deliver, IRows, TypeOK
        <5>3. look[i].retry \in 0..MaxRetry
          BY <5>2 DEF Look
        <5> QED BY <5>1, <5>3
      <4> QED BY <1>1, <4>1, <4>2
    <3>2. /\ offer'[i].op = row[a].op /\ offer'[i].id = a
          /\ \A j \in Instances \ {i} : offer'[j] = offer[j]
      BY <3>1, SendRight
    <3>3. \A j \in Instances \ {i} : DirectionStep(j)
      BY <2>1, <3>2, DirectionsStay
    <3>4. /\ task[i] # None => /\ task[i].id \in Rows => task[i].op = row[task[i].id].op
                               /\ task[i].op = "rollback" => task[i].state # "succeeded"
      BY DEF IRows, Origins, Directions
    <3>5. Rows' = Rows
      BY <2>1 DEF Rows
    <3>6. DirectionStep(i)
      BY <2>1, <3>2, <3>4, <3>5 DEF DirectionStep
    <3> QED BY <3>3, <3>6
  <2> QED BY <2>2, <2>3
<1>2. ASSUME NEW i \in Instances, LookCandidate(i) \/ InsertAttempt(i) \/ DropLook(i)
      PROVE  \A j \in Instances : DirectionStep(j)
  <2>1. UNCHANGED <<offer, task>>
    BY <1>2 DEF LookCandidate, InsertAttempt, DropLook, agents
  <2> QED BY <2>1, DirectionsStay
<1>3. ASSUME NEW i \in Instances, TakeOffer(i)
      PROVE  \A j \in Instances : DirectionStep(j)
  <2> DEFINE o == offer[i]
             t == [id |-> o.id, retry |-> o.retry, op |-> o.op, to |-> o.to,
                   state |-> FirstState(i, o)]
  <2>1. /\ o # None
        /\ offer' = [offer EXCEPT ![i] = None]
        /\ task' = [task EXCEPT ![i] = t] \/ UNCHANGED task
        /\ UNCHANGED row
    BY <1>3 DEF TakeOffer, attempts
  <2>2. \A j \in Instances : offer'[j] \in {offer[j], None}
    BY <1>0, <2>1
  <2>3. CASE UNCHANGED task
    BY <2>2, <2>3, DirectionsStay
  <2>4. CASE task' = [task EXCEPT ![i] = t]
    <3>1. \A j \in Instances \ {i} : task'[j] = task[j]
      BY <1>0, <2>4
    <3>2. \A j \in Instances \ {i} : DirectionStep(j)
      BY <2>2, <3>1, DirectionsStay
    <3>3. offer'[i] = None /\ task'[i] = t
      BY <1>0, <2>1, <2>4
    <3>4. o.id \in Rows => o.op = row[o.id].op
      BY <2>1 DEF IRows, Origins, Directions
    <3>5. FirstState(i, o) # "succeeded"
      BY DEF FirstState
    <3>6. Rows' = Rows
      BY <2>1 DEF Rows
    <3>7. t.id = o.id /\ t.op = o.op /\ t.state = FirstState(i, o)
      OBVIOUS
    <3> HIDE DEF o, t
    <3>8. DirectionStep(i)
      BY <2>1, <3>3, <3>4, <3>5, <3>6, <3>7 DEF DirectionStep
    <3> QED BY <3>2, <3>8
  <2> QED BY <2>1, <2>3, <2>4
<1>4. ASSUME NEW i \in Instances, NEW from, NEW STATE to, AgentStep(i, from, to),
             to = "succeeded" => task[i].op = "upgrade"
      PROVE  \A j \in Instances : DirectionStep(j)
  <2>1. /\ task[i] # None
        /\ task' = [task EXCEPT ![i] = [task[i] EXCEPT !.state = to]]
        /\ UNCHANGED <<row, offer>>
    BY <1>4 DEF AgentStep, attempts
  <2>2. task[i] \in Task /\ task'[i] = [task[i] EXCEPT !.state = to]
    BY <1>0, <2>1
  <2>3. task'[i].id = task[i].id /\ task'[i].op = task[i].op /\ task'[i].state = to
    BY <2>2 DEF Task
  <2>4. \A j \in Instances \ {i} : task'[j] = task[j]
    BY <1>0, <2>1
  <2>5. \A j \in Instances \ {i} : DirectionStep(j)
    BY <2>1, <2>4, DirectionsStay
  <2>6. /\ offer[i] # None /\ offer[i].id \in Rows => offer[i].op = row[offer[i].id].op
        /\ task[i].id \in Rows => task[i].op = row[task[i].id].op
    BY <2>1 DEF IRows, Origins, Directions
  <2>7. Rows' = Rows
    BY <2>1 DEF Rows
  <2>8. DirectionStep(i)
    BY <1>4, <2>1, <2>3, <2>6, <2>7 DEF DirectionStep
  <2> QED BY <2>5, <2>8
<1>5. ASSUME NEW i \in Instances,
             HandOff(i) \/ FailTask(i) \/ Install(i) \/ Restore(i) \/ Botch(i)
      PROVE  \A j \in Instances : DirectionStep(j)
  BY <1>4, <1>5 DEF HandOff, FailTask, Install, Restore, Botch
<1>6. UNCHANGED agents => \A j \in Instances : DirectionStep(j)
  <2>1. UNCHANGED agents => UNCHANGED <<offer, task>>
    BY DEF agents
  <2> QED BY <2>1, DirectionsStay
<1>7. RestartBackend => UNCHANGED agents
  BY DEF RestartBackend
<1>8. \A j \in Instances : DirectionStep(j)
  BY <1>1, <1>2, <1>3, <1>5, <1>6, <1>7, AgentSteps
<1> QED BY <1>8 DEF DirectionStep, Directions

\* An instance that was rolled back from a release stays so, until the
\* release is deleted: a rollback that goes with the version it returned to
\* is remembered.
LEMMA WentBackStays ==
  ASSUME IRows, [Next]_vars, NEW r \in Releases, NEW i, WentBack(r, i), rollout'[r] # "deleted"
  PROVE  WentBack(r, i)'
<1>1. ASSUME NEW u \in Upgrades(r, i)
      PROVE  u \in Upgrades(r, i)'
  <2>1. u \in Rows /\ row[u].rel = r /\ row[u].inst = i /\ row[u].op = "upgrade"
    BY DEF Upgrades
  <2>2. row'[u] = row[u] /\ u \in Rows'
    BY <2>1, StepMoves DEF RowsMove, Gone, Rows
  <2> QED BY <2>1, <2>2 DEF Upgrades
<1>2. CASE Upgrades(r, i) \cap forgotten # {}
  BY <1>1, <1>2, ForgottenGrows DEF WentBack
<1>3. ASSUME NEW b \in Rows, row[b].rel = r, row[b].inst = i,
             row[b].op = "rollback", status[b] = "rollback_succeeded"
      PROVE  WentBack(r, i)'
  <2>1. CASE row'[b] = row[b] /\ Kept(b)
    <3>1. status'[b] = "rollback_succeeded"
      BY <1>3, <2>1 DEF Kept
    <3>2. b \in Rows'
      BY <2>1 DEF Rows
    <3> QED BY <1>3, <2>1, <3>1, <3>2 DEF WentBack
  <2>2. CASE Gone(b)
    <3>1. row[b].parent \in forgotten'
      BY <1>3, <2>2 DEF Gone
    <3>2. rollout[r] # "deleted"
      BY EndingStays
    <3>3. row[b].parent \in Upgrades(r, i)
      BY <1>3, <3>2 DEF IRows, Origins, Rollbacks, Undoes, Upgrades
    <3> QED BY <1>1, <3>1, <3>3 DEF WentBack
  <2> QED BY <2>1, <2>2, StepMoves DEF RowsMove
<1> QED BY <1>2, <1>3 DEF WentBack

\* What a step does to a request.
RequestMoves(d) ==
  \/ admin'[d] \in {None, admin[d]}
  \/ admin'[d].op \in {"publish", "add", "promote"}
  \/ \E r \in Releases, i \in Instances : PrepareInstanceRollback(d, r, i) \/ PrepareReupgrade(d, r, i)

\* Every step moves every request this way.
LEMMA RequestSteps ==
  ASSUME IRows, [Next]_vars
  PROVE  \A d \in Admins : RequestMoves(d)
<1>0. admin \in [Admins -> Request \cup {None}]
  BY DEF IRows, TypeOK
<1>1. ASSUME UNCHANGED admin PROVE \A d \in Admins : RequestMoves(d)
  BY <1>1 DEF RequestMoves
<1>2. ASSUME NEW d \in Admins, NEW v, admin' = [admin EXCEPT ![d] = v], RequestMoves(d)
      PROVE  \A e \in Admins : RequestMoves(e)
  <2>1. \A e \in Admins \ {d} : admin'[e] = admin[e]
    BY <1>0, <1>2
  <2> QED BY <1>2, <2>1 DEF RequestMoves
<1>3. ASSUME NEW d \in Admins, Done(d) PROVE \A e \in Admins : RequestMoves(e)
  <2>1. admin' = [admin EXCEPT ![d] = None] /\ admin'[d] = None
    BY <1>0, <1>3 DEF Done
  <2> QED BY <1>2, <2>1 DEF RequestMoves
<1>4. ASSUME NEW d \in Admins, NEW r \in Releases, NEW ids \in SUBSET Instances,
             PreparePublish(d, r, ids) \/ PrepareAdd(d, r, ids) \/ PreparePromote(d, r)
      PROVE  \A e \in Admins : RequestMoves(e)
  <2>1. \E op \in {"publish", "add", "promote"} : \E S, view : Prepare(d, op, r, S, view, None)
    BY <1>4 DEF PreparePublish, PrepareAdd, PreparePromote
  <2>2. PICK op \in {"publish", "add", "promote"} : \E S, view : Prepare(d, op, r, S, view, None)
    BY <2>1
  <2>3. PICK S, view : Prepare(d, op, r, S, view, None)
    BY <2>2
  <2> DEFINE v == [op |-> op, rel |-> r, ids |-> S, view |-> view, parent |-> None]
  <2>4. admin' = [admin EXCEPT ![d] = v]
    BY <2>3 DEF Prepare
  <2>5. admin'[d] = v /\ v.op = op
    BY <1>0, <2>4
  <2> HIDE DEF v
  <2>6. RequestMoves(d)
    BY <2>2, <2>5 DEF RequestMoves
  <2> QED BY <1>2, <2>4, <2>6
<1>5. ASSUME NEW d \in Admins, NEW r \in Releases, NEW i \in Instances,
             PrepareInstanceRollback(d, r, i) \/ PrepareReupgrade(d, r, i)
      PROVE  \A e \in Admins : RequestMoves(e)
  <2>1. \E v : admin' = [admin EXCEPT ![d] = v]
    BY <1>5 DEF PrepareInstanceRollback, PrepareReupgrade, Prepare
  <2>2. RequestMoves(d)
    BY <1>5 DEF RequestMoves
  <2> QED BY <1>2, <2>1, <2>2
<1>6. RestartBackend => \A e \in Admins : RequestMoves(e)
  BY DEF RestartBackend, RequestMoves
<1>7. CASE UNCHANGED vars
  BY <1>1, <1>7 DEF vars
<1>8. CASE Console
  <2>1. ASSUME NEW r \in Releases, \/ CreateRelease(r) \/ UploadArtifact(r) \/ Pause(r)
                                   \/ Resume(r) \/ RollbackRelease(r) \/ DeleteRelease(r)
        PROVE  UNCHANGED admin
    BY <2>1 DEF CreateRelease, UploadArtifact, Pause, SetPaused, Resume, RollbackRelease,
                DeleteRelease
  <2>2. ASSUME NEW a \in Attempts, Retry(a) PROVE UNCHANGED admin
    BY <2>2 DEF Retry, Requeue
  <2>3. ASSUME NEW i \in Instances, Approve(i) \/ Disable(i) PROVE UNCHANGED admin
    BY <2>3 DEF Approve, Disable
  <2>4. ASSUME NEW d \in Admins, \/ Publish(d) \/ AddTargets(d) \/ Promote(d)
                                 \/ RollbackInstance(d) \/ Reupgrade(d) \/ GiveUp(d)
        PROVE  \A e \in Admins : RequestMoves(e)
    BY <1>3, <2>4 DEF Publish, AddTargets, Promote, RollbackInstance, Reupgrade, GiveUp
  <2>5. ASSUME NEW d \in Admins, NEW r \in Releases, PreparePromote(d, r)
        PROVE  \A e \in Admins : RequestMoves(e)
    <3>1. {} \in SUBSET Instances
      OBVIOUS
    <3> QED BY <1>4, <2>5, <3>1
  <2> QED BY <1>1, <1>4, <1>5, <1>8, <2>1, <2>2, <2>3, <2>4, <2>5 DEF Console
<1>9. CASE AgentActions
  <2>1. UNCHANGED admin
    BY <1>9 DEF AgentActions, LookActive, LookCandidate, InsertAttempt, Deliver, DeliverTo,
                DropLook, TakeOffer, HandOff, FailTask, Install, Restore, Botch, AgentStep,
                RecordStatus, Register, Metrics
  <2> QED BY <1>1, <2>1
<1>10. CASE Background
  BY <1>1, <1>6, <1>10 DEF Background, BeginReconcile, ReconcileStep, QueueOne, QueuedAll,
                           CountActive, CountUnqueued, Close, Expire
<1> QED BY <1>7, <1>8, <1>9, <1>10 DEF Next

PreparedRequest(d) ==
  admin[d] # None =>
    /\ admin[d].op = "reupgrade" =>
         /\ admin[d].view \in [Instances -> Versions]
         /\ rollout[admin[d].rel] # "deleted" =>
              \A i \in admin[d].ids : WentBack(admin[d].rel, i)
    /\ admin[d].op = "rollback" =>
         /\ admin[d].parent \in Attempts /\ admin[d].parent < next
         /\ rollout[admin[d].rel] # "deleted" => admin[d].parent \in Rows
         /\ admin[d].parent \in Rows => /\ row[admin[d].parent].rel = admin[d].rel
                                        /\ row[admin[d].parent].op = "upgrade"

\* What a request read stays true until it runs.
LEMMA PreparedKept ==
  ASSUME IRows, [Next]_vars
  PROVE  Prepared'
<1> SUFFICES ASSUME NEW d \in Admins PROVE PreparedRequest(d)'
  BY DEF Prepared, PreparedRequest
<1>0. /\ admin \in [Admins -> Request \cup {None}]
      /\ version \in [Instances -> Versions]
      /\ PreparedRequest(d)
  BY DEF IRows, TypeOK, Origins, Prepared, PreparedRequest
<1>1. RequestMoves(d)
  BY RequestSteps
<1>2. CASE admin'[d] \in {None, admin[d]}
  <2> DEFINE q == admin[d]
             Back(r, j) ==
               \/ \E b \in Rows' : /\ row'[b].rel = r /\ row'[b].inst = j
                                   /\ row'[b].op = "rollback"
                                   /\ status'[b] = "rollback_succeeded"
               \/ {a \in Rows' : /\ row'[a].op = "upgrade" /\ row'[a].rel = r
                                 /\ row'[a].inst = j} \cap forgotten' # {}
  <2> SUFFICES ASSUME admin'[d] = q, q # None PROVE PreparedRequest(d)'
    BY <1>2 DEF PreparedRequest
  <2>1. q \in Request /\ q.rel \in Releases
    BY <1>0 DEF Request
  <2>2. rollout'[q.rel] # "deleted" => rollout[q.rel] # "deleted"
    BY <2>1, EndingStays
  <2>3. ASSUME q.op = "reupgrade"
        PROVE  /\ q.view \in [Instances -> Versions]
               /\ rollout'[q.rel] # "deleted" => \A i \in q.ids : Back(q.rel, i)
    <3>1. /\ q.view \in [Instances -> Versions]
          /\ rollout[q.rel] # "deleted" => \A i \in q.ids : WentBack(q.rel, i)
      BY <1>0, <2>3 DEF PreparedRequest
    <3>2. ASSUME rollout'[q.rel] # "deleted", NEW i \in q.ids
          PROVE  Back(q.rel, i)
      <4>1. WentBack(q.rel, i)
        BY <2>2, <3>1, <3>2
      <4>2. \A r \in Releases : \A j : WentBack(r, j) /\ rollout'[r] # "deleted" => Back(r, j)
        BY WentBackStays DEF WentBack, Upgrades
      <4> QED BY <2>1, <3>2, <4>1, <4>2
    <3> QED BY <3>1, <3>2
  <2>4. ASSUME q.op = "rollback"
        PROVE  /\ q.parent \in Attempts /\ q.parent < next'
               /\ rollout'[q.rel] # "deleted" => q.parent \in Rows'
               /\ q.parent \in Rows' => row'[q.parent].rel = q.rel /\ row'[q.parent].op = "upgrade"
    <3>1. /\ q.parent \in Attempts /\ q.parent < next
          /\ rollout[q.rel] # "deleted" => q.parent \in Rows
          /\ q.parent \in Rows => row[q.parent].rel = q.rel /\ row[q.parent].op = "upgrade"
      BY <1>0, <2>4 DEF PreparedRequest
    <3>2. /\ q.parent < next'
          /\ q.parent \in Rows' => q.parent \in Rows /\ row'[q.parent] = row[q.parent]
          /\ q.parent \in Rows /\ q.parent \notin Rows' => rollout'[row[q.parent].rel] = "deleted"
      BY <3>1, OldRows
    <3> QED BY <2>2, <3>1, <3>2
  <2> QED BY <2>3, <2>4 DEF PreparedRequest, WentBack, Upgrades
<1>3. CASE admin'[d].op \in {"publish", "add", "promote"}
  BY <1>3 DEF PreparedRequest
<1>4. ASSUME NEW r \in Releases, NEW i \in Instances, PrepareInstanceRollback(d, r, i)
      PROVE  PreparedRequest(d)'
  <2>1. PICK u \in LatestUpgrades(r) :
          Prepare(d, "rollback", r, {i}, [j \in Instances |-> None], u)
    BY <1>4 DEF PrepareInstanceRollback
  <2>2. admin'[d] = [op |-> "rollback", rel |-> r, ids |-> {i},
                     view |-> [j \in Instances |-> None], parent |-> u]
    BY <1>0, <2>1 DEF Prepare
  <2>3. admin'[d].op = "rollback" /\ admin'[d].parent = u /\ admin'[d].rel = r
    BY <2>2
  <2>4. u \in Rows /\ row[u].rel = r /\ row[u].op = "upgrade"
    BY DEF LatestUpgrades, Succeeded, Upgrades
  <2>5. u \in Attempts /\ u < next
    BY <2>4, AttemptTypes DEF IRows
  <2>6. UNCHANGED <<row, next>>
    BY <2>1 DEF Prepare, attempts
  <2>7. Rows' = Rows
    BY <2>6 DEF Rows
  <2> QED BY <2>3, <2>4, <2>5, <2>6, <2>7 DEF PreparedRequest
<1>5. ASSUME NEW r \in Releases, NEW i \in Instances, PrepareReupgrade(d, r, i)
      PROVE  PreparedRequest(d)'
  <2>1. WentBack(r, i) /\ Prepare(d, "reupgrade", r, {i}, version, None)
    BY <1>5 DEF PrepareReupgrade, WentBack
  <2>2. admin'[d] = [op |-> "reupgrade", rel |-> r, ids |-> {i},
                     view |-> version, parent |-> None]
    BY <1>0, <2>1 DEF Prepare
  <2>3. /\ admin'[d].op = "reupgrade" /\ admin'[d].view = version
        /\ admin'[d].rel = r /\ admin'[d].ids = {i}
    BY <2>2
  <2>4. UNCHANGED <<row, status, forgotten>>
    BY <2>1 DEF Prepare, attempts, releases
  <2>5. WentBack(r, i)'
    BY <2>1, <2>4 DEF WentBack, Rows, Upgrades
  <2>6. \A j \in admin'[d].ids : j = i
    BY <2>3
  <2>7. \A j \in admin'[d].ids : WentBack(admin[d].rel, j)'
    BY <2>3, <2>5, <2>6 DEF WentBack, Upgrades
  <2> QED BY <1>0, <2>3, <2>7 DEF PreparedRequest
<1> QED BY <1>1, <1>2, <1>3, <1>4, <1>5 DEF RequestMoves

\* The invariant of attempts and requests, for every run.
LEMMA RowsInvariant == Spec => []IRows
<1>1. Init => IRows
  <2>1. ASSUME Init PROVE IControl /\ IAttempts
    BY <2>1, ControlInit DEF Init, IAttempts, AttemptShape, Copies, Shapes, Requests
  <2>2. ASSUME Init PROVE TypeOK
    <3>1. 0 \in Versions /\ 0 \in Nat /\ 0 \in 0..MaxRetry /\ 1 \in 1..(MaxAttempts + 1)
      BY BoundAssumption DEF Versions
    <3>2. "absent" \in States /\ "none" \in TargetState
      BY DEF States, Missing, TargetState
    <3> QED BY <2>2, <3>1, <3>2 DEF Init, TypeOK
  <2>3. ASSUME Init PROVE Origins
    BY <2>3 DEF Init, Origins, Prepared, Rollbacks, Todo, Directions, Rows
  <2> QED BY <2>1, <2>2, <2>3 DEF IRows
<1>2. IRows /\ [Next]_vars => IRows'
  <2> SUFFICES ASSUME IRows, [Next]_vars PROVE IRows'
    OBVIOUS
  <2>1. IControl' /\ IAttempts'
    BY StepIsControl, ControlKeeps, StepOrderly, CopiesKept, RequestsStep
       DEF IRows, IAttempts, Orderly
  <2>2. Origins'
    BY PreparedKept, RollbacksKept, TodoKept, DirectionsKept DEF Origins
  <2> QED BY <2>1, <2>2, TypesKept DEF IRows
<1> QED BY <1>1, <1>2, PTL DEF Spec

\* Whatever was read before the transaction that inserts it, an instance gets
\* a second upgrade to a release only after it was rolled back from it:
\* publishing, batches, promotion and an agent that asks look for an earlier
\* one when they insert, and what a second upgrade asked for was rolled back
\* stays rolled back.
THEOREM NoSecondUpgrade == Spec => SecondUpgradeAfterRollback
<1>1. IRows /\ [Next]_vars =>
        [\A a \in Attempts :
           (row[a] = None /\ row'[a] # None /\ row'[a].op = "upgrade") =>
             LET r == row'[a].rel
                 i == row'[a].inst
             IN  Upgrades(r, i) # {} => WentBack(r, i)]_vars
  <2> SUFFICES ASSUME IRows, [Next]_vars, NEW a \in Attempts,
                      row[a] = None, row'[a] # None, row'[a].op = "upgrade",
                      Upgrades(row'[a].rel, row'[a].inst) # {}
               PROVE  WentBack(row'[a].rel, row'[a].inst)
    OBVIOUS
  <2>1. a \in Attempts \ Rows
    BY DEF Rows
  <2>2. Fresh(a)
    BY <2>1, StepMoves DEF RowsMove
  <2> QED BY <2>2 DEF Fresh
<1> QED BY <1>1, RowsInvariant, PTL DEF Spec, SecondUpgradeAfterRollback

-----------------------------------------------------------------------------
(***************************************************************************)
(* The end of a rollback.  Once a reconciliation has seen that a release   *)
(* has no attempt under way, its upgrades and their rollbacks stay as they *)
(* are, or the release is marked as overtaken.                             *)
(***************************************************************************)
Closed ==
  \A r \in Releases \ overtaken : Closing(r) => RowsOf(r) \cap ActiveRows = {}
Counted ==
  \A r \in Releases \ overtaken : \A k \in Reconcilers :
    At(k, "close") /\ recon[k].rel = r /\ rollout[r] # "deleted" => Unqueued(r) = {}
Undone(r) ==
  /\ \A a \in RowsOf(r) \cap ActiveRows : row[a].op = "rollback"
  /\ \A u \in LatestUpgrades(r) :
       (\E a \in RollbacksOf(u) : status[a] = "rollback_succeeded") \/ u \in forgotten
IBack ==
  /\ \A k \in Reconcilers : recon[k] # None => rollout[recon[k].rel] \in Ending
  /\ Closed
  /\ Counted
  /\ \A r \in Releases \ overtaken : rollout[r] = "rolled_back" => Undone(r)

\* What has become of an attempt of a release that is settled, or about to be.
RowSettled(a, r) ==
  /\ row[a].op = "upgrade" => /\ a \in Rows' /\ row'[a] = row[a]
                              /\ status'[a] = status[a] /\ stamp'[a] = stamp[a]
  /\ row[a].op = "rollback" =>
       \/ /\ a \in Rows' /\ row'[a] = row[a]
          /\ status[a] = "rollback_succeeded" => status'[a] = status[a]
       \/ ~Closing(r) /\ (status[a] = "rollback_succeeded" => row[a].parent \in forgotten')

\* Its upgrades stay as they are, and its rollbacks stay or are remembered.
LEMMA SettledRows ==
  ASSUME IRows, [Next]_vars, NEW r \in Releases, r \notin overtaken', rollout[r] \in Ending,
         Closing(r) \/ rollout[r] = "rolled_back",
         \A a \in RowsOf(r) \cap ActiveRows : row[a].op = "rollback",
         NEW a \in Attempts
  PROVE  /\ a \in Rows' /\ row'[a].rel = r /\ row'[a].op = "upgrade" =>
              a \in Rows /\ row[a] = row'[a]
         /\ a \in Rows /\ row[a].rel = r /\ rollout'[r] # "deleted" => RowSettled(a, r)
<1>1. RowsMove
  BY StepMoves
<1>2. ASSUME a \in Rows', row'[a].rel = r, row'[a].op = "upgrade"
      PROVE  a \in Rows /\ row[a] = row'[a]
  <2>1. row'[a] # None
    BY <1>2 DEF Rows
  <2>2. a \notin Rows => Fresh(a)
    BY <1>1, <2>1 DEF RowsMove
  <2>3. ~Fresh(a)
    BY <1>2 DEF Fresh
  <2>4. a \in Rows
    BY <2>2, <2>3
  <2> QED BY <1>1, <2>1, <2>4 DEF RowsMove, Gone
<1>3. ASSUME a \in Rows, row[a].rel = r, rollout'[r] # "deleted"
      PROVE  RowSettled(a, r)
  <2>1. CASE row'[a] = row[a] /\ Kept(a)
    <3>1. a \in Rows'
      BY <1>3, <2>1 DEF Rows
    <3>2. status[a] \in Active => row[a].op = "rollback"
      BY <1>3 DEF RowsOf, ActiveRows
    <3>3. row[a].op = "upgrade" => status'[a] = status[a] /\ stamp'[a] = stamp[a]
      BY <1>3, <2>1, <3>2 DEF Kept
    <3>4. status[a] = "rollback_succeeded" /\ row[a].op = "rollback" => status'[a] = status[a]
      BY <2>1 DEF Kept
    <3> QED BY <2>1, <3>1, <3>3, <3>4 DEF RowSettled
  <2>2. CASE Gone(a)
    BY <1>3, <2>2 DEF Gone, RowSettled
  <2> QED BY <1>1, <1>3, <2>1, <2>2 DEF RowsMove
<1> QED BY <1>2, <1>3

\* So do those it achieved last.
LEMMA SettledUpgrades ==
  ASSUME IRows, [Next]_vars, NEW r \in Releases, r \notin overtaken', rollout[r] \in Ending,
         Closing(r) \/ rollout[r] = "rolled_back", rollout'[r] # "deleted",
         \A a \in RowsOf(r) \cap ActiveRows : row[a].op = "rollback",
         NEW u \in LatestUpgrades(r)'
  PROVE  /\ u \in LatestUpgrades(r)
         /\ \A a \in RollbacksOf(u) :
              \/ /\ a \in RollbacksOf(u)'
                 /\ status[a] = "rollback_succeeded" => status'[a] = "rollback_succeeded"
              \/ ~Closing(r) /\ (status[a] = "rollback_succeeded" => u \in forgotten')
<1>1. /\ u \in Rows' /\ row'[u].rel = r /\ row'[u].op = "upgrade" /\ status'[u] = "succeeded"
      /\ \A b \in Rows' : /\ row'[b].op = "upgrade" /\ row'[b].rel = r
                          /\ row'[b].inst = row'[u].inst /\ status'[b] = "succeeded"
                          => stamp'[b] <= stamp'[u]
  BY DEF LatestUpgrades, Succeeded, Upgrades
<1>2. /\ u \in Attempts /\ u \in Rows /\ row[u] = row'[u] /\ status[u] = "succeeded"
      /\ stamp'[u] = stamp[u]
  <2>1. u \in Attempts
    BY <1>1 DEF Rows
  <2> QED BY <1>1, <2>1, SettledRows DEF RowSettled
<1>3. ASSUME NEW b \in Rows, row[b].op = "upgrade", row[b].rel = r,
             row[b].inst = row[u].inst, status[b] = "succeeded"
      PROVE  stamp[b] <= stamp[u]
  <2>1. b \in Attempts
    BY DEF Rows
  <2>2. b \in Rows' /\ row'[b] = row[b] /\ status'[b] = status[b] /\ stamp'[b] = stamp[b]
    BY <1>3, <2>1, SettledRows DEF RowSettled
  <2> QED BY <1>1, <1>2, <1>3, <2>2
<1>4. u \in LatestUpgrades(r)
  BY <1>1, <1>2, <1>3 DEF LatestUpgrades, Succeeded, Upgrades
<1>5. ASSUME NEW a \in RollbacksOf(u)
      PROVE  \/ /\ a \in RollbacksOf(u)'
                /\ status[a] = "rollback_succeeded" => status'[a] = "rollback_succeeded"
             \/ ~Closing(r) /\ (status[a] = "rollback_succeeded" => u \in forgotten')
  <2>1. a \in Attempts /\ a \in Rows /\ row[a].op = "rollback" /\ row[a].parent = u
    BY DEF RollbacksOf, Rows
  <2>2. row[a].rel = r
    BY <1>1, <1>2, <2>1 DEF IRows, Origins, Rollbacks, Undoes
  <2>3. \/ /\ a \in Rows' /\ row'[a] = row[a]
           /\ status[a] = "rollback_succeeded" => status'[a] = status[a]
        \/ ~Closing(r) /\ (status[a] = "rollback_succeeded" => u \in forgotten')
    BY <2>1, <2>2, SettledRows DEF RowSettled
  <2> QED BY <2>1, <2>3 DEF RollbacksOf
<1> QED BY <1>4, <1>5

\* Only the end of a reconciliation says that a release is rolled back, and
\* only the console deletes one.
LEMMA WhoEnds ==
  ASSUME IRows, [Next]_vars, NEW r \in Releases, rollout'[r] # rollout[r],
         rollout'[r] \in {"rolled_back", "deleted"}
  PROVE  \/ DeleteRelease(r)
         \/ \E k \in Reconcilers : Close(k) /\ recon[k].rel = r
<1>0. rollout \in [Releases -> States]
  BY DEF IRows, TypeOK
<1>1. ASSUME NEW s \in Releases, NEW v, rollout' = [rollout EXCEPT ![s] = v],
             v \notin {"rolled_back", "deleted"}
      PROVE  FALSE
  BY <1>0, <1>1
<1>2. ~UNCHANGED rollout
  OBVIOUS
<1>3. CASE UNCHANGED vars
  BY <1>2, <1>3 DEF vars, releases
<1>4. CASE Console
  <2>1. ASSUME NEW s \in Releases, CreateRelease(s) \/ Pause(s) \/ Resume(s)
                                   \/ RollbackRelease(s)
        PROVE  FALSE
    <3>1. \E v : /\ rollout' = [rollout EXCEPT ![s] = v]
                 /\ v \notin {"rolled_back", "deleted"}
      <4>1. CreateRelease(s) => rollout' = [rollout EXCEPT ![s] = "draft"]
        BY DEF CreateRelease, SetRollout
      <4>2. RollbackRelease(s) => rollout' = [rollout EXCEPT ![s] = "rollback_active"]
        BY DEF RollbackRelease, SetRollout
      <4>3. Pause(s) => rollout' = [rollout EXCEPT ![s] =
              IF rollout[s] = "canary_active" THEN "canary_paused" ELSE "full_paused"]
        BY DEF Pause, SetPaused, SetRollout
      <4>4. Resume(s) => rollout' = [rollout EXCEPT ![s] =
              IF rollout[s] = "canary_paused" THEN "canary_active" ELSE "full_active"]
        BY DEF Resume, SetRollout
      <4> QED BY <2>1, <4>1, <4>2, <4>3, <4>4
    <3> QED BY <1>1, <3>1
  <2>2. ASSUME NEW s \in Releases, UploadArtifact(s) PROVE FALSE
    BY <1>2, <2>2 DEF UploadArtifact
  <2>3. ASSUME NEW a \in Attempts, Retry(a) PROVE FALSE
    <3>1. row[a].rel \in Releases
      BY <2>3 DEF Retry, Rows, IRows, TypeOK, Row
    <3>2. UNCHANGED rollout \/ rollout' = [rollout EXCEPT ![row[a].rel] = "rollback_active"]
      BY <2>3 DEF Retry, Requeue, SetRollout
    <3> QED BY <1>0, <1>2, <3>1, <3>2
  <2>4. ASSUME NEW i \in Instances, Approve(i) \/ Disable(i) PROVE FALSE
    BY <1>2, <2>4 DEF Approve, Disable, releases
  <2>5. ASSUME NEW d \in Admins, Publish(d) \/ Promote(d) PROVE FALSE
    <3>1. admin[d] \in Request
      BY <2>5 DEF Publish, Promote, IRows, TypeOK
    <3>2. admin[d].rel \in Releases
      BY <3>1 DEF Request
    <3>3. ASSUME Publish(d) PROVE FALSE
      <4>1. /\ rollout[admin[d].rel] # "rolled_back"
            /\ \/ rollout' = [rollout EXCEPT ![admin[d].rel] = "canary_active"]
               \/ rollout' = [rollout EXCEPT ![admin[d].rel] = rollout[admin[d].rel]]
        BY <3>3 DEF Publish, SetRollout, Withdrawn
      <4>2. rollout'[r] = "canary_active" \/ rollout'[r] = rollout[r]
        BY <1>0, <3>2, <4>1
      <4> QED BY <4>2
    <3>4. ASSUME Promote(d) PROVE FALSE
      <4>1. rollout' = [rollout EXCEPT ![admin[d].rel] =
              IF rollout[admin[d].rel] = "canary_active" THEN "full_active" ELSE "full_paused"]
        BY <3>4 DEF Promote, SetRollout
      <4> QED BY <1>0, <3>2, <4>1
    <3> QED BY <2>5, <3>3, <3>4
  <2>6. ASSUME NEW d \in Admins, AddTargets(d) \/ RollbackInstance(d) \/ Reupgrade(d) \/ GiveUp(d)
        PROVE  FALSE
    BY <1>2, <2>6 DEF AddTargets, RollbackInstance, Reupgrade, GiveUp, releases
  <2>7. ASSUME NEW d \in Admins, NEW s \in Releases,
               \/ \E ids \in SUBSET Instances : PreparePublish(d, s, ids) \/ PrepareAdd(d, s, ids)
               \/ PreparePromote(d, s)
               \/ \E i \in Instances : \/ PrepareInstanceRollback(d, s, i)
                                       \/ PrepareReupgrade(d, s, i)
        PROVE  FALSE
    BY <1>2, <2>7 DEF Prepare, PreparePublish, PrepareAdd, PreparePromote,
                PrepareInstanceRollback, PrepareReupgrade, releases
  <2>8. ASSUME NEW s \in Releases, DeleteRelease(s) PROVE s = r
    <3>1. rollout' = [rollout EXCEPT ![s] = "deleted"]
      BY <2>8 DEF DeleteRelease, DeleteRows, DeleteWithout, SetRollout
    <3> QED BY <1>0, <3>1
  <2> QED BY <1>4, <2>1, <2>2, <2>3, <2>4, <2>5, <2>6, <2>7, <2>8 DEF Console
<1>5. CASE AgentActions
  <2>1. UNCHANGED rollout
    BY <1>5 DEF AgentActions, LookActive, LookCandidate, InsertAttempt, Deliver, DeliverTo,
                DropLook, TakeOffer, HandOff, FailTask, Install, Restore, Botch, AgentStep,
                RecordStatus, Register, Metrics, releases
  <2> QED BY <1>2, <2>1
<1>6. CASE Background
  <2>1. ASSUME NEW k \in Reconcilers, NEW s \in Releases, BeginReconcile(k, s) PROVE FALSE
    BY <1>2, <2>1 DEF BeginReconcile, releases
  <2>2. ASSUME NEW k \in Reconcilers, NEW u \in Attempts, QueueOne(k, u) PROVE FALSE
    BY <1>2, <2>2 DEF QueueOne, releases
  <2>3. ASSUME NEW k \in Reconcilers, QueuedAll(k) \/ CountActive(k) \/ CountUnqueued(k)
        PROVE  FALSE
    BY <1>2, <2>3 DEF QueuedAll, CountActive, CountUnqueued, releases
  <2>4. ASSUME NEW k \in Reconcilers, Close(k) PROVE recon[k].rel = r
    <3>1. recon[k] \in Recon
      BY <2>4 DEF Close, At, IRows, TypeOK
    <3>2. recon[k].rel \in Releases
      BY <3>1 DEF Recon
    <3>3. \E v : rollout' = [rollout EXCEPT ![recon[k].rel] = v]
      BY <1>2, <2>4 DEF Close, SetRollout
    <3> QED BY <1>0, <3>2, <3>3
  <2>5. ASSUME NEW a \in Attempts, Expire(a) PROVE FALSE
    BY <1>2, <2>5 DEF Expire, releases
  <2>6. ~RestartBackend
    BY <1>2 DEF RestartBackend, releases
  <2> QED BY <1>6, <2>1, <2>2, <2>3, <2>4, <2>5, <2>6 DEF Background, ReconcileStep
<1> QED BY <1>3, <1>4, <1>5, <1>6 DEF Next

\* Hence who says that a release is rolled back ...
LEMMA OnlyCloseSettles ==
  ASSUME IRows, [Next]_vars, NEW r \in Releases,
         rollout[r] # "rolled_back", rollout'[r] = "rolled_back"
  PROVE  \E k \in Reconcilers : Close(k) /\ recon[k].rel = r
<1>1. DeleteRelease(r) => rollout'[r] = "deleted"
  BY DEF DeleteRelease, DeleteRows, DeleteWithout, SetRollout, IRows, TypeOK
<1> QED BY <1>1, WhoEnds

\* ... and who deletes one.
LEMMA OnlyDeleteDeletes ==
  ASSUME IRows, [Next]_vars, NEW r \in Releases,
         rollout[r] # "deleted", rollout'[r] = "deleted"
  PROVE  DeleteRelease(r)
<1>1. ASSUME NEW k \in Reconcilers, Close(k), recon[k].rel = r PROVE FALSE
  <2>1. rollout' = rollout \/ \E v \in {"rolled_back", "rollback_partial"} :
                                rollout' = [rollout EXCEPT ![r] = v]
    BY <1>1 DEF Close, SetRollout
  <2> QED BY <2>1 DEF IRows, TypeOK
<1> QED BY <1>1, WhoEnds

\* Having counted no attempt under way, a reconciliation has none behind its
\* back but those that mark the release.
LEMMA ClosedKept ==
  ASSUME IRows, IBack, [Next]_vars
  PROVE  Closed'
<1> SUFFICES ASSUME NEW r \in Releases, r \notin overtaken', NEW k \in Reconcilers,
                    recon'[k] # None, recon'[k].rel = r,
                    recon'[k].step \in {"unqueued", "close"},
                    NEW a \in Rows', row'[a].rel = r
             PROVE  status'[a] \notin Active
  BY DEF Closed, Closing, RowsOf, ActiveRows
<1>1. ReconMoves(k) /\ r \notin overtaken
  BY ReconSteps, OvertakenGrows DEF Grows
<1>2. recon[k] # None => recon[k] \in Recon
  BY DEF IRows, TypeOK
<1>3. CASE Closing(r)
  <2>1. PICK j \in Reconcilers : recon[j] # None /\ recon[j].rel = r
    BY <1>3 DEF Closing
  <2>2. rollout[r] \in Ending
    BY <2>1 DEF IBack
  <2>3. \A b \in Rows : row[b].rel = r => status[b] \notin Active
    BY <1>1, <1>3 DEF IBack, Closed, RowsOf, ActiveRows
  <2>4. a \in Attempts /\ row'[a] # None
    BY DEF Rows
  <2>5. RowsMove
    BY StepMoves
  <2>6. a \notin Rows => Fresh(a)
    BY <2>4, <2>5 DEF RowsMove
  <2>7. a \in Rows
    BY <1>3, <2>2, <2>6 DEF Fresh
  <2>8. row'[a] = row[a] /\ Kept(a)
    BY <2>4, <2>5, <2>7 DEF RowsMove, Gone
  <2>9. status'[a] = status[a]
    BY <1>3, <2>3, <2>7, <2>8 DEF Kept
  <2> QED BY <2>3, <2>7, <2>8, <2>9
<1>4. ASSUME ~Closing(r), CountActive(k), RowsOf(recon[k].rel) \cap ActiveRows = {},
             GoTo(k, "unqueued")
      PROVE  status'[a] \notin Active
  <2>1. recon[k] \in Recon /\ recon'[k] = [recon[k] EXCEPT !.step = "unqueued"]
    BY <1>2, <1>4 DEF CountActive, At, GoTo, IRows, TypeOK
  <2>2. recon[k].rel = r
    BY <2>1 DEF Recon
  <2>3. UNCHANGED <<row, status>>
    BY <1>4 DEF CountActive, attempts
  <2>4. a \in Rows
    BY <2>3 DEF Rows
  <2> QED BY <1>4, <2>2, <2>3, <2>4 DEF RowsOf, ActiveRows
<1>5. ASSUME CountUnqueued(k), GoTo(k, "close")
      PROVE  Closing(r)
  <2>1. recon[k] \in Recon /\ recon'[k] = [recon[k] EXCEPT !.step = "close"]
    BY <1>2, <1>5 DEF CountUnqueued, At, GoTo, IRows, TypeOK
  <2>2. recon[k].rel = r /\ recon[k].step = "unqueued" /\ recon[k] # None
    BY <1>5, <2>1 DEF Recon, CountUnqueued, At
  <2> QED BY <2>2 DEF Closing
<1>6. ASSUME NEW s \in Releases, BeginReconcile(k, s)
      PROVE  FALSE
  <2>1. recon'[k] = [step |-> "queue", rel |-> s, todo |-> LatestUpgrades(s)]
    BY <1>6 DEF BeginReconcile, IRows, TypeOK
  <2>2. recon'[k].step = "queue"
    BY <2>1
  <2> QED BY <2>2
<1>7. recon'[k] \in {None, recon[k]} => Closing(r)
  BY DEF Closing
<1> QED BY <1>1, <1>3, <1>4, <1>5, <1>6, <1>7 DEF ReconMoves

\* Having counted no upgrade without a rollback, it has none later on.
LEMMA CountedKept ==
  ASSUME IRows, IBack, [Next]_vars
  PROVE  Counted'
<1> SUFFICES ASSUME NEW r \in Releases, r \notin overtaken', NEW k \in Reconcilers,
                    recon'[k] # None, recon'[k].step = "close", recon'[k].rel = r,
                    rollout'[r] # "deleted", NEW u \in LatestUpgrades(r)'
             PROVE  \E a \in Rows' : row'[a].op = "rollback" /\ row'[a].parent = u
  BY DEF Counted, Unqueued, RollbacksOf, At
<1>1. ReconMoves(k) /\ r \notin overtaken /\ rollout[r] # "deleted"
  BY ReconSteps, OvertakenGrows, EndingStays DEF Grows
<1>2. recon[k] # None => recon[k] \in Recon
  BY DEF IRows, TypeOK
<1>3. CASE recon'[k] = recon[k]
  <2>1. Closing(r) /\ rollout[r] \in Ending
    BY <1>3 DEF Closing, IBack
  <2>2. RowsOf(r) \cap ActiveRows = {}
    BY <1>1, <2>1 DEF IBack, Closed
  <2>3. Unqueued(r) = {}
    BY <1>1, <1>3 DEF IBack, Counted, At
  <2>4. u \in LatestUpgrades(r) /\ \A a \in RollbacksOf(u) : a \in RollbacksOf(u)'
    BY <2>1, <2>2, SettledUpgrades
  <2>5. PICK a \in RollbacksOf(u) : TRUE
    BY <2>3, <2>4 DEF Unqueued
  <2>6. a \in RollbacksOf(u)'
    BY <2>4, <2>5
  <2> QED BY <2>6 DEF RollbacksOf
<1>4. ASSUME CountUnqueued(k), Unqueued(recon[k].rel) = {}, GoTo(k, "close")
      PROVE  \E a \in Rows' : row'[a].op = "rollback" /\ row'[a].parent = u
  <2>1. recon[k] \in Recon /\ recon'[k] = [recon[k] EXCEPT !.step = "close"]
    BY <1>2, <1>4 DEF CountUnqueued, At, GoTo, IRows, TypeOK
  <2>2. recon[k].rel = r
    BY <2>1 DEF Recon
  <2>3. UNCHANGED <<row, status, stamp>>
    BY <1>4 DEF CountUnqueued, attempts
  <2>4. u \in LatestUpgrades(r)
    BY <2>3 DEF LatestUpgrades, Succeeded, Upgrades, Rows
  <2>5. PICK a \in RollbacksOf(u) : TRUE
    BY <1>4, <2>2, <2>4 DEF Unqueued
  <2> QED BY <2>3, <2>5 DEF RollbacksOf, Rows
<1>5. ASSUME CountActive(k), GoTo(k, "unqueued")
      PROVE  FALSE
  <2>1. recon[k] \in Recon /\ recon'[k] = [recon[k] EXCEPT !.step = "unqueued"]
    BY <1>2, <1>5 DEF CountActive, At, GoTo, IRows, TypeOK
  <2> QED BY <2>1 DEF Recon
<1>6. ASSUME NEW s \in Releases, BeginReconcile(k, s)
      PROVE  FALSE
  <2>1. recon'[k] = [step |-> "queue", rel |-> s, todo |-> LatestUpgrades(s)]
    BY <1>6 DEF BeginReconcile, IRows, TypeOK
  <2>2. recon'[k].step = "queue"
    BY <2>1
  <2> QED BY <2>2
<1> QED BY <1>1, <1>3, <1>4, <1>5, <1>6 DEF ReconMoves

\* A rollback that has been closed without a failure has undone everything,
\* and what is undone stays so.
LEMMA UndoneKept ==
  ASSUME IRows, IBack, [Next]_vars, NEW r \in Releases, r \notin overtaken',
         rollout'[r] = "rolled_back"
  PROVE  Undone(r)'
<1>1. r \notin overtaken
  BY OvertakenGrows DEF Grows
<1>2. CASE rollout[r] = "rolled_back"
  <2>1. Undone(r) /\ rollout[r] \in Ending
    BY <1>1, <1>2 DEF IBack, Ending, Withdrawn
  <2>2. \A a \in RowsOf(r) \cap ActiveRows : row[a].op = "rollback"
    BY <2>1 DEF Undone
  <2>3. ASSUME NEW a \in Rows', row'[a].rel = r, status'[a] \in Active
        PROVE  row'[a].op = "rollback"
    <3>1. a \in Attempts /\ row'[a] # None
      BY <2>3 DEF Rows
    <3>2. RowsMove
      BY StepMoves
    <3>3. CASE a \in Rows
      <4>1. row'[a] = row[a] /\ Kept(a)
        BY <3>1, <3>2, <3>3 DEF RowsMove, Gone
      <4>2. status[a] \in Active
        BY <1>2, <2>3, <4>1 DEF Kept
      <4> QED BY <2>2, <2>3, <3>3, <4>1, <4>2 DEF RowsOf, ActiveRows
    <3>4. CASE a \notin Rows
      <4>1. Fresh(a)
        BY <3>1, <3>2, <3>4 DEF RowsMove
      <4>2. row'[a].op # "upgrade" /\ row'[a] \in Row
        BY <1>2, <2>1, <2>3, <4>1 DEF Fresh
      <4> QED BY <4>2 DEF Row
    <3> QED BY <3>3, <3>4
  <2>4. ASSUME NEW u \in LatestUpgrades(r)'
        PROVE  \/ \E a \in RollbacksOf(u)' : status'[a] = "rollback_succeeded"
               \/ u \in forgotten'
    <3>1. /\ u \in LatestUpgrades(r)
          /\ \A a \in RollbacksOf(u) :
               status[a] = "rollback_succeeded" =>
                 \/ a \in RollbacksOf(u)' /\ status'[a] = "rollback_succeeded"
                 \/ u \in forgotten'
      BY <1>2, <2>1, <2>2, SettledUpgrades
    <3>2. (\E a \in RollbacksOf(u) : status[a] = "rollback_succeeded") \/ u \in forgotten
      BY <2>1, <3>1 DEF Undone
    <3> QED BY <3>1, <3>2, ForgottenGrows
  <2> QED BY <2>3, <2>4 DEF Undone, RowsOf, ActiveRows
<1>3. CASE rollout[r] # "rolled_back"
  <2>1. PICK k \in Reconcilers : Close(k) /\ recon[k].rel = r
    BY <1>3, OnlyCloseSettles
  <2>2. /\ At(k, "close") /\ UNCHANGED <<row, status, stamp, forgotten>>
        /\ rollout' = rollout \/ rollout[r] = "rollback_active"
    BY <2>1 DEF Close, attempts
  <2>3. rollout[r] = "rollback_active" /\ FailedRollbacks(r) = {}
    <3>1. rollout[r] = "rollback_active"
      BY <1>3, <2>2
    <3>2. rollout' = [rollout EXCEPT ![r] =
             IF FailedRollbacks(r) = {} THEN "rolled_back" ELSE "rollback_partial"]
      BY <2>1, <3>1 DEF Close, SetRollout
    <3>3. rollout'[r] = IF FailedRollbacks(r) = {} THEN "rolled_back" ELSE "rollback_partial"
      BY <3>2 DEF IRows, TypeOK
    <3> QED BY <3>1, <3>3
  <2>4. RowsOf(r) \cap ActiveRows = {} /\ Unqueued(r) = {}
    BY <1>1, <2>1, <2>2, <2>3 DEF IBack, Closed, Counted, Closing, At
  <2>5. ASSUME NEW u \in LatestUpgrades(r)
        PROVE  \E a \in RollbacksOf(u) : status[a] = "rollback_succeeded"
    <3>1. PICK a \in RollbacksOf(u) : TRUE
      BY <2>4, <2>5 DEF Unqueued
    <3>2. /\ u \in Rows /\ row[u].rel = r
          /\ a \in Rows /\ row[a].op = "rollback" /\ row[a].parent = u
      BY <2>5 DEF RollbacksOf, LatestUpgrades, Succeeded, Upgrades
    <3>3. row[a].rel = r /\ status[a] \in RollbackStates
      BY <3>2 DEF IRows, Origins, Rollbacks, Undoes
    <3>4. status[a] \notin Active /\ status[a] # "failed"
      BY <2>3, <2>4, <3>2, <3>3 DEF RowsOf, ActiveRows, FailedRollbacks
    <3> QED BY <3>3, <3>4 DEF RollbackStates
  <2>6. Undone(r)
    BY <2>4, <2>5 DEF Undone
  <2> QED BY <2>2, <2>6 DEF Undone, RowsOf, ActiveRows, LatestUpgrades, Succeeded,
                            Upgrades, RollbacksOf, Rows
<1> QED BY <1>2, <1>3

\* The invariant of reconciliations and settled releases, for every run.
LEMMA BackInvariant == Spec => [](IRows /\ IBack)
<1>1. Init => IBack
  <2>1. ASSUME Init PROVE \A k \in Reconcilers : recon[k] = None
    BY <2>1 DEF Init
  <2>2. ASSUME Init PROVE \A r \in Releases : rollout[r] # "rolled_back"
    BY <2>2 DEF Init
  <2> QED BY <2>1, <2>2 DEF IBack, Closed, Counted, Closing, At
<1>2. IRows /\ IBack /\ [Next]_vars => IBack'
  <2> SUFFICES ASSUME IRows, IBack, [Next]_vars PROVE IBack'
    OBVIOUS
  <2>1. ASSUME NEW k \in Reconcilers, recon'[k] # None
        PROVE  rollout'[recon'[k].rel] \in Ending
    <3>1. ReconMoves(k)
      BY ReconSteps
    <3>2. recon[k] # None => recon[k] \in Recon
      BY DEF IRows, TypeOK
    <3>3. CASE recon[k] # None /\ recon'[k].rel = recon[k].rel
      <4>1. recon[k].rel \in Releases /\ rollout[recon[k].rel] \in Ending
        BY <3>2, <3>3 DEF Recon, IBack
      <4> QED BY <3>3, <4>1, EndingStays
    <3>4. ASSUME NEW s, recon[k] # None, GoTo(k, s)
          PROVE  recon'[k].rel = recon[k].rel
      <4>1. recon[k] \in Recon /\ recon'[k] = [recon[k] EXCEPT !.step = s]
        BY <3>2, <3>4 DEF GoTo, IRows, TypeOK
      <4> QED BY <4>1 DEF Recon
    <3>5. CountActive(k) \/ CountUnqueued(k) => recon[k] # None
      BY DEF CountActive, CountUnqueued, At
    <3>6. ASSUME NEW r \in Releases, BeginReconcile(k, r)
          PROVE  rollout'[recon'[k].rel] \in Ending
      <4>1. recon'[k] = [step |-> "queue", rel |-> r, todo |-> LatestUpgrades(r)]
        BY <3>6 DEF BeginReconcile, IRows, TypeOK
      <4>2. recon'[k].rel = r /\ rollout'[r] = "rollback_active"
        BY <3>6, <4>1 DEF BeginReconcile, releases
      <4> QED BY <4>2 DEF Ending, Withdrawn
    <3> QED BY <2>1, <3>1, <3>3, <3>4, <3>5, <3>6 DEF ReconMoves
  <2> QED BY <2>1, ClosedKept, CountedKept, UndoneKept DEF IBack
<1>3. IRows /\ IBack /\ [Next]_vars /\ IRows' => (IRows /\ IBack)'
  BY <1>2
<1> QED BY <1>1, <1>3, RowsInvariant, PTL DEF Spec

\* A release is said to be rolled back only when it is: whatever the number
\* of releases, instances and reconciliations, every upgrade it achieved last
\* has been undone, unless an attempt came in between the counts of the
\* reconciliation that said so; and nothing that happens later brings one back:
\* a rollback whose record is deleted with the version it returned to is remembered.
THEOREM RolledBackStaysBack == Spec => []RolledBackIsBack
<1>1. IRows /\ IBack => RolledBackIsBack
  BY DEF IRows, IBack, Undone, RolledBackIsBack
<1> QED BY <1>1, BackInvariant, PTL

\* Deleting a release takes away the packages of that release only.
LEMMA PackagesLeft ==
  ASSUME IRows, NEW r \in Releases, DeleteRelease(r), NEW i \in Instances, NEW v, HasPackage(i, v),
         v # r \/ baseline[i] = v
  PROVE  HasPackage(i, v)'
<1>1. rollout' = [rollout EXCEPT ![r] = "deleted"] /\ UNCHANGED baseline
  BY DEF DeleteRelease, DeleteRows, DeleteWithout, SetRollout, columns
<1>2. \A s \in Releases \ {r} : rollout'[s] = rollout[s]
  BY <1>1 DEF IRows, TypeOK
<1>3. CASE baseline[i] = v
  BY <1>1, <1>3 DEF HasPackage
<1>4. CASE v # r /\ Published(v)
  BY <1>2, <1>4 DEF HasPackage, Published
<1> QED BY <1>3, <1>4 DEF HasPackage

\* Whatever the releases, instances and attempts, deleting a release takes
\* the way back from no instance that had one, and the package from no
\* rollback under way: delete_agent_release refuses what an approved
\* instance could only be rolled back to, and what a rollback goes to.
THEOREM DeletionStrandsNobody == Spec => DeletionKeepsWayBack
<1>1. ASSUME IRows, [Next]_vars, NEW r \in Releases, rollout[r] # "deleted",
             rollout'[r] = "deleted"
      PROVE  /\ \A u \in UsableUpgrades : row'[u] # None => u \in UsableUpgrades'
             /\ Supplied \subseteq Supplied'
  <2>1. DeleteRelease(r)
    BY <1>1, OnlyDeleteDeletes
  <2>2. /\ RowsOf(r) \cap ActiveRows = {}
        /\ \A a \in ActiveRows : row[a].op = "rollback" => row[a].to # r
        /\ Published(r) => ~OnlyWayBack(r)
        /\ UNCHANGED <<member, version, supported, baseline>>
        /\ row' = [a \in Attempts |-> IF a \in Cascaded(r) THEN None ELSE row[a]]
        /\ status' = [a \in Attempts |-> IF a \in Cascaded(r) THEN "none" ELSE status[a]]
    BY <2>1 DEF DeleteRelease, DeleteRows, DeleteWithout, columns
  <2>3. \A a \in Rows : /\ a \in Attempts /\ row[a] \in Row /\ row[a].inst \in Instances
                        /\ a \notin Cascaded(r) => /\ row'[a] = row[a] /\ status'[a] = status[a]
                                                   /\ a \in Rows'
                        /\ a \in Cascaded(r) => row'[a] = None
    BY <1>1, <2>2 DEF IRows, TypeOK, Rows, Row
  <2>4. ASSUME NEW u \in UsableUpgrades, row'[u] # None
        PROVE  u \in UsableUpgrades'
    <3>1. /\ u \in Rows /\ row[u].op = "upgrade" /\ status[u] = "succeeded" /\ CanRollBack(u)
      BY DEF UsableUpgrades
    <3>2. u \in Rows' /\ row'[u] = row[u] /\ status'[u] = status[u] /\ row[u].inst \in Instances
      BY <2>3, <2>4, <3>1
    <3>3. /\ member[row[u].inst] = "approved" /\ version[row[u].inst] = row[u].to
          /\ supported[row[u].inst] /\ row[u].inst \in Privileged
          /\ HasPackage(row[u].inst, row[u].from)
      BY <3>1 DEF CanRollBack
    <3>4. row[u].from = r => baseline[row[u].inst] = r
      BY <2>2, <3>1, <3>3 DEF OnlyWayBack, HasPackage
    <3>5. HasPackage(row[u].inst, row[u].from)'
      BY <1>1, <2>1, <3>2, <3>3, <3>4, PackagesLeft DEF HasPackage, Published
    <3> QED BY <2>2, <3>1, <3>2, <3>3, <3>5 DEF UsableUpgrades, CanRollBack, HasPackage, Published
  <2>5. ASSUME NEW a \in Supplied
        PROVE  a \in Supplied'
    <3>1. /\ a \in ActiveRows /\ row[a].op = "rollback" /\ HasPackage(row[a].inst, row[a].to)
          /\ a \in Rows /\ status[a] \in Active
      BY DEF Supplied, ActiveRows
    <3>2. a \in Rows' /\ row'[a] = row[a] /\ status'[a] = status[a] /\ row[a].inst \in Instances
      BY <2>2, <2>3, <3>1 DEF Cascaded, RowsOf, RollbacksTo
    <3>3. row[a].to # r
      BY <2>2, <3>1
    <3>4. HasPackage(row[a].inst, row[a].to)'
      BY <1>1, <2>1, <3>1, <3>2, <3>3, PackagesLeft DEF HasPackage, Published
    <3> QED BY <3>1, <3>2, <3>4 DEF Supplied, ActiveRows, HasPackage, Published
  <2> QED BY <2>4, <2>5
<1>2. IRows /\ [Next]_vars =>
        [\A r \in Releases :
           rollout[r] # "deleted" /\ rollout'[r] = "deleted" =>
             /\ \A u \in UsableUpgrades : row'[u] # None => u \in UsableUpgrades'
             /\ Supplied \subseteq Supplied']_vars
  BY <1>1
<1> QED BY <1>2, RowsInvariant, PTL DEF Spec, DeletionKeepsWayBack
=============================================================================
