---------------------------- MODULE AgentRollout ----------------------------
(***************************************************************************)
(* Rolling out versions of the agent (backend/src/updates.rs): releases    *)
(* with their rollout state and targets, the attempts to upgrade or roll   *)
(* back an instance, the handlers of the console, the offers an instance   *)
(* asks for or is sent, the reports it returns, and the reconciliation of  *)
(* a release that is being rolled back.  The agent                         *)
(* (instanceEnd/src/update.rs) is modelled up to what it accepts, installs *)
(* and reports.                                                            *)
(*                                                                         *)
(* A release is named by the number of its version; an instance starts on  *)
(* version 0, which has no release.  The packages of a published release   *)
(* fit every instance.  A transaction that holds the lock of its release   *)
(* is one step; what a handler reads before it opens the transaction is a  *)
(* step of its own, and so is every statement outside of transactions      *)
(* whose order matters.                                                    *)
(* Statuses that nothing tells apart are one: "waiting" stands for         *)
(* waiting, downloading, verifying and waiting_idle, "installing" for      *)
(* installing and awaiting_restart.                                        *)
(*                                                                         *)
(* An operator that stands directly before another one of the same name    *)
(* with a suffix removed is a faulty variant of it; the README lists the   *)
(* property each of them breaks.                                           *)
(***************************************************************************)
EXTENDS Naturals, FiniteSets

CONSTANTS
  Releases,       \* versions that may be released, numbers above 0
  Instances,
  Privileged,     \* instances whose agent may replace its executable
  Capable,        \* instances whose agent reports rollback_supported
  Admins,         \* concurrent requests of administrators
  Reconcilers,    \* concurrent calls of reconcile_release_rollback
  None,           \* NULL, the empty string
  MaxAttempts,    \* bound on the attempts ever created
  MaxRetry        \* MAX_AGENT_UPDATE_RETRY_COUNT

ASSUME ReleasesAssumption  == Releases \subseteq Nat \ {0} /\ IsFiniteSet(Releases)
ASSUME InstancesAssumption ==
  IsFiniteSet(Instances) /\ Privileged \subseteq Instances /\ Capable \subseteq Instances
ASSUME BoundAssumption     == MaxAttempts \in Nat /\ MaxRetry \in Nat
ASSUME NoneAssumption      == None \notin Nat /\ None \notin Instances

Attempts == 1..MaxAttempts
Versions == {0} \cup Releases

VARIABLES
  (* the database *)
  rollout,        \* agent_releases.rollout_state
  fresh,          \* releases with a draft package
  target,         \* agent_release_targets.state
  member,         \* instances.approved and disabled; "pending" has no row yet
  version,        \* instances.agent_version
  supported,      \* instances.rollback_supported
  baseline,       \* instances.rollback_version
  row,            \* agent_update_attempts: the columns that never change
  status,         \* and those that do
  retry,
  stamp,          \* completed_at of a succeeded upgrade, as an order
  next,           \* the id of the next attempt
  (* the backend's memory *)
  admin,          \* what a handler of the console read before its transaction
  look,           \* an instance's request for an offer, between two statements
  recon,          \* a reconciliation, between two statements
  (* the agents *)
  offer,          \* the last offer sent to the agent and not looked at
  task,           \* its update state file
  running,        \* the version it runs
  kept,           \* the version it keeps to return to
  (* history, read by no action *)
  overtaken,      \* releases whose attempts changed behind a reconciliation
  forgotten       \* upgrades that were rolled back and whose rollback is deleted

releases == <<rollout, fresh, target, forgotten>>
columns  == <<member, version, supported, baseline>>
attempts == <<row, status, retry, stamp, next>>
agents   == <<offer, task, running, kept>>
vars     == <<releases, columns, attempts, admin, look, recon, agents, overtaken>>

Canary      == {"canary_active", "canary_paused"}
Full        == {"full_active", "full_paused"}
Live        == Canary \cup Full
Offering    == {"canary_active", "full_active"}
Controlled  == Canary \cup {"full_paused", "rollback_active"}
Withdrawn   == {"rollback_active", "rollback_partial", "rolled_back"}
Missing     == {"absent", "deleted"}
States      == Live \cup Withdrawn \cup Missing \cup {"draft"}
Active      == {"pending", "waiting", "installing"}
Terminal    == {"succeeded", "rollback_succeeded", "failed", "cancelled"}
TargetState == {"none", "included", "excluded"}

Row      == [op : {"upgrade", "rollback"}, rel : Releases, inst : Instances,
             parent : Attempts \cup {None}, from : Versions, to : Versions]
Request  == [op : {"publish", "add", "promote", "rollback", "reupgrade"},
             rel : Releases, ids : SUBSET Instances,
             view : [Instances -> Versions \cup {None}],
             parent : Attempts \cup {None}]
Look     == [step : {"insert"}, rel : Releases, from : Versions]
            \cup [step : {"deliver"}, id : Attempts, retry : 0..MaxRetry]
Recon    == [step : {"queue", "active", "unqueued", "close"}, rel : Releases,
             todo : SUBSET Attempts]
Offer    == [id : Attempts, retry : 0..MaxRetry, op : {"upgrade", "rollback"},
             from : Versions, to : Versions]
Task     == [id : Attempts, retry : 0..MaxRetry,
             op : {"upgrade", "rollback"}, to : Versions,
             state : {"waiting", "installing", "succeeded",
                      "rollback_succeeded", "failed"}]

Init ==
  /\ rollout = [r \in Releases |-> "absent"]
  /\ fresh = {}
  /\ target = [t \in Releases \X Instances |-> "none"]
  /\ member = [i \in Instances |-> "pending"]
  /\ version = [i \in Instances |-> 0]
  /\ supported = [i \in Instances |-> FALSE]
  /\ baseline = [i \in Instances |-> None]
  /\ row = [a \in Attempts |-> None]
  /\ status = [a \in Attempts |-> "none"]
  /\ retry = [a \in Attempts |-> 0]
  /\ stamp = [a \in Attempts |-> 0]
  /\ next = 1
  /\ admin = [d \in Admins |-> None]
  /\ look = [i \in Instances |-> None]
  /\ recon = [k \in Reconcilers |-> None]
  /\ offer = [i \in Instances |-> None]
  /\ task = [i \in Instances |-> None]
  /\ running = [i \in Instances |-> 0]
  /\ kept = [i \in Instances |-> None]
  /\ overtaken = {}
  /\ forgotten = {}

(***************************************************************************)
(* Queries on attempts.                                                    *)
(***************************************************************************)
Rows             == {a \in Attempts : row[a] # None}
ActiveRows       == {a \in Rows : status[a] \in Active}
Busy(i)          == \E a \in ActiveRows : row[a].inst = i
Upgrades(r, i)   == {a \in Rows : row[a].op = "upgrade" /\ row[a].rel = r
                                  /\ row[a].inst = i}
RollbacksOf(u)   == {a \in Rows : row[a].op = "rollback" /\ row[a].parent = u}
Succeeded(r, i)  == {a \in Upgrades(r, i) : status[a] = "succeeded"}
\* The most recently completed upgrade of the release on each instance.
LatestUpgrades(r) ==
  {a \in Rows : /\ a \in Succeeded(r, row[a].inst)
                /\ \A b \in Succeeded(r, row[a].inst) : stamp[b] <= stamp[a]}

Published(v) == v \in Releases /\ rollout[v] \in Live \cup Withdrawn

\* ensure_no_other_controlled_release
NoOtherControlledForgetful(r) ==
  \A s \in Releases \ {r} : rollout[s] \notin Canary \cup {"rollback_active"}
NoOtherControlled(r) == \A s \in Releases \ {r} : rollout[s] \notin Controlled

\* A version is on hand to return to: a published package or the local one.
HasPackage(i, v) == Published(v) \/ baseline[i] = v

\* select_update_candidate: the highest release meant for the instance.
Candidates(i) ==
  {r \in Releases : /\ i \in Privileged /\ r > version[i]
                    /\ \/ rollout[r] = "full_active" /\ target[r, i] # "excluded"
                       \/ rollout[r] = "canary_active" /\ target[r, i] = "included"}
IsCandidate(r, i) == r \in Candidates(i) /\ \A s \in Candidates(i) : s <= r

(***************************************************************************)
(* Statements on attempts, used inside larger transactions.                *)
(***************************************************************************)
\* queue_upgrade_attempt: whether it inserts a row for the instance, which
\* the handler saw on version v.  A row that fails at once is not active and
\* hence does not conflict with an active one.
Queues(r, i, v, explicit) ==
  /\ r > v
  /\ explicit \/ Upgrades(r, i) = {}
  /\ i \in Privileged => ~Busy(i)

InsertUpgrades(r, S, view) ==
  LET new == next..(next + Cardinality(S) - 1)
      of  == CHOOSE f \in [new -> S] : \A a, b \in new : f[a] = f[b] => a = b
  IN  /\ next + Cardinality(S) <= MaxAttempts + 1
      /\ next' = next + Cardinality(S)
      /\ row' = [a \in Attempts |->
                   IF a \in new
                   THEN [op |-> "upgrade", rel |-> r, inst |-> of[a],
                         parent |-> None, from |-> view[of[a]], to |-> r]
                   ELSE row[a]]
      /\ status' = [a \in Attempts |->
                      IF a \in new
                      THEN IF of[a] \in Privileged THEN "pending" ELSE "failed"
                      ELSE status[a]]
      /\ UNCHANGED <<retry, stamp>>

\* queue_rollback_for_upgrade_in_transaction: whether it inserts a row ...
QueuesRollback(u) == RollbacksOf(u) = {} /\ ~Busy(row[u].inst)

\* ... and whether the row is pending; if not it fails at once.
CanRollBack(u) ==
  LET i == row[u].inst
  IN  /\ member[i] = "approved"
      /\ version[i] = row[u].to
      /\ supported[i]
      /\ i \in Privileged
      /\ HasPackage(i, row[u].from)

InsertRollback(u) ==
  /\ next <= MaxAttempts
  /\ next' = next + 1
  /\ row' = [row EXCEPT ![next] =
               [op |-> "rollback", rel |-> row[u].rel, inst |-> row[u].inst,
                parent |-> u, from |-> row[u].to, to |-> row[u].from]]
  /\ status' = [status EXCEPT ![next] = IF CanRollBack(u) THEN "pending" ELSE "failed"]
  /\ UNCHANGED <<retry, stamp>>

\* The statuses of a set of attempts change; succeeding upgrades are stamped.
Finish(S, new) ==
  LET last == CHOOSE n \in {0} \cup {stamp[a] : a \in Attempts} :
                \A a \in Attempts : stamp[a] <= n
  IN  /\ status' = [a \in Attempts |-> IF a \in S THEN new[a] ELSE status[a]]
      /\ stamp' = [a \in Attempts |->
                     IF a \in S /\ new[a] = "succeeded" THEN last + 1 ELSE stamp[a]]
      /\ UNCHANGED <<row, retry, next>>

\* History: an attempt of r changed while a reconciliation of r, having seen
\* none unfinished, was about to close the rollback.
Closing(r) == \E k \in Reconcilers : /\ recon[k] # None /\ recon[k].rel = r
                                     /\ recon[k].step \in {"unqueued", "close"}

(***************************************************************************)
(* The console: handlers that are one transaction.                         *)
(***************************************************************************)
SetRollout(r, s) == rollout' = [rollout EXCEPT ![r] = s]

CreateRelease(r) ==
  /\ rollout[r] = "absent"
  /\ SetRollout(r, "draft")
  /\ UNCHANGED <<fresh, target, forgotten, columns, attempts, admin, look, recon, agents, overtaken>>

UploadArtifact(r) ==
  /\ rollout[r] \notin Missing
  /\ fresh' = fresh \cup {r}
  /\ UNCHANGED <<rollout, target, forgotten, columns, attempts, admin, look, recon, agents, overtaken>>

SetPaused(r) ==
  /\ rollout[r] \in Offering
  /\ SetRollout(r, IF rollout[r] = "canary_active" THEN "canary_paused" ELSE "full_paused")
  /\ UNCHANGED <<fresh, target, forgotten, columns, attempts, admin, look, recon, agents, overtaken>>

PauseUnchecked(r) == SetPaused(r)
Pause(r) == NoOtherControlled(r) /\ SetPaused(r)

Resume(r) ==
  /\ rollout[r] \in {"canary_paused", "full_paused"}
  /\ SetRollout(r, IF rollout[r] = "canary_paused" THEN "canary_active" ELSE "full_active")
  /\ UNCHANGED <<fresh, target, forgotten, columns, attempts, admin, look, recon, agents, overtaken>>

\* admin_rollback_agent_release, up to its call of the reconciliation
RollbackRelease(r) ==
  /\ rollout[r] \in Live \cup {"rollback_partial"}
  /\ NoOtherControlled(r)
  /\ SetRollout(r, "rollback_active")
  /\ LET undelivered == {a \in Rows : /\ row[a].rel = r /\ row[a].op = "upgrade"
                                      /\ status[a] = "pending"}
     IN  Finish(undelivered, [a \in undelivered |-> "cancelled"])
  /\ UNCHANGED <<fresh, target, forgotten, columns, admin, look, recon, agents, overtaken>>

\* admin_retry_agent_update
RetryableUpgrade(a) ==
  /\ row[a].op = "upgrade"
  /\ status[a] \in {"failed", "rollback_succeeded"}
  /\ rollout[row[a].rel] \in Live
  /\ IsCandidate(row[a].rel, row[a].inst)

RetryableRollback(a) ==
  /\ row[a].op = "rollback"
  /\ status[a] = "failed"
  /\ rollout[row[a].rel] \in Live \cup {"rollback_active", "rollback_partial"}
  /\ version[row[a].inst] = row[a].from
  /\ supported[row[a].inst]
  /\ HasPackage(row[a].inst, row[a].to)
  /\ rollout[row[a].rel] = "rollback_partial" => NoOtherControlled(row[a].rel)

Requeue(a) ==
  /\ status' = [status EXCEPT ![a] = "pending"]
  /\ retry' = [retry EXCEPT ![a] = @ + 1]
  /\ LET r == row[a].rel
     IN  /\ IF rollout[r] = "rollback_partial" THEN SetRollout(r, "rollback_active")
                                               ELSE UNCHANGED rollout
         /\ overtaken' = overtaken \cup {s \in {r} : Closing(s)}
  /\ UNCHANGED <<fresh, target, forgotten, columns, row, stamp, next, admin, look, recon, agents>>

RetryUnlimited(a) ==
  /\ a \in Rows
  /\ RetryableUpgrade(a) \/ RetryableRollback(a)
  /\ ~Busy(row[a].inst)
  /\ Requeue(a)
Retry(a) ==
  /\ a \in Rows
  /\ RetryableUpgrade(a) \/ RetryableRollback(a)
  /\ retry[a] < MaxRetry
  /\ ~Busy(row[a].inst)
  /\ Requeue(a)

\* delete_agent_release: rows that are unfinished, rollbacks to this version
\* and instances it is the only way back to stand in the way.
RowsOf(r) == {a \in Rows : row[a].rel = r}
OnlyWayBack(r) ==
  \E i \in Privileged : /\ member[i] = "approved" /\ supported[i] /\ baseline[i] # r
                        /\ \E a \in Rows : /\ row[a].inst = i /\ row[a].op = "upgrade"
                                           /\ status[a] = "succeeded"
                                           /\ row[a].from = r /\ version[i] = row[a].to

\* The foreign keys delete, with a release and its packages, its own attempts
\* and every rollback bound to one of its packages: rollbacks of later
\* releases are bound to the published package of the version they return to.
RollbacksTo(r)  == {a \in Rows : row[a].op = "rollback" /\ row[a].to = r}
Cascaded(r)     == RowsOf(r) \cup RollbacksTo(r)

DeleteWithout(r, S) ==
  /\ SetRollout(r, "deleted")
  /\ fresh' = fresh \ {r}
  /\ target' = [t \in Releases \X Instances |->
                  IF t[1] = r THEN "none" ELSE target[t]]
  /\ row' = [a \in Attempts |-> IF a \in S THEN None ELSE row[a]]
  /\ status' = [a \in Attempts |-> IF a \in S THEN "none" ELSE status[a]]
  /\ retry' = [a \in Attempts |-> IF a \in S THEN 0 ELSE retry[a]]
  /\ stamp' = [a \in Attempts |-> IF a \in S THEN 0 ELSE stamp[a]]
  /\ overtaken' = overtaken \cup {s \in {row[a].rel : a \in S} : Closing(s)}
  /\ forgotten' = forgotten \cup
                    {row[a].parent : a \in {b \in RollbacksTo(r) : status[b] = "rollback_succeeded"}}
DeleteRows(r) == DeleteWithout(r, Cascaded(r))

DeleteReleaseInUse(r) ==
  /\ rollout[r] \notin Missing
  /\ RowsOf(r) \cap ActiveRows = {}
  /\ Published(r) => ~OnlyWayBack(r)
  /\ DeleteRows(r)
  /\ UNCHANGED <<columns, next, admin, look, recon, agents>>
DeleteReleaseStranding(r) ==
  /\ rollout[r] \notin Missing
  /\ RowsOf(r) \cap ActiveRows = {}
  /\ \A a \in ActiveRows : row[a].op = "rollback" => row[a].to # r
  /\ DeleteRows(r)
  /\ UNCHANGED <<columns, next, admin, look, recon, agents>>
DeleteRelease(r) ==
  /\ rollout[r] \notin Missing
  /\ RowsOf(r) \cap ActiveRows = {}
  /\ \A a \in ActiveRows : row[a].op = "rollback" => row[a].to # r
  /\ Published(r) => ~OnlyWayBack(r)
  /\ DeleteRows(r)
  /\ UNCHANGED <<columns, next, admin, look, recon, agents>>

\* admin_approve_instance and admin_disable_instance; nothing enables an
\* instance again.
Approve(i) ==
  /\ member[i] = "pending"
  /\ member' = [member EXCEPT ![i] = "approved"]
  /\ UNCHANGED <<releases, version, supported, baseline, attempts, admin, look, recon,
                 agents, overtaken>>

Disable(i) ==
  /\ member[i] = "approved"
  /\ member' = [member EXCEPT ![i] = "disabled"]
  /\ UNCHANGED <<releases, version, supported, baseline, attempts, admin, look, recon,
                 agents, overtaken>>

(***************************************************************************)
(* The console: handlers that read instances, targets or attempts and only *)
(* then open their transaction.  GiveUp is every other outcome: the        *)
(* transaction finds a condition unmet, or the client goes away.           *)
(***************************************************************************)
\* capability_instances: the approved instances and their versions.
Seen == [i \in Instances |-> IF member[i] = "approved" THEN version[i] ELSE None]

Prepare(d, op, r, ids, view, parent) ==
  /\ admin[d] = None
  /\ admin' = [admin EXCEPT ![d] = [op |-> op, rel |-> r, ids |-> ids,
                                    view |-> view, parent |-> parent]]
  /\ UNCHANGED <<releases, columns, attempts, look, recon, agents, overtaken>>

Done(d) == admin' = [admin EXCEPT ![d] = None]

PreparePublish(d, r, ids) == Prepare(d, "publish", r, ids, Seen, None)

PrepareAdd(d, r, ids) ==
  /\ ids # {}
  /\ rollout[r] \in Canary
  /\ \A i \in ids : target[r, i] # "excluded"
  /\ Prepare(d, "add", r, ids, Seen, None)

PreparePromote(d, r) ==
  /\ rollout[r] \notin Missing
  /\ Prepare(d, "promote", r, {}, Seen, None)

PrepareInstanceRollback(d, r, i) ==
  /\ rollout[r] \in Live
  /\ \E u \in LatestUpgrades(r) :
       /\ row[u].inst = i /\ version[i] = row[u].to
       /\ Prepare(d, "rollback", r, {i}, [j \in Instances |-> None], u)

PrepareReupgrade(d, r, i) ==
  /\ rollout[r] \in Live
  /\ \E a \in Rows : /\ row[a].rel = r /\ row[a].inst = i /\ row[a].op = "rollback"
                     /\ status[a] = "rollback_succeeded"
  /\ i \in Privileged /\ r > version[i]
  /\ Prepare(d, "reupgrade", r, {i}, version, None)

SetTargets(r, ids, s) ==
  target' = [t \in Releases \X Instances |->
               IF t[1] = r /\ t[2] \in ids THEN s ELSE target[t]]

\* validate_rollout_instance, on what the handler saw
Eligible(q, i) == q.view[i] # None /\ i \in Privileged /\ q.rel > q.view[i]

Publish(d) ==
  /\ admin[d] # None /\ admin[d].op = "publish"
  /\ LET q == admin[d]
         r == q.rel
         first == rollout[r] = "draft"
         state == IF first THEN "canary_active" ELSE rollout[r]
         seen == {i \in Instances : q.view[i] # None}
         chosen == {i \in seen :
                      \/ state \in Full /\ target[r, i] # "excluded"
                      \/ target'[r, i] = "included"}
     IN  /\ rollout[r] \notin Missing \cup Withdrawn
         /\ first => q.ids # {} /\ NoOtherControlled(r)
         /\ r \in fresh
         /\ first => \A i \in q.ids : Eligible(q, i)
         /\ SetRollout(r, state)
         /\ fresh' = fresh \ {r}
         /\ SetTargets(r, IF first THEN q.ids ELSE {}, "included")
         /\ InsertUpgrades(r, {i \in chosen : Queues(r, i, q.view[i], FALSE)}, q.view)
  /\ Done(d)
  /\ UNCHANGED <<forgotten, columns, look, recon, agents, overtaken>>

AddTargets(d) ==
  /\ admin[d] # None /\ admin[d].op = "add"
  /\ LET q == admin[d]
         r == q.rel
     IN  /\ rollout[r] \in Canary
         /\ \A i \in q.ids : Eligible(q, i)
         /\ SetTargets(r, q.ids, "included")
         /\ InsertUpgrades(r, {i \in q.ids : Queues(r, i, q.view[i], FALSE)}, q.view)
  /\ Done(d)
  /\ UNCHANGED <<rollout, fresh, forgotten, columns, look, recon, agents, overtaken>>

Promote(d) ==
  /\ admin[d] # None /\ admin[d].op = "promote"
  /\ LET q == admin[d]
         r == q.rel
     IN  /\ rollout[r] \in Canary
         /\ SetRollout(r, IF rollout[r] = "canary_active" THEN "full_active" ELSE "full_paused")
         /\ InsertUpgrades(r, {i \in Instances : /\ target[r, i] # "excluded"
                                                 /\ Eligible(q, i)
                                                 /\ Queues(r, i, q.view[i], FALSE)}, q.view)
  /\ Done(d)
  /\ UNCHANGED <<fresh, target, forgotten, columns, look, recon, agents, overtaken>>

RollbackInstance(d) ==
  /\ admin[d] # None /\ admin[d].op = "rollback"
  /\ LET q == admin[d]
     IN  /\ rollout[q.rel] \in Live
         /\ QueuesRollback(q.parent)
         /\ SetTargets(q.rel, q.ids, "excluded")
         /\ InsertRollback(q.parent)
  /\ Done(d)
  /\ UNCHANGED <<rollout, fresh, forgotten, columns, look, recon, agents, overtaken>>

Reupgrade(d) ==
  /\ admin[d] # None /\ admin[d].op = "reupgrade"
  /\ LET q == admin[d]
     IN  /\ rollout[q.rel] \in Live
         /\ \A i \in q.ids : Queues(q.rel, i, q.view[i], TRUE)
         /\ SetTargets(q.rel, q.ids, "included")
         /\ InsertUpgrades(q.rel, q.ids, q.view)
  /\ Done(d)
  /\ UNCHANGED <<rollout, fresh, forgotten, columns, look, recon, agents, overtaken>>

GiveUp(d) ==
  /\ admin[d] # None
  /\ Done(d)
  /\ UNCHANGED <<releases, columns, attempts, look, recon, agents, overtaken>>

(***************************************************************************)
(* Offers.  An instance gets one when it connects, when a handler notifies *)
(* it and whenever it asks for the manifest, hence at any time: first the  *)
(* rollback it is due, else the upgrade under way, else a new upgrade to   *)
(* the best release.  The statements in between are separate.              *)
(***************************************************************************)
Send(i, a, n) ==
  offer' = [offer EXCEPT ![i] = [id |-> a, retry |-> n, op |-> row[a].op,
                                 from |-> row[a].from, to |-> row[a].to]]

\* The attempt under way that may be offered now.
Offerable(i) ==
  {a \in ActiveRows :
     /\ row[a].inst = i /\ i \in Privileged
     /\ IF row[a].op = "rollback"
        THEN supported[i] /\ version[i] = row[a].from
        ELSE status[a] = "pending" => rollout[row[a].rel] \in Offering}

LookActive(i) ==
  /\ member[i] = "approved"
  /\ look[i] = None
  /\ \E a \in Offerable(i) :
       IF status[a] = "pending"
       THEN /\ look' = [look EXCEPT ![i] = [step |-> "deliver", id |-> a, retry |-> retry[a]]]
            /\ UNCHANGED offer
       ELSE /\ Send(i, a, retry[a])
            /\ UNCHANGED look
  /\ UNCHANGED <<releases, columns, attempts, admin, recon, task, running, kept, overtaken>>

LookCandidate(i) ==
  /\ member[i] = "approved"
  /\ look[i] = None
  /\ Offerable(i) = {}
  /\ \E r \in Releases :
       /\ IsCandidate(r, i)
       /\ look' = [look EXCEPT ![i] = [step |-> "insert", rel |-> r, from |-> version[i]]]
  /\ UNCHANGED <<releases, columns, attempts, admin, recon, agents, overtaken>>

\* The INSERT of find_update_for_instance, which does not look at the
\* rollout state again.
InsertLooked(i, wanted) ==
  LET r == look[i].rel
  IN  IF wanted /\ ~Busy(i) /\ Published(r)
      THEN /\ next <= MaxAttempts
           /\ next' = next + 1
           /\ row' = [row EXCEPT ![next] =
                        [op |-> "upgrade", rel |-> r, inst |-> i, parent |-> None,
                         from |-> look[i].from, to |-> r]]
           /\ status' = [status EXCEPT ![next] = "pending"]
           /\ look' = [look EXCEPT ![i] = [step |-> "deliver", id |-> next, retry |-> 0]]
           /\ overtaken' = overtaken \cup
                {s \in {r} : Closing(s) \/ rollout[s] \in {"rolled_back", "rollback_partial"}}
           /\ UNCHANGED <<retry, stamp>>
      ELSE /\ look' = [look EXCEPT ![i] = None]
           /\ UNCHANGED <<attempts, overtaken>>

InsertAttemptAgain(i) ==
  /\ look[i] # None /\ look[i].step = "insert"
  /\ InsertLooked(i, TRUE)
  /\ UNCHANGED <<releases, columns, admin, recon, agents>>
InsertAttempt(i) ==
  /\ look[i] # None /\ look[i].step = "insert"
  /\ InsertLooked(i, Upgrades(look[i].rel, i) = {})
  /\ UNCHANGED <<releases, columns, admin, recon, agents>>

\* pending -> waiting, and the offer leaves; an upgrade only while its
\* release is still being offered.
DeliverTo(i, allowed) ==
  /\ look' = [look EXCEPT ![i] = None]
  /\ IF status[look[i].id] = "pending" /\ allowed
     THEN /\ status' = [status EXCEPT ![look[i].id] = "waiting"]
          /\ Send(i, look[i].id, look[i].retry)
     ELSE UNCHANGED <<status, offer>>
  /\ UNCHANGED <<releases, columns, row, retry, stamp, next, admin, recon, task,
                 running, kept, overtaken>>

DeliverUnchecked(i) ==
  /\ look[i] # None /\ look[i].step = "deliver"
  /\ DeliverTo(i, TRUE)
Deliver(i) ==
  /\ look[i] # None /\ look[i].step = "deliver"
  /\ LET a == look[i].id
     IN  DeliverTo(i, a \in Rows /\ (row[a].op = "upgrade" => rollout[row[a].rel] \in Offering))

DropLook(i) ==
  /\ look[i] # None
  /\ look' = [look EXCEPT ![i] = None]
  /\ UNCHANGED <<releases, columns, attempts, admin, recon, agents, overtaken>>

(***************************************************************************)
(* The agent.  It keeps one task in its state file, survives restarts with *)
(* it, and repeats its state whenever it connects.                         *)
(***************************************************************************)
Ended(i) == task[i].state \in {"succeeded", "rollback_succeeded", "failed"}

\* can_start_offer, can_start_rollback
CanStart(i, o) ==
  \/ task[i] = None
  \/ /\ o.op = "upgrade"
     /\ IF task[i].id = o.id
        THEN IF Ended(i) \/ task[i].state = "installing"
             THEN o.retry > task[i].retry ELSE o.retry >= task[i].retry
        ELSE task[i].state = "installing" => o.to > task[i].to
  \/ /\ o.op = "rollback"
     /\ task[i].state # "installing"
     /\ IF task[i].id = o.id
        THEN IF Ended(i) THEN o.retry > task[i].retry ELSE o.retry >= task[i].retry
        ELSE Ended(i)

\* How an offer it takes up begins: the checks of prepare_inner and
\* prepare_rollback_inner.
FirstState(i, o) ==
  IF o.op = "upgrade"
  THEN IF o.to > running[i] THEN "waiting" ELSE "failed"
  ELSE IF running[i] = o.to THEN "rollback_succeeded"
  ELSE IF running[i] = o.from THEN "waiting" ELSE "failed"

TakeOffer(i) ==
  /\ offer[i] # None
  /\ offer' = [offer EXCEPT ![i] = None]
  /\ LET o == offer[i]
     IN  IF CanStart(i, o)
         THEN task' = [task EXCEPT ![i] =
                [id |-> o.id, retry |-> o.retry, op |-> o.op, to |-> o.to,
                 state |-> FirstState(i, o)]]
         ELSE UNCHANGED task
  /\ UNCHANGED <<releases, columns, attempts, admin, look, recon, running, kept, overtaken>>

AgentStep(i, from, to) ==
  /\ task[i] # None /\ task[i].state = from
  /\ task' = [task EXCEPT ![i].state = to]
  /\ UNCHANGED <<releases, columns, attempts, admin, look, recon, offer, overtaken>>

HandOff(i)    == AgentStep(i, "waiting", "installing") /\ UNCHANGED <<running, kept>>
FailTask(i)   == AgentStep(i, "waiting", "failed") /\ UNCHANGED <<running, kept>>
\* apply_update: the target runs and the version it replaced is kept; or the
\* previous version is restored, which ends an upgrade as rolled back; or the
\* update fails, with either version in place.
Install(i) ==
  /\ AgentStep(i, "installing",
               IF task[i].op = "upgrade" THEN "succeeded" ELSE "rollback_succeeded")
  /\ running' = [running EXCEPT ![i] = task[i].to]
  /\ kept' = [kept EXCEPT ![i] = running[i]]
Restore(i) ==
  /\ AgentStep(i, "installing", "rollback_succeeded")
  /\ task[i].op = "upgrade"
  /\ UNCHANGED <<running, kept>>
Botch(i) ==
  /\ AgentStep(i, "installing", "failed")
  /\ \E v \in {running[i], task[i].to} : running' = [running EXCEPT ![i] = v]
  /\ UNCHANGED kept

(***************************************************************************)
(* Reports.  They may be lost, late and repeated: an agent may report its  *)
(* present state any number of times, or never; a status or metrics that   *)
(* were under way still count after the instance is disabled.              *)
(***************************************************************************)
Rank(s) == CASE s = "pending" -> 0 [] s = "waiting" -> 1 [] s = "installing" -> 2
             [] OTHER -> 3

\* update_status_transition_allowed
TransitionAllowedLate(current, new) == Rank(new) >= Rank(current)
TransitionAllowed(current, new) ==
  IF current \in Terminal THEN current = new ELSE Rank(new) >= Rank(current)

\* The report names the attempt as it is stored, with the same retry count.
Matches(t) == t.id \in Rows /\ retry[t.id] = t.retry

\* record_update_status_for_attempt, record_connection_rollback_status
RecordStatus(i) ==
  /\ member[i] # "pending"
  /\ task[i] # None
  /\ LET t == task[i]
         a == t.id
     IN  /\ Matches(t)
         /\ TransitionAllowed(status[a], t.state)
         /\ IF t.state = status[a]
            THEN UNCHANGED attempts
            ELSE Finish({a}, [b \in {a} |-> t.state])
         /\ IF t.state = "succeeded" \/ (t.state = "rollback_succeeded" /\ t.op = "rollback")
            THEN version' = [version EXCEPT ![i] = row[a].to]
            ELSE IF t.state = "rollback_succeeded" /\ status[a] # t.state
            THEN version' = [version EXCEPT ![i] = row[a].from]
            ELSE UNCHANGED version
         /\ IF t.state = "rollback_succeeded" /\ t.op = "rollback"
            THEN /\ supported' = [supported EXCEPT ![i] = FALSE]
                 /\ baseline' = [baseline EXCEPT ![i] = None]
            ELSE UNCHANGED <<supported, baseline>>
  /\ UNCHANGED <<releases, member, admin, look, recon, agents, overtaken>>

\* The columns an agent reports when it registers and with its metrics.
ReportColumns(i) ==
  /\ version' = [version EXCEPT ![i] = running[i]]
  /\ supported' = [supported EXCEPT ![i] = i \in Capable]
  /\ baseline' = [baseline EXCEPT ![i] = IF i \in Capable THEN kept[i] ELSE None]

Register(i) ==
  /\ member[i] = "approved"
  /\ ReportColumns(i)
  /\ UNCHANGED <<releases, member, attempts, admin, look, recon, agents, overtaken>>

\* store_metrics, confirm_update_version: attempts whose target is the
\* reported version have succeeded; cancelled ones too, while their release
\* is being rolled back.
Confirmed(i) ==
  {a \in Rows : /\ row[a].inst = i /\ row[a].to = running[i]
                /\ \/ status[a] \in Active
                   \/ /\ status[a] = "cancelled" /\ row[a].op = "upgrade"
                      /\ rollout[row[a].rel] = "rollback_active"}

Metrics(i) ==
  LET S == Confirmed(i)
      rolledBack == \E a \in S : row[a].op = "rollback"
  IN  /\ member[i] # "pending"
      /\ Finish(S, [a \in S |-> IF row[a].op = "rollback" THEN "rollback_succeeded"
                                                           ELSE "succeeded"])
      /\ version' = [version EXCEPT ![i] = running[i]]
      /\ supported' = [supported EXCEPT ![i] = i \in Capable /\ ~rolledBack]
      /\ baseline' = [baseline EXCEPT ![i] =
                        IF i \in Capable /\ ~rolledBack THEN kept[i] ELSE None]
      /\ overtaken' = overtaken \cup {r \in {row[a].rel : a \in S} : Closing(r)}
      /\ UNCHANGED <<releases, member, admin, look, recon, agents>>

\* expire_restart_attempts: an hour without news.
Expire(a) ==
  /\ a \in Rows /\ status[a] = "installing"
  /\ Finish({a}, [b \in {a} |-> "failed"])
  /\ UNCHANGED <<releases, columns, admin, look, recon, agents, overtaken>>

(***************************************************************************)
(* reconcile_release_rollback.  It runs after a release is rolled back,    *)
(* after each report of one of its attempts, after a confirmed version and *)
(* every 30 seconds, hence at any time.                                    *)
(***************************************************************************)
At(k, step) == recon[k] # None /\ recon[k].step = step
GoTo(k, step) == recon' = [recon EXCEPT ![k].step = step]
Stop(k) == recon' = [recon EXCEPT ![k] = None]

BeginReconcile(k, r) ==
  /\ recon[k] = None
  /\ rollout[r] = "rollback_active"
  /\ recon' = [recon EXCEPT ![k] = [step |-> "queue", rel |-> r, todo |-> LatestUpgrades(r)]]
  /\ UNCHANGED <<releases, columns, attempts, admin, look, agents, overtaken>>

\* One transaction per upgrade.
QueueOneSilently(k, u) ==
  /\ At(k, "queue") /\ u \in recon[k].todo
  /\ recon' = [recon EXCEPT ![k].todo = @ \ {u}]
  /\ IF u \in Rows /\ QueuesRollback(u) /\ CanRollBack(u)
     THEN InsertRollback(u) ELSE UNCHANGED attempts
  /\ UNCHANGED <<releases, columns, admin, look, agents, overtaken>>
QueueOne(k, u) ==
  /\ At(k, "queue") /\ u \in recon[k].todo
  /\ recon' = [recon EXCEPT ![k].todo = @ \ {u}]
  /\ IF u \in Rows /\ QueuesRollback(u)
     THEN /\ InsertRollback(u)
          /\ overtaken' = overtaken \cup {r \in {recon[k].rel} : Closing(r)}
     ELSE UNCHANGED <<attempts, overtaken>>
  /\ UNCHANGED <<releases, columns, admin, look, agents>>

QueuedAll(k) ==
  /\ At(k, "queue") /\ recon[k].todo = {}
  /\ GoTo(k, "active")
  /\ UNCHANGED <<releases, columns, attempts, admin, look, agents, overtaken>>

Unqueued(r) == {u \in LatestUpgrades(r) : RollbacksOf(u) = {}}

CountActive(k) ==
  /\ At(k, "active")
  /\ IF RowsOf(recon[k].rel) \cap ActiveRows = {} THEN GoTo(k, "unqueued") ELSE Stop(k)
  /\ UNCHANGED <<releases, columns, attempts, admin, look, agents, overtaken>>

CountUnqueuedSkipped(k) ==
  /\ At(k, "unqueued")
  /\ GoTo(k, "close")
  /\ UNCHANGED <<releases, columns, attempts, admin, look, agents, overtaken>>
CountUnqueued(k) ==
  /\ At(k, "unqueued")
  /\ IF Unqueued(recon[k].rel) = {} THEN GoTo(k, "close") ELSE Stop(k)
  /\ UNCHANGED <<releases, columns, attempts, admin, look, agents, overtaken>>

FailedRollbacks(r) == {a \in RowsOf(r) : /\ row[a].op = "rollback"
                                         /\ status[a] = "failed"}

Close(k) ==
  /\ At(k, "close")
  /\ LET r == recon[k].rel
     IN  IF rollout[r] = "rollback_active"
         THEN SetRollout(r, IF FailedRollbacks(r) = {} THEN "rolled_back" ELSE "rollback_partial")
         ELSE UNCHANGED rollout
  /\ Stop(k)
  /\ UNCHANGED <<fresh, target, forgotten, columns, attempts, admin, look, agents, overtaken>>

RestartBackend ==
  /\ admin' = [d \in Admins |-> None]
  /\ look' = [i \in Instances |-> None]
  /\ recon' = [k \in Reconcilers |-> None]
  /\ UNCHANGED <<releases, columns, attempts, agents, overtaken>>

Console ==
  \/ \E r \in Releases : \/ CreateRelease(r) \/ UploadArtifact(r) \/ Pause(r)
                         \/ Resume(r) \/ RollbackRelease(r) \/ DeleteRelease(r)
  \/ \E a \in Attempts : Retry(a)
  \/ \E i \in Instances : Approve(i) \/ Disable(i)
  \/ \E d \in Admins : \/ \E r \in Releases :
                            \/ \E ids \in SUBSET Instances :
                                 PreparePublish(d, r, ids) \/ PrepareAdd(d, r, ids)
                            \/ PreparePromote(d, r)
                            \/ \E i \in Instances : \/ PrepareInstanceRollback(d, r, i)
                                                    \/ PrepareReupgrade(d, r, i)
                       \/ Publish(d) \/ AddTargets(d) \/ Promote(d)
                       \/ RollbackInstance(d) \/ Reupgrade(d) \/ GiveUp(d)

AgentActions ==
  \E i \in Instances : \/ LookActive(i) \/ LookCandidate(i) \/ InsertAttempt(i)
                       \/ Deliver(i) \/ DropLook(i)
                       \/ TakeOffer(i) \/ HandOff(i) \/ FailTask(i) \/ Install(i)
                       \/ Restore(i) \/ Botch(i)
                       \/ RecordStatus(i) \/ Register(i) \/ Metrics(i)

ReconcileStep(k) == \/ \E u \in Attempts : QueueOne(k, u)
                    \/ QueuedAll(k) \/ CountActive(k) \/ CountUnqueued(k) \/ Close(k)

Background ==
  \/ \E k \in Reconcilers : \/ \E r \in Releases : BeginReconcile(k, r)
                            \/ ReconcileStep(k)
  \/ \E a \in Attempts : Expire(a)
  \/ RestartBackend

Next == Console \/ AgentActions \/ Background

Spec == Init /\ [][Next]_vars

\* update_timeout_loop starts a reconciliation every 30 seconds and each one
\* runs to its end, unless the backend stops; it stays up in the end.
\* Nothing is assumed of agents and administrators.
FairSpec ==
  /\ Spec
  /\ <>[][~RestartBackend]_vars
  /\ \A r \in Releases : WF_vars(\E k \in Reconcilers : BeginReconcile(k, r))
  /\ \A k \in Reconcilers : WF_vars(ReconcileStep(k))

-----------------------------------------------------------------------------
(***************************************************************************)
(* Properties.                                                             *)
(***************************************************************************)

\* Every column and every record of the memory keeps its type; in
\* particular no attempt is retried beyond MAX_AGENT_UPDATE_RETRY_COUNT.
TypeOK ==
  /\ rollout \in [Releases -> States]
  /\ fresh \subseteq Releases
  /\ target \in [Releases \X Instances -> TargetState]
  /\ member \in [Instances -> {"pending", "approved", "disabled"}]
  /\ version \in [Instances -> Versions]
  /\ supported \in [Instances -> BOOLEAN]
  /\ baseline \in [Instances -> Versions \cup {None}]
  /\ row \in [Attempts -> Row \cup {None}]
  /\ status \in [Attempts -> Active \cup Terminal \cup {"none"}]
  /\ retry \in [Attempts -> 0..MaxRetry]
  /\ stamp \in [Attempts -> Nat]
  /\ next \in 1..(MaxAttempts + 1)
  /\ admin \in [Admins -> Request \cup {None}]
  /\ look \in [Instances -> Look \cup {None}]
  /\ recon \in [Reconcilers -> Recon \cup {None}]
  /\ offer \in [Instances -> Offer \cup {None}]
  /\ task \in [Instances -> Task \cup {None}]
  /\ running \in [Instances -> Versions]
  /\ kept \in [Instances -> Versions \cup {None}]
  /\ overtaken \subseteq Releases
  /\ forgotten \subseteq Attempts \cup {None}

\* At most one release is in a canary, paused or being rolled back
\* (ensure_no_other_controlled_release), however publishing, pausing,
\* rolling back and retrying a failed rollback interleave.
OneControlledRelease ==
  \A r, s \in Releases : rollout[r] \in Controlled /\ rollout[s] \in Controlled => r = s

\* The rollout states change as ReleaseControl says.
Control == INSTANCE ReleaseControl
ImplementsControl == Control!Spec

\* An upgrade leaves "pending" for the instance only while its release is
\* offered: neither a delivery decided before a pause or a rollback nor a
\* late report on an earlier try gets it going.
PauseHoldsBack ==
  [][\A a \in Rows : /\ row[a].op = "upgrade"
                     /\ status[a] = "pending"
                     /\ status'[a] \in {"waiting", "installing"}
                     => rollout[row[a].rel] \in Offering]_vars

\* The instance was rolled back from the release.
WentBack(r, i) == \/ \E b \in Rows : /\ row[b].rel = r /\ row[b].inst = i
                                     /\ row[b].op = "rollback"
                                     /\ status[b] = "rollback_succeeded"
                  \/ Upgrades(r, i) \cap forgotten # {}

\* An instance gets a second upgrade to the same release only once it was
\* rolled back from it: automatic offers, publishing, batches and promotion
\* never upgrade it twice, whatever they read beforehand.  (The record of
\* that rollback may have gone with the version it returned to.)
SecondUpgradeAfterRollback ==
  [][\A a \in Attempts :
       (row[a] = None /\ row'[a] # None /\ row'[a].op = "upgrade") =>
         LET r == row'[a].rel
             i == row'[a].inst
         IN  Upgrades(r, i) # {} => WentBack(r, i)]_vars

\* What is finished stays as it is: a finished attempt changes only by a
\* retry, which counts it, or when an upgrade cancelled by the rollback of
\* its release turns out to have happened.
FinishedIsFinal ==
  [][\A a \in Rows :
       (row'[a] # None /\ status[a] \in Terminal /\ status'[a] # status[a]) =>
         \/ retry'[a] = retry[a] + 1 /\ status'[a] = "pending"
         \/ /\ status[a] = "cancelled" /\ status'[a] = "succeeded"
            /\ rollout[row[a].rel] = "rollback_active"]_vars

\* "rolled_back" means it: every upgrade the release achieved has been
\* rolled back, unless an attempt changed between the last counts of the
\* reconciliation that said so.  The record of the rollback stays with it until
\* the version it returned to is deleted.  (Every value has its type, too.)
RolledBackIsBack ==
  /\ TypeOK
  /\ \A r \in Releases \ overtaken :
       rollout[r] = "rolled_back" =>
         \A u \in LatestUpgrades(r) :
           \/ \E a \in RollbacksOf(u) : status[a] = "rollback_succeeded"
           \/ u \in forgotten

\* Deleting a release strands nobody: an instance that could be rolled back
\* to it still can, and a rollback on its way to it keeps a version to
\* install (the guards of delete_agent_release mirror the preconditions of
\* queue_rollback_for_upgrade, see its comment).
UsableUpgrades == {u \in Rows : /\ row[u].op = "upgrade" /\ status[u] = "succeeded"
                                /\ CanRollBack(u)}
Supplied == {a \in ActiveRows : row[a].op = "rollback" /\ HasPackage(row[a].inst, row[a].to)}
DeletionKeepsWayBack ==
  [][\A r \in Releases :
       rollout[r] # "deleted" /\ rollout'[r] = "deleted" =>
         /\ \A u \in UsableUpgrades : row'[u] # None => u \in UsableUpgrades'
         /\ Supplied \subseteq Supplied']_vars

\* A release being rolled back with nothing under way does not stay so.
Idle(r) == /\ RowsOf(r) \cap ActiveRows = {}
           /\ \A u \in LatestUpgrades(r) : ~Busy(row[u].inst)
BoundReached == next > MaxAttempts
Settling(r) == rollout[r] = "rollback_active" /\ Idle(r) /\ ~BoundReached
RollbackSettles == \A r \in Releases : Settling(r) ~> ~Settling(r)

\* README: rolling back a release stops its distribution and cancels the
\* upgrades not delivered yet.
RollbackStopsDistribution ==
  \A a \in ActiveRows : row[a].op = "upgrade" /\ status[a] = "pending" =>
                          rollout[row[a].rel] \notin Withdrawn
=============================================================================
