-------------------------- MODULE AlertEvaluation --------------------------
(***************************************************************************)
(* The alert rules of one instance: when an observation of the connection, *)
(* of a metric or of the expiry date opens an event, and what closes it    *)
(* (alerts.rs, with the callers in ws.rs and main.rs).                     *)
(*                                                                         *)
(* Times are kept as ages, which grow with Tick up to a bound, so that     *)
(* time need not end.  An observation carries the age of the reading of    *)
(* the clock it was made with, because it waits for statements of others.  *)
(***************************************************************************)
EXTENDS Integers, FiniteSets

CONSTANTS
  OfflineRules, MetricRules, ExpiryRules,   \* rules by what they watch
  Conns,        \* tasks of websocket connections of the instance
  Requests,     \* requests of the console that revoke the connection
  Loop,         \* alert_evaluation_loop
  None,
  Duration,     \* duration_seconds of offline and metric rules, in ticks
  Stability,    \* OFFLINE_RECOVERY_STABILITY_SECONDS, in ticks
  MaxLag,       \* bound: an observation is at most so many ticks under way
  MaxChanges,   \* bound: changes by administrators and restarts
  Windows       \* bound: what the administrators' windows cover, "global", "node" or a rule

Versions == 1 .. MaxChanges + 1
Rules == OfflineRules \cup MetricRules \cup ExpiryRules
Tasks == Conns \cup Requests \cup {Loop}

ASSUME KindAssumption ==
  /\ OfflineRules \cap MetricRules = {} /\ OfflineRules \cap ExpiryRules = {}
  /\ MetricRules \cap ExpiryRules = {}
ASSUME TaskAssumption ==
  Conns \cap Requests = {} /\ Loop \notin Conns \cup Requests /\ None \notin Tasks
ASSUME BoundAssumption ==
  /\ Duration \in Nat /\ Stability \in Nat /\ MaxLag \in Nat
  /\ Windows \subseteq {"global", "node"} \cup Rules
  /\ MaxChanges \in Nat

VARIABLES
  instance,   \* "approved", "disabled" or "deleted"
  rule,       \* alert_rules: whether it is on, off or deleted, and its version
  row,        \* alert_evaluation_states of the rule and the instance
  event,      \* the unresolved row of alert_events, or none
  window,     \* what the maintenance window in force covers
  expiring,   \* expires_at is within the threshold
  current,    \* the connection in state.agents
  grace,      \* the process started less than 60 seconds ago
  task,       \* where a task is and what it has read
  changes,
  badAge,     \* history: age of the last abnormal observation taken in
  calmAge     \* history: age of the last normal one, or of a lost connection

tables == <<instance, rule, row, event, window, expiring>>
history == <<badAge, calmAge>>
vars   == <<tables, current, grace, task, changes, history>>

\* Ages that nothing tells apart are one.
MaxAge == MaxLag + 1 + (IF Duration > Stability THEN Duration ELSE Stability)
Ages   == 0 .. MaxAge
Older(age, most) == IF age = None \/ age >= most THEN age ELSE age + 1
OldestPending  == Duration + MaxLag
OldestRecovery == Stability + MaxLag
OldestSample   == MaxLag + 1

DurationOf(r) == IF r \in ExpiryRules THEN 0 ELSE Duration

\* EvaluationRow: pending_since, recovery_since, last_sample_at with last_value.
Empty(v) == [ver |-> v, pending |-> None, recovery |-> None, sample |-> None, bad |-> FALSE]
Row      == [ver : Versions, pending : Ages \cup {None},
             recovery : Ages \cup {None}, sample : Ages \cup {None}, bad : BOOLEAN]
Event    == [status : {"firing", "acknowledged"}, ver : Versions, muted : BOOLEAN]

ASSUME NoneAssumption == None \notin Ages /\ None \notin Row /\ None \notin Event

Points == {"idle", "upgraded", "connected", "observe", "reset", "offline", "serving", "metric",
           "work", "expiry", "grace", "refresh", "revoke"}
Idle   == [at |-> "idle", then |-> "idle", age |-> 0, todo |-> {}, bad |-> FALSE]

Init ==
  /\ instance = "approved"
  /\ rule = [r \in Rules |-> [state |-> "on", ver |-> 1]]
  /\ row = [r \in Rules |-> None]
  /\ event = [r \in Rules |-> None]
  /\ window = "none" /\ expiring = FALSE
  /\ current = None /\ grace = TRUE
  /\ task = [t \in Tasks |-> Idle]
  /\ changes = 0
  /\ badAge = [r \in Rules |-> OldestRecovery]
  /\ calmAge = [r \in Rules |-> OldestPending]

Open(r) == event[r] # None
Online  == current # None

-----------------------------------------------------------------------------
(***************************************************************************)
(* Time.                                                                   *)
(***************************************************************************)
\* The clock was read for the observation a task is making.
Busy(t) == task[t].at \in {"offline", "metric", "work", "expiry", "grace", "refresh"}

Tick ==
  /\ \A t \in Tasks : Busy(t) => task[t].age < MaxLag
  /\ row' = [r \in Rules |->
       IF row[r] = None THEN None
       ELSE [row[r] EXCEPT !.pending = Older(@, OldestPending),
                                  !.recovery = Older(@, OldestRecovery),
                                  !.sample = Older(@, OldestSample)]]
  /\ badAge'  = [r \in Rules |-> Older(badAge[r], OldestRecovery)]
  /\ calmAge' = [r \in Rules |-> Older(calmAge[r], OldestPending)]
  /\ task' = [t \in Tasks |-> [task[t] EXCEPT !.age = IF Busy(t) THEN @ + 1 ELSE 0]]
  /\ UNCHANGED <<instance, rule, event, window, expiring, current, grace, changes>>

\* startup_grace_defers_offline no longer holds.
GraceEnds ==
  /\ grace /\ grace' = FALSE
  /\ UNCHANGED <<tables, current, task, changes, history>>

-----------------------------------------------------------------------------
(***************************************************************************)
(* process_rule_observation: one transaction that locks the rule and the   *)
(* instance against changes and the evaluation row against other           *)
(* observations.                                                           *)
(***************************************************************************)
Covered(r) == window \in {"global", "node", r}

\* suppression_reason_tx
Suppressed(r) ==
  \/ Covered(r)
  \/ r \in MetricRules /\ \E o \in OfflineRules : Open(o)

\* observation_is_stale, of an observation made age ago.
\* Faulty: late observations are taken in.
StaleNever(e, age, bad) == FALSE

Stale(e, age, bad) ==
  /\ e.sample # None
  /\ \/ age > e.sample
     \/ age = e.sample /\ e.bad = bad

\* Faulty: every normal observation starts the stability window again.
RecoveryRestarted(r, e, age) ==
  IF r \in OfflineRules /\ Open(r)
  THEN IF Stability = 0 THEN [confirmed |-> TRUE, since |-> None]
                        ELSE [confirmed |-> FALSE, since |-> age]
  ELSE [confirmed |-> TRUE, since |-> None]

\* recovery_confirmation: an offline event needs a stable connection.
Recovery(r, e, age) ==
  IF r \in OfflineRules /\ Open(r)
  THEN LET since == IF e.recovery = None THEN age ELSE e.recovery
       IN  IF since - age >= Stability THEN [confirmed |-> TRUE, since |-> None]
                                       ELSE [confirmed |-> FALSE, since |-> since]
  ELSE [confirmed |-> TRUE, since |-> None]

Normal(r, e, age) ==
  LET rec == Recovery(r, e, age)
  IN  /\ row' = [row EXCEPT ![r] =
           [e EXCEPT !.pending = None, !.recovery = rec.since, !.sample = age, !.bad = FALSE]]
      /\ event' = IF rec.confirmed THEN [event EXCEPT ![r] = None] ELSE event

\* pending_should_fire
Fires(r, e, age) ==
  \/ DurationOf(r) = 0
  \/ e.pending # None /\ e.sample # None /\ e.pending - age >= Duration

\* Faulty: an abnormal observation leaves the stability window running.
SeenForgetful(e, age) == [e EXCEPT !.sample = age, !.bad = TRUE]

Seen(e, age) == [e EXCEPT !.recovery = None, !.sample = age, !.bad = TRUE]

Abnormal(r, v, e, age) ==
  IF Open(r)
  THEN /\ row' = [row EXCEPT ![r] = Seen(e, age)]
       /\ event' = [event EXCEPT ![r].muted = Suppressed(r)]
  ELSE /\ row' = [row EXCEPT ![r] =
            [Seen(e, age) EXCEPT !.pending = IF @ = None THEN age ELSE @]]
       /\ event' = IF Fires(r, e, age)
                   THEN [event EXCEPT ![r] = [status |-> "firing", ver |-> v,
                                              muted |-> Suppressed(r)]]
                   ELSE event

\* The rule as the observation read it is the rule as it is now.
\* Faulty: the version is not compared.
SameRuleEnabled(r, v) == rule[r].state = "on"

SameRule(r, v) == rule[r] = [state |-> "on", ver |-> v]

\* The row of an older version starts afresh.
Evaluation(r) ==
  IF row[r] = None \/ row[r].ver # rule[r].ver THEN Empty(rule[r].ver) ELSE row[r]

\* RuleObservation::Connection looks in the registry only under the locks.
Reading(t, r) == IF r \in OfflineRules THEN ~Online ELSE task[t].bad

Process(t, r, v) ==
  /\ task[t].at = "work" /\ <<r, v>> \in task[t].todo
  /\ task' = [task EXCEPT ![t].todo = @ \ {<<r, v>>}]
  /\ IF ~SameRule(r, v) THEN UNCHANGED <<row, event, history>>
     ELSE IF instance # "approved"
     THEN row' = [row EXCEPT ![r] = None] /\ UNCHANGED <<event, history>>
     ELSE LET e == Evaluation(r)
              age == task[t].age
              bad == Reading(t, r)
          IN  IF Stale(e, age, bad)
              THEN row' = [row EXCEPT ![r] = e] /\ UNCHANGED <<event, history>>
              ELSE /\ IF bad THEN Abnormal(r, v, e, age) ELSE Normal(r, e, age)
                   /\ badAge' = IF bad THEN [badAge EXCEPT ![r] = age] ELSE badAge
                   /\ calmAge' = IF bad THEN calmAge ELSE [calmAge EXCEPT ![r] = age]
  /\ UNCHANGED <<instance, rule, window, expiring, current, grace, changes>>

-----------------------------------------------------------------------------
(***************************************************************************)
(* What tasks observe.                                                     *)
(***************************************************************************)
GoTo(t, at) == task' = [task EXCEPT ![t].at = at]
Matching(rs) == {<<r, rule[r].ver>> : r \in {x \in rs : rule[x].state = "on"}}

\* The rules that match are read once; the observations follow, one by one.
Work(t, rs, bad, age, then) ==
  task' = [task EXCEPT ![t] = [at |-> "work", then |-> then, age |-> age,
                               todo |-> Matching(rs), bad |-> bad]]

WorkDone(t) ==
  /\ task[t].at = "work" /\ task[t].todo = {}
  /\ task' = [task EXCEPT ![t] =
       [Idle EXCEPT !.at = task[t].then, !.then = IF t = Loop THEN "refresh" ELSE "idle",
                    !.age = IF t = Loop THEN task[t].age ELSE 0]]
  /\ UNCHANGED <<tables, current, grace, changes, history>>

\* observe_connection: what the registry says when it is asked, not what the
\* caller saw.
ObserveConnection(t) ==
  /\ task[t].at = "observe"
  /\ GoTo(t, IF Online THEN "offline" ELSE "reset")
  /\ UNCHANGED <<tables, current, grace, changes, history>>

\* reset_metric_pending_states
Pending(r) == r \in MetricRules /\ row[r] # None /\ row[r].pending # None /\ ~Open(r)
ResetRows == [r \in Rules |-> IF Pending(r) THEN None ELSE row[r]]

\* For the history: a lost connection counts as normal.  With the row goes the
\* time of its last sample, so that an observation still under way, made before
\* the loss, is taken in as if it were the first.
Carried(r) == \E t \in Tasks : \/ task[t].at = "metric"
                               \/ \E v \in Versions : <<r, v>> \in task[t].todo
Calmed(late) == [r \in Rules |-> IF ~Pending(r) THEN calmAge[r]
                                 ELSE IF r \in late THEN OldestPending ELSE 0]

ResetPending(t) ==
  /\ task[t].at = "reset"
  /\ row' = ResetRows /\ calmAge' = Calmed({r \in Rules : Carried(r)})
  /\ GoTo(t, "offline")
  /\ UNCHANGED <<instance, rule, event, window, expiring, current, grace, changes, badAge>>

\* observe_offline_at up to its observations
ObserveOffline(t) ==
  /\ task[t].at = "offline"
  /\ IF instance = "approved"
     THEN Work(t, OfflineRules, FALSE, task[t].age, task[t].then) /\ row' = row
     ELSE Work(t, {}, FALSE, task[t].age, task[t].then) /\ row' = [r \in Rules |-> None]
  /\ UNCHANGED <<instance, rule, event, window, expiring, current, grace, changes, history>>

-----------------------------------------------------------------------------
(***************************************************************************)
(* A connection: agent_socket.                                             *)
(***************************************************************************)
\* The first authorization, at the upgrade.
Upgrade(c) ==
  /\ task[c] = Idle /\ instance = "approved"
  /\ GoTo(c, "upgraded")
  /\ UNCHANGED <<tables, current, grace, changes, history>>

Register(c) ==
  /\ task[c].at = "upgraded"
  /\ current' = c /\ GoTo(c, "connected")
  /\ UNCHANGED <<tables, grace, changes, history>>

\* The second authorization.
Authorize(c) ==
  /\ task[c].at = "connected"
  /\ IF instance = "approved"
     THEN /\ task' = [task EXCEPT ![c].at = "observe", ![c].then = "serving"]
          /\ current' = current
     ELSE /\ GoTo(c, "idle")
          /\ current' = IF current = c THEN None ELSE current
  /\ UNCHANGED <<tables, grace, changes, history>>

\* store_metrics of the current connection; a missing or impossible value of a
\* metric leaves its rule out (metric_value).
Report(c, bad) ==
  /\ task[c].at = "serving" /\ current = c
  /\ task' = [task EXCEPT ![c] = [Idle EXCEPT !.at = "metric", !.bad = bad]]
  /\ UNCHANGED <<tables, current, grace, changes, history>>

ObserveMetric(c, rs) ==
  /\ task[c].at = "metric" /\ rs \subseteq MetricRules
  /\ Work(c, rs, task[c].bad, task[c].age, "serving")
  /\ UNCHANGED <<tables, current, grace, changes, history>>

\* The socket ends; only the current connection's end is observed.
Unregister(c) ==
  /\ task[c].at = "serving"
  /\ IF current = c
     THEN /\ current' = None
          /\ task' = [task EXCEPT ![c] = [Idle EXCEPT !.at = "observe"]]
     ELSE /\ task' = [task EXCEPT ![c] = Idle] /\ current' = current
  /\ UNCHANGED <<tables, grace, changes, history>>

Connection(c) ==
  \/ Upgrade(c) \/ Register(c) \/ Authorize(c)
  \/ \E bad \in BOOLEAN : Report(c, bad)
  \/ \E rs \in SUBSET MetricRules : ObserveMetric(c, rs)
  \/ Unregister(c)

-----------------------------------------------------------------------------
(***************************************************************************)
(* alert_evaluation_loop.                                                  *)
(***************************************************************************)
LoopTick ==
  /\ task[Loop] = Idle
  /\ task' = [task EXCEPT ![Loop] =
       [Idle EXCEPT !.at = IF instance = "approved" THEN "expiry" ELSE "refresh",
                    !.then = "grace"]]
  /\ UNCHANGED <<tables, current, grace, changes, history>>

\* observe_expiration_at
ObserveExpiration ==
  /\ task[Loop].at = "expiry"
  /\ Work(Loop, IF instance = "approved" THEN ExpiryRules ELSE {}, expiring,
          task[Loop].age, "grace")
  /\ UNCHANGED <<tables, current, grace, changes, history>>

\* An instance that is offline just after the start is given time to reconnect.
\* Faulty: the time since the start is not compared.
GraceForever(t) == IF ~Online THEN "refresh" ELSE "offline"

GraceDecision(t) == IF ~Online /\ grace THEN "refresh" ELSE "offline"

LoopGrace ==
  /\ task[Loop].at = "grace"
  /\ task' = [task EXCEPT ![Loop].at = GraceDecision(Loop), ![Loop].then = "refresh"]
  /\ UNCHANGED <<tables, current, grace, changes, history>>

\* refresh_active_suppression_states, whose transactions change one event each.
\* Faulty: only samples refresh the suppression.
RefreshForgetful(e, r) == e

Refresh(e, r) == IF e = None THEN None ELSE [e EXCEPT !.muted = Suppressed(r)]

RefreshSuppression ==
  /\ task[Loop].at = "refresh"
  /\ event' = [r \in Rules |-> Refresh(event[r], r)]
  /\ task' = [task EXCEPT ![Loop] = Idle]
  /\ UNCHANGED <<instance, rule, row, window, expiring, current, grace, changes, history>>

EvaluationLoop == LoopTick \/ ObserveExpiration \/ LoopGrace \/ RefreshSuppression

-----------------------------------------------------------------------------
(***************************************************************************)
(* Administrators.                                                         *)
(***************************************************************************)
Change == changes < MaxChanges /\ changes' = changes + 1

Without(f, rs) == [r \in Rules |-> IF r \in rs THEN None ELSE f[r]]
Forget(rs) == /\ event' = Without(event, rs) /\ row' = Without(row, rs)
              /\ badAge'  = [r \in Rules |-> IF r \in rs THEN OldestRecovery ELSE badAge[r]]
              /\ calmAge' = [r \in Rules |-> IF r \in rs THEN OldestPending ELSE calmAge[r]]

\* update_rule_tx with a changed condition, range or severity.
\* Faulty: the version is raised twice.
UpdateRuleTwice(r, on) ==
  /\ rule[r].state # "deleted" /\ Change
  /\ rule' = [rule EXCEPT ![r] = [state |-> IF on THEN "on" ELSE "off", ver |-> @.ver + 2]]
  /\ Forget({r})
  /\ UNCHANGED <<instance, window, expiring, current, grace, task>>

UpdateRule(r, on) ==
  /\ rule[r].state # "deleted" /\ Change
  /\ rule' = [rule EXCEPT ![r] = [state |-> IF on THEN "on" ELSE "off", ver |-> @.ver + 1]]
  /\ Forget({r})
  /\ UNCHANGED <<instance, window, expiring, current, grace, task>>

\* set_rule_enabled, and update_rule_tx when nothing else changes.
SetRuleEnabled(r, on) ==
  /\ rule[r].state = (IF on THEN "off" ELSE "on")
  /\ Change
  /\ rule' = [rule EXCEPT ![r].state = IF on THEN "on" ELSE "off"]
  /\ IF on THEN UNCHANGED <<event, row, history>> ELSE Forget({r})
  /\ UNCHANGED <<instance, window, expiring, current, grace, task>>

\* delete_rule; a window for this rule alone goes with it.
DeleteRule(r) ==
  /\ rule[r].state # "deleted" /\ Change
  /\ rule' = [rule EXCEPT ![r].state = "deleted"]
  /\ Forget({r})
  /\ window' = IF window = r THEN "none" ELSE window
  /\ UNCHANGED <<instance, expiring, current, grace, task>>

Acknowledge(r) ==
  /\ Open(r) /\ event[r].status = "firing" /\ Change
  /\ event' = [event EXCEPT ![r].status = "acknowledged"]
  /\ UNCHANGED <<instance, rule, row, window, expiring, current, grace, task, history>>

\* validate_maintenance_targets
Target(w) == /\ w \in Rules => rule[w].state # "deleted"
             /\ w = "node" => instance # "deleted"

SetWindow(w) ==
  /\ window' = w /\ Change
  /\ UNCHANGED <<instance, rule, row, event, expiring, current, grace, task, history>>

CreateMaintenance(w) == window = "none" /\ Target(w) /\ SetWindow(w)
UpdateMaintenance(w) == window \notin {"none", w} /\ Target(w) /\ SetWindow(w)

\* delete_maintenance, an update that disables it, and the hour when it ends
DeleteMaintenance == window # "none" /\ SetWindow("none")

\* The date comes nearer, or the administrator sets another one.
Expiry ==
  /\ ExpiryRules # {} /\ expiring' = ~expiring /\ Change
  /\ UNCHANGED <<instance, rule, row, event, window, current, grace, task, history>>

\* resolve_instance, in the transaction of the request that revokes
Revoke(q, state) ==
  /\ task[q] = Idle /\ Change
  /\ instance' = state
  /\ Forget(Rules)
  /\ GoTo(q, "revoke")
  /\ UNCHANGED <<rule, expiring, current, grace>>

\* admin_disable_instance up to the commit
DisableInstance(q) == instance = "approved" /\ Revoke(q, "disabled") /\ window' = window

\* admin_delete_instance up to the commit, with remove_instance_maintenance_target
DeleteInstance(q) ==
  /\ instance # "deleted" /\ Revoke(q, "deleted")
  /\ window' = IF window = "node" THEN "none" ELSE window

\* revoke_instance_connection
RevokeConnection(q) ==
  /\ task[q].at = "revoke"
  /\ current' = None
  /\ task' = [task EXCEPT ![q] = IF Online THEN [Idle EXCEPT !.at = "observe"] ELSE Idle]
  /\ UNCHANGED <<tables, grace, changes, history>>

Administrators ==
  \/ \E r \in Rules : \/ \E on \in BOOLEAN : UpdateRule(r, on) \/ SetRuleEnabled(r, on)
                      \/ DeleteRule(r) \/ Acknowledge(r)
  \/ \E w \in Windows : CreateMaintenance(w) \/ UpdateMaintenance(w)
  \/ DeleteMaintenance
  \/ Expiry
  \/ \E q \in Requests : DisableInstance(q) \/ DeleteInstance(q) \/ RevokeConnection(q)

\* The process starts again: main.rs resets what is pending.
RestartBackend ==
  /\ Change
  /\ task' = [t \in Tasks |-> Idle]
  /\ current' = None /\ grace' = TRUE
  /\ row' = ResetRows /\ calmAge' = Calmed({})
  /\ UNCHANGED <<instance, rule, event, window, expiring, badAge>>

-----------------------------------------------------------------------------
Observe(t) ==
  \/ ObserveConnection(t) \/ ResetPending(t) \/ ObserveOffline(t)
  \/ \E r \in Rules, v \in Versions : Process(t, r, v)
  \/ WorkDone(t)

Next ==
  \/ Tick \/ GraceEnds
  \/ \E t \in Tasks : Observe(t)
  \/ \E c \in Conns : Connection(c)
  \/ EvaluationLoop
  \/ Administrators
  \/ RestartBackend

Spec == Init /\ [][Next]_vars

\* Time goes on, the loop ticks every 5 seconds, and tasks of the runtime take
\* their next step.  Nothing is assumed of agents and administrators.
Fairness ==
  /\ WF_vars(Tick) /\ WF_vars(GraceEnds) /\ WF_vars(EvaluationLoop)
  /\ \A t \in Tasks : WF_vars(Observe(t))
  /\ \A c \in Conns : WF_vars(Authorize(c) \/ \E rs \in SUBSET MetricRules : ObserveMetric(c, rs))
  /\ \A q \in Requests : WF_vars(RevokeConnection(q))
FairSpec == Spec /\ Fairness

-----------------------------------------------------------------------------
(***************************************************************************)
(* Properties.                                                             *)
(***************************************************************************)
\* The tables and the tasks have the shape the code gives them.
TypeOK ==
  /\ instance \in {"approved", "disabled", "deleted"}
  /\ rule \in [Rules -> [state : {"on", "off", "deleted"}, ver : Versions]]
  /\ row \in [Rules -> Row \cup {None}]
  /\ event \in [Rules -> Event \cup {None}]
  /\ window \in {"none", "global", "node"} \cup Rules
  /\ expiring \in BOOLEAN /\ grace \in BOOLEAN
  /\ current \in Conns \cup {None}
  /\ task \in [Tasks -> [at : Points, then : Points, age : 0 .. MaxLag, bad : BOOLEAN,
                         todo : SUBSET (Rules \X Versions)]]
  /\ changes \in 0 .. MaxChanges
  /\ badAge \in [Rules -> Ages] /\ calmAge \in [Rules -> Ages]

\* An open alert belongs to an approved instance and to a rule that is on and
\* has not changed since: whoever turns a rule off, changes or deletes it, or
\* disables or deletes the instance, closes the alert, and an observation that
\* read the rule before opens none afterwards.  (Every value has its type, too.)
OpenIsWarranted ==
  /\ TypeOK
  /\ \A r \in Rules :
       Open(r) => /\ instance = "approved" /\ rule[r].state = "on"
                  /\ event[r].ver = rule[r].ver

\* The step is an observation of rule r by task t, not a change by a person.
Observes(t, r) == \E v \in Versions :
                    <<r, v>> \in task[t].todo /\ <<r, v>> \notin task'[t].todo

\* An offline alert recovers only when no observation was abnormal for the whole
\* stability window, however connections and late observations interleave.
RecoveryIsStable ==
  [][\A t \in Tasks, r \in OfflineRules :
       Observes(t, r) /\ Open(r) /\ event'[r] = None
         => badAge[r] - task[t].age >= Stability]_vars

\* An alert with a duration fires only when no observation was normal, and for
\* a metric the connection was not seen lost, for the whole duration.  One
\* exception: a loss that deletes the row while an observation made before it
\* is under way lets the evaluation begin anew, whatever was normal before.
FiringIsSustained ==
  [][\A t \in Tasks, r \in OfflineRules \cup MetricRules :
       Observes(t, r) /\ ~Open(r) /\ event'[r] # None
         => calmAge[r] - task[t].age >= Duration]_vars

\* An instance that stays away has its offline alert, and one that stays has
\* none, although observations that come late are thrown away.
Watched(r) == instance = "approved" /\ rule[r].state = "on"
OfflineIsNoticed ==
  \A r \in OfflineRules : <>[](Watched(r) /\ ~Online) => <>[]Open(r)
OnlineIsCleared ==
  \A r \in OfflineRules : <>[](Watched(r) /\ Online) => <>[]~Open(r)

\* What the console shows as muted is so, although no sample arrives.
MutedSettles ==
  \A r \in Rules :
    /\ <>[]Suppressed(r) => <>[](Open(r) => event[r].muted)
    /\ <>[]~Suppressed(r) => <>[](Open(r) => ~event[r].muted)

\* The alerts follow the connection, and the maintenance windows and the other
\* alerts that mute them.
AlertsFollow == OfflineIsNoticed /\ OnlineIsCleared /\ MutedSettles
=============================================================================
