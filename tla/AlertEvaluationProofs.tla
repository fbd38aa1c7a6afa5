----------------------- MODULE AlertEvaluationProofs -----------------------
(***************************************************************************)
(* Theorems about AlertEvaluation for any set of rules, connections and    *)
(* requests, and for any duration, stability window and delay.             *)
(***************************************************************************)
EXTENDS AlertEvaluation, TLAPS

TaskType == [at : Points, then : Points, age : 0 .. MaxLag, bad : BOOLEAN,
             todo : SUBSET (Rules \X Versions)]

\* A rule has as many versions as it was changed.
VersionsFollow == \A r \in Rules : rule[r].ver <= changes + 1

\* The alert that is open belongs to the rule as it is.
Warranted(r) ==
  Open(r) => /\ instance = "approved" /\ rule[r].state = "on" /\ event[r].ver = rule[r].ver

IWarranted == TypeOK /\ VersionsFollow /\ \A r \in Rules : Warranted(r)

LEMMA Bounds ==
  /\ MaxLag \in Nat /\ MaxAge \in Nat /\ 0 .. MaxLag \subseteq Ages /\ MaxChanges \in Nat
  /\ OldestPending \in Ages /\ OldestRecovery \in Ages /\ OldestSample \in Ages
BY BoundAssumption DEF MaxAge, Ages, OldestPending, OldestRecovery, OldestSample

LEMMA OlderAge ==
  ASSUME NEW age \in Ages, NEW most \in Ages
  PROVE  Older(age, most) \in Ages
BY Bounds DEF Older, Ages

LEMMA OlderOrNone ==
  ASSUME NEW age \in Ages \cup {None}, NEW most \in Ages
  PROVE  Older(age, most) \in Ages \cup {None}
BY OlderAge DEF Older

LEMMA IdleType == Idle \in TaskType
BY Bounds DEF Idle, TaskType, Points

\* What holds at first.
LEMMA InitWarranted == Init => IWarranted
<1> SUFFICES ASSUME Init PROVE IWarranted
  OBVIOUS
<1>1. task \in [Tasks -> TaskType]
  BY IdleType DEF Init
<1>2. 1 \in Versions /\ changes \in 0 .. MaxChanges
  BY Bounds DEF Init, Versions
<1>3. rule \in [Rules -> [state : {"on", "off", "deleted"}, ver : Versions]]
  BY <1>2 DEF Init
<1>4. badAge \in [Rules -> Ages] /\ calmAge \in [Rules -> Ages]
  BY Bounds DEF Init
<1>5. TypeOK
  BY <1>1, <1>2, <1>3, <1>4 DEF Init, TypeOK, TaskType
<1>6. QED
  BY <1>5 DEF Init, IWarranted, VersionsFollow, Warranted, Open

\* Steps of tasks that touch neither tables nor history.
LEMMA TasksOnly ==
  ASSUME IWarranted, UNCHANGED <<tables, changes, history>>,
         task' \in [Tasks -> TaskType], current' \in Conns \cup {None}, grace' \in BOOLEAN
  PROVE  IWarranted'
<1>1. TypeOK'
  BY DEF IWarranted, TypeOK, tables, history, TaskType
<1>2. QED
  BY <1>1 DEF IWarranted, VersionsFollow, Warranted, Open, tables, history

\* A task that begins its work has the rules it read.
LEMMA WorkType ==
  ASSUME TypeOK, NEW t \in Tasks, NEW rs \in SUBSET Rules, NEW bad \in BOOLEAN,
         NEW age \in 0 .. MaxLag, NEW then \in Points, Work(t, rs, bad, age, then)
  PROVE  task' \in [Tasks -> TaskType]
<1>1. Matching(rs) \in SUBSET (Rules \X Versions)
  BY DEF Matching, TypeOK
<1>2. "work" \in Points
  BY DEF Points
<1>3. [at |-> "work", then |-> then, age |-> age, todo |-> Matching(rs), bad |-> bad] \in TaskType
  BY <1>1, <1>2 DEF TaskType
<1>4. QED
  BY <1>3 DEF Work, TypeOK, TaskType

LEMMA GoToType ==
  ASSUME TypeOK, NEW t \in Tasks, NEW at \in Points, GoTo(t, at)
  PROVE  task' \in [Tasks -> TaskType]
BY SMTT(60) DEF GoTo, TypeOK, TaskType

LEMMA TickStep ==
  ASSUME IWarranted, Tick
  PROVE  IWarranted'
<1> USE DEF IWarranted
<1>1. row' \in [Rules -> Row \cup {None}]
  <2> SUFFICES ASSUME NEW r \in Rules, row[r] # None
               PROVE  [row[r] EXCEPT !.pending = Older(@, OldestPending),
                                     !.recovery = Older(@, OldestRecovery),
                                     !.sample = Older(@, OldestSample)] \in Row
    BY DEF Tick
  <2>1. row[r] \in Row
    BY DEF TypeOK
  <2>2. /\ Older(row[r].pending, OldestPending) \in Ages \cup {None}
        /\ Older(row[r].recovery, OldestRecovery) \in Ages \cup {None}
        /\ Older(row[r].sample, OldestSample) \in Ages \cup {None}
    BY <2>1, Bounds, OlderOrNone DEF Row
  <2>3. QED
    BY <2>1, <2>2 DEF Row
<1>2. badAge' \in [Rules -> Ages] /\ calmAge' \in [Rules -> Ages]
  BY Bounds, OlderAge DEF Tick, TypeOK
<1>3. task' \in [Tasks -> TaskType]
  <2> SUFFICES ASSUME NEW t \in Tasks
               PROVE  [task[t] EXCEPT !.age = IF Busy(t) THEN @ + 1 ELSE 0] \in TaskType
    BY DEF Tick
  <2>1. task[t] \in TaskType
    BY DEF TypeOK, TaskType
  <2>2. Busy(t) => task[t].age < MaxLag
    BY DEF Tick
  <2>3. task[t].age \in 0 .. MaxLag
    BY <2>1 DEF TaskType
  <2>4. (IF Busy(t) THEN task[t].age + 1 ELSE 0) \in 0 .. MaxLag
    BY <2>2, <2>3, Bounds
  <2>5. QED
    BY <2>1, <2>4 DEF TaskType
<1>4. TypeOK'
  BY <1>1, <1>2, <1>3 DEF Tick, TypeOK, TaskType
<1>5. QED
  BY <1>4 DEF Tick, VersionsFollow, Warranted, Open

\* process_rule_observation opens an event only for the rule and the instance it
\* finds under its locks.
LEMMA EvaluationType ==
  ASSUME TypeOK, NEW r \in Rules
  PROVE  Evaluation(r) \in Row
BY DEF TypeOK, Evaluation, Empty, Row

LEMMA NormalStep ==
  ASSUME TypeOK, NEW r \in Rules, NEW e \in Row, NEW age \in 0 .. MaxLag, Normal(r, e, age)
  PROVE  /\ row' \in [Rules -> Row \cup {None}] /\ event' \in [Rules -> Event \cup {None}]
         /\ \A x \in Rules : event'[x] \in {event[x], None}
<1> DEFINE rec == Recovery(r, e, age)
<1>1. age \in Ages
  BY Bounds
<1>2. rec.since \in Ages \cup {None} /\ rec.confirmed \in BOOLEAN
  BY <1>1 DEF Recovery, Row
<1>3. [e EXCEPT !.pending = None, !.recovery = rec.since, !.sample = age, !.bad = FALSE] \in Row
  BY <1>1, <1>2 DEF Row
<1>4. QED
  BY <1>2, <1>3 DEF Normal, TypeOK

LEMMA AbnormalStep ==
  ASSUME TypeOK, NEW r \in Rules, NEW v \in Versions, NEW e \in Row, NEW age \in 0 .. MaxLag,
         Abnormal(r, v, e, age)
  PROVE  /\ row' \in [Rules -> Row \cup {None}] /\ event' \in [Rules -> Event \cup {None}]
         /\ \A x \in Rules \ {r} : event'[x] = event[x]
         /\ event'[r] # None =>
              IF event[r] # None THEN event'[r].ver = event[r].ver ELSE event'[r].ver = v
<1>1. age \in Ages
  BY Bounds
<1>2. Seen(e, age) \in Row
  BY <1>1 DEF Seen, Row
<1>3. [Seen(e, age) EXCEPT !.pending = IF @ = None THEN age ELSE @] \in Row
  BY <1>1, <1>2 DEF Row
<1>4. row' \in [Rules -> Row \cup {None}]
  BY <1>2, <1>3 DEF Abnormal, TypeOK
<1>5. Suppressed(r) \in BOOLEAN
  BY DEF Suppressed, Covered
<1>6. CASE Open(r)
  <2>1. event[r] \in Event /\ [event[r] EXCEPT !.muted = Suppressed(r)] \in Event
    BY <1>5, <1>6 DEF Open, TypeOK, Event
  <2>2. event' = [event EXCEPT ![r] = [event[r] EXCEPT !.muted = Suppressed(r)]]
    BY <1>6 DEF Abnormal
  <2>3. [event[r] EXCEPT !.muted = Suppressed(r)].ver = event[r].ver
    BY <2>1 DEF Event
  <2>4. QED
    BY <1>4, <1>6, <2>1, <2>2, <2>3 DEF Open, TypeOK
<1>7. CASE ~Open(r)
  <2>1. [status |-> "firing", ver |-> v, muted |-> Suppressed(r)] \in Event
    BY <1>5 DEF Event
  <2>2. QED
    BY <1>4, <1>7, <2>1 DEF Abnormal, Open, TypeOK
<1>8. QED
  BY <1>6, <1>7

LEMMA ProcessStep ==
  ASSUME IWarranted, NEW t \in Tasks, NEW r \in Rules, NEW v \in Versions, Process(t, r, v)
  PROVE  IWarranted'
<1> USE DEF IWarranted
<1>1. task' \in [Tasks -> TaskType]
  BY DEF Process, TypeOK, TaskType
<1>2. task[t].age \in 0 .. MaxLag /\ task[t].age \in Ages
  BY Bounds DEF TypeOK
<1>3. UNCHANGED <<instance, rule, window, expiring, current, grace, changes>>
  BY DEF Process
<1>4. SUFFICES /\ row' \in [Rules -> Row \cup {None}] /\ event' \in [Rules -> Event \cup {None}]
               /\ badAge' \in [Rules -> Ages] /\ calmAge' \in [Rules -> Ages]
               /\ \A x \in Rules : Warranted(x)'
  BY <1>1, <1>3 DEF TypeOK, TaskType, VersionsFollow
<1>5. CASE ~SameRule(r, v)
  BY <1>3, <1>5 DEF Process, TypeOK, Warranted, Open, history
<1>6. CASE SameRule(r, v) /\ instance # "approved"
  BY <1>3, <1>6 DEF Process, TypeOK, Warranted, Open, history
<1>7. CASE SameRule(r, v) /\ instance = "approved"
  <2> DEFINE e == Evaluation(r)
             age == task[t].age
             bad == Reading(t, r)
  <2>1. e \in Row
    BY EvaluationType
  <2>2. CASE Stale(e, age, bad)
    BY <1>3, <1>7, <2>1, <2>2 DEF Process, TypeOK, Warranted, Open, history
  <2>3. CASE ~Stale(e, age, bad)
    <3>1. badAge' \in [Rules -> Ages] /\ calmAge' \in [Rules -> Ages]
      BY <1>2, <1>7, <2>3 DEF Process, TypeOK
    <3>2. CASE bad
      <4>1. Abnormal(r, v, e, age)
        BY <1>7, <2>3, <3>2 DEF Process
      <4>2. /\ row' \in [Rules -> Row \cup {None}] /\ event' \in [Rules -> Event \cup {None}]
            /\ \A x \in Rules \ {r} : event'[x] = event[x]
            /\ event'[r] # None =>
                 IF event[r] # None THEN event'[r].ver = event[r].ver ELSE event'[r].ver = v
        BY <1>2, <2>1, <4>1, AbnormalStep
      <4>3. rule[r].state = "on" /\ rule[r].ver = v
        BY <1>7 DEF SameRule
      <4>4. QED
        BY <1>3, <1>7, <3>1, <4>2, <4>3 DEF Warranted, Open
    <3>3. CASE ~bad
      <4>1. Normal(r, e, age)
        BY <1>7, <2>3, <3>3 DEF Process
      <4>2. /\ row' \in [Rules -> Row \cup {None}] /\ event' \in [Rules -> Event \cup {None}]
            /\ \A x \in Rules : event'[x] \in {event[x], None}
        BY <1>2, <2>1, <4>1, NormalStep
      <4>3. QED
        BY <1>3, <3>1, <4>2 DEF Warranted, Open
    <3>4. QED
      BY <3>2, <3>3
  <2>4. QED
    BY <2>2, <2>3
<1>8. QED
  BY <1>5, <1>6, <1>7


\* The other steps of an observation.
LEMMA ResetType ==
  ASSUME TypeOK
  PROVE  /\ ResetRows \in [Rules -> Row \cup {None}]
         /\ \A late \in SUBSET Rules : Calmed(late) \in [Rules -> Ages]
BY Bounds DEF TypeOK, ResetRows, Calmed, Ages

LEMMA ObserveStep ==
  ASSUME IWarranted, NEW t \in Tasks, Observe(t)
  PROVE  IWarranted'
<1>0. TypeOK
  BY DEF IWarranted
<1>1. CASE ObserveConnection(t)
  <2>1. task' \in [Tasks -> TaskType]
    <3>1. (IF Online THEN "offline" ELSE "reset") \in Points
      BY DEF Points
    <3>2. QED
      BY <1>0, <1>1, <3>1, GoToType DEF ObserveConnection
  <2>2. QED
    BY <1>0, <1>1, <2>1, TasksOnly DEF ObserveConnection, TypeOK
<1>2. CASE ResetPending(t)
  <2>1. task' \in [Tasks -> TaskType]
    <3>1. "offline" \in Points
      BY DEF Points
    <3>2. QED
      BY <1>0, <1>2, <3>1, GoToType DEF ResetPending
  <2>2. TypeOK'
    BY <1>0, <1>2, <2>1, ResetType DEF ResetPending, TypeOK, TaskType
  <2>3. QED
    BY <1>2, <2>2 DEF ResetPending, IWarranted, VersionsFollow, Warranted, Open
<1>3. CASE ObserveOffline(t)
  <2>1. task[t].age \in 0 .. MaxLag /\ task[t].then \in Points
    BY <1>0 DEF TypeOK
  <2>2. task' \in [Tasks -> TaskType] /\ row' \in [Rules -> Row \cup {None}]
    <3>1. CASE instance = "approved"
      BY <1>0, <1>3, <2>1, <3>1, WorkType DEF ObserveOffline, TypeOK, Rules
    <3>2. CASE instance # "approved"
      BY <1>0, <1>3, <2>1, <3>2, WorkType DEF ObserveOffline
    <3>3. QED
      BY <3>1, <3>2
  <2>3. TypeOK'
    BY <1>0, <1>3, <2>2 DEF ObserveOffline, TypeOK, TaskType, history
  <2>4. QED
    BY <1>3, <2>3 DEF ObserveOffline, IWarranted, VersionsFollow, Warranted, Open, history
<1>4. CASE \E r \in Rules, v \in Versions : Process(t, r, v)
  BY <1>4, ProcessStep
<1>5. CASE WorkDone(t)
  <2>1. [Idle EXCEPT !.at = task[t].then, !.then = IF t = Loop THEN "refresh" ELSE "idle",
                     !.age = IF t = Loop THEN task[t].age ELSE 0] \in TaskType
    <3>1. task[t].then \in Points /\ task[t].age \in 0 .. MaxLag
      BY <1>0 DEF TypeOK
    <3>2. (IF t = Loop THEN "refresh" ELSE "idle") \in Points
      BY DEF Points
    <3>3. (IF t = Loop THEN task[t].age ELSE 0) \in 0 .. MaxLag
      BY <3>1, Bounds
    <3>4. QED
      BY <3>1, <3>2, <3>3, IdleType DEF TaskType
  <2>2. task' \in [Tasks -> TaskType]
    BY <1>0, <1>5, <2>1 DEF WorkDone, TypeOK, TaskType
  <2>3. QED
    BY <1>0, <1>5, <2>2, TasksOnly DEF WorkDone, TypeOK
<1>6. QED
  BY <1>1, <1>2, <1>3, <1>4, <1>5 DEF Observe

\* A connection registers, is authorized, samples and ends.
LEMMA ConnectionStep ==
  ASSUME IWarranted, NEW c \in Conns, Connection(c)
  PROVE  IWarranted'
<1>0. TypeOK /\ c \in Tasks
  BY DEF IWarranted, Tasks
<1>1. {"upgraded", "connected", "idle", "observe", "serving", "metric"} \subseteq Points
  BY DEF Points
<1>2. SUFFICES /\ UNCHANGED <<tables, changes, history, grace>>
               /\ task' \in [Tasks -> TaskType] /\ current' \in Conns \cup {None}
  BY <1>0, TasksOnly DEF TypeOK
<1>3. CASE Upgrade(c)
  BY <1>0, <1>1, <1>3, GoToType DEF Upgrade, TypeOK
<1>4. CASE Register(c)
  BY <1>0, <1>1, <1>4, GoToType DEF Register
<1>5. CASE Authorize(c)
  <2>1. CASE instance = "approved"
    BY <1>0, <1>1, <1>5, <2>1 DEF Authorize, TypeOK, TaskType
  <2>2. CASE instance # "approved"
    BY <1>0, <1>1, <1>5, <2>2, GoToType DEF Authorize, TypeOK
  <2>3. QED
    BY <2>1, <2>2
<1>6. CASE \E bad \in BOOLEAN : Report(c, bad)
  <2>1. PICK bad \in BOOLEAN : Report(c, bad)
    BY <1>6
  <2>2. [Idle EXCEPT !.at = "metric", !.bad = bad] \in TaskType
    BY <1>1, IdleType DEF TaskType
  <2>3. QED
    BY <1>0, <2>1, <2>2 DEF Report, TypeOK, TaskType
<1>7. CASE \E rs \in SUBSET MetricRules : ObserveMetric(c, rs)
  <2>1. PICK rs \in SUBSET MetricRules : ObserveMetric(c, rs)
    BY <1>7
  <2>2. rs \in SUBSET Rules /\ task[c].bad \in BOOLEAN /\ task[c].age \in 0 .. MaxLag
    BY <1>0 DEF Rules, TypeOK
  <2>3. QED
    BY <1>0, <1>1, <2>1, <2>2, WorkType DEF ObserveMetric, TypeOK
<1>8. CASE Unregister(c)
  <2>1. [Idle EXCEPT !.at = "observe"] \in TaskType
    BY <1>1, IdleType DEF TaskType
  <2>2. QED
    BY <1>0, <1>8, <2>1, IdleType DEF Unregister, TypeOK, TaskType
<1>9. QED
  BY <1>3, <1>4, <1>5, <1>6, <1>7, <1>8 DEF Connection

LEMMA LoopStep ==
  ASSUME IWarranted, EvaluationLoop
  PROVE  IWarranted'
<1>0. TypeOK /\ Loop \in Tasks
  BY DEF IWarranted, Tasks
<1>1. {"expiry", "refresh", "grace", "offline"} \subseteq Points
  BY DEF Points
<1>2. CASE LoopTick
  <2>1. [Idle EXCEPT !.at = IF instance = "approved" THEN "expiry" ELSE "refresh",
                     !.then = "grace"] \in TaskType
    BY <1>1, IdleType DEF TaskType
  <2>2. task' \in [Tasks -> TaskType]
    BY <1>0, <1>2, <2>1 DEF LoopTick, TypeOK, TaskType
  <2>3. QED
    BY <1>0, <1>2, <2>2, TasksOnly DEF LoopTick, TypeOK
<1>3. CASE ObserveExpiration
  <2>1. /\ (IF instance = "approved" THEN ExpiryRules ELSE {}) \in SUBSET Rules
        /\ expiring \in BOOLEAN /\ task[Loop].age \in 0 .. MaxLag
    BY <1>0 DEF Rules, TypeOK
  <2>2. task' \in [Tasks -> TaskType]
    BY <1>0, <1>1, <1>3, <2>1, WorkType DEF ObserveExpiration
  <2>3. QED
    BY <1>0, <1>3, <2>2, TasksOnly DEF ObserveExpiration, TypeOK
<1>4. CASE LoopGrace
  <2>1. GraceDecision(Loop) \in Points
    BY <1>1 DEF GraceDecision
  <2>2. task' \in [Tasks -> TaskType]
    BY <1>0, <1>1, <1>4, <2>1, ZenonT(60) DEF LoopGrace, TypeOK, TaskType
  <2>3. QED
    BY <1>0, <1>4, <2>2, TasksOnly DEF LoopGrace, TypeOK
<1>5. CASE RefreshSuppression
  <2>1. task' \in [Tasks -> TaskType]
    BY <1>0, <1>5, IdleType DEF RefreshSuppression, TypeOK, TaskType
  <2>2. ASSUME NEW r \in Rules
        PROVE  /\ Refresh(event[r], r) \in Event \cup {None}
               /\ event[r] = None => Refresh(event[r], r) = None
               /\ event[r] # None => Refresh(event[r], r).ver = event[r].ver
    <3>1. Suppressed(r) \in BOOLEAN
      BY DEF Suppressed, Covered
    <3>2. event[r] # None => event[r] \in Event
      BY <1>0 DEF TypeOK
    <3>3. QED
      BY <3>1, <3>2 DEF Refresh, Event
  <2>3. TypeOK'
    BY <1>0, <1>5, <2>1, <2>2 DEF RefreshSuppression, TypeOK, TaskType, history
  <2>4. QED
    BY <1>5, <2>2, <2>3 DEF RefreshSuppression, IWarranted, VersionsFollow, Warranted, Open
<1>6. QED
  BY <1>2, <1>3, <1>4, <1>5 DEF EvaluationLoop


\* What is forgotten with a rule, or with all of them, leaves no alert of it.
LEMMA ForgetStep ==
  ASSUME TypeOK, NEW rs \in SUBSET Rules, Forget(rs)
  PROVE  /\ row' \in [Rules -> Row \cup {None}] /\ event' \in [Rules -> Event \cup {None}]
         /\ badAge' \in [Rules -> Ages] /\ calmAge' \in [Rules -> Ages]
         /\ \A x \in Rules : event'[x] = IF x \in rs THEN None ELSE event[x]
<1>1. badAge' \in [Rules -> Ages] /\ calmAge' \in [Rules -> Ages]
  BY Bounds DEF Forget, TypeOK
<1>2. QED
  BY <1>1 DEF Forget, Without, TypeOK

LEMMA ChangeStep ==
  ASSUME IWarranted, Change
  PROVE  changes' \in 0 .. MaxChanges /\ changes' = changes + 1 /\ changes \in Nat
BY Bounds DEF IWarranted, TypeOK, Change

\* Whoever changes a rule, or turns it off, closes its alert.
LEMMA RuleStep ==
  ASSUME IWarranted, NEW r \in Rules,
         \/ \E on \in BOOLEAN : UpdateRule(r, on) \/ SetRuleEnabled(r, on)
         \/ DeleteRule(r)
  PROVE  IWarranted'
<1>0. TypeOK /\ rule[r] \in [state : {"on", "off", "deleted"}, ver : Versions]
  BY DEF IWarranted, TypeOK
<1>1. changes' \in 0 .. MaxChanges /\ changes' = changes + 1 /\ changes \in Nat
  BY ChangeStep DEF UpdateRule, SetRuleEnabled, DeleteRule
<1>2. CASE \E on \in BOOLEAN : UpdateRule(r, on)
  <2>1. PICK on \in BOOLEAN : UpdateRule(r, on)
    BY <1>2
  <2>2. rule[r].ver + 1 \in Versions
    BY <1>0, <1>1, Bounds DEF IWarranted, VersionsFollow, Versions
  <2>3. /\ rule' \in [Rules -> [state : {"on", "off", "deleted"}, ver : Versions]]
        /\ rule'[r].ver = rule[r].ver + 1 /\ \A x \in Rules \ {r} : rule'[x] = rule[x]
    BY <1>0, <2>1, <2>2 DEF UpdateRule, TypeOK
  <2>4. /\ row' \in [Rules -> Row \cup {None}] /\ event' \in [Rules -> Event \cup {None}]
        /\ badAge' \in [Rules -> Ages] /\ calmAge' \in [Rules -> Ages]
        /\ \A x \in Rules : event'[x] = IF x \in {r} THEN None ELSE event[x]
    BY <1>0, <2>1, ForgetStep DEF UpdateRule
  <2>5. TypeOK'
    BY <1>0, <1>1, <2>1, <2>3, <2>4 DEF UpdateRule, TypeOK
  <2>6. VersionsFollow'
    BY <1>0, <1>1, <2>3 DEF IWarranted, VersionsFollow, TypeOK, Versions
  <2>7. QED
    BY <2>1, <2>3, <2>4, <2>5, <2>6 DEF UpdateRule, IWarranted, Warranted, Open
<1>3. CASE \E on \in BOOLEAN : SetRuleEnabled(r, on)
  <2>1. PICK on \in BOOLEAN : SetRuleEnabled(r, on)
    BY <1>3
  <2>2. /\ rule' \in [Rules -> [state : {"on", "off", "deleted"}, ver : Versions]]
        /\ rule'[r].ver = rule[r].ver /\ \A x \in Rules \ {r} : rule'[x] = rule[x]
        /\ rule'[r].state = IF on THEN "on" ELSE "off"
    BY <1>0, <2>1 DEF SetRuleEnabled, TypeOK
  <2>3. VersionsFollow'
    BY <1>0, <1>1, <2>2 DEF IWarranted, VersionsFollow, TypeOK, Versions
  <2>4. CASE on
    <3>1. TypeOK' /\ UNCHANGED <<event, instance>>
      BY <1>0, <1>1, <2>1, <2>2, <2>4 DEF SetRuleEnabled, TypeOK, history
    <3>2. ~Open(r)
      BY <2>1, <2>4 DEF SetRuleEnabled, IWarranted, Warranted
    <3>3. QED
      BY <2>2, <2>3, <3>1, <3>2 DEF IWarranted, Warranted, Open
  <2>5. CASE ~on
    <3>1. /\ row' \in [Rules -> Row \cup {None}] /\ event' \in [Rules -> Event \cup {None}]
          /\ badAge' \in [Rules -> Ages] /\ calmAge' \in [Rules -> Ages]
          /\ \A x \in Rules : event'[x] = IF x \in {r} THEN None ELSE event[x]
      BY <1>0, <2>1, <2>5, ForgetStep DEF SetRuleEnabled
    <3>2. TypeOK' /\ UNCHANGED instance
      BY <1>0, <1>1, <2>1, <2>2, <3>1 DEF SetRuleEnabled, TypeOK
    <3>3. QED
      BY <2>2, <2>3, <3>1, <3>2 DEF IWarranted, Warranted, Open
  <2>6. QED
    BY <2>4, <2>5
<1>4. CASE DeleteRule(r)
  <2>1. /\ rule' \in [Rules -> [state : {"on", "off", "deleted"}, ver : Versions]]
        /\ rule'[r].ver = rule[r].ver /\ \A x \in Rules \ {r} : rule'[x] = rule[x]
    BY <1>0, <1>4 DEF DeleteRule, TypeOK
  <2>2. /\ row' \in [Rules -> Row \cup {None}] /\ event' \in [Rules -> Event \cup {None}]
        /\ badAge' \in [Rules -> Ages] /\ calmAge' \in [Rules -> Ages]
        /\ \A x \in Rules : event'[x] = IF x \in {r} THEN None ELSE event[x]
    BY <1>0, <1>4, ForgetStep DEF DeleteRule
  <2>3. TypeOK'
    BY <1>0, <1>1, <1>4, <2>1, <2>2 DEF DeleteRule, TypeOK
  <2>4. VersionsFollow'
    BY <1>0, <1>1, <2>1 DEF IWarranted, VersionsFollow, TypeOK, Versions
  <2>5. QED
    BY <1>4, <2>1, <2>2, <2>3, <2>4 DEF DeleteRule, IWarranted, Warranted, Open
<1>5. QED
  BY <1>2, <1>3, <1>4

\* Changes that leave rules and the instance alone.
LEMMA OtherChange ==
  ASSUME IWarranted, Change, UNCHANGED <<instance, rule>>, TypeOK',
         \A x \in Rules : event'[x] = None \/ (event[x] # None /\ event'[x].ver = event[x].ver)
  PROVE  IWarranted'
<1>1. VersionsFollow'
  BY ChangeStep DEF IWarranted, VersionsFollow, TypeOK, Versions
<1>2. QED
  BY <1>1 DEF IWarranted, Warranted, Open

\* Whoever disables or deletes the instance closes its alerts.
LEMMA RevokeStep ==
  ASSUME IWarranted, NEW q \in Requests, DisableInstance(q) \/ DeleteInstance(q)
  PROVE  IWarranted'
<1>0. TypeOK /\ q \in Tasks
  BY DEF IWarranted, Tasks
<1>1. PICK state \in {"disabled", "deleted"} : Revoke(q, state)
  BY DEF DisableInstance, DeleteInstance
<1>2. changes' \in 0 .. MaxChanges /\ changes' = changes + 1 /\ changes \in Nat
  BY <1>1, ChangeStep DEF Revoke
<1>3. "revoke" \in Points
  BY DEF Points
<1>4. task' \in [Tasks -> TaskType]
  BY <1>0, <1>1, <1>3, GoToType DEF Revoke
<1>5. /\ row' \in [Rules -> Row \cup {None}] /\ event' \in [Rules -> Event \cup {None}]
      /\ badAge' \in [Rules -> Ages] /\ calmAge' \in [Rules -> Ages]
      /\ \A x \in Rules : event'[x] = None
  BY <1>0, <1>1, ForgetStep DEF Revoke
<1>6. window' \in {"none", "global", "node"} \cup Rules
  BY <1>0 DEF DisableInstance, DeleteInstance, TypeOK
<1>7. TypeOK'
  BY <1>0, <1>1, <1>2, <1>4, <1>5, <1>6 DEF Revoke, TypeOK, TaskType
<1>8. VersionsFollow'
  BY <1>1, <1>2 DEF Revoke, IWarranted, VersionsFollow, TypeOK, Versions
<1>9. QED
  BY <1>5, <1>7, <1>8 DEF IWarranted, Warranted, Open

LEMMA AdministratorStep ==
  ASSUME IWarranted, Administrators
  PROVE  IWarranted'
<1>0. TypeOK
  BY DEF IWarranted
<1>1. CASE \E r \in Rules : \/ \E on \in BOOLEAN : UpdateRule(r, on) \/ SetRuleEnabled(r, on)
                            \/ DeleteRule(r)
  BY <1>1, RuleStep
<1>2. CASE \E r \in Rules : Acknowledge(r)
  <2>1. PICK r \in Rules : Acknowledge(r)
    BY <1>2
  <2>2. event[r] \in Event /\ event[r] # None
    BY <1>0, <2>1 DEF Acknowledge, Open, TypeOK
  <2>3. [event[r] EXCEPT !.status = "acknowledged"] \in Event
    BY <2>2 DEF Event
  <2>4. event' = [event EXCEPT ![r] = [event[r] EXCEPT !.status = "acknowledged"]]
    BY <2>1 DEF Acknowledge
  <2>5. [event[r] EXCEPT !.status = "acknowledged"].ver = event[r].ver
    BY <2>2 DEF Event
  <2>6. changes' \in 0 .. MaxChanges
    BY <2>1, ChangeStep DEF Acknowledge
  <2>7. TypeOK'
    BY <1>0, <2>1, <2>3, <2>4, <2>6 DEF Acknowledge, TypeOK, history
  <2>8. \A x \in Rules : event'[x] = None \/ (event[x] # None /\ event'[x].ver = event[x].ver)
    BY <1>0, <2>2, <2>4, <2>5 DEF TypeOK
  <2>9. QED
    BY <2>1, <2>7, <2>8, OtherChange DEF Acknowledge
<1>3. CASE \E w \in Windows \cup {"none"} : SetWindow(w)
  <2>1. PICK w \in Windows \cup {"none"} : SetWindow(w)
    BY <1>3
  <2>2. w \in {"none", "global", "node"} \cup Rules
    BY BoundAssumption
  <2>3. changes' \in 0 .. MaxChanges
    BY <2>1, ChangeStep DEF SetWindow
  <2>4. TypeOK'
    BY <1>0, <2>1, <2>2, <2>3 DEF SetWindow, TypeOK, history
  <2>5. QED
    BY <2>1, <2>4, OtherChange DEF SetWindow
<1>4. CASE Expiry
  <2>1. changes' \in 0 .. MaxChanges
    BY <1>4, ChangeStep DEF Expiry
  <2>2. TypeOK'
    BY <1>0, <1>4, <2>1 DEF Expiry, TypeOK, history
  <2>3. QED
    BY <1>4, <2>2, OtherChange DEF Expiry
<1>5. CASE \E q \in Requests : DisableInstance(q) \/ DeleteInstance(q)
  BY <1>5, RevokeStep
<1>6. CASE \E q \in Requests : RevokeConnection(q)
  <2>1. PICK q \in Requests : RevokeConnection(q)
    BY <1>6
  <2>2. q \in Tasks /\ "observe" \in Points
    BY DEF Tasks, Points
  <2>3. (IF Online THEN [Idle EXCEPT !.at = "observe"] ELSE Idle) \in TaskType
    BY <2>2, IdleType DEF TaskType
  <2>4. task' \in [Tasks -> TaskType]
    BY <1>0, <2>1, <2>2, <2>3 DEF RevokeConnection, TypeOK, TaskType
  <2>5. QED
    BY <1>0, <2>1, <2>4, TasksOnly DEF RevokeConnection, TypeOK
<1>7. QED
  BY <1>1, <1>2, <1>3, <1>4, <1>5, <1>6
     DEF Administrators, CreateMaintenance, UpdateMaintenance, DeleteMaintenance

\* The process starts again.
LEMMA RestartStep ==
  ASSUME IWarranted, RestartBackend
  PROVE  IWarranted'
<1>0. TypeOK
  BY DEF IWarranted
<1>1. changes' \in 0 .. MaxChanges
  BY ChangeStep DEF RestartBackend
<1>2. task' \in [Tasks -> TaskType]
  BY IdleType DEF RestartBackend
<1>3. TypeOK'
  BY <1>0, <1>1, <1>2, ResetType DEF RestartBackend, TypeOK, TaskType
<1>4. \A x \in Rules : event'[x] = event[x]
  BY DEF RestartBackend
<1>5. QED
  BY <1>3, <1>4, OtherChange DEF RestartBackend

LEMMA StepWarranted ==
  ASSUME IWarranted, [Next]_vars
  PROVE  IWarranted'
<1>1. CASE Tick
  BY <1>1, TickStep
<1>2. CASE GraceEnds
  BY <1>2, TasksOnly DEF GraceEnds, IWarranted, TypeOK, TaskType
<1>3. CASE \E t \in Tasks : Observe(t)
  BY <1>3, ObserveStep
<1>4. CASE \E c \in Conns : Connection(c)
  BY <1>4, ConnectionStep
<1>5. CASE EvaluationLoop
  BY <1>5, LoopStep
<1>6. CASE Administrators
  BY <1>6, AdministratorStep
<1>7. CASE RestartBackend
  BY <1>7, RestartStep
<1>8. CASE UNCHANGED vars
  BY <1>8, TasksOnly DEF vars, IWarranted, TypeOK, TaskType
<1>9. QED
  BY <1>1, <1>2, <1>3, <1>4, <1>5, <1>6, <1>7, <1>8 DEF Next

\* Whatever observations, changes by administrators, revocations and restarts
\* interleave, an open alert belongs to an approved instance and to its rule as it is
\* (process_rule_observation, update_rule_tx, resolve_instance).
THEOREM AlertsAreWarranted == Spec => []OpenIsWarranted
<1>1. IWarranted => OpenIsWarranted
  BY DEF IWarranted, OpenIsWarranted, Warranted
<1>2. QED
  BY InitWarranted, StepWarranted, <1>1, PTL DEF Spec

-----------------------------------------------------------------------------
(***************************************************************************)
(* What the row of a rule says of the observations that were taken in: they *)
(* came in order, no abnormal one since the recovery began, and no normal  *)
(* one since the alert is pending.                                         *)
(***************************************************************************)
Timed == OfflineRules \cup MetricRules

\* The task has an observation of a metric on its way, made at its age.
Carries(t, r) == task[t].at = "metric" \/ \E v \in Versions : <<r, v>> \in task[t].todo

RowKnown(r) ==
  row[r] # None =>
    /\ row[r].ver = rule[r].ver /\ row[r].sample # None
    /\ calmAge[r] >= row[r].sample \/ calmAge[r] >= OldestPending
    /\ row[r].pending # None => calmAge[r] >= row[r].pending
    /\ r \in OfflineRules =>
         /\ badAge[r] >= row[r].sample \/ badAge[r] >= OldestRecovery
         /\ row[r].recovery # None => badAge[r] >= row[r].recovery

\* Without a row nothing was taken in, or everything before the connection was
\* lost is forgotten.
Unknown(r) ==
  row[r] = None =>
    /\ r \in OfflineRules => badAge[r] >= OldestRecovery /\ calmAge[r] >= OldestPending
    /\ r \in MetricRules => \A t \in Tasks : Carries(t, r) => calmAge[r] >= task[t].age

Known == instance = "approved" => \A r \in Timed : RowKnown(r) /\ Unknown(r)
Returns == \A t \in Tasks : task[t].then # "metric"

IHistory == IWarranted /\ Known /\ Returns

LEMMA Lasting ==
  /\ MaxLag \in Nat /\ Duration \in Nat /\ Stability \in Nat
  /\ OldestPending = Duration + MaxLag /\ OldestRecovery = Stability + MaxLag
  /\ OldestSample = MaxLag + 1 /\ Ages \subseteq Nat
  /\ None \notin Ages /\ Timed \subseteq Rules /\ OfflineRules \cap MetricRules = {} /\ Timed \cap ExpiryRules = {}
BY BoundAssumption, KindAssumption, NoneAssumption
   DEF OldestPending, OldestRecovery, OldestSample, Ages, Timed, Rules

LEMMA InitHistory == Init => IHistory
<1> SUFFICES ASSUME Init PROVE Known /\ Returns
  BY InitWarranted DEF IHistory
<1>1. Known
  BY Lasting DEF Init, Known, RowKnown, Unknown, Idle, OldestPending, OldestRecovery
<1>2. Returns
  BY DEF Init, Returns, Idle
<1> QED BY <1>1, <1>2

\* What a step may do with what is known of a rule: leave it, forget it with the
\* row, or forget it when nothing is on its way.
Same(r) == /\ row'[r] = row[r] /\ rule'[r].ver = rule[r].ver
           /\ badAge'[r] = badAge[r] /\ calmAge'[r] = calmAge[r]
Forgotten(r) == /\ row'[r] = None /\ calmAge'[r] >= OldestPending
                /\ r \in OfflineRules => badAge'[r] >= OldestRecovery
Lost(r) == /\ row'[r] = None /\ r \in MetricRules
           /\ \A t \in Tasks : ~Carries(t, r)'
CarriesOn ==
  \A t \in Tasks, r \in MetricRules :
    Carries(t, r)' => task'[t].age = 0 \/ (Carries(t, r) /\ task'[t].age = task[t].age)

LEMMA RuleKnows ==
  ASSUME IHistory, TypeOK', instance = "approved", CarriesOn, NEW r \in Timed,
         Same(r) \/ Forgotten(r) \/ Lost(r)
  PROVE  RowKnown(r)' /\ Unknown(r)'
<1>1. RowKnown(r) /\ Unknown(r) /\ r \in Rules
  BY Lasting DEF IHistory, Known
<1>2. CASE Same(r)
  <2>1. RowKnown(r)'
    BY <1>1, <1>2 DEF RowKnown, Same
  <2>2. ASSUME row[r] = None, r \in MetricRules, NEW t \in Tasks, Carries(t, r)'
        PROVE  calmAge'[r] >= task'[t].age
    <3>1. calmAge'[r] \in Nat
      BY <1>1, Lasting DEF TypeOK
    <3>2. task'[t].age = 0 \/ (Carries(t, r) /\ task'[t].age = task[t].age)
      BY <2>2 DEF CarriesOn
    <3>3. QED
      BY <1>1, <1>2, <2>2, <3>1, <3>2 DEF Unknown, Same
  <2>3. Unknown(r)'
    BY <1>1, <1>2, <2>2 DEF Unknown, Same
  <2>4. QED
    BY <2>1, <2>3
<1>3. CASE Forgotten(r)
  <2>1. ASSUME NEW t \in Tasks
        PROVE  calmAge'[r] >= task'[t].age
    <3>1. calmAge'[r] \in Nat /\ task'[t].age \in 0 .. MaxLag
      BY <1>1, Lasting DEF TypeOK
    <3>2. QED
      BY <1>3, <3>1, Lasting DEF Forgotten
  <2>2. QED
    BY <1>3, <2>1 DEF RowKnown, Unknown, Forgotten
<1>4. CASE Lost(r)
  BY <1>4, Lasting DEF RowKnown, Unknown, Lost
<1> QED BY <1>2, <1>3, <1>4

LEMMA StepKnows ==
  ASSUME IHistory, TypeOK', instance' = "approved" => instance = "approved", CarriesOn,
         \A r \in Timed : Same(r) \/ Forgotten(r) \/ Lost(r)
  PROVE  Known'
BY RuleKnows DEF Known

\* Steps of tasks only.
LEMMA TasksKnow ==
  ASSUME IHistory, IWarranted', UNCHANGED <<instance, rule, row, history>>, CarriesOn
  PROVE  Known'
<1>1. \A r \in Timed : Same(r)
  BY DEF Same, history
<1> QED BY <1>1, StepKnows DEF IWarranted

\* A task that goes on, or begins anew, carries no metric it did not carry.
LEMMA GoToKnows ==
  ASSUME TypeOK, NEW t \in Tasks, NEW at \in Points, at # "metric", GoTo(t, at), Returns
  PROVE  Returns' /\ CarriesOn
<1>1. \A x \in Tasks : /\ task'[x].then = task[x].then /\ task'[x].todo = task[x].todo
                       /\ task'[x].age = task[x].age
                       /\ task'[x].at = IF x = t THEN at ELSE task[x].at
  BY DEF GoTo, TypeOK
<1> QED BY <1>1 DEF Returns, CarriesOn, Carries

LEMMA FreshKnows ==
  ASSUME TypeOK, NEW t \in Tasks, NEW new, new.then # "metric", new.todo = {},
         new.at # "metric" \/ new.age = 0,
         task' = [task EXCEPT ![t] = new], Returns
  PROVE  Returns' /\ CarriesOn
<1>1. \A x \in Tasks : task'[x] = IF x = t THEN new ELSE task[x]
  BY DEF TypeOK
<1> QED BY <1>1 DEF Returns, CarriesOn, Carries

\* An observation begins with the rules it read.
LEMMA WorkKnows ==
  ASSUME TypeOK, NEW t \in Tasks, NEW rs \in SUBSET Rules, NEW bad \in BOOLEAN,
         NEW then \in Points, then # "metric", Work(t, rs, bad, task[t].age, then), Returns,
         task[t].at = "metric" \/ rs \cap MetricRules = {}
  PROVE  Returns' /\ CarriesOn
<1>1. \A x \in Tasks : task'[x] =
        IF x = t THEN [at |-> "work", then |-> then, age |-> task[t].age,
                       todo |-> Matching(rs), bad |-> bad]
        ELSE task[x]
  BY DEF Work, TypeOK
<1>2. \A r, v : <<r, v>> \in Matching(rs) => r \in rs
  BY DEF Matching
<1>3. Returns'
  BY <1>1 DEF Returns
<1>4. ASSUME NEW x \in Tasks, NEW r \in MetricRules, Carries(x, r)'
      PROVE  Carries(x, r) /\ task'[x].age = task[x].age
  <2>1. CASE x # t
    BY <1>1, <1>4, <2>1 DEF Carries
  <2>2. CASE x = t
    <3>1. task'[t].at = "work" /\ task'[t].todo = Matching(rs) /\ task'[t].age = task[t].age
      BY <1>1
    <3>2. r \in rs
      BY <1>2, <1>4, <2>2, <3>1 DEF Carries
    <3>3. QED
      BY <2>2, <3>1, <3>2 DEF Carries
  <2>3. QED
    BY <2>1, <2>2
<1> QED BY <1>3, <1>4 DEF CarriesOn

LEMMA TickKnows ==
  ASSUME IHistory, Tick
  PROVE  Known' /\ Returns'
<1>0. TypeOK /\ TypeOK'
  BY TickStep DEF IHistory, IWarranted
<1>1. ASSUME NEW t \in Tasks
      PROVE  /\ task'[t].at = task[t].at /\ task'[t].then = task[t].then
             /\ task'[t].todo = task[t].todo /\ task'[t].age \in {0, task[t].age + 1}
             /\ task[t].age \in 0 .. MaxLag /\ task'[t].age \in 0 .. MaxLag
  <2>1. task[t] \in TaskType /\ task'[t] \in TaskType
    BY <1>0 DEF TypeOK, TaskType
  <2>2. task'[t] = [task[t] EXCEPT !.age = IF Busy(t) THEN @ + 1 ELSE 0]
    BY DEF Tick
  <2>3. QED
    BY <2>1, <2>2 DEF TaskType
<1>2. UNCHANGED <<instance, rule>>
  BY DEF Tick
<1>3. Returns'
  BY <1>1 DEF IHistory, Returns
<1> SUFFICES ASSUME NEW r \in Timed, instance = "approved"
             PROVE  RowKnown(r)' /\ Unknown(r)'
  BY <1>2, <1>3 DEF Known
<1>4. RowKnown(r) /\ Unknown(r) /\ r \in Rules
  BY Lasting DEF IHistory, Known
<1>5. badAge[r] \in Ages /\ calmAge[r] \in Ages
  BY <1>0, <1>4 DEF TypeOK
<1>6. badAge'[r] = Older(badAge[r], OldestRecovery) /\ calmAge'[r] = Older(calmAge[r], OldestPending)
  BY <1>4 DEF Tick
<1>7. /\ badAge[r] \in Nat /\ calmAge[r] \in Nat
      /\ badAge'[r] = IF badAge[r] >= OldestRecovery THEN badAge[r] ELSE badAge[r] + 1
      /\ calmAge'[r] = IF calmAge[r] >= OldestPending THEN calmAge[r] ELSE calmAge[r] + 1
  BY <1>5, <1>6, Lasting DEF Older
<1>8. ASSUME row'[r] # None
      PROVE  RowKnown(r)'
  <2>1. row[r] # None /\ row[r] \in Row
    BY <1>0, <1>4, <1>8 DEF Tick, TypeOK
  <2>2. row'[r] = [row[r] EXCEPT !.pending = Older(@, OldestPending),
                                 !.recovery = Older(@, OldestRecovery),
                                 !.sample = Older(@, OldestSample)]
    BY <1>4, <2>1 DEF Tick
  <2>3. /\ row'[r].ver = row[r].ver /\ row'[r].sample = Older(row[r].sample, OldestSample)
        /\ row'[r].pending = Older(row[r].pending, OldestPending)
        /\ row'[r].recovery = Older(row[r].recovery, OldestRecovery)
    BY <2>1, <2>2 DEF Row
  <2>4. row[r].sample \in Ages /\ row[r].pending \in Ages \cup {None}
        /\ row[r].recovery \in Ages \cup {None}
    BY <1>4, <2>1 DEF RowKnown, Row
  <2>5. /\ row[r].sample \in Nat /\ row'[r].sample \in Ages /\ row'[r].sample \in Nat
        /\ row'[r].sample <= row[r].sample + 1
    <3>1. Older(row[r].sample, OldestSample) \in Ages
      BY <2>4, OlderAge, Bounds
    <3>2. row[r].sample \in Nat /\ row'[r].sample \in Ages /\ row'[r].sample \in Nat
      BY <2>3, <2>4, <3>1, Lasting
    <3>3. QED
      BY <2>3, <3>2 DEF Older
  <2>6. /\ row'[r].ver = rule[r].ver /\ row'[r].sample # None
    BY <1>4, <2>1, <2>3, <2>5, Lasting DEF RowKnown
  <2>7. calmAge'[r] >= row'[r].sample \/ calmAge'[r] >= OldestPending
    <3>1. calmAge[r] >= row[r].sample \/ calmAge[r] >= OldestPending
      BY <1>4, <2>1 DEF RowKnown
    <3>2. QED
      BY <1>7, <2>5, <3>1, Lasting
  <2>8. row'[r].pending # None => calmAge'[r] >= row'[r].pending
    <3>1. CASE row[r].pending = None
      BY <2>3, <3>1 DEF Older
    <3>2. CASE row[r].pending # None
      <4>1. row[r].pending \in Nat /\ calmAge[r] >= row[r].pending
        BY <1>4, <2>1, <2>4, <3>2, Lasting DEF RowKnown
      <4>2. QED
        BY <1>7, <2>3, <3>2, <4>1, Lasting DEF Older
    <3>3. QED
      BY <3>1, <3>2
  <2>9. ASSUME r \in OfflineRules
        PROVE  /\ badAge'[r] >= row'[r].sample \/ badAge'[r] >= OldestRecovery
               /\ row'[r].recovery # None => badAge'[r] >= row'[r].recovery
    <3>1. badAge'[r] >= row'[r].sample \/ badAge'[r] >= OldestRecovery
      <4>1. badAge[r] >= row[r].sample \/ badAge[r] >= OldestRecovery
        BY <1>4, <2>1, <2>9 DEF RowKnown
      <4>2. QED
        BY <1>7, <2>5, <4>1, Lasting
    <3>2. CASE row[r].recovery = None
      BY <2>3, <3>1, <3>2 DEF Older
    <3>3. CASE row[r].recovery # None
      <4>1. row[r].recovery \in Nat /\ badAge[r] >= row[r].recovery
        BY <1>4, <2>1, <2>4, <2>9, <3>3, Lasting DEF RowKnown
      <4>2. QED
        BY <1>7, <2>3, <3>1, <3>3, <4>1, Lasting DEF Older
    <3>4. QED
      BY <3>2, <3>3
  <2>10. QED
    BY <2>6, <2>7, <2>8, <2>9 DEF RowKnown, Tick
<1>9. ASSUME row'[r] = None
      PROVE  Unknown(r)'
  <2>1. row[r] = None
    <3>1. row[r] # None =>
            row'[r] = [row[r] EXCEPT !.pending = Older(@, OldestPending),
                                     !.recovery = Older(@, OldestRecovery),
                                     !.sample = Older(@, OldestSample)]
      BY <1>4 DEF Tick
    <3>2. ASSUME row[r] # None
          PROVE  row'[r] \in Row
      <4>1. row[r] \in Row
        BY <1>0, <1>4, <3>2 DEF TypeOK
      <4>2. /\ Older(row[r].pending, OldestPending) \in Ages \cup {None}
            /\ Older(row[r].recovery, OldestRecovery) \in Ages \cup {None}
            /\ Older(row[r].sample, OldestSample) \in Ages \cup {None}
        BY <4>1, Bounds, OlderOrNone DEF Row
      <4>3. QED
        BY <3>1, <3>2, <4>1, <4>2 DEF Row
    <3>3. QED
      BY <1>9, <3>2, NoneAssumption
  <2>2. ASSUME r \in MetricRules, NEW t \in Tasks, Carries(t, r)'
        PROVE  calmAge'[r] >= task'[t].age
    <3>1. Carries(t, r) /\ task'[t].age \in {0, task[t].age + 1}
      BY <1>1, <2>2 DEF Carries
    <3>2. task[t].age \in 0 .. MaxLag /\ task'[t].age \in 0 .. MaxLag
      BY <1>1
    <3>3. QED
      BY <1>4, <1>7, <2>1, <2>2, <3>1, <3>2, Lasting DEF Unknown
  <2>3. QED
    BY <1>4, <1>7, <2>1, <2>2, Lasting DEF Unknown
<1> QED BY <1>8, <1>9 DEF RowKnown, Unknown

\* An observation that is taken in is not older than any before it, as far as
\* they are remembered.
LEMMA Evaluated ==
  ASSUME IHistory, instance = "approved", NEW r \in Timed
  PROVE  Evaluation(r) = IF row[r] = None THEN Empty(rule[r].ver) ELSE row[r]
BY DEF Evaluation, IHistory, Known, RowKnown

LEMMA InOrder ==
  ASSUME IHistory, instance = "approved", NEW r \in Timed, NEW t \in Tasks,
         NEW v \in Versions, <<r, v>> \in task[t].todo, NEW bad \in BOOLEAN,
         ~Stale(Evaluation(r), task[t].age, bad)
  PROVE  calmAge[r] >= task[t].age /\ (r \in OfflineRules => badAge[r] >= task[t].age)
<1> DEFINE age == task[t].age
<1>0. TypeOK /\ RowKnown(r) /\ Unknown(r) /\ r \in Rules
  BY Lasting DEF IHistory, IWarranted, Known
<1>1. /\ age \in 0 .. MaxLag /\ calmAge[r] \in Ages /\ badAge[r] \in Ages
  <2>1. task[t] \in TaskType
    BY <1>0 DEF TypeOK, TaskType
  <2>2. task[t].age \in 0 .. MaxLag
    BY <2>1 DEF TaskType
  <2>3. calmAge[r] \in Ages /\ badAge[r] \in Ages
    BY <1>0 DEF TypeOK
  <2>4. QED
    BY <2>2, <2>3
<1>2. age \in Nat /\ age <= MaxLag /\ calmAge[r] \in Nat /\ badAge[r] \in Nat
  <2>1. MaxLag \in Nat /\ Ages \subseteq Nat
    BY Lasting
  <2>2. age \in Nat /\ age <= MaxLag
    BY <1>1, <2>1
  <2>3. calmAge[r] \in Nat /\ badAge[r] \in Nat
    BY <1>1, <2>1
  <2>4. QED
    BY <2>2, <2>3
<1>3. CASE row[r] = None
  <2>1. CASE r \in OfflineRules
    BY <1>0, <1>2, <1>3, <2>1, Lasting DEF Unknown
  <2>2. CASE r \in MetricRules
    BY <1>0, <1>2, <1>3, <2>2, Lasting DEF Unknown, Carries
  <2>3. QED
    BY <2>1, <2>2 DEF Timed
<1>4. CASE row[r] # None
  <2>1. Evaluation(r) = row[r] /\ row[r] \in Row
    BY <1>0, <1>4, Evaluated DEF TypeOK
  <2>2. row[r].sample \in Ages
    BY <1>0, <1>4, <2>1 DEF RowKnown, Row
  <2>3. row[r].sample \in Nat /\ ~(age > row[r].sample)
    BY <1>0, <1>4, <2>1, <2>2, Lasting DEF Stale, RowKnown
  <2>4. calmAge[r] >= row[r].sample \/ calmAge[r] >= OldestPending
    BY <1>0, <1>4 DEF RowKnown
  <2>5. r \in OfflineRules => badAge[r] >= row[r].sample \/ badAge[r] >= OldestRecovery
    BY <1>0, <1>4 DEF RowKnown
  <2>6. QED
    BY <1>2, <2>3, <2>4, <2>5, Lasting
<1> QED BY <1>3, <1>4

\* What an observation writes of its rule.
LEMMA AbnormalKnows ==
  ASSUME IHistory, instance = "approved", NEW r \in Timed, NEW v, NEW age \in 0 .. MaxLag,
         calmAge[r] >= age, Abnormal(r, v, Evaluation(r), age), IWarranted',
         UNCHANGED <<rule, calmAge>>, badAge'[r] = age
  PROVE  RowKnown(r)' /\ Unknown(r)'
<1> DEFINE e == Evaluation(r)
<1>0. TypeOK /\ TypeOK' /\ RowKnown(r) /\ r \in Rules
  BY Lasting DEF IHistory, IWarranted, Known
<1>1. e \in Row /\ e.ver = rule[r].ver
  BY <1>0, EvaluationType, Evaluated DEF RowKnown, Empty
<1>2. age \in Ages /\ age \in Nat /\ age # None
  BY Bounds, Lasting
<1>3. e.pending # None => calmAge[r] >= e.pending
  BY <1>0, Evaluated DEF RowKnown, Empty
<1>4. PICK p \in {e.pending, age} : row'[r] = [Seen(e, age) EXCEPT !.pending = p]
  <2>1. Seen(e, age) = [e EXCEPT !.recovery = None, !.sample = age, !.bad = TRUE]
    BY DEF Seen
  <2>2. Seen(e, age).pending = e.pending /\ Seen(e, age) \in Row
    BY <1>1, <1>2, <2>1 DEF Row
  <2>3. Seen(e, age) = [Seen(e, age) EXCEPT !.pending = e.pending]
    BY <2>2 DEF Row
  <2>4. CASE Open(r)
    BY <1>0, <2>3, <2>4 DEF Abnormal, TypeOK
  <2>5. CASE ~Open(r)
    BY <1>0, <2>2, <2>3, <2>5 DEF Abnormal, TypeOK
  <2>6. QED
    BY <2>4, <2>5
<1>5. /\ row'[r].ver = e.ver /\ row'[r].sample = age /\ row'[r].pending = p
      /\ row'[r].recovery = None /\ row'[r] \in Row
  BY <1>1, <1>2, <1>4 DEF Seen, Row
<1>6. calmAge[r] \in Nat
  BY <1>0, Lasting DEF TypeOK
<1>7. row'[r] # None
  BY <1>5, NoneAssumption
<1>8. RowKnown(r)'
  BY <1>1, <1>2, <1>3, <1>5, <1>6 DEF RowKnown
<1>9. QED
  BY <1>7, <1>8 DEF Unknown

LEMMA NormalKnows ==
  ASSUME IHistory, instance = "approved", NEW r \in Timed, NEW age \in 0 .. MaxLag,
         r \in OfflineRules => badAge[r] >= age, Normal(r, Evaluation(r), age), IWarranted',
         UNCHANGED <<rule, badAge>>, calmAge'[r] = age
  PROVE  RowKnown(r)' /\ Unknown(r)'
<1> DEFINE e == Evaluation(r)
           rec == Recovery(r, e, age)
<1>0. TypeOK /\ TypeOK' /\ RowKnown(r) /\ r \in Rules
  BY Lasting DEF IHistory, IWarranted, Known
<1>1. e \in Row /\ e.ver = rule[r].ver
  BY <1>0, EvaluationType, Evaluated DEF RowKnown, Empty
<1>2. age \in Ages /\ age \in Nat /\ age # None
  BY Bounds, Lasting
<1>3. r \in OfflineRules /\ e.recovery # None => badAge[r] >= e.recovery
  BY <1>0, Evaluated DEF RowKnown, Empty
<1>4. rec.since \in {None, e.recovery, age}
  BY DEF Recovery
<1>5. row'[r] = [e EXCEPT !.pending = None, !.recovery = rec.since, !.sample = age, !.bad = FALSE]
  BY <1>0 DEF Normal, TypeOK
<1>6. /\ row'[r].ver = e.ver /\ row'[r].sample = age /\ row'[r].pending = None
      /\ row'[r].recovery = rec.since
  BY <1>1, <1>5 DEF Row
<1>7. row'[r] # None
  <2>1. rec.since \in Ages \cup {None}
    BY <1>1, <1>2, <1>4 DEF Row
  <2>2. row'[r] \in Row
    BY <1>1, <1>2, <1>5, <2>1 DEF Row
  <2>3. QED
    BY <2>2, NoneAssumption
<1>8. RowKnown(r)'
  BY <1>1, <1>2, <1>3, <1>4, <1>6 DEF RowKnown
<1>9. QED
  BY <1>7, <1>8 DEF Unknown

LEMMA ProcessKnows ==
  ASSUME IHistory, NEW t \in Tasks, NEW r \in Rules, NEW v \in Versions, Process(t, r, v)
  PROVE  Known' /\ Returns'
<1>0. TypeOK /\ IWarranted' /\ TypeOK'
  BY ProcessStep DEF IHistory, IWarranted
<1>1. \A x \in Tasks : /\ task'[x].at = task[x].at /\ task'[x].then = task[x].then
                       /\ task'[x].age = task[x].age /\ task'[x].todo \subseteq task[x].todo
  BY <1>0 DEF Process, TypeOK
<1>2. Returns' /\ CarriesOn
  BY <1>1 DEF IHistory, Returns, CarriesOn, Carries
<1> SUFFICES ASSUME NEW x \in Timed, instance = "approved"
             PROVE  RowKnown(x)' /\ Unknown(x)'
  BY <1>2 DEF Known, Process
<1>3. x \in Rules /\ UNCHANGED <<rule, instance>> /\ task[t].age \in 0 .. MaxLag
  BY <1>0, Lasting DEF Process, TypeOK
<1>4. CASE UNCHANGED <<row, history>>
  BY <1>0, <1>2, <1>3, <1>4, RuleKnows DEF Same, history
<1>5. CASE SameRule(r, v)
  <2> DEFINE e == Evaluation(r)
             age == task[t].age
             bad == Reading(t, r)
  <2>0. bad \in BOOLEAN
    BY <1>0 DEF Reading, Online, TypeOK
  <2>1. CASE Stale(e, age, bad)
    <3>1. row' = [row EXCEPT ![r] = e] /\ UNCHANGED history
      BY <1>5, <2>1 DEF Process
    <3>2. CASE x # r
      BY <1>0, <1>2, <1>3, <3>1, <3>2, RuleKnows DEF Same, history
    <3>3. CASE x = r
      <4>1. e = row[r]
        BY <2>1, <3>3, Evaluated DEF Stale, Empty
      <4>2. row'[r] = row[r]
        BY <1>0, <3>1, <4>1 DEF TypeOK
      <4>3. QED
        BY <1>0, <1>2, <1>3, <3>1, <3>3, <4>2, RuleKnows DEF Same, history
    <3>4. QED
      BY <3>2, <3>3
  <2>2. CASE ~Stale(e, age, bad)
    <3>1. /\ IF bad THEN Abnormal(r, v, e, age) ELSE Normal(r, e, age)
          /\ badAge' = IF bad THEN [badAge EXCEPT ![r] = age] ELSE badAge
          /\ calmAge' = IF bad THEN calmAge ELSE [calmAge EXCEPT ![r] = age]
      BY <1>5, <2>2 DEF Process
    <3>2. CASE x # r
      <4>1. row'[x] = row[x]
        <5>1. Abnormal(r, v, e, age) \/ Normal(r, e, age)
          BY <3>1
        <5>2. \E new : row' = [row EXCEPT ![r] = new]
          BY <5>1 DEF Abnormal, Normal
        <5>3. QED
          BY <1>0, <1>3, <3>2, <5>2 DEF TypeOK
      <4>2. badAge'[x] = badAge[x] /\ calmAge'[x] = calmAge[x]
        BY <3>1, <3>2, <1>0 DEF TypeOK
      <4>3. QED
        BY <1>0, <1>2, <1>3, <4>1, <4>2, RuleKnows DEF Same
    <3>3. CASE x = r
      <4>1. <<r, v>> \in task[t].todo
        BY DEF Process
      <4>2. calmAge[r] >= age /\ (r \in OfflineRules => badAge[r] >= age)
        BY <2>0, <2>2, <3>3, <4>1, InOrder
      <4>3. CASE bad
        <5>1. badAge'[r] = age /\ calmAge' = calmAge
          BY <1>0, <3>1, <4>3 DEF TypeOK
        <5>2. QED
          BY <1>0, <1>3, <3>1, <3>3, <4>2, <4>3, <5>1, AbnormalKnows
      <4>4. CASE ~bad
        <5>1. calmAge'[r] = age /\ badAge' = badAge
          BY <1>0, <3>1, <4>4 DEF TypeOK
        <5>2. QED
          BY <1>0, <1>3, <3>1, <3>3, <4>2, <4>4, <5>1, NormalKnows
      <4>5. QED
        BY <4>3, <4>4
    <3>4. QED
      BY <3>2, <3>3
  <2>3. QED
    BY <2>1, <2>2
<1>6. QED
  BY <1>4, <1>5 DEF Process

\* The other steps of an observation.
LEMMA ObserveKnows ==
  ASSUME IHistory, NEW t \in Tasks, Observe(t)
  PROVE  Known' /\ Returns'
<1>0. TypeOK /\ Returns /\ IWarranted' /\ TypeOK'
  BY ObserveStep DEF IHistory, IWarranted
<1>1. CASE ObserveConnection(t)
  <2>1. PICK at \in {"offline", "reset"} : GoTo(t, at)
    BY <1>1 DEF ObserveConnection
  <2>2. at \in Points /\ at # "metric"
    BY <2>1 DEF Points
  <2>3. Returns' /\ CarriesOn
    BY <1>0, <2>1, <2>2, GoToKnows
  <2>4. QED
    BY <1>0, <1>1, <2>3, TasksKnow DEF ObserveConnection, tables
<1>2. CASE ResetPending(t)
  <2>1. "offline" \in Points /\ GoTo(t, "offline")
    BY <1>2 DEF Points, ResetPending
  <2>2. Returns' /\ CarriesOn
    BY <1>0, <2>1, GoToKnows
  <2>3. ASSUME NEW r \in Timed
        PROVE  Same(r) \/ Forgotten(r) \/ Lost(r)
    <3>1. r \in Rules /\ UNCHANGED <<rule, badAge>>
      BY <1>2, Lasting DEF ResetPending
    <3>2. row'[r] = IF Pending(r) THEN None ELSE row[r]
      BY <1>2, <3>1 DEF ResetPending, ResetRows
    <3>3. calmAge'[r] = IF ~Pending(r) THEN calmAge[r]
                        ELSE IF Carried(r) THEN OldestPending ELSE 0
      BY <1>2, <3>1 DEF ResetPending, Calmed
    <3>4. CASE ~Pending(r)
      BY <3>1, <3>2, <3>3, <3>4 DEF Same
    <3>5. CASE Pending(r) /\ Carried(r)
      BY <3>2, <3>3, <3>5, Lasting DEF Forgotten, Pending
    <3>6. CASE Pending(r) /\ ~Carried(r)
      <4>1. \A x \in Tasks : ~Carries(x, r)
        BY <3>6 DEF Carried, Carries
      <4>2. \A x \in Tasks : task'[x].todo = task[x].todo /\ (task'[x].at = task[x].at \/ task'[x].at # "metric")
        BY <1>0, <2>1 DEF GoTo, TypeOK
      <4>3. \A x \in Tasks : ~Carries(x, r)'
        BY <4>1, <4>2 DEF Carries
      <4>4. QED
        BY <3>2, <3>6, <4>3 DEF Lost, Pending
    <3>7. QED
      BY <3>4, <3>5, <3>6
  <2>4. QED
    BY <1>0, <1>2, <2>2, <2>3, StepKnows DEF ResetPending
<1>3. CASE ObserveOffline(t)
  <2>1. task[t].then \in Points /\ task[t].then # "metric"
    BY <1>0 DEF TypeOK, Returns
  <2>2. PICK rs \in {OfflineRules, {}} : Work(t, rs, FALSE, task[t].age, task[t].then)
    BY <1>3 DEF ObserveOffline
  <2>3. rs \in SUBSET Rules /\ rs \cap MetricRules = {}
    BY <2>2, Lasting DEF Rules
  <2>4. Returns' /\ CarriesOn
    BY <1>0, <2>1, <2>2, <2>3, WorkKnows
  <2>5. CASE instance = "approved"
    BY <1>0, <1>3, <2>4, <2>5, TasksKnow DEF ObserveOffline
  <2>6. CASE instance # "approved"
    BY <1>3, <2>4, <2>6 DEF ObserveOffline, Known
  <2>7. QED
    BY <2>5, <2>6
<1>4. CASE \E r \in Rules, v \in Versions : Process(t, r, v)
  BY <1>4, ProcessKnows
<1>5. CASE WorkDone(t)
  <2> DEFINE new == [Idle EXCEPT !.at = task[t].then,
                                 !.then = IF t = Loop THEN "refresh" ELSE "idle",
                                 !.age = IF t = Loop THEN task[t].age ELSE 0]
  <2>1. new.then # "metric" /\ new.todo = {} /\ new.at # "metric"
    BY <1>0 DEF Idle, Returns
  <2>2. task' = [task EXCEPT ![t] = new]
    BY <1>5 DEF WorkDone
  <2>3. Returns' /\ CarriesOn
    <3> HIDE DEF new
    <3> QED BY <1>0, <2>1, <2>2, FreshKnows
  <2>4. QED
    BY <1>0, <1>5, <2>3, TasksKnow DEF WorkDone, tables
<1>6. QED
  BY <1>1, <1>2, <1>3, <1>4, <1>5 DEF Observe

\* A connection registers, is authorized, samples and ends.
LEMMA ConnectionKnows ==
  ASSUME IHistory, NEW c \in Conns, Connection(c)
  PROVE  Known' /\ Returns'
<1>0. TypeOK /\ Returns /\ IWarranted' /\ c \in Tasks
  BY ConnectionStep DEF IHistory, IWarranted, Tasks
<1> SUFFICES UNCHANGED <<instance, rule, row, history>> /\ Returns' /\ CarriesOn
  BY <1>0, TasksKnow
<1>1. {"upgraded", "connected", "idle"} \subseteq Points /\ "metric" \notin {"upgraded", "connected", "idle"}
  BY DEF Points
<1>2. CASE Upgrade(c)
  BY <1>0, <1>1, <1>2, GoToKnows DEF Upgrade, tables
<1>3. CASE Register(c)
  BY <1>0, <1>1, <1>3, GoToKnows DEF Register, tables
<1>4. CASE Authorize(c)
  <2>1. CASE instance = "approved"
    <3>1. task' = [task EXCEPT ![c] = [task[c] EXCEPT !.at = "observe", !.then = "serving"]]
      BY <1>4, <2>1 DEF Authorize
    <3>2. \A x \in Tasks : /\ x # c => task'[x] = task[x]
                           /\ x = c => /\ task'[x].at = "observe" /\ task'[x].then = "serving"
                                       /\ task'[x].todo = task[x].todo /\ task'[x].age = task[x].age
      BY <1>0, <3>1 DEF TypeOK
    <3>3. Returns' /\ CarriesOn
      BY <1>0, <3>2 DEF Returns, CarriesOn, Carries
    <3>4. QED
      BY <1>4, <3>3 DEF Authorize, tables
  <2>2. CASE instance # "approved"
    BY <1>0, <1>1, <1>4, <2>2, GoToKnows DEF Authorize, tables
  <2>3. QED
    BY <2>1, <2>2
<1>5. CASE \E bad \in BOOLEAN : Report(c, bad)
  <2>1. PICK bad \in BOOLEAN : Report(c, bad)
    BY <1>5
  <2> DEFINE new == [Idle EXCEPT !.at = "metric", !.bad = bad]
  <2>2. new.then # "metric" /\ new.todo = {} /\ new.age = 0
    BY DEF Idle
  <2>3. task' = [task EXCEPT ![c] = new]
    BY <2>1 DEF Report
  <2>4. Returns' /\ CarriesOn
    <3> HIDE DEF new
    <3> QED BY <1>0, <2>2, <2>3, FreshKnows
  <2>5. QED
    BY <2>1, <2>4 DEF Report, tables
<1>6. CASE \E rs \in SUBSET MetricRules : ObserveMetric(c, rs)
  <2>1. PICK rs \in SUBSET MetricRules : ObserveMetric(c, rs)
    BY <1>6
  <2>2. rs \in SUBSET Rules /\ task[c].bad \in BOOLEAN /\ "serving" \in Points
    BY <1>0 DEF Rules, TypeOK, Points
  <2>3. Work(c, rs, task[c].bad, task[c].age, "serving") /\ task[c].at = "metric"
    BY <2>1 DEF ObserveMetric
  <2>4. Returns' /\ CarriesOn
    BY <1>0, <2>2, <2>3, WorkKnows
  <2>5. QED
    BY <2>1, <2>4 DEF ObserveMetric, tables
<1>7. CASE Unregister(c)
  <2>1. PICK at \in {"observe", "idle"} : task' = [task EXCEPT ![c] = [Idle EXCEPT !.at = at]]
    BY <1>7 DEF Unregister, Idle
  <2> DEFINE new == [Idle EXCEPT !.at = at]
  <2>2. new.then # "metric" /\ new.todo = {} /\ new.at # "metric"
    BY <2>1 DEF Idle
  <2>3. Returns' /\ CarriesOn
    <3>1. task' = [task EXCEPT ![c] = new]
      BY <2>1
    <3> HIDE DEF new
    <3> QED BY <1>0, <2>2, <3>1, FreshKnows
  <2>4. QED
    BY <1>7, <2>3 DEF Unregister, tables
<1> QED BY <1>2, <1>3, <1>4, <1>5, <1>6, <1>7 DEF Connection

LEMMA LoopKnows ==
  ASSUME IHistory, EvaluationLoop
  PROVE  Known' /\ Returns'
<1>0. TypeOK /\ Returns /\ IWarranted' /\ Loop \in Tasks
  BY LoopStep DEF IHistory, IWarranted, Tasks
<1> SUFFICES UNCHANGED <<instance, rule, row, history>> /\ Returns' /\ CarriesOn
  BY <1>0, TasksKnow
<1>1. CASE LoopTick
  <2>1. PICK at \in {"expiry", "refresh"} :
          task' = [task EXCEPT ![Loop] = [Idle EXCEPT !.at = at, !.then = "grace"]]
    BY <1>1 DEF LoopTick
  <2> DEFINE new == [Idle EXCEPT !.at = at, !.then = "grace"]
  <2>2. new.then # "metric" /\ new.todo = {} /\ new.at # "metric"
    BY <2>1 DEF Idle
  <2>3. Returns' /\ CarriesOn
    <3>1. task' = [task EXCEPT ![Loop] = new]
      BY <2>1
    <3> HIDE DEF new
    <3> QED BY <1>0, <2>2, <3>1, FreshKnows
  <2>4. QED
    BY <1>1, <2>3 DEF LoopTick, tables
<1>2. CASE ObserveExpiration
  <2>1. PICK rs \in {ExpiryRules, {}} : Work(Loop, rs, expiring, task[Loop].age, "grace")
    BY <1>2 DEF ObserveExpiration
  <2>2. /\ rs \in SUBSET Rules /\ rs \cap MetricRules = {}
        /\ expiring \in BOOLEAN /\ "grace" \in Points
    BY <1>0, <2>1, KindAssumption DEF Rules, TypeOK, Points
  <2>3. Returns' /\ CarriesOn
    BY <1>0, <2>1, <2>2, WorkKnows
  <2>4. QED
    BY <1>2, <2>3 DEF ObserveExpiration, tables
<1>3. CASE LoopGrace
  <2>1. \A x \in Tasks : /\ x # Loop => task'[x] = task[x]
                         /\ x = Loop => /\ task'[x].at \in {"refresh", "offline"}
                                        /\ task'[x].then = "refresh" /\ task'[x].todo = task[x].todo
                                        /\ task'[x].age = task[x].age
    BY <1>0, <1>3 DEF LoopGrace, GraceDecision, TypeOK
  <2>2. Returns' /\ CarriesOn
    BY <1>0, <2>1 DEF Returns, CarriesOn, Carries
  <2>3. QED
    BY <1>3, <2>2 DEF LoopGrace, tables
<1>4. CASE RefreshSuppression
  <2>1. Idle.then # "metric" /\ Idle.todo = {} /\ Idle.at # "metric"
    BY DEF Idle
  <2>2. task' = [task EXCEPT ![Loop] = Idle]
    BY <1>4 DEF RefreshSuppression
  <2>3. Returns' /\ CarriesOn
    BY <1>0, <2>1, <2>2, FreshKnows
  <2>4. QED
    BY <1>4, <2>3 DEF RefreshSuppression
<1> QED BY <1>1, <1>2, <1>3, <1>4 DEF EvaluationLoop

\* Administrators forget what is known together with the row, or leave it.
LEMMA ForgetKnows ==
  ASSUME IHistory, IWarranted', NEW rs \in SUBSET Rules, Forget(rs), UNCHANGED <<instance, task>>,
         \A r \in Rules \ rs : rule'[r].ver = rule[r].ver
  PROVE  Known' /\ Returns'
<1>1. Returns' /\ CarriesOn
  BY DEF IHistory, Returns, CarriesOn, Carries
<1>2. ASSUME NEW r \in Timed
      PROVE  Same(r) \/ Forgotten(r)
  <2>1. r \in Rules
    BY Lasting
  <2>2. CASE r \in rs
    <3>1. row'[r] = None /\ badAge'[r] = OldestRecovery /\ calmAge'[r] = OldestPending
      BY <2>1, <2>2 DEF Forget, Without
    <3>2. QED
      BY <3>1, Lasting DEF Forgotten
  <2>3. CASE r \notin rs
    BY <2>1, <2>3 DEF Forget, Without, Same
  <2>4. QED
    BY <2>2, <2>3
<1> QED BY <1>1, <1>2, StepKnows DEF IWarranted

LEMMA AdministratorKnows ==
  ASSUME IHistory, Administrators
  PROVE  Known' /\ Returns'
<1>0. TypeOK /\ Returns /\ IWarranted'
  BY AdministratorStep DEF IHistory, IWarranted
<1>1. ASSUME UNCHANGED <<instance, rule, row, history, task>>
      PROVE  Known' /\ Returns'
  BY <1>0, <1>1, TasksKnow DEF Returns, CarriesOn, Carries
<1>2. CASE \E r \in Rules : \/ \E on \in BOOLEAN : UpdateRule(r, on) \/ SetRuleEnabled(r, on)
                            \/ DeleteRule(r)
  <2>1. PICK r \in Rules : \/ \E on \in BOOLEAN : UpdateRule(r, on) \/ SetRuleEnabled(r, on)
                           \/ DeleteRule(r)
    BY <1>2
  <2>2. UNCHANGED <<instance, task>> /\ \A x \in Rules \ {r} : rule'[x].ver = rule[x].ver
    BY <1>0, <2>1 DEF UpdateRule, SetRuleEnabled, DeleteRule, TypeOK
  <2>3. Forget({r}) \/ \E on \in BOOLEAN : SetRuleEnabled(r, on) /\ on
    BY <2>1 DEF UpdateRule, SetRuleEnabled, DeleteRule
  <2>4. CASE Forget({r})
    BY <1>0, <2>2, <2>4, ForgetKnows
  <2>5. CASE \E on \in BOOLEAN : SetRuleEnabled(r, on) /\ on
    <3>1. UNCHANGED <<row, history>> /\ rule' = [rule EXCEPT ![r].state = "on"]
      BY <2>5 DEF SetRuleEnabled
    <3>2. \A x \in Timed : Same(x)
      BY <1>0, <3>1, Lasting DEF Same, TypeOK, history
    <3>3. Returns' /\ CarriesOn
      BY <1>0, <2>2 DEF Returns, CarriesOn, Carries
    <3>4. QED
      BY <1>0, <2>2, <3>2, <3>3, StepKnows DEF IWarranted
  <2>6. QED
    BY <2>3, <2>4, <2>5
<1>3. CASE \/ \E r \in Rules : Acknowledge(r)
           \/ \E w \in Windows \cup {"none"} : SetWindow(w)
           \/ Expiry
  BY <1>1, <1>3 DEF Acknowledge, SetWindow, Expiry
<1>4. CASE \E q \in Requests : DisableInstance(q) \/ DeleteInstance(q)
  <2>1. PICK q \in Requests, state \in {"disabled", "deleted"} : Revoke(q, state)
    BY <1>4 DEF DisableInstance, DeleteInstance
  <2>2. q \in Tasks /\ "revoke" \in Points /\ GoTo(q, "revoke")
    BY <2>1 DEF Tasks, Points, Revoke
  <2>3. Returns'
    BY <1>0, <2>2, GoToKnows
  <2>4. QED
    BY <2>1, <2>3 DEF Revoke, Known
<1>5. CASE \E q \in Requests : RevokeConnection(q)
  <2>1. PICK q \in Requests, new \in {[Idle EXCEPT !.at = "observe"], Idle} :
               RevokeConnection(q) /\ task' = [task EXCEPT ![q] = new]
    BY <1>5 DEF RevokeConnection
  <2>2. q \in Tasks /\ new.then # "metric" /\ new.todo = {} /\ new.at # "metric"
    BY <2>1 DEF Tasks, Idle
  <2>3. Returns' /\ CarriesOn
    BY <1>0, <2>1, <2>2, FreshKnows
  <2>4. QED
    BY <1>0, <2>1, <2>3, TasksKnow DEF RevokeConnection, tables
<1>6. QED
  BY <1>2, <1>3, <1>4, <1>5
     DEF Administrators, CreateMaintenance, UpdateMaintenance, DeleteMaintenance

LEMMA RestartKnows ==
  ASSUME IHistory, RestartBackend
  PROVE  Known' /\ Returns'
<1>0. TypeOK /\ IWarranted'
  BY RestartStep DEF IHistory, IWarranted
<1>1. \A t \in Tasks : task'[t].at = "idle" /\ task'[t].then = "idle" /\ task'[t].todo = {}
  BY DEF RestartBackend, Idle
<1>2. Returns' /\ CarriesOn /\ \A t \in Tasks, r \in Rules : ~Carries(t, r)'
  BY <1>1 DEF Returns, CarriesOn, Carries
<1>3. ASSUME NEW r \in Timed
      PROVE  Same(r) \/ Lost(r)
  <2>1. r \in Rules
    BY Lasting
  <2>2. /\ row'[r] = IF Pending(r) THEN None ELSE row[r]
        /\ calmAge'[r] = IF Pending(r) THEN 0 ELSE calmAge[r]
        /\ UNCHANGED <<rule, badAge>>
    BY <2>1 DEF RestartBackend, ResetRows, Calmed
  <2>3. QED
    BY <1>2, <2>1, <2>2 DEF Same, Lost, Pending
<1> QED BY <1>0, <1>2, <1>3, StepKnows DEF RestartBackend, IWarranted

LEMMA StepHistory ==
  ASSUME IHistory, [Next]_vars
  PROVE  IHistory'
<1>0. IWarranted'
  BY StepWarranted DEF IHistory
<1> SUFFICES Known' /\ Returns'
  BY <1>0 DEF IHistory
<1>1. CASE Tick
  BY <1>1, TickKnows
<1>2. CASE GraceEnds \/ UNCHANGED vars
  BY <1>0, <1>2, TasksKnow
     DEF GraceEnds, vars, tables, IHistory, Returns, CarriesOn, Carries
<1>3. CASE \E t \in Tasks : Observe(t)
  BY <1>3, ObserveKnows
<1>4. CASE \E c \in Conns : Connection(c)
  BY <1>4, ConnectionKnows
<1>5. CASE EvaluationLoop
  BY <1>5, LoopKnows
<1>6. CASE Administrators
  BY <1>6, AdministratorKnows
<1>7. CASE RestartBackend
  BY <1>7, RestartKnows
<1>8. QED
  BY <1>1, <1>2, <1>3, <1>4, <1>5, <1>6, <1>7 DEF Next

-----------------------------------------------------------------------------
(***************************************************************************)
(* Only process_rule_observation lets an event follow an observation.      *)
(***************************************************************************)
LEMMA OnlyProcess ==
  ASSUME IHistory, [Next]_vars, NEW t \in Tasks, NEW r \in Rules, Observes(t, r),
         event'[r] = None <=> event[r] # None
  PROVE  \E v \in Versions : Process(t, r, v)
<1>0. TypeOK
  BY DEF IHistory, IWarranted
<1>1. event' # event /\ task'[t].todo # task[t].todo
  BY DEF Observes
<1>2. CASE \E x \in Tasks : Observe(x)
  <2>1. PICK x \in Tasks, y \in Rules, v \in Versions : Process(x, y, v)
    BY <1>1, <1>2 DEF Observe, ObserveConnection, ResetPending, ObserveOffline, WorkDone, tables
  <2>2. x = t /\ task'[t].todo = task[t].todo \ {<<y, v>>}
    BY <1>0, <1>1, <2>1 DEF Process, TypeOK
  <2>3. y = r
    BY <2>2 DEF Observes
  <2>4. QED
    BY <2>1, <2>2, <2>3
<1>3. CASE RefreshSuppression
  <2>1. event[r] # None => event[r] \in Event
    BY <1>0 DEF TypeOK
  <2>2. event'[r] = Refresh(event[r], r)
    BY <1>3 DEF RefreshSuppression
  <2>3. event[r] = None => event'[r] = None
    BY <2>2 DEF Refresh
  <2>4. ASSUME event[r] # None
        PROVE  event'[r] # None
    <3>1. Suppressed(r) \in BOOLEAN
      BY DEF Suppressed, Covered
    <3>2. event'[r] \in Event
      BY <2>1, <2>2, <2>4, <3>1 DEF Refresh, Event
    <3>3. QED
      BY <3>2, NoneAssumption
  <2>5. QED
    BY <2>3, <2>4
<1>4. CASE Administrators
  <2>1. CASE \E q \in Requests : DisableInstance(q) \/ DeleteInstance(q)
    <3>1. PICK q \in Requests : GoTo(q, "revoke")
      BY <2>1 DEF DisableInstance, DeleteInstance, Revoke
    <3>2. \A x \in Tasks : task'[x].todo = task[x].todo
      BY <1>0, <3>1 DEF GoTo, TypeOK
    <3>3. QED
      BY <1>1, <3>2
  <2>2. QED
    BY <1>1, <1>4, <2>1
       DEF Administrators, UpdateRule, SetRuleEnabled, DeleteRule, Acknowledge, SetWindow,
           CreateMaintenance, UpdateMaintenance, DeleteMaintenance, Expiry, RevokeConnection,
           tables
<1>5. QED
  BY <1>1, <1>2, <1>3, <1>4
     DEF Next, vars, tables, Tick, GraceEnds, RestartBackend, EvaluationLoop, LoopTick,
         ObserveExpiration, LoopGrace, Connection, Upgrade, Register, Authorize, Report,
         ObserveMetric, Unregister

\* Whatever connections, late observations, changes by administrators and restarts
\* interleave, an offline alert recovers only when no abnormal observation was taken in
\* for the stability window (recovery_confirmation, observation_is_stale).
THEOREM RecoveryStaysStable == Spec => RecoveryIsStable
<1> DEFINE Stable == \A t \in Tasks, r \in OfflineRules :
                       Observes(t, r) /\ Open(r) /\ event'[r] = None
                         => badAge[r] - task[t].age >= Stability
<1>1. ASSUME IHistory, [Next]_vars
      PROVE  Stable
  <2> SUFFICES ASSUME NEW t \in Tasks, NEW r \in OfflineRules, Observes(t, r), Open(r),
                      event'[r] = None
               PROVE  badAge[r] - task[t].age >= Stability
    OBVIOUS
  <2>0. r \in Timed /\ r \in Rules /\ TypeOK /\ (instance = "approved" => RowKnown(r))
    BY <1>1, Lasting DEF IHistory, IWarranted, Known, Timed
  <2>1. PICK v \in Versions : Process(t, r, v)
    BY <1>1, OnlyProcess, Lasting DEF Open, Timed
  <2>2. /\ SameRule(r, v) /\ instance = "approved"
        /\ ~Stale(Evaluation(r), task[t].age, Reading(t, r))
    BY <2>1 DEF Process, Open
  <2> DEFINE e == Evaluation(r)
             age == task[t].age
             bad == Reading(t, r)
  <2>3. bad \in BOOLEAN /\ <<r, v>> \in task[t].todo
    BY <2>0, <2>1, <2>2 DEF Process, Reading, Online, TypeOK
  <2>4. badAge[r] >= age
    BY <1>1, <2>0, <2>2, <2>3, InOrder
  <2>5. /\ age \in 0 .. MaxLag /\ badAge[r] \in Ages
    <3>1. task[t] \in TaskType
      BY <2>0, <2>2 DEF TypeOK, TaskType
    <3>2. QED
      BY <2>0, <2>2, <3>1 DEF TypeOK, TaskType
  <2>6. age \in Nat /\ badAge[r] \in Nat /\ Stability \in Nat
    BY <2>5, Lasting
  <2>7. e \in Row /\ (e.recovery # None => badAge[r] >= e.recovery)
    BY <1>1, <2>0, <2>2, EvaluationType, Evaluated DEF RowKnown, Empty
  <2>8. ~bad
    <3>1. ASSUME bad PROVE event'[r] # None
      <4>1. Abnormal(r, v, e, age) /\ event[r] \in Event
        BY <2>0, <2>1, <2>2, <3>1 DEF Process, Open, TypeOK
      <4>2. event'[r] = [event[r] EXCEPT !.muted = Suppressed(r)]
        BY <2>0, <2>2, <4>1 DEF Abnormal, TypeOK
      <4>3. event'[r] \in Event
        BY <4>1, <4>2 DEF Event, Suppressed, Covered
      <4>4. QED
        BY <4>3, NoneAssumption
    <3>2. QED
      BY <3>1
  <2>9. Recovery(r, e, age).confirmed
    BY <2>0, <2>1, <2>2, <2>8 DEF Process, Normal, Open, TypeOK
  <2>10. (IF e.recovery = None THEN age ELSE e.recovery) - age >= Stability
    BY <2>9 DEF Recovery
  <2>11. e.recovery = None \/ e.recovery \in Nat
    BY <2>7, Lasting DEF Row
  <2>12. QED
    BY <2>4, <2>6, <2>7, <2>10, <2>11
<1>2. QED
  BY InitHistory, StepHistory, <1>1, PTL DEF Spec, RecoveryIsStable

\* Nor does an alert fire unless no normal observation was taken in for its duration
\* (pending_should_fire, reset_metric_pending_states), whatever interleaves.
THEOREM FiringStaysSustained == Spec => FiringIsSustained
<1> DEFINE Sustained == \A t \in Tasks, r \in OfflineRules \cup MetricRules :
                          Observes(t, r) /\ ~Open(r) /\ event'[r] # None
                            => calmAge[r] - task[t].age >= Duration
<1>1. ASSUME IHistory, [Next]_vars
      PROVE  Sustained
  <2> SUFFICES ASSUME NEW t \in Tasks, NEW r \in OfflineRules \cup MetricRules, Observes(t, r),
                      ~Open(r), event'[r] # None
               PROVE  calmAge[r] - task[t].age >= Duration
    OBVIOUS
  <2>0. r \in Timed /\ r \in Rules /\ TypeOK /\ (instance = "approved" => RowKnown(r))
    BY <1>1, Lasting DEF IHistory, IWarranted, Known, Timed
  <2>1. PICK v \in Versions : Process(t, r, v)
    BY <1>1, OnlyProcess, Lasting DEF Open, Timed
  <2>2. /\ SameRule(r, v) /\ instance = "approved"
        /\ ~Stale(Evaluation(r), task[t].age, Reading(t, r))
    BY <2>1 DEF Process, Open
  <2> DEFINE e == Evaluation(r)
             age == task[t].age
             bad == Reading(t, r)
  <2>3. bad \in BOOLEAN /\ <<r, v>> \in task[t].todo
    BY <2>0, <2>1, <2>2 DEF Process, Reading, Online, TypeOK
  <2>4. calmAge[r] >= age
    BY <1>1, <2>0, <2>2, <2>3, InOrder
  <2>5. /\ age \in 0 .. MaxLag /\ calmAge[r] \in Ages
    <3>1. task[t] \in TaskType
      BY <2>0, <2>2 DEF TypeOK, TaskType
    <3>2. QED
      BY <2>0, <2>2, <3>1 DEF TypeOK, TaskType
  <2>6. age \in Nat /\ calmAge[r] \in Nat /\ Duration \in Nat
    BY <2>5, Lasting
  <2>7. e \in Row /\ (e.pending # None => calmAge[r] >= e.pending)
    BY <1>1, <2>0, <2>2, EvaluationType, Evaluated DEF RowKnown, Empty
  <2>8. CASE bad
    <3>1. Fires(r, e, age)
      BY <2>0, <2>1, <2>2, <2>8 DEF Process, Abnormal, Open, TypeOK
    <3>2. r \notin ExpiryRules
      BY <2>0, <2>2, Lasting
    <3>3. Duration = 0 \/ (e.pending # None /\ e.pending - age >= Duration)
      BY <3>1, <3>2 DEF Fires, DurationOf
    <3>4. e.pending = None \/ e.pending \in Nat
      BY <2>7, Lasting DEF Row
    <3>5. QED
      BY <2>4, <2>6, <2>7, <3>3, <3>4
  <2>9. CASE ~bad
    BY <2>0, <2>1, <2>2, <2>9 DEF Process, Normal, Open, TypeOK
  <2>10. QED
    BY <2>8, <2>9
<1>2. QED
  BY InitHistory, StepHistory, <1>1, PTL DEF Spec, FiringIsSustained
=============================================================================
