------------------------- MODULE AgentUpdateProofs -------------------------
(***************************************************************************)
(* Theorems about the two halves of an update, for every number of         *)
(* versions, retries, updaters and faults.  AgentUpdate, for as long as no *)
(* update crossed another one and no version reported itself at the        *)
(* deadline of its updater (Crossed): what is recorded is true, and the    *)
(* way back is kept and leads to the version that was installed before.    *)
(* ActivityDrain, for any finite set of works: the updater is launched     *)
(* only with nobody inside, and all of it is one atomic gate.              *)
(***************************************************************************)
EXTENDS MCAgentUpdate, FiniteSetTheorems, TLAPS

-----------------------------------------------------------------------------
(***************************************************************************)
(* The inductive invariant of AgentUpdate.                                 *)
(***************************************************************************)
\* Values the type invariant does not tell apart: an updater has a plan or none, a
\* task has an offer of the server, and an agent that has read holds a state.
WorkerPoints == {"lock", "handoff", "stop", "install", "restart", "health", "back", "restore",
                 "rerestart", "rehealth"}
Plans == [at : WorkerPoints, offer : Offers, path : Paths, previous : Packages]
Processes == [at : {"down", "boot", "read", "settle", "up"}, ver : Versions, seen : States \cup {None}]
Typed ==
  /\ TypeOK
  /\ worker \in [Workers -> Plans \cup {NoPlan}]
  /\ task.at # "none" => task.offer \in Upgrades \cup Rollbacks
  /\ task.at = "spawned" => task.worker \in Workers
  /\ agent.at \in {"read", "settle"} => agent.seen \in States

AllFree == \A w \in Workers : Free(w)
At(w, points) == worker[w].at \in points

\* Updaters, the task of the connection and force_update keep out of each other's way.
Alone ==
  /\ \A v, w \in Workers : ~Free(v) /\ ~Free(w) => v = w
  /\ task.at # "none" => agent.at = "up" /\ cli = None
  /\ task.at \in {"begin", "fetch", "ready"} => AllFree
  /\ task.at = "spawned" => \A w \in Workers : At(w, {"none", "lock", "handoff"})
  /\ cli # None => agent.at \in {"down", "boot", "up"} /\ cli.target # installed /\ AllFree
\* A service that is stopped has no agent, and an agent runs what is installed.
Runner ==
  /\ service = "stopped" => agent.at = "down"
  /\ agent.at # "down" => agent.ver = installed
  /\ \A w \in Workers : At(w, {"install", "restart", "rerestart"}) => service = "stopped"

\* An attempt that was handed over has its package and its way back.
Whole(a) ==
  /\ a.path # None => a.path.ver = a.offer.target
  /\ a.phase \in {"target", "rollback"} => a.path # None /\ a.previous # None

\* The task works on the current attempt, which nobody has installed.
Prepared ==
  /\ task.at \in {"fetch", "ready", "spawned"} => Current(task.offer)
  /\ task.at \in {"fetch", "ready"} =>
      Attempt.phase = "staging" /\ Attempt.offer.target # installed
  /\ task.at \in {"ready", "spawned"} => Attempt.path # None
  /\ task.at = "spawned" => Attempt.previous # None /\ Attempt.phase \in {"staging", "completed"}
\* An agent that has read the state has read of the attempt that is still there; while it
\* has, an updater is only where it waits for such a report.
Twin(a, b) == a.offer = b.offer /\ a.path = b.path /\ a.previous = b.previous
Reading == agent.at \in {"read", "settle"}
Read ==
  Reading =>
    /\ Seen = None <=> Attempt = None
    /\ Seen # None =>
        /\ Whole(Seen) /\ Twin(Seen, Attempt)
        /\ OnTarget => \A w \in Workers : At(w, {"none", "health"})
        /\ OnPrevious => \A w \in Workers : At(w, {"none", "restore", "rehealth"})
    /\ agent.at = "settle" => Seen # None /\ Finalizes

\* Where an updater is tells the phase of its attempt and what is installed.
MarkOf(o) == [ver |-> o.target, retry |-> o.retry]
Done(a) == a.phase = "completed" /\ a.status = Success(a.offer)
Undone(a) == a.phase = "completed" /\ a.status = Restored(a.offer)
Applying(w) ==
  ~Free(w) =>
  /\ Attempt # None /\ Twin(worker[w], Attempt)
  /\ At(w, {"lock", "handoff", "stop"}) => installed # worker[w].offer.target
  /\ At(w, {"lock", "handoff"}) => Attempt.phase # "rollback"
  /\ At(w, {"stop", "install", "restart", "back"}) => Attempt.phase = "target"
  /\ At(w, {"restart", "health"}) => installed = worker[w].offer.target
  /\ At(w, {"health"}) =>
       /\ Attempt.phase = "target" \/ (Done(Attempt) /\ health = MarkOf(worker[w].offer))
       /\ agent.at = "settle" => health = MarkOf(worker[w].offer)
       /\ agent.at = "read" => Seen.phase = "target" \/ Done(Seen)
  /\ At(w, {"restore", "rerestart", "rehealth"}) => Attempt.phase = "rollback" \/ Undone(Attempt)
  /\ At(w, {"rerestart", "rehealth"}) => installed = worker[w].previous.path.ver

\* StatusIsTrue, at every moment.
ResultIsTrue ==
  Attempt # None /\ Attempt.phase = "completed" /\ Attempt.path # None =>
    /\ Attempt.status = Success(Attempt.offer) /\ Attempt.offer.kind = "rollback"
         => installed = Attempt.offer.target
    /\ Attempt.status = "succeeded" => installed = Attempt.offer.target
    /\ Attempt.status = "rollback_succeeded" /\ Attempt.offer.kind # "rollback"
         => installed = Attempt.previous.path.ver

IState == Alone /\ Runner /\ (Attempt # None => Whole(Attempt)) /\ Prepared /\ Read
         /\ (\A w \in Workers : Applying(w)) /\ ResultIsTrue

\* What an updater may still need of the packages.
CurrentIs(v) == state.current # None => state.current.path \in files /\ state.current.path.ver = v
Fallback(w) ==
  ~Free(w) =>
  /\ worker[w].previous.path \in files /\ worker[w].previous.path.ver # worker[w].offer.target
  /\ At(w, {"lock", "handoff", "stop", "install"}) => worker[w].previous.path.ver = installed
  /\ At(w, {"lock", "handoff", "stop", "install", "restart", "health"}) => worker[w].path \in files
  /\ IF At(w, {"health"}) /\ Attempt.phase = "completed" THEN CurrentIs(worker[w].offer.target)
     ELSE CurrentIs(worker[w].previous.path.ver)
\* What is cached while no updater is at work, and what a handoff copies of it.
Idle   == AllFree => CurrentIs(installed)
Copied == task.at \in {"fetch", "ready"} => Attempt.previous = state.current
\* Nobody has installed the attempt that is left without its updater.
Untried ==
  /\ AllFree /\ Attempt # None /\ Attempt.phase = "target" => installed # Attempt.offer.target
  /\ task.at = "spawned" => installed # Attempt.offer.target
Reports ==
  Reading /\ Seen # None =>
    /\ OnTarget => Seen.path \in files
    /\ OnPrevious => agent.seen.current = state.current
\* Until an update crosses or breaks off, the way back is there.
Smooth == ~Broken /\ ~Crossed
KeptNow == Idle /\ Copied /\ Untried /\ (\A w \in Workers : Fallback(w)) /\ Reports
Kept == Smooth => KeptNow

\* What holds at every moment until an update crosses: Good, and Kept beside it.
Good == Typed /\ IState

-----------------------------------------------------------------------------
(***************************************************************************)
(* The values the operators of the state return.                           *)
(***************************************************************************)
\* What offers, paths and packages consist of.
LEMMA OfferParts ==
  ASSUME NEW o \in Offers
  PROVE  /\ o.target \in Versions /\ o.retry \in 0 .. MaxRetry
         /\ o.kind \in {"upgrade", "rollback", "manual"}
BY BoundAssumption DEF Offers, Upgrades, Rollbacks, Forced, Versions

LEMMA PathParts ==
  ASSUME NEW p \in Paths
  PROVE  p.ver \in Versions /\ p.retry \in 0 .. MaxRetry
BY BoundAssumption DEF Paths

LEMMA PackageParts ==
  ASSUME NEW p \in Packages
  PROVE  p.path \in Paths /\ p.path.ver \in Versions /\ p.retry \in 0 .. MaxRetry
BY PathParts DEF Packages

LEMMA StateParts ==
  ASSUME NEW s \in States
  PROVE  /\ s.current \in Packages \cup {None} /\ s.baseline \in Packages \cup {None}
         /\ s.attempt \in Attempts \cup {None}
BY DEF States

LEMMA AttemptParts ==
  ASSUME NEW a \in Attempts
  PROVE  /\ a.offer \in Offers /\ a.path \in Paths \cup {None} /\ a.previous \in Packages \cup {None}
         /\ a.phase \in {"staging", "target", "rollback", "completed"}
BY DEF Attempts

Statuses == {"waiting", "waiting_idle", "installing", "awaiting_restart", "succeeded",
             "rollback_succeeded", "failed"}
Phases == {"staging", "target", "rollback", "completed"}

\* The changes of a state.
LEMMA NewAttemptIs ==
  ASSUME NEW o \in Offers, NEW p \in Packages \cup {None}
  PROVE  /\ NewAttempt(o, p) \in Attempts
         /\ NewAttempt(o, p).offer = o /\ NewAttempt(o, p).previous = p
         /\ NewAttempt(o, p).path = None /\ NewAttempt(o, p).phase = "staging"
BY DEF NewAttempt, Attempts

LEMMA WithAttempt ==
  ASSUME NEW s \in States, NEW a \in Attempts
  PROVE  /\ [s EXCEPT !.attempt = a] \in States
         /\ [s EXCEPT !.attempt = a].attempt = a
         /\ [s EXCEPT !.attempt = a].current = s.current
         /\ [s EXCEPT !.attempt = a].baseline = s.baseline
BY DEF States

Marked(s, t, p) == [s EXCEPT !.attempt.status = t, !.attempt.phase = p]
LEMMA WithStatus ==
  ASSUME NEW s \in States, s.attempt # None, NEW t \in Statuses, NEW p \in Phases
  PROVE  /\ Marked(s, t, p) \in States
         /\ Marked(s, t, p).current = s.current /\ Marked(s, t, p).baseline = s.baseline
         /\ Marked(s, t, p).attempt \in Attempts /\ Twin(Marked(s, t, p).attempt, s.attempt)
         /\ Marked(s, t, p).attempt.status = t /\ Marked(s, t, p).attempt.phase = p
BY DEF Marked, States, Attempts, Twin, Statuses, Phases

LEMMA EndedIs ==
  ASSUME NEW s \in States, s.attempt # None, NEW t \in Statuses
  PROVE  /\ Ended(s, t) \in States
         /\ Ended(s, t).current = s.current /\ Ended(s, t).baseline = s.baseline
         /\ Ended(s, t).attempt \in Attempts /\ Twin(Ended(s, t).attempt, s.attempt)
         /\ Ended(s, t).attempt.status = t /\ Ended(s, t).attempt.phase = "completed"
<1>1. Ended(s, t) = Marked(s, t, "completed")
  BY DEF Ended, Marked
<1>2. QED  BY <1>1, WithStatus DEF Phases

Fetched(s, p) == [s EXCEPT !.attempt.path = p, !.attempt.status = "waiting_idle"]
LEMMA FetchedIs ==
  ASSUME NEW s \in States, s.attempt # None, NEW p \in Paths
  PROVE  /\ Fetched(s, p) \in States
         /\ Fetched(s, p).current = s.current /\ Fetched(s, p).baseline = s.baseline
         /\ Fetched(s, p).attempt \in Attempts /\ Fetched(s, p).attempt.offer = s.attempt.offer
         /\ Fetched(s, p).attempt.path = p /\ Fetched(s, p).attempt.previous = s.attempt.previous
         /\ Fetched(s, p).attempt.phase = s.attempt.phase
BY DEF Fetched, States, Attempts

Settled(s, c, b, t) == [s EXCEPT !.current = c, !.baseline = b, !.attempt.status = t,
                                 !.attempt.phase = "completed"]
LEMMA SettledIs ==
  ASSUME NEW s \in States, s.attempt # None, NEW t \in Statuses,
         NEW c \in Packages \cup {None}, NEW b \in Packages \cup {None}
  PROVE  /\ Settled(s, c, b, t) \in States
         /\ Settled(s, c, b, t).current = c /\ Settled(s, c, b, t).baseline = b
         /\ Settled(s, c, b, t).attempt \in Attempts
         /\ Twin(Settled(s, c, b, t).attempt, s.attempt)
         /\ Settled(s, c, b, t).attempt.status = t
         /\ Settled(s, c, b, t).attempt.phase = "completed"
BY DEF Settled, States, Attempts, Twin, Statuses

LEMMA RotatedIs ==
  ASSUME NEW s \in States, NEW a \in Attempts, a.path # None
  PROVE  /\ Rotated(s, a) \in States /\ Rotated(s, a).attempt = s.attempt
         /\ Rotated(s, a).current = Package(a) /\ Rotated(s, a).baseline = a.previous
         /\ Package(a) \in Packages /\ Package(a).path = a.path
BY AttemptParts, OfferParts DEF Rotated, Package, Packages, States

\* The package an updater falls back to.
LEMMA PreviousIs ==
  ASSUME NEW a \in Attempts, Typed
  PROVE  /\ PreviousOf(a) \in Packages
         /\ a.previous # None => PreviousOf(a) = a.previous
         /\ a.previous = None =>
              PreviousOf(a).path.ver = IF a.offer.kind = "manual" THEN installed ELSE agent.ver
<1>1. installed \in Versions /\ agent.ver \in Versions
  BY DEF Typed, TypeOK
<1>2. QED
  BY <1>1, AttemptParts, BoundAssumption DEF PreviousOf, Packages, Paths

LEMMA HandedIs ==
  ASSUME NEW a \in Attempts, a.path # None, Typed
  PROVE  /\ Plan(a) \in Plans /\ Plan(a).at = "lock" /\ Plan(a).offer = a.offer
         /\ Plan(a).path = a.path /\ Plan(a).previous = PreviousOf(a)
         /\ [a EXCEPT !.previous = PreviousOf(a)] \in Attempts
         /\ Twin(Plan(a), [a EXCEPT !.previous = PreviousOf(a)])
         /\ [a EXCEPT !.previous = PreviousOf(a)].status = a.status
         /\ [a EXCEPT !.previous = PreviousOf(a)].phase = a.phase
BY PreviousIs DEF Plan, Plans, Attempts, Twin, WorkerPoints

ForcedAttempt(o) ==
  [NewAttempt(o, None) EXCEPT !.path = Staged(o), !.status = "awaiting_restart", !.phase = "target"]
LEMMA ForcedIs ==
  ASSUME NEW o \in Forced
  PROVE  /\ ForcedAttempt(o) \in Attempts /\ ForcedAttempt(o).offer = o
         /\ ForcedAttempt(o).path = Staged(o) /\ ForcedAttempt(o).previous = None
         /\ ForcedAttempt(o).status = "awaiting_restart" /\ ForcedAttempt(o).phase = "target"
         /\ Staged(o) \in Paths /\ Staged(o).ver = o.target
BY BoundAssumption DEF ForcedAttempt, NewAttempt, Attempts, Staged, Paths, Forced, Offers

\* How a step changes the updaters.
LEMMA PlanParts ==
  ASSUME Typed, NEW w \in Workers
  PROVE  /\ worker[w].at \in WorkerPoints \cup {"none"}
         /\ ~Free(w) => /\ worker[w] \in Plans /\ worker[w].offer \in Offers
                        /\ worker[w].path \in Paths /\ worker[w].previous \in Packages
BY DEF Typed, Plans, NoPlan, Free, WorkerPoints

LEMMA StepIs ==
  ASSUME Typed, NEW w \in Workers, ~Free(w), NEW at \in WorkerPoints, Step(w, at)
  PROVE  /\ worker' \in [Workers -> Plans \cup {NoPlan}]
         /\ worker'[w].at = at /\ worker'[w].offer = worker[w].offer
         /\ worker'[w].path = worker[w].path /\ worker'[w].previous = worker[w].previous
         /\ \A v \in Workers \ {w} : worker'[v] = worker[v]
BY PlanParts DEF Typed, Step, Plans

LEMMA GoneIs ==
  ASSUME Typed, NEW w \in Workers, Gone(w)
  PROVE  /\ worker' \in [Workers -> Plans \cup {NoPlan}] /\ lock' \in Workers \cup {None}
         /\ worker'[w].at = "none"
         /\ \A v \in Workers \ {w} : worker'[v] = worker[v]
BY DEF Typed, TypeOK, Gone, NoPlan

\* What an updater may record.
LEMMA PersistIs ==
  ASSUME Typed, NEW w \in Workers, ~Free(w), Applying(w),
         NEW t \in Statuses, NEW p \in Phases, Persist(w, t, p)
  PROVE  /\ state' \in States /\ Attempt' # None
         /\ state'.current = state.current /\ state'.baseline = state.baseline
         /\ Twin(Attempt', Attempt)
         /\ \/ Attempt'.status = t /\ Attempt'.phase = p
            \/ Attempt.phase = "completed" /\ state' = state
         /\ p = "completed" => Attempt'.status = t /\ Attempt'.phase = "completed"
<1>1. Attempt # None /\ Current(worker[w].offer) /\ Attempt \in Attempts /\ state \in States
  BY StateParts DEF Typed, TypeOK, Applying, Twin, Attempt, Current
<1> DEFINE e == Marked(state, t, p)
<1>2. /\ e \in States /\ e.current = state.current /\ e.baseline = state.baseline
      /\ e.attempt \in Attempts /\ Twin(e.attempt, state.attempt)
      /\ e.attempt.status = t /\ e.attempt.phase = p
  BY <1>1, WithStatus DEF Attempt
<1>3. state' = state \/ state' = e
  BY DEF Persist, Persisted, Marked
<1>4. CASE state' = e
  BY <1>2, <1>4, NoneAssumption DEF Attempt
<1>5. CASE state' = state
  <2>1. state = e \/ (/\ Attempt.phase = "completed"
                      /\ \/ Attempt.status = t
                         \/ p \in {"target", "rollback"})
    BY <1>1, <1>5 DEF Persist, Persisted, Marked
  <2>2. CASE state = e
    BY <1>2, <1>5, <2>2, NoneAssumption DEF Attempt
  <2>3. CASE state # e
    BY <1>1, <1>5, <2>1, <2>3 DEF Attempt, Twin
  <2>4. QED  BY <2>2, <2>3
<1>6. QED  BY <1>3, <1>4, <1>5

\* Every other part of Typed is about one variable.
LEMMA FailIs ==
  ASSUME Typed, NEW w \in Workers, ~Free(w), Applying(w), Fail(w)
  PROVE  /\ state' \in States /\ Attempt' # None
         /\ state'.current = state.current /\ state'.baseline = state.baseline
         /\ Twin(Attempt', Attempt) /\ Attempt'.status = "failed" /\ Attempt'.phase = "completed"
         /\ worker' \in [Workers -> Plans \cup {NoPlan}] /\ lock' \in Workers \cup {None}
         /\ worker'[w].at = "none"
         /\ \A v \in Workers \ {w} : worker'[v] = worker[v]
BY GoneIs, PersistIs DEF Fail, Statuses, Phases

-----------------------------------------------------------------------------
(***************************************************************************)
(* Every step keeps the types.                                             *)
(***************************************************************************)
LEMMA FaultIs ==
  ASSUME Typed, NEW kind \in FaultKinds, Fault(kind)
  PROVE  faults' \subseteq FaultKinds /\ faults' = faults \cup {kind}
BY DEF Typed, TypeOK, Fault, Notes

\* A step that nothing keeps from happening is noted when it crosses.
LEMMA NoteIs ==
  ASSUME Typed, NEW kinds \in SUBSET FaultKinds, Notes(kinds)
  PROVE  /\ faults' \subseteq FaultKinds /\ faults' = faults \cup kinds
         /\ ~Crossed' => kinds \cap Crossings = {}
BY DEF Typed, TypeOK, Notes, Crossed

LEMMA WhenIs ==
  ASSUME NEW P \in BOOLEAN, NEW Q \in BOOLEAN
  PROVE  /\ When(P, "late") \cup When(Q, "beside") \in SUBSET FaultKinds
         /\ When(P, "beside") \cup When(Q, "same") \in SUBSET FaultKinds
         /\ When(P, "late") \in SUBSET FaultKinds /\ When(P, "beside") \in SUBSET FaultKinds
         /\ (When(P, "late") \cup When(Q, "beside")) \cap Crossings = {} => ~P /\ ~Q
         /\ (When(P, "beside") \cup When(Q, "same")) \cap Crossings = {} => ~P /\ ~Q
         /\ When(P, "late") \cap Crossings = {} => ~P
         /\ When(P, "beside") \cap Crossings = {} => ~P
BY DEF When, FaultKinds, Crossings

\* What connecting, an offer, a forced update and the deadline note.
LEMMA CrossingIs ==
  ASSUME Typed
  PROVE  /\ Connect => faults' \subseteq FaultKinds /\ (~Crossed' => ~Untimely /\ cli = None)
         /\ \A o \in Offers : Offer(o) =>
              /\ faults' \subseteq FaultKinds
              /\ ~Crossed' => cli = None /\ \A w \in Workers : worker[w].at = "none"
         /\ \A o \in Forced : ForceCheck(o) =>
              /\ faults' \subseteq FaultKinds
              /\ ~Crossed' => /\ o.target # installed /\ task = NoTask
                              /\ agent.at \notin {"read", "settle"} /\ AllFree
         /\ \A w \in Workers : Unhealthy(w) =>
              /\ faults' \subseteq FaultKinds /\ (~Crossed' => ~Reading)
<1>1. ASSUME Connect
      PROVE  faults' \subseteq FaultKinds /\ (~Crossed' => ~Untimely /\ cli = None)
  <2> DEFINE P == Untimely
             Q == cli # None
  <2>1. P \in BOOLEAN /\ Q \in BOOLEAN
    BY DEF Untimely
  <2>2. Notes(When(P, "late") \cup When(Q, "beside"))
    BY <1>1 DEF Connect
  <2> HIDE DEF P, Q
  <2>3. faults' \subseteq FaultKinds /\ (~Crossed' => ~P /\ ~Q)
    BY <2>1, <2>2, NoteIs, WhenIs
  <2>4. QED  BY <2>3 DEF P, Q
<1>2. ASSUME NEW o \in Offers, Offer(o)
      PROVE  /\ faults' \subseteq FaultKinds
             /\ ~Crossed' => cli = None /\ \A w \in Workers : worker[w].at = "none"
  <2> DEFINE P == cli # None \/ \E w \in Workers : worker[w].at # "none"
  <2>1. P \in BOOLEAN
    OBVIOUS
  <2>2. Notes(When(P, "beside"))
    BY <1>2 DEF Offer
  <2> HIDE DEF P
  <2>3. faults' \subseteq FaultKinds /\ (~Crossed' => ~P)
    BY <2>1, <2>2, NoteIs, WhenIs
  <2>4. QED  BY <2>3 DEF P
<1>3. ASSUME NEW o \in Forced, ForceCheck(o)
      PROVE  /\ faults' \subseteq FaultKinds
             /\ ~Crossed' => /\ o.target # installed /\ task = NoTask
                             /\ agent.at \notin {"read", "settle"} /\ AllFree
  <2> DEFINE P == \/ task # NoTask \/ agent.at \in {"read", "settle"}
                  \/ \E w \in Workers : ~Free(w)
             Q == o.target = installed
  <2>1. P \in BOOLEAN /\ Q \in BOOLEAN
    OBVIOUS
  <2>2. Notes(When(P, "beside") \cup When(Q, "same"))
    BY <1>3 DEF ForceCheck
  <2> HIDE DEF P, Q
  <2>3. faults' \subseteq FaultKinds /\ (~Crossed' => ~P /\ ~Q)
    BY <2>1, <2>2, NoteIs, WhenIs
  <2>4. QED  BY <2>3 DEF P, Q, AllFree
<1>4. ASSUME NEW w \in Workers, Unhealthy(w)
      PROVE  faults' \subseteq FaultKinds /\ (~Crossed' => ~Reading)
  <2> DEFINE P == agent.at \in {"read", "settle"}
  <2>1. P \in BOOLEAN
    OBVIOUS
  <2>2. Notes(When(P, "late"))
    BY <1>4 DEF Unhealthy
  <2> HIDE DEF P
  <2>3. faults' \subseteq FaultKinds /\ (~Crossed' => ~P)
    BY <2>1, <2>2, NoteIs, WhenIs
  <2>4. QED  BY <2>3 DEF P, Reading
<1>5. QED  BY <1>1, <1>2, <1>3, <1>4

LEMMA Parts ==
  ASSUME Typed
  PROVE  /\ state \in States /\ Attempt \in Attempts \cup {None}
         /\ state.current \in Packages \cup {None} /\ state.baseline \in Packages \cup {None}
         /\ Reading => Seen \in Attempts \cup {None}
         /\ task.at # "none" => task.offer \in Offers
BY StateParts DEF Typed, TypeOK, Attempt, Reading, Seen, Offers

\* The values of the variables that are not the state, the agent or the updaters.
LEMMA TypedFrom ==
  ASSUME Typed, installed' \in Versions, service' \in {"running", "stopped"},
         agent' \in [at : {"down", "boot", "read", "settle", "up"}, ver : Versions,
                     seen : States \cup {None}],
         agent'.at \in {"read", "settle"} => agent'.seen \in States,
         task' = task \/ task' = NoTask \/
           (/\ task'.at \in {"begin", "fetch", "ready", "spawned"}
            /\ task' \in [at : {"begin", "fetch", "ready", "spawned"}, offer : Upgrades \cup Rollbacks,
                          worker : Workers \cup {None}]
            /\ task'.at = "spawned" => task'.worker \in Workers),
         state' \in States,
         health' \in Marks \cup {None},
         files' \subseteq Paths, worker' \in [Workers -> Plans \cup {NoPlan}],
         lock' \in Workers \cup {None}, cli' \in Forced \cup {None},
         updates' \in 0 .. MaxUpdates, faults' \subseteq FaultKinds
  PROVE  Typed'
<1>1. \A w \in Workers : worker'[w].at # "none" =>
        worker'[w].offer \in Offers /\ worker'[w].path \in Paths /\ worker'[w].previous \in Packages
  BY DEF Plans, NoPlan
<1>2. /\ task' \in [at : {"none", "begin", "fetch", "ready", "spawned"}, offer : Offers \cup {None},
                    worker : Workers \cup {None}]
      /\ task'.at # "none" => task'.offer \in Upgrades \cup Rollbacks
      /\ task'.at = "spawned" => task'.worker \in Workers
  BY DEF Typed, TypeOK, NoTask, Offers
<1>3. QED  BY <1>1, <1>2 DEF Typed, TypeOK

LEMMA AgentTyped ==
  ASSUME Good, Connect \/ ServiceStarts \/ Disconnect \/ WriteHealth
  PROVE  Typed'
<1> USE DEF Good
<1>1. CASE Connect
  <2>1. agent' \in [at : {"down", "boot", "read", "settle", "up"}, ver : Versions,
                     seen : States \cup {None}] /\ agent'.seen = state
    BY <1>1 DEF Connect, Typed, TypeOK
  <2>2. faults' \subseteq FaultKinds
    BY <1>1, CrossingIs
  <2>3. QED  BY <1>1, <2>1, <2>2, TypedFrom DEF Connect, Typed, TypeOK, disk
<1>2. CASE ServiceStarts
  BY <1>2, TypedFrom DEF ServiceStarts, Typed, TypeOK, disk, Down
<1>3. CASE Disconnect
  <2>1. agent' \in [at : {"down", "boot", "read", "settle", "up"}, ver : Versions,
                     seen : States \cup {None}] /\ agent'.at \in {"down", "boot"}
    BY <1>3, BoundAssumption DEF Disconnect, Down, Versions, Typed, TypeOK
  <2>2. QED  BY <1>3, <2>1, TypedFrom DEF Disconnect, Typed, TypeOK, disk
<1>4. CASE WriteHealth
  <2>1. Seen # None => Whole(Seen)
    BY <1>4 DEF WriteHealth, IState, Read, Reading
  <2>2. Marker \in Marks \cup {None}
    BY <1>4, <2>1, Parts, AttemptParts, OfferParts, PackageParts
       DEF WriteHealth, Marker, Marks, Whole, OnTarget, OnPrevious, Reading
  <2>3. agent' \in [at : {"down", "boot", "read", "settle", "up"}, ver : Versions,
                     seen : States \cup {None}]
        /\ (agent'.at \in {"read", "settle"} => agent'.seen \in States)
    BY <1>4, NoneAssumption DEF WriteHealth, Typed, TypeOK
  <2>4. QED  BY <1>4, <2>2, <2>3, TypedFrom DEF WriteHealth, Typed, TypeOK
<1>5. QED  BY <1>1, <1>2, <1>3, <1>4

LEMMA SettleTyped ==
  ASSUME Good, Settle
  PROVE  Typed'
<1> USE DEF Good
<1>1. /\ Seen \in Attempts /\ agent.seen \in States /\ agent.seen.attempt = Seen
      /\ Finalizes /\ Whole(Seen) /\ Reading
  BY Parts DEF Settle, IState, Read, Reading, Typed, Seen
<1>2. Seen.path # None
  BY <1>1 DEF Whole, Finalizes, OnTarget, OnPrevious
<1>3. state' \in States
  <2>1. CASE OnTarget
    <3>1. state' = Marked(Rotated(agent.seen, Seen), Success(Seen.offer), "completed")
      BY <2>1 DEF Settle, Marked
    <3>2. QED
      BY <1>1, <1>2, <3>1, RotatedIs, WithStatus, NoneAssumption DEF Success, Statuses, Phases
  <2>2. CASE ~OnTarget
    <3>1. state' = Marked(agent.seen, Restored(Seen.offer), "completed")
      BY <2>2 DEF Settle, Marked
    <3>2. QED  BY <1>1, <3>1, WithStatus, NoneAssumption DEF Restored, Statuses, Phases
  <2>3. QED  BY <2>1, <2>2
<1>4. agent' \in [at : {"down", "boot", "read", "settle", "up"}, ver : Versions,
                  seen : States \cup {None}] /\ agent'.at = "up"
  BY DEF Settle, Typed, TypeOK
<1>5. files' \subseteq Paths
  BY DEF Settle, Typed, TypeOK
<1>6. QED  BY <1>3, <1>4, <1>5, TypedFrom DEF Settle, Typed, TypeOK

LEMMA OfferTyped ==
  ASSUME Good, NEW o \in Upgrades \cup Rollbacks, Offer(o)
  PROVE  Typed'
<1>1. task' \in [at : {"begin", "fetch", "ready", "spawned"}, offer : Upgrades \cup Rollbacks,
                 worker : Workers \cup {None}] /\ task'.at = "begin"
  BY DEF Offer, NoTask
<1>2. faults' \subseteq FaultKinds
  BY CrossingIs DEF Good, Offers
<1>3. QED  BY <1>1, <1>2, TypedFrom DEF Good, Offer, Typed, TypeOK, disk

\* What Begin writes.
LEMMA BeginIs ==
  ASSUME Good, Begin
  PROVE  /\ state' \in States /\ state'.current = state.current /\ state'.baseline = state.baseline
         /\ \/ task' = NoTask /\ state' = state
            \/ /\ task' = NoTask /\ Attempt # None /\ Attempt' # None
               /\ Twin(Attempt', Attempt)
               /\ Attempt'.phase = "completed" /\ Attempt'.status = "failed"
            \/ /\ task' = NoTask /\ Attempt' # None
               /\ Attempt'.path = None /\ Attempt'.phase = "completed"
            \/ /\ task' = [task EXCEPT !.at = "fetch"]
               /\ state' = [state EXCEPT !.attempt = NewAttempt(task.offer, state.current)]
               /\ Attempt' = NewAttempt(task.offer, state.current) /\ Attempt' # None
               /\ task.offer.target # agent.ver
<1> DEFINE o == task.offer
           s == [state EXCEPT !.attempt = NewAttempt(o, state.current)]
<1>1. o \in Upgrades \cup Rollbacks /\ o \in Offers /\ state \in States /\ agent.ver \in Versions
      /\ state.current \in Packages \cup {None}
  BY Parts DEF Begin, Good, Typed, TypeOK
<1>2. /\ NewAttempt(o, state.current) \in Attempts /\ NewAttempt(o, state.current).offer = o
      /\ NewAttempt(o, state.current).path = None
  BY <1>1, NewAttemptIs
<1>3. /\ s \in States /\ s.attempt = NewAttempt(o, state.current) /\ s.attempt # None
      /\ s.current = state.current /\ s.baseline = state.baseline
  BY <1>1, <1>2, WithAttempt, NoneAssumption
<1>4. CASE o.kind = "rollback" /\ o.target >= agent.ver
  <2>1. CASE Current(o) /\ o.target > agent.ver
    <3>1. state' = Ended(state, "failed") /\ task' = NoTask
      BY <1>4, <2>1 DEF Begin, Finish
    <3>2. QED
      BY <1>1, <2>1, <3>1, EndedIs, NoneAssumption DEF Statuses, Current, Attempt
  <2>2. CASE ~(Current(o) /\ o.target > agent.ver)
    BY <1>1, <1>4, <2>2 DEF Begin, Finish
  <2>3. QED  BY <2>1, <2>2
<1>5. CASE ~(o.kind = "rollback" /\ o.target >= agent.ver) /\ o.kind = "upgrade"
           /\ o.target <= agent.ver
  <2>1. \E t \in Statuses : state' = Ended(s, t) /\ task' = NoTask
    <3>1. CASE o.target = agent.ver
      BY <1>5, <3>1 DEF Begin, Finish, Statuses
    <3>2. CASE o.target # agent.ver
      <4>1. o.target < agent.ver
        BY <1>1, <1>5, <3>2, OfferParts DEF Versions
      <4>2. QED  BY <1>5, <3>2, <4>1 DEF Begin, Finish, Statuses
    <3>3. QED  BY <3>1, <3>2
  <2>2. PICK t \in Statuses : state' = Ended(s, t) /\ task' = NoTask
    BY <2>1
  <2>3. /\ state' \in States /\ state'.current = s.current /\ state'.baseline = s.baseline
        /\ state'.attempt \in Attempts /\ state'.attempt.path = s.attempt.path
        /\ state'.attempt.phase = "completed"
    BY <1>3, <2>2, EndedIs DEF Twin
  <2>4. QED
    BY <1>2, <1>3, <2>2, <2>3, NoneAssumption DEF Attempt
<1>6. CASE ~(o.kind = "rollback" /\ o.target >= agent.ver)
           /\ ~(o.kind = "upgrade" /\ o.target <= agent.ver)
  <2>1. o.target # agent.ver /\ ~(o.kind = "upgrade" /\ o.target = agent.ver)
        /\ ~(o.kind = "upgrade" /\ o.target < agent.ver)
    BY <1>1, <1>6, OfferParts DEF Upgrades, Rollbacks, Versions
  <2>2. state' = s /\ task' = [task EXCEPT !.at = "fetch"]
    BY <1>6, <2>1 DEF Begin
  <2>3. QED  BY <1>3, <2>1, <2>2 DEF Attempt
<1>7. QED  BY <1>4, <1>5, <1>6

LEMMA BeginTyped ==
  ASSUME Good, Begin
  PROVE  Typed'
<1>1. task' = NoTask \/
        (/\ task'.at = "fetch"
         /\ task' \in [at : {"begin", "fetch", "ready", "spawned"}, offer : Upgrades \cup Rollbacks,
                       worker : Workers \cup {None}])
  BY BeginIs DEF Good, Begin, Typed, TypeOK
<1>2. QED  BY <1>1, BeginIs, TypedFrom DEF Good, Begin, Typed, TypeOK

\* A package has come in, or has not.
LEMMA FetchIs ==
  ASSUME Good, Download \/ UseBaseline
  PROVE  \E path \in Paths :
           /\ path.ver = task.offer.target /\ files' = files \cup {path}
           /\ task' = [task EXCEPT !.at = "ready"]
           /\ state' = Fetched(state, path)
<1>1. Current(task.offer) /\ task.offer \in Upgrades \cup Rollbacks
  BY DEF Good, Download, UseBaseline, IState, Prepared, Typed
<1>2. CASE Download
  <2> DEFINE path == [kind |-> task.offer.kind, ver |-> task.offer.target,
                      retry |-> IF task.offer.kind = "upgrade" THEN task.offer.retry ELSE 0]
  <2>1. path \in Paths /\ path.ver = task.offer.target
    BY <1>1, BoundAssumption DEF Upgrades, Rollbacks, Paths, Versions
  <2>2. QED  BY <1>1, <1>2, <2>1 DEF Download, FetchedAt, Fetched
<1>3. CASE UseBaseline
  <2>1. state.baseline.path \in Paths /\ state.baseline.path.ver = task.offer.target
    BY <1>3, Parts, PackageParts DEF Good, UseBaseline, LocalBaseline
  <2>2. QED  BY <1>1, <1>3, <2>1 DEF UseBaseline, FetchedAt, Fetched
<1>4. QED  BY <1>2, <1>3

LEMMA FetchTyped ==
  ASSUME Good, Download \/ UseBaseline
  PROVE  Typed'
<1>1. PICK path \in Paths : /\ files' = files \cup {path}
                            /\ task' = [task EXCEPT !.at = "ready"]
                            /\ state' = Fetched(state, path)
  BY FetchIs
<1>2. state' \in States
  BY <1>1, FetchedIs DEF Good, Typed, TypeOK, Download, UseBaseline, IState, Prepared, Current, Attempt
<1>3. task' \in [at : {"begin", "fetch", "ready", "spawned"}, offer : Upgrades \cup Rollbacks,
                 worker : Workers \cup {None}] /\ task'.at = "ready"
  BY <1>1 DEF Good, Typed, TypeOK, Download, UseBaseline
<1>4. UNCHANGED <<installed, service, agent, health, worker, lock, cli, updates, faults>>
  BY DEF Download, UseBaseline
<1>5. QED  BY <1>1, <1>2, <1>3, <1>4, TypedFrom DEF Good, Typed, TypeOK

\* The task ends, with its attempt failed if it is the current one.
LEMMA FinishIs ==
  ASSUME Good, Finish(IF Current(task.offer) THEN Ended(state, "failed") ELSE state)
  PROVE  /\ task' = NoTask /\ state' \in States
         /\ state'.current = state.current /\ state'.baseline = state.baseline
         /\ \/ state' = state
            \/ /\ Attempt # None /\ Attempt' # None
               /\ Twin(Attempt', Attempt) /\ Attempt'.status = "failed"
               /\ Attempt'.phase = "completed"
BY EndedIs, Parts, NoneAssumption DEF Good, Finish, Current, Attempt, Statuses

LEMMA SpawnIs ==
  ASSUME Typed, NEW w \in Workers, NEW a \in Attempts, a.path # None, Spawn(w, a)
  PROVE  /\ Free(w) /\ worker' \in [Workers -> Plans \cup {NoPlan}]
         /\ worker'[w].at = "lock" /\ worker'[w].offer = a.offer /\ worker'[w].path = a.path
         /\ worker'[w].previous = PreviousOf(a) /\ PreviousOf(a) \in Packages
         /\ \A v \in Workers \ {w} : worker'[v] = worker[v]
         /\ updates' \in 0 .. MaxUpdates
         /\ state' \in States /\ Attempt' # None
         /\ state'.current = state.current /\ state'.baseline = state.baseline
         /\ Twin(worker'[w], Attempt')
         /\ Attempt'.status = a.status /\ Attempt'.phase = a.phase
         /\ files \subseteq files' /\ files' \subseteq Paths /\ a.path \in files'
         /\ a.previous = None => PreviousOf(a).path \in files'
<1> DEFINE b == [a EXCEPT !.previous = PreviousOf(a)]
<1>1. /\ Plan(a) \in Plans /\ Plan(a).at = "lock" /\ Plan(a).offer = a.offer
      /\ Plan(a).path = a.path /\ Plan(a).previous = PreviousOf(a)
      /\ b \in Attempts /\ Twin(Plan(a), b) /\ b.status = a.status /\ b.phase = a.phase
  BY HandedIs
<1>2. /\ state' \in States /\ Attempt' = b
      /\ state'.current = state.current /\ state'.baseline = state.baseline
  BY <1>1, WithAttempt DEF Spawn, Attempt, Typed, TypeOK
<1>3. worker' = [worker EXCEPT ![w] = Plan(a)] /\ worker \in [Workers -> Plans \cup {NoPlan}]
  BY DEF Spawn, Typed
<1>4. worker'[w] = Plan(a) /\ worker' \in [Workers -> Plans \cup {NoPlan}]
      /\ \A v \in Workers \ {w} : worker'[v] = worker[v]
  BY <1>1, <1>3
<1>5. updates' \in 0 .. MaxUpdates
  BY BoundAssumption DEF Spawn, Typed, TypeOK
<1>6. PreviousOf(a) \in Packages /\ PreviousOf(a).path \in Paths /\ a.path \in Paths
  BY PreviousIs, PackageParts, AttemptParts
<1>7. files' = files \cup {a.path} \cup {p.path : p \in {PreviousOf(a)} \ {a.previous, None}}
  BY DEF Spawn
<1>8. files \subseteq files' /\ a.path \in files'
      /\ (a.previous = None => PreviousOf(a).path \in files')
  BY <1>6, <1>7, NoneAssumption
<1>9. files' \subseteq Paths
  BY <1>6, <1>7 DEF Typed, TypeOK
<1>10. QED  BY <1>1, <1>2, <1>4, <1>5, <1>6, <1>8, <1>9, NoneAssumption DEF Spawn

LEMMA FinishTyped ==
  ASSUME Good, PrepareFails \/ HandOverFails
  PROVE  Typed'
<1>1. task' = NoTask /\ state' \in States
  BY FinishIs DEF PrepareFails, HandOverFails
<1>2. faults' \subseteq FaultKinds
  BY FaultIs DEF Good, PrepareFails, HandOverFails, FaultKinds
<1>3. UNCHANGED <<installed, service, agent, health, files, worker, lock, cli, updates>>
  BY DEF PrepareFails, HandOverFails
<1>4. QED  BY <1>1, <1>2, <1>3, TypedFrom DEF Good, Typed, TypeOK

\* Launch hands the attempt over, or the task ends.
LEMMA LaunchIs ==
  ASSUME Good, NEW w \in Workers, Launch(w)
  PROVE  \/ /\ Attempt \in Attempts /\ Attempt.path # None /\ Attempt.offer = task.offer
            /\ Attempt.phase = "staging"
            /\ Spawn(w, Attempt) /\ task' = [task EXCEPT !.at = "spawned", !.worker = w]
         \/ /\ Finish(IF Current(task.offer) THEN Ended(state, "failed") ELSE state)
            /\ UNCHANGED <<worker, files, updates>>
BY Parts DEF Good, Launch, Current, IState, Prepared

LEMMA LaunchTyped ==
  ASSUME Good, NEW w \in Workers, Launch(w)
  PROVE  Typed'
<1>0. UNCHANGED <<installed, service, agent, health, lock, cli, faults>>
  BY DEF Launch
<1>1. CASE /\ Attempt \in Attempts /\ Attempt.path # None
           /\ Spawn(w, Attempt) /\ task' = [task EXCEPT !.at = "spawned", !.worker = w]
  <2>1. /\ worker' \in [Workers -> Plans \cup {NoPlan}] /\ updates' \in 0 .. MaxUpdates
        /\ state' \in States /\ files' \subseteq Paths
    BY <1>1, SpawnIs DEF Good
  <2>2. task' \in [at : {"begin", "fetch", "ready", "spawned"}, offer : Upgrades \cup Rollbacks,
                   worker : Workers \cup {None}] /\ task'.at = "spawned" /\ task'.worker = w
    BY <1>1 DEF Good, Typed, TypeOK, Launch
  <2>3. QED  BY <1>0, <2>1, <2>2, TypedFrom DEF Good, Typed, TypeOK
<1>2. CASE /\ Finish(IF Current(task.offer) THEN Ended(state, "failed") ELSE state)
           /\ UNCHANGED <<worker, files, updates>>
  BY <1>0, <1>2, FinishIs, TypedFrom DEF Good, Typed, TypeOK
<1>3. QED  BY <1>1, <1>2, LaunchIs

LEMMA HandOverIs ==
  ASSUME Good, HandOver
  PROVE  /\ state' \in States /\ state'.current = state.current /\ state'.baseline = state.baseline
         /\ Attempt # None /\ Attempt' # None /\ Twin(Attempt', Attempt)
         /\ Attempt'.status = "awaiting_restart" /\ Attempt'.phase = "target"
<1>1. Current(task.offer) /\ Attempt # None /\ state \in States
  BY Parts DEF Good, HandOver, IState, Prepared, Current
<1>2. state' = Marked(state, "awaiting_restart", "target")
  BY <1>1 DEF HandOver, SetStatus, Marked
<1>3. QED  BY <1>1, <1>2, WithStatus, NoneAssumption DEF Statuses, Phases, Attempt

LEMMA HandOverTyped ==
  ASSUME Good, HandOver
  PROVE  Typed'
<1>1. agent' = Down /\ agent' \in [at : {"down", "boot", "read", "settle", "up"}, ver : Versions,
                                   seen : States \cup {None}]
  BY BoundAssumption DEF HandOver, Down, Versions
<1>2. QED
  BY <1>1, HandOverIs, TypedFrom DEF Good, HandOver, Typed, TypeOK, Down

\* force_update while the updater's lock is held, and otherwise.
LEMMA ForceIs ==
  ASSUME Good, NEW w \in Workers, ForceUpdate(w)
  PROVE  /\ cli \in Forced /\ cli' = None
         /\ ForcedAttempt(cli) \in Attempts /\ ForcedAttempt(cli).path # None
         /\ \/ Spawn(w, ForcedAttempt(cli))
            \/ /\ state' \in States /\ state'.current = state.current
               /\ state'.baseline = state.baseline
               /\ Attempt' # None /\ Twin(Attempt', ForcedAttempt(cli))
               /\ Attempt'.status = "failed" /\ Attempt'.phase = "completed"
               /\ files' = files \cup {Staged(cli)} /\ UNCHANGED <<worker, updates>>
<1>1. cli \in Forced /\ cli' = None /\ state \in States
  BY DEF ForceUpdate, Good, Typed, TypeOK
<1>2. ForcedAttempt(cli) \in Attempts /\ ForcedAttempt(cli).path = Staged(cli) /\ Staged(cli) \in Paths
  BY <1>1, ForcedIs
<1>3. CASE LockHeld
  <2> DEFINE s == [state EXCEPT !.attempt = ForcedAttempt(cli)]
  <2>1. /\ s \in States /\ s.attempt = ForcedAttempt(cli) /\ s.attempt # None
        /\ s.current = state.current /\ s.baseline = state.baseline
    BY <1>1, <1>2, WithAttempt, NoneAssumption
  <2>2. state' = Ended(s, "failed") /\ files' = files \cup {Staged(cli)}
        /\ UNCHANGED <<worker, updates>>
    BY <1>3 DEF ForceUpdate, ForcedAttempt
  <2>3. /\ state' \in States /\ state'.current = s.current /\ state'.baseline = s.baseline
        /\ state'.attempt \in Attempts /\ Twin(state'.attempt, s.attempt)
        /\ state'.attempt.status = "failed" /\ state'.attempt.phase = "completed"
    BY <2>1, <2>2, EndedIs DEF Statuses
  <2>4. QED  BY <1>1, <1>2, <2>1, <2>2, <2>3, NoneAssumption DEF Attempt
<1>4. CASE ~LockHeld
  BY <1>1, <1>2, <1>4, NoneAssumption DEF ForceUpdate, ForcedAttempt
<1>5. QED  BY <1>3, <1>4

LEMMA ForceTyped ==
  ASSUME Good, (\E o \in Forced : ForceCheck(o)) \/ \E w \in Workers : ForceUpdate(w)
  PROVE  Typed'
<1>1. CASE \E o \in Forced : ForceCheck(o)
  BY <1>1, CrossingIs, TypedFrom DEF Good, ForceCheck, Typed, TypeOK, disk
<1>2. ASSUME NEW w \in Workers, ForceUpdate(w) PROVE Typed'
  <2>1. /\ UNCHANGED <<installed, service, agent, task, health, lock, faults>> /\ cli' = None
    BY <1>2 DEF ForceUpdate
  <2>2. CASE Spawn(w, ForcedAttempt(cli))
    <3>1. /\ worker' \in [Workers -> Plans \cup {NoPlan}] /\ updates' \in 0 .. MaxUpdates
          /\ state' \in States /\ files' \subseteq Paths
      BY <1>2, <2>2, ForceIs, SpawnIs DEF Good
    <3>2. QED  BY <2>1, <3>1, TypedFrom DEF Good, Typed, TypeOK
  <2>3. CASE /\ state' \in States /\ files' = files \cup {Staged(cli)} /\ UNCHANGED <<worker, updates>>
    <3>1. Staged(cli) \in Paths
      BY <1>2, ForceIs, ForcedIs
    <3>2. QED  BY <2>1, <2>3, <3>1, TypedFrom DEF Good, Typed, TypeOK
  <2>4. QED  BY <1>2, <2>2, <2>3, ForceIs
<1>3. QED  BY <1>1, <1>2

LEMMA DownTyped ==
  ASSUME installed \in Versions
  PROVE  /\ Down \in Processes /\ [Down EXCEPT !.at = "boot"] \in Processes
         /\ [Down EXCEPT !.at = "boot", !.ver = installed] \in Processes
<1>1. 1 \in Versions
  BY BoundAssumption DEF Versions
<1>2. QED  BY <1>1 DEF Down, Processes

\* The state after the new version reported itself.
LEMMA HealthyIs ==
  ASSUME Good, NEW w \in Workers, Healthy(w)
  PROVE  \/ state' = state /\ Cached(w)
         \/ /\ state' \in States /\ Attempt' # None /\ Twin(Attempt', Attempt)
            /\ ~Cached(w)
            /\ state'.current = Package(Attempt) /\ state'.current.path = worker[w].path
            /\ state'.baseline = worker[w].previous
            /\ Done(Attempt')
<1>0. ~Free(w) /\ Attempt # None /\ Attempt \in Attempts /\ state \in States /\ Applying(w)
  BY Parts DEF Good, Healthy, Free, IState, Applying
<1>1. CASE Cached(w) \/ ~Current(worker[w].offer)
  BY <1>0, <1>1 DEF Healthy, Completed, Applying, Twin, Current
<1>2. CASE ~(Cached(w) \/ ~Current(worker[w].offer))
  <2>1. state' = Settled(state, Package(Attempt), worker[w].previous, Success(worker[w].offer))
    BY <1>2 DEF Healthy, Completed, Settled
  <2>2. /\ Attempt.path = worker[w].path /\ Attempt.offer = worker[w].offer
        /\ worker[w].path \in Paths /\ worker[w].previous \in Packages
    BY <1>0, PlanParts DEF Good, Applying, Twin
  <2>3. Package(Attempt) \in Packages /\ Package(Attempt).path = worker[w].path
    BY <1>0, <2>2, RotatedIs, NoneAssumption
  <2>4. /\ state' \in States /\ state'.current = Package(Attempt)
        /\ state'.baseline = worker[w].previous
        /\ state'.attempt \in Attempts /\ Twin(state'.attempt, state.attempt)
        /\ state'.attempt.status = Success(worker[w].offer)
        /\ state'.attempt.phase = "completed"
    BY <1>0, <2>1, <2>2, <2>3, SettledIs DEF Success, Statuses, Attempt
  <2>5. QED
    BY <1>2, <2>2, <2>3, <2>4, NoneAssumption DEF Attempt, Done, Twin
<1>3. QED  BY <1>1, <1>2

LEMMA WorkerTyped ==
  ASSUME Good, NEW w \in Workers, worker[w].at # "none",
         worker' \in [Workers -> Plans \cup {NoPlan}], lock' \in Workers \cup {None},
         state' \in States, installed' \in Versions, service' \in {"running", "stopped"},
         agent' = agent \/ agent' = Down \/ agent' = [Down EXCEPT !.at = "boot", !.ver = installed],
         task' = task \/ task' = NoTask, health' = health \/ health' = None,
         files' \subseteq files, cli' = cli, updates' = updates, faults' \subseteq FaultKinds
  PROVE  Typed'
<1>1. agent' \in Processes /\ (agent'.at \in {"read", "settle"} => agent'.seen \in States)
  <2>1. CASE agent' = agent  BY <2>1 DEF Good, Typed, TypeOK, Processes
  <2>2. CASE agent' = Down  BY <2>2, DownTyped DEF Good, Typed, TypeOK, Down
  <2>3. CASE agent' = [Down EXCEPT !.at = "boot", !.ver = installed]
    BY <2>3, DownTyped DEF Good, Typed, TypeOK, Down
  <2>4. QED  BY <2>1, <2>2, <2>3
<1>2. QED  BY <1>1, TypedFrom DEF Good, Typed, TypeOK, Processes

\* The updater could not write the state file.
Unsaved(w) == StateFails(w) \/ RehealthyUnsaved(w)
LEMMA UnsavedIs ==
  ASSUME Good, NEW w \in Workers, Unsaved(w)
  PROVE  /\ ~Free(w) /\ state' \in States /\ worker'[w].at = "none"
         /\ worker' \in [Workers -> Plans \cup {NoPlan}] /\ lock' \in Workers \cup {None}
         /\ \A v \in Workers \ {w} : worker'[v] = worker[v]
         /\ Attempt' # None /\ Twin(Attempt', Attempt)
         /\ Attempt' = Attempt \/ (Attempt'.status = "failed" /\ Attempt'.phase = "completed")
         /\ files' \subseteq files /\ cli' = cli /\ updates' = updates
         /\ faults' = faults \cup {"state"}
         /\ health' = health \/ health' = None
         /\ UNCHANGED <<service, agent, task>> \/ Stopped
         /\ \/ installed' = installed
            \/ /\ At(w, {"install"}) /\ installed' = worker[w].path.ver
               /\ UNCHANGED <<service, agent, task>>
            \/ At(w, {"restore"}) /\ installed' = worker[w].previous.path.ver /\ Stopped
<1>0. /\ Typed /\ Applying(w) /\ state \in States /\ faults' = faults \cup {"state"}
  BY DEF Good, IState, Typed, TypeOK, Unsaved, StateFails, RehealthyUnsaved, Fault, Notes
<1>1. ~Free(w)
  BY DEF Unsaved, StateFails, RehealthyUnsaved, Free
<1>2. Gone(w) /\ (state' = state \/ Persist(w, "failed", "completed"))
  BY DEF Unsaved, StateFails, RehealthyUnsaved
<1>3. /\ state' \in States /\ Attempt' # None /\ Twin(Attempt', Attempt)
      /\ Attempt' = Attempt \/ (Attempt'.status = "failed" /\ Attempt'.phase = "completed")
  <2>1. CASE state' = state
    BY <1>0, <1>1, <2>1 DEF Applying, Attempt, Twin
  <2>2. CASE Persist(w, "failed", "completed")
    BY <1>0, <1>1, <2>2, PersistIs DEF Statuses, Phases
  <2>3. QED  BY <1>2, <2>1, <2>2
<1>4. /\ files' \subseteq files /\ cli' = cli /\ updates' = updates
      /\ health' = health \/ health' = None
      /\ UNCHANGED <<service, agent, task>> \/ Stopped
      /\ \/ installed' = installed
         \/ /\ At(w, {"install"}) /\ installed' = worker[w].path.ver
            /\ UNCHANGED <<service, agent, task>>
         \/ At(w, {"restore"}) /\ installed' = worker[w].previous.path.ver /\ Stopped
  BY DEF Unsaved, StateFails, RehealthyUnsaved, At
<1>5. QED  BY <1>0, <1>1, <1>2, <1>3, <1>4, GoneIs

LEMMA UnsavedTyped ==
  ASSUME Good, NEW w \in Workers, Unsaved(w)
  PROVE  Typed'
<1>1. installed' \in Versions
  <2>1. worker[w].path.ver \in Versions /\ worker[w].previous.path.ver \in Versions
    BY UnsavedIs, PlanParts, PathParts, PackageParts DEF Good
  <2>2. QED  BY <2>1, UnsavedIs DEF Good, Typed, TypeOK
<1>2. faults' \subseteq FaultKinds /\ service' \in {"running", "stopped"}
  <2>1. faults \subseteq FaultKinds /\ "state" \in FaultKinds
    BY DEF Good, Typed, TypeOK, FaultKinds
  <2>2. faults' \subseteq FaultKinds
    <3>1. faults' = faults \cup {"state"}
      BY UnsavedIs
    <3>2. QED  BY <2>1, <3>1
  <2>3. service \in {"running", "stopped"} /\ (service' = service \/ Stopped)
    <3>1. UNCHANGED <<service, agent, task>> \/ Stopped
      BY UnsavedIs
    <3>2. QED  BY <3>1 DEF Good, Typed, TypeOK
  <2>4. QED  BY <2>2, <2>3 DEF Stopped
<1>3. /\ agent' = agent \/ agent' = Down
      /\ task' = task \/ task' = NoTask
  BY UnsavedIs DEF Stopped
<1>4. QED  BY <1>1, <1>2, <1>3, UnsavedIs, WorkerTyped DEF Free

LEMMA WorkerStepTyped ==
  ASSUME Good, NEW w \in Workers,
         Applies(w) \/ StopFails(w) \/ Breaks(w) \/ RestoreFails(w) \/ RerestartFails(w)
         \/ Reunhealthy(w) \/ WorkerDies(w)
  PROVE  Typed'
<1>0. /\ Typed /\ Applying(w) /\ state \in States /\ worker \in [Workers -> Plans \cup {NoPlan}]
      /\ installed \in Versions /\ service \in {"running", "stopped"} /\ faults \subseteq FaultKinds
      /\ lock \in Workers \cup {None}
  BY DEF Good, IState, Typed, TypeOK
<1>1. CASE Acquire(w)
  <2>1. ~Free(w)
    BY <1>1 DEF Acquire, Free
  <2>2. CASE lock = None
    BY <1>0, <1>1, <2>1, <2>2, StepIs, WorkerTyped DEF Acquire, WorkerPoints, disk, Free
  <2>3. CASE lock # None
    BY <1>0, <1>1, <2>1, <2>3, GoneIs, WorkerTyped DEF Acquire, disk, Free
  <2>4. QED  BY <2>2, <2>3
<1>2. CASE Handoff(w)
  <2>1. ~Free(w)
    BY <1>2 DEF Handoff, Free
  <2>2. CASE Active(w)
    BY <1>0, <1>2, <2>1, <2>2, StepIs, WorkerTyped DEF Handoff, WorkerPoints, Free
  <2>3. CASE ~Active(w)
    <3>1. faults' \subseteq FaultKinds
      BY <1>0, <1>2, <2>3, FaultIs DEF Handoff, FaultKinds
    <3>2. QED  BY <1>0, <1>2, <2>1, <2>3, <3>1, FailIs, WorkerTyped DEF Handoff, Free
  <2>4. QED  BY <2>2, <2>3
<1>3. CASE Stop(w)
  <2>1. ~Free(w)
    BY <1>3 DEF Stop, Free
  <2>2. CASE Active(w)
    <3>1. state' \in States
      BY <1>0, <1>3, <2>1, <2>2, PersistIs DEF Stop, Statuses, Phases
    <3>2. QED
      BY <1>0, <1>3, <2>1, <2>2, <3>1, StepIs, WorkerTyped DEF Stop, Stopped, WorkerPoints, Free
  <2>3. CASE ~Active(w)
    BY <1>0, <1>3, <2>1, <2>3, FailIs, WorkerTyped DEF Stop, Stopped, Free
  <2>4. QED  BY <2>2, <2>3
<1>4. CASE StopFails(w) \/ RestoreFails(w) \/ RerestartFails(w) \/ Reunhealthy(w)
  <2>1. /\ ~Free(w) /\ Fail(w) /\ UNCHANGED <<installed, health, files, cli, updates>>
        /\ UNCHANGED <<service, agent, task>> \/ Stopped
        /\ Fault("stop") \/ Fault("restore")
    BY <1>4 DEF StopFails, RestoreFails, RerestartFails, Reunhealthy, Free
  <2>2. faults' \subseteq FaultKinds
    BY <1>0, <2>1, FaultIs DEF FaultKinds
  <2>3. QED  BY <1>0, <2>1, <2>2, FailIs, WorkerTyped DEF Stopped, Free
<1>5. CASE Install(w)
  <2>1. ~Free(w)
    BY <1>5 DEF Install, Free
  <2>2. CASE worker[w].path \in files
    <3>1. state' \in States
      BY <1>0, <1>5, <2>1, <2>2, PersistIs DEF Install, Statuses, Phases
    <3>2. worker[w].path.ver \in Versions
      BY <1>0, <2>1, PlanParts, PathParts
    <3>3. QED
      BY <1>0, <1>5, <2>1, <2>2, <3>1, <3>2, StepIs, WorkerTyped DEF Install, WorkerPoints, Free
  <2>3. CASE worker[w].path \notin files
    BY <1>0, <1>5, <2>1, <2>3, StepIs, WorkerTyped DEF Install, WorkerPoints, Free
  <2>4. QED  BY <2>2, <2>3
<1>6. CASE Restart(w) \/ Rerestart(w)
  <2>1. /\ ~Free(w) /\ Restarted /\ (Step(w, "health") \/ Step(w, "rehealth"))
        /\ UNCHANGED <<installed, disk, lock, cli, updates, faults>>
    BY <1>6 DEF Restart, Rerestart, Free
  <2>2. worker' \in [Workers -> Plans \cup {NoPlan}]
    BY <1>0, <2>1, StepIs DEF WorkerPoints
  <2>3. agent' = [Down EXCEPT !.at = "boot", !.ver = installed]
    BY <2>1 DEF Restarted
  <2>4. QED  BY <1>0, <2>1, <2>2, <2>3, WorkerTyped DEF Restarted, disk, Free
<1>7. CASE Breaks(w) \/ Unhealthy(w)
  <2>1. /\ ~Free(w) /\ Step(w, "back")
        /\ UNCHANGED <<installed, service, agent, task, disk, lock, cli, updates>>
        /\ faults' \subseteq FaultKinds
    BY <1>0, <1>7, FaultIs, CrossingIs DEF Breaks, Unhealthy, Free, FaultKinds
  <2>2. QED  BY <1>0, <2>1, StepIs, WorkerTyped DEF WorkerPoints, disk, Free
<1>8. CASE Healthy(w)
  <2>1. /\ state' \in States /\ files' \subseteq files /\ worker[w].at # "none" /\ Gone(w)
        /\ UNCHANGED <<installed, service, agent, task, health, cli, updates, faults>>
    BY <1>0, <1>8, HealthyIs DEF Healthy
  <2>2. QED  BY <1>0, <2>1, GoneIs, WorkerTyped
<1>9. CASE Back(w)
  <2>1. ~Free(w)
    BY <1>9 DEF Back, Free
  <2>2. state' \in States
    BY <1>0, <1>9, <2>1, PersistIs DEF Back, Statuses, Phases
  <2>3. QED
    BY <1>0, <1>9, <2>1, <2>2, StepIs, WorkerTyped DEF Back, WorkerPoints, Free
<1>10. CASE Restore(w)
  <2>1. ~Free(w)
    BY <1>10 DEF Restore, Free
  <2>2. CASE worker[w].previous.path \in files
    <3>1. state' \in States
      BY <1>0, <1>10, <2>1, <2>2, PersistIs DEF Restore, Statuses, Phases
    <3>2. worker[w].previous.path.ver \in Versions
      BY <1>0, <2>1, PlanParts, PackageParts
    <3>3. QED
      BY <1>0, <1>10, <2>1, <2>2, <3>1, <3>2, StepIs, WorkerTyped
         DEF Restore, Stopped, WorkerPoints, Free
  <2>3. CASE worker[w].previous.path \notin files
    BY <1>0, <1>10, <2>1, <2>3, FailIs, WorkerTyped DEF Restore, Free
  <2>4. QED  BY <2>2, <2>3
<1>11. CASE Rehealthy(w)
  <2>1. ~Free(w) /\ Restored(worker[w].offer) \in Statuses
    BY <1>11 DEF Rehealthy, Free, Restored, Statuses
  <2>2. state' \in States
    BY <1>0, <1>11, <2>1, PersistIs DEF Rehealthy, Phases
  <2>3. QED
    BY <1>0, <1>11, <2>1, <2>2, GoneIs, WorkerTyped DEF Rehealthy, Free
<1>12. CASE WorkerDies(w)
  <2>1. faults' \subseteq FaultKinds
    BY <1>0, <1>12, FaultIs DEF WorkerDies, FaultKinds
  <2>2. QED  BY <1>0, <1>12, <2>1, GoneIs, WorkerTyped DEF WorkerDies, disk
<1>13. QED
  BY <1>1, <1>2, <1>3, <1>4, <1>5, <1>6, <1>7, <1>8, <1>9, <1>10, <1>11, <1>12 DEF Applies

LEMMA RebootTyped ==
  ASSUME Good, Reboot
  PROVE  Typed'
<1>1. /\ faults' \subseteq FaultKinds /\ worker' \in [Workers -> Plans \cup {NoPlan}]
      /\ agent' \in Processes /\ agent'.at = "down"
  BY FaultIs, DownTyped DEF Good, Typed, TypeOK, Reboot, FaultKinds, Down, NoPlan
<1>2. QED  BY <1>1, TypedFrom DEF Good, Reboot, Typed, TypeOK, disk, Processes

LEMMA StepTyped ==
  ASSUME Good, [Next]_vars
  PROVE  Typed'
<1>1. CASE Next
  BY <1>1, AgentTyped, SettleTyped, OfferTyped, BeginTyped, FetchTyped, FinishTyped, LaunchTyped,
     HandOverTyped, ForceTyped, WorkerStepTyped, UnsavedTyped, RebootTyped
     DEF Next, Runs, Prepares, Forces, Unsaved
<1>2. CASE UNCHANGED vars
  BY <1>2, TypedFrom DEF vars, disk, Good, Typed, TypeOK
<1>3. QED  BY <1>1, <1>2

-----------------------------------------------------------------------------
(***************************************************************************)
(* The steps of an updater keep the invariant.                             *)
(***************************************************************************)
LEMMA OnlyOne ==
  ASSUME Good, NEW w \in Workers, ~Free(w)
  PROVE  /\ \A v \in Workers \ {w} : Free(v)
         /\ task.at \in {"none", "spawned"} /\ cli = None
         /\ Applying(w) /\ Typed /\ Attempt # None /\ Twin(worker[w], Attempt) /\ Whole(Attempt)
         /\ worker[w].path \in Paths /\ worker[w].previous \in Packages
         /\ Attempt.path # None /\ Attempt.previous # None
         /\ worker[w].path.ver = worker[w].offer.target
<1>1. \A v \in Workers \ {w} : Free(v)
  BY DEF Good, IState, Alone
<1>2. task.at \in {"none", "spawned"} /\ cli = None
  BY DEF Good, IState, Alone, AllFree, Typed, TypeOK
<1>3. Applying(w) /\ Typed /\ Attempt # None /\ Twin(worker[w], Attempt) /\ Whole(Attempt)
  BY DEF Good, IState, Applying
<1>4. worker[w].path \in Paths /\ worker[w].previous \in Packages
  BY PlanParts DEF Good
<1>5. Attempt.path # None /\ Attempt.previous # None
  BY <1>3, <1>4, NoneAssumption DEF Twin
<1>6. QED  BY <1>1, <1>2, <1>3, <1>4, <1>5 DEF Whole, Twin

\* What an updater's step leaves to be shown.
LEMMA WorkerFrame ==
  ASSUME Good, NEW w \in Workers, ~Free(w),
         \A v \in Workers \ {w} : worker'[v] = worker[v],
         cli' = cli,
         \/ UNCHANGED <<task, agent>> /\ worker'[w].at \in {"none", "lock", "handoff"}
         \/ UNCHANGED <<task, agent>> /\ (task.at = "none" \/ ~At(w, {"lock", "handoff"}))
         \/ task' = NoTask,
         Attempt' # None, Twin(Attempt', Attempt),
         Attempt'.phase \in {Attempt.phase, "completed"} \/ task.at = "none" \/ task' = NoTask,
         Runner', Read', Applying(w)', ResultIsTrue'
  PROVE  IState'
<1>1. \A v \in Workers \ {w} : worker'[v].at = "none"
  BY OnlyOne DEF Free
<1>2. task.at = "spawned" => At(w, {"none", "lock", "handoff"})
  BY DEF Good, IState, Alone
<1>3. cli' = None /\ (task' = NoTask \/ (task' = task /\ agent' = agent))
      /\ task.at \in {"none", "spawned"}
  BY OnlyOne
<1>4. task'.at # "none" => task'.at = "spawned" /\ UNCHANGED <<task, agent>>
                           /\ worker'[w].at \in {"none", "lock", "handoff"}
  BY <1>2, <1>3 DEF NoTask, At, Free
<1>5. Alone'
  <2>1. \A v, u \in Workers : ~Free(v)' /\ ~Free(u)' => v = u
    BY <1>1 DEF Free
  <2>2. task'.at # "none" => agent'.at = "up" /\ cli' = None
    BY <1>3, <1>4 DEF Good, IState, Alone
  <2>3. task'.at = "spawned" => \A v \in Workers : worker'[v].at \in {"none", "lock", "handoff"}
    BY <1>1, <1>4
  <2>4. QED  BY <1>3, <1>4, <2>1, <2>2, <2>3 DEF Alone, At
<1>6. Prepared'
  <2>1. CASE task'.at = "none"
    BY <2>1 DEF Prepared
  <2>2. CASE task'.at # "none"
    <3>1. task' = task /\ task.at = "spawned" /\ Attempt'.phase \in {Attempt.phase, "completed"}
      BY <1>4, <2>2 DEF NoTask
    <3>2. /\ Attempt.offer = task.offer /\ Attempt.path # None /\ Attempt.previous # None
          /\ Attempt.phase \in {"staging", "completed"}
      BY <3>1 DEF Good, IState, Prepared, Current
    <3>3. QED  BY <3>1, <3>2 DEF Prepared, Twin, Current
  <2>3. QED  BY <2>1, <2>2
<1>7. Whole(Attempt')
  BY OnlyOne DEF Whole, Twin
<1>8. \A v \in Workers : Applying(v)'
  BY <1>1 DEF Applying, Free
<1>9. QED  BY <1>5, <1>6, <1>7, <1>8 DEF IState

\* The service was stopped, or nothing of it changed.
LEMMA RunnerStays ==
  ASSUME Good, NEW w \in Workers, installed' = installed,
         UNCHANGED <<service, agent>> \/ Stopped,
         \A v \in Workers \ {w} : worker'[v] = worker[v],
         \/ worker'[w].at \notin {"install", "restart", "rerestart"}
         \/ service' = "stopped"
  PROVE  Runner'
BY DEF Good, IState, Runner, Stopped, Down, At

\* What an agent that read the state may have read while an updater is at work.
LEMMA Reads ==
  ASSUME Good, NEW w \in Workers, ~Free(w), Reading
  PROVE  /\ Seen # None /\ Twin(Seen, Attempt)
         /\ OnTarget => At(w, {"health"})
         /\ OnPrevious => At(w, {"restore", "rehealth"})
BY OnlyOne DEF Good, IState, Read, At, Free

\* An agent that read the state has read of the attempt that is still the current one.
LEMMA ReadStays ==
  ASSUME Good, NEW w \in Workers, ~Free(w),
         UNCHANGED agent \/ agent'.at \in {"down", "boot"},
         \A v \in Workers \ {w} : worker'[v] = worker[v],
         Attempt' # None, Twin(Attempt', Attempt),
         Reading /\ agent' = agent =>
           /\ OnTarget => worker'[w].at \in {"none", "health"}
           /\ OnPrevious => worker'[w].at \in {"none", "restore", "rehealth"}
  PROVE  Read'
<1>1. CASE agent'.at \in {"down", "boot"}
  BY <1>1 DEF Read, Reading
<1>2. CASE UNCHANGED agent
  <2>1. \A v \in Workers \ {w} : worker'[v].at = "none"
    BY OnlyOne DEF Free
  <2>2. Reading' <=> Reading
    BY <1>2 DEF Reading
  <2>3. Seen' = Seen /\ (OnTarget' <=> OnTarget) /\ (OnPrevious' <=> OnPrevious)
        /\ (Finalizes' <=> Finalizes)
    BY <1>2 DEF Seen, OnTarget, OnPrevious, Finalizes
  <2>4. ASSUME Reading PROVE Read'
    BY <1>2, <2>1, <2>2, <2>3, <2>4, OnlyOne DEF Good, IState, Read, Twin, At
  <2>5. QED  BY <2>2, <2>4 DEF Read
<1>3. QED  BY <1>1, <1>2

LEMMA GoneKeeps ==
  ASSUME Good, NEW w \in Workers, ~Free(w), worker'[w].at = "none",
         \A v \in Workers \ {w} : worker'[v] = worker[v],
         installed' = installed, cli' = cli, UNCHANGED <<service, agent, task>> \/ Stopped,
         Attempt' # None, Twin(Attempt', Attempt), Attempt'.phase \in {Attempt.phase, "completed"},
         ResultIsTrue'
  PROVE  IState'
<1>1. Runner'
  BY RunnerStays
<1>2. Read'
  BY ReadStays DEF Stopped, Down
<1>3. Applying(w)'
  BY DEF Applying, Free
<1>4. QED  BY <1>1, <1>2, <1>3, WorkerFrame DEF Stopped

LEMMA FailKeeps ==
  ASSUME Good, NEW w \in Workers, ~Free(w), Fail(w), installed' = installed, cli' = cli,
         UNCHANGED <<service, agent, task>> \/ Stopped
  PROVE  IState'
<1>1. /\ Attempt' # None /\ Twin(Attempt', Attempt) /\ Attempt'.status = "failed"
      /\ Attempt'.phase = "completed" /\ worker'[w].at = "none" /\ \A v \in Workers \ {w} : worker'[v] = worker[v]
  BY OnlyOne, FailIs
<1>2. ResultIsTrue'
  BY <1>1 DEF ResultIsTrue, Success
<1>3. QED  BY <1>1, <1>2, GoneKeeps

LEMMA SameState ==
  ASSUME Good, NEW w \in Workers, ~Free(w), state' = state
  PROVE  Attempt' # None /\ Twin(Attempt', Attempt) /\ Attempt' = Attempt
BY OnlyOne DEF Attempt, Twin

\* A step to another program point.
LEMMA MoveKeeps ==
  ASSUME Good, NEW w \in Workers, ~Free(w), NEW at \in WorkerPoints, Step(w, at),
         installed' = installed, cli' = cli,
         UNCHANGED <<service, agent, task>> \/ Stopped,
         Attempt' # None, Twin(Attempt', Attempt), ResultIsTrue',
         Attempt'.phase \in {Attempt.phase, "completed"} \/ task.at = "none" \/ task' = NoTask,
         at \in {"install", "restart", "rerestart"} => service' = "stopped",
         at = "handoff" \/ ~At(w, {"lock", "handoff"}) \/ task.at = "none",
         agent' = agent /\ Reading =>
           /\ OnTarget => at = "health"
           /\ OnPrevious => at \in {"restore", "rehealth"},
         Applying(w)'
  PROVE  IState'
<1>1. worker'[w].at = at /\ \A v \in Workers \ {w} : worker'[v] = worker[v]
  BY StepIs DEF Good
<1>2. Runner'
  BY <1>1, RunnerStays DEF Stopped
<1>3. Read'
  BY <1>1, ReadStays DEF Stopped, Down
<1>5. QED  BY <1>1, <1>2, <1>3, WorkerFrame DEF Stopped, At

LEMMA AcquireKeeps ==
  ASSUME Good, NEW w \in Workers, Acquire(w)
  PROVE  IState'
<1>1. ~Free(w) /\ UNCHANGED <<installed, service, agent, task, state, cli>>
  BY DEF Acquire, Free, disk
<1>2. Attempt' # None /\ Twin(Attempt', Attempt) /\ Attempt' = Attempt
  BY <1>1, SameState
<1>3. ResultIsTrue'
  BY <1>1, <1>2 DEF ResultIsTrue, Good, IState
<1>4. CASE lock = None
  <2>1. Step(w, "handoff")
    BY <1>4 DEF Acquire
  <2>2. Applying(w)'
    BY <1>1, <1>2, <2>1, StepIs, OnlyOne DEF Applying, Acquire, At, Free, Twin, Good, WorkerPoints
  <2>3. Reading => ~OnTarget /\ ~OnPrevious
    BY <1>1, Reads DEF Acquire, At
  <2>4. QED  BY <1>1, <1>2, <1>3, <2>1, <2>2, <2>3, MoveKeeps DEF WorkerPoints
<1>5. CASE lock # None
  <2>1. Gone(w)
    BY <1>5 DEF Acquire
  <2>2. QED  BY <1>1, <1>2, <1>3, <2>1, GoneIs, GoneKeeps DEF Good
<1>6. QED  BY <1>4, <1>5

LEMMA HandoffKeeps ==
  ASSUME Good, NEW w \in Workers, Handoff(w)
  PROVE  IState'
<1>1. ~Free(w) /\ UNCHANGED <<installed, service, agent, task, cli>>
  BY DEF Handoff, Free
<1>2. CASE Active(w)
  <2>1. Step(w, "stop") /\ state' = state
    BY <1>2 DEF Handoff
  <2>2. Attempt' # None /\ Twin(Attempt', Attempt) /\ Attempt' = Attempt
    BY <1>1, <2>1, SameState
  <2>3. ResultIsTrue'
    BY <1>1, <2>2 DEF ResultIsTrue, Good, IState
  <2>4. Reading => ~OnTarget /\ ~OnPrevious
    BY <1>1, Reads DEF Handoff, At
  <2>5. task.at = "none"
    BY <1>1, <1>2, OnlyOne DEF Active, Good, IState, Prepared
  <2>6. Applying(w)'
    BY <1>1, <1>2, <2>1, <2>2, StepIs, OnlyOne
       DEF Applying, Handoff, Active, At, Free, Twin, Good, WorkerPoints
  <2>7. QED  BY <1>1, <2>1, <2>2, <2>3, <2>4, <2>5, <2>6, MoveKeeps DEF WorkerPoints
<1>3. CASE ~Active(w)
  BY <1>1, <1>3, FailKeeps DEF Handoff
<1>4. QED  BY <1>2, <1>3

LEMMA StopKeeps ==
  ASSUME Good, NEW w \in Workers, Stop(w)
  PROVE  IState'
<1>1. ~Free(w) /\ Stopped /\ UNCHANGED <<installed, cli>> /\ Attempt.phase = "target"
  BY OnlyOne DEF Stop, Free, Applying, At
<1>2. CASE Active(w)
  <2>1. Step(w, "install") /\ Persist(w, "installing", "target")
    BY <1>2 DEF Stop
  <2>2. Attempt' # None /\ Twin(Attempt', Attempt) /\ Attempt'.phase = "target"
    BY <1>1, <2>1, PersistIs, OnlyOne DEF Statuses, Phases
  <2>3. ResultIsTrue'
    BY <2>2 DEF ResultIsTrue
  <2>4. Applying(w)'
    BY <1>1, <2>1, <2>2, StepIs, OnlyOne
       DEF Applying, Stop, Active, At, Free, Twin, Good, WorkerPoints, Stopped
  <2>5. QED
    BY <1>1, <2>1, <2>2, <2>3, <2>4, MoveKeeps DEF WorkerPoints, Stopped, Stop, At, Down, Reading
<1>3. CASE ~Active(w)
  BY <1>1, <1>3, FailKeeps DEF Stop
<1>4. QED  BY <1>2, <1>3

\* A step fails, and the updater with it.
LEMMA FailuresKeep ==
  ASSUME Good, NEW w \in Workers,
         StopFails(w) \/ RestoreFails(w) \/ RerestartFails(w) \/ Reunhealthy(w)
  PROVE  IState'
<1>1. /\ ~Free(w) /\ Fail(w) /\ UNCHANGED <<installed, cli>>
      /\ UNCHANGED <<service, agent, task>> \/ Stopped
  BY DEF StopFails, RestoreFails, RerestartFails, Reunhealthy, Free
<1>2. QED  BY <1>1, FailKeeps

LEMMA InstallKeeps ==
  ASSUME Good, NEW w \in Workers, Install(w)
  PROVE  IState'
<1>1. /\ ~Free(w) /\ UNCHANGED <<service, agent, task, cli>> /\ Attempt.phase = "target"
      /\ task.at = "none" /\ service = "stopped" /\ agent.at = "down"
  BY OnlyOne DEF Install, Free, Applying, At, Good, IState, Alone, Runner
<1>2. CASE worker[w].path \in files
  <2>1. /\ Step(w, "restart") /\ Persist(w, "awaiting_restart", "target")
        /\ installed' = worker[w].path.ver
    BY <1>2 DEF Install
  <2>2. Attempt' # None /\ Twin(Attempt', Attempt) /\ Attempt'.phase = "target"
    BY <1>1, <2>1, PersistIs, OnlyOne DEF Statuses, Phases
  <2>3. worker'[w].at = "restart" /\ \A v \in Workers \ {w} : worker'[v] = worker[v]
    BY <1>1, <2>1, StepIs DEF Good, WorkerPoints
  <2>4. Applying(w)'
    BY <1>1, <2>1, <2>2, StepIs, OnlyOne DEF Applying, At, Free, Twin, Good, WorkerPoints
  <2>5. Runner'
    BY <1>1, <2>3 DEF Runner, Good, IState, At
  <2>6. Read' /\ ResultIsTrue'
    BY <1>1, <2>2 DEF Read, Reading, ResultIsTrue
  <2>7. QED  BY <1>1, <2>2, <2>3, <2>4, <2>5, <2>6, WorkerFrame
<1>3. CASE worker[w].path \notin files
  <2>1. Step(w, "back") /\ UNCHANGED <<installed, state>>
    BY <1>3 DEF Install
  <2>2. Attempt' # None /\ Twin(Attempt', Attempt) /\ Attempt' = Attempt
    BY <1>1, <2>1, SameState
  <2>3. ResultIsTrue'
    BY <1>1, <2>2 DEF ResultIsTrue
  <2>4. Applying(w)'
    BY <1>1, <2>1, <2>2, StepIs, OnlyOne DEF Applying, At, Free, Twin, Good, WorkerPoints
  <2>5. QED  BY <1>1, <2>1, <2>2, <2>3, <2>4, MoveKeeps DEF WorkerPoints, Reading
<1>4. QED  BY <1>2, <1>3

LEMMA RestartsKeep ==
  ASSUME Good, NEW w \in Workers, Restart(w) \/ Rerestart(w)
  PROVE  IState'
<1>1. /\ ~Free(w) /\ Restarted /\ UNCHANGED <<installed, state, health, cli>> /\ task.at = "none"
  BY OnlyOne DEF Restart, Rerestart, Free, Good, IState, Alone, At, disk
<1>2. Attempt' # None /\ Twin(Attempt', Attempt) /\ Attempt' = Attempt
  BY <1>1, SameState
<1>3. ResultIsTrue'
  BY <1>1, <1>2 DEF ResultIsTrue, Good, IState
<1>4. \E at \in {"health", "rehealth"} : Step(w, at)
  BY DEF Restart, Rerestart
<1>5. /\ worker'[w].at \in {"health", "rehealth"} /\ worker'[w].offer = worker[w].offer
      /\ worker'[w].path = worker[w].path /\ worker'[w].previous = worker[w].previous
      /\ \A v \in Workers \ {w} : worker'[v] = worker[v]
      /\ worker[w].at = "restart" => worker'[w].at = "health"
      /\ worker[w].at # "restart" => worker'[w].at = "rehealth" /\ worker[w].at = "rerestart"
  BY <1>1, <1>4, StepIs DEF Good, WorkerPoints, Restart, Rerestart
<1>6. agent'.at = "boot" /\ agent'.ver = installed /\ service' = "running"
  BY <1>1 DEF Restarted, Down
<1>7. Runner'
  <2>1. \A v \in Workers \ {w} : Free(v)
    BY <1>1, OnlyOne
  <2>2. QED  BY <1>1, <1>5, <1>6, <2>1 DEF Runner, At, Free
<1>8. Read'
  BY <1>6 DEF Read, Reading
<1>9. Applying(w)'
  BY <1>1, <1>2, <1>5, <1>6, OnlyOne DEF Applying, At, Free, Twin
<1>10. QED  BY <1>1, <1>2, <1>3, <1>5, <1>7, <1>8, <1>9, WorkerFrame DEF Restarted

LEMMA BacksOutKeep ==
  ASSUME Good, ~Crossed', NEW w \in Workers, Breaks(w) \/ Unhealthy(w)
  PROVE  IState'
<1>1. /\ ~Free(w) /\ UNCHANGED <<installed, service, agent, task, state, health, cli>>
      /\ Step(w, "back") /\ task.at = "none"
  BY OnlyOne DEF Breaks, Unhealthy, Free, Good, IState, Alone, At, disk
<1>2. Attempt' # None /\ Twin(Attempt', Attempt) /\ Attempt' = Attempt
  BY <1>1, SameState
<1>3. ResultIsTrue'
  BY <1>1, <1>2 DEF ResultIsTrue, Good, IState
<1>4. Attempt.phase = "target"
  BY <1>1, OnlyOne DEF Applying, At, Breaks, Unhealthy, MarkerMatches, MarkOf
<1>5. ~Reading
  <2>1. CASE Breaks(w)
    BY <2>1 DEF Breaks, Good, IState, Runner, At, Reading
  <2>2. CASE Unhealthy(w)
    BY <2>2, CrossingIs DEF Good
  <2>3. QED  BY <2>1, <2>2
<1>6. Applying(w)'
  BY <1>1, <1>2, <1>4, StepIs, OnlyOne DEF Applying, At, Free, Twin, Good, WorkerPoints
<1>7. QED  BY <1>1, <1>2, <1>3, <1>5, <1>6, MoveKeeps DEF WorkerPoints

LEMMA BackKeeps ==
  ASSUME Good, NEW w \in Workers, Back(w)
  PROVE  IState'
<1>1. /\ ~Free(w) /\ UNCHANGED <<installed, service, agent, task, cli>> /\ task.at = "none"
      /\ Attempt.phase = "target" /\ Step(w, "restore") /\ Persist(w, "installing", "rollback")
  BY OnlyOne DEF Back, Free, Applying, At, Good, IState, Alone
<1>2. Attempt' # None /\ Twin(Attempt', Attempt) /\ Attempt'.phase = "rollback"
  BY <1>1, PersistIs, OnlyOne DEF Statuses, Phases
<1>3. ResultIsTrue'
  BY <1>2 DEF ResultIsTrue
<1>4. Reading => ~OnTarget /\ ~OnPrevious
  BY <1>1, Reads DEF Back, At
<1>5. Applying(w)'
  BY <1>1, <1>2, StepIs, OnlyOne DEF Applying, At, Free, Twin, Good, WorkerPoints
<1>6. QED  BY <1>1, <1>2, <1>3, <1>4, <1>5, MoveKeeps DEF WorkerPoints

\* What an updater that restores may already find recorded says the same of the
\* version that it puts back.
LEMMA RestoreKeeps ==
  ASSUME Good, NEW w \in Workers, Restore(w)
  PROVE  IState'
<1>1. /\ ~Free(w) /\ cli' = cli /\ (Attempt.phase = "rollback" \/ Undone(Attempt))
  BY OnlyOne DEF Restore, Free, Applying, At
<1>2. CASE worker[w].previous.path \in files
  <2>1. /\ Stopped /\ installed' = worker[w].previous.path.ver
        /\ Persist(w, "awaiting_restart", "rollback") /\ Step(w, "rerestart")
    BY <1>2 DEF Restore
  <2>2. /\ Attempt' # None /\ Twin(Attempt', Attempt)
        /\ Attempt'.phase = "rollback" \/ (Undone(Attempt') /\ Attempt' = Attempt)
    BY <1>1, <2>1, PersistIs, OnlyOne DEF Statuses, Phases, Undone, Attempt
  <2>3. worker'[w].at = "rerestart" /\ \A v \in Workers \ {w} : worker'[v] = worker[v]
    BY <1>1, <2>1, StepIs DEF Good, WorkerPoints
  <2>4. ResultIsTrue'
    BY <1>1, <2>1, <2>2, OnlyOne DEF ResultIsTrue, Undone, Restored, Success, Twin
  <2>5. Applying(w)'
    BY <1>1, <2>1, <2>2, StepIs, OnlyOne DEF Applying, At, Free, Twin, Good, WorkerPoints
  <2>6. Runner' /\ Read'
    <3>1. \A v \in Workers \ {w} : Free(v)
      BY <1>1, OnlyOne
    <3>2. QED  BY <2>1, <2>3, <3>1 DEF Runner, Read, Reading, At, Free, Stopped, Down
  <2>7. QED  BY <1>1, <2>1, <2>2, <2>3, <2>4, <2>5, <2>6, WorkerFrame DEF Stopped
<1>3. CASE worker[w].previous.path \notin files
  BY <1>1, <1>3, FailKeeps DEF Restore
<1>4. QED  BY <1>2, <1>3

LEMMA RehealthyKeeps ==
  ASSUME Good, NEW w \in Workers, Rehealthy(w)
  PROVE  IState'
<1>1. /\ ~Free(w) /\ UNCHANGED <<installed, service, agent, task, cli>> /\ Gone(w)
      /\ Persist(w, Restored(worker[w].offer), "completed")
      /\ Restored(worker[w].offer) \in Statuses
  BY DEF Rehealthy, Free, Restored, Statuses
<1>2. /\ Attempt' # None /\ Twin(Attempt', Attempt) /\ Undone(Attempt')
  BY <1>1, PersistIs, OnlyOne DEF Phases, Undone, Twin
<1>3. installed = Attempt.previous.path.ver
  BY <1>1, OnlyOne DEF Applying, At, Rehealthy, Twin
<1>4. ResultIsTrue'
  BY <1>1, <1>2, <1>3 DEF ResultIsTrue, Undone, Restored, Success, Twin
<1>5. QED  BY <1>1, <1>2, <1>4, GoneIs, GoneKeeps DEF Good, Undone

LEMMA HealthyKeeps ==
  ASSUME Good, NEW w \in Workers, Healthy(w)
  PROVE  IState'
<1>1. /\ ~Free(w) /\ UNCHANGED <<installed, service, agent, task, cli>> /\ Gone(w)
      /\ installed = worker[w].offer.target
  BY OnlyOne DEF Healthy, Free, Applying, At
<1>2. CASE state' = state
  BY <1>1, <1>2, SameState, GoneIs, GoneKeeps DEF Good, IState, ResultIsTrue
<1>3. CASE Attempt' # None /\ Twin(Attempt', Attempt) /\ Done(Attempt')
  <2>1. ResultIsTrue'
    BY <1>1, <1>3, OnlyOne DEF ResultIsTrue, Done, Success, Twin
  <2>2. QED  BY <1>1, <1>3, <2>1, GoneIs, GoneKeeps DEF Good, Done
<1>4. QED  BY <1>2, <1>3, HealthyIs

LEMMA DeathKeeps ==
  ASSUME Good, NEW w \in Workers, WorkerDies(w)
  PROVE  IState'
<1>1. ~Free(w) /\ UNCHANGED <<installed, service, agent, task, state, cli>> /\ Gone(w)
  BY DEF WorkerDies, Free, disk
<1>2. QED  BY <1>1, SameState, GoneIs, GoneKeeps DEF Good, IState, ResultIsTrue

LEMMA UnsavedKeeps ==
  ASSUME Good, NEW w \in Workers, Unsaved(w)
  PROVE  IState'
<1>1. /\ ~Free(w) /\ worker'[w].at = "none" /\ \A v \in Workers \ {w} : worker'[v] = worker[v]
      /\ Attempt' # None /\ Twin(Attempt', Attempt) /\ cli' = cli
      /\ Attempt'.phase \in {Attempt.phase, "completed"}
      /\ Attempt' = Attempt \/ (Attempt'.status = "failed" /\ Attempt'.phase = "completed")
  BY UnsavedIs
<1>2. CASE installed' = installed
  <2>1. ResultIsTrue'
    BY <1>1, <1>2 DEF ResultIsTrue, Good, IState, Success
  <2>2. QED  BY <1>1, <1>2, <2>1, UnsavedIs, GoneKeeps
<1>3. CASE At(w, {"install"}) /\ UNCHANGED <<service, agent, task>>
  <2>1. /\ Attempt.phase = "target" /\ task.at = "none" /\ service = "stopped" /\ agent.at = "down"
    BY <1>1, <1>3, OnlyOne DEF Applying, At, Good, IState, Alone, Runner
  <2>2. ResultIsTrue'
    BY <1>1, <2>1 DEF ResultIsTrue, Success
  <2>3. \A v \in Workers \ {w} : Free(v)
    BY <1>1, OnlyOne
  <2>4. Runner' /\ Read' /\ Applying(w)'
    BY <1>1, <1>3, <2>1, <2>3 DEF Runner, Read, Reading, Applying, At, Free
  <2>5. QED  BY <1>1, <1>3, <2>1, <2>2, <2>4, WorkerFrame
<1>4. CASE At(w, {"restore"}) /\ installed' = worker[w].previous.path.ver /\ Stopped
  <2>1. Attempt.phase = "rollback" \/ Undone(Attempt)
    BY <1>1, <1>4, OnlyOne DEF Applying, At
  <2>2. ResultIsTrue'
    BY <1>1, <1>4, <2>1, OnlyOne DEF ResultIsTrue, Undone, Restored, Success, Twin
  <2>3. \A v \in Workers \ {w} : Free(v)
    BY <1>1, OnlyOne
  <2>4. Runner' /\ Read' /\ Applying(w)'
    BY <1>1, <1>4, <2>3 DEF Runner, Read, Reading, Applying, At, Free, Stopped, Down
  <2>5. QED  BY <1>1, <1>4, <2>2, <2>4, WorkerFrame DEF Stopped
<1>5. QED  BY <1>2, <1>3, <1>4, UnsavedIs

-----------------------------------------------------------------------------
(***************************************************************************)
(* The steps of the agent, of its task and of force_update keep it.        *)
(***************************************************************************)
LEMMA ConnectKeeps ==
  ASSUME Good, ~Crossed', Connect
  PROVE  IState'
<1>1. /\ agent.at = "boot" /\ agent'.at = "read" /\ agent'.ver = agent.ver /\ agent'.seen = state
      /\ UNCHANGED <<installed, service, task, state, health, worker, cli>>
      /\ cli = None /\ ~Untimely /\ task.at = "none" /\ agent.ver = installed
  BY CrossingIs DEF Connect, disk, Good, Typed, TypeOK, IState, Alone, Runner
<1>2. Seen' = Attempt /\ Attempt' = Attempt
  BY <1>1 DEF Seen, Attempt
<1>3. Alone' /\ Runner' /\ (Attempt' # None => Whole(Attempt')) /\ Prepared'
      /\ ResultIsTrue'
  BY <1>1, <1>2
     DEF Good, IState, Alone, Runner, Prepared, ResultIsTrue, AllFree, Free, At, Current
<1>4. Read'
  <2>1. ASSUME Attempt # None, NEW w \in Workers, ~Free(w),
               Attempt.phase = "target", agent.ver = Attempt.offer.target
        PROVE  At(w, {"health"})
    <3>1. ~At(w, {"install", "restart", "rerestart"})
      BY <1>1 DEF At, Good, IState, Runner
    <3>2. ~At(w, {"lock", "handoff", "stop"})
      BY <1>1, <2>1, OnlyOne DEF Applying, At, Twin
    <3>3. ~At(w, {"back"})
      BY <1>1, <2>1 DEF Untimely, At
    <3>4. ~At(w, {"restore", "rehealth"})
      BY <2>1, OnlyOne DEF Applying, At, Undone
    <3>5. QED  BY <2>1, <3>1, <3>2, <3>3, <3>4, PlanParts DEF At, Free, WorkerPoints, Good
  <2>2. ASSUME Attempt # None, NEW w \in Workers, ~Free(w), Attempt.phase = "rollback"
        PROVE  At(w, {"restore", "rehealth"})
    <3>1. ~At(w, {"install", "restart", "rerestart"})
      BY <1>1 DEF At, Good, IState, Runner
    <3>2. ~At(w, {"lock", "handoff", "stop", "back"})
      BY <2>2, OnlyOne DEF Applying, At
    <3>3. ~At(w, {"health"})
      BY <2>2, OnlyOne DEF Applying, At, Done
    <3>4. QED  BY <2>2, <3>1, <3>2, <3>3, PlanParts DEF At, Free, WorkerPoints, Good
  <2>3. QED
    BY <1>1, <1>2, <2>1, <2>2
       DEF Read, Reading, OnTarget, OnPrevious, Twin, At, Free, Good, IState
<1>5. ASSUME NEW w \in Workers PROVE Applying(w)'
  BY <1>1, <1>2, <1>5 DEF Applying, Free, At, Good, IState
<1>6. QED  BY <1>3, <1>4, <1>5 DEF IState

LEMMA ComesAndGoesKeep ==
  ASSUME Good, Disconnect \/ ServiceStarts
  PROVE  IState'
<1>1. /\ UNCHANGED <<installed, service, state, health, worker, cli>>
      /\ agent'.at \in {"boot", "down"} /\ (task' = NoTask \/ (task' = task /\ agent.at = "down"))
      /\ agent'.at # "down" => agent'.ver = installed /\ service # "stopped"
  <2>1. CASE Disconnect
    BY <2>1 DEF Disconnect, disk, Down, Good, Typed, TypeOK, IState, Runner
  <2>2. CASE ServiceStarts
    BY <2>2 DEF ServiceStarts, disk, Down
  <2>3. QED  BY <2>1, <2>2
<1>2. Attempt' = Attempt /\ (task' # NoTask => task' = task /\ task.at = "none")
  BY <1>1 DEF Attempt, Good, IState, Alone
<1>3. Alone' /\ Runner'
  BY <1>1, <1>2 DEF Good, IState, Alone, Runner, AllFree, Free, At, NoTask
<1>4. Prepared' /\ Read' /\ ResultIsTrue' /\ (Attempt' # None => Whole(Attempt'))
  BY <1>1, <1>2
     DEF Good, IState, Prepared, Read, Reading, ResultIsTrue, Current, NoTask
<1>5. ASSUME NEW w \in Workers PROVE Applying(w)'
  BY <1>1, <1>2, <1>5 DEF Applying, Free, At, Good, IState
<1>6. QED  BY <1>3, <1>4, <1>5 DEF IState

LEMMA WriteHealthKeeps ==
  ASSUME Good, WriteHealth
  PROVE  IState'
<1>1. /\ agent.at = "read" /\ agent'.ver = agent.ver /\ agent.ver = installed /\ cli = None
      /\ UNCHANGED <<installed, service, task, state, worker, cli>> /\ task.at = "none"
      /\ \/ Seen # None /\ Finalizes /\ agent'.at = "settle" /\ agent'.seen = agent.seen
         \/ ~(Seen # None /\ Finalizes) /\ agent'.at = "up" /\ agent'.seen = None
      /\ Reading /\ service # "stopped"
  BY DEF WriteHealth, Good, Typed, TypeOK, IState, Alone, Runner, Reading
<1>2. Attempt' = Attempt
  BY <1>1 DEF Attempt
<1>3. Alone' /\ Runner' /\ (Attempt' # None => Whole(Attempt')) /\ Prepared'
      /\ ResultIsTrue'
  BY <1>1, <1>2
     DEF Good, IState, Alone, Runner, Prepared, ResultIsTrue, AllFree, Free, At, Current
<1>4. Read'
  <2>1. CASE agent'.at = "up"
    BY <2>1 DEF Read, Reading
  <2>2. CASE agent'.at = "settle"
    <3>1. Seen' = Seen /\ (OnTarget' <=> OnTarget) /\ (OnPrevious' <=> OnPrevious)
          /\ (Finalizes' <=> Finalizes) /\ Seen # None /\ Finalizes
      BY <1>1, <2>2 DEF Seen, OnTarget, OnPrevious, Finalizes
    <3>2. QED  BY <1>1, <1>2, <2>2, <3>1 DEF Read, Reading, Good, IState, At
  <2>3. QED  BY <1>1, <2>1, <2>2
<1>5. ASSUME NEW w \in Workers PROVE Applying(w)'
  <2>1. ASSUME At(w, {"health"})
        PROVE  /\ health = MarkOf(worker[w].offer) => health' = health
               /\ agent'.at = "settle" => health' = MarkOf(worker[w].offer)
    <3>1. ~Free(w) /\ Seen # None /\ Seen.offer = worker[w].offer
          /\ agent.ver = Seen.offer.target /\ (Seen.phase = "target" \/ Done(Seen))
      BY <1>1, <2>1, OnlyOne, Reads DEF At, Free, Twin, Applying
    <3>2. Marker = MarkOf(worker[w].offer)
      BY <3>1 DEF Marker, MarkOf, OnTarget, Done
    <3>3. MarkOf(worker[w].offer) # None
      BY <3>1, PlanParts, OfferParts, NoneAssumption DEF Good, MarkOf, Marks
    <3>4. QED  BY <3>2, <3>3 DEF WriteHealth
  <2>2. QED  BY <1>1, <1>2, <1>5, <2>1 DEF Applying, Free, At, Good, IState
<1>6. QED  BY <1>3, <1>4, <1>5 DEF IState

LEMMA SettleIs ==
  ASSUME Good, Settle
  PROVE  /\ Seen \in Attempts /\ agent.seen \in States /\ Attempt # None /\ Twin(Seen, Attempt)
         /\ Finalizes /\ Whole(Seen) /\ Seen.path \in Paths
         /\ Attempt' # None /\ Twin(Attempt', Seen) /\ Twin(Attempt', Attempt)
         /\ OnTarget => /\ Done(Attempt') /\ state'.current = Package(Seen)
                        /\ state'.current.path = Seen.path /\ state'.baseline = Seen.previous
         /\ ~OnTarget => /\ Undone(Attempt') /\ OnPrevious /\ state'.current = agent.seen.current
                         /\ state'.baseline = agent.seen.baseline
<1>1. /\ Seen \in Attempts /\ agent.seen \in States /\ agent.seen.attempt = Seen
      /\ Finalizes /\ Whole(Seen) /\ Reading /\ Attempt # None /\ Twin(Seen, Attempt)
  BY Parts DEF Good, Settle, IState, Read, Reading, Typed, Seen
<1>2. Seen.path # None /\ Seen.path \in Paths
  BY <1>1, AttemptParts DEF Whole, Finalizes, OnTarget, OnPrevious
<1>3. CASE OnTarget
  <2> DEFINE r == Rotated(agent.seen, Seen)
  <2>1. state' = Marked(r, Success(Seen.offer), "completed")
    BY <1>3 DEF Settle, Marked
  <2>2. /\ r \in States /\ r.attempt = Seen /\ r.current = Package(Seen)
        /\ r.baseline = Seen.previous /\ Package(Seen).path = Seen.path
    BY <1>1, <1>2, RotatedIs
  <2>3. /\ state'.current = r.current /\ state'.baseline = r.baseline
        /\ state'.attempt \in Attempts /\ Twin(state'.attempt, Seen)
        /\ state'.attempt.status = Success(Seen.offer) /\ state'.attempt.phase = "completed"
    BY <1>1, <2>1, <2>2, WithStatus, NoneAssumption DEF Success, Statuses, Phases
  <2>4. QED  BY <1>1, <1>2, <1>3, <2>2, <2>3, NoneAssumption DEF Attempt, Twin, Done
<1>4. CASE ~OnTarget
  <2>1. state' = Marked(agent.seen, Restored(Seen.offer), "completed")
    BY <1>4 DEF Settle, Marked
  <2>2. /\ state'.current = agent.seen.current /\ state'.baseline = agent.seen.baseline
        /\ state'.attempt \in Attempts /\ Twin(state'.attempt, Seen)
        /\ state'.attempt.status = Restored(Seen.offer) /\ state'.attempt.phase = "completed"
    BY <1>1, <2>1, WithStatus, NoneAssumption DEF Restored, Statuses, Phases
  <2>3. QED
    BY <1>1, <1>2, <1>4, <2>2, NoneAssumption DEF Attempt, Twin, Undone, Finalizes
<1>5. QED  BY <1>3, <1>4

LEMMA SettleKeeps ==
  ASSUME Good, Settle
  PROVE  IState'
<1>1. /\ agent.at = "settle" /\ agent'.at = "up" /\ agent'.ver = agent.ver /\ agent.ver = installed
      /\ UNCHANGED <<installed, service, task, health, worker, cli>> /\ task.at = "none"
      /\ cli = None /\ Reading /\ service # "stopped"
  BY DEF Settle, Good, Typed, TypeOK, IState, Alone, Runner, Reading
<1>2. /\ Attempt' # None /\ Twin(Attempt', Attempt) /\ Twin(Attempt', Seen) /\ Seen # None
      /\ OnTarget => Done(Attempt')
      /\ ~OnTarget => Undone(Attempt') /\ OnPrevious
  BY SettleIs, NoneAssumption
<1>3. Alone' /\ Runner' /\ Read' /\ Prepared'
  BY <1>1 DEF Good, IState, Alone, Runner, Read, Reading, Prepared, AllFree, Free, At
<1>4. Whole(Attempt')
  BY <1>2, SettleIs DEF Whole, Twin, Done, Undone
<1>5. ResultIsTrue'
  <2>1. CASE OnTarget
    BY <1>1, <1>2, <2>1 DEF ResultIsTrue, Done, Success, Twin, OnTarget
  <2>2. CASE ~OnTarget
    BY <1>1, <1>2, <2>2 DEF ResultIsTrue, Undone, Restored, Success, Twin, OnPrevious
  <2>3. QED  BY <2>1, <2>2
<1>6. ASSUME NEW w \in Workers PROVE Applying(w)'
  <2>1. CASE Free(w)
    BY <1>1, <2>1 DEF Applying, Free
  <2>2. CASE ~Free(w)
    <3>1. Applying(w) /\ (OnTarget => At(w, {"health"}))
          /\ (OnPrevious => At(w, {"restore", "rehealth"}))
      BY <1>1, <2>2, OnlyOne, Reads
    <3>2. CASE OnTarget
      BY <1>1, <1>2, <2>2, <3>1, <3>2 DEF Applying, At, Free, Twin, Done
    <3>3. CASE ~OnTarget
      BY <1>1, <1>2, <2>2, <3>1, <3>3 DEF Applying, At, Free, Twin, Undone
    <3>4. QED  BY <3>2, <3>3
  <2>3. QED  BY <2>1, <2>2
<1>7. QED  BY <1>2, <1>3, <1>4, <1>5, <1>6 DEF IState

\* A step of the task or of force_update while no updater is at work.
LEMMA FreeFrame ==
  ASSUME Good, AllFree, UNCHANGED <<worker, service, agent>>, installed' = installed
  PROVE  /\ Runner' /\ AllFree' /\ \A w \in Workers : Applying(w)'
BY DEF Good, IState, Runner, AllFree, Free, Applying, At

\* The task's steps while no updater is at work.
LEMMA TaskFrame ==
  ASSUME Good, AllFree, cli = None, cli' = None, agent.at = "up",
         UNCHANGED <<installed, service, agent, worker>>,
         task'.at \in {"none", "begin", "fetch", "ready"},
         Attempt' # None => Whole(Attempt'), Prepared', ResultIsTrue'
  PROVE  IState'
<1>1. Read'
  BY DEF Read, Reading
<1>2. Alone'
  BY DEF Alone, AllFree, Free
<1>3. QED  BY <1>1, <1>2, FreeFrame DEF IState

LEMMA OfferKeeps ==
  ASSUME Good, ~Crossed', NEW o \in Upgrades \cup Rollbacks, Offer(o)
  PROVE  IState'
<1>1. /\ UNCHANGED <<installed, service, agent, state, health, worker, cli>> /\ cli = None
      /\ AllFree /\ agent.at = "up" /\ task'.at = "begin"
  BY CrossingIs DEF Good, Offers, Offer, disk, AllFree, Free, NoTask
<1>2. Attempt' = Attempt
  BY <1>1 DEF Attempt
<1>3. Prepared' /\ ResultIsTrue' /\ (Attempt' # None => Whole(Attempt'))
  BY <1>1, <1>2 DEF Good, IState, Prepared, ResultIsTrue
<1>4. QED  BY <1>1, <1>3, TaskFrame

LEMMA TaskAlone ==
  ASSUME Good, task.at \in {"begin", "fetch", "ready"}
  PROVE  AllFree /\ cli = None /\ agent.at = "up" /\ agent.ver = installed
BY DEF Good, IState, Alone, Runner

LEMMA BeginKeeps ==
  ASSUME Good, Begin
  PROVE  IState'
<1>1. /\ AllFree /\ cli = None /\ agent.at = "up" /\ agent.ver = installed /\ task.at = "begin"
      /\ UNCHANGED <<installed, service, agent, worker, cli>>
  BY TaskAlone DEF Begin
<1>2. CASE task' = NoTask /\ state' = state
  BY <1>1, <1>2, TaskFrame DEF Good, IState, Prepared, ResultIsTrue, Attempt, NoTask
<1>3. CASE /\ task' = NoTask /\ Attempt # None /\ Attempt' # None
           /\ Twin(Attempt', Attempt)
           /\ Attempt'.phase = "completed" /\ Attempt'.status = "failed"
  BY <1>1, <1>3, TaskFrame DEF Good, IState, Prepared, ResultIsTrue, NoTask, Whole, Twin, Success
<1>4. CASE /\ task' = NoTask /\ Attempt' # None
           /\ Attempt'.path = None /\ Attempt'.phase = "completed"
  BY <1>1, <1>4, TaskFrame DEF Prepared, ResultIsTrue, NoTask, Whole
<1>5. CASE /\ task' = [task EXCEPT !.at = "fetch"]
           /\ Attempt' = NewAttempt(task.offer, state.current) /\ Attempt' # None
           /\ task.offer.target # agent.ver
  <2>1. task'.at = "fetch" /\ task'.offer = task.offer /\ task.offer \in Offers
    BY <1>1, <1>5, Parts DEF Good, Typed, TypeOK
  <2>2. Attempt'.offer = task.offer /\ Attempt'.path = None /\ Attempt'.phase = "staging"
    BY <1>5, <2>1, NewAttemptIs, Parts DEF Good
  <2>3. QED
    BY <1>1, <1>5, <2>1, <2>2, TaskFrame DEF Prepared, ResultIsTrue, Whole, Current
<1>6. QED  BY <1>2, <1>3, <1>4, <1>5, BeginIs

LEMMA FetchKeeps ==
  ASSUME Good, Download \/ UseBaseline
  PROVE  IState'
<1>1. /\ AllFree /\ cli = None /\ agent.at = "up" /\ task.at = "fetch"
      /\ UNCHANGED <<installed, service, agent, worker, cli>>
  BY TaskAlone DEF Download, UseBaseline
<1>2. PICK path \in Paths : /\ path.ver = task.offer.target
                            /\ task' = [task EXCEPT !.at = "ready"]
                            /\ state' = Fetched(state, path)
  BY FetchIs
<1>3. /\ Attempt # None /\ Attempt.offer = task.offer /\ Attempt.phase = "staging"
      /\ Attempt.offer.target # installed /\ state \in States
  BY <1>1, Parts DEF Good, IState, Prepared, Current
<1>4. /\ Attempt' # None /\ Attempt'.offer = Attempt.offer /\ Attempt'.path = path
      /\ Attempt'.phase = "staging"
  BY <1>2, <1>3, FetchedIs, NoneAssumption DEF Attempt
<1>5. task'.at = "ready" /\ task'.offer = task.offer
  BY <1>2 DEF Good, Typed, TypeOK
<1>6. QED
  BY <1>1, <1>2, <1>3, <1>4, <1>5, TaskFrame, NoneAssumption
     DEF Prepared, ResultIsTrue, Whole, Current

LEMMA PrepareFailsKeeps ==
  ASSUME Good, PrepareFails
  PROVE  IState'
<1>1. /\ AllFree /\ cli = None /\ agent.at = "up" /\ task' = NoTask
      /\ UNCHANGED <<installed, service, agent, worker, cli>>
  BY TaskAlone, FinishIs DEF PrepareFails
<1>2. /\ Prepared' /\ ResultIsTrue' /\ (Attempt' # None => Whole(Attempt'))
  <2>1. CASE state' = state
    BY <1>1, <2>1 DEF Good, IState, Prepared, ResultIsTrue, Attempt, NoTask
  <2>2. CASE /\ Attempt # None /\ Twin(Attempt', Attempt) /\ Attempt'.status = "failed"
             /\ Attempt'.phase = "completed"
    BY <1>1, <2>2 DEF Good, IState, Prepared, ResultIsTrue, Success, NoTask, Whole, Twin
  <2>3. QED  BY <2>1, <2>2, FinishIs DEF PrepareFails
<1>3. QED  BY <1>1, <1>2, TaskFrame DEF NoTask

\* The attempt is over, or is as it was.
LEMMA HandOverFailsKeeps ==
  ASSUME Good, HandOverFails
  PROVE  IState'
<1>1. /\ task.at = "spawned" /\ task' = NoTask /\ cli = None /\ agent.at = "up"
      /\ UNCHANGED <<installed, service, agent, health, worker, cli>>
      /\ \A w \in Workers : At(w, {"none", "lock", "handoff"})
  BY FinishIs DEF HandOverFails, Good, IState, Alone
<1>2. /\ Attempt # None /\ Attempt' # None /\ Twin(Attempt', Attempt)
      /\ Attempt' = Attempt \/ (Attempt'.status = "failed" /\ Attempt'.phase = "completed")
  <2>1. Attempt # None
    BY <1>1 DEF Good, IState, Prepared, Current
  <2>2. CASE state' = state
    BY <2>1, <2>2 DEF Attempt, Twin
  <2>3. QED  BY <2>1, <2>2, FinishIs DEF HandOverFails
<1>3. Whole(Attempt') /\ ResultIsTrue'
  BY <1>1, <1>2 DEF Good, IState, ResultIsTrue, Success, Whole, Twin
<1>4. Alone' /\ Runner' /\ Prepared'
  BY <1>1 DEF Good, IState, Alone, Runner, Prepared, NoTask, AllFree, Free, At
<1>5. Read'
  BY <1>1 DEF Read, Reading
<1>6. ASSUME NEW w \in Workers PROVE Applying(w)'
  <2>1. At(w, {"none", "lock", "handoff"}) /\ (~Free(w) => Applying(w))
    BY <1>1 DEF Good, IState
  <2>2. QED  BY <1>1, <1>2, <2>1 DEF Applying, Free, At, Twin
<1>7. QED  BY <1>2, <1>3, <1>4, <1>5, <1>6 DEF IState

\* An updater was started while there was none.
LEMMA SpawnKeeps ==
  ASSUME Good, NEW w \in Workers, NEW a \in Attempts, a.path # None, Spawn(w, a),
         AllFree, cli' = None, UNCHANGED <<installed, service, agent, health>>,
         agent.at \in {"down", "boot", "up"}, a.path.ver = a.offer.target,
         a.offer.target # installed, a.phase \in {"staging", "target"},
         \/ task'.at = "none"
         \/ /\ task'.at = "spawned" /\ task'.offer = a.offer /\ agent.at = "up"
            /\ a.phase = "staging"
  PROVE  IState'
<1>1. /\ worker'[w].at = "lock" /\ worker'[w].offer = a.offer /\ worker'[w].path = a.path
      /\ worker'[w].previous = PreviousOf(a) /\ PreviousOf(a) \in Packages
      /\ \A v \in Workers \ {w} : worker'[v] = worker[v]
      /\ Attempt' # None /\ Twin(worker'[w], Attempt') /\ Attempt'.phase = a.phase
  BY SpawnIs DEF Good
<1>2. \A v \in Workers \ {w} : worker'[v].at = "none"
  BY <1>1 DEF AllFree, Free
<1>3. Alone' /\ Runner'
  BY <1>1, <1>2 DEF Good, IState, Alone, Runner, At, Free, NoTask
<1>4. Whole(Attempt') /\ Attempt'.path # None /\ Attempt'.previous # None
      /\ Attempt'.offer = a.offer
  BY <1>1, NoneAssumption DEF Whole, Twin
<1>5. Prepared' /\ Read' /\ ResultIsTrue'
  BY <1>1, <1>4 DEF Prepared, Current, NoTask, Read, Reading, ResultIsTrue
<1>6. ASSUME NEW v \in Workers PROVE Applying(v)'
  BY <1>1, <1>2 DEF Applying, Free, At
<1>7. QED  BY <1>1, <1>3, <1>4, <1>5, <1>6 DEF IState

LEMMA LaunchKeeps ==
  ASSUME Good, NEW w \in Workers, Launch(w)
  PROVE  IState'
<1>1. /\ AllFree /\ cli = None /\ agent.at = "up" /\ task.at = "ready"
      /\ UNCHANGED <<installed, service, agent, health, cli>>
  BY TaskAlone DEF Launch
<1>2. CASE /\ Attempt \in Attempts /\ Attempt.path # None /\ Attempt.offer = task.offer
           /\ Attempt.phase = "staging"
           /\ Spawn(w, Attempt) /\ task' = [task EXCEPT !.at = "spawned", !.worker = w]
  <2>1. task'.at = "spawned" /\ task'.offer = task.offer
    BY <1>2 DEF Good, Typed, TypeOK
  <2>2. Attempt.path.ver = Attempt.offer.target /\ Attempt.offer.target # installed
    BY <1>1, <1>2, NoneAssumption DEF Good, IState, Whole, Prepared
  <2>3. QED  BY <1>1, <1>2, <2>1, <2>2, SpawnKeeps
<1>3. CASE /\ Finish(IF Current(task.offer) THEN Ended(state, "failed") ELSE state)
           /\ worker' = worker
  <2>1. task' = NoTask
    BY <1>3, FinishIs
  <2>2. /\ Prepared' /\ ResultIsTrue' /\ (Attempt' # None => Whole(Attempt'))
    <3>1. CASE state' = state
      BY <2>1, <1>1, <3>1 DEF Good, IState, Prepared, ResultIsTrue, Attempt, NoTask
    <3>2. CASE /\ Attempt # None /\ Twin(Attempt', Attempt) /\ Attempt'.status = "failed"
               /\ Attempt'.phase = "completed"
      BY <2>1, <3>2 DEF Good, IState, Prepared, ResultIsTrue, Success, NoTask, Whole, Twin
    <3>3. QED  BY <1>3, <3>1, <3>2, FinishIs
  <2>3. QED  BY <1>1, <1>3, <2>1, <2>2, TaskFrame DEF NoTask
<1>4. QED  BY <1>2, <1>3, LaunchIs

LEMMA HandOverKeeps ==
  ASSUME Good, HandOver
  PROVE  IState'
<1>1. /\ task.at = "spawned" /\ task' = NoTask /\ cli = None /\ agent' = Down
      /\ UNCHANGED <<installed, service, health, worker, cli>>
      /\ \A w \in Workers : At(w, {"none", "lock", "handoff"})
  BY DEF HandOver, Good, IState, Alone
<1>2. /\ Attempt # None /\ Attempt' # None /\ Twin(Attempt', Attempt) /\ Attempt'.phase = "target"
      /\ Attempt.path # None /\ Attempt.previous # None
  BY <1>1, HandOverIs DEF Good, IState, Prepared
<1>3. Whole(Attempt') /\ ResultIsTrue' /\ Prepared' /\ Read'
  BY <1>1, <1>2 DEF Good, IState, ResultIsTrue, Whole, Twin, Prepared, Read, Reading, NoTask, Down
<1>4. Alone' /\ Runner'
  BY <1>1 DEF Good, IState, Alone, Runner, NoTask, AllFree, Free, At, Down
<1>5. ASSUME NEW w \in Workers PROVE Applying(w)'
  <2>1. At(w, {"none", "lock", "handoff"}) /\ (~Free(w) => Applying(w))
    BY <1>1 DEF Good, IState
  <2>2. QED  BY <1>1, <1>2, <2>1 DEF Applying, Free, At, Twin
<1>6. QED  BY <1>2, <1>3, <1>4, <1>5 DEF IState

LEMMA ForceCheckKeeps ==
  ASSUME Good, ~Crossed', NEW o \in Forced, ForceCheck(o)
  PROVE  IState'
<1>1. /\ UNCHANGED <<installed, service, agent, task, state, health, worker>> /\ cli' = o
      /\ o.target # installed /\ task.at = "none" /\ agent.at \in {"down", "boot", "up"} /\ AllFree
  <2>1. UNCHANGED <<installed, service, agent, task, state, health, worker>> /\ cli' = o
    BY DEF ForceCheck, disk
  <2>2. /\ o.target # installed /\ task = NoTask /\ agent.at \notin {"read", "settle"}
        /\ AllFree
    BY CrossingIs DEF Good
  <2>3. agent.at \in {"down", "boot", "read", "settle", "up"}
    BY DEF Good, Typed, TypeOK
  <2>4. QED  BY <2>1, <2>2, <2>3 DEF NoTask
<1>2. Attempt' = Attempt
  BY <1>1 DEF Attempt
<1>3. Alone' /\ Read'
  BY <1>1 DEF Alone, AllFree, Free, Read, Reading
<1>4. Prepared' /\ ResultIsTrue' /\ (Attempt' # None => Whole(Attempt'))
  BY <1>1, <1>2 DEF Good, IState, Prepared, ResultIsTrue
<1>5. QED  BY <1>1, <1>3, <1>4, FreeFrame DEF IState

LEMMA ForceUpdateKeeps ==
  ASSUME Good, NEW w \in Workers, ForceUpdate(w)
  PROVE  IState'
<1>1. /\ UNCHANGED <<installed, service, agent, task, health>> /\ cli # None /\ cli' = None
      /\ agent.at \in {"down", "boot", "up"} /\ cli.target # installed /\ AllFree
      /\ task.at = "none" /\ task = task'
  BY DEF ForceUpdate, Good, IState, Alone
<1>2. /\ cli \in Forced /\ ForcedAttempt(cli) \in Attempts /\ ForcedAttempt(cli).path # None
      /\ ForcedAttempt(cli).offer = cli /\ ForcedAttempt(cli).phase = "target"
      /\ ForcedAttempt(cli).path.ver = cli.target
  BY ForceIs, ForcedIs
<1>3. CASE Spawn(w, ForcedAttempt(cli))
  BY <1>1, <1>2, <1>3, SpawnKeeps
<1>4. CASE /\ Attempt' # None /\ Twin(Attempt', ForcedAttempt(cli))
           /\ Attempt'.status = "failed" /\ Attempt'.phase = "completed" /\ worker' = worker
  <2>1. Whole(Attempt') /\ ResultIsTrue' /\ Prepared' /\ Read' /\ Alone'
    BY <1>1, <1>2, <1>4
       DEF Whole, Twin, ResultIsTrue, Success, Prepared, Read, Reading, Alone, AllFree, Free
  <2>2. QED  BY <1>1, <1>4, <2>1, FreeFrame DEF IState
<1>5. QED  BY <1>3, <1>4, ForceIs

LEMMA RebootKeeps ==
  ASSUME Good, Reboot
  PROVE  IState'
<1>1. /\ UNCHANGED <<installed, state>> /\ task'.at = "none" /\ agent'.at = "down" /\ cli' = None
      /\ service' = "running" /\ \A w \in Workers : worker'[w].at = "none"
  BY DEF Reboot, disk, Down, NoTask, NoPlan
<1>2. Attempt' = Attempt
  BY <1>1 DEF Attempt
<1>3. QED
  BY <1>1, <1>2
     DEF Good, IState, Alone, Runner, Prepared, Read, Reading, Applying, Free, At, ResultIsTrue

LEMMA StepState ==
  ASSUME Good, ~Crossed', [Next]_vars
  PROVE  IState'
<1>1. CASE Runs \/ Disconnect
  BY <1>1, ConnectKeeps, ComesAndGoesKeep, WriteHealthKeeps, SettleKeeps DEF Runs
<1>2. CASE \/ \E o \in Upgrades \cup Rollbacks : Offer(o)
           \/ Prepares \/ PrepareFails \/ HandOverFails \/ Forces
  BY <1>2, OfferKeeps, BeginKeeps, FetchKeeps, HandOverKeeps, LaunchKeeps, PrepareFailsKeeps,
     HandOverFailsKeeps, ForceCheckKeeps, ForceUpdateKeeps DEF Prepares, Forces
<1>3. ASSUME NEW w \in Workers, Applies(w) PROVE IState'
  BY <1>3, AcquireKeeps, HandoffKeeps, StopKeeps, InstallKeeps, RestartsKeep, HealthyKeeps,
     BacksOutKeep, BackKeeps, RestoreKeeps, RehealthyKeeps DEF Applies
<1>4. ASSUME NEW w \in Workers,
             StopFails(w) \/ Breaks(w) \/ RestoreFails(w) \/ RerestartFails(w) \/ Reunhealthy(w)
             \/ Unsaved(w) \/ WorkerDies(w)
      PROVE IState'
  BY <1>4, FailuresKeep, BacksOutKeep, UnsavedKeeps, DeathKeeps
<1>5. CASE UNCHANGED vars
  <2>1. UNCHANGED <<installed, service, agent, task, state, health, worker, cli>>
    BY <1>5 DEF vars, disk
  <2>2. Attempt' = Attempt /\ Seen' = Seen
    BY <2>1 DEF Attempt, Seen
  <2>3. QED
    BY <2>1, <2>2
       DEF Good, IState, Alone, Runner, Prepared, Read, Reading, Applying, Free, At, ResultIsTrue,
           AllFree, Current, OnTarget, OnPrevious, Finalizes
<1>6. QED  BY <1>1, <1>2, <1>3, <1>4, <1>5, RebootKeeps DEF Next, Unsaved

LEMMA GoodInit ==
  ASSUME Init
  PROVE  Good
<1>1. /\ installed = 1 /\ service = "running" /\ agent.at = "boot" /\ agent.ver = 1
      /\ agent.seen = None /\ task.at = "none" /\ task = NoTask /\ Attempt = None /\ health = None
      /\ files = {} /\ worker = [w \in Workers |-> NoPlan] /\ lock = None /\ cli = None
      /\ updates = 0 /\ faults = {}
      /\ state = [current |-> None, baseline |-> None, attempt |-> None]
      /\ agent \in Processes /\ 1 \in Versions
  BY BoundAssumption DEF Init, Down, NoTask, Attempt, Processes, Versions
<1>2. Typed
  BY <1>1, BoundAssumption DEF Typed, TypeOK, NoTask, NoPlan, States, Processes, FaultKinds
<1>3. IState
  BY <1>1 DEF IState, Alone, Runner, Prepared, Read, Reading, Applying, ResultIsTrue, AllFree,
              Free, At, NoPlan
<1>4. QED  BY <1>2, <1>3 DEF Good

-----------------------------------------------------------------------------
(***************************************************************************)
(* Until a restore fails or a process dies, every step keeps the packages that*)
(* an updater may need.                                                    *)
(***************************************************************************)
\* A step of an updater.
LEMMA KeptFrame ==
  ASSUME Good, KeptNow, NEW w \in Workers, ~Free(w),
         \A v \in Workers \ {w} : worker'[v] = worker[v],
         task' = task \/ task' = NoTask, Attempt' # None, Twin(Attempt', Attempt),
         task'.at = "spawned" => installed' = installed,
         agent' = agent \/ agent'.at \in {"down", "boot"},
         Reading /\ agent' = agent =>
           /\ OnTarget => Seen.path \in files'
           /\ OnPrevious => state'.current = state.current,
         Fallback(w)',
         worker'[w].at = "none" => /\ CurrentIs(installed)'
                                   /\ Attempt'.phase = "target" => installed' # Attempt'.offer.target
  PROVE  KeptNow'
<1>1. \A v \in Workers \ {w} : worker'[v].at = "none" /\ Fallback(v)'
  BY OnlyOne DEF Free, Fallback
<1>2. Idle'
  BY DEF Idle, AllFree, Free
<1>3. Copied'
  BY OnlyOne DEF Copied, NoTask
<1>4. Untried'
  BY OnlyOne DEF KeptNow, Untried, AllFree, Free, NoTask, Twin
<1>5. Reports'
  <2>1. CASE agent'.at \in {"down", "boot"}
    BY <2>1 DEF Reports, Reading
  <2>2. CASE agent' = agent
    <3>1. (Reading' <=> Reading) /\ Seen' = Seen /\ (OnTarget' <=> OnTarget)
          /\ (OnPrevious' <=> OnPrevious)
      BY <2>2 DEF Reading, Seen, OnTarget, OnPrevious
    <3>2. QED  BY <2>2, <3>1 DEF KeptNow, Reports
  <2>3. QED  BY <2>1, <2>2
<1>6. QED  BY <1>1, <1>2, <1>3, <1>4, <1>5 DEF KeptNow

\* An updater goes to another program point.
LEMMA KeptMove ==
  ASSUME Good, KeptNow, NEW w \in Workers, ~Free(w), NEW at \in WorkerPoints, Step(w, at),
         task' = task \/ task' = NoTask, Attempt' # None, Twin(Attempt', Attempt),
         state'.current = state.current, files' = files,
         task'.at = "spawned" => installed' = installed,
         agent' = agent \/ agent'.at \in {"down", "boot"},
         at \in {"lock", "handoff", "stop", "install"} =>
           At(w, {"lock", "handoff", "stop", "install"}) /\ installed' = installed,
         at \in {"restart", "health"} =>
           At(w, {"lock", "handoff", "stop", "install", "restart", "health"}),
         at = "health" => Attempt'.phase # "completed",
         At(w, {"health"}) => Attempt.phase # "completed"
  PROVE  KeptNow'
<1>1. /\ worker'[w].at = at /\ worker'[w].offer = worker[w].offer
      /\ worker'[w].path = worker[w].path /\ worker'[w].previous = worker[w].previous
      /\ \A v \in Workers \ {w} : worker'[v] = worker[v]
  BY StepIs DEF Good
<1>2. Fallback(w)
  BY DEF KeptNow
<1>3. Fallback(w)'
  BY <1>1, <1>2 DEF Fallback, At, Free, CurrentIs
<1>4. Reading =>
        /\ OnTarget => Seen.path \in files'
        /\ OnPrevious => state'.current = state.current
  BY Reads DEF KeptNow, Reports
<1>5. at # "none"
  BY DEF WorkerPoints
<1>6. QED  BY <1>1, <1>3, <1>4, <1>5, KeptFrame

\* An updater ends and has left the executable and the packages as they were.
LEMMA KeptGone ==
  ASSUME Good, KeptNow, NEW w \in Workers, ~Free(w), At(w, {"lock", "handoff", "stop", "install"}),
         worker'[w].at = "none", \A v \in Workers \ {w} : worker'[v] = worker[v],
         task' = task \/ task' = NoTask, Attempt' # None, Twin(Attempt', Attempt),
         state'.current = state.current, files' = files, installed' = installed,
         agent' = agent \/ agent'.at \in {"down", "boot"},
         Attempt'.phase = "target" => installed # Attempt.offer.target
  PROVE  KeptNow'
<1>1. Fallback(w)
  BY DEF KeptNow
<1>2. CurrentIs(installed)'
  BY <1>1 DEF Fallback, At, CurrentIs
<1>3. Fallback(w)'
  BY DEF Fallback, Free
<1>4. Reading =>
        /\ OnTarget => Seen.path \in files'
        /\ OnPrevious => state'.current = state.current
  BY Reads DEF KeptNow, Reports
<1>5. QED  BY <1>2, <1>3, <1>4, KeptFrame DEF Twin

LEMMA KeptFails ==
  ASSUME Good, KeptNow, NEW w \in Workers, ~Free(w), At(w, {"lock", "handoff", "stop", "install"}),
         Fail(w), UNCHANGED <<agent, task>> \/ Stopped, files' = files, installed' = installed
  PROVE  KeptNow'
<1>1. /\ Attempt' # None /\ Twin(Attempt', Attempt) /\ state'.current = state.current
      /\ Attempt'.phase = "completed" /\ worker'[w].at = "none"
      /\ \A v \in Workers \ {w} : worker'[v] = worker[v]
  BY OnlyOne, FailIs
<1>2. QED  BY <1>1, KeptGone DEF Stopped, Down

LEMMA AcquireKept ==
  ASSUME Good, KeptNow, NEW w \in Workers, Acquire(w)
  PROVE  KeptNow'
<1>1. ~Free(w) /\ UNCHANGED <<installed, agent, task, state, files>> /\ At(w, {"lock"})
  BY DEF Acquire, Free, disk, At
<1>2. Attempt' # None /\ Twin(Attempt', Attempt) /\ Attempt' = Attempt
  BY <1>1, SameState
<1>3. CASE lock = None
  BY <1>1, <1>2, <1>3, KeptMove DEF Acquire, WorkerPoints, At
<1>4. CASE lock # None
  <2>1. installed # Attempt.offer.target
    BY <1>1, OnlyOne DEF Applying, At, Twin
  <2>2. QED  BY <1>1, <1>2, <1>4, <2>1, GoneIs, KeptGone DEF Acquire, Good, At
<1>5. QED  BY <1>3, <1>4

LEMMA HandoffKept ==
  ASSUME Good, KeptNow, NEW w \in Workers, Handoff(w)
  PROVE  KeptNow'
<1>1. ~Free(w) /\ UNCHANGED <<installed, agent, task, files>> /\ At(w, {"handoff"})
  BY DEF Handoff, Free, At
<1>2. CASE Active(w)
  <2>1. Step(w, "stop") /\ state' = state
    BY <1>2 DEF Handoff
  <2>2. QED  BY <1>1, <2>1, SameState, KeptMove DEF WorkerPoints, At
<1>3. CASE ~Active(w)
  BY <1>1, <1>3, KeptFails DEF Handoff, At
<1>4. QED  BY <1>2, <1>3

LEMMA StopKept ==
  ASSUME Good, KeptNow, NEW w \in Workers, Stop(w) \/ StopFails(w)
  PROVE  KeptNow'
<1>1. /\ ~Free(w) /\ UNCHANGED <<installed, files>> /\ At(w, {"stop"})
      /\ UNCHANGED <<agent, task>> \/ Stopped
  BY DEF Stop, StopFails, Free, At
<1>2. CASE Stop(w) /\ Active(w)
  <2>1. Step(w, "install") /\ Persist(w, "installing", "target")
    BY <1>2 DEF Stop
  <2>2. Attempt' # None /\ Twin(Attempt', Attempt) /\ state'.current = state.current
    BY <1>1, <2>1, PersistIs, OnlyOne DEF Statuses, Phases
  <2>3. QED  BY <1>1, <2>1, <2>2, KeptMove DEF WorkerPoints, At, Stopped, Down
<1>3. CASE ~(Stop(w) /\ Active(w))
  BY <1>1, <1>3, KeptFails DEF Stop, StopFails, At
<1>4. QED  BY <1>2, <1>3

LEMMA InstallKept ==
  ASSUME Good, KeptNow, NEW w \in Workers, Install(w)
  PROVE  KeptNow'
<1>1. ~Free(w) /\ UNCHANGED <<agent, task, files>> /\ At(w, {"install"}) /\ task.at = "none"
  BY OnlyOne DEF Install, Free, At, Good, IState, Alone
<1>2. worker[w].path \in files
  BY <1>1 DEF KeptNow, Fallback, At
<1>3. Step(w, "restart") /\ Persist(w, "awaiting_restart", "target")
  BY <1>2 DEF Install
<1>4. Attempt' # None /\ Twin(Attempt', Attempt) /\ state'.current = state.current
  BY <1>1, <1>3, PersistIs, OnlyOne DEF Statuses, Phases
<1>5. QED  BY <1>1, <1>3, <1>4, KeptMove DEF WorkerPoints, At

LEMMA RestartsKept ==
  ASSUME Good, KeptNow, NEW w \in Workers, Restart(w) \/ Rerestart(w)
  PROVE  KeptNow'
<1>1. /\ ~Free(w) /\ Restarted /\ UNCHANGED <<installed, state, files>> /\ ~At(w, {"health"})
  BY DEF Restart, Rerestart, Free, At, disk
<1>2. Attempt' # None /\ Twin(Attempt', Attempt) /\ Attempt' = Attempt
  BY <1>1, SameState
<1>3. agent'.at = "boot" /\ task' = NoTask
  BY <1>1 DEF Restarted, Down
<1>4. CASE Restart(w)
  <2>1. Attempt.phase = "target"
    BY <1>1, <1>4, OnlyOne DEF Applying, At, Restart
  <2>2. QED  BY <1>1, <1>2, <1>3, <1>4, <2>1, KeptMove DEF Restart, WorkerPoints, At
<1>5. CASE Rerestart(w)
  BY <1>1, <1>2, <1>3, <1>5, KeptMove DEF Rerestart, WorkerPoints, At
<1>6. QED  BY <1>4, <1>5

LEMMA BacksOutKept ==
  ASSUME Good, KeptNow, NEW w \in Workers, Breaks(w) \/ Unhealthy(w)
  PROVE  KeptNow'
<1>1. /\ ~Free(w) /\ UNCHANGED <<installed, agent, task, state, files>> /\ Step(w, "back")
  BY DEF Breaks, Unhealthy, Free, disk
<1>2. Attempt' # None /\ Twin(Attempt', Attempt) /\ Attempt' = Attempt
  BY <1>1, SameState
<1>3. Attempt.phase = "target"
  BY <1>1, OnlyOne DEF Applying, At, Breaks, Unhealthy, MarkerMatches, MarkOf
<1>4. QED  BY <1>1, <1>2, <1>3, KeptMove DEF WorkerPoints, At

LEMMA BackKept ==
  ASSUME Good, KeptNow, NEW w \in Workers, Back(w)
  PROVE  KeptNow'
<1>1. /\ ~Free(w) /\ UNCHANGED <<installed, agent, task, files>> /\ At(w, {"back"})
      /\ Step(w, "restore") /\ Persist(w, "installing", "rollback")
  BY DEF Back, Free, At
<1>2. Attempt' # None /\ Twin(Attempt', Attempt) /\ state'.current = state.current
  BY <1>1, PersistIs, OnlyOne DEF Statuses, Phases
<1>3. QED  BY <1>1, <1>2, KeptMove DEF WorkerPoints, At

LEMMA RestoreKept ==
  ASSUME Good, KeptNow, NEW w \in Workers, Restore(w)
  PROVE  KeptNow'
<1>1. ~Free(w) /\ files' = files /\ At(w, {"restore"}) /\ worker[w].previous.path \in files
  BY DEF Restore, Free, At, KeptNow, Fallback
<1>2. Stopped /\ Persist(w, "awaiting_restart", "rollback") /\ Step(w, "rerestart")
  BY <1>1 DEF Restore
<1>3. Attempt' # None /\ Twin(Attempt', Attempt) /\ state'.current = state.current
  BY <1>1, <1>2, PersistIs, OnlyOne DEF Statuses, Phases
<1>4. task' = NoTask /\ agent'.at = "down"
  BY <1>2 DEF Stopped, Down
<1>5. QED  BY <1>1, <1>2, <1>3, <1>4, KeptMove DEF WorkerPoints, At, NoTask

\* The package that failed is not the one of the version that runs.
LEMMA RehealthyKept ==
  ASSUME Good, KeptNow, NEW w \in Workers, Rehealthy(w)
  PROVE  KeptNow'
<1>1. /\ ~Free(w) /\ UNCHANGED <<installed, agent, task>> /\ Gone(w) /\ At(w, {"rehealth"})
      /\ Persist(w, Restored(worker[w].offer), "completed") /\ files' = files \ {worker[w].path}
      /\ Restored(worker[w].offer) \in Statuses
  BY DEF Rehealthy, Free, Restored, Statuses, At
<1>2. /\ Attempt' # None /\ Twin(Attempt', Attempt) /\ Attempt'.phase = "completed"
      /\ state'.current = state.current
  BY <1>1, PersistIs, OnlyOne DEF Phases
<1>3. /\ installed = worker[w].previous.path.ver /\ worker[w].path.ver = worker[w].offer.target
      /\ worker[w].previous.path.ver # worker[w].offer.target
      /\ CurrentIs(worker[w].previous.path.ver)
  BY <1>1, OnlyOne DEF Applying, At, KeptNow, Fallback
<1>4. CurrentIs(installed)'
  BY <1>1, <1>2, <1>3 DEF CurrentIs
<1>5. Reading =>
        /\ OnTarget => Seen.path \in files'
        /\ OnPrevious => state'.current = state.current
  BY <1>1, <1>2, Reads DEF At
<1>6. worker'[w].at = "none" /\ \A v \in Workers \ {w} : worker'[v] = worker[v]
  BY <1>1, GoneIs DEF Good
<1>7. Fallback(w)'
  BY <1>6 DEF Fallback, Free
<1>8. QED  BY <1>1, <1>2, <1>4, <1>5, <1>6, <1>7, KeptFrame

\* Neither the package that was installed nor the one before it is removed.
LEMMA HealthyKept ==
  ASSUME Good, KeptNow, NEW w \in Workers, Healthy(w)
  PROVE  KeptNow'
<1>1. /\ ~Free(w) /\ UNCHANGED <<installed, agent, task>> /\ Gone(w) /\ At(w, {"health"})
      /\ files' = files \ Removed(w) /\ installed = worker[w].offer.target
      /\ worker[w].path.ver = installed /\ Attempt.path = worker[w].path
      /\ worker[w].path \in files /\ worker[w].previous.path.ver # worker[w].offer.target
  BY OnlyOne DEF Healthy, Free, Applying, At, Twin, KeptNow, Fallback
<1>2. worker[w].path \in files'
  BY <1>1 DEF Removed, Stale
<1>3. /\ state'.current # None /\ state'.current.path = worker[w].path
      /\ Attempt' # None /\ Twin(Attempt', Attempt) /\ Attempt'.phase # "target"
  <2>1. CASE state' = state /\ Cached(w)
    <3>1. state.current # None /\ state.current.path = worker[w].path
      <4>1. [path |-> worker[w].path, retry |-> worker[w].offer.retry] \in Packages
        BY <1>1, OnlyOne, PlanParts, OfferParts DEF Packages, Good
      <4>2. QED  BY <2>1, <4>1, NoneAssumption DEF Cached
    <3>2. Attempt.phase = "completed"
      <4>1. Attempt.phase = "target" \/ Attempt.phase = "completed"
        BY <1>1, OnlyOne DEF Applying, At, Done
      <4>2. CASE Attempt.phase = "target"
        BY <1>1, <3>1, <4>2 DEF KeptNow, Fallback, CurrentIs, At
      <4>3. QED  BY <4>1, <4>2
    <3>3. QED  BY <1>1, <2>1, <3>1, <3>2, SameState
  <2>2. CASE /\ Attempt' # None /\ Twin(Attempt', Attempt)
             /\ state' \in States /\ state'.current = Package(Attempt)
             /\ state'.current.path = worker[w].path /\ Done(Attempt')
    <3>1. Package(Attempt) \in Packages
      BY <1>1, OnlyOne, Parts, RotatedIs DEF Good
    <3>2. QED  BY <2>2, <3>1, NoneAssumption DEF Done
  <2>3. QED  BY <2>1, <2>2, HealthyIs
<1>4. CurrentIs(installed)'
  BY <1>1, <1>2, <1>3 DEF CurrentIs
<1>5. Reading =>
        /\ OnTarget => Seen.path \in files'
        /\ OnPrevious => state'.current = state.current
  BY <1>1, <1>2, Reads DEF At, Twin
<1>6. worker'[w].at = "none" /\ \A v \in Workers \ {w} : worker'[v] = worker[v]
  BY <1>1, GoneIs DEF Good
<1>7. Fallback(w)'
  BY <1>6 DEF Fallback, Free
<1>8. QED  BY <1>1, <1>3, <1>4, <1>5, <1>6, <1>7, KeptFrame

LEMMA SettleKept ==
  ASSUME Good, KeptNow, Settle
  PROVE  KeptNow'
<1>1. /\ UNCHANGED <<installed, task, worker>> /\ task.at = "none" /\ agent'.at = "up" /\ Reading
      /\ agent.ver = installed
  BY DEF Settle, Good, IState, Alone, Runner, Reading
<1>2. /\ Seen \in Attempts /\ Twin(Seen, Attempt) /\ Twin(Attempt', Seen)
      /\ Attempt'.phase = "completed" /\ Seen # None /\ Whole(Seen) /\ Seen.path \in Paths
  BY SettleIs, NoneAssumption DEF Done, Undone
<1>3. Copied' /\ Untried' /\ Reports'
  BY <1>1, <1>2 DEF Copied, Untried, Reports, Reading
<1>4. CASE OnTarget
  <2>1. /\ files' = files \ Stale(agent.seen, Seen) /\ Seen.path \in files
        /\ state'.current.path = Seen.path /\ Seen.path.ver = installed
        /\ Seen.offer.target = installed
    BY <1>1, <1>2, <1>4, SettleIs, NoneAssumption DEF Settle, KeptNow, Reports, Whole, OnTarget
  <2>2. Seen.path \in files'
    BY <2>1 DEF Stale
  <2>3. CurrentIs(installed)'
    BY <1>1, <2>1, <2>2 DEF CurrentIs
  <2>4. ASSUME NEW w \in Workers, ~Free(w) PROVE Fallback(w)'
    <3>1. At(w, {"health"}) /\ Twin(worker[w], Attempt) /\ worker[w].previous \in Packages
      BY <1>1, <1>4, <2>4, Reads, OnlyOne
    <3>2. /\ worker[w].previous.path \in files
          /\ worker[w].previous.path.ver # worker[w].offer.target
      BY <2>4 DEF KeptNow, Fallback
    <3>3. Seen.previous = worker[w].previous /\ Seen.previous # None
          /\ Seen.path = worker[w].path /\ Seen.offer = worker[w].offer
      BY <1>2, <3>1, NoneAssumption DEF Twin
    <3>4. worker[w].previous.path \in files'
      BY <2>1, <3>2, <3>3 DEF Stale
    <3>5. QED
      BY <1>1, <1>2, <2>1, <2>2, <2>3, <3>1, <3>2, <3>3, <3>4 DEF Fallback, At, Free
  <2>5. QED  BY <1>1, <1>3, <2>3, <2>4 DEF KeptNow, Idle, Fallback, Free
<1>5. CASE ~OnTarget
  <2>1. files' = files /\ state'.current = state.current
    BY <1>1, <1>2, <1>5, SettleIs DEF Settle, KeptNow, Reports
  <2>2. ASSUME NEW w \in Workers, ~Free(w) PROVE At(w, {"restore", "rehealth"})
    BY <1>1, <1>5, <2>2, Reads, SettleIs
  <2>3. ASSUME NEW w \in Workers PROVE Fallback(w)'
    BY <1>1, <2>1, <2>2 DEF KeptNow, Fallback, At, Free, CurrentIs
  <2>4. QED  BY <1>1, <1>3, <2>1, <2>3 DEF KeptNow, Idle, CurrentIs, AllFree, Free
<1>6. QED  BY <1>4, <1>5

\* A step of the agent, or of the administrator, that starts no updater.
LEMMA QuietKept ==
  ASSUME Good, KeptNow, UNCHANGED <<installed, worker>>, state'.current = state.current,
         files \subseteq files',
         AllFree \/ Attempt' = Attempt \/ \A w \in Workers : At(w, {"none", "lock", "handoff"}),
         AllFree /\ Attempt' # Attempt /\ Attempt' # None /\ Attempt'.phase = "target"
           => installed # Attempt'.offer.target,
         task'.at = "spawned" => task' = task /\ Attempt' = Attempt,
         Copied', Reports'
  PROVE  KeptNow'
<1>1. Idle'
  BY DEF KeptNow, Idle, AllFree, Free, CurrentIs
<1>2. Untried'
  BY DEF KeptNow, Untried, AllFree, Free
<1>3. ASSUME NEW w \in Workers, ~Free(w) PROVE Fallback(w)'
  <2>1. Fallback(w)
    BY DEF KeptNow
  <2>2. /\ worker[w].previous.path \in files' /\ (worker[w].path \in files => worker[w].path \in files')
        /\ \A v \in Versions : CurrentIs(v) => CurrentIs(v)'
    BY <1>3, <2>1 DEF Fallback, CurrentIs
  <2>3. worker[w].offer.target \in Versions /\ worker[w].previous.path.ver \in Versions
    BY <1>3, PlanParts, OfferParts, PackageParts DEF Good
  <2>4. CASE Attempt' = Attempt
    <3>1. At(w, {"health"}) /\ Attempt.phase = "completed" => CurrentIs(worker[w].offer.target)'
      BY <1>3, <2>1, <2>2, <2>3 DEF Fallback
    <3>2. ~(At(w, {"health"}) /\ Attempt.phase = "completed")
            => CurrentIs(worker[w].previous.path.ver)'
      BY <1>3, <2>1, <2>2, <2>3 DEF Fallback
    <3>3. QED
      BY <1>3, <2>1, <2>2, <2>4, <3>1, <3>2 DEF Fallback, At, Free, CurrentIs
  <2>5. CASE At(w, {"lock", "handoff"})
    BY <1>3, <2>1, <2>2, <2>3, <2>5 DEF Fallback, At, Free, CurrentIs
  <2>6. QED  BY <1>3, <2>4, <2>5 DEF AllFree, At, Free
<1>4. QED  BY <1>1, <1>2, <1>3 DEF KeptNow, Free, Fallback

LEMMA AgentKept ==
  ASSUME Good, ~Crossed', KeptNow, Connect \/ WriteHealth \/ Disconnect \/ ServiceStarts
  PROVE  KeptNow'
<1>1. /\ UNCHANGED <<installed, worker, state, files>> /\ Attempt' = Attempt
      /\ task' = task \/ task' = NoTask
  BY DEF Connect, WriteHealth, Disconnect, ServiceStarts, disk, Attempt
<1>2. Copied' /\ (task'.at = "spawned" => task' = task)
  BY <1>1 DEF KeptNow, Copied, NoTask
<1>3. CASE Connect
  <2>1. /\ agent'.seen = state /\ agent'.ver = installed /\ Seen' = Attempt
    BY <1>3 DEF Connect, Good, Typed, TypeOK, IState, Runner, Seen, Attempt
  <2>2. ASSUME Attempt # None, Attempt.phase = "target", installed = Attempt.offer.target
        PROVE  Attempt.path \in files
    <3>1. PICK w \in Workers : ~Free(w)
      BY <2>2 DEF KeptNow, Untried, AllFree
    <3>2. Attempt.path = worker[w].path /\ At(w, {"health"})
      <4>1. ~Untimely /\ agent.ver = installed /\ service = "running"
        BY <1>3, CrossingIs DEF Connect, Good, Typed, TypeOK, IState, Runner
      <4>2. ~At(w, {"install", "restart", "rerestart"})
        BY <4>1 DEF At, Good, IState, Runner
      <4>3. ~At(w, {"lock", "handoff", "stop", "restore", "rehealth"})
        BY <2>2, <3>1, OnlyOne DEF Applying, At, Twin, Undone
      <4>4. ~At(w, {"back"})
        BY <2>2, <4>1 DEF Untimely, At
      <4>5. QED
        BY <3>1, <4>2, <4>3, <4>4, OnlyOne, PlanParts DEF At, Free, WorkerPoints, Good, Twin
    <3>3. QED  BY <3>1, <3>2 DEF KeptNow, Fallback, At
  <2>3. Reports'
    BY <1>1, <2>1, <2>2 DEF Reports, OnTarget, Reading
  <2>4. QED  BY <1>1, <1>2, <2>3, QuietKept
<1>4. CASE ~Connect
  <2>1. Reading' => Reading /\ agent'.seen = agent.seen /\ agent'.ver = agent.ver
    <3>0. agent \in Processes
      BY DEF Good, Typed, TypeOK, Processes
    <3>1. CASE WriteHealth
      <4>2. CASE Seen # None /\ Finalizes
        BY <3>0, <3>1, <4>2 DEF WriteHealth, Reading, Processes
      <4>3. CASE ~(Seen # None /\ Finalizes)
        BY <3>0, <3>1, <4>3 DEF WriteHealth, Reading, Processes
      <4>4. QED  BY <4>2, <4>3
    <3>2. CASE Disconnect \/ ServiceStarts
      <4>1. agent'.at \in {"boot", "down"}
        <5>1. CASE Disconnect  BY <3>0, <5>1 DEF Disconnect, disk, Processes, Down
        <5>2. CASE ServiceStarts  BY <5>2 DEF ServiceStarts, disk, Down
        <5>3. QED  BY <3>2, <5>1, <5>2
      <4>2. QED  BY <4>1 DEF Reading
    <3>3. QED  BY <1>4, <3>1, <3>2
  <2>2. Reports'
    BY <1>1, <2>1 DEF KeptNow, Reports, OnTarget, OnPrevious, Seen
  <2>3. QED  BY <1>1, <1>2, <2>2, QuietKept
<1>5. QED  BY <1>3, <1>4

\* The steps of a task with no updater at work, and those that end it.
LEMMA TaskKept ==
  ASSUME Good, KeptNow,
         (\E o \in Upgrades \cup Rollbacks : Offer(o)) \/ Begin \/ Download \/ UseBaseline
         \/ PrepareFails \/ HandOverFails
  PROVE  KeptNow'
<1>1. /\ UNCHANGED <<installed, worker, agent>> /\ ~Reading' /\ files \subseteq files'
  <2>1. task.at \in {"begin", "fetch", "spawned"} \/ agent.at = "up"
    BY DEF Offer, Begin, Download, UseBaseline, PrepareFails, HandOverFails
  <2>2. agent.at = "up"
    BY <2>1, Good DEF Good, IState, Alone
  <2>3. UNCHANGED <<installed, worker, agent>> /\ files \subseteq files'
    BY FetchIs DEF Offer, Begin, Download, UseBaseline, PrepareFails, HandOverFails, disk
  <2>4. QED  BY <2>2, <2>3 DEF Reading
<1>2. Reports'
  BY <1>1 DEF Reports
<1>3. CASE \E o \in Upgrades \cup Rollbacks : Offer(o)
  <2>1. state' = state /\ task'.at = "begin" /\ Attempt' = Attempt
    BY <1>3 DEF Offer, disk, NoTask, Attempt
  <2>2. QED  BY <1>1, <1>2, <2>1, QuietKept DEF Copied
<1>4. CASE Begin
  <2>1. AllFree /\ state'.current = state.current
    BY <1>4, TaskAlone, BeginIs DEF Begin
  <2>2. Copied' /\ task'.at # "spawned"
    <3>1. CASE task' = NoTask
      BY <3>1 DEF Copied, NoTask
    <3>2. CASE /\ task' = [task EXCEPT !.at = "fetch"]
               /\ Attempt' = NewAttempt(task.offer, state.current)
      <4>1. task'.at = "fetch"
        BY <3>2 DEF Good, Typed, TypeOK
      <4>2. QED  BY <2>1, <3>2, <4>1 DEF Copied, NewAttempt
    <3>3. QED  BY <1>4, <3>1, <3>2, BeginIs
  <2>3. Attempt' = Attempt \/ Attempt'.phase \in {"completed", "staging"}
    BY <1>4, BeginIs DEF Attempt, NewAttempt
  <2>4. QED  BY <1>1, <1>2, <2>1, <2>2, <2>3, QuietKept
<1>5. CASE Download \/ UseBaseline
  <2>1. PICK path \in Paths : /\ task' = [task EXCEPT !.at = "ready"]
                              /\ state' = Fetched(state, path)
    BY <1>5, FetchIs
  <2>2. /\ AllFree /\ Attempt # None /\ Attempt.phase = "staging" /\ state \in States
        /\ task.at = "fetch" /\ task'.at = "ready"
    BY <1>5, <2>1, TaskAlone
       DEF Download, UseBaseline, Good, IState, Prepared, Current, Typed, TypeOK
  <2>3. /\ state'.current = state.current /\ Attempt'.previous = Attempt.previous
        /\ Attempt'.phase = "staging"
    BY <2>1, <2>2, FetchedIs DEF Attempt
  <2>4. Copied'
    BY <2>2, <2>3 DEF KeptNow, Copied
  <2>5. QED  BY <1>1, <1>2, <2>2, <2>3, <2>4, QuietKept
<1>6. CASE PrepareFails \/ HandOverFails
  <2>1. /\ task' = NoTask /\ state'.current = state.current
        /\ Attempt' = Attempt \/ Attempt'.phase = "completed"
    BY <1>6, FinishIs DEF PrepareFails, HandOverFails, Attempt
  <2>2. Copied' /\ task'.at # "spawned"
    BY <2>1 DEF Copied, NoTask
  <2>3. AllFree \/ \A w \in Workers : At(w, {"none", "lock", "handoff"})
    BY <1>6, TaskAlone DEF PrepareFails, HandOverFails, Good, IState, Alone
  <2>4. QED  BY <1>1, <1>2, <2>1, <2>2, <2>3, QuietKept
<1>7. QED  BY <1>3, <1>4, <1>5, <1>6

LEMMA HandOverKept ==
  ASSUME Good, KeptNow, HandOver
  PROVE  KeptNow'
<1>1. /\ task.at = "spawned" /\ task' = NoTask /\ agent' = Down
      /\ UNCHANGED <<installed, worker, files>>
      /\ \A w \in Workers : At(w, {"none", "lock", "handoff"})
  BY DEF HandOver, Good, IState, Alone
<1>2. state'.current = state.current /\ Twin(Attempt', Attempt)
      /\ installed # Attempt'.offer.target
  BY <1>1, HandOverIs DEF KeptNow, Untried, Twin
<1>3. Copied' /\ Reports' /\ task'.at # "spawned"
  BY <1>1 DEF Copied, Reports, Reading, NoTask, Down
<1>4. QED  BY <1>1, <1>2, <1>3, QuietKept

\* The updater that is started copies what was cached, or what is installed.
LEMMA SpawnKept ==
  ASSUME Good, KeptNow, NEW w \in Workers, NEW a \in Attempts, a.path # None, Spawn(w, a),
         AllFree, UNCHANGED <<installed, agent>>, ~Reading, a.offer.target # installed,
         IF a.previous # None THEN a.previous = state.current
         ELSE a.offer.kind = "manual" \/ agent.ver = installed,
         task'.at \in {"none", "spawned"}
  PROVE  KeptNow'
<1>1. /\ worker'[w].at = "lock" /\ worker'[w].offer = a.offer /\ worker'[w].path = a.path
      /\ worker'[w].previous = PreviousOf(a)
      /\ \A v \in Workers \ {w} : worker'[v] = worker[v]
      /\ Attempt' # None /\ Twin(worker'[w], Attempt')
      /\ state'.current = state.current /\ files \subseteq files' /\ a.path \in files'
      /\ a.previous = None => PreviousOf(a).path \in files'
  BY SpawnIs DEF Good
<1>2. CurrentIs(installed)
  BY DEF KeptNow, Idle
<1>3. PreviousOf(a).path.ver = installed /\ PreviousOf(a).path \in files'
  <2>1. CASE a.previous # None
    BY <1>1, <1>2, <2>1, PreviousIs DEF CurrentIs, Good
  <2>2. CASE a.previous = None
    BY <1>1, <2>2, PreviousIs DEF Good
  <2>3. QED  BY <2>1, <2>2
<1>4. Fallback(w)'
  BY <1>1, <1>2, <1>3 DEF Fallback, At, Free, CurrentIs
<1>5. \A v \in Workers \ {w} : Fallback(v)'
  BY <1>1 DEF Fallback, AllFree, Free
<1>6. Idle' /\ Copied' /\ Untried' /\ Reports'
  BY <1>1 DEF Idle, Copied, Untried, Reports, AllFree, Free, Reading, Twin
<1>7. QED  BY <1>4, <1>5, <1>6 DEF KeptNow

LEMMA LaunchKept ==
  ASSUME Good, KeptNow, NEW w \in Workers, Launch(w)
  PROVE  KeptNow'
<1>1. /\ AllFree /\ agent.at = "up" /\ agent.ver = installed /\ task.at = "ready"
      /\ UNCHANGED <<installed, agent>> /\ ~Reading
  BY TaskAlone DEF Launch, Reading
<1>2. CASE /\ Attempt \in Attempts /\ Attempt.path # None
           /\ Spawn(w, Attempt) /\ task' = [task EXCEPT !.at = "spawned", !.worker = w]
  <2>1. task'.at = "spawned"
    BY <1>2 DEF Good, Typed, TypeOK
  <2>2. Attempt.offer.target # installed
    BY <1>1 DEF Good, IState, Prepared
  <2>3. Attempt.previous = state.current
    BY <1>1 DEF KeptNow, Copied
  <2>4. QED  BY <1>1, <1>2, <2>1, <2>2, <2>3, SpawnKept
<1>3. CASE /\ Finish(IF Current(task.offer) THEN Ended(state, "failed") ELSE state)
           /\ UNCHANGED <<worker, files, updates>>
  <2>1. /\ task' = NoTask /\ state'.current = state.current
        /\ Attempt' = Attempt \/ Attempt'.phase = "completed"
    BY <1>3, FinishIs DEF Attempt
  <2>2. Copied' /\ Reports' /\ task'.at # "spawned"
    BY <1>1, <2>1 DEF Copied, Reports, Reading, NoTask
  <2>3. QED  BY <1>1, <1>3, <2>1, <2>2, QuietKept
<1>4. QED  BY <1>2, <1>3, LaunchIs

LEMMA ForcesKept ==
  ASSUME Good, KeptNow, Forces
  PROVE  KeptNow'
<1>1. CASE \E o \in Forced : ForceCheck(o)
  <2>1. UNCHANGED <<installed, agent, worker, task, state, files>> /\ Attempt' = Attempt /\ Seen' = Seen
    BY <1>1 DEF ForceCheck, disk, Attempt, Seen
  <2>2. Copied' /\ Reports'
    BY <2>1 DEF KeptNow, Copied, Reports, Reading, OnTarget, OnPrevious
  <2>3. QED  BY <2>1, <2>2, QuietKept
<1>2. ASSUME NEW w \in Workers, ForceUpdate(w) PROVE KeptNow'
  <2>1. /\ UNCHANGED <<installed, agent, task>> /\ ~Reading /\ task.at = "none" /\ AllFree
        /\ cli.target # installed
    BY <1>2 DEF ForceUpdate, Good, IState, Alone, Reading
  <2>2. /\ cli \in Forced /\ ForcedAttempt(cli) \in Attempts /\ ForcedAttempt(cli).path # None
        /\ ForcedAttempt(cli).offer = cli /\ ForcedAttempt(cli).previous = None
        /\ cli.kind = "manual"
    BY <1>2, ForceIs, ForcedIs DEF Forced
  <2>3. CASE Spawn(w, ForcedAttempt(cli))
    BY <2>1, <2>2, <2>3, SpawnKept
  <2>4. CASE /\ Attempt'.phase = "completed" /\ worker' = worker /\ state'.current = state.current
             /\ files' = files \cup {Staged(cli)}
    <3>1. Copied' /\ Reports'
      BY <2>1 DEF Copied, Reports, Reading
    <3>2. QED  BY <2>1, <2>4, <3>1, QuietKept
  <2>5. QED  BY <1>2, <2>3, <2>4, ForceIs
<1>3. QED  BY <1>1, <1>2 DEF Forces

LEMMA StepKept ==
  ASSUME Good, ~Crossed', Kept, [Next]_vars
  PROVE  Kept'
<1> SUFFICES ASSUME Smooth' PROVE KeptNow'
  BY DEF Kept
<1>1. faults \subseteq faults'
  BY DEF Next, vars, Runs, Connect, WriteHealth, Settle, ServiceStarts, Disconnect, Offer, Prepares,
         Begin, Download, UseBaseline, HandOver, Launch, PrepareFails, HandOverFails, Forces,
         ForceCheck, ForceUpdate, Applies, Acquire, Handoff, Stop, Install, Restart, Healthy,
         Unhealthy, Back, Restore, Rerestart, Rehealthy, StopFails, Breaks, RestoreFails,
         RerestartFails, Reunhealthy, StateFails, RehealthyUnsaved, WorkerDies, Reboot, Fault, Notes
<1>2. Smooth /\ KeptNow
  BY <1>1 DEF Smooth, Broken, Crossed, Kept
<1>3. CASE Runs \/ Disconnect
  BY <1>2, <1>3, AgentKept, SettleKept DEF Runs
<1>4. CASE \/ \E o \in Upgrades \cup Rollbacks : Offer(o)
           \/ Prepares \/ PrepareFails \/ HandOverFails \/ Forces
  BY <1>2, <1>4, TaskKept, HandOverKept, LaunchKept, ForcesKept DEF Prepares
<1>5. ASSUME NEW w \in Workers, Applies(w) PROVE KeptNow'
  BY <1>2, <1>5, AcquireKept, HandoffKept, StopKept, InstallKept, RestartsKept, HealthyKept,
     BacksOutKept, BackKept, RestoreKept, RehealthyKept DEF Applies
<1>6. ASSUME NEW w \in Workers, StopFails(w) \/ Breaks(w) PROVE KeptNow'
  BY <1>2, <1>6, StopKept, BacksOutKept
<1>7. ASSUME NEW w \in Workers,
             RestoreFails(w) \/ RerestartFails(w) \/ Reunhealthy(w) \/ Unsaved(w) \/ WorkerDies(w)
      PROVE  FALSE
  BY <1>7 DEF RestoreFails, RerestartFails, Reunhealthy, Unsaved, StateFails, RehealthyUnsaved,
              WorkerDies, Fault, Notes, Smooth, Broken
<1>8. CASE Reboot
  BY <1>8 DEF Reboot, Fault, Notes, Smooth, Broken
<1>9. CASE UNCHANGED vars
  <2>1. UNCHANGED <<installed, agent, worker, task, state, files>> /\ Attempt' = Attempt
        /\ Seen' = Seen
    BY <1>9 DEF vars, disk, Attempt, Seen
  <2>2. Copied' /\ Reports'
    BY <1>2, <2>1 DEF KeptNow, Copied, Reports, Reading, OnTarget, OnPrevious
  <2>3. QED  BY <1>2, <2>1, <2>2, QuietKept
<1>10. QED  BY <1>3, <1>4, <1>5, <1>6, <1>7, <1>8, <1>9 DEF Next, Unsaved

LEMMA KeptInit ==
  ASSUME Init
  PROVE  Kept
BY DEF Init, Kept, KeptNow, Idle, Copied, Untried, Fallback, Reports, Reading, CurrentIs, Free,
       Attempt, NoTask, NoPlan, Down

\* What crossed stays noted.
LEMMA StaysCrossed ==
  ASSUME Crossed, [Next]_vars
  PROVE  Crossed'
<1>1. faults \subseteq faults'
  BY DEF Next, vars, Runs, Connect, WriteHealth, Settle, ServiceStarts, Disconnect, Offer, Prepares,
         Begin, Download, UseBaseline, HandOver, Launch, PrepareFails, HandOverFails, Forces,
         ForceCheck, ForceUpdate, Applies, Acquire, Handoff, Stop, Install, Restart, Healthy,
         Unhealthy, Back, Restore, Rerestart, Rehealthy, StopFails, Breaks, RestoreFails,
         RerestartFails, Reunhealthy, StateFails, RehealthyUnsaved, WorkerDies, Reboot, Fault, Notes
<1>2. QED  BY <1>1 DEF Crossed

\* The inductive invariant, until an update crosses: types, one updater at a time, what each
\* point of the updater says of the attempt and of the executable, and what it may still need.
THEOREM UpdateStaysSound == Spec => [](~Crossed => Good /\ Kept)
<1>1. Init => (~Crossed => Good /\ Kept)
  BY GoodInit, KeptInit
<1>2. (~Crossed => Good /\ Kept) /\ [Next]_vars => (~Crossed => Good /\ Kept)'
  BY StepTyped, StepState, StepKept, StaysCrossed DEF Good
<1>3. QED  BY <1>1, <1>2, PTL DEF Spec

\* When nobody works on the attempt any more, its recorded result is what is installed:
\* two writers of the state file, agent and updater, cannot make it say anything else
\* while no two updates cross.
THEOREM StatusStaysTrue == Spec => [](~Crossed => StatusIsTrue)
<1>1. (~Crossed => Good /\ Kept) => (~Crossed => StatusIsTrue)
  BY DEF Good, IState, ResultIsTrue, StatusIsTrue
<1>2. QED  BY <1>1, UpdateStaysSound, PTL

\* The package that attempt_rollback would install is in its place for as long as an
\* updater may come to need it, whatever agent and updater remove as out of date.
THEOREM FallbackStaysKept == Spec => [](~Crossed => FallbackIsKept)
<1>1. (~Crossed => Good /\ Kept) => (~Crossed => FallbackIsKept)
  BY DEF Good, Typed, Kept, KeptNow, Smooth, Fallback, Free, FallbackIsKept
<1>2. QED  BY <1>1, UpdateStaysSound, PTL

\* Until the executable is replaced, the package of attempt_rollback is the version that is
\* installed.
THEOREM FallbackStaysPrevious == Spec => [](~Crossed => FallbackIsPrevious)
<1>1. (~Crossed => Good /\ Kept) => (~Crossed => FallbackIsPrevious)
  BY DEF Kept, KeptNow, Smooth, Fallback, Free, At, FallbackIsPrevious
<1>2. QED  BY <1>1, UpdateStaysSound, PTL

-----------------------------------------------------------------------------
(***************************************************************************)
(* ActivityDrain: the work that is inside, and the gate.                   *)
(***************************************************************************)
\* The work that active counts: from fetch_add to fetch_sub.
Counted == {w \in Works : work[w] \in {"counted", "inside", "leaving"}}

CountsWork == active = Cardinality(Counted)

\* An update that was not dropped keeps the tracker draining.
HeldShut ==
  /\ drainTask \in {"counting", "arming", "checking", "polling", "waiting", "ready"}
       /\ ~aborted => draining
  /\ drainTask = "ready" \/ owned => ~aborted

\* The loop that launches has no other task, and stop_draining is called for a
\* task that was aborted or is over.
LoopOwns ==
  /\ loop \in {"launching", "flushing"} => drainTask = "none"
  /\ loop \in {"resuming", "leaving", "quitting"} => aborted \/ drainTask = "none"

IDrain == D!TypeOK /\ CountsWork /\ HeldShut /\ LoopOwns /\ D!ReadyIsQuiet

LEMMA CountedFinite ==
  ASSUME D!TypeOK
  PROVE  IsFiniteSet(Counted) /\ Cardinality(Counted) \in Nat
BY WorksAssumption, FS_Subset, FS_CardinalityType DEF Counted

\* The counter follows the set it counts through every step of a work.
LEMMA CountStep ==
  ASSUME D!TypeOK, CountsWork, NEW w \in Works, D!WorkStep(w) \/ D!End(w)
  PROVE  active' \in Nat /\ CountsWork'
<1> USE DEF D!TypeOK, CountsWork
<1>0. IsFiniteSet(Counted) /\ Cardinality(Counted) \in Nat
  BY CountedFinite
<1>1. CASE D!Look(w)
  <2>1. Counted' = Counted
    BY <1>1 DEF D!Look, Counted, D!tracker
  <2>2. QED
    BY <1>1, <2>1 DEF D!Look, D!tracker
<1>2. CASE D!Count(w)
  <2>1. Counted' = Counted \cup {w} /\ w \notin Counted
    BY <1>2 DEF D!Count, Counted
  <2>2. Cardinality(Counted') = Cardinality(Counted) + 1
    BY <1>0, <2>1, FS_AddElement
  <2>3. QED
    BY <1>2, <2>2 DEF D!Count
<1>3. CASE D!LookAgain(w)
  <2>1. Counted' = Counted
    BY <1>3 DEF D!LookAgain, Counted, D!tracker
  <2>2. QED
    BY <1>3, <2>1 DEF D!LookAgain, D!tracker
<1>4. CASE D!Uncount(w)
  <2>1. Counted' = Counted \ {w} /\ w \in Counted
    BY <1>4 DEF D!Uncount, Counted
  <2>2. /\ IsFiniteSet(Counted \ {w})
        /\ Cardinality(Counted \ {w}) = Cardinality(Counted) - 1
    BY <1>0, <2>1, FS_RemoveElement
  <2>3. Cardinality(Counted \ {w}) \in Nat
    BY <2>2, FS_CardinalityType
  <2>4. QED
    BY <1>4, <2>1, <2>2, <2>3 DEF D!Uncount
<1>5. CASE D!Notify(w)
  <2>1. Counted' = Counted
    BY <1>5 DEF D!Notify, Counted
  <2>2. QED
    BY <1>5, <2>1 DEF D!Notify
<1>6. CASE D!End(w)
  <2>1. Counted' = Counted
    BY <1>6 DEF D!End, Counted, D!tracker
  <2>2. QED
    BY <1>6, <2>1 DEF D!End, D!tracker
<1>7. QED
  BY <1>1, <1>2, <1>3, <1>4, <1>5, <1>6 DEF D!WorkStep

\* Nobody new is inside while the tracker drains.
LEMMA InsideStep ==
  ASSUME D!TypeOK, NEW w \in Works, D!WorkStep(w) \/ D!End(w), draining
  PROVE  D!Inside' \subseteq D!Inside
BY DEF D!WorkStep, D!Look, D!Count, D!LookAgain, D!Uncount, D!Notify, D!End, D!Inside, D!TypeOK

LEMMA WorkKeepsIDrain ==
  ASSUME IDrain, NEW w \in Works, D!Ask(w) \/ D!WorkStep(w) \/ D!End(w)
  PROVE  IDrain'
<1>1. CASE D!Ask(w)
  <2>1. Counted' = Counted /\ D!Inside' = D!Inside
    BY <1>1 DEF D!Ask, Counted, D!Inside, IDrain, D!TypeOK
  <2>2. D!TypeOK'
    BY <1>1 DEF D!Ask, IDrain, D!TypeOK, D!WorkPoints, D!tracker
  <2>3. QED
    BY <1>1, <2>1, <2>2 DEF D!Ask, IDrain, CountsWork, HeldShut, LoopOwns,
                            D!ReadyIsQuiet, D!tracker
<1>2. CASE D!WorkStep(w) \/ D!End(w)
  <2>1. active' \in Nat /\ CountsWork'
    BY <1>2, CountStep DEF IDrain
  <2>2. UNCHANGED <<draining, changed, drainTask, aborted, owned, loop>>
    BY <1>2 DEF D!WorkStep, D!Look, D!Count, D!LookAgain, D!Uncount, D!Notify, D!End, D!tracker
  <2>3. notified' \in BOOLEAN /\ closing' \subseteq Streams
        /\ work' \in [Works -> D!WorkPoints]
    BY <1>2 DEF IDrain, D!TypeOK, D!WorkPoints, D!WorkStep, D!Look, D!Count, D!LookAgain,
                D!Uncount, D!Notify, D!End, D!tracker
  <2>4. draining => D!Inside' \subseteq D!Inside
    BY <1>2, InsideStep DEF IDrain
  <2>5. D!TypeOK'
    BY <2>1, <2>2, <2>3 DEF IDrain, D!TypeOK
  <2>6. QED
    BY <2>1, <2>2, <2>4, <2>5 DEF IDrain, HeldShut, LoopOwns, D!ReadyIsQuiet
<1>3. QED
  BY <1>1, <1>2

LEMMA OthersKeepIDrain ==
  ASSUME IDrain, UNCHANGED work,
         D!StartUpdate \/ D!TaskStep \/ D!LoopStep \/ D!Reconnect \/ D!Disconnect
  PROVE  IDrain'
<1>1. Counted' = Counted /\ D!Inside' = D!Inside
  BY DEF Counted, D!Inside
<1>2. UNCHANGED active
  BY DEF D!StartUpdate, D!TaskStep, D!Prepare, D!RejectPackage, D!StartDraining,
         D!ReportWaiting, D!Arm, D!Check, D!Poll, D!Wake, D!Fail, D!LoopStep, D!CloseStreams,
         D!CancelPreparation, D!TakeFinished, D!TakeReady, D!Launch, D!LaunchFails, D!Flush,
         D!DropUpdate, D!Reconnect, D!Disconnect, D!SetDraining, D!tracker
<1>3. active = 0 => D!Inside = {}
  <2>1. D!Inside \subseteq Counted
    BY DEF D!Inside, Counted
  <2>2. QED
    BY <2>1, CountedFinite, FS_EmptySet DEF IDrain, CountsWork
<1>4. D!TypeOK'
  <2> USE DEF IDrain, D!TypeOK, D!TaskPoints, D!LoopPoints, D!Report, D!SetDraining, D!tracker
  <2>1. CASE D!StartUpdate  BY <2>1 DEF D!StartUpdate
  <2>2. CASE D!TaskStep
    BY <2>2, ZenonT(60) DEF D!TaskStep, D!Prepare, D!RejectPackage, D!StartDraining, D!ReportWaiting,
                            D!Arm, D!Check, D!Poll, D!Wake, D!Fail
  <2>3. CASE D!LoopStep
    <3>1. CASE D!CloseStreams  BY <3>1 DEF D!CloseStreams
    <3>2. CASE D!CancelPreparation  BY <3>2 DEF D!CancelPreparation
    <3>3. CASE D!TakeFinished \/ D!Flush \/ D!DropUpdate
      BY <3>3 DEF D!TakeFinished, D!Flush, D!DropUpdate, D!Abort
    <3>4. CASE D!TakeReady \/ D!Launch \/ D!LaunchFails
      BY <3>4 DEF D!TakeReady, D!Launch, D!LaunchFails
    <3>5. QED  BY <2>3, <3>1, <3>2, <3>3, <3>4 DEF D!LoopStep
  <2>4. CASE D!Reconnect  BY <2>4 DEF D!Reconnect
  <2>5. CASE D!Disconnect  BY <2>5 DEF D!Disconnect
  <2>6. QED  BY <2>1, <2>2, <2>3, <2>4, <2>5
<1>5. CountsWork'
  BY <1>1, <1>2 DEF IDrain, CountsWork
<1>6. (HeldShut /\ LoopOwns /\ D!ReadyIsQuiet)'
  <2> USE <1>1, <1>3 DEF IDrain, D!TypeOK, HeldShut, LoopOwns, D!ReadyIsQuiet,
                         D!Report, D!SetDraining, D!tracker
  <2>1. CASE D!StartUpdate  BY <2>1 DEF D!StartUpdate, D!LoopFree
  <2>2. CASE D!TaskStep
    <3>1. CASE D!Prepare \/ D!RejectPackage \/ D!ReportWaiting \/ D!Poll \/ D!Wake
      BY <3>1 DEF D!Prepare, D!RejectPackage, D!ReportWaiting, D!Poll, D!Wake
    <3>2. CASE D!StartDraining  BY <3>2 DEF D!StartDraining
    <3>3. CASE D!Arm  BY <3>3 DEF D!Arm
    <3>4. CASE D!Check  BY <3>4 DEF D!Check
    <3>5. CASE D!Fail  BY <3>5 DEF D!Fail
    <3>6. QED  BY <2>2, <3>1, <3>2, <3>3, <3>4, <3>5 DEF D!TaskStep
  <2>3. CASE D!LoopStep
    <3>1. CASE D!CloseStreams  BY <3>1 DEF D!CloseStreams
    <3>2. CASE D!CancelPreparation  BY <3>2 DEF D!CancelPreparation
    <3>3. CASE D!TakeFinished \/ D!Flush \/ D!DropUpdate
      BY <3>3 DEF D!TakeFinished, D!Flush, D!DropUpdate, D!Abort, D!LoopFree
    <3>4. CASE D!TakeReady  BY <3>4 DEF D!TakeReady, D!LoopFree
    <3>5. CASE D!Launch  BY <3>5 DEF D!Launch
    <3>6. CASE D!LaunchFails  BY <3>6 DEF D!LaunchFails
    <3>7. QED  BY <2>3, <3>1, <3>2, <3>3, <3>4, <3>5, <3>6 DEF D!LoopStep
  <2>4. CASE D!Reconnect  BY <2>4 DEF D!Reconnect
  <2>5. CASE D!Disconnect  BY <2>5 DEF D!Disconnect
  <2>6. QED  BY <2>1, <2>2, <2>3, <2>4, <2>5
<1>7. QED
  BY <1>4, <1>5, <1>6 DEF IDrain

LEMMA WorkUnchanged ==
  ASSUME D!StartUpdate \/ D!TaskStep \/ D!LoopStep \/ D!Reconnect \/ D!Disconnect
  PROVE  UNCHANGED work
BY DEF D!StartUpdate, D!TaskStep, D!Prepare, D!RejectPackage, D!StartDraining,
       D!ReportWaiting, D!Arm, D!Check, D!Poll, D!Wake, D!Fail, D!LoopStep, D!CloseStreams,
       D!CancelPreparation, D!TakeFinished, D!TakeReady, D!Launch, D!LaunchFails, D!Flush,
       D!DropUpdate, D!Reconnect, D!Disconnect

\* A fresh process: Init, and the state after Restart.
LEMMA InitIDrain ==
  D!Init => IDrain
<1> SUFFICES ASSUME D!Init PROVE IDrain
  OBVIOUS
<1>1. Counted = {} /\ D!Inside = {}
  BY DEF D!Init, Counted, D!Inside
<1>2. QED
  BY <1>1, FS_EmptySet DEF D!Init, IDrain, D!TypeOK, CountsWork, HeldShut, LoopOwns,
                           D!ReadyIsQuiet, D!WorkPoints, D!TaskPoints, D!LoopPoints

LEMMA RestartIDrain == IDrain /\ D!Restart => IDrain'
<1> SUFFICES ASSUME IDrain, D!Restart PROVE IDrain'
  OBVIOUS
<1>1. Counted' = {} /\ D!Inside' = {}
  BY DEF D!Restart, Counted, D!Inside
<1>2. QED
  BY <1>1, FS_EmptySet DEF D!Restart, IDrain, D!TypeOK, CountsWork, HeldShut, LoopOwns,
                           D!ReadyIsQuiet, D!WorkPoints, D!TaskPoints, D!LoopPoints

LEMMA StepIDrain == IDrain /\ [D!Next]_D!vars => IDrain'
<1> SUFFICES ASSUME IDrain, [D!Next]_D!vars PROVE IDrain'
  OBVIOUS
<1>1. CASE \E w \in Works : D!Ask(w) \/ D!WorkStep(w) \/ D!End(w)
  BY <1>1, WorkKeepsIDrain
<1>2. CASE D!StartUpdate \/ D!TaskStep \/ D!LoopStep \/ D!Reconnect \/ D!Disconnect
  BY <1>2, OthersKeepIDrain, WorkUnchanged
<1>3. CASE D!Restart
  BY <1>3, RestartIDrain
<1>4. CASE UNCHANGED D!vars
  BY <1>4 DEF D!vars, D!tracker, IDrain, D!TypeOK, CountsWork, Counted, HeldShut,
              LoopOwns, D!ReadyIsQuiet, D!Inside
<1>5. QED
  BY <1>1, <1>2, <1>3, <1>4 DEF D!Next

\* The tracker's counter never runs below zero and every variable keeps its type.
THEOREM TypeCorrect ==
  D!Spec => []D!TypeOK
<1>1. IDrain => D!TypeOK
  BY DEF IDrain
<1>2. QED
  BY InitIDrain, StepIDrain, <1>1, PTL DEF D!Spec

\* No work is inside from the return of wait_until_idle to the launch.
THEOREM ReadyStaysQuiet ==
  D!Spec => []D!ReadyIsQuiet
<1>1. IDrain => D!ReadyIsQuiet
  BY DEF IDrain
<1>2. QED
  BY InitIDrain, StepIDrain, <1>1, PTL DEF D!Spec

(***************************************************************************)
(* Every step is a step of the gate, or leaves it alone.                   *)
(***************************************************************************)
LEMMA GateInit == D!Init => D!Gate!Init
BY DEF D!Init, D!Gate!Init, D!Inside

LEMMA GateStep == IDrain /\ [D!Next]_D!vars => [D!Gate!Next]_D!Gate!vars
<1> SUFFICES ASSUME IDrain, [D!Next]_D!vars PROVE [D!Gate!Next]_D!Gate!vars
  OBVIOUS
<1> USE DEF D!Gate!vars, D!Gate!Next
<1>1. ASSUME NEW w \in Works, D!Ask(w) \/ D!Look(w) \/ D!Count(w) \/ D!Uncount(w) \/ D!Notify(w)
      PROVE  UNCHANGED D!Gate!vars
  BY <1>1 DEF D!Ask, D!Look, D!Count, D!Uncount, D!Notify, D!Inside, IDrain, D!TypeOK, D!tracker
<1>2. ASSUME NEW w \in Works, D!LookAgain(w)
      PROVE  [D!Gate!Next]_D!Gate!vars
  <2>1. UNCHANGED <<draining, loop>>
    BY <1>2 DEF D!LookAgain, D!tracker
  <2>2. D!Inside' = IF draining THEN D!Inside ELSE D!Inside \cup {w}
    BY <1>2 DEF D!LookAgain, D!Inside, IDrain, D!TypeOK
  <2>3. CASE draining
    BY <2>1, <2>2, <2>3
  <2>4. CASE ~draining
    BY <2>1, <2>2, <2>4 DEF D!Gate!Enter
  <2>5. QED
    BY <2>3, <2>4
<1>3. ASSUME NEW w \in Works, D!End(w)
      PROVE  [D!Gate!Next]_D!Gate!vars
  <2>1. D!Inside' = D!Inside \ {w} /\ UNCHANGED <<draining, loop>>
    BY <1>3 DEF D!End, D!Inside, IDrain, D!TypeOK, D!tracker
  <2>2. QED
    BY <2>1 DEF D!Gate!Leave
<1>4. CASE D!StartUpdate \/ D!Prepare \/ D!RejectPackage \/ D!ReportWaiting \/ D!Arm \/ D!Check
           \/ D!Poll \/ D!Wake \/ D!CloseStreams \/ D!TakeFinished \/ D!TakeReady \/ D!Flush
           \/ D!DropUpdate \/ D!Reconnect \/ D!Disconnect
  <2>1. UNCHANGED work
    BY <1>4, WorkUnchanged DEF D!TaskStep, D!LoopStep
  <2>2. D!Inside' = D!Inside
    BY <2>1 DEF D!Inside
  <2>3. UNCHANGED draining
    BY <1>4 DEF D!StartUpdate, D!Prepare, D!RejectPackage, D!ReportWaiting, D!Arm, D!Check,
                D!Poll, D!Wake, D!CloseStreams, D!TakeFinished, D!TakeReady, D!Flush,
                D!DropUpdate, D!Reconnect, D!Disconnect, D!tracker
  <2>4. loop' \in {"flushing", "quitting", "exiting"}
        <=> loop \in {"flushing", "quitting", "exiting"}
    BY <1>4 DEF D!StartUpdate, D!Prepare, D!RejectPackage, D!ReportWaiting, D!Arm, D!Check,
                D!Poll, D!Wake, D!CloseStreams, D!TakeFinished, D!TakeReady, D!Flush,
                D!DropUpdate, D!Reconnect, D!Disconnect, D!LoopFree
  <2>5. QED
    BY <2>2, <2>3, <2>4
<1>5. CASE D!StartDraining
  <2>1. D!Inside' = D!Inside /\ UNCHANGED loop /\ draining' = TRUE
    BY <1>5 DEF D!StartDraining, D!SetDraining, D!Inside
  <2>2. QED
    BY <2>1 DEF D!Gate!Shut
<1>6. CASE D!Fail \/ D!CancelPreparation \/ D!LaunchFails
  <2>1. D!Inside' = D!Inside /\ draining' = FALSE
    BY <1>6 DEF D!Fail, D!CancelPreparation, D!LaunchFails, D!SetDraining, D!Inside
  <2>2. loop' \in {"flushing", "quitting", "exiting"}
        <=> loop \in {"flushing", "quitting", "exiting"}
    BY <1>6 DEF D!Fail, D!CancelPreparation, D!LaunchFails, IDrain, D!TypeOK, D!LoopPoints
  <2>3. QED
    BY <2>1, <2>2 DEF D!Gate!Open
<1>7. CASE D!Launch
  <2>1. draining /\ D!Inside = {} /\ loop = "launching"
    BY <1>7 DEF D!Launch, IDrain, D!ReadyIsQuiet
  <2>2. loop' = "flushing" /\ D!Inside' = D!Inside /\ UNCHANGED draining
    BY <1>7 DEF D!Launch, D!Inside, D!tracker
  <2>3. QED
    BY <2>1, <2>2 DEF D!Gate!Launch
<1>8. CASE D!Restart
  <2>1. D!Inside' = {} /\ draining' = FALSE /\ loop' = "offline"
    BY <1>8 DEF D!Restart, D!Inside
  <2>2. QED
    BY <2>1 DEF D!Gate!Restart
<1>9. CASE UNCHANGED D!vars
  BY <1>9 DEF D!vars, D!tracker, D!Inside
<1>10. QED
  BY <1>1, <1>2, <1>3, <1>4, <1>5, <1>6, <1>7, <1>8, <1>9
     DEF D!Next, D!WorkStep, D!TaskStep, D!LoopStep

\* The tracker, its users and the drop of an update implement the gate.
THEOREM GateImplemented ==
  D!Spec => ImplementsGate
<1>1. QED
  BY InitIDrain, StepIDrain, GateInit, GateStep, PTL
     DEF D!Spec, ImplementsGate, D!ImplementsGate, D!Gate!Spec

(***************************************************************************)
(* The behaviours of the composition are behaviours of both halves, so the *)
(* theorems above hold of it.                                              *)
(***************************************************************************)
THEOREM HalvesStayWhole == UpdateSpec => Spec /\ D!Spec
<1>1. Begun => Init /\ D!Init
  BY DEF Begun
<1>2. [Moves]_<<part, vars, drainVars>> => [Next]_vars /\ [D!Next]_D!vars
  BY DEF Moves, drainVars, D!vars, D!tracker
<1>3. QED  BY <1>1, <1>2, PTL DEF UpdateSpec, Spec, D!Spec
=============================================================================
