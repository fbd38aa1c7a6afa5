---------------------------- MODULE AlertDelivery ----------------------------
(***************************************************************************)
(* The notification queue of the backend (backend/src/alerts.rs): alert    *)
(* events put deliveries for one notification channel into the table       *)
(* alert_deliveries, and DELIVERY_WORKER_COUNT workers claim them under a  *)
(* lease, recheck suppression, send and record the outcome, while          *)
(* administrators acknowledge, resolve, retry, and close the channel.      *)
(*                                                                         *)
(* A statement or a transaction whose rows are locked is one step.  The    *)
(* claim is two: its candidates come from the snapshot of the statement,   *)
(* and only the row it locks is checked again.  The order of deliveries is *)
(* that of created_at, the clock a request read before its transaction.    *)
(* Delays, leases and the cooldown end at any time.                        *)
(*                                                                         *)
(* One slot of `delivery' stands for the rows of one event and kind: a     *)
(* suppressed row stays in the table beside the one that follows it.       *)
(*                                                                         *)
(* An operator that stands directly before another one of the same name    *)
(* with a suffix removed is a faulty variant of it; the README lists the   *)
(* property each of them breaks.                                           *)
(***************************************************************************)
EXTENDS Integers, FiniteSets

CONSTANTS
  Events,         \* alert events that use the channel
  Tests,          \* test notifications of the channel
  Workers,        \* notification workers
  NoOne,          \* no lease token
  NoRow,          \* a worker that looks at no delivery
  Email,          \* the channel is an SMTP one
  MaxAttempts,    \* attempts of one cycle: one more than the retry delays
  MaxClock,       \* bound on the clock, in seconds that matter
  MaxRetries,     \* bound on manual retries
  MaxFaults       \* bound on lost claims, failed checks and overrun leases

ASSUME ChannelAssumption == Email \in BOOLEAN
ASSUME AttemptsAssumption == MaxAttempts \in Nat \ {0}
ASSUME BoundsAssumption ==
  MaxClock \in Nat /\ MaxRetries \in Nat /\ MaxFaults \in Nat
ASSUME WorkersAssumption == NoOne \notin Workers

Lifecycle  == {"firing", "acknowledged", "resolved"}
Deliveries == (Events \X Lifecycle) \cup (Tests \X {"test"})

ASSUME DeliveriesAssumption ==
  NoRow \notin Deliveries /\ Events \cap Tests = {}

VARIABLES
  event,          \* alert_events.status
  fired,          \* the clock when the event was stored
  seen,           \* last_sample_at of its rule and node
  quiet,          \* a maintenance window or an offline event covers it
  channel,        \* alert_webhook_channels: enabled, deleted_at
  cooldown,       \* delivery_cooldown_until lies ahead
  delivery,       \* alert_deliveries
  retries,        \* manual_retry_count, of all deliveries together
  job,            \* what each worker is doing
  clock,          \* now_ts()
  faults,         \* bounded faults so far
  reached         \* the latest stage of an event that was sent (history)

events == <<event, fired, seen, quiet>>
vars   == <<events, channel, cooldown, delivery, retries, job, clock, faults,
            reached>>

EventStates == {"none", "firing", "acknowledged", "resolved"}
Finished    == {"succeeded", "failed", "suppressed"}
Statuses    == {"absent", "pending", "processing"} \cup Finished
Points      == {"idle", "looked", "claimed", "muted", "cleared", "sending",
                "sent", "refused", "deferred"}
Times       == 0 .. MaxClock

\* Taken, refused, or put off by a timeout or a transient SMTP error.
Outcomes    == {"sent", "refused"} \cup IF Email THEN {"deferred"} ELSE {}

Row == [status : Statuses, created : Times, cycle : 0 .. MaxAttempts + MaxFaults,
        due : BOOLEAN, live : BOOLEAN, holder : Workers \cup {NoOne}]

Absent == [status |-> "absent", created |-> 0, cycle |-> 0, due |-> FALSE,
           live |-> FALSE, holder |-> NoOne]
Idle   == [at |-> "idle", row |-> NoRow]

Init ==
  /\ event = [e \in Events |-> "none"]
  /\ fired = [e \in Events |-> 0] /\ seen = [e \in Events |-> 0]
  /\ quiet = FALSE
  /\ channel = "on" /\ cooldown = FALSE
  /\ delivery = [d \in Deliveries |-> Absent]
  /\ retries = 0
  /\ job = [w \in Workers |-> Idle]
  /\ clock = 0 /\ faults = 0
  /\ reached = [e \in Events |-> 0]

Open(e) == event[e] \in {"firing", "acknowledged"}

\* A row that is inserted, put back into the queue, or finished.  What only a
\* retry reads again is kept for a failed one alone.
Queued(t) == [Absent EXCEPT !.status = "pending", !.created = t, !.due = TRUE]

Back(row) == [row EXCEPT !.status = "pending", !.due = FALSE, !.live = FALSE,
                         !.holder = NoOne]

Done(row, s) == [Absent EXCEPT !.status = s,
                   !.created = IF s = "failed" THEN row.created ELSE 0]

--------------------------------------------------------------------------------
(* Events put deliveries into the queue.                                       *)

\* Recorded as suppressed once, and then never inserted again.
EnqueueOnce(rows, e, kind, t, suppressed) ==
  IF \/ channel # "on"
     \/ rows[<<e, kind>>].status # "absent"
  THEN rows
  ELSE [rows EXCEPT ![<<e, kind>>] =
          IF suppressed THEN Done(Queued(t), "suppressed") ELSE Queued(t)]

\* enqueue_event_lifecycle_tx for the one channel, with the unique index of
\* insert_delivery_tx: nothing beside an unsuppressed delivery of this kind, and
\* a suppressed one only where none was recorded.
Enqueue(rows, e, kind, t, suppressed) ==
  IF \/ channel # "on"
     \/ rows[<<e, kind>>].status \notin {"absent", "suppressed"}
     \/ suppressed /\ rows[<<e, kind>>].status = "suppressed"
  THEN rows
  ELSE [rows EXCEPT ![<<e, kind>>] =
          IF suppressed THEN Done(Queued(t), "suppressed") ELSE Queued(t)]

\* An abnormal sample that was taken at t, read before the transaction, fires
\* the alert or finds its event open and queues the first report again.
Abnormal(e, t) ==
  /\ event[e] # "resolved" /\ t \in seen[e] .. clock
  /\ event' = [event EXCEPT ![e] = IF @ = "none" THEN "firing" ELSE @]
  /\ fired' = [fired EXCEPT ![e] = IF event[e] = "none" THEN clock ELSE @]
  /\ seen'  = [seen EXCEPT ![e] = t]
  /\ delivery' = Enqueue(delivery, e, "firing", t, quiet)
  /\ UNCHANGED <<quiet, channel, cooldown, retries, job, clock, faults, reached>>

\* acknowledge_event: the request saw the event, then read the clock, then
\* locked the event.
Acknowledge(e, t) ==
  /\ event[e] = "firing" /\ t \in fired[e] .. clock
  /\ event' = [event EXCEPT ![e] = "acknowledged"]
  /\ delivery' = Enqueue(delivery, e, "acknowledged", t, FALSE)
  /\ UNCHANGED <<fired, seen, quiet, channel, cooldown, retries, job, clock,
                 faults, reached>>

\* resolve_event_tx, for a normal sample, a rule that was changed, disabled or
\* deleted, or an instance that was disabled or deleted: each read the clock
\* before its transaction.  A later alert is another event, so what only this
\* one's requests read is forgotten.
Resolve(e, t) ==
  /\ Open(e) /\ t \in 0 .. clock
  /\ event' = [event EXCEPT ![e] = "resolved"]
  /\ LET firing == <<e, "firing">>
         rows == IF delivery[firing].status = "pending"
                 THEN [delivery EXCEPT ![firing] = Done(@, "suppressed")]
                 ELSE delivery
     IN  delivery' = Enqueue(rows, e, "resolved", t, FALSE)
  /\ fired' = [fired EXCEPT ![e] = 0] /\ seen' = [seen EXCEPT ![e] = 0]
  /\ UNCHANGED <<quiet, channel, cooldown, retries, job, clock, faults, reached>>

\* A maintenance window or an offline event begins or ends.
Hush ==
  /\ quiet' = ~quiet
  /\ UNCHANGED <<event, fired, seen, channel, cooldown, delivery, retries, job,
                 clock, faults, reached>>

\* test_channel
Test(x) ==
  /\ channel = "on" /\ delivery[<<x, "test">>].status = "absent"
  /\ delivery' = [delivery EXCEPT ![<<x, "test">>] = Queued(clock)]
  /\ UNCHANGED <<events, channel, cooldown, retries, job, clock, faults, reached>>

--------------------------------------------------------------------------------
(* Administrators close the channel and retry deliveries.                      *)

FailPending == [d \in Deliveries |->
  IF delivery[d].status = "pending" THEN Done(delivery[d], "failed")
  ELSE delivery[d]]

\* update_channel
SetChannel(enabled) ==
  /\ channel # "deleted"
  /\ channel' = IF enabled THEN "on" ELSE "off"
  /\ delivery' = IF enabled THEN delivery ELSE FailPending
  /\ UNCHANGED <<events, cooldown, retries, job, clock, faults, reached>>

\* delete_channel
DeleteChannel ==
  /\ channel # "deleted" /\ channel' = "deleted"
  /\ delivery' = FailPending
  /\ UNCHANGED <<events, cooldown, retries, job, clock, faults, reached>>

\* lifecycle_has_advanced
Advanced(d) ==
  \/ d[2] = "firing" /\ event[d[1]] \in {"acknowledged", "resolved"}
  \/ d[2] = "acknowledged" /\ event[d[1]] = "resolved"

\* reset_failed_delivery_tx
Retry(d) ==
  /\ delivery[d].status = "failed" /\ ~Advanced(d) /\ channel = "on"
  /\ retries < MaxRetries /\ retries' = retries + 1
  /\ delivery' = [delivery EXCEPT
       ![d] = [Back(@) EXCEPT !.cycle = 0, !.due = TRUE]]
  /\ UNCHANGED <<events, channel, cooldown, job, clock, faults, reached>>

--------------------------------------------------------------------------------
(* A worker: claim_delivery ... finish_delivery_attempt.                       *)

ReadyForever(d) == delivery[d].status = "pending" /\ delivery[d].due

\* Due, or left by a worker whose lease is over.
Ready(d) ==
  \/ delivery[d].status = "pending" /\ delivery[d].due
  \/ delivery[d].status = "processing" /\ ~delivery[d].live

\* Another delivery of the channel is being sent.
InFlight(d) ==
  \E o \in Deliveries \ {d} :
     delivery[o].status = "processing" /\ delivery[o].live

Rank == [firing |-> 1, acknowledged |-> 2, resolved |-> 3]

\* An unfinished delivery of the same event comes first.
Preceded(d) ==
  /\ d[1] \in Events
  /\ \E kind \in Lifecycle \ {d[2]} :
       LET o == <<d[1], kind>>
       IN  /\ delivery[o].status \in {"pending", "processing"}
           /\ \/ delivery[o].created < delivery[d].created
              \/ /\ delivery[o].created = delivery[d].created
                 /\ Rank[kind] < Rank[d[2]]

\* The snapshot of claim_delivery.  Which candidate its ORDER BY puts first is
\* left open.
Look(w, d) ==
  /\ job[w] = Idle
  /\ Ready(d) /\ ~cooldown /\ ~InFlight(d) /\ ~Preceded(d)
  /\ job' = [job EXCEPT ![w] = [at |-> "looked", row |-> d]]
  /\ UNCHANGED <<events, channel, cooldown, delivery, retries, clock, faults,
                 reached>>

\* FOR UPDATE OF queued, c SKIP LOCKED: the row and its channel are checked as
\* they are now, the other rows are not.
Take(w, d) ==
  /\ job[w] = [at |-> "looked", row |-> d]
  /\ Ready(d) /\ ~cooldown
  /\ job' = [job EXCEPT ![w].at = "claimed"]
  /\ delivery' = [delivery EXCEPT ![d] =
       [@ EXCEPT !.status = "processing", !.due = FALSE, !.live = TRUE,
                 !.holder = w]]
  /\ UNCHANGED <<events, channel, cooldown, retries, clock, faults, reached>>

\* The row or the channel changed, or another transaction holds its lock.
Miss(w) ==
  /\ job[w].at = "looked"
  /\ job' = [job EXCEPT ![w] = Idle]
  /\ UNCHANGED <<events, channel, cooldown, delivery, retries, clock, faults,
                 reached>>

\* The row still carries the lease token of this worker.
HoldsStatusOnly(w) == delivery[job[w].row].status = "processing"

Holds(w) ==
  /\ delivery[job[w].row].status = "processing"
  /\ delivery[job[w].row].holder = w

\* current_delivery_suppression
SuppressedUnread(d) == d[2] = "firing" /\ quiet

Suppressed(d) ==
  d[2] = "firing" /\ (event[d[1]] = "resolved" \/ quiet)

Recheck(w) ==
  /\ job[w].at = "claimed"
  /\ job' = [job EXCEPT ![w].at =
               IF Suppressed(job[w].row) THEN "muted" ELSE "cleared"]
  /\ UNCHANGED <<events, channel, cooldown, delivery, retries, clock, faults,
                 reached>>

\* mark_delivery_suppressed
MarkSuppressed(w) ==
  /\ job[w].at = "muted"
  /\ job' = [job EXCEPT ![w] = Idle]
  /\ delivery' = IF Holds(w)
                 THEN [delivery EXCEPT ![job[w].row] = Done(@, "suppressed")]
                 ELSE delivery
  /\ UNCHANGED <<events, channel, cooldown, retries, clock, faults, reached>>

\* The recheck fails: release_delivery_claim, due in a second.
Release(w) ==
  /\ job[w].at = "claimed" /\ job[w].row[2] = "firing" /\ faults < MaxFaults
  /\ faults' = faults + 1
  /\ job' = [job EXCEPT ![w] = Idle]
  /\ delivery' = IF Holds(w)
                 THEN [delivery EXCEPT ![job[w].row] = Back(@)]
                 ELSE delivery
  /\ UNCHANGED <<events, channel, cooldown, retries, clock, reached>>

\* start_delivery_attempt
Start(w) ==
  /\ job[w].at = "cleared"
  /\ IF Holds(w) /\ delivery[job[w].row].live
     THEN /\ job' = [job EXCEPT ![w].at = "sending"]
          /\ delivery' = [delivery EXCEPT ![job[w].row].cycle = @ + 1]
     ELSE /\ job' = [job EXCEPT ![w] = Idle]
          /\ delivery' = delivery
  /\ UNCHANGED <<events, channel, cooldown, retries, clock, faults, reached>>

\* send_webhook: what comes back need not be what the receiver saw.
Send(w, outcome) ==
  /\ job[w].at = "sending" /\ channel = "on"
  /\ outcome \in Outcomes
  /\ job' = [job EXCEPT ![w].at = outcome]
  /\ LET d == job[w].row
     IN  reached' = IF d[1] \in Events /\ reached[d[1]] < Rank[d[2]]
                    THEN [reached EXCEPT ![d[1]] = Rank[d[2]]]
                    ELSE reached
  /\ UNCHANGED <<events, channel, cooldown, delivery, retries, clock, faults>>

\* send_webhook finds the channel disabled or deleted.
SendClosed(w) ==
  /\ job[w].at = "sending" /\ channel # "on"
  /\ job' = [job EXCEPT ![w].at = "refused"]
  /\ UNCHANGED <<events, channel, cooldown, delivery, retries, clock, faults,
                 reached>>

\* retry_delay_after
HasRetryOneMore(cycle) == cycle \in 1 .. MaxAttempts

HasRetry(cycle) == cycle \in 1 .. MaxAttempts - 1

\* The row of finish_delivery_attempt for each outcome.
Recorded(w) ==
  LET d == job[w].row
      row == delivery[d]
  IN  IF job[w].at = "sent" THEN Done(row, "succeeded")
      ELSE IF d[2] = "firing" /\ event[d[1]] = "resolved"
           THEN Done(row, "suppressed")
      ELSE IF channel # "on" \/ ~HasRetry(row.cycle) THEN Done(row, "failed")
      ELSE Back(row)

\* finish_delivery_attempt.  A transient error of the mail server cools the
\* channel down and puts off everything that waits for it.
Finish(w) ==
  /\ job[w].at \in {"sent", "refused", "deferred"}
  /\ job' = [job EXCEPT ![w] = Idle]
  /\ LET cools == job[w].at = "deferred" /\ channel # "deleted"
     IN  IF Holds(w)
         THEN /\ cooldown' = (cooldown \/ cools)
              /\ delivery' = [d \in Deliveries |->
                   IF d = job[w].row THEN Recorded(w)
                   ELSE IF cools /\ delivery[d].status = "pending"
                        THEN [delivery[d] EXCEPT !.due = FALSE]
                        ELSE delivery[d]]
         ELSE UNCHANGED <<cooldown, delivery>>
  /\ UNCHANGED <<events, channel, retries, clock, faults, reached>>

\* The process restarts, the worker panics, or the database refuses a
\* statement: the row keeps its lease.
Abandon(w) ==
  /\ job[w].at \notin {"idle", "looked"} /\ faults < MaxFaults
  /\ faults' = faults + 1
  /\ job' = [job EXCEPT ![w] = Idle]
  /\ UNCHANGED <<events, channel, cooldown, delivery, retries, clock, reached>>

--------------------------------------------------------------------------------
(* Time.                                                                       *)

Tick ==
  /\ clock < MaxClock /\ clock' = clock + 1
  /\ UNCHANGED <<events, channel, cooldown, delivery, retries, job, faults, reached>>

\* next_attempt_at is reached.
BecomesDue(d) ==
  /\ delivery[d].status = "pending" /\ ~delivery[d].due
  /\ delivery' = [delivery EXCEPT ![d].due = TRUE]
  /\ UNCHANGED <<events, channel, cooldown, retries, job, clock, faults, reached>>

\* delivery_cooldown_until is reached.
CooldownEnds ==
  /\ cooldown /\ cooldown' = FALSE
  /\ UNCHANGED <<events, channel, delivery, retries, job, clock, faults, reached>>

WorksOn(w, d) == job[w].row = d /\ job[w].at \notin {"idle", "looked"}

\* DELIVERY_LEASE_SECONDS after the claim nobody works on.
LeaseEnds(d) ==
  /\ delivery[d].status = "processing" /\ delivery[d].live
  /\ ~ \E w \in Workers : delivery[d].holder = w /\ WorksOn(w, d)
  /\ delivery' = [delivery EXCEPT ![d].live = FALSE]
  /\ UNCHANGED <<events, channel, cooldown, retries, job, clock, faults, reached>>

\* The worker is stalled for longer than its lease.
LeaseOverrun(d) ==
  /\ delivery[d].status = "processing" /\ delivery[d].live
  /\ \E w \in Workers : delivery[d].holder = w /\ WorksOn(w, d)
  /\ faults < MaxFaults /\ faults' = faults + 1
  /\ delivery' = [delivery EXCEPT ![d].live = FALSE]
  /\ UNCHANGED <<events, channel, cooldown, retries, job, clock, reached>>

--------------------------------------------------------------------------------
EventStep ==
  \/ \E e \in Events, t \in Times :
       Abnormal(e, t) \/ Acknowledge(e, t) \/ Resolve(e, t)
  \/ Hush
  \/ \E x \in Tests : Test(x)

AdminStep ==
  \/ \E enabled \in BOOLEAN : SetChannel(enabled)
  \/ DeleteChannel
  \/ \E d \in Deliveries : Retry(d)

Progress(w) ==
  \/ Miss(w) \/ Recheck(w) \/ MarkSuppressed(w) \/ Start(w)
  \/ \E outcome \in Outcomes : Send(w, outcome)
  \/ SendClosed(w) \/ Finish(w)

WorkerStep(w) ==
  \/ \E d \in Deliveries : Look(w, d) \/ Take(w, d)
  \/ Progress(w) \/ Release(w) \/ Abandon(w)

TimeStep ==
  \/ Tick \/ CooldownEnds
  \/ \E d \in Deliveries : BecomesDue(d) \/ LeaseEnds(d) \/ LeaseOverrun(d)

Next ==
  \/ EventStep
  \/ AdminStep
  \/ \E w \in Workers : WorkerStep(w)
  \/ TimeStep

Spec == Init /\ [][Next]_vars

(***************************************************************************)
(* Workers take every step they can; the claim serves the delivery that    *)
(* waits longest, and its window from snapshot to lock is not missed for   *)
(* ever; delays, leases and cooldowns end; an alert that is not resolved   *)
(* is observed again.                                                      *)
(* Faults are bounded: nothing settles under a restart without end.        *)
(***************************************************************************)
Fairness ==
  /\ \A w \in Workers : WF_vars(Progress(w))
  /\ \A d \in Deliveries :
       /\ SF_vars(\E w \in Workers : Look(w, d))
       /\ SF_vars(\E w \in Workers : Take(w, d))
  /\ WF_vars(CooldownEnds \/ \E d \in Deliveries : BecomesDue(d) \/ LeaseEnds(d))
  /\ WF_vars(\E e \in Events, t \in Times : Abnormal(e, t))

FairSpec == Spec /\ Fairness

--------------------------------------------------------------------------------
(* Properties                                                                  *)

\* The tables and the workers have the shape the code gives them; in particular
\* a delivery carries a lease token exactly while it is processing, and a lease
\* that runs implies the token.
TypeOK ==
  /\ event \in [Events -> EventStates]
  /\ fired \in [Events -> Times] /\ seen \in [Events -> Times]
  /\ quiet \in BOOLEAN
  /\ channel \in {"on", "off", "deleted"} /\ cooldown \in BOOLEAN
  /\ delivery \in [Deliveries -> Row]
  /\ retries \in 0 .. MaxRetries
  /\ job \in [Workers -> [at : Points, row : Deliveries \cup {NoRow}]]
  /\ clock \in Times /\ faults \in 0 .. MaxFaults
  /\ reached \in [Events -> 0 .. 3]
  /\ \A d \in Deliveries :
       /\ delivery[d].status = "processing" <=> delivery[d].holder # NoOne
       /\ delivery[d].live => delivery[d].status = "processing"
       /\ delivery[d].due => delivery[d].status = "pending"
  /\ \A w \in Workers : job[w].at = "idle" <=> job[w].row = NoRow

\* A worker whose lease is over overwrites nothing (README.md:685).  A finished
\* delivery stays as it is: only a manual retry reopens a failed one, and only a
\* new first report of an open event takes the place of a suppressed one.  What
\* is being sent is ended by the worker whose token it carries, or is claimed
\* again after its lease.
FencedResults ==
  [][\A d \in Deliveries :
       /\ delivery[d].status \in Finished /\ delivery'[d] # delivery[d] =>
            /\ delivery'[d].status = "pending" /\ delivery'[d].cycle = 0
            /\ \/ delivery[d].status = "failed" /\ retries' = retries + 1
               \/ /\ delivery[d].status = "suppressed" /\ d[2] = "firing"
                  /\ event[d[1]] # "resolved"
       /\ /\ delivery[d].status = "processing"
          /\ delivery'[d].holder # delivery[d].holder
          => \/ ~delivery[d].live /\ delivery'[d].status = "processing"
             \/ \E w \in Workers : /\ delivery[d].holder = w /\ WorksOn(w, d)
                                   /\ job'[w] = Idle]_vars

\* The worker sends this delivery in this step, and its lease runs.
SendsUnderLease(w, d) ==
  /\ job[w] = [at |-> "sending", row |-> d]
  /\ channel = "on" /\ job'[w].at \in Outcomes
  /\ Holds(w) /\ delivery[d].live

\* No first report of an alert leaves, under a lease that runs, once a notice of
\* its recovery has left: the claim, the recheck and the suppression on resolve
\* see to it although created_at may order the two the other way round.
RecoveryIsLast ==
  [][\A w \in Workers, e \in Events :
       SendsUnderLease(w, <<e, "firing">>) => reached[e] < Rank["resolved"]]_vars

\* A cycle has the attempts of its schedule and no more, but for those whose
\* outcome was never recorded.
AttemptBudget ==
  \A d \in Deliveries : delivery[d].cycle <= MaxAttempts + faults

\* Every delivery that is queued or claimed is finished some day, through
\* restarts, lost claims, overrun leases, cooldowns and a closed channel, once
\* maintenance windows no longer come and go.
Settles ==
  <>[][FALSE]_quiet =>
    \A d \in Deliveries :
      delivery[d].status \in {"pending", "processing"}
        ~> delivery[d].status \in Finished

\* An alert that stays open, unsuppressed and with an enabled channel is not
\* left with a first report that a maintenance window swallowed.
FirstReportReturns ==
  \A e \in Events :
    Open(e) ~> \/ ~Open(e) \/ quiet \/ channel # "on"
               \/ delivery[<<e, "firing">>].status \notin {"absent", "suppressed"}

=============================================================================
