------------------------ MODULE AlertDeliveryProofs -------------------------
(***************************************************************************)
(* Theorems about AlertDelivery, for any events, tests, workers and        *)
(* bounds: the tables keep their shape, a cycle keeps to its attempts, a   *)
(* worker whose lease is over overwrites nothing, and the notice of a      *)
(* recovery is the last one.                                               *)
(***************************************************************************)
EXTENDS AlertDelivery, TLAPS

-----------------------------------------------------------------------------
(***************************************************************************)
(* Rows: the token is there exactly while a delivery is processing.        *)
(***************************************************************************)
Shaped(row) ==
  /\ row \in Row
  /\ row.status = "processing" <=> row.holder # NoOne
  /\ row.live => row.status = "processing"
  /\ row.due => row.status = "pending"

Rows == {rows \in [Deliveries -> Row] : \A d \in Deliveries : Shaped(rows[d])}

\* Inserting, finishing and putting back give rows of that shape.
LEMMA QueuedShape ==
  ASSUME NEW t \in Times
  PROVE  Shaped(Queued(t)) /\ Queued(t).cycle = 0 /\ Queued(t).status = "pending"
<1>1. 0 \in 0 .. MaxAttempts + MaxFaults
  BY AttemptsAssumption, BoundsAssumption
<1> QED BY <1>1, WorkersAssumption DEF Shaped, Row, Queued, Absent, Statuses

LEMMA DoneShape ==
  ASSUME NEW row, row.created \in Times, NEW s \in Finished
  PROVE  Shaped(Done(row, s)) /\ Done(row, s).cycle = 0 /\ Done(row, s).status = s
<1>1. 0 \in 0 .. MaxAttempts + MaxFaults /\ 0 \in Times
  BY AttemptsAssumption, BoundsAssumption DEF Times
<1> QED BY <1>1, WorkersAssumption DEF Shaped, Row, Done, Absent, Statuses, Finished

LEMMA BackShape ==
  ASSUME NEW row \in Row
  PROVE  Shaped(Back(row)) /\ Back(row).status = "pending" /\ Back(row).cycle = row.cycle
BY WorkersAssumption DEF Shaped, Row, Back, Statuses

\* enqueue_event_lifecycle_tx changes at most the delivery of its event and
\* kind, and only where there was none or a suppressed one.
LEMMA EnqueueRows ==
  ASSUME NEW rows \in Rows, NEW e \in Events, NEW kind \in Lifecycle,
         NEW t \in Times, NEW b \in BOOLEAN
  PROVE  /\ Enqueue(rows, e, kind, t, b) \in Rows
         /\ \A d \in Deliveries :
              Enqueue(rows, e, kind, t, b)[d] # rows[d] =>
                /\ d = <<e, kind>>
                /\ rows[d].status \in {"absent", "suppressed"}
                /\ Enqueue(rows, e, kind, t, b)[d].cycle = 0
                /\ \/ Enqueue(rows, e, kind, t, b)[d].status = "pending"
                   \/ /\ b /\ rows[d].status = "absent"
                      /\ Enqueue(rows, e, kind, t, b)[d].status = "suppressed"
<1> DEFINE d0 == <<e, kind>>
           new == IF b THEN Done(Queued(t), "suppressed") ELSE Queued(t)
<1>1. d0 \in Deliveries
  BY DEF Deliveries
<1>2. Queued(t).created \in Times
  BY QueuedShape DEF Shaped, Row
<1>3. /\ Shaped(new) /\ new.cycle = 0
      /\ new.status = IF b THEN "suppressed" ELSE "pending"
  BY <1>2, QueuedShape, DoneShape DEF Finished
<1>4. CASE Enqueue(rows, e, kind, t, b) = rows
  BY <1>4
<1>5. CASE /\ channel = "on"
           /\ rows[d0].status \in {"absent", "suppressed"}
           /\ ~(b /\ rows[d0].status = "suppressed")
  <2>1. Enqueue(rows, e, kind, t, b) = [rows EXCEPT ![d0] = new]
    BY <1>5 DEF Enqueue
  <2> HIDE DEF new
  <2>2. [rows EXCEPT ![d0] = new] \in Rows
    BY <1>1, <1>3 DEF Rows, Shaped
  <2> QED BY <1>1, <1>3, <1>5, <2>1, <2>2 DEF Rows
<1> QED BY <1>4, <1>5 DEF Enqueue

\* In particular for the notices that are never suppressed.
LEMMA EnqueueFresh ==
  ASSUME NEW rows \in Rows, NEW e \in Events, NEW kind \in Lifecycle,
         NEW t \in Times, NEW d \in Deliveries
  PROVE  \/ Enqueue(rows, e, kind, t, FALSE)[d] = rows[d]
         \/ /\ d = <<e, kind>>
            /\ rows[d].status \in {"absent", "suppressed"}
            /\ Enqueue(rows, e, kind, t, FALSE)[d].cycle = 0
            /\ Enqueue(rows, e, kind, t, FALSE)[d].status = "pending"
<1>1. \A b \in BOOLEAN :
        \/ Enqueue(rows, e, kind, t, b)[d] = rows[d]
        \/ /\ d = <<e, kind>>
           /\ rows[d].status \in {"absent", "suppressed"}
           /\ Enqueue(rows, e, kind, t, b)[d].cycle = 0
           /\ b \/ Enqueue(rows, e, kind, t, b)[d].status = "pending"
  BY EnqueueRows
<1>2. FALSE \in BOOLEAN
  OBVIOUS
<1> QED BY <1>1, <1>2, Zenon

LEMMA SetRow ==
  ASSUME NEW rows \in Rows, NEW d \in Deliveries, NEW new, Shaped(new)
  PROVE  [rows EXCEPT ![d] = new] \in Rows
BY DEF Rows, Shaped

-----------------------------------------------------------------------------
(***************************************************************************)
(* Type correctness, in two parts: the rows, and all else.                 *)
(***************************************************************************)
RestOK ==
  /\ event \in [Events -> EventStates]
  /\ fired \in [Events -> Times] /\ seen \in [Events -> Times]
  /\ quiet \in BOOLEAN
  /\ channel \in {"on", "off", "deleted"} /\ cooldown \in BOOLEAN
  /\ retries \in 0 .. MaxRetries
  /\ job \in [Workers -> [at : Points, row : Deliveries \cup {NoRow}]]
  /\ clock \in Times /\ faults \in 0 .. MaxFaults
  /\ reached \in [Events -> 0 .. 3]
  /\ \A w \in Workers : job[w].at = "idle" <=> job[w].row = NoRow

LEMMA TypeParts == TypeOK <=> delivery \in Rows /\ RestOK
BY DEF TypeOK, Rows, RestOK, Shaped

LEMMA RowsOf ==
  ASSUME delivery \in Rows, NEW d \in Deliveries
  PROVE  Shaped(delivery[d]) /\ delivery[d] \in Row /\ delivery[d].created \in Times
BY DEF Rows, Shaped, Row

\* What the events put into the queue.
LEMMA EventRows ==
  ASSUME TypeOK, EventStep
  PROVE  delivery' \in Rows
<1> USE TypeParts
<1>1. ASSUME NEW e \in Events, NEW t \in Times, Abnormal(e, t)
      PROVE  delivery' \in Rows
  BY <1>1, EnqueueRows DEF Abnormal, RestOK, Lifecycle
<1>2. ASSUME NEW e \in Events, NEW t \in Times, Acknowledge(e, t)
      PROVE  delivery' \in Rows
  BY <1>2, EnqueueRows DEF Acknowledge, Lifecycle
<1>3. ASSUME NEW e \in Events, NEW t \in Times, Resolve(e, t)
      PROVE  delivery' \in Rows
  <2> DEFINE firing == <<e, "firing">>
             new == Done(delivery[firing], "suppressed")
             rows == IF delivery[firing].status = "pending"
                     THEN [delivery EXCEPT ![firing] = new]
                     ELSE delivery
  <2>1. firing \in Deliveries
    BY DEF Deliveries, Lifecycle
  <2>2. Shaped(new)
    BY <2>1, RowsOf, DoneShape DEF Finished
  <2>3. rows \in Rows
    BY <2>1, <2>2, SetRow
  <2>4. delivery' = Enqueue(rows, e, "resolved", t, FALSE)
    BY <1>3 DEF Resolve
  <2> HIDE DEF rows
  <2> QED BY <2>3, <2>4, EnqueueRows DEF Lifecycle
<1>4. CASE Hush
  BY <1>4 DEF Hush
<1>5. ASSUME NEW x \in Tests, Test(x)
      PROVE  delivery' \in Rows
  <2>1. <<x, "test">> \in Deliveries
    BY DEF Deliveries
  <2>2. Shaped(Queued(clock))
    BY QueuedShape DEF RestOK
  <2> QED BY <1>5, <2>1, <2>2, SetRow DEF Test
<1> QED BY <1>1, <1>2, <1>3, <1>4, <1>5 DEF EventStep

LEMMA AdminRows ==
  ASSUME TypeOK, AdminStep
  PROVE  delivery' \in Rows
<1> USE TypeParts
<1>1. FailPending \in Rows
  BY RowsOf, DoneShape DEF FailPending, Rows, Shaped, Finished
<1>2. ASSUME NEW enabled \in BOOLEAN, SetChannel(enabled)
      PROVE  delivery' \in Rows
  BY <1>1, <1>2 DEF SetChannel
<1>3. CASE DeleteChannel
  BY <1>1, <1>3 DEF DeleteChannel
<1>4. ASSUME NEW d \in Deliveries, Retry(d)
      PROVE  delivery' \in Rows
  <2> DEFINE new == [Back(delivery[d]) EXCEPT !.cycle = 0, !.due = TRUE]
  <2>1. Shaped(Back(delivery[d])) /\ Back(delivery[d]).status = "pending"
    BY RowsOf, BackShape
  <2>2. 0 \in 0 .. MaxAttempts + MaxFaults
    BY AttemptsAssumption, BoundsAssumption
  <2>3. Shaped(new)
    BY <2>1, <2>2 DEF Shaped, Row
  <2> QED BY <1>4, <2>3, SetRow DEF Retry
<1> QED BY <1>2, <1>3, <1>4 DEF AdminStep

LEMMA TimeRows ==
  ASSUME TypeOK, TimeStep
  PROVE  delivery' \in Rows
<1> USE TypeParts
<1>1. CASE Tick \/ CooldownEnds
  BY <1>1 DEF Tick, CooldownEnds
<1>2. ASSUME NEW d \in Deliveries, BecomesDue(d)
      PROVE  delivery' \in Rows
  <2>1. Shaped([delivery[d] EXCEPT !.due = TRUE])
    BY <1>2, RowsOf DEF BecomesDue, Shaped, Row
  <2> QED BY <1>2, <2>1, SetRow DEF BecomesDue
<1>3. ASSUME NEW d \in Deliveries, LeaseEnds(d) \/ LeaseOverrun(d)
      PROVE  delivery' \in Rows
  <2>1. Shaped([delivery[d] EXCEPT !.live = FALSE])
    BY RowsOf DEF Shaped, Row
  <2> QED BY <1>3, <2>1, SetRow, ZenonT(60) DEF LeaseEnds, LeaseOverrun
<1> QED BY <1>1, <1>2, <1>3 DEF TimeStep
-----------------------------------------------------------------------------
(***************************************************************************)
(* Attempts.  A delivery that waits, or that nobody sends under a lease    *)
(* that runs, has an attempt left: its schedule has, or a fault cost it    *)
(* the outcome of one.  Starting needs that lease, so the bound holds.     *)
(***************************************************************************)
AfterStart == {"sending", "sent", "refused", "deferred"}

Sending(d) ==
  \E w \in Workers : /\ delivery[d].holder = w /\ delivery[d].live
                     /\ job[w].row = d /\ job[w].at \in AfterStart

Within(d) ==
  /\ delivery[d].cycle <= MaxAttempts + faults
  /\ delivery[d].status \in {"pending", "processing"} /\ ~Sending(d)
       => delivery[d].cycle < MaxAttempts + faults

Budget == \A d \in Deliveries : Within(d)

Inv == TypeOK /\ Budget

\* A worker that is not idle works on a delivery, and all of its row is typed.
LEMMA WorkerRow ==
  ASSUME TypeOK, NEW w \in Workers, job[w].at # "idle"
  PROVE  /\ job[w].row \in Deliveries /\ Shaped(delivery[job[w].row])
         /\ delivery[job[w].row] \in Row /\ delivery[job[w].row].created \in Times
<1>1. job[w].row \in Deliveries
  BY DEF TypeOK
<1> QED BY <1>1, RowsOf, TypeParts

\* What is recorded for an attempt.
LEMMA RecordedRow ==
  ASSUME TypeOK, NEW w \in Workers, job[w].at # "idle"
  PROVE  /\ Shaped(Recorded(w))
         /\ \/ Recorded(w).status \in Finished /\ Recorded(w).cycle = 0
            \/ /\ Recorded(w).status = "pending"
               /\ Recorded(w).cycle \in 0 .. MaxAttempts - 1
<1> DEFINE row == delivery[job[w].row]
<1>1. row \in Row /\ row.created \in Times
  BY WorkerRow
<1>2. \A s \in Finished : /\ Shaped(Done(row, s)) /\ Done(row, s).cycle = 0
                          /\ Done(row, s).status = s
  BY <1>1, DoneShape
<1>3. /\ Shaped(Back(row)) /\ Back(row).status = "pending"
      /\ Back(row).cycle = row.cycle
  BY <1>1, BackShape
<1>4. HasRetry(row.cycle) => row.cycle \in 0 .. MaxAttempts - 1
  BY AttemptsAssumption DEF HasRetry
<1>5. \/ \E s \in Finished : Recorded(w) = Done(row, s)
      \/ Recorded(w) = Back(row) /\ HasRetry(row.cycle)
  BY DEF Recorded, Finished
<1> QED BY <1>2, <1>3, <1>4, <1>5

LEMMA WorkerRows ==
  ASSUME Inv, NEW w \in Workers, WorkerStep(w)
  PROVE  delivery' \in Rows
<1> USE TypeParts DEF Inv
<1>1. ASSUME NEW d \in Deliveries, Look(w, d)
      PROVE  delivery' \in Rows
  BY <1>1 DEF Look
<1>2. ASSUME NEW d \in Deliveries, Take(w, d)
      PROVE  delivery' \in Rows
  <2> DEFINE new == [delivery[d] EXCEPT !.status = "processing", !.due = FALSE,
                                        !.live = TRUE, !.holder = w]
  <2>1. Shaped(new)
    BY RowsOf, WorkersAssumption DEF Shaped, Row, Statuses
  <2> QED BY <1>2, <2>1, SetRow DEF Take
<1>3. CASE Miss(w) \/ Recheck(w) \/ SendClosed(w) \/ Abandon(w)
  BY <1>3 DEF Miss, Recheck, SendClosed, Abandon
<1>4. ASSUME NEW outcome \in Outcomes, Send(w, outcome)
      PROVE  delivery' \in Rows
  BY <1>4 DEF Send
<1>5. CASE MarkSuppressed(w)
  <2>1. job[w].row \in Deliveries /\ Shaped(Done(delivery[job[w].row], "suppressed"))
    BY <1>5, WorkerRow, DoneShape DEF MarkSuppressed, Finished
  <2> QED BY <1>5, <2>1, SetRow DEF MarkSuppressed
<1>6. CASE Release(w)
  <2>1. job[w].row \in Deliveries /\ Shaped(Back(delivery[job[w].row]))
    BY <1>6, WorkerRow, BackShape DEF Release
  <2> QED BY <1>6, <2>1, SetRow DEF Release
<1>7. CASE Start(w)
  <2> DEFINE d == job[w].row
             new == [delivery[d] EXCEPT !.cycle = @ + 1]
  <2>1. d \in Deliveries /\ Shaped(delivery[d])
    BY <1>7, WorkerRow DEF Start
  <2>2. ASSUME Holds(w), delivery[d].live
        PROVE  delivery' \in Rows
    <3>1. ~Sending(d)
      BY <1>7, <2>2 DEF Start, Holds, Sending, AfterStart
    <3>2. delivery[d].cycle < MaxAttempts + faults
      BY <2>1, <2>2, <3>1 DEF Budget, Within, Holds
    <3>3. delivery[d].cycle + 1 \in 0 .. MaxAttempts + MaxFaults
      BY <2>1, <3>2, AttemptsAssumption, BoundsAssumption DEF Shaped, Row, RestOK
    <3>4. Shaped(new)
      BY <2>1, <3>3 DEF Shaped, Row
    <3>5. delivery' = [delivery EXCEPT ![d] = new]
      BY <1>7, <2>2, <2>1 DEF Start, Rows
    <3> QED BY <2>1, <3>4, <3>5, SetRow
  <2>3. CASE ~(Holds(w) /\ delivery[d].live)
    BY <1>7, <2>3 DEF Start
  <2> QED BY <2>2, <2>3
<1>8. CASE Finish(w)
  <2>1. Shaped(Recorded(w))
    BY <1>8, RecordedRow DEF Finish
  <2>2. CASE ~Holds(w)
    BY <1>8, <2>2 DEF Finish
  <2>3. ASSUME Holds(w), NEW d \in Deliveries
        PROVE  Shaped(delivery'[d])
    <3>1. Shaped(delivery[d]) /\ Shaped([delivery[d] EXCEPT !.due = FALSE])
      BY RowsOf DEF Shaped, Row
    <3> QED BY <1>8, <2>1, <2>3, <3>1 DEF Finish
  <2>4. CASE Holds(w)
    <3>1. delivery' = [d \in Deliveries |-> delivery'[d]]
      BY <1>8, <2>4 DEF Finish
    <3> QED BY <2>3, <2>4, <3>1 DEF Rows, Shaped
  <2> QED BY <2>2, <2>4
<1> QED BY <1>1, <1>2, <1>3, <1>4, <1>5, <1>6, <1>7, <1>8 DEF WorkerStep, Progress
\* All but the rows.
LEMMA RestStep ==
  ASSUME TypeOK, [Next]_vars
  PROVE  RestOK'
<1> USE DEF RestOK, events
<1>1. RestOK
  BY TypeParts
<1>2. ASSUME NEW e \in Events, NEW t \in Times,
             Abnormal(e, t) \/ Acknowledge(e, t) \/ Resolve(e, t)
      PROVE  RestOK'
  <2>1. 0 \in Times
    BY BoundsAssumption DEF Times
  <2>2. CASE Abnormal(e, t)
    BY <1>1, <2>1, <2>2 DEF Abnormal, EventStates
  <2>3. CASE Acknowledge(e, t)
    BY <1>1, <2>1, <2>3 DEF Acknowledge, EventStates
  <2>4. CASE Resolve(e, t)
    BY <1>1, <2>1, <2>4 DEF Resolve, EventStates
  <2> QED BY <1>2, <2>2, <2>3, <2>4
<1>3. CASE Hush
  BY <1>1, <1>3 DEF Hush
<1>4. ASSUME NEW x \in Tests, Test(x)
      PROVE  RestOK'
  BY <1>1, <1>4 DEF Test
<1>5. CASE AdminStep
  <2>1. ASSUME NEW enabled \in BOOLEAN, SetChannel(enabled)
        PROVE  RestOK'
    BY <1>1, <2>1 DEF SetChannel
  <2>2. CASE DeleteChannel
    BY <1>1, <2>2 DEF DeleteChannel
  <2>3. ASSUME NEW d \in Deliveries, Retry(d)
        PROVE  RestOK'
    <3>1. retries' \in 0 .. MaxRetries
      BY <1>1, <2>3, BoundsAssumption DEF Retry
    <3> QED BY <1>1, <2>3, <3>1 DEF Retry
  <2> QED BY <1>5, <2>1, <2>2, <2>3 DEF AdminStep
<1>6. CASE TimeStep
  <2>1. CASE Tick
    <3>1. clock' \in Times
      BY <1>1, <2>1, BoundsAssumption DEF Tick, Times
    <3> QED BY <1>1, <2>1, <3>1 DEF Tick
  <2>2. CASE CooldownEnds
    BY <1>1, <2>2 DEF CooldownEnds
  <2>3. ASSUME NEW d \in Deliveries, BecomesDue(d) \/ LeaseEnds(d)
        PROVE  RestOK'
    BY <1>1, <2>3 DEF BecomesDue, LeaseEnds
  <2>4. ASSUME NEW d \in Deliveries, LeaseOverrun(d)
        PROVE  RestOK'
    <3>1. faults' \in 0 .. MaxFaults
      BY <1>1, <2>4, BoundsAssumption DEF LeaseOverrun
    <3> QED BY <1>1, <2>4, <3>1 DEF LeaseOverrun
  <2> QED BY <1>6, <2>1, <2>2, <2>3, <2>4 DEF TimeStep
<1>7. ASSUME NEW w \in Workers, WorkerStep(w)
      PROVE  RestOK'
  <2>1. ASSUME NEW d \in Deliveries, Look(w, d)
        PROVE  RestOK'
    BY <1>1, <2>1, DeliveriesAssumption DEF Look, Points
  <2>2. ASSUME NEW d \in Deliveries, Take(w, d)
        PROVE  RestOK'
    BY <1>1, <2>2, DeliveriesAssumption DEF Take, Points
  <2>3. CASE Miss(w) \/ MarkSuppressed(w)
    BY <1>1, <2>3 DEF Miss, MarkSuppressed, Idle, Points
  <2>4. CASE Release(w) \/ Abandon(w)
    BY <1>1, <2>4, BoundsAssumption DEF Release, Abandon, Idle, Points
  <2>5. CASE Recheck(w) \/ Start(w) \/ SendClosed(w)
    BY <1>1, <2>5 DEF Recheck, Start, SendClosed, Idle, Points
  <2>6. ASSUME NEW outcome \in Outcomes, Send(w, outcome)
        PROVE  RestOK'
    <3>1. job[w].at # "idle" /\ job[w].row \in Deliveries
      BY <2>6, WorkerRow DEF Send
    <3>2. job[w].row[1] \in Events => Rank[job[w].row[2]] \in 0 .. 3
      BY <3>1, DeliveriesAssumption DEF Deliveries, Lifecycle, Rank
    <3>3. reached' \in [Events -> 0 .. 3]
      BY <1>1, <2>6, <3>2 DEF Send
    <3>4. outcome \in Points \ {"idle"}
      BY DEF Outcomes, Points
    <3> QED BY <1>1, <2>6, <3>3, <3>4 DEF Send
  <2>7. CASE Finish(w)
    BY <1>1, <2>7 DEF Finish, Idle, Points
  <2> QED BY <1>7, <2>1, <2>2, <2>3, <2>4, <2>5, <2>6, <2>7 DEF WorkerStep, Progress
<1>8. CASE UNCHANGED vars
  BY <1>1, <1>8 DEF vars
<1> QED BY <1>2, <1>3, <1>4, <1>5, <1>6, <1>7, <1>8 DEF Next, EventStep
\* A row that a step of worker w leaves alone, but perhaps for its due time.
LEMMA OtherRow ==
  ASSUME Inv, NEW w \in Workers, NEW d \in Deliveries,
         faults' = faults,
         \A v \in Workers \ {w} : job'[v] = job[v],
         \/ job[w].row # d \/ job[w].at \notin AfterStart
         \/ job'[w].row = d /\ job'[w].at \in AfterStart
         \/ delivery[d].status # "processing" \/ delivery[d].holder # w,
         delivery'[d].status = delivery[d].status,
         delivery'[d].cycle = delivery[d].cycle,
         delivery'[d].holder = delivery[d].holder,
         delivery'[d].live = delivery[d].live
  PROVE  Within(d)'
<1>1. Shaped(delivery[d])
  BY TypeParts, RowsOf DEF Inv
<1>2. Sending(d) => delivery[d].status = "processing"
  BY <1>1 DEF Sending, Shaped
<1>3. Sending(d) => Sending(d)'
  BY <1>2 DEF Sending
<1> QED BY <1>3 DEF Inv, Budget, Within

\* A row that was finished or queued anew, by whatever step.
LEMMA FreshRow ==
  ASSUME Inv, NEW d \in Deliveries, faults' = faults, delivery'[d].cycle = 0
  PROVE  Within(d)'
BY TypeParts, AttemptsAssumption, BoundsAssumption DEF Inv, RestOK, Within

\* A fault pays for the attempt whose outcome it loses.
LEMMA Fault ==
  ASSUME Inv, faults' = faults + 1,
         \A d \in Deliveries : delivery'[d].cycle = delivery[d].cycle
  PROVE  Budget'
<1> SUFFICES ASSUME NEW d \in Deliveries PROVE Within(d)'
  BY DEF Budget
<1>1. delivery[d].cycle \in Nat /\ faults \in Nat
  BY TypeParts, RowsOf, AttemptsAssumption, BoundsAssumption DEF Inv, RestOK, Row
<1> QED BY <1>1, AttemptsAssumption DEF Inv, Budget, Within
LEMMA EventBudget ==
  ASSUME Inv, EventStep
  PROVE  Budget'
<1> SUFFICES ASSUME NEW d \in Deliveries PROVE Within(d)'
  BY DEF Budget
<1> USE TypeParts DEF Inv
<1>1. job' = job /\ faults' = faults
  BY DEF EventStep, Abnormal, Acknowledge, Resolve, Hush, Test
<1>2. CASE delivery'[d] = delivery[d]
  BY <1>1, <1>2 DEF Budget, Within, Sending
<1>3. CASE delivery'[d] # delivery[d]
  <2>0. delivery \in Rows /\ quiet \in BOOLEAN /\ clock \in Times
    BY DEF RestOK
  <2>1. ASSUME NEW e \in Events, NEW t \in Times,
               Abnormal(e, t) \/ Acknowledge(e, t)
        PROVE  delivery'[d].cycle = 0
    <3>1. CASE Abnormal(e, t)
      <4>1. delivery' = Enqueue(delivery, e, "firing", t, quiet)
        BY <3>1 DEF Abnormal
      <4> QED BY <1>3, <2>0, <4>1, EnqueueRows DEF Lifecycle
    <3>2. CASE Acknowledge(e, t)
      <4>1. delivery' = Enqueue(delivery, e, "acknowledged", t, FALSE)
        BY <3>2 DEF Acknowledge
      <4>2. "acknowledged" \in Lifecycle
        BY DEF Lifecycle
      <4> QED BY <1>3, <2>0, <4>1, <4>2, EnqueueFresh
    <3> QED BY <2>1, <3>1, <3>2
  <2>2. ASSUME NEW e \in Events, NEW t \in Times, Resolve(e, t)
        PROVE  delivery'[d].cycle = 0
    <3> DEFINE firing == <<e, "firing">>
               rows == IF delivery[firing].status = "pending"
                       THEN [delivery EXCEPT ![firing] = Done(@, "suppressed")]
                       ELSE delivery
    <3>1. firing \in Deliveries
      BY DEF Deliveries, Lifecycle
    <3>2. /\ Shaped(Done(delivery[firing], "suppressed"))
          /\ Done(delivery[firing], "suppressed").cycle = 0
      BY <3>1, RowsOf, DoneShape DEF Finished
    <3>3. rows \in Rows /\ (rows[d] = delivery[d] \/ rows[d].cycle = 0)
      BY <3>1, <3>2, SetRow DEF Rows
    <3>4. delivery' = Enqueue(rows, e, "resolved", t, FALSE)
      BY <2>2 DEF Resolve
    <3> HIDE DEF rows
    <3>5. "resolved" \in Lifecycle
      BY DEF Lifecycle
    <3> QED BY <1>3, <3>3, <3>4, <3>5, EnqueueFresh, ZenonT(60)
  <2>3. ASSUME NEW x \in Tests, Test(x)
        PROVE  delivery'[d].cycle = 0
    <3>1. /\ delivery' = [delivery EXCEPT ![<<x, "test">>] = Queued(clock)]
          /\ delivery \in [Deliveries -> Row]
      BY <2>0, <2>3 DEF Test, Rows
    <3>2. delivery'[d] = Queued(clock)
      BY <1>3, <3>1
    <3> QED BY <2>0, <3>2, QueuedShape
  <2>4. ~Hush
    BY <1>3 DEF Hush
  <2>5. delivery'[d].cycle = 0
    BY <2>1, <2>2, <2>3, <2>4 DEF EventStep
  <2> QED BY <1>1, <2>5, FreshRow
<1> QED BY <1>2, <1>3

LEMMA AdminBudget ==
  ASSUME Inv, AdminStep
  PROVE  Budget'
<1> SUFFICES ASSUME NEW d \in Deliveries PROVE Within(d)'
  BY DEF Budget
<1> USE TypeParts DEF Inv
<1>1. job' = job /\ faults' = faults
  BY DEF AdminStep, SetChannel, DeleteChannel, Retry
<1>2. CASE delivery'[d] = delivery[d]
  BY <1>1, <1>2 DEF Budget, Within, Sending
<1>3. CASE delivery'[d] # delivery[d]
  <2>1. FailPending[d] = delivery[d] \/ FailPending[d].cycle = 0
    BY RowsOf, DoneShape DEF FailPending, Finished
  <2>2. ASSUME NEW enabled \in BOOLEAN, SetChannel(enabled) \/ DeleteChannel
        PROVE  delivery'[d].cycle = 0
    BY <1>3, <2>1, <2>2 DEF SetChannel, DeleteChannel
  <2>3. ASSUME NEW o \in Deliveries, Retry(o)
        PROVE  delivery'[d].cycle = 0
    <3>1. Back(delivery[o]) \in Row
      BY RowsOf, BackShape DEF Shaped
    <3> QED BY <1>3, <2>3, <3>1 DEF Retry, Rows, Row
  <2>4. delivery'[d].cycle = 0
    BY <2>2, <2>3 DEF AdminStep
  <2> QED BY <1>1, <2>4, FreshRow
<1> QED BY <1>2, <1>3

LEMMA TimeBudget ==
  ASSUME Inv, TimeStep
  PROVE  Budget'
<1> USE TypeParts DEF Inv
<1>1. CASE Tick \/ CooldownEnds
  BY <1>1 DEF Tick, CooldownEnds, Budget, Within, Sending
<1>2. ASSUME NEW o \in Deliveries, BecomesDue(o)
      PROVE  Budget'
  BY <1>2 DEF BecomesDue, Budget, Within, Sending, Rows, Row
<1>3. ASSUME NEW o \in Deliveries, LeaseEnds(o)
      PROVE  Budget'
  <2>1. ~Sending(o)
    BY <1>3 DEF LeaseEnds, WorksOn, Sending, AfterStart
  <2>2. SUFFICES ASSUME NEW d \in Deliveries PROVE Within(d)'
    BY DEF Budget
  <2>3. CASE d = o
    BY <1>3, <2>1, <2>3 DEF LeaseEnds, Budget, Within, Rows, Row
  <2>4. CASE d # o
    BY <1>3, <2>4 DEF LeaseEnds, Budget, Within, Sending, Rows
  <2> QED BY <2>3, <2>4
<1>4. ASSUME NEW o \in Deliveries, LeaseOverrun(o)
      PROVE  Budget'
  BY <1>4, Fault DEF LeaseOverrun, Rows, Row
<1> QED BY <1>1, <1>2, <1>3, <1>4 DEF TimeStep

\* The steps of a worker but the faults.
LEMMA WorkerBudget ==
  ASSUME Inv, NEW w \in Workers, WorkerStep(w)
  PROVE  Budget'
<1>0. /\ TypeOK /\ delivery \in [Deliveries -> Row] /\ delivery \in Rows
      /\ job \in [Workers -> [at : Points, row : Deliveries \cup {NoRow}]]
  BY DEF Inv, TypeOK, Rows, Shaped
<1>1. ASSUME NEW o \in Deliveries, Look(w, o), NEW d \in Deliveries
      PROVE  Within(d)'
  <2>1. /\ delivery' = delivery /\ faults' = faults /\ job[w].at \notin AfterStart
        /\ \A v \in Workers \ {w} : job'[v] = job[v]
    BY <1>0, <1>1 DEF Look, Idle, AfterStart
  <2> QED BY <2>1, OtherRow
<1>2. ASSUME NEW o \in Deliveries, Take(w, o), NEW d \in Deliveries
      PROVE  Within(d)'
  <2>1. /\ faults' = faults /\ job[w].at \notin AfterStart
        /\ \A v \in Workers \ {w} : job'[v] = job[v]
    BY <1>0, <1>2 DEF Take, AfterStart
  <2>2. CASE d = o
    <3>1. Shaped(delivery[o])
      BY <1>0, RowsOf
    <3>2. delivery[o].status \in {"pending", "processing"} /\ ~Sending(o)
      BY <1>2, <3>1, WorkersAssumption DEF Take, Ready, Shaped, Sending
    <3>3. delivery[o].cycle < MaxAttempts + faults
      BY <3>2 DEF Inv, Budget, Within
    <3>4. delivery'[o].cycle = delivery[o].cycle
      BY <1>0, <1>2 DEF Take, Row
    <3>5. delivery[o].cycle <= MaxAttempts + faults
      BY DEF Inv, Budget, Within
    <3> QED BY <2>1, <2>2, <3>3, <3>4, <3>5 DEF Within
  <2>3. CASE d # o
    <3>1. delivery'[d] = delivery[d]
      BY <1>0, <1>2, <2>3 DEF Take
    <3> QED BY <2>1, <3>1, OtherRow
  <2> QED BY <2>2, <2>3
<1>3. ASSUME Miss(w) \/ Recheck(w), NEW d \in Deliveries
      PROVE  Within(d)'
  <2>1. /\ delivery' = delivery /\ faults' = faults /\ job[w].at \notin AfterStart
        /\ \A v \in Workers \ {w} : job'[v] = job[v]
    BY <1>0, <1>3 DEF Miss, Recheck, AfterStart
  <2> QED BY <2>1, OtherRow
<1>4. ASSUME MarkSuppressed(w), NEW d \in Deliveries
      PROVE  Within(d)'
  <2>1. /\ faults' = faults /\ job[w].at \notin AfterStart
        /\ \A v \in Workers \ {w} : job'[v] = job[v]
    BY <1>0, <1>4 DEF MarkSuppressed, AfterStart
  <2>2. CASE delivery'[d] = delivery[d]
    BY <2>1, <2>2, OtherRow
  <2>3. CASE delivery'[d] # delivery[d]
    <3>1. delivery'[d] = Done(delivery[d], "suppressed")
      BY <1>0, <1>4, <2>3 DEF MarkSuppressed
    <3>2. delivery'[d].cycle = 0
      BY <1>0, <3>1, RowsOf, DoneShape DEF Finished
    <3> QED BY <2>1, <3>2, FreshRow
  <2> QED BY <2>2, <2>3
<1>5. ASSUME Start(w), NEW d \in Deliveries
      PROVE  Within(d)'
  <2>1. /\ faults' = faults /\ job[w].at \notin AfterStart
        /\ \A v \in Workers \ {w} : job'[v] = job[v]
    BY <1>0, <1>5 DEF Start, AfterStart
  <2>2. CASE delivery'[d] = delivery[d]
    BY <2>1, <2>2, OtherRow
  <2>3. CASE delivery'[d] # delivery[d]
    <3>1. /\ d = job[w].row /\ Holds(w) /\ delivery[d].live
          /\ delivery' = [delivery EXCEPT ![d].cycle = @ + 1]
          /\ job' = [job EXCEPT ![w].at = "sending"]
      BY <1>0, <1>5, <2>3 DEF Start
    <3>2. ~Sending(d)
      BY <1>5, <3>1 DEF Start, Holds, Sending, AfterStart
    <3>3. delivery[d].cycle < MaxAttempts + faults
      BY <3>1, <3>2 DEF Inv, Budget, Within, Holds
    <3>4. /\ delivery'[d].cycle = delivery[d].cycle + 1
          /\ delivery'[d].holder = w /\ delivery'[d].live
      BY <1>0, <3>1 DEF Row, Holds
    <3>5. job'[w].row = d /\ job'[w].at = "sending"
      BY <1>0, <3>1
    <3>6. Sending(d)'
      BY <3>4, <3>5 DEF Sending, AfterStart
    <3>7. delivery[d].cycle \in Nat /\ faults \in Nat
      BY <1>0, TypeParts, RowsOf, AttemptsAssumption, BoundsAssumption DEF RestOK, Row
    <3>8. delivery'[d].cycle <= MaxAttempts + faults'
      BY <2>1, <3>3, <3>4, <3>7, AttemptsAssumption
    <3> QED BY <3>6, <3>8 DEF Within
  <2> QED BY <2>2, <2>3
<1>6. ASSUME SendClosed(w) \/ \E outcome \in Outcomes : Send(w, outcome),
             NEW d \in Deliveries
      PROVE  Within(d)'
  <2>1. /\ delivery' = delivery /\ faults' = faults
        /\ \A v \in Workers \ {w} : job'[v] = job[v]
    BY <1>0, <1>6 DEF SendClosed, Send
  <2>2. job'[w].row = job[w].row /\ job'[w].at \in AfterStart
    BY <1>0, <1>6 DEF SendClosed, Send, Outcomes, AfterStart
  <2> QED BY <2>1, <2>2, OtherRow
<1>7. ASSUME Finish(w), NEW d \in Deliveries
      PROVE  Within(d)'
  <2>1. /\ faults' = faults /\ job[w].at # "idle"
        /\ \A v \in Workers \ {w} : job'[v] = job[v]
    BY <1>0, <1>7 DEF Finish
  <2>2. CASE Holds(w) /\ d = job[w].row
    <3>1. delivery'[d] = Recorded(w)
      BY <1>7, <2>2 DEF Finish
    <3>2. CASE Recorded(w).cycle = 0
      BY <2>1, <3>1, <3>2, FreshRow
    <3>3. CASE Recorded(w).cycle \in 0 .. MaxAttempts - 1
      <4>1. faults \in Nat
        BY <1>0, TypeParts, BoundsAssumption DEF RestOK
      <4>2. Recorded(w).cycle < MaxAttempts + faults
        BY <3>3, <4>1, AttemptsAssumption
      <4>3. Recorded(w).cycle <= MaxAttempts + faults
        BY <3>3, <4>1, AttemptsAssumption
      <4> QED BY <2>1, <3>1, <4>2, <4>3 DEF Within
    <3> QED BY <1>0, <2>1, <3>2, <3>3, RecordedRow
  <2>3. CASE Holds(w) /\ d # job[w].row
    <3>1. \/ delivery'[d] = delivery[d]
          \/ delivery'[d] = [delivery[d] EXCEPT !.due = FALSE]
      BY <1>7, <2>3 DEF Finish
    <3>2. delivery[d] \in Row
      BY <1>0
    <3>3. /\ delivery'[d].status = delivery[d].status
          /\ delivery'[d].cycle = delivery[d].cycle
          /\ delivery'[d].holder = delivery[d].holder
          /\ delivery'[d].live = delivery[d].live
      BY <3>1, <3>2 DEF Row
    <3> QED BY <2>1, <2>3, <3>3, OtherRow
  <2>4. CASE ~Holds(w)
    <3>1. delivery' = delivery
      BY <1>7, <2>4 DEF Finish
    <3>2. \/ job[w].row # d
          \/ delivery[d].status # "processing" \/ delivery[d].holder # w
      BY <2>4 DEF Holds
    <3> QED BY <2>1, <3>1, <3>2, OtherRow
  <2> QED BY <2>2, <2>3, <2>4
<1>8. CASE Release(w)
  <2>1. faults' = faults + 1
    BY <1>8 DEF Release
  <2>2. ASSUME NEW d \in Deliveries PROVE delivery'[d].cycle = delivery[d].cycle
    <3>1. delivery'[d] = delivery[d] \/ delivery'[d] = Back(delivery[d])
      BY <1>0, <1>8 DEF Release
    <3> QED BY <1>0, <3>1, BackShape
  <2> QED BY <2>1, <2>2, Fault
<1>9. CASE Abandon(w)
  BY <1>9, Fault DEF Abandon
<1> QED
  BY <1>1, <1>2, <1>3, <1>4, <1>5, <1>6, <1>7, <1>8, <1>9
     DEF WorkerStep, Progress, Budget

-----------------------------------------------------------------------------
(***************************************************************************)
(* The invariant and the theorems.                                         *)
(***************************************************************************)
LEMMA InvInit == Init => Inv
<1> SUFFICES ASSUME Init PROVE Inv
  OBVIOUS
<1>1. /\ 0 \in 0 .. MaxAttempts + MaxFaults /\ 0 \in Times
      /\ 0 \in 0 .. MaxFaults /\ 0 \in 0 .. MaxRetries
  BY AttemptsAssumption, BoundsAssumption DEF Times
<1>2. Shaped(Absent)
  BY <1>1, WorkersAssumption DEF Shaped, Row, Absent, Statuses
<1>3. delivery \in Rows
  BY <1>2 DEF Init, Rows, Shaped
<1>4. RestOK
  <2>1. /\ job \in [Workers -> [at : Points, row : Deliveries \cup {NoRow}]]
        /\ \A w \in Workers : job[w].at = "idle" <=> job[w].row = NoRow
    BY DEF Init, Idle, Points
  <2>2. /\ event \in [Events -> EventStates]
        /\ fired \in [Events -> Times] /\ seen \in [Events -> Times]
        /\ reached \in [Events -> 0 .. 3]
    BY <1>1 DEF Init, EventStates
  <2> QED BY <1>1, <2>1, <2>2 DEF Init, RestOK
<1>5. Budget
  BY AttemptsAssumption DEF Init, Budget, Within, Absent
<1> QED BY <1>3, <1>4, <1>5, TypeParts DEF Inv

LEMMA InvStep == Inv /\ [Next]_vars => Inv'
<1> SUFFICES ASSUME Inv, [Next]_vars PROVE Inv'
  OBVIOUS
<1>1. RestOK'
  BY RestStep DEF Inv
<1>2. CASE UNCHANGED vars
  BY <1>2 DEF vars, events, Inv, TypeOK, Budget, Within, Sending
<1>3. CASE Next
  <2>1. delivery' \in Rows
    BY <1>3, EventRows, AdminRows, TimeRows, WorkerRows DEF Next, Inv
  <2>2. Budget'
    BY <1>3, EventBudget, AdminBudget, TimeBudget, WorkerBudget DEF Next
  <2>3. TypeOK'
    BY <1>1, <2>1 DEF TypeOK, Rows, RestOK, Shaped
  <2> QED BY <2>2, <2>3 DEF Inv
<1> QED BY <1>2, <1>3

LEMMA InvAlways == Spec => []Inv
BY InvInit, InvStep, PTL DEF Spec

\* The queue, its events and its workers keep their shape: a delivery carries a
\* lease token exactly while it is processing.
THEOREM TypeCorrect == Spec => []TypeOK
<1>1. Inv => TypeOK
  BY DEF Inv
<1> QED BY <1>1, InvAlways, PTL

\* No cycle of a delivery has more attempts than its schedule, but for those
\* whose outcome was lost to a fault.
THEOREM BudgetKept == Spec => []AttemptBudget
<1>1. Inv => AttemptBudget
  BY DEF Inv, Budget, Within, AttemptBudget
<1> QED BY <1>1, InvAlways, PTL

-----------------------------------------------------------------------------
(***************************************************************************)
(* Fencing.  Only first reports are ever suppressed, so only their rows    *)
(* are taken over by a later insert; every other change of a finished row  *)
(* is a retry, and of a processing one the work of its holder or a claim.  *)
(***************************************************************************)
OnlyFirstReports ==
  /\ \A d \in Deliveries : delivery[d].status = "suppressed" => d[2] = "firing"
  /\ \A w \in Workers : job[w].at = "muted" => job[w].row[2] = "firing"

FinishedKept(d) ==
  delivery[d].status \in Finished =>
    /\ delivery'[d].status = "pending" /\ delivery'[d].cycle = 0
    /\ \/ delivery[d].status = "failed" /\ retries' = retries + 1
       \/ /\ delivery[d].status = "suppressed" /\ d[2] = "firing"
          /\ event[d[1]] # "resolved"

ClaimKept(d) ==
  delivery[d].status = "processing" /\ delivery'[d].holder # delivery[d].holder =>
    \/ ~delivery[d].live /\ delivery'[d].status = "processing"
    \/ \E w \in Workers : /\ delivery[d].holder = w /\ WorksOn(w, d)
                          /\ job'[w] = Idle

SuppressedKept(d) == delivery'[d].status = "suppressed" => d[2] = "firing"

Fenced(d) ==
  delivery'[d] # delivery[d] =>
    FinishedKept(d) /\ ClaimKept(d) /\ SuppressedKept(d)

LEMMA EventFenced ==
  ASSUME TypeOK, OnlyFirstReports, EventStep, NEW d \in Deliveries
  PROVE  Fenced(d)
<1> SUFFICES ASSUME delivery'[d] # delivery[d]
             PROVE  FinishedKept(d) /\ ClaimKept(d) /\ SuppressedKept(d)
  BY DEF Fenced
<1> USE DEF FinishedKept, ClaimKept, SuppressedKept
<1>0. /\ delivery \in Rows /\ delivery \in [Deliveries -> Row]
      /\ quiet \in BOOLEAN /\ clock \in Times
  BY DEF TypeOK, Rows, Shaped
<1>1. ASSUME NEW e \in Events, NEW t \in Times, Abnormal(e, t)
      PROVE  FinishedKept(d) /\ ClaimKept(d) /\ SuppressedKept(d)
  <2>1. delivery' = Enqueue(delivery, e, "firing", t, quiet) /\ event[e] # "resolved"
    BY <1>1 DEF Abnormal
  <2>2. "firing" \in Lifecycle
    BY DEF Lifecycle
  <2>3. /\ d = <<e, "firing">> /\ delivery[d].status \in {"absent", "suppressed"}
        /\ delivery'[d].cycle = 0
        /\ delivery'[d].status = "pending" \/ delivery[d].status = "absent"
    BY <1>0, <2>1, <2>2, EnqueueRows
  <2> QED BY <2>1, <2>3 DEF Finished
<1>2. ASSUME NEW e \in Events, NEW t \in Times, Acknowledge(e, t)
      PROVE  FinishedKept(d) /\ ClaimKept(d) /\ SuppressedKept(d)
  <2>1. delivery' = Enqueue(delivery, e, "acknowledged", t, FALSE)
    BY <1>2 DEF Acknowledge
  <2>2. "acknowledged" \in Lifecycle
    BY DEF Lifecycle
  <2>3. /\ d = <<e, "acknowledged">>
        /\ delivery[d].status \in {"absent", "suppressed"}
        /\ delivery'[d].status = "pending"
    <3>1. \/ Enqueue(delivery, e, "acknowledged", t, FALSE)[d] = delivery[d]
          \/ /\ d = <<e, "acknowledged">>
             /\ delivery[d].status \in {"absent", "suppressed"}
             /\ Enqueue(delivery, e, "acknowledged", t, FALSE)[d].cycle = 0
             /\ Enqueue(delivery, e, "acknowledged", t, FALSE)[d].status = "pending"
      BY <1>0, <2>2, EnqueueFresh, ZenonT(60)
    <3> QED BY <2>1, <3>1
  <2> QED BY <2>3 DEF Finished, OnlyFirstReports
<1>3. ASSUME NEW e \in Events, NEW t \in Times, Resolve(e, t)
      PROVE  FinishedKept(d) /\ ClaimKept(d) /\ SuppressedKept(d)
  <2> DEFINE firing == <<e, "firing">>
             new == Done(delivery[firing], "suppressed")
             rows == IF delivery[firing].status = "pending"
                     THEN [delivery EXCEPT ![firing] = new]
                     ELSE delivery
  <2>1. firing \in Deliveries /\ "resolved" \in Lifecycle
    BY DEF Deliveries, Lifecycle
  <2>2. Shaped(new) /\ new.status = "suppressed"
    BY <1>0, <2>1, RowsOf, DoneShape DEF Finished
  <2>3. rows \in Rows
    BY <1>0, <2>1, <2>2, SetRow
  <2>4. \/ rows[d] = delivery[d]
        \/ d = firing /\ delivery[d].status = "pending" /\ rows[d].status = "suppressed"
    BY <1>0, <2>1, <2>2
  <2>5. delivery' = Enqueue(rows, e, "resolved", t, FALSE)
    BY <1>3 DEF Resolve
  <2> HIDE DEF rows
  <2>6. \/ delivery'[d] = rows[d]
        \/ /\ d = <<e, "resolved">> /\ rows[d].status \in {"absent", "suppressed"}
           /\ delivery'[d].status = "pending"
    <3>1. \/ Enqueue(rows, e, "resolved", t, FALSE)[d] = rows[d]
          \/ /\ d = <<e, "resolved">>
             /\ rows[d].status \in {"absent", "suppressed"}
             /\ Enqueue(rows, e, "resolved", t, FALSE)[d].cycle = 0
             /\ Enqueue(rows, e, "resolved", t, FALSE)[d].status = "pending"
      BY <2>1, <2>3, EnqueueFresh, ZenonT(60)
    <3> QED BY <2>5, <3>1
  <2>7. CASE rows[d] = delivery[d]
    BY <2>6, <2>7 DEF Finished, OnlyFirstReports
  <2>8. CASE rows[d] # delivery[d]
    BY <2>4, <2>6, <2>8 DEF Finished
  <2> QED BY <2>7, <2>8
<1>4. ~Hush
  BY DEF Hush
<1>5. ASSUME NEW x \in Tests, Test(x)
      PROVE  FinishedKept(d) /\ ClaimKept(d) /\ SuppressedKept(d)
  <2>1. /\ d = <<x, "test">> /\ delivery[d].status = "absent"
        /\ delivery'[d] = Queued(clock)
    BY <1>0, <1>5 DEF Test
  <2>2. delivery'[d].status = "pending"
    BY <1>0, <2>1, QueuedShape
  <2> QED BY <2>1, <2>2 DEF Finished
<1> QED BY <1>1, <1>2, <1>3, <1>4, <1>5 DEF EventStep

LEMMA AdminFenced ==
  ASSUME TypeOK, AdminStep, NEW d \in Deliveries
  PROVE  Fenced(d)
<1> SUFFICES ASSUME delivery'[d] # delivery[d]
             PROVE  FinishedKept(d) /\ ClaimKept(d) /\ SuppressedKept(d)
  BY DEF Fenced
<1> USE DEF FinishedKept, ClaimKept, SuppressedKept
<1>0. delivery \in Rows /\ delivery \in [Deliveries -> Row]
  BY DEF TypeOK, Rows, Shaped
<1>1. ASSUME delivery' = FailPending
      PROVE  FinishedKept(d) /\ ClaimKept(d) /\ SuppressedKept(d)
  <2>1. delivery[d].status = "pending" /\ delivery'[d] = Done(delivery[d], "failed")
    BY <1>1 DEF FailPending
  <2>2. delivery'[d].status = "failed"
    BY <1>0, <2>1, RowsOf, DoneShape DEF Finished
  <2> QED BY <2>1, <2>2 DEF Finished
<1>2. ASSUME NEW o \in Deliveries, Retry(o)
      PROVE  FinishedKept(d) /\ ClaimKept(d) /\ SuppressedKept(d)
  <2>1. /\ d = o /\ delivery[d].status = "failed" /\ retries' = retries + 1
        /\ delivery'[d] = [Back(delivery[d]) EXCEPT !.cycle = 0, !.due = TRUE]
    BY <1>0, <1>2 DEF Retry
  <2>2. Back(delivery[d]) \in Row /\ Back(delivery[d]).status = "pending"
    BY <1>0, BackShape DEF Shaped
  <2>3. delivery'[d].status = "pending" /\ delivery'[d].cycle = 0
    BY <2>1, <2>2 DEF Row
  <2> QED BY <2>1, <2>3
<1> QED BY <1>1, <1>2 DEF AdminStep, SetChannel, DeleteChannel

LEMMA WorkerFenced ==
  ASSUME TypeOK, OnlyFirstReports, NEW w \in Workers, WorkerStep(w),
         NEW d \in Deliveries
  PROVE  Fenced(d)
<1> SUFFICES ASSUME delivery'[d] # delivery[d]
             PROVE  FinishedKept(d) /\ ClaimKept(d) /\ SuppressedKept(d)
  BY DEF Fenced
<1> USE DEF FinishedKept, ClaimKept, SuppressedKept
<1>0. /\ delivery \in Rows /\ delivery \in [Deliveries -> Row]
      /\ job \in [Workers -> [at : Points, row : Deliveries \cup {NoRow}]]
  BY DEF TypeOK, Rows, Shaped
<1>1. ASSUME NEW o \in Deliveries, Take(w, o)
      PROVE  FinishedKept(d) /\ ClaimKept(d) /\ SuppressedKept(d)
  <2>1. d = o /\ Ready(d)
    BY <1>0, <1>1 DEF Take
  <2>2. delivery'[d].status = "processing"
    BY <1>0, <1>1, <2>1 DEF Take, Row
  <2> QED BY <2>1, <2>2 DEF Ready, Finished
<1>2. ASSUME job[w].row = d, Holds(w), job[w].at \notin {"idle", "looked"},
             job'[w] = Idle, SuppressedKept(d)
      PROVE  FinishedKept(d) /\ ClaimKept(d) /\ SuppressedKept(d)
  BY <1>2 DEF Holds, WorksOn, Finished
<1>3. CASE MarkSuppressed(w)
  <2>1. /\ job[w].row = d /\ Holds(w) /\ job[w].at = "muted" /\ job'[w] = Idle
    BY <1>0, <1>3 DEF MarkSuppressed
  <2>2. SuppressedKept(d)
    BY <2>1 DEF OnlyFirstReports
  <2> QED BY <1>2, <2>1, <2>2
<1>4. CASE Release(w)
  <2>1. /\ job[w].row = d /\ Holds(w) /\ job[w].at = "claimed" /\ job'[w] = Idle
        /\ delivery'[d] = Back(delivery[d])
    BY <1>0, <1>4 DEF Release
  <2>2. delivery'[d].status = "pending"
    BY <1>0, <2>1, BackShape
  <2> QED BY <1>2, <2>1, <2>2
<1>5. CASE Start(w)
  <2>1. /\ job[w].row = d /\ Holds(w)
        /\ delivery'[d] = [delivery[d] EXCEPT !.cycle = @ + 1]
    BY <1>0, <1>5 DEF Start
  <2>2. /\ delivery'[d].status = delivery[d].status
        /\ delivery'[d].holder = delivery[d].holder
    BY <1>0, <2>1 DEF Row
  <2> QED BY <2>1, <2>2 DEF Holds, Finished
<1>6. CASE Finish(w)
  <2>1. /\ Holds(w) /\ job[w].at \notin {"idle", "looked"} /\ job'[w] = Idle
    BY <1>0, <1>6 DEF Finish
  <2>2. CASE d = job[w].row
    <3>1. delivery'[d] = Recorded(w)
      BY <1>6, <2>1, <2>2 DEF Finish
    <3>2. \A s \in Finished : Done(delivery[d], s).status = s
      BY <1>0, RowsOf, DoneShape
    <3>3. Back(delivery[d]).status = "pending"
      BY <1>0, BackShape
    <3>4. SuppressedKept(d)
      BY <2>2, <3>1, <3>2, <3>3 DEF Recorded, Finished
    <3> QED BY <1>2, <2>1, <2>2, <3>4
  <2>3. CASE d # job[w].row
    <3>1. /\ delivery[d].status = "pending"
          /\ delivery'[d] = [delivery[d] EXCEPT !.due = FALSE]
      BY <1>6, <2>1, <2>3 DEF Finish
    <3>2. delivery'[d].status = "pending"
      BY <1>0, <3>1 DEF Row
    <3> QED BY <3>1, <3>2 DEF Finished
  <2> QED BY <2>2, <2>3
<1>7. ~ \E o \in Deliveries : Look(w, o)
  BY DEF Look
<1>8. ~ (Miss(w) \/ Recheck(w) \/ SendClosed(w) \/ Abandon(w))
  BY DEF Miss, Recheck, SendClosed, Abandon
<1>9. ~ \E outcome \in Outcomes : Send(w, outcome)
  BY DEF Send
<1> QED BY <1>1, <1>3, <1>4, <1>5, <1>6, <1>7, <1>8, <1>9 DEF WorkerStep, Progress

LEMMA TimeFenced ==
  ASSUME TypeOK, TimeStep, NEW d \in Deliveries
  PROVE  Fenced(d)
<1> SUFFICES ASSUME delivery'[d] # delivery[d]
             PROVE  FinishedKept(d) /\ ClaimKept(d) /\ SuppressedKept(d)
  BY DEF Fenced
<1>0. delivery \in [Deliveries -> Row]
  BY DEF TypeOK
<1>1. ~Tick /\ ~CooldownEnds
  BY DEF Tick, CooldownEnds
<1>2. /\ delivery[d].status \in {"pending", "processing"}
      /\ delivery'[d].status = delivery[d].status
      /\ delivery'[d].holder = delivery[d].holder
  BY <1>0, <1>1 DEF TimeStep, BecomesDue, LeaseEnds, LeaseOverrun, Row
<1> QED BY <1>2 DEF FinishedKept, ClaimKept, SuppressedKept, Finished

LEMMA StepFenced ==
  ASSUME TypeOK, OnlyFirstReports, [Next]_vars, NEW d \in Deliveries
  PROVE  Fenced(d)
<1>1. CASE UNCHANGED vars
  BY <1>1 DEF vars, Fenced
<1> QED BY <1>1, EventFenced, AdminFenced, WorkerFenced, TimeFenced DEF Next

LEMMA FirstReportsInit == Init => OnlyFirstReports
BY DEF Init, OnlyFirstReports, Absent, Idle

LEMMA FirstReportsStep ==
  ASSUME TypeOK, OnlyFirstReports, [Next]_vars
  PROVE  OnlyFirstReports'
<1>1. ASSUME NEW d \in Deliveries, delivery'[d].status = "suppressed"
      PROVE  d[2] = "firing"
  BY <1>1, StepFenced DEF Fenced, SuppressedKept, OnlyFirstReports
<1>2. ASSUME NEW w \in Workers, job'[w].at = "muted"
      PROVE  job'[w].row[2] = "firing"
  <2>1. job \in [Workers -> [at : Points, row : Deliveries \cup {NoRow}]]
    BY DEF TypeOK
  <2>2. CASE job'[w] = job[w]
    BY <1>2, <2>2 DEF OnlyFirstReports
  <2>3. CASE job'[w] # job[w]
    <3>1. PICK v \in Workers : WorkerStep(v)
      <4>1. job' # job
        BY <2>3
      <4>2. ~EventStep
        BY <4>1 DEF EventStep, Abnormal, Acknowledge, Resolve, Hush, Test
      <4>3. ~AdminStep
        BY <4>1 DEF AdminStep, SetChannel, DeleteChannel, Retry
      <4>4. ~TimeStep
        BY <4>1 DEF TimeStep, Tick, BecomesDue, CooldownEnds, LeaseEnds, LeaseOverrun
      <4> QED BY <4>1, <4>2, <4>3, <4>4 DEF Next, vars
    <3>2. ASSUME NEW d \in Deliveries, Look(v, d) \/ Take(v, d)
          PROVE  job'[w].row[2] = "firing"
      BY <1>2, <2>1, <2>3, <3>2 DEF Look, Take
    <3>3. CASE Miss(v) \/ MarkSuppressed(v) \/ Finish(v)
      BY <1>2, <2>1, <2>3, <3>3 DEF Miss, MarkSuppressed, Finish, Idle
    <3>4. CASE Release(v) \/ Abandon(v)
      BY <1>2, <2>1, <2>3, <3>4 DEF Release, Abandon, Idle
    <3>5. CASE Start(v) \/ SendClosed(v)
      BY <1>2, <2>1, <2>3, <3>5 DEF Start, SendClosed, Idle
    <3>6. ASSUME NEW outcome \in Outcomes, Send(v, outcome)
          PROVE  job'[w].row[2] = "firing"
      BY <1>2, <2>1, <2>3, <3>6 DEF Send, Outcomes
    <3>7. CASE Recheck(v)
      BY <1>2, <2>1, <2>3, <3>7 DEF Recheck, Suppressed
    <3> QED BY <3>1, <3>2, <3>3, <3>4, <3>5, <3>6, <3>7 DEF WorkerStep, Progress
  <2> QED BY <2>2, <2>3
<1> QED BY <1>1, <1>2 DEF OnlyFirstReports

LEMMA FirstReportsAlways == Spec => []OnlyFirstReports
<1>1. TypeOK /\ OnlyFirstReports /\ [Next]_vars => OnlyFirstReports'
  BY FirstReportsStep
<1> QED BY <1>1, FirstReportsInit, TypeCorrect, PTL DEF Spec

\* A worker whose lease is over overwrites nothing: a finished delivery is only
\* reopened by a retry or, if it was suppressed, replaced by a new first report
\* of an open event, and a claim ends by its holder or by a new claim.
THEOREM ResultsFenced == Spec => FencedResults
<1>1. TypeOK /\ OnlyFirstReports /\ [Next]_vars =>
        \A d \in Deliveries :
          /\ delivery[d].status \in Finished /\ delivery'[d] # delivery[d] =>
               /\ delivery'[d].status = "pending" /\ delivery'[d].cycle = 0
               /\ \/ delivery[d].status = "failed" /\ retries' = retries + 1
                  \/ /\ delivery[d].status = "suppressed" /\ d[2] = "firing"
                     /\ event[d[1]] # "resolved"
          /\ /\ delivery[d].status = "processing"
             /\ delivery'[d].holder # delivery[d].holder
             => \/ ~delivery[d].live /\ delivery'[d].status = "processing"
                \/ \E w \in Workers : /\ delivery[d].holder = w /\ WorksOn(w, d)
                                      /\ job'[w] = Idle
  BY StepFenced DEF Fenced, FinishedKept, ClaimKept
<1> QED BY <1>1, TypeCorrect, FirstReportsAlways, PTL DEF Spec, FencedResults

-----------------------------------------------------------------------------
(***************************************************************************)
(* Recovery.  A notice of recovery exists only for a resolved event, and   *)
(* its claim looks for other deliveries that are being sent: once a worker *)
(* has it, nobody has a first report of the event past its recheck under a *)
(* lease that runs, and the recheck of a resolved event lets none pass.    *)
(***************************************************************************)
Recovering(e) ==
  reached[e] = Rank["resolved"] \/ \E w \in Workers : job[w].row = <<e, "resolved">>

Reporting(w, e) ==
  /\ job[w].row = <<e, "firing">> /\ job[w].at \in {"cleared", "sending"}
  /\ Holds(w) /\ delivery[<<e, "firing">>].live

RecoveryIsKnown ==
  \A e \in Events :
    delivery[<<e, "resolved">>].status # "absent" \/ Recovering(e) => event[e] = "resolved"
ReportsAreOver ==
  \A e \in Events : Recovering(e) => \A w \in Workers : ~Reporting(w, e)
IRecovery == RecoveryIsKnown /\ ReportsAreOver

\* An event, an administrator and time take no claim and extend none, and only the
\* resolution of an event queues the notice of its recovery.
Unclaimed(d) ==
  /\ delivery'[d].status = "processing" =>
       /\ delivery[d].status = "processing" /\ delivery'[d].holder = delivery[d].holder
       /\ delivery'[d].live => delivery[d].live
  /\ d[1] \in Events /\ d[2] = "resolved" /\ delivery'[d].status # "absent" =>
       delivery[d].status # "absent" \/ event'[d[1]] = "resolved"

LEMMA EventUnclaimed ==
  ASSUME TypeOK, EventStep, NEW d \in Deliveries
  PROVE  Unclaimed(d)
<1>0. /\ delivery \in Rows /\ delivery \in [Deliveries -> Row]
      /\ event \in [Events -> EventStates] /\ quiet \in BOOLEAN /\ clock \in Times
  BY DEF TypeOK, Rows, Shaped
<1> SUFFICES ASSUME delivery'[d] # delivery[d] PROVE Unclaimed(d)
  BY DEF Unclaimed
<1>1. ASSUME NEW e \in Events, NEW t \in Times, Abnormal(e, t)
      PROVE  Unclaimed(d)
  <2>1. delivery' = Enqueue(delivery, e, "firing", t, quiet) /\ "firing" \in Lifecycle
    BY <1>1 DEF Abnormal, Lifecycle
  <2>2. d = <<e, "firing">> /\ delivery'[d].status \in {"pending", "suppressed"}
    BY <1>0, <2>1, EnqueueRows
  <2> QED BY <2>2 DEF Unclaimed
<1>2. ASSUME NEW e \in Events, NEW t \in Times, Acknowledge(e, t)
      PROVE  Unclaimed(d)
  <2>1. /\ delivery' = Enqueue(delivery, e, "acknowledged", t, FALSE)
        /\ "acknowledged" \in Lifecycle
    BY <1>2 DEF Acknowledge, Lifecycle
  <2>2. d = <<e, "acknowledged">> /\ delivery'[d].status = "pending"
    <3>1. \/ Enqueue(delivery, e, "acknowledged", t, FALSE)[d] = delivery[d]
          \/ /\ d = <<e, "acknowledged">>
             /\ delivery[d].status \in {"absent", "suppressed"}
             /\ Enqueue(delivery, e, "acknowledged", t, FALSE)[d].cycle = 0
             /\ Enqueue(delivery, e, "acknowledged", t, FALSE)[d].status = "pending"
      <4>1. "acknowledged" \in Lifecycle
        BY <2>1
      <4> QED BY <1>0, <4>1, EnqueueFresh, ZenonT(60)
    <3> QED BY <2>1, <3>1
  <2> QED BY <2>2 DEF Unclaimed
<1>3. ASSUME NEW e \in Events, NEW t \in Times, Resolve(e, t)
      PROVE  Unclaimed(d)
  <2> DEFINE firing == <<e, "firing">>
             new == Done(delivery[firing], "suppressed")
             rows == IF delivery[firing].status = "pending"
                     THEN [delivery EXCEPT ![firing] = new]
                     ELSE delivery
  <2>1. firing \in Deliveries /\ "resolved" \in Lifecycle
    BY DEF Deliveries, Lifecycle
  <2>2. Shaped(new) /\ new.status = "suppressed"
    BY <1>0, <2>1, RowsOf, DoneShape DEF Finished
  <2>3. rows \in Rows
    BY <1>0, <2>1, <2>2, SetRow
  <2>4. \/ rows[d] = delivery[d]
        \/ d = firing /\ rows[d].status = "suppressed"
    BY <1>0, <2>1, <2>2
  <2>5. delivery' = Enqueue(rows, e, "resolved", t, FALSE) /\ event'[e] = "resolved"
    BY <1>0, <1>3 DEF Resolve
  <2> HIDE DEF rows
  <2>6. \/ delivery'[d] = rows[d]
        \/ d = <<e, "resolved">> /\ delivery'[d].status = "pending"
    <3>1. \/ Enqueue(rows, e, "resolved", t, FALSE)[d] = rows[d]
          \/ /\ d = <<e, "resolved">>
             /\ rows[d].status \in {"absent", "suppressed"}
             /\ Enqueue(rows, e, "resolved", t, FALSE)[d].cycle = 0
             /\ Enqueue(rows, e, "resolved", t, FALSE)[d].status = "pending"
      BY <2>1, <2>3, EnqueueFresh, ZenonT(60)
    <3> QED BY <2>5, <3>1
  <2>7. \/ d = firing /\ delivery'[d].status = "suppressed"
        \/ d = <<e, "resolved">> /\ delivery'[d].status = "pending"
    BY <2>4, <2>6
  <2>8. CASE d = firing /\ delivery'[d].status = "suppressed"
    BY <2>8 DEF Unclaimed
  <2>9. CASE d = <<e, "resolved">> /\ delivery'[d].status = "pending"
    <3>1. d[1] = e
      BY <2>9
    <3> QED BY <2>5, <2>9, <3>1 DEF Unclaimed
  <2> QED BY <2>7, <2>8, <2>9
<1>4. ~Hush
  BY DEF Hush
<1>5. ASSUME NEW x \in Tests, Test(x)
      PROVE  Unclaimed(d)
  <2>1. d = <<x, "test">> /\ delivery'[d] = Queued(clock)
    BY <1>0, <1>5 DEF Test
  <2>2. delivery'[d].status = "pending"
    BY <1>0, <2>1, QueuedShape
  <2> QED BY <2>1, <2>2 DEF Unclaimed
<1> QED BY <1>1, <1>2, <1>3, <1>4, <1>5 DEF EventStep

LEMMA AdminUnclaimed ==
  ASSUME TypeOK, AdminStep, NEW d \in Deliveries
  PROVE  Unclaimed(d)
<1>0. /\ delivery \in Rows /\ delivery \in [Deliveries -> Row]
  BY DEF TypeOK, Rows, Shaped
<1> SUFFICES ASSUME delivery'[d] # delivery[d] PROVE Unclaimed(d)
  BY DEF Unclaimed
<1>1. ASSUME delivery' = FailPending
      PROVE  Unclaimed(d)
  <2>1. delivery[d].status = "pending" /\ delivery'[d] = Done(delivery[d], "failed")
    BY <1>1 DEF FailPending
  <2>2. delivery'[d].status = "failed"
    BY <1>0, <2>1, RowsOf, DoneShape DEF Finished
  <2> QED BY <2>1, <2>2 DEF Unclaimed
<1>2. ASSUME NEW o \in Deliveries, Retry(o)
      PROVE  Unclaimed(d)
  <2>1. /\ d = o /\ delivery[d].status = "failed"
        /\ delivery'[d] = [Back(delivery[d]) EXCEPT !.cycle = 0, !.due = TRUE]
    BY <1>0, <1>2 DEF Retry
  <2>2. Back(delivery[d]) \in Row /\ Back(delivery[d]).status = "pending"
    BY <1>0, BackShape DEF Shaped
  <2>3. delivery'[d].status = "pending"
    BY <2>1, <2>2 DEF Row
  <2> QED BY <2>1, <2>3 DEF Unclaimed
<1> QED BY <1>1, <1>2 DEF AdminStep, SetChannel, DeleteChannel

LEMMA TimeUnclaimed ==
  ASSUME TypeOK, TimeStep, NEW d \in Deliveries
  PROVE  Unclaimed(d)
<1>0. delivery \in [Deliveries -> Row]
  BY DEF TypeOK
<1>1. CASE Tick \/ CooldownEnds
  BY <1>1 DEF Tick, CooldownEnds, Unclaimed
<1>2. ASSUME NEW o \in Deliveries, BecomesDue(o) \/ LeaseEnds(o) \/ LeaseOverrun(o)
      PROVE  Unclaimed(d)
  <2>1. /\ delivery'[d].status = delivery[d].status
        /\ delivery'[d].holder = delivery[d].holder
        /\ delivery'[d].live => delivery[d].live
    BY <1>0, <1>2 DEF BecomesDue, LeaseEnds, LeaseOverrun, Row
  <2> QED BY <2>1 DEF Unclaimed
<1> QED BY <1>1, <1>2 DEF TimeStep

\* Without a claim nothing of the invariant is lost.
LEMMA UnclaimedKeeps ==
  ASSUME TypeOK, IRecovery, job' = job, reached' = reached,
         \A d \in Deliveries : Unclaimed(d),
         \A e \in Events : event[e] = "resolved" => event'[e] = "resolved"
  PROVE  IRecovery'
<1>1. \A e \in Events : Recovering(e)' <=> Recovering(e)
  BY DEF Recovering
<1>2. \A e \in Events : <<e, "resolved">> \in Deliveries /\ <<e, "firing">> \in Deliveries
  BY DEF Deliveries, Lifecycle
<1>3. RecoveryIsKnown'
  BY <1>1, <1>2 DEF IRecovery, RecoveryIsKnown, Unclaimed
<1>4. ASSUME NEW e \in Events, NEW w \in Workers, Reporting(w, e)'
      PROVE  Reporting(w, e)
  BY <1>2, <1>4 DEF Reporting, Holds, Unclaimed
<1> QED BY <1>1, <1>3, <1>4 DEF IRecovery, ReportsAreOver

LEMMA OthersRecovery ==
  ASSUME TypeOK, IRecovery, EventStep \/ AdminStep \/ TimeStep
  PROVE  IRecovery'
<1>1. \A d \in Deliveries : Unclaimed(d)
  BY EventUnclaimed, AdminUnclaimed, TimeUnclaimed
<1>2. job' = job /\ reached' = reached
  BY DEF EventStep, AdminStep, TimeStep, Abnormal, Acknowledge, Resolve, Hush, Test,
         SetChannel, DeleteChannel, Retry, Tick, BecomesDue, CooldownEnds, LeaseEnds,
         LeaseOverrun
<1>3. \A e \in Events : event[e] = "resolved" => event'[e] = "resolved"
  BY DEF TypeOK, EventStep, AdminStep, TimeStep, Abnormal, Acknowledge, Resolve, Hush, Test,
         SetChannel, DeleteChannel, Retry, Tick, BecomesDue, CooldownEnds, LeaseEnds,
         LeaseOverrun, events
<1> QED BY <1>1, <1>2, <1>3, UnclaimedKeeps

\* A worker meets a notice of recovery by looking for a delivery; what it has sent, it
\* held before.
LEMMA WorkerMeets ==
  ASSUME TypeOK, NEW v \in Workers, WorkerStep(v), NEW e \in Events, Recovering(e)'
  PROVE  Recovering(e) \/ Look(v, <<e, "resolved">>)
<1>0. /\ job \in [Workers -> [at : Points, row : Deliveries \cup {NoRow}]]
      /\ reached \in [Events -> 0 .. 3]
      /\ <<e, "resolved">> # NoRow
  BY DeliveriesAssumption DEF TypeOK, Deliveries, Lifecycle
<1> SUFFICES ASSUME ~Recovering(e) PROVE Look(v, <<e, "resolved">>)
  OBVIOUS
<1>1. \A w \in Workers : job[w].row # <<e, "resolved">>
  BY DEF Recovering
<1>2. ASSUME NEW d \in Deliveries, Look(v, d) \/ Take(v, d)
      PROVE  Look(v, <<e, "resolved">>)
  <2>1. reached' = reached
    BY <1>2 DEF Look, Take
  <2>2. PICK w \in Workers : job'[w].row = <<e, "resolved">>
    BY <2>1 DEF Recovering
  <2>3. CASE Look(v, d)
    <3>1. w = v /\ job'[w].row = d
      BY <1>0, <1>1, <2>2, <2>3 DEF Look
    <3> QED BY <2>2, <2>3, <3>1
  <2>4. CASE Take(v, d)
    <3>1. job'[w].row = job[w].row
      BY <1>0, <2>4 DEF Take
    <3> QED BY <1>1, <2>2, <3>1
  <2> QED BY <1>2, <2>3, <2>4
<1>3. ASSUME NEW w \in Workers, job'[w].row = job[w].row \/ job'[w].row = NoRow
      PROVE  job'[w].row # <<e, "resolved">>
  BY <1>0, <1>1, <1>3
<1>4. ASSUME \A w \in Workers : job'[w].row = job[w].row \/ job'[w].row = NoRow,
             reached' = reached
      PROVE  FALSE
  BY <1>3, <1>4 DEF Recovering
<1>5. ~ (Miss(v) \/ MarkSuppressed(v) \/ Release(v) \/ Abandon(v) \/ Finish(v))
  BY <1>0, <1>4 DEF Miss, MarkSuppressed, Release, Abandon, Finish, Idle
<1>6. ~ (Recheck(v) \/ SendClosed(v))
  BY <1>0, <1>4 DEF Recheck, SendClosed
<1>7. ~ Start(v)
  BY <1>0, <1>4 DEF Start, Idle
<1>8. ASSUME NEW outcome \in Outcomes, Send(v, outcome)
      PROVE  FALSE
  <2>1. \A w \in Workers : job'[w].row = job[w].row
    BY <1>0, <1>8 DEF Send
  <2>2. reached'[e] = Rank["resolved"] /\ reached[e] # Rank["resolved"]
    BY <1>3, <2>1 DEF Recovering
  <2>3. job[v].row[1] = e /\ Rank[job[v].row[2]] = Rank["resolved"]
    BY <1>0, <1>8, <2>2 DEF Send
  <2>4. job[v].row \in Deliveries /\ job[v].row[1] \in Events
    BY <1>0, <1>8, <2>2 DEF Send, TypeOK
  <2>5. \E kind \in Lifecycle : job[v].row = <<e, kind>>
    BY <2>3, <2>4, DeliveriesAssumption DEF Deliveries
  <2> QED BY <1>1, <2>3, <2>5 DEF Rank, Lifecycle
<1> QED BY <1>2, <1>5, <1>6, <1>7, <1>8 DEF WorkerStep, Progress

\* A worker gets past the recheck of a first report only while its event is open.
LEMMA WorkerReports ==
  ASSUME TypeOK, NEW v \in Workers, WorkerStep(v), NEW e \in Events, NEW w \in Workers,
         Reporting(w, e)', event[e] = "resolved"
  PROVE  Reporting(w, e)
<1> DEFINE d == <<e, "firing">>
<1>0. /\ job \in [Workers -> [at : Points, row : Deliveries \cup {NoRow}]]
      /\ delivery \in Rows /\ delivery \in [Deliveries -> Row]
      /\ d \in Deliveries /\ d # NoRow
  BY DeliveriesAssumption DEF TypeOK, Rows, Shaped, Deliveries, Lifecycle
<1>1. /\ job'[w].row = d /\ job'[w].at \in {"cleared", "sending"}
      /\ delivery'[d].status = "processing" /\ delivery'[d].holder = w /\ delivery'[d].live
  BY DEF Reporting, Holds
<1> USE DEF Reporting, Holds
<1>2. ASSUME NEW o \in Deliveries, Look(v, o)
      PROVE  Reporting(w, e)
  BY <1>0, <1>1, <1>2 DEF Look
<1>3. ASSUME NEW o \in Deliveries, Take(v, o)
      PROVE  Reporting(w, e)
  <2>1. w # v
    BY <1>0, <1>1, <1>3 DEF Take
  <2>2. o # d
    BY <1>0, <1>1, <1>3, <2>1 DEF Take
  <2> QED BY <1>0, <1>1, <1>3, <2>1, <2>2 DEF Take
<1>4. CASE Miss(v) \/ SendClosed(v) \/ Abandon(v)
  BY <1>0, <1>1, <1>4 DEF Miss, SendClosed, Abandon, Idle
<1>5. CASE Recheck(v)
  BY <1>0, <1>1, <1>5 DEF Recheck, Suppressed
<1>6. ASSUME NEW outcome \in Outcomes, Send(v, outcome)
      PROVE  Reporting(w, e)
  BY <1>0, <1>1, <1>6 DEF Send, Outcomes
<1>7. CASE Start(v)
  <2>1. /\ delivery[d].status = "processing" /\ delivery[d].holder = w /\ delivery[d].live
    <3>1. \/ delivery'[d] = delivery[d]
          \/ delivery'[d] = [delivery[d] EXCEPT !.cycle = @ + 1]
      BY <1>0, <1>7 DEF Start
    <3>2. /\ delivery'[d].status = delivery[d].status
          /\ delivery'[d].holder = delivery[d].holder
          /\ delivery'[d].live = delivery[d].live
      BY <1>0, <3>1, ZenonT(60) DEF Row
    <3> QED BY <1>1, <3>2, SMTT(60)
  <2>2. job[w].row = d /\ job[w].at \in {"cleared", "sending"}
    BY <1>0, <1>1, <1>7 DEF Start, Idle
  <2> QED BY <2>1, <2>2
<1>8. ASSUME w # v => job'[w] = job[w], job'[v] = Idle,
             delivery'[d] = delivery[d] \/ delivery'[d].status # "processing"
      PROVE  Reporting(w, e)
  BY <1>0, <1>1, <1>8 DEF Idle
<1>9. Back(delivery[d]).status = "pending" /\ Done(delivery[d], "suppressed").status = "suppressed"
  BY <1>0, RowsOf, BackShape, DoneShape DEF Finished
<1>10. CASE MarkSuppressed(v) \/ Release(v)
  <2>1. /\ w # v => job'[w] = job[w]
        /\ job'[v] = Idle
    BY <1>0, <1>10 DEF MarkSuppressed, Release
  <2>2. delivery'[d] \in {delivery[d], Back(delivery[d]), Done(delivery[d], "suppressed")}
    BY <1>0, <1>10 DEF MarkSuppressed, Release
  <2> QED BY <1>8, <1>9, <2>1, <2>2
<1>11. CASE Finish(v)
  <2>1. /\ w # v => job'[w] = job[w]
        /\ job'[v] = Idle
    BY <1>0, <1>11 DEF Finish
  <2>2. CASE delivery'[d] = delivery[d]
    BY <1>8, <2>1, <2>2
  <2>3. CASE job[v].row = d /\ delivery'[d] = Recorded(v)
    <3>1. \A s \in Finished : Done(delivery[d], s).status = s
      BY <1>0, RowsOf, DoneShape
    <3>2. Recorded(v).status # "processing"
      BY <1>9, <2>3, <3>1 DEF Recorded, Finished
    <3> QED BY <1>8, <2>1, <2>3, <3>2
  <2>4. CASE /\ delivery[d].status = "pending"
             /\ delivery'[d] = [delivery[d] EXCEPT !.due = FALSE]
    <3>1. delivery'[d].status # "processing"
      BY <1>0, <2>4 DEF Row
    <3> QED BY <1>8, <2>1, <3>1
  <2>5. \/ delivery' = delivery
        \/ d = job[v].row /\ delivery'[d] = Recorded(v)
        \/ delivery'[d] = delivery[d]
        \/ /\ delivery[d].status = "pending"
           /\ delivery'[d] = [delivery[d] EXCEPT !.due = FALSE]
    <3>1. CASE Holds(v)
      <4>1. PICK cools \in BOOLEAN : delivery' = [o \in Deliveries |->
              IF o = job[v].row THEN Recorded(v)
              ELSE IF cools /\ delivery[o].status = "pending"
                   THEN [delivery[o] EXCEPT !.due = FALSE] ELSE delivery[o]]
        BY <1>11, <3>1, ZenonT(60) DEF Finish
      <4>2. d \in Deliveries
        BY <1>0
      <4> HIDE DEF d
      <4> QED BY <4>1, <4>2, ZenonT(60)
    <3>2. CASE ~Holds(v)
      BY <1>11, <3>2 DEF Finish
    <3> QED BY <3>1, <3>2
  <2> QED BY <2>2, <2>3, <2>4, <2>5
<1> QED BY <1>2, <1>3, <1>4, <1>5, <1>6, <1>7, <1>10, <1>11 DEF WorkerStep, Progress

\* A worker puts no delivery where there was none.
LEMMA WorkerAddsNone ==
  ASSUME TypeOK, NEW v \in Workers, WorkerStep(v), NEW d \in Deliveries,
         delivery'[d].status # "absent"
  PROVE  delivery[d].status # "absent"
<1>0. /\ job \in [Workers -> [at : Points, row : Deliveries \cup {NoRow}]]
      /\ delivery \in [Deliveries -> Row]
  BY DEF TypeOK
<1>1. ASSUME NEW o \in Deliveries, Look(v, o) \/ Take(v, o)
      PROVE  delivery[d].status # "absent"
  BY <1>0, <1>1 DEF Look, Take, Ready
<1>2. CASE Miss(v) \/ Recheck(v) \/ SendClosed(v) \/ Abandon(v)
  BY <1>2 DEF Miss, Recheck, SendClosed, Abandon
<1>3. ASSUME NEW outcome \in Outcomes, Send(v, outcome)
      PROVE  delivery[d].status # "absent"
  BY <1>3 DEF Send
<1>4. CASE MarkSuppressed(v) \/ Release(v)
  BY <1>0, <1>4 DEF MarkSuppressed, Release, Holds
<1>5. CASE Start(v)
  BY <1>0, <1>5 DEF Start, Holds
<1>6. CASE Finish(v)
  BY <1>0, <1>6 DEF Finish, Holds
<1> QED BY <1>1, <1>2, <1>3, <1>4, <1>5, <1>6 DEF WorkerStep, Progress

LEMMA WorkersRecovery ==
  ASSUME TypeOK, IRecovery, NEW v \in Workers, WorkerStep(v)
  PROVE  IRecovery'
<1>1. event' = event
  BY DEF WorkerStep, Progress, Look, Take, Miss, Recheck, MarkSuppressed, Release, Start, Send,
         SendClosed, Finish, Abandon, events
<1>2. \A e \in Events : <<e, "resolved">> \in Deliveries /\ <<e, "firing">> \in Deliveries
  BY DEF Deliveries, Lifecycle
<1>3. ASSUME NEW e \in Events, Recovering(e)'
      PROVE  event[e] = "resolved"
  BY <1>2, <1>3, WorkerMeets DEF IRecovery, RecoveryIsKnown, Look, Ready
<1>4. RecoveryIsKnown'
  BY <1>1, <1>2, <1>3, WorkerAddsNone DEF IRecovery, RecoveryIsKnown
<1>5. ASSUME NEW e \in Events, Recovering(e)', NEW w \in Workers, Reporting(w, e)'
      PROVE  FALSE
  <2>1. Reporting(w, e)
    BY <1>3, <1>5, WorkerReports
  <2>2. Look(v, <<e, "resolved">>)
    BY <1>5, <2>1, WorkerMeets DEF IRecovery, ReportsAreOver
  <2>3. delivery[<<e, "firing">>].status = "processing" /\ delivery[<<e, "firing">>].live
    BY <2>1 DEF Reporting, Holds
  <2> QED BY <1>2, <2>2, <2>3 DEF Look, InFlight
<1> QED BY <1>4, <1>5 DEF IRecovery, ReportsAreOver

LEMMA RecoveryInit == Init => IRecovery
<1> SUFFICES ASSUME Init PROVE IRecovery
  OBVIOUS
<1>1. \A e \in Events : <<e, "resolved">> \in Deliveries /\ <<e, "resolved">> # NoRow
  BY DeliveriesAssumption DEF Deliveries, Lifecycle
<1>2. \A e \in Events : ~Recovering(e)
  BY <1>1 DEF Init, Recovering, Rank, Idle
<1> QED BY <1>1, <1>2 DEF Init, IRecovery, RecoveryIsKnown, ReportsAreOver, Absent

LEMMA RecoveryStep ==
  ASSUME TypeOK, IRecovery, [Next]_vars
  PROVE  IRecovery'
<1>1. CASE UNCHANGED vars
  BY <1>1 DEF vars, events, IRecovery, RecoveryIsKnown, ReportsAreOver, Recovering, Reporting,
              Holds
<1> QED BY <1>1, OthersRecovery, WorkersRecovery DEF Next

\* No first report of an alert leaves, under a lease that runs, once a notice of its
\* recovery has left (alerts.rs: claim_delivery, current_delivery_suppression).
THEOREM RecoveryStaysLast == Spec => RecoveryIsLast
<1>1. TypeOK /\ IRecovery /\ [Next]_vars =>
        \A w \in Workers, e \in Events :
          SendsUnderLease(w, <<e, "firing">>) => reached[e] < Rank["resolved"]
  <2> SUFFICES ASSUME TypeOK, IRecovery, NEW w \in Workers, NEW e \in Events,
                      SendsUnderLease(w, <<e, "firing">>)
               PROVE  reached[e] < Rank["resolved"]
    OBVIOUS
  <2>1. Reporting(w, e)
    BY DEF SendsUnderLease, Reporting
  <2>2. reached[e] # Rank["resolved"]
    BY <2>1 DEF IRecovery, ReportsAreOver, Recovering
  <2>3. reached[e] \in 0 .. 3 /\ Rank["resolved"] = 3
    BY DEF TypeOK, Rank
  <2> QED BY <2>2, <2>3
<1>2. Spec => []IRecovery
  <2>1. TypeOK /\ IRecovery /\ [Next]_vars => IRecovery'
    BY RecoveryStep
  <2> QED BY <2>1, RecoveryInit, TypeCorrect, PTL DEF Spec
<1> QED BY <1>1, <1>2, TypeCorrect, PTL DEF Spec, RecoveryIsLast
=============================================================================
