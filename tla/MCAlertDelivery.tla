--------------------------- MODULE MCAlertDelivery ---------------------------
EXTENDS AlertDelivery, TLC

CONSTANTS e1, t1, w1, w2

MCEvents  == {e1}
MCTests   == {t1}
MCWorkers == {w1, w2}
MCWorker  == {w1}

Symmetry == Permutations(MCWorkers)

\* Two states the queue gets to, from which an instance with an alert and a test
\* notification stays small: the test notification was retried and delivered,
\* and the alert is to come; or the alert is over and delivered, and the test
\* notification is to come.
Delivered(ds) == [d \in Deliveries |-> IF d \in ds THEN Done(Absent, "succeeded") ELSE Absent]
Begun ==
  /\ \/ /\ delivery = Delivered(Deliveries \ (Events \X Lifecycle))
        /\ event = [e \in Events |-> "none"] /\ reached = [e \in Events |-> 0]
        /\ retries = MaxRetries
     \/ /\ delivery = Delivered(Events \X Lifecycle)
        /\ event = [e \in Events |-> "resolved"] /\ reached = [e \in Events |-> 3]
        /\ retries = 0
  /\ fired = [e \in Events |-> 0] /\ seen = [e \in Events |-> 0]
  /\ quiet = FALSE /\ channel = "on" /\ cooldown = FALSE
  /\ job = [w \in Workers |-> Idle]
  /\ clock = 0 /\ faults = 0
BegunSpec == Begun /\ [][Next]_vars
=============================================================================
