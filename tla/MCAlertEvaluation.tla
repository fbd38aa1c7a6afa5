-------------------------- MODULE MCAlertEvaluation --------------------------
EXTENDS AlertEvaluation, TLC

\* The instance is small when rules of one kind are watched at a time: the
\* others were deleted before.  Together they are watched with no change left.
Alone(rs, used, covered) ==
  /\ instance = "approved"
  /\ rule = [r \in Rules |-> [state |-> IF r \in rs THEN "on" ELSE "deleted", ver |-> 1]]
  /\ row = [r \in Rules |-> None]
  /\ event = [r \in Rules |-> None]
  /\ window = covered /\ expiring = FALSE
  /\ current = None /\ grace = (used = 0)
  /\ task = [t \in Tasks |-> Idle]
  /\ changes = used
  /\ badAge = [r \in Rules |-> OldestRecovery]
  /\ calmAge = [r \in Rules |-> OldestPending]
Parts == \/ Alone(OfflineRules \cup MetricRules, MaxChanges, "none")
         \/ Alone(OfflineRules, 0, "none")
         \/ \E w \in {"none", "global"} : Alone(ExpiryRules, 0, w)
PartsSpec == Parts /\ [][Next]_vars /\ Fairness
=============================================================================
