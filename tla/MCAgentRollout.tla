--------------------------- MODULE MCAgentRollout ---------------------------
(***************************************************************************)
(* AgentRollout on a small fleet.                                          *)
(***************************************************************************)
EXTENDS AgentRollout, TLC

Symmetry == Permutations(Admins) \cup Permutations(Reconcilers)

\* Bounds that keep the larger runs small: instances are approved before the
\* first release is created, none is disabled, and packages are uploaded only
\* until the release is published.
ApprovedFirst ==
  (\E r \in Releases : rollout[r] # "absent") => \A i \in Instances : member[i] # "pending"
NeverDisabled == \A i \in Instances : member[i] # "disabled"
UploadedOnce  == \A r \in fresh : rollout[r] = "draft"
\* A registered agent has reported that it can be updated before there is a release.
ApprovedEarly == (\E r \in Releases : rollout[r] # "absent") /\ next = 1
                 => \A i \in Instances : supported[i]
\* A fleet that sees a third attempt had no retry of the first two.
RetriedShortly == (\E a \in Attempts : retry[a] > 0) => next <= MaxAttempts
\* A second attempt follows a first one that did not fail, and no agent looks for a
\* third upgrade.
SecondFollows ==
  next > 2 => /\ \A a \in Rows : a = 1 => status[a] # "failed"
              /\ \A i \in Instances : look[i] # None => look[i].step = "deliver"
\* A rollback of a whole release is looked at where it follows two upgrades: only the
\* later of two releases is rolled back, a third attempt is a rollback, no upgrade
\* failed and no request of the console or of an agent is under way.
ThirdReturns ==
  (next > 3 \/ \E k \in Reconcilers : recon[k] # None) =>
    /\ next > 2
    /\ \A r, s \in Releases : r < s => rollout[r] \in {"full_active", "deleted"}
    /\ \A r \in Releases : rollout[r] \notin {"canary_paused", "full_paused"}
    /\ \A a \in Rows : a = 3 => row[a].op = "rollback"
    /\ \A a \in Rows : row[a].op = "upgrade" => status[a] \notin {"failed", "rollback_succeeded"}
    /\ \A d \in Admins : admin[d] = None
    /\ \A i \in Instances : look[i] # None => look[i].step = "deliver"
=============================================================================
