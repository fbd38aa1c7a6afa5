--------------------------- MODULE ReleaseControl ---------------------------
(***************************************************************************)
(* The life of agent releases as the console shows it                      *)
(* (agent_releases.rollout_state): what an operator may rely on, whatever  *)
(* the instances, their update attempts and the background tasks do.  At   *)
(* most one release is in a canary, paused or being rolled back.           *)
(* AgentRollout implements this.                                           *)
(***************************************************************************)
CONSTANT Releases
VARIABLE rollout         \* "absent": not created yet, "deleted": removed

Canary     == {"canary_active", "canary_paused"}
Live       == Canary \cup {"full_active", "full_paused"}
Controlled == Canary \cup {"full_paused", "rollback_active"}
States     == Live \cup {"absent", "draft", "rollback_active",
                         "rollback_partial", "rolled_back", "deleted"}

\* No other release is under control.
Free(r) == \A s \in Releases \ {r} : rollout[s] \notin Controlled

Move(r, from, to) ==
  /\ rollout[r] \in from
  /\ rollout' = [rollout EXCEPT ![r] = to]

Init == rollout = [r \in Releases |-> "absent"]

Create(r)   == Move(r, {"absent"}, "draft")
Start(r)    == Free(r) /\ Move(r, {"draft"}, "canary_active")
Pause(r)    == Free(r) /\ \/ Move(r, {"canary_active"}, "canary_paused")
                          \/ Move(r, {"full_active"}, "full_paused")
Resume(r)   == \/ Move(r, {"canary_paused"}, "canary_active")
               \/ Move(r, {"full_paused"}, "full_active")
Promote(r)  == \/ Move(r, {"canary_active"}, "full_active")
               \/ Move(r, {"canary_paused"}, "full_paused")
Rollback(r) == Free(r) /\ Move(r, Live \cup {"rollback_partial"}, "rollback_active")
Settle(r)   == \/ Move(r, {"rollback_active"}, "rolled_back")
               \/ Move(r, {"rollback_active"}, "rollback_partial")
Delete(r)   == Move(r, States \ {"absent", "deleted"}, "deleted")

Next == \E r \in Releases : \/ Create(r) \/ Start(r) \/ Pause(r) \/ Resume(r)
                            \/ Promote(r) \/ Rollback(r) \/ Settle(r) \/ Delete(r)

Spec == Init /\ [][Next]_rollout
=============================================================================
