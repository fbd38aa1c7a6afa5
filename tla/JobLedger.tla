----------------------------- MODULE JobLedger -----------------------------
(***************************************************************************)
(* What a reader of the command_jobs table may rely on, whatever the       *)
(* connections, handlers and loops of the backend do: a row is queued,     *)
(* starts at most once, finishes at most once and is then never changed;   *)
(* it only disappears with its instance.  CommandJobs implements this.     *)
(***************************************************************************)
EXTENDS Integers, FiniteSets

CONSTANTS Jobs,          \* ids of command_jobs rows
          MaxInflight    \* MAX_INFLIGHT_COMMANDS_PER_INSTANCE

VARIABLE status          \* the column command_jobs.status; "absent": no row yet

Statuses == {"absent", "queued", "running", "completed", "failed", "deleted"}
Inflight == {j \in Jobs : status[j] \in {"queued", "running"}}

Init == status = [j \in Jobs |-> "absent"]

Queue(j) ==
  /\ status[j] = "absent"
  /\ Cardinality(Inflight) < MaxInflight
  /\ status' = [status EXCEPT ![j] = "queued"]

Start(j) ==
  /\ status[j] = "queued"
  /\ status' = [status EXCEPT ![j] = "running"]

Complete(j) ==
  /\ status[j] = "running"
  /\ status' = [status EXCEPT ![j] = "completed"]

\* Timeouts, closed connections and restarts fail many rows in one statement.
Fail(S) == status' = [j \in Jobs |-> IF j \in S THEN "failed" ELSE status[j]]

DeleteRows ==
  status' = [j \in Jobs |-> IF status[j] = "absent" THEN "absent" ELSE "deleted"]

Next == \/ \E j \in Jobs : Queue(j) \/ Start(j) \/ Complete(j)
        \/ \E S \in SUBSET Inflight : Fail(S)
        \/ DeleteRows

Spec == Init /\ [][Next]_status
=============================================================================
