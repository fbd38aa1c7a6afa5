------------------------------ MODULE MCFleet ------------------------------
(***************************************************************************)
(* Safety on small instances: the control of releases on a small fleet     *)
(* (AgentRollout), and beside it what happens on the computer of an        *)
(* instance: the installation on Windows (WindowsInstall) and the commands *)
(* that start and stop an agent (AgentProcess).  They share nothing: one   *)
(* part moves, the others have not begun.                                  *)
(***************************************************************************)
EXTENDS MCAgentRollout

CONSTANTS
  Programs,  \* the versions of the installers that are run
  MaxRuns,   \* bound on the installations and removals
  MaxFaults, \* bound on their steps that fail and the agents that end
  Users,     \* who gives commands
  MaxPid,    \* bound on the agents that are started
  MaxTurns   \* bound on the commands

VARIABLES part,
  disk, service, installer, start, died, outcome, cleanup, hasty, runs, pids, faults,
  lock, pidFile, readyFile, stopFile, agent, asked, cli, turns

W == INSTANCE WindowsInstall WITH Versions <- Programs
installVars == <<disk, service, installer, start, died, outcome, cleanup, hasty, runs, pids, faults>>
P == INSTANCE AgentProcess
processVars == <<lock, pidFile, readyFile, stopFile, agent, asked, cli, turns>>

\* "Nothing" is no version, run, process or service and no place; users are no processes.
ASSUME InstallAssumption ==
  /\ MaxRuns \in Nat /\ MaxFaults \in Nat
  /\ None \notin Programs \cup Nat \cup W!Services \cup {"program", "legacy"}
ASSUME ProcessAssumption ==
  /\ MaxPid \in Nat /\ MaxTurns \in Nat
  /\ None \notin P!Pids \cup Users \cup {P!Any} /\ Users \cap P!Pids = {}

Begun == /\ part \in {"rollout", "install", "process"}
         /\ Init /\ W!Init(MaxFaults) /\ P!Init
         \* Of a part that has not begun one beginning is enough.
         /\ part # "install" => service = W!Absent
Moves ==
  /\ UNCHANGED part
  /\ \/ part = "rollout" /\ Next /\ UNCHANGED <<installVars, processVars>>
     \/ part = "install" /\ W!Next /\ UNCHANGED <<vars, processVars>>
     \/ part = "process" /\ P!Next /\ UNCHANGED <<vars, installVars>>
FleetSpec == Begun /\ [][Moves]_<<part, vars, installVars, processVars>>

\* What is reported of an agent is so: an installation that succeeds serves the new agent,
\* and one that is rolled back the old one, unless a removal was still to take their files;
\* a stop ends the agent it saw and no other.
SetupHolds == W!InstallHolds /\ P!ProcessesHold
\* A run that began before a removal was done meets one fault.
HastyOnce == hasty => faults >= MaxFaults - 1
=============================================================================
