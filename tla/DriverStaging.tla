---------------------------- MODULE DriverStaging ----------------------------
(***************************************************************************)
(* The virtual display and audio drivers of the Windows agent              *)
(* (instanceEnd/src/remote_access.rs): installed from the bundle of the    *)
(* executable, recorded in driver-state.json, and taken back when a step   *)
(* fails or the drivers do not work after the reboot they asked for.       *)
(*                                                                         *)
(* A staging may be killed, or fail, between any two of its steps; what is *)
(* left is the journal, the state, and the store of the system.  The next  *)
(* one first recovers from the journal and then judges a reboot.           *)
(*                                                                         *)
(* Installations and removals keep to the update lock, until a removal     *)
(* comes to the data; the service stages when it has connected, and takes  *)
(* no lock.  Whatever began while another was at work is remembered.       *)
(*                                                                         *)
(* A package is its kind and its version: the name the system gives it     *)
(* (oemN.inf) is unique.  Files are replaced in one step.  The checks of   *)
(* hashes, providers and hardware ids, which tell foreign or damaged data  *)
(* from the product's own, hold in every state of the model.               *)
(***************************************************************************)
EXTENDS Integers, FiniteSets

CONSTANTS
  Service,    \* the process of the service
  Setups,     \* those that install or remove the agent
  Versions,   \* the versions of each kind of driver
  MaxBoot,    \* bound on reboots
  None

Stagers  == {Service} \cup Setups
Kinds    == DOMAIN Versions
Packages == UNION {{k} \X Versions[k] : k \in Kinds}
Bundles  == {b \in [Kinds -> UNION {Versions[k] : k \in Kinds}] : \A k \in Kinds : b[k] \in Versions[k]}

VARIABLES
  store,    \* packages in the driver store
  doomed,   \* those that only go with the next reboot
  boot,     \* query_windows_boot_id
  state,    \* driver-state.json
  journal,  \* driver-stage-journal.json
  stager,   \* the steps of the processes
  beside,   \* what began while another process was at work
  settled   \* what was in the store when nothing was pending, not uninstalled since

vars == <<store, doomed, boot, state, journal, stager, beside, settled>>

\* "known" is the state as the process has read it, or is about to write it.
Idle == [at |-> "idle", goal |-> None, from |-> None, pre |-> {}, todo |-> {}, reboot |-> FALSE,
         known |-> None]
Calm(versions, names) ==
  [versions |-> versions, names |-> names, reboot |-> FALSE,
   boot |-> 0, phase |-> None, pre |-> {}, previous |-> None]

Newest(k) == LET vs == {p[2] : p \in {q \in store : q[1] = k}}
             IN  IF vs = {} THEN 0 ELSE CHOOSE v \in vs : \A w \in vs : w <= v

\* What driver-state.json and driver-stage-journal.json hold, if they are there.
States ==
  [versions : [Kinds -> Nat], names : SUBSET Packages, reboot : BOOLEAN, boot : Nat,
   phase : {"install", "rollback", None}, pre : SUBSET Packages,
   previous : [versions : [Kinds -> Nat], names : SUBSET Packages] \cup {None}]
Journals ==
  [phase : {"installing", "committing", "rollback_reboot_pending"}, pre : SUBSET Packages,
   boot : Nat, target : States \cup {None}]

TypeOK ==
  /\ doomed \subseteq store /\ store \subseteq Packages
  /\ boot \in 1 .. MaxBoot
  /\ beside \subseteq {"stage", "uninstall"}
  /\ state \in States \cup {None} /\ journal \in Journals \cup {None}
  /\ settled \subseteq Packages

Init ==
  /\ store = {} /\ doomed = {} /\ settled = {} /\ beside = {}
  /\ boot = 1
  /\ state = None /\ journal = None
  /\ stager = [s \in Stagers |-> Idle]

At(s, where)     == stager[s].at = where
Goes(s, where)   == stager' = [stager EXCEPT ![s].at = where]
Ends(s)          == stager' = [stager EXCEPT ![s] = Idle]
Learns(s, where, known) ==
  stager' = [stager EXCEPT ![s].at = where, ![s].known = known]
UndoFor(s, from, pre) ==
  stager' = [stager EXCEPT ![s].at = "list", ![s].from = from, ![s].pre = pre]
Files   == <<state, journal>>
Machine == <<store, doomed, boot, beside>>

\* A removal stops the service and deletes it before it comes to the drivers.
Locked(s) == ~At(s, "idle") /\ ~At(s, "erase")
Begin(s, goal) ==
  /\ At(s, "idle")
  /\ s \in Setups => \A t \in Setups : ~Locked(t)
  /\ s = Service => goal = "stage" /\ \A t \in Setups : Locked(t) => stager[t].goal = "stage"
  /\ goal = "uninstall" => At(Service, "idle")
  /\ beside' = IF \A t \in Stagers : At(t, "idle") THEN beside ELSE beside \cup {goal}
  /\ stager' = [stager EXCEPT ![s] = [Idle EXCEPT !.at = "journal", !.goal = goal]]
  /\ UNCHANGED <<Files, store, doomed, boot>>

(***************************************************************************)
(* recover_incomplete_driver_stage.                                        *)
(***************************************************************************)
Recovered(s) == IF stager[s].goal = "stage" THEN "state" ELSE "uninstall"

ReadJournal(s) ==
  /\ At(s, "journal")
  /\ \/ journal = None /\ Goes(s, Recovered(s))
     \/ /\ journal # None /\ journal.phase = "committing"
        /\ Learns(s, "redo", journal.target)
     \/ /\ journal # None /\ journal.phase = "installing"
        /\ UndoFor(s, "journal", journal.pre)
     \/ /\ journal # None /\ journal.phase = "rollback_reboot_pending"
        /\ IF journal.boot = boot THEN Ends(s)
           ELSE IF store \subseteq journal.pre THEN Goes(s, "clear")
           ELSE UndoFor(s, "journal", journal.pre)
  /\ UNCHANGED <<Files, Machine>>
RedoCommit(s) ==
  /\ At(s, "redo")
  /\ state' = stager[s].known
  /\ Goes(s, "clear")
  /\ UNCHANGED <<journal, Machine>>
\* A journal that another process has removed is an error.
ClearJournal(s) ==
  /\ At(s, "clear")
  /\ journal' = None
  /\ IF stager[s].from = "install" \/ journal = None THEN Ends(s)
     ELSE stager' = [stager EXCEPT ![s] = [Idle EXCEPT !.at = Recovered(s), !.goal = stager[s].goal]]
  /\ UNCHANGED <<state, Machine>>

(***************************************************************************)
(* rollback_new_product_oem_infs: what is not among the packages that were *)
(* there before is deleted, now or with the next reboot.                   *)
(***************************************************************************)
\* Everything of the product is deleted, also what was there before.
ListNewAll(s) ==
  /\ At(s, "list")
  /\ stager' = [stager EXCEPT ![s].at = "remove", ![s].todo = store, ![s].reboot = FALSE]
  /\ UNCHANGED <<Files, Machine>>

ListNew(s) ==
  /\ At(s, "list")
  /\ stager' = [stager EXCEPT ![s].at = "remove", ![s].todo = store \ stager[s].pre,
                              ![s].reboot = FALSE]
  /\ UNCHANGED <<Files, Machine>>

Delete(s, p, exit) ==
  /\ p \in stager[s].todo \cap store
  /\ \/ store' = store \ {p} /\ doomed' = doomed \ {p}
     \/ exit = "reboot" /\ store' = store /\ doomed' = doomed \cup {p}
  /\ stager' = [stager EXCEPT ![s].todo = @ \ {p}, ![s].reboot = @ \/ exit = "reboot"]
  /\ UNCHANGED <<boot, beside, Files>>
RemoveNew(s, p, exit) == At(s, "remove") /\ Delete(s, p, exit)

\* Nothing is left to delete.  Only the recovery and the judgement after a
\* reboot look whether it is gone.
NewRemoved(s) ==
  /\ At(s, "remove") /\ stager[s].todo = {}
  /\ IF stager[s].reboot THEN Goes(s, "pend")
     ELSE IF stager[s].from # "install" /\ ~(store \subseteq stager[s].pre) THEN Ends(s)
     ELSE Goes(s, IF stager[s].from = "state" THEN "finish" ELSE "clear")
  /\ UNCHANGED <<Files, Machine>>
PendReboot(s) ==
  /\ At(s, "pend")
  /\ IF stager[s].from = "state"
     THEN /\ state' = [stager[s].known EXCEPT !.reboot = TRUE, !.boot = boot, !.phase = "rollback"]
          /\ UNCHANGED journal
     ELSE /\ journal' = [phase |-> "rollback_reboot_pending", pre |-> stager[s].pre,
                         boot |-> boot, target |-> None]
          /\ UNCHANGED state
  /\ Ends(s)
  /\ UNCHANGED Machine

(***************************************************************************)
(* reconcile_driver_reboot_state.                                          *)
(***************************************************************************)
ReadState(s) ==
  /\ At(s, "state")
  /\ IF state = None \/ ~state.reboot THEN Learns(s, "plan", state)
     ELSE IF state.boot = boot THEN Ends(s)
     ELSE IF state.phase = "rollback" /\ store \subseteq state.pre THEN Learns(s, "finish", state)
     ELSE IF state.phase = "install" /\ state.names \subseteq store THEN Learns(s, "probe", state)
     ELSE stager' = [stager EXCEPT ![s].at = "list", ![s].from = "state", ![s].pre = state.pre,
                                   ![s].known = state]
  /\ UNCHANGED <<Files, Machine>>

\* The devices work, do not show yet, or have failed.
ProbeDevices(s, verdict) ==
  /\ At(s, "probe")
  /\ \/ /\ verdict = "healthy" /\ \A k \in Kinds : Newest(k) >= stager[s].known.versions[k]
        /\ state' = Calm([k \in Kinds |-> Newest(k)], stager[s].known.names)
        /\ Learns(s, "plan", state')
     \/ verdict = "pending" /\ Ends(s) /\ UNCHANGED state
     \/ verdict = "failed" /\ UndoFor(s, "state", stager[s].known.pre) /\ UNCHANGED state
  /\ UNCHANGED <<journal, Machine>>

\* finish_driver_rollback: the previous state returns, if there was one.
FinishRollback(s) ==
  /\ At(s, "finish")
  /\ LET was == stager[s].known.previous
     IN  state' = IF was # None THEN Calm(was.versions, was.names)
                  ELSE Calm(stager[s].known.versions, store)
  /\ stager' = [stager EXCEPT ![s] = [Idle EXCEPT !.at = "plan", !.goal = stager[s].goal,
                                                  !.known = state']]
  /\ UNCHANGED <<journal, Machine>>

(***************************************************************************)
(* stage_bundled_windows_drivers.                                          *)
(***************************************************************************)
\* The state to be written, but for what the installation is yet to find out.
Draft(versions, was) ==
  [Calm(versions, {}) EXCEPT
    !.previous = IF was = None THEN None ELSE [versions |-> was.versions, names |-> was.names]]
Plan(s, bundle) ==
  /\ At(s, "plan")
  /\ LET newer    == {p \in Packages : p[2] = bundle[p[1]] /\ p[2] > Newest(p[1])}
         versions == [k \in Kinds |-> IF <<k, bundle[k]>> \in newer THEN bundle[k] ELSE Newest(k)]
     IN  IF newer = {} THEN Ends(s)
         ELSE stager' = [stager EXCEPT ![s].at = "begin", ![s].from = "install", ![s].pre = store,
                                       ![s].todo = newer, ![s].reboot = FALSE,
                                       ![s].known = Draft(versions, stager[s].known)]
  /\ UNCHANGED <<Files, Machine>>
BeginInstall(s) ==
  /\ At(s, "begin")
  /\ journal' = [phase |-> "installing", pre |-> stager[s].pre, boot |-> 0, target |-> None]
  /\ Goes(s, "add")
  /\ UNCHANGED <<state, Machine>>
AddPackage(s, p, exit) ==
  /\ At(s, "add") /\ p \in stager[s].todo
  /\ store' \in {store \cup {p}} \cup (IF exit = "failed" THEN {store} ELSE {})
  /\ doomed' = doomed \ {p}
  /\ IF exit = "failed" THEN UndoFor(s, "install", stager[s].pre)
     ELSE stager' = [stager EXCEPT ![s].todo = @ \ {p}, ![s].reboot = @ \/ exit = "reboot"]
  /\ UNCHANGED <<boot, beside, Files>>

Target(s, names) ==
  IF stager[s].reboot
  THEN [stager[s].known EXCEPT !.names = names, !.reboot = TRUE, !.boot = boot,
                               !.phase = "install", !.pre = stager[s].pre]
  ELSE [stager[s].known EXCEPT !.names = names, !.previous = None]
CommitWith(s, names) ==
  /\ At(s, "add") /\ stager[s].todo = {}
  /\ journal' = [phase |-> "committing", pre |-> stager[s].pre, boot |-> 0,
                 target |-> Target(s, names)]
  /\ Learns(s, "write", Target(s, names))
  /\ UNCHANGED <<state, Machine>>
\* Only what this bundle installed is recorded.
CommitNew(s) == CommitWith(s, store \ stager[s].pre)

Commit(s) == CommitWith(s, store)

WriteState(s) ==
  /\ At(s, "write")
  /\ state' = stager[s].known
  /\ Goes(s, "clear")
  /\ UNCHANGED <<journal, Machine>>

(***************************************************************************)
(* uninstall_product_windows_drivers, and the removal of the agent's data. *)
(***************************************************************************)
Allowed(p) == p[2] <= state.versions[p[1]]
Uninstall(s) ==
  /\ At(s, "uninstall")
  /\ IF state = None THEN Goes(s, "erase")
     ELSE IF \E p \in state.names \cap store : ~Allowed(p) THEN Ends(s)
     ELSE stager' = [stager EXCEPT ![s].at = "delete", ![s].todo = state.names \cap store,
                                   ![s].reboot = FALSE]
  /\ UNCHANGED <<Files, Machine>>
DeleteRecorded(s, p, exit) == At(s, "delete") /\ Delete(s, p, exit)
RecordedDeleted(s) ==
  /\ At(s, "delete") /\ stager[s].todo = {}
  /\ IF stager[s].reboot THEN Ends(s) ELSE Goes(s, "erase")
  /\ UNCHANGED <<Files, Machine>>
EraseData(s) ==
  /\ At(s, "erase")
  /\ state' = None /\ journal' = None
  /\ Ends(s)
  /\ UNCHANGED Machine

(***************************************************************************)
(* The process is killed or a command, a query or a write fails; the       *)
(* system restarts.                                                        *)
(***************************************************************************)
Fails(s) == ~At(s, "idle") /\ Ends(s) /\ UNCHANGED <<Files, Machine>>
Reboot ==
  /\ boot < MaxBoot
  /\ boot' = boot + 1
  /\ store' = store \ doomed /\ doomed' = {}
  /\ stager' = [s \in Stagers |-> Idle]
  /\ UNCHANGED <<beside, Files>>

Step(s) ==
  \/ \E goal \in {"stage", "uninstall"} : Begin(s, goal)
  \/ ReadJournal(s) \/ RedoCommit(s) \/ ClearJournal(s)
  \/ ListNew(s) \/ NewRemoved(s) \/ PendReboot(s)
  \/ ReadState(s) \/ FinishRollback(s)
  \/ \E verdict \in {"healthy", "pending", "failed"} : ProbeDevices(s, verdict)
  \/ (\E bundle \in Bundles : Plan(s, bundle)) \/ BeginInstall(s) \/ Commit(s) \/ WriteState(s)
  \/ \E p \in Packages : \/ \E exit \in {"done", "reboot"} : \/ RemoveNew(s, p, exit)
                                                             \/ DeleteRecorded(s, p, exit)
                         \/ \E exit \in {"done", "reboot", "failed"} : AddPackage(s, p, exit)
  \/ Uninstall(s) \/ RecordedDeleted(s) \/ EraseData(s)
  \/ Fails(s)

Pending      == journal # None \/ (state # None /\ state.reboot)
Quiet        == ~Pending /\ \A s \in Stagers : At(s, "idle")
Uninstalling == \E s \in Stagers : At(s, "delete")

\* What has settled is followed beside the steps.
Next ==
  /\ (\E s \in Stagers : Step(s)) \/ Reboot
  /\ settled' = IF Quiet' THEN store' \ doomed'
                ELSE IF Uninstalling THEN (settled \cap store') \ doomed' ELSE settled
Spec == Init /\ [][Next]_vars

\* When nothing is pending, each package in the store is recorded in the state,
\* so that uninstalling finds it, unless it goes with the next reboot.  Of two at
\* work beside one another, one takes the journal of the other for that of a
\* staging which was killed.
NoOrphan ==
  Quiet /\ beside = {} => store \subseteq (IF state = None THEN {} ELSE state.names) \cup doomed

\* Whatever fails, and whoever is at work beside, no recovery and no rollback deletes
\* a driver that was there before the staging began.
SettledIsKept == settled \subseteq store \ doomed

DriversHold == TypeOK /\ NoOrphan /\ SettledIsKept
=============================================================================
