---------------------------- MODULE WindowsInstall ----------------------------
(***************************************************************************)
(* The installation of the agent as a Windows service (install.rs): the    *)
(* steps of install_windows, any of which can fail, the rollback that      *)
(* collects its own errors, and uninstall_windows with the cleanup script  *)
(* it leaves behind.  A lock lets one of them run at a time; a process     *)
(* that is killed gives it back and undoes nothing.  A removal gives it    *)
(* up before it removes the data and leaves the script, and an             *)
(* installation may begin before they are done.                            *)
(*                                                                         *)
(* The program is in the directory of the agent and, before that, in a     *)
(* legacy directory.  The global command may be a hard link of either; it  *)
(* is rewritten in place, and what shares its file changes with it.        *)
(***************************************************************************)
EXTENDS Naturals, FiniteSets

CONSTANTS Versions,   \* the versions of the installers that are run
          None,
          MaxRuns     \* bound on the installations and removals

Names  == {"canonical", "short"}
StopAt == [canonical |-> "stop canonical", short |-> "stop short"]
UndoAt == [canonical |-> "undo canonical", short |-> "undo short"]
BackAt == [canonical |-> "back canonical", short |-> "back short"]
DropAt == [canonical |-> "drop canonical", short |-> "drop short"]

VARIABLES
  disk,       \* the programs, the command, the two files and the ready marker
  service,    \* [name -> its configuration and its process, or None]
  installer,  \* the process that installs or removes, with its snapshots
  start,      \* what it found when it took the lock
  died,       \* whether an agent ended by itself since then
  outcome,    \* of the last run
  cleanup,    \* what removals that gave up the lock have still to do
  hasty,      \* whether the last run began before they had
  runs,       \* the installations and removals so far
  pids,       \* the processes started so far
  faults      \* bound on the steps that fail and the agents that end

vars == <<disk, service, installer, start, died, outcome, cleanup, hasty, runs, pids, faults>>

\* A service: the directory its image is in, its start type, the run that wrote
\* its configuration; the process it runs, and the version that process is of.
Service(place, mode, by, pid, image) ==
  [place |-> place, mode |-> mode, by |-> by, pid |-> pid, image |-> image]
Configured(s) == IF s = None THEN None ELSE [s EXCEPT !.pid = None, !.image = None]
Running(n)    == service[n] # None /\ service[n].pid # None
Absent        == [n \in Names |-> None]

\* The files are versions of the program; what a run wrote is known by its number.
Files    == Versions \cup {0, None}
Stamps   == (0..MaxRuns) \cup {None}
Disks    == [program : Files, legacy : Files, command : Files,
             shared : {"program", "legacy", None}, json : Stamps, type : Stamps,
             marker : Nat \cup {None}]
Services == [place : {"program", "legacy"}, mode : {"auto", "demand"}, by : 0..MaxRuns,
             pid : Nat \cup {None}, image : Files]
Settings == [Names -> Services \cup {None}]
Outcomes == {"none", "refused", "installed", "rolled back", "broken", "removing", "removed",
             "unremoved", "killed"}

TypeOK ==
  /\ disk \in Disks /\ service \in Settings
  /\ runs \in 0..MaxRuns /\ {pids, faults} \subseteq Nat /\ outcome \in Outcomes

Idle == [at |-> "idle", version |-> None, found |-> Absent, json |-> None, type |-> None,
         staged |-> FALSE, backup |-> None, switched |-> FALSE, errors |-> FALSE]

\* What the first installer finds: nothing; an agent that runs here; one of the
\* legacy directory under the short name, whose command may be a link of it; a
\* stopped one here with the legacy one beside it.
Found(p, l, s, shared) ==
  /\ service = s
  /\ LET written == IF s = Absent THEN None ELSE 0
     IN disk = [program |-> p, legacy |-> l, command |-> IF p # None THEN p ELSE l,
                shared |-> shared, json |-> written, type |-> written, marker |-> None]
OldShort == [Absent EXCEPT !["short"] = Service("legacy", "auto", 0, 1, 0)]
OldHere(pid) == Service("program", "auto", 0, pid, IF pid = None THEN None ELSE 0)
Init(losses) ==
  /\ \/ Found(None, None, Absent, None)
     \/ Found(0, None, [Absent EXCEPT !["canonical"] = OldHere(1)], "program")
     \/ Found(None, 0, OldShort, None)
     \/ Found(None, 0, OldShort, "legacy")
     \/ Found(0, 0, [OldShort EXCEPT !["canonical"] = OldHere(None)], "program")
  /\ installer = Idle /\ start = <<disk, service>> /\ died = FALSE /\ outcome = "none"
  /\ cleanup = {} /\ hasty = FALSE /\ runs = 0 /\ pids = 1 /\ faults = losses

-----------------------------------------------------------------------------
(* What the steps do *)

Fault   == faults > 0 /\ faults' = faults - 1
At(p)   == installer.at = p
Goes(p) == installer' = [installer EXCEPT !.at = p]
Ends(o) == installer' = [Idle EXCEPT !.version = installer.version] /\ outcome' = o
Keeps(v) == UNCHANGED <<v, start, died, cleanup, hasty, runs>>

\* The service that is configured, of those that were found.
InstallName == IF installer.found["canonical"] # None \/ installer.found["short"] = None
               THEN "canonical" ELSE "short"
Redundant   == CHOOSE n \in Names : n # InstallName

Stopped(n) == [service EXCEPT ![n] = Configured(@)]

FileOf(s, d) == IF s.place = "program" THEN d.program ELSE d.legacy
Image(n) == FileOf(service[n], disk)
Started(n) == [service EXCEPT ![n].pid = pids + 1, ![n].image = Image(n)]
\* A service that runs already is as good as started.
StartsService(n) ==
  IF Running(n) THEN UNCHANGED <<service, pids>>
  ELSE service[n] # None /\ Image(n) # None /\ service' = Started(n) /\ pids' = pids + 1

\* The command becomes what the program is: in place when there is one, or else,
\* and where that fails, as a link of the program.
Relinked(d) == [d EXCEPT !.command = d.program, !.shared = "program"]
Repairs(d)  ==
  IF d.command = d.program THEN {d}
  ELSE IF d.command = None THEN {Relinked(d)}
  ELSE {Relinked(d), [d EXCEPT !.command = d.program,
                               !.legacy = IF d.shared = "legacy" THEN d.program ELSE @]}

\* Another file takes the place of the program; the command keeps the one it had.
Replaced(d, v) ==
  [d EXCEPT !.program = v, !.shared = IF @ = "program" THEN None ELSE @]

-----------------------------------------------------------------------------
(* install_windows *)

\* One process installs or removes at a time.
TakesLock == /\ At("idle") /\ runs < MaxRuns /\ runs' = runs + 1
             /\ hasty' = (cleanup # {})

\* The program of the installer is staged unless it is the one that is there, and
\* the old one is kept.
Begin(v) ==
  /\ TakesLock /\ start' = [disk |-> disk, service |-> service]
  /\ died' = FALSE /\ outcome' = "none"
  /\ installer' = [Idle EXCEPT !.at = "snapshot", !.version = v,
                     !.staged = disk.program # v, !.backup = disk.program]
  /\ UNCHANGED <<disk, service, cleanup, pids, faults>>

Snapshot ==
  /\ At("snapshot")
  /\ installer' = [installer EXCEPT !.at = "json", !.found = service,
                     !.json = disk.json, !.type = disk.type]
  /\ Keeps(<<disk, service, outcome, pids, faults>>)

WriteJson ==
  /\ At("json") /\ Goes("type") /\ disk' = [disk EXCEPT !.json = runs]
  /\ Keeps(<<service, outcome, pids, faults>>)

\* From here on the services are being switched.
WriteType ==
  /\ At("type") /\ disk' = [disk EXCEPT !.type = runs]
  /\ installer' = [installer EXCEPT !.at = "stop canonical", !.switched = TRUE]
  /\ Keeps(<<service, outcome, pids, faults>>)

StopService(n) ==
  /\ At(StopAt[n]) /\ service' = Stopped(n)
  /\ Goes(IF n = "canonical" THEN StopAt["short"] ELSE "activate")
  /\ Keeps(<<disk, outcome, pids, faults>>)

Activate ==
  /\ At("activate") /\ Goes("configure")
  /\ disk' = IF installer.staged THEN Replaced(disk, installer.version) ELSE disk
  /\ Keeps(<<service, outcome, pids, faults>>)

Configure ==
  /\ At("configure") /\ Goes("clear")
  /\ service' = [service EXCEPT ![InstallName] = Service("program", "auto", runs, None, None)]
  /\ Keeps(<<disk, outcome, pids, faults>>)

ClearMarker ==
  /\ At("clear") /\ Goes("repair") /\ disk' = [disk EXCEPT !.marker = None]
  /\ Keeps(<<service, outcome, pids, faults>>)

Repair ==
  /\ At("repair") /\ Goes("start") /\ disk' \in Repairs(disk)
  /\ Keeps(<<service, outcome, pids, faults>>)

StartService ==
  /\ At("start") /\ Goes("ready") /\ StartsService(InstallName)
  /\ Keeps(<<disk, outcome, faults>>)

\* The marker and the service name one process.
AwaitReady ==
  /\ At("ready") /\ Goes("tidy")
  /\ Running(InstallName) /\ disk.marker = service[InstallName].pid
  /\ Keeps(<<disk, service, outcome, pids, faults>>)

\* The redundant service and the legacy directory go; what cannot be removed
\* stays with a warning.
Tidy ==
  /\ At("tidy") /\ Ends("installed")
  /\ \E kept \in SUBSET {"service", "legacy"} :
       /\ IF kept = {} THEN UNCHANGED faults ELSE Fault
       /\ service' = IF "service" \notin kept /\ \A n \in Names : installer.found[n] # None
                     THEN [service EXCEPT ![Redundant] = None] ELSE service
       /\ disk' = IF "legacy" \in kept THEN disk
                  ELSE [disk EXCEPT !.legacy = None,
                                    !.shared = IF @ = "legacy" THEN None ELSE @]
  /\ Keeps(<<pids>>)

-----------------------------------------------------------------------------
(* A step that fails, and the rollback *)

\* What the step may have done all the same.
Partial ==
  \/ UNCHANGED <<disk, service, pids>>
  \/ \E n \in Names : At(StopAt[n]) /\ service' = Stopped(n) /\ UNCHANGED <<disk, pids>>
  \/ At("repair") /\ disk' \in Repairs(disk) /\ UNCHANGED <<service, pids>>
  \/ At("start") /\ StartsService(InstallName) /\ UNCHANGED disk

Fail ==
  /\ Fault /\ Partial /\ UNCHANGED <<start, died, cleanup, hasty, runs>>
  /\ \/ At("snapshot") /\ Ends("refused")
     \/ /\ installer.at \in {"json", "type", "stop canonical", "stop short", "activate",
                             "configure", "clear", "repair", "start", "ready"}
        /\ Goes(IF installer.switched THEN "undo stop" ELSE "undo files") /\ UNCHANGED outcome

\* A step of the rollback: one that fails is noted, and the next follows.
Undoes(p, next, done) ==
  /\ At(p) /\ Keeps(<<outcome>>)
  /\ \/ Goes(next) /\ done /\ UNCHANGED faults
     \/ /\ Fault /\ UNCHANGED <<disk, service, pids>>
        /\ installer' = [installer EXCEPT !.at = next, !.errors = TRUE]

UndoStop ==
  Undoes("undo stop", "undo program",
         /\ service' = [n \in Names |-> Configured(service[n])] /\ UNCHANGED <<disk, pids>>)

UndoProgram ==
  Undoes("undo program", UndoAt["canonical"],
         /\ disk' = IF installer.staged THEN Replaced(disk, installer.backup) ELSE disk
         /\ UNCHANGED <<service, pids>>)

\* A service that was found gets its configuration back; the canonical one, where
\* there was none, goes.
UndoConfig(n) ==
  Undoes(UndoAt[n], IF n = "canonical" THEN UndoAt["short"] ELSE "undo command",
         /\ service' = [service EXCEPT ![n] =
                          IF installer.found[n] # None
                          THEN [Configured(installer.found[n]) EXCEPT
                                  !.pid = service[n].pid, !.image = service[n].image]
                          ELSE IF n = "canonical" THEN None ELSE @]
         /\ UNCHANGED <<disk, pids>>)

UndoCommand ==
  Undoes("undo command", "undo files",
         /\ disk' \in IF disk.program # None THEN Repairs(disk)
                      ELSE {[disk EXCEPT !.command = None, !.shared = None]}
         /\ UNCHANGED <<service, pids>>)

UndoFiles ==
  Undoes("undo files", IF installer.switched THEN BackAt["canonical"] ELSE "undone",
         /\ disk' = [disk EXCEPT !.json = installer.json, !.type = installer.type]
         /\ UNCHANGED <<service, pids>>)

WasActive(n) == installer.found[n] # None /\ installer.found[n].pid # None

\* What ran is started again.
UndoStart(n) ==
  Undoes(BackAt[n], IF n = "canonical" THEN BackAt["short"] ELSE "undone",
         /\ IF WasActive(n) THEN StartsService(n) ELSE UNCHANGED <<service, pids>>
         /\ UNCHANGED disk)

Undone ==
  /\ At("undone") /\ Ends(IF installer.errors THEN "broken" ELSE "rolled back")
  /\ Keeps(<<disk, service, pids, faults>>)

-----------------------------------------------------------------------------
(* uninstall_windows *)

Remove ==
  /\ TakesLock
  /\ installer' = [Idle EXCEPT !.at = DropAt["canonical"]] /\ outcome' = "none"
  /\ UNCHANGED <<disk, service, start, died, cleanup, pids, faults>>

\* When both services are gone the lock is given up.
Delete(n) ==
  /\ At(DropAt[n]) /\ service' = [service EXCEPT ![n] = None]
  /\ IF n = "canonical" THEN Goes(DropAt["short"]) /\ UNCHANGED <<outcome, cleanup>>
     ELSE Ends("removing") /\ cleanup' = cleanup \cup {"data"}
  /\ UNCHANGED <<disk, start, died, hasty, runs, pids, faults>>

Reports(o) == outcome' = IF outcome = "removing" THEN o ELSE outcome
NoData     == [disk EXCEPT !.json = None, !.type = None, !.marker = None]

\* The data goes and a script is left to do the rest.
RemoveData ==
  /\ "data" \in cleanup /\ cleanup' = (cleanup \ {"data"}) \cup {"script"}
  /\ disk' = NoData /\ Reports("removed")
  /\ UNCHANGED <<service, installer, start, died, hasty, runs, pids, faults>>

\* The removal gives up where it fails, or is killed.
FailRemoval ==
  \/ /\ Fault /\ Ends("unremoved") /\ Keeps(<<disk, pids>>)
     /\ \E n \in Names : At(DropAt[n]) /\ service' \in {service, Stopped(n)}
  \/ /\ Fault /\ "data" \in cleanup /\ cleanup' = cleanup \ {"data"}
     /\ disk' \in {disk, NoData} /\ Reports("unremoved")
     /\ UNCHANGED <<service, installer, start, died, hasty, runs, pids>>

\* The script tries to remove the command and the two directories, more than once.
Cleanup ==
  /\ "script" \in cleanup /\ cleanup' \in {cleanup, cleanup \ {"script"}}
  /\ \E kept \in SUBSET {"program", "legacy", "command"} :
       /\ IF kept = {} THEN UNCHANGED faults ELSE Fault
       /\ disk' = [disk EXCEPT !.program = IF "program" \in kept THEN @ ELSE None,
                               !.legacy  = IF "legacy"  \in kept THEN @ ELSE None,
                               !.command = IF "command" \in kept THEN @ ELSE None,
                               !.shared  = IF {@, "command"} \subseteq kept THEN @ ELSE None]
  /\ UNCHANGED <<service, installer, start, died, outcome, hasty, runs, pids>>

-----------------------------------------------------------------------------
(* The agents, and the death of an installer *)

AgentReady(n) ==
  /\ Running(n) /\ disk.marker # service[n].pid
  /\ disk' = [disk EXCEPT !.marker = service[n].pid]
  /\ Keeps(<<service, installer, outcome, pids, faults>>)

AgentEnds(n) ==
  /\ Running(n) /\ Fault /\ service' = Stopped(n) /\ died' = TRUE
  /\ UNCHANGED <<disk, installer, start, outcome, cleanup, hasty, runs, pids>>

Killed ==
  /\ ~At("idle") /\ Fault /\ Ends("killed") /\ Keeps(<<disk, service, pids>>)

Next ==
  \/ \E v \in Versions : Begin(v)
  \/ Snapshot \/ WriteJson \/ WriteType \/ Activate \/ Configure \/ ClearMarker \/ Repair
  \/ StartService \/ AwaitReady \/ Tidy
  \/ Fail \/ UndoStop \/ UndoProgram \/ UndoCommand \/ UndoFiles \/ Undone
  \/ Remove \/ RemoveData \/ FailRemoval \/ Cleanup \/ Killed
  \/ \E n \in Names : \/ StopService(n) \/ UndoConfig(n) \/ UndoStart(n) \/ Delete(n)
                       \/ AgentReady(n) \/ AgentEnds(n)

-----------------------------------------------------------------------------
(* Properties *)

\* An installation that reports success has put its own program behind the
\* command and behind one service, configured by it, that runs it and is ready;
\* nothing else runs (install_windows, lines 726-805).  What one that began before a
\* removal was done has in its files may be lost to it (lines 1596-1636).
InstalledIsNew ==
  outcome = "installed" =>
    /\ hasty \/ /\ disk.program = installer.version /\ disk.command = installer.version
                /\ disk.json = runs /\ disk.type = runs
    /\ \E n \in Names :
         /\ service[n] # None /\ service[n].place = "program" /\ service[n].mode = "auto"
         /\ service[n].by = runs
         /\ died \/ /\ service[n].image = installer.version
                    /\ hasty \/ disk.marker = service[n].pid
         /\ \A m \in Names \ {n} : ~Running(m)

\* One that reports that it was rolled back, or that it was refused, has left the
\* programs, the services and the files as they were, and what ran runs again, the
\* version it ran or the one that was in its place (a broken rollback can leave them
\* different); a legacy program its command is a link of is the exception.  The
\* command is what it was or the program that is back; where no program was in the
\* directory of the agent it may be gone, though it was there (lines 1258-1318).
RolledBackIsOld ==
  outcome \in {"rolled back", "refused"} /\ ~hasty =>
    LET old == start.disk  linked == old.shared = "legacy" IN
    /\ disk.program = old.program /\ disk.json = old.json /\ disk.type = old.type
    /\ disk.command \in {old.command, old.program}
    /\ linked \/ disk.legacy = old.legacy
    /\ \A n \in Names :
         /\ Configured(service[n]) = Configured(start.service[n])
         /\ start.service[n] # None /\ start.service[n].pid # None /\ ~died =>
              LET s == start.service[n]
              IN Running(n) /\ (linked \/ service[n].image \in {s.image, FileOf(s, old)})

InstallHolds == TypeOK /\ InstalledIsNew /\ RolledBackIsOld
=============================================================================
