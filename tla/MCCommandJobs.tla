--------------------------- MODULE MCCommandJobs ---------------------------
(***************************************************************************)
(* Safety on small instances: CommandJobs, whose jobs, connections and     *)
(* requests of administrators are interchangeable, and beside it what a    *)
(* remote desktop does on a computer: the staging of its drivers           *)
(* (DriverStaging), its virtual devices (VirtualDevices) and its input     *)
(* (DesktopInput).  They share nothing: one part moves, the others have    *)
(* not begun.                                                              *)
(***************************************************************************)
EXTENDS CommandJobs, TLC

CONSTANTS
  Service, Setups, DisplayVersions, AudioVersions, MaxBoot,                       \* drivers
  Devices, Requests, Fast, MissingFor, PresentFor, Slow, RetryAfter, MaxChanges,  \* devices
  Keys, MaxSwitches, MaxFrames, MaxInputs, Room                                   \* input

\* The drivers that the agents of the computer carry.
Carried == [display |-> DisplayVersions, audio |-> AudioVersions]

VARIABLES part, store, doomed, boot, state, journal, stager, beside, settled,
  screen, switches, pressed, unattended, capture, fence, events, helper, barriers, readies,
  statuses, frame, gate, commands, desk, tab, typed, inputs, stray,
  real, works, at, due, seen, track, lease, code, retry, shown, asker, changes, steady, probed,
  covered, last, hasty

D == INSTANCE DriverStaging WITH Versions <- Carried
driverVars == <<store, doomed, boot, state, journal, stager, beside, settled>>

I == INSTANCE DesktopInput
inputVars == <<screen, switches, pressed, unattended, capture, fence, events, helper, barriers,
               readies, statuses, frame, gate, commands, desk, tab, typed, inputs, stray>>
V == INSTANCE VirtualDevices WITH Kinds <- Devices, up <- works, status <- shown
deviceVars == <<real, works, at, due, seen, track, lease, code, retry, shown, asker, changes,
                steady, probed, covered, last, hasty>>

\* What can be installed has a newest version, and None is nothing of what is written down.
DriversGiven ==
  /\ \A k \in D!Kinds : /\ Carried[k] \subseteq Nat \ {0}
                        /\ \A vs \in SUBSET Carried[k] :
                             vs # {} => \E v \in vs : \A w \in vs : w <= v
  /\ MaxBoot \in Nat \ {0}
  /\ None \notin D!States \cup D!Journals
  /\ None \notin [versions : [D!Kinds -> Nat], names : SUBSET D!Packages]

\* As in the code, with 1, 3, 10, 30 and 30 seconds.
DevicesGiven ==
  /\ {Fast, MissingFor, PresentFor, Slow, RetryAfter, MaxChanges} \subseteq Nat
  /\ 0 < Fast /\ Fast <= Slow /\ 0 < MissingFor /\ MissingFor <= PresentFor
  /\ RetryAfter <= Slow + PresentFor
  /\ "display" \in Devices /\ None \notin Nat \cup Requests

ASSUME DriverAssumption == DriversGiven
ASSUME DeviceAssumption == DevicesGiven
ASSUME InputAssumption  == None \notin I!Desktops

Begun == /\ part \in {"jobs", "drivers", "devices", "input"}
         /\ Init /\ D!Init /\ I!Init /\ V!Init
         \* Of a part that has not begun one beginning is enough.
         /\ part # "input" => ~unattended /\ screen = "default"
         /\ part # "devices" => real["display"]
Moves == /\ UNCHANGED part
         /\ \/ part = "jobs" /\ Next /\ UNCHANGED <<driverVars, inputVars, deviceVars>>
            \/ part = "drivers" /\ D!Next /\ UNCHANGED <<vars, inputVars, deviceVars>>
            \/ part = "devices" /\ V!Next /\ UNCHANGED <<vars, driverVars, inputVars>>
            \/ part = "input" /\ I!Next /\ UNCHANGED <<vars, driverVars, deviceVars>>
DispatchSpec == Begun /\ [][Moves]_<<part, vars, driverVars, inputVars, deviceVars>>

\* No driver of the remote desktop is left that nothing would remove, unless two stagings or
\* removals were at work beside one another, and no rollback takes a driver that was there
\* before, whoever was; a virtual device is there when, and only when, there is no other for a
\* while; input only reaches the desktop its user saw, and none stays down at the end.
DesktopHolds == D!DriversHold /\ V!DevicesHold /\ I!InputHolds

\* Bound: three switches of the desktop and inputs together.
ShortInput == switches + inputs <= 3

\* Bound: once one process has begun beside another, at most two are at work, a driver is
\* there that may be lost, and there is neither a reboot nor a driver of audio.
BriefBeside == beside # {} =>
  /\ boot = 1 /\ doomed = {} /\ settled # {} /\ \A s \in D!Stagers : ~stager[s].reboot
  /\ \A p \in store : p[1] = "display"
  /\ \E s \in D!Stagers : stager[s].at = "idle"

Symmetry == Permutations(Jobs) \cup Permutations(Conns) \cup Permutations(Admins)
            \cup Permutations(Setups)
=============================================================================
