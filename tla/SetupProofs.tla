------------------------------ MODULE SetupProofs ------------------------------
(***************************************************************************)
(* Theorems about what happens on the computer of an instance: the         *)
(* installation on Windows, for any versions, number of runs and failing   *)
(* steps, and the commands that start and stop an agent, for any users and *)
(* any number of agents.                                                   *)
(***************************************************************************)
EXTENDS MCFleet, TLAPS

AgentStates == {"none", "new", "locked", "marking", "marked", "ready", "asked", "leaving",
                "left", "gone"}
CliPoints == {"idle", "look", "unlock", "stale", "running", "request", "wait", "spawn", "child"}
CliType == [at : CliPoints, verb : {"start", "stop"}, saw : P!Pids \cup {None},
            pid : P!Pids \cup {None}, child : P!Pids \cup {None},
            says : {"nothing", "stopped", "failed", "started", "running"}]

ProcessTypes ==
  /\ lock \in P!Pids \cup Users \cup {None}
  /\ pidFile \in P!Pids \cup {None} /\ readyFile \in P!Pids \cup {None}
  /\ stopFile \in P!Pids \cup {P!Any, None}
  /\ agent \in [P!Pids -> AgentStates]
  /\ asked \subseteq P!Pids /\ turns \in 0..MaxTurns
  /\ cli \in [Users -> CliType]

\* A command that looks for an agent holds the lock meanwhile.
LooksAreLocked == \A u \in Users : cli[u].at = "unlock" => lock = u

\* An agent that has removed what was left behind finds only requests that were
\* written while it held the lock.
RequestsAreMeant ==
  \A p \in P!Pids :
    agent[p] \in {"marking", "marked", "ready"} /\ stopFile \in {p, P!Any} => p \in asked

Had(p)   == P!Holding(p) \/ agent[p] = "gone"
HasBegun(p) == agent[p] \in {"ready", "asked", "leaving", "left", "gone"}

\* The agent a command saw had the lock, and has ended when the lock was free.
SawAgent(c) ==
  /\ c.at = "look" => c.saw = None
  /\ c.saw # None => /\ Had(c.saw)
                     /\ c.at \in {"unlock", "stale"} \/ c.says = "stopped" => agent[c.saw] = "gone"

\* The agent a command started is its own until the command ends.
Started(c) ==
  /\ c.at = "child" => c.child # None
  /\ c.at \notin {"idle", "child"} => c.child = None
  /\ c.child # None => agent[c.child] # "none"
  /\ c.child # None /\ c.says = "failed" => agent[c.child] = "gone"
  /\ c.says = "started" => c.child # None /\ HasBegun(c.child)

\* What a command remembers is so; it reports when it is done.
Known(c) == SawAgent(c) /\ Started(c) /\ (c.at # "idle" => c.says = "nothing")
CommandsKnow == \A u \in Users : Known(cli[u])

ReadyIsBegun == readyFile # None => HasBegun(readyFile)

IProcess == /\ ProcessTypes /\ P!OneAgent /\ P!StopIsMeant
            /\ LooksAreLocked /\ RequestsAreMeant /\ CommandsKnow /\ ReadyIsBegun

\* What is claimed follows from the invariant.
LEMMA ProcessesFollow == ASSUME IProcess PROVE P!ProcessesHold
<1>1. P!TypeOK
  BY DEF IProcess, ProcessTypes, P!TypeOK, AgentStates, CliType
<1>2. P!ReportsAreTrue
  BY DEF IProcess, ProcessTypes, CliType, P!ReportsAreTrue, CommandsKnow, Known, SawAgent,
     Started, P!Alive, HasBegun
<1>3. QED
  BY <1>1, <1>2 DEF IProcess, P!ProcessesHold

LEMMA InitProcess == ASSUME P!Init PROVE IProcess
<1>1. ProcessTypes
  BY ProcessAssumption DEF P!Init, ProcessTypes, AgentStates, CliType, CliPoints, P!Idle,
     P!Working, P!Pids
<1>2. P!OneAgent /\ P!StopIsMeant /\ RequestsAreMeant /\ ReadyIsBegun
  BY ProcessAssumption DEF P!Init, P!OneAgent, P!StopIsMeant, RequestsAreMeant,
     ReadyIsBegun, P!Holding, P!Any
<1>3. LooksAreLocked /\ CommandsKnow
  BY DEF P!Init, LooksAreLocked, CommandsKnow, Known, SawAgent, Started, P!Idle, P!Done,
     P!Working
<1>4. QED
  BY <1>1, <1>2, <1>3 DEF IProcess

-----------------------------------------------------------------------------
\* An agent goes on: it begins once, and what has ended stays ended.
Onward ==
  \A p \in P!Pids :
    /\ agent[p] # "none" => agent'[p] # "none"
    /\ Had(p) => Had(p)'
    /\ agent[p] = "gone" => agent'[p] = "gone"
    /\ HasBegun(p) => HasBegun(p)'

\* What a command knows stays true while agents go on.
LEMMA KnownStays ==
  ASSUME IProcess, Onward, NEW c \in CliType, Known(c)
  PROVE  Known(c)'
BY DEF IProcess, CliType, Onward, Known, SawAgent, Started, Had, HasBegun

LEMMA CommandsRest ==
  ASSUME IProcess, Onward, UNCHANGED cli
  PROVE  CommandsKnow'
<1> SUFFICES ASSUME NEW u \in Users PROVE Known(cli[u])'
  BY DEF CommandsKnow
<1>1. cli[u] \in CliType /\ Known(cli[u])
  BY DEF IProcess, ProcessTypes, CommandsKnow
<1>2. Known(cli[u])'
  BY <1>1, KnownStays
<1>3. QED
  BY <1>2

-----------------------------------------------------------------------------
(* Each step keeps the invariant: first the agents. *)

LEMMA RunKeeps == ASSUME IProcess, NEW p \in P!Pids, P!Run(p) PROVE IProcess'
<1>1. ProcessTypes'
  BY DEF IProcess, ProcessTypes, P!Run, P!Becomes, P!marks, AgentStates
<1>2. P!OneAgent' /\ P!StopIsMeant' /\ RequestsAreMeant'
  BY DEF IProcess, ProcessTypes, P!OneAgent, P!StopIsMeant, RequestsAreMeant, P!Run,
     P!First, P!Free, P!Becomes, P!marks, P!Holding
<1>3. Onward
  BY DEF IProcess, ProcessTypes, Onward, P!Run, P!First, P!Free, P!Becomes, Had, P!Holding,
     HasBegun
<1>4. CommandsKnow'
  BY <1>3, CommandsRest DEF P!Run
<1>5. LooksAreLocked' /\ ReadyIsBegun'
  BY <1>3 DEF IProcess, ProcessTypes, LooksAreLocked, ReadyIsBegun, P!Run, P!marks, Onward
<1>6. QED
  BY <1>1, <1>2, <1>4, <1>5 DEF IProcess

LEMMA AcquireKeeps == ASSUME IProcess, NEW p \in P!Pids, P!Acquire(p) PROVE IProcess'
<1>1. ProcessTypes'
  BY DEF IProcess, ProcessTypes, P!Acquire, P!Becomes, P!marks, AgentStates
<1>2. P!OneAgent'
  BY ProcessAssumption DEF IProcess, ProcessTypes, P!OneAgent, P!Acquire, P!Becomes,
     P!marks, P!Holding
<1>3. P!StopIsMeant' /\ RequestsAreMeant'
  BY ProcessAssumption DEF IProcess, ProcessTypes, P!OneAgent, P!StopIsMeant,
     RequestsAreMeant, P!Acquire, P!Becomes, P!marks, P!Holding, P!Any
<1>4. Onward
  BY DEF IProcess, ProcessTypes, Onward, P!Acquire, P!Becomes, Had, P!Holding, HasBegun,
     P!Alive
<1>5. CommandsKnow'
  BY <1>4, CommandsRest DEF P!Acquire
<1>6. LooksAreLocked'
  BY ProcessAssumption DEF IProcess, ProcessTypes, P!OneAgent, LooksAreLocked, P!Acquire,
     P!marks, P!Holding
<1>7. ReadyIsBegun'
  BY <1>4 DEF IProcess, ProcessTypes, ReadyIsBegun, P!Acquire, P!Becomes, P!marks, Onward,
     HasBegun
<1>8. QED
  BY <1>1, <1>2, <1>3, <1>5, <1>6, <1>7 DEF IProcess

LEMMA ClearMarksKeeps == ASSUME IProcess, NEW p \in P!Pids, P!ClearMarks(p) PROVE IProcess'
<1>1. ProcessTypes'
  BY DEF IProcess, ProcessTypes, P!ClearMarks, P!Becomes, P!marks, AgentStates,
     P!RemoveStale
<1>2. P!OneAgent'
  BY ProcessAssumption DEF IProcess, ProcessTypes, P!OneAgent, P!ClearMarks, P!Becomes,
     P!marks, P!Holding, P!RemoveStale
<1>3. P!StopIsMeant' /\ RequestsAreMeant'
  BY ProcessAssumption DEF IProcess, ProcessTypes, P!OneAgent, P!StopIsMeant,
     RequestsAreMeant, P!ClearMarks, P!Becomes, P!marks, P!Holding, P!Any, P!RemoveStale
<1>4. Onward
  BY DEF IProcess, ProcessTypes, Onward, P!ClearMarks, P!Becomes, Had, P!Holding,
     HasBegun, P!Alive, P!RemoveStale
<1>5. CommandsKnow'
  BY <1>4, CommandsRest DEF P!ClearMarks
<1>6. LooksAreLocked'
  BY ProcessAssumption DEF IProcess, ProcessTypes, P!OneAgent, LooksAreLocked, P!ClearMarks,
     P!marks, P!Holding, P!RemoveStale
<1>7. ReadyIsBegun'
  BY <1>4 DEF IProcess, ProcessTypes, ReadyIsBegun, P!ClearMarks, P!Becomes, P!marks,
     Onward, HasBegun, P!RemoveStale
<1>8. QED
  BY <1>1, <1>2, <1>3, <1>5, <1>6, <1>7 DEF IProcess

LEMMA WritePidKeeps == ASSUME IProcess, NEW p \in P!Pids, P!WritePid(p) PROVE IProcess'
<1>1. ProcessTypes'
  BY DEF IProcess, ProcessTypes, P!WritePid, P!Becomes, P!marks, AgentStates
<1>2. P!OneAgent'
  BY ProcessAssumption DEF IProcess, ProcessTypes, P!OneAgent, P!WritePid, P!Becomes,
     P!marks, P!Holding
<1>3. P!StopIsMeant' /\ RequestsAreMeant'
  BY ProcessAssumption DEF IProcess, ProcessTypes, P!OneAgent, P!StopIsMeant,
     RequestsAreMeant, P!WritePid, P!Becomes, P!marks, P!Holding, P!Any
<1>4. Onward
  BY DEF IProcess, ProcessTypes, Onward, P!WritePid, P!Becomes, Had, P!Holding, HasBegun,
     P!Alive
<1>5. CommandsKnow'
  BY <1>4, CommandsRest DEF P!WritePid
<1>6. LooksAreLocked'
  BY ProcessAssumption DEF IProcess, ProcessTypes, P!OneAgent, LooksAreLocked, P!WritePid,
     P!marks, P!Holding
<1>7. ReadyIsBegun'
  BY <1>4 DEF IProcess, ProcessTypes, ReadyIsBegun, P!WritePid, P!Becomes, P!marks, Onward,
     HasBegun
<1>8. QED
  BY <1>1, <1>2, <1>3, <1>5, <1>6, <1>7 DEF IProcess

LEMMA MarkReadyKeeps == ASSUME IProcess, NEW p \in P!Pids, P!MarkReady(p) PROVE IProcess'
<1>1. ProcessTypes'
  BY DEF IProcess, ProcessTypes, P!MarkReady, P!Becomes, P!marks, AgentStates
<1>2. P!OneAgent'
  BY ProcessAssumption DEF IProcess, ProcessTypes, P!OneAgent, P!MarkReady, P!Becomes,
     P!marks, P!Holding
<1>3. P!StopIsMeant' /\ RequestsAreMeant'
  BY ProcessAssumption DEF IProcess, ProcessTypes, P!OneAgent, P!StopIsMeant,
     RequestsAreMeant, P!MarkReady, P!Becomes, P!marks, P!Holding, P!Any
<1>4. Onward
  BY DEF IProcess, ProcessTypes, Onward, P!MarkReady, P!Becomes, Had, P!Holding, HasBegun,
     P!Alive
<1>5. CommandsKnow'
  BY <1>4, CommandsRest DEF P!MarkReady
<1>6. LooksAreLocked'
  BY ProcessAssumption DEF IProcess, ProcessTypes, P!OneAgent, LooksAreLocked, P!MarkReady,
     P!marks, P!Holding
<1>7. ReadyIsBegun'
  BY <1>4 DEF IProcess, ProcessTypes, ReadyIsBegun, P!MarkReady, P!Becomes, P!marks, Onward,
     HasBegun
<1>8. QED
  BY <1>1, <1>2, <1>3, <1>5, <1>6, <1>7 DEF IProcess

LEMMA SeeStopKeeps == ASSUME IProcess, NEW p \in P!Pids, P!SeeStop(p) PROVE IProcess'
<1>1. ProcessTypes'
  BY DEF IProcess, ProcessTypes, P!SeeStop, P!Becomes, P!marks, AgentStates
<1>2. P!OneAgent'
  BY ProcessAssumption DEF IProcess, ProcessTypes, P!OneAgent, P!SeeStop, P!Becomes,
     P!marks, P!Holding
<1>3. P!StopIsMeant' /\ RequestsAreMeant'
  BY ProcessAssumption DEF IProcess, ProcessTypes, P!OneAgent, P!StopIsMeant,
     RequestsAreMeant, P!SeeStop, P!Becomes, P!marks, P!Holding, P!Any
<1>4. Onward
  BY DEF IProcess, ProcessTypes, Onward, P!SeeStop, P!Becomes, Had, P!Holding, HasBegun,
     P!Alive
<1>5. CommandsKnow'
  BY <1>4, CommandsRest DEF P!SeeStop
<1>6. LooksAreLocked'
  BY ProcessAssumption DEF IProcess, ProcessTypes, P!OneAgent, LooksAreLocked, P!SeeStop,
     P!marks, P!Holding
<1>7. ReadyIsBegun'
  BY <1>4 DEF IProcess, ProcessTypes, ReadyIsBegun, P!SeeStop, P!Becomes, P!marks, Onward,
     HasBegun
<1>8. QED
  BY <1>1, <1>2, <1>3, <1>5, <1>6, <1>7 DEF IProcess

LEMMA QuitKeeps == ASSUME IProcess, NEW p \in P!Pids, P!Quit(p) PROVE IProcess'
<1>1. ProcessTypes'
  BY DEF IProcess, ProcessTypes, P!Quit, P!Becomes, P!marks, AgentStates
<1>2. P!OneAgent'
  BY ProcessAssumption DEF IProcess, ProcessTypes, P!OneAgent, P!Quit, P!Becomes, P!marks,
     P!Holding
<1>3. P!StopIsMeant' /\ RequestsAreMeant'
  BY ProcessAssumption DEF IProcess, ProcessTypes, P!OneAgent, P!StopIsMeant,
     RequestsAreMeant, P!Quit, P!Becomes, P!marks, P!Holding, P!Any
<1>4. Onward
  BY DEF IProcess, ProcessTypes, Onward, P!Quit, P!Becomes, Had, P!Holding, HasBegun,
     P!Alive
<1>5. CommandsKnow'
  BY <1>4, CommandsRest DEF P!Quit
<1>6. LooksAreLocked'
  BY ProcessAssumption DEF IProcess, ProcessTypes, P!OneAgent, LooksAreLocked, P!Quit,
     P!marks, P!Holding
<1>7. ReadyIsBegun'
  BY <1>4 DEF IProcess, ProcessTypes, ReadyIsBegun, P!Quit, P!Becomes, P!marks, Onward,
     HasBegun
<1>8. QED
  BY <1>1, <1>2, <1>3, <1>5, <1>6, <1>7 DEF IProcess

LEMMA DropMarksKeeps == ASSUME IProcess, NEW p \in P!Pids, P!DropMarks(p) PROVE IProcess'
<1>1. ProcessTypes'
  BY DEF IProcess, ProcessTypes, P!DropMarks, P!Becomes, P!marks, AgentStates, P!Owned
<1>2. P!OneAgent'
  BY ProcessAssumption DEF IProcess, ProcessTypes, P!OneAgent, P!DropMarks, P!Becomes,
     P!marks, P!Holding, P!Owned
<1>3. P!StopIsMeant' /\ RequestsAreMeant'
  BY ProcessAssumption DEF IProcess, ProcessTypes, P!OneAgent, P!StopIsMeant,
     RequestsAreMeant, P!DropMarks, P!Becomes, P!marks, P!Holding, P!Any, P!Owned
<1>4. Onward
  BY DEF IProcess, ProcessTypes, Onward, P!DropMarks, P!Becomes, Had, P!Holding, HasBegun,
     P!Alive, P!Owned
<1>5. CommandsKnow'
  BY <1>4, CommandsRest DEF P!DropMarks
<1>6. LooksAreLocked'
  BY ProcessAssumption DEF IProcess, ProcessTypes, P!OneAgent, LooksAreLocked, P!DropMarks,
     P!marks, P!Holding, P!Owned
<1>7. ReadyIsBegun'
  BY <1>4 DEF IProcess, ProcessTypes, ReadyIsBegun, P!DropMarks, P!Becomes, P!marks, Onward,
     HasBegun, P!Owned
<1>8. QED
  BY <1>1, <1>2, <1>3, <1>5, <1>6, <1>7 DEF IProcess

LEMMA ExitKeeps == ASSUME IProcess, NEW p \in P!Pids, P!Exit(p) PROVE IProcess'
<1>1. ProcessTypes'
  BY DEF IProcess, ProcessTypes, P!Exit, P!Becomes, P!marks, AgentStates
<1>2. P!OneAgent'
  BY ProcessAssumption DEF IProcess, ProcessTypes, P!OneAgent, P!Exit, P!Becomes, P!marks,
     P!Holding
<1>3. P!StopIsMeant' /\ RequestsAreMeant'
  BY ProcessAssumption DEF IProcess, ProcessTypes, P!OneAgent, P!StopIsMeant,
     RequestsAreMeant, P!Exit, P!Becomes, P!marks, P!Holding, P!Any
<1>4. Onward
  BY DEF IProcess, ProcessTypes, Onward, P!Exit, P!Becomes, Had, P!Holding, HasBegun,
     P!Alive
<1>5. CommandsKnow'
  BY <1>4, CommandsRest DEF P!Exit
<1>6. LooksAreLocked'
  BY ProcessAssumption DEF IProcess, ProcessTypes, P!OneAgent, LooksAreLocked, P!Exit,
     P!marks, P!Holding
<1>7. ReadyIsBegun'
  BY <1>4 DEF IProcess, ProcessTypes, ReadyIsBegun, P!Exit, P!Becomes, P!marks, Onward,
     HasBegun
<1>8. QED
  BY <1>1, <1>2, <1>3, <1>5, <1>6, <1>7 DEF IProcess

LEMMA DieKeeps == ASSUME IProcess, NEW p \in P!Pids, P!Die(p) PROVE IProcess'
<1>1. ProcessTypes'
  BY DEF IProcess, ProcessTypes, P!Die, P!Becomes, P!marks, AgentStates, P!Unlocked, P!Alive
<1>2. P!OneAgent'
  BY ProcessAssumption DEF IProcess, ProcessTypes, P!OneAgent, P!Die, P!Becomes, P!marks,
     P!Holding, P!Unlocked, P!Alive
<1>3. P!StopIsMeant' /\ RequestsAreMeant'
  BY ProcessAssumption DEF IProcess, ProcessTypes, P!OneAgent, P!StopIsMeant,
     RequestsAreMeant, P!Die, P!Becomes, P!marks, P!Holding, P!Any, P!Unlocked, P!Alive
<1>4. Onward
  BY DEF IProcess, ProcessTypes, Onward, P!Die, P!Becomes, Had, P!Holding, HasBegun,
     P!Alive, P!Unlocked, P!Alive
<1>5. CommandsKnow'
  BY <1>4, CommandsRest DEF P!Die
<1>6. LooksAreLocked'
  BY ProcessAssumption DEF IProcess, ProcessTypes, P!OneAgent, LooksAreLocked, P!Die,
     P!marks, P!Holding, P!Unlocked, P!Alive
<1>7. ReadyIsBegun'
  BY <1>4 DEF IProcess, ProcessTypes, ReadyIsBegun, P!Die, P!Becomes, P!marks, Onward,
     HasBegun, P!Unlocked, P!Alive
<1>8. QED
  BY <1>1, <1>2, <1>3, <1>5, <1>6, <1>7 DEF IProcess

-----------------------------------------------------------------------------
(* Then the commands. *)

\* One command goes on, with what it knows.
LEMMA OneCommand ==
  ASSUME IProcess, Onward, NEW u \in Users,
         \A v \in Users \ {u} : cli'[v] = cli[v], Known(cli[u])'
  PROVE  CommandsKnow'
<1> SUFFICES ASSUME NEW v \in Users, v # u PROVE Known(cli[v])'
  BY DEF CommandsKnow
<1>1. cli[v] \in CliType /\ Known(cli[v]) /\ cli'[v] = cli[v]
  BY DEF IProcess, ProcessTypes, CommandsKnow
<1>2. QED
  BY <1>1, KnownStays

LEMMA CommandKeeps ==
  ASSUME IProcess, NEW u \in Users, NEW verb \in {"start", "stop"}, P!Command(u, verb)
  PROVE  IProcess'
<1>1. /\ cli' \in [Users -> CliType] /\ \A v \in Users \ {u} : cli'[v] = cli[v]
      /\ cli'[u] = P!Working("look", verb, None, None, None)
  BY DEF IProcess, ProcessTypes, CliType, CliPoints, P!Command, P!Step, P!Set, P!Says,
     P!Done, P!Working
<1>2. Onward
  BY DEF IProcess, ProcessTypes, Onward, P!Command, Had, P!Holding, HasBegun
<1>3. Known(cli[u])'
  BY <1>1, ProcessAssumption DEF IProcess, ProcessTypes, CliType, P!OneAgent, P!Holding,
     Had, HasBegun, ReadyIsBegun, CommandsKnow, Known, SawAgent, Started, P!Command, P!Done,
     P!Working, P!marks
<1>4. CommandsKnow'
  BY <1>1, <1>2, <1>3, OneCommand
<1>5. ProcessTypes'
  BY <1>1, ProcessAssumption DEF IProcess, ProcessTypes, CliType, AgentStates, P!Command,
     P!marks
<1>6. P!OneAgent' /\ P!StopIsMeant' /\ RequestsAreMeant'
  BY ProcessAssumption DEF IProcess, ProcessTypes, CliType, P!OneAgent, P!StopIsMeant,
     RequestsAreMeant, LooksAreLocked, P!Command, P!Holding, P!marks, P!Any
<1>7. LooksAreLocked'
  BY <1>1, ProcessAssumption DEF IProcess, ProcessTypes, CliType, LooksAreLocked, P!Command,
     P!Step, P!Set, P!Says, P!Done, P!Working
<1>8. ReadyIsBegun'
  BY <1>2 DEF IProcess, ProcessTypes, ReadyIsBegun, P!Command, Onward, P!marks
<1>9. QED
  BY <1>4, <1>5, <1>6, <1>7, <1>8 DEF IProcess

LEMMA LookKeeps ==
  ASSUME IProcess, NEW u \in Users, P!Look(u)
  PROVE  IProcess'
<1>1. /\ cli' \in [Users -> CliType] /\ \A v \in Users \ {u} : cli'[v] = cli[v]
      /\ cli'[u] = IF lock = None THEN [cli[u] EXCEPT !.at = "unlock"]
                     ELSE P!Working("running", cli[u].verb,
                                  IF lock \in P!Pids THEN lock ELSE None, None, None)
  BY DEF IProcess, ProcessTypes, CliType, CliPoints, P!Look, P!Step, P!Set, P!Says, P!Done,
     P!Working
<1>2. Onward
  BY DEF IProcess, ProcessTypes, Onward, P!Look, Had, P!Holding, HasBegun
<1>3. Known(cli[u])'
  BY <1>1, ProcessAssumption DEF IProcess, ProcessTypes, CliType, P!OneAgent, P!Holding,
     Had, HasBegun, ReadyIsBegun, CommandsKnow, Known, SawAgent, Started, P!Look, P!Done,
     P!Working, P!marks
<1>4. CommandsKnow'
  BY <1>1, <1>2, <1>3, OneCommand
<1>5. ProcessTypes'
  BY <1>1, ProcessAssumption DEF IProcess, ProcessTypes, CliType, AgentStates, P!Look,
     P!marks
<1>6. P!OneAgent' /\ P!StopIsMeant' /\ RequestsAreMeant'
  BY ProcessAssumption DEF IProcess, ProcessTypes, CliType, P!OneAgent, P!StopIsMeant,
     RequestsAreMeant, LooksAreLocked, P!Look, P!Holding, P!marks, P!Any
<1>7. LooksAreLocked'
  BY <1>1, ProcessAssumption DEF IProcess, ProcessTypes, CliType, LooksAreLocked, P!Look,
     P!Step, P!Set, P!Says, P!Done, P!Working
<1>8. ReadyIsBegun'
  BY <1>2 DEF IProcess, ProcessTypes, ReadyIsBegun, P!Look, Onward, P!marks
<1>9. QED
  BY <1>4, <1>5, <1>6, <1>7, <1>8 DEF IProcess

LEMMA UnlockKeeps ==
  ASSUME IProcess, NEW u \in Users, P!Unlock(u)
  PROVE  IProcess'
<1>1. /\ cli' \in [Users -> CliType] /\ \A v \in Users \ {u} : cli'[v] = cli[v]
      /\ cli'[u] = [cli[u] EXCEPT !.at = "stale"]
  BY DEF IProcess, ProcessTypes, CliType, CliPoints, P!Unlock, P!Step, P!Set, P!Says,
     P!Done, P!Working
<1>2. Onward
  BY DEF IProcess, ProcessTypes, Onward, P!Unlock, Had, P!Holding, HasBegun
<1>3. Known(cli[u])'
  BY <1>1, ProcessAssumption DEF IProcess, ProcessTypes, CliType, P!OneAgent, P!Holding,
     Had, HasBegun, ReadyIsBegun, CommandsKnow, Known, SawAgent, Started, P!Unlock, P!Done,
     P!Working, P!marks
<1>4. CommandsKnow'
  BY <1>1, <1>2, <1>3, OneCommand
<1>5. ProcessTypes'
  BY <1>1, ProcessAssumption DEF IProcess, ProcessTypes, CliType, AgentStates, P!Unlock,
     P!marks
<1>6. P!OneAgent' /\ P!StopIsMeant' /\ RequestsAreMeant'
  BY ProcessAssumption DEF IProcess, ProcessTypes, CliType, P!OneAgent, P!StopIsMeant,
     RequestsAreMeant, LooksAreLocked, P!Unlock, P!Holding, P!marks, P!Any
<1>7. LooksAreLocked'
  BY <1>1, ProcessAssumption DEF IProcess, ProcessTypes, CliType, LooksAreLocked, P!Unlock,
     P!Step, P!Set, P!Says, P!Done, P!Working
<1>8. ReadyIsBegun'
  BY <1>2 DEF IProcess, ProcessTypes, ReadyIsBegun, P!Unlock, Onward, P!marks
<1>9. QED
  BY <1>4, <1>5, <1>6, <1>7, <1>8 DEF IProcess

LEMMA StaleKeeps ==
  ASSUME IProcess, NEW u \in Users, P!Stale(u)
  PROVE  IProcess'
<1>1. /\ cli' \in [Users -> CliType] /\ \A v \in Users \ {u} : cli'[v] = cli[v]
      /\ cli'[u] = IF cli[u].verb = "start" THEN [cli[u] EXCEPT !.at = "spawn"]
                     ELSE P!Done(cli[u].saw, cli[u].child, "stopped")
  BY DEF IProcess, ProcessTypes, CliType, CliPoints, P!Stale, P!Step, P!Set, P!Says, P!Done,
     P!Working, P!RemoveStale
<1>2. Onward
  BY DEF IProcess, ProcessTypes, Onward, P!Stale, Had, P!Holding, HasBegun, P!RemoveStale
<1>3. Known(cli[u])'
  BY <1>1, ProcessAssumption DEF IProcess, ProcessTypes, CliType, P!OneAgent, P!Holding,
     Had, HasBegun, ReadyIsBegun, CommandsKnow, Known, SawAgent, Started, P!Stale, P!Done,
     P!Working, P!marks, P!RemoveStale
<1>4. CommandsKnow'
  BY <1>1, <1>2, <1>3, OneCommand
<1>5. ProcessTypes'
  BY <1>1, ProcessAssumption DEF IProcess, ProcessTypes, CliType, AgentStates, P!Stale,
     P!marks, P!RemoveStale
<1>6. P!OneAgent' /\ P!StopIsMeant' /\ RequestsAreMeant'
  BY ProcessAssumption DEF IProcess, ProcessTypes, CliType, P!OneAgent, P!StopIsMeant,
     RequestsAreMeant, LooksAreLocked, P!Stale, P!Holding, P!marks, P!Any, P!RemoveStale
<1>7. LooksAreLocked'
  BY <1>1, ProcessAssumption DEF IProcess, ProcessTypes, CliType, LooksAreLocked, P!Stale,
     P!Step, P!Set, P!Says, P!Done, P!Working, P!RemoveStale
<1>8. ReadyIsBegun'
  BY <1>2 DEF IProcess, ProcessTypes, ReadyIsBegun, P!Stale, Onward, P!marks, P!RemoveStale
<1>9. QED
  BY <1>4, <1>5, <1>6, <1>7, <1>8 DEF IProcess

LEMMA ReadPidKeeps ==
  ASSUME IProcess, NEW u \in Users, P!ReadPid(u)
  PROVE  IProcess'
<1>1. /\ cli' \in [Users -> CliType] /\ \A v \in Users \ {u} : cli'[v] = cli[v]
      /\ cli'[u] = IF cli[u].verb = "start" THEN P!Done(None, cli[u].child, "running")
                     ELSE P!Working("request", "stop", cli[u].saw, pidFile, None)
  BY DEF IProcess, ProcessTypes, CliType, CliPoints, P!ReadPid, P!Step, P!Set, P!Says,
     P!Done, P!Working
<1>2. Onward
  BY DEF IProcess, ProcessTypes, Onward, P!ReadPid, Had, P!Holding, HasBegun
<1>3. Known(cli[u])'
  BY <1>1, ProcessAssumption DEF IProcess, ProcessTypes, CliType, P!OneAgent, P!Holding,
     Had, HasBegun, ReadyIsBegun, CommandsKnow, Known, SawAgent, Started, P!ReadPid, P!Done,
     P!Working, P!marks
<1>4. CommandsKnow'
  BY <1>1, <1>2, <1>3, OneCommand
<1>5. ProcessTypes'
  BY <1>1, ProcessAssumption DEF IProcess, ProcessTypes, CliType, AgentStates, P!ReadPid,
     P!marks
<1>6. P!OneAgent' /\ P!StopIsMeant' /\ RequestsAreMeant'
  BY ProcessAssumption DEF IProcess, ProcessTypes, CliType, P!OneAgent, P!StopIsMeant,
     RequestsAreMeant, LooksAreLocked, P!ReadPid, P!Holding, P!marks, P!Any
<1>7. LooksAreLocked'
  BY <1>1, ProcessAssumption DEF IProcess, ProcessTypes, CliType, LooksAreLocked, P!ReadPid,
     P!Step, P!Set, P!Says, P!Done, P!Working
<1>8. ReadyIsBegun'
  BY <1>2 DEF IProcess, ProcessTypes, ReadyIsBegun, P!ReadPid, Onward, P!marks
<1>9. QED
  BY <1>4, <1>5, <1>6, <1>7, <1>8 DEF IProcess

LEMMA RequestKeeps ==
  ASSUME IProcess, NEW u \in Users, P!Request(u)
  PROVE  IProcess'
<1>1. /\ cli' \in [Users -> CliType] /\ \A v \in Users \ {u} : cli'[v] = cli[v]
      /\ cli'[u] = [cli[u] EXCEPT !.at = "wait"]
  BY DEF IProcess, ProcessTypes, CliType, CliPoints, P!Request, P!Step, P!Set, P!Says,
     P!Done, P!Working
<1>2. Onward
  BY DEF IProcess, ProcessTypes, Onward, P!Request, Had, P!Holding, HasBegun
<1>3. Known(cli[u])'
  BY <1>1, ProcessAssumption DEF IProcess, ProcessTypes, CliType, P!OneAgent, P!Holding,
     Had, HasBegun, ReadyIsBegun, CommandsKnow, Known, SawAgent, Started, P!Request, P!Done,
     P!Working, P!marks
<1>4. CommandsKnow'
  BY <1>1, <1>2, <1>3, OneCommand
<1>5. ProcessTypes'
  BY <1>1, ProcessAssumption DEF IProcess, ProcessTypes, CliType, AgentStates, P!Request,
     P!marks
<1>6. P!OneAgent' /\ P!StopIsMeant' /\ RequestsAreMeant'
  <2>1. P!OneAgent' /\ P!StopIsMeant'
    BY DEF IProcess, ProcessTypes, P!OneAgent, P!StopIsMeant, P!Request, P!Holding
  <2>2. P!Any \notin P!Pids
    BY DEF P!Any, P!Pids
  <2>3. RequestsAreMeant'
    BY <2>2, ProcessAssumption DEF IProcess, ProcessTypes, CliType, P!OneAgent,
       RequestsAreMeant, P!Request, P!Holding
  <2>4. QED
    BY <2>1, <2>3
<1>7. LooksAreLocked'
  BY <1>1, ProcessAssumption DEF IProcess, ProcessTypes, CliType, LooksAreLocked, P!Request,
     P!Step, P!Set, P!Says, P!Done, P!Working
<1>8. ReadyIsBegun'
  BY <1>2 DEF IProcess, ProcessTypes, ReadyIsBegun, P!Request, Onward, P!marks
<1>9. QED
  BY <1>4, <1>5, <1>6, <1>7, <1>8 DEF IProcess

LEMMA GiveUpKeeps ==
  ASSUME IProcess, NEW u \in Users, P!GiveUp(u)
  PROVE  IProcess'
<1>1. /\ cli' \in [Users -> CliType] /\ \A v \in Users \ {u} : cli'[v] = cli[v]
      /\ cli'[u] = P!Done(None, cli[u].child, "failed")
  BY DEF IProcess, ProcessTypes, CliType, CliPoints, P!GiveUp, P!Step, P!Set, P!Says,
     P!Done, P!Working
<1>2. Onward
  BY DEF IProcess, ProcessTypes, Onward, P!GiveUp, Had, P!Holding, HasBegun
<1>3. Known(cli[u])'
  BY <1>1, ProcessAssumption DEF IProcess, ProcessTypes, CliType, P!OneAgent, P!Holding,
     Had, HasBegun, ReadyIsBegun, CommandsKnow, Known, SawAgent, Started, P!GiveUp, P!Done,
     P!Working, P!marks
<1>4. CommandsKnow'
  BY <1>1, <1>2, <1>3, OneCommand
<1>5. ProcessTypes'
  BY <1>1, ProcessAssumption DEF IProcess, ProcessTypes, CliType, AgentStates, P!GiveUp,
     P!marks
<1>6. P!OneAgent' /\ P!StopIsMeant' /\ RequestsAreMeant'
  BY ProcessAssumption DEF IProcess, ProcessTypes, CliType, P!OneAgent, P!StopIsMeant,
     RequestsAreMeant, LooksAreLocked, P!GiveUp, P!Holding, P!marks, P!Any
<1>7. LooksAreLocked'
  BY <1>1, ProcessAssumption DEF IProcess, ProcessTypes, CliType, LooksAreLocked, P!GiveUp,
     P!Step, P!Set, P!Says, P!Done, P!Working
<1>8. ReadyIsBegun'
  BY <1>2 DEF IProcess, ProcessTypes, ReadyIsBegun, P!GiveUp, Onward, P!marks
<1>9. QED
  BY <1>4, <1>5, <1>6, <1>7, <1>8 DEF IProcess

LEMMA SpawnKeeps ==
  ASSUME IProcess, NEW u \in Users, NEW p \in P!Pids, P!Spawn(u, p)
  PROVE  IProcess'
<1>1. /\ cli' \in [Users -> CliType] /\ \A v \in Users \ {u} : cli'[v] = cli[v]
      /\ cli'[u] = P!Working("child", "start", cli[u].saw, None, p)
  BY DEF IProcess, ProcessTypes, CliType, CliPoints, P!Spawn, P!Step, P!Set, P!Says,
     P!Done, P!Working, P!First, P!Free, P!Becomes
<1>2. Onward
  BY DEF IProcess, ProcessTypes, Onward, P!Spawn, Had, P!Holding, HasBegun, P!First, P!Free,
     P!Becomes
<1>3. Known(cli[u])'
  BY <1>1, ProcessAssumption DEF IProcess, ProcessTypes, CliType, P!OneAgent, P!Holding,
     Had, HasBegun, ReadyIsBegun, CommandsKnow, Known, SawAgent, Started, P!Spawn, P!Done,
     P!Working, P!marks, P!First, P!Free, P!Becomes
<1>4. CommandsKnow'
  BY <1>1, <1>2, <1>3, OneCommand
<1>5. ProcessTypes'
  BY <1>1, ProcessAssumption DEF IProcess, ProcessTypes, CliType, AgentStates, P!Spawn,
     P!marks, P!First, P!Free, P!Becomes
<1>6. P!OneAgent' /\ P!StopIsMeant' /\ RequestsAreMeant'
  BY ProcessAssumption DEF IProcess, ProcessTypes, CliType, P!OneAgent, P!StopIsMeant,
     RequestsAreMeant, LooksAreLocked, P!Spawn, P!Holding, P!marks, P!Any, P!First, P!Free,
     P!Becomes
<1>7. LooksAreLocked'
  BY <1>1, ProcessAssumption DEF IProcess, ProcessTypes, CliType, LooksAreLocked, P!Spawn,
     P!Step, P!Set, P!Says, P!Done, P!Working, P!First, P!Free, P!Becomes
<1>8. ReadyIsBegun'
  BY <1>2 DEF IProcess, ProcessTypes, ReadyIsBegun, P!Spawn, Onward, P!marks, P!First,
     P!Free, P!Becomes
<1>9. QED
  BY <1>4, <1>5, <1>6, <1>7, <1>8 DEF IProcess

LEMMA SeeReadyKeeps ==
  ASSUME IProcess, NEW u \in Users, P!SeeReady(u)
  PROVE  IProcess'
<1>1. /\ cli' \in [Users -> CliType] /\ \A v \in Users \ {u} : cli'[v] = cli[v]
      /\ cli'[u] = P!Done(None, cli[u].child, "started")
  BY DEF IProcess, ProcessTypes, CliType, CliPoints, P!SeeReady, P!Step, P!Set, P!Says,
     P!Done, P!Working, P!Alive
<1>2. Onward
  BY DEF IProcess, ProcessTypes, Onward, P!SeeReady, Had, P!Holding, HasBegun, P!Alive
<1>3. Known(cli[u])'
  BY <1>1, ProcessAssumption DEF IProcess, ProcessTypes, CliType, P!OneAgent, P!Holding,
     Had, HasBegun, ReadyIsBegun, CommandsKnow, Known, SawAgent, Started, P!SeeReady,
     P!Done, P!Working, P!marks, P!Alive
<1>4. CommandsKnow'
  BY <1>1, <1>2, <1>3, OneCommand
<1>5. ProcessTypes'
  BY <1>1, ProcessAssumption DEF IProcess, ProcessTypes, CliType, AgentStates, P!SeeReady,
     P!marks, P!Alive
<1>6. P!OneAgent' /\ P!StopIsMeant' /\ RequestsAreMeant'
  BY ProcessAssumption DEF IProcess, ProcessTypes, CliType, P!OneAgent, P!StopIsMeant,
     RequestsAreMeant, LooksAreLocked, P!SeeReady, P!Holding, P!marks, P!Any, P!Alive
<1>7. LooksAreLocked'
  BY <1>1, ProcessAssumption DEF IProcess, ProcessTypes, CliType, LooksAreLocked,
     P!SeeReady, P!Step, P!Set, P!Says, P!Done, P!Working, P!Alive
<1>8. ReadyIsBegun'
  BY <1>2 DEF IProcess, ProcessTypes, ReadyIsBegun, P!SeeReady, Onward, P!marks, P!Alive
<1>9. QED
  BY <1>4, <1>5, <1>6, <1>7, <1>8 DEF IProcess

LEMMA SeeEndKeeps ==
  ASSUME IProcess, NEW u \in Users, P!SeeEnd(u)
  PROVE  IProcess'
<1>1. /\ cli' \in [Users -> CliType] /\ \A v \in Users \ {u} : cli'[v] = cli[v]
      /\ cli'[u] = P!Done(None, cli[u].child, "failed")
  BY DEF IProcess, ProcessTypes, CliType, CliPoints, P!SeeEnd, P!Step, P!Set, P!Says,
     P!Done, P!Working, P!Alive, P!Becomes, P!Unlocked
<1>2. Onward
  BY DEF IProcess, ProcessTypes, Onward, P!SeeEnd, Had, P!Holding, HasBegun, P!Alive,
     P!Becomes, P!Unlocked
<1>3. Known(cli[u])'
  BY <1>1, ProcessAssumption DEF IProcess, ProcessTypes, CliType, P!OneAgent, P!Holding,
     Had, HasBegun, ReadyIsBegun, CommandsKnow, Known, SawAgent, Started, P!SeeEnd, P!Done,
     P!Working, P!marks, P!Alive, P!Becomes, P!Unlocked
<1>4. CommandsKnow'
  BY <1>1, <1>2, <1>3, OneCommand
<1>5. ProcessTypes'
  BY <1>1, ProcessAssumption DEF IProcess, ProcessTypes, CliType, AgentStates, P!SeeEnd,
     P!marks, P!Alive, P!Becomes, P!Unlocked
<1>6. P!OneAgent' /\ P!StopIsMeant' /\ RequestsAreMeant'
  BY ProcessAssumption DEF IProcess, ProcessTypes, CliType, P!OneAgent, P!StopIsMeant,
     RequestsAreMeant, LooksAreLocked, P!SeeEnd, P!Holding, P!marks, P!Any, P!Alive,
     P!Becomes, P!Unlocked
<1>7. LooksAreLocked'
  BY <1>1, ProcessAssumption DEF IProcess, ProcessTypes, CliType, LooksAreLocked, P!SeeEnd,
     P!Step, P!Set, P!Says, P!Done, P!Working, P!Alive, P!Becomes, P!Unlocked
<1>8. ReadyIsBegun'
  BY <1>2 DEF IProcess, ProcessTypes, ReadyIsBegun, P!SeeEnd, Onward, P!marks, P!Alive,
     P!Becomes, P!Unlocked
<1>9. QED
  BY <1>4, <1>5, <1>6, <1>7, <1>8 DEF IProcess

-----------------------------------------------------------------------------
LEMMA StepProcess == ASSUME IProcess, [P!Next]_P!vars PROVE IProcess'
<1>1. ASSUME NEW p \in P!Pids,
             \/ P!Run(p) \/ P!Acquire(p) \/ P!ClearMarks(p) \/ P!WritePid(p) \/ P!MarkReady(p)
             \/ P!SeeStop(p) \/ P!Quit(p) \/ P!DropMarks(p) \/ P!Exit(p) \/ P!Die(p)
      PROVE  IProcess'
  BY <1>1, RunKeeps, AcquireKeeps, ClearMarksKeeps, WritePidKeeps, MarkReadyKeeps,
     SeeStopKeeps, QuitKeeps, DropMarksKeeps, ExitKeeps, DieKeeps
<1>2. ASSUME NEW u \in Users,
             \/ P!Command(u, "start") \/ P!Command(u, "stop") \/ P!Look(u) \/ P!Unlock(u)
             \/ P!Stale(u) \/ P!ReadPid(u) \/ P!Request(u) \/ P!GiveUp(u) \/ P!SeeReady(u)
             \/ P!SeeEnd(u) \/ \E p \in P!Pids : P!Spawn(u, p)
      PROVE  IProcess'
  BY <1>2, CommandKeeps, LookKeeps, UnlockKeeps, StaleKeeps, ReadPidKeeps, RequestKeeps,
     GiveUpKeeps, SeeReadyKeeps, SeeEndKeeps, SpawnKeeps
<1>3. CASE UNCHANGED P!vars
  BY <1>3 DEF IProcess, P!vars, P!marks, ProcessTypes, P!OneAgent, P!StopIsMeant,
     LooksAreLocked, RequestsAreMeant, CommandsKnow, ReadyIsBegun, Known, SawAgent,
     Started, Had, HasBegun, P!Holding
<1>4. QED
  BY <1>1, <1>2, <1>3 DEF P!Next

\* At most one agent runs, a stop ends only an agent it was meant for, and a command
\* reports what is so, in any interleaving of agents and commands, deaths included
\* (lifecycle.rs: RuntimeGuard, stop_if_running, start, wait_for_stop).
THEOREM ProcessesStaySound == P!Spec => []P!ProcessesHold
<1>1. P!Init => IProcess
  BY InitProcess
<1>2. IProcess /\ [P!Next]_P!vars => IProcess'
  BY StepProcess
<1>3. IProcess => P!ProcessesHold
  BY ProcessesFollow
<1>4. QED
  BY <1>1, <1>2, <1>3, PTL DEF P!Spec

-----------------------------------------------------------------------------
(***************************************************************************)
(* WindowsInstall.                                                         *)
(***************************************************************************)
(***************************************************************************)
(* Types.                                                                  *)
(***************************************************************************)
Early    == {"snapshot", "json", "type"}
Before   == Early \cup {"stop canonical", "stop short", "activate"}
After    == {"configure", "clear", "repair", "start", "ready", "tidy"}
Undoing  == {"undo stop", "undo program", "undo canonical", "undo short", "undo command",
             "undo files", "back canonical", "back short", "undone"}
Removing == {"drop canonical", "drop short"}
Installers == [at : Before \cup After \cup Undoing \cup Removing \cup {"idle"},
               version : Programs \cup {None}, found : W!Settings, json : W!Stamps,
               type : W!Stamps,
               staged : BOOLEAN, backup : W!Files, switched : BOOLEAN, errors : BOOLEAN]
InstallTypes ==
  /\ disk \in W!Disks /\ service \in W!Settings /\ installer \in Installers
  /\ died \in BOOLEAN /\ cleanup \subseteq {"data", "script"} /\ hasty \in BOOLEAN
  /\ outcome \in W!Outcomes /\ runs \in 0..MaxRuns /\ pids \in Nat /\ faults \in Nat

(***************************************************************************)
(* What holds at the points of an installation.                            *)
(***************************************************************************)
In(points) == installer.at \in points
Installing == In(Before \cup After \cup Undoing)
OldDisk == start.disk
Linked == OldDisk.shared = "legacy"
SameConfig(a, b) == W!Configured(a) = W!Configured(b)

\* A report is about a run that has ended; what a removal has still to do is about that
\* removal, or the last run began before it was done; the beginning is left for as long
\* as it is compared with.
Reported ==
  /\ ~W!At("idle") => outcome = "none"
  /\ cleanup # {} => \/ hasty
                     \/ W!At("idle") /\ outcome \in {"removing", "removed", "unremoved"}
  /\ Installing \/ outcome \in {"rolled back", "refused"} =>
       start \in [disk : W!Disks, service : W!Settings]

\* What the installer remembers is what it found.
Remembered ==
  Installing =>
    /\ installer.version \in Programs
    /\ installer.staged <=> OldDisk.program # installer.version
    /\ installer.backup = OldDisk.program
    /\ ~W!At("snapshot") =>
         /\ ~hasty => installer.json = OldDisk.json /\ installer.type = OldDisk.type
         /\ \A n \in W!Names : SameConfig(installer.found[n], start.service[n])
         /\ ~died => installer.found = start.service
    /\ ~installer.switched => In(Early \cup {"undo files", "undone"})
    /\ installer.switched => ~In(Early)
    /\ installer.errors => In(Undoing)

\* The files, until they are replaced and after it.  A removal takes files from a run
\* that began before it was done.
FilesKept ==
  /\ disk.shared = "legacy" => Linked
  /\ Linked \/ disk.legacy = OldDisk.legacy
  /\ ~installer.staged \/ In(Before) \/ ~installer.switched => disk.program = OldDisk.program
  /\ ~installer.switched => disk.command = OldDisk.command
  /\ W!At("snapshot") => disk.json = OldDisk.json /\ disk.type = OldDisk.type
  /\ In(After) => disk.program = installer.version
  /\ In({"start", "ready", "tidy"}) => disk.command = installer.version
  /\ In((Before \cup After) \ {"snapshot", "json"}) => disk.json = runs
  /\ In((Before \cup After) \ Early) => disk.type = runs
FilesKnown ==
  Installing =>
    /\ hasty \/ FilesKept
    /\ In(After) \/ (In(Before) /\ ~installer.staged) => disk.program \in {installer.version, None}

\* The services: untouched, stopped, and one of them configured and started.
Serves(s) == s # None /\ s.place = "program" /\ s.mode = "auto" /\ s.by = runs
ServicesKnown ==
  Installing =>
    /\ ~installer.switched =>
         /\ \A n \in W!Names : SameConfig(service[n], start.service[n])
         /\ ~died => service = start.service
    /\ ~W!At("snapshot") =>
         /\ \A n \in W!Names : installer.found[n] # None => service[n] # None
         /\ installer.found["short"] = None => service["short"] = None
    /\ W!At("stop short") => ~W!Running("canonical")
    /\ In({"activate", "configure", "clear", "repair", "start"}) =>
         \A n \in W!Names : ~W!Running(n)
    /\ In({"clear", "repair", "start", "ready", "tidy"}) => Serves(service[W!InstallName])
    /\ In({"ready", "tidy"}) =>
         /\ \A n \in W!Names \ {W!InstallName} : ~W!Running(n)
         /\ W!Running(W!InstallName) => service[W!InstallName].image = installer.version
    /\ W!At("tidy") => \/ died
                       \/ /\ W!Running(W!InstallName)
                          /\ hasty \/ disk.marker = service[W!InstallName].pid

\* What the rollback has put back, if no step of it failed.
RunsAgain(n) ==
  start.service[n] # None /\ start.service[n].pid # None /\ ~died =>
    W!Running(n) /\ (Linked \/ service[n].image = W!FileOf(start.service[n], OldDisk))
UndoneSoFar ==
  In(Undoing) /\ ~installer.errors /\ ~hasty =>
    /\ In({"undo program", "undo canonical", "undo short", "undo command", "undo files",
           "back canonical"}) /\ installer.switched => \A n \in W!Names : ~W!Running(n)
    /\ W!At("back short") => ~W!Running("short")
    /\ ~In({"undo stop", "undo program"}) => disk.program = OldDisk.program
    /\ ~In({"undo stop", "undo program", "undo canonical"}) =>
         SameConfig(service["canonical"], start.service["canonical"])
    /\ ~In({"undo stop", "undo program", "undo canonical", "undo short"}) =>
         SameConfig(service["short"], start.service["short"])
    /\ In({"undo files", "back canonical", "back short", "undone"}) /\ installer.switched
         => disk.command = OldDisk.program
    /\ In({"back canonical", "back short", "undone"}) =>
         disk.json = OldDisk.json /\ disk.type = OldDisk.type
    /\ In({"back short", "undone"}) /\ installer.switched => RunsAgain("canonical")
    /\ W!At("undone") /\ installer.switched => RunsAgain("short")

IInstall == /\ InstallTypes /\ Reported /\ Remembered
            /\ FilesKnown /\ ServicesKnown /\ UndoneSoFar
            /\ W!InstalledIsNew /\ W!RolledBackIsOld

-----------------------------------------------------------------------------
(* The operators *)

Points == Before \cup After \cup Undoing \cup Removing \cup {"idle"}
Carries == /\ installer'.version = installer.version /\ installer'.found = installer.found
           /\ installer'.json = installer.json /\ installer'.type = installer.type
           /\ installer'.staged = installer.staged /\ installer'.backup = installer.backup
           /\ installer'.switched = installer.switched

LEMMA GoesOn ==
  ASSUME InstallTypes, NEW p \in Points, W!Goes(p)
  PROVE  /\ installer' \in Installers /\ installer'.at = p
         /\ Carries /\ installer'.errors = installer.errors
BY DEF InstallTypes, Points, W!Goes, Carries, Installers

LEMMA EndsHere ==
  ASSUME InstallTypes, NEW o \in W!Outcomes, W!Ends(o)
  PROVE  /\ installer' \in Installers /\ installer'.at = "idle"
         /\ installer'.version = installer.version /\ outcome' = o
BY InstallAssumption DEF InstallTypes, W!Ends, W!Idle, Installers, W!Settings, W!Stamps,
   W!Files, W!Absent

LEMMA ConfiguredIs ==
  ASSUME NEW s \in W!Services
  PROVE  /\ W!Configured(s) \in W!Services /\ W!Configured(s) # None
         /\ W!Configured(s).pid = None /\ W!Configured(s).image = None
         /\ W!Configured(s).place = s.place /\ W!Configured(s).mode = s.mode
         /\ W!Configured(s).by = s.by
         /\ W!Configured(W!Configured(s)) = W!Configured(s)
BY InstallAssumption DEF W!Services, W!Configured, W!Files

LEMMA ServiceIs ==
  ASSUME NEW s \in W!Services \cup {None}
  PROVE  s # None <=> s \in W!Services
BY InstallAssumption DEF W!Services

LEMMA FaultIs ==
  ASSUME InstallTypes, W!Fault
  PROVE  faults' \in Nat
BY DEF InstallTypes, W!Fault

LEMMA NamesAre ==
  ASSUME InstallTypes
  PROVE  /\ W!InstallName \in W!Names /\ W!Redundant \in W!Names /\ W!Redundant # W!InstallName
         /\ \A n \in W!Names : n = W!InstallName \/ n = W!Redundant
BY DEF W!InstallName, W!Redundant, W!Names

LEMMA RepairsAre ==
  ASSUME InstallTypes, NEW d \in W!Repairs(disk)
  PROVE  /\ d \in W!Disks /\ d.program = disk.program /\ d.command = disk.program
         /\ d.json = disk.json /\ d.type = disk.type /\ d.marker = disk.marker
         /\ d.shared = "legacy" => disk.shared = "legacy"
         /\ disk.shared = "legacy" \/ d.legacy = disk.legacy
<1>1. CASE disk.command = disk.program
  BY <1>1 DEF InstallTypes, W!Repairs
<1>2. CASE disk.command # disk.program
  <2>1. d = W!Relinked(disk) \/ d = [disk EXCEPT !.command = disk.program,
                                      !.legacy = IF disk.shared = "legacy" THEN disk.program ELSE @]
    BY <1>2 DEF W!Repairs
  <2>2. QED  BY <2>1 DEF InstallTypes, W!Relinked, W!Disks
<1>3. QED  BY <1>1, <1>2

LEMMA ReplacedIs ==
  ASSUME InstallTypes, NEW v \in W!Files, NEW d, d = W!Replaced(disk, v)
  PROVE  /\ d \in W!Disks /\ d.program = v /\ d.command = disk.command /\ d.legacy = disk.legacy
         /\ d.json = disk.json /\ d.type = disk.type /\ d.marker = disk.marker
         /\ d.shared = "legacy" => disk.shared = "legacy"
<1>1. CASE disk.shared = "program"
  <2>1. d = [disk EXCEPT !.program = v, !.shared = None]
    BY <1>1 DEF InstallTypes, W!Disks, W!Replaced
  <2>2. QED  BY <1>1, <2>1, InstallAssumption DEF InstallTypes, W!Disks
<1>2. CASE disk.shared # "program"
  <2>1. d = [disk EXCEPT !.program = v]
    BY <1>2 DEF InstallTypes, W!Disks, W!Replaced
  <2>2. QED  BY <2>1 DEF InstallTypes, W!Disks
<1>3. QED  BY <1>1, <1>2

\* What is written to the service n.
Put(n, s) == [service EXCEPT ![n] = s]
LEMMA OneService ==
  ASSUME InstallTypes, NEW n \in W!Names, NEW s \in W!Services \cup {None}
  PROVE  /\ Put(n, s) \in W!Settings /\ Put(n, s)[n] = s
         /\ \A m \in W!Names \ {n} : Put(n, s)[m] = service[m]
BY DEF InstallTypes, W!Settings, Put

LEMMA StoppedIs ==
  ASSUME InstallTypes, NEW n \in W!Names
  PROVE  /\ W!Stopped(n) \in W!Settings
         /\ W!Stopped(n)[n] = W!Configured(service[n])
         /\ \A m \in W!Names \ {n} : W!Stopped(n)[m] = service[m]
         /\ \A m \in W!Names : SameConfig(W!Stopped(n)[m], service[m])
         /\ \A m \in W!Names : W!Stopped(n)[m] = None <=> service[m] = None
         /\ W!Stopped(n)[n] = None \/ W!Stopped(n)[n].pid = None
<1>1. service[n] \in W!Services \cup {None} /\ W!Configured(None) = None
  BY DEF InstallTypes, W!Settings, W!Configured
<1>2. /\ W!Configured(service[n]) \in W!Services \cup {None}
      /\ W!Configured(W!Configured(service[n])) = W!Configured(service[n])
      /\ W!Configured(service[n]) = None <=> service[n] = None
      /\ W!Configured(service[n]) = None \/ W!Configured(service[n]).pid = None
  BY <1>1, ConfiguredIs, ServiceIs
<1>3. W!Stopped(n) = Put(n, W!Configured(service[n]))
  BY DEF W!Stopped, Put
<1>4. /\ W!Stopped(n) \in W!Settings /\ W!Stopped(n)[n] = W!Configured(service[n])
      /\ \A m \in W!Names \ {n} : W!Stopped(n)[m] = service[m]
  BY <1>2, <1>3, OneService
<1>5. QED  BY <1>1, <1>2, <1>4 DEF SameConfig

LEMMA StartedIs ==
  ASSUME InstallTypes, NEW n \in W!Names, service[n] # None
  PROVE  /\ W!Started(n) \in W!Settings /\ W!Started(n)[n] # None
         /\ W!Started(n)[n].pid = pids + 1 /\ pids + 1 \in Nat /\ pids + 1 # None
         /\ W!Started(n)[n].image = W!Image(n)
         /\ W!Started(n)[n].place = service[n].place /\ W!Started(n)[n].mode = service[n].mode
         /\ W!Started(n)[n].by = service[n].by
         /\ \A m \in W!Names \ {n} : W!Started(n)[m] = service[m]
         /\ \A m \in W!Names : SameConfig(W!Started(n)[m], service[m])
<1> DEFINE s == [service[n] EXCEPT !.pid = pids + 1, !.image = W!Image(n)]
<1>1. service[n] \in W!Services
  BY ServiceIs DEF InstallTypes, W!Settings
<1>2. W!Image(n) \in W!Files /\ pids + 1 \in Nat
  BY DEF InstallTypes, W!Image, W!FileOf, W!Disks
<1>3. /\ s \in W!Services /\ s.pid = pids + 1 /\ s.image = W!Image(n)
      /\ s.place = service[n].place /\ s.mode = service[n].mode /\ s.by = service[n].by
  BY <1>1, <1>2 DEF W!Services
<1>4. s # None /\ W!Configured(s) = W!Configured(service[n])
  BY <1>1, <1>3, ServiceIs DEF W!Configured, W!Services
<1>5. W!Started(n) = Put(n, s)
  BY DEF W!Started, InstallTypes, W!Settings, Put
<1> HIDE DEF s
<1>6. /\ W!Started(n) \in W!Settings /\ W!Started(n)[n] = s
      /\ \A m \in W!Names \ {n} : W!Started(n)[m] = service[m]
  BY <1>3, <1>5, OneService
<1>7. pids + 1 # None
  BY <1>2, InstallAssumption
<1>8. QED  BY <1>2, <1>3, <1>4, <1>6, <1>7 DEF SameConfig

-----------------------------------------------------------------------------
(* The steps of an installation that succeeds *)

LEMMA WriteJsonKeeps ==
  ASSUME IInstall, W!WriteJson
  PROVE  IInstall'
<1>0. /\ installer' \in Installers /\ installer'.at = "type" /\ Carries
      /\ installer'.errors = installer.errors
  BY GoesOn DEF IInstall, Points, Before, After, Undoing, Early, Removing, W!WriteJson
<1>1. InstallTypes'
  BY <1>0 DEF IInstall, InstallTypes, W!WriteJson, W!Keeps, W!Disks, W!Stamps
<1>2. Reported'
  BY <1>0 DEF IInstall, Reported, W!WriteJson, W!Keeps, In, W!At, Installing, Early, Before,
    After, Undoing, Removing, Points
<1>3. Remembered'
  BY <1>0 DEF IInstall, Remembered, Carries, OldDisk, W!WriteJson, W!Keeps, In, W!At,
     Installing, Early, Before, After, Undoing, Removing
<1>4. FilesKnown'
  BY <1>0 DEF IInstall, InstallTypes, W!Disks, Remembered, FilesKnown, FilesKept, Carries, OldDisk,
     Linked, W!WriteJson, W!Keeps, In, W!At, Installing, Early, Before, After, Undoing,
     Removing
<1>5. ServicesKnown'
  BY <1>0 DEF IInstall, Remembered, ServicesKnown, Carries, W!Running, W!InstallName,
     Serves, W!Names, W!WriteJson, W!Keeps, In, W!At, Installing, Early, Before, After,
     Undoing, Removing
<1>6. UndoneSoFar'
  BY <1>0 DEF IInstall, Remembered, FilesKnown, FilesKept, ServicesKnown, UndoneSoFar, Carries,
     OldDisk, Linked, W!Running, RunsAgain, W!WriteJson, W!Keeps, In, W!At, Installing,
     Early, Before, After, Undoing, Removing
<1>7. W!InstalledIsNew'
  BY <1>0 DEF IInstall, Reported, W!InstalledIsNew, W!At, W!WriteJson, W!Keeps
<1>8. W!RolledBackIsOld'
  BY <1>0 DEF IInstall, Reported, W!RolledBackIsOld, W!At, W!WriteJson, W!Keeps
<1>9. QED  BY <1>1, <1>2, <1>3, <1>4, <1>5, <1>6, <1>7, <1>8 DEF IInstall

LEMMA ActivateKeeps ==
  ASSUME IInstall, W!Activate
  PROVE  IInstall'
<1>0. /\ installer' \in Installers /\ installer'.at = "configure" /\ Carries
      /\ installer'.errors = installer.errors
  BY GoesOn DEF IInstall, Points, Before, After, Undoing, Early, Removing, W!Activate
<1>a. /\ disk' \in W!Disks /\ disk'.command = disk.command /\ disk'.legacy = disk.legacy
      /\ disk'.json = disk.json /\ disk'.type = disk.type
      /\ disk'.shared = "legacy" => disk.shared = "legacy"
      /\ (~hasty => disk'.program = installer.version) /\ disk'.program \in {installer.version, None}
  BY ReplacedIs DEF IInstall, InstallTypes, W!Activate, Remembered, FilesKnown, FilesKept, W!Files,
     OldDisk, In, W!At, Installing, Early, Before, After, Undoing, Removing
<1>1. InstallTypes'
  BY <1>0, <1>a DEF IInstall, InstallTypes, W!Activate, W!Keeps
<1>2. Reported'
  BY <1>0, <1>a DEF IInstall, Reported, W!Activate, W!Keeps, In, W!At, Installing, Early,
     Before, After, Undoing, Removing, Points
<1>3. Remembered'
  BY <1>0, <1>a DEF IInstall, Remembered, Carries, OldDisk, W!Activate, W!Keeps, In, W!At,
    Installing, Early, Before, After, Undoing, Removing
<1>4. FilesKnown'
  BY <1>0, <1>a DEF IInstall, InstallTypes, W!Disks, Remembered, FilesKnown, FilesKept, Carries,
     OldDisk, Linked, W!Activate, W!Keeps, In, W!At, Installing, Early, Before, After,
     Undoing, Removing
<1>5. ServicesKnown'
  BY <1>0, <1>a DEF IInstall, Remembered, ServicesKnown, Carries, W!Running,
     W!InstallName, Serves, W!Names, W!Activate, W!Keeps, In, W!At, Installing, Early,
     Before, After, Undoing, Removing
<1>6. UndoneSoFar'
  BY <1>0, <1>a DEF IInstall, Remembered, FilesKnown, FilesKept, ServicesKnown, UndoneSoFar, Carries,
     OldDisk, Linked, W!Running, RunsAgain, W!Activate, W!Keeps, In, W!At, Installing,
     Early, Before, After, Undoing, Removing
<1>7. W!InstalledIsNew'
  BY <1>0, <1>a DEF IInstall, Reported, W!InstalledIsNew, W!At, W!Activate, W!Keeps
<1>8. W!RolledBackIsOld'
  BY <1>0, <1>a DEF IInstall, Reported, W!RolledBackIsOld, W!At, W!Activate, W!Keeps
<1>9. QED  BY <1>1, <1>2, <1>3, <1>4, <1>5, <1>6, <1>7, <1>8 DEF IInstall

LEMMA ClearMarkerKeeps ==
  ASSUME IInstall, W!ClearMarker
  PROVE  IInstall'
<1>0. /\ installer' \in Installers /\ installer'.at = "repair" /\ Carries
      /\ installer'.errors = installer.errors
  BY GoesOn DEF IInstall, Points, Before, After, Undoing, Early, Removing, W!ClearMarker
<1>1. InstallTypes'
  BY <1>0 DEF IInstall, InstallTypes, W!ClearMarker, W!Keeps, W!Disks, W!Stamps
<1>2. Reported'
  BY <1>0 DEF IInstall, Reported, W!ClearMarker, W!Keeps, In, W!At, Installing, Early,
     Before, After, Undoing, Removing, Points
<1>3. Remembered'
  BY <1>0 DEF IInstall, Remembered, Carries, OldDisk, W!ClearMarker, W!Keeps, In, W!At,
     Installing, Early, Before, After, Undoing, Removing
<1>4. FilesKnown'
  BY <1>0 DEF IInstall, InstallTypes, W!Disks, Remembered, FilesKnown, FilesKept, Carries, OldDisk,
     Linked, W!ClearMarker, W!Keeps, In, W!At, Installing, Early, Before, After, Undoing,
     Removing
<1>5. ServicesKnown'
  BY <1>0 DEF IInstall, Remembered, ServicesKnown, Carries, W!Running, W!InstallName,
     Serves, W!Names, W!ClearMarker, W!Keeps, In, W!At, Installing, Early, Before, After,
     Undoing, Removing
<1>6. UndoneSoFar'
  BY <1>0 DEF IInstall, Remembered, FilesKnown, FilesKept, ServicesKnown, UndoneSoFar, Carries,
     OldDisk, Linked, W!Running, RunsAgain, W!ClearMarker, W!Keeps, In, W!At, Installing,
     Early, Before, After, Undoing, Removing
<1>7. W!InstalledIsNew'
  BY <1>0 DEF IInstall, Reported, W!InstalledIsNew, W!At, W!ClearMarker, W!Keeps
<1>8. W!RolledBackIsOld'
  BY <1>0 DEF IInstall, Reported, W!RolledBackIsOld, W!At, W!ClearMarker, W!Keeps
<1>9. QED  BY <1>1, <1>2, <1>3, <1>4, <1>5, <1>6, <1>7, <1>8 DEF IInstall

LEMMA RepairKeeps ==
  ASSUME IInstall, W!Repair
  PROVE  IInstall'
<1>0. /\ installer' \in Installers /\ installer'.at = "start" /\ Carries
      /\ installer'.errors = installer.errors
  BY GoesOn DEF IInstall, Points, Before, After, Undoing, Early, Removing, W!Repair
<1>1. InstallTypes'
  BY <1>0, RepairsAre DEF IInstall, InstallTypes, W!Repair, W!Keeps
<1>2. Reported'
  BY <1>0, RepairsAre DEF IInstall, Reported, W!Repair, W!Keeps, In, W!At, Installing,
     Early, Before, After, Undoing, Removing, Points
<1>3. Remembered'
  BY <1>0, RepairsAre DEF IInstall, Remembered, Carries, OldDisk, W!Repair, W!Keeps, In,
     W!At, Installing, Early, Before, After, Undoing, Removing
<1>4. FilesKnown'
  BY <1>0, RepairsAre DEF IInstall, InstallTypes, W!Disks, Remembered, FilesKnown, FilesKept,
     Carries, OldDisk, Linked, W!Repair, W!Keeps, In, W!At, Installing, Early, Before,
     After, Undoing, Removing
<1>5. ServicesKnown'
  BY <1>0, RepairsAre DEF IInstall, Remembered, ServicesKnown, Carries, W!Running,
     W!InstallName, Serves, W!Names, W!Repair, W!Keeps, In, W!At, Installing, Early,
     Before, After, Undoing, Removing
<1>6. UndoneSoFar'
  BY <1>0, RepairsAre DEF IInstall, Remembered, FilesKnown, FilesKept, ServicesKnown, UndoneSoFar,
     Carries, OldDisk, Linked, W!Running, RunsAgain, W!Repair, W!Keeps, In, W!At,
     Installing, Early, Before, After, Undoing, Removing
<1>7. W!InstalledIsNew'
  BY <1>0, RepairsAre DEF IInstall, Reported, W!InstalledIsNew, W!At, W!Repair, W!Keeps
<1>8. W!RolledBackIsOld'
  BY <1>0, RepairsAre DEF IInstall, Reported, W!RolledBackIsOld, W!At, W!Repair, W!Keeps
<1>9. QED  BY <1>1, <1>2, <1>3, <1>4, <1>5, <1>6, <1>7, <1>8 DEF IInstall

LEMMA ConfigureKeeps ==
  ASSUME IInstall, W!Configure
  PROVE  IInstall'
<1>0. /\ installer' \in Installers /\ installer'.at = "clear" /\ Carries
      /\ installer'.errors = installer.errors
  BY GoesOn DEF IInstall, Points, Before, After, Undoing, Early, Removing, W!Configure
<1>a. /\ service' \in W!Settings
      /\ Serves(service'[W!InstallName]) /\ service'[W!InstallName].pid = None
      /\ \A m \in W!Names \ {W!InstallName} : service'[m] = service[m]
  <2> DEFINE s == W!Service("program", "auto", runs, None, None)
  <2>1. s \in W!Services /\ s # None /\ Serves(s) /\ s.pid = None
    BY ServiceIs DEF IInstall, InstallTypes, W!Services, W!Service, Serves, W!Files
  <2>2. service' = Put(W!InstallName, s) /\ W!InstallName \in W!Names /\ InstallTypes
    BY NamesAre DEF IInstall, W!Configure, Put
  <2> HIDE DEF s
  <2>3. QED  BY <2>1, <2>2, OneService
<1>1. InstallTypes'
  BY <1>0, <1>a DEF IInstall, InstallTypes, W!Configure, W!Keeps, W!Settings
<1>2. Reported'
  BY <1>0, <1>a DEF IInstall, Reported, W!Configure, W!Keeps, In, W!At, Installing, Early,
    Before, After, Undoing, Removing, Points
<1>3. Remembered'
  BY <1>0, <1>a DEF IInstall, Remembered, Carries, OldDisk, W!Configure, W!Keeps, In, W!At,
    Installing, Early, Before, After, Undoing, Removing
<1>4. FilesKnown'
  BY <1>0, <1>a DEF IInstall, InstallTypes, W!Disks, Remembered, FilesKnown, FilesKept, Carries,
     OldDisk, Linked, W!Configure, W!Keeps, In, W!At, Installing, Early, Before, After,
     Undoing, Removing
<1>5. ServicesKnown'
  BY <1>0, <1>a DEF IInstall, Remembered, ServicesKnown, Carries, W!Running,
     W!InstallName, Serves, W!Names, W!Configure, W!Keeps, In, W!At, Installing, Early,
     Before, After, Undoing, Removing
<1>6. UndoneSoFar'
  BY <1>0, <1>a DEF IInstall, Remembered, FilesKnown, FilesKept, ServicesKnown, UndoneSoFar, Carries,
     OldDisk, Linked, W!Running, RunsAgain, W!Configure, W!Keeps, In, W!At, Installing,
     Early, Before, After, Undoing, Removing
<1>7. W!InstalledIsNew'
  BY <1>0, <1>a DEF IInstall, Reported, W!InstalledIsNew, W!At, W!Configure, W!Keeps
<1>8. W!RolledBackIsOld'
  BY <1>0, <1>a DEF IInstall, Reported, W!RolledBackIsOld, W!At, W!Configure, W!Keeps
<1>9. QED  BY <1>1, <1>2, <1>3, <1>4, <1>5, <1>6, <1>7, <1>8 DEF IInstall

LEMMA AwaitReadyKeeps ==
  ASSUME IInstall, W!AwaitReady
  PROVE  IInstall'
<1>0. /\ installer' \in Installers /\ installer'.at = "tidy" /\ Carries
      /\ installer'.errors = installer.errors
  BY GoesOn DEF IInstall, Points, Before, After, Undoing, Early, Removing, W!AwaitReady
<1>1. InstallTypes'
  BY <1>0 DEF IInstall, InstallTypes, W!AwaitReady, W!Keeps
<1>2. Reported'
  BY <1>0 DEF IInstall, Reported, W!AwaitReady, W!Keeps, In, W!At, Installing, Early,
     Before, After, Undoing, Removing, Points
<1>3. Remembered'
  BY <1>0 DEF IInstall, Remembered, Carries, OldDisk, W!AwaitReady, W!Keeps, In, W!At,
     Installing, Early, Before, After, Undoing, Removing
<1>4. FilesKnown'
  BY <1>0 DEF IInstall, InstallTypes, W!Disks, Remembered, FilesKnown, FilesKept, Carries, OldDisk,
     Linked, W!AwaitReady, W!Keeps, In, W!At, Installing, Early, Before, After, Undoing,
     Removing
<1>5. ServicesKnown'
  BY <1>0 DEF IInstall, Remembered, ServicesKnown, Carries, W!Running, W!InstallName,
     Serves, W!Names, W!AwaitReady, W!Keeps, In, W!At, Installing, Early, Before, After,
     Undoing, Removing
<1>6. UndoneSoFar'
  BY <1>0 DEF IInstall, Remembered, FilesKnown, FilesKept, ServicesKnown, UndoneSoFar, Carries,
     OldDisk, Linked, W!Running, RunsAgain, W!AwaitReady, W!Keeps, In, W!At, Installing,
     Early, Before, After, Undoing, Removing
<1>7. W!InstalledIsNew'
  BY <1>0 DEF IInstall, Reported, W!InstalledIsNew, W!At, W!AwaitReady, W!Keeps
<1>8. W!RolledBackIsOld'
  BY <1>0 DEF IInstall, Reported, W!RolledBackIsOld, W!At, W!AwaitReady, W!Keeps
<1>9. QED  BY <1>1, <1>2, <1>3, <1>4, <1>5, <1>6, <1>7, <1>8 DEF IInstall

LEMMA StopServiceKeeps ==
  ASSUME IInstall, NEW n \in W!Names, W!StopService(n)
  PROVE  IInstall'
<1>0. /\ installer' \in Installers /\ Carries /\ installer'.errors = installer.errors
      /\ \/ n = "canonical" /\ W!At("stop canonical") /\ installer'.at = "stop short"
         \/ n = "short" /\ W!At("stop short") /\ installer'.at = "activate"
  <2>1. CASE n = "canonical"
    BY <2>1, GoesOn DEF IInstall, W!StopService, Points, Before, Early, W!StopAt
  <2>2. CASE n = "short"
    BY <2>2, GoesOn DEF IInstall, W!StopService, Points, Before, Early, W!StopAt
  <2>3. QED  BY <2>1, <2>2 DEF W!Names
<1>a. /\ service' = W!Stopped(n) /\ service' \in W!Settings
      /\ \A m \in W!Names : /\ SameConfig(service'[m], service[m])
                            /\ service'[m] = None <=> service[m] = None
      /\ \A m \in W!Names : m # n => service'[m] = service[m]
      /\ service'[n] = None \/ service'[n].pid = None
  BY StoppedIs DEF IInstall, W!StopService
<1>1. InstallTypes'
  BY <1>0, <1>a DEF IInstall, InstallTypes, W!StopService, W!Keeps
<1>2. Reported'
  BY <1>0, <1>a DEF IInstall, Reported, W!StopService, W!Keeps, In, W!At, Installing, Early,
    Before, After, Undoing, Removing, Points
<1>3. Remembered'
  BY <1>0, <1>a DEF IInstall, Remembered, Carries, OldDisk, W!StopService, W!Keeps, In,
     W!At, Installing, Early, Before, After, Undoing, Removing
<1>4. FilesKnown'
  BY <1>0, <1>a DEF IInstall, InstallTypes, W!Disks, Remembered, FilesKnown, FilesKept, Carries,
     OldDisk, Linked, W!StopService, W!Keeps, In, W!At, Installing, Early, Before, After,
     Undoing, Removing
<1>5. ServicesKnown'
  BY <1>0, <1>a DEF IInstall, Remembered, ServicesKnown, Carries, W!Running,
     W!InstallName, Serves, W!Names, W!StopService, W!Keeps, In, W!At, Installing, Early,
     Before, After, Undoing, Removing
<1>6. UndoneSoFar'
  BY <1>0, <1>a DEF IInstall, Remembered, FilesKnown, FilesKept, ServicesKnown, UndoneSoFar, Carries,
     OldDisk, Linked, W!Running, RunsAgain, W!StopService, W!Keeps, In, W!At, Installing,
     Early, Before, After, Undoing, Removing
<1>7. W!InstalledIsNew'
  BY <1>0, <1>a DEF IInstall, Reported, W!InstalledIsNew, W!At, W!StopService, W!Keeps
<1>8. W!RolledBackIsOld'
  BY <1>0, <1>a DEF IInstall, Reported, W!RolledBackIsOld, W!At, W!StopService, W!Keeps
<1>9. QED  BY <1>1, <1>2, <1>3, <1>4, <1>5, <1>6, <1>7, <1>8 DEF IInstall

LEMMA StartServiceKeeps ==
  ASSUME IInstall, W!StartService
  PROVE  IInstall'
<1>0. /\ installer' \in Installers /\ installer'.at = "ready" /\ Carries
      /\ installer'.errors = installer.errors
  BY GoesOn DEF IInstall, Points, Before, After, Undoing, Early, Removing, W!StartService
<1>a. /\ service' \in W!Settings /\ pids' \in Nat /\ Serves(service'[W!InstallName])
      /\ service'[W!InstallName].image = disk.program /\ disk.program # None
      /\ \A m \in W!Names : /\ SameConfig(service'[m], service[m])
                            /\ service'[m] = None <=> service[m] = None
      /\ \A m \in W!Names \ {W!InstallName} : service'[m] = service[m]
  <2>1. /\ W!InstallName \in W!Names /\ ~W!Running(W!InstallName) /\ Serves(service[W!InstallName])
        /\ service[W!InstallName] # None
    BY NamesAre DEF IInstall, ServicesKnown, Serves, W!StartService, In, W!At, Installing,
       Early, Before, After, Undoing, Removing
  <2>2. /\ service' = W!Started(W!InstallName) /\ pids' = pids + 1
        /\ W!Image(W!InstallName) # None
    BY <2>1 DEF W!StartService, W!StartsService
  <2>3. QED  BY <2>1, <2>2, StartedIs DEF IInstall, InstallTypes, Serves, W!Image, W!FileOf
<1>1. InstallTypes'
  BY <1>0, <1>a DEF IInstall, InstallTypes, W!StartService, W!Keeps
<1>2. Reported'
  BY <1>0, <1>a DEF IInstall, Reported, W!StartService, W!Keeps, In, W!At, Installing,
     Early, Before, After, Undoing, Removing, Points
<1>3. Remembered'
  BY <1>0, <1>a DEF IInstall, Remembered, Carries, OldDisk, W!StartService, W!Keeps, In,
     W!At, Installing, Early, Before, After, Undoing, Removing
<1>4. FilesKnown'
  BY <1>0, <1>a DEF IInstall, InstallTypes, W!Disks, Remembered, FilesKnown, FilesKept, Carries,
     OldDisk, Linked, W!StartService, W!Keeps, In, W!At, Installing, Early, Before, After,
     Undoing, Removing
<1>5. ServicesKnown'
  BY <1>0, <1>a DEF IInstall, Remembered, ServicesKnown, Carries, W!Running,
     W!InstallName, Serves, W!Names, W!StartService, W!Keeps, In, W!At, Installing, Early,
     Before, After, Undoing, Removing, FilesKnown
<1>6. UndoneSoFar'
  BY <1>0, <1>a DEF IInstall, Remembered, FilesKnown, FilesKept, ServicesKnown, UndoneSoFar, Carries,
     OldDisk, Linked, W!Running, RunsAgain, W!StartService, W!Keeps, In, W!At, Installing,
     Early, Before, After, Undoing, Removing
<1>7. W!InstalledIsNew'
  BY <1>0, <1>a DEF IInstall, Reported, W!InstalledIsNew, W!At, W!StartService, W!Keeps
<1>8. W!RolledBackIsOld'
  BY <1>0, <1>a DEF IInstall, Reported, W!RolledBackIsOld, W!At, W!StartService, W!Keeps
<1>9. QED  BY <1>1, <1>2, <1>3, <1>4, <1>5, <1>6, <1>7, <1>8 DEF IInstall

LEMMA BeginKeeps ==
  ASSUME IInstall, NEW v \in Programs, W!Begin(v)
  PROVE  IInstall'
<1>0. /\ installer' \in Installers /\ installer'.at = "snapshot" /\ installer'.version = v
      /\ (installer'.staged <=> disk.program # v) /\ installer'.backup = disk.program
      /\ ~installer'.switched /\ ~installer'.errors
  <2>1. W!Idle \in Installers
    BY InstallAssumption DEF W!Idle, Installers, W!Settings, W!Absent, W!Stamps, W!Files
  <2> DEFINE new == disk.program # v
  <2>2. new \in BOOLEAN /\ disk.program \in W!Files
    BY DEF IInstall, InstallTypes, W!Disks
  <2>3. installer' = [W!Idle EXCEPT !.at = "snapshot", !.version = v, !.staged = new,
                                  !.backup = disk.program]
    BY DEF W!Begin
  <2> HIDE DEF new
  <2>4. /\ installer' \in Installers /\ installer'.at = "snapshot" /\ installer'.version = v
        /\ installer'.staged = new /\ installer'.backup = disk.program
        /\ installer'.switched = W!Idle.switched /\ installer'.errors = W!Idle.errors
    BY <2>1, <2>2, <2>3 DEF Installers, Before, Early
  <2>5. QED  BY <2>4 DEF new, W!Idle
<1>a. /\ start'.disk = disk /\ start'.service = service
      /\ start' \in [disk : W!Disks, service : W!Settings]
  BY DEF IInstall, InstallTypes, W!Begin
<1>b. /\ runs < MaxRuns /\ runs' = runs + 1 /\ died' = FALSE /\ outcome' = "none"
      /\ UNCHANGED <<disk, service, cleanup, pids, faults>>
  BY DEF W!Begin, W!TakesLock
<1>e. hasty' \in BOOLEAN /\ (cleanup' # {} => hasty')
  BY Zenon DEF W!Begin, W!TakesLock
<1>c. runs' \in 0..MaxRuns
  BY <1>b, InstallAssumption DEF IInstall, InstallTypes
<1>d. installer' \in Installers
  BY <1>0
<1>1. InstallTypes'
  BY <1>b, <1>c, <1>d, <1>e DEF IInstall, InstallTypes, W!Outcomes
<1>2. Reported'
  <2>1. ~W!At("idle")' /\ outcome' = "none"
    BY <1>0, <1>b DEF W!At
  <2>2. QED  BY <1>a, <1>e, <2>1, Zenon DEF Reported
<1>3. Remembered'
  BY <1>0, <1>a DEF IInstall, Remembered, Carries, OldDisk, W!Begin, W!TakesLock, W!Keeps,
     In, W!At, Installing, Early, Before, After, Undoing, Removing
<1>4. FilesKnown'
  BY <1>0, <1>a DEF IInstall, InstallTypes, W!Disks, Remembered, FilesKnown, FilesKept, Carries,
     OldDisk, Linked, W!Begin, W!TakesLock, W!Keeps, In, W!At, Installing, Early, Before,
     After, Undoing, Removing
<1>5. ServicesKnown'
  BY <1>0, <1>a DEF IInstall, Remembered, ServicesKnown, Carries, W!Running,
     W!InstallName, Serves, W!Names, W!Begin, W!TakesLock, W!Keeps, In, W!At, Installing,
     Early, Before, After, Undoing, Removing, SameConfig
<1>6. UndoneSoFar'
  BY <1>0, <1>a DEF IInstall, Remembered, FilesKnown, FilesKept, ServicesKnown, UndoneSoFar, Carries,
     OldDisk, Linked, W!Running, RunsAgain, W!Begin, W!TakesLock, W!Keeps, In, W!At,
     Installing, Early, Before, After, Undoing, Removing
<1>7. W!InstalledIsNew'
  BY <1>0, <1>a DEF IInstall, Reported, W!InstalledIsNew, W!At, W!Begin, W!TakesLock,
     W!Keeps
<1>8. W!RolledBackIsOld'
  BY <1>0, <1>a DEF IInstall, Reported, W!RolledBackIsOld, W!At, W!Begin, W!TakesLock,
     W!Keeps
<1>9. QED  BY <1>1, <1>2, <1>3, <1>4, <1>5, <1>6, <1>7, <1>8 DEF IInstall

LEMMA SnapshotKeeps ==
  ASSUME IInstall, W!Snapshot
  PROVE  IInstall'
<1>0. /\ installer' \in Installers /\ installer'.at = "json"
      /\ installer'.found = service /\ installer'.json = disk.json
      /\ installer'.type = disk.type
      /\ installer'.version = installer.version /\ installer'.staged = installer.staged
      /\ installer'.backup = installer.backup /\ installer'.switched = installer.switched
      /\ installer'.errors = installer.errors
  BY DEF IInstall, InstallTypes, W!Disks, Installers, W!Snapshot, Before, Early
<1>1. InstallTypes'
  BY <1>0 DEF IInstall, InstallTypes, W!Snapshot, W!Keeps
<1>2. Reported'
  BY <1>0 DEF IInstall, Reported, W!Snapshot, W!Keeps, In, W!At, Installing, Early, Before,
    After, Undoing, Removing, Points
<1>3. Remembered'
  BY <1>0 DEF IInstall, Remembered, Carries, OldDisk, W!Snapshot, W!Keeps, In, W!At,
     Installing, Early, Before, After, Undoing, Removing, ServicesKnown, FilesKnown, FilesKept
<1>4. FilesKnown'
  BY <1>0 DEF IInstall, InstallTypes, W!Disks, Remembered, FilesKnown, FilesKept, Carries, OldDisk,
     Linked, W!Snapshot, W!Keeps, In, W!At, Installing, Early, Before, After, Undoing,
     Removing
<1>5. ServicesKnown'
  BY <1>0 DEF IInstall, Remembered, ServicesKnown, Carries, W!Running, W!InstallName,
     Serves, W!Names, W!Snapshot, W!Keeps, In, W!At, Installing, Early, Before, After,
     Undoing, Removing
<1>6. UndoneSoFar'
  BY <1>0 DEF IInstall, Remembered, FilesKnown, FilesKept, ServicesKnown, UndoneSoFar, Carries,
     OldDisk, Linked, W!Running, RunsAgain, W!Snapshot, W!Keeps, In, W!At, Installing,
     Early, Before, After, Undoing, Removing
<1>7. W!InstalledIsNew'
  BY <1>0 DEF IInstall, Reported, W!InstalledIsNew, W!At, W!Snapshot, W!Keeps
<1>8. W!RolledBackIsOld'
  BY <1>0 DEF IInstall, Reported, W!RolledBackIsOld, W!At, W!Snapshot, W!Keeps
<1>9. QED  BY <1>1, <1>2, <1>3, <1>4, <1>5, <1>6, <1>7, <1>8 DEF IInstall

LEMMA WriteTypeKeeps ==
  ASSUME IInstall, W!WriteType
  PROVE  IInstall'
<1>0. /\ installer' \in Installers /\ installer'.at = "stop canonical" /\ installer'.switched
      /\ installer'.found = installer.found
      /\ installer'.json = installer.json /\ installer'.type = installer.type
      /\ installer'.version = installer.version /\ installer'.staged = installer.staged
      /\ installer'.backup = installer.backup /\ installer'.errors = installer.errors
  BY DEF IInstall, InstallTypes, W!Disks, Installers, W!WriteType, Before, Early
<1>1. InstallTypes'
  BY <1>0 DEF IInstall, InstallTypes, W!WriteType, W!Keeps, W!Disks, W!Stamps
<1>2. Reported'
  BY <1>0 DEF IInstall, Reported, W!WriteType, W!Keeps, In, W!At, Installing, Early, Before,
    After, Undoing, Removing, Points
<1>3. Remembered'
  BY <1>0 DEF IInstall, Remembered, Carries, OldDisk, W!WriteType, W!Keeps, In, W!At,
     Installing, Early, Before, After, Undoing, Removing
<1>4. FilesKnown'
  BY <1>0 DEF IInstall, InstallTypes, W!Disks, Remembered, FilesKnown, FilesKept, Carries, OldDisk,
     Linked, W!WriteType, W!Keeps, In, W!At, Installing, Early, Before, After, Undoing,
     Removing
<1>5. ServicesKnown'
  BY <1>0 DEF IInstall, Remembered, ServicesKnown, Carries, W!Running, W!InstallName,
     Serves, W!Names, W!WriteType, W!Keeps, In, W!At, Installing, Early, Before, After,
     Undoing, Removing
<1>6. UndoneSoFar'
  BY <1>0 DEF IInstall, Remembered, FilesKnown, FilesKept, ServicesKnown, UndoneSoFar, Carries,
     OldDisk, Linked, W!Running, RunsAgain, W!WriteType, W!Keeps, In, W!At, Installing,
     Early, Before, After, Undoing, Removing
<1>7. W!InstalledIsNew'
  BY <1>0 DEF IInstall, Reported, W!InstalledIsNew, W!At, W!WriteType, W!Keeps
<1>8. W!RolledBackIsOld'
  BY <1>0 DEF IInstall, Reported, W!RolledBackIsOld, W!At, W!WriteType, W!Keeps
<1>9. QED  BY <1>1, <1>2, <1>3, <1>4, <1>5, <1>6, <1>7, <1>8 DEF IInstall

LEMMA TidyKeeps ==
  ASSUME IInstall, W!Tidy
  PROVE  IInstall'
<1>0. /\ installer' \in Installers /\ installer'.at = "idle"
      /\ installer'.version = installer.version
      /\ outcome' = "installed"
  BY EndsHere DEF IInstall, W!Tidy, W!Outcomes
<1>a. /\ W!InstallName \in W!Names /\ W!Redundant \in W!Names /\ W!Redundant # W!InstallName
  BY NamesAre DEF IInstall
<1>b. /\ service' \in W!Settings
      /\ \A n \in W!Names : \/ service'[n] = service[n]
                            \/ n = W!Redundant /\ service'[n] = None
  BY <1>a DEF IInstall, InstallTypes, W!Settings, W!Tidy
<1>c. /\ disk' \in W!Disks /\ disk'.program = disk.program /\ disk'.command = disk.command
      /\ disk'.json = disk.json /\ disk'.type = disk.type /\ disk'.marker = disk.marker
  BY DEF IInstall, InstallTypes, W!Disks, W!Files, W!Tidy
<1>d. faults' \in Nat
  <2>1. PICK left \in SUBSET {"service", "legacy"} : IF left = {} THEN UNCHANGED faults ELSE W!Fault
    BY DEF W!Tidy
  <2>2. QED  BY <2>1 DEF IInstall, InstallTypes, W!Fault
<1>e. UNCHANGED <<pids, start, died, cleanup, hasty, runs>>
  BY DEF W!Tidy, W!Keeps
<1>1. InstallTypes'
  BY <1>0, <1>b, <1>c, <1>d, <1>e DEF IInstall, InstallTypes, W!Outcomes
<1>2. /\ Reported' /\ Remembered' /\ FilesKnown' /\ ServicesKnown' /\ UndoneSoFar'
      /\ W!RolledBackIsOld'
  BY <1>0 DEF IInstall, Reported, Remembered, FilesKnown, FilesKept, ServicesKnown, UndoneSoFar,
     W!Tidy, W!Keeps, W!RolledBackIsOld, In, W!At, Installing, Early, Before, After,
     Undoing, Removing
<1>3. W!InstalledIsNew'
  <2>1. /\ Serves(service[W!InstallName]) /\ \A n \in W!Names \ {W!InstallName} : ~W!Running(n)
        /\ W!Running(W!InstallName) => service[W!InstallName].image = installer.version
        /\ died \/ W!Running(W!InstallName)
        /\ died \/ hasty \/ disk.marker = service[W!InstallName].pid
        /\ hasty \/ /\ disk.program = installer.version /\ disk.command = installer.version
                    /\ disk.json = runs /\ disk.type = runs
    BY DEF IInstall, ServicesKnown, FilesKnown, FilesKept, W!Tidy, In, W!At, Installing, Early, Before,
       After, Undoing, Removing
  <2>2. service'[W!InstallName] = service[W!InstallName]
        /\ \A n \in W!Names \ {W!InstallName} : ~W!Running(n)'
    BY <1>a, <1>b, <2>1 DEF W!Running
  <2>3. died' = died /\ runs' = runs /\ hasty' = hasty
    BY DEF W!Tidy, W!Keeps
  <2>4. QED  BY <1>0, <1>a, <1>c, <2>1, <2>2, <2>3 DEF W!InstalledIsNew, Serves, W!Running
<1>4. QED  BY <1>1, <1>2, <1>3 DEF IInstall

-----------------------------------------------------------------------------
(* A step that fails, and the rollback *)

LEMMA PartialIs ==
  ASSUME IInstall, W!Partial, Installing
  PROVE  /\ disk' \in W!Disks /\ service' \in W!Settings /\ pids' \in Nat
         /\ disk'.program = disk.program
         /\ disk'.json = disk.json /\ disk'.type = disk.type
         /\ disk'.shared = "legacy" => disk.shared = "legacy"
         /\ disk.shared = "legacy" \/ disk'.legacy = disk.legacy
         /\ \A m \in W!Names : service'[m] = None <=> service[m] = None
         /\ ~installer.switched => disk' = disk /\ service' = service
<1>0. InstallTypes /\ (~installer.switched => In(Early \cup {"undo files", "undone"}))
  BY DEF IInstall, Remembered
<1>1. CASE UNCHANGED <<disk, service, pids>>
  BY <1>0, <1>1 DEF InstallTypes
<1>2. ASSUME NEW n \in W!Names, W!At(W!StopAt[n]),
             service' = W!Stopped(n), UNCHANGED <<disk, pids>>
      PROVE  /\ disk' = disk /\ pids' = pids /\ installer.switched /\ service' \in W!Settings
             /\ \A m \in W!Names : service'[m] = None <=> service[m] = None
  <2>1. W!At("stop canonical") \/ W!At("stop short")
    <3>1. n = "canonical" => W!StopAt[n] = "stop canonical"
      BY DEF W!StopAt
    <3>2. n = "short" => W!StopAt[n] = "stop short"
      BY DEF W!StopAt
    <3>3. QED  BY <1>2, <3>1, <3>2 DEF W!Names
  <2>2. installer.switched
    BY <1>0, <2>1 DEF In, W!At, Installing, Early, Before, After, Undoing, Removing
  <2>3. QED  BY <1>0, <1>2, <2>2, StoppedIs
<1>3. CASE W!At("repair") /\ disk' \in W!Repairs(disk) /\ UNCHANGED <<service, pids>>
  <2>1. installer.switched
    BY <1>0, <1>3 DEF In, W!At, Installing, Early, Before, After, Undoing, Removing
  <2>2. QED  BY <1>0, <1>3, <2>1, RepairsAre DEF InstallTypes
<1>4. CASE W!At("start") /\ W!StartsService(W!InstallName) /\ UNCHANGED disk
  <2>1. installer.switched /\ W!InstallName \in W!Names
    BY <1>0, <1>4, NamesAre DEF In, W!At, Installing, Early, Before, After, Undoing,
       Removing
  <2>2. CASE W!Running(W!InstallName)
    BY <1>0, <1>4, <2>1, <2>2 DEF W!StartsService, InstallTypes
  <2>3. CASE ~W!Running(W!InstallName)
    <3>1. /\ service[W!InstallName] # None /\ service' = W!Started(W!InstallName)
          /\ pids' = pids + 1
      BY <1>4, <2>3 DEF W!StartsService
    <3>2. QED  BY <1>0, <1>4, <2>1, <3>1, StartedIs DEF InstallTypes
  <2>4. QED  BY <2>2, <2>3
<1>5. QED  BY <1>0, <1>1, <1>2, <1>3, <1>4 DEF W!Partial, InstallTypes

LEMMA FailKeeps ==
  ASSUME IInstall, W!Fail
  PROVE  IInstall'
<1>0. Installing
  BY DEF W!Fail, In, W!At, Installing, Early, Before, After, Undoing, Removing
<1>a. /\ disk' \in W!Disks /\ service' \in W!Settings /\ pids' \in Nat
      /\ disk'.program = disk.program
      /\ disk'.json = disk.json /\ disk'.type = disk.type
      /\ disk'.shared = "legacy" => disk.shared = "legacy"
      /\ disk.shared = "legacy" \/ disk'.legacy = disk.legacy
      /\ \A m \in W!Names : service'[m] = None <=> service[m] = None
      /\ ~installer.switched => disk' = disk /\ service' = service
  BY <1>0, PartialIs DEF W!Fail
<1>b. faults' \in Nat /\ UNCHANGED <<start, died, cleanup, hasty, runs>>
  <2>1. W!Fault /\ UNCHANGED <<start, died, cleanup, hasty, runs>>
    BY DEF W!Fail
  <2>2. QED  BY <2>1 DEF IInstall, InstallTypes, W!Fault
<1>1. CASE W!At("snapshot") /\ W!Ends("refused")
  <2>0. /\ installer' \in Installers /\ installer'.at = "idle" /\ outcome' = "refused"
        /\ installer'.version = installer.version
        /\ disk' = disk /\ service' = service
    BY <1>1, <1>a, EndsHere DEF IInstall, W!Outcomes, Remembered, In, W!At, Installing,
       Early, Before, After, Undoing, Removing
  <2>1. InstallTypes'
    BY <1>a, <1>b, <2>0 DEF IInstall, InstallTypes, W!Outcomes
  <2>2. /\ Reported' /\ Remembered' /\ FilesKnown' /\ ServicesKnown' /\ UndoneSoFar'
        /\ W!InstalledIsNew'
    BY <1>0, <1>b, <1>1, <2>0 DEF IInstall, Reported, Remembered, FilesKnown, FilesKept,
       ServicesKnown, UndoneSoFar, W!InstalledIsNew, In, W!At, Installing, Early, Before,
       After, Undoing, Removing
  <2>3. W!RolledBackIsOld'
    <3>1. /\ ~hasty => disk.program = OldDisk.program /\ disk.json = OldDisk.json
                       /\ disk.type = OldDisk.type /\ disk.command = OldDisk.command
          /\ hasty \/ Linked \/ disk.legacy = OldDisk.legacy
          /\ \A n \in W!Names : SameConfig(service[n], start.service[n])
          /\ ~died => service = start.service
      BY <1>0, <1>1 DEF IInstall, Remembered, FilesKnown, FilesKept, ServicesKnown, In, W!At,
         Installing, Early, Before, After, Undoing, Removing
    <3>2. QED  BY <1>b, <2>0, <3>1 DEF W!RolledBackIsOld, OldDisk, Linked, SameConfig,
                  W!Running
  <2>4. QED  BY <2>1, <2>2, <2>3 DEF IInstall
<1>2. CASE /\ installer.at \in {"json", "type", "stop canonical", "stop short", "activate",
                                "configure", "clear", "repair", "start", "ready"}
           /\ W!Goes(IF installer.switched THEN "undo stop" ELSE "undo files")
           /\ UNCHANGED outcome
  <2>0. /\ installer' \in Installers /\ Carries /\ installer'.errors = installer.errors
        /\ installer'.at = IF installer.switched THEN "undo stop" ELSE "undo files"
    BY <1>2, GoesOn DEF IInstall, Points, Undoing
  <2>1. InstallTypes' /\ Reported'
    BY <1>a, <1>b, <1>2, <2>0 DEF IInstall, InstallTypes, Reported, In, W!At, Installing,
       Early, Before, After, Undoing, Removing
  <2>2. Remembered'
    BY <1>b, <1>2, <2>0 DEF IInstall, Remembered, Carries, OldDisk, In, W!At, Installing,
       Early, Before, After, Undoing, Removing
  <2>3. FilesKnown'
    BY <1>0, <1>a, <1>b, <1>2, <2>0 DEF IInstall, Remembered, FilesKnown, FilesKept, Carries, OldDisk,
       Linked, In, W!At, Installing, Early, Before, After, Undoing, Removing
  <2>4. ServicesKnown'
    BY <1>0, <1>a, <1>b, <1>2, <2>0 DEF IInstall, Remembered, ServicesKnown, Carries,
       W!Names, In, W!At, Installing, Early, Before, After, Undoing, Removing
  <2>5. UndoneSoFar'
    BY <1>0, <1>a, <1>b, <1>2, <2>0 DEF IInstall, Remembered, FilesKnown, FilesKept, ServicesKnown,
       UndoneSoFar, Carries, OldDisk, W!Names, In, W!At, Installing, Early, Before, After,
       Undoing, Removing
  <2>6. W!InstalledIsNew' /\ W!RolledBackIsOld'
    BY <1>2 DEF IInstall, Reported, W!InstalledIsNew, W!RolledBackIsOld, W!At
  <2>7. QED  BY <2>1, <2>2, <2>3, <2>4, <2>5, <2>6 DEF IInstall
<1>3. QED  BY <1>1, <1>2 DEF W!Fail

\* A step of the rollback that fails is noted; the next follows.
LEMMA NotedKeeps ==
  ASSUME IInstall, In(Undoing), NEW p \in Undoing, W!Fault,
         UNCHANGED <<disk, service, pids>>, W!Keeps(<<outcome>>),
         installer' = [installer EXCEPT !.at = p, !.errors = TRUE],
         installer.switched \/ (W!At("undo files") /\ p = "undone")
  PROVE  IInstall'
<1>0. /\ installer' \in Installers /\ installer'.at = p /\ Carries /\ installer'.errors
  BY DEF IInstall, InstallTypes, Installers, Undoing, Carries
<1>1. faults' \in Nat
  BY FaultIs DEF IInstall
<1>2. InstallTypes'
  BY <1>0, <1>1 DEF IInstall, InstallTypes, W!Keeps
<1>3. Reported'
  BY <1>0 DEF IInstall, Reported, W!Keeps, In, W!At, Installing, Early, Before, After,
     Undoing, Removing
<1>4. Remembered'
  BY <1>0 DEF IInstall, Remembered, Carries, OldDisk, W!Keeps, In, W!At, Installing, Early,
     Before, After, Undoing, Removing
<1>5. FilesKnown'
  BY <1>0 DEF IInstall, Remembered, FilesKnown, FilesKept, Carries, OldDisk, Linked, W!Keeps, In, W!At,
     Installing, Early, Before, After, Undoing, Removing
<1>6. ServicesKnown'
  BY <1>0 DEF IInstall, Remembered, ServicesKnown, Carries, W!Keeps, In, W!At, Installing,
     Early, Before, After, Undoing, Removing
<1>7. UndoneSoFar' /\ W!InstalledIsNew' /\ W!RolledBackIsOld'
  BY <1>0 DEF IInstall, Reported, UndoneSoFar, W!InstalledIsNew, W!RolledBackIsOld, W!Keeps,
     In, W!At, Installing, Early, Before, After, Undoing, Removing
<1>8. QED  BY <1>2, <1>3, <1>4, <1>5, <1>6, <1>7 DEF IInstall

LEMMA UndoStopDone ==
  ASSUME IInstall, W!At("undo stop"), W!Goes("undo program"),
         service' = [n \in W!Names |-> W!Configured(service[n])] /\ UNCHANGED <<disk, pids>>,
         UNCHANGED faults, W!Keeps(<<outcome>>)
  PROVE  IInstall'
<1>0. /\ installer' \in Installers /\ installer'.at = "undo program" /\ Carries
      /\ installer'.errors = installer.errors
  BY GoesOn DEF IInstall, Points, Before, After, Undoing, Early, Removing
<1>a. /\ service' \in W!Settings
      /\ \A n \in W!Names : /\ service'[n] = W!Configured(service[n])
                               /\ service'[n] = None <=> service[n] = None
                          /\ (service'[n] = None \/ service'[n].pid = None)
  <2>1. \A n \in W!Names : service[n] \in W!Services \cup {None}
    BY DEF IInstall, InstallTypes, W!Settings
  <2>2. \A n \in W!Names : /\ W!Configured(service[n]) \in W!Services \cup {None}
                           /\ W!Configured(service[n]) = None <=> service[n] = None
                           /\ W!Configured(service[n]) = None \/ W!Configured(service[n]).pid = None
    <3> SUFFICES ASSUME NEW n \in W!Names
                 PROVE  /\ W!Configured(service[n]) \in W!Services \cup {None}
                        /\ W!Configured(service[n]) = None <=> service[n] = None
                        /\ W!Configured(service[n]) = None \/ W!Configured(service[n]).pid = None
      OBVIOUS
    <3>1. CASE service[n] = None
      BY <3>1 DEF W!Configured
    <3>2. CASE service[n] # None
      BY <2>1, <3>2, ConfiguredIs
    <3>3. QED  BY <3>1, <3>2
  <2>3. QED  BY <2>2 DEF W!Settings
<1>1. InstallTypes'
  BY <1>0, <1>a DEF IInstall, InstallTypes, W!Keeps
<1>2. Reported'
  BY <1>0, <1>a DEF IInstall, Reported, W!Keeps, In, W!At, Installing, Early, Before, After,
    Undoing, Removing, Points
<1>3. Remembered'
  BY <1>0, <1>a DEF IInstall, Remembered, Carries, OldDisk, W!Keeps, In, W!At, Installing,
     Early, Before, After, Undoing, Removing
<1>4. FilesKnown'
  BY <1>0, <1>a DEF IInstall, InstallTypes, W!Disks, Remembered, FilesKnown, FilesKept, Carries,
     OldDisk, Linked, W!Keeps, In, W!At, Installing, Early, Before, After, Undoing,
     Removing
<1>5. ServicesKnown'
  BY <1>0, <1>a DEF IInstall, Remembered, ServicesKnown, Carries, W!Running, W!InstallName,
    Serves, W!Names, W!Keeps, In, W!At, Installing, Early, Before, After, Undoing, Removing
<1>6. UndoneSoFar'
  BY <1>0, <1>a DEF IInstall, Remembered, FilesKnown, FilesKept, ServicesKnown, UndoneSoFar, Carries,
     OldDisk, Linked, W!Running, RunsAgain, W!Keeps, In, W!At, Installing, Early, Before,
     After, Undoing, Removing
<1>7. W!InstalledIsNew'
  BY <1>0, <1>a DEF IInstall, Reported, W!InstalledIsNew, W!At, W!Keeps
<1>8. W!RolledBackIsOld'
  BY <1>0, <1>a DEF IInstall, Reported, W!RolledBackIsOld, W!At, W!Keeps
<1>9. QED  BY <1>1, <1>2, <1>3, <1>4, <1>5, <1>6, <1>7, <1>8 DEF IInstall

LEMMA UndoStopKeeps ==
  ASSUME IInstall, W!UndoStop
  PROVE  IInstall'
<1>1. W!At("undo stop") /\ In(Undoing) /\ installer.switched /\ W!Keeps(<<outcome>>)
  BY DEF IInstall, Remembered, W!UndoStop, W!Undoes, In, W!At, Installing, Early, Before,
     After, Undoing, Removing
<1>2. CASE /\ W!Goes("undo program") /\ service' = [n \in W!Names |-> W!Configured(service[n])]
           /\ UNCHANGED <<disk, pids>> /\ UNCHANGED faults
  BY <1>1, <1>2, UndoStopDone
<1>3. CASE /\ W!Fault /\ UNCHANGED <<disk, service, pids>>
           /\ installer' = [installer EXCEPT !.at = "undo program", !.errors = TRUE]
  BY <1>1, <1>3, NotedKeeps DEF Undoing
<1>4. QED  BY <1>2, <1>3 DEF W!UndoStop, W!Undoes, W!UndoAt, W!BackAt

LEMMA UndoProgramDone ==
  ASSUME IInstall, W!At("undo program"), W!Goes("undo canonical"),
         disk' = (IF installer.staged THEN W!Replaced(disk, installer.backup) ELSE disk),
         UNCHANGED <<service, pids>>,
         UNCHANGED faults, W!Keeps(<<outcome>>)
  PROVE  IInstall'
<1>0. /\ installer' \in Installers /\ installer'.at = "undo canonical" /\ Carries
      /\ installer'.errors = installer.errors
  BY GoesOn DEF IInstall, Points, Before, After, Undoing, Early, Removing
<1>a. /\ disk' \in W!Disks /\ disk'.command = disk.command /\ disk'.legacy = disk.legacy
      /\ disk'.json = disk.json /\ disk'.type = disk.type
      /\ disk'.shared = "legacy" => disk.shared = "legacy"
      /\ hasty \/ disk'.program = OldDisk.program
  <2>1. /\ InstallTypes /\ start \in [disk : W!Disks, service : W!Settings]
        /\ installer.backup = OldDisk.program
        /\ ~installer.staged /\ ~hasty => disk.program = OldDisk.program
    BY DEF IInstall, Reported, Remembered, FilesKnown, FilesKept, In, W!At, Installing, Early, Before,
       After, Undoing, Removing
  <2>2. CASE installer.staged
    <3>1. disk' = W!Replaced(disk, OldDisk.program) /\ OldDisk.program \in W!Files
      BY <2>1, <2>2 DEF OldDisk, W!Disks
    <3>2. /\ disk' \in W!Disks /\ disk'.program = OldDisk.program
          /\ disk'.command = disk.command /\ disk'.legacy = disk.legacy
          /\ disk'.json = disk.json /\ disk'.type = disk.type
          /\ disk'.shared = "legacy" => disk.shared = "legacy"
      BY <2>1, <3>1, ReplacedIs
    <3>3. QED  BY <3>2
  <2>3. CASE ~installer.staged
    BY <2>1, <2>3 DEF InstallTypes
  <2>4. QED  BY <2>2, <2>3
<1>1. InstallTypes'
  BY <1>0, <1>a DEF IInstall, InstallTypes, W!Keeps
<1>2. Reported'
  BY <1>0, <1>a DEF IInstall, Reported, W!Keeps, In, W!At, Installing, Early, Before, After,
    Undoing, Removing, Points
<1>3. Remembered'
  BY <1>0, <1>a DEF IInstall, Remembered, Carries, OldDisk, W!Keeps, In, W!At, Installing,
     Early, Before, After, Undoing, Removing
<1>4. FilesKnown'
  BY <1>0, <1>a DEF IInstall, InstallTypes, W!Disks, Remembered, FilesKnown, FilesKept, Carries,
     OldDisk, Linked, W!Keeps, In, W!At, Installing, Early, Before, After, Undoing,
     Removing
<1>5. ServicesKnown'
  BY <1>0, <1>a DEF IInstall, Remembered, ServicesKnown, Carries, W!Running, W!InstallName,
    Serves, W!Names, W!Keeps, In, W!At, Installing, Early, Before, After, Undoing, Removing
<1>6. UndoneSoFar'
  BY <1>0, <1>a DEF IInstall, Remembered, FilesKnown, FilesKept, ServicesKnown, UndoneSoFar, Carries,
     OldDisk, Linked, W!Running, RunsAgain, W!Keeps, In, W!At, Installing, Early, Before,
     After, Undoing, Removing
<1>7. W!InstalledIsNew'
  BY <1>0, <1>a DEF IInstall, Reported, W!InstalledIsNew, W!At, W!Keeps
<1>8. W!RolledBackIsOld'
  BY <1>0, <1>a DEF IInstall, Reported, W!RolledBackIsOld, W!At, W!Keeps
<1>9. QED  BY <1>1, <1>2, <1>3, <1>4, <1>5, <1>6, <1>7, <1>8 DEF IInstall

LEMMA UndoProgramKeeps ==
  ASSUME IInstall, W!UndoProgram
  PROVE  IInstall'
<1>1. W!At("undo program") /\ In(Undoing) /\ installer.switched /\ W!Keeps(<<outcome>>)
  BY DEF IInstall, Remembered, W!UndoProgram, W!Undoes, In, W!At, Installing, Early, Before,
     After, Undoing, Removing
<1>2. CASE /\ W!Goes("undo canonical")
           /\ disk' = (IF installer.staged THEN W!Replaced(disk, installer.backup) ELSE disk)
           /\ UNCHANGED <<service, pids>> /\ UNCHANGED faults
  BY <1>1, <1>2, UndoProgramDone
<1>3. CASE /\ W!Fault /\ UNCHANGED <<disk, service, pids>>
           /\ installer' = [installer EXCEPT !.at = "undo canonical", !.errors = TRUE]
  BY <1>1, <1>3, NotedKeeps DEF Undoing
<1>4. QED  BY <1>2, <1>3 DEF W!UndoProgram, W!Undoes, W!UndoAt, W!BackAt

LEMMA UndoCommandDone ==
  ASSUME IInstall, W!At("undo command"), W!Goes("undo files"),
         disk' \in (IF disk.program # None
                   THEN W!Repairs(disk) ELSE {[disk EXCEPT !.command = None, !.shared = None]}),
         UNCHANGED <<service, pids>>,
         UNCHANGED faults, W!Keeps(<<outcome>>)
  PROVE  IInstall'
<1>0. /\ installer' \in Installers /\ installer'.at = "undo files" /\ Carries
      /\ installer'.errors = installer.errors
  BY GoesOn DEF IInstall, Points, Before, After, Undoing, Early, Removing
<1>a. /\ disk' \in W!Disks /\ disk'.program = disk.program
      /\ disk'.json = disk.json /\ disk'.type = disk.type
      /\ disk'.shared = "legacy" => disk.shared = "legacy"
      /\ disk.shared = "legacy" \/ disk'.legacy = disk.legacy
      /\ disk'.command = disk.program
  <2>0. InstallTypes
    BY DEF IInstall
  <2>1. CASE disk.program # None
    BY <2>0, <2>1, RepairsAre
  <2>2. CASE disk.program = None
    <3>1. disk' = [disk EXCEPT !.command = None, !.shared = None]
      BY <2>2
    <3>2. QED  BY <2>0, <2>2, <3>1, InstallAssumption DEF InstallTypes, W!Disks, W!Files
  <2>3. QED  BY <2>1, <2>2
<1>b. installer.switched
  BY DEF IInstall, Remembered, In, W!At, Installing, Early, Before, After, Undoing, Removing
<1>1. InstallTypes'
  BY <1>0, <1>a, <1>b DEF IInstall, InstallTypes, W!Keeps
<1>2. Reported'
  BY <1>0, <1>a, <1>b DEF IInstall, Reported, W!Keeps, In, W!At, Installing, Early, Before,
    After, Undoing, Removing, Points
<1>3. Remembered'
  BY <1>0, <1>a, <1>b DEF IInstall, Remembered, Carries, OldDisk, W!Keeps, In, W!At,
     Installing, Early, Before, After, Undoing, Removing
<1>4. FilesKnown'
  BY <1>0, <1>a, <1>b DEF IInstall, InstallTypes, W!Disks, Remembered, FilesKnown, FilesKept,
     Carries, OldDisk, Linked, W!Keeps, In, W!At, Installing, Early, Before, After,
     Undoing, Removing
<1>5. ServicesKnown'
  BY <1>0, <1>a, <1>b DEF IInstall, Remembered, ServicesKnown, Carries, W!Running,
     W!InstallName, Serves, W!Names, W!Keeps, In, W!At, Installing, Early, Before, After,
     Undoing, Removing
<1>6. UndoneSoFar'
  BY <1>0, <1>a, <1>b DEF IInstall, Remembered, FilesKnown, FilesKept, ServicesKnown, UndoneSoFar,
     Carries, OldDisk, Linked, W!Running, RunsAgain, W!Keeps, In, W!At, Installing, Early,
     Before, After, Undoing, Removing
<1>7. W!InstalledIsNew'
  BY <1>0, <1>a, <1>b DEF IInstall, Reported, W!InstalledIsNew, W!At, W!Keeps
<1>8. W!RolledBackIsOld'
  BY <1>0, <1>a, <1>b DEF IInstall, Reported, W!RolledBackIsOld, W!At, W!Keeps
<1>9. QED  BY <1>1, <1>2, <1>3, <1>4, <1>5, <1>6, <1>7, <1>8 DEF IInstall

LEMMA UndoCommandKeeps ==
  ASSUME IInstall, W!UndoCommand
  PROVE  IInstall'
<1>1. W!At("undo command") /\ In(Undoing) /\ installer.switched /\ W!Keeps(<<outcome>>)
  BY DEF IInstall, Remembered, W!UndoCommand, W!Undoes, In, W!At, Installing, Early, Before,
     After, Undoing, Removing
<1>2. CASE /\ W!Goes("undo files")
           /\ disk' \in (IF disk.program # None THEN W!Repairs(disk)
                        ELSE {[disk EXCEPT !.command = None, !.shared = None]})
           /\ UNCHANGED <<service, pids>> /\ UNCHANGED faults
  BY <1>1, <1>2, UndoCommandDone
<1>3. CASE /\ W!Fault /\ UNCHANGED <<disk, service, pids>>
           /\ installer' = [installer EXCEPT !.at = "undo files", !.errors = TRUE]
  BY <1>1, <1>3, NotedKeeps DEF Undoing
<1>4. QED  BY <1>2, <1>3 DEF W!UndoCommand, W!Undoes, W!UndoAt, W!BackAt

\* What UndoConfig makes of the services.
Restored(n) ==
  [service EXCEPT ![n] = IF installer.found[n] # None
                         THEN [W!Configured(installer.found[n]) EXCEPT
                                 !.pid = service[n].pid, !.image = service[n].image]
                         ELSE IF n = "canonical" THEN None ELSE @]

LEMMA ConfigBack ==
  ASSUME IInstall, NEW n \in W!Names, In({"undo canonical", "undo short"}),
         service' = Restored(n)
  PROVE  /\ service' \in W!Settings /\ SameConfig(service'[n], start.service[n])
         /\ \A m \in W!Names \ {n} : service'[m] = service[m]
         /\ installer.found[n] # None => service'[n] # None
         /\ n = "short" /\ installer.found[n] = None => service'[n] = None
         /\ ~W!Running(n) => ~W!Running(n)'
<1>0. InstallTypes
  BY DEF IInstall
<1>1. /\ InstallTypes /\ SameConfig(installer.found[n], start.service[n])
      /\ installer.found[n] # None => service[n] # None
      /\ n = "short" /\ installer.found[n] = None => service[n] = None
  BY DEF IInstall, Remembered, ServicesKnown, In, W!At, Installing, Early, Before, After,
     Undoing, Removing
<1>2. CASE installer.found[n] # None
  <2> DEFINE f == W!Configured(installer.found[n])
             s == [f EXCEPT !.pid = service[n].pid, !.image = service[n].image]
  <2>1. installer.found[n] \in W!Services /\ service[n] \in W!Services
    BY <1>1, <1>2, ServiceIs DEF InstallTypes, Installers, W!Settings
  <2>2. /\ f \in W!Services /\ f.pid = None /\ f.image = None /\ f # None
    BY <2>1, ConfiguredIs
  <2> HIDE DEF f
  <2>3. s \in W!Services \cup {None} /\ s.pid = service[n].pid /\ s # None
    BY <2>1, <2>2, ServiceIs DEF W!Services
  <2>4. W!Configured(s) = f
    <3>1. W!Configured(s) = [s EXCEPT !.pid = None, !.image = None]
      BY <2>3 DEF W!Configured
    <3>2. PICK p, m, b : f = [place |-> p, mode |-> m, by |-> b, pid |-> None, image |-> None]
      BY <2>2 DEF W!Services
    <3>3. s = [[f EXCEPT !.pid = service[n].pid] EXCEPT !.image = service[n].image]
      OBVIOUS
    <3>4. W!Configured(s) = [place |-> p, mode |-> m, by |-> b, pid |-> None, image |-> None]
      BY <3>1, <3>2, <3>3
    <3>5. QED  BY <3>2, <3>4
  <2>5. service' = Put(n, s)
    BY <1>1, <1>2 DEF f, Put, InstallTypes, W!Settings, Restored
  <2> HIDE DEF s
  <2>6. /\ service' \in W!Settings /\ service'[n] = s
        /\ \A m \in W!Names \ {n} : service'[m] = service[m]
    <3>2. /\ Put(n, s) \in W!Settings /\ Put(n, s)[n] = s
          /\ \A m \in W!Names \ {n} : Put(n, s)[m] = service[m]
      BY <1>0, <2>3, OneService
    <3>3. QED  BY <2>5, <3>2
  <2>7. QED  BY <1>1, <1>2, <2>1, <2>3, <2>4, <2>6 DEF SameConfig, W!Running, f
<1>3. CASE installer.found[n] = None
  <2>1. service' = Put(n, IF n = "canonical" THEN None ELSE service[n])
    BY <1>1, <1>3 DEF Put, InstallTypes, W!Settings, Restored
  <2>2. service' = Put(n, None)
    BY <1>1, <1>3, <2>1 DEF W!Names
  <2>3. /\ service' \in W!Settings /\ service'[n] = None
        /\ \A m \in W!Names \ {n} : service'[m] = service[m]
    <3>1. None \in W!Services \cup {None}
      OBVIOUS
    <3>2. /\ Put(n, None) \in W!Settings /\ Put(n, None)[n] = None
          /\ \A m \in W!Names \ {n} : Put(n, None)[m] = service[m]
      BY <1>0, <3>1, OneService
    <3>3. QED  BY <2>2, <3>2
  <2>4. QED  BY <1>1, <1>3, <2>3 DEF SameConfig, W!Running
<1>4. QED  BY <1>2, <1>3

LEMMA CanonicalBack ==
  ASSUME IInstall, W!At("undo canonical"), W!Goes("undo short"),
         service' = Restored("canonical"),
         UNCHANGED <<disk, pids>>, UNCHANGED faults, W!Keeps(<<outcome>>)
  PROVE  IInstall'
<1>0. /\ installer' \in Installers /\ installer'.at = "undo short" /\ Carries
      /\ installer'.errors = installer.errors
  BY GoesOn DEF IInstall, Points, Before, After, Undoing, Early, Removing
<1>a. /\ service' \in W!Settings /\ SameConfig(service'["canonical"], start.service["canonical"])
      /\ service'["short"] = service["short"]
      /\ installer.found["canonical"] # None => service'["canonical"] # None
      /\ ~W!Running("canonical") => ~W!Running("canonical")'
  BY ConfigBack DEF W!Names, In, W!At, Installing, Early, Before, After, Undoing, Removing
<1>b. installer.switched
  BY DEF IInstall, Remembered, In, W!At, Installing, Early, Before, After, Undoing, Removing
<1>c. ~installer.errors /\ ~hasty =>
        /\ ~W!Running("canonical")' /\ ~W!Running("short")' /\ disk.program = OldDisk.program
  BY <1>a, <1>b DEF IInstall, UndoneSoFar, W!Running, W!Names, In, W!At, Installing, Early,
     Before, After, Undoing, Removing
<1>1. InstallTypes'
  BY <1>0, <1>a, <1>b DEF IInstall, InstallTypes, W!Keeps
<1>2. Reported'
  BY <1>0, <1>a, <1>b DEF IInstall, Reported, W!Keeps, In, W!At, Installing, Early, Before,
    After, Undoing, Removing, Points
<1>3. Remembered'
  BY <1>0, <1>a, <1>b DEF IInstall, Remembered, Carries, OldDisk, W!Keeps, In, W!At,
     Installing, Early, Before, After, Undoing, Removing
<1>4. FilesKnown'
  BY <1>0, <1>a, <1>b DEF IInstall, InstallTypes, W!Disks, Remembered, FilesKnown, FilesKept,
     Carries, OldDisk, Linked, W!Keeps, In, W!At, Installing, Early, Before, After,
     Undoing, Removing
<1>5. ServicesKnown'
  <2>1. /\ \A n \in W!Names : installer.found[n] # None => service'[n] # None
        /\ installer.found["short"] = None => service'["short"] = None
    BY <1>a DEF IInstall, ServicesKnown, W!Names, In, W!At, Installing, Early, Before, After,
       Undoing, Removing
  <2>2. installer'.switched /\ installer'.found = installer.found
    BY <1>0, <1>b DEF Carries
  <2>3. QED  BY <1>0, <2>1, <2>2 DEF ServicesKnown, In, W!At, Early, Before, After, Undoing
<1>6. UndoneSoFar'
  BY <1>0, <1>a, <1>b, <1>c DEF UndoneSoFar, Carries, OldDisk, W!Keeps, W!Names, In, W!At,
    Installing, Early, Before, After, Undoing, Removing
<1>7. W!InstalledIsNew'
  BY <1>0, <1>a, <1>b DEF IInstall, Reported, W!InstalledIsNew, W!At, W!Keeps
<1>8. W!RolledBackIsOld'
  BY <1>0, <1>a, <1>b DEF IInstall, Reported, W!RolledBackIsOld, W!At, W!Keeps
<1>9. QED  BY <1>1, <1>2, <1>3, <1>4, <1>5, <1>6, <1>7, <1>8 DEF IInstall

LEMMA ShortBack ==
  ASSUME IInstall, W!At("undo short"), W!Goes("undo command"), service' = Restored("short"),
         UNCHANGED <<disk, pids>>, UNCHANGED faults, W!Keeps(<<outcome>>)
  PROVE  IInstall'
<1>0. /\ installer' \in Installers /\ installer'.at = "undo command" /\ Carries
      /\ installer'.errors = installer.errors
  BY GoesOn DEF IInstall, Points, Before, After, Undoing, Early, Removing
<1>a. /\ service' \in W!Settings /\ SameConfig(service'["short"], start.service["short"])
      /\ service'["canonical"] = service["canonical"]
      /\ installer.found["short"] # None => service'["short"] # None
      /\ installer.found["short"] = None => service'["short"] = None
      /\ ~W!Running("short") => ~W!Running("short")'
  BY ConfigBack DEF W!Names, In, W!At, Installing, Early, Before, After, Undoing, Removing
<1>b. installer.switched
  BY DEF IInstall, Remembered, In, W!At, Installing, Early, Before, After, Undoing, Removing
<1>c. ~installer.errors /\ ~hasty =>
        /\ ~W!Running("canonical")' /\ ~W!Running("short")' /\ disk.program = OldDisk.program
        /\ SameConfig(service["canonical"], start.service["canonical"])
  BY <1>a, <1>b DEF IInstall, UndoneSoFar, W!Running, W!Names, In, W!At, Installing, Early,
     Before, After, Undoing, Removing
<1>1. InstallTypes'
  BY <1>0, <1>a, <1>b DEF IInstall, InstallTypes, W!Keeps
<1>2. Reported'
  BY <1>0, <1>a, <1>b DEF IInstall, Reported, W!Keeps, In, W!At, Installing, Early, Before,
    After, Undoing, Removing, Points
<1>3. Remembered'
  BY <1>0, <1>a, <1>b DEF IInstall, Remembered, Carries, OldDisk, W!Keeps, In, W!At,
     Installing, Early, Before, After, Undoing, Removing
<1>4. FilesKnown'
  BY <1>0, <1>a, <1>b DEF IInstall, InstallTypes, W!Disks, Remembered, FilesKnown, FilesKept,
     Carries, OldDisk, Linked, W!Keeps, In, W!At, Installing, Early, Before, After,
     Undoing, Removing
<1>5. ServicesKnown'
  <2>1. /\ \A n \in W!Names : installer.found[n] # None => service'[n] # None
        /\ installer.found["short"] = None => service'["short"] = None
    BY <1>a DEF IInstall, ServicesKnown, W!Names, In, W!At, Installing, Early, Before, After,
       Undoing, Removing
  <2>2. installer'.switched /\ installer'.found = installer.found
    BY <1>0, <1>b DEF Carries
  <2>3. QED  BY <1>0, <2>1, <2>2 DEF ServicesKnown, In, W!At, Early, Before, After, Undoing
<1>6. UndoneSoFar'
  BY <1>0, <1>a, <1>b, <1>c DEF UndoneSoFar, Carries, OldDisk, W!Keeps, W!Names, In, W!At,
    Installing, Early, Before, After, Undoing, Removing
<1>7. W!InstalledIsNew'
  BY <1>0, <1>a, <1>b DEF IInstall, Reported, W!InstalledIsNew, W!At, W!Keeps
<1>8. W!RolledBackIsOld'
  BY <1>0, <1>a, <1>b DEF IInstall, Reported, W!RolledBackIsOld, W!At, W!Keeps
<1>9. QED  BY <1>1, <1>2, <1>3, <1>4, <1>5, <1>6, <1>7, <1>8 DEF IInstall

LEMMA UndoConfigKeeps ==
  ASSUME IInstall, NEW n \in W!Names, W!UndoConfig(n)
  PROVE  IInstall'
<1>1. CASE n = "canonical"
  <2>1. /\ W!At("undo canonical") /\ In(Undoing) /\ installer.switched /\ W!Keeps(<<outcome>>)
        /\ \/ /\ W!Goes("undo short") /\ UNCHANGED faults
              /\ service' = Restored("canonical")
              /\ UNCHANGED <<disk, pids>>
           \/ /\ W!Fault /\ UNCHANGED <<disk, service, pids>>
              /\ installer' = [installer EXCEPT !.at = "undo short", !.errors = TRUE]
    BY <1>1 DEF IInstall, Remembered, W!UndoConfig, W!Undoes, W!UndoAt, W!BackAt, Restored,
       In, W!At, Installing, Early, Before, After, Undoing, Removing
  <2>2. QED  BY <2>1, CanonicalBack, NotedKeeps DEF Undoing
<1>2. CASE n = "short"
  <2>1. /\ W!At("undo short") /\ In(Undoing) /\ installer.switched /\ W!Keeps(<<outcome>>)
        /\ \/ /\ W!Goes("undo command") /\ UNCHANGED faults
              /\ service' = Restored("short")
              /\ UNCHANGED <<disk, pids>>
           \/ /\ W!Fault /\ UNCHANGED <<disk, service, pids>>
              /\ installer' = [installer EXCEPT !.at = "undo command", !.errors = TRUE]
    BY <1>2 DEF IInstall, Remembered, W!UndoConfig, W!Undoes, W!UndoAt, W!BackAt, Restored,
       In, W!At, Installing, Early, Before, After, Undoing, Removing
  <2>2. QED  BY <2>1, ShortBack, NotedKeeps DEF Undoing
<1>3. QED  BY <1>1, <1>2 DEF W!Names

LEMMA FilesBack ==
  ASSUME IInstall, W!At("undo files"), W!Goes("back canonical"), installer.switched,
         disk' = [disk EXCEPT !.json = installer.json, !.type = installer.type],
         UNCHANGED <<service, pids>>,
         UNCHANGED faults, W!Keeps(<<outcome>>)
  PROVE  IInstall'
<1>0. /\ installer' \in Installers /\ installer'.at = "back canonical" /\ Carries
      /\ installer'.errors = installer.errors
  BY GoesOn DEF IInstall, Points, Before, After, Undoing, Early, Removing
<1>a. /\ disk' \in W!Disks /\ disk'.program = disk.program /\ disk'.command = disk.command
      /\ disk'.legacy = disk.legacy /\ disk'.shared = disk.shared
      /\ ~hasty => disk'.json = OldDisk.json /\ disk'.type = OldDisk.type
  BY DEF IInstall, InstallTypes, W!Disks, Installers, Remembered, In, W!At, Installing,
     Early, Before, After, Undoing, Removing
<1>1. InstallTypes'
  BY <1>0, <1>a DEF IInstall, InstallTypes, W!Keeps
<1>2. Reported'
  BY <1>0, <1>a DEF IInstall, Reported, W!Keeps, In, W!At, Installing, Early, Before, After,
    Undoing, Removing, Points
<1>3. Remembered'
  BY <1>0, <1>a DEF IInstall, Remembered, Carries, OldDisk, W!Keeps, In, W!At, Installing,
     Early, Before, After, Undoing, Removing
<1>4. FilesKnown'
  BY <1>0, <1>a DEF IInstall, InstallTypes, W!Disks, Remembered, FilesKnown, FilesKept, Carries,
     OldDisk, Linked, W!Keeps, In, W!At, Installing, Early, Before, After, Undoing,
     Removing
<1>5. ServicesKnown'
  BY <1>0, <1>a DEF IInstall, Remembered, ServicesKnown, Carries, W!Running, W!InstallName,
    Serves, W!Names, W!Keeps, In, W!At, Installing, Early, Before, After, Undoing, Removing
<1>6. UndoneSoFar'
  BY <1>0, <1>a DEF IInstall, Remembered, FilesKnown, FilesKept, ServicesKnown, UndoneSoFar, Carries,
     OldDisk, Linked, W!Running, RunsAgain, W!Keeps, In, W!At, Installing, Early, Before,
     After, Undoing, Removing
<1>7. W!InstalledIsNew'
  BY <1>0, <1>a DEF IInstall, Reported, W!InstalledIsNew, W!At, W!Keeps
<1>8. W!RolledBackIsOld'
  BY <1>0, <1>a DEF IInstall, Reported, W!RolledBackIsOld, W!At, W!Keeps
<1>9. QED  BY <1>1, <1>2, <1>3, <1>4, <1>5, <1>6, <1>7, <1>8 DEF IInstall

LEMMA FilesBackEarly ==
  ASSUME IInstall, W!At("undo files"), W!Goes("undone"), ~installer.switched,
         disk' = [disk EXCEPT !.json = installer.json, !.type = installer.type],
         UNCHANGED <<service, pids>>,
         UNCHANGED faults, W!Keeps(<<outcome>>)
  PROVE  IInstall'
<1>0. /\ installer' \in Installers /\ installer'.at = "undone" /\ Carries
      /\ installer'.errors = installer.errors
  BY GoesOn DEF IInstall, Points, Before, After, Undoing, Early, Removing
<1>a. /\ disk' \in W!Disks /\ disk'.program = disk.program /\ disk'.command = disk.command
      /\ disk'.legacy = disk.legacy /\ disk'.shared = disk.shared
      /\ ~hasty => disk'.json = OldDisk.json /\ disk'.type = OldDisk.type
  BY DEF IInstall, InstallTypes, W!Disks, Installers, Remembered, In, W!At, Installing,
     Early, Before, After, Undoing, Removing
<1>1. InstallTypes'
  BY <1>0, <1>a DEF IInstall, InstallTypes, W!Keeps
<1>2. Reported'
  BY <1>0, <1>a DEF IInstall, Reported, W!Keeps, In, W!At, Installing, Early, Before, After,
    Undoing, Removing, Points
<1>3. Remembered'
  BY <1>0, <1>a DEF IInstall, Remembered, Carries, OldDisk, W!Keeps, In, W!At, Installing,
     Early, Before, After, Undoing, Removing
<1>4. FilesKnown'
  BY <1>0, <1>a DEF IInstall, InstallTypes, W!Disks, Remembered, FilesKnown, FilesKept, Carries,
     OldDisk, Linked, W!Keeps, In, W!At, Installing, Early, Before, After, Undoing,
     Removing
<1>5. ServicesKnown'
  BY <1>0, <1>a DEF IInstall, Remembered, ServicesKnown, Carries, W!Running, W!InstallName,
    Serves, W!Names, W!Keeps, In, W!At, Installing, Early, Before, After, Undoing, Removing
<1>6. UndoneSoFar'
  BY <1>0, <1>a DEF IInstall, Remembered, FilesKnown, FilesKept, ServicesKnown, UndoneSoFar, Carries,
     OldDisk, Linked, W!Running, RunsAgain, W!Keeps, In, W!At, Installing, Early, Before,
     After, Undoing, Removing
<1>7. W!InstalledIsNew'
  BY <1>0, <1>a DEF IInstall, Reported, W!InstalledIsNew, W!At, W!Keeps
<1>8. W!RolledBackIsOld'
  BY <1>0, <1>a DEF IInstall, Reported, W!RolledBackIsOld, W!At, W!Keeps
<1>9. QED  BY <1>1, <1>2, <1>3, <1>4, <1>5, <1>6, <1>7, <1>8 DEF IInstall

LEMMA UndoFilesKeeps ==
  ASSUME IInstall, W!UndoFiles
  PROVE  IInstall'
<1>0. W!At("undo files") /\ In(Undoing) /\ W!Keeps(<<outcome>>)
  BY DEF W!UndoFiles, W!Undoes, In, W!At, Installing, Early, Before, After, Undoing,
     Removing
<1>1. CASE installer.switched
  <2>1. \/ /\ W!Goes("back canonical") /\ UNCHANGED faults
           /\ disk' = [disk EXCEPT !.json = installer.json, !.type = installer.type]
           /\ UNCHANGED <<service, pids>>
        \/ /\ W!Fault /\ UNCHANGED <<disk, service, pids>>
           /\ installer' = [installer EXCEPT !.at = "back canonical", !.errors = TRUE]
    BY <1>1 DEF W!UndoFiles, W!Undoes, W!BackAt
  <2>2. QED  BY <1>0, <1>1, <2>1, FilesBack, NotedKeeps DEF Undoing
<1>2. CASE ~installer.switched
  <2>1. \/ /\ W!Goes("undone") /\ UNCHANGED faults
           /\ disk' = [disk EXCEPT !.json = installer.json, !.type = installer.type]
           /\ UNCHANGED <<service, pids>>
        \/ /\ W!Fault /\ UNCHANGED <<disk, service, pids>>
           /\ installer' = [installer EXCEPT !.at = "undone", !.errors = TRUE]
    BY <1>2 DEF W!UndoFiles, W!Undoes, W!BackAt
  <2>2. QED  BY <1>0, <1>2, <2>1, FilesBackEarly, NotedKeeps DEF Undoing
<1>3. QED  BY <1>1, <1>2

\* UndoStart starts the service that ran from the file that is in its place again.
Restarts(n) == /\ IF W!WasActive(n) THEN W!StartsService(n) ELSE UNCHANGED <<service, pids>>
               /\ UNCHANGED disk

LEMMA StartedAgain ==
  ASSUME IInstall, NEW n \in W!Names, Restarts(n), W!Keeps(<<outcome>>),
         In({"back canonical", "back short"}), ~installer.errors /\ ~hasty => ~W!Running(n),
         ~installer.errors /\ ~hasty => SameConfig(service[n], start.service[n])
  PROVE  /\ service' \in W!Settings /\ pids' \in Nat
         /\ \A m \in W!Names \ {n} : service'[m] = service[m]
         /\ \A m \in W!Names : /\ SameConfig(service'[m], service[m])
                               /\ service'[m] = None <=> service[m] = None
         /\ ~installer.errors /\ ~hasty => RunsAgain(n)'
<1>0. /\ InstallTypes /\ start \in [disk : W!Disks, service : W!Settings]
      /\ ~died => installer.found = start.service
      /\ ~installer.errors /\ ~hasty => /\ disk.program = OldDisk.program
                                        /\ Linked \/ disk.legacy = OldDisk.legacy
      /\ UNCHANGED <<start, died>>
  BY DEF IInstall, Reported, Remembered, FilesKnown, FilesKept, UndoneSoFar, W!Keeps, In, W!At,
     Installing, Early, Before, After, Undoing, Removing
<1>1. CASE ~W!WasActive(n)
  <2>1. UNCHANGED <<service, pids>>
    BY <1>1 DEF Restarts
  <2>2. ~(start.service[n] # None /\ start.service[n].pid # None /\ ~died)
    BY <1>0, <1>1 DEF W!WasActive
  <2>3. QED  BY <1>0, <2>1, <2>2 DEF InstallTypes, RunsAgain, SameConfig
<1>2. CASE W!WasActive(n) /\ W!Running(n)
  <2>1. UNCHANGED <<service, pids>> /\ (installer.errors \/ hasty)
    BY <1>2 DEF Restarts, W!StartsService
  <2>2. QED  BY <1>0, <2>1 DEF InstallTypes, SameConfig
<1>3. CASE W!WasActive(n) /\ ~W!Running(n)
  <2>1. service[n] # None /\ service' = W!Started(n) /\ pids' = pids + 1
    BY <1>3 DEF Restarts, W!StartsService
  <2>2. /\ service' \in W!Settings /\ service'[n] # None
        /\ service'[n].pid = pids + 1 /\ service'[n].image = W!Image(n)
        /\ pids + 1 \in Nat /\ pids + 1 # None
        /\ \A m \in W!Names \ {n} : service'[m] = service[m]
        /\ \A m \in W!Names : SameConfig(service'[m], service[m])
    BY <1>0, <2>1, StartedIs
  <2>3. ~installer.errors /\ ~hasty /\ start.service[n] # None => service[n].place = start.service[n].place
    <3>1. service[n] \in W!Services
      BY <1>0, <2>1, ServiceIs DEF InstallTypes, W!Settings
    <3>2. start.service[n] # None => start.service[n] \in W!Services
      BY <1>0, ServiceIs DEF W!Settings
    <3>3. W!Configured(service[n]).place = service[n].place
      BY <3>1, ConfiguredIs
    <3>4. start.service[n] # None => W!Configured(start.service[n]).place = start.service[n].place
      BY <3>2, ConfiguredIs
    <3>5. QED  BY <3>3, <3>4 DEF SameConfig
  <2>4. ~installer.errors /\ ~hasty => RunsAgain(n)'
    <3> SUFFICES ASSUME ~installer.errors, ~hasty, start.service[n] # None PROVE RunsAgain(n)'
      BY <1>0 DEF RunsAgain
    <3>1. Linked \/ W!Image(n) = W!FileOf(start.service[n], OldDisk)
      BY <1>0, <2>3 DEF W!Image, W!FileOf
    <3>2. W!Running(n)'
      BY <2>2 DEF W!Running
    <3>3. QED  BY <1>0, <2>2, <3>1, <3>2 DEF RunsAgain, Linked, OldDisk
  <2>5. pids' \in Nat
    BY <2>1, <2>2
  <2>6. QED  BY <2>1, <2>2, <2>4, <2>5
<1>4. QED  BY <1>1, <1>2, <1>3

LEMMA CanonicalAgain ==
  ASSUME IInstall, W!At("back canonical"), W!Goes("back short"), Restarts("canonical"),
         UNCHANGED faults, W!Keeps(<<outcome>>)
  PROVE  IInstall'
<1>0. /\ installer' \in Installers /\ installer'.at = "back short" /\ Carries
      /\ installer'.errors = installer.errors
  BY GoesOn DEF IInstall, Points, Before, After, Undoing, Early, Removing
<1>a. /\ service' \in W!Settings /\ pids' \in Nat /\ disk' = disk
      /\ service'["short"] = service["short"]
      /\ \A n \in W!Names : /\ SameConfig(service'[n], service[n])
                            /\ service'[n] = None <=> service[n] = None
      /\ ~installer.errors /\ ~hasty => RunsAgain("canonical")'
  <2>1. ~installer.errors /\ ~hasty => /\ ~W!Running("canonical")
                             /\ SameConfig(service["canonical"], start.service["canonical"])
    BY DEF IInstall, Remembered, UndoneSoFar, W!Names, In, W!At, Installing, Early, Before,
       After, Undoing, Removing
  <2>2. "canonical" \in W!Names /\ "short" \in W!Names \ {"canonical"}
    BY DEF W!Names
  <2>3. QED  BY <2>1, <2>2, StartedAgain DEF Restarts, In, W!At
<1>b. installer.switched
  BY DEF IInstall, Remembered, In, W!At, Installing, Early, Before, After, Undoing, Removing
<1>c. ~installer.errors /\ ~hasty =>
        /\ disk.program = OldDisk.program /\ disk.json = OldDisk.json
        /\ disk.type = OldDisk.type
        /\ disk.command = OldDisk.program
        /\ \A n \in W!Names : SameConfig(service'[n], start.service[n])
        /\ "canonical" = "canonical" => ~W!Running("short")'
        /\ "canonical" = "short" => RunsAgain("canonical")'
  <2>1. UNCHANGED <<start, died>>
    BY DEF W!Keeps
  <2>2. QED  BY <1>a, <1>b, <2>1 DEF IInstall, UndoneSoFar, W!Names, SameConfig, W!Running,
     RunsAgain, Linked, OldDisk, In, W!At, Installing, Early, Before, After, Undoing,
     Removing
<1>1. InstallTypes'
  BY <1>0, <1>a, <1>b DEF IInstall, InstallTypes, W!Keeps
<1>2. Reported'
  BY <1>0, <1>a, <1>b DEF IInstall, Reported, W!Keeps, In, W!At, Installing, Early, Before,
    After, Undoing, Removing, Points
<1>3. Remembered'
  BY <1>0, <1>a, <1>b DEF IInstall, Remembered, Carries, OldDisk, W!Keeps, In, W!At,
     Installing, Early, Before, After, Undoing, Removing
<1>4. FilesKnown'
  BY <1>0, <1>a, <1>b DEF IInstall, InstallTypes, W!Disks, Remembered, FilesKnown, FilesKept,
     Carries, OldDisk, Linked, W!Keeps, In, W!At, Installing, Early, Before, After,
     Undoing, Removing
<1>5. ServicesKnown'
  BY <1>0, <1>a, <1>b DEF IInstall, Remembered, ServicesKnown, Carries, W!Running,
     W!InstallName, Serves, W!Names, W!Keeps, In, W!At, Installing, Early, Before, After,
     Undoing, Removing
<1>6. UndoneSoFar'
  BY <1>0, <1>a, <1>b, <1>c DEF UndoneSoFar, Carries, OldDisk, W!Keeps, W!Names, In, W!At,
    Installing, Early, Before, After, Undoing, Removing
<1>7. W!InstalledIsNew'
  BY <1>0, <1>a, <1>b DEF IInstall, Reported, W!InstalledIsNew, W!At, W!Keeps
<1>8. W!RolledBackIsOld'
  BY <1>0, <1>a, <1>b DEF IInstall, Reported, W!RolledBackIsOld, W!At, W!Keeps
<1>9. QED  BY <1>1, <1>2, <1>3, <1>4, <1>5, <1>6, <1>7, <1>8 DEF IInstall

LEMMA ShortAgain ==
  ASSUME IInstall, W!At("back short"), W!Goes("undone"), Restarts("short"),
         UNCHANGED faults, W!Keeps(<<outcome>>)
  PROVE  IInstall'
<1>0. /\ installer' \in Installers /\ installer'.at = "undone" /\ Carries
      /\ installer'.errors = installer.errors
  BY GoesOn DEF IInstall, Points, Before, After, Undoing, Early, Removing
<1>a. /\ service' \in W!Settings /\ pids' \in Nat /\ disk' = disk
      /\ service'["canonical"] = service["canonical"]
      /\ \A n \in W!Names : /\ SameConfig(service'[n], service[n])
                            /\ service'[n] = None <=> service[n] = None
      /\ ~installer.errors /\ ~hasty => RunsAgain("short")'
  <2>1. ~installer.errors /\ ~hasty => /\ ~W!Running("short")
                             /\ SameConfig(service["short"], start.service["short"])
    BY DEF IInstall, Remembered, UndoneSoFar, W!Names, In, W!At, Installing, Early, Before,
       After, Undoing, Removing
  <2>2. "short" \in W!Names /\ "canonical" \in W!Names \ {"short"}
    BY DEF W!Names
  <2>3. QED  BY <2>1, <2>2, StartedAgain DEF Restarts, In, W!At
<1>b. installer.switched
  BY DEF IInstall, Remembered, In, W!At, Installing, Early, Before, After, Undoing, Removing
<1>c. ~installer.errors /\ ~hasty =>
        /\ disk.program = OldDisk.program /\ disk.json = OldDisk.json
        /\ disk.type = OldDisk.type
        /\ disk.command = OldDisk.program
        /\ \A n \in W!Names : SameConfig(service'[n], start.service[n])
        /\ "short" = "canonical" => ~W!Running("short")'
        /\ "short" = "short" => RunsAgain("canonical")'
  <2>1. UNCHANGED <<start, died>>
    BY DEF W!Keeps
  <2>2. QED  BY <1>a, <1>b, <2>1 DEF IInstall, UndoneSoFar, W!Names, SameConfig, W!Running,
     RunsAgain, Linked, OldDisk, In, W!At, Installing, Early, Before, After, Undoing,
     Removing
<1>1. InstallTypes'
  BY <1>0, <1>a, <1>b DEF IInstall, InstallTypes, W!Keeps
<1>2. Reported'
  BY <1>0, <1>a, <1>b DEF IInstall, Reported, W!Keeps, In, W!At, Installing, Early, Before,
    After, Undoing, Removing, Points
<1>3. Remembered'
  BY <1>0, <1>a, <1>b DEF IInstall, Remembered, Carries, OldDisk, W!Keeps, In, W!At,
     Installing, Early, Before, After, Undoing, Removing
<1>4. FilesKnown'
  BY <1>0, <1>a, <1>b DEF IInstall, InstallTypes, W!Disks, Remembered, FilesKnown, FilesKept,
     Carries, OldDisk, Linked, W!Keeps, In, W!At, Installing, Early, Before, After,
     Undoing, Removing
<1>5. ServicesKnown'
  BY <1>0, <1>a, <1>b DEF IInstall, Remembered, ServicesKnown, Carries, W!Running,
     W!InstallName, Serves, W!Names, W!Keeps, In, W!At, Installing, Early, Before, After,
     Undoing, Removing
<1>6. UndoneSoFar'
  BY <1>0, <1>a, <1>b, <1>c DEF UndoneSoFar, Carries, OldDisk, W!Keeps, W!Names, In, W!At,
    Installing, Early, Before, After, Undoing, Removing
<1>7. W!InstalledIsNew'
  BY <1>0, <1>a, <1>b DEF IInstall, Reported, W!InstalledIsNew, W!At, W!Keeps
<1>8. W!RolledBackIsOld'
  BY <1>0, <1>a, <1>b DEF IInstall, Reported, W!RolledBackIsOld, W!At, W!Keeps
<1>9. QED  BY <1>1, <1>2, <1>3, <1>4, <1>5, <1>6, <1>7, <1>8 DEF IInstall

LEMMA UndoStartKeeps ==
  ASSUME IInstall, NEW n \in W!Names, W!UndoStart(n)
  PROVE  IInstall'
<1>1. CASE n = "canonical"
  <2>1. /\ W!At("back canonical") /\ In(Undoing) /\ installer.switched /\ W!Keeps(<<outcome>>)
        /\ \/ W!Goes("back short") /\ Restarts("canonical") /\ UNCHANGED faults
           \/ /\ W!Fault /\ UNCHANGED <<disk, service, pids>>
              /\ installer' = [installer EXCEPT !.at = "back short", !.errors = TRUE]
    BY <1>1 DEF IInstall, Remembered, W!UndoStart, W!Undoes, W!UndoAt, W!BackAt, Restarts,
       In, W!At, Installing, Early, Before, After, Undoing, Removing
  <2>2. QED  BY <2>1, CanonicalAgain, NotedKeeps DEF Undoing
<1>2. CASE n = "short"
  <2>1. /\ W!At("back short") /\ In(Undoing) /\ installer.switched /\ W!Keeps(<<outcome>>)
        /\ \/ W!Goes("undone") /\ Restarts("short") /\ UNCHANGED faults
           \/ /\ W!Fault /\ UNCHANGED <<disk, service, pids>>
              /\ installer' = [installer EXCEPT !.at = "undone", !.errors = TRUE]
    BY <1>2 DEF IInstall, Remembered, W!UndoStart, W!Undoes, W!UndoAt, W!BackAt, Restarts,
       In, W!At, Installing, Early, Before, After, Undoing, Removing
  <2>2. QED  BY <2>1, ShortAgain, NotedKeeps DEF Undoing
<1>3. QED  BY <1>1, <1>2 DEF W!Names

LEMMA UndoneKeeps ==
  ASSUME IInstall, W!Undone
  PROVE  IInstall'
<1>0. /\ installer' \in Installers /\ installer'.at = "idle"
      /\ installer'.version = installer.version
      /\ outcome' = IF installer.errors THEN "broken" ELSE "rolled back"
  BY EndsHere DEF IInstall, W!Undone, W!Outcomes
<1>1. UNCHANGED <<disk, service, pids, faults, start, died, cleanup, hasty, runs>> /\ W!At("undone")
  BY DEF W!Undone, W!Keeps
<1>2. InstallTypes'
  BY <1>0, <1>1 DEF IInstall, InstallTypes, W!Outcomes
<1>3. /\ Reported' /\ Remembered' /\ FilesKnown' /\ ServicesKnown' /\ UndoneSoFar'
      /\ W!InstalledIsNew'
  BY <1>0, <1>1 DEF IInstall, Reported, Remembered, FilesKnown, FilesKept, ServicesKnown,
     UndoneSoFar, W!InstalledIsNew, In, W!At, Installing, Early, Before, After, Undoing,
     Removing
<1>4. W!RolledBackIsOld'
  <2>1. CASE installer.errors \/ hasty
    BY <1>0, <1>1, <2>1 DEF W!RolledBackIsOld
  <2>2. CASE ~installer.errors /\ ~hasty /\ installer.switched
    <3>1. /\ disk.program = OldDisk.program /\ disk.json = OldDisk.json /\ disk.type = OldDisk.type
          /\ disk.command = OldDisk.program
          /\ Linked \/ disk.legacy = OldDisk.legacy
          /\ \A n \in W!Names : SameConfig(service[n], start.service[n]) /\ RunsAgain(n)
      BY <1>1, <2>2 DEF IInstall, FilesKnown, FilesKept, UndoneSoFar, W!Names, In, W!At, Installing,
         Early, Before, After, Undoing, Removing
    <3>2. QED  BY <1>0, <1>1, <3>1 DEF W!RolledBackIsOld, RunsAgain, OldDisk, Linked,
       SameConfig, W!Running
  <2>3. CASE ~installer.errors /\ ~hasty /\ ~installer.switched
    <3>1. /\ disk.program = OldDisk.program /\ disk.json = OldDisk.json /\ disk.type = OldDisk.type
          /\ disk.command = OldDisk.command
          /\ Linked \/ disk.legacy = OldDisk.legacy
          /\ \A n \in W!Names : SameConfig(service[n], start.service[n])
          /\ ~died => service = start.service
      BY <1>1, <2>3 DEF IInstall, FilesKnown, FilesKept, ServicesKnown, UndoneSoFar, In, W!At,
         Installing, Early, Before, After, Undoing, Removing
    <3>2. QED  BY <1>0, <1>1, <3>1 DEF W!RolledBackIsOld, OldDisk, Linked, SameConfig,
                  W!Running
  <2>4. QED  BY <2>1, <2>2, <2>3
<1>5. QED  BY <1>2, <1>3, <1>4 DEF IInstall

-----------------------------------------------------------------------------
(* Removals, and what happens meanwhile *)

\* While nobody installs and nothing is reported of an installation, types are enough.
LEMMA Elsewhere ==
  ASSUME InstallTypes', ~Installing', outcome' \notin {"installed", "rolled back", "refused"},
         ~W!At("idle")' => outcome' = "none",
         cleanup' # {} => \/ hasty'
                          \/ W!At("idle")' /\ outcome' \in {"removing", "removed", "unremoved"}
  PROVE  IInstall'
<1>1. ~Installing' /\ Reported'
  BY Zenon DEF Reported
<1>2. ~In(Undoing)'
  BY DEF Installing, In
<1>3. QED  BY <1>1, <1>2 DEF IInstall, Remembered, FilesKnown, ServicesKnown, UndoneSoFar,
   W!InstalledIsNew, W!RolledBackIsOld

LEMMA RemoveKeeps ==
  ASSUME IInstall, W!Remove
  PROVE  IInstall'
<1>1. installer' \in Installers /\ installer'.at = "drop canonical"
  <2>1. W!Idle \in Installers
    BY InstallAssumption DEF W!Idle, Installers, W!Settings, W!Absent, W!Stamps, W!Files
  <2>2. QED  BY <2>1 DEF W!Remove, W!DropAt, Installers, Removing
<1>2. /\ runs' = runs + 1 /\ runs < MaxRuns /\ hasty' = (cleanup # {}) /\ outcome' = "none"
      /\ UNCHANGED <<disk, service, died, cleanup, pids, faults>>
  BY DEF W!Remove, W!TakesLock
<1>3. runs' \in 0..MaxRuns
  BY <1>2, InstallAssumption DEF IInstall, InstallTypes
<1>4. InstallTypes'
  BY <1>1, <1>2, <1>3 DEF IInstall, InstallTypes, W!Outcomes
<1>5. QED  BY <1>1, <1>2, <1>4, Elsewhere DEF In, W!At, Installing, Early, Before, After,
   Undoing, Removing

LEMMA DeleteKeeps ==
  ASSUME IInstall, NEW n \in W!Names, W!Delete(n)
  PROVE  IInstall'
<1>1. \/ /\ W!At("drop canonical") /\ W!Goes("drop short") /\ UNCHANGED <<outcome, cleanup>>
      \/ /\ W!At("drop short") /\ W!Ends("removing") /\ cleanup' = cleanup \cup {"data"}
  <2>1. CASE n = "canonical"
    BY <2>1 DEF W!Delete, W!DropAt
  <2>2. CASE n = "short"
    BY <2>2 DEF W!Delete, W!DropAt
  <2>3. QED  BY <2>1, <2>2 DEF W!Names
<1>2. service' \in W!Settings
  <2>1. service' = Put(n, None) /\ None \in W!Services \cup {None} /\ InstallTypes
    BY DEF IInstall, W!Delete, Put
  <2>2. Put(n, None) \in W!Settings
    BY <2>1, OneService
  <2>3. QED  BY <2>1, <2>2
<1>3. UNCHANGED <<disk, pids, faults, died, hasty, runs>>
  BY DEF W!Delete
<1>4. (cleanup # {} => hasty) /\ outcome = "none"
  BY <1>1 DEF IInstall, Reported, W!At
<1>5. CASE W!At("drop canonical") /\ W!Goes("drop short") /\ UNCHANGED <<outcome, cleanup>>
  <2>1. installer' \in Installers /\ installer'.at = "drop short"
    BY <1>5, GoesOn DEF IInstall, Points, Removing
  <2>2. InstallTypes'
    BY <1>2, <1>3, <1>5, <2>1 DEF IInstall, InstallTypes
  <2>3. QED  BY <1>3, <1>4, <1>5, <2>1, <2>2, Elsewhere DEF In, W!At, Installing, Early,
     Before, After, Undoing, Removing
<1>6. CASE W!Ends("removing") /\ cleanup' = cleanup \cup {"data"}
  <2>1. installer' \in Installers /\ installer'.at = "idle" /\ outcome' = "removing"
    BY <1>6, EndsHere DEF IInstall, W!Outcomes
  <2>2. InstallTypes'
    BY <1>2, <1>3, <1>6, <2>1 DEF IInstall, InstallTypes, W!Outcomes
  <2>3. QED  BY <1>3, <1>6, <2>1, <2>2, Elsewhere DEF In, W!At, Installing, Early, Before,
     After, Undoing, Removing
<1>7. QED  BY <1>1, <1>5, <1>6

\* A run that began before a removal was done loses files to it: what it knows of them
\* is that the program is its own or gone.
Bereft ==
  /\ disk' \in W!Disks /\ disk'.program \in {disk.program, None}
  /\ UNCHANGED <<service, installer, start, died, hasty, runs, pids>>
LEMMA LossIsKnown ==
  ASSUME IInstall, Bereft, faults' \in Nat, cleanup # {}, cleanup' \subseteq {"data", "script"},
         \/ UNCHANGED outcome
         \/ outcome = "removing" /\ outcome' \in {"removed", "unremoved"}
  PROVE  IInstall'
<1>1. hasty \/ (W!At("idle") /\ outcome \in {"removing", "removed", "unremoved"})
  BY DEF IInstall, Reported
<1>2. InstallTypes'
  BY DEF IInstall, InstallTypes, Bereft, W!Outcomes
<1>3. CASE W!At("idle") /\ outcome \in {"removing", "removed", "unremoved"}
  BY <1>2, <1>3, Elsewhere DEF Bereft, In, W!At, Installing, Early, Before, After, Undoing,
     Removing
<1>4. CASE hasty
  <2>1. Reported' /\ Remembered'
    BY <1>4 DEF IInstall, Bereft, Reported, Remembered, OldDisk, In, W!At, Installing, Early,
       Before, After, Undoing, Removing
  <2>2. FilesKnown'
    BY <1>4 DEF IInstall, Bereft, FilesKnown, In, W!At, Installing, Early, Before, After,
       Undoing, Removing
  <2>3. ServicesKnown'
    BY <1>4 DEF IInstall, Bereft, ServicesKnown, W!Running, W!InstallName, Serves, In, W!At,
       Installing, Early, Before, After, Undoing, Removing
  <2>4. UndoneSoFar' /\ W!RolledBackIsOld'
    BY <1>4 DEF Bereft, UndoneSoFar, W!RolledBackIsOld
  <2>5. W!InstalledIsNew'
    BY <1>4 DEF IInstall, Bereft, W!InstalledIsNew, W!Running
  <2>6. QED  BY <1>2, <2>1, <2>2, <2>3, <2>4, <2>5 DEF IInstall
<1>5. QED  BY <1>1, <1>3, <1>4

LEMMA NoDataIs ==
  ASSUME InstallTypes
  PROVE  W!NoData \in W!Disks /\ W!NoData.program = disk.program
BY DEF InstallTypes, W!NoData, W!Disks, W!Stamps

LEMMA RemoveDataKeeps ==
  ASSUME IInstall, W!RemoveData
  PROVE  IInstall'
<1>1. Bereft /\ faults' \in Nat
  BY NoDataIs DEF IInstall, InstallTypes, W!RemoveData, Bereft
<1>2. /\ cleanup # {} /\ cleanup' \subseteq {"data", "script"}
      /\ UNCHANGED outcome \/ (outcome = "removing" /\ outcome' = "removed")
  BY DEF IInstall, InstallTypes, W!RemoveData, W!Reports
<1>3. QED  BY <1>1, <1>2, LossIsKnown

LEMMA FailRemovalKeeps ==
  ASSUME IInstall, W!FailRemoval
  PROVE  IInstall'
<1>1. faults' \in Nat
  BY FaultIs DEF IInstall, W!FailRemoval
<1>2. ASSUME W!Ends("unremoved"), W!Keeps(<<disk, pids>>),
             NEW n \in W!Names, W!At(W!DropAt[n]), service' \in {service, W!Stopped(n)}
      PROVE  IInstall'
  <2>1. installer' \in Installers /\ installer'.at = "idle" /\ outcome' = "unremoved"
    BY <1>2, EndsHere DEF IInstall, W!Outcomes
  <2>2. service' \in W!Settings
    BY <1>2, StoppedIs DEF IInstall, InstallTypes
  <2>3. UNCHANGED <<disk, pids, died, cleanup, hasty, runs>>
    BY <1>2 DEF W!Keeps
  <2>4. InstallTypes'
    BY <1>1, <2>1, <2>2, <2>3 DEF IInstall, InstallTypes, W!Outcomes
  <2>5. QED  BY <2>1, <2>3, <2>4, Elsewhere DEF In, W!At, Installing, Early, Before, After,
     Undoing, Removing
<1>3. CASE /\ "data" \in cleanup /\ cleanup' = cleanup \ {"data"}
           /\ disk' \in {disk, W!NoData} /\ W!Reports("unremoved")
           /\ UNCHANGED <<service, installer, start, died, hasty, runs, pids>>
  <2>1. Bereft
    BY <1>3, NoDataIs DEF IInstall, InstallTypes, Bereft
  <2>2. /\ cleanup # {} /\ cleanup' \subseteq {"data", "script"}
        /\ UNCHANGED outcome \/ (outcome = "removing" /\ outcome' = "unremoved")
    BY <1>3 DEF IInstall, InstallTypes, W!Reports
  <2>3. QED  BY <1>1, <2>1, <2>2, LossIsKnown
<1>4. QED  BY <1>2, <1>3 DEF W!FailRemoval

LEMMA CleanupKeeps ==
  ASSUME IInstall, W!Cleanup
  PROVE  IInstall'
<1>1. PICK left \in SUBSET {"program", "legacy", "command"} :
         /\ IF left = {} THEN UNCHANGED faults ELSE W!Fault
         /\ disk' = [disk EXCEPT !.program = IF "program" \in left THEN @ ELSE None,
                                 !.legacy  = IF "legacy"  \in left THEN @ ELSE None,
                                 !.command = IF "command" \in left THEN @ ELSE None,
                                 !.shared  = IF {@, "command"} \subseteq left THEN @ ELSE None]
  BY DEF W!Cleanup
<1>2. disk' \in W!Disks /\ disk'.program \in {disk.program, None}
  <2> DEFINE p == IF "program" \in left THEN disk.program ELSE None
             l == IF "legacy" \in left THEN disk.legacy ELSE None
             c == IF "command" \in left THEN disk.command ELSE None
             s == IF {disk.shared, "command"} \subseteq left THEN disk.shared ELSE None
  <2>1. disk' = [disk EXCEPT !.program = p, !.legacy = l, !.command = c, !.shared = s]
    BY <1>1 DEF IInstall, InstallTypes, W!Disks
  <2>2. /\ {p, l, c} \subseteq W!Files /\ s \in {"program", "legacy", None}
        /\ disk \in W!Disks /\ p \in {disk.program, None}
    BY DEF IInstall, InstallTypes, W!Disks, W!Files
  <2> HIDE DEF p, l, c, s
  <2>3. QED  BY <2>1, <2>2 DEF W!Disks
<1>3. faults' \in Nat
  BY <1>1, FaultIs DEF IInstall, InstallTypes
<1>4. /\ UNCHANGED <<service, installer, start, died, outcome, hasty, runs, pids>>
      /\ "script" \in cleanup /\ cleanup' \in {cleanup, cleanup \ {"script"}}
  BY DEF W!Cleanup
<1>5. cleanup # {} /\ cleanup' \subseteq {"data", "script"}
  BY <1>4 DEF IInstall, InstallTypes
<1>6. Bereft
  BY <1>2, <1>4 DEF Bereft
<1>7. QED  BY <1>3, <1>4, <1>5, <1>6, LossIsKnown

LEMMA KilledKeeps ==
  ASSUME IInstall, W!Killed
  PROVE  IInstall'
<1>1. installer' \in Installers /\ installer'.at = "idle" /\ outcome' = "killed"
  BY EndsHere DEF IInstall, W!Killed, W!Outcomes
<1>2. faults' \in Nat
  BY FaultIs DEF IInstall, W!Killed
<1>3. UNCHANGED <<disk, service, pids, died, cleanup, hasty, runs>>
  BY DEF W!Killed, W!Keeps
<1>4. InstallTypes'
  BY <1>1, <1>2, <1>3 DEF IInstall, InstallTypes, W!Outcomes
<1>5. cleanup # {} => hasty
  BY DEF IInstall, Reported, W!Killed, W!At
<1>6. QED  BY <1>1, <1>3, <1>4, <1>5, Elsewhere DEF In, W!At, Installing, Early, Before,
   After, Undoing, Removing

LEMMA AgentReadyKeeps ==
  ASSUME IInstall, NEW n \in W!Names, W!AgentReady(n)
  PROVE  IInstall'
<1>1. /\ W!Running(n) /\ disk.marker # service[n].pid
      /\ UNCHANGED <<service, installer, outcome, pids, faults, start, died, cleanup, hasty, runs>>
  BY DEF W!AgentReady, W!Keeps
<1>2. /\ disk' \in W!Disks /\ disk'.program = disk.program /\ disk'.command = disk.command
      /\ disk'.legacy = disk.legacy /\ disk'.shared = disk.shared
      /\ disk'.json = disk.json /\ disk'.type = disk.type
  <2>1. service[n].pid \in Nat
    BY <1>1 DEF IInstall, InstallTypes, W!Settings, W!Running, W!Services
  <2>2. QED  BY <2>1 DEF IInstall, InstallTypes, W!AgentReady, W!Disks
<1>3. InstallTypes'
  BY <1>1, <1>2 DEF IInstall, InstallTypes
<1>4. Reported' /\ Remembered' /\ UndoneSoFar'
  <2>1. Reported' /\ Remembered'
    BY <1>1 DEF IInstall, Reported, Remembered, OldDisk, In, W!At, Installing, Early,
       Before, After, Undoing, Removing
  <2>2. UndoneSoFar'
    BY <1>1, <1>2 DEF IInstall, UndoneSoFar, OldDisk, Linked, RunsAgain, W!Running, In,
       W!At, Installing, Early, Before, After, Undoing, Removing
  <2>3. QED  BY <2>1, <2>2
<1>5. FilesKnown'
  BY <1>1, <1>2 DEF IInstall, FilesKnown, FilesKept, OldDisk, Linked, In, W!At, Installing, Early,
     Before, After, Undoing, Removing
<1>6. ServicesKnown'
  <2>1. W!At("tidy") => died \/ hasty
    <3>1. W!At("tidy") => n = W!InstallName \/ ~W!Running(n)
      BY DEF IInstall, ServicesKnown, In, W!At, Installing, Early, Before, After, Undoing,
         Removing
    <3>2. W!At("tidy") => died \/ hasty \/ disk.marker = service[W!InstallName].pid
      BY DEF IInstall, ServicesKnown, In, W!At, Installing, Early, Before, After, Undoing,
         Removing
    <3>3. QED  BY <1>1, <3>1, <3>2
  <2>2. QED  BY <1>1, <2>1 DEF IInstall, ServicesKnown, W!InstallName, W!Running, Serves,
     In, W!At, Installing, Early, Before, After, Undoing, Removing
<1>7. W!InstalledIsNew'
  <2>1. outcome = "installed" => died \/ hasty
    BY <1>1 DEF IInstall, W!InstalledIsNew, W!Running
  <2>2. QED  BY <1>1, <1>2, <2>1 DEF IInstall, W!InstalledIsNew, W!Running
<1>8. W!RolledBackIsOld'
  BY <1>1, <1>2 DEF IInstall, W!RolledBackIsOld, W!Running
<1>9. QED  BY <1>3, <1>4, <1>5, <1>6, <1>7, <1>8 DEF IInstall

LEMMA AgentEndsKeeps ==
  ASSUME IInstall, NEW n \in W!Names, W!AgentEnds(n)
  PROVE  IInstall'
<1>1. /\ W!Running(n) /\ died' = TRUE /\ service' = W!Stopped(n)
      /\ UNCHANGED <<disk, installer, start, outcome, cleanup, hasty, runs, pids>>
  BY DEF W!AgentEnds
<1>2. /\ service' \in W!Settings
      /\ \A m \in W!Names : /\ SameConfig(service'[m], service[m])
                            /\ service'[m] = None <=> service[m] = None
      /\ \A m \in W!Names : m # n => service'[m] = service[m]
      /\ service'[n] = None \/ service'[n].pid = None
  BY <1>1, StoppedIs DEF IInstall
<1>3. \A m \in W!Names : ~W!Running(m) => ~W!Running(m)'
  BY <1>2 DEF W!Running
<1>4. \A m \in W!Names : service[m] # None =>
        service'[m].place = service[m].place /\ service'[m].mode = service[m].mode
        /\ service'[m].by = service[m].by
  <2> SUFFICES ASSUME NEW m \in W!Names, service[m] # None
               PROVE  service'[m].place = service[m].place /\ service'[m].mode = service[m].mode
                      /\ service'[m].by = service[m].by
    OBVIOUS
  <2>1. service[m] \in W!Services /\ service'[m] \in W!Services
    BY <1>2, ServiceIs DEF IInstall, InstallTypes, W!Settings
  <2>2. QED  BY <1>2, <2>1, ConfiguredIs DEF SameConfig
<1>5. faults' \in Nat
  BY FaultIs DEF IInstall, W!AgentEnds
<1>6. InstallTypes'
  BY <1>1, <1>2, <1>5 DEF IInstall, InstallTypes
<1>7. Reported' /\ Remembered'
  BY <1>1 DEF IInstall, Reported, Remembered, OldDisk, In, W!At, Installing, Early, Before,
     After, Undoing, Removing
<1>8. FilesKnown'
  BY <1>1 DEF IInstall, FilesKnown, FilesKept, OldDisk, Linked, In, W!At, Installing, Early, Before,
     After, Undoing, Removing
<1>9. ServicesKnown'
  <2>1. W!InstallName \in W!Names /\ W!InstallName' = W!InstallName
    BY <1>1, NamesAre DEF IInstall, W!InstallName
  <2>2. Serves(service[W!InstallName]) => Serves(service'[W!InstallName])
    BY <1>1, <1>2, <1>4, <2>1 DEF Serves
  <2>3. Serves(service[W!InstallName]) => Serves(service[W!InstallName])'
    BY <1>1, <2>1, <2>2 DEF Serves
  <2>4. W!Running(W!InstallName)' => /\ service'[W!InstallName] = service[W!InstallName]
                                     /\ W!Running(W!InstallName)
    BY <1>2, <2>1 DEF W!Running
  <2>5. \A m \in W!Names :
          SameConfig(service'[m], start.service[m]) <=> SameConfig(service[m], start.service[m])
    BY <1>2 DEF SameConfig
  <2>6. QED  BY <1>1, <1>2, <1>3, <2>1, <2>3, <2>4, <2>5 DEF IInstall, ServicesKnown,
     W!Names, In, W!At, Installing, Early, Before, After, Undoing, Removing
<1>10. UndoneSoFar'
  BY <1>1, <1>2, <1>3 DEF IInstall, UndoneSoFar, OldDisk, RunsAgain, SameConfig, W!Names,
     In, W!At, Installing, Early, Before, After, Undoing, Removing
<1>11. W!InstalledIsNew'
  <2> SUFFICES ASSUME outcome = "installed" PROVE W!InstalledIsNew'
    BY <1>1 DEF W!InstalledIsNew
  <2>1. PICK m \in W!Names :
          /\ service[m] # None /\ service[m].place = "program" /\ service[m].mode = "auto"
          /\ service[m].by = runs /\ \A o \in W!Names \ {m} : ~W!Running(o)
    BY DEF IInstall, W!InstalledIsNew
  <2>2. /\ service'[m] # None /\ service'[m].place = "program" /\ service'[m].mode = "auto"
        /\ service'[m].by = runs /\ \A o \in W!Names \ {m} : ~W!Running(o)'
    BY <1>2, <1>3, <1>4, <2>1
  <2>3. QED  BY <1>1, <2>2 DEF IInstall, W!InstalledIsNew
<1>12. W!RolledBackIsOld'
  BY <1>1, <1>2 DEF IInstall, W!RolledBackIsOld, SameConfig
<1>13. QED  BY <1>6, <1>7, <1>8, <1>9, <1>10, <1>11, <1>12 DEF IInstall

-----------------------------------------------------------------------------
(* The theorem *)

LEMMA InitInstall ==
  ASSUME NEW losses \in Nat, W!Init(losses)
  PROVE  IInstall
<1>1. W!Idle \in Installers /\ W!Idle.at = "idle"
  BY InstallAssumption DEF W!Idle, Installers, W!Settings, W!Absent, W!Stamps, W!Files
<1>2. /\ W!Absent \in W!Settings /\ W!OldShort \in W!Settings
      /\ \A p \in {1, None} : /\ [W!Absent EXCEPT !["canonical"] = W!OldHere(p)] \in W!Settings
                              /\ [W!OldShort EXCEPT !["canonical"] = W!OldHere(p)] \in W!Settings
  <2>1. W!Absent \in W!Settings
    BY DEF W!Absent, W!Settings
  <2>2. W!Service("legacy", "auto", 0, 1, 0) \in W!Services
    BY InstallAssumption DEF W!Service, W!Services, W!Files
  <2>3. \A p \in {1, None} : W!OldHere(p) \in W!Services
    BY InstallAssumption DEF W!OldHere, W!Service, W!Services, W!Files
  <2>4. W!OldShort \in W!Settings
    BY <2>1, <2>2 DEF W!OldShort, W!Settings, W!Names
  <2>5. QED  BY <2>1, <2>3, <2>4 DEF W!Settings, W!Names
<1>3. disk \in W!Disks /\ service \in W!Settings
  <2>1. ASSUME NEW p \in {0, None}, NEW l \in {0, None}, NEW s \in W!Settings,
               NEW shared \in {"program", "legacy", None}, W!Found(p, l, s, shared)
        PROVE  disk \in W!Disks /\ service \in W!Settings
    <3>1. service = s
      BY <2>1 DEF W!Found
    <3> DEFINE written == IF s = W!Absent THEN None ELSE 0
    <3>2. disk = [program |-> p, legacy |-> l, command |-> IF p # None THEN p ELSE l,
                  shared |-> shared, json |-> written, type |-> written, marker |-> None]
      BY <2>1 DEF W!Found
    <3>3. written \in W!Stamps /\ {p, l, IF p # None THEN p ELSE l} \subseteq W!Files
      BY InstallAssumption DEF W!Stamps, W!Files
    <3> HIDE DEF written
    <3>4. QED  BY <3>1, <3>2, <3>3 DEF W!Disks
  <2>2. \/ W!Found(None, None, W!Absent, None)
        \/ W!Found(0, None, [W!Absent EXCEPT !["canonical"] = W!OldHere(1)], "program")
        \/ W!Found(None, 0, W!OldShort, None)
        \/ W!Found(None, 0, W!OldShort, "legacy")
        \/ W!Found(0, 0, [W!OldShort EXCEPT !["canonical"] = W!OldHere(None)], "program")
    BY DEF W!Init
  <2>3. QED  BY <1>2, <2>1, <2>2
<1>4. /\ installer = W!Idle /\ died = FALSE /\ outcome = "none" /\ cleanup = {}
      /\ hasty = FALSE
      /\ runs = 0 /\ pids = 1 /\ faults = losses
  BY DEF W!Init
<1>5. InstallTypes
  <2>1. runs \in 0..MaxRuns /\ pids \in Nat /\ faults \in Nat
    BY <1>4, InstallAssumption
  <2>2. /\ installer \in Installers /\ died \in BOOLEAN /\ cleanup \subseteq {"data", "script"} /\ hasty \in BOOLEAN
        /\ outcome \in W!Outcomes
    BY <1>1, <1>4 DEF W!Outcomes
  <2>3. QED  BY <1>3, <2>1, <2>2 DEF InstallTypes
<1>6. QED
  BY <1>1, <1>4, <1>5 DEF IInstall, Reported, Remembered, FilesKnown, FilesKept, ServicesKnown,
     UndoneSoFar, W!InstalledIsNew, W!RolledBackIsOld, In, W!At, Installing, Early,
     Before, After, Undoing, Removing

LEMMA NextInstall ==
  ASSUME IInstall, [W!Next]_W!vars
  PROVE  IInstall'
<1>1. CASE \E v \in Programs : W!Begin(v)
  BY <1>1, BeginKeeps
<1>2. CASE \/ W!Snapshot \/ W!WriteJson \/ W!WriteType \/ W!Activate
           \/ W!Configure \/ W!ClearMarker \/ W!Repair
  BY <1>2, SnapshotKeeps, WriteJsonKeeps, WriteTypeKeeps, ActivateKeeps, ConfigureKeeps,
     ClearMarkerKeeps, RepairKeeps
<1>3. CASE W!StartService \/ W!AwaitReady \/ W!Tidy
  BY <1>3, StartServiceKeeps, AwaitReadyKeeps, TidyKeeps
<1>4. CASE W!Fail \/ W!UndoStop \/ W!UndoProgram \/ W!UndoCommand \/ W!UndoFiles \/ W!Undone
  BY <1>4, FailKeeps, UndoStopKeeps, UndoProgramKeeps, UndoCommandKeeps, UndoFilesKeeps,
     UndoneKeeps
<1>5. CASE W!Remove \/ W!RemoveData \/ W!FailRemoval \/ W!Cleanup \/ W!Killed
  BY <1>5, RemoveKeeps, RemoveDataKeeps, FailRemovalKeeps, CleanupKeeps, KilledKeeps
<1>6. ASSUME NEW n \in W!Names,
             \/ W!StopService(n) \/ W!UndoConfig(n) \/ W!UndoStart(n) \/ W!Delete(n)
                                \/ W!AgentReady(n) \/ W!AgentEnds(n)
      PROVE  IInstall'
  BY <1>6, StopServiceKeeps, UndoConfigKeeps, UndoStartKeeps, DeleteKeeps, AgentReadyKeeps,
     AgentEndsKeeps
<1>7. CASE UNCHANGED W!vars
  <2>1. UNCHANGED <<disk, service, installer, start, died, outcome, cleanup, hasty, runs, pids, faults>>
    BY <1>7 DEF W!vars
  <2>2. InstallTypes'
    BY <2>1 DEF IInstall, InstallTypes
  <2>7. Reported' /\ Remembered'
    BY <2>1 DEF IInstall, Reported, Remembered, OldDisk, In, W!At, Installing, Early,
       Before, After, Undoing, Removing
  <2>8. FilesKnown'
    BY <2>1 DEF IInstall, FilesKnown, FilesKept, OldDisk, Linked, In, W!At, Installing, Early, Before,
       After, Undoing, Removing
  <2>3. ServicesKnown'
    BY <2>1 DEF IInstall, ServicesKnown, W!Running, W!InstallName, Serves, In, W!At,
       Installing, Early, Before, After, Undoing, Removing
  <2>4. UndoneSoFar'
    BY <2>1 DEF IInstall, UndoneSoFar, OldDisk, Linked, W!Running, RunsAgain, In, W!At,
       Installing, Early, Before, After, Undoing, Removing
  <2>5. W!InstalledIsNew' /\ W!RolledBackIsOld'
    BY <2>1 DEF IInstall, W!InstalledIsNew, W!RolledBackIsOld, W!Running
  <2>6. QED  BY <2>2, <2>7, <2>8, <2>3, <2>4, <2>5 DEF IInstall
<1>8. QED
  BY <1>1, <1>2, <1>3, <1>4, <1>5, <1>6, <1>7 DEF W!Next

LEMMA InstallFollows == ASSUME IInstall PROVE W!InstallHolds
BY DEF IInstall, InstallTypes, W!InstallHolds, W!TypeOK

\* Whichever steps fail: an installation that reports success runs its program as the
\* one service, and one that reports that it was rolled back has left programs, services
\* and files as it found them, but for the command, which goes where the directory held no
\* program; the files only if no removal was still under way when it began
\* (install_windows, rollback_windows_install, uninstall_windows).
THEOREM InstallStaysSound ==
  ASSUME NEW losses \in Nat
  PROVE  W!Init(losses) /\ [][W!Next]_W!vars => []W!InstallHolds
<1>1. W!Init(losses) => IInstall
  BY InitInstall
<1>2. IInstall /\ [W!Next]_W!vars => IInstall'
  BY NextInstall
<1>3. QED  BY <1>1, <1>2, InstallFollows, PTL

(***************************************************************************)
(* Both of what is run beside the control of releases.                     *)
(***************************************************************************)
\* What is reported of an agent is so, whether it is installed, started or stopped.
THEOREM SetupStays == FleetSpec => []SetupHolds
<1>1. Begun => IInstall /\ IProcess
  BY InstallAssumption, InitInstall, InitProcess DEF Begun
<1>2. [Moves]_<<part, vars, installVars, processVars>> => [W!Next]_W!vars /\ [P!Next]_P!vars
  BY DEF Moves, installVars, processVars, W!vars, P!vars, P!marks
<1>3. IInstall /\ IProcess /\ [Moves]_<<part, vars, installVars, processVars>>
        => (IInstall /\ IProcess)'
  BY <1>2, NextInstall, StepProcess
<1>4. IInstall /\ IProcess => SetupHolds
  BY InstallFollows, ProcessesFollow DEF SetupHolds
<1>5. QED  BY <1>1, <1>3, <1>4, PTL DEF FleetSpec
=============================================================================
