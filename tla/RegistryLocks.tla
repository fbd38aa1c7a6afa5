--------------------------- MODULE RegistryLocks ---------------------------
(***************************************************************************)
(* Three things that tasks of the backend wait for: the registry of the    *)
(* agents behind a fair lock, the connections of the database pool, and    *)
(* the row of an instance.  They are not taken in one order: an alert      *)
(* evaluation looks the agent up while it holds a connection and shares    *)
(* the row, a report of the agent is stored while the registry is held.    *)
(***************************************************************************)
EXTENDS Integers, Sequences, FiniteSets

CONSTANTS
  Evaluations,  \* process_rule_observation, rules of connections
  Reports,      \* messages of the agent that are stored under the lock
  Upgrades,     \* those of them that write the row: an upgrade that ended
  Sockets,      \* connections that enter or leave the registry
  MaxPool       \* max_connections

Tasks == Evaluations \cup Reports \cup Sockets

VARIABLES
  at,       \* where a task is
  queue     \* who waits for the lock, in order

vars == <<at, queue>>

Init == at = [t \in Tasks |-> "begin"] /\ queue = <<>>

At(stages)    == {t \in Tasks : at[t] \in stages}
Goes(t, stage) == at' = [at EXCEPT ![t] = stage]
Waits(t) == \E n \in DOMAIN queue : queue[n] = t

\* What a task has: an evaluation keeps its connection and the shared row until
\* it commits, a report the registry as well.
Connected == (Evaluations \cap At({"connected", "shares", "looked"}))
               \cup (Reports \cap At({"connected", "writes"}))
Sharing == Evaluations \cap At({"shares", "looked"})
Writing == Upgrades \cap At({"writes"})
Holding == (Reports \cup Sockets) \cap At({"holds", "connected", "writes"})

\* RwLock::read and write: a reader goes behind a writer that waits.
Ask(t) ==
  /\ ~Waits(t)
  /\ at[t] = IF t \in Evaluations THEN "shares" ELSE "begin"
  /\ queue' = Append(queue, t)
  /\ UNCHANGED at
Enter ==
  /\ queue # <<>>
  /\ LET t == Head(queue)
     IN  /\ Holding \cap Sockets = {}
         /\ t \in Sockets => Holding = {}
         /\ Goes(t, IF t \in Evaluations THEN "looked" ELSE "holds")
  /\ queue' = Tail(queue)

Wanting(t) == at[t] = IF t \in Evaluations THEN "begin" ELSE "holds"
Connect(t) ==
  /\ t \notin Sockets
  /\ Wanting(t)
  /\ Cardinality(Connected) < MaxPool
  /\ Goes(t, "connected")
  /\ UNCHANGED queue

\* Whoever waits for a connection waits on.
NeverExpire(t) == FALSE /\ UNCHANGED vars

\* The pool gives up after 30 seconds, and the task fails.
Expire(t) ==
  /\ t \notin Sockets
  /\ Wanting(t)
  /\ Cardinality(Connected) = MaxPool
  /\ Goes(t, "done")
  /\ UNCHANGED queue

\* SELECT ... FROM instances ... FOR SHARE.
Share(t) ==
  /\ t \in Evaluations /\ at[t] = "connected" /\ Writing = {}
  /\ Goes(t, "shares")
  /\ UNCHANGED queue

\* UPDATE instances SET agent_version waits for those who share the row.
Write(t) ==
  /\ t \in Upgrades /\ at[t] = "connected" /\ Writing \cup Sharing = {}
  /\ Goes(t, "writes")
  /\ UNCHANGED queue
Done(t) ==
  /\ \/ t \in Evaluations /\ at[t] = "looked"
     \/ t \in Upgrades /\ at[t] = "writes"
     \/ t \in Reports \ Upgrades /\ at[t] = "connected"
     \/ t \in Sockets /\ at[t] = "holds"
  /\ Goes(t, "done")
  /\ UNCHANGED queue

Step(t) == Ask(t) \/ Connect(t) \/ Expire(t) \/ Share(t) \/ Write(t) \/ Done(t)
Next == Enter \/ \E t \in Tasks : Step(t)
Spec == Init /\ [][Next]_vars /\ WF_vars(Next)

\* The cycle no time limit breaks: an evaluation waits for the registry behind a
\* connection, which waits for a report, which waits for the row.
Ahead(s, t) == \E m, n \in DOMAIN queue : m < n /\ queue[m] = s /\ queue[n] = t
Caught ==
  \E t \in Evaluations, u \in Upgrades, s \in Sockets :
    t \in Sharing /\ u \in Holding /\ at[u] = "connected" /\ Ahead(s, t)

\* Every task ends, and the registry is free for the next one, although the pool
\* may run out while the registry is held; only that cycle holds it for ever.
RegistryFrees == []<>(At({"done"}) = Tasks \/ Caught)
=============================================================================
