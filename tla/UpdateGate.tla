----------------------------- MODULE UpdateGate -----------------------------
(***************************************************************************)
(* What the activity tracker of the agent promises to an update            *)
(* (instanceEnd/src/activity.rs, as update.rs and ws.rs use it): work goes *)
(* in only through an open gate, and the updater is launched only while    *)
(* the gate is shut and nobody is inside.                                  *)
(***************************************************************************)
CONSTANTS
  Works           \* commands, terminals, transfers, Docker requests

VARIABLES
  gate,           \* "open", "shut"
  inside,         \* the work that holds an ActivityGuard
  updater         \* TRUE once the detached updater runs

vars == <<gate, inside, updater>>

Init == gate = "open" /\ inside = {} /\ updater = FALSE

Enter(w) ==
  /\ gate = "open"
  /\ inside' = inside \cup {w}
  /\ UNCHANGED <<gate, updater>>

Leave(w) ==
  /\ inside' = inside \ {w}
  /\ UNCHANGED <<gate, updater>>

Shut == gate' = "shut" /\ UNCHANGED <<inside, updater>>
Open == gate' = "open" /\ UNCHANGED <<inside, updater>>

Launch ==
  /\ gate = "shut" /\ inside = {}
  /\ updater' = TRUE
  /\ UNCHANGED <<gate, inside>>

\* The process of the agent ends, and the service starts another.
Restart == gate' = "open" /\ inside' = {} /\ updater' = FALSE

Next ==
  \/ \E w \in Works : Enter(w) \/ Leave(w)
  \/ Shut \/ Open \/ Launch \/ Restart

Spec == Init /\ [][Next]_vars
=============================================================================
