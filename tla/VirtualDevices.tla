---------------------------- MODULE VirtualDevices ----------------------------
(***************************************************************************)
(* The coordinator of the virtual display and audio device on Windows      *)
(* (remote_access.rs): a thread that looks for physical devices from time  *)
(* to time, creates a virtual one when there is none for a while and gives *)
(* it up when a physical one is there for a while.  A remote desktop that  *)
(* opens wakes it, waits for its answer and reads the status it published. *)
(***************************************************************************)
EXTENDS Naturals, FiniteSets

CONSTANTS
  Kinds,       \* the kinds of devices; the first, "display", decides whether a desktop opens
  Requests,    \* the remote desktops that open
  None,
  Fast,        \* the time between two looks while a device starts
  MissingFor,  \* how long none is there before one is created
  PresentFor,  \* how long one is there before the virtual one is given up
  Slow,        \* the time between two looks otherwise
  RetryAfter,  \* the time after a creation that failed; none is shorter than one above
  MaxChanges   \* bound on the changes of the hardware, of failed looks and creations

VARIABLES
  real,     \* [kind -> a physical device is there]
  up,       \* [kind -> the virtual device works]
  at,       \* what the thread is doing: "wait", "probe" or "probed"
  due,      \* the time until its next look
  seen,     \* [kind -> what the last look found]
  track,    \* [kind -> PresenceHysteresis, its instants as ages]
  lease,    \* [kind -> a virtual device is kept]
  code,     \* [kind -> "starting", "failed" or None]
  retry,    \* [kind -> the time until a creation may be tried again]
  status,   \* [kind -> what was published]
  asker,    \* [request -> what it is doing]
  changes,  \* the changes so far
  (* history, read by no action *)
  steady,   \* [kind -> the time in which hardware, looks and creations had no change]
  probed,   \* the requests made before the last look
  covered,  \* and before the look the published status is of
  last,     \* [kind -> the time since a look found a physical device, and since one found none]
  hasty     \* whether a virtual device was created or given up too early

thread  == <<at, due, seen, probed>>
devices == <<track, lease, code, retry>>
past    == <<covered, last, hasty>>
vars    == <<real, up, thread, devices, status, asker, changes, steady, past>>

Limit == 2 * Slow + PresentFor

Init ==
  /\ real \in [Kinds -> BOOLEAN] /\ up = [k \in Kinds |-> FALSE]
  /\ at = "probe" /\ due = 0 /\ seen = [k \in Kinds |-> "unknown"]
  /\ track = [k \in Kinds |-> [started |-> FALSE, missing |-> None, present |-> None]]
  /\ lease = [k \in Kinds |-> FALSE] /\ code = [k \in Kinds |-> None]
  /\ retry = [k \in Kinds |-> 0] /\ status = [k \in Kinds |-> "unknown"]
  /\ asker = [r \in Requests |-> "none"] /\ changes = 0
  /\ steady = [k \in Kinds |-> 0] /\ probed = {} /\ covered = {}
  /\ last = [k \in Kinds |-> [physical |-> None, none |-> None]] /\ hasty = FALSE

-----------------------------------------------------------------------------
(* The computer *)

Counted == changes < MaxChanges /\ changes' = changes + 1

Plug(k) ==
  /\ Counted /\ real' = [real EXCEPT ![k] = ~@] /\ steady' = [steady EXCEPT ![k] = 0]
  /\ UNCHANGED <<up, thread, devices, status, asker, past>>

Work(k) ==
  /\ lease[k] /\ ~up[k] /\ up' = [up EXCEPT ![k] = TRUE]
  /\ UNCHANGED <<real, thread, devices, status, asker, changes, steady, past>>

\* Time passes while the thread waits; the time it takes to create a device is not
\* counted.  An age that makes no difference any more is left at its bound.
Older(age, bound) == IF age = None \/ age = bound THEN age ELSE age + 1
Pass ==
  /\ at = "wait" /\ due > 0 /\ due' = due - 1
  /\ track' = [k \in Kinds |-> [track[k] EXCEPT !.missing = Older(@, MissingFor),
                                                !.present = Older(@, PresentFor)]]
  /\ retry' = [k \in Kinds |-> IF retry[k] = 0 THEN 0 ELSE retry[k] - 1]
  /\ steady' = [k \in Kinds |-> Older(steady[k], Limit + 1)]
  /\ last' = [k \in Kinds |-> [last[k] EXCEPT !.physical = Older(@, MissingFor),
                                              !.none = Older(@, PresentFor)]]
  /\ UNCHANGED <<real, up, at, seen, probed, lease, code, status, asker, changes, covered, hasty>>

-----------------------------------------------------------------------------
(* The thread *)

\* A wake, with all that follow it, or the end of the interval.
Wake ==
  /\ at = "wait" /\ at' = "probe"
  /\ due = 0 \/ \E r \in Requests : asker[r] \in {"asked", "withdrawn"}
  /\ asker' = [r \in Requests |-> CASE asker[r] = "asked"     -> "taken"
                                    [] asker[r] = "withdrawn" -> "refused"
                                    [] OTHER                  -> asker[r]]
  /\ UNCHANGED <<real, up, due, seen, probed, devices, status, changes, steady, past>>

Found(k) == IF real[k] THEN "physical" ELSE IF lease[k] /\ up[k] THEN "virtual" ELSE "nothing"
Probe ==
  /\ at = "probe" /\ at' = "probed"
  /\ probed' = {r \in Requests : asker[r] # "none"}
  /\ \/ seen' = [k \in Kinds |-> Found(k)] /\ UNCHANGED <<changes, steady>>
     \* The look at one kind fails, or at all.
     \/ /\ Counted
        /\ \E lost \in (SUBSET Kinds) \ {{}} :
             /\ seen' = [k \in Kinds |-> IF k \in lost THEN "unknown" ELSE Found(k)]
             /\ steady' = [k \in Kinds |-> IF k \in lost THEN 0 ELSE steady[k]]
  /\ UNCHANGED <<real, up, due, devices, status, asker, past>>

\* PresenceHysteresis::wants_lease: what it remembers, and what it says.
Tracked(k) ==
  LET t == track[k] IN
  IF seen[k] = "unknown" THEN t
  ELSE IF seen[k] = "physical"
  THEN [started |-> TRUE, missing |-> None, present |-> IF t.present = None THEN 0 ELSE t.present]
  ELSE [started |-> TRUE, present |-> None,
        missing |-> IF ~t.started \/ t.missing # None THEN t.missing ELSE 0]
Wanted(k) ==
  IF seen[k] = "physical" THEN lease[k] /\ Tracked(k).present < PresentFor
  ELSE ~track[k].started \/ lease[k] \/ Tracked(k).missing = MissingFor
Creates(k) == seen[k] # "unknown" /\ Wanted(k) /\ ~lease[k] /\ retry[k] = 0
GivesUp(k) == seen[k] # "unknown" /\ ~Wanted(k)

\* coordinated_component_status
Shown(k, leased, says) ==
  CASE seen[k] = "unknown"            -> "unknown"
    [] seen[k] = "physical"           -> "physical"
    [] seen[k] = "virtual" /\ leased  -> "virtual"
    [] seen[k] = "nothing" /\ leased  -> "starting"
    [] OTHER                          -> IF says = "failed" THEN "failed" ELSE "none"

\* One turn of run_windows_device_coordinator after the look; fails are the kinds that
\* could not be created.
Publish(fails) ==
  LET Made(k)   == Creates(k) /\ k \notin fails
      Leased(k) == ~GivesUp(k) /\ (lease[k] \/ Made(k))
      Says(k)   == IF GivesUp(k) THEN None
                   ELSE IF Made(k) THEN "starting" ELSE IF k \in fails THEN "failed" ELSE code[k]
      Code(k)   == IF seen[k] \in {"physical", "virtual"} /\ Leased(k) THEN None ELSE Says(k)
  IN
  /\ at = "probed" /\ at' = "wait"
  /\ fails \subseteq {k \in Kinds : Creates(k)}
  /\ IF fails = {} THEN UNCHANGED changes ELSE Counted
  /\ steady' = [k \in Kinds |-> IF k \in fails THEN 0 ELSE steady[k]]
  /\ track' = [k \in Kinds |-> Tracked(k)]
  /\ lease' = [k \in Kinds |-> Leased(k)]
  /\ up' = [k \in Kinds |-> up[k] /\ Leased(k)]
  /\ code' = [k \in Kinds |-> Code(k)]
  /\ retry' = [k \in Kinds |-> IF k \in fails THEN RetryAfter ELSE retry[k]]
  /\ status' = [k \in Kinds |-> Shown(k, Leased(k), Code(k))]
  /\ covered' = probed
  /\ hasty' = (hasty \/ \E k \in Kinds :
       \/ Made(k) /\ last[k].physical \in 0..MissingFor - 1
       \/ lease[k] /\ ~Leased(k) /\ last[k].none # PresentFor)
  /\ last' = [k \in Kinds |->
       CASE seen[k] = "unknown"  -> last[k]
         [] seen[k] = "physical" -> [last[k] EXCEPT !.physical = 0]
         [] OTHER                -> [last[k] EXCEPT !.none = 0]]
  /\ asker' = [r \in Requests |-> IF asker[r] = "taken" THEN "answered" ELSE asker[r]]
  /\ due' = IF \E k \in Kinds : Code(k) = "starting" THEN Fast ELSE Slow
  /\ UNCHANGED <<real, seen, probed>>

-----------------------------------------------------------------------------
(* A remote desktop that opens *)

Becomes(r, s) ==
  /\ asker' = [asker EXCEPT ![r] = s]
  /\ UNCHANGED <<real, up, thread, devices, status, changes, steady, past>>
Ask(r)     == asker[r] = "none" /\ Becomes(r, "asked")
TimeOut(r) == \/ asker[r] = "asked" /\ Becomes(r, "withdrawn")
              \/ asker[r] = "taken" /\ Becomes(r, "refused")
Opens      == status["display"] \in {"physical", "virtual", "starting"}
Open(r)    == asker[r] = "answered" /\ Becomes(r, IF Opens THEN "opened" ELSE "refused")

Next == \/ \E k \in Kinds : Plug(k) \/ Work(k)
        \/ Pass \/ Wake \/ Probe
        \/ \E fails \in SUBSET Kinds : Publish(fails)
        \/ \E r \in Requests : Ask(r) \/ TimeOut(r) \/ Open(r)

-----------------------------------------------------------------------------
(* Properties *)

Ages(bound) == 0..bound \cup {None}
TypeOK ==
  /\ real \in [Kinds -> BOOLEAN] /\ up \in [Kinds -> BOOLEAN] /\ lease \in [Kinds -> BOOLEAN]
  /\ at \in {"wait", "probe", "probed"} /\ due \in 0..Slow
  /\ \A k \in Kinds : /\ track[k].missing \in Ages(MissingFor)
                      /\ track[k].present \in Ages(PresentFor)
                      /\ up[k] => lease[k]
  /\ status \in [Kinds -> {"unknown", "physical", "virtual", "starting", "failed", "none"}]

\* A virtual device is not kept beside a physical one for ever, nor is none there: after
\* two intervals and the time it waits for, however often it is woken
\* (PresenceHysteresis, run_windows_device_coordinator).
FollowsHardware == \A k \in Kinds : lease[k] = real[k] => steady[k] <= Limit

\* A desktop that is answered reads the status of a look that was made after it asked
\* (ensure_ready_for_remote_desktop).
AnswersAreFresh == \A r \in Requests : asker[r] = "answered" => r \in covered

\* What is shown as virtual is kept, and a lease is given up for a physical device only.
ShownIsKept == \A k \in Kinds : status[k] \in {"virtual", "starting"} => lease[k]

\* A device that is away for less than MissingFor is not replaced, and the virtual one
\* survives one that is back for less than PresentFor (wants_lease).
NeverHasty == ~hasty

DevicesHold == TypeOK /\ FollowsHardware /\ AnswersAreFresh /\ ShownIsKept /\ NeverHasty
=============================================================================
