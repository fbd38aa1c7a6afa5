---------------------------- MODULE DesktopProofs ----------------------------
(***************************************************************************)
(* Theorems about what a remote desktop does on a Windows computer: for    *)
(* any kinds of devices, versions of drivers, keys and requests, any       *)
(* periods of the clock in the order of the code's, and however often the  *)
(* hardware, the desktop and the system change.                            *)
(***************************************************************************)
EXTENDS MCCommandJobs, SequenceTheorems, TLAPS

(***************************************************************************)
(* VirtualDevices.                                                         *)
(***************************************************************************)
Looks        == {"unknown", "physical", "virtual", "nothing"}
Tracks       == [started : BOOLEAN, missing : V!Ages(MissingFor), present : V!Ages(PresentFor)]
Lasts        == [physical : V!Ages(MissingFor), none : V!Ages(PresentFor)]
DeviceStates == {"unknown", "physical", "virtual", "starting", "failed", "none"}
AskPoints    == {"none", "asked", "withdrawn", "taken", "answered", "opened", "refused"}
DeviceTypes ==
  /\ real \in [Devices -> BOOLEAN] /\ works \in [Devices -> BOOLEAN]
  /\ lease \in [Devices -> BOOLEAN]
  /\ at \in {"wait", "probe", "probed"} /\ due \in 0 .. Slow
  /\ seen \in [Devices -> Looks] /\ track \in [Devices -> Tracks] /\ last \in [Devices -> Lasts]
  /\ retry \in [Devices -> 0 .. RetryAfter] /\ steady \in [Devices -> 0 .. V!Limit + 1]
  /\ shown \in [Devices -> DeviceStates] /\ asker \in [Requests -> AskPoints]
  /\ \A k \in Devices : works[k] => lease[k]

\* The time until the next look.
UntilLook == IF at = "wait" THEN due ELSE 0

\* What was found is so, unless something changed since.
LookIsTrue == at = "probed" =>
  \A k \in Devices : steady[k] > 0 => seen[k] # "unknown" /\ (seen[k] = "physical" <=> real[k])

\* How long a device may have been there, or away, by the age of what was found first.
Since(k, age, bound) ==
  IF age = None THEN steady[k] + UntilLook <= Slow
  ELSE (age < bound => steady[k] <= Slow + age) /\ steady[k] + UntilLook <= V!Limit
FollowsInTime == \A k \in Devices :
  /\ real[k] /\ lease[k] => Since(k, track[k].present, PresentFor)
  /\ ~real[k] /\ ~lease[k] => Since(k, track[k].missing, MissingFor)
  /\ retry[k] = 0 \/ retry[k] + steady[k] <= RetryAfter

\* Who is answered was there when the look was made.
AskedBefore == \A r \in Requests :
  /\ asker[r] = "answered" => r \in covered /\ (at = "probed" => r \in probed)
  /\ asker[r] = "taken" => at # "wait" /\ (at = "probed" => r \in probed)

\* Nothing is older than the looks it comes from.
Reaches(a, b) == a = None \/ (b # None => b >= a)
TracksFollowLooks == \A k \in Devices :
  /\ ~track[k].started => /\ track[k].missing = None /\ last[k].physical = None
                          /\ ~lease[k] /\ retry[k] = 0
  /\ Reaches(track[k].missing, last[k].physical) /\ Reaches(track[k].present, last[k].none)
  /\ lease[k] => last[k].none # None
IDevices == /\ DeviceTypes /\ LookIsTrue /\ FollowsInTime /\ AskedBefore /\ TracksFollowLooks
            /\ V!ShownIsKept /\ ~hasty

LEMMA DeviceBounds ==
  /\ Fast \in Nat /\ MissingFor \in Nat /\ PresentFor \in Nat /\ Slow \in Nat
  /\ RetryAfter \in Nat /\ MaxChanges \in Nat
  /\ 0 < Fast /\ Fast <= Slow /\ 0 < MissingFor /\ MissingFor <= PresentFor
  /\ RetryAfter <= Slow + PresentFor
  /\ V!Limit \in Nat /\ V!Limit = Slow + Slow + PresentFor
  /\ \A n \in Nat : n # None
<1>1. Slow \in Nat /\ PresentFor \in Nat
  BY DeviceAssumption DEF DevicesGiven
<1>2. 2 * Slow = Slow + Slow
  BY <1>1
<1>3. QED  BY <1>1, <1>2, DeviceAssumption DEF DevicesGiven, V!Limit

LEMMA AgesGrow ==
  ASSUME NEW b \in Nat, NEW a \in V!Ages(b)
  PROVE  /\ V!Older(a, b) \in V!Ages(b) /\ (V!Older(a, b) = None <=> a = None)
         /\ a # None => a \in Nat /\ V!Older(a, b) = IF a = b THEN a ELSE a + 1
BY DeviceBounds DEF V!Ages, V!Older

LEMMA InitDevices == V!Init => IDevices
<1> SUFFICES ASSUME V!Init PROVE IDevices
  OBVIOUS
<1>1. DeviceTypes
  BY DeviceBounds DEF V!Init, DeviceTypes, Looks, Tracks, Lasts, DeviceStates, AskPoints,
     V!Ages
<1>2. FollowsInTime
  BY DeviceBounds DEF V!Init, FollowsInTime, Since, UntilLook
<1>3. LookIsTrue /\ AskedBefore /\ TracksFollowLooks /\ V!ShownIsKept /\ ~hasty
  BY DEF V!Init, LookIsTrue, AskedBefore, TracksFollowLooks, Reaches, V!ShownIsKept
<1>4. QED  BY <1>1, <1>2, <1>3 DEF IDevices

LEMMA DevicesFollow == IDevices => V!DevicesHold
<1> SUFFICES ASSUME IDevices PROVE V!DevicesHold
  OBVIOUS
<1>1. V!TypeOK
  BY DEF IDevices, DeviceTypes, V!TypeOK, Tracks, DeviceStates
<1>2. V!FollowsHardware
  <2> SUFFICES ASSUME NEW k \in Devices, lease[k] = real[k] PROVE steady[k] <= V!Limit
    BY DEF V!FollowsHardware
  <2>1. /\ steady[k] \in Nat /\ due \in Nat /\ lease[k] \in BOOLEAN /\ real[k] \in BOOLEAN
        /\ UntilLook \in Nat
    BY DeviceBounds DEF IDevices, DeviceTypes, UntilLook
  <2>2. \E age, bound : Since(k, age, bound)
    BY <2>1 DEF IDevices, FollowsInTime
  <2>3. QED  BY <2>1, <2>2, DeviceBounds DEF Since
<1>3. V!AnswersAreFresh /\ V!ShownIsKept /\ V!NeverHasty
  BY DEF IDevices, AskedBefore, V!AnswersAreFresh, V!NeverHasty
<1>4. QED  BY <1>1, <1>2, <1>3 DEF V!DevicesHold

\* A step that leaves the clock, the thread and what it keeps alone, and after which
\* nothing changed for a while only where nothing did before.
LEMMA Unmoved ==
  ASSUME IDevices, UNCHANGED <<V!thread, V!devices, shown, last, hasty, covered>>,
         real' \in [Devices -> BOOLEAN], steady' \in [Devices -> 0 .. V!Limit + 1],
         works' \in [Devices -> BOOLEAN], \A k \in Devices : works'[k] => lease[k],
         \A k \in Devices : steady'[k] = 0 \/ (steady'[k] = steady[k] /\ real'[k] = real[k]),
         asker' \in [Requests -> AskPoints],
         \A r \in Requests : asker'[r] \in {"answered", "taken"} => asker'[r] = asker[r]
  PROVE  IDevices'
<1>0. UNCHANGED <<at, due, seen, probed, track, lease, code, retry>>
  BY DEF V!thread, V!devices
<1>1. DeviceTypes'
  BY <1>0 DEF IDevices, DeviceTypes
<1>2. LookIsTrue'
  BY <1>0 DEF IDevices, LookIsTrue
<1>3. FollowsInTime'
  <2> SUFFICES ASSUME NEW k \in Devices
               PROVE  /\ real'[k] /\ lease[k] => Since(k, track[k].present, PresentFor)'
                      /\ ~real'[k] /\ ~lease[k] => Since(k, track[k].missing, MissingFor)'
                      /\ retry[k] = 0 \/ retry[k] + steady'[k] <= RetryAfter
    BY <1>0 DEF FollowsInTime
  <2>1. /\ track[k].present \in V!Ages(PresentFor) /\ track[k].missing \in V!Ages(MissingFor)
        /\ due \in 0 .. Slow /\ UntilLook \in 0 .. Slow /\ retry[k] \in 0 .. RetryAfter
        /\ UntilLook' = UntilLook
    BY <1>0, DeviceBounds DEF IDevices, DeviceTypes, Tracks, UntilLook
  <2>2. CASE steady'[k] = steady[k] /\ real'[k] = real[k]
    BY <1>0, <2>1, <2>2 DEF IDevices, FollowsInTime, Since
  <2>3. CASE steady'[k] = 0
    BY <1>0, <2>1, <2>3, DeviceBounds DEF Since, V!Ages
  <2>4. QED  BY <2>2, <2>3
<1>4. AskedBefore'
  BY <1>0 DEF IDevices, AskedBefore
<1>5. TracksFollowLooks' /\ V!ShownIsKept' /\ ~hasty'
  BY <1>0 DEF IDevices, TracksFollowLooks, Reaches, V!ShownIsKept
<1>6. QED  BY <1>1, <1>2, <1>3, <1>4, <1>5 DEF IDevices

LEMMA ComputerKeeps ==
  ASSUME IDevices, NEW k \in Devices, V!Plug(k) \/ V!Work(k)
  PROVE  IDevices'
<1>0. IDevices /\ real \in [Devices -> BOOLEAN] /\ works \in [Devices -> BOOLEAN]
      /\ steady \in [Devices -> 0 .. V!Limit + 1] /\ (\A j \in Devices : works[j] => lease[j])
      /\ asker \in [Requests -> AskPoints] /\ 0 \in 0 .. V!Limit + 1
  BY DeviceBounds DEF IDevices, DeviceTypes
<1>1. CASE V!Plug(k)
  <2>1. /\ UNCHANGED <<V!thread, V!devices, shown, last, hasty, covered, works, asker>>
        /\ real' \in [Devices -> BOOLEAN] /\ steady' \in [Devices -> 0 .. V!Limit + 1]
        /\ \A j \in Devices :
             steady'[j] = 0 \/ (steady'[j] = steady[j] /\ real'[j] = real[j])
    BY <1>0, <1>1 DEF V!Plug, V!past
  <2>2. QED  BY <1>0, <2>1, Unmoved
<1>2. CASE V!Work(k)
  <2>1. /\ UNCHANGED <<V!thread, V!devices, shown, last, hasty, covered, real, steady, asker>>
        /\ works' \in [Devices -> BOOLEAN] /\ \A j \in Devices : works'[j] => lease[j]
    BY <1>0, <1>2 DEF V!Work, V!past
  <2>2. QED  BY <1>0, <2>1, Unmoved
<1>3. QED  BY <1>1, <1>2

LEMMA AskerKeeps ==
  ASSUME IDevices, NEW r \in Requests, V!Ask(r) \/ V!TimeOut(r) \/ V!Open(r)
  PROVE  IDevices'
<1>1. PICK s \in {"asked", "withdrawn", "refused", "opened"} : V!Becomes(r, s)
  BY DEF V!Ask, V!TimeOut, V!Open
<1>2. /\ UNCHANGED <<V!thread, V!devices, shown, last, hasty, covered, real, steady, works>>
      /\ asker' \in [Requests -> AskPoints]
      /\ \A x \in Requests : asker'[x] \in {"answered", "taken"} => asker'[x] = asker[x]
  BY <1>1 DEF V!Becomes, V!past, IDevices, DeviceTypes, AskPoints
<1>3. /\ real \in [Devices -> BOOLEAN] /\ works \in [Devices -> BOOLEAN]
      /\ steady \in [Devices -> 0 .. V!Limit + 1] /\ (\A j \in Devices : works[j] => lease[j])
  BY DEF IDevices, DeviceTypes
<1>4. QED  BY <1>2, <1>3, Unmoved

LEMMA PassKeeps == ASSUME IDevices, V!Pass PROVE IDevices'
<1>0. /\ UNCHANGED <<real, works, at, seen, probed, lease, code, shown, asker, covered, hasty>>
      /\ at = "wait" /\ due > 0 /\ due' = due - 1 /\ due \in 0 .. Slow
  BY DEF V!Pass, IDevices, DeviceTypes
<1>1. ASSUME NEW k \in Devices
      PROVE  /\ track[k] \in Tracks /\ last[k] \in Lasts
             /\ track'[k] = [track[k] EXCEPT !.missing = V!Older(@, MissingFor),
                                             !.present = V!Older(@, PresentFor)]
             /\ last'[k] = [last[k] EXCEPT !.physical = V!Older(@, MissingFor),
                                           !.none = V!Older(@, PresentFor)]
  BY DEF V!Pass, IDevices, DeviceTypes
<1>a. ASSUME NEW k \in Devices
      PROVE  /\ retry'[k] = IF retry[k] = 0 THEN 0 ELSE retry[k] - 1
             /\ steady'[k] = V!Older(steady[k], V!Limit + 1)
             /\ retry[k] \in Nat /\ retry[k] <= RetryAfter
             /\ steady[k] \in Nat /\ steady[k] <= V!Limit + 1
  <2>1. retry[k] \in 0 .. RetryAfter /\ steady[k] \in 0 .. V!Limit + 1
    BY DEF IDevices, DeviceTypes
  <2>2. /\ retry'[k] = IF retry[k] = 0 THEN 0 ELSE retry[k] - 1
        /\ steady'[k] = V!Older(steady[k], V!Limit + 1)
    BY DEF V!Pass
  <2>3. QED  BY <2>1, <2>2, DeviceBounds
<1>2. ASSUME NEW k \in Devices
      PROVE  /\ track'[k] \in Tracks /\ last'[k] \in Lasts
             /\ track'[k].started = track[k].started
             /\ track'[k].missing = V!Older(track[k].missing, MissingFor)
             /\ track'[k].present = V!Older(track[k].present, PresentFor)
             /\ last'[k].physical = V!Older(last[k].physical, MissingFor)
             /\ last'[k].none = V!Older(last[k].none, PresentFor)
  <2>1. /\ V!Older(track[k].missing, MissingFor) \in V!Ages(MissingFor)
        /\ V!Older(track[k].present, PresentFor) \in V!Ages(PresentFor)
        /\ V!Older(last[k].physical, MissingFor) \in V!Ages(MissingFor)
        /\ V!Older(last[k].none, PresentFor) \in V!Ages(PresentFor)
    BY <1>1, AgesGrow, DeviceBounds DEF Tracks, Lasts
  <2>2. QED  BY <1>1, <2>1 DEF Tracks, Lasts
<1>3. ASSUME NEW k \in Devices
      PROVE  /\ retry'[k] \in 0 .. RetryAfter /\ steady'[k] \in 0 .. V!Limit + 1
             /\ steady'[k] = IF steady[k] = V!Limit + 1 THEN steady[k] ELSE steady[k] + 1
  <2>1. steady[k] \in V!Ages(V!Limit + 1) /\ V!Limit + 1 \in Nat /\ steady[k] # None
    BY <1>a, DeviceBounds DEF V!Ages
  <2>2. steady'[k] = IF steady[k] = V!Limit + 1 THEN steady[k] ELSE steady[k] + 1
    BY <1>a, <2>1, AgesGrow
  <2>3. QED  BY <1>a, <2>1, <2>2, DeviceBounds
<1>4. DeviceTypes'
  <2>1. track' \in [Devices -> Tracks] /\ last' \in [Devices -> Lasts]
        /\ retry' \in [Devices -> 0 .. RetryAfter] /\ steady' \in [Devices -> 0 .. V!Limit + 1]
    BY <1>2, <1>3 DEF V!Pass
  <2>2. QED  BY <1>0, <2>1, DeviceBounds DEF IDevices, DeviceTypes
<1>5. FollowsInTime'
  <2> SUFFICES ASSUME NEW k \in Devices
               PROVE  /\ real[k] /\ lease[k] => Since(k, track[k].present, PresentFor)'
                      /\ ~real[k] /\ ~lease[k] => Since(k, track[k].missing, MissingFor)'
                      /\ retry'[k] = 0 \/ retry'[k] + steady'[k] <= RetryAfter
    BY <1>0 DEF FollowsInTime
  <2>1. UntilLook = due /\ UntilLook' = due - 1 /\ due \in Nat /\ due <= Slow
    BY <1>0, DeviceBounds DEF UntilLook
  <2>2. ASSUME NEW b \in Nat, NEW age \in V!Ages(b), NEW new, new = V!Older(age, b),
               b <= PresentFor, Since(k, age, b)
        PROVE  Since(k, new, b)'
    <3>1. CASE age = None
      <4>1. new = None
        BY <2>2, <3>1, AgesGrow
      <4>2. QED  BY <1>0, <1>a, <1>3, <2>1, <2>2, <3>1, <4>1, DeviceBounds DEF Since
    <3>2. CASE age # None
      <4>1. age \in Nat /\ new # None /\ new = (IF age = b THEN age ELSE age + 1)
        BY <2>2, <3>2, AgesGrow
      <4>2. steady[k] + due <= V!Limit /\ (age < b => steady[k] <= Slow + age)
        BY <2>1, <2>2, <3>2 DEF Since
      <4>3. steady[k] <= V!Limit - 1 /\ steady'[k] = steady[k] + 1
        BY <1>0, <1>a, <1>3, <2>1, <4>2, DeviceBounds
      <4>4. steady'[k] + UntilLook' <= V!Limit
        BY <1>a, <2>1, <4>2, <4>3, DeviceBounds
      <4>5. new < b => steady'[k] <= Slow + new
        BY <1>a, <2>2, <4>1, <4>2, <4>3, DeviceBounds
      <4>6. QED  BY <4>1, <4>4, <4>5 DEF Since
    <3>3. QED  BY <3>1, <3>2
  <2>3. /\ track[k].present \in V!Ages(PresentFor) /\ track[k].missing \in V!Ages(MissingFor)
        /\ MissingFor \in Nat /\ PresentFor \in Nat /\ MissingFor <= PresentFor
    BY <1>1, DeviceBounds DEF Tracks
  <2>4. real[k] /\ lease[k] => Since(k, track[k].present, PresentFor)'
    BY <1>2, <2>2, <2>3 DEF IDevices, FollowsInTime
  <2>5. ~real[k] /\ ~lease[k] => Since(k, track[k].missing, MissingFor)'
    BY <1>2, <2>2, <2>3 DEF IDevices, FollowsInTime
  <2>6. retry'[k] = 0 \/ retry'[k] + steady'[k] <= RetryAfter
    <3>1. retry[k] = 0 \/ retry[k] + steady[k] <= RetryAfter
      BY DEF IDevices, FollowsInTime
    <3>2. QED  BY <1>a, <1>3, <3>1, DeviceBounds
  <2>7. QED  BY <2>4, <2>5, <2>6
<1>6. LookIsTrue' /\ AskedBefore' /\ V!ShownIsKept' /\ ~hasty'
  BY <1>0 DEF IDevices, LookIsTrue, AskedBefore, V!ShownIsKept
<1>7. TracksFollowLooks'
  <2> SUFFICES ASSUME NEW k \in Devices
               PROVE  /\ ~track'[k].started =>
                           /\ track'[k].missing = None /\ last'[k].physical = None
                           /\ ~lease[k] /\ retry'[k] = 0
                      /\ Reaches(track[k].missing, last[k].physical)'
                      /\ Reaches(track[k].present, last[k].none)'
                      /\ lease[k] => last'[k].none # None
    BY <1>0 DEF TracksFollowLooks
  <2>1. /\ track[k].present \in V!Ages(PresentFor) /\ track[k].missing \in V!Ages(MissingFor)
        /\ last[k].none \in V!Ages(PresentFor) /\ last[k].physical \in V!Ages(MissingFor)
        /\ MissingFor \in Nat /\ PresentFor \in Nat
    BY <1>1, DeviceBounds DEF Tracks, Lasts
  <2>2. /\ ~track[k].started => /\ track[k].missing = None /\ last[k].physical = None
                                /\ ~lease[k] /\ retry[k] = 0
        /\ Reaches(track[k].missing, last[k].physical)
        /\ Reaches(track[k].present, last[k].none)
        /\ lease[k] => last[k].none # None
    BY DEF IDevices, TracksFollowLooks
  <2>3. ASSUME NEW b \in Nat, NEW x \in V!Ages(b), NEW y \in V!Ages(b), Reaches(x, y)
        PROVE  Reaches(V!Older(x, b), V!Older(y, b))
    <3>1. /\ (V!Older(x, b) = None <=> x = None) /\ (V!Older(y, b) = None <=> y = None)
          /\ x # None => x \in Nat /\ x <= b /\ V!Older(x, b) = IF x = b THEN x ELSE x + 1
          /\ y # None => y \in Nat /\ y <= b /\ V!Older(y, b) = IF y = b THEN y ELSE y + 1
      BY <2>3, AgesGrow DEF V!Ages
    <3>2. QED  BY <2>3, <3>1 DEF Reaches
  <2>4. /\ Reaches(V!Older(track[k].missing, MissingFor), V!Older(last[k].physical, MissingFor))
        /\ Reaches(V!Older(track[k].present, PresentFor), V!Older(last[k].none, PresentFor))
    BY <2>1, <2>2, <2>3
  <2>5. /\ Reaches(track[k].missing, last[k].physical)'
        /\ Reaches(track[k].present, last[k].none)'
    BY <1>2, <2>4 DEF Reaches
  <2>6. QED  BY <1>a, <1>2, <2>1, <2>2, <2>5, AgesGrow, DeviceBounds
<1>8. QED  BY <1>4, <1>5, <1>6, <1>7 DEF IDevices

LEMMA WakeKeeps == ASSUME IDevices, V!Wake PROVE IDevices'
<1>0. /\ UNCHANGED <<real, works, due, seen, probed, track, lease, code, retry, shown, steady,
                     covered, last, hasty>>
      /\ at = "wait" /\ at' = "probe"
      /\ asker' = [r \in Requests |-> CASE asker[r] = "asked"     -> "taken"
                                        [] asker[r] = "withdrawn" -> "refused"
                                        [] OTHER                  -> asker[r]]
  BY DEF V!Wake, V!devices, V!past
<1>1. DeviceTypes'
  BY <1>0 DEF IDevices, DeviceTypes, AskPoints
<1>2. FollowsInTime'
  <2>1. UntilLook' = 0 /\ UntilLook \in Nat /\ UntilLook' <= UntilLook
    BY <1>0, DeviceBounds DEF UntilLook, IDevices, DeviceTypes
  <2>2. ASSUME NEW k \in Devices, NEW age, NEW b, Since(k, age, b)
        PROVE  IF age = None THEN steady[k] + 0 <= Slow
               ELSE (age < b => steady[k] <= Slow + age) /\ steady[k] + 0 <= V!Limit
    <3>1. steady[k] \in Nat
      BY DeviceBounds DEF IDevices, DeviceTypes
    <3>2. QED  BY <2>1, <2>2, <3>1, DeviceBounds DEF Since
  <2>4. \A k \in Devices :
          /\ Since(k, track[k].present, PresentFor) => Since(k, track[k].present, PresentFor)'
          /\ Since(k, track[k].missing, MissingFor) => Since(k, track[k].missing, MissingFor)'
    BY <1>0, <2>1, <2>2 DEF Since
  <2>5. QED  BY <1>0, <2>4 DEF IDevices, FollowsInTime
<1>3. AskedBefore'
  BY <1>0 DEF IDevices, AskedBefore, DeviceTypes
<1>4. LookIsTrue' /\ TracksFollowLooks' /\ V!ShownIsKept' /\ ~hasty'
  BY <1>0 DEF IDevices, LookIsTrue, TracksFollowLooks, Reaches, V!ShownIsKept
<1>5. QED  BY <1>1, <1>2, <1>3, <1>4 DEF IDevices

LEMMA ProbeKeeps == ASSUME IDevices, V!Probe PROVE IDevices'
<1>0. /\ UNCHANGED <<real, works, due, track, lease, code, retry, shown, asker, covered, last,
                     hasty>>
      /\ at = "probe" /\ at' = "probed" /\ probed' = {r \in Requests : asker[r] # "none"}
  BY DEF V!Probe, V!devices, V!past
<1>1. PICK lost \in SUBSET Devices :
        /\ seen' = [k \in Devices |-> IF k \in lost THEN "unknown" ELSE V!Found(k)]
        /\ steady' = [k \in Devices |-> IF k \in lost THEN 0 ELSE steady[k]]
  <2>1. CASE seen' = [k \in Devices |-> V!Found(k)] /\ UNCHANGED <<changes, steady>>
    <3>1. steady = [k \in Devices |-> steady[k]]
      BY DEF IDevices, DeviceTypes
    <3>2. {} \in SUBSET Devices
      OBVIOUS
    <3>3. /\ seen' = [k \in Devices |-> IF k \in {} THEN "unknown" ELSE V!Found(k)]
          /\ steady' = [k \in Devices |-> IF k \in {} THEN 0 ELSE steady[k]]
      BY <2>1, <3>1
    <3>4. QED  BY <3>2, <3>3
  <2>2. QED  BY <2>1 DEF V!Probe
<1>2. \A k \in Devices : /\ V!Found(k) \in {"physical", "virtual", "nothing"}
                         /\ V!Found(k) = "physical" <=> real[k]
  BY DEF V!Found, IDevices, DeviceTypes
<1>3. DeviceTypes'
  <2>1. seen' \in [Devices -> Looks] /\ steady' \in [Devices -> 0 .. V!Limit + 1]
    BY <1>1, <1>2, DeviceBounds DEF IDevices, DeviceTypes, Looks
  <2>2. QED  BY <1>0, <2>1 DEF IDevices, DeviceTypes
<1>4. LookIsTrue'
  BY <1>0, <1>1, <1>2 DEF LookIsTrue
<1>5. FollowsInTime'
  <2> SUFFICES ASSUME NEW k \in Devices
               PROVE  /\ real[k] /\ lease[k] => Since(k, track[k].present, PresentFor)'
                      /\ ~real[k] /\ ~lease[k] => Since(k, track[k].missing, MissingFor)'
                      /\ retry[k] = 0 \/ retry[k] + steady'[k] <= RetryAfter
    BY <1>0 DEF FollowsInTime
  <2>1. /\ track[k].present \in V!Ages(PresentFor) /\ track[k].missing \in V!Ages(MissingFor)
        /\ UntilLook = 0 /\ UntilLook' = 0 /\ retry[k] \in 0 .. RetryAfter
        /\ steady'[k] = steady[k] \/ steady'[k] = 0
    BY <1>0, <1>1 DEF IDevices, DeviceTypes, Tracks, UntilLook
  <2>2. CASE steady'[k] = steady[k]
    BY <1>0, <2>1, <2>2 DEF IDevices, FollowsInTime, Since
  <2>3. CASE steady'[k] = 0
    BY <1>0, <2>1, <2>3, DeviceBounds DEF Since, V!Ages
  <2>4. QED  BY <2>1, <2>2, <2>3
<1>6. AskedBefore'
  BY <1>0 DEF IDevices, AskedBefore
<1>7. TracksFollowLooks' /\ V!ShownIsKept' /\ ~hasty'
  BY <1>0 DEF IDevices, TracksFollowLooks, Reaches, V!ShownIsKept
<1>8. QED  BY <1>3, <1>4, <1>5, <1>6, <1>7 DEF IDevices

\* What a turn of the coordinator does of each kind.
LEMMA PublishDoes ==
  ASSUME IDevices, NEW fails \in SUBSET Devices, V!Publish(fails), NEW k \in Devices
  PROVE  /\ track'[k] = V!Tracked(k) /\ (k \in fails => V!Creates(k))
         /\ lease'[k] = (~V!GivesUp(k) /\ (lease[k] \/ (V!Creates(k) /\ k \notin fails)))
         /\ retry'[k] = IF k \in fails THEN RetryAfter ELSE retry[k]
         /\ steady'[k] = IF k \in fails THEN 0 ELSE steady[k]
         /\ works'[k] => lease'[k]
         /\ \E says : shown'[k] = V!Shown(k, lease'[k], says)
         /\ last'[k] = CASE seen[k] = "unknown"  -> last[k]
                         [] seen[k] = "physical" -> [last[k] EXCEPT !.physical = 0]
                         [] OTHER                -> [last[k] EXCEPT !.none = 0]
BY DEF V!Publish

LEMMA TrackedIs ==
  ASSUME IDevices, NEW k \in Devices
  PROVE  /\ V!Tracked(k) \in Tracks
         /\ seen[k] = "unknown" => V!Tracked(k) = track[k]
         /\ seen[k] = "physical" =>
              /\ V!Tracked(k).started /\ V!Tracked(k).missing = None
              /\ V!Tracked(k).present = IF track[k].present = None THEN 0 ELSE track[k].present
         /\ seen[k] \notin {"unknown", "physical"} =>
              /\ V!Tracked(k).started /\ V!Tracked(k).present = None
              /\ V!Tracked(k).missing = IF ~track[k].started \/ track[k].missing # None
                                      THEN track[k].missing ELSE 0
<1>1. track[k] \in Tracks
  BY DEF IDevices, DeviceTypes
<1>2. 0 \in V!Ages(PresentFor) /\ 0 \in V!Ages(MissingFor) /\ None \in V!Ages(PresentFor)
      /\ None \in V!Ages(MissingFor)
  BY DeviceBounds DEF V!Ages
<1>3. QED  BY <1>1, <1>2 DEF V!Tracked, Tracks

LEMMA ZeroPlus == \A n \in Nat : 0 + n = n
OBVIOUS

LEMMA PublishFollows ==
  ASSUME IDevices, NEW fails \in SUBSET Devices, V!Publish(fails)
  PROVE  FollowsInTime'
<1>0. /\ at = "probed" /\ at' = "wait" /\ UNCHANGED <<real, seen, probed>>
      /\ due' \in Nat /\ due' <= Slow /\ UntilLook = 0 /\ UntilLook' = due'
  BY DeviceBounds DEF V!Publish, UntilLook
<1> SUFFICES ASSUME NEW k \in Devices
             PROVE  /\ real[k] /\ lease'[k] => Since(k, track[k].present, PresentFor)'
                    /\ ~real[k] /\ ~lease'[k] => Since(k, track[k].missing, MissingFor)'
                    /\ retry'[k] = 0 \/ retry'[k] + steady'[k] <= RetryAfter
  BY <1>0 DEF FollowsInTime
<1> DEFINE s == steady[k]
           a == track[k].present
           m == track[k].missing
<1>1. /\ track'[k] = V!Tracked(k) /\ (k \in fails => V!Creates(k))
      /\ lease'[k] = (~V!GivesUp(k) /\ (lease[k] \/ (V!Creates(k) /\ k \notin fails)))
      /\ retry'[k] = IF k \in fails THEN RetryAfter ELSE retry[k]
      /\ steady'[k] = IF k \in fails THEN 0 ELSE s
  BY PublishDoes
<1>2. /\ s \in Nat /\ retry[k] \in Nat /\ a \in V!Ages(PresentFor) /\ m \in V!Ages(MissingFor)
      /\ lease[k] \in BOOLEAN /\ real[k] \in BOOLEAN
      /\ track'[k].present \in V!Ages(PresentFor) /\ track'[k].missing \in V!Ages(MissingFor)
  BY <1>1, TrackedIs, DeviceBounds DEF IDevices, DeviceTypes, Tracks
<1>3. /\ a # None => a \in Nat /\ a <= PresentFor
      /\ m # None => m \in Nat /\ m <= MissingFor
      /\ track'[k].present # None => track'[k].present \in Nat
      /\ track'[k].missing # None => track'[k].missing \in Nat
  BY <1>2, DeviceBounds DEF V!Ages
<1>4. /\ real[k] /\ lease[k] => Since(k, a, PresentFor)
      /\ ~real[k] /\ ~lease[k] => Since(k, m, MissingFor)
      /\ retry[k] = 0 \/ retry[k] + s <= RetryAfter
  BY DEF IDevices, FollowsInTime
<1>5. CASE steady'[k] = 0
  <2>1. due' <= Slow /\ due' <= V!Limit
    <3>1. Slow \in Nat /\ V!Limit \in Nat /\ Slow <= V!Limit
      BY DeviceBounds
    <3>2. QED  BY <1>0, <3>1
  <2>b. steady'[k] + UntilLook' = due'
    <3>1. UntilLook' = due' /\ due' \in Nat /\ steady'[k] = 0
      BY <1>0, <1>5
    <3>2. 0 + due' = due'
      BY <3>1, ZeroPlus
    <3>3. QED  BY <3>1, <3>2
  <2>a. \A age \in Nat : 0 <= Slow + age
    BY DeviceBounds
  <2>2. /\ Since(k, track[k].present, PresentFor)' /\ Since(k, track[k].missing, MissingFor)'
    BY <1>0, <1>3, <1>5, <2>1, <2>a, <2>b DEF Since
  <2>3. retry'[k] = 0 \/ retry'[k] + steady'[k] <= RetryAfter
    BY <1>1, <1>2, <1>4, <1>5, DeviceBounds
  <2>4. QED  BY <2>2, <2>3
<1>6. CASE steady'[k] # 0
  <2>1. steady'[k] = s /\ s > 0 /\ k \notin fails /\ retry'[k] = retry[k]
    BY <1>1, <1>2, <1>6
  <2>2. seen[k] # "unknown" /\ (seen[k] = "physical" <=> real[k])
    BY <1>0, <2>1 DEF IDevices, LookIsTrue
  <2>3. ASSUME real[k], lease'[k]
        PROVE  Since(k, track[k].present, PresentFor)'
    <3>1. lease[k] /\ track'[k].present < PresentFor
      BY <1>1, <2>2, <2>3 DEF V!GivesUp, V!Wanted, V!Creates
    <3>2. track'[k].present = IF a = None THEN 0 ELSE a
      BY <1>1, <2>2, <2>3, TrackedIs
    <3>3. Since(k, a, PresentFor)
      BY <1>4, <2>3, <3>1
    <3>4. track'[k].present \in Nat /\ s <= Slow + track'[k].present
      <4>1. CASE a = None
        BY <1>0, <1>2, <3>2, <3>3, <4>1, DeviceBounds DEF Since
      <4>2. CASE a # None
        BY <1>0, <1>2, <1>3, <3>1, <3>2, <3>3, <4>2, DeviceBounds DEF Since
      <4>3. QED  BY <4>1, <4>2
    <3>5. s + due' <= V!Limit
      BY <1>0, <1>2, <3>1, <3>4, DeviceBounds
    <3>6. QED  BY <1>0, <2>1, <3>4, <3>5, DeviceBounds DEF Since
  <2>4. ASSUME ~real[k], ~lease'[k]
        PROVE  Since(k, track[k].missing, MissingFor)'
    <3>1. /\ ~lease[k] /\ seen[k] \notin {"unknown", "physical"}
          /\ V!Wanted(k) => retry[k] # 0
      BY <1>1, <2>1, <2>2, <2>4 DEF V!GivesUp, V!Wanted, V!Creates
    <3>2. Since(k, m, MissingFor)
      BY <1>4, <2>4, <3>1
    <3>3. track[k].started
      BY <3>1 DEF IDevices, TracksFollowLooks, V!Wanted
    <3>4. track'[k].missing = IF m # None THEN m ELSE 0
      BY <1>1, <3>1, <3>3, TrackedIs
    <3>5. track'[k].missing = MissingFor => retry[k] # 0
      BY <1>1, <3>1 DEF V!Wanted
    <3>6. CASE m = None
      <4>1. track'[k].missing = 0 /\ s <= Slow
        BY <1>0, <1>2, <3>2, <3>4, <3>6, DeviceBounds DEF Since
      <4>2. s <= Slow + 0 /\ s + due' <= V!Limit
        BY <1>0, <1>2, <4>1, DeviceBounds
      <4>3. QED  BY <1>0, <2>1, <4>1, <4>2, DeviceBounds DEF Since
    <3>7. CASE m # None
      <4>1. track'[k].missing = m /\ (m < MissingFor => s <= Slow + m)
        BY <3>2, <3>4, <3>7 DEF Since
      <4>2. s <= Slow + PresentFor
        BY <1>2, <1>3, <1>4, <3>5, <3>7, <4>1, DeviceBounds
      <4>3. s + due' <= V!Limit
        BY <1>0, <1>2, <4>2, DeviceBounds
      <4>4. QED  BY <1>0, <2>1, <3>7, <4>1, <4>3 DEF Since
    <3>8. QED  BY <3>6, <3>7
  <2>5. QED  BY <1>4, <2>1, <2>3, <2>4
<1>7. QED  BY <1>5, <1>6

LEMMA PublishTracks ==
  ASSUME IDevices, NEW fails \in SUBSET Devices, V!Publish(fails)
  PROVE  TracksFollowLooks' /\ V!ShownIsKept' /\ last' \in [Devices -> Lasts]
<1>1. ASSUME NEW k \in Devices
      PROVE  /\ last'[k] \in Lasts
             /\ seen[k] = "unknown" => last'[k] = last[k]
             /\ seen[k] = "physical" => /\ last'[k].physical = 0
                                        /\ last'[k].none = last[k].none
             /\ seen[k] \notin {"unknown", "physical"} =>
                  last'[k].none = 0 /\ last'[k].physical = last[k].physical
  <2>1. last[k] \in Lasts /\ 0 \in V!Ages(PresentFor) /\ 0 \in V!Ages(MissingFor)
    BY DeviceBounds DEF IDevices, DeviceTypes, V!Ages
  <2>2. /\ [last[k] EXCEPT !.physical = 0] \in Lasts
        /\ [last[k] EXCEPT !.physical = 0].physical = 0
        /\ [last[k] EXCEPT !.physical = 0].none = last[k].none
        /\ [last[k] EXCEPT !.none = 0] \in Lasts
        /\ [last[k] EXCEPT !.none = 0].none = 0
        /\ [last[k] EXCEPT !.none = 0].physical = last[k].physical
    BY <2>1 DEF Lasts
  <2>3. /\ seen[k] = "unknown" => last'[k] = last[k]
        /\ seen[k] = "physical" => last'[k] = [last[k] EXCEPT !.physical = 0]
        /\ seen[k] \notin {"unknown", "physical"} => last'[k] = [last[k] EXCEPT !.none = 0]
    BY PublishDoes
  <2>4. QED  BY <2>1, <2>2, <2>3
<1>2. TracksFollowLooks'
  <2> SUFFICES ASSUME NEW k \in Devices
               PROVE  /\ ~track'[k].started =>
                           /\ track'[k].missing = None /\ last'[k].physical = None
                           /\ ~lease'[k] /\ retry'[k] = 0
                      /\ Reaches(track[k].missing, last[k].physical)'
                      /\ Reaches(track[k].present, last[k].none)'
                      /\ lease'[k] => last'[k].none # None
    BY DEF TracksFollowLooks
  <2>1. /\ track'[k] = V!Tracked(k) /\ (k \in fails => V!Creates(k))
        /\ lease'[k] = (~V!GivesUp(k) /\ (lease[k] \/ (V!Creates(k) /\ k \notin fails)))
        /\ retry'[k] = IF k \in fails THEN RetryAfter ELSE retry[k]
    BY PublishDoes
  <2>2. /\ ~track[k].started => /\ track[k].missing = None /\ last[k].physical = None
                                /\ ~lease[k] /\ retry[k] = 0
        /\ Reaches(track[k].missing, last[k].physical)
        /\ Reaches(track[k].present, last[k].none)
        /\ lease[k] => last[k].none # None
        /\ last[k].physical # None => last[k].physical \in Nat
        /\ last[k].none # None => last[k].none \in Nat
    BY DeviceBounds DEF IDevices, TracksFollowLooks, DeviceTypes, Lasts, V!Ages
  <2>3. CASE seen[k] = "unknown"
    <3>1. track'[k] = track[k] /\ last'[k] = last[k] /\ k \notin fails
      BY <1>1, <2>1, <2>3, TrackedIs DEF V!Creates
    <3>2. lease'[k] = lease[k] /\ retry'[k] = retry[k]
      BY <2>1, <2>3, <3>1 DEF V!Creates, V!GivesUp, IDevices, DeviceTypes
    <3>3. QED  BY <2>2, <3>1, <3>2 DEF Reaches
  <2>4. CASE seen[k] = "physical"
    <3>1. /\ track'[k].started /\ track'[k].missing = None
          /\ track'[k].present = IF track[k].present = None THEN 0 ELSE track[k].present
          /\ last'[k].none = last[k].none
      BY <1>1, <2>1, <2>4, TrackedIs
    <3>2. lease'[k] => lease[k]
      BY <2>1, <2>4 DEF V!GivesUp, V!Wanted, V!Creates
    <3>3. Reaches(track[k].present, last[k].none)'
      BY <2>2, <3>1, DeviceBounds DEF Reaches
    <3>4. QED  BY <2>2, <3>1, <3>2, <3>3 DEF Reaches
  <2>5. CASE seen[k] \notin {"unknown", "physical"}
    <3>1. /\ track'[k].started /\ track'[k].present = None
          /\ track'[k].missing \in {track[k].missing, 0}
          /\ last'[k].none = 0 /\ last'[k].physical = last[k].physical
      BY <1>1, <2>1, <2>5, TrackedIs
    <3>2. Reaches(track[k].missing, last[k].physical)'
      BY <2>2, <3>1, DeviceBounds DEF Reaches
    <3>3. QED  BY <3>1, <3>2, DeviceBounds DEF Reaches
  <2>6. QED  BY <2>3, <2>4, <2>5
<1>3. V!ShownIsKept'
  <2> SUFFICES ASSUME NEW k \in Devices, shown'[k] \in {"virtual", "starting"} PROVE lease'[k]
    BY DEF V!ShownIsKept
  <2>1. PICK says : shown'[k] = V!Shown(k, lease'[k], says)
    BY PublishDoes
  <2>2. QED  BY <2>1 DEF V!Shown
<1>4. last' \in [Devices -> Lasts]
  BY <1>1 DEF V!Publish
<1>5. QED  BY <1>2, <1>3, <1>4

\* No device is created or given up too early.
LEMMA PublishPatient ==
  ASSUME IDevices, NEW fails \in SUBSET Devices, V!Publish(fails)
  PROVE  ~hasty'
<1>1. hasty' = (hasty \/ \E k \in Devices :
        \/ V!Creates(k) /\ k \notin fails /\ last[k].physical \in 0 .. MissingFor - 1
        \/ /\ lease[k] /\ last[k].none # PresentFor
           /\ ~(~V!GivesUp(k) /\ (lease[k] \/ (V!Creates(k) /\ k \notin fails))))
  BY DEF V!Publish
<1> SUFFICES ASSUME NEW k \in Devices
             PROVE  /\ V!Creates(k) => last[k].physical \notin 0 .. MissingFor - 1
                    /\ lease[k] /\ V!GivesUp(k) => last[k].none = PresentFor
  BY <1>1 DEF IDevices
<1>2. /\ ~track[k].started => last[k].physical = None
      /\ Reaches(track[k].missing, last[k].physical)
      /\ Reaches(track[k].present, last[k].none)
      /\ lease[k] => last[k].none # None
      /\ last[k].physical # None => last[k].physical \in Nat
      /\ last[k].none # None => last[k].none \in Nat /\ last[k].none <= PresentFor
      /\ track[k].present # None => track[k].present \in Nat
  BY DeviceBounds DEF IDevices, TracksFollowLooks, DeviceTypes, Lasts, Tracks, V!Ages
<1>3. ASSUME V!Creates(k)
      PROVE  last[k].physical \notin 0 .. MissingFor - 1
  <2>1. seen[k] \notin {"unknown", "physical"} /\ ~lease[k]
        /\ (~track[k].started \/ V!Tracked(k).missing = MissingFor)
    BY <1>3 DEF V!Creates, V!Wanted
  <2>2. CASE ~track[k].started
    BY <1>2, <2>2, DeviceBounds
  <2>3. CASE track[k].started
    <3>1. track[k].missing = MissingFor
      BY <2>1, <2>3, TrackedIs, DeviceBounds
    <3>2. last[k].physical = None \/ last[k].physical >= MissingFor
      BY <1>2, <3>1, DeviceBounds DEF Reaches
    <3>3. QED  BY <1>2, <3>2, DeviceBounds
  <2>4. QED  BY <2>2, <2>3
<1>4. ASSUME lease[k], V!GivesUp(k)
      PROVE  last[k].none = PresentFor
  <2>1. seen[k] = "physical" /\ ~(V!Tracked(k).present < PresentFor)
    BY <1>4 DEF V!GivesUp, V!Wanted
  <2>2. V!Tracked(k).present = IF track[k].present = None THEN 0 ELSE track[k].present
    BY <2>1, TrackedIs
  <2>3. track[k].present # None /\ track[k].present >= PresentFor
    BY <1>2, <2>1, <2>2, DeviceBounds
  <2>4. QED  BY <1>2, <1>4, <2>3, DeviceBounds DEF Reaches
<1>5. QED  BY <1>3, <1>4

LEMMA PublishKeeps ==
  ASSUME IDevices, NEW fails \in SUBSET Devices, V!Publish(fails)
  PROVE  IDevices'
<1>0. /\ at = "probed" /\ at' = "wait" /\ UNCHANGED <<real, seen, probed>>
      /\ due' \in 0 .. Slow /\ covered' = probed
      /\ asker' = [r \in Requests |-> IF asker[r] = "taken" THEN "answered" ELSE asker[r]]
  BY DeviceBounds DEF V!Publish
<1>1. FollowsInTime' /\ TracksFollowLooks' /\ V!ShownIsKept' /\ ~hasty' /\ LookIsTrue'
      /\ last' \in [Devices -> Lasts]
  BY <1>0, PublishFollows, PublishTracks, PublishPatient DEF LookIsTrue
<1>2. ASSUME NEW k \in Devices
      PROVE  /\ track'[k] \in Tracks /\ lease'[k] \in BOOLEAN /\ retry'[k] \in 0 .. RetryAfter
             /\ steady'[k] \in 0 .. V!Limit + 1 /\ shown'[k] \in DeviceStates
             /\ works'[k] \in BOOLEAN /\ (works'[k] => lease'[k])
  <2>1. /\ track'[k] \in Tracks /\ lease'[k] \in BOOLEAN /\ retry'[k] \in 0 .. RetryAfter
        /\ steady'[k] \in 0 .. V!Limit + 1 /\ (works'[k] => lease'[k])
    <3>1. retry[k] \in 0 .. RetryAfter /\ steady[k] \in 0 .. V!Limit + 1
      BY DEF IDevices, DeviceTypes
    <3>2. RetryAfter \in 0 .. RetryAfter /\ 0 \in 0 .. V!Limit + 1
      BY DeviceBounds
    <3>3. /\ track'[k] = V!Tracked(k) /\ (works'[k] => lease'[k])
          /\ retry'[k] \in {retry[k], RetryAfter} /\ steady'[k] \in {steady[k], 0}
      BY PublishDoes
    <3>4. lease'[k] \in BOOLEAN
      BY PublishDoes
    <3>5. QED  BY <3>1, <3>2, <3>3, <3>4, TrackedIs
  <2>2. shown'[k] \in DeviceStates
    BY PublishDoes DEF V!Shown, DeviceStates
  <2>3. works'[k] \in BOOLEAN
    BY DEF V!Publish
  <2>4. QED  BY <2>1, <2>2, <2>3
<1>3. /\ track' \in [Devices -> Tracks] /\ lease' \in [Devices -> BOOLEAN]
      /\ retry' \in [Devices -> 0 .. RetryAfter] /\ steady' \in [Devices -> 0 .. V!Limit + 1]
      /\ shown' \in [Devices -> DeviceStates] /\ works' \in [Devices -> BOOLEAN]
  BY <1>2 DEF V!Publish
<1>4. DeviceTypes'
  BY <1>0, <1>1, <1>2, <1>3 DEF IDevices, DeviceTypes, AskPoints
<1>5. AskedBefore'
  BY <1>0 DEF IDevices, AskedBefore, DeviceTypes
<1>6. QED  BY <1>1, <1>4, <1>5 DEF IDevices

LEMMA StepDevices == ASSUME IDevices, [V!Next]_V!vars PROVE IDevices'
<1>1. CASE UNCHANGED V!vars
  <2>1. /\ UNCHANGED <<V!thread, V!devices, shown, last, hasty, covered, real, steady, works, asker>>
        /\ real \in [Devices -> BOOLEAN] /\ works \in [Devices -> BOOLEAN]
        /\ steady \in [Devices -> 0 .. V!Limit + 1] /\ (\A j \in Devices : works[j] => lease[j])
        /\ asker \in [Requests -> AskPoints]
    BY <1>1 DEF V!vars, V!past, IDevices, DeviceTypes
  <2>2. QED  BY <2>1, Unmoved
<1>2. CASE V!Next
  BY <1>2, ComputerKeeps, PassKeeps, WakeKeeps, ProbeKeeps, PublishKeeps, AskerKeeps
     DEF V!Next
<1>3. QED  BY <1>1, <1>2

(***************************************************************************)
(* DriverStaging.                                                          *)
(***************************************************************************)
Undoing  == {"list", "remove", "pend"}
StagePoints == {"idle", "journal", "redo", "clear", "state", "probe", "finish", "plan", "begin",
                "add", "write", "uninstall", "delete", "erase"} \cup Undoing
Stages   == [at : StagePoints, goal : {"stage", "uninstall", None},
             from : {"journal", "state", "install", None},
             pre : SUBSET D!Packages, todo : SUBSET D!Packages, reboot : BOOLEAN,
             known : D!States \cup {None}]
StageTypes  == stager \in [D!Stagers -> Stages]
DriverTypes == D!TypeOK /\ StageTypes

\* Whoever works beside whom: what has settled is in every list of what was there before.
Spares(kept, st) == st # None /\ st.reboot => kept \subseteq st.pre
JournalSpares(kept, j) == j # None =>
  IF j.phase = "committing" THEN j.target # None /\ Spares(kept, j.target) ELSE kept \subseteq j.pre
StageSpares(kept, r) ==
  /\ r.at = "idle" => r = D!Idle
  /\ Spares(kept, r.known)
  /\ r.at \in Undoing \cup {"begin", "add"} => kept \subseteq r.pre
  /\ r.at = "remove" => r.todo \cap r.pre = {}
  /\ r.at \in {"redo", "write", "probe", "finish", "begin", "add"} => r.known # None
  /\ r.at \in {"probe", "finish"} => r.known.reboot
  /\ r.at \in {"begin", "add"} => ~r.known.reboot
  /\ r.at \in Undoing /\ r.from = "state" =>
       r.known # None /\ r.known.reboot /\ r.pre = r.known.pre
Spared == /\ D!SettledIsKept /\ Spares(settled, state) /\ JournalSpares(settled, journal)
          /\ \A s \in D!Stagers : StageSpares(settled, stager[s])
Settles == settled' = IF D!Quiet' THEN store' \ doomed'
                      ELSE IF D!Uninstalling THEN (settled \cap store') \ doomed' ELSE settled

LEMMA RecordsAreThere ==
  /\ \A st \in D!States : st # None
  /\ \A j \in D!Journals : j # None
  /\ \A p \in [versions : [D!Kinds -> Nat], names : SUBSET D!Packages] : p # None
BY DriverAssumption DEF DriversGiven

LEMMA IdleSpares == D!Idle \in Stages /\ \A kept : StageSpares(kept, D!Idle)
BY DEF D!Idle, Stages, StagePoints, StageSpares, Spares, Undoing

\* Nothing new settles while something is pending, and when nothing is, nothing is undone.
LEMMA SparedFollows ==
  ASSUME DriverTypes, Spared, Settles, NEW s \in D!Stagers, NEW r \in Stages,
         stager' = [stager EXCEPT ![s] = r],
         store' \subseteq D!Packages, doomed' \subseteq store', boot' \in 1 .. MaxBoot,
         beside' \subseteq {"stage", "uninstall"},
         state' \in D!States \cup {None}, journal' \in D!Journals \cup {None},
         settled \subseteq store' \ doomed' \/ stager[s].at = "delete",
         Spares(settled, state'), JournalSpares(settled, journal'), StageSpares(settled, r)
  PROVE  DriverTypes' /\ Spared'
<1>1. /\ stager' \in [D!Stagers -> Stages] /\ stager'[s] = r
      /\ \A t \in D!Stagers : t # s => stager'[t] = stager[t]
  BY DEF DriverTypes, StageTypes
<1>2. \A t \in D!Stagers : StageSpares(settled, stager'[t])
  BY <1>1 DEF Spared
<1>3. CASE D!Quiet'
  <2>1. /\ settled' = store' \ doomed' /\ journal' = None /\ (state' # None => ~state'.reboot)
        /\ \A t \in D!Stagers : stager'[t].at = "idle"
    BY <1>3 DEF Settles, D!Quiet, D!Pending, D!At
  <2>2. \A t \in D!Stagers : StageSpares(settled', stager'[t])
    <3>1. \A t \in D!Stagers : stager'[t] = D!Idle
      BY <2>1, <1>2 DEF StageSpares
    <3>2. QED  BY <3>1, IdleSpares
  <2>3. QED  BY <1>1, <2>1, <2>2 DEF DriverTypes, StageTypes, D!TypeOK, Spared, D!SettledIsKept,
                Spares, JournalSpares
<1>4. CASE ~D!Quiet'
  <2>1. settled' \subseteq settled /\ settled' \subseteq store' \ doomed'
    <3>1. CASE D!Uninstalling
      BY <1>4, <3>1 DEF Settles
    <3>2. CASE ~D!Uninstalling
      <4>1. stager[s].at # "delete" /\ settled' = settled
        BY <1>4, <3>2 DEF Settles, D!Uninstalling, D!At
      <4>2. QED  BY <4>1
    <3>3. QED  BY <3>1, <3>2
  <2>2. /\ \A st : Spares(settled, st) => Spares(settled', st)
        /\ JournalSpares(settled', journal')
    BY <2>1 DEF Spares, JournalSpares
  <2>3. \A t \in D!Stagers : StageSpares(settled', stager'[t])
    BY <1>2, <2>1, <2>2 DEF StageSpares
  <2>4. QED  BY <1>1, <2>1, <2>2, <2>3 DEF DriverTypes, StageTypes, D!TypeOK, Spared, D!SettledIsKept
<1>5. QED  BY <1>3, <1>4

\* What a step needs of the process that takes it.
LEMMA StagerIs ==
  ASSUME DriverTypes, Spared, NEW s \in D!Stagers
  PROVE  /\ stager[s] \in Stages /\ StageSpares(settled, stager[s]) /\ D!SettledIsKept
         /\ doomed \subseteq store /\ store \subseteq D!Packages /\ boot \in 1 .. MaxBoot
         /\ boot \in Nat
         /\ beside \subseteq {"stage", "uninstall"} /\ state \in D!States \cup {None}
         /\ journal \in D!Journals \cup {None} /\ Spares(settled, state)
         /\ JournalSpares(settled, journal)
<1>1. boot \in Nat
  BY DriverAssumption DEF DriversGiven, DriverTypes, D!TypeOK
<1>2. QED  BY <1>1 DEF DriverTypes, StageTypes, D!TypeOK, Spared

\* A step that leaves the computer, and the process with another record.
LEMMA RecordFollows ==
  ASSUME DriverTypes, Spared, Settles, UNCHANGED <<store, doomed, boot>>,
         beside' \subseteq {"stage", "uninstall"}, NEW s \in D!Stagers, NEW r \in Stages,
         stager' = [stager EXCEPT ![s] = r],
         state' \in D!States \cup {None}, journal' \in D!Journals \cup {None},
         Spares(settled, state'), JournalSpares(settled, journal'), StageSpares(settled, r)
  PROVE  DriverTypes' /\ Spared'
<1>1. /\ store' \subseteq D!Packages /\ doomed' \subseteq store' /\ boot' \in 1 .. MaxBoot
      /\ settled \subseteq store' \ doomed'
  BY DEF DriverTypes, D!TypeOK, Spared, D!SettledIsKept
<1>2. QED  BY <1>1, SparedFollows

LEMMA EndsSpares ==
  ASSUME DriverTypes, Spared, Settles, UNCHANGED D!Machine, NEW s \in D!Stagers, D!Ends(s),
         state' \in D!States \cup {None}, journal' \in D!Journals \cup {None},
         Spares(settled, state'), JournalSpares(settled, journal')
  PROVE  DriverTypes' /\ Spared'
BY IdleSpares, RecordFollows, StagerIs DEF D!Ends, D!Machine

LEMMA NewestIsNat == ASSUME NEW k \in D!Kinds, store \subseteq D!Packages PROVE D!Newest(k) \in Nat
<1> DEFINE vs == {q[2] : q \in {q \in store : q[1] = k}}
<1>1. vs \in SUBSET Carried[k]
  BY DEF D!Packages
<1>2. D!Newest(k) = IF vs = {} THEN 0 ELSE CHOOSE v \in vs : \A w \in vs : w <= v
  BY DEF D!Newest
<1>3. CASE vs # {}
  <2>1. \E v \in vs : \A w \in vs : w <= v
    BY <1>1, <1>3, DriverAssumption DEF DriversGiven
  <2>2. D!Newest(k) \in vs
    BY <1>2, <1>3, <2>1
  <2>3. QED  BY <1>1, <2>2, DriverAssumption DEF DriversGiven
<1>4. QED  BY <1>2, <1>3

LEMMA CalmIs ==
  ASSUME NEW vs \in [D!Kinds -> Nat], NEW names \in SUBSET D!Packages
  PROVE  /\ D!Calm(vs, names) \in D!States /\ D!Calm(vs, names).names = names
         /\ ~D!Calm(vs, names).reboot /\ D!Calm(vs, names).pre = {} /\ D!Calm(vs, names) # None
<1>1. D!Calm(vs, names) \in D!States
  BY DEF D!Calm, D!States
<1>2. QED  BY <1>1, RecordsAreThere DEF D!Calm

LEMMA PlannedIs ==
  ASSUME store \subseteq D!Packages, NEW bundle \in D!Bundles, NEW newer
  PROVE  [k \in D!Kinds |-> IF <<k, bundle[k]>> \in newer THEN bundle[k] ELSE D!Newest(k)]
           \in [D!Kinds -> Nat]
<1>1. \A k \in D!Kinds : bundle[k] \in Nat
  BY DriverAssumption DEF DriversGiven, D!Bundles
<1>2. QED  BY <1>1, NewestIsNat

LEMMA DraftIs ==
  ASSUME NEW versions \in [D!Kinds -> Nat], NEW was \in D!States \cup {None}
  PROVE  /\ D!Draft(versions, was) \in D!States /\ ~D!Draft(versions, was).reboot
         /\ D!Draft(versions, was) # None
         /\ D!Draft(versions, was).previous # None =>
              was # None /\ D!Draft(versions, was).previous.names = was.names
         /\ D!Draft(versions, was).previous = None => was = None
<1> DEFINE previous == IF was = None THEN None ELSE [versions |-> was.versions, names |-> was.names]
           draft    == D!Draft(versions, was)
<1>1. previous \in [versions : [D!Kinds -> Nat], names : SUBSET D!Packages] \cup {None}
  BY DEF D!States
<1>2. {} \in SUBSET D!Packages
  OBVIOUS
<1>3. D!Calm(versions, {}) \in D!States /\ ~D!Calm(versions, {}).reboot
  BY <1>2, CalmIs
<1>4. draft = [D!Calm(versions, {}) EXCEPT !.previous = previous]
  BY DEF D!Draft
<1>5. draft \in D!States /\ ~draft.reboot /\ draft.previous = previous
  BY <1>1, <1>3, <1>4 DEF D!States
<1>6. draft # None
  BY <1>5, RecordsAreThere
<1>7. was # None => previous # None
  <2> HIDE DEF previous
  <2>1. was # None => previous \in [versions : [D!Kinds -> Nat], names : SUBSET D!Packages]
    BY DEF previous, D!States
  <2>2. QED  BY <2>1, RecordsAreThere
<1>8. QED  BY <1>5, <1>6, <1>7

LEMMA ReadingSpares ==
  ASSUME DriverTypes, Spared, Settles, NEW s \in D!Stagers,
         \/ \E goal \in {"stage", "uninstall"} : D!Begin(s, goal)
         \/ D!ReadJournal(s) \/ D!ReadState(s)
         \/ \E bundle \in D!Bundles : D!Plan(s, bundle)
         \/ D!Fails(s) \/ D!ListNew(s) \/ D!NewRemoved(s) \/ D!Uninstall(s) \/ D!RecordedDeleted(s)
  PROVE  DriverTypes' /\ Spared'
<1> DEFINE me == stager[s]
<1>0. /\ me \in Stages /\ StageSpares(settled, me) /\ D!SettledIsKept /\ store \subseteq D!Packages
      /\ state \in D!States \cup {None} /\ journal \in D!Journals \cup {None}
      /\ Spares(settled, state) /\ JournalSpares(settled, journal)
  BY StagerIs
<1>1. ASSUME NEW r \in Stages, stager' = [stager EXCEPT ![s] = r], StageSpares(settled, r),
             UNCHANGED <<D!Files, D!Machine>>
      PROVE  DriverTypes' /\ Spared'
  BY <1>0, <1>1, RecordFollows, StagerIs DEF D!Files, D!Machine
<1>2. ASSUME D!Ends(s), UNCHANGED <<D!Files, D!Machine>>
      PROVE  DriverTypes' /\ Spared'
  BY <1>1, <1>2, IdleSpares DEF D!Ends
<1>3. CASE D!ReadJournal(s)
  <2>0. UNCHANGED <<D!Files, D!Machine>> /\ me.at = "journal"
    BY <1>3 DEF D!ReadJournal, D!At
  <2>1. CASE D!Goes(s, D!Recovered(s)) \/ D!Goes(s, "clear")
    <3>1. PICK where \in {"state", "uninstall", "clear"} :
            stager' = [stager EXCEPT ![s] = [me EXCEPT !.at = where]]
      BY <2>1 DEF D!Goes, D!Recovered
    <3>2. [me EXCEPT !.at = where] \in Stages /\ StageSpares(settled, [me EXCEPT !.at = where])
      BY <1>0 DEF Stages, StagePoints, StageSpares, Undoing
    <3>3. QED  BY <1>1, <2>0, <3>1, <3>2
  <2>2. CASE journal # None /\ journal.phase = "committing" /\ D!Learns(s, "redo", journal.target)
    <3>1. stager' = [stager EXCEPT ![s] = [me EXCEPT !.at = "redo", !.known = journal.target]]
      BY <2>2 DEF D!Learns
    <3>2. /\ [me EXCEPT !.at = "redo", !.known = journal.target] \in Stages
          /\ StageSpares(settled, [me EXCEPT !.at = "redo", !.known = journal.target])
      BY <1>0, <2>2 DEF Stages, StagePoints, StageSpares, Undoing, JournalSpares, D!Journals
    <3>3. QED  BY <1>1, <2>0, <3>1, <3>2
  <2>3. CASE journal # None /\ journal.phase # "committing" /\ D!UndoFor(s, "journal", journal.pre)
    <3> DEFINE r == [me EXCEPT !.at = "list", !.from = "journal", !.pre = journal.pre]
    <3>1. stager' = [stager EXCEPT ![s] = r]
      BY <2>3 DEF D!UndoFor
    <3>2. r \in Stages /\ StageSpares(settled, r)
      BY <1>0, <2>3 DEF Stages, StagePoints, StageSpares, Undoing, JournalSpares, D!Journals
    <3>3. QED  BY <1>1, <2>0, <3>1, <3>2
  <2>4. CASE D!Ends(s)
    BY <1>2, <2>0, <2>4
  <2>5. QED  BY <1>3, <2>1, <2>2, <2>3, <2>4 DEF D!ReadJournal
<1>4. CASE D!ReadState(s)
  <2>0. UNCHANGED <<D!Files, D!Machine>> /\ me.at = "state"
    BY <1>4 DEF D!ReadState, D!At
  <2> DEFINE r == [me EXCEPT !.at = "list", !.from = "state", !.pre = state.pre, !.known = state]
             Found(where) == stager' = [stager EXCEPT ![s] = [me EXCEPT !.at = where, !.known = state]]
  <2>1. \/ D!Ends(s)
        \/ Found("plan")
        \/ state # None /\ state.reboot /\ (Found("finish") \/ Found("probe"))
        \/ state # None /\ state.reboot /\ stager' = [stager EXCEPT ![s] = r]
    BY <1>4 DEF D!ReadState, D!Learns
  <2>2. CASE \E where \in {"plan", "finish", "probe"} :
               (where # "plan" => state # None /\ state.reboot) /\ Found(where)
    <3>1. PICK where \in {"plan", "finish", "probe"} :
            (where # "plan" => state # None /\ state.reboot) /\ Found(where)
      BY <2>2
    <3>2. /\ [me EXCEPT !.at = where, !.known = state] \in Stages
          /\ StageSpares(settled, [me EXCEPT !.at = where, !.known = state])
      BY <1>0, <3>1 DEF Stages, StagePoints, StageSpares, Undoing
    <3>3. QED  BY <1>1, <2>0, <3>1, <3>2
  <2>3. CASE state # None /\ state.reboot /\ stager' = [stager EXCEPT ![s] = r]
    <3>1. r \in Stages /\ StageSpares(settled, r)
      BY <1>0, <2>3 DEF Stages, StagePoints, StageSpares, Undoing, Spares, D!States
    <3>2. QED  BY <1>1, <2>0, <2>3, <3>1
  <2>4. QED  BY <1>2, <2>0, <2>1, <2>2, <2>3
<1>5. CASE D!Fails(s) \/ D!RecordedDeleted(s) \/ D!Uninstall(s)
  <2>0. UNCHANGED <<D!Files, D!Machine>>
    BY <1>5 DEF D!Fails, D!RecordedDeleted, D!Uninstall
  <2>1. CASE D!Ends(s)
    BY <1>2, <2>0, <2>1
  <2>2. CASE D!Goes(s, "erase")
    <3>1. stager' = [stager EXCEPT ![s] = [me EXCEPT !.at = "erase"]]
      BY <2>2 DEF D!Goes
    <3>2. [me EXCEPT !.at = "erase"] \in Stages /\ StageSpares(settled, [me EXCEPT !.at = "erase"])
      BY <1>0 DEF Stages, StagePoints, StageSpares, Undoing
    <3>3. QED  BY <1>1, <2>0, <3>1, <3>2
  <2> DEFINE r == [me EXCEPT !.at = "delete", !.todo = state.names \cap store, !.reboot = FALSE]
  <2>3. CASE stager' = [stager EXCEPT ![s] = r]
    <3>1. state.names \cap store \in SUBSET D!Packages
      BY <1>0
    <3>2. r \in Stages /\ StageSpares(settled, r)
      BY <1>0, <3>1 DEF Stages, StagePoints, StageSpares, Undoing
    <3>3. QED  BY <1>1, <2>0, <2>3, <3>2
  <2>4. QED  BY <1>5, <2>1, <2>2, <2>3 DEF D!Fails, D!RecordedDeleted, D!Uninstall
<1>6. CASE D!ListNew(s)
  <2>1. UNCHANGED <<D!Files, D!Machine>> /\ me.at = "list"
    BY <1>6 DEF D!ListNew, D!At
  <2> DEFINE r == [me EXCEPT !.at = "remove", !.todo = store \ me.pre, !.reboot = FALSE]
  <2>2. stager' = [stager EXCEPT ![s] = r]
    BY <1>6 DEF D!ListNew
  <2>3. store \ me.pre \in SUBSET D!Packages
    BY <1>0
  <2>4. r \in Stages /\ StageSpares(settled, r)
    BY <1>0, <2>1, <2>3 DEF Stages, StagePoints, StageSpares, Undoing
  <2>5. QED  BY <1>1, <2>1, <2>2, <2>4
<1>7. CASE D!NewRemoved(s)
  <2>0. UNCHANGED <<D!Files, D!Machine>> /\ me.at = "remove"
    BY <1>7 DEF D!NewRemoved, D!At
  <2>1. CASE D!Ends(s)
    BY <1>2, <2>0, <2>1
  <2>2. CASE ~D!Ends(s)
    <3>1. PICK where \in {"pend", "finish", "clear"} :
            /\ stager' = [stager EXCEPT ![s] = [me EXCEPT !.at = where]]
            /\ where = "finish" => me.from = "state"
      BY <1>7, <2>2 DEF D!NewRemoved, D!Goes
    <3>2. [me EXCEPT !.at = where] \in Stages /\ StageSpares(settled, [me EXCEPT !.at = where])
      BY <1>0, <2>0, <3>1 DEF Stages, StagePoints, StageSpares, Undoing
    <3>3. QED  BY <1>1, <2>0, <3>1, <3>2
  <2>3. QED  BY <2>1, <2>2
<1>8. ASSUME NEW bundle \in D!Bundles, D!Plan(s, bundle)  PROVE DriverTypes' /\ Spared'
  <2>0. UNCHANGED <<D!Files, D!Machine>> /\ me.at = "plan"
    BY <1>8 DEF D!Plan, D!At
  <2>1. CASE D!Ends(s)
    BY <1>2, <2>0, <2>1
  <2> DEFINE newer    == {p \in D!Packages : p[2] = bundle[p[1]] /\ p[2] > D!Newest(p[1])}
             versions == [k \in D!Kinds |-> IF <<k, bundle[k]>> \in newer THEN bundle[k]
                                            ELSE D!Newest(k)]
             draft    == D!Draft(versions, me.known)
             r        == [me EXCEPT !.at = "begin", !.from = "install", !.pre = store,
                                    !.todo = newer, !.reboot = FALSE, !.known = draft]
  <2>2. CASE ~D!Ends(s)
    <3>1. stager' = [stager EXCEPT ![s] = r]
      BY <1>8, <2>2 DEF D!Plan
    <3>2. draft \in D!States /\ ~draft.reboot /\ draft # None
      <4>1. me.known \in D!States \cup {None}
        BY <1>0 DEF Stages
      <4>2. versions \in [D!Kinds -> Nat]
        BY <1>0, <1>8, PlannedIs
      <4> HIDE DEF versions
      <4>3. QED  BY <4>1, <4>2, DraftIs
    <3>3. newer \in SUBSET D!Packages
      OBVIOUS
    <3> HIDE DEF newer, draft
    <3>4. r \in Stages
      BY <1>0, <3>2, <3>3 DEF Stages, StagePoints
    <3>5. StageSpares(settled, r)
      BY <1>0, <3>2 DEF StageSpares, Undoing, Spares, D!SettledIsKept, Stages
    <3>6. QED  BY <1>1, <2>0, <3>1, <3>4, <3>5
  <2>3. QED  BY <2>1, <2>2
<1>9. ASSUME NEW goal \in {"stage", "uninstall"}, D!Begin(s, goal)
      PROVE  DriverTypes' /\ Spared'
  <2> DEFINE r == [D!Idle EXCEPT !.at = "journal", !.goal = goal]
  <2>1. /\ stager' = [stager EXCEPT ![s] = r]
        /\ UNCHANGED <<store, doomed, boot, state, journal>>
        /\ beside' \subseteq {"stage", "uninstall"}
    BY <1>9, StagerIs DEF D!Begin, D!Files
  <2>2. r \in Stages /\ StageSpares(settled, r)
    BY DEF Stages, StagePoints, StageSpares, Undoing, Spares, D!Idle
  <2>3. QED  BY <1>0, <2>1, <2>2, RecordFollows
<1>10. QED  BY <1>3, <1>4, <1>5, <1>6, <1>7, <1>8, <1>9

\* The steps that write a file.
LEMMA WritingSpares ==
  ASSUME DriverTypes, Spared, Settles, NEW s \in D!Stagers,
         \/ D!RedoCommit(s) \/ D!WriteState(s) \/ D!ClearJournal(s) \/ D!PendReboot(s)
         \/ D!FinishRollback(s) \/ D!BeginInstall(s) \/ D!Commit(s) \/ D!EraseData(s)
         \/ \E verdict \in {"healthy", "pending", "failed"} : D!ProbeDevices(s, verdict)
  PROVE  DriverTypes' /\ Spared'
<1> DEFINE me == stager[s]
<1>0. /\ me \in Stages /\ StageSpares(settled, me) /\ D!SettledIsKept /\ store \subseteq D!Packages
      /\ state \in D!States \cup {None} /\ journal \in D!Journals \cup {None}
      /\ Spares(settled, state) /\ JournalSpares(settled, journal) /\ boot \in Nat
      /\ beside \subseteq {"stage", "uninstall"} /\ Spares(settled, None) /\ JournalSpares(settled, None)
      /\ me.known \in D!States \cup {None} /\ Spares(settled, me.known)
      /\ me.pre \in SUBSET D!Packages
  BY StagerIs DEF Spares, JournalSpares, Stages, StageSpares
<1>1. ASSUME NEW r \in Stages, stager' = [stager EXCEPT ![s] = r], StageSpares(settled, r),
             UNCHANGED D!Machine,
             state' \in D!States \cup {None}, journal' \in D!Journals \cup {None},
             Spares(settled, state'), JournalSpares(settled, journal')
      PROVE  DriverTypes' /\ Spared'
  BY <1>0, <1>1, RecordFollows DEF D!Machine
<1>2. ASSUME NEW where \in {"clear", "add", "idle"}, UNCHANGED D!Machine,
             IF where = "idle" THEN D!Ends(s) ELSE D!Goes(s, where),
             where = "add" => me.at = "begin",
             state' \in D!States \cup {None}, journal' \in D!Journals \cup {None},
             Spares(settled, state'), JournalSpares(settled, journal')
      PROVE  DriverTypes' /\ Spared'
  <2>1. CASE where = "idle"
    BY <1>1, <1>2, <2>1, IdleSpares DEF D!Ends
  <2>2. CASE where # "idle"
    <3>1. stager' = [stager EXCEPT ![s] = [me EXCEPT !.at = where]]
      BY <1>2, <2>2 DEF D!Goes
    <3>2. [me EXCEPT !.at = where] \in Stages /\ StageSpares(settled, [me EXCEPT !.at = where])
      BY <1>0, <1>2, <2>2 DEF Stages, StagePoints, StageSpares, Undoing
    <3>3. QED  BY <1>1, <1>2, <3>1, <3>2
  <2>3. QED  BY <2>1, <2>2
<1>3. CASE D!RedoCommit(s) \/ D!WriteState(s)
  <2>1. /\ state' = me.known /\ me.known # None /\ UNCHANGED D!Machine /\ journal' = journal
        /\ D!Goes(s, "clear")
    BY <1>0, <1>3 DEF D!RedoCommit, D!WriteState, D!At, StageSpares
  <2>2. QED  BY <1>0, <1>2, <2>1
<1>4. CASE D!ClearJournal(s)
  <2>1. UNCHANGED D!Machine /\ state' = state /\ journal' = None
    BY <1>4 DEF D!ClearJournal
  <2>2. CASE D!Ends(s)
    BY <1>0, <1>2, <2>1, <2>2
  <2>3. CASE ~D!Ends(s)
    <3>1. PICK where \in {"state", "uninstall"} :
            stager' = [stager EXCEPT ![s] = [D!Idle EXCEPT !.at = where, !.goal = me.goal]]
      BY <1>4, <2>3 DEF D!ClearJournal, D!Recovered
    <3>2. /\ [D!Idle EXCEPT !.at = where, !.goal = me.goal] \in Stages
          /\ StageSpares(settled, [D!Idle EXCEPT !.at = where, !.goal = me.goal])
      BY <1>0 DEF Stages, StagePoints, StageSpares, Undoing, D!Idle, Spares
    <3>3. QED  BY <1>0, <1>1, <2>1, <3>1, <3>2
  <2>4. QED  BY <2>2, <2>3
<1>5. CASE D!PendReboot(s)
  <2>1. UNCHANGED D!Machine /\ D!Ends(s) /\ me.at = "pend"
    BY <1>5 DEF D!PendReboot, D!At
  <2>2. CASE me.from = "state"
    <3>1. /\ state' = [me.known EXCEPT !.reboot = TRUE, !.boot = boot, !.phase = "rollback"]
          /\ journal' = journal /\ me.known # None /\ me.known \in D!States
          /\ me.pre = me.known.pre /\ settled \subseteq me.pre
      BY <1>0, <1>5, <2>1, <2>2 DEF D!PendReboot, StageSpares, Undoing
    <3>2. state' \in D!States /\ state'.pre = me.known.pre
      BY <1>0, <3>1 DEF D!States
    <3>3. QED  BY <1>0, <1>2, <2>1, <3>1, <3>2 DEF Spares
  <2>3. CASE me.from # "state"
    <3>1. /\ journal' = [phase |-> "rollback_reboot_pending", pre |-> me.pre, boot |-> boot,
                         target |-> None]
          /\ state' = state /\ settled \subseteq me.pre
      BY <1>0, <1>5, <2>1, <2>3 DEF D!PendReboot, StageSpares, Undoing
    <3>2. journal' \in D!Journals
      BY <1>0, <3>1 DEF D!Journals
    <3>3. JournalSpares(settled, journal')
      BY <3>1 DEF JournalSpares
    <3>4. QED  BY <1>0, <1>2, <2>1, <3>1, <3>2, <3>3
  <2>4. QED  BY <2>2, <2>3
<1>6. CASE D!FinishRollback(s)
  <2>1. UNCHANGED D!Machine /\ journal' = journal /\ me.known \in D!States
    BY <1>0, <1>6 DEF D!FinishRollback, D!At, StageSpares
  <2>2. PICK vs \in [D!Kinds -> Nat], names \in SUBSET D!Packages : state' = D!Calm(vs, names)
    BY <1>0, <1>6, <2>1 DEF D!FinishRollback, D!States
  <2>3. state' \in D!States /\ ~state'.reboot
    BY <2>2, CalmIs
  <2>4. stager' = [stager EXCEPT ![s] = [D!Idle EXCEPT !.at = "plan", !.goal = me.goal,
                                                      !.known = state']]
    BY <1>6 DEF D!FinishRollback
  <2>5. [D!Idle EXCEPT !.at = "plan", !.goal = me.goal, !.known = state'] \in Stages
    BY <1>0, <2>3 DEF Stages, StagePoints, D!Idle
  <2>6. Spares(settled, state')
    BY <2>3 DEF Spares
  <2>7. StageSpares(settled, [D!Idle EXCEPT !.at = "plan", !.goal = me.goal, !.known = state'])
    BY <2>6 DEF StageSpares, Undoing, D!Idle
  <2>8. QED  BY <1>0, <1>1, <2>1, <2>3, <2>4, <2>5, <2>6, <2>7
<1>7. CASE D!BeginInstall(s)
  <2>1. /\ UNCHANGED D!Machine /\ me.at = "begin" /\ D!Goes(s, "add") /\ state' = state
        /\ journal' = [phase |-> "installing", pre |-> me.pre, boot |-> 0, target |-> None]
        /\ settled \subseteq me.pre
    BY <1>0, <1>7 DEF D!BeginInstall, D!At, StageSpares
  <2>2. journal' \in D!Journals /\ JournalSpares(settled, journal')
    BY <1>0, <2>1 DEF D!Journals, JournalSpares
  <2>3. QED  BY <1>0, <1>2, <2>1, <2>2
<1>8. CASE D!Commit(s)
  <2> DEFINE to == D!Target(s, store)
  <2>1. /\ UNCHANGED D!Machine /\ me.at = "add" /\ state' = state
        /\ journal' = [phase |-> "committing", pre |-> me.pre, boot |-> 0, target |-> to]
        /\ stager' = [stager EXCEPT ![s] = [me EXCEPT !.at = "write", !.known = to]]
        /\ settled \subseteq me.pre /\ me.known \in D!States /\ ~me.known.reboot
    BY <1>0, <1>8 DEF D!Commit, D!CommitWith, D!Learns, D!At, StageSpares
  <2>2. to \in D!States /\ Spares(settled, to)
    BY <1>0, <2>1 DEF D!Target, D!States, Spares
  <2>3. to # None
    BY <2>2, RecordsAreThere
  <2> HIDE DEF to
  <2>4. journal' \in D!Journals /\ JournalSpares(settled, journal')
    BY <1>0, <2>1, <2>2, <2>3 DEF D!Journals, JournalSpares
  <2>5. /\ [me EXCEPT !.at = "write", !.known = to] \in Stages
        /\ StageSpares(settled, [me EXCEPT !.at = "write", !.known = to])
    BY <1>0, <2>2, <2>3 DEF Stages, StagePoints, StageSpares, Undoing
  <2>6. QED  BY <1>0, <1>1, <2>1, <2>4, <2>5
<1>9. CASE D!EraseData(s)
  <2>1. UNCHANGED D!Machine /\ D!Ends(s) /\ state' = None /\ journal' = None
    BY <1>9 DEF D!EraseData
  <2>2. QED  BY <1>0, <1>2, <2>1
<1>10. ASSUME NEW verdict \in {"healthy", "pending", "failed"}, D!ProbeDevices(s, verdict)
       PROVE  DriverTypes' /\ Spared'
  <2>1. /\ UNCHANGED D!Machine /\ journal' = journal /\ me.known \in D!States
        /\ me.known.reboot
    BY <1>0, <1>10 DEF D!ProbeDevices, D!At, StageSpares
  <2>2. CASE /\ state' = D!Calm([k \in D!Kinds |-> D!Newest(k)], me.known.names)
             /\ D!Learns(s, "plan", state')
    <3>1. /\ [k \in D!Kinds |-> D!Newest(k)] \in [D!Kinds -> Nat]
          /\ me.known.names \in SUBSET D!Packages
      BY <1>0, <2>1, NewestIsNat DEF D!States
    <3>2. state' \in D!States /\ ~state'.reboot
      BY <2>2, <3>1, CalmIs
    <3>3. stager' = [stager EXCEPT ![s] = [me EXCEPT !.at = "plan", !.known = state']]
      BY <2>2 DEF D!Learns
    <3>4. /\ [me EXCEPT !.at = "plan", !.known = state'] \in Stages
          /\ StageSpares(settled, [me EXCEPT !.at = "plan", !.known = state'])
          /\ Spares(settled, state')
      BY <1>0, <3>2 DEF Stages, StagePoints, StageSpares, Undoing, Spares
    <3>5. QED  BY <1>0, <1>1, <2>1, <3>2, <3>3, <3>4
  <2>3. CASE D!Ends(s) /\ state' = state
    BY <1>0, <1>2, <2>1, <2>3
  <2>4. CASE D!UndoFor(s, "state", me.known.pre) /\ state' = state
    <3> DEFINE r == [me EXCEPT !.at = "list", !.from = "state", !.pre = me.known.pre]
    <3>1. stager' = [stager EXCEPT ![s] = r]
      BY <2>4 DEF D!UndoFor
    <3>2. me.known # None /\ me.known.pre \in SUBSET D!Packages
      BY <2>1, RecordsAreThere DEF D!States
    <3>3. r \in Stages /\ StageSpares(settled, r)
      BY <1>0, <2>1, <3>2 DEF Stages, StagePoints, StageSpares, Undoing, Spares
    <3>4. QED  BY <1>0, <1>1, <2>1, <2>4, <3>1, <3>3
  <2>5. QED  BY <1>10, <2>2, <2>3, <2>4 DEF D!ProbeDevices
<1>11. QED  BY <1>3, <1>4, <1>5, <1>6, <1>7, <1>8, <1>9, <1>10

\* The steps that change what is in the store.
LEMMA StoreSpares ==
  ASSUME DriverTypes, Spared, Settles, NEW s \in D!Stagers,
         \E p \in D!Packages :
           \/ \E exit \in {"done", "reboot"} : D!RemoveNew(s, p, exit) \/ D!DeleteRecorded(s, p, exit)
           \/ \E exit \in {"done", "reboot", "failed"} : D!AddPackage(s, p, exit)
  PROVE  DriverTypes' /\ Spared'
<1> DEFINE me == stager[s]
<1>0. /\ me \in Stages /\ StageSpares(settled, me) /\ settled \subseteq store \ doomed
      /\ store \subseteq D!Packages /\ doomed \subseteq store /\ boot \in 1 .. MaxBoot
      /\ state \in D!States \cup {None} /\ journal \in D!Journals \cup {None}
      /\ Spares(settled, state) /\ JournalSpares(settled, journal)
      /\ beside \subseteq {"stage", "uninstall"}
  BY StagerIs DEF D!SettledIsKept
<1>1. ASSUME NEW p \in D!Packages, NEW exit \in {"done", "reboot"}, D!Delete(s, p, exit),
             me.at = "remove" \/ me.at = "delete"
      PROVE  DriverTypes' /\ Spared'
  <2> DEFINE r == [me EXCEPT !.todo = @ \ {p}, !.reboot = @ \/ exit = "reboot"]
  <2>1. /\ stager' = [stager EXCEPT ![s] = r] /\ UNCHANGED <<boot, beside, state, journal>>
        /\ p \in me.todo /\ store' \subseteq store /\ doomed' \subseteq store'
        /\ (store \ doomed) \ {p} \subseteq store' \ doomed'
    BY <1>0, <1>1 DEF D!Delete, D!Files
  <2>2. r \in Stages
    BY <1>0, <1>1 DEF Stages
  <2>3. StageSpares(settled, r)
    BY <1>0, <1>1, <2>1 DEF StageSpares, Stages, Undoing
  <2>4. settled \subseteq store' \ doomed' \/ me.at = "delete"
    BY <1>0, <1>1, <2>1 DEF StageSpares, Undoing
  <2>5. store' \subseteq D!Packages
    BY <1>0, <2>1
  <2>6. QED  BY <1>0, <2>1, <2>2, <2>3, <2>4, <2>5, SparedFollows
<1>2. ASSUME NEW p \in D!Packages, NEW exit \in {"done", "reboot", "failed"},
             D!AddPackage(s, p, exit)
      PROVE  DriverTypes' /\ Spared'
  <2>1. /\ UNCHANGED <<boot, beside, state, journal>> /\ me.at = "add"
        /\ store \subseteq store' /\ store' \subseteq store \cup {p} /\ doomed' = doomed \ {p}
    BY <1>2 DEF D!AddPackage, D!At, D!Files
  <2>2. store' \subseteq D!Packages /\ doomed' \subseteq store' /\ settled \subseteq store' \ doomed'
    BY <1>0, <2>1
  <2>3. CASE exit = "failed"
    <3> DEFINE r == [me EXCEPT !.at = "list", !.from = "install", !.pre = me.pre]
    <3>1. stager' = [stager EXCEPT ![s] = r]
      BY <1>2, <2>3 DEF D!AddPackage, D!UndoFor
    <3>2. r \in Stages /\ StageSpares(settled, r)
      BY <1>0, <2>1 DEF Stages, StagePoints, Undoing, StageSpares
    <3>3. QED  BY <1>0, <2>1, <2>2, <3>1, <3>2, SparedFollows
  <2>4. CASE exit # "failed"
    <3> DEFINE r == [me EXCEPT !.todo = @ \ {p}, !.reboot = @ \/ exit = "reboot"]
    <3>1. stager' = [stager EXCEPT ![s] = r]
      BY <1>2, <2>4 DEF D!AddPackage
    <3>2. r \in Stages
      BY <1>0 DEF Stages
    <3>3. StageSpares(settled, r)
      BY <1>0, <2>1 DEF Stages, Undoing, StageSpares
    <3>4. QED  BY <1>0, <2>1, <2>2, <3>1, <3>2, <3>3, SparedFollows
  <2>5. QED  BY <2>3, <2>4
<1>3. QED  BY <1>1, <1>2 DEF D!RemoveNew, D!DeleteRecorded, D!At

(***************************************************************************)
(* One process that is alone at work.                                      *)
(***************************************************************************)
Recorded == IF state = None THEN {} ELSE state.names
IsCalm   == state # None => ~state.reboot
Only(w)  == \A t \in D!Stagers : t # w => stager[t] = D!Idle

\* What is undone if a state that waits for a reboot turns out not to work.
CanReturn(st) ==
  st # None /\ st.reboot /\ st.previous # None => st.pre \cap store \subseteq st.previous.names \cup doomed

\* What is in the store is recorded, or the journal says what becomes of it: the state it
\* names, or the packages that were there before.
FilesAgree ==
  /\ CanReturn(state)
  /\ journal = None => store \subseteq Recorded \cup doomed
  /\ journal # None =>
       IF journal.phase = "committing"
       THEN store \subseteq journal.target.names \cup doomed /\ CanReturn(journal.target)
       ELSE IsCalm /\ journal.pre \cap store \subseteq Recorded \cup doomed

\* What each step finds: the journal, the state as it was read, and what a rollback, an
\* installation or an uninstallation found when it began.
FilesAreUsed(w) ==
  /\ stager[w].at \in {"state", "probe", "finish", "plan", "begin", "uninstall", "delete", "erase"} =>
       journal = None
  /\ stager[w].at \in {"redo", "write"} =>
       journal # None /\ journal.phase = "committing" /\ stager[w].known = journal.target
  /\ stager[w].at = "clear" => journal # None /\ store \subseteq Recorded \cup doomed
  /\ stager[w].at \in {"plan", "begin"} => IsCalm
  /\ stager[w].at \in {"probe", "finish"} => state # None /\ state.reboot
  /\ stager[w].at \in {"probe", "finish", "plan"} => stager[w].known = state
  /\ stager[w].at = "finish" => store \subseteq state.pre
UndoIsBound(w) ==
  /\ stager[w].at \in Undoing =>
       IF stager[w].from = "state"
       THEN journal = None /\ state # None /\ state.reboot /\ stager[w].known = state
       ELSE journal # None /\ journal.phase # "committing" /\ stager[w].pre = journal.pre
  /\ stager[w].at = "remove" /\ ~stager[w].reboot => store \subseteq stager[w].pre \cup stager[w].todo
InstallIsBound(w) ==
  /\ stager[w].at \in {"begin", "add"} =>
       /\ stager[w].todo \cap stager[w].pre = {}
       /\ stager[w].known.previous # None =>
            state # None /\ stager[w].known.previous.names = state.names
       /\ stager[w].known.previous = None => state = None
  /\ stager[w].at = "add" =>
       journal # None /\ journal.phase = "installing" /\ stager[w].pre = journal.pre
DeleteIsBound(w) ==
  /\ stager[w].at = "delete" => state # None /\ state.names \cap store \subseteq stager[w].todo \cup doomed
  /\ stager[w].at = "erase" => store \subseteq doomed
Bound(w) == FilesAreUsed(w) /\ UndoIsBound(w) /\ InstallIsBound(w) /\ DeleteIsBound(w)
Alone(w) == Only(w) /\ FilesAgree /\ Bound(w)

LEMMA AloneFollows ==
  ASSUME DriverTypes, NEW w \in D!Stagers, Only(w), NEW r, stager' = [stager EXCEPT ![w] = r],
         stager'[w] = r => FilesAgree' /\ Bound(w)'
  PROVE  Alone(w)'
<1>1. stager'[w] = r /\ \A t \in D!Stagers : t # w => stager'[t] = stager[t]
  BY DEF DriverTypes, StageTypes
<1>2. QED  BY <1>1 DEF Alone, Only

\* A step that only the record of the process tells of.
LEMMA AloneReads ==
  ASSUME DriverTypes, NEW w \in D!Stagers, Alone(w), NEW r, stager' = [stager EXCEPT ![w] = r],
         UNCHANGED <<D!Files, D!Machine>>, stager'[w] = r => Bound(w)'
  PROVE  Alone(w)'
<1>1. UNCHANGED <<store, doomed, boot, state, journal>>
  BY DEF D!Files, D!Machine
<1>2. FilesAgree'
  BY <1>1 DEF Alone, FilesAgree, CanReturn, Recorded, IsCalm
<1>3. QED  BY <1>2, AloneFollows DEF Alone

LEMMA AloneEnds ==
  ASSUME DriverTypes, NEW w \in D!Stagers, Alone(w), D!Ends(w),
         UNCHANGED D!Machine, FilesAgree'
  PROVE  Alone(w)'
<1>1. stager' = [stager EXCEPT ![w] = D!Idle]
  BY DEF D!Ends
<1>2. stager'[w] = D!Idle => Bound(w)'
  BY DEF D!Idle, Bound, FilesAreUsed, UndoIsBound, InstallIsBound, DeleteIsBound, Undoing
<1>3. QED  BY <1>1, <1>2, AloneFollows DEF Alone

LEMMA NewerIsNew ==
  ASSUME store \subseteq D!Packages, NEW p \in store
  PROVE  ~(p[2] > D!Newest(p[1]))
<1> DEFINE k == p[1]
           vs == {q[2] : q \in {q \in store : q[1] = k}}
<1>1. /\ p[1] \in D!Kinds /\ p[2] \in Carried[p[1]]
      /\ \A q \in store : q[1] \in D!Kinds /\ q[2] \in Carried[q[1]]
  BY DEF D!Packages
<1>2. p[2] \in vs /\ vs \in SUBSET Carried[k] /\ vs # {}
  BY <1>1
<1>3. PICK v \in vs : \A w \in vs : w <= v
  BY <1>1, <1>2, DriverAssumption DEF DriversGiven
<1>4. D!Newest(k) = CHOOSE u \in vs : \A w \in vs : w <= u
  BY <1>2 DEF D!Newest
<1>5. D!Newest(k) \in vs /\ \A w \in vs : w <= D!Newest(k)
  BY <1>3, <1>4
<1>6. D!Newest(k) \in Nat /\ p[2] \in Nat /\ p[2] <= D!Newest(k)
  BY <1>1, <1>2, <1>5, DriverAssumption DEF DriversGiven
<1>7. QED  BY <1>6

LEMMA ReadingAlone ==
  ASSUME DriverTypes, Spared, NEW w \in D!Stagers, Alone(w),
         \/ D!ReadJournal(w) \/ D!ReadState(w)
         \/ \E bundle \in D!Bundles : D!Plan(w, bundle)
         \/ D!Fails(w) \/ D!ListNew(w) \/ D!NewRemoved(w) \/ D!Uninstall(w) \/ D!RecordedDeleted(w)
  PROVE  Alone(w)'
<1> DEFINE me == stager[w]
<1> USE DEF Bound, FilesAreUsed, UndoIsBound, InstallIsBound, DeleteIsBound, Undoing
<1>0. /\ me \in Stages /\ StageSpares(settled, me) /\ store \subseteq D!Packages
      /\ state \in D!States \cup {None} /\ journal \in D!Journals \cup {None}
      /\ FilesAgree /\ Bound(w) /\ UNCHANGED <<D!Files, D!Machine>>
      /\ UNCHANGED <<store, doomed, boot, state, journal>>
  BY StagerIs DEF Alone, D!ReadJournal, D!ReadState, D!Plan, D!Fails, D!ListNew, D!NewRemoved,
     D!Uninstall, D!RecordedDeleted, D!Files, D!Machine
<1>1. ASSUME NEW r, stager' = [stager EXCEPT ![w] = r], stager'[w] = r => Bound(w)'
      PROVE  Alone(w)'
  BY <1>0, <1>1, AloneReads
<1>2. CASE D!Ends(w)
  <2>1. FilesAgree'
    BY <1>0 DEF FilesAgree, CanReturn, Recorded, IsCalm
  <2>2. QED  BY <1>0, <1>2, <2>1, AloneEnds
<1>3. CASE D!ReadJournal(w) /\ ~D!Ends(w)
  <2>0. me.at = "journal"
    BY <1>3 DEF D!ReadJournal, D!At
  <2>1. CASE journal = None /\ D!Goes(w, D!Recovered(w))
    <3>1. PICK where \in {"state", "uninstall"} :
            stager' = [stager EXCEPT ![w] = [me EXCEPT !.at = where]]
      BY <2>1 DEF D!Goes, D!Recovered
    <3>2. stager'[w] = [me EXCEPT !.at = where] => Bound(w)'
      BY <1>0, <2>0, <2>1 DEF Stages
    <3>3. QED  BY <1>1, <3>1, <3>2
  <2>2. CASE journal # None /\ journal.phase = "committing" /\ D!Learns(w, "redo", journal.target)
    <3>1. stager' = [stager EXCEPT ![w] = [me EXCEPT !.at = "redo", !.known = journal.target]]
      BY <2>2 DEF D!Learns
    <3>2. stager'[w] = [me EXCEPT !.at = "redo", !.known = journal.target] => Bound(w)'
      BY <1>0, <2>2 DEF Stages
    <3>3. QED  BY <1>1, <3>1, <3>2
  <2>3. CASE journal # None /\ journal.phase # "committing" /\ D!UndoFor(w, "journal", journal.pre)
    <3>1. stager' = [stager EXCEPT ![w] = [me EXCEPT !.at = "list", !.from = "journal",
                                                     !.pre = journal.pre]]
      BY <2>3 DEF D!UndoFor
    <3>2. stager'[w] = [me EXCEPT !.at = "list", !.from = "journal", !.pre = journal.pre] => Bound(w)'
      BY <1>0, <2>3 DEF Stages
    <3>3. QED  BY <1>1, <3>1, <3>2
  <2>4. CASE /\ journal # None /\ journal.phase # "committing" /\ store \subseteq journal.pre
             /\ D!Goes(w, "clear")
    <3>1. stager' = [stager EXCEPT ![w] = [me EXCEPT !.at = "clear"]]
      BY <2>4 DEF D!Goes
    <3>2. store \subseteq Recorded \cup doomed
      BY <1>0, <2>4 DEF FilesAgree
    <3>3. stager'[w] = [me EXCEPT !.at = "clear"] => Bound(w)'
      BY <1>0, <2>4, <3>2 DEF Stages, Recorded
    <3>4. QED  BY <1>1, <3>1, <3>3
  <2>5. QED  BY <1>3, <2>1, <2>2, <2>3, <2>4 DEF D!ReadJournal
<1>4. CASE D!ReadState(w) /\ ~D!Ends(w)
  <2>0. me.at = "state" /\ journal = None
    BY <1>0, <1>4 DEF D!ReadState, D!At
  <2> DEFINE Found(where) == stager' = [stager EXCEPT ![w] = [me EXCEPT !.at = where, !.known = state]]
             r == [me EXCEPT !.at = "list", !.from = "state", !.pre = state.pre, !.known = state]
             Fits(where) == IF where = "plan" THEN IsCalm
                            ELSE /\ state # None /\ state.reboot
                                 /\ where = "finish" => store \subseteq state.pre
  <2>1. \/ \E where \in {"plan", "finish", "probe"} : Fits(where) /\ Found(where)
        \/ state # None /\ state.reboot /\ stager' = [stager EXCEPT ![w] = r]
    BY <1>4 DEF D!ReadState, D!Learns, IsCalm
  <2>2. ASSUME NEW where \in {"plan", "finish", "probe"}, Fits(where), Found(where)
        PROVE  Alone(w)'
    <3>1. stager'[w] = [me EXCEPT !.at = where, !.known = state] => Bound(w)'
      BY <1>0, <2>0, <2>2 DEF Stages, IsCalm
    <3>2. QED  BY <1>1, <2>2, <3>1
  <2>3. CASE state # None /\ state.reboot /\ stager' = [stager EXCEPT ![w] = r]
    <3>1. stager'[w] = r => Bound(w)'
      BY <1>0, <2>0, <2>3 DEF Stages
    <3>2. QED  BY <1>1, <2>3, <3>1
  <2>4. QED  BY <2>1, <2>2, <2>3
<1>5. CASE (D!RecordedDeleted(w) \/ D!Uninstall(w)) /\ ~D!Ends(w)
  <2>1. CASE D!Goes(w, "erase")
    <3>1. stager' = [stager EXCEPT ![w] = [me EXCEPT !.at = "erase"]]
      BY <2>1 DEF D!Goes
    <3>2. journal = None /\ store \subseteq doomed
      <4>1. CASE D!RecordedDeleted(w)
        <5>1. me.at = "delete" /\ me.todo = {}
          BY <4>1 DEF D!RecordedDeleted, D!At
        <5>2. QED  BY <1>0, <5>1 DEF FilesAgree, Recorded
      <4>2. CASE ~D!RecordedDeleted(w)
        <5>1. me.at = "uninstall"
          BY <1>5, <4>2 DEF D!Uninstall, D!At
        <5>2. state = None \/ stager'[w].at # "erase"
          BY <1>0, <1>5, <4>2 DEF D!Uninstall, DriverTypes, StageTypes, Stages
        <5>3. stager'[w].at = "erase"
          BY <1>0, <3>1 DEF DriverTypes, StageTypes, Stages
        <5>4. QED  BY <1>0, <5>1, <5>2, <5>3 DEF FilesAgree, Recorded
      <4>3. QED  BY <4>1, <4>2
    <3>3. stager'[w] = [me EXCEPT !.at = "erase"] => Bound(w)'
      BY <1>0, <3>2 DEF Stages
    <3>4. QED  BY <1>1, <3>1, <3>3
  <2> DEFINE r == [me EXCEPT !.at = "delete", !.todo = state.names \cap store, !.reboot = FALSE]
  <2>2. CASE ~D!Goes(w, "erase")
    <3>1. stager' = [stager EXCEPT ![w] = r] /\ state # None /\ me.at = "uninstall"
      BY <1>5, <2>2 DEF D!RecordedDeleted, D!Uninstall, D!At
    <3>2. stager'[w] = r => Bound(w)'
      BY <1>0, <3>1 DEF Stages
    <3>3. QED  BY <1>1, <3>1, <3>2
  <2>3. QED  BY <2>1, <2>2
<1>6. CASE D!ListNew(w)
  <2> DEFINE r == [me EXCEPT !.at = "remove", !.todo = store \ me.pre, !.reboot = FALSE]
  <2>1. stager' = [stager EXCEPT ![w] = r] /\ me.at = "list"
    BY <1>6 DEF D!ListNew, D!At
  <2>2. stager'[w] = r => Bound(w)'
    BY <1>0, <2>1 DEF Stages
  <2>3. QED  BY <1>1, <2>1, <2>2
<1>7. CASE D!NewRemoved(w) /\ ~D!Ends(w)
  <2>1. PICK where \in {"pend", "finish", "clear"} :
          /\ stager' = [stager EXCEPT ![w] = [me EXCEPT !.at = where]]
          /\ where # "pend" => ~me.reboot /\ (where = "finish" <=> me.from = "state")
    BY <1>7 DEF D!NewRemoved, D!Goes
  <2>2. me.at = "remove" /\ me.todo = {}
    BY <1>7 DEF D!NewRemoved, D!At
  <2>3. where # "pend" => store \subseteq me.pre
    BY <1>0, <2>1, <2>2
  <2>4. where = "clear" => store \subseteq Recorded \cup doomed
    BY <1>0, <2>1, <2>2, <2>3 DEF FilesAgree
  <2>5. me.from = "state" => state.pre = me.pre
    BY <1>0, <2>2 DEF StageSpares
  <2>6. stager'[w] = [me EXCEPT !.at = where] => Bound(w)'
    BY <1>0, <2>1, <2>2, <2>3, <2>4, <2>5 DEF Stages, Recorded
  <2>7. QED  BY <1>1, <2>1, <2>6
<1>8. ASSUME NEW bundle \in D!Bundles, D!Plan(w, bundle), ~D!Ends(w)  PROVE Alone(w)'
  <2> DEFINE newer    == {p \in D!Packages : p[2] = bundle[p[1]] /\ p[2] > D!Newest(p[1])}
             versions == [k \in D!Kinds |-> IF <<k, bundle[k]>> \in newer THEN bundle[k]
                                            ELSE D!Newest(k)]
             draft    == D!Draft(versions, me.known)
             r        == [me EXCEPT !.at = "begin", !.from = "install", !.pre = store,
                                    !.todo = newer, !.reboot = FALSE, !.known = draft]
  <2>1. stager' = [stager EXCEPT ![w] = r] /\ me.at = "plan"
    BY <1>8 DEF D!Plan, D!At
  <2>2. newer \cap store = {}
    BY <1>0, NewerIsNew
  <2>3. /\ draft.previous # None => state # None /\ draft.previous.names = state.names
        /\ draft.previous = None => state = None
    <3>1. me.known = state
      BY <1>0, <2>1
    <3>2. versions \in [D!Kinds -> Nat]
      BY <1>0, <1>8, PlannedIs
    <3> HIDE DEF versions
    <3>3. QED  BY <1>0, <3>1, <3>2, DraftIs
  <2> HIDE DEF newer, draft
  <2>4. stager'[w] = r => Bound(w)'
    BY <1>0, <2>1, <2>2, <2>3 DEF Stages, IsCalm
  <2>5. QED  BY <1>1, <2>1, <2>4
<1>9. CASE D!Fails(w)
  BY <1>2, <1>9 DEF D!Fails
<1>10. QED  BY <1>2, <1>3, <1>4, <1>5, <1>6, <1>7, <1>8, <1>9

LEMMA WritingAlone ==
  ASSUME DriverTypes, Spared, NEW w \in D!Stagers, Alone(w),
         \/ D!RedoCommit(w) \/ D!WriteState(w) \/ D!ClearJournal(w) \/ D!PendReboot(w)
         \/ D!FinishRollback(w) \/ D!BeginInstall(w) \/ D!Commit(w) \/ D!EraseData(w)
         \/ \E verdict \in {"healthy", "pending", "failed"} : D!ProbeDevices(w, verdict)
  PROVE  Alone(w)'
<1> DEFINE me == stager[w]
<1> USE DEF Bound, FilesAreUsed, UndoIsBound, InstallIsBound, DeleteIsBound, Undoing
<1>0. /\ me \in Stages /\ StageSpares(settled, me) /\ store \subseteq D!Packages
      /\ state \in D!States \cup {None} /\ journal \in D!Journals \cup {None}
      /\ JournalSpares(settled, journal)
      /\ FilesAgree /\ Bound(w) /\ UNCHANGED D!Machine /\ UNCHANGED <<store, doomed, boot>>
      /\ me.known \in D!States \cup {None} /\ (\A st \in D!States : st # None) /\ Only(w)
  BY StagerIs, RecordsAreThere
     DEF Alone, D!RedoCommit, D!WriteState, D!ClearJournal, D!PendReboot, D!FinishRollback,
         D!BeginInstall, D!Commit, D!CommitWith, D!EraseData, D!ProbeDevices, D!Machine, Stages
<1>1. ASSUME NEW r, stager' = [stager EXCEPT ![w] = r], stager'[w] = r => FilesAgree' /\ Bound(w)'
      PROVE  Alone(w)'
  BY <1>0, <1>1, AloneFollows
<1>2. ASSUME D!Ends(w), FilesAgree'
      PROVE  Alone(w)'
  BY <1>0, <1>2, AloneEnds
<1>3. CASE D!RedoCommit(w) \/ D!WriteState(w)
  <2>1. /\ state' = me.known /\ journal' = journal /\ me.at \in {"redo", "write"}
        /\ stager' = [stager EXCEPT ![w] = [me EXCEPT !.at = "clear"]]
    BY <1>3 DEF D!RedoCommit, D!WriteState, D!At, D!Goes
  <2>2. /\ journal # None /\ journal.phase = "committing" /\ me.known = journal.target
        /\ journal.target # None
    BY <1>0, <2>1 DEF JournalSpares
  <2>3. FilesAgree' /\ store' \subseteq Recorded' \cup doomed'
    BY <1>0, <2>1, <2>2 DEF FilesAgree, CanReturn, Recorded
  <2>4. stager'[w] = [me EXCEPT !.at = "clear"] => Bound(w)'
    BY <1>0, <2>1, <2>2, <2>3 DEF Stages
  <2>5. QED  BY <1>1, <2>1, <2>3, <2>4
<1>4. CASE D!ClearJournal(w)
  <2>1. /\ state' = state /\ journal' = None /\ me.at = "clear"
    BY <1>4 DEF D!ClearJournal, D!At
  <2>2. FilesAgree'
    BY <1>0, <2>1 DEF FilesAgree, CanReturn, Recorded
  <2>3. CASE ~D!Ends(w)
    <3>1. PICK where \in {"state", "uninstall"} :
            stager' = [stager EXCEPT ![w] = [D!Idle EXCEPT !.at = where, !.goal = me.goal]]
      BY <1>4, <2>3 DEF D!ClearJournal, D!Recovered
    <3>2. stager'[w] = [D!Idle EXCEPT !.at = where, !.goal = me.goal] => Bound(w)'
      BY <1>0, <2>1 DEF D!Idle
    <3>3. QED  BY <1>1, <2>2, <3>1, <3>2
  <2>4. QED  BY <1>2, <2>2, <2>3
<1>5. CASE D!PendReboot(w)
  <2>1. D!Ends(w) /\ me.at = "pend"
    BY <1>5 DEF D!PendReboot, D!At
  <2>2. CASE me.from = "state"
    <3>1. /\ state' = [me.known EXCEPT !.reboot = TRUE, !.boot = boot, !.phase = "rollback"]
          /\ journal' = journal /\ journal = None /\ me.known = state /\ state \in D!States
          /\ state.reboot /\ state # None
      BY <1>0, <1>5, <2>1, <2>2 DEF D!PendReboot
    <3>2. /\ state'.names = state.names /\ state'.previous = state.previous
          /\ state'.pre = state.pre /\ state' # None
      <4>1. state' \in D!States
        BY <3>1, StagerIs DEF D!States
      <4>2. QED  BY <1>0, <3>1, <4>1 DEF D!States
    <3>3. FilesAgree'
      BY <1>0, <3>1, <3>2 DEF FilesAgree, CanReturn, Recorded
    <3>4. QED  BY <1>2, <2>1, <3>3
  <2>3. CASE me.from # "state"
    <3>1. /\ journal' = [phase |-> "rollback_reboot_pending", pre |-> me.pre, boot |-> boot,
                         target |-> None]
          /\ state' = state /\ journal # None /\ journal.phase # "committing"
          /\ me.pre = journal.pre
      BY <1>0, <1>5, <2>1, <2>3 DEF D!PendReboot
    <3>2. journal' \in D!Journals
      BY <3>1, StagerIs DEF D!Journals, Stages
    <3>3. journal' # None
      BY <3>2, RecordsAreThere
    <3>4. journal'.phase # "committing" /\ journal'.pre = journal.pre
      BY <3>1
    <3>5. FilesAgree'
      BY <1>0, <3>1, <3>3, <3>4 DEF FilesAgree, CanReturn, Recorded, IsCalm
    <3>6. QED  BY <1>2, <2>1, <3>5
  <2>4. QED  BY <2>2, <2>3
<1>6. CASE D!FinishRollback(w)
  <2>1. /\ journal' = journal /\ journal = None /\ me.known = state /\ state \in D!States
        /\ store \subseteq state.pre /\ state.reboot /\ state # None
        /\ stager' = [stager EXCEPT ![w] = [D!Idle EXCEPT !.at = "plan", !.goal = me.goal,
                                                      !.known = state']]
        /\ state' = IF state.previous # None
                    THEN D!Calm(state.previous.versions, state.previous.names)
                    ELSE D!Calm(state.versions, store)
    BY <1>0, <1>6 DEF D!FinishRollback, D!At
  <2>2. state' # None /\ ~state'.reboot /\ store \subseteq state'.names \cup doomed
    <3>1. CASE state.previous # None
      BY <1>0, <2>1, <3>1, CalmIs DEF FilesAgree, CanReturn, D!States
    <3>2. CASE state.previous = None
      BY <1>0, <2>1, <3>2, CalmIs DEF D!States
    <3>3. QED  BY <3>1, <3>2
  <2>3. FilesAgree' /\ IsCalm'
    BY <1>0, <2>1, <2>2 DEF FilesAgree, CanReturn, Recorded, IsCalm
  <2>4. stager'[w] = [D!Idle EXCEPT !.at = "plan", !.goal = me.goal, !.known = state'] => Bound(w)'
    <3>1. stager'[w] = [D!Idle EXCEPT !.at = "plan", !.goal = me.goal, !.known = state'] =>
            stager'[w].at = "plan" /\ stager'[w].known = state'
      BY DEF D!Idle
    <3>2. QED  BY <2>1, <2>3, <3>1
  <2>5. QED  BY <1>1, <2>1, <2>3, <2>4
<1>7. CASE D!BeginInstall(w)
  <2>1. /\ journal' = [phase |-> "installing", pre |-> me.pre, boot |-> 0, target |-> None]
        /\ me.at = "begin" /\ state' = state /\ journal = None /\ IsCalm
        /\ stager' = [stager EXCEPT ![w] = [me EXCEPT !.at = "add"]]
    BY <1>0, <1>7 DEF D!BeginInstall, D!At, D!Goes
  <2>2. journal' # None
    <3>1. journal' \in D!Journals
      BY <1>0, <2>1 DEF D!Journals, Stages
    <3>2. QED  BY <3>1, RecordsAreThere
  <2>3. FilesAgree'
    BY <1>0, <2>1, <2>2 DEF FilesAgree, CanReturn, Recorded, IsCalm
  <2>4. stager'[w] = [me EXCEPT !.at = "add"] => Bound(w)'
    BY <1>0, <2>1, <2>2 DEF Stages
  <2>5. QED  BY <1>1, <2>1, <2>3, <2>4
<1>8. CASE D!Commit(w)
  <2> DEFINE to == D!Target(w, store)
  <2>1. /\ journal' = [phase |-> "committing", pre |-> me.pre, boot |-> 0, target |-> to]
        /\ stager' = [stager EXCEPT ![w] = [me EXCEPT !.at = "write", !.known = to]]
        /\ me.at = "add" /\ state' = state /\ me.known \in D!States /\ ~me.known.reboot
    BY <1>0, <1>8 DEF D!Commit, D!CommitWith, D!Learns, D!At, StageSpares
  <2>2. /\ to.names = store /\ to.reboot = me.reboot
        /\ me.reboot => to.pre = me.pre /\ to.previous = me.known.previous
    <3>1. me.reboot \in BOOLEAN
      BY <1>0 DEF Stages
    <3>2. QED  BY <1>0, <2>1, <3>1 DEF D!Target, D!States
  <2>3. CanReturn(to)
    BY <1>0, <2>1, <2>2 DEF FilesAgree, CanReturn, Recorded
  <2> HIDE DEF to
  <2>4. journal' # None
    <3>1. to \in D!States
      BY <1>0, <2>1, StagerIs DEF to, D!Target, D!States, Stages
    <3>2. journal' \in D!Journals
      BY <1>0, <2>1, <3>1 DEF D!Journals, Stages
    <3>3. QED  BY <3>2, RecordsAreThere
  <2>5. journal'.phase = "committing" /\ journal'.target = to
    BY <2>1
  <2>6. FilesAgree'
    BY <1>0, <2>1, <2>2, <2>3, <2>4, <2>5 DEF FilesAgree, CanReturn
  <2>7. stager'[w] = [me EXCEPT !.at = "write", !.known = to] => Bound(w)'
    BY <1>0, <2>4, <2>5 DEF Stages
  <2>8. QED  BY <1>1, <2>1, <2>6, <2>7
<1>9. CASE D!EraseData(w)
  <2>1. D!Ends(w) /\ state' = None /\ journal' = None /\ me.at = "erase"
    BY <1>9 DEF D!EraseData, D!At
  <2>2. FilesAgree'
    BY <1>0, <2>1 DEF FilesAgree, CanReturn, Recorded
  <2>3. QED  BY <1>2, <2>1, <2>2
<1>10. ASSUME NEW verdict \in {"healthy", "pending", "failed"}, D!ProbeDevices(w, verdict)
       PROVE  Alone(w)'
  <2>1. /\ journal' = journal /\ journal = None /\ me.known = state /\ state \in D!States
        /\ state.reboot /\ me.at = "probe"
    BY <1>0, <1>10 DEF D!ProbeDevices, D!At
  <2>2. CASE /\ state' = D!Calm([k \in D!Kinds |-> D!Newest(k)], me.known.names)
             /\ D!Learns(w, "plan", state')
    <3>1. /\ [k \in D!Kinds |-> D!Newest(k)] \in [D!Kinds -> Nat]
          /\ me.known.names \in SUBSET D!Packages
      BY <1>0, <2>1, NewestIsNat DEF D!States
    <3>2. state' # None /\ ~state'.reboot /\ state'.names = state.names
      BY <2>1, <2>2, <3>1, CalmIs
    <3>3. stager' = [stager EXCEPT ![w] = [me EXCEPT !.at = "plan", !.known = state']]
      BY <2>2 DEF D!Learns
    <3>4. FilesAgree' /\ IsCalm'
      BY <1>0, <2>1, <3>2 DEF FilesAgree, CanReturn, Recorded, IsCalm
    <3>5. stager'[w] = [me EXCEPT !.at = "plan", !.known = state'] => Bound(w)'
      BY <1>0, <2>1, <3>4 DEF Stages
    <3>6. QED  BY <1>1, <3>3, <3>4, <3>5
  <2>3. ASSUME state' = state  PROVE FilesAgree'
    BY <1>0, <2>1, <2>3 DEF FilesAgree, CanReturn, Recorded, IsCalm
  <2>4. CASE D!Ends(w) /\ state' = state
    BY <1>2, <2>3, <2>4
  <2>5. CASE D!UndoFor(w, "state", me.known.pre) /\ state' = state
    <3> DEFINE r == [me EXCEPT !.at = "list", !.from = "state", !.pre = me.known.pre]
    <3>1. stager' = [stager EXCEPT ![w] = r]
      BY <2>5 DEF D!UndoFor
    <3>2. stager'[w] = r => Bound(w)'
      BY <1>0, <2>1, <2>5 DEF Stages
    <3>3. QED  BY <1>1, <2>3, <2>5, <3>1, <3>2
  <2>6. QED  BY <1>10, <2>2, <2>4, <2>5 DEF D!ProbeDevices
<1>11. QED  BY <1>3, <1>4, <1>5, <1>6, <1>7, <1>8, <1>9, <1>10

LEMMA StoreAlone ==
  ASSUME DriverTypes, Spared, NEW w \in D!Stagers, Alone(w),
         \E p \in D!Packages :
           \/ \E exit \in {"done", "reboot"} : D!RemoveNew(w, p, exit) \/ D!DeleteRecorded(w, p, exit)
           \/ \E exit \in {"done", "reboot", "failed"} : D!AddPackage(w, p, exit)
  PROVE  Alone(w)'
<1> DEFINE me == stager[w]
<1> USE DEF Bound, FilesAreUsed, UndoIsBound, InstallIsBound, DeleteIsBound, Undoing
<1>0. /\ me \in Stages /\ StageSpares(settled, me)
      /\ FilesAgree /\ Bound(w) /\ UNCHANGED <<state, journal>> /\ Only(w)
  BY StagerIs DEF Alone, D!RemoveNew, D!DeleteRecorded, D!Delete, D!AddPackage, D!Files
<1>1. ASSUME NEW p \in D!Packages, NEW exit \in {"done", "reboot"}, D!Delete(w, p, exit),
             me.at = "remove" \/ me.at = "delete"
      PROVE  Alone(w)'
  <2> DEFINE r == [me EXCEPT !.todo = @ \ {p}, !.reboot = @ \/ exit = "reboot"]
  <2>1. /\ stager' = [stager EXCEPT ![w] = r] /\ UNCHANGED <<state, journal>>
        /\ store' \ doomed' \subseteq store \ doomed
        /\ store' = store \ {p} \/ (exit = "reboot" /\ store' = store /\ doomed' = doomed \cup {p})
    BY <1>0, <1>1 DEF D!Delete, D!Files
  <2>2. FilesAgree'
    BY <1>0, <2>1 DEF FilesAgree, CanReturn, Recorded, IsCalm
  <2>3. stager'[w] = r =>
          /\ stager'[w].at = me.at /\ stager'[w].from = me.from /\ stager'[w].pre = me.pre
          /\ stager'[w].known = me.known /\ stager'[w].todo = me.todo \ {p}
          /\ ~stager'[w].reboot => ~me.reboot /\ exit # "reboot"
    BY <1>0 DEF Stages
  <2>4. stager'[w] = r => Bound(w)'
    BY <1>0, <1>1, <2>1, <2>3
  <2>5. QED  BY <1>0, <2>1, <2>2, <2>4, AloneFollows
<1>2. ASSUME NEW p \in D!Packages, NEW exit \in {"done", "reboot", "failed"},
             D!AddPackage(w, p, exit)
      PROVE  Alone(w)'
  <2>1. /\ UNCHANGED <<state, journal>> /\ me.at = "add" /\ p \in me.todo
        /\ store' \in {store, store \cup {p}} /\ doomed' = doomed \ {p}
    BY <1>2 DEF D!AddPackage, D!At, D!Files
  <2>2. /\ journal # None /\ journal.phase = "installing" /\ me.pre = journal.pre /\ p \notin me.pre
        /\ IsCalm
    BY <1>0, <2>1 DEF FilesAgree
  <2>3. FilesAgree'
    BY <1>0, <2>1, <2>2 DEF FilesAgree, CanReturn, Recorded, IsCalm
  <2>4. CASE exit = "failed"
    <3> DEFINE r == [me EXCEPT !.at = "list", !.from = "install", !.pre = me.pre]
    <3>1. stager' = [stager EXCEPT ![w] = r]
      BY <1>2, <2>4 DEF D!AddPackage, D!UndoFor
    <3>2. stager'[w] = r => Bound(w)'
      BY <1>0, <2>1, <2>2 DEF Stages
    <3>3. QED  BY <1>0, <2>3, <3>1, <3>2, AloneFollows
  <2>5. CASE exit # "failed"
    <3> DEFINE r == [me EXCEPT !.todo = @ \ {p}, !.reboot = @ \/ exit = "reboot"]
    <3>1. stager' = [stager EXCEPT ![w] = r]
      BY <1>2, <2>5 DEF D!AddPackage
    <3>2. stager'[w] = r => Bound(w)'
      BY <1>0, <2>1, <2>2 DEF Stages
    <3>3. QED  BY <1>0, <2>3, <3>1, <3>2, AloneFollows
  <2>6. QED  BY <2>4, <2>5
<1>3. QED  BY <1>1, <1>2 DEF D!RemoveNew, D!DeleteRecorded, D!At

\* Who begins while nobody is at work is alone; another does not begin unnoticed.
LEMMA BeginAlone ==
  ASSUME DriverTypes, Spared, NEW s \in D!Stagers, NEW w \in D!Stagers, Alone(w),
         NEW goal \in {"stage", "uninstall"}, D!Begin(s, goal), beside' = {}
  PROVE  Alone(s)'
<1>1. \A t \in D!Stagers : stager[t].at = "idle"
  BY DEF D!Begin, D!At
<1>2. Only(s)
  BY <1>1 DEF Only, Spared, StageSpares
<1>3. /\ stager' = [stager EXCEPT ![s] = [D!Idle EXCEPT !.at = "journal", !.goal = goal]]
      /\ UNCHANGED <<state, journal, store, doomed>>
  BY DEF D!Begin, D!Files
<1>4. FilesAgree'
  BY <1>3 DEF Alone, FilesAgree, CanReturn, Recorded, IsCalm
<1>5. stager'[s] = [D!Idle EXCEPT !.at = "journal", !.goal = goal] => Bound(s)'
  BY DEF D!Idle, Bound, FilesAreUsed, UndoIsBound, InstallIsBound, DeleteIsBound, Undoing
<1>6. QED  BY <1>2, <1>3, <1>4, <1>5, AloneFollows

IDrivers == DriverTypes /\ Spared /\ (beside = {} => \E w \in D!Stagers : Alone(w))

LEMMA AllIdle ==
  ASSUME DriverTypes, stager = [s \in D!Stagers |-> D!Idle], FilesAgree
  PROVE  \E w \in D!Stagers : Alone(w)
<1>1. Service \in D!Stagers /\ Only(Service) /\ stager[Service] = D!Idle
  BY DEF D!Stagers, Only
<1>2. Bound(Service)
  BY <1>1 DEF D!Idle, Bound, FilesAreUsed, UndoIsBound, InstallIsBound, DeleteIsBound, Undoing
<1>3. QED  BY <1>1, <1>2 DEF Alone

LEMMA RebootKeeps == ASSUME IDrivers, Settles, D!Reboot PROVE IDrivers'
<1>1. /\ boot' = boot + 1 /\ boot < MaxBoot /\ store' = store \ doomed /\ doomed' = {}
      /\ stager' = [s \in D!Stagers |-> D!Idle] /\ UNCHANGED <<beside, state, journal>>
  BY DEF D!Reboot, D!Files
<1>2. D!TypeOK /\ StageTypes /\ D!SettledIsKept /\ Spares(settled, state) /\ JournalSpares(settled, journal)
  BY DEF IDrivers, DriverTypes, Spared
<1>3. boot' \in 1 .. MaxBoot
  BY <1>1, <1>2, DriverAssumption DEF DriversGiven, D!TypeOK
<1>4. settled' \subseteq store' /\ (settled' \subseteq settled \/ (D!Quiet' /\ settled' = store'))
  BY <1>1, <1>2 DEF Settles, D!SettledIsKept
<1>5. StageTypes' /\ D!TypeOK'
  BY <1>1, <1>2, <1>3, <1>4, IdleSpares DEF StageTypes, D!TypeOK
<1>6. Spares(settled, state)' /\ JournalSpares(settled, journal)'
  BY <1>1, <1>2, <1>4 DEF Spares, JournalSpares, D!Quiet, D!Pending
<1>7. DriverTypes' /\ Spared'
  BY <1>1, <1>4, <1>5, <1>6, IdleSpares DEF DriverTypes, Spared, D!SettledIsKept
<1>8. ASSUME beside' = {}  PROVE (\E w \in D!Stagers : Alone(w))'
  <2>1. FilesAgree
    BY <1>1, <1>8 DEF IDrivers, Alone
  <2>2. FilesAgree'
    BY <1>1, <2>1 DEF FilesAgree, CanReturn, Recorded, IsCalm
  <2>3. (Only(Service) /\ Bound(Service))'
    BY <1>1 DEF Only, D!Idle, D!Stagers, Bound, FilesAreUsed, UndoIsBound, InstallIsBound,
       DeleteIsBound, Undoing
  <2>4. QED  BY <2>2, <2>3 DEF Alone, D!Stagers
<1>9. QED  BY <1>7, <1>8 DEF IDrivers

LEMMA InitDrivers == ASSUME D!Init PROVE IDrivers
<1>1. /\ store = {} /\ doomed = {} /\ settled = {} /\ beside = {} /\ boot = 1
      /\ state = None /\ journal = None /\ stager = [s \in D!Stagers |-> D!Idle]
  BY DEF D!Init
<1>2. DriverTypes
  BY <1>1, IdleSpares, DriverAssumption DEF DriversGiven, DriverTypes, StageTypes, D!TypeOK
<1>3. Spared
  BY <1>1, IdleSpares DEF Spared, D!SettledIsKept, Spares, JournalSpares
<1>4. FilesAgree
  BY <1>1 DEF FilesAgree, CanReturn, Recorded
<1>5. QED  BY <1>1, <1>2, <1>3, <1>4, AllIdle DEF IDrivers

LEMMA StepDrivers == ASSUME IDrivers, [D!Next]_D!vars PROVE IDrivers'
<1>1. CASE UNCHANGED D!vars
  <2>1. UNCHANGED <<store, doomed, boot, state, journal, stager, beside, settled>>
    BY <1>1 DEF D!vars
  <2>2. DriverTypes' /\ Spared'
    BY <2>1 DEF IDrivers, DriverTypes, StageTypes, D!TypeOK, Spared, D!SettledIsKept, Spares,
       JournalSpares
  <2>3. \A w \in D!Stagers : Alone(w) => Alone(w)'
    BY <2>1 DEF Alone, Only, FilesAgree, CanReturn, Recorded, IsCalm, Bound, FilesAreUsed,
       UndoIsBound, InstallIsBound, DeleteIsBound
  <2>4. QED  BY <2>1, <2>2, <2>3 DEF IDrivers
<1>2. CASE D!Next
  <2>0. Settles
    BY <1>2 DEF D!Next, Settles
  <2>1. ASSUME NEW s \in D!Stagers, D!Step(s)  PROVE IDrivers'
    <3>1. CASE \E goal \in {"stage", "uninstall"} : D!Begin(s, goal)
      <4>1. DriverTypes' /\ Spared'
        BY <2>0, <3>1, ReadingSpares DEF IDrivers
      <4>2. beside' = {} => beside = {}
        BY <3>1 DEF D!Begin
      <4>3. QED  BY <3>1, <4>1, <4>2, BeginAlone DEF IDrivers
    <3> DEFINE Reading == \/ D!ReadJournal(s) \/ D!ReadState(s)
                          \/ \E bundle \in D!Bundles : D!Plan(s, bundle)
                          \/ D!Fails(s) \/ D!ListNew(s) \/ D!NewRemoved(s) \/ D!Uninstall(s)
                          \/ D!RecordedDeleted(s)
               Writing == \/ D!RedoCommit(s) \/ D!WriteState(s) \/ D!ClearJournal(s)
                          \/ D!PendReboot(s) \/ D!FinishRollback(s) \/ D!BeginInstall(s)
                          \/ D!Commit(s) \/ D!EraseData(s)
                          \/ \E verdict \in {"healthy", "pending", "failed"} :
                               D!ProbeDevices(s, verdict)
               Storing == \E p \in D!Packages :
                 \/ \E exit \in {"done", "reboot"} :
                      D!RemoveNew(s, p, exit) \/ D!DeleteRecorded(s, p, exit)
                 \/ \E exit \in {"done", "reboot", "failed"} : D!AddPackage(s, p, exit)
    <3>2. CASE Reading \/ Writing \/ Storing
      <4>1. DriverTypes' /\ Spared'
        BY <2>0, <3>2, ReadingSpares, WritingSpares, StoreSpares DEF IDrivers
      <4>2. beside' = beside /\ stager[s].at # "idle"
        BY <3>2 DEF D!ReadJournal, D!ReadState, D!Plan, D!Fails, D!ListNew, D!NewRemoved,
           D!Uninstall, D!RecordedDeleted, D!RedoCommit, D!WriteState, D!ClearJournal,
           D!PendReboot, D!FinishRollback, D!BeginInstall, D!Commit, D!CommitWith, D!EraseData,
           D!ProbeDevices, D!RemoveNew, D!DeleteRecorded, D!Delete, D!AddPackage, D!Machine,
           D!At
      <4>3. ASSUME NEW w \in D!Stagers, Alone(w)  PROVE Alone(w)'
        <5>1. w = s
          BY <4>2, <4>3 DEF Alone, Only, D!Idle
        <5>2. QED  BY <3>2, <4>3, <5>1, ReadingAlone, WritingAlone, StoreAlone DEF IDrivers
      <4>4. QED  BY <4>1, <4>2, <4>3 DEF IDrivers
    <3>3. QED  BY <2>1, <3>1, <3>2 DEF D!Step
  <2>2. QED  BY <1>2, <2>0, <2>1, RebootKeeps DEF D!Next
<1>3. QED  BY <1>1, <1>2

LEMMA DriversFollow == ASSUME IDrivers PROVE D!DriversHold
<1>1. ASSUME D!Quiet, beside = {} PROVE store \subseteq Recorded \cup doomed
  BY <1>1 DEF D!Quiet, D!Pending, IDrivers, Alone, FilesAgree
<1>2. QED  BY <1>1 DEF IDrivers, DriverTypes, Spared, D!DriversHold, D!NoOrphan, Recorded

(***************************************************************************)
(* DesktopInput.                                                           *)
(***************************************************************************)
Elements(q) == {q[i] : i \in 1 .. Len(q)}
Images      == [gen : Nat, seq : Nat, desktop : I!Desktops \cup {None}]
News        == [kind : {"barrier"}, gen : Nat] \cup [kind : {"preparing", "ready"}]
               \cup [kind : {"desktop"}, desktop : I!Desktops] \cup [kind : {"frame"}, of : Images]
Strokes     == [kind : {"key"}, key : Keys, down : BOOLEAN, gen : Nat, seen : Images]
               \cup [kind : {"release", "feedback"}, key : {None}, down : BOOLEAN, gen : Nat,
                     seen : Images]
Stops       == [kind : {"stop"}]
Captures    == [gen : Nat, desktop : I!Desktops \cup {None}, first : BOOLEAN, seq : Nat]
Fences      == [gen : Nat, desktop : I!Desktops \cup {None}, ready : BOOLEAN]
Helpers     == [at : {"run", "mark", "stopped", "killed"}, frameReady : BOOLEAN, mark : Images,
                held : SUBSET Keys, gen : Nat, desktop : I!Desktops \cup {None},
                available : BOOLEAN, pending : BOOLEAN, stopping : BOOLEAN]
Gates       == [gen : Nat, ready : BOOLEAN, awaits : Nat, closed : BOOLEAN]
Tabs        == [ready : BOOLEAN, first : BOOLEAN, kind : I!Desktops, frame : Images, shown : Images]
InputTypes ==
  /\ I!TypeOK /\ unattended \in BOOLEAN
  /\ capture \in Captures /\ fence \in Fences /\ helper \in Helpers
  /\ events \in Seq(News) /\ statuses \in Seq(News)
  /\ barriers \in Seq(Nat) /\ readies \in Seq(Images) /\ frame \in Images
  /\ gate \in Gates /\ tab \in Tabs
  /\ commands \in Seq(Strokes \cup Stops) /\ typed \in Seq(Strokes)
  /\ fence.desktop = capture.desktop /\ (capture.desktop # None => capture.gen > 0)

\* Every picture there is, wherever it is; a later one is not of an earlier generation.
Frames   == {e.of : e \in {x \in Elements(events) : x.kind = "frame"}}
Pictures == {I!Nothing, frame, helper.mark, tab.frame, tab.shown} \cup Elements(readies) \cup Frames
            \cup {m.seen : m \in Elements(typed)}
            \cup {m.seen : m \in {x \in Elements(commands) : x.kind # "stop"}}
PicturesAgree == \A p \in Pictures :
  /\ p \in Images /\ p.gen <= fence.gen /\ p.seq <= capture.seq
  /\ p.gen = fence.gen /\ fence.gen # 0 => p.desktop = fence.desktop
  /\ \A q \in Pictures : p.seq >= q.seq => p.gen >= q.gen

FramesRise(q) == \A i, j \in 1 .. Len(q) :
  i <= j /\ q[i].kind = "frame" /\ q[j].kind = "frame" => q[i].of.seq <= q[j].of.seq
BarriersLead(q, g) == \A i, j \in 1 .. Len(q) :
  i < j /\ q[i].kind = "frame" /\ q[j].kind = "barrier" => q[i].of.gen # g

\* The pictures come in their order, and what the page sends in that of what it shows.
PagesAreOrdered ==
  /\ tab.frame # I!Nothing => tab.shown.seq <= tab.frame.seq
  /\ frame # I!Nothing => tab.shown.seq <= frame.seq /\ tab.frame.seq <= frame.seq
  /\ \A f \in Frames : {tab.shown.seq, tab.frame.seq, frame.seq} \subseteq 0 .. f.seq
  /\ FramesRise(events)
InputsAreOrdered ==
  /\ \A m \in Elements(typed) : m.seen.seq <= tab.shown.seq
  /\ \A i, j \in 1 .. Len(typed) : i <= j => typed[i].seen.seq <= typed[j].seen.seq

\* What lets the gate open, what it then lets through, and what it let through.
GateIsSafe ==
  /\ gate.awaits # 0 => \A p \in Pictures : p.seq >= gate.awaits => p.gen >= gate.gen
  /\ gate.ready => \/ gate.closed
                   \/ /\ tab.shown.gen >= gate.gen
                      /\ \A m \in Elements(typed) : m.seen.gen >= gate.gen
  /\ gate.closed => typed = <<>>
  /\ \A m \in Elements(commands) : m.kind = "key" => m.seen.gen >= m.gen

\* A generation begins with its barrier.
BarrierFirst ==
  /\ \A b \in Elements(barriers) : b <= fence.gen
  /\ \A e \in Elements(events) : /\ e.kind = "barrier" => e.gen <= fence.gen
                                 /\ e.kind = "frame" => e.of.gen > 0
  /\ BarriersLead(events, fence.gen)
  /\ helper.at = "mark" => helper.mark.gen > 0
  /\ fence.ready \/ (helper.at = "mark" /\ helper.mark.gen = fence.gen) =>
       fence.gen > 0 /\ \A e \in Elements(events) : e.kind # "barrier"

\* What is down was pressed through this helper, for the desktop that has the input.
PressedIsHeld ==
  /\ pressed # {} => /\ fence.ready /\ helper.gen = fence.gen /\ screen = fence.desktop
                     /\ helper.desktop = screen /\ screen \in I!Controllable
                     /\ pressed \subseteq helper.held
  /\ helper.stopping /\ ~helper.pending /\ helper.at # "killed" => pressed = {}
  /\ helper.at = "stopped" => helper.stopping /\ ~helper.pending
IInput == /\ InputTypes /\ PicturesAgree /\ PagesAreOrdered /\ InputsAreOrdered /\ GateIsSafe
          /\ BarrierFirst /\ PressedIsHeld /\ I!InputIsAimed

LEMMA TailOf ==
  ASSUME NEW S, NEW q \in Seq(S), q # <<>>
  PROVE  /\ Tail(q) \in Seq(S) /\ Head(q) \in S /\ Head(q) \in Elements(q) /\ Head(q) = q[1]
         /\ Elements(Tail(q)) \subseteq Elements(q)
         /\ Len(q) \in Nat /\ Len(Tail(q)) \in Nat /\ 1 \in 1 .. Len(q)
         /\ \A i \in 1 .. Len(Tail(q)) : i + 1 \in 1 .. Len(q) /\ Tail(q)[i] = q[i + 1]
<1>1. /\ Tail(q) \in Seq(S) /\ Len(Tail(q)) = Len(q) - 1 /\ Len(q) \in Nat /\ Len(q) > 0
      /\ \A i \in 1 .. Len(Tail(q)) : Tail(q)[i] = q[i + 1]
      /\ Head(q) = q[1] /\ Len(Tail(q)) \in Nat
  BY EmptySeq, HeadTailProperties
<1>2. 1 \in 1 .. Len(q) /\ \A i \in 1 .. Len(Tail(q)) : i + 1 \in 1 .. Len(q)
  BY <1>1
<1>3. \A i \in 1 .. Len(q) : q[i] \in S
  OBVIOUS
<1>4. QED  BY <1>1, <1>2, <1>3 DEF Elements

LEMMA AppendOf ==
  ASSUME NEW S, NEW q \in Seq(S), NEW x \in S
  PROVE  /\ Append(q, x) \in Seq(S) /\ Elements(Append(q, x)) = Elements(q) \cup {x}
         /\ Len(q) \in Nat /\ Len(Append(q, x)) = Len(q) + 1
         /\ Append(q, x)[Len(q) + 1] = x
         /\ \A i \in 1 .. Len(q) : Append(q, x)[i] = q[i]
         /\ q \o <<x>> = Append(q, x)
<1>1. /\ Append(q, x) \in Seq(S) /\ Len(Append(q, x)) = Len(q) + 1 /\ Len(q) \in Nat
      /\ \A i \in 1 .. Len(q) : Append(q, x)[i] = q[i]
      /\ Append(q, x)[Len(q) + 1] = x
  BY AppendProperties
<1>2. 1 .. Len(q) + 1 = (1 .. Len(q)) \cup {Len(q) + 1}
  BY <1>1
<1>3. Elements(Append(q, x)) = Elements(q) \cup {x}
  BY <1>1, <1>2 DEF Elements
<1>4. q \o <<x>> = Append(q, x)
  BY AppendIsConcat
<1>5. QED  BY <1>1, <1>3, <1>4

LEMMA EmptyElements == Elements(<<>>) = {} /\ Len(<<>>) = 0 /\ \A S : <<>> \in Seq(S)
BY EmptySeq DEF Elements

LEMMA InputsIn ==
  ASSUME InputTypes
  PROVE  /\ I!Nothing \in Images /\ I!Nothing.gen = 0 /\ I!Nothing.seq = 0
         /\ \A e \in Elements(events) : /\ e \in News
                                        /\ e.kind = "frame" => e.of \in Images
                                        /\ e.kind = "barrier" => e.gen \in Nat
         /\ \A m \in Elements(typed) : m \in Strokes /\ m.seen \in Images
         /\ \A m \in Elements(commands) : /\ m \in Strokes \cup Stops
                                          /\ m.kind # "stop" => m \in Strokes /\ m.seen \in Images
         /\ \A r \in Elements(readies) : r \in Images
         /\ \A b \in Elements(barriers) : b \in Nat
<1>1. I!Nothing \in Images /\ I!Nothing.gen = 0 /\ I!Nothing.seq = 0
  BY DEF I!Nothing, I!Picture, Images
<1>2. ASSUME NEW S, NEW q \in Seq(S) PROVE \A x \in Elements(q) : x \in S
  BY DEF Elements
<1>3. /\ \A e \in Elements(events) : e \in News
      /\ \A m \in Elements(typed) : m \in Strokes
      /\ \A m \in Elements(commands) : m \in Strokes \cup Stops
      /\ \A r \in Elements(readies) : r \in Images
      /\ \A b \in Elements(barriers) : b \in Nat
  BY <1>2 DEF InputTypes
<1>4. \A e \in News : (e.kind = "frame" => e.of \in Images) /\ (e.kind = "barrier" => e.gen \in Nat)
  BY DEF News
<1>5. /\ \A m \in Strokes : m.seen \in Images
      /\ \A m \in Strokes \cup Stops : m.kind # "stop" => m \in Strokes
  BY DEF Strokes, Stops
<1>6. QED  BY <1>1, <1>3, <1>4, <1>5

LEMMA FramesCount == ASSUME InputTypes, PicturesAgree
                      PROVE  \A f \in Frames : f \in Pictures /\ f.seq \in Nat /\ 0 \in 0 .. f.seq
<1>1. \A f \in Frames : f \in Pictures /\ f.seq \in Nat
  BY DEF PicturesAgree, Pictures, Images
<1>2. QED  BY <1>1

\* The parts that follow from what a step leaves.
LEMMA PicturesStay ==
  ASSUME IInput, Pictures' \subseteq Pictures, fence'.gen = fence.gen,
         fence'.desktop = fence.desktop, capture'.seq = capture.seq
  PROVE  PicturesAgree'
<1>1. PicturesAgree
  BY DEF IInput
<1>2. QED  BY <1>1 DEF PicturesAgree

LEMMA PressedStay ==
  ASSUME PressedIsHeld, UNCHANGED <<screen, pressed, unattended, fence, helper>>
  PROVE  PressedIsHeld'
BY DEF PressedIsHeld, I!Controllable

\* A step of the helper that takes, or not, a command and moves its keys.
LEMMA KeysOnly ==
  ASSUME IInput,
         UNCHANGED <<capture, fence, events, barriers, readies, statuses, frame, gate, tab, typed,
                     unattended>>,
         screen' \in I!Desktops, pressed' \subseteq Keys, helper' \in Helpers,
         helper'.mark = helper.mark, helper'.at = "mark" => helper.at = "mark",
         commands' \in Seq(Strokes \cup Stops),
         Elements(commands') \subseteq Elements(commands),
         PressedIsHeld', ~stray'
  PROVE  IInput'
<1>1. /\ InputTypes /\ PagesAreOrdered /\ InputsAreOrdered /\ GateIsSafe /\ BarrierFirst
  BY DEF IInput
<1>2. InputTypes'
  BY <1>1 DEF InputTypes, I!TypeOK, Helpers
<1>3. Frames' = Frames /\ Pictures' \subseteq Pictures
  BY DEF Frames, Pictures
<1>4. PicturesAgree'
  BY <1>3, PicturesStay
<1>5. PagesAreOrdered' /\ InputsAreOrdered'
  BY <1>1, <1>3 DEF PagesAreOrdered, InputsAreOrdered
<1>6. GateIsSafe'
  BY <1>1, <1>3 DEF GateIsSafe
<1>7. BarrierFirst'
  BY <1>1 DEF BarrierFirst
<1>8. QED  BY <1>2, <1>4, <1>5, <1>6, <1>7 DEF IInput, I!InputIsAimed

\* A step of the relay or of the page.
LEMMA PageOnly ==
  ASSUME IInput,
         UNCHANGED <<screen, pressed, unattended, capture, fence, events, helper, stray>>,
         statuses' \in Seq(News), barriers' \in Seq(Nat), readies' \in Seq(Images),
         frame' \in Images, gate' \in Gates, gate'.gen <= fence.gen, tab' \in Tabs,
         commands' \in Seq(Strokes \cup Stops), typed' \in Seq(Strokes),
         Pictures' \subseteq Pictures, Elements(barriers') \subseteq Elements(barriers),
         PagesAreOrdered', InputsAreOrdered', GateIsSafe'
  PROVE  IInput'
<1>1. InputTypes /\ BarrierFirst /\ PressedIsHeld /\ I!InputIsAimed
  BY DEF IInput
<1>2. InputTypes'
  BY <1>1 DEF InputTypes, I!TypeOK
<1>3. PicturesAgree'
  BY PicturesStay
<1>4. BarrierFirst'
  BY <1>1 DEF BarrierFirst
<1>5. PressedIsHeld' /\ I!InputIsAimed'
  BY <1>1, PressedStay DEF I!InputIsAimed
<1>6. QED  BY <1>2, <1>3, <1>4, <1>5 DEF IInput

-----------------------------------------------------------------------------
\* The helper: its keys.
LEMMA ForgetIs ==
  ASSUME NEW h \in Helpers, NEW g \in Nat
  PROVE  /\ I!Forget(h, g) \in Helpers /\ I!Forget(h, g).mark = h.mark /\ I!Forget(h, g).at = h.at
         /\ I!Forget(h, g).stopping = h.stopping /\ ~I!Forget(h, g).pending
BY DEF I!Forget, Helpers

\* Keys that are down may be left so, or their helper changed while none is.
LEMMA PressedMoves ==
  ASSUME PressedIsHeld, InputTypes, UNCHANGED <<screen, unattended, fence>>,
         pressed' \subseteq pressed,
         pressed' # {} => /\ helper'.gen = helper.gen /\ helper'.desktop = helper.desktop
                          /\ pressed' \subseteq helper'.held,
         helper'.stopping /\ ~helper'.pending /\ helper'.at # "killed" => pressed' = {},
         helper'.at = "stopped" => helper'.stopping /\ ~helper'.pending
  PROVE  PressedIsHeld' /\ pressed' \subseteq Keys
BY DEF PressedIsHeld, InputTypes, I!TypeOK, I!Controllable

\* A helper in whose place it is to go on, as far as keys are down.
Continues(h) == /\ h \in Helpers /\ h.mark = helper.mark
                /\ pressed # {} => /\ h.held = helper.held /\ h.gen = helper.gen
                                   /\ h.desktop = helper.desktop

LEMMA ReleaseKeeps ==
  ASSUME IInput, UNCHANGED <<screen, unattended, fence>>, NEW h, Continues(h),
         h.at \in {"run", "killed"}, NEW stuck \in BOOLEAN, NEW g \in {h.gen, fence.gen},
         I!Release(h, g, stuck)
  PROVE  /\ helper' \in Helpers /\ helper'.mark = helper.mark /\ helper'.at = h.at
         /\ PressedIsHeld' /\ pressed' \subseteq Keys
<1>0. /\ h \in Helpers /\ fence \in Fences /\ g \in Nat /\ fence.gen \in Nat
      /\ screen \in I!Desktops /\ InputTypes /\ PressedIsHeld /\ h.mark = helper.mark
  BY DEF IInput, InputTypes, I!TypeOK, Continues, Helpers, Fences
<1>1. CASE ~(fence.ready /\ fence.gen = g)
  <2>1. pressed = {}
    BY <1>0, <1>1 DEF PressedIsHeld, Continues
  <2>2. helper' = I!Forget(h, fence.gen) /\ pressed' = pressed
    BY <1>1 DEF I!Release
  <2>3. QED  BY <1>0, <2>1, <2>2, ForgetIs, PressedMoves
<1>2. CASE fence.ready /\ fence.gen = g /\ screen \notin I!Controllable
  <2>1. pressed = {}
    BY <1>0, <1>2 DEF PressedIsHeld
  <2>2. helper' = [h EXCEPT !.pending = TRUE] /\ pressed' = pressed
    BY <1>2 DEF I!Release
  <2>3. helper' \in Helpers /\ helper'.mark = h.mark /\ helper'.at = h.at
    BY <1>0, <2>2 DEF Helpers
  <2>4. QED  BY <1>0, <2>1, <2>2, <2>3, PressedMoves
<1>3. CASE fence.ready /\ fence.gen = g /\ screen \in I!Controllable /\ ~I!Applies(g)
  <2>1. pressed = {}
    BY <1>0, <1>3 DEF PressedIsHeld, I!Applies
  <2>2. helper' = [h EXCEPT !.pending = FALSE] /\ pressed' = pressed
    BY <1>3 DEF I!Release
  <2>3. helper' \in Helpers /\ helper'.mark = h.mark /\ helper'.at = h.at
    BY <1>0, <2>2 DEF Helpers
  <2>4. QED  BY <1>0, <2>1, <2>2, <2>3, PressedMoves
<1>4. CASE fence.ready /\ fence.gen = g /\ screen \in I!Controllable /\ I!Applies(g)
  <2> DEFINE b == I!Bound(h, g)
             left == IF stuck THEN b.held ELSE {}
  <2>1. /\ pressed' = pressed \ (b.held \ left)
        /\ helper' = [b EXCEPT !.held = left, !.pending = left # {}]
    BY <1>4 DEF I!Release
  <2>2. /\ b \in Helpers /\ b.mark = h.mark /\ b.at = h.at
        /\ (pressed # {} => b = h)
    BY <1>0, <1>4 DEF I!Bound, Helpers, PressedIsHeld, Continues
  <2> HIDE DEF b
  <2>3. left \in SUBSET Keys /\ left \subseteq b.held
    BY <2>2 DEF Helpers
  <2> HIDE DEF left
  <2>4. /\ helper' \in Helpers /\ helper'.mark = h.mark /\ helper'.at = h.at
        /\ helper'.held = left /\ helper'.pending = (left # {}) /\ helper'.gen = b.gen
        /\ helper'.desktop = b.desktop
    BY <2>1, <2>2, <2>3 DEF Helpers
  <2>5. CASE pressed = {}
    BY <1>0, <2>1, <2>4, <2>5, PressedMoves
  <2>6. CASE pressed # {}
    <3>1. b = h /\ h.gen = helper.gen /\ h.desktop = helper.desktop /\ pressed \subseteq h.held
      BY <1>0, <2>2, <2>6 DEF Continues, PressedIsHeld
    <3>2. pressed' \subseteq left /\ pressed' \subseteq pressed
      BY <2>1, <3>1
    <3>3. QED  BY <1>0, <2>4, <3>1, <3>2, PressedMoves
  <2>7. QED  BY <2>5, <2>6
<1>5. QED  BY <1>1, <1>2, <1>3, <1>4

LEMMA ReleaseCurrentKeeps ==
  ASSUME IInput, UNCHANGED <<screen, unattended, fence>>, NEW h, Continues(h),
         h.at \in {"run", "killed"}, NEW stuck \in BOOLEAN, I!ReleaseCurrent(h, stuck)
  PROVE  /\ helper' \in Helpers /\ helper'.mark = helper.mark /\ helper'.at = h.at
         /\ PressedIsHeld' /\ pressed' \subseteq Keys
<1>1. CASE h.gen = 0
  <2>1. helper' = [h EXCEPT !.pending = FALSE] /\ pressed' = pressed
    BY <1>1 DEF I!ReleaseCurrent
  <2>2. helper' \in Helpers /\ helper'.mark = h.mark /\ helper'.at = h.at
    BY <2>1 DEF Helpers, Continues
  <2>3. pressed = {}
    BY <1>1 DEF IInput, PressedIsHeld, BarrierFirst, Continues
  <2>4. QED  BY <2>1, <2>2, <2>3, PressedMoves DEF IInput, Continues
<1>2. CASE h.gen # 0
  BY <1>2, ReleaseKeeps DEF I!ReleaseCurrent
<1>3. QED  BY <1>1, <1>2

LEMMA LookedIs ==
  ASSUME IInput
  PROVE  /\ Continues(I!Looked) /\ I!Looked.at = helper.at /\ I!Looked.stopping = helper.stopping
         /\ I!Looked.available <=> screen \in I!Controllable
         /\ I!Looked.pending => helper.pending
         /\ pressed = {} \/ I!Looked.pending = helper.pending
<1>1. helper \in Helpers /\ fence.gen \in Nat /\ PressedIsHeld
  BY DEF IInput, InputTypes, Fences
<1>2. CASE helper.available /\ screen \notin I!Controllable
  <2>1. I!Looked = [I!Forget(helper, fence.gen) EXCEPT !.available = FALSE] /\ pressed = {}
    BY <1>1, <1>2 DEF I!Looked, PressedIsHeld
  <2>2. QED  BY <1>1, <1>2, <2>1 DEF I!Forget, Helpers, Continues
<1>3. CASE ~(helper.available /\ screen \notin I!Controllable)
  <2>1. PICK there \in BOOLEAN : there <=> screen \in I!Controllable
    OBVIOUS
  <2>2. I!Looked = [helper EXCEPT !.available = there]
    BY <1>3, <2>1 DEF I!Looked
  <2>3. /\ I!Looked \in Helpers /\ I!Looked.mark = helper.mark /\ I!Looked.at = helper.at
        /\ I!Looked.stopping = helper.stopping /\ I!Looked.available = there
        /\ I!Looked.held = helper.held /\ I!Looked.gen = helper.gen
        /\ I!Looked.desktop = helper.desktop /\ I!Looked.pending = helper.pending
    BY <1>1, <2>2 DEF Helpers
  <2>4. QED  BY <2>1, <2>3 DEF Continues
<1>4. QED  BY <1>2, <1>3

LEMMA LookedKeeps ==
  ASSUME IInput, UNCHANGED <<screen, unattended, fence, pressed>>, helper' = I!Looked
  PROVE  /\ helper' \in Helpers /\ helper'.mark = helper.mark /\ helper'.at = helper.at
         /\ PressedIsHeld' /\ pressed' \subseteq Keys
<1>1. InputTypes /\ PressedIsHeld
  BY DEF IInput
<1>2. CASE pressed = {}
  BY <1>1, <1>2, LookedIs, PressedMoves DEF Continues, PressedIsHeld
<1>3. CASE pressed # {}
  BY <1>1, <1>3, LookedIs, PressedMoves DEF Continues, PressedIsHeld
<1>4. QED  BY <1>2, <1>3

\* What HelperRest leaves, and a command that is taken.
LEMMA RestKeeps ==
  ASSUME IInput, UNCHANGED I!HelperRest, helper' \in Helpers, helper'.mark = helper.mark,
         helper'.at = "mark" => helper.at = "mark", PressedIsHeld', pressed' \subseteq Keys,
         commands' = commands \/ (commands # <<>> /\ commands' = Tail(commands)), ~stray'
  PROVE  IInput'
<1>1. /\ UNCHANGED <<capture, fence, events, barriers, readies, statuses, frame, gate, tab, typed,
                     unattended, screen>>
      /\ screen \in I!Desktops /\ commands \in Seq(Strokes \cup Stops)
  BY DEF I!HelperRest, I!viewer, IInput, InputTypes, I!TypeOK
<1>2. commands' \in Seq(Strokes \cup Stops) /\ Elements(commands') \subseteq Elements(commands)
  BY <1>1, TailOf
<1>3. QED  BY <1>1, <1>2, KeysOnly

LEMMA SwitchKeeps == ASSUME IInput, I!Switch PROVE IInput'
<1>1. /\ UNCHANGED <<capture, fence, events, barriers, readies, statuses, frame, gate, tab, typed,
                     unattended, helper, commands, stray>>
      /\ screen' \in I!Desktops /\ pressed' = {}
  BY DEF I!Switch, I!agent, I!viewer
<1>2. PressedIsHeld' /\ ~stray' /\ helper' \in Helpers /\ commands' \in Seq(Strokes \cup Stops)
  BY <1>1 DEF IInput, PressedIsHeld, I!InputIsAimed, InputTypes
<1>3. QED  BY <1>1, <1>2, KeysOnly

LEMMA KeyTaken ==
  ASSUME IInput, I!Runs, commands # <<>>
  PROVE  /\ I!Command \in Elements(commands)
         /\ I!Command.kind # "stop" => I!Command \in Strokes /\ I!Command.seen \in Pictures
         /\ I!Command.kind = "key" => I!Command.seen.gen >= I!Command.gen
<1>1. InputTypes /\ GateIsSafe /\ commands \in Seq(Strokes \cup Stops)
  BY DEF IInput, InputTypes
<1>2. I!Command \in Elements(commands)
  BY <1>1, TailOf DEF I!Command
<1>3. QED  BY <1>1, <1>2, InputsIn DEF GateIsSafe, Pictures

\* What is pressed was seen.
LEMMA PressedIsSeen ==
  ASSUME IInput, I!Runs, commands # <<>>, I!Command.kind = "key", I!Applies(I!Command.gen)
  PROVE  I!Command.seen.desktop = screen /\ I!Command.seen.gen = fence.gen
<1>1. /\ I!Command.seen \in Pictures /\ I!Command.seen.gen >= I!Command.gen
      /\ I!Command.gen = fence.gen
      /\ fence.ready /\ screen = fence.desktop
  BY KeyTaken DEF I!Applies
<1>2. /\ fence.gen > 0 /\ fence.gen \in Nat /\ PicturesAgree
  BY <1>1 DEF IInput, BarrierFirst, InputTypes, Fences
<1>3. I!Command.seen.gen \in Nat /\ I!Command.seen.gen <= fence.gen
  BY <1>1, <1>2 DEF PicturesAgree, Images
<1>4. I!Command.seen.gen = fence.gen
  BY <1>1, <1>2, <1>3
<1>5. QED  BY <1>1, <1>2, <1>4 DEF PicturesAgree

LEMMA ApplyKeyKeeps == ASSUME IInput, NEW stuck \in BOOLEAN, I!ApplyKey(stuck) PROVE IInput'
<1>0. /\ UNCHANGED I!HelperRest /\ UNCHANGED <<screen, unattended, fence>> /\ helper.at = "run"
      /\ I!Runs /\ commands # <<>> /\ I!Command.kind = "key" /\ commands' = Tail(commands)
      /\ InputTypes /\ PressedIsHeld /\ helper \in Helpers /\ ~stray /\ pressed \subseteq Keys
  BY DEF I!ApplyKey, I!Takes, I!Runs, I!HelperRest, IInput, InputTypes, I!TypeOK,
     I!InputIsAimed
<1>1. CASE helper.stopping
  <2>1. UNCHANGED <<helper, pressed, stray>>
    BY <1>1 DEF I!ApplyKey
  <2>2. PressedIsHeld'
    BY <1>0, <2>1, PressedStay
  <2>3. QED  BY <1>0, <2>1, <2>2, RestKeeps
<1>2. CASE /\ ~helper.stopping
           /\ ~(I!Looked.available /\ ~I!Looked.pending /\ I!Applies(I!Command.gen))
  <2>1. helper' = I!Looked /\ UNCHANGED <<pressed, stray>>
    BY <1>2 DEF I!ApplyKey
  <2>2. QED  BY <1>0, <2>1, LookedKeeps, RestKeeps
<1>3. CASE /\ ~helper.stopping /\ I!Looked.available /\ ~I!Looked.pending
           /\ I!Applies(I!Command.gen)
  <2> DEFINE k == I!Command.key
             b == I!Bound(I!Looked, I!Command.gen)
             After(S) == IF stuck THEN S ELSE IF I!Command.down THEN S \cup {k} ELSE S \ {k}
  <2>1. /\ pressed' = After(pressed)
        /\ helper' = [b EXCEPT !.held = After(@), !.pending = stuck /\ ~I!Command.down]
        /\ stray' = (stray \/ I!Command.seen.desktop # screen \/ I!Command.seen.gen # fence.gen)
    BY <1>3 DEF I!ApplyKey
  <2>2. ~stray'
    BY <1>0, <1>3, <2>1, PressedIsSeen
  <2>3. Continues(I!Looked) /\ I!Looked.at = "run" /\ ~I!Looked.stopping
    BY <1>0, <1>3, LookedIs
  <2>4. /\ b \in Helpers /\ b.mark = helper.mark /\ b.at = "run" /\ ~b.stopping
        /\ b.gen = I!Command.gen /\ b.desktop = screen /\ pressed \subseteq b.held
    <3>1. I!Command.gen = fence.gen /\ screen = fence.desktop /\ screen \in I!Desktops
          /\ fence.gen \in Nat /\ (pressed # {} => pressed \subseteq helper.held)
          /\ (pressed # {} => helper.gen = fence.gen /\ helper.desktop = screen)
      BY <1>0, <1>3 DEF I!Applies, InputTypes, I!TypeOK, Fences, PressedIsHeld
    <3>2. CASE I!Looked.gen = I!Command.gen /\ I!Looked.desktop = screen
      BY <2>3, <3>1, <3>2 DEF I!Bound, Continues
    <3>3. CASE ~(I!Looked.gen = I!Command.gen /\ I!Looked.desktop = screen)
      <4>1. b = [I!Looked EXCEPT !.held = {}, !.gen = I!Command.gen, !.desktop = screen]
        BY <3>3 DEF I!Bound
      <4>2. pressed = {}
        BY <2>3, <3>1, <3>3 DEF Continues
      <4>3. QED  BY <2>3, <3>1, <4>1, <4>2 DEF Helpers, Continues
    <3>4. QED  BY <3>2, <3>3
  <2> HIDE DEF b
  <2>5. k \in Keys
    BY <1>0, KeyTaken DEF Strokes
  <2>6. /\ After(pressed) \subseteq After(b.held) /\ After(b.held) \in SUBSET Keys
        /\ After(pressed) \subseteq Keys
    BY <1>0, <2>4, <2>5 DEF Helpers
  <2> HIDE DEF After, k
  <2>7. /\ helper' \in Helpers /\ helper'.mark = helper.mark /\ helper'.at = "run"
        /\ ~helper'.stopping /\ helper'.held = After(b.held) /\ helper'.gen = I!Command.gen
        /\ helper'.desktop = screen
    <3>1. PICK left \in BOOLEAN : left <=> (stuck /\ ~I!Command.down)
      OBVIOUS
    <3>2. helper' = [b EXCEPT !.held = After(b.held), !.pending = left]
      BY <2>1, <3>1
    <3>3. QED  BY <2>4, <2>6, <3>2 DEF Helpers
  <2>8. PressedIsHeld'
    BY <1>0, <1>3, <2>1, <2>6, <2>7 DEF PressedIsHeld, I!Applies, I!Controllable
  <2>9. QED  BY <1>0, <2>1, <2>2, <2>6, <2>7, <2>8, RestKeeps
<1>4. QED  BY <1>1, <1>2, <1>3

LEMMA ApplyReleaseKeeps == ASSUME IInput, NEW stuck \in BOOLEAN, I!ApplyRelease(stuck) PROVE IInput'
<1>0. /\ UNCHANGED <<I!HelperRest, stray>> /\ UNCHANGED <<screen, unattended, fence>>
      /\ helper.at = "run" /\ commands # <<>> /\ commands' = Tail(commands)
      /\ InputTypes /\ PressedIsHeld /\ helper \in Helpers /\ ~stray /\ pressed \subseteq Keys
  BY DEF I!ApplyRelease, I!Takes, I!Runs, I!HelperRest, IInput, InputTypes, I!TypeOK,
     I!InputIsAimed
<1>1. CASE fence.gen = I!Command.gen
  <2>1. Continues(helper) /\ I!Release(helper, fence.gen, stuck)
    BY <1>0, <1>1 DEF I!ApplyRelease, Continues
  <2>2. /\ helper' \in Helpers /\ helper'.mark = helper.mark /\ helper'.at = helper.at
        /\ PressedIsHeld' /\ pressed' \subseteq Keys
    BY <1>0, <2>1, ReleaseKeeps
  <2>3. QED  BY <1>0, <2>2, RestKeeps
<1>2. CASE fence.gen # I!Command.gen
  <2>1. UNCHANGED <<helper, pressed>>
    BY <1>2 DEF I!ApplyRelease
  <2>2. PressedIsHeld'
    BY <1>0, <2>1, PressedStay
  <2>3. QED  BY <1>0, <2>1, <2>2, RestKeeps
<1>3. QED  BY <1>1, <1>2

LEMMA HelperStopKeeps == ASSUME IInput, NEW stuck \in BOOLEAN, I!HelperStop(stuck) PROVE IInput'
<1> DEFINE h == [helper EXCEPT !.stopping = TRUE]
<1>0. /\ UNCHANGED <<I!HelperRest, stray>> /\ UNCHANGED <<screen, unattended, fence>>
      /\ helper.at = "run" /\ commands # <<>> /\ commands' = Tail(commands)
      /\ helper \in Helpers /\ ~stray /\ I!ReleaseCurrent(h, stuck)
  BY DEF I!HelperStop, I!Takes, I!Runs, I!HelperRest, IInput, InputTypes, I!InputIsAimed
<1>1. Continues(h) /\ h.at = "run"
  BY <1>0 DEF Continues, Helpers
<1> HIDE DEF h
<1>2. /\ helper' \in Helpers /\ helper'.mark = helper.mark /\ helper'.at = "run"
      /\ PressedIsHeld' /\ pressed' \subseteq Keys
  BY <1>0, <1>1, ReleaseCurrentKeeps
<1>3. QED  BY <1>0, <1>2, RestKeeps

LEMMA DesktopCheckKeeps == ASSUME IInput, NEW stuck \in BOOLEAN, I!DesktopCheck(stuck) PROVE IInput'
<1>0. /\ UNCHANGED <<I!HelperRest, commands, stray>> /\ UNCHANGED <<screen, unattended, fence>>
      /\ helper.at = "run" /\ ~stray
  BY DEF I!DesktopCheck, I!Runs, I!HelperRest, IInput, I!InputIsAimed
<1>1. CASE I!ReleaseCurrent(I!Looked, stuck)
  <2>1. Continues(I!Looked) /\ I!Looked.at = "run"
    BY <1>0, LookedIs
  <2>2. /\ helper' \in Helpers /\ helper'.mark = helper.mark /\ helper'.at = "run"
        /\ PressedIsHeld' /\ pressed' \subseteq Keys
    BY <1>0, <1>1, <2>1, ReleaseCurrentKeeps
  <2>3. QED  BY <1>0, <2>2, RestKeeps
<1>2. CASE helper' = I!Looked /\ UNCHANGED pressed
  BY <1>0, <1>2, LookedKeeps, RestKeeps
<1>3. QED  BY <1>1, <1>2 DEF I!DesktopCheck

\* The helper ends.
LEMMA EndKeeps ==
  ASSUME IInput, UNCHANGED <<I!HelperRest, commands, pressed, stray>>,
         \/ helper' = [helper EXCEPT !.at = "killed"]
         \/ /\ helper.stopping /\ ~helper.pending /\ helper.at # "killed"
            /\ helper' = [helper EXCEPT !.at = "stopped"]
  PROVE  IInput'
<1>0. /\ UNCHANGED <<screen, unattended, fence>> /\ InputTypes /\ PressedIsHeld /\ ~stray
      /\ helper \in Helpers
  BY DEF I!HelperRest, IInput, InputTypes, I!InputIsAimed
<1>1. /\ helper' \in Helpers /\ helper'.mark = helper.mark /\ helper'.gen = helper.gen
      /\ helper'.at \in {"killed", "stopped"} /\ helper'.desktop = helper.desktop
      /\ helper'.held = helper.held /\ helper'.stopping = helper.stopping
      /\ helper'.pending = helper.pending
      /\ helper'.at = "stopped" => helper.stopping /\ ~helper.pending /\ helper.at # "killed"
  <2>1. CASE helper' = [helper EXCEPT !.at = "killed"]
    BY <1>0, <2>1 DEF Helpers
  <2>2. CASE /\ helper.stopping /\ ~helper.pending /\ helper.at # "killed"
             /\ helper' = [helper EXCEPT !.at = "stopped"]
    BY <1>0, <2>2 DEF Helpers
  <2>3. QED  BY <2>1, <2>2
<1>2. PressedIsHeld' /\ pressed' \subseteq Keys
  BY <1>0, <1>1, PressedMoves DEF PressedIsHeld
<1>3. QED  BY <1>0, <1>1, <1>2, RestKeeps

LEMMA HelperStoppedKeeps == ASSUME IInput, I!HelperStopped PROVE IInput'
BY EndKeeps DEF I!HelperStopped, I!Runs

LEMMA HelperKilledKeeps == ASSUME IInput, I!HelperKilled PROVE IInput'
BY EndKeeps DEF I!HelperKilled

LEMMA WithdrawKeeps == ASSUME IInput, I!Withdraw PROVE IInput'
<1> DEFINE h == [helper EXCEPT !.at = "killed"]
<1>0. /\ UNCHANGED <<I!HelperRest, commands, stray>> /\ UNCHANGED <<screen, unattended, fence>>
      /\ helper \in Helpers /\ ~stray
  BY DEF I!Withdraw, I!HelperRest, IInput, InputTypes, I!InputIsAimed
<1>1. PICK stuck \in BOOLEAN : I!ReleaseCurrent(h, stuck)
  BY DEF I!Withdraw
<1>2. Continues(h) /\ h.at = "killed"
  BY <1>0 DEF Continues, Helpers
<1> HIDE DEF h
<1>3. /\ helper' \in Helpers /\ helper'.mark = helper.mark /\ helper'.at = "killed"
      /\ PressedIsHeld' /\ pressed' \subseteq Keys
  BY <1>0, <1>1, <1>2, ReleaseCurrentKeeps
<1>4. QED  BY <1>0, <1>3, RestKeeps

-----------------------------------------------------------------------------
\* The relay and the page.
LEMMA RelayBarrierKeeps == ASSUME IInput, I!RelayBarrier PROVE IInput'
<1>0. /\ UNCHANGED <<screen, pressed, unattended, capture, fence, events, helper, stray, statuses,
                     readies, frame, tab, commands, typed>>
      /\ barriers # <<>> /\ barriers' = Tail(barriers) /\ gate \in Gates
      /\ InputTypes /\ BarrierFirst /\ GateIsSafe /\ gate.gen <= fence.gen
      /\ PagesAreOrdered /\ InputsAreOrdered
  BY DEF I!RelayBarrier, I!display, I!viewer, IInput, InputTypes, I!TypeOK
<1>1. /\ Head(barriers) \in Nat /\ Head(barriers) <= fence.gen /\ barriers' \in Seq(Nat)
      /\ Elements(barriers') \subseteq Elements(barriers)
  BY <1>0, TailOf DEF InputTypes, BarrierFirst
<1>2. /\ gate' \in Gates /\ gate'.gen <= fence.gen /\ gate'.closed = gate.closed
      /\ gate' = gate \/ (~gate'.ready /\ gate'.awaits = 0)
  <2>1. CASE gate' = gate
    BY <1>0, <2>1
  <2>2. CASE gate' = [gate EXCEPT !.gen = Head(barriers), !.ready = FALSE, !.awaits = 0]
    BY <1>0, <1>1, <2>2 DEF Gates
  <2>3. QED  BY <2>1, <2>2 DEF I!RelayBarrier
<1>3. Frames' = Frames /\ Pictures' = Pictures
  BY <1>0 DEF Frames, Pictures
<1>4. PagesAreOrdered' /\ InputsAreOrdered'
  BY <1>0, <1>3 DEF PagesAreOrdered, InputsAreOrdered
<1>5. GateIsSafe'
  BY <1>0, <1>2, <1>3 DEF GateIsSafe
<1>6. QED  BY <1>0, <1>1, <1>2, <1>3, <1>4, <1>5, PageOnly DEF InputTypes

LEMMA RelayReadyKeeps == ASSUME IInput, I!RelayReady PROVE IInput'
<1>0. /\ UNCHANGED <<screen, pressed, unattended, capture, fence, events, helper, stray, statuses,
                     barriers, frame, tab, commands, typed>>
      /\ readies # <<>> /\ readies' = Tail(readies) /\ gate \in Gates
      /\ InputTypes /\ PicturesAgree /\ GateIsSafe /\ gate.gen <= fence.gen
      /\ PagesAreOrdered /\ InputsAreOrdered /\ readies \in Seq(Images)
  BY DEF I!RelayReady, I!display, I!viewer, IInput, InputTypes, I!TypeOK
<1> DEFINE h == Head(readies)
<1>1. /\ h \in Pictures /\ h.seq \in Nat /\ readies' \in Seq(Images)
      /\ Elements(readies') \subseteq Elements(readies)
  <2>1. /\ h \in Elements(readies) /\ h \in Images /\ readies' \in Seq(Images)
        /\ Elements(readies') \subseteq Elements(readies)
    BY <1>0, TailOf
  <2>2. h \in Pictures /\ h.seq \in Nat
    BY <2>1 DEF Images, Pictures
  <2>3. QED  BY <2>1, <2>2
<1>2. /\ gate' \in Gates /\ gate'.gen = gate.gen /\ gate'.closed = gate.closed
      /\ gate' = gate \/ (~gate'.ready /\ gate'.awaits = h.seq /\ h.gen = gate.gen)
  <2>1. CASE gate' = gate
    BY <1>0, <2>1
  <2>2. CASE h.gen = gate.gen /\ gate' = [gate EXCEPT !.ready = FALSE, !.awaits = h.seq]
    BY <1>0, <1>1, <2>2 DEF Gates
  <2>3. QED  BY <2>1, <2>2 DEF I!RelayReady
<1>3. Frames' = Frames /\ Pictures' \subseteq Pictures
  BY <1>0, <1>1 DEF Frames, Pictures
<1>4. PagesAreOrdered' /\ InputsAreOrdered'
  BY <1>0, <1>3 DEF PagesAreOrdered, InputsAreOrdered
<1>5. GateIsSafe'
  <2>1. \A p \in Pictures : p.seq >= h.seq => p.gen >= h.gen
    BY <1>0, <1>1 DEF PicturesAgree
  <2> HIDE DEF h
  <2>2. QED  BY <1>0, <1>2, <1>3, <2>1 DEF GateIsSafe
<1>6. QED  BY <1>0, <1>1, <1>2, <1>3, <1>4, <1>5, PageOnly DEF InputTypes

LEMMA TypedTaken ==
  ASSUME IInput, typed # <<>>, typed' = Tail(typed), tab'.shown = tab.shown
  PROVE  /\ typed' \in Seq(Strokes) /\ Elements(typed') \subseteq Elements(typed)
         /\ InputsAreOrdered'
<1>1. /\ typed' \in Seq(Strokes) /\ Elements(typed') \subseteq Elements(typed)
      /\ Len(typed) \in Nat /\ Len(typed') \in Nat
      /\ \A i \in 1 .. Len(typed') : i + 1 \in 1 .. Len(typed) /\ typed'[i] = typed[i + 1]
  BY TailOf DEF IInput, InputTypes
<1>2. \A x \in Elements(typed') : x.seen.seq <= tab.shown.seq
  BY <1>1 DEF IInput, InputsAreOrdered
<1>3. ASSUME NEW i \in 1 .. Len(typed'), NEW j \in 1 .. Len(typed'), i <= j
      PROVE  typed'[i].seen.seq <= typed'[j].seen.seq
  <2>1. i + 1 <= j + 1 /\ i + 1 \in 1 .. Len(typed) /\ j + 1 \in 1 .. Len(typed)
    BY <1>1, <1>3
  <2>2. QED  BY <1>1, <2>1 DEF IInput, InputsAreOrdered
<1>4. QED  BY <1>1, <1>2, <1>3 DEF InputsAreOrdered

LEMMA RelayControlKeeps == ASSUME IInput, I!RelayControl PROVE IInput'
<1> DEFINE m == Head(typed)
           sent == [m EXCEPT !.gen = gate.gen]
<1>0. /\ UNCHANGED <<screen, pressed, unattended, capture, fence, events, helper, stray, statuses,
                     barriers, readies, frame, tab>>
      /\ typed # <<>> /\ typed' = Tail(typed) /\ gate \in Gates /\ ~gate.closed
      /\ InputTypes /\ PicturesAgree /\ GateIsSafe /\ gate.gen <= fence.gen
      /\ PagesAreOrdered /\ InputsAreOrdered /\ typed \in Seq(Strokes)
      /\ commands \in Seq(Strokes \cup Stops) /\ tab \in Tabs
  BY DEF I!RelayControl, I!Open, I!display, IInput, InputTypes, I!TypeOK
<1>1. /\ m \in Strokes /\ m \in Elements(typed) /\ typed' \in Seq(Strokes) /\ m = typed[1]
      /\ Elements(typed') \subseteq Elements(typed) /\ m.seen \in Images /\ m.seen \in Pictures
      /\ Len(typed) \in Nat /\ 1 \in 1 .. Len(typed)
  BY <1>0, TailOf DEF Strokes, Pictures
<1>2. sent \in Strokes /\ sent.seen = m.seen /\ sent.gen = gate.gen
  BY <1>0, <1>1 DEF Strokes, Gates
<1> HIDE DEF sent
<1>3. /\ gate' = gate \/ (/\ gate.awaits # 0 /\ m.seen.seq >= gate.awaits
                          /\ gate' = [gate EXCEPT !.awaits = 0, !.ready = TRUE])
      /\ commands' = commands \/ (gate.ready /\ commands' = Append(commands, sent))
  BY DEF I!RelayControl, I!Observed, sent
<1>4. commands' \in Seq(Strokes \cup Stops)
      /\ Elements(commands') \subseteq Elements(commands) \cup {sent}
      /\ (Elements(commands') \subseteq Elements(commands) \/ gate.ready)
  <2>1. CASE commands' = commands
    BY <1>0, <2>1
  <2>2. CASE gate.ready /\ commands' = Append(commands, sent)
    <3>1. sent \in Strokes \cup Stops
      BY <1>2
    <3>2. /\ Append(commands, sent) \in Seq(Strokes \cup Stops)
          /\ Elements(Append(commands, sent)) = Elements(commands) \cup {sent}
      BY <1>0, <3>1, AppendOf
    <3>3. QED  BY <2>2, <3>2
  <2>3. QED  BY <1>3, <2>1, <2>2
<1>5. /\ gate' \in Gates /\ gate'.gen = gate.gen /\ gate'.closed = gate.closed
      /\ gate' = gate \/ gate'.awaits = 0
  <2>1. CASE gate' = gate
    BY <1>0, <2>1
  <2>2. CASE gate' = [gate EXCEPT !.awaits = 0, !.ready = TRUE]
    BY <1>0, <2>2 DEF Gates
  <2>3. QED  BY <1>3, <2>1, <2>2
<1>6. Frames' = Frames /\ Pictures' \subseteq Pictures
  BY <1>0, <1>1, <1>2, <1>4 DEF Frames, Pictures
<1>7. PagesAreOrdered'
  BY <1>0, <1>6 DEF PagesAreOrdered
<1>8. InputsAreOrdered'
  BY <1>0, TypedTaken
<1>9. \A x \in Elements(typed) : x.seen \in Pictures /\ x.seen.seq >= m.seen.seq
  <2> SUFFICES ASSUME NEW i \in 1 .. Len(typed)
               PROVE  typed[i].seen \in Pictures /\ typed[i].seen.seq >= m.seen.seq
    BY DEF Elements
  <2>1. typed[i] \in Elements(typed) /\ 1 <= i
    BY <1>1 DEF Elements
  <2>2. typed[i].seen \in Pictures /\ typed[i].seen \in Images
    BY <1>0, <2>1, InputsIn DEF Pictures
  <2>3. typed[1].seen.seq <= typed[i].seen.seq
    BY <1>0, <1>1, <2>1 DEF InputsAreOrdered
  <2>4. QED  BY <1>1, <2>2, <2>3 DEF Images
<1>10. GateIsSafe'
  <2>1. gate'.awaits # 0 => \A p \in Pictures' : p.seq >= gate'.awaits => p.gen >= gate'.gen
    BY <1>0, <1>5, <1>6 DEF GateIsSafe
  <2>2. gate'.ready => /\ tab.shown.gen >= gate.gen
                       /\ \A x \in Elements(typed) : x.seen.gen >= gate.gen
    <3>1. CASE gate' = gate
      BY <1>0, <3>1 DEF GateIsSafe
    <3>2. CASE gate.awaits # 0 /\ m.seen.seq >= gate.awaits
      <4>1. \A p \in Pictures : p.seq >= m.seen.seq => p.gen >= gate.gen
        <5>1. \A p \in Pictures : p.seq \in Nat
          BY <1>0 DEF PicturesAgree, Images
        <5>2. m.seen.seq \in Nat /\ gate.awaits \in Nat
          BY <1>0, <1>1 DEF Images, Gates
        <5>3. QED  BY <1>0, <3>2, <5>1, <5>2 DEF GateIsSafe
      <4>2. tab.shown \in Pictures /\ tab.shown.seq >= m.seen.seq
        <5>1. m.seen.seq <= tab.shown.seq
          BY <1>0, <1>1 DEF InputsAreOrdered
        <5>2. m.seen.seq \in Nat /\ tab.shown.seq \in Nat
          BY <1>0, <1>1 DEF Images, Tabs
        <5>3. QED  BY <5>1, <5>2 DEF Pictures
      <4>3. QED  BY <1>9, <4>1, <4>2
    <3>3. QED  BY <1>3, <3>1, <3>2
  <2>3. \A x \in Elements(commands') : x.kind = "key" => x.seen.gen >= x.gen
    <3>1. gate.ready => m.seen.gen >= gate.gen
      BY <1>0, <1>1 DEF GateIsSafe
    <3>2. QED  BY <1>0, <1>2, <1>4, <3>1 DEF GateIsSafe
  <2>4. QED  BY <1>0, <1>1, <1>5, <2>1, <2>2, <2>3 DEF GateIsSafe
<1>11. QED  BY <1>0, <1>1, <1>4, <1>5, <1>6, <1>7, <1>8, <1>10, PageOnly DEF InputTypes

LEMMA RelayCloseKeeps == ASSUME IInput, I!RelayClose PROVE IInput'
<1>0. /\ UNCHANGED <<screen, pressed, unattended, capture, fence, events, helper, stray>>
      /\ gate' = [gate EXCEPT !.closed = TRUE] /\ gate \in Gates /\ gate.gen <= fence.gen
      /\ commands' = Append(commands, [kind |-> "stop"])
      /\ barriers' = <<>> /\ readies' = <<>> /\ statuses' = <<>> /\ frame' = I!Nothing
      /\ tab' = I!Blank /\ typed' = <<>> /\ commands \in Seq(Strokes \cup Stops)
      /\ InputTypes /\ PicturesAgree /\ GateIsSafe /\ PagesAreOrdered
  BY DEF I!RelayClose, I!display, IInput, InputTypes, I!TypeOK
<1>1. /\ I!Nothing \in Images /\ I!Nothing.seq = 0 /\ I!Blank \in Tabs
      /\ tab'.frame = I!Nothing /\ tab'.shown = I!Nothing
  BY <1>0, InputsIn DEF I!Blank, Tabs, I!Desktops
<1>2. /\ gate' \in Gates /\ gate'.gen = gate.gen /\ gate'.closed /\ gate'.awaits = gate.awaits
  BY <1>0 DEF Gates
<1>3. /\ commands' \in Seq(Strokes \cup Stops)
      /\ Elements(commands') = Elements(commands) \cup {[kind |-> "stop"]}
  <2>1. [kind |-> "stop"] \in Strokes \cup Stops
    BY DEF Stops
  <2>2. QED  BY <1>0, <2>1, AppendOf
<1>4. /\ Elements(barriers') = {} /\ Elements(readies') = {} /\ Elements(typed') = {}
      /\ Len(typed') = 0
      /\ barriers' \in Seq(Nat) /\ readies' \in Seq(Images) /\ statuses' \in Seq(News)
      /\ typed' \in Seq(Strokes)
  BY <1>0, EmptyElements
<1>5. Frames' = Frames /\ Pictures' \subseteq Pictures
  BY <1>0, <1>1, <1>3, <1>4 DEF Frames, Pictures
<1>6. PagesAreOrdered'
  <2>1. \A f \in Frames : f.seq \in Nat
    BY <1>0, FramesCount
  <2>2. \A f \in Frames : {tab'.shown.seq, tab'.frame.seq, frame'.seq} \subseteq 0 .. f.seq
    BY <1>0, <1>1, <2>1
  <2>3. QED  BY <1>0, <1>1, <1>5, <2>2 DEF PagesAreOrdered
<1>7. InputsAreOrdered'
  BY <1>4 DEF InputsAreOrdered
<1>8. GateIsSafe'
  BY <1>0, <1>2, <1>3, <1>5 DEF GateIsSafe
<1>9. QED  BY <1>0, <1>1, <1>2, <1>3, <1>4, <1>5, <1>6, <1>7, <1>8, PageOnly

\* The page shows what came, or says what its user does.
LEMMA TabIn ==
  ASSUME InputTypes
  PROVE  /\ tab \in Tabs /\ tab.shown \in Images /\ tab.frame \in Images /\ frame \in Images
         /\ gate \in Gates /\ gate.gen <= fence.gen
         /\ tab.shown \in Pictures /\ tab.frame \in Pictures /\ frame \in Pictures
         /\ tab.shown.seq \in Nat /\ tab.frame.seq \in Nat /\ frame.seq \in Nat
BY DEF InputTypes, I!TypeOK, Tabs, Images, Pictures

LEMMA MessageIs ==
  ASSUME InputTypes, NEW kind \in {"key", "release", "feedback"}, NEW k, NEW isDown \in BOOLEAN,
         kind = "key" => k \in Keys, kind # "key" => k = None
  PROVE  I!Message(kind, k, isDown) \in Strokes /\ I!Message(kind, k, isDown).seen = tab.shown
BY TabIn DEF I!Message, Strokes

\* The page keeps, or loses, the picture it has not shown yet.
LEMMA PagesStay ==
  ASSUME IInput, UNCHANGED <<frame, events>>, tab'.shown = tab.shown,
         tab'.frame \in {tab.frame, I!Nothing}
  PROVE  PagesAreOrdered'
<1>0. InputTypes /\ PagesAreOrdered /\ PicturesAgree /\ I!Nothing.seq = 0 /\ Frames' = Frames
  BY InputsIn DEF IInput, Frames
<1>1. \A f \in Frames : 0 \in 0 .. f.seq
  BY <1>0, FramesCount
<1>2. tab.shown.seq \in Nat /\ frame.seq \in Nat
  BY <1>0, TabIn
<1>3. CASE tab'.frame = tab.frame
  BY <1>0, <1>3 DEF PagesAreOrdered
<1>4. CASE tab'.frame = I!Nothing
  <2>1. \A f \in Frames : {tab'.shown.seq, tab'.frame.seq, frame'.seq} \subseteq 0 .. f.seq
    BY <1>0, <1>1, <1>4 DEF PagesAreOrdered
  <2>2. frame' # I!Nothing => tab'.shown.seq <= frame'.seq /\ tab'.frame.seq <= frame'.seq
    BY <1>0, <1>2, <1>4 DEF PagesAreOrdered
  <2>3. QED  BY <1>0, <1>4, <2>1, <2>2 DEF PagesAreOrdered
<1>5. QED  BY <1>3, <1>4

\* A message is added to those of the page, which shows the same picture as before.
LEMMA TypedKeeps ==
  ASSUME IInput, NEW m \in Strokes, m.seen = tab.shown, typed' = Append(typed, m), ~gate.closed,
         UNCHANGED <<screen, pressed, unattended, capture, fence, events, helper, stray, barriers,
                     readies, frame, gate, commands>>,
         statuses' \in Seq(News), tab' \in Tabs, tab'.shown = tab.shown,
         tab'.frame \in {tab.frame, I!Nothing}
  PROVE  IInput'
<1>0. /\ InputTypes /\ PagesAreOrdered /\ InputsAreOrdered /\ GateIsSafe /\ PicturesAgree
      /\ typed \in Seq(Strokes) /\ I!Nothing \in Pictures /\ I!Nothing.seq = 0
  BY InputsIn DEF IInput, InputTypes, Pictures
<1>1. /\ typed' \in Seq(Strokes) /\ Elements(typed') = Elements(typed) \cup {m}
      /\ Len(typed) \in Nat /\ Len(typed') = Len(typed) + 1 /\ typed'[Len(typed) + 1] = m
      /\ \A i \in 1 .. Len(typed) : typed'[i] = typed[i]
  BY <1>0, AppendOf
<1>2. Frames' = Frames /\ Pictures' \subseteq Pictures
  BY <1>0, <1>1 DEF Frames, Pictures
<1>3. PagesAreOrdered'
  BY PagesStay
<1>4. InputsAreOrdered'
  <2>1. \A x \in Elements(typed') : x.seen.seq <= tab.shown.seq
    BY <1>0, <1>1, TabIn DEF InputsAreOrdered
  <2>2. ASSUME NEW i \in 1 .. Len(typed'), NEW j \in 1 .. Len(typed'), i <= j
        PROVE  typed'[i].seen.seq <= typed'[j].seen.seq
    <3>1. CASE j \in 1 .. Len(typed)
      <4>1. i \in 1 .. Len(typed)
        BY <1>1, <2>2, <3>1
      <4>2. QED  BY <1>0, <1>1, <2>2, <3>1, <4>1 DEF InputsAreOrdered
    <3>2. CASE j = Len(typed) + 1
      <4>1. typed'[i] \in Elements(typed')
        BY DEF Elements
      <4>2. QED  BY <1>1, <2>1, <3>2, <4>1
    <3>3. QED  BY <1>1, <3>1, <3>2
  <2>3. QED  BY <2>1, <2>2 DEF InputsAreOrdered
<1>5. GateIsSafe'
  BY <1>0, <1>1, <1>2 DEF GateIsSafe
<1>6. /\ readies' \in Seq(Images) /\ barriers' \in Seq(Nat) /\ frame' \in Images
      /\ commands' \in Seq(Strokes \cup Stops) /\ gate' \in Gates /\ gate'.gen <= fence.gen
  BY <1>0, TabIn DEF InputTypes
<1>7. QED  BY <1>1, <1>2, <1>3, <1>4, <1>5, <1>6, PageOnly

LEMMA RelayStatusKeeps == ASSUME IInput, I!RelayStatus PROVE IInput'
<1> DEFINE m == Head(statuses)
           paused == m.kind = "desktop" /\ m.desktop \notin I!Controllable
<1>0. /\ UNCHANGED <<screen, pressed, unattended, capture, fence, events, helper, stray, barriers,
                     readies, frame, gate, commands>>
      /\ statuses # <<>> /\ statuses' = Tail(statuses) /\ statuses \in Seq(News)
      /\ ~gate.closed /\ InputTypes
      /\ tab' = IF m.kind = "ready" THEN [tab EXCEPT !.ready = TRUE]
                ELSE [tab EXCEPT
                  !.ready = @ /\ ~I!Resets(m), !.first = @ /\ ~I!Resets(m),
                  !.frame = IF I!Resets(m) THEN I!Nothing ELSE @,
                  !.kind  = IF m.kind = "desktop" THEN m.desktop ELSE @]
      /\ typed' = IF I!Resets(m) \/ paused THEN Append(typed, I!Message("release", None, FALSE))
                  ELSE typed
  BY DEF I!RelayStatus, I!Open, I!display, IInput, InputTypes
<1>1. /\ statuses' \in Seq(News) /\ m \in News /\ (m.kind = "desktop" => m.desktop \in I!Desktops)
  <2>1. statuses' \in Seq(News) /\ m \in News
    BY <1>0, TailOf
  <2>2. m.kind = "desktop" => m.desktop \in I!Desktops
    BY <2>1 DEF News
  <2>3. QED  BY <2>1, <2>2
<1>2. /\ tab \in Tabs /\ I!Nothing \in Images
      /\ tab.frame \in Images /\ tab.ready \in BOOLEAN /\ tab.first \in BOOLEAN
      /\ tab.kind \in I!Desktops
  BY <1>0, InputsIn DEF InputTypes, Tabs
<1>3. tab' \in Tabs /\ tab'.shown = tab.shown /\ tab'.frame \in {tab.frame, I!Nothing}
  <2>1. CASE m.kind = "ready"
    BY <1>0, <1>2, <2>1 DEF Tabs
  <2>2. CASE m.kind # "ready"
    <3>1. PICK now \in BOOLEAN, first \in BOOLEAN, f \in {tab.frame, I!Nothing}, d \in I!Desktops :
            tab' = [tab EXCEPT !.ready = now, !.first = first, !.frame = f, !.kind = d]
      <4> DEFINE now == tab.ready /\ ~I!Resets(m)
                 first == tab.first /\ ~I!Resets(m)
                 f == IF I!Resets(m) THEN I!Nothing ELSE tab.frame
                 d == IF m.kind = "desktop" THEN m.desktop ELSE tab.kind
      <4>1. tab' = [tab EXCEPT !.ready = now, !.first = first, !.frame = f, !.kind = d]
        BY <1>0, <2>2
      <4>2. f \in {tab.frame, I!Nothing} /\ d \in I!Desktops
        BY <1>1, <1>2
      <4>3. now \in BOOLEAN /\ first \in BOOLEAN
        OBVIOUS
      <4> HIDE DEF now, first, f, d
      <4>4. QED  BY <4>1, <4>2, <4>3
    <3>2. QED  BY <1>2, <3>1 DEF Tabs
  <2>3. QED  BY <2>1, <2>2
<1>4. CASE typed' = typed
  <2>1. Frames' = Frames /\ Pictures' \subseteq Pictures
    <3>1. Frames' = Frames
      BY <1>0 DEF Frames
    <3>2. tab'.shown = tab.shown /\ tab'.frame \in {tab.frame, I!Nothing}
      BY <1>3
    <3>3. UNCHANGED <<frame, helper, readies, commands, typed>>
      BY <1>0, <1>4
    <3> HIDE DEF m, paused
    <3>4. QED  BY <3>1, <3>2, <3>3 DEF Pictures
  <2>2. PagesAreOrdered'
    BY <1>0, <1>3, PagesStay
  <2>3. InputsAreOrdered' /\ GateIsSafe'
    BY <1>0, <1>3, <1>4, <2>1 DEF IInput, InputsAreOrdered, GateIsSafe
  <2>4. QED  BY <1>0, <1>1, <1>3, <1>4, <2>1, <2>2, <2>3, PageOnly, TabIn DEF InputTypes
<1>5. CASE typed' = Append(typed, I!Message("release", None, FALSE))
  <2>1. I!Message("release", None, FALSE) \in Strokes
        /\ I!Message("release", None, FALSE).seen = tab.shown
    BY <1>0, MessageIs
  <2>2. QED  BY <1>0, <1>1, <1>3, <1>5, <2>1, TypedKeeps
<1>6. QED  BY <1>0, <1>4, <1>5

LEMMA RelayFrameKeeps == ASSUME IInput, I!RelayFrame PROVE IInput'
<1>0. /\ UNCHANGED <<screen, pressed, unattended, capture, fence, events, helper, stray, barriers,
                     readies, gate, commands, statuses, typed>>
      /\ frame # I!Nothing /\ tab' = [tab EXCEPT !.frame = frame] /\ frame' = I!Nothing
      /\ InputTypes /\ PicturesAgree /\ PagesAreOrdered /\ InputsAreOrdered /\ GateIsSafe
  BY DEF I!RelayFrame, I!display, IInput
<1>1. /\ tab' \in Tabs /\ tab'.shown = tab.shown /\ tab'.frame = frame
      /\ I!Nothing \in Images /\ I!Nothing.seq = 0
  BY <1>0, TabIn, InputsIn DEF Tabs
<1>2. Frames' = Frames /\ Pictures' \subseteq Pictures
  BY <1>0, <1>1 DEF Frames, Pictures
<1>3. PagesAreOrdered'
  <2>1. \A f \in Frames : 0 \in 0 .. f.seq
    BY <1>0, FramesCount
  <2>2. QED  BY <1>0, <1>1, <1>2, <2>1 DEF PagesAreOrdered
<1>4. InputsAreOrdered' /\ GateIsSafe'
  BY <1>0, <1>1, <1>2 DEF InputsAreOrdered, GateIsSafe
<1>5. QED  BY <1>0, <1>1, <1>2, <1>3, <1>4, PageOnly, TabIn DEF InputTypes

LEMMA RenderKeeps == ASSUME IInput, I!Render PROVE IInput'
<1>0. /\ UNCHANGED <<screen, pressed, unattended, capture, fence, events, helper, stray, barriers,
                     readies, gate, commands, statuses, typed, frame>>
      /\ tab.frame # I!Nothing /\ ~gate.closed
      /\ tab' = [tab EXCEPT !.shown = tab.frame, !.frame = I!Nothing, !.first = TRUE]
      /\ InputTypes /\ PicturesAgree /\ PagesAreOrdered /\ InputsAreOrdered /\ GateIsSafe
  BY DEF I!Render, I!Open, I!display, I!agent, IInput
<1>1. /\ tab' \in Tabs /\ tab'.shown = tab.frame /\ tab'.frame = I!Nothing
      /\ I!Nothing \in Images /\ I!Nothing.seq = 0
  BY <1>0, TabIn, InputsIn DEF Tabs
<1>2. Frames' = Frames /\ Pictures' \subseteq Pictures
  BY <1>0, <1>1 DEF Frames, Pictures
<1>3. /\ tab.shown \in Pictures /\ tab.frame \in Pictures /\ frame \in Pictures
      /\ tab.shown.seq \in Nat /\ tab.frame.seq \in Nat /\ frame.seq \in Nat
      /\ tab.shown.seq <= tab.frame.seq
  BY <1>0, TabIn DEF PagesAreOrdered
<1>4. PagesAreOrdered'
  <2>1. \A f \in Frames : 0 \in 0 .. f.seq
    BY <1>0, FramesCount
  <2>2. \A f \in Frames : {tab'.shown.seq, tab'.frame.seq, frame'.seq} \subseteq 0 .. f.seq
    BY <1>0, <1>1, <2>1 DEF PagesAreOrdered
  <2>3. frame' # I!Nothing => tab'.shown.seq <= frame'.seq /\ tab'.frame.seq <= frame'.seq
    BY <1>0, <1>1, <1>3 DEF PagesAreOrdered
  <2>4. QED  BY <1>0, <1>1, <1>2, <2>2, <2>3 DEF PagesAreOrdered
<1>5. InputsAreOrdered'
  <2>1. \A m \in Elements(typed) : m.seen.seq <= tab.frame.seq
    <3>1. \A m \in Elements(typed) : m.seen.seq \in Nat /\ m.seen.seq <= tab.shown.seq
      BY <1>0, InputsIn DEF InputsAreOrdered, Images
    <3>2. QED  BY <1>3, <3>1
  <2>2. QED  BY <1>0, <1>1, <2>1 DEF InputsAreOrdered
<1>6. GateIsSafe'
  <2>1. tab.shown.gen >= gate.gen => tab.frame.gen >= gate.gen
    <3>1. tab.frame.gen >= tab.shown.gen
      BY <1>3 DEF PicturesAgree, IInput
    <3>2. tab.frame.gen \in Nat /\ tab.shown.gen \in Nat /\ gate.gen \in Nat
      BY <1>0, TabIn DEF Images, Gates
    <3>3. QED  BY <3>1, <3>2
  <2>2. QED  BY <1>0, <1>1, <1>2, <2>1 DEF GateIsSafe
<1>7. QED  BY <1>0, <1>1, <1>2, <1>4, <1>5, <1>6, PageOnly, TabIn DEF InputTypes

LEMMA MessageKeeps ==
  ASSUME IInput, NEW kind \in {"key", "release", "feedback"}, NEW k, NEW isDown \in BOOLEAN,
         kind = "key" => k \in Keys, kind # "key" => k = None, I!Open,
         typed' = Append(typed, I!Message(kind, k, isDown)),
         UNCHANGED <<I!display, I!agent, tab, stray>>
  PROVE  IInput'
<1>1. /\ UNCHANGED <<screen, pressed, unattended, capture, fence, events, helper, stray, barriers,
                     readies, frame, gate, commands, statuses, tab>>
      /\ InputTypes /\ ~gate.closed /\ statuses \in Seq(News) /\ tab \in Tabs
  BY DEF I!display, I!agent, I!Open, IInput, InputTypes
<1>2. I!Message(kind, k, isDown) \in Strokes /\ I!Message(kind, k, isDown).seen = tab.shown
  BY <1>1, MessageIs
<1>3. QED  BY <1>1, <1>2, TypedKeeps

LEMMA TypingKeeps ==
  ASSUME IInput, I!SendFeedback \/ I!LetGo \/ \E k \in Keys,
         isDown \in BOOLEAN : I!Press(k, isDown)
  PROVE  IInput'
<1>1. CASE I!SendFeedback
  BY <1>1, MessageKeeps DEF I!SendFeedback, I!CanControl
<1>2. CASE I!LetGo
  BY <1>2, MessageKeeps DEF I!LetGo
<1>3. ASSUME NEW k \in Keys, NEW isDown \in BOOLEAN, I!Press(k, isDown) PROVE IInput'
  BY <1>3, MessageKeeps DEF I!Press, I!CanControl
<1>4. QED  BY <1>1, <1>2, <1>3

LEMMA DropControlKeeps == ASSUME IInput, I!DropControl PROVE IInput'
<1>0. /\ UNCHANGED <<screen, pressed, unattended, capture, fence, events, helper, stray, barriers,
                     readies, frame, gate, commands, statuses, tab>>
      /\ typed # <<>> /\ typed' = Tail(typed) /\ typed \in Seq(Strokes)
      /\ InputTypes /\ PagesAreOrdered /\ InputsAreOrdered /\ GateIsSafe
  BY DEF I!DropControl, I!display, I!agent, IInput, InputTypes
<1>1. /\ typed' \in Seq(Strokes) /\ Elements(typed') \subseteq Elements(typed)
      /\ InputsAreOrdered'
  BY <1>0, TypedTaken
<1>2. Frames' = Frames /\ Pictures' \subseteq Pictures
  BY <1>0, <1>1 DEF Frames, Pictures
<1>3. PagesAreOrdered'
  BY <1>0, PagesStay
<1>4. GateIsSafe'
  BY <1>0, <1>1, <1>2 DEF GateIsSafe
<1>5. QED  BY <1>0, <1>1, <1>2, <1>3, <1>4, PageOnly, TabIn DEF InputTypes

-----------------------------------------------------------------------------
\* The capture thread and its events.
LEMMA EventAdded ==
  ASSUME NEW q \in Seq(News), NEW e \in News, NEW g,
         FramesRise(q),
         e.kind = "frame" => \A x \in Elements(q) : x.kind = "frame" => x.of.seq <= e.of.seq,
         BarriersLead(q, g),
         e.kind = "barrier" => \A x \in Elements(q) : x.kind = "frame" => x.of.gen # g
  PROVE  FramesRise(Append(q, e)) /\ BarriersLead(Append(q, e), g)
<1> DEFINE r == Append(q, e)
<1>1. /\ Len(q) \in Nat /\ Len(r) = Len(q) + 1 /\ r[Len(q) + 1] = e
      /\ \A i \in 1 .. Len(q) : r[i] = q[i] /\ q[i] \in Elements(q)
  BY AppendOf DEF Elements
<1> HIDE DEF r
<1>2. e.kind = "frame" => e.of.seq \in Nat
  BY DEF News, Images
<1>3. ASSUME NEW i \in 1 .. Len(r), NEW j \in 1 .. Len(r), i <= j, r[i].kind = "frame",
             r[j].kind = "frame"
      PROVE  r[i].of.seq <= r[j].of.seq
  <2>1. CASE j \in 1 .. Len(q)
    <3>1. i \in 1 .. Len(q)
      BY <1>1, <1>3, <2>1
    <3>2. QED  BY <1>1, <1>3, <2>1, <3>1 DEF FramesRise
  <2>2. CASE j = Len(q) + 1 /\ i \in 1 .. Len(q)
    BY <1>1, <1>3, <2>2
  <2>3. CASE j = Len(q) + 1 /\ i = Len(q) + 1
    BY <1>1, <1>2, <1>3, <2>3
  <2>4. QED  BY <1>1, <1>3, <2>1, <2>2, <2>3
<1>4. ASSUME NEW i \in 1 .. Len(r), NEW j \in 1 .. Len(r), i < j, r[i].kind = "frame",
             r[j].kind = "barrier"
      PROVE  r[i].of.gen # g
  <2>1. i \in 1 .. Len(q)
    BY <1>1, <1>4
  <2>2. CASE j \in 1 .. Len(q)
    BY <1>1, <1>4, <2>1, <2>2 DEF BarriersLead
  <2>3. CASE j = Len(q) + 1
    BY <1>1, <1>4, <2>1, <2>3
  <2>4. QED  BY <1>1, <2>2, <2>3
<1>5. QED  BY <1>3, <1>4 DEF FramesRise, BarriersLead, r

LEMMA NewsAdded ==
  ASSUME NEW q \in Seq(News), NEW e \in News, NEW g, FramesRise(q), BarriersLead(q, g),
         e.kind \notin {"frame", "barrier"}
  PROVE  /\ q \o <<e>> \in Seq(News) /\ Elements(q \o <<e>>) = Elements(q) \cup {e}
         /\ FramesRise(q \o <<e>>) /\ BarriersLead(q \o <<e>>, g)
<1>1. /\ q \o <<e>> = Append(q, e) /\ Append(q, e) \in Seq(News)
      /\ Elements(Append(q, e)) = Elements(q) \cup {e}
  BY AppendOf
<1>2. FramesRise(Append(q, e)) /\ BarriersLead(Append(q, e), g)
  BY EventAdded
<1>3. QED  BY <1>1, <1>2

LEMMA EventTaken ==
  ASSUME IInput, events # <<>>, events' = Tail(events)
  PROVE  /\ events' \in Seq(News) /\ Elements(events') \subseteq Elements(events)
         /\ Head(events) \in News /\ Head(events) \in Elements(events)
         /\ Frames' \subseteq Frames /\ FramesRise(events') /\ BarriersLead(events', fence.gen)
         /\ Head(events).kind = "frame" =>
              /\ Head(events).of \in Frames
              /\ \A f \in Frames' : Head(events).of.seq <= f.seq
              /\ Head(events).of.gen = fence.gen =>
                   \A e \in Elements(events') : e.kind # "barrier"
<1>0. events \in Seq(News) /\ FramesRise(events) /\ BarriersLead(events, fence.gen)
  BY DEF IInput, InputTypes, PagesAreOrdered, BarrierFirst
<1>1. /\ events' \in Seq(News) /\ Elements(events') \subseteq Elements(events)
      /\ Head(events) \in News /\ Head(events) \in Elements(events) /\ Head(events) = events[1]
      /\ Len(events) \in Nat /\ Len(events') \in Nat /\ 1 \in 1 .. Len(events)
      /\ \A i \in 1 .. Len(events') : i + 1 \in 1 .. Len(events) /\ events'[i] = events[i + 1]
  BY <1>0, TailOf
<1>2. Frames' \subseteq Frames /\ (Head(events).kind = "frame" => Head(events).of \in Frames)
  BY <1>1 DEF Frames
<1>3. FramesRise(events')
  <2> SUFFICES ASSUME NEW i \in 1 .. Len(events'), NEW j \in 1 .. Len(events'), i <= j,
                      events'[i].kind = "frame", events'[j].kind = "frame"
               PROVE  events'[i].of.seq <= events'[j].of.seq
    BY DEF FramesRise
  <2>1. i + 1 <= j + 1
    BY <1>1
  <2>2. QED  BY <1>0, <1>1, <2>1 DEF FramesRise
<1>4. BarriersLead(events', fence.gen)
  <2> SUFFICES ASSUME NEW i \in 1 .. Len(events'), NEW j \in 1 .. Len(events'), i < j,
                      events'[i].kind = "frame", events'[j].kind = "barrier"
               PROVE  events'[i].of.gen # fence.gen
    BY DEF BarriersLead
  <2>1. i + 1 < j + 1
    BY <1>1
  <2>2. QED  BY <1>0, <1>1, <2>1 DEF BarriersLead
<1>5. ASSUME Head(events).kind = "frame", NEW i \in 1 .. Len(events')
      PROVE  /\ events'[i].kind = "frame" => Head(events).of.seq <= events'[i].of.seq
             /\ events'[i].kind = "barrier" => Head(events).of.gen # fence.gen
  <2>1. i + 1 \in 1 .. Len(events) /\ events'[i] = events[i + 1] /\ 1 <= i + 1 /\ 1 < i + 1
    BY <1>1
  <2>2. QED  BY <1>0, <1>1, <1>5, <2>1 DEF FramesRise, BarriersLead
<1>6. ASSUME Head(events).kind = "frame"
      PROVE  /\ \A f \in Frames' : Head(events).of.seq <= f.seq
             /\ Head(events).of.gen = fence.gen => \A e \in Elements(events') : e.kind # "barrier"
  BY <1>5, <1>6 DEF Frames, Elements
<1>7. QED  BY <1>1, <1>2, <1>3, <1>4, <1>6

\* The helper takes an event.
LEMMA EventKeeps ==
  ASSUME IInput, events # <<>>, events' = Tail(events),
         UNCHANGED <<screen, pressed, unattended, capture, fence, readies, gate, commands, tab,
                     typed, stray>>,
         statuses' \in Seq(News), barriers' \in Seq(Nat),
         \A b \in Elements(barriers') : b <= fence.gen,
         helper' \in Helpers, PressedIsHeld',
         helper'.mark = helper.mark \/ (Head(events).kind = "frame" /\ helper'.mark = Head(events).of),
         helper'.at = "mark" => /\ Head(events).kind = "frame" /\ helper'.mark = Head(events).of
                                /\ Head(events).of.gen = fence.gen,
         frame' \in {frame, I!Nothing} \/ (Head(events).kind = "frame" /\ frame' = Head(events).of)
  PROVE  IInput'
<1>0. /\ InputTypes /\ PicturesAgree /\ PagesAreOrdered /\ InputsAreOrdered /\ GateIsSafe
      /\ BarrierFirst /\ I!InputIsAimed /\ I!Nothing \in Images /\ I!Nothing.seq = 0
  BY InputsIn DEF IInput
<1>1. /\ events' \in Seq(News) /\ Elements(events') \subseteq Elements(events)
      /\ Head(events) \in Elements(events)
      /\ Frames' \subseteq Frames /\ FramesRise(events') /\ BarriersLead(events', fence.gen)
      /\ Head(events).kind = "frame" =>
           /\ Head(events).of \in Frames
           /\ \A f \in Frames' : Head(events).of.seq <= f.seq
           /\ Head(events).of.gen = fence.gen => \A e \in Elements(events') : e.kind # "barrier"
  BY EventTaken
<1>2. frame' \in Images
  BY <1>0, <1>1, TabIn DEF PicturesAgree, Pictures
<1>3. InputTypes'
  BY <1>0, <1>1, <1>2 DEF InputTypes, I!TypeOK, Helpers
<1>4. Pictures' \subseteq Pictures
  BY <1>1 DEF Pictures
<1>5. PicturesAgree'
  BY <1>4, PicturesStay
<1>6. PagesAreOrdered'
  <2>1. \A f \in Frames' : {tab.shown.seq, tab.frame.seq} \subseteq 0 .. f.seq
    BY <1>0, <1>1 DEF PagesAreOrdered
  <2>2. CASE frame' = frame
    BY <1>0, <1>1, <2>2 DEF PagesAreOrdered
  <2>3. CASE frame' = I!Nothing
    <3>1. \A f \in Frames' : frame'.seq \in 0 .. f.seq
      BY <1>0, <1>1, <2>3, FramesCount
    <3>2. QED  BY <1>0, <1>1, <2>1, <2>3, <3>1 DEF PagesAreOrdered
  <2>4. CASE Head(events).kind = "frame" /\ frame' = Head(events).of
    <3>1. tab.shown.seq <= frame'.seq /\ tab.frame.seq <= frame'.seq
      BY <1>0, <1>1, <2>4 DEF PagesAreOrdered
    <3>2. \A f \in Frames' : frame'.seq \in 0 .. f.seq
      BY <1>0, <1>1, <2>4, FramesCount
    <3>3. QED  BY <1>0, <1>1, <2>1, <3>1, <3>2 DEF PagesAreOrdered
  <2>5. QED  BY <2>2, <2>3, <2>4
<1>7. InputsAreOrdered' /\ GateIsSafe'
  BY <1>0, <1>4 DEF InputsAreOrdered, GateIsSafe
<1>8. BarrierFirst'
  <2>1. helper'.at = "mark" => /\ helper'.mark.gen > 0
                               /\ \A e \in Elements(events') : e.kind # "barrier"
    BY <1>0, <1>1 DEF BarrierFirst
  <2>2. QED  BY <1>0, <1>1, <2>1 DEF BarrierFirst
<1>9. QED  BY <1>0, <1>3, <1>5, <1>6, <1>7, <1>8 DEF IInput, I!InputIsAimed

LEMMA ToldIs ==
  ASSUME NEW S, NEW q \in Seq(S), NEW m \in S
  PROVE  I!Told(q, m) \in Seq(S) /\ Elements(I!Told(q, m)) \subseteq Elements(q) \cup {m}
BY AppendOf DEF I!Told

LEMMA HelperBarrierKeeps == ASSUME IInput, I!HelperBarrier PROVE IInput'
<1>0. /\ UNCHANGED <<screen, pressed, unattended, capture, fence, readies, statuses, frame, gate,
                     commands, tab, typed, stray>>
      /\ events # <<>> /\ events' = Tail(events) /\ Head(events).kind = "barrier"
      /\ helper.at = "run" /\ helper \in Helpers /\ PressedIsHeld /\ BarrierFirst
      /\ barriers \in Seq(Nat) /\ statuses \in Seq(News) /\ Head(events) \in Elements(events)
      /\ Head(events) \in News /\ InputTypes
  BY EventTaken DEF I!HelperBarrier, I!Runs, I!display, I!viewer, IInput, InputTypes
<1> DEFINE g == Head(events).gen
<1>1. g \in Nat /\ g <= fence.gen
  BY <1>0 DEF BarrierFirst, News
<1>2. CASE helper.stopping
  <2>1. UNCHANGED <<helper, barriers>>
    BY <1>2 DEF I!HelperBarrier
  <2>2. PressedIsHeld'
    BY <1>0, <2>1, PressedStay
  <2>3. QED  BY <1>0, <2>1, <2>2, EventKeeps DEF BarrierFirst
<1>3. CASE ~helper.stopping
  <2>1. /\ helper' = [I!Forget(helper, g) EXCEPT !.frameReady = FALSE]
        /\ barriers' = I!Told(barriers, g)
    BY <1>3 DEF I!HelperBarrier
  <2> HIDE DEF g
  <2>2. /\ helper' \in Helpers /\ helper'.mark = helper.mark /\ helper'.at = "run"
        /\ helper'.stopping = helper.stopping
    BY <1>0, <1>1, <2>1 DEF I!Forget, Helpers
  <2>3. pressed = {}
    BY <1>0 DEF PressedIsHeld, BarrierFirst
  <2>4. PressedIsHeld'
    BY <1>0, <1>3, <2>2, <2>3, PressedMoves
  <2>5. barriers' \in Seq(Nat) /\ \A b \in Elements(barriers') : b <= fence.gen
    BY <1>0, <1>1, <2>1, ToldIs DEF BarrierFirst
  <2>6. QED  BY <1>0, <2>2, <2>4, <2>5, EventKeeps
<1>4. QED  BY <1>2, <1>3

LEMMA HelperStatusKeeps == ASSUME IInput, I!HelperStatus PROVE IInput'
<1>0. /\ UNCHANGED <<screen, pressed, unattended, capture, fence, readies, barriers, gate,
                     commands, tab, typed, stray>>
      /\ events # <<>> /\ events' = Tail(events)
      /\ Head(events).kind \in {"preparing", "desktop"}
      /\ helper.at = "run" /\ helper \in Helpers /\ PressedIsHeld /\ BarrierFirst
      /\ barriers \in Seq(Nat) /\ statuses \in Seq(News) /\ Head(events) \in News /\ InputTypes
  BY EventTaken DEF I!HelperStatus, I!Runs, I!display, I!viewer, IInput, InputTypes
<1>1. statuses' \in Seq(News) /\ frame' \in {frame, I!Nothing}
      /\ helper' \in {helper, [helper EXCEPT !.frameReady = FALSE]}
  BY <1>0, ToldIs DEF I!HelperStatus
<1>2. /\ helper' \in Helpers /\ helper'.mark = helper.mark /\ helper'.at = "run"
      /\ helper'.stopping = helper.stopping /\ helper'.pending = helper.pending
      /\ helper'.held = helper.held /\ helper'.gen = helper.gen
      /\ helper'.desktop = helper.desktop
  BY <1>0, <1>1 DEF Helpers
<1>3. PressedIsHeld'
  BY <1>0, <1>2, PressedMoves DEF PressedIsHeld
<1>4. QED  BY <1>0, <1>1, <1>2, <1>3, EventKeeps DEF BarrierFirst

LEMMA HelperFrameKeeps == ASSUME IInput, I!HelperFrame PROVE IInput'
<1> DEFINE f == Head(events).of
<1>0. /\ UNCHANGED <<screen, pressed, unattended, capture, fence, readies, barriers, statuses, gate,
                     commands, tab, typed, stray>>
      /\ events # <<>> /\ events' = Tail(events) /\ Head(events).kind = "frame"
      /\ helper.at = "run" /\ helper \in Helpers /\ PressedIsHeld /\ BarrierFirst
      /\ barriers \in Seq(Nat) /\ statuses \in Seq(News) /\ Head(events) \in News /\ InputTypes
  BY EventTaken DEF I!HelperFrame, I!Runs, I!display, I!viewer, IInput, InputTypes
<1>1. f \in Images
  BY <1>0 DEF News
<1>2. /\ frame' \in {frame, f}
      /\ helper' = helper \/ (f.gen = fence.gen /\ helper' = [helper EXCEPT !.at = "mark", !.mark = f])
  BY DEF I!HelperFrame
<1> HIDE DEF f
<1>3. /\ helper' \in Helpers /\ helper'.mark \in {helper.mark, f}
      /\ helper'.at = "run" \/ (helper'.at = "mark" /\ helper'.mark = f /\ f.gen = fence.gen)
      /\ helper'.stopping = helper.stopping /\ helper'.pending = helper.pending
      /\ helper'.held = helper.held /\ helper'.gen = helper.gen
      /\ helper'.desktop = helper.desktop
  BY <1>0, <1>1, <1>2 DEF Helpers
<1>4. PressedIsHeld'
  BY <1>0, <1>3, PressedMoves DEF PressedIsHeld
<1>5. QED  BY <1>0, <1>2, <1>3, <1>4, EventKeeps DEF BarrierFirst, f

LEMMA MarkReadyKeeps == ASSUME IInput, I!MarkReady PROVE IInput'
<1>0. /\ UNCHANGED <<screen, pressed, unattended, capture, events, barriers, frame, gate, commands,
                     tab, typed, stray>>
      /\ helper.at = "mark" /\ helper \in Helpers /\ fence \in Fences
      /\ InputTypes /\ PicturesAgree /\ PagesAreOrdered /\ InputsAreOrdered /\ GateIsSafe
      /\ BarrierFirst /\ PressedIsHeld /\ I!InputIsAimed
  BY DEF I!MarkReady, I!display, I!viewer, IInput, InputTypes
<1>1. /\ fence' \in Fences /\ fence'.gen = fence.gen /\ fence'.desktop = fence.desktop
      /\ fence'.ready => fence.ready \/ helper.mark.gen = fence.gen
      /\ fence.ready => fence'.ready
  <2>1. CASE fence' = fence
    BY <1>0, <2>1
  <2>2. CASE fence' = [fence EXCEPT !.ready = TRUE] /\ helper.mark.gen = fence.gen
    BY <1>0, <2>2 DEF Fences
  <2>3. QED  BY <2>1, <2>2 DEF I!MarkReady
<1>2. /\ helper' \in Helpers /\ helper'.at = "run" /\ helper'.mark = helper.mark
      /\ helper'.stopping = helper.stopping /\ helper'.pending = helper.pending
      /\ helper'.held = helper.held /\ helper'.gen = helper.gen
      /\ helper'.desktop = helper.desktop
  <2>1. \/ helper' = [helper EXCEPT !.at = "run"]
        \/ helper' = [helper EXCEPT !.at = "run", !.frameReady = TRUE]
    BY DEF I!MarkReady
  <2>2. QED  BY <1>0, <2>1 DEF Helpers
<1>3. /\ readies' \in Seq(Images) /\ statuses' \in Seq(News)
      /\ Elements(readies') \subseteq Elements(readies) \cup {helper.mark}
  <2>1. I!Ready \in News /\ helper.mark \in Images
    BY <1>0 DEF I!Ready, News, Helpers
  <2>2. readies \in Seq(Images) /\ statuses \in Seq(News)
    BY <1>0 DEF InputTypes
  <2>3. \/ UNCHANGED <<readies, statuses>>
        \/ readies' = I!Told(readies, helper.mark) /\ statuses' = I!Told(statuses, I!Ready)
    BY DEF I!MarkReady
  <2>4. QED  BY <2>1, <2>2, <2>3, ToldIs
<1>4. InputTypes'
  BY <1>0, <1>1, <1>2, <1>3 DEF InputTypes, I!TypeOK, Helpers
<1>5. Frames' = Frames /\ Pictures' \subseteq Pictures
  BY <1>0, <1>2, <1>3 DEF Frames, Pictures
<1>6. PicturesAgree'
  BY <1>0, <1>1, <1>5, PicturesStay
<1>7. PagesAreOrdered' /\ InputsAreOrdered' /\ GateIsSafe'
  BY <1>0, <1>5 DEF PagesAreOrdered, InputsAreOrdered, GateIsSafe
<1>8. BarrierFirst'
  BY <1>0, <1>1, <1>2 DEF BarrierFirst
<1>9. PressedIsHeld'
  BY <1>0, <1>1, <1>2 DEF PressedIsHeld, I!Controllable
<1>10. QED  BY <1>0, <1>4, <1>6, <1>7, <1>8, <1>9 DEF IInput, I!InputIsAimed

LEMMA AttachKeeps == ASSUME IInput, I!Attach PROVE IInput'
<1> DEFINE g == capture.gen + 1
<1>0. /\ UNCHANGED <<screen, pressed, unattended, helper, barriers, readies, statuses, frame, gate,
                     commands, tab, typed, stray>>
      /\ screen \in I!Desktops /\ capture \in Captures /\ capture.gen \in Nat
      /\ fence.gen = capture.gen /\ fence.desktop = capture.desktop /\ capture.desktop # screen
      /\ fence' = [gen |-> g, desktop |-> screen, ready |-> FALSE]
      /\ InputTypes /\ PicturesAgree /\ PagesAreOrdered /\ InputsAreOrdered /\ GateIsSafe
      /\ BarrierFirst /\ PressedIsHeld /\ I!InputIsAimed /\ events \in Seq(News)
  BY DEF I!Attach, I!display, I!viewer, IInput, InputTypes, I!TypeOK, Captures
<1>1. /\ capture' \in Captures /\ capture'.gen = g /\ capture'.desktop = screen
      /\ capture'.seq = capture.seq
  <2>1. PICK first \in BOOLEAN :
          capture' = [capture EXCEPT !.gen = g, !.desktop = screen, !.first = first]
    <3>1. capture' = [capture EXCEPT !.gen = g, !.desktop = screen,
                                     !.first = capture.first \/ screen \in I!Controllable]
      BY DEF I!Attach
    <3>2. (capture.first \/ screen \in I!Controllable) \in BOOLEAN
      OBVIOUS
    <3>3. QED  BY <3>1, <3>2
  <2>2. g \in Nat
    BY <1>0
  <2>3. QED  BY <1>0, <2>1, <2>2 DEF Captures
<1>2. g \in Nat /\ g > fence.gen /\ g > 0 /\ fence.gen \in Nat
  BY <1>0
<1>3. fence' \in Fences /\ fence'.gen = g /\ fence'.desktop = screen /\ ~fence'.ready
  BY <1>0, <1>2 DEF Fences
<1>4. \A p \in Pictures : p \in Images /\ p.gen <= fence.gen /\ p.gen \in Nat
  BY <1>0 DEF PicturesAgree, Images
<1>5. /\ events' \in Seq(News) /\ FramesRise(events') /\ BarriersLead(events', g)
      /\ Elements(events') \subseteq
           Elements(events) \cup {I!Barrier(g), I!Preparing, I!DesktopIs(screen)}
  <2>1. /\ I!Barrier(g) \in News /\ I!Barrier(g).kind = "barrier" /\ I!Preparing \in News
        /\ I!Preparing.kind = "preparing" /\ I!DesktopIs(screen) \in News
        /\ I!DesktopIs(screen).kind = "desktop"
    BY <1>0, <1>2 DEF I!Barrier, I!Preparing, I!DesktopIs, News
  <2>2. \A x \in Elements(events) : x.kind = "frame" => x.of.gen # g
    BY <1>2, <1>4 DEF Pictures, Frames
  <2>3. FramesRise(events) /\ BarriersLead(events, g)
    BY <1>0, <2>2 DEF PagesAreOrdered, BarriersLead, Elements
  <2> DEFINE q == events \o <<I!Barrier(g)>>
             r == q \o <<I!Preparing>>
  <2>4. /\ q \in Seq(News) /\ Elements(q) = Elements(events) \cup {I!Barrier(g)}
        /\ FramesRise(q) /\ BarriersLead(q, g)
    <3>1. /\ q = Append(events, I!Barrier(g)) /\ Append(events, I!Barrier(g)) \in Seq(News)
          /\ Elements(Append(events, I!Barrier(g))) = Elements(events) \cup {I!Barrier(g)}
      BY <1>0, <2>1, AppendOf
    <3>2. /\ FramesRise(Append(events, I!Barrier(g)))
          /\ BarriersLead(Append(events, I!Barrier(g)), g)
      BY <1>0, <2>1, <2>2, <2>3, EventAdded
    <3>3. QED  BY <3>1, <3>2
  <2> HIDE DEF q
  <2>5. /\ r \in Seq(News) /\ Elements(r) = Elements(q) \cup {I!Preparing}
        /\ FramesRise(r) /\ BarriersLead(r, g)
    BY <2>1, <2>4, NewsAdded
  <2> HIDE DEF r
  <2>6. ASSUME NEW t \in Seq(News), FramesRise(t), BarriersLead(t, g)
        PROVE  /\ t \o <<I!DesktopIs(screen)>> \in Seq(News)
               /\ Elements(t \o <<I!DesktopIs(screen)>>) = Elements(t) \cup {I!DesktopIs(screen)}
               /\ FramesRise(t \o <<I!DesktopIs(screen)>>)
               /\ BarriersLead(t \o <<I!DesktopIs(screen)>>, g)
    BY <2>1, <2>6, NewsAdded
  <2>7. events' = q \o <<I!DesktopIs(screen)>> \/ events' = r \o <<I!DesktopIs(screen)>>
    <3>1. events' = (events \o <<I!Barrier(g)>>)
                      \o (IF screen \in I!Controllable THEN <<I!Preparing>> ELSE <<>>)
                      \o <<I!DesktopIs(screen)>>
      BY DEF I!Attach
    <3>2. q \o <<>> = q
      BY <2>4, ConcatEmptySeq
    <3>3. QED  BY <3>1, <3>2 DEF q, r
  <2>8. QED  BY <2>4, <2>5, <2>6, <2>7
<1> HIDE DEF g
<1>6. Frames' \subseteq Frames
  BY <1>5 DEF Frames, I!Barrier, I!Preparing, I!DesktopIs
<1>7. Pictures' \subseteq Pictures
  BY <1>0, <1>6 DEF Pictures
<1>8. PicturesAgree'
  <2>1. \A p \in Pictures : p.gen <= g /\ p.gen # g
    BY <1>2, <1>4
  <2>2. QED  BY <1>0, <1>1, <1>3, <1>7, <2>1 DEF PicturesAgree
<1>9. InputTypes'
  <2>1. gate.gen \in Nat /\ gate.gen <= g
    BY <1>0, <1>2 DEF InputTypes, I!TypeOK, Gates
  <2>2. capture'.desktop # None => capture'.gen > 0
    BY <1>1, <1>2
  <2>3. QED  BY <1>0, <1>1, <1>3, <1>5, <2>1, <2>2 DEF InputTypes, I!TypeOK
<1>10. PagesAreOrdered' /\ InputsAreOrdered' /\ GateIsSafe'
  BY <1>0, <1>5, <1>6, <1>7 DEF PagesAreOrdered, InputsAreOrdered, GateIsSafe
<1>11. BarrierFirst'
  <2>1. \A b \in Elements(barriers') : b <= g
    BY <1>0, <1>2, InputsIn DEF BarrierFirst
  <2>2. \A e \in Elements(events') : /\ e.kind = "barrier" => e.gen <= g
                                     /\ e.kind = "frame" => e.of.gen > 0
    BY <1>0, <1>2, <1>5, InputsIn DEF BarrierFirst, I!Barrier, I!Preparing, I!DesktopIs
  <2>3. helper.mark.gen # g
    BY <1>2, <1>4 DEF Pictures
  <2>4. QED  BY <1>0, <1>3, <1>5, <2>1, <2>2, <2>3 DEF BarrierFirst
<1>12. pressed = {}
  BY <1>0 DEF PressedIsHeld
<1>13. PressedIsHeld'
  BY <1>0, <1>12 DEF PressedIsHeld
<1>14. QED  BY <1>0, <1>8, <1>9, <1>10, <1>11, <1>13 DEF IInput, I!InputIsAimed

LEMMA CaptureFrameKeeps == ASSUME IInput, I!CaptureFrame PROVE IInput'
<1> DEFINE n == I!Picture(capture.gen, capture.seq + 1, capture.desktop)
           e == [kind |-> "frame", of |-> n]
<1>0. /\ UNCHANGED <<screen, pressed, unattended, fence, helper, barriers, readies, statuses, frame,
                     gate, commands, tab, typed, stray>>
      /\ capture \in Captures /\ capture.gen \in Nat /\ capture.seq \in Nat
      /\ capture.desktop \in I!Controllable /\ capture.desktop \in I!Desktops \cup {None}
      /\ fence.gen = capture.gen /\ fence.desktop = capture.desktop
      /\ capture' = [capture EXCEPT !.seq = capture.seq + 1, !.first = FALSE]
      /\ events' = Append(events, e)
      /\ InputTypes /\ PicturesAgree /\ PagesAreOrdered /\ InputsAreOrdered /\ GateIsSafe
      /\ BarrierFirst /\ PressedIsHeld /\ I!InputIsAimed /\ events \in Seq(News)
  BY DEF I!CaptureFrame, I!display, I!viewer, IInput, InputTypes, I!TypeOK, Captures
<1>n. /\ n = I!Picture(capture.gen, capture.seq + 1, capture.desktop)
      /\ e = [kind |-> "frame", of |-> n]
  OBVIOUS
<1> HIDE DEF n, e
<1>1. /\ capture' \in Captures /\ capture'.seq = capture.seq + 1 /\ capture'.gen = capture.gen
      /\ capture'.desktop = capture.desktop
  <2>1. capture' = [capture EXCEPT !.seq = capture.seq + 1, !.first = FALSE]
    BY <1>0
  <2>2. capture \in Captures /\ capture.seq + 1 \in Nat
    BY <1>0
  <2>3. QED  BY <2>1, <2>2 DEF Captures
<1>2. capture.gen > 0
  BY <1>0, InputAssumption DEF I!Controllable, I!Desktops, I!Default, I!Secure, InputTypes
<1>3. /\ n \in Images /\ n.gen = capture.gen /\ n.seq = capture.seq + 1
      /\ n.desktop = capture.desktop
  BY <1>0, <1>n DEF I!Picture, Images
<1>4. e \in News /\ e.kind = "frame" /\ e.of = n
  BY <1>3, <1>n DEF News
<1>5. \A p \in Pictures : /\ p \in Images /\ p.gen \in Nat /\ p.seq \in Nat
                          /\ p.gen <= n.gen /\ p.seq <= capture.seq /\ p.seq < n.seq
  <2>1. \A p \in Pictures : /\ p \in Images /\ p.gen <= capture.gen /\ p.seq <= capture.seq
    BY <1>0 DEF PicturesAgree
  <2>2. QED  BY <1>0, <1>3, <2>1 DEF Images
<1>6. /\ events' \in Seq(News) /\ Elements(events') = Elements(events) \cup {e}
      /\ FramesRise(events') /\ BarriersLead(events', fence.gen)
  <2>1. \A x \in Elements(events) : x.kind = "frame" => x.of.seq <= e.of.seq
    <3>1. ASSUME NEW x \in Elements(events), x.kind = "frame" PROVE x.of \in Pictures
      BY <3>1 DEF Pictures, Frames
    <3>2. \A p \in Pictures : p.seq <= e.of.seq
      BY <1>3, <1>4, <1>5 DEF Images
    <3>3. QED  BY <3>1, <3>2
  <2>2. FramesRise(events) /\ BarriersLead(events, fence.gen)
    BY <1>0 DEF PagesAreOrdered, BarrierFirst
  <2>3. e.kind # "barrier"
    BY <1>4
  <2>4. FramesRise(Append(events, e)) /\ BarriersLead(Append(events, e), fence.gen)
    BY <1>0, <1>4, <2>1, <2>2, <2>3, EventAdded
  <2>5. QED  BY <1>0, <1>4, <2>4, AppendOf
<1>7. Frames' = Frames \cup {n} /\ Pictures' = Pictures \cup {n}
  <2>1. Frames' = Frames \cup {n}
    BY <1>4, <1>6 DEF Frames
  <2>2. QED  BY <1>0, <2>1 DEF Pictures
<1>8. PicturesAgree'
  <2>1. ASSUME NEW p \in Pictures
        PROVE  /\ p \in Images /\ p.gen <= fence'.gen /\ p.seq <= capture'.seq
               /\ p.gen = fence'.gen /\ fence'.gen # 0 => p.desktop = fence'.desktop
               /\ \A q \in Pictures : p.seq >= q.seq => p.gen >= q.gen
               /\ p.seq >= n.seq => p.gen >= n.gen
    BY <1>0, <1>1, <1>3, <1>5 DEF PicturesAgree
  <2>2. /\ n \in Images /\ n.gen <= fence'.gen /\ n.seq <= capture'.seq
        /\ n.gen = fence'.gen /\ fence'.gen # 0 => n.desktop = fence'.desktop
        /\ \A q \in Pictures : n.seq >= q.seq => n.gen >= q.gen
        /\ n.seq >= n.seq => n.gen >= n.gen
    BY <1>0, <1>1, <1>3, <1>5
  <2>3. QED  BY <1>7, <2>1, <2>2 DEF PicturesAgree
<1>9. InputTypes'
  BY <1>0, <1>1, <1>6 DEF InputTypes, I!TypeOK
<1>10. PagesAreOrdered'
  <2>1. {tab.shown.seq, tab.frame.seq, frame.seq} \subseteq 0 .. n.seq
    <3>1. tab.shown \in Pictures /\ tab.frame \in Pictures /\ frame \in Pictures
      BY <1>0, TabIn
    <3>2. n.seq \in Nat
      BY <1>3 DEF Images
    <3>3. QED  BY <1>5, <3>1, <3>2
  <2>2. QED  BY <1>0, <1>6, <1>7, <2>1 DEF PagesAreOrdered
<1>11. InputsAreOrdered' /\ GateIsSafe'
  <2>1. gate.gen <= n.gen
    BY <1>0, <1>3, TabIn
  <2>2. QED  BY <1>0, <1>7, <2>1 DEF InputsAreOrdered, GateIsSafe
<1>12. BarrierFirst'
  BY <1>0, <1>2, <1>3, <1>4, <1>6 DEF BarrierFirst
<1>13. PressedIsHeld'
  BY <1>0, PressedStay
<1>14. QED  BY <1>0, <1>8, <1>9, <1>10, <1>11, <1>12, <1>13 DEF IInput, I!InputIsAimed

LEMMA InitInput == ASSUME I!Init PROVE IInput
<1>1. /\ I!Nothing \in Images /\ I!Nothing.gen = 0 /\ I!Nothing.seq = 0
      /\ I!Blank \in Tabs /\ I!Blank.frame = I!Nothing /\ I!Blank.shown = I!Nothing
  BY DEF I!Nothing, I!Picture, Images, I!Blank, Tabs, I!Desktops
<1>2. /\ helper \in Helpers /\ helper.at = "run" /\ helper.mark = I!Nothing /\ helper.held = {}
      /\ ~helper.stopping
  <2>1. helper = [at |-> "run", frameReady |-> FALSE, mark |-> I!Nothing, held |-> {}, gen |-> 0,
                  desktop |-> None, available |-> screen \in I!Controllable, pending |-> FALSE,
                  stopping |-> FALSE]
    BY DEF I!Init
  <2>2. (screen \in I!Controllable) \in BOOLEAN
    OBVIOUS
  <2>3. PICK there \in BOOLEAN : there = (screen \in I!Controllable)
    BY <2>2
  <2>4. helper = [at |-> "run", frameReady |-> FALSE, mark |-> I!Nothing, held |-> {}, gen |-> 0,
                  desktop |-> None, available |-> there, pending |-> FALSE, stopping |-> FALSE]
    BY <2>1, <2>3
  <2>5. QED  BY <1>1, <2>4 DEF Helpers
<1>3. /\ capture \in Captures /\ fence \in Fences /\ gate \in Gates
      /\ capture.gen = 0 /\ capture.seq = 0 /\ capture.desktop = None
      /\ fence.gen = 0 /\ ~fence.ready /\ fence.desktop = None
      /\ gate.gen = 0 /\ ~gate.ready /\ gate.awaits = 0 /\ ~gate.closed
  BY DEF I!Init, Captures, Fences, Gates
<1>4. /\ events = <<>> /\ barriers = <<>> /\ readies = <<>> /\ statuses = <<>> /\ commands = <<>>
      /\ typed = <<>> /\ frame = I!Nothing /\ tab = I!Blank /\ pressed = {} /\ ~stray
      /\ screen \in I!Desktops /\ unattended \in BOOLEAN
  BY DEF I!Init
<1>5. Elements(<<>>) = {} /\ Len(<<>>) = 0 /\ \A S : <<>> \in Seq(S)
  BY EmptyElements
<1>6. InputTypes
  BY <1>1, <1>2, <1>3, <1>4, <1>5 DEF InputTypes, I!TypeOK
<1>7. Frames = {} /\ Pictures = {I!Nothing}
  BY <1>1, <1>2, <1>4, <1>5 DEF Frames, Pictures
<1>8. PicturesAgree
  BY <1>1, <1>3, <1>7 DEF PicturesAgree
<1>9. PagesAreOrdered /\ InputsAreOrdered
  BY <1>1, <1>4, <1>5, <1>7 DEF PagesAreOrdered, InputsAreOrdered, FramesRise
<1>10. GateIsSafe
  BY <1>3, <1>4, <1>5 DEF GateIsSafe
<1>11. BarrierFirst
  BY <1>2, <1>3, <1>4, <1>5 DEF BarrierFirst, BarriersLead
<1>12. PressedIsHeld /\ I!InputIsAimed
  BY <1>2, <1>4 DEF PressedIsHeld, I!InputIsAimed
<1>13. QED  BY <1>6, <1>8, <1>9, <1>10, <1>11, <1>12 DEF IInput

LEMMA StepInput == ASSUME IInput, [I!Next]_I!vars PROVE IInput'
<1>1. CASE UNCHANGED I!vars
  <2>1. /\ UNCHANGED <<screen, switches, pressed, unattended, capture, fence, events, helper,
                       barriers, readies, statuses, frame, gate, commands, desk, tab,
                       typed, inputs,
                       stray>>
        /\ InputTypes /\ PressedIsHeld /\ I!InputIsAimed /\ helper \in Helpers
        /\ commands \in Seq(Strokes \cup Stops)
    BY <1>1 DEF I!vars, I!display, I!agent, I!viewer, IInput, InputTypes
  <2>2. PressedIsHeld'
    BY <2>1, PressedStay
  <2>3. QED  BY <2>1, <2>2, KeysOnly DEF InputTypes, I!TypeOK, I!InputIsAimed
<1>2. CASE I!Next
  <2>1. CASE I!Switch \/ I!Attach \/ I!CaptureFrame \/ I!HelperBarrier \/ I!HelperStatus
             \/ I!HelperFrame
             \/ I!MarkReady
    BY <2>1, SwitchKeeps, AttachKeeps, CaptureFrameKeeps, HelperBarrierKeeps,
       HelperStatusKeeps, HelperFrameKeeps, MarkReadyKeeps
  <2>2. CASE I!HelperStopped \/ I!HelperKilled \/ I!Withdraw
    BY <2>2, HelperStoppedKeeps, HelperKilledKeeps, WithdrawKeeps
  <2>3. CASE \E stuck \in BOOLEAN : I!ApplyKey(stuck) \/ I!ApplyRelease(stuck)
                                    \/ I!HelperStop(stuck) \/ I!DesktopCheck(stuck)
    BY <2>3, ApplyKeyKeeps, ApplyReleaseKeeps, HelperStopKeeps, DesktopCheckKeeps
  <2>4. CASE I!RelayBarrier \/ I!RelayReady \/ I!RelayControl \/ I!RelayStatus \/ I!RelayFrame
             \/ I!RelayClose
    BY <2>4, RelayBarrierKeeps, RelayReadyKeeps, RelayControlKeeps, RelayStatusKeeps,
       RelayFrameKeeps, RelayCloseKeeps
  <2>5. CASE I!Render \/ I!DropControl \/ I!SendFeedback \/ I!LetGo
             \/ \E k \in Keys, isDown \in BOOLEAN : I!Press(k, isDown)
    BY <2>5, RenderKeeps, DropControlKeeps, TypingKeeps
  <2>6. QED  BY <1>2, <2>1, <2>2, <2>3, <2>4, <2>5 DEF I!Next
<1>3. QED  BY <1>1, <1>2

LEMMA InputFollows == ASSUME IInput PROVE I!InputHolds
BY DEF IInput, InputTypes, I!InputHolds, I!EndsReleased, PressedIsHeld

(***************************************************************************)
(* All three.                                                              *)
(***************************************************************************)
\* No driver of the remote desktop is left that nothing would remove, unless two stagings or
\* removals were at work beside one another, and no rollback takes a driver that was there
\* before, whoever was; a virtual device is there when, and only when, there is no other for a
\* while; input only reaches the desktop its user saw, and none stays down at the end: for any
\* versions, devices, keys and requests, any number of stagings and removals, any periods in
\* the order of the code's, and however often the hardware, the desktop and the system change
\* (remote_access.rs; remote_desktop/: windows.rs, input.rs).
THEOREM DesktopStays == DispatchSpec => []DesktopHolds
<1>1. Begun => IDrivers /\ IDevices /\ IInput
  BY InitDrivers, InitDevices, InitInput DEF Begun
<1>2. [Moves]_<<part, vars, driverVars, inputVars, deviceVars>>
        => [D!Next]_D!vars /\ [V!Next]_V!vars /\ [I!Next]_I!vars
  <2>1. UNCHANGED driverVars => UNCHANGED D!vars
    BY DEF driverVars, D!vars
  <2>2. UNCHANGED deviceVars => UNCHANGED V!vars
    BY DEF deviceVars, V!vars, V!thread, V!devices, V!past
  <2>3. UNCHANGED inputVars => UNCHANGED I!vars
    BY DEF inputVars, I!vars, I!display, I!agent, I!viewer
  <2>4. QED  BY <2>1, <2>2, <2>3 DEF Moves
<1>3. IDrivers /\ IDevices /\ IInput /\ [Moves]_<<part, vars, driverVars, inputVars, deviceVars>>
        => (IDrivers /\ IDevices /\ IInput)'
  BY <1>2, StepDrivers, StepDevices, StepInput
<1>4. IDrivers /\ IDevices /\ IInput => DesktopHolds
  BY DriversFollow, DevicesFollow, InputFollows DEF DesktopHolds
<1>5. QED  BY <1>1, <1>3, <1>4, PTL DEF DispatchSpec
=============================================================================
