---------------------------- MODULE DesktopInput ----------------------------
(***************************************************************************)
(* Keyboard and mouse of a remote desktop, from the picture in the browser *)
(* to the desktop of the computer.  Windows may switch between the desktop *)
(* of the user and the one of logins and consent prompts at any time, and  *)
(* what was meant for one must not reach the other.                        *)
(*                                                                         *)
(* The capture thread of the helper process numbers the desktops it        *)
(* attaches to (the generation), the fence and the relay of the service    *)
(* check the number, and the relay lets input through only after the       *)
(* browser has confirmed a picture of that generation.                     *)
(*                                                                         *)
(* A pipe or a socket is one with the queue it fills: both keep the order. *)
(* The backend and the page learn what the relay sends in one step, which  *)
(* changes nothing as what the page sends may still be under way.          *)
(***************************************************************************)
EXTENDS Integers, Sequences, FiniteSets

CONSTANTS
  Keys,         \* keys and buttons
  MaxSwitches,  \* bound on the switches of the desktop
  MaxFrames,    \* bound on the pictures besides the first one of a generation
  MaxInputs,    \* bound on what the user presses
  Room,         \* bound on the messages under way from the browser
  None

Default  == "default"
Secure   == "winlogon"
Desktops == {Default, Secure}

VARIABLES
  screen,      \* the desktop that has the input (OpenInputDesktop)
  switches,    \* its switches so far
  pressed,     \* keys this session holds down on it, since it has the input
  unattended,  \* the helper may control the secure desktop
  capture,     \* the capture thread: its generation and desktop
  fence,       \* InputGenerationFence
  events,      \* what it sends: one is in the channel, it waits with the others
  helper,      \* the loop of the helper: InputState and its flags
  barriers, readies, statuses, frame,  \* queues of the relay
  gate,        \* RelayInputGate
  commands,    \* the pipe to the helper
  desk,        \* what the backend knows: helper_ready and the desktop
  tab,         \* the page in the browser
  typed,       \* messages of the page on their way to the relay
  inputs,      \* what the user pressed so far
  stray        \* input that reached a desktop its user did not see

display == <<screen, switches, pressed, unattended>>
agent   == <<capture, fence, events, helper, barriers, readies, statuses, frame, gate, commands>>
viewer  == <<desk, tab, typed, inputs>>
vars    == <<display, agent, viewer, stray>>

Controllable == IF unattended THEN {Default, Secure} ELSE {Default}
Picture(g, n, d) == [gen |-> g, seq |-> n, desktop |-> d]
Nothing == Picture(0, 0, None)
Unknown == [ready |-> FALSE, desktop |-> None]
Blank   == [ready |-> FALSE, first |-> FALSE, kind |-> Default, frame |-> Nothing, shown |-> Nothing]

TypeOK ==
  /\ screen \in Desktops /\ pressed \subseteq Keys
  /\ fence.gen = capture.gen /\ helper.held \subseteq Keys
  /\ gate.gen <= fence.gen

Init ==
  /\ screen \in Desktops /\ switches = 0
  /\ pressed = {}
  /\ unattended \in BOOLEAN
  /\ capture = [gen |-> 0, desktop |-> None, first |-> TRUE, seq |-> 0]
  /\ fence = [gen |-> 0, desktop |-> None, ready |-> FALSE]
  /\ events = <<>>
  /\ helper = [at |-> "run", frameReady |-> FALSE, mark |-> Nothing, held |-> {}, gen |-> 0,
               desktop |-> None, available |-> screen \in Controllable, pending |-> FALSE,
               stopping |-> FALSE]
  /\ barriers = <<>> /\ readies = <<>> /\ statuses = <<>> /\ frame = Nothing
  /\ gate = [gen |-> 0, ready |-> FALSE, awaits |-> 0, closed |-> FALSE]
  /\ commands = <<>>
  /\ desk = Unknown /\ tab = Blank
  /\ typed = <<>> /\ inputs = 0 /\ stray = FALSE

Switch ==
  /\ switches < MaxSwitches
  /\ \E d \in Desktops \ {screen} : screen' = d
  /\ switches' = switches + 1
  /\ pressed' = {}
  /\ UNCHANGED <<unattended, agent, viewer, stray>>

(***************************************************************************)
(* capture_loop.                                                           *)
(***************************************************************************)
Barrier(g)   == [kind |-> "barrier", gen |-> g]
Preparing    == [kind |-> "preparing"]
DesktopIs(d) == [kind |-> "desktop", desktop |-> d]
Ready        == [kind |-> "ready"]

\* The thread ends with the process.
Lives == helper.at \in {"run", "mark"}

\* The generation begins in the fence at once, for the others by their queues.
Attach ==
  /\ Lives /\ Len(events) <= 1 /\ capture.desktop # screen
  /\ LET g == capture.gen + 1
         controllable == screen \in Controllable
     IN  /\ capture' = [capture EXCEPT !.gen = g, !.desktop = screen, !.first = @ \/ controllable]
         /\ fence' = [gen |-> g, desktop |-> screen, ready |-> FALSE]
         /\ events' = events \o <<Barrier(g)>> \o (IF controllable THEN <<Preparing>> ELSE <<>>)
                             \o <<DesktopIs(screen)>>
  /\ UNCHANGED <<display, helper, barriers, readies, statuses, frame, gate, commands, viewer, stray>>

\* The first picture of a generation waits for its place, a later one is
\* dropped if there is none.
CaptureFrame ==
  /\ Lives /\ capture.desktop \in Controllable
  /\ IF capture.first THEN Len(events) <= 1
     ELSE events = <<>> /\ capture.seq < MaxFrames + capture.gen
  /\ capture' = [capture EXCEPT !.seq = @ + 1, !.first = FALSE]
  /\ events' = Append(events,
       [kind |-> "frame", of |-> Picture(capture.gen, capture.seq + 1, capture.desktop)])
  /\ UNCHANGED <<display, fence, helper, barriers, readies, statuses, frame, gate, commands,
                 viewer, stray>>

(***************************************************************************)
(* run_helper: events of the capture thread.                               *)
(***************************************************************************)
Runs == helper.at = "run"
Open == ~gate.closed
Told(queue, m) == IF Open THEN Append(queue, m) ELSE queue
Forget(h, g) == [h EXCEPT !.held = {}, !.gen = g, !.desktop = None, !.pending = FALSE]

HelperBarrier ==
  /\ Runs /\ events # <<>> /\ Head(events).kind = "barrier"
  /\ events' = Tail(events)
  /\ IF helper.stopping THEN UNCHANGED <<helper, barriers>>
     ELSE /\ helper' = [Forget(helper, Head(events).gen) EXCEPT !.frameReady = FALSE]
          /\ barriers' = Told(barriers, Head(events).gen)
  /\ UNCHANGED <<display, capture, fence, readies, statuses, frame, gate, commands, viewer, stray>>

\* The reader of the pipe clears the picture when a new one is prepared.
HelperStatus ==
  /\ Runs /\ events # <<>> /\ Head(events).kind \in {"preparing", "desktop"}
  /\ events' = Tail(events)
  /\ IF helper.stopping THEN UNCHANGED <<helper, statuses, frame>>
     ELSE /\ statuses' = Told(statuses, Head(events))
          /\ IF Head(events).kind = "preparing"
             THEN helper' = [helper EXCEPT !.frameReady = FALSE] /\ frame' = Nothing
             ELSE UNCHANGED <<helper, frame>>
  /\ UNCHANGED <<display, capture, fence, barriers, readies, gate, commands, viewer, stray>>
HelperFrame ==
  /\ Runs /\ events # <<>> /\ Head(events).kind = "frame"
  /\ events' = Tail(events)
  /\ LET f == Head(events).of
     IN  IF helper.stopping \/ f.gen # fence.gen THEN UNCHANGED <<helper, frame>>
         ELSE /\ frame' = IF Open THEN f ELSE frame
              /\ helper' = IF helper.frameReady THEN helper
                           ELSE [helper EXCEPT !.at = "mark", !.mark = f]
  /\ UNCHANGED <<display, capture, fence, barriers, readies, statuses, gate, commands, viewer, stray>>

\* mark_ready, unless the desktop was switched since the picture was taken.
MarkReady ==
  /\ helper.at = "mark"
  /\ IF helper.mark.gen # fence.gen
     THEN /\ helper' = [helper EXCEPT !.at = "run"]
          /\ UNCHANGED <<fence, readies, statuses>>
     ELSE /\ fence' = [fence EXCEPT !.ready = TRUE]
          /\ readies' = Told(readies, helper.mark)
          /\ statuses' = Told(statuses, Ready)
          /\ helper' = [helper EXCEPT !.at = "run", !.frameReady = TRUE]
  /\ UNCHANGED <<display, capture, events, barriers, frame, gate, commands, viewer, stray>>

(***************************************************************************)
(* run_helper: input.                                                      *)
(***************************************************************************)
\* bind_generation: what is held on another desktop is forgotten.
Bound(h, g) ==
  IF h.gen = g /\ h.desktop = screen THEN h
  ELSE [h EXCEPT !.held = {}, !.gen = g, !.desktop = screen]
\* Input is applied to whatever desktop has the focus.
AppliesAnywhere(g) == fence.ready /\ screen \in Controllable

Applies(g) == fence.ready /\ fence.gen = g /\ screen = fence.desktop /\ screen \in Controllable

\* release_on_input_generation: keys that do not come up stay pending, as they
\* do while the desktop cannot be controlled.
Release(h, g, stuck) ==
  IF ~(fence.ready /\ fence.gen = g)
  THEN helper' = Forget(h, fence.gen) /\ UNCHANGED pressed
  ELSE IF screen \notin Controllable
  THEN helper' = [h EXCEPT !.pending = TRUE] /\ UNCHANGED pressed
  ELSE IF ~Applies(g)
  THEN helper' = [h EXCEPT !.pending = FALSE] /\ UNCHANGED pressed
  ELSE LET b == Bound(h, g)
           left == IF stuck THEN b.held ELSE {}
       IN  /\ pressed' = pressed \ (b.held \ left)
           /\ helper' = [b EXCEPT !.held = left, !.pending = left # {}]
ReleaseCurrent(h, stuck) ==
  IF h.gen = 0 THEN helper' = [h EXCEPT !.pending = FALSE] /\ UNCHANGED pressed
  ELSE Release(h, h.gen, stuck)

\* What is held is forgotten when the desktop stops being controllable.
Looked ==
  LET available == screen \in Controllable
  IN  IF helper.available /\ ~available
      THEN [Forget(helper, fence.gen) EXCEPT !.available = FALSE]
      ELSE [helper EXCEPT !.available = available]

Command == Head(commands)
Takes(kind) == Runs /\ commands # <<>> /\ Command.kind = kind /\ commands' = Tail(commands)
HelperRest == <<screen, switches, unattended, capture, fence, events, barriers, readies, statuses,
                frame, gate, viewer>>

\* An input that Windows refuses changes nothing; if it was to let a key go,
\* the key stays pending.
ApplyKey(stuck) ==
  /\ Takes("key")
  /\ IF helper.stopping THEN UNCHANGED <<helper, pressed, stray>>
     ELSE IF Looked.available /\ ~Looked.pending /\ Applies(Command.gen)
     THEN LET k == Command.key
              b == Bound(Looked, Command.gen)
              After(S) == IF stuck THEN S ELSE IF Command.down THEN S \cup {k} ELSE S \ {k}
          IN  /\ pressed' = After(pressed)
              /\ helper' = [b EXCEPT !.held = After(@), !.pending = stuck /\ ~Command.down]
              /\ stray' = (stray \/ Command.seen.desktop # screen \/ Command.seen.gen # fence.gen)
     ELSE helper' = Looked /\ UNCHANGED <<pressed, stray>>
  /\ UNCHANGED HelperRest
ApplyRelease(stuck) ==
  /\ Takes("release")
  /\ IF fence.gen = Command.gen THEN Release(helper, Command.gen, stuck)
     ELSE UNCHANGED <<helper, pressed>>
  /\ UNCHANGED <<HelperRest, stray>>
HelperStop(stuck) ==
  /\ Takes("stop")
  /\ ReleaseCurrent([helper EXCEPT !.stopping = TRUE], stuck)
  /\ UNCHANGED <<HelperRest, stray>>

\* desktop_check: every 100 ms.
DesktopCheck(stuck) ==
  /\ Runs
  /\ Looked # helper \/ (helper.pending /\ screen \in Controllable)
  /\ IF Looked.available /\ Looked.pending THEN ReleaseCurrent(Looked, stuck)
     ELSE helper' = Looked /\ UNCHANGED pressed
  /\ UNCHANGED <<HelperRest, commands, stray>>

\* INTERNAL_STOPPED; the service ends a helper that does not answer.
HelperStopped ==
  /\ Runs /\ helper.stopping /\ ~helper.pending
  /\ helper' = [helper EXCEPT !.at = "stopped"]
  /\ UNCHANGED <<HelperRest, commands, pressed, stray>>
HelperKilled ==
  /\ gate.closed /\ Lives
  /\ helper' = [helper EXCEPT !.at = "killed"]
  /\ UNCHANGED <<HelperRest, commands, pressed, stray>>
\* The user of the computer withdraws the consent.
Withdraw ==
  /\ Runs /\ ~unattended
  /\ \E stuck \in BOOLEAN : ReleaseCurrent([helper EXCEPT !.at = "killed"], stuck)
  /\ UNCHANGED <<HelperRest, commands, stray>>

(***************************************************************************)
(* relay: the loop of the service, which takes a barrier before all else.  *)
(***************************************************************************)
RelayBarrier ==
  /\ Open /\ barriers # <<>> /\ barriers' = Tail(barriers)
  /\ gate' = IF Head(barriers) < gate.gen THEN gate
             ELSE [gate EXCEPT !.gen = Head(barriers), !.ready = FALSE, !.awaits = 0]
  /\ UNCHANGED <<display, capture, fence, events, helper, readies, statuses, frame, commands,
                 viewer, stray>>
RelayReady ==
  /\ Open /\ barriers = <<>> /\ readies # <<>> /\ readies' = Tail(readies)
  /\ gate' = IF Head(readies).gen # gate.gen THEN gate
             ELSE [gate EXCEPT !.ready = FALSE, !.awaits = Head(readies).seq]
  /\ UNCHANGED <<display, capture, fence, events, helper, barriers, statuses, frame, commands,
                 viewer, stray>>

\* Any feedback opens the gate, that of an older picture too.
ObservedAny(n) == IF gate.awaits # 0 THEN [gate EXCEPT !.awaits = 0, !.ready = TRUE] ELSE gate

Observed(n) ==
  IF gate.awaits # 0 /\ n >= gate.awaits THEN [gate EXCEPT !.awaits = 0, !.ready = TRUE] ELSE gate

\* Feedback also tunes the capture thread, which is left out.
RelayControl ==
  /\ Open /\ barriers = <<>> /\ readies = <<>> /\ typed # <<>>
  /\ typed' = Tail(typed)
  /\ LET m == Head(typed)
     IN  IF m.kind = "feedback" THEN gate' = Observed(m.seen.seq) /\ UNCHANGED commands
         ELSE /\ commands' = IF gate.ready THEN Append(commands, [m EXCEPT !.gen = gate.gen])
                             ELSE commands
              /\ UNCHANGED gate
  /\ UNCHANGED <<display, capture, fence, events, helper, barriers, readies, statuses, frame,
                 desk, tab, inputs, stray>>

\* The session ends for whatever reason, and with it the loop and the page; what
\* is still read from the helper is dropped.
RelayClose ==
  /\ Open
  /\ gate' = [gate EXCEPT !.closed = TRUE]
  /\ commands' = Append(commands, [kind |-> "stop"])
  /\ barriers' = <<>> /\ readies' = <<>> /\ statuses' = <<>> /\ frame' = Nothing
  /\ desk' = Unknown /\ tab' = Blank /\ typed' = <<>>
  /\ UNCHANGED <<display, capture, fence, events, helper, inputs, stray>>

(***************************************************************************)
(* What the relay sends, through desktop_agent_socket and                  *)
(* desktop_browser_socket to RemoteDesktopModal.vue.                       *)
(***************************************************************************)
Message(kind, k, down) == [kind |-> kind, key |-> k, down |-> down, gen |-> 0, seen |-> tab.shown]
Resets(m) == m.kind = "preparing" \/ (m.kind = "desktop" /\ m.desktop # tab.kind)

\* The page lets go of all keys when the desktop changes.
RelayStatus ==
  /\ Open /\ barriers = <<>> /\ readies = <<>> /\ statuses # <<>>
  /\ statuses' = Tail(statuses)
  /\ LET m == Head(statuses)
         paused == m.kind = "desktop" /\ m.desktop \notin Controllable
     IN  /\ desk' = [ready   |-> CASE m.kind = "ready" -> TRUE
                                   [] m.kind = "preparing" \/ paused -> FALSE
                                   [] OTHER -> desk.ready,
                     desktop |-> IF m.kind = "desktop" THEN m.desktop ELSE desk.desktop]
         /\ tab' = IF m.kind = "ready" THEN [tab EXCEPT !.ready = TRUE]
                   ELSE [tab EXCEPT
                     !.ready = @ /\ ~Resets(m), !.first = @ /\ ~Resets(m),
                     !.frame = IF Resets(m) THEN Nothing ELSE @,
                     !.kind  = IF m.kind = "desktop" THEN m.desktop ELSE @]
         /\ typed' = IF Resets(m) \/ paused THEN Append(typed, Message("release", None, FALSE))
                     ELSE typed
  /\ UNCHANGED <<display, capture, fence, events, helper, barriers, readies, frame, gate, commands,
                 inputs, stray>>
RelayFrame ==
  /\ Open /\ barriers = <<>> /\ readies = <<>> /\ statuses = <<>> /\ frame # Nothing
  /\ tab' = [tab EXCEPT !.frame = frame] /\ frame' = Nothing
  /\ UNCHANGED <<display, capture, fence, events, helper, barriers, readies, statuses, gate,
                 commands, desk, typed, inputs, stray>>
Render ==
  /\ Open /\ tab.frame # Nothing
  /\ tab' = [tab EXCEPT !.shown = tab.frame, !.frame = Nothing, !.first = TRUE]
  /\ UNCHANGED <<display, agent, desk, typed, inputs, stray>>

CanControl == Open /\ tab.ready /\ tab.first /\ tab.kind \in Controllable
SendFeedback ==
  /\ CanControl /\ Len(typed) < Room
  /\ typed' = Append(typed, Message("feedback", None, FALSE))
  /\ UNCHANGED <<display, agent, desk, tab, inputs, stray>>
Press(k, down) ==
  /\ CanControl /\ Len(typed) < Room
  /\ inputs < MaxInputs /\ inputs' = inputs + 1
  /\ typed' = Append(typed, Message("key", k, down))
  /\ UNCHANGED <<display, agent, desk, tab, stray>>

\* The window loses the focus.
LetGo ==
  /\ Open /\ Len(typed) < Room
  /\ inputs < MaxInputs /\ inputs' = inputs + 1
  /\ typed' = Append(typed, Message("release", None, FALSE))
  /\ UNCHANGED <<display, agent, desk, tab, stray>>

\* The backend drops what comes while the picture is not ready.
Unready == ~desk.ready \/ (desk.desktop # None /\ desk.desktop \notin Controllable)
DropControl ==
  /\ typed # <<>> /\ Unready
  /\ typed' = Tail(typed)
  /\ UNCHANGED <<display, agent, desk, tab, inputs, stray>>

Next ==
  \/ Switch \/ Attach \/ CaptureFrame
  \/ HelperBarrier \/ HelperStatus \/ HelperFrame \/ MarkReady
  \/ HelperStopped \/ HelperKilled \/ Withdraw
  \/ \E stuck \in BOOLEAN : ApplyKey(stuck) \/ ApplyRelease(stuck) 
                               \/ HelperStop(stuck) \/ DesktopCheck(stuck)
  \/ RelayBarrier \/ RelayReady \/ RelayControl \/ RelayStatus \/ RelayFrame \/ RelayClose
  \/ Render \/ SendFeedback \/ LetGo \/ DropControl
  \/ \E k \in Keys, down \in BOOLEAN : Press(k, down)
Spec == Init /\ [][Next]_vars

\* Input only reaches a desktop whose picture, of the same generation, was in
\* front of the user when it was made, however the desktop switches meanwhile.
InputIsAimed == ~stray

\* A helper that acknowledged the end holds no key down.  What was held when the
\* desktop was switched is forgotten, and left to Windows.
EndsReleased == helper.at = "stopped" => pressed = {}
InputHolds == TypeOK /\ InputIsAimed /\ EndsReleased
=============================================================================
