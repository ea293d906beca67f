------------------------------ MODULE Devices ------------------------------
(***************************************************************************)
(* The input devices and monitors of src/gfx.  gfx__poll_events clears the *)
(* counters of the controllers, lets GLFW call back for every event it     *)
(* has, in whatever order, and then reads the gamepads.  Between two polls *)
(* the program reads the buttons, their counters and the monitors.         *)
(***************************************************************************)
EXTENDS Integers, Sequences, FiniteSets, FiniteSetsExt, SequencesExt

CONSTANTS Monitor,      \* GLFW's monitors
          MaxEvents     \* bound: what happens to the devices

ASSUME DevicesAssumption == Monitor # {} /\ IsFiniteSet(Monitor) /\ MaxEvents \in Nat

\* One key of each shape in window__key_callback: another button with Ctrl,
\* another with Alt, the same one whatever is held, none without Alt.
Key == {"c", "up", "escape", "f4"}
Button == {"C", "SET_CLIPBOARD", "UP", "WINDOW_MAXIMIZE", "WINDOW_CLOSE", "GAMEPAD_AXIS"}
NoButton == "_BUTTON_SIZE"

\* The buttons with a default action; those of a gamepad have none.
HasAction == {"SET_CLIPBOARD", "WINDOW_MAXIMIZE", "WINDOW_CLOSE"}

Modifier == {"ctrl", "alt"}

\* Values above 0.2, below -0.2 and between.
Value == {-1, 0, 1}

VARIABLES stage,              \* of the poll
          keyboard,           \* the keys and modifiers held, as GLFW sees them
          orphaned,           \* history: buttons not released since a modifier gave
                              \* their key, which was held, to another
          window_controller,  \* window->controller
          asked,              \* the default actions run in this poll
          gamepad,            \* the device itself
          controller,         \* gfx.controllers[jid]
          base,               \* history: the values the counters count from
          monitors, monitors_top,
          glfw_monitor,       \* of each struct monitor
          plugged, unplugged, \* the monitors there are, and history: that there were
          replugged,          \* history: one was connected after one was disconnected
          aborted,
          events

input == <<keyboard, orphaned, window_controller, asked>>
pad == <<gamepad, controller>>
screens == <<monitors, monitors_top, glfw_monitor, plugged, unplugged, replugged, aborted>>
vars == <<stage, input, pad, base, screens, events>>

ControllerState ==
  [is_connected : BOOLEAN, ended_down_value : [Button -> Value],
   n_of_transitions : [Button -> Nat], n_of_repeats : [Button -> Nat], received_button_input : BOOLEAN]

Released == [b \in Button |-> 0]
NewController(connected) ==
  [is_connected |-> connected, ended_down_value |-> Released, n_of_transitions |-> Released,
   n_of_repeats |-> Released, received_button_input |-> FALSE]

\* glfwGetMonitors gives them in some order.  The client's window is created on
\* the first, whose struct is the first of the array.  A gamepad that is there is
\* connected if its buttons are mapped.
Init ==
  /\ stage = "program"
  /\ keyboard = [mods |-> {}, held |-> {}] /\ orphaned = {}
  /\ window_controller = NewController(TRUE) /\ asked = {}
  /\ gamepad \in [present : BOOLEAN, value : Value]
  /\ ~gamepad.present => gamepad.value = 0
  /\ controller \in {NewController(FALSE), NewController(gamepad.present)}
  /\ base = [window |-> Released, gamepad |-> Released]
  /\ plugged \in (SUBSET Monitor) \ {{}} /\ unplugged = {}
  /\ glfw_monitor \in SetToSeqs(plugged)
  /\ monitors = [i \in 1 .. Cardinality(plugged) |-> i]
  /\ monitors_top = Cardinality(plugged)
  /\ replugged = FALSE /\ aborted = FALSE
  /\ events = 0

\* Counts a press and not a release.
ProcessPress(c, b, value) ==
  LET changed == value # c.ended_down_value[b] /\ value # 0
  IN [c EXCEPT !.ended_down_value[b] = value,
               !.n_of_transitions[b] = IF changed THEN @ + 1 ELSE @,
               !.n_of_repeats[b] = IF value > 0 THEN @ + 1 ELSE @,
               !.received_button_input = @ \/ changed]

button_process_input(c, b, value) ==
  LET changed == value # c.ended_down_value[b]
  IN [c EXCEPT !.ended_down_value[b] = value,
               !.n_of_transitions[b] = IF changed THEN @ + 1 ELSE @,
               !.n_of_repeats[b] = IF value > 0 THEN @ + 1 ELSE @,
               !.received_button_input = @ \/ changed]

button_is_down(c, b) == c.ended_down_value[b] # 0

clear(c) ==
  [c EXCEPT !.n_of_transitions = Released, !.n_of_repeats = Released, !.received_button_input = FALSE]

set_connected(c, value) == IF value /\ ~c.is_connected THEN NewController(TRUE)
                           ELSE [c EXCEPT !.is_connected = value]

\* What happens to a device while GLFW looks for events, or at any time.
Happens == ~aborted /\ events < MaxEvents /\ events' = events + 1
InEvents == stage = "events" /\ Happens

-----------------------------------------------------------------------------
(* The keyboard *)

ButtonOf(k, mods) ==
  CASE k = "c" -> IF "ctrl" \in mods THEN "SET_CLIPBOARD" ELSE "C"
    [] k = "up" -> IF "alt" \in mods THEN "WINDOW_MAXIMIZE" ELSE "UP"
    [] k = "escape" -> "WINDOW_CLOSE"
    [] k = "f4" -> IF "alt" \in mods THEN "WINDOW_CLOSE" ELSE NoButton

key_callback(c, k, mods, value) ==
  IF ButtonOf(k, mods) = NoButton THEN c ELSE button_process_input(c, ButtonOf(k, mods), value)

\* A key goes down, or repeats while it is held.
KeyPress(k) ==
  LET b == ButtonOf(k, keyboard.mods)
      pressed == key_callback(window_controller, k, keyboard.mods, 1)
  IN /\ InEvents
     /\ keyboard' = [keyboard EXCEPT !.held = @ \cup {k}]
     /\ window_controller' = pressed
     /\ asked' = IF b \in HasAction /\ button_is_down(pressed, b) THEN asked \cup {b} ELSE asked
     /\ UNCHANGED <<stage, orphaned, pad, base, screens>>

\* Sees to a button's release only while no modifier is held.
KeyReleaseUnmodified(k) ==
  /\ InEvents /\ k \in keyboard.held
  /\ keyboard' = [keyboard EXCEPT !.held = @ \ {k}]
  /\ window_controller' = IF keyboard.mods # {} THEN window_controller
                          ELSE key_callback(window_controller, k, {}, 0)
  /\ orphaned' = orphaned \ {ButtonOf(k, keyboard.mods)}
  /\ UNCHANGED <<stage, asked, pad, base, screens>>

KeyRelease(k) ==
  /\ InEvents /\ k \in keyboard.held
  /\ keyboard' = [keyboard EXCEPT !.held = @ \ {k}]
  /\ window_controller' = key_callback(window_controller, k, keyboard.mods, 0)
  /\ orphaned' = orphaned \ {ButtonOf(k, keyboard.mods)}
  /\ UNCHANGED <<stage, asked, pad, base, screens>>

\* The buttons whose key, which is held, is another's under these modifiers.
Orphans(mods) ==
  {ButtonOf(k, keyboard.mods) : k \in {h \in keyboard.held : ButtonOf(h, mods) # ButtonOf(h, keyboard.mods)}}

\* Ctrl or Alt is pressed or released.  (The two Ctrl keys are buttons as well, with
\* or without modifiers: such a key is an escape, before or after this.)
ModifierChanges(m) ==
  LET mods == IF m \in keyboard.mods THEN keyboard.mods \ {m} ELSE keyboard.mods \cup {m}
  IN /\ InEvents
     /\ keyboard' = [keyboard EXCEPT !.mods = mods]
     /\ orphaned' = orphaned \cup Orphans(mods)
     /\ UNCHANGED <<stage, window_controller, asked, pad, base, screens>>

\* GLFW releases the keys of a window that loses the focus, in the order of its
\* key codes and with no modifier.
LoseFocus ==
  LET Release(c, k) == IF k \in keyboard.held THEN key_callback(c, k, {}, 0) ELSE c
  IN /\ InEvents
     /\ keyboard' = [mods |-> {}, held |-> {}]
     /\ orphaned' = (orphaned \cup Orphans({})) \ {ButtonOf(k, {}) : k \in keyboard.held}
     /\ window_controller' = Release(Release(Release(Release(window_controller, "c"), "escape"), "up"), "f4")
     /\ UNCHANGED <<stage, asked, pad, base, screens>>

-----------------------------------------------------------------------------
(* A gamepad *)

\* A gamepad is plugged in, with a mapping of its buttons or without.
GamepadConnected ==
  /\ InEvents /\ ~gamepad.present /\ ~controller.is_connected
  /\ \E value \in Value, exists_gamepad_mapping \in BOOLEAN :
       /\ gamepad' = [present |-> TRUE, value |-> value]
       /\ IF exists_gamepad_mapping
          THEN /\ controller' = set_connected(controller, TRUE)
               /\ base' = [base EXCEPT !.gamepad = Released]
          ELSE UNCHANGED <<controller, base>>
  /\ UNCHANGED <<stage, input, screens>>

\* It is moved or pulled out, at any time; GLFW finds that out later, among the
\* events or when it reads it.
GamepadMoves ==
  /\ Happens /\ gamepad.present
  /\ \E value \in Value \ {gamepad.value} : gamepad' = [gamepad EXCEPT !.value = value]
  /\ UNCHANGED <<stage, input, controller, base, screens>>

GamepadPulled ==
  /\ Happens /\ gamepad.present
  /\ gamepad' = [present |-> FALSE, value |-> 0]
  /\ UNCHANGED <<stage, input, controller, base, screens>>

GamepadDisconnected ==
  /\ stage = "events" /\ ~aborted /\ ~gamepad.present /\ controller.is_connected
  /\ controller' = set_connected(controller, FALSE)
  /\ UNCHANGED <<stage, input, gamepad, base, screens, events>>

-----------------------------------------------------------------------------
(* The monitors *)

\* Takes the last entry in use.
LastEntry == IF monitors_top = 0 THEN 1 ELSE monitors_top

NextEntry == monitors_top + 1

\* The array doubles when it is full.  The struct behind a new place is new, and
\* what it holds is not read before it is written.
Grown(size) == IF size = 0 THEN 4 ELSE 2 * size

MonitorConnected(m) ==
  LET full == monitors_top = Len(monitors)
      array == IF full THEN [i \in 1 .. Grown(Len(monitors)) |-> IF i <= Len(monitors) THEN monitors[i] ELSE i]
               ELSE monitors
      memory == [i \in 1 .. Len(array) |-> IF i <= Len(monitors) THEN glfw_monitor[i] ELSE m]
  IN /\ InEvents /\ m \notin plugged
     /\ monitors' = array
     /\ monitors_top' = monitors_top + 1
     /\ glfw_monitor' = [memory EXCEPT ![array[NextEntry]] = m]
     /\ plugged' = plugged \cup {m}
     /\ replugged' = (replugged \/ unplugged # {})
     /\ UNCHANGED <<stage, input, pad, base, unplugged, aborted>>

\* Moves the others up whichever monitor is gone.
Compacted(at) == [i \in DOMAIN monitors |-> IF i >= at /\ i <= monitors_top - 1 THEN monitors[i + 1] ELSE monitors[i]]

DisconnectFirst(m) ==
  /\ InEvents /\ m \in plugged
  /\ monitors' = Compacted(1)
  /\ monitors_top' = monitors_top - 1
  /\ plugged' = plugged \ {m} /\ unplugged' = unplugged \cup {m}
  /\ UNCHANGED <<stage, input, pad, base, glfw_monitor, replugged, aborted>>

\* The place of the last entry keeps its pointer, which is then there twice.
MonitorDisconnected(m) ==
  LET found == {i \in 1 .. monitors_top : glfw_monitor[monitors[i]] = m}
  IN /\ InEvents /\ m \in plugged
     /\ plugged' = plugged \ {m} /\ unplugged' = unplugged \cup {m}
     /\ IF found = {}
        THEN aborted' = TRUE /\ UNCHANGED <<monitors, monitors_top>>
        ELSE /\ monitors' = Compacted(Min(found))
             /\ monitors_top' = monitors_top - 1
             /\ UNCHANGED aborted
     /\ UNCHANGED <<stage, input, pad, base, glfw_monitor, replugged>>

-----------------------------------------------------------------------------
pre_poll_events ==
  /\ stage = "program" /\ stage' = "events" /\ ~aborted
  /\ controller' = IF controller.is_connected THEN clear(controller) ELSE controller
  /\ window_controller' = clear(window_controller)
  /\ asked' = {}
  /\ base' = [window |-> window_controller.ended_down_value, gamepad |-> controller.ended_down_value]
  /\ UNCHANGED <<keyboard, orphaned, gamepad, screens, events>>

\* A gamepad that is gone reads as released, and GLFW reports it on the way.
poll_controllers ==
  /\ stage = "events" /\ stage' = "program" /\ ~aborted
  /\ controller' =
       IF controller.is_connected
       THEN button_process_input(set_connected(controller, gamepad.present), "GAMEPAD_AXIS", gamepad.value)
       ELSE controller
  /\ UNCHANGED <<input, gamepad, base, screens, events>>

Next ==
  \/ pre_poll_events \/ poll_controllers
  \/ \E k \in Key : KeyPress(k) \/ KeyRelease(k)
  \/ \E m \in Modifier : ModifierChanges(m)
  \/ LoseFocus
  \/ GamepadConnected \/ GamepadMoves \/ GamepadPulled \/ GamepadDisconnected
  \/ \E m \in Monitor : MonitorConnected(m) \/ MonitorDisconnected(m)

Spec == Init /\ [][Next]_vars

-----------------------------------------------------------------------------
\* What the counters say agrees with what the values say, whatever came between
\* two polls, in whatever order, also a gamepad plugged in again: a button that
\* reads otherwise than it did after the last poll has an odd number of
\* transitions, one that reads the same an even number.
CountsAreExact(c, from) ==
  /\ \A b \in Button : (c.n_of_transitions[b] % 2 = 1) <=> (c.ended_down_value[b] # from[b])
  /\ c.received_button_input <=> \E b \in Button : c.n_of_transitions[b] > 0

TransitionsAreExact ==
  stage = "program" =>
    /\ CountsAreExact(window_controller, base.window)
    /\ controller.is_connected => CountsAreExact(controller, base.gamepad)
    /\ \A b \in HasAction : b \in asked <=> window_controller.n_of_repeats[b] > 0

\* A button whose keys are all released is up, whatever order keys and modifiers
\* are pressed and released in and whenever the focus is lost, unless a modifier
\* gave its key to another button while it was held and it was not released since:
\* window__key_callback then takes the release for the other button's.
StuckOnlyAfterModifier ==
  \A b \in Button \ orphaned :
    button_is_down(window_controller, b) => \E k \in keyboard.held : ButtonOf(k, keyboard.mods) = b

\* The program finds every monitor once, and the assertion found_monitor holds,
\* as long as none is connected after another was disconnected
\* (gfx__monitor_callback reuses the struct of a monitor that is there).
MonitorsAreListed ==
  /\ aborted \/ monitors_top = Cardinality(plugged)
  /\ ~replugged =>
       /\ ~aborted
       /\ {glfw_monitor[monitors[i]] : i \in 1 .. monitors_top} = plugged

\* The monitor the client's window was created on stays its monitor while it is
\* plugged in, whatever happens to the others and to the array.
WindowKeepsItsMonitor ==
  [][glfw_monitor[1] \notin unplugged' => glfw_monitor'[1] = glfw_monitor[1]]_vars
=============================================================================
