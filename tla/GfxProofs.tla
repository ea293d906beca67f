----------------------------- MODULE GfxProofs -----------------------------
(***************************************************************************)
(* Proofs about src/gfx: the input devices and the monitors of Devices,    *)
(* for any number of monitors and events, in two inductive invariants that *)
(* share no variable, and the display state of a window as an instance of  *)
(* Display, which has a poll and variables of its own.                     *)
(***************************************************************************)
EXTENDS Devices, FunctionTheorems, FiniteSetTheorems, WellFoundedInduction, TLAPS

-----------------------------------------------------------------------------
(* Lemmas about the operators on a controller *)

\* What button_process_input leaves, field by field.
After(c, b, value) ==
  LET changed == value # c.ended_down_value[b]
  IN [is_connected |-> c.is_connected,
      ended_down_value |-> [c.ended_down_value EXCEPT ![b] = value],
      n_of_transitions |-> [c.n_of_transitions EXCEPT ![b] = IF changed THEN @ + 1 ELSE @],
      n_of_repeats |-> [c.n_of_repeats EXCEPT ![b] = IF value > 0 THEN @ + 1 ELSE @],
      received_button_input |-> c.received_button_input \/ changed]

\* An input writes all four fields at once.
LEMMA InputForm ==
  ASSUME NEW c \in ControllerState, NEW b \in Button, NEW value \in Value
  PROVE  button_process_input(c, b, value) = After(c, b, value)
  <1> DEFINE changed == value # c.ended_down_value[b]
             e == [c.ended_down_value EXCEPT ![b] = value]
             t == [c.n_of_transitions EXCEPT ![b] = IF changed THEN @ + 1 ELSE @]
             r == [c.n_of_repeats EXCEPT ![b] = IF value > 0 THEN @ + 1 ELSE @]
             g == c.received_button_input \/ changed
  <1>1. button_process_input(c, b, value) =
          [c EXCEPT !.ended_down_value = e, !.n_of_transitions = t, !.n_of_repeats = r, !.received_button_input = g]
    BY DEF button_process_input
  <1>2. After(c, b, value) = [is_connected |-> c.is_connected, ended_down_value |-> e, n_of_transitions |-> t,
                              n_of_repeats |-> r, received_button_input |-> g]
    BY DEF After
  <1> HIDE DEF e, t, r, g
  <1>3. QED BY <1>1, <1>2 DEF ControllerState

\* It sets one button, counts a change, and leaves the other buttons alone.
LEMMA InputProperties ==
  ASSUME NEW c \in ControllerState, NEW b \in Button, NEW value \in Value
  PROVE  LET n == button_process_input(c, b, value)
             changed == value # c.ended_down_value[b]
         IN  /\ n \in ControllerState
             /\ n.is_connected = c.is_connected
             /\ n.ended_down_value[b] = value
             /\ n.n_of_transitions[b] = IF changed THEN c.n_of_transitions[b] + 1 ELSE c.n_of_transitions[b]
             /\ n.n_of_repeats[b] = IF value > 0 THEN c.n_of_repeats[b] + 1 ELSE c.n_of_repeats[b]
             /\ n.received_button_input <=> c.received_button_input \/ changed
             /\ \A o \in Button \ {b} : /\ n.ended_down_value[o] = c.ended_down_value[o]
                                        /\ n.n_of_transitions[o] = c.n_of_transitions[o]
                                        /\ n.n_of_repeats[o] = c.n_of_repeats[o]
  <1> DEFINE n == button_process_input(c, b, value)
             changed == value # c.ended_down_value[b]
             e == [c.ended_down_value EXCEPT ![b] = value]
             t == [c.n_of_transitions EXCEPT ![b] = IF changed THEN @ + 1 ELSE @]
             r == [c.n_of_repeats EXCEPT ![b] = IF value > 0 THEN @ + 1 ELSE @]
  <1>1. /\ c.ended_down_value \in [Button -> Value] /\ c.n_of_transitions \in [Button -> Nat]
        /\ c.n_of_repeats \in [Button -> Nat] /\ c.received_button_input \in BOOLEAN
        /\ c.is_connected \in BOOLEAN
    BY DEF ControllerState
  <1>2. n = [is_connected |-> c.is_connected, ended_down_value |-> e, n_of_transitions |-> t,
             n_of_repeats |-> r, received_button_input |-> c.received_button_input \/ changed]
    BY InputForm DEF After
  <1>3. /\ e \in [Button -> Value] /\ e[b] = value
        /\ \A o \in Button \ {b} : e[o] = c.ended_down_value[o]
    BY <1>1
  <1>4. /\ t \in [Button -> Nat]
        /\ t[b] = IF changed THEN c.n_of_transitions[b] + 1 ELSE c.n_of_transitions[b]
        /\ \A o \in Button \ {b} : t[o] = c.n_of_transitions[o]
    BY <1>1
  <1>5. /\ r \in [Button -> Nat]
        /\ r[b] = IF value > 0 THEN c.n_of_repeats[b] + 1 ELSE c.n_of_repeats[b]
        /\ \A o \in Button \ {b} : r[o] = c.n_of_repeats[o]
    BY <1>1
  <1> HIDE DEF n, e, t, r
  <1>6. /\ n.is_connected = c.is_connected /\ n.ended_down_value = e /\ n.n_of_transitions = t /\ n.n_of_repeats = r
    BY <1>2
  <1>7. n.received_button_input <=> c.received_button_input \/ changed
    BY <1>2
  <1>8. n \in ControllerState
    BY <1>1, <1>2, <1>3, <1>4, <1>5 DEF ControllerState
  <1>9. QED BY <1>3, <1>4, <1>5, <1>6, <1>7, <1>8 DEF n

\* It keeps the counters exact when the button has only two values to go between, or
\* has not moved since the last poll: of three values two transitions may end
\* elsewhere than they began.
LEMMA InputIsCounted ==
  ASSUME NEW c \in ControllerState, NEW b \in Button, NEW value \in Value,
         NEW from \in [Button -> Value], CountsAreExact(c, from),
         c.ended_down_value[b] = from[b] \/ value = from[b] \/ value = c.ended_down_value[b]
  PROVE  CountsAreExact(button_process_input(c, b, value), from)
  <1> DEFINE n == button_process_input(c, b, value)
             changed == value # c.ended_down_value[b]
  <1>1. /\ n \in ControllerState
        /\ n.ended_down_value[b] = value
        /\ n.n_of_transitions[b] = IF changed THEN c.n_of_transitions[b] + 1 ELSE c.n_of_transitions[b]
        /\ n.received_button_input <=> c.received_button_input \/ changed
        /\ \A o \in Button \ {b} : /\ n.ended_down_value[o] = c.ended_down_value[o]
                                   /\ n.n_of_transitions[o] = c.n_of_transitions[o]
    BY InputProperties
  <1>2. \A o \in Button : c.n_of_transitions[o] \in Nat
    BY DEF ControllerState
  <1>3. /\ \A o \in Button : (c.n_of_transitions[o] % 2 = 1) <=> (c.ended_down_value[o] # from[o])
        /\ c.received_button_input <=> \E o \in Button : c.n_of_transitions[o] > 0
    BY DEF CountsAreExact
  <1> HIDE DEF n
  <1>4. (n.n_of_transitions[b] % 2 = 1) <=> (n.ended_down_value[b] # from[b])
    <2> DEFINE k == c.n_of_transitions[b]
    <2>1. k \in Nat
      BY <1>2
    <2>2. ((k + 1) % 2 = 1) <=> ~(k % 2 = 1)
      BY <2>1
    <2>3. (k % 2 = 1) <=> (c.ended_down_value[b] # from[b])
      BY <1>3
    <2> HIDE DEF k
    <2>4. n.n_of_transitions[b] = IF changed THEN k + 1 ELSE k
      BY <1>1 DEF k
    <2>5. QED BY <2>2, <2>3, <2>4, <1>1
  <1>5. n.received_button_input <=> \E o \in Button : n.n_of_transitions[o] > 0
    <2>1. CASE changed
      <3>1. n.n_of_transitions[b] > 0
        BY <2>1, <1>1, <1>2
      <3>2. QED BY <3>1, <2>1, <1>1
    <2>2. CASE ~changed
      BY <2>2, <1>1, <1>3
    <2>3. QED BY <2>1, <2>2
  <1>6. QED BY <1>1, <1>3, <1>4, <1>5 DEF CountsAreExact, n

\* Cleared counters are exact from the values there are,
LEMMA ClearIsExact ==
  ASSUME NEW c \in ControllerState
  PROVE  /\ clear(c) \in ControllerState /\ clear(c).ended_down_value = c.ended_down_value
         /\ clear(c).is_connected = c.is_connected
         /\ \A b \in Button : clear(c).n_of_repeats[b] = 0
         /\ CountsAreExact(clear(c), c.ended_down_value)
  <1>1. clear(c) = [is_connected |-> c.is_connected, ended_down_value |-> c.ended_down_value,
                    n_of_transitions |-> Released, n_of_repeats |-> Released, received_button_input |-> FALSE]
    <2> DEFINE z == Released
    <2>1. clear(c) = [c EXCEPT !.n_of_transitions = z, !.n_of_repeats = z, !.received_button_input = FALSE]
      BY DEF clear
    <2> HIDE DEF z
    <2>2. clear(c) = [is_connected |-> c.is_connected, ended_down_value |-> c.ended_down_value,
                      n_of_transitions |-> z, n_of_repeats |-> z, received_button_input |-> FALSE]
      BY <2>1 DEF ControllerState
    <2>3. QED BY <2>2 DEF z
  <1>2. Released \in [Button -> Nat] /\ \A b \in Button : Released[b] = 0
    BY DEF Released
  <1>3. clear(c) \in ControllerState
    BY <1>1, <1>2 DEF ControllerState
  <1>4. QED BY <1>1, <1>2, <1>3 DEF CountsAreExact

\* and those of a new controller from all buttons released.
LEMMA NewIsExact ==
  ASSUME NEW x \in BOOLEAN
  PROVE  /\ NewController(x) \in ControllerState /\ NewController(x).ended_down_value = Released
         /\ NewController(x).is_connected = x
         /\ \A b \in Button : NewController(x).n_of_repeats[b] = 0
         /\ CountsAreExact(NewController(x), Released)
  <1>1. Released \in [Button -> Nat] /\ Released \in [Button -> Value] /\ \A b \in Button : Released[b] = 0
    BY DEF Released, Value
  <1>2. NewController(x) \in ControllerState
    BY <1>1 DEF NewController, ControllerState
  <1>3. QED BY <1>1, <1>2 DEF NewController, CountsAreExact
-----------------------------------------------------------------------------
(* The inductive invariant of the input devices *)

\* A controller whose counters are exact; the buttons of a window are up or down.
WellCounted(c, from) ==
  /\ c \in ControllerState
  /\ \A b \in Button : c.ended_down_value[b] \in {0, 1}
  /\ CountsAreExact(c, from)

InputTypes ==
  /\ stage \in {"program", "events"}
  /\ keyboard \in [mods : SUBSET Modifier, held : SUBSET Key]
  /\ controller \in ControllerState
  /\ gamepad \in [present : BOOLEAN, value : Value]
  /\ base \in [window : [Button -> {0, 1}], gamepad : [Button -> Value]]

WindowIsCounted ==
  /\ WellCounted(window_controller, base.window)
  /\ \A b \in HasAction : b \in asked <=> window_controller.n_of_repeats[b] > 0

\* Between the two halves of a poll nothing has touched the gamepad's values yet.
GamepadIsCounted ==
  controller.is_connected =>
    /\ CountsAreExact(controller, base.gamepad)
    /\ stage = "events" => controller.ended_down_value = base.gamepad

InputInv == InputTypes /\ WindowIsCounted /\ GamepadIsCounted /\ StuckOnlyAfterModifier

-----------------------------------------------------------------------------
(* The inductive invariant of the monitors *)

Listed == 1 .. monitors_top
Shown(i) == glfw_monitor[monitors[i]]

ScreenTypes ==
  /\ plugged \subseteq Monitor /\ unplugged \subseteq Monitor
  /\ replugged \in BOOLEAN /\ aborted \in BOOLEAN
  /\ monitors \in Seq(Nat) /\ Len(monitors) > 0
  /\ \A i \in 1 .. Len(monitors) : monitors[i] \in 1 .. Len(monitors)
  /\ glfw_monitor \in [1 .. Len(monitors) -> Monitor]
  /\ monitors_top \in 0 .. Len(monitors)

\* The array lists every monitor once as long as no struct was reused.
EachOnce ==
  ~replugged =>
    /\ ~aborted
    /\ {Shown(i) : i \in Listed} = plugged
    /\ \A i, j \in Listed : Shown(i) = Shown(j) => i = j

\* The first struct is the window's.  Nothing but the first place points to it,
\* and while its monitor is there the first place does.
FirstStruct ==
  /\ unplugged = {} => \A i \in 1 .. Len(monitors) : monitors[i] = i
  /\ \A i \in 1 .. Len(monitors) : monitors[i] = 1 => i = 1
  /\ monitors[1] = 1 /\ glfw_monitor[1] \notin unplugged => monitors_top > 0

ScreenInv ==
  /\ ScreenTypes /\ EachOnce /\ FirstStruct
  /\ aborted \/ monitors_top = Cardinality(plugged)

-----------------------------------------------------------------------------
(* The input devices *)

\* A key's callback keeps a controller's counters exact, whatever was counted
\* before, and sets the key's button and no other.
LEMMA CallbackIsCounted ==
  ASSUME NEW c, NEW from \in [Button -> {0, 1}], WellCounted(c, from),
         NEW k \in Key, NEW mods \in SUBSET Modifier, NEW value \in {0, 1}
  PROVE  LET n == key_callback(c, k, mods, value)
         IN  /\ WellCounted(n, from)
             /\ \A b \in Button : n.ended_down_value[b] = IF b = ButtonOf(k, mods) THEN value ELSE c.ended_down_value[b]
             /\ \A b \in Button : n.n_of_repeats[b] = IF b = ButtonOf(k, mods) /\ value = 1 THEN c.n_of_repeats[b] + 1
                                                      ELSE c.n_of_repeats[b]
  <1> DEFINE n == key_callback(c, k, mods, value)
             b == ButtonOf(k, mods)
  <1>1. c \in ControllerState /\ CountsAreExact(c, from) /\ \A o \in Button : c.ended_down_value[o] \in {0, 1}
    BY DEF WellCounted
  <1>2. CASE b = NoButton
    <2>1. n = c
      BY <1>2 DEF key_callback
    <2>2. NoButton \notin Button
      BY DEF NoButton, Button
    <2>3. QED BY <2>1, <2>2, <1>2
  <1>3. CASE b # NoButton
    <2>1. b \in Button
      BY <1>3 DEF ButtonOf, Key, Button, NoButton
    <2>2. n = button_process_input(c, b, value)
      BY <1>3 DEF key_callback
    <2>3. value \in Value /\ from \in [Button -> Value]
      BY DEF Value
    <2>4. \/ c.ended_down_value[b] = from[b] \/ value = from[b]
          \/ value = c.ended_down_value[b]
      BY <1>1, <2>1
    <2> HIDE DEF b
    <2>5. CountsAreExact(n, from)
      BY <1>1, <2>1, <2>2, <2>3, <2>4, InputIsCounted
    <2>6. /\ n \in ControllerState
          /\ n.ended_down_value[b] = value
          /\ n.n_of_repeats[b] = IF value > 0 THEN c.n_of_repeats[b] + 1 ELSE c.n_of_repeats[b]
          /\ \A o \in Button \ {b} : n.ended_down_value[o] = c.ended_down_value[o] /\ n.n_of_repeats[o] = c.n_of_repeats[o]
      BY <1>1, <2>1, <2>2, <2>3, InputProperties
    <2> HIDE DEF n
    <2>7. \A o \in Button : n.ended_down_value[o] = IF o = b THEN value ELSE c.ended_down_value[o]
      BY <2>6
    <2>8. \A o \in Button : n.n_of_repeats[o] = IF o = b /\ value = 1 THEN c.n_of_repeats[o] + 1 ELSE c.n_of_repeats[o]
      BY <2>6
    <2>9. WellCounted(n, from)
      BY <2>5, <2>6, <2>7, <1>1 DEF WellCounted
    <2>10. QED BY <2>7, <2>8, <2>9 DEF n, b
  <1>4. QED BY <1>2, <1>3

\* The program begins with everything released.
LEMMA InputInit == Init => InputInv
  <1> SUFFICES ASSUME Init PROVE InputInv
    OBVIOUS
  <1>1. /\ window_controller = NewController(TRUE)
        /\ controller \in {NewController(FALSE), NewController(gamepad.present)}
        /\ gamepad \in [present : BOOLEAN, value : Value]
        /\ base.window = Released /\ base.gamepad = Released /\ asked = {}
    BY DEF Init
  <1>2. Released \in [Button -> {0, 1}] /\ Released \in [Button -> Value] /\ \A b \in Button : Released[b] = 0
    BY DEF Released, Value
  <1>3. /\ NewController(TRUE) \in ControllerState /\ NewController(TRUE).ended_down_value = Released
        /\ CountsAreExact(NewController(TRUE), Released) /\ \A b \in Button : NewController(TRUE).n_of_repeats[b] = 0
        /\ controller \in ControllerState /\ controller.ended_down_value = Released
        /\ CountsAreExact(controller, Released)
    BY <1>1, NewIsExact
  <1>4. InputTypes
    BY <1>1, <1>2, <1>3 DEF Init, InputTypes, Value
  <1>5. WindowIsCounted
    <2>1. WellCounted(window_controller, base.window)
      BY <1>1, <1>2, <1>3 DEF WellCounted
    <2>2. \A b \in HasAction : window_controller.n_of_repeats[b] = 0
      BY <1>1, <1>3 DEF HasAction, Button
    <2>3. asked = {}
      BY <1>1
    <2>4. QED BY <2>1, <2>2, <2>3 DEF WindowIsCounted
  <1>6. GamepadIsCounted
    BY <1>1, <1>3 DEF Init, GamepadIsCounted
  <1>7. StuckOnlyAfterModifier
    BY <1>1, <1>2, <1>3 DEF StuckOnlyAfterModifier, button_is_down
  <1>8. QED BY <1>4, <1>5, <1>6, <1>7 DEF InputInv

\* A press counts a repeat whenever it asks for the default action.
LEMMA PressKeepsInput ==
  ASSUME InputInv, NEW k \in Key, KeyPress(k)
  PROVE  InputInv'
  <1> DEFINE b == ButtonOf(k, keyboard.mods)
             n == key_callback(window_controller, k, keyboard.mods, 1)
  <1>1. /\ keyboard' = [keyboard EXCEPT !.held = @ \cup {k}]
        /\ window_controller' = n
        /\ asked' = IF b \in HasAction /\ button_is_down(n, b) THEN asked \cup {b} ELSE asked
        /\ UNCHANGED <<stage, orphaned, controller, gamepad, base>>
    BY DEF KeyPress, pad
  <1>2. InputTypes /\ WindowIsCounted /\ GamepadIsCounted /\ StuckOnlyAfterModifier
    BY DEF InputInv
  <1>3. /\ keyboard.mods \in SUBSET Modifier /\ keyboard.held \subseteq Key /\ base.window \in [Button -> {0, 1}]
    BY <1>2 DEF InputTypes
  <1>4. /\ WellCounted(n, base.window)
        /\ \A o \in Button : n.ended_down_value[o] = IF o = b THEN 1 ELSE window_controller.ended_down_value[o]
        /\ \A o \in Button : n.n_of_repeats[o] = IF o = b THEN window_controller.n_of_repeats[o] + 1
                                                  ELSE window_controller.n_of_repeats[o]
    BY <1>2, <1>3, CallbackIsCounted DEF WindowIsCounted
  <1>5. keyboard'.mods = keyboard.mods /\ keyboard'.held = keyboard.held \cup {k}
    BY <1>1, <1>2 DEF InputTypes
  <1>6. \A o \in Button : window_controller.n_of_repeats[o] \in Nat
    BY <1>2 DEF WindowIsCounted, WellCounted, ControllerState
  <1> HIDE DEF n, b
  <1>7. InputTypes'
    BY <1>1, <1>2, <1>3, <1>5 DEF InputTypes
  <1>8. WindowIsCounted'
    <2>1. \A o \in HasAction : o \in asked' <=> n.n_of_repeats[o] > 0
      <3> SUFFICES ASSUME NEW o \in HasAction PROVE o \in asked' <=> n.n_of_repeats[o] > 0
        OBVIOUS
      <3>1. o \in Button
        BY DEF HasAction, Button
      <3>2. CASE o = b
        BY <3>1, <3>2, <1>1, <1>4, <1>6 DEF button_is_down
      <3>3. CASE o # b
        BY <3>1, <3>3, <1>1, <1>2, <1>4 DEF WindowIsCounted
      <3>4. QED BY <3>2, <3>3
    <2>2. QED BY <2>1, <1>1, <1>4 DEF WindowIsCounted
  <1>9. GamepadIsCounted'
    BY <1>1, <1>2 DEF GamepadIsCounted, CountsAreExact
  <1>10. StuckOnlyAfterModifier'
    BY <1>1, <1>2, <1>4, <1>5 DEF StuckOnlyAfterModifier, button_is_down, b
  <1>11. QED BY <1>7, <1>8, <1>9, <1>10 DEF InputInv

\* A release with the same modifiers as the press reaches the same button.
LEMMA ReleaseKeepsInput ==
  ASSUME InputInv, NEW k \in Key, KeyRelease(k)
  PROVE  InputInv'
  <1> DEFINE b == ButtonOf(k, keyboard.mods)
             n == key_callback(window_controller, k, keyboard.mods, 0)
  <1>1. /\ keyboard' = [keyboard EXCEPT !.held = @ \ {k}]
        /\ window_controller' = n /\ orphaned' = orphaned \ {b}
        /\ UNCHANGED <<stage, asked, controller, gamepad, base>>
    BY DEF KeyRelease, pad
  <1>2. InputTypes /\ WindowIsCounted /\ GamepadIsCounted /\ StuckOnlyAfterModifier
    BY DEF InputInv
  <1>3. /\ keyboard.mods \in SUBSET Modifier /\ keyboard.held \subseteq Key /\ base.window \in [Button -> {0, 1}]
    BY <1>2 DEF InputTypes
  <1>4. /\ WellCounted(n, base.window)
        /\ \A o \in Button : n.ended_down_value[o] = IF o = b THEN 0 ELSE window_controller.ended_down_value[o]
        /\ \A o \in Button : n.n_of_repeats[o] = window_controller.n_of_repeats[o]
    BY <1>2, <1>3, CallbackIsCounted DEF WindowIsCounted
  <1>5. keyboard'.mods = keyboard.mods /\ keyboard'.held = keyboard.held \ {k}
    BY <1>1, <1>2 DEF InputTypes
  <1> HIDE DEF n, b
  <1>6. InputTypes'
    BY <1>1, <1>2, <1>3, <1>5 DEF InputTypes
  <1>7. WindowIsCounted'
    BY <1>1, <1>2, <1>4 DEF WindowIsCounted, HasAction, Button
  <1>8. GamepadIsCounted'
    BY <1>1, <1>2 DEF GamepadIsCounted, CountsAreExact
  <1>9. StuckOnlyAfterModifier'
    BY <1>1, <1>2, <1>4, <1>5 DEF StuckOnlyAfterModifier, button_is_down, b
  <1>10. QED BY <1>6, <1>7, <1>8, <1>9 DEF InputInv

\* A modifier leaves a key its button, or the button is remembered.
LEMMA ModifierKeepsInput ==
  ASSUME InputInv, NEW m \in Modifier, ModifierChanges(m)
  PROVE  InputInv'
  <1> DEFINE mods == IF m \in keyboard.mods THEN keyboard.mods \ {m} ELSE keyboard.mods \cup {m}
  <1>1. /\ keyboard' = [keyboard EXCEPT !.mods = mods] /\ orphaned' = orphaned \cup Orphans(mods)
        /\ UNCHANGED <<stage, window_controller, asked, controller, gamepad, base>>
    BY DEF ModifierChanges, pad
  <1>2. InputTypes /\ WindowIsCounted /\ GamepadIsCounted /\ StuckOnlyAfterModifier
    BY DEF InputInv
  <1>3. mods \in SUBSET Modifier
    BY <1>2 DEF InputTypes
  <1> HIDE DEF mods
  <1>4. keyboard'.mods = mods /\ keyboard'.held = keyboard.held
    BY <1>1, <1>2 DEF InputTypes
  <1>5. InputTypes'
    BY <1>1, <1>2, <1>3 DEF InputTypes
  <1>6. WindowIsCounted' /\ GamepadIsCounted'
    BY <1>1, <1>2 DEF WindowIsCounted, WellCounted, GamepadIsCounted, CountsAreExact
  <1>7. StuckOnlyAfterModifier'
    <2> SUFFICES ASSUME NEW b \in Button \ orphaned', button_is_down(window_controller, b)
                 PROVE  \E k \in keyboard.held : ButtonOf(k, mods) = b
      BY <1>1, <1>4 DEF StuckOnlyAfterModifier
    <2>1. b \notin orphaned /\ b \notin Orphans(mods)
      BY <1>1
    <2>2. PICK k \in keyboard.held : ButtonOf(k, keyboard.mods) = b
      BY <1>2, <2>1 DEF StuckOnlyAfterModifier
    <2>3. ButtonOf(k, mods) = b
      BY <2>1, <2>2 DEF Orphans
    <2>4. QED BY <2>3
  <1>8. QED BY <1>5, <1>6, <1>7 DEF InputInv

\* Losing the focus releases key after key, of which any may share a button.
LEMMA LoseFocusKeepsInput == InputInv /\ LoseFocus => InputInv'
  <1> SUFFICES ASSUME InputInv, LoseFocus PROVE InputInv'
    OBVIOUS
  <1> DEFINE none == {}
             Release(c, k) == IF k \in keyboard.held THEN key_callback(c, k, none, 0) ELSE c
             from == base.window
             c0 == window_controller
             c1 == Release(c0, "c")
             c2 == Release(c1, "escape")
             c3 == Release(c2, "up")
             c4 == Release(c3, "f4")
  <1>1. /\ keyboard' = [mods |-> none, held |-> {}]
        /\ orphaned' = (orphaned \cup Orphans(none)) \ {ButtonOf(k, none) : k \in keyboard.held}
        /\ window_controller' = c4
        /\ UNCHANGED <<stage, asked, controller, gamepad, base>>
    BY DEF LoseFocus, pad
  <1>2. InputTypes /\ WindowIsCounted /\ GamepadIsCounted /\ StuckOnlyAfterModifier
    BY DEF InputInv
  <1>3. /\ keyboard.mods \in SUBSET Modifier /\ keyboard.held \subseteq Key /\ from \in [Button -> {0, 1}]
        /\ WellCounted(c0, from)
    BY <1>2 DEF InputTypes, WindowIsCounted
  <1> DEFINE After3(c, n, k) ==
        /\ WellCounted(n, from)
        /\ \A o \in Button : n.ended_down_value[o] = IF k \in keyboard.held /\ o = ButtonOf(k, none) THEN 0
                                                     ELSE c.ended_down_value[o]
        /\ \A o \in Button : n.n_of_repeats[o] = c.n_of_repeats[o]
  <1>0. none \in SUBSET Modifier
    OBVIOUS
  <1> HIDE DEF from, c0, none
  <1>4. ASSUME NEW c, WellCounted(c, from), NEW k \in Key
        PROVE  After3(c, Release(c, k), k)
    <2>1. CASE k \in keyboard.held
      <3>1. Release(c, k) = key_callback(c, k, none, 0)
        BY <2>1
      <3> DEFINE n == key_callback(c, k, none, 0)
      <3>2. /\ WellCounted(n, from)
            /\ \A b \in Button : n.ended_down_value[b] = IF b = ButtonOf(k, none) THEN 0 ELSE c.ended_down_value[b]
            /\ \A b \in Button : n.n_of_repeats[b] = c.n_of_repeats[b]
        BY <1>0, <1>3, <1>4, CallbackIsCounted
      <3> HIDE DEF n
      <3>3. After3(c, n, k)
        BY <2>1, <3>2
      <3>4. QED BY <3>1, <3>3 DEF n
    <2>2. CASE k \notin keyboard.held
      BY <2>2, <1>4
    <2>3. QED BY <2>1, <2>2
  <1> HIDE DEF Release
  <1>5. After3(c0, c1, "c")
    BY <1>3, <1>4 DEF Key
  <1> HIDE DEF c1
  <1>6. After3(c1, c2, "escape")
    BY <1>5, <1>4 DEF Key
  <1> HIDE DEF c2
  <1>7. After3(c2, c3, "up")
    BY <1>6, <1>4 DEF Key
  <1> HIDE DEF c3
  <1>14. After3(c3, c4, "f4")
    BY <1>7, <1>4 DEF Key
  <1> HIDE DEF c4
  <1>8. \A o \in Button :
          /\ c4.n_of_repeats[o] = c0.n_of_repeats[o]
          /\ c4.ended_down_value[o] = IF \E k \in keyboard.held : o = ButtonOf(k, none) THEN 0 ELSE c0.ended_down_value[o]
    BY <1>3, <1>5, <1>6, <1>7, <1>14 DEF Key
  <1>9. InputTypes'
    BY <1>0, <1>1, <1>2 DEF InputTypes
  <1>10. WindowIsCounted'
    BY <1>1, <1>2, <1>14, <1>8 DEF WindowIsCounted, HasAction, Button, from, c0
  <1>11. GamepadIsCounted'
    BY <1>1, <1>2 DEF GamepadIsCounted, CountsAreExact
  <1>12. StuckOnlyAfterModifier'
    <2> SUFFICES ASSUME NEW b \in Button \ orphaned', c4.ended_down_value[b] # 0
                 PROVE  FALSE
      BY <1>1 DEF StuckOnlyAfterModifier, button_is_down
    <2>1. c0.ended_down_value[b] # 0 /\ b \notin {ButtonOf(k, none) : k \in keyboard.held}
      BY <1>8
    <2>2. b \notin orphaned /\ b \notin Orphans(none)
      BY <1>1, <2>1
    <2>3. PICK k \in keyboard.held : ButtonOf(k, keyboard.mods) = b
      BY <2>1, <2>2, <1>2 DEF StuckOnlyAfterModifier, button_is_down, c0
    <2>4. ButtonOf(k, none) = b
      BY <2>2, <2>3 DEF Orphans
    <2>5. QED BY <2>1, <2>3, <2>4
  <1>13. QED BY <1>9, <1>10, <1>11, <1>12 DEF InputInv

\* A gamepad that connects counts from nothing, one that is gone does not count.
LEMMA GamepadKeepsInput ==
  ASSUME InputInv,
         GamepadConnected \/ GamepadMoves \/ GamepadPulled \/ GamepadDisconnected
  PROVE  InputInv'
  <1>1. UNCHANGED <<stage, keyboard, orphaned, window_controller, asked>>
    BY DEF GamepadConnected, GamepadMoves, GamepadPulled, GamepadDisconnected, input
  <1>2. InputTypes /\ WindowIsCounted /\ GamepadIsCounted /\ StuckOnlyAfterModifier
    BY DEF InputInv
  <1>3. StuckOnlyAfterModifier'
    BY <1>1, <1>2 DEF StuckOnlyAfterModifier, button_is_down
  <1>4. Released \in [Button -> Value]
    BY DEF Released, Value
  <1>5. CASE controller' = NewController(TRUE) /\ base' = [base EXCEPT !.gamepad = Released]
             /\ gamepad' \in [present : BOOLEAN, value : Value]
    <2>1. base'.window = base.window /\ base'.gamepad = Released
          /\ base' \in [window : [Button -> {0, 1}], gamepad : [Button -> Value]]
      BY <1>2, <1>4, <1>5 DEF InputTypes
    <2>2. /\ controller' \in ControllerState /\ controller'.ended_down_value = Released
          /\ CountsAreExact(NewController(TRUE), Released)
      BY <1>5, NewIsExact
    <2>3. InputTypes'
      BY <1>1, <1>2, <1>5, <2>1, <2>2 DEF InputTypes
    <2>4. WindowIsCounted'
      BY <1>1, <1>2, <2>1 DEF WindowIsCounted
    <2>5. GamepadIsCounted'
      BY <1>5, <2>1, <2>2 DEF GamepadIsCounted
    <2>6. QED BY <2>3, <2>4, <2>5, <1>3 DEF InputInv
  <1>6. CASE base' = base /\ gamepad' \in [present : BOOLEAN, value : Value]
             /\ (controller' = controller \/ (controller' \in ControllerState /\ ~controller'.is_connected))
    <2>1. InputTypes'
      BY <1>1, <1>2, <1>6 DEF InputTypes
    <2>2. WindowIsCounted'
      BY <1>1, <1>2, <1>6 DEF WindowIsCounted
    <2>3. GamepadIsCounted'
      BY <1>1, <1>2, <1>6 DEF GamepadIsCounted
    <2>4. QED BY <2>1, <2>2, <2>3, <1>3 DEF InputInv
  <1>7. CASE GamepadConnected
    <2>1. PICK value \in Value, mapped \in BOOLEAN :
            /\ gamepad' = [present |-> TRUE, value |-> value]
            /\ IF mapped THEN controller' = set_connected(controller, TRUE) /\ base' = [base EXCEPT !.gamepad = Released]
               ELSE UNCHANGED <<controller, base>>
      BY <1>7 DEF GamepadConnected
    <2>2. ~controller.is_connected
      BY <1>7 DEF GamepadConnected
    <2>3. QED BY <2>1, <2>2, <1>5, <1>6 DEF set_connected
  <1>8. CASE GamepadMoves
    BY <1>2, <1>6, <1>8 DEF GamepadMoves, InputTypes
  <1>9. CASE GamepadPulled
    BY <1>6, <1>9 DEF GamepadPulled, Value
  <1>10. CASE GamepadDisconnected
    <2>1. controller' = [controller EXCEPT !.is_connected = FALSE] /\ UNCHANGED <<gamepad, base>>
      BY <1>10 DEF GamepadDisconnected, set_connected
    <2>2. controller' \in ControllerState /\ ~controller'.is_connected
      BY <2>1, <1>2 DEF InputTypes, ControllerState
    <2>3. QED BY <2>1, <2>2, <1>2, <1>6 DEF InputTypes
  <1>11. QED BY <1>7, <1>8, <1>9, <1>10

\* A poll clears the counters and counts from the values there are,
LEMMA PrePollKeepsInput == InputInv /\ pre_poll_events => InputInv'
  <1> SUFFICES ASSUME InputInv, pre_poll_events PROVE InputInv'
    OBVIOUS
  <1>1. /\ stage' = "events"
        /\ controller' = IF controller.is_connected THEN clear(controller) ELSE controller
        /\ window_controller' = clear(window_controller) /\ asked' = {}
        /\ base' = [window |-> window_controller.ended_down_value, gamepad |-> controller.ended_down_value]
        /\ UNCHANGED <<keyboard, orphaned, gamepad>>
    BY DEF pre_poll_events
  <1>2. InputTypes /\ WindowIsCounted /\ GamepadIsCounted /\ StuckOnlyAfterModifier
    BY DEF InputInv
  <1>3. /\ window_controller \in ControllerState /\ controller \in ControllerState
        /\ \A b \in Button : window_controller.ended_down_value[b] \in {0, 1}
    BY <1>2 DEF InputTypes, WindowIsCounted, WellCounted
  <1>4. \A c \in ControllerState :
          /\ clear(c) \in ControllerState /\ clear(c).ended_down_value = c.ended_down_value
          /\ clear(c).is_connected = c.is_connected
          /\ \A b \in Button : clear(c).n_of_repeats[b] = 0
          /\ CountsAreExact(clear(c), c.ended_down_value)
    BY ClearIsExact
  <1>5. window_controller.ended_down_value \in [Button -> {0, 1}] /\ controller.ended_down_value \in [Button -> Value]
    BY <1>3 DEF ControllerState
  <1>6. InputTypes'
    BY <1>1, <1>2, <1>3, <1>4, <1>5 DEF InputTypes
  <1>7. WindowIsCounted'
    <2>1. WellCounted(clear(window_controller), window_controller.ended_down_value)
      BY <1>3, <1>4 DEF WellCounted
    <2>2. \A b \in HasAction : clear(window_controller).n_of_repeats[b] = 0
      BY <1>3, <1>4 DEF HasAction, Button
    <2>3. QED BY <1>1, <2>1, <2>2 DEF WindowIsCounted
  <1>8. GamepadIsCounted'
    BY <1>1, <1>3, <1>4 DEF GamepadIsCounted
  <1>9. StuckOnlyAfterModifier'
    BY <1>1, <1>2, <1>3, <1>4 DEF StuckOnlyAfterModifier, button_is_down
  <1>10. QED BY <1>6, <1>7, <1>8, <1>9 DEF InputInv

\* and reads the gamepad once.
LEMMA PollKeepsInput == InputInv /\ poll_controllers => InputInv'
  <1> SUFFICES ASSUME InputInv, poll_controllers PROVE InputInv'
    OBVIOUS
  <1> DEFINE d == set_connected(controller, gamepad.present)
             n == button_process_input(d, "GAMEPAD_AXIS", gamepad.value)
  <1>1. /\ stage = "events" /\ stage' = "program"
        /\ controller' = IF controller.is_connected THEN n ELSE controller
        /\ UNCHANGED <<keyboard, orphaned, window_controller, asked, gamepad, base>>
    BY DEF poll_controllers, input
  <1>2. InputTypes /\ WindowIsCounted /\ GamepadIsCounted /\ StuckOnlyAfterModifier
    BY DEF InputInv
  <1>3. WindowIsCounted' /\ StuckOnlyAfterModifier'
    BY <1>1, <1>2 DEF WindowIsCounted, StuckOnlyAfterModifier, button_is_down
  <1>4. gamepad.present \in BOOLEAN /\ gamepad.value \in Value /\ base.gamepad \in [Button -> Value]
        /\ controller \in ControllerState
    BY <1>2 DEF InputTypes
  <1>5. CASE ~controller.is_connected
    BY <1>1, <1>2, <1>3, <1>5 DEF InputInv, InputTypes, GamepadIsCounted
  <1>6. CASE controller.is_connected
    <2>1. d = [controller EXCEPT !.is_connected = gamepad.present]
      BY <1>6 DEF set_connected
    <2>2. d \in ControllerState /\ d.ended_down_value = controller.ended_down_value
          /\ d.n_of_transitions = controller.n_of_transitions /\ d.received_button_input = controller.received_button_input
      BY <2>1, <1>4 DEF ControllerState
    <2>3. CountsAreExact(d, base.gamepad) /\ d.ended_down_value = base.gamepad
      BY <2>2, <1>1, <1>2, <1>6 DEF GamepadIsCounted, CountsAreExact
    <2> HIDE DEF d
    <2>4. "GAMEPAD_AXIS" \in Button
      BY DEF Button
    <2>5. CountsAreExact(n, base.gamepad) /\ n \in ControllerState
      BY <2>2, <2>3, <2>4, <1>4, InputIsCounted, InputProperties
    <2> HIDE DEF n
    <2>6. InputTypes'
      BY <1>1, <1>2, <1>6, <2>5 DEF InputTypes
    <2>7. GamepadIsCounted'
      BY <1>1, <1>6, <2>5 DEF GamepadIsCounted
    <2>8. QED BY <1>3, <2>6, <2>7 DEF InputInv
  <1>7. QED BY <1>5, <1>6

\* The monitors do not touch the controllers.
LEMMA InputNext == InputInv /\ [Next]_vars => InputInv'
  <1> SUFFICES ASSUME InputInv, [Next]_vars PROVE InputInv'
    OBVIOUS
  <1>1. CASE UNCHANGED <<stage, input, pad, base>>
    BY <1>1 DEF input, pad, InputInv, InputTypes, WindowIsCounted, WellCounted, CountsAreExact, GamepadIsCounted,
                StuckOnlyAfterModifier, button_is_down
  <1>2. CASE pre_poll_events
    BY <1>2, PrePollKeepsInput
  <1>3. CASE poll_controllers
    BY <1>3, PollKeepsInput
  <1>4. CASE \E k \in Key : KeyPress(k) \/ KeyRelease(k)
    BY <1>4, PressKeepsInput, ReleaseKeepsInput
  <1>5. CASE \E m \in Modifier : ModifierChanges(m)
    BY <1>5, ModifierKeepsInput
  <1>6. CASE LoseFocus
    BY <1>6, LoseFocusKeepsInput
  <1>7. CASE GamepadConnected \/ GamepadMoves \/ GamepadPulled \/ GamepadDisconnected
    BY <1>7, GamepadKeepsInput
  <1>8. CASE \E m \in Monitor : MonitorConnected(m) \/ MonitorDisconnected(m)
    BY <1>1, <1>8 DEF MonitorConnected, MonitorDisconnected
  <1>9. CASE UNCHANGED vars
    BY <1>1, <1>9 DEF vars
  <1>10. QED BY <1>2, <1>3, <1>4, <1>5, <1>6, <1>7, <1>8, <1>9 DEF Next

\* The counters of every controller agree with its values at all times, and the
\* values with the keys.
THEOREM InputIsInvariant == Spec => []InputInv
  <1>1. QED BY InputInit, InputNext, PTL DEF Spec

\* Between two polls the counters of every controller that is connected agree
\* with its values, and the default actions that ran with the repeats.
THEOREM CountersAgree == Spec => []TransitionsAreExact
  <1>1. InputInv => TransitionsAreExact
    BY DEF InputInv, WindowIsCounted, WellCounted, GamepadIsCounted, TransitionsAreExact
  <1>2. QED BY <1>1, InputIsInvariant, PTL

\* A button of the window that is down has a key that is held, unless Ctrl or Alt
\* gave its key to another button meanwhile and it was not released since.
THEOREM DownIsHeld == Spec => []StuckOnlyAfterModifier
  <1>1. InputInv => StuckOnlyAfterModifier
    BY DEF InputInv
  <1>2. QED BY <1>1, InputIsInvariant, PTL

-----------------------------------------------------------------------------
(* The monitors *)

\* The order of the natural numbers.
Less == {ss \in Nat \X Nat : ss[1] < ss[2]}

\* It is well-founded.
LEMMA LessIsWellFounded == IsWellFoundedOn(Less, Nat)
  BY NatLessThanWellFounded DEF OpToRel, Less

\* A set of natural numbers that is not empty has a least one: induction without an
\* operator for the formula.
LEMMA LeastExists ==
  ASSUME NEW T, T \subseteq Nat, T # {}
  PROVE  \E x \in T : \A y \in T : x <= y
  <1>1. PICK x \in T : \A y \in T : ~(<<y, x>> \in Less)
    BY LessIsWellFounded, WFMin, Zenon
  <1>2. ASSUME NEW y \in T PROVE x <= y
    <2>1. ~(<<y, x>> \in Less)
      BY <1>1
    <2>2. <<y, x>> \in Nat \X Nat
      OBVIOUS
    <2>3. y \in Nat /\ x \in Nat
      OBVIOUS
    <2>4. ~(y < x)
      BY <2>1, <2>2 DEF Less
    <2>5. QED BY <2>3, <2>4
  <1>3. QED BY <1>2

\* There are finitely many monitors.
LEMMA PluggedIsFinite ==
  ASSUME NEW S \in SUBSET Monitor
  PROVE  IsFiniteSet(S) /\ Cardinality(S) \in Nat
  BY FS_Subset, FS_CardinalityType, DevicesAssumption

\* GLFW gives every monitor once, in some order.
LEMMA ScreenInit == Init => ScreenInv
  <1> SUFFICES ASSUME Init PROVE ScreenInv
    OBVIOUS
  <1> DEFINE n == Cardinality(plugged)
  <1>1. /\ plugged \in SUBSET Monitor /\ plugged # {} /\ unplugged = {}
        /\ glfw_monitor \in SetToSeqs(plugged)
        /\ monitors = [i \in 1 .. n |-> i] /\ monitors_top = n
        /\ replugged = FALSE /\ aborted = FALSE
    BY DEF Init
  <1>2. IsFiniteSet(plugged) /\ n \in Nat /\ n > 0
    <2>1. IsFiniteSet(plugged) /\ n \in Nat
      BY <1>1, PluggedIsFinite
    <2>2. n # 0
      BY <2>1, <1>1, FS_EmptySet
    <2>3. QED BY <2>1, <2>2
  <1>3. /\ glfw_monitor \in [1 .. n -> plugged]
        /\ \A i, j \in 1 .. n : glfw_monitor[i] = glfw_monitor[j] => i = j
    BY <1>1 DEF SetToSeqs
  <1> HIDE DEF n
  <1>4. \A m \in plugged : \E i \in 1 .. n : glfw_monitor[i] = m
    <2>1. glfw_monitor \in Injection(1 .. n, plugged)
      BY <1>3, Fun_IsInj
    <2>2. IsFiniteSet(1 .. n) /\ Cardinality(1 .. n) = n
      BY <1>2, FS_Interval
    <2>3. glfw_monitor \in Surjection(1 .. n, plugged)
      <3>1. Cardinality(1 .. n) = Cardinality(plugged)
        BY <2>2 DEF n
      <3>2. QED BY <2>1, <3>1, <1>2, FS_Injection
    <2>4. QED BY <2>3 DEF Surjection
  <1>5. monitors \in Seq(Nat) /\ Len(monitors) = n /\ \A i \in 1 .. n : monitors[i] = i
    BY <1>1, <1>2
  <1>6. ScreenTypes
    <2>1. glfw_monitor \in [1 .. n -> Monitor]
      BY <1>1, <1>3
    <2> DEFINE len == Len(monitors)
    <2>2. len = n
      BY <1>5
    <2>3. /\ len > 0 /\ (\A i \in 1 .. len : monitors[i] \in 1 .. len)
          /\ glfw_monitor \in [1 .. len -> Monitor] /\ monitors_top \in 0 .. len
      <3> HIDE DEF len
      <3>1. QED BY <2>1, <2>2, <1>1, <1>2, <1>5
    <2>4. QED BY <2>3, <1>1, <1>5 DEF ScreenTypes
  <1>7. EachOnce
    BY <1>1, <1>3, <1>4, <1>5 DEF EachOnce, Shown, Listed
  <1>8. FirstStruct
    BY <1>1, <1>2, <1>5 DEF FirstStruct
  <1>9. QED BY <1>1, <1>6, <1>7, <1>8 DEF ScreenInv, n

\* Connecting a monitor writes one struct: that of the next place.
LEMMA ConnectedArray ==
  ASSUME ScreenInv, NEW m \in Monitor, MonitorConnected(m)
  PROVE  /\ monitors' \in Seq(Nat) /\ Len(monitors') >= Len(monitors) /\ monitors_top' = monitors_top + 1
         /\ monitors_top' <= Len(monitors')
         /\ \A i \in 1 .. Len(monitors') : /\ monitors'[i] \in 1 .. Len(monitors')
                                           /\ monitors'[i] = IF i <= Len(monitors) THEN monitors[i] ELSE i
         /\ glfw_monitor' \in [1 .. Len(monitors') -> Monitor]
         /\ glfw_monitor'[monitors'[monitors_top']] = m
         /\ \A i \in 1 .. Len(monitors) : i # monitors'[monitors_top'] => glfw_monitor'[i] = glfw_monitor[i]
  <1> DEFINE full == monitors_top = Len(monitors)
             len == Len(monitors)
             size == IF full THEN Grown(len) ELSE len
             array == IF full THEN [i \in 1 .. Grown(len) |-> IF i <= len THEN monitors[i] ELSE i] ELSE monitors
             memory == [i \in 1 .. Len(array) |-> IF i <= len THEN glfw_monitor[i] ELSE m]
             next == monitors_top + 1
  <1>1. /\ monitors' = array /\ monitors_top' = next
        /\ glfw_monitor' = [memory EXCEPT ![array[next]] = m]
    BY DEF MonitorConnected, NextEntry
  <1>2. /\ monitors \in Seq(Nat) /\ len > 0 /\ len \in Nat
        /\ \A i \in 1 .. len : monitors[i] \in 1 .. len
        /\ glfw_monitor \in [1 .. len -> Monitor]
        /\ monitors_top \in 0 .. len
    BY DEF ScreenInv, ScreenTypes
  <1>3. size \in Nat /\ size >= len /\ next \in 1 .. size
    BY <1>2 DEF Grown
  <1>4. /\ array \in Seq(Nat) /\ Len(array) = size
        /\ \A i \in 1 .. size : array[i] = IF i <= len THEN monitors[i] ELSE i
    <2>1. CASE full
      <3> DEFINE g == Grown(len)
      <3>1. g \in Nat /\ g >= len /\ size = g
        BY <2>1, <1>2 DEF Grown
      <3>2. array = [i \in 1 .. g |-> IF i <= len THEN monitors[i] ELSE i]
        BY <2>1
      <3> HIDE DEF g, size, array, full
      <3>3. array \in Seq(Nat) /\ Len(array) = g /\ \A i \in 1 .. g : array[i] = IF i <= len THEN monitors[i] ELSE i
        BY <3>1, <3>2, <1>2
      <3>4. QED BY <3>1, <3>3
    <2>2. CASE ~full
      BY <2>2, <1>2
    <2>3. QED BY <2>1, <2>2
  <1> HIDE DEF array, size
  <1>5. \A i \in 1 .. size : array[i] \in 1 .. size
    <2> SUFFICES ASSUME NEW i \in 1 .. size PROVE array[i] \in 1 .. size
      OBVIOUS
    <2>1. CASE i <= len
      <3>1. i \in 1 .. len
        BY <2>1, <1>2, <1>3
      <3>2. monitors[i] \in 1 .. len /\ array[i] = monitors[i]
        BY <3>1, <2>1, <1>2, <1>4
      <3>3. QED BY <3>2, <1>2, <1>3
    <2>2. CASE i > len
      BY <2>2, <1>2, <1>3, <1>4
    <2>3. QED BY <2>1, <2>2, <1>2, <1>3
  <1> HIDE DEF len
  <1>6. memory \in [1 .. size -> Monitor] /\ \A i \in 1 .. len : memory[i] = glfw_monitor[i]
    <2>1. memory = [i \in 1 .. size |-> IF i <= len THEN glfw_monitor[i] ELSE m]
      BY <1>4
    <2>2. \A i \in 1 .. size : (IF i <= len THEN glfw_monitor[i] ELSE m) \in Monitor
      BY <1>2, <1>3
    <2> HIDE DEF memory
    <2>3. QED BY <2>1, <2>2, <1>2, <1>3
  <1> HIDE DEF memory, full, next
  <1>7. array[next] \in 1 .. size
    BY <1>3, <1>5
  <1> DEFINE new == [memory EXCEPT ![array[next]] = m]
  <1>8. /\ new \in [1 .. size -> Monitor] /\ new[array[next]] = m
        /\ \A i \in 1 .. len : i # array[next] => new[i] = glfw_monitor[i]
    BY <1>2, <1>3, <1>6, <1>7
  <1> HIDE DEF new
  <1>9. monitors' = array /\ monitors_top' = next /\ glfw_monitor' = new
    BY <1>1 DEF new
  <1>10. monitors_top + 1 = next
    BY DEF next
  <1>11. QED BY <1>3, <1>4, <1>5, <1>8, <1>9, <1>10 DEF len

\* A new place gets a struct of its own unless one was given up before, and the
\* window's struct is taken only when its monitor is gone.
LEMMA ConnectKeepsScreens ==
  ASSUME ScreenInv, NEW m \in Monitor, MonitorConnected(m)
  PROVE  ScreenInv' /\ (glfw_monitor[1] \notin unplugged' => glfw_monitor'[1] = glfw_monitor[1])
  <1> DEFINE len == Len(monitors)
             size == Len(monitors')
             next == monitors_top + 1
  <1>1. /\ ~aborted /\ m \notin plugged /\ plugged' = plugged \cup {m} /\ unplugged' = unplugged
        /\ aborted' = aborted /\ replugged' = (replugged \/ unplugged # {})
    BY DEF MonitorConnected, InEvents, Happens
  <1>2. /\ monitors' \in Seq(Nat) /\ size >= len /\ monitors_top' = next /\ next <= size
        /\ \A i \in 1 .. size : monitors'[i] \in 1 .. size
        /\ \A i \in 1 .. size : monitors'[i] = IF i <= len THEN monitors[i] ELSE i
        /\ glfw_monitor' \in [1 .. size -> Monitor]
        /\ glfw_monitor'[monitors'[next]] = m
        /\ \A i \in 1 .. len : i # monitors'[next] => glfw_monitor'[i] = glfw_monitor[i]
    BY ConnectedArray
  <1>3. ScreenTypes /\ EachOnce /\ FirstStruct /\ monitors_top = Cardinality(plugged)
    BY <1>1 DEF ScreenInv
  <1>4. /\ monitors \in Seq(Nat) /\ len > 0 /\ len \in Nat /\ size \in Nat
        /\ \A i \in 1 .. len : monitors[i] \in 1 .. len
        /\ monitors_top \in 0 .. len /\ next \in 1 .. size
        /\ plugged \subseteq Monitor /\ unplugged \subseteq Monitor /\ replugged \in BOOLEAN /\ aborted \in BOOLEAN
    <2>1. /\ monitors \in Seq(Nat) /\ len > 0 /\ len \in Nat /\ size \in Nat
          /\ \A i \in 1 .. len : monitors[i] \in 1 .. len
          /\ monitors_top \in 0 .. len
          /\ plugged \subseteq Monitor /\ unplugged \subseteq Monitor /\ replugged \in BOOLEAN /\ aborted \in BOOLEAN
      BY <1>2, <1>3 DEF ScreenTypes
    <2>2. QED BY <2>1, <1>2
  <1> HIDE DEF len, size, next
  <1>5. \A i \in 1 .. size : monitors'[i] = 1 => i = 1
    <2>1. \A i \in 1 .. len : monitors[i] = 1 => i = 1
      BY <1>3 DEF FirstStruct, len
    <2>2. SUFFICES ASSUME NEW i \in 1 .. size, monitors'[i] = 1 PROVE i = 1
      OBVIOUS
    <2>3. CASE i <= len
      <3>1. i \in 1 .. len
        BY <2>3, <1>4
      <3>2. monitors'[i] = monitors[i]
        BY <2>3, <1>2
      <3>3. QED BY <3>1, <3>2, <2>1, <2>2
    <2>4. CASE i > len
      BY <2>2, <2>4, <1>2, <1>4
    <2>5. QED BY <2>3, <2>4, <1>4
  <1>6. ScreenTypes'
    <2>1. plugged' \subseteq Monitor /\ unplugged' \subseteq Monitor /\ replugged' \in BOOLEAN /\ aborted' \in BOOLEAN
      BY <1>1, <1>4
    <2>2. size > 0 /\ monitors_top' \in 0 .. size
      BY <1>2, <1>4
    <2>3. QED BY <1>2, <2>1, <2>2 DEF ScreenTypes, size
  <1>7. unplugged = {} => \A i \in 1 .. size : monitors'[i] = i
    <2>1. unplugged = {} => \A i \in 1 .. len : monitors[i] = i
      BY <1>3 DEF FirstStruct, len
    <2>2. SUFFICES ASSUME unplugged = {}, NEW i \in 1 .. size PROVE monitors'[i] = i
      OBVIOUS
    <2>3. CASE i <= len
      BY <2>1, <2>2, <2>3, <1>2, <1>4
    <2>4. CASE i > len
      BY <2>4, <1>2, <1>4
    <2>5. QED BY <2>3, <2>4, <1>4
  <1>8. FirstStruct'
    <2>1. monitors_top' > 0
      BY <1>2, <1>4
    <2>2. QED BY <2>1, <1>1, <1>5, <1>7 DEF FirstStruct, size
  <1>9. monitors_top' = Cardinality(plugged')
    <2>1. IsFiniteSet(plugged)
      BY <1>4, PluggedIsFinite
    <2>2. Cardinality(plugged') = Cardinality(plugged) + 1
      BY <2>1, <1>1, FS_AddElement
    <2>3. QED BY <2>2, <1>2, <1>3 DEF next
  <1>10. EachOnce'
    <2> SUFFICES ASSUME ~replugged' PROVE ~aborted' /\ {Shown(i)' : i \in Listed'} = plugged'
                                          /\ \A i, j \in Listed' : Shown(i)' = Shown(j)' => i = j
      BY DEF EachOnce
    <2>1. ~replugged /\ unplugged = {}
      BY <1>1
    <2>2. Listed' = 1 .. next /\ Listed = 1 .. monitors_top
      BY <1>2 DEF Listed
    <2> DEFINE Now(i) == glfw_monitor'[monitors'[i]]
    <2>3. \A i \in 1 .. monitors_top : Now(i) = Shown(i)
      <3> SUFFICES ASSUME NEW i \in 1 .. monitors_top PROVE Now(i) = Shown(i)
        OBVIOUS
      <3>1. i \in 1 .. len /\ i \in 1 .. size /\ i # next
        BY <1>2, <1>4 DEF next
      <3>2. monitors[i] = i
        BY <3>1, <2>1, <1>3 DEF FirstStruct, len
      <3>3. monitors'[i] = i /\ monitors'[next] = next
        BY <3>1, <1>4, <1>7, <2>1
      <3>4. QED BY <3>1, <3>2, <3>3, <1>2 DEF Shown
    <2>4. Now(next) = m
      BY <1>2
    <2>5. /\ {Shown(i) : i \in 1 .. monitors_top} = plugged
          /\ \A i, j \in 1 .. monitors_top : Shown(i) = Shown(j) => i = j
      BY <1>3, <2>1, <2>2 DEF EachOnce
    <2>6. 1 .. next = (1 .. monitors_top) \cup {next}
      BY <1>4 DEF next
    <2>7. \A i \in Listed' : Shown(i)' = Now(i)
      BY DEF Shown
    <2> HIDE DEF Now
    <2>8. {Now(i) : i \in 1 .. next} = plugged'
      BY <2>3, <2>4, <2>5, <2>6, <1>1
    <2>9. \A i, j \in 1 .. next : Now(i) = Now(j) => i = j
      BY <2>3, <2>4, <2>5, <2>6, <1>1
    <2>10. QED BY <2>1, <2>2, <2>7, <2>8, <2>9, <1>1
  <1>11. glfw_monitor[1] \notin unplugged' => glfw_monitor'[1] = glfw_monitor[1]
    <2> SUFFICES ASSUME glfw_monitor[1] \notin unplugged PROVE glfw_monitor'[1] = glfw_monitor[1]
      BY <1>1
    <2>1. CASE monitors'[next] = 1
      <3>1. next = 1 /\ monitors_top = 0
        BY <2>1, <1>4, <1>5 DEF next
      <3>2. monitors[1] = 1
        BY <2>1, <3>1, <1>2, <1>4
      <3>3. monitors_top > 0
        BY <3>2, <1>3 DEF FirstStruct
      <3>4. QED BY <3>1, <3>3
    <2>2. CASE monitors'[next] # 1
      BY <2>2, <1>2, <1>4
    <2>3. QED BY <2>1, <2>2
  <1>12. QED BY <1>6, <1>8, <1>9, <1>10, <1>11 DEF ScreenInv

\* The places behind the one that is gone move up, in their order.
LEMMA DisconnectKeepsScreens ==
  ASSUME ScreenInv, NEW m \in Monitor, MonitorDisconnected(m)
  PROVE  ScreenInv'
  <1> DEFINE len == Len(monitors)
             found == {i \in 1 .. monitors_top : glfw_monitor[monitors[i]] = m}
             at == Min(found)
  <1>1. /\ ~aborted /\ m \in plugged /\ plugged' = plugged \ {m} /\ unplugged' = unplugged \cup {m}
        /\ glfw_monitor' = glfw_monitor /\ replugged' = replugged
        /\ IF found = {} THEN aborted' = TRUE /\ UNCHANGED <<monitors, monitors_top>>
           ELSE monitors' = Compacted(at) /\ monitors_top' = monitors_top - 1 /\ UNCHANGED aborted
    BY DEF MonitorDisconnected, InEvents, Happens
  <1>2. ScreenTypes /\ EachOnce /\ FirstStruct /\ monitors_top = Cardinality(plugged)
    BY <1>1 DEF ScreenInv
  <1>3. /\ monitors \in Seq(Nat) /\ len > 0 /\ len \in Nat
        /\ \A i \in 1 .. len : monitors[i] \in 1 .. len
        /\ monitors_top \in 0 .. len /\ glfw_monitor \in [1 .. len -> Monitor]
        /\ plugged \subseteq Monitor /\ unplugged \subseteq Monitor /\ replugged \in BOOLEAN /\ aborted \in BOOLEAN
    BY <1>2 DEF ScreenTypes
  <1>4. CASE found = {}
    <2>1. /\ aborted' /\ UNCHANGED <<monitors, monitors_top>>
      BY <1>1, <1>4
    <2>2. ScreenTypes'
      BY <2>1, <1>1, <1>2 DEF ScreenTypes
    <2>3. FirstStruct'
      BY <2>1, <1>1, <1>2 DEF FirstStruct
    <2>4. replugged
      <3> SUFFICES ASSUME ~replugged PROVE FALSE
        OBVIOUS
      <3>1. m \in {Shown(i) : i \in Listed}
        BY <1>1, <1>2 DEF EachOnce
      <3>2. QED BY <3>1, <1>4 DEF Shown, Listed
    <2>5. EachOnce'
      BY <2>4, <1>1 DEF EachOnce
    <2>6. QED BY <2>1, <2>2, <2>3, <2>5 DEF ScreenInv
  <1>5. CASE found # {}
    <2>1. monitors' = Compacted(at) /\ monitors_top' = monitors_top - 1 /\ aborted' = aborted
      BY <1>1, <1>5
    <2>2. at \in found /\ \A i \in found : at <= i
      <3>1. found \in SUBSET Nat
        BY <1>3
      <3> HIDE DEF found, at
      <3>2. \E x \in found : \A y \in found : x <= y
        BY <1>5, <3>1, LeastExists
      <3>3. QED BY <3>2 DEF at, Min
    <2> HIDE DEF at
    <2>3. at \in 1 .. monitors_top /\ Shown(at) = m
      BY <2>2 DEF Shown
    <2> HIDE DEF found
    <2>4. /\ monitors' \in Seq(Nat) /\ Len(monitors') = len
          /\ \A i \in 1 .. len : monitors'[i] = IF i >= at /\ i <= monitors_top - 1 THEN monitors[i + 1] ELSE monitors[i]
      <3>1. DOMAIN monitors = 1 .. len
        BY <1>3
      <3>2. Compacted(at) = [i \in 1 .. len |-> IF i >= at /\ i <= monitors_top - 1 THEN monitors[i + 1] ELSE monitors[i]]
        BY <3>1 DEF Compacted
      <3>3. \A i \in 1 .. len : (IF i >= at /\ i <= monitors_top - 1 THEN monitors[i + 1] ELSE monitors[i]) \in Nat
        BY <1>3
      <3> HIDE DEF len
      <3>4. QED BY <2>1, <3>2, <3>3, <1>3
    <2> HIDE DEF len
    <2>5. \A i \in 1 .. len : monitors'[i] \in 1 .. len
      <3> SUFFICES ASSUME NEW i \in 1 .. len PROVE monitors'[i] \in 1 .. len
        OBVIOUS
      <3>1. i >= at /\ i <= monitors_top - 1 => i + 1 \in 1 .. len
        BY <1>3
      <3>2. QED BY <3>1, <2>4, <1>3
    <2>6. ScreenTypes'
      <3>1. plugged' \subseteq Monitor /\ unplugged' \subseteq Monitor
        BY <1>1, <1>3
      <3>2. monitors_top' \in 0 .. len
        BY <2>1, <2>3, <1>3
      <3>3. Len(monitors') = len
        BY <2>4
      <3> DEFINE size == Len(monitors')
      <3>4. size = len /\ monitors' \in Seq(Nat) /\ size > 0 /\ (\A i \in 1 .. size : monitors'[i] \in 1 .. size)
        BY <3>3, <2>4, <2>5, <1>3
      <3>5. glfw_monitor' \in [1 .. size -> Monitor]
        BY <3>4, <1>1, <1>3
      <3>6. QED BY <1>1, <1>3, <2>1, <3>1, <3>2, <3>4, <3>5 DEF ScreenTypes
    <2>7. FirstStruct'
      <3>1. unplugged' # {}
        BY <1>1
      <3>2. \A i \in 1 .. len : monitors[i] = 1 => i = 1
        BY <1>2 DEF FirstStruct, len
      <3>3. \A i \in 1 .. len : monitors'[i] = 1 => i = 1
        <4> SUFFICES ASSUME NEW i \in 1 .. len, monitors'[i] = 1 PROVE i = 1
          OBVIOUS
        <4>1. CASE i >= at /\ i <= monitors_top - 1
          <5>1. monitors[i + 1] = 1 /\ i + 1 \in 1 .. len
            BY <4>1, <2>4, <1>3
          <5>2. i + 1 = 1
            BY <5>1, <3>2
          <5>3. QED BY <5>2
        <4>2. CASE ~(i >= at /\ i <= monitors_top - 1)
          BY <4>2, <2>4, <3>2
        <4>3. QED BY <4>1, <4>2
      <3>4. ASSUME monitors'[1] = 1, glfw_monitor'[1] \notin unplugged'
            PROVE  monitors_top' > 0
        <4>1. glfw_monitor[1] # m
          BY <3>4, <1>1
        <4>2. CASE at = 1 /\ monitors_top >= 2
          <5>1. monitors[2] = 1 /\ 2 \in 1 .. len
            BY <4>2, <3>4, <2>4, <1>3
          <5>2. QED BY <5>1, <3>2
        <4>3. CASE at = 1 /\ monitors_top = 1
          <5>1. monitors[1] = 1
            BY <4>3, <3>4, <2>4, <1>3
          <5>2. QED BY <5>1, <4>1, <4>3, <2>3 DEF Shown
        <4>4. CASE at > 1
          BY <4>4, <2>1, <2>3, <1>3
        <4>5. QED BY <4>2, <4>3, <4>4, <2>3, <1>3
      <3>5. Len(monitors') = len
        BY <2>4
      <3>6. QED BY <3>1, <3>3, <3>4, <3>5 DEF FirstStruct
    <2>8. monitors_top' = Cardinality(plugged')
      <3>1. IsFiniteSet(plugged)
        BY <1>3, PluggedIsFinite
      <3>2. Cardinality(plugged') = Cardinality(plugged) - 1
        BY <3>1, <1>1, FS_RemoveElement
      <3>3. QED BY <3>2, <2>1, <1>2
    <2>9. EachOnce'
      <3> SUFFICES ASSUME ~replugged' PROVE ~aborted' /\ {Shown(i)' : i \in Listed'} = plugged'
                                            /\ \A i, j \in Listed' : Shown(i)' = Shown(j)' => i = j
        BY DEF EachOnce
      <3>1. /\ {Shown(i) : i \in 1 .. monitors_top} = plugged
            /\ \A i, j \in 1 .. monitors_top : Shown(i) = Shown(j) => i = j
        BY <1>1, <1>2 DEF EachOnce, Listed
      <3>2. Listed' = 1 .. monitors_top - 1
        BY <2>1 DEF Listed
      <3> DEFINE Now(i) == glfw_monitor'[monitors'[i]]
                 Old(i) == IF i >= at THEN i + 1 ELSE i
      <3>3. \A i \in 1 .. monitors_top - 1 : Now(i) = Shown(Old(i)) /\ Old(i) \in (1 .. monitors_top) \ {at}
        <4> SUFFICES ASSUME NEW i \in 1 .. monitors_top - 1
                     PROVE  Now(i) = Shown(Old(i)) /\ Old(i) \in (1 .. monitors_top) \ {at}
          OBVIOUS
        <4>1. i \in 1 .. len /\ i <= monitors_top - 1
          BY <1>3
        <4>2. monitors'[i] = monitors[Old(i)]
          BY <4>1, <2>4
        <4>3. Old(i) \in (1 .. monitors_top) \ {at}
          BY <4>1, <1>3, <2>3
        <4>4. QED BY <4>2, <4>3, <1>1 DEF Shown
      <3>4. \A j \in (1 .. monitors_top) \ {at} : \E i \in 1 .. monitors_top - 1 : Old(i) = j
        <4> SUFFICES ASSUME NEW j \in (1 .. monitors_top) \ {at} PROVE \E i \in 1 .. monitors_top - 1 : Old(i) = j
          OBVIOUS
        <4>1. CASE j < at
          <5>1. j \in 1 .. monitors_top - 1 /\ Old(j) = j
            BY <4>1, <1>3, <2>3
          <5>2. QED BY <5>1
        <4>2. CASE j > at
          <5>1. j - 1 \in 1 .. monitors_top - 1 /\ Old(j - 1) = j
            BY <4>2, <1>3, <2>3
          <5>2. QED BY <5>1
        <4>3. QED BY <4>1, <4>2, <2>3, <1>3
      <3>5. \A i, j \in Int : Old(i) = Old(j) => i = j
        <4>1. at \in Int
          BY <2>3, <1>3
        <4>2. QED BY <4>1
      <3>10. \A i \in Listed' : Shown(i)' = Now(i)
        BY DEF Shown
      <3> HIDE DEF Now, Old
      <3>6. {Now(i) : i \in 1 .. monitors_top - 1} = plugged'
        <4>1. ASSUME NEW x \in plugged'
              PROVE  \E i \in 1 .. monitors_top - 1 : Now(i) = x
          <5>1. x \in plugged /\ x # m
            BY <1>1
          <5>2. PICK j \in 1 .. monitors_top : Shown(j) = x
            BY <5>1, <3>1
          <5>3. j # at
            BY <5>1, <5>2, <2>3
          <5>4. QED BY <5>2, <5>3, <3>3, <3>4
        <4>2. ASSUME NEW i \in 1 .. monitors_top - 1
              PROVE  Now(i) \in plugged'
          <5>1. Now(i) = Shown(Old(i)) /\ Old(i) \in 1 .. monitors_top /\ Old(i) # at
            BY <3>3
          <5>2. Shown(Old(i)) \in plugged
            BY <5>1, <3>1
          <5>3. Shown(Old(i)) # m
            BY <5>1, <3>1, <2>3
          <5>4. QED BY <5>1, <5>2, <5>3, <1>1
        <4>3. QED BY <4>1, <4>2
      <3>7. \A i, j \in 1 .. monitors_top - 1 : Now(i) = Now(j) => i = j
        BY <3>1, <3>3, <3>5
      <3>8. ~aborted'
        BY <1>1, <2>1
      <3>9. QED BY <3>2, <3>6, <3>7, <3>8, <3>10
    <2>10. QED BY <2>6, <2>7, <2>8, <2>9 DEF ScreenInv
  <1>6. QED BY <1>4, <1>5

\* The input devices do not touch the monitors.
LEMMA ScreenNext ==
  ASSUME ScreenInv, [Next]_vars
  PROVE  ScreenInv' /\ (glfw_monitor[1] \notin unplugged' => glfw_monitor'[1] = glfw_monitor[1])
  <1>1. CASE UNCHANGED screens
    BY <1>1 DEF screens, ScreenInv, ScreenTypes, EachOnce, FirstStruct, Shown, Listed
  <1>2. CASE \E m \in Monitor : MonitorConnected(m)
    BY <1>2, ConnectKeepsScreens
  <1>3. CASE \E m \in Monitor : MonitorDisconnected(m)
    <2>1. glfw_monitor' = glfw_monitor
      BY <1>3 DEF MonitorDisconnected
    <2>2. QED BY <2>1, <1>3, DisconnectKeepsScreens
  <1>4. CASE pre_poll_events \/ poll_controllers \/ (\E m \in Modifier : ModifierChanges(m)) \/ LoseFocus
             \/ (\E k \in Key : KeyPress(k) \/ KeyRelease(k))
    BY <1>1, <1>4 DEF pre_poll_events, poll_controllers, ModifierChanges, LoseFocus, KeyPress, KeyRelease
  <1>5. CASE GamepadConnected \/ GamepadMoves \/ GamepadPulled \/ GamepadDisconnected
    BY <1>1, <1>5 DEF GamepadConnected, GamepadMoves, GamepadPulled, GamepadDisconnected
  <1>6. CASE UNCHANGED vars
    BY <1>1, <1>6 DEF vars
  <1>7. QED BY <1>2, <1>3, <1>4, <1>5, <1>6 DEF Next

\* The places of the array and the structs behind them stay in step, whatever
\* comes and goes.
THEOREM ScreensAreInvariant == Spec => []ScreenInv
  <1>1. QED BY ScreenInit, ScreenNext, PTL DEF Spec

\* The program finds every monitor once, and never fails to find one that goes, as
\* long as none is connected after another was disconnected.
THEOREM EveryMonitorIsListed == Spec => []MonitorsAreListed
  <1>1. ScreenInv => MonitorsAreListed
    BY DEF ScreenInv, EachOnce, Shown, Listed, MonitorsAreListed
  <1>2. QED BY <1>1, ScreensAreInvariant, PTL

\* The client's window keeps its monitor while it is plugged in.
THEOREM WindowStays == Spec => WindowKeepsItsMonitor
  <1>1. ScreenInv /\ [Next]_vars => [glfw_monitor[1] \notin unplugged' => glfw_monitor'[1] = glfw_monitor[1]]_vars
    BY ScreenNext
  <1>2. QED BY <1>1, ScreensAreInvariant, PTL DEF Spec, WindowKeepsItsMonitor

-----------------------------------------------------------------------------
(* The display state of a window *)

CONSTANTS UserArea, Maximal, Screen, MaxRequests, MaxUser, MaxPending
VARIABLES platform, poll, requested_display_state, content_area, window, requests, changes, place, hasty

View == INSTANCE Display WITH stage <- poll

\* A shown window that is not fullscreen and has its area, or keeps it for the way
\* back while it is maximized, among the areas S.
Placed(w, S) ==
  /\ w \in [monitor : BOOLEAN, iconified : BOOLEAN, maximized : BOOLEAN, hidden : {FALSE},
            area : UserArea \cup {Maximal, Screen}, normal : UserArea \cup {Maximal, Screen}, pending : {<<>>}]
  /\ ~w.monitor => IF w.maximized THEN w.normal \in S ELSE w.area \in S

\* Where calls take effect at once, the window stands, or stands under the state it
\* is in, where it is to be, and the area it was seen at last is kept.
AreaInv ==
  platform = "immediate" =>
    /\ place \in [seen : UserArea, at : UserArea]
    /\ content_area = place.seen
    /\ Placed(window, {place.at})

\* Each of GLFW's calls keeps the window placed: moved, it is at the area given, and
\* so is a window that leaves fullscreen.
LEMMA CallsKeepPlace ==
  ASSUME platform = "immediate", NEW S \in SUBSET UserArea, NEW w, Placed(w, S), NEW a \in UserArea
  PROVE  /\ Placed(View!Iconify(w), S) /\ Placed(View!Maximize(w), S) /\ Placed(View!Restore(w), S)
         /\ Placed(View!EnterFullscreen(w), S)
         /\ Placed(View!MoveTo(w, a), {a})
         /\ Placed(View!LeaveFullscreen(w, a), {a})
         /\ View!Restore(w).monitor = w.monitor /\ View!Iconify(w).monitor = w.monitor
         /\ View!Iconify(w).iconified
         /\ ~w.monitor => View!Maximize(w).maximized
         /\ View!EnterFullscreen(w).monitor
         /\ ~View!LeaveFullscreen(w, a).monitor
  <1>1. View!MapWindow(w) = [w EXCEPT !.iconified = FALSE, !.hidden = FALSE] /\ View!Visible(w)
    BY DEF View!MapWindow, View!Visible, Placed
  <1>2. /\ View!Iconify(w) = [w EXCEPT !.iconified = TRUE]
        /\ View!Maximize(w) = IF w.monitor \/ w.maximized THEN w
                              ELSE [w EXCEPT !.maximized = TRUE, !.normal = w.area, !.area = Maximal]
        /\ View!EnterFullscreen(w) = [w EXCEPT !.monitor = TRUE, !.area = Screen]
    BY <1>1 DEF View!Iconify, View!Maximize, View!EnterFullscreen, View!Issue, View!Handle
  <1>3. View!Restore(w) = IF w.iconified THEN [w EXCEPT !.iconified = FALSE, !.hidden = FALSE]
                          ELSE IF w.maximized THEN [w EXCEPT !.maximized = FALSE, !.area = w.normal] ELSE w
    BY <1>1 DEF View!Restore, View!Issue, View!Handle
  <1>4. /\ View!MoveTo(w, a) = IF w.monitor THEN w ELSE IF w.maximized THEN [w EXCEPT !.normal = a]
                               ELSE [w EXCEPT !.area = a]
        /\ View!LeaveFullscreen(w, a) = IF w.maximized THEN [w EXCEPT !.monitor = FALSE, !.normal = a]
                                        ELSE [w EXCEPT !.monitor = FALSE, !.area = a]
    <2>1. View!MoveTo(w, a) = IF w.monitor THEN w ELSE IF w.maximized THEN [w EXCEPT !.normal = a]
                              ELSE [w EXCEPT !.area = a]
      BY DEF View!MoveTo, View!Issue, View!Handle
    <2>2. [w EXCEPT !.monitor = FALSE].maximized = w.maximized
      BY DEF Placed
    <2>3. QED BY <2>1, <2>2 DEF View!LeaveFullscreen, View!Issue, View!Handle
  <1>5. Placed(View!Iconify(w), S) /\ Placed(View!Maximize(w), S) /\ Placed(View!EnterFullscreen(w), S)
    BY <1>2 DEF Placed
  <1>6. Placed(View!Restore(w), S) /\ View!Restore(w).monitor = w.monitor
    BY <1>3 DEF Placed
  <1>7. Placed(View!MoveTo(w, a), {a}) /\ Placed(View!LeaveFullscreen(w, a), {a})
    BY <1>4 DEF Placed
  <1>8. /\ View!Iconify(w).monitor = w.monitor /\ View!Iconify(w).iconified
        /\ ~w.monitor => View!Maximize(w).maximized
        /\ View!EnterFullscreen(w).monitor /\ ~View!LeaveFullscreen(w, a).monitor
    BY <1>2, <1>4 DEF Placed
  <1>9. QED BY <1>5, <1>6, <1>7, <1>8

\* Entering a state keeps the window placed; entering the windowed one moves it to
\* the content area.
LEMMA EnteringKeepsPlace ==
  ASSUME platform = "immediate", NEW S \in SUBSET UserArea, content_area \in UserArea,
         NEW w, Placed(w, S), NEW to \in View!DisplayState
  PROVE  Placed(View!Enter(w, to), IF to = "windowed" THEN {content_area} ELSE S)
  <1>1. /\ Placed(View!Iconify(w), S) /\ Placed(View!Maximize(w), S) /\ Placed(View!EnterFullscreen(w), S)
        /\ Placed(View!MoveTo(w, content_area), {content_area})
    BY CallsKeepPlace
  <1>2. Placed(View!Iconify(View!EnterFullscreen(w)), S)
    BY <1>1, CallsKeepPlace
  <1>3. QED BY <1>1, <1>2 DEF View!Enter, View!DisplayState

\* So does every transition, whatever states it leads from and to: one asked to
\* bring the window back, or one out of fullscreen, leaves it at the content area.
LEMMA TransitionKeepsPlace ==
  ASSUME platform = "immediate", NEW S \in SUBSET UserArea, content_area \in UserArea,
         NEW w, Placed(w, S), requested_display_state \in View!DisplayState
  PROVE  LET from == View!get_display_state(w)
             after == View!display_state_transition(w)
         IN IF \/ from # "windowed" /\ requested_display_state = "windowed"
               \/ w.monitor /\ ~after.monitor
            THEN Placed(after, {content_area}) ELSE Placed(after, S)
  <1> DEFINE from == View!get_display_state(w)
             to == requested_display_state
             after == View!Transition(w, from, to)
             Back(x) == IF \/ from # "windowed" /\ to = "windowed"
                           \/ w.monitor /\ ~x.monitor
                        THEN Placed(x, {content_area}) ELSE Placed(x, S)
  <1>1. from \in View!DisplayState /\ (w.monitor <=> from \in {"fullscreen", "minimized fullscreen"})
    BY DEF View!get_display_state, View!DisplayState, Placed
  <1>2. View!display_state_transition(w) = IF from = to THEN w ELSE after
    BY DEF View!display_state_transition, View!window__get_hidden, View!Visible, Placed
  <1>3. {content_area} \in SUBSET UserArea
    OBVIOUS
  <1>4. /\ Placed(View!Iconify(w), S) /\ View!Iconify(w).monitor = w.monitor
        /\ Placed(View!Restore(w), S) /\ View!Restore(w).monitor = w.monitor
        /\ Placed(View!LeaveFullscreen(w, content_area), {content_area})
    BY CallsKeepPlace
  <1>5. Placed(View!LeaveFullscreen(View!Restore(w), content_area), {content_area})
    BY <1>4, CallsKeepPlace
  <1> HIDE DEF from, to
  <1>6. to \in View!DisplayState /\ "maximized" \in View!DisplayState
    BY DEF to, View!DisplayState
  <1>7. ASSUME NEW x, Placed(x, {content_area}), NEW t \in View!DisplayState, w.monitor
        PROVE  Back(View!Enter(x, t))
    <2>1. Placed(View!Enter(x, t), {content_area})
      BY <1>3, <1>7, EnteringKeepsPlace
    <2>2. View!Enter(x, t).monitor => Placed(View!Enter(x, t), S)
      BY <2>1 DEF Placed
    <2>3. QED BY <2>1, <2>2, <1>7
  <1>8. ASSUME from # to
        PROVE  Back(after)
    <2>1. CASE from = "windowed"
      <3>1. Placed(View!Enter(w, to), S)
        BY <1>6, <1>8, <2>1, EnteringKeepsPlace
      <3>2. QED BY <2>1, <3>1, <1>1 DEF View!Transition
    <2>2. CASE from \in {"minimized", "maximized"}
      <3>1. Placed(View!Enter(View!Restore(w), to), IF to = "windowed" THEN {content_area} ELSE S)
        BY <1>4, <1>6, EnteringKeepsPlace
      <3>2. QED BY <2>2, <3>1, <1>1 DEF View!Transition
    <2>3. CASE from = "fullscreen"
      <3>1. w.monitor
        BY <1>1, <2>3
      <3>2. CASE to = "minimized fullscreen"
        BY <2>3, <3>1, <3>2, <1>4 DEF View!Transition
      <3>3. CASE to # "minimized fullscreen"
        <4> DEFINE t == IF to = "windowed" THEN "maximized" ELSE to
        <4>1. t \in View!DisplayState
          BY <1>6
        <4>2. after = View!Enter(View!LeaveFullscreen(w, content_area), t)
          BY <2>3, <3>3 DEF View!Transition
        <4> HIDE DEF t, after, Back
        <4>3. QED BY <4>1, <4>2, <3>1, <1>4, <1>7
      <3>4. QED BY <3>2, <3>3
    <2>4. CASE from = "minimized fullscreen"
      <3>1. w.monitor
        BY <1>1, <2>4
      <3>2. CASE to = "fullscreen"
        BY <2>4, <3>1, <3>2, <1>4 DEF View!Transition
      <3>3. CASE to # "fullscreen"
        <4>1. after = View!Enter(View!LeaveFullscreen(View!Restore(w), content_area), to)
          BY <2>4, <3>3 DEF View!Transition
        <4> HIDE DEF after, Back
        <4>2. QED BY <4>1, <3>1, <1>5, <1>6, <1>7
      <3>4. QED BY <3>2, <3>3
    <2>5. QED BY <2>1, <2>2, <2>3, <2>4, <1>1 DEF View!DisplayState
  <1>9. CASE from = to
    <2>1. Back(w)
      BY <1>9
    <2>2. QED BY <1>2, <1>9, <2>1 DEF from, to
  <1>10. CASE from # to
    BY <1>2, <1>8, <1>10 DEF from, to
  <1>11. QED BY <1>9, <1>10

\* The window begins windowed where it was created.
LEMMA AreaInit == View!Init => AreaInv /\ requested_display_state \in View!DisplayState
  BY DEF View!Init, AreaInv, Placed, View!DisplayState

\* The user moves a windowed window only, and restores one to the area kept.
LEMMA UserKeepsPlace ==
  ASSUME platform = "immediate", AreaInv, View!UserChange
  PROVE  AreaInv'
  <1>1. /\ place \in [seen : UserArea, at : UserArea] /\ content_area = place.seen
        /\ Placed(window, {place.at})
        /\ UNCHANGED <<platform, content_area>>
    BY DEF AreaInv, View!UserChange
  <1>2. SUFFICES place' \in [seen : UserArea, at : UserArea] /\ place'.seen = place.seen /\ Placed(window', {place'.at})
    BY <1>1 DEF AreaInv, Placed
  <1>3. CASE ~window.iconified /\ window' = View!Handle(window, [type |-> "iconify"]) /\ UNCHANGED place
    BY <1>1, <1>3 DEF Placed, View!Handle
  <1>4. CASE window.iconified /\ window' = [window EXCEPT !.iconified = FALSE] /\ UNCHANGED place
    BY <1>1, <1>4 DEF Placed
  <1>5. CASE /\ ~window.monitor /\ ~window.maximized
             /\ window' = View!Handle(window, [type |-> "maximize"]) /\ UNCHANGED place
    BY <1>1, <1>5 DEF Placed, View!Handle
  <1>6. CASE /\ ~window.monitor /\ ~window.maximized
             /\ \E a \in UserArea \ {window.area} :
                  /\ window' = View!Handle(window, [type |-> "move", to |-> a])
                  /\ place' = [place EXCEPT !.at = a]
    <2>1. PICK a \in UserArea : /\ window' = View!Handle(window, [type |-> "move", to |-> a])
                                /\ place' = [place EXCEPT !.at = a]
      BY <1>6
    <2>2. window' = [window EXCEPT !.area = a]
      BY <1>6, <2>1 DEF View!Handle
    <2>3. place' \in [seen : UserArea, at : UserArea] /\ place'.seen = place.seen /\ place'.at = a
      BY <1>1, <2>1
    <2>4. Placed(window', {a})
      BY <1>1, <1>6, <2>2 DEF Placed
    <2>5. QED BY <2>3, <2>4
  <1>7. CASE /\ window.maximized /\ ~window.monitor
             /\ window' = View!Handle(window, [type |-> "unmaximize"]) /\ UNCHANGED place
    BY <1>1, <1>7 DEF Placed, View!Handle
  <1>8. QED BY <1>3, <1>4, <1>5, <1>6, <1>7 DEF View!UserChange

\* The program moves a windowed window at once, and any other once a poll brings it
\* back.
LEMMA ProgramKeepsPlace ==
  ASSUME platform = "immediate", AreaInv, NEW a \in UserArea, View!set_windowed_state_content_area(a)
  PROVE  AreaInv'
  <1>1. /\ place \in [seen : UserArea, at : UserArea] /\ content_area = place.seen
        /\ Placed(window, {place.at}) /\ UNCHANGED platform
    BY DEF AreaInv, View!set_windowed_state_content_area
  <1>2. CASE View!get_display_state(window) = "windowed"
    <2>1. View!window__get_hidden(window)
      BY <1>1 DEF View!window__get_hidden, View!Visible, Placed
    <2>2. /\ window' = View!MoveTo(window, a) /\ content_area' = View!MoveTo(window, a).area
          /\ place' = [seen |-> a, at |-> a]
      BY <1>2, <2>1 DEF View!set_windowed_state_content_area
    <2>3. View!MoveTo(window, a) = [window EXCEPT !.area = a]
      BY <1>1, <1>2 DEF View!MoveTo, View!Issue, View!Handle, View!get_display_state, Placed
    <2>4. Placed(window', {a}) /\ content_area' = a
      BY <1>1, <1>2, <2>2, <2>3 DEF Placed, View!get_display_state
    <2>5. place' \in [seen : UserArea, at : UserArea] /\ place'.seen = a /\ place'.at = a
      BY <2>2
    <2>6. QED BY <2>4, <2>5 DEF AreaInv
  <1>3. CASE View!get_display_state(window) # "windowed"
    BY <1>1, <1>3 DEF View!set_windowed_state_content_area, AreaInv, Placed
  <1>4. QED BY <1>2, <1>3

\* A poll sees the window where it is if it is windowed, and brings it back to where
\* it was seen.
LEMMA PollKeepsPlace ==
  ASSUME platform = "immediate", AreaInv, requested_display_state \in View!DisplayState,
         View!PrePoll \/ View!PostPoll
  PROVE  AreaInv'
  <1>1. /\ place \in [seen : UserArea, at : UserArea] /\ content_area = place.seen
        /\ Placed(window, {place.at}) /\ {place.at} \in SUBSET UserArea
        /\ UNCHANGED platform
    BY DEF AreaInv, View!PrePoll, View!PostPoll
  <1>2. CASE View!PrePoll
    <2>1. View!get_display_state(window) = "windowed" => window.area = place.at
      BY <1>1 DEF View!get_display_state, Placed
    <2>2. CASE View!get_display_state(window) = "windowed"
      <3>1. /\ content_area' = place.at /\ place' = [seen |-> place.at, at |-> place.at]
            /\ window' = window
        BY <1>2, <2>1, <2>2 DEF View!PrePoll
      <3>2. place' \in [seen : UserArea, at : UserArea] /\ place'.seen = place.at /\ place'.at = place.at
        BY <1>1, <3>1
      <3>3. QED BY <1>1, <3>1, <3>2 DEF AreaInv
    <2>3. CASE View!get_display_state(window) # "windowed"
      BY <1>1, <1>2, <2>3 DEF View!PrePoll, AreaInv, Placed
    <2>4. QED BY <2>2, <2>3
  <1>3. CASE View!PostPoll
    <2> DEFINE back == \/ View!get_display_state(window) # "windowed" /\ requested_display_state = "windowed"
                       \/ window.monitor /\ ~window'.monitor
    <2>1. /\ window' = View!display_state_transition(window) /\ content_area' = content_area
          /\ place' = IF back THEN [place EXCEPT !.at = place.seen] ELSE place
      BY <1>3 DEF View!PostPoll, View!BroughtBack
    <2>2. content_area \in UserArea
      BY <1>1
    <2>3. IF back THEN Placed(window', {content_area}) ELSE Placed(window', {place.at})
      BY <1>1, <2>1, <2>2, TransitionKeepsPlace
    <2> HIDE DEF back
    <2>4. CASE back
      BY <1>1, <2>1, <2>3, <2>4 DEF AreaInv, Placed
    <2>5. CASE ~back
      BY <1>1, <2>1, <2>3, <2>5 DEF AreaInv, Placed
    <2>6. QED BY <2>4, <2>5
  <1>4. QED BY <1>2, <1>3

LEMMA AreaNext ==
  ASSUME AreaInv, requested_display_state \in View!DisplayState, [View!Next]_(View!vars)
  PROVE  AreaInv' /\ requested_display_state' \in View!DisplayState
  <1>1. platform' = platform /\ requested_display_state' \in View!DisplayState
    BY DEF View!Next, View!vars, View!set_display_state, View!set_windowed_state_content_area, View!PrePoll,
           View!PostPoll, View!WindowManager, View!UserChange
  <1>2. SUFFICES ASSUME platform = "immediate" PROVE AreaInv'
    BY <1>1 DEF AreaInv
  <1>3. ASSUME NEW s \in View!DisplayState, View!set_display_state(s)
        PROVE  AreaInv'
    BY <1>3 DEF View!set_display_state, AreaInv, Placed
  <1>4. ASSUME NEW a \in UserArea, View!set_windowed_state_content_area(a)
        PROVE  AreaInv'
    BY <1>2, <1>4, ProgramKeepsPlace
  <1>5. CASE View!PrePoll \/ View!PostPoll
    BY <1>2, <1>5, PollKeepsPlace
  <1>6. CASE View!WindowManager
    BY <1>2, <1>6 DEF View!WindowManager, AreaInv, Placed
  <1>7. CASE View!UserChange
    BY <1>2, <1>7, UserKeepsPlace
  <1>8. CASE UNCHANGED View!vars
    BY <1>8 DEF View!vars, AreaInv, Placed
  <1>9. QED BY <1>3, <1>4, <1>5, <1>6, <1>7, <1>8 DEF View!Next

\* The inductive invariant: where the window stands, and what is kept of it.
THEOREM AreaIsInvariant == View!Spec => [](AreaInv /\ requested_display_state \in View!DisplayState)
  <1> DEFINE Inv == AreaInv /\ requested_display_state \in View!DisplayState
  <1>1. View!Init => Inv
    BY AreaInit
  <1>2. Inv /\ [View!Next]_(View!vars) => Inv'
    BY AreaNext DEF View!DisplayState
  <1> HIDE DEF Inv
  <1>3. View!Spec => []Inv
    BY <1>1, <1>2, PTL DEF View!Spec
  <1>4. QED BY <1>3 DEF Inv

\* Where GLFW's calls take effect at once, the area kept for the way back is one the
\* user or the program chose (gfx__pre_poll_events, window__set_windowed_state_content_area).
THEOREM KeptAreaIsChosen == View!Spec => [](platform = "immediate" => View!SavedAreaIsChosen)
  <1>1. AreaInv => (platform = "immediate" => View!SavedAreaIsChosen)
    BY DEF AreaInv, View!SavedAreaIsChosen
  <1>2. QED BY <1>1, AreaIsInvariant, PTL

\* and a windowed window is where the user or the program put it last, whatever
\* states it went through (window__display_state_transition).
THEOREM WindowKeepsPlace == View!Spec => []View!PlaceIsKept
  <1>1. AreaInv => View!PlaceIsKept
    BY DEF AreaInv, Placed, View!PlaceIsKept, View!get_display_state
  <1>2. QED BY <1>1, AreaIsInvariant, PTL
=============================================================================
