------------------------------ MODULE Display ------------------------------
(***************************************************************************)
(* The display state of a window, src/gfx.  The program asks for a state;  *)
(* the next poll compares it with the state the window is in and calls     *)
(* GLFW to get there.  The user changes the window too, through the window *)
(* manager.  On some platforms a call of GLFW has happened when it         *)
(* returns, on others (X11) it only sends a message to the window manager, *)
(* which unmaps a window it iconifies.                                     *)
(***************************************************************************)
EXTENDS Integers, Sequences, SequencesExt

CONSTANTS UserArea,       \* content areas the user and the program choose
          Maximal, Screen, \* the areas of a maximized and of a fullscreen window
          MaxRequests,    \* bound: changes the program asks for
          MaxUser,        \* bound: changes the user makes
          MaxPending      \* bound: messages to the window manager under way

ASSUME DisplayAssumption ==
  /\ Maximal \notin UserArea /\ Screen \notin UserArea /\ Maximal # Screen
  /\ MaxRequests \in Nat /\ MaxUser \in Nat /\ MaxPending \in Nat

DisplayState == {"windowed", "minimized", "maximized", "fullscreen", "minimized fullscreen"}

VARIABLES platform,       \* "immediate" or "messages"
          stage,          \* of the poll
          requested_display_state,
          content_area,   \* saved for the way back to windowed
          window,         \* what GLFW and the window manager hold
          requests, changes,
          place,          \* history: where the window is to be, and was seen last
          hasty           \* history: the area was saved with messages under way

vars == <<platform, stage, requested_display_state, content_area, window, requests, changes, place, hasty>>

get_display_state(w) ==
  IF w.monitor THEN IF w.iconified THEN "minimized fullscreen" ELSE "fullscreen"
  ELSE IF w.iconified THEN "minimized"
  ELSE IF w.maximized THEN "maximized" ELSE "windowed"

-----------------------------------------------------------------------------
(* GLFW and the window manager *)

\* A maximized window keeps its size and moves to the place once it is restored.
Handle(w, m) ==
  CASE m.type = "iconify" -> [w EXCEPT !.iconified = TRUE]
    [] m.type = "maximize" ->
         IF w.maximized THEN w ELSE [w EXCEPT !.maximized = TRUE, !.normal = w.area, !.area = Maximal]
    [] m.type = "unmaximize" ->
         IF w.maximized THEN [w EXCEPT !.maximized = FALSE, !.area = w.normal] ELSE w
    [] m.type = "fullscreen" -> [w EXCEPT !.area = Screen]
    [] m.type = "activate" -> [w EXCEPT !.iconified = FALSE]
    [] m.type = "move" -> IF w.maximized THEN [w EXCEPT !.normal = m.to] ELSE [w EXCEPT !.area = m.to]

Issue(w, m) ==
  IF platform = "immediate" THEN Handle(w, m) ELSE [w EXCEPT !.pending = Append(@, m)]

Iconify(w) == Issue(w, [type |-> "iconify"])
Maximize(w) == IF w.monitor THEN w ELSE Issue(w, [type |-> "maximize"])

\* GLFW_VISIBLE: on X11 an iconified window is not viewable.
Visible(w) == ~w.hidden /\ ~(platform = "messages" /\ w.iconified)

\* GLFW waits until the window is mapped; the messages before are handled by then.
MapWindow(w) ==
  [IF platform = "messages" THEN [FoldLeft(Handle, w, w.pending) EXCEPT !.pending = <<>>] ELSE w
     EXCEPT !.iconified = FALSE, !.hidden = FALSE]

Restore(w) == IF w.iconified THEN MapWindow(w) ELSE Issue(w, [type |-> "unmaximize"])
MoveTo(w, a) == IF w.monitor THEN w ELSE Issue(w, [type |-> "move", to |-> a])
EnterFullscreen(w) ==
  Issue([IF Visible(w) THEN w ELSE MapWindow(w) EXCEPT !.monitor = TRUE], [type |-> "fullscreen"])

\* Keeps the place and size of the fullscreen window.
LeaveFullscreenInPlace(w, a) == Issue([w EXCEPT !.monitor = FALSE], [type |-> "move", to |-> w.area])

LeaveFullscreen(w, a) == Issue([w EXCEPT !.monitor = FALSE], [type |-> "move", to |-> a])

\* Neither touches a fullscreen window, and a window already unmapped stays as it
\* is.  Showing a window asks for the focus too, which on X11 restores it.
HideWindow(w) == IF w.monitor \/ ~Visible(w) THEN w ELSE [w EXCEPT !.hidden = TRUE]
ShowWindow(w) ==
  LET shown == IF Visible(w) THEN w ELSE MapWindow(w)
  IN IF w.monitor THEN w
     ELSE IF platform = "messages" THEN Issue(shown, [type |-> "activate"]) ELSE shown

\* What its name says.
HiddenAsNamed(w) == ~Visible(w)

\* Answers GLFW_VISIBLE, whatever its name says.
window__get_hidden(w) == Visible(w)

-----------------------------------------------------------------------------
(* The transitions of window__display_state_transition *)

\* From the windowed state, or one restored to it, to another.
Enter(w, to) ==
  CASE to = "windowed" -> MoveTo(w, content_area)
    [] to = "minimized" -> Iconify(w)
    [] to = "maximized" -> Maximize(w)
    [] to = "fullscreen" -> EnterFullscreen(w)
    [] to = "minimized fullscreen" -> Iconify(EnterFullscreen(w))

\* A window that leaves fullscreen for windowed is maximized first; the request
\* stays, so that the next poll restores it.
Transition(w, from, to) ==
  CASE from = "windowed" -> Enter(w, to)
    [] from \in {"minimized", "maximized"} -> Enter(Restore(w), to)
    [] from = "fullscreen" ->
         IF to = "minimized fullscreen" THEN Iconify(w)
         ELSE Enter(LeaveFullscreen(w, content_area), IF to = "windowed" THEN "maximized" ELSE to)
    [] from = "minimized fullscreen" ->
         IF to = "fullscreen" THEN Restore(w) ELSE Enter(LeaveFullscreen(Restore(w), content_area), to)

\* The return between the two calls leaves a window as it was hidden.
display_state_transition(w) ==
  LET from == get_display_state(w)
      was_hidden == window__get_hidden(w)
      before == IF was_hidden THEN w ELSE HideWindow(w)
      after == Transition(before, from, requested_display_state)
  IN IF from = requested_display_state THEN before
     ELSE IF was_hidden THEN after ELSE ShowWindow(after)

-----------------------------------------------------------------------------
Init ==
  /\ platform \in {"immediate", "messages"}
  /\ stage = "program"
  /\ requested_display_state = "windowed"
  /\ content_area \in UserArea
  /\ window = [monitor |-> FALSE, iconified |-> FALSE, maximized |-> FALSE, hidden |-> FALSE,
               area |-> content_area, normal |-> content_area, pending |-> <<>>]
  /\ requests = 0 /\ changes = 0
  /\ place = [seen |-> content_area, at |-> content_area]
  /\ hasty = FALSE

\* The program or a key action asks for a display state.
set_display_state(s) ==
  /\ requests < MaxRequests /\ requests' = requests + 1
  /\ requested_display_state' = s
  /\ UNCHANGED <<platform, stage, content_area, window, changes, place, hasty>>

SavesTooEarly == get_display_state(window) = "windowed" /\ window.pending # <<>>

\* The program chooses a content area: at once if the window is windowed, else
\* for the way back.
set_windowed_state_content_area(a) ==
  /\ stage = "program"
  /\ requests < MaxRequests /\ requests' = requests + 1
  /\ IF get_display_state(window) = "windowed"
     THEN LET was_hidden == window__get_hidden(window)
              moved == MoveTo(IF was_hidden THEN window ELSE HideWindow(window), a)
          IN /\ window' = IF was_hidden THEN moved ELSE ShowWindow(moved)
             /\ content_area' = moved.area
             /\ place' = [seen |-> a, at |-> a]
     ELSE content_area' = a /\ place' = [place EXCEPT !.seen = a] /\ UNCHANGED window
  /\ hasty' = (hasty \/ SavesTooEarly)
  /\ UNCHANGED <<platform, stage, requested_display_state, changes>>

\* Saves the area whatever state the window is in.
PrePollAlways ==
  /\ stage = "program" /\ stage' = "events"
  /\ content_area' = window.area
  /\ hasty' = (hasty \/ SavesTooEarly)
  /\ UNCHANGED <<platform, requested_display_state, window, requests, changes, place>>

PrePoll ==
  /\ stage = "program" /\ stage' = "events"
  /\ IF get_display_state(window) = "windowed"
     THEN content_area' = window.area /\ place' = [seen |-> window.area, at |-> window.area]
     ELSE UNCHANGED <<content_area, place>>
  /\ hasty' = (hasty \/ SavesTooEarly)
  /\ UNCHANGED <<platform, requested_display_state, window, requests, changes>>

\* A poll asked to bring the window back, or one that takes it out of fullscreen,
\* puts it where it was seen last.
BroughtBack ==
  IF \/ get_display_state(window) # "windowed" /\ requested_display_state = "windowed"
     \/ window.monitor /\ ~window'.monitor
  THEN [place EXCEPT !.at = place.seen] ELSE place

\* Takes the request as done with the first step.
PostPollOnce ==
  /\ stage = "events" /\ stage' = "program"
  /\ Len(window.pending) < MaxPending
  /\ window' = display_state_transition(window)
  /\ requested_display_state' = get_display_state(window')
  /\ place' = BroughtBack
  /\ UNCHANGED <<platform, content_area, requests, changes, hasty>>

PostPoll ==
  /\ stage = "events" /\ stage' = "program"
  /\ Len(window.pending) < MaxPending
  /\ window' = display_state_transition(window)
  /\ place' = BroughtBack
  /\ UNCHANGED <<platform, requested_display_state, content_area, requests, changes, hasty>>

\* The window manager comes to the next message of the program.
WindowManager ==
  /\ window.pending # <<>>
  /\ window' = Handle([window EXCEPT !.pending = Tail(@)], Head(window.pending))
  /\ UNCHANGED <<platform, stage, requested_display_state, content_area, requests, changes, place, hasty>>

\* The user minimizes, maximizes, restores or moves the window.
UserChange ==
  /\ changes < MaxUser /\ changes' = changes + 1
  /\ \/ ~window.iconified /\ window' = Handle(window, [type |-> "iconify"]) /\ UNCHANGED place
     \/ window.iconified /\ window' = [window EXCEPT !.iconified = FALSE] /\ UNCHANGED place
     \/ /\ ~window.iconified /\ ~window.monitor /\ ~window.maximized /\ window.area \in UserArea
        /\ \/ window' = Handle(window, [type |-> "maximize"]) /\ UNCHANGED place
           \/ \E a \in UserArea \ {window.area} :
                /\ window' = Handle(window, [type |-> "move", to |-> a])
                /\ place' = [place EXCEPT !.at = a]
     \/ window.maximized /\ ~window.iconified /\ ~window.monitor
        /\ window' = Handle(window, [type |-> "unmaximize"]) /\ UNCHANGED place
  /\ UNCHANGED <<platform, stage, requested_display_state, content_area, requests, hasty>>

Next ==
  \/ \E s \in DisplayState : set_display_state(s)
  \/ \E a \in UserArea : set_windowed_state_content_area(a)
  \/ PrePoll \/ PostPoll \/ WindowManager \/ UserChange

\* The program polls in every frame and the window manager handles its messages.
Spec == Init /\ [][Next]_vars /\ WF_vars(PrePoll) /\ WF_vars(PostPoll) /\ WF_vars(WindowManager)

-----------------------------------------------------------------------------
\* The area kept for the way back is one the user or the program chose, never the
\* size of a maximized or fullscreen window, as long as the window manager has
\* handled all messages whenever a poll, or the program's choice of an area, saves it
\* (always, where GLFW's calls take effect at once).  Otherwise it may be the area
\* of the screen, which a window leaving fullscreen still has while GLFW already says
\* that it is windowed (gfx_impl.c:139, gfx.c:318).
SavedAreaIsChosen == ~hasty => content_area \in UserArea

\* A windowed window is where the user or the program put it last, through all the
\* states it was in meanwhile, whoever restored it.  A poll that brings it back or
\* takes it out of fullscreen puts it where the program chose or last saw it: a move
\* the program has not seen, as it is seen in windowed state only, is lost
\* (window__display_state_transition, window__restore_content_area).
PlaceIsKept ==
  platform = "immediate" /\ get_display_state(window) = "windowed" => window.area = place.at

\* No poll leaves a window unmapped that is not iconified, although the first call
\* of a transition hides it and the return that follows does not show it again
\* (gfx_impl.c:204-211).
WindowStaysShown == stage = "program" /\ ~window.iconified => Visible(window)

\* Whatever was asked for last, after whatever the user did, is reached in the
\* end: the two polls a window needs to leave fullscreen, the messages still under
\* way and the polls repeated meanwhile settle.
RequestIsReached == <>[](get_display_state(window) = requested_display_state)
=============================================================================
