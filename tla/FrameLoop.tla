----------------------------- MODULE FrameLoop -----------------------------
(* The loop of the game client: five stages run in turn, an accumulator that *)
(* turns the time frames take into updates of a fixed length, a sleep to the *)
(* end of the frame, and a ring of the latest frames.  The server runs the   *)
(* same stages without the rendering.  Times are whole ticks of the clock:   *)
(* the rounding of the program's doubles is not modelled.                    *)
EXTENDS Integers

CONSTANTS Fixed,       \* time_game_update_fixed
          Frame,       \* time_frame_expected
          Overhead,    \* g_get_time_epsilon_overhead
          Granularity, \* ms_granularity, the end of a sleep that is waited for busily
          Samples,     \* frame_info_sample_size, 128 in the program
          UpdatesMod,  \* number of values of number_of_updates, 2^32 in the program
          StageCost,   \* the time a stage takes, not counting updates and sleep
          UpdateCost,  \* the time game__update takes
          FrameBound,  \* how long a frame may last, see FrameBoundAssumption
          MaxFrames    \* bound: frames the loop makes

ASSUME LoopAssumption ==
    /\ Fixed \in Nat \ {0} /\ Frame \in Nat /\ Overhead \in Nat /\ Samples \in Nat
    /\ Granularity \in Nat
    /\ Fixed < Frame /\ Samples >= 2
    /\ StageCost \in Nat /\ UpdateCost \in Nat /\ MaxFrames \in Nat

\* The updates a frame of this length calls for, and the other stages, take no
\* longer than such a frame; nor do the sleep and what goes before it.
ASSUME FrameBoundAssumption ==
    /\ FrameBound \in Nat
    /\ ((FrameBound + Fixed - 1) \div Fixed) * UpdateCost + 4 * StageCost <= FrameBound
    /\ Frame + 3 * StageCost <= FrameBound
    /\ UpdatesMod \in Nat /\ FrameBound + Fixed < UpdatesMod

VARIABLES clock,                   \* system__get_time()
          stage,                   \* the stage the loop executes next
          time_end,                \* previous_frame_info.time_end, the start of this frame
          time_update_to_process,  \* time not yet simulated
          sleep_end,               \* time_end of the system__usleep under way
          current_frame,
          frame_info_sample,       \* the ring of samples: which frame each describes
          head, tail,              \* frame_info_sample_index_head and _tail
          updates                  \* history: number of updates of all frames

ring == <<frame_info_sample, head, tail>>
vars == <<clock, stage, time_end, time_update_to_process, sleep_end, current_frame,
          frame_info_sample, head, tail, updates>>

SampleIndex == 0 .. Samples - 1
Stage == {"collect", "poll", "update", "render", "sleep", "wait", "stopped", "aborted"}
NoFrame == -1

\* The clock moves on by what the stage, or a part of it, took.
Lasts(most) == clock' \in clock .. clock + most

\* game_client__run: the clock starts at 0 in system__init.
Init ==
    /\ clock \in 0 .. StageCost
    /\ stage = "collect"
    /\ time_end = 0
    /\ time_update_to_process = 0
    /\ sleep_end = 0
    /\ current_frame = 0
    /\ frame_info_sample = [i \in SampleIndex |-> NoFrame]
    /\ head = 0 /\ tail = 0
    /\ updates = 0
----------------------------------------------------------------------------
\* The oldest sample is not given up when the ring is full.
SampleKeepingTail ==
    /\ frame_info_sample' = [frame_info_sample EXCEPT ![head] = current_frame]
    /\ head' = (head + 1) % Samples
    /\ tail' = tail

\* game_client__sample_prev_frame
Sample ==
    LET next == (head + 1) % Samples
    IN  /\ frame_info_sample' = [frame_info_sample EXCEPT ![head] = current_frame]
        /\ head' = next
        /\ tail' = IF next = tail THEN (tail + 1) % Samples ELSE tail

\* loop_stage__collect_previous_frame_info
CollectPreviousFrameInfo ==
    /\ stage = "collect"
    /\ stage' = "poll"
    /\ time_end' = clock
    /\ time_update_to_process' = time_update_to_process + clock - time_end
    /\ Sample
    /\ Lasts(StageCost)
    /\ UNCHANGED <<sleep_end, current_frame, updates>>

\* loop_stage__poll_inputs; closing the window ends the loop.
PollInputs ==
    /\ stage = "poll"
    /\ stage' \in {"update", "stopped"}
    /\ Lasts(StageCost)
    /\ UNCHANGED <<time_end, time_update_to_process, sleep_end, current_frame, ring, updates>>

\* The quotient of two doubles stored in a uint32_t.  What becomes of a
\* negative one depends on the build: it wraps or saturates.
NumberOfUpdates(time) ==
    IF time >= 0 THEN {time \div Fixed}
    ELSE LET n == (-time) \div Fixed IN IF n = 0 THEN {0} ELSE {0, UpdatesMod - n}

\* Leaves the rest of a frame's time out.
UpdateDroppingRest ==
    /\ stage = "update"
    /\ stage' = "render"
    /\ \E n \in NumberOfUpdates(time_update_to_process) :
          /\ time_update_to_process' = 0
          /\ updates' = updates + n
          /\ Lasts(n * UpdateCost)
    /\ UNCHANGED <<time_end, sleep_end, current_frame, ring>>

\* Makes one update at most in a frame.
UpdateOnce ==
    /\ stage = "update"
    /\ stage' = "render"
    /\ LET n == IF time_update_to_process < Fixed THEN 0 ELSE 1
       IN  /\ time_update_to_process' = time_update_to_process - n * Fixed
           /\ updates' = updates + n
           /\ Lasts(n * UpdateCost)
    /\ UNCHANGED <<time_end, sleep_end, current_frame, ring>>

\* loop_stage__update_loop
UpdateLoop ==
    /\ stage = "update"
    /\ stage' = "render"
    /\ \E n \in NumberOfUpdates(time_update_to_process) :
          /\ time_update_to_process' = time_update_to_process - n * Fixed
          /\ updates' = updates + n
          /\ Lasts(n * UpdateCost)
    /\ UNCHANGED <<time_end, sleep_end, current_frame, ring>>

\* The two assertions of loop_stage__render; the interpolation factor is
\* 1 - time_update_to_process / time_frame_expected.
RenderAssertion == time_update_to_process \in 0 .. Frame - 1

\* loop_stage__render
Render ==
    /\ stage = "render"
    /\ stage' = IF RenderAssertion THEN "sleep" ELSE "aborted"
    /\ Lasts(StageCost)
    /\ UNCHANGED <<time_end, time_update_to_process, sleep_end, current_frame, ring, updates>>

\* What system__usleep leaves to the operating system, which may end it early
\* on a signal and a little late otherwise.
Coarse(us) == IF us > Granularity THEN us - Granularity ELSE 0

\* Allows for the overhead of the clock here and again in the busy wait.
UsleepAllowingTwice(us) ==
    \E now \in clock .. clock + StageCost :
        /\ sleep_end' = now + us - Overhead
        /\ clock' \in now .. now + Coarse(us) + StageCost

\* system__usleep up to its busy wait: it reads the clock again, some time
\* after the one who called it did.
usleep(us) ==
    \E now \in clock .. clock + StageCost :
        /\ sleep_end' = now + us
        /\ clock' \in now .. now + Coarse(us) + StageCost

\* Sleeps for a whole frame whatever the stages took.
SleepWholeFrame ==
    /\ stage = "sleep"
    /\ stage' = "wait"
    /\ current_frame < MaxFrames
    /\ current_frame' = current_frame
    /\ usleep(Frame)
    /\ UNCHANGED <<time_end, time_update_to_process, ring, updates>>

\* loop_stage__sleep_till_end_of_frame: what is left of the frame is computed
\* from the reading of the clock the stage began with; the rest of the stage,
\* if there is anything to wait for, is BusyWait and WakeUp.
SleepTillEndOfFrame ==
    /\ stage = "sleep"
    /\ current_frame < MaxFrames
    /\ LET till == time_end + Frame - clock
       IN  \/ /\ till > 0
              /\ usleep(till)
              /\ stage' = "wait"
              /\ current_frame' = current_frame
           \/ /\ till <= 0
              /\ Lasts(StageCost)
              /\ stage' = "collect"
              /\ current_frame' = current_frame + 1
              /\ sleep_end' = sleep_end
    /\ UNCHANGED <<time_end, time_update_to_process, ring, updates>>

\* The busy wait of system__usleep reads the clock once more.
BusyWait ==
    /\ stage = "wait"
    /\ clock + Overhead < sleep_end
    /\ Lasts(StageCost)
    /\ UNCHANGED <<stage, time_end, time_update_to_process, sleep_end, current_frame,
                   ring, updates>>

\* It finds less than the overhead of the clock left.
WakeUp ==
    /\ stage = "wait"
    /\ clock + Overhead >= sleep_end
    /\ stage' = "collect"
    /\ current_frame' = current_frame + 1
    /\ Lasts(StageCost)
    /\ UNCHANGED <<time_end, time_update_to_process, sleep_end, ring, updates>>

Next ==
    \/ CollectPreviousFrameInfo
    \/ PollInputs
    \/ UpdateLoop
    \/ Render
    \/ SleepTillEndOfFrame
    \/ BusyWait
    \/ WakeUp

Spec == Init /\ [][Next]_vars

\* system__platform_get_tick reads CLOCK_REALTIME, which the system may set.
ClockSetBack ==
    /\ clock' \in 0 .. clock - 1
    /\ UNCHANGED <<stage, time_end, time_update_to_process, sleep_end, current_frame,
                   ring, updates>>

\* The loop under a clock that is set back now and then.
SteppingSpec == Init /\ [][Next \/ ClockSetBack]_vars
----------------------------------------------------------------------------
\* No time is lost or simulated twice: the updates made and the time left to
\* process are all the time up to the start of this frame.
TimeIsConserved == updates * Fixed + time_update_to_process = time_end

\* Less than one update is left over after the update stage, so the assertions
\* of the render stage hold however long the frame before took.
RestIsLessThanUpdate ==
    /\ stage \in {"render", "sleep", "wait", "collect"} => time_update_to_process \in 0 .. Fixed - 1
    /\ stage # "aborted"

\* A frame is not shorter than expected, but for the overhead of the clock: the
\* end of the frame is what the reading at the start of the stage, the one in
\* system__usleep and the last one of the busy wait add up to.
FrameIsPaced ==
    stage = "collect" /\ current_frame > 0 => clock - time_end + Overhead >= Frame

\* While game__update keeps to its bound, the updates a long frame leaves to
\* the next one never make that one longer still: frames stay below FrameBound.
FrameIsBounded == clock - time_end <= FrameBound

\* Between tail and head the ring holds the latest frames in order, all of
\* them or as many as it can, and it is never empty once a frame was sampled.
SamplesAreLatest ==
    LET sampled == IF stage = "collect" THEN current_frame ELSE current_frame + 1
        held == IF sampled < Samples THEN sampled ELSE Samples - 1
    IN  /\ (head + Samples - tail) % Samples = held
        /\ \A d \in 1 .. held : frame_info_sample[(head + Samples - d) % Samples] = sampled - d

\* ASSERT(render_interpolation_factor >= 0.0 && <= 1.0), game_client_impl.c:196,
\* and the one on time_update_to_process before it.
InterpolationInRange == stage # "aborted"
=============================================================================
