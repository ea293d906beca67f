-------------------------- MODULE FrameLoopProofs --------------------------
(* The frame loop, for every length of the frame, the update and the stages: *)
(* no time is lost, the rest after the updates is less than one update,      *)
(* frames stay below the bound and are not short, and the ring of samples    *)
(* holds the latest of them.                                                 *)
EXTENDS FrameLoop, TLAPS

\* The updates the longest frame calls for.
MostUpdates == (FrameBound + Fixed - 1) \div Fixed
UpdatesTime == MostUpdates * UpdateCost

LEMMA Division ==
    ASSUME NEW t \in Nat, NEW d \in Nat \ {0}
    PROVE  /\ t \div d \in Nat
           /\ (t \div d) * d <= t
           /\ t < (t \div d) * d + d
  OBVIOUS

LEMMA ProductGrows ==
    ASSUME NEW a \in Nat, NEW b \in Nat, NEW c \in Nat, a <= b
    PROVE  a * c <= b * c
  OBVIOUS

LEMMA QuotientGrows ==
    ASSUME NEW s \in Nat, NEW t \in Nat, NEW d \in Nat \ {0}, s <= t
    PROVE  s \div d <= t \div d
  <1> DEFINE p == s \div d
  <1> DEFINE q == t \div d
  <1>1. p \in Nat /\ q \in Nat /\ p * d <= s /\ t < q * d + d
    BY Division
  <1> HIDE DEF p, q
  <1>2. ASSUME q + 1 <= p PROVE FALSE
    <2>1. (q + 1) * d <= p * d
      BY <1>1, <1>2, ProductGrows
    <2>2. (q + 1) * d = q * d + d
      BY <1>1
    <2>3. q * d \in Nat /\ p * d \in Nat
      BY <1>1
    <2>. QED
      BY <1>1, <2>1, <2>2, <2>3
  <1>3. p <= q
    BY <1>1, <1>2
  <1>. QED
    BY <1>3 DEF p, q

\* How long after the start of the frame each stage begins at the latest.
LatestStart ==
    /\ stage = "collect" => clock <= time_end + FrameBound
    /\ stage = "poll" => clock <= time_end + StageCost
    /\ stage \in {"update", "stopped"} => clock <= time_end + 2 * StageCost
    /\ stage = "render" => clock <= time_end + 2 * StageCost + UpdatesTime
    /\ stage = "sleep" => clock <= time_end + 3 * StageCost + UpdatesTime
    /\ stage = "wait" => clock <= time_end + Frame + 2 * StageCost

\* What system__usleep waits for is the end of the frame, but for the time
\* between the reading of its caller and its own.
WaitsForEnd ==
    stage = "wait" => sleep_end \in time_end + Frame .. time_end + Frame + StageCost

TimesType ==
    /\ clock \in Nat /\ time_end \in Nat /\ time_end <= clock
    /\ time_update_to_process \in Nat /\ updates \in Nat /\ sleep_end \in Nat
    /\ stage \in Stage \ {"aborted"}

\* The time to process is at most a frame and a rest, and a rest alone once
\* the updates have been made.
Backlog ==
    /\ time_update_to_process < FrameBound + Fixed
    /\ stage \in {"render", "sleep", "wait", "collect"} => time_update_to_process < Fixed

\* Inductive: how long a frame lasts and how much there is to process after it
\* bound each other.
LoopInv == TimesType /\ Backlog /\ LatestStart /\ WaitsForEnd /\ TimeIsConserved

LEMMA Constants ==
    /\ MostUpdates \in Nat
    /\ UpdatesTime \in Nat
    /\ UpdatesTime + 4 * StageCost <= FrameBound
    /\ Frame + 3 * StageCost <= FrameBound
    /\ Fixed \in Nat \ {0} /\ Frame \in Nat /\ Fixed < Frame
    /\ StageCost \in Nat /\ UpdateCost \in Nat /\ FrameBound \in Nat
    /\ Overhead \in Nat /\ Granularity \in Nat
  <1>1. FrameBound + Fixed - 1 \in Nat
    BY LoopAssumption, FrameBoundAssumption
  <1>2. MostUpdates \in Nat
    BY <1>1, Division, LoopAssumption DEF MostUpdates
  <1>3. UpdatesTime \in Nat
    BY <1>2, LoopAssumption DEF UpdatesTime
  <1>. QED
    BY <1>2, <1>3, LoopAssumption, FrameBoundAssumption DEF MostUpdates, UpdatesTime

LEMMA InitLoop == Init => LoopInv
  BY Constants DEF Init, LoopInv, TimesType, Backlog, LatestStart, WaitsForEnd, TimeIsConserved, Stage

LEMMA CollectLoop ==
    ASSUME LoopInv, CollectPreviousFrameInfo
    PROVE  LoopInv'
  <1>1. /\ clock' \in Nat /\ clock <= clock' /\ clock' <= clock + StageCost
        /\ time_end' = clock /\ time_end' \in Nat /\ stage' = "poll"
        /\ time_update_to_process' = time_update_to_process + clock - time_end
        /\ updates' = updates /\ sleep_end' = sleep_end
    BY Constants DEF LoopInv, TimesType, CollectPreviousFrameInfo, Lasts
  <1>2. clock <= time_end + FrameBound /\ time_update_to_process < Fixed
    BY DEF LoopInv, LatestStart, Backlog, CollectPreviousFrameInfo
  <1>3. TimesType'
    BY <1>1 DEF LoopInv, TimesType, Stage
  <1>4. Backlog'
    BY <1>1, <1>2, Constants DEF LoopInv, Backlog, TimesType
  <1>5. LatestStart' /\ WaitsForEnd'
    BY <1>1, Constants DEF LoopInv, LatestStart, WaitsForEnd, TimesType
  <1>6. TimeIsConserved'
    <2>1. updates * Fixed \in Nat
      BY Constants DEF LoopInv, TimesType
    <2>. QED
      BY <2>1 DEF LoopInv, TimesType, TimeIsConserved, CollectPreviousFrameInfo
  <1>. QED
    BY <1>3, <1>4, <1>5, <1>6 DEF LoopInv

LEMMA PollLoop ==
    ASSUME LoopInv, PollInputs
    PROVE  LoopInv'
  <1>1. /\ clock' \in Nat /\ clock <= clock' /\ clock' <= clock + StageCost
        /\ time_end' = time_end /\ time_end' \in Nat
        /\ stage = "poll" /\ stage' \in {"update", "stopped"}
        /\ time_update_to_process' = time_update_to_process /\ updates' = updates
        /\ sleep_end' = sleep_end
    BY Constants DEF LoopInv, TimesType, PollInputs, Lasts
  <1>2. TimesType' /\ Backlog'
    BY <1>1 DEF LoopInv, TimesType, Backlog, Stage
  <1>3. LatestStart' /\ WaitsForEnd'
    BY <1>1, Constants DEF LoopInv, LatestStart, WaitsForEnd, TimesType
  <1>4. TimeIsConserved'
    BY <1>1 DEF LoopInv, TimeIsConserved
  <1>. QED
    BY <1>2, <1>3, <1>4 DEF LoopInv

\* The quotient is not negative, so it is exact, and at most MostUpdates.
LEMMA UpdateLoopLoop ==
    ASSUME LoopInv, UpdateLoop
    PROVE  LoopInv'
  <1> DEFINE time == time_update_to_process
  <1> DEFINE n == time \div Fixed
  <1>1. time \in Nat /\ time <= FrameBound + Fixed - 1 /\ FrameBound + Fixed - 1 \in Nat
    BY Constants DEF LoopInv, TimesType, Backlog
  <1>2. /\ n \in Nat /\ n * Fixed <= time /\ time < n * Fixed + Fixed
        /\ n <= MostUpdates
    BY <1>1, Constants, Division, QuotientGrows DEF MostUpdates
  <1>3. n * UpdateCost \in Nat /\ n * UpdateCost <= UpdatesTime
    BY <1>2, Constants, ProductGrows DEF UpdatesTime
  <1>4. /\ time' = time - n * Fixed
        /\ updates' = updates + n
        /\ clock' \in clock .. clock + n * UpdateCost
        /\ stage = "update" /\ stage' = "render"
        /\ time_end' = time_end /\ time_end' \in Nat /\ sleep_end' = sleep_end
    BY <1>1 DEF UpdateLoop, NumberOfUpdates, Lasts, LoopInv, TimesType
  <1> HIDE DEF n
  <1>5. n * Fixed \in Nat /\ updates * Fixed \in Nat
    BY <1>2, Constants DEF LoopInv, TimesType
  <1>6. TimesType' /\ Backlog'
    BY <1>2, <1>3, <1>4, <1>5, Constants DEF LoopInv, TimesType, Backlog, Stage
  <1>7. LatestStart' /\ WaitsForEnd'
    <2>1. clock' \in Nat /\ clock' <= clock + UpdatesTime
      BY <1>3, <1>4, Constants DEF LoopInv, TimesType
    <2>. QED
      BY <1>4, <2>1, Constants DEF LoopInv, TimesType, LatestStart, WaitsForEnd
  <1>8. TimeIsConserved'
    <2>1. (updates + n) * Fixed = updates * Fixed + n * Fixed
      BY <1>2, Constants DEF LoopInv, TimesType
    <2>. QED
      BY <1>4, <1>5, <2>1 DEF LoopInv, TimesType, TimeIsConserved
  <1>. QED
    BY <1>6, <1>7, <1>8 DEF LoopInv

LEMMA RenderLoop ==
    ASSUME LoopInv, Render
    PROVE  LoopInv'
  <1>1. RenderAssertion
    BY Constants DEF LoopInv, TimesType, Backlog, Render, RenderAssertion
  <1>2. /\ clock' \in Nat /\ clock <= clock' /\ clock' <= clock + StageCost
        /\ time_end' = time_end /\ time_end' \in Nat
        /\ stage = "render" /\ stage' = "sleep"
        /\ time_update_to_process' = time_update_to_process /\ updates' = updates
        /\ sleep_end' = sleep_end
    BY <1>1, Constants DEF LoopInv, TimesType, Render, Lasts
  <1>3. TimesType' /\ Backlog'
    BY <1>2 DEF LoopInv, TimesType, Backlog, Stage
  <1>4. LatestStart' /\ WaitsForEnd'
    BY <1>2, Constants DEF LoopInv, LatestStart, WaitsForEnd, TimesType
  <1>5. TimeIsConserved'
    BY <1>2 DEF LoopInv, TimeIsConserved
  <1>. QED
    BY <1>3, <1>4, <1>5 DEF LoopInv

\* The reading in system__usleep comes later than that of its caller, so the
\* end it computes is no earlier than that of the frame.
LEMMA SleepLoop ==
    ASSUME LoopInv, SleepTillEndOfFrame
    PROVE  LoopInv'
  <1> DEFINE till == time_end + Frame - clock
  <1>1. /\ clock \in Nat /\ time_end \in Nat /\ time_end <= clock
        /\ till \in Int /\ stage = "sleep"
        /\ clock <= time_end + 3 * StageCost + UpdatesTime
    BY Constants DEF LoopInv, TimesType, LatestStart, SleepTillEndOfFrame
  <1>2. /\ time_end' = time_end /\ time_update_to_process' = time_update_to_process
        /\ updates' = updates
    BY DEF SleepTillEndOfFrame
  <1>3. TimeIsConserved'
    BY <1>2 DEF LoopInv, TimeIsConserved
  <1>4. CASE till > 0
    <2>1. PICK now \in clock .. clock + StageCost :
            /\ sleep_end' = now + till
            /\ clock' \in now .. now + Coarse(till) + StageCost
      BY <1>1, <1>4 DEF SleepTillEndOfFrame, usleep
    <2>2. Coarse(till) \in Nat /\ Coarse(till) <= till
      BY <1>1, <1>4, Constants DEF Coarse
    <2>3. stage' = "wait"
      BY <1>1, <1>4 DEF SleepTillEndOfFrame
    <2>4. /\ now \in Nat /\ clock <= now /\ now <= clock + StageCost
          /\ clock' \in Nat /\ now <= clock'
          /\ clock' <= now + Coarse(till) + StageCost
      BY <1>1, <2>1, <2>2, Constants
    <2>5. sleep_end' \in Nat /\ WaitsForEnd'
      BY <1>1, <1>2, <1>4, <2>1, <2>4, Constants DEF WaitsForEnd
    <2>6. clock' <= time_end + Frame + 2 * StageCost
      BY <1>1, <2>2, <2>4, Constants
    <2>7. TimesType' /\ Backlog'
      BY <1>1, <1>2, <2>3, <2>4, <2>5 DEF LoopInv, TimesType, Backlog, Stage
    <2>8. LatestStart'
      BY <1>2, <2>3, <2>6 DEF LatestStart
    <2>. QED
      BY <1>3, <2>5, <2>7, <2>8 DEF LoopInv
  <1>5. CASE ~(till > 0)
    <2>1. stage' = "collect" /\ sleep_end' = sleep_end /\ clock' \in clock .. clock + StageCost
      BY <1>1, <1>5 DEF SleepTillEndOfFrame, Lasts
    <2>2. clock' \in Nat /\ clock <= clock' /\ clock' <= time_end + FrameBound
      BY <1>1, <2>1, Constants
    <2>3. TimesType' /\ Backlog'
      BY <1>1, <1>2, <2>1, <2>2 DEF LoopInv, TimesType, Backlog, Stage
    <2>4. LatestStart' /\ WaitsForEnd'
      BY <1>2, <2>1, <2>2 DEF LatestStart, WaitsForEnd
    <2>. QED
      BY <1>3, <2>3, <2>4 DEF LoopInv
  <1>. QED
    BY <1>4, <1>5

\* Short of its end by more than the overhead, the wait lasts no longer than a
\* reading of the clock beyond it.
LEMMA BusyLoop ==
    ASSUME LoopInv, BusyWait
    PROVE  LoopInv'
  <1>1. /\ clock \in Nat /\ time_end \in Nat /\ time_end <= clock
        /\ sleep_end \in Nat /\ sleep_end <= time_end + Frame + StageCost
        /\ clock + Overhead < sleep_end
    BY Constants DEF LoopInv, TimesType, WaitsForEnd, BusyWait
  <1>2. /\ stage = "wait" /\ stage' = stage /\ time_end' = time_end
        /\ time_update_to_process' = time_update_to_process
        /\ updates' = updates /\ sleep_end' = sleep_end
    BY DEF BusyWait
  <1>3. /\ clock' \in Nat /\ clock <= clock'
        /\ clock' <= time_end + Frame + 2 * StageCost
    BY <1>1, Constants DEF BusyWait, Lasts
  <1>4. TimesType' /\ Backlog'
    BY <1>1, <1>2, <1>3 DEF LoopInv, TimesType, Backlog
  <1>5. LatestStart' /\ WaitsForEnd' /\ TimeIsConserved'
    BY <1>2, <1>3 DEF LoopInv, LatestStart, WaitsForEnd, TimeIsConserved
  <1>. QED
    BY <1>4, <1>5 DEF LoopInv

LEMMA WakeLoop ==
    ASSUME LoopInv, WakeUp
    PROVE  LoopInv'
  <1>1. /\ clock \in Nat /\ time_end \in Nat /\ time_end <= clock /\ stage = "wait"
        /\ clock <= time_end + Frame + 2 * StageCost
    BY DEF LoopInv, TimesType, LatestStart, WakeUp
  <1>2. /\ stage' = "collect" /\ time_end' = time_end
        /\ time_update_to_process' = time_update_to_process
        /\ updates' = updates /\ sleep_end' = sleep_end
    BY DEF WakeUp
  <1>3. clock' \in Nat /\ clock <= clock' /\ clock' <= time_end + FrameBound
    BY <1>1, Constants DEF WakeUp, Lasts
  <1>4. TimesType' /\ Backlog'
    BY <1>1, <1>2, <1>3 DEF LoopInv, TimesType, Backlog, Stage
  <1>5. LatestStart' /\ WaitsForEnd' /\ TimeIsConserved'
    BY <1>2, <1>3 DEF LoopInv, LatestStart, WaitsForEnd, TimeIsConserved
  <1>. QED
    BY <1>4, <1>5 DEF LoopInv

LEMMA LoopStep == LoopInv /\ [Next]_vars => LoopInv'
  <1>. SUFFICES ASSUME LoopInv, [Next]_vars PROVE LoopInv'
    OBVIOUS
  <1>1. CASE CollectPreviousFrameInfo
    BY <1>1, CollectLoop
  <1>2. CASE PollInputs
    BY <1>2, PollLoop
  <1>3. CASE UpdateLoop
    BY <1>3, UpdateLoopLoop
  <1>4. CASE Render
    BY <1>4, RenderLoop
  <1>5. CASE SleepTillEndOfFrame
    BY <1>5, SleepLoop
  <1>6. CASE UNCHANGED vars
    BY <1>6 DEF vars, LoopInv, TimesType, Backlog, LatestStart, WaitsForEnd, TimeIsConserved
  <1>7. CASE BusyWait
    BY <1>7, BusyLoop
  <1>8. CASE WakeUp
    BY <1>8, WakeLoop
  <1>. QED
    BY <1>1, <1>2, <1>3, <1>4, <1>5, <1>6, <1>7, <1>8 DEF Next

THEOREM LoopIsInvariant == Spec => []LoopInv
  BY InitLoop, LoopStep, PTL DEF Spec

\* Updates made and time left to process always add up to the time passed.
THEOREM NoTimeIsLost == Spec => []TimeIsConserved
  <1>1. LoopInv => TimeIsConserved
    BY DEF LoopInv
  <1>. QED
    BY <1>1, LoopIsInvariant, PTL

\* The render stage never finds a whole update unprocessed: its assertions hold.
THEOREM RenderAssertionsHold == Spec => []RestIsLessThanUpdate
  <1>1. LoopInv => RestIsLessThanUpdate
    BY Constants DEF LoopInv, TimesType, Backlog, RestIsLessThanUpdate
  <1>. QED
    BY <1>1, LoopIsInvariant, PTL

\* Frames do not grow without limit while an update costs no more than the
\* bound allows: each frame leaves the next one no more than it can process.
THEOREM FramesStayBounded == Spec => []FrameIsBounded
  <1>1. LoopInv => FrameIsBounded
    BY Constants DEF LoopInv, TimesType, LatestStart, FrameIsBounded, Stage
  <1>. QED
    BY <1>1, LoopIsInvariant, PTL
----------------------------------------------------------------------------
\* A frame that has gone round lasted as long as expected, and the ring is what
\* game_client__sample_prev_frame leaves: indices within it, a frame in each
\* place, the latest frames between tail and head.
RingType ==
    /\ current_frame \in Nat
    /\ head \in SampleIndex /\ tail \in SampleIndex
    /\ frame_info_sample \in [SampleIndex -> Int]

RingInv == RingType /\ SamplesAreLatest

\* Samples of the frames made before this stage, and how many the ring holds.
Sampled == IF stage = "collect" THEN current_frame ELSE current_frame + 1
Held(n) == IF n < Samples THEN n ELSE Samples - 1

LEMMA SamplesConstants == Samples \in Nat /\ Samples >= 2
  BY LoopAssumption

\* Below twice the size of the ring an index wraps at most once.
LEMMA WrapsOnce ==
    ASSUME NEW x \in 0 .. 2 * Samples - 1
    PROVE  x % Samples = IF x < Samples THEN x ELSE x - Samples
  <1>1. CASE x < Samples
    BY <1>1, SamplesConstants
  <1>2. CASE x >= Samples
    <2> DEFINE y == x - Samples
    <2>1. y \in Nat /\ y < Samples /\ x = y + Samples
      BY <1>2, SamplesConstants
    <2> HIDE DEF y
    <2>2. y % Samples = y
      BY <2>1, SamplesConstants
    <2>3. (y + Samples) % Samples = y % Samples
      BY <2>1, SamplesConstants
    <2>. QED
      BY <1>2, <2>1, <2>2, <2>3, SamplesConstants
  <1>. QED
    BY <1>1, <1>2, SamplesConstants

\* The index d places before h.
Before(h, d) == (h + Samples - d) % Samples

LEMMA BeforeValue ==
    ASSUME NEW h \in SampleIndex, NEW d \in 0 .. Samples
    PROVE  /\ Before(h, d) = IF h < d THEN h + Samples - d ELSE h - d
           /\ Before(h, d) \in SampleIndex
  <1> DEFINE x == h + Samples - d
  <1>1. x \in 0 .. 2 * Samples - 1
    BY SamplesConstants DEF SampleIndex
  <1>2. Before(h, d) = x % Samples
    BY DEF Before
  <1> HIDE DEF x
  <1>3. x % Samples = IF x < Samples THEN x ELSE x - Samples
    BY <1>1, WrapsOnce
  <1>. QED
    BY <1>2, <1>3, SamplesConstants DEF SampleIndex, x

LEMMA NextIndex ==
    ASSUME NEW h \in SampleIndex
    PROVE  /\ (h + 1) % Samples = IF h + 1 < Samples THEN h + 1 ELSE 0
           /\ (h + 1) % Samples \in SampleIndex
  <1>1. h + 1 \in 0 .. 2 * Samples - 1
    BY SamplesConstants DEF SampleIndex
  <1>. QED
    BY <1>1, WrapsOnce, SamplesConstants DEF SampleIndex

\* How far apart two indices are after one of them, or both, moved on.
LEMMA StepDistance ==
    ASSUME NEW h \in SampleIndex, NEW t \in SampleIndex,
           NEW n \in SampleIndex, n = IF h + 1 < Samples THEN h + 1 ELSE 0,
           NEW u \in SampleIndex, u = IF t + 1 < Samples THEN t + 1 ELSE 0
    PROVE  /\ n = t <=> Before(h, t) = Samples - 1
           /\ n # t => Before(n, t) = Before(h, t) + 1
           /\ n = t => Before(n, u) = Samples - 1
  <1>1. t \in 0 .. Samples /\ u \in 0 .. Samples
    BY SamplesConstants DEF SampleIndex
  <1>2. /\ Before(h, t) = IF h < t THEN h + Samples - t ELSE h - t
        /\ Before(n, t) = IF n < t THEN n + Samples - t ELSE n - t
        /\ Before(n, u) = IF n < u THEN n + Samples - u ELSE n - u
    BY <1>1, BeforeValue
  <1>. QED
    BY <1>2, SamplesConstants DEF SampleIndex

\* What lies d places before the next index lies one place less before this one.
LEMMA StepBack ==
    ASSUME NEW h \in SampleIndex,
           NEW n \in SampleIndex, n = IF h + 1 < Samples THEN h + 1 ELSE 0,
           NEW e \in 0 .. Samples - 2
    PROVE  /\ Before(n, e + 1) = Before(h, e)
           /\ Before(h, e) \in SampleIndex
           /\ Before(h, e) = h <=> e = 0
  <1> DEFINE d == e + 1
  <1>1. d \in 0 .. Samples /\ e \in 0 .. Samples /\ e \in Int
    BY SamplesConstants
  <1> HIDE DEF d
  <1>2. /\ Before(h, e) = IF h < e THEN h + Samples - e ELSE h - e
        /\ Before(h, e) \in SampleIndex
        /\ Before(n, d) = IF n < d THEN n + Samples - d ELSE n - d
    BY <1>1, BeforeValue
  <1>3. Before(n, d) = Before(h, e)
    BY <1>1, <1>2, SamplesConstants DEF SampleIndex, d
  <1>4. Before(h, e) = h <=> e = 0
    BY <1>1, <1>2, SamplesConstants DEF SampleIndex
  <1>. QED
    BY <1>2, <1>3, <1>4 DEF d

\* The ring as these definitions see it.
LEMMA RingAsSeen ==
    SamplesAreLatest <=>
        /\ Before(head, tail) = Held(Sampled)
        /\ \A d \in 1 .. Held(Sampled) :
              frame_info_sample[Before(head, d)] = Sampled - d
  BY DEF SamplesAreLatest, Before, Held, Sampled

LEMMA RingAsSeenNext ==
    SamplesAreLatest' <=>
        /\ Before(head', tail') = Held(Sampled')
        /\ \A d \in 1 .. Held(Sampled') :
              frame_info_sample'[Before(head', d)] = Sampled' - d
  BY DEF SamplesAreLatest, Before, Held, Sampled

\* Nothing but the collecting stage touches the ring, and the count of frames
\* goes up where the loop comes back to it.
LEMMA RingUntouched ==
    ASSUME RingInv, Sampled' = Sampled, current_frame' \in Nat,
           UNCHANGED <<frame_info_sample, head, tail>>
    PROVE  RingInv'
  <1>1. RingType'
    BY DEF RingInv, RingType
  <1>2. Held(Sampled)' = Held(Sampled)
    BY DEF Held
  <1>3. SamplesAreLatest'
    BY <1>2, RingAsSeen, RingAsSeenNext DEF RingInv, Before
  <1>. QED
    BY <1>1, <1>3 DEF RingInv

\* A sample is written at head, which moves on by one; in a full ring so does
\* tail, before the next sample would be written over the place it marks.
LEMMA CollectRing ==
    ASSUME RingInv, CollectPreviousFrameInfo
    PROVE  RingInv'
  <1> DEFINE c == current_frame
             next == (head + 1) % Samples
  <1>1. /\ c \in Nat /\ head \in SampleIndex /\ tail \in SampleIndex
        /\ frame_info_sample \in [SampleIndex -> Int]
        /\ Sampled = c
    BY DEF RingInv, RingType, CollectPreviousFrameInfo, Sampled
  <1>2. /\ current_frame' = c /\ Sampled' = c + 1
        /\ head' = next
        /\ frame_info_sample' = [frame_info_sample EXCEPT ![head] = c]
        /\ tail' = IF next = tail THEN (tail + 1) % Samples ELSE tail
    BY DEF CollectPreviousFrameInfo, Sample, Sampled
  <1>3. /\ next \in SampleIndex
        /\ next = IF head + 1 < Samples THEN head + 1 ELSE 0
        /\ (tail + 1) % Samples \in SampleIndex
        /\ (tail + 1) % Samples = IF tail + 1 < Samples THEN tail + 1 ELSE 0
    BY <1>1, NextIndex
  <1> HIDE DEF next
  <1>4. RingType'
    <2>1. frame_info_sample' \in [SampleIndex -> Int]
      BY <1>1, <1>2
    <2>. QED
      BY <1>1, <1>2, <1>3, <2>1 DEF RingType
  <1>5. /\ Before(head, tail) = Held(c)
        /\ \A d \in 1 .. Held(c) : frame_info_sample[Before(head, d)] = c - d
    BY <1>1, RingAsSeen DEF RingInv
  <1>6. /\ Held(c) \in Nat /\ Held(c + 1) \in Nat
        /\ Held(c) < Samples /\ Held(c + 1) < Samples
        /\ Held(c + 1) = IF Held(c) = Samples - 1 THEN Held(c) ELSE Held(c) + 1
    BY <1>1, SamplesConstants DEF Held
  <1>7. Before(next, tail') = Held(c + 1)
    BY <1>1, <1>2, <1>3, <1>5, <1>6, StepDistance
  <1>8. ASSUME NEW d \in 1 .. Held(c + 1)
        PROVE  frame_info_sample'[Before(next, d)] = c + 1 - d
    <2> DEFINE e == d - 1
    <2>1. e \in 0 .. Samples - 2 /\ e \in Int /\ d = e + 1
      BY <1>6, SamplesConstants
    <2>2. e # 0 => e \in 1 .. Held(c)
      BY <1>6, SamplesConstants
    <2> HIDE DEF e
    <2>3. /\ Before(next, d) = Before(head, e)
          /\ Before(head, e) \in SampleIndex
          /\ Before(head, e) = head <=> e = 0
      BY <1>1, <1>3, <2>1, StepBack
    <2>4. frame_info_sample'[Before(head, e)] = c - e
      BY <1>1, <1>2, <1>5, <2>1, <2>2, <2>3
    <2>. QED
      BY <1>1, <2>1, <2>3, <2>4
  <1>9. SamplesAreLatest'
    <2>1. head' = next /\ Sampled' = c + 1 /\ Held(Sampled') = Held(c + 1)
      BY <1>2
    <2>2. Before(head', tail') = Held(Sampled')
      BY <1>7, <2>1
    <2>3. ASSUME NEW d \in 1 .. Held(Sampled')
          PROVE  frame_info_sample'[Before(head', d)] = Sampled' - d
      <3>1. frame_info_sample'[Before(next, d)] = c + 1 - d
        BY <1>8, <2>1
      <3>2. c + 1 - d = Sampled' - d
        <4>1. d \in Int
          BY <1>6, <2>1
        <4>. QED
          BY <1>1, <2>1, <4>1
      <3>. QED
        BY <2>1, <3>1, <3>2
    <2>. QED
      BY <2>2, <2>3, RingAsSeenNext
  <1>. QED
    BY <1>4, <1>9 DEF RingInv

LEMMA InitRing == Init => RingInv
  <1>. SUFFICES ASSUME Init PROVE RingInv
    OBVIOUS
  <1>1. 0 \in SampleIndex /\ RingType
    BY SamplesConstants DEF Init, RingType, SampleIndex, NoFrame
  <1>2. Held(Sampled) = 0
    BY SamplesConstants DEF Init, Held, Sampled
  <1>3. Before(head, tail) = 0
    BY <1>1, BeforeValue, SamplesConstants DEF Init
  <1>. QED
    BY <1>1, <1>2, <1>3, RingAsSeen DEF RingInv

LEMMA RingStep == LoopInv /\ RingInv /\ [Next]_vars => RingInv'
  <1>. SUFFICES ASSUME LoopInv, RingInv, [Next]_vars PROVE RingInv'
    OBVIOUS
  <1>1. CASE CollectPreviousFrameInfo
    BY <1>1, CollectRing
  <1>2. CASE ~CollectPreviousFrameInfo
    <2>1. current_frame \in Nat
      BY DEF RingInv, RingType
    <2>2. CASE PollInputs \/ UpdateLoop \/ Render \/ BusyWait \/ UNCHANGED vars
      BY <2>1, <2>2, RingUntouched
         DEF PollInputs, UpdateLoop, Render, BusyWait, Sampled, vars, ring
    <2>3. CASE SleepTillEndOfFrame
      BY <2>1, <2>3, RingUntouched DEF SleepTillEndOfFrame, Sampled, ring
    <2>4. CASE WakeUp
      BY <2>1, <2>4, RingUntouched DEF WakeUp, Sampled, ring
    <2>. QED
      BY <1>2, <2>2, <2>3, <2>4 DEF Next
  <1>. QED
    BY <1>1, <1>2

\* What a reader of frame_info_samples finds between tail and head are the
\* latest frames, whatever the size of the ring.
THEOREM RingHoldsLatestFrames == Spec => []SamplesAreLatest
  <1>1. RingInv => SamplesAreLatest
    BY DEF RingInv
  <1>. QED
    BY <1>1, InitRing, RingStep, LoopIsInvariant, PTL DEF Spec

\* Three readings one after the other, and what each is compared with.
LEMMA ReadingsAddUp ==
    ASSUME NEW start \in Nat, NEW target \in Nat, NEW last \in Nat, NEW end \in Nat,
           start + Frame <= target, target <= last + Overhead, last <= end
    PROVE  end - start + Overhead >= Frame
  <1>1. Frame \in Nat /\ Overhead \in Nat
    BY LoopAssumption
  <1>. QED
    BY <1>1

\* A frame comes round in two ways: what was left of it when the sleeping stage
\* began was nothing, or the busy wait ended no more than the overhead short of
\* a target that the reading in between can only have put later.
THEOREM FramesAreNotShort == Spec => []FrameIsPaced
  <1>1. Init => FrameIsPaced
    BY DEF Init, FrameIsPaced
  <1>2. LoopInv /\ FrameIsPaced /\ [Next]_vars => FrameIsPaced'
    <2>. SUFFICES ASSUME LoopInv, FrameIsPaced, [Next]_vars PROVE FrameIsPaced'
      OBVIOUS
    <2>1. /\ clock \in Nat /\ time_end \in Nat /\ sleep_end \in Nat
          /\ Frame \in Nat /\ Overhead \in Nat /\ StageCost \in Nat
      BY Constants DEF LoopInv, TimesType
    <2>2. CASE SleepTillEndOfFrame
      <3> DEFINE till == time_end + Frame - clock
      <3>1. CASE till > 0
        BY <2>1, <2>2, <3>1, Constants DEF SleepTillEndOfFrame, FrameIsPaced
      <3>2. CASE ~(till > 0)
        <4>1. clock' \in Nat /\ clock <= clock' /\ time_end' = time_end
          BY <2>1, <2>2, <3>2 DEF SleepTillEndOfFrame, Lasts
        <4>2. clock' - time_end + Overhead >= Frame
          <5>1. time_end + Frame <= clock /\ clock <= clock + Overhead
            BY <2>1, <3>2
          <5>. QED
            BY <2>1, <4>1, <5>1, ReadingsAddUp
        <4>. QED
          BY <4>1, <4>2 DEF FrameIsPaced
      <3>. QED
        BY <3>1, <3>2
    <2>3. CASE WakeUp
      <3>1. sleep_end >= time_end + Frame /\ clock + Overhead >= sleep_end
        BY <2>1, <2>3, Constants DEF WakeUp, LoopInv, WaitsForEnd
      <3>2. clock' \in Nat /\ clock <= clock' /\ time_end' = time_end
        BY <2>1, <2>3 DEF WakeUp, Lasts
      <3>3. clock' - time_end + Overhead >= Frame
        BY <2>1, <3>1, <3>2, ReadingsAddUp
      <3>. QED
        BY <3>2, <3>3 DEF FrameIsPaced
    <2>4. CASE CollectPreviousFrameInfo \/ PollInputs \/ UpdateLoop \/ Render \/ BusyWait
      BY <2>4 DEF CollectPreviousFrameInfo, PollInputs, UpdateLoop, Render, BusyWait,
                  FrameIsPaced
    <2>5. CASE UNCHANGED vars
      BY <2>5 DEF vars, FrameIsPaced
    <2>. QED
      BY <2>2, <2>3, <2>4, <2>5 DEF Next
  <1>. QED
    BY <1>1, <1>2, LoopIsInvariant, PTL DEF Spec
=============================================================================
