\* Up to five updates a frame in the worst case; five frames overrun the ring of three.
\* The loop ends when the window is closed, or at the bound on frames.
CHECK_DEADLOCK FALSE
SPECIFICATION Spec
CONSTANTS
    Fixed = 3
    Frame = 5
    Overhead = 1
    Granularity = 2
    Samples = 3
    UpdatesMod = 64
    StageCost = 1
    UpdateCost = 2
    FrameBound = 14
    MaxFrames = 5
INVARIANTS
    TimeIsConserved
    RestIsLessThanUpdate
    FrameIsPaced
    FrameIsBounded
    SamplesAreLatest
