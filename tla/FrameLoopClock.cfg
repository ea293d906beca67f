\* The same loop while the clock may be set back.
CHECK_DEADLOCK FALSE
SPECIFICATION SteppingSpec
CONSTANTS
    Fixed = 3
    Frame = 5
    Overhead = 1
    Granularity = 2
    Samples = 3
    UpdatesMod = 64
    StageCost = 1
    UpdateCost = 2
    FrameBound = 14
    MaxFrames = 2
INVARIANT InterpolationInRange
