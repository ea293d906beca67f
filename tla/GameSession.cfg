\* One client that outruns its ring of three packets; it and the server are restarted once.
SPECIFICATION Spec
CONSTANTS
    SeqMod = 16
    AckBits = 1
    CounterMod = 1
    Clients = {a1}
    NoAddr = noaddr
    Slots = 1
    Timeout = 1
    QueueSize = 3
    MaxSent = 4
    MaxFrames = 3
    MaxRestarts = 1
    MaxCrashes = 1
INVARIANTS
    RingHoldsLatest
    AckedReachedServer
    AbortOnlyAfterRestart
