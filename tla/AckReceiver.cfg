\* Ids modulo 16 wrap between the 4th and the 5th packet; the field has 3 bits,
\* so jumps smaller than, equal to and wider than the field all occur.
SPECIFICATION Spec
CONSTANTS
    SeqMod = 16
    AckBits = 3
    CounterMod = 64
    FirstNumber = 12
    LastNumber = 21
INVARIANTS
    TypeOK
    YoungestIsAcked
    ReceivedIsAcked
    AckedWasReceived
    DroppedIsMissed
