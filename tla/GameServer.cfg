\* Two connections and three clients: the table gets holes, fills up and refuses.
\* packets_dropped and most of the ids are collapsed: no property here reads them.
\* No symmetry: the run checks liveness too.
SPECIFICATION LiveSpec
CONSTANTS
    SeqMod = 4
    AckBits = 1
    CounterMod = 1
    Clients = {a1, a2, a3}
    NoAddr = noaddr
    Slots = 2
    Timeout = 1
INVARIANTS
    FillIsConnected
    OneConnectionPerClient
PROPERTIES
    ImplementsLobby
    SilentIsDroppedOrHeard
