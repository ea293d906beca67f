------------------------------- MODULE Lobby -------------------------------
(* What the game server promises about its clients, without saying how it    *)
(* keeps them: at most Capacity members, a client that is heard while there  *)
(* is room becomes a member, a member stays until it has been silent for     *)
(* more than Timeout, and nothing else ends a membership.                    *)
EXTENDS Integers, FiniteSets

CONSTANTS Clients,   \* addresses packets can come from
          Capacity,  \* connections_size
          Timeout    \* max_time_for_disconnect

VARIABLES members,   \* clients with a connection
          silence    \* time since a member was last heard, up to Timeout + 1

vars == <<members, silence>>

AtMost(t) == IF t > Timeout THEN Timeout + 1 ELSE t

Init ==
    /\ members = {}
    /\ silence = [c \in Clients |-> 0]

\* Time passes for every member; a client that is no member is not timed.
Pass(dt) ==
    /\ silence' = [c \in Clients |-> IF c \in members THEN AtMost(silence[c] + dt) ELSE 0]
    /\ UNCHANGED members

\* A packet of c is processed: it keeps c a member, admits it, or, when all
\* places are taken, is ignored.
Hear(c) ==
    /\ members' = IF Cardinality(members) < Capacity THEN members \cup {c} ELSE members
    /\ silence' = [silence EXCEPT ![c] = 0]

\* All members silent for too long leave together.
Expire ==
    /\ members' = {c \in members : silence[c] <= Timeout}
    /\ silence' = [c \in Clients |-> IF c \in members' THEN silence[c] ELSE 0]

Next ==
    \/ \E dt \in 1 .. Timeout + 1 : Pass(dt)
    \/ \E c \in Clients : Hear(c)
    \/ Expire

Spec == Init /\ [][Next]_vars
=============================================================================
