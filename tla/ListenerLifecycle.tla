------------------------ MODULE ListenerLifecycle ------------------------
(***************************************************************************)
(* What the daemon promises of the sockets it listens on: they open and    *)
(* close one at a time, only while it runs, and one that is no longer      *)
(* needed lasts GracePolls polls, unless it is of a kind that yields. No   *)
(* socket opens once the daemon is stopping, and none is left at the end.  *)
(***************************************************************************)
EXTENDS Naturals

CONSTANTS Keys, Yielding, GracePolls

VARIABLES
    sockets,    \* keys that are listened on
    misses,     \* consecutive polls that found no use for a socket
    phase       \* "up", "down" while stopping, "off"

Init ==
    /\ sockets = {} /\ misses = [k \in Keys |-> 0]
    /\ phase = "up"

Open(k) ==
    /\ phase = "up" /\ k \notin sockets
    /\ sockets' = sockets \cup {k}
    /\ UNCHANGED <<misses, phase>>

Renew(k) ==
    /\ phase = "up" /\ k \in sockets
    /\ misses' = [misses EXCEPT ![k] = 0]
    /\ UNCHANGED <<sockets, phase>>

Miss(k) ==
    /\ phase = "up" /\ k \in sockets
    /\ misses[k] + 1 < GracePolls
    /\ misses' = [misses EXCEPT ![k] = @ + 1]
    /\ UNCHANGED <<sockets, phase>>

Retire(k) ==
    /\ phase = "up" /\ k \in sockets
    /\ k \in Yielding \/ misses[k] + 1 >= GracePolls
    /\ sockets' = sockets \ {k}
    /\ misses' = [misses EXCEPT ![k] = 0]
    /\ UNCHANGED phase

Stop ==
    /\ phase = "up" /\ phase' = "down"
    /\ misses' = [k \in Keys |-> 0]
    /\ UNCHANGED sockets

Drain(k) ==
    /\ phase = "down" /\ k \in sockets
    /\ sockets' = sockets \ {k}
    /\ UNCHANGED <<misses, phase>>

Off ==
    /\ phase = "down" /\ sockets = {} /\ phase' = "off"
    /\ UNCHANGED <<sockets, misses>>

Next ==
    \/ \E k \in Keys : Open(k) \/ Renew(k) \/ Miss(k) \/ Retire(k) \/ Drain(k)
    \/ Stop \/ Off

Spec == Init /\ [][Next]_<<sockets, misses, phase>>
=============================================================================
