---------------------------- MODULE Admission ----------------------------
(***************************************************************************)
(* What limitListener promises its user: connections are admitted one at a *)
(* time, never more than MaxConns at once, and leave once.                 *)
(***************************************************************************)
EXTENDS Integers, FiniteSets

CONSTANTS Conns, MaxConns

VARIABLES admitted, left

Init == admitted = {} /\ left = {}

Admit(c) ==
    /\ c \notin admitted \cup left
    /\ Cardinality(admitted) < MaxConns
    /\ admitted' = admitted \cup {c}
    /\ UNCHANGED left

Leave(c) ==
    /\ c \in admitted
    /\ admitted' = admitted \ {c}
    /\ left' = left \cup {c}

Next == \E c \in Conns : Admit(c) \/ Leave(c)

Spec == Init /\ [][Next]_<<admitted, left>>
=============================================================================
