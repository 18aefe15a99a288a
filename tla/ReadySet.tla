------------------------------ MODULE ReadySet ------------------------------
(***************************************************************************)
(* What a priority list promises the protocols that use it, without        *)
(* indices or a current item: a set of known endpoints with a priority, of *)
(* which some are ready, and of which a pop takes a ready one that no      *)
(* other ready one precedes.  Module Priolist implements it as long as no  *)
(* endpoint is removed.                                                    *)
(***************************************************************************)
EXTENDS Naturals

CONSTANTS Eid, Priority

VARIABLES
    known,   \* the endpoints inserted: a set of [value, priority]
    ready,   \* the ids of those that are ready
    taken    \* the endpoint the last step took, 0 if it was not a pop

Init ==
    /\ known = {}
    /\ ready = {}
    /\ taken = 0

Join(id, prio) ==
    /\ known' = known \cup {[value |-> id, priority |-> prio]}
    /\ UNCHANGED ready
    /\ taken' = 0

BecomeReady(id) ==
    /\ \E k \in known : k.value = id
    /\ ready' = ready \cup {id}
    /\ UNCHANGED known
    /\ taken' = 0

LoseReady(id) ==
    /\ ready' = ready \ {id}
    /\ UNCHANGED known
    /\ taken' = 0

\* Take a ready endpoint of the most urgent priority among the ready ones.
Take(id) ==
    /\ id \in ready
    /\ \E k \in known :
        /\ k.value = id
        /\ \A other \in known : other.value \in ready => k.priority <= other.priority
    /\ ready' = ready \ {id}
    /\ UNCHANGED known
    /\ taken' = id

Next ==
    \/ \E id \in Eid, prio \in Priority : Join(id, prio)
    \/ \E id \in Eid : BecomeReady(id) \/ LoseReady(id) \/ Take(id)

Spec == Init /\ [][Next]_<<known, ready, taken>>
=============================================================================
