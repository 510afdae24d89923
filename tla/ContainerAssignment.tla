------------------------ MODULE ContainerAssignment ------------------------
(***************************************************************************)
(* What the container stack promises, without Redis, pool or collector: a  *)
(* workspace container is born for a conversation or as a spare one, a     *)
(* spare one is given to one conversation, and a container that has worked *)
(* for a conversation works for no other until it is destroyed.            *)
(***************************************************************************)
CONSTANTS
    Id,     \* container ids
    Conv    \* conversation ids

VARIABLE phase   \* phase[id]: unborn, spare, gone, or the conversation it works for

Init == phase = [id \in Id |-> "unborn"]

Become(id, before, after) ==
    /\ phase[id] \in before
    /\ phase' = [phase EXCEPT ![id] = after]

Next ==
    \E id \in Id :
        \/ \E p \in Conv \cup {"spare"} : Become(id, {"unborn"}, p)
        \/ \E c \in Conv : Become(id, {"spare"}, c)
        \/ Become(id, Conv \cup {"spare"}, "gone")

Spec == Init /\ [][Next]_phase
=============================================================================
