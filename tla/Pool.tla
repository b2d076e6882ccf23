-------------------------------- MODULE Pool --------------------------------
(***************************************************************************)
(* What a container of stable elements promises its users: an element is   *)
(* given out only if nobody holds it, stays in use until it is returned,   *)
(* and one is available as long as fewer than capacity are in use.         *)
(***************************************************************************)
EXTENDS Naturals, FiniteSets

CONSTANT MaxCapacity

VARIABLES
    capacity,   \* how many elements the container can hold
    used        \* the elements in use

vars == <<capacity, used>>

Elements == 1..MaxCapacity

Init == capacity = 0 /\ used = {}

SetCapacity(c) == capacity' = c /\ used' = {}

Take ==
    /\ Cardinality(used) < capacity
    /\ \E e \in Elements \ used : used' = used \cup {e}
    /\ UNCHANGED capacity

Return ==
    /\ \E e \in used : used' = used \ {e}
    /\ UNCHANGED capacity

Next ==
    \/ \E c \in 0..MaxCapacity : SetCapacity(c)
    \/ Take
    \/ Return

Spec == Init /\ [][Next]_vars
=============================================================================
