----------------------------- MODULE Components -----------------------------
(***************************************************************************)
(* What the entities and their components promise the scripts: an entity   *)
(* has at most one component of each kind, a call changes the entity it is *)
(* made for and no other, and a component can always be replaced.          *)
(***************************************************************************)
CONSTANTS
    Entities,
    Kinds,
    Data,       \* what distinguishes components
    None

VARIABLES
    alive,      \* the entities that exist
    has         \* for each entity and kind, the component or None

vars == <<alive, has>>

Init == alive = {} /\ has = [e \in Entities |-> [k \in Kinds |-> None]]

Add(e) ==
    /\ e \notin alive
    /\ alive' = alive \cup {e}
    /\ UNCHANGED has

(* Components d are requested: there may be no room for those that do not  *)
(* replace one.                                                            *)
Load(e, d) ==
    /\ e \in alive
    /\ \E failed \in SUBSET {k \in Kinds : has[e][k] = None} :
        has' = [has EXCEPT ![e] = [k \in Kinds |->
                    IF d[k] = None \/ k \in failed THEN @[k] ELSE d[k]]]
    /\ UNCHANGED alive

Remove(e) ==
    /\ e \in alive
    /\ alive' = alive \ {e}
    /\ has' = [has EXCEPT ![e] = [k \in Kinds |-> None]]

Next == \E e \in Entities :
    \/ Add(e)
    \/ \E d \in [Kinds -> Data \cup {None}] : Load(e, d)
    \/ Remove(e)

Spec == Init /\ [][Next]_vars
=============================================================================
