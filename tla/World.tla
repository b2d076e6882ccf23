------------------------------- MODULE World --------------------------------
(***************************************************************************)
(* Entities (src/entity.cpp) and the arrays of their components: renderers *)
(* (src/render), animations, lights and colliders (src/collision).         *)
(*                                                                         *)
(* Components live in arrays without gaps, one array per type.  An entity  *)
(* has a pointer to its component of each kind and each component one to   *)
(* its entity.  To remove a component, the last of the array is moved into *)
(* its place, and whoever does it must redirect the pointer of the entity  *)
(* it belongs to.  A pointer is modelled by the array and the index.       *)
(*                                                                         *)
(* Entities::add() and remove() reuse elements as StaticVector says: here  *)
(* an entity is the element.                                               *)
(***************************************************************************)
EXTENDS Naturals, Sequences

CONSTANTS
    Entities,       \* the elements of the container of entities
    Kinds,          \* kinds of components in use, of AllKinds
    Arrays,         \* the arrays of components, one per type
    KindOf,         \* kind of the components of an array
    Capacity,       \* how many components each array may hold
    Data,           \* what distinguishes components
    Null,           \* null pointer, and an absent component
    TypeChanges     \* may a component be replaced by one of another type?

AllKinds == {"renderer", "collider", "anim", "light"}

ASSUME WorldAssumption ==
    /\ Kinds \subseteq AllKinds
    /\ KindOf \in [Arrays -> Kinds]
    /\ Capacity \in [Arrays -> Nat]
    /\ Null \notin [array : Arrays, index : Nat \ {0}]
    /\ Null \notin [array : Arrays, data : Data]
    /\ Null \notin Data
    /\ TypeChanges \in BOOLEAN

VARIABLES
    alive,      \* entities that were added and not removed
    ptr,        \* for each entity and kind, the pointer to its component
    comps       \* for each array, its components

vars == <<alive, ptr, comps>>

Pointer == [array : Arrays, index : Nat \ {0}]
Component == [owner : Entities, data : Data]

(* A table given to the loader: the array and the contents of a component. *)
Request == [array : Arrays, data : Data]

At(a, i) == [array |-> a, index |-> i]

TypeOK ==
    /\ alive \subseteq Entities
    /\ ptr \in [Entities -> [Kinds -> Pointer \cup {Null}]]
    /\ comps \in [Arrays -> Seq(Component)]
    /\ \A a \in Arrays : Len(comps[a]) <= Capacity[a]

Init ==
    /\ alive = {}
    /\ ptr = [e \in Entities |-> [k \in Kinds |-> Null]]
    /\ comps = [a \in Arrays |-> <<>>]

-----------------------------------------------------------------------------
(* Mutant: the owner of the last component is moved, its contents are not. *)
const_time_erase_keeps_data(s, i) ==
    [n \in 1..(Len(s) - 1) |->
        IF n = i THEN [owner |-> s[Len(s)].owner, data |-> s[i].data] ELSE s[n]]

(* const_time_erase(): the last component takes the place of component i.  *)
const_time_erase(s, i) ==
    [n \in 1..(Len(s) - 1) |-> IF n = i THEN s[Len(s)] ELSE s[n]]

(* contains(): p points into array a. *)
PointsInto(p, a) == p # Null /\ p.array = a /\ p.index \in DOMAIN comps[a]

(* The array after the component p points to is removed. *)
Without(a, p) ==
    IF PointsInto(p, a) THEN const_time_erase(comps[a], p.index) ELSE comps[a]

(* Mutant: the entity of the moved component is not looked for. *)
NobodyMoves(p, x) == FALSE

(* x is the entity whose component is moved when the one at p is removed.  *)
Moves(p, x) ==
    /\ p # Null
    /\ PointsInto(p, p.array)
    /\ p.index # Len(comps[p.array])
    /\ comps[p.array][Len(comps[p.array])].owner = x

-----------------------------------------------------------------------------
(* There is room for q once the component at p was removed. *)
Fits(p, q) == Len(Without(q.array, p)) < Capacity[q.array]

(* Array a after entity e loaded q, which may be Null, of the array's kind.*)
Loaded(a, e, q) ==
    LET p == ptr[e][KindOf[a]]
    IN  IF q = Null THEN comps[a]
        ELSE IF q.array = a /\ Fits(p, q)
        THEN Append(Without(a, p), [owner |-> e, data |-> q.data])
        ELSE Without(a, p)

(* The pointer of e to what it loaded.  If there was no room, renderer and *)
(* collider are not set, the animation is set to null, and the light was   *)
(* already reset when the old one was removed.                             *)
LoadedPtr(e, k, q) ==
    IF Fits(ptr[e][k], q)
    THEN At(q.array, Len(Without(q.array, ptr[e][k])) + 1)
    ELSE IF k \in {"renderer", "collider"} THEN ptr[e][k] ELSE Null

(* The entity of a moved component points to where it was moved. *)
Redirected(x, k, p) == IF Moves(p, x) THEN p ELSE ptr[x][k]

-----------------------------------------------------------------------------
(* Entities::add(), which constructs the entity anew. *)
add(e) ==
    /\ e \notin alive
    /\ alive' = alive \cup {e}
    /\ ptr' = [ptr EXCEPT ![e] = [k \in Kinds |-> Null]]
    /\ UNCHANGED comps

(* lua/lib/entity.lua load(): a component of each kind given, after the    *)
(* one the entity had is removed.                                          *)
load(e, t) ==
    /\ e \in alive
    /\ \A k \in Kinds : t[k] # Null => KindOf[t[k].array] = k
    /\ ~TypeChanges => \A k \in Kinds :
            t[k] # Null /\ ptr[e][k] # Null => ptr[e][k].array = t[k].array
    /\ comps' = [a \in Arrays |-> Loaded(a, e, t[KindOf[a]])]
    /\ ptr' = [x \in Entities |-> [k \in Kinds |->
            IF t[k] = Null THEN ptr[x][k]
            ELSE IF x = e THEN LoadedPtr(e, k, t[k])
            ELSE Redirected(x, k, ptr[e][k])]]
    /\ UNCHANGED alive

(* NNGN::remove_entity().  The pointers of an entity that was removed are  *)
(* not read before it is constructed again: they are taken to be null.     *)
remove_entity(e) ==
    /\ e \in alive
    /\ alive' = alive \ {e}
    /\ comps' = [a \in Arrays |-> Without(a, ptr[e][KindOf[a]])]
    /\ ptr' = [x \in Entities |-> [k \in Kinds |->
            IF x = e THEN Null ELSE Redirected(x, k, ptr[e][k])]]

Next == \E e \in Entities :
    \/ add(e)
    \/ \E t \in [Kinds -> Request \cup {Null}] : load(e, t)
    \/ remove_entity(e)

Spec == Init /\ [][Next]_vars

-----------------------------------------------------------------------------
(* Properties.                                                             *)

(* The pointer of an entity leads to a component of that kind that belongs *)
(* to it, however often components before or after it were removed.        *)
PointersMatch ==
    \A e \in Entities, k \in Kinds : ptr[e][k] # Null =>
        LET p == ptr[e][k]
        IN  /\ e \in alive
            /\ KindOf[p.array] = k
            /\ p.index \in DOMAIN comps[p.array]
            /\ comps[p.array][p.index].owner = e

(* Every component belongs to an entity that exists and points back to it: *)
(* none is left behind in an array, to be drawn or collided with, after    *)
(* its entity was removed or given another.                                *)
OwnersMatch ==
    \A a \in Arrays : \A i \in DOMAIN comps[a] :
        LET o == comps[a][i].owner
        IN  o \in alive /\ ptr[o][KindOf[a]] = At(a, i)

(* Entities and components know each other: inductive if the types of      *)
(* renderers do not change, or if there is room for those that do.         *)
IInv == TypeOK /\ PointersMatch /\ OwnersMatch

(* What the scripts see of an entity is what they gave to it: moving       *)
(* components around never changes, exchanges or loses one.                *)
AsComponents == INSTANCE Components WITH
    None <- Null,
    has <- [e \in Entities |-> [k \in Kinds |->
                IF ptr[e][k] = Null THEN Null
                ELSE comps[ptr[e][k].array][ptr[e][k].index].data]]

ComponentMap == AsComponents!Spec
=============================================================================
