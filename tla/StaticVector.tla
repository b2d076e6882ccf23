---------------------------- MODULE StaticVector ----------------------------
(***************************************************************************)
(* nngn::static_vector (src/utils/static_vector.h) as Entities uses it     *)
(* (src/entity.h): a vector whose elements never move, with the free ones  *)
(* linked in a list that lives inside of them.                             *)
(*                                                                         *)
(* The link of a free element overlays the flags of an Entity, which loops *)
(* over the whole vector read and clear.  Links are aligned pointers, in   *)
(* which the bits of the flags are zero: those loops see a free element as *)
(* an entity without flags and leave its link alone.                       *)
(***************************************************************************)
EXTENDS Naturals, Sequences, FiniteSets

CONSTANTS
    MaxCapacity,     \* bound: largest capacity requested
    ReserveInUse     \* may set_capacity() be called on a vector in use?

ASSUME StaticVectorAssumption ==
    MaxCapacity \in Nat /\ ReserveInUse \in BOOLEAN

VARIABLES
    v,          \* the elements: the index of the next free one, 0: null
    capacity,   \* of the underlying vector
    free_head,  \* index of the first free element, 0: null
    used        \* history: elements handed out and not returned

vector == <<v, capacity, free_head, used>>

(* An element in use holds no link. *)
InUse == 0

VectorInit == v = <<>> /\ capacity = 0 /\ free_head = 0 /\ used = {}

VectorTypeOK ==
    /\ v \in Seq(0..MaxCapacity) /\ Len(v) <= capacity
    /\ capacity \in 0..MaxCapacity
    /\ free_head \in 0..Len(v)
    /\ used \subseteq DOMAIN v

(* Mutant: one element more than there is room for. *)
FullLate == free_head = 0 /\ Len(v) > capacity

(* full(). *)
Full == free_head = 0 /\ Len(v) = capacity

(* The elements of the vector that are not in use. *)
Unused == DOMAIN v \ used

(* A walk along the links from free_head, as that of n_free(), passes f[1] *)
(* to f[n] and ends.                                                       *)
Walk(f, n) ==
    /\ free_head = IF n = 0 THEN 0 ELSE f[1]
    /\ \A k \in 1..n : v[f[k]] = IF k = n THEN 0 ELSE f[k + 1]

-----------------------------------------------------------------------------
(* nngn::set_capacity replaces the vector only if it has to shrink, and    *)
(* otherwise keeps its elements, but the free list is always forgotten.    *)
set_capacity(c) ==
    /\ ReserveInUse \/ v = <<>>
    /\ c \in 0..MaxCapacity
    /\ v' = IF c < capacity THEN <<>> ELSE v
    /\ capacity' = c
    /\ free_head' = 0
    /\ used' = IF c < capacity THEN {} ELSE used

(* Mutant: the free element is not taken off the list. *)
emplace_keeps_head ==
    /\ ~Full
    /\ LET i == IF free_head # 0 THEN free_head ELSE Len(v) + 1
       IN  /\ v' = IF i > Len(v) THEN Append(v, InUse)
                                ELSE [v EXCEPT ![i] = InUse]
           /\ used' = used \cup {i}
    /\ UNCHANGED <<capacity, free_head>>

(* Entities::add(): emplace(). *)
emplace ==
    /\ ~Full
    /\ LET i == IF free_head # 0 THEN free_head ELSE Len(v) + 1
       IN  /\ v' = IF i > Len(v) THEN Append(v, InUse)
                                ELSE [v EXCEPT ![i] = InUse]
           /\ free_head' = IF free_head # 0 THEN v[free_head] ELSE 0
           /\ used' = used \cup {i}
    /\ UNCHANGED capacity

(* Entities::remove(): erase().  The last element is dropped and not put   *)
(* in the free list; the destructor is trivial.                            *)
erase(i) ==
    /\ i \in used
    /\ IF i = Len(v)
       THEN /\ v' = SubSeq(v, 1, i - 1)
            /\ UNCHANGED free_head
       ELSE /\ v' = [v EXCEPT ![i] = free_head]
            /\ free_head' = i
    /\ used' = used \ {i}
    /\ UNCHANGED capacity

VectorNext ==
    \/ \E c \in 0..MaxCapacity : set_capacity(c)
    \/ emplace
    \/ \E i \in used : erase(i)

VectorSpec == VectorInit /\ [][VectorNext]_vector

-----------------------------------------------------------------------------
(* Properties.                                                             *)

(* The free list has each element of the vector that is not in use exactly *)
(* once and nothing else: no element in use can be handed out again, none  *)
(* is lost, none past the end is reached, and the walk of n_free() ends.   *)
FreeListExact ==
    LET n == Cardinality(Unused) IN
    \E f \in [1..n -> Unused] :
        /\ \A j, k \in 1..n : f[j] = f[k] => j = k
        /\ \A i \in Unused : \E k \in 1..n : f[k] = i
        /\ Walk(f, n)

(* As long as fewer elements than the capacity are in use, one can be had: *)
(* what is erased is never lost (full(), static_vector.h:57).              *)
FullExact == Full <=> Cardinality(used) = capacity

(* What is true of a vector between calls: its elements are in use or in   *)
(* the free list, once.                                                    *)
Inv == VectorTypeOK /\ FreeListExact /\ FullExact

(* The vector is a pool: it never holds more elements than it has room for,*)
(* and what is in use stays in use until it is erased.                     *)
AsPool == INSTANCE Pool

PoolSpec == AsPool!Spec
=============================================================================
