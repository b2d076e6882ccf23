----------------------------- MODULE Population -----------------------------
(***************************************************************************)
(* Entities as a whole (src/entity.cpp): the container of StaticVector has *)
(* an element for each entity of World.  An element that is erased keeps   *)
(* no pointer to a component and no component points to it, so that the    *)
(* next entity can have it.                                                *)
(*                                                                         *)
(* The positions of Frame are read and written by none of this: a behavior *)
(* is either of entities that come, change and go, or of the positions of  *)
(* some over many frames.                                                  *)
(***************************************************************************)
EXTENDS World, StaticVector, Frame

ASSUME PopulationAssumption == Entities = 1..MaxCapacity

PopulationInit == Init /\ VectorInit /\ FrameInit

(* Entities::set_max(). *)
set_max ==
    /\ \E c \in 0..MaxCapacity : set_capacity(c)
    /\ UNCHANGED vars

(* Entities::add(): the element that emplace() returns. *)
add_entity(e) == emplace /\ used' = used \cup {e} /\ add(e)

Population == \E e \in Entities :
    \/ add_entity(e)
    \/ (\E t \in [Kinds -> Request \cup {Null}] : load(e, t)) /\ UNCHANGED vector
    \/ erase(e) /\ remove_entity(e)

PopulationNext ==
    \/ FrameInit /\ (set_max \/ Population) /\ UNCHANGED placement
    \/ Init /\ VectorInit /\ FrameNext /\ UNCHANGED <<vars, vector>>

PopulationSpec == PopulationInit /\ [][PopulationNext]_<<vars, vector, placement>>
=============================================================================
