------------------------------ MODULE MCWorld -------------------------------
(* Instances of Population for TLC. *)
EXTENDS Population

CONSTANTS sprites, cubes, anims, d1, d2

MCKindOf == [a \in Arrays |->
    IF a \in {sprites, cubes} THEN "renderer" ELSE "anim"]

MCEntities == 1..MaxCapacity

(* Renderers may change their type as there is always room for them. *)
Mixed == [a \in Arrays |-> IF a \in {sprites, cubes} THEN 3 ELSE 2]
=============================================================================
