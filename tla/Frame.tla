-------------------------------- MODULE Frame --------------------------------
(***************************************************************************)
(* The positions of entities in the course of a frame: NNGN::loop()        *)
(* (src/main.cpp) and src/entity.cpp.                                      *)
(*                                                                         *)
(* The renderer, collider and light of an entity have positions of their   *)
(* own.  They are at the position of the entity, to which the one of its   *)
(* parent is added.  set_pos() keeps them up to date, but not those of the *)
(* children: they are moved by update_children(), once per frame, if the   *)
(* flag POS_UPDATED of the parent is set, until clear_flags().             *)
(*                                                                         *)
(* Vectors are abstracted to numbers modulo Span: only their sums matter.  *)
(* All components of an entity are placed by the same code, so one stands  *)
(* for all.  The camera, which is moved by differences, is left out.       *)
(***************************************************************************)
EXTENDS Naturals

CONSTANTS
    N,              \* number of entities
    Span,           \* positions are 0..(Span - 1)
    None,           \* null pointer, and no component
    LateComponents  \* may an entity that has a parent get a component?

ASSUME FrameAssumption ==
    /\ N \in Nat \ {0}
    /\ Span \in Nat \ {0}
    /\ None \notin Nat
    /\ LateComponents \in BOOLEAN

Bodies == 1..N

Positions == 0..(Span - 1)

Plus(x, y) == (x + y) % Span

VARIABLES
    phase,      \* what the loop is doing
    i,          \* entity that is next in a loop over them
    pos,        \* Entity::p
    moving,     \* entities with a velocity
    parent,     \* Entity::parent
    updated,    \* entities with POS_UPDATED
    at          \* position of the component of each entity

placement == <<phase, i, pos, moving, parent, updated, at>>

(* In the order of NNGN::loop(). *)
Phases == {"scripts", "update", "check", "resolve", "callbacks", "children",
           "draw", "ended"}

FrameTypeOK ==
    /\ phase \in Phases
    /\ i \in 1..(N + 1)
    /\ pos \in [Bodies -> Positions]
    /\ moving \subseteq Bodies
    /\ parent \in [Bodies -> Bodies \cup {None}]
    /\ updated \subseteq Bodies
    /\ at \in [Bodies -> Positions \cup {None}]

FrameInit ==
    /\ phase = "scripts" /\ i = 1
    /\ pos = [e \in Bodies |-> 0]
    /\ moving = {}
    /\ parent = [e \in Bodies |-> None]
    /\ updated = {}
    /\ at = [e \in Bodies |-> None]

-----------------------------------------------------------------------------
(* src/entity.cpp                                                          *)

(* The position of the components of e, if that of e is x and its parent q.*)
Place(x, q) == IF q = None THEN x ELSE Plus(x, pos[q])

(* What becomes of the component of e: nothing if there is none. *)
Placed(e, x, q) ==
    [at EXCEPT ![e] = IF @ = None THEN None ELSE Place(x, q)]

(* Mutant: the children are not told. *)
MoveQuietly(e, x) ==
    /\ pos' = [pos EXCEPT ![e] = x]
    /\ at' = Placed(e, x, parent[e])
    /\ UNCHANGED updated

(* Entity::set_pos() *)
Move(e, x) ==
    /\ pos' = [pos EXCEPT ![e] = x]
    /\ at' = Placed(e, x, parent[e])
    /\ updated' = updated \cup {e}

(* Scripts run when input is processed, from the schedule and the socket,  *)
(* and again when they are told of collisions.                             *)
Scripts == phase \in {"scripts", "callbacks"}

set_pos(e, x) ==
    /\ Scripts
    /\ Move(e, x)
    /\ UNCHANGED <<phase, i, moving, parent>>

(* Entity::set_vel(), also for the acceleration.*)
set_vel(e, m) ==
    /\ Scripts
    /\ moving' = IF m THEN moving \cup {e} ELSE moving \ {e}
    /\ UNCHANGED <<phase, i, pos, parent, updated, at>>

(* Entity::set_parent(): calls set_pos() with the same position. *)
set_parent(e, q) ==
    /\ Scripts
    /\ parent' = [parent EXCEPT ![e] = q]
    /\ at' = Placed(e, pos[e], q)
    /\ updated' = updated \cup {e}
    /\ UNCHANGED <<phase, i, pos, moving>>

(* Entity::set_renderer(), set_collider(), set_light(): placed without the *)
(* parent.  load() of lua/lib/entity.lua sets the parent afterwards.       *)
set_component(e) ==
    /\ Scripts
    /\ LateComponents \/ parent[e] = None
    /\ at' = [at EXCEPT ![e] = pos[e]]
    /\ UNCHANGED <<phase, i, pos, moving, parent, updated>>

-----------------------------------------------------------------------------
(* NNGN::loop()                                                            *)

(* Mutant: the children are placed before the callbacks. *)
FollowsEarly(from, to) ==
    \/ from = "scripts" /\ to = "update"
    \/ from = "update" /\ i > N /\ to = "check"
    \/ from = "check" /\ to = "resolve"
    \/ from = "resolve" /\ to = "children"
    \/ from = "children" /\ i > N /\ to = "callbacks"
    \/ from = "callbacks" /\ to = "draw"

(* Phase to comes after from, once a loop over the entities is done. *)
Follows(from, to) ==
    \/ from = "scripts" /\ to = "update"
    \/ from = "update" /\ i > N /\ to = "check"
    \/ from = "check" /\ to = "resolve"
    \/ from = "resolve" /\ to = "callbacks"
    \/ from = "callbacks" /\ to = "children"
    \/ from = "children" /\ i > N /\ to = "draw"

proceed(to) ==
    /\ Follows(phase, to)
    /\ phase' = to
    /\ i' = 1
    /\ UNCHANGED <<pos, moving, parent, updated, at>>

(* Entities::update(), for one entity. *)
update ==
    /\ phase = "update" /\ i <= N
    /\ i' = i + 1
    /\ IF i \in moving
       THEN Move(i, Plus(pos[i], 1))
       ELSE UNCHANGED <<pos, at, updated>>
    /\ UNCHANGED <<phase, moving, parent>>

(* Colliders::resolve_collisions(), for one of two entities with colliders.*)
resolve_collisions(e, d) ==
    /\ phase = "resolve" /\ at[e] # None
    /\ Move(e, Plus(pos[e], d))
    /\ UNCHANGED <<phase, i, moving, parent>>

(* Entities::update_children(), for one entity. *)
update_children ==
    /\ phase = "children" /\ i <= N
    /\ i' = i + 1
    /\ at' = IF parent[i] # None /\ parent[i] \in updated
             THEN Placed(i, pos[i], parent[i]) ELSE at
    /\ UNCHANGED <<phase, pos, moving, parent, updated>>

(* Renderers::update(), which reads the positions, and clear_flags(). *)
clear_flags ==
    /\ phase = "draw"
    /\ phase' = "scripts"
    /\ i' = 1
    /\ updated' = {}
    /\ UNCHANGED <<pos, moving, parent, at>>

(* loop() ends: at the request of a script or the user, or by an error.    *)
end ==
    /\ phase \in {"scripts", "check", "callbacks", "draw"}
    /\ phase' = "ended"
    /\ UNCHANGED <<i, pos, moving, parent, updated, at>>

FrameNext ==
    \/ \E e \in Bodies :
        \/ \E x \in Positions : set_pos(e, x) \/ resolve_collisions(e, x)
        \/ \E m \in BOOLEAN : set_vel(e, m)
        \/ \E q \in (Bodies \ {e}) \cup {None} : set_parent(e, q)
        \/ set_component(e)
    \/ \E to \in Phases : proceed(to)
    \/ update
    \/ update_children
    \/ clear_flags
    \/ end

FrameSpec == FrameInit /\ [][FrameNext]_placement

-----------------------------------------------------------------------------
(* Properties.                                                             *)

InPlace(e) == at[e] \in {None, Place(pos[e], parent[e])}

(* What is drawn is where it should be, whoever moved it or its parent     *)
(* during the frame, in whatever order: scripts, velocities, collisions,   *)
(* callbacks.                                                              *)
Drawn == phase = "draw" => \A e \in Bodies : InPlace(e)

(* A component that is not in place is that of a child whose parent was    *)
(* moved in this frame and that update_children() has yet to visit: what   *)
(* collisions are checked with is never older than a frame.                *)
Behind == \A e \in Bodies :
    \/ InPlace(e)
    \/ /\ parent[e] # None /\ parent[e] \in updated
       /\ phase # "draw"
       /\ phase = "children" => i <= e

(* Whoever is not in place will be when it is drawn: inductive, unless     *)
(* LateComponents.                                                         *)
FrameInv == FrameTypeOK /\ Behind
=============================================================================
