----------------------------- MODULE Renderers -----------------------------
(***************************************************************************)
(* Renderers and the buffers they are written to (src/render/render.cpp).  *)
(*                                                                         *)
(* There is one array of renderers for each type.  Nothing is written when *)
(* a script changes a renderer or the way all are drawn: flags are set, of *)
(* the renderer or of the array, and once in a frame update() writes the   *)
(* buffers of the arrays that have one.  What a buffer holds is a sequence *)
(* of what is drawn, not vertices; src/render/gen.h computes these from    *)
(* the data of a renderer and from the projection.                         *)
(*                                                                         *)
(* Buffers of colliders, lights and shadow maps, which are written in all  *)
(* frames, are left out, as are failures of the graphics back end, which   *)
(* end the program.                                                        *)
(***************************************************************************)
EXTENDS Naturals, Sequences, SequencesExt, FiniteSets

CONSTANTS
    Entities,
    Types,          \* types that are used
    MaxRenderers,   \* bound: capacity of each array
    Looks,          \* what is drawn of a renderer: position, texture...
    SelectionsMove  \* may a removal move a renderer that is selected?

AllTypes == {"sprite", "screen_sprite", "translucent", "cube", "voxel"}
DebugTypes == {"sprite", "screen_sprite", "cube", "voxel"}

RenderersAssumption ==
    /\ Types \subseteq AllTypes
    /\ MaxRenderers \in Nat
    /\ SelectionsMove \in BOOLEAN
ASSUME RenderersAssumption

VARIABLES
    renderers,          \* arrays, by type
    rflags,             \* flags of Renderers
    debug,              \* DEBUG_RENDERERS
    selections,         \* pointers: types and positions
    chosen,             \* history: the entities whose renderers are selected
    buffers,            \* what was written for each type
    debug_buffers,
    selection_buffer    \* what is drawn, and the number of quads not written

rvars == <<renderers, rflags, debug, selections, chosen, buffers,
    debug_buffers, selection_buffer>>

ArrayFlags == Types     \* SPRITES_UPDATED...
Flags == ArrayFlags \cup {"DEBUG", "SELECTION", "PERSPECTIVE", "ZSPRITES"}
Pointers == [type : Types, i : 1..MaxRenderers]

RenderersTypeOK ==
    /\ \A t \in Types :
        /\ Len(renderers[t]) <= MaxRenderers
        /\ \A i \in DOMAIN renderers[t] :
            renderers[t][i] \in [ent : Entities, look : Looks, updated : BOOLEAN]
    /\ rflags \subseteq Flags
    /\ debug \in BOOLEAN
    /\ selections \subseteq Pointers
    /\ chosen \subseteq Entities

RenderersInit ==
    /\ renderers = [t \in Types |-> <<>>]
    /\ rflags = {} /\ debug = FALSE
    /\ selections = {} /\ chosen = {}
    /\ buffers = [t \in Types |-> <<>>]
    /\ debug_buffers = [t \in Types \cap DebugTypes |-> <<>>]
    /\ selection_buffer = [drawn |-> {}, unwritten |-> 0]

Live == {p \in Pointers : p.i \in DOMAIN renderers[p.type]}
At(p) == renderers[p.type][p.i]
EntitiesOf(ps) == {At(p).ent : p \in ps}

-----------------------------------------------------------------------------
(* Operations of scripts.                                                  *)

(* Renderers::load() and Entity::set_renderer(), for an entity without a   *)
(* renderer.                                                               *)
load(e, t, x) ==
    /\ e \notin EntitiesOf(Live)
    /\ Len(renderers[t]) < MaxRenderers
    /\ renderers' = [renderers EXCEPT
        ![t] = Append(@, [ent |-> e, look |-> x, updated |-> TRUE])]
    /\ UNCHANGED <<rflags, debug, selections, chosen, buffers, debug_buffers,
        selection_buffer>>

(* The last renderer takes the place of the one that is removed. *)
Removed(seq, i) ==
    IF i = Len(seq) THEN Front(seq)
    ELSE [Front(seq) EXCEPT ![i] = [Last(seq) EXCEPT !.updated = TRUE]]

(* Mutant: the array is not flagged. *)
remove_unflagged(p) ==
    LET n == Len(renderers[p.type]) IN
    /\ p \in Live
    /\ SelectionsMove \/ p.i = n \/ [p EXCEPT !.i = n] \notin selections
    /\ renderers' = [renderers EXCEPT ![p.type] = Removed(@, p.i)]
    /\ selections' = selections \ {p}
    /\ chosen' = chosen \ {At(p).ent}
    /\ UNCHANGED <<rflags, debug, buffers, debug_buffers, selection_buffer>>

(* Renderers::remove().  A selection is a pointer: that of the renderer    *)
(* that is moved is not.                                                   *)
remove(p) ==
    LET n == Len(renderers[p.type]) IN
    /\ p \in Live
    /\ SelectionsMove \/ p.i = n \/ [p EXCEPT !.i = n] \notin selections
    /\ renderers' = [renderers EXCEPT ![p.type] = Removed(@, p.i)]
    /\ rflags' = rflags \cup {p.type}
    /\ selections' = selections \ {p}
    /\ chosen' = chosen \ {At(p).ent}
    /\ UNCHANGED <<debug, buffers, debug_buffers, selection_buffer>>

(* Renderer::set_pos(), and animations. *)
set_look(p, x) ==
    /\ p \in Live
    /\ renderers' = [renderers EXCEPT
        ![p.type][p.i] = [@ EXCEPT !.look = x, !.updated = TRUE]]
    /\ UNCHANGED <<rflags, debug, selections, chosen, buffers, debug_buffers,
        selection_buffer>>

(* Only sprites are selected (src/lua/lib/player.lua); the quads of others *)
(* are counted, but not written.                                           *)
add_selection(p) ==
    /\ p \in Live /\ p.type = "sprite"
    /\ selections' = selections \cup {p}
    /\ chosen' = chosen \cup {At(p).ent}
    /\ rflags' = rflags \cup {"SELECTION"}
    /\ UNCHANGED <<renderers, debug, buffers, debug_buffers, selection_buffer>>

remove_selection(p) ==
    /\ p \in Live /\ p.type = "sprite"
    /\ selections' = selections \ {p}
    /\ chosen' = chosen \ {At(p).ent}
    /\ rflags' = rflags \cup {"SELECTION"}
    /\ UNCHANGED <<renderers, debug, buffers, debug_buffers, selection_buffer>>

set_debug(d) ==
    /\ debug' = d
    /\ rflags' = IF d = debug THEN rflags ELSE rflags \cup {"DEBUG"}
    /\ UNCHANGED <<renderers, selections, chosen, buffers, debug_buffers,
        selection_buffer>>

Set(flag, b) == IF b THEN rflags \cup {flag} ELSE rflags \ {flag}

(* Voxels are not flagged, although they are drawn in perspective too. *)
Reprojected == ArrayFlags \cap {"sprite", "translucent", "cube"}

set_perspective(b) ==
    /\ rflags' = Set("PERSPECTIVE", b) \cup Reprojected
    /\ UNCHANGED <<renderers, debug, selections, chosen, buffers,
        debug_buffers, selection_buffer>>

set_zsprites(b) ==
    /\ rflags' = Set("ZSPRITES", b) \cup
        IF b = ("ZSPRITES" \in rflags) THEN {} ELSE Reprojected
    /\ UNCHANGED <<renderers, debug, selections, chosen, buffers,
        debug_buffers, selection_buffer>>

(* set_graphics(): buffers of the new back end are empty.  Nothing is      *)
(* flagged, so this is for a program that has no renderers yet.            *)
set_graphics ==
    /\ Live = {}
    /\ buffers' = [t \in Types |-> <<>>]
    /\ debug_buffers' = [t \in Types \cap DebugTypes |-> <<>>]
    /\ selection_buffer' = [drawn |-> {}, unwritten |-> 0]
    /\ UNCHANGED <<renderers, rflags, debug, selections, chosen>>

-----------------------------------------------------------------------------
(* Renderers::update().                                                    *)

Projection(t) ==
    IF t = "screen_sprite" THEN "screen"
    ELSE IF t \in {"sprite", "translucent"} /\ "ZSPRITES" \in rflags
        THEN "orthoz"
    ELSE IF "PERSPECTIVE" \in rflags THEN "persp" ELSE "ortho"

(* Gen::sprite_ortho() and others *)
Generated(t) ==
    [i \in DOMAIN renderers[t] |->
        [look |-> renderers[t][i].look, proj |-> Projection(t)]]

(* Gen::sprite_debug() and others: debug information is not projected. *)
Outlines(t) == [i \in DOMAIN renderers[t] |-> renderers[t][i].look]

(* The first that applies: short-circuits, as no write fails. *)
Updated(t) ==
    t \in rflags \/ \E i \in DOMAIN renderers[t] : renderers[t][i].updated

Written ==
    [t \in Types |-> IF Updated(t) THEN Generated(t) ELSE buffers[t]]

Cleared ==
    [t \in Types |-> [i \in DOMAIN renderers[t] |->
        [renderers[t][i] EXCEPT !.updated = FALSE]]]

WrittenDebug ==
    [t \in Types \cap DebugTypes |->
        IF ~("DEBUG" \in rflags \/ Updated(t)) THEN debug_buffers[t]
        ELSE IF debug THEN Outlines(t) ELSE <<>>]

Sprites(ps) == {p \in ps \cap Live : p.type = "sprite"}

(* Mutant: as if they had been flagged for this frame only. *)
SelectionOnce ==
    IF "SELECTION" \notin rflags \/ ~\E t \in Types : t \in rflags
    THEN selection_buffer
    ELSE [drawn |-> {[ent |-> At(p).ent, look |-> At(p).look] :
            p \in Sprites(selections)},
        unwritten |-> Cardinality(selections \ Sprites(selections))]

(* The flag is not cleared: selections follow what they select. *)
WrittenSelection ==
    IF "SELECTION" \notin rflags THEN selection_buffer
    ELSE [drawn |-> {[ent |-> At(p).ent, look |-> At(p).look] :
            p \in Sprites(selections)},
        unwritten |-> Cardinality(selections \ Sprites(selections))]

update_renderers ==
    /\ renderers' = Cleared
    /\ rflags' = rflags \ (ArrayFlags \cup {"DEBUG"})
    /\ buffers' = Written
    /\ debug_buffers' = WrittenDebug
    /\ selection_buffer' = WrittenSelection
    /\ UNCHANGED <<debug, selections, chosen>>

-----------------------------------------------------------------------------
(* After update().                                                         *)

(* What is drawn is what there is, in the way it is to be drawn now; of    *)
(* voxels only the former, see set_perspective().                          *)
Look(t, seq) == IF t = "voxel" THEN [i \in DOMAIN seq |-> seq[i].look] ELSE seq
BuffersMatch == \A t \in Types : Look(t, buffers[t]) = Look(t, Generated(t))

(* Outlines are drawn of all renderers, or of none. *)
DebugMatches ==
    \A t \in Types \cap DebugTypes :
        debug_buffers[t] = IF debug THEN Outlines(t) ELSE <<>>

(* The selection is drawn around the entities that were selected, where    *)
(* they are now, although it is kept as a set of pointers into arrays in   *)
(* which renderers are moved.                                              *)
SelectionsMatch ==
    /\ selection_buffer.unwritten = 0
    /\ selection_buffer.drawn = {[ent |-> At(p).ent, look |-> At(p).look] :
        p \in {q \in Live : At(q).ent \in chosen}}
=============================================================================
