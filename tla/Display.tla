------------------------------ MODULE Display -------------------------------
(***************************************************************************)
(* What scripts and other parts give to a back end of the graphics, which  *)
(* the window has to show, as it is now, with each frame.                  *)
(*                                                                         *)
(* Images are sequences of what was drawn since they were cleared, each    *)
(* drawing with the values of all it was made from.  There is one object   *)
(* in each list that is drawn, and a number for what it is.                *)
(***************************************************************************)
EXTENDS Naturals, Sequences, SequencesExt, FiniteSets

CONSTANT MaxLights  \* NNGN_MAX_LIGHTS

DrawingsAssumption == MaxLights \in Nat \ {0}
ASSUME DrawingsAssumption

Nobody == "none"
Undefined == <<[of |-> "undefined"]>>
Maps == <<[of |-> "maps"]>>     \* of the maps of shadows, only that it is them
Picture(v) == <<[of |-> "picture", v |-> v]>>
MapSize == <<1, 1>>

NamesOf(i) == [k \in DOMAIN i |-> i[k].of]

(* The programs of pipelines (src/glsl/).  Programs that write depth only  *)
(* have no lights, and no color.                                           *)
Drawing(of, value, pipe, view, lights, tex, shadows, alpha, behind, at) ==
    [of |-> of, value |-> value, view |-> view,
     tex |-> IF pipe.textured THEN tex ELSE <<>>,
     lights |-> IF pipe.lit THEN lights ELSE <<>>,
     shadows |-> IF pipe.lit THEN shadows ELSE <<>>,
     alpha |-> IF pipe.type = "TRIANGLE" THEN alpha ELSE "1",
     behind |-> IF pipe.test THEN behind ELSE <<>>,    \* what may hide it
     at |-> at]

-----------------------------------------------------------------------------
(* Cameras and lights. *)

NoLights == [n_dir |-> 0, n_point |-> 0, shadows |-> FALSE, v |-> 0]
World(v) == [of |-> "world", v |-> v]
Screen(s) == [of |-> "screen", v |-> s]
DirView(i, v) == [of |-> "dir", v |-> <<i, v>>]
PointView(i, f, v) == [of |-> "point", v |-> <<i, f, v>>]

Looks == <<"+x", "-x", "-y", "+y", "+z", "-z">>     \* Light::persp_view()
Faces == <<"+x", "-x", "+y", "-y", "+z", "-z">>     \* of cubes

-----------------------------------------------------------------------------
(* Pipelines and lists (Renderers::set_graphics()). *)

Pipeline(type, test, textured, lit) ==
    [type |-> type, test |-> test, write |-> test, textured |-> textured, lit |-> lit]

sprite_depth == Pipeline("SPRITE_DEPTH", TRUE, TRUE, FALSE)
triangle == Pipeline("TRIANGLE", TRUE, FALSE, TRUE)
sprite == Pipeline("SPRITE", TRUE, TRUE, TRUE)
circle == Pipeline("SPRITE", FALSE, TRUE, TRUE)
box == Pipeline("TRIANGLE", FALSE, FALSE, TRUE)
font == Pipeline("FONT", FALSE, TRUE, FALSE)

Entry(list, pipe, of) == [vao |-> <<list, of>>, pipe |-> pipe, of |-> of]

Objects == {"map", "cubes", "sprites", "translucent", "selection", "triangle",
    "text", "depth"}

RenderList == [
    depth |-> <<Entry("depth", sprite_depth, "sprites")>>,
    map_ortho |-> <<Entry("map_ortho", circle, "map")>>,
    map_persp |-> <<Entry("map_persp", sprite, "map")>>,
    normal |-> <<Entry("normal", triangle, "cubes"), Entry("normal", sprite, "sprites")>>,
    no_light |-> <<Entry("no_light", sprite, "translucent")>>,
    overlay |-> <<Entry("overlay", box, "selection")>>,
    screen |-> <<Entry("screen", box, "triangle"), Entry("screen", font, "text")>>,
    shadow_maps |-> <<Entry("shadow_maps", circle, "depth")>>]

-----------------------------------------------------------------------------
(* Folds the sequence, from its first element on: with the choice from one *)
(* value, TLC evaluates each step before the next.                         *)
InOrder(Op(_, _), first, seq) ==
    LET at[k \in 0..Len(seq)] ==
            IF k = 0 THEN first
            ELSE CHOOSE y \in {Op(x, seq[k]) : x \in {at[k - 1]}} : TRUE
    IN  at[Len(seq)]

-----------------------------------------------------------------------------
(* What scripts and other parts give.                                      *)

CONSTANTS
    Sizes,      \* of the window
    Versions,   \* bound: of what is drawn, from 1; 0 is nothing
    Views,      \* of cameras
    Lamps       \* lights

DisplayAssumption ==
    /\ Sizes \subseteq (Nat \ {0, 1}) \X (Nat \ {0, 1}) /\ Sizes # {}
    /\ Versions \subseteq Nat \ {0} /\ 1 \in Versions
    /\ Views \subseteq [v : Nat, persp : BOOLEAN] /\ Views # {}
    /\ Lamps \subseteq
        [n_dir : 0..MaxLights, n_point : 0..MaxLights, shadows : BOOLEAN, v : Nat]
    /\ \E l \in Lamps : l.shadows
ASSUME DisplayAssumption

VARIABLES
    size, view, lamps,      \* of now: window, camera, lights
    pictures,               \* of now: images of textures and of the font
    objects,                \* of now: index buffers
    fresh,      \* history: nothing was changed since the last frame
    part        \* what scripts change in this behavior

inputs == <<size, view, lamps, pictures, objects>>
displayvars == <<inputs, fresh, part>>

Shadowed == CHOOSE l \in Lamps : l.shadows

-----------------------------------------------------------------------------
(* What the window has to show, of the values of now.                      *)

(* The map is drawn first, and does not hide anything if all is flat.      *)
Hiding(i) ==
    IF view.persp \/ i = <<>> \/ i[1].of # "map" THEN NamesOf(i) ELSE Tail(NamesOf(i))

Expected(list, v, lights, shadows, alpha, tex, i) ==
    InOrder(LAMBDA j, x :
        IF objects[x.of] = 0 THEN j
        ELSE Append(j, Drawing(x.of, objects[x.of], x.pipe, v, lights,
            IF tex # <<>> THEN tex
            ELSE pictures[IF x.pipe.type = "FONT" THEN "font" ELSE "tex"],
            shadows, alpha, Hiding(j), size)),
        i, list)

ExpectedDepth(v) ==
    LET x == RenderList.depth[1]
    IN  IF objects[x.of] = 0 THEN <<>>
        ELSE <<Drawing(x.of, objects[x.of], x.pipe, v, NoLights, pictures["tex"],
            <<>>, "1", <<>>, MapSize)>>

ExpectedShadows ==
    IF ~lamps.shadows THEN <<>>
    ELSE <<[i \in 1..lamps.n_dir |-> ExpectedDepth(DirView(i, lamps.v))],
        [x \in (1..lamps.n_point) \X (1..6) |->
            ExpectedDepth(PointView(x[1], Faces[x[2]], lamps.v))]>>

ExpectedScene ==
    LET map == IF view.persp THEN RenderList.map_persp ELSE RenderList.map_ortho
        lit == Expected(map \o RenderList.normal, World(view.v), lamps,
            ExpectedShadows, "1", <<>>, <<>>)
    IN  Expected(RenderList.no_light, World(view.v), NoLights, <<>>, "1", <<>>, lit)

ExpectedOverlay(i) ==
    LET all(list, v, tex, j) == Expected(list, v, NoLights, <<>>, "1/2", tex, j)
    IN  all(RenderList.shadow_maps, Screen(size), Maps,
            all(RenderList.screen, Screen(size), <<>>,
                all(RenderList.overlay, World(view.v), <<>>, i)))
=============================================================================
