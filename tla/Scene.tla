------------------------------- MODULE Scene --------------------------------
(***************************************************************************)
(* What is drawn in a frame: the main loop (NNGN::loop() in src/main.cpp)  *)
(* over the renderers, the animations, the box of text, the lights and the *)
(* camera.  Scripts change all of them, in any order, in two places: when  *)
(* input, tasks and commands are processed, and in callbacks of collisions *)
(* in the middle of a frame.  Changes are kept as flags, and what is drawn *)
(* follows only if all flags are set where they are needed, and none is    *)
(* cleared before what it stands for was done.                             *)
(*                                                                         *)
(* So that the instance is small, in one behavior scripts change one of    *)
(* the parts: others can not tell, except that the box of text follows the *)
(* size of the window, and lights the camera: these change with it.        *)
(***************************************************************************)
EXTENDS Renderers, Animations, Textbox, Lighting, Camera

CONSTANT Ops    \* bound: operations of scripts in each frame

(* There is something to choose from, the camera is among the positions    *)
(* lights are seen from, and looks have the frames of animated sprites.    *)
SceneAssumption ==
    /\ Ops \in Nat
    /\ IsFiniteSet(Speeds) /\ Speeds # {} /\ Values # {}
    /\ Positions # {} /\ Parameters # {} /\ Sizes # {}
    /\ Positions \subseteq Eyes
    /\ \A x \in Looks, t \in DOMAIN Tracks : \A k \in DOMAIN Tracks[t] :
        [x EXCEPT !.uv = <<t, k>>] \in {y \in Looks : y.uv = <<t, k>>}
ASSUME SceneAssumption

VARIABLES
    pc,             \* what the loop does next
    ops,            \* how many operations scripts have left
    busy,           \* the part they change
    dirty,          \* what graphics has to copy: set_camera_updated()...
    shown_view, shown_lights    \* what it has copied

gvars == <<dirty, shown_view, shown_lights>>
vars == <<rvars, anims, tvars, lvars, cvars, pc, ops, busy, gvars>>

Parts == {"renderers", "animations", "textbox", "lighting", "camera"}
Phases == {"scripts", "animate", "callbacks", "camera", "textbox", "renderers",
    "lighting", "draw", "vsync"}

SceneTypeOK ==
    /\ RenderersTypeOK /\ AnimationsTypeOK /\ TextboxTypeOK
    /\ LightingTypeOK /\ CameraTypeOK
    /\ pc \in Phases /\ ops \in 0..Ops /\ busy \in Parts
    /\ dirty \subseteq {"view", "lights"}

Init ==
    /\ RenderersInit /\ AnimationsInit /\ TextboxInit
    /\ LightingInit /\ CameraInit
    /\ view_pos = pos
    /\ pc = "scripts" /\ ops = Ops /\ busy \in Parts
    /\ dirty = {"view", "lights"}
    /\ shown_view = Nothing /\ shown_lights = Nothing

-----------------------------------------------------------------------------
(* Operations of scripts.                                                  *)

Script(part) ==
    /\ pc \in {"scripts", "callbacks"} /\ busy = part /\ ops > 0
    /\ ops' = ops - 1
    /\ UNCHANGED <<pc, busy>>

NotYet == <<0, 0>>  \* the texture of an animated sprite, before its first frame
Still(e) == e \notin Animated \/ e \notin Running

change_renderers ==
    /\ Script("renderers") \/ Script("animations")
    /\ UNCHANGED <<tvars, lvars, cvars, gvars>>
    /\ \/ /\ \/ \E e \in Entities, t \in Types, x \in Looks :
                    x.uv = NotYet /\ load(e, t, x)
             \/ \E p \in Live, x \in Looks : x.uv = At(p).look.uv /\ set_look(p, x)
          /\ UNCHANGED anims
       \/ \E p \in Live :       \* remove_entity()
            /\ remove(p)
            /\ IF Still(At(p).ent) THEN UNCHANGED anims
               ELSE remove_animation(At(p).ent)

change_drawing ==
    /\ Script("renderers")
    /\ UNCHANGED <<anims, tvars, lvars, cvars, gvars>>
    /\ \/ \E p \in Live : add_selection(p) \/ remove_selection(p)
       \/ \E b \in BOOLEAN :
            set_debug(b) \/ set_perspective(b) \/ set_zsprites(b)

change_animations ==
    /\ Script("animations")
    /\ UNCHANGED <<rvars, tvars, lvars, cvars, gvars>>
    /\ \E p \in Live :
        /\ p.type = "sprite" /\ At(p).ent \in Animated
        /\ \/ load_animation(At(p).ent)
           \/ \E t \in DOMAIN Tracks : set_track(At(p).ent, t)

change_textbox ==
    /\ Script("textbox")
    /\ UNCHANGED <<rvars, anims, lvars, gvars>>
    /\ \/ /\ \/ \E t \in Titles, s \in Texts : set_texts(t, s)
             \/ set_texts(<<>>, <<>>)
             \/ \E t \in Titles : set_title(t)
             \/ \E c \in 0..Len(str) : set_cur(c)
             \/ \E s \in Speeds : set_speed(s)
             \/ \E b \in BOOLEAN : set_monospaced(b)
          /\ UNCHANGED cvars
       \/ /\ \E z \in Sizes : set_screen(z)
          /\ UNCHANGED tvars

change_lighting ==
    /\ Script("lighting")
    /\ UNCHANGED <<rvars, anims, tvars, cvars, gvars>>
    /\ \/ \E e \in Owners, t \in LightTypes, v \in Values : add_light(e, t, v)
       \/ \E p \in LivePointers : remove_light(p)
       \/ \E p \in LivePointers, v \in Values : set_light(p, v)
       \/ sun_off
       \/ \E v \in Values : sun_on(v)
       \/ \E d \in 0..Day - 1 : set_time(d)
       \/ \E s \in Switches : switch(s)
       \/ \E v \in Values, n \in 0..1 : set_ambient(v, n)

change_camera ==
    /\ Script("camera")
    /\ UNCHANGED <<rvars, anims, tvars, lvars, gvars>>
    /\ \/ \E p \in Positions : set_pos(p)
       \/ \E x \in Parameters : set_parameter(x)
       \/ \E b \in BOOLEAN : set_acceleration(b)
       \/ \E z \in Sizes : set_screen(z)

(* set_graphics(): what the back end before it had is gone.  That for      *)
(* Vulkan copies everything in its first frame; that for OpenGL does not,  *)
(* and when lighting is disabled it is not told to.                        *)
replace_graphics ==
    /\ \E part \in Parts : Script(part)
    /\ \E d \in {{}, {"view", "lights"}} :
        /\ d = {} => "ENABLED" \in lflags
        /\ dirty' = d
    /\ shown_view' = Nothing /\ shown_lights' = Nothing
    /\ set_graphics
    /\ empty_textbox
    /\ set_screen(size)
    /\ UNCHANGED <<anims, lvars>>

-----------------------------------------------------------------------------
(* The frame.                                                              *)

Step(from, to) == pc = from /\ pc' = to /\ UNCHANGED <<ops, busy>>

(* animations.update(): the look of a sprite has its frame. *)
animate ==
    /\ Step("scripts", "animate")
    /\ \E dt \in Steps :
        \/ Running = {} /\ dt = Min(Steps) /\ UNCHANGED anims
        \/ Running # {} /\ update_animations(dt)
    /\ renderers' = [renderers EXCEPT !["sprite"] = [i \in DOMAIN @ |->
        LET e == @[i].ent IN
        IF e \notin Animated \/ e \notin Given THEN @[i]
        ELSE [@[i] EXCEPT !.updated = TRUE,
            !.look.uv = <<anims'[e].track, anims'[e].frame>>]]]
    /\ UNCHANGED <<rflags, debug, selections, chosen, buffers, debug_buffers,
        selection_buffer, tvars, lvars, cvars, gvars>>

(* check_collisions() and lua_on_collision() *)
collide ==
    /\ Step("animate", "callbacks")
    /\ UNCHANGED <<rvars, anims, tvars, lvars, cvars, gvars>>

move_camera ==
    /\ Step("callbacks", "camera")
    /\ tflags' = IF "SCREEN_UPDATED" \in cflags
        THEN tflags \cup {"SCREEN_UPDATED"} ELSE tflags
    /\ \E moved \in BOOLEAN :
        /\ update_camera(moved)
        /\ IF moved
           THEN update_view(pos') /\ dirty' = dirty \cup {"view"}
           ELSE UNCHANGED <<lvars, dirty>>
    /\ UNCHANGED <<rvars, anims, text, timer, speed, monospaced, layout,
        tbuffers, shown_view, shown_lights>>

write_text ==
    /\ Step("camera", "textbox")
    /\ \E dt \in Steps : update_textbox(dt, size)
    /\ UNCHANGED <<rvars, anims, lvars, cvars, gvars>>

(* renderers.update() and textbox.clear_updated() *)
write_buffers ==
    /\ Step("textbox", "renderers")
    /\ update_renderers /\ write_textbox
    /\ UNCHANGED <<anims, lvars, cvars, gvars>>

light ==
    /\ Step("renderers", "lighting")
    /\ \E lit \in BOOLEAN :
        /\ update_lighting(lit)
        /\ dirty' = IF lit THEN dirty \cup {"lights"} ELSE dirty
    /\ UNCHANGED <<rvars, anims, tvars, cvars, shown_view, shown_lights>>

(* Graphics::render() *)
draw ==
    /\ Step("lighting", "draw")
    /\ shown_view' = IF "view" \in dirty THEN matrices ELSE shown_view
    /\ shown_lights' = IF "lights" \in dirty THEN ubo ELSE shown_lights
    /\ dirty' = {}
    /\ UNCHANGED <<rvars, anims, tvars, lvars, cvars>>

(* Graphics::vsync(): another frame. *)
vsync ==
    /\ pc = "draw" /\ pc' = "scripts" /\ ops' = Ops
    /\ UNCHANGED <<rvars, anims, tvars, lvars, cvars, busy, gvars>>

frame ==
    \/ animate \/ collide \/ move_camera \/ write_text \/ write_buffers
    \/ light \/ draw \/ vsync

Next ==
    \/ change_renderers \/ change_drawing \/ change_animations
    \/ change_textbox \/ change_lighting \/ change_camera
    \/ replace_graphics
    \/ frame

(* The loop goes on; scripts need not do anything. *)
Spec == Init /\ [][Next]_vars /\ WF_vars(frame)

-----------------------------------------------------------------------------
(* What is checked when a frame has been drawn.                            *)

(* The buffers have the renderers that exist, as they are to be drawn, and *)
(* their outlines (flags of Renderers::update(), render.cpp:722); the text *)
(* and its box are those of now, for the window of now (textbox.cpp:41 and *)
(* main.cpp:254); shaders have the lights, the sun and the camera of now,  *)
(* its position for the lights and its matrices (light.cpp:161,            *)
(* camera.cpp:48).                                                         *)
Drawn ==
    pc = "draw" =>
        /\ BuffersMatch /\ DebugMatches
        /\ TextMatches(size)
        /\ LightsMatch(shown_lights) /\ ViewMatches(shown_view)

(* Sprites that are animated have the frame that is due, when they have    *)
(* had the time for one: a track may be set after they were updated.       *)
AnimationsMatch ==
    \A p \in Live :
        LET e == At(p).ent IN
        e \in Animated /\ ~Still(e) /\ ~anims[e].updated => At(p).look.uv = Due(e)

(* Selections follow what they select, render.cpp:706, and so do           *)
(* animations, while either is moved when others are removed.              *)
Followed == SceneTypeOK /\ (pc = "draw" => SelectionsMatch /\ AnimationsMatch)

(* A text that is left alone appears completely, textbox.cpp:41. *)
TextFinishes == <>[](ops = Ops) => <>[]finished
=============================================================================
