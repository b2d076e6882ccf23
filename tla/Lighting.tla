------------------------------ MODULE Lighting ------------------------------
(***************************************************************************)
(* Lights, the sun and what is computed from them (src/render/light.cpp,   *)
(* sun.cpp, src/lua/lib/light.lua).                                        *)
(*                                                                         *)
(* There are two arrays of lights.  A removal moves the last light of the  *)
(* array.  The light of the sun is a pointer into the first of them, and   *)
(* its direction is that of the sun.  update() computes everything again   *)
(* if anything has changed, and says whether it did.                       *)
(*                                                                         *)
(* A light is known by its name: that of its entity, or "sun".  Numbers    *)
(* are replaced by small sets: `val' is what else a light has.  The time   *)
(* of the sun, which gives its direction, is a number modulo a day.  The   *)
(* parameters of shadow maps are left out: once one is set everything is   *)
(* computed in every frame, as their flag is never cleared.                *)
(***************************************************************************)
EXTENDS Naturals, Sequences, SequencesExt

CONSTANTS
    Owners,     \* entities that may have a light
    LightTypes, \* which have an array
    MaxLights,  \* capacity of each array
    Values,     \* colors, positions...
    Eyes,       \* positions of the camera
    Day,        \* bound: the time of the sun is modulo this
    SunMoves    \* may a removal move the light of the sun?

LightingAssumption ==
    /\ "sun" \notin Owners
    /\ "dir" \in LightTypes /\ LightTypes \subseteq {"dir", "point"}
    /\ MaxLights \in Nat /\ Day \in Nat \ {0}
    /\ SunMoves \in BOOLEAN
ASSUME LightingAssumption

VARIABLES
    lights,         \* the arrays
    sun,            \* time, and whether it was updated
    sun_light,      \* m_sun_light: a position, or zero
    lflags,
    ambient,        \* its value, and how many animated values are left
    view_pos,
    ubo             \* m_ubo

lvars == <<lights, sun, sun_light, lflags, ambient, view_pos, ubo>>

Names == Owners \cup {"sun"}
Switches == {"ENABLED", "UPDATE_SUN"}
Changes == {"UPDATED", "VIEW_UPDATED"}
Zeroed == [n |-> "none"]

LightingTypeOK ==
    /\ \A t \in LightTypes :
        /\ Len(lights[t]) <= MaxLights
        /\ \A i \in DOMAIN lights[t] : lights[t][i] \in
            [name : Names, val : Values, dir : 0..Day, updated : BOOLEAN]
    /\ sun \in [time : 0..Day - 1, updated : BOOLEAN]
    /\ sun_light \in 0..MaxLights
    /\ lflags \subseteq Switches \cup Changes
    /\ ambient \in [w : Values, left : 0..1]
    /\ view_pos \in Eyes

LightingInit ==
    /\ lights = [t \in LightTypes |-> <<>>]
    /\ sun = [time |-> 0, updated |-> TRUE]
    /\ sun_light = 0
    /\ lflags = {"ENABLED", "UPDATE_SUN", "UPDATED"}
    /\ ambient = [w |-> CHOOSE v \in Values : TRUE, left |-> 0]
    /\ view_pos \in Eyes
    /\ ubo = Zeroed

LivePointers ==
    {p \in [type : LightTypes, i : 1..MaxLights] : p.i \in DOMAIN lights[p.type]}
LightAt(p) == lights[p.type][p.i]
Lit == {LightAt(p).name : p \in LivePointers}

-----------------------------------------------------------------------------
(* Operations of scripts.                                                  *)

NewLight(name, v) == [name |-> name, val |-> v, dir |-> Day, updated |-> TRUE]

(* add_light(), for an entity without one *)
add_light(e, t, v) ==
    /\ e \notin Lit
    /\ IF Len(lights[t]) = MaxLights THEN UNCHANGED <<lights, lflags>>
       ELSE /\ lights' = [lights EXCEPT ![t] = Append(@, NewLight(e, v))]
            /\ lflags' = lflags \cup {"UPDATED"}
    /\ UNCHANGED <<sun, sun_light, ambient, view_pos, ubo>>

RemovedLight(seq, i) ==
    IF i = Len(seq) THEN Front(seq)
    ELSE [Front(seq) EXCEPT ![i] = [Last(seq) EXCEPT !.updated = TRUE]]

(* The pointer to the light of the sun stays as it is: the light may not.  *)
remove_light(p) ==
    /\ p \in LivePointers /\ LightAt(p).name # "sun"
    /\ SunMoves \/ LightAt([p EXCEPT !.i = Len(lights[p.type])]).name # "sun"
    /\ lights' = [lights EXCEPT ![p.type] = RemovedLight(@, p.i)]
    /\ lflags' = lflags \cup {"UPDATED"}
    /\ UNCHANGED <<sun, sun_light, ambient, view_pos, ubo>>

(* Light::set_pos(), set_color()... and the animations of lights *)
set_light(p, v) ==
    /\ p \in LivePointers
    /\ lights' = [lights EXCEPT
        ![p.type][p.i] = [@ EXCEPT !.val = v, !.updated = TRUE]]
    /\ UNCHANGED <<sun, sun_light, lflags, ambient, view_pos, ubo>>

(* sun(false): remove_light() and set_sun_light(nil) *)
sun_off ==
    /\ sun_light # 0
    /\ lights' = [lights EXCEPT !["dir"] = RemovedLight(@, sun_light)]
    /\ lflags' = lflags \cup {"UPDATED"}
    /\ sun_light' = 0
    /\ UNCHANGED <<sun, ambient, view_pos, ubo>>

(* sun(true): when there is no place for its light, the script fails.      *)
sun_on(v) ==
    /\ sun_light = 0
    /\ sun' = [time |-> 0, updated |-> TRUE]
    /\ IF Len(lights["dir"]) = MaxLights
       THEN UNCHANGED <<lights, lflags, sun_light>>
       ELSE /\ lights' = [lights EXCEPT !["dir"] = Append(@, NewLight("sun", v))]
            /\ lflags' = lflags \cup {"UPDATED"}
            /\ sun_light' = Len(lights["dir"]) + 1
    /\ UNCHANGED <<ambient, view_pos, ubo>>

(* Sun::set_time() *)
set_time(d) ==
    /\ sun' = [time |-> d, updated |-> TRUE]
    /\ UNCHANGED <<lights, sun_light, lflags, ambient, view_pos, ubo>>

(* set_enabled(), set_update_sun().  set_shadows_enabled(), set_zsprites() *)
(* set what update() passes on, as set_ambient_light() does.               *)
switch(s) ==
    /\ lflags' = {"UPDATED"} \cup
        IF s \in lflags THEN lflags \ {s} ELSE lflags \cup {s}
    /\ UNCHANGED <<lights, sun, sun_light, ambient, view_pos, ubo>>

(* set_ambient_light() and set_ambient_anim(), which flags nothing *)
set_ambient(v, n) ==
    /\ ambient' = [w |-> v, left |-> n]
    /\ lflags' = lflags \cup IF v = ambient.w THEN {} ELSE {"UPDATED"}
    /\ UNCHANGED <<lights, sun, sun_light, view_pos, ubo>>

-----------------------------------------------------------------------------
(* A frame.                                                                *)

(* update_view() *)
update_view(eye) ==
    /\ view_pos' = eye
    /\ lflags' = lflags \cup {"VIEW_UPDATED"}
    /\ UNCHANGED <<lights, sun, sun_light, ambient, ubo>>

(* What shaders see of an array *)
Uniforms(seq) ==
    [i \in DOMAIN seq |->
        [name |-> seq[i].name, val |-> seq[i].val, dir |-> seq[i].dir]]

Computed(ls, w, eye) ==
    [n |-> "lights", lights |-> [t \in LightTypes |-> Uniforms(ls[t])],
        ambient |-> w, view_pos |-> eye]

(* Mutant: what moved is not asked of the camera. *)
ChangedView(new_sun, animated) ==
    \/ "UPDATED" \in lflags
    \/ new_sun.updated \/ animated
    \/ \E p \in LivePointers : LightAt(p).updated

Changed(new_sun, animated) ==
    \/ lflags \cap Changes # {}
    \/ new_sun.updated \/ animated
    \/ \E p \in LivePointers : LightAt(p).updated

(* Flags of lights are cleared before the light of the sun is turned,      *)
(* which sets its flag again.                                              *)
Turned(d) ==
    [t \in LightTypes |-> [i \in DOMAIN lights[t] |->
        IF t = "dir" /\ i = sun_light
        THEN [lights[t][i] EXCEPT !.dir = d, !.updated = TRUE]
        ELSE [lights[t][i] EXCEPT !.updated = FALSE]]]

(* update(): whether anything was computed is `lit'. *)
Disabled(lit) ==
    /\ "ENABLED" \notin lflags
    /\ lit = ("UPDATED" \in lflags \/ sun.updated)
    /\ ubo' = IF lit THEN Zeroed ELSE ubo
    /\ lflags' = lflags \ {"UPDATED"}
    /\ UNCHANGED <<lights, sun, sun_light, ambient, view_pos>>

Enabled(lit, w) ==
    LET animated == ambient.left > 0
        moves == sun_light # 0 /\ "UPDATE_SUN" \in lflags
        new == IF moves THEN [time |-> (sun.time + 1) % Day, updated |-> TRUE]
               ELSE sun
    IN  /\ "ENABLED" \in lflags
        /\ animated \/ w = ambient.w
        /\ ambient' = [w |-> w, left |-> 0]
        /\ lit = Changed(new, animated)
        /\ sun' = [new EXCEPT !.updated = @ /\ ~lit]
        /\ IF lit
           THEN /\ lflags' = lflags \ {"UPDATED", "VIEW_UPDATED"}
                /\ lights' = Turned(new.time)
                /\ ubo' = Computed(lights', w, view_pos)
           ELSE UNCHANGED <<lflags, lights, ubo>>
        /\ UNCHANGED <<sun_light, view_pos>>

update_lighting(lit) ==
    Disabled(lit) \/ \E w \in Values : Enabled(lit, w)

-----------------------------------------------------------------------------
(* After update(): `shown' is what the graphics back end has.              *)

(* What was computed is what there is now: the direction of the sun is     *)
(* given to the light of the sun, if there is one, and to no other.        *)
LightsMatch(shown) ==
    IF "ENABLED" \notin lflags THEN shown = Zeroed
    ELSE /\ shown = Computed(lights, ambient.w, view_pos)
         /\ \A p \in LivePointers :
            IF LightAt(p).name = "sun" THEN LightAt(p).dir = sun.time
            ELSE LightAt(p).dir = Day
=============================================================================
