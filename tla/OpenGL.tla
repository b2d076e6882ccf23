------------------------------- MODULE OpenGL -------------------------------
(***************************************************************************)
(* The OpenGL back end (src/graphics/opengl/opengl.cpp): its operations    *)
(* are commands for a context, which keeps what they bind.  Most of them   *)
(* rely on what others have left, in the same frame or in one before.      *)
(*                                                                         *)
(* Post-processing (src/graphics/opengl/post.cpp, post.h): if any effect   *)
(* is enabled, the frame is drawn to a texture, and from there to the      *)
(* window by passes that read some textures and write others.  Parameters  *)
(* that are numbers are either zero, which disables an effect, or not;     *)
(* those of passes and of the reduction of sizes are numbers.              *)
(*                                                                         *)
(* Calls succeed; errors end the program.                                  *)
(***************************************************************************)
EXTENDS GL

CONSTANTS
    Early,      \* may effects be enabled before the window was resized?
    Overlays,   \* may there be objects in the list of overlays?
    MapsMove    \* may textures be loaded after new shadow maps, before a frame?

OpenGLAssumption == {Early, Overlays, MapsMove} \subseteq BOOLEAN
ASSUME OpenGLAssumption

VARIABLES
    gl,         \* the context
    post,       \* GLPost
    glflags,    \* RESIZED, CAMERA_UPDATED, LIGHTING_UPDATED
    vaos,       \* vertex arrays that were created
    adapted     \* history: frames the exposure has adapted to, modulo 2

glvars == <<gl, post, glflags, vaos, adapted>>

VAOs == UNION {{RenderList[l][i].vao : i \in DOMAIN RenderList[l]} :
    l \in DOMAIN RenderList}

-----------------------------------------------------------------------------
(* Post-processing: GLPost.                                                *)

PostInit ==
    [hdr |-> FALSE, bloom |-> FALSE, bloom_passes |-> 1, blur_passes |-> 0,
     automatic |-> FALSE, bloom_downscale |-> 2, blur_downscale |-> 1,
     size |-> <<0, 0>>, flags |-> {}]

bloom_enabled(p) == p.bloom
blur_enabled(p) == p.blur_passes # 0
enabled(p) == p.hdr \/ bloom_enabled(p) \/ blur_enabled(p)

BitFloor(n) == CHOOSE b \in {2 ^ i : i \in 0..n} : b <= n /\ n < 2 * b
Half(s) == <<BitFloor(s[1]) \div 2, BitFloor(s[2]) \div 2>>
Divided(s, n) == <<s[1] \div n, s[2] \div n>>
BloomSize(p) == Divided(p.size, p.bloom_downscale)
BlurSize(p) == Divided(p.size, p.blur_downscale)

Resized(p, s) == [p EXCEPT !.size = s, !.flags = @ \cup {"SIZE"}]

-----------------------------------------------------------------------------
(* init() and set_automatic_exposure(). *)

Darkest == <<[of |-> "darkest"]>>

SetExposure == <<
    BindTexture("PLAIN", "last"), TexImage("PLAIN", Darkest),
    BindTexture("PLAIN", "res"), TexImage("PLAIN", Darkest)>>

InitPost ==
    <<NewTexture("last"), NewTexture("res"),
      BindTexture("PLAIN", "res"), BindTexture("PLAIN", "last")>>
    \o SetExposure
    \o <<BindFramebuffer("res_fb"), Attach("COLOR", "res", 0)>>
    \o <<BindVertexArray(PostVAO), BindElements("post"), BindVertexArray(NoVAO)>>

-----------------------------------------------------------------------------
(* update(): what depends on a size is created again.                      *)

InitTexture(t) == <<NewTexture(t), BindTexture("PLAIN", t)>>
InitFramebuffer(f, t) ==
    <<NewFramebuffer(f), BindFramebuffer(f), Attach("COLOR", t, 0)>>

InitScreen ==
    InitTexture("color") \o InitTexture("depth")
    \o InitTexture("luminance0") \o InitTexture("luminance1")
    \o InitFramebuffer("color_fb", "color") \o <<Attach("DEPTH", "depth", 0)>>
    \o InitFramebuffer("luminance_fb0", "luminance0")
    \o InitFramebuffer("luminance_fb1", "luminance1")

InitBloom ==
    InitTexture("bloom0") \o InitTexture("bloom1")
    \o InitFramebuffer("bloom_fb0", "bloom0")
    \o InitFramebuffer("bloom_fb1", "bloom1")

InitBlur ==
    InitTexture("blur0") \o InitTexture("blur1")
    \o InitFramebuffer("blur_fb0", "blur0") \o InitFramebuffer("blur_fb1", "blur1")

UpdatePost(p) ==
    LET all == "SIZE" \in p.flags
    IN  (IF all THEN InitScreen ELSE <<>>)
        \o (IF all \/ "BLOOM" \in p.flags THEN InitBloom ELSE <<>>)
        \o (IF all \/ "BLUR" \in p.flags THEN InitBlur ELSE <<>>)

(* bind_frame_buffer(): before the window had a size, there is none yet.   *)
BindOutput(p) ==
    BindFramebuffer(IF enabled(p) /\ p.size # <<0, 0>> THEN "color_fb" ELSE Window)

-----------------------------------------------------------------------------
(* render() *)

(* calc_avg_luminance(): the image is halved until one pixel is left, each *)
(* time from one of two textures to the other.                             *)
Smaller(n) == IF n > 1 THEN n \div 2 ELSE 1

Halvings[from \in Nat \X Nat, to \in Nat \X Nat, k \in 0..1] ==
    IF from[1] <= 2 /\ from[2] <= 2 THEN [commands |-> <<>>, last |-> k]
    ELSE LET next == <<Smaller(to[1]), Smaller(to[2])>>
             fb == <<"luminance_fb0", "luminance_fb1">>
             rest == Halvings[to, next, 1 - k]
         IN  [rest EXCEPT !.commands =
                <<BindReadDraw(fb[k + 1], fb[2 - k]), Blit(to, next)>> \o @]

Luminance(p) ==
    LET h == Halvings[p.size, Half(p.size), 0]
    IN  IF ~(enabled(p) /\ p.automatic) THEN <<>>
        ELSE <<BindReadDraw("res_fb", "res_fb"),
               BindTexture("PLAIN", "last"), CopyTexImage("PLAIN"),
               BindReadDraw("color_fb", "luminance_fb0"), Blit(p.size, Half(p.size))>>
            \o h.commands
            \o <<BindFramebuffer("res_fb"),
                 ActiveTexture(0), BindTexture("PLAIN", "last"),
                 ActiveTexture(1),
                 BindTexture("PLAIN", <<"luminance0", "luminance1">>[h.last + 1]),
                 Viewport(<<1, 1>>), BindVertexArray(PostVAO),
                 Pass([of |-> "luminance"])>>

Repeated(n, commands) == FlattenSeq([i \in 1..n |-> commands])

(* Mutant: only the first pass reads the first texture. *)
BlurPassesFrom(n, name) ==
    LET t == IF name = "bloom" THEN <<"bloom0", "bloom1">> ELSE <<"blur0", "blur1">>
        f == IF name = "bloom" THEN <<"bloom_fb0", "bloom_fb1">>
             ELSE <<"blur_fb0", "blur_fb1">>
    IN  <<BindTexture("PLAIN", t[1])>> \o Repeated(n, <<
            BindFramebuffer(f[2]), Pass([of |-> "blur", dir |-> "x"]),
            BindTexture("PLAIN", t[2]), BindFramebuffer(f[1]),
            Pass([of |-> "blur", dir |-> "y"])>>)

BlurPasses(n, name) ==
    LET t == IF name = "bloom" THEN <<"bloom0", "bloom1">> ELSE <<"blur0", "blur1">>
        f == IF name = "bloom" THEN <<"bloom_fb0", "bloom_fb1">>
             ELSE <<"blur_fb0", "blur_fb1">>
    IN  Repeated(n, <<
            BindTexture("PLAIN", t[1]), BindFramebuffer(f[2]),
            Pass([of |-> "blur", dir |-> "x"]),
            BindTexture("PLAIN", t[2]), BindFramebuffer(f[1]),
            Pass([of |-> "blur", dir |-> "y"])>>)

Bloom(p) ==
    IF ~bloom_enabled(p) THEN <<>>
    ELSE <<BindFramebuffer("bloom_fb0"), Viewport(BloomSize(p)),
           ActiveTexture(1), BindTexture("PLAIN", Nobody),
           ActiveTexture(0), BindTexture("PLAIN", "color"),
           BindVertexArray(PostVAO), Pass([of |-> "bright"])>>
        \o BlurPasses(p.bloom_passes, "bloom")

Blur(p) ==
    IF ~blur_enabled(p) THEN <<>>
    ELSE <<ActiveTexture(0), BindTexture("PLAIN", "color"),
           BindReadDraw("color_fb", "blur_fb0"), Blit(p.size, BlurSize(p)),
           Viewport(BlurSize(p)), BindVertexArray(PostVAO)>>
        \o BlurPasses(p.blur_passes, "blur")
        \o <<BindReadDraw("blur_fb0", "color_fb"), Blit(BlurSize(p), p.size)>>

HDR(p) ==
    IF ~enabled(p) THEN <<>>
    ELSE <<BindFramebuffer(Window), Viewport(p.size), Clear({"COLOR"}),
           ActiveTexture(0), BindTexture("PLAIN", "color"),
           ActiveTexture(1), BindTexture("PLAIN", "bloom0"),
           ActiveTexture(2), BindTexture("PLAIN", "res"),
           BindVertexArray(PostVAO),
           Pass([of |-> "hdr", bloom |-> bloom_enabled(p), mix |-> p.hdr])>>

RenderPost(p) == Luminance(p) \o Bloom(p) \o Blur(p) \o HDR(p)

-----------------------------------------------------------------------------
(* init_instance(). *)

ShadowUBO(k) == <<"shadow", k>>
UBOs == {<<n, 0>> : n \in {"camera", "screen", "lights", "no_lights"}}
    \cup {ShadowUBO(k) : k \in 0..(7 * MaxLights - 1)}

NewContext == [
    unit |-> 0,
    bound |-> [u \in Units |-> [PLAIN |-> Nobody, ARRAY |-> Nobody, CUBE |-> Nobody]],
    read |-> Window, draw |-> Window,
    attached |-> [f \in Framebuffers |->
        IF f # Window THEN [COLOR |-> Unattached, DEPTH |-> Unattached]
        ELSE [COLOR |-> On(Window, 0), DEPTH |-> On(Window, 1)]],
    image |-> [t \in Textures |-> [l \in Layers |-> Undefined]],
    binding |-> [b \in {"CAMERA", "LIGHTS"} |-> <<Nobody, 0>>],
    uniform |-> [b \in UBOs |-> NoLights],
    vao |-> NoVAO,
    elements |-> [v \in VAOs \cup {NoVAO, PostVAO} |-> Nobody],
    buffer |-> [b \in Objects \cup {Nobody} |-> 1],
    enabled |-> [BLEND |-> TRUE, DEPTH_TEST |-> FALSE],
    mask |-> TRUE, alpha |-> "0", viewport |-> <<0, 0>>]

(* Mutant: in whichever unit is active. *)
set_shadow_map_anywhere == <<
    NewTexture("shadow_map"), BindTexture("ARRAY", "shadow_map")>>

set_shadow_map == <<
    NewTexture("shadow_map"), ActiveTexture(2), BindTexture("ARRAY", "shadow_map")>>

set_shadow_cube ==
    [i \in 1..MaxLights |-> NewTexture(CubeNames[i])]
    \o FlattenSeq([i \in 1..MaxLights |->
        <<ActiveTexture(2 + i), BindTexture("CUBE", CubeNames[i])>>])

init_instance == set_shadow_map \o set_shadow_cube \o InitPost

OpenGLInit ==
    /\ part \in {"exposure", "blur", "lights", "textures", "objects"}
    /\ gl = Run(NewContext, init_instance)
    /\ post = PostInit
    /\ glflags = {"CAMERA", "LIGHTING"}     \* set before the first frame
    /\ vaos = {}
    /\ size = CHOOSE s \in Sizes : TRUE
    /\ view = CHOOSE v \in Views : TRUE
    /\ lamps = IF part \in {"textures", "objects"} THEN Shadowed
               ELSE NoLights
    /\ pictures = [t \in {"tex", "font"} |-> Undefined]
    /\ objects = [o \in Objects |->
        IF o = "depth" \/ (o = "selection" /\ ~Overlays) THEN 0 ELSE 1]
    /\ adapted = 0
    /\ fresh = FALSE

(* Without this back end, there is no context. *)
NoOpenGL ==
    gl = <<>> /\ post = <<>> /\ glflags = {} /\ vaos = {} /\ adapted = 0

-----------------------------------------------------------------------------
(* Between frames.                                                         *)

Changed(g) == gl' = g /\ fresh' = FALSE /\ UNCHANGED <<vaos, part>>

gl_resize(s) ==
    /\ part = "exposure" \/ s = size
    /\ size' = s
    /\ glflags' = glflags \cup {"RESIZED", "CAMERA"}
    /\ Changed(gl) /\ UNCHANGED <<post, view, lamps, pictures, objects, adapted>>

(* The camera and the lights: set_camera_updated(), set_lighting_updated() *)
set_camera_updated(v) ==
    /\ part = "objects" /\ view' = v
    /\ glflags' = glflags \cup {"CAMERA"}
    /\ Changed(gl) /\ UNCHANGED <<post, size, lamps, pictures, objects, adapted>>

set_lighting_updated(l) ==
    /\ part = "lights" /\ lamps' = l
    /\ glflags' = glflags \cup {"LIGHTING"}
    /\ Changed(gl) /\ UNCHANGED <<post, size, view, pictures, objects, adapted>>

set_shadow_map_size ==
    /\ part \in {"lights", "textures"}
    /\ Changed(Run(gl, set_shadow_map))
    /\ UNCHANGED <<post, glflags, inputs, adapted>>

set_shadow_cube_size ==
    /\ part \in {"lights", "textures"}
    /\ Changed(Run(gl, set_shadow_cube))
    /\ UNCHANGED <<post, glflags, inputs, adapted>>

(* set_HDR_mix(), set_bloom_*(), set_blur_*() *)
set_effects(p) ==
    /\ Early \/ post.size # <<0, 0>>
    /\ post' = p
    /\ Changed(gl) /\ UNCHANGED <<glflags, inputs, adapted>>

set_automatic_exposure(b) ==
    /\ part = "exposure" /\ post.automatic # b
    /\ post' = [post EXCEPT !.automatic = b]
    /\ adapted' = IF b THEN adapted ELSE 0
    /\ Changed(IF b THEN gl ELSE Run(gl, SetExposure))
    /\ UNCHANGED <<glflags, inputs>>

(* Nothing was bound since new maps: they stay in the unit they are read   *)
(* from.                                                                   *)
MapsStay == MapsMove \/ gl.unit # 2

(* The images are lost. *)
resize_pictures(t) ==
    /\ part = "textures" /\ MapsStay
    /\ pictures' = [pictures EXCEPT ![t] = Undefined]
    /\ Changed(Run(gl, <<NewTexture(t), BindTexture("ARRAY", t)>>))
    /\ UNCHANGED <<post, glflags, size, view, lamps, objects, adapted>>

load_pictures(t, v) ==
    /\ part = "textures" /\ MapsStay
    /\ pictures' = [pictures EXCEPT ![t] = Picture(v)]
    /\ Changed(Run(gl, <<BindTexture("ARRAY", t), TexImage("ARRAY", Picture(v))>>))
    /\ UNCHANGED <<post, glflags, size, view, lamps, objects, adapted>>

resize_textures == resize_pictures("tex")
load_textures(v) == load_pictures("tex", v)
resize_font == resize_pictures("font")
load_font(v) == load_pictures("font", v)

(* write_to_buffer(), set_buffer_size(): what is written goes through a    *)
(* buffer that is deleted afterwards.                                      *)
gl_write_to_buffer(o, v) ==
    /\ part = "objects"
    /\ objects' = [objects EXCEPT ![o] = v]
    /\ Changed(Run(gl, <<BindElements(Nobody), BufferData(o, v)>>))
    /\ UNCHANGED <<post, glflags, size, view, lamps, pictures, adapted>>

-----------------------------------------------------------------------------
(* render(): its state is the context, the texture it has bound last       *)
(* (cur_tex), and the vertex arrays that were created.                     *)

Do(r, commands) == [r EXCEPT !.g = Run(@, commands)]

update_camera ==
    IF "CAMERA" \notin glflags THEN <<>>
    ELSE <<UniformData(<<"camera", 0>>, World(view.v)),
           UniformData(<<"screen", 0>>, Screen(size))>>

update_lighting ==
    IF "LIGHTING" \notin glflags THEN <<>>
    ELSE <<UniformData(<<"lights", 0>>, lamps)>>
        \o [i \in 1..lamps.n_dir |-> UniformData(ShadowUBO(i - 1), DirView(i, lamps.v))]
        \o [k \in 1..6 * lamps.n_point |->
            LET i == ((k - 1) \div 6) + 1
                f == ((k - 1) % 6) + 1
            IN  UniformData(ShadowUBO(MaxLights + k - 1), PointView(i, Looks[f], lamps.v))]

bind_textures == <<
    ActiveTexture(0), BindTexture("ARRAY", "tex"),
    ActiveTexture(1), BindTexture("ARRAY", "font")>>

create_vao(x) == <<BindVertexArray(x.vao), BindElements(x.of)>>

(* render(list, texture) *)
Draw(r, x, forced) ==
    LET tex == IF forced # Nobody THEN forced
               ELSE IF x.pipe.type = "FONT" THEN "font" ELSE "tex"
        bind == IF tex = r.cur THEN <<>>
                ELSE <<ActiveTexture(0), BindTexture("ARRAY", tex)>>
        ready == [Do(r, <<Enable("DEPTH_TEST", x.pipe.test), DepthMask(x.pipe.write)>>
                \o IF x.vao \in r.vaos THEN <<>> ELSE create_vao(x))
            EXCEPT !.vaos = @ \cup {x.vao}]
    IN  IF objects[x.of] = 0 THEN ready
        ELSE [Do(ready, <<BindVertexArray(x.vao)>> \o bind \o <<DrawElements(x.pipe)>>)
            EXCEPT !.cur = tex]

DrawList(r, list, forced) == InOrder(LAMBDA s, x : Draw(s, x, forced), r, list)

(* Mutant: the mask is what the last pipeline has left. *)
DepthMapMasked(r, buffer, tex, layer) ==
    DrawList(
        Do(r, <<BindUniform("CAMERA", buffer), Attach("DEPTH", tex, layer),
                Clear({"DEPTH"})>>),
        RenderList.depth, Nobody)

DepthMap(r, buffer, tex, layer) ==
    DrawList(
        Do(r, <<BindUniform("CAMERA", buffer), Attach("DEPTH", tex, layer),
                DepthMask(TRUE), Clear({"DEPTH"})>>),
        RenderList.depth, Nobody)

(* Mutant: in the order of the looks. *)
Unswapped(f) == f

Swapped(f) == IF f = 3 THEN 4 ELSE IF f = 4 THEN 3 ELSE f

depth_pass(r) ==
    LET start == Do(r, <<BindFramebuffer("lights_fb"), Viewport(MapSize),
            BindUniform("LIGHTS", <<"no_lights", 0>>)>>)
        dir == InOrder(LAMBDA s, i : DepthMap(s, ShadowUBO(i - 1), "shadow_map", i),
            start, [i \in 1..lamps.n_dir |-> i])
    IN  InOrder(
            LAMBDA s, k : DepthMap(s, ShadowUBO(MaxLights + k - 1),
                CubeNames[((k - 1) \div 6) + 1], Swapped(((k - 1) % 6) + 1)),
            dir, [k \in 1..6 * lamps.n_point |-> k])

render_pass(r, p) ==
    LET start == Do(r, UpdatePost(p) \o <<BindOutput(p), Viewport(size),
            DepthMask(TRUE), Enable("BLEND", TRUE),
            BindUniform("LIGHTS", <<"lights", 0>>),
            BindUniform("CAMERA", <<"camera", 0>>), Clear({"COLOR", "DEPTH"})>>)
        map == DrawList(start,
            IF view.persp THEN RenderList.map_persp ELSE RenderList.map_ortho, Nobody)
        normal == DrawList(Do(map, <<Alpha("1")>>), RenderList.normal, Nobody)
    IN  DrawList(Do(normal, <<BindUniform("LIGHTS", <<"no_lights", 0>>)>>),
            RenderList.no_light, Nobody)

overlay_pass(r) ==
    LET start == Do(r, <<BindFramebuffer(Window), Enable("BLEND", TRUE),
            DepthMask(TRUE), Clear({"DEPTH"}), DepthMask(FALSE), Alpha("1/2")>>)
        overlay == DrawList(start, RenderList.overlay, Nobody)
        screen == DrawList(Do(overlay, <<BindUniform("CAMERA", <<"screen", 0>>)>>),
            RenderList.screen, Nobody)
    IN  DrawList(screen, RenderList.shadow_maps, "shadow_map")

render ==
    LET p == IF "RESIZED" \in glflags THEN Resized(post, size) ELSE post
        updated == Do([g |-> gl, cur |-> Nobody, vaos |-> vaos],
            update_camera \o update_lighting \o bind_textures
            \o <<ActiveTexture(0), BindTexture("ARRAY", "tex")>>)
        depth == IF lamps.shadows THEN depth_pass(updated) ELSE updated
        color == overlay_pass(render_pass(depth, p))
        effects == Do(color, <<Enable("BLEND", FALSE), Enable("DEPTH_TEST", FALSE),
            DepthMask(FALSE)>> \o RenderPost(p) \o bind_textures)
    IN  /\ \E last \in {Do(overlay_pass(effects), <<BindVertexArray(NoVAO)>>)} :
            gl' = last.g /\ vaos' = last.vaos
        /\ post' = [p EXCEPT !.flags = {}]
        /\ glflags' = {}
        /\ adapted' = IF enabled(p) /\ p.automatic THEN 1 - adapted ELSE adapted
        /\ fresh' = TRUE
        /\ UNCHANGED <<inputs, part>>

-----------------------------------------------------------------------------
AllEffects == [post EXCEPT !.hdr = TRUE, !.bloom = TRUE, !.blur_passes = 1]
Exposure == {[post EXCEPT !.hdr = b] : b \in BOOLEAN}
Bloomed(n) == {[post EXCEPT !.bloom = n > 1],
    [post EXCEPT !.bloom_downscale = n, !.flags = @ \cup {"BLOOM"}]}
Blurs(n) == {[post EXCEPT !.blur_passes = 2 * n - 2],
    [post EXCEPT !.blur_downscale = n, !.flags = @ \cup {"BLUR"}]}

Effects ==
    CASE part = "exposure" -> Exposure
      [] part = "blur" -> UNION {Bloomed(n) \cup Blurs(n) : n \in 1..2}
      [] part = "textures" -> {}
      [] OTHER -> {AllEffects}

OpenGLNext ==
    \/ \E s \in Sizes : gl_resize(s)
    \/ \E v \in Views : set_camera_updated(v)
    \/ \E l \in Lamps : set_lighting_updated(l)
    \/ set_shadow_map_size \/ set_shadow_cube_size
    \/ \E p \in Effects : set_effects(p)
    \/ \E b \in BOOLEAN : set_automatic_exposure(b)
    \/ resize_textures \/ resize_font
    \/ \E v \in Versions : load_textures(v)
    \/ load_font(1)
    \/ \E v \in Versions : gl_write_to_buffer("sprites", v)
    \/ \E o \in {"text", "depth"}, v \in {0, 1} : gl_write_to_buffer(o, v)
    \/ render

-----------------------------------------------------------------------------
Blurred(n, i) ==
    LET b[k \in 0..n] == IF k = 0 THEN i
            ELSE <<[of |-> "blur", dir |-> "y",
                image |-> <<[of |-> "blur", dir |-> "x", image |-> b[k - 1]]>>]>>
    IN  b[n]

ExpectedEffects(scene) == <<[
    of |-> "hdr",
    image |->
        IF ~blur_enabled(post) THEN scene
        ELSE Scaled(Blurred(post.blur_passes, Scaled(scene, size, BlurSize(post))),
            BlurSize(post), size),
    bloom |->
        IF ~bloom_enabled(post) THEN <<>>
        ELSE Blurred(post.bloom_passes, <<[of |-> "bright", image |-> scene]>>),
    luminance |->
        IF ~post.hdr THEN <<>> ELSE IF ~post.automatic THEN Darkest
        ELSE <<[of |-> "luminance", frames |-> adapted,
            mean |-> Scaled(scene, size, <<1, 1>>)]>>,
    at |-> size]>>

(* A frame shows the objects, the camera, the lights with their shadows    *)
(* and the images of now, with the effects that are enabled, each drawn    *)
(* once from what was drawn before it in this frame, and no more than      *)
(* that, whatever commands of this and earlier frames, or of scripts       *)
(* between them, have left in the context.  Without effects, overlays are  *)
(* drawn twice: OpenGLBackend::render().                                   *)
Presented ==
    fresh => Image(gl, On(Window, 0)) =
        IF enabled(post) THEN ExpectedOverlay(ExpectedEffects(ExpectedScene))
        ELSE ExpectedOverlay(ExpectedOverlay(ExpectedScene))
=============================================================================
