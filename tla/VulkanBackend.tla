--------------------------- MODULE VulkanBackend ----------------------------
(***************************************************************************)
(* What the Vulkan back end (src/graphics/vulkan/vulkan.cpp) draws: its    *)
(* operations record commands, which have an effect on images and buffers  *)
(* of the device once they are submitted, and write to the uniform buffer  *)
(* at once.  A frame draws what descriptor sets, offsets and views make of *)
(* them, and each frame in flight has regions and layers of its own.       *)
(* When frames are waited for is in FramesInFlight: here commands are      *)
(* executed in order, and until a frame is waited for what it refers to    *)
(* may be in use.                                                          *)
(*                                                                         *)
(* Images and buffers are known by who holds them; one that was destroyed  *)
(* is in no view or set.  Calls succeed, except for images that are out of *)
(* date.                                                                   *)
(***************************************************************************)
EXTENDS Display

CONSTANTS
    FrameCounts,    \* arguments of set_n_frames
    Replaced,       \* is what commands refer to created again?
    SplitGlyphs     \* are glyphs written from two blocks of staging memory?

VulkanAssumption ==
    /\ FrameCounts \subseteq Nat \ {0} /\ FrameCounts # {}
    /\ IsFiniteSet(FrameCounts)
    /\ {Replaced, SplitGlyphs} \subseteq BOOLEAN

VARIABLE vk         \* VulkanBackend

AllFrames == 0..(Max(FrameCounts) - 1)

-----------------------------------------------------------------------------
(* The uniform buffer: cameras of each frame (of the world, of the screen, *)
(* of each light and face), then lights of each frame, then no lights.     *)

PerFrame == 2 + 7 * MaxLights
offset(i) == PerFrame * i
offset_screen(i) == offset(i) + 1

(* Mutant: the camera of the screen is forgotten. *)
offset_light_early(i, il) == offset(i) + 1 + il

offset_light(i, il) == offset(i) + 2 + il
offset_lights(n, i) == PerFrame * n + i
Regions(n) == 0..(offset_lights(n, n))

Unwritten == [of |-> "unwritten"]

-----------------------------------------------------------------------------
(* Images of pictures: levels, each with a layout and rows of a picture    *)
(* (half of them each).                                                    *)

Row(v, i) == <<v, i>>
NoRows == <<Row(0, 0), Row(0, 0)>>
RowsOf(v) == <<Row(v, 1), Row(v, 2)>>

NewImage(levels, layout) ==
    [layout |-> [k \in 1..levels |-> layout], rows |-> [k \in 1..levels |-> NoRows]]

(* transition_layout(): what is there is lost if its layout is not that.   *)
Barrier(i, levels, old, new) == [
    layout |-> [k \in DOMAIN i.layout |-> IF k \in levels THEN new ELSE i.layout[k]],
    rows |-> [k \in DOMAIN i.rows |->
        IF k \in levels /\ i.layout[k] # old THEN NoRows ELSE i.rows[k]]]

(* copy_buffer() *)
CopyRows(i, first, rows) ==
    IF i.layout[1] # "DST" THEN i
    ELSE [i EXCEPT !.rows[1] = [k \in DOMAIN @ |->
        IF k \in first..(first + Len(rows) - 1) THEN rows[k + 1 - first] ELSE @[k]]]

BlitLevel(i, k) ==
    IF i.layout[k - 1] = "SRC" /\ i.layout[k] = "DST"
    THEN [i EXCEPT !.rows[k] = i.rows[k - 1]] ELSE i

(* init_mipmaps() *)
NextLevel(i, k) ==
    Barrier(BlitLevel(Barrier(i, {k - 1}, "DST", "SRC"), k), {k - 1}, "SRC", "READ")
AllLevels(i, levels) == InOrder(NextLevel, i, levels)

WithMipmaps(i) ==
    LET n == Len(i.layout)
    IN  Barrier(AllLevels(i, [k \in 1..(n - 1) |-> k + 1]), {n}, "DST", "READ")

(* What programs read: a picture, if all of it is that. *)
Content(i) ==
    LET v == i.rows[1][1][1]
        all == \A k \in DOMAIN i.rows : i.layout[k] = "READ" /\ i.rows[k] = RowsOf(v)
    IN  IF v # 0 /\ all THEN Picture(v) ELSE Undefined

-----------------------------------------------------------------------------
(* Things the device holds ("now": once it has executed what was recorded, *)
(* "done": what was submitted), and what commands refer to.                *)

NoImage == [layout |-> <<>>, rows |-> <<>>]
Exists(v, t) == v.now[t] # NoImage

Nothing == [tex |-> NoImage, font |-> NoImage, maps |-> <<>>, cubes |-> <<>>,
    buffers |-> [o \in Objects |-> <<>>]]

Blank == [
    n |-> 0, cur |-> 0, recreate |-> FALSE, extent |-> <<0, 0>>,
    camera_updated |-> {}, lighting_updated |-> {},
    ubo |-> <<>>, tex_sets |-> <<>>, light_sets |-> <<>>, fbs |-> <<>>,
    now |-> Nothing, done |-> Nothing, sizes |-> [o \in Objects |-> 0],
    recorded |-> {}, flight |-> [f \in AllFrames |-> {}], lost |-> {},
    window |-> Undefined]

Used(v) == v.recorded \cup UNION {v.flight[f] : f \in AllFrames}
Free(things) == Replaced \/ things \cap Used(vk) = {}

(* It is created again: what refers to the old one does not to the new.    *)
Without(x, t) == IF x = t THEN Nobody ELSE x
ViewsWithout(s, t) == [s EXCEPT !.maps = Without(@, t), !.cubes = Without(@, t)]

Create(v, t, new) == [v EXCEPT
    !.lost = @ \cup ({t} \cap Used(v)),
    !.now[t] = new, !.done[t] = new,
    !.tex_sets = [k \in DOMAIN @ |-> Without(@[k], t)],
    !.light_sets = [i \in DOMAIN @ |-> ViewsWithout(@[i], t)],
    !.fbs = [i \in DOMAIN @ |-> <<Without(@[i][1], t), @[i][2]>>]]

Record(v, t, new) == [v EXCEPT !.now[t] = new, !.recorded = @ \cup {t}]

(* TextureDescriptorSets::write(): only what exists. *)
WriteTexSets(v) ==
    LET of(t) == IF Exists(v, t) THEN t ELSE Nobody
    IN  [v EXCEPT !.tex_sets = <<of("tex"), of("font"), "maps", "cubes">>,
            !.lost = @ \cup ({"tex_sets"} \cap Used(v))]

(* LightingDescriptorSets::write(): one for each frame and one for no      *)
(* lights, with views of the layers of a frame.                            *)
WriteLightSets(v) ==
    [v EXCEPT !.light_sets = [i \in 0..v.n |->
        [region |-> offset_lights(v.n, i), frame |-> i % v.n,
         maps |-> "maps", cubes |-> "cubes"]]]

-----------------------------------------------------------------------------
(* Operations, as functions of the back end.                               *)

AllUpdated(v) == [v EXCEPT !.camera_updated = AllFrames, !.lighting_updated = AllFrames]
Idle(v) == [v EXCEPT !.flight = [f \in AllFrames |-> {}]]

SetMapSize(v) ==
    LET layers == [l \in 0..(v.n * MaxLights - 1) |-> Undefined]
    IN  [Record(Create(v, "maps", layers), "maps", layers) EXCEPT !.recreate = TRUE]

SetCubeSize(v) ==
    LET layers == [l \in 0..(v.n * 6 * MaxLights - 1) |-> Undefined]
    IN  [Record(Create(v, "cubes", layers), "cubes", layers) EXCEPT !.recreate = TRUE]

Submitted(v) == [v EXCEPT
    !.done = v.now, !.flight[v.cur] = v.recorded, !.recorded = {}]

(* reset(): what was recorded and was not submitted is lost. *)
Reset(v) == [v EXCEPT !.now = v.done, !.recorded = {}]

(* Buffers::resize() *)
NewBuffers(v) ==
    LET buffers == [o \in Objects |-> [i \in 0..(v.n - 1) |-> 0]]
    IN  [v EXCEPT !.now.buffers = buffers, !.done.buffers = buffers]

(* Mutant: what was recorded is not submitted. *)
SetFramesOnly(v, n) ==
    LET new == [Reset(Idle(v)) EXCEPT
            !.n = n, !.cur = 0, !.ubo = [r \in Regions(n) |-> Unwritten]]
        sets == WriteLightSets(WriteTexSets(SetCubeSize(SetMapSize(new))))
    IN  NewBuffers([sets EXCEPT !.ubo[offset_lights(n, n)] = NoLights])

SetFrames(v, n) ==
    LET new == [Reset(Idle(IF v.n = 0 THEN v ELSE Submitted(v))) EXCEPT
            !.n = n, !.cur = 0, !.ubo = [r \in Regions(n) |-> Unwritten]]
        sets == WriteLightSets(WriteTexSets(SetCubeSize(SetMapSize(new))))
    IN  NewBuffers([sets EXCEPT !.ubo[offset_lights(n, n)] = NoLights])

(* create_depth_frame_buffers(): of the layers of maps, then of cubes. *)
DepthFrameBuffers(n) ==
    [i \in 0..(7 * n * MaxLights - 1) |->
        IF i < n * MaxLights THEN <<"maps", i>> ELSE <<"cubes", i - n * MaxLights>>]

(* recreate_swapchain() *)
SwapChain(v, s) == [Idle(AllUpdated(v)) EXCEPT
    !.recreate = FALSE, !.extent = s, !.fbs = DepthFrameBuffers(v.n),
    !.window = Undefined]

ResizeTextures(v) ==
    WriteTexSets(Record(Create(v, "tex", NewImage(2, "UNDEFINED")),
        "tex", NewImage(2, "READ")))

(* write(): in one piece or, if a block is full, in two. *)
Pieces(split) == IF split THEN <<<<1, 1>>, <<2, 1>>>> ELSE <<<<1, 2>>>>

CopyPiece(i, p, x) == CopyRows(i, x[1], SubSeq(RowsOf(p), x[1], x[1] + x[2] - 1))
CopyPieces(i, p, pieces) == InOrder(LAMBDA j, x : CopyPiece(j, p, x), i, pieces)

LoadTextures(v, p, split) ==
    LET i == v.now.tex
        start == Barrier(i, DOMAIN i.layout, "UNDEFINED", "DST")
    IN  Record(v, "tex", WithMipmaps(CopyPieces(start, p, Pieces(split))))

ResizeFont(v) ==
    WriteTexSets(Record(Create(v, "font", NewImage(1, "UNDEFINED")),
        "font", NewImage(1, "DST")))

(* load_font(): where a piece is read from depends on those before it.     *)
CopyGlyph(j, p, x) ==
    [from |-> j.from + x[1] - 1,
     i |-> CopyRows(j.i, x[1], SubSeq(RowsOf(p), j.from, j.from + x[2] - 1))]
CopyGlyphs(i, p, pieces) ==
    InOrder(LAMBDA j, x : CopyGlyph(j, p, x), [from |-> 1, i |-> i], pieces)

LoadFont(v, p, split) ==
    LET start == Barrier(v.now.font, {1}, "UNDEFINED", "DST")
        all == CopyGlyphs(start, p, Pieces(split))
    IN  Record(v, "font", Barrier(all.i, {1}, "DST", "READ"))

(* Mutant: only where the current frame reads it. *)
CopyToFrame(v, o, x) == [v.now.buffers EXCEPT ![o][v.cur] = x]

(* Buffers::copy() *)
CopyToAll(v, o, x) ==
    [v.now.buffers EXCEPT ![o] = [i \in DOMAIN @ |-> x]]

(* set_buffer_size(), write_to_buffer() *)
WriteBuffer(v, o, x) ==
    LET sized == [v EXCEPT !.sizes[o] = x]
    IN  IF x = 0 THEN sized
        ELSE [sized EXCEPT !.now.buffers = CopyToAll(v, o, x),
            !.recorded = @ \cup {o}]

SetCapacity(v, o) ==
    LET lost == [i \in DOMAIN v.now.buffers[o] |-> 0]
    IN  [v EXCEPT !.lost = @ \cup ({o} \cap Used(v)),
        !.now.buffers[o] = lost, !.done.buffers[o] = lost]

-----------------------------------------------------------------------------
(* create_cmd_buffer(): a recording has what is bound, which texture set   *)
(* is taken for bound (cur_tex), and what was drawn to the attachments.    *)

NoSet == 0

Recording(v) == [
    now |-> v.now, cur_tex |-> 1, tex |-> NoSet, lights |-> 0, camera |-> 0,
    alpha |-> "1", color |-> <<>>, depth |-> <<>>, at |-> MapSize]

Sampled(v, r) ==
    LET t == IF r.tex = NoSet THEN Nobody ELSE v.tex_sets[r.tex]
    IN  CASE t = Nobody -> Undefined
          [] t \in {"tex", "font"} -> Content(r.now[t])
          [] t \in {"maps", "cubes"} -> Maps

(* Maps of the lights that have shadows, in the layers of a frame. *)
ShadowsOf(v, r, lights) ==
    LET set == v.light_sets[r.lights]
        layer(t, i) == IF set[t] = Nobody THEN Undefined ELSE r.now[t][i]
    IN  IF ~lights.shadows THEN <<>>
        ELSE <<[i \in 1..lights.n_dir |->
                    layer("maps", MaxLights * set.frame + i - 1)],
               [x \in (1..lights.n_point) \X (1..6) |->
                    layer("cubes", 6 * (MaxLights * set.frame + x[1] - 1) + x[2] - 1)]>>

(* render(list, texture set) *)
DrawStage(v, r, x, forced) ==
    LET next == IF forced # NoSet THEN forced
                ELSE IF x.pipe.type = "FONT" THEN 2 ELSE 1
        bound == IF next = r.cur_tex THEN r ELSE [r EXCEPT !.cur_tex = next, !.tex = next]
        lights == v.ubo[v.light_sets[r.lights].region]
        d == Drawing(x.of, r.now.buffers[x.of][v.cur], x.pipe, v.ubo[r.camera], lights,
            Sampled(v, bound), IF x.pipe.lit THEN ShadowsOf(v, r, lights) ELSE <<>>,
            r.alpha, NamesOf(r.depth), r.at)
    IN  IF v.sizes[x.of] = 0 THEN r
        ELSE [bound EXCEPT
            !.color = Append(@, d), !.depth = IF x.pipe.write THEN Append(@, d) ELSE @]

DrawStages(v, r, list, forced) ==
    InOrder(LAMBDA s, x : DrawStage(v, s, x, forced), r, list)

(* Mutant: in the order of the looks. *)
depth_fb_idx_looks(v, li, point) ==
    IF ~point THEN MaxLights * v.cur + li
    ELSE MaxLights * (6 * v.cur + v.n) + li

depth_fb_idx(v, li, point) ==
    IF ~point THEN MaxLights * v.cur + li
    ELSE MaxLights * (6 * v.cur + v.n)
        + (CASE li % 6 = 2 -> li + 1 [] li % 6 = 3 -> li - 1 [] OTHER -> li)

record_depth_pass(v, r, li, point) ==
    LET fb == v.fbs[depth_fb_idx(v, li, point)]
        start == [r EXCEPT !.color = <<>>, !.depth = <<>>, !.at = MapSize,
            !.lights = 0, !.tex = 1,
            !.camera = offset_light(v.cur, IF point THEN MaxLights + li ELSE li)]
        drawn == DrawStages(v, start, RenderList.depth, NoSet)
    IN  IF fb[1] = Nobody THEN drawn ELSE [drawn EXCEPT !.now[fb[1]][fb[2]] = drawn.depth]

record_render_pass(v, r) ==
    LET draw(s, list) == DrawStages(v, s, list, NoSet)
        start == [r EXCEPT !.color = <<>>, !.depth = <<>>, !.at = v.extent,
            !.lights = v.cur, !.camera = offset(v.cur), !.tex = 1, !.alpha = "1"]
        map == draw(start, IF view.persp THEN RenderList.map_persp ELSE RenderList.map_ortho)
        normal == draw(map, RenderList.normal)
        no_light == draw([normal EXCEPT !.lights = v.n], RenderList.no_light)
        overlay == draw([no_light EXCEPT !.alpha = "1/2"], RenderList.overlay)
        screen == draw([overlay EXCEPT
            !.depth = <<>>, !.camera = offset_screen(v.cur), !.tex = 1], RenderList.screen)
    IN  DrawStages(v, screen, RenderList.shadow_maps, 3)

DepthPasses(v, r, n, point) ==
    InOrder(LAMBDA s, l : record_depth_pass(v, s, l - 1, point), r, [l \in 1..n |-> l])

create_cmd_buffer(v) ==
    LET first == Recording(v)
        point == DepthPasses(v, DepthPasses(v, first, lamps.n_dir, FALSE),
            6 * lamps.n_point, TRUE)
        last == record_render_pass(v, IF lamps.shadows THEN point ELSE first)
    IN  [v EXCEPT !.now = last.now, !.window = last.color,
            !.recorded = @ \cup {"tex_sets", "maps", "cubes"}
                \cup {t \in {"tex", "font"} : Exists(v, t)}
                \cup {o \in Objects : v.sizes[o] # 0}]

-----------------------------------------------------------------------------
(* render() *)

update_camera(v) ==
    IF v.cur \notin v.camera_updated THEN v
    ELSE [v EXCEPT !.camera_updated = @ \ {v.cur},
        !.ubo[offset(v.cur)] = World(view.v), !.ubo[offset_screen(v.cur)] = Screen(size)]

WriteRegion(u, x) == [u EXCEPT ![x[1]] = x[2]]
WriteRegions(u, writes) == InOrder(WriteRegion, u, writes)

update_lighting(v) ==
    LET dir == [i \in 1..lamps.n_dir |->
            <<offset_light(v.cur, i - 1), DirView(i, lamps.v)>>]
        point == [k \in 1..6 * lamps.n_point |->
            <<offset_light(v.cur, MaxLights + k - 1),
              PointView(((k - 1) \div 6) + 1, Looks[((k - 1) % 6) + 1], lamps.v)>>]
    IN  IF v.cur \notin v.lighting_updated THEN v
        ELSE [v EXCEPT !.lighting_updated = @ \ {v.cur},
            !.ubo = WriteRegions(@,
                dir \o point \o <<<<offset_lights(v.n, v.cur), lamps>>>>)]

(* vsync(): the next frame is waited for. *)
NextFrame(v) ==
    LET f == (v.cur + 1) % v.n
    IN  [v EXCEPT !.cur = f, !.flight[f] = {}]

(* Images may be out of date when one is acquired, or presented.           *)
Ready(v, outdated) ==
    IF v.recreate \/ outdated = "acquire" THEN SwapChain(v, size) ELSE v
Presented(v, outdated) ==
    NextFrame(IF outdated = "present" THEN SwapChain(v, size) ELSE v)

-----------------------------------------------------------------------------
Device(n) == SwapChain(SetFrames(Blank, n), CHOOSE s \in Sizes : TRUE)
Loaded(v) == LoadFont(ResizeFont(LoadTextures(ResizeTextures(v), 1, FALSE)), 1, FALSE)
WriteAll(v, objs) == InOrder(LAMBDA u, o : WriteBuffer(u, o, 1), v, objs)
Written(v) == WriteAll(v, SetToSeq(Objects \ {"depth"}))

Init ==
    /\ part \in {"frames", "lights", "textures", "objects"}
    /\ \E n \in FrameCounts :
        vk = CASE part = "textures" -> Written(Device(n))
               [] part = "frames" -> Loaded(Device(n))
               [] OTHER -> Written(Loaded(Device(n)))
    /\ size = CHOOSE s \in Sizes : TRUE
    /\ view = CHOOSE v \in Views : TRUE
    /\ lamps = Shadowed
    /\ pictures = [t \in {"tex", "font"} |->
        IF part = "textures" THEN Undefined ELSE Picture(1)]
    /\ objects = [o \in Objects |-> IF part = "frames" \/ o = "depth" THEN 0 ELSE 1]
    /\ fresh = FALSE

(* Scripts, between frames. *)
Changed(v) == vk' = v /\ fresh' = FALSE /\ UNCHANGED part

(* Contents of buffers are lost: before there are any. *)
set_n_frames(n) ==
    /\ part = "frames"
    /\ Replaced \/ \A o \in Objects : objects[o] = 0
    /\ Changed(SetFrames(vk, n))
    /\ UNCHANGED inputs

resize(s) ==
    /\ part = "lights" /\ size' = s
    /\ Changed([vk EXCEPT !.recreate = TRUE, !.camera_updated = AllFrames])
    /\ UNCHANGED <<view, lamps, pictures, objects>>

set_camera_updated(v) ==
    /\ part = "objects" /\ view' = v
    /\ Changed([vk EXCEPT !.camera_updated = AllFrames])
    /\ UNCHANGED <<size, lamps, pictures, objects>>

set_lighting_updated(l) ==
    /\ part = "lights" /\ lamps' = l
    /\ Changed([vk EXCEPT !.lighting_updated = AllFrames])
    /\ UNCHANGED <<size, view, pictures, objects>>

SetPicture(t, i) ==
    /\ pictures' = [pictures EXCEPT ![t] = i]
    /\ UNCHANGED <<size, view, lamps, objects>>

(* resize_textures(), resize_font(), set_shadow_map_size() and             *)
(* set_shadow_cube_size(): the views of the last two are written to sets   *)
(* only by set_n_frames().                                                 *)
Resized(t) ==
    CASE t = "tex" -> ResizeTextures(vk)
      [] t = "font" -> ResizeFont(vk)
      [] t = "maps" -> SetMapSize(vk)
      [] t = "cubes" -> SetCubeSize(vk)

recreate(t) ==
    /\ part = "textures" /\ Free({t, "tex_sets"})
    /\ t \in {"maps", "cubes"} => Replaced
    /\ Changed(Resized(t))
    /\ IF t \in {"tex", "font"} THEN SetPicture(t, Undefined) ELSE UNCHANGED inputs

load_textures(p, split) ==
    /\ part \in {"textures", "frames"} /\ Exists(vk, "tex")
    /\ Changed(LoadTextures(vk, p, split)) /\ SetPicture("tex", Picture(p))

load_font(p, split) ==
    /\ part = "textures" /\ Exists(vk, "font") /\ (split => SplitGlyphs)
    /\ Changed(LoadFont(vk, p, split)) /\ SetPicture("font", Picture(p))

write_to_buffer(o, x) ==
    /\ part = "objects" \/ (part = "frames" /\ o = "sprites")
    /\ Changed(WriteBuffer(vk, o, x))
    /\ objects' = [objects EXCEPT ![o] = x]
    /\ UNCHANGED <<size, view, lamps, pictures>>

set_buffer_capacity(o) ==
    /\ part = "objects" /\ Free({o}) /\ (Replaced \/ objects[o] = 0)
    /\ Changed(SetCapacity(vk, o)) /\ UNCHANGED inputs

(* Bound: images are out of date in some behaviors only. *)
render(outdated) ==
    /\ outdated # "no" => part # "objects"
    /\ \E ready \in {Ready(vk, outdated)} :
       \E written \in {update_lighting(update_camera(ready))} :
       \E drawn \in {create_cmd_buffer(written)} :
            vk' = Presented(Submitted(drawn), outdated)
    /\ fresh' = (outdated # "present")
    /\ UNCHANGED <<inputs, part>>

Next ==
    \/ \E n \in FrameCounts : set_n_frames(n)
    \/ \E s \in Sizes : resize(s)
    \/ \E v \in Views : set_camera_updated(v)
    \/ \E l \in Lamps : set_lighting_updated(l)
    \/ \E t \in {"tex", "font", "maps", "cubes"} : recreate(t)
    \/ \E p \in Versions, split \in BOOLEAN : load_textures(p, split) \/ load_font(p, split)
    \/ \E x \in {0} \cup Versions : write_to_buffer("sprites", x)
    \/ write_to_buffer("depth", 1)
    \/ set_buffer_capacity("sprites")
    \/ \E outdated \in {"no", "acquire", "present"} : render(outdated)

-----------------------------------------------------------------------------
(* A frame shows the objects, the camera, the lights with their shadows    *)
(* and the images of now, each drawn once, whichever frame in flight draws *)
(* it: its regions, layers and sets have what they have to after changes   *)
(* of the number of frames, of the window and of what they hold, and       *)
(* nothing that frames in flight refer to was destroyed or written         *)
(* (VulkanBackend::create_cmd_buffer(), set_n_frames()).                   *)
Shown ==
    /\ fresh => vk.window = ExpectedOverlay(ExpectedScene)
    /\ vk.lost = {}
=============================================================================
