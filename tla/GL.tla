--------------------------------- MODULE GL ---------------------------------
(***************************************************************************)
(* The context of OpenGL, as src/graphics/opengl/ uses it: a machine that  *)
(* executes commands in order, each of which means what the ones before it *)
(* have left bound.                                                        *)
(*                                                                         *)
(* A texture has images by layer (or face), 0 where there is one only.     *)
(* Objects are known by the names of those who hold them; one that is      *)
(* deleted and created again has nothing of the old one.                   *)
(***************************************************************************)
EXTENDS Display

Window == "window"          \* the framebuffer 0
NoVAO == <<Nobody, "">>     \* vertex arrays: of a list, for an object
PostVAO == <<"post", "">>

CubeNames == <<"cube1", "cube2", "cube3">>
Cubes == {CubeNames[i] : i \in 1..MaxLights}
Textures == {Window, "tex", "font", "shadow_map", "color", "depth", "luminance0",
    "luminance1", "last", "res", "bloom0", "bloom1", "blur0", "blur1"} \cup Cubes
Framebuffers == {Window, "lights_fb", "color_fb", "luminance_fb0",
    "luminance_fb1", "res_fb", "bloom_fb0", "bloom_fb1", "blur_fb0", "blur_fb1"}

Units == 0..(2 + MaxLights)
Layers == 0..(IF MaxLights > 6 THEN MaxLights ELSE 6)
Unattached == [tex |-> Nobody, layer |-> 0]
On(t, l) == [tex |-> t, layer |-> l]

-----------------------------------------------------------------------------
(* Commands.                                                               *)
ActiveTexture(u) == [op |-> "ActiveTexture", unit |-> u]
BindTexture(target, t) == [op |-> "BindTexture", target |-> target, tex |-> t]
BindFramebuffer(f) == [op |-> "BindFramebuffer", read |-> f, draw |-> f]
BindReadDraw(r, d) == [op |-> "BindFramebuffer", read |-> r, draw |-> d]
Attach(what, t, l) == [op |-> "Attach", what |-> what, on |-> On(t, l)]
BindUniform(binding, b) == [op |-> "BindUniform", binding |-> binding, buffer |-> b]
UniformData(b, v) == [op |-> "UniformData", buffer |-> b, value |-> v]
Enable(what, b) == [op |-> "Enable", what |-> what, b |-> b]
DepthMask(b) == [op |-> "DepthMask", mask |-> b]
Viewport(s) == [op |-> "Viewport", size |-> s]
Alpha(a) == [op |-> "Alpha", alpha |-> a]
Clear(S) == [op |-> "Clear", what |-> S]
BindVertexArray(v) == [op |-> "BindVertexArray", vao |-> v]
BufferData(b, v) == [op |-> "BufferData", buffer |-> b, value |-> v]
BindElements(b) == [op |-> "BindElements", buffer |-> b]
NewTexture(t) == [op |-> "NewTexture", tex |-> t]
NewFramebuffer(f) == [op |-> "NewFramebuffer", fb |-> f]
TexImage(target, v) == [op |-> "TexImage", target |-> target, value |-> v]
Blit(from, to) == [op |-> "Blit", from |-> from, to |-> to]
CopyTexImage(target) == [op |-> "CopyTexImage", target |-> target]
Pass(p) == [op |-> "Pass", pass |-> p]
DrawElements(pipe) == [op |-> "DrawElements", pipe |-> pipe]

-----------------------------------------------------------------------------
(* What commands read.                                                     *)

Image(g, on) == IF on.tex = Nobody THEN Undefined ELSE g.image[on.tex][on.layer]
Bound(g, unit, target) == On(g.bound[unit][target], 0)
Target(g, what) == g.attached[g.draw][what]

(* What is sampled must not be drawn to at the same time. *)
Sampled(g, unit, target) ==
    LET t == Bound(g, unit, target)
    IN  IF t.tex # Nobody /\ t.tex \in {g.attached[g.draw][w].tex : w \in {"COLOR", "DEPTH"}}
        THEN Undefined ELSE Image(g, t)

With(f, x, y, v) == (x :> ((y :> v) @@ f[x])) @@ f

WithImage(g, on, i) ==
    IF on.tex = Nobody THEN g ELSE [g EXCEPT !.image = With(@, on.tex, on.layer, i)]

(* Drawing over what is there. *)
Drawn(g, what, d) ==
    WithImage(g, Target(g, what), Append(Image(g, Target(g, what)), d))

(* A triangle that covers all of the image, from other images: what was    *)
(* there is gone, unless it is mixed with that or hidden by it.            *)
Covered(g, d) ==
    IF g.enabled["BLEND"] \/ g.enabled["DEPTH_TEST"] THEN Drawn(g, "COLOR", d)
    ELSE WithImage(g, Target(g, "COLOR"), <<d>>)

(* A part of the image, of this size, is scaled to another. *)
Scaled(i, from, to) ==
    IF Len(i) = 1 /\ i[1].of = "scaled" /\ i[1].to = from
    THEN <<[i[1] EXCEPT !.to = to]>>
    ELSE <<[of |-> "scaled", from |-> from, to |-> to, image |-> i]>>

(* A deleted texture is bound to nothing, and is removed from the bound    *)
(* framebuffers, but other framebuffers can not be used until they have    *)
(* another.                                                                *)
Deleted(g, t) ==
    LET name(x) == IF x = t THEN Nobody ELSE x
        on(x) == IF x.tex = t THEN Unattached ELSE x
    IN  [g EXCEPT
        !.bound = [u \in Units |-> [PLAIN |-> name(@[u].PLAIN),
            ARRAY |-> name(@[u].ARRAY), CUBE |-> name(@[u].CUBE)]],
        !.attached = [f \in Framebuffers |->
            [COLOR |-> on(@[f].COLOR), DEPTH |-> on(@[f].DEPTH)]],
        !.image = (t :> [l \in Layers |-> Undefined]) @@ @]

Cleared(g, what) ==
    IF what = "DEPTH" /\ ~g.mask THEN g ELSE WithImage(g, Target(g, what), <<>>)

(* The maps of the lights that have shadows are in the units after the     *)
(* first two; all layers and faces are those of now.                       *)
Shadows(g, l) ==
    IF ~l.shadows THEN <<>>
    ELSE <<[i \in 1..l.n_dir |->
                Image(g, On(g.bound[2]["ARRAY"], i))],
            [x \in (1..l.n_point) \X (1..6) |->
                Image(g, On(g.bound[2 + x[1]]["CUBE"], x[2]))]>>

(* Of the maps only that it is them. *)
SampledPicture(g) ==
    IF Bound(g, 0, "ARRAY").tex = "shadow_map" THEN Maps ELSE Sampled(g, 0, "ARRAY")

DrawnElements(g, pipe) ==
    LET buffer == g.elements[g.vao]
        lights == g.uniform[g.binding["LIGHTS"]]
        d == Drawing(buffer, g.buffer[buffer], pipe, g.uniform[g.binding["CAMERA"]], lights,
            SampledPicture(g), IF pipe.lit THEN Shadows(g, lights) ELSE <<>>,
            g.alpha, NamesOf(Image(g, Target(g, "DEPTH"))), g.viewport)
        h == Drawn(g, "COLOR", d)
    IN  IF pipe.write /\ g.mask THEN Drawn(h, "DEPTH", d) ELSE h

(* The exposure of a frame depends on that of the one before: frames are   *)
(* counted, modulo 2.                                                      *)
Adapted(i) ==
    IF i = Undefined THEN 2
    ELSE IF i[1].of # "luminance" THEN 1
    ELSE IF i[1].frames = 2 THEN 2 ELSE 1 - i[1].frames

(* The textures of the programs of post-processing are in the first units. *)
Passed(g, p) ==
    LET s(u) == Sampled(g, u, "PLAIN")
        d == CASE p.of = "luminance" ->
                    [of |-> "luminance", frames |-> Adapted(s(0)), mean |-> s(1)]
               [] p.of = "bright" -> [of |-> "bright", image |-> s(0)]
               [] p.of = "blur" -> [of |-> "blur", dir |-> p.dir, image |-> s(0)]
               [] p.of = "hdr" -> [of |-> "hdr", image |-> s(0),
                    bloom |-> IF p.bloom THEN s(1) ELSE <<>>,
                    luminance |-> IF p.mix THEN s(2) ELSE <<>>, at |-> g.viewport]
    IN  IF g.viewport = <<0, 0>> THEN g ELSE Covered(g, d)

Execute(g, c) ==
    CASE c.op = "ActiveTexture" -> [g EXCEPT !.unit = c.unit]
      [] c.op = "BindTexture" -> [g EXCEPT !.bound = With(@, g.unit, c.target, c.tex)]
      [] c.op = "BindFramebuffer" -> [g EXCEPT !.read = c.read, !.draw = c.draw]
      [] c.op = "Attach" -> [g EXCEPT !.attached = With(@, g.draw, c.what, c.on)]
      [] c.op = "BindUniform" -> [g EXCEPT !.binding[c.binding] = c.buffer]
      [] c.op = "UniformData" -> [g EXCEPT !.uniform[c.buffer] = c.value]
      [] c.op = "Enable" -> [g EXCEPT !.enabled[c.what] = c.b]
      [] c.op = "DepthMask" -> [g EXCEPT !.mask = c.mask]
      [] c.op = "Viewport" -> [g EXCEPT !.viewport = c.size]
      [] c.op = "Alpha" -> [g EXCEPT !.alpha = c.alpha]
      [] c.op = "Clear" -> FoldSet(LAMBDA w, h : Cleared(h, w), g, c.what)
      [] c.op = "BindVertexArray" -> [g EXCEPT !.vao = c.vao]
      [] c.op = "BufferData" -> [g EXCEPT !.buffer[c.buffer] = c.value]
      [] c.op = "BindElements" -> [g EXCEPT !.elements[g.vao] = c.buffer]
      [] c.op = "NewTexture" -> Deleted(g, c.tex)
      [] c.op = "NewFramebuffer" ->
            [g EXCEPT !.attached = (c.fb :> [COLOR |-> Unattached, DEPTH |-> Unattached]) @@ @]
      [] c.op = "TexImage" -> WithImage(g, Bound(g, g.unit, c.target), c.value)
      [] c.op = "Blit" -> WithImage(g, Target(g, "COLOR"),
            Scaled(Image(g, g.attached[g.read]["COLOR"]), c.from, c.to))
      [] c.op = "CopyTexImage" -> WithImage(g, Bound(g, g.unit, c.target),
            Image(g, g.attached[g.read]["COLOR"]))
      [] c.op = "Pass" -> Passed(g, c.pass)
      [] c.op = "DrawElements" -> DrawnElements(g, c.pipe)

Run(g, commands) == InOrder(Execute, g, commands)
=============================================================================
