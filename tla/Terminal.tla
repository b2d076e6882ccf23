------------------------------ MODULE Terminal ------------------------------
(***************************************************************************)
(* The back end of the graphics for terminals                              *)
(* (src/graphics/terminal/): sprites and text are painted, one over        *)
(* another, into a frame buffer, which has what is sent to the terminal:   *)
(* a prefix, the pixels, and a suffix.                                     *)
(*                                                                         *)
(* A unit of the buffer is a command, the color it sets or a character.    *)
(* Writing succeeds; an error ends the program.  The terminal has the size *)
(* <<columns, rows, pixels of a column or row>>, as one pixel in a world   *)
(* is one of the terminal, and coordinates are in quarters of a character. *)
(***************************************************************************)
EXTENDS Display, Integers

CONSTANTS
    Ttys,       \* sizes of terminals
    Resets      \* does a terminal whose colors are reset change its size?

TerminalAssumption ==
    /\ Ttys \subseteq (Nat \ {0}) \X (Nat \ {0}) \X {2, 4}
    /\ Resets \in BOOLEAN

VARIABLES
    term,   \* TerminalBackend
    tty     \* the terminal: its characters, cursor, color and size

-----------------------------------------------------------------------------
(* What there is to paint: corners of rectangles, opposite to each other,  *)
(* the first with the first coordinates of the texture.                    *)

Corners(of, value) ==
    CASE of = "map" -> <<<<-9, -9>>, <<9, 9>>>>
      [] of = "sprites" /\ value = 1 -> <<<<-1, -2>>, <<9, 1>>>>
      [] of = "sprites" -> <<<<2, 3>>, <<-3, -1>>>>
      [] of = "translucent" -> <<<<0, -4>>, <<2, -1>>>>
      [] of = "text" -> <<<<0, 0>>, <<2, 2>>>>
      [] OTHER -> <<<<-9, -9>>, <<-8, -8>>>>

(* What a texture has at this place, unless it is transparent there.       *)
Transparent(texel) == texel = <<1, 1>>

Stage(pipe, ofs) == [pipe |-> pipe, buffers |-> ofs]
Stages == [
    map_ortho |-> <<Stage(circle, <<"map">>)>>,
    map_persp |-> <<Stage(sprite, <<"map">>)>>,
    normal |-> <<Stage(triangle, <<"cubes">>), Stage(sprite, <<"sprites">>)>>,
    no_light |-> <<Stage(sprite, <<"translucent">>)>>,
    overlay |-> <<Stage(box, <<"selection">>)>>,
    screen |-> <<Stage(box, <<"triangle", "selection">>), Stage(font, <<"text">>)>>]

(* Mutant: the last of the stages is lost. *)
set_stage_but_last(stages) ==
    [i \in 1..(Len(stages) - 1) |->
        [type |-> stages[i].pipe.type, of |-> Last(stages[i].buffers)]]

(* RenderList::set_stage(): the last of the buffers of a stage is kept.    *)
set_stage(stages) ==
    [i \in DOMAIN stages |->
        [type |-> stages[i].pipe.type, of |-> Last(stages[i].buffers)]]

-----------------------------------------------------------------------------
(* FrameBuffer. *)

Unit(c, v) == [c |-> c, v |-> v]
Blank == <<>>

Pixel(mode, v) ==
    IF mode = "ASCII" THEN <<Unit("char", v)>>
    ELSE <<Unit("cmd", Blank), Unit("color", v), Unit("char", Blank)>>
Zeros(n) == [i \in 1..n |-> Unit("nul", Blank)]

Commands(t, cs) == [i \in 1..Len(SelectSeq(cs, LAMBDA c : c \in t.flags)) |->
    Unit(SelectSeq(cs, LAMBDA c : c \in t.flags)[i], Blank)]
Prefix(t) == Commands(t, <<"CLEAR", "REPOSITION">>)
Suffix(t) == Commands(t, <<"RESET_COLOR">>)

PixelSize(t) == Len(Pixel(t.mode, Blank))

(* Of a vector: the first and the last unit of its pixels. *)
First(t) == Len(Prefix(t)) + 1
End(t, v) == Len(v) - Len(Suffix(t))

Filled(t, v, fill) ==
    [i \in DOMAIN v |->
        IF i \notin First(t)..End(t, v) THEN v[i]
        ELSE fill[((i - First(t)) % Len(fill)) + 1]]

Resized(v, n, zeros) == SubSeq(v \o zeros, 1, n)

(* Mutant: what was there remains. *)
resize_only(t, v, n) ==
    Resized(v, n, Filled(t, Zeros(n), Pixel(t.mode, Blank)))

(* Before, the first pixels of a larger buffer.                            *)
resize_and_fill(t, v, n) ==
    LET fill == Pixel(t.mode, Blank)
        more == IF n > Len(v) THEN n - Len(v) ELSE 0
    IN  IF t.mode = "ASCII"
        THEN Resized(IF v = <<>> THEN v ELSE Filled(t, v, fill), n,
                [i \in 1..more |-> fill[1]])
        ELSE Filled(t, Resized(v, n, Zeros(more)), fill)

(* The commands are written only once. *)
resize_and_clear(t, s) ==
    LET n == Len(Prefix(t)) + Len(Suffix(t)) + PixelSize(t) * s[1] * s[2]
        v == resize_and_fill(t, t.v, n)
    IN  IF t.v # <<>> THEN v
        ELSE [i \in 1..n |->
            IF i < First(t) THEN Prefix(t)[i]
            ELSE IF i <= End(t, v) THEN v[i]
            ELSE Suffix(t)[i - End(t, v)]]

(* The units of `u` are written over those from i. *)
Over(v, i, u) == SubSeq(v, 1, i - 1) \o u \o SubSeq(v, i + Len(u), Len(v))

Written(t, v, x, y, color) ==
    Over(v, First(t) + PixelSize(t) * (t.size[1] * y + x), Pixel(t.mode, color))

(* Rows are painted from the bottom, and sent from the top.                *)
flip(t, v) ==
    LET w == PixelSize(t) * t.size[1]
        row(y) == SubSeq(v, First(t) + w * y, First(t) + w * (y + 1) - 1)
    IN  SubSeq(v, 1, First(t) - 1)
        \o FlattenSeq([i \in 1..t.size[2] |-> row(t.size[2] - i)])
        \o SubSeq(v, End(t, v) + 1, Len(v))

(* In place: the color of a run of pixels is set once, by its first one,   *)
(* and of the others there are only the characters.  `s` has the vector,   *)
(* the unit to be written, and the one to be read.                         *)
Run(t, s) ==
    LET ps == PixelSize(t)
        e == End(t, s.v) + 1
        v == Over(s.v, s.w, SubSeq(s.v, s.b, s.b + ps - 1))
        same(b) == \A c \in {c \in s.b..(b - 1) : (c - s.b) % ps = 0} :
            v[c + 1] = v[s.b + 1]
        b == CHOOSE b \in (s.b + ps)..e :
            /\ (b - s.b) % ps = 0 /\ same(b)
            /\ b = e \/ v[b + 1] # v[s.b + 1]
        spaces == [i \in 1..(((b - s.b) \div ps) - 1) |-> Unit("char", Blank)]
    IN  [v |-> Over(v, s.w + ps, spaces), w |-> s.w + ps + Len(spaces), b |-> b]

(* What is sent. *)
dedup(t, v) ==
    IF t.mode # "COLORED" \/ "DEDUPLICATE" \notin t.flags THEN v
    ELSE LET e == End(t, v) + 1
             last == InOrder(LAMBDA s, k : IF s.b = e THEN s ELSE Run(t, s),
                [v |-> v, w |-> First(t), b |-> First(t)],
                [k \in 1..(t.size[1] * t.size[2]) |-> k])
             suffix == SubSeq(last.v, e, Len(v))
         IN  SubSeq(Over(last.v, last.w, suffix), 1, last.w + Len(suffix) - 1)

-----------------------------------------------------------------------------
(* Rasterizer. *)

(* Rasterizer::update_camera(), with the matrices of the camera. *)
update_camera(t, s) == [t EXCEPT !.rast =
    [view |-> t.camera.view, screen |-> t.camera.screen, scale |-> s[3]]]

Offset(v) == IF v = 1 THEN <<0, 0>> ELSE <<2, -1>>

(* to_clip() and to_screen(): coordinates of a point of the world, or of   *)
(* the screen.  A camera without a screen has no projection.               *)
ToScreen(r, s, hud, p, k) ==
    LET scaled == (4 * p) \div r.scale
        moved == (4 * (p - Offset(r.view)[k])) \div r.scale
    IN  IF r.screen = <<0, 0>> THEN 2 * s[k] * (p + 1)
        ELSE IF hud THEN (scaled * s[k]) \div r.screen[k]
        ELSE 2 * s[k] + ((moved * s[k]) \div r.screen[k])

Clamp(max, q) == IF q < 0 THEN 0 ELSE IF q > max THEN max ELSE q
clamp_floor(max, q) == Clamp(max, q) \div 4
clamp_ceil(max, q) == (Clamp(max, q) + 3) \div 4

(* Mutant: those not entirely inside. *)
clip_all(s, bl, tr) == \E k \in 1..2 : bl[k] < 0 \/ 4 * s[k] <= tr[k]

clip(s, bl, tr) == \E k \in 1..2 : tr[k] < 0 \/ 4 * s[k] <= bl[k]

(* Which half of the texture has the point q, if the other end is at q1.   *)
uv_coord(q0, q, q1) == LET h == (2 * (q - q0)) \div (q1 - q0) IN IF h > 1 THEN 1 ELSE h

(* All from the first to the last, row by row. *)
Points(p, q) ==
    LET w == q[1] - p[1] + 1
    IN  IF \E k \in 1..2 : q[k] < p[k] THEN <<>>
        ELSE [i \in 1..(w * (q[2] - p[2] + 1)) |->
            <<p[1] + ((i - 1) % w), p[2] + ((i - 1) \div w)>>]

(* sprite(), with write_ascii() or write_colored().                        *)
Sprite(t, v, of, hud, tex) ==
    LET corners == Corners(of, t.buffers[of])
        q == [i \in 1..2 |-> [k \in 1..2 |->
            ToScreen(t.rast, t.size, hud, corners[i][k], k)]]
        flipped == [k \in 1..2 |-> q[2][k] < q[1][k]]
        bl == [k \in 1..2 |-> IF flipped[k] THEN q[2][k] ELSE q[1][k]]
        tr == [k \in 1..2 |-> IF flipped[k] THEN q[1][k] ELSE q[2][k]]
        max == [k \in 1..2 |-> 4 * (t.size[k] - 1)]
        from == [k \in 1..2 |-> clamp_ceil(max[k], bl[k])]
        to == [k \in 1..2 |-> clamp_floor(max[k], tr[k])]
        uv(p, k) == IF flipped[k] THEN uv_coord(-tr[k], -4 * p, -bl[k])
            ELSE uv_coord(bl[k], 4 * p, tr[k])
        texel(p) == <<uv(p[1], 1), uv(p[2], 2)>>
        write(u, p) == IF Transparent(texel(p)) THEN u
            ELSE Written(t, u, p[1], p[2], <<of, t.buffers[of], tex, texel(p)>>)
    IN  IF clip(t.size, bl, tr) \/ (\E k \in 1..2 : max[k] < bl[k]) THEN v
        ELSE InOrder(write, v, Points(from, to))

-----------------------------------------------------------------------------
(* render(): triangles are not painted, and of a list that is empty there  *)
(* is nothing to paint.                                                    *)
Rasterized(t, v, list, hud) ==
    InOrder(LAMBDA u, s :
        IF t.buffers[s.of] = 0 THEN u
        ELSE IF s.type = "SPRITE" THEN Sprite(t, u, s.of, hud, t.images["tex"])
        ELSE IF s.type = "FONT" /\ t.images["font"] # Undefined
        THEN Sprite(t, u, s.of, hud, t.images["font"])
        ELSE u,
        v, set_stage(Stages[list]))

Painted(t) ==
    LET v == InOrder(LAMBDA u, l : Rasterized(t, u, l, FALSE),
            resize_and_clear(t, t.size),
            <<"map_ortho", "map_persp", "normal", "no_light", "overlay">>)
    IN  Rasterized(t, v, "screen", TRUE)

-----------------------------------------------------------------------------
(* A terminal: at the end of the last row, the next character moves all of *)
(* them up; commands that are not complete are lost.                       *)

Put(y, c) ==
    LET w == y.size[1]
        n == w * y.size[2]
    IN  IF y.at < n THEN [y EXCEPT !.chars[y.at + 1] = c, !.at = @ + 1]
        ELSE [y EXCEPT !.at = n - w + 1, !.chars = [i \in 1..n |->
            IF i <= n - w THEN y.chars[i + w] ELSE IF i = n - w + 1 THEN c ELSE Blank]]

Shows(y, u) ==
    CASE u.c = "CLEAR" -> [y EXCEPT !.chars = [i \in DOMAIN @ |-> y.color]]
      [] u.c = "REPOSITION" -> [y EXCEPT !.at = 0]
      [] u.c = "RESET_COLOR" -> [y EXCEPT !.color = Blank]
      [] u.c = "color" -> [y EXCEPT !.color = u.v]
      [] u.c = "char" -> Put(y, IF u.v = Blank THEN y.color ELSE u.v)
      [] OTHER -> y

-----------------------------------------------------------------------------
Modes == {
    [mode |-> "ASCII", flags |-> {"REPOSITION"}],
    [mode |-> "COLORED", flags |-> {"CLEAR", "REPOSITION"}],
    [mode |-> "COLORED", flags |-> {"REPOSITION", "DEDUPLICATE"}],
    [mode |-> "COLORED", flags |-> {"REPOSITION", "DEDUPLICATE", "RESET_COLOR"}]}

(* NNGN::set_graphics(): it has no size before the first frame.            *)
Init ==
    /\ part \in {"sizes", "images"}
    /\ view = CHOOSE v \in Views : v.v = 1
    /\ size = (CHOOSE s \in Sizes : TRUE) /\ lamps = NoLights
    /\ pictures = [t \in {"tex", "font"} |-> Picture(1)]
    /\ objects = [o \in Objects |-> IF o = "text" THEN 0 ELSE 1]
    /\ fresh = FALSE
    /\ \E m \in Modes, s \in Ttys :
        /\ part = "images" => s = (CHOOSE t \in Ttys : t[3] = 2)
        /\ term = [mode |-> m.mode, flags |-> m.flags, size |-> <<0, 0, 0>>,
            v |-> <<>>, screen |-> <<0, 0>>,
            camera |-> [view |-> 1, screen |-> <<0, 0>>],
            rast |-> [view |-> 1, screen |-> <<0, 0>>, scale |-> 2],
            images |-> pictures, buffers |-> objects]
        /\ tty = [chars |-> [i \in 1..(s[1] * s[2]) |-> <<"shell">>],
            at |-> 0, color |-> Blank, size |-> s]

(* Text has no place before there is a size. *)
Placed(o) == o = "text" => term.v # <<>>

Unchanged == UNCHANGED <<size, lamps, part, tty>>

(* The user: what the terminal shows then is up to it. *)
tty_resize(s) ==
    /\ part = "sizes" /\ s # tty.size
    /\ Resets \/ "RESET_COLOR" \notin term.flags
    /\ tty' = [chars |-> [i \in 1..(s[1] * s[2]) |-> <<"shell">>],
        at |-> 0, color |-> tty.color, size |-> s]
    /\ fresh' = FALSE
    /\ UNCHANGED <<size, lamps, part, term, view, pictures, objects>>

(* Camera::update() and set_camera_updated(), with the last screen. *)
camera_update(t, v) == update_camera(
    [t EXCEPT !.camera = [view |-> v.v, screen |-> t.screen]],
    IF t.size[3] = 0 THEN <<0, 0, 2>> ELSE t.size)

set_camera_updated(v) ==
    /\ part = "sizes" /\ view' = v
    /\ term' = camera_update(term, v)
    /\ fresh' = FALSE
    /\ UNCHANGED <<pictures, objects>> /\ Unchanged

write_to_buffer(o, v) ==
    /\ Placed(o)
    /\ objects' = [objects EXCEPT ![o] = v]
    /\ term' = [term EXCEPT !.buffers[o] = v]
    /\ fresh' = FALSE
    /\ UNCHANGED <<view, pictures>> /\ Unchanged

(* load_textures(), load_font(), resize_font(): images are copied. *)
load(t, p) ==
    /\ part = "images"
    /\ pictures' = [pictures EXCEPT ![t] = p]
    /\ term' = [term EXCEPT !.images[t] = p]
    /\ fresh' = FALSE
    /\ UNCHANGED <<view, objects>> /\ Unchanged

(* Terminal::update_size() and size_cb: the camera is given the new size,  *)
(* but has its matrices of before until it is updated, in the next frame.  *)
update_size(t) ==
    IF t.size = tty.size THEN t
    ELSE update_camera([t EXCEPT !.size = tty.size,
            !.screen = <<tty.size[1], tty.size[2]>>],
        tty.size)

(* Camera::update() and render().  A frame that finds another size is      *)
(* painted with the matrices for the one before.                           *)
render ==
    \E c \in {IF term.screen = term.camera.screen THEN term
              ELSE camera_update(term, view)} :
    \E t \in {update_size(c)} : \E painted \in {Painted(t)} :
    \E v \in {flip(t, painted)} : \E sent \in {dedup(t, v)} :
        /\ term' = [t EXCEPT !.v = v]
        /\ tty' = InOrder(Shows, tty, sent)
        /\ fresh' = (t.screen = c.screen)
        /\ UNCHANGED <<inputs, part>>

Next ==
    \/ \E s \in Ttys : tty_resize(s)
    \/ \E v \in Views : set_camera_updated(v)
    \/ \E v \in Versions : part = "sizes" /\ write_to_buffer("sprites", v)
    \/ \E o \in {"sprites", "text"}, v \in {0, 1} :
        part = "images" /\ write_to_buffer(o, v)
    \/ \E v \in Versions : load("tex", Picture(v))
    \/ load("font", Picture(1))
    \/ load("font", Undefined)
    \/ render

-----------------------------------------------------------------------------
(* What there has to be in a character, of what covers its lower left      *)
(* corner, in which x and y are from 0.                                    *)

Distance(i, j) == IF i < j THEN j - i ELSE i - j

Covering(of, x, y) ==
    LET place(c, k) == IF of = "text" THEN (4 * c[k]) \div tty.size[3]
            ELSE 2 * tty.size[k] + ((4 * (c[k] - Offset(view.v)[k])) \div tty.size[3])
        a == [k \in 1..2 |-> place(Corners(of, objects[of])[1], k)]
        b == [k \in 1..2 |-> place(Corners(of, objects[of])[2], k)]
        p == <<4 * x, 4 * y>>
        in(k) == p[k] \in (a[k]..b[k]) \cup (b[k]..a[k])
        half(k) == IF 2 * Distance(a[k], p[k]) < Distance(a[k], b[k]) THEN 0 ELSE 1
        texel == <<half(1), half(2)>>
        picture == pictures[IF of = "text" THEN "font" ELSE "tex"]
    IN  IF objects[of] = 0 \/ picture = Undefined \/ ~in(1) \/ ~in(2)
            \/ Transparent(texel)
        THEN Blank
        ELSE <<of, objects[of], picture, texel>>

ExpectedChars ==
    [i \in 1..(tty.size[1] * tty.size[2]) |->
        LET x == (i - 1) % tty.size[1]
            y == tty.size[2] - 1 - ((i - 1) \div tty.size[1])
        IN  FoldLeft(LAMBDA c, of :
                IF Covering(of, x, y) = Blank THEN c ELSE Covering(of, x, y),
                Blank, <<"map", "sprites", "translucent", "text">>)]

(* A frame shows what there is to paint where it is now, the last of what  *)
(* covers each character and nothing of earlier frames, and leaves the     *)
(* terminal with its own colors if it was told to, whatever the sizes it   *)
(* has had: render() in src/graphics/terminal/terminal.cpp.                *)
Shown ==
    fresh =>
        /\ tty.chars = ExpectedChars
        /\ "RESET_COLOR" \in term.flags => tty.color = Blank
=============================================================================
