------------------------------ MODULE Textbox ------------------------------
(***************************************************************************)
(* The box of text at the bottom of the screen (src/font/textbox.cpp) and  *)
(* the buffers it is written to (src/render/render.cpp).  A text appears   *)
(* one character after the other; the box grows with it, and is laid out   *)
(* when text appears or the screen changes.                                *)
(*                                                                         *)
(* A text is the sequence of whether its bytes are characters (line breaks *)
(* and commands are not, and take no time).  Sizes are not numbers: the    *)
(* extent of a text is the text itself, up to the cursor, and a layout is  *)
(* what it was computed from.                                              *)
(***************************************************************************)
EXTENDS Naturals, Sequences, FiniteSets, FiniteSetsExt

CONSTANTS
    Titles, Texts,
    Speeds,         \* arguments of set_speed: time for each character
    Steps,          \* times between frames
    MaxTimer,       \* bound: where the timer stops
    TitlesAlone,    \* may a title change when its text does not?
    CursorsEnd,     \* may set_cur() go to the end of the text?
    Nothing         \* what is in an empty buffer

TextboxAssumption ==
    /\ Titles \subseteq Seq(BOOLEAN) /\ Texts \subseteq Seq(BOOLEAN)
    /\ <<>> \in Titles /\ <<>> \notin Texts
    /\ Speeds \subseteq Nat /\ Steps \subseteq Nat \ {0} /\ MaxTimer \in Nat
    /\ TitlesAlone \in BOOLEAN /\ CursorsEnd \in BOOLEAN
ASSUME TextboxAssumption

VARIABLES
    title, str,     \* texts
    cur,            \* how much of str has appeared
    timer, speed,
    monospaced,
    tflags,         \* UPDATED, SCREEN_UPDATED
    laid,           \* the corners of the box
    title_laid,     \* and of the title
    text_buffer, box_buffer

tvars == <<title, str, cur, timer, speed, monospaced, tflags, laid, title_laid,
    text_buffer, box_buffer>>
text == <<title, str, cur>>
layout == <<laid, title_laid>>
tbuffers == <<text_buffer, box_buffer>>

TextboxTypeOK ==
    /\ title \in Titles /\ str \in Texts \cup {<<>>}
    /\ cur \in 0..Len(str)
    /\ timer \in 0..MaxTimer /\ speed \in Speeds
    /\ monospaced \in BOOLEAN
    /\ tflags \subseteq {"UPDATED", "SCREEN_UPDATED"}

Extent == <<str, cur>>
Corners(x, screen) == [extent |-> x, screen |-> screen]
TitleCorners(t, m, box, x) ==
    [title |-> t, monospaced |-> m, box |-> box, extent |-> x]

TextboxInit ==
    /\ title = <<>> /\ str = <<>> /\ cur = 0
    /\ timer = 0 /\ speed = Max(Speeds) /\ monospaced = FALSE
    /\ tflags = {}
    /\ laid = Nothing /\ title_laid = Nothing
    /\ text_buffer = Nothing /\ box_buffer = Nothing

finished == cur = Len(str)

-----------------------------------------------------------------------------
(* Operations of scripts.                                                  *)

(* set_title() and set_text(), in src/lua/lib/textbox.lua *)
set_texts(t, s) ==
    /\ title' = t
    /\ str' = s /\ cur' = 0 /\ timer' = 0
    /\ tflags' = tflags \cup {"UPDATED"}
    /\ UNCHANGED <<speed, monospaced, layout, tbuffers>>

(* A title alone is laid out only if something else asks for it. *)
set_title(t) ==
    /\ TitlesAlone \/ ~finished
    /\ title' = t
    /\ tflags' = tflags \cup {"UPDATED"}
    /\ UNCHANGED <<str, cur, timer, speed, monospaced, layout, tbuffers>>

(* Nothing is flagged, as if update() would do it: not at the end. *)
set_cur(c) ==
    /\ c < Len(str) \/ (CursorsEnd /\ c = Len(str))
    /\ cur' = c
    /\ UNCHANGED <<title, str, timer, speed, monospaced, tflags, layout,
        tbuffers>>

set_speed(s) ==
    /\ speed' = s
    /\ UNCHANGED <<text, timer, monospaced, tflags, layout, tbuffers>>

(* The title is laid out again, next to the box as it was. *)
set_monospaced(m) ==
    /\ monospaced' = m
    /\ tflags' = tflags \cup {"UPDATED"}
    /\ title_laid' = TitleCorners(title, m, laid, Extent)
    /\ UNCHANGED <<text, timer, speed, laid, tbuffers>>

-----------------------------------------------------------------------------
(* A frame.                                                                *)

Characters(s) == Cardinality({i \in DOMAIN s : s[i]})

(* The end of the first n characters. *)
Advanced(s, from, n) ==
    Min({k \in from..Len(s) :
        k = Len(s) \/ Characters(SubSeq(s, from + 1, k)) = n})

Capped(t) == Min({t, MaxTimer})

(* Mutant: what was waited for is waited for again. *)
appear_restarting(dt) ==
    LET waited == timer + dt
        n == IF speed = 0 THEN Len(str) ELSE waited \div speed
    IN  /\ cur' = Advanced(str, cur, n)
        /\ timer' = 0
        /\ tflags' = tflags \cup {"UPDATED"}

(* Textbox::update(), while there is text left *)
appear(dt) ==
    LET waited == timer + dt
        n == IF speed = 0 THEN Len(str) ELSE waited \div speed
        appeared == Characters(SubSeq(str, cur + 1, cur'))
    IN  /\ cur' = Advanced(str, cur, n)
        /\ timer' = Capped(waited - speed * appeared)
        /\ tflags' = tflags \cup {"UPDATED"}

(* Mutant: the layout waits for the screen. *)
lay_out_screen(screen) ==
    IF "SCREEN_UPDATED" \in tflags
    THEN /\ laid' = Corners(<<str, cur'>>, screen)
         /\ title_laid' = TitleCorners(title, monospaced, laid', <<str, cur'>>)
    ELSE UNCHANGED layout

(* update_size() *)
lay_out(screen) ==
    /\ laid' = Corners(<<str, cur'>>, screen)
    /\ title_laid' = TitleCorners(title, monospaced, laid', <<str, cur'>>)

update_textbox(dt, screen) ==
    /\ IF finished
       THEN /\ timer' = Capped(timer + dt)
            /\ UNCHANGED <<cur, tflags>>
       ELSE appear(dt)
    /\ IF ~finished \/ "SCREEN_UPDATED" \in tflags
       THEN lay_out(screen)
       ELSE UNCHANGED layout
    /\ UNCHANGED <<title, str, speed, monospaced, tbuffers>>

(* text_length() *)
Length == Characters(title) + Characters(SubSeq(str, 1, cur))

Letters(box, corners) ==
    [title |-> title, str |-> Extent, monospaced |-> monospaced,
        title_at |-> corners, at |-> box]

(* Renderers::update_renderers(): update_text(), update_textbox(), and     *)
(* Textbox::clear_updated() after them.                                    *)
write_textbox ==
    /\ IF tflags = {} THEN UNCHANGED tbuffers
       ELSE /\ text_buffer' =
                IF Length = 0 THEN Nothing ELSE Letters(laid, title_laid)
            /\ box_buffer' = IF str = <<>> THEN Nothing ELSE layout
    /\ tflags' = {}
    /\ UNCHANGED <<text, timer, speed, monospaced, layout>>

(* The buffers of another back end are empty. *)
empty_textbox ==
    /\ text_buffer' = Nothing /\ box_buffer' = Nothing
    /\ tflags' = tflags \cup {"SCREEN_UPDATED"}
    /\ UNCHANGED <<text, timer, speed, monospaced, layout>>

-----------------------------------------------------------------------------
(* What is drawn is the text that has appeared, in a box and below a title *)
(* that are laid out for it and for the screen.                            *)
TextMatches(screen) ==
    LET box == Corners(Extent, screen)
        corners == TitleCorners(title, monospaced, box, Extent)
    IN  /\ str # <<>> =>
            /\ text_buffer =
                IF Length = 0 THEN Nothing ELSE Letters(box, corners)
            /\ box_buffer = <<box, corners>>
        /\ str = <<>> => box_buffer = Nothing
        /\ Length = 0 => text_buffer = Nothing
=============================================================================
