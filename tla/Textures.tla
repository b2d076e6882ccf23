------------------------------ MODULE Textures ------------------------------
(***************************************************************************)
(* The texture cache (src/graphics/texture.cpp) with those that hold       *)
(* textures, scripts and renderers (src/render/render.cpp), and the        *)
(* graphics back end the images are uploaded to.                           *)
(*                                                                         *)
(* Slots are never cleared: one whose count is zero keeps its name, and    *)
(* its image in the back end, until another name takes its place.  An      *)
(* image is modelled by the name it was loaded with; hashes are taken not  *)
(* to collide.                                                             *)
(***************************************************************************)
EXTENDS Naturals, FiniteSets

CONSTANTS
    Names,          \* of files and of data made by scripts
    MaxTextures,    \* number of slots, set_max()
    Renderers,      \* the renderers that show a texture
    NoName,         \* name of a slot that was never used
    Unknown,        \* content of an image that was not uploaded
    MaxRefs,        \* bound: references held by scripts to one texture
    GenMod,         \* bound: the generation is counted modulo this
    UploadFails,    \* may the back end fail to take an image?
    Swaps           \* may the back end be replaced?

ASSUME TexturesAssumption ==
    /\ MaxTextures \in Nat \ {0} /\ MaxRefs \in Nat /\ GenMod \in Nat \ {0}
    /\ NoName \notin Names /\ Unknown \notin Names
    /\ IsFiniteSet(Renderers)
    /\ UploadFails \in BOOLEAN /\ Swaps \in BOOLEAN

VARIABLES
    counts,     \* references to each slot
    names,      \* name (and hash) of each slot
    gen,        \* generation
    image,      \* what the back end has for each slot
    tex,        \* the texture of each renderer, 0: none
    held,       \* history: references to each slot held by scripts
    lost        \* history: slots whose image was lost and not uploaded again

texturesVars == <<counts, names, gen, image, tex, held, lost>>

(* Index 0 is reserved, for no texture and for errors. *)
TextureSlots == 1..(MaxTextures - 1)

TexturesTypeOK ==
    /\ counts \in [TextureSlots -> Nat]
    /\ names \in [TextureSlots -> Names \cup {NoName}]
    /\ gen \in 0..(GenMod - 1)
    /\ image \in [TextureSlots -> Names \cup {Unknown}]
    /\ tex \in [Renderers -> 0..(MaxTextures - 1)]
    /\ held \in [TextureSlots -> 0..MaxRefs]
    /\ lost \subseteq TextureSlots

TexturesInit ==
    /\ counts = [i \in TextureSlots |-> 0]
    /\ names = [i \in TextureSlots |-> NoName]
    /\ gen = 0
    /\ image = [i \in TextureSlots |-> Unknown]
    /\ tex = [r \in Renderers |-> 0]
    /\ held = [i \in TextureSlots |-> 0]
    /\ lost = {}

Advanced(n) == (gen + n) % GenMod

(* A new reference of a script. *)
Held(i) == held[i] < MaxRefs /\ held' = [held EXCEPT ![i] = @ + 1]

(* Lookups go through the slots from the first. *)
First(S) == {i \in S : \A j \in S : i <= j}

(* find(): slots with the name, in use or not. *)
Found(name) == {i \in TextureSlots : names[i] = name}

(* Slots nothing refers to, of which find_empty() takes the first. *)
Empty == {i \in TextureSlots : counts[i] = 0}

(* What a failed upload may leave of an image. *)
Damaged(i, name) == {image[i], name, Unknown}

-----------------------------------------------------------------------------
(* Mutant: the reference is not counted. *)
load_uncounted(name) ==
    \E i \in First(Found(name)) :
        /\ Held(i)
        /\ counts' = [counts EXCEPT ![i] = IF @ = 0 THEN 1 ELSE @]
        /\ UNCHANGED <<names, gen, image, tex, lost>>

(* load() and load_data() of a name that is found: the data is not used.   *)
load_found(name) ==
    \E i \in First(Found(name)) :
        /\ Held(i)
        /\ counts' = [counts EXCEPT ![i] = @ + 1]
        /\ UNCHANGED <<names, gen, image, tex, lost>>

(* Mutant: the image is uploaded after those in use. *)
insert_after(name) ==
    /\ Found(name) = {}
    /\ \E i \in First(Empty) :
           /\ Held(i)
           /\ image' = [image EXCEPT
                    ![Cardinality(TextureSlots \ Empty) + 1] = name]
           /\ names' = [names EXCEPT ![i] = name]
           /\ counts' = [counts EXCEPT ![i] = 1]
           /\ gen' = Advanced(1)
           /\ lost' = lost \ {i}
           /\ UNCHANGED tex

(* load() and load_data() of another name, in the first empty slot: if the *)
(* image is uploaded (insert()) ...                                        *)
insert(name) ==
    /\ Found(name) = {}
    /\ \E i \in First(Empty) :
           /\ Held(i)
           /\ image' = [image EXCEPT ![i] = name]
           /\ names' = [names EXCEPT ![i] = name]
           /\ counts' = [counts EXCEPT ![i] = 1]
           /\ gen' = Advanced(1)
           /\ lost' = lost \ {i}
           /\ UNCHANGED tex

(* ... and if it is not, when the slot keeps its name. *)
insert_fails(name) ==
    /\ UploadFails /\ Found(name) = {}
    /\ \E i \in First(Empty), c \in Names \cup {Unknown} :
        /\ c \in Damaged(i, name)
        /\ image' = [image EXCEPT ![i] = c]
        /\ lost' = lost \cup {i}
    /\ UNCHANGED <<counts, names, gen, tex, held>>

(* remove() by a script, of a reference it holds. *)
remove(i) ==
    /\ held[i] > 0
    /\ held' = [held EXCEPT ![i] = @ - 1]
    /\ counts' = [counts EXCEPT ![i] = @ - 1]
    /\ gen' = Advanced(1)
    /\ UNCHANGED <<names, image, tex, lost>>

(* Mutant: the renderer shares the reference of the script. *)
renderer_shares(r, i) ==
    /\ tex[r] = 0 /\ held[i] > 0
    /\ tex' = [tex EXCEPT ![r] = i]
    /\ UNCHANGED <<counts, names, gen, image, held, lost>>

(* Renderers::load() with a texture a script holds: add_ref(). *)
renderer_load(r, i) ==
    /\ tex[r] = 0 /\ held[i] > 0
    /\ tex' = [tex EXCEPT ![r] = i]
    /\ counts' = [counts EXCEPT ![i] = @ + 1]
    /\ gen' = Advanced(1)
    /\ UNCHANGED <<names, image, held, lost>>

(* Renderers::remove(). *)
renderer_remove(r) ==
    /\ tex[r] # 0
    /\ counts' = [counts EXCEPT ![tex[r]] = @ - 1]
    /\ gen' = Advanced(1)
    /\ tex' = [tex EXCEPT ![r] = 0]
    /\ UNCHANGED <<names, image, held, lost>>

(* NNGN::set_graphics(): nothing is uploaded to the new back end. *)
set_graphics ==
    /\ Swaps
    /\ image' = [i \in TextureSlots |-> Unknown]
    /\ lost' = TextureSlots
    /\ UNCHANGED <<counts, names, gen, tex, held>>

(* reload_all(), which goes through the slots that are in use, ... *)
reload_all ==
    /\ image' = [i \in TextureSlots |-> IF counts[i] > 0 THEN names[i] ELSE image[i]]
    /\ lost' = lost \cap Empty
    /\ UNCHANGED <<counts, names, gen, tex, held>>

(* ... up to the first that fails. *)
reload_all_fails ==
    /\ UploadFails
    /\ \E n \in TextureSlots : \E c \in Damaged(n, names[n]) :
        /\ counts[n] > 0
        /\ image' = [i \in TextureSlots |->
                IF counts[i] = 0 \/ i > n THEN image[i]
                ELSE IF i = n THEN c ELSE names[i]]
        /\ lost' = {i \in lost : i > n \/ counts[i] = 0} \cup {n}
    /\ UNCHANGED <<counts, names, gen, tex, held>>

TexturesNext ==
    \/ \E name \in Names :
        load_found(name) \/ insert(name) \/ insert_fails(name)
    \/ \E i \in TextureSlots : remove(i)
    \/ \E r \in Renderers :
        \/ \E i \in TextureSlots : renderer_load(r, i)
        \/ renderer_remove(r)
    \/ set_graphics
    \/ reload_all
    \/ reload_all_fails

TexturesSpec == TexturesInit /\ [][TexturesNext]_texturesVars

-----------------------------------------------------------------------------
(* Properties.                                                             *)

(* The count of a slot is the number of those that hold it, scripts and    *)
(* renderers: a texture in use is never taken for empty, one not in use    *)
(* never stays, and no call of remove() finds the count at zero (its       *)
(* assertion, texture.cpp:242).                                            *)
CountsExact ==
    \A i \in TextureSlots :
        counts[i] = held[i] + Cardinality({r \in Renderers : tex[r] = i})

(* No name has two slots, so that all who load it share one. *)
NamesUnique ==
    \A i, j \in TextureSlots : i # j /\ names[i] # NoName => names[i] # names[j]

(* A slot that is held has its image in the back end, unless that was lost *)
(* with a failed upload or the last back end and not uploaded since: a name*)
(* that is found without loading anything leads to its own image.          *)
ImagesRight ==
    \A i \in TextureSlots : counts[i] > 0 /\ i \notin lost => image[i] = names[i]

(* What makes them inductive: a slot that is held has a name, and one that *)
(* is found by its name without being held has the image of that name too. *)
Named == \A i \in TextureSlots : counts[i] > 0 => names[i] # NoName

ImagesKept ==
    \A i \in TextureSlots : names[i] # NoName /\ i \notin lost => image[i] = names[i]

TexturesInv == TexturesTypeOK /\ CountsExact /\ NamesUnique /\ Named /\ ImagesKept

(* The texture a renderer shows is not exchanged for another as long as it *)
(* shows it.                                                               *)
ShownStays ==
    [][\A r \in Renderers :
            tex[r] # 0 /\ tex'[r] = tex[r] => names'[tex[r]] = names[tex[r]]]_texturesVars
=============================================================================
