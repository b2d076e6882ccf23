---------------------------- MODULE SceneProofs -----------------------------
(***************************************************************************)
(* What is drawn is what there is, for any entities, types, lights, texts, *)
(* windows and positions of the camera, and whatever scripts change before *)
(* a frame or in the middle of it.                                         *)
(*                                                                         *)
(* There is an invariant for each part: the arrays of renderers, the       *)
(* camera, the box of text, the lights and the selections.  All have one   *)
(* form: what was written last is what there is, or a flag says that it is *)
(* not, and the flag is found in time.  Only that of the camera is used by *)
(* others: its flags, which are cleared when it has moved.                 *)
(*                                                                         *)
(* Animations are different: the invariant is that the timer of each has   *)
(* what is left of its age, after the durations of the frames before its   *)
(* own.  What update() does to a track in one step is computed from sums   *)
(* of durations, which go around the track as often as there is time.      *)
(***************************************************************************)
EXTENDS Scene, SequenceTheorems, FiniteSetTheorems, WellFoundedInduction, TLAPS

(* Lists whose elements may be anything.                                   *)
IsList(s) == s \in Seq({s[i] : i \in DOMAIN s})

LEMMA ListIs ==
    ASSUME NEW s, IsList(s)
    PROVE  /\ Len(s) \in Nat /\ DOMAIN s = 1..Len(s)
           /\ s = [i \in 1..Len(s) |-> s[i]]
BY LenProperties DEF IsList

LEMMA IsListOf ==
    ASSUME NEW n \in Nat, NEW s, DOMAIN s = 1..n, s = [i \in 1..n |-> s[i]]
    PROVE  IsList(s) /\ Len(s) = n
<1> DEFINE S == {s[i] : i \in DOMAIN s}
<1>1. s \in [1..n -> S]
  OBVIOUS
<1> HIDE DEF S
<1>2. s \in Seq(S)
  BY <1>1, SeqDef
<1>3. Len(s) = n
  BY <1>1, <1>2, LenProperties
<1> QED BY <1>2, <1>3 DEF IsList, S

LEMMA EmptyList == IsList(<<>>) /\ Len(<<>>) = 0 /\ DOMAIN <<>> = {}
BY EmptySeq DEF IsList

LEMMA ListAppend ==
    ASSUME NEW s, IsList(s), NEW x
    PROVE  /\ IsList(Append(s, x)) /\ Len(Append(s, x)) = Len(s) + 1
           /\ \A i \in 1..Len(s) : Append(s, x)[i] = s[i]
           /\ Append(s, x)[Len(s) + 1] = x
<1> DEFINE S == {s[i] : i \in DOMAIN s}
           T == S \cup {x}
           a == Append(s, x)
<1>1. s \in Seq(T) /\ x \in T
  <2>1. S \subseteq T /\ s \in Seq(S)
    BY DEF IsList
  <2> HIDE DEF S
  <2>2. Seq(S) \subseteq Seq(T)
    BY <2>1, SeqMonotonic
  <2> QED BY <2>1, <2>2
<1> HIDE DEF S, T
<1>2. /\ a \in Seq(T) /\ Len(a) = Len(s) + 1
      /\ \A i \in 1..Len(s) : a[i] = s[i]
      /\ a[Len(s) + 1] = x
  BY <1>1, AppendProperties
<1>3. Len(s) \in Nat /\ Len(s) + 1 \in Nat
  BY ListIs
<1> HIDE DEF a
<1>4. IsList(a)
  <2>1. DOMAIN a = 1..(Len(s) + 1) /\ a = [i \in 1..(Len(s) + 1) |-> a[i]]
    BY <1>2, LenProperties
  <2> QED BY <1>3, <2>1, IsListOf
<1> QED BY <1>2, <1>4 DEF a

(* The last element takes the place of element i.                          *)
Moves(s, i, r) ==
    /\ IsList(r) /\ Len(r) = Len(s) - 1
    /\ \A j \in 1..Len(s) - 1 :
        r[j] = IF j = i THEN [s[Len(s)] EXCEPT !.updated = TRUE] ELSE s[j]

LEMMA RemovedMoves ==
    ASSUME NEW s, IsList(s), NEW i \in 1..Len(s)
    PROVE  Moves(s, i, Removed(s, i)) /\ Moves(s, i, RemovedLight(s, i))
<1> DEFINE S == {s[j] : j \in DOMAIN s}
           f == Front(s)
           l == [s[Len(s)] EXCEPT !.updated = TRUE]
           n == Len(s) - 1
<1>1. /\ Len(s) \in Nat /\ n \in Nat /\ DOMAIN s = 1..Len(s)
      /\ s \in Seq(S) /\ \A j \in 1..Len(s) : s[j] \in S
  BY ListIs DEF IsList
<1> HIDE DEF S
<1>2. /\ f \in Seq(S) /\ Len(f) = n
      /\ \A j \in 1..n : f[j] = s[j]
  <2>1. \A j \in 1..n : s[j] \in S
    BY <1>1
  <2>2. /\ f \in Seq(S)
        /\ Len(f) = IF 1 <= n THEN n - 1 + 1 ELSE 0
        /\ \A j \in 1..(n - 1 + 1) : f[j] = s[1 + j - 1]
    BY <1>1, <2>1, SubSeqProperties DEF Front
  <2> HIDE DEF f, n
  <2> QED BY <1>1, <2>2
<1>3. IsList(f) /\ DOMAIN f = 1..n
  <2> HIDE DEF f
  <2>1. DOMAIN f = 1..n /\ f = [j \in 1..n |-> f[j]]
    BY <1>2, LenProperties
  <2> QED BY <1>1, <2>1, IsListOf
<1>4. Last(s) = s[Len(s)]
  BY DEF Last
<1> HIDE DEF f
<1> DEFINE r == IF i = Len(s) THEN f ELSE [f EXCEPT ![i] = l]
<1>5. Removed(s, i) = r /\ RemovedLight(s, i) = r
  BY <1>4 DEF Removed, RemovedLight, f
<1>6. Moves(s, i, r)
  <2>1. CASE i = Len(s)
    <3>1. r = f
      BY <2>1
    <3>2. \A j \in 1..n : j # i /\ f[j] = s[j]
      <4> DEFINE m == Len(s)
      <4>1. m \in Nat /\ n = m - 1 /\ i = m
        BY <1>1, <2>1
      <4> HIDE DEF m, n
      <4>2. \A j \in 1..n : j # i
        BY <4>1
      <4> QED BY <1>2, <4>2
    <3> HIDE DEF r
    <3> QED BY <1>2, <1>3, <3>1, <3>2 DEF Moves
  <2>2. CASE i # Len(s)
    <3> DEFINE g == [f EXCEPT ![i] = l]
    <3>1. DOMAIN g = 1..n /\ g = [j \in 1..n |-> g[j]]
      BY <1>3
    <3>2. \A j \in 1..n : g[j] = IF j = i THEN l ELSE s[j]
      BY <1>2, <1>3
    <3>3. r = g
      BY <2>2
    <3> HIDE DEF g, l, r
    <3>4. IsList(g) /\ Len(g) = n
      BY <1>1, <3>1, IsListOf
    <3> QED BY <3>2, <3>3, <3>4 DEF Moves, l
  <2> QED BY <2>1, <2>2
<1> QED BY <1>5, <1>6

-----------------------------------------------------------------------------
(* Renderers.                                                              *)

IsRenderer(r) ==
    /\ r = [ent |-> r.ent, look |-> r.look, updated |-> r.updated]
    /\ r.updated \in BOOLEAN

LEMMA RendererFlagged ==
    ASSUME NEW r, IsRenderer(r), NEW b \in BOOLEAN
    PROVE  LET c == [r EXCEPT !.updated = b] IN
           IsRenderer(c) /\ c.updated = b /\ c.ent = r.ent /\ c.look = r.look
<1> DEFINE c == [r EXCEPT !.updated = b]
           e == r.ent
           l == r.look
           u == r.updated
<1>1. r = [ent |-> e, look |-> l, updated |-> u]
  BY DEF IsRenderer
<1> HIDE DEF e, l, u
<1>2. c = [ent |-> e, look |-> l, updated |-> b]
  BY <1>1
<1> HIDE DEF c
<1>3. IsRenderer(c) /\ c.updated = b /\ c.ent = e /\ c.look = l
  BY <1>2 DEF IsRenderer
<1> QED BY <1>3 DEF c, e, l

LEMMA RendererLooks ==
    ASSUME NEW r, IsRenderer(r), NEW x
    PROVE  LET d == [r EXCEPT !.look = x, !.updated = TRUE] IN
           IsRenderer(d) /\ d.updated = TRUE /\ d.ent = r.ent /\ d.look = x
<1> DEFINE d == [r EXCEPT !.look = x, !.updated = TRUE]
           c == [r EXCEPT !.look = x]
           e == r.ent
           l == r.look
           u == r.updated
<1>1. r = [ent |-> e, look |-> l, updated |-> u]
  BY DEF IsRenderer
<1>2. d = [c EXCEPT !.updated = TRUE]
  OBVIOUS
<1> HIDE DEF e, l, u, d
<1>3. c = [ent |-> e, look |-> x, updated |-> u]
  BY <1>1
<1> HIDE DEF c
<1>4. d = [ent |-> e, look |-> x, updated |-> TRUE]
  BY <1>2, <1>3
<1>5. IsRenderer(d) /\ d.updated = TRUE /\ d.ent = e /\ d.look = x
  BY <1>4 DEF IsRenderer
<1> QED BY <1>5 DEF d, e

LEMMA RendererShows ==
    ASSUME NEW r, IsRenderer(r), NEW x
    PROVE  LET f == [r EXCEPT !.updated = TRUE, !.look.uv = x] IN
           /\ IsRenderer(f) /\ f.updated = TRUE /\ f.ent = r.ent
           /\ f.look = [r.look EXCEPT !.uv = x]
<1> DEFINE f == [r EXCEPT !.updated = TRUE, !.look.uv = x]
           c == [r EXCEPT !.updated = TRUE]
           m == [c.look EXCEPT !.uv = x]
           e == r.ent
<1>1. /\ IsRenderer(c) /\ c.updated = TRUE /\ c.ent = e
      /\ m = [r.look EXCEPT !.uv = x]
  <2>1. IsRenderer(c) /\ c.updated = TRUE /\ c.ent = e /\ c.look = r.look
    BY RendererFlagged DEF e
  <2> HIDE DEF c
  <2> QED BY <2>1
<1>2. f = [c EXCEPT !.look = m]
  OBVIOUS
<1> HIDE DEF c, m, f, e
<1> DEFINE l == c.look
<1>3. c = [ent |-> e, look |-> l, updated |-> TRUE]
  BY <1>1 DEF IsRenderer
<1> HIDE DEF l
<1>4. f = [ent |-> e, look |-> m, updated |-> TRUE]
  BY <1>2, <1>3
<1>5. IsRenderer(f) /\ f.updated = TRUE /\ f.ent = e /\ f.look = m
  BY <1>4 DEF IsRenderer
<1> QED BY <1>1, <1>5 DEF f, e

Arrays ==
    /\ renderers = [t \in Types |-> renderers[t]]
    /\ \A t \in Types :
        /\ IsList(renderers[t]) /\ Len(renderers[t]) <= MaxRenderers
        /\ \A i \in 1..Len(renderers[t]) : IsRenderer(renderers[t][i])

(* A buffer has what there is, or will be written.                         *)
BuffersFollow ==
    \A t \in Types : Updated(t) \/ Look(t, buffers[t]) = Look(t, Generated(t))

DebugFollows ==
    \A t \in Types \cap DebugTypes :
        \/ "DEBUG" \in rflags \/ Updated(t)
        \/ debug_buffers[t] = IF debug THEN Outlines(t) ELSE <<>>

(* After renderers.update(), in a frame. *)
Ready == {"renderers", "lighting", "draw"}

RenderersInv ==
    /\ Arrays /\ BuffersFollow /\ DebugFollows
    /\ pc \in Ready => BuffersMatch /\ DebugMatches

LEMMA TypesAreNoFlags ==
    /\ Types \subseteq AllTypes
    /\ \A t \in Types : t \notin {"DEBUG", "SELECTION", "PERSPECTIVE", "ZSPRITES"}
BY RenderersAssumption DEF RenderersAssumption, AllTypes

(* A type whose array, flag and projection stay needs nothing, and one     *)
(* that is flagged, or has something that is, gets what it needs.          *)
LEMMA Following ==
    ASSUME BuffersFollow, DebugFollows, UNCHANGED <<buffers, debug_buffers>>,
           "DEBUG" \in rflags => "DEBUG" \in rflags',
           debug' = debug \/ "DEBUG" \in rflags',
           \A t \in Types :
                \/ Updated(t)'
                \/ /\ renderers'[t] = renderers[t]
                   /\ t \in rflags => t \in rflags'
                   /\ t = "voxel" \/ Projection(t)' = Projection(t)
    PROVE  BuffersFollow' /\ DebugFollows'
<1>1. ASSUME NEW t \in Types, ~Updated(t)'
      PROVE  /\ renderers'[t] = renderers[t] /\ ~Updated(t)
             /\ Look(t, Generated(t))' = Look(t, Generated(t))
             /\ Outlines(t)' = Outlines(t)
  <2>1. /\ renderers'[t] = renderers[t]
        /\ t \in rflags => t \in rflags'
        /\ t = "voxel" \/ Projection(t)' = Projection(t)
    BY <1>1
  <2>2. ~Updated(t) /\ Outlines(t)' = Outlines(t)
    BY <1>1, <2>1 DEF Updated, Outlines
  <2>3. Look(t, Generated(t))' = Look(t, Generated(t))
    <3>1. CASE t = "voxel"
      BY <2>1, <3>1 DEF Look, Generated
    <3>2. CASE Projection(t)' = Projection(t)
      BY <2>1, <3>2 DEF Look, Generated
    <3> QED BY <2>1, <3>1, <3>2
  <2> QED BY <2>1, <2>2, <2>3
<1>2. BuffersFollow'
  <2> SUFFICES ASSUME NEW t \in Types, ~Updated(t)'
               PROVE  Look(t, buffers[t])' = Look(t, Generated(t))'
    BY DEF BuffersFollow
  <2>1. Look(t, buffers[t]) = Look(t, Generated(t))
    BY <1>1 DEF BuffersFollow
  <2>2. Look(t, buffers[t])' = Look(t, buffers[t])
    BY DEF Look
  <2> QED BY <1>1, <2>1, <2>2
<1>3. DebugFollows'
  <2> SUFFICES ASSUME NEW t \in Types \cap DebugTypes, ~Updated(t)',
                      "DEBUG" \notin rflags'
               PROVE  debug_buffers'[t] = IF debug' THEN Outlines(t)' ELSE <<>>
    BY DEF DebugFollows
  <2>1. debug_buffers[t] = IF debug THEN Outlines(t) ELSE <<>>
    BY <1>1 DEF DebugFollows
  <2>2. debug' = debug /\ Outlines(t)' = Outlines(t)
    BY <1>1
  <2> HIDE DEF Outlines
  <2> QED BY <2>1, <2>2
<1> QED BY <1>2, <1>3

(* The arrays in a step that changes one of them.                          *)
LEMMA OneArray ==
    ASSUME Arrays, NEW t \in Types, NEW a,
           renderers' = [renderers EXCEPT ![t] = a],
           IsList(a), Len(a) <= MaxRenderers,
           \A i \in 1..Len(a) : IsRenderer(a[i])
    PROVE  /\ Arrays' /\ renderers'[t] = a
           /\ \A u \in Types \ {t} : renderers'[u] = renderers[u]
<1>1. /\ renderers'[t] = a
      /\ \A u \in Types \ {t} : renderers'[u] = renderers[u]
      /\ renderers' = [u \in Types |-> renderers'[u]]
  BY DEF Arrays
<1> QED BY <1>1 DEF Arrays

LEMMA ArraysAre ==
    ASSUME Arrays, NEW t \in Types
    PROVE  /\ IsList(renderers[t]) /\ Len(renderers[t]) \in Nat
           /\ Len(renderers[t]) <= MaxRenderers /\ MaxRenderers \in Nat
           /\ DOMAIN renderers[t] = 1..Len(renderers[t])
           /\ \A i \in 1..Len(renderers[t]) : IsRenderer(renderers[t][i])
           /\ \A i : [type |-> t, i |-> i] \in Live <=> i \in 1..Len(renderers[t])
<1>1. /\ IsList(renderers[t]) /\ Len(renderers[t]) <= MaxRenderers
      /\ \A i \in 1..Len(renderers[t]) : IsRenderer(renderers[t][i])
  BY DEF Arrays
<1>2. /\ Len(renderers[t]) \in Nat /\ DOMAIN renderers[t] = 1..Len(renderers[t])
      /\ MaxRenderers \in Nat
  BY <1>1, ListIs, RenderersAssumption DEF RenderersAssumption
<1> DEFINE n == Len(renderers[t])
           d == DOMAIN renderers[t]
<1>3. n \in Nat /\ n <= MaxRenderers /\ d = 1..n
  BY <1>1, <1>2
<1>4. \A i : [type |-> t, i |-> i] \in Live <=> i \in 1..MaxRenderers /\ i \in d
  BY DEF Live, Pointers
<1> HIDE DEF n, d
<1>5. \A i : [type |-> t, i |-> i] \in Live <=> i \in 1..n
  BY <1>2, <1>3, <1>4
<1> QED BY <1>1, <1>2, <1>5 DEF n

LEMMA LiveIs ==
    ASSUME Arrays, NEW p \in Live
    PROVE  /\ p.type \in Types /\ p.i \in 1..Len(renderers[p.type])
           /\ p = [type |-> p.type, i |-> p.i]
           /\ At(p) = renderers[p.type][p.i]
<1>1. /\ p.type \in Types /\ p = [type |-> p.type, i |-> p.i]
      /\ p.i \in DOMAIN renderers[p.type]
  BY DEF Live, Pointers
<1> QED BY <1>1, ArraysAre DEF At

LEMMA LoadFollows ==
    ASSUME Arrays, BuffersFollow, DebugFollows,
           NEW e, NEW t \in Types, NEW x, load(e, t, x)
    PROVE  Arrays' /\ BuffersFollow' /\ DebugFollows'
<1> DEFINE s == renderers[t]
           r == [ent |-> e, look |-> x, updated |-> TRUE]
           a == Append(s, r)
           n == Len(s)
<1>1. IsList(s) /\ n \in Nat /\ n < MaxRenderers /\ MaxRenderers \in Nat
  BY ArraysAre DEF load
<1>2. \A i \in 1..n : IsRenderer(s[i])
  BY ArraysAre
<1>3. IsRenderer(r)
  BY DEF IsRenderer
<1>4. renderers' = [renderers EXCEPT ![t] = a]
  BY DEF load
<1> HIDE DEF s, r, n
<1>5. /\ IsList(a) /\ Len(a) = n + 1
      /\ \A i \in 1..n : a[i] = s[i]
      /\ a[n + 1] = r
  BY <1>1, ListAppend DEF n
<1> HIDE DEF a
<1>6. \A i \in 1..Len(a) : IsRenderer(a[i])
  <2>1. \A i \in 1..(n + 1) : i \in 1..n \/ i = n + 1
    BY <1>1
  <2> QED BY <1>2, <1>3, <1>5, <2>1
<1>7. /\ Arrays' /\ renderers'[t] = a
      /\ \A u \in Types \ {t} : renderers'[u] = renderers[u]
  <2>1. Len(a) <= MaxRenderers
    BY <1>1, <1>5
  <2> QED BY <1>4, <1>5, <1>6, <2>1, OneArray
<1>8. Updated(t)'
  <2>1. n + 1 \in DOMAIN a
    BY <1>1, <1>5, ListIs
  <2> QED BY <1>5, <1>7, <2>1 DEF Updated, r
<1>9. UNCHANGED <<rflags, debug, buffers, debug_buffers>>
  BY DEF load
<1>10. \A u \in Types : Projection(u)' = Projection(u)
  BY <1>9 DEF Projection
<1> QED BY <1>7, <1>8, <1>9, <1>10, Following

LEMMA SetLookFollows ==
    ASSUME Arrays, BuffersFollow, DebugFollows,
           NEW p \in Live, NEW x, set_look(p, x)
    PROVE  Arrays' /\ BuffersFollow' /\ DebugFollows'
<1> DEFINE t == p.type
           s == renderers[t]
           n == Len(s)
           q == s[p.i]
           r == [q EXCEPT !.look = x, !.updated = TRUE]
           a == [s EXCEPT ![p.i] = r]
<1>1. /\ t \in Types /\ IsList(s) /\ n \in Nat /\ n <= MaxRenderers
      /\ p.i \in 1..n /\ DOMAIN s = 1..n
      /\ \A i \in 1..n : IsRenderer(s[i])
  BY ArraysAre, LiveIs
<1>2. renderers' = [renderers EXCEPT ![t] = a]
  BY DEF set_look
<1>3. IsRenderer(r) /\ r.updated = TRUE
  <2>1. IsRenderer(q)
    BY <1>1
  <2> HIDE DEF q
  <2>2. TRUE \in BOOLEAN
    OBVIOUS
  <2> QED BY <2>1, <2>2, RendererLooks, Zenon
<1> HIDE DEF s, r, q, n, t
<1>4. DOMAIN a = 1..n /\ a = [i \in 1..n |-> a[i]]
  BY <1>1
<1>5. \A i \in 1..n : a[i] = IF i = p.i THEN r ELSE s[i]
  BY <1>1
<1> HIDE DEF a
<1>6. IsList(a) /\ Len(a) = n
  BY <1>1, <1>4, IsListOf
<1>7. \A i \in 1..Len(a) : IsRenderer(a[i])
  BY <1>1, <1>3, <1>5, <1>6
<1>8. /\ Arrays' /\ renderers'[t] = a
      /\ \A u \in Types \ {t} : renderers'[u] = renderers[u]
  BY <1>1, <1>2, <1>6, <1>7, OneArray
<1>9. Updated(t)'
  BY <1>1, <1>3, <1>4, <1>5, <1>8 DEF Updated
<1>10. UNCHANGED <<rflags, debug, buffers, debug_buffers>>
  BY DEF set_look
<1>11. \A u \in Types : Projection(u)' = Projection(u)
  BY <1>10 DEF Projection
<1> QED BY <1>8, <1>9, <1>10, <1>11, Following

(* What a removal does to an array. *)
LEMMA RemoveArray ==
    ASSUME Arrays, NEW p \in Live, remove(p)
    PROVE  /\ Arrays'
           /\ Moves(renderers[p.type], p.i, renderers'[p.type])
           /\ \A u \in Types \ {p.type} : renderers'[u] = renderers[u]
<1> DEFINE t == p.type
           s == renderers[t]
           n == Len(s)
           a == Removed(s, p.i)
<1>1. /\ t \in Types /\ IsList(s) /\ n \in Nat /\ n <= MaxRenderers
      /\ p.i \in 1..n /\ MaxRenderers \in Nat
      /\ \A i \in 1..n : IsRenderer(s[i])
  BY ArraysAre, LiveIs
<1>2. renderers' = [renderers EXCEPT ![t] = a]
  BY DEF remove
<1> HIDE DEF s, t
<1>3. Moves(s, p.i, a)
  BY <1>1, RemovedMoves
<1>4. /\ IsList(a) /\ Len(a) = n - 1
      /\ \A j \in 1..n - 1 :
            a[j] = IF j = p.i THEN [s[n] EXCEPT !.updated = TRUE] ELSE s[j]
  BY <1>3 DEF Moves
<1> HIDE DEF a, n
<1>5. Len(a) <= MaxRenderers
  BY <1>1, <1>4
<1>6. \A i \in 1..Len(a) : IsRenderer(a[i])
  <2> SUFFICES ASSUME NEW i \in 1..n - 1 PROVE IsRenderer(a[i])
    BY <1>4
  <2>1. i \in 1..n /\ n \in 1..n
    BY <1>1
  <2>2. CASE i = p.i
    BY <1>1, <1>4, <2>1, <2>2 DEF IsRenderer
  <2>3. CASE i # p.i
    BY <1>1, <1>4, <2>1, <2>3
  <2> QED BY <2>2, <2>3
<1>7. /\ Arrays' /\ renderers'[t] = a
      /\ \A u \in Types \ {t} : renderers'[u] = renderers[u]
  BY <1>1, <1>2, <1>4, <1>5, <1>6, OneArray
<1> QED BY <1>3, <1>7 DEF s, t

LEMMA RemoveFollows ==
    ASSUME Arrays, BuffersFollow, DebugFollows, NEW p \in Live, remove(p)
    PROVE  Arrays' /\ BuffersFollow' /\ DebugFollows'
<1>1. /\ rflags' = rflags \cup {p.type}
      /\ UNCHANGED <<debug, buffers, debug_buffers>>
  BY DEF remove
<1>2. \A u \in Types : Projection(u)' = Projection(u)
  BY <1>1, LiveIs, TypesAreNoFlags DEF Projection
<1>3. Updated(p.type)'
  BY <1>1 DEF Updated
<1> QED BY <1>1, <1>2, <1>3, RemoveArray, Following

(* Changes of how all are drawn. *)
LEMMA SettingsFollow ==
    ASSUME Arrays, BuffersFollow, DebugFollows,
           \/ \E p \in Live : add_selection(p) \/ remove_selection(p)
           \/ \E b \in BOOLEAN :
                set_debug(b) \/ set_perspective(b) \/ set_zsprites(b)
    PROVE  Arrays' /\ BuffersFollow' /\ DebugFollows'
<1>1. UNCHANGED <<renderers, buffers, debug_buffers>>
  BY DEF add_selection, remove_selection, set_debug, set_perspective,
         set_zsprites
<1>2. Arrays'
  BY <1>1 DEF Arrays
<1>3. \A t \in Types : t \in rflags => t \in rflags'
  BY TypesAreNoFlags
  DEF add_selection, remove_selection, set_debug, set_perspective,
      set_zsprites, Set
<1>4. /\ "DEBUG" \in rflags => "DEBUG" \in rflags'
      /\ debug' = debug \/ "DEBUG" \in rflags'
  BY DEF add_selection, remove_selection, set_debug, set_perspective,
         set_zsprites, Set
<1>5. ASSUME NEW t \in Types
      PROVE  Updated(t)' \/ t = "voxel" \/ Projection(t)' = Projection(t)
  <2>1. CASE \/ \E p \in Live : add_selection(p) \/ remove_selection(p)
             \/ \E b \in BOOLEAN : set_debug(b)
    BY <2>1 DEF add_selection, remove_selection, set_debug, Projection
  <2>2. t \in Reprojected \/ t \in {"screen_sprite", "voxel"}
    BY TypesAreNoFlags DEF AllTypes, Reprojected, ArrayFlags
  <2>3. t = "screen_sprite" => Projection(t)' = Projection(t)
    BY DEF Projection
  <2>4. CASE \E b \in BOOLEAN : set_perspective(b)
    BY <2>2, <2>3, <2>4 DEF set_perspective, Updated
  <2>5. CASE \E b \in BOOLEAN : set_zsprites(b)
    <3>1. PICK b \in BOOLEAN : set_zsprites(b)
      BY <2>5
    <3>2. CASE b = ("ZSPRITES" \in rflags)
      BY <3>1, <3>2 DEF set_zsprites, Set, Projection
    <3>3. CASE b # ("ZSPRITES" \in rflags)
      BY <2>2, <2>3, <3>1, <3>3 DEF set_zsprites, Updated
    <3> QED BY <3>2, <3>3
  <2> QED BY <2>1, <2>4, <2>5
<1> QED BY <1>1, <1>2, <1>3, <1>4, <1>5, Following

(* What animations.update() leaves as it is. *)
LEMMA AnimateOnly ==
    ASSUME animate
    PROVE  UNCHANGED <<rflags, debug, selections, chosen, buffers,
            debug_buffers, selection_buffer, tvars, lvars, cvars, gvars>>
BY Zenon DEF animate

(* A frame of a sprite flags its renderer. *)
LEMMA AnimateFollows ==
    ASSUME Arrays, BuffersFollow, DebugFollows, animate
    PROVE  Arrays' /\ BuffersFollow' /\ DebugFollows'
<1> DEFINE s == renderers["sprite"]
           n == Len(s)
           Shown(i) == [s[i] EXCEPT !.updated = TRUE,
                !.look.uv = <<anims'[s[i].ent].track, anims'[s[i].ent].frame>>]
           a == [i \in DOMAIN s |->
                IF s[i].ent \notin Animated \/ s[i].ent \notin Given THEN s[i]
                ELSE Shown(i)]
<1>0. renderers' = [renderers EXCEPT !["sprite"] = a]
  BY Zenon DEF animate
<1> HIDE DEF a
<1>1. UNCHANGED <<rflags, debug, buffers, debug_buffers>>
  BY AnimateOnly
<1>2. \A u \in Types : Projection(u)' = Projection(u)
  BY <1>1 DEF Projection
<1>3. CASE "sprite" \notin Types
  <2>1. renderers' = renderers
    BY <1>0, <1>3 DEF Arrays
  <2>2. Arrays'
    BY <2>1 DEF Arrays
  <2> QED BY <1>1, <1>2, <2>1, <2>2, Following
<1>4. CASE "sprite" \in Types
  <2>1. /\ IsList(s) /\ n \in Nat /\ n <= MaxRenderers /\ DOMAIN s = 1..n
        /\ \A i \in 1..n : IsRenderer(s[i])
    BY <1>4, ArraysAre
  <2>2. /\ \A i \in 1..n : a[i] = s[i] \/ a[i] = Shown(i)
        /\ DOMAIN a = 1..n /\ a = [i \in 1..n |-> a[i]]
    <3> HIDE DEF s, n, Shown
    <3> QED BY <2>1 DEF a
  <2>3. ASSUME NEW i \in 1..n PROVE IsRenderer(Shown(i)) /\ Shown(i).updated = TRUE
    <3> DEFINE q == s[i]
               x == <<anims'[q.ent].track, anims'[q.ent].frame>>
    <3>1. IsRenderer(q) /\ TRUE \in BOOLEAN
      BY <2>1
    <3>2. Shown(i) = [q EXCEPT !.updated = TRUE, !.look.uv = x]
      OBVIOUS
    <3> HIDE DEF q, x, Shown
    <3>3. /\ IsRenderer([q EXCEPT !.updated = TRUE, !.look.uv = x])
          /\ [q EXCEPT !.updated = TRUE, !.look.uv = x].updated = TRUE
      BY <3>1, RendererShows, Zenon
    <3> QED BY <3>2, <3>3
  <2> HIDE DEF a, Shown, s, n
  <2>4. IsList(a) /\ Len(a) = n
    BY <2>1, <2>2, IsListOf
  <2>5. \A i \in 1..Len(a) : IsRenderer(a[i])
    BY <2>1, <2>2, <2>3, <2>4
  <2>6. /\ Arrays' /\ renderers'["sprite"] = a
        /\ \A u \in Types \ {"sprite"} : renderers'[u] = renderers[u]
    BY <1>0, <1>4, <2>1, <2>4, <2>5, OneArray
  <2>7. Updated("sprite")' \/ a = s
    <3>1. CASE \A i \in 1..n : a[i] = s[i]
      <4>1. a = [i \in 1..n |-> s[i]]
        BY <2>2, <3>1
      <4>2. s = [i \in 1..n |-> s[i]]
        BY <2>1, ListIs DEF n
      <4> QED BY <4>1, <4>2
    <3>2. CASE \E i \in 1..n : a[i] = Shown(i)
      BY <2>2, <2>3, <2>6, <3>2 DEF Updated
    <3> QED BY <2>2, <3>1, <3>2
  <2> QED BY <1>1, <1>2, <2>6, <2>7, Following DEF s
<1> QED BY <1>3, <1>4

(* A new back end has no buffers, nor are there renderers. *)
LEMMA GraphicsFollows ==
    ASSUME Arrays, set_graphics
    PROVE  Arrays' /\ BuffersFollow' /\ DebugFollows'
<1>1. /\ UNCHANGED <<renderers, rflags, debug>>
      /\ \A t \in Types : buffers'[t] = <<>>
      /\ \A t \in Types \cap DebugTypes : debug_buffers'[t] = <<>>
  BY DEF set_graphics
<1>2. ASSUME NEW t \in Types
      PROVE  /\ DOMAIN renderers[t] = {}
             /\ Generated(t)' = <<>> /\ Outlines(t)' = <<>>
  <2>1. DOMAIN renderers[t] = {}
    <3> DEFINE n == Len(renderers[t])
    <3>1. n \in Nat /\ DOMAIN renderers[t] = 1..n
      BY ArraysAre
    <3>2. \A i : i \notin 1..n
      BY ArraysAre DEF set_graphics
    <3> HIDE DEF n
    <3> QED BY <3>1, <3>2
  <2> QED BY <1>1, <2>1 DEF Generated, Outlines
<1>3. BuffersFollow'
  BY <1>1, <1>2 DEF BuffersFollow, Look
<1>4. DebugFollows'
  BY <1>1, <1>2 DEF DebugFollows
<1>5. Arrays'
  BY <1>1 DEF Arrays
<1> QED BY <1>3, <1>4, <1>5

(* After renderers.update() buffers have what there is. *)
LEMMA UpdateWrites ==
    ASSUME Arrays, BuffersFollow, DebugFollows, update_renderers
    PROVE  Arrays' /\ BuffersMatch' /\ DebugMatches'
<1>1. /\ renderers' = Cleared /\ buffers' = Written
      /\ debug_buffers' = WrittenDebug /\ debug' = debug
      /\ rflags' = rflags \ (ArrayFlags \cup {"DEBUG"})
  BY DEF update_renderers
<1>2. ASSUME NEW t \in Types
      PROVE  /\ IsList(renderers'[t]) /\ Len(renderers'[t]) <= MaxRenderers
             /\ \A i \in 1..Len(renderers'[t]) : IsRenderer(renderers'[t][i])
             /\ DOMAIN renderers'[t] = DOMAIN renderers[t]
             /\ \A i \in DOMAIN renderers[t] :
                    renderers'[t][i].look = renderers[t][i].look
  <2> DEFINE s == renderers[t]
             n == Len(s)
             a == renderers'[t]
  <2>1. /\ n \in Nat /\ n <= MaxRenderers /\ DOMAIN s = 1..n
        /\ \A i \in 1..n : IsRenderer(s[i])
    BY ArraysAre
  <2>2. a = [i \in DOMAIN s |-> [s[i] EXCEPT !.updated = FALSE]]
    BY <1>1 DEF Cleared
  <2> HIDE DEF s, n, a
  <2>3. /\ DOMAIN a = 1..n /\ a = [i \in 1..n |-> a[i]]
        /\ \A i \in 1..n : a[i] = [s[i] EXCEPT !.updated = FALSE]
    BY <2>1, <2>2
  <2>4. ASSUME NEW i \in 1..n PROVE IsRenderer(a[i]) /\ a[i].look = s[i].look
    <3> DEFINE q == s[i]
    <3>1. IsRenderer(q) /\ FALSE \in BOOLEAN
      BY <2>1
    <3>2. a[i] = [q EXCEPT !.updated = FALSE]
      BY <2>3
    <3> HIDE DEF q
    <3>3. /\ IsRenderer([q EXCEPT !.updated = FALSE])
          /\ [q EXCEPT !.updated = FALSE].look = q.look
      BY <3>1, RendererFlagged, Zenon
    <3> QED BY <3>2, <3>3 DEF q
  <2>5. IsList(a) /\ Len(a) = n
    BY <2>1, <2>3, IsListOf
  <2> QED BY <2>1, <2>3, <2>4, <2>5 DEF a, s
<1>3. Arrays'
  <2>1. renderers' = [t \in Types |-> renderers'[t]]
    BY <1>1 DEF Cleared
  <2> QED BY <1>2, <2>1 DEF Arrays
<1>4. \A t \in Types : Projection(t)' = Projection(t)
  BY <1>1, TypesAreNoFlags DEF Projection, ArrayFlags
<1>5. ASSUME NEW t \in Types
      PROVE  Generated(t)' = Generated(t) /\ Outlines(t)' = Outlines(t)
  BY <1>2, <1>4 DEF Generated, Outlines
<1>6. BuffersMatch'
  <2> SUFFICES ASSUME NEW t \in Types
               PROVE  Look(t, buffers[t])' = Look(t, Generated(t))'
    BY DEF BuffersMatch
  <2>1. buffers'[t] = IF Updated(t) THEN Generated(t) ELSE buffers[t]
    BY <1>1 DEF Written
  <2>2. Look(t, buffers'[t]) = Look(t, Generated(t))
    <3> HIDE DEF Generated, Updated
    <3>1. CASE Updated(t)
      BY <2>1, <3>1
    <3>2. CASE ~Updated(t)
      BY <2>1, <3>2 DEF BuffersFollow
    <3> QED BY <3>1, <3>2
  <2>3. Look(t, Generated(t))' = Look(t, Generated(t))
    BY <1>5 DEF Look
  <2>4. Look(t, buffers[t])' = Look(t, buffers'[t])
    BY DEF Look
  <2> QED BY <2>2, <2>3, <2>4
<1>7. DebugMatches'
  <2> SUFFICES ASSUME NEW t \in Types \cap DebugTypes
               PROVE  debug_buffers'[t] = IF debug' THEN Outlines(t)' ELSE <<>>
    BY DEF DebugMatches
  <2>1. debug_buffers'[t] =
            IF ~("DEBUG" \in rflags \/ Updated(t)) THEN debug_buffers[t]
            ELSE IF debug THEN Outlines(t) ELSE <<>>
    BY <1>1 DEF WrittenDebug
  <2>2. debug' = debug /\ Outlines(t)' = Outlines(t)
    BY <1>1, <1>5
  <2>3. \/ "DEBUG" \in rflags \/ Updated(t)
        \/ debug_buffers[t] = IF debug THEN Outlines(t) ELSE <<>>
    BY DEF DebugFollows
  <2> HIDE DEF Outlines, Updated
  <2> QED BY <2>1, <2>2, <2>3
<1> QED BY <1>3, <1>6, <1>7

-----------------------------------------------------------------------------
(* Steps of the loop, and what parts they leave as they are.               *)

Others ==
    \/ change_animations /\ UNCHANGED <<rvars, tvars, lvars, cvars, gvars, pc>>
    \/ change_textbox /\ UNCHANGED <<rvars, lvars, gvars, pc>>
    \/ change_lighting /\ UNCHANGED <<rvars, tvars, cvars, gvars, pc>>
    \/ change_camera /\ UNCHANGED <<rvars, tvars, lvars, gvars, pc>>

LEMMA LoopSteps ==
    ASSUME Next
    PROVE  \/ pc \in {"scripts", "callbacks"} /\ pc' = pc
              /\ (change_renderers \/ change_drawing \/ Others \/ replace_graphics)
           \/ pc = "scripts" /\ pc' = "animate" /\ animate
           \/ pc = "animate" /\ pc' = "callbacks" /\ collide
           \/ pc = "callbacks" /\ pc' = "camera" /\ move_camera
           \/ pc = "camera" /\ pc' = "textbox" /\ write_text
           \/ pc = "textbox" /\ pc' = "renderers" /\ write_buffers
           \/ pc = "renderers" /\ pc' = "lighting" /\ light
           \/ pc = "lighting" /\ pc' = "draw" /\ draw
           \/ pc = "draw" /\ pc' = "scripts" /\ vsync
<1>1. CASE change_renderers
  BY <1>1 DEF change_renderers, Script
<1>2. CASE change_drawing
  BY <1>2 DEF change_drawing, Script
<1>3. CASE change_animations
  BY <1>3 DEF change_animations, Script, Others
<1>4. CASE change_textbox
  BY <1>4 DEF change_textbox, Script, Others
<1>5. CASE change_lighting
  BY <1>5 DEF change_lighting, Script, Others
<1>6. CASE change_camera
  BY <1>6 DEF change_camera, Script, Others
<1>7. CASE replace_graphics
  BY <1>7 DEF replace_graphics, Script
<1>8. CASE animate
  BY <1>8, Zenon DEF animate, Step
<1>9. CASE frame /\ ~animate
  BY <1>9 DEF frame, collide, move_camera, write_text, write_buffers, light,
              draw, vsync, Step
<1> QED BY <1>1, <1>2, <1>3, <1>4, <1>5, <1>6, <1>7, <1>8, <1>9
        DEF Next, frame

LEMMA RenderersKept ==
    ASSUME RenderersInv, UNCHANGED rvars, pc' \in Ready => pc \in Ready
    PROVE  RenderersInv'
<1>1. UNCHANGED <<renderers, rflags, debug, buffers, debug_buffers>>
  BY DEF rvars
<1>2. Arrays'
  BY <1>1 DEF RenderersInv, Arrays
<1>3. \A t \in Types :
        /\ Updated(t)' = Updated(t) /\ Outlines(t)' = Outlines(t)
        /\ Look(t, Generated(t))' = Look(t, Generated(t))
        /\ Look(t, buffers[t])' = Look(t, buffers[t])
  BY <1>1 DEF Updated, Outlines, Generated, Look, Projection
<1>4. BuffersFollow' /\ (BuffersMatch => BuffersMatch')
  BY <1>3 DEF RenderersInv, BuffersFollow, BuffersMatch
<1>5. DebugFollows' /\ (DebugMatches => DebugMatches')
  BY <1>1, <1>3 DEF RenderersInv, DebugFollows, DebugMatches
<1> QED BY <1>2, <1>4, <1>5 DEF RenderersInv

LEMMA RenderersStep ==
    ASSUME RenderersInv, [Next]_vars
    PROVE  RenderersInv'
<1> USE DEF Ready
<1>1. CASE UNCHANGED vars
  BY <1>1, RenderersKept DEF vars
<1>2. CASE Next
  <2>0. Arrays /\ BuffersFollow /\ DebugFollows
    BY DEF RenderersInv
  <2>1. SUFFICES
            \/ UNCHANGED rvars /\ (pc' \in Ready => pc \in Ready)
            \/ Arrays' /\ BuffersFollow' /\ DebugFollows' /\ pc' \notin Ready
            \/ Arrays' /\ BuffersMatch' /\ DebugMatches'
    BY RenderersKept
    DEF RenderersInv, BuffersFollow, DebugFollows, BuffersMatch, DebugMatches
  <2> USE DEF Ready
  <2>2. CASE change_renderers /\ pc' \notin Ready
    <3>1. CASE \E e \in Entities, t \in Types, x \in Looks :
                    x.uv = NotYet /\ load(e, t, x)
      BY <2>0, <2>2, <3>1, LoadFollows
    <3>2. CASE \E p \in Live, x \in Looks :
                    x.uv = At(p).look.uv /\ set_look(p, x)
      BY <2>0, <2>2, <3>2, SetLookFollows
    <3>3. CASE \E p \in Live : remove(p)
      BY <2>0, <2>2, <3>3, RemoveFollows
    <3> QED BY <2>2, <3>1, <3>2, <3>3 DEF change_renderers
  <2>3. CASE change_drawing /\ pc' \notin Ready
    BY <2>0, <2>3, SettingsFollow DEF change_drawing
  <2>4. CASE Others /\ pc' \notin Ready
    BY <2>4 DEF Others
  <2>5. CASE replace_graphics /\ pc' \notin Ready
    BY <2>0, <2>5, GraphicsFollows DEF replace_graphics
  <2>6. CASE animate /\ pc' \notin Ready
    BY <2>0, <2>6, AnimateFollows
  <2>7. CASE write_buffers
    BY <2>0, <2>7, UpdateWrites DEF write_buffers
  <2>8. CASE UNCHANGED rvars /\ (pc' \in Ready => pc \in Ready)
    BY <2>8
  <2>9. \/ collide \/ move_camera \/ write_text \/ light \/ draw \/ vsync
        => UNCHANGED rvars
    BY DEF collide, move_camera, write_text, light, draw, vsync
  <2> QED BY <1>2, <2>2, <2>3, <2>4, <2>5, <2>6, <2>7, <2>8, <2>9, LoopSteps
<1> QED BY <1>1, <1>2

LEMMA RenderersStart ==
    ASSUME Init PROVE RenderersInv
<1>1. /\ renderers = [t \in Types |-> <<>>] /\ pc = "scripts"
      /\ buffers = [t \in Types |-> <<>>] /\ debug = FALSE
      /\ debug_buffers = [t \in Types \cap DebugTypes |-> <<>>]
  BY DEF Init, RenderersInit
<1>2. Arrays
  BY <1>1, EmptyList, RenderersAssumption DEF Arrays, RenderersAssumption
<1>3. \A t \in Types : Look(t, buffers[t]) = Look(t, Generated(t))
  BY <1>1, EmptyList DEF Generated, Look
<1> QED BY <1>1, <1>2, <1>3
        DEF RenderersInv, BuffersFollow, DebugFollows, Ready

-----------------------------------------------------------------------------
(* The camera: its matrices are computed, and given to graphics, in the    *)
(* frame in which a flag is found.                                         *)

Placed == {"camera", "textbox"} \cup Ready

CameraInv ==
    /\ matrices = Matrices(pos, parameter, size) \/ cflags # {}
    /\ "view" \in dirty \/ shown_view = matrices \/ cflags # {}
    /\ pc \in Placed => cflags = {}
    /\ pc = "draw" => shown_view = matrices

LEMMA CameraStart ==
    ASSUME Init PROVE CameraInv
BY DEF Init, CameraInit, CameraInv, Placed, Ready

LEMMA CameraStep ==
    ASSUME CameraInv, [Next]_vars
    PROVE  CameraInv'
<1> USE DEF Placed, Ready
<1>1. CASE UNCHANGED vars
  BY <1>1 DEF vars, cvars, gvars, CameraInv, Matrices
<1>2. CASE Next
  <2>1. CASE UNCHANGED <<cvars, gvars>> /\ (pc' \in Placed => pc \in Placed) /\ pc' # "draw"
    BY <2>1 DEF cvars, gvars, CameraInv, Matrices
  <2>2. CASE UNCHANGED gvars /\ cflags' # {} /\ pc' = pc /\ pc \in {"scripts", "callbacks"}
    BY <2>2 DEF gvars, CameraInv
  <2>3. CASE /\ change_renderers \/ change_drawing \/ Others
             /\ pc' = pc /\ pc \in {"scripts", "callbacks"}
    <3>1. \/ UNCHANGED <<cvars, gvars>>
          \/ UNCHANGED gvars /\ cflags' # {}
          \/ \E b \in BOOLEAN : set_acceleration(b) /\ UNCHANGED gvars
      BY <2>3 DEF change_renderers, change_drawing, Others, change_animations,
        change_textbox, change_lighting, change_camera, set_screen, set_pos,
        set_parameter
    <3>2. CASE \E b \in BOOLEAN : set_acceleration(b) /\ UNCHANGED gvars
      BY <2>3, <3>2 DEF set_acceleration, gvars, CameraInv, Matrices
    <3> QED BY <2>1, <2>2, <2>3, <3>1, <3>2
  <2>4. CASE replace_graphics /\ pc' = pc /\ pc \in {"scripts", "callbacks"}
    BY <2>4 DEF replace_graphics, set_screen, CameraInv
  <2>5. CASE move_camera /\ pc' = "camera"
    <3>1. PICK moved \in BOOLEAN :
            /\ update_camera(moved)
            /\ dirty' = IF moved THEN dirty \cup {"view"} ELSE dirty
      BY <2>5 DEF move_camera
    <3>2. shown_view' = shown_view
      BY <2>5 DEF move_camera
    <3>3. CASE moved
      BY <2>5, <3>1, <3>2, <3>3 DEF update_camera, CameraInv, Matrices
    <3>4. CASE ~moved
      BY <2>5, <3>1, <3>2, <3>4 DEF update_camera, CameraInv, Matrices, Moved
    <3> QED BY <3>3, <3>4
  <2>6. CASE light /\ pc = "renderers" /\ pc' = "lighting"
    BY <2>6 DEF light, cvars, CameraInv, Matrices
  <2>7. CASE draw /\ pc = "lighting"
    BY <2>7 DEF draw, cvars, CameraInv, Matrices
  <2>8. animate => UNCHANGED <<cvars, gvars>>
    BY AnimateOnly
  <2>9. collide \/ write_text \/ write_buffers \/ vsync => UNCHANGED <<cvars, gvars>>
    BY DEF collide, write_text, write_buffers, vsync
  <2> QED BY <1>2, <2>1, <2>3, <2>4, <2>5, <2>6, <2>7, <2>8, <2>9, LoopSteps
<1> QED BY <1>1, <1>2

-----------------------------------------------------------------------------
(* The box of text: it is laid out, or a flag says that it will be, or     *)
(* some of the text is still to appear.                                    *)

Box == Corners(Extent, size)
LaidOut ==
    /\ laid = Box
    /\ title_laid = TitleCorners(title, monospaced, Box, Extent)

TextInv ==
    /\ str \in Seq(BOOLEAN)
    /\ str # <<>> /\ finished /\ "SCREEN_UPDATED" \notin tflags
            /\ "SCREEN_UPDATED" \notin cflags => LaidOut
    /\ tflags = {} /\ finished /\ "SCREEN_UPDATED" \notin cflags
            => TextMatches(size)
    /\ pc \in {"textbox"} \cup Ready => (str # <<>> => LaidOut)
    /\ pc = "textbox" => (tflags = {} => TextMatches(size))
    /\ pc \in Ready => TextMatches(size)

LEMMA TextStart ==
    ASSUME Init PROVE TextInv
BY DEF Init, TextboxInit, CameraInit, TextInv, Ready

LEMMA TextKept ==
    ASSUME TextInv,
           UNCHANGED <<title, str, cur, monospaced, tflags, laid, title_laid,
                text_buffer, box_buffer, size>>,
           "SCREEN_UPDATED" \in cflags => "SCREEN_UPDATED" \in cflags',
           \/ pc' = pc
           \/ pc' \in Ready /\ pc \in Ready
           \/ pc' \notin {"textbox"} \cup Ready
    PROVE  TextInv'
<1>1. UNCHANGED <<title, str, cur, monospaced, tflags, laid, title_laid,
        text_buffer, box_buffer>>
  OBVIOUS
<1>2. LaidOut' = LaidOut /\ finished' = finished
  BY <1>1 DEF LaidOut, Box, Corners, TitleCorners, Extent, finished
<1>3. Length' = Length
  BY <1>1 DEF Length, Characters
<1>4. TextMatches(size)' = TextMatches(size)
  <2> HIDE DEF Length
  <2> QED BY <1>1, <1>3 DEF TextMatches, Letters, Extent, Corners, TitleCorners
<1> HIDE DEF LaidOut, TextMatches, finished
<1>5. pc' \in Ready => pc' # "textbox"
  BY DEF Ready
<1> QED BY <1>1, <1>2, <1>4, <1>5 DEF TextInv

LEMMA NotFinished ==
    ASSUME NEW s \in Seq(BOOLEAN), s # <<>>
    PROVE  0 # Len(s)
BY EmptySeq

LEMMA ChangeText ==
    ASSUME TextInv, change_textbox, ~TitlesAlone, ~CursorsEnd,
           pc' \notin {"textbox"} \cup Ready
    PROVE  TextInv'
<1> USE DEF Ready
<1>1. CASE \E t \in Titles, s \in Texts : set_texts(t, s)
  <2>1. PICK t \in Titles, s \in Texts : set_texts(t, s)
    BY <1>1
  <2>2. s \in Seq(BOOLEAN) /\ s # <<>>
    BY TextboxAssumption DEF TextboxAssumption
  <2>3. str' = s /\ cur' = 0 /\ tflags' # {}
    BY <2>1 DEF set_texts
  <2>4. cur' # Len(str')
    BY <2>2, <2>3, NotFinished
  <2> QED BY <2>2, <2>3, <2>4 DEF TextInv, finished
<1>2. CASE set_texts(<<>>, <<>>)
  BY <1>2, EmptySeq DEF set_texts, TextInv
<1>3. CASE \E t \in Titles : set_title(t)
  BY <1>3 DEF set_title, TextInv, finished
<1>4. CASE \E c \in 0..Len(str) : set_cur(c)
  <2>1. PICK c \in 0..Len(str) : set_cur(c)
    BY <1>4
  <2>2. str' = str /\ cur' # Len(str')
    <3>1. Len(str) \in Nat
      BY LenProperties DEF TextInv
    <3> QED BY <2>1, <3>1 DEF set_cur
  <2> QED BY <2>2 DEF TextInv, finished
<1>5. CASE (\E s \in Speeds : set_speed(s)) /\ UNCHANGED cvars
  <2>1. UNCHANGED <<title, str, cur, monospaced, tflags, laid, title_laid,
            text_buffer, box_buffer, size, cflags>>
    BY <1>5 DEF set_speed, cvars, text, layout, tbuffers
  <2> QED BY <2>1, TextKept
<1>6. CASE (\E b \in BOOLEAN : set_monospaced(b)) /\ UNCHANGED cvars
  <2>1. /\ UNCHANGED <<str, cur, laid, size, cflags>>
        /\ title_laid' = TitleCorners(title', monospaced', laid', <<str', cur'>>)
        /\ tflags' = tflags \cup {"UPDATED"}
    BY <1>6 DEF set_monospaced, cvars, text, Extent
  <2>2. str' # <<>> /\ finished' /\ "SCREEN_UPDATED" \notin tflags'
            /\ "SCREEN_UPDATED" \notin cflags' => LaidOut'
    <3>1. SUFFICES ASSUME str # <<>>, finished, "SCREEN_UPDATED" \notin tflags,
                          "SCREEN_UPDATED" \notin cflags
                   PROVE  LaidOut'
      BY <2>1 DEF finished
    <3>2. laid = Box
      BY <3>1 DEF TextInv, LaidOut
    <3>3. Box' = Box
      BY <2>1 DEF Box, Corners, Extent
    <3> QED BY <2>1, <3>2, <3>3 DEF LaidOut, Extent
  <2> QED BY <2>1, <2>2 DEF TextInv
<1>7. CASE (\E z \in Sizes : set_screen(z)) /\ UNCHANGED tvars
  <2>1. "SCREEN_UPDATED" \in cflags' /\ str' = str
    BY <1>7 DEF set_screen, tvars
  <2> QED BY <2>1 DEF TextInv
<1> QED BY <1>1, <1>2, <1>3, <1>4, <1>5, <1>6, <1>7 DEF change_textbox

LEMMA MoveCameraText ==
    ASSUME TextInv, move_camera, pc' = "camera"
    PROVE  TextInv'
<1> USE DEF Ready
<1>1. /\ tflags' = IF "SCREEN_UPDATED" \in cflags
            THEN tflags \cup {"SCREEN_UPDATED"} ELSE tflags
      /\ UNCHANGED <<title, str, cur, monospaced, laid, title_laid,
            text_buffer, box_buffer, size>>
  BY DEF move_camera, update_camera, text, layout, tbuffers
<1>2. CASE "SCREEN_UPDATED" \in cflags
  <2>1. "SCREEN_UPDATED" \in tflags' /\ tflags' # {}
    BY <1>1, <1>2
  <2> QED BY <1>1, <2>1 DEF TextInv
<1>3. CASE "SCREEN_UPDATED" \notin cflags
  BY <1>1, <1>3, TextKept
<1> QED BY <1>2, <1>3

LEMMA WriteTextText ==
    ASSUME TextInv, write_text, pc' = "textbox", cflags = {}
    PROVE  TextInv'
<1> USE DEF Ready
<1>1. PICK dt \in Steps : update_textbox(dt, size)
  BY DEF write_text
<1>2. /\ UNCHANGED <<title, str, monospaced, text_buffer, box_buffer, size>>
      /\ cflags' = {}
  BY <1>1 DEF write_text, update_textbox, tbuffers, cvars
<1>3. CASE ~finished \/ "SCREEN_UPDATED" \in tflags
  <2>1. lay_out(size) /\ tflags' # {}
    BY <1>1, <1>3 DEF update_textbox, appear
  <2>2. LaidOut'
    BY <1>2, <2>1
    DEF lay_out, LaidOut, Box, Extent, Corners, TitleCorners
  <2> QED BY <1>2, <2>1, <2>2 DEF TextInv
<1>4. CASE finished /\ "SCREEN_UPDATED" \notin tflags
  <2>1. UNCHANGED <<cur, tflags, laid, title_laid>>
    BY <1>1, <1>4 DEF update_textbox, layout
  <2>2. LaidOut' = LaidOut
    BY <1>2, <2>1 DEF LaidOut, Box, Corners, TitleCorners, Extent
  <2>3. Length' = Length
    BY <1>2, <2>1 DEF Length, Characters
  <2>4. TextMatches(size)' = TextMatches(size)
    <3> HIDE DEF Length
    <3> QED BY <1>2, <2>1, <2>3
            DEF TextMatches, Letters, Extent, Corners, TitleCorners
  <2>5. str # <<>> => LaidOut
    BY <1>4 DEF TextInv
  <2>6. tflags = {} => TextMatches(size)
    BY <1>4 DEF TextInv
  <2> HIDE DEF LaidOut, TextMatches
  <2>7. str \in Seq(BOOLEAN)
    BY DEF TextInv
  <2>8. (str' # <<>> => LaidOut') /\ (tflags' = {} => TextMatches(size)')
    BY <1>2, <2>1, <2>2, <2>4, <2>5, <2>6
  <2> QED BY <1>2, <2>7, <2>8 DEF TextInv
<1> QED BY <1>3, <1>4

LEMMA WriteBuffersText ==
    ASSUME TextInv, write_buffers, pc = "textbox", pc' = "renderers"
    PROVE  TextInv'
<1> USE DEF Ready
<1>1. /\ IF tflags = {} THEN UNCHANGED tbuffers
         ELSE /\ text_buffer' =
                    IF Length = 0 THEN Nothing ELSE Letters(laid, title_laid)
              /\ box_buffer' = IF str = <<>> THEN Nothing ELSE layout
      /\ UNCHANGED <<title, str, cur, monospaced, laid, title_laid, size>>
  BY DEF write_buffers, write_textbox, text, layout, cvars
<1>2. LaidOut' = LaidOut
  BY <1>1 DEF LaidOut, Box, Corners, TitleCorners, Extent
<1>3. Length' = Length
  BY <1>1 DEF Length, Characters
<1>4. str # <<>> => LaidOut
  BY DEF TextInv
<1> HIDE DEF Length
<1>5. TextMatches(size)'
  <2>1. CASE tflags = {}
    <3>1. TextMatches(size)
      BY <2>1 DEF TextInv
    <3> QED BY <1>1, <1>3, <2>1, <3>1
            DEF TextMatches, Letters, Extent, Corners, TitleCorners, tbuffers
  <2>2. CASE tflags # {}
    BY <1>1, <1>3, <1>4, <2>2
    DEF TextMatches, Letters, LaidOut, Box, Extent, Corners, TitleCorners,
        layout
  <2> QED BY <2>1, <2>2
<1> HIDE DEF LaidOut, TextMatches
<1>6. str \in Seq(BOOLEAN)
  BY DEF TextInv
<1>7. str' # <<>> => LaidOut'
  BY <1>1, <1>2, <1>4
<1> QED BY <1>1, <1>5, <1>6, <1>7 DEF TextInv

LEMMA TextStep ==
    ASSUME TextInv, CameraInv, [Next]_vars, ~TitlesAlone, ~CursorsEnd
    PROVE  TextInv'
<1> USE DEF Ready
<1>1. CASE /\ UNCHANGED <<tvars, size>>
           /\ "SCREEN_UPDATED" \in cflags => "SCREEN_UPDATED" \in cflags'
           /\ \/ pc' = pc
              \/ pc' \in Ready /\ pc \in Ready
              \/ pc' \notin {"textbox"} \cup Ready
  BY <1>1, TextKept DEF tvars
<1>2. CASE /\ "SCREEN_UPDATED" \in cflags' /\ str' = str
           /\ pc' = pc /\ pc \in {"scripts", "callbacks"}
  BY <1>2 DEF TextInv
<1>3. CASE UNCHANGED vars
  BY <1>1, <1>3 DEF vars, cvars
<1>4. CASE Next
  <2>1. CASE /\ change_renderers \/ change_drawing \/ Others
             /\ pc' = pc /\ pc \in {"scripts", "callbacks"}
    <3>1. \/ change_textbox
          \/ UNCHANGED <<tvars, cvars>>
          \/ change_camera /\ UNCHANGED tvars
      BY <2>1 DEF change_renderers, change_drawing, Others
    <3>2. CASE change_textbox
      BY <2>1, <3>2, ChangeText
    <3>3. CASE UNCHANGED <<tvars, cvars>>
      BY <1>1, <2>1, <3>3 DEF cvars
    <3>4. CASE change_camera /\ UNCHANGED tvars
      <4>1. \/ UNCHANGED size /\ cflags \subseteq cflags'
            \/ "SCREEN_UPDATED" \in cflags'
        BY <3>4 DEF change_camera, set_pos, set_parameter, set_acceleration,
            set_screen
      <4>2. str' = str
        BY <3>4 DEF tvars
      <4> QED BY <1>1, <1>2, <2>1, <3>4, <4>1, <4>2
    <3> QED BY <3>1, <3>2, <3>3, <3>4
  <2>2. CASE replace_graphics /\ pc' = pc /\ pc \in {"scripts", "callbacks"}
    <3>1. "SCREEN_UPDATED" \in cflags' /\ str' = str
      BY <2>2 DEF replace_graphics, set_screen, empty_textbox, text
    <3> QED BY <1>2, <2>2, <3>1
  <2>3. CASE move_camera /\ pc' = "camera"
    BY <2>3, MoveCameraText
  <2>4. CASE write_text /\ pc = "camera" /\ pc' = "textbox"
    <3>1. cflags = {}
      BY <2>4 DEF CameraInv, Placed
    <3> QED BY <2>4, <3>1, WriteTextText
  <2>5. CASE write_buffers /\ pc = "textbox" /\ pc' = "renderers"
    BY <2>5, WriteBuffersText
  <2>6. animate \/ collide \/ light \/ draw \/ vsync => UNCHANGED <<tvars, cvars>>
    BY AnimateOnly DEF collide, light, draw, vsync
  <2>7. CASE UNCHANGED <<tvars, cvars>> /\
            \/ pc' \in Ready /\ pc \in Ready
            \/ pc' \notin {"textbox"} \cup Ready
    BY <1>1, <2>7 DEF cvars
  <2> QED BY <1>4, <2>1, <2>2, <2>3, <2>4, <2>5, <2>6, <2>7, LoopSteps
<1> QED BY <1>3, <1>4

-----------------------------------------------------------------------------
(* Lights.                                                                 *)

IsLight(r) ==
    /\ r = [name |-> r.name, val |-> r.val, dir |-> r.dir, updated |-> r.updated]
    /\ r.updated \in BOOLEAN

TurnedTo(d, r) == [r EXCEPT !.dir = d, !.updated = TRUE]
Unflagged(r) == [r EXCEPT !.updated = FALSE]

LEMMA LightFlagged ==
    ASSUME NEW r, IsLight(r), NEW b \in BOOLEAN
    PROVE  LET c == [r EXCEPT !.updated = b] IN
           IsLight(c) /\ c.updated = b /\ c.name = r.name /\ c.dir = r.dir
<1> DEFINE c == [r EXCEPT !.updated = b]
           a == r.name
           v == r.val
           d == r.dir
           u == r.updated
<1>1. r = [name |-> a, val |-> v, dir |-> d, updated |-> u]
  BY DEF IsLight
<1> HIDE DEF a, v, d, u
<1>2. c = [name |-> a, val |-> v, dir |-> d, updated |-> b]
  BY <1>1
<1> HIDE DEF c
<1>3. IsLight(c) /\ c.updated = b /\ c.name = a /\ c.dir = d
  BY <1>2 DEF IsLight
<1> QED BY <1>3 DEF c, a, d

LEMMA LightSet ==
    ASSUME NEW r, IsLight(r), NEW x
    PROVE  LET c == [r EXCEPT !.val = x, !.updated = TRUE] IN
           IsLight(c) /\ c.updated = TRUE /\ c.name = r.name /\ c.dir = r.dir
<1> DEFINE c == [r EXCEPT !.val = x, !.updated = TRUE]
           e == [r EXCEPT !.val = x]
           a == r.name
           v == r.val
           d == r.dir
           u == r.updated
<1>1. r = [name |-> a, val |-> v, dir |-> d, updated |-> u]
  BY DEF IsLight
<1>2. c = [e EXCEPT !.updated = TRUE]
  OBVIOUS
<1> HIDE DEF a, v, d, u, c
<1>3. e = [name |-> a, val |-> x, dir |-> d, updated |-> u]
  BY <1>1
<1> HIDE DEF e
<1>4. c = [name |-> a, val |-> x, dir |-> d, updated |-> TRUE]
  BY <1>2, <1>3
<1>5. IsLight(c) /\ c.updated = TRUE /\ c.name = a /\ c.dir = d
  BY <1>4 DEF IsLight
<1> QED BY <1>5 DEF c, a, d

LEMMA LightTurned ==
    ASSUME NEW r, IsLight(r), NEW x
    PROVE  /\ IsLight(TurnedTo(x, r))
           /\ TurnedTo(x, r).name = r.name /\ TurnedTo(x, r).dir = x
<1> DEFINE f == TurnedTo(x, r)
           e == [r EXCEPT !.dir = x]
           a == r.name
           v == r.val
           d == r.dir
           u == r.updated
<1>1. r = [name |-> a, val |-> v, dir |-> d, updated |-> u]
  BY DEF IsLight
<1>2. f = [e EXCEPT !.updated = TRUE]
  BY DEF TurnedTo
<1> HIDE DEF a, v, d, u, f
<1>3. e = [name |-> a, val |-> v, dir |-> x, updated |-> u]
  BY <1>1
<1> HIDE DEF e
<1>4. f = [name |-> a, val |-> v, dir |-> x, updated |-> TRUE]
  BY <1>2, <1>3
<1>5. IsLight(f) /\ f.name = a /\ f.dir = x
  BY <1>4 DEF IsLight
<1> QED BY <1>5 DEF f, a

(* The light of the sun is where its pointer says, and nowhere else; no    *)
(* other has a direction that was given to it.                             *)
Named(t, i, r, sl) ==
    /\ IsLight(r)
    /\ r.name = "sun" <=> t = "dir" /\ i = sl
    /\ r.name # "sun" => r.dir = Day

LightArrays ==
    /\ lights = [t \in LightTypes |-> lights[t]]
    /\ \A t \in LightTypes :
        /\ IsList(lights[t]) /\ Len(lights[t]) <= MaxLights
        /\ \A i \in 1..Len(lights[t]) : Named(t, i, lights[t][i], sun_light)

(* The direction of the light is that of the sun, or will be. *)
SunFollows ==
    /\ sun = [time |-> sun.time, updated |-> sun.updated]
    /\ sun.updated \in BOOLEAN
    /\ sun_light \in 0..Len(lights["dir"])
    /\ sun_light # 0 => sun.updated \/ lights["dir"][sun_light].dir = sun.time

LightsAre == LightArrays /\ SunFollows

LEMMA LightArraysAre ==
    ASSUME LightArrays, NEW t \in LightTypes
    PROVE  /\ IsList(lights[t]) /\ Len(lights[t]) \in Nat
           /\ Len(lights[t]) <= MaxLights /\ MaxLights \in Nat
           /\ DOMAIN lights[t] = 1..Len(lights[t])
           /\ \A i \in 1..Len(lights[t]) : Named(t, i, lights[t][i], sun_light)
           /\ \A i : [type |-> t, i |-> i] \in LivePointers
                        <=> i \in 1..Len(lights[t])
<1>1. /\ IsList(lights[t]) /\ Len(lights[t]) <= MaxLights
      /\ \A i \in 1..Len(lights[t]) : Named(t, i, lights[t][i], sun_light)
  BY DEF LightArrays
<1>2. /\ Len(lights[t]) \in Nat /\ DOMAIN lights[t] = 1..Len(lights[t])
      /\ MaxLights \in Nat
  BY <1>1, ListIs, LightingAssumption DEF LightingAssumption
<1> DEFINE n == Len(lights[t])
           d == DOMAIN lights[t]
<1>3. n \in Nat /\ n <= MaxLights /\ d = 1..n
  BY <1>1, <1>2
<1>4. \A i : [type |-> t, i |-> i] \in LivePointers <=> i \in 1..MaxLights /\ i \in d
  BY DEF LivePointers
<1> HIDE DEF n, d
<1>5. \A i : [type |-> t, i |-> i] \in LivePointers <=> i \in 1..n
  BY <1>2, <1>3, <1>4
<1> QED BY <1>1, <1>2, <1>5 DEF n

LEMMA LivePointersAre ==
    ASSUME LightArrays, NEW p \in LivePointers
    PROVE  /\ p.type \in LightTypes /\ p.i \in 1..Len(lights[p.type])
           /\ p = [type |-> p.type, i |-> p.i]
           /\ LightAt(p) = lights[p.type][p.i]
<1>1. /\ p.type \in LightTypes /\ p = [type |-> p.type, i |-> p.i]
      /\ p.i \in DOMAIN lights[p.type]
  BY DEF LivePointers
<1> QED BY <1>1, LightArraysAre DEF LightAt

(* Lights in a step that changes one of the arrays. *)
LEMMA OneLightArray ==
    ASSUME LightArrays, NEW t \in LightTypes, NEW a,
           lights' = [lights EXCEPT ![t] = a],
           IsList(a), Len(a) <= MaxLights,
           \A i \in 1..Len(a) : Named(t, i, a[i], sun_light'),
           sun_light' = sun_light \/ t = "dir"
    PROVE  /\ LightArrays' /\ lights'[t] = a
           /\ \A u \in LightTypes \ {t} : lights'[u] = lights[u]
<1>1. /\ lights'[t] = a
      /\ \A u \in LightTypes \ {t} : lights'[u] = lights[u]
      /\ lights' = [u \in LightTypes |-> lights'[u]]
  BY DEF LightArrays
<1>2. ASSUME NEW u \in LightTypes \ {t}
      PROVE  /\ IsList(lights[u]) /\ Len(lights[u]) <= MaxLights
             /\ \A i \in 1..Len(lights[u]) : Named(u, i, lights[u][i], sun_light')
  <2>1. u # "dir" \/ sun_light' = sun_light
    OBVIOUS
  <2> QED BY <1>1, <2>1 DEF LightArrays, Named
<1> QED BY <1>1, <1>2 DEF LightArrays

LEMMA NewLightIs ==
    ASSUME NEW a, NEW v
    PROVE  /\ IsLight(NewLight(a, v)) /\ NewLight(a, v).name = a
           /\ NewLight(a, v).dir = Day /\ NewLight(a, v).updated = TRUE
BY DEF IsLight, NewLight

(* A light at the end of an array. *)
LEMMA AppendLight ==
    ASSUME LightArrays, NEW t \in LightTypes, NEW r, Len(lights[t]) # MaxLights,
           lights' = [lights EXCEPT ![t] = Append(@, r)],
           Named(t, Len(lights[t]) + 1, r, sun_light'),
           \/ sun_light' = sun_light
           \/ t = "dir" /\ sun_light = 0 /\ sun_light' = Len(lights["dir"]) + 1
    PROVE  /\ LightArrays'
           /\ Len(lights'[t]) = Len(lights[t]) + 1
           /\ \A i \in 1..Len(lights[t]) : lights'[t][i] = lights[t][i]
           /\ \A u \in LightTypes \ {t} : lights'[u] = lights[u]
<1> DEFINE s == lights[t]
           a == Append(s, r)
           n == Len(s)
<1>1. /\ IsList(s) /\ n \in Nat /\ n < MaxLights /\ MaxLights \in Nat
      /\ \A i \in 1..n : Named(t, i, s[i], sun_light)
  BY LightArraysAre
<1>2. lights' = [lights EXCEPT ![t] = a]
  OBVIOUS
<1>3. t = "dir" => n = Len(lights["dir"])
  OBVIOUS
<1> HIDE DEF s, n
<1>4. /\ IsList(a) /\ Len(a) = n + 1
      /\ \A i \in 1..n : a[i] = s[i]
      /\ a[n + 1] = r
  BY <1>1, ListAppend DEF n
<1> HIDE DEF a
<1>5. \A i \in 1..n : Named(t, i, a[i], sun_light')
  <2> SUFFICES ASSUME NEW i \in 1..n PROVE Named(t, i, a[i], sun_light')
    OBVIOUS
  <2>1. a[i] = s[i] /\ Named(t, i, s[i], sun_light)
    BY <1>1, <1>4
  <2>2. t = "dir" => (i = sun_light <=> i = sun_light')
    <3>1. i # n + 1 /\ i # 0
      BY <1>1
    <3> QED BY <1>3, <3>1
  <2> QED BY <2>1, <2>2 DEF Named
<1>6. \A i \in 1..Len(a) : Named(t, i, a[i], sun_light')
  <2>1. \A i \in 1..(n + 1) : i \in 1..n \/ i = n + 1
    BY <1>1
  <2>2. Named(t, n + 1, r, sun_light')
    BY DEF n, s
  <2> QED BY <1>4, <1>5, <2>1, <2>2
<1>7. /\ LightArrays' /\ lights'[t] = a
      /\ \A u \in LightTypes \ {t} : lights'[u] = lights[u]
  <2>1. Len(a) <= MaxLights
    BY <1>1, <1>4
  <2>2. sun_light' = sun_light \/ t = "dir"
    OBVIOUS
  <2> QED BY <1>2, <1>4, <1>6, <2>1, <2>2, OneLightArray
<1> QED BY <1>4, <1>7 DEF s, n

LEMMA AddLightKeeps ==
    ASSUME LightsAre, NEW e \in Owners, NEW t \in LightTypes, NEW v,
           add_light(e, t, v)
    PROVE  LightsAre'
<1>1. UNCHANGED <<sun, sun_light>> /\ e # "sun"
  BY LightingAssumption DEF add_light, LightingAssumption
<1>2. CASE UNCHANGED lights
  BY <1>1, <1>2 DEF LightsAre, LightArrays, SunFollows, Named
<1>3. CASE /\ Len(lights[t]) # MaxLights
           /\ lights' = [lights EXCEPT ![t] = Append(@, NewLight(e, v))]
  <2> DEFINE n == Len(lights[t]) + 1
             r == NewLight(e, v)
  <2>1. n \in Nat /\ (t = "dir" => n # sun_light)
    <3>1. Len(lights[t]) \in Nat
      BY LightArraysAre DEF LightsAre
    <3>2. t = "dir" => sun_light \in 0..Len(lights[t])
      BY DEF LightsAre, SunFollows
    <3> QED BY <3>1, <3>2
  <2> HIDE DEF n
  <2>2. Named(t, n, r, sun_light')
    <3> HIDE DEF r
    <3>1. IsLight(r) /\ r.name = e /\ r.dir = Day
      BY NewLightIs DEF r
    <3> QED BY <1>1, <2>1, <3>1 DEF Named
  <2> HIDE DEF r
  <2>3. /\ LightArrays'
        /\ Len(lights'[t]) = Len(lights[t]) + 1
        /\ \A i \in 1..Len(lights[t]) : lights'[t][i] = lights[t][i]
        /\ \A u \in LightTypes \ {t} : lights'[u] = lights[u]
    BY <1>1, <1>3, <2>2, AppendLight DEF LightsAre, n, r
  <2>4. SunFollows'
    <3>1. /\ Len(lights["dir"]) \in Nat
          /\ Len(lights'["dir"]) \in {Len(lights["dir"]), Len(lights["dir"]) + 1}
          /\ \A i \in 1..Len(lights["dir"]) : lights'["dir"][i] = lights["dir"][i]
      BY <2>3, LightArraysAre, LightingAssumption
      DEF LightsAre, LightingAssumption
    <3> DEFINE m == Len(lights["dir"])
               k == Len(lights'["dir"])
    <3>2. sun_light \in 0..m
      BY DEF LightsAre, SunFollows
    <3>3. m \in Nat /\ k \in {m, m + 1}
      BY <3>1
    <3>4. sun_light # 0 => lights'["dir"][sun_light] = lights["dir"][sun_light]
      <4>1. sun_light # 0 => sun_light \in 1..m
        BY <3>2, <3>3
      <4> QED BY <3>1, <4>1
    <3> HIDE DEF m, k
    <3>5. sun_light \in 0..k
      BY <3>2, <3>3
    <3> QED BY <1>1, <3>4, <3>5 DEF LightsAre, SunFollows, k
  <2> QED BY <2>3, <2>4 DEF LightsAre
<1> QED BY <1>2, <1>3 DEF add_light

(* A removal: of another light, when that of the sun is not the last, or   *)
(* of that of the sun.                                                     *)
LEMMA RemoveLightKeeps ==
    ASSUME LightsAre, NEW t \in LightTypes, NEW i \in 1..Len(lights[t]),
           lights' = [lights EXCEPT ![t] = RemovedLight(@, i)],
           sun' = sun,
           \/ /\ sun_light' = sun_light
              /\ lights[t][i].name # "sun"
              /\ lights[t][Len(lights[t])].name # "sun"
           \/ t = "dir" /\ i = sun_light /\ sun_light' = 0
    PROVE  LightsAre'
<1> DEFINE s == lights[t]
           n == Len(s)
           l == s[n]
           c == [l EXCEPT !.updated = TRUE]
           a == RemovedLight(s, i)
           kept == /\ sun_light' = sun_light
                   /\ s[i].name # "sun" /\ l.name # "sun"
           off == t = "dir" /\ i = sun_light /\ sun_light' = 0
<1>0. kept \/ off
  OBVIOUS
<1>1. /\ IsList(s) /\ n \in Nat /\ n <= MaxLights /\ MaxLights \in Nat
      /\ \A j \in 1..n : Named(t, j, s[j], sun_light)
      /\ i \in 1..n /\ n \in 1..n
  <2>1. /\ IsList(s) /\ n \in Nat /\ n <= MaxLights /\ MaxLights \in Nat
        /\ \A j \in 1..n : Named(t, j, s[j], sun_light)
    BY LightArraysAre DEF LightsAre
  <2> QED BY <2>1
<1>2. lights' = [lights EXCEPT ![t] = a]
  OBVIOUS
<1> HIDE DEF a, s
<1>3. Moves(s, i, a)
  BY <1>1, RemovedMoves DEF a
<1>4. IsLight(c) /\ c.name = l.name /\ c.dir = l.dir
  <2>1. IsLight(l) /\ TRUE \in BOOLEAN
    BY <1>1 DEF Named
  <2> HIDE DEF l
  <2> QED BY <2>1, LightFlagged, Zenon
<1>5. /\ IsList(a) /\ Len(a) = n - 1
      /\ \A j \in 1..n - 1 : a[j] = IF j = i THEN c ELSE s[j]
  BY <1>3 DEF Moves
<1>6. \A j \in 1..n - 1 : j \in 1..n /\ j # n /\ j # 0
  <2> HIDE DEF n
  <2> QED BY <1>1
<1>7. Named(t, n, l, sun_light)
  BY <1>1
<1> HIDE DEF a, n, c, l
<1>8. ASSUME NEW j \in 1..n - 1 PROVE Named(t, j, a[j], sun_light')
  <2>1. /\ Named(t, j, s[j], sun_light) /\ Named(t, i, s[i], sun_light)
        /\ j # n /\ j # 0
    BY <1>1, <1>6
  <2>2. CASE j = i
    <3>1. a[j] = c
      BY <1>5, <2>2
    <3>2. CASE kept
      BY <1>4, <1>7, <2>1, <2>2, <3>1, <3>2 DEF Named
    <3>3. CASE off
      BY <1>4, <1>7, <2>1, <2>2, <3>1, <3>3 DEF Named
    <3> QED BY <1>0, <3>2, <3>3
  <2>3. CASE j # i
    <3>1. a[j] = s[j]
      BY <1>5, <2>3
    <3> QED BY <1>0, <2>1, <2>3, <3>1 DEF Named
  <2> QED BY <2>2, <2>3
<1>9. /\ LightArrays' /\ lights'[t] = a
      /\ \A u \in LightTypes \ {t} : lights'[u] = lights[u]
  <2>1. Len(a) <= MaxLights
    BY <1>1, <1>5
  <2>2. \A j \in 1..Len(a) : Named(t, j, a[j], sun_light')
    BY <1>5, <1>8
  <2>3. sun_light' = sun_light \/ t = "dir"
    BY <1>0
  <2> QED BY <1>2, <1>5, <2>1, <2>2, <2>3, OneLightArray DEF LightsAre
<1>10. SunFollows'
  <2>1. CASE t # "dir"
    <3>1. lights'["dir"] = lights["dir"] /\ sun_light' = sun_light
      BY <1>0, <1>9, <2>1, LightingAssumption DEF LightingAssumption
    <3> QED BY <3>1 DEF LightsAre, SunFollows
  <2>2. CASE off
    <3>1. Len(lights'["dir"]) \in Nat
      BY <1>5, <1>9, <2>2, ListIs
    <3> QED BY <2>2, <3>1 DEF LightsAre, SunFollows
  <2>3. CASE kept /\ t = "dir"
    <3>1. /\ sun_light \in 0..n
          /\ sun_light # 0 => sun.updated \/ s[sun_light].dir = sun.time
      BY <2>3 DEF LightsAre, SunFollows, s, n
    <3>2. Named("dir", i, s[i], sun_light) /\ Named("dir", n, l, sun_light)
      BY <1>1, <1>7, <2>3
    <3>3. sun_light # i /\ sun_light # n
      BY <2>3, <3>2 DEF Named
    <3>4. sun_light \in 0..n - 1
      BY <1>1, <3>1, <3>3
    <3>5. sun_light # 0 => a[sun_light] = s[sun_light]
      <4>1. sun_light # 0 => sun_light \in 1..n - 1
        BY <1>1, <3>4
      <4> QED BY <1>5, <3>3, <4>1
    <3>6. lights'["dir"] = a /\ sun_light' = sun_light
      BY <1>9, <2>3
    <3> HIDE DEF kept
    <3>7. /\ sun' = [time |-> sun'.time, updated |-> sun'.updated]
          /\ sun'.updated \in BOOLEAN
      BY DEF LightsAre, SunFollows
    <3>8. sun_light' \in 0..Len(lights'["dir"])
      BY <1>5, <3>4, <3>6
    <3>9. sun_light' # 0 =>
            sun'.updated \/ lights'["dir"][sun_light'].dir = sun'.time
      BY <3>1, <3>5, <3>6
    <3> QED BY <3>7, <3>8, <3>9 DEF SunFollows
  <2> QED BY <1>0, <2>1, <2>2, <2>3
<1> QED BY <1>9, <1>10 DEF LightsAre

LEMMA SetLightKeeps ==
    ASSUME LightsAre, NEW p \in LivePointers, NEW v, set_light(p, v)
    PROVE  LightsAre'
<1> DEFINE t == p.type
           s == lights[t]
           n == Len(s)
           q == s[p.i]
           r == [q EXCEPT !.val = v, !.updated = TRUE]
           a == [s EXCEPT ![p.i] = r]
<1>1. /\ t \in LightTypes /\ IsList(s) /\ n \in Nat /\ n <= MaxLights
      /\ p.i \in 1..n /\ DOMAIN s = 1..n
      /\ \A i \in 1..n : Named(t, i, s[i], sun_light)
  BY LightArraysAre, LivePointersAre DEF LightsAre
<1>2. lights' = [lights EXCEPT ![t] = a] /\ UNCHANGED <<sun, sun_light>>
  BY DEF set_light
<1>3. IsLight(r) /\ r.name = q.name /\ r.dir = q.dir
  <2>1. IsLight(q) /\ TRUE \in BOOLEAN
    BY <1>1 DEF Named
  <2> HIDE DEF q
  <2> QED BY <2>1, LightSet, Zenon
<1>4. t = "dir" => s = lights["dir"]
  OBVIOUS
<1> HIDE DEF s, r, n, t
<1>5. DOMAIN a = 1..n /\ a = [i \in 1..n |-> a[i]]
  BY <1>1
<1>6. \A i \in 1..n : a[i] = IF i = p.i THEN r ELSE s[i]
  BY <1>1
<1> HIDE DEF a
<1>7. \A i \in 1..n : Named(t, i, a[i], sun_light') /\ a[i].dir = s[i].dir
  BY <1>1, <1>2, <1>3, <1>6 DEF Named, q
<1>8. IsList(a) /\ Len(a) = n
  BY <1>1, <1>5, IsListOf
<1>9. /\ LightArrays' /\ lights'[t] = a
      /\ \A u \in LightTypes \ {t} : lights'[u] = lights[u]
  <2>1. \A i \in 1..Len(a) : Named(t, i, a[i], sun_light')
    BY <1>7, <1>8
  <2> QED BY <1>1, <1>2, <1>8, <2>1, OneLightArray DEF LightsAre
<1>10. SunFollows'
  <2> DEFINE d == lights["dir"]
             e == lights'["dir"]
             m == Len(d)
  <2>1. Len(e) = m /\ m \in Nat /\ \A i \in 1..m : e[i].dir = d[i].dir
    <3>1. CASE t = "dir"
      <4>1. e = a /\ d = s /\ m = n
        BY <1>4, <1>9, <3>1 DEF n
      <4> QED BY <1>1, <1>7, <1>8, <4>1
    <3>2. CASE t # "dir"
      <4>1. e = d /\ m \in Nat
        BY <1>9, <3>2, LightArraysAre, LightingAssumption
        DEF LightsAre, LightingAssumption
      <4> QED BY <4>1
    <3> QED BY <3>1, <3>2
  <2>2. sun_light \in 0..m
        /\ (sun_light # 0 => sun.updated \/ d[sun_light].dir = sun.time)
    BY DEF LightsAre, SunFollows
  <2> HIDE DEF d, e, m
  <2>3. sun_light # 0 => sun_light \in 1..m
    BY <2>1, <2>2
  <2>4. sun_light # 0 => sun.updated \/ e[sun_light].dir = sun.time
    BY <2>1, <2>2, <2>3
  <2>5. sun_light' \in 0..Len(e)
    BY <1>2, <2>1, <2>2
  <2>6. sun = [time |-> sun.time, updated |-> sun.updated] /\ sun.updated \in BOOLEAN
    BY DEF LightsAre, SunFollows
  <2> QED BY <1>2, <2>4, <2>5, <2>6 DEF SunFollows, e
<1> QED BY <1>9, <1>10 DEF LightsAre

LEMMA SunOnKeeps ==
    ASSUME LightsAre, NEW v, sun_on(v)
    PROVE  LightsAre'
<1>1. /\ sun_light = 0 /\ sun' = [time |-> 0, updated |-> TRUE]
      /\ sun' = [time |-> sun'.time, updated |-> sun'.updated]
      /\ sun'.updated = TRUE
  BY DEF sun_on
<1>2. "dir" \in LightTypes
  BY LightingAssumption DEF LightingAssumption
<1>3. CASE UNCHANGED <<lights, sun_light>>
  <2>1. LightArrays'
    BY <1>3 DEF LightsAre, LightArrays
  <2>2. SunFollows'
    BY <1>1, <1>3 DEF LightsAre, SunFollows
  <2> QED BY <2>1, <2>2 DEF LightsAre
<1>4. CASE /\ Len(lights["dir"]) # MaxLights
           /\ lights' = [lights EXCEPT !["dir"] = Append(@, NewLight("sun", v))]
           /\ sun_light' = Len(lights["dir"]) + 1
  <2> DEFINE n == Len(lights["dir"]) + 1
             r == NewLight("sun", v)
  <2>1. Named("dir", n, r, sun_light')
    <3> HIDE DEF r
    <3>1. IsLight(r) /\ r.name = "sun"
      BY NewLightIs DEF r
    <3> QED BY <1>4, <3>1 DEF Named
  <2> HIDE DEF r
  <2>2. /\ LightArrays' /\ Len(lights'["dir"]) = n
    BY <1>1, <1>2, <1>4, <2>1, AppendLight DEF LightsAre, r
  <2>3. n \in Nat
    BY <1>2, LightArraysAre DEF LightsAre
  <2>4. sun_light' \in 0..Len(lights'["dir"])
    BY <1>4, <2>2, <2>3
  <2>5. SunFollows'
    BY <1>1, <2>4 DEF SunFollows
  <2> QED BY <2>2, <2>5 DEF LightsAre
<1> QED BY <1>3, <1>4 DEF sun_on

LEMMA ChangeLightsKeeps ==
    ASSUME LightsAre, change_lighting, ~SunMoves
    PROVE  LightsAre'
<1>1. CASE \E e \in Owners, t \in LightTypes, v \in Values : add_light(e, t, v)
  BY <1>1, AddLightKeeps
<1>2. CASE \E p \in LivePointers : remove_light(p)
  <2>1. PICK p \in LivePointers : remove_light(p)
    BY <1>2
  <2> DEFINE t == p.type
             n == Len(lights[t])
             q == [p EXCEPT !.i = n]
  <2>2. t \in LightTypes /\ p.i \in 1..n /\ LightAt(p) = lights[t][p.i]
    BY LivePointersAre DEF LightsAre
  <2>3. q.type = t /\ q.i = n
    <3>1. p = [type |-> t, i |-> p.i]
      BY LivePointersAre DEF LightsAre
    <3> HIDE DEF n, t
    <3> QED BY <3>1
  <2>4. LightAt(q) = lights[t][n]
    BY <2>3 DEF LightAt
  <2>5. LightAt(p).name # "sun" /\ LightAt(q).name # "sun"
    BY <2>1 DEF remove_light
  <2>6. /\ lights' = [lights EXCEPT ![t] = RemovedLight(@, p.i)]
        /\ sun' = sun /\ sun_light' = sun_light
    BY <2>1 DEF remove_light
  <2> HIDE DEF q, t
  <2> QED BY <2>2, <2>4, <2>5, <2>6, RemoveLightKeeps
<1>3. CASE \E p \in LivePointers, v \in Values : set_light(p, v)
  BY <1>3, SetLightKeeps
<1>4. CASE sun_off
  <2>1. /\ "dir" \in LightTypes
        /\ sun_light \in 1..Len(lights["dir"])
    <3>1. "dir" \in LightTypes
      BY LightingAssumption DEF LightingAssumption
    <3>2. sun_light \in 0..Len(lights["dir"]) /\ Len(lights["dir"]) \in Nat
      BY <3>1, LightArraysAre DEF LightsAre, SunFollows
    <3>3. sun_light # 0
      BY <1>4 DEF sun_off
    <3> QED BY <3>1, <3>2, <3>3
  <2> QED BY <1>4, <2>1, RemoveLightKeeps DEF sun_off
<1>5. CASE \E v \in Values : sun_on(v)
  BY <1>5, SunOnKeeps
<1>6. CASE \E d \in 0..Day - 1 : set_time(d)
  <2>1. /\ UNCHANGED <<lights, sun_light>>
        /\ sun' = [time |-> sun'.time, updated |-> sun'.updated]
        /\ sun'.updated = TRUE
    BY <1>6 DEF set_time
  <2> QED BY <2>1 DEF LightsAre, LightArrays, SunFollows
<1>7. CASE UNCHANGED <<lights, sun, sun_light>>
  BY <1>7 DEF LightsAre, LightArrays, SunFollows
<1> QED BY <1>1, <1>2, <1>3, <1>4, <1>5, <1>6, <1>7
        DEF change_lighting, switch, set_ambient

LEMMA TurnedIs ==
    ASSUME NEW d, lights' = Turned(d)
    PROVE  lights' = [t \in LightTypes |-> [i \in DOMAIN lights[t] |->
                IF t = "dir" /\ i = sun_light THEN TurnedTo(d, lights[t][i])
                ELSE Unflagged(lights[t][i])]]
BY Zenon DEF Turned, TurnedTo, Unflagged

(* The light of the sun is turned, and flags of the others are cleared. *)
LEMMA TurnedKeeps ==
    ASSUME LightsAre, NEW d, lights' = Turned(d), sun_light' = sun_light,
           sun' = [time |-> d, updated |-> FALSE]
    PROVE  LightsAre'
<1>1. ASSUME NEW t \in LightTypes
      PROVE  /\ IsList(lights'[t]) /\ Len(lights'[t]) = Len(lights[t])
             /\ Len(lights'[t]) <= MaxLights
             /\ \A i \in 1..Len(lights'[t]) :
                    Named(t, i, lights'[t][i], sun_light')
             /\ \A i \in 1..Len(lights'[t]) :
                    t = "dir" /\ i = sun_light => lights'[t][i].dir = d
  <2> DEFINE s == lights[t]
             n == Len(s)
             a == lights'[t]
  <2>1. /\ n \in Nat /\ n <= MaxLights /\ DOMAIN s = 1..n
        /\ \A i \in 1..n : Named(t, i, s[i], sun_light)
    BY LightArraysAre DEF LightsAre
  <2>2. a = [i \in DOMAIN s |->
            IF t = "dir" /\ i = sun_light THEN TurnedTo(d, s[i])
            ELSE Unflagged(s[i])]
    BY TurnedIs
  <2> HIDE DEF s, n, a
  <2>3. /\ DOMAIN a = 1..n /\ a = [i \in 1..n |-> a[i]]
        /\ \A i \in 1..n :
            a[i] = IF t = "dir" /\ i = sun_light THEN TurnedTo(d, s[i])
                   ELSE Unflagged(s[i])
    BY <2>1, <2>2
  <2>4. ASSUME NEW i \in 1..n
        PROVE  /\ Named(t, i, a[i], sun_light')
               /\ t = "dir" /\ i = sun_light => a[i].dir = d
    <3> DEFINE q == s[i]
               f == TurnedTo(d, q)
               g == Unflagged(q)
    <3>1. Named(t, i, q, sun_light)
      BY <2>1
    <3>2. IsLight(q) /\ TRUE \in BOOLEAN /\ FALSE \in BOOLEAN
      BY <3>1 DEF Named
    <3>3. a[i] = IF t = "dir" /\ i = sun_light THEN f ELSE g
      BY <2>3
    <3> HIDE DEF q
    <3>4. IsLight(f) /\ f.name = q.name /\ f.dir = d
      BY <3>2, LightTurned
    <3>5. IsLight(g) /\ g.name = q.name /\ g.dir = q.dir
      BY <3>2, LightFlagged, Zenon DEF Unflagged
    <3> HIDE DEF f, g
    <3> QED BY <3>1, <3>3, <3>4, <3>5 DEF Named
  <2>5. IsList(a) /\ Len(a) = n
    BY <2>1, <2>3, IsListOf
  <2> QED BY <2>1, <2>4, <2>5 DEF a, s, n
<1>2. LightArrays'
  <2>1. lights' = [t \in LightTypes |-> lights'[t]]
    <3> DEFINE f == lights'
    <3>1. f = [t \in LightTypes |-> [i \in DOMAIN lights[t] |->
                IF t = "dir" /\ i = sun_light THEN TurnedTo(d, lights[t][i])
                ELSE Unflagged(lights[t][i])]]
      BY TurnedIs
    <3> HIDE DEF f
    <3>2. f = [t \in LightTypes |-> f[t]]
      BY <3>1
    <3> QED BY <3>2 DEF f
  <2> QED BY <1>1, <2>1 DEF LightArrays
<1>3. SunFollows'
  <2>1. "dir" \in LightTypes
    BY LightingAssumption DEF LightingAssumption
  <2>2. Len(lights'["dir"]) = Len(lights["dir"]) /\ Len(lights["dir"]) \in Nat
    BY <1>1, <2>1, LightArraysAre DEF LightsAre
  <2>3. sun_light \in 0..Len(lights'["dir"])
    BY <2>2 DEF LightsAre, SunFollows
  <2>4. sun_light # 0 => sun_light \in 1..Len(lights'["dir"])
    BY <2>2, <2>3
  <2>5. sun_light # 0 => lights'["dir"][sun_light].dir = d
    BY <1>1, <2>1, <2>4
  <2>6. sun'.time = d /\ sun'.updated = FALSE
    OBVIOUS
  <2>7. sun' = [time |-> sun'.time, updated |-> sun'.updated]
    BY <2>6
  <2> QED BY <2>3, <2>5, <2>6, <2>7 DEF SunFollows
<1> QED BY <1>2, <1>3 DEF LightsAre

(* What is computed, and when it will be.                                  *)
Lighted ==
    IF "ENABLED" \in lflags THEN ubo = Computed(lights, ambient.w, view_pos)
    ELSE ubo = Zeroed

LightingFollows ==
    \/ Lighted
    \/ "UPDATED" \in lflags
    \/ /\ "ENABLED" \in lflags
       /\ "VIEW_UPDATED" \in lflags \/ \E p \in LivePointers : LightAt(p).updated

LightsSent == "lights" \in dirty \/ shown_lights = ubo

SendingFollows ==
    \/ LightsSent
    \/ "UPDATED" \in lflags
    \/ "ENABLED" \in lflags /\ ("VIEW_UPDATED" \in lflags \/ cflags # {})

LightInv ==
    /\ LightsAre /\ LightingFollows /\ SendingFollows
    /\ pc \in {"lighting", "draw"} =>
            Lighted /\ LightsSent /\ ("ENABLED" \in lflags => ~sun.updated)
    /\ pc = "draw" => shown_lights = ubo

LEMMA LightStart ==
    ASSUME Init PROVE LightInv
<1>1. /\ lights = [t \in LightTypes |-> <<>>] /\ pc = "scripts"
      /\ sun = [time |-> 0, updated |-> TRUE]
      /\ sun_light = 0 /\ "UPDATED" \in lflags /\ "lights" \in dirty
  BY DEF Init, LightingInit
<1>2. "dir" \in LightTypes /\ MaxLights \in Nat
  BY LightingAssumption DEF LightingAssumption
<1>3. LightArrays
  BY <1>1, <1>2, EmptyList DEF LightArrays
<1>4. SunFollows
  BY <1>1, <1>2, EmptyList DEF SunFollows
<1> QED BY <1>1, <1>3, <1>4
        DEF LightInv, LightsAre, LightingFollows, SendingFollows, LightsSent

LEMMA LightsKept ==
    ASSUME LightsAre, UNCHANGED <<lights, sun, sun_light>>
    PROVE  LightsAre'
BY DEF LightsAre, LightArrays, SunFollows

(* Steps of others: neither is there less to do, nor has anything changed. *)
LEMMA LightKept ==
    ASSUME LightInv, UNCHANGED <<lvars, shown_lights>>,
           dirty \subseteq dirty', cflags # {} => cflags' # {},
           pc' \in {"lighting", "draw"} => pc' = pc
    PROVE  LightInv'
<1>1. UNCHANGED <<lights, sun, sun_light, lflags, ambient, view_pos, ubo>>
  BY DEF lvars
<1>2. LightsAre'
  BY <1>1, LightsKept DEF LightInv
<1>3. Lighted' = Lighted
  BY <1>1 DEF Lighted, Computed, Uniforms
<1>4. LightingFollows'
  <2> HIDE DEF Lighted
  <2> QED BY <1>1, <1>3 DEF LightInv, LightingFollows, LivePointers, LightAt
<1>5. SendingFollows' /\ (LightsSent => LightsSent')
  BY <1>1 DEF LightInv, SendingFollows, LightsSent
<1> HIDE DEF Lighted, LightsSent
<1> QED BY <1>1, <1>2, <1>3, <1>4, <1>5 DEF LightInv

(* Lighting::update(), when lighting is enabled. *)
LEMMA EnabledLights ==
    ASSUME LightsAre, NEW lit \in BOOLEAN, NEW w, Enabled(lit, w)
    PROVE  /\ LightsAre' /\ sun'.updated = FALSE
           /\ "ENABLED" \in lflags' /\ "ENABLED" \in lflags
           /\ ambient'.w = w /\ view_pos' = view_pos
           /\ lit => ubo' = Computed(lights', w, view_pos)
           /\ ~lit => /\ UNCHANGED <<lights, ubo, lflags>> /\ w = ambient.w
                      /\ lflags \cap Changes = {}
                      /\ ~\E p \in LivePointers : LightAt(p).updated
<1> DEFINE animated == ambient.left > 0
           moves == sun_light # 0 /\ "UPDATE_SUN" \in lflags
           next == (sun.time + 1) % Day
           new == IF moves THEN [time |-> next, updated |-> TRUE] ELSE sun
<1>1. /\ "ENABLED" \in lflags
      /\ animated \/ w = ambient.w
      /\ ambient' = [w |-> w, left |-> 0]
      /\ lit = Changed(new, animated)
      /\ sun' = [new EXCEPT !.updated = @ /\ ~lit]
      /\ IF lit
         THEN /\ lflags' = lflags \ {"UPDATED", "VIEW_UPDATED"}
              /\ lights' = Turned(new.time)
              /\ ubo' = Computed(lights', w, view_pos)
         ELSE UNCHANGED <<lflags, lights, ubo>>
      /\ UNCHANGED <<sun_light, view_pos>>
  BY Zenon DEF Enabled
<1>2. /\ sun = [time |-> sun.time, updated |-> sun.updated]
      /\ sun.updated \in BOOLEAN
  BY DEF LightsAre, SunFollows
<1> HIDE DEF animated, next
<1>3. /\ new = [time |-> new.time, updated |-> new.updated]
      /\ new.updated \in BOOLEAN
      /\ moves => new.updated = TRUE
      /\ ~moves => new = sun
  BY <1>2
<1> HIDE DEF new, moves
<1>4. sun' = [time |-> new.time, updated |-> new.updated /\ ~lit]
  BY <1>1, <1>3
<1>5. CASE lit
  <2>1. sun' = [time |-> new.time, updated |-> FALSE]
    BY <1>4, <1>5
  <2>2. LightsAre' /\ sun'.updated = FALSE
    BY <1>1, <1>5, <2>1, TurnedKeeps
  <2>3. ambient'.w = w /\ "ENABLED" \in lflags'
    BY <1>1, <1>5
  <2> QED BY <1>1, <1>5, <2>2, <2>3
<1>6. CASE ~lit
  <2>1. ~Changed(new, animated)
    BY <1>1, <1>6
  <2>2. /\ lflags \cap Changes = {} /\ ~new.updated /\ ~animated
        /\ ~\E p \in LivePointers : LightAt(p).updated
    BY <2>1, Zenon DEF Changed
  <2>3. new = sun
    BY <1>3, <2>2
  <2>4. sun' = sun /\ sun'.updated = FALSE
    <3>1. sun' = [time |-> sun.time, updated |-> FALSE]
      BY <1>4, <2>2, <2>3
    <3>2. sun.updated = FALSE
      BY <1>2, <2>2, <2>3
    <3> QED BY <1>2, <3>1, <3>2
  <2>5. /\ UNCHANGED <<lights, ubo, lflags, sun_light, view_pos>>
        /\ w = ambient.w /\ ambient'.w = w
    BY <1>1, <1>6, <2>2
  <2>6. LightsAre'
    BY <2>4, <2>5, LightsKept
  <2> QED BY <1>1, <1>6, <2>2, <2>4, <2>5, <2>6
<1> QED BY <1>5, <1>6

LEMMA LightLights ==
    ASSUME LightInv, light, pc = "renderers", pc' = "lighting", cflags = {}
    PROVE  LightInv'
<1>1. PICK lit \in BOOLEAN :
        /\ update_lighting(lit)
        /\ dirty' = IF lit THEN dirty \cup {"lights"} ELSE dirty
  BY DEF light
<1>2. shown_lights' = shown_lights
  BY DEF light
<1>3. LightsAre /\ LightingFollows /\ SendingFollows
  BY DEF LightInv
<1>4. SUFFICES /\ LightsAre' /\ Lighted' /\ LightsSent'
               /\ "ENABLED" \in lflags' => ~sun'.updated
  BY DEF LightInv, LightingFollows, SendingFollows
<1>5. CASE Disabled(lit)
  <2>1. /\ "ENABLED" \notin lflags /\ "ENABLED" \notin lflags'
        /\ UNCHANGED <<lights, sun, sun_light>>
        /\ lit => ubo' = Zeroed
        /\ ~lit => ubo' = ubo /\ "UPDATED" \notin lflags
    BY <1>5 DEF Disabled
  <2>2. LightsAre'
    BY <1>3, <2>1, LightsKept
  <2>3. ubo' = Zeroed
    BY <1>3, <2>1 DEF LightingFollows, Lighted
  <2>4. LightsSent'
    <3>1. ~lit => LightsSent
      BY <1>3, <2>1 DEF SendingFollows
    <3> QED BY <1>1, <1>2, <2>1, <3>1 DEF LightsSent
  <2> QED BY <2>1, <2>2, <2>3, <2>4 DEF Lighted
<1>6. CASE \E w \in Values : Enabled(lit, w)
  <2>1. PICK w \in Values : Enabled(lit, w)
    BY <1>6
  <2>2. /\ LightsAre' /\ sun'.updated = FALSE
        /\ "ENABLED" \in lflags' /\ "ENABLED" \in lflags
        /\ ambient'.w = w /\ view_pos' = view_pos
        /\ lit => ubo' = Computed(lights', w, view_pos)
        /\ ~lit => /\ UNCHANGED <<lights, ubo, lflags>> /\ w = ambient.w
                   /\ lflags \cap Changes = {}
                   /\ ~\E p \in LivePointers : LightAt(p).updated
    BY <1>3, <2>1, EnabledLights
  <2>3. Lighted' /\ LightsSent'
    <3>1. CASE lit
      <4>1. ubo' = Computed(lights', ambient'.w, view_pos')
        BY <2>2, <3>1
      <4>2. "lights" \in dirty'
        BY <1>1, <3>1
      <4> QED BY <2>2, <4>1, <4>2 DEF Lighted, LightsSent, Computed, Uniforms
    <3>2. CASE ~lit
      <4>1. Lighted /\ LightsSent
        BY <1>3, <2>2, <3>2 DEF LightingFollows, SendingFollows, Changes
      <4>2. LightsSent'
        BY <1>1, <1>2, <2>2, <3>2, <4>1 DEF LightsSent
      <4>3. ubo' = Computed(lights', ambient'.w, view_pos')
        BY <2>2, <3>2, <4>1 DEF Lighted
      <4> QED BY <2>2, <4>2, <4>3 DEF Lighted, Computed, Uniforms
    <3> QED BY <3>1, <3>2
  <2> QED BY <2>2, <2>3
<1> QED BY <1>1, <1>5, <1>6 DEF update_lighting

(* Scripts that change lights have them computed again. *)
LEMMA ChangeLightsFollow ==
    ASSUME LightInv, change_lighting
    PROVE  LightingFollows' /\ SendingFollows'
<1>1. UNCHANGED <<cvars, gvars>> /\ UNCHANGED <<view_pos, ubo>>
  <2>1. UNCHANGED <<cvars, gvars>>
    BY DEF change_lighting
  <2>2. \A e, t, v : add_light(e, t, v) => UNCHANGED <<view_pos, ubo>>
    BY DEF add_light
  <2>3. \A p, v : remove_light(p) \/ set_light(p, v) => UNCHANGED <<view_pos, ubo>>
    BY DEF remove_light, set_light
  <2>4. \A v : sun_off \/ sun_on(v) \/ set_time(v) \/ switch(v)
            => UNCHANGED <<view_pos, ubo>>
    BY DEF sun_off, sun_on, set_time, switch
  <2>5. \A v, n : set_ambient(v, n) => UNCHANGED <<view_pos, ubo>>
    BY DEF set_ambient
  <2> QED BY <2>1, <2>2, <2>3, <2>4, <2>5 DEF change_lighting
<1>2. UNCHANGED <<cflags, dirty, shown_lights>>
  BY <1>1 DEF cvars, gvars
<1>3. CASE "UPDATED" \in lflags'
  BY <1>3 DEF LightingFollows, SendingFollows
<1>4. CASE UNCHANGED <<lights, lflags>> /\ ambient'.w = ambient.w
  BY <1>1, <1>2, <1>4
  DEF LightInv, LightingFollows, SendingFollows, Lighted, LightsSent, Computed,
      Uniforms, LivePointers, LightAt
<1>5. CASE \E p \in LivePointers, v \in Values : set_light(p, v)
  <2>1. PICK p \in LivePointers, v \in Values : set_light(p, v)
    BY <1>5
  <2>2. /\ lights' = [lights EXCEPT
            ![p.type][p.i] = [@ EXCEPT !.val = v, !.updated = TRUE]]
        /\ UNCHANGED <<lflags, ambient>>
    BY <2>1 DEF set_light
  <2>3. SendingFollows'
    BY <1>1, <1>2, <2>2 DEF LightInv, SendingFollows, LightsSent
  <2>4. CASE "ENABLED" \notin lflags
    BY <1>1, <2>2, <2>3, <2>4 DEF LightInv, LightingFollows, Lighted
  <2>5. CASE "ENABLED" \in lflags
    <3> DEFINE t == p.type
               s == lights[t]
               q == s[p.i]
               r == [q EXCEPT !.val = v, !.updated = TRUE]
    <3>1. /\ t \in LightTypes /\ p.i \in DOMAIN s /\ t \in DOMAIN lights
          /\ IsLight(q) /\ TRUE \in BOOLEAN
      BY LivePointersAre, LightArraysAre
      DEF LightInv, LightsAre, LightArrays, Named
    <3>2. r.updated = TRUE
      <4> HIDE DEF q
      <4> QED BY <3>1, LightSet, Zenon
    <3>3. lights' = [lights EXCEPT ![t] = [s EXCEPT ![p.i] = r]]
      BY <2>2
    <3> HIDE DEF r, s
    <3>4. DOMAIN lights'[t] = DOMAIN s /\ lights'[t][p.i] = r
      BY <3>1, <3>3
    <3>5. p \in LivePointers'
      BY <3>1, <3>4 DEF LivePointers, s
    <3>6. LightAt(p)'.updated
      BY <3>2, <3>4 DEF LightAt
    <3> QED BY <2>2, <2>3, <2>5, <3>5, <3>6 DEF LightingFollows
  <2> QED BY <2>4, <2>5
<1>6. \/ "UPDATED" \in lflags'
      \/ UNCHANGED <<lights, lflags>> /\ ambient'.w = ambient.w
      \/ \E p \in LivePointers, v \in Values : set_light(p, v)
  <2>1. CASE \E e \in Owners, t \in LightTypes, v \in Values : add_light(e, t, v)
    BY <2>1 DEF add_light
  <2>2. CASE \E p \in LivePointers : remove_light(p)
    BY <2>2 DEF remove_light
  <2>3. CASE sun_off
    BY <2>3 DEF sun_off
  <2>4. CASE \E v \in Values : sun_on(v)
    BY <2>4 DEF sun_on
  <2>5. CASE \E d \in 0..Day - 1 : set_time(d)
    BY <2>5 DEF set_time
  <2>6. CASE \E s \in Switches : switch(s)
    BY <2>6 DEF switch
  <2>7. CASE \E v \in Values, n \in 0..1 : set_ambient(v, n)
    BY <2>7 DEF set_ambient
  <2> QED BY <2>1, <2>2, <2>3, <2>4, <2>5, <2>6, <2>7 DEF change_lighting
<1> QED BY <1>3, <1>4, <1>5, <1>6

LEMMA LightStep ==
    ASSUME LightInv, CameraInv, [Next]_vars, ~SunMoves
    PROVE  LightInv'
<1>1. CASE UNCHANGED vars
  BY <1>1, LightKept DEF vars, gvars, cvars
<1>2. CASE Next
  <2>1. CASE UNCHANGED <<lvars, gvars, cvars>> /\ pc' \notin {"lighting", "draw"}
    BY <2>1, LightKept DEF gvars, cvars
  <2>2. CASE /\ change_renderers \/ change_drawing \/ Others
             /\ pc' = pc /\ pc \in {"scripts", "callbacks"}
    <3>1. \/ UNCHANGED <<lvars, gvars, cvars>>
          \/ change_lighting /\ UNCHANGED gvars
          \/ UNCHANGED <<lvars, gvars>> /\ cflags \subseteq cflags'
      BY <2>2 DEF change_renderers, change_drawing, Others, change_animations,
        change_textbox, change_camera, set_screen, set_pos, set_parameter,
        set_acceleration, cvars
    <3>2. CASE change_lighting
      <4>1. LightsAre' /\ LightingFollows' /\ SendingFollows'
        BY <3>2, ChangeLightsFollow, ChangeLightsKeeps DEF LightInv
      <4> QED BY <2>2, <4>1 DEF LightInv
    <3>3. CASE UNCHANGED <<lvars, gvars>> /\ cflags \subseteq cflags'
      BY <2>2, <3>3, LightKept DEF gvars
    <3> QED BY <2>1, <2>2, <3>1, <3>2, <3>3
  <2>3. CASE replace_graphics /\ pc' = pc /\ pc \in {"scripts", "callbacks"}
    <3>1. /\ UNCHANGED <<lights, sun, sun_light, lflags, ambient, view_pos, ubo>>
          /\ cflags' # {} /\ ("lights" \in dirty' \/ "ENABLED" \in lflags)
      BY <2>3 DEF replace_graphics, set_screen, lvars
    <3>2. LightsAre'
      BY <3>1, LightsKept DEF LightInv
    <3>3. LightingFollows'
      BY <3>1 DEF LightInv, LightingFollows, Lighted, Computed, Uniforms,
        LivePointers, LightAt
    <3>4. SendingFollows'
      BY <3>1 DEF SendingFollows, LightsSent
    <3> QED BY <2>3, <3>2, <3>3, <3>4 DEF LightInv
  <2>4. CASE move_camera /\ pc' = "camera"
    <3>1. PICK moved \in BOOLEAN :
            /\ update_camera(moved)
            /\ IF moved
               THEN update_view(pos') /\ dirty' = dirty \cup {"view"}
               ELSE UNCHANGED <<lvars, dirty>>
      BY <2>4 DEF move_camera
    <3>2. shown_lights' = shown_lights
      BY <2>4 DEF move_camera
    <3>3. CASE moved
      <4>1. /\ UNCHANGED <<lights, sun, sun_light, ambient, ubo>>
            /\ lflags' = lflags \cup {"VIEW_UPDATED"}
            /\ dirty' = dirty \cup {"view"}
        BY <3>1, <3>3 DEF update_view
      <4>2. LightsAre'
        BY <4>1, LightsKept DEF LightInv
      <4>3. LightingFollows' /\ SendingFollows'
        BY <3>2, <4>1
        DEF LightInv, LightingFollows, SendingFollows, Lighted, LightsSent
      <4> QED BY <2>4, <4>2, <4>3 DEF LightInv
    <3>4. CASE ~moved
      <4>1. UNCHANGED <<lvars, dirty, cflags>>
        BY <3>1, <3>4 DEF update_camera
      <4> QED BY <2>4, <3>2, <4>1, LightKept
    <3> QED BY <3>3, <3>4
  <2>5. CASE light /\ pc = "renderers" /\ pc' = "lighting"
    <3>1. cflags = {}
      BY <2>5 DEF CameraInv, Placed, Ready
    <3> QED BY <2>5, <3>1, LightLights
  <2>6. CASE draw /\ pc = "lighting" /\ pc' = "draw"
    <3>1. /\ UNCHANGED <<lights, sun, sun_light, lflags, ambient, view_pos, ubo>>
          /\ shown_lights' = IF "lights" \in dirty THEN ubo ELSE shown_lights
      BY <2>6 DEF draw, lvars
    <3>2. LightsAre'
      BY <3>1, LightsKept DEF LightInv
    <3>3. Lighted'
      BY <2>6, <3>1 DEF LightInv, Lighted, Computed, Uniforms
    <3>4. shown_lights' = ubo' /\ LightsSent'
      BY <2>6, <3>1 DEF LightInv, LightsSent
    <3>5. "ENABLED" \in lflags' => ~sun'.updated
      BY <2>6, <3>1 DEF LightInv
    <3> QED BY <3>2, <3>3, <3>4, <3>5
            DEF LightInv, LightingFollows, SendingFollows
  <2>7. animate \/ collide \/ write_text \/ write_buffers \/ vsync
        => UNCHANGED <<lvars, gvars, cvars>>
    BY AnimateOnly DEF collide, write_text, write_buffers, vsync
  <2> QED BY <1>2, <2>1, <2>2, <2>3, <2>4, <2>5, <2>6, <2>7, LoopSteps
<1> QED BY <1>1, <1>2

-----------------------------------------------------------------------------
DrawingInv == RenderersInv /\ CameraInv /\ TextInv /\ LightInv

LEMMA LightsDrawn ==
    ASSUME LightInv, pc = "draw"
    PROVE  LightsMatch(shown_lights)
<1>1. Lighted /\ shown_lights = ubo /\ ("ENABLED" \in lflags => ~sun.updated)
      /\ LightArrays /\ SunFollows
  BY DEF LightInv, LightsAre
<1>2. CASE "ENABLED" \notin lflags
  BY <1>1, <1>2 DEF LightsMatch, Lighted
<1>3. CASE "ENABLED" \in lflags
  <2>1. shown_lights = Computed(lights, ambient.w, view_pos)
    BY <1>1, <1>3 DEF Lighted
  <2>2. ASSUME NEW p \in LivePointers
        PROVE  IF LightAt(p).name = "sun" THEN LightAt(p).dir = sun.time
               ELSE LightAt(p).dir = Day
    <3>1. /\ p.type \in LightTypes /\ p.i \in 1..Len(lights[p.type])
          /\ LightAt(p) = lights[p.type][p.i]
          /\ Named(p.type, p.i, LightAt(p), sun_light)
      BY <1>1, LivePointersAre, LightArraysAre
    <3>2. sun_light # 0 => lights["dir"][sun_light].dir = sun.time
      BY <1>1, <1>3 DEF SunFollows
    <3>3. p.i # 0
      <4>1. Len(lights[p.type]) \in Nat
        BY <1>1, <3>1, LightArraysAre
      <4> QED BY <3>1, <4>1
    <3> QED BY <3>1, <3>2, <3>3 DEF Named
  <2> QED BY <1>3, <2>1, <2>2 DEF LightsMatch
<1> QED BY <1>2, <1>3

(* When a frame has been drawn, Renderers::update(), Textbox::update(),    *)
(* Lighting::update() and Camera::update() have left in the buffers and    *)
(* uniforms what renderers, the text, the lights, the sun and the camera   *)
(* are now, whatever scripts have changed in whichever order, before the   *)
(* frame or in the middle of it: no flag is cleared too early or is set    *)
(* for something else only.                                                *)
THEOREM SceneIsDrawn ==
    ASSUME ~TitlesAlone, ~CursorsEnd, ~SunMoves
    PROVE  Spec => []Drawn
<1>1. Init => DrawingInv
  BY RenderersStart, CameraStart, TextStart, LightStart DEF DrawingInv
<1>2. DrawingInv /\ [Next]_vars => DrawingInv'
  <2> SUFFICES ASSUME DrawingInv, [Next]_vars PROVE DrawingInv'
    OBVIOUS
  <2>1. RenderersInv /\ CameraInv /\ TextInv /\ LightInv
    BY DEF DrawingInv
  <2>2. RenderersInv'
    BY <2>1, RenderersStep
  <2>3. CameraInv'
    BY <2>1, CameraStep
  <2>4. TextInv'
    BY <2>1, TextStep
  <2>5. LightInv'
    BY <2>1, LightStep
  <2> QED BY <2>2, <2>3, <2>4, <2>5 DEF DrawingInv
<1>3. DrawingInv => Drawn
  <2> SUFFICES ASSUME DrawingInv, pc = "draw"
               PROVE  /\ BuffersMatch /\ DebugMatches /\ TextMatches(size)
                      /\ LightsMatch(shown_lights) /\ ViewMatches(shown_view)
    BY DEF Drawn
  <2>1. BuffersMatch /\ DebugMatches
    BY DEF DrawingInv, RenderersInv, Ready
  <2>2. TextMatches(size)
    BY DEF DrawingInv, TextInv, Ready
  <2>3. LightsMatch(shown_lights)
    BY LightsDrawn DEF DrawingInv
  <2>4. ViewMatches(shown_view)
    BY DEF DrawingInv, CameraInv, Placed, Ready, ViewMatches
  <2> QED BY <2>1, <2>2, <2>3, <2>4
<1> QED BY <1>1, <1>2, <1>3, PTL DEF Spec

-----------------------------------------------------------------------------
(* Selections: pointers are to the renderers of the entities that were     *)
(* chosen, as long as none of these is the last of its array when another  *)
(* is removed.                                                             *)

Selected ==
    /\ \A p, q \in Live : At(p).ent = At(q).ent => p = q
    /\ \A p \in selections : p \in Live /\ p.type = "sprite"
    /\ chosen = EntitiesOf(selections)

NoSelection == [drawn |-> {}, unwritten |-> 0]

SelectionsInv ==
    /\ Selected
    /\ \/ "SELECTION" \in rflags
       \/ selections = {} /\ selection_buffer = NoSelection
    /\ pc \in Ready => SelectionsMatch

(* The same entities are in the same places. *)
SameEntities ==
    \A t \in Types :
        /\ DOMAIN renderers'[t] = DOMAIN renderers[t]
        /\ \A i \in DOMAIN renderers[t] :
            renderers'[t][i].ent = renderers[t][i].ent

LEMMA SameLive ==
    ASSUME SameEntities
    PROVE  Live' = Live /\ \A p \in Live : At(p)'.ent = At(p).ent
BY DEF SameEntities, Live, Pointers, At

LEMMA SelectedKept ==
    ASSUME Selected, SameEntities, UNCHANGED <<selections, chosen>>
    PROVE  Selected'
<1>1. Live' = Live /\ \A p \in Live : At(p)'.ent = At(p).ent
  BY SameLive
<1>2. \A p, q \in Live' : At(p)'.ent = At(q)'.ent => p = q
  BY <1>1 DEF Selected
<1>3. \A p \in selections' : p \in Live' /\ p.type = "sprite"
  BY <1>1 DEF Selected
<1>4. chosen' = EntitiesOf(selections)'
  <2>1. \A p \in selections : At(p)'.ent = At(p).ent
    BY <1>1 DEF Selected
  <2>2. EntitiesOf(selections)' = EntitiesOf(selections)
    BY <2>1 DEF EntitiesOf
  <2> QED BY <2>2 DEF Selected
<1> QED BY <1>2, <1>3, <1>4 DEF Selected

LEMMA SetLookSame ==
    ASSUME Arrays, NEW p \in Live, NEW x, set_look(p, x)
    PROVE  SameEntities
<1> DEFINE t == p.type
           s == renderers[t]
           q == s[p.i]
           r == [q EXCEPT !.look = x, !.updated = TRUE]
<1>1. t \in Types /\ p.i \in DOMAIN s /\ IsRenderer(q) /\ TRUE \in BOOLEAN
  BY ArraysAre, LiveIs
<1>2. renderers' = [renderers EXCEPT ![t] = [s EXCEPT ![p.i] = r]]
      /\ renderers = [u \in Types |-> renderers[u]]
  BY DEF set_look, Arrays
<1>3. r.ent = q.ent
  <2> HIDE DEF q
  <2> QED BY <1>1, RendererLooks, Zenon
<1>4. q = s[p.i] /\ s = renderers[t]
  OBVIOUS
<1> HIDE DEF r, q, s, t
<1> QED BY <1>1, <1>2, <1>3, <1>4 DEF SameEntities

LEMMA AnimateSame ==
    ASSUME Arrays, animate
    PROVE  SameEntities
<1> DEFINE s == renderers["sprite"]
           Shown(i) == [s[i] EXCEPT !.updated = TRUE,
                !.look.uv = <<anims'[s[i].ent].track, anims'[s[i].ent].frame>>]
           a == [i \in DOMAIN s |->
                IF s[i].ent \notin Animated \/ s[i].ent \notin Given THEN s[i]
                ELSE Shown(i)]
<1>1. renderers' = [renderers EXCEPT !["sprite"] = a]
  BY Zenon DEF animate
<1>2. ASSUME "sprite" \in Types, NEW i \in DOMAIN s
      PROVE  Shown(i).ent = s[i].ent
  <2> DEFINE q == s[i]
             x == <<anims'[q.ent].track, anims'[q.ent].frame>>
  <2>1. IsRenderer(q) /\ TRUE \in BOOLEAN
    BY <1>2, ArraysAre
  <2>2. Shown(i) = [q EXCEPT !.updated = TRUE, !.look.uv = x]
    OBVIOUS
  <2> HIDE DEF q, x, Shown
  <2>3. [q EXCEPT !.updated = TRUE, !.look.uv = x].ent = q.ent
    BY <2>1, RendererShows, Zenon
  <2> QED BY <2>2, <2>3 DEF q
<1> HIDE DEF Shown
<1>3. /\ DOMAIN a = DOMAIN s
      /\ "sprite" \in Types => \A i \in DOMAIN s : a[i].ent = s[i].ent
  BY <1>2
<1> HIDE DEF a
<1> QED BY <1>1, <1>3 DEF SameEntities, Arrays

LEMMA UpdateSame ==
    ASSUME Arrays, update_renderers
    PROVE  /\ SameEntities
           /\ \A t \in Types : \A i \in DOMAIN renderers[t] :
                renderers'[t][i].look = renderers[t][i].look
<1> SUFFICES ASSUME NEW t \in Types
             PROVE  /\ DOMAIN renderers'[t] = DOMAIN renderers[t]
                    /\ \A i \in DOMAIN renderers[t] :
                        /\ renderers'[t][i].ent = renderers[t][i].ent
                        /\ renderers'[t][i].look = renderers[t][i].look
  BY DEF SameEntities
<1> DEFINE s == renderers[t]
           a == renderers'[t]
<1>1. a = [i \in DOMAIN s |-> [s[i] EXCEPT !.updated = FALSE]]
  BY DEF update_renderers, Cleared
<1>2. ASSUME NEW i \in DOMAIN s PROVE a[i].ent = s[i].ent /\ a[i].look = s[i].look
  <2> DEFINE q == s[i]
  <2>1. IsRenderer(q) /\ FALSE \in BOOLEAN
    BY ArraysAre
  <2>2. a[i] = [q EXCEPT !.updated = FALSE]
    BY <1>1
  <2> HIDE DEF q, a
  <2>3. /\ [q EXCEPT !.updated = FALSE].ent = q.ent
        /\ [q EXCEPT !.updated = FALSE].look = q.look
    BY <2>1, RendererFlagged, Zenon
  <2> QED BY <2>2, <2>3 DEF q
<1>3. DOMAIN a = DOMAIN s
  <2> HIDE DEF a, s
  <2> QED BY <1>1
<1> QED BY <1>2, <1>3

(* Where renderers are after one was loaded or removed.                    *)
LEMMA LoadLive ==
    ASSUME Arrays, NEW e, NEW t \in Types, NEW x, load(e, t, x),
           NEW new, new = [type |-> t, i |-> Len(renderers[t]) + 1]
    PROVE  /\ \A q \in Live' :
                \/ q \in Live /\ At(q)' = At(q)
                \/ q = new /\ At(q)'.ent = e /\ At(q)'.look = x
           /\ \A q \in Live : q \in Live' /\ At(q)' = At(q)
<1> DEFINE s == renderers[t]
           r == [ent |-> e, look |-> x, updated |-> TRUE]
           a == Append(s, r)
           n == Len(s)
<1>1. /\ IsList(s) /\ n \in Nat /\ DOMAIN s = 1..n
  BY ArraysAre
<1>2. /\ renderers' = [renderers EXCEPT ![t] = a]
      /\ renderers = [u \in Types |-> renderers[u]]
  BY DEF load, Arrays
<1>3. r.ent = e /\ r.look = x /\ new = [type |-> t, i |-> n + 1]
  OBVIOUS
<1> HIDE DEF s, r, n
<1>4. /\ DOMAIN a = 1..(n + 1)
      /\ \A i \in 1..n : a[i] = s[i]
      /\ a[n + 1] = r
  BY <1>1, ListAppend, ListIs DEF n
<1> HIDE DEF a
<1>5. ASSUME NEW q \in Live'
      PROVE  \/ q \in Live /\ At(q)' = At(q)
             \/ q = new /\ At(q)'.ent = e /\ At(q)'.look = x
  <2>1. /\ q \in Pointers /\ q.i \in DOMAIN renderers'[q.type]
        /\ q.type \in Types /\ q = [type |-> q.type, i |-> q.i]
    BY DEF Live, Pointers
  <2>2. CASE q.type # t
    BY <1>2, <2>1, <2>2 DEF Live, At
  <2>3. CASE q.type = t
    <3>1. q.i \in 1..n \/ q.i = n + 1
      BY <1>1, <1>2, <1>4, <2>1, <2>3
    <3>2. renderers'[q.type] = a
      BY <1>2, <2>3
    <3> QED BY <1>1, <1>3, <1>4, <2>1, <2>3, <3>1, <3>2 DEF Live, At, s
  <2> QED BY <2>2, <2>3
<1>6. ASSUME NEW q \in Live PROVE q \in Live' /\ At(q)' = At(q)
  <2>1. /\ q \in Pointers /\ q.i \in DOMAIN renderers[q.type] /\ q.type \in Types
    BY DEF Live, Pointers
  <2>2. CASE q.type # t
    BY <1>2, <2>1, <2>2 DEF Live, At
  <2>3. CASE q.type = t
    <3>1. q.i \in 1..n /\ q.i \in 1..(n + 1) /\ renderers'[q.type] = a
      BY <1>1, <1>2, <2>1, <2>3 DEF s
    <3> QED BY <1>4, <2>1, <2>3, <3>1 DEF Live, At, s
  <2> QED BY <2>2, <2>3
<1> QED BY <1>5, <1>6

LEMMA RemoveLive ==
    ASSUME Arrays, NEW p \in Live, remove(p),
           NEW last, last = [p EXCEPT !.i = Len(renderers[p.type])]
    PROVE  /\ last \in Live /\ last.type = p.type
           /\ p.i = Len(renderers[p.type]) => p = last
           /\ \A q \in Live' :
                /\ q \in Live /\ q # last
                /\ At(q)'.ent = IF q = p THEN At(last).ent ELSE At(q).ent
                /\ At(q)'.look = IF q = p THEN At(last).look ELSE At(q).look
           /\ \A q \in Live : q # last => q \in Live'
           /\ \A q \in Live : q # p /\ q # last => At(q)' = At(q)
<1> DEFINE t == p.type
           s == renderers[t]
           n == Len(s)
           a == renderers'[t]
<1>1. /\ t \in Types /\ n \in Nat /\ DOMAIN s = 1..n /\ p.i \in 1..n
      /\ p = [type |-> t, i |-> p.i] /\ At(p) = s[p.i]
      /\ \A i \in 1..n : IsRenderer(s[i])
  BY ArraysAre, LiveIs
<1>3. last = [type |-> t, i |-> n]
  <2>1. last = [p EXCEPT !.i = n]
    OBVIOUS
  <2> HIDE DEF n, t
  <2> QED BY <1>1, <2>1
<1>4. last \in Live /\ At(last) = s[n] /\ last.type = t /\ last.i = n
  <2>1. n \in 1..n
    BY <1>1
  <2>2. last \in Live
    BY <1>1, <1>3, <2>1, ArraysAre
  <2> QED BY <1>3, <2>2 DEF At
<1>5. /\ DOMAIN a = 1..n - 1
      /\ \A j \in 1..n - 1 :
            a[j] = IF j = p.i THEN [s[n] EXCEPT !.updated = TRUE] ELSE s[j]
      /\ \A u \in Types \ {t} : renderers'[u] = renderers[u]
  <2>1. /\ Moves(s, p.i, a)
        /\ \A u \in Types \ {t} : renderers'[u] = renderers[u]
    BY RemoveArray
  <2> HIDE DEF s, a, n, t
  <2> QED BY <2>1, ListIs DEF Moves, n
<1>6. /\ [s[n] EXCEPT !.updated = TRUE].ent = s[n].ent
      /\ [s[n] EXCEPT !.updated = TRUE].look = s[n].look
  <2> DEFINE q == s[n]
  <2>1. IsRenderer(q) /\ TRUE \in BOOLEAN
    BY <1>1
  <2> HIDE DEF q
  <2>2. /\ [q EXCEPT !.updated = TRUE].ent = q.ent
        /\ [q EXCEPT !.updated = TRUE].look = q.look
    BY <2>1, RendererFlagged, Zenon
  <2> QED BY <2>2 DEF q
<1>7. /\ \A j \in 1..n - 1 : a[j].ent = IF j = p.i THEN s[n].ent ELSE s[j].ent
      /\ \A j \in 1..n - 1 : a[j].look = IF j = p.i THEN s[n].look ELSE s[j].look
  BY <1>5, <1>6
<1>8. \A j : j \in 1..n - 1 <=> j \in 1..n /\ j # n
  <2> HIDE DEF n
  <2> QED BY <1>1
<1>9. ASSUME NEW q \in Live'
      PROVE  /\ q \in Live /\ q # last
             /\ At(q)'.ent = IF q = p THEN At(last).ent ELSE At(q).ent
             /\ At(q)'.look = IF q = p THEN At(last).look ELSE At(q).look
  <2>1. /\ q \in Pointers /\ q.i \in DOMAIN renderers'[q.type]
        /\ q.type \in Types /\ q = [type |-> q.type, i |-> q.i]
    BY DEF Live, Pointers
  <2>2. CASE q.type # t
    <3>1. renderers'[q.type] = renderers[q.type] /\ q # p /\ q # last
      BY <1>4, <1>5, <2>1, <2>2
    <3> QED BY <2>1, <3>1 DEF Live, At
  <2>3. CASE q.type = t
    <3>1. q.i \in 1..n - 1
      BY <1>5, <2>1, <2>3
    <3>2. q.i \in 1..n /\ q.i # n
      BY <1>8, <3>1
    <3>3. q \in Live /\ q # last
      BY <1>1, <1>4, <2>1, <2>3, <3>2 DEF Live
    <3>4. q = p <=> q.i = p.i
      BY <1>1, <2>1, <2>3
    <3>5. At(q)' = a[q.i] /\ At(q) = s[q.i]
      BY <2>3 DEF At
    <3>6. /\ a[q.i].ent = IF q.i = p.i THEN s[n].ent ELSE s[q.i].ent
          /\ a[q.i].look = IF q.i = p.i THEN s[n].look ELSE s[q.i].look
      BY <1>7, <3>1
    <3> HIDE DEF n, a, s, t
    <3> QED BY <1>4, <3>3, <3>4, <3>5, <3>6
  <2> QED BY <2>2, <2>3
<1>10. ASSUME NEW q \in Live, q # last
       PROVE  q \in Live' /\ (q # p => At(q)' = At(q))
  <2>1. /\ q \in Pointers /\ q.i \in DOMAIN renderers[q.type]
        /\ q.type \in Types /\ q = [type |-> q.type, i |-> q.i]
    BY DEF Live, Pointers
  <2>2. CASE q.type # t
    BY <1>5, <2>1, <2>2 DEF Live, At
  <2>3. CASE q.type = t
    <3>1. q.i \in 1..n /\ q.i # n /\ (q # p => q.i # p.i)
      BY <1>1, <1>3, <1>10, <2>1, <2>3
    <3>2. q.i \in 1..n - 1
      BY <1>8, <3>1
    <3>3. (q # p => a[q.i] = s[q.i]) /\ q.i \in DOMAIN a
      BY <1>5, <3>1, <3>2
    <3> QED BY <2>1, <2>3, <3>3 DEF Live, At
  <2> QED BY <2>2, <2>3
<1>11. p.i = n => p = last
  BY <1>1, <1>3
<1> QED BY <1>4, <1>9, <1>10, <1>11

LEMMA LoadSelected ==
    ASSUME Arrays, Selected, NEW e, NEW t \in Types, NEW x, load(e, t, x)
    PROVE  Selected'
<1>1. PICK new : new = [type |-> t, i |-> Len(renderers[t]) + 1]
  OBVIOUS
<1>2. e \notin EntitiesOf(Live) /\ UNCHANGED <<selections, chosen>>
  BY DEF load
<1>5. \A q \in Live' :
        \/ q \in Live /\ At(q)' = At(q)
        \/ q = new /\ At(q)'.ent = e
  BY <1>1, LoadLive
<1>6. \A q \in Live : q \in Live' /\ At(q)' = At(q)
  BY <1>1, LoadLive
<1>7. \A q \in Live : At(q).ent # e
  BY <1>2 DEF EntitiesOf
<1> HIDE DEF Live, At
<1>8. \A p, q \in Live' : At(p)'.ent = At(q)'.ent => p = q
  BY <1>5, <1>6, <1>7 DEF Selected
<1>9. chosen' = EntitiesOf(selections)'
  <2>1. \A q \in selections : At(q)' = At(q)
    BY <1>6 DEF Selected
  <2> QED BY <1>2, <2>1 DEF Selected, EntitiesOf
<1> QED BY <1>2, <1>6, <1>8, <1>9 DEF Selected

LEMMA RemoveSelected ==
    ASSUME Arrays, Selected, NEW p \in Live, remove(p), ~SelectionsMove
    PROVE  Selected'
<1>1. PICK last : last = [p EXCEPT !.i = Len(renderers[p.type])]
  OBVIOUS
<1>2. /\ selections' = selections \ {p} /\ chosen' = chosen \ {At(p).ent}
      /\ p.i = Len(renderers[p.type]) \/ last \notin selections
  BY <1>1 DEF remove
<1>3. /\ last \in Live /\ (p.i = Len(renderers[p.type]) => p = last)
      /\ \A q \in Live' :
            /\ q \in Live /\ q # last
            /\ At(q)'.ent = IF q = p THEN At(last).ent ELSE At(q).ent
      /\ \A q \in Live : q # p /\ q # last => q \in Live' /\ At(q)' = At(q)
  BY <1>1, RemoveLive
<1>11. \A q, r \in Live' : At(q)'.ent = At(r)'.ent => q = r
  <2> SUFFICES ASSUME NEW q \in Live', NEW r \in Live', At(q)'.ent = At(r)'.ent
               PROVE  q = r
    OBVIOUS
  <2>1. /\ q \in Live /\ q # last
        /\ At(q)'.ent = IF q = p THEN At(last).ent ELSE At(q).ent
        /\ r \in Live /\ r # last
        /\ At(r)'.ent = IF r = p THEN At(last).ent ELSE At(r).ent
    BY <1>3
  <2> HIDE DEF At, Live
  <2> QED BY <1>3, <2>1 DEF Selected
<1>12. \A q \in selections \ {p} : q # last /\ q \in Live' /\ At(q)' = At(q)
  <2> SUFFICES ASSUME NEW q \in selections \ {p} PROVE q # last
    BY <1>3 DEF Selected
  <2> QED BY <1>2, <1>3
<1>13. chosen' = EntitiesOf(selections)'
  <2>1. EntitiesOf(selections)' = {At(q).ent : q \in selections \ {p}}
    BY <1>2, <1>12 DEF EntitiesOf
  <2>2. chosen = {At(q).ent : q \in selections}
    BY DEF Selected, EntitiesOf
  <2>3. \A q \in selections : At(q).ent = At(p).ent => q = p
    BY DEF Selected
  <2> HIDE DEF At
  <2> QED BY <1>2, <2>1, <2>2, <2>3
<1>14. \A q \in selections' : q \in Live' /\ q.type = "sprite"
  BY <1>2, <1>12 DEF Selected
<1> QED BY <1>11, <1>13, <1>14 DEF Selected

LEMMA SelectSelected ==
    ASSUME Selected, NEW p \in Live, add_selection(p) \/ remove_selection(p)
    PROVE  Selected'
<1>1. UNCHANGED renderers /\ p.type = "sprite"
  BY DEF add_selection, remove_selection
<1>2. Live' = Live /\ \A q \in Live : At(q)' = At(q)
  BY <1>1 DEF Live, At
<1>3. chosen' = EntitiesOf(selections)'
  <2>1. \A q \in selections \cup {p} : At(q)' = At(q)
    BY <1>2 DEF Selected
  <2>2. CASE add_selection(p)
    <3>1. selections' = selections \cup {p} /\ chosen' = chosen \cup {At(p).ent}
      BY <2>2 DEF add_selection
    <3> QED BY <2>1, <3>1 DEF Selected, EntitiesOf
  <2>3. CASE remove_selection(p)
    <3>1. selections' = selections \ {p} /\ chosen' = chosen \ {At(p).ent}
      BY <2>3 DEF remove_selection
    <3>2. \A q \in selections : At(q).ent = At(p).ent => q = p
      BY DEF Selected
    <3>3. EntitiesOf(selections)' = {At(q).ent : q \in selections \ {p}}
      BY <2>1, <3>1 DEF EntitiesOf
    <3>4. chosen = {At(q).ent : q \in selections}
      BY DEF Selected, EntitiesOf
    <3> HIDE DEF At
    <3> QED BY <3>1, <3>2, <3>3, <3>4
  <2> QED BY <2>2, <2>3
<1>4. \A q \in selections' : q \in Live' /\ q.type = "sprite"
  BY <1>1, <1>2 DEF Selected, add_selection, remove_selection
<1> HIDE DEF At
<1> QED BY <1>2, <1>3, <1>4 DEF Selected

(* What is written is what is selected, where it is now. *)
LEMMA UpdateSelections ==
    ASSUME Arrays, SelectionsInv, update_renderers
    PROVE  /\ Selected' /\ SelectionsMatch'
           /\ \/ "SELECTION" \in rflags'
              \/ selections' = {} /\ selection_buffer' = NoSelection
<1>1. /\ UNCHANGED <<selections, chosen>>
      /\ selection_buffer' = WrittenSelection
      /\ rflags' = rflags \ (ArrayFlags \cup {"DEBUG"})
  BY DEF update_renderers
<1>2. Selected' /\ Selected
  BY <1>1, UpdateSame, SelectedKept DEF SelectionsInv
<1>3. \/ "SELECTION" \in rflags
      \/ selections = {} /\ selection_buffer = NoSelection
  BY DEF SelectionsInv
<1>4. "SELECTION" \in rflags => "SELECTION" \in rflags'
  BY <1>1, TypesAreNoFlags DEF ArrayFlags
<1> DEFINE Shown(ps) == {[ent |-> At(p).ent, look |-> At(p).look] : p \in ps}
<1>5. Sprites(selections) = selections
  BY <1>2 DEF Selected, Sprites
<1>6. /\ selection_buffer' =
            IF "SELECTION" \notin rflags THEN selection_buffer
            ELSE [drawn |-> Shown(selections), unwritten |-> 0]
  <2>1. selections \ Sprites(selections) = {}
    BY <1>5
  <2>2. Cardinality(selections \ Sprites(selections)) = 0
    BY <2>1, FS_EmptySet
  <2> HIDE DEF At, Sprites
  <2> QED BY <1>1, <1>5, <2>2 DEF WrittenSelection
<1>7. selection_buffer' = [drawn |-> Shown(selections), unwritten |-> 0]
  <2>1. selections = {} => Shown(selections) = {}
    OBVIOUS
  <2> HIDE DEF Shown
  <2> QED BY <1>3, <1>6, <2>1 DEF NoSelection
<1>8. {q \in Live' : At(q)'.ent \in chosen'} = selections
  <2>1. /\ Live' = Live /\ \A p \in Live : At(p)'.ent = At(p).ent
    BY UpdateSame, SameLive
  <2>2. chosen' = {At(p).ent : p \in selections} /\ selections \subseteq Live
    BY <1>1, <1>2 DEF Selected, EntitiesOf
  <2>3. \A p, q \in Live : At(p).ent = At(q).ent => p = q
    BY <1>2 DEF Selected
  <2> DEFINE f(q) == At(q).ent
             g(q) == At(q)'.ent
  <2>4. /\ \A p \in Live : g(p) = f(p)
        /\ chosen' = {f(p) : p \in selections}
        /\ \A p, q \in Live : f(p) = f(q) => p = q
    BY <2>1, <2>2, <2>3
  <2> HIDE DEF f, g
  <2>5. {q \in Live : g(q) \in chosen'} = selections
    BY <2>2, <2>4
  <2> QED BY <2>1, <2>5 DEF g
<1>9. \A p \in selections : At(p)'.ent = At(p).ent /\ At(p)'.look = At(p).look
  <2>1. \A p \in selections : p \in Live
    BY <1>2 DEF Selected
  <2> QED BY <2>1, UpdateSame DEF SameEntities, Live, Pointers, At
<1>10. SelectionsMatch'
  <2>1. Shown(selections) =
            {[ent |-> At(p)'.ent, look |-> At(p)'.look] : p \in selections}
    BY <1>9
  <2>2. selection_buffer'.drawn = Shown(selections)
        /\ selection_buffer'.unwritten = 0
    <3> HIDE DEF Shown
    <3> QED BY <1>7
  <2>3. selection_buffer'.drawn =
            {[ent |-> At(p)'.ent, look |-> At(p)'.look] :
                p \in {q \in Live' : At(q)'.ent \in chosen'}}
    <3> DEFINE S == {q \in Live' : At(q)'.ent \in chosen'}
    <3>1. S = selections
      BY <1>8
    <3> HIDE DEF S
    <3>2. {[ent |-> At(p)'.ent, look |-> At(p)'.look] : p \in S} = Shown(selections)
      BY <2>1, <3>1
    <3> QED BY <2>2, <3>2 DEF S
  <2> QED BY <2>2, <2>3 DEF SelectionsMatch
<1> QED BY <1>1, <1>2, <1>3, <1>4, <1>6, <1>10

LEMMA SelectionsStep ==
    ASSUME SelectionsInv, RenderersInv, [Next]_vars, ~SelectionsMove
    PROVE  SelectionsInv'
<1> USE DEF Ready
<1> DEFINE Kept == UNCHANGED <<selections, selection_buffer>>
           Flagged == "SELECTION" \in rflags => "SELECTION" \in rflags'
<1>0. Arrays /\ Selected
  BY DEF RenderersInv, SelectionsInv
<1>1. CASE UNCHANGED rvars /\ (pc' \in Ready => pc \in Ready)
  <2>1. UNCHANGED <<renderers, rflags, selections, chosen, selection_buffer>>
    BY <1>1 DEF rvars
  <2>2. Selected'
    BY <1>0, <2>1, SelectedKept DEF SameEntities
  <2>3. SelectionsMatch => SelectionsMatch'
    BY <2>1 DEF SelectionsMatch, Live, At
  <2> HIDE DEF SelectionsMatch
  <2> QED BY <1>1, <2>1, <2>2, <2>3 DEF SelectionsInv
<1>2. CASE Selected' /\ Kept /\ Flagged /\ pc' \notin Ready
  BY <1>2 DEF SelectionsInv
<1>3. CASE Next
  <2>1. CASE change_renderers /\ pc' \notin Ready
    <3>1. CASE \E e \in Entities, t \in Types, x \in Looks :
                    x.uv = NotYet /\ load(e, t, x)
      <4>1. PICK e \in Entities, t \in Types, x \in Looks : load(e, t, x)
        BY <3>1
      <4>2. Kept /\ Flagged
        BY <4>1 DEF load
      <4> QED BY <1>0, <1>2, <2>1, <4>1, <4>2, LoadSelected
    <3>2. CASE \E p \in Live, x \in Looks :
                    x.uv = At(p).look.uv /\ set_look(p, x)
      <4>1. PICK p \in Live, x \in Looks : set_look(p, x)
        BY <3>2
      <4>2. Kept /\ Flagged /\ chosen' = chosen
        BY <4>1 DEF set_look
      <4> QED BY <1>0, <1>2, <2>1, <4>1, <4>2, SetLookSame, SelectedKept
    <3>3. CASE \E p \in Live : remove(p)
      <4>1. PICK p \in Live : remove(p)
        BY <3>3
      <4>2. Selected'
        BY <1>0, <4>1, RemoveSelected
      <4>3. /\ selections' = selections \ {p}
            /\ selection_buffer' = selection_buffer /\ Flagged
        BY <4>1 DEF remove
      <4> QED BY <2>1, <4>2, <4>3 DEF SelectionsInv
    <3> QED BY <2>1, <3>1, <3>2, <3>3 DEF change_renderers
  <2>2. CASE change_drawing /\ pc' \notin Ready
    <3>1. CASE \E p \in Live : add_selection(p) \/ remove_selection(p)
      <4>1. PICK p \in Live : add_selection(p) \/ remove_selection(p)
        BY <3>1
      <4>2. "SELECTION" \in rflags'
        BY <4>1 DEF add_selection, remove_selection
      <4>3. Selected'
        BY <1>0, <4>1, SelectSelected
      <4> QED BY <2>2, <4>2, <4>3 DEF SelectionsInv
    <3>2. CASE \E b \in BOOLEAN :
                    set_debug(b) \/ set_perspective(b) \/ set_zsprites(b)
      <4>1. Kept /\ Flagged /\ UNCHANGED <<renderers, chosen>>
        BY <3>2 DEF set_debug, set_perspective, set_zsprites, Set
      <4>2. Selected'
        BY <1>0, <4>1, SelectedKept DEF SameEntities
      <4> QED BY <1>2, <2>2, <4>1, <4>2
    <3> QED BY <2>2, <3>1, <3>2 DEF change_drawing
  <2>3. CASE Others /\ pc' \notin Ready
    BY <1>1, <2>3 DEF Others
  <2>4. CASE replace_graphics /\ pc' \notin Ready
    <3>1. /\ Live = {} /\ UNCHANGED <<renderers, rflags, selections, chosen>>
          /\ selection_buffer' = NoSelection
      BY <2>4 DEF replace_graphics, set_graphics, NoSelection
    <3>2. Selected'
      BY <1>0, <3>1, SelectedKept DEF SameEntities
    <3>3. selections = {}
      BY <1>0, <3>1 DEF Selected
    <3> QED BY <2>4, <3>1, <3>2, <3>3 DEF SelectionsInv
  <2>5. CASE animate /\ pc' \notin Ready
    <3>1. Kept /\ Flagged /\ chosen' = chosen
      BY <2>5, AnimateOnly
    <3> QED BY <1>0, <1>2, <2>5, <3>1, AnimateSame, SelectedKept
  <2>6. CASE write_buffers
    BY <1>0, <2>6, UpdateSelections DEF write_buffers, SelectionsInv
  <2>7. \/ collide \/ move_camera \/ write_text \/ light \/ draw \/ vsync
        => UNCHANGED rvars
    BY DEF collide, move_camera, write_text, light, draw, vsync
  <2> QED BY <1>1, <1>3, <2>1, <2>2, <2>3, <2>4, <2>5, <2>6, <2>7, LoopSteps
<1>4. CASE UNCHANGED vars
  BY <1>1, <1>4 DEF vars
<1> QED BY <1>3, <1>4

LEMMA SelectionsStart ==
    ASSUME Init PROVE SelectionsInv
<1>1. /\ renderers = [t \in Types |-> <<>>] /\ selections = {} /\ chosen = {}
      /\ selection_buffer = NoSelection /\ pc = "scripts"
  BY DEF Init, RenderersInit, NoSelection
<1>2. Live = {}
  BY <1>1, EmptyList DEF Live, Pointers
<1> QED BY <1>1, <1>2 DEF SelectionsInv, Selected, EntitiesOf, Ready

-----------------------------------------------------------------------------
(* Durations of frames.                                                    *)

LEMMA SetInduction ==
    ASSUME NEW S, 0 \in S, \A n \in Nat : n \in S => n + 1 \in S
    PROVE  \A n \in Nat : n \in S
<1> DEFINE R == {p \in Nat \X Nat : p[1] < p[2]}
           T == Nat \ S
<1>1. IsWellFoundedOn(R, Nat)
  BY NatLessThanWellFounded, Zenon DEF OpToRel
<1>2. ASSUME T # {} PROVE FALSE
  <2>1. PICK x \in T : \A y \in T : <<y, x>> \notin R
    <3> HIDE DEF R
    <3> QED BY <1>1, <1>2, WFMin, T \subseteq Nat, Zenon
  <2>2. x # 0 /\ x \in Nat
    OBVIOUS
  <2>3. x - 1 \in Nat /\ x - 1 < x /\ (x - 1) + 1 = x
    BY <2>2
  <2>4. x - 1 \in S
    BY <2>1, <2>2, <2>3
  <2> QED BY <2>2, <2>3, <2>4
<1> QED BY <1>2

(* The sums of the first elements of f. *)
Sums(g, f, n) == g = [k \in 0..n |-> IF k = 0 THEN 0 ELSE g[k - 1] + f[k]]

LEMMA SumsAt ==
    ASSUME NEW g, NEW f, NEW n \in Nat, Sums(g, f, n), NEW k \in 0..n
    PROVE  /\ k = 0 => g[k] = 0
           /\ k # 0 => g[k] = g[k - 1] + f[k]
<1> DEFINE e(j) == IF j = 0 THEN 0 ELSE g[j - 1] + f[j]
<1>1. g = [j \in 0..n |-> e(j)]
  BY Zenon DEF Sums
<1>2. g[k] = e(k)
  <2> HIDE DEF e
  <2> QED BY <1>1, Zenon
<1> QED BY <1>2, Zenon

LEMMA SumsExists ==
    ASSUME NEW f, NEW m \in Nat
    PROVE  \E g : Sums(g, f, m)
<1> DEFINE T == {n \in Nat : \E g : Sums(g, f, n)}
<1>1. 0 \in T
  <2>1. Sums([k \in 0..0 |-> 0], f, 0)
    BY DEF Sums
  <2> QED BY <2>1
<1>2. ASSUME NEW n \in Nat, n \in T PROVE n + 1 \in T
  <2>1. PICK g : Sums(g, f, n)
    BY <1>2
  <2> DEFINE last == g[n] + f[n + 1]
             h == [k \in 0..(n + 1) |-> IF k <= n THEN g[k] ELSE last]
  <2>2. ASSUME NEW k \in 0..(n + 1)
        PROVE  h[k] = IF k = 0 THEN 0 ELSE h[k - 1] + f[k]
    <3>1. CASE k <= n
      <4>1. h[k] = g[k] /\ (k # 0 => h[k - 1] = g[k - 1])
        BY <3>1
      <4>2. k \in 0..n
        BY <3>1
      <4>3. /\ k = 0 => g[k] = 0
            /\ k # 0 => g[k] = g[k - 1] + f[k]
        BY <2>1, <4>2, SumsAt, Zenon
      <4> HIDE DEF h
      <4> QED BY <4>1, <4>3, Zenon
    <3>2. CASE k = n + 1
      <4>1. h[k] = last /\ h[k - 1] = g[n] /\ k # 0
        BY <3>2
      <4> HIDE DEF h
      <4> QED BY <3>2, <4>1
    <3> QED BY <3>1, <3>2
  <2>3. h = [k \in 0..(n + 1) |-> IF k = 0 THEN 0 ELSE h[k - 1] + f[k]]
    <3>1. DOMAIN h = 0..(n + 1) /\ h = [k \in 0..(n + 1) |-> h[k]]
      OBVIOUS
    <3> HIDE DEF h
    <3> QED BY <2>2, <3>1
  <2>4. Sums(h, f, n + 1)
    <3> HIDE DEF h
    <3> QED BY <2>3 DEF Sums
  <2> QED BY <2>4
<1> HIDE DEF T
<1>3. m \in T
  BY <1>1, <1>2, SetInduction
<1> QED BY <1>3 DEF T

(* Numbers, and what each adds to those before it. *)
Prefix(g, f, n) ==
    /\ \A k \in 0..n : g[k] \in Nat
    /\ g[0] = 0
    /\ \A k \in 1..n : f[k] \in Nat /\ g[k] = g[k - 1] + f[k]

LEMMA EndsAre ==
    ASSUME NEW f, NEW n \in Nat, Len(f) = n, \A k \in 1..n : f[k] \in Nat
    PROVE  Prefix(Ends(f), f, n)
<1> DEFINE P(g) == g = [k \in 0..Len(f) |-> IF k = 0 THEN 0 ELSE g[k - 1] + f[k]]
           G == CHOOSE g : P(g)
<1>1. \E g : P(g)
  <2>1. \E g : Sums(g, f, Len(f))
    BY SumsExists, Zenon
  <2> QED BY <2>1, Zenon DEF Sums
<1>2. P(G)
  <2> HIDE DEF P
  <2> QED BY <1>1, Zenon
<1>3. Ends(f) = G
  BY Zenon DEF Ends
<1>4. Sums(Ends(f), f, n)
  <2>1. P(Ends(f))
    <3> HIDE DEF P, G
    <3> QED BY <1>2, <1>3, Zenon
  <2> QED BY <2>1, Zenon DEF Sums
<1> DEFINE g == Ends(f)
<1> HIDE DEF g, G, P
<1>5. /\ g[0] = 0
      /\ \A k \in 1..n : g[k] = g[k - 1] + f[k]
  <2>1. Sums(g, f, n)
    BY <1>4 DEF g
  <2>2. 0 \in 0..n
    OBVIOUS
  <2>3. \A k \in 1..n : k \in 0..n /\ k # 0
    OBVIOUS
  <2>4. g[0] = 0
    BY <2>1, <2>2, SumsAt
  <2>5. ASSUME NEW k \in 1..n PROVE g[k] = g[k - 1] + f[k]
    <3>1. k \in 0..n /\ k # 0
      BY <2>3, Zenon
    <3> QED BY <2>1, <3>1, SumsAt
  <2> QED BY <2>4, <2>5, Zenon
<1> DEFINE S == {k \in Nat : k <= n => g[k] \in Nat}
<1>6. 0 \in S
  <2>1. 0 \in Nat
    OBVIOUS
  <2>2. g[0] \in Nat
    BY <1>5, <2>1, Zenon
  <2> QED BY <2>1, <2>2, Zenon DEF S
<1>7. ASSUME NEW k \in Nat, k \in S PROVE k + 1 \in S
  <2>1. k + 1 \in Nat
    OBVIOUS
  <2>2. ASSUME k + 1 <= n PROVE g[k + 1] \in Nat
    <3>1. k + 1 \in 1..n /\ (k + 1) - 1 = k /\ k <= n
      BY <2>2
    <3>2. g[k] \in Nat
      BY <1>7, <3>1, Zenon DEF S
    <3>3. f[k + 1] \in Nat
      BY <3>1, Zenon
    <3>4. g[k + 1] = g[k] + f[k + 1]
      <4>1. g[k + 1] = g[(k + 1) - 1] + f[k + 1]
        BY <1>5, <3>1, Zenon
      <4> QED BY <3>1, <4>1, Zenon
    <3> QED BY <3>2, <3>3, <3>4
  <2> QED BY <2>1, <2>2, Zenon DEF S
<1> HIDE DEF S
<1>8. \A k \in Nat : k \in S
  BY <1>6, <1>7, SetInduction
<1>9. \A k \in 0..n : g[k] \in Nat
  <2>1. \A k \in 0..n : k \in Nat /\ k <= n
    OBVIOUS
  <2> QED BY <1>8, <2>1 DEF S
<1> QED BY <1>5, <1>9 DEF Prefix, g

LEMMA PrefixGrows ==
    ASSUME NEW g, NEW f, NEW n \in Nat, Prefix(g, f, n), NEW j \in 0..n
    PROVE  \A k \in j..n : g[j] <= g[k]
<1> DEFINE S == {d \in Nat : j + d <= n => g[j] <= g[j + d]}
<1>1. 0 \in S
  BY DEF Prefix
<1>2. ASSUME NEW d \in Nat, d \in S PROVE d + 1 \in S
  <2> SUFFICES ASSUME j + (d + 1) <= n PROVE g[j] <= g[j + (d + 1)]
    OBVIOUS
  <2> DEFINE i == j + (d + 1)
  <2>1. i \in 1..n /\ i - 1 = j + d /\ j + d \in 0..n /\ g[j] <= g[j + d]
    BY <1>2
  <2> HIDE DEF i
  <2>2. g[i] = g[j + d] + f[i] /\ f[i] \in Nat /\ g[j + d] \in Nat /\ g[j] \in Nat
    BY <2>1 DEF Prefix
  <2>3. g[j] <= g[i]
    BY <2>1, <2>2
  <2> QED BY <2>3 DEF i
<1> HIDE DEF S
<1>3. \A d \in Nat : d \in S
  BY <1>1, <1>2, SetInduction
<1>4. ASSUME NEW k \in j..n PROVE g[j] <= g[k]
  <2>1. k - j \in Nat /\ j + (k - j) = k /\ k <= n
    OBVIOUS
  <2>2. k - j \in S
    BY <1>3, <2>1
  <2> QED BY <2>1, <2>2 DEF S
<1> QED BY <1>4

(* Elements whose sums exceed a number: the first one. *)
LEMMA ReachedIs ==
    ASSUME NEW f, NEW n \in Nat, DOMAIN f = 1..n, Prefix(Ends(f), f, n),
           NEW x \in Nat, NEW k \in 1..n, Ends(f)[k - 1] <= x, x < Ends(f)[k]
    PROVE  Reached(f, x) = k
<1> DEFINE g == Ends(f)
           P(i) == g[i] > x /\ \A j \in 1..i - 1 : g[j] <= x
<1>0. Prefix(g, f, n) /\ g[k - 1] <= x /\ x < g[k]
  OBVIOUS
<1>1. Reached(f, x) = CHOOSE i \in 1..n : P(i)
  BY DEF Reached
<1> HIDE DEF g
<1>2. P(k)
  <2>1. g[k] > x
    BY <1>0 DEF Prefix
  <2>2. ASSUME NEW j \in 1..k - 1 PROVE g[j] <= x
    <3>1. j \in 0..n /\ k - 1 \in j..n /\ k - 1 \in 0..n
      OBVIOUS
    <3>2. g[j] <= g[k - 1]
      BY <1>0, <3>1, PrefixGrows
    <3> QED BY <1>0, <3>1, <3>2 DEF Prefix
  <2> QED BY <2>1, <2>2
<1>3. ASSUME NEW i \in 1..n, P(i) PROVE i = k
  <2>1. g[i] \in Nat /\ g[k] \in Nat
    BY <1>0 DEF Prefix
  <2>2. ~(i < k)
    <3>1. i < k => i \in 1..k - 1
      OBVIOUS
    <3> QED BY <1>2, <1>3, <2>1, <3>1
  <2>3. ~(k < i)
    <3>1. k < i => k \in 1..i - 1
      OBVIOUS
    <3> QED BY <1>2, <1>3, <2>1, <3>1
  <2> QED BY <2>2, <2>3
<1> HIDE DEF P
<1> QED BY <1>1, <1>2, <1>3

LEMMA ReachedExists ==
    ASSUME NEW g, NEW f, NEW n \in Nat, Prefix(g, f, n), NEW x \in Nat, x < g[n]
    PROVE  \E k \in 1..n : g[k - 1] <= x /\ x < g[k]
<1> DEFINE S == {j \in Nat : j <= n /\ x < g[j] =>
                    \E k \in 1..n : g[k - 1] <= x /\ x < g[k]}
<1>1. 0 \in S
  BY DEF Prefix
<1>2. ASSUME NEW j \in Nat, j \in S PROVE j + 1 \in S
  <2> SUFFICES ASSUME j + 1 <= n, x < g[j + 1], ~(x < g[j])
               PROVE  \E k \in 1..n : g[k - 1] <= x /\ x < g[k]
    BY <1>2
  <2>1. j \in 0..n /\ j + 1 \in 1..n /\ (j + 1) - 1 = j
    OBVIOUS
  <2>2. g[j] \in Nat
    BY <2>1 DEF Prefix
  <2>3. g[(j + 1) - 1] <= x /\ x < g[j + 1]
    BY <2>1, <2>2
  <2> QED BY <2>1, <2>3
<1> HIDE DEF S
<1>3. n \in S
  BY <1>1, <1>2, SetInduction
<1> QED BY <1>3 DEF S

(* Division. *)
LEMMA DivisionIs ==
    ASSUME NEW n \in Nat \ {0}, NEW q \in Nat, NEW r \in 0..n - 1
    PROVE  (q * n + r) % n = r /\ (q * n + r) \div n = q
OBVIOUS

LEMMA DivisionOf ==
    ASSUME NEW n \in Nat \ {0}, NEW m \in Nat
    PROVE  m = (m \div n) * n + (m % n) /\ m \div n \in Nat /\ m % n \in 0..n - 1
OBVIOUS

LEMMA DivisionNext ==
    ASSUME NEW n \in Nat \ {0}, NEW m \in Nat
    PROVE  \/ /\ (m % n) + 1 < n
              /\ (m + 1) % n = (m % n) + 1 /\ (m + 1) \div n = m \div n
           \/ /\ (m % n) + 1 = n
              /\ (m + 1) % n = 0 /\ (m + 1) \div n = (m \div n) + 1
<1> DEFINE q == m \div n
           r == m % n
<1>1. m = q * n + r /\ q \in Nat /\ r \in 0..n - 1
  BY DivisionOf
<1> HIDE DEF q, r
<1>2. CASE r + 1 < n
  <2>1. r + 1 \in 0..n - 1 /\ m + 1 = q * n + (r + 1)
    BY <1>1, <1>2
  <2>2. (m + 1) % n = r + 1 /\ (m + 1) \div n = q
    BY <1>1, <2>1, DivisionIs
  <2> QED BY <1>2, <2>2 DEF q, r
<1>3. CASE r + 1 = n
  <2> DEFINE p == q + 1
  <2>1. 0 \in 0..n - 1 /\ m + 1 = p * n + 0 /\ p \in Nat
    BY <1>1, <1>3
  <2> HIDE DEF p
  <2>2. (p * n + 0) % n = 0 /\ (p * n + 0) \div n = p
    BY <2>1, DivisionIs
  <2>3. (m + 1) % n = 0 /\ (m + 1) \div n = p
    BY <2>1, <2>2
  <2> QED BY <1>3, <2>3 DEF p, q, r
<1>4. r + 1 < n \/ r + 1 = n
  BY <1>1
<1> QED BY <1>2, <1>3, <1>4

(* The sums of frames that come one after the other, from frame k: whole   *)
(* tracks, and the first frames of one.                                    *)
Turns(ahead, track, n, k, N) ==
    \A j \in 1..N : ahead[j] = track[((k + j - 2) % n) + 1]

TurnsSum(h, g, n, k, N) ==
    \A j \in 0..N : g[k - 1] + h[j] =
        (((k - 1) + j) \div n) * g[n] + g[((k - 1) + j) % n]

LEMMA PassedSums ==
    ASSUME NEW n \in Nat \ {0}, NEW track, NEW g, Prefix(g, track, n),
           NEW k \in 1..n, NEW N \in Nat, NEW ahead, NEW h,
           Turns(ahead, track, n, k, N), Prefix(h, ahead, N)
    PROVE  TurnsSum(h, g, n, k, N)
<1> DEFINE Q(m) == m \div n
           R(m) == m % n
           T == g[n]
           S == {j \in Nat : j <= N => g[k - 1] + h[j] =
                    Q((k - 1) + j) * T + g[R((k - 1) + j)]}
<1>0. k - 1 \in Nat /\ k - 1 \in 0..n - 1 /\ T \in Nat /\ g[k - 1] \in Nat
  BY DEF Prefix
<1>1. 0 \in S
  <2> DEFINE m == k - 1
  <2>1. m = 0 * n + m /\ m \in 0..n - 1 /\ m + 0 = m
    BY <1>0
  <2> HIDE DEF m
  <2>2. Q(m) = 0 /\ R(m) = m
    BY <2>1, DivisionIs
  <2>3. g[m] \in Nat /\ h[0] = 0
    BY <1>0 DEF Prefix, m
  <2> HIDE DEF Q, R, T
  <2>4. g[m] + h[0] = Q(m + 0) * T + g[R(m + 0)]
    BY <1>0, <2>1, <2>2, <2>3
  <2> QED BY <2>4 DEF m
<1>2. ASSUME NEW j \in Nat, j \in S PROVE j + 1 \in S
  <2> SUFFICES ASSUME j + 1 <= N
               PROVE  g[k - 1] + h[j + 1] =
                        Q((k - 1) + (j + 1)) * T + g[R((k - 1) + (j + 1))]
    OBVIOUS
  <2> DEFINE m == (k - 1) + j
             q == Q(m)
             r == R(m)
  <2>1. /\ m \in Nat /\ (k - 1) + (j + 1) = m + 1
        /\ k + (j + 1) - 2 = m
        /\ j + 1 \in 1..N /\ j \in 0..N /\ (j + 1) - 1 = j
    BY <1>0
  <2>2. g[k - 1] + h[j] = q * T + g[r]
    BY <1>2
  <2>3. h[j + 1] = h[j] + ahead[j + 1] /\ h[j] \in Nat /\ ahead[j + 1] \in Nat
    BY <2>1 DEF Prefix
  <2> HIDE DEF m
  <2>4. ahead[j + 1] = track[r + 1]
    BY <2>1 DEF Turns
  <2>5. q \in Nat /\ r \in 0..n - 1
    BY <2>1, DivisionOf
  <2>6. \/ r + 1 < n /\ R(m + 1) = r + 1 /\ Q(m + 1) = q
        \/ r + 1 = n /\ R(m + 1) = 0 /\ Q(m + 1) = q + 1
    BY <2>1, DivisionNext
  <2> HIDE DEF Q, R, q, r, S
  <2>7. g[r + 1] = g[r] + track[r + 1] /\ g[r] \in Nat /\ track[r + 1] \in Nat
        /\ g[0] = 0
    <3>1. r + 1 \in 1..n /\ (r + 1) - 1 = r /\ r \in 0..n
      BY <2>5
    <3> QED BY <3>1 DEF Prefix
  <2>8. g[k - 1] + h[j + 1] = q * T + g[r + 1]
    BY <1>0, <2>2, <2>3, <2>4, <2>5, <2>7
  <2>9. q * T + g[r + 1] = Q(m + 1) * T + g[R(m + 1)]
    <3>1. CASE r + 1 < n /\ R(m + 1) = r + 1 /\ Q(m + 1) = q
      BY <3>1
    <3>2. CASE r + 1 = n /\ R(m + 1) = 0 /\ Q(m + 1) = q + 1
      <4>1. g[r + 1] = T
        BY <3>2
      <4> HIDE DEF T
      <4>2. q * T + T = (q + 1) * T + 0
        BY <1>0, <2>5
      <4> QED BY <2>7, <3>2, <4>1, <4>2
    <3> QED BY <2>6, <3>1, <3>2
  <2> QED BY <2>1, <2>8, <2>9
<1> HIDE DEF S
<1>3. \A j \in Nat : j \in S
  BY <1>1, <1>2, SetInduction
<1>4. ASSUME NEW j \in 0..N
      PROVE  g[k - 1] + h[j] = Q((k - 1) + j) * T + g[R((k - 1) + j)]
  BY <1>3 DEF S
<1> QED BY <1>4 DEF TurnsSum

(* The loop of update() ends, at the frame in which the time is.           *)
Arrives(p, track, n, g, k, x) ==
    /\ p.frame \in 1..n /\ p.timer \in Nat /\ p.timer < track[p.frame]
    /\ (g[k - 1] + x) % g[n] = g[p.frame - 1] + p.timer

LEMMA PassedIs ==
    ASSUME NEW n \in Nat \ {0}, NEW track, Len(track) = n,
           NEW g, Prefix(g, track, n), g[n] # 0,
           NEW k \in 1..n, NEW x \in Nat
    PROVE  Arrives(Passed(track, k, x), track, n, g, k, x)
<1> DEFINE N == (x + 1) * n
           F(j) == ((k + j - 2) % n) + 1
           ahead == [j \in 1..N |-> track[F(j)]]
           h == Ends(ahead)
           last == Reached(ahead, x)
           T == g[n]
<1>1. Passed(track, k, x) =
        [frame |-> F(last), timer |-> x - h[last - 1]]
  BY DEF Passed
<1>2. N \in Nat /\ (x + 1) \in Nat
  OBVIOUS
<1>3. T \in Nat \ {0}
  BY DEF Prefix
<1>4. \A j \in 1..N : F(j) \in 1..n
  <2> SUFFICES ASSUME NEW j \in 1..N PROVE F(j) \in 1..n
    OBVIOUS
  <2> DEFINE m == k + j - 2
  <2>1. m \in Nat
    BY <1>2
  <2> HIDE DEF m
  <2>2. m % n \in 0..n - 1
    BY <2>1, DivisionOf
  <2> QED BY <2>2 DEF m
<1>5. \A j \in 1..N : ahead[j] = track[F(j)] /\ ahead[j] \in Nat
  <2> HIDE DEF F, N
  <2> QED BY <1>4 DEF Prefix
<1>6. Len(ahead) = N /\ DOMAIN ahead = 1..N
  <2>1. DOMAIN ahead = 1..N /\ ahead = [j \in 1..N |-> ahead[j]]
    <3> HIDE DEF N, F
    <3> QED OBVIOUS
  <2> HIDE DEF ahead, N
  <2> QED BY <1>2, <2>1, IsListOf
<1> HIDE DEF ahead, N, last, T, h
<1>7. Prefix(h, ahead, N)
  BY <1>2, <1>5, <1>6, EndsAre DEF h
<1>8. \A j \in 0..N : g[k - 1] + h[j] =
            (((k - 1) + j) \div n) * T + g[((k - 1) + j) % n]
  <2>1. Turns(ahead, track, n, k, N)
    BY <1>5 DEF Turns
  <2>2. TurnsSum(h, g, n, k, N)
    BY <1>2, <1>7, <2>1, PassedSums
  <2> QED BY <2>2, Zenon DEF TurnsSum, T
<1>9. x < h[N]
  <2>1. N \in 0..N /\ k - 1 \in 0..n - 1 /\ (k - 1) + N = (x + 1) * n + (k - 1)
    BY <1>2 DEF N
  <2>2. ((k - 1) + N) \div n = x + 1 /\ ((k - 1) + N) % n = k - 1
    <3> DEFINE a == x + 1
               b == k - 1
               c == b + N
    <3>1. a \in Nat /\ b \in 0..n - 1 /\ c = a * n + b
      BY <1>2, <2>1
    <3> HIDE DEF a, b, c
    <3>2. c \div n = a /\ c % n = b
      BY <3>1, DivisionIs
    <3> QED BY <3>2 DEF a, b, c
  <2>3. g[k - 1] + h[N] = (x + 1) * T + g[k - 1]
    BY <1>8, <2>1, <2>2
  <2>4. g[k - 1] \in Nat /\ h[N] \in Nat
    BY <1>7, <2>1 DEF Prefix
  <2>5. (x + 1) * T >= x + 1
    BY <1>3
  <2>6. (x + 1) * T \in Nat
    BY <1>3
  <2> QED BY <2>3, <2>4, <2>5, <2>6
<1>10. last \in 1..N /\ h[last - 1] <= x /\ x < h[last]
  <2>1. PICK i \in 1..N : h[i - 1] <= x /\ x < h[i]
    BY <1>2, <1>7, <1>9, ReachedExists
  <2>2. last = i
    BY <1>2, <1>6, <1>7, <2>1, ReachedIs DEF last, h
  <2> QED BY <2>1, <2>2
<1> DEFINE m == (k - 1) + (last - 1)
           q == m \div n
           r == m % n
           t == x - h[last - 1]
<1>11. m \in Nat /\ k + last - 2 = m /\ last - 1 \in 0..N
  BY <1>2, <1>10
<1>12. g[k - 1] + h[last - 1] = q * T + g[r]
  BY <1>8, <1>11
<1> HIDE DEF m
<1>13. F(last) = r + 1 /\ q \in Nat /\ r \in 0..n - 1
  BY <1>11, DivisionOf
<1> HIDE DEF q, r
<1>14. h[last] = h[last - 1] + track[r + 1] /\ h[last - 1] \in Nat
  BY <1>5, <1>7, <1>10, <1>11, <1>13 DEF Prefix
<1>15. /\ g[r] \in Nat /\ track[r + 1] \in Nat /\ g[k - 1] \in Nat
       /\ g[r] + track[r + 1] <= T
  <2>1. r + 1 \in 1..n /\ (r + 1) - 1 = r /\ r \in 0..n /\ k - 1 \in 0..n
        /\ r + 1 \in 0..n /\ n \in (r + 1)..n
    BY <1>13
  <2>2. /\ g[r + 1] = g[r] + track[r + 1] /\ g[r] \in Nat /\ track[r + 1] \in Nat
        /\ g[k - 1] \in Nat
    BY <2>1 DEF Prefix
  <2>3. g[r + 1] <= T
    BY <2>1, PrefixGrows DEF T
  <2> QED BY <2>2, <2>3
<1>16. t \in Nat /\ t < track[r + 1] /\ x = h[last - 1] + t
  BY <1>10, <1>14, <1>15
<1> HIDE DEF t
<1>17. g[k - 1] + x = q * T + (g[r] + t) /\ g[r] + t \in 0..T - 1
  <2>1. q * T \in Nat
    BY <1>3, <1>13
  <2> DEFINE b == q * T
  <2> HIDE DEF b
  <2>2. b \in Nat /\ g[k - 1] + h[last - 1] = b + g[r]
    BY <1>12, <2>1 DEF b
  <2>3. g[k - 1] + x = b + (g[r] + t)
    <3> DEFINE u == g[k - 1]
               v == h[last - 1]
               w == g[r]
    <3>1. /\ u \in Nat /\ v \in Nat /\ w \in Nat /\ t \in Nat
          /\ u + v = b + w /\ x = v + t
      BY <1>14, <1>15, <1>16, <2>2
    <3> HIDE DEF u, v, w
    <3>2. u + x = b + (w + t)
      BY <2>2, <3>1
    <3> QED BY <3>2 DEF u, w
  <2>4. g[r] + t \in 0..T - 1
    BY <1>3, <1>15, <1>16
  <2> QED BY <2>3, <2>4 DEF b
<1>18. (g[k - 1] + x) % T = g[r] + t
  <2> DEFINE a == g[k - 1] + x
             b == g[r] + t
  <2>1. a = q * T + b /\ b \in 0..T - 1
    BY <1>17
  <2> HIDE DEF a, b
  <2>2. a % T = b
    BY <1>3, <1>13, <2>1, DivisionIs
  <2> QED BY <2>2 DEF a, b
<1>19. Passed(track, k, x) = [frame |-> r + 1, timer |-> t]
  <2> HIDE DEF F
  <2> QED BY <1>1, <1>13 DEF t
<1>20. r + 1 \in 1..n /\ (r + 1) - 1 = r
  BY <1>13
<1> HIDE DEF F
<1> DEFINE p == Passed(track, k, x)
<1>21. p.frame = r + 1 /\ p.timer = t
  BY <1>19
<1> HIDE DEF p
<1>22. Arrives(p, track, n, g, k, x)
  BY <1>16, <1>18, <1>20, <1>21 DEF T, Arrives
<1> QED BY <1>22 DEF p

-----------------------------------------------------------------------------
(* Animations.                                                             *)

IsAnimation(a) ==
    /\ a = [track |-> a.track, frame |-> a.frame, timer |-> a.timer,
            updated |-> a.updated, age |-> a.age]
    /\ a.track \in DOMAIN Tracks /\ a.frame \in 1..Len(Tracks[a.track])
    /\ a.timer \in Nat /\ a.updated \in BOOLEAN /\ a.age \in Nat

(* The frame is that of the time that has passed. *)
Timed(a) ==
    IF Tracks[a.track][1] = 0 THEN a.frame = 1 /\ a.age = 0
    ELSE /\ a.timer < Tracks[a.track][a.frame]
         /\ a.age = Ends(Tracks[a.track])[a.frame - 1] + a.timer

LEMMA TracksAre ==
    /\ 1 \in DOMAIN Tracks
    /\ \A t \in DOMAIN Tracks :
        /\ t \in Nat \ {0}
        /\ Len(Tracks[t]) \in Nat \ {0}
        /\ DOMAIN Tracks[t] = 1..Len(Tracks[t])
        /\ \A k \in 1..Len(Tracks[t]) : Tracks[t][k] \in Nat
        /\ Prefix(Ends(Tracks[t]), Tracks[t], Len(Tracks[t]))
<1> DEFINE S == Seq(Nat) \ {<<>>}
<1>1. Tracks \in Seq(S) /\ Tracks # <<>>
  BY AnimationsAssumption DEF AnimationsAssumption
<1> HIDE DEF S
<1>2. /\ Len(Tracks) \in Nat /\ DOMAIN Tracks = 1..Len(Tracks)
      /\ \A t \in 1..Len(Tracks) : Tracks[t] \in S
  BY <1>1, LenProperties, ElementOfSeq
<1>3. Len(Tracks) # 0
  BY <1>1, EmptySeq
<1>4. ASSUME NEW s \in S
      PROVE  /\ Len(s) \in Nat \ {0} /\ DOMAIN s = 1..Len(s)
             /\ \A k \in 1..Len(s) : s[k] \in Nat
             /\ Prefix(Ends(s), s, Len(s))
  <2>1. s \in Seq(Nat) /\ s # <<>>
    BY DEF S
  <2>2. /\ Len(s) \in Nat /\ DOMAIN s = 1..Len(s) /\ Len(s) # 0
        /\ \A k \in 1..Len(s) : s[k] \in Nat
    BY <2>1, LenProperties, ElementOfSeq, EmptySeq
  <2> DEFINE n == Len(s)
  <2>3. n \in Nat /\ n # 0 /\ Len(s) = n /\ \A k \in 1..n : s[k] \in Nat
    BY <2>2
  <2> HIDE DEF n
  <2>4. Prefix(Ends(s), s, n)
    BY <2>3, EndsAre
  <2> QED BY <2>2, <2>4 DEF n
<1> QED BY <1>2, <1>3, <1>4

LEMMA StartedIs ==
    ASSUME NEW t \in DOMAIN Tracks
    PROVE  /\ IsAnimation(Started(t)) /\ Timed(Started(t))
           /\ Started(t).track = t /\ Started(t).updated = TRUE
<1> DEFINE n == Len(Tracks[t])
           g == Ends(Tracks[t])
<1>1. n \in Nat \ {0} /\ Prefix(g, Tracks[t], n) /\ \A k \in 1..n : Tracks[t][k] \in Nat
  BY TracksAre
<1>2. 1 \in 1..n /\ g[0] = 0 /\ Tracks[t][1] \in Nat
  BY <1>1 DEF Prefix
<1> HIDE DEF g
<1>3. IsAnimation(Started(t))
  BY <1>1, <1>2 DEF IsAnimation, Started
<1>4. Timed(Started(t))
  BY <1>2 DEF Timed, Started, g
<1> QED BY <1>3, <1>4 DEF Started

LEMMA AnimationIs ==
    ASSUME NEW a, IsAnimation(a)
    PROVE  a # NoAnimation
<1>1. NoAnimation.track = 0
  BY DEF NoAnimation
<1>2. a.track \in Nat \ {0}
  BY TracksAre DEF IsAnimation
<1> QED BY <1>1, <1>2

(* What is shown is due. *)
LEMMA TimedShows ==
    ASSUME NEW a, IsAnimation(a), Timed(a)
    PROVE  FrameAt(a.track, a.age) = a.frame
<1> DEFINE f == Tracks[a.track]
           n == Len(f)
           k == a.frame
<1>1. /\ a.track \in DOMAIN Tracks /\ k \in 1..n /\ a.age \in Nat /\ a.timer \in Nat
  BY DEF IsAnimation
<1>2. /\ n \in Nat /\ DOMAIN f = 1..n /\ Prefix(Ends(f), f, n)
  BY <1>1, TracksAre
<1>3. CASE f[1] = 0
  BY <1>3 DEF FrameAt, Timed
<1>4. CASE f[1] # 0
  <2>1. a.timer < f[k] /\ a.age = Ends(f)[k - 1] + a.timer
    BY <1>4 DEF Timed
  <2> HIDE DEF f, n
  <2>2. /\ Ends(f)[k] = Ends(f)[k - 1] + f[k] /\ f[k] \in Nat
        /\ Ends(f)[k - 1] \in Nat
    <3>1. k \in 1..n /\ k - 1 \in 0..n
      BY <1>1, <1>2
    <3> QED BY <1>2, <3>1 DEF Prefix
  <2>3. Ends(f)[k - 1] <= a.age /\ a.age < Ends(f)[k]
    BY <1>1, <2>1, <2>2
  <2>4. Reached(f, a.age) = k
    BY <1>1, <1>2, <2>3, ReachedIs
  <2> QED BY <1>4, <2>4 DEF FrameAt, f
<1> QED BY <1>3, <1>4

(* SpriteAnimation::update() *)
LEMMA AdvancedIs ==
    ASSUME NEW a, IsAnimation(a), Timed(a), NEW dt \in Nat
    PROVE  LET b == [AdvancedBy(a, dt) EXCEPT
                        !.updated = FALSE, !.age = (@ + dt) % Cycle(a.track)]
           IN  IsAnimation(b) /\ Timed(b) /\ b.track = a.track /\ b.updated = FALSE
<1> DEFINE t == a.track
           f == Tracks[t]
           n == Len(f)
           g == Ends(f)
           k == a.frame
           x == a.timer + dt
           y == a.age + dt
           p == Passed(f, k, x)
           c == AdvancedBy(a, dt)
           b == [c EXCEPT !.updated = FALSE, !.age = (@ + dt) % Cycle(a.track)]
           Is(fr, ti, ag) == [track |-> t, frame |-> fr, timer |-> ti,
                                updated |-> FALSE, age |-> ag]
<1>1. /\ t \in DOMAIN Tracks /\ k \in 1..n /\ a.timer \in Nat /\ a.age \in Nat
      /\ a = [track |-> t, frame |-> k, timer |-> a.timer,
              updated |-> a.updated, age |-> a.age]
  BY DEF IsAnimation
<1>2. /\ n \in Nat \ {0} /\ Len(f) = n /\ Prefix(g, f, n)
      /\ \A j \in 1..n : f[j] \in Nat
  BY <1>1, TracksAre
<1>3. x \in Nat /\ y \in Nat
  BY <1>1
<1>4. c = IF f[k] = 0 THEN a
          ELSE IF x < f[k] THEN [a EXCEPT !.timer = x]
          ELSE [a EXCEPT !.frame = p.frame, !.timer = p.timer]
  BY DEF AdvancedBy
<1>5. Cycle(t) = IF f[1] = 0 THEN 1 ELSE g[n]
  BY DEF Cycle, Total
<1> DEFINE fr == c.frame
           ti == c.timer
<1>6. c = [track |-> t, frame |-> fr, timer |-> ti, updated |-> a.updated,
           age |-> a.age]
  <2> DEFINE ag == a.age
             up == a.updated
             tm == a.timer
             pf == p.frame
             pt == p.timer
  <2>1. a = [track |-> t, frame |-> k, timer |-> tm, updated |-> up, age |-> ag]
    BY <1>1
  <2> HIDE DEF t, f, k, x, p, ag, up, tm, c, pf, pt
  <2>2. \/ c = [track |-> t, frame |-> k, timer |-> tm, updated |-> up, age |-> ag]
        \/ c = [track |-> t, frame |-> k, timer |-> x, updated |-> up, age |-> ag]
        \/ c = [track |-> t, frame |-> pf, timer |-> pt, updated |-> up, age |-> ag]
    BY <1>4, <2>1 DEF pf, pt
  <2>3. c = [track |-> t, frame |-> fr, timer |-> ti, updated |-> up, age |-> ag]
    BY <2>2
  <2> QED BY <2>3 DEF ag, up
<1>7. b = Is(fr, ti, y % Cycle(t))
  <2> DEFINE ag == a.age
             up == a.updated
             cy == Cycle(t)
  <2>1. c = [track |-> t, frame |-> fr, timer |-> ti, updated |-> up, age |-> ag]
    BY <1>6
  <2>2. b = [c EXCEPT !.updated = FALSE, !.age = (@ + dt) % cy]
    OBVIOUS
  <2> HIDE DEF c, fr, ti, t, ag, up, cy, b
  <2>3. b = [track |-> t, frame |-> fr, timer |-> ti, updated |-> FALSE,
             age |-> (ag + dt) % cy]
    BY <2>1, <2>2
  <2> QED BY <2>3 DEF ag, cy
<1> SUFFICES /\ fr \in 1..n /\ ti \in Nat /\ y % Cycle(t) \in Nat
             /\ IF f[1] = 0 THEN fr = 1 /\ y % Cycle(t) = 0
                ELSE ti < f[fr] /\ y % Cycle(t) = g[fr - 1] + ti
  <2> DEFINE cy == y % Cycle(t)
  <2>1. t \in DOMAIN Tracks
    BY <1>1
  <2> HIDE DEF b, c, fr, ti, t, cy, y
  <2>2. /\ fr \in 1..Len(Tracks[t]) /\ ti \in Nat /\ cy \in Nat
        /\ IF Tracks[t][1] = 0 THEN fr = 1 /\ cy = 0
           ELSE ti < Tracks[t][fr] /\ cy = Ends(Tracks[t])[fr - 1] + ti
    BY DEF cy
  <2>3. b = [track |-> t, frame |-> fr, timer |-> ti, updated |-> FALSE, age |-> cy]
    BY <1>7 DEF cy
  <2>4. /\ b.track = t /\ b.frame = fr /\ b.timer = ti /\ b.updated = FALSE
        /\ b.age = cy
    BY <2>3
  <2>5. IsAnimation(b)
    BY <2>1, <2>2, <2>3, <2>4 DEF IsAnimation
  <2>6. Timed(b)
    BY <2>2, <2>4 DEF Timed
  <2> QED BY <2>4, <2>5, <2>6 DEF b, c, t
<1>8. CASE f[1] = 0
  <2>1. k = 1 /\ a.age = 0
    BY <1>8 DEF Timed
  <2>2. c = a
    BY <1>4, <1>8, <2>1
  <2>3. fr = k /\ ti = a.timer
    <3> HIDE DEF c
    <3> QED BY <2>2
  <2>4. y % 1 = 0
    BY <1>3
  <2> HIDE DEF fr, ti, c
  <2> QED BY <1>1, <1>5, <1>8, <2>1, <2>3, <2>4
<1>9. CASE f[1] # 0
  <2>1. a.timer < f[k] /\ a.age = g[k - 1] + a.timer
    BY <1>9 DEF Timed
  <2>2. f[k] \in Nat /\ f[k] # 0
    BY <1>1, <1>2, <2>1
  <2>3. /\ g[n] \in Nat /\ g[n] # 0
        /\ g[k - 1] \in Nat /\ g[k] = g[k - 1] + f[k] /\ g[k] <= g[n]
    <3> HIDE DEF g, f, n, k
    <3>1. k \in 1..n /\ k - 1 \in 0..n /\ k \in 0..n /\ n \in k..n /\ n \in 0..n
      BY <1>1, <1>2
    <3>2. g[n] \in Nat /\ g[k - 1] \in Nat /\ g[k] = g[k - 1] + f[k] /\ g[k] \in Nat
      BY <1>2, <3>1 DEF Prefix
    <3>3. g[k] <= g[n]
      BY <1>2, <3>1, PrefixGrows
    <3> QED BY <2>2, <3>2, <3>3
  <2>4. y = g[k - 1] + x
    <3> HIDE DEF g
    <3> QED BY <1>1, <2>1, <2>3
  <2>5. Cycle(t) = g[n]
    BY <1>5, <1>9
  <2>6. CASE x < f[k]
    <3>1. c = [a EXCEPT !.timer = x]
      BY <1>4, <2>2, <2>6
    <3>2. fr = k /\ ti = x
      <4> DEFINE ag == a.age
                 up == a.updated
                 tm == a.timer
      <4>1. a = [track |-> t, frame |-> k, timer |-> tm, updated |-> up, age |-> ag]
        BY <1>1
      <4> HIDE DEF c, x, ag, up, tm, t, k
      <4> QED BY <3>1, <4>1
    <3> HIDE DEF fr, ti, c, g, f, n, k, x, y
    <3>3. y \in 0..g[n] - 1 /\ y = 0 * g[n] + y
      BY <1>3, <2>2, <2>3, <2>4, <2>6
    <3>4. y % g[n] = y
      BY <2>3, <3>3, DivisionIs
    <3> QED BY <1>1, <1>3, <1>9, <2>4, <2>5, <2>6, <3>2, <3>4
  <2>7. CASE ~(x < f[k])
    <3>1. c = [a EXCEPT !.frame = p.frame, !.timer = p.timer]
      BY <1>4, <2>2, <2>7
    <3>2. fr = p.frame /\ ti = p.timer
      <4> DEFINE ag == a.age
                 up == a.updated
                 tm == a.timer
                 pf == p.frame
                 pt == p.timer
      <4>1. a = [track |-> t, frame |-> k, timer |-> tm, updated |-> up, age |-> ag]
        BY <1>1
      <4>2. c = [a EXCEPT !.frame = pf, !.timer = pt]
        BY <3>1
      <4> HIDE DEF c, x, ag, up, tm, t, k, p, pf, pt
      <4>3. fr = pf /\ ti = pt
        BY <4>1, <4>2
      <4> QED BY <4>3 DEF pf, pt
    <3> HIDE DEF fr, ti, c, g, f, n, k, x, y
    <3>3. /\ p.frame \in 1..n /\ p.timer \in Nat /\ p.timer < f[p.frame]
          /\ (g[k - 1] + x) % g[n] = g[p.frame - 1] + p.timer
      <4>1. Arrives(Passed(f, k, x), f, n, g, k, x)
        BY <1>1, <1>2, <1>3, <2>3, PassedIs
      <4>2. Arrives(p, f, n, g, k, x)
        BY <4>1 DEF p
      <4> QED BY <4>2, Zenon DEF Arrives
    <3>4. g[p.frame - 1] \in Nat
      <4>1. p.frame - 1 \in 0..n
        BY <1>2, <3>3
      <4> QED BY <1>2, <4>1 DEF Prefix
    <3> QED BY <1>9, <2>4, <2>5, <3>2, <3>3, <3>4
  <2> QED BY <2>6, <2>7
<1> QED BY <1>8, <1>9

(* Where renderers are after one was changed, or all were animated.        *)
LEMMA SetLookLive ==
    ASSUME Arrays, NEW p \in Live, NEW x, set_look(p, x)
    PROVE  /\ Live' = Live
           /\ \A q \in Live : /\ At(q)'.ent = At(q).ent
                              /\ At(q)'.look = IF q = p THEN x ELSE At(q).look
<1> DEFINE t == p.type
           s == renderers[t]
           r == s[p.i]
           d == [r EXCEPT !.look = x, !.updated = TRUE]
<1>1. Live' = Live /\ \A q \in Live : At(q)'.ent = At(q).ent
  BY SetLookSame, SameLive
<1>2. /\ t \in Types /\ p.i \in DOMAIN s /\ IsRenderer(r)
      /\ p = [type |-> t, i |-> p.i]
  BY ArraysAre, LiveIs
<1>3. renderers' = [renderers EXCEPT ![t] = [s EXCEPT ![p.i] = d]]
      /\ renderers = [u \in Types |-> renderers[u]]
  BY DEF set_look, Arrays
<1>4. d.look = x
  <2> HIDE DEF r
  <2> QED BY <1>2, RendererLooks, Zenon
<1> HIDE DEF d, r
<1>5. ASSUME NEW q \in Live
      PROVE  At(q)'.look = IF q = p THEN x ELSE At(q).look
  <2>1. /\ q.type \in Types /\ q.i \in DOMAIN renderers[q.type]
        /\ q = [type |-> q.type, i |-> q.i]
    BY DEF Live, Pointers
  <2>2. CASE q = p
    BY <1>2, <1>3, <1>4, <2>2 DEF At
  <2>3. CASE q # p /\ q.type = t
    <3>1. q.i # p.i
      BY <1>2, <2>1, <2>3
    <3> HIDE DEF t
    <3> QED BY <1>3, <2>1, <2>3, <3>1 DEF At
  <2>4. CASE q # p /\ q.type # t
    BY <1>3, <2>1, <2>4 DEF At
  <2> QED BY <2>2, <2>3, <2>4
<1> QED BY <1>1, <1>5

LEMMA AnimateLive ==
    ASSUME Arrays, animate
    PROVE  /\ Live' = Live
           /\ \A q \in Live :
                LET e == At(q).ent IN
                /\ At(q)'.ent = e
                /\ At(q)'.look =
                    IF q.type = "sprite" /\ e \in Animated /\ e \in Given
                    THEN [At(q).look EXCEPT
                            !.uv = <<anims'[e].track, anims'[e].frame>>]
                    ELSE At(q).look
<1> DEFINE s == renderers["sprite"]
           Shows(i) == [s[i] EXCEPT !.updated = TRUE,
                !.look.uv = <<anims'[s[i].ent].track, anims'[s[i].ent].frame>>]
           a == [i \in DOMAIN s |->
                IF s[i].ent \notin Animated \/ s[i].ent \notin Given THEN s[i]
                ELSE Shows(i)]
<1>1. /\ renderers' = [renderers EXCEPT !["sprite"] = a]
      /\ renderers = [u \in Types |-> renderers[u]]
  BY Zenon DEF animate, Arrays
<1>2. ASSUME "sprite" \in Types, NEW i \in DOMAIN s
      PROVE  Shows(i).look = [s[i].look EXCEPT
                !.uv = <<anims'[s[i].ent].track, anims'[s[i].ent].frame>>]
  <2> DEFINE q == s[i]
             x == <<anims'[q.ent].track, anims'[q.ent].frame>>
  <2>1. IsRenderer(q)
    BY <1>2, ArraysAre
  <2>2. Shows(i) = [q EXCEPT !.updated = TRUE, !.look.uv = x]
    OBVIOUS
  <2> HIDE DEF q, x, Shows
  <2>3. [q EXCEPT !.updated = TRUE, !.look.uv = x].look = [q.look EXCEPT !.uv = x]
    BY <2>1, RendererShows, Zenon
  <2>4. Shows(i).look = [q.look EXCEPT !.uv = x]
    BY <2>2, <2>3
  <2> QED BY <2>4 DEF q, x
<1>3. Live' = Live /\ \A q \in Live : At(q)'.ent = At(q).ent
  BY AnimateSame, SameLive
<1> HIDE DEF Shows
<1>4. ASSUME NEW q \in Live
      PROVE  LET e == At(q).ent IN
             At(q)'.look =
                    IF q.type = "sprite" /\ e \in Animated /\ e \in Given
                    THEN [At(q).look EXCEPT
                            !.uv = <<anims'[e].track, anims'[e].frame>>]
                    ELSE At(q).look
  <2>1. /\ q.type \in Types /\ q.i \in DOMAIN renderers[q.type]
    BY DEF Live, Pointers
  <2>2. CASE q.type # "sprite"
    <3>1. At(q)' = At(q)
      BY <1>1, <2>1, <2>2 DEF At
    <3> QED BY <2>2, <3>1
  <2>3. CASE q.type = "sprite"
    <3>1. /\ "sprite" \in Types /\ q.i \in DOMAIN s /\ At(q) = s[q.i]
          /\ At(q)' = a[q.i]
      <4> HIDE DEF a
      <4> QED BY <1>1, <2>1, <2>3 DEF At
    <3>2. a[q.i] = IF s[q.i].ent \notin Animated \/ s[q.i].ent \notin Given
                   THEN s[q.i] ELSE Shows(q.i)
      <4> HIDE DEF Given
      <4> QED BY <3>1
    <3> DEFINE i == q.i
    <3>3. Shows(i).look = [s[i].look EXCEPT
                !.uv = <<anims'[s[i].ent].track, anims'[s[i].ent].frame>>]
      BY <1>2, <3>1
    <3> HIDE DEF a, Given, s, At
    <3> QED BY <2>3, <3>1, <3>2, <3>3
  <2> QED BY <2>2, <2>3
<1> QED BY <1>3, <1>4

-----------------------------------------------------------------------------
(* Animations and the sprites they are of.                                 *)

(* What is shown of a sprite whose animation was updated is its frame; an  *)
(* animation has a sprite, and time for its frame.                         *)
Frames(p) ==
    LET e == At(p).ent IN
    e \in Running /\ ~anims[e].updated =>
        At(p).look.uv = <<anims[e].track, anims[e].frame>>

AnimsInv ==
    /\ anims = [e \in Animated |-> anims[e]]
    /\ \A e \in Running :
        /\ IsAnimation(anims[e]) /\ Timed(anims[e])
        /\ \E p \in Live : p.type = "sprite" /\ At(p).ent = e
    /\ \A p \in Live :
        At(p).ent \in Entities /\ At(p).look \in Looks /\ Frames(p)

LEMMA AnimsKept ==
    ASSUME AnimsInv, UNCHANGED anims, Live' = Live,
           \A p \in Live :
                /\ At(p)'.ent = At(p).ent
                /\ At(p)'.look \in Looks /\ At(p)'.look.uv = At(p).look.uv
    PROVE  AnimsInv'
<1>1. Running' = Running
  BY DEF Running
<1>2. \A p \in Live : Frames(p)'
  BY <1>1 DEF Frames, AnimsInv
<1>3. anims' = [e \in Animated |-> anims'[e]]
  BY DEF AnimsInv
<1>4. \A e \in Running' :
        /\ IsAnimation(anims[e])' /\ Timed(anims[e])'
        /\ \E p \in Live' : p.type = "sprite" /\ At(p)'.ent = e
  BY <1>1 DEF AnimsInv, IsAnimation, Timed
<1>5. \A p \in Live' : At(p)'.ent \in Entities /\ At(p)'.look \in Looks
  BY DEF AnimsInv
<1> QED BY <1>2, <1>3, <1>4, <1>5 DEF AnimsInv

LEMMA LoadAnims ==
    ASSUME Arrays, AnimsInv, NEW e \in Entities, NEW t \in Types, NEW x \in Looks,
           load(e, t, x), UNCHANGED anims
    PROVE  AnimsInv'
<1>1. PICK new : new = [type |-> t, i |-> Len(renderers[t]) + 1]
  OBVIOUS
<1>2. /\ \A q \in Live' :
            \/ q \in Live /\ At(q)' = At(q)
            \/ q = new /\ At(q)'.ent = e /\ At(q)'.look = x
      /\ \A q \in Live : q \in Live' /\ At(q)' = At(q)
  BY <1>1, LoadLive
<1>3. Running' = Running
  BY DEF Running
<1>4. e \notin Running
  BY DEF load, EntitiesOf, AnimsInv
<1>5. \A e1 \in Running' :
        /\ IsAnimation(anims[e1])' /\ Timed(anims[e1])'
        /\ \E p \in Live' : p.type = "sprite" /\ At(p)'.ent = e1
  BY <1>2, <1>3 DEF AnimsInv, IsAnimation, Timed
<1>6. ASSUME NEW q \in Live'
      PROVE  At(q)'.ent \in Entities /\ At(q)'.look \in Looks /\ Frames(q)'
  <2>1. CASE q \in Live /\ At(q)' = At(q)
    BY <1>3, <2>1 DEF AnimsInv, Frames
  <2>2. CASE At(q)'.ent = e /\ At(q)'.look = x
    BY <1>3, <1>4, <2>2 DEF Frames
  <2> QED BY <1>2, <2>1, <2>2
<1>7. anims' = [f \in Animated |-> anims'[f]]
  BY DEF AnimsInv
<1> QED BY <1>5, <1>6, <1>7 DEF AnimsInv

(* An animation is removed with its sprite.                                *)
LEMMA RemoveAnims ==
    ASSUME Arrays, AnimsInv, NEW p \in Live, remove(p),
           IF Still(At(p).ent) THEN UNCHANGED anims
           ELSE remove_animation(At(p).ent)
    PROVE  AnimsInv'
<1> DEFINE e == At(p).ent
<1>1. PICK last : last = [p EXCEPT !.i = Len(renderers[p.type])]
  OBVIOUS
<1>2. /\ last \in Live /\ last.type = p.type
      /\ \A q \in Live' :
            /\ q \in Live /\ q # last
            /\ At(q)'.ent = IF q = p THEN At(last).ent ELSE At(q).ent
            /\ At(q)'.look = IF q = p THEN At(last).look ELSE At(q).look
      /\ \A q \in Live : q # last => q \in Live'
  BY <1>1, RemoveLive
<1>3. p.i = Len(renderers[p.type]) => p = last
  BY <1>1, RemoveLive
<1>4. anims' = [f \in Animated |-> IF f = e THEN NoAnimation ELSE anims[f]]
  <2>1. anims = [f \in Animated |-> anims[f]]
    BY DEF AnimsInv
  <2>2. CASE Still(e)
    <3>1. e \notin Running /\ anims' = anims
      BY <2>2 DEF Still, Running
    <3> HIDE DEF e
    <3> QED BY <2>1, <3>1 DEF Running
  <2>3. CASE ~Still(e)
    <3>1. anims' = [anims EXCEPT ![e] = NoAnimation]
      BY <2>3 DEF remove_animation
    <3> HIDE DEF e
    <3> QED BY <2>1, <3>1
  <2> QED BY <2>2, <2>3
<1>5. Running' = Running \ {e} /\ \A f \in Running' : anims'[f] = anims[f]
  <2> HIDE DEF e
  <2> QED BY <1>4 DEF Running
<1>6. ASSUME NEW f \in Running'
      PROVE  \E q \in Live' : q.type = "sprite" /\ At(q)'.ent = f
  <2>1. PICK q \in Live : q.type = "sprite" /\ At(q).ent = f
    BY <1>5 DEF AnimsInv
  <2>2. q # p
    BY <1>5, <2>1
  <2>3. CASE q # last
    BY <1>2, <2>1, <2>2, <2>3
  <2>4. CASE q = last
    <3>1. p # last
      BY <2>2, <2>4
    <3> QED BY <1>2, <2>1, <2>4, <3>1
  <2> QED BY <2>3, <2>4
<1>7. ASSUME NEW q \in Live'
      PROVE  At(q)'.ent \in Entities /\ At(q)'.look \in Looks /\ Frames(q)'
  <2>1. PICK r \in Live : At(q)'.ent = At(r).ent /\ At(q)'.look = At(r).look
    BY <1>2
  <2>2. At(r).ent \in Entities /\ At(r).look \in Looks /\ Frames(r)
    BY DEF AnimsInv
  <2> HIDE DEF At
  <2> QED BY <1>5, <2>1, <2>2 DEF Frames
<1>8. \A f \in Running' : IsAnimation(anims[f])' /\ Timed(anims[f])'
  BY <1>5 DEF AnimsInv, IsAnimation, Timed
<1>9. anims' = [f \in Animated |-> anims'[f]]
  BY <1>4
<1> QED BY <1>6, <1>7, <1>8, <1>9 DEF AnimsInv

(* An animation is started, or a track set, for an entity with a sprite.   *)
LEMMA StartAnims ==
    ASSUME AnimsInv, NEW p \in Live, p.type = "sprite", UNCHANGED renderers,
           NEW e, e = At(p).ent, e \in Animated, NEW t \in DOMAIN Tracks,
           anims' = [anims EXCEPT ![e] = Started(t)]
    PROVE  AnimsInv'
<1>1. anims' = [f \in Animated |-> IF f = e THEN Started(t) ELSE anims[f]]
  <2>1. anims = [f \in Animated |-> anims[f]]
    BY DEF AnimsInv
  <2> QED BY <2>1
<1>2. Live' = Live /\ \A q \in Live : At(q)' = At(q)
  BY DEF Live, At
<1>3. /\ IsAnimation(Started(t)) /\ Timed(Started(t)) /\ Started(t).updated = TRUE
      /\ Started(t) # NoAnimation
  BY StartedIs, AnimationIs
<1>4. /\ Running' = Running \cup {e} /\ anims'[e] = Started(t)
      /\ \A f \in Running' \ {e} : anims'[f] = anims[f] /\ f \in Running
  <2> DEFINE x == Started(t)
  <2>1. anims' = [f \in Animated |-> IF f = e THEN x ELSE anims[f]]
    BY <1>1
  <2>2. x # NoAnimation
    BY <1>3
  <2>3. Started(t) = x
    OBVIOUS
  <2> HIDE DEF x
  <2>4. anims'[e] = x
    BY <2>1
  <2>5. \A f \in Animated : f # e => anims'[f] = anims[f]
    BY <2>1
  <2>6. Running' = Running \cup {e}
    BY <2>2, <2>4, <2>5 DEF Running
  <2>7. \A f \in Running' \ {e} : f \in Animated /\ f \in Running
    BY <2>6 DEF Running
  <2> QED BY <2>3, <2>4, <2>5, <2>6, <2>7
<1>5. ASSUME NEW f \in Running'
      PROVE  /\ IsAnimation(anims[f])' /\ Timed(anims[f])'
             /\ \E q \in Live' : q.type = "sprite" /\ At(q)'.ent = f
  <2>1. CASE f = e
    <3>1. IsAnimation(anims[f])' /\ Timed(anims[f])'
      BY <1>3, <1>4, <2>1 DEF IsAnimation, Timed
    <3>2. At(p)'.ent = f
      BY <1>2, <2>1
    <3> QED BY <1>2, <3>1, <3>2
  <2>2. CASE f # e
    <3>1. anims'[f] = anims[f] /\ f \in Running
      BY <1>4, <2>2
    <3>2. IsAnimation(anims[f])' /\ Timed(anims[f])'
      BY <3>1 DEF AnimsInv, IsAnimation, Timed
    <3> QED BY <1>2, <3>1, <3>2 DEF AnimsInv
  <2> QED BY <2>1, <2>2
<1>6. ASSUME NEW q \in Live
      PROVE  At(q)'.ent \in Entities /\ At(q)'.look \in Looks /\ Frames(q)'
  <2>1. At(q)' = At(q) /\ At(q).ent \in Entities /\ At(q).look \in Looks /\ Frames(q)
    BY <1>2 DEF AnimsInv
  <2> DEFINE f == At(q).ent
  <2>2. CASE f = e
    BY <1>3, <1>4, <2>1, <2>2 DEF Frames
  <2>3. CASE f # e
    BY <1>4, <2>1, <2>3 DEF Frames
  <2> QED BY <2>1, <2>2, <2>3
<1> QED BY <1>1, <1>2, <1>5, <1>6 DEF AnimsInv

(* The look of a sprite with a frame. *)
LEMMA LookShows ==
    ASSUME NEW x \in Looks, NEW a, IsAnimation(a)
    PROVE  /\ [x EXCEPT !.uv = <<a.track, a.frame>>] \in Looks
           /\ [x EXCEPT !.uv = <<a.track, a.frame>>].uv = <<a.track, a.frame>>
<1>1. a.track \in DOMAIN Tracks /\ a.frame \in DOMAIN Tracks[a.track]
  BY TracksAre DEF IsAnimation
<1>2. \A t \in DOMAIN Tracks : \A k \in DOMAIN Tracks[t] :
        [x EXCEPT !.uv = <<t, k>>] \in {y \in Looks : y.uv = <<t, k>>}
  BY SceneAssumption DEF SceneAssumption
<1> QED BY <1>1, <1>2

(* All animations advance; the sprites are given the frames.               *)
LEMMA AnimateAnims ==
    ASSUME Arrays, Selected, AnimsInv, animate
    PROVE  AnimsInv'
<1>1. PICK dt \in Steps : \/ Running = {} /\ UNCHANGED anims
                          \/ Running # {} /\ update_animations(dt)
  BY DEF animate
<1>2. dt \in Nat
  BY TextboxAssumption DEF TextboxAssumption
<1>3. /\ Live' = Live
      /\ \A q \in Live :
            LET e == At(q).ent IN
            /\ At(q)'.ent = e
            /\ At(q)'.look =
                IF q.type = "sprite" /\ e \in Animated /\ e \in Given
                THEN [At(q).look EXCEPT
                        !.uv = <<anims'[e].track, anims'[e].frame>>]
                ELSE At(q).look
  BY AnimateLive
<1>4. CASE Running = {} /\ UNCHANGED anims
  <2>1. Given = {}
    BY <1>4 DEF Given
  <2>2. \A q \in Live :
            /\ At(q)'.ent = At(q).ent /\ At(q)'.look = At(q).look
    <3> HIDE DEF At
    <3> QED BY <1>3, <2>1
  <2>3. \A q \in Live : At(q).look \in Looks
    BY DEF AnimsInv
  <2> QED BY <1>3, <1>4, <2>2, <2>3, AnimsKept
<1>5. CASE update_animations(dt)
  <2>1. ASSUME NEW e \in Running
        PROVE  /\ IsAnimation(anims'[e]) /\ Timed(anims'[e])
               /\ anims'[e].track = anims[e].track /\ anims'[e].updated = FALSE
    <3> DEFINE a == anims[e]
               b == [AdvancedBy(a, dt) EXCEPT
                        !.updated = FALSE, !.age = (@ + dt) % Cycle(a.track)]
    <3>1. IsAnimation(a) /\ Timed(a)
      BY DEF AnimsInv
    <3>2. e \in Animated
      BY DEF Running
    <3>3. anims'[e] = b
      BY <1>5, <3>2 DEF update_animations
    <3> HIDE DEF a
    <3>4. IsAnimation(b) /\ Timed(b) /\ b.track = a.track /\ b.updated = FALSE
      BY <1>2, <3>1, AdvancedIs
    <3> HIDE DEF b
    <3> QED BY <3>3, <3>4 DEF a
  <2>2. /\ \A e \in Animated \ Running : anims'[e] = NoAnimation
        /\ anims' = [e \in Animated |-> anims'[e]]
    BY <1>5 DEF update_animations
  <2>3. Running' = Running
    <3>1. \A e \in Running : anims'[e] # NoAnimation
      BY <2>1, AnimationIs
    <3> QED BY <2>2, <3>1 DEF Running
  <2>4. \A e \in Running' :
            /\ IsAnimation(anims[e])' /\ Timed(anims[e])'
            /\ \E q \in Live' : q.type = "sprite" /\ At(q)'.ent = e
    <3>1. \A e \in Running : \E q \in Live : q.type = "sprite" /\ At(q).ent = e
      BY DEF AnimsInv
    <3>2. \A e \in Running : \E q \in Live' : q.type = "sprite" /\ At(q)'.ent = e
      BY <1>3, <3>1
    <3>3. \A e \in Running' : IsAnimation(anims[e])' /\ Timed(anims[e])'
      BY <2>1, <2>3 DEF IsAnimation, Timed
    <3> QED BY <2>3, <3>2, <3>3
  <2>5. ASSUME NEW q \in Live
        PROVE  At(q)'.ent \in Entities /\ At(q)'.look \in Looks /\ Frames(q)'
    <3> DEFINE e == At(q).ent
               x == At(q).look
               b == anims'[e]
    <3>1. e \in Entities /\ x \in Looks /\ Frames(q)
      BY DEF AnimsInv
    <3>2. /\ At(q)'.ent = e
          /\ At(q)'.look =
                IF q.type = "sprite" /\ e \in Animated /\ e \in Given
                THEN [x EXCEPT !.uv = <<b.track, b.frame>>] ELSE x
      BY <1>3
    <3>3. CASE e \notin Running
      <4>1. e \notin Given
        BY <3>3 DEF Given
      <4>2. e \notin Running'
        BY <2>3, <3>3
      <4>3. At(q)'.look = x
        <5> HIDE DEF x, e, At
        <5> QED BY <3>2, <4>1
      <4> QED BY <3>1, <3>2, <4>2, <4>3 DEF Frames
    <3>4. CASE e \in Running
      <4>1. /\ IsAnimation(b) /\ b.track = anims[e].track /\ e \in Animated
        BY <2>1, <3>4 DEF Running
      <4>2. q.type = "sprite"
        <5>1. PICK r \in Live : r.type = "sprite" /\ At(r).ent = e
          BY <3>4 DEF AnimsInv
        <5>2. r = q
          BY <5>1 DEF Selected
        <5> QED BY <5>1, <5>2
      <4>3. CASE e \in Given
        <5>1. At(q)'.look = [x EXCEPT !.uv = <<b.track, b.frame>>]
          <6> HIDE DEF x, e, At, b
          <6> QED BY <3>2, <4>1, <4>2, <4>3
        <5>2. At(q)'.look \in Looks /\ At(q)'.look.uv = <<b.track, b.frame>>
          <6> HIDE DEF x, b
          <6> QED BY <3>1, <4>1, <5>1, LookShows
        <5> QED BY <3>1, <3>2, <5>2 DEF Frames
      <4>4. CASE e \notin Given
        <5>1. At(q)'.look = x
          <6> HIDE DEF x, e, At, b
          <6> QED BY <3>2, <4>4
        <5>2. ~anims[e].updated /\ b.frame = anims[e].frame
          BY <3>4, <4>4 DEF Given
        <5>3. x.uv = <<b.track, b.frame>>
          BY <3>1, <3>4, <4>1, <5>2 DEF Frames
        <5> QED BY <3>1, <3>2, <5>1, <5>3 DEF Frames
      <4> QED BY <4>3, <4>4
    <3> QED BY <3>3, <3>4
  <2> QED BY <1>3, <2>2, <2>4, <2>5 DEF AnimsInv
<1> QED BY <1>1, <1>4, <1>5

LEMMA AnimsStay ==
    ASSUME AnimsInv, UNCHANGED <<anims, renderers>>
    PROVE  AnimsInv'
<1>1. Live' = Live /\ \A p \in Live : At(p)' = At(p)
  BY DEF Live, At
<1>2. \A p \in Live : At(p).look \in Looks
  BY DEF AnimsInv
<1> QED BY <1>1, <1>2, AnimsKept

LEMMA AnimsStep ==
    ASSUME AnimsInv, RenderersInv, SelectionsInv, [Next]_vars
    PROVE  AnimsInv'
<1>0. Arrays /\ Selected
  BY DEF RenderersInv, SelectionsInv
<1>1. CASE UNCHANGED <<rvars, anims>>
  BY <1>1, AnimsStay DEF rvars
<1>2. CASE Next
  <2>1. CASE change_renderers
    <3>1. CASE /\ UNCHANGED anims
               /\ \E e \in Entities, t \in Types, x \in Looks :
                    x.uv = NotYet /\ load(e, t, x)
      BY <1>0, <3>1, LoadAnims
    <3>2. CASE /\ UNCHANGED anims
               /\ \E p \in Live, x \in Looks :
                    x.uv = At(p).look.uv /\ set_look(p, x)
      <4>1. PICK p \in Live, x \in Looks : x.uv = At(p).look.uv /\ set_look(p, x)
        BY <3>2
      <4>2. /\ Live' = Live
            /\ \A q \in Live :
                /\ At(q)'.ent = At(q).ent
                /\ At(q)'.look = IF q = p THEN x ELSE At(q).look
        BY <1>0, <4>1, SetLookLive
      <4>3. \A q \in Live : At(q).look \in Looks
        BY DEF AnimsInv
      <4> HIDE DEF At
      <4>4. \A q \in Live : /\ At(q)'.look \in Looks
                            /\ At(q)'.look.uv = At(q).look.uv
        BY <4>1, <4>2, <4>3
      <4> QED BY <3>2, <4>2, <4>4, AnimsKept
    <3>3. CASE \E p \in Live :
                    /\ remove(p)
                    /\ IF Still(At(p).ent) THEN UNCHANGED anims
                       ELSE remove_animation(At(p).ent)
      BY <1>0, <3>3, RemoveAnims
    <3> QED BY <2>1, <3>1, <3>2, <3>3 DEF change_renderers
  <2>2. CASE change_drawing
    <3>1. UNCHANGED <<anims, renderers>>
      BY <2>2 DEF change_drawing, add_selection, remove_selection, set_debug,
                  set_perspective, set_zsprites
    <3> QED BY <3>1, AnimsStay
  <2>3. CASE change_animations
    <3>1. PICK p \in Live :
            /\ p.type = "sprite" /\ At(p).ent \in Animated
            /\ \/ load_animation(At(p).ent)
               \/ \E t \in DOMAIN Tracks : set_track(At(p).ent, t)
      BY <2>3 DEF change_animations
    <3>2. UNCHANGED renderers
      BY <2>3 DEF change_animations, rvars
    <3>3. \E t \in DOMAIN Tracks :
            anims' = [anims EXCEPT ![At(p).ent] = Started(t)]
      BY <3>1, TracksAre DEF load_animation, set_track
    <3> QED BY <3>1, <3>2, <3>3, StartAnims
  <2>4. CASE change_textbox \/ change_lighting \/ change_camera
    BY <1>1, <2>4 DEF change_textbox, change_lighting, change_camera
  <2>5. CASE replace_graphics
    <3>1. UNCHANGED <<anims, renderers>>
      BY <2>5 DEF replace_graphics, set_graphics
    <3> QED BY <3>1, AnimsStay
  <2>6. CASE animate
    BY <1>0, <2>6, AnimateAnims
  <2>7. CASE write_buffers
    <3>1. update_renderers /\ UNCHANGED anims
      BY <2>7 DEF write_buffers
    <3>2. /\ Live' = Live
          /\ \A p \in Live : /\ At(p)'.ent = At(p).ent
                             /\ At(p)'.look = At(p).look
      BY <1>0, <3>1, UpdateSame, SameLive DEF Live, Pointers, At
    <3>3. \A p \in Live : At(p).look \in Looks
      BY DEF AnimsInv
    <3> QED BY <3>1, <3>2, <3>3, AnimsKept
  <2>8. collide \/ move_camera \/ write_text \/ light \/ draw \/ vsync
        => UNCHANGED <<rvars, anims>>
    BY DEF collide, move_camera, write_text, light, draw, vsync
  <2> QED BY <1>1, <1>2, <2>1, <2>2, <2>3, <2>4, <2>5, <2>6, <2>7, <2>8
          DEF Next, frame
<1>3. CASE UNCHANGED vars
  BY <1>1, <1>3 DEF vars
<1> QED BY <1>2, <1>3

LEMMA AnimsStart ==
    ASSUME Init PROVE AnimsInv
<1>1. /\ renderers = [t \in Types |-> <<>>]
      /\ anims = [e \in Animated |-> NoAnimation]
  BY DEF Init, RenderersInit, AnimationsInit
<1>2. Live = {}
  BY <1>1, EmptyList DEF Live, Pointers
<1>3. Running = {}
  BY <1>1 DEF Running
<1> QED BY <1>1, <1>2, <1>3 DEF AnimsInv

LEMMA AnimsMatch ==
    ASSUME AnimsInv
    PROVE  AnimationsTypeOK /\ AnimationsMatch
<1>1. ASSUME NEW e \in Running
      PROVE  /\ anims[e].track \in DOMAIN Tracks
             /\ anims[e].frame \in DOMAIN Tracks[anims[e].track]
             /\ anims[e].updated \in BOOLEAN
             /\ Due(e) = <<anims[e].track, anims[e].frame>>
  <2>1. IsAnimation(anims[e]) /\ Timed(anims[e])
    BY DEF AnimsInv
  <2>2. FrameAt(anims[e].track, anims[e].age) = anims[e].frame
    BY <2>1, TimedShows
  <2> QED BY <2>1, <2>2, TracksAre DEF IsAnimation, Due
<1>2. AnimationsTypeOK
  BY <1>1 DEF AnimationsTypeOK, Running
<1>3. AnimationsMatch
  <2> SUFFICES ASSUME NEW p \in Live, ~Still(At(p).ent),
                      ~anims[At(p).ent].updated
               PROVE  At(p).look.uv = Due(At(p).ent)
    BY DEF AnimationsMatch
  <2>1. At(p).ent \in Running /\ Frames(p)
    BY DEF Still, AnimsInv
  <2> QED BY <1>1, <2>1 DEF Frames
<1> QED BY <1>2, <1>3

-----------------------------------------------------------------------------
(* The least and greatest of numbers.                                      *)

LEMMA LeastIs ==
    ASSUME NEW S, S \subseteq Nat, S # {}
    PROVE  \E x \in S : \A y \in S : x <= y
<1> DEFINE T == {n \in Nat : \A k \in 0..n : k \notin S}
<1> SUFFICES ASSUME ~\E x \in S : \A y \in S : x <= y PROVE FALSE
  OBVIOUS
<1>1. 0 \in T
  <2>1. 0 \notin S
    OBVIOUS
  <2> QED BY <2>1
<1>2. ASSUME NEW n \in Nat, n \in T PROVE n + 1 \in T
  <2>1. \A k \in 0..n : k \notin S
    BY <1>2
  <2>2. ASSUME n + 1 \in S PROVE FALSE
    <3>1. \A y \in S : n + 1 <= y
      BY <2>1
    <3> QED BY <2>2, <3>1
  <2>3. \A k \in 0..(n + 1) : k \in 0..n \/ k = n + 1
    OBVIOUS
  <2> QED BY <2>1, <2>2, <2>3
<1> HIDE DEF T
<1>3. \A n \in Nat : n \in T
  BY <1>1, <1>2, SetInduction
<1>4. \A n \in Nat : n \notin S
  BY <1>3 DEF T
<1> QED BY <1>4

LEMMA MinIs ==
    ASSUME NEW S, S \subseteq Nat, S # {}
    PROVE  Min(S) \in S
BY LeastIs DEF Min

LEMMA MaxIs ==
    ASSUME NEW S, S \subseteq Nat, S # {}, IsFiniteSet(S)
    PROVE  Max(S) \in S
<1> DEFINE Above(x) == {y \in S : y > x}
           many(x) == Cardinality(Above(x))
           counts == {many(x) : x \in S}
<1>1. \A x \in S : IsFiniteSet(Above(x)) /\ many(x) \in Nat
  BY FS_Subset, FS_CardinalityType
<1>2. PICK x \in S : \A y \in S : many(x) <= many(y)
  <2>1. counts \subseteq Nat /\ counts # {}
    BY <1>1
  <2>2. \E m \in counts : \A n \in counts : m <= n
    <3> HIDE DEF counts
    <3> QED BY <2>1, LeastIs
  <2> HIDE DEF many
  <2> QED BY <2>2
<1>3. ASSUME NEW y \in S, y > x PROVE FALSE
  <2>1. /\ Above(y) \subseteq Above(x) /\ y \in Above(x) /\ y \notin Above(y)
    <3>1. x \in Nat /\ y \in Nat /\ \A z \in S : z \in Nat
      OBVIOUS
    <3>2. \A z \in S : z > y => z > x
      BY <1>3, <3>1
    <3>3. ~(y > y)
      BY <3>1
    <3> QED BY <1>3, <3>2, <3>3, Zenon
  <2>2. IsFiniteSet(Above(x)) /\ many(x) \in Nat /\ many(y) \in Nat
        /\ many(x) <= many(y)
    BY <1>1, <1>2, <1>3
  <2> DEFINE A == Above(x)
             B == Above(y)
  <2>3. IsFiniteSet(A) /\ B \in SUBSET A /\ A # B
    BY <2>1, <2>2
  <2>4. Cardinality(B) <= Cardinality(A) /\ Cardinality(A) # Cardinality(B)
    <3> HIDE DEF A, B
    <3> QED BY <2>3, FS_Subset
  <2>5. Cardinality(A) \in Nat /\ Cardinality(B) \in Nat
        /\ Cardinality(A) <= Cardinality(B)
    BY <2>2
  <2> HIDE DEF A, B
  <2> QED BY <2>4, <2>5
<1>4. \A y \in S : x >= y
  BY <1>3
<1> QED BY <1>4 DEF Max

-----------------------------------------------------------------------------
(* The box of text.                                                        *)

(* How many characters come after the first c ones, up to the k-th. *)
Between(s, c, k) == Characters(SubSeq(s, c + 1, k))

LEMMA BetweenIs ==
    ASSUME NEW s \in Seq(BOOLEAN), NEW c \in 0..Len(s), NEW k \in c..Len(s)
    PROVE  /\ Between(s, c, k) \in Nat
           /\ k = c => Between(s, c, k) = 0
           /\ k < Len(s) => Between(s, c, k + 1) <= Between(s, c, k) + 1
<1>1. Len(s) \in Nat /\ \A i \in 1..Len(s) : s[i] \in BOOLEAN
  BY LenProperties, ElementOfSeq
<1> DEFINE n == Len(s)
           Seen(j) == {i \in 1..j - c : s[c + i]}
<1>2. ASSUME NEW j \in c..n
      PROVE  /\ Between(s, c, j) = Cardinality(Seen(j))
             /\ IsFiniteSet(Seen(j))
  <2> DEFINE r == SubSeq(s, c + 1, j)
  <2>1. /\ c + 1 \in Int /\ j \in Int /\ c \in Nat
        /\ \A i \in c + 1..j : s[i] \in BOOLEAN
    BY <1>1
  <2>2. /\ r \in Seq(BOOLEAN)
        /\ Len(r) = IF c + 1 <= j THEN j - (c + 1) + 1 ELSE 0
        /\ \A i \in 1..(j - (c + 1) + 1) : r[i] = s[(c + 1) + i - 1]
    BY <2>1, SubSeqProperties
  <2>3. DOMAIN r = 1..j - c
    <3>1. DOMAIN r = 1..Len(r)
      BY <2>2, LenProperties
    <3> HIDE DEF r
    <3>2. Len(r) = j - c
      BY <1>1, <2>2
    <3> QED BY <3>1, <3>2
  <2> HIDE DEF r
  <2>4. \A i \in 1..j - c : r[i] = s[c + i]
    <3>1. \A i \in 1..j - c : i \in 1..(j - (c + 1) + 1) /\ (c + 1) + i - 1 = c + i
      BY <1>1
    <3> QED BY <2>2, <3>1
  <2>5. {i \in DOMAIN r : r[i]} = Seen(j)
    BY <2>3, <2>4
  <2>6. IsFiniteSet(Seen(j))
    <3>1. IsFiniteSet(1..j - c)
      BY <2>1, FS_Interval
    <3> QED BY <3>1, FS_Subset
  <2> QED BY <2>5, <2>6 DEF Between, Characters, r
<1>3. Between(s, c, k) \in Nat
  <2> HIDE DEF Seen
  <2> QED BY <1>2, FS_CardinalityType
<1>4. ASSUME k = c PROVE Between(s, c, k) = 0
  <2>1. Seen(k) = {}
    BY <1>1, <1>4
  <2> HIDE DEF Seen
  <2> QED BY <1>2, <2>1, FS_EmptySet
<1>5. ASSUME k < n PROVE Between(s, c, k + 1) <= Between(s, c, k) + 1
  <2> DEFINE last == (k + 1) - c
             T == Seen(k) \cup {last}
             U == Seen(k + 1)
  <2>1. k + 1 \in c..n
    BY <1>1, <1>5
  <2>2. U \subseteq T
    <3>1. \A i \in 1..(k + 1) - c : i \in 1..k - c \/ i = last
      BY <1>1
    <3> QED BY <3>1
  <2>3. /\ IsFiniteSet(T) /\ Cardinality(T) <= Cardinality(Seen(k)) + 1
        /\ Cardinality(Seen(k)) \in Nat /\ Cardinality(T) \in Nat
    <3>1. IsFiniteSet(Seen(k)) /\ Cardinality(Seen(k)) \in Nat
      BY <1>2, FS_CardinalityType
    <3> DEFINE A == Seen(k)
    <3> HIDE DEF A, last
    <3>2. /\ IsFiniteSet(A \cup {last})
          /\ Cardinality(A \cup {last}) =
                IF last \in A THEN Cardinality(A) ELSE Cardinality(A) + 1
      BY <3>1, FS_AddElement DEF A
    <3> QED BY <3>1, <3>2 DEF A
  <2>4. Cardinality(U) <= Cardinality(T) /\ Cardinality(U) \in Nat
    <3> HIDE DEF T, U
    <3> QED BY <2>2, <2>3, FS_Subset, FS_CardinalityType
  <2>5. Between(s, c, k + 1) = Cardinality(U) /\ Between(s, c, k) = Cardinality(Seen(k))
    BY <1>2, <2>1
  <2> HIDE DEF T, U, Seen
  <2> QED BY <2>3, <2>4, <2>5
<1> QED BY <1>3, <1>4, <1>5

(* No more than n characters appear. *)
LEMMA AdvancedAt ==
    ASSUME NEW s \in Seq(BOOLEAN), NEW c \in 0..Len(s), NEW n \in Nat
    PROVE  /\ Advanced(s, c, n) \in c..Len(s)
           /\ Between(s, c, Advanced(s, c, n)) \in Nat
           /\ Between(s, c, Advanced(s, c, n)) <= n
<1> DEFINE m == Len(s)
           S == {k \in c..m : k = m \/ Between(s, c, k) = n}
           a == Min(S)
<1>1. m \in Nat /\ c \in Nat /\ c <= m
  BY LenProperties
<1>2. Advanced(s, c, n) = a
  BY DEF Advanced, Between
<1>3. a \in S
  <2>1. S \subseteq Nat /\ m \in S
    BY <1>1
  <2> HIDE DEF S
  <2> QED BY <2>1, MinIs
<1>4. \A k \in S : a <= k
  <2>1. S \subseteq Nat /\ m \in S
    BY <1>1
  <2> HIDE DEF S
  <2> QED BY <2>1, LeastIs DEF Min
<1> HIDE DEF a
<1>5. \A k \in c..m : Between(s, c, k) \in Nat
  BY BetweenIs
<1>6. CASE Between(s, c, a) = n
  BY <1>2, <1>3, <1>6
<1>7. CASE Between(s, c, a) # n
  <2>1. a = m /\ \A k \in c..m : Between(s, c, k) # n
    <3>1. a = m
      BY <1>3, <1>7
    <3>2. ASSUME NEW k \in c..m, Between(s, c, k) = n PROVE FALSE
      <4>1. a <= k
        BY <1>4, <3>2
      <4>2. a = k
        BY <1>1, <3>1, <4>1
      <4> QED BY <1>7, <3>2, <4>2
    <3> QED BY <3>1, <3>2
  <2> DEFINE T == {i \in Nat : c + i <= m => Between(s, c, c + i) < n}
  <2>2. 0 \in T
    <3>1. Between(s, c, c) = 0 /\ Between(s, c, c) # n /\ c + 0 = c
      BY <1>1, <2>1, BetweenIs
    <3> QED BY <3>1
  <2>3. ASSUME NEW i \in Nat, i \in T PROVE i + 1 \in T
    <3> SUFFICES ASSUME c + (i + 1) <= m PROVE Between(s, c, c + (i + 1)) < n
      OBVIOUS
    <3> DEFINE k == c + i
    <3>1. k \in c..m /\ k + 1 \in c..m /\ k < m /\ c + (i + 1) = k + 1
      BY <1>1
    <3>2. Between(s, c, k) < n
      BY <1>1, <2>3
    <3> HIDE DEF k
    <3>3. Between(s, c, k + 1) <= Between(s, c, k) + 1
      BY <3>1, BetweenIs
    <3>4. Between(s, c, k + 1) # n
      BY <2>1, <3>1
    <3> QED BY <1>5, <3>1, <3>2, <3>3, <3>4
  <2> HIDE DEF T
  <2>4. \A i \in Nat : i \in T
    BY <2>2, <2>3, SetInduction
  <2>5. m - c \in T /\ c + (m - c) = m
    BY <1>1, <2>4
  <2>6. Between(s, c, m) < n
    BY <1>1, <2>5 DEF T
  <2> QED BY <1>1, <1>2, <1>3, <1>5, <2>1, <2>6
<1> QED BY <1>2, <1>3, <1>5, <1>6, <1>7

LEMMA CappedIs ==
    ASSUME NEW t \in Nat
    PROVE  Capped(t) \in 0..MaxTimer
<1> DEFINE S == {t, MaxTimer}
<1>1. MaxTimer \in Nat
  BY TextboxAssumption DEF TextboxAssumption
<1>2. \E x \in S : \A y \in S : x <= y
  BY <1>1
<1>3. Min(S) \in S /\ Min(S) <= MaxTimer
  BY <1>2 DEF Min
<1> HIDE DEF S
<1> DEFINE x == Min(S)
<1>4. x \in Nat
  BY <1>1, <1>3 DEF S
<1> HIDE DEF x
<1> QED BY <1>1, <1>3, <1>4 DEF Capped, S, x

(* The time that characters take is not more than what was waited for.     *)
LEMMA WaitIs ==
    ASSUME NEW v \in Nat, NEW w \in Nat, NEW l \in Nat, NEW k \in Nat,
           k <= IF v = 0 THEN l ELSE w \div v
    PROVE  w - v * k \in Nat
<1>1. CASE v = 0
  BY <1>1
<1>2. CASE v # 0
  <2> DEFINE n == w \div v
             r == w % v
  <2>1. w = n * v + r /\ n \in Nat /\ r \in Nat
    BY <1>2, DivisionOf
  <2>2. k <= n
    BY <1>2
  <2> HIDE DEF n, r
  <2>3. PICK d \in Nat : n = k + d
    <3>1. n - k \in Nat /\ n = k + (n - k)
      BY <2>1, <2>2
    <3> QED BY <3>1
  <2>4. w - v * k = d * v + r
    BY <2>1, <2>3
  <2>5. d * v \in Nat
    OBVIOUS
  <2> DEFINE e == d * v
  <2>6. w - v * k = e + r /\ e \in Nat
    BY <2>4, <2>5
  <2> HIDE DEF e
  <2> QED BY <2>1, <2>6
<1> QED BY <1>1, <1>2

LEMMA AppearTypes ==
    ASSUME TextboxTypeOK, NEW dt \in Nat, appear(dt)
    PROVE  /\ cur' \in 0..Len(str) /\ timer' \in 0..MaxTimer
           /\ tflags' = tflags \cup {"UPDATED"}
<1> DEFINE waited == timer + dt
           n == IF speed = 0 THEN Len(str) ELSE waited \div speed
           k == Between(str, cur, cur')
<1>1. /\ cur' = Advanced(str, cur, n) /\ timer' = Capped(waited - speed * k)
      /\ tflags' = tflags \cup {"UPDATED"}
  BY Zenon DEF appear, Between
<1>2. /\ str \in Seq(BOOLEAN) /\ Len(str) \in Nat /\ cur \in 0..Len(str)
      /\ timer \in Nat /\ speed \in Nat /\ waited \in Nat
  <2>1. str \in Seq(BOOLEAN)
    BY EmptySeq, TextboxAssumption DEF TextboxTypeOK, TextboxAssumption
  <2>2. Len(str) \in Nat
    BY <2>1, LenProperties
  <2> QED BY <2>1, <2>2, TextboxAssumption DEF TextboxTypeOK, TextboxAssumption
<1> HIDE DEF waited
<1>3. n \in Nat
  <2>1. CASE speed = 0
    BY <1>2, <2>1
  <2>2. CASE speed # 0
    BY <1>2, <2>2, DivisionOf
  <2> QED BY <2>1, <2>2
<1>4. cur' \in cur..Len(str) /\ k \in Nat /\ k <= n
  <2> HIDE DEF n
  <2> QED BY <1>1, <1>2, <1>3, AdvancedAt
<1> HIDE DEF k
<1>5. waited - speed * k \in Nat
  BY <1>2, <1>4, WaitIs
<1>6. timer' \in 0..MaxTimer
  <2> DEFINE t == waited - speed * k
  <2> HIDE DEF t
  <2> QED BY <1>1, <1>5, CappedIs DEF t
<1>7. cur' \in 0..Len(str)
  BY <1>2, <1>4
<1> QED BY <1>1, <1>6, <1>7

LEMMA TextTypes ==
    ASSUME TextboxTypeOK, Next
    PROVE  TextboxTypeOK'
<1> USE DEF TextboxTypeOK
<1>1. CASE UNCHANGED tvars
  BY <1>1 DEF tvars
<1>2. CASE change_textbox
  <2>1. CASE \E t \in Titles, s \in Texts : set_texts(t, s)
    <3>1. PICK t \in Titles, s \in Texts : set_texts(t, s)
      BY <2>1
    <3>2. Len(s) \in Nat /\ MaxTimer \in Nat
      <4>1. s \in Seq(BOOLEAN) /\ MaxTimer \in Nat
        BY TextboxAssumption DEF TextboxAssumption
      <4> QED BY <4>1, LenProperties
    <3> QED BY <3>1, <3>2 DEF set_texts
  <2>2. CASE set_texts(<<>>, <<>>)
    <3>1. <<>> \in Titles /\ MaxTimer \in Nat /\ Len(<<>>) = 0
      BY EmptySeq, TextboxAssumption DEF TextboxAssumption
    <3> QED BY <2>2, <3>1 DEF set_texts
  <2>3. CASE \E t \in Titles : set_title(t)
    BY <2>3 DEF set_title
  <2>4. CASE \E c \in 0..Len(str) : set_cur(c)
    BY <2>4 DEF set_cur
  <2>5. CASE \E s \in Speeds : set_speed(s)
    BY <2>5 DEF set_speed, text
  <2>6. CASE \E b \in BOOLEAN : set_monospaced(b)
    BY <2>6 DEF set_monospaced, text
  <2> HIDE DEF TextboxTypeOK
  <2> QED BY <1>1, <1>2, <2>1, <2>2, <2>3, <2>4, <2>5, <2>6 DEF change_textbox
<1>3. CASE replace_graphics
  BY <1>3 DEF replace_graphics, empty_textbox, text
<1>4. CASE move_camera
  BY <1>4 DEF move_camera, text
<1>5. CASE write_text
  <2>1. PICK dt \in Steps : update_textbox(dt, size)
    BY <1>5 DEF write_text
  <2>2. dt \in Nat /\ timer + dt \in Nat
    BY TextboxAssumption DEF TextboxAssumption
  <2>3. UNCHANGED <<title, str, speed, monospaced>>
    BY <2>1 DEF update_textbox
  <2>4. /\ cur' \in 0..Len(str) /\ timer' \in 0..MaxTimer
        /\ tflags' \subseteq {"UPDATED", "SCREEN_UPDATED"}
    <3>1. CASE finished
      <4>1. timer' = Capped(timer + dt) /\ UNCHANGED <<cur, tflags>>
        BY <2>1, <3>1 DEF update_textbox
      <4> QED BY <2>2, <4>1, CappedIs
    <3>2. CASE ~finished
      <4>1. appear(dt)
        BY <2>1, <3>2 DEF update_textbox
      <4> QED BY <2>2, <4>1, AppearTypes
    <3> QED BY <3>1, <3>2
  <2> QED BY <2>3, <2>4
<1>6. CASE write_buffers
  BY <1>6 DEF write_buffers, write_textbox, text
<1>7. \/ change_renderers \/ change_drawing \/ change_animations \/ change_lighting
      \/ change_camera \/ animate \/ collide \/ light \/ draw \/ vsync
      => UNCHANGED tvars
  BY AnimateOnly DEF change_renderers, change_drawing, change_animations,
    change_lighting, change_camera, collide, light, draw, vsync
<1> HIDE DEF TextboxTypeOK
<1> QED BY <1>1, <1>2, <1>3, <1>4, <1>5, <1>6, <1>7 DEF Next, frame

LEMMA TextTypesStart ==
    ASSUME Init PROVE TextboxTypeOK
<1>1. /\ title = <<>> /\ str = <<>> /\ cur = 0 /\ timer = 0
      /\ speed = Max(Speeds) /\ monospaced = FALSE /\ tflags = {}
  BY DEF Init, TextboxInit
<1>2. Max(Speeds) \in Speeds
  BY MaxIs, TextboxAssumption, SceneAssumption
  DEF TextboxAssumption, SceneAssumption
<1>3. <<>> \in Titles /\ MaxTimer \in Nat /\ Len(str) = 0
  BY <1>1, EmptySeq, TextboxAssumption DEF TextboxAssumption
<1>4. cur \in 0..Len(str) /\ timer \in 0..MaxTimer
  BY <1>1, <1>3
<1>5. title \in Titles /\ str \in Texts \cup {<<>>} /\ speed \in Speeds
  BY <1>1, <1>2, <1>3
<1> QED BY <1>1, <1>4, <1>5 DEF TextboxTypeOK

-----------------------------------------------------------------------------
(* The camera.                                                             *)

LEMMA CameraTypes ==
    ASSUME CameraTypeOK, Next
    PROVE  CameraTypeOK'
<1> USE DEF CameraTypeOK
<1>1. CASE UNCHANGED cvars
  BY <1>1 DEF cvars
<1>2. CASE \E z \in Sizes : set_screen(z)
  BY <1>2 DEF set_screen
<1>3. CASE change_camera
  BY <1>2, <1>3 DEF change_camera, set_pos, set_parameter, set_acceleration
<1>4. CASE replace_graphics
  <2>1. set_screen(size)
    BY <1>4 DEF replace_graphics
  <2> QED BY <1>2, <2>1
<1>5. CASE move_camera
  <2>1. PICK moved \in BOOLEAN : update_camera(moved)
    BY <1>5 DEF move_camera
  <2>2. pos' \in Positions
    BY <2>1 DEF update_camera, Moved
  <2>3. velocity' \in 0..MaxVelocity
    <3>1. velocity' \in NewVelocities /\ MaxVelocity \in Nat
      BY <2>1, CameraAssumption DEF update_camera, CameraAssumption
    <3> QED BY <3>1 DEF NewVelocities
  <2>4. cflags' \subseteq {"UPDATED", "SCREEN_UPDATED"}
    BY <2>1 DEF update_camera
  <2>5. UNCHANGED <<parameter, size, acceleration>>
    BY <2>1 DEF update_camera
  <2> QED BY <2>2, <2>3, <2>4, <2>5
<1>6. CASE change_textbox
  BY <1>1, <1>2, <1>6 DEF change_textbox
<1>7. \/ change_renderers \/ change_drawing \/ change_animations \/ change_lighting
      \/ animate \/ collide \/ write_text \/ write_buffers \/ light \/ draw \/ vsync
      => UNCHANGED cvars
  BY AnimateOnly DEF change_renderers, change_drawing, change_animations,
    change_lighting, collide, write_text, write_buffers, light, draw, vsync
<1> HIDE DEF CameraTypeOK
<1> QED BY <1>1, <1>3, <1>4, <1>5, <1>6, <1>7 DEF Next, frame

LEMMA CameraTypesStart ==
    ASSUME Init PROVE CameraTypeOK
<1>1. Positions # {} /\ Parameters # {} /\ Sizes # {} /\ MaxVelocity \in Nat
  BY CameraAssumption, SceneAssumption DEF CameraAssumption, SceneAssumption
<1>2. /\ (CHOOSE p \in Positions : TRUE) \in Positions
      /\ (CHOOSE x \in Parameters : TRUE) \in Parameters
      /\ (CHOOSE z \in Sizes : TRUE) \in Sizes
  BY <1>1
<1>3. /\ pos = CHOOSE p \in Positions : TRUE
      /\ parameter = CHOOSE x \in Parameters : TRUE
      /\ size = CHOOSE z \in Sizes : TRUE
  BY DEF Init, CameraInit
<1>4. pos \in Positions /\ parameter \in Parameters /\ size \in Sizes
  BY <1>2, <1>3, Zenon
<1>5. /\ acceleration = FALSE /\ velocity = 0
      /\ cflags = {"SCREEN_UPDATED"}
  BY DEF Init, CameraInit
<1>6. velocity \in 0..MaxVelocity
  <2>1. MaxVelocity \in Nat /\ velocity = 0
    BY <1>1, <1>5
  <2> QED BY <2>1
<1>7. acceleration \in BOOLEAN /\ cflags \subseteq {"UPDATED", "SCREEN_UPDATED"}
  BY <1>5
<1> QED BY <1>4, <1>6, <1>7 DEF CameraTypeOK

-----------------------------------------------------------------------------
(* Lights, wherever that of the sun is moved to.                           *)

AnyLight == [name : Names, val : Values, dir : 0..Day, updated : BOOLEAN]

Lamps(s) ==
    /\ IsList(s) /\ Len(s) <= MaxLights
    /\ \A i \in 1..Len(s) : s[i] \in AnyLight

LightsTyped ==
    /\ lights = [t \in LightTypes |-> lights[t]]
    /\ \A t \in LightTypes : Lamps(lights[t])

LEMMA LampsAre ==
    ASSUME NEW s, Lamps(s)
    PROVE  /\ Len(s) \in Nat /\ DOMAIN s = 1..Len(s) /\ MaxLights \in Nat
           /\ Len(s) <= MaxLights /\ \A i \in 1..Len(s) : s[i] \in AnyLight
BY ListIs, LightingAssumption DEF Lamps, LightingAssumption

LEMMA LightRecords ==
    ASSUME NEW r \in AnyLight
    PROVE  /\ [r EXCEPT !.updated = TRUE] \in AnyLight
           /\ Unflagged(r) \in AnyLight
           /\ \A v \in Values : [r EXCEPT !.val = v, !.updated = TRUE] \in AnyLight
           /\ \A d \in 0..Day : TurnedTo(d, r) \in AnyLight
BY DEF AnyLight, Unflagged, TurnedTo

LEMMA NewLightTyped ==
    ASSUME NEW e \in Names, NEW v \in Values
    PROVE  NewLight(e, v) \in AnyLight
<1>1. Day \in 0..Day
  BY LightingAssumption DEF LightingAssumption
<1> QED BY <1>1 DEF NewLight, AnyLight

LEMMA AppendLamp ==
    ASSUME NEW s, Lamps(s), Len(s) # MaxLights, NEW r \in AnyLight
    PROVE  Lamps(Append(s, r))
<1> DEFINE a == Append(s, r)
           n == Len(s)
<1>1. n \in Nat /\ MaxLights \in Nat /\ n <= MaxLights /\ n # MaxLights
      /\ \A i \in 1..n : s[i] \in AnyLight
  BY LampsAre
<1>2. /\ IsList(a) /\ Len(a) = n + 1
      /\ \A i \in 1..n : a[i] = s[i]
      /\ a[n + 1] = r
  BY ListAppend DEF Lamps
<1> HIDE DEF a, n
<1>3. \A i \in 1..(n + 1) : i \in 1..n \/ i = n + 1
  BY <1>1
<1>4. \A i \in 1..(n + 1) : a[i] \in AnyLight
  BY <1>1, <1>2, <1>3
<1>5. Lamps(a)
  BY <1>1, <1>2, <1>4 DEF Lamps
<1> QED BY <1>5 DEF a

LEMMA FrontLamps ==
    ASSUME NEW s, Lamps(s)
    PROVE  Lamps(Front(s)) /\ DOMAIN Front(s) = 1..Len(s) - 1
<1> DEFINE f == Front(s)
           n == Len(s) - 1
<1>1. /\ Len(s) \in Nat /\ MaxLights \in Nat /\ Len(s) <= MaxLights
      /\ \A i \in 1..Len(s) : s[i] \in AnyLight
  BY LampsAre
<1>2. n \in Int /\ 1 \in Int /\ \A i \in 1..n : s[i] \in AnyLight
  BY <1>1
<1>3. /\ f \in Seq(AnyLight)
      /\ Len(f) = IF 1 <= n THEN n - 1 + 1 ELSE 0
      /\ \A i \in 1..(n - 1 + 1) : f[i] = s[1 + i - 1]
  BY <1>2, SubSeqProperties DEF Front
<1> HIDE DEF f, n
<1>4. DOMAIN f = 1..Len(f) /\ f = [i \in 1..Len(f) |-> f[i]] /\ Len(f) \in Nat
      /\ \A i \in 1..Len(f) : f[i] \in AnyLight
  BY <1>3, LenProperties, ElementOfSeq
<1>5. IsList(f)
  BY <1>4, IsListOf
<1>6. 1..Len(f) = 1..n /\ Len(f) <= MaxLights
  <2>1. n \in Int /\ n <= MaxLights /\ MaxLights \in Nat
    BY <1>1 DEF n
  <2> QED BY <1>3, <2>1
<1> QED BY <1>4, <1>5, <1>6 DEF Lamps, f, n

LEMMA RemovedLamps ==
    ASSUME NEW s, Lamps(s), NEW i \in Nat
    PROVE  Lamps(RemovedLight(s, i))
<1> DEFINE f == Front(s)
           n == Len(s)
           l == [Last(s) EXCEPT !.updated = TRUE]
           a == [f EXCEPT ![i] = l]
<1>1. /\ n \in Nat /\ Lamps(f) /\ DOMAIN f = 1..n - 1 /\ f = [j \in 1..n - 1 |-> f[j]]
  <2>1. n \in Nat /\ Lamps(f) /\ DOMAIN f = 1..n - 1
    BY LampsAre, FrontLamps
  <2>2. f = [j \in DOMAIN f |-> f[j]]
    <3> HIDE DEF f
    <3> QED BY <2>1, ListIs DEF Lamps
  <2> QED BY <2>1, <2>2
<1>2. RemovedLight(s, i) = IF i = n THEN f ELSE a
  BY DEF RemovedLight
<1>3. CASE i \notin 1..n - 1
  <2> HIDE DEF f, n, l
  <2>1. a = [j \in 1..n - 1 |-> f[j]]
    BY <1>1, <1>3
  <2> QED BY <1>1, <1>2, <2>1
<1>4. CASE i \in 1..n - 1
  <2>1. l \in AnyLight
    <3>1. Last(s) \in AnyLight
      <4>1. n \in 1..n
        BY <1>1, <1>4
      <4> QED BY <4>1, LampsAre DEF Last
    <3> QED BY <3>1, LightRecords
  <2>2. Len(f) = n - 1 /\ n - 1 \in Nat
    <3> HIDE DEF f, n
    <3>1. n - 1 \in Nat
      BY <1>1, <1>4
    <3> QED BY <1>1, <3>1, IsListOf
  <2>3. \A j \in 1..n - 1 : f[j] \in AnyLight
    <3> HIDE DEF f, n
    <3> QED BY <1>1, <2>2 DEF Lamps
  <2> HIDE DEF f, n, l
  <2>4. DOMAIN a = 1..n - 1 /\ a = [j \in 1..n - 1 |-> a[j]]
    BY <1>1
  <2>5. \A j \in 1..n - 1 : a[j] \in AnyLight
    BY <1>1, <2>1, <2>3
  <2> HIDE DEF a
  <2>6. IsList(a) /\ Len(a) = n - 1
    BY <2>2, <2>4, IsListOf
  <2>7. Lamps(a)
    BY <1>1, <2>2, <2>5, <2>6 DEF Lamps
  <2>8. i # n
    BY <1>1, <1>4
  <2> QED BY <1>2, <2>7, <2>8
<1> QED BY <1>3, <1>4

LEMMA OneTyped ==
    ASSUME LightsTyped, NEW t \in LightTypes, NEW a, Lamps(a),
           lights' = [lights EXCEPT ![t] = a]
    PROVE  LightsTyped'
<1>1. /\ lights'[t] = a
      /\ \A u \in LightTypes \ {t} : lights'[u] = lights[u]
      /\ lights' = [u \in LightTypes |-> lights'[u]]
  BY DEF LightsTyped
<1> QED BY <1>1 DEF LightsTyped

LEMMA TurnedTyped ==
    ASSUME LightsTyped, NEW d \in 0..Day, lights' = Turned(d)
    PROVE  LightsTyped'
<1>1. ASSUME NEW t \in LightTypes
      PROVE  Lamps(lights'[t])
  <2> DEFINE s == lights[t]
             n == Len(s)
             a == lights'[t]
  <2>1. /\ n \in Nat /\ n <= MaxLights /\ DOMAIN s = 1..n
        /\ \A i \in 1..n : s[i] \in AnyLight
    BY LampsAre DEF LightsTyped
  <2>2. a = [i \in DOMAIN s |->
            IF t = "dir" /\ i = sun_light THEN TurnedTo(d, s[i])
            ELSE Unflagged(s[i])]
    BY TurnedIs
  <2> HIDE DEF s, n, a
  <2>3. /\ DOMAIN a = 1..n /\ a = [i \in 1..n |-> a[i]]
        /\ \A i \in 1..n :
            a[i] = IF t = "dir" /\ i = sun_light THEN TurnedTo(d, s[i])
                   ELSE Unflagged(s[i])
    BY <2>1, <2>2
  <2>4. ASSUME NEW i \in 1..n PROVE a[i] \in AnyLight
    <3>1. TurnedTo(d, s[i]) \in AnyLight /\ Unflagged(s[i]) \in AnyLight
      BY <2>1, LightRecords
    <3> QED BY <2>3, <3>1
  <2>5. IsList(a) /\ Len(a) = n
    BY <2>1, <2>3, IsListOf
  <2> QED BY <2>1, <2>4, <2>5 DEF a, Lamps
<1>2. lights' = [t \in LightTypes |-> lights'[t]]
  <2> DEFINE f == lights'
  <2>1. f = [t \in LightTypes |-> [i \in DOMAIN lights[t] |->
                IF t = "dir" /\ i = sun_light THEN TurnedTo(d, lights[t][i])
                ELSE Unflagged(lights[t][i])]]
    BY TurnedIs
  <2> HIDE DEF f
  <2>2. f = [t \in LightTypes |-> f[t]]
    BY <2>1
  <2> QED BY <2>2 DEF f
<1> QED BY <1>1, <1>2 DEF LightsTyped

(* What else lights have. *)
SunTyped ==
    /\ sun \in [time : 0..Day - 1, updated : BOOLEAN]
    /\ sun_light \in 0..MaxLights
    /\ lflags \subseteq Switches \cup Changes
    /\ ambient \in [w : Values, left : 0..1]
    /\ view_pos \in Eyes

LightingTyped == LightsTyped /\ SunTyped

LEMMA LightingIs ==
    ASSUME LightingTyped
    PROVE  LightingTypeOK
<1>1. \A t \in LightTypes :
        /\ Len(lights[t]) <= MaxLights
        /\ \A i \in DOMAIN lights[t] : lights[t][i] \in AnyLight
  BY LampsAre DEF LightingTyped, LightsTyped
<1> QED BY <1>1 DEF LightingTypeOK, AnyLight, LightingTyped, SunTyped

LEMMA LightOperations ==
    ASSUME LightingTyped, change_lighting
    PROVE  LightingTyped'
<1> USE DEF LightingTyped
<1>0. /\ MaxLights \in Nat /\ Day \in Nat \ {0} /\ "dir" \in LightTypes
      /\ \A p \in LivePointers : p.type \in LightTypes /\ p.i \in Nat
  BY LightingAssumption DEF LightingAssumption, LivePointers
<1>1. CASE \E e \in Owners, t \in LightTypes, v \in Values : add_light(e, t, v)
  <2>1. PICK e \in Owners, t \in LightTypes, v \in Values : add_light(e, t, v)
    BY <1>1
  <2>2. SunTyped'
    BY <2>1 DEF add_light, SunTyped, Changes
  <2>3. CASE UNCHANGED lights
    BY <2>2, <2>3 DEF LightsTyped
  <2>4. CASE /\ Len(lights[t]) # MaxLights
             /\ lights' = [lights EXCEPT ![t] = Append(@, NewLight(e, v))]
    <3>1. NewLight(e, v) \in AnyLight /\ Lamps(lights[t])
      BY NewLightTyped DEF Names, LightsTyped
    <3>2. Lamps(Append(lights[t], NewLight(e, v)))
      BY <2>4, <3>1, AppendLamp
    <3> QED BY <2>2, <2>4, <3>2, OneTyped
  <2> QED BY <2>1, <2>3, <2>4 DEF add_light
<1>2. CASE \E p \in LivePointers : remove_light(p)
  <2>1. PICK p \in LivePointers : remove_light(p)
    BY <1>2
  <2>2. SunTyped'
    BY <2>1 DEF remove_light, SunTyped, Changes
  <2>3. /\ lights' = [lights EXCEPT ![p.type] = RemovedLight(@, p.i)]
        /\ p.type \in LightTypes /\ p.i \in Nat
    BY <1>0, <2>1 DEF remove_light
  <2>4. Lamps(RemovedLight(lights[p.type], p.i))
    BY <2>3, RemovedLamps DEF LightsTyped
  <2> QED BY <2>2, <2>3, <2>4, OneTyped
<1>3. CASE \E p \in LivePointers, v \in Values : set_light(p, v)
  <2>1. PICK p \in LivePointers, v \in Values : set_light(p, v)
    BY <1>3
  <2> DEFINE t == p.type
             s == lights[t]
             r == [s[p.i] EXCEPT !.val = v, !.updated = TRUE]
             a == [s EXCEPT ![p.i] = r]
  <2>2. /\ t \in LightTypes /\ p.i \in DOMAIN s /\ Lamps(s)
        /\ lights' = [lights EXCEPT ![t] = a]
    BY <2>1 DEF set_light, LivePointers, LightsTyped
  <2>3. r \in AnyLight
    <3>1. s[p.i] \in AnyLight
      BY <2>2, LampsAre
    <3> QED BY <3>1, LightRecords
  <2>4. Lamps(a)
    <3> HIDE DEF s, r, t
    <3>1. /\ Len(s) \in Nat /\ DOMAIN s = 1..Len(s) /\ Len(s) <= MaxLights
          /\ \A i \in 1..Len(s) : s[i] \in AnyLight
      BY <2>2, LampsAre
    <3>2. DOMAIN a = 1..Len(s) /\ a = [i \in 1..Len(s) |-> a[i]]
          /\ \A i \in 1..Len(s) : a[i] \in AnyLight
      <4>1. s = [i \in 1..Len(s) |-> s[i]]
        BY <2>2, ListIs DEF Lamps
      <4> QED BY <2>3, <3>1, <4>1
    <3> HIDE DEF a
    <3> QED BY <3>1, <3>2, IsListOf DEF Lamps
  <2>5. SunTyped'
    BY <2>1 DEF set_light, SunTyped
  <2> HIDE DEF a
  <2> QED BY <2>2, <2>4, <2>5, OneTyped
<1>4. CASE sun_off
  <2>1. SunTyped'
    BY <1>0, <1>4 DEF sun_off, SunTyped, Changes
  <2>2. lights' = [lights EXCEPT !["dir"] = RemovedLight(@, sun_light)]
        /\ sun_light \in Nat
    BY <1>0, <1>4 DEF sun_off, SunTyped
  <2>3. Lamps(RemovedLight(lights["dir"], sun_light))
    BY <1>0, <2>2, RemovedLamps DEF LightsTyped
  <2> QED BY <1>0, <2>1, <2>2, <2>3, OneTyped
<1>5. CASE \E v \in Values : sun_on(v)
  <2>1. PICK v \in Values : sun_on(v)
    BY <1>5
  <2>2. Len(lights["dir"]) \in Nat /\ Len(lights["dir"]) <= MaxLights
        /\ Lamps(lights["dir"])
    BY <1>0, LampsAre DEF LightsTyped
  <2>3. sun' \in [time : 0..Day - 1, updated : BOOLEAN]
    <3>1. 0 \in 0..Day - 1
      BY <1>0
    <3> QED BY <2>1, <3>1 DEF sun_on
  <2>4. CASE UNCHANGED <<lights, lflags, sun_light>>
    <3>1. SunTyped'
      BY <2>1, <2>3, <2>4 DEF sun_on, SunTyped
    <3> QED BY <2>4, <3>1 DEF LightsTyped
  <2>5. CASE /\ Len(lights["dir"]) # MaxLights
             /\ lights' = [lights EXCEPT !["dir"] = Append(@, NewLight("sun", v))]
             /\ lflags' = lflags \cup {"UPDATED"}
             /\ sun_light' = Len(lights["dir"]) + 1
    <3>1. sun_light' \in 0..MaxLights
      <4> DEFINE n == Len(lights["dir"])
      <4>1. n \in Nat /\ n <= MaxLights /\ n # MaxLights /\ sun_light' = n + 1
        BY <2>2, <2>5
      <4> HIDE DEF n
      <4> QED BY <1>0, <4>1
    <3>2. SunTyped'
      BY <2>1, <2>3, <2>5, <3>1 DEF sun_on, SunTyped, Changes
    <3>3. NewLight("sun", v) \in AnyLight
      BY NewLightTyped DEF Names
    <3>4. Lamps(Append(lights["dir"], NewLight("sun", v)))
      BY <2>2, <2>5, <3>3, AppendLamp
    <3> QED BY <1>0, <2>5, <3>2, <3>4, OneTyped
  <2> QED BY <2>1, <2>4, <2>5 DEF sun_on
<1>6. CASE UNCHANGED lights /\ SunTyped'
  BY <1>6 DEF LightsTyped
<1>7. CASE \E d \in 0..Day - 1 : set_time(d)
  <2>1. SunTyped' /\ UNCHANGED lights
    BY <1>7 DEF set_time, SunTyped
  <2> QED BY <1>6, <2>1
<1>8. CASE \E s \in Switches : switch(s)
  <2>1. SunTyped' /\ UNCHANGED lights
    BY <1>8 DEF switch, SunTyped, Changes, Switches
  <2> QED BY <1>6, <2>1
<1>9. CASE \E v \in Values, n \in 0..1 : set_ambient(v, n)
  <2>1. SunTyped' /\ UNCHANGED lights
    BY <1>9 DEF set_ambient, SunTyped, Changes
  <2> QED BY <1>6, <2>1
<1> HIDE DEF LightingTyped
<1> QED BY <1>1, <1>2, <1>3, <1>4, <1>5, <1>7, <1>8, <1>9 DEF change_lighting

LEMMA LightingUpdated ==
    ASSUME LightingTyped, NEW lit \in BOOLEAN, update_lighting(lit)
    PROVE  LightingTyped'
<1>1. CASE Disabled(lit)
  <2>1. UNCHANGED lights /\ SunTyped'
    BY <1>1 DEF Disabled, LightingTyped, SunTyped
  <2> QED BY <2>1 DEF LightingTyped, LightsTyped
<1>2. CASE \E w \in Values : Enabled(lit, w)
  <2>1. PICK w \in Values : Enabled(lit, w)
    BY <1>2
  <2> DEFINE moves == sun_light # 0 /\ "UPDATE_SUN" \in lflags
             next == (sun.time + 1) % Day
             new == IF moves THEN [time |-> next, updated |-> TRUE] ELSE sun
  <2>2. /\ ambient' = [w |-> w, left |-> 0]
        /\ sun' = [new EXCEPT !.updated = @ /\ ~lit]
        /\ IF lit
           THEN /\ lflags' = lflags \ {"UPDATED", "VIEW_UPDATED"}
                /\ lights' = Turned(new.time)
           ELSE UNCHANGED <<lflags, lights>>
        /\ UNCHANGED <<sun_light, view_pos>>
    BY <2>1, Zenon DEF Enabled
  <2>3. sun \in [time : 0..Day - 1, updated : BOOLEAN] /\ Day \in Nat \ {0}
    BY LightingAssumption DEF LightingTyped, SunTyped, LightingAssumption
  <2>4. next \in 0..Day - 1
    <3> DEFINE m == sun.time + 1
    <3>1. m \in Nat
      BY <2>3
    <3> HIDE DEF m
    <3>2. m % Day \in 0..Day - 1
      BY <2>3, <3>1, DivisionOf
    <3> QED BY <3>2 DEF m
  <2> HIDE DEF next, moves
  <2>5. new \in [time : 0..Day - 1, updated : BOOLEAN]
    BY <2>3, <2>4
  <2> HIDE DEF new
  <2>6. sun' \in [time : 0..Day - 1, updated : BOOLEAN]
    BY <2>2, <2>5
  <2>7. SunTyped'
    BY <2>2, <2>6 DEF LightingTyped, SunTyped
  <2>8. LightsTyped'
    <3>1. CASE lit
      <4>1. new.time \in 0..Day
        BY <2>3, <2>5
      <4> QED BY <2>2, <3>1, <4>1, TurnedTyped DEF LightingTyped
    <3>2. CASE ~lit
      BY <2>2, <3>2 DEF LightingTyped, LightsTyped
    <3> QED BY <3>1, <3>2
  <2> QED BY <2>7, <2>8 DEF LightingTyped
<1> QED BY <1>1, <1>2 DEF update_lighting

LEMMA LightingTypes ==
    ASSUME LightingTyped, CameraTypeOK, Next
    PROVE  LightingTyped'
<1>1. CASE UNCHANGED lvars
  BY <1>1 DEF lvars, LightingTyped, LightsTyped, SunTyped
<1>2. CASE move_camera
  <2>1. PICK moved \in BOOLEAN :
            /\ update_camera(moved)
            /\ IF moved THEN update_view(pos') ELSE UNCHANGED lvars
    BY <1>2 DEF move_camera
  <2>2. CASE update_view(pos')
    <3>1. pos' \in Eyes
      BY <2>1, SceneAssumption
      DEF update_camera, Moved, CameraTypeOK, SceneAssumption
    <3>2. UNCHANGED lights /\ SunTyped'
      BY <2>2, <3>1 DEF update_view, LightingTyped, SunTyped, Changes
    <3> QED BY <3>2 DEF LightingTyped, LightsTyped
  <2> QED BY <1>1, <2>1, <2>2
<1>3. CASE light
  <2>1. PICK lit \in BOOLEAN : update_lighting(lit)
    BY <1>3 DEF light
  <2> QED BY <2>1, LightingUpdated
<1>4. \/ change_renderers \/ change_drawing \/ change_animations \/ change_textbox
      \/ change_camera \/ replace_graphics \/ animate \/ collide \/ write_text
      \/ write_buffers \/ draw \/ vsync
      => UNCHANGED lvars
  BY AnimateOnly DEF change_renderers, change_drawing, change_animations,
    change_textbox, change_camera, replace_graphics, collide, write_text,
    write_buffers, draw, vsync
<1> QED BY <1>1, <1>2, <1>3, <1>4, LightOperations DEF Next, frame

LEMMA LightingTypesStart ==
    ASSUME Init PROVE LightingTyped
<1>1. lights = [t \in LightTypes |-> <<>>]
  BY DEF Init, LightingInit
<1>2. Values # {} /\ MaxLights \in Nat /\ Day \in Nat \ {0}
  BY SceneAssumption, LightingAssumption DEF SceneAssumption, LightingAssumption
<1>3. Lamps(<<>>)
  BY <1>2, EmptyList DEF Lamps
<1>4. LightsTyped
  BY <1>1, <1>3 DEF LightsTyped
<1>5. /\ sun = [time |-> 0, updated |-> TRUE] /\ sun_light = 0
      /\ lflags = {"ENABLED", "UPDATE_SUN", "UPDATED"}
      /\ view_pos \in Eyes
  BY DEF Init, LightingInit
<1>6. ambient \in [w : Values, left : 0..1]
  <2>1. ambient = [w |-> CHOOSE v \in Values : TRUE, left |-> 0]
    BY DEF Init, LightingInit
  <2> DEFINE v0 == CHOOSE v \in Values : TRUE
  <2>2. v0 \in Values
    BY <1>2
  <2> HIDE DEF v0
  <2>3. [w |-> v0, left |-> 0] \in [w : Values, left : 0..1]
    BY <2>2
  <2> QED BY <2>1, <2>3, Zenon DEF v0
<1>7. SunTyped
  <2>1. 0 \in 0..Day - 1 /\ 0 \in 0..MaxLights
    BY <1>2
  <2> QED BY <1>5, <1>6, <2>1 DEF SunTyped, Switches, Changes
<1> QED BY <1>4, <1>7 DEF LightingTyped

-----------------------------------------------------------------------------
(* What the loop and the flags have.                                       *)

LoopTyped ==
    /\ rflags \subseteq Flags /\ debug \in BOOLEAN
    /\ pc \in Phases /\ ops \in 0..Ops /\ busy \in Parts
    /\ dirty \subseteq {"view", "lights"}

LEMMA DirtyTyped ==
    ASSUME dirty \subseteq {"view", "lights"}, Next
    PROVE  dirty' \subseteq {"view", "lights"}
<1>1. CASE UNCHANGED gvars
  BY <1>1 DEF gvars
<1>2. CASE replace_graphics
  BY <1>2 DEF replace_graphics
<1>3. CASE move_camera
  <2>1. dirty' = dirty \cup {"view"} \/ dirty' = dirty
    BY <1>3 DEF move_camera
  <2> QED BY <2>1
<1>4. CASE light
  <2>1. dirty' = dirty \cup {"lights"} \/ dirty' = dirty
    BY <1>4 DEF light
  <2> QED BY <2>1
<1>5. CASE draw
  BY <1>5 DEF draw
<1>6. \/ change_renderers \/ change_drawing \/ change_animations \/ change_textbox
      \/ change_lighting \/ change_camera \/ animate \/ collide \/ write_text
      \/ write_buffers \/ vsync
      => UNCHANGED gvars
  BY AnimateOnly DEF change_renderers, change_drawing, change_animations,
    change_textbox, change_lighting, change_camera, collide, write_text,
    write_buffers, vsync
<1> QED BY <1>1, <1>2, <1>3, <1>4, <1>5, <1>6 DEF Next, frame

LEMMA FlagsTyped ==
    ASSUME rflags \subseteq Flags, debug \in BOOLEAN, Next
    PROVE  rflags' \subseteq Flags /\ debug' \in BOOLEAN
<1> USE DEF Flags, ArrayFlags
<1>1. CASE UNCHANGED <<rflags, debug>>
  BY <1>1
<1>2. CASE change_renderers
  <2>1. CASE \E p \in Live : remove(p)
    <3>1. PICK p \in Live : remove(p)
      BY <2>1
    <3>2. p.type \in Types
      BY DEF Live, Pointers
    <3> QED BY <3>1, <3>2 DEF remove
  <2>2. CASE \E e \in Entities, t \in Types, x \in Looks : load(e, t, x)
    BY <1>1, <2>2 DEF load
  <2>3. CASE \E p \in Live, x \in Looks : set_look(p, x)
    BY <1>1, <2>3 DEF set_look
  <2> QED BY <1>2, <2>1, <2>2, <2>3 DEF change_renderers
<1>3. CASE change_drawing
  BY <1>3 DEF change_drawing, add_selection, remove_selection, set_debug,
    set_perspective, set_zsprites, Set, Reprojected
<1>4. CASE write_buffers
  BY <1>4 DEF write_buffers, update_renderers
<1>5. CASE replace_graphics
  BY <1>1, <1>5 DEF replace_graphics, set_graphics
<1>6. \/ change_animations \/ change_textbox \/ change_lighting \/ change_camera
      \/ animate \/ collide \/ move_camera \/ write_text \/ light \/ draw \/ vsync
      => UNCHANGED <<rflags, debug>>
  BY AnimateOnly DEF change_animations, change_textbox, change_lighting,
    change_camera, collide, move_camera, write_text, light, draw, vsync, rvars
<1> QED BY <1>1, <1>2, <1>3, <1>4, <1>5, <1>6 DEF Next, frame

LEMMA LoopTypes ==
    ASSUME LoopTyped, Next
    PROVE  LoopTyped'
<1>1. pc' \in Phases
  BY LoopSteps DEF Phases
<1>2. ops' \in 0..Ops /\ busy' \in Parts
  <2>1. \/ \E part \in Parts : Script(part)
        \/ UNCHANGED <<ops, busy>>
        \/ ops' = Ops /\ busy' = busy
    <3>1. \/ change_renderers \/ change_drawing \/ change_animations
          \/ change_textbox \/ change_lighting \/ change_camera
          \/ replace_graphics
          => \E part \in Parts : Script(part)
      BY DEF change_renderers, change_drawing, change_animations, change_textbox,
        change_lighting, change_camera, replace_graphics, Parts
    <3>2. animate => UNCHANGED <<ops, busy>>
      BY Zenon DEF animate, Step
    <3>3. collide \/ move_camera \/ write_text \/ write_buffers \/ light \/ draw
          => UNCHANGED <<ops, busy>>
      BY DEF collide, move_camera, write_text, write_buffers, light, draw, Step
    <3>4. vsync => ops' = Ops /\ busy' = busy
      BY DEF vsync
    <3> QED BY <3>1, <3>2, <3>3, <3>4 DEF Next, frame
  <2>2. Ops \in Nat
    BY SceneAssumption DEF SceneAssumption
  <2> QED BY <2>1, <2>2 DEF Script, LoopTyped
<1>3. rflags' \subseteq Flags /\ debug' \in BOOLEAN
  BY FlagsTyped DEF LoopTyped
<1>4. dirty' \subseteq {"view", "lights"}
  BY DirtyTyped DEF LoopTyped
<1> QED BY <1>1, <1>2, <1>3, <1>4 DEF LoopTyped

LEMMA LoopTypesStart ==
    ASSUME Init PROVE LoopTyped
<1>1. Ops \in Nat
  BY SceneAssumption DEF SceneAssumption
<1>2. /\ rflags = {} /\ debug = FALSE /\ pc = "scripts" /\ ops = Ops
      /\ busy \in Parts /\ dirty = {"view", "lights"}
  BY DEF Init, RenderersInit
<1>3. ops \in 0..Ops
  BY <1>1, <1>2
<1> QED BY <1>2, <1>3 DEF LoopTyped, Phases
-----------------------------------------------------------------------------
FollowedInv ==
    /\ RenderersInv /\ SelectionsInv /\ AnimsInv
    /\ TextboxTypeOK /\ CameraTypeOK /\ LightingTyped /\ LoopTyped

LEMMA SceneTypes ==
    ASSUME FollowedInv
    PROVE  SceneTypeOK
<1>1. RenderersTypeOK
  <2>1. ASSUME NEW t \in Types, NEW i \in DOMAIN renderers[t]
        PROVE  renderers[t][i] \in
                    [ent : Entities, look : Looks, updated : BOOLEAN]
    <3> DEFINE p == [type |-> t, i |-> i]
               r == renderers[t][i]
    <3>1. IsRenderer(r) /\ p \in Live
      BY ArraysAre DEF FollowedInv, RenderersInv
    <3>2. At(p) = r
      BY DEF At
    <3>3. r.ent \in Entities /\ r.look \in Looks
      BY <3>1, <3>2 DEF FollowedInv, AnimsInv
    <3> HIDE DEF r
    <3>4. r \in [ent : Entities, look : Looks, updated : BOOLEAN]
      <4> DEFINE e == r.ent
                 l == r.look
                 u == r.updated
      <4>1. r = [ent |-> e, look |-> l, updated |-> u] /\ u \in BOOLEAN
            /\ e \in Entities /\ l \in Looks
        BY <3>1, <3>3 DEF IsRenderer
      <4> HIDE DEF e, l, u
      <4> QED BY <4>1
    <3> QED BY <3>4 DEF r
  <2>2. \A t \in Types : Len(renderers[t]) <= MaxRenderers
    BY DEF FollowedInv, RenderersInv, Arrays
  <2>3. selections \subseteq Live
    BY DEF FollowedInv, SelectionsInv, Selected
  <2>4. selections \subseteq Pointers
    BY <2>3 DEF Live
  <2>5. chosen \subseteq Entities
    <3>1. chosen = {At(p).ent : p \in selections}
      BY DEF FollowedInv, SelectionsInv, Selected, EntitiesOf
    <3>2. \A p \in Live : At(p).ent \in Entities
      BY DEF FollowedInv, AnimsInv
    <3> QED BY <2>3, <3>1, <3>2
  <2> QED BY <2>1, <2>2, <2>4, <2>5 DEF RenderersTypeOK, FollowedInv, LoopTyped
<1>2. AnimationsTypeOK
  BY AnimsMatch DEF FollowedInv
<1>3. LightingTypeOK
  BY LightingIs DEF FollowedInv
<1> QED BY <1>1, <1>2, <1>3 DEF SceneTypeOK, FollowedInv, LoopTyped

(* When a frame has been drawn, Renderers::update() has drawn the          *)
(* selection around the entities that were chosen, although it is a set of *)
(* pointers into arrays in which Renderers::remove() moves renderers, and  *)
(* each sprite whose animation Animations::update() has updated has the    *)
(* frame of its track that is due after the time that has passed since the *)
(* track was set, however it was divided among frames of the program, and  *)
(* whichever renderers and animations were removed meanwhile.  No removal  *)
(* moves a renderer that is selected.                                      *)
THEOREM FollowedAlways ==
    ASSUME ~SelectionsMove
    PROVE  Spec => []Followed
<1>1. Init => FollowedInv
  BY RenderersStart, SelectionsStart, AnimsStart, TextTypesStart,
    CameraTypesStart, LightingTypesStart, LoopTypesStart DEF FollowedInv
<1>2. FollowedInv /\ [Next]_vars => FollowedInv'
  <2> SUFFICES ASSUME FollowedInv, [Next]_vars PROVE FollowedInv'
    OBVIOUS
  <2>1. /\ RenderersInv /\ SelectionsInv /\ AnimsInv
        /\ TextboxTypeOK /\ CameraTypeOK /\ LightingTyped /\ LoopTyped
    BY DEF FollowedInv
  <2>2. RenderersInv' /\ SelectionsInv' /\ AnimsInv'
    BY <2>1, RenderersStep, SelectionsStep, AnimsStep
  <2>3. CASE Next
    <3>1. TextboxTypeOK'
      BY <2>1, <2>3, TextTypes
    <3>2. CameraTypeOK'
      BY <2>1, <2>3, CameraTypes
    <3>3. LightingTyped'
      BY <2>1, <2>3, LightingTypes
    <3>4. LoopTyped'
      BY <2>1, <2>3, LoopTypes
    <3> QED BY <2>2, <3>1, <3>2, <3>3, <3>4 DEF FollowedInv
  <2>4. CASE UNCHANGED vars
    <3>1. UNCHANGED <<tvars, cvars, lvars, rflags, debug, pc, ops, busy, dirty>>
      BY <2>4 DEF vars, rvars, gvars
    <3>2. TextboxTypeOK'
      BY <2>1, <3>1 DEF TextboxTypeOK, tvars
    <3>3. CameraTypeOK'
      BY <2>1, <3>1 DEF CameraTypeOK, cvars
    <3>4. LightingTyped'
      BY <2>1, <3>1 DEF LightingTyped, LightsTyped, SunTyped, lvars
    <3>5. LoopTyped'
      BY <2>1, <3>1 DEF LoopTyped
    <3> QED BY <2>2, <3>2, <3>3, <3>4, <3>5 DEF FollowedInv
  <2> QED BY <2>3, <2>4
<1>3. FollowedInv => Followed
  <2> SUFFICES ASSUME FollowedInv PROVE Followed
    OBVIOUS
  <2>1. SceneTypeOK
    BY SceneTypes
  <2>2. AnimationsMatch
    BY AnimsMatch DEF FollowedInv
  <2>3. pc = "draw" => SelectionsMatch
    BY DEF FollowedInv, SelectionsInv, Ready
  <2> QED BY <2>1, <2>2, <2>3 DEF Followed
<1> QED BY <1>1, <1>2, <1>3, PTL DEF Spec
=============================================================================
