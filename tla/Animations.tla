----------------------------- MODULE Animations -----------------------------
(***************************************************************************)
(* Animations of sprites (src/render/animation.cpp): a track is a sequence *)
(* of frames, each shown for its duration.  Time that is left when a frame *)
(* ends is that of the next one.                                           *)
(*                                                                         *)
(* A frame is known by its position: frame k of track t is Tracks[t][k].   *)
(* That the array and the pointers of entities into it agree is in World.  *)
(***************************************************************************)
EXTENDS Naturals, Sequences

CONSTANTS
    Animated,   \* entities that may have an animation
    Tracks      \* durations of the frames of each track

(* Frames may have no duration: the first is then shown for ever, others   *)
(* are skipped.                                                            *)
AnimationsAssumption ==
    /\ Tracks \in Seq(Seq(Nat) \ {<<>>}) /\ Tracks # <<>>
ASSUME AnimationsAssumption

VARIABLE
    anims   \* of each entity

(* How long the first frames of a sequence of durations take. *)
Ends(ds) ==
    LET ends[k \in 0..Len(ds)] == IF k = 0 THEN 0 ELSE ends[k - 1] + ds[k]
    IN  ends

(* The frame that is shown after some time. *)
Reached(ds, time) ==
    CHOOSE k \in DOMAIN ds :
        Ends(ds)[k] > time /\ \A j \in 1..k - 1 : Ends(ds)[j] <= time

Total(t) == Ends(Tracks[t])[Len(Tracks[t])]

(* Bound: after that `age' starts again, as does the track. *)
Cycle(t) == IF Tracks[t][1] = 0 THEN 1 ELSE Total(t)

NoAnimation == [track |-> 0, frame |-> 0, timer |-> 0, updated |-> FALSE, age |-> 0]

AnimationsTypeOK ==
    \A e \in Animated :
        \/ anims[e] = NoAnimation
        \/ /\ anims[e].track \in DOMAIN Tracks
           /\ anims[e].frame \in DOMAIN Tracks[anims[e].track]
           /\ anims[e].updated \in BOOLEAN

AnimationsInit == anims = [e \in Animated |-> NoAnimation]

Running == {e \in Animated : anims[e] # NoAnimation}

Started(t) == [track |-> t, frame |-> 1, timer |-> 0, updated |-> TRUE, age |-> 0]

-----------------------------------------------------------------------------
(* Operations of scripts.                                                  *)

load_animation(e) ==
    /\ e \notin Running
    /\ anims' = [anims EXCEPT ![e] = Started(1)]

remove_animation(e) ==
    /\ e \in Running
    /\ anims' = [anims EXCEPT ![e] = NoAnimation]

(* A track that does not exist is only logged. *)
set_track(e, t) ==
    /\ e \in Running
    /\ anims' = [anims EXCEPT ![e] = Started(t)]

-----------------------------------------------------------------------------
(* A frame of the program.                                                 *)

(* The loop of update(): frames that are over are passed, one at a time,   *)
(* and after the last one comes the first.                                 *)
Passed(track, k, timer) ==
    LET n == Len(track)
        ahead == [j \in 1..(timer + 1) * n |-> track[((k + j - 2) % n) + 1]]
        last == Reached(ahead, timer)
    IN  [frame |-> ((k + last - 2) % n) + 1,
         timer |-> timer - Ends(ahead)[last - 1]]

AdvancedBy(a, dt) ==
    LET track == Tracks[a.track]
        timer == a.timer + dt
        passed == Passed(track, a.frame, timer)
    IN  IF track[a.frame] = 0 THEN a
        ELSE IF timer < track[a.frame] THEN [a EXCEPT !.timer = timer]
        ELSE [a EXCEPT !.frame = passed.frame, !.timer = passed.timer]

(* SpriteAnimation::update(), for all *)
update_animations(dt) ==
    anims' = [e \in Animated |->
        IF e \notin Running THEN NoAnimation
        ELSE [AdvancedBy(anims[e], dt) EXCEPT
            !.updated = FALSE, !.age = (@ + dt) % Cycle(anims[e].track)]]

(* The renderer is given the frame if it is another one, or if the track   *)
(* was set.                                                                *)
Given == {e \in Running : anims[e].updated \/ anims'[e].frame # anims[e].frame}

-----------------------------------------------------------------------------
(* The frame of a track after some time *)
FrameAt(t, age) == IF Tracks[t][1] = 0 THEN 1 ELSE Reached(Tracks[t], age)

(* However long frames of the program take, what is shown is the frame     *)
(* that is due since the track was set, and of that track.                 *)
Due(e) == <<anims[e].track, FrameAt(anims[e].track, anims[e].age)>>
=============================================================================
