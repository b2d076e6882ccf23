------------------------------- MODULE Camera -------------------------------
(***************************************************************************)
(* The camera (src/math/camera.cpp, camera.h).  Scripts change parameters; *)
(* once in a frame it moves, and if anything has changed the matrices that *)
(* the graphics back end reads are computed again.                         *)
(*                                                                         *)
(* What is moved, turned and zoomed is one value, with one acceleration    *)
(* and one velocity, which has a few levels: it grows while there is an    *)
(* acceleration, and is damped, to nothing, when there is not.             *)
(***************************************************************************)
EXTENDS Naturals

CONSTANTS
    Positions,  \* bound: where it can be
    Parameters,   \* fields of view, limits, perspective...
    Sizes,      \* of the window
    MaxVelocity \* max_v

CameraAssumption == MaxVelocity \in Nat
ASSUME CameraAssumption

VARIABLES
    pos, parameter, size,
    acceleration,   \* is there one?
    velocity,
    cflags,         \* UPDATED, SCREEN_UPDATED
    matrices        \* view, proj, screen_proj

cvars == <<pos, parameter, size, acceleration, velocity, cflags, matrices>>

CameraTypeOK ==
    /\ pos \in Positions /\ parameter \in Parameters /\ size \in Sizes
    /\ acceleration \in BOOLEAN /\ velocity \in 0..MaxVelocity
    /\ cflags \subseteq {"UPDATED", "SCREEN_UPDATED"}

Matrices(p, s, z) == [pos |-> p, parameter |-> s, size |-> z]

(* The size of the window is set before the first frame. *)
CameraInit ==
    /\ pos = CHOOSE p \in Positions : TRUE
    /\ parameter = CHOOSE x \in Parameters : TRUE
    /\ size = CHOOSE z \in Sizes : TRUE
    /\ acceleration = FALSE /\ velocity = 0
    /\ cflags = {"SCREEN_UPDATED"}
    /\ matrices = Matrices(pos, parameter, size)

-----------------------------------------------------------------------------
(* set_pos(), set_rot(), set_zoom(), look_at() *)
set_pos(p) ==
    /\ pos' = p
    /\ cflags' = cflags \cup {"UPDATED"}
    /\ UNCHANGED <<parameter, size, acceleration, velocity, matrices>>

(* set_perspective(), set_ignore_limits(), set_fov_y(), set_limits() *)
set_parameter(s) ==
    /\ parameter' = s
    /\ cflags' = cflags \cup {"UPDATED"}
    /\ UNCHANGED <<pos, size, acceleration, velocity, matrices>>

set_acceleration(a) ==
    /\ acceleration' = a
    /\ UNCHANGED <<pos, parameter, size, velocity, cflags, matrices>>

(* set_screen(), a callback of the window *)
set_screen(z) ==
    /\ size' = z
    /\ cflags' = cflags \cup {"SCREEN_UPDATED"}
    /\ UNCHANGED <<pos, parameter, acceleration, velocity, matrices>>

(* By default it is not damped. *)
NewVelocities ==
    IF acceleration THEN {MaxVelocity}
    ELSE IF velocity = 0 THEN {0} ELSE {velocity, velocity - 1}

Moved == IF velocity' # 0 THEN pos' \in Positions ELSE UNCHANGED pos

(* update() *)
update_camera(moved) ==
    /\ velocity' \in NewVelocities
    /\ Moved
    /\ moved = (cflags # {} \/ velocity' # 0)
    /\ IF moved
       THEN /\ matrices' = Matrices(pos', parameter, size)
            /\ cflags' = {}
       ELSE UNCHANGED <<matrices, cflags>>
    /\ UNCHANGED <<parameter, size, acceleration>>

-----------------------------------------------------------------------------
(* After update(): the matrices are those of the parameters of now.        *)
ViewMatches(shown) == shown = Matrices(pos, parameter, size)
=============================================================================
