-------------------------------- MODULE Game --------------------------------
(***************************************************************************)
(* Who plays: keys are pressed between frames, and in the next frame each  *)
(* event is given to the functions of src/lua/lib/input.lua; then tasks of *)
(* the scheduler load maps and play the scenes of the map (the chains of   *)
(* src/lua/lib/animation.lua), and in the end collisions lead to another   *)
(* map, begin a scene or put out a fire (src/lua/main.lua).                *)
(*                                                                         *)
(* In one behavior the user has some of the keys, a number of players and  *)
(* some maps: all that is there at once would be too much.                 *)
(***************************************************************************)
EXTENDS Players, Input, Maps

CONSTANTS
    Users,      \* what may be used together: [keys, players, maps]
    OwnKeys,    \* for each map, keys of its own: key_callback
    Hasty       \* may the user pause or resume in the way of a scene?

ASSUME GameAssumption ==
    /\ Users \subseteq [keys : SUBSET Event, players : Nat, maps : SUBSET Maps]
    /\ Hasty \in BOOLEAN
    /\ None \notin [setting : Maps \cup {None}, follow : Players \cup {Nobody}]

VARIABLES
    user,       \* one of Users
    phase,      \* "user": between frames, "input", "update"
    scene,      \* how far the scene of the map was played
    kept,       \* who the camera followed before the scene
    seen,       \* history: what the current player knows of the keys
    marked      \* history: a release of TAB was not seen by players

gvars == <<user, phase, scene, kept>>
hvars == <<seen, marked>>
vars == <<pvars, ivars, mvars, gvars, hvars>>

(* The chain of animations of a scene (maps/zelda.lua). *)
Scene == <<"pause", "save", "stop", "play", "restore", "resume">>
NotYet == 0                 \* the collision that begins it did not happen
Over == Len(Scene) + 1      \* it is played once

GameTypeOK ==
    /\ InputTypeOK
    /\ user \in Users /\ phase \in {"user", "input", "update"}
    /\ scene \in NotYet..Over
    /\ kept \in Players \cup {Nobody}
    /\ seen \in {"keys", "nothing", "wrong"} /\ marked \in BOOLEAN

Init ==
    /\ PlayersInit /\ InputInit /\ MapsInit
    /\ user \in Users /\ phase = "user"
    /\ scene = NotYet /\ kept = Nobody
    /\ seen = "nothing" /\ marked = FALSE

-----------------------------------------------------------------------------
(* Between frames.                                                         *)

Playing == scene \notin {NotYet, Over}

press_or_release ==
    /\ phase = "user"
    /\ \E e \in user.keys :
        /\ key_event(e)
        /\ Playing /\ e.key = "P" => Hasty
    /\ UNCHANGED <<pvars, mvars, gvars, hvars>>

poll_events ==
    /\ phase = "user" /\ phase' = "input"
    /\ UNCHANGED <<pvars, ivars, mvars, user, scene, kept, hvars>>

-----------------------------------------------------------------------------
(* NNGN::loop(): input.update().                                           *)

(* Input::key_callback(): what is called for the first event. *)
Called ==
    LET e == Head(events) IN
    IF map # None /\ e.key \in OwnKeys[map] THEN "map" ELSE Function(group, e)

(* The function of P, which depends on the modifiers.  What the constants  *)
(* exclude is as if it was not pressed.                                    *)
players(mods) ==
    CASE mods = {"ctrl"} /\ Len(list) < user.players -> add
      [] mods = {"ctrl", "shift"} /\ list # <<>> /\ MayRemove -> remove
      [] {"ctrl", "alt"} \subseteq mods /\ MayLoad -> load
      [] OTHER -> UNCHANGED pvars

(* The functions that change players. *)
call(f, e) ==
    \/ f = "move" /\ (e.key = "S" => "ctrl" \notin e.mods) /\ move(e.press, held)
    \/ f = "move" /\ e.key = "S" /\ "ctrl" \in e.mods /\ UNCHANGED pvars
    \/ f = "follow" /\ "ctrl" \notin e.mods /\ toggle_follow
    \/ f = "follow" /\ "ctrl" \in e.mods /\ UNCHANGED pvars
    \/ f = "menu" /\ menu("shift" \in e.mods)
    \/ f = "action" /\ action(e.press)
    \/ f = "next" /\ e.press /\ next
    \/ f = "next" /\ ~e.press /\ unselect
    \/ f = "camera" /\ "shift" \notin e.mods /\ move_camera
    \/ f = "camera" /\ "shift" \in e.mods /\ UNCHANGED pvars
    \/ f = "players" /\ players(e.mods)
    \/ f \in {"none", "map", "settings", "resume"} /\ UNCHANGED pvars

(* What the player that is current then knows of the keys: those that were *)
(* down when one was pressed or released last, none, as it stands, or what *)
(* is not true, as it was not told.                                        *)
Seen(f, e) ==
    IF e.key \in MoveKeys
    THEN IF f = "move" /\ ~(e.key = "S" /\ "ctrl" \in e.mods) THEN "keys"
         ELSE IF seen = "keys" THEN "wrong" ELSE seen
    ELSE IF (f = "next" /\ e.press) \/ Current' # Current THEN "nothing"
    ELSE seen

(* Each of the events, in the order in which they were collected. *)
key_callback ==
    /\ phase = "input" /\ events # <<>>
    /\ events' = Tail(events)
    /\ LET e == Head(events)
           f == Called
       IN  /\ call(f, e)
           /\ CASE f = "players" /\ "ctrl" \notin e.mods -> pause
                [] f = "resume" -> resume
                [] OTHER -> UNCHANGED <<held, group, prev>>
           /\ seen' = IF list' = <<>> THEN "nothing" ELSE Seen(f, e)
           /\ marked' = /\ selected' # {}
                        /\ marked \/ (e.key = "TAB" /\ ~e.press /\ f # "next")
    /\ UNCHANGED <<mvars, gvars>>

-----------------------------------------------------------------------------
(* schedule.update().                                                      *)

read_map ==
    /\ phase = "input" /\ events = <<>>
    /\ \/ load_map(following) /\ Follows(RestoredFollow(following))
       \/ init_fails /\ Follows(RestoredFollow(following))
       \/ load_fails /\ UNCHANGED pvars
    /\ scene' = IF map' = map /\ beat' # None THEN scene ELSE NotYet
    /\ UNCHANGED <<ivars, user, phase, kept, hvars>>

(* The heartbeat of the map: one step of its scene. *)
play ==
    LET step == Scene[scene] IN
    /\ scene' = scene + 1
    /\ CASE step = "stop" ->
                /\ stop /\ following' = Nobody
                /\ UNCHANGED <<ivars, kept, marked>>
                /\ seen' = "nothing"
         [] step = "restore" ->
                Follows(kept) /\ kept' = Nobody /\ UNCHANGED <<ivars, hvars>>
         [] step = "save" -> kept' = following /\ UNCHANGED <<pvars, ivars, hvars>>
         [] step = "pause" -> pause /\ UNCHANGED <<events, pvars, kept, hvars>>
         [] step = "resume" -> resume /\ UNCHANGED <<events, pvars, kept, hvars>>
         [] step = "play" ->
                show_fairy /\ UNCHANGED <<ivars, kept, hvars>>

(* The rest of the update: the scene goes on, unless it waits for a text.  *)
update ==
    /\ phase = "input" /\ events = <<>> /\ loads = <<>>
    /\ phase' = "update"
    /\ \/ Playing /\ beat # None /\ play
       \/ /\ Playing /\ beat # None => Scene[scene] = "play"
          /\ UNCHANGED <<pvars, ivars, hvars, scene, kept>>
    /\ UNCHANGED <<mvars, user>>

-----------------------------------------------------------------------------
(* Collisions, and the rest of the frame.                                  *)

(* A warp: while a scene is played nobody moves into one. *)
warp ==
    /\ phase = "update" /\ scene \in {NotYet, NotYet + 1, Over}
    /\ \E m \in user.maps : next_map(m)
    /\ UNCHANGED <<pvars, ivars, gvars, hvars>>

begin_scene ==
    /\ phase = "update" /\ scene = NotYet /\ beat # None
    /\ group = "paused" => Hasty
    /\ scene' = NotYet + 1
    /\ UNCHANGED <<pvars, ivars, mvars, user, phase, kept, hvars>>

fire_hits ==
    /\ phase = "update" /\ burn_out
    /\ UNCHANGED <<ivars, mvars, gvars, hvars>>

end_frame ==
    /\ phase = "update" /\ phase' = "user"
    /\ UNCHANGED <<pvars, ivars, mvars, user, scene, kept, hvars>>

Next ==
    \/ press_or_release \/ poll_events \/ key_callback
    \/ read_map \/ update
    \/ warp \/ begin_scene \/ fire_hits \/ end_frame

Spec == Init /\ [][Next]_vars
-----------------------------------------------------------------------------
(* Properties.                                                             *)

Quiet == phase = "user" /\ events = <<>>

(* When the events of a frame were handled, the current player moves where *)
(* the keys that are down then say, and not where they said when each was  *)
(* pressed; one that was not told of any since it became the current one   *)
(* stands (player.lua:216-258).  What the user does while other bindings   *)
(* have the keys is the exception, and that ends with the next event.      *)
Steered ==
    Quiet /\ Current # Nobody =>
        /\ seen = "keys" => vel[Current] = Direction(held)
        /\ seen = "nothing" => vel[Current] = Still

(* Only the current player is controlled, followed and, while TAB is held  *)
(* down, marked; whoever was marked is not when it is released, unless     *)
(* nobody saw that (input.lua:152-161).  Nobody else plays in a scene, and *)
(* a pause can be left (input.lua:28-34).                                  *)
CurrentOnly ==
    /\ GameTypeOK /\ OthersStand
    /\ group = "paused" => prev # "paused"
    /\ Quiet /\ selected # {} /\ ~marked =>
            "TAB" \in held /\ selected = {Current}
=============================================================================
