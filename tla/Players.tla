------------------------------ MODULE Players -------------------------------
(***************************************************************************)
(* The players of the scripts (src/lua/lib/player.lua), their menus        *)
(* (src/lua/lib/menu.lua) and the entity that the camera follows           *)
(* (src/lua/lib/camera.lua).                                               *)
(*                                                                         *)
(* A player is a table with an entity and with references to others that   *)
(* are attached to it: lights, a fairy, a fire, those of the menu.  What   *)
(* the tables say and the entities there are must agree, and only the      *)
(* current player is moved, marked and followed by the camera.             *)
(*                                                                         *)
(* Entities created and removed together are one: <<player, role>>.  The   *)
(* faces of players and the tracks of their animations, which follow from  *)
(* their velocities, are left out.                                         *)
(***************************************************************************)
EXTENDS Integers, SequencesExt

CONSTANTS
    Players,        \* tables of players
    Actions,        \* what the items of a menu show, a sequence
    Nobody,         \* nil
    RemovesAll,     \* may a player with a fire or a menu be removed?
    LoadsNobody     \* may a preset be loaded without players?

Attached == {"light", "flashlight", "fairy", "fire", "menu"}
Entities == (Players \cup {Nobody}) \X (Attached \cup {"self"})
Directions == (-1..1) \X (-1..1)
Still == <<0, 0>>

ASSUME PlayersAssumption ==
    /\ Actions \in Seq(Attached \ {"menu"}) /\ Actions # <<>>
    /\ Nobody \notin Players
    /\ {RemovesAll, LoadsNobody} \subseteq BOOLEAN

VARIABLES
    alive,      \* entities that exist, of those the players make
    list, cur,  \* the players and the index of the current one
    data,       \* for each player, what is attached to it
    item,       \* for each player, the item of its menu
    vel,        \* for each player, the velocity of its entity
    running,    \* players that run
    following,  \* whose entity the camera follows
    selected    \* whose renderers are selected

pvars ==
    <<alive, list, cur, data, item, vel, running, following, selected>>

PlayersTypeOK ==
    /\ alive \subseteq Entities
    /\ list \in Seq(Players) /\ IsInjective(list)
    /\ cur \in 0..Len(list) /\ (cur = 0 <=> list = <<>>)
    /\ data \in [Players -> SUBSET Attached]
    /\ item \in [Players -> DOMAIN Actions]
    /\ vel \in [Players -> Directions]
    /\ {running, selected} \subseteq SUBSET Players
    /\ following \in Players \cup {Nobody}

PlayersInit ==
    /\ alive = {} /\ list = <<>> /\ cur = 0
    /\ data = [p \in Players |-> {}]
    /\ item = [p \in Players |-> 1]
    /\ vel = [p \in Players |-> Still]
    /\ running = {} /\ following = Nobody /\ selected = {}

At(i) == IF i \in DOMAIN list THEN list[i] ELSE Nobody
Current == At(cur)
Of(p, roles) == {p} \X roles

-----------------------------------------------------------------------------
(* The list of players.                                                    *)

(* add(): the first one becomes the current one and is followed. *)
add ==
    /\ \E p \in Players :
        /\ p \notin ToSet(list) /\ alive \cap Of(p, Attached) = {}
        /\ alive' = alive \cup Of(p, {"self"})
        /\ list' = Append(list, p)
        /\ following' = IF list = <<>> THEN p ELSE following
    /\ cur' = IF list = <<>> THEN 1 ELSE cur
    /\ UNCHANGED <<data, item, vel, running, selected>>

(* Mutant: the fairy is forgotten. *)
RemovedNoFairy == {"self", "light", "flashlight"}

(* The entities that remove() removes. *)
Removed == {"self", "fairy", "light", "flashlight"}

(* The camera that followed a player that is removed goes to the one that  *)
(* is in its place, if any.                                                *)
Followed(p, rest) ==
    IF following # p THEN following
    ELSE IF cur \in DOMAIN rest THEN rest[cur] ELSE Nobody

MayRemove == RemovesAll \/ data[Current] \cap {"fire", "menu"} = {}

(* remove() of the current player; a renderer that is removed is not       *)
(* selected.                                                               *)
remove ==
    LET p == Current
        rest == RemoveAt(list, cur)
    IN  /\ alive' = alive \ Of(p, Removed \cap (data[p] \cup {"self"}))
        /\ list' = rest
        /\ following' = Followed(p, rest)
        /\ cur' = IF cur > Len(rest) THEN Len(rest) ELSE cur
        /\ selected' = selected \ {p}
        /\ data' = [data EXCEPT ![p] = {}]
        /\ item' = [item EXCEPT ![p] = 1]
        /\ vel' = [vel EXCEPT ![p] = Still]
        /\ running' = running \ {p}

MayLoad == LoadsNobody \/ list # <<>>

(* load(): the renderer is replaced.  Without players, of an entity of     *)
(* nobody's.                                                               *)
load ==
    /\ alive' = alive \cup Of(Current, {"self"})
    /\ selected' = selected \ {Current}
    /\ UNCHANGED <<list, cur, data, item, vel, running, following>>

-----------------------------------------------------------------------------
(* Movement.                                                               *)

stopped(p) ==
    /\ vel' = IF p = Nobody THEN vel ELSE [vel EXCEPT ![p] = Still]
    /\ running' = running \ {p}

(* Mutant: the player before does not stop. *)
next_goes_on ==
    IF list = <<>> THEN UNCHANGED pvars
    ELSE LET i == (cur % Len(list)) + 1 IN
         /\ cur' = i
         /\ following' = IF following = Nobody THEN Nobody ELSE list[i]
         /\ selected' = selected \cup {list[i]}
         /\ UNCHANGED <<alive, list, data, item, vel, running>>

(* next(), while TAB is pressed.  shift() in utils.lua takes any number as *)
(* true: next(-1) goes forward, too.                                       *)
next ==
    IF list = <<>> THEN UNCHANGED pvars
    ELSE LET i == (cur % Len(list)) + 1 IN
         /\ stopped(Current)
         /\ cur' = i
         /\ following' = IF following = Nobody THEN Nobody ELSE list[i]
         /\ selected' = selected \cup {list[i]}
         /\ UNCHANGED <<alive, list, data, item>>

(* The direction of the keys that are down. *)
Direction(keys) ==
    LET Down(k) == IF k \in keys THEN 1 ELSE 0
    IN  <<Down("D") - Down("A"), Down("W") - Down("S")>>

Straight == {d \in Directions : (d[1] = 0) # (d[2] = 0)}

(* Whether p runs after a key was pressed or released: it may have been    *)
(* the second time in a short interval.                                    *)
Runs(p, dir, press) ==
    \/ running' = IF dir = Still THEN running \ {p} ELSE running
    \/ dir \in Straight /\ press /\ running' = running \cup {p}

(* Mutant: what is released does not count. *)
move_pressed(press, keys) ==
    IF list = <<>> \/ ~press THEN UNCHANGED pvars
    ELSE LET dir == Direction(keys) IN
         /\ vel' = [vel EXCEPT ![Current] = dir]
         /\ Runs(Current, dir, press)
         /\ UNCHANGED <<alive, list, cur, data, item, following, selected>>

(* move(), when a key was pressed or released: what counts is which of     *)
(* them are down.                                                          *)
move(press, keys) ==
    IF list = <<>> THEN UNCHANGED pvars
    ELSE LET p == Current
             dir == Direction(keys)
         IN  /\ vel' = [vel EXCEPT ![p] = dir]
             /\ Runs(p, dir, press)
             /\ UNCHANGED <<alive, list, cur, data, item, following, selected>>

(* stop(), when a part of the game begins that is not played. *)
stop ==
    /\ stopped(Current)
    /\ UNCHANGED <<alive, list, cur, data, item, selected>>

(* TAB is released: the player that is current now is not selected.        *)
unselect ==
    /\ selected' = selected \ {Current}
    /\ UNCHANGED <<alive, list, cur, data, item, vel, running, following>>

-----------------------------------------------------------------------------
(* What is attached to players.                                            *)

Attach(p, role) ==
    /\ data' = [data EXCEPT ![p] = @ \cup {role}]
    /\ alive' = alive \cup Of(p, {role})

Detach(p, role) ==
    /\ data' = [data EXCEPT ![p] = @ \ {role}]
    /\ alive' = alive \ Of(p, {role})

(* light(), flashlight() and fairy() show and hide; fire() shows, in the   *)
(* place of the one before, when the key is pressed and lets go of it when *)
(* the key is released.                                                    *)
use(p, role, press) ==
    \/ press /\ (role = "fire" \/ role \notin data[p]) /\ Attach(p, role)
    \/ press /\ role # "fire" /\ role \in data[p] /\ Detach(p, role)
    \/ ~press /\ UNCHANGED <<data, alive>>

(* action(): a menu that is shown is hidden, even when the key is released.*)
action(press) ==
    /\ LET p == Current IN
       CASE p = Nobody -> UNCHANGED <<data, alive>>
         [] p # Nobody /\ "menu" \in data[p] -> Detach(p, "menu")
         [] OTHER -> use(p, Actions[item[p]], press)
    /\ UNCHANGED <<list, cur, item, vel, running, following, selected>>

(* menu(): shows it, and when it is shown goes to the next item or, with   *)
(* SHIFT, to the one before.                                               *)
menu(shift) ==
    /\ LET p == Current
           n == Len(Actions)
       IN  CASE p = Nobody -> UNCHANGED <<data, alive, item>>
             [] p # Nobody /\ "menu" \notin data[p] ->
                    Attach(p, "menu") /\ UNCHANGED item
             [] OTHER ->
                /\ item' = [item EXCEPT ![p] =
                        ((IF shift THEN @ + n - 2 ELSE @) % n) + 1]
                /\ UNCHANGED <<data, alive>>
    /\ UNCHANGED <<list, cur, vel, running, following, selected>>

(* fairy() of a scene shows it if it is not shown. *)
show_fairy ==
    IF Current = Nobody THEN UNCHANGED pvars
    ELSE /\ Attach(Current, "fairy")
         /\ UNCHANGED <<list, cur, item, vel, running, following, selected>>

(* on_collision() of main.lua: the fire of the current player burns out. *)
burn_out ==
    /\ Current # Nobody /\ "fire" \in data[Current]
    /\ Detach(Current, "fire")
    /\ UNCHANGED <<list, cur, item, vel, running, following, selected>>

-----------------------------------------------------------------------------
(* The camera.                                                             *)

Follows(p) ==
    /\ following' = p
    /\ UNCHANGED <<alive, list, cur, data, item, vel, running, selected>>

(* toggle_follow() of camera.lua. *)
toggle_follow == Follows(IF following = Nobody THEN Current ELSE Nobody)

(* move() of camera.lua, without SHIFT: 0 is true in Lua, thus each of the *)
(* keys makes the camera stop following.                                   *)
move_camera == Follows(Nobody)

-----------------------------------------------------------------------------
(* Properties.                                                             *)

(* The entities there are are those that the tables of the players in the  *)
(* list refer to: none is left behind in the world when its player is      *)
(* removed (player.lua:78-96), hides it or shows another, and none that is *)
(* referred to is gone.                                                    *)
Owned ==
    /\ PlayersTypeOK
    /\ alive = UNION {Of(p, data[p] \cup {"self"}) : p \in ToSet(list)}

(* One player is controlled: the others stand and do not run, whatever was *)
(* held down when they were left, and who stands does not run; the camera  *)
(* follows the current player or nobody.                                   *)
OthersStand ==
    /\ \A p \in Players : vel[p] # Still => p = Current
    /\ \A p \in running : vel[p] # Still
    /\ following \in {Current, Nobody}
=============================================================================
