------------------------------ MODULE MCGame -------------------------------
(* Instances of Game for TLC. *)
EXTENDS Game, TLC

CONSTANTS p1, p2, p3, m1, m2

Press(k, mods) == [key |-> k, press |-> TRUE, mods |-> mods]
Release(k, mods) == [key |-> k, press |-> FALSE, mods |-> mods]
Both(k) == {Press(k, {}), Release(k, {})}
AddKey == Press("P", {"ctrl"})
RemoveKey == Press("P", {"ctrl", "shift"})
LoadKey == Press("P", {"ctrl", "alt"})

MCActions == <<"fairy", "fire">>

(* Walking: movement with and without CTRL, other players. *)
Walking ==
    UNION {Both(k) : k \in {"A", "S", "TAB"}} \cup
        {Release("S", {"ctrl"}), AddKey, RemoveKey, Press("C", {}), Press("LEFT", {})}

Walker == [keys |-> Walking, players |-> 3, maps |-> {}]

(* And with pauses. *)
Pauser == [keys |-> Walking \cup {Press("P", {})}, players |-> 2, maps |-> {}]

(* Menus and what they attach to players. *)
Magician ==
    [keys |-> UNION {Both(k) : k \in {"F", "TAB"}} \cup
        {Press("E", {}), Press("E", {"shift"}), AddKey, RemoveKey, LoadKey},
     players |-> 2, maps |-> {}]

(* From map to map. *)
Traveller ==
    [keys |-> Both("A") \cup
        {Press("P", {}), Press("C", {}), AddKey, RemoveKey},
     players |-> 2, maps |-> {m1, m2}]

MCUsers == {Walker, Pauser, Magician, Traveller}
MCOwnKeys == m1 :> {} @@ m2 :> {"A"}
Symmetry == Permutations(Players)
=============================================================================
