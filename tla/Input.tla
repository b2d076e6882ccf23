------------------------------- MODULE Input --------------------------------
(***************************************************************************)
(* Input (src/input): the source of a graphics back end collects events of *)
(* keys, and in the next frame each is given to the callback of the map    *)
(* and then to the first of the current groups of bindings which has the   *)
(* key and matches the event; and the bindings of src/lua/lib/input.lua    *)
(* that concern players, the camera and pauses.                            *)
(*                                                                         *)
(* Other bindings, those of ctrl_input among them, only change settings.   *)
(***************************************************************************)
EXTENDS Integers, Sequences, FiniteSets

CONSTANT MaxEvents      \* bound: events in a frame

ASSUME InputAssumption == MaxEvents \in Nat

VARIABLES
    held,       \* keys that are down when a function asks
    events,     \* GraphicsSource::events
    group,      \* Input::m_binding_group
    prev        \* paused_prev_input

ivars == <<held, events, group, prev>>

MoveKeys == {"A", "D", "S", "W"}

(* Keys of which it matters when they are released. *)
Holdable == MoveKeys \cup {"TAB", "F"}
Keys == Holdable \cup {"C", "E", "LEFT", "P", "Z"}

Event == [key : Keys, press : BOOLEAN, mods : SUBSET {"shift", "ctrl", "alt"}]
Groups == {"input", "paused", "ctrl"}

InputTypeOK ==
    /\ held \subseteq Holdable
    /\ events \in Seq(Event) /\ Len(events) <= MaxEvents
    /\ {group, prev} \subseteq Groups

(* install(). *)
InputInit ==
    /\ held = {} /\ events = <<>> /\ group = "input" /\ prev = "input"

(* The function of a key in a group, and what its selector asks for. *)
Binding(g, key, sel, f) == [group |-> g, key |-> key, sel |-> sel, f |-> f]

(* register(). *)
Bindings ==
    {Binding("input", key, {}, "move") : key \in MoveKeys} \cup
    {Binding("input", "C", {"press"}, "follow"),
     Binding("input", "E", {"press"}, "menu"),
     Binding("input", "F", {}, "action"),
     Binding("input", "LEFT", {}, "camera"),
     Binding("input", "P", {"press"}, "players"),
     Binding("input", "TAB", {}, "next"),
     Binding("paused", "P", {"press"}, "resume"),
     Binding("paused", "S", {"press", "ctrl"}, "settings"),
     Binding("ctrl", "Z", {"press", "ctrl"}, "settings")}

(* A group and those that follow it: BindingGroup::set_next(). *)
Chain(g) == IF g = "ctrl" THEN <<"ctrl">> ELSE <<g, "ctrl">>

(* BindingGroup::for_event(). *)
Matches(b, e) ==
    /\ b.key = e.key
    /\ b.sel \subseteq e.mods \cup (IF e.press THEN {"press"} ELSE {})

(* What key_callback() calls for an event, when groups are looked through  *)
(* in order.                                                               *)
Function(g, e) ==
    LET found == {b \in Bindings : Matches(b, e)}
        In(i) == {b \in found : b.group = Chain(g)[i]}
        is == {i \in DOMAIN Chain(g) : In(i) # {}}
    IN  IF is = {} THEN "none"
        ELSE (CHOOSE b \in In(CHOOSE i \in is : \A j \in is : i <= j) : TRUE).f

(* A key that is pressed or released: glfw tells GraphicsSource in the     *)
(* next poll_events(), after which get_keys() knows, too.                  *)
key_event(e) ==
    /\ Len(events) < MaxEvents
    /\ e.key \in Holdable => (e.press <=> e.key \notin held)
    /\ events' = Append(events, e)
    /\ held' = IF e.press THEN held \cup ({e.key} \cap Holdable)
               ELSE held \ {e.key}
    /\ UNCHANGED <<group, prev>>

(* pause() and resume(). *)
pause == prev' = group /\ group' = "paused" /\ UNCHANGED held
resume == group' = prev /\ UNCHANGED <<held, prev>>
=============================================================================
