-------------------------------- MODULE Maps --------------------------------
(***************************************************************************)
(* The map that is played (src/lua/lib/map.lua): its entities, its         *)
(* function that the scheduler calls in every frame, and the settings that *)
(* it changes, which are saved before and restored when it is left         *)
(* (src/lua/lib/state.lua).                                                *)
(*                                                                         *)
(* One value stands for all settings: the map that made them.              *)
(***************************************************************************)
EXTENDS Naturals, Sequences

CONSTANTS
    Maps,           \* files of maps
    HasState,       \* maps that change settings
    HasCamera,      \* those of them that save the camera
    HasBeat,        \* maps with a heartbeat
    None,           \* no map, no task, nothing saved
    MaxLoads,       \* bound: loads that are scheduled
    InitFails       \* may the function of a map that initializes it fail?

ASSUME MapsAssumption ==
    /\ HasState \subseteq Maps /\ HasCamera \subseteq HasState
    /\ HasBeat \subseteq Maps /\ None \notin Maps
    /\ MaxLoads \in Nat /\ InitFails \in BOOLEAN

VARIABLES
    map,        \* MAP
    things,     \* maps whose entities exist
    theirs,     \* MAP.entities: those MAP will remove
    beats,      \* maps whose heartbeat is scheduled
    beat,       \* MAP.heartbeat: the one MAP will cancel
    setting,    \* who made the settings
    saved,      \* MAP.state: the settings and who the camera followed
    loads       \* the tasks of map.next()

mvars == <<map, things, theirs, beats, beat, setting, saved, loads>>

MapsTypeOK ==
    /\ {map, beat, setting, theirs} \subseteq Maps \cup {None}
    /\ {things, beats} \subseteq SUBSET Maps
    /\ loads \in Seq(Maps) /\ Len(loads) <= MaxLoads

MapsInit ==
    /\ map = None /\ things = {} /\ theirs = None
    /\ beats = {} /\ beat = None
    /\ setting = None /\ saved = None /\ loads = <<>>

(* next(): the heartbeat is cancelled now, the file is read in the next    *)
(* update of the scheduler.                                                *)
next_map(m) ==
    /\ Len(loads) < MaxLoads
    /\ beats' = beats \ {beat} /\ beat' = None
    /\ loads' = Append(loads, m)
    /\ UNCHANGED <<map, things, theirs, setting, saved>>

(* Mutant: what was saved is kept for the next map. *)
RestoredNot == setting

(* reset(): the settings after those that were saved are restored. *)
Restored == IF saved = None THEN setting ELSE saved.setting

(* Who the camera follows then, if f was followed. *)
RestoredFollow(f) ==
    IF saved = None \/ map \notin HasCamera THEN f ELSE saved.follow

(* The task of next() runs: the file can not be read. *)
load_fails ==
    /\ loads # <<>> /\ loads' = Tail(loads)
    /\ UNCHANGED <<map, things, theirs, beats, beat, setting, saved>>

(* map(): the map before is left, then the new one saves, makes its        *)
(* entities and settings and is scheduled.  f: who the camera follows.     *)
load_map(f) ==
    /\ loads # <<>> /\ loads' = Tail(loads)
    /\ LET m == Head(loads) IN
       /\ map' = m
       /\ things' = (things \ {theirs}) \cup {m} /\ theirs' = m
       /\ beats' = (beats \ {beat}) \cup (HasBeat \cap {m})
       /\ beat' = IF m \in HasBeat THEN m ELSE None
       /\ setting' = IF m \in HasState THEN m ELSE Restored
       /\ saved' = IF m \in HasState
                   THEN [setting |-> Restored, follow |-> RestoredFollow(f)]
                   ELSE None

(* map() when the new map fails in the middle, after it had saved and made *)
(* entities and settings: MAP is still the one before, that was reset.     *)
init_fails ==
    /\ InitFails
    /\ loads # <<>> /\ loads' = Tail(loads)
    /\ things' = (things \ {theirs}) \cup {Head(loads)} /\ theirs' = None
    /\ beats' = beats \ {beat} /\ beat' = None
    /\ setting' = IF Head(loads) \in HasState THEN Head(loads) ELSE Restored
    /\ saved' = None
    /\ UNCHANGED map

-----------------------------------------------------------------------------
(* Only the map that is played has entities and a heartbeat, and what it   *)
(* will restore are the settings from before the first: maps neither leave *)
(* anything behind nor pass on settings of others, however often map.next  *)
(* was called before one was loaded and whichever could not be read        *)
(* (map.lua:9-66).                                                         *)
MapKept ==
    /\ MapsTypeOK
    /\ things = {map} \ {None} /\ theirs = map
    /\ beats = {beat} \ {None} /\ beat \in {map, None}
    /\ IF map \in HasState THEN setting = map /\ saved.setting = None
       ELSE setting = None /\ saved = None
=============================================================================
