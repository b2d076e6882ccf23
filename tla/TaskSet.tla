------------------------------ MODULE TaskSet -------------------------------
(***************************************************************************)
(* What nngn::Schedule promises to those who schedule tasks (schedule.h),  *)
(* with no mention of slots, indices or generations: a set of pending      *)
(* tasks, of which an update executes exactly the ones that were due when  *)
(* it began, each once, in some order; a cancelled task is not executed;   *)
(* after the update those executed are gone unless they are heartbeats.    *)
(***************************************************************************)
EXTENDS Naturals

CONSTANTS Tasks, NoTask, MaxTime, MaxFrame

VARIABLES
    phase,    \* "idle", "update" or "stopped"
    pending,  \* tasks waiting for their moment, executing, or recurrent
    todo,     \* those still to be executed in this update
    ran,      \* those already executed in it
    busy,     \* the task under execution
    now, frame

vars == <<phase, pending, todo, ran, busy, now, frame>>

Task == [f : Tasks, hb : BOOLEAN, time : 0..MaxTime, frame : 0..MaxFrame]

Init ==
    /\ phase = "idle" /\ pending = {} /\ todo = {} /\ ran = {}
    /\ busy = NoTask /\ now = 0 /\ frame = 0

MayRequest == phase # "update" \/ busy # NoTask

Add ==
    /\ MayRequest
    /\ \E e \in Task :
        /\ \A x \in pending : x.f # e.f
        /\ pending' = pending \cup {e}
    /\ UNCHANGED <<phase, todo, ran, busy, now, frame>>

Cancel ==
    /\ MayRequest
    /\ \E e \in pending :
        /\ pending' = pending \ {e}
        /\ todo' = todo \ {e}
        /\ ran' = ran \ {e}
    /\ UNCHANGED <<phase, busy, now, frame>>

Tick ==
    /\ phase = "idle"
    /\ now' \in now..MaxTime /\ frame' \in frame..MaxFrame
    /\ UNCHANGED <<phase, pending, todo, ran, busy>>

Begin ==
    /\ phase = "idle"
    /\ phase' = "update"
    /\ todo' = {e \in pending : e.time <= now /\ e.frame <= frame}
    /\ UNCHANGED <<pending, ran, busy, now, frame>>

Call ==
    /\ phase = "update" /\ busy = NoTask
    /\ \E e \in todo :
        /\ busy' = e.f
        /\ todo' = todo \ {e}
        /\ ran' = ran \cup {e}
    /\ UNCHANGED <<phase, pending, now, frame>>

Return ==
    /\ busy # NoTask
    /\ busy' = NoTask
    /\ UNCHANGED <<phase, pending, todo, ran, now, frame>>

End ==
    /\ phase = "update" /\ busy = NoTask /\ todo = {}
    /\ phase' = "idle"
    /\ pending' = pending \ {e \in ran : ~e.hb}
    /\ ran' = {}
    /\ UNCHANGED <<todo, busy, now, frame>>

(* The program ends, by choice or by the failure of a task or of the       *)
(* destruction of one that was executed.                                   *)
Stop ==
    /\ phase # "stopped"
    /\ phase' = "stopped"
    /\ \E S \in SUBSET {e \in ran : ~e.hb} : pending' = pending \ S
    /\ todo' = {} /\ ran' = {} /\ busy' = NoTask
    /\ UNCHANGED <<now, frame>>

Next == Add \/ Cancel \/ Tick \/ Begin \/ Call \/ Return \/ End \/ Stop

Spec == Init /\ [][Next]_vars
=============================================================================
