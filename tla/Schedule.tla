------------------------------ MODULE Schedule ------------------------------
(***************************************************************************)
(* The executor of deferred and recurrent tasks (src/timing/schedule.cpp), *)
(* as the main loop (src/main.cpp) drives it.                              *)
(*                                                                         *)
(* Everything runs in one thread, but not without interleaving: a task's   *)
(* body is arbitrary (usually Lua) code which may schedule and cancel      *)
(* tasks, itself included, while update() or exit() walks the very vector  *)
(* those calls modify.  A call is therefore three kinds of steps: the      *)
(* scheduler enters it, the body changes the vectors, the body returns.    *)
(***************************************************************************)
EXTENDS Naturals, Sequences

CONSTANTS
    Tasks,       \* tasks for next(), at() and frame()
    ExitTasks,   \* tasks for atexit()
    NoTask,      \* the null function pointer of a slot
    Flags,       \* the flags tasks may have: records [hb, ign]
    MaxTime,     \* bound: last instant the clock reaches
    MaxFrame,    \* bound: last frame the counter reaches
    MaxGen       \* bound: updates modelled (the code's u32 would wrap)

ASSUME ScheduleAssumption ==
    /\ NoTask \notin Tasks \cup ExitTasks
    /\ Tasks \cap ExitTasks = {}
    /\ Flags \subseteq [hb : BOOLEAN, ign : BOOLEAN]
    /\ MaxTime \in Nat /\ MaxFrame \in Nat /\ MaxGen \in Nat

VARIABLES
    v,          \* the task vector: a sequence of slots
    cap,        \* its capacity
    atexit_v,   \* the vector of tasks to be executed by exit()
    cap_atexit, \* its capacity
    cur_gen,    \* generation of the current update
    now, frame, \* timing->now, timing->frame
    pc,         \* where the main loop is
    i,          \* slot under execution (0-based in the code, 1-based here)
    moved,      \* the body under execution reallocated the vector it runs from
    handle,     \* history: the index add() returned for each task, 0: not added
    running,    \* history: the task under execution and its flags
    dead,       \* history: tasks whose data was destroyed
    torn,       \* history: those whose destructor failed in update() or exit()
    refused,    \* history: those which remain though their cancellation failed
    called      \* history: tasks called at least once

vars == <<v, cap, atexit_v, cap_atexit, cur_gen, now, frame, pc, i, moved,
          handle, running, dead, torn, refused, called>>

slotVars == <<v, cap, atexit_v, cap_atexit>>
fates == <<dead, torn, refused>>
history == <<handle, running, fates, called>>

AllTasks == Tasks \cup ExitTasks
NoFlags == [hb |-> FALSE, ign |-> FALSE]

(* A default-constructed entry.  destroy() resets only the base part, but  *)
(* a slot without a function is never read, only overwritten as a whole.   *)
Free == [f |-> NoTask, flags |-> NoFlags, time |-> 0, frame |-> 0, gen |-> 0]

Slot == [f : AllTasks \cup {NoTask}, flags : [hb : BOOLEAN, ign : BOOLEAN],
         time : Nat, frame : Nat, gen : Nat]

Idle == {"top", "input"}                  \* outside of update() and exit()
InCall == {"call", "exit_call"}           \* a task's body has control
MayRequest == pc \in Idle \cup InCall

TypeOK ==
    /\ v \in Seq(Slot) /\ atexit_v \in Seq(Slot)
    /\ cap \in Nat /\ Len(v) <= cap
    /\ cap_atexit \in Nat /\ Len(atexit_v) <= cap_atexit
    /\ cur_gen \in Nat /\ now \in Nat /\ frame \in Nat
    /\ pc \in Idle \cup InCall \cup
        {"exec", "destroy", "failed", "exit_exec", "exit_destroy", "done", "aborted"}
    /\ i \in Nat /\ moved \in BOOLEAN
    /\ handle \in [AllTasks -> Nat]
    /\ running \in [f : AllTasks \cup {NoTask},
                    flags : [hb : BOOLEAN, ign : BOOLEAN]]
    /\ dead \subseteq AllTasks /\ torn \subseteq AllTasks
    /\ refused \subseteq AllTasks /\ called \subseteq AllTasks

Nobody == [f |-> NoTask, flags |-> NoFlags]

Init ==
    /\ v = <<>> /\ atexit_v = <<>> /\ cap = 0 /\ cap_atexit = 0
    /\ cur_gen = 0 /\ now = 0 /\ frame = 0
    /\ pc = "top" /\ i = 0 /\ moved = FALSE
    /\ handle = [t \in AllTasks |-> 0]
    /\ running = Nobody
    /\ dead = {} /\ torn = {} /\ refused = {} /\ called = {}

-----------------------------------------------------------------------------
(* The vectors.                                                            *)

Active(x) == x.f # NoTask

(* Mutant: the generation is not compared. *)
DueSameUpdate(x) == Active(x) /\ x.time <= now /\ x.frame <= frame

(* TimeEntry::active. *)
Due(x) ==
    /\ Active(x)
    /\ x.gen < cur_gen
    /\ x.time <= now
    /\ x.frame <= frame

(* k is the index of the first slot add() can use in s. *)
IsFirstFree(s, k) ==
    /\ k \in 1..(Len(s) + 1)
    /\ k <= Len(s) => ~Active(s[k])
    /\ \A j \in 1..(k - 1) : Active(s[j])

Put(s, k, e) == [j \in 1..(IF k > Len(s) THEN k ELSE Len(s)) |->
                    IF j = k THEN e ELSE s[j]]

(* std::vector doubles its storage, and moves, when it is full. *)
Grows(s, c, k) == k > Len(s) /\ Len(s) = c
Grown(s, c, k) == IF Grows(s, c, k) THEN (IF c = 0 THEN 1 ELSE 2 * c) ELSE c

(* Mutants: the rest of the vector goes whatever it holds; the entry is not *)
(* reset.                                                                  *)
CancelledDropsRest(s, k) == SubSeq(s, 1, k - 1)
CancelledNoReset(s, k) == s

(* cancel_common(), when the entry was destroyed: slots k.. are dropped if  *)
(* no active one remains there.                                            *)
Cancelled(s, k) ==
    IF \A j \in (k + 1)..Len(s) : ~Active(s[j])
    THEN SubSeq(s, 1, k - 1)
    ELSE Put(s, k, Free)

(* Mutant: base() of the reverse iterator is the last active slot itself. *)
IsTrimmedShort(s, n) ==
    /\ n \in 0..Len(s)
    /\ n > 0 => n < Len(s) /\ Active(s[n + 1])
    /\ \A j \in (n + 2)..Len(s) : ~Active(s[j])

(* The end of update(): n slots remain once trailing inactive ones go. *)
IsTrimmed(s, n) ==
    /\ n \in 0..Len(s)
    /\ n > 0 => Active(s[n])
    /\ \A j \in (n + 1)..Len(s) : ~Active(s[j])

-----------------------------------------------------------------------------
(* Requests: from input callbacks, the socket, and the bodies of tasks.    *)

AddEntry(t, fl, tm, fr) ==
    /\ MayRequest
    /\ handle[t] = 0
    /\ \E k \in 1..(Len(v) + 1) :
        /\ IsFirstFree(v, k)
        /\ v' = Put(v, k, [f |-> t, flags |-> fl, time |-> tm, frame |-> fr,
                           gen |-> cur_gen])
        /\ cap' = Grown(v, cap, k)
        /\ moved' = (moved \/ (pc = "call" /\ Grows(v, cap, k)))
        /\ handle' = [handle EXCEPT ![t] = k]
    /\ UNCHANGED <<atexit_v, cap_atexit, cur_gen, now, frame, pc, i, running,
                   fates, called>>

Next_(t) == \E fl \in Flags : AddEntry(t, fl, 0, 0)
At(t) == \E fl \in Flags, tm \in (now + 1)..MaxTime : AddEntry(t, fl, tm, 0)
Frame(t) ==
    \E fl \in Flags, fr \in (frame + 1)..MaxFrame : AddEntry(t, fl, 0, fr)

Atexit(t) ==
    /\ MayRequest
    /\ handle[t] = 0
    /\ \E fl \in Flags, k \in 1..(Len(atexit_v) + 1) :
        /\ IsFirstFree(atexit_v, k)
        /\ atexit_v' = Put(atexit_v, k, [f |-> t, flags |-> fl, time |-> 0,
                                         frame |-> 0, gen |-> 0])
        /\ cap_atexit' = Grown(atexit_v, cap_atexit, k)
        /\ moved' = (moved \/
                     (pc = "exit_call" /\ Grows(atexit_v, cap_atexit, k)))
        /\ handle' = [handle EXCEPT ![t] = k]
    /\ UNCHANGED <<v, cap, cur_gen, now, frame, pc, i, running, fates, called>>

(* Those destroyed in this step no longer remain.                         *)
Gone == refused' = refused \ (dead' \cup torn')

(* cancel(): its callers must pass the index of an active slot, which the  *)
(* code asserts; the slot need not hold the task they scheduled.           *)
Cancel(k) ==
    /\ MayRequest
    /\ k \in DOMAIN v /\ Active(v[k])
    /\ v' = Cancelled(v, k)
    /\ dead' = dead \cup {v[k].f}
    /\ UNCHANGED <<cap, atexit_v, cap_atexit, cur_gen, now, frame, pc, i,
                   moved, handle, running, torn, called>>
    /\ Gone

(* The destructor fails: cancel() returns false, and the slot remains as   *)
(* it was, to be executed and destroyed again.                             *)
CancelFails(k) ==
    /\ MayRequest
    /\ k \in DOMAIN v /\ Active(v[k])
    /\ refused' = refused \cup {v[k].f}
    /\ UNCHANGED <<slotVars, cur_gen, now, frame, pc, i, moved, handle,
                   running, dead, torn, called>>

CancelAtexit(k) ==
    /\ MayRequest
    /\ k \in DOMAIN atexit_v /\ Active(atexit_v[k])
    /\ atexit_v' = Cancelled(atexit_v, k)
    /\ dead' = dead \cup {atexit_v[k].f}
    /\ UNCHANGED <<v, cap, cap_atexit, cur_gen, now, frame, pc, i, moved,
                   handle, running, torn, called>>
    /\ Gone

CancelAtexitFails(k) ==
    /\ MayRequest
    /\ k \in DOMAIN atexit_v /\ Active(atexit_v[k])
    /\ refused' = refused \cup {atexit_v[k].f}
    /\ UNCHANGED <<slotVars, cur_gen, now, frame, pc, i, moved, handle,
                   running, dead, torn, called>>

-----------------------------------------------------------------------------
(* Execution.                                                              *)

(* Timing::update(), at the top of the loop.  The clock and the frame      *)
(* counter stop at their bounds, where every task is due.                  *)
Tick ==
    /\ pc = "top"
    /\ cur_gen < MaxGen
    /\ pc' = "input"
    /\ frame' = IF frame < MaxFrame THEN frame + 1 ELSE frame
    /\ now' \in {now, IF now < MaxTime THEN now + 1 ELSE now}
    /\ UNCHANGED <<slotVars, cur_gen, i, moved, history>>

UpdateBegin ==
    /\ pc = "input"
    /\ cur_gen' = cur_gen + 1
    /\ pc' = "exec" /\ i' = 1
    /\ UNCHANGED <<slotVars, now, frame, moved, history>>

(* mut_iter re-reads the size of the vector before every element. *)
ExecSkip ==
    /\ pc = "exec"
    /\ i \in DOMAIN v /\ ~Due(v[i])
    /\ i' = i + 1
    /\ UNCHANGED <<slotVars, cur_gen, now, frame, pc, moved, history>>

ExecCall ==
    /\ pc = "exec"
    /\ i \in DOMAIN v /\ Due(v[i])
    /\ pc' = "call" /\ moved' = FALSE
    /\ running' = [f |-> v[i].f, flags |-> v[i].flags]
    /\ called' = called \cup {v[i].f}
    /\ UNCHANGED <<slotVars, cur_gen, now, frame, i, handle, fates>>

(* What `x.flags & IGNORE_FAILURES` may read once the body has failed.  x  *)
(* refers to element i of the vector as it was before the call: after a    *)
(* reallocation the read is of freed memory, and may yield anything; if    *)
(* the slot was cancelled, it is that of a reset (maybe reused) entry.     *)
FlagReads(s) ==
    IF moved THEN BOOLEAN
    ELSE IF i <= Len(s) THEN {s[i].flags.ign} ELSE {FALSE}

CallReturn(ok) ==
    /\ pc = "call"
    /\ \/ ok /\ pc' = "exec" /\ i' = i + 1
       \/ ~ok /\ TRUE \in FlagReads(v) /\ pc' = "exec" /\ i' = i + 1
       \/ ~ok /\ FALSE \in FlagReads(v) /\ pc' = "failed" /\ i' = 0
    /\ running' = Nobody /\ moved' = FALSE
    /\ UNCHANGED <<slotVars, cur_gen, now, frame, handle, fates, called>>

(* Mutant: the last slot is not visited. *)
ExecEndEarly ==
    /\ pc = "exec"
    /\ i + 1 > Len(v)
    /\ pc' = "destroy" /\ i' = 0
    /\ UNCHANGED <<slotVars, cur_gen, now, frame, moved, history>>

ExecEnd ==
    /\ pc = "exec"
    /\ i \notin DOMAIN v
    /\ pc' = "destroy" /\ i' = 0
    /\ UNCHANGED <<slotVars, cur_gen, now, frame, moved, history>>

(* Mutant: the heartbeat test is inverted. *)
DoomedInverted(x) == Due(x) /\ x.flags.hb

(* The loop that destroys what was executed, and the trim that follows.    *)
Doomed(x) == Due(x) /\ ~x.flags.hb

Swept(s) == [j \in DOMAIN s |-> IF Doomed(s[j]) THEN Free ELSE s[j]]

UpdateEnd ==
    /\ pc = "destroy"
    /\ \E n \in 0..Len(v) :
        /\ IsTrimmed(Swept(v), n)
        /\ v' = SubSeq(Swept(v), 1, n)
    /\ dead' = dead \cup {v[j].f : j \in {k \in DOMAIN v : Doomed(v[k])}}
    /\ pc' = "top"
    /\ UNCHANGED <<cap, atexit_v, cap_atexit, cur_gen, now, frame, i, moved,
                   handle, running, torn, called>>
    /\ Gone

(* A destructor fails: update() stops where it is.                         *)
UpdateEndFails ==
    /\ pc = "destroy"
    /\ \E k \in DOMAIN v :
        /\ Doomed(v[k])
        /\ v' = [j \in DOMAIN v |-> IF j < k THEN Swept(v)[j] ELSE v[j]]
        /\ dead' = dead \cup
            {v[j].f : j \in {m \in DOMAIN v : m < k /\ Doomed(v[m])}}
        /\ torn' = torn \cup {v[k].f}
    /\ pc' = "failed"
    /\ UNCHANGED <<cap, atexit_v, cap_atexit, cur_gen, now, frame, i, moved,
                   handle, running, called>>
    /\ Gone

(* main(): the loop ends, on a failure or by choice; exit() follows.       *)
ExitBegin ==
    /\ pc \in {"top", "failed"}
    /\ pc' = "exit_exec" /\ i' = 1
    /\ UNCHANGED <<slotVars, cur_gen, now, frame, moved, history>>

ExitSkip ==
    /\ pc = "exit_exec"
    /\ i \in DOMAIN atexit_v /\ ~Active(atexit_v[i])
    /\ i' = i + 1
    /\ UNCHANGED <<slotVars, cur_gen, now, frame, pc, moved, history>>

ExitCall ==
    /\ pc = "exit_exec"
    /\ i \in DOMAIN atexit_v /\ Active(atexit_v[i])
    /\ pc' = "exit_call" /\ moved' = FALSE
    /\ running' = [f |-> atexit_v[i].f, flags |-> atexit_v[i].flags]
    /\ called' = called \cup {atexit_v[i].f}
    /\ UNCHANGED <<slotVars, cur_gen, now, frame, i, handle, fates>>

ExitReturn(ok) ==
    /\ pc = "exit_call"
    /\ \/ ok /\ pc' = "exit_exec" /\ i' = i + 1
       \/ ~ok /\ TRUE \in FlagReads(atexit_v) /\ pc' = "exit_exec" /\ i' = i + 1
       \/ ~ok /\ FALSE \in FlagReads(atexit_v) /\ pc' = "done" /\ i' = 0
    /\ running' = Nobody /\ moved' = FALSE
    /\ UNCHANGED <<slotVars, cur_gen, now, frame, handle, fates, called>>

ExitExecEnd ==
    /\ pc = "exit_exec"
    /\ i \notin DOMAIN atexit_v
    /\ pc' = "exit_destroy" /\ i' = 0
    /\ UNCHANGED <<slotVars, cur_gen, now, frame, moved, history>>

(* exit(): k entries are destroyed, up to the first destructor that fails, *)
(* and the vector is cleared; destroy() asserts that its entry is active,  *)
(* so the program aborts where a cancelled entry remains.                  *)
ExitEnd ==
    /\ pc = "exit_destroy"
    /\ \E k \in 0..Len(atexit_v) :
        /\ \A j \in 1..k : Active(atexit_v[j])
        /\ dead' = dead \cup {atexit_v[j].f : j \in 1..k}
        /\ \/ /\ k = Len(atexit_v)
              /\ pc' = "done" /\ atexit_v' = <<>> /\ UNCHANGED torn
           \/ /\ k < Len(atexit_v) /\ Active(atexit_v[k + 1])
              /\ torn' = torn \cup {atexit_v[k + 1].f}
              /\ pc' = "done" /\ atexit_v' = <<>>
           \/ /\ k < Len(atexit_v) /\ ~Active(atexit_v[k + 1])
              /\ pc' = "aborted" /\ UNCHANGED <<atexit_v, torn>>
    /\ UNCHANGED <<v, cap, cap_atexit, cur_gen, now, frame, i, moved, handle,
                   running, called>>
    /\ Gone

Request ==
    \/ \E t \in Tasks : Next_(t) \/ At(t) \/ Frame(t)
    \/ \E t \in ExitTasks : Atexit(t)
    \/ \E k \in DOMAIN v : Cancel(k) \/ CancelFails(k)
    \/ \E k \in DOMAIN atexit_v : CancelAtexit(k) \/ CancelAtexitFails(k)

Advance ==
    \/ Tick \/ UpdateBegin \/ ExecSkip \/ ExecCall \/ ExecEnd
    \/ UpdateEnd
    \/ ExitSkip \/ ExitCall \/ ExitExecEnd \/ ExitEnd
    \/ CallReturn(TRUE) \/ CallReturn(FALSE)
    \/ ExitReturn(TRUE) \/ ExitReturn(FALSE)
    \/ UpdateEndFails
    \/ (pc = "failed" /\ ExitBegin)

Stopped == pc \in {"done", "aborted"} /\ UNCHANGED vars

Next == Request \/ Advance \/ ExitBegin \/ Stopped

(* The loop goes on by itself and the bodies of tasks return; nothing is   *)
(* assumed of requests, or of the user ever closing the program.           *)
Spec == Init /\ [][Next]_vars /\ WF_vars(Advance)

-----------------------------------------------------------------------------
(* Properties.                                                             *)

(* The index next(), at() or frame() returned is good for as long as its   *)
(* task exists: neither the reuse of slots, nor the two ways the vector is *)
(* trimmed (cancel_common(), update()), nor calls made by a task while the *)
(* vector is being walked, move a task or put two in one slot.             *)
HandlesStable ==
    /\ \A t \in Tasks : handle[t] # 0 /\ t \notin dead =>
            handle[t] \in DOMAIN v /\ v[handle[t]].f = t
    /\ \A t \in ExitTasks : handle[t] # 0 /\ t \notin dead /\ pc # "done" =>
            handle[t] \in DOMAIN atexit_v /\ atexit_v[handle[t]].f = t

(* Task t is called in this step. *)
Calls(t) == running'.f = t /\ running.f # t

(* A one-shot task is executed at most once (mut_iter, gen, and the        *)
(* destruction of what was executed at the end of update()).               *)
OneShotOnce ==
    [][\A t \in AllTasks : Calls(t) /\ ~running'.flags.hb => t \notin called]_vars

(* No task is called after its data was destroyed, by a cancellation, by   *)
(* update() or by exit(), nor after its destructor failed in one of the    *)
(* two last.  A destructor that fails in cancel() (schedule.cpp:70) is the *)
(* exception: the task remains, and is called with data already torn down. *)
NeverCalledDead ==
    [][\A t \in AllTasks : Calls(t) => t \notin dead \cup torn]_vars

(* A task whose moment has come when the frame starts is called in it,     *)
(* unless it is cancelled or a failure stops the loop.                     *)
DueRuns ==
    \A t \in Tasks :
        (/\ pc = "input"
         /\ \E k \in DOMAIN v : v[k].f = t /\ v[k].time <= now
                                         /\ v[k].frame <= frame)
        ~> (running.f = t \/ t \in dead \/ pc = "failed")

(* Flag::IGNORE_FAILURES (schedule.h:31): the failure of a task that has   *)
(* it can be tolerated, so it alone never stops the loop.                  *)
FailuresTolerated ==
    [][pc = "call" /\ running.flags.ign => pc' # "failed"]_vars

-----------------------------------------------------------------------------
(* The inductive invariant: a slot and its task know each other, and a     *)
(* task that was called is where the loop that called it has been, waiting *)
(* to be destroyed, or nowhere.                                            *)

Walking == {"exec", "call", "destroy"}
Over == {"failed", "exit_exec", "exit_call", "exit_destroy", "done", "aborted"}
Visited(k) == pc = "destroy" \/ k < i \/ (pc = "call" /\ k = i)

SlotsKnown ==
    \A k \in DOMAIN v : Active(v[k]) =>
        /\ v[k].f \in Tasks
        /\ handle[v[k].f] = k
        /\ v[k].f \notin dead
        /\ v[k].f \in torn => pc \in Over

ExitSlotsKnown ==
    \A k \in DOMAIN atexit_v : Active(atexit_v[k]) =>
        /\ atexit_v[k].f \in ExitTasks
        /\ handle[atexit_v[k].f] = k
        /\ atexit_v[k].f \in dead => pc = "aborted"
        /\ atexit_v[k].f \notin torn

HistoryKnown ==
    \A t \in dead \cup torn \cup refused \cup called : handle[t] # 0

CalledVisited ==
    \A k \in DOMAIN v :
        Active(v[k]) /\ ~v[k].flags.hb /\ v[k].f \in called =>
            pc \in Over \/ (pc \in Walking /\ Due(v[k]) /\ Visited(k))

ExitCalledVisited ==
    \A k \in DOMAIN atexit_v :
        Active(atexit_v[k]) /\ atexit_v[k].f \in called =>
            \/ pc \in {"exit_destroy", "done", "aborted"}
            \/ pc = "exit_exec" /\ k < i
            \/ pc = "exit_call" /\ k <= i

RunningKnown == running.f # NoTask <=> pc \in InCall

IInv ==
    /\ TypeOK /\ HandlesStable
    /\ SlotsKnown /\ ExitSlotsKnown /\ HistoryKnown
    /\ CalledVisited /\ ExitCalledVisited /\ RunningKnown

-----------------------------------------------------------------------------
(* What the scheduler promises, slots and indices aside. *)
Entry(x) == [f |-> x.f, hb |-> x.flags.hb, time |-> x.time, frame |-> x.frame]
DueSlots == IF pc \in Walking THEN {k \in DOMAIN v : Due(v[k])} ELSE {}

Entries(X) == {Entry(v[k]) : k \in X}

Phase ==
    CASE pc \in Idle -> "idle"
      [] pc \in Walking -> "update"
      [] OTHER -> "stopped"
Pending == Entries({k \in DOMAIN v : Active(v[k])})
Todo == Entries({k \in DueSlots : ~Visited(k)})
Ran == Entries({k \in DueSlots : Visited(k)})
Busy == IF pc = "call" THEN running.f ELSE NoTask

Abstract == INSTANCE TaskSet WITH
    phase <- Phase, pending <- Pending, todo <- Todo, ran <- Ran, busy <- Busy

AbstractSpec == Abstract!Spec
=============================================================================
