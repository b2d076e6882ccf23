------------------------------ MODULE Compute ------------------------------
(***************************************************************************)
(* The OpenCL back end (src/compute/opencl.cpp) as scripts use it          *)
(* (src/compute/lua_compute.cpp): tables of objects whose indices are the  *)
(* handles, and commands that are put in an out-of-order queue, tied to    *)
(* one another by events only.                                             *)
(*                                                                         *)
(* A call of execute() puts several commands in the queue: one for each    *)
(* argument that is a vector, which copies the memory of the caller to a   *)
(* temporary buffer, a barrier for the events to wait for, and the kernel. *)
(***************************************************************************)
EXTENDS Naturals, Sequences, FiniteSets, SequencesExt, FiniteSetsExt

CONSTANTS
    Plain,          \* tables of objects that are only created and released
    MaxObjects,     \* bound: objects that exist at once
    MaxHandles,     \* bound: plain objects of each kind that have a handle
    MaxBuilt,       \* bound: programs, and kernels, that have a handle
    MaxEvents,      \* bound: commands and events that exist at once
    MaxBehind,      \* bound: commands in the queue when a script adds to it
    MaxVectors,     \* bound: arguments that are vectors
    FailLate,       \* may a command fail where others are in the queue?
    FailBuild,      \* may a program not be built?
    NullEvents,     \* may a script ask for events that are not made?
    None

ComputeAssumption ==
    /\ {MaxObjects, MaxHandles, MaxBuilt, MaxEvents, MaxBehind, MaxVectors}
        \subseteq Nat
    /\ {FailLate, FailBuild, NullEvents} \subseteq BOOLEAN
    /\ None \notin Nat /\ IsFiniteSet(Plain)
    /\ {"programs", "kernels"} \cap Plain = {}
ASSUME ComputeAssumption

VARIABLES
    tables,         \* of each kind of object: the first is never one
    live,           \* objects that were created and not released
    call,           \* the call in progress
    pending,        \* commands in the queue
    held,           \* events that were made and not released
    events          \* those that scripts know of

vars == <<tables, live, call, pending, held, events>>

Kinds == Plain \union {"programs", "kernels"}
Objects == 1..MaxObjects
Events == 1..MaxEvents
Null == 0           \* an event that was not made

Commands ==
    [id : Events, op : {"fill", "transfer", "write", "barrier", "kernel"},
     deps : SUBSET Events, needs : SUBSET Events]

Calls ==
    [pc : {"args", "kernel", "wait", "return"},
     kernel : Objects \union {None}, temporary : BOOLEAN,
     vectors : Nat, buffers : SUBSET Objects, wait : SUBSET Events,
     blocking : BOOLEAN, given : BOOLEAN, made : Seq(Events), failed : BOOLEAN]

ASSUME NoCallAssumption == None \notin Calls

Ids(commands) == {c.id : c \in commands}

\* What a command uses is kept until it is done by OpenCL, released or not.
Unused == Objects \ live
NewObject == CHOOSE o \in Unused : TRUE
Unmade == Events \ (held \union Ids(pending))
NewEvent == CHOOSE e \in Unmade : TRUE
Room(objects, es) ==
    /\ Cardinality(Unused) >= objects /\ Cardinality(Unmade) >= es
    /\ Cardinality(pending) <= MaxBehind

---------------------------------------------------------------------------
(* Tables of objects *)

insert_at_first_free(v, o) ==
    LET free == {i \in 2..Len(v) : v[i] = None}
    IN IF free # {} THEN [v EXCEPT ![Min(free)] = o] ELSE Append(v, o)

Handles(k) == {h \in 2..Len(tables[k]) : tables[k][h] # None}

Inserted(k, o) ==
    /\ Cardinality(Handles(k)) < (IF k \in Plain THEN MaxHandles ELSE MaxBuilt)
    /\ tables' = [tables EXCEPT ![k] = insert_at_first_free(@, o)]
    /\ live' = live \union {o}

Rest == UNCHANGED <<call, pending, held, events>>

\* create_buffer(), create_image(), create_sampler(), create_program().  Where
\* the build of a program fails, nothing releases it.
create(k) ==
    /\ call = None /\ Room(1, 0)
    /\ \E built \in IF k = "programs" /\ FailBuild THEN BOOLEAN ELSE {TRUE} :
           IF built THEN Inserted(k, NewObject)
           ELSE live' = live \union {NewObject} /\ UNCHANGED tables
    /\ Rest

\* create_kernel(): arguments that need events are refused, but lua_compute
\* gives the script those that it has made room for.
create_kernel ==
    /\ call = None /\ Handles("programs") # {} /\ Room(1, 0)
    /\ Inserted("kernels", NewObject)
    /\ \E made \in IF NullEvents THEN {{}, {Null}} ELSE {{}} :
           events' = events \union made
    /\ UNCHANGED <<call, pending, held>>

\* release_*()
release(k) ==
    /\ call = None
    /\ \E h \in Handles(k) :
        /\ tables' = [tables EXCEPT ![k][h] = None]
        /\ live' = live \ {tables[k][h]}
    /\ Rest

---------------------------------------------------------------------------
(* The queue (external): a command starts when the events that it waits    *)
(* for are those of commands that are done, and so are the barriers that   *)
(* precede it.                                                             *)

Barriers == {c \in pending : c.op = "barrier"}

\* deps is what the queue was told, needs is what the caller has asked for.
Enqueued(op, deps, needs) ==
    pending' = pending \union
        {[id |-> NewEvent, op |-> op,
          deps |-> (deps \cap ({NewEvent} \union Ids(pending)))
              \union Ids(Barriers),
          needs |-> needs \cap Ids(pending)]}

complete(c) ==
    /\ c.deps = {}
    /\ pending' = {[d EXCEPT !.deps = @ \ {c.id}, !.needs = @ \ {c.id}] :
           d \in pending \ {c}}
    /\ UNCHANGED <<tables, live, call, held, events>>

---------------------------------------------------------------------------
(* Calls.  The thread is in one at a time.                                 *)

Waits == {{}} \union {{e} : e \in events \ {Null}}

\* fill_buffer(): the pattern is copied, so that nothing is waited for.
fill_buffer ==
    /\ call = None /\ Room(0, 1)
    /\ Handles("buffers") # {}
    /\ \E wait \in Waits, given \in BOOLEAN :
        /\ Enqueued("fill", wait, wait)
        /\ held' = IF given THEN held \union {NewEvent} ELSE held
        /\ wait # {} /\ given => NullEvents
        /\ events' = events
               \union (IF given THEN {NewEvent} ELSE {})
               \union (IF given /\ wait # {} THEN {Null} ELSE {})
    /\ UNCHANGED <<tables, live, call>>

\* A call of execute() with its arguments: what it has created, the events of
\* what it has put in the queue, and whether they are for the caller (given).
Called(kernel, temporary, vectors, wait, blocking, given) ==
    [pc |-> "args", kernel |-> kernel, temporary |-> temporary,
     vectors |-> vectors, buffers |-> {}, wait |-> wait,
     blocking |-> blocking, given |-> given, made |-> <<>>, failed |-> FALSE]

In(pc) == call # None /\ call.pc = pc
Made == ToSet(call.made)

\* read_buffer(), write_buffer(), read_image(): no events, so they block.
transfer ==
    /\ call = None /\ Room(0, 1) /\ Handles("buffers") # {}
    /\ Enqueued("transfer", {}, {})
    /\ call' = [Called(None, FALSE, 0, {}, TRUE, FALSE)
           EXCEPT !.pc = "wait", !.made = <<NewEvent>>]
    /\ held' = held \union {NewEvent}
    /\ UNCHANGED <<tables, live, events>>

\* execute(Kernel)
execute_kernel ==
    /\ call = None /\ Room(0, 2)
    /\ \E h \in Handles("kernels"), wait \in Waits, b, given \in BOOLEAN :
           call' = Called(tables["kernels"][h], FALSE, 0, wait, b, given)
    /\ UNCHANGED <<tables, live, pending, held, events>>

\* execute(Program): a kernel of its own, and vectors only if it blocks.
execute ==
    /\ call = None /\ Handles("programs") # {}
    /\ \E n \in 0..MaxVectors, wait \in Waits, b, given \in BOOLEAN :
        /\ b \/ n = 0
        /\ Room(n + 1, n + 2)
        /\ call' = Called(NewObject, TRUE, n, wait, b, given)
    /\ live' = live \union {NewObject}
    /\ UNCHANGED <<tables, pending, held, events>>

\* The command is in the queue, and its event is the next of the call.
Follows(pc, so_far) ==
    /\ call' = [so_far EXCEPT !.pc = pc, !.made = Append(@, NewEvent)]
    /\ held' = held \union {NewEvent}

\* set_kernel_args(): a vector is written to a buffer, without waiting.
set_kernel_arg ==
    /\ In("args") /\ call.vectors > 0
    /\ live' = live \union {NewObject}
    /\ Enqueued("write", {}, {})
    /\ Follows("args", [call EXCEPT !.vectors = @ - 1,
           !.buffers = @ \union {NewObject}])
    /\ UNCHANGED <<tables, events>>

\* execute_(): the barrier stands for the events to wait for.
barrier ==
    /\ In("args") /\ call.vectors = 0 /\ call.wait # {}
    /\ Enqueued("barrier", call.wait, call.wait)
    /\ Follows("kernel", call)
    /\ UNCHANGED <<tables, live, events>>

\* A mutation of Before: only the events of the caller are thought of.
BeforeNone == {}

\* A mutation of Before: the place of the kernel itself is counted.
BeforeAndSelf == Made \union {NewEvent}

\* execute_(): the kernel waits for all the events that precede its own.
Before == Made

enqueue_kernel ==
    /\ In("kernel") \/ (In("args") /\ call.vectors = 0 /\ call.wait = {})
    /\ Enqueued("kernel", Before, Made \union call.wait)
    /\ Follows(IF call.blocking THEN "wait" ELSE "return", call)
    /\ UNCHANGED <<tables, live, events>>

\* One of the calls fails: those that follow it are not made.
fail ==
    /\ In("args") \/ In("kernel")
    /\ FailLate \/ call.made = <<>>
    /\ call' = [call EXCEPT !.pc = "return", !.failed = TRUE]
    /\ UNCHANGED <<tables, live, pending, held, events>>

\* A mutation of Awaited: the first of the events is waited for.
AwaitedFirst == Head(call.made)

Awaited == Last(call.made)

\* clWaitForEvents() for the last event, or a command that blocks.
wait_ ==
    /\ In("wait") /\ Awaited \notin Ids(pending)
    /\ call' = [call EXCEPT !.pc = "return"]
    /\ UNCHANGED <<tables, live, pending, held, events>>

\* The end of the call: ~TemporaryEvents(), ~TemporaryBuffers() and
\* ~TemporaryKernel(); lua_compute gives events to scripts if it succeeds.
return ==
    /\ In("return")
    /\ live' = live \ (call.buffers
           \union IF call.temporary THEN {call.kernel} ELSE {})
    /\ held' = IF call.given THEN held ELSE held \ Made
    /\ events' = IF call.given /\ ~call.failed THEN events \union Made
                 ELSE events
    /\ call' = None
    /\ UNCHANGED <<tables, pending>>

release_events ==
    /\ call = None
    /\ \E e \in events \ {Null} : held' = held \ {e} /\ events' = events \ {e}
    /\ UNCHANGED <<tables, live, call, pending>>

---------------------------------------------------------------------------
Init ==
    /\ tables = [k \in Kinds |-> <<None>>]
    /\ live = {} /\ call = None /\ pending = {}
    /\ held = {} /\ events = {}

script ==
    \/ \E k \in Kinds : (k # "kernels" /\ create(k)) \/ release(k)
    \/ create_kernel \/ fill_buffer \/ transfer
    \/ execute_kernel \/ execute \/ release_events

proceed ==
    set_kernel_arg \/ barrier \/ enqueue_kernel \/ fail \/ wait_ \/ return

device == \E c \in pending : complete(c)

Next == script \/ proceed \/ device

\* The thread goes on with a call, and the device with its commands.
Spec == Init /\ [][Next]_vars /\ WF_vars(proceed) /\ WF_vars(device)

---------------------------------------------------------------------------
ComputeTypeOK ==
    /\ tables \in [Kinds -> Seq(Objects \union {None})]
    /\ \A k \in Kinds : tables[k] # <<>> /\ tables[k][1] = None
    /\ live \subseteq Objects
    /\ held \subseteq Events /\ events \subseteq Events \union {Null}
    /\ pending \subseteq Commands
    /\ Cardinality(Ids(pending)) = Cardinality(pending)
    /\ call \in Calls \union {None}

Temporary ==
    IF call = None THEN {}
    ELSE call.buffers \union IF call.temporary THEN {call.kernel} ELSE {}

\* Each object that exists has one handle, or belongs to the call in progress:
\* none is lost, released twice or reached through two handles
\* (insert_at_first_free, release_*, TemporaryBuffers, TemporaryKernel).
Owned ==
    LET places == UNION {{<<k, h>> : h \in Handles(k)} : k \in Kinds}
        At(p) == tables[p[1]][p[2]]
    IN  /\ live = {At(p) : p \in places} \union Temporary
        /\ \A p \in places : At(p) \notin Temporary
        /\ \A p, q \in places : At(p) = At(q) => p = q

\* Each event that exists is known to a script or belongs to the call in
\* progress, and what scripts know are events (read_events, write_events,
\* TemporaryEvents).
EventsOwned ==
    /\ Null \notin events
    /\ held = events \union IF call = None THEN {} ELSE Made

\* The memory of the caller is not read or written after the call that it was
\* given to, and a call that blocks leaves nothing behind
\* (set_kernel_args, execute_).
MemoryValid ==
    \A c \in pending :
        /\ c.op \in {"write", "transfer"} =>
               call # None /\ call.pc # "return" /\ c.id \in Made
        /\ In("return") /\ call.blocking /\ ~call.failed => c.id \notin Made

\* What is true of objects, events and memory between and during calls.
Inv == ComputeTypeOK /\ Owned /\ EventsOwned /\ MemoryValid

\* A command is done after those it was to wait for, in a queue that orders
\* nothing: a kernel after its arguments are written and after the events that
\* the caller asked for (execute_, fill_buffer).
InOrder ==
    [][\A c \in pending :
        c.id \notin Ids(pending)' => c.needs = {}]_vars

\* A call ends: no command of it waits for one that is not in the queue before
\* it (execute_).
Returns == call # None ~> call = None
=============================================================================
