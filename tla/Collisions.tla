----------------------------- MODULE Collisions -----------------------------
(***************************************************************************)
(* Collision detection: Colliders::check_collisions()                      *)
(* (src/collision/collision.cpp) with either back end.  That of            *)
(* src/collision/native.cpp looks for the pairs itself.  That of           *)
(* src/collision/compute.cpp uses the command queue of                     *)
(* src/compute/opencl.cpp, which executes commands out of order: each      *)
(* frame the host enqueues, without waiting, a fill of the counters,       *)
(* uploads of the colliders and one kernel per pair of types.  It then     *)
(* waits for the results, one kernel after the other.  Only the events the *)
(* host passes along and the barriers order what the device does.          *)
(***************************************************************************)
EXTENDS Naturals, Sequences, FiniteSets, SequencesExt

CONSTANTS
    Backends,   \* those that lib/collision.lua may find: "compute", "native"
    Scenes,     \* sets of types of which there are colliders in a frame
    Pairs,      \* pairs of colliders each kernel may find to collide
    Fixed,      \* those of Pairs where both have an infinite mass
    Limits,     \* values given to set_max_collisions()
    MaxHits,    \* bound: how many pairs collide in a frame
    MaxFrames   \* bound: how many frames are checked

AllTypes == {"aabb", "bb", "sphere", "plane", "gravity"}

ASSUME CollisionsAssumption ==
    /\ Backends \subseteq {"compute", "native"}
    /\ Scenes \subseteq SUBSET AllTypes
    /\ IsFiniteSet(Pairs) /\ Fixed \subseteq Pairs
    /\ Limits \subseteq Nat \ {0}
    /\ MaxHits \in Nat /\ MaxFrames \in Nat

(* The members that are uploaded, in order, and the type of each. *)
Members == <<"aabb", "bb", "pos", "radius", "mass", "plane",
             "gravity.pos", "gravity.mass", "gravity.max_distance2">>

TypeOf(m) ==
    CASE m \in {"aabb", "bb", "plane"} -> m
      [] m \in {"pos", "radius", "mass"} -> "sphere"
      [] OTHER -> "gravity"

(* The kernels, in the order they are enqueued and their results are read. *)
Kernels == <<"aabb", "bb", "sphere", "aabb_bb", "aabb_sphere", "bb_sphere",
             "sphere_plane", "sphere_gravity">>

(* The loops of the native back end, in order.                             *)
Loops == <<"aabb", "bb", "sphere", "gravity", "aabb_bb", "aabb_sphere",
           "bb_sphere", "sphere_plane", "aabb_gravity", "bb_gravity",
           "sphere_gravity">>

(* The types of colliders that a kernel or a loop compares. *)
Operands(k) ==
    CASE k \in AllTypes -> {k}
      [] k = "aabb_bb" -> {"aabb", "bb"}
      [] k = "aabb_sphere" -> {"aabb", "sphere"}
      [] k = "bb_sphere" -> {"bb", "sphere"}
      [] k = "sphere_plane" -> {"sphere", "plane"}
      [] k = "sphere_gravity" -> {"sphere", "gravity"}
      [] k = "aabb_gravity" -> {"aabb", "gravity"}
      [] k = "bb_gravity" -> {"bb", "gravity"}

(* The members a kernel reads (src/cl/collision.cl). *)
Accesses(k) ==
    IF k = "sphere_gravity"
    THEN {"pos", "mass", "gravity.pos", "gravity.mass", "gravity.max_distance2"}
    ELSE (Operands(k) \ {"sphere"})
            \cup (IF "sphere" \in Operands(k) THEN {"pos", "radius"} ELSE {})

(* The elements of s that are in S, in order.                              *)
Among(s, S) ==
    LET kept[n \in 0..Len(s)] ==
            IF n = 0 THEN <<>>
            ELSE IF s[n] \in S THEN Append(kept[n - 1], s[n]) ELSE kept[n - 1]
    IN  kept[Len(s)]

(* What the buffers hold where the frame's kernels did not write. *)
Old == "old"

VARIABLES
    backend,    \* the one that was set before the first frame
    frame,      \* number of frames checked
    hits,       \* for each kernel of the frame, the pairs that collide
    queue,      \* commands that were enqueued and have not completed
    fresh,      \* members that hold the colliders of the frame, in the device
    counters,   \* for each kernel, how many collisions it has found
    buffer,     \* for each kernel, what its collision buffer holds
    reads,      \* kernels whose results the host has yet to read
    output,     \* collisions reported so far: pairs of kernel and pair
    capacity,   \* of the output and of each collision buffer
    updated     \* flags MAX_COLLIDERS_UPDATED, MAX_COLLISIONS_UPDATED

check_vars == <<backend, frame, hits, queue, fresh, counters, buffer, reads,
                output, capacity, updated>>

device_vars == <<queue, fresh, counters, buffer>>

KernelSet == ToSet(Kernels)

Checks == IF backend = "native" THEN Loops ELSE Kernels

(* A command is live while the buffers it writes to are the ones in use. *)
Command ==
    [op : {"fill", "copy", "barrier", "exec"},
     of : ToSet(Members) \cup KernelSet \cup {"counters"},
     frame : Nat, live : BOOLEAN]

TypeOK ==
    /\ backend \in Backends
    /\ frame \in 0..MaxFrames
    /\ DOMAIN hits \subseteq ToSet(Checks)
    /\ \A k \in DOMAIN hits : hits[k] \subseteq Pairs
    /\ queue \in Seq(Command)
    /\ fresh \subseteq ToSet(Members)
    /\ counters \in [KernelSet -> Nat]
    /\ buffer \in [KernelSet -> [1..capacity -> Pairs \cup {Old}]]
    /\ reads \in Seq(DOMAIN hits)
    /\ output \in Seq(ToSet(Checks) \X (Pairs \cup {Old}))
    /\ Len(output) <= capacity
    /\ capacity \in Limits
    /\ updated \in BOOLEAN

Unwritten(n) == [k \in KernelSet |-> [i \in 1..n |-> Old]]

(* The limits are set by lua/limits.lua before the first frame. *)
CollisionsInit ==
    /\ backend \in Backends
    /\ frame = 0 /\ hits = <<>> /\ queue = <<>> /\ fresh = {}
    /\ counters = [k \in KernelSet |-> 0]
    /\ reads = <<>> /\ output = <<>>
    /\ capacity \in Limits
    /\ buffer = Unwritten(capacity)
    /\ updated = TRUE

-----------------------------------------------------------------------------
(* Host.                                                                   *)

(* The host is not inside of check(). *)
Idle == reads = <<>>

(* Colliders::set_max_collisions(): new buffers for the collisions.  Those *)
(* reported are kept if the limit grows (utils/ranges.h set_capacity()).   *)
set_max_collisions(n) ==
    /\ Idle
    /\ capacity' = n
    /\ buffer' = Unwritten(n)
    /\ output' = IF n < capacity THEN <<>> ELSE output
    /\ updated' = TRUE
    /\ UNCHANGED <<backend, frame, hits, queue, fresh, counters, reads>>

(* Events a command waits for: those of other commands of its frame.  A    *)
(* kernel waits for the barrier that is enqueued with it (execute_()).     *)
(* Mutant: the masses are not waited for, as in the other kernels.         *)
WaitWithoutMass(c) ==
    CASE c.op = "exec" -> {<<"barrier", c.of>>}
      [] c.op = "barrier" -> {<<"fill", "counters">>} \cup
            {<<"copy", m>> : m \in Accesses(c.of) \ {"mass"}}
      [] OTHER -> {}

WaitList(c) ==
    CASE c.op = "exec" -> {<<"barrier", c.of>>}
      [] c.op = "barrier" ->
            {<<"fill", "counters">>} \cup {<<"copy", m>> : m \in Accesses(c.of)}
      [] OTHER -> {}

(* The kernel whose end is waited for before the results of k are read.    *)
(* Mutant: the end of the kernel of one of the types.                      *)
ReadWaitType(k) == IF k = "sphere_gravity" THEN "sphere" ELSE k

ReadWait(k) == IF k = "aabb_sphere" THEN "aabb_bb" ELSE k

(* What there are colliders for among types ts. *)
Launched(ts) == Among(Checks, {k \in ToSet(Checks) : Operands(k) \subseteq ts})

Uploads(ts) == Among(Members, {m \in ToSet(Members) : TypeOf(m) \in ts})

(* Each kernel of a sequence, after its barrier. *)
Kernel(i) == IF i % 2 = 1 THEN "barrier" ELSE "exec"
Launches(ks) == [i \in 1..(2 * Len(ks)) |-> <<Kernel(i), ks[(i + 1) \div 2]>>]

(* Mutant: the kernels are enqueued before what they wait for. *)
CommandsSwapped(ts) ==
    <<<<"fill", "counters">>>>
    \o Launches(Launched(ts))
    \o [i \in DOMAIN Uploads(ts) |-> <<"copy", Uploads(ts)[i]>>]

(* What check() enqueues, in order. *)
FrameCommands(ts) ==
    <<<<"fill", "counters">>>>
    \o [i \in DOMAIN Uploads(ts) |-> <<"copy", Uploads(ts)[i]>>]
    \o Launches(Launched(ts))

(* The collisions of a frame, given the pairs that each kernel finds. *)
Found(h) == UNION {{k} \X h[k] : k \in DOMAIN h}

(* Those of a sequence that may move something. *)
Movable(cs) == Among(cs, {c \in ToSet(cs) : c[2] \notin Fixed})

Fewer(m, n) == IF m < n THEN m ELSE n

(* Mutant: the room is looked for before the masses. *)
AddedFixed(cs) == Movable(SubSeq(cs, 1, Fewer(Len(cs), capacity)))

(* add_collision(), for each of cs: those that cannot move anything are    *)
(* not added.  When there is no room for one its loop ends, as do those    *)
(* that follow at the first they would add.                                *)
Added(cs) == SubSeq(Movable(cs), 1, Fewer(Len(Movable(cs)), capacity))

(* Loop j is before loop k. *)
Precedes(j, k) == \E a, b \in DOMAIN Loops : a < b /\ Loops[a] = j /\ Loops[b] = k

(* Colliders::check_collisions() with the native back end: of the          *)
(* colliders, those in h collide.  Each loop finds its own in any order.   *)
check_native(h) ==
    /\ backend = "native" /\ frame < MaxFrames
    /\ frame' = frame + 1
    /\ hits' = h
    /\ \E cs \in SetToSeqs(Found(h)) :
        /\ \A i, j \in DOMAIN cs : i < j => ~Precedes(cs[j][1], cs[i][1])
        /\ output' = Added(cs)
    /\ updated' = FALSE
    /\ UNCHANGED <<backend, device_vars, reads, capacity>>

(* Colliders::check_collisions() with the compute back end, up to the      *)
(* first blocking call: colliders of types ts exist, of which those in h   *)
(* collide.  The buffers of the colliders and the counters are created     *)
(* again if the limits changed, so that commands that have not completed   *)
(* have no effect on the new ones.                                         *)
check_compute(ts, h) ==
    /\ backend = "compute"
    /\ Idle /\ frame < MaxFrames
    /\ frame' = frame + 1
    /\ hits' = h
    /\ LET enqueued == FrameCommands(ts) IN
        queue' = [i \in DOMAIN queue |->
                    [queue[i] EXCEPT !.live = @ /\ ~updated]]
            \o [i \in DOMAIN enqueued |->
                    [op |-> enqueued[i][1], of |-> enqueued[i][2],
                     frame |-> frame + 1, live |-> TRUE]]
    /\ fresh' = {}
    /\ buffer' = Unwritten(capacity)
    /\ reads' = Launched(ts)
    /\ output' = <<>>
    /\ updated' = FALSE
    /\ UNCHANGED <<backend, counters, capacity>>

(* Colliders::check_collisions() after set_check(false). *)
check_turned_off ==
    /\ Idle
    /\ output' = <<>>
    /\ UNCHANGED <<backend, frame, hits, device_vars, reads, capacity, updated>>

Pending(op, of, f) == \E i \in DOMAIN queue :
    queue[i].op = op /\ queue[i].of = of /\ queue[i].frame = f

PendingBarriers == {i \in DOMAIN queue : queue[i].op = "barrier"}

(* How many of n collisions are read: as many as there is room for. *)
Fitting(n) == Fewer(n, capacity - Len(output))

(* The counter of k may be read: the kernel whose event is waited for has  *)
(* completed, and so have the barriers, all of which were enqueued before. *)
(* Without that kernel there is no event, and the call fails at once.      *)
MayRead(k) ==
    IF ReadWait(k) \in DOMAIN hits
    THEN ~Pending("exec", ReadWait(k), frame) /\ PendingBarriers = {}
    ELSE TRUE

(* map_collision_buffer(): a failure is taken for an absence of collisions.*)
map_collision_buffer(k) ==
    IF ReadWait(k) \in DOMAIN hits
    THEN [i \in 1..Fitting(counters[k]) |-> <<k, buffer[k][i]>>]
    ELSE <<>>

(* read_collision_buffer(): the collisions found by a kernel, without      *)
(* those that cannot move anything.                                        *)
read_collision_buffer ==
    /\ ~Idle
    /\ MayRead(Head(reads))
    /\ output' = output \o Movable(map_collision_buffer(Head(reads)))
    /\ reads' = Tail(reads)
    /\ UNCHANGED <<backend, frame, hits, device_vars, capacity, updated>>

-----------------------------------------------------------------------------
(* Device.                                                                 *)

(* A command may be executed: no barrier was enqueued before it, and what  *)
(* it waits for has completed.                                             *)
Ready(i) ==
    /\ \A j \in PendingBarriers : j >= i
    /\ \A w \in WaitList(queue[i]) : ~Pending(w[1], w[2], queue[i].frame)

Executed(i, op) ==
    /\ queue[i].op = op
    /\ Ready(i)
    /\ queue' = RemoveAt(queue, i)

Host == <<backend, frame, hits, reads, output, capacity, updated>>

fill_counters(i) ==
    /\ Executed(i, "fill")
    /\ counters' =
        IF queue[i].live THEN [k \in KernelSet |-> 0] ELSE counters
    /\ UNCHANGED <<fresh, buffer, Host>>

(* The memory of the host is read when the upload is executed. *)
write_buffer_rect(i) ==
    /\ Executed(i, "copy")
    /\ fresh' = IF queue[i].live THEN fresh \cup {queue[i].of} ELSE fresh
    /\ UNCHANGED <<counters, buffer, Host>>

pass_barrier(i) ==
    /\ Executed(i, "barrier")
    /\ UNCHANGED <<fresh, counters, buffer, Host>>

(* What a kernel finds, in any order: the pairs that collide, or anything  *)
(* if it reads what is not of its frame.                                   *)
Finds(c) ==
    IF c.frame = frame /\ Accesses(c.of) \subseteq fresh
    THEN SetToSeqs(hits[c.of])
    ELSE UNION {[1..n -> {Old}] : n \in 0..MaxHits}

(* A kernel: each collision takes the next number of the counter and is    *)
(* written there, if there is room.                                        *)
run_kernel(i) ==
    /\ Executed(i, "exec")
    /\ LET c == queue[i]
           k == c.of
           n == counters[k]
       IN  IF c.live
           THEN \E s \in Finds(c) :
                /\ counters' = [counters EXCEPT ![k] = n + Len(s)]
                /\ buffer' = [buffer EXCEPT ![k] = [j \in 1..capacity |->
                        IF j \in (n + 1)..(n + Len(s)) THEN s[j - n] ELSE @[j]]]
           ELSE UNCHANGED <<counters, buffer>>
    /\ UNCHANGED <<fresh, Host>>

Device == \E i \in DOMAIN queue :
    fill_counters(i) \/ write_buffer_rect(i) \/ pass_barrier(i) \/ run_kernel(i)

-----------------------------------------------------------------------------
(* The pairs that collide in a frame with colliders of types ts: at most   *)
(* MaxHits in all.                                                         *)
Collisions(ts) ==
    {h \in [ToSet(Launched(ts)) -> SUBSET Pairs] :
        Cardinality(Found(h)) <= MaxHits}

CollisionsNext ==
    \/ \E n \in Limits : set_max_collisions(n)
    \/ \E ts \in Scenes : \E h \in Collisions(ts) :
            check_compute(ts, h) \/ check_native(h)
    \/ check_turned_off
    \/ read_collision_buffer
    \/ Device

(* The device executes what can be executed, and a blocking call returns   *)
(* when what it waits for is done.                                         *)
Fairness ==
    /\ WF_check_vars(Device)
    /\ WF_check_vars(read_collision_buffer)

CollisionsSpec == CollisionsInit /\ [][CollisionsNext]_check_vars /\ Fairness

-----------------------------------------------------------------------------
(* Properties.                                                             *)

Expected == {c \in Found(hits) : c[2] \notin Fixed}

AllFixed == {c \in Found(hits) : c[2] \in Fixed}

(* When check() returns, every pair of the frame that collides is reported *)
(* once and nothing else, in whatever order the device executed what, and  *)
(* whichever the back end.  Some are left out only if the limit was        *)
(* reached, to which those of infinite mass count in the compute back end  *)
(* only (native.cpp:418, compute.cpp:591).                                 *)
ReportedNow ==
    /\ ToSet(output) \subseteq Expected
    /\ Cardinality(ToSet(output)) = Len(output)
    /\ \/ Expected \subseteq ToSet(output)
       \/ Len(output) >= capacity
       \/ /\ backend = "compute"
          /\ Len(output) + Cardinality(AllFixed) >= capacity

Reported == [][(frame' # frame \/ ~Idle) /\ Idle' => ReportedNow']_check_vars

(* What the device has yet to do once check() returned is to upload what   *)
(* no kernel of the frame reads: no kernel is left that could write into   *)
(* the counters of the next frame, or read colliders while it moves them.  *)
Outstanding == Idle => \A i \in DOMAIN queue :
    /\ queue[i].op = "copy"
    /\ queue[i].frame = frame =>
            \A k \in DOMAIN hits : queue[i].of \notin Accesses(k)

(* What is true of limits, buffers and the queue between calls. *)
BetweenCalls == TypeOK /\ Outstanding

(* check() returns: nothing waits for what was enqueued behind it.         *)
CheckReturns == ~Idle ~> Idle
=============================================================================
