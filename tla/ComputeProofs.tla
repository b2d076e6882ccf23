--------------------------- MODULE ComputeProofs ----------------------------
(***************************************************************************)
(* Proofs about the OpenCL back end (Compute.tla), for any number of       *)
(* objects, events, arguments and commands in the queue: who owns objects  *)
(* and events, whose memory commands use, and in what order they are done; *)
(* and about collision detection, which runs on it (Collisions.tla), for   *)
(* any scenes in which each kernel is waited for, pairs, limits and        *)
(* numbers of frames.                                                      *)
(***************************************************************************)
EXTENDS Compute, Collisions, SequenceTheorems, FunctionTheorems,
    FiniteSetTheorems, WellFoundedInduction, TLAPS

-----------------------------------------------------------------------------
(* Objects and events that are not in use.                                 *)

LEMMA SomeObject ==
    ASSUME Cardinality(Unused) >= 1
    PROVE  NewObject \in Objects /\ NewObject \notin live
<1>1. Unused # {}
    BY FS_EmptySet
<1> QED
    BY <1>1 DEF NewObject, Unused

LEMMA SomeEvent ==
    ASSUME Cardinality(Unmade) >= 1
    PROVE  NewEvent \in Events /\ NewEvent \notin held /\ NewEvent \notin Ids(pending)
<1>1. Unmade # {}
    BY FS_EmptySet
<1> QED
    BY <1>1 DEF NewEvent, Unmade

LEMMA BoundsAre ==
    /\ MaxObjects \in Nat /\ MaxEvents \in Nat /\ MaxBehind \in Nat /\ MaxVectors \in Nat
    /\ IsFiniteSet(Objects) /\ IsFiniteSet(Events) /\ Objects \subseteq Nat
    /\ Events \subseteq Nat /\ None \notin Objects /\ None \notin Calls /\ Null \notin Events
<1>1. MaxObjects \in Nat /\ MaxEvents \in Nat /\ MaxBehind \in Nat /\ MaxVectors \in Nat
      /\ None \notin Nat
    BY ComputeAssumption DEF ComputeAssumption
<1>2. \A n \in Nat : IsFiniteSet(1..n)
    <2> TAKE n \in Nat
    <2>1. 1 \in Int /\ n \in Int
        OBVIOUS
    <2> QED
        BY <2>1, FS_Interval
<1> QED
    BY <1>1, <1>2, NoCallAssumption DEF Objects, Events, Null

LEMMA UnusedIs ==
    /\ IsFiniteSet(Unused) /\ Cardinality(Unused) \in Nat
    /\ IsFiniteSet(Unmade) /\ Cardinality(Unmade) \in Nat
<1>1. Unused \subseteq Objects /\ Unmade \subseteq Events
    BY DEF Unused, Unmade
<1> QED
    BY <1>1, BoundsAre, FS_Subset, FS_CardinalityType

\* One more of them is in use.
LEMMA OneLess ==
    /\ Unused' = Unused \ {NewObject} /\ Cardinality(Unused) >= 1
        => Cardinality(Unused') = Cardinality(Unused) - 1
    /\ Unmade' = Unmade \ {NewEvent} /\ Cardinality(Unmade) >= 1
        => Cardinality(Unmade') = Cardinality(Unmade) - 1
<1>1. Cardinality(Unused) >= 1 => NewObject \in Unused
    BY SomeObject DEF Unused
<1>2. Cardinality(Unmade) >= 1 => NewEvent \in Unmade
    BY SomeEvent DEF Unmade
<1>3. \A S, x : IsFiniteSet(S) /\ x \in S => Cardinality(S \ {x}) = Cardinality(S) - 1
    BY FS_RemoveElement
<1> QED
    BY <1>1, <1>2, <1>3, UnusedIs

-----------------------------------------------------------------------------
(* The queue.                                                              *)

\* A command is known by its event and waits for others in the queue; what its caller
\* asked for it waits for, or a barrier that it waits for does.
QueueInv ==
    /\ pending \subseteq Commands
    /\ \A c, d \in pending : c.id = d.id => c = d
    /\ \A c \in pending : c.deps \subseteq Ids(pending)
    /\ \A c \in pending : \A e \in c.needs :
        \/ e \in c.deps
        \/ \E b \in pending : b.op = "barrier" /\ b.id \in c.deps /\ e \in b.deps

LEMMA Enqueues ==
    ASSUME QueueInv, NewEvent \in Events, NewEvent \notin Ids(pending),
           NEW op \in {"fill", "transfer", "write", "barrier", "kernel"},
           NEW deps, NEW needs \in SUBSET Events, Enqueued(op, deps, needs),
           \A e \in needs \cap Ids(pending) :
               e \in deps \/ \E b \in pending : b.op = "barrier" /\ e \in b.deps
    PROVE  /\ QueueInv' /\ Ids(pending') = Ids(pending) \cup {NewEvent}
           /\ \E n \in Commands :
               /\ n.id = NewEvent /\ n.op = op /\ deps \cap Ids(pending) \subseteq n.deps
               /\ pending' = pending \cup {n} /\ n \notin pending
<1> DEFINE n == [id |-> NewEvent, op |-> op,
                 deps |-> (deps \cap ({NewEvent} \union Ids(pending))) \union Ids(Barriers),
                 needs |-> needs \cap Ids(pending)]
<1>1. pending' = pending \cup {n}
    BY DEF Enqueued
<1>2. n.id = NewEvent /\ n.op = op /\ n.needs = needs \cap Ids(pending)
      /\ n.deps = (deps \cap ({NewEvent} \union Ids(pending))) \union Ids(Barriers)
    OBVIOUS
<1>3. Ids(pending) \subseteq Events /\ Ids(Barriers) \subseteq Ids(pending)
    BY DEF QueueInv, Ids, Commands, Barriers
<1>4. n \in Commands
    <2>1. n.deps \subseteq Events /\ n.needs \subseteq Events
        BY <1>2, <1>3
    <2> QED
        BY <2>1 DEF Commands
<1> HIDE DEF n
<1>5. Ids(pending') = Ids(pending) \cup {NewEvent}
    BY <1>1, <1>2 DEF Ids
<1>6. n \notin pending
    BY <1>2 DEF Ids
<1>7. \A c \in pending : c.id # n.id
    BY <1>2 DEF Ids
<1>8. \A e \in n.needs :
        e \in n.deps \/ \E b \in pending : b.op = "barrier" /\ b.id \in n.deps /\ e \in b.deps
    <2> TAKE e \in n.needs
    <2>1. e \in needs /\ e \in Ids(pending)
        BY <1>2
    <2>2. CASE e \in deps
        BY <1>2, <2>1, <2>2
    <2>3. CASE \E b \in pending : b.op = "barrier" /\ e \in b.deps
        <3>1. PICK b \in pending : b.op = "barrier" /\ e \in b.deps
            BY <2>3
        <3>2. b.id \in Ids(Barriers)
            BY <3>1 DEF Ids, Barriers
        <3> QED
            BY <1>2, <3>1, <3>2
    <2> QED
        BY <2>1, <2>2, <2>3
<1>9. QueueInv'
    <2>1. pending' \subseteq Commands
        BY <1>1, <1>4 DEF QueueInv
    <2>2. \A c, d \in pending' : c.id = d.id => c = d
        BY <1>1, <1>7 DEF QueueInv
    <2>3. \A c \in pending' : c.deps \subseteq Ids(pending')
        BY <1>1, <1>2, <1>3, <1>5 DEF QueueInv
    <2>4. ASSUME NEW c \in pending', NEW e \in c.needs
          PROVE  \/ e \in c.deps
                 \/ \E b \in pending' : b.op = "barrier" /\ b.id \in c.deps /\ e \in b.deps
        <3>1. CASE c = n
            BY <1>1, <1>8, <3>1
        <3>2. CASE c \in pending
            BY <1>1, <3>2 DEF QueueInv
        <3> QED
            BY <1>1, <3>1, <3>2
    <2> QED
        BY <2>1, <2>2, <2>3, <2>4 DEF QueueInv
<1> QED
    BY <1>1, <1>2, <1>4, <1>5, <1>6, <1>9

LEMMA Completes ==
    ASSUME QueueInv, NEW c \in pending, complete(c)
    PROVE  /\ QueueInv' /\ Ids(pending') = Ids(pending) \ {c.id} /\ c.needs = {}
           /\ \A d \in pending' : \E o \in pending \ {c} :
                d.id = o.id /\ d.op = o.op
           /\ \A o \in pending \ {c} : o.id # c.id /\ \E d \in pending' :
                d.id = o.id /\ d.op = o.op /\ d.deps = o.deps \ {c.id}
           /\ c.deps = {}
<1> DEFINE Done(d) == [d EXCEPT !.deps = @ \ {c.id}, !.needs = @ \ {c.id}]
<1>1. c.deps = {} /\ pending' = {Done(d) : d \in pending \ {c}}
    BY Zenon DEF complete
<1>2. \A d \in pending : /\ Done(d) \in Commands /\ Done(d).id = d.id /\ Done(d).op = d.op
                         /\ Done(d).deps = d.deps \ {c.id}
                         /\ Done(d).needs = d.needs \ {c.id}
    BY DEF QueueInv, Commands
<1> HIDE DEF Done
<1>3. \A o \in pending \ {c} : o.id # c.id
    BY DEF QueueInv
<1>4. Ids(pending') = Ids(pending) \ {c.id}
    BY <1>1, <1>2, <1>3 DEF Ids
<1>5. \A d \in pending' : \E o \in pending \ {c} : d = Done(o)
    BY <1>1
<1>6. \A o \in pending \ {c} : Done(o) \in pending'
    BY <1>1
<1>7. c.needs = {}
    <2> SUFFICES ASSUME NEW e \in c.needs PROVE FALSE
        OBVIOUS
    <2> QED
        BY <1>1 DEF QueueInv
<1>8. QueueInv'
    <2>1. pending' \subseteq Commands
        BY <1>2, <1>5
    <2>2. ASSUME NEW d \in pending', NEW f \in pending', d.id = f.id PROVE d = f
        <3>1. PICK o \in pending \ {c} : d = Done(o)
            BY <1>5
        <3>2. PICK p \in pending \ {c} : f = Done(p)
            BY <1>5
        <3>3. o = p
            BY <1>2, <2>2, <3>1, <3>2 DEF QueueInv
        <3> QED
            BY <3>1, <3>2, <3>3
    <2>3. ASSUME NEW d \in pending' PROVE d.deps \subseteq Ids(pending')
        <3>1. PICK o \in pending \ {c} : d = Done(o)
            BY <1>5
        <3>2. d.deps = o.deps \ {c.id} /\ o.deps \subseteq Ids(pending)
            BY <1>2, <3>1 DEF QueueInv
        <3> QED
            BY <1>4, <3>2
    <2>4. ASSUME NEW d \in pending', NEW e \in d.needs
          PROVE  \/ e \in d.deps
                 \/ \E b \in pending' : b.op = "barrier" /\ b.id \in d.deps /\ e \in b.deps
        <3>1. PICK o \in pending \ {c} : d = Done(o)
            BY <1>5
        <3>2. d.deps = o.deps \ {c.id} /\ e \in o.needs /\ e # c.id
            BY <1>2, <3>1
        <3>3. CASE e \in o.deps
            BY <3>2, <3>3
        <3>4. CASE \E b \in pending : b.op = "barrier" /\ b.id \in o.deps /\ e \in b.deps
            <4>1. PICK b \in pending : b.op = "barrier" /\ b.id \in o.deps /\ e \in b.deps
                BY <3>4
            <4>2. b # c
                BY <1>1, <4>1
            <4>3. Done(b) \in pending' /\ b.id # c.id
                BY <1>3, <1>6, <4>1, <4>2
            <4>4. Done(b).op = "barrier" /\ Done(b).id \in d.deps /\ e \in Done(b).deps
                BY <1>2, <3>2, <4>1, <4>3
            <4> QED
                BY <4>3, <4>4
        <3> QED
            BY <3>2, <3>3, <3>4 DEF QueueInv
    <2> QED
        BY <2>1, <2>2, <2>3, <2>4 DEF QueueInv
<1>9. ASSUME NEW d \in pending'
      PROVE  \E o \in pending \ {c} : d.id = o.id /\ d.op = o.op
    BY <1>2, <1>5
<1>10. ASSUME NEW o \in pending \ {c}
       PROVE  o.id # c.id /\ \E d \in pending' :
                d.id = o.id /\ d.op = o.op /\ d.deps = o.deps \ {c.id}
    BY <1>2, <1>3, <1>6
<1> QED
    BY <1>1, <1>4, <1>7, <1>8, <1>9, <1>10

-----------------------------------------------------------------------------
\* Tables.

LEMMA MinIs ==
    ASSUME NEW S \in SUBSET Nat, S # {}
    PROVE  Min(S) \in S
<1> DEFINE R == OpToRel(<, Nat)
<1>1. \E x \in S : \A y \in S : <<y, x>> \notin R
    BY NatLessThanWellFounded, WFMin
<1>2. ASSUME NEW x \in Nat, NEW y \in Nat, y < x PROVE <<y, x>> \in R
    BY <1>2 DEF OpToRel
<1> HIDE DEF R
<1>3. PICK x \in S : \A y \in S : <<y, x>> \notin R
    BY <1>1
<1>4. ASSUME NEW y \in S PROVE x =< y
    <2>1. x \in Nat /\ y \in Nat
        OBVIOUS
    <2>2. ~(y < x)
        BY <1>2, <1>3, <2>1
    <2> QED
        BY <2>1, <2>2
<1>5. \E z \in S : \A y \in S : z =< y
    BY <1>4
<1> QED
    BY <1>5 DEF Min

Used(v) == {h \in 2..Len(v) : v[h] # None}

\* What is inserted has an index of its own, and the rest keep theirs.
LEMMA Inserts ==
    ASSUME NEW v \in Seq(Objects \union {None}), v # <<>>, v[1] = None,
           NEW o \in Objects
    PROVE  /\ insert_at_first_free(v, o) \in Seq(Objects \union {None})
           /\ insert_at_first_free(v, o) # <<>> /\ insert_at_first_free(v, o)[1] = None
           /\ \E h \in Nat :
               /\ h \notin Used(v) /\ insert_at_first_free(v, o)[h] = o
               /\ Used(insert_at_first_free(v, o)) = Used(v) \union {h}
               /\ \A j \in Used(v) : insert_at_first_free(v, o)[j] = v[j]
<1> DEFINE n == Len(v)
           free == {i \in 2..n : v[i] = None}
           w == insert_at_first_free(v, o)
<1>1. n \in Nat /\ n >= 1 /\ DOMAIN v = 1..n /\ None \notin Objects
    BY BoundsAre, EmptySeq, LenProperties
<1>2. CASE free # {}
    <2> DEFINE h == Min(free)
    <2>1. h \in 2..n /\ v[h] = None /\ w = [v EXCEPT ![h] = o]
        <3>1. free \subseteq Nat
            BY <1>1
        <3>2. h \in free
            BY <1>2, <3>1, MinIs
        <3> QED
            BY <1>2, <3>2 DEF insert_at_first_free
    <2> HIDE DEF h, free, w
    <2>2. h \in 1..n /\ h # 1 /\ h \in Nat
        BY <1>1, <2>1
    <2> HIDE DEF n
    <2>3. w \in Seq(Objects \union {None}) /\ Len(w) = n
        BY <1>1, <2>1, <2>2, ExceptSeq DEF n
    <2>4. w[h] = o /\ \A j \in 1..n : j # h => w[j] = v[j]
        BY <1>1, <2>1, <2>2
    <2>5. w[1] = None
        BY <1>1, <2>2, <2>4
    <2>6. w # <<>>
        BY <1>1, <2>3, EmptySeq
    <2>7. h \notin Used(v) /\ \A j \in Used(v) : w[j] = v[j]
        BY <1>1, <2>1, <2>4 DEF Used, n
    <2>8. Used(w) = Used(v) \union {h}
        BY <1>1, <2>1, <2>3, <2>4 DEF Used, n
    <2> QED
        BY <2>2, <2>3, <2>4, <2>5, <2>6, <2>7, <2>8 DEF w
<1>3. CASE free = {}
    <2>1. w = Append(v, o)
        BY <1>3 DEF insert_at_first_free
    <2> HIDE DEF w, free
    <2>2. w \in Seq(Objects \union {None}) /\ Len(w) = n + 1 /\ w[n + 1] = o
          /\ \A j \in 1..n : w[j] = v[j]
        BY <2>1, AppendProperties
    <2> HIDE DEF n
    <2>3. w # <<>> /\ w[1] = None
        BY <1>1, <2>2, EmptySeq
    <2>4. n + 1 \notin Used(v) /\ \A j \in Used(v) : w[j] = v[j]
        BY <1>1, <2>2 DEF Used, n
    <2>5. Used(w) = Used(v) \union {n + 1}
        <3>1. 2..(n + 1) = (2..n) \union {n + 1}
            BY <1>1
        <3> QED
            BY <1>1, <2>2, <3>1 DEF Used, n
    <2> QED
        BY <1>1, <2>2, <2>3, <2>4, <2>5 DEF w
<1> QED
    BY <1>2, <1>3

-----------------------------------------------------------------------------
\* What is true whatever fails.

Types ==
    /\ tables \in [Kinds -> Seq(Objects \union {None})]
    /\ \A k \in Kinds : tables[k] # <<>> /\ tables[k][1] = None
    /\ live \subseteq Objects
    /\ held \subseteq Events /\ events \subseteq Events \union {Null}
    /\ call \in Calls \union {None}

\* The events of a call are not known to scripts yet, and those that it waits
\* for are.
EventsApart ==
    /\ events \ {Null} \subseteq held
    /\ call # None =>
        Made \subseteq held /\ Made \cap events = {} /\ call.wait \subseteq events

\* There are as many objects and events as the rest of the call needs.
RoomLeft ==
    /\ In("args") =>
        /\ Cardinality(Unused) >= call.vectors
        /\ Cardinality(Unmade) >= call.vectors + 1
        /\ call.wait # {} => Cardinality(Unmade) >= call.vectors + 2
    /\ In("kernel") => Cardinality(Unmade) >= 1

\* While the kernel is not in the queue, the barrier is, as long as an event that
\* the caller wants to wait for.
Stopped ==
    In("kernel") => \A e \in call.wait \cap Ids(pending) :
        \E b \in pending : b.op = "barrier" /\ e \in b.deps

Sound == Types /\ QueueInv /\ EventsApart /\ RoomLeft /\ Stopped

LEMMA IdsAreEvents == QueueInv => Ids(pending) \subseteq Events
    BY DEF QueueInv, Ids, Commands

LEMMA HandlesAre ==
    ASSUME Types, NEW k \in Kinds, NEW h \in Handles(k)
    PROVE  tables[k][h] \in Objects
<1>1. tables[k] \in Seq(Objects \union {None})
    BY DEF Types
<1>2. h \in 1..Len(tables[k]) /\ tables[k][h] # None
    <2>1. Len(tables[k]) \in Nat
        BY <1>1, LenProperties
    <2> QED
        BY <2>1 DEF Handles
<1> QED
    BY <1>1, <1>2, ElementOfSeq

\* One more event of the call.
LEMMA FollowsIs ==
    ASSUME Types, NewEvent \in Events, call # None,
           NEW pc \in {"args", "kernel", "wait", "return"},
           NEW c \in Calls, c.made = call.made, Follows(pc, c)
    PROVE  /\ call' \in Calls /\ call' # None /\ call'.pc = pc
           /\ call'.vectors = c.vectors /\ call'.buffers = c.buffers
           /\ call'.kernel = c.kernel /\ call'.temporary = c.temporary
           /\ call'.wait = c.wait /\ call'.blocking = c.blocking
           /\ call'.given = c.given /\ call'.failed = c.failed
           /\ call'.made # <<>> /\ Last(call'.made) = NewEvent
           /\ Made' = Made \union {NewEvent}
           /\ held' = held \union {NewEvent}
<1> DEFINE s == call.made
           t == Append(s, NewEvent)
<1>1. c.made \in Seq(Events) /\ s = c.made
    BY DEF Calls
<1>2. call' = [c EXCEPT !.pc = pc, !.made = t] /\ held' = held \union {NewEvent}
    BY <1>1 DEF Follows
<1>3. t \in Seq(Events) /\ Len(t) = Len(s) + 1 /\ t[Len(s) + 1] = NewEvent
      /\ \A j \in 1..Len(s) : t[j] = s[j]
    BY <1>1, AppendProperties
<1>4. Len(s) \in Nat /\ DOMAIN s = 1..Len(s) /\ DOMAIN t = 1..(Len(s) + 1)
    BY <1>1, <1>3, LenProperties
<1>5. Last(t) = NewEvent /\ t # <<>>
    <2> DEFINE n == Len(s)
    <2>1. n \in Nat /\ Len(t) = n + 1 /\ t[n + 1] = NewEvent
        BY <1>3, <1>4
    <2>2. Last(t) = t[Len(t)]
        BY DEF Last
    <2> HIDE DEF n, s, t
    <2>3. Len(t) # 0
        BY <2>1
    <2> QED
        BY <2>1, <2>2, <2>3, EmptySeq
<1>6. ToSet(t) = ToSet(s) \union {NewEvent}
    <2>1. 1..(Len(s) + 1) = (1..Len(s)) \union {Len(s) + 1}
        BY <1>4
    <2> HIDE DEF s, t
    <2> QED
        BY <1>3, <1>4, <2>1 DEF ToSet
<1> HIDE DEF t
<1>7. call' \in Calls /\ call'.made = t /\ call'.pc = pc
      /\ call'.vectors = c.vectors /\ call'.buffers = c.buffers
      /\ call'.kernel = c.kernel /\ call'.temporary = c.temporary
      /\ call'.wait = c.wait /\ call'.blocking = c.blocking
      /\ call'.given = c.given /\ call'.failed = c.failed
    BY <1>2, <1>3 DEF Calls
<1>8. Made' = Made \union {NewEvent}
    BY <1>6, <1>7 DEF Made
<1> QED
    BY <1>2, <1>5, <1>7, <1>8, BoundsAre

\* One more object with a handle.
LEMMA InsertedIs ==
    ASSUME Types, NEW k \in Kinds, NewObject \in Objects, Inserted(k, NewObject)
    PROVE  /\ tables' \in [Kinds -> Seq(Objects \union {None})]
           /\ \A l \in Kinds : tables'[l] # <<>> /\ tables'[l][1] = None
           /\ live' = live \union {NewObject}
           /\ \A l \in Kinds \ {k} : tables'[l] = tables[l]
           /\ \E h \in Nat :
               /\ h \notin Handles(k) /\ tables'[k][h] = NewObject
               /\ Used(tables'[k]) = Handles(k) \union {h}
               /\ \A j \in Handles(k) : tables'[k][j] = tables[k][j]
<1> DEFINE w == insert_at_first_free(tables[k], NewObject)
<1>1. tables' = [tables EXCEPT ![k] = w] /\ live' = live \union {NewObject}
    BY DEF Inserted
<1>2. tables[k] \in Seq(Objects \union {None}) /\ tables[k] # <<>> /\ tables[k][1] = None
    BY DEF Types
<1>3. /\ w \in Seq(Objects \union {None}) /\ w # <<>> /\ w[1] = None
      /\ \E h \in Nat :
          /\ h \notin Used(tables[k]) /\ w[h] = NewObject
          /\ Used(w) = Used(tables[k]) \union {h}
          /\ \A j \in Used(tables[k]) : w[j] = tables[k][j]
    <2> DEFINE v == tables[k]
               o == NewObject
    <2>1. v \in Seq(Objects \union {None}) /\ v # <<>> /\ v[1] = None /\ o \in Objects
        BY <1>2
    <2> HIDE DEF v, o
    <2>2. /\ insert_at_first_free(v, o) \in Seq(Objects \union {None})
          /\ insert_at_first_free(v, o) # <<>> /\ insert_at_first_free(v, o)[1] = None
          /\ \E h \in Nat :
              /\ h \notin Used(v) /\ insert_at_first_free(v, o)[h] = o
              /\ Used(insert_at_first_free(v, o)) = Used(v) \union {h}
              /\ \A j \in Used(v) : insert_at_first_free(v, o)[j] = v[j]
        BY <2>1, Inserts
    <2> QED
        BY <2>2 DEF v, o
<1> HIDE DEF w
<1>4. Handles(k) = Used(tables[k])
    BY DEF Handles, Used
<1>5. tables'[k] = w /\ \A l \in Kinds \ {k} : tables'[l] = tables[l]
    BY <1>1 DEF Types
<1>6. tables' \in [Kinds -> Seq(Objects \union {None})]
    BY <1>1, <1>3 DEF Types
<1>7. \A l \in Kinds : tables'[l] # <<>> /\ tables'[l][1] = None
    BY <1>3, <1>5 DEF Types
<1> QED
    BY <1>1, <1>3, <1>4, <1>5, <1>6, <1>7

\* No call is in progress before or after.
LEMMA Quiet ==
    ASSUME Sound, call' = None,
           tables' \in [Kinds -> Seq(Objects \union {None})],
           \A l \in Kinds : tables'[l] # <<>> /\ tables'[l][1] = None,
           live' \subseteq Objects, held' \subseteq Events,
           events' \subseteq Events \union {Null}, events' \ {Null} \subseteq held',
           QueueInv'
    PROVE  Sound'
    BY DEF Sound, Types, EventsApart, RoomLeft, Stopped, In

LEMMA QueueStays == ASSUME QueueInv, pending' = pending PROVE QueueInv'
    BY DEF QueueInv

LEMMA InitSound == Init => Sound
<1> SUFFICES ASSUME Init PROVE Sound
    OBVIOUS
<1>1. tables \in [Kinds -> Seq(Objects \union {None})]
      /\ \A k \in Kinds : tables[k] # <<>> /\ tables[k][1] = None
    <2>1. <<None>> \in Seq(Objects \union {None}) /\ <<None>> # <<>> /\ <<None>>[1] = None
        OBVIOUS
    <2> QED
        BY <2>1 DEF Init
<1>2. QueueInv
    BY DEF Init, QueueInv
<1> QED
    BY <1>1, <1>2 DEF Init, Sound, Types, EventsApart, RoomLeft, Stopped, In

LEMMA CreateSound == ASSUME Sound, NEW k \in Kinds, create(k) PROVE Sound'
<1>1. NewObject \in Objects /\ call' = None /\ held' = held /\ events' = events
      /\ pending' = pending
    BY SomeObject DEF create, Room, Rest
<1>2. Inserted(k, NewObject) \/ (live' = live \union {NewObject} /\ tables' = tables)
    BY DEF create
<1>3. /\ tables' \in [Kinds -> Seq(Objects \union {None})]
      /\ \A l \in Kinds : tables'[l] # <<>> /\ tables'[l][1] = None
      /\ live' = live \union {NewObject}
    <2>1. CASE Inserted(k, NewObject)
        BY <1>1, <2>1, InsertedIs DEF Sound
    <2>2. CASE live' = live \union {NewObject} /\ tables' = tables
        BY <2>2 DEF Sound, Types
    <2> QED
        BY <1>2, <2>1, <2>2
<1> QED
    BY <1>1, <1>3, Quiet, QueueStays DEF Sound, Types, EventsApart

LEMMA CreateKernelSound == ASSUME Sound, create_kernel PROVE Sound'
<1>1. NewObject \in Objects /\ call' = None /\ held' = held /\ pending' = pending
      /\ events' \ {Null} = events \ {Null}
    BY SomeObject DEF create_kernel, Room
<1>2. "kernels" \in Kinds
    BY DEF Kinds
<1>3. /\ tables' \in [Kinds -> Seq(Objects \union {None})]
      /\ \A l \in Kinds : tables'[l] # <<>> /\ tables'[l][1] = None
      /\ live' = live \union {NewObject}
    BY <1>1, <1>2, InsertedIs DEF create_kernel, Sound
<1> QED
    BY <1>1, <1>3, Quiet, QueueStays DEF Sound, Types, EventsApart

LEMMA ReleaseSound == ASSUME Sound, NEW k \in Kinds, release(k) PROVE Sound'
<1>1. PICK h \in Handles(k) : /\ tables' = [tables EXCEPT ![k][h] = None]
                              /\ live' = live \ {tables[k][h]}
    BY DEF release
<1>2. call' = None /\ held' = held /\ events' = events /\ pending' = pending
    BY DEF release, Rest
<1>3. h \in 1..Len(tables[k]) /\ h # 1 /\ tables[k] \in Seq(Objects \union {None})
    <2>1. tables[k] \in Seq(Objects \union {None})
        BY DEF Sound, Types
    <2>2. Len(tables[k]) \in Nat /\ h \in 2..Len(tables[k])
        BY <2>1, LenProperties DEF Handles
    <2> QED
        BY <2>1, <2>2
<1>4. [tables[k] EXCEPT ![h] = None] \in Seq(Objects \union {None})
      /\ Len([tables[k] EXCEPT ![h] = None]) = Len(tables[k])
    BY <1>3, ExceptSeq
<1>5. tables' \in [Kinds -> Seq(Objects \union {None})]
    BY <1>1, <1>4 DEF Sound, Types
<1>6. ASSUME NEW l \in Kinds PROVE tables'[l] # <<>> /\ tables'[l][1] = None
    <2>1. CASE l # k
        BY <1>1, <2>1 DEF Sound, Types
    <2>2. CASE l = k
        <3>1. tables'[k] = [tables[k] EXCEPT ![h] = None]
            BY <1>1 DEF Sound, Types
        <3>2. tables'[k][1] = tables[k][1]
            BY <1>3, <3>1
        <3>3. Len(tables'[k]) # 0
            BY <1>3, <1>4, <3>1, LenProperties
        <3> QED
            BY <2>2, <3>2, <3>3, EmptySeq DEF Sound, Types
    <2> QED
        BY <2>1, <2>2
<1> QED
    BY <1>1, <1>2, <1>5, <1>6, Quiet, QueueStays DEF Sound, Types, EventsApart

LEMMA FillSound == ASSUME Sound, fill_buffer PROVE Sound'
<1>1. PICK wait \in Waits, given \in BOOLEAN :
        /\ Enqueued("fill", wait, wait)
        /\ held' = IF given THEN held \union {NewEvent} ELSE held
        /\ events' = events
               \union (IF given THEN {NewEvent} ELSE {})
               \union (IF given /\ wait # {} THEN {Null} ELSE {})
    BY DEF fill_buffer
<1>2. NewEvent \in Events /\ NewEvent \notin Ids(pending)
    BY SomeEvent DEF fill_buffer, Room
<1>3. wait \subseteq Events
    BY DEF Waits, Sound, Types
<1>4. QueueInv'
    BY <1>1, <1>2, <1>3, Enqueues DEF Sound
<1>5. held' \subseteq held \union {NewEvent} /\ held \subseteq held'
      /\ events' \subseteq events \union {NewEvent, Null}
      /\ events' \ {Null} \subseteq held'
    BY <1>1 DEF Sound, EventsApart
<1>6. call' = None /\ tables' = tables /\ live' = live
    BY DEF fill_buffer
<1> QED
    BY <1>2, <1>4, <1>5, <1>6, Quiet DEF Sound, Types

LEMMA ReleaseEventsSound == ASSUME Sound, release_events PROVE Sound'
<1>1. PICK e \in events : held' = held \ {e} /\ events' = events \ {e}
    BY DEF release_events
<1>2. call' = None /\ tables' = tables /\ live' = live /\ pending' = pending
    BY DEF release_events
<1> QED
    BY <1>1, <1>2, Quiet, QueueStays DEF Sound, Types, EventsApart

\* A call begins.
LEMMA CalledIs ==
    ASSUME NEW kernel \in Objects \union {None}, NEW temporary \in BOOLEAN,
           NEW vectors \in Nat, NEW wait \in SUBSET Events,
           NEW blocking \in BOOLEAN, NEW given \in BOOLEAN,
           call' = Called(kernel, temporary, vectors, wait, blocking, given)
    PROVE  /\ call' \in Calls /\ call' # None /\ call'.pc = "args"
           /\ call'.kernel = kernel /\ call'.temporary = temporary
           /\ call'.vectors = vectors /\ call'.buffers = {}
           /\ call'.wait = wait /\ call'.blocking = blocking
           /\ call'.made = <<>> /\ ~call'.failed /\ Made' = {}
<1>1. call' \in Calls
    <2>1. <<>> \in Seq(Events)
        OBVIOUS
    <2> QED
        BY <2>1 DEF Called, Calls
<1>2. ToSet(<<>>) = {}
    BY DEF ToSet
<1> QED
    BY <1>1, <1>2, BoundsAre DEF Called, Made

LEMMA TransferIs ==
    ASSUME Sound, transfer
    PROVE  /\ NewEvent \in Events /\ NewEvent \notin held /\ NewEvent \notin Ids(pending)
           /\ call' \in Calls /\ call' # None /\ call'.pc = "wait"
           /\ call'.buffers = {} /\ ~call'.temporary /\ call'.vectors = 0
           /\ call'.wait = {} /\ call'.blocking /\ ~call'.failed
           /\ Made' = {NewEvent} /\ Last(call'.made) = NewEvent /\ call'.made # <<>>
           /\ held' = held \union {NewEvent}
           /\ UNCHANGED <<tables, live, events>>
           /\ Enqueued("transfer", {}, {})
<1> DEFINE c == Called(None, FALSE, 0, {}, TRUE, FALSE)
           s == <<NewEvent>>
<1>1. NewEvent \in Events /\ NewEvent \notin held /\ NewEvent \notin Ids(pending)
    BY SomeEvent DEF transfer, Room
<1>2. s \in Seq(Events) /\ s # <<>> /\ Last(s) = NewEvent /\ ToSet(s) = {NewEvent}
    <2>1. s \in Seq(Events) /\ s # <<>> /\ Len(s) = 1 /\ DOMAIN s = {1} /\ s[1] = NewEvent
        BY <1>1
    <2> HIDE DEF s
    <2> QED
        BY <2>1 DEF Last, ToSet
<1> HIDE DEF s
<1>3. call' = [c EXCEPT !.pc = "wait", !.made = s]
    BY DEF transfer, s
<1>4. call' \in Calls /\ call'.pc = "wait" /\ call'.made = s
      /\ call'.buffers = {} /\ ~call'.temporary /\ call'.vectors = 0
      /\ call'.wait = {} /\ call'.blocking /\ ~call'.failed
    BY <1>2, <1>3 DEF Called, Calls
<1>5. Made' = {NewEvent}
    BY <1>2, <1>4 DEF Made
<1> QED
    BY <1>1, <1>2, <1>4, <1>5, BoundsAre DEF transfer

LEMMA TransferSound == ASSUME Sound, transfer PROVE Sound'
<1>1. QueueInv'
    BY TransferIs, Enqueues DEF Sound
<1>2. Types'
    BY TransferIs DEF Sound, Types
<1>3. EventsApart'
    <2>1. events \ {Null} \subseteq held /\ Null \notin Events /\ events' = events
        BY TransferIs, BoundsAre DEF Sound, EventsApart
    <2> QED
        BY <2>1, TransferIs DEF EventsApart
<1>4. RoomLeft' /\ Stopped'
    BY TransferIs DEF RoomLeft, Stopped, In
<1> QED
    BY <1>1, <1>2, <1>3, <1>4 DEF Sound

LEMMA ExecuteKernelIs ==
    ASSUME Sound, execute_kernel
    PROVE  /\ call' \in Calls /\ call' # None /\ call'.pc = "args"
           /\ ~call'.temporary /\ call'.vectors = 0 /\ call'.buffers = {}
           /\ call'.wait \subseteq events \ {Null}
           /\ call'.made = <<>> /\ ~call'.failed /\ Made' = {}
<1>1. PICK h \in Handles("kernels"), wait \in Waits, b \in BOOLEAN, given \in BOOLEAN :
        call' = Called(tables["kernels"][h], FALSE, 0, wait, b, given)
    BY DEF execute_kernel
<1>2. tables["kernels"][h] \in Objects
    BY HandlesAre DEF Kinds, Sound
<1>3. wait \subseteq Events /\ wait \subseteq events \ {Null}
    BY DEF Waits, Sound, Types
<1>4. /\ call' \in Calls /\ call' # None /\ call'.pc = "args"
      /\ call'.temporary = FALSE /\ call'.vectors = 0 /\ call'.buffers = {}
      /\ call'.wait = wait /\ call'.made = <<>> /\ ~call'.failed /\ Made' = {}
    BY <1>1, <1>2, <1>3, CalledIs
<1> QED
    BY <1>3, <1>4, Zenon

LEMMA ExecuteKernelSound == ASSUME Sound, execute_kernel PROVE Sound'
<1>1. tables' = tables /\ live' = live /\ pending' = pending /\ held' = held
      /\ events' = events /\ Cardinality(Unmade) >= 2
    BY DEF execute_kernel, Room
<1>2. QueueInv' /\ Types'
    BY <1>1, ExecuteKernelIs, QueueStays DEF Sound, Types
<1>3. EventsApart'
    BY <1>1, ExecuteKernelIs DEF Sound, EventsApart
<1>4. Unused' = Unused /\ Unmade' = Unmade
    BY <1>1 DEF Unused, Unmade
<1>5. RoomLeft' /\ Stopped'
    BY <1>1, <1>4, ExecuteKernelIs, UnusedIs DEF RoomLeft, Stopped, In
<1> QED
    BY <1>2, <1>3, <1>5 DEF Sound

LEMMA ExecuteIs ==
    ASSUME Sound, execute
    PROVE  /\ call' \in Calls /\ call' # None /\ call'.pc = "args"
           /\ call'.temporary /\ call'.kernel = NewObject /\ call'.buffers = {}
           /\ call'.vectors > 0 => call'.blocking
           /\ call'.wait \subseteq events \ {Null}
           /\ call'.made = <<>> /\ ~call'.failed /\ Made' = {}
           /\ NewObject \in Objects /\ NewObject \notin live
           /\ Cardinality(Unused) >= call'.vectors + 1
           /\ Cardinality(Unmade) >= call'.vectors + 2
<1>1. PICK n \in 0..MaxVectors, wait \in Waits, b \in BOOLEAN, given \in BOOLEAN :
        /\ b \/ n = 0
        /\ Room(n + 1, n + 2)
        /\ call' = Called(NewObject, TRUE, n, wait, b, given)
    BY DEF execute
<1>2. n \in Nat /\ Cardinality(Unused) >= n + 1 /\ Cardinality(Unmade) >= n + 2
    BY <1>1, BoundsAre DEF Room
<1>3. NewObject \in Objects /\ NewObject \notin live
    BY <1>2, SomeObject, UnusedIs
<1>4. wait \subseteq Events /\ wait \subseteq events \ {Null}
    BY DEF Waits, Sound, Types
<1>5. /\ call' \in Calls /\ call' # None /\ call'.pc = "args"
      /\ call'.kernel = NewObject /\ call'.temporary
      /\ call'.vectors = n /\ call'.buffers = {}
      /\ call'.wait = wait /\ call'.blocking = b
      /\ call'.made = <<>> /\ ~call'.failed /\ Made' = {}
    BY <1>1, <1>2, <1>3, <1>4, CalledIs
<1>6. n > 0 => b
    BY <1>1, <1>2
<1>7. call'.vectors > 0 => call'.blocking
    BY <1>5, <1>6, Zenon
<1>8. Cardinality(Unused) >= call'.vectors + 1 /\ Cardinality(Unmade) >= call'.vectors + 2
    BY <1>2, <1>5
<1> QED
    BY <1>3, <1>4, <1>5, <1>7, <1>8, Zenon

LEMMA ExecuteSound == ASSUME Sound, execute PROVE Sound'
<1>1. tables' = tables /\ live' = live \union {NewObject} /\ pending' = pending
      /\ held' = held /\ events' = events
    BY DEF execute
<1>2. QueueInv' /\ Types'
    BY <1>1, ExecuteIs, QueueStays DEF Sound, Types
<1>3. EventsApart'
    BY <1>1, ExecuteIs DEF Sound, EventsApart
<1>4. Unused' = Unused \ {NewObject} /\ Unmade' = Unmade
    BY <1>1 DEF Unused, Unmade
<1>5. call'.vectors \in Nat
    BY ExecuteIs DEF Calls
<1>6. Cardinality(Unused') = Cardinality(Unused) - 1
    BY <1>4, <1>5, ExecuteIs, OneLess, UnusedIs
<1>7. Cardinality(Unused') >= call'.vectors /\ Cardinality(Unmade') >= call'.vectors + 2
    BY <1>4, <1>5, <1>6, ExecuteIs, UnusedIs
<1>8. Cardinality(Unmade') >= call'.vectors + 1
    BY <1>4, <1>5, <1>7, UnusedIs
<1>9. call'.pc # "kernel"
    BY ExecuteIs
<1>10. RoomLeft' /\ Stopped'
    BY <1>7, <1>8, <1>9 DEF RoomLeft, Stopped, In
<1> QED
    BY <1>2, <1>3, <1>10 DEF Sound

\* A call goes on.
LEMMA SetArgIs ==
    ASSUME Sound, set_kernel_arg
    PROVE  /\ call \in Calls /\ call # None /\ call.pc = "args" /\ call.vectors > 0
           /\ NewObject \in Objects /\ NewObject \notin live
           /\ NewEvent \in Events /\ NewEvent \notin held /\ NewEvent \notin Ids(pending)
           /\ call' \in Calls /\ call' # None /\ call'.pc = "args"
           /\ call'.vectors = call.vectors - 1
           /\ call'.buffers = call.buffers \union {NewObject}
           /\ call'.kernel = call.kernel /\ call'.temporary = call.temporary
           /\ call'.wait = call.wait /\ call'.blocking = call.blocking
           /\ call'.failed = call.failed /\ Made' = Made \union {NewEvent}
           /\ held' = held \union {NewEvent} /\ live' = live \union {NewObject}
           /\ Enqueued("write", {}, {}) /\ UNCHANGED <<tables, events>>
<1> DEFINE c == [call EXCEPT !.vectors = @ - 1, !.buffers = @ \union {NewObject}]
<1>1. call \in Calls /\ call # None /\ call.pc = "args" /\ call.vectors > 0
    BY DEF set_kernel_arg, In, Sound, Types
<1>2. /\ Cardinality(Unused) >= call.vectors /\ Cardinality(Unmade) >= call.vectors + 1
      /\ call.vectors \in Nat
    BY <1>1 DEF Sound, RoomLeft, In, Calls
<1>3. Cardinality(Unused) >= 1 /\ Cardinality(Unmade) >= 1
    BY <1>1, <1>2, UnusedIs
<1>4. /\ NewObject \in Objects /\ NewObject \notin live
      /\ NewEvent \in Events /\ NewEvent \notin held /\ NewEvent \notin Ids(pending)
    BY <1>3, SomeObject, SomeEvent
<1>5. c \in Calls /\ c.made = call.made /\ c.vectors = call.vectors - 1
      /\ c.buffers = call.buffers \union {NewObject}
      /\ c.kernel = call.kernel /\ c.temporary = call.temporary
      /\ c.wait = call.wait /\ c.blocking = call.blocking
      /\ c.failed = call.failed
    <2>1. call.vectors - 1 \in Nat
        BY <1>1, <1>2
    <2>2. call.buffers \union {NewObject} \subseteq Objects
        BY <1>1, <1>4 DEF Calls
    <2> QED
        BY <1>1, <2>1, <2>2 DEF Calls
<1>6. Follows("args", c)
    BY DEF set_kernel_arg
<1> HIDE DEF c
<1>7. /\ call' \in Calls /\ call' # None /\ call'.pc = "args"
      /\ call'.vectors = c.vectors /\ call'.buffers = c.buffers
      /\ call'.kernel = c.kernel /\ call'.temporary = c.temporary
      /\ call'.wait = c.wait /\ call'.blocking = c.blocking
      /\ call'.failed = c.failed /\ Made' = Made \union {NewEvent}
      /\ held' = held \union {NewEvent}
    BY <1>1, <1>4, <1>5, <1>6, FollowsIs DEF Sound
<1>8. /\ live' = live \union {NewObject}
      /\ Enqueued("write", {}, {}) /\ UNCHANGED <<tables, events>>
    BY DEF set_kernel_arg
<1> QED
    BY <1>1, <1>4, <1>5, <1>7, <1>8

LEMMA BarrierIs ==
    ASSUME Sound, barrier
    PROVE  /\ call \in Calls /\ call # None /\ call.pc = "args"
           /\ Cardinality(Unmade) >= 2
           /\ NewEvent \in Events /\ NewEvent \notin held /\ NewEvent \notin Ids(pending)
           /\ call' \in Calls /\ call' # None /\ call'.pc = "kernel"
           /\ call'.vectors = call.vectors /\ call'.buffers = call.buffers
           /\ call'.kernel = call.kernel /\ call'.temporary = call.temporary
           /\ call'.wait = call.wait /\ call'.blocking = call.blocking
           /\ call'.failed = call.failed /\ Made' = Made \union {NewEvent}
           /\ held' = held \union {NewEvent}
           /\ Enqueued("barrier", call.wait, call.wait) /\ UNCHANGED <<tables, live, events>>
<1>1. call \in Calls /\ call # None /\ call.pc = "args" /\ call.vectors = 0 /\ call.wait # {}
    BY DEF barrier, In, Sound, Types
<1>2. Cardinality(Unmade) >= 2
    BY <1>1, UnusedIs DEF Sound, RoomLeft, In
<1>3. NewEvent \in Events /\ NewEvent \notin held /\ NewEvent \notin Ids(pending)
    BY <1>2, UnusedIs, SomeEvent
<1>4. /\ Follows("kernel", call) /\ Enqueued("barrier", call.wait, call.wait)
      /\ UNCHANGED <<tables, live, events>>
    BY DEF barrier
<1>5. /\ call' \in Calls /\ call' # None /\ call'.pc = "kernel"
      /\ call'.vectors = call.vectors /\ call'.buffers = call.buffers
      /\ call'.kernel = call.kernel /\ call'.temporary = call.temporary
      /\ call'.wait = call.wait /\ call'.blocking = call.blocking
      /\ call'.failed = call.failed /\ Made' = Made \union {NewEvent}
      /\ held' = held \union {NewEvent}
    BY <1>1, <1>3, <1>4, FollowsIs DEF Sound
<1> QED
    BY <1>1, <1>2, <1>3, <1>4, <1>5

LEMMA KernelIs ==
    ASSUME Sound, enqueue_kernel
    PROVE  /\ call \in Calls /\ call # None
           /\ call.pc = "kernel" \/ (call.pc = "args" /\ call.wait = {})
           /\ NewEvent \in Events /\ NewEvent \notin held /\ NewEvent \notin Ids(pending)
           /\ call' \in Calls /\ call' # None
           /\ call.blocking => call'.pc = "wait"
           /\ ~call.blocking => call'.pc = "return"
           /\ call'.vectors = call.vectors /\ call'.buffers = call.buffers
           /\ call'.kernel = call.kernel /\ call'.temporary = call.temporary
           /\ call'.wait = call.wait /\ call'.blocking = call.blocking
           /\ call'.failed = call.failed /\ Made' = Made \union {NewEvent}
           /\ call'.made # <<>> /\ Last(call'.made) = NewEvent
           /\ held' = held \union {NewEvent}
           /\ Enqueued("kernel", Made, Made \union call.wait)
           /\ UNCHANGED <<tables, live, events>>
<1> DEFINE pc == IF call.blocking THEN "wait" ELSE "return"
<1>1. /\ call \in Calls /\ call # None
      /\ call.pc = "kernel" \/ (call.pc = "args" /\ call.vectors = 0 /\ call.wait = {})
    BY DEF enqueue_kernel, In, Sound, Types
<1>2. Cardinality(Unmade) >= 1
    BY <1>1, UnusedIs DEF Sound, RoomLeft, In
<1>3. NewEvent \in Events /\ NewEvent \notin held /\ NewEvent \notin Ids(pending)
    BY <1>2, SomeEvent
<1>4. /\ Follows(pc, call) /\ Enqueued("kernel", Made, Made \union call.wait)
      /\ UNCHANGED <<tables, live, events>>
    BY DEF enqueue_kernel, Before
<1>5. /\ pc \in {"args", "kernel", "wait", "return"}
      /\ call.blocking => pc = "wait"
      /\ ~call.blocking => pc = "return"
    BY Zenon
<1> HIDE DEF pc
<1>6. /\ call' \in Calls /\ call' # None /\ call'.pc = pc
      /\ call'.vectors = call.vectors /\ call'.buffers = call.buffers
      /\ call'.kernel = call.kernel /\ call'.temporary = call.temporary
      /\ call'.wait = call.wait /\ call'.blocking = call.blocking
      /\ call'.failed = call.failed /\ Made' = Made \union {NewEvent}
      /\ call'.made # <<>> /\ Last(call'.made) = NewEvent
      /\ held' = held \union {NewEvent}
    BY <1>1, <1>3, <1>4, <1>5, FollowsIs DEF Sound
<1> QED
    BY <1>1, <1>3, <1>4, <1>5, <1>6

\* Of the events that could be made, one was.
LEMMA UnmadeIs ==
    ASSUME Cardinality(Unmade) >= 1, held' = held \union {NewEvent},
           Ids(pending') = Ids(pending) \union {NewEvent}
    PROVE  Cardinality(Unmade') = Cardinality(Unmade) - 1
<1>1. Ids(pending)' = Ids(pending')
    BY DEF Ids
<1>2. Unmade' = Unmade \ {NewEvent}
    BY <1>1 DEF Unmade
<1> QED
    BY <1>2, OneLess

LEMMA MadeAre == ASSUME call \in Calls PROVE Made \subseteq Events
<1>1. call.made \in Seq(Events)
    BY DEF Calls
<1>2. \A j \in DOMAIN call.made : call.made[j] \in Events
    BY <1>1, LenProperties, ElementOfSeq
<1> QED
    BY <1>2 DEF Made, ToSet

\* The event that is new is of the call and of no script.
LEMMA ApartStays ==
    ASSUME Sound, call # None, call' # None, NewEvent \in Events, NewEvent \notin held,
           held' = held \union {NewEvent}, events' = events,
           Made' = Made \union {NewEvent}, call'.wait = call.wait
    PROVE  EventsApart'
<1>1. NewEvent \notin events
    BY BoundsAre DEF Sound, EventsApart
<1> QED
    BY <1>1 DEF Sound, EventsApart

LEMMA SetArgSound == ASSUME Sound, set_kernel_arg PROVE Sound'
<1>1. QueueInv' /\ Ids(pending') = Ids(pending) \union {NewEvent}
    BY SetArgIs, Enqueues DEF Sound
<1>2. Types'
    BY SetArgIs DEF Sound, Types
<1>3. EventsApart'
    BY SetArgIs, ApartStays
<1>4. call.vectors \in Nat /\ call.vectors > 0 /\ call.pc = "args" /\ call # None
    BY SetArgIs DEF Calls
<1>5. /\ Cardinality(Unused) >= call.vectors
      /\ Cardinality(Unmade) >= call.vectors + 1
      /\ call.wait # {} => Cardinality(Unmade) >= call.vectors + 2
    BY <1>4 DEF Sound, RoomLeft, In
<1>6. Cardinality(Unused) >= 1 /\ Cardinality(Unmade) >= 1
    BY <1>4, <1>5, UnusedIs
<1>7. Unused' = Unused \ {NewObject}
    BY SetArgIs DEF Unused
<1>8. Cardinality(Unused') = Cardinality(Unused) - 1
    BY <1>6, <1>7, OneLess
<1>9. Cardinality(Unmade') = Cardinality(Unmade) - 1
    BY <1>1, <1>6, UnmadeIs, SetArgIs
<1>10. /\ Cardinality(Unused') >= call.vectors - 1
       /\ Cardinality(Unmade') >= call.vectors - 1 + 1
       /\ call.wait # {} => Cardinality(Unmade') >= call.vectors - 1 + 2
    BY <1>4, <1>5, <1>8, <1>9, UnusedIs
<1>11. /\ Cardinality(Unused') >= call'.vectors
       /\ Cardinality(Unmade') >= call'.vectors + 1
       /\ call'.wait # {} => Cardinality(Unmade') >= call'.vectors + 2
    BY <1>10, SetArgIs
<1>12. call'.pc # "kernel"
    BY SetArgIs
<1>13. RoomLeft' /\ Stopped'
    BY <1>11, <1>12 DEF RoomLeft, Stopped, In
<1> QED
    BY <1>1, <1>2, <1>3, <1>13 DEF Sound

LEMMA BarrierSound == ASSUME Sound, barrier PROVE Sound'
<1>1. call.wait \subseteq Events /\ call.wait \subseteq held
    BY BarrierIs, BoundsAre DEF Calls, Sound, EventsApart
<1>2. QueueInv' /\ Ids(pending') = Ids(pending) \union {NewEvent}
    BY <1>1, BarrierIs, Enqueues DEF Sound
<1>3. PICK n \in Commands : /\ n.op = "barrier"
                            /\ call.wait \cap Ids(pending) \subseteq n.deps
                            /\ pending' = pending \union {n}
    BY <1>1, BarrierIs, Enqueues DEF Sound
<1>4. Types'
    BY BarrierIs DEF Sound, Types
<1>5. EventsApart'
    BY BarrierIs, ApartStays
<1>6. Cardinality(Unmade) >= 2 /\ Cardinality(Unmade') = Cardinality(Unmade) - 1
    BY <1>2, UnmadeIs, BarrierIs, UnusedIs
<1>7. call'.pc # "args" /\ Cardinality(Unmade') >= 1
    BY <1>6, BarrierIs, UnusedIs
<1>8. RoomLeft'
    BY <1>7 DEF RoomLeft, In
<1>9. NewEvent \notin call.wait
    BY <1>1, BarrierIs
<1>10. \A e \in call'.wait \cap Ids(pending') : e \in n.deps
    BY <1>2, <1>3, <1>9, BarrierIs
<1>11. \A e \in call'.wait \cap Ids(pending') :
            \E b \in pending' : b.op = "barrier" /\ e \in b.deps
    BY <1>3, <1>10
<1>12. Ids(pending)' = Ids(pending')
    BY DEF Ids
<1>13. Stopped'
    BY <1>11, <1>12 DEF Stopped
<1> QED
    BY <1>2, <1>4, <1>5, <1>8, <1>13 DEF Sound

\* The kernel waits for its arguments itself, and for the rest by the barrier.
LEMMA KernelQueued ==
    ASSUME Sound, enqueue_kernel
    PROVE  /\ QueueInv' /\ Ids(pending') = Ids(pending) \union {NewEvent}
           /\ \E n \in Commands : /\ n.id = NewEvent /\ n.op = "kernel"
                                  /\ Made \cap Ids(pending) \subseteq n.deps
                                  /\ pending' = pending \union {n}
<1>1. Made \subseteq Events /\ call.wait \subseteq Events
    BY KernelIs, MadeAre DEF Calls
<1>2. \A e \in (Made \union call.wait) \cap Ids(pending) :
          e \in Made \/ \E b \in pending : b.op = "barrier" /\ e \in b.deps
    BY KernelIs DEF Sound, Stopped, In
<1>3. Made \union call.wait \in SUBSET Events
    BY <1>1
<1> QED
    BY <1>2, <1>3, KernelIs, Enqueues DEF Sound

LEMMA KernelSound == ASSUME Sound, enqueue_kernel PROVE Sound'
<1>1. QueueInv'
    BY KernelQueued
<1>2. Types'
    BY KernelIs DEF Sound, Types
<1>3. EventsApart'
    BY KernelIs, ApartStays
<1>4. call'.pc \notin {"args", "kernel"}
    BY KernelIs DEF Calls
<1>5. RoomLeft' /\ Stopped'
    BY <1>4 DEF RoomLeft, Stopped, In
<1> QED
    BY <1>1, <1>2, <1>3, <1>5 DEF Sound

\* The call ends: it fails, or has waited.
LEMMA EndIs ==
    ASSUME Sound, fail \/ wait_
    PROVE  /\ call \in Calls /\ call # None /\ call' \in Calls /\ call' # None
           /\ call'.pc = "return" /\ Made' = Made /\ call'.made = call.made
           /\ call'.vectors = call.vectors /\ call'.buffers = call.buffers
           /\ call'.kernel = call.kernel /\ call'.temporary = call.temporary
           /\ call'.wait = call.wait /\ call'.blocking = call.blocking
           /\ fail => call'.failed
           /\ wait_ => call'.failed = call.failed
           /\ UNCHANGED <<tables, live, pending, held, events>>
<1>1. call \in Calls /\ call # None
    BY DEF fail, wait_, In, Sound, Types
<1>2. /\ call' \in Calls
      /\ call'.pc = "return" /\ call'.made = call.made
      /\ call'.vectors = call.vectors /\ call'.buffers = call.buffers
      /\ call'.kernel = call.kernel /\ call'.temporary = call.temporary
      /\ call'.wait = call.wait /\ call'.blocking = call.blocking
      /\ fail => call'.failed
      /\ wait_ => call'.failed = call.failed
    <2>1. CASE fail
        <3>1. ~wait_
            BY <2>1, <1>1 DEF fail, wait_, In
        <3> QED
            BY <1>1, <2>1, <3>1 DEF fail, Calls
    <2>2. CASE wait_
        <3>1. ~fail
            BY <2>2, <1>1 DEF fail, wait_, In
        <3> QED
            BY <1>1, <2>2, <3>1 DEF wait_, Calls
    <2> QED
        BY <2>1, <2>2
<1>3. Made' = Made
    BY <1>2 DEF Made
<1>4. UNCHANGED <<tables, live, pending, held, events>>
    BY DEF fail, wait_
<1> QED
    BY <1>1, <1>2, <1>3, <1>4, BoundsAre

LEMMA EndSound == ASSUME Sound, fail \/ wait_ PROVE Sound'
<1>1. QueueInv' /\ Types'
    BY EndIs, QueueStays DEF Sound, Types
<1>2. EventsApart'
    BY EndIs DEF Sound, EventsApart
<1>3. RoomLeft' /\ Stopped'
    BY EndIs DEF RoomLeft, Stopped, In
<1> QED
    BY <1>1, <1>2, <1>3 DEF Sound

LEMMA ReturnSound == ASSUME Sound, return PROVE Sound'
<1>1. call # None /\ call \in Calls /\ call' = None /\ tables' = tables /\ pending' = pending
    BY DEF return, In, Sound, Types
<1>2. live' \subseteq live
    BY DEF return
<1>3. /\ held' \subseteq held
      /\ events' \subseteq events \union Made
      /\ events' \ {Null} \subseteq held'
    <2>1. CASE call.given
        BY <1>1, <2>1, MadeAre DEF return, Sound, EventsApart
    <2>2. CASE ~call.given
        BY <1>1, <2>2 DEF return, Sound, EventsApart
    <2> QED
        BY <2>1, <2>2
<1>4. events' \subseteq Events \union {Null}
    BY <1>1, <1>3, MadeAre DEF Sound, Types
<1> QED
    BY <1>1, <1>2, <1>3, <1>4, Quiet, QueueStays DEF Sound, Types

\* A command is done.
LEMMA CompleteSound == ASSUME Sound, NEW c \in pending, complete(c) PROVE Sound'
<1>1. /\ QueueInv' /\ Ids(pending') = Ids(pending) \ {c.id} /\ c.deps = {}
      /\ \A o \in pending \ {c} : o.id # c.id /\ \E d \in pending' :
            d.id = o.id /\ d.op = o.op /\ d.deps = o.deps \ {c.id}
    BY Completes DEF Sound
<1>2. UNCHANGED <<tables, live, call, held, events>>
    BY DEF complete
<1>3. Made' = Made /\ \A pc : In(pc)' <=> In(pc)
    BY <1>2 DEF Made, In
<1>4. Types' /\ EventsApart'
    BY <1>2, <1>3 DEF Sound, Types, EventsApart
<1>5. Ids(pending)' = Ids(pending')
    BY DEF Ids
<1>6. Unused' = Unused
    BY <1>2 DEF Unused
<1>7. Unmade \subseteq Unmade' /\ Unmade' \subseteq Events
    BY <1>1, <1>2, <1>5 DEF Unmade
<1>8. IsFiniteSet(Unmade')
    BY <1>7, BoundsAre, FS_Subset
<1>9. Cardinality(Unmade') >= Cardinality(Unmade) /\ Cardinality(Unmade') \in Nat
    BY <1>7, <1>8, FS_Subset, FS_CardinalityType
<1>10. RoomLeft'
    <2> DEFINE m == Cardinality(Unmade)
               n == Cardinality(Unmade')
               u == Cardinality(Unused)
    <2>1. In("args") => /\ u >= call.vectors /\ m >= call.vectors + 1
                        /\ call.wait # {} => m >= call.vectors + 2
                        /\ call.vectors \in Nat
        BY DEF Sound, RoomLeft, Types, Calls, In
    <2>2. In("kernel") => m >= 1
        BY DEF Sound, RoomLeft
    <2>3. n >= m /\ n \in Nat /\ m \in Nat
        BY <1>9, UnusedIs
    <2> HIDE DEF m, n, u
    <2>4. In("args") => /\ u >= call.vectors /\ n >= call.vectors + 1
                        /\ call.wait # {} => n >= call.vectors + 2
        BY <2>1, <2>3
    <2>5. In("kernel") => n >= 1
        BY <2>2, <2>3
    <2>6. u = Cardinality(Unused)' /\ n = Cardinality(Unmade)'
        BY <1>6 DEF u, n
    <2> QED
        BY <1>2, <1>3, <2>4, <2>5, <2>6 DEF RoomLeft
<1>11. Stopped'
    <2> SUFFICES ASSUME In("kernel"), NEW e \in call.wait \cap (Ids(pending) \ {c.id})
                 PROVE  \E b \in pending' : b.op = "barrier" /\ e \in b.deps
        BY <1>1, <1>2, <1>3, <1>5 DEF Stopped
    <2>1. PICK b \in pending : b.op = "barrier" /\ e \in b.deps
        BY DEF Sound, Stopped
    <2>2. b # c
        BY <1>1, <2>1
    <2> QED
        BY <1>1, <2>1, <2>2
<1> QED
    BY <1>1, <1>4, <1>10, <1>11 DEF Sound

LEMMA StutterSound == ASSUME Sound, UNCHANGED vars PROVE Sound'
<1>1. Made' = Made /\ Unused' = Unused /\ Unmade' = Unmade /\ Ids(pending)' = Ids(pending)
      /\ \A pc : In(pc)' <=> In(pc)
    BY DEF vars, Made, Unused, Unmade, Ids, In
<1>2. QueueInv' /\ Types' /\ EventsApart'
    BY <1>1, QueueStays DEF vars, Sound, Types, EventsApart
<1>3. RoomLeft' /\ Stopped'
    BY <1>1 DEF vars, Sound, RoomLeft, Stopped
<1> QED
    BY <1>2, <1>3 DEF Sound

LEMMA SoundInductive == Sound /\ [Next]_vars => Sound'
<1> SUFFICES ASSUME Sound, [Next]_vars PROVE Sound'
    OBVIOUS
<1>1. CASE script
    BY <1>1, CreateSound, CreateKernelSound, ReleaseSound, FillSound, TransferSound,
       ExecuteKernelSound, ExecuteSound, ReleaseEventsSound DEF script
<1>2. CASE proceed
    BY <1>2, SetArgSound, BarrierSound, KernelSound, EndSound, ReturnSound DEF proceed
<1>3. CASE device
    BY <1>3, CompleteSound DEF device
<1>4. CASE UNCHANGED vars
    BY <1>4, StutterSound
<1> QED
    BY <1>1, <1>2, <1>3, <1>4 DEF Next

\* Commands have an event each.
LEMMA SoundTypes == Sound => ComputeTypeOK
<1> SUFFICES ASSUME Sound PROVE ComputeTypeOK
    OBVIOUS
<1> DEFINE f == [c \in pending |-> c.id]
<1>1. IsFiniteSet(Ids(pending))
    BY IdsAreEvents, BoundsAre, FS_Subset DEF Sound
<1>2. f \in Bijection(pending, Ids(pending))
    <2>1. f \in [pending -> Ids(pending)]
        BY DEF Ids
    <2>2. \A c, d \in pending : f[c] = f[d] => c = d
        BY DEF Sound, QueueInv
    <2>3. \A e \in Ids(pending) : \E c \in pending : f[c] = e
        BY DEF Ids
    <2> HIDE DEF f
    <2> QED
        BY <2>1, <2>2, <2>3, Fun_IsBij
<1> HIDE DEF f
<1>3. Cardinality(Ids(pending)) = Cardinality(pending)
    <2>1. ExistsBijection(pending, Ids(pending))
        BY <1>2 DEF ExistsBijection
    <2> QED
        BY <1>1, <2>1, Fun_ExistsBijSymmetric, FS_Bijection
<1> QED
    BY <1>3 DEF ComputeTypeOK, Sound, Types, QueueInv

-----------------------------------------------------------------------------
\* However many objects and commands there are, tables have objects or holes, the
\* first of them always a hole, each command has an event of its own, and
\* there are as many events and objects as a call that began needs.
THEOREM ComputeTypes == Spec => []ComputeTypeOK
<1> QED
    BY InitSound, SoundInductive, SoundTypes, PTL DEF Spec

\* Whatever fails: a command is done only after those that its caller asked it to
\* wait for, a kernel after its arguments are written, even though the queue
\* orders nothing but what execute_() ties together.
THEOREM CommandsInOrder == Spec => InOrder
<1> DEFINE After == \A c \in pending : c.id \notin Ids(pending)' => c.needs = {}
<1>1. Sound /\ [Next]_vars => [After]_vars
    <2> SUFFICES ASSUME Sound, Next PROVE After
        OBVIOUS
    <2>1. Ids(pending)' = Ids(pending') /\ \A c \in pending : c.id \in Ids(pending)
        BY DEF Ids
    <2>2. ASSUME NEW d \in pending, complete(d) PROVE After
        <3>1. Ids(pending') = Ids(pending) \ {d.id} /\ d.needs = {}
            BY <2>2, Completes DEF Sound
        <3>2. \A c \in pending : c.id = d.id => c = d
            BY DEF Sound, QueueInv
        <3> QED
            BY <2>1, <3>1, <3>2
    <2>3. CASE Ids(pending) \subseteq Ids(pending')
        BY <2>1, <2>3
    <2>4. ASSUME NEW op, NEW deps, NEW needs, Enqueued(op, deps, needs)
          PROVE  Ids(pending) \subseteq Ids(pending')
        BY <2>4 DEF Enqueued, Ids
    <2>5. CASE script
        <3>1. pending' = pending \/ Ids(pending) \subseteq Ids(pending')
            BY <2>4, <2>5 DEF script, create, Rest, release, create_kernel, fill_buffer,
               transfer, execute_kernel, execute, release_events
        <3> QED
            BY <2>3, <3>1
    <2>6. CASE proceed
        <3>1. pending' = pending \/ Ids(pending) \subseteq Ids(pending')
            BY <2>4, <2>6 DEF proceed, set_kernel_arg, barrier, enqueue_kernel, fail,
               wait_, return
        <3> QED
            BY <2>3, <3>1
    <2>7. CASE device
        BY <2>2, <2>7 DEF device
    <2> QED
        BY <2>5, <2>6, <2>7 DEF Next
<1> QED
    BY <1>1, InitSound, SoundInductive, PTL DEF Spec, InOrder

-----------------------------------------------------------------------------
\* Events.

\* A call fails before it has put anything in the queue.
Outcome == call # None /\ call.failed => call.pc = "return" /\ call.made = <<>>

\* Scripts make no calls of execute() while one is in progress.
LEMMA Steps ==
    ASSUME [Next]_vars
    PROVE  \/ call' = None /\ call = None
              /\ \/ \E k \in Kinds : (k # "kernels" /\ create(k)) \/ release(k)
                 \/ create_kernel \/ fill_buffer \/ release_events
           \/ call = None /\ (transfer \/ execute_kernel \/ execute)
           \/ call # None /\ (set_kernel_arg \/ barrier \/ enqueue_kernel)
           \/ call # None /\ (fail \/ wait_)
           \/ call # None /\ return
           \/ \E c \in pending : complete(c)
           \/ UNCHANGED vars
<1>1. CASE script
    BY <1>1 DEF script, create, release, Rest, create_kernel, fill_buffer, release_events,
       transfer, execute_kernel, execute
<1>2. CASE proceed
    BY <1>2 DEF proceed, set_kernel_arg, barrier, enqueue_kernel, fail, wait_, return, In
<1> QED
    BY <1>1, <1>2 DEF Next, device

LEMMA OutcomeStep ==
    ASSUME ~FailLate, Sound, Outcome, [Next]_vars
    PROVE  Outcome'
<1>1. CASE call' = None \/ UNCHANGED call
    BY <1>1 DEF Outcome
<1>2. CASE transfer \/ execute_kernel \/ execute
    BY <1>2, TransferIs, ExecuteKernelIs, ExecuteIs DEF Outcome
<1>3. CASE set_kernel_arg
    BY <1>3, SetArgIs DEF Outcome
<1>4. CASE barrier
    BY <1>4, BarrierIs DEF Outcome
<1>5. CASE enqueue_kernel
    BY <1>5, KernelIs DEF Outcome
<1>6. CASE fail
    BY <1>6, EndIs DEF Outcome, fail
<1>7. CASE wait_
    BY <1>7, EndIs DEF Outcome, wait_, In
<1>8. CASE return
    BY <1>8, <1>1 DEF return
<1>9. CASE \E c \in pending : complete(c)
    BY <1>9, <1>1 DEF complete
<1> QED
    BY <1>1, <1>2, <1>3, <1>4, <1>5, <1>6, <1>7, <1>8, <1>9, Steps DEF vars

LEMMA EventsStep ==
    ASSUME ~NullEvents, Sound, Outcome, EventsOwned, [Next]_vars
    PROVE  EventsOwned'
<1>1. /\ call = None => held = events
      /\ call # None => held = events \union Made /\ Made \cap events = {}
      /\ Null \notin events
    BY DEF EventsOwned, Sound, EventsApart
<1>2. CASE /\ call = None /\ call' = None
           /\ \/ \E k \in Kinds : (k # "kernels" /\ create(k)) \/ release(k)
              \/ create_kernel
    <2>1. held' = held /\ events' = events
        BY <1>2 DEF create, release, Rest, create_kernel
    <2> QED
        BY <1>1, <1>2, <2>1 DEF EventsOwned
<1>3. CASE call = None /\ call' = None /\ fill_buffer
    <2>1. PICK wait \in Waits, given \in BOOLEAN :
            /\ held' = IF given THEN held \union {NewEvent} ELSE held
            /\ wait # {} /\ given => NullEvents
            /\ events' = events
                   \union (IF given THEN {NewEvent} ELSE {})
                   \union (IF given /\ wait # {} THEN {Null} ELSE {})
        BY <1>3 DEF fill_buffer
    <2>2. NewEvent \in Events /\ NewEvent # Null
        BY <1>3, SomeEvent, BoundsAre DEF fill_buffer, Room
    <2>3. held' = events' /\ Null \notin events'
        BY <1>1, <1>3, <2>1, <2>2
    <2> QED
        BY <1>3, <2>3 DEF EventsOwned
<1>4. CASE call = None /\ call' = None /\ release_events
    BY <1>1, <1>4 DEF release_events, EventsOwned
<1>5. CASE call = None /\ transfer
    BY <1>1, <1>5, TransferIs DEF EventsOwned
<1>6. CASE call = None /\ (execute_kernel \/ execute)
    <2>1. held' = held /\ events' = events /\ call' # None /\ Made' = {}
        BY <1>6, ExecuteKernelIs, ExecuteIs DEF execute_kernel, execute
    <2> QED
        BY <1>1, <1>6, <2>1 DEF EventsOwned
<1>7. CASE call # None /\ (set_kernel_arg \/ barrier \/ enqueue_kernel)
    <2>1. /\ held' = held \union {NewEvent} /\ events' = events
          /\ call' # None /\ Made' = Made \union {NewEvent}
        BY <1>7, SetArgIs, BarrierIs, KernelIs
    <2> QED
        BY <1>1, <1>7, <2>1 DEF EventsOwned
<1>8. CASE call # None /\ (fail \/ wait_)
    <2>1. held' = held /\ events' = events /\ call' # None /\ Made' = Made
        BY <1>8, EndIs
    <2> QED
        BY <1>1, <1>8, <2>1 DEF EventsOwned
<1>9. CASE call # None /\ return
    <2>1. /\ call' = None
          /\ held' = IF call.given THEN held ELSE held \ Made
          /\ events' = IF call.given /\ ~call.failed THEN events \union Made ELSE events
        BY <1>9 DEF return
    <2>2. call.failed => Made = {}
        BY <1>9 DEF Outcome, Made, ToSet
    <2>3. Null \notin Made
        BY <1>9, MadeAre, BoundsAre DEF Sound, Types
    <2>4. held' = events'
        <3>1. CASE call.given /\ ~call.failed
            BY <1>1, <1>9, <2>1, <3>1
        <3>2. CASE call.given /\ call.failed
            BY <1>1, <1>9, <2>1, <2>2, <3>2
        <3>3. CASE ~call.given
            BY <1>1, <1>9, <2>1, <3>3
        <3> QED
            BY <3>1, <3>2, <3>3
    <2>5. Null \notin events'
        BY <1>1, <2>1, <2>3
    <2> QED
        BY <2>1, <2>4, <2>5 DEF EventsOwned
<1>10. CASE (\E c \in pending : complete(c)) \/ UNCHANGED vars
    <2>1. held' = held /\ events' = events /\ call' = call /\ Made' = Made
        BY <1>10 DEF complete, vars, Made
    <2> QED
        BY <2>1 DEF EventsOwned
<1> QED
    BY <1>2, <1>3, <1>4, <1>5, <1>6, <1>7, <1>8, <1>9, <1>10, Steps

\* Events are released once and none is lost: between calls the scripts know all
\* that exist, and during one those that it has made are its own.
THEOREM EventsAreOwned ==
    ASSUME ~FailLate, ~NullEvents
    PROVE  Spec => []EventsOwned
<1>1. Init => Outcome /\ EventsOwned
    BY DEF Init, Outcome, EventsOwned
<1>2. Sound /\ Outcome /\ EventsOwned /\ [Next]_vars => Outcome' /\ EventsOwned'
    BY OutcomeStep, EventsStep
<1> QED
    BY <1>1, <1>2, InitSound, SoundInductive, PTL DEF Spec

-----------------------------------------------------------------------------
\* Memory of the caller.

Copies == {"write", "transfer"}

\* Whoever uses it is of the call in progress, which blocks: what it has put in
\* the queue is done before the last of it is, for which it waits.
MemoryInv ==
    /\ \A c \in pending : c.op \in Copies =>
           call # None /\ c.id \in Made /\ call.blocking
    /\ call # None /\ call.vectors > 0 => call.blocking
    /\ In("wait") =>
        /\ call.blocking
        /\ \A e \in Made \cap Ids(pending) : \E c \in pending :
               c.id = Awaited /\ (e = c.id \/ e \in c.deps)
    /\ In("return") /\ call.blocking /\ ~call.failed => Made \cap Ids(pending) = {}

\* A call that is to return uses no memory of the caller any more.
LEMMA NoneLeft ==
    ASSUME Outcome, MemoryInv, In("return"), NEW c \in pending
    PROVE  c.op \notin Copies
<1> SUFFICES ASSUME c.op \in Copies PROVE FALSE
    OBVIOUS
<1>1. c.id \in Made /\ call.blocking /\ c.id \in Ids(pending)
    BY DEF MemoryInv, Ids
<1>2. CASE call.failed
    BY <1>1, <1>2 DEF Outcome, In, Made, ToSet
<1>3. CASE ~call.failed
    BY <1>1, <1>3 DEF MemoryInv
<1> QED
    BY <1>2, <1>3

\* One more command of the call, or of none.
LEMMA CopiesAre ==
    ASSUME MemoryInv, NEW n, pending' = pending \union {n},
           n.op \in Copies => call' # None /\ n.id \in Made' /\ call'.blocking,
           call # None => call' # None /\ Made \subseteq Made' /\ call'.blocking = call.blocking
    PROVE  \A c \in pending' : c.op \in Copies =>
               call' # None /\ c.id \in Made' /\ call'.blocking
<1> SUFFICES ASSUME NEW c \in pending, c.op \in Copies
             PROVE  call' # None /\ c.id \in Made' /\ call'.blocking
    BY Zenon
<1>1. call # None /\ c.id \in Made /\ call.blocking
    BY DEF MemoryInv
<1> QED
    BY <1>1

LEMMA MemoryQuiet ==
    ASSUME MemoryInv, call = None, call' = None, pending' = pending
    PROVE  MemoryInv'
    BY DEF MemoryInv, In

LEMMA FillMemory == ASSUME Sound, MemoryInv, fill_buffer PROVE MemoryInv'
<1>1. PICK wait \in Waits : Enqueued("fill", wait, wait)
    BY DEF fill_buffer
<1>2. call = None /\ call' = None
    BY DEF fill_buffer
<1>3. NewEvent \in Events /\ NewEvent \notin Ids(pending)
    BY SomeEvent DEF fill_buffer, Room
<1>4. PICK n \in Commands : n.op = "fill" /\ pending' = pending \union {n}
    BY <1>1, <1>3, Enqueues DEF Sound, Types, Waits
<1>5. n.op \notin Copies
    BY <1>4 DEF Copies
<1>6. \A c \in pending' : c.op \in Copies =>
          call' # None /\ c.id \in Made' /\ call'.blocking
    BY <1>2, <1>4, <1>5, CopiesAre
<1> QED
    BY <1>2, <1>6 DEF MemoryInv, In

LEMMA TransferMemory == ASSUME Sound, MemoryInv, call = None, transfer PROVE MemoryInv'
<1>1. PICK n \in Commands :
        n.id = NewEvent /\ n.op = "transfer" /\ pending' = pending \union {n}
    BY TransferIs, Enqueues DEF Sound
<1>2. /\ call' # None /\ Made' = {NewEvent} /\ call'.blocking /\ Last(call'.made) = NewEvent
      /\ call'.pc = "wait" /\ call'.vectors = 0
    BY TransferIs
<1>3. \A c \in pending' : c.op \in Copies =>
          call' # None /\ c.id \in Made' /\ call'.blocking
    BY <1>1, <1>2, CopiesAre
<1>4. Awaited' = NewEvent
    BY <1>2 DEF Awaited
<1>5. \A e \in Made' \cap Ids(pending)' : \E c \in pending' :
          c.id = Awaited' /\ (e = c.id \/ e \in c.deps)
    BY <1>1, <1>2, <1>4
<1> QED
    BY <1>2, <1>3, <1>5 DEF MemoryInv, In

LEMMA BeginMemory ==
    ASSUME Sound, MemoryInv, call = None, execute_kernel \/ execute
    PROVE  MemoryInv'
<1>1. call' # None /\ call'.pc = "args" /\ pending' = pending
    BY ExecuteKernelIs, ExecuteIs DEF execute_kernel, execute
<1>2. call'.vectors > 0 => call'.blocking
    BY ExecuteKernelIs, ExecuteIs
<1>3. \A c \in pending : c.op \notin Copies
    BY DEF MemoryInv
<1> QED
    BY <1>1, <1>2, <1>3 DEF MemoryInv, In

LEMMA SetArgMemory == ASSUME Sound, MemoryInv, set_kernel_arg PROVE MemoryInv'
<1>1. PICK n \in Commands :
        n.id = NewEvent /\ n.op = "write" /\ pending' = pending \union {n}
    BY SetArgIs, Enqueues DEF Sound
<1>2. /\ call # None /\ call' # None /\ Made' = Made \union {NewEvent}
      /\ call'.blocking = call.blocking /\ call.blocking
      /\ call'.pc = "args"
    BY SetArgIs DEF MemoryInv
<1>3. \A c \in pending' : c.op \in Copies =>
          call' # None /\ c.id \in Made' /\ call'.blocking
    BY <1>1, <1>2, CopiesAre
<1> QED
    BY <1>2, <1>3 DEF MemoryInv, In

LEMMA BarrierMemory == ASSUME Sound, MemoryInv, barrier PROVE MemoryInv'
<1>1. call.wait \in SUBSET Events
    BY BarrierIs DEF Calls
<1>2. PICK n \in Commands : n.op = "barrier" /\ pending' = pending \union {n}
    BY <1>1, BarrierIs, Enqueues DEF Sound
<1>3. /\ call # None /\ call' # None /\ Made' = Made \union {NewEvent}
      /\ call'.blocking = call.blocking /\ call'.vectors = call.vectors
      /\ call'.pc = "kernel" /\ n.op \notin Copies
    BY <1>2, BarrierIs DEF Copies
<1>4. \A c \in pending' : c.op \in Copies =>
          call' # None /\ c.id \in Made' /\ call'.blocking
    BY <1>2, <1>3, CopiesAre
<1>5. call'.vectors > 0 => call'.blocking
    BY <1>3 DEF MemoryInv
<1> QED
    BY <1>3, <1>4, <1>5 DEF MemoryInv, In

LEMMA KernelMemory == ASSUME Sound, MemoryInv, enqueue_kernel PROVE MemoryInv'
<1>1. PICK n \in Commands : /\ n.id = NewEvent /\ n.op = "kernel"
                            /\ Made \cap Ids(pending) \subseteq n.deps
                            /\ pending' = pending \union {n}
    BY KernelQueued
<1>2. /\ call # None /\ call' # None /\ Made' = Made \union {NewEvent}
      /\ call'.blocking = call.blocking /\ call'.vectors = call.vectors
      /\ Last(call'.made) = NewEvent /\ n.op \notin Copies
      /\ call'.blocking => call'.pc = "wait"
      /\ ~call'.blocking => call'.pc = "return"
    BY <1>1, KernelIs DEF Copies
<1>3. \A c \in pending' : c.op \in Copies =>
          call' # None /\ c.id \in Made' /\ call'.blocking
    BY <1>1, <1>2, CopiesAre
<1>4. Awaited' = NewEvent /\ Ids(pending)' = Ids(pending) \union {NewEvent}
    BY <1>1, <1>2 DEF Awaited, Ids
<1>5. ASSUME NEW e \in Made' \cap Ids(pending)'
      PROVE  \E c \in pending' : c.id = Awaited' /\ (e = c.id \/ e \in c.deps)
    <2>1. e = n.id \/ e \in n.deps
        BY <1>1, <1>2, <1>4
    <2> QED
        BY <1>1, <1>4, <2>1
<1>6. call'.vectors > 0 => call'.blocking
    BY <1>2 DEF MemoryInv
<1>7. In("wait")' => call'.blocking
    BY <1>2 DEF In
<1>8. ~(In("return")' /\ call'.blocking)
    BY <1>2 DEF In
<1> QED
    BY <1>3, <1>5, <1>6, <1>7, <1>8 DEF MemoryInv

LEMMA EndMemory == ASSUME Sound, MemoryInv, fail \/ wait_ PROVE MemoryInv'
<1>1. /\ call # None /\ call' # None /\ Made' = Made /\ pending' = pending
      /\ call'.blocking = call.blocking /\ call'.vectors = call.vectors
      /\ call'.pc = "return"
    BY EndIs
<1>2. Ids(pending)' = Ids(pending)
    BY <1>1 DEF Ids
<1>3. wait_ => Made \cap Ids(pending) = {}
    <2> SUFFICES ASSUME wait_, NEW e \in Made \cap Ids(pending) PROVE FALSE
        OBVIOUS
    <2>1. In("wait") /\ Awaited \notin Ids(pending)
        BY DEF wait_
    <2>2. \E c \in pending : c.id = Awaited
        BY <2>1 DEF MemoryInv
    <2> QED
        BY <2>1, <2>2 DEF Ids
<1>4. fail => call'.failed
    BY EndIs
<1>5. In("return")' /\ call'.blocking /\ ~call'.failed => Made' \cap Ids(pending)' = {}
    BY <1>1, <1>2, <1>3, <1>4
<1>6. ~In("wait")'
    BY <1>1 DEF In
<1>7. call'.vectors > 0 => call'.blocking
    BY <1>1 DEF MemoryInv
<1>8. \A c \in pending' : c.op \in Copies =>
          call' # None /\ c.id \in Made' /\ call'.blocking
    BY <1>1 DEF MemoryInv
<1> QED
    BY <1>5, <1>6, <1>7, <1>8 DEF MemoryInv

LEMMA CompleteMemory ==
    ASSUME Sound, MemoryInv, NEW c \in pending, complete(c)
    PROVE  MemoryInv'
<1>1. /\ Ids(pending') = Ids(pending) \ {c.id} /\ c.deps = {}
      /\ \A d \in pending' : \E o \in pending \ {c} : d.id = o.id /\ d.op = o.op
      /\ \A o \in pending \ {c} : \E d \in pending' :
            d.id = o.id /\ d.op = o.op /\ d.deps = o.deps \ {c.id}
    BY Completes DEF Sound
<1>2. call' = call /\ Made' = Made /\ Awaited' = Awaited /\ \A pc : In(pc)' <=> In(pc)
    BY DEF complete, Made, Awaited, In
<1>3. Ids(pending)' = Ids(pending')
    BY DEF Ids
<1>4. \A d \in pending' : d.op \in Copies =>
          call' # None /\ d.id \in Made' /\ call'.blocking
    BY <1>1, <1>2 DEF MemoryInv
<1>5. ASSUME In("wait"), NEW e \in Made \cap (Ids(pending) \ {c.id})
      PROVE  \E d \in pending' : d.id = Awaited /\ (e = d.id \/ e \in d.deps)
    <2>1. PICK o \in pending : o.id = Awaited /\ (e = o.id \/ e \in o.deps)
        BY <1>5 DEF MemoryInv
    <2>2. o # c
        BY <1>1, <1>5, <2>1
    <2>3. PICK d \in pending' : d.id = o.id /\ d.deps = o.deps \ {c.id}
        BY <1>1, <2>1, <2>2
    <2> QED
        BY <1>5, <2>1, <2>3
<1>6. In("wait")' => /\ call'.blocking
                     /\ \A e \in Made' \cap Ids(pending)' : \E d \in pending' :
                            d.id = Awaited' /\ (e = d.id \/ e \in d.deps)
    BY <1>1, <1>2, <1>3, <1>5 DEF MemoryInv
<1>7. In("return")' /\ call'.blocking /\ ~call'.failed => Made' \cap Ids(pending)' = {}
    BY <1>1, <1>2, <1>3 DEF MemoryInv
<1>8. call' # None /\ call'.vectors > 0 => call'.blocking
    BY <1>2 DEF MemoryInv
<1> QED
    BY <1>4, <1>6, <1>7, <1>8 DEF MemoryInv

LEMMA MemoryStep ==
    ASSUME Sound, Outcome, MemoryInv, [Next]_vars
    PROVE  MemoryInv'
<1>1. CASE call' = None /\ call = None
           /\ \/ \E k \in Kinds : (k # "kernels" /\ create(k)) \/ release(k)
              \/ create_kernel \/ release_events
    <2>1. pending' = pending
        BY <1>1 DEF create, release, Rest, create_kernel, release_events
    <2> QED
        BY <1>1, <2>1, MemoryQuiet
<1>2. CASE return
    <2>1. call' = None /\ pending' = pending /\ In("return")
        BY <1>2 DEF return
    <2>2. \A c \in pending' : c.op \notin Copies
        BY <2>1, NoneLeft
    <2> QED
        BY <2>1, <2>2 DEF MemoryInv, In
<1>3. CASE UNCHANGED vars
    <2>1. call' = call /\ pending' = pending /\ Made' = Made /\ Awaited' = Awaited
          /\ Ids(pending)' = Ids(pending) /\ \A pc : In(pc)' <=> In(pc)
        BY <1>3 DEF vars, Made, Awaited, Ids, In
    <2> QED
        BY <2>1 DEF MemoryInv
<1> QED
    BY <1>1, <1>2, <1>3, Steps, FillMemory, TransferMemory, BeginMemory, SetArgMemory,
       BarrierMemory, KernelMemory, EndMemory, CompleteMemory

\* The memory of the caller is not used after the call that it was given to, and a
\* call that blocks leaves nothing in the queue, however long commands take.
THEOREM MemoryIsKept ==
    ASSUME ~FailLate
    PROVE  Spec => []MemoryValid
<1>1. Init => Outcome /\ MemoryInv
    BY DEF Init, Outcome, MemoryInv, In
<1>2. Sound /\ Outcome /\ MemoryInv /\ [Next]_vars => Outcome' /\ MemoryInv'
    BY OutcomeStep, MemoryStep
<1>3. Outcome /\ MemoryInv => MemoryValid
    <2> SUFFICES ASSUME Outcome, MemoryInv, NEW c \in pending
                 PROVE  /\ c.op \in Copies => call # None /\ call.pc # "return" /\ c.id \in Made
                        /\ In("return") /\ call.blocking /\ ~call.failed => c.id \notin Made
        BY DEF MemoryValid, Copies
    <2>1. c.op \in Copies => call # None /\ call.pc # "return" /\ c.id \in Made
        BY NoneLeft DEF MemoryInv, In
    <2>2. In("return") /\ call.blocking /\ ~call.failed => c.id \notin Made
        BY DEF MemoryInv, Ids
    <2> QED
        BY <2>1, <2>2
<1> QED
    BY <1>1, <1>2, <1>3, InitSound, SoundInductive, PTL DEF Spec

-----------------------------------------------------------------------------
\* Objects.

\* An object that exists has a handle, of its own, or belongs to the call.
ObjectInv ==
    /\ \A k \in Kinds : \A h \in Handles(k) :
           tables[k][h] \in live /\ tables[k][h] \notin Temporary
    /\ \A o \in live :
           o \in Temporary \/ \E k \in Kinds : \E h \in Handles(k) : tables[k][h] = o
    /\ \A k, l \in Kinds : \A h \in Handles(k), j \in Handles(l) :
           tables[k][h] = tables[l][j] => k = l /\ h = j
    /\ Temporary \subseteq live

\* Nothing has changed but that new objects belong to the call.
LEMMA ObjectsKept ==
    ASSUME ObjectInv, NEW new, new \cap live = {}, tables' = tables,
           live' = live \union new, Temporary' = Temporary \union new
    PROVE  ObjectInv'
<1>1. \A k : Handles(k)' = Handles(k)
    BY DEF Handles
<1>2. \A k \in Kinds : \A h \in Handles(k) :
          tables[k][h] \in live' /\ tables[k][h] \notin Temporary'
    BY DEF ObjectInv
<1>3. \A o \in live' :
          o \in Temporary' \/ \E k \in Kinds : \E h \in Handles(k) : tables[k][h] = o
    BY DEF ObjectInv
<1>4. Temporary' \subseteq live'
    BY DEF ObjectInv
<1> QED
    BY <1>1, <1>2, <1>3, <1>4 DEF ObjectInv

LEMMA ObjectsStay ==
    ASSUME ObjectInv, tables' = tables, live' = live, Temporary' = Temporary
    PROVE  ObjectInv'
<1>1. {} \cap live = {} /\ live' = live \union {} /\ Temporary' = Temporary \union {}
    OBVIOUS
<1> QED
    BY <1>1, ObjectsKept

LEMMA InsertObject ==
    ASSUME Sound, ObjectInv, NEW k \in Kinds, call = None, call' = None,
           Cardinality(Unused) >= 1, Inserted(k, NewObject)
    PROVE  ObjectInv'
<1>1. NewObject \in Objects /\ NewObject \notin live
    BY SomeObject
<1>2. /\ live' = live \union {NewObject}
      /\ \A l \in Kinds \ {k} : tables'[l] = tables[l]
    BY <1>1, InsertedIs DEF Sound
<1>3. PICK h \in Nat :
        /\ h \notin Handles(k) /\ tables'[k][h] = NewObject
        /\ Used(tables'[k]) = Handles(k) \union {h}
        /\ \A j \in Handles(k) : tables'[k][j] = tables[k][j]
    BY <1>1, InsertedIs DEF Sound
<1>4. Handles(k)' = Handles(k) \union {h}
    BY <1>3 DEF Handles, Used
<1>5. \A l \in Kinds \ {k} : Handles(l)' = Handles(l)
    BY <1>2 DEF Handles
<1>6. Temporary = {} /\ Temporary' = {}
    BY DEF Temporary
<1>7. \A l \in Kinds : \A j \in Handles(l) :
          j \in Handles(l)' /\ tables'[l][j] = tables[l][j] /\ tables[l][j] \in live
    BY <1>2, <1>3, <1>4, <1>5 DEF ObjectInv
<1>8. \A l \in Kinds : \A j \in Handles(l)' :
          j \in Handles(l) \/ (l = k /\ j = h)
    BY <1>4, <1>5
<1>9. \A l \in Kinds : \A j \in Handles(l)' : tables'[l][j] \in live'
    BY <1>2, <1>3, <1>7, <1>8
<1>10. ASSUME NEW o \in live'
       PROVE  \E l \in Kinds : \E j \in Handles(l)' : tables'[l][j] = o
    <2>1. CASE o = NewObject
        BY <1>3, <1>4, <2>1
    <2>2. CASE o \in live
        BY <1>6, <1>7, <2>2 DEF ObjectInv
    <2> QED
        BY <1>2, <2>1, <2>2
<1>11. ASSUME NEW l \in Kinds, NEW m \in Kinds, NEW i \in Handles(l)', NEW j \in Handles(m)',
              tables'[l][i] = tables'[m][j]
       PROVE  l = m /\ i = j
    <2>1. CASE i \in Handles(l) /\ j \in Handles(m)
        BY <1>7, <1>11, <2>1 DEF ObjectInv
    <2>2. CASE i \in Handles(l) /\ j \notin Handles(m)
        BY <1>1, <1>3, <1>7, <1>8, <1>11, <2>2
    <2>3. CASE i \notin Handles(l) /\ j \in Handles(m)
        BY <1>1, <1>3, <1>7, <1>8, <1>11, <2>3
    <2>4. CASE i \notin Handles(l) /\ j \notin Handles(m)
        BY <1>8, <2>4
    <2> QED
        BY <2>1, <2>2, <2>3, <2>4
<1> QED
    BY <1>6, <1>9, <1>10, <1>11 DEF ObjectInv

LEMMA ReleaseObject ==
    ASSUME Sound, ObjectInv, NEW k \in Kinds, release(k)
    PROVE  ObjectInv'
<1>1. PICK h \in Handles(k) : /\ tables' = [tables EXCEPT ![k][h] = None]
                              /\ live' = live \ {tables[k][h]}
    BY DEF release
<1>2. h \in 1..Len(tables[k]) /\ tables[k] \in Seq(Objects \union {None})
    <2>1. tables[k] \in Seq(Objects \union {None})
        BY DEF Sound, Types
    <2>2. Len(tables[k]) \in Nat /\ h \in 2..Len(tables[k])
        BY <2>1, LenProperties DEF Handles
    <2> QED
        BY <2>1, <2>2
<1>3. tables'[k] = [tables[k] EXCEPT ![h] = None]
      /\ \A l \in Kinds \ {k} : tables'[l] = tables[l]
    BY <1>1 DEF Sound, Types
<1>4. /\ Len(tables'[k]) = Len(tables[k]) /\ tables'[k][h] = None
      /\ \A j \in 1..Len(tables[k]) : j # h => tables'[k][j] = tables[k][j]
    <2>1. DOMAIN tables[k] = 1..Len(tables[k])
        BY <1>2, LenProperties
    <2> QED
        BY <1>2, <1>3, <2>1, ExceptSeq
<1>5. 2..Len(tables[k]) \subseteq 1..Len(tables[k])
    BY <1>2, LenProperties
<1>6. Handles(k)' = Handles(k) \ {h}
    BY <1>4, <1>5 DEF Handles
<1>7. \A l \in Kinds \ {k} : Handles(l)' = Handles(l)
    BY <1>3 DEF Handles
<1>8. \A l \in Kinds : \A j \in Handles(l)' :
          j \in Handles(l) /\ tables'[l][j] = tables[l][j] /\ ~(l = k /\ j = h)
    BY <1>3, <1>4, <1>5, <1>6, <1>7 DEF Handles
<1>9. \A l \in Kinds : \A j \in Handles(l) : ~(l = k /\ j = h) => j \in Handles(l)'
    BY <1>6, <1>7
<1>10. Temporary = {} /\ Temporary' = {}
    BY DEF release, Rest, Temporary
<1>11. \A l \in Kinds : \A j \in Handles(l)' : tables'[l][j] \in live'
    <2> TAKE l \in Kinds
    <2> TAKE j \in Handles(l)'
    <2>1. tables[l][j] \in live /\ tables[l][j] # tables[k][h]
        BY <1>8 DEF ObjectInv
    <2> QED
        BY <1>1, <1>8, <2>1
<1>12. ASSUME NEW o \in live'
       PROVE  \E l \in Kinds : \E j \in Handles(l)' : tables'[l][j] = o
    <2>1. PICK l \in Kinds : \E j \in Handles(l) : tables[l][j] = o
        BY <1>1, <1>10 DEF ObjectInv
    <2>j. PICK j \in Handles(l) : tables[l][j] = o
        BY <2>1
    <2>2. o # tables[k][h]
        BY <1>1
    <2>3. j \in Handles(l)'
        BY <1>9, <2>j, <2>2
    <2> QED
        BY <1>8, <2>j, <2>3
<1>13. \A l, m \in Kinds : \A i \in Handles(l)', j \in Handles(m)' :
           tables'[l][i] = tables'[m][j] => l = m /\ i = j
    BY <1>8 DEF ObjectInv
<1> QED
    BY <1>10, <1>11, <1>12, <1>13 DEF ObjectInv

LEMMA ReturnObject == ASSUME ObjectInv, return PROVE ObjectInv'
<1>1. call # None /\ call' = None /\ tables' = tables
    BY DEF return, In
<1>2. live' = live \ Temporary /\ Temporary' = {}
    BY <1>1 DEF return, Temporary
<1>3. \A k : Handles(k)' = Handles(k)
    BY <1>1 DEF Handles
<1> QED
    BY <1>1, <1>2, <1>3 DEF ObjectInv

LEMMA ObjectStep ==
    ASSUME ~FailBuild, Sound, ObjectInv, [Next]_vars
    PROVE  ObjectInv'
<1>1. ASSUME NEW k \in Kinds, create(k) PROVE ObjectInv'
    <2>1. Inserted(k, NewObject) /\ call = None /\ call' = None /\ Cardinality(Unused) >= 1
        BY <1>1 DEF create, Rest, Room
    <2> QED
        BY <2>1, InsertObject
<1>2. CASE create_kernel
    <2>1. /\ Inserted("kernels", NewObject) /\ call = None /\ call' = None
          /\ Cardinality(Unused) >= 1 /\ "kernels" \in Kinds
        BY <1>2 DEF create_kernel, Room, Kinds
    <2> QED
        BY <2>1, InsertObject
<1>3. CASE \/ fill_buffer \/ release_events \/ UNCHANGED vars
           \/ \E c \in pending : complete(c)
    <2>1. tables' = tables /\ live' = live /\ call' = call
        BY <1>3 DEF fill_buffer, release_events, complete, vars
    <2>2. Temporary' = Temporary
        BY <2>1 DEF Temporary
    <2> QED
        BY <2>1, <2>2, ObjectsStay
<1>4. CASE call = None /\ (transfer \/ execute_kernel)
    <2>1. /\ tables' = tables /\ live' = live
          /\ call' # None /\ call'.buffers = {} /\ ~call'.temporary
        BY <1>4, TransferIs, ExecuteKernelIs DEF execute_kernel
    <2>2. Temporary = {} /\ Temporary' = {}
        BY <1>4, <2>1 DEF Temporary
    <2> QED
        BY <2>1, <2>2, ObjectsStay
<1>5. CASE call = None /\ execute
    <2>1. /\ tables' = tables /\ live' = live \union {NewObject} /\ NewObject \notin live
          /\ call' # None /\ call'.buffers = {} /\ call'.temporary /\ call'.kernel = NewObject
        BY <1>5, ExecuteIs DEF execute
    <2>2. Temporary = {} /\ Temporary' = {NewObject}
        BY <1>5, <2>1 DEF Temporary
    <2> QED
        BY <2>1, <2>2, ObjectsKept
<1>6. CASE set_kernel_arg
    <2>1. /\ tables' = tables /\ live' = live \union {NewObject} /\ NewObject \notin live
          /\ call # None /\ call' # None /\ call'.buffers = call.buffers \union {NewObject}
          /\ call'.temporary = call.temporary /\ call'.kernel = call.kernel
        BY <1>6, SetArgIs
    <2>2. Temporary' = Temporary \union {NewObject}
        BY <2>1 DEF Temporary
    <2> QED
        BY <2>1, <2>2, ObjectsKept
<1>7. CASE barrier \/ enqueue_kernel \/ fail \/ wait_
    <2>1. /\ tables' = tables /\ live' = live
          /\ call # None /\ call' # None /\ call'.buffers = call.buffers
          /\ call'.temporary = call.temporary /\ call'.kernel = call.kernel
        BY <1>7, BarrierIs, KernelIs, EndIs
    <2>2. Temporary' = Temporary
        BY <2>1 DEF Temporary
    <2> QED
        BY <2>1, <2>2, ObjectsStay
<1>8. CASE return
    BY <1>8, ReturnObject
<1> QED
    BY <1>1, <1>2, <1>3, <1>4, <1>5, <1>6, <1>7, <1>8, Steps, ReleaseObject

LEMMA ObjectsOwned == ObjectInv => Owned
<1> SUFFICES ASSUME ObjectInv PROVE Owned
    OBVIOUS
<1> DEFINE places == UNION {{<<k, h>> : h \in Handles(k)} : k \in Kinds}
           At(p) == tables[p[1]][p[2]]
<1>1. \A k \in Kinds : \A h \in Handles(k) : <<k, h>> \in places
    OBVIOUS
<1>2. \A p \in places : \E k \in Kinds : \E h \in Handles(k) : p = <<k, h>>
    OBVIOUS
<1>3. \A k, h : At(<<k, h>>) = tables[k][h]
    OBVIOUS
<1> HIDE DEF places, At
<1>4. \A p \in places : At(p) \in live /\ At(p) \notin Temporary
    BY <1>2, <1>3 DEF ObjectInv
<1>5. ASSUME NEW o \in live, o \notin Temporary PROVE \E p \in places : o = At(p)
    <2>1. PICK k \in Kinds : \E h \in Handles(k) : tables[k][h] = o
        BY <1>5 DEF ObjectInv
    <2>2. PICK h \in Handles(k) : tables[k][h] = o
        BY <2>1
    <2>3. <<k, h>> \in places /\ At(<<k, h>>) = o
        BY <1>1, <1>3, <2>2
    <2> QED
        BY <2>3
<1>6. live = {At(p) : p \in places} \union Temporary
    BY <1>4, <1>5 DEF ObjectInv
<1>7. ASSUME NEW p \in places, NEW q \in places, At(p) = At(q) PROVE p = q
    <2>1. PICK k \in Kinds : \E h \in Handles(k) : p = <<k, h>>
        BY <1>2
    <2>h. PICK h \in Handles(k) : p = <<k, h>>
        BY <2>1
    <2>2. PICK l \in Kinds : \E j \in Handles(l) : q = <<l, j>>
        BY <1>2
    <2>j. PICK j \in Handles(l) : q = <<l, j>>
        BY <2>2
    <2>3. k = l /\ h = j
        BY <1>3, <1>7, <2>h, <2>j DEF ObjectInv
    <2> QED
        BY <2>h, <2>j, <2>3
<1>8. /\ live = {At(p) : p \in places} \union Temporary
      /\ \A p \in places : At(p) \notin Temporary
      /\ \A p, q \in places : At(p) = At(q) => p = q
    BY <1>4, <1>6, <1>7
<1> QED
    BY <1>8 DEF Owned, places, At

\* Objects are not lost, released twice or reached by two handles, whatever is
\* created and released in the tables and by calls that fail or end.
THEOREM ObjectsAreOwned ==
    ASSUME ~FailBuild
    PROVE  Spec => []Owned
<1>1. Init => ObjectInv
    <2> SUFFICES ASSUME Init PROVE ObjectInv
        OBVIOUS
    <2>1. \A k \in Kinds : Handles(k) = {}
        <3>1. \A k \in Kinds : tables[k] = <<None>>
            BY DEF Init
        <3>2. Len(<<None>>) = 1 /\ 2..1 = {}
            OBVIOUS
        <3> QED
            BY <3>1, <3>2 DEF Handles
    <2> QED
        BY <2>1 DEF Init, ObjectInv, Temporary
<1>2. Sound /\ ObjectInv /\ [Next]_vars => ObjectInv'
    BY ObjectStep
<1> QED
    BY <1>1, <1>2, ObjectsOwned, InitSound, SoundInductive, PTL DEF Spec

\* All that the runs check of objects, events and memory in every state, if no
\* program fails to be built, no command fails where others are in the
\* queue, and scripts do not ask for events that are not made.
THEOREM ComputeSafe ==
    ASSUME ~FailLate, ~FailBuild, ~NullEvents
    PROVE  Spec => []Inv
<1> QED
    BY ComputeTypes, ObjectsAreOwned, EventsAreOwned, MemoryIsKept, PTL DEF Inv

-----------------------------------------------------------------------------
(* Collision detection: sequences.                                         *)

LEMMA SetInduction ==
    ASSUME NEW S, 0 \in S, \A n \in Nat : n \in S => n + 1 \in S
    PROVE  \A n \in Nat : n \in S
<1> DEFINE R == {p \in Nat \X Nat : p[1] < p[2]}
           T == Nat \ S
<1>1. IsWellFoundedOn(R, Nat)
  BY NatLessThanWellFounded, Zenon DEF OpToRel
<1>2. ASSUME T # {} PROVE FALSE
  <2>1. PICK x \in T : \A y \in T : <<y, x>> \notin R
    <3> HIDE DEF R
    <3> QED
      BY <1>1, <1>2, WFMin, T \subseteq Nat, Zenon
  <2>2. x # 0 /\ x \in Nat
    OBVIOUS
  <2>3. x - 1 \in Nat /\ x - 1 < x /\ (x - 1) + 1 = x
    BY <2>2
  <2>4. x - 1 \in S
    BY <2>1, <2>2, <2>3
  <2> QED
    BY <2>2, <2>3, <2>4
<1> QED
  BY <1>2

(* What is kept of the first elements of s. *)
Keeps(g, s, S, n) ==
    g = [i \in 0..n |->
            IF i = 0 THEN <<>>
            ELSE IF s[i] \in S THEN Append(g[i - 1], s[i]) ELSE g[i - 1]]

LEMMA KeepsAt ==
    ASSUME NEW g, NEW s, NEW S, NEW n \in Nat, Keeps(g, s, S, n), NEW i \in 0..n
    PROVE  /\ i = 0 => g[i] = <<>>
           /\ i # 0 /\ s[i] \in S => g[i] = Append(g[i - 1], s[i])
           /\ i # 0 /\ s[i] \notin S => g[i] = g[i - 1]
<1> DEFINE e(j) == IF j = 0 THEN <<>>
                   ELSE IF s[j] \in S THEN Append(g[j - 1], s[j]) ELSE g[j - 1]
<1>1. g = [j \in 0..n |-> e(j)]
  BY Zenon DEF Keeps
<1>2. g[i] = e(i)
  <2> HIDE DEF e
  <2> QED
    BY <1>1, Zenon
<1> QED
  BY <1>2, Zenon

LEMMA KeepsExists ==
    ASSUME NEW s, NEW S, NEW m \in Nat
    PROVE  \E g : Keeps(g, s, S, m)
<1> DEFINE T == {n \in Nat : \E g : Keeps(g, s, S, n)}
<1>1. 0 \in T
  <2>1. Keeps([i \in 0..0 |-> <<>>], s, S, 0)
    BY DEF Keeps
  <2> QED
    BY <2>1
<1>2. ASSUME NEW n \in Nat, n \in T PROVE n + 1 \in T
  <2>1. PICK g : Keeps(g, s, S, n)
    BY <1>2
  <2> DEFINE last == IF s[n + 1] \in S THEN Append(g[n], s[n + 1]) ELSE g[n]
             h == [i \in 0..(n + 1) |-> IF i <= n THEN g[i] ELSE last]
  <2>2. ASSUME NEW i \in 0..(n + 1)
        PROVE  h[i] = IF i = 0 THEN <<>>
                      ELSE IF s[i] \in S THEN Append(h[i - 1], s[i]) ELSE h[i - 1]
    <3>1. CASE i <= n
      <4>1. h[i] = g[i] /\ (i # 0 => h[i - 1] = g[i - 1])
        BY <3>1
      <4>2. i \in 0..n
        BY <3>1
      <4>3. /\ i = 0 => g[i] = <<>>
            /\ i # 0 /\ s[i] \in S => g[i] = Append(g[i - 1], s[i])
            /\ i # 0 /\ s[i] \notin S => g[i] = g[i - 1]
        BY <2>1, <4>2, KeepsAt, Zenon
      <4> HIDE DEF h
      <4> QED
        BY <4>1, <4>3, Zenon
    <3>2. CASE i = n + 1
      BY <3>2
    <3> QED
      BY <3>1, <3>2
  <2>3. h = [i \in 0..(n + 1) |->
                IF i = 0 THEN <<>>
                ELSE IF s[i] \in S THEN Append(h[i - 1], s[i]) ELSE h[i - 1]]
    <3>1. DOMAIN h = 0..(n + 1) /\ h = [i \in 0..(n + 1) |-> h[i]]
      OBVIOUS
    <3> HIDE DEF h
    <3> QED
      BY <2>2, <3>1
  <2>4. Keeps(h, s, S, n + 1)
    <3> HIDE DEF h
    <3> QED
      BY <2>3 DEF Keeps
  <2> QED
    BY <2>4
<1> HIDE DEF T
<1>3. m \in T
  BY <1>1, <1>2, SetInduction
<1> QED
  BY <1>3 DEF T

(* Among() is what it is defined to be, of which there is one. *)
LEMMA AmongKeeps ==
    ASSUME NEW s, NEW S, Len(s) \in Nat
    PROVE  \E g : Keeps(g, s, S, Len(s)) /\ Among(s, S) = g[Len(s)]
<1> DEFINE P(g) == g = [i \in 0..Len(s) |->
                IF i = 0 THEN <<>>
                ELSE IF s[i] \in S THEN Append(g[i - 1], s[i]) ELSE g[i - 1]]
<1>1. \E g : P(g)
  <2>1. \E g : Keeps(g, s, S, Len(s))
    BY KeepsExists, Zenon
  <2> QED
    BY <2>1, Zenon DEF Keeps
<1>2. P(CHOOSE g : P(g))
  <2> HIDE DEF P
  <2> QED
    BY <1>1
<1>3. Among(s, S) = (CHOOSE g : P(g))[Len(s)]
  BY DEF Among
<1>4. Keeps(CHOOSE g : P(g), s, S, Len(s))
  BY <1>2 DEF Keeps
<1> HIDE DEF P
<1> QED
  BY <1>3, <1>4

LEMMA AmongKept ==
    ASSUME NEW A, NEW s \in Seq(A), NEW S, NEW g, Keeps(g, s, S, Len(s))
    PROVE  \A n \in 0..Len(s) :
            /\ g[n] \in Seq(A \cap S)
            /\ \A x : (\E k \in DOMAIN g[n] : g[n][k] = x)
                    <=> x \in S /\ \E j \in 1..n : s[j] = x
            /\ IsInjective(s) => IsInjective(g[n])
<1> DEFINE m == Len(s)
           Kept(n) == /\ g[n] \in Seq(A \cap S)
                      /\ \A x : (\E k \in DOMAIN g[n] : g[n][k] = x)
                            <=> x \in S /\ \E j \in 1..n : s[j] = x
                      /\ IsInjective(s) => IsInjective(g[n])
           T == {n \in Nat : n <= m => Kept(n)}
<1>0. m \in Nat /\ DOMAIN s = 1..m
  BY LenProperties
<1>1. 0 \in T
  <2>1. g[0] = <<>>
    BY <1>0, KeepsAt
  <2>2. Kept(0)
    BY <2>1 DEF IsInjective
  <2> HIDE DEF Kept
  <2> QED
    BY <2>2
<1>2. ASSUME NEW n \in Nat, n \in T PROVE n + 1 \in T
  <2> SUFFICES ASSUME n + 1 <= m PROVE Kept(n + 1)
    <3> HIDE DEF Kept
    <3> QED
      OBVIOUS
  <2> DEFINE x == s[n + 1]
             t == g[n]
             u == g[n + 1]
  <2>1. /\ t \in Seq(A \cap S)
        /\ \A y : (\E k \in DOMAIN t : t[k] = y)
                <=> y \in S /\ \E j \in 1..n : s[j] = y
        /\ IsInjective(s) => IsInjective(t)
    BY <1>0, <1>2
  <2>2. x \in A /\ n + 1 \in 1..m
    BY <1>0, ElementOfSeq
  <2>3. /\ x \in S => u = Append(t, x)
        /\ x \notin S => u = t
    BY <1>0, <2>2, KeepsAt
  <2>4. \A y : (\E j \in 1..(n + 1) : s[j] = y) <=> y = x \/ \E j \in 1..n : s[j] = y
    OBVIOUS
  <2>5. IsInjective(s) => \A j \in 1..n : s[j] # x
    BY <1>0, <2>2 DEF IsInjective
  <2>6. CASE x \notin S
    <3> HIDE DEF x, t, u
    <3> QED
      BY <2>1, <2>3, <2>4, <2>6 DEF u
  <2>7. CASE x \in S
    <3> DEFINE l == Len(t)
    <3>1. /\ u \in Seq(A \cap S) /\ Len(u) = l + 1
          /\ l \in Nat /\ DOMAIN t = 1..l /\ DOMAIN u = 1..(l + 1)
          /\ \A k \in 1..l : u[k] = t[k]
          /\ u[l + 1] = x
      <4> HIDE DEF x, t, u
      <4>1. x \in A \cap S /\ u = Append(t, x)
        BY <2>2, <2>3, <2>7 DEF x
      <4>2. t \in Seq(A \cap S)
        BY <2>1
      <4> QED
        BY <4>1, <4>2, AppendProperties, LenProperties
    <3>2. \A y : (\E k \in DOMAIN u : u[k] = y)
                <=> y \in S /\ \E j \in 1..(n + 1) : s[j] = y
      <4> HIDE DEF x, t, u, l
      <4>1. \A y : (\E k \in DOMAIN u : u[k] = y)
                    <=> y = x \/ \E k \in DOMAIN t : t[k] = y
        BY <3>1
      <4> QED
        BY <4>1, <2>1, <2>4, <2>7
    <3>3. IsInjective(s) => IsInjective(u)
      <4> SUFFICES ASSUME IsInjective(s) PROVE IsInjective(u)
        OBVIOUS
      <4> HIDE DEF x, t, u, l
      <4>1. \A k \in 1..l : t[k] # x
        BY <2>1, <2>5, <3>1
      <4> QED
        BY <2>1, <3>1, <4>1 DEF IsInjective
    <3> QED
      BY <3>1, <3>2, <3>3 DEF u
  <2> QED
    BY <2>6, <2>7
<1> HIDE DEF T
<1>3. \A n \in Nat : n \in T
  BY <1>1, <1>2, SetInduction
<1> QED
  BY <1>0, <1>3 DEF T

(* The elements of a sequence that are chosen, each as often.              *)
LEMMA AmongIs ==
    ASSUME NEW A, NEW s \in Seq(A), NEW S
    PROVE  /\ Among(s, S) \in Seq(A \cap S)
           /\ ToSet(Among(s, S)) = ToSet(s) \cap S
           /\ IsInjective(s) => IsInjective(Among(s, S))
<1>1. Len(s) \in Nat /\ DOMAIN s = 1..Len(s)
  BY LenProperties
<1>2. PICK g : Keeps(g, s, S, Len(s)) /\ Among(s, S) = g[Len(s)]
  BY <1>1, AmongKeeps
<1> DEFINE t == g[Len(s)]
<1>3. /\ t \in Seq(A \cap S)
      /\ \A x : (\E k \in DOMAIN t : t[k] = x)
                <=> x \in S /\ \E j \in 1..Len(s) : s[j] = x
      /\ IsInjective(s) => IsInjective(t)
  <2>1. Len(s) \in 0..Len(s)
    BY <1>1
  <2> QED
    BY <1>2, <2>1, AmongKept, Zenon
<1> HIDE DEF t
<1> QED
  BY <1>1, <1>2, <1>3 DEF ToSet, t

LEMMA ConcatOnce ==
    ASSUME NEW A, NEW a \in Seq(A), NEW b \in Seq(A), IsInjective(a), IsInjective(b),
           ToSet(a) \cap ToSet(b) = {}
    PROVE  IsInjective(a \o b)
<1> DEFINE m == Len(a)
           n == Len(b)
           c == a \o b
<1>1. /\ m \in Nat /\ n \in Nat /\ DOMAIN a = 1..m /\ DOMAIN b = 1..n
      /\ DOMAIN c = 1..(m + n)
      /\ \A i \in 1..(m + n) : c[i] = IF i <= m THEN a[i] ELSE b[i - m]
  BY ConcatProperties, LenProperties
<1>2. \A i \in 1..m, j \in 1..n : a[i] # b[j]
  BY <1>1 DEF ToSet
<1>3. /\ \A i, j \in 1..m : a[i] = a[j] => i = j
      /\ \A i, j \in 1..n : b[i] = b[j] => i = j
  BY <1>1 DEF IsInjective
<1> SUFFICES ASSUME NEW i \in 1..(m + n), NEW j \in 1..(m + n), c[i] = c[j]
             PROVE  i = j
  BY <1>1 DEF IsInjective
<1> HIDE DEF m, n, c
<1>4. CASE i <= m /\ j <= m
  BY <1>1, <1>3, <1>4
<1>5. CASE i > m /\ j > m
  <2>1. i - m \in 1..n /\ j - m \in 1..n /\ b[i - m] = b[j - m]
    BY <1>1, <1>5
  <2> QED
    BY <1>1, <1>3, <2>1
<1>6. CASE i <= m /\ j > m
  BY <1>1, <1>2, <1>6
<1>7. CASE i > m /\ j <= m
  BY <1>1, <1>2, <1>7
<1> QED
  BY <1>1, <1>4, <1>5, <1>6, <1>7

LEMMA ConcatSet ==
    ASSUME NEW A, NEW a \in Seq(A), NEW b \in Seq(A)
    PROVE  ToSet(a \o b) = ToSet(a) \cup ToSet(b)
<1> DEFINE m == Len(a)
           n == Len(b)
           c == a \o b
<1>1. /\ m \in Nat /\ n \in Nat /\ DOMAIN a = 1..m /\ DOMAIN b = 1..n
      /\ DOMAIN c = 1..(m + n)
      /\ \A i \in 1..(m + n) : c[i] = IF i <= m THEN a[i] ELSE b[i - m]
  BY ConcatProperties, LenProperties
<1> HIDE DEF m, n, c
<1>2. ASSUME NEW i \in 1..(m + n) PROVE c[i] \in ToSet(a) \cup ToSet(b)
  <2>1. CASE i <= m
    BY <1>1, <2>1 DEF ToSet
  <2>2. CASE i > m
    <3>1. i - m \in 1..n /\ c[i] = b[i - m]
      BY <1>1, <2>2
    <3> QED
      BY <1>1, <3>1 DEF ToSet
  <2> QED
    BY <1>1, <2>1, <2>2
<1>3. ASSUME NEW i \in 1..m PROVE i \in 1..(m + n) /\ c[i] = a[i]
  BY <1>1
<1>4. ASSUME NEW i \in 1..n PROVE i + m \in 1..(m + n) /\ c[i + m] = b[i]
  <2>1. i + m \in 1..(m + n) /\ ~(i + m <= m) /\ (i + m) - m = i
    BY <1>1
  <2> QED
    BY <1>1, <2>1
<1>5. ToSet(c) \subseteq ToSet(a) \cup ToSet(b)
  BY <1>1, <1>2 DEF ToSet
<1>6. ToSet(a) \subseteq ToSet(c)
  BY <1>1, <1>3 DEF ToSet
<1>7. ToSet(b) \subseteq ToSet(c)
  BY <1>1, <1>4 DEF ToSet
<1> QED
  BY <1>5, <1>6, <1>7 DEF c

LEMMA ElementsOnce ==
    ASSUME NEW A, NEW s \in Seq(A), IsInjective(s)
    PROVE  IsFiniteSet(ToSet(s)) /\ Cardinality(ToSet(s)) = Len(s)
<1>1. Len(s) \in Nat /\ DOMAIN s = 1..Len(s) /\ s \in [1..Len(s) -> A]
  BY LenProperties
<1>2. s \in Bijection(1..Len(s), ToSet(s))
  BY <1>1 DEF Bijection, Injection, Surjection, IsInjective, ToSet
<1>3. ExistsBijection(1..Len(s), ToSet(s))
  BY <1>2 DEF ExistsBijection
<1> QED
  BY <1>1, <1>3, FS_CountingElements, FS_NatBijection

(* A set in some order. *)
LEMMA LoopsInOrder ==
    ASSUME NEW S, IsFiniteSet(S), NEW s \in SetToSeqs(S)
    PROVE  /\ s \in Seq(S) /\ Len(s) = Cardinality(S) /\ DOMAIN s = 1..Cardinality(S)
           /\ IsInjective(s) /\ ToSet(s) = S
<1> DEFINE n == Cardinality(S)
<1>1. n \in Nat
  BY FS_CardinalityType
<1>2. s \in [1..n -> S] /\ IsInjective(s)
  BY DEF SetToSeqs, IsInjective
<1>3. s \in Seq(S) /\ Len(s) = n
  BY <1>1, <1>2, IsASeq, LenProperties
<1>4. s \in Injection(1..n, S)
  BY <1>2 DEF Injection
<1>5. IsFiniteSet(1..n) /\ Cardinality(1..n) = n
  BY <1>1, FS_Interval
<1>6. s \in Surjection(1..n, S)
  <2> HIDE DEF n
  <2> QED
    BY <1>4, <1>5, FS_Injection DEF n
<1> QED
  BY <1>2, <1>3, <1>6 DEF Surjection, ToSet

LEMMA RemoveAtIs ==
    ASSUME NEW S, NEW s \in Seq(S), NEW i \in DOMAIN s
    PROVE  /\ RemoveAt(s, i) \in Seq(S)
           /\ DOMAIN RemoveAt(s, i) = 1..(Len(s) - 1)
           /\ \A j \in 1..(Len(s) - 1) :
               RemoveAt(s, i)[j] = IF j < i THEN s[j] ELSE s[j + 1]
<1> DEFINE l == Len(s)
           a == SubSeq(s, 1, i - 1)
           b == SubSeq(s, i + 1, l)
<1>1. l \in Nat /\ DOMAIN s = 1..l /\ \A j \in 1..l : s[j] \in S
  BY LenProperties, ElementOfSeq
<1>2. i \in 1..l
  BY <1>1
<1>3. RemoveAt(s, i) = a \o b
  BY DEF RemoveAt
<1>4. a \in Seq(S) /\ Len(a) = (IF 1 <= i - 1 THEN i - 1 - 1 + 1 ELSE 0)
      /\ \A j \in 1..(i - 1 - 1 + 1) : a[j] = s[1 + j - 1]
  BY <1>1, <1>2, SubSeqProperties
<1>5. b \in Seq(S) /\ Len(b) = (IF i + 1 <= l THEN l - (i + 1) + 1 ELSE 0)
      /\ \A j \in 1..(l - (i + 1) + 1) : b[j] = s[i + 1 + j - 1]
  BY <1>1, <1>2, SubSeqProperties
<1> HIDE DEF a, b, l
<1>6. Len(a) = i - 1 /\ Len(b) = l - i
  BY <1>1, <1>2, <1>4, <1>5
<1>7. /\ a \o b \in Seq(S) /\ Len(a \o b) = Len(a) + Len(b)
      /\ \A j \in 1..(Len(a) + Len(b)) : (a \o b)[j] =
            IF j <= Len(a) THEN a[j] ELSE b[j - Len(a)]
  BY <1>4, <1>5, ConcatProperties
<1>8. Len(a \o b) = l - 1 /\ l - 1 \in Nat
  BY <1>1, <1>2, <1>6, <1>7
<1>9. DOMAIN (a \o b) = 1..(l - 1)
  BY <1>7, <1>8, LenProperties
<1>10. ASSUME NEW j \in 1..(l - 1)
       PROVE  (a \o b)[j] = IF j < i THEN s[j] ELSE s[j + 1]
  <2>1. (a \o b)[j] = IF j <= i - 1 THEN a[j] ELSE b[j - (i - 1)]
    BY <1>1, <1>2, <1>6, <1>7
  <2>2. CASE j < i
    <3>1. j <= i - 1 /\ j \in 1..(i - 1 - 1 + 1) /\ 1 + j - 1 = j
      BY <1>1, <1>2, <2>2
    <3> QED
      BY <1>4, <2>1, <2>2, <3>1
  <2>3. CASE ~(j < i)
    <3>1. ~(j <= i - 1) /\ j - (i - 1) \in 1..(l - (i + 1) + 1)
          /\ i + 1 + (j - (i - 1)) - 1 = j + 1
      BY <1>1, <1>2, <2>3
    <3> QED
      BY <1>5, <2>1, <2>3, <3>1
  <2> QED
    BY <2>2, <2>3
<1> QED
  BY <1>3, <1>7, <1>9, <1>10 DEF l

(* The others, each once. *)
LEMMA RemoveAtMoves ==
    ASSUME NEW S, NEW s \in Seq(S), NEW i \in DOMAIN s
    PROVE  LET r == RemoveAt(s, i) IN
           \E at \in [DOMAIN r -> DOMAIN s \ {i}] :
            /\ \A j, k \in DOMAIN r : at[j] = at[k] => j = k
            /\ \A k \in DOMAIN s \ {i} : \E j \in DOMAIN r : at[j] = k
            /\ \A j \in DOMAIN r : r[j] = s[at[j]]
<1> DEFINE r == RemoveAt(s, i)
           l == Len(s)
           at == [j \in DOMAIN r |-> IF j < i THEN j ELSE j + 1]
<1>1. l \in Nat /\ DOMAIN s = 1..l
  BY LenProperties
<1>2. /\ DOMAIN r = 1..(l - 1)
      /\ \A j \in 1..(l - 1) : r[j] = IF j < i THEN s[j] ELSE s[j + 1]
  BY RemoveAtIs
<1> HIDE DEF r, l
<1>3. i \in 1..l
  BY <1>1
<1>4. \A j \in 1..(l - 1) : at[j] = IF j < i THEN j ELSE j + 1
  BY <1>2
<1>5. at \in [DOMAIN r -> DOMAIN s \ {i}]
  BY <1>1, <1>2, <1>3
<1> HIDE DEF at
<1>6. \A j, k \in DOMAIN r : at[j] = at[k] => j = k
  BY <1>1, <1>2, <1>3, <1>4
<1>7. ASSUME NEW k \in DOMAIN s \ {i} PROVE \E j \in DOMAIN r : at[j] = k
  <2>1. CASE k < i
    <3>1. k \in 1..(l - 1) /\ at[k] = k
      BY <1>1, <1>3, <1>4, <2>1
    <3> QED
      BY <1>2, <3>1
  <2>2. CASE k > i
    <3>1. k - 1 \in 1..(l - 1) /\ at[k - 1] = k
      BY <1>1, <1>3, <1>4, <2>2
    <3> QED
      BY <1>2, <3>1
  <2> QED
    BY <1>1, <1>3, <2>1, <2>2
<1>8. \A j \in DOMAIN r : r[j] = s[at[j]]
  BY <1>2, <1>4
<1> QED
  BY <1>5, <1>6, <1>7, <1>8 DEF r

-----------------------------------------------------------------------------
(* What a frame enqueues.                                                  *)

LEMMA MembersAre ==
    /\ Members \in Seq(ToSet(Members)) /\ IsInjective(Members)
    /\ \A m \in ToSet(Members) : TypeOf(m) \in AllTypes
<1>1. Members = [i \in 1..9 |-> Members[i]] /\ DOMAIN Members = 1..9
  BY DEF Members
<1>2. IsInjective(Members)
  BY <1>1 DEF Members, IsInjective
<1>3. Members \in Seq(ToSet(Members))
  BY <1>1, IsASeq DEF ToSet
<1>4. \A m \in ToSet(Members) : TypeOf(m) \in AllTypes
  BY <1>1 DEF Members, ToSet, TypeOf, AllTypes
<1> QED
  BY <1>2, <1>3, <1>4

LEMMA KernelsAre ==
    /\ Kernels \in Seq(KernelSet) /\ IsInjective(Kernels)
    /\ KernelSet = {"aabb", "bb", "sphere", "aabb_bb", "aabb_sphere", "bb_sphere",
                    "sphere_plane", "sphere_gravity"}
<1>1. Kernels = [i \in 1..8 |-> Kernels[i]] /\ DOMAIN Kernels = 1..8
  BY DEF Kernels
<1>2. IsInjective(Kernels)
  BY <1>1 DEF Kernels, IsInjective
<1>3. KernelSet = {Kernels[i] : i \in 1..8}
  BY <1>1 DEF KernelSet, ToSet
<1>4. 1..8 = {1, 2, 3, 4, 5, 6, 7, 8}
  OBVIOUS
<1>5. KernelSet = {"aabb", "bb", "sphere", "aabb_bb", "aabb_sphere", "bb_sphere",
                    "sphere_plane", "sphere_gravity"}
  BY <1>3, <1>4 DEF Kernels
<1>6. Kernels \in Seq(KernelSet)
  BY <1>1, IsASeq DEF KernelSet, ToSet
<1> QED
  BY <1>2, <1>5, <1>6

LEMMA LoopsAre ==
    Loops \in Seq(ToSet(Loops)) /\ KernelSet \subseteq ToSet(Loops)
<1>1. Loops = [i \in 1..11 |-> Loops[i]] /\ DOMAIN Loops = 1..11
  BY DEF Loops
<1>2. Loops \in Seq(ToSet(Loops))
  BY <1>1, IsASeq DEF ToSet
<1>3. \A i \in {1, 2, 3, 5, 6, 7, 8, 11} : Loops[i] \in ToSet(Loops)
  BY <1>1 DEF ToSet
<1>4. KernelSet \subseteq ToSet(Loops)
  BY <1>3, KernelsAre DEF Loops
<1> QED
  BY <1>2, <1>4

(* A kernel reads members of the types that it compares. *)
LEMMA AccessesAre ==
    ASSUME NEW k \in KernelSet
    PROVE  \A m \in Accesses(k) : m \in ToSet(Members) /\ TypeOf(m) \in Operands(k)
<1>1. \A i \in 1..9 : Members[i] \in ToSet(Members)
  BY DEF Members, ToSet
<1>2. ToSet(Members) = {"aabb", "bb", "pos", "radius", "mass", "plane",
             "gravity.pos", "gravity.mass", "gravity.max_distance2"}
  <2>1. 1..9 = {1, 2, 3, 4, 5, 6, 7, 8, 9}
    OBVIOUS
  <2>2. ToSet(Members) = {Members[i] : i \in 1..9}
    BY DEF Members, ToSet
  <2> QED
    BY <2>1, <2>2 DEF Members
<1> QED
  BY <1>2, KernelsAre DEF Accesses, Operands, TypeOf, AllTypes

LEMMA LaunchesAre ==
    ASSUME NEW A, NEW ks \in Seq(A), IsInjective(ks)
    PROVE  /\ Launches(ks) \in Seq({"barrier", "exec"} \X A)
           /\ IsInjective(Launches(ks))
           /\ ToSet(Launches(ks)) = {"barrier", "exec"} \X ToSet(ks)
<1> DEFINE n == Len(ks)
           l == Launches(ks)
<1>1. n \in Nat /\ DOMAIN ks = 1..n /\ \A i \in 1..n : ks[i] \in A
  BY LenProperties, ElementOfSeq
<1>2. /\ DOMAIN l = 1..(2 * n)
      /\ \A i \in 1..(2 * n) : l[i] = <<Kernel(i), ks[(i + 1) \div 2]>>
  BY DEF Launches
<1>3. \A i \in 1..(2 * n) : (i + 1) \div 2 \in 1..n
  BY <1>1
<1>4. \A i \in 1..(2 * n) : Kernel(i) \in {"barrier", "exec"}
  BY DEF Kernel
<1>5. \A i, j \in 1..(2 * n) :
        Kernel(i) = Kernel(j) /\ (i + 1) \div 2 = (j + 1) \div 2 => i = j
  BY <1>1 DEF Kernel
<1> HIDE DEF n, l
<1>6. l \in Seq({"barrier", "exec"} \X A)
  <2>1. \A i \in 1..(2 * n) : l[i] \in {"barrier", "exec"} \X A
    <3> SUFFICES ASSUME NEW i \in 1..(2 * n) PROVE l[i] \in {"barrier", "exec"} \X A
      OBVIOUS
    <3>1. ks[(i + 1) \div 2] \in A
      BY <1>1, <1>3
    <3>2. Kernel(i) \in {"barrier", "exec"} /\ l[i] = <<Kernel(i), ks[(i + 1) \div 2]>>
      BY <1>2, <1>4
    <3> QED
      BY <3>1, <3>2
  <2>2. 2 * n \in Nat /\ l = [i \in 1..(2 * n) |-> l[i]]
    BY <1>1 DEF l, Launches, n
  <2> QED
    BY <2>1, <2>2, IsASeq
<1>7. IsInjective(l)
  <2> SUFFICES ASSUME NEW i \in 1..(2 * n), NEW j \in 1..(2 * n), l[i] = l[j]
               PROVE  i = j
    BY <1>2 DEF IsInjective
  <2>1. Kernel(i) = Kernel(j) /\ ks[(i + 1) \div 2] = ks[(j + 1) \div 2]
    BY <1>2
  <2>2. (i + 1) \div 2 = (j + 1) \div 2
    BY <1>1, <1>3, <2>1 DEF IsInjective
  <2> QED
    BY <1>5, <2>1, <2>2
<1>8. ToSet(l) \subseteq {"barrier", "exec"} \X ToSet(ks)
  <2>1. \A i \in 1..(2 * n) : ks[(i + 1) \div 2] \in ToSet(ks)
    BY <1>1, <1>3 DEF ToSet
  <2> QED
    <3>1. ASSUME NEW i \in 1..(2 * n) PROVE l[i] \in {"barrier", "exec"} \X ToSet(ks)
      <4>1. Kernel(i) \in {"barrier", "exec"} /\ ks[(i + 1) \div 2] \in ToSet(ks)
        BY <1>4, <2>1
      <4>2. l[i] = <<Kernel(i), ks[(i + 1) \div 2]>>
        BY <1>2
      <4> QED
        BY <4>1, <4>2
    <3> QED
      BY <1>2, <3>1 DEF ToSet
<1>9. ASSUME NEW op \in {"barrier", "exec"}, NEW i \in 1..n
      PROVE  <<op, ks[i]>> \in ToSet(l)
  <2> DEFINE j == IF op = "barrier" THEN 2 * i - 1 ELSE 2 * i
  <2>1. j \in 1..(2 * n) /\ Kernel(j) = op /\ (j + 1) \div 2 = i
    BY <1>1 DEF Kernel
  <2>2. l[j] = <<op, ks[i]>>
    <3> HIDE DEF j
    <3> QED
      BY <1>2, <2>1
  <2> QED
    BY <1>2, <2>1, <2>2 DEF ToSet
<1>10. {"barrier", "exec"} \X ToSet(ks) \subseteq ToSet(l)
  BY <1>1, <1>9 DEF ToSet
<1> QED
  BY <1>6, <1>7, <1>8, <1>10 DEF l

-----------------------------------------------------------------------------
(* The inductive invariant.                                                *)

(* Scenes in which something is enqueued for the counters that are reset,  *)
(* and in which the kernel that nobody waits for is not launched (see the  *)
(* README): what the code needs for its results to be those of the frame.  *)
Waited ==
    "compute" \in Backends =>
        \A ts \in Scenes : /\ ~({"aabb", "sphere"} \subseteq ts)
                           /\ \E k \in KernelSet : Operands(k) \subseteq ts

(* A command of this frame has yet to complete. *)
Left(op, of) == Pending(op, of, frame)

Reset == ~Left("fill", "counters")

(* What is in the queue is of this frame, except uploads.                  *)
FrameEnqueued == \A i \in DOMAIN queue :
    /\ queue[i].frame <= frame
    /\ queue[i].frame = frame => queue[i].live
    /\ queue[i].op # "copy" => queue[i].frame = frame
    /\ queue[i].op = "copy" => queue[i].of \in ToSet(Members)
    /\ queue[i].op = "fill" => queue[i].of = "counters"
    /\ queue[i].op \in {"barrier", "exec"} => queue[i].of \in DOMAIN hits

(* Nothing is enqueued twice in a frame. *)
Same(c, d) == c.op = d.op /\ c.of = d.of /\ c.frame = d.frame

EnqueuedOnce == \A i, j \in DOMAIN queue : Same(queue[i], queue[j]) => i = j

(* A kernel is behind its barrier, and that behind what it waits for.  The *)
(* kernels that have not completed have not been read.                     *)
Ordered ==
    /\ ~Reset => DOMAIN hits # {} /\ \A k \in DOMAIN hits : Left("barrier", k)
    /\ \A k \in DOMAIN hits :
        /\ Left("barrier", k) => Left("exec", k)
        /\ Left("exec", k) => k \in ToSet(reads)
        /\ \A m \in Accesses(k) :
            /\ Left("copy", m) => Left("barrier", k)
            /\ backend = "compute" => Left("copy", m) \/ m \in fresh

(* The host waits for the end of each kernel it reads from, once. *)
Hosted ==
    /\ backend = "native" => queue = <<>> /\ reads = <<>>
    /\ backend = "compute" => "aabb_sphere" \notin DOMAIN hits
    /\ IsInjective(reads)

(* What is in the buffer of a kernel that has completed. *)
Wrote(k) ==
    /\ counters[k] = Cardinality(hits[k])
    /\ \E s \in SetToSeqs(hits[k]) :
        \A j \in 1..Fewer(Len(s), capacity) : buffer[k][j] = s[j]

(* Kernels that were not read have found nothing, or what they should. *)
Counted == \A k \in ToSet(reads) :
    /\ Reset /\ Left("exec", k) => counters[k] = 0
    /\ ~Left("exec", k) => Wrote(k)

(* The collisions of the kernels that were read are reported, or there was *)
(* no room for one.                                                        *)
Done == DOMAIN hits \ ToSet(reads)

FixedDone == {c \in AllFixed : c[1] \in Done}

Told ==
    /\ IsInjective(output)
    /\ \A c \in ToSet(output) : c \in Expected /\ c[1] \in Done
    /\ \/ \A c \in Expected : c[1] \in Done => c \in ToSet(output)
       \/ Len(output) + Cardinality(FixedDone) >= capacity

IInv ==
    /\ TypeOK /\ FrameEnqueued /\ EnqueuedOnce /\ Ordered /\ Hosted /\ Counted
    /\ ~Idle => Told

-----------------------------------------------------------------------------
(* The queue.                                                              *)

LEMMA Removal ==
    ASSUME TypeOK, EnqueuedOnce, NEW i \in DOMAIN queue,
           queue' = RemoveAt(queue, i), frame' = frame
    PROVE  /\ queue' \in Seq(Command) /\ EnqueuedOnce'
           /\ \A j \in DOMAIN queue' : \E k \in DOMAIN queue : queue'[j] = queue[k]
           /\ \A op, of : Left(op, of)' <=>
                /\ Left(op, of)
                /\ ~(queue[i].op = op /\ queue[i].of = of /\ queue[i].frame = frame)
<1>1. queue \in Seq(Command) /\ queue' \in Seq(Command)
  BY RemoveAtIs DEF TypeOK
<1>2. PICK at \in [DOMAIN queue' -> DOMAIN queue \ {i}] :
        /\ \A j, k \in DOMAIN queue' : at[j] = at[k] => j = k
        /\ \A k \in DOMAIN queue \ {i} : \E j \in DOMAIN queue' : at[j] = k
        /\ \A j \in DOMAIN queue' : queue'[j] = queue[at[j]]
  <2> DEFINE r == RemoveAt(queue, i)
  <2>1. \E at \in [DOMAIN r -> DOMAIN queue \ {i}] :
            /\ \A j, k \in DOMAIN r : at[j] = at[k] => j = k
            /\ \A k \in DOMAIN queue \ {i} : \E j \in DOMAIN r : at[j] = k
            /\ \A j \in DOMAIN r : r[j] = queue[at[j]]
    BY <1>1, RemoveAtMoves
  <2>2. queue' = r
    OBVIOUS
  <2> HIDE DEF r
  <2> QED
    BY <2>1, <2>2
<1>3. EnqueuedOnce'
  <2> SUFFICES ASSUME NEW j \in DOMAIN queue', NEW k \in DOMAIN queue',
                      Same(queue'[j], queue'[k])
               PROVE  j = k
    BY DEF EnqueuedOnce
  <2>1. at[j] \in DOMAIN queue /\ at[k] \in DOMAIN queue
    BY <1>2
  <2>2. Same(queue[at[j]], queue[at[k]])
    BY <1>2
  <2>3. at[j] = at[k]
    BY <2>1, <2>2, Zenon DEF EnqueuedOnce
  <2> QED
    BY <1>2, <2>3
<1>4. ASSUME NEW op, NEW of
      PROVE  Left(op, of)' <=>
                /\ Left(op, of)
                /\ ~(queue[i].op = op /\ queue[i].of = of /\ queue[i].frame = frame)
  <2>1. ASSUME Left(op, of)'
        PROVE  /\ Left(op, of)
               /\ ~(queue[i].op = op /\ queue[i].of = of /\ queue[i].frame = frame)
    <3>1. PICK j \in DOMAIN queue' : /\ queue'[j].op = op /\ queue'[j].of = of
                                     /\ queue'[j].frame = frame
      BY <2>1 DEF Left, Pending
    <3> DEFINE k == at[j]
    <3>2. /\ k \in DOMAIN queue /\ k # i
          /\ queue[k].op = op /\ queue[k].of = of /\ queue[k].frame = frame
      BY <1>2, <3>1
    <3>3. ~(queue[i].op = op /\ queue[i].of = of /\ queue[i].frame = frame)
      BY <3>2 DEF EnqueuedOnce, Same
    <3> QED
      BY <3>2, <3>3 DEF Left, Pending
  <2>2. ASSUME Left(op, of),
               ~(queue[i].op = op /\ queue[i].of = of /\ queue[i].frame = frame)
        PROVE  Left(op, of)'
    <3>1. PICK k \in DOMAIN queue : /\ queue[k].op = op /\ queue[k].of = of
                                    /\ queue[k].frame = frame
      BY <2>2 DEF Left, Pending
    <3>2. k # i
      BY <2>2, <3>1
    <3>3. PICK j \in DOMAIN queue' : at[j] = k
      BY <1>2, <3>2
    <3> QED
      BY <1>2, <3>1, <3>3 DEF Left, Pending
  <2> QED
    BY <2>1, <2>2
<1> QED
  BY <1>1, <1>2, <1>3, <1>4

LEMMA LaunchedAre ==
    ASSUME NEW ts
    PROVE  /\ Launched(ts) \in Seq(ToSet(Launched(ts)))
           /\ ToSet(Launched(ts)) = {k \in ToSet(Checks) : Operands(k) \subseteq ts}
           /\ backend # "native" => IsInjective(Launched(ts)) /\ ToSet(Checks) = KernelSet
<1> DEFINE S == {k \in ToSet(Checks) : Operands(k) \subseteq ts}
<1>1. Checks \in Seq(ToSet(Checks))
  BY KernelsAre, LoopsAre DEF Checks, KernelSet
<1>2. backend # "native" => IsInjective(Checks) /\ ToSet(Checks) = KernelSet
  BY KernelsAre DEF Checks, KernelSet
<1> HIDE DEF S
<1>3. /\ Among(Checks, S) \in Seq(ToSet(Checks) \cap S)
      /\ ToSet(Among(Checks, S)) = ToSet(Checks) \cap S
      /\ IsInjective(Checks) => IsInjective(Among(Checks, S))
  BY <1>1, AmongIs, Zenon
<1>4. ToSet(Checks) \cap S = S
  BY DEF S
<1>5. Launched(ts) = Among(Checks, S)
  BY DEF Launched, S
<1> QED
  BY <1>2, <1>3, <1>4, <1>5 DEF S

Things == ToSet(Members) \cup KernelSet \cup {"counters"}

LEMMA CommandsAre ==
    ASSUME NEW ts, backend # "native"
    PROVE  /\ FrameCommands(ts) \in Seq({"fill", "copy", "barrier", "exec"} \X Things)
           /\ IsInjective(FrameCommands(ts))
           /\ \A op, of : <<op, of>> \in ToSet(FrameCommands(ts)) <=>
                \/ op = "fill" /\ of = "counters"
                \/ op = "copy" /\ of \in ToSet(Members) /\ TypeOf(of) \in ts
                \/ op \in {"barrier", "exec"} /\ of \in ToSet(Launched(ts))
<1> DEFINE P == {"fill", "copy", "barrier", "exec"} \X Things
           a == <<<<"fill", "counters">>>>
           M == {m \in ToSet(Members) : TypeOf(m) \in ts}
           ms == Uploads(ts)
           b == [i \in DOMAIN ms |-> <<"copy", ms[i]>>]
           ks == Launched(ts)
           c == Launches(ks)
<1>1. a \in Seq(P) /\ IsInjective(a) /\ ToSet(a) = {<<"fill", "counters">>}
  <2>1. <<"fill", "counters">> \in P
    BY DEF Things
  <2> HIDE DEF P
  <2>2. DOMAIN a = 1..1 /\ a[1] = <<"fill", "counters">> /\ a \in Seq(P)
    BY <2>1
  <2> HIDE DEF a
  <2>3. IsInjective(a)
    BY <2>2 DEF IsInjective
  <2>4. ToSet(a) = {<<"fill", "counters">>}
    <3> DEFINE x == <<"fill", "counters">>
    <3>1. 1 \in DOMAIN a /\ \A i \in DOMAIN a : a[i] = x
      BY <2>2
    <3> HIDE DEF x
    <3> QED
      BY <3>1 DEF ToSet, x
  <2> QED
    BY <2>2, <2>3, <2>4
<1>2. ms \in Seq(ToSet(Members)) /\ IsInjective(ms) /\ ToSet(ms) = M
  <2>1. /\ Among(Members, M) \in Seq(ToSet(Members) \cap M)
        /\ ToSet(Among(Members, M)) = ToSet(Members) \cap M
        /\ IsInjective(Members) => IsInjective(Among(Members, M))
    <3> HIDE DEF M
    <3> QED
      BY MembersAre, AmongIs, Zenon
  <2>2. ToSet(Members) \cap M = M /\ M \subseteq ToSet(Members)
    OBVIOUS
  <2>3. ms = Among(Members, M)
    BY DEF Uploads
  <2> HIDE DEF ms, M
  <2> QED
    BY <2>1, <2>2, <2>3, MembersAre, SeqMonotonic
<1>3. b \in Seq(P) /\ IsInjective(b) /\ ToSet(b) = {"copy"} \X M
  <2> DEFINE n == Len(ms)
  <2>1. n \in Nat /\ DOMAIN ms = 1..n /\ \A i \in 1..n : ms[i] \in ToSet(Members)
    BY <1>2, LenProperties, ElementOfSeq
  <2> HIDE DEF ms, n, M
  <2>2. DOMAIN b = 1..n /\ \A i \in 1..n : b[i] = <<"copy", ms[i]>>
    BY <2>1
  <2>3. \A i \in 1..n : b[i] \in P
    BY <2>1, <2>2 DEF Things
  <2>4. b = [i \in 1..n |-> b[i]]
    BY <2>1
  <2> HIDE DEF P, b
  <2>5. b \in Seq(P)
    BY <2>1, <2>3, <2>4, IsASeq
  <2>6. IsInjective(b)
    BY <1>2, <2>1, <2>2 DEF IsInjective
  <2>7. \A i \in 1..n : b[i] \in {"copy"} \X M
    <3> SUFFICES ASSUME NEW i \in 1..n PROVE b[i] \in {"copy"} \X M
      OBVIOUS
    <3>1. ms[i] \in M
      BY <1>2, <2>1 DEF ToSet
    <3>2. b[i] = <<"copy", ms[i]>>
      BY <2>2
    <3>3. \A x \in M : <<"copy", x>> \in {"copy"} \X M
      OBVIOUS
    <3> QED
      BY <3>1, <3>2, <3>3
  <2>8. \A m \in M : <<"copy", m>> \in ToSet(b)
    BY <1>2, <2>1, <2>2 DEF ToSet
  <2> QED
    BY <2>2, <2>5, <2>6, <2>7, <2>8 DEF ToSet
<1>4. /\ c \in Seq(P) /\ IsInjective(c)
      /\ ToSet(c) = {"barrier", "exec"} \X ToSet(ks)
  <2>1. ks \in Seq(KernelSet) /\ IsInjective(ks)
    <3>1. ToSet(Launched(ts)) \subseteq KernelSet
      BY LaunchedAre
    <3> QED
      BY <3>1, LaunchedAre, SeqMonotonic
  <2>2. {"barrier", "exec"} \X KernelSet \subseteq P
    BY DEF Things
  <2> HIDE DEF ks, P, c
  <2>3. /\ c \in Seq({"barrier", "exec"} \X KernelSet) /\ IsInjective(c)
        /\ ToSet(c) = {"barrier", "exec"} \X ToSet(ks)
    BY <2>1, LaunchesAre DEF c
  <2> QED
    BY <2>2, <2>3, SeqMonotonic
<1> HIDE DEF a, b, c, P, M
<1>5. a \o b \in Seq(P) /\ IsInjective(a \o b) /\ ToSet(a \o b) = ToSet(a) \cup ToSet(b)
  <2>1. ToSet(a) \cap ToSet(b) = {}
    BY <1>1, <1>3
  <2> QED
    BY <1>1, <1>3, <2>1, ConcatOnce, ConcatSet, ConcatProperties
<1> DEFINE d == a \o b
<1> HIDE DEF d
<1>6. /\ d \o c \in Seq(P) /\ IsInjective(d \o c)
      /\ ToSet(d \o c) = ToSet(d) \cup ToSet(c)
  <2>1. ToSet(d) \cap ToSet(c) = {}
    BY <1>1, <1>3, <1>4, <1>5 DEF d
  <2>2. d \in Seq(P) /\ IsInjective(d)
    BY <1>5 DEF d
  <2> QED
    BY <1>4, <2>1, <2>2, ConcatOnce, ConcatSet, ConcatProperties
<1>7. FrameCommands(ts) = d \o c
  BY DEF FrameCommands, a, b, c, d
<1>8. ToSet(FrameCommands(ts)) =
        {<<"fill", "counters">>} \cup ({"copy"} \X M) \cup ({"barrier", "exec"} \X ToSet(ks))
  BY <1>1, <1>3, <1>4, <1>5, <1>6, <1>7 DEF d
<1>9. ASSUME NEW op, NEW of
      PROVE  <<op, of>> \in ToSet(FrameCommands(ts)) <=>
                \/ op = "fill" /\ of = "counters"
                \/ op = "copy" /\ of \in ToSet(Members) /\ TypeOf(of) \in ts
                \/ op \in {"barrier", "exec"} /\ of \in ToSet(ks)
  <2> HIDE DEF ks
  <2> QED
    BY <1>8 DEF M
<1> QED
  BY <1>6, <1>7, <1>9 DEF P

(* What was in the queue is behind what is enqueued. *)
LEMMA Enqueuing ==
    ASSUME TypeOK, FrameEnqueued, EnqueuedOnce, Idle, Outstanding, frame \in Nat,
           NEW ts, NEW h, check_compute(ts, h)
    PROVE  /\ queue' \in Seq(Command) /\ EnqueuedOnce'
           /\ \A op, of : Left(op, of)' <=>
                \/ op = "fill" /\ of = "counters"
                \/ op = "copy" /\ of \in ToSet(Members) /\ TypeOf(of) \in ts
                \/ op \in {"barrier", "exec"} /\ of \in ToSet(Launched(ts))
           /\ \A i \in DOMAIN queue' :
                /\ queue'[i].frame <= frame'
                /\ queue'[i].frame = frame' => queue'[i].live
                /\ queue'[i].op # "copy" => queue'[i].frame = frame'
                /\ queue'[i].op = "copy" => queue'[i].of \in ToSet(Members)
                /\ queue'[i].op = "fill" => queue'[i].of = "counters"
                /\ queue'[i].op \in {"barrier", "exec"} =>
                        queue'[i].of \in ToSet(Launched(ts))
<1> DEFINE cs == FrameCommands(ts)
           C(op, of) == \/ op = "fill" /\ of = "counters"
                        \/ op = "copy" /\ of \in ToSet(Members) /\ TypeOf(of) \in ts
                        \/ op \in {"barrier", "exec"} /\ of \in ToSet(Launched(ts))
           a == [i \in DOMAIN queue |-> [queue[i] EXCEPT !.live = @ /\ ~updated]]
           b == [i \in DOMAIN cs |-> [op |-> cs[i][1], of |-> cs[i][2],
                                      frame |-> frame + 1, live |-> TRUE]]
           m == Len(queue)
           n == Len(cs)
<1>1. queue' = a \o b /\ frame' = frame + 1 /\ backend # "native"
  BY Zenon DEF check_compute
<1>2. /\ cs \in Seq({"fill", "copy", "barrier", "exec"} \X Things) /\ IsInjective(cs)
      /\ \A op, of : <<op, of>> \in ToSet(cs) <=> C(op, of)
  BY <1>1, CommandsAre
<1>3. /\ m \in Nat /\ DOMAIN queue = 1..m
      /\ n \in Nat /\ DOMAIN cs = 1..n
      /\ \A i \in 1..m : queue[i] \in Command
      /\ \A i \in 1..n : cs[i] \in {"fill", "copy", "barrier", "exec"} \X Things
  BY <1>2, LenProperties, ElementOfSeq DEF TypeOK
<1> HIDE DEF m, n, cs
<1>4. /\ DOMAIN a = 1..m /\ DOMAIN b = 1..n
      /\ \A i \in 1..m : a[i] = [queue[i] EXCEPT !.live = @ /\ ~updated]
      /\ \A i \in 1..n : b[i] = [op |-> cs[i][1], of |-> cs[i][2],
                                 frame |-> frame + 1, live |-> TRUE]
  BY <1>3
<1>5. ASSUME NEW i \in 1..m
      PROVE  /\ a[i] \in Command
             /\ a[i].op = queue[i].op /\ a[i].of = queue[i].of
             /\ a[i].frame = queue[i].frame
  <2>1. queue[i] \in Command /\ updated \in BOOLEAN
    BY <1>3 DEF TypeOK
  <2>2. (queue[i].live /\ ~updated) \in BOOLEAN
    BY Zenon
  <2> QED
    BY <1>4, <2>1, <2>2 DEF Command
<1>6. ASSUME NEW i \in 1..n
      PROVE  /\ b[i] \in Command /\ b[i].frame = frame + 1 /\ b[i].live
             /\ b[i].op = cs[i][1] /\ b[i].of = cs[i][2]
             /\ cs[i] = <<b[i].op, b[i].of>>
  BY <1>3, <1>4 DEF Command, Things
<1>7. a \in Seq(Command) /\ b \in Seq(Command) /\ Len(a) = m /\ Len(b) = n
  <2>1. a = [i \in 1..m |-> a[i]] /\ b = [i \in 1..n |-> b[i]]
    BY <1>3
  <2> HIDE DEF a, b
  <2>3. \A i \in 1..m : a[i] \in Command
    BY <1>5
  <2>4. \A i \in 1..n : b[i] \in Command
    BY <1>6
  <2>2. a \in Seq(Command) /\ b \in Seq(Command)
    <3>1. a \in [1..m -> Command] /\ b \in [1..n -> Command]
      BY <2>1, <2>3, <2>4
    <3> QED
      BY <1>3, <3>1
  <2> QED
    BY <1>3, <1>4, <2>2, LenProperties
<1> HIDE DEF a, b
<1> DEFINE q == a \o b
<1>8. /\ q \in Seq(Command) /\ DOMAIN q = 1..(m + n)
      /\ \A i \in 1..(m + n) : q[i] = IF i <= m THEN a[i] ELSE b[i - m]
  <2>1. /\ q \in Seq(Command) /\ Len(q) = m + n
        /\ \A i \in 1..(m + n) : q[i] = IF i <= m THEN a[i] ELSE b[i - m]
    BY <1>7, ConcatProperties
  <2> HIDE DEF q
  <2> QED
    BY <2>1, LenProperties
<1> HIDE DEF q
<1>9. queue' = q
  BY <1>1 DEF q
<1>10. \A i \in 1..m : i \in 1..(m + n) /\ q[i] = a[i]
  BY <1>3, <1>8
<1>11. \A i \in 1..n : i + m \in 1..(m + n) /\ q[i + m] = b[i]
  <2> SUFFICES ASSUME NEW i \in 1..n PROVE i + m \in 1..(m + n) /\ q[i + m] = b[i]
    OBVIOUS
  <2>1. i + m \in 1..(m + n) /\ ~(i + m <= m) /\ (i + m) - m = i
    BY <1>3
  <2> QED
    BY <1>8, <2>1
<1>12. \A i \in 1..(m + n) : \/ i \in 1..m /\ q[i] = a[i]
                             \/ i - m \in 1..n /\ q[i] = b[i - m]
  BY <1>3, <1>8
<1>13. \A i \in 1..m : queue[i].frame <= frame /\ queue[i].op = "copy"
                        /\ queue[i].of \in ToSet(Members)
  BY <1>3 DEF FrameEnqueued, Outstanding
<1>14. \A i \in 1..m : queue[i].frame \in Nat
  BY <1>3 DEF Command
<1>15. EnqueuedOnce'
  <2> SUFFICES ASSUME NEW i \in 1..(m + n), NEW j \in 1..(m + n), Same(q[i], q[j])
               PROVE  i = j
    BY <1>8, <1>9 DEF EnqueuedOnce
  <2>1. CASE i \in 1..m /\ j \in 1..m
    <3>1. Same(queue[i], queue[j])
      BY <1>5, <1>10, <2>1 DEF Same
    <3> QED
      BY <1>3, <2>1, <3>1 DEF EnqueuedOnce
  <2>2. CASE i - m \in 1..n /\ j - m \in 1..n /\ q[i] = b[i - m] /\ q[j] = b[j - m]
    <3>1. cs[i - m] = cs[j - m]
      BY <1>6, <2>2 DEF Same
    <3>2. i - m = j - m
      BY <1>2, <1>3, <2>2, <3>1 DEF IsInjective
    <3> QED
      BY <1>3, <3>2
  <2>3. ASSUME NEW k \in 1..m, NEW l \in 1..n PROVE a[k].frame # b[l].frame
    BY <1>5, <1>6, <1>13, <1>14
  <2>4. CASE i \in 1..m /\ q[i] = a[i] /\ j - m \in 1..n /\ q[j] = b[j - m]
    BY <2>3, <2>4 DEF Same
  <2>5. CASE j \in 1..m /\ q[j] = a[j] /\ i - m \in 1..n /\ q[i] = b[i - m]
    BY <2>3, <2>5 DEF Same
  <2> QED
    BY <1>12, <2>1, <2>2, <2>4, <2>5
<1>16. ASSUME NEW op, NEW of PROVE Left(op, of)' <=> C(op, of)
  <2>1. Left(op, of)' <=> \E i \in 1..(m + n) :
            q[i].op = op /\ q[i].of = of /\ q[i].frame = frame + 1
    BY <1>1, <1>8, <1>9 DEF Left, Pending
  <2>2. ASSUME NEW i \in 1..(m + n),
               q[i].op = op /\ q[i].of = of /\ q[i].frame = frame + 1
        PROVE  <<op, of>> \in ToSet(cs)
    <3>1. i \notin 1..m
      BY <1>5, <1>10, <1>13, <1>14, <2>2
    <3>2. i - m \in 1..n /\ q[i] = b[i - m]
      BY <1>12, <3>1
    <3>3. cs[i - m] = <<op, of>>
      BY <1>6, <2>2, <3>2
    <3> QED
      BY <1>3, <3>2, <3>3 DEF ToSet
  <2>3. ASSUME <<op, of>> \in ToSet(cs)
        PROVE  \E i \in 1..(m + n) :
                    q[i].op = op /\ q[i].of = of /\ q[i].frame = frame + 1
    <3>1. PICK i \in 1..n : cs[i] = <<op, of>>
      BY <1>3, <2>3 DEF ToSet
    <3>2. b[i].op = op /\ b[i].of = of /\ b[i].frame = frame + 1
      BY <1>6, <3>1
    <3> QED
      BY <1>11, <3>2
  <2> QED
    BY <1>2, <2>1, <2>2, <2>3
<1>17. ASSUME NEW i \in 1..n
       PROVE  C(b[i].op, b[i].of)
  <2>1. <<b[i].op, b[i].of>> \in ToSet(cs)
    BY <1>3, <1>6 DEF ToSet
  <2> HIDE DEF C
  <2> QED
    BY <1>2, <2>1
<1>18. ASSUME NEW i \in 1..(m + n)
       PROVE  /\ q[i].frame <= frame + 1
              /\ q[i].frame = frame + 1 => q[i].live
              /\ q[i].op # "copy" => q[i].frame = frame + 1
              /\ q[i].op = "copy" => q[i].of \in ToSet(Members)
              /\ q[i].op = "fill" => q[i].of = "counters"
              /\ q[i].op \in {"barrier", "exec"} => q[i].of \in ToSet(Launched(ts))
  <2>1. CASE i \in 1..m /\ q[i] = a[i]
    BY <1>5, <1>13, <1>14, <2>1
  <2>2. CASE i - m \in 1..n /\ q[i] = b[i - m]
    BY <1>6, <1>17, <2>2
  <2> QED
    BY <1>12, <2>1, <2>2
<1> HIDE DEF C
<1> QED
  BY <1>1, <1>8, <1>9, <1>15, <1>16, <1>18 DEF C

-----------------------------------------------------------------------------
(* Steps of the device.                                                    *)

LEMMA Constants ==
    /\ \A n \in Limits : n \in Nat /\ n > 0
    /\ IsFiniteSet(Pairs) /\ MaxFrames \in Nat /\ MaxHits \in Nat
    /\ Backends \subseteq {"compute", "native"}
  BY CollisionsAssumption

(* What any command does that completes. *)
LEMMA DeviceStep ==
    ASSUME IInv, NEW i \in DOMAIN queue, queue' = RemoveAt(queue, i), UNCHANGED Host
    PROVE  /\ queue' \in Seq(Command) /\ queue[i] \in Command
           /\ backend = "compute" /\ DOMAIN hits \subseteq KernelSet
           /\ FrameEnqueued' /\ EnqueuedOnce' /\ Hosted' /\ (~Idle => Told)'
           /\ \A op, of : Left(op, of)' <=>
                /\ Left(op, of)
                /\ ~(queue[i].op = op /\ queue[i].of = of /\ queue[i].frame = frame)
<1>1. /\ frame' = frame /\ hits' = hits /\ reads' = reads /\ output' = output
      /\ capacity' = capacity /\ backend' = backend /\ updated' = updated
  BY DEF Host
<1>2. TypeOK /\ EnqueuedOnce /\ FrameEnqueued /\ Hosted /\ (~Idle => Told)
  BY DEF IInv
<1>3. /\ queue' \in Seq(Command) /\ EnqueuedOnce'
      /\ \A j \in DOMAIN queue' : \E k \in DOMAIN queue : queue'[j] = queue[k]
      /\ \A op, of : Left(op, of)' <=>
                /\ Left(op, of)
                /\ ~(queue[i].op = op /\ queue[i].of = of /\ queue[i].frame = frame)
  BY <1>1, <1>2, Removal
<1>4. queue[i] \in Command
  BY <1>2, ElementOfSeq, LenProperties DEF TypeOK
<1>5. backend = "compute"
  <2>1. queue # <<>>
    OBVIOUS
  <2> QED
    BY <1>2, <2>1, Constants DEF Hosted, TypeOK
<1>6. DOMAIN hits \subseteq KernelSet
  BY <1>2, <1>5 DEF TypeOK, Checks, KernelSet
<1>7. FrameEnqueued'
  BY <1>1, <1>2, <1>3 DEF FrameEnqueued
<1>8. Hosted'
  BY <1>1, <1>2, <1>5 DEF Hosted
<1>9. (~Idle => Told)'
  BY <1>1, <1>2 DEF Idle, Told, Done, FixedDone, Expected, AllFixed
<1> QED
  BY <1>3, <1>4, <1>5, <1>6, <1>7, <1>8, <1>9

LEMMA FillStep ==
    ASSUME IInv, NEW i \in DOMAIN queue, fill_counters(i)
    PROVE  IInv'
<1>1. /\ queue[i].op = "fill" /\ queue' = RemoveAt(queue, i)
      /\ counters' = IF queue[i].live THEN [k \in KernelSet |-> 0] ELSE counters
      /\ fresh' = fresh /\ buffer' = buffer /\ UNCHANGED Host
  BY DEF fill_counters, Executed
<1>2. /\ queue' \in Seq(Command) /\ queue[i] \in Command
      /\ backend = "compute" /\ DOMAIN hits \subseteq KernelSet
      /\ FrameEnqueued' /\ EnqueuedOnce' /\ Hosted' /\ (~Idle => Told)'
      /\ \A op, of : Left(op, of)' <=>
            /\ Left(op, of)
            /\ ~(queue[i].op = op /\ queue[i].of = of /\ queue[i].frame = frame)
  BY <1>1, DeviceStep
<1>3. /\ queue[i].frame = frame /\ queue[i].live /\ queue[i].of = "counters"
  BY <1>1 DEF IInv, FrameEnqueued
<1>4. Left("fill", "counters")
  BY <1>1, <1>3 DEF Left, Pending
<1>5. \A op, of : op # "fill" => (Left(op, of)' <=> Left(op, of))
  BY <1>1, <1>2
<1>6. Reset'
  BY <1>1, <1>2, <1>3 DEF Reset
<1>7. /\ frame' = frame /\ hits' = hits /\ reads' = reads /\ output' = output
      /\ capacity' = capacity /\ backend' = backend /\ updated' = updated
  BY <1>1 DEF Host
<1>8. counters' = [k \in KernelSet |-> 0]
  BY <1>1, <1>3
<1>9. TypeOK'
  BY <1>1, <1>2, <1>7, <1>8 DEF IInv, TypeOK, Checks
<1>10. Ordered'
  BY <1>1, <1>5, <1>6, <1>7 DEF IInv, Ordered
<1>11. Counted'
  <2> SUFFICES ASSUME NEW k \in ToSet(reads)
               PROVE  counters'[k] = 0 /\ Left("exec", k)'
    BY <1>7, Zenon DEF Counted
  <2>1. k \in DOMAIN hits
    <3>1. reads \in Seq(DOMAIN hits)
      BY DEF IInv, TypeOK
    <3> QED
      BY <3>1, LenProperties, ElementOfSeq DEF ToSet
  <2>2. Left("exec", k)
    BY <1>4, <2>1 DEF IInv, Ordered, Reset
  <2> QED
    BY <1>2, <1>5, <1>8, <2>1, <2>2
<1> QED
  BY <1>2, <1>9, <1>10, <1>11 DEF IInv

LEMMA UploadStep ==
    ASSUME IInv, NEW i \in DOMAIN queue, write_buffer_rect(i)
    PROVE  IInv'
<1>1. /\ queue[i].op = "copy" /\ queue' = RemoveAt(queue, i)
      /\ fresh' = IF queue[i].live THEN fresh \cup {queue[i].of} ELSE fresh
      /\ counters' = counters /\ buffer' = buffer /\ UNCHANGED Host
  BY DEF write_buffer_rect, Executed
<1>2. /\ queue' \in Seq(Command) /\ queue[i] \in Command
      /\ backend = "compute" /\ DOMAIN hits \subseteq KernelSet
      /\ FrameEnqueued' /\ EnqueuedOnce' /\ Hosted' /\ (~Idle => Told)'
      /\ \A op, of : Left(op, of)' <=>
            /\ Left(op, of)
            /\ ~(queue[i].op = op /\ queue[i].of = of /\ queue[i].frame = frame)
  BY <1>1, DeviceStep
<1>3. queue[i].of \in ToSet(Members) /\ (queue[i].frame = frame => queue[i].live)
  BY <1>1 DEF IInv, FrameEnqueued
<1>4. \A op, of : op # "copy" => (Left(op, of)' <=> Left(op, of))
  BY <1>1, <1>2
<1>5. \A m : /\ Left("copy", m)' => Left("copy", m)
             /\ Left("copy", m) => Left("copy", m)' \/ m \in fresh'
  BY <1>1, <1>2, <1>3
<1>6. fresh \subseteq fresh'
  BY <1>1
<1>7. /\ frame' = frame /\ hits' = hits /\ reads' = reads /\ output' = output
      /\ capacity' = capacity /\ backend' = backend /\ updated' = updated
  BY <1>1 DEF Host
<1>8. TypeOK'
  BY <1>1, <1>2, <1>3, <1>7 DEF IInv, TypeOK, Checks
<1>9. Ordered'
  BY <1>1, <1>4, <1>5, <1>6, <1>7 DEF IInv, Ordered, Reset
<1>10. Counted'
  BY <1>1, <1>4, <1>7 DEF IInv, Counted, Reset, Wrote
<1> QED
  BY <1>2, <1>8, <1>9, <1>10 DEF IInv

LEMMA BarrierStep ==
    ASSUME IInv, NEW i \in DOMAIN queue, pass_barrier(i)
    PROVE  IInv'
<1> DEFINE k == queue[i].of
<1>1. /\ queue[i].op = "barrier" /\ queue' = RemoveAt(queue, i) /\ Ready(i)
      /\ counters' = counters /\ buffer' = buffer /\ fresh' = fresh /\ UNCHANGED Host
  BY DEF pass_barrier, Executed
<1>2. /\ queue' \in Seq(Command) /\ queue[i] \in Command
      /\ backend = "compute" /\ DOMAIN hits \subseteq KernelSet
      /\ FrameEnqueued' /\ EnqueuedOnce' /\ Hosted' /\ (~Idle => Told)'
      /\ \A op, of : Left(op, of)' <=>
            /\ Left(op, of)
            /\ ~(queue[i].op = op /\ queue[i].of = of /\ queue[i].frame = frame)
  BY <1>1, DeviceStep
<1>3. queue[i].frame = frame /\ k \in DOMAIN hits
  BY <1>1 DEF IInv, FrameEnqueued
<1>4. Reset /\ \A m \in Accesses(k) : ~Left("copy", m)
  <2>1. WaitList(queue[i]) = {<<"fill", "counters">>} \cup
                                {<<"copy", m>> : m \in Accesses(k)}
    BY <1>1 DEF WaitList
  <2>2. \A w \in WaitList(queue[i]) : ~Pending(w[1], w[2], frame)
    BY <1>1, <1>3 DEF Ready
  <2> HIDE DEF k
  <2>3. ASSUME NEW op, NEW of, <<op, of>> \in WaitList(queue[i])
        PROVE  ~Left(op, of)
    BY <2>2, <2>3 DEF Left
  <2> QED
    BY <2>1, <2>3 DEF Reset
<1>5. /\ \A op, of : op # "barrier" => (Left(op, of)' <=> Left(op, of))
      /\ \A of : Left("barrier", of)' <=> Left("barrier", of) /\ of # k
  BY <1>1, <1>2, <1>3
<1>6. /\ frame' = frame /\ hits' = hits /\ reads' = reads /\ output' = output
      /\ capacity' = capacity /\ backend' = backend /\ updated' = updated
  BY <1>1 DEF Host
<1>7. TypeOK'
  BY <1>1, <1>2, <1>6 DEF IInv, TypeOK, Checks
<1> HIDE DEF k
<1>8. Ordered'
  BY <1>1, <1>4, <1>5, <1>6 DEF IInv, Ordered, Reset
<1>9. Counted'
  BY <1>1, <1>5, <1>6 DEF IInv, Counted, Reset, Wrote
<1> QED
  BY <1>2, <1>7, <1>8, <1>9 DEF IInv

LEMMA HitsAre ==
    ASSUME TypeOK, NEW k \in DOMAIN hits
    PROVE  hits[k] \subseteq Pairs /\ IsFiniteSet(hits[k]) /\ Cardinality(hits[k]) \in Nat
<1>1. hits[k] \subseteq Pairs
  BY DEF TypeOK
<1>2. IsFiniteSet(hits[k])
  BY <1>1, Constants, FS_Subset
<1> QED
  BY <1>1, <1>2, FS_CardinalityType

LEMMA KernelStep ==
    ASSUME IInv, NEW i \in DOMAIN queue, NEW k, queue[i].of = k, run_kernel(i)
    PROVE  IInv'
<1> DEFINE c == queue[i]
           n == counters[k]
           write(s) == /\ counters' = [counters EXCEPT ![k] = n + Len(s)]
                       /\ buffer' = [buffer EXCEPT ![k] = [j \in 1..capacity |->
                            IF j \in (n + 1)..(n + Len(s)) THEN s[j - n] ELSE @[j]]]
<1>1. /\ c.op = "exec" /\ queue' = RemoveAt(queue, i) /\ Ready(i)
      /\ fresh' = fresh /\ UNCHANGED Host
      /\ c.live => \E s \in Finds(c) : write(s)
  BY DEF run_kernel, Executed
<1>2. /\ queue' \in Seq(Command) /\ c \in Command
      /\ backend = "compute" /\ DOMAIN hits \subseteq KernelSet
      /\ FrameEnqueued' /\ EnqueuedOnce' /\ Hosted' /\ (~Idle => Told)'
      /\ \A op, of : Left(op, of)' <=>
            /\ Left(op, of)
            /\ ~(queue[i].op = op /\ queue[i].of = of /\ queue[i].frame = frame)
  BY <1>1, DeviceStep
<1>3. c.frame = frame /\ c.live /\ k \in DOMAIN hits
  BY <1>1 DEF IInv, FrameEnqueued
<1>4. ~Left("barrier", k)
  <2>1. WaitList(c) = {<<"barrier", k>>}
    BY <1>1 DEF WaitList
  <2>2. \A w \in WaitList(c) : ~Pending(w[1], w[2], frame)
    BY <1>1, <1>3 DEF Ready
  <2> QED
    BY <2>1, <2>2 DEF Left
<1>5. Left("exec", k)
  BY <1>1, <1>3 DEF Left, Pending
<1>6. /\ \A op, of : op # "exec" => (Left(op, of)' <=> Left(op, of))
      /\ \A of : Left("exec", of)' <=> Left("exec", of) /\ of # k
  BY <1>1, <1>2, <1>3
<1>7. /\ frame' = frame /\ hits' = hits /\ reads' = reads /\ output' = output
      /\ capacity' = capacity /\ backend' = backend /\ updated' = updated
  BY <1>1 DEF Host
<1>8. Reset /\ k \in ToSet(reads) /\ n = 0
  <2>1. Reset
    BY <1>3, <1>4 DEF IInv, Ordered
  <2>2. k \in ToSet(reads)
    BY <1>3, <1>5 DEF IInv, Ordered
  <2> QED
    BY <1>5, <2>1, <2>2 DEF IInv, Counted
<1>9. Accesses(k) \subseteq fresh
  <2> QED
    BY <1>2, <1>3, <1>4 DEF IInv, Ordered
<1>10. Finds(c) = SetToSeqs(hits[k])
  BY <1>3, <1>9 DEF Finds
<1>11. PICK s \in SetToSeqs(hits[k]) : write(s)
  BY <1>1, <1>3, <1>10
<1>12. /\ s \in Seq(hits[k]) /\ Len(s) = Cardinality(hits[k])
       /\ hits[k] \subseteq Pairs /\ Len(s) \in Nat /\ DOMAIN s = 1..Len(s)
  BY <1>3, <1>11, HitsAre, LoopsInOrder, LenProperties DEF IInv
<1>13. /\ k \in KernelSet /\ counters \in [KernelSet -> Nat]
       /\ buffer \in [KernelSet -> [1..capacity -> Pairs \cup {Old}]]
       /\ capacity \in Nat
  BY <1>2, <1>3, Constants DEF IInv, TypeOK
<1> HIDE DEF c, n
<1> DEFINE l == Len(s)
           new == [j \in 1..capacity |-> IF j \in 1..l THEN s[j] ELSE buffer[k][j]]
<1>14. /\ counters' = [counters EXCEPT ![k] = l]
       /\ buffer' = [buffer EXCEPT ![k] = new]
  <2>1. n + Len(s) = l /\ n + 1 = 1 /\ \A j \in 1..l : j - n = j
    BY <1>8, <1>12
  <2>2. counters' = [counters EXCEPT ![k] = l]
    BY <1>11, <2>1
  <2>3. buffer' = [buffer EXCEPT ![k] = [j \in 1..capacity |->
                    IF j \in 1..l THEN s[j - n] ELSE buffer[k][j]]]
    BY <1>11, <1>13, <2>1
  <2>4. [j \in 1..capacity |-> IF j \in 1..l THEN s[j - n] ELSE buffer[k][j]] = new
    <3> HIDE DEF l
    <3> QED
      BY <2>1
  <2> QED
    BY <2>2, <2>3, <2>4
<1>15. new \in [1..capacity -> Pairs \cup {Old}]
  BY <1>12, <1>13, ElementOfSeq
<1> HIDE DEF new
<1>16. /\ counters' \in [KernelSet -> Nat]
       /\ buffer' \in [KernelSet -> [1..capacity -> Pairs \cup {Old}]]
       /\ counters'[k] = l /\ buffer'[k] = new
       /\ \A m \in KernelSet : m # k => counters'[m] = counters[m] /\ buffer'[m] = buffer[m]
  BY <1>12, <1>13, <1>14, <1>15
<1>17. TypeOK'
  BY <1>1, <1>2, <1>7, <1>16 DEF IInv, TypeOK, Checks
<1>18. Ordered'
  BY <1>1, <1>4, <1>6, <1>7, <1>8 DEF IInv, Ordered, Reset
<1>19. Wrote(k)'
  <2>1. counters'[k] = Cardinality(hits'[k])
    BY <1>7, <1>12, <1>16
  <2>2. ASSUME NEW j \in 1..Fewer(l, capacity)
        PROVE  buffer'[k][j] = s[j]
    <3>1. j \in 1..capacity /\ j \in 1..l
      BY <1>12, <1>13 DEF Fewer
    <3> QED
      BY <1>16, <3>1 DEF new
  <2> QED
    BY <1>7, <1>11, <2>1, <2>2 DEF Wrote
<1>20. Counted'
  <2> SUFFICES ASSUME NEW m \in ToSet(reads)
               PROVE  /\ Reset' /\ Left("exec", m)' => counters'[m] = 0
                      /\ ~Left("exec", m)' => Wrote(m)'
    BY <1>7 DEF Counted
  <2>1. CASE m = k
    BY <1>6, <1>19, <2>1
  <2>2. CASE m # k
    <3>1. m \in KernelSet
      <4>1. reads \in Seq(DOMAIN hits)
        BY DEF IInv, TypeOK
      <4> QED
        BY <1>2, <4>1, LenProperties, ElementOfSeq DEF ToSet
    <3>2. counters'[m] = counters[m] /\ buffer'[m] = buffer[m]
      BY <1>16, <2>2, <3>1
    <3>3. Left("exec", m)' <=> Left("exec", m)
      BY <1>6, <2>2
    <3>4. /\ Left("exec", m) => counters[m] = 0
          /\ ~Left("exec", m) => Wrote(m)
      BY <1>8 DEF IInv, Counted
    <3>5. Wrote(m) => Wrote(m)'
      BY <1>7, <3>2 DEF Wrote
    <3> QED
      BY <3>2, <3>3, <3>4, <3>5
  <2> QED
    BY <2>1, <2>2
<1> QED
  BY <1>2, <1>17, <1>18, <1>20 DEF IInv

-----------------------------------------------------------------------------
(* Steps of the host.                                                      *)

LEMMA TailOnce ==
    ASSUME NEW A, NEW s \in Seq(A), s # <<>>, IsInjective(s)
    PROVE  /\ Head(s) \in ToSet(s)
           /\ Tail(s) \in Seq(A) /\ IsInjective(Tail(s))
           /\ ToSet(Tail(s)) = ToSet(s) \ {Head(s)}
<1> DEFINE n == Len(s)
           t == Tail(s)
<1>1. /\ n \in Nat /\ n > 0 /\ DOMAIN s = 1..n /\ Head(s) = s[1]
      /\ t \in Seq(A) /\ DOMAIN t = 1..(n - 1)
      /\ \A i \in 1..(n - 1) : t[i] = s[i + 1]
  BY HeadTailProperties, LenProperties, EmptySeq
<1>2. \A i, j \in 1..n : s[i] = s[j] => i = j
  BY <1>1 DEF IsInjective
<1> HIDE DEF n, t
<1>3. IsInjective(t)
  <2> SUFFICES ASSUME NEW i \in 1..(n - 1), NEW j \in 1..(n - 1), t[i] = t[j]
               PROVE  i = j
    BY <1>1 DEF IsInjective
  <2>1. i + 1 \in 1..n /\ j + 1 \in 1..n /\ s[i + 1] = s[j + 1]
    BY <1>1
  <2>2. i + 1 = j + 1
    BY <1>2, <2>1
  <2> QED
    BY <2>2
<1>4. ToSet(s) = {s[i] : i \in 1..n} /\ ToSet(t) = {t[i] : i \in 1..(n - 1)}
  BY <1>1 DEF ToSet
<1>5. 1 \in 1..n
  BY <1>1
<1>6. ASSUME NEW i \in 1..(n - 1)
      PROVE  t[i] \in ToSet(s) \ {s[1]}
  <2>1. i + 1 \in 1..n /\ i + 1 # 1
    BY <1>1
  <2> QED
    BY <1>1, <1>2, <1>4, <1>5, <2>1
<1>7. ASSUME NEW i \in 1..n, s[i] # s[1]
      PROVE  s[i] \in ToSet(t)
  <2>1. i - 1 \in 1..(n - 1) /\ t[i - 1] = s[i]
    BY <1>1, <1>7
  <2> QED
    BY <1>4, <2>1
<1> QED
  BY <1>1, <1>3, <1>4, <1>5, <1>6, <1>7 DEF t

(* The collisions of a frame are a finite set. *)
LEMMA ElementsFinite ==
    ASSUME NEW A, NEW s \in Seq(A)
    PROVE  IsFiniteSet(ToSet(s))
<1>1. Len(s) \in Nat /\ DOMAIN s = 1..Len(s)
  BY LenProperties
<1>2. IsFiniteSet(DOMAIN s)
  BY <1>1, FS_Interval
<1>3. s \in Surjection(DOMAIN s, ToSet(s))
  BY <1>1, LenProperties DEF Surjection, ToSet
<1> QED
  BY <1>2, <1>3, FS_Surjection

LEMMA FoundIn ==
    ASSUME NEW h, IsFiniteSet(DOMAIN h), \A k \in DOMAIN h : h[k] \subseteq Pairs
    PROVE  /\ Found(h) = {c \in (DOMAIN h) \X Pairs : c[2] \in h[c[1]]}
           /\ IsFiniteSet(Found(h))
<1>1. Found(h) = {c \in (DOMAIN h) \X Pairs : c[2] \in h[c[1]]}
  <2>1. ASSUME NEW c \in Found(h)
        PROVE  c \in (DOMAIN h) \X Pairs /\ c[2] \in h[c[1]]
    <3>1. PICK k \in DOMAIN h : c \in {k} \X h[k]
      BY <2>1 DEF Found
    <3>2. PICK p \in h[k] : c = <<k, p>>
      BY <3>1
    <3> QED
      BY <3>2
  <2>2. ASSUME NEW k \in DOMAIN h, NEW p \in Pairs, p \in h[k]
        PROVE  <<k, p>> \in Found(h)
    <3>1. <<k, p>> \in {k} \X h[k]
      BY <2>2
    <3> QED
      BY <3>1 DEF Found
  <2>3. \A c \in (DOMAIN h) \X Pairs : c = <<c[1], c[2]>>
            /\ c[1] \in DOMAIN h /\ c[2] \in Pairs
    OBVIOUS
  <2>4. \A c \in (DOMAIN h) \X Pairs : c[2] \in h[c[1]] => c \in Found(h)
    BY <2>2, <2>3
  <2> QED
    BY <2>1, <2>4
<1>2. IsFiniteSet((DOMAIN h) \X Pairs)
  <2>1. IsFiniteSet(Pairs)
    BY Constants
  <2>2. \A S, T : IsFiniteSet(S) /\ IsFiniteSet(T) => IsFiniteSet(S \X T)
    BY FS_Product
  <2> QED
    BY <2>1, <2>2, Zenon
<1> QED
  BY <1>1, <1>2, FS_Subset

LEMMA ChecksFinite ==
    Checks \in Seq(ToSet(Checks)) /\ IsFiniteSet(ToSet(Checks))
<1>1. Checks \in Seq(ToSet(Checks))
  BY KernelsAre, LoopsAre DEF Checks, KernelSet
<1> QED
  BY <1>1, ElementsFinite

LEMMA FoundAre ==
    ASSUME TypeOK
    PROVE  /\ Found(hits) = {c \in (DOMAIN hits) \X Pairs : c[2] \in hits[c[1]]}
           /\ IsFiniteSet(Found(hits)) /\ IsFiniteSet(AllFixed)
<1>1. DOMAIN hits \subseteq ToSet(Checks) /\ \A k \in DOMAIN hits : hits[k] \subseteq Pairs
  BY DEF TypeOK
<1>2. IsFiniteSet(DOMAIN hits)
  BY <1>1, ChecksFinite, FS_Subset
<1>3. /\ Found(hits) = {c \in (DOMAIN hits) \X Pairs : c[2] \in hits[c[1]]}
      /\ IsFiniteSet(Found(hits))
  BY <1>1, <1>2, FoundIn
<1> QED
  BY <1>3, FS_Subset DEF AllFixed

(* What is read of a kernel: as many of its collisions as there is room for. *)
LEMMA ReadAre ==
    ASSUME IInv, ~Idle, NEW k, k = Head(reads), MayRead(k)
    PROVE  LET cs == map_collision_buffer(k)
               of == {k} \X hits[k]
               r == Fitting(Cardinality(hits[k])) IN
           /\ k \in KernelSet /\ k \in DOMAIN hits /\ k \in ToSet(reads)
           /\ ~Left("exec", k)
           /\ cs \in Seq(of) /\ Len(cs) = r /\ IsInjective(cs)
           /\ r = Cardinality(hits[k]) => ToSet(cs) = of
<1> DEFINE cs == map_collision_buffer(k)
           of == {k} \X hits[k]
           n == Cardinality(hits[k])
           r == Fitting(n)
<1>1. /\ reads \in Seq(DOMAIN hits) /\ reads # <<>> /\ IsInjective(reads)
      /\ backend \in Backends
  BY DEF IInv, TypeOK, Idle, Hosted
<1>2. backend = "compute" /\ DOMAIN hits \subseteq KernelSet
  <2>1. backend = "compute"
    BY <1>1, Constants DEF IInv, Hosted
  <2> QED
    BY <2>1 DEF IInv, TypeOK, Checks, KernelSet
<1>3. k \in DOMAIN hits /\ k \in ToSet(reads)
  BY <1>1, TailOnce, HeadTailProperties
<1>4. ReadWait(k) = k
  BY <1>2, <1>3 DEF IInv, Hosted, ReadWait
<1>5. ~Left("exec", k)
  BY <1>3, <1>4 DEF MayRead, Left
<1>6. Wrote(k)
  BY <1>3, <1>5 DEF IInv, Counted
<1>7. PICK s \in SetToSeqs(hits[k]) :
        \A j \in 1..Fewer(Len(s), capacity) : buffer[k][j] = s[j]
  BY <1>6 DEF Wrote
<1>8. /\ s \in Seq(hits[k]) /\ Len(s) = n /\ n \in Nat /\ DOMAIN s = 1..n
      /\ IsInjective(s) /\ ToSet(s) = hits[k]
  BY <1>3, HitsAre, LoopsInOrder, Zenon DEF IInv
<1>9. capacity \in Nat /\ Len(output) \in Nat /\ Len(output) <= capacity
  <2>1. /\ output \in Seq(ToSet(Checks) \X (Pairs \cup {Old}))
        /\ capacity \in Limits /\ Len(output) <= capacity
    BY DEF IInv, TypeOK
  <2> QED
    BY <2>1, Constants, LenProperties
<1>10. counters[k] = n
  BY <1>6 DEF Wrote
<1> HIDE DEF n
<1>11. r \in Nat /\ r <= n /\ r <= capacity
  BY <1>8, <1>9 DEF Fitting, Fewer
<1>12. cs = [i \in 1..r |-> <<k, buffer[k][i]>>]
  BY <1>3, <1>4, <1>10 DEF map_collision_buffer
<1> HIDE DEF r
<1>13. \A i \in 1..r : buffer[k][i] = s[i] /\ s[i] \in hits[k]
  <2> SUFFICES ASSUME NEW i \in 1..r
               PROVE  buffer[k][i] = s[i] /\ s[i] \in hits[k]
    OBVIOUS
  <2>1. i \in 1..Fewer(n, capacity) /\ i \in 1..n
    BY <1>8, <1>9, <1>11 DEF Fewer
  <2> QED
    BY <1>7, <1>8, <2>1, ElementOfSeq
<1> HIDE DEF cs
<1>14. \A i \in 1..r : cs[i] = <<k, s[i]>> /\ cs[i] \in of
  <2>1. \A i \in 1..r : cs[i] = <<k, buffer[k][i]>>
    BY <1>12
  <2>2. \A i \in 1..r : cs[i] = <<k, s[i]>>
    BY <1>13, <2>1
  <2> QED
    BY <1>13, <2>2
<1>15. DOMAIN cs = 1..r /\ cs \in [1..r -> of]
  BY <1>12, <1>14
<1>16. cs \in Seq(of) /\ Len(cs) = r
  BY <1>11, <1>15, IsASeq, LenProperties
<1>17. IsInjective(cs)
  <2>1. \A i, j \in 1..n : s[i] = s[j] => i = j
    BY <1>8 DEF IsInjective
  <2>2. \A i \in 1..r : i \in 1..n
    BY <1>8, <1>11
  <2>3. \A i, j \in 1..r : cs[i] = cs[j] => s[i] = s[j]
    BY <1>14
  <2> QED
    BY <1>15, <2>1, <2>2, <2>3 DEF IsInjective
<1>18. ASSUME r = n PROVE ToSet(cs) = of
  <2>1. ToSet(cs) = {cs[i] : i \in 1..n} /\ hits[k] = {s[i] : i \in 1..n}
    BY <1>8, <1>15, <1>18 DEF ToSet
  <2>2. \A p \in hits[k] : \E i \in 1..n : cs[i] = <<k, p>>
    BY <1>14, <1>18, <2>1
  <2> QED
    BY <1>14, <1>18, <2>1, <2>2
<1> QED
  BY <1>2, <1>3, <1>5, <1>16, <1>17, <1>18 DEF cs, r, n

(* Of what is read, what may not move anything is left out. *)
LEMMA MovableAre ==
    ASSUME NEW A, NEW cs \in Seq(A), IsInjective(cs)
    PROVE  LET new == Movable(cs)
               fixed == {c \in ToSet(cs) : c[2] \in Fixed} IN
           /\ new \in Seq(A) /\ IsInjective(new) /\ Len(new) \in Nat
           /\ ToSet(new) = {c \in ToSet(cs) : c[2] \notin Fixed}
           /\ IsFiniteSet(fixed) /\ Cardinality(fixed) \in Nat
           /\ Len(cs) = Len(new) + Cardinality(fixed)
<1> DEFINE S == {c \in ToSet(cs) : c[2] \notin Fixed}
           new == Movable(cs)
           fixed == {c \in ToSet(cs) : c[2] \in Fixed}
<1>1. new = Among(cs, S)
  BY DEF Movable
<1>2. /\ new \in Seq(A \cap S) /\ ToSet(new) = ToSet(cs) \cap S /\ IsInjective(new)
  <2> HIDE DEF S, new
  <2> QED
    BY <1>1, AmongIs
<1>3. ToSet(new) = S /\ new \in Seq(A)
  <2>1. \A i \in 1..Len(new) : new[i] \in A
    BY <1>2, ElementOfSeq
  <2>2. Len(new) \in Nat /\ DOMAIN new = 1..Len(new) /\ new \in [1..Len(new) -> A]
    BY <1>2, <2>1, LenProperties
  <2>3. new \in Seq(A)
    <3> HIDE DEF new
    <3> QED
      BY <2>2, IsASeq
  <2> QED
    BY <1>2, <2>3
<1>4. IsFiniteSet(ToSet(cs)) /\ Cardinality(ToSet(cs)) = Len(cs)
  BY ElementsOnce
<1>5. Len(new) \in Nat /\ Cardinality(S) = Len(new)
  <2> HIDE DEF new, S
  <2> QED
    BY <1>2, <1>3, ElementsOnce, LenProperties
<1>6. IsFiniteSet(fixed) /\ Cardinality(fixed) \in Nat
  BY <1>4, FS_Subset, FS_CardinalityType
<1>7. ToSet(cs) \cap fixed = fixed /\ ToSet(cs) \ fixed = S
  OBVIOUS
<1>8. Cardinality(S) = Cardinality(ToSet(cs)) - Cardinality(fixed)
  <2> HIDE DEF S, fixed
  <2>1. \A T : IsFiniteSet(T) =>
            Cardinality(T \ fixed) = Cardinality(T) - Cardinality(T \cap fixed)
    BY FS_Difference
  <2> QED
    BY <1>4, <1>7, <2>1
<1>9. Len(cs) \in Nat
  BY LenProperties
<1>10. Len(cs) = Len(new) + Cardinality(fixed)
  <2> HIDE DEF S, fixed, new
  <2> QED
    BY <1>4, <1>5, <1>6, <1>8, <1>9
<1> QED
  BY <1>2, <1>3, <1>5, <1>6, <1>10

LEMMA ReadStep ==
    ASSUME IInv, read_collision_buffer
    PROVE  IInv' /\ Told'
<1>1. PICK k : k = Head(reads)
  OBVIOUS
<1> DEFINE cs == map_collision_buffer(k)
           new == Movable(cs)
           of == {k} \X hits[k]
           n == Cardinality(hits[k])
           r == Fitting(n)
           fixed == {c \in ToSet(cs) : c[2] \in Fixed}
<1>2. /\ ~Idle /\ MayRead(k)
      /\ output' = output \o new /\ reads' = Tail(reads)
      /\ backend' = backend /\ frame' = frame /\ hits' = hits
      /\ queue' = queue /\ fresh' = fresh /\ counters' = counters
      /\ buffer' = buffer /\ capacity' = capacity /\ updated' = updated
  BY <1>1 DEF read_collision_buffer, device_vars
<1>3. /\ k \in KernelSet /\ k \in DOMAIN hits /\ k \in ToSet(reads)
      /\ ~Left("exec", k)
      /\ cs \in Seq(of) /\ Len(cs) = r /\ IsInjective(cs)
      /\ r = n => ToSet(cs) = of
  BY <1>1, <1>2, ReadAre, Zenon
<1> HIDE DEF cs
<1>4. /\ new \in Seq(of) /\ IsInjective(new) /\ Len(new) \in Nat
      /\ ToSet(new) = {c \in ToSet(cs) : c[2] \notin Fixed}
      /\ IsFiniteSet(fixed) /\ Cardinality(fixed) \in Nat
      /\ Len(cs) = Len(new) + Cardinality(fixed)
  BY <1>3, MovableAre, Zenon
<1> HIDE DEF new
<1>5. ToSet(cs) \subseteq of
  <2>1. DOMAIN cs = 1..Len(cs) /\ \A i \in 1..Len(cs) : cs[i] \in of
    BY <1>3, LenProperties, ElementOfSeq
  <2> HIDE DEF of
  <2> QED
    BY <2>1 DEF ToSet
<1>6. /\ reads \in Seq(DOMAIN hits) /\ reads # <<>> /\ IsInjective(reads)
      /\ TypeOK /\ Told
  BY <1>2 DEF IInv, TypeOK, Idle, Hosted
<1>7. /\ reads' \in Seq(DOMAIN hits) /\ IsInjective(reads')
      /\ ToSet(reads') = ToSet(reads) \ {k}
  BY <1>1, <1>2, <1>6, TailOnce
<1>8. /\ output \in Seq(ToSet(Checks) \X (Pairs \cup {Old}))
      /\ Len(output) \in Nat /\ capacity \in Nat /\ Len(output) <= capacity
  <2>1. /\ output \in Seq(ToSet(Checks) \X (Pairs \cup {Old}))
        /\ capacity \in Limits /\ Len(output) <= capacity
    BY <1>6 DEF TypeOK
  <2> QED
    BY <2>1, Constants, LenProperties
<1>9. n \in Nat /\ hits[k] \subseteq Pairs
  BY <1>3, <1>6, HitsAre
<1> HIDE DEF n
<1>10. r \in Nat /\ r <= n /\ Len(output) + r <= capacity
       /\ (r # n => Len(output) + r = capacity)
  BY <1>8, <1>9 DEF Fitting, Fewer
<1> HIDE DEF r
<1>11. new \in Seq(ToSet(Checks) \X (Pairs \cup {Old}))
  <2>1. DOMAIN new = 1..Len(new) /\ \A i \in 1..Len(new) : new[i] \in of
    BY <1>4, LenProperties, ElementOfSeq
  <2>2. k \in ToSet(Checks)
    BY <1>3, <1>6 DEF TypeOK
  <2>3. of \subseteq ToSet(Checks) \X (Pairs \cup {Old})
    BY <1>9, <2>2
  <2>4. new = [i \in 1..Len(new) |-> new[i]]
    <3>1. new \in [1..Len(new) -> of]
      BY <1>4, LenProperties
    <3> QED
      BY <3>1
  <2>5. \A i \in 1..Len(new) : new[i] \in ToSet(Checks) \X (Pairs \cup {Old})
    BY <2>1, <2>3
  <2>6. new \in [1..Len(new) -> ToSet(Checks) \X (Pairs \cup {Old})]
    BY <2>4, <2>5
  <2> QED
    BY <1>4, <2>6, IsASeq
<1>12. /\ output' \in Seq(ToSet(Checks) \X (Pairs \cup {Old}))
       /\ Len(output') = Len(output) + Len(new)
       /\ ToSet(output') = ToSet(output) \cup ToSet(new)
  BY <1>2, <1>8, <1>11, ConcatProperties, ConcatSet
<1>13. Len(output') <= capacity
  BY <1>3, <1>4, <1>8, <1>10, <1>12
<1>14. TypeOK'
  <2>1. Checks' = Checks
    BY <1>2 DEF Checks
  <2> QED
    BY <1>2, <1>6, <1>7, <1>12, <1>13, <2>1 DEF TypeOK
<1>15. \A op, x : Left(op, x)' <=> Left(op, x)
  BY <1>2 DEF Left, Pending
<1>16. FrameEnqueued' /\ EnqueuedOnce' /\ Hosted'
  <2>1. FrameEnqueued' /\ EnqueuedOnce'
    BY <1>2 DEF IInv, FrameEnqueued, EnqueuedOnce
  <2>2. Hosted'
    <3>1. backend = "compute"
      BY <1>6, Constants DEF IInv, Hosted, TypeOK
    <3> QED
      BY <1>2, <1>7, <3>1 DEF IInv, Hosted
  <2> QED
    BY <2>1, <2>2
<1>17. Ordered'
  BY <1>2, <1>3, <1>7, <1>15 DEF IInv, Ordered, Reset
<1>18. Counted'
  <2>1. \A m : Wrote(m)' <=> Wrote(m)
    BY <1>2 DEF Wrote
  <2>2. Reset' <=> Reset
    BY <1>15 DEF Reset
  <2> QED
    BY <1>2, <1>7, <1>15, <2>1, <2>2 DEF IInv, Counted
<1>19. /\ Expected' = Expected /\ AllFixed' = AllFixed
       /\ Done' = Done \cup {k} /\ k \notin Done
       /\ Found(hits) = {c \in (DOMAIN hits) \X Pairs : c[2] \in hits[c[1]]}
       /\ IsFiniteSet(AllFixed)
  <2>1. Expected' = Expected /\ AllFixed' = AllFixed
    BY <1>2 DEF Expected, AllFixed
  <2>2. Done' = Done \cup {k} /\ k \notin Done
    BY <1>2, <1>3, <1>7 DEF Done
  <2> QED
    BY <1>6, <2>1, <2>2, FoundAre
<1>20. IsInjective(output')
  <2>1. \A c \in ToSet(output) : c[1] # k
    BY <1>6, <1>19 DEF Told
  <2>2. \A c \in ToSet(new) : c[1] = k
    BY <1>4, <1>5
  <2>3. ToSet(output) \cap ToSet(new) = {}
    BY <2>1, <2>2
  <2> QED
    BY <1>2, <1>4, <1>6, <1>8, <1>11, <2>3, ConcatOnce DEF Told
<1>21. \A c \in of : c \in Found(hits)
  BY <1>3, <1>9, <1>19
<1>22. \A c \in ToSet(output') : c \in Expected /\ c[1] \in Done'
  <2>1. ASSUME NEW c \in ToSet(new)
        PROVE  c \in Expected /\ c[1] = k
    <3>1. c \in of /\ c[2] \notin Fixed
      BY <1>4, <1>5
    <3> QED
      BY <1>21, <3>1 DEF Expected
  <2> QED
    BY <1>6, <1>12, <1>19, <2>1 DEF Told
<1>23. FixedDone \subseteq FixedDone' /\ fixed \subseteq FixedDone'
  <2>1. \A c \in fixed : c \in AllFixed /\ c[1] = k
    BY <1>5, <1>21 DEF AllFixed
  <2> HIDE DEF fixed
  <2> QED
    BY <1>19, <2>1 DEF FixedDone
<1>24. /\ IsFiniteSet(FixedDone') /\ Cardinality(FixedDone') \in Nat
       /\ Cardinality(fixed) <= Cardinality(FixedDone')
       /\ Cardinality(FixedDone) \in Nat
       /\ Cardinality(FixedDone) <= Cardinality(FixedDone')
  <2>1. IsFiniteSet(FixedDone')
    <3>1. FixedDone' \subseteq AllFixed
      BY <1>19 DEF FixedDone
    <3> QED
      BY <1>19, <3>1, FS_Subset
  <2> HIDE DEF fixed
  <2>2. IsFiniteSet(FixedDone)
    BY <1>23, <2>1, FS_Subset
  <2> QED
    BY <1>23, <2>1, <2>2, FS_Subset, FS_CardinalityType
<1>25. \/ \A c \in Expected : c[1] \in Done' => c \in ToSet(output')
       \/ Len(output') + Cardinality(FixedDone') >= capacity
  <2>1. CASE r # n
    BY <1>3, <1>4, <1>8, <1>10, <1>12, <1>24, <2>1
  <2>2. CASE Len(output) + Cardinality(FixedDone) >= capacity
    BY <1>4, <1>8, <1>12, <1>24, <2>2
  <2>3. CASE r = n /\ \A c \in Expected : c[1] \in Done => c \in ToSet(output)
    <3>1. ASSUME NEW c \in Expected, c[1] = k
          PROVE  c \in ToSet(new)
      <4>1. c \in (DOMAIN hits) \X Pairs /\ c[2] \in hits[c[1]] /\ c[2] \notin Fixed
        BY <1>19 DEF Expected
      <4>2. c = <<c[1], c[2]>>
        BY <4>1
      <4>3. c \in of
        BY <3>1, <4>1, <4>2
      <4> QED
        BY <1>3, <1>4, <2>3, <4>1, <4>3
    <3> QED
      BY <1>12, <1>19, <2>3, <3>1
  <2> QED
    BY <1>6, <2>1, <2>2, <2>3 DEF Told
<1>26. Told'
  BY <1>20, <1>22, <1>19, <1>25, <1>2 DEF Told
<1> QED
  BY <1>14, <1>16, <1>17, <1>18, <1>26 DEF IInv

(* What the device has left to do when check() has returned. *)
LEMMA AllRead ==
    ASSUME IInv
    PROVE  Outstanding
<1> SUFFICES ASSUME Idle, NEW i \in DOMAIN queue
             PROVE  /\ queue[i].op = "copy"
                    /\ queue[i].frame = frame =>
                        \A k \in DOMAIN hits : queue[i].of \notin Accesses(k)
  BY DEF Outstanding
<1>1. \A k \in DOMAIN hits : ~Left("exec", k) /\ ~Left("barrier", k)
  <2>1. ToSet(reads) = {}
    BY DEF Idle, ToSet
  <2> QED
    BY <2>1 DEF IInv, Ordered
<1>2. Reset
  BY <1>1 DEF IInv, Ordered
<1>3. /\ queue[i].op # "copy" => queue[i].frame = frame
      /\ queue[i].op = "fill" => queue[i].of = "counters"
      /\ queue[i].op \in {"barrier", "exec"} => queue[i].of \in DOMAIN hits
  BY DEF IInv, FrameEnqueued
<1>4. queue[i].op \in {"fill", "copy", "barrier", "exec"}
  <2>1. queue[i] \in Command
    BY LenProperties, ElementOfSeq DEF IInv, TypeOK
  <2> QED
    BY <2>1 DEF Command
<1>5. queue[i].frame = frame => Left(queue[i].op, queue[i].of)
  BY DEF Left, Pending
<1>6. queue[i].op = "copy"
  BY <1>1, <1>2, <1>3, <1>4, <1>5 DEF Reset
<1>7. ASSUME queue[i].frame = frame, NEW k \in DOMAIN hits, queue[i].of \in Accesses(k)
      PROVE  FALSE
  BY <1>1, <1>5, <1>6, <1>7 DEF IInv, Ordered
<1> QED
  BY <1>6, <1>7

LEMMA CheckComputeStep ==
    ASSUME IInv, Waited, NEW ts \in Scenes, NEW h \in Collisions(ts),
           check_compute(ts, h)
    PROVE  IInv'
<1> DEFINE ks == Launched(ts)
<1>1. /\ backend = "compute" /\ Idle /\ frame < MaxFrames
      /\ frame' = frame + 1 /\ hits' = h /\ fresh' = {}
      /\ buffer' = Unwritten(capacity) /\ reads' = ks /\ output' = <<>>
      /\ updated' = FALSE /\ backend' = backend /\ counters' = counters
      /\ capacity' = capacity
  BY Zenon DEF check_compute
<1>2. /\ TypeOK /\ FrameEnqueued /\ EnqueuedOnce /\ Outstanding
      /\ frame \in Nat /\ frame' \in 0..MaxFrames
  BY <1>1, AllRead, Constants DEF IInv, TypeOK
<1>3. /\ queue' \in Seq(Command) /\ EnqueuedOnce'
      /\ \A op, of : Left(op, of)' <=>
            \/ op = "fill" /\ of = "counters"
            \/ op = "copy" /\ of \in ToSet(Members) /\ TypeOf(of) \in ts
            \/ op \in {"barrier", "exec"} /\ of \in ToSet(ks)
      /\ \A i \in DOMAIN queue' :
            /\ queue'[i].frame <= frame'
            /\ queue'[i].frame = frame' => queue'[i].live
            /\ queue'[i].op # "copy" => queue'[i].frame = frame'
            /\ queue'[i].op = "copy" => queue'[i].of \in ToSet(Members)
            /\ queue'[i].op = "fill" => queue'[i].of = "counters"
            /\ queue'[i].op \in {"barrier", "exec"} => queue'[i].of \in ToSet(ks)
  BY <1>1, <1>2, Enqueuing, Zenon
<1>4. /\ ks \in Seq(ToSet(ks)) /\ IsInjective(ks)
      /\ ToSet(ks) = {k \in KernelSet : Operands(k) \subseteq ts}
  BY <1>1, LaunchedAre
<1>5. h \in [ToSet(ks) -> SUBSET Pairs]
  BY DEF Collisions
<1> HIDE DEF ks
<1>6. DOMAIN hits' = ToSet(ks)
  BY <1>1, <1>5
<1>7. ToSet(ks) # {} /\ "aabb_sphere" \notin ToSet(ks)
  <2>1. "compute" \in Backends
    BY <1>1, <1>2 DEF TypeOK
  <2>2. ~({"aabb", "sphere"} \subseteq ts) /\ \E k \in KernelSet : Operands(k) \subseteq ts
    BY <2>1 DEF Waited
  <2>3. Operands("aabb_sphere") = {"aabb", "sphere"}
    BY DEF Operands, AllTypes
  <2> QED
    BY <1>4, <2>2, <2>3
<1>8. TypeOK'
  <2>1. Checks' = Checks /\ ToSet(ks) \subseteq ToSet(Checks)
    BY <1>1, <1>4 DEF Checks, KernelSet
  <2>2. DOMAIN hits' \subseteq ToSet(Checks) /\ \A k \in DOMAIN hits' : hits'[k] \subseteq Pairs
    BY <1>1, <1>5, <2>1
  <2>3. buffer' \in [KernelSet -> [1..capacity -> Pairs \cup {Old}]]
    BY <1>1 DEF Unwritten
  <2>4. output' \in Seq(ToSet(Checks) \X (Pairs \cup {Old})) /\ Len(output') = 0
    BY <1>1, EmptySeq
  <2>5. capacity \in Limits /\ capacity \in Nat
    BY <1>2, Constants DEF TypeOK
  <2>6. fresh' \subseteq ToSet(Members) /\ updated' \in BOOLEAN
    BY <1>1
  <2>7. reads' \in Seq(DOMAIN hits')
    BY <1>1, <1>4, <1>6
  <2> QED
    BY <1>1, <1>2, <1>3, <2>1, <2>2, <2>3, <2>4, <2>5, <2>6, <2>7 DEF TypeOK
<1>9. FrameEnqueued'
  BY <1>3, <1>6 DEF FrameEnqueued
<1>10. Ordered'
  <2>1. ASSUME NEW k \in ToSet(ks)
        PROVE  Left("barrier", k)' /\ Left("exec", k)' /\ k \in ToSet(reads')
    BY <1>1, <1>3
  <2>2. ASSUME NEW k \in ToSet(ks), NEW m \in Accesses(k)
        PROVE  Left("copy", m)'
    <3>1. m \in ToSet(Members) /\ TypeOf(m) \in Operands(k)
      BY <1>4, AccessesAre
    <3>2. TypeOf(m) \in ts
      BY <1>4, <3>1
    <3> QED
      BY <1>3, <3>1, <3>2
  <2> QED
    BY <1>6, <1>7, <2>1, <2>2 DEF Ordered
<1>11. Hosted'
  BY <1>1, <1>4, <1>6, <1>7 DEF Hosted
<1>12. Counted'
  <2>1. ~Reset'
    BY <1>3 DEF Reset
  <2>2. \A k \in ToSet(reads') : Left("exec", k)'
    BY <1>1, <1>3
  <2> QED
    BY <2>1, <2>2 DEF Counted
<1>13. Told'
  <2>1. output' = <<>> /\ ToSet(output') = {} /\ IsInjective(output')
    BY <1>1 DEF ToSet, IsInjective
  <2>2. Done' = {}
    BY <1>1, <1>6 DEF Done
  <2> QED
    BY <2>1, <2>2 DEF Told
<1> QED
  BY <1>3, <1>8, <1>9, <1>10, <1>11, <1>12, <1>13 DEF IInv

(* What add_collision() adds of the collisions it is called with. *)
LEMMA AddedAre ==
    ASSUME NEW A, NEW cs \in Seq(A), IsInjective(cs), capacity \in Nat
    PROVE  /\ Added(cs) \in Seq(A) /\ IsInjective(Added(cs))
           /\ Len(Added(cs)) \in Nat /\ Len(Added(cs)) <= capacity
           /\ ToSet(Added(cs)) \subseteq {c \in ToSet(cs) : c[2] \notin Fixed}
           /\ \/ Len(Added(cs)) = capacity
              \/ ToSet(Added(cs)) = {c \in ToSet(cs) : c[2] \notin Fixed}
<1> DEFINE s == Movable(cs)
           l == Len(s)
           n == Fewer(l, capacity)
           a == Added(cs)
<1>1. /\ s \in Seq(A) /\ IsInjective(s) /\ l \in Nat
      /\ ToSet(s) = {c \in ToSet(cs) : c[2] \notin Fixed}
  BY MovableAre, Zenon
<1>2. a = SubSeq(s, 1, n)
  BY DEF Added
<1> HIDE DEF s, a
<1>3. n \in Nat /\ n <= l /\ n <= capacity /\ (n = capacity \/ n = l)
  BY <1>1 DEF Fewer
<1> HIDE DEF n
<1>4. DOMAIN s = 1..l /\ \A i \in 1..l : s[i] \in A
  BY <1>1, LenProperties, ElementOfSeq
<1>5. \A i \in 1..n : s[i] \in A /\ i \in 1..l
  <2> HIDE DEF l
  <2> QED
    BY <1>1, <1>3, <1>4
<1>6. /\ a \in Seq(A) /\ Len(a) = IF 1 <= n THEN n - 1 + 1 ELSE 0
      /\ \A i \in 1..(n - 1 + 1) : a[i] = s[1 + i - 1]
  BY <1>2, <1>3, <1>5, SubSeqProperties
<1>7. /\ a \in Seq(A) /\ Len(a) = n /\ DOMAIN a = 1..n
      /\ \A i \in 1..n : a[i] = s[i] /\ i \in 1..l
  <2>1. Len(a) = n
    BY <1>3, <1>6
  <2>2. DOMAIN a = 1..n
    BY <1>6, <2>1, LenProperties
  <2>3. \A i \in 1..n : i \in 1..(n - 1 + 1) /\ 1 + i - 1 = i
    BY <1>3
  <2> QED
    BY <1>5, <1>6, <2>1, <2>2, <2>3
<1>8. IsInjective(a)
  <2>1. \A i, j \in 1..l : s[i] = s[j] => i = j
    BY <1>1, <1>4 DEF IsInjective
  <2> QED
    BY <1>7, <2>1 DEF IsInjective
<1>9. ToSet(a) \subseteq ToSet(s) /\ (n = l => ToSet(a) = ToSet(s))
  <2>1. ToSet(a) = {a[i] : i \in 1..n} /\ ToSet(s) = {s[i] : i \in 1..l}
    BY <1>4, <1>7 DEF ToSet
  <2> HIDE DEF l
  <2> QED
    BY <1>7, <2>1
<1> QED
  BY <1>1, <1>3, <1>7, <1>8, <1>9 DEF a

(* The native back end reports what it should when it returns. *)
LEMMA CheckNativeStep ==
    ASSUME IInv, NEW ts, NEW h \in Collisions(ts), check_native(h)
    PROVE  IInv' /\ ReportedNow'
<1>1. PICK cs \in SetToSeqs(Found(h)) : output' = Added(cs)
  BY Zenon DEF check_native
<1>2. /\ backend = "native" /\ frame < MaxFrames /\ frame' = frame + 1 /\ hits' = h
      /\ updated' = FALSE /\ backend' = backend /\ queue' = queue /\ fresh' = fresh
      /\ counters' = counters /\ buffer' = buffer /\ reads' = reads
      /\ capacity' = capacity
  BY DEF check_native, device_vars
<1>3. /\ TypeOK /\ frame' \in 0..MaxFrames /\ queue = <<>> /\ reads = <<>>
      /\ capacity \in Nat
  BY <1>2, Constants DEF IInv, TypeOK, Hosted
<1> DEFINE ks == ToSet(Launched(ts))
<1>4. ks \subseteq ToSet(Checks) /\ h \in [ks -> SUBSET Pairs]
  BY LaunchedAre DEF Collisions
<1> HIDE DEF ks
<1>5. IsFiniteSet(DOMAIN h)
  BY <1>4, ChecksFinite, FS_Subset
<1>6. /\ Found(h) = {c \in (DOMAIN h) \X Pairs : c[2] \in h[c[1]]}
      /\ IsFiniteSet(Found(h))
  BY <1>4, <1>5, FoundIn
<1>7. cs \in Seq(Found(h)) /\ IsInjective(cs) /\ ToSet(cs) = Found(h)
  BY <1>1, <1>6, LoopsInOrder
<1>8. /\ output' \in Seq(Found(h)) /\ IsInjective(output')
      /\ Len(output') \in Nat /\ Len(output') <= capacity
      /\ ToSet(output') \subseteq {c \in Found(h) : c[2] \notin Fixed}
      /\ \/ Len(output') = capacity
         \/ ToSet(output') = {c \in Found(h) : c[2] \notin Fixed}
  BY <1>1, <1>3, <1>7, AddedAre
<1>9. output' \in Seq(ToSet(Checks) \X (Pairs \cup {Old}))
  <2>1. Found(h) \subseteq ToSet(Checks) \X (Pairs \cup {Old})
    BY <1>4, <1>6
  <2>2. \A i \in 1..Len(output') : output'[i] \in ToSet(Checks) \X (Pairs \cup {Old})
    BY <1>8, <2>1, ElementOfSeq
  <2>3. output' = [i \in 1..Len(output') |-> output'[i]]
    <3>1. output' \in [1..Len(output') -> Found(h)]
      BY <1>8, LenProperties
    <3> QED
      BY <3>1
  <2>4. output' \in [1..Len(output') -> ToSet(Checks) \X (Pairs \cup {Old})]
    BY <2>2, <2>3
  <2> QED
    BY <1>8, <2>4, IsASeq
<1>10. TypeOK'
  <2>1. Checks' = Checks
    BY <1>2 DEF Checks
  <2>2. DOMAIN hits' \subseteq ToSet(Checks) /\ \A k \in DOMAIN hits' : hits'[k] \subseteq Pairs
    BY <1>2, <1>4
  <2>3. reads' \in Seq(DOMAIN hits')
    BY <1>2, <1>3, EmptySeq
  <2> QED
    BY <1>2, <1>3, <1>8, <1>9, <2>1, <2>2, <2>3 DEF TypeOK
<1>11. \A op, of : ~Left(op, of)'
  BY <1>2, <1>3 DEF Left, Pending
<1>12. FrameEnqueued' /\ EnqueuedOnce' /\ Hosted' /\ Idle'
  <2>1. DOMAIN queue' = {} /\ reads' = <<>> /\ queue' = <<>> /\ IsInjective(reads')
    BY <1>2, <1>3 DEF IsInjective
  <2>2. backend' = "native"
    BY <1>2
  <2> QED
    BY <2>1, <2>2 DEF FrameEnqueued, EnqueuedOnce, Hosted, Idle
<1>13. Ordered'
  BY <1>2, <1>11 DEF Ordered, Reset
<1>14. Counted'
  <2>1. ToSet(reads') = {}
    BY <1>2, <1>3 DEF ToSet
  <2> QED
    BY <2>1 DEF Counted
<1>15. ReportedNow'
  <2>1. Expected' = {c \in Found(h) : c[2] \notin Fixed}
    BY <1>2 DEF Expected
  <2>2. Cardinality(ToSet(output')) = Len(output')
    BY <1>8, ElementsOnce
  <2>3. capacity' = capacity
    BY <1>2
  <2>4. Expected' \subseteq ToSet(output') \/ Len(output') >= capacity
    BY <1>3, <1>8, <2>1
  <2> QED
    BY <1>8, <2>1, <2>2, <2>3, <2>4 DEF ReportedNow
<1> QED
  BY <1>10, <1>12, <1>13, <1>14, <1>15 DEF IInv

(* Nothing that the host does between checks disturbs what it waits for. *)
LEMMA LimitStep ==
    ASSUME IInv, NEW n \in Limits, set_max_collisions(n)
    PROVE  IInv'
<1>1. /\ Idle /\ capacity' = n /\ buffer' = Unwritten(n) /\ updated' = TRUE
      /\ output' = IF n < capacity THEN <<>> ELSE output
      /\ backend' = backend /\ frame' = frame /\ hits' = hits /\ queue' = queue
      /\ fresh' = fresh /\ counters' = counters /\ reads' = reads
  BY DEF set_max_collisions
<1>2. ToSet(reads) = {} /\ Idle'
  BY <1>1 DEF Idle, ToSet
<1>3. Checks' = Checks /\ TypeOK
  BY <1>1 DEF Checks, IInv
<1>4. /\ output' \in Seq(ToSet(Checks) \X (Pairs \cup {Old}))
      /\ Len(output') <= n /\ n \in Nat
  <2>1. /\ output \in Seq(ToSet(Checks) \X (Pairs \cup {Old}))
        /\ capacity \in Nat /\ n \in Nat /\ Len(output) <= capacity
        /\ Len(output) \in Nat
    BY <1>3, Constants, LenProperties DEF TypeOK
  <2>2. CASE n < capacity
    <3>1. output' = <<>>
      BY <1>1, <2>2
    <3> QED
      BY <2>1, <3>1, EmptySeq
  <2>3. CASE ~(n < capacity)
    <3>1. output' = output
      BY <1>1, <2>3
    <3> QED
      BY <2>1, <2>3, <3>1
  <2> QED
    BY <2>2, <2>3
<1>5. buffer' \in [KernelSet -> [1..n -> Pairs \cup {Old}]]
  BY <1>1 DEF Unwritten
<1>6. TypeOK'
  BY <1>1, <1>3, <1>4, <1>5 DEF TypeOK
<1>7. \A op, of : Left(op, of)' <=> Left(op, of)
  BY <1>1 DEF Left, Pending
<1>8. FrameEnqueued' /\ EnqueuedOnce' /\ Hosted'
  BY <1>1 DEF IInv, FrameEnqueued, EnqueuedOnce, Hosted
<1>9. Ordered'
  BY <1>1, <1>7 DEF IInv, Ordered, Reset
<1>10. Counted'
  BY <1>1, <1>2 DEF Counted
<1> QED
  BY <1>2, <1>6, <1>8, <1>9, <1>10 DEF IInv

LEMMA TurnedOffStep ==
    ASSUME IInv, check_turned_off
    PROVE  IInv'
<1>1. /\ Idle /\ output' = <<>> /\ backend' = backend /\ frame' = frame
      /\ hits' = hits /\ queue' = queue /\ fresh' = fresh
      /\ counters' = counters /\ buffer' = buffer /\ reads' = reads
      /\ capacity' = capacity /\ updated' = updated
  BY DEF check_turned_off, device_vars
<1>2. TypeOK'
  <2>1. Checks' = Checks /\ TypeOK
    BY <1>1 DEF Checks, IInv
  <2>2. output' \in Seq(ToSet(Checks) \X (Pairs \cup {Old})) /\ Len(output') = 0
    BY <1>1, EmptySeq
  <2>3. capacity \in Limits /\ capacity \in Nat
    BY <2>1, Constants DEF TypeOK
  <2> QED
    BY <1>1, <2>1, <2>2, <2>3 DEF TypeOK
<1>3. \A op, of : Left(op, of)' <=> Left(op, of)
  BY <1>1 DEF Left, Pending
<1>4. FrameEnqueued' /\ EnqueuedOnce' /\ Hosted'
  BY <1>1 DEF IInv, FrameEnqueued, EnqueuedOnce, Hosted
<1>5. Ordered'
  BY <1>1, <1>3 DEF IInv, Ordered, Reset
<1>6. Counted' /\ Idle'
  <2>1. ToSet(reads) = {} /\ Idle'
    BY <1>1 DEF Idle, ToSet
  <2> QED
    BY <1>1, <2>1 DEF Counted
<1> QED
  BY <1>2, <1>4, <1>5, <1>6 DEF IInv

LEMMA Unchanged ==
    ASSUME IInv, UNCHANGED check_vars
    PROVE  IInv'
<1>1. /\ backend' = backend /\ frame' = frame /\ hits' = hits /\ queue' = queue
      /\ fresh' = fresh /\ counters' = counters /\ buffer' = buffer
      /\ reads' = reads /\ output' = output /\ capacity' = capacity
      /\ updated' = updated
  BY DEF check_vars
<1>2. TypeOK' /\ FrameEnqueued' /\ EnqueuedOnce' /\ Hosted'
  BY <1>1 DEF IInv, TypeOK, Checks, FrameEnqueued, EnqueuedOnce, Hosted
<1>3. \A op, of : Left(op, of)' <=> Left(op, of)
  BY <1>1 DEF Left, Pending
<1>4. Ordered'
  BY <1>1, <1>3 DEF IInv, Ordered, Reset
<1>5. Counted'
  <2>1. \A m : Wrote(m)' <=> Wrote(m)
    BY <1>1 DEF Wrote
  <2>2. Reset' <=> Reset
    BY <1>3 DEF Reset
  <2> QED
    BY <1>1, <1>3, <2>1, <2>2 DEF IInv, Counted
<1>6. (~Idle => Told)'
  BY <1>1 DEF IInv, Idle, Told, Done, FixedDone, Expected, AllFixed
<1> QED
  BY <1>2, <1>4, <1>5, <1>6 DEF IInv

LEMMA Initially ==
    ASSUME CollisionsInit
    PROVE  IInv
<1>1. /\ backend \in Backends /\ frame = 0 /\ hits = <<>> /\ queue = <<>>
      /\ fresh = {} /\ counters = [k \in KernelSet |-> 0]
      /\ reads = <<>> /\ output = <<>> /\ capacity \in Limits
      /\ buffer = Unwritten(capacity) /\ updated = TRUE
  BY DEF CollisionsInit
<1>2. DOMAIN hits = {} /\ DOMAIN queue = {} /\ ToSet(reads) = {} /\ Idle
  BY <1>1 DEF ToSet, Idle
<1>3. TypeOK
  <2>1. frame \in 0..MaxFrames /\ capacity \in Nat
    BY <1>1, Constants
  <2>2. /\ reads \in Seq(DOMAIN hits) /\ queue \in Seq(Command)
        /\ output \in Seq(ToSet(Checks) \X (Pairs \cup {Old})) /\ Len(output) = 0
    BY <1>1, EmptySeq
  <2>3. buffer \in [KernelSet -> [1..capacity -> Pairs \cup {Old}]]
    BY <1>1 DEF Unwritten
  <2> QED
    BY <1>1, <1>2, <2>1, <2>2, <2>3 DEF TypeOK
<1>4. \A op, of : ~Left(op, of)
  BY <1>2 DEF Left, Pending
<1>5. FrameEnqueued /\ EnqueuedOnce
  BY <1>2 DEF FrameEnqueued, EnqueuedOnce
<1>6. Hosted
  BY <1>1, <1>2 DEF Hosted, IsInjective
<1>7. Ordered /\ Counted
  BY <1>2, <1>4 DEF Ordered, Reset, Counted
<1> QED
  BY <1>2, <1>3, <1>5, <1>6, <1>7 DEF IInv

LEMMA DeviceSteps ==
    ASSUME IInv, Device
    PROVE  IInv' /\ UNCHANGED Host
<1>1. PICK i \in DOMAIN queue :
        fill_counters(i) \/ write_buffer_rect(i) \/ pass_barrier(i) \/ run_kernel(i)
  BY DEF Device
<1>2. CASE fill_counters(i)
  BY <1>2, FillStep DEF fill_counters
<1>3. CASE write_buffer_rect(i)
  BY <1>3, UploadStep DEF write_buffer_rect
<1>4. CASE pass_barrier(i)
  BY <1>4, BarrierStep DEF pass_barrier
<1>5. CASE run_kernel(i)
  <2>1. UNCHANGED Host
    BY <1>5, Zenon DEF run_kernel
  <2>2. PICK k : queue[i].of = k
    OBVIOUS
  <2> QED
    BY <1>5, <2>1, <2>2, KernelStep
<1> QED
  BY <1>1, <1>2, <1>3, <1>4, <1>5

-----------------------------------------------------------------------------
(* What follows.                                                           *)

(* One step of any kind preserves the invariant.                           *)
LEMMA Preserved ==
    ASSUME IInv, Waited, [CollisionsNext]_check_vars
    PROVE  IInv'
<1>1. CASE \E n \in Limits : set_max_collisions(n)
  BY <1>1, LimitStep
<1>2. CASE \E ts \in Scenes : \E h \in Collisions(ts) :
                check_compute(ts, h) \/ check_native(h)
  BY <1>2, CheckComputeStep, CheckNativeStep
<1>3. CASE check_turned_off
  BY <1>3, TurnedOffStep
<1>4. CASE read_collision_buffer
  BY <1>4, ReadStep
<1>5. CASE Device
  BY <1>5, DeviceSteps
<1>6. CASE UNCHANGED check_vars
  BY <1>6, Unchanged
<1> QED
  BY <1>1, <1>2, <1>3, <1>4, <1>5, <1>6 DEF CollisionsNext

(* The last of the kernels is read: all that collides is reported.         *)
LEMMA LastRead ==
    ASSUME IInv, read_collision_buffer, Idle'
    PROVE  ReportedNow'
<1>1. /\ backend' = backend /\ hits' = hits /\ capacity' = capacity /\ ~Idle
  BY DEF read_collision_buffer
<1>2. IInv' /\ Told'
  BY ReadStep
<1>3. TypeOK /\ backend = "compute"
  <2>1. backend # "native" /\ backend \in Backends /\ TypeOK
    BY <1>1 DEF IInv, Hosted, TypeOK, Idle
  <2> QED
    BY <2>1, Constants
<1>4. /\ Expected' = Expected /\ AllFixed' = AllFixed
      /\ Found(hits) = {c \in (DOMAIN hits) \X Pairs : c[2] \in hits[c[1]]}
      /\ IsFiniteSet(AllFixed)
  BY <1>1, <1>3, FoundAre DEF Expected, AllFixed
<1>5. Done' = DOMAIN hits
  <2>1. ToSet(reads') = {}
    BY DEF Idle, ToSet
  <2> QED
    BY <1>1, <2>1 DEF Done
<1>6. \A c \in Found(hits) : c[1] \in DOMAIN hits
  BY <1>4
<1>7. output' \in Seq(ToSet(Checks)' \X (Pairs \cup {Old})) /\ IsInjective(output')
      /\ capacity' \in Nat
  <2>1. TypeOK'
    BY <1>2 DEF IInv
  <2>2. output' \in Seq(ToSet(Checks)' \X (Pairs \cup {Old})) /\ capacity' \in Limits
    BY <2>1 DEF TypeOK
  <2> QED
    BY <1>2, <2>2, Constants DEF Told
<1>8. Cardinality(ToSet(output')) = Len(output') /\ Len(output') \in Nat
  BY <1>7, ElementsOnce, LenProperties
<1>9. ToSet(output') \subseteq Expected'
  BY <1>2 DEF Told
<1>10. \/ Expected' \subseteq ToSet(output')
       \/ Len(output') + Cardinality(AllFixed') >= capacity'
  <2>1. CASE (\A c \in Expected : c[1] \in Done => c \in ToSet(output))'
    BY <1>4, <1>5, <1>6, <2>1 DEF Expected
  <2>2. CASE (Len(output) + Cardinality(FixedDone) >= capacity)'
    <3>1. FixedDone' \subseteq AllFixed
      BY <1>4 DEF FixedDone
    <3>2. /\ IsFiniteSet(FixedDone') /\ Cardinality(FixedDone') \in Nat
          /\ Cardinality(AllFixed) \in Nat
          /\ Cardinality(FixedDone') <= Cardinality(AllFixed)
      BY <1>4, <3>1, FS_Subset, FS_CardinalityType
    <3> QED
      BY <1>4, <1>7, <1>8, <2>2, <3>2
  <2> QED
    BY <1>2, <2>1, <2>2 DEF Told
<1> QED
  BY <1>1, <1>3, <1>8, <1>9, <1>10 DEF ReportedNow

(* Whenever a check returns, what it reports is what collides.             *)
LEMMA Returned ==
    ASSUME IInv, Waited, CollisionsNext, frame' # frame \/ ~Idle, Idle'
    PROVE  ReportedNow'
<1>1. CASE \E n \in Limits : set_max_collisions(n)
  BY <1>1 DEF set_max_collisions
<1>2. ASSUME NEW ts \in Scenes, NEW h \in Collisions(ts), check_compute(ts, h)
      PROVE  FALSE
  <2>1. IInv'
    BY <1>2, CheckComputeStep
  <2>2. Left("fill", "counters")'
    <3>1. TypeOK /\ FrameEnqueued /\ EnqueuedOnce /\ Outstanding /\ Idle /\ frame \in Nat
      <4>1. Idle
        BY <1>2, Zenon DEF check_compute
      <4> QED
        BY <4>1, AllRead, Constants DEF IInv, TypeOK
    <3> QED
      BY <1>2, <3>1, Enqueuing
  <2>3. ToSet(reads') = {}
    BY DEF Idle, ToSet
  <2> QED
    BY <2>1, <2>2, <2>3 DEF IInv, Ordered, Reset
<1>3. CASE \E ts \in Scenes : \E h \in Collisions(ts) : check_native(h)
  BY <1>3, CheckNativeStep
<1>4. CASE check_turned_off
  BY <1>4 DEF check_turned_off
<1>5. CASE read_collision_buffer
  BY <1>5, LastRead
<1>6. CASE Device
  <2>1. reads' = reads /\ frame' = frame
    BY <1>6, DeviceSteps DEF Host
  <2> QED
    BY <2>1 DEF Idle
<1> QED
  BY <1>1, <1>2, <1>3, <1>4, <1>5, <1>6 DEF CollisionsNext

(* In every reachable state the limits, the buffers and the queue are what *)
(* they should be, and what the device has left when check() returned can  *)
(* disturb neither the results nor the next frame: for any scenes in which *)
(* what is read is waited for.                                             *)
THEOREM CollisionsSafe ==
    ASSUME Waited
    PROVE  CollisionsSpec => []BetweenCalls
<1>1. CollisionsInit => IInv
  BY Initially
<1>2. IInv /\ [CollisionsNext]_check_vars => IInv'
  BY Preserved
<1>3. IInv => BetweenCalls
  BY AllRead DEF BetweenCalls, IInv
<1> QED
  BY <1>1, <1>2, <1>3, PTL DEF CollisionsSpec

(* Every check reports exactly what collides, whichever the back end and   *)
(* in whatever order the device executes its commands, up to the limit:    *)
(* for any scenes in which what is read is waited for.                     *)
THEOREM ReportsAll ==
    ASSUME Waited
    PROVE  CollisionsSpec => Reported
<1>1. CollisionsInit => IInv
  BY Initially
<1>2. IInv /\ [CollisionsNext]_check_vars => IInv'
  BY Preserved
<1>3. IInv /\ [CollisionsNext]_check_vars =>
        [(frame' # frame \/ ~Idle) /\ Idle' => ReportedNow']_check_vars
  BY Returned
<1> QED
  BY <1>1, <1>2, <1>3, PTL DEF CollisionsSpec, Reported
=============================================================================
