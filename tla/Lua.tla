-------------------------------- MODULE Lua --------------------------------
(***************************************************************************)
(* The binding of Lua (src/src/lua/): what C++ functions do with the stack *)
(* of the interpreter.  Values on the stack are referred to by index, and  *)
(* an index is good only as long as whatever was pushed before it stays    *)
(* and whatever was pushed after it is gone.  The library leaves that to   *)
(* the destructors of C++ objects: references that own their slot,         *)
(* deferred pops, marks, iterators.                                        *)
(*                                                                         *)
(* One C++ function is executing, with the stack of its frame and the      *)
(* objects of its scopes, which are destroyed in reverse order.  Each      *)
(* operation of the library is computed as the sequence of calls to the    *)
(* API of Lua that it makes.                                               *)
(***************************************************************************)
EXTENDS Naturals, FiniteSets, Sequences, SequencesExt

CONSTANTS
    Tables,     \* tables that may exist, apart from that of globals
    Keys,       \* keys of tables, 1..n, as `ipairs` has them
    Scalars,    \* values without identity
    Data,       \* user data that may exist
    External,   \* objects of the engine
    Copies,     \* objects that are copied into user data
    MaxStack,   \* bound of the slots owned at a time
    MaxLocals,  \* bound of the objects in scope
    MaxFields,  \* bound of the fields that exist
    MaxPath,    \* bound of the keys given at a time
    Missing,    \* are references to fields that do not exist requested?
    TasksFail,  \* do tasks fail that may fail (`IGNORE_FAILURES`)?
    Results,    \* values `on_collision` returns
    Nil, None, Globals, Meta, Handler

\* Values of different kinds are different.
LuaAssumption ==
    /\ Keys = 1 .. Cardinality(Keys) /\ Keys # {}
    /\ IsFiniteSet(Keys) /\ IsFiniteSet(Tables)
    /\ {Missing, TasksFail} \subseteq BOOLEAN
    /\ {MaxStack, MaxLocals, MaxFields, MaxPath, Results} \subseteq Nat
    /\ Tables \cap {Globals, Meta} = {} /\ Globals # Meta
    /\ Data \cap (Tables \cup {Globals, Meta}) = {}
    /\ ({Nil, Handler} \cup Keys \cup Scalars)
            \cap (Data \cup Tables \cup {Globals, Meta}) = {}
    /\ Nil \notin Keys
    /\ External \cap Copies = {}
    /\ None \notin [object : External \cup Copies, own : BOOLEAN]
ASSUME LuaAssumption

VARIABLES
    stack,      \* of the frame
    locals,     \* the C++ objects in scope, in the order of construction
    heap,       \* fields of each table
    data,       \* of each user data, the object and whether it is a copy
    alive       \* whether objects exist

vars == <<stack, locals, heap, data, alive>>

Objects == External \cup Copies
Values == {Nil, Handler, Globals, Meta} \cup Keys \cup Scalars \cup Tables \cup Data
Fields == Keys \cup {Meta}
Heap == Tables \cup {Globals, Meta}

\* An object in scope: a reference that owns slot i, `n` deferred pops, a
\* mark of the top, or an iterator.  `v` (the value it was made for) and
\* `seen` (what an iterator went through) are history.
Local(kind, i, n, v, t) ==
    [kind |-> kind, i |-> i, n |-> n, v |-> v, t |-> t, seen |-> <<>>]
Ref(i, v) == Local("ref", i, 0, v, 0)

(***************************************************************************)
(* The stack.                                                              *)
(***************************************************************************)

Pop(s, n) == SubSeq(s, 1, Len(s) - n)

\* table_base::begin_op(), end_op(): a table at index t; that of globals,
\* which is pushed; an intermediate one, which is at the top
Top == 0
Table == MaxStack + 100

\* mutant: the intermediate value is not removed
EndKept(s, t, i) == IF t = Table THEN RemoveAt(s, i) ELSE s

Begin(s, t) == IF t = Table THEN Append(s, Globals) ELSE s
Index(s, t) == IF t \in {Top, Table} THEN Len(s) ELSE t
End(s, t, i) == IF t \in {Top, Table} THEN RemoveAt(s, i) ELSE s

\* get_common() up to the reading of the result: the key is replaced by the
\* field, which is at the top when the table has been removed
Fetch(s, t, k) ==
    LET s1 == Begin(s, t)
        i == Index(s1, t)
    IN  End(Append(s1, heap[s1[i]][k]), t, i)

\* push_sub(), make_sub(): the stack after each key of a path, the value of
\* which takes the place of that of the one before
Walk(s, t, ks) ==
    LET walk[n \in 0 .. Len(ks)] ==
            IF n = 0 THEN s
            ELSE Fetch(walk[n - 1], IF n = 1 THEN t ELSE Top, ks[n])
    IN  walk
Path(s, t, ks) == Walk(s, t, ks)[Len(ks)]

\* set_common(): the values of the tables, and the stack
Stored(s, t, k, v) ==
    LET s1 == Begin(s, t)
        i == Index(s1, t)
        s2 == s1 \o <<k, v>>
    IN  [heap |-> [heap EXCEPT ![s2[i]][s2[Len(s2) - 1]] = s2[Len(s2)]],
         stack |-> End(Pop(s2, 2), t, i)]

StoredPath(t, ks, v) ==
    IF Len(ks) = 1 THEN Stored(stack, t, ks[1], v)
    ELSE Stored(Walk(stack, t, ks)[Len(ks) - 1], Top, Last(ks), v)

\* user_data::push(): the block, its meta table, which is found by name in
\* the globals, and consumed by lua_setmetatable()
PushUser(s, d) == Pop(Fetch(Append(s, d), Table, Meta), 1)

\* check_type(): both meta tables are compared and popped
Checked(s, i) == Pop(Fetch(Append(s, Meta), Table, Meta), 2)

\* What a path leads through and to, by definition.
Along(v, ks) ==
    LET along[n \in 0 .. Len(ks)] == IF n = 0 THEN v ELSE heap[along[n - 1]][ks[n]]
    IN  along
Field(v, ks) == Along(v, ks)[Len(ks)]
Holder(v, ks) == Along(v, ks)[Len(ks) - 1]
IsPath(v, ks) == \A n \in 0 .. Len(ks) - 1 : Along(v, ks)[n] \in Heap

Paths == UNION {[1 .. n -> Keys] : n \in 1 .. MaxPath}

(***************************************************************************)
(* What is reachable: the garbage collector may destroy the rest.          *)
(***************************************************************************)
Contents(h, s) == s \cup UNION {{h[t][k] : k \in Fields} : t \in s \cap Heap}
ReachedFrom(h, roots) ==
    LET all == Cardinality(Heap)
        reached[n \in 0 .. all] ==
            IF n = 0 THEN roots ELSE Contents(h, reached[n - 1])
    IN  reached[all]
Reached == ReachedFrom(heap, {Globals} \cup ToSet(stack))

Filled(h) ==
    Cardinality({p \in (Tables \cup {Globals}) \X Keys : h[p[1]][p[2]] # Nil})

Empty == [k \in Fields |-> Nil]

Init ==
    /\ stack = <<>>
    /\ locals = <<>>
    /\ heap = [t \in Heap |-> CASE t = Globals -> [Empty EXCEPT ![Meta] = Meta]
                               [] t = Meta -> [Empty EXCEPT ![1] = Meta]
                               [] OTHER -> Empty]
    /\ data = [d \in Data |-> None]
    /\ alive = [o \in Objects |-> o \in External]

(***************************************************************************)
(* Objects in scope.                                                       *)
(***************************************************************************)
Room == Len(stack) < MaxStack /\ Len(locals) < MaxLocals

\* The value at the top becomes owned.
Own(s, v) ==
    /\ stack' = s
    /\ locals' = Append(locals, Ref(Len(s), v))

\* The tables a local refers to, with where they are.
Refs == {p \in DOMAIN locals : locals[p].kind = "ref" /\ locals[p].v \in Heap}
Known == {<<locals[p].i, locals[p].v>> : p \in Refs} \cup {<<Table, Globals>>}

\* value::push() and lua::push(): a scalar, or another local's value
push(v) ==
    /\ Room
    /\ v \in Scalars \cup {locals[p].v : p \in {q \in DOMAIN locals : locals[q].kind = "ref"}}
    /\ Own(Append(stack, v), v)
    /\ UNCHANGED <<heap, data, alive>>

\* a view, and the pop that is due at the end of the scope
push_deferred(n) ==
    /\ Len(stack) + n <= MaxStack /\ Len(locals) < MaxLocals
    /\ stack' = stack \o [j \in 1 .. n |-> Nil]
    /\ locals' = Append(locals, Local("pop", 0, n, Nil, 0))
    /\ UNCHANGED <<heap, data, alive>>

create_table ==
    /\ Room
    /\ \E t \in Tables :
        /\ t \notin Reached
        /\ heap[t] = Empty
        /\ Own(Append(stack, t), t)
    /\ UNCHANGED <<heap, data, alive>>

stack_mark ==
    /\ Len(locals) < MaxLocals
    /\ locals' = Append(locals, Local("mark", Len(stack), 0, Nil, 0))
    /\ UNCHANGED <<stack, heap, data, alive>>

\* The last object in scope is destroyed.  A loop is not left by a `break`.
Leave(l) ==
    CASE l.kind = "ref" -> RemoveAt(stack, l.i)
      [] l.kind = "pop" -> Pop(stack, l.n)
      [] l.kind = "mark" -> stack

destroy ==
    /\ locals # <<>>
    /\ Last(locals).kind \in {"ref", "pop", "mark"}
    /\ stack' = Leave(Last(locals))
    /\ locals' = Front(locals)
    /\ UNCHANGED <<heap, data, alive>>

(***************************************************************************)
(* Fields.                                                                 *)
(***************************************************************************)

\* get_field() of a reference: the value stays and is owned.  That of a field
\* which does not exist stays too, with nobody to own it.
get_ref(t, ks) ==
    LET v == Field(t[2], ks)
        s == Path(stack, t[1], ks)
    IN  /\ Room
        /\ IsPath(t[2], ks)
        /\ IF v = Nil THEN Missing /\ stack' = s /\ UNCHANGED locals
           ELSE Own(s, v)
        /\ UNCHANGED <<heap, data, alive>>

\* get_field() of anything else, which is converted and popped; size();
\* to_string(), whose string is a temporary
get_value(t, ks) ==
    /\ IsPath(t[2], ks)
    /\ stack' = Pop(Path(stack, t[1], ks), 1)
    /\ UNCHANGED <<locals, heap, data, alive>>

\* Fields are not added to a table under iteration.
Iterated(x, k) ==
    heap[x][k] = Nil /\ \E p \in DOMAIN locals : locals[p].kind = "iter" /\ locals[p].v = x

Assign(t, ks, v) ==
    LET r == StoredPath(t[1], ks, v)
    IN  /\ stack' = r.stack
        /\ heap' = r.heap
        /\ Filled(heap') <= MaxFields

\* operator=: a scalar, nil, or a reference
set_field(t, ks, v) ==
    /\ IsPath(t[2], ks)
    /\ Holder(t[2], ks) # Meta
    /\ ~Iterated(Holder(t[2], ks), Last(ks))
    /\ v \in Scalars \cup {Nil} \cup {locals[p].v : p \in Refs}
    /\ Assign(t, ks, v)
    /\ UNCHANGED <<locals, data, alive>>

\* new_user_type(): a meta table, in the globals and with itself as `__index`;
\* that of the only type here was there before the function was called
new_user_type ==
    /\ Room
    /\ LET s == Append(stack, Meta)
           r == Stored(s, Table, Meta, Meta)
           q == [r.heap EXCEPT ![Meta][1] = Meta]
       IN  /\ Own(r.stack, Meta)
           /\ heap' = q
    /\ UNCHANGED <<data, alive>>

(***************************************************************************)
(* Iterators.  The key and the value are at fixed places, and must be at   *)
(* the top again when the iterator advances.                               *)
(***************************************************************************)
Following(x, k) == {l \in Keys : heap[x][l] # Nil /\ (k = Nil \/ l > k)}
Least(S) == CHOOSE k \in S : \A l \in S : k <= l

\* table_iter::next(), from stack s: lua_next() takes the key and gives
\* another and its value, or nothing
Advanced(s, l) ==
    LET q == Pop(s, 1)
        x == s[l.t]
        n == Following(x, Last(q))
    IN  IF n = {} THEN [stack |-> Front(q), pair |-> <<>>]
        ELSE LET k == Least(n)
             IN  [stack |-> Front(q) \o <<k, heap[x][k]>>, pair |-> <<k, heap[x][k]>>]

\* mutant: the first field is skipped
AdvancedPast(s, l) ==
    LET k == Len(l.seen) + 2
        q == IF k \in Keys THEN Fetch(Pop(s, 1), l.t, k) ELSE Append(Pop(s, 1), Nil)
    IN  IF Last(q) = Nil THEN [stack |-> Pop(q, 1), pair |-> <<>>]
        ELSE [stack |-> q, pair |-> <<k, Last(q)>>]

\* table_seq_iter::next(): what is not there is pushed, and popped
AdvancedSeq(s, l) ==
    LET k == Len(l.seen) + 1
        q == IF k \in Keys THEN Fetch(Pop(s, 1), l.t, k) ELSE Append(Pop(s, 1), Nil)
    IN  IF Last(q) = Nil THEN [stack |-> Pop(q, 1), pair |-> <<>>]
        ELSE [stack |-> q, pair |-> <<k, Last(q)>>]

Moved(r, before, l) ==
    /\ stack' = r.stack
    /\ locals' = IF r.pair = <<>> THEN before
                 ELSE Append(before, [l EXCEPT !.seen = Append(@, r.pair)])

\* begin(), ibegin(): room is made and the first is taken
iterate(p) ==
    /\ p \in Refs
    /\ Len(stack) + 2 <= MaxStack /\ Len(locals) < MaxLocals
    /\ \/ LET l == Local("iter", Len(stack) + 1, 0, locals[p].v, locals[p].i)
          IN  Moved(Advanced(stack \o <<Nil, Nil>>, l), locals, l)
       \/ LET l == Local("seq", Len(stack) + 1, 0, locals[p].v, locals[p].i)
          IN  Moved(AdvancedSeq(Append(stack, Nil), l), locals, l)
    /\ UNCHANGED <<heap, data, alive>>

next ==
    /\ locals # <<>>
    /\ LET l == Last(locals)
       IN  \/ l.kind = "iter" /\ Moved(Advanced(stack, l), Front(locals), l)
           \/ l.kind = "seq" /\ Moved(AdvancedSeq(stack, l), Front(locals), l)
    /\ UNCHANGED <<heap, data, alive>>

(***************************************************************************)
(* User data.                                                              *)
(***************************************************************************)
Unused == {d \in Data : data[d] = None /\ d \notin Reached}

\* A copy of an object, or a pointer to one of the engine.
push_user(o) ==
    /\ Room
    /\ o \in Copies => ~alive[o]
    /\ \E d \in Unused :
        /\ data' = [data EXCEPT ![d] = [object |-> o, own |-> o \in Copies]]
        /\ Own(PushUser(stack, d), d)
    /\ alive' = [alive EXCEPT ![o] = TRUE]
    /\ UNCHANGED heap

\* user_data::get(): a reference to user data is used
get_user(p) ==
    /\ p \in DOMAIN locals /\ locals[p].kind = "ref" /\ locals[p].v \in Data
    /\ stack' = Checked(stack, locals[p].i)
    /\ UNCHANGED <<locals, heap, data, alive>>

\* user_data::destroy(): a copy is destroyed, a pointer is not followed
Destroyed(d) ==
    IF data[d].own THEN [alive EXCEPT ![data[d].object] = FALSE] ELSE alive

\* The garbage collector, at any time: gc() of user data, and tables.
collect ==
    /\ \/ \E d \in Data \ Reached :
            /\ data[d] # None
            /\ alive' = Destroyed(d)
            /\ data' = [data EXCEPT ![d] = None]
            /\ UNCHANGED heap
       \/ \E t \in Tables \ Reached :
            /\ heap[t] # Empty
            /\ heap' = [heap EXCEPT ![t] = Empty]
            /\ UNCHANGED <<data, alive>>
    /\ UNCHANGED <<stack, locals>>

(***************************************************************************)
(* Calls.                                                                  *)
(***************************************************************************)

\* What a script does to the globals; those that other calls execute do the
\* same.
Ran(h) ==
    \E k \in Keys, v \in Scalars \cup {Nil} \cup (Reached \cap Tables) :
        /\ h = [heap EXCEPT ![Globals][k] = v]
        /\ Filled(h) <= MaxFields

\* dofile(), dostring(): the handler is popped, and so is the message of a
\* call that failed
dostring ==
    /\ LET s == Append(stack, Handler)
       IN  \/ stack' = Pop(Pop(Append(s, Nil), 1), 1) /\ UNCHANGED heap
           \/ stack' = Pop(s, 1) /\ Ran(heap')
           \/ stack' = Pop(Append(s, Nil), 2) /\ UNCHANGED heap
    /\ UNCHANGED <<locals, data, alive>>

\* key_callback(), button_callback(), move_callback(): one result or a
\* message, and the handler
callback ==
    /\ stack' = Pop(Append(Append(stack, Handler), Nil), 2)
    /\ UNCHANGED <<locals, heap, data, alive>>

\* entry_call(): the handler or, when the call fails, the message is popped
entry_call ==
    /\ \/ stack' = Pop(Append(stack, Handler), 1)
       \/ TasksFail /\ stack' = Pop(Append(stack, Handler) \o <<Nil>>, 1)
    /\ UNCHANGED <<locals, heap, data, alive>>

\* lua_on_collision() of n collisions: the handler, the function and a table
\* are popped in the end
lua_on_collision(n) ==
    /\ LET s == stack \o <<Handler, Nil>>
       IN  \/ stack' = Pop(s, 2)
           \/ stack' = Pop(Append(s, Nil) \o [j \in 1 .. n * Results |-> Nil], 3)
    /\ UNCHANGED <<locals, heap, data, alive>>

\* The function returns: what is on its frame is gone, whatever it is, and
\* iterators may be in the middle of their tables.
Return ==
    /\ locals # <<>> \/ stack # <<>>
    /\ \A p \in DOMAIN locals : locals[p].kind # "mark"
    /\ locals' = <<>>
    /\ stack' = <<>>
    /\ UNCHANGED <<heap, data, alive>>

Next ==
    \/ \E v \in Values : push(v)
    \/ push_deferred(2)
    \/ create_table \/ stack_mark \/ destroy \/ new_user_type
    \/ \E t \in Known, ks \in Paths : get_ref(t, ks) \/ get_value(t, ks)
    \/ \E t \in Known, ks \in Paths, v \in Values : set_field(t, ks, v)
    \/ \E p \in 1 .. MaxLocals : iterate(p) \/ get_user(p)
    \/ next
    \/ \E o \in Objects : push_user(o)
    \/ collect
    \/ dostring \/ callback \/ entry_call
    \/ \E n \in 1 .. 2 : lua_on_collision(n)
    \/ Return

Spec == Init /\ [][Next]_vars

(***************************************************************************)
(* Properties.                                                             *)
(***************************************************************************)

Slots(l) ==
    CASE l.kind = "ref" -> 1
      [] l.kind = "pop" -> l.n
      [] l.kind = "mark" -> 0
      [] l.kind = "iter" -> 2
      [] l.kind = "seq" -> 1

\* The top of the stack after each object was constructed, and before p was.
Tops(ls) ==
    LET tops[p \in 0 .. Len(ls)] == IF p = 0 THEN 0 ELSE tops[p - 1] + Slots(ls[p])
    IN  tops
Before(p) == Tops(locals)[p - 1]

TypeOK ==
    /\ stack \in Seq(Values)
    /\ \A p \in DOMAIN locals : locals[p].kind \in {"ref", "pop", "mark", "iter", "seq"}
    /\ heap \in [Heap -> [Fields -> Values]]
    /\ alive \in [Objects -> BOOLEAN]
    /\ \A d \in Data : data[d] # None => data[d].object \in Objects

\* Every slot of the stack belongs to one object in scope, and is where the
\* object has it: references and iterators find the values they were made
\* for (value.h, iter.h), pops have what they pop, and at the end of a scope
\* with a mark (utils.h) the top is what it was.
Exact ==
    /\ Len(stack) = Before(Len(locals) + 1)
    /\ \A p \in DOMAIN locals :
        LET l == locals[p] IN
        /\ l.kind = "ref" => l.i = Before(p) + 1 /\ stack[l.i] = l.v
        /\ l.kind = "mark" => l.i = Before(p)
        /\ l.kind = "iter" => SubSeq(stack, l.i, l.i + 1) = Last(l.seen)
        /\ l.kind = "seq" => stack[l.i] = Last(l.seen)[2]
        /\ l.kind \in {"iter", "seq"} => l.i = Before(p) + 1 /\ stack[l.t] = l.v

\* User data which can be reached leads to an object that exists, and a copy
\* exists for as long as its user data does: the collector destroys copies
\* only, once (user.h).
Lives ==
    /\ \A d \in Data : data[d] # None => alive[data[d].object]
    /\ \A d \in Data \cap Reached : data[d] # None
    /\ \A o \in Copies : alive[o] <=> Cardinality({d \in Data : data[d] # None /\ data[d].object = o}) = 1
    /\ \A o \in External : alive[o]

LuaInv == TypeOK /\ Exact /\ Lives

\* A loop that ends has been through every field its table has then, once:
\* `ipairs()` up to the first that does not exist, in order (iter.h).
Ended(p) ==
    LET l == locals[p]
        Went == {l.seen[n][1] : n \in DOMAIN l.seen}
        x == heap'[l.v]
    IN  /\ Cardinality(Went) = Len(l.seen)
        /\ l.kind = "iter" => {k \in Keys : x[k] # Nil} \subseteq Went
        /\ l.kind = "seq" => /\ \A n \in DOMAIN l.seen : l.seen[n][1] = n
                             /\ Len(l.seen) + 1 \in Keys => x[Len(l.seen) + 1] = Nil

Visited ==
    [][/\ Len(locals') = Len(locals) - 1
       /\ Last(locals).kind \in {"iter", "seq"}
       /\ locals' # <<>> \/ stack' # <<>>
       => Ended(Len(locals))]_vars
=============================================================================
