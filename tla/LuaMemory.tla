----------------------------- MODULE LuaMemory -----------------------------
(***************************************************************************)
(* The memory of Lua (src/src/lua/alloc.cpp with the allocators it is made *)
(* of, src/src/utils/alloc/): every block has a header with the index of   *)
(* its type and its size, and the number and bytes of the blocks of each   *)
(* type are counted, to be zero when the state is closed.                  *)
(*                                                                         *)
(* The interpreter allocates, resizes and frees as it likes, but always    *)
(* gives the size of the block it has.                                     *)
(***************************************************************************)
EXTENDS Naturals, FiniteSets, FiniteSetsExt

CONSTANTS
    Highest,    \* address
    Tags,       \* what `osize` may be for a new block: the constants of types
    Sizes,      \* of blocks, without the header
    Mask,       \* 2 ^ type_shift: the header has room for smaller sizes
    Word        \* 2 ^ 64: a `size_t` has room for smaller numbers

MemoryAssumption ==
    /\ Mask \in Nat /\ Word \in Nat /\ 6 * Mask <= Word
    /\ Tags \subseteq 0 .. Word - 1 /\ Sizes \subseteq 1 .. Mask - 1
    /\ Highest \in 0 .. Word - 1
ASSUME MemoryAssumption

Blocks == 1 .. Highest

VARIABLES
    open,       \* whether there is a state
    blocks,     \* for each block of the state, its tag, size and header
    info        \* alloc_info::v: the number and bytes of each type

memory == <<open, blocks, info>>

NTypes == 6
First == 4      \* LUA_TSTRING
Indices == 0 .. NTypes - 1

Plus(x, y) == (x + y) % Word
Minus(x, y) == (x + Word - y) % Word

\* mutant: tags below the first are taken for the first
to_indexSigned(t) == Min({IF t < First THEN 0 ELSE t - First, NTypes - 1})

\* allocation::to_index(): unsigned, so that tags below the first wrap, and
\* are of "other" types as those above the last
to_index(t) == Min({Minus(t, First), NTypes - 1})

\* allocation: the index and the size in one word
set(t, n) == to_index(t) * Mask + n
set_size(h, n) == (h \div Mask) * Mask + n
index(h) == h \div Mask
size(h) == h % Mask

\* tracker: a block with header h is counted, or no longer
Counting(v, h) ==
    [v EXCEPT ![index(h)] = [n |-> Plus(@.n, 1), bytes |-> Plus(@.bytes, size(h))]]
Discounting(v, h) ==
    [v EXCEPT ![index(h)] = [n |-> Minus(@.n, 1), bytes |-> Minus(@.bytes, size(h))]]

\* The bytes of some blocks.
Bytes(bs, S) ==
    LET bytes[b \in 0 .. Highest] ==
            IF b = 0 THEN 0
            ELSE bytes[b - 1] + (IF b \in S THEN bs[b].size ELSE 0)
    IN  bytes[Highest]

\* There is no more memory than there are addresses of bytes.
Fits(bs) == Bytes(bs, DOMAIN bs) < Word

Free == Blocks \ DOMAIN blocks
Kept(p) == [b \in DOMAIN blocks \ {p} |-> blocks[b]]
With(f, p, r) == [b \in DOMAIN f \cup {p} |-> IF b = p THEN r ELSE f[b]]

MemoryInit ==
    /\ open = FALSE
    /\ blocks = [b \in {} |-> 0]
    /\ info = [i \in Indices |-> [n |-> 0, bytes |-> 0]]

\* state_view::init(): the one there was has been destroyed
init ==
    /\ ~open /\ blocks = [b \in {} |-> 0]
    /\ open' = TRUE
    /\ UNCHANGED <<blocks, info>>

\* lua_alloc() with no block: tracking_allocator, tagging_allocator and
\* reallocator::allocate(), and then tracker::allocate()
allocate(t, n) ==
    /\ open
    /\ \E p \in Free :
        blocks' = With(blocks, p, [tag |-> t, size |-> n, header |-> set(t, n)])
    /\ Fits(blocks')
    /\ info' = Counting(info, set(t, n))
    /\ UNCHANGED open

\* lua_alloc() with a block and a size: reallocate_pre(), and reallocate()
\* with the header where it may have been moved
reallocate(p, n) ==
    /\ open /\ p \in DOMAIN blocks
    /\ LET h == blocks[p].header
           moved == set_size(h, n)
       IN  /\ \E q \in Free \cup {p} :
                blocks' = With(Kept(p), q,
                    [tag |-> blocks[p].tag, size |-> n, header |-> moved])
           /\ Fits(blocks')
           /\ info' = Counting(Discounting(info, h), moved)
    /\ UNCHANGED open

\* lua_alloc() with a block and no size
deallocate(p) ==
    /\ p \in DOMAIN blocks
    /\ blocks' = Kept(p)
    /\ info' = Discounting(info, blocks[p].header)
    /\ UNCHANGED open

\* state_view::destroy(): lua_close() frees every block
destroy_state ==
    /\ open
    /\ open' = FALSE
    /\ UNCHANGED <<blocks, info>>

MemoryNext ==
    \/ init \/ destroy_state
    \/ \E t \in Tags, n \in Sizes : allocate(t, n)
    \/ \E p \in Blocks, n \in Sizes : reallocate(p, n)
    \/ \E p \in Blocks : deallocate(p)

(***************************************************************************)
(* Properties.                                                             *)
(***************************************************************************)

MemoryTypeOK ==
    /\ open \in BOOLEAN
    /\ DOMAIN blocks \subseteq Blocks
    /\ info \in [Indices -> [n : 0 .. Word - 1, bytes : 0 .. Word - 1]]

\* The blocks of a type, from what was asked for.
Kind(i) ==
    {p \in DOMAIN blocks :
        IF blocks[p].tag \in First .. First + NTypes - 2 THEN i = blocks[p].tag - First
        ELSE i = NTypes - 1}

\* What is counted for each type is what exists, through any sequence of
\* requests (alloc.h: "`n` is the number of existing allocations, `bytes` is
\* their total size"), and so nothing is counted when all is freed, and
\* check_alloc_info() finds nothing to say.  The size the interpreter gives to
\* free a block is that of the header, as deallocate() asserts.
Counted ==
    /\ \A i \in Indices :
        /\ info[i].n = Cardinality(Kind(i))
        /\ info[i].bytes = Bytes(blocks, Kind(i))
    /\ \A p \in DOMAIN blocks : size(blocks[p].header) = blocks[p].size

MemoryInv == MemoryTypeOK /\ Counted
=============================================================================
