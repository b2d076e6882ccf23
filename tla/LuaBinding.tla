---------------------------- MODULE LuaBinding -----------------------------
(***************************************************************************)
(* The stack of Lua and its memory.  Neither reads what the other writes,  *)
(* so that a behavior is one of either, with the other at rest.            *)
(***************************************************************************)
EXTENDS Lua, LuaMemory

AllVars == <<vars, memory>>

BindingInit == Init /\ MemoryInit

BindingNext ==
    \/ MemoryInit /\ Next /\ UNCHANGED memory
    \/ Init /\ MemoryNext /\ UNCHANGED vars

BindingSpec == BindingInit /\ [][BindingNext]_AllVars

(* The stack is exact, user data lives (Lua.tla), and what is counted of   *)
(* the memory is what there is (LuaMemory.tla), through any calls of       *)
(* src/src/lua/ by the engine and of its allocator by the interpreter.     *)
BindingInv == LuaInv /\ MemoryInv
=============================================================================
