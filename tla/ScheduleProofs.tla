--------------------------- MODULE ScheduleProofs ---------------------------
(***************************************************************************)
(* The safety of the scheduler for every set of tasks, every bound on the  *)
(* clock and every number of frames: the indices it hands out stay good,   *)
(* one-shot tasks are executed once, nothing destroyed is called, and the  *)
(* slots implement a set of pending tasks (TaskSet).                       *)
(***************************************************************************)
EXTENDS Schedule, SequenceTheorems, TLAPS

(* Lemmas on the vectors.                                                  *)

(* A written slot changes nothing else.                                    *)
LEMMA PutSlot ==
    ASSUME NEW s \in Seq(Slot), NEW k \in 1..(Len(s) + 1), NEW e \in Slot
    PROVE  LET p == Put(s, k, e) IN
           /\ p \in Seq(Slot)
           /\ Len(p) = IF k > Len(s) THEN k ELSE Len(s)
           /\ DOMAIN p = 1..Len(p)
           /\ \A j \in 1..Len(p) : p[j] = IF j = k THEN e ELSE s[j]
<1> DEFINE n == IF k > Len(s) THEN k ELSE Len(s)
           g(j) == IF j = k THEN e ELSE s[j]
<1>1. Len(s) \in Nat /\ n \in Nat /\ DOMAIN s = 1..Len(s)
  BY LenProperties
<1>2. \A j \in 1..n : g(j) \in Slot
  <2>1. \A j \in 1..Len(s) : s[j] \in Slot
    BY ElementOfSeq
  <2> QED BY <2>1, <1>1
<1>3. Put(s, k, e) = [j \in 1..n |-> g(j)]
  BY DEF Put
<1> HIDE DEF n, g
<1>4. Put(s, k, e) \in [1..n -> Slot]
  BY <1>2, <1>3
<1>5. Put(s, k, e) \in Seq(Slot)
  BY <1>1, <1>4, SeqDef
<1>6. Len(Put(s, k, e)) = n
  BY <1>1, <1>4, <1>5, LenProperties
<1> QED
  BY <1>3, <1>4, <1>5, <1>6 DEF n, g

(* c is what remains of the vector s when the entries in D are reset and   *)
(* inactive ones dropped from its end.                                     *)
Loses(s, c, D) ==
    /\ c \in Seq(Slot)
    /\ Len(c) <= Len(s)
    /\ \A j \in 1..Len(c) : Active(c[j]) => j \notin D /\ c[j] = s[j]
    /\ \A j \in 1..Len(s) : Active(s[j]) /\ j \notin D =>
            j <= Len(c) /\ c[j] = s[j]

LEMMA FreeSlot == Free \in Slot /\ ~Active(Free)
BY DEF Free, Slot, NoFlags, Active

(* cancel_common() loses the entry cancelled and no other.                 *)
LEMMA CancelledLoses ==
    ASSUME NEW s \in Seq(Slot), NEW k \in 1..Len(s)
    PROVE  Loses(s, Cancelled(s, k), {k})
<1>1. Len(s) \in Nat /\ \A j \in 1..Len(s) : s[j] \in Slot
  BY LenProperties, ElementOfSeq
<1>2. CASE \A j \in (k + 1)..Len(s) : ~Active(s[j])
  <2> DEFINE c == SubSeq(s, 1, k - 1)
  <2>1. /\ c \in Seq(Slot) /\ Len(c) = k - 1
        /\ \A j \in 1..(k - 1) : c[j] = s[j]
    <3>1. \A j \in 1..(k - 1) : s[j] \in Slot
      BY <1>1
    <3>2. /\ c \in Seq(Slot)
          /\ Len(c) = IF 1 <= k - 1 THEN k - 1 - 1 + 1 ELSE 0
          /\ \A j \in 1..(k - 1 - 1 + 1) : c[j] = s[1 + j - 1]
      BY <1>1, <3>1, SubSeqProperties
    <3> QED BY <1>1, <3>2
  <2>2. Cancelled(s, k) = c
    BY <1>2 DEF Cancelled
  <2> HIDE DEF c
  <2> QED BY <1>1, <1>2, <2>1, <2>2 DEF Loses
<1>3. CASE ~ \A j \in (k + 1)..Len(s) : ~Active(s[j])
  <2>1. Cancelled(s, k) = Put(s, k, Free)
    BY <1>3 DEF Cancelled
  <2>2. k \in 1..(Len(s) + 1)
    BY <1>1
  <2> QED BY <1>1, <2>1, <2>2, PutSlot, FreeSlot DEF Loses
<1> QED BY <1>2, <1>3

(* The end of update() loses what was executed, and only that.             *)
LEMMA SweepLoses ==
    ASSUME NEW s \in Seq(Slot), NEW n \in 0..Len(s), IsTrimmed(Swept(s), n)
    PROVE  Loses(s, SubSeq(Swept(s), 1, n),
                 {j \in 1..Len(s) : Doomed(s[j])})
<1> DEFINE w == Swept(s)
           c == SubSeq(w, 1, n)
<1>1. /\ Len(s) \in Nat /\ DOMAIN s = 1..Len(s)
      /\ \A j \in 1..Len(s) : s[j] \in Slot
  BY LenProperties, ElementOfSeq
<1>2. w \in [1..Len(s) -> Slot]
  BY <1>1, FreeSlot DEF Swept
<1>3. w \in Seq(Slot) /\ Len(w) = Len(s)
  <2>1. w \in Seq(Slot)
    BY <1>1, <1>2, SeqDef
  <2> HIDE DEF w
  <2> QED BY <1>1, <1>2, <2>1, LenProperties
<1>4. \A j \in 1..Len(s) : w[j] = IF Doomed(s[j]) THEN Free ELSE s[j]
  BY <1>1 DEF Swept
<1>5. /\ n > 0 => Active(w[n])
      /\ \A j \in (n + 1)..Len(s) : ~Active(w[j])
  BY <1>3 DEF IsTrimmed
<1> HIDE DEF w
<1>6. /\ c \in Seq(Slot) /\ Len(c) = n
      /\ \A j \in 1..n : c[j] = w[j]
  <2>1. \A j \in 1..n : w[j] \in Slot
    BY <1>1, <1>2
  <2>2. /\ c \in Seq(Slot)
        /\ Len(c) = IF 1 <= n THEN n - 1 + 1 ELSE 0
        /\ \A j \in 1..(n - 1 + 1) : c[j] = w[1 + j - 1]
    BY <1>1, <2>1, SubSeqProperties
  <2> QED BY <1>1, <2>2
<1> HIDE DEF c
<1>7. Loses(s, c, {j \in 1..Len(s) : Doomed(s[j])})
  BY <1>1, <1>4, <1>5, <1>6, FreeSlot DEF Loses
<1> QED BY <1>7 DEF c, w

(* So does an update() which a destructor stops, up to the entry it was at. *)
LEMMA PartialSweepLoses ==
    ASSUME NEW s \in Seq(Slot), NEW k \in 1..Len(s)
    PROVE  Loses(s, [j \in DOMAIN s |-> IF j < k THEN Swept(s)[j] ELSE s[j]],
                 {j \in 1..(k - 1) : Doomed(s[j])})
<1> DEFINE c == [j \in DOMAIN s |-> IF j < k THEN Swept(s)[j] ELSE s[j]]
<1>1. /\ Len(s) \in Nat /\ DOMAIN s = 1..Len(s)
      /\ \A j \in 1..Len(s) : s[j] \in Slot
  BY LenProperties, ElementOfSeq
<1>2. \A j \in 1..Len(s) : Swept(s)[j] = IF Doomed(s[j]) THEN Free ELSE s[j]
  BY <1>1 DEF Swept
<1>3. /\ c \in [1..Len(s) -> Slot]
      /\ \A j \in 1..Len(s) :
            c[j] = IF j < k /\ Doomed(s[j]) THEN Free ELSE s[j]
  BY <1>1, <1>2, FreeSlot
<1> HIDE DEF c
<1>4. c \in Seq(Slot)
  BY <1>1, <1>3, SeqDef
<1>5. Len(c) = Len(s)
  BY <1>1, <1>3, <1>4, LenProperties
<1>6. Loses(s, c, {j \in 1..(k - 1) : Doomed(s[j])})
  BY <1>1, <1>3, <1>4, <1>5, FreeSlot DEF Loses
<1> QED BY <1>6 DEF c

-----------------------------------------------------------------------------
(* The inductive invariant.                                                *)

LEMMA InitInv == Init => IInv
<1> SUFFICES ASSUME Init PROVE IInv
  OBVIOUS
<1>1. TypeOK
  <2>1. /\ v \in Seq(Slot) /\ atexit_v \in Seq(Slot)
        /\ Len(v) = 0 /\ Len(atexit_v) = 0
    BY EmptySeq DEF Init
  <2>2. pc \in Idle \cup InCall \cup
            {"exec", "destroy", "failed", "exit_exec", "exit_destroy", "done",
             "aborted"}
    BY DEF Init, Idle
  <2>3. running \in [f : AllTasks \cup {NoTask},
                     flags : [hb : BOOLEAN, ign : BOOLEAN]]
    BY DEF Init, Nobody, NoFlags
  <2>4. /\ handle \in [AllTasks -> Nat]
        /\ dead = {} /\ torn = {} /\ refused = {} /\ called = {}
    BY DEF Init
  <2>5. /\ cap = 0 /\ cap_atexit = 0 /\ cur_gen = 0 /\ now = 0 /\ frame = 0
        /\ i = 0 /\ moved = FALSE
    BY DEF Init
  <2>6. cap \in Nat /\ Len(v) <= cap /\ cap_atexit \in Nat /\ Len(atexit_v) <= cap_atexit
    BY <2>1, <2>5
  <2>7. /\ cur_gen \in Nat /\ now \in Nat /\ frame \in Nat
    /\ i \in Nat /\ moved \in BOOLEAN
    BY <2>5
  <2>8. /\ dead \subseteq AllTasks /\ torn \subseteq AllTasks
        /\ refused \subseteq AllTasks /\ called \subseteq AllTasks
    BY <2>4
  <2> QED BY <2>1, <2>2, <2>3, <2>4, <2>6, <2>7, <2>8 DEF TypeOK
<1>2. HandlesStable
  BY DEF Init, HandlesStable, AllTasks
<1>3. SlotsKnown /\ ExitSlotsKnown /\ CalledVisited /\ ExitCalledVisited
  BY DEF Init, SlotsKnown, ExitSlotsKnown, CalledVisited, ExitCalledVisited
<1>4. HistoryKnown /\ RunningKnown
  BY DEF Init, HistoryKnown, RunningKnown, Nobody, InCall
<1> QED BY <1>1, <1>2, <1>3, <1>4 DEF IInv

(* The slots of both vectors, as TypeOK knows them.                        *)
LEMMA Vectors ==
    ASSUME TypeOK
    PROVE  /\ Len(v) \in Nat /\ DOMAIN v = 1..Len(v)
           /\ \A k \in 1..Len(v) : v[k] \in Slot
           /\ Len(atexit_v) \in Nat /\ DOMAIN atexit_v = 1..Len(atexit_v)
           /\ \A k \in 1..Len(atexit_v) : atexit_v[k] \in Slot
BY LenProperties, ElementOfSeq DEF TypeOK

(* Storage is large enough for what is put in it.                          *)
LEMMA GrownFits ==
    ASSUME NEW s, NEW c \in Nat, Len(s) \in Nat, Len(s) <= c,
           NEW k \in 1..(Len(s) + 1)
    PROVE  /\ Grown(s, c, k) \in Nat
           /\ (IF k > Len(s) THEN k ELSE Len(s)) <= Grown(s, c, k)
BY DEF Grown, Grows

(* A task is put in a slot of v, ...                                       *)
LEMMA AddEntryInv ==
    ASSUME IInv, NEW t \in Tasks, NEW fl \in Flags, NEW tm \in Nat,
           NEW fr \in Nat, AddEntry(t, fl, tm, fr)
    PROVE  IInv'
<1> DEFINE e == [f |-> t, flags |-> fl, time |-> tm, frame |-> fr,
                 gen |-> cur_gen]
<1>0. TypeOK /\ MayRequest /\ handle[t] = 0
  BY DEF IInv, AddEntry
<1>1. PICK k \in 1..(Len(v) + 1) :
        /\ IsFirstFree(v, k)
        /\ v' = Put(v, k, e)
        /\ cap' = Grown(v, cap, k)
        /\ moved' = (moved \/ (pc = "call" /\ Grows(v, cap, k)))
        /\ handle' = [handle EXCEPT ![t] = k]
  BY DEF AddEntry
<1>2. /\ UNCHANGED <<atexit_v, cap_atexit, cur_gen, now, frame, pc, i>>
      /\ UNCHANGED <<running, dead, torn, refused, called>>
  BY DEF AddEntry, fates
<1>3. /\ Len(v) \in Nat /\ DOMAIN v = 1..Len(v)
      /\ \A j \in 1..Len(v) : v[j] \in Slot
      /\ DOMAIN atexit_v = 1..Len(atexit_v)
  BY <1>0, Vectors
<1>4. e \in Slot /\ Active(e) /\ t \in AllTasks /\ t \notin ExitTasks
  BY <1>0, ScheduleAssumption DEF Slot, AllTasks, Active, TypeOK
<1>5. /\ v' \in Seq(Slot)
      /\ Len(v') = IF k > Len(v) THEN k ELSE Len(v)
      /\ DOMAIN v' = 1..Len(v')
      /\ \A j \in 1..Len(v') : v'[j] = IF j = k THEN e ELSE v[j]
  <2>1. v \in Seq(Slot) /\ v' = Put(v, k, e)
    BY <1>0, <1>1 DEF TypeOK
  <2>2. e \in Slot
    BY <1>4
  <2> HIDE DEF e
  <2>3. LET p == Put(v, k, e) IN
        /\ p \in Seq(Slot)
        /\ Len(p) = IF k > Len(v) THEN k ELSE Len(v)
        /\ DOMAIN p = 1..Len(p)
        /\ \A j \in 1..Len(p) : p[j] = IF j = k THEN e ELSE v[j]
    BY <2>1, <2>2, PutSlot
  <2> QED BY <2>1, <2>3
<1>6. k <= Len(v) => ~Active(v[k])
  BY <1>1 DEF IsFirstFree
<1>7. /\ handle'[t] = k
      /\ \A u \in AllTasks \ {t} : handle'[u] = handle[u]
      /\ handle' \in [AllTasks -> Nat]
  BY <1>0, <1>1, <1>3, <1>4 DEF TypeOK
<1>8. t \notin dead /\ t \notin torn /\ t \notin called
  BY <1>0, <1>4 DEF IInv, HistoryKnown
<1>9. TypeOK'
  <2>1. cap' \in Nat /\ Len(v') <= cap'
    BY <1>0, <1>1, <1>3, <1>5, GrownFits DEF TypeOK
  <2>2. moved' \in BOOLEAN
    BY <1>0, <1>1 DEF TypeOK, Grows
  <2> QED BY <1>0, <1>2, <1>5, <1>7, <2>1, <2>2 DEF TypeOK
<1>10. HandlesStable'
  <2>1. ASSUME NEW u \in Tasks, u # t, handle[u] # 0, u \notin dead
        PROVE  handle[u] \in 1..Len(v') /\ v'[handle[u]].f = u
    <3>1. handle[u] \in 1..Len(v) /\ v[handle[u]].f = u
      BY <1>3, <2>1 DEF IInv, HandlesStable
    <3>2. handle[u] # k
      BY <1>3, <1>6, <3>1, ScheduleAssumption DEF Active
    <3> QED BY <1>3, <1>5, <3>1, <3>2
  <2>2. k \in 1..Len(v') /\ v'[k].f = t
    BY <1>3, <1>5
  <2> QED
    BY <1>2, <1>4, <1>5, <1>7, <2>1, <2>2, ScheduleAssumption
    DEF HandlesStable, IInv, AllTasks
<1>11. SlotsKnown' /\ CalledVisited'
  <2> SUFFICES ASSUME NEW j \in 1..Len(v'), Active(v'[j])
               PROVE  /\ v'[j].f \in Tasks /\ handle'[v'[j].f] = j
                      /\ v'[j].f \notin dead
                      /\ v'[j].f \in torn => pc \in Over
                      /\ ~v'[j].flags.hb /\ v'[j].f \in called =>
                            pc \in Over \/ (pc \in Walking /\ Due(v'[j])
                                           /\ Visited(j))
    BY <1>2, <1>5 DEF SlotsKnown, CalledVisited, Active, Due, Visited
  <2>1. CASE j = k
    BY <1>5, <1>7, <1>8, <2>1
  <2>2. CASE j # k
    <3>1. j \in 1..Len(v) /\ v'[j] = v[j]
      BY <1>3, <1>5, <2>2
    <3>2. /\ v[j].f \in Tasks /\ handle[v[j].f] = j
          /\ v[j].f \notin dead
          /\ v[j].f \in torn => pc \in Over
      BY <1>3, <3>1 DEF IInv, SlotsKnown
    <3>3. handle'[v[j].f] = j
      BY <1>0, <1>3, <1>7, <3>1, <3>2 DEF AllTasks
    <3> QED BY <1>3, <3>1, <3>2, <3>3 DEF IInv, CalledVisited
  <2> QED BY <2>1, <2>2
<1>12. ExitSlotsKnown' /\ ExitCalledVisited'
  BY <1>2, <1>4, <1>7
  DEF IInv, ExitSlotsKnown, ExitCalledVisited, Active, AllTasks
<1>13. HistoryKnown' /\ RunningKnown'
  BY <1>0, <1>2, <1>7, <1>8 DEF IInv, HistoryKnown, RunningKnown, TypeOK
<1> QED BY <1>9, <1>10, <1>11, <1>12, <1>13 DEF IInv

(* ... or of atexit_v.                                                     *)
LEMMA AtexitInv ==
    ASSUME IInv, NEW t \in ExitTasks, Atexit(t)
    PROVE  IInv'
<1>0. TypeOK /\ MayRequest /\ handle[t] = 0
  BY DEF IInv, Atexit
<1>1. PICK fl \in Flags, k \in 1..(Len(atexit_v) + 1) :
        /\ IsFirstFree(atexit_v, k)
        /\ atexit_v' = Put(atexit_v, k, [f |-> t, flags |-> fl, time |-> 0,
                                         frame |-> 0, gen |-> 0])
        /\ cap_atexit' = Grown(atexit_v, cap_atexit, k)
        /\ moved' = (moved \/
                     (pc = "exit_call" /\ Grows(atexit_v, cap_atexit, k)))
        /\ handle' = [handle EXCEPT ![t] = k]
  BY DEF Atexit
<1> DEFINE e == [f |-> t, flags |-> fl, time |-> 0, frame |-> 0, gen |-> 0]
<1>2. /\ UNCHANGED <<v, cap, cur_gen, now, frame, pc, i>>
      /\ UNCHANGED <<running, dead, torn, refused, called>>
  BY DEF Atexit, fates
<1>3. /\ Len(atexit_v) \in Nat /\ DOMAIN atexit_v = 1..Len(atexit_v)
      /\ \A j \in 1..Len(atexit_v) : atexit_v[j] \in Slot
  BY <1>0, Vectors
<1>4. e \in Slot /\ Active(e) /\ t \in AllTasks /\ t \notin Tasks
  BY <1>0, ScheduleAssumption DEF Slot, AllTasks, Active, TypeOK
<1>5. /\ atexit_v' \in Seq(Slot)
      /\ Len(atexit_v') = IF k > Len(atexit_v) THEN k ELSE Len(atexit_v)
      /\ DOMAIN atexit_v' = 1..Len(atexit_v')
      /\ \A j \in 1..Len(atexit_v') :
            atexit_v'[j] = IF j = k THEN e ELSE atexit_v[j]
  <2>1. /\ atexit_v \in Seq(Slot) /\ atexit_v' = Put(atexit_v, k, e)
        /\ k \in 1..(Len(atexit_v) + 1) /\ e \in Slot
    BY <1>0, <1>1, <1>4 DEF TypeOK
  <2> HIDE DEF e
  <2>2. LET p == Put(atexit_v, k, e) IN
        /\ p \in Seq(Slot)
        /\ Len(p) = IF k > Len(atexit_v) THEN k ELSE Len(atexit_v)
        /\ DOMAIN p = 1..Len(p)
        /\ \A j \in 1..Len(p) : p[j] = IF j = k THEN e ELSE atexit_v[j]
    BY <2>1, PutSlot
  <2> QED BY <2>1, <2>2
<1>6. k <= Len(atexit_v) => ~Active(atexit_v[k])
  BY <1>1 DEF IsFirstFree
<1>7. /\ handle'[t] = k
      /\ \A u \in AllTasks \ {t} : handle'[u] = handle[u]
      /\ handle' \in [AllTasks -> Nat]
  BY <1>0, <1>1, <1>3, <1>4 DEF TypeOK
<1>8. t \notin dead /\ t \notin torn /\ t \notin called
  BY <1>0, <1>4 DEF IInv, HistoryKnown
<1>9. TypeOK'
  <2>1. cap_atexit' \in Nat /\ Len(atexit_v') <= cap_atexit'
    BY <1>0, <1>1, <1>3, <1>5, GrownFits DEF TypeOK
  <2>2. moved' \in BOOLEAN
    BY <1>0, <1>1 DEF TypeOK, Grows
  <2> QED BY <1>0, <1>2, <1>5, <1>7, <2>1, <2>2 DEF TypeOK
<1>10. HandlesStable'
  <2>1. ASSUME NEW u \in ExitTasks, u # t, handle[u] # 0, u \notin dead,
               pc # "done"
        PROVE  /\ handle[u] \in 1..Len(atexit_v')
               /\ atexit_v'[handle[u]].f = u
    <3>1. handle[u] \in 1..Len(atexit_v) /\ atexit_v[handle[u]].f = u
      BY <1>3, <2>1 DEF IInv, HandlesStable
    <3>2. handle[u] # k
      BY <1>3, <1>6, <3>1, ScheduleAssumption DEF Active
    <3> QED BY <1>3, <1>5, <3>1, <3>2
  <2>2. k \in 1..Len(atexit_v') /\ atexit_v'[k].f = t
    BY <1>3, <1>5
  <2> QED
    BY <1>2, <1>4, <1>5, <1>7, <2>1, <2>2, ScheduleAssumption
    DEF HandlesStable, IInv, AllTasks
<1>11. ExitSlotsKnown' /\ ExitCalledVisited'
  <2> SUFFICES ASSUME NEW j \in 1..Len(atexit_v'), Active(atexit_v'[j])
               PROVE  /\ atexit_v'[j].f \in ExitTasks
                      /\ handle'[atexit_v'[j].f] = j
                      /\ atexit_v'[j].f \in dead => pc = "aborted"
                      /\ atexit_v'[j].f \notin torn
                      /\ atexit_v'[j].f \in called =>
                            \/ pc \in {"exit_destroy", "done", "aborted"}
                            \/ pc = "exit_exec" /\ j < i
                            \/ pc = "exit_call" /\ j <= i
    BY <1>2, <1>5 DEF ExitSlotsKnown, ExitCalledVisited, Active
  <2>1. CASE j = k
    BY <1>5, <1>7, <1>8, <2>1
  <2>2. CASE j # k
    <3>1. j \in 1..Len(atexit_v) /\ atexit_v'[j] = atexit_v[j]
      BY <1>3, <1>5, <2>2
    <3>2. /\ atexit_v[j].f \in ExitTasks /\ handle[atexit_v[j].f] = j
          /\ atexit_v[j].f \in dead => pc = "aborted"
          /\ atexit_v[j].f \notin torn
      BY <1>3, <3>1 DEF IInv, ExitSlotsKnown
    <3>3. handle'[atexit_v[j].f] = j
      BY <1>0, <1>3, <1>7, <3>1, <3>2 DEF AllTasks
    <3> QED BY <1>3, <3>1, <3>2, <3>3 DEF IInv, ExitCalledVisited
  <2> QED BY <2>1, <2>2
<1>12. SlotsKnown' /\ CalledVisited'
  BY <1>2, <1>4, <1>7
  DEF IInv, SlotsKnown, CalledVisited, Active, AllTasks, Due, Visited
<1>13. HistoryKnown' /\ RunningKnown'
  BY <1>0, <1>2, <1>7, <1>8 DEF IInv, HistoryKnown, RunningKnown, TypeOK
<1> QED BY <1>9, <1>10, <1>11, <1>12, <1>13 DEF IInv

(* v loses the entries D, and the destructors of those in E fail.          *)
LEMMA LosesInv ==
    ASSUME IInv, NEW D, NEW E, D \subseteq 1..Len(v), E \subseteq 1..Len(v),
           \A j \in D \cup E : Active(v[j]),
           Loses(v, v', D),
           dead' = dead \cup {v[j].f : j \in D},
           torn' = torn \cup {v[j].f : j \in E},
           refused' \subseteq refused,
           \/ pc' = pc /\ E = {}
           \/ pc = "destroy" /\ pc' = "top" /\ E = {}
           \/ pc = "destroy" /\ pc' = "failed",
           UNCHANGED <<atexit_v, cap, cap_atexit, cur_gen, now, frame, i, moved>>,
           UNCHANGED <<handle, running, called>>
    PROVE  /\ TypeOK' /\ HandlesStable' /\ SlotsKnown' /\ ExitSlotsKnown'
           /\ HistoryKnown' /\ ExitCalledVisited' /\ RunningKnown'
<1>1. /\ TypeOK
      /\ Len(v) \in Nat /\ DOMAIN v = 1..Len(v)
      /\ \A j \in 1..Len(v) : v[j] \in Slot
  BY Vectors DEF IInv
<1>2. /\ v' \in Seq(Slot) /\ Len(v') \in Nat /\ DOMAIN v' = 1..Len(v')
      /\ Len(v') <= Len(v)
  BY LenProperties DEF Loses
<1>3. \A j \in D \cup E : v[j].f \in Tasks /\ handle[v[j].f] = j
  BY <1>1 DEF IInv, SlotsKnown
<1>4. TypeOK'
  <2>1. pc' \in Idle \cup InCall \cup
            {"exec", "destroy", "failed", "exit_exec", "exit_destroy", "done",
             "aborted"}
    BY <1>1 DEF TypeOK, Idle
  <2>2. /\ dead' \subseteq AllTasks /\ torn' \subseteq AllTasks
        /\ refused' \subseteq AllTasks
    BY <1>1, <1>3 DEF TypeOK, AllTasks
  <2>3. Len(v') <= cap'
    BY <1>1, <1>2 DEF TypeOK
  <2> QED BY <1>1, <1>2, <2>1, <2>2, <2>3 DEF TypeOK
<1>5. HandlesStable'
  <2>1. ASSUME NEW t \in Tasks, handle[t] # 0, t \notin dead'
        PROVE  handle[t] \in 1..Len(v') /\ v'[handle[t]].f = t
    <3>1. handle[t] \in 1..Len(v) /\ v[handle[t]].f = t
      BY <1>1, <2>1 DEF IInv, HandlesStable
    <3>2. handle[t] \notin D /\ Active(v[handle[t]])
      BY <2>1, <3>1, ScheduleAssumption DEF Active
    <3> QED BY <1>2, <3>1, <3>2 DEF Loses
  <2> QED BY <1>2, <2>1 DEF HandlesStable, IInv
<1>6. SlotsKnown'
  <2> SUFFICES ASSUME NEW j \in 1..Len(v'), Active(v'[j])
               PROVE  /\ v'[j].f \in Tasks /\ handle[v'[j].f] = j
                      /\ v'[j].f \notin dead'
                      /\ v'[j].f \in torn' => pc' \in Over
    BY <1>2 DEF SlotsKnown, Active
  <2>1. j \notin D /\ v'[j] = v[j] /\ j \in 1..Len(v)
    BY <1>1, <1>2 DEF Loses
  <2>2. /\ v[j].f \in Tasks /\ handle[v[j].f] = j
        /\ v[j].f \notin dead
        /\ v[j].f \in torn => pc \in Over
    BY <1>1, <2>1 DEF IInv, SlotsKnown
  <2>3. v[j].f \notin dead'
    <3>1. \A m \in D : v[m].f # v[j].f
      BY <1>3, <2>1, <2>2
    <3> QED BY <2>2, <3>1
  <2>4. v[j].f \in torn' => v[j].f \in torn \/ pc' = "failed"
    OBVIOUS
  <2> QED BY <2>1, <2>2, <2>3, <2>4 DEF Over
<1>7. ExitSlotsKnown'
  <2>1. ExitTasks \cap {v[j].f : j \in D \cup E} = {}
    BY <1>3, ScheduleAssumption
  <2> QED BY <2>1 DEF IInv, ExitSlotsKnown, Active
<1>8. HistoryKnown'
  <2>1. \A j \in D \cup E : handle[v[j].f] # 0
    BY <1>1, <1>3
  <2> QED BY <2>1 DEF IInv, HistoryKnown
<1>9. ExitCalledVisited' /\ RunningKnown'
  BY DEF IInv, ExitCalledVisited, RunningKnown, Active, InCall
<1> QED BY <1>4, <1>5, <1>6, <1>7, <1>8, <1>9

LEMMA CancelInv ==
    ASSUME IInv, NEW k \in DOMAIN v, Cancel(k)
    PROVE  IInv'
<1>1. TypeOK /\ v \in Seq(Slot) /\ k \in 1..Len(v) /\ DOMAIN v = 1..Len(v)
  BY Vectors DEF IInv, TypeOK
<1>2. Loses(v, v', {k})
  BY <1>1, CancelledLoses DEF Cancel
<1>3. /\ TypeOK' /\ HandlesStable' /\ SlotsKnown' /\ ExitSlotsKnown'
      /\ HistoryKnown' /\ ExitCalledVisited' /\ RunningKnown'
  <2>1. /\ dead' = dead \cup {v[j].f : j \in {k}} /\ refused' \subseteq refused
        /\ torn' = torn \cup {v[j].f : j \in {}}
        /\ \A j \in {k} \cup {} : Active(v[j])
        /\ {k} \subseteq 1..Len(v) /\ {} \subseteq 1..Len(v)
    BY <1>1 DEF Cancel, Gone
  <2>2. /\ UNCHANGED <<atexit_v, cap, cap_atexit, cur_gen, now, frame, i, moved>>
        /\ UNCHANGED <<handle, running, called>> /\ pc' = pc
    BY DEF Cancel
  <2> QED BY <1>1, <1>2, <2>1, <2>2, LosesInv
<1>4. CalledVisited'
  <2> SUFFICES ASSUME NEW j \in 1..Len(v'), Active(v'[j]), ~v'[j].flags.hb,
                      v'[j].f \in called
               PROVE  pc \in Over \/ (pc \in Walking /\ Due(v'[j]) /\ Visited(j))
    <3>1. DOMAIN v' = 1..Len(v')
      BY <1>3, LenProperties DEF TypeOK
    <3> QED BY <3>1 DEF CalledVisited, Cancel, Active, Due, Visited
  <2>1. j \in 1..Len(v) /\ v'[j] = v[j]
    <3>1. Len(v') \in Nat /\ Len(v) \in Nat
      BY <1>1, <1>3, LenProperties DEF TypeOK
    <3> QED BY <1>2, <3>1 DEF Loses
  <2> QED BY <1>1, <2>1 DEF IInv, CalledVisited
<1> QED BY <1>3, <1>4 DEF IInv

LEMMA CancelAtexitInv ==
    ASSUME IInv, NEW k \in DOMAIN atexit_v, CancelAtexit(k)
    PROVE  IInv'
<1>1. /\ TypeOK /\ k \in 1..Len(atexit_v) /\ pc \notin {"done", "aborted"}
      /\ Len(atexit_v) \in Nat /\ DOMAIN atexit_v = 1..Len(atexit_v)
      /\ \A j \in 1..Len(atexit_v) : atexit_v[j] \in Slot
  BY Vectors DEF IInv, CancelAtexit, MayRequest, Idle, InCall
<1>2. Loses(atexit_v, atexit_v', {k})
  BY <1>1, CancelledLoses DEF CancelAtexit, TypeOK
<1>3. /\ atexit_v' \in Seq(Slot) /\ Len(atexit_v') \in Nat
      /\ DOMAIN atexit_v' = 1..Len(atexit_v')
      /\ Len(atexit_v') <= Len(atexit_v)
  BY <1>2, LenProperties DEF Loses
<1>4. /\ Active(atexit_v[k]) /\ dead' = dead \cup {atexit_v[k].f}
      /\ UNCHANGED <<v, cap, cap_atexit, cur_gen, now, frame, pc, i, moved>>
      /\ UNCHANGED <<handle, running, torn, called>>
      /\ refused' \subseteq refused
  BY DEF CancelAtexit, Gone
<1>5. atexit_v[k].f \in ExitTasks /\ handle[atexit_v[k].f] = k
  BY <1>1, <1>4 DEF IInv, ExitSlotsKnown
<1>6. TypeOK'
  <2>1. Len(atexit_v') <= cap_atexit
    BY <1>1, <1>3 DEF TypeOK
  <2>2. dead' \subseteq AllTasks /\ refused' \subseteq AllTasks
    BY <1>1, <1>4, <1>5 DEF TypeOK, AllTasks
  <2> QED BY <1>1, <1>3, <1>4, <2>1, <2>2 DEF TypeOK
<1>7. HandlesStable'
  <2>1. ASSUME NEW t \in ExitTasks, handle[t] # 0, t \notin dead'
        PROVE  /\ handle[t] \in 1..Len(atexit_v')
               /\ atexit_v'[handle[t]].f = t
    <3>1. handle[t] \in 1..Len(atexit_v) /\ atexit_v[handle[t]].f = t
      BY <1>1, <1>4, <2>1 DEF IInv, HandlesStable
    <3>2. handle[t] \notin {k} /\ Active(atexit_v[handle[t]])
      BY <1>4, <2>1, <3>1, ScheduleAssumption DEF Active
    <3> QED BY <1>2, <1>3, <3>1, <3>2 DEF Loses
  <2> QED BY <1>3, <1>4, <2>1 DEF HandlesStable, IInv
<1>8. ExitSlotsKnown' /\ ExitCalledVisited'
  <2> SUFFICES ASSUME NEW j \in 1..Len(atexit_v'), Active(atexit_v'[j])
               PROVE  /\ atexit_v'[j].f \in ExitTasks
                      /\ handle[atexit_v'[j].f] = j
                      /\ atexit_v'[j].f \in dead' => pc = "aborted"
                      /\ atexit_v'[j].f \notin torn
                      /\ atexit_v'[j].f \in called =>
                            \/ pc \in {"exit_destroy", "done", "aborted"}
                            \/ pc = "exit_exec" /\ j < i
                            \/ pc = "exit_call" /\ j <= i
    BY <1>3, <1>4 DEF ExitSlotsKnown, ExitCalledVisited, Active
  <2>1. j # k /\ atexit_v'[j] = atexit_v[j] /\ j \in 1..Len(atexit_v)
    BY <1>1, <1>2, <1>3 DEF Loses
  <2>2. /\ atexit_v[j].f \in ExitTasks /\ handle[atexit_v[j].f] = j
        /\ atexit_v[j].f \in dead => pc = "aborted"
        /\ atexit_v[j].f \notin torn
        /\ atexit_v[j].f \in called =>
            \/ pc \in {"exit_destroy", "done", "aborted"}
            \/ pc = "exit_exec" /\ j < i
            \/ pc = "exit_call" /\ j <= i
    BY <1>1, <2>1 DEF IInv, ExitSlotsKnown, ExitCalledVisited
  <2>3. atexit_v[j].f \in dead' => atexit_v[j].f \in dead
    BY <1>4, <1>5, <2>1, <2>2
  <2> QED BY <2>1, <2>2, <2>3
<1>9. SlotsKnown'
  BY <1>4, <1>5, ScheduleAssumption DEF IInv, SlotsKnown, Active
<1>10. CalledVisited' /\ RunningKnown'
  BY <1>4 DEF IInv, CalledVisited, RunningKnown, Active, Due, Visited
<1>11. HistoryKnown'
  BY <1>1, <1>4, <1>5 DEF IInv, HistoryKnown
<1> QED BY <1>6, <1>7, <1>8, <1>9, <1>10, <1>11 DEF IInv

(* A cancellation that fails only goes down in history.                    *)
LEMMA CancelFailsInv ==
    ASSUME IInv, \/ \E k \in DOMAIN v : CancelFails(k)
                 \/ \E k \in DOMAIN atexit_v : CancelAtexitFails(k)
    PROVE  IInv'
<1>1. /\ UNCHANGED <<v, cap, atexit_v, cap_atexit, cur_gen, now, frame, pc>>
      /\ UNCHANGED <<i, moved, handle, running, dead, torn, called>>
  BY DEF CancelFails, CancelAtexitFails, slotVars
<1>2. PICK t \in AllTasks : handle[t] # 0 /\ refused' = refused \cup {t}
  <2>1. ASSUME NEW k \in DOMAIN v, CancelFails(k)
        PROVE  v[k].f \in AllTasks /\ handle[v[k].f] # 0
    BY <2>1, Vectors DEF CancelFails, IInv, SlotsKnown, AllTasks
  <2>2. ASSUME NEW k \in DOMAIN atexit_v, CancelAtexitFails(k)
        PROVE  atexit_v[k].f \in AllTasks /\ handle[atexit_v[k].f] # 0
    BY <2>2, Vectors DEF CancelAtexitFails, IInv, ExitSlotsKnown, AllTasks
  <2> QED BY <2>1, <2>2 DEF CancelFails, CancelAtexitFails
<1>3. TypeOK'
  BY <1>1, <1>2 DEF IInv, TypeOK
<1>4. HandlesStable' /\ SlotsKnown' /\ ExitSlotsKnown' /\ HistoryKnown'
  BY <1>1, <1>2
  DEF IInv, HandlesStable, SlotsKnown, ExitSlotsKnown, HistoryKnown, Active
<1>5. CalledVisited' /\ ExitCalledVisited' /\ RunningKnown'
  BY <1>1 DEF IInv, CalledVisited, ExitCalledVisited, RunningKnown, Active,
              Due, Visited
<1> QED BY <1>3, <1>4, <1>5 DEF IInv

LEMMA UpdateEndInv ==
    ASSUME IInv, UpdateEnd
    PROVE  IInv'
<1> DEFINE D == {j \in 1..Len(v) : Doomed(v[j])}
<1>1. /\ TypeOK /\ v \in Seq(Slot)
      /\ Len(v) \in Nat /\ DOMAIN v = 1..Len(v)
  BY Vectors DEF IInv, TypeOK
<1>2. Loses(v, v', D)
  BY <1>1, SweepLoses DEF UpdateEnd
<1>3. /\ TypeOK' /\ HandlesStable' /\ SlotsKnown' /\ ExitSlotsKnown'
      /\ HistoryKnown' /\ ExitCalledVisited' /\ RunningKnown'
  <2>1. /\ dead' = dead \cup {v[j].f : j \in D} /\ refused' \subseteq refused
        /\ torn' = torn \cup {v[j].f : j \in {}}
    BY <1>1 DEF UpdateEnd, Gone
  <2>2. \A j \in D : Active(v[j])
    BY DEF Doomed, Due
  <2>3. /\ UNCHANGED <<atexit_v, cap, cap_atexit, cur_gen, now, frame, i, moved>>
        /\ UNCHANGED <<handle, running, called>>
        /\ pc = "destroy" /\ pc' = "top"
    BY DEF UpdateEnd
  <2> HIDE DEF D
  <2>4. D \subseteq 1..Len(v)
    BY DEF D
  <2> QED BY <1>2, <2>1, <2>2, <2>3, <2>4, LosesInv
<1>4. CalledVisited'
  <2> SUFFICES ASSUME NEW j \in 1..Len(v'), Active(v'[j]), ~v'[j].flags.hb,
                      v'[j].f \in called
               PROVE  FALSE
    <3>1. DOMAIN v' = 1..Len(v')
      BY <1>3, LenProperties DEF TypeOK
    <3> QED BY <3>1 DEF CalledVisited, UpdateEnd, Active
  <2>1. j \in 1..Len(v) /\ v'[j] = v[j] /\ j \notin D
    <3>1. Len(v') \in Nat
      BY <1>3, LenProperties DEF TypeOK
    <3> QED BY <1>1, <1>2, <3>1 DEF Loses
  <2>2. Due(v[j])
    BY <1>1, <2>1 DEF IInv, CalledVisited, UpdateEnd, Over
  <2> QED BY <2>1, <2>2 DEF Doomed
<1> QED BY <1>3, <1>4 DEF IInv

LEMMA UpdateEndFailsInv ==
    ASSUME IInv, UpdateEndFails
    PROVE  IInv'
<1>1. /\ TypeOK /\ v \in Seq(Slot)
      /\ Len(v) \in Nat /\ DOMAIN v = 1..Len(v)
  BY Vectors DEF IInv, TypeOK
<1>2. PICK k \in 1..Len(v) :
        /\ v' = [j \in DOMAIN v |-> IF j < k THEN Swept(v)[j] ELSE v[j]]
        /\ dead' = dead \cup
            {v[j].f : j \in {m \in 1..Len(v) : m < k /\ Doomed(v[m])}}
        /\ torn' = torn \cup {v[k].f} /\ Doomed(v[k])
  BY <1>1 DEF UpdateEndFails
<1> DEFINE D == {j \in 1..(k - 1) : Doomed(v[j])}
<1>3. Loses(v, v', D)
  BY <1>1, <1>2, PartialSweepLoses
<1>4. /\ D \subseteq 1..Len(v) /\ {k} \subseteq 1..Len(v)
      /\ \A j \in D \cup {k} : Active(v[j])
      /\ dead' = dead \cup {v[j].f : j \in D}
      /\ torn' = torn \cup {v[j].f : j \in {k}}
  <2>1. {m \in 1..Len(v) : m < k /\ Doomed(v[m])} = D
    BY <1>1
  <2> QED BY <1>1, <1>2, <2>1 DEF Doomed, Due
<1>5. /\ UNCHANGED <<atexit_v, cap, cap_atexit, cur_gen, now, frame, i, moved>>
      /\ UNCHANGED <<handle, running, called>>
      /\ pc = "destroy" /\ pc' = "failed" /\ refused' \subseteq refused
  BY DEF UpdateEndFails, Gone
<1> HIDE DEF D
<1>6. /\ TypeOK' /\ HandlesStable' /\ SlotsKnown' /\ ExitSlotsKnown'
      /\ HistoryKnown' /\ ExitCalledVisited' /\ RunningKnown'
  BY <1>3, <1>4, <1>5, LosesInv
<1>7. CalledVisited'
  BY <1>5 DEF CalledVisited, Over
<1> QED BY <1>6, <1>7 DEF IInv

LEMMA ExitEndInv ==
    ASSUME IInv, ExitEnd
    PROVE  IInv'
<1>1. /\ TypeOK
      /\ Len(atexit_v) \in Nat /\ DOMAIN atexit_v = 1..Len(atexit_v)
  BY Vectors DEF IInv
<1>2. PICK k \in 0..Len(atexit_v) :
        /\ \A j \in 1..k : Active(atexit_v[j])
        /\ dead' = dead \cup {atexit_v[j].f : j \in 1..k}
        /\ \/ pc' = "done" /\ atexit_v' = <<>>
           \/ pc' = "aborted" /\ UNCHANGED <<atexit_v, torn>>
        /\ \/ UNCHANGED torn
           \/ \E j \in 1..Len(atexit_v) : /\ Active(atexit_v[j])
                                          /\ torn' = torn \cup {atexit_v[j].f}
  <2>1. PICK k \in 0..Len(atexit_v) :
        /\ \A j \in 1..k : Active(atexit_v[j])
        /\ dead' = dead \cup {atexit_v[j].f : j \in 1..k}
        /\ \/ /\ k = Len(atexit_v)
              /\ pc' = "done" /\ atexit_v' = <<>> /\ UNCHANGED torn
           \/ /\ k < Len(atexit_v) /\ Active(atexit_v[k + 1])
              /\ torn' = torn \cup {atexit_v[k + 1].f}
              /\ pc' = "done" /\ atexit_v' = <<>>
           \/ /\ k < Len(atexit_v) /\ ~Active(atexit_v[k + 1])
              /\ pc' = "aborted" /\ UNCHANGED <<atexit_v, torn>>
    BY DEF ExitEnd
  <2>2. k < Len(atexit_v) => k + 1 \in 1..Len(atexit_v)
    BY <1>1
  <2> QED BY <2>1, <2>2
<1>3. /\ UNCHANGED <<v, cap, cap_atexit, cur_gen, now, frame, i, moved>>
      /\ UNCHANGED <<handle, running, called>>
      /\ pc = "exit_destroy" /\ refused' \subseteq refused
  BY DEF ExitEnd, Gone
<1>4. /\ \A j \in 1..k :
            atexit_v[j].f \in ExitTasks /\ handle[atexit_v[j].f] = j
      /\ \A t \in torn' \ torn : t \in ExitTasks /\ handle[t] # 0
  BY <1>1, <1>2 DEF IInv, ExitSlotsKnown
<1>5. atexit_v' \in Seq(Slot) /\ Len(atexit_v') <= cap_atexit
  <2>1. CASE atexit_v' = <<>>
    <3>1. atexit_v' \in Seq(Slot) /\ Len(atexit_v') = 0
      BY <2>1, EmptySeq
    <3> QED BY <1>1, <3>1 DEF TypeOK
  <2>2. CASE UNCHANGED atexit_v
    BY <1>1, <2>2 DEF TypeOK
  <2> QED BY <1>2, <2>1, <2>2
<1>6. TypeOK'
  <2>1. /\ dead' \subseteq AllTasks /\ torn' \subseteq AllTasks
        /\ refused' \subseteq AllTasks
    BY <1>1, <1>2, <1>3, <1>4 DEF TypeOK, AllTasks
  <2>2. pc' \in {"done", "aborted"}
    BY <1>2
  <2> QED BY <1>1, <1>3, <1>5, <2>1, <2>2 DEF TypeOK
<1>7. HandlesStable'
  <2>1. pc' # "done" => UNCHANGED atexit_v
    BY <1>2
  <2>2. pc # "done" /\ dead \subseteq dead'
    BY <1>2, <1>3
  <2> QED BY <1>3, <2>1, <2>2 DEF HandlesStable, IInv
<1>8. SlotsKnown' /\ CalledVisited'
  <2>1. pc' \in Over /\ pc \in Over
    BY <1>2, <1>3 DEF Over
  <2>2. \A t \in Tasks : t \in dead' => t \in dead
    BY <1>2, <1>4, ScheduleAssumption
  <2> QED BY <1>3, <2>1, <2>2 DEF IInv, SlotsKnown, CalledVisited, Active
<1>9. ExitSlotsKnown' /\ ExitCalledVisited'
  <2>1. CASE pc' = "done" /\ atexit_v' = <<>>
    BY <2>1 DEF ExitSlotsKnown, ExitCalledVisited
  <2>2. CASE pc' = "aborted" /\ UNCHANGED <<atexit_v, torn>>
    BY <1>3, <2>2 DEF IInv, ExitSlotsKnown, ExitCalledVisited, Active
  <2> QED BY <1>2, <2>1, <2>2
<1>10. HistoryKnown'
  BY <1>2, <1>3, <1>4 DEF IInv, HistoryKnown
<1>11. RunningKnown'
  <2>1. pc' \notin InCall /\ pc \notin InCall
    BY <1>2, <1>3 DEF InCall
  <2> QED BY <1>3, <2>1 DEF IInv, RunningKnown
<1> QED
  BY <1>6, <1>7, <1>8, <1>9, <1>10, <1>11 DEF IInv

(* A step of the walk that leaves both vectors, handles and fates alone *)
(* keeps what does not depend on the walk.                                 *)
LEMMA WalkInv ==
    ASSUME IInv, UNCHANGED <<slotVars, handle, fates>>,
           pc \in Over => pc' \in Over,
           pc = "done" => pc' = "done",
           pc = "aborted" => pc' = "aborted",
           \A t \in called' \ called : handle[t] # 0
    PROVE  /\ HandlesStable' /\ SlotsKnown' /\ ExitSlotsKnown'
           /\ HistoryKnown'
<1>1. UNCHANGED <<v, atexit_v, handle, dead, torn, refused>>
  BY DEF slotVars, fates
<1>2. HandlesStable'
  BY <1>1 DEF IInv, HandlesStable
<1>3. SlotsKnown' /\ ExitSlotsKnown'
  BY <1>1 DEF IInv, SlotsKnown, ExitSlotsKnown, Active
<1>4. HistoryKnown'
  BY <1>1 DEF IInv, HistoryKnown
<1> QED BY <1>2, <1>3, <1>4

LEMMA TickInv == ASSUME IInv, Tick PROVE IInv'
<1>1. TypeOK /\ UNCHANGED <<slotVars, cur_gen, i, moved, history>>
  BY DEF IInv, Tick
<1>2. TypeOK'
  BY <1>1, ScheduleAssumption DEF TypeOK, Tick, slotVars, history, fates, Idle
<1>3. HandlesStable' /\ SlotsKnown' /\ ExitSlotsKnown' /\ HistoryKnown'
  BY <1>1, WalkInv DEF Tick, Over, slotVars, history, fates
<1>4. CalledVisited' /\ ExitCalledVisited'
  BY <1>1 DEF IInv, Tick, CalledVisited, ExitCalledVisited, Active, Over,
              Walking, slotVars, history, fates
<1>5. RunningKnown'
  BY <1>1 DEF IInv, Tick, RunningKnown, InCall, history, fates
<1> QED BY <1>2, <1>3, <1>4, <1>5 DEF IInv

LEMMA UpdateBeginInv == ASSUME IInv, UpdateBegin PROVE IInv'
<1>1. TypeOK /\ UNCHANGED <<slotVars, now, frame, moved, history>>
  BY DEF IInv, UpdateBegin
<1>2. TypeOK'
  BY <1>1 DEF TypeOK, UpdateBegin, slotVars, history, fates
<1>3. HandlesStable' /\ SlotsKnown' /\ ExitSlotsKnown' /\ HistoryKnown'
  BY <1>1, WalkInv DEF UpdateBegin, Over, slotVars, history, fates
<1>4. CalledVisited' /\ ExitCalledVisited'
  BY <1>1 DEF IInv, UpdateBegin, CalledVisited, ExitCalledVisited, Active,
              Over, Walking, slotVars, history, fates
<1>5. RunningKnown'
  BY <1>1 DEF IInv, UpdateBegin, RunningKnown, InCall, history, fates
<1> QED BY <1>2, <1>3, <1>4, <1>5 DEF IInv

(* The walk passes a slot over, leaves the vector, or goes from one phase  *)
(* of exit() to the next.                                                  *)
LEMMA SkipInv ==
    ASSUME IInv, ExecSkip \/ ExecEnd \/ ExitBegin \/ ExitSkip \/ ExitExecEnd
    PROVE  IInv'
<1>1. /\ TypeOK /\ UNCHANGED <<slotVars, cur_gen, now, frame, moved, history>>
      /\ DOMAIN v = 1..Len(v) /\ DOMAIN atexit_v = 1..Len(atexit_v)
      /\ Len(v) \in Nat /\ Len(atexit_v) \in Nat
  BY Vectors DEF IInv, ExecSkip, ExecEnd, ExitBegin, ExitSkip, ExitExecEnd
<1>2. TypeOK'
  BY <1>1 DEF TypeOK, ExecSkip, ExecEnd, ExitBegin, ExitSkip, ExitExecEnd,
              slotVars, history, fates
<1>3. HandlesStable' /\ SlotsKnown' /\ ExitSlotsKnown' /\ HistoryKnown'
  BY <1>1, WalkInv DEF ExecSkip, ExecEnd, ExitBegin, ExitSkip, ExitExecEnd,
              Over, slotVars, history, fates
<1>4. CalledVisited'
  BY <1>1 DEF IInv, TypeOK, CalledVisited, ExecSkip, ExecEnd, ExitBegin,
              ExitSkip, ExitExecEnd, Active, Due, Visited, Over, Walking,
              slotVars, history, fates
<1>5. ExitCalledVisited'
  BY <1>1 DEF IInv, TypeOK, ExitCalledVisited, ExecSkip, ExecEnd, ExitBegin,
              ExitSkip, ExitExecEnd, Active, slotVars, history, fates
<1>6. RunningKnown'
  BY <1>1 DEF IInv, RunningKnown, ExecSkip, ExecEnd, ExitBegin, ExitSkip,
              ExitExecEnd, InCall, history, fates
<1> QED BY <1>2, <1>3, <1>4, <1>5, <1>6 DEF IInv

LEMMA CallInv == ASSUME IInv, ExecCall \/ ExitCall PROVE IInv'
<1>1. /\ TypeOK /\ UNCHANGED <<slotVars, cur_gen, now, frame, i, handle, fates>>
      /\ DOMAIN v = 1..Len(v) /\ DOMAIN atexit_v = 1..Len(atexit_v)
      /\ Len(v) \in Nat /\ Len(atexit_v) \in Nat
      /\ \A j \in 1..Len(v) : v[j] \in Slot
      /\ \A j \in 1..Len(atexit_v) : atexit_v[j] \in Slot
  BY Vectors DEF IInv, ExecCall, ExitCall
<1>2. CASE ExecCall
  <2>1. /\ i \in 1..Len(v) /\ Due(v[i]) /\ pc = "exec" /\ pc' = "call"
        /\ running' = [f |-> v[i].f, flags |-> v[i].flags]
        /\ called' = called \cup {v[i].f} /\ moved' = FALSE
    BY <1>1, <1>2 DEF ExecCall
  <2>2. /\ v[i].f \in Tasks /\ handle[v[i].f] = i /\ v[i].f # NoTask
    BY <1>1, <2>1 DEF IInv, SlotsKnown, Due, Active
  <2>3. TypeOK'
    BY <1>1, <2>1, <2>2 DEF TypeOK, slotVars, fates, InCall, AllTasks, Slot
  <2>4. HandlesStable' /\ SlotsKnown' /\ ExitSlotsKnown' /\ HistoryKnown'
    BY <1>1, <2>1, <2>2, WalkInv DEF Over
  <2>5. CalledVisited'
    <3> SUFFICES ASSUME NEW j \in 1..Len(v), Active(v[j]), ~v[j].flags.hb,
                        v[j].f \in called'
                 PROVE  Due(v[j]) /\ (j < i \/ j = i)
      BY <1>1, <2>1 DEF CalledVisited, Active, Due, Visited, Walking, slotVars
    <3>1. CASE v[j].f = v[i].f
      BY <1>1, <2>1, <2>2, <3>1 DEF IInv, SlotsKnown
    <3>2. CASE v[j].f # v[i].f
      BY <1>1, <2>1, <3>2 DEF IInv, CalledVisited, Over, Visited
    <3> QED BY <3>1, <3>2
  <2>6. ExitCalledVisited'
    <3> SUFFICES ASSUME NEW j \in 1..Len(atexit_v), Active(atexit_v[j]),
                        atexit_v[j].f \in called'
                 PROVE  FALSE
      BY <1>1, <2>1 DEF ExitCalledVisited, Active, slotVars
    <3>1. atexit_v[j].f \in ExitTasks
      BY <1>1 DEF IInv, ExitSlotsKnown
    <3>2. atexit_v[j].f \in called
      BY <2>1, <2>2, <3>1, ScheduleAssumption
    <3> QED BY <1>1, <2>1, <3>2 DEF IInv, ExitCalledVisited
  <2>7. RunningKnown'
    BY <2>1, <2>2 DEF RunningKnown, InCall
  <2> QED BY <2>3, <2>4, <2>5, <2>6, <2>7 DEF IInv
<1>3. CASE ExitCall
  <2>1. /\ i \in 1..Len(atexit_v) /\ Active(atexit_v[i]) /\ pc = "exit_exec"
        /\ pc' = "exit_call"
        /\ running' = [f |-> atexit_v[i].f, flags |-> atexit_v[i].flags]
        /\ called' = called \cup {atexit_v[i].f} /\ moved' = FALSE
    BY <1>1, <1>3 DEF ExitCall
  <2>2. /\ atexit_v[i].f \in ExitTasks /\ handle[atexit_v[i].f] = i
        /\ atexit_v[i].f # NoTask
    BY <1>1, <2>1 DEF IInv, ExitSlotsKnown, Active
  <2>3. TypeOK'
    BY <1>1, <2>1, <2>2 DEF TypeOK, slotVars, fates, InCall, AllTasks, Slot
  <2>4. HandlesStable' /\ SlotsKnown' /\ ExitSlotsKnown' /\ HistoryKnown'
    BY <1>1, <2>1, <2>2, WalkInv DEF Over
  <2>5. CalledVisited'
    BY <2>1 DEF CalledVisited, Over
  <2>6. ExitCalledVisited'
    <3> SUFFICES ASSUME NEW j \in 1..Len(atexit_v), Active(atexit_v[j]),
                        atexit_v[j].f \in called'
                 PROVE  j <= i
      BY <1>1, <2>1 DEF ExitCalledVisited, Active, slotVars
    <3>1. CASE atexit_v[j].f = atexit_v[i].f
      BY <1>1, <2>1, <2>2, <3>1 DEF IInv, ExitSlotsKnown
    <3>2. CASE atexit_v[j].f # atexit_v[i].f
      BY <1>1, <2>1, <3>2 DEF IInv, ExitCalledVisited
    <3> QED BY <3>1, <3>2
  <2>7. RunningKnown'
    BY <2>1, <2>2 DEF RunningKnown, InCall
  <2> QED BY <2>3, <2>4, <2>5, <2>6, <2>7 DEF IInv
<1> QED BY <1>2, <1>3

LEMMA ReturnInv ==
    ASSUME IInv, NEW ok \in BOOLEAN, CallReturn(ok) \/ ExitReturn(ok)
    PROVE  IInv'
<1>1. /\ TypeOK /\ UNCHANGED <<slotVars, cur_gen, now, frame, handle, fates, called>>
      /\ running' = Nobody /\ moved' = FALSE
      /\ DOMAIN v = 1..Len(v) /\ DOMAIN atexit_v = 1..Len(atexit_v)
      /\ Len(v) \in Nat /\ Len(atexit_v) \in Nat
  BY Vectors DEF IInv, CallReturn, ExitReturn
<1>2. \/ pc = "call" /\ pc' = "exec" /\ i' = i + 1
      \/ pc = "call" /\ pc' = "failed" /\ i' = 0
      \/ pc = "exit_call" /\ pc' = "exit_exec" /\ i' = i + 1
      \/ pc = "exit_call" /\ pc' = "done" /\ i' = 0
  BY DEF CallReturn, ExitReturn
<1>3. Nobody.f = NoTask /\ Nobody \in [f : AllTasks \cup {NoTask},
                                      flags : [hb : BOOLEAN, ign : BOOLEAN]]
  BY DEF Nobody, NoFlags
<1>4. TypeOK'
  <2>1. pc' \in {"exec", "failed", "exit_exec", "done"} /\ i' \in Nat
    BY <1>1, <1>2 DEF TypeOK
  <2>2. /\ UNCHANGED <<v, cap, atexit_v, cap_atexit, cur_gen, now, frame, handle>>
        /\ UNCHANGED <<dead, torn, refused, called>>
    BY <1>1 DEF slotVars, fates
  <2>3. /\ running' \in [f : AllTasks \cup {NoTask},
                         flags : [hb : BOOLEAN, ign : BOOLEAN]]
        /\ moved' \in BOOLEAN
    BY <1>1, <1>3
  <2> QED BY <1>1, <2>1, <2>2, <2>3 DEF TypeOK
<1>5. HandlesStable' /\ SlotsKnown' /\ ExitSlotsKnown' /\ HistoryKnown'
  BY <1>1, <1>2, WalkInv DEF Over
<1>6. CalledVisited'
  <2>1. CASE pc = "call" /\ pc' = "exec" /\ i' = i + 1
    <3> SUFFICES ASSUME NEW j \in 1..Len(v), Active(v[j]), ~v[j].flags.hb,
                        v[j].f \in called
                 PROVE  Due(v[j]) /\ j < i + 1
      BY <1>1, <2>1 DEF CalledVisited, Active, Due, Visited, Walking, slotVars
    <3>1. Due(v[j]) /\ (j < i \/ j = i)
      BY <1>1, <2>1 DEF IInv, CalledVisited, Over, Visited
    <3> QED BY <1>1, <3>1 DEF TypeOK
  <2>2. CASE pc' \in Over
    BY <2>2 DEF CalledVisited
  <2> QED BY <1>2, <2>1, <2>2 DEF Over
<1>7. ExitCalledVisited'
  BY <1>1, <1>2 DEF IInv, TypeOK, ExitCalledVisited, Active, slotVars
<1>8. RunningKnown'
  BY <1>1, <1>2, <1>3 DEF RunningKnown, InCall
<1> QED BY <1>4, <1>5, <1>6, <1>7, <1>8 DEF IInv

LEMMA StutterInv == ASSUME IInv, UNCHANGED vars PROVE IInv'
BY DEF IInv, vars, TypeOK, HandlesStable, SlotsKnown, ExitSlotsKnown,
       HistoryKnown, CalledVisited, ExitCalledVisited, RunningKnown, Active,
       Due, Visited

LEMMA NextInv == IInv /\ [Next]_vars => IInv'
<1> SUFFICES ASSUME IInv, [Next]_vars PROVE IInv'
  OBVIOUS
<1>0. now \in Nat /\ frame \in Nat
  BY DEF IInv, TypeOK
<1>1. CASE Request
  <2>1. ASSUME NEW t \in Tasks, Next_(t) PROVE IInv'
    BY <2>1, AddEntryInv DEF Next_
  <2>2. ASSUME NEW t \in Tasks, At(t) PROVE IInv'
    <3>1. PICK fl \in Flags, tm \in (now + 1)..MaxTime : AddEntry(t, fl, tm, 0)
      BY <2>2 DEF At
    <3>2. tm \in Nat
      BY <1>0, ScheduleAssumption
    <3> QED BY <3>1, <3>2, AddEntryInv
  <2>3. ASSUME NEW t \in Tasks, Frame(t) PROVE IInv'
    <3>1. PICK fl \in Flags, fr \in (frame + 1)..MaxFrame :
            AddEntry(t, fl, 0, fr)
      BY <2>3 DEF Frame
    <3>2. fr \in Nat
      BY <1>0, ScheduleAssumption
    <3> QED BY <3>1, <3>2, AddEntryInv
  <2> QED
    BY <1>1, <2>1, <2>2, <2>3, AtexitInv, CancelInv, CancelAtexitInv,
       CancelFailsInv DEF Request
<1>2. CASE Advance
  <2>1. CASE Tick \/ UpdateBegin
    BY <2>1, TickInv, UpdateBeginInv
  <2>2. CASE ExecSkip \/ ExecEnd \/ ExitSkip \/ ExitExecEnd \/ ExitBegin
    BY <2>2, SkipInv
  <2>3. CASE ExecCall \/ ExitCall
    BY <2>3, CallInv
  <2>4. CASE \E ok \in BOOLEAN : CallReturn(ok) \/ ExitReturn(ok)
    BY <2>4, ReturnInv
  <2>5. CASE UpdateEnd \/ UpdateEndFails \/ ExitEnd
    BY <2>5, UpdateEndInv, UpdateEndFailsInv, ExitEndInv
  <2> QED BY <1>2, <2>1, <2>2, <2>3, <2>4, <2>5 DEF Advance
<1>3. CASE ExitBegin
  BY <1>3, SkipInv
<1>4. CASE Stopped \/ UNCHANGED vars
  BY <1>4, StutterInv DEF Stopped
<1> QED BY <1>1, <1>2, <1>3, <1>4 DEF Next

-----------------------------------------------------------------------------
(* The theorems.                                                           *)

(* The inductive invariant holds throughout. *)
THEOREM Invariance == Spec => []IInv
BY InitInv, NextInv, PTL DEF Spec

(* Every variable keeps its type, and each vector fits in its storage.     *)
THEOREM TypeCorrect == Spec => []TypeOK
<1>1. IInv => TypeOK
  BY DEF IInv
<1> QED BY <1>1, Invariance, PTL

(* Whatever is scheduled, cancelled, executed or trimmed, from outside or  *)
(* by the tasks themselves, an index remains that of its task.             *)
THEOREM HandlesAreStable == Spec => []HandlesStable
<1>1. IInv => HandlesStable
  BY DEF IInv
<1> QED BY <1>1, Invariance, PTL

(* Only the two walks call tasks.                                          *)
LEMMA CallStep ==
    ASSUME IInv, [Next]_vars, NEW t \in AllTasks, Calls(t)
    PROVE  \/ ExecCall /\ t = v[i].f /\ running'.flags = v[i].flags
           \/ ExitCall /\ t = atexit_v[i].f
<1>1. t # NoTask /\ Nobody.f = NoTask
  BY ScheduleAssumption DEF AllTasks, Nobody
<1>2. running' # running /\ running' # Nobody
  BY <1>1 DEF Calls
<1>3. ~Request
  BY <1>2 DEF Request, Next_, At, Frame, Atexit, AddEntry, Cancel, CancelFails,
              CancelAtexit, CancelAtexitFails
<1>4. ~(Tick \/ UpdateBegin \/ ExecSkip \/ ExecEnd \/ ExitSkip \/ ExitExecEnd
        \/ ExitBegin)
  BY <1>2 DEF Tick, UpdateBegin, ExecSkip, ExecEnd, ExitSkip, ExitExecEnd,
              ExitBegin, history
<1>5. ~(UpdateEnd \/ UpdateEndFails \/ ExitEnd \/ Stopped \/ UNCHANGED vars)
  BY <1>2 DEF UpdateEnd, UpdateEndFails, ExitEnd, Stopped, vars
<1>6. ~ \E ok \in BOOLEAN : CallReturn(ok) \/ ExitReturn(ok)
  BY <1>2 DEF CallReturn, ExitReturn
<1>7. ExecCall \/ ExitCall
  BY <1>3, <1>4, <1>5, <1>6 DEF Next, Advance
<1> QED BY <1>7 DEF ExecCall, ExitCall, Calls

(* A one-shot task is executed at most once.                               *)
THEOREM OneShotsRunOnce == Spec => OneShotOnce
<1>1. ASSUME IInv, [Next]_vars, NEW t \in AllTasks, Calls(t),
             ~running'.flags.hb
      PROVE  t \notin called
  <2>0. /\ DOMAIN v = 1..Len(v) /\ DOMAIN atexit_v = 1..Len(atexit_v)
        /\ i \in Nat
    BY <1>1, Vectors DEF IInv, TypeOK
  <2>1. CASE ExecCall /\ t = v[i].f /\ running'.flags = v[i].flags
    <3>1. i \in DOMAIN v /\ Active(v[i]) /\ ~v[i].flags.hb /\ pc = "exec"
      BY <1>1, <2>1 DEF ExecCall, Due
    <3> QED BY <1>1, <2>0, <2>1, <3>1 DEF IInv, CalledVisited, Over, Visited
  <2>2. CASE ExitCall /\ t = atexit_v[i].f
    BY <1>1, <2>0, <2>2 DEF ExitCall, IInv, ExitCalledVisited
  <2> QED BY <1>1, <2>1, <2>2, CallStep
<1>2. IInv /\ [Next]_vars =>
        [\A t \in AllTasks : Calls(t) /\ ~running'.flags.hb => t \notin called]_vars
  BY <1>1
<1> QED BY <1>2, Invariance, PTL DEF Spec, OneShotOnce

(* A task is not called once its data was destroyed, after its execution,  *)
(* by its cancellation or at the exit, nor after its destructor failed,    *)
(* unless it did in cancel(): the task then is not destroyed, but remains. *)
THEOREM DeadAreNotCalled == Spec => NeverCalledDead
<1>1. ASSUME IInv, [Next]_vars, NEW t \in AllTasks, Calls(t)
      PROVE  t \notin dead \cup torn
  <2>1. CASE ExecCall /\ t = v[i].f
    BY <1>1, <2>1 DEF ExecCall, Due, IInv, SlotsKnown, Over
  <2>2. CASE ExitCall /\ t = atexit_v[i].f
    BY <1>1, <2>2 DEF ExitCall, IInv, ExitSlotsKnown
  <2> QED BY <1>1, <2>1, <2>2, CallStep
<1>2. IInv /\ [Next]_vars =>
        [\A t \in AllTasks : Calls(t) => t \notin dead \cup torn]_vars
  BY <1>1
<1> QED BY <1>2, Invariance, PTL DEF Spec, NeverCalledDead

-----------------------------------------------------------------------------
(* The set of tasks of TaskSet.                                            *)

(* What the mapping needs besides: the moments of tasks are within their   *)
(* bounds, no task is of a later update, and the walk starts at a slot.    *)
Timely ==
    /\ now <= MaxTime /\ frame <= MaxFrame
    /\ pc \in {"exec", "call"} => i >= 1
    /\ \A k \in DOMAIN v : Active(v[k]) =>
        v[k].time <= MaxTime /\ v[k].frame <= MaxFrame /\ v[k].gen <= cur_gen

RInv == IInv /\ Timely

LEMMA InitTimely == Init => Timely
BY ScheduleAssumption DEF Init, Timely

(* A vector which only loses entries keeps the rest as they were.          *)
LEMMA LosesTimely ==
    ASSUME RInv, NEW D, Loses(v, v', D), UNCHANGED <<cur_gen, now, frame>>,
           pc' \in {"exec", "call"} => pc' = pc /\ i' = i
    PROVE  Timely'
<1>1. /\ Len(v) \in Nat /\ DOMAIN v = 1..Len(v)
      /\ Len(v') \in Nat /\ DOMAIN v' = 1..Len(v')
  BY Vectors, LenProperties DEF RInv, IInv, Loses
<1>2. ASSUME NEW k \in 1..Len(v'), Active(v'[k])
      PROVE  k \in 1..Len(v) /\ v'[k] = v[k]
  BY <1>1, <1>2 DEF Loses
<1>3. \A k \in DOMAIN v' : Active(v'[k]) =>
        /\ v'[k].time <= MaxTime /\ v'[k].frame <= MaxFrame
        /\ v'[k].gen <= cur_gen
  BY <1>1, <1>2 DEF RInv, Timely
<1> QED BY <1>3 DEF RInv, Timely, Active

LEMMA AddTimely ==
    ASSUME RInv, NEW t \in Tasks, NEW fl \in Flags, NEW tm \in 0..MaxTime,
           NEW fr \in 0..MaxFrame, AddEntry(t, fl, tm, fr)
    PROVE  Timely'
<1> DEFINE e == [f |-> t, flags |-> fl, time |-> tm, frame |-> fr,
                 gen |-> cur_gen]
<1>1. TypeOK /\ cur_gen \in Nat /\ tm \in Nat /\ fr \in Nat
  BY ScheduleAssumption DEF RInv, IInv, TypeOK
<1>2. PICK k \in 1..(Len(v) + 1) : v' = Put(v, k, e)
  BY DEF AddEntry
<1>3. e \in Slot
  BY <1>1, ScheduleAssumption DEF Slot, AllTasks
<1>4. /\ DOMAIN v' = 1..Len(v') /\ Len(v) \in Nat /\ DOMAIN v = 1..Len(v)
      /\ Len(v') = IF k > Len(v) THEN k ELSE Len(v)
      /\ \A j \in 1..Len(v') : v'[j] = IF j = k THEN e ELSE v[j]
  BY <1>1, <1>2, <1>3, PutSlot, Vectors DEF TypeOK
<1>5. /\ e.time <= MaxTime /\ e.frame <= MaxFrame /\ e.gen <= cur_gen
  BY <1>1, ScheduleAssumption
<1>6. ASSUME NEW j \in 1..Len(v'), Active(v'[j])
      PROVE  /\ v'[j].time <= MaxTime /\ v'[j].frame <= MaxFrame
             /\ v'[j].gen <= cur_gen
  <2>1. CASE j = k
    BY <1>4, <1>5, <2>1
  <2>2. CASE j # k
    <3>1. j \in 1..Len(v) /\ v'[j] = v[j]
      BY <1>4, <2>2
    <3> QED BY <1>4, <1>6, <3>1 DEF RInv, Timely
  <2> QED BY <2>1, <2>2
<1>7. UNCHANGED <<cur_gen, now, frame, pc, i>>
  BY DEF AddEntry
<1> QED BY <1>4, <1>6, <1>7 DEF RInv, Timely, Active

LEMMA CancelTimely ==
    ASSUME RInv, NEW k \in DOMAIN v, Cancel(k)
    PROVE  Timely'
<1>1. v \in Seq(Slot) /\ k \in 1..Len(v)
  BY Vectors DEF RInv, IInv, TypeOK
<1>2. Loses(v, v', {k})
  BY <1>1, CancelledLoses DEF Cancel
<1> QED BY <1>2, LosesTimely DEF Cancel

LEMMA UpdateEndTimely ==
    ASSUME RInv, UpdateEnd \/ UpdateEndFails
    PROVE  Timely'
<1>1. v \in Seq(Slot) /\ DOMAIN v = 1..Len(v)
  BY Vectors DEF RInv, IInv, TypeOK
<1>2. \E D : Loses(v, v', D)
  <2>1. CASE UpdateEnd
    BY <1>1, <2>1, SweepLoses DEF UpdateEnd
  <2>2. CASE UpdateEndFails
    <3>1. PICK k \in 1..Len(v) :
            v' = [j \in DOMAIN v |-> IF j < k THEN Swept(v)[j] ELSE v[j]]
      BY <1>1, <2>2 DEF UpdateEndFails
    <3> QED BY <1>1, <3>1, PartialSweepLoses
  <2> QED BY <2>1, <2>2
<1>3. UNCHANGED <<cur_gen, now, frame>> /\ pc' \notin {"exec", "call"}
  BY DEF UpdateEnd, UpdateEndFails
<1> QED BY <1>2, <1>3, LosesTimely

(* The steps that leave v alone.                                           *)
LEMMA OtherTimely ==
    ASSUME RInv, UNCHANGED v,
           now' <= MaxTime, frame' <= MaxFrame, cur_gen' >= cur_gen,
           cur_gen' \in Nat,
           pc' \in {"exec", "call"} => i' >= 1
    PROVE  Timely'
<1>1. /\ DOMAIN v = 1..Len(v) /\ cur_gen \in Nat
      /\ \A k \in 1..Len(v) : v[k].gen \in Nat
  BY Vectors DEF RInv, IInv, TypeOK, Slot
<1>2. \A k \in DOMAIN v : Active(v[k]) => v[k].gen <= cur_gen'
  BY <1>1 DEF RInv, Timely
<1> QED BY <1>1, <1>2 DEF RInv, Timely, Active

LEMMA NextRInv == RInv /\ [Next]_vars => RInv'
<1> SUFFICES ASSUME RInv, [Next]_vars PROVE RInv'
  OBVIOUS
<1>0. IInv'
  BY NextInv DEF RInv
<1> SUFFICES Timely'
  BY <1>0 DEF RInv
<1>1. /\ now \in Nat /\ frame \in Nat /\ cur_gen \in Nat /\ i \in Nat
      /\ now <= MaxTime /\ frame <= MaxFrame
      /\ MaxTime \in Nat /\ MaxFrame \in Nat
      /\ pc \in {"exec", "call"} => i >= 1
  BY ScheduleAssumption DEF RInv, IInv, TypeOK, Timely
<1>2. ASSUME NEW t \in Tasks, Next_(t) \/ At(t) \/ Frame(t) PROVE Timely'
  <2>1. 0 \in 0..MaxTime /\ 0 \in 0..MaxFrame
    BY <1>1
  <2>2. CASE Next_(t)
    BY <2>1, <2>2, AddTimely DEF Next_
  <2>3. CASE At(t)
    <3>1. PICK fl \in Flags, tm \in (now + 1)..MaxTime : AddEntry(t, fl, tm, 0)
      BY <2>3 DEF At
    <3>2. tm \in 0..MaxTime
      BY <1>1
    <3> QED BY <2>1, <3>1, <3>2, AddTimely
  <2>4. CASE Frame(t)
    <3>1. PICK fl \in Flags, fr \in (frame + 1)..MaxFrame :
            AddEntry(t, fl, 0, fr)
      BY <2>4 DEF Frame
    <3>2. fr \in 0..MaxFrame
      BY <1>1
    <3> QED BY <2>1, <3>1, <3>2, AddTimely
  <2> QED BY <1>2, <2>2, <2>3, <2>4
<1>3. ASSUME NEW t \in ExitTasks, Atexit(t) PROVE Timely'
  BY <1>1, <1>3, OtherTimely DEF Atexit
<1>4. ASSUME NEW k \in DOMAIN atexit_v, CancelAtexit(k) PROVE Timely'
  BY <1>1, <1>4, OtherTimely DEF CancelAtexit
<1>12. ASSUME \/ \E k \in DOMAIN v : CancelFails(k)
              \/ \E k \in DOMAIN atexit_v : CancelAtexitFails(k)
       PROVE  Timely'
  BY <1>1, <1>12, OtherTimely DEF CancelFails, CancelAtexitFails, slotVars
<1>5. CASE Tick
  <2>1. now' <= MaxTime /\ frame' <= MaxFrame
    BY <1>1, <1>5 DEF Tick
  <2>2. UNCHANGED <<v, cur_gen>> /\ pc' = "input"
    BY <1>5 DEF Tick, slotVars
  <2> QED BY <1>1, <2>1, <2>2, OtherTimely
<1>6. CASE UpdateBegin
  <2>1. UNCHANGED <<v, now, frame>> /\ cur_gen' = cur_gen + 1 /\ i' = 1
    BY <1>6 DEF UpdateBegin, slotVars
  <2>2. cur_gen' >= cur_gen /\ cur_gen' \in Nat
    BY <1>1, <2>1
  <2> QED BY <1>1, <2>1, <2>2, OtherTimely
<1>7. CASE \/ ExecSkip \/ ExecCall \/ ExecEnd
           \/ \E ok \in BOOLEAN : CallReturn(ok)
  <2>1. UNCHANGED <<v, cur_gen, now, frame>>
    BY <1>7 DEF ExecSkip, ExecCall, ExecEnd, CallReturn, slotVars
  <2>2. pc' \in {"exec", "call"} => i' = i \/ i' = i + 1
    BY <1>7 DEF ExecSkip, ExecCall, ExecEnd, CallReturn
  <2>3. pc \in {"exec", "call"}
    BY <1>7 DEF ExecSkip, ExecCall, ExecEnd, CallReturn
  <2>4. pc' \in {"exec", "call"} => i' >= 1
    BY <1>1, <2>2, <2>3
  <2> QED BY <1>1, <2>1, <2>4, OtherTimely
<1>8. CASE \/ ExitBegin \/ ExitSkip \/ ExitCall \/ ExitExecEnd \/ ExitEnd
           \/ \E ok \in BOOLEAN : ExitReturn(ok)
  <2>1. UNCHANGED <<v, cur_gen, now, frame>> /\ pc' \notin {"exec", "call"}
    BY <1>8 DEF ExitBegin, ExitSkip, ExitCall, ExitExecEnd, ExitEnd,
                ExitReturn, slotVars
  <2> QED BY <1>1, <2>1, OtherTimely
<1>9. CASE Stopped \/ UNCHANGED vars
  BY <1>1, <1>9, OtherTimely DEF Stopped, vars
<1>10. CASE Request
  BY <1>2, <1>3, <1>4, <1>10, <1>12, CancelTimely DEF Request
<1>11. CASE Advance \/ ExitBegin
  BY <1>5, <1>6, <1>7, <1>8, <1>11, UpdateEndTimely DEF Advance
<1> QED BY <1>9, <1>10, <1>11 DEF Next

(* The abstract state, where the walk is not in progress and after a step. *)
Stutters == UNCHANGED <<Phase, Pending, Todo, Ran, Busy, now, frame>>

LEMMA Outside ==
    /\ pc \notin Walking => Todo = {} /\ Ran = {}
    /\ pc' \notin Walking => Todo' = {} /\ Ran' = {}
BY DEF Todo, Ran, Entries, DueSlots

LEMMA Phases ==
    /\ pc \in Idle => Phase = "idle"
    /\ pc \in Walking => Phase = "update"
    /\ pc \in Over => Phase = "stopped"
    /\ pc' \in Idle => Phase' = "idle"
    /\ pc' \in Walking => Phase' = "update"
    /\ pc' \in Over => Phase' = "stopped"
BY DEF Phase, Idle, Walking, Over

LEMMA BusyIs ==
    /\ pc = "call" => Busy = running.f
    /\ pc # "call" => Busy = NoTask
    /\ pc' = "call" => Busy' = running'.f
    /\ pc' # "call" => Busy' = NoTask
BY DEF Busy

(* Each pending task is in one slot, and each entry in the mapping is that *)
(* of one slot.                                                            *)
Held == {k \in DOMAIN v : Active(v[k])}

LEMMA EntryOfOneSlot ==
    ASSUME IInv, NEW j \in Held, NEW k \in Held, v[j].f = v[k].f
    PROVE  j = k
BY DEF Held, IInv, SlotsKnown

LEMMA EntriesMinus ==
    ASSUME IInv, NEW X \in SUBSET Held, NEW D \in SUBSET Held
    PROVE  Entries(X \ D) = Entries(X) \ Entries(D)
<1>1. ASSUME NEW j \in X, NEW k \in D, Entry(v[j]) = Entry(v[k])
      PROVE  j = k
  <2>1. v[j].f = v[k].f
    BY <1>1 DEF Entry
  <2> QED BY <2>1, EntryOfOneSlot
<1> QED BY <1>1 DEF Entries

(* What is left of the entries of the slots X when v loses those in D.     *)
LEMMA LosesEntries ==
    ASSUME IInv, NEW X \in SUBSET Held, NEW D, Loses(v, v', D)
    PROVE  {Entry(v'[k]) : k \in {m \in DOMAIN v' : Active(v'[m]) /\ m \in X}}
            = Entries(X \ D)
<1>1. /\ Len(v) \in Nat /\ DOMAIN v = 1..Len(v)
      /\ Len(v') \in Nat /\ DOMAIN v' = 1..Len(v')
  BY Vectors, LenProperties DEF IInv, Loses
<1> DEFINE Y == {m \in DOMAIN v' : Active(v'[m]) /\ m \in X}
<1>2. \A k \in Y : k \in X \ D /\ v'[k] = v[k]
  BY <1>1 DEF Loses
<1>3. \A k \in X \ D : k \in Y /\ v'[k] = v[k]
  BY <1>1 DEF Loses, Held
<1> HIDE DEF Y
<1>4. {Entry(v'[k]) : k \in Y} = {Entry(v[k]) : k \in X \ D}
  BY <1>2, <1>3
<1> QED BY <1>4 DEF Y, Entries

LEMMA DueAreHeld ==
    /\ DueSlots \subseteq Held
    /\ Pending = Entries(Held)
    /\ Todo = Entries({k \in DueSlots : ~Visited(k)})
    /\ Ran = Entries({k \in DueSlots : Visited(k)})
BY DEF DueSlots, Held, Due, Pending, Todo, Ran

-----------------------------------------------------------------------------
(* Every step of the scheduler is one of TaskSet, or changes nothing there. *)

LEMMA StopStep ==
    ASSUME RInv, pc \notin Over, pc' \in Over, UNCHANGED <<now, frame>>,
           NEW S \in SUBSET {e \in Ran : ~e.hb}, Pending' = Pending \ S
    PROVE  Abstract!Next
<1>1. Phase # "stopped"
  BY Phases DEF RInv, IInv, TypeOK, Idle, Walking, Over, InCall
<1>2. Phase' = "stopped"
  BY Phases
<1>3. pc' \notin Walking /\ pc' # "call"
  BY DEF Over, Walking
<1>4. Todo' = {} /\ Ran' = {} /\ Busy' = NoTask
  BY <1>3, Outside, BusyIs
<1>5. Abstract!Stop
  BY <1>1, <1>2, <1>4 DEF Abstract!Stop
<1> QED BY <1>5 DEF Abstract!Next

LEMMA OverStutters ==
    ASSUME pc \in Over, pc' \in Over, UNCHANGED <<v, now, frame>>
    PROVE  Stutters
<1>1. Phase' = Phase
  BY Phases
<1>2. pc \notin Walking /\ pc' \notin Walking
  BY DEF Over, Walking
<1>3. Todo' = Todo /\ Ran' = Ran
  BY <1>2, Outside
<1>4. Busy' = Busy
  BY BusyIs DEF Over
<1>5. Pending' = Pending
  BY DEF Pending, Entries, Active
<1> QED BY <1>1, <1>3, <1>4, <1>5 DEF Stutters

LEMMA AddStep ==
    ASSUME RInv, NEW t \in Tasks, NEW fl \in Flags, NEW tm \in 0..MaxTime,
           NEW fr \in 0..MaxFrame, AddEntry(t, fl, tm, fr)
    PROVE  Abstract!Next
<1> DEFINE e == [f |-> t, flags |-> fl, time |-> tm, frame |-> fr,
                 gen |-> cur_gen]
<1>1. /\ TypeOK /\ cur_gen \in Nat /\ tm \in Nat /\ fr \in Nat
      /\ MayRequest /\ handle[t] = 0
      /\ UNCHANGED <<cur_gen, now, frame, pc, i, running>>
  BY ScheduleAssumption DEF RInv, IInv, TypeOK, AddEntry
<1>2. PICK k \in 1..(Len(v) + 1) : IsFirstFree(v, k) /\ v' = Put(v, k, e)
  BY DEF AddEntry
<1>3. e \in Slot /\ Active(e) /\ ~(e.gen < cur_gen)
  BY <1>1, ScheduleAssumption DEF Slot, AllTasks, Active
<1>4. /\ DOMAIN v' = 1..Len(v') /\ Len(v) \in Nat /\ DOMAIN v = 1..Len(v)
      /\ Len(v') = IF k > Len(v) THEN k ELSE Len(v)
      /\ \A j \in 1..Len(v') : v'[j] = IF j = k THEN e ELSE v[j]
  BY <1>1, <1>2, <1>3, PutSlot, Vectors DEF TypeOK
<1>5. /\ k \in DOMAIN v' /\ v'[k] = e /\ k \notin Held
      /\ \A j : j # k => (j \in DOMAIN v' <=> j \in DOMAIN v)
      /\ \A j \in DOMAIN v : j # k => v'[j] = v[j]
  BY <1>2, <1>4 DEF IsFirstFree, Held
<1> DEFINE x == Entry(e)
<1>6. Pending' = Pending \cup {x}
  <2>1. Pending' = {Entry(v'[j]) : j \in {m \in DOMAIN v' : Active(v'[m])}}
    BY DEF Pending, Entries, Active
  <2>2. {m \in DOMAIN v' : Active(v'[m])} = Held \cup {k}
    BY <1>3, <1>5 DEF Held
  <2>3. \A j \in Held : v'[j] = v[j]
    BY <1>5 DEF Held
  <2> HIDE DEF e
  <2>4. {Entry(v'[j]) : j \in Held \cup {k}} = {Entry(v[j]) : j \in Held} \cup {Entry(e)}
    BY <1>5, <2>3
  <2> QED BY <2>1, <2>2, <2>4, DueAreHeld DEF Entries
<1>7. Todo' = Todo /\ Ran' = Ran
  <2>1. DueSlots' = DueSlots
    BY <1>1, <1>3, <1>5 DEF DueSlots, Due, Held, Active
  <2>2. \A j \in DueSlots : v'[j] = v[j] /\ (Visited(j)' <=> Visited(j))
    BY <1>1, <1>5, DueAreHeld DEF Held, Visited
  <2>3. Todo' = {Entry(v'[j]) : j \in {m \in DueSlots' : ~Visited(m)'}}
    BY DEF Todo, Entries
  <2>4. Ran' = {Entry(v'[j]) : j \in {m \in DueSlots' : Visited(m)'}}
    BY DEF Ran, Entries
  <2>5. Todo = {Entry(v[j]) : j \in {m \in DueSlots : ~Visited(m)}}
    BY DEF Todo, Entries
  <2>6. Ran = {Entry(v[j]) : j \in {m \in DueSlots : Visited(m)}}
    BY DEF Ran, Entries
  <2>7. {m \in DueSlots' : ~Visited(m)'} = {m \in DueSlots : ~Visited(m)}
    BY <2>1, <2>2
  <2>8. {m \in DueSlots' : Visited(m)'} = {m \in DueSlots : Visited(m)}
    BY <2>1, <2>2
  <2> QED BY <2>2, <2>3, <2>4, <2>5, <2>6, <2>7, <2>8
<1>8. Phase' = Phase /\ Busy' = Busy
  BY <1>1 DEF Phase, Busy
<1>9. Abstract!MayRequest
  <2>1. pc = "call" => Busy # NoTask
    BY BusyIs DEF RInv, IInv, RunningKnown, InCall
  <2>2. pc # "call" => Phase # "update"
    BY <1>1, Phases DEF MayRequest, Idle, InCall, Over
  <2> QED BY <2>1, <2>2 DEF Abstract!MayRequest
<1>10. x \in Abstract!Task /\ x.f = t
  <2>1. fl.hb \in BOOLEAN
    BY ScheduleAssumption
  <2> QED BY <2>1 DEF Entry, Abstract!Task
<1>11. \A y \in Pending : y.f # t
  <2>1. \A j \in Held : v[j].f # t
    BY <1>1, <1>4 DEF RInv, IInv, SlotsKnown, Held
  <2> QED BY <2>1, DueAreHeld DEF Entries, Entry
<1> HIDE DEF x
<1>12. Abstract!Add
  BY <1>1, <1>6, <1>7, <1>8, <1>9, <1>10, <1>11 DEF Abstract!Add
<1> QED BY <1>12 DEF Abstract!Next

LEMMA CancelStep ==
    ASSUME RInv, NEW k \in DOMAIN v, Cancel(k)
    PROVE  Abstract!Next
<1>1. /\ v \in Seq(Slot) /\ k \in 1..Len(v) /\ k \in Held /\ MayRequest
      /\ IInv /\ UNCHANGED <<cur_gen, now, frame, pc, i, running>>
  BY Vectors DEF RInv, IInv, TypeOK, Cancel, Held
<1>2. Loses(v, v', {k})
  BY <1>1, CancelledLoses DEF Cancel
<1> DEFINE x == Entry(v[k])
<1>3. Entries({k}) = {x}
  BY DEF Entries
<1>4. ASSUME NEW X \in SUBSET Held
      PROVE  {Entry(v'[j]) : j \in {m \in DOMAIN v' : Active(v'[m]) /\ m \in X}}
                = Entries(X) \ {x}
  <2>1. Entries(X \ {k}) = Entries(X) \ Entries({k})
    BY <1>1, EntriesMinus
  <2> QED BY <1>1, <1>2, <1>3, <2>1, LosesEntries
<1>5. ASSUME NEW j \in DOMAIN v', Active(v'[j])
      PROVE  j \in Held /\ v'[j] = v[j]
  BY <1>1, <1>2, <1>5, LenProperties DEF Loses, Held
<1>6. Pending' = Pending \ {x}
  <2>1. {m \in DOMAIN v' : Active(v'[m])} =
            {m \in DOMAIN v' : Active(v'[m]) /\ m \in Held}
    BY <1>5
  <2>2. Pending' = {Entry(v'[j]) : j \in {m \in DOMAIN v' : Active(v'[m])}}
    BY DEF Pending, Entries, Active
  <2> QED BY <1>4, <2>1, <2>2, DueAreHeld
<1>7. ASSUME NEW j
      PROVE  /\ j \in DueSlots' <=> /\ j \in DOMAIN v' /\ Active(v'[j])
                                    /\ j \in DueSlots
             /\ Visited(j)' <=> Visited(j)
  <2>1. Visited(j)' <=> Visited(j)
    BY <1>1 DEF Visited
  <2>2. j \in DueSlots' <=> /\ j \in DOMAIN v' /\ Active(v'[j])
                            /\ j \in DueSlots
    BY <1>1, <1>5 DEF DueSlots, Due, Held, Active
  <2> QED BY <2>1, <2>2
<1>8. Todo' = Todo \ {x}
  <2> DEFINE X == {m \in DueSlots : ~Visited(m)}
  <2>1. {m \in DueSlots' : ~Visited(m)'} =
            {m \in DOMAIN v' : Active(v'[m]) /\ m \in X}
    BY <1>7
  <2>2. Todo' = {Entry(v'[j]) : j \in {m \in DueSlots' : ~Visited(m)'}}
    BY DEF Todo, Entries
  <2>3. X \in SUBSET Held
    BY DueAreHeld
  <2>4. Todo = Entries(X)
    BY DEF Todo
  <2> HIDE DEF X, x
  <2> QED BY <1>4, <2>1, <2>2, <2>3, <2>4
<1>9. Ran' = Ran \ {x}
  <2> DEFINE X == {m \in DueSlots : Visited(m)}
  <2>1. {m \in DueSlots' : Visited(m)'} =
            {m \in DOMAIN v' : Active(v'[m]) /\ m \in X}
    BY <1>7
  <2>2. Ran' = {Entry(v'[j]) : j \in {m \in DueSlots' : Visited(m)'}}
    BY DEF Ran, Entries
  <2>3. X \in SUBSET Held
    BY DueAreHeld
  <2>4. Ran = Entries(X)
    BY DEF Ran
  <2> HIDE DEF X, x
  <2> QED BY <1>4, <2>1, <2>2, <2>3, <2>4
<1>10. Phase' = Phase /\ Busy' = Busy
  BY <1>1 DEF Phase, Busy
<1>11. Abstract!MayRequest
  <2>1. pc = "call" => Busy # NoTask
    BY BusyIs DEF RInv, IInv, RunningKnown, InCall
  <2>2. pc # "call" => Phase # "update"
    BY <1>1, Phases DEF MayRequest, Idle, InCall, Over
  <2> QED BY <2>1, <2>2 DEF Abstract!MayRequest
<1>12. x \in Pending
  BY <1>1, DueAreHeld DEF Entries
<1> HIDE DEF x
<1>13. Abstract!Cancel
  BY <1>1, <1>6, <1>8, <1>9, <1>10, <1>11, <1>12 DEF Abstract!Cancel
<1> QED BY <1>13 DEF Abstract!Next

(* A step that leaves the vector alone. *)
LEMMA SamePending == UNCHANGED v => Pending' = Pending
BY DEF Pending, Entries, Active

LEMMA TickStep == ASSUME RInv, Tick PROVE Abstract!Next
<1>1. /\ UNCHANGED v /\ pc = "top" /\ pc' = "input"
      /\ now \in Nat /\ frame \in Nat /\ now <= MaxTime /\ frame <= MaxFrame
      /\ now' \in {now, IF now < MaxTime THEN now + 1 ELSE now}
      /\ frame' = IF frame < MaxFrame THEN frame + 1 ELSE frame
  BY DEF RInv, IInv, TypeOK, Timely, Tick, slotVars
<1>2. now' \in now..MaxTime /\ frame' \in frame..MaxFrame
  BY <1>1, ScheduleAssumption
<1>3. Phase = "idle" /\ Phase' = "idle"
  BY <1>1, Phases DEF Idle
<1>4. UNCHANGED <<Pending, Todo, Ran, Busy>>
  BY <1>1, SamePending, Outside, BusyIs DEF Walking
<1>5. Abstract!Tick
  BY <1>2, <1>3, <1>4 DEF Abstract!Tick
<1> QED BY <1>5 DEF Abstract!Next

LEMMA UpdateBeginStep == ASSUME RInv, UpdateBegin PROVE Abstract!Next
<1>1. /\ UNCHANGED <<v, now, frame>> /\ pc = "input" /\ pc' = "exec"
      /\ i' = 1 /\ cur_gen' = cur_gen + 1
      /\ cur_gen \in Nat /\ DOMAIN v = 1..Len(v) /\ Len(v) \in Nat
      /\ \A k \in Held : v[k].gen \in Nat /\ v[k].gen <= cur_gen
  BY Vectors DEF RInv, IInv, TypeOK, Timely, UpdateBegin, slotVars, Slot, Held
<1>2. Phase = "idle" /\ Phase' = "update"
  BY <1>1, Phases DEF Idle, Walking
<1>3. UNCHANGED <<Pending, Busy>> /\ Ran = {}
  BY <1>1, SamePending, Outside, BusyIs DEF Walking
<1>4. \A k \in DOMAIN v : ~Visited(k)'
  BY <1>1 DEF Visited
<1>5. DueSlots' = {k \in Held : v[k].time <= now /\ v[k].frame <= frame}
  <2>1. DueSlots' = {k \in DOMAIN v : Due(v[k])'}
    BY <1>1 DEF DueSlots, Walking, Due, Active
  <2>2. \A k \in DOMAIN v : Due(v[k])' <=>
            /\ Active(v[k]) /\ v[k].gen < cur_gen + 1
            /\ v[k].time <= now /\ v[k].frame <= frame
    BY <1>1 DEF Due, Active
  <2>3. \A k \in Held : v[k].gen < cur_gen + 1
    BY <1>1
  <2> QED BY <2>1, <2>2, <2>3 DEF Held
<1>6. Ran' = {}
  <2>1. Ran' = {Entry(v'[k]) : k \in {m \in DueSlots' : Visited(m)'}}
    BY DEF Ran, Entries
  <2>2. {m \in DueSlots' : Visited(m)'} = {}
    BY <1>4, <1>5 DEF Held
  <2> QED BY <2>1, <2>2
<1>7. Todo' = {e \in Pending : e.time <= now /\ e.frame <= frame}
  <2>1. Todo' = {Entry(v'[k]) : k \in {m \in DueSlots' : ~Visited(m)'}}
    BY DEF Todo, Entries
  <2>2. {m \in DueSlots' : ~Visited(m)'} =
            {k \in Held : v[k].time <= now /\ v[k].frame <= frame}
    BY <1>4, <1>5 DEF Held
  <2>3. \A k \in Held : Entry(v[k]).time = v[k].time
                        /\ Entry(v[k]).frame = v[k].frame
    BY DEF Entry
  <2>4. Pending = {Entry(v[k]) : k \in Held}
    BY DueAreHeld DEF Entries
  <2> QED BY <1>1, <2>1, <2>2, <2>3, <2>4
<1>8. Abstract!Begin
  BY <1>1, <1>2, <1>3, <1>6, <1>7 DEF Abstract!Begin
<1> QED BY <1>8 DEF Abstract!Next

(* The walk goes past slots that are not due, and to its end. *)
LEMMA WalkStutters ==
    ASSUME RInv, ExecSkip \/ ExecEnd
    PROVE  Stutters
<1>1. /\ UNCHANGED <<v, cur_gen, now, frame>>
      /\ pc = "exec" /\ pc' \in {"exec", "destroy"}
      /\ i \in Nat /\ i >= 1 /\ DOMAIN v = 1..Len(v) /\ Len(v) \in Nat
  BY Vectors DEF RInv, IInv, TypeOK, Timely, ExecSkip, ExecEnd, slotVars
<1>2. DueSlots' = DueSlots
  BY <1>1 DEF DueSlots, Due, Active, Walking
<1>3. \A k \in DueSlots : Visited(k)' <=> Visited(k)
  <2>1. CASE ExecSkip
    <3>1. i' = i + 1 /\ pc' = "exec" /\ i \notin DueSlots
      BY <2>1 DEF ExecSkip, DueSlots
    <3>2. \A k \in DueSlots : k \in Nat
      BY <1>1 DEF DueSlots
    <3> QED BY <1>1, <3>1, <3>2 DEF Visited
  <2>2. CASE ExecEnd
    <3>1. pc' = "destroy" /\ \A k \in DueSlots : k < i
      BY <1>1, <2>2 DEF ExecEnd, DueSlots
    <3> QED BY <1>1, <3>1 DEF Visited
  <2> QED BY <2>1, <2>2
<1>4. Todo' = Todo /\ Ran' = Ran
  <2>1. {m \in DueSlots' : ~Visited(m)'} = {m \in DueSlots : ~Visited(m)}
    BY <1>2, <1>3
  <2>2. {m \in DueSlots' : Visited(m)'} = {m \in DueSlots : Visited(m)}
    BY <1>2, <1>3
  <2> QED BY <1>1, <2>1, <2>2 DEF Todo, Ran, Entries
<1>5. UNCHANGED <<Phase, Pending, Busy>>
  BY <1>1, Phases, SamePending, BusyIs DEF Walking
<1> QED BY <1>1, <1>4, <1>5 DEF Stutters

LEMMA ExecCallStep == ASSUME RInv, ExecCall PROVE Abstract!Next
<1>1. /\ UNCHANGED <<v, cur_gen, now, frame, i>>
      /\ pc = "exec" /\ pc' = "call" /\ i \in Nat
      /\ running'.f = v[i].f /\ i \in DueSlots /\ IInv
  BY DEF RInv, IInv, TypeOK, ExecCall, slotVars, DueSlots, Walking
<1>2. DueSlots' = DueSlots
  BY <1>1 DEF DueSlots, Due, Active, Walking
<1>3. ASSUME NEW k \in DueSlots
      PROVE  Visited(k)' <=> Visited(k) \/ k = i
  BY <1>1 DEF Visited
<1>4. ~Visited(i)
  BY <1>1 DEF Visited
<1> DEFINE x == Entry(v[i])
           X == {m \in DueSlots : ~Visited(m)}
           Z == {m \in DueSlots : Visited(m)}
<1>5. {i} \in SUBSET Held /\ X \in SUBSET Held /\ i \in X
  BY <1>1, <1>4, DueAreHeld
<1>6. Todo' = Todo \ {x}
  <2>1. {m \in DueSlots' : ~Visited(m)'} = X \ {i}
    BY <1>2, <1>3
  <2>2. Todo' = {Entry(v'[k]) : k \in {m \in DueSlots' : ~Visited(m)'}}
    BY DEF Todo, Entries
  <2>3. Todo = Entries(X)
    BY DEF Todo
  <2> HIDE DEF X
  <2>4. Entries(X \ {i}) = Entries(X) \ Entries({i})
    BY <1>1, <1>5, EntriesMinus
  <2>5. Entries(X \ {i}) = {Entry(v[k]) : k \in X \ {i}}
    BY DEF Entries
  <2>6. Entries({i}) = {x}
    BY DEF Entries
  <2> QED BY <1>1, <2>1, <2>2, <2>3, <2>4, <2>5, <2>6
<1>7. Ran' = Ran \cup {x}
  <2>1. {m \in DueSlots' : Visited(m)'} = Z \cup {i}
    BY <1>1, <1>2, <1>3
  <2>2. Ran' = {Entry(v'[k]) : k \in {m \in DueSlots' : Visited(m)'}}
    BY DEF Ran, Entries
  <2>3. Ran = {Entry(v[k]) : k \in Z}
    BY DEF Ran, Entries
  <2> HIDE DEF Z
  <2>4. {Entry(v[k]) : k \in Z \cup {i}} = {Entry(v[k]) : k \in Z} \cup {Entry(v[i])}
    OBVIOUS
  <2> QED BY <1>1, <2>1, <2>2, <2>3, <2>4
<1>8. x \in Todo /\ x.f = v[i].f
  BY <1>5 DEF Todo, Entries, Entry
<1>9. /\ Phase = "update" /\ Phase' = "update" /\ Pending' = Pending
      /\ Busy = NoTask /\ Busy' = v[i].f
  BY <1>1, Phases, SamePending, BusyIs DEF Walking
<1> HIDE DEF x
<1>10. Abstract!Call
  BY <1>1, <1>6, <1>7, <1>8, <1>9 DEF Abstract!Call
<1> QED BY <1>10 DEF Abstract!Next

LEMMA CallReturnStep ==
    ASSUME RInv, NEW ok \in BOOLEAN, CallReturn(ok)
    PROVE  Abstract!Next
<1>1. /\ UNCHANGED <<v, cur_gen, now, frame>> /\ pc = "call" /\ i \in Nat
      /\ \/ pc' = "exec" /\ i' = i + 1
         \/ pc' = "failed"
      /\ DOMAIN v = 1..Len(v) /\ Len(v) \in Nat
  BY Vectors DEF RInv, IInv, TypeOK, CallReturn, slotVars
<1>2. Pending' = Pending
  BY <1>1, SamePending
<1>3. CASE pc' = "failed"
  <2>1. Pending' = Pending \ {} /\ {} \in SUBSET {e \in Ran : ~e.hb}
    BY <1>2
  <2>2. pc \notin Over /\ pc' \in Over
    BY <1>1, <1>3 DEF Over
  <2> QED BY <1>1, <2>1, <2>2, StopStep
<1>4. CASE pc' = "exec" /\ i' = i + 1
  <2>1. DueSlots' = DueSlots
    BY <1>1, <1>4 DEF DueSlots, Due, Active, Walking
  <2>2. \A k \in DueSlots : Visited(k)' <=> Visited(k)
    <3>1. \A k \in DueSlots : k \in Nat
      BY <1>1 DEF DueSlots
    <3> QED BY <1>1, <1>4, <3>1 DEF Visited
  <2>3. Todo' = Todo /\ Ran' = Ran
    <3>1. {m \in DueSlots' : ~Visited(m)'} = {m \in DueSlots : ~Visited(m)}
      BY <2>1, <2>2
    <3>2. {m \in DueSlots' : Visited(m)'} = {m \in DueSlots : Visited(m)}
      BY <2>1, <2>2
    <3> QED BY <1>1, <3>1, <3>2 DEF Todo, Ran, Entries
  <2>4. Phase' = Phase /\ Busy # NoTask /\ Busy' = NoTask
    BY <1>1, <1>4, Phases, BusyIs
    DEF Walking, RInv, IInv, RunningKnown, InCall
  <2>5. Abstract!Return
    BY <1>1, <1>2, <2>3, <2>4 DEF Abstract!Return
  <2> QED BY <2>5 DEF Abstract!Next
<1> QED BY <1>1, <1>3, <1>4

(* What is destroyed at the end of the walk was executed.                  *)
LEMMA SweptEntries ==
    ASSUME RInv, pc = "destroy",
           NEW D, D \subseteq {k \in DOMAIN v : Doomed(v[k])}, Loses(v, v', D)
    PROVE  /\ Pending' = Pending \ Entries(D)
           /\ Entries(D) \subseteq {e \in Ran : ~e.hb}
<1>1. IInv /\ D \in SUBSET Held /\ Held \in SUBSET Held
  BY DEF RInv, Doomed, Due, Held
<1>2. Pending' = Pending \ Entries(D)
  <2>1. \A j \in DOMAIN v' : Active(v'[j]) => j \in Held
    BY <1>1, Vectors, LenProperties DEF Loses, Held, IInv
  <2>2. {m \in DOMAIN v' : Active(v'[m])} =
            {m \in DOMAIN v' : Active(v'[m]) /\ m \in Held}
    BY <2>1
  <2>3. Pending' = {Entry(v'[j]) : j \in {m \in DOMAIN v' : Active(v'[m])}}
    BY DEF Pending, Entries, Active
  <2>4. {Entry(v'[j]) : j \in {m \in DOMAIN v' : Active(v'[m]) /\ m \in Held}}
            = Entries(Held \ D)
    BY <1>1, LosesEntries
  <2>5. Entries(Held \ D) = Entries(Held) \ Entries(D)
    BY <1>1, EntriesMinus
  <2> QED BY <2>2, <2>3, <2>4, <2>5, DueAreHeld
<1>3. \A k \in D : k \in DueSlots /\ Visited(k) /\ ~Entry(v[k]).hb
  BY DEF Doomed, DueSlots, Visited, Entry, Walking
<1>4. Entries(D) \subseteq {e \in Ran : ~e.hb}
  BY <1>3 DEF Ran, Entries
<1> QED BY <1>2, <1>4

LEMMA UpdateEndStep == ASSUME RInv, UpdateEnd PROVE Abstract!Next
<1>1. /\ pc = "destroy" /\ pc' = "top" /\ UNCHANGED <<now, frame>>
      /\ v \in Seq(Slot) /\ DOMAIN v = 1..Len(v)
  BY Vectors DEF RInv, IInv, TypeOK, UpdateEnd
<1> DEFINE D == {k \in 1..Len(v) : Doomed(v[k])}
<1>2. Loses(v, v', D)
  BY <1>1, SweepLoses DEF UpdateEnd
<1>3. Entries(D) = {e \in Ran : ~e.hb}
  <2>1. Entries(D) \subseteq {e \in Ran : ~e.hb}
    BY <1>1, <1>2, SweptEntries
  <2>2. ASSUME NEW k \in DueSlots, ~Entry(v[k]).hb
        PROVE  k \in D
    BY <1>1, <2>2 DEF DueSlots, Walking, Doomed, Entry
  <2>3. {e \in Ran : ~e.hb} \subseteq Entries(D)
    BY <2>2 DEF Ran, Entries
  <2> QED BY <2>1, <2>3
<1>4. Pending' = Pending \ {e \in Ran : ~e.hb}
  BY <1>1, <1>2, <1>3, SweptEntries
<1>5. Todo = {}
  BY <1>1 DEF Todo, Entries, Visited
<1>6. Todo' = {} /\ Ran' = {}
  BY <1>1, Outside DEF Walking
<1>7. Phase = "update" /\ Phase' = "idle" /\ Busy = NoTask /\ Busy' = NoTask
  BY <1>1, Phases, BusyIs DEF Idle, Walking
<1>8. Abstract!End
  BY <1>1, <1>4, <1>5, <1>6, <1>7 DEF Abstract!End
<1> QED BY <1>8 DEF Abstract!Next

LEMMA UpdateEndFailsStep == ASSUME RInv, UpdateEndFails PROVE Abstract!Next
<1>1. /\ pc = "destroy" /\ pc' = "failed" /\ UNCHANGED <<now, frame>>
      /\ v \in Seq(Slot) /\ DOMAIN v = 1..Len(v) /\ Len(v) \in Nat
  BY Vectors DEF RInv, IInv, TypeOK, UpdateEndFails
<1>2. PICK k \in 1..Len(v) :
        v' = [j \in DOMAIN v |-> IF j < k THEN Swept(v)[j] ELSE v[j]]
  BY <1>1 DEF UpdateEndFails
<1> DEFINE D == {j \in 1..(k - 1) : Doomed(v[j])}
<1>3. Loses(v, v', D)
  BY <1>1, <1>2, PartialSweepLoses
<1>4. D \subseteq {j \in DOMAIN v : Doomed(v[j])}
  BY <1>1
<1> HIDE DEF D
<1>5. /\ Pending' = Pending \ Entries(D)
      /\ Entries(D) \in SUBSET {e \in Ran : ~e.hb}
  BY <1>1, <1>3, <1>4, SweptEntries
<1>6. pc \notin Over /\ pc' \in Over
  BY <1>1 DEF Over
<1> QED BY <1>1, <1>5, <1>6, StopStep

LEMMA NextStep ==
    ASSUME RInv, [Next]_vars
    PROVE  Abstract!Next \/ Stutters
<1>1. CASE Request
  <2>1. 0 \in 0..MaxTime /\ 0 \in 0..MaxFrame
    BY ScheduleAssumption
  <2>2. ASSUME NEW t \in Tasks, Next_(t) PROVE Abstract!Next
    BY <2>1, <2>2, AddStep DEF Next_
  <2>3. now \in Nat /\ frame \in Nat
    BY DEF RInv, IInv, TypeOK
  <2>4. ASSUME NEW t \in Tasks, At(t) PROVE Abstract!Next
    <3>1. PICK fl \in Flags, tm \in (now + 1)..MaxTime : AddEntry(t, fl, tm, 0)
      BY <2>4 DEF At
    <3>2. tm \in 0..MaxTime
      BY <2>3, ScheduleAssumption
    <3> QED BY <2>1, <3>1, <3>2, AddStep
  <2>5. ASSUME NEW t \in Tasks, Frame(t) PROVE Abstract!Next
    <3>1. PICK fl \in Flags, fr \in (frame + 1)..MaxFrame :
            AddEntry(t, fl, 0, fr)
      BY <2>5 DEF Frame
    <3>2. fr \in 0..MaxFrame
      BY <2>3, ScheduleAssumption
    <3> QED BY <2>1, <3>1, <3>2, AddStep
  <2>6. ASSUME NEW t \in ExitTasks, Atexit(t) PROVE Stutters
    <3>1. UNCHANGED <<v, cur_gen, now, frame, pc, i, running>>
      BY <2>6 DEF Atexit
    <3> QED BY <3>1 DEF Stutters, Phase, Pending, Todo, Ran, Busy, Entries,
                        DueSlots, Due, Active, Visited
  <2>7. ASSUME NEW k \in DOMAIN atexit_v, CancelAtexit(k) PROVE Stutters
    <3>1. UNCHANGED <<v, cur_gen, now, frame, pc, i, running>>
      BY <2>7 DEF CancelAtexit
    <3> QED BY <3>1 DEF Stutters, Phase, Pending, Todo, Ran, Busy, Entries,
                        DueSlots, Due, Active, Visited
  <2>8. ASSUME \/ \E k \in DOMAIN v : CancelFails(k)
               \/ \E k \in DOMAIN atexit_v : CancelAtexitFails(k)
        PROVE  Stutters
    <3>1. UNCHANGED <<v, cur_gen, now, frame, pc, i, running>>
      BY <2>8 DEF CancelFails, CancelAtexitFails, slotVars
    <3> QED BY <3>1 DEF Stutters, Phase, Pending, Todo, Ran, Busy, Entries,
                        DueSlots, Due, Active, Visited
  <2> QED BY <1>1, <2>2, <2>4, <2>5, <2>6, <2>7, <2>8, CancelStep DEF Request
<1>2. CASE ExitBegin
  <2>1. UNCHANGED <<v, now, frame>> /\ pc' \in Over
    BY <1>2 DEF ExitBegin, slotVars, Over
  <2>2. CASE pc = "top"
    <3>1. Pending' = Pending \ {} /\ {} \in SUBSET {e \in Ran : ~e.hb}
      BY <2>1, SamePending
    <3>2. pc \notin Over
      BY <2>2 DEF Over
    <3> QED BY <2>1, <3>1, <3>2, StopStep
  <2>3. CASE pc = "failed"
    BY <2>1, <2>3, OverStutters DEF Over
  <2> QED BY <1>2, <2>2, <2>3 DEF ExitBegin
<1>3. CASE \/ ExitSkip \/ ExitCall \/ ExitExecEnd \/ ExitEnd
           \/ \E ok \in BOOLEAN : ExitReturn(ok)
  <2>1. UNCHANGED <<v, now, frame>> /\ pc \in Over /\ pc' \in Over
    BY <1>3 DEF ExitSkip, ExitCall, ExitExecEnd, ExitEnd, ExitReturn,
                slotVars, Over
  <2> QED BY <2>1, OverStutters
<1>4. CASE Advance
  BY <1>2, <1>3, <1>4, TickStep, UpdateBeginStep, WalkStutters, ExecCallStep,
     CallReturnStep, UpdateEndStep, UpdateEndFailsStep DEF Advance
<1>5. CASE Stopped \/ UNCHANGED vars
  BY <1>5 DEF Stopped, vars, Stutters, Phase, Pending, Todo, Ran, Busy,
              Entries, DueSlots, Due, Active, Visited
<1> QED BY <1>1, <1>2, <1>4, <1>5 DEF Next

LEMMA AbstractInit == Init => Abstract!Init
<1> SUFFICES ASSUME Init PROVE Abstract!Init
  OBVIOUS
<1>1. v = <<>> /\ pc = "top" /\ now = 0 /\ frame = 0
  BY DEF Init
<1>2. Pending = {}
  BY <1>1 DEF Pending, Entries
<1>3. Phase = "idle" /\ Todo = {} /\ Ran = {} /\ Busy = NoTask
  BY <1>1, Phases, Outside, BusyIs DEF Idle, Walking
<1> QED BY <1>1, <1>2, <1>3 DEF Abstract!Init

(* The slots, their indices and their generations are a set of tasks: each *)
(* update executes those that were due when it began, each once, and none  *)
(* that was added to it or cancelled meanwhile, for any number of tasks.   *)
THEOREM IsSetOfTasks == Spec => AbstractSpec
<1>1. Init => RInv /\ Abstract!Init
  BY InitInv, InitTimely, AbstractInit DEF RInv
<1>2. RInv /\ [Next]_vars => [Abstract!Next]_(Abstract!vars)
  BY NextStep DEF Stutters, Abstract!vars
<1>3. RInv /\ [Next]_vars => RInv'
  BY NextRInv
<1> QED BY <1>1, <1>2, <1>3, PTL DEF Spec, AbstractSpec, Abstract!Spec
=============================================================================
