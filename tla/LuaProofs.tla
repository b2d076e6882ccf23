----------------------------- MODULE LuaProofs ------------------------------
(***************************************************************************)
(* Proofs about the binding of Lua (Lua.tla), for any tables, keys, user   *)
(* data, objects, paths and depths of the stack, and about the statistics  *)
(* of its memory (LuaMemory.tla), for any numbers and sizes of blocks.     *)
(***************************************************************************)
EXTENDS LuaBinding, SequenceTheorems, FunctionTheorems, FiniteSetTheorems,
    WellFoundedInduction, TLAPS

-----------------------------------------------------------------------------
(* Numbers and sequences.                                                  *)

LEMMA SetInduction ==
    ASSUME NEW S, 0 \in S, \A n \in Nat : n \in S => n + 1 \in S
    PROVE  \A n \in Nat : n \in S
<1> DEFINE R == {p \in Nat \X Nat : p[1] < p[2]}
           T == Nat \ S
<1>1. IsWellFoundedOn(R, Nat)
  BY NatLessThanWellFounded, Zenon DEF OpToRel
<1>2. ASSUME T # {} PROVE FALSE
  <2>1. PICK x \in T : \A y \in T : <<y, x>> \notin R
    <3> HIDE DEF R
    <3> QED BY <1>1, <1>2, WFMin, T \subseteq Nat, Zenon
  <2>2. x # 0 /\ x \in Nat
    OBVIOUS
  <2>3. x - 1 \in Nat /\ x - 1 < x /\ (x - 1) + 1 = x
    BY <2>2
  <2>4. x - 1 \in S
    BY <2>1, <2>2, <2>3
  <2> QED BY <2>2, <2>3, <2>4
<1> QED BY <1>2

(* Pushing values and popping as many. *)
LEMMA Popped ==
    ASSUME NEW S, NEW s \in Seq(S), NEW t \in Seq(S)
    PROVE  Pop(s \o t, Len(t)) = s
<1> DEFINE u == s \o t
           m == Len(s)
           n == Len(t)
<1>1. u \in Seq(S) /\ Len(u) = m + n /\ m \in Nat /\ n \in Nat
      /\ \A i \in 1..m + n : u[i] = IF i <= m THEN s[i] ELSE t[i - m]
  BY ConcatProperties, LenProperties
<1>2. \A i \in 1..m : s[i] \in S
  BY ElementOfSeq
<1>3. Pop(u, n) = SubSeq(u, 1, m)
  BY <1>1 DEF Pop
<1> HIDE DEF u, n
<1>4. \A i \in 1..m : u[i] = s[i]
  BY <1>1
<1>5. \A i \in 1..m : u[i] \in S
  BY <1>2, <1>4
<1>6. /\ SubSeq(u, 1, m) \in Seq(S)
      /\ Len(SubSeq(u, 1, m)) = IF 1 <= m THEN m - 1 + 1 ELSE 0
      /\ \A i \in 1..m - 1 + 1 : SubSeq(u, 1, m)[i] = u[1 + i - 1]
  BY <1>1, <1>5, SubSeqProperties
<1>7. Len(SubSeq(u, 1, m)) = m
  BY <1>1, <1>6
<1>8. \A i \in 1..m : SubSeq(u, 1, m)[i] = s[i]
  BY <1>1, <1>4, <1>6
<1>9. SubSeq(u, 1, m) = s
  <2> HIDE DEF m
  <2> QED BY <1>6, <1>7, <1>8, SeqEqual DEF m
<1> QED BY <1>3, <1>9 DEF u, n

LEMMA PushPop ==
    ASSUME NEW S, NEW s \in Seq(S), NEW x \in S
    PROVE  Pop(Append(s, x), 1) = s
<1>1. <<x>> \in Seq(S) /\ Len(<<x>>) = 1 /\ Append(s, x) = s \o <<x>>
  BY AppendIsConcat
<1> QED BY <1>1, Popped

LEMMA PushesPop ==
    ASSUME NEW S, NEW s \in Seq(S), NEW x \in S, NEW y \in S
    PROVE  /\ Append(Append(s, x), y) = s \o <<x, y>>
           /\ Pop(Append(Append(s, x), y), 2) = s
<1>1. <<x, y>> \in Seq(S) /\ Len(<<x, y>>) = 2
  OBVIOUS
<1>2. Append(Append(s, x), y) = s \o <<x, y>>
  BY AppendIsConcat
<1> QED BY <1>1, <1>2, Popped

LEMMA Single ==
    ASSUME NEW S, NEW s \in Seq(S), NEW i \in 1..Len(s)
    PROVE  SubSeq(s, i, i) = <<s[i]>>
<1> DEFINE a == SubSeq(s, i, i)
           b == <<s[i]>>
<1>1. i \in Int /\ Len(s) \in Nat /\ \A j \in i..i : j = i
  BY LenProperties
<1>2. s[i] \in S
  BY ElementOfSeq
<1>3. \A j \in i..i : s[j] \in S
  BY <1>1, <1>2
<1>4. /\ a \in Seq(S) /\ Len(a) = IF i <= i THEN i - i + 1 ELSE 0
      /\ \A j \in 1..i - i + 1 : a[j] = s[i + j - 1]
  BY <1>1, <1>3, SubSeqProperties
<1>5. b \in Seq(S) /\ Len(b) = 1 /\ b[1] = s[i]
  BY <1>2
<1> HIDE DEF a, b
<1>6. Len(a) = 1 /\ 1 \in 1..i - i + 1 /\ i + 1 - 1 = i
  BY <1>1, <1>4
<1>7. a[1] = s[i]
  BY <1>4, <1>6
<1>8. \A j \in 1..Len(a) : a[j] = b[j]
  <2>1. \A j \in 1..1 : j = 1
    OBVIOUS
  <2> QED BY <1>5, <1>6, <1>7, <2>1
<1>9. a = b
  BY <1>4, <1>5, <1>6, <1>8, SeqEqual
<1> QED BY <1>9 DEF a, b

LEMMA Removed ==
    ASSUME NEW S, NEW s \in Seq(S), NEW x \in S, NEW y \in S
    PROVE  /\ RemoveAt(Append(s, x), Len(s) + 1) = s
           /\ RemoveAt(Append(Append(s, x), y), Len(s) + 1) = Append(s, y)
<1> DEFINE n == Len(s)
<1>0. n \in Nat
  BY LenProperties
<1>1. RemoveAt(Append(s, x), n + 1) = s
  <2> DEFINE u == Append(s, x)
  <2>1. u \in Seq(S) /\ Len(u) = n + 1
    BY AppendProperties
  <2>2. RemoveAt(u, n + 1) = SubSeq(u, 1, (n + 1) - 1) \o SubSeq(u, (n + 1) + 1, n + 1)
    BY <2>1 DEF RemoveAt
  <2>3. Pop(u, 1) = s
    BY PushPop
  <2>4. SubSeq(u, 1, (n + 1) - 1) = s
    BY <2>1, <2>3 DEF Pop
  <2> HIDE DEF u, n
  <2>5. SubSeq(u, (n + 1) + 1, n + 1) = <<>>
    BY <1>0, SubSeqEmpty
  <2> QED BY <2>2, <2>4, <2>5, ConcatEmptySeq DEF u
<1>2. RemoveAt(Append(Append(s, x), y), n + 1) = Append(s, y)
  <2> DEFINE t == <<x, y>>
             u == s \o t
  <2>1. Append(Append(s, x), y) = u /\ Pop(u, 2) = s
    <3>1. Append(Append(s, x), y) = s \o <<x, y>> /\ Pop(Append(Append(s, x), y), 2) = s
      BY PushesPop
    <3> QED BY <3>1
  <2>2. t \in Seq(S) /\ Len(t) = 2 /\ t[2] = y
    OBVIOUS
  <2>3. u \in Seq(S) /\ Len(u) = n + 2
    BY <2>2, ConcatProperties
  <2>4. RemoveAt(u, n + 1) = SubSeq(u, 1, (n + 1) - 1) \o SubSeq(u, (n + 1) + 1, n + 2)
    BY <2>3 DEF RemoveAt
  <2>5. SubSeq(u, 1, (n + 1) - 1) = s
    <3> HIDE DEF u, n
    <3>1. (n + 1) - 1 = (n + 2) - 2
      BY <1>0
    <3> QED BY <2>1, <2>3, <3>1 DEF Pop
  <2>6. SubSeq(u, (n + 1) + 1, n + 2) = <<y>>
    <3> DEFINE m == n + 2
    <3>1. m \in 1..Len(u) /\ (n + 1) + 1 = m
      BY <1>0, <2>3
    <3>2. u[m] = y
      <4> HIDE DEF t
      <4>1. u[m] = IF m <= Len(s) THEN s[m] ELSE t[m - Len(s)]
        BY <2>2, <2>3, <3>1, ConcatProperties
      <4>2. ~(m <= Len(s)) /\ m - Len(s) = 2
        BY <1>0
      <4> QED BY <2>2, <4>1, <4>2
    <3> HIDE DEF m, u
    <3>3. SubSeq(u, m, m) = <<y>>
      BY <2>3, <3>1, <3>2, Single
    <3> QED BY <3>1, <3>3 DEF m
  <2> QED BY <2>1, <2>4, <2>5, <2>6, AppendIsConcat
<1> QED BY <1>1, <1>2
-----------------------------------------------------------------------------
(* Recursive functions: that they exist.                                   *)

(* The sums of the first of some numbers. *)
Sums(g, f, n) ==
    g = [k \in 0..n |-> IF k = 0 THEN 0 ELSE g[k - 1] + f[k]]

LEMMA SumsAt ==
    ASSUME NEW g, NEW f, NEW n \in Nat, Sums(g, f, n), NEW k \in 0..n
    PROVE  /\ k = 0 => g[k] = 0
           /\ k # 0 => g[k] = g[k - 1] + f[k]
<1> DEFINE e(i) == IF i = 0 THEN 0 ELSE g[i - 1] + f[i]
<1>1. g = [i \in 0..n |-> e(i)]
  BY Zenon DEF Sums
<1>2. g[k] = e(k)
  <2> HIDE DEF e
  <2> QED BY <1>1, Zenon
<1> QED BY <1>2, Zenon

LEMMA SumsExists ==
    ASSUME NEW f, NEW m \in Nat
    PROVE  \E g : Sums(g, f, m)
<1> DEFINE T == {n \in Nat : \E g : Sums(g, f, n)}
<1>1. 0 \in T
  <2> DEFINE h == [k \in 0..0 |-> 0]
  <2>1. \A k \in 0..0 : k = 0
    OBVIOUS
  <2>2. [k \in 0..0 |-> IF k = 0 THEN 0 ELSE h[k - 1] + f[k]] = h
    BY <2>1
  <2>3. Sums(h, f, 0)
    BY <2>2, Zenon DEF Sums
  <2> QED BY <2>3
<1>2. ASSUME NEW n \in Nat, n \in T PROVE n + 1 \in T
  <2>1. PICK g : Sums(g, f, n)
    BY <1>2
  <2> DEFINE last == g[n] + f[n + 1]
             h == [k \in 0..(n + 1) |-> IF k <= n THEN g[k] ELSE last]
  <2> HIDE DEF last
  <2>2. ASSUME NEW k \in 0..(n + 1)
        PROVE  h[k] = IF k = 0 THEN 0 ELSE h[k - 1] + f[k]
    <3>1. CASE k <= n
      <4>1. h[k] = g[k] /\ (k # 0 => h[k - 1] = g[k - 1])
        BY <3>1
      <4>2. k \in 0..n
        BY <3>1
      <4>3. /\ k = 0 => g[k] = 0
            /\ k # 0 => g[k] = g[k - 1] + f[k]
        BY <2>1, <4>2, SumsAt, Zenon
      <4> HIDE DEF h
      <4> QED BY <4>1, <4>3, Zenon
    <3>2. CASE k = n + 1
      <4>1. h[k] = last /\ h[k - 1] = g[n] /\ k # 0
        BY <3>2
      <4> HIDE DEF h
      <4>2. last = h[k - 1] + f[k]
        BY <3>2, <4>1, Zenon DEF last
      <4> QED BY <4>1, <4>2, Zenon
    <3> QED BY <3>1, <3>2
  <2>3. h = [k \in 0..(n + 1) |-> IF k = 0 THEN 0 ELSE h[k - 1] + f[k]]
    <3> DEFINE e(k) == IF k = 0 THEN 0 ELSE h[k - 1] + f[k]
    <3>1. h = [k \in 0..(n + 1) |-> h[k]]
      OBVIOUS
    <3>2. \A k \in 0..(n + 1) : h[k] = e(k)
      BY <2>2, Zenon
    <3> HIDE DEF h, e
    <3>3. h = [k \in 0..(n + 1) |-> e(k)]
      BY <3>1, <3>2, Zenon
    <3> QED BY <3>3, Zenon DEF e
  <2>4. Sums(h, f, n + 1)
    <3> HIDE DEF h
    <3> QED BY <2>3, Zenon DEF Sums
  <2> QED BY <2>4
<1> HIDE DEF T
<1>3. m \in T
  BY <1>1, <1>2, SetInduction
<1> QED BY <1>3 DEF T

(* Walk() up to the key n. *)
Walks(g, s, t, ks, n) ==
    g = [k \in 0..n |-> IF k = 0 THEN s ELSE Fetch(g[k - 1], IF k = 1 THEN t ELSE Top, ks[k])]

LEMMA WalksAt ==
    ASSUME NEW g, NEW s, NEW t, NEW ks, NEW n \in Nat, Walks(g, s, t, ks, n), NEW k \in 0..n
    PROVE  /\ k = 0 => g[k] = s
           /\ k # 0 => g[k] = Fetch(g[k - 1], IF k = 1 THEN t ELSE Top, ks[k])
<1> DEFINE e(i) == IF i = 0 THEN s ELSE Fetch(g[i - 1], IF i = 1 THEN t ELSE Top, ks[i])
<1>1. g = [i \in 0..n |-> e(i)]
  BY Zenon DEF Walks
<1>2. g[k] = e(k)
  <2> HIDE DEF e
  <2> QED BY <1>1, Zenon
<1> QED BY <1>2, Zenon

LEMMA WalksExists ==
    ASSUME NEW s, NEW t, NEW ks, NEW m \in Nat
    PROVE  \E g : Walks(g, s, t, ks, m)
<1> DEFINE T == {n \in Nat : \E g : Walks(g, s, t, ks, n)}
<1>1. 0 \in T
  <2> DEFINE h == [k \in 0..0 |-> s]
  <2>1. \A k \in 0..0 : k = 0
    OBVIOUS
  <2>2. [k \in 0..0 |-> IF k = 0 THEN s ELSE Fetch(h[k - 1], IF k = 1 THEN t ELSE Top, ks[k])] = h
    BY <2>1
  <2>3. Walks(h, s, t, ks, 0)
    BY <2>2, Zenon DEF Walks
  <2> QED BY <2>3
<1>2. ASSUME NEW n \in Nat, n \in T PROVE n + 1 \in T
  <2>1. PICK g : Walks(g, s, t, ks, n)
    BY <1>2
  <2> DEFINE last == Fetch(g[n], IF n + 1 = 1 THEN t ELSE Top, ks[n + 1])
             h == [k \in 0..(n + 1) |-> IF k <= n THEN g[k] ELSE last]
  <2> HIDE DEF last
  <2>2. ASSUME NEW k \in 0..(n + 1)
        PROVE  h[k] = IF k = 0 THEN s ELSE Fetch(h[k - 1], IF k = 1 THEN t ELSE Top, ks[k])
    <3>1. CASE k <= n
      <4>1. h[k] = g[k] /\ (k # 0 => h[k - 1] = g[k - 1])
        BY <3>1
      <4>2. k \in 0..n
        BY <3>1
      <4>3. /\ k = 0 => g[k] = s
            /\ k # 0 => g[k] = Fetch(g[k - 1], IF k = 1 THEN t ELSE Top, ks[k])
        BY <2>1, <4>2, WalksAt
      <4> HIDE DEF h
      <4> QED BY <4>1, <4>3, Zenon
    <3>2. CASE k = n + 1
      <4>1. h[k] = last /\ h[k - 1] = g[n] /\ k # 0
        BY <3>2
      <4> HIDE DEF h
      <4>2. last = Fetch(h[k - 1], IF k = 1 THEN t ELSE Top, ks[k])
        BY <3>2, <4>1, Zenon DEF last
      <4> QED BY <4>1, <4>2, Zenon
    <3> QED BY <3>1, <3>2
  <2>3. h = [k \in 0..(n + 1) |-> IF k = 0 THEN s ELSE Fetch(h[k - 1], IF k = 1 THEN t ELSE Top, ks[k])]
    <3> DEFINE e(k) == IF k = 0 THEN s ELSE Fetch(h[k - 1], IF k = 1 THEN t ELSE Top, ks[k])
    <3>1. h = [k \in 0..(n + 1) |-> h[k]]
      OBVIOUS
    <3>2. \A k \in 0..(n + 1) : h[k] = e(k)
      BY <2>2, Zenon
    <3> HIDE DEF h, e
    <3>3. h = [k \in 0..(n + 1) |-> e(k)]
      BY <3>1, <3>2, Zenon
    <3> QED BY <3>3, Zenon DEF e
  <2>4. Walks(h, s, t, ks, n + 1)
    <3> HIDE DEF h
    <3> QED BY <2>3, Zenon DEF Walks
  <2> QED BY <2>4
<1> HIDE DEF T
<1>3. m \in T
  BY <1>1, <1>2, SetInduction
<1> QED BY <1>3 DEF T

(* Along() up to the key n. *)
Goes(g, v, ks, n) ==
    g = [k \in 0..n |-> IF k = 0 THEN v ELSE heap[g[k - 1]][ks[k]]]

LEMMA GoesAt ==
    ASSUME NEW g, NEW v, NEW ks, NEW n \in Nat, Goes(g, v, ks, n), NEW k \in 0..n
    PROVE  /\ k = 0 => g[k] = v
           /\ k # 0 => g[k] = heap[g[k - 1]][ks[k]]
<1> DEFINE e(i) == IF i = 0 THEN v ELSE heap[g[i - 1]][ks[i]]
<1>1. g = [i \in 0..n |-> e(i)]
  BY Zenon DEF Goes
<1>2. g[k] = e(k)
  <2> HIDE DEF e
  <2> QED BY <1>1, Zenon
<1> QED BY <1>2, Zenon

LEMMA GoesExists ==
    ASSUME NEW v, NEW ks, NEW m \in Nat
    PROVE  \E g : Goes(g, v, ks, m)
<1> DEFINE T == {n \in Nat : \E g : Goes(g, v, ks, n)}
<1>1. 0 \in T
  <2> DEFINE h == [k \in 0..0 |-> v]
  <2>1. \A k \in 0..0 : k = 0
    OBVIOUS
  <2>2. [k \in 0..0 |-> IF k = 0 THEN v ELSE heap[h[k - 1]][ks[k]]] = h
    BY <2>1
  <2>3. Goes(h, v, ks, 0)
    BY <2>2, Zenon DEF Goes
  <2> QED BY <2>3
<1>2. ASSUME NEW n \in Nat, n \in T PROVE n + 1 \in T
  <2>1. PICK g : Goes(g, v, ks, n)
    BY <1>2
  <2> DEFINE last == heap[g[n]][ks[n + 1]]
             h == [k \in 0..(n + 1) |-> IF k <= n THEN g[k] ELSE last]
  <2> HIDE DEF last
  <2>2. ASSUME NEW k \in 0..(n + 1)
        PROVE  h[k] = IF k = 0 THEN v ELSE heap[h[k - 1]][ks[k]]
    <3>1. CASE k <= n
      <4>1. h[k] = g[k] /\ (k # 0 => h[k - 1] = g[k - 1])
        BY <3>1
      <4>2. k \in 0..n
        BY <3>1
      <4>3. /\ k = 0 => g[k] = v
            /\ k # 0 => g[k] = heap[g[k - 1]][ks[k]]
        BY <2>1, <4>2, GoesAt
      <4> HIDE DEF h
      <4> QED BY <4>1, <4>3, Zenon
    <3>2. CASE k = n + 1
      <4>1. h[k] = last /\ h[k - 1] = g[n] /\ k # 0
        BY <3>2
      <4> HIDE DEF h
      <4>2. last = heap[h[k - 1]][ks[k]]
        BY <3>2, <4>1, Zenon DEF last
      <4> QED BY <4>1, <4>2, Zenon
    <3> QED BY <3>1, <3>2
  <2>3. h = [k \in 0..(n + 1) |-> IF k = 0 THEN v ELSE heap[h[k - 1]][ks[k]]]
    <3> DEFINE e(k) == IF k = 0 THEN v ELSE heap[h[k - 1]][ks[k]]
    <3>1. h = [k \in 0..(n + 1) |-> h[k]]
      OBVIOUS
    <3>2. \A k \in 0..(n + 1) : h[k] = e(k)
      BY <2>2, Zenon
    <3> HIDE DEF h, e
    <3>3. h = [k \in 0..(n + 1) |-> e(k)]
      BY <3>1, <3>2, Zenon
    <3> QED BY <3>3, Zenon DEF e
  <2>4. Goes(h, v, ks, n + 1)
    <3> HIDE DEF h
    <3> QED BY <2>3, Zenon DEF Goes
  <2> QED BY <2>4
<1> HIDE DEF T
<1>3. m \in T
  BY <1>1, <1>2, SetInduction
<1> QED BY <1>3 DEF T

(* What is reached from r in n steps, with the tables of h. *)
Spreads(g, h, r, n) ==
    g = [k \in 0..n |-> IF k = 0 THEN r ELSE Contents(h, g[k - 1])]

LEMMA SpreadsAt ==
    ASSUME NEW g, NEW h, NEW r, NEW n \in Nat, Spreads(g, h, r, n), NEW k \in 0..n
    PROVE  /\ k = 0 => g[k] = r
           /\ k # 0 => g[k] = Contents(h, g[k - 1])
<1> DEFINE e(i) == IF i = 0 THEN r ELSE Contents(h, g[i - 1])
<1>1. g = [i \in 0..n |-> e(i)]
  BY Zenon DEF Spreads
<1>2. g[k] = e(k)
  <2> HIDE DEF e
  <2> QED BY <1>1, Zenon
<1> QED BY <1>2, Zenon

LEMMA SpreadsExists ==
    ASSUME NEW h, NEW r, NEW m \in Nat
    PROVE  \E g : Spreads(g, h, r, m)
<1> DEFINE T == {n \in Nat : \E g : Spreads(g, h, r, n)}
<1>1. 0 \in T
  <2> DEFINE q == [k \in 0..0 |-> r]
  <2>1. \A k \in 0..0 : k = 0
    OBVIOUS
  <2>2. [k \in 0..0 |-> IF k = 0 THEN r ELSE Contents(h, q[k - 1])] = q
    BY <2>1
  <2>3. Spreads(q, h, r, 0)
    BY <2>2, Zenon DEF Spreads
  <2> QED BY <2>3
<1>2. ASSUME NEW n \in Nat, n \in T PROVE n + 1 \in T
  <2>1. PICK g : Spreads(g, h, r, n)
    BY <1>2
  <2> DEFINE last == Contents(h, g[n])
             q == [k \in 0..(n + 1) |-> IF k <= n THEN g[k] ELSE last]
  <2> HIDE DEF last
  <2>2. ASSUME NEW k \in 0..(n + 1)
        PROVE  q[k] = IF k = 0 THEN r ELSE Contents(h, q[k - 1])
    <3>1. CASE k <= n
      <4>1. q[k] = g[k] /\ (k # 0 => q[k - 1] = g[k - 1])
        BY <3>1
      <4>2. k \in 0..n
        BY <3>1
      <4>3. /\ k = 0 => g[k] = r
            /\ k # 0 => g[k] = Contents(h, g[k - 1])
        BY <1>2, <2>1, <4>2, SpreadsAt
      <4> HIDE DEF q
      <4> QED BY <4>1, <4>3, Zenon
    <3>2. CASE k = n + 1
      <4>1. q[k] = last /\ q[k - 1] = g[n] /\ k # 0
        BY <3>2
      <4> HIDE DEF q
      <4>2. last = Contents(h, q[k - 1])
        BY <3>2, <4>1, Zenon DEF last
      <4> QED BY <4>1, <4>2, Zenon
    <3> QED BY <3>1, <3>2
  <2>3. q = [k \in 0..(n + 1) |-> IF k = 0 THEN r ELSE Contents(h, q[k - 1])]
    <3> DEFINE e(k) == IF k = 0 THEN r ELSE Contents(h, q[k - 1])
    <3>1. q = [k \in 0..(n + 1) |-> q[k]]
      OBVIOUS
    <3>2. \A k \in 0..(n + 1) : q[k] = e(k)
      BY <2>2, Zenon
    <3> HIDE DEF q, e
    <3>3. q = [k \in 0..(n + 1) |-> e(k)]
      BY <3>1, <3>2, Zenon
    <3> QED BY <3>3, Zenon DEF e
  <2>4. Spreads(q, h, r, n + 1)
    <3> HIDE DEF q
    <3> QED BY <2>3, Zenon DEF Spreads
  <2> QED BY <2>4
<1> HIDE DEF T
<1>3. m \in T
  BY <1>1, <1>2, SetInduction
<1> QED BY <1>3 DEF T

(* Numbers, and what each adds to those before it. *)
Prefix(g, f, n) ==
    /\ \A k \in 0..n : g[k] \in Nat
    /\ g[0] = 0
    /\ \A k \in 1..n : g[k] = g[k - 1] + f[k]

LEMMA SumsAre ==
    ASSUME NEW g, NEW f, NEW n \in Nat, Sums(g, f, n), \A k \in 1..n : f[k] \in Nat
    PROVE  Prefix(g, f, n)
<1>1. g[0] = 0
  <2>1. 0 \in 0..n
    OBVIOUS
  <2> QED BY <2>1, SumsAt
<1>2. ASSUME NEW k \in 1..n PROVE g[k] = g[k - 1] + f[k]
  <2>1. k \in 0..n /\ k # 0
    OBVIOUS
  <2> QED BY <2>1, SumsAt
<1> DEFINE S == {k \in Nat : k <= n => g[k] \in Nat}
<1>3. 0 \in S
  <2>1. 0 \in Nat
    OBVIOUS
  <2>2. g[0] \in Nat
    BY <1>1, <2>1, Zenon
  <2> QED BY <2>1, <2>2, Zenon DEF S
<1>4. ASSUME NEW k \in Nat, k \in S PROVE k + 1 \in S
  <2>1. k + 1 \in Nat
    OBVIOUS
  <2>2. ASSUME k + 1 <= n PROVE g[k + 1] \in Nat
    <3>1. k + 1 \in 1..n /\ (k + 1) - 1 = k /\ k <= n
      BY <2>2
    <3>2. g[k] \in Nat
      BY <1>4, <3>1, Zenon DEF S
    <3>3. f[k + 1] \in Nat
      BY <3>1, Zenon
    <3>4. g[k + 1] = g[k] + f[k + 1]
      <4>1. g[k + 1] = g[(k + 1) - 1] + f[k + 1]
        BY <1>2, <3>1, Zenon
      <4> QED BY <3>1, <4>1, Zenon
    <3> QED BY <3>2, <3>3, <3>4
  <2> QED BY <2>1, <2>2, Zenon DEF S
<1> HIDE DEF S
<1>5. \A k \in Nat : k \in S
  BY <1>3, <1>4, SetInduction
<1>6. \A k \in 0..n : g[k] \in Nat
  <2>1. \A k \in 0..n : k \in Nat /\ k <= n
    OBVIOUS
  <2> QED BY <1>5, <2>1 DEF S
<1> QED BY <1>1, <1>2, <1>6 DEF Prefix

LEMMA TopsAre ==
    ASSUME NEW ls, NEW n \in Nat, Len(ls) = n, \A p \in 1..n : Slots(ls[p]) \in Nat
    PROVE  Prefix(Tops(ls), [p \in 1..n |-> Slots(ls[p])], n)
<1> DEFINE P(g) == g = [p \in 0..Len(ls) |-> IF p = 0 THEN 0 ELSE g[p - 1] + Slots(ls[p])]
           f == [p \in 1..n |-> Slots(ls[p])]
           G == CHOOSE g : P(g)
<1>1. ASSUME NEW g PROVE P(g) <=> Sums(g, f, n)
  <2> DEFINE a(p) == IF p = 0 THEN 0 ELSE g[p - 1] + Slots(ls[p])
             b(p) == IF p = 0 THEN 0 ELSE g[p - 1] + f[p]
  <2>1. ASSUME NEW p \in 0..n PROVE a(p) = b(p)
    <3>1. CASE p = 0
      BY <3>1
    <3>2. CASE p # 0
      <4>1. p \in 1..n
        BY <3>2
      <4> QED BY <3>2, <4>1, Zenon
    <3> QED BY <3>1, <3>2
  <2> HIDE DEF a, b
  <2>2. [p \in 0..n |-> a(p)] = [p \in 0..n |-> b(p)]
    BY <2>1
  <2> QED BY <2>2, Zenon DEF Sums, a, b
<1>2. \E g : P(g)
  <2>1. PICK g : Sums(g, f, n)
    BY SumsExists, Zenon
  <2> QED BY <1>1, <2>1, Zenon
<1>3. P(G)
  <2> HIDE DEF P
  <2> QED BY <1>2, Zenon
<1>4. Tops(ls) = G
  BY Zenon DEF Tops
<1>5. Sums(Tops(ls), f, n)
  <2> HIDE DEF P, G, f
  <2> QED BY <1>1, <1>3, <1>4, Zenon
<1>6. \A p \in 1..n : f[p] \in Nat
  OBVIOUS
<1> QED
  <2> HIDE DEF f
  <2>1. Prefix(Tops(ls), f, n)
    BY <1>5, <1>6, SumsAre
  <2> QED BY <2>1 DEF f

LEMMA AlongIs ==
    ASSUME NEW v, NEW ks, Len(ks) \in Nat
    PROVE  Goes(Along(v, ks), v, ks, Len(ks))
<1> DEFINE P(g) == g = [n \in 0..Len(ks) |-> IF n = 0 THEN v ELSE heap[g[n - 1]][ks[n]]]
           G == CHOOSE g : P(g)
<1>1. \E g : P(g)
  <2>1. \E g : Goes(g, v, ks, Len(ks))
    BY GoesExists, Zenon
  <2> QED BY <2>1, Zenon DEF Goes
<1>2. P(G)
  <2> HIDE DEF P
  <2> QED BY <1>1, Zenon
<1>3. Along(v, ks) = G
  BY Zenon DEF Along
<1>4. P(Along(v, ks))
  <2> HIDE DEF P, G
  <2> QED BY <1>2, <1>3, Zenon
<1> QED BY <1>4, Zenon DEF Goes

LEMMA WalkIs ==
    ASSUME NEW s, NEW t, NEW ks, Len(ks) \in Nat
    PROVE  Walks(Walk(s, t, ks), s, t, ks, Len(ks))
<1> DEFINE P(g) == g = [n \in 0..Len(ks) |-> IF n = 0 THEN s
                            ELSE Fetch(g[n - 1], IF n = 1 THEN t ELSE Top, ks[n])]
           G == CHOOSE g : P(g)
<1>1. \E g : P(g)
  <2>1. \E g : Walks(g, s, t, ks, Len(ks))
    BY WalksExists, Zenon
  <2> QED BY <2>1, Zenon DEF Walks
<1>2. P(G)
  <2> HIDE DEF P
  <2> QED BY <1>1, Zenon
<1>3. Walk(s, t, ks) = G
  BY Zenon DEF Walk
<1>4. P(Walk(s, t, ks))
  <2> HIDE DEF P, G
  <2> QED BY <1>2, <1>3, Zenon
<1> QED BY <1>4, Zenon DEF Walks

LEMMA ReachedIs ==
    ASSUME NEW h, NEW r, Cardinality(Heap) \in Nat
    PROVE  \E g : /\ Spreads(g, h, r, Cardinality(Heap))
                  /\ ReachedFrom(h, r) = g[Cardinality(Heap)]
<1> DEFINE N == Cardinality(Heap)
           P(g) == g = [n \in 0..N |-> IF n = 0 THEN r ELSE Contents(h, g[n - 1])]
           G == CHOOSE g : P(g)
<1>1. \E g : P(g)
  <2>1. \E g : Spreads(g, h, r, N)
    BY SpreadsExists, Zenon
  <2> QED BY <2>1, Zenon DEF Spreads
<1>2. P(G)
  <2> HIDE DEF P
  <2> QED BY <1>1, Zenon
<1>3. ReachedFrom(h, r) = G[N]
  BY Zenon DEF ReachedFrom
<1>4. Spreads(G, h, r, N)
  <2> HIDE DEF G
  <2> QED BY <1>2, Zenon DEF Spreads
<1> QED BY <1>3, <1>4, Zenon

-----------------------------------------------------------------------------
(* Numbers with a bound, and what headers hold.                            *)

LEMMA DivisionIs ==
    ASSUME NEW n \in Nat \ {0}, NEW q \in Nat, NEW r \in 0..n - 1
    PROVE  (q * n + r) % n = r /\ (q * n + r) \div n = q
OBVIOUS

LEMMA PlusIs ==
    ASSUME Word \in Nat, NEW x \in Nat, NEW y \in Nat, x + y < Word
    PROVE  Plus(x, y) = x + y
<1> DEFINE z == x + y
<1>1. z \in 0..Word - 1 /\ Word \in Nat \ {0} /\ 0 * Word + z = z
  OBVIOUS
<1> HIDE DEF z
<1>2. (0 * Word + z) % Word = z
  BY <1>1, DivisionIs
<1> QED BY <1>1, <1>2 DEF Plus, z

LEMMA MinusIs ==
    ASSUME Word \in Nat, NEW x \in Nat, NEW y \in 0..Word - 1, x < Word
    PROVE  Minus(x, y) = IF y <= x THEN x - y ELSE x + Word - y
<1> DEFINE z == x + Word - y
<1>1. CASE y <= x
  <2> DEFINE r == x - y
  <2>1. r \in 0..Word - 1 /\ Word \in Nat \ {0} /\ 1 * Word + r = z
    BY <1>1
  <2> HIDE DEF r, z
  <2>2. (1 * Word + r) % Word = r
    BY <2>1, DivisionIs
  <2>3. z % Word = r
    BY <2>1, <2>2
  <2> QED BY <1>1, <2>3 DEF Minus, r, z
<1>2. CASE y > x
  <2>1. z \in 0..Word - 1 /\ Word \in Nat \ {0} /\ 0 * Word + z = z
    BY <1>2
  <2> HIDE DEF z
  <2>2. (0 * Word + z) % Word = z
    BY <2>1, DivisionIs
  <2>3. z % Word = z
    BY <2>1, <2>2
  <2>4. ~(y <= x)
    BY <1>2
  <2> QED BY <2>3, <2>4 DEF Minus, z
<1> QED BY <1>1, <1>2

LEMMA MinIs ==
    ASSUME NEW x \in Nat, NEW y \in Nat
    PROVE  Min({x, y}) = IF x <= y THEN x ELSE y
<1> DEFINE P(m) == m \in {x, y} /\ \A n \in {x, y} : m <= n
           v == IF x <= y THEN x ELSE y
<1>1. P(v)
  OBVIOUS
<1>2. ASSUME NEW m, P(m) PROVE m = v
  BY <1>2
<1>3. Min({x, y}) = CHOOSE m \in {x, y} : \A n \in {x, y} : m <= n
  BY Zenon DEF Min
<1>4. P(CHOOSE m \in {x, y} : \A n \in {x, y} : m <= n)
  BY <1>1
<1> HIDE DEF P, v
<1>5. P(Min({x, y}))
  BY <1>3, <1>4, Zenon
<1>6. Min({x, y}) = v
  BY <1>2, <1>5, Zenon
<1> QED BY <1>6 DEF v

(* Tags are the first types, in order, and the rest are the last. *)
LEMMA IndexIs ==
    ASSUME Word \in Nat, Word >= 12, NEW t \in 0..Word - 1
    PROVE  /\ to_index(t) \in 0..5
           /\ t \in 4..8 => to_index(t) = t - 4
           /\ t \notin 4..8 => to_index(t) = 5
<1>1. Minus(t, 4) = IF 4 <= t THEN t - 4 ELSE t + Word - 4
  BY MinusIs
<1> DEFINE m == Minus(t, 4)
<1>2. m \in Nat /\ (4 <= t => m = t - 4) /\ (~(4 <= t) => m >= 5)
  BY <1>1
<1>3. to_index(t) = Min({m, 5})
  <2>1. 6 - 1 = 5
    OBVIOUS
  <2> QED BY <2>1, Zenon DEF to_index, First, NTypes, m
<1> HIDE DEF m
<1>4. to_index(t) = IF m <= 5 THEN m ELSE 5
  BY <1>2, <1>3, MinIs
<1> QED BY <1>2, <1>4
(* Sums of which one number differs. *)
LEMMA SumsDiffer ==
    ASSUME NEW n \in Nat, NEW g, NEW h, NEW e, NEW f, NEW p \in 1..n,
           Prefix(g, e, n), Prefix(h, f, n), \A k \in 1..n : e[k] \in Nat /\ f[k] \in Nat,
           \A k \in 1..n : k # p => e[k] = f[k]
    PROVE  g[n] + f[p] = h[n] + e[p]
<1> DEFINE S == {k \in Nat : k <= n =>
                    IF k < p THEN g[k] = h[k] ELSE g[k] + f[p] = h[k] + e[p]}
<1>1. 0 \in S
  BY DEF Prefix
<1>2. ASSUME NEW k \in Nat, k \in S PROVE k + 1 \in S
  <2> SUFFICES ASSUME k + 1 <= n
               PROVE  IF k + 1 < p THEN g[k + 1] = h[k + 1]
                      ELSE g[k + 1] + f[p] = h[k + 1] + e[p]
    OBVIOUS
  <2>1. k \in 0..n /\ k + 1 \in 1..n /\ (k + 1) - 1 = k
    OBVIOUS
  <2>2. g[k] \in Nat /\ h[k] \in Nat /\ e[k + 1] \in Nat /\ f[k + 1] \in Nat
        /\ e[p] \in Nat /\ f[p] \in Nat
    BY <2>1 DEF Prefix
  <2>3. g[k + 1] = g[k] + e[k + 1] /\ h[k + 1] = h[k] + f[k + 1]
    <3>1. g[k + 1] = g[(k + 1) - 1] + e[k + 1] /\ h[k + 1] = h[(k + 1) - 1] + f[k + 1]
      BY <2>1, Zenon DEF Prefix
    <3> QED BY <2>1, <3>1, Zenon
  <2>4. IF k < p THEN g[k] = h[k] ELSE g[k] + f[p] = h[k] + e[p]
    BY <1>2
  <2>5. k + 1 # p => e[k + 1] = f[k + 1]
    BY <2>1
  <2> QED BY <2>2, <2>3, <2>4, <2>5
<1>3. n \in S
  <2> HIDE DEF S
  <2> QED BY <1>1, <1>2, SetInduction
<1> QED BY <1>3

LEMMA SumsOrdered ==
    ASSUME NEW n \in Nat, NEW g, NEW h, NEW e, NEW f,
           Prefix(g, e, n), Prefix(h, f, n),
           \A k \in 1..n : e[k] \in Nat /\ f[k] \in Nat /\ e[k] <= f[k]
    PROVE  g[n] <= h[n] /\ g[n] \in Nat /\ h[n] \in Nat
<1> DEFINE S == {k \in Nat : k <= n => g[k] <= h[k]}
<1>1. 0 \in S
  BY DEF Prefix
<1>2. ASSUME NEW k \in Nat, k \in S PROVE k + 1 \in S
  <2> SUFFICES ASSUME k + 1 <= n PROVE g[k + 1] <= h[k + 1]
    OBVIOUS
  <2>1. k \in 0..n /\ k + 1 \in 1..n /\ (k + 1) - 1 = k
    OBVIOUS
  <2>2. g[k] \in Nat /\ h[k] \in Nat /\ e[k + 1] \in Nat /\ f[k + 1] \in Nat
        /\ e[k + 1] <= f[k + 1]
    BY <2>1 DEF Prefix
  <2>3. g[k + 1] = g[k] + e[k + 1] /\ h[k + 1] = h[k] + f[k + 1]
    <3>1. g[k + 1] = g[(k + 1) - 1] + e[k + 1] /\ h[k + 1] = h[(k + 1) - 1] + f[k + 1]
      BY <2>1, Zenon DEF Prefix
    <3> QED BY <2>1, <3>1, Zenon
  <2>4. g[k] <= h[k]
    BY <1>2
  <2> QED BY <2>2, <2>3, <2>4
<1>3. n \in S
  <2> HIDE DEF S
  <2> QED BY <1>1, <1>2, SetInduction
<1> QED BY <1>3 DEF Prefix

(* The sizes that Bytes() adds. *)
Part(bs, S) == [b \in 1..Highest |-> IF b \in S THEN bs[b].size ELSE 0]

(* Blocks whose sizes are numbers. *)
Sized(bs, S) == Highest \in Nat /\ \A b \in S : bs[b].size \in Nat

LEMMA BytesAre ==
    ASSUME NEW bs, NEW S, Sized(bs, S)
    PROVE  \E g : Prefix(g, Part(bs, S), Highest) /\ Bytes(bs, S) = g[Highest]
<1> DEFINE P(g) == g = [b \in 0..Highest |-> IF b = 0 THEN 0
                            ELSE g[b - 1] + (IF b \in S THEN bs[b].size ELSE 0)]
           f == Part(bs, S)
           G == CHOOSE g : P(g)
<1>1. ASSUME NEW g PROVE P(g) <=> Sums(g, f, Highest)
  <2> DEFINE a(p) == IF p = 0 THEN 0 ELSE g[p - 1] + (IF p \in S THEN bs[p].size ELSE 0)
             b(p) == IF p = 0 THEN 0 ELSE g[p - 1] + f[p]
  <2>1. ASSUME NEW p \in 0..Highest PROVE a(p) = b(p)
    <3>1. CASE p = 0
      BY <3>1
    <3>2. CASE p # 0
      <4>1. p \in 1..Highest
        BY <3>2 DEF Sized
      <4>2. f[p] = IF p \in S THEN bs[p].size ELSE 0
        BY <4>1, Zenon DEF Part
      <4> QED BY <3>2, <4>2, Zenon
    <3> QED BY <3>1, <3>2
  <2> HIDE DEF a, b
  <2>2. [p \in 0..Highest |-> a(p)] = [p \in 0..Highest |-> b(p)]
    BY <2>1
  <2> QED BY <2>2, Zenon DEF Sums, a, b
<1>2. \E g : P(g)
  <2>1. PICK g : Sums(g, f, Highest)
    BY SumsExists, Zenon DEF Sized
  <2> QED BY <1>1, <2>1, Zenon
<1>3. P(G)
  <2> HIDE DEF P
  <2> QED BY <1>2, Zenon
<1>4. Bytes(bs, S) = G[Highest]
  BY Zenon DEF Bytes
<1>5. Sums(G, f, Highest)
  <2> HIDE DEF P, G, f
  <2> QED BY <1>1, <1>3, Zenon
<1>6. \A b \in 1..Highest : f[b] \in Nat
  BY DEF Sized, Part
<1> HIDE DEF f, G
<1>7. Prefix(G, f, Highest)
  BY <1>5, <1>6, SumsAre DEF Sized
<1> QED BY <1>4, <1>7 DEF f

LEMMA BytesSame ==
    ASSUME NEW bs, NEW bt, NEW S, Sized(bs, S), \A b \in S : bt[b].size = bs[b].size
    PROVE  Bytes(bt, S) = Bytes(bs, S) /\ Bytes(bs, S) \in Nat
<1>1. Sized(bt, S) /\ Highest \in Nat
  BY DEF Sized
<1>2. PICK g : Prefix(g, Part(bs, S), Highest) /\ Bytes(bs, S) = g[Highest]
  BY BytesAre
<1>3. PICK h : Prefix(h, Part(bt, S), Highest) /\ Bytes(bt, S) = h[Highest]
  BY <1>1, BytesAre
<1>4. \A k \in 1..Highest : /\ Part(bs, S)[k] = Part(bt, S)[k]
                            /\ Part(bs, S)[k] \in Nat
  BY DEF Part, Sized
<1>5. g[Highest] <= h[Highest] /\ h[Highest] <= g[Highest]
      /\ g[Highest] \in Nat /\ h[Highest] \in Nat
  BY <1>1, <1>2, <1>3, <1>4, SumsOrdered
<1> QED BY <1>2, <1>3, <1>5

LEMMA BytesOrdered ==
    ASSUME NEW bs, NEW S, NEW T, Sized(bs, T), S \subseteq T
    PROVE  Bytes(bs, S) <= Bytes(bs, T) /\ Bytes(bs, T) \in Nat /\ Bytes(bs, S) \in Nat
<1>1. Sized(bs, S) /\ Highest \in Nat
  BY DEF Sized
<1>2. PICK g : Prefix(g, Part(bs, S), Highest) /\ Bytes(bs, S) = g[Highest]
  BY <1>1, BytesAre
<1>3. PICK h : Prefix(h, Part(bs, T), Highest) /\ Bytes(bs, T) = h[Highest]
  BY BytesAre
<1>4. \A k \in 1..Highest : /\ Part(bs, S)[k] <= Part(bs, T)[k]
                            /\ Part(bs, S)[k] \in Nat /\ Part(bs, T)[k] \in Nat
  BY DEF Part, Sized
<1> QED BY <1>1, <1>2, <1>3, <1>4, SumsOrdered

LEMMA BytesAdded ==
    ASSUME NEW bs, NEW bt, NEW S, NEW p \in 1..Highest, p \notin S,
           Sized(bs, S), bt[p].size \in Nat, \A b \in S : bt[b].size = bs[b].size
    PROVE  Bytes(bt, S \cup {p}) = Bytes(bs, S) + bt[p].size /\ Bytes(bs, S) \in Nat
<1> DEFINE T == S \cup {p}
<1>1. Sized(bt, T) /\ Highest \in Nat
  BY DEF Sized
<1>2. PICK g : Prefix(g, Part(bs, S), Highest) /\ Bytes(bs, S) = g[Highest]
  BY <1>1, BytesAre
<1>3. PICK h : Prefix(h, Part(bt, T), Highest) /\ Bytes(bt, T) = h[Highest]
  <2> HIDE DEF T
  <2> QED BY <1>1, BytesAre
<1>4. \A k \in 1..Highest : Part(bs, S)[k] \in Nat /\ Part(bt, T)[k] \in Nat
  BY <1>1 DEF Part, Sized
<1>5. \A k \in 1..Highest : k # p => Part(bs, S)[k] = Part(bt, T)[k]
  BY DEF Part
<1>6. Part(bs, S)[p] = 0 /\ Part(bt, T)[p] = bt[p].size
  BY DEF Part
<1>7. g[Highest] + Part(bt, T)[p] = h[Highest] + Part(bs, S)[p]
  <2> HIDE DEF T
  <2> QED BY <1>1, <1>2, <1>3, <1>4, <1>5, SumsDiffer
<1>8. g[Highest] \in Nat /\ h[Highest] \in Nat
  BY <1>1, <1>2, <1>3 DEF Prefix
<1> QED BY <1>2, <1>3, <1>6, <1>7, <1>8
-----------------------------------------------------------------------------
(* What is counted.                                                        *)

(* Kind() of any blocks. *)
KindOf(bs, i) ==
    {p \in DOMAIN bs :
        IF bs[p].tag \in First .. First + NTypes - 2 THEN i = bs[p].tag - First
        ELSE i = NTypes - 1}

(* Blocks with the headers that allocate() gives them. *)
Headed(bs) ==
    /\ DOMAIN bs \subseteq Blocks
    /\ \A p \in DOMAIN bs :
        /\ bs[p].tag \in Tags /\ bs[p].size \in Sizes
        /\ bs[p].header = set(bs[p].tag, bs[p].size)

(* The numbers and bytes of blocks. *)
Tallies(bs, v) ==
    /\ v \in [Indices -> [n : 0..Word - 1, bytes : 0..Word - 1]]
    /\ \A i \in Indices :
        /\ v[i].n = Cardinality(KindOf(bs, i))
        /\ v[i].bytes = Bytes(bs, KindOf(bs, i))

MemoryIInv ==
    /\ open \in BOOLEAN
    /\ Headed(blocks) /\ Fits(blocks)
    /\ Tallies(blocks, info)

LEMMA HeaderIs ==
    ASSUME MemoryAssumption, NEW t \in Tags, NEW n \in Sizes
    PROVE  /\ index(set(t, n)) = to_index(t) /\ size(set(t, n)) = n
           /\ to_index(t) \in Indices /\ n \in Nat \ {0}
           /\ \A m \in Sizes : set_size(set(t, n), m) = set(t, m)
<1>1. Mask \in Nat \ {0} /\ Word \in Nat /\ Word >= 12 /\ t \in 0..Word - 1
  BY DEF MemoryAssumption
<1>2. to_index(t) \in 0..5
  BY <1>1, IndexIs
<1>3. ASSUME NEW m \in Sizes PROVE m \in 0..Mask - 1 /\ m \in Nat \ {0}
  BY DEF MemoryAssumption
<1> DEFINE i == to_index(t)
<1>4. to_index(t) \in Indices
  BY <1>2 DEF Indices, NTypes
<1> HIDE DEF i
<1>5. i \in Nat
  BY <1>2 DEF i
<1>6. (i * Mask + n) % Mask = n /\ (i * Mask + n) \div Mask = i
  BY <1>1, <1>3, <1>5, DivisionIs
<1> QED BY <1>3, <1>4, <1>6, Zenon DEF index, size, set, set_size, i

(* The blocks of a type are those whose header has its index. *)
LEMMA KindIs ==
    ASSUME MemoryAssumption, NEW bs, Headed(bs), NEW i \in Indices
    PROVE  KindOf(bs, i) = {p \in DOMAIN bs : to_index(bs[p].tag) = i}
<1>1. ASSUME NEW p \in DOMAIN bs
      PROVE  (IF bs[p].tag \in First..First + NTypes - 2 THEN i = bs[p].tag - First
              ELSE i = NTypes - 1) <=> to_index(bs[p].tag) = i
  <2> DEFINE t == bs[p].tag
  <2>1. t \in Tags /\ bs[p].size \in Sizes
    BY DEF Headed
  <2> HIDE DEF t
  <2>2. Word \in Nat /\ Word >= 12 /\ t \in 0..Word - 1
    <3> DEFINE n == bs[p].size
    <3>1. n \in Sizes
      BY <2>1
    <3> HIDE DEF n
    <3> QED BY <2>1, <3>1 DEF MemoryAssumption
  <2>3. /\ t \in 4..8 => to_index(t) = t - 4
        /\ t \notin 4..8 => to_index(t) = 5
    BY <2>2, IndexIs
  <2>4. (IF t \in First..First + NTypes - 2 THEN i = t - First
              ELSE i = NTypes - 1) <=> to_index(t) = i
    BY <2>2, <2>3 DEF First, NTypes
  <2> QED BY <2>4 DEF t
<1> QED BY <1>1 DEF KindOf

LEMMA KindsAreFinite ==
    ASSUME MemoryAssumption, NEW bs, Headed(bs), NEW S \in SUBSET (DOMAIN bs)
    PROVE  /\ IsFiniteSet(S) /\ Cardinality(S) \in Nat /\ Cardinality(S) < Word
           /\ Sized(bs, S) /\ Sized(bs, DOMAIN bs) /\ Highest \in Nat
           /\ (DOMAIN bs) \in SUBSET (1..Highest)
<1>1. Highest \in Nat /\ Highest < Word /\ Word \in Nat
  BY DEF MemoryAssumption
<1>2. IsFiniteSet(1..Highest) /\ Cardinality(1..Highest) <= Highest
  BY <1>1, FS_Interval
<1>3. S \in SUBSET (1..Highest) /\ (DOMAIN bs) \in SUBSET (1..Highest)
  BY DEF Headed, Blocks
<1>4. /\ IsFiniteSet(S) /\ Cardinality(S) <= Cardinality(1..Highest)
  BY <1>2, <1>3, FS_Subset
<1>5. Cardinality(S) \in Nat /\ Cardinality(1..Highest) \in Nat
  BY <1>2, <1>4, FS_CardinalityType
<1>6. \A p \in DOMAIN bs : bs[p].size \in Nat
  <2>1. \A p \in DOMAIN bs : bs[p].size \in Sizes
    BY DEF Headed
  <2>2. Sizes \subseteq Nat
    BY DEF MemoryAssumption
  <2> QED BY <2>1, <2>2
<1> QED BY <1>1, <1>2, <1>3, <1>4, <1>5, <1>6 DEF Sized

(* One more block is counted. *)
LEMMA Counts ==
    ASSUME MemoryAssumption, NEW bs, NEW v, Headed(bs), Tallies(bs, v),
           NEW p \in Blocks, p \notin DOMAIN bs, NEW t \in Tags, NEW n \in Sizes, NEW bt,
           bt = With(bs, p, [tag |-> t, size |-> n, header |-> set(t, n)]), Fits(bt)
    PROVE  Headed(bt) /\ Tallies(bt, Counting(v, set(t, n)))
<1>0. DOMAIN bt = DOMAIN bs \cup {p} /\ \A b \in DOMAIN bs : bt[b] = bs[b]
  BY DEF With
<1>1. bt[p] = [tag |-> t, size |-> n, header |-> set(t, n)]
  BY DEF With
<1>2. Headed(bt)
  <2>1. DOMAIN bt \subseteq Blocks
    BY <1>0 DEF Headed
  <2>2. ASSUME NEW b \in DOMAIN bt
        PROVE  /\ bt[b].tag \in Tags /\ bt[b].size \in Sizes
               /\ bt[b].header = set(bt[b].tag, bt[b].size)
    <3>1. CASE b = p
      BY <1>1, <3>1
    <3>2. CASE b # p
      BY <1>0, <3>2 DEF Headed
    <3> QED BY <3>1, <3>2
  <2> QED BY <2>1, <2>2 DEF Headed
<1> DEFINE j == to_index(t)
<1>3. j \in Indices /\ index(set(t, n)) = j /\ size(set(t, n)) = n /\ n \in Nat \ {0}
  BY HeaderIs
<1> HIDE DEF j
<1>4. Word \in Nat
  BY DEF MemoryAssumption
<1>5. ASSUME NEW i \in Indices
      PROVE  /\ KindOf(bt, i) = IF i = j THEN KindOf(bs, i) \cup {p} ELSE KindOf(bs, i)
             /\ KindOf(bs, i) \in SUBSET (DOMAIN bs) /\ KindOf(bt, i) \in SUBSET (DOMAIN bt)
             /\ p \notin KindOf(bs, i)
  <2>1. KindOf(bs, i) = {b \in DOMAIN bs : to_index(bs[b].tag) = i}
    BY KindIs
  <2>2. KindOf(bt, i) = {b \in DOMAIN bt : to_index(bt[b].tag) = i}
    BY <1>2, KindIs
  <2>3. to_index(bt[p].tag) = j /\ \A b \in DOMAIN bs : bt[b].tag = bs[b].tag
    BY <1>0, <1>1 DEF j
  <2> QED BY <1>0, <2>1, <2>2, <2>3
<1>6. p \in 1..Highest /\ bt[p].size = n /\ \A b \in DOMAIN bs : bt[b].size = bs[b].size
  BY <1>0, <1>1 DEF Blocks
<1>7. ASSUME NEW i \in Indices, i = j
      PROVE  /\ Cardinality(KindOf(bt, i)) = Cardinality(KindOf(bs, i)) + 1
             /\ Bytes(bt, KindOf(bt, i)) = Bytes(bs, KindOf(bs, i)) + n
             /\ Cardinality(KindOf(bs, i)) \in Nat /\ Bytes(bs, KindOf(bs, i)) \in Nat
             /\ Cardinality(KindOf(bt, i)) < Word /\ Bytes(bt, KindOf(bt, i)) < Word
  <2> DEFINE S == KindOf(bs, i)
             T == KindOf(bt, i)
  <2>1. T = S \cup {p} /\ S \in SUBSET (DOMAIN bs) /\ T \in SUBSET (DOMAIN bt) /\ p \notin S
    BY <1>5, <1>7
  <2> HIDE DEF S, T
  <2>2. IsFiniteSet(S) /\ Cardinality(S) \in Nat /\ Sized(bs, S)
    BY <2>1, KindsAreFinite
  <2>3. Cardinality(T) < Word /\ Sized(bt, DOMAIN bt)
    BY <1>2, <2>1, KindsAreFinite
  <2>4. Cardinality(T) = Cardinality(S) + 1
    BY <2>1, <2>2, FS_AddElement
  <2>5. bt[p].size \in Nat /\ \A b \in S : bt[b].size = bs[b].size
    BY <1>3, <1>6, <2>1
  <2>6. Bytes(bt, S \cup {p}) = Bytes(bs, S) + bt[p].size /\ Bytes(bs, S) \in Nat
    BY <1>6, <2>1, <2>2, <2>5, BytesAdded
  <2>7. Bytes(bt, T) <= Bytes(bt, DOMAIN bt) /\ Bytes(bt, DOMAIN bt) \in Nat
        /\ Bytes(bt, T) \in Nat
    BY <2>1, <2>3, BytesOrdered
  <2>8. Bytes(bt, DOMAIN bt) < Word
    BY DEF Fits
  <2>9. Bytes(bt, T) = Bytes(bs, S) + n
    BY <1>6, <2>1, <2>6
  <2>10. Bytes(bt, T) < Word
    BY <1>4, <2>7, <2>8
  <2> QED BY <2>2, <2>3, <2>4, <2>6, <2>9, <2>10 DEF S, T
<1>8. ASSUME NEW i \in Indices, i # j
      PROVE  /\ Cardinality(KindOf(bt, i)) = Cardinality(KindOf(bs, i))
             /\ Bytes(bt, KindOf(bt, i)) = Bytes(bs, KindOf(bs, i))
  <2> DEFINE S == KindOf(bs, i)
  <2>1. KindOf(bt, i) = S /\ S \in SUBSET (DOMAIN bs)
    BY <1>5, <1>8
  <2> HIDE DEF S
  <2>2. Sized(bs, S) /\ \A b \in S : bt[b].size = bs[b].size
    <3>1. Sized(bs, S)
      BY <2>1, KindsAreFinite
    <3> QED BY <1>6, <2>1, <3>1
  <2>3. Bytes(bt, S) = Bytes(bs, S)
    BY <2>2, BytesSame
  <2> QED BY <2>1, <2>3 DEF S
<1> DEFINE w == Counting(v, set(t, n))
           x == [n |-> Plus(v[j].n, 1), bytes |-> Plus(v[j].bytes, n)]
<1>9. w = [v EXCEPT ![j] = x]
  BY <1>3, Zenon DEF Counting
<1>10. /\ v[j].n = Cardinality(KindOf(bs, j)) /\ v[j].bytes = Bytes(bs, KindOf(bs, j))
  BY <1>3, Zenon DEF Tallies
<1>11. /\ Plus(v[j].n, 1) = Cardinality(KindOf(bt, j))
       /\ Plus(v[j].bytes, n) = Bytes(bt, KindOf(bt, j))
       /\ Cardinality(KindOf(bt, j)) \in 0..Word - 1
       /\ Bytes(bt, KindOf(bt, j)) \in 0..Word - 1
  <2> DEFINE c == Cardinality(KindOf(bs, j))
             d == Bytes(bs, KindOf(bs, j))
             cc == Cardinality(KindOf(bt, j))
             dd == Bytes(bt, KindOf(bt, j))
  <2>1. cc = c + 1 /\ dd = d + n /\ c \in Nat /\ d \in Nat /\ cc < Word /\ dd < Word
    BY <1>3, <1>7
  <2>2. v[j].n = c /\ v[j].bytes = d
    BY <1>10
  <2> HIDE DEF c, d, cc, dd
  <2>3. Plus(c, 1) = c + 1 /\ Plus(d, n) = d + n
    BY <1>3, <1>4, <2>1, PlusIs
  <2>4. cc \in 0..Word - 1 /\ dd \in 0..Word - 1
    BY <1>3, <1>4, <2>1
  <2>5. Plus(v[j].n, 1) = cc /\ Plus(v[j].bytes, n) = dd
    BY <2>1, <2>2, <2>3
  <2> QED BY <2>4, <2>5 DEF cc, dd
<1>12. v \in [Indices -> [n : 0..Word - 1, bytes : 0..Word - 1]]
  BY DEF Tallies
<1>13. x \in [n : 0..Word - 1, bytes : 0..Word - 1]
  BY <1>11
<1>14. w \in [Indices -> [n : 0..Word - 1, bytes : 0..Word - 1]]
  <2> HIDE DEF x, w
  <2> QED BY <1>9, <1>12, <1>13
<1>15. ASSUME NEW i \in Indices
       PROVE  /\ w[i].n = Cardinality(KindOf(bt, i))
              /\ w[i].bytes = Bytes(bt, KindOf(bt, i))
  <2>1. CASE i = j
    <3>1. w[i] = x
      <4> HIDE DEF x, w
      <4> QED BY <1>9, <1>12, <2>1
    <3>2. x.n = Plus(v[j].n, 1) /\ x.bytes = Plus(v[j].bytes, n)
      OBVIOUS
    <3> HIDE DEF x, w
    <3> QED BY <1>11, <2>1, <3>1, <3>2, Zenon
  <2>2. CASE i # j
    <3>1. w[i] = v[i]
      <4> HIDE DEF x, w
      <4> QED BY <1>9, <1>12, <2>2
    <3>2. v[i].n = Cardinality(KindOf(bs, i)) /\ v[i].bytes = Bytes(bs, KindOf(bs, i))
      BY Zenon DEF Tallies
    <3> HIDE DEF w
    <3> QED BY <1>8, <2>2, <3>1, <3>2, Zenon
  <2> QED BY <2>1, <2>2
<1>16. Tallies(bt, w)
  <2> HIDE DEF w
  <2> QED BY <1>14, <1>15, Zenon DEF Tallies
<1> QED BY <1>2, <1>16, Zenon

(* One block less is. *)
LEMMA Discounts ==
    ASSUME MemoryAssumption, NEW bs, NEW v, Headed(bs), Tallies(bs, v), Fits(bs),
           NEW p \in DOMAIN bs, NEW bt,
           DOMAIN bt = DOMAIN bs \ {p}, \A b \in DOMAIN bt : bt[b] = bs[b]
    PROVE  Headed(bt) /\ Tallies(bt, Discounting(v, bs[p].header)) /\ p \in Blocks
<1>0. DOMAIN bt = DOMAIN bs \ {p} /\ \A b \in DOMAIN bt : bt[b] = bs[b]
  OBVIOUS
<1>1. Headed(bt)
  BY <1>0 DEF Headed
<1> DEFINE t == bs[p].tag
           n == bs[p].size
           j == to_index(t)
<1>2. t \in Tags /\ n \in Sizes /\ bs[p].header = set(t, n)
  BY DEF Headed
<1> HIDE DEF t, n
<1>3. j \in Indices /\ index(bs[p].header) = j /\ size(bs[p].header) = n /\ n \in Nat \ {0}
  BY <1>2, HeaderIs
<1> HIDE DEF j
<1>4. Word \in Nat
  BY DEF MemoryAssumption
<1>5. ASSUME NEW i \in Indices
      PROVE  /\ KindOf(bs, i) = IF i = j THEN KindOf(bt, i) \cup {p} ELSE KindOf(bt, i)
             /\ KindOf(bs, i) \in SUBSET (DOMAIN bs) /\ KindOf(bt, i) \in SUBSET (DOMAIN bt)
             /\ p \notin KindOf(bt, i)
  <2>1. KindOf(bs, i) = {b \in DOMAIN bs : to_index(bs[b].tag) = i}
    BY KindIs
  <2>2. KindOf(bt, i) = {b \in DOMAIN bt : to_index(bt[b].tag) = i}
    BY <1>1, KindIs
  <2>3. to_index(bs[p].tag) = j /\ \A b \in DOMAIN bt : bt[b].tag = bs[b].tag
    BY <1>0 DEF j, t
  <2>4. ASSUME NEW b \in DOMAIN bs
        PROVE  b \in KindOf(bs, i) <=> (b = p /\ i = j) \/ b \in KindOf(bt, i)
    <3>1. CASE b = p
      BY <1>0, <2>1, <2>2, <2>3, <3>1
    <3>2. CASE b # p
      BY <1>0, <2>1, <2>2, <2>3, <3>2
    <3> QED BY <3>1, <3>2
  <2>5. /\ KindOf(bs, i) \in SUBSET (DOMAIN bs) /\ KindOf(bt, i) \in SUBSET (DOMAIN bt)
        /\ p \notin KindOf(bt, i)
    BY <1>0, <2>1, <2>2
  <2> QED BY <1>0, <2>4, <2>5
<1>6. p \in 1..Highest /\ bs[p].size = n /\ \A b \in DOMAIN bt : bs[b].size = bt[b].size
  BY <1>0 DEF Blocks, n, Headed
<1>7. ASSUME NEW i \in Indices, i = j
      PROVE  /\ Cardinality(KindOf(bs, i)) = Cardinality(KindOf(bt, i)) + 1
             /\ Bytes(bs, KindOf(bs, i)) = Bytes(bt, KindOf(bt, i)) + n
             /\ Cardinality(KindOf(bt, i)) \in Nat /\ Bytes(bt, KindOf(bt, i)) \in Nat
             /\ Cardinality(KindOf(bs, i)) < Word /\ Bytes(bs, KindOf(bs, i)) < Word
  <2> DEFINE S == KindOf(bt, i)
             T == KindOf(bs, i)
  <2>1. T = S \cup {p} /\ S \in SUBSET (DOMAIN bt) /\ T \in SUBSET (DOMAIN bs) /\ p \notin S
    BY <1>5, <1>7
  <2> HIDE DEF S, T
  <2>2. IsFiniteSet(S) /\ Cardinality(S) \in Nat /\ Sized(bt, S)
    BY <1>1, <2>1, KindsAreFinite
  <2>3. Cardinality(T) < Word /\ Sized(bs, DOMAIN bs)
    BY <2>1, KindsAreFinite
  <2>4. Cardinality(T) = Cardinality(S) + 1
    BY <2>1, <2>2, FS_AddElement
  <2>5. bs[p].size \in Nat /\ \A b \in S : bs[b].size = bt[b].size
    BY <1>3, <1>6, <2>1
  <2>6. Bytes(bs, S \cup {p}) = Bytes(bt, S) + bs[p].size /\ Bytes(bt, S) \in Nat
    <3>1. p \in 1..Highest /\ p \notin S /\ Sized(bt, S)
      BY <1>6, <2>1, <2>2
    <3> QED BY <2>5, <3>1, BytesAdded, Zenon
  <2>7. Bytes(bs, T) <= Bytes(bs, DOMAIN bs) /\ Bytes(bs, DOMAIN bs) \in Nat
        /\ Bytes(bs, T) \in Nat
    BY <2>1, <2>3, BytesOrdered
  <2>8. Bytes(bs, DOMAIN bs) < Word
    BY DEF Fits
  <2>9. Bytes(bs, T) = Bytes(bt, S) + n
    BY <1>6, <2>1, <2>6
  <2>10. Bytes(bs, T) < Word
    BY <1>4, <2>7, <2>8
  <2> QED BY <2>2, <2>3, <2>4, <2>6, <2>9, <2>10 DEF S, T
<1>8. ASSUME NEW i \in Indices, i # j
      PROVE  /\ Cardinality(KindOf(bt, i)) = Cardinality(KindOf(bs, i))
             /\ Bytes(bt, KindOf(bt, i)) = Bytes(bs, KindOf(bs, i))
  <2> DEFINE S == KindOf(bt, i)
  <2>1. KindOf(bs, i) = S /\ S \in SUBSET (DOMAIN bt)
    BY <1>5, <1>8
  <2> HIDE DEF S
  <2>2. Sized(bt, S) /\ \A b \in S : bs[b].size = bt[b].size
    <3>1. Sized(bt, S)
      BY <1>1, <2>1, KindsAreFinite
    <3> QED BY <1>6, <2>1, <3>1
  <2>3. Bytes(bs, S) = Bytes(bt, S)
    BY <2>2, BytesSame
  <2> QED BY <2>1, <2>3 DEF S
<1> DEFINE w == Discounting(v, bs[p].header)
           x == [n |-> Minus(v[j].n, 1), bytes |-> Minus(v[j].bytes, n)]
<1>9. w = [v EXCEPT ![j] = x]
  BY <1>3, Zenon DEF Discounting
<1>10. /\ v[j].n = Cardinality(KindOf(bs, j)) /\ v[j].bytes = Bytes(bs, KindOf(bs, j))
  BY <1>3, Zenon DEF Tallies
<1>11. /\ Minus(v[j].n, 1) = Cardinality(KindOf(bt, j))
       /\ Minus(v[j].bytes, n) = Bytes(bt, KindOf(bt, j))
       /\ Cardinality(KindOf(bt, j)) \in 0..Word - 1
       /\ Bytes(bt, KindOf(bt, j)) \in 0..Word - 1
  <2> DEFINE c == Cardinality(KindOf(bs, j))
             d == Bytes(bs, KindOf(bs, j))
             cc == Cardinality(KindOf(bt, j))
             dd == Bytes(bt, KindOf(bt, j))
  <2>1. c = cc + 1 /\ d = dd + n /\ cc \in Nat /\ dd \in Nat /\ c < Word /\ d < Word
    BY <1>3, <1>7
  <2>2. v[j].n = c /\ v[j].bytes = d
    BY <1>10
  <2> HIDE DEF c, d, cc, dd
  <2>3. Minus(c, 1) = c - 1 /\ Minus(d, n) = d - n
    <3>1. 1 \in 0..Word - 1 /\ n \in 0..Word - 1 /\ 1 <= c /\ n <= d /\ c \in Nat /\ d \in Nat
      BY <1>3, <1>4, <2>1
    <3>2. Minus(c, 1) = IF 1 <= c THEN c - 1 ELSE c + Word - 1
      BY <1>4, <2>1, <3>1, MinusIs
    <3>3. Minus(d, n) = IF n <= d THEN d - n ELSE d + Word - n
      BY <1>4, <2>1, <3>1, MinusIs
    <3> QED BY <3>1, <3>2, <3>3
  <2>4. cc \in 0..Word - 1 /\ dd \in 0..Word - 1 /\ c - 1 = cc /\ d - n = dd
    BY <1>3, <1>4, <2>1
  <2>5. Minus(v[j].n, 1) = cc /\ Minus(v[j].bytes, n) = dd
    BY <2>2, <2>3, <2>4, Zenon
  <2> QED BY <2>4, <2>5 DEF cc, dd
<1>12. v \in [Indices -> [n : 0..Word - 1, bytes : 0..Word - 1]]
  BY DEF Tallies
<1>13. x \in [n : 0..Word - 1, bytes : 0..Word - 1]
  BY <1>11
<1>14. w \in [Indices -> [n : 0..Word - 1, bytes : 0..Word - 1]]
  <2> HIDE DEF x, w
  <2> QED BY <1>9, <1>12, <1>13
<1>15. ASSUME NEW i \in Indices
       PROVE  /\ w[i].n = Cardinality(KindOf(bt, i))
              /\ w[i].bytes = Bytes(bt, KindOf(bt, i))
  <2>1. CASE i = j
    <3>1. w[i] = x
      <4> HIDE DEF x, w
      <4> QED BY <1>9, <1>12, <2>1
    <3>2. x.n = Minus(v[j].n, 1) /\ x.bytes = Minus(v[j].bytes, n)
      OBVIOUS
    <3> HIDE DEF x, w
    <3> QED BY <1>11, <2>1, <3>1, <3>2, Zenon
  <2>2. CASE i # j
    <3>1. w[i] = v[i]
      <4> HIDE DEF x, w
      <4> QED BY <1>9, <1>12, <2>2
    <3>2. v[i].n = Cardinality(KindOf(bs, i)) /\ v[i].bytes = Bytes(bs, KindOf(bs, i))
      BY Zenon DEF Tallies
    <3> HIDE DEF w
    <3> QED BY <1>8, <2>2, <3>1, <3>2, Zenon
  <2> QED BY <2>1, <2>2
<1>16. Tallies(bt, w)
  <2> HIDE DEF w
  <2> QED BY <1>14, <1>15, Zenon DEF Tallies
<1> QED BY <1>1, <1>6, <1>16, Zenon DEF Blocks

LEMMA FitsLess ==
    ASSUME MemoryAssumption, NEW bs, Headed(bs), Fits(bs), NEW p, NEW bt,
           DOMAIN bt = DOMAIN bs \ {p}, \A b \in DOMAIN bt : bt[b] = bs[b]
    PROVE  Fits(bt)
<1> DEFINE S == DOMAIN bs
           T == DOMAIN bt
<1>1. Sized(bs, S) /\ T \in SUBSET S
  BY KindsAreFinite
<1>2. \A b \in T : bt[b].size = bs[b].size
  OBVIOUS
<1>3. Sized(bs, T)
  BY <1>1 DEF Sized
<1> HIDE DEF S, T
<1>4. Bytes(bt, T) = Bytes(bs, T)
  BY <1>2, <1>3, BytesSame, Zenon
<1>5. Bytes(bs, T) <= Bytes(bs, S) /\ Bytes(bs, S) \in Nat /\ Bytes(bs, T) \in Nat
  BY <1>1, BytesOrdered
<1>6. Bytes(bs, S) < Word /\ Word \in Nat
  BY DEF Fits, S, MemoryAssumption
<1>7. Bytes(bt, T) < Word
  BY <1>4, <1>5, <1>6
<1> QED BY <1>7 DEF Fits, T

LEMMA NothingCounted ==
    ASSUME MemoryAssumption, MemoryInit PROVE MemoryIInv
<1> DEFINE bs == [b \in {} |-> 0]
<1>1. DOMAIN bs = {}
  OBVIOUS
<1>2. blocks = bs /\ open = FALSE /\ info = [i \in Indices |-> [n |-> 0, bytes |-> 0]]
  BY DEF MemoryInit
<1> HIDE DEF bs
<1>3. Headed(bs)
  BY <1>1 DEF Headed
<1>4. Sized(bs, {}) /\ Highest \in Nat /\ Word \in Nat
  BY DEF Sized, MemoryAssumption
<1>5. PICK g : Prefix(g, Part(bs, {}), Highest) /\ Bytes(bs, {}) = g[Highest]
  BY <1>4, BytesAre
<1>6. Bytes(bs, {}) = 0
  <2> DEFINE z == [k \in 0..Highest |-> 0]
  <2>1. Prefix(z, Part(bs, {}), Highest)
    BY <1>4 DEF Prefix, Part
  <2>2. z[Highest] = 0
    BY <1>4
  <2> HIDE DEF z
  <2>3. \A k \in 1..Highest : /\ Part(bs, {})[k] \in Nat
                              /\ Part(bs, {})[k] <= Part(bs, {})[k]
    BY DEF Part
  <2>4. g[Highest] <= z[Highest] /\ g[Highest] \in Nat
    BY <1>4, <1>5, <2>1, <2>3, SumsOrdered
  <2> QED BY <1>5, <2>2, <2>4
<1>7. \A i \in Indices : KindOf(bs, i) = {}
  BY <1>1 DEF KindOf
<1>8. Cardinality({}) = 0
  BY FS_EmptySet
<1>9. Word > 0
  BY DEF MemoryAssumption
<1>10. Tallies(bs, info)
  <2>1. info \in [Indices -> [n : 0..Word - 1, bytes : 0..Word - 1]]
    BY <1>2, <1>4, <1>9
  <2>2. ASSUME NEW i \in Indices PROVE info[i].n = 0 /\ info[i].bytes = 0
    BY <1>2
  <2> QED BY <1>6, <1>7, <1>8, <2>1, <2>2, Zenon DEF Tallies
<1>11. Fits(bs)
  BY <1>1, <1>4, <1>6, <1>9 DEF Fits
<1> QED BY <1>2, <1>3, <1>10, <1>11 DEF MemoryIInv

LEMMA StillCounted ==
    ASSUME MemoryAssumption, MemoryIInv, MemoryNext PROVE MemoryIInv'
<1>0. open \in BOOLEAN /\ Headed(blocks) /\ Fits(blocks) /\ Tallies(blocks, info)
  BY DEF MemoryIInv
<1>1. CASE init
  BY <1>0, <1>1 DEF init, MemoryIInv
<1>2. CASE destroy_state
  BY <1>0, <1>2 DEF destroy_state, MemoryIInv
<1>3. ASSUME NEW t \in Tags, NEW n \in Sizes, allocate(t, n) PROVE MemoryIInv'
  <2>1. PICK p \in Free :
            blocks' = With(blocks, p, [tag |-> t, size |-> n, header |-> set(t, n)])
    BY <1>3, Zenon DEF allocate
  <2>2. Fits(blocks') /\ info' = Counting(info, set(t, n)) /\ open' = open
    BY <1>3, Zenon DEF allocate
  <2>3. p \in Blocks /\ p \notin DOMAIN blocks
    BY DEF Free
  <2>4. Headed(blocks') /\ Tallies(blocks', info')
    BY <1>0, <2>1, <2>2, <2>3, Counts
  <2> QED BY <1>0, <2>2, <2>4 DEF MemoryIInv
<1>4. ASSUME NEW p \in Blocks, NEW n \in Sizes, reallocate(p, n) PROVE MemoryIInv'
  <2> DEFINE h == blocks[p].header
             t == blocks[p].tag
             moved == set_size(h, n)
             bs == Kept(p)
             v == Discounting(info, h)
  <2>1. p \in DOMAIN blocks /\ Fits(blocks') /\ info' = Counting(v, moved) /\ open' = open
    BY <1>4, Zenon DEF reallocate
  <2>2. PICK q \in Free \cup {p} :
            blocks' = With(bs, q, [tag |-> t, size |-> n, header |-> moved])
    BY <1>4, Zenon DEF reallocate
  <2>3. DOMAIN bs = DOMAIN blocks \ {p} /\ \A b \in DOMAIN bs : bs[b] = blocks[b]
    BY DEF Kept
  <2>4. t \in Tags /\ blocks[p].size \in Sizes /\ h = set(t, blocks[p].size)
    BY <1>0, <2>1 DEF Headed
  <2> HIDE DEF bs
  <2>5. Headed(bs) /\ Tallies(bs, v) /\ p \in Blocks
    BY <1>0, <2>1, <2>3, Discounts
  <2>6. moved = set(t, n)
    <3> HIDE DEF t, h
    <3> QED BY <2>4, HeaderIs DEF moved
  <2>7. q \in Blocks /\ q \notin DOMAIN bs
    BY <2>2, <2>3, <2>5 DEF Free
  <2> HIDE DEF t, h, v, moved
  <2>8. Headed(blocks') /\ Tallies(blocks', info')
    <3>1. blocks' = With(bs, q, [tag |-> t, size |-> n, header |-> set(t, n)])
      BY <2>2, <2>6
    <3>2. info' = Counting(v, set(t, n))
      BY <2>1, <2>6
    <3> QED BY <2>1, <2>4, <2>5, <2>7, <3>1, <3>2, Counts
  <2> QED BY <1>0, <2>1, <2>8 DEF MemoryIInv
<1>5. ASSUME NEW p \in Blocks, deallocate(p) PROVE MemoryIInv'
  <2>1. p \in DOMAIN blocks /\ blocks' = Kept(p) /\ open' = open
        /\ info' = Discounting(info, blocks[p].header)
    BY <1>5, Zenon DEF deallocate
  <2>2. DOMAIN (blocks') = DOMAIN blocks \ {p} /\ \A b \in DOMAIN (blocks') : blocks'[b] = blocks[b]
    BY <2>1 DEF Kept
  <2>3. Headed(blocks') /\ Tallies(blocks', info')
    BY <1>0, <2>1, <2>2, Discounts
  <2>4. Fits(blocks')
    BY <1>0, <2>2, FitsLess
  <2> QED BY <1>0, <2>1, <2>3, <2>4 DEF MemoryIInv
<1> QED BY <1>1, <1>2, <1>3, <1>4, <1>5, Zenon DEF MemoryNext

LEMMA CountedIs ==
    ASSUME MemoryAssumption, MemoryIInv PROVE MemoryInv
<1>1. open \in BOOLEAN /\ Headed(blocks) /\ Tallies(blocks, info)
  BY DEF MemoryIInv
<1>2. MemoryTypeOK
  <2>1. DOMAIN blocks \subseteq Blocks
    BY <1>1 DEF Headed
  <2>2. info \in [Indices -> [n : 0..Word - 1, bytes : 0..Word - 1]]
    BY <1>1, Zenon DEF Tallies
  <2> QED BY <1>1, <2>1, <2>2, Zenon DEF MemoryTypeOK
<1>3. \A i \in Indices : Kind(i) = KindOf(blocks, i)
  BY Zenon DEF Kind, KindOf
<1>4. ASSUME NEW p \in DOMAIN blocks PROVE size(blocks[p].header) = blocks[p].size
  <2>1. /\ blocks[p].tag \in Tags /\ blocks[p].size \in Sizes
        /\ blocks[p].header = set(blocks[p].tag, blocks[p].size)
    BY <1>1 DEF Headed
  <2> QED BY <2>1, HeaderIs, Zenon
<1>5. Counted
  BY <1>1, <1>3, <1>4, Zenon DEF Counted, Tallies
<1> QED BY <1>2, <1>5 DEF MemoryInv
-----------------------------------------------------------------------------
(* The inductive invariant of the stack, the tables and the user data.     *)

(* Values that are on the stack or in tables: that of globals is neither.  *)
Held == Values \ {Globals}

Kinds == {"ref", "pop", "mark", "iter", "seq"}

LocalSet ==
    [kind : Kinds, i : Nat, n : Nat, v : Held, t : Nat, seen : Seq(Keys \X Held)]

(* An object in scope has what it needs in the stack s above the first b.  *)
Slot(s, b, l) ==
    /\ l.kind = "ref" => l.i = b + 1 /\ s[l.i] = l.v
    /\ l.kind = "mark" => l.i = b
    /\ l.kind = "iter" => <<s[l.i], s[l.i + 1]>> = l.seen[Len(l.seen)]
    /\ l.kind = "seq" => s[l.i] = l.seen[Len(l.seen)][2]
    /\ l.kind \in {"iter", "seq"} =>
        l.i = b + 1 /\ l.t \in 1..b /\ s[l.t] = l.v /\ l.seen # <<>>

Placed(s, ls) ==
    /\ Len(s) = Tops(ls)[Len(ls)]
    /\ \A p \in DOMAIN ls : Slot(s, Tops(ls)[p - 1], ls[p])

StackOK(s, ls) ==
    /\ s \in Seq(Held) /\ Len(s) <= MaxStack
    /\ ls \in Seq(LocalSet)
    /\ Placed(s, ls)

HeapOK(h) ==
    /\ h \in [Heap -> [Fields -> Held]]
    /\ h[Globals][Meta] = Meta /\ h[Meta][1] = Meta

(* The keys that a loop went through.  *)
Went(l) == {l.seen[n][1] : n \in DOMAIN l.seen}

InOrder(l) ==
    \A m, n \in DOMAIN l.seen : m < n => l.seen[m][1] < l.seen[n][1]

Passed(l, h) ==
    \A k \in Keys :
        h[l.v][k] # Nil /\ k <= l.seen[Len(l.seen)][1] => k \in Went(l)

Loops(l, h) ==
    /\ l.kind \in {"iter", "seq"} => l.v \in Heap
    /\ l.kind = "iter" => InOrder(l) /\ Passed(l, h)
    /\ l.kind = "seq" => \A n \in DOMAIN l.seen : l.seen[n][1] = n

LoopsOK(ls, h) == \A p \in DOMAIN ls : Loops(ls[p], h)

DataOK(dt, al) ==
    /\ al \in [Objects -> BOOLEAN]
    /\ DOMAIN dt = Data
    /\ \A d \in Data : dt[d] # None =>
        /\ dt[d] \in [object : Objects, own : BOOLEAN]
        /\ dt[d].own <=> dt[d].object \in Copies
        /\ al[dt[d].object]
    /\ \A o \in Copies : al[o] => \E d \in Data : dt[d] # None /\ dt[d].object = o
    /\ \A d, e \in Data :
        dt[d] # None /\ dt[e] # None /\ dt[d].object = dt[e].object
            /\ dt[d].own => d = e
    /\ \A o \in External : al[o]

ReachOK(h, s, dt) ==
    \A d \in Data : d \in ReachedFrom(h, {Globals} \cup ToSet(s)) => dt[d] # None

LuaIInv ==
    /\ StackOK(stack, locals) /\ HeapOK(heap) /\ LoopsOK(locals, heap)
    /\ DataOK(data, alive) /\ ReachOK(heap, stack, data)

-----------------------------------------------------------------------------
(* What can be reached.                                                    *)

LEMMA Kinded ==
    ASSUME LuaAssumption
    PROVE  /\ IsFiniteSet(Heap) /\ Cardinality(Heap) \in Nat /\ Globals \in Heap /\ Meta \in Heap
           /\ Nil \in Held /\ Handler \in Held /\ Meta \in Held
           /\ Keys \subseteq Held \cap Nat /\ Scalars \subseteq Held
           /\ Data \subseteq Held /\ Tables \subseteq Held /\ Held \subseteq Values
           /\ 1 \in Keys /\ Keys \subseteq Fields /\ Meta \in Fields /\ Nil \notin Keys
           /\ Heap \cap Data = {} /\ Globals \notin Held
           /\ MaxStack \in Nat /\ Nil \notin Heap
<1>1. IsFiniteSet(Tables) /\ Meta # Globals
  BY DEF LuaAssumption
<1>2. IsFiniteSet(Tables \cup {Globals})
  BY <1>1, FS_AddElement
<1>3. IsFiniteSet((Tables \cup {Globals}) \cup {Meta})
  BY <1>2, FS_AddElement
<1>4. Heap = (Tables \cup {Globals}) \cup {Meta}
  BY DEF Heap
<1>5. IsFiniteSet(Heap) /\ Cardinality(Heap) \in Nat /\ Globals \in Heap /\ Meta \in Heap
  BY <1>3, <1>4, FS_CardinalityType
<1>6. /\ Nil # Globals /\ Handler # Globals /\ Globals \notin Keys /\ Globals \notin Scalars
      /\ Globals \notin Data /\ Globals \notin Tables
      /\ Heap \cap Data = {} /\ Nil \notin Heap /\ Nil \notin Keys
  BY <1>4 DEF LuaAssumption
<1>7. /\ Nil \in Held /\ Handler \in Held /\ Meta \in Held
      /\ Keys \subseteq Held /\ Scalars \subseteq Held
      /\ Data \subseteq Held /\ Tables \subseteq Held /\ Held \subseteq Values
      /\ Keys \subseteq Fields /\ Meta \in Fields /\ Globals \notin Held
  BY <1>1, <1>6 DEF Held, Values, Fields
<1>8. Keys \subseteq Nat /\ 1 \in Keys /\ MaxStack \in Nat
  <2>1. Keys = 1..Cardinality(Keys) /\ Keys # {} /\ IsFiniteSet(Keys)
    BY DEF LuaAssumption
  <2>2. Cardinality(Keys) \in Nat
    BY <2>1, FS_CardinalityType
  <2> DEFINE n == Cardinality(Keys)
  <2>3. Keys = 1..n /\ n \in Nat
    BY <2>1, <2>2
  <2> HIDE DEF n
  <2>4. n >= 1
    BY <2>1, <2>3
  <2>5. MaxStack \in Nat
    BY DEF LuaAssumption
  <2> QED BY <2>3, <2>4, <2>5
<1> QED BY <1>5, <1>6, <1>7, <1>8

(* A set with what its tables hold. *)
Closed(h, S) == \A t \in S \cap Heap : \A k \in Fields : h[t][k] \in S

LEMMA ClosedIs ==
    ASSUME NEW h, NEW S PROVE Closed(h, S) <=> Contents(h, S) = S
BY DEF Closed, Contents

LEMMA ReachedLeast ==
    ASSUME LuaAssumption, NEW h, NEW r, NEW S, r \subseteq S, Closed(h, S)
    PROVE  ReachedFrom(h, r) \subseteq S
<1> DEFINE N == Cardinality(Heap)
<1>1. N \in Nat
  BY Kinded
<1> HIDE DEF N
<1>2. PICK g : Spreads(g, h, r, N) /\ ReachedFrom(h, r) = g[N]
  BY <1>1, ReachedIs DEF N
<1> DEFINE T == {n \in Nat : n <= N => g[n] \subseteq S}
<1>3. 0 \in T
  <2>1. 0 \in 0..N
    BY <1>1
  <2>2. g[0] = r
    BY <1>1, <1>2, <2>1, SpreadsAt
  <2> QED BY <2>2
<1>4. ASSUME NEW n \in Nat, n \in T PROVE n + 1 \in T
  <2> SUFFICES ASSUME n + 1 <= N PROVE g[n + 1] \subseteq S
    OBVIOUS
  <2>1. n + 1 \in 0..N /\ n + 1 # 0 /\ (n + 1) - 1 = n /\ n <= N
    BY <1>1
  <2>2. g[n + 1] = Contents(h, g[(n + 1) - 1])
    BY <1>1, <1>2, <2>1, SpreadsAt
  <2>3. g[n] \subseteq S
    BY <1>4, <2>1
  <2> DEFINE G == g[n]
  <2>4. g[n + 1] = Contents(h, G)
    BY <2>1, <2>2
  <2> HIDE DEF G
  <2>5. Contents(h, G) \subseteq S
    BY <2>3 DEF Contents, Closed, G
  <2> QED BY <2>4, <2>5
<1>5. N \in T
  <2> HIDE DEF T
  <2> QED BY <1>1, <1>3, <1>4, SetInduction
<1> QED BY <1>1, <1>2, <1>5

(* As many steps as there are tables are enough. *)
LEMMA ReachedClosed ==
    ASSUME LuaAssumption, NEW h, NEW r, Globals \in r
    PROVE  r \subseteq ReachedFrom(h, r) /\ Closed(h, ReachedFrom(h, r))
<1> DEFINE N == Cardinality(Heap)
           C(S) == Cardinality(S \cap Heap)
<1>1. N \in Nat /\ IsFiniteSet(Heap) /\ Globals \in Heap
  BY Kinded
<1>2. ASSUME NEW S
      PROVE  IsFiniteSet(S \cap Heap) /\ C(S) \in Nat /\ C(S) <= N
  <2>1. (S \cap Heap) \in SUBSET Heap
    OBVIOUS
  <2>2. IsFiniteSet(S \cap Heap) /\ Cardinality(S \cap Heap) <= Cardinality(Heap)
    BY <1>1, <2>1, FS_Subset
  <2> QED BY <2>2, FS_CardinalityType
<1>3. ASSUME NEW S, NEW T, S \subseteq T
      PROVE  C(S) < C(T) \/ S \cap Heap = T \cap Heap
  <2> DEFINE A == S \cap Heap
             B == T \cap Heap
  <2>1. A \in SUBSET B /\ IsFiniteSet(B)
    BY <1>2, <1>3
  <2>2. C(S) \in Nat /\ C(T) \in Nat
    BY <1>2
  <2> HIDE DEF A, B
  <2>3. Cardinality(A) <= Cardinality(B) /\ (Cardinality(B) = Cardinality(A) => B = A)
    BY <2>1, FS_Subset
  <2> QED BY <2>2, <2>3 DEF A, B
<1> HIDE DEF N
<1>4. PICK g : Spreads(g, h, r, N) /\ ReachedFrom(h, r) = g[N]
  BY <1>1, ReachedIs DEF N
<1> DEFINE T == {n \in Nat : n <= N => r \subseteq g[n] /\ (C(g[n]) > n \/ Closed(h, g[n]))}
<1>5. 0 \in T
  <2>1. 0 \in 0..N
    BY <1>1
  <2>2. g[0] = r
    BY <1>1, <1>4, <2>1, SpreadsAt
  <2>3. C(r) # 0
    <3>1. Globals \in r \cap Heap
      BY <1>1
    <3>2. IsFiniteSet(r \cap Heap)
      BY <1>2
    <3> QED BY <3>1, <3>2, FS_EmptySet
  <2>4. C(r) > 0
    <3>1. C(r) \in Nat
      BY <1>2
    <3> HIDE DEF C
    <3> QED BY <2>3, <3>1
  <2> QED BY <2>2, <2>4
<1>6. ASSUME NEW n \in Nat, n \in T PROVE n + 1 \in T
  <2> SUFFICES ASSUME n + 1 <= N
               PROVE  r \subseteq g[n + 1] /\ (C(g[n + 1]) > n + 1 \/ Closed(h, g[n + 1]))
    OBVIOUS
  <2>1. n + 1 \in 0..N /\ n + 1 # 0 /\ (n + 1) - 1 = n /\ n <= N
    BY <1>1
  <2>2. g[n + 1] = Contents(h, g[(n + 1) - 1])
    BY <1>1, <1>4, <2>1, SpreadsAt
  <2>3. r \subseteq g[n] /\ (C(g[n]) > n \/ Closed(h, g[n]))
    BY <1>6, <2>1
  <2> DEFINE A == g[n]
             B == g[n + 1]
  <2>4. B = Contents(h, A)
    BY <2>1, <2>2
  <2>5. r \subseteq A /\ (C(A) > n \/ Closed(h, A))
    BY <2>3
  <2> HIDE DEF A, B, C
  <2>6. A \subseteq B
    BY <2>4 DEF Contents
  <2>7. CASE Closed(h, A)
    <3>1. B = A
      BY <2>4, <2>7, ClosedIs
    <3> QED BY <2>5, <2>7, <3>1 DEF B
  <2>8. CASE C(A) > n /\ C(A) < C(B)
    <3>1. C(A) \in Nat /\ C(B) \in Nat
      BY <1>2
    <3>2. C(B) > n + 1
      BY <2>8, <3>1
    <3> QED BY <2>5, <2>6, <3>2 DEF B
  <2>9. CASE A \cap Heap = B \cap Heap
    <3>1. Closed(h, B)
      <4> SUFFICES ASSUME NEW t \in B \cap Heap, NEW k \in Fields PROVE h[t][k] \in B
        BY DEF Closed
      <4>1. t \in A \cap Heap
        BY <2>9
      <4> QED BY <2>4, <4>1 DEF Contents
    <3> QED BY <2>5, <2>6, <3>1 DEF B
  <2> QED BY <1>3, <2>5, <2>6, <2>7, <2>8, <2>9
<1>7. N \in T
  <2> HIDE DEF T
  <2> QED BY <1>1, <1>5, <1>6, SetInduction
<1>8. r \subseteq g[N] /\ (C(g[N]) > N \/ Closed(h, g[N]))
  BY <1>1, <1>7
<1>9. ~(C(g[N]) > N)
  <2> DEFINE c == C(g[N])
  <2>1. c \in Nat /\ c <= N
    BY <1>2
  <2> HIDE DEF c
  <2>2. ~(c > N)
    BY <1>1, <2>1
  <2> QED BY <2>2 DEF c
<1> QED BY <1>4, <1>8, <1>9
-----------------------------------------------------------------------------
(* Where a table is, and what its fields are in the end: on the stack.     *)

(* Table x is at t: at an index of the stack s, or it is that of globals.  *)
At(s, t, x) ==
    \/ t \in 1..Len(s) /\ t <= MaxStack /\ s[t] = x
    \/ t = Table /\ x = Globals

(* What is pushed last is at its place, under nothing. *)
LEMMA Pushed ==
    ASSUME NEW S, NEW s \in Seq(S), NEW x \in S
    PROVE  LET u == Append(s, x) IN
           /\ u \in Seq(S) /\ Len(u) = Len(s) + 1 /\ u[Len(s) + 1] = x /\ Last(u) = x
           /\ \A i \in 1..Len(s) : u[i] = s[i]
           /\ Len(s) \in Nat
BY AppendProperties, LenProperties DEF Last

LEMMA FetchAt ==
    ASSUME LuaAssumption, HeapOK(heap), NEW s \in Seq(Values), NEW t, NEW x \in Heap,
           At(s, t, x), NEW k \in Fields
    PROVE  Fetch(s, t, k) = Append(s, heap[x][k]) /\ heap[x][k] \in Held
<1>1. heap[x][k] \in Held /\ heap[x][k] \in Values /\ MaxStack \in Nat
  BY Kinded DEF HeapOK
<1> DEFINE v == heap[x][k]
           n == Len(s)
<1>2. n \in Nat
  BY LenProperties
<1>3. CASE t \in 1..Len(s) /\ t <= MaxStack /\ s[t] = x
  <2>1. t # Top /\ t # Table /\ t \notin {Top, Table}
    BY <1>1, <1>3 DEF Top, Table
  <2>2. Begin(s, t) = s /\ Index(s, t) = t
    BY <2>1, Zenon DEF Begin, Index
  <2>3. End(Append(s, v), t, t) = Append(s, v)
    BY <2>1, Zenon DEF End
  <2>4. Fetch(s, t, k) = End(Append(s, heap[s[t]][k]), t, t)
    BY <2>2, Zenon DEF Fetch
  <2> QED BY <1>1, <1>3, <2>3, <2>4
<1>4. CASE t = Table /\ x = Globals
  <2> DEFINE u == Append(s, Globals)
  <2>1. Globals \in Values
    BY DEF Values
  <2>2. u \in Seq(Values) /\ Len(u) = n + 1 /\ u[n + 1] = Globals
    BY <2>1, Pushed
  <2>3. RemoveAt(Append(u, v), n + 1) = Append(s, v)
    BY <1>1, <2>1, Removed
  <2> HIDE DEF u, n
  <2>4. Begin(s, t) = u /\ Index(u, t) = n + 1
    BY <1>4, <2>2 DEF Begin, Index, u
  <2>5. Fetch(s, t, k) = End(Append(u, heap[u[n + 1]][k]), t, n + 1)
    BY <2>4, Zenon DEF Fetch
  <2>6. Fetch(s, t, k) = End(Append(u, v), t, n + 1)
    BY <1>4, <2>2, <2>5
  <2>7. End(Append(u, v), t, n + 1) = RemoveAt(Append(u, v), n + 1)
    BY <1>4, Zenon DEF End
  <2> QED BY <1>1, <2>3, <2>6, <2>7
<1> QED BY <1>3, <1>4 DEF At

LEMMA FetchTop ==
    ASSUME LuaAssumption, HeapOK(heap), NEW s \in Seq(Values), NEW x \in Heap \cap Values,
           NEW k \in Fields
    PROVE  Fetch(Append(s, x), Top, k) = Append(s, heap[x][k])
<1>1. heap[x][k] \in Values /\ MaxStack \in Nat
  BY Kinded DEF HeapOK
<1> DEFINE v == heap[x][k]
           n == Len(s)
           u == Append(s, x)
<1>2. u \in Seq(Values) /\ Len(u) = n + 1 /\ u[n + 1] = x
  BY Pushed
<1>3. RemoveAt(Append(u, v), n + 1) = Append(s, v)
  BY <1>1, Removed
<1>4. Top # Table
  BY <1>1 DEF Top, Table
<1> HIDE DEF u, n
<1>5. Begin(u, Top) = u /\ Index(u, Top) = n + 1
  BY <1>2, <1>4 DEF Begin, Index
<1>6. Fetch(u, Top, k) = End(Append(u, heap[u[n + 1]][k]), Top, n + 1)
  BY <1>5, Zenon DEF Fetch
<1>7. End(Append(u, v), Top, n + 1) = RemoveAt(Append(u, v), n + 1)
  BY Zenon DEF End
<1> QED BY <1>2, <1>3, <1>6, <1>7 DEF u

(* Keys that may be given. *)
LEMMA PathIs ==
    ASSUME LuaAssumption, NEW ks \in Paths
    PROVE  /\ ks \in Seq(Keys) /\ Len(ks) \in Nat /\ Len(ks) >= 1
           /\ \A n \in 1..Len(ks) : ks[n] \in Fields
           /\ Last(ks) = ks[Len(ks)] /\ ks[Len(ks)] \in Keys
<1>1. MaxPath \in Nat
  BY DEF LuaAssumption
<1>2. PICK m \in 1..MaxPath : ks \in [1..m -> Keys]
  BY DEF Paths
<1>3. m \in Nat /\ m >= 1 /\ ks \in Seq(Keys) /\ Len(ks) = m
  BY <1>1, <1>2
<1>4. \A n \in 1..m : ks[n] \in Keys
  BY <1>2
<1> QED BY <1>3, <1>4, Kinded DEF Last

LEMMA AlongTables ==
    ASSUME LuaAssumption, HeapOK(heap), NEW v \in Heap, NEW ks \in Paths, IsPath(v, ks)
    PROVE  /\ Along(v, ks)[0] = v
           /\ \A n \in 1..Len(ks) :
                /\ Along(v, ks)[n - 1] \in Heap
                /\ Along(v, ks)[n] = heap[Along(v, ks)[n - 1]][ks[n]]
                /\ Along(v, ks)[n] \in Held
           /\ Holder(v, ks) \in Heap /\ Field(v, ks) = heap[Holder(v, ks)][Last(ks)]
           /\ Field(v, ks) \in Held
<1> DEFINE g == Along(v, ks)
           N == Len(ks)
<1>1. N \in Nat /\ N >= 1 /\ Last(ks) = ks[N] /\ \A n \in 1..N : ks[n] \in Fields
  BY PathIs
<1>2. Goes(g, v, ks, N)
  BY <1>1, AlongIs
<1>3. \A n \in 0..N - 1 : g[n] \in Heap
  BY Zenon DEF IsPath
<1>4. Holder(v, ks) = g[N - 1] /\ Field(v, ks) = g[N]
  BY Zenon DEF Holder, Field
<1> HIDE DEF g, N
<1>5. g[0] = v
  <2>1. 0 \in 0..N
    BY <1>1
  <2> QED BY <1>1, <1>2, <2>1, GoesAt
<1>6. ASSUME NEW n \in 1..N
      PROVE  g[n - 1] \in Heap /\ g[n] = heap[g[n - 1]][ks[n]] /\ g[n] \in Held
  <2>1. n \in 0..N /\ n # 0 /\ n - 1 \in 0..N - 1
    BY <1>1
  <2>2. g[n] = heap[g[n - 1]][ks[n]]
    BY <1>1, <1>2, <2>1, GoesAt
  <2>3. g[n - 1] \in Heap /\ ks[n] \in Fields
    BY <1>1, <1>3, <2>1
  <2> QED BY <2>2, <2>3 DEF HeapOK
<1>7. N \in 1..N
  BY <1>1
<1>8. Holder(v, ks) \in Heap /\ Field(v, ks) = heap[Holder(v, ks)][Last(ks)]
      /\ Field(v, ks) \in Held
  BY <1>1, <1>4, <1>6, <1>7
<1> QED BY <1>5, <1>6, <1>8 DEF g, N

(* The stack under the value of each key is as it was. *)
LEMMA WalkThrough ==
    ASSUME LuaAssumption, HeapOK(heap), NEW s \in Seq(Values), NEW t, NEW v \in Heap,
           At(s, t, v), NEW ks \in Paths, IsPath(v, ks)
    PROVE  \A n \in 1..Len(ks) : Walk(s, t, ks)[n] = Append(s, Along(v, ks)[n])
<1> DEFINE w == Walk(s, t, ks)
           g == Along(v, ks)
           N == Len(ks)
<1>1. N \in Nat /\ N >= 1 /\ \A n \in 1..N : ks[n] \in Fields
  BY PathIs
<1>2. /\ g[0] = v
      /\ \A n \in 1..N : /\ g[n - 1] \in Heap /\ g[n] = heap[g[n - 1]][ks[n]]
                         /\ g[n] \in Held
  BY AlongTables
<1>3. Walks(w, s, t, ks, N)
  BY <1>1, WalkIs
<1> HIDE DEF w, g, N
<1> DEFINE T == {n \in Nat : n + 1 <= N => w[n + 1] = Append(s, g[n + 1])}
<1>4. 0 \in T
  <2>1. 0 \in 0..N /\ 1 \in 0..N /\ 1 # 0 /\ 1 \in 1..N /\ 1 - 1 = 0 /\ 0 + 1 = 1
    BY <1>1
  <2>2. w[0] = s
    BY <1>1, <1>3, <2>1, WalksAt
  <2>3. w[1] = Fetch(w[1 - 1], IF 1 = 1 THEN t ELSE Top, ks[1])
    BY <1>1, <1>3, <2>1, WalksAt
  <2>4. w[1] = Fetch(s, t, ks[1])
    BY <2>1, <2>2, <2>3
  <2>5. Fetch(s, t, ks[1]) = Append(s, heap[v][ks[1]])
    BY <1>1, <2>1, FetchAt
  <2>6. g[1] = heap[v][ks[1]]
    BY <1>2, <2>1
  <2>7. w[0 + 1] = Append(s, g[0 + 1])
    BY <2>1, <2>4, <2>5, <2>6
  <2> QED BY <2>7
<1>5. ASSUME NEW n \in Nat, n \in T PROVE n + 1 \in T
  <2> DEFINE m == (n + 1) + 1
  <2> SUFFICES ASSUME m <= N PROVE w[m] = Append(s, g[m])
    OBVIOUS
  <2>1. m \in 0..N /\ m # 0 /\ m # 1 /\ m - 1 = n + 1 /\ n + 1 <= N /\ m \in 1..N
        /\ n + 1 \in 1..N
    BY <1>1
  <2>2. w[n + 1] = Append(s, g[n + 1])
    BY <1>5, <2>1
  <2> HIDE DEF m
  <2>3. w[m] = Fetch(w[m - 1], IF m = 1 THEN t ELSE Top, ks[m])
    BY <1>1, <1>3, <2>1, WalksAt
  <2> DEFINE y == g[n + 1]
  <2>4. w[m] = Fetch(Append(s, y), Top, ks[m])
    BY <2>1, <2>2, <2>3
  <2>5. y \in Heap /\ y \in Held /\ g[m] = heap[y][ks[m]] /\ ks[m] \in Fields
    BY <1>1, <1>2, <2>1
  <2> HIDE DEF y
  <2>6. y \in Heap \cap Values
    BY <2>5 DEF Held
  <2>7. Fetch(Append(s, y), Top, ks[m]) = Append(s, heap[y][ks[m]])
    BY <2>5, <2>6, FetchTop
  <2> QED BY <2>4, <2>5, <2>7
<1>6. \A n \in Nat : n \in T
  <2> HIDE DEF T
  <2> QED BY <1>4, <1>5, SetInduction
<1>7. ASSUME NEW n \in 1..N PROVE w[n] = Append(s, g[n])
  <2>1. n - 1 \in Nat /\ (n - 1) + 1 = n /\ n <= N
    BY <1>1
  <2>2. n - 1 \in T
    BY <1>6, <2>1
  <2> QED BY <2>1, <2>2
<1> QED BY <1>7 DEF w, g, N

(* push_sub() and get_common(): a field at the end of a path is pushed. *)
LEMMA PathPushes ==
    ASSUME LuaAssumption, HeapOK(heap), NEW s \in Seq(Values), NEW t, NEW v \in Heap,
           At(s, t, v), NEW ks \in Paths, IsPath(v, ks)
    PROVE  Path(s, t, ks) = Append(s, Field(v, ks)) /\ Field(v, ks) \in Held
<1> DEFINE N == Len(ks)
<1>1. N \in 1..N
  BY PathIs
<1>2. Walk(s, t, ks)[N] = Append(s, Along(v, ks)[N])
  <2> HIDE DEF N
  <2> QED BY <1>1, WalkThrough DEF N
<1>3. Field(v, ks) \in Held
  BY AlongTables
<1> QED BY <1>2, <1>3, Zenon DEF Path, Field

(* set_common(): the stack is as it was, and a field is the value. *)
LEMMA StoredAt ==
    ASSUME LuaAssumption, HeapOK(heap), NEW s \in Seq(Values), NEW t, NEW x \in Heap,
           At(s, t, x), NEW k \in Fields, NEW v \in Held
    PROVE  Stored(s, t, k, v) = [heap |-> [heap EXCEPT ![x][k] = v], stack |-> s]
<1>1. k \in Values /\ v \in Values /\ MaxStack \in Nat
  BY Kinded DEF Fields, Held, Values
<1> DEFINE n == Len(s)
           kv == <<k, v>>
<1>2. n \in Nat /\ kv \in Seq(Values) /\ Len(kv) = 2 /\ kv[1] = k /\ kv[2] = v
  BY <1>1, LenProperties
<1>3. CASE t \in 1..Len(s) /\ t <= MaxStack /\ s[t] = x
  <2>1. t # Top /\ t # Table /\ t \notin {Top, Table}
    BY <1>1, <1>3 DEF Top, Table
  <2>2. Begin(s, t) = s /\ Index(s, t) = t /\ End(Pop(s \o kv, 2), t, t) = Pop(s \o kv, 2)
    BY <2>1, Zenon DEF Begin, Index, End
  <2> DEFINE u == s \o kv
  <2>3. Pop(u, 2) = s
    <3>1. Pop(s \o kv, Len(kv)) = s
      <4> HIDE DEF kv
      <4> QED BY <1>2, Popped
    <3> QED BY <1>2, <3>1
  <2>4. Len(u) = n + 2 /\ u[t] = x /\ u[n + 1] = k /\ u[n + 2] = v
    <3> HIDE DEF kv
    <3>0. Len(u) = Len(s) + Len(kv)
          /\ \A i \in 1..Len(s) + Len(kv) : u[i] = IF i <= Len(s) THEN s[i] ELSE kv[i - Len(s)]
      BY <1>2, ConcatProperties
    <3> HIDE DEF u
    <3>1. Len(u) = n + 2 /\ \A i \in 1..n + 2 : u[i] = IF i <= n THEN s[i] ELSE kv[i - n]
      BY <1>2, <3>0
    <3>2. (n + 1) - n = 1 /\ (n + 2) - n = 2 /\ ~(n + 1 <= n) /\ ~(n + 2 <= n)
          /\ n + 1 \in 1..n + 2 /\ n + 2 \in 1..n + 2 /\ t \in 1..n + 2 /\ t <= n
      BY <1>2, <1>3
    <3>3. u[n + 1] = kv[(n + 1) - n] /\ u[n + 2] = kv[(n + 2) - n] /\ u[t] = s[t]
      BY <3>1, <3>2
    <3> QED BY <1>2, <1>3, <3>1, <3>2, <3>3
  <2>5. (n + 2) - 1 = n + 1
    BY <1>2
  <2> HIDE DEF u, n
  <2>6. Stored(s, t, k, v) =
            [heap |-> [heap EXCEPT ![u[t]][u[Len(u) - 1]] = u[Len(u)]],
             stack |-> End(Pop(u, 2), t, t)]
    BY <2>2, Zenon DEF Stored, u
  <2> QED BY <2>2, <2>3, <2>4, <2>5, <2>6 DEF u
<1>4. CASE t = Table /\ x = Globals
  <2> DEFINE r == Append(s, Globals)
             u == r \o kv
  <2>1. Globals \in Values
    BY DEF Values
  <2>2. r \in Seq(Values) /\ Len(r) = n + 1 /\ r[n + 1] = Globals
    BY <2>1, Pushed
  <2>3. RemoveAt(r, n + 1) = s
    BY <1>1, <2>1, Removed
  <2> HIDE DEF r
  <2>4. Pop(u, 2) = r
    <3>1. Pop(r \o kv, Len(kv)) = r
      <4> HIDE DEF kv
      <4> QED BY <1>2, <2>2, Popped
    <3> QED BY <1>2, <3>1
  <2> DEFINE m == n + 1
  <2>5. Len(u) = m + 2 /\ u[m] = Globals /\ u[m + 1] = k /\ u[m + 2] = v
    <3> HIDE DEF kv
    <3>0. m \in Nat /\ Len(r) = m /\ m >= 1
      BY <1>2, <2>2
    <3>1. Len(u) = Len(r) + Len(kv)
          /\ \A i \in 1..Len(r) + Len(kv) : u[i] = IF i <= Len(r) THEN r[i] ELSE kv[i - Len(r)]
      BY <1>2, <2>2, ConcatProperties
    <3> HIDE DEF u, m
    <3>2. (m + 1) - m = 1 /\ (m + 2) - m = 2 /\ ~(m + 1 <= m) /\ ~(m + 2 <= m)
          /\ m + 1 \in 1..m + 2 /\ m + 2 \in 1..m + 2 /\ m \in 1..m + 2 /\ m <= m
      BY <3>0
    <3>3. u[m + 1] = kv[(m + 1) - m] /\ u[m + 2] = kv[(m + 2) - m] /\ u[m] = r[m]
      BY <1>2, <3>0, <3>1, <3>2
    <3> QED BY <1>2, <2>2, <3>0, <3>1, <3>2, <3>3 DEF m
  <2>6. (m + 2) - 1 = m + 1
    BY <1>2
  <2>7. Begin(s, t) = r /\ Index(r, t) = m
    BY <1>4, <2>2, Zenon DEF Begin, Index, r
  <2>8. End(r, t, m) = RemoveAt(r, m)
    BY <1>4, Zenon DEF End
  <2> HIDE DEF u, m
  <2>9. Stored(s, t, k, v) =
            [heap |-> [heap EXCEPT ![u[m]][u[Len(u) - 1]] = u[Len(u)]],
             stack |-> End(Pop(u, 2), t, m)]
    BY <2>7, Zenon DEF Stored, u
  <2>10. End(Pop(u, 2), t, m) = s
    BY <2>3, <2>4, <2>8 DEF m
  <2> QED BY <1>4, <2>5, <2>6, <2>9, <2>10
<1> QED BY <1>3, <1>4 DEF At

LEMMA StoredTop ==
    ASSUME LuaAssumption, HeapOK(heap), NEW s \in Seq(Values), NEW x \in Heap \cap Values,
           NEW k \in Fields, NEW v \in Held
    PROVE  Stored(Append(s, x), Top, k, v) =
                [heap |-> [heap EXCEPT ![x][k] = v], stack |-> s]
<1>1. k \in Values /\ v \in Values /\ MaxStack \in Nat
  BY Kinded DEF Fields, Held, Values
<1> DEFINE n == Len(s)
           kv == <<k, v>>
           r == Append(s, x)
           u == r \o kv
<1>2. n \in Nat /\ kv \in Seq(Values) /\ Len(kv) = 2 /\ kv[1] = k /\ kv[2] = v
  BY <1>1, LenProperties
<1>3. r \in Seq(Values) /\ Len(r) = n + 1 /\ r[n + 1] = x
  BY Pushed
<1>4. RemoveAt(r, n + 1) = s
  BY <1>1, Removed
<1> HIDE DEF r
<1>5. Pop(u, 2) = r
  <2>1. Pop(r \o kv, Len(kv)) = r
    <3> HIDE DEF kv
    <3> QED BY <1>2, <1>3, Popped
  <2> QED BY <1>2, <2>1
<1> DEFINE m == n + 1
<1>6. Len(u) = m + 2 /\ u[m] = x /\ u[m + 1] = k /\ u[m + 2] = v
  <2> HIDE DEF kv
  <2>0. m \in Nat /\ Len(r) = m /\ m >= 1
    BY <1>2, <1>3
  <2>1. Len(u) = Len(r) + Len(kv)
        /\ \A i \in 1..Len(r) + Len(kv) : u[i] = IF i <= Len(r) THEN r[i] ELSE kv[i - Len(r)]
    BY <1>2, <1>3, ConcatProperties
  <2> HIDE DEF u, m
  <2>2. (m + 1) - m = 1 /\ (m + 2) - m = 2 /\ ~(m + 1 <= m) /\ ~(m + 2 <= m)
        /\ m + 1 \in 1..m + 2 /\ m + 2 \in 1..m + 2 /\ m \in 1..m + 2 /\ m <= m
    BY <2>0
  <2>3. u[m + 1] = kv[(m + 1) - m] /\ u[m + 2] = kv[(m + 2) - m] /\ u[m] = r[m]
    BY <1>2, <2>0, <2>1, <2>2
  <2> QED BY <1>2, <1>3, <2>0, <2>1, <2>2, <2>3 DEF m
<1>7. (m + 2) - 1 = m + 1
  BY <1>2
<1>8. Top # Table
  BY <1>1 DEF Top, Table
<1>9. Begin(r, Top) = r /\ Index(r, Top) = m
  BY <1>3, <1>8, Zenon DEF Begin, Index
<1>10. End(r, Top, m) = RemoveAt(r, m)
  BY Zenon DEF End
<1> HIDE DEF u, m
<1>11. Stored(r, Top, k, v) =
            [heap |-> [heap EXCEPT ![u[m]][u[Len(u) - 1]] = u[Len(u)]],
             stack |-> End(Pop(u, 2), Top, m)]
  BY <1>9, Zenon DEF Stored, u
<1>12. End(Pop(u, 2), Top, m) = s
  BY <1>4, <1>5, <1>10 DEF m
<1> QED BY <1>6, <1>7, <1>11, <1>12 DEF r

LEMMA StoredPathAt ==
    ASSUME LuaAssumption, HeapOK(heap), stack \in Seq(Values), NEW t, NEW x \in Heap,
           At(stack, t, x), NEW ks \in Paths, IsPath(x, ks), NEW v \in Held
    PROVE  StoredPath(t, ks, v) =
                [heap |-> [heap EXCEPT ![Holder(x, ks)][Last(ks)] = v], stack |-> stack]
<1> DEFINE N == Len(ks)
           g == Along(x, ks)
<1>1. N \in Nat /\ N >= 1 /\ Last(ks) = ks[N] /\ Last(ks) \in Fields
  BY PathIs, Kinded
<1>2. g[0] = x /\ \A n \in 1..N : g[n - 1] \in Heap /\ g[n] \in Held
  BY AlongTables
<1>3. Holder(x, ks) = g[N - 1]
  BY Zenon DEF Holder
<1> HIDE DEF g, N
<1>4. CASE N = 1
  <2>1. StoredPath(t, ks, v) = Stored(stack, t, ks[1], v)
    BY <1>4 DEF StoredPath, N
  <2>2. ks[1] = Last(ks) /\ Holder(x, ks) = x
    <3>1. N - 1 = 0
      BY <1>4
    <3> QED BY <1>1, <1>2, <1>3, <1>4, <3>1
  <2> QED BY <1>1, <2>1, <2>2, StoredAt
<1>5. CASE N # 1
  <2>1. StoredPath(t, ks, v) = Stored(Walk(stack, t, ks)[N - 1], Top, Last(ks), v)
    BY <1>5 DEF StoredPath, N
  <2>2. N - 1 \in 1..N /\ N \in 1..N
    BY <1>1, <1>5
  <2>3. Walk(stack, t, ks)[N - 1] = Append(stack, g[N - 1])
    BY <2>2, WalkThrough DEF N, g
  <2> DEFINE y == g[N - 1]
  <2>4. y \in Heap /\ y \in Held /\ Holder(x, ks) = y
    BY <1>2, <1>3, <2>2
  <2> HIDE DEF y
  <2>5. y \in Heap \cap Values
    BY <2>4 DEF Held
  <2>6. Stored(Append(stack, y), Top, Last(ks), v) =
            [heap |-> [heap EXCEPT ![y][Last(ks)] = v], stack |-> stack]
    BY <1>1, <2>5, StoredTop
  <2> QED BY <2>1, <2>3, <2>4, <2>6 DEF y
<1> QED BY <1>4, <1>5

(* user_data::push() and check_type(): meta tables come and go. *)
LEMMA UserIs ==
    ASSUME LuaAssumption, HeapOK(heap), NEW s \in Seq(Values), NEW d \in Values
    PROVE  PushUser(s, d) = Append(s, d) /\ \A i : Checked(s, i) = s
<1>1. Globals \in Heap /\ Meta \in Fields /\ Meta \in Values /\ heap[Globals][Meta] = Meta
  BY Kinded DEF HeapOK, Values
<1>2. ASSUME NEW r \in Seq(Values) PROVE Fetch(r, Table, Meta) = Append(r, Meta)
  BY <1>1, FetchAt DEF At
<1>3. Append(s, d) \in Seq(Values) /\ Append(s, Meta) \in Seq(Values)
  BY <1>1, Pushed
<1>4. PushUser(s, d) = Append(s, d)
  <2> DEFINE u == Append(s, d)
  <2>1. PushUser(s, d) = Pop(Append(u, Meta), 1) /\ u \in Seq(Values)
    BY <1>2, <1>3, Zenon DEF PushUser
  <2> HIDE DEF u
  <2>2. Pop(Append(u, Meta), 1) = u
    BY <1>1, <2>1, PushPop
  <2> QED BY <2>1, <2>2 DEF u
<1>5. ASSUME NEW i PROVE Checked(s, i) = s
  <2>1. Checked(s, i) = Pop(Append(Append(s, Meta), Meta), 2)
    BY <1>2, <1>3, Zenon DEF Checked
  <2>2. Pop(Append(Append(s, Meta), Meta), 2) = s
    BY <1>1, PushesPop
  <2> QED BY <2>1, <2>2
<1> QED BY <1>4, <1>5
-----------------------------------------------------------------------------
(* Places in the stack, when objects are constructed and destroyed.        *)

LEMMA SlotsAre ==
    ASSUME NEW l \in LocalSet
    PROVE  /\ Slots(l) \in Nat
           /\ l.kind = "ref" => Slots(l) = 1
           /\ l.kind = "pop" => Slots(l) = l.n
           /\ l.kind = "mark" => Slots(l) = 0
           /\ l.kind = "iter" => Slots(l) = 2
           /\ l.kind = "seq" => Slots(l) = 1
BY DEF LocalSet, Slots, Kinds

LEMMA TopsOf ==
    ASSUME NEW ls \in Seq(LocalSet)
    PROVE  /\ Tops(ls)[0] = 0 /\ Len(ls) \in Nat
           /\ \A p \in 0..Len(ls) : Tops(ls)[p] \in Nat
           /\ \A p \in 1..Len(ls) : /\ ls[p] \in LocalSet
                                    /\ Tops(ls)[p] = Tops(ls)[p - 1] + Slots(ls[p])
<1> DEFINE n == Len(ls)
           f == [p \in 1..n |-> Slots(ls[p])]
<1>1. n \in Nat /\ \A p \in 1..n : ls[p] \in LocalSet
  BY ElementOfSeq, LenProperties
<1>2. \A p \in 1..n : Slots(ls[p]) \in Nat
  BY <1>1, SlotsAre
<1>3. Prefix(Tops(ls), f, n)
  BY <1>1, <1>2, TopsAre
<1>4. \A p \in 1..n : f[p] = Slots(ls[p])
  OBVIOUS
<1> HIDE DEF f
<1> QED BY <1>1, <1>3, <1>4 DEF Prefix

LEMMA TopsOrdered ==
    ASSUME NEW ls \in Seq(LocalSet), NEW p \in 0..Len(ls)
    PROVE  Tops(ls)[p] <= Tops(ls)[Len(ls)]
<1> DEFINE n == Len(ls)
           g == Tops(ls)
           S == {k \in Nat : p + k <= n => g[p] <= g[p + k]}
<1>1. /\ n \in Nat /\ \A q \in 0..n : g[q] \in Nat
      /\ \A q \in 1..n : g[q] = g[q - 1] + Slots(ls[q]) /\ Slots(ls[q]) \in Nat
  BY TopsOf, SlotsAre
<1> HIDE DEF g, n
<1>2. p \in 0..n
  BY DEF n
<1>3. 0 \in S
  <2>1. p + 0 = p /\ g[p] <= g[p]
    BY <1>1, <1>2
  <2> QED BY <2>1
<1>4. ASSUME NEW k \in Nat, k \in S PROVE k + 1 \in S
  <2> SUFFICES ASSUME p + (k + 1) <= n PROVE g[p] <= g[p + (k + 1)]
    OBVIOUS
  <2> DEFINE q == p + (k + 1)
  <2>1. q \in 1..n /\ q - 1 = p + k /\ p + k <= n /\ p + k \in 0..n /\ q \in 0..n
    BY <1>1, <1>2
  <2>2. g[p] <= g[p + k]
    BY <1>4, <2>1
  <2> HIDE DEF q
  <2>3. g[q] = g[q - 1] + Slots(ls[q]) /\ Slots(ls[q]) \in Nat
    BY <1>1, <2>1
  <2>4. g[q] = g[p + k] + Slots(ls[q])
    BY <2>1, <2>3
  <2>5. g[p + k] \in Nat /\ g[p] \in Nat
    BY <1>1, <1>2, <2>1
  <2>6. g[p] <= g[q]
    BY <2>2, <2>3, <2>4, <2>5
  <2> QED BY <2>6 DEF q
<1>5. n - p \in S
  <2>1. n - p \in Nat
    BY <1>1, <1>2
  <2> HIDE DEF S
  <2> QED BY <1>3, <1>4, <2>1, SetInduction
<1>6. p + (n - p) = n
  BY <1>1, <1>2
<1>7. g[p] <= g[p + (n - p)]
  <2>1. p + (n - p) <= n
    BY <1>1, <1>2
  <2> QED BY <1>5, <2>1
<1> QED BY <1>6, <1>7 DEF g, n

LEMMA TopsAppend ==
    ASSUME NEW ls \in Seq(LocalSet), NEW l \in LocalSet
    PROVE  LET ms == Append(ls, l) IN
           /\ ms \in Seq(LocalSet) /\ Len(ms) = Len(ls) + 1
           /\ Last(ms) = l /\ Front(ms) = ls /\ ms[Len(ms)] = l
           /\ \A p \in 1..Len(ls) : ms[p] = ls[p]
           /\ \A p \in 0..Len(ls) : Tops(ms)[p] = Tops(ls)[p]
           /\ Tops(ms)[Len(ls) + 1] = Tops(ls)[Len(ls)] + Slots(l)
<1> DEFINE ms == Append(ls, l)
           n == Len(ls)
<1>1. /\ ms \in Seq(LocalSet) /\ Len(ms) = n + 1 /\ ms[n + 1] = l /\ Last(ms) = l
      /\ \A i \in 1..n : ms[i] = ls[i]
      /\ n \in Nat
  BY Pushed
<1>2. Front(ms) = ls
  <2>1. Front(ms) = SubSeq(ms, 1, Len(ms) - 1)
    BY Zenon DEF Front
  <2>2. Pop(ms, 1) = ls
    BY PushPop
  <2> QED BY <2>1, <2>2 DEF Pop
<1>3. /\ Tops(ls)[0] = 0
      /\ \A p \in 1..n : Tops(ls)[p] = Tops(ls)[p - 1] + Slots(ls[p])
  BY TopsOf
<1>4. /\ Tops(ms)[0] = 0
      /\ \A p \in 1..n + 1 : Tops(ms)[p] = Tops(ms)[p - 1] + Slots(ms[p])
  <2> HIDE DEF ms, n
  <2>1. /\ Tops(ms)[0] = 0
        /\ \A p \in 1..Len(ms) : Tops(ms)[p] = Tops(ms)[p - 1] + Slots(ms[p])
    BY <1>1, TopsOf
  <2> QED BY <1>1, <2>1
<1> DEFINE g == Tops(ls)
           h == Tops(ms)
           S == {k \in Nat : k <= n => h[k] = g[k]}
<1> HIDE DEF g, h, ms, n
<1>5. 0 \in S
  BY <1>3, <1>4 DEF g, h
<1>6. ASSUME NEW k \in Nat, k \in S PROVE k + 1 \in S
  <2> SUFFICES ASSUME k + 1 <= n PROVE h[k + 1] = g[k + 1]
    OBVIOUS
  <2>1. k + 1 \in 1..n /\ k + 1 \in 1..n + 1 /\ (k + 1) - 1 = k /\ k <= n
    BY <1>1
  <2>2. h[k] = g[k]
    BY <1>6, <2>1
  <2>3. h[k + 1] = h[(k + 1) - 1] + Slots(ms[k + 1])
        /\ g[k + 1] = g[(k + 1) - 1] + Slots(ls[k + 1])
    BY <1>3, <1>4, <2>1, Zenon DEF g, h
  <2>4. ms[k + 1] = ls[k + 1]
    BY <1>1, <2>1
  <2> QED BY <2>1, <2>2, <2>3, <2>4
<1>7. \A k \in Nat : k \in S
  <2> HIDE DEF S
  <2> QED BY <1>5, <1>6, SetInduction
<1>8. \A p \in 0..n : h[p] = g[p]
  BY <1>1, <1>7
<1>9. h[n + 1] = g[n] + Slots(l)
  <2>1. n + 1 \in 1..n + 1 /\ (n + 1) - 1 = n /\ n \in 0..n
    BY <1>1
  <2>2. h[n + 1] = h[(n + 1) - 1] + Slots(ms[n + 1])
    BY <1>4, <2>1, Zenon DEF h
  <2>3. h[n] = g[n]
    BY <1>8, <2>1
  <2> QED BY <1>1, <2>1, <2>2, <2>3
<1>10. ms[Len(ms)] = l
  BY <1>1
<1> QED BY <1>1, <1>2, <1>8, <1>9, <1>10 DEF ms, n, g, h

(* What an object needs is below its end. *)
LEMMA SlotKept ==
    ASSUME NEW s, NEW r, NEW b \in Nat, NEW l \in LocalSet, Slot(s, b, l),
           NEW m \in Nat, b + Slots(l) <= m, \A i \in 1..m : r[i] = s[i]
    PROVE  Slot(r, b, l)
<1>1. /\ l.kind = "ref" => Slots(l) = 1
      /\ l.kind = "iter" => Slots(l) = 2
      /\ l.kind = "seq" => Slots(l) = 1
  BY SlotsAre
<1>2. CASE l.kind = "ref"
  <2>1. l.i = b + 1 /\ s[l.i] = l.v
    BY <1>2 DEF Slot
  <2>2. l.i \in 1..m
    BY <1>1, <1>2, <2>1
  <2>3. r[l.i] = l.v
    BY <2>1, <2>2
  <2> QED BY <1>2, <2>1, <2>3 DEF Slot
<1>3. CASE l.kind = "iter"
  <2>1. <<s[l.i], s[l.i + 1]>> = l.seen[Len(l.seen)]
        /\ l.i = b + 1 /\ l.t \in 1..b /\ s[l.t] = l.v /\ l.seen # <<>>
    BY <1>3 DEF Slot
  <2>2. l.i \in 1..m /\ l.i + 1 \in 1..m /\ l.t \in 1..m
    BY <1>1, <1>3, <2>1
  <2>3. r[l.i] = s[l.i] /\ r[l.i + 1] = s[l.i + 1] /\ r[l.t] = s[l.t]
    BY <2>2
  <2> QED BY <1>3, <2>1, <2>3 DEF Slot
<1>4. CASE l.kind = "seq"
  <2>1. s[l.i] = l.seen[Len(l.seen)][2]
        /\ l.i = b + 1 /\ l.t \in 1..b /\ s[l.t] = l.v /\ l.seen # <<>>
    BY <1>4 DEF Slot
  <2>2. l.i \in 1..m /\ l.t \in 1..m
    BY <1>1, <1>4, <2>1
  <2>3. r[l.i] = s[l.i] /\ r[l.t] = s[l.t]
    BY <2>2
  <2> QED BY <1>4, <2>1, <2>3 DEF Slot
<1>5. CASE l.kind \notin {"ref", "iter", "seq"}
  BY <1>5 DEF Slot
<1> QED BY <1>2, <1>3, <1>4, <1>5

(* An object more, with what it needs above the stack as it was. *)
LEMMA PlacedMore ==
    ASSUME NEW ls \in Seq(LocalSet), NEW s, Placed(s, ls), NEW l \in LocalSet, NEW r,
           Len(s) \in Nat, Len(r) = Len(s) + Slots(l), \A i \in 1..Len(s) : r[i] = s[i],
           Slot(r, Len(s), l)
    PROVE  Placed(r, Append(ls, l))
<1> DEFINE ms == Append(ls, l)
           n == Len(ls)
<1>1. /\ Len(ms) = n + 1 /\ ms[n + 1] = l /\ ms \in Seq(LocalSet)
      /\ \A p \in 1..n : ms[p] = ls[p]
      /\ \A p \in 0..n : Tops(ms)[p] = Tops(ls)[p]
      /\ Tops(ms)[n + 1] = Tops(ls)[n] + Slots(l)
  <2> DEFINE P(u) == /\ u \in Seq(LocalSet) /\ Len(u) = Len(ls) + 1
                     /\ u[Len(u)] = l
                     /\ \A p \in 1..Len(ls) : u[p] = ls[p]
                     /\ \A p \in 0..Len(ls) : Tops(u)[p] = Tops(ls)[p]
                     /\ Tops(u)[Len(ls) + 1] = Tops(ls)[Len(ls)] + Slots(l)
  <2>1. P(ms)
    BY TopsAppend, Zenon
  <2> QED BY <2>1
<1>2. /\ n \in Nat /\ \A p \in 0..n : Tops(ls)[p] \in Nat /\ Tops(ls)[p] <= Tops(ls)[n]
      /\ \A p \in 1..n : ls[p] \in LocalSet /\ Tops(ls)[p] = Tops(ls)[p - 1] + Slots(ls[p])
  BY TopsOf, TopsOrdered
<1>3. Len(s) = Tops(ls)[n] /\ \A p \in 1..n : Slot(s, Tops(ls)[p - 1], ls[p])
  BY <1>2, LenProperties DEF Placed
<1>4. ASSUME NEW p \in 1..n PROVE Slot(r, Tops(ms)[p - 1], ms[p])
  <2>1. p - 1 \in 0..n /\ p \in 0..n
    BY <1>2
  <2>2. Tops(ls)[p - 1] \in Nat /\ Tops(ls)[p - 1] + Slots(ls[p]) <= Len(s)
    <3>1. Tops(ls)[p] <= Len(s) /\ Tops(ls)[p] = Tops(ls)[p - 1] + Slots(ls[p])
      BY <1>2, <1>3, <2>1
    <3> QED BY <1>2, <2>1, <3>1
  <2>3. Slot(r, Tops(ls)[p - 1], ls[p])
    BY <1>2, <1>3, <2>2, SlotKept
  <2> QED BY <1>1, <2>1, <2>3
<1>5. Slot(r, Tops(ms)[(n + 1) - 1], ms[n + 1])
  <2>1. (n + 1) - 1 = n /\ n \in 0..n
    BY <1>2
  <2>2. Tops(ms)[n] = Len(s)
    BY <1>1, <1>3, <2>1
  <2> QED BY <1>1, <2>1, <2>2
<1>6. \A p \in 1..n + 1 : Slot(r, Tops(ms)[p - 1], ms[p])
  <2>1. \A p \in 1..n + 1 : p \in 1..n \/ p = n + 1
    BY <1>2
  <2> QED BY <1>4, <1>5, <2>1
<1>7. DOMAIN ms = 1..n + 1
  <2> HIDE DEF ms
  <2> QED BY <1>1, LenProperties
<1>8. Len(r) = Tops(ms)[n + 1]
  BY <1>1, <1>3
<1> HIDE DEF ms
<1>9. Placed(r, ms)
  BY <1>1, <1>6, <1>7, <1>8, Zenon DEF Placed
<1> QED BY <1>9 DEF ms

(* An object less, and what it needs. *)
LEMMA PlacedLess ==
    ASSUME NEW ls \in Seq(LocalSet), NEW l \in LocalSet, NEW s, Placed(s, Append(ls, l)), NEW r,
           Len(r) \in Nat, Len(s) = Len(r) + Slots(l), \A i \in 1..Len(r) : r[i] = s[i]
    PROVE  Placed(r, ls) /\ Slot(s, Len(r), l)
<1> DEFINE ms == Append(ls, l)
           n == Len(ls)
<1>1. /\ Len(ms) = n + 1 /\ ms[n + 1] = l /\ ms \in Seq(LocalSet)
      /\ \A p \in 1..n : ms[p] = ls[p]
      /\ \A p \in 0..n : Tops(ms)[p] = Tops(ls)[p]
      /\ Tops(ms)[n + 1] = Tops(ls)[n] + Slots(l)
  <2> DEFINE P(u) == /\ u \in Seq(LocalSet) /\ Len(u) = Len(ls) + 1
                     /\ u[Len(u)] = l
                     /\ \A p \in 1..Len(ls) : u[p] = ls[p]
                     /\ \A p \in 0..Len(ls) : Tops(u)[p] = Tops(ls)[p]
                     /\ Tops(u)[Len(ls) + 1] = Tops(ls)[Len(ls)] + Slots(l)
  <2>1. P(ms)
    BY TopsAppend, Zenon
  <2> QED BY <2>1
<1>2. /\ n \in Nat /\ \A p \in 0..n : Tops(ls)[p] \in Nat /\ Tops(ls)[p] <= Tops(ls)[n]
      /\ \A p \in 1..n : ls[p] \in LocalSet /\ Tops(ls)[p] = Tops(ls)[p - 1] + Slots(ls[p])
  BY TopsOf, TopsOrdered
<1>3. DOMAIN ms = 1..n + 1 /\ DOMAIN ls = 1..n
  <2> HIDE DEF ms
  <2> QED BY <1>1, LenProperties
<1>4. Len(s) = Tops(ms)[n + 1] /\ \A p \in 1..n + 1 : Slot(s, Tops(ms)[p - 1], ms[p])
  <2> HIDE DEF ms
  <2>1. Placed(s, ms)
    BY DEF ms
  <2> QED BY <1>1, <1>3, <2>1, Zenon DEF Placed
<1>5. Slots(l) \in Nat
  BY SlotsAre
<1>6. Len(r) = Tops(ls)[n]
  <2>1. n \in 0..n
    BY <1>2
  <2>2. Tops(ls)[n] \in Nat
    BY <1>2, <2>1
  <2>3. Len(r) + Slots(l) = Tops(ls)[n] + Slots(l)
    BY <1>1, <1>4
  <2> QED BY <1>5, <2>2, <2>3
<1>7. ASSUME NEW p \in 1..n PROVE Slot(r, Tops(ls)[p - 1], ls[p])
  <2>1. p - 1 \in 0..n /\ p \in 0..n /\ p \in 1..n + 1
    BY <1>2
  <2>2. Tops(ls)[p - 1] \in Nat /\ Tops(ls)[p - 1] + Slots(ls[p]) <= Len(r)
    <3>1. Tops(ls)[p] <= Len(r) /\ Tops(ls)[p] = Tops(ls)[p - 1] + Slots(ls[p])
      BY <1>2, <1>6, <2>1
    <3> QED BY <1>2, <2>1, <3>1
  <2>3. Slot(s, Tops(ls)[p - 1], ls[p])
    <3>1. Slot(s, Tops(ms)[p - 1], ms[p])
      BY <1>4, <2>1
    <3> QED BY <1>1, <2>1, <3>1
  <2> QED BY <1>2, <2>2, <2>3, SlotKept
<1>8. Slot(s, Len(r), l)
  <2>1. (n + 1) - 1 = n /\ n \in 0..n /\ n + 1 \in 1..n + 1
    BY <1>2
  <2>2. Slot(s, Tops(ms)[(n + 1) - 1], ms[n + 1])
    BY <1>4, <2>1
  <2> QED BY <1>1, <1>6, <2>1, <2>2
<1>9. Placed(r, ls)
  BY <1>3, <1>6, <1>7, Zenon DEF Placed
<1> QED BY <1>8, <1>9
-----------------------------------------------------------------------------
(* What the invariant says of the stack and of what can be reached.        *)

Roots(s) == {Globals} \cup ToSet(s)

LEMMA ReachIs ==
    ASSUME LuaAssumption, NEW h, NEW s, HeapOK(h)
    PROVE  LET R == ReachedFrom(h, Roots(s)) IN
           /\ Globals \in R /\ Meta \in R /\ Closed(h, R)
           /\ \A i \in DOMAIN s : s[i] \in R
<1> DEFINE r == Roots(s)
           R == ReachedFrom(h, r)
<1>1. Globals \in r /\ \A i \in DOMAIN s : s[i] \in r
  BY DEF Roots, ToSet
<1> HIDE DEF r
<1>2. r \subseteq R /\ Closed(h, R)
  BY <1>1, ReachedClosed
<1> HIDE DEF R
<1>3. Globals \in Heap /\ Meta \in Fields
  BY Kinded
<1>4. h[Globals][Meta] = Meta
  BY DEF HeapOK
<1>5. Meta \in R
  BY <1>1, <1>2, <1>3, <1>4 DEF Closed
<1> QED BY <1>1, <1>2, <1>5 DEF R, r

(* What is in a set that holds what its tables hold. *)
LEMMA ReachKept ==
    ASSUME LuaAssumption, NEW h, NEW s, NEW dt, NEW S, Globals \in S,
           \A i \in DOMAIN s : s[i] \in S, Closed(h, S), \A d \in Data \cap S : dt[d] # None
    PROVE  ReachOK(h, s, dt)
<1> DEFINE r == Roots(s)
<1>1. r \subseteq S
  BY DEF Roots, ToSet
<1> HIDE DEF r
<1>2. ReachedFrom(h, r) \subseteq S
  BY <1>1, ReachedLeast
<1> QED BY <1>2 DEF ReachOK, r, Roots

(* Values that hold nothing. *)
Plain == {Nil, Handler} \cup Keys \cup Scalars

LEMMA PlainIs ==
    ASSUME LuaAssumption
    PROVE  Plain \subseteq Held /\ Plain \cap Heap = {} /\ Plain \cap Data = {}
<1>1. Plain \subseteq Held
  BY Kinded DEF Plain
<1>2. Heap = Tables \cup {Globals, Meta}
  BY DEF Heap
<1> QED BY <1>1, <1>2 DEF LuaAssumption, Plain

LEMMA StackIs ==
    ASSUME LuaAssumption, NEW s, NEW ls, StackOK(s, ls)
    PROVE  /\ s \in Seq(Values) /\ s \in Seq(Held) /\ Len(s) \in Nat /\ DOMAIN s = 1..Len(s)
           /\ \A i \in 1..Len(s) : s[i] \in Held
           /\ Len(s) <= MaxStack /\ ls \in Seq(LocalSet) /\ Len(ls) \in Nat
           /\ DOMAIN ls = 1..Len(ls) /\ \A p \in DOMAIN ls : ls[p] \in LocalSet
           /\ Len(s) = Tops(ls)[Len(ls)]
<1>1. s \in Seq(Held) /\ ls \in Seq(LocalSet) /\ Len(s) <= MaxStack
      /\ Len(s) = Tops(ls)[Len(ls)]
  BY DEF StackOK, Placed
<1>2. Held \subseteq Values
  BY Kinded
<1>3. s \in Seq(Values)
  BY <1>1, <1>2
<1> QED BY <1>1, <1>3, ElementOfSeq, LenProperties

(* What objects in scope have, is there. *)
LEMMA RefIs ==
    ASSUME LuaAssumption, NEW s, NEW ls, StackOK(s, ls), NEW p \in DOMAIN ls
    PROVE  /\ ls[p] \in LocalSet /\ ls[p].v \in Held
           /\ ls[p].kind = "ref" =>
                ls[p].i \in 1..Len(s) /\ ls[p].i <= MaxStack /\ s[ls[p].i] = ls[p].v
           /\ ls[p].kind \in {"iter", "seq"} => ls[p].t \in 1..Len(s) /\ s[ls[p].t] = ls[p].v
<1> DEFINE n == Len(ls)
           l == ls[p]
           b == Tops(ls)[p - 1]
<1>1. /\ ls \in Seq(LocalSet) /\ n \in Nat /\ DOMAIN ls = 1..n /\ l \in LocalSet
      /\ Len(s) = Tops(ls)[n] /\ Len(s) \in Nat /\ Len(s) <= MaxStack
  BY StackIs
<1>2. p \in 1..n /\ p - 1 \in 0..n /\ p \in 0..n
  BY <1>1
<1>3. Tops(ls)[p] = b + Slots(l) /\ b \in Nat
  BY <1>1, <1>2, TopsOf
<1>4. Tops(ls)[p] <= Len(s)
  BY <1>1, <1>2, TopsOrdered
<1>5. Slot(s, b, l)
  BY DEF StackOK, Placed
<1> HIDE DEF l, b
<1>6. Slots(l) \in Nat /\ (l.kind = "ref" => Slots(l) = 1)
  BY <1>1, SlotsAre
<1>7. b + Slots(l) <= Len(s)
  BY <1>3, <1>4
<1>8. l.v \in Held
  BY <1>1 DEF LocalSet
<1>9. CASE l.kind = "ref"
  <2>1. l.i = b + 1 /\ s[l.i] = l.v
    BY <1>5, <1>9 DEF Slot
  <2>2. l.i \in 1..Len(s) /\ l.i <= MaxStack
    <3>1. MaxStack \in Nat
      BY Kinded
    <3> QED BY <1>1, <1>3, <1>6, <1>7, <1>9, <2>1, <3>1
  <2> QED BY <1>1, <1>8, <1>9, <2>1, <2>2 DEF l
<1>10. CASE l.kind \in {"iter", "seq"}
  <2>1. l.t \in 1..b /\ s[l.t] = l.v
    BY <1>5, <1>10 DEF Slot
  <2>2. l.t \in 1..Len(s)
    BY <1>1, <1>3, <1>6, <1>7, <2>1
  <2> QED BY <1>1, <1>8, <1>10, <2>1, <2>2 DEF l
<1>11. CASE l.kind \notin {"ref", "iter", "seq"}
  BY <1>1, <1>8, <1>11 DEF l
<1> QED BY <1>9, <1>10, <1>11

LEMMA RefsHold ==
    ASSUME LuaAssumption, LuaIInv, NEW p \in DOMAIN locals, locals[p].kind = "ref"
    PROVE  /\ locals[p].v \in Held /\ locals[p].v \in Reached
           /\ locals[p].i \in 1..Len(stack) /\ locals[p].i <= MaxStack
           /\ stack[locals[p].i] = locals[p].v
<1>1. StackOK(stack, locals) /\ HeapOK(heap)
  BY DEF LuaIInv
<1>2. /\ locals[p].v \in Held
      /\ locals[p].i \in 1..Len(stack) /\ locals[p].i <= MaxStack
      /\ stack[locals[p].i] = locals[p].v
  BY <1>1, RefIs
<1>3. \A i \in DOMAIN stack : stack[i] \in Reached
  BY <1>1, ReachIs DEF Reached, Roots
<1>4. DOMAIN stack = 1..Len(stack)
  BY <1>1, StackIs
<1>5. locals[p].v \in Reached
  BY <1>2, <1>3, <1>4
<1> QED BY <1>2, <1>5

LEMMA KnownIs ==
    ASSUME LuaAssumption, LuaIInv, NEW t \in Known
    PROVE  At(stack, t[1], t[2]) /\ t[2] \in Heap /\ t[2] \in Reached
<1>1. CASE t = <<Table, Globals>>
  <2>1. HeapOK(heap)
    BY DEF LuaIInv
  <2>2. Globals \in Reached
    BY <2>1, ReachIs DEF Reached, Roots
  <2> QED BY <1>1, <2>2, Kinded DEF At
<1>2. CASE t \in {<<locals[p].i, locals[p].v>> : p \in Refs}
  <2>1. PICK p \in Refs : t = <<locals[p].i, locals[p].v>>
    BY <1>2
  <2>2. p \in DOMAIN locals /\ locals[p].kind = "ref" /\ locals[p].v \in Heap
    BY DEF Refs
  <2>3. /\ locals[p].v \in Reached
        /\ locals[p].i \in 1..Len(stack) /\ locals[p].i <= MaxStack
        /\ stack[locals[p].i] = locals[p].v
    BY <2>2, RefsHold
  <2> QED BY <2>1, <2>2, <2>3 DEF At
<1> QED BY <1>1, <1>2 DEF Known

(* A path goes through what can be reached. *)
LEMMA FieldReached ==
    ASSUME LuaAssumption, LuaIInv, NEW v \in Heap, v \in Reached, NEW ks \in Paths, IsPath(v, ks)
    PROVE  Field(v, ks) \in Reached /\ Field(v, ks) \in Held /\ Holder(v, ks) \in Heap
<1> DEFINE g == Along(v, ks)
           N == Len(ks)
           T == {n \in Nat : n <= N => g[n] \in Reached}
<1>1. HeapOK(heap)
  BY DEF LuaIInv
<1>2. N \in Nat /\ N >= 1 /\ \A n \in 1..N : ks[n] \in Fields
  BY PathIs
<1>3. /\ g[0] = v /\ Field(v, ks) \in Held /\ Holder(v, ks) \in Heap
      /\ \A n \in 1..N : g[n - 1] \in Heap /\ g[n] = heap[g[n - 1]][ks[n]]
  BY <1>1, AlongTables
<1>4. Field(v, ks) = g[N]
  BY Zenon DEF Field
<1>5. Closed(heap, Reached)
  BY <1>1, ReachIs DEF Reached, Roots
<1> HIDE DEF g, N
<1>6. 0 \in T
  BY <1>3
<1>7. ASSUME NEW n \in Nat, n \in T PROVE n + 1 \in T
  <2> SUFFICES ASSUME n + 1 <= N PROVE g[n + 1] \in Reached
    OBVIOUS
  <2> DEFINE m == n + 1
  <2>1. m \in 1..N /\ m - 1 = n /\ n <= N
    BY <1>2
  <2> HIDE DEF m
  <2>2. g[n] \in Reached \cap Heap /\ ks[m] \in Fields /\ g[m] = heap[g[n]][ks[m]]
    BY <1>2, <1>3, <1>7, <2>1
  <2>3. g[m] \in Reached
    BY <1>5, <2>2 DEF Closed
  <2> QED BY <2>3 DEF m
<1>8. N \in T
  <2> HIDE DEF T
  <2> QED BY <1>2, <1>6, <1>7, SetInduction
<1>9. g[N] \in Reached
  BY <1>2, <1>8
<1> QED BY <1>3, <1>4, <1>9
-----------------------------------------------------------------------------
(* Operations that push a value, which is then owned.                      *)

(* No object goes out of scope. *)
InScope == Len(locals') \in {Len(locals), Len(locals) + 1}

LEMMA LocalIs ==
    ASSUME LuaAssumption, NEW k \in Kinds, NEW i \in Nat, NEW n \in Nat, NEW v \in Held,
           NEW t \in Nat
    PROVE  /\ Local(k, i, n, v, t) \in LocalSet
           /\ Local(k, i, n, v, t).kind = k /\ Local(k, i, n, v, t).i = i
           /\ Local(k, i, n, v, t).n = n /\ Local(k, i, n, v, t).v = v
           /\ Local(k, i, n, v, t).t = t /\ Local(k, i, n, v, t).seen = <<>>
<1>1. <<>> \in Seq(Keys \X Held)
  BY EmptySeq
<1> DEFINE l == Local(k, i, n, v, t)
<1>2. l = [kind |-> k, i |-> i, n |-> n, v |-> v, t |-> t, seen |-> <<>>]
  BY DEF Local
<1> HIDE DEF l
<1>3. l \in LocalSet
  BY <1>1, <1>2 DEF LocalSet
<1>4. l.kind = k /\ l.i = i /\ l.n = n /\ l.v = v /\ l.t = t /\ l.seen = <<>>
  BY <1>2
<1> QED BY <1>3, <1>4 DEF l

LEMMA LoopsMore ==
    ASSUME NEW ls \in Seq(LocalSet), NEW l \in LocalSet, NEW h, LoopsOK(ls, h), Loops(l, h)
    PROVE  LoopsOK(Append(ls, l), h)
<1> DEFINE ms == Append(ls, l)
           n == Len(ls)
<1>1. /\ ms \in Seq(LocalSet) /\ Len(ms) = n + 1 /\ ms[n + 1] = l
      /\ \A i \in 1..n : ms[i] = ls[i]
      /\ n \in Nat
  BY Pushed
<1>2. DOMAIN ls = 1..n
  BY LenProperties
<1> HIDE DEF ms, n
<1>3. DOMAIN ms = 1..n + 1
  BY <1>1, LenProperties
<1>4. ASSUME NEW p \in 1..n + 1 PROVE Loops(ms[p], h)
  <2>1. CASE p \in 1..n
    <3>1. Loops(ls[p], h)
      BY <1>2, <2>1 DEF LoopsOK
    <3> QED BY <1>1, <2>1, <3>1
  <2>2. CASE p = n + 1
    BY <1>1, <2>2
  <2> QED BY <1>1, <2>1, <2>2
<1>5. LoopsOK(ms, h)
  BY <1>3, <1>4 DEF LoopsOK
<1> QED BY <1>5 DEF ms

LEMMA LoopsLess ==
    ASSUME NEW ls \in Seq(LocalSet), NEW l \in LocalSet, NEW h, LoopsOK(Append(ls, l), h)
    PROVE  LoopsOK(ls, h) /\ Loops(l, h)
<1> DEFINE ms == Append(ls, l)
           n == Len(ls)
<1>1. /\ ms \in Seq(LocalSet) /\ Len(ms) = n + 1 /\ ms[n + 1] = l
      /\ \A i \in 1..n : ms[i] = ls[i]
      /\ n \in Nat
  BY Pushed
<1>2. DOMAIN ls = 1..n
  BY LenProperties
<1>3. LoopsOK(ms, h)
  OBVIOUS
<1> HIDE DEF ms, n
<1>4. DOMAIN ms = 1..n + 1
  BY <1>1, LenProperties
<1>5. \A p \in 1..n + 1 : Loops(ms[p], h)
  BY <1>3, <1>4 DEF LoopsOK
<1>6. ASSUME NEW p \in 1..n PROVE Loops(ls[p], h)
  <2>1. p \in 1..n + 1
    BY <1>1
  <2> QED BY <1>1, <1>5, <2>1
<1>7. n + 1 \in 1..n + 1
  BY <1>1
<1>8. Loops(l, h)
  BY <1>1, <1>5, <1>7
<1> QED BY <1>2, <1>6, <1>8 DEF LoopsOK

LEMMA OwnKeeps ==
    ASSUME LuaAssumption, LuaIInv, NEW v \in Held, Len(stack) < MaxStack,
           Own(Append(stack, v), v), heap' = heap
    PROVE  StackOK(stack', locals') /\ LoopsOK(locals', heap') /\ HeapOK(heap') /\ InScope
<1> DEFINE s == Append(stack, v)
           l == Ref(Len(stack) + 1, v)
<1>1. StackOK(stack, locals) /\ HeapOK(heap) /\ LoopsOK(locals, heap)
  BY DEF LuaIInv
<1>2. /\ stack \in Seq(Held) /\ Len(stack) \in Nat /\ locals \in Seq(LocalSet)
      /\ Len(locals) \in Nat /\ Placed(stack, locals)
  BY <1>1, StackIs DEF StackOK
<1>3. /\ s \in Seq(Held) /\ Len(s) = Len(stack) + 1 /\ s[Len(stack) + 1] = v
      /\ \A i \in 1..Len(stack) : s[i] = stack[i]
  BY <1>2, Pushed
<1>4. stack' = s /\ locals' = Append(locals, l)
  BY <1>3 DEF Own
<1>5. /\ l \in LocalSet /\ l.kind = "ref" /\ l.i = Len(stack) + 1 /\ l.v = v
  <2>1. "ref" \in Kinds /\ Len(stack) + 1 \in Nat /\ 0 \in Nat
    BY <1>2 DEF Kinds
  <2> QED BY <2>1, LocalIs DEF Ref
<1> HIDE DEF s, l
<1>6. Slot(s, Len(stack), l)
  BY <1>3, <1>5 DEF Slot
<1>7. Len(s) = Len(stack) + Slots(l)
  BY <1>3, <1>5, SlotsAre
<1>8. Placed(s, Append(locals, l))
  BY <1>2, <1>3, <1>5, <1>6, <1>7, PlacedMore
<1>9. Append(locals, l) \in Seq(LocalSet) /\ Len(Append(locals, l)) = Len(locals) + 1
  BY <1>2, <1>5, AppendProperties
<1>10. Len(s) <= MaxStack
  BY <1>2, <1>3, Kinded
<1>11. Loops(l, heap)
  BY <1>5 DEF Loops
<1>12. LoopsOK(Append(locals, l), heap)
  BY <1>1, <1>2, <1>5, <1>11, LoopsMore
<1> QED BY <1>1, <1>3, <1>4, <1>8, <1>9, <1>10, <1>12 DEF StackOK, InScope

(* A value that is reached already, or holds nothing. *)
LEMMA PushKeeps ==
    ASSUME LuaAssumption, LuaIInv, NEW v \in Held, v \in Reached \cup Plain,
           Len(stack) < MaxStack, Own(Append(stack, v), v), UNCHANGED <<heap, data, alive>>
    PROVE  LuaIInv' /\ InScope
<1>1. StackOK(stack', locals') /\ LoopsOK(locals', heap') /\ HeapOK(heap') /\ InScope
  BY OwnKeeps
<1>2. DataOK(data', alive')
  BY DEF LuaIInv
<1> DEFINE S == Reached \cup Plain
<1>3. /\ Globals \in Reached /\ Closed(heap, Reached)
      /\ \A i \in DOMAIN stack : stack[i] \in Reached
  BY ReachIs DEF Reached, Roots, LuaIInv
<1>4. Closed(heap, S)
  BY <1>3, PlainIs DEF Closed
<1>5. \A d \in Data \cap S : data'[d] # None
  <2>1. \A d \in Data : d \in Reached => data[d] # None
    BY Zenon DEF LuaIInv, ReachOK, Reached
  <2> QED BY <2>1, PlainIs
<1>6. \A i \in DOMAIN stack' : stack'[i] \in S
  <2>1. stack \in Seq(Held) /\ DOMAIN stack = 1..Len(stack) /\ Len(stack) \in Nat
    BY StackIs DEF LuaIInv
  <2>2. stack' = Append(stack, v)
    BY DEF Own
  <2>3. Len(stack') = Len(stack) + 1 /\ stack'[Len(stack) + 1] = v /\ stack' \in Seq(Held)
        /\ \A i \in 1..Len(stack) : stack'[i] = stack[i]
    BY <2>1, <2>2, Pushed
  <2>4. DOMAIN stack' = 1..Len(stack) + 1
    BY <2>3, LenProperties
  <2>5. \A i \in 1..Len(stack) + 1 : i \in 1..Len(stack) \/ i = Len(stack) + 1
    BY <2>1
  <2> QED BY <1>3, <2>1, <2>3, <2>4, <2>5
<1>7. ReachOK(heap', stack', data')
  <2> HIDE DEF S
  <2>1. Globals \in S
    BY <1>3 DEF S
  <2> QED BY <1>4, <1>5, <1>6, <2>1, ReachKept
<1> QED BY <1>1, <1>2, <1>7 DEF LuaIInv

LEMMA PushStep ==
    ASSUME LuaAssumption, LuaIInv, NEW v, push(v)
    PROVE  LuaIInv' /\ InScope
<1>1. Len(stack) < MaxStack /\ Own(Append(stack, v), v) /\ UNCHANGED <<heap, data, alive>>
  BY Zenon DEF push, Room
<1>2. v \in Held /\ v \in Reached \cup Plain
  <2>1. CASE v \in Scalars
    BY <2>1, PlainIs DEF Plain
  <2>2. CASE v \in {locals[p].v : p \in {q \in DOMAIN locals : locals[q].kind = "ref"}}
    BY <2>2, RefsHold
  <2>3. v \in Scalars \cup {locals[p].v : p \in {q \in DOMAIN locals : locals[q].kind = "ref"}}
    BY Zenon DEF push
  <2> QED BY <2>1, <2>2, <2>3
<1> QED BY <1>1, <1>2, PushKeeps

LEMMA GetRefStep ==
    ASSUME LuaAssumption, LuaIInv, ~Missing, NEW t \in Known, NEW ks \in Paths, get_ref(t, ks)
    PROVE  LuaIInv' /\ InScope
<1> DEFINE v == Field(t[2], ks)
<1>1. At(stack, t[1], t[2]) /\ t[2] \in Heap /\ t[2] \in Reached
  BY KnownIs
<1>2. IsPath(t[2], ks) /\ Len(stack) < MaxStack /\ UNCHANGED <<heap, data, alive>>
  BY Zenon DEF get_ref, Room
<1>3. v \in Held /\ v \in Reached
  BY <1>1, <1>2, FieldReached
<1>4. Path(stack, t[1], ks) = Append(stack, v)
  <2>1. HeapOK(heap) /\ stack \in Seq(Values)
    BY StackIs DEF LuaIInv
  <2> QED BY <1>1, <1>2, <2>1, PathPushes
<1>5. Own(Append(stack, v), v)
  <2>1. Own(Path(stack, t[1], ks), v)
    BY Zenon DEF get_ref
  <2> HIDE DEF v
  <2> QED BY <1>4, <2>1
<1> HIDE DEF v
<1> QED BY <1>2, <1>3, <1>5, PushKeeps

LEMMA NewUserTypeStep ==
    ASSUME LuaAssumption, LuaIInv, new_user_type
    PROVE  LuaIInv' /\ InScope
<1>1. HeapOK(heap) /\ stack \in Seq(Values) /\ stack \in Seq(Held)
  BY StackIs DEF LuaIInv
<1>2. Meta \in Held /\ Meta \in Values /\ Globals \in Heap /\ Meta \in Heap /\ Meta \in Fields
      /\ 1 \in Fields
  BY Kinded
<1> DEFINE s == Append(stack, Meta)
<1>3. s \in Seq(Values)
  BY <1>1, <1>2, Pushed
<1>4. At(s, Table, Globals)
  BY DEF At
<1> HIDE DEF s
<1>5. Stored(s, Table, Meta, Meta) = [heap |-> [heap EXCEPT ![Globals][Meta] = Meta], stack |-> s]
  BY <1>1, <1>2, <1>3, <1>4, StoredAt
<1>6. heap \in [Heap -> [Fields -> Held]] /\ heap[Globals][Meta] = Meta /\ heap[Meta][1] = Meta
  BY <1>1 DEF HeapOK
<1>7. [heap EXCEPT ![Globals][Meta] = Meta] = heap /\ [heap EXCEPT ![Meta][1] = Meta] = heap
  BY <1>2, <1>6
<1>8. Stored(s, Table, Meta, Meta).heap = heap /\ Stored(s, Table, Meta, Meta).stack = s
  BY <1>5, <1>7
<1>9. Own(s, Meta) /\ heap' = heap
  <2>1. /\ Own(Stored(s, Table, Meta, Meta).stack, Meta)
        /\ heap' = [Stored(s, Table, Meta, Meta).heap EXCEPT ![Meta][1] = Meta]
    BY Zenon DEF new_user_type, s
  <2>2. Own(s, Meta)
    BY <1>8, <2>1
  <2>3. heap' = heap
    BY <1>7, <1>8, <2>1
  <2> QED BY <2>2, <2>3
<1>10. Len(stack) < MaxStack /\ UNCHANGED <<data, alive>>
  BY Zenon DEF new_user_type, Room
<1>11. Meta \in Reached
  BY <1>1, ReachIs DEF Reached, Roots
<1> QED BY <1>2, <1>9, <1>10, <1>11, PushKeeps DEF s

LEMMA ReachMore ==
    ASSUME LuaAssumption, LuaIInv, NEW s, \A i \in DOMAIN s : s[i] \in Reached \cup Plain
    PROVE  ReachOK(heap, s, data)
<1> DEFINE S == Reached \cup Plain
<1>1. Globals \in Reached /\ Closed(heap, Reached)
  BY ReachIs DEF Reached, Roots, LuaIInv
<1>2. Closed(heap, S)
  BY <1>1, PlainIs DEF Closed
<1>3. \A d \in Data \cap S : data[d] # None
  <2>1. \A d \in Data : d \in Reached => data[d] # None
    BY Zenon DEF LuaIInv, ReachOK, Reached
  <2> QED BY <2>1, PlainIs
<1>4. Globals \in S
  BY <1>1
<1> HIDE DEF S
<1>5. \A i \in DOMAIN s : s[i] \in S
  BY DEF S
<1> QED BY <1>2, <1>3, <1>4, <1>5, ReachKept

LEMMA CreateTableStep ==
    ASSUME LuaAssumption, LuaIInv, create_table
    PROVE  LuaIInv' /\ InScope
<1>1. PICK t \in Tables : heap[t] = Empty /\ Own(Append(stack, t), t)
  BY Zenon DEF create_table
<1>2. Len(stack) < MaxStack /\ UNCHANGED <<heap, data, alive>>
  BY Zenon DEF create_table, Room
<1>3. t \in Held
  BY Kinded
<1>4. StackOK(stack', locals') /\ LoopsOK(locals', heap') /\ HeapOK(heap') /\ InScope
  BY <1>1, <1>2, <1>3, OwnKeeps
<1>5. DataOK(data', alive')
  BY <1>2 DEF LuaIInv
<1> DEFINE S == (Reached \cup Plain) \cup {t}
<1>6. Globals \in Reached /\ Closed(heap, Reached) /\ \A i \in DOMAIN stack : stack[i] \in Reached
  BY ReachIs DEF Reached, Roots, LuaIInv
<1>7. Closed(heap, S)
  <2> SUFFICES ASSUME NEW x \in S \cap Heap, NEW k \in Fields PROVE heap[x][k] \in S
    BY DEF Closed
  <2>1. CASE x = t
    <3>1. Empty[k] = Nil
      BY DEF Empty
    <3> QED BY <1>1, <2>1, <3>1 DEF Plain
  <2>2. CASE x # t
    <3>1. x \in Reached
      BY <2>2, PlainIs
    <3> QED BY <1>6, <3>1 DEF Closed
  <2> QED BY <2>1, <2>2
<1>8. \A d \in Data \cap S : data'[d] # None
  <2>1. \A d \in Data : d \in Reached => data[d] # None
    BY Zenon DEF LuaIInv, ReachOK, Reached
  <2>2. t \in Heap
    BY DEF Heap
  <2>3. t \notin Data
    BY <2>2, Kinded
  <2> QED BY <1>2, <2>1, <2>3, PlainIs
<1>9. \A i \in DOMAIN stack' : stack'[i] \in S
  <2>1. stack \in Seq(Held) /\ DOMAIN stack = 1..Len(stack) /\ Len(stack) \in Nat
    BY StackIs DEF LuaIInv
  <2>2. stack' = Append(stack, t)
    BY <1>1 DEF Own
  <2>3. Len(stack') = Len(stack) + 1 /\ stack'[Len(stack) + 1] = t /\ stack' \in Seq(Held)
        /\ \A i \in 1..Len(stack) : stack'[i] = stack[i]
    BY <1>3, <2>1, <2>2, Pushed
  <2>4. DOMAIN stack' = 1..Len(stack) + 1
    BY <2>3, LenProperties
  <2>5. \A i \in 1..Len(stack) + 1 : i \in 1..Len(stack) \/ i = Len(stack) + 1
    BY <2>1
  <2> QED BY <1>6, <2>1, <2>3, <2>4, <2>5
<1>10. ReachOK(heap', stack', data')
  <2>1. Globals \in S
    BY <1>6
  <2> HIDE DEF S
  <2> QED BY <1>2, <1>7, <1>8, <1>9, <2>1, ReachKept
<1> QED BY <1>4, <1>5, <1>10 DEF LuaIInv

LEMMA PushUserStep ==
    ASSUME LuaAssumption, LuaIInv, NEW o \in Objects, push_user(o)
    PROVE  LuaIInv' /\ InScope
<1>1. PICK d \in Unused :
        /\ data' = [data EXCEPT ![d] = [object |-> o, own |-> o \in Copies]]
        /\ Own(PushUser(stack, d), d)
  BY Zenon DEF push_user
<1>2. Len(stack) < MaxStack /\ alive' = [alive EXCEPT ![o] = TRUE] /\ heap' = heap
      /\ (o \in Copies => ~alive[o])
  BY Zenon DEF push_user, Room
<1>3. d \in Data /\ data[d] = None /\ d \notin Reached
  BY DEF Unused
<1>4. d \in Held /\ d \in Values
  BY <1>3, Kinded
<1>5. HeapOK(heap) /\ stack \in Seq(Values) /\ stack \in Seq(Held) /\ DataOK(data, alive)
  BY StackIs DEF LuaIInv
<1>6. Own(Append(stack, d), d)
  BY <1>1, <1>4, <1>5, UserIs
<1>7. StackOK(stack', locals') /\ LoopsOK(locals', heap') /\ HeapOK(heap') /\ InScope
  BY <1>2, <1>4, <1>6, OwnKeeps
<1> DEFINE b == o \in Copies
           r == [object |-> o, own |-> b]
<1>8. r \in [object : Objects, own : BOOLEAN] /\ r.object = o /\ r.own = b /\ b \in BOOLEAN
      /\ (b <=> o \in Copies)
  OBVIOUS
<1> HIDE DEF b, r
<1>9. data' = [data EXCEPT ![d] = r]
  BY <1>1 DEF b, r
<1>10. r # None
  BY <1>8 DEF LuaAssumption, Objects
<1>11. /\ alive \in [Objects -> BOOLEAN]
       /\ DOMAIN data = Data
       /\ \A e \in Data : data[e] # None =>
            /\ data[e] \in [object : Objects, own : BOOLEAN]
            /\ data[e].own <=> data[e].object \in Copies
            /\ alive[data[e].object]
       /\ \A c \in Copies : alive[c] => \E e \in Data : data[e] # None /\ data[e].object = c
       /\ \A e, f \in Data :
            data[e] # None /\ data[f] # None /\ data[e].object = data[f].object
                /\ data[e].own => e = f
       /\ \A c \in External : alive[c]
  BY <1>5, Zenon DEF DataOK
<1>12. data'[d] = r /\ \A e \in Data : e # d => data'[e] = data[e]
  BY <1>3, <1>9, <1>11
<1>13. alive'[o] = TRUE /\ alive' \in [Objects -> BOOLEAN]
       /\ \A c \in Objects : c # o => alive'[c] = alive[c]
  BY <1>2, <1>11
<1>14. DataOK(data', alive')
  <2>1. DOMAIN data' = Data
    BY <1>9, <1>11
  <2>2. ASSUME NEW e \in Data, data'[e] # None
        PROVE  /\ data'[e] \in [object : Objects, own : BOOLEAN]
               /\ data'[e].own <=> data'[e].object \in Copies
               /\ alive'[data'[e].object]
    <3>1. CASE e = d
      BY <1>8, <1>12, <1>13, <3>1
    <3>2. CASE e # d
      <4>1. data'[e] = data[e] /\ data[e] # None
        BY <1>12, <2>2, <3>2
      <4>2. /\ data[e] \in [object : Objects, own : BOOLEAN]
            /\ data[e].own <=> data[e].object \in Copies
            /\ alive[data[e].object]
        BY <1>11, <4>1, Zenon
      <4> DEFINE c == data[e].object
      <4>3. c \in Objects /\ alive[c]
        BY <4>2
      <4> HIDE DEF c
      <4>4. alive'[c]
        BY <1>13, <4>3
      <4> QED BY <4>1, <4>2, <4>4 DEF c
    <3> QED BY <3>1, <3>2
  <2>3. ASSUME NEW c \in Copies, alive'[c]
        PROVE  \E e \in Data : data'[e] # None /\ data'[e].object = c
    <3>1. CASE c = o
      BY <1>3, <1>8, <1>10, <1>12, <3>1
    <3>2. CASE c # o
      <4>1. c \in Objects
        BY DEF Objects
      <4>2. alive[c]
        BY <1>13, <2>3, <3>2, <4>1
      <4>3. PICK e \in Data : data[e] # None /\ data[e].object = c
        BY <1>11, <4>2
      <4>4. e # d
        BY <1>3, <4>3
      <4> QED BY <1>12, <4>3, <4>4
    <3> QED BY <3>1, <3>2
  <2>4. ASSUME NEW e \in Data, data[e] # None, data[e].object = o, b PROVE FALSE
    <3>1. ~alive[o]
      BY <1>2, <1>8, <2>4
    <3>2. alive[data[e].object]
      BY <1>11, <2>4, Zenon
    <3> QED BY <2>4, <3>1, <3>2
  <2>5. ASSUME NEW e \in Data, NEW f \in Data, data'[e] # None, data'[f] # None,
               data'[e].object = data'[f].object, data'[e].own
        PROVE  e = f
    <3>1. CASE e = d /\ f # d
      <4>1. data'[f] = data[f] /\ data[f] # None /\ data[f].object = o /\ b
        BY <1>8, <1>12, <2>5, <3>1
      <4> QED BY <2>4, <4>1
    <3>2. CASE e # d /\ f = d
      <4>1. data'[e] = data[e] /\ data[e] # None /\ data[e].object = o /\ data[e].own
        BY <1>8, <1>12, <2>5, <3>2
      <4>2. o \in Copies
        BY <1>11, <4>1
      <4>3. b
        BY <1>8, <4>2
      <4> QED BY <2>4, <4>1, <4>3
    <3>3. CASE e # d /\ f # d
      <4>1. data'[e] = data[e] /\ data'[f] = data[f]
        BY <1>12, <3>3
      <4> QED BY <1>11, <2>5, <4>1
    <3> QED BY <3>1, <3>2, <3>3
  <2>6. ASSUME NEW c \in External PROVE alive'[c]
    <3>1. c \in Objects
      BY DEF Objects
    <3> QED BY <1>11, <1>13, <3>1
  <2> QED BY <1>13, <2>1, <2>2, <2>3, <2>5, <2>6 DEF DataOK
<1> DEFINE S == (Reached \cup Plain) \cup {d}
<1>15. Globals \in Reached /\ Closed(heap, Reached) /\ \A i \in DOMAIN stack : stack[i] \in Reached
  BY ReachIs DEF Reached, Roots, LuaIInv
<1>16. Closed(heap, S)
  <2>1. d \notin Heap
    BY <1>3, Kinded
  <2> QED BY <1>15, <2>1, PlainIs DEF Closed
<1>17. \A e \in Data \cap S : data'[e] # None
  <2>1. \A e \in Data : e \in Reached => data[e] # None
    BY Zenon DEF LuaIInv, ReachOK, Reached
  <2> QED BY <1>10, <1>12, <2>1, PlainIs
<1>18. \A i \in DOMAIN stack' : stack'[i] \in S
  <2>1. stack \in Seq(Held) /\ DOMAIN stack = 1..Len(stack) /\ Len(stack) \in Nat
    BY StackIs DEF LuaIInv
  <2>2. stack' = Append(stack, d)
    BY <1>6 DEF Own
  <2>3. Len(stack') = Len(stack) + 1 /\ stack'[Len(stack) + 1] = d /\ stack' \in Seq(Held)
        /\ \A i \in 1..Len(stack) : stack'[i] = stack[i]
    BY <1>4, <2>1, <2>2, Pushed
  <2>4. DOMAIN stack' = 1..Len(stack) + 1
    BY <2>3, LenProperties
  <2>5. \A i \in 1..Len(stack) + 1 : i \in 1..Len(stack) \/ i = Len(stack) + 1
    BY <2>1
  <2> QED BY <1>15, <2>1, <2>3, <2>4, <2>5
<1>19. ReachOK(heap', stack', data')
  <2>1. Globals \in S
    BY <1>15
  <2> HIDE DEF S
  <2> QED BY <1>2, <1>16, <1>17, <1>18, <2>1, ReachKept
<1> QED BY <1>7, <1>14, <1>19 DEF LuaIInv
-----------------------------------------------------------------------------
(* Deferred pops, marks and the end of scopes.                             *)

LEMMA PopIs ==
    ASSUME NEW S, NEW s \in Seq(S), NEW n \in 0..Len(s)
    PROVE  /\ Pop(s, n) \in Seq(S) /\ Len(Pop(s, n)) = Len(s) - n
           /\ \A i \in 1..Len(s) - n : Pop(s, n)[i] = s[i]
<1> DEFINE m == Len(s) - n
<1>1. m \in Nat /\ m \in Int /\ 1 \in Int /\ Len(s) \in Nat
  BY LenProperties
<1>2. \A i \in 1..m : s[i] \in S
  BY <1>1, ElementOfSeq
<1>3. Pop(s, n) = SubSeq(s, 1, m)
  BY DEF Pop
<1> HIDE DEF m
<1>4. /\ SubSeq(s, 1, m) \in Seq(S)
      /\ Len(SubSeq(s, 1, m)) = IF 1 <= m THEN m - 1 + 1 ELSE 0
      /\ \A i \in 1..m - 1 + 1 : SubSeq(s, 1, m)[i] = s[1 + i - 1]
  BY <1>1, <1>2, SubSeqProperties
<1>5. Len(SubSeq(s, 1, m)) = m
  BY <1>1, <1>4
<1>6. \A i \in 1..m : SubSeq(s, 1, m)[i] = s[i]
  BY <1>1, <1>4
<1> QED BY <1>3, <1>4, <1>5, <1>6 DEF m

LEMMA LastOf ==
    ASSUME NEW S, NEW s \in Seq(S), s # <<>>
    PROVE  /\ Front(s) \in Seq(S) /\ Last(s) \in S /\ Len(s) \in Nat /\ Len(s) >= 1
           /\ Len(Front(s)) = Len(s) - 1 /\ s = Append(Front(s), Last(s))
           /\ Front(s) = Pop(s, 1) /\ Last(s) = s[Len(s)]
           /\ \A i \in 1..Len(s) - 1 : Front(s)[i] = s[i]
<1> DEFINE n == Len(s)
           f == Front(s)
           l == Last(s)
<1>1. n \in Nat /\ n # 0
  BY LenProperties, EmptySeq
<1>2. f = Pop(s, 1) /\ l = s[n]
  BY DEF Front, Last, Pop
<1>3. 1 \in 0..Len(s) /\ n \in 1..Len(s)
  BY <1>1
<1>4. f \in Seq(S) /\ Len(f) = n - 1 /\ \A i \in 1..n - 1 : f[i] = s[i]
  BY <1>2, <1>3, PopIs
<1>5. l \in S
  BY <1>2, <1>3, ElementOfSeq
<1> HIDE DEF f, l
<1> DEFINE r == Append(f, l)
<1>6. /\ r \in Seq(S) /\ Len(r) = Len(f) + 1 /\ r[Len(f) + 1] = l
      /\ \A i \in 1..Len(f) : r[i] = f[i]
  BY <1>4, <1>5, Pushed
<1>7. s = r
  <2>1. Len(s) = Len(r)
    BY <1>1, <1>4, <1>6
  <2>2. ASSUME NEW i \in 1..Len(s) PROVE s[i] = r[i]
    <3>1. CASE i = n
      BY <1>1, <1>2, <1>4, <1>6, <3>1
    <3>2. CASE i # n
      <4>1. i \in 1..n - 1 /\ i \in 1..Len(f)
        BY <1>1, <1>4, <3>2
      <4> QED BY <1>4, <1>6, <4>1
    <3> QED BY <3>1, <3>2
  <2> HIDE DEF r
  <2> QED BY <1>6, <2>1, <2>2, SeqEqual
<1> QED BY <1>1, <1>2, <1>4, <1>5, <1>7 DEF f, l

LEMMA PushDeferredStep ==
    ASSUME LuaAssumption, LuaIInv, NEW n \in Nat, push_deferred(n)
    PROVE  LuaIInv' /\ InScope
<1> DEFINE e == [j \in 1..n |-> Nil]
           r == stack \o e
           l == Local("pop", 0, n, Nil, 0)
<1>1. Len(stack) + n <= MaxStack /\ stack' = r /\ locals' = Append(locals, l)
      /\ UNCHANGED <<heap, data, alive>>
  BY Zenon DEF push_deferred
<1>2. /\ stack \in Seq(Held) /\ Len(stack) \in Nat /\ locals \in Seq(LocalSet)
      /\ Len(locals) \in Nat /\ Placed(stack, locals) /\ LoopsOK(locals, heap) /\ HeapOK(heap)
      /\ DataOK(data, alive) /\ DOMAIN stack = 1..Len(stack)
  BY StackIs DEF StackOK, LuaIInv
<1>3. e \in Seq(Held) /\ Len(e) = n /\ \A j \in 1..n : e[j] = Nil
  <2>1. Nil \in Held
    BY Kinded
  <2> QED BY <2>1
<1> HIDE DEF e
<1>4. r \in Seq(Held) /\ Len(r) = Len(stack) + n
      /\ \A i \in 1..Len(stack) + n : r[i] = IF i <= Len(stack) THEN stack[i] ELSE e[i - Len(stack)]
  BY <1>2, <1>3, ConcatProperties
<1> HIDE DEF r
<1>5. l \in LocalSet /\ l.kind = "pop" /\ l.n = n
  <2>1. "pop" \in Kinds /\ 0 \in Nat /\ Nil \in Held
    BY Kinded DEF Kinds
  <2> QED BY <2>1, LocalIs
<1> HIDE DEF l
<1>6. Slots(l) = n /\ Slot(r, Len(stack), l) /\ Loops(l, heap)
  BY <1>5, SlotsAre DEF Slot, Loops
<1>7. Placed(r, Append(locals, l))
  <2>1. \A i \in 1..Len(stack) : r[i] = stack[i]
    BY <1>2, <1>4
  <2> QED BY <1>2, <1>4, <1>5, <1>6, <2>1, PlacedMore
<1>8. Append(locals, l) \in Seq(LocalSet) /\ Len(Append(locals, l)) = Len(locals) + 1
  BY <1>2, <1>5, AppendProperties
<1>9. LoopsOK(Append(locals, l), heap)
  BY <1>2, <1>5, <1>6, LoopsMore
<1>10. ReachOK(heap, r, data)
  <2>1. \A i \in DOMAIN stack : stack[i] \in Reached
    BY <1>2, ReachIs DEF Reached, Roots
  <2>2. DOMAIN r = 1..Len(r)
    BY <1>4, LenProperties
  <2>3. ASSUME NEW i \in 1..Len(r) PROVE r[i] \in Reached \cup Plain
    <3>1. CASE i <= Len(stack)
      BY <1>2, <1>4, <2>1, <3>1
    <3>2. CASE ~(i <= Len(stack))
      <4>1. i - Len(stack) \in 1..n
        BY <1>2, <1>4, <3>2
      <4>2. r[i] = Nil
        BY <1>3, <1>4, <3>2, <4>1
      <4> QED BY <4>2 DEF Plain
    <3> QED BY <3>1, <3>2
  <2> QED BY <2>2, <2>3, ReachMore
<1>11. StackOK(r, Append(locals, l))
  <2>1. Len(r) <= MaxStack
    BY <1>1, <1>4
  <2> QED BY <1>4, <1>7, <1>8, <2>1 DEF StackOK
<1> QED BY <1>1, <1>2, <1>8, <1>9, <1>10, <1>11 DEF LuaIInv, InScope

LEMMA StackMarkStep ==
    ASSUME LuaAssumption, LuaIInv, stack_mark
    PROVE  LuaIInv' /\ InScope
<1> DEFINE l == Local("mark", Len(stack), 0, Nil, 0)
<1>1. stack' = stack /\ locals' = Append(locals, l) /\ UNCHANGED <<heap, data, alive>>
  BY Zenon DEF stack_mark
<1>2. /\ stack \in Seq(Held) /\ Len(stack) \in Nat /\ locals \in Seq(LocalSet)
      /\ Len(locals) \in Nat /\ Placed(stack, locals) /\ LoopsOK(locals, heap) /\ HeapOK(heap)
      /\ DataOK(data, alive) /\ Len(stack) <= MaxStack
  BY StackIs DEF StackOK, LuaIInv
<1>3. l \in LocalSet /\ l.kind = "mark" /\ l.i = Len(stack)
  <2>1. "mark" \in Kinds /\ 0 \in Nat /\ Nil \in Held
    BY Kinded DEF Kinds
  <2> QED BY <1>2, <2>1, LocalIs
<1> HIDE DEF l
<1>4. Slots(l) = 0 /\ Slot(stack, Len(stack), l) /\ Loops(l, heap)
  BY <1>3, SlotsAre DEF Slot, Loops
<1>5. Len(stack) = Len(stack) + Slots(l) /\ \A i \in 1..Len(stack) : stack[i] = stack[i]
  BY <1>2, <1>4
<1>6. Placed(stack, Append(locals, l))
  BY <1>2, <1>3, <1>4, <1>5, PlacedMore
<1>7. Append(locals, l) \in Seq(LocalSet) /\ Len(Append(locals, l)) = Len(locals) + 1
  BY <1>2, <1>3, AppendProperties
<1>8. LoopsOK(Append(locals, l), heap)
  BY <1>2, <1>3, <1>4, LoopsMore
<1>9. ReachOK(heap, stack, data)
  BY DEF LuaIInv
<1> QED BY <1>1, <1>2, <1>6, <1>7, <1>8, <1>9 DEF LuaIInv, InScope, StackOK

(* What the last object in scope has is at the top. *)
LEMMA LastIs ==
    ASSUME LuaAssumption, LuaIInv, locals # <<>>
    PROVE  /\ Front(locals) \in Seq(LocalSet) /\ Last(locals) \in LocalSet
           /\ locals = Append(Front(locals), Last(locals))
           /\ Len(Front(locals)) = Len(locals) - 1 /\ Len(locals) \in Nat /\ Len(locals) >= 1
           /\ Slots(Last(locals)) \in 0..Len(stack)
           /\ Slot(stack, Len(stack) - Slots(Last(locals)), Last(locals))
           /\ LoopsOK(Front(locals), heap) /\ Loops(Last(locals), heap)
           /\ stack \in Seq(Held) /\ Len(stack) \in Nat /\ Len(stack) <= MaxStack
           /\ DOMAIN stack = 1..Len(stack)
           /\ Last(locals) = locals[Len(locals)] /\ Len(locals) \in DOMAIN locals
<1> DEFINE f == Front(locals)
           l == Last(locals)
           n == Len(f)
<1>1. /\ stack \in Seq(Held) /\ Len(stack) \in Nat /\ Len(stack) <= MaxStack
      /\ DOMAIN stack = 1..Len(stack) /\ StackOK(stack, locals)
      /\ locals \in Seq(LocalSet) /\ Placed(stack, locals) /\ LoopsOK(locals, heap)
  BY StackIs DEF StackOK, LuaIInv
<1>2. /\ f \in Seq(LocalSet) /\ l \in LocalSet /\ locals = Append(f, l)
      /\ n = Len(locals) - 1 /\ Len(locals) \in Nat /\ Len(locals) >= 1
      /\ l = locals[Len(locals)]
  BY <1>1, LastOf
<1> HIDE DEF f, l, n
<1>3. LoopsOK(f, heap) /\ Loops(l, heap)
  <2>1. LoopsOK(Append(f, l), heap)
    BY <1>1, <1>2
  <2> QED BY <1>2, <2>1, LoopsLess
<1>4. DOMAIN locals = 1..Len(locals) /\ Len(locals) \in 1..Len(locals)
  BY <1>1, <1>2, LenProperties
<1> DEFINE b == Tops(locals)[n]
           m == Len(locals)
<1>5. b \in Nat /\ Len(stack) = b + Slots(l) /\ Slot(stack, b, l)
  <2>1. n = m - 1 /\ n \in 0..m /\ m \in 1..m
    BY <1>2
  <2>2. b \in Nat
    BY <1>1, <2>1, TopsOf
  <2>3. Tops(locals)[m] = Tops(locals)[m - 1] + Slots(locals[m])
    BY <1>1, <2>1, TopsOf
  <2>4. Len(stack) = Tops(locals)[m] /\ Slot(stack, Tops(locals)[m - 1], locals[m])
    BY <1>1, <1>4 DEF Placed
  <2> QED BY <1>2, <2>1, <2>2, <2>3, <2>4
<1> HIDE DEF b
<1>6. Slots(l) \in Nat
  BY <1>2, SlotsAre
<1>7. Slots(l) \in 0..Len(stack) /\ Len(stack) - Slots(l) = b
  BY <1>1, <1>5, <1>6
<1> QED BY <1>1, <1>2, <1>3, <1>4, <1>5, <1>7 DEF f, l, n

(* The last object goes out of scope, with what it has. *)
LEMMA ScopeLess ==
    ASSUME LuaAssumption, LuaIInv, locals # <<>>,
           stack' = Pop(stack, Slots(Last(locals))), locals' = Front(locals),
           UNCHANGED <<heap, data, alive>>
    PROVE  LuaIInv'
<1> DEFINE f == Front(locals)
           l == Last(locals)
           r == Pop(stack, Slots(l))
<1>1. /\ f \in Seq(LocalSet) /\ l \in LocalSet /\ locals = Append(f, l)
      /\ Slots(l) \in 0..Len(stack) /\ LoopsOK(f, heap)
      /\ stack \in Seq(Held) /\ Len(stack) \in Nat /\ Len(stack) <= MaxStack
      /\ DOMAIN stack = 1..Len(stack)
  BY LastIs
<1> HIDE DEF f, l
<1>2. r \in Seq(Held) /\ Len(r) = Len(stack) - Slots(l)
      /\ \A i \in 1..Len(stack) - Slots(l) : r[i] = stack[i]
  BY <1>1, PopIs
<1> HIDE DEF r
<1>3. /\ Len(r) \in Nat /\ Len(stack) = Len(r) + Slots(l) /\ Len(r) <= MaxStack
      /\ \A i \in 1..Len(r) : r[i] = stack[i] /\ i \in 1..Len(stack)
  BY <1>1, <1>2, Kinded
<1>4. Placed(stack, Append(f, l))
  BY <1>1 DEF LuaIInv, StackOK
<1>5. Placed(r, f)
  BY <1>1, <1>3, <1>4, PlacedLess
<1>6. DOMAIN r = 1..Len(r)
  BY <1>2, LenProperties
<1>7. ReachOK(heap, r, data)
  <2>1. \A i \in DOMAIN stack : stack[i] \in Reached
    BY ReachIs DEF Reached, Roots, LuaIInv
  <2>2. \A i \in DOMAIN r : r[i] \in Reached \cup Plain
    BY <1>1, <1>3, <1>6, <2>1
  <2> QED BY <2>2, ReachMore
<1>8. stack' = r /\ locals' = f /\ UNCHANGED <<heap, data, alive>>
  BY DEF r, f, l
<1>9. StackOK(r, f)
  BY <1>1, <1>2, <1>3, <1>5 DEF StackOK
<1> QED BY <1>1, <1>7, <1>8, <1>9 DEF LuaIInv

LEMMA DestroyStep ==
    ASSUME LuaAssumption, LuaIInv, destroy
    PROVE  LuaIInv' /\ Last(locals).kind \notin {"iter", "seq"}
<1> DEFINE l == Last(locals)
           n == Len(stack)
<1>1. /\ locals # <<>> /\ l.kind \in {"ref", "pop", "mark"}
      /\ stack' = Leave(l) /\ locals' = Front(locals) /\ UNCHANGED <<heap, data, alive>>
  BY Zenon DEF destroy
<1>2. /\ l \in LocalSet /\ Slots(l) \in 0..n /\ Slot(stack, n - Slots(l), l)
      /\ stack \in Seq(Held) /\ n \in Nat
  BY <1>1, LastIs
<1>3. Leave(l) = Pop(stack, Slots(l))
  <2> HIDE DEF l, n
  <2>1. CASE l.kind = "ref"
    <3>1. Slots(l) = 1 /\ l.i = (n - Slots(l)) + 1
      BY <1>2, <2>1, SlotsAre DEF Slot
    <3>2. l.i = n /\ n >= 1
      BY <1>2, <3>1
    <3>3. Leave(l) = RemoveAt(stack, n)
      BY <2>1, <3>2 DEF Leave
    <3>4. RemoveAt(stack, n) = SubSeq(stack, 1, n - 1) \o SubSeq(stack, n + 1, n)
      BY DEF RemoveAt, n
    <3>5. SubSeq(stack, n + 1, n) = <<>>
      <4>1. n + 1 \in Int /\ n \in Int /\ n < n + 1
        BY <1>2
      <4> QED BY <4>1, SubSeqEmpty
    <3>6. SubSeq(stack, 1, n - 1) = Pop(stack, 1)
      BY DEF Pop, n
    <3>7. Pop(stack, 1) \in Seq(Held)
      <4>1. 1 \in 0..Len(stack)
        BY <1>2, <3>2 DEF n
      <4> QED BY <1>2, <4>1, PopIs
    <3>8. Pop(stack, 1) \o <<>> = Pop(stack, 1)
      BY <3>7, ConcatEmptySeq
    <3> QED BY <3>1, <3>3, <3>4, <3>5, <3>6, <3>8
  <2>2. CASE l.kind = "pop"
    <3>1. Slots(l) = l.n
      BY <1>2, <2>2, SlotsAre
    <3> QED BY <2>2, <3>1 DEF Leave
  <2>3. CASE l.kind = "mark"
    <3>1. Slots(l) = 0
      BY <1>2, <2>3, SlotsAre
    <3>2. Pop(stack, 0) = stack
      <4>1. Pop(stack, 0) = SubSeq(stack, 1, Len(stack))
        <5>1. Len(stack) - 0 = Len(stack)
          BY <1>2 DEF n
        <5> QED BY <5>1 DEF Pop
      <4> QED BY <1>2, <4>1, SubSeqFull
    <3>3. Leave(l) = stack
      BY <2>3 DEF Leave
    <3> QED BY <3>1, <3>2, <3>3
  <2> QED BY <1>1, <2>1, <2>2, <2>3
<1>4. LuaIInv'
  <2>1. stack' = Pop(stack, Slots(Last(locals)))
    BY <1>1, <1>3
  <2> HIDE DEF l, n
  <2> QED BY <1>1, <2>1, ScopeLess
<1> QED BY <1>1, <1>4
-----------------------------------------------------------------------------
(* Operations that leave the stack as it was.                              *)

LEMMA StackKept ==
    ASSUME LuaAssumption, LuaIInv, stack' = stack, UNCHANGED <<locals, heap, data, alive>>
    PROVE  LuaIInv' /\ InScope
<1>1. /\ StackOK(stack, locals) /\ HeapOK(heap) /\ LoopsOK(locals, heap)
      /\ DataOK(data, alive) /\ ReachOK(heap, stack, data)
  BY DEF LuaIInv
<1>2. Len(locals) \in {Len(locals), Len(locals) + 1}
  OBVIOUS
<1> QED BY <1>1, <1>2 DEF LuaIInv, InScope

LEMMA GetValueStep ==
    ASSUME LuaAssumption, LuaIInv, NEW t \in Known, NEW ks \in Paths, get_value(t, ks)
    PROVE  LuaIInv' /\ InScope
<1> DEFINE v == Field(t[2], ks)
<1>1. At(stack, t[1], t[2]) /\ t[2] \in Heap /\ t[2] \in Reached
  BY KnownIs
<1>2. IsPath(t[2], ks) /\ stack' = Pop(Path(stack, t[1], ks), 1)
      /\ UNCHANGED <<locals, heap, data, alive>>
  BY Zenon DEF get_value
<1>3. v \in Held /\ v \in Values
  BY <1>1, <1>2, FieldReached DEF Held
<1>4. HeapOK(heap) /\ stack \in Seq(Values)
  BY StackIs DEF LuaIInv
<1>5. Path(stack, t[1], ks) = Append(stack, v)
  BY <1>1, <1>2, <1>4, PathPushes
<1> HIDE DEF v
<1>6. Pop(Append(stack, v), 1) = stack
  BY <1>3, <1>4, PushPop
<1> QED BY <1>2, <1>5, <1>6, StackKept

LEMMA GetUserStep ==
    ASSUME LuaAssumption, LuaIInv, NEW p, get_user(p)
    PROVE  LuaIInv' /\ InScope
<1>1. stack' = Checked(stack, locals[p].i) /\ UNCHANGED <<locals, heap, data, alive>>
  BY Zenon DEF get_user
<1>2. HeapOK(heap) /\ stack \in Seq(Values) /\ Nil \in Values
  BY StackIs DEF LuaIInv, Values
<1>3. stack' = stack
  BY <1>1, <1>2, UserIs
<1> QED BY <1>1, <1>3, StackKept

(* Calls: the handler, and what else is pushed. *)
LEMMA CallsPop ==
    ASSUME LuaAssumption, NEW s \in Seq(Values)
    PROVE  /\ Pop(Pop(Append(Append(s, Handler), Nil), 1), 1) = s
           /\ Pop(Append(s, Handler), 1) = s
           /\ Pop(Append(Append(s, Handler), Nil), 2) = s
           /\ Pop(s \o <<Handler, Nil>>, 2) = s
           /\ Pop(Append(s \o <<Handler, Nil>>, Nil), 3) = s
<1>1. Handler \in Values /\ Nil \in Values
  BY DEF Values
<1>2. Append(s, Handler) \in Seq(Values)
  BY <1>1, AppendProperties
<1>3. Pop(Append(s, Handler), 1) = s
  BY <1>1, PushPop
<1>4. Pop(Append(Append(s, Handler), Nil), 1) = Append(s, Handler)
  BY <1>1, <1>2, PushPop
<1>5. Append(Append(s, Handler), Nil) = s \o <<Handler, Nil>>
      /\ Pop(Append(Append(s, Handler), Nil), 2) = s
  BY <1>1, PushesPop
<1>6. Pop(Append(s \o <<Handler, Nil>>, Nil), 3) = s
  <2> DEFINE a == Append(s, Handler)
             b == Append(a, Nil)
             c == Append(b, Nil)
             r == Pop(c, 3)
  <2>1. a \in Seq(Values) /\ Len(a) = Len(s) + 1 /\ \A i \in 1..Len(s) : a[i] = s[i]
    BY <1>1, Pushed
  <2> HIDE DEF a
  <2>2. b \in Seq(Values) /\ Len(b) = Len(a) + 1 /\ \A i \in 1..Len(a) : b[i] = a[i]
    BY <1>1, <2>1, Pushed
  <2> HIDE DEF b
  <2>3. c \in Seq(Values) /\ Len(c) = Len(b) + 1 /\ \A i \in 1..Len(b) : c[i] = b[i]
    BY <1>1, <2>2, Pushed
  <2> HIDE DEF c
  <2>4. Len(s) \in Nat
    BY LenProperties
  <2>5. 3 \in 0..Len(c) /\ Len(c) - 3 = Len(s)
        /\ \A i \in 1..Len(s) : i \in 1..Len(a) /\ i \in 1..Len(b)
    BY <2>1, <2>2, <2>3, <2>4
  <2>6. r \in Seq(Values) /\ Len(r) = Len(s) /\ \A i \in 1..Len(s) : r[i] = c[i]
    BY <2>3, <2>5, PopIs
  <2> HIDE DEF r
  <2>7. \A i \in 1..Len(s) : r[i] = s[i]
    BY <2>1, <2>2, <2>3, <2>5, <2>6
  <2>8. r = s
    BY <2>6, <2>7, SeqEqual
  <2>9. c = Append(s \o <<Handler, Nil>>, Nil)
    BY <1>5 DEF a, b, c
  <2> QED BY <2>8, <2>9 DEF r
<1> QED BY <1>3, <1>4, <1>5, <1>6

LEMMA CallbackStep ==
    ASSUME LuaAssumption, LuaIInv, callback
    PROVE  LuaIInv' /\ InScope
<1>1. stack' = Pop(Append(Append(stack, Handler), Nil), 2)
      /\ UNCHANGED <<locals, heap, data, alive>>
  BY Zenon DEF callback
<1>2. stack \in Seq(Values)
  BY StackIs DEF LuaIInv
<1> QED BY <1>1, <1>2, CallsPop, StackKept

LEMMA EntryCallStep ==
    ASSUME LuaAssumption, LuaIInv, ~TasksFail, entry_call
    PROVE  LuaIInv' /\ InScope
<1>1. stack' = Pop(Append(stack, Handler), 1) /\ UNCHANGED <<locals, heap, data, alive>>
  BY Zenon DEF entry_call
<1>2. stack \in Seq(Values)
  BY StackIs DEF LuaIInv
<1> QED BY <1>1, <1>2, CallsPop, StackKept

LEMMA OnCollisionStep ==
    ASSUME LuaAssumption, LuaIInv, Results = 0, NEW n \in Nat, lua_on_collision(n)
    PROVE  LuaIInv' /\ InScope
<1> DEFINE s == stack \o <<Handler, Nil>>
           e == [j \in 1..n * Results |-> Nil]
<1>1. /\ \/ stack' = Pop(s, 2)
         \/ stack' = Pop(Append(s, Nil) \o e, 3)
      /\ UNCHANGED <<locals, heap, data, alive>>
  BY Zenon DEF lua_on_collision
<1>2. stack \in Seq(Values) /\ Nil \in Values /\ Handler \in Values
  BY StackIs DEF LuaIInv, Values
<1>3. e = <<>>
  OBVIOUS
<1>4. Append(s, Nil) \in Seq(Values)
  BY <1>2
<1> HIDE DEF e
<1>5. Append(s, Nil) \o e = Append(s, Nil)
  BY <1>3, <1>4, ConcatEmptySeq
<1>6. stack' = stack
  BY <1>1, <1>2, <1>5, CallsPop
<1> QED BY <1>1, <1>6, StackKept
-----------------------------------------------------------------------------
(* Fields that change.                                                     *)

(* Loops go on if no field was added to their tables. *)
LEMMA LoopsChanged ==
    ASSUME NEW ls, NEW h, NEW g, LoopsOK(ls, h),
           \A p \in DOMAIN ls : ls[p].kind = "iter" =>
                \A k \in Keys : g[ls[p].v][k] # Nil => h[ls[p].v][k] # Nil
    PROVE  LoopsOK(ls, g)
<1> SUFFICES ASSUME NEW p \in DOMAIN ls PROVE Loops(ls[p], g)
  BY DEF LoopsOK
<1>1. Loops(ls[p], h)
  BY DEF LoopsOK
<1>2. ls[p].kind = "iter" => \A k \in Keys : g[ls[p].v][k] # Nil => h[ls[p].v][k] # Nil
  OBVIOUS
<1>3. ls[p].kind = "iter" /\ Passed(ls[p], h) => Passed(ls[p], g)
  BY <1>2, Zenon DEF Passed
<1> QED BY <1>1, <1>3, Zenon DEF Loops

(* A field of table x is v, which holds nothing or was reached. *)
LEMMA HeapChanged ==
    ASSUME LuaAssumption, LuaIInv, NEW x \in Heap, x # Meta, NEW k \in Keys,
           NEW v \in Held, v \in Reached \cup Plain,
           \A p \in DOMAIN locals : locals[p].kind = "iter" /\ locals[p].v = x =>
                heap[x][k] # Nil,
           stack' = stack, heap' = [heap EXCEPT ![x][k] = v], UNCHANGED <<locals, data, alive>>
    PROVE  LuaIInv' /\ InScope
<1>1. /\ StackOK(stack, locals) /\ HeapOK(heap) /\ LoopsOK(locals, heap)
      /\ DataOK(data, alive) /\ ReachOK(heap, stack, data)
  BY DEF LuaIInv
<1>2. heap \in [Heap -> [Fields -> Held]] /\ heap[Globals][Meta] = Meta /\ heap[Meta][1] = Meta
  BY <1>1 DEF HeapOK
<1>3. k \in Fields /\ Meta \in Heap /\ Globals \in Heap /\ Meta \notin Keys
  <2>1. Meta \notin Keys
    BY DEF LuaAssumption
  <2> QED BY <2>1, Kinded
<1>4. /\ \A y \in Heap : y # x => heap'[y] = heap[y]
      /\ heap'[x] = [heap[x] EXCEPT ![k] = v]
      /\ heap' \in [Heap -> [Fields -> Held]]
  BY <1>2, <1>3
<1>5. /\ heap'[x][k] = v /\ \A j \in Fields : j # k => heap'[x][j] = heap[x][j]
  <2> DEFINE a == heap[x]
  <2>1. a \in [Fields -> Held]
    BY <1>2
  <2> HIDE DEF a
  <2>2. [a EXCEPT ![k] = v][k] = v /\ \A j \in Fields : j # k => [a EXCEPT ![k] = v][j] = a[j]
    BY <1>3, <2>1
  <2> QED BY <1>4, <2>2 DEF a
<1>6. HeapOK(heap')
  <2>1. heap'[Meta][1] = Meta
    BY <1>2, <1>3, <1>4
  <2>2. heap'[Globals][Meta] = Meta
    <3>1. CASE x = Globals
      <4>1. Meta \in Fields /\ Meta # k
        BY <1>3, Kinded
      <4> QED BY <1>2, <1>5, <3>1, <4>1
    <3>2. CASE x # Globals
      BY <1>2, <1>3, <1>4, <3>2
    <3> QED BY <3>1, <3>2
  <2> QED BY <1>4, <2>1, <2>2 DEF HeapOK
<1>7. LoopsOK(locals, heap')
  <2>1. ASSUME NEW p \in DOMAIN locals, locals[p].kind = "iter", NEW j \in Keys,
               heap'[locals[p].v][j] # Nil
        PROVE  heap[locals[p].v][j] # Nil
    <3> DEFINE y == locals[p].v
    <3>1. y \in Heap
      BY <1>1, <2>1 DEF LoopsOK, Loops
    <3>2. j \in Fields
      BY Kinded
    <3>3. CASE y = x /\ j = k
      BY <2>1, <3>3
    <3>4. CASE y = x /\ j # k
      BY <1>5, <2>1, <3>2, <3>4
    <3>5. CASE y # x
      BY <1>4, <2>1, <3>1, <3>5
    <3> QED BY <3>3, <3>4, <3>5
  <2>2. \A p \in DOMAIN locals : locals[p].kind = "iter" =>
            \A j \in Keys : heap'[locals[p].v][j] # Nil => heap[locals[p].v][j] # Nil
    BY <2>1
  <2> QED BY <1>1, <2>2, LoopsChanged
<1> DEFINE S == Reached \cup Plain
<1>8. Globals \in Reached /\ Closed(heap, Reached) /\ \A i \in DOMAIN stack : stack[i] \in Reached
  BY <1>1, ReachIs DEF Reached, Roots
<1>9. Closed(heap', S)
  <2> SUFFICES ASSUME NEW y \in S \cap Heap, NEW j \in Fields PROVE heap'[y][j] \in S
    BY DEF Closed
  <2>1. y \in Reached /\ heap[y][j] \in Reached
    BY <1>8, PlainIs DEF Closed
  <2>2. CASE y = x /\ j = k
    BY <1>5, <2>2
  <2>3. CASE y = x /\ j # k
    BY <1>5, <2>1, <2>3
  <2>4. CASE y # x
    BY <1>4, <2>1, <2>4
  <2> QED BY <2>2, <2>3, <2>4
<1>10. ReachOK(heap', stack, data)
  <2>1. \A d \in Data \cap S : data[d] # None
    <3>1. \A d \in Data : d \in Reached => data[d] # None
      BY Zenon DEF LuaIInv, ReachOK, Reached
    <3> QED BY <3>1, PlainIs
  <2>2. Globals \in S /\ \A i \in DOMAIN stack : stack[i] \in S
    BY <1>8
  <2> HIDE DEF S
  <2> QED BY <1>9, <2>1, <2>2, ReachKept
<1>11. Len(locals) \in {Len(locals), Len(locals) + 1}
  OBVIOUS
<1> QED BY <1>1, <1>6, <1>7, <1>10, <1>11 DEF LuaIInv, InScope

LEMMA SetFieldStep ==
    ASSUME LuaAssumption, LuaIInv, NEW t \in Known, NEW ks \in Paths, NEW v, set_field(t, ks, v)
    PROVE  LuaIInv' /\ InScope
<1> DEFINE x == Holder(t[2], ks)
           k == Last(ks)
           r == StoredPath(t[1], ks, v)
<1>1. At(stack, t[1], t[2]) /\ t[2] \in Heap /\ t[2] \in Reached
  BY KnownIs
<1>2. /\ IsPath(t[2], ks) /\ x # Meta /\ ~Iterated(x, k)
      /\ v \in Scalars \cup {Nil} \cup {locals[p].v : p \in Refs}
      /\ stack' = r.stack /\ heap' = r.heap /\ UNCHANGED <<locals, data, alive>>
  BY Zenon DEF set_field, Assign
<1>3. v \in Held /\ v \in Reached \cup Plain
  <2>1. CASE v \in Scalars \cup {Nil}
    BY <2>1, PlainIs DEF Plain
  <2>2. CASE v \in {locals[p].v : p \in Refs}
    <3>1. \A p \in Refs : p \in DOMAIN locals /\ locals[p].kind = "ref"
      BY DEF Refs
    <3> QED BY <2>2, <3>1, RefsHold
  <2> QED BY <1>2, <2>1, <2>2
<1>4. HeapOK(heap) /\ stack \in Seq(Values)
  BY StackIs DEF LuaIInv
<1>5. r = [heap |-> [heap EXCEPT ![x][k] = v], stack |-> stack]
  BY <1>1, <1>2, <1>3, <1>4, StoredPathAt
<1>6. x \in Heap /\ k \in Keys
  BY <1>1, <1>2, FieldReached, PathIs
<1> HIDE DEF x, k, r
<1>7. stack' = stack /\ heap' = [heap EXCEPT ![x][k] = v]
  BY <1>2, <1>5
<1>8. \A p \in DOMAIN locals : locals[p].kind = "iter" /\ locals[p].v = x => heap[x][k] # Nil
  BY <1>2 DEF Iterated
<1> QED BY <1>2, <1>3, <1>6, <1>7, <1>8, HeapChanged

LEMMA DoStringStep ==
    ASSUME LuaAssumption, LuaIInv, dostring
    PROVE  LuaIInv' /\ InScope
<1> DEFINE s == Append(stack, Handler)
<1>1. /\ \/ stack' = Pop(Pop(Append(s, Nil), 1), 1) /\ UNCHANGED heap
         \/ stack' = Pop(s, 1) /\ Ran(heap')
         \/ stack' = Pop(Append(s, Nil), 2) /\ UNCHANGED heap
      /\ UNCHANGED <<locals, data, alive>>
  BY Zenon DEF dostring
<1>2. stack \in Seq(Values)
  BY StackIs DEF LuaIInv
<1>3. stack' = stack
  BY <1>1, <1>2, CallsPop
<1>4. CASE UNCHANGED heap
  BY <1>1, <1>3, <1>4, StackKept
<1>5. CASE Ran(heap')
  <2>1. PICK k \in Keys, v \in Scalars \cup {Nil} \cup (Reached \cap Tables) :
            heap' = [heap EXCEPT ![Globals][k] = v]
    BY <1>5, Zenon DEF Ran
  <2>2. v \in Held /\ v \in Reached \cup Plain
    BY PlainIs, Kinded DEF Plain
  <2>3. Globals \in Heap /\ Globals # Meta /\ Globals \notin Held
    BY Kinded
  <2>4. \A p \in DOMAIN locals : locals[p].v # Globals
    BY <2>3, RefIs DEF LuaIInv
  <2> QED BY <1>1, <1>3, <2>1, <2>2, <2>3, <2>4, HeapChanged
<1> QED BY <1>1, <1>4, <1>5

(* The collector, and the end of the function. *)
LEMMA CollectStep ==
    ASSUME LuaAssumption, LuaIInv, collect
    PROVE  LuaIInv' /\ InScope
<1>1. /\ StackOK(stack, locals) /\ HeapOK(heap) /\ LoopsOK(locals, heap)
      /\ DataOK(data, alive) /\ ReachOK(heap, stack, data)
  BY DEF LuaIInv
<1>2. stack' = stack /\ locals' = locals
  BY Zenon DEF collect
<1>3. Len(locals) \in {Len(locals), Len(locals) + 1}
  OBVIOUS
<1>4. Globals \in Reached /\ Closed(heap, Reached) /\ \A i \in DOMAIN stack : stack[i] \in Reached
  BY <1>1, ReachIs DEF Reached, Roots
<1>5. \A d \in Data : d \in Reached => data[d] # None
  BY Zenon DEF LuaIInv, ReachOK, Reached
<1>6. ASSUME NEW d \in Data \ Reached, data[d] # None, alive' = Destroyed(d),
             data' = [data EXCEPT ![d] = None], heap' = heap
      PROVE  LuaIInv' /\ InScope
  <2> DEFINE o == data[d].object
  <2>1. /\ alive \in [Objects -> BOOLEAN]
        /\ DOMAIN data = Data
        /\ \A e \in Data : data[e] # None =>
            /\ data[e] \in [object : Objects, own : BOOLEAN]
            /\ data[e].own <=> data[e].object \in Copies
            /\ alive[data[e].object]
        /\ \A c \in Copies : alive[c] => \E e \in Data : data[e] # None /\ data[e].object = c
        /\ \A e, f \in Data :
            data[e] # None /\ data[f] # None /\ data[e].object = data[f].object
                /\ data[e].own => e = f
        /\ \A c \in External : alive[c]
    BY <1>1, Zenon DEF DataOK
  <2>2. data'[d] = None /\ DOMAIN data' = Data /\ \A e \in Data : e # d => data'[e] = data[e]
    BY <1>6, <2>1
  <2>3. o \in Objects /\ (data[d].own <=> o \in Copies)
    <3>1. data[d] \in [object : Objects, own : BOOLEAN]
      BY <1>6, <2>1, Zenon
    <3> QED BY <1>6, <2>1, <3>1
  <2>4. alive' \in [Objects -> BOOLEAN]
        /\ \A c \in Objects : alive'[c] = IF c = o /\ o \in Copies THEN FALSE ELSE alive[c]
    <3>1. alive' = IF data[d].own THEN [alive EXCEPT ![o] = FALSE] ELSE alive
      BY <1>6, Zenon DEF Destroyed
    <3> HIDE DEF o
    <3>2. CASE data[d].own
      <4>1. alive' = [alive EXCEPT ![o] = FALSE] /\ o \in Copies
        BY <2>3, <3>1, <3>2
      <4> QED BY <2>1, <2>3, <4>1
    <3>3. CASE ~data[d].own
      <4>1. alive' = alive /\ o \notin Copies
        BY <2>3, <3>1, <3>3
      <4> QED BY <2>1, <4>1
    <3> QED BY <3>2, <3>3
  <2> HIDE DEF o
  <2>5. DataOK(data', alive')
    <3>1. ASSUME NEW e \in Data, data'[e] # None
          PROVE  /\ data'[e] \in [object : Objects, own : BOOLEAN]
                 /\ data'[e].own <=> data'[e].object \in Copies
                 /\ alive'[data'[e].object]
      <4>1. e # d /\ data'[e] = data[e] /\ data[e] # None
        BY <2>2, <3>1
      <4>2. /\ data[e] \in [object : Objects, own : BOOLEAN]
            /\ data[e].own <=> data[e].object \in Copies
            /\ alive[data[e].object]
        BY <2>1, <4>1, Zenon
      <4> DEFINE c == data[e].object
      <4>3. c \in Objects /\ alive[c] /\ (c \in Copies => data[e].own)
        BY <4>2
      <4>4. ~(c = o /\ o \in Copies)
        <5> SUFFICES ASSUME c = o, o \in Copies PROVE FALSE
          OBVIOUS
        <5>1. data[e].own /\ data[e].object = data[d].object
          BY <4>3 DEF o
        <5> QED BY <1>6, <2>1, <4>1, <5>1
      <4> HIDE DEF c
      <4>5. alive'[c]
        BY <2>4, <4>3, <4>4
      <4> QED BY <4>1, <4>2, <4>5 DEF c
    <3>2. ASSUME NEW c \in Copies, alive'[c]
          PROVE  \E e \in Data : data'[e] # None /\ data'[e].object = c
      <4>1. c \in Objects
        BY DEF Objects
      <4>2. c # o /\ alive[c]
        BY <2>4, <3>2, <4>1
      <4>3. PICK e \in Data : data[e] # None /\ data[e].object = c
        BY <2>1, <4>2
      <4>4. e # d
        BY <4>2, <4>3 DEF o
      <4> QED BY <2>2, <4>3, <4>4
    <3>3. ASSUME NEW e \in Data, NEW f \in Data, data'[e] # None, data'[f] # None,
                 data'[e].object = data'[f].object, data'[e].own
          PROVE  e = f
      <4>1. data'[e] = data[e] /\ data'[f] = data[f]
        BY <2>2, <3>3
      <4> QED BY <2>1, <3>3, <4>1
    <3>4. ASSUME NEW c \in External PROVE alive'[c]
      <4>1. c \in Objects /\ c \notin Copies
        BY DEF Objects, LuaAssumption
      <4>2. c # o \/ o \notin Copies
        BY <4>1
      <4>3. alive[c]
        BY <2>1
      <4>4. alive'[c] = alive[c]
        BY <2>4, <4>1, <4>2
      <4> QED BY <4>3, <4>4
    <3> QED BY <2>2, <2>4, <3>1, <3>2, <3>3, <3>4 DEF DataOK
  <2>6. ReachOK(heap', stack', data')
    <3>1. \A e \in Data \cap Reached : data'[e] # None
      BY <1>5, <2>2
    <3> QED BY <1>2, <1>4, <1>6, <3>1, ReachKept
  <2> QED BY <1>1, <1>2, <1>3, <1>6, <2>5, <2>6 DEF LuaIInv, InScope
<1>7. ASSUME NEW t \in Tables \ Reached, heap' = [heap EXCEPT ![t] = Empty],
             UNCHANGED <<data, alive>>
      PROVE  LuaIInv' /\ InScope
  <2>1. heap \in [Heap -> [Fields -> Held]] /\ heap[Globals][Meta] = Meta /\ heap[Meta][1] = Meta
    BY <1>1 DEF HeapOK
  <2>2. t \in Heap /\ t # Globals /\ t # Meta /\ Globals \in Heap /\ Meta \in Heap
    BY DEF Heap, LuaAssumption
  <2>3. Empty \in [Fields -> Held] /\ \A k \in Fields : Empty[k] = Nil
    BY Kinded DEF Empty
  <2> DEFINE z == Empty
  <2> HIDE DEF z
  <2>4. /\ heap' \in [Heap -> [Fields -> Held]] /\ heap'[t] = z
        /\ \A y \in Heap : y # t => heap'[y] = heap[y]
    <3>1. heap' = [heap EXCEPT ![t] = z] /\ z \in [Fields -> Held]
      BY <1>7, <2>3 DEF z
    <3> QED BY <2>1, <2>2, <3>1
  <2>5. HeapOK(heap')
    BY <2>1, <2>2, <2>4 DEF HeapOK
  <2>6. LoopsOK(locals', heap')
    <3>1. ASSUME NEW p \in DOMAIN locals, locals[p].kind = "iter", NEW k \in Keys,
                 heap'[locals[p].v][k] # Nil
          PROVE  heap[locals[p].v][k] # Nil
      <4>1. locals[p].v \in Heap
        BY <1>1, <3>1 DEF LoopsOK, Loops
      <4>2. k \in Fields
        BY Kinded
      <4>3. locals[p].v # t
        BY <2>3, <2>4, <3>1, <4>2 DEF z
      <4> QED BY <2>4, <3>1, <4>1, <4>3
    <3>2. \A p \in DOMAIN locals : locals[p].kind = "iter" =>
            \A k \in Keys : heap'[locals[p].v][k] # Nil => heap[locals[p].v][k] # Nil
      BY <3>1
    <3> QED BY <1>1, <1>2, <3>2, LoopsChanged
  <2>7. ReachOK(heap', stack', data')
    <3>1. Closed(heap', Reached)
      BY <1>4, <1>7, <2>4 DEF Closed
    <3>2. \A e \in Data \cap Reached : data'[e] # None
      BY <1>5, <1>7
    <3> QED BY <1>2, <1>4, <3>1, <3>2, ReachKept
  <2> QED BY <1>1, <1>2, <1>3, <1>7, <2>5, <2>6, <2>7 DEF LuaIInv, InScope
<1> QED BY <1>6, <1>7, Zenon DEF collect

LEMMA NothingThere ==
    ASSUME LuaAssumption
    PROVE  StackOK(<<>>, <<>>) /\ \A h : LoopsOK(<<>>, h)
<1>1. Placed(<<>>, <<>>)
  <2> DEFINE e == <<>>
  <2>1. e \in Seq(LocalSet) /\ Len(e) = 0 /\ DOMAIN e = 1..0
    BY EmptySeq
  <2> HIDE DEF e
  <2>2. Tops(e)[0] = 0
    BY <2>1, TopsOf
  <2>3. Placed(e, e)
    BY <2>1, <2>2 DEF Placed
  <2> QED BY <2>3 DEF e
<1>2. <<>> \in Seq(Held) /\ <<>> \in Seq(LocalSet) /\ Len(<<>>) = 0 /\ MaxStack \in Nat
  BY EmptySeq, Kinded
<1>3. \A h : LoopsOK(<<>>, h)
  BY DEF LoopsOK
<1> QED BY <1>1, <1>2, <1>3 DEF StackOK

LEMMA ReturnStep ==
    ASSUME LuaAssumption, LuaIInv, stack' = <<>>, locals' = <<>>, UNCHANGED <<heap, data, alive>>
    PROVE  LuaIInv'
<1>1. HeapOK(heap) /\ DataOK(data, alive)
  BY DEF LuaIInv
<1>2. StackOK(<<>>, <<>>) /\ LoopsOK(<<>>, heap)
  BY NothingThere
<1>3. ReachOK(heap, <<>>, data)
  <2>1. DOMAIN <<>> = {}
    OBVIOUS
  <2> QED BY <2>1, ReachMore
<1> QED BY <1>1, <1>2, <1>3 DEF LuaIInv
-----------------------------------------------------------------------------
(* Loops.                                                                  *)

(* A loop, for which there is room above the table it goes through. *)
Looping(s, b, l) ==
    /\ s \in Seq(Held) /\ Len(s) <= MaxStack /\ b \in Nat
    /\ l \in LocalSet /\ l.kind \in {"iter", "seq"} /\ Len(s) = b + Slots(l)
    /\ l.i = b + 1 /\ l.t \in 1..b /\ s[l.t] = l.v /\ l.v \in Heap
    /\ l.kind = "iter" => IF l.seen = <<>> THEN s[b + 1] = Nil
                          ELSE s[b + 1] = l.seen[Len(l.seen)][1]
    /\ l.seen # <<>> => Loops(l, heap)

(* The results of an advance: there is a pair more at the top of the same  *)
(* stack, or nothing.                                                      *)
AdvancedTo(r, s, b, l) ==
    LET m == [l EXCEPT !.seen = Append(@, r.pair)] IN
    /\ r.stack \in Seq(Held)
    /\ \A i \in 1..b : r.stack[i] = s[i]
    /\ r.pair = <<>> => Len(r.stack) = b
    /\ r.pair # <<>> =>
        /\ Len(r.stack) = b + Slots(l) /\ r.pair \in Keys \X Held
        /\ r.pair[2] \in ({heap[l.v][k] : k \in Keys} \cup Plain)
        /\ l.kind = "iter" => r.stack[b + 1] = r.pair[1] /\ r.stack[b + 2] = r.pair[2]
        /\ l.kind = "seq" => r.stack[b + 1] = r.pair[2]
        /\ Loops(m, heap)

(* What a loop that ends has been through. *)
Through(l) ==
    /\ l.kind = "iter" => {k \in Keys : heap[l.v][k] # Nil} \subseteq Went(l)
    /\ l.kind = "seq" => (Len(l.seen) + 1 \in Keys => heap[l.v][Len(l.seen) + 1] = Nil)

LEMMA SeenMore ==
    ASSUME NEW l \in LocalSet, NEW pair \in Keys \X Held
    PROVE  LET m == [l EXCEPT !.seen = Append(@, pair)]
               n == Len(l.seen) + 1 IN
           /\ m \in LocalSet /\ m.kind = l.kind /\ m.i = l.i /\ m.v = l.v /\ m.t = l.t
           /\ n \in Nat \ {0} /\ Len(m.seen) = n /\ m.seen # <<>> /\ m.seen[n] = pair
           /\ DOMAIN m.seen = 1..n /\ DOMAIN l.seen = 1..n - 1
           /\ \A i \in 1..n - 1 : m.seen[i] = l.seen[i]
           /\ \A i \in 1..n - 1 : l.seen[i] \in Keys \X Held
           /\ Slots(m) = Slots(l) \/ l.kind = "pop"
<1> DEFINE P == Keys \X Held
           q == l.seen
           r == Append(q, pair)
           n == Len(q) + 1
           m == [l EXCEPT !.seen = r]
<1>1. q \in Seq(P) /\ l.kind \in Kinds
  BY DEF LocalSet
<1> HIDE DEF P
<1>2. pair \in P
  BY DEF P
<1> HIDE DEF q
<1>3. /\ r \in Seq(P) /\ Len(r) = Len(q) + 1 /\ r[Len(q) + 1] = pair
      /\ \A i \in 1..Len(q) : r[i] = q[i]
      /\ Len(q) \in Nat
  BY <1>1, <1>2, Pushed
<1> HIDE DEF r
<1>4. /\ m \in LocalSet /\ m.kind = l.kind /\ m.i = l.i /\ m.v = l.v /\ m.t = l.t
      /\ m.seen = r
  BY <1>3 DEF LocalSet, P
<1>5. DOMAIN r = 1..n /\ DOMAIN q = 1..n - 1 /\ n - 1 = Len(q) /\ n \in Nat \ {0}
  BY <1>1, <1>3, LenProperties
<1>6. r # <<>>
  BY <1>3, EmptySeq
<1>7. \A i \in 1..Len(q) : q[i] \in P
  BY <1>1, ElementOfSeq
<1> HIDE DEF m
<1>8. Slots(m) = Slots(l) \/ l.kind = "pop"
  <2>1. l.kind \in {"ref", "pop", "mark", "iter", "seq"}
    BY <1>1 DEF Kinds
  <2>2. /\ m.kind = "ref" => Slots(m) = 1
        /\ m.kind = "mark" => Slots(m) = 0
        /\ m.kind = "iter" => Slots(m) = 2
        /\ m.kind = "seq" => Slots(m) = 1
    BY <1>4, SlotsAre
  <2>3. /\ l.kind = "ref" => Slots(l) = 1
        /\ l.kind = "mark" => Slots(l) = 0
        /\ l.kind = "iter" => Slots(l) = 2
        /\ l.kind = "seq" => Slots(l) = 1
    BY SlotsAre
  <2> QED BY <1>4, <2>1, <2>2, <2>3
<1> QED BY <1>3, <1>4, <1>5, <1>6, <1>7, <1>8 DEF m, r, q, P

LEMMA LeastIs ==
    ASSUME NEW S \in SUBSET Nat, S # {}
    PROVE  Least(S) \in S /\ \A k \in S : Least(S) <= k
<1> DEFINE R == {p \in Nat \X Nat : p[1] < p[2]}
<1>1. IsWellFoundedOn(R, Nat)
  BY NatLessThanWellFounded, Zenon DEF OpToRel
<1>2. PICK x \in S : \A y \in S : <<y, x>> \notin R
  <2> HIDE DEF R
  <2> QED BY <1>1, WFMin, Zenon
<1>3. ASSUME NEW y \in S PROVE x <= y
  <2>1. <<y, x>> \notin R /\ x \in Nat /\ y \in Nat
    BY <1>2
  <2>2. ~(y < x)
    BY <2>1
  <2> QED BY <2>1, <2>2
<1> QED BY <1>3, Zenon DEF Least

(* table_iter::next(): the field with the least key after the last. *)
LEMMA IterAdvances ==
    ASSUME LuaAssumption, HeapOK(heap), NEW s, NEW b, NEW l, Looping(s, b, l), l.kind = "iter"
    PROVE  LET r == Advanced(s, l) IN
           /\ AdvancedTo(r, s, b, l)
           /\ l.seen # <<>> /\ r.pair = <<>> => Through(l)
<1> DEFINE r == Advanced(s, l)
           q == Pop(s, 1)
           x == l.v
           n == Following(x, Last(q))
           f == Front(q)
<1>1. /\ s \in Seq(Held) /\ b \in Nat /\ Len(s) = b + 2 /\ l \in LocalSet /\ x \in Heap
      /\ l.i = b + 1 /\ l.t \in 1..b /\ s[l.t] = x /\ l.seen \in Seq(Keys \X Held)
      /\ Slots(l) = 2
  <2>1. /\ s \in Seq(Held) /\ b \in Nat /\ Len(s) = b + Slots(l) /\ l \in LocalSet /\ x \in Heap
        /\ l.i = b + 1 /\ l.t \in 1..b /\ s[l.t] = x
    BY DEF Looping
  <2>2. Slots(l) = 2
    BY <2>1, SlotsAre
  <2>3. l.seen \in Seq(Keys \X Held)
    BY <2>1 DEF LocalSet
  <2> QED BY <2>1, <2>2, <2>3
<1>2. q \in Seq(Held) /\ Len(q) = b + 1 /\ \A i \in 1..b + 1 : q[i] = s[i]
  <2>1. 1 \in 0..Len(s) /\ Len(s) - 1 = b + 1
    BY <1>1
  <2> QED BY <1>1, <2>1, PopIs
<1> HIDE DEF q
<1>3. /\ Last(q) = s[b + 1] /\ f \in Seq(Held) /\ Len(f) = b
      /\ \A i \in 1..b : f[i] = s[i]
  <2>1. q # <<>>
    BY <1>1, <1>2, EmptySeq
  <2>2. Last(q) = q[Len(q)] /\ f \in Seq(Held) /\ Len(f) = Len(q) - 1
        /\ \A i \in 1..Len(q) - 1 : f[i] = q[i]
    BY <1>2, <2>1, LastOf
  <2>3. Len(q) - 1 = b /\ b + 1 \in 1..b + 1 /\ \A i \in 1..b : i \in 1..b + 1
    BY <1>1, <1>2
  <2> QED BY <1>2, <2>2, <2>3
<1> DEFINE key == Last(q)
<1> HIDE DEF f
<1>4. n = {k \in Keys : heap[x][k] # Nil /\ (key = Nil \/ k > key)}
  BY Zenon DEF Following
<1>5. Keys \subseteq Held \cap Nat /\ Nil \notin Keys /\ Keys \subseteq Fields
  BY Kinded
<1>6. /\ l.seen = <<>> => key = Nil
      /\ l.seen # <<>> => key = l.seen[Len(l.seen)][1]
  BY <1>3 DEF Looping
<1> DEFINE N == Len(l.seen)
<1>7. /\ N \in Nat /\ DOMAIN l.seen = 1..N /\ \A i \in 1..N : l.seen[i] \in Keys \X Held
      /\ (l.seen # <<>> => N \in 1..N)
  <2>1. N \in Nat /\ DOMAIN l.seen = 1..N /\ \A i \in 1..N : l.seen[i] \in Keys \X Held
    BY <1>1, LenProperties, ElementOfSeq
  <2>2. l.seen # <<>> => N # 0
    BY <1>1, EmptySeq
  <2> QED BY <2>1, <2>2
<1>8. l.seen # <<>> => key \in Keys /\ key # Nil
  BY <1>5, <1>6, <1>7
<1>9. l.seen # <<>> => InOrder(l) /\ Passed(l, heap)
  BY DEF Looping, Loops
<1> HIDE DEF key, N
<1>10. r = IF n = {} THEN [stack |-> f, pair |-> <<>>]
           ELSE [stack |-> f \o <<Least(n), heap[x][Least(n)]>>,
                 pair |-> <<Least(n), heap[x][Least(n)]>>]
  BY <1>1, Zenon DEF Advanced, q, f
<1> HIDE DEF r
(* Fields that were passed. *)
<1>11. ASSUME NEW j \in Keys, heap[x][j] # Nil, j \notin n PROVE j \in Went(l)
  <2>1. key # Nil /\ ~(j > key)
    BY <1>4, <1>11
  <2>2. l.seen # <<>>
    BY <1>6, <2>1 DEF key
  <2>3. key \in Nat /\ j \in Nat
    BY <1>5, <1>8, <2>2
  <2>4. j <= l.seen[Len(l.seen)][1]
    BY <1>6, <2>1, <2>2, <2>3 DEF key
  <2> QED BY <1>9, <1>11, <2>2, <2>4 DEF Passed
<1>12. CASE n = {}
  <2>1. r.stack = f /\ r.pair = <<>>
    BY <1>10, <1>12
  <2>2. AdvancedTo(r, s, b, l)
    BY <1>3, <2>1, Zenon DEF AdvancedTo
  <2>3. {k \in Keys : heap[l.v][k] # Nil} \subseteq Went(l)
    BY <1>11, <1>12
  <2>4. Through(l)
    BY <2>3 DEF Through
  <2> QED BY <2>2, <2>4 DEF r
<1>13. CASE n # {}
  <2> DEFINE k == Least(n)
             v == heap[x][k]
             e == <<k, v>>
  <2>1. k \in n /\ \A j \in n : k <= j
    <3>1. n \in SUBSET Nat
      BY <1>4, <1>5
    <3> HIDE DEF n
    <3> QED BY <1>13, <3>1, LeastIs
  <2> HIDE DEF k
  <2>2. k \in Keys /\ v # Nil /\ (key = Nil \/ k > key)
    BY <1>4, <2>1
  <2>3. v \in Held /\ k \in Held /\ k \in Nat
    BY <1>1, <1>5, <2>2 DEF HeapOK
  <2> HIDE DEF v
  <2>4. e \in Keys \X Held /\ e \in Seq(Held) /\ Len(e) = 2 /\ e[1] = k /\ e[2] = v /\ e # <<>>
    BY <2>2, <2>3
  <2>5. r.stack = f \o e /\ r.pair = e
    BY <1>10, <1>13 DEF k, v
  <2> HIDE DEF e
  <2>6. /\ f \o e \in Seq(Held) /\ Len(f \o e) = b + 2
        /\ \A i \in 1..b : (f \o e)[i] = s[i]
        /\ (f \o e)[b + 1] = k /\ (f \o e)[b + 2] = v
    <3>1. /\ f \o e \in Seq(Held) /\ Len(f \o e) = Len(f) + Len(e)
          /\ \A i \in 1..Len(f) + Len(e) : (f \o e)[i] =
                IF i <= Len(f) THEN f[i] ELSE e[i - Len(f)]
      BY <1>3, <2>4, ConcatProperties
    <3> DEFINE u == f \o e
    <3>2. u \in Seq(Held) /\ Len(u) = b + 2
          /\ \A i \in 1..b + 2 : u[i] = IF i <= b THEN f[i] ELSE e[i - b]
      BY <1>3, <2>4, <3>1
    <3> HIDE DEF u
    <3>3. b + 1 \in 1..b + 2 /\ b + 2 \in 1..b + 2 /\ ~(b + 1 <= b) /\ ~(b + 2 <= b)
          /\ (b + 1) - b = 1 /\ (b + 2) - b = 2 /\ \A i \in 1..b : i \in 1..b + 2 /\ i <= b
      BY <1>1
    <3>4. u[b + 1] = e[(b + 1) - b] /\ u[b + 2] = e[(b + 2) - b] /\ \A i \in 1..b : u[i] = f[i]
      BY <3>2, <3>3
    <3>5. u[b + 1] = k /\ u[b + 2] = v /\ \A i \in 1..b : u[i] = s[i]
      BY <1>3, <2>4, <3>3, <3>4
    <3> QED BY <3>2, <3>5 DEF u
  <2> DEFINE m == [l EXCEPT !.seen = Append(@, e)]
  <2>7. /\ m \in LocalSet /\ m.kind = l.kind /\ m.v = l.v
        /\ Len(m.seen) = N + 1 /\ m.seen[N + 1] = e
        /\ DOMAIN m.seen = 1..N + 1
        /\ \A i \in 1..N : m.seen[i] = l.seen[i]
    <3> DEFINE P(g, c) == /\ g \in LocalSet /\ g.kind = l.kind /\ g.i = l.i /\ g.v = l.v /\ g.t = l.t
                          /\ c \in Nat \ {0} /\ Len(g.seen) = c /\ g.seen # <<>> /\ g.seen[c] = e
                          /\ DOMAIN g.seen = 1..c /\ DOMAIN l.seen = 1..c - 1
                          /\ \A i \in 1..c - 1 : g.seen[i] = l.seen[i]
                          /\ \A i \in 1..c - 1 : l.seen[i] \in Keys \X Held
                          /\ Slots(g) = Slots(l) \/ l.kind = "pop"
    <3>1. P(m, N + 1)
      BY <1>1, <2>4, SeenMore, Zenon DEF N
    <3>2. (N + 1) - 1 = N
      BY <1>7
    <3> QED BY <3>1, <3>2
  <2> HIDE DEF m
  <2>8. InOrder(m)
    <3> SUFFICES ASSUME NEW i \in 1..N + 1, NEW j \in 1..N + 1, i < j
                 PROVE  m.seen[i][1] < m.seen[j][1]
      BY <2>7 DEF InOrder
    <3>1. i \in 1..N
      BY <1>7
    <3>2. N \in 1..N /\ l.seen # <<>>
      <4>1. N # 0
        BY <1>7, <3>1
      <4> QED BY <1>7, <4>1, EmptySeq DEF N
    <3>3. l.seen[i][1] \in Nat /\ l.seen[N][1] \in Nat
      BY <1>5, <1>7, <3>1, <3>2
    <3>4. CASE j = N + 1
      <4>1. l.seen[i][1] <= l.seen[N][1]
        <5>1. i < N => l.seen[i][1] < l.seen[N][1]
          BY <1>7, <1>9, <3>1, <3>2 DEF InOrder
        <5>2. i = N \/ i < N
          BY <1>7, <3>1
        <5> QED BY <3>3, <5>1, <5>2
      <4>2. l.seen[N][1] < k
        BY <1>6, <1>8, <2>2, <3>2, <3>3, <2>3 DEF N, key
      <4>3. m.seen[j][1] = k /\ m.seen[i][1] = l.seen[i][1]
        BY <2>4, <2>7, <3>1, <3>4
      <4> QED BY <2>3, <3>3, <4>1, <4>2, <4>3
    <3>5. CASE j # N + 1
      <4>1. j \in 1..N
        BY <1>7, <3>5
      <4>2. l.seen[i][1] < l.seen[j][1]
        BY <1>7, <1>9, <3>1, <3>2, <4>1 DEF InOrder
      <4> QED BY <2>7, <3>1, <4>1, <4>2
    <3> QED BY <3>4, <3>5
  <2>9. Went(m) = Went(l) \cup {k}
    <3>1. \A i \in 1..N + 1 : i \in 1..N \/ i = N + 1
      BY <1>7
    <3>2. N + 1 \in 1..N + 1 /\ \A i \in 1..N : i \in 1..N + 1
      BY <1>7
    <3>3. m.seen[N + 1][1] = k
      BY <2>4, <2>7
    <3>4. Went(m) = {m.seen[i][1] : i \in 1..N + 1} /\ Went(l) = {l.seen[i][1] : i \in 1..N}
      BY <1>7, <2>7 DEF Went
    <3> QED BY <2>7, <3>1, <3>2, <3>3, <3>4
  <2>10. Passed(m, heap)
    <3> SUFFICES ASSUME NEW j \in Keys, heap[m.v][j] # Nil, j <= m.seen[Len(m.seen)][1]
                 PROVE  j \in Went(m)
      BY DEF Passed
    <3>1. heap[x][j] # Nil /\ j <= k
      BY <2>4, <2>7
    <3>2. j = k \/ j \notin n
      BY <1>5, <2>1, <2>3, <3>1
    <3> QED BY <1>11, <2>9, <3>1, <3>2
  <2>11. Loops(m, heap)
    <3>1. m.v \in Heap /\ m.kind = "iter"
      BY <1>1, <2>7
    <3> QED BY <2>8, <2>10, <3>1 DEF Loops
  <2>12. v \in {heap[l.v][j] : j \in Keys}
    BY <2>2 DEF v
  <2>13. AdvancedTo(r, s, b, l)
    <3>1. m = [l EXCEPT !.seen = Append(@, r.pair)]
      BY <2>5 DEF m
    <3>2. r.stack \in Seq(Held) /\ (\A i \in 1..b : r.stack[i] = s[i]) /\ r.pair # <<>>
          /\ Len(r.stack) = b + Slots(l) /\ r.pair \in Keys \X Held
          /\ r.pair[2] \in ({heap[l.v][j] : j \in Keys} \cup Plain)
          /\ r.stack[b + 1] = r.pair[1] /\ r.stack[b + 2] = r.pair[2]
      BY <1>1, <2>4, <2>5, <2>6, <2>12
    <3>3. l.kind # "seq"
      OBVIOUS
    <3> QED BY <2>11, <3>1, <3>2, <3>3, Zenon DEF AdvancedTo
  <2>14. r.pair # <<>>
    BY <2>4, <2>5
  <2> QED BY <2>13, <2>14 DEF r
<1> QED BY <1>12, <1>13

(* table_seq_iter::next(): the field after the last. *)
LEMMA SeqAdvances ==
    ASSUME LuaAssumption, HeapOK(heap), NEW s, NEW b, NEW l, Looping(s, b, l), l.kind = "seq"
    PROVE  LET r == AdvancedSeq(s, l) IN
           AdvancedTo(r, s, b, l) /\ (r.pair = <<>> => Through(l))
<1> DEFINE r == AdvancedSeq(s, l)
           N == Len(l.seen)
           k == N + 1
           p == Pop(s, 1)
           x == l.v
           q == IF k \in Keys THEN Fetch(p, l.t, k) ELSE Append(p, Nil)
           y == IF k \in Keys THEN heap[x][k] ELSE Nil
<1>1. /\ s \in Seq(Held) /\ b \in Nat /\ Len(s) = b + 1 /\ l \in LocalSet /\ x \in Heap
      /\ l.t \in 1..b /\ s[l.t] = x /\ l.seen \in Seq(Keys \X Held)
      /\ Slots(l) = 1 /\ Len(s) <= MaxStack
  <2>1. /\ s \in Seq(Held) /\ b \in Nat /\ Len(s) = b + Slots(l) /\ l \in LocalSet /\ x \in Heap
        /\ l.t \in 1..b /\ s[l.t] = x /\ Len(s) <= MaxStack
    BY DEF Looping
  <2>2. Slots(l) = 1
    BY <2>1, SlotsAre
  <2>3. l.seen \in Seq(Keys \X Held)
    BY <2>1 DEF LocalSet
  <2> QED BY <2>1, <2>2, <2>3
<1>2. p \in Seq(Held) /\ Len(p) = b /\ \A i \in 1..b : p[i] = s[i]
  <2>1. 1 \in 0..Len(s) /\ Len(s) - 1 = b
    BY <1>1
  <2> QED BY <1>1, <2>1, PopIs
<1> HIDE DEF p
<1>3. N \in Nat /\ k \in Nat /\ (l.seen # <<>> => \A n \in 1..N : l.seen[n][1] = n)
  <2>1. N \in Nat /\ DOMAIN l.seen = 1..N
    BY <1>1, LenProperties
  <2>2. l.seen # <<>> => \A n \in DOMAIN l.seen : l.seen[n][1] = n
    BY DEF Looping, Loops
  <2> QED BY <2>1, <2>2
<1>4. l.seen = <<>> => N = 0
  BY <1>1, EmptySeq
<1>5. p \in Seq(Values) /\ Nil \in Held /\ Nil \in Values /\ Keys \subseteq Fields /\ MaxStack \in Nat
  BY <1>2, Kinded DEF Values
<1>6. At(p, l.t, x)
  <2>1. l.t \in 1..Len(p) /\ l.t <= MaxStack /\ p[l.t] = x
    BY <1>1, <1>2, <1>5
  <2> QED BY <2>1 DEF At
<1> HIDE DEF k, N
<1>7. q = Append(p, y) /\ y \in Held
  <2>1. CASE k \in Keys
    <3>1. Fetch(p, l.t, k) = Append(p, heap[x][k]) /\ heap[x][k] \in Held
      BY <1>1, <1>5, <1>6, <2>1, FetchAt
    <3> QED BY <2>1, <3>1
  <2>2. CASE k \notin Keys
    BY <1>5, <2>2
  <2> QED BY <2>1, <2>2
<1>8. r = IF Last(q) = Nil THEN [stack |-> Pop(q, 1), pair |-> <<>>]
          ELSE [stack |-> q, pair |-> <<k, Last(q)>>]
  BY Zenon DEF AdvancedSeq, p, k, N
<1>9. y # Nil => k \in Keys /\ y = heap[x][k]
  OBVIOUS
<1>10. y = Nil => (k \in Keys => heap[x][k] = Nil)
  OBVIOUS
<1> HIDE DEF q, y, r
<1>11. y \in Values
  BY <1>7 DEF Held
<1>12. /\ q \in Seq(Held) /\ Len(q) = b + 1 /\ q[b + 1] = y /\ Last(q) = y
       /\ \A i \in 1..b : q[i] = s[i]
       /\ Pop(q, 1) = p
  <2>1. Pop(q, 1) = p
    BY <1>5, <1>7, <1>11, PushPop
  <2>2. /\ q \in Seq(Held) /\ Len(q) = Len(p) + 1 /\ q[Len(p) + 1] = y /\ Last(q) = y
        /\ \A i \in 1..Len(p) : q[i] = p[i]
    BY <1>2, <1>7, Pushed
  <2> QED BY <1>2, <2>1, <2>2
<1>13. CASE y = Nil
  <2>1. r.stack = p /\ r.pair = <<>>
    BY <1>8, <1>12, <1>13
  <2>2. AdvancedTo(r, s, b, l)
    BY <1>2, <2>1, Zenon DEF AdvancedTo
  <2>3. Through(l)
    BY <1>10, <1>13 DEF Through, k, N
  <2> QED BY <2>2, <2>3 DEF r
<1>14. CASE y # Nil
  <2> DEFINE e == <<k, y>>
             m == [l EXCEPT !.seen = Append(@, e)]
  <2>1. e \in Keys \X Held /\ e # <<>> /\ e[1] = k /\ e[2] = y
    BY <1>7, <1>9, <1>14
  <2>2. r.stack = q /\ r.pair = e
    BY <1>8, <1>12, <1>14
  <2> HIDE DEF e
  <2>3. /\ m \in LocalSet /\ m.kind = l.kind /\ m.v = l.v
        /\ DOMAIN m.seen = 1..k /\ m.seen[k] = e
        /\ \A i \in 1..N : m.seen[i] = l.seen[i]
    <3> DEFINE P(g, c) == /\ g \in LocalSet /\ g.kind = l.kind /\ g.i = l.i /\ g.v = l.v /\ g.t = l.t
                          /\ c \in Nat \ {0} /\ Len(g.seen) = c /\ g.seen # <<>> /\ g.seen[c] = e
                          /\ DOMAIN g.seen = 1..c /\ DOMAIN l.seen = 1..c - 1
                          /\ \A i \in 1..c - 1 : g.seen[i] = l.seen[i]
                          /\ \A i \in 1..c - 1 : l.seen[i] \in Keys \X Held
                          /\ Slots(g) = Slots(l) \/ l.kind = "pop"
    <3>1. P(m, k)
      BY <1>1, <2>1, SeenMore, Zenon DEF N, k
    <3>2. k - 1 = N
      BY <1>3 DEF k
    <3> QED BY <3>1, <3>2
  <2> HIDE DEF m
  <2>4. Loops(m, heap)
    <3>1. ASSUME NEW n \in 1..k PROVE m.seen[n][1] = n
      <4>1. CASE n = k
        BY <2>1, <2>3, <4>1
      <4>2. CASE n # k
        <5>1. n \in 1..N /\ N # 0
          BY <1>3, <4>2 DEF k
        <5>2. l.seen[n][1] = n
          BY <1>3, <1>4, <5>1
        <5> QED BY <2>3, <5>1, <5>2
      <4> QED BY <4>1, <4>2
    <3>2. m.v \in Heap /\ m.kind = "seq"
      BY <1>1, <2>3
    <3> QED BY <2>3, <3>1, <3>2 DEF Loops
  <2>5. AdvancedTo(r, s, b, l)
    <3>1. m = [l EXCEPT !.seen = Append(@, r.pair)]
      BY <2>2 DEF m
    <3>2. y \in {heap[l.v][j] : j \in Keys}
      BY <1>9, <1>14
    <3>3. r.stack \in Seq(Held) /\ (\A i \in 1..b : r.stack[i] = s[i]) /\ r.pair # <<>>
          /\ Len(r.stack) = b + Slots(l) /\ r.pair \in Keys \X Held
          /\ r.pair[2] \in ({heap[l.v][j] : j \in Keys} \cup Plain)
          /\ r.stack[b + 1] = r.pair[2]
      BY <1>1, <1>12, <2>1, <2>2, <3>2
    <3>4. l.kind # "iter"
      OBVIOUS
    <3> QED BY <2>4, <3>1, <3>3, <3>4, Zenon DEF AdvancedTo
  <2>6. r.pair # <<>>
    BY <2>1, <2>2
  <2> QED BY <2>5, <2>6 DEF r
<1> QED BY <1>13, <1>14

(* A loop advances, or ends, above the stack u and the objects before it. *)
LEMMA MovedKeeps ==
    ASSUME LuaAssumption, LuaIInv, NEW before \in Seq(LocalSet), NEW u \in Seq(Held),
           NEW s, NEW l, NEW r, Placed(u, before), LoopsOK(before, heap),
           \A i \in 1..Len(u) : u[i] \in Reached /\ s[i] = u[i],
           Looping(s, Len(u), l), AdvancedTo(r, s, Len(u), l), Moved(r, before, l),
           UNCHANGED <<heap, data, alive>>
    PROVE  /\ LuaIInv'
           /\ r.pair = <<>> => locals' = before
           /\ r.pair # <<>> => Len(locals') = Len(before) + 1
<1> DEFINE b == Len(u)
           m == [l EXCEPT !.seen = Append(@, r.pair)]
<1>1. /\ b \in Nat /\ l \in LocalSet /\ Slots(l) \in Nat /\ b + Slots(l) <= MaxStack /\ b <= MaxStack
      /\ l.kind \in {"iter", "seq"} /\ l.i = b + 1 /\ l.t \in 1..b /\ s[l.t] = l.v /\ l.v \in Heap
      /\ (l.kind = "iter" => Slots(l) = 2) /\ (l.kind = "seq" => Slots(l) = 1)
  <2>1. /\ b \in Nat /\ l \in LocalSet /\ Len(s) = b + Slots(l) /\ Len(s) <= MaxStack
        /\ l.kind \in {"iter", "seq"} /\ l.i = b + 1 /\ l.t \in 1..b /\ s[l.t] = l.v /\ l.v \in Heap
    BY DEF Looping
  <2>2. Slots(l) \in Nat /\ (l.kind = "iter" => Slots(l) = 2) /\ (l.kind = "seq" => Slots(l) = 1)
    BY <2>1, SlotsAre
  <2>3. MaxStack \in Nat
    BY Kinded
  <2> QED BY <2>1, <2>2, <2>3
<1>2. stack' = r.stack /\ locals' = IF r.pair = <<>> THEN before ELSE Append(before, m)
  BY Zenon DEF Moved
<1>3. /\ r.stack \in Seq(Held) /\ \A i \in 1..b : r.stack[i] = u[i]
      /\ r.pair = <<>> => Len(r.stack) = b
  BY DEF AdvancedTo
<1>4. HeapOK(heap) /\ DataOK(data, alive) /\ UNCHANGED <<heap, data, alive>>
  BY DEF LuaIInv
<1>5. \A i \in 1..b : u[i] \in Reached
  OBVIOUS
<1> HIDE DEF b
<1>6. CASE r.pair = <<>>
  <2>1. r.stack = u
    <3>1. Len(r.stack) = Len(u) /\ \A i \in 1..Len(r.stack) : r.stack[i] = u[i]
      BY <1>3, <1>6 DEF b
    <3> DEFINE v == r.stack
    <3>2. v \in Seq(Held) /\ Len(v) = Len(u) /\ \A i \in 1..Len(v) : v[i] = u[i]
      BY <1>3, <3>1
    <3> HIDE DEF v
    <3>3. v = u
      BY <3>2, SeqEqual
    <3> QED BY <3>3 DEF v
  <2>2. StackOK(u, before)
    BY <1>1 DEF StackOK, b
  <2>3. ReachOK(heap, u, data)
    <3>1. DOMAIN u = 1..b
      BY LenProperties DEF b
    <3>2. \A i \in DOMAIN u : u[i] \in Reached \cup Plain
      BY <1>5, <3>1
    <3> QED BY <3>2, ReachMore
  <2>4. stack' = u /\ locals' = before
    BY <1>2, <1>6, <2>1
  <2> QED BY <1>4, <1>6, <2>2, <2>3, <2>4 DEF LuaIInv
<1>7. CASE r.pair # <<>>
  <2> DEFINE e == r.pair
             v == r.stack
             c == Len(l.seen) + 1
  <2>1. /\ Len(v) = b + Slots(l) /\ e \in Keys \X Held
        /\ e[2] \in ({heap[l.v][k] : k \in Keys} \cup Plain)
        /\ l.kind = "iter" => v[b + 1] = e[1] /\ v[b + 2] = e[2]
        /\ l.kind = "seq" => v[b + 1] = e[2]
        /\ Loops(m, heap)
    BY <1>7, Zenon DEF AdvancedTo, b
  <2> HIDE DEF e
  <2>2. /\ m \in LocalSet /\ m.kind = l.kind /\ m.i = l.i /\ m.v = l.v /\ m.t = l.t
        /\ Len(m.seen) = c /\ m.seen # <<>> /\ m.seen[c] = e /\ Slots(m) = Slots(l)
    <3> DEFINE P(g, n) == /\ g \in LocalSet /\ g.kind = l.kind /\ g.i = l.i /\ g.v = l.v /\ g.t = l.t
                          /\ n \in Nat \ {0} /\ Len(g.seen) = n /\ g.seen # <<>> /\ g.seen[n] = e
                          /\ DOMAIN g.seen = 1..n /\ DOMAIN l.seen = 1..n - 1
                          /\ \A i \in 1..n - 1 : g.seen[i] = l.seen[i]
                          /\ \A i \in 1..n - 1 : l.seen[i] \in Keys \X Held
                          /\ Slots(g) = Slots(l) \/ l.kind = "pop"
    <3> DEFINE w == [l EXCEPT !.seen = Append(@, e)]
    <3>1. P(w, c)
      BY <1>1, <2>1, SeenMore, Zenon
    <3>2. w = m
      BY DEF e
    <3> HIDE DEF m, w
    <3>3. l.kind # "pop"
      BY <1>1
    <3> QED BY <3>1, <3>2, <3>3
  <2> HIDE DEF m, v
  <2>3. v \in Seq(Held) /\ \A i \in 1..b : v[i] = u[i]
    BY <1>3 DEF v
  <2>4. Slot(v, b, m)
    <3>1. m.i = b + 1 /\ m.t \in 1..b /\ m.kind \in {"iter", "seq"}
      BY <1>1, <2>2
    <3>2. v[m.t] = m.v
      <4>1. v[m.t] = u[m.t] /\ s[m.t] = u[m.t]
        BY <2>3, <3>1 DEF b
      <4> QED BY <1>1, <2>2, <4>1
    <3>3. m.kind = "iter" => <<v[m.i], v[m.i + 1]>> = m.seen[Len(m.seen)]
      <4> HAVE m.kind = "iter"
      <4>1. v[b + 1] = e[1] /\ v[b + 2] = e[2] /\ e = <<e[1], e[2]>>
        BY <2>1, <2>2
      <4>2. m.i + 1 = b + 2
        BY <1>1, <3>1
      <4> QED BY <2>2, <3>1, <4>1, <4>2
    <3>4. m.kind = "seq" => v[m.i] = m.seen[Len(m.seen)][2]
      BY <2>1, <2>2, <3>1
    <3> QED BY <2>2, <3>1, <3>2, <3>3, <3>4 DEF Slot
  <2>5. Placed(v, Append(before, m))
    <3>1. Len(u) \in Nat /\ Len(v) = Len(u) + Slots(m) /\ (\A i \in 1..Len(u) : v[i] = u[i])
          /\ Slot(v, Len(u), m)
      BY <1>1, <2>1, <2>2, <2>3, <2>4 DEF b, v
    <3> QED BY <2>2, <3>1, PlacedMore
  <2>6. Append(before, m) \in Seq(LocalSet) /\ Len(Append(before, m)) = Len(before) + 1
    BY <2>2, AppendProperties
  <2>7. LoopsOK(Append(before, m), heap)
    BY <2>1, <2>2, LoopsMore DEF m
  <2>8. StackOK(v, Append(before, m))
    <3>1. Len(v) <= MaxStack
      BY <1>1, <2>1 DEF v
    <3> QED BY <2>3, <2>5, <2>6, <3>1 DEF StackOK
  <2>9. ReachOK(heap, v, data)
    <3>1. l.v \in Reached
      <4>1. s[l.t] = u[l.t] /\ u[l.t] \in Reached
        BY <1>1 DEF b
      <4> QED BY <1>1, <4>1
    <3>2. Closed(heap, Reached)
      BY <1>4, ReachIs DEF Reached, Roots
    <3>3. e[2] \in Reached \cup Plain
      BY <1>1, <2>1, <3>1, <3>2, Kinded DEF Closed
    <3>4. e[1] \in Plain
      BY <2>1 DEF Plain
    <3>5. DOMAIN v = 1..b + Slots(l)
      BY <2>1, <2>3, LenProperties DEF v
    <3>6. ASSUME NEW i \in 1..b + Slots(l) PROVE v[i] \in Reached \cup Plain
      <4>1. CASE i \in 1..b
        BY <1>5, <2>3, <4>1
      <4>2. CASE i \notin 1..b
        <5>1. i = b + 1 \/ (l.kind = "iter" /\ i = b + 2)
          BY <1>1, <4>2
        <5> QED BY <1>1, <2>1, <3>3, <3>4, <5>1 DEF v
      <4> QED BY <4>1, <4>2
    <3> QED BY <3>5, <3>6, ReachMore
  <2>10. stack' = v /\ locals' = Append(before, m)
    BY <1>2, <1>7 DEF v
  <2> QED BY <1>4, <1>7, <2>6, <2>7, <2>8, <2>9, <2>10 DEF LuaIInv
<1> QED BY <1>6, <1>7

LEMMA IterateStep ==
    ASSUME LuaAssumption, LuaIInv, NEW p, iterate(p)
    PROVE  LuaIInv' /\ InScope
<1> DEFINE b == Len(stack)
           li == Local("iter", b + 1, 0, locals[p].v, locals[p].i)
           lq == Local("seq", b + 1, 0, locals[p].v, locals[p].i)
           si == stack \o <<Nil, Nil>>
           sq == Append(stack, Nil)
<1>1. /\ p \in Refs /\ b + 2 <= MaxStack /\ UNCHANGED <<heap, data, alive>>
      /\ \/ Moved(Advanced(si, li), locals, li)
         \/ Moved(AdvancedSeq(sq, lq), locals, lq)
  BY Zenon DEF iterate
<1>2. /\ stack \in Seq(Held) /\ b \in Nat /\ DOMAIN stack = 1..b
      /\ locals \in Seq(LocalSet) /\ Len(locals) \in Nat
      /\ Placed(stack, locals) /\ LoopsOK(locals, heap) /\ HeapOK(heap)
  BY StackIs DEF LuaIInv, StackOK
<1>3. \A i \in 1..b : stack[i] \in Reached
  BY <1>2, ReachIs DEF Reached, Roots
<1>4. /\ locals[p].v \in Held /\ locals[p].v \in Heap
      /\ locals[p].i \in 1..b /\ stack[locals[p].i] = locals[p].v
  <2>1. p \in DOMAIN locals /\ locals[p].kind = "ref" /\ locals[p].v \in Heap
    BY <1>1 DEF Refs
  <2> QED BY <2>1, RefsHold
<1> DEFINE x == locals[p].v
           t == locals[p].i
<1>5. x \in Held /\ x \in Heap /\ t \in 1..b /\ t \in Nat /\ stack[t] = x
  BY <1>4
<1> HIDE DEF x, t
<1>6. /\ li \in LocalSet /\ li.kind = "iter" /\ li.i = b + 1 /\ li.v = x /\ li.t = t
      /\ li.seen = <<>>
      /\ lq \in LocalSet /\ lq.kind = "seq" /\ lq.i = b + 1 /\ lq.v = x /\ lq.t = t
      /\ lq.seen = <<>>
  <2>1. "iter" \in Kinds /\ "seq" \in Kinds /\ b + 1 \in Nat /\ 0 \in Nat
    BY <1>2 DEF Kinds
  <2>2. li = Local("iter", b + 1, 0, x, t) /\ lq = Local("seq", b + 1, 0, x, t)
    BY DEF x, t
  <2> HIDE DEF li, lq
  <2> QED BY <1>5, <2>1, <2>2, LocalIs
<1>7. /\ si \in Seq(Held) /\ Len(si) = b + 2 /\ si[b + 1] = Nil
      /\ \A i \in 1..b : si[i] = stack[i]
  <2> DEFINE e == <<Nil, Nil>>
  <2>1. e \in Seq(Held) /\ Len(e) = 2 /\ e[1] = Nil
    BY Kinded
  <2> HIDE DEF e
  <2> DEFINE v == stack \o e
  <2>2. v \in Seq(Held) /\ Len(v) = Len(stack) + Len(e)
        /\ \A i \in 1..Len(stack) + Len(e) : v[i] = IF i <= Len(stack) THEN stack[i]
                                                    ELSE e[i - Len(stack)]
    BY <1>2, <2>1, ConcatProperties
  <2> HIDE DEF v
  <2>3. b + 1 \in 1..b + 2 /\ ~(b + 1 <= b) /\ (b + 1) - b = 1
        /\ \A i \in 1..b : i \in 1..b + 2 /\ i <= b
    BY <1>2
  <2>4. v[b + 1] = e[(b + 1) - b] /\ \A i \in 1..b : v[i] = stack[i]
    BY <2>1, <2>2, <2>3
  <2>5. v = si
    BY DEF v, e
  <2> HIDE DEF b, si
  <2> QED BY <2>1, <2>2, <2>3, <2>4, <2>5 DEF b
<1>8. sq \in Seq(Held) /\ Len(sq) = b + 1 /\ \A i \in 1..b : sq[i] = stack[i]
  <2>1. Nil \in Held
    BY Kinded
  <2> QED BY <1>2, <2>1, Pushed
<1> HIDE DEF li, lq, si, sq
<1>9. MaxStack \in Nat
  BY Kinded
<1>10. CASE Moved(Advanced(si, li), locals, li)
  <2> DEFINE r == Advanced(si, li)
  <2>1. Looping(si, b, li)
    <3>1. Slots(li) = 2
      BY <1>6, SlotsAre
    <3>2. li.t \in 1..b /\ si[li.t] = li.v /\ li.v \in Heap
      BY <1>5, <1>6, <1>7
    <3> QED BY <1>1, <1>2, <1>6, <1>7, <3>1, <3>2 DEF Looping
  <2>2. AdvancedTo(r, si, b, li)
    BY <1>2, <1>6, <2>1, IterAdvances
  <2> HIDE DEF r
  <2>3. LuaIInv' /\ (r.pair = <<>> => locals' = locals)
        /\ (r.pair # <<>> => Len(locals') = Len(locals) + 1)
    <3>1. /\ \A i \in 1..Len(stack) : stack[i] \in Reached /\ si[i] = stack[i]
          /\ Looping(si, Len(stack), li) /\ AdvancedTo(r, si, Len(stack), li)
      BY <1>3, <1>7, <2>1, <2>2 DEF b
    <3>2. Moved(r, locals, li)
      BY <1>10 DEF r
    <3> QED BY <1>1, <1>2, <3>1, <3>2, MovedKeeps
  <2> QED BY <2>3 DEF InScope
<1>11. CASE Moved(AdvancedSeq(sq, lq), locals, lq)
  <2> DEFINE r == AdvancedSeq(sq, lq)
  <2>1. Looping(sq, b, lq)
    <3>1. Slots(lq) = 1
      BY <1>6, SlotsAre
    <3>2. lq.t \in 1..b /\ sq[lq.t] = lq.v /\ lq.v \in Heap
      BY <1>5, <1>6, <1>8
    <3>3. b + 1 <= MaxStack
      BY <1>1, <1>2, <1>9
    <3> QED BY <1>2, <1>6, <1>8, <3>1, <3>2, <3>3 DEF Looping
  <2>2. AdvancedTo(r, sq, b, lq)
    BY <1>2, <1>6, <2>1, SeqAdvances
  <2> HIDE DEF r
  <2>3. LuaIInv' /\ (r.pair = <<>> => locals' = locals)
        /\ (r.pair # <<>> => Len(locals') = Len(locals) + 1)
    <3>1. /\ \A i \in 1..Len(stack) : stack[i] \in Reached /\ sq[i] = stack[i]
          /\ Looping(sq, Len(stack), lq) /\ AdvancedTo(r, sq, Len(stack), lq)
      BY <1>3, <1>8, <2>1, <2>2 DEF b
    <3>2. Moved(r, locals, lq)
      BY <1>11 DEF r
    <3> QED BY <1>1, <1>2, <3>1, <3>2, MovedKeeps
  <2> QED BY <2>3 DEF InScope
<1> QED BY <1>1, <1>10, <1>11

LEMMA NextStep ==
    ASSUME LuaAssumption, LuaIInv, next
    PROVE  LuaIInv' /\ (Len(locals') = Len(locals) - 1 => Through(Last(locals)))
<1> DEFINE f == Front(locals)
           l == Last(locals)
           b == Len(stack) - Slots(l)
           u == Pop(stack, Slots(l))
<1>1. /\ locals # <<>> /\ UNCHANGED <<heap, data, alive>>
      /\ \/ l.kind = "iter" /\ Moved(Advanced(stack, l), f, l)
         \/ l.kind = "seq" /\ Moved(AdvancedSeq(stack, l), f, l)
  BY Zenon DEF next
<1>2. /\ f \in Seq(LocalSet) /\ l \in LocalSet /\ locals = Append(f, l)
      /\ Len(f) = Len(locals) - 1 /\ Len(locals) \in Nat
      /\ Slots(l) \in 0..Len(stack) /\ Slot(stack, b, l)
      /\ LoopsOK(f, heap) /\ Loops(l, heap)
      /\ stack \in Seq(Held) /\ Len(stack) \in Nat /\ Len(stack) <= MaxStack
      /\ DOMAIN stack = 1..Len(stack)
  BY <1>1, LastIs
<1>3. HeapOK(heap) /\ Placed(stack, locals)
  BY DEF LuaIInv, StackOK
<1> HIDE DEF f, l
<1>4. u \in Seq(Held) /\ Len(u) = b /\ \A i \in 1..b : u[i] = stack[i]
  BY <1>2, PopIs
<1>5. b \in Nat /\ Len(stack) = b + Slots(l)
  BY <1>2
<1> HIDE DEF b, u
<1>6. \A i \in 1..Len(u) : u[i] \in Reached /\ stack[i] = u[i]
  <2>1. \A i \in DOMAIN stack : stack[i] \in Reached
    BY <1>3, ReachIs DEF Reached, Roots
  <2>2. \A i \in 1..b : i \in 1..Len(stack)
    BY <1>2, <1>5
  <2> QED BY <1>2, <1>4, <2>1, <2>2
<1>7. Placed(u, f)
  <2>1. Placed(stack, Append(f, l))
    BY <1>2, <1>3
  <2>2. Len(u) \in Nat /\ Len(stack) = Len(u) + Slots(l) /\ \A i \in 1..Len(u) : u[i] = stack[i]
    BY <1>4, <1>5
  <2> QED BY <1>2, <2>1, <2>2, PlacedLess
<1>8. Looping(stack, Len(u), l)
  <2>1. l.kind \in {"iter", "seq"}
    BY <1>1
  <2>2. l.i = b + 1 /\ l.t \in 1..b /\ stack[l.t] = l.v /\ l.seen # <<>>
    BY <1>2, <2>1 DEF Slot
  <2>3. l.v \in Heap
    BY <1>2, <2>1 DEF Loops
  <2>4. l.kind = "iter" => stack[b + 1] = l.seen[Len(l.seen)][1]
    <3> HAVE l.kind = "iter"
    <3>1. <<stack[l.i], stack[l.i + 1]>> = l.seen[Len(l.seen)]
      BY <1>2 DEF Slot
    <3> QED BY <2>2, <3>1
  <2> QED BY <1>2, <1>4, <1>5, <2>1, <2>2, <2>3, <2>4 DEF Looping
<1>9. CASE l.kind = "iter" /\ Moved(Advanced(stack, l), f, l)
  <2> DEFINE r == Advanced(stack, l)
  <2>1. AdvancedTo(r, stack, Len(u), l) /\ (l.seen # <<>> /\ r.pair = <<>> => Through(l))
    BY <1>3, <1>8, <1>9, IterAdvances
  <2>2. Moved(r, f, l)
    BY <1>9
  <2> HIDE DEF r
  <2>3. LuaIInv' /\ (r.pair # <<>> => Len(locals') = Len(f) + 1)
    BY <1>1, <1>2, <1>4, <1>6, <1>7, <1>8, <2>1, <2>2, MovedKeeps
  <2>4. l.seen # <<>>
    BY <1>2, <1>9 DEF Slot
  <2>5. Len(locals') = Len(locals) - 1 => r.pair = <<>>
    BY <1>2, <2>3
  <2> QED BY <2>1, <2>3, <2>4, <2>5 DEF l
<1>10. CASE l.kind = "seq" /\ Moved(AdvancedSeq(stack, l), f, l)
  <2> DEFINE r == AdvancedSeq(stack, l)
  <2>1. AdvancedTo(r, stack, Len(u), l) /\ (r.pair = <<>> => Through(l))
    BY <1>3, <1>8, <1>10, SeqAdvances
  <2>2. Moved(r, f, l)
    BY <1>10
  <2> HIDE DEF r
  <2>3. LuaIInv' /\ (r.pair # <<>> => Len(locals') = Len(f) + 1)
    BY <1>1, <1>2, <1>4, <1>6, <1>7, <1>8, <2>1, <2>2, MovedKeeps
  <2>4. Len(locals') = Len(locals) - 1 => r.pair = <<>>
    BY <1>2, <2>3
  <2> QED BY <2>1, <2>3, <2>4 DEF l
<1> QED BY <1>1, <1>9, <1>10
-----------------------------------------------------------------------------
(* A loop that ends has been through its table.                            *)

LEMMA Distinct ==
    ASSUME NEW f, NEW n \in Nat, \A i, j \in 1..n : i # j => f[i] # f[j]
    PROVE  Cardinality({f[i] : i \in 1..n}) = n
<1> DEFINE S == {f[i] : i \in 1..n}
           g == [i \in 1..n |-> f[i]]
<1>1. g \in [1..n -> S]
  OBVIOUS
<1>2. IsInjective(g)
  BY DEF IsInjective
<1>3. \A t \in S : \E i \in 1..n : g[i] = t
  OBVIOUS
<1> HIDE DEF g, S
<1>4. g \in Bijection(1..n, S)
  BY <1>1, <1>2, <1>3 DEF Bijection, Injection, Surjection
<1>5. ExistsBijection(1..n, S)
  BY <1>4 DEF ExistsBijection
<1>6. Cardinality(S) = n
  BY <1>5, FS_CountingElements
<1> QED BY <1>6 DEF S

LEMMA EndedIs ==
    ASSUME LuaAssumption, LuaIInv, locals # <<>>, heap' = heap,
           Last(locals).kind \in {"iter", "seq"}, Through(Last(locals))
    PROVE  Ended(Len(locals))
<1> DEFINE l == Last(locals)
           N == Len(l.seen)
           f == [i \in 1..N |-> l.seen[i][1]]
<1>1. l \in LocalSet /\ Loops(l, heap) /\ l = locals[Len(locals)]
  BY LastIs
<1>2. l.seen \in Seq(Keys \X Held)
  BY <1>1 DEF LocalSet
<1>3. N \in Nat /\ DOMAIN l.seen = 1..N /\ \A i \in 1..N : l.seen[i][1] \in Nat
  <2>1. N \in Nat /\ DOMAIN l.seen = 1..N /\ \A i \in 1..N : l.seen[i] \in Keys \X Held
    BY <1>2, LenProperties, ElementOfSeq
  <2>2. Keys \subseteq Nat
    BY Kinded
  <2> QED BY <2>1, <2>2
<1> HIDE DEF l, N
<1>4. \A i \in 1..N : f[i] = l.seen[i][1]
  OBVIOUS
<1>5. ASSUME NEW i \in 1..N, NEW j \in 1..N, i # j PROVE f[i] # f[j]
  <2>1. CASE l.kind = "iter"
    <3>1. \A m, n \in 1..N : m < n => l.seen[m][1] < l.seen[n][1]
      BY <1>1, <1>3, <2>1 DEF Loops, InOrder
    <3>2. i < j \/ j < i
      BY <1>3, <1>5
    <3>3. l.seen[i][1] < l.seen[j][1] \/ l.seen[j][1] < l.seen[i][1]
      BY <3>1, <3>2
    <3>4. l.seen[i][1] # l.seen[j][1]
      BY <1>3, <3>3
    <3> QED BY <1>4, <3>4
  <2>2. CASE l.kind = "seq"
    <3>1. l.seen[i][1] = i /\ l.seen[j][1] = j
      BY <1>1, <1>3, <2>2 DEF Loops
    <3> QED BY <1>4, <1>5, <3>1
  <2> QED BY <2>1, <2>2 DEF l
<1> DEFINE S == {f[i] : i \in 1..N}
<1>6. Cardinality(S) = N
  <2> HIDE DEF f
  <2> QED BY <1>3, <1>5, Distinct
<1>7. S = Went(l)
  BY <1>3 DEF Went
<1> HIDE DEF f, S
<1>8. Cardinality({l.seen[n][1] : n \in DOMAIN l.seen}) = N
  BY <1>6, <1>7 DEF Went
<1>9. l.kind = "iter" => {k \in Keys : heap'[l.v][k] # Nil} \subseteq {l.seen[n][1] : n \in DOMAIN l.seen}
  BY DEF Through, Went, l
<1>10. l.kind = "seq" => /\ \A n \in DOMAIN l.seen : l.seen[n][1] = n
                         /\ N + 1 \in Keys => heap'[l.v][N + 1] = Nil
  BY <1>1 DEF Through, Loops, l, N
<1> DEFINE P(x) ==
    /\ Cardinality({x.seen[n][1] : n \in DOMAIN x.seen}) = Len(x.seen)
    /\ x.kind = "iter" => {k \in Keys : heap'[x.v][k] # Nil} \subseteq {x.seen[n][1] : n \in DOMAIN x.seen}
    /\ x.kind = "seq" => /\ \A n \in DOMAIN x.seen : x.seen[n][1] = n
                         /\ Len(x.seen) + 1 \in Keys => heap'[x.v][Len(x.seen) + 1] = Nil
<1>11. P(l)
  BY <1>8, <1>9, <1>10, Zenon DEF N
<1>12. P(locals[Len(locals)])
  <2> HIDE DEF P
  <2> QED BY <1>1, <1>11
<1> QED BY <1>12, Zenon DEF Ended

(* A loop is left by a step that is not the return of the function. *)
Leaves ==
    /\ Len(locals') = Len(locals) - 1
    /\ Last(locals).kind \in {"iter", "seq"}
    /\ locals' # <<>> \/ stack' # <<>>

LEMMA LuaInduction ==
    ASSUME LuaAssumption, ~Missing, ~TasksFail, Results = 0, LuaIInv, Next
    PROVE  LuaIInv' /\ (Leaves => Ended(Len(locals)))
<1> DEFINE G == LuaIInv' /\ (Leaves => Ended(Len(locals)))
<1> SUFFICES G
  OBVIOUS
<1>1. Len(locals) \in Nat
  BY StackIs DEF LuaIInv
<1>2. InScope => ~Leaves
  BY <1>1 DEF InScope, Leaves
<1>3. ASSUME NEW v \in Values, push(v) PROVE G
  BY <1>2, <1>3, PushStep
<1>4. CASE push_deferred(2)
  BY <1>2, <1>4, PushDeferredStep
<1>5. CASE create_table
  BY <1>2, <1>5, CreateTableStep
<1>6. CASE stack_mark
  BY <1>2, <1>6, StackMarkStep
<1>7. CASE destroy
  BY <1>7, DestroyStep DEF Leaves
<1>8. CASE new_user_type
  BY <1>2, <1>8, NewUserTypeStep
<1>9. ASSUME NEW t \in Known, NEW ks \in Paths, get_ref(t, ks) PROVE G
  BY <1>2, <1>9, GetRefStep
<1>10. ASSUME NEW t \in Known, NEW ks \in Paths, get_value(t, ks) PROVE G
  BY <1>2, <1>10, GetValueStep
<1>11. ASSUME NEW t \in Known, NEW ks \in Paths, NEW v \in Values, set_field(t, ks, v) PROVE G
  BY <1>2, <1>11, SetFieldStep
<1>12. ASSUME NEW p \in 1..MaxLocals, iterate(p) PROVE G
  BY <1>2, <1>12, IterateStep
<1>13. ASSUME NEW p \in 1..MaxLocals, get_user(p) PROVE G
  BY <1>2, <1>13, GetUserStep
<1>14. CASE next
  <2>1. LuaIInv' /\ (Len(locals') = Len(locals) - 1 => Through(Last(locals)))
    BY <1>14, NextStep
  <2>2. locals # <<>> /\ heap' = heap
    BY <1>14, Zenon DEF next
  <2>3. Leaves => Ended(Len(locals))
    BY <2>1, <2>2, EndedIs DEF Leaves
  <2> QED BY <2>1, <2>3
<1>15. ASSUME NEW o \in Objects, push_user(o) PROVE G
  BY <1>2, <1>15, PushUserStep
<1>16. CASE collect
  BY <1>2, <1>16, CollectStep
<1>17. CASE dostring
  BY <1>2, <1>17, DoStringStep
<1>18. CASE callback
  BY <1>2, <1>18, CallbackStep
<1>19. CASE entry_call
  BY <1>2, <1>19, EntryCallStep
<1>20. ASSUME NEW n \in 1..2, lua_on_collision(n) PROVE G
  BY <1>2, <1>20, OnCollisionStep
<1>21. CASE Return
  <2>1. stack' = <<>> /\ locals' = <<>> /\ UNCHANGED <<heap, data, alive>>
    BY <1>21, Zenon DEF Return
  <2>2. ~Leaves
    BY <2>1 DEF Leaves
  <2> QED BY <2>1, <2>2, ReturnStep
<1> HIDE DEF G
<1>22. (\E v \in Values : push(v)) => G
  BY <1>3
<1>23. (\E t \in Known, ks \in Paths : get_ref(t, ks) \/ get_value(t, ks)) => G
  BY <1>9, <1>10
<1>24. (\E t \in Known, ks \in Paths, v \in Values : set_field(t, ks, v)) => G
  BY <1>11
<1>25. (\E p \in 1..MaxLocals : iterate(p) \/ get_user(p)) => G
  BY <1>12, <1>13
<1>26. (\E o \in Objects : push_user(o)) => G
  BY <1>15
<1>27. (\E n \in 1..2 : lua_on_collision(n)) => G
  BY <1>20
<1>28. G
  BY <1>4, <1>5, <1>6, <1>7, <1>8, <1>14, <1>16, <1>17, <1>18, <1>19, <1>21, <1>22, <1>23,
     <1>24, <1>25, <1>26, <1>27, Zenon DEF Next
<1> QED BY <1>28
-----------------------------------------------------------------------------
(* The initial states, and what the invariant implies.                     *)

LEMMA Starts ==
    ASSUME LuaAssumption, Init PROVE LuaIInv
<1>1. /\ stack = <<>> /\ locals = <<>> /\ data = [d \in Data |-> None]
      /\ alive = [o \in Objects |-> o \in External]
      /\ heap = [t \in Heap |-> CASE t = Globals -> [Empty EXCEPT ![Meta] = Meta]
                                  [] t = Meta -> [Empty EXCEPT ![1] = Meta]
                                  [] OTHER -> Empty]
  BY Zenon DEF Init
<1>2. /\ Globals \in Heap /\ Meta \in Heap /\ Nil \in Held /\ Meta \in Held
      /\ Meta \in Fields /\ 1 \in Fields /\ Globals # Meta /\ Nil \notin Heap
      /\ Nil \notin Data /\ Meta \notin Data /\ Globals \notin Data
  <2>1. Globals # Meta /\ Nil \notin Data
    BY DEF LuaAssumption
  <2> QED BY <2>1, Kinded
<1>3. Empty \in [Fields -> Held] /\ \A k \in Fields : Empty[k] = Nil
  BY <1>2 DEF Empty
<1>4. /\ heap[Globals] = [Empty EXCEPT ![Meta] = Meta] /\ heap[Meta] = [Empty EXCEPT ![1] = Meta]
      /\ \A t \in Heap \ {Globals, Meta} : heap[t] = Empty
      /\ DOMAIN heap = Heap
  BY <1>1, <1>2
<1>5. HeapOK(heap)
  <2>1. heap[Globals] \in [Fields -> Held] /\ heap[Meta] \in [Fields -> Held]
        /\ heap[Globals][Meta] = Meta /\ heap[Meta][1] = Meta
    BY <1>2, <1>3, <1>4
  <2>2. \A t \in Heap : heap[t] \in [Fields -> Held]
    BY <1>3, <1>4, <2>1
  <2>3. heap = [t \in Heap |-> heap[t]]
    BY <1>1
  <2>4. heap \in [Heap -> [Fields -> Held]]
    BY <2>2, <2>3
  <2> QED BY <2>1, <2>4 DEF HeapOK
<1>6. StackOK(stack, locals) /\ LoopsOK(locals, heap)
  BY <1>1, NothingThere
<1>7. DataOK(data, alive)
  <2>1. External \cap Copies = {}
    BY DEF LuaAssumption
  <2>2. alive \in [Objects -> BOOLEAN]
    BY <1>1
  <2>3. \A o \in Objects : alive[o] = (o \in External)
    BY <1>1
  <2>4. (\A o \in External : alive[o]) /\ \A o \in Copies : ~alive[o]
    BY <2>1, <2>3 DEF Objects
  <2>5. DOMAIN data = Data /\ \A d \in Data : data[d] = None
    BY <1>1
  <2> QED BY <2>2, <2>4, <2>5 DEF DataOK
<1>8. ReachOK(heap, stack, data)
  <2> DEFINE S == {Globals, Meta, Nil}
  <2>1. Closed(heap, S)
    <3> SUFFICES ASSUME NEW t \in S \cap Heap, NEW k \in Fields PROVE heap[t][k] \in S
      BY DEF Closed
    <3>1. t = Globals \/ t = Meta
      BY <1>2
    <3>2. heap[Globals][k] \in {Meta, Nil}
      BY <1>3, <1>4
    <3>3. heap[Meta][k] \in {Meta, Nil}
      BY <1>3, <1>4
    <3> QED BY <3>1, <3>2, <3>3
  <2>2. \A d \in Data \cap S : data[d] # None
    BY <1>2
  <2>3. \A i \in DOMAIN stack : stack[i] \in S
    BY <1>1
  <2>4. Globals \in S
    OBVIOUS
  <2> HIDE DEF S
  <2> QED BY <2>1, <2>2, <2>3, <2>4, ReachKept
<1> QED BY <1>5, <1>6, <1>7, <1>8 DEF LuaIInv

(* The two values of an iterator, as it keeps them. *)
LEMMA PairIs ==
    ASSUME NEW S, NEW s \in Seq(S), NEW i \in 1..Len(s), i + 1 <= Len(s)
    PROVE  SubSeq(s, i, i + 1) = <<s[i], s[i + 1]>>
<1> DEFINE u == SubSeq(s, i, i + 1)
           e == <<s[i], s[i + 1]>>
           n == Len(s)
<1>1. n \in Nat /\ i \in Int /\ i + 1 \in Int /\ i + 1 \in 1..n
      /\ \A j \in i..i + 1 : j \in 1..n
  BY LenProperties
<1>2. \A j \in 1..n : s[j] \in S
  BY ElementOfSeq
<1>3. \A j \in i..i + 1 : s[j] \in S
  BY <1>1, <1>2
<1>4. s[i] \in S /\ s[i + 1] \in S
  BY <1>1, <1>2
<1>5. e \in Seq(S) /\ Len(e) = 2 /\ e[1] = s[i] /\ e[2] = s[i + 1]
  BY <1>4
<1>6. /\ u \in Seq(S)
      /\ Len(u) = IF i <= i + 1 THEN (i + 1) - i + 1 ELSE 0
      /\ \A j \in 1..(i + 1) - i + 1 : u[j] = s[i + j - 1]
  BY <1>1, <1>3, SubSeqProperties
<1> HIDE DEF u, e, n
<1>7. Len(u) = 2 /\ 1 \in 1..(i + 1) - i + 1 /\ 2 \in 1..(i + 1) - i + 1
      /\ i + 1 - 1 = i /\ i + 2 - 1 = i + 1
  BY <1>1, <1>6
<1>8. u[1] = s[i] /\ u[2] = s[i + 1]
  BY <1>6, <1>7
<1>9. \A j \in 1..Len(u) : u[j] = e[j]
  <2>1. \A j \in 1..2 : j = 1 \/ j = 2
    OBVIOUS
  <2> QED BY <1>5, <1>7, <1>8, <2>1
<1>10. u = e
  BY <1>5, <1>6, <1>7, <1>9, SeqEqual
<1> QED BY <1>10 DEF u, e

LEMMA ExactIs ==
    ASSUME LuaAssumption, LuaIInv PROVE Exact
<1> DEFINE N == Len(locals)
<1>1. StackOK(stack, locals)
  BY DEF LuaIInv
<1>2. /\ stack \in Seq(Held) /\ Len(stack) \in Nat /\ locals \in Seq(LocalSet) /\ N \in Nat
      /\ DOMAIN locals = 1..N /\ \A p \in DOMAIN locals : locals[p] \in LocalSet
      /\ Len(stack) = Tops(locals)[N]
  BY <1>1, StackIs
<1>3. Len(stack) = Before(N + 1)
  <2>1. (N + 1) - 1 = N
    BY <1>2
  <2> QED BY <1>2, <2>1 DEF Before
<1>4. ASSUME NEW p \in DOMAIN locals
      PROVE  LET l == locals[p] IN
             /\ l.kind = "ref" => l.i = Before(p) + 1 /\ stack[l.i] = l.v
             /\ l.kind = "mark" => l.i = Before(p)
             /\ l.kind = "iter" => SubSeq(stack, l.i, l.i + 1) = Last(l.seen)
             /\ l.kind = "seq" => stack[l.i] = Last(l.seen)[2]
             /\ l.kind \in {"iter", "seq"} => l.i = Before(p) + 1 /\ stack[l.t] = l.v
  <2> DEFINE l == locals[p]
             b == Before(p)
  <2>1. b = Tops(locals)[p - 1]
    BY DEF Before
  <2>2. Slot(stack, b, l)
    BY <1>1, <2>1 DEF StackOK, Placed
  <2>3. l \in LocalSet /\ p \in 1..N
    BY <1>2
  <2>4. b \in Nat /\ b + Slots(l) <= Len(stack)
    <3>1. p - 1 \in 0..N /\ p \in 0..N
      BY <1>2, <2>3
    <3>2. b \in Nat /\ Tops(locals)[p] = b + Slots(l)
      BY <1>2, <2>1, <2>3, <3>1, TopsOf
    <3>3. Tops(locals)[p] <= Tops(locals)[N]
      BY <1>2, <3>1, TopsOrdered
    <3> QED BY <1>2, <3>2, <3>3
  <2> HIDE DEF l, b
  <2>5. l.kind = "iter" => SubSeq(stack, l.i, l.i + 1) = Last(l.seen)
    <3> HAVE l.kind = "iter"
    <3>1. <<stack[l.i], stack[l.i + 1]>> = l.seen[Len(l.seen)] /\ l.i = b + 1
      BY <2>2 DEF Slot
    <3>2. Slots(l) = 2
      BY <2>3, SlotsAre
    <3>3. l.i \in 1..Len(stack) /\ l.i + 1 <= Len(stack)
      BY <1>2, <2>4, <3>1, <3>2
    <3>4. SubSeq(stack, l.i, l.i + 1) = <<stack[l.i], stack[l.i + 1]>>
      BY <1>2, <3>3, PairIs
    <3> QED BY <3>1, <3>4 DEF Last
  <2>6. l.kind = "seq" => stack[l.i] = Last(l.seen)[2]
    BY <2>2 DEF Slot, Last
  <2> QED BY <2>2, <2>5, <2>6 DEF Slot, l, b
<1> QED BY <1>3, <1>4, Zenon DEF Exact

LEMMA LivesIs ==
    ASSUME LuaAssumption, LuaIInv PROVE Lives
<1>1. DataOK(data, alive) /\ ReachOK(heap, stack, data)
  BY DEF LuaIInv
<1>2. \A d \in Data : data[d] # None => alive[data[d].object]
  BY <1>1, Zenon DEF DataOK
<1>3. \A d \in Data \cap Reached : data[d] # None
  BY <1>1 DEF ReachOK, Reached
<1>4. ASSUME NEW o \in Copies
      PROVE  alive[o] <=> Cardinality({d \in Data : data[d] # None /\ data[d].object = o}) = 1
  <2> DEFINE S == {d \in Data : data[d] # None /\ data[d].object = o}
  <2>1. ASSUME alive[o] PROVE Cardinality(S) = 1
    <3>1. PICK d \in Data : data[d] # None /\ data[d].object = o
      BY <1>1, <2>1, Zenon DEF DataOK
    <3>2. data[d].own
      BY <1>1, <3>1, Zenon DEF DataOK
    <3>3. \A e \in S : e = d
      BY <1>1, <3>1, <3>2, Zenon DEF DataOK
    <3>4. S = {d}
      BY <3>1, <3>3
    <3> QED BY <3>4, FS_Singleton
  <2>2. ASSUME Cardinality(S) = 1 PROVE alive[o]
    <3>1. S # {}
      <4> HIDE DEF S
      <4>1. Cardinality({}) = 0
        BY FS_EmptySet
      <4> QED BY <2>2, <4>1
    <3>2. PICK d \in S : TRUE
      BY <3>1
    <3>3. d \in Data /\ data[d] # None /\ data[d].object = o
      BY <3>2
    <3> QED BY <1>2, <3>3
  <2> HIDE DEF S
  <2>3. alive[o] \in BOOLEAN
    BY <1>1 DEF DataOK, Objects
  <2>4. alive[o] <=> Cardinality(S) = 1
    BY <2>1, <2>2, <2>3
  <2> QED BY <2>4 DEF S
<1>5. \A o \in External : alive[o]
  BY <1>1, Zenon DEF DataOK
<1> QED BY <1>2, <1>3, <1>4, <1>5, Zenon DEF Lives

LEMMA LuaInvIs ==
    ASSUME LuaAssumption, LuaIInv PROVE LuaInv
<1>1. TypeOK
  <2>1. StackOK(stack, locals) /\ HeapOK(heap) /\ DataOK(data, alive)
    BY DEF LuaIInv
  <2>2. stack \in Seq(Values) /\ \A p \in DOMAIN locals : locals[p].kind \in Kinds
    BY <2>1, StackIs DEF LocalSet
  <2>3. Held \subseteq Values
    BY Kinded
  <2>4. heap \in [Heap -> [Fields -> Values]]
    BY <2>1, <2>3 DEF HeapOK
  <2>5. alive \in [Objects -> BOOLEAN] /\ \A d \in Data : data[d] # None => data[d].object \in Objects
    BY <2>1 DEF DataOK
  <2> QED BY <2>2, <2>4, <2>5, Zenon DEF TypeOK, Kinds
<1> QED BY <1>1, ExactIs, LivesIs DEF LuaInv

LEMMA BindingInduction ==
    ASSUME LuaAssumption, MemoryAssumption, ~Missing, ~TasksFail, Results = 0,
           LuaIInv, MemoryIInv, [BindingNext]_AllVars
    PROVE  LuaIInv' /\ MemoryIInv' /\ [Leaves => Ended(Len(locals))]_vars
<1>1. CASE Next /\ UNCHANGED memory
  <2>1. LuaIInv' /\ (Leaves => Ended(Len(locals)))
    BY <1>1, LuaInduction
  <2>2. MemoryIInv'
    BY <1>1 DEF memory, MemoryIInv
  <2> QED BY <2>1, <2>2
<1>2. CASE MemoryNext /\ UNCHANGED vars
  <2>1. MemoryIInv'
    BY <1>2, StillCounted
  <2>2. LuaIInv'
    BY <1>2 DEF vars, LuaIInv
  <2> QED BY <1>2, <2>1, <2>2
<1>3. CASE UNCHANGED AllVars
  <2>1. UNCHANGED vars /\ UNCHANGED memory
    BY <1>3 DEF AllVars
  <2>2. MemoryIInv'
    BY <2>1 DEF memory, MemoryIInv
  <2>3. LuaIInv'
    BY <2>1 DEF vars, LuaIInv
  <2> QED BY <2>1, <2>2, <2>3
<1> QED BY <1>1, <1>2, <1>3 DEF BindingNext
-----------------------------------------------------------------------------
(* Every slot of the stack belongs to one object in scope and is where the *)
(* object has it, user data that can be reached leads to objects that      *)
(* exist, a copy is destroyed once, and what is counted of the memory is   *)
(* what there is: for any tables, keys, user data, objects, paths and      *)
(* depths of the stack, and any blocks.  What requests of fields that do   *)
(* not exist, tasks that fail and results of `on_collision` leave on the   *)
(* stack is excluded.                                                      *)
THEOREM BindingIsExact ==
    ASSUME ~Missing, ~TasksFail, Results = 0
    PROVE  BindingSpec => []BindingInv
<1>0. LuaAssumption /\ MemoryAssumption
  BY LuaAssumption, MemoryAssumption
<1>1. BindingInit => LuaIInv /\ MemoryIInv
  BY <1>0, Starts, NothingCounted DEF BindingInit
<1>2. LuaIInv /\ MemoryIInv /\ [BindingNext]_AllVars => LuaIInv' /\ MemoryIInv'
  BY <1>0, BindingInduction
<1>3. LuaIInv /\ MemoryIInv => BindingInv
  BY <1>0, LuaInvIs, CountedIs DEF BindingInv
<1> QED BY <1>1, <1>2, <1>3, PTL DEF BindingSpec

(* A loop that ends has been through the fields of its table, each once,   *)
(* and `ipairs()` through the first ones in order (iter.h).                *)
THEOREM LoopsAreComplete ==
    ASSUME ~Missing, ~TasksFail, Results = 0
    PROVE  BindingSpec => Visited
<1>0. LuaAssumption /\ MemoryAssumption
  BY LuaAssumption, MemoryAssumption
<1>1. BindingInit => LuaIInv /\ MemoryIInv
  BY <1>0, Starts, NothingCounted DEF BindingInit
<1>2. LuaIInv /\ MemoryIInv /\ [BindingNext]_AllVars =>
        /\ LuaIInv' /\ MemoryIInv'
        /\ [Leaves => Ended(Len(locals))]_vars
  BY <1>0, BindingInduction
<1>3. BindingSpec => [][Leaves => Ended(Len(locals))]_vars
  BY <1>1, <1>2, PTL DEF BindingSpec
<1> QED BY <1>3 DEF Visited, Leaves
=============================================================================
