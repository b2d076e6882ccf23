-------------------------- MODULE PopulationProofs --------------------------
(***************************************************************************)
(* Proofs about entities (Population.tla): their container, for any        *)
(* capacity; their components, for any number of entities, kinds and       *)
(* arrays; and their positions, for any relation of parents.               *)
(***************************************************************************)
EXTENDS Population, SequenceTheorems, FiniteSetTheorems, TLAPS

-----------------------------------------------------------------------------
(* The container (StaticVector.tla).                                       *)

(* What is inductive: the rest follows. *)
Listed == VectorTypeOK /\ FreeListExact

(* An order of the set S in which each element is once. *)
Orders(f, n, S) ==
    /\ f \in [1..n -> S]
    /\ \A j, k \in 1..n : f[j] = f[k] => j = k
    /\ \A y \in S : \E k \in 1..n : f[k] = y

(* The links w, from the first h, in this order. *)
Links(w, h, f, n) ==
    /\ h = IF n = 0 THEN 0 ELSE f[1]
    /\ \A k \in 1..n : w[f[k]] = IF k = n THEN 0 ELSE f[k + 1]

Size == Cardinality(Unused)

(* The list after a step, given its order. *)
LEMMA NewList ==
    ASSUME NEW n, NEW f, n = Size',
           Orders(f, n, Unused'), Links(v', free_head', f, n)
    PROVE  FreeListExact'
<1>1. Walk(f, n)'
    BY DEF Links, Walk
<1>2. /\ f \in [1..n -> Unused']
      /\ \A j, k \in 1..n : f[j] = f[k] => j = k
      /\ \A y \in Unused' : \E k \in 1..n : f[k] = y
    BY DEF Orders
<1> QED
    BY <1>1, <1>2 DEF FreeListExact, Size

LEMMA Domains ==
    ASSUME VectorTypeOK
    PROVE  /\ Len(v) \in Nat /\ DOMAIN v = 1..Len(v)
           /\ \A y \in DOMAIN v : v[y] \in 0..MaxCapacity
  BY LenProperties, ElementOfSeq DEF VectorTypeOK

LEMMA UnusedFinite ==
    ASSUME VectorTypeOK
    PROVE  IsFiniteSet(Unused) /\ Size \in Nat
<1>1. IsFiniteSet(DOMAIN v)
  BY Domains, FS_Interval
<1>2. IsFiniteSet(Unused)
  BY <1>1, FS_Subset DEF Unused
<1> QED
  BY <1>2, FS_CardinalityType DEF Size

(* Elements are in use or in the free list, once: how many there are. *)
LEMMA Partition ==
    ASSUME VectorTypeOK
    PROVE  /\ IsFiniteSet(used) /\ Cardinality(used) \in Nat
           /\ Cardinality(used) <= Len(v)
           /\ Cardinality(used) = Len(v) <=> Unused = {}
<1>1. IsFiniteSet(DOMAIN v) /\ Cardinality(DOMAIN v) = Len(v)
  BY Domains, FS_Interval
<1>2. used \in SUBSET DOMAIN v
  BY DEF VectorTypeOK
<1>3. IsFiniteSet(used) /\ Cardinality(used) <= Len(v)
      /\ (Cardinality(DOMAIN v) = Cardinality(used) => DOMAIN v = used)
  BY <1>1, <1>2, FS_Subset
<1>4. Unused = {} <=> used = DOMAIN v
  BY <1>2 DEF Unused
<1> QED
  BY <1>1, <1>3, <1>4, FS_CardinalityType

(* The list is empty if there is nothing to be listed. *)
LEMMA HeadOfList ==
    ASSUME VectorTypeOK, FreeListExact
    PROVE  /\ free_head = 0 <=> Unused = {}
           /\ free_head # 0 => free_head \in Unused
<1>1. PICK f : Orders(f, Size, Unused) /\ Walk(f, Size)
  BY DEF FreeListExact, Orders, Size
<1>2. Size = 0 <=> Unused = {}
  BY UnusedFinite, FS_EmptySet DEF Size
<1>3. CASE Size = 0
  BY <1>1, <1>2, <1>3 DEF Walk
<1>4. CASE Size # 0
  <2>1. 1 \in 1..Size
    BY <1>4, UnusedFinite
  <2>2. free_head = f[1] /\ f[1] \in Unused
    BY <1>1, <1>4, <2>1 DEF Walk, Orders
  <2>3. f[1] # 0
    BY <2>2, Domains DEF Unused
  <2> QED
    BY <1>2, <1>4, <2>2, <2>3
<1> QED
  BY <1>3, <1>4

LEMMA FullFollows ==
    ASSUME VectorTypeOK, FreeListExact
    PROVE  FullExact
<1>1. capacity \in Nat /\ Len(v) <= capacity
  BY StaticVectorAssumption DEF VectorTypeOK
<1>2. /\ Cardinality(used) \in Nat /\ Cardinality(used) <= Len(v)
      /\ Cardinality(used) = Len(v) <=> Unused = {}
  BY Partition
<1>3. free_head = 0 <=> Unused = {}
  BY HeadOfList
<1>4. Len(v) \in Nat
  BY Domains
<1>5. ASSUME Full PROVE Cardinality(used) = capacity
  BY <1>2, <1>3, <1>5 DEF Full
<1>6. ASSUME Cardinality(used) = capacity PROVE Full
  <2>1. Len(v) = capacity /\ Cardinality(used) = Len(v)
    BY <1>1, <1>2, <1>4, <1>6
  <2> QED
    BY <1>2, <1>3, <2>1 DEF Full
<1> QED
  BY <1>5, <1>6 DEF FullExact

LEMMA Shrinks ==
    ASSUME NEW S, IsFiniteSet(S), NEW x \in S, NEW T, T = S \ {x}
    PROVE  Cardinality(T) = Cardinality(S) - 1 /\ Cardinality(T) \in Nat
  BY FS_RemoveElement, FS_CardinalityType

-----------------------------------------------------------------------------
LEMMA VectorInitInv == VectorInit => Listed
<1> SUFFICES ASSUME VectorInit PROVE Listed
  OBVIOUS
<1>1. VectorTypeOK
  BY StaticVectorAssumption, EmptySeq DEF VectorInit, VectorTypeOK
<1>2. Unused = {} /\ Size = 0
  BY FS_EmptySet DEF VectorInit, Unused, Size
<1>3. FreeListExact
  <2> DEFINE f == [k \in 1..0 |-> 0]
  <2>1. f \in [1..Size -> Unused]
    BY <1>2
  <2>2. Walk(f, Size)
    BY <1>2 DEF Walk, VectorInit
  <2> QED
    BY <1>2, <2>1, <2>2 DEF FreeListExact, Size
<1> QED
  BY <1>1, <1>3 DEF Listed

LEMMA SetCapacityInv ==
    ASSUME Listed, ~ReserveInUse, NEW c \in 0..MaxCapacity, set_capacity(c)
    PROVE  Listed'
<1>1. v = <<>> /\ v' = <<>> /\ capacity' = c /\ free_head' = 0
  BY DEF set_capacity
<1>2. used = {} /\ used' = {}
  BY <1>1 DEF Listed, VectorTypeOK, set_capacity
<1>3. VectorTypeOK'
  BY <1>1, <1>2, StaticVectorAssumption, EmptySeq DEF VectorTypeOK
<1>4. Unused' = {} /\ Size' = 0
  BY <1>1, <1>2, FS_EmptySet DEF Unused, Size
<1>5. FreeListExact'
  <2> DEFINE f == [k \in 1..0 |-> 0]
  <2>1. f \in [1..Size' -> Unused']
    BY <1>4
  <2>2. Walk(f, Size)'
    BY <1>1, <1>4 DEF Walk
  <2> QED
    BY <1>4, <2>1, <2>2 DEF FreeListExact, Size
<1> QED
  BY <1>3, <1>5 DEF Listed

(* A free element is taken off the list, or the vector grows by one. *)
LEMMA EmplaceInv ==
    ASSUME Listed, emplace
    PROVE  Listed'
<1> DEFINE x == IF free_head # 0 THEN free_head ELSE Len(v) + 1
<1>1. /\ v' = IF x > Len(v) THEN Append(v, InUse) ELSE [v EXCEPT ![x] = InUse]
      /\ free_head' = IF free_head # 0 THEN v[free_head] ELSE 0
      /\ used' = used \cup {x}
      /\ capacity' = capacity /\ ~Full
  BY DEF emplace
<1>2. /\ VectorTypeOK /\ FreeListExact
      /\ capacity \in 0..MaxCapacity /\ capacity \in Nat /\ MaxCapacity \in Nat
      /\ Len(v) \in Nat /\ DOMAIN v = 1..Len(v) /\ Len(v) <= capacity
      /\ v \in Seq(0..MaxCapacity) /\ used \subseteq DOMAIN v
      /\ \A y \in DOMAIN v : v[y] \in 0..MaxCapacity
  BY StaticVectorAssumption, Domains DEF Listed, VectorTypeOK
<1>n. /\ capacity \in Nat /\ MaxCapacity \in Nat /\ capacity <= MaxCapacity
      /\ Len(v) \in Nat /\ Len(v) <= capacity
  BY StaticVectorAssumption, Domains DEF Listed, VectorTypeOK
<1>3. CASE free_head # 0
  <2>1. x = free_head /\ x \in Unused /\ x \in 1..Len(v) /\ x \notin used
    BY <1>2, <1>3, HeadOfList DEF Unused
  <2>2. v' = [v EXCEPT ![x] = 0] /\ v' \in Seq(0..MaxCapacity)
        /\ Len(v') = Len(v) /\ DOMAIN v' = 1..Len(v)
    <3>1. v' = [v EXCEPT ![x] = 0]
      <4> HIDE DEF x
      <4>1. ~(x > Len(v))
        BY <1>n, <2>1
      <4> QED
        BY <1>1, <4>1 DEF InUse
    <3>2. 0 \in 0..MaxCapacity
      BY <1>2
    <3> QED
      BY <1>2, <2>1, <3>1, <3>2, ExceptSeq
  <2>3. Unused' = Unused \ {x}
    BY <1>1, <1>2, <2>1, <2>2 DEF Unused
  <2>4. PICK f : Orders(f, Size, Unused) /\ Walk(f, Size)
    BY <1>2 DEF FreeListExact, Orders, Size
  <2>5. Size \in Nat /\ Size > 0 /\ Size' = Size - 1
    <3>1. IsFiniteSet(Unused) /\ Size \in Nat
      BY <1>2, UnusedFinite
    <3>2. Size' = Size - 1 /\ Size' \in Nat
      BY <2>1, <2>3, <3>1, FS_RemoveElement, FS_CardinalityType DEF Size
    <3> QED
      BY <3>1, <3>2
  <2>6. f[1] = x
    BY <2>1, <2>4, <2>5 DEF Walk
  <2> DEFINE g == [k \in 1..(Size - 1) |-> f[k + 1]]
  <2>7. \A k \in 1..(Size - 1) : k \in 1..Size /\ k + 1 \in 1..Size
    BY <2>5
  <2>8. Orders(g, Size - 1, Unused \ {x})
    <3>1. \A k \in 1..(Size - 1) : f[k + 1] \in Unused \ {x}
      BY <2>4, <2>5, <2>6, <2>7 DEF Orders
    <3>2. \A j, k \in 1..(Size - 1) : g[j] = g[k] => j = k
      BY <2>4, <2>5, <2>7 DEF Orders
    <3>3. ASSUME NEW y \in Unused \ {x} PROVE \E k \in 1..(Size - 1) : g[k] = y
      <4>1. PICK m \in 1..Size : f[m] = y
        BY <2>4 DEF Orders
      <4>2. m # 1
        BY <2>6, <4>1
      <4>3. m - 1 \in 1..(Size - 1) /\ (m - 1) + 1 = m
        BY <2>5, <4>2
      <4> QED
        BY <4>1, <4>3
    <3> QED
      BY <3>1, <3>2, <3>3 DEF Orders
  <2>9. Links(v', free_head', g, Size - 1)
    <3>1. free_head' = v[f[1]]
      BY <1>1, <1>3, <2>1, <2>6
    <3>2. v[f[1]] = IF 1 = Size THEN 0 ELSE f[2]
      BY <2>4, <2>5 DEF Walk
    <3>3. free_head' = IF Size - 1 = 0 THEN 0 ELSE g[1]
      BY <2>5, <3>1, <3>2
    <3>4. ASSUME NEW k \in 1..(Size - 1)
          PROVE  v'[g[k]] = IF k = Size - 1 THEN 0 ELSE g[k + 1]
      <4>1. g[k] = f[k + 1] /\ f[k + 1] \in Unused \ {x} /\ k + 1 \in 1..Size
        BY <2>7, <2>8 DEF Orders
      <4>2. v'[g[k]] = v[f[k + 1]]
        BY <1>2, <2>2, <4>1 DEF Unused
      <4>3. v[f[k + 1]] = IF k + 1 = Size THEN 0 ELSE f[(k + 1) + 1]
        BY <2>4, <4>1 DEF Walk
      <4>4. k # Size - 1 => k + 1 \in 1..(Size - 1)
        BY <2>5
      <4> QED
        BY <2>5, <4>2, <4>3, <4>4
    <3> QED
      BY <3>3, <3>4 DEF Links
  <2> HIDE DEF g
  <2>10. FreeListExact'
    BY <2>3, <2>5, <2>8, <2>9, NewList
  <2>11. VectorTypeOK'
    <3>1. v[free_head] \in 0..Len(v)
      <4>1. v[f[1]] = IF 1 = Size THEN 0 ELSE f[2]
        BY <2>4, <2>5 DEF Walk
      <4>2. 1 # Size => 2 \in 1..Size
        BY <2>5
      <4>3. 1 # Size => f[2] \in 1..Len(v)
        BY <1>2, <2>4, <4>2 DEF Orders, Unused
      <4> QED
        BY <1>2, <2>1, <2>6, <4>1, <4>3
    <3> QED
      BY <1>1, <1>2, <1>3, <2>1, <2>2, <3>1 DEF VectorTypeOK
  <2> QED
    BY <2>10, <2>11 DEF Listed
<1>4. CASE free_head = 0
  <2>1. x = Len(v) + 1 /\ Unused = {} /\ used = DOMAIN v
    BY <1>2, <1>4, HeadOfList DEF Unused
  <2>2. Len(v) < capacity
    <3>1. Len(v) # capacity
      BY <1>1, <1>4 DEF Full
    <3> HIDE DEF x
    <3> QED
      BY <1>n, <3>1
  <2>3. v' = Append(v, 0) /\ v' \in Seq(0..MaxCapacity) /\ Len(v') = Len(v) + 1
        /\ DOMAIN v' = 1..(Len(v) + 1)
    <3> HIDE DEF x
    <3>1. v' = Append(v, 0) /\ 0 \in 0..MaxCapacity
      <4>1. x > Len(v)
        BY <1>n, <2>1
      <4> QED
        BY <1>1, <1>n, <4>1 DEF InUse
    <3> QED
      BY <1>2, <3>1, AppendProperties, LenProperties
  <2>4. Unused' = {}
    <3> HIDE DEF x
    <3>1. used' = 1..(Len(v) + 1)
      BY <1>1, <1>2, <2>1
    <3> QED
      BY <2>3, <3>1 DEF Unused
  <2>5. Size' = 0 /\ free_head' = 0
    BY <1>1, <1>4, <2>4, FS_EmptySet DEF Size
  <2>6. FreeListExact'
    <3> DEFINE f == [k \in 1..0 |-> 0]
    <3>1. f \in [1..Size' -> Unused']
      BY <2>4, <2>5
    <3>2. Walk(f, Size)'
      BY <2>5 DEF Walk
    <3> QED
      BY <2>4, <2>5, <3>1, <3>2 DEF FreeListExact, Size
  <2>7. VectorTypeOK'
    <3> HIDE DEF x
    <3>1. used' \subseteq DOMAIN v'
      <4>1. used = 1..Len(v)
        BY <1>2, <2>1
      <4> QED
        BY <1>1, <1>n, <2>1, <2>3, <4>1
    <3>2. Len(v') <= capacity' /\ capacity' \in 0..MaxCapacity
      BY <1>1, <1>n, <2>2, <2>3
    <3>3. free_head' \in 0..Len(v')
      BY <1>2, <2>3, <2>5
    <3> QED
      BY <2>3, <3>1, <3>2, <3>3 DEF VectorTypeOK
  <2> QED
    BY <2>6, <2>7 DEF Listed
<1> QED
  BY <1>3, <1>4

(* The last element is dropped, any other becomes the head of the list. *)
LEMMA EraseInv ==
    ASSUME Listed, NEW x \in used, erase(x)
    PROVE  Listed'
<1>1. used' = used \ {x} /\ capacity' = capacity
  BY DEF erase
<1>2. /\ VectorTypeOK /\ FreeListExact
      /\ capacity \in 0..MaxCapacity /\ MaxCapacity \in Nat
      /\ Len(v) \in Nat /\ DOMAIN v = 1..Len(v) /\ Len(v) <= capacity
      /\ v \in Seq(0..MaxCapacity) /\ used \subseteq DOMAIN v
      /\ \A y \in DOMAIN v : v[y] \in 0..MaxCapacity
      /\ x \in 1..Len(v) /\ x \notin Unused
  BY StaticVectorAssumption, Domains DEF Listed, VectorTypeOK, Unused
<1>3. PICK f : Orders(f, Size, Unused) /\ Walk(f, Size)
  BY <1>2 DEF FreeListExact, Orders, Size
<1>4. IsFiniteSet(Unused) /\ Size \in Nat
  BY <1>2, UnusedFinite
<1>5. CASE x = Len(v)
  <2>1. v' = SubSeq(v, 1, x - 1) /\ free_head' = free_head
    BY <1>5 DEF erase
  <2>2. /\ v' \in Seq(0..MaxCapacity) /\ Len(v') = Len(v) - 1
        /\ DOMAIN v' = 1..(Len(v) - 1)
        /\ \A y \in 1..(Len(v) - 1) : v'[y] = v[y]
    <3>1. \A y \in 1..(x - 1) : v[y] \in 0..MaxCapacity
      BY <1>2, <1>5
    <3>2. v' \in Seq(0..MaxCapacity) /\ Len(v') = Len(v) - 1
      BY <1>2, <1>5, <2>1, <3>1, SubSeqProperties
    <3>3. \A y \in 1..(Len(v) - 1) : v'[y] = v[y]
      BY <1>2, <1>5, <2>1
    <3> QED
      BY <3>2, <3>3, LenProperties
  <2>3. Unused' = Unused
    BY <1>1, <1>2, <1>5, <2>2 DEF Unused
  <2>4. Walk(f, Size)'
    <3>1. \A k \in 1..Size : f[k] \in 1..(Len(v) - 1)
      BY <1>2, <1>3, <1>5 DEF Orders, Unused
    <3> QED
      BY <1>3, <2>1, <2>2, <2>3, <3>1 DEF Walk, Size
  <2>5. FreeListExact'
    <3>1. Orders(f, Size', Unused')
      BY <1>3, <2>3 DEF Size
    <3> QED
      BY <2>4, <3>1 DEF FreeListExact, Orders, Size
  <2>6. free_head' \in 0..Len(v')
    <3>1. free_head # 0 => free_head \in Unused
      BY <1>2, HeadOfList
    <3> QED
      BY <1>2, <1>5, <2>1, <2>2, <3>1 DEF Unused
  <2>7. VectorTypeOK'
    BY <1>1, <1>2, <1>5, <2>2, <2>6 DEF VectorTypeOK
  <2> QED
    BY <2>5, <2>7 DEF Listed
<1>6. CASE x # Len(v)
  <2>1. v' = [v EXCEPT ![x] = free_head] /\ free_head' = x
    BY <1>6 DEF erase
  <2>2. /\ v' \in Seq(0..MaxCapacity) /\ Len(v') = Len(v)
        /\ DOMAIN v' = 1..Len(v) /\ v'[x] = free_head
        /\ \A y \in 1..Len(v) : y # x => v'[y] = v[y]
    <3>1. free_head \in 0..MaxCapacity
      BY <1>2 DEF VectorTypeOK
    <3> QED
      BY <1>2, <2>1, <3>1, ExceptSeq
  <2>3. Unused' = Unused \cup {x}
    BY <1>1, <1>2, <2>2 DEF Unused
  <2>4. Size' = Size + 1
    BY <1>2, <1>4, <2>3, FS_AddElement DEF Size
  <2> DEFINE g == [k \in 1..(Size + 1) |-> IF k = 1 THEN x ELSE f[k - 1]]
  <2>5. \A k \in 1..(Size + 1) : k # 1 => k - 1 \in 1..Size
    BY <1>4
  <2>6. Orders(g, Size + 1, Unused \cup {x})
    <3>1. \A k \in 1..(Size + 1) : g[k] \in Unused \cup {x}
      BY <1>3, <2>5 DEF Orders
    <3>2. ASSUME NEW j \in 1..(Size + 1), NEW k \in 1..(Size + 1), g[j] = g[k]
          PROVE  j = k
      <4>1. \A n \in 1..(Size + 1) : n # 1 => g[n] # x
        BY <1>2, <1>3, <2>5 DEF Orders
      <4>2. CASE j = 1 \/ k = 1
        BY <3>2, <4>1, <4>2
      <4>3. CASE j # 1 /\ k # 1
        <5>1. j - 1 \in 1..Size /\ k - 1 \in 1..Size /\ f[j - 1] = f[k - 1]
          BY <2>5, <3>2, <4>3
        <5>2. j - 1 = k - 1
          BY <1>3, <5>1 DEF Orders
        <5> QED
          BY <1>4, <5>2
      <4> QED
        BY <4>2, <4>3
    <3>3. ASSUME NEW y \in Unused \cup {x} PROVE \E k \in 1..(Size + 1) : g[k] = y
      <4>1. CASE y = x
        BY <1>4, <4>1
      <4>2. CASE y # x
        <5>1. PICK m \in 1..Size : f[m] = y
          BY <1>3, <4>2 DEF Orders
        <5>2. m + 1 \in 1..(Size + 1) /\ m + 1 # 1 /\ (m + 1) - 1 = m
          BY <1>4
        <5> QED
          BY <5>1, <5>2
      <4> QED
        BY <4>1, <4>2
    <3> QED
      BY <3>1, <3>2, <3>3 DEF Orders
  <2>7. Links(v', free_head', g, Size + 1)
    <3>1. free_head' = g[1] /\ Size + 1 # 0
      BY <1>4, <2>1
    <3>2. ASSUME NEW k \in 1..(Size + 1)
          PROVE  v'[g[k]] = IF k = Size + 1 THEN 0 ELSE g[k + 1]
      <4>1. CASE k = 1
        <5>1. v'[g[k]] = free_head
          BY <2>2, <4>1
        <5>2. free_head = IF Size = 0 THEN 0 ELSE f[1]
          BY <1>3 DEF Walk
        <5>3. Size # 0 => 2 \in 1..(Size + 1) /\ g[2] = f[1]
          BY <1>4
        <5> QED
          BY <1>4, <4>1, <5>1, <5>2, <5>3
      <4>2. CASE k # 1
        <5>1. k - 1 \in 1..Size /\ g[k] = f[k - 1]
          BY <2>5, <4>2
        <5>2. f[k - 1] \in 1..Len(v) /\ f[k - 1] # x
          BY <1>2, <1>3, <5>1 DEF Orders, Unused
        <5>3. v'[g[k]] = v[f[k - 1]]
          BY <2>2, <5>1, <5>2
        <5>4. v[f[k - 1]] = IF k - 1 = Size THEN 0 ELSE f[(k - 1) + 1]
          BY <1>3, <5>1 DEF Walk
        <5>5. k - 1 # Size => k + 1 \in 1..(Size + 1) /\ g[k + 1] = f[k]
          BY <1>4, <4>2
        <5> QED
          BY <1>4, <4>2, <5>3, <5>4, <5>5
      <4> QED
        BY <4>1, <4>2
    <3> QED
      BY <3>1, <3>2 DEF Links
  <2> HIDE DEF g
  <2>8. FreeListExact'
    BY <2>3, <2>4, <2>6, <2>7, NewList
  <2>9. VectorTypeOK'
    BY <1>1, <1>2, <2>1, <2>2 DEF VectorTypeOK
  <2> QED
    BY <2>8, <2>9 DEF Listed
<1> QED
  BY <1>5, <1>6

LEMMA VectorInductive == ~ReserveInUse /\ Listed /\ [VectorNext]_vector => Listed'
<1> SUFFICES ASSUME ~ReserveInUse, Listed, [VectorNext]_vector PROVE Listed'
  OBVIOUS
<1>1. CASE UNCHANGED vector
  <2>1. /\ v' = v /\ capacity' = capacity
        /\ free_head' = free_head /\ used' = used
    BY <1>1 DEF vector
  <2>2. Unused' = Unused /\ Size' = Size
    BY <2>1 DEF Unused, Size
  <2>3. PICK f : Orders(f, Size, Unused) /\ Walk(f, Size)
    BY DEF Listed, FreeListExact, Orders, Size
  <2>4. Links(v', free_head', f, Size)
    BY <2>1, <2>3 DEF Links, Walk
  <2>5. FreeListExact'
    BY <2>2, <2>3, <2>4, NewList
  <2>6. VectorTypeOK'
    BY <2>1 DEF Listed, VectorTypeOK
  <2> QED
    BY <2>5, <2>6 DEF Listed
<1>2. CASE VectorNext
  BY <1>2, SetCapacityInv, EmplaceInv, EraseInv DEF VectorNext
<1> QED
  BY <1>1, <1>2

-----------------------------------------------------------------------------
(* For any capacity, after any sequence of insertions and removals: the    *)
(* elements that are not in use are in the free list, once, and the vector *)
(* is full only if all that it has room for are in use (n_free(), full()). *)
THEOREM NothingLost == ~ReserveInUse /\ VectorSpec => []Inv
<1> SUFFICES ASSUME ~ReserveInUse PROVE VectorSpec => []Inv
  OBVIOUS
<1>1. Listed /\ [VectorNext]_vector => Listed'
  BY VectorInductive
<1>2. Listed => Inv
  BY FullFollows DEF Listed, Inv
<1> QED
  BY <1>1, <1>2, VectorInitInv, PTL DEF VectorSpec

(* Each call is one of a pool of stable elements: emplace() gives out one  *)
(* that nobody has, and as long as fewer than capacity are in use.         *)
THEOREM IsPool == ~ReserveInUse /\ VectorSpec => PoolSpec
<1> SUFFICES ASSUME ~ReserveInUse PROVE VectorSpec => PoolSpec
  OBVIOUS
<1>1. VectorInit => AsPool!Init
  BY DEF VectorInit, AsPool!Init
<1>2. Listed /\ [VectorNext]_vector => [AsPool!Next]_(AsPool!vars)
  <2> SUFFICES ASSUME Listed, VectorNext PROVE [AsPool!Next]_(AsPool!vars)
    BY DEF vector, AsPool!vars
  <2>1. ASSUME NEW c \in 0..MaxCapacity, set_capacity(c) PROVE AsPool!SetCapacity(c)
    BY <2>1 DEF Listed, VectorTypeOK, set_capacity, AsPool!SetCapacity
  <2>2. ASSUME emplace PROVE AsPool!Take
    <3> DEFINE x == IF free_head # 0 THEN free_head ELSE Len(v) + 1
    <3>1. used' = used \cup {x} /\ capacity' = capacity /\ ~Full
      BY <2>2 DEF emplace
    <3>2. /\ Len(v) \in Nat /\ DOMAIN v = 1..Len(v) /\ Len(v) <= capacity
          /\ capacity \in 0..MaxCapacity /\ MaxCapacity \in Nat
          /\ used \subseteq DOMAIN v
      BY StaticVectorAssumption, Domains DEF Listed, VectorTypeOK
    <3>n. /\ capacity \in Nat /\ Len(v) \in Nat /\ Len(v) <= capacity
          /\ capacity <= MaxCapacity
      BY StaticVectorAssumption, Domains DEF Listed, VectorTypeOK
    <3>3. Cardinality(used) < capacity
      <4>1. Cardinality(used) \in Nat /\ Cardinality(used) <= Len(v)
        BY Partition DEF Listed
      <4>2. Cardinality(used) # capacity
        BY <3>1, FullFollows DEF Listed, FullExact
      <4> QED
        BY <3>2, <4>1, <4>2
    <3>4. x \in 1..MaxCapacity /\ x \notin used
      <4>1. CASE free_head # 0
        BY <3>2, <4>1, HeadOfList DEF Listed, Unused
      <4>2. CASE free_head = 0
        <5>1. Len(v) # capacity
          BY <3>1, <4>2 DEF Full
        <5>2. x = Len(v) + 1
          BY <4>2
        <5> HIDE DEF x
        <5>3. Len(v) < capacity /\ capacity \in Nat
          BY <3>n, <5>1
        <5> QED
          BY <3>2, <5>2, <5>3
      <4> QED
        BY <4>1, <4>2
    <3>5. AsPool!Elements = 1..MaxCapacity
      BY DEF AsPool!Elements
    <3>6. AsPool!Cardinality(used) = Cardinality(used)
      BY DEF AsPool!Cardinality, Cardinality
    <3> HIDE DEF x
    <3>7. \E e \in AsPool!Elements \ used : used' = used \cup {e}
      BY <3>1, <3>4, <3>5
    <3>8. UNCHANGED capacity
      BY <3>1
    <3>9. AsPool!Cardinality(used) < capacity
      BY <3>3, <3>6
    <3> QED
      BY <3>7, <3>8, <3>9 DEF AsPool!Take
  <2>3. ASSUME NEW y \in used, erase(y) PROVE AsPool!Return
    BY <2>3 DEF erase, AsPool!Return
  <2> QED
    BY <2>1, <2>2, <2>3 DEF VectorNext, AsPool!Next
<1>3. Listed /\ [VectorNext]_vector => Listed'
  BY VectorInductive
<1> QED
  BY <1>1, <1>2, <1>3, VectorInitInv, PTL DEF VectorSpec, PoolSpec, AsPool!Spec

-----------------------------------------------------------------------------
(* Components (World.tla).                                                 *)

(* The array without element y: a sequence, one element shorter. *)
LEMMA EraseType ==
    ASSUME NEW S, NEW s \in Seq(S), NEW y \in DOMAIN s
    PROVE  /\ const_time_erase(s, y) \in Seq(S)
           /\ Len(const_time_erase(s, y)) = Len(s) - 1
           /\ DOMAIN const_time_erase(s, y) = 1..(Len(s) - 1)
           /\ \A n \in 1..(Len(s) - 1) :
                const_time_erase(s, y)[n] = IF n = y THEN s[Len(s)] ELSE s[n]
<1>1. Len(s) \in Nat /\ Len(s) > 0 /\ DOMAIN s = 1..Len(s)
  BY LenProperties
<1>2. \A n \in 1..Len(s) : s[n] \in S
  BY ElementOfSeq
<1>3. const_time_erase(s, y) \in [1..(Len(s) - 1) -> S]
  BY <1>1, <1>2 DEF const_time_erase
<1>4. Len(s) - 1 \in Nat
  BY <1>1
<1>5. const_time_erase(s, y) \in Seq(S)
  BY <1>3, <1>4, SeqDef
<1> QED
  BY <1>1, <1>3, <1>4, <1>5, LenProperties DEF const_time_erase

(* A pointer is its array and its index. *)
LEMMA PointerIs ==
    ASSUME NEW p \in Pointer
    PROVE  p = At(p.array, p.index) /\ p.array \in Arrays /\ p.index \in Nat
  BY DEF Pointer, At

LEMMA AtIsPointer ==
    ASSUME NEW a \in Arrays, NEW y \in Nat \ {0}
    PROVE  At(a, y) \in Pointer /\ At(a, y) # Null
           /\ At(a, y).array = a /\ At(a, y).index = y
  BY WorldAssumption DEF Pointer, At

(* If a component may be replaced by one of another type, there is room    *)
(* for all entities in each of the arrays it can be in.                    *)
RoomToChange == TypeChanges =>
    /\ IsFiniteSet(Entities)
    /\ \A a, b \in Arrays : a # b /\ KindOf[a] = KindOf[b] =>
        Cardinality(Entities) <= Capacity[a]

(* The components of kind k that are left without the one at p, and the    *)
(* entities they belong to, none of which is e, point at each other.       *)
ComponentsKept(e, k, p) == \A a \in Arrays : KindOf[a] = k =>
    /\ Without(a, p) \in Seq(Component)
    /\ Len(Without(a, p)) <= Capacity[a]
    /\ \A y \in DOMAIN Without(a, p) :
        LET o == Without(a, p)[y].owner
        IN  /\ o \in alive \ {e}
            /\ Redirected(o, k, p) = At(a, y)

PointersKept(e, k, p) == \A x \in Entities \ {e} :
    LET r == Redirected(x, k, p)
    IN  /\ r \in Pointer \cup {Null}
        /\ r # Null =>
            /\ x \in alive
            /\ KindOf[r.array] = k
            /\ r.index \in DOMAIN Without(r.array, p)
            /\ Without(r.array, p)[r.index].owner = x

(* Removing the component of kind k of entity e keeps both. *)
LEMMA Removal ==
    ASSUME IInv, NEW e \in Entities, NEW k \in Kinds
    PROVE  ComponentsKept(e, k, ptr[e][k]) /\ PointersKept(e, k, ptr[e][k])
<1> DEFINE p == ptr[e][k]
           s == comps[p.array]
           n == Len(s)
<1>t. /\ alive \subseteq Entities
      /\ \A x \in Entities : ptr[x][k] \in Pointer \cup {Null}
      /\ \A a \in Arrays :
            comps[a] \in Seq(Component) /\ Len(comps[a]) <= Capacity[a]
      /\ \A a \in Arrays : KindOf[a] \in Kinds /\ Capacity[a] \in Nat
  BY WorldAssumption DEF IInv, TypeOK
<1>d. \A a \in Arrays : Len(comps[a]) \in Nat
                        /\ DOMAIN comps[a] = 1..Len(comps[a])
  BY <1>t, LenProperties
<1>c. \A a \in Arrays : \A y \in DOMAIN comps[a] : comps[a][y] \in Component
  BY <1>t, <1>d, ElementOfSeq
<1>o. \A a \in Arrays : KindOf[a] = k => \A y \in DOMAIN comps[a] :
        /\ comps[a][y].owner \in alive
        /\ ptr[comps[a][y].owner][k] = At(a, y)
        /\ At(a, y) # Null
        /\ At(a, y).array = a /\ At(a, y).index = y
  BY <1>d, AtIsPointer DEF IInv, OwnersMatch
<1>p. \A x \in Entities : ptr[x][k] # Null =>
        /\ x \in alive
        /\ KindOf[ptr[x][k].array] = k
        /\ ptr[x][k].array \in Arrays
        /\ ptr[x][k].index \in DOMAIN comps[ptr[x][k].array]
        /\ comps[ptr[x][k].array][ptr[x][k].index].owner = x
        /\ ptr[x][k] = At(ptr[x][k].array, ptr[x][k].index)
  BY <1>t, PointerIs DEF IInv, PointersMatch
<1>1. CASE p = Null
  <2>1. \A a \in Arrays : Without(a, p) = comps[a]
    BY <1>1 DEF Without, PointsInto
  <2>2. \A x : Redirected(x, k, p) = ptr[x][k]
    BY <1>1 DEF Redirected, Moves
  <2>3. \A a \in Arrays : KindOf[a] = k =>
            \A y \in DOMAIN comps[a] : comps[a][y].owner # e
    BY <1>1, <1>o
  <2> HIDE DEF p
  <2>4. p = ptr[e][k]
    BY DEF p
  <2> QED
    BY <2>1, <2>2, <2>3, <2>4, <1>t, <1>o, <1>p
       DEF ComponentsKept, PointersKept
<1>2. CASE p # Null
  <2> DEFINE w == const_time_erase(s, p.index)
  <2>1. /\ e \in alive /\ p.array \in Arrays /\ KindOf[p.array] = k
        /\ p.index \in DOMAIN s /\ s[p.index].owner = e
        /\ p = At(p.array, p.index)
    BY <1>2, <1>p
  <2>2. n \in Nat /\ DOMAIN s = 1..n /\ n > 0
    BY <2>1, <1>d
  <2>3. Without(p.array, p) = w
    BY <1>2, <2>1 DEF Without, PointsInto
  <2>4. \A a \in Arrays \ {p.array} : Without(a, p) = comps[a]
    BY DEF Without, PointsInto
  <2>5. /\ w \in Seq(Component) /\ Len(w) = n - 1
        /\ DOMAIN w = 1..(n - 1)
        /\ \A j \in 1..(n - 1) : w[j] = IF j = p.index THEN s[n] ELSE s[j]
    <3>1. s \in Seq(Component) /\ p.index \in DOMAIN s
      BY <2>1, <1>t
    <3>2. w = const_time_erase(s, p.index) /\ n = Len(s)
      OBVIOUS
    <3> HIDE DEF w, s, n, p
    <3> QED
      BY <3>1, <3>2, EraseType
  <2>6. \A x : Moves(p, x) <=> p.index # n /\ s[n].owner = x
    BY <1>2, <2>1 DEF Moves, PointsInto
  <2>7. \A x : Redirected(x, k, p) = IF Moves(p, x) THEN p ELSE ptr[x][k]
    BY DEF Redirected
  <2>8. ptr[e][k] = p
    OBVIOUS
  <2> HIDE DEF w, p
  <2>9. s[n].owner \in alive /\ ptr[s[n].owner][k] = At(p.array, n)
        /\ At(p.array, n).index = n /\ At(p.array, n).array = p.array
    BY <2>1, <2>2, <1>o
  <2>10. ASSUME NEW a \in Arrays, KindOf[a] = k
         PROVE  /\ Without(a, p) \in Seq(Component)
                /\ Len(Without(a, p)) <= Capacity[a]
                /\ \A y \in DOMAIN Without(a, p) :
                    LET o == Without(a, p)[y].owner
                    IN  /\ o \in alive \ {e}
                        /\ Redirected(o, k, p) = At(a, y)
    <3>1. CASE a # p.array
      <4>1. Without(a, p) = comps[a]
        BY <3>1, <2>4
      <4>2. ASSUME NEW y \in DOMAIN comps[a]
            PROVE  /\ comps[a][y].owner \in alive \ {e}
                   /\ Redirected(comps[a][y].owner, k, p) = At(a, y)
        <5>1. /\ comps[a][y].owner \in alive
              /\ ptr[comps[a][y].owner][k] = At(a, y)
              /\ At(a, y).array = a
          BY <2>10, <1>o
        <5>2. comps[a][y].owner # e
          BY <5>1, <3>1, <2>8
        <5>3. ~Moves(p, comps[a][y].owner)
          BY <5>1, <3>1, <2>6, <2>9
        <5> QED
          BY <5>1, <5>2, <5>3, <2>7
      <4> QED
        BY <4>1, <4>2, <1>t
    <3>2. CASE a = p.array
      <4>1. Without(a, p) = w
        BY <3>2, <2>3
      <4>2. Len(w) <= Capacity[a]
        <5>1. n <= Capacity[a] /\ Capacity[a] \in Nat
          BY <3>2, <1>t
        <5> QED
          BY <5>1, <2>5, <2>2
      <4>3. ASSUME NEW y \in DOMAIN w
            PROVE  /\ w[y].owner \in alive \ {e}
                   /\ Redirected(w[y].owner, k, p) = At(a, y)
        <5>1. y \in 1..(n - 1) /\ y \in DOMAIN s /\ y # n
          BY <2>5, <2>2
        <5>2. CASE y = p.index
          <6>1. w[y] = s[n]
            BY <5>1, <5>2, <2>5
          <6>2. s[n].owner # e
            BY <2>9, <2>8, <5>1, <5>2
          <6>3. Moves(p, s[n].owner)
            BY <2>6, <5>1, <5>2
          <6> QED
            BY <6>1, <6>2, <6>3, <2>7, <2>9, <2>1, <5>2, <3>2
        <5>3. CASE y # p.index
          <6>1. w[y] = s[y]
            BY <5>1, <5>3, <2>5
          <6>2. /\ s[y].owner \in alive
                /\ ptr[s[y].owner][k] = At(a, y)
                /\ At(a, y).index = y
            BY <5>1, <1>o, <2>10, <3>2
          <6>3. s[y].owner # e
            BY <6>2, <2>8, <5>3
          <6>4. ~Moves(p, s[y].owner)
            BY <6>2, <2>6, <2>9, <5>1
          <6> QED
            BY <6>1, <6>2, <6>3, <6>4, <2>7
        <5> QED
          BY <5>2, <5>3
      <4> QED
        BY <4>1, <4>2, <4>3, <2>5
    <3> QED
      BY <3>1, <3>2
  <2>11. ASSUME NEW x \in Entities \ {e}
         PROVE  LET r == Redirected(x, k, p)
                IN  /\ r \in Pointer \cup {Null}
                    /\ r # Null =>
                        /\ x \in alive
                        /\ KindOf[r.array] = k
                        /\ r.index \in DOMAIN Without(r.array, p)
                        /\ Without(r.array, p)[r.index].owner = x
    <3>1. CASE Moves(p, x)
      <4>1. Redirected(x, k, p) = p /\ p.index # n /\ s[n].owner = x
        BY <3>1, <2>6, <2>7
      <4>2. p.index \in 1..(n - 1)
        BY <4>1, <2>1, <2>2
      <4>3. p \in Pointer
        BY <1>2, <1>t, <2>8
      <4> QED
        BY <4>1, <4>2, <4>3, <2>1, <2>3, <2>5, <2>9
    <3>2. CASE ~Moves(p, x)
      <4> DEFINE r == ptr[x][k]
      <4>1. Redirected(x, k, p) = r
        BY <3>2, <2>7
      <4>2. r \in Pointer \cup {Null}
        BY <1>t
      <4>3. ASSUME r # Null
            PROVE  /\ x \in alive /\ KindOf[r.array] = k
                   /\ r.index \in DOMAIN Without(r.array, p)
                   /\ Without(r.array, p)[r.index].owner = x
        <5>1. /\ x \in alive /\ KindOf[r.array] = k /\ r.array \in Arrays
              /\ r.index \in DOMAIN comps[r.array]
              /\ comps[r.array][r.index].owner = x
          BY <4>3, <1>p
        <5> HIDE DEF r
        <5>2. CASE r.array # p.array
          BY <5>1, <5>2, <2>4
        <5>3. CASE r.array = p.array
          <6>1. r.index # p.index
            BY <5>1, <5>3, <2>1
          <6>2. r.index # n
            BY <5>1, <5>3, <6>1, <3>2, <2>6
          <6>3. r.index \in 1..(n - 1)
            BY <5>1, <5>3, <6>2, <2>2
          <6> QED
            BY <5>1, <5>3, <6>1, <6>3, <2>3, <2>5
        <5> QED
          BY <5>2, <5>3
      <4> HIDE DEF r
      <4> QED
        BY <4>1, <4>2, <4>3
    <3> QED
      BY <3>1, <3>2
  <2> QED
    BY <2>10, <2>11, <2>8 DEF ComponentsKept, PointersKept
<1> QED
  BY <1>1, <1>2

(* The initial state. *)
LEMMA InitInv == Init => IInv
<1> SUFFICES ASSUME Init PROVE IInv
  OBVIOUS
<1>1. \A a \in Arrays : comps[a] = <<>>
  BY DEF Init
<1>2. <<>> \in Seq(Component) /\ Len(<<>>) = 0 /\ DOMAIN <<>> = {}
  BY EmptySeq
<1>3. TypeOK
  <2>1. comps \in [Arrays -> Seq(Component)]
    BY <1>2 DEF Init
  <2>2. \A a \in Arrays : Len(comps[a]) <= Capacity[a]
    BY <1>1, <1>2, WorldAssumption
  <2>3. alive \subseteq Entities
        /\ ptr \in [Entities -> [Kinds -> Pointer \cup {Null}]]
    BY DEF Init
  <2> QED
    BY <2>1, <2>2, <2>3 DEF TypeOK
<1>4. PointersMatch
  BY DEF Init, PointersMatch
<1>5. OwnersMatch
  BY <1>1, <1>2 DEF OwnersMatch
<1> QED
  BY <1>3, <1>4, <1>5 DEF IInv

(* Entities::add(): nothing points to the new entity. *)
LEMMA AddInv == ASSUME IInv, NEW e \in Entities, add(e) PROVE IInv'
<1>1. /\ e \notin alive /\ alive' = alive \cup {e} /\ comps' = comps
      /\ ptr' \in [Entities -> [Kinds -> Pointer \cup {Null}]]
      /\ \A x \in Entities \ {e} : ptr'[x] = ptr[x]
      /\ \A k \in Kinds : ptr'[e][k] = Null
  BY DEF IInv, TypeOK, add
<1>2. TypeOK'
  BY <1>1 DEF IInv, TypeOK
<1>3. PointersMatch'
  <2> SUFFICES ASSUME NEW x \in Entities, NEW k \in Kinds,
                      ptr'[x][k] # Null
               PROVE  /\ x \in alive'
                      /\ KindOf[ptr'[x][k].array] = k
                      /\ ptr'[x][k].index \in DOMAIN comps'[ptr'[x][k].array]
                      /\ comps'[ptr'[x][k].array][ptr'[x][k].index].owner = x
    BY DEF PointersMatch
  <2>1. x # e /\ ptr'[x] = ptr[x]
    BY <1>1
  <2> QED
    BY <2>1, <1>1 DEF IInv, PointersMatch
<1>4. OwnersMatch'
  BY <1>1 DEF IInv, OwnersMatch, TypeOK
<1> QED
  BY <1>2, <1>3, <1>4 DEF IInv

(* NNGN::remove_entity(). *)
LEMMA RemoveInv == ASSUME IInv, NEW e \in Entities, remove_entity(e) PROVE IInv'
<1>1. /\ alive' = alive \ {e}
      /\ comps' = [a \in Arrays |-> Without(a, ptr[e][KindOf[a]])]
      /\ ptr' = [x \in Entities |-> [k \in Kinds |->
            IF x = e THEN Null ELSE Redirected(x, k, ptr[e][k])]]
  BY DEF remove_entity
<1>2. \A a \in Arrays : KindOf[a] \in Kinds
  BY WorldAssumption
<1>3. \A a \in Arrays :
        LET k == KindOf[a]
        IN  /\ comps'[a] \in Seq(Component)
            /\ Len(comps'[a]) <= Capacity[a]
            /\ \A y \in DOMAIN comps'[a] :
                LET o == comps'[a][y].owner
                IN  o \in alive' /\ ptr'[o][k] = At(a, y)
  <2> SUFFICES ASSUME NEW a \in Arrays
               PROVE  /\ comps'[a] \in Seq(Component)
                      /\ Len(comps'[a]) <= Capacity[a]
                      /\ \A y \in DOMAIN comps'[a] :
                            /\ comps'[a][y].owner \in alive'
                            /\ ptr'[comps'[a][y].owner][KindOf[a]] = At(a, y)
    OBVIOUS
  <2> DEFINE k == KindOf[a]
  <2>1. k \in Kinds
    BY <1>2
  <2>2. comps'[a] = Without(a, ptr[e][k])
    BY <1>1
  <2>3. /\ Without(a, ptr[e][k]) \in Seq(Component)
        /\ Len(Without(a, ptr[e][k])) <= Capacity[a]
        /\ \A y \in DOMAIN Without(a, ptr[e][k]) :
            /\ Without(a, ptr[e][k])[y].owner \in alive \ {e}
            /\ Redirected(Without(a, ptr[e][k])[y].owner, k, ptr[e][k])
                    = At(a, y)
    <3>1. KindOf[a] = k
      OBVIOUS
    <3> HIDE DEF k
    <3> QED
      BY <2>1, <3>1, Removal DEF ComponentsKept
  <2>4. \A x \in alive \ {e} : ptr'[x][k] = Redirected(x, k, ptr[e][k])
    BY <1>1, <2>1 DEF IInv, TypeOK
  <2> QED
    BY <2>2, <2>3, <2>4, <1>1
<1>4. \A x \in Entities, k \in Kinds :
        LET r == ptr'[x][k]
        IN  /\ r \in Pointer \cup {Null}
            /\ r # Null =>
                /\ x \in alive' /\ KindOf[r.array] = k
                /\ r.array \in Arrays
                /\ r.index \in DOMAIN Without(r.array, ptr[e][k])
                /\ Without(r.array, ptr[e][k])[r.index].owner = x
  <2> SUFFICES ASSUME NEW x \in Entities, NEW k \in Kinds
               PROVE  LET r == ptr'[x][k]
                      IN  /\ r \in Pointer \cup {Null}
                          /\ r # Null =>
                            /\ x \in alive' /\ KindOf[r.array] = k
                            /\ r.array \in Arrays
                            /\ r.index \in DOMAIN Without(r.array, ptr[e][k])
                            /\ Without(r.array, ptr[e][k])[r.index].owner = x
    OBVIOUS
  <2>1. CASE x = e
    BY <2>1, <1>1
  <2>2. CASE x # e
    <3>1. ptr'[x][k] = Redirected(x, k, ptr[e][k])
      BY <2>2, <1>1
    <3> QED
      BY <3>1, <2>2, <1>1, Removal, PointerIs DEF PointersKept
  <2> QED
    BY <2>1, <2>2
<1>5. \A a \in Arrays : comps'[a] = Without(a, ptr[e][KindOf[a]])
  BY <1>1
<1>6. TypeOK'
  <2>1. ptr' \in [Entities -> [Kinds -> Pointer \cup {Null}]]
    BY <1>1, <1>4
  <2>2. comps' \in [Arrays -> Seq(Component)]
    BY <1>1, <1>3
  <2> QED
    BY <2>1, <2>2, <1>1, <1>3 DEF IInv, TypeOK
<1>7. PointersMatch'
  BY <1>4, <1>5 DEF PointersMatch
<1>8. OwnersMatch'
  BY <1>3 DEF OwnersMatch
<1> QED
  BY <1>6, <1>7, <1>8 DEF IInv

(* An array has components of distinct entities, and none of e if e has    *)
(* one in another array of its kind.                                       *)
LEMMA RoomForAnother ==
    ASSUME IInv, RoomToChange, TypeChanges, NEW e \in Entities, NEW a \in Arrays,
           ptr[e][KindOf[a]] # Null, ptr[e][KindOf[a]].array # a
    PROVE  Len(comps[a]) < Capacity[a]
<1> DEFINE n == Len(comps[a])
           k == KindOf[a]
           others == Entities \ {e}
           f == [y \in 1..n |-> comps[a][y].owner]
<1>1. n \in Nat /\ DOMAIN comps[a] = 1..n /\ k \in Kinds /\ Capacity[a] \in Nat
  BY WorldAssumption, LenProperties DEF IInv, TypeOK
<1>2. /\ IsFiniteSet(Entities) /\ Cardinality(Entities) <= Capacity[a]
      /\ ptr[e][k].array \in Arrays /\ KindOf[ptr[e][k].array] = k
  BY <1>1, PointerIs DEF RoomToChange, IInv, TypeOK, PointersMatch
<1>3. \A y \in 1..n : /\ comps[a][y].owner \in Entities
                      /\ ptr[comps[a][y].owner][k] = At(a, y)
  BY <1>1 DEF IInv, TypeOK, OwnersMatch
<1>4. \A y \in 1..n : At(a, y).array = a /\ At(a, y).index = y
  BY DEF At
<1>5. f \in Injection(1..n, others)
  <2>1. \A y \in 1..n : f[y] \in others
    BY <1>3, <1>4
  <2>2. \A y, z \in 1..n : f[y] = f[z] => y = z
    BY <1>3, <1>4
  <2> QED
    BY <2>1, <2>2 DEF Injection, IsInjective
<1>6. /\ IsFiniteSet(others) /\ Cardinality(others) = Cardinality(Entities) - 1
      /\ Cardinality(Entities) \in Nat
  BY <1>2, FS_RemoveElement, FS_CardinalityType
<1>7. Cardinality(1..n) = n
  <2>1. 1 \in Int /\ n \in Int /\ n \in Nat
    BY <1>1
  <2> HIDE DEF n
  <2>2. Cardinality(1..n) = IF 1 > n THEN 0 ELSE n - 1 + 1
    BY <2>1, FS_Interval
  <2> QED
    BY <2>1, <2>2
<1> HIDE DEF n, others, f
<1>8. Cardinality(1..n) <= Cardinality(others)
  BY <1>5, <1>6, FS_Injection
<1> QED
  BY <1>1, <1>2, <1>6, <1>7, <1>8 DEF n

(* What replaces a component always fits. *)
LEMMA ReplacementFits ==
    ASSUME IInv, RoomToChange, NEW e \in Entities,
           NEW t \in [Kinds -> Request \cup {Null}], load(e, t),
           NEW k \in Kinds, t[k] # Null, ptr[e][k] # Null
    PROVE  Fits(ptr[e][k], t[k])
<1> DEFINE p == ptr[e][k]
           b == t[k].array
<1>1. /\ b \in Arrays /\ KindOf[b] = k /\ Capacity[b] \in Nat
      /\ ~TypeChanges => p.array = b
  BY WorldAssumption DEF load, Request
<1>2. comps[b] \in Seq(Component) /\ Len(comps[b]) <= Capacity[b]
      /\ Len(comps[b]) \in Nat
  BY <1>1, LenProperties DEF IInv, TypeOK
<1>3. CASE p.array = b
  <2>1. p.index \in DOMAIN comps[b]
    BY <1>3 DEF IInv, PointersMatch
  <2>2. Without(b, p) = const_time_erase(comps[b], p.index)
    BY <1>3, <2>1 DEF Without, PointsInto
  <2> HIDE DEF p, b
  <2>3. Len(Without(b, p)) = Len(comps[b]) - 1
    BY <1>2, <2>1, <2>2, EraseType
  <2> QED
    BY <1>1, <1>2, <2>3 DEF Fits, p, b
<1>4. CASE p.array # b
  <2>1. Without(b, p) = comps[b]
    BY <1>4 DEF Without, PointsInto
  <2>2. Len(comps[b]) < Capacity[b]
    BY <1>1, <1>4, RoomForAnother
  <2> QED
    BY <2>1, <2>2 DEF Fits
<1> QED
  BY <1>3, <1>4

(* entity.load(): what replaces a component always fits. *)
LEMMA LoadInv ==
    ASSUME IInv, RoomToChange, NEW e \in Entities,
           NEW t \in [Kinds -> Request \cup {Null}], load(e, t)
    PROVE  IInv'
<1>1. /\ e \in alive /\ alive' = alive
      /\ comps' = [a \in Arrays |-> Loaded(a, e, t[KindOf[a]])]
      /\ ptr' = [x \in Entities |-> [k \in Kinds |->
            IF t[k] = Null THEN ptr[x][k]
            ELSE IF x = e THEN LoadedPtr(e, k, t[k])
            ELSE Redirected(x, k, ptr[e][k])]]
      /\ \A k \in Kinds : t[k] # Null => KindOf[t[k].array] = k
  BY DEF load
<1>2. /\ \A a \in Arrays : KindOf[a] \in Kinds /\ Capacity[a] \in Nat
      /\ alive \subseteq Entities
  BY WorldAssumption DEF IInv, TypeOK
<1>3. ASSUME NEW k \in Kinds
      PROVE  /\ \A a \in Arrays : KindOf[a] = k =>
                /\ comps'[a] \in Seq(Component)
                /\ Len(comps'[a]) <= Capacity[a]
                /\ \A y \in DOMAIN comps'[a] :
                    LET o == comps'[a][y].owner
                    IN  o \in alive' /\ ptr'[o][k] = At(a, y)
             /\ \A x \in Entities :
                LET r == ptr'[x][k]
                IN  /\ r \in Pointer \cup {Null}
                    /\ r # Null =>
                        /\ x \in alive' /\ KindOf[r.array] = k
                        /\ r.index \in DOMAIN comps'[r.array]
                        /\ comps'[r.array][r.index].owner = x
  <2> DEFINE p == ptr[e][k]
             q == t[k]
  <2>1. CASE q = Null
    <3>1. \A a \in Arrays : KindOf[a] = k => comps'[a] = comps[a]
      BY <2>1, <1>1 DEF Loaded
    <3>2. \A x \in Entities : ptr'[x][k] = ptr[x][k]
      BY <2>1, <1>1
    <3>3. \A x \in Entities : ptr[x][k] # Null => ptr[x][k].array \in Arrays
      BY PointerIs DEF IInv, TypeOK
    <3> HIDE DEF p, q
    <3>4. ASSUME NEW a \in Arrays, KindOf[a] = k
          PROVE  /\ comps'[a] \in Seq(Component)
                 /\ Len(comps'[a]) <= Capacity[a]
                 /\ \A y \in DOMAIN comps'[a] :
                    /\ comps'[a][y].owner \in alive'
                    /\ ptr'[comps'[a][y].owner][k] = At(a, y)
      <4>1. comps'[a] = comps[a]
        BY <3>1, <3>4
      <4>2. comps[a] \in Seq(Component) /\ Len(comps[a]) <= Capacity[a]
        BY DEF IInv, TypeOK
      <4>3. \A y \in DOMAIN comps[a] : comps[a][y].owner \in alive
                /\ ptr[comps[a][y].owner][k] = At(a, y)
        BY <3>4 DEF IInv, OwnersMatch
      <4> QED
        BY <4>1, <4>2, <4>3, <3>2, <1>1, <1>2
    <3>5. ASSUME NEW x \in Entities
          PROVE  LET r == ptr'[x][k]
                 IN  /\ r \in Pointer \cup {Null}
                     /\ r # Null =>
                        /\ x \in alive' /\ KindOf[r.array] = k
                        /\ r.index \in DOMAIN comps'[r.array]
                        /\ comps'[r.array][r.index].owner = x
      <4>1. ptr[x][k] \in Pointer \cup {Null}
        BY DEF IInv, TypeOK
      <4>2. ptr[x][k] # Null =>
                /\ x \in alive /\ KindOf[ptr[x][k].array] = k
                /\ ptr[x][k].index \in DOMAIN comps[ptr[x][k].array]
                /\ comps[ptr[x][k].array][ptr[x][k].index].owner = x
        BY DEF IInv, PointersMatch
      <4>3. ptr'[x][k] = ptr[x][k]
        BY <3>2
      <4>4. ptr[x][k] # Null =>
                comps'[ptr[x][k].array] = comps[ptr[x][k].array]
        BY <3>1, <3>3, <4>2
      <4> QED
        BY <4>1, <4>2, <4>3, <4>4, <1>1
    <3> QED
      BY <3>4, <3>5
  <2>2. CASE q # Null
    <3> DEFINE b == q.array
               new == [owner |-> e, data |-> q.data]
               l == Len(Without(b, p)) + 1
    <3>1. b \in Arrays /\ q.data \in Data /\ KindOf[b] = k /\ new \in Component
      BY <2>2, <1>1 DEF Request, Component
    <3>2. /\ \A a \in Arrays : KindOf[a] = k =>
                /\ Without(a, p) \in Seq(Component)
                /\ Len(Without(a, p)) <= Capacity[a]
                /\ \A y \in DOMAIN Without(a, p) :
                    /\ Without(a, p)[y].owner \in alive \ {e}
                    /\ Redirected(Without(a, p)[y].owner, k, p) = At(a, y)
          /\ \A x \in Entities \ {e} :
                LET r == Redirected(x, k, p)
                IN  /\ r \in Pointer \cup {Null}
                    /\ r # Null =>
                        /\ x \in alive /\ KindOf[r.array] = k
                        /\ r.index \in DOMAIN Without(r.array, p)
                        /\ Without(r.array, p)[r.index].owner = x
      <4>1. ComponentsKept(e, k, p) /\ PointersKept(e, k, p)
        BY Removal
      <4> QED
        BY <4>1 DEF ComponentsKept, PointersKept
    <3>3. \A x \in Entities \ {e} : ptr'[x][k] = Redirected(x, k, p)
      BY <2>2, <1>1
    <3>4. ptr'[e][k] = LoadedPtr(e, k, q)
      BY <2>2, <1>1
    <3>5. \A a \in Arrays : KindOf[a] = k => comps'[a] = Loaded(a, e, q)
      BY <1>1
    <3>6. \A a \in Arrays : KindOf[a] = k => Loaded(a, e, q) =
            IF a = b /\ Fits(p, q) THEN Append(Without(a, p), new)
            ELSE Without(a, p)
      BY <2>2 DEF Loaded
    <3>7. p # Null => Fits(p, q)
      BY <2>2, ReplacementFits
    <3>8. LoadedPtr(e, k, q) = IF Fits(p, q) THEN At(b, l)
                ELSE IF k \in {"renderer", "collider"} THEN p ELSE Null
      BY DEF LoadedPtr
    <3>9. Fits(p, q) <=> Len(Without(b, p)) < Capacity[b]
      BY DEF Fits
    <3>10. p = ptr[e][k]
      OBVIOUS
    <3>11. \A x \in Entities \ {e} : Redirected(x, k, p) # Null =>
                Redirected(x, k, p).array \in Arrays
      BY <3>2, PointerIs
    <3>12. l = Len(Without(b, p)) + 1 /\ new.owner = e
      OBVIOUS
    <3> HIDE DEF p, q, b, new, l
    <3>13. Len(Without(b, p)) \in Nat
            /\ DOMAIN Without(b, p) = 1..Len(Without(b, p))
      BY <3>1, <3>2, LenProperties
    <3>14. l \in Nat \ {0}
      BY <3>12, <3>13
    <3>15. CASE ~Fits(p, q)
      <4>1. p = Null /\ ptr'[e][k] = Null
        BY <3>15, <3>4, <3>7, <3>8
      <4>2. \A a \in Arrays : KindOf[a] = k => comps'[a] = Without(a, p)
        BY <3>15, <3>5, <3>6
      <4>3. ASSUME NEW a \in Arrays, KindOf[a] = k
            PROVE  /\ comps'[a] \in Seq(Component)
                   /\ Len(comps'[a]) <= Capacity[a]
                   /\ \A y \in DOMAIN comps'[a] :
                        /\ comps'[a][y].owner \in alive'
                        /\ ptr'[comps'[a][y].owner][k] = At(a, y)
        BY <4>2, <4>3, <3>2, <3>3, <1>1, <1>2
      <4>4. ASSUME NEW x \in Entities
            PROVE  LET r == ptr'[x][k]
                   IN  /\ r \in Pointer \cup {Null}
                       /\ r # Null =>
                            /\ x \in alive' /\ KindOf[r.array] = k
                            /\ r.index \in DOMAIN comps'[r.array]
                            /\ comps'[r.array][r.index].owner = x
        <5>1. CASE x = e
          BY <5>1, <4>1
        <5>2. CASE x # e
          <6> DEFINE r == Redirected(x, k, p)
          <6>1. ptr'[x][k] = r
            BY <5>2, <3>3
          <6>2. /\ r \in Pointer \cup {Null}
                /\ r # Null =>
                    /\ x \in alive /\ KindOf[r.array] = k
                    /\ r.index \in DOMAIN Without(r.array, p)
                    /\ Without(r.array, p)[r.index].owner = x
            BY <5>2, <3>2
          <6>3. r # Null => r.array \in Arrays
            BY <5>2, <3>11
          <6> HIDE DEF r
          <6>4. r # Null => comps'[r.array] = Without(r.array, p)
            BY <6>2, <6>3, <4>2
          <6> QED
            BY <6>1, <6>2, <6>4, <1>1
        <5> QED
          BY <5>1, <5>2
      <4> QED
        BY <4>3, <4>4
    <3>16. CASE Fits(p, q)
      <4>1. ptr'[e][k] = At(b, l)
        BY <3>16, <3>4, <3>8
      <4>2. \A a \in Arrays : KindOf[a] = k /\ a # b =>
                comps'[a] = Without(a, p)
        BY <3>5, <3>6
      <4>3. comps'[b] = Append(Without(b, p), new)
        BY <3>16, <3>1, <3>5, <3>6
      <4>4. /\ comps'[b] \in Seq(Component)
            /\ Len(comps'[b]) = l /\ DOMAIN comps'[b] = 1..l
            /\ comps'[b][l] = new
            /\ \A y \in 1..(l - 1) : comps'[b][y] = Without(b, p)[y]
        <5>1. Without(b, p) \in Seq(Component) /\ new \in Component
          BY <3>1, <3>2
        <5>2. Append(Without(b, p), new) \in Seq(Component)
          BY <5>1, AppendProperties
        <5>3. /\ Len(Append(Without(b, p), new)) = l
              /\ Append(Without(b, p), new)[l] = new
              /\ \A y \in 1..(l - 1) :
                    Append(Without(b, p), new)[y] = Without(b, p)[y]
          BY <5>1, <3>12, <3>13, AppendProperties
        <5>4. DOMAIN Append(Without(b, p), new) = 1..l
          BY <5>2, <5>3, LenProperties
        <5> QED
          BY <4>3, <5>2, <5>3, <5>4
      <4>5. l <= Capacity[b]
        BY <3>16, <3>9, <3>12, <3>13, <3>1, <1>2
      <4>6. ASSUME NEW a \in Arrays, KindOf[a] = k
            PROVE  /\ comps'[a] \in Seq(Component)
                   /\ Len(comps'[a]) <= Capacity[a]
                   /\ \A y \in DOMAIN comps'[a] :
                        /\ comps'[a][y].owner \in alive'
                        /\ ptr'[comps'[a][y].owner][k] = At(a, y)
        <5>1. CASE a # b
          BY <5>1, <4>6, <4>2, <3>2, <3>3, <1>1, <1>2
        <5>2. CASE a = b
          <6>1. ASSUME NEW y \in DOMAIN comps'[b]
                PROVE  /\ comps'[b][y].owner \in alive'
                       /\ ptr'[comps'[b][y].owner][k] = At(b, y)
            <7>1. CASE y = l
              BY <7>1, <4>1, <4>4, <3>12, <1>1
            <7>2. CASE y # l
              <8>1. y \in DOMAIN Without(b, p) /\ y \in 1..(l - 1)
                BY <7>2, <4>4, <3>12, <3>13, <3>14
              <8>2. comps'[b][y] = Without(b, p)[y]
                BY <8>1, <4>4
              <8>3. /\ Without(b, p)[y].owner \in alive \ {e}
                    /\ Redirected(Without(b, p)[y].owner, k, p) = At(b, y)
                BY <8>1, <3>1, <3>2
              <8> QED
                BY <8>2, <8>3, <3>3, <1>1, <1>2
            <7> QED
              BY <7>1, <7>2
          <6> QED
            BY <5>2, <6>1, <4>4, <4>5
        <5> QED
          BY <5>1, <5>2
      <4>7. ASSUME NEW x \in Entities
            PROVE  LET r == ptr'[x][k]
                   IN  /\ r \in Pointer \cup {Null}
                       /\ r # Null =>
                            /\ x \in alive' /\ KindOf[r.array] = k
                            /\ r.index \in DOMAIN comps'[r.array]
                            /\ comps'[r.array][r.index].owner = x
        <5>1. CASE x = e
          <6>1. /\ At(b, l) \in Pointer
                /\ At(b, l).array = b /\ At(b, l).index = l
            BY <3>1, <3>14, AtIsPointer
          <6> QED
            BY <5>1, <6>1, <4>1, <4>4, <3>1, <3>12, <3>14, <1>1
        <5>2. CASE x # e
          <6> DEFINE r == ptr'[x][k]
          <6>1. r = Redirected(x, k, p)
            BY <5>2, <3>3
          <6>2. r \in Pointer \cup {Null}
            BY <6>1, <5>2, <3>2
          <6>3. ASSUME r # Null
                PROVE  /\ x \in alive' /\ KindOf[r.array] = k
                       /\ r.index \in DOMAIN comps'[r.array]
                       /\ comps'[r.array][r.index].owner = x
            <7>1. /\ x \in alive /\ KindOf[r.array] = k /\ r.array \in Arrays
                  /\ r.index \in DOMAIN Without(r.array, p)
                  /\ Without(r.array, p)[r.index].owner = x
              BY <6>1, <6>3, <5>2, <3>2, <3>11
            <7> HIDE DEF r
            <7>2. CASE r.array # b
              BY <7>1, <7>2, <4>2, <1>1
            <7>3. CASE r.array = b
              <8>1. r.index \in 1..(l - 1) /\ r.index \in 1..l
                BY <7>1, <7>3, <3>12, <3>13
              <8> QED
                BY <8>1, <7>1, <7>3, <4>4, <1>1
            <7> QED
              BY <7>2, <7>3
          <6> HIDE DEF r
          <6>4. r = ptr'[x][k]
            BY DEF r
          <6> QED
            BY <6>2, <6>3, <6>4
        <5> QED
          BY <5>1, <5>2
      <4> QED
        BY <4>6, <4>7
    <3> QED
      BY <3>15, <3>16
  <2> QED
    BY <2>1, <2>2
<1>4. TypeOK'
  <2>1. ptr' \in [Entities -> [Kinds -> Pointer \cup {Null}]]
    <3>1. \A x \in Entities, k \in Kinds : ptr'[x][k] \in Pointer \cup {Null}
      BY <1>3
    <3> QED
      BY <3>1, <1>1
  <2>2. \A a \in Arrays :
            comps'[a] \in Seq(Component) /\ Len(comps'[a]) <= Capacity[a]
    BY <1>2, <1>3
  <2>3. comps' \in [Arrays -> Seq(Component)]
    BY <1>1, <2>2
  <2> QED
    BY <2>1, <2>2, <2>3, <1>1, <1>2 DEF TypeOK
<1>5. PointersMatch'
  BY <1>3 DEF PointersMatch
<1>6. OwnersMatch'
  BY <1>2, <1>3 DEF OwnersMatch
<1> QED
  BY <1>4, <1>5, <1>6 DEF IInv

(* However entities come, are given components and go, in whatever order:  *)
(* the pointers of entities and the owners of components match, and no     *)
(* array has more components than it has room for.                         *)
THEOREM Matching ==
    ASSUME RoomToChange
    PROVE  Spec => []IInv
<1>1. Init => IInv
  BY InitInv
<1>2. IInv /\ [Next]_vars => IInv'
  <2> SUFFICES ASSUME IInv, [Next]_vars PROVE IInv'
    OBVIOUS
  <2>1. CASE UNCHANGED vars
    BY <2>1 DEF vars, IInv, TypeOK, PointersMatch, OwnersMatch
  <2>2. CASE Next
    BY <2>2, AddInv, RemoveInv, LoadInv DEF Next
  <2> QED
    BY <2>1, <2>2
<1> QED
  BY <1>1, <1>2, PTL DEF Spec

(* Another entity keeps its component, wherever it was moved. *)
LEMMA SameComponent ==
    ASSUME IInv, NEW e \in Entities, NEW k \in Kinds, NEW x \in Entities \ {e}
    PROVE  LET p == ptr[e][k]
               o == ptr[x][k]
               r == Redirected(x, k, p)
           IN  /\ o = Null => r = Null
               /\ o # Null => /\ r # Null /\ r.array = o.array
                              /\ Without(r.array, p)[r.index] = comps[o.array][o.index]
<1> DEFINE p == ptr[e][k]
           o == ptr[x][k]
           s == comps[p.array]
           n == Len(s)
<1>1. CASE p = Null
  BY <1>1 DEF Redirected, Moves, Without, PointsInto
<1>2. CASE p # Null
  <2>1. /\ p.array \in Arrays /\ KindOf[p.array] = k /\ p.index \in DOMAIN s
        /\ s[p.index].owner = e /\ s \in Seq(Component)
    BY <1>2, PointerIs DEF IInv, TypeOK, PointersMatch
  <2>2. n \in Nat /\ DOMAIN s = 1..n /\ n \in DOMAIN s
    BY <2>1, LenProperties
  <2>3. /\ Without(p.array, p) = const_time_erase(s, p.index)
        /\ \A a : a # p.array => Without(a, p) = comps[a]
    <3>1. PointsInto(p, p.array)
      BY <1>2, <2>1 DEF PointsInto
    <3>2. \A a : a # p.array => ~PointsInto(p, a)
      BY DEF PointsInto
    <3> QED
      BY <3>1, <3>2 DEF Without
  <2>4. \A j \in 1..(n - 1) :
            const_time_erase(s, p.index)[j] = IF j = p.index THEN s[n] ELSE s[j]
    <3> DEFINE c == p.index
    <3>1. s \in Seq(Component) /\ c \in DOMAIN s
      BY <2>1
    <3> HIDE DEF s, c
    <3>2. \A j \in 1..(Len(s) - 1) :
            const_time_erase(s, c)[j] = IF j = c THEN s[Len(s)] ELSE s[j]
      BY <3>1, EraseType
    <3> QED
      BY <3>2 DEF c
  <2>5. s[n].owner \in alive /\ ptr[s[n].owner][k] = At(p.array, n)
    BY <2>1, <2>2 DEF IInv, OwnersMatch
  <2>6. At(p.array, n).array = p.array /\ At(p.array, n).index = n
    BY DEF At
  <2>7. Moves(p, x) <=> p.index # n /\ s[n].owner = x
    BY <1>2, <2>1 DEF Moves, PointsInto
  <2>8. CASE Moves(p, x)
    <3>1. o = At(p.array, n) /\ o # Null /\ p.index # n
      BY <2>1, <2>2, <2>5, <2>7, <2>8, AtIsPointer
    <3>2. Redirected(x, k, p) = p /\ p.index \in 1..(n - 1)
      BY <2>1, <2>2, <2>8, <3>1 DEF Redirected
    <3>3. Without(p.array, p)[p.index] = s[n]
      BY <2>3, <2>4, <3>2
    <3>4. comps[o.array][o.index] = s[n]
      BY <2>6, <3>1
    <3>5. o.array = p.array
      BY <2>6, <3>1
    <3> QED
      BY <1>2, <3>1, <3>2, <3>3, <3>4, <3>5
  <2>9. CASE ~Moves(p, x)
    <3>1. Redirected(x, k, p) = o
      BY <2>9 DEF Redirected
    <3>2. ASSUME o # Null, o.array = p.array
          PROVE  Without(o.array, p)[o.index] = comps[o.array][o.index]
      <4>1. o.index \in DOMAIN s /\ s[o.index].owner = x
        BY <3>2 DEF IInv, PointersMatch
      <4>2. o.index # p.index /\ o.index # n
        BY <2>1, <2>7, <2>9, <4>1
      <4>3. o.index \in 1..(n - 1)
        BY <2>2, <4>1, <4>2
      <4> QED
        BY <2>3, <2>4, <3>2, <4>2, <4>3
    <3> QED
      BY <2>3, <3>1, <3>2
  <2> QED
    BY <2>8, <2>9
<1> QED
  BY <1>1, <1>2

(* What the scripts see of an entity. *)
Seen(x, k) ==
    IF ptr[x][k] = Null THEN Null
    ELSE comps[ptr[x][k].array][ptr[x][k].index].data

(* A load changes what is seen of no other entity, and of its own what was *)
(* asked for, unless it had none of the kind and there was no room.        *)
LEMMA LoadSeen ==
    ASSUME IInv, RoomToChange, NEW e \in Entities,
           NEW t \in [Kinds -> Request \cup {Null}], load(e, t), NEW k \in Kinds
    PROVE  /\ \A x \in Entities \ {e} : Seen(x, k)' = Seen(x, k)
           /\ t[k] = Null => Seen(e, k)' = Seen(e, k)
           /\ t[k] # Null => \/ Seen(e, k)' = t[k].data
                             \/ Seen(e, k) = Null /\ Seen(e, k)' = Null
<1> DEFINE p == ptr[e][k]
           q == t[k]
<1>1. /\ comps' = [a \in Arrays |-> Loaded(a, e, t[KindOf[a]])]
      /\ ptr' = [x \in Entities |-> [m \in Kinds |->
            IF t[m] = Null THEN ptr[x][m]
            ELSE IF x = e THEN LoadedPtr(e, m, t[m])
            ELSE Redirected(x, m, ptr[e][m])]]
  BY DEF load
<1>2. \A x \in Entities : ptr[x][k] # Null =>
        /\ ptr[x][k].array \in Arrays /\ KindOf[ptr[x][k].array] = k
  BY PointerIs DEF IInv, TypeOK, PointersMatch
<1>3. CASE q = Null
  <2>1. \A x \in Entities : ptr'[x][k] = ptr[x][k]
    BY <1>1, <1>3
  <2>2. \A a \in Arrays : KindOf[a] = k => comps'[a] = comps[a]
    BY <1>1, <1>3 DEF Loaded
  <2> QED
    BY <1>2, <1>3, <2>1, <2>2 DEF Seen
<1>4. CASE q # Null
  <2> DEFINE b == q.array
             new == [owner |-> e, data |-> q.data]
  <2>1. b \in Arrays /\ KindOf[b] = k /\ new \in Component
    BY <1>4 DEF load, Request, Component
  <2>2. /\ \A x \in Entities \ {e} : ptr'[x][k] = Redirected(x, k, p)
        /\ ptr'[e][k] = LoadedPtr(e, k, q)
    BY <1>1, <1>4
  <2>3. \A a \in Arrays : KindOf[a] = k =>
          comps'[a] = IF a = b /\ Fits(p, q) THEN Append(Without(a, p), new)
                      ELSE Without(a, p)
    BY <1>1, <1>4 DEF Loaded
  <2>4. /\ Without(b, p) \in Seq(Component) /\ Len(Without(b, p)) \in Nat
        /\ DOMAIN Without(b, p) = 1..Len(Without(b, p))
    BY <2>1, Removal, LenProperties DEF ComponentsKept
  <2>5. /\ \A y \in 1..Len(Without(b, p)) : Append(Without(b, p), new)[y] = Without(b, p)[y]
        /\ Append(Without(b, p), new)[Len(Without(b, p)) + 1] = new
    BY <2>1, <2>4, AppendProperties
  <2>6. ASSUME NEW x \in Entities \ {e} PROVE Seen(x, k)' = Seen(x, k)
    <3> DEFINE o == ptr[x][k]
               r == Redirected(x, k, p)
    <3>1. /\ o = Null => r = Null
          /\ o # Null => /\ r # Null /\ r.array = o.array
                         /\ Without(r.array, p)[r.index] = comps[o.array][o.index]
      BY SameComponent
    <3>2. r # Null => /\ KindOf[r.array] = k /\ r.index \in DOMAIN Without(r.array, p)
      BY Removal DEF PointersKept
    <3>3. o # Null => r.array \in Arrays
      BY <1>2, <3>1
    <3>4. ptr'[x][k] = r
      BY <2>2
    <3> HIDE DEF r, o
    <3>5. o # Null => comps'[r.array][r.index] = Without(r.array, p)[r.index]
      <4>1. CASE r.array = b
        <5>1. comps'[b] = Without(b, p) \/ comps'[b] = Append(Without(b, p), new)
          BY <2>1, <2>3
        <5>2. o # Null => r.index \in 1..Len(Without(b, p))
          BY <2>4, <3>1, <3>2, <4>1
        <5> HIDE DEF b, p, new
        <5> QED
          BY <2>5, <4>1, <5>1, <5>2
      <4>2. CASE r.array # b
        BY <2>3, <3>1, <3>2, <3>3, <4>2
      <4> QED
        BY <4>1, <4>2
    <3> QED
      BY <3>1, <3>4, <3>5 DEF Seen, o
  <2>7. CASE Fits(p, q)
    <3>1. ptr'[e][k] = At(b, Len(Without(b, p)) + 1)
      BY <2>2, <2>7 DEF LoadedPtr
    <3>2. ptr'[e][k] # Null /\ ptr'[e][k].array = b
          /\ ptr'[e][k].index = Len(Without(b, p)) + 1
      <4>1. Len(Without(b, p)) + 1 \in Nat \ {0}
        BY <2>4
      <4> QED
        BY <2>1, <3>1, <4>1, AtIsPointer
    <3>3. comps'[b][Len(Without(b, p)) + 1] = new
      BY <2>1, <2>3, <2>5, <2>7
    <3>4. Seen(e, k)' = q.data
      BY <3>2, <3>3 DEF Seen
    <3> QED
      BY <1>4, <2>6, <3>4
  <2>8. CASE ~Fits(p, q)
    <3>1. p = Null
      BY <1>4, <2>8, ReplacementFits
    <3>2. ptr'[e][k] = Null
      BY <2>2, <2>8, <3>1 DEF LoadedPtr
    <3> QED
      BY <1>4, <2>6, <3>1, <3>2 DEF Seen
  <2> QED
    BY <2>7, <2>8
<1> QED
  BY <1>3, <1>4

(* The removal of an entity changes what is seen of no other. *)
LEMMA RemoveSeen ==
    ASSUME IInv, NEW e \in Entities, remove_entity(e), NEW k \in Kinds
    PROVE  /\ Seen(e, k)' = Null
           /\ \A x \in Entities \ {e} : Seen(x, k)' = Seen(x, k)
<1>1. /\ comps' = [a \in Arrays |-> Without(a, ptr[e][KindOf[a]])]
      /\ ptr'[e][k] = Null
      /\ \A x \in Entities \ {e} : ptr'[x][k] = Redirected(x, k, ptr[e][k])
  BY DEF remove_entity
<1>2. ASSUME NEW x \in Entities \ {e} PROVE Seen(x, k)' = Seen(x, k)
  <2> DEFINE p == ptr[e][k]
             o == ptr[x][k]
             r == Redirected(x, k, p)
  <2>1. /\ o = Null => r = Null
        /\ o # Null => /\ r # Null /\ r.array = o.array
                       /\ Without(r.array, p)[r.index] = comps[o.array][o.index]
    BY SameComponent
  <2>2. o # Null => o.array \in Arrays /\ KindOf[o.array] = k
    BY PointerIs DEF IInv, TypeOK, PointersMatch
  <2>3. o # Null => comps'[r.array] = Without(r.array, p)
    BY <1>1, <2>1, <2>2
  <2>4. ptr'[x][k] = r
    BY <1>1
  <2> HIDE DEF p, o, r
  <2> QED
    BY <2>1, <2>3, <2>4 DEF Seen, o
<1> QED
  BY <1>1, <1>2 DEF Seen

(* Each call is one of a map from entities to components. *)
LEMMA MapStep ==
    ASSUME IInv, RoomToChange, Next
    PROVE  AsComponents!Next
<1> DEFINE has == [e \in Entities |-> [k \in Kinds |-> Seen(e, k)]]
           now == [e \in Entities |-> [k \in Kinds |-> Seen(e, k)']]
           Has == [e \in Entities |-> [k \in Kinds |->
                    IF ptr[e][k] = Null THEN Null
                    ELSE comps[ptr[e][k].array][ptr[e][k].index].data]]
           Now == [e \in Entities |-> [k \in Kinds |->
                    IF ptr'[e][k] = Null THEN Null
                    ELSE comps'[ptr'[e][k].array][ptr'[e][k].index].data]]
<1>h. has = Has /\ now = Now
  BY DEF Seen
<1>1. ASSUME NEW e \in Entities, add(e) PROVE AsComponents!Add(e)
  <2>1. \A k \in Kinds : ptr[e][k] = Null
    BY <1>1 DEF add, IInv, PointersMatch
  <2>2. \A x \in Entities, k \in Kinds : ptr'[x][k] = ptr[x][k]
    BY <1>1, <2>1 DEF add, IInv, TypeOK
  <2>3. \A x \in Entities, k \in Kinds : Seen(x, k)' = Seen(x, k)
    BY <1>1, <2>2 DEF add, Seen
  <2>4. now = has
    BY <2>3
  <2> HIDE DEF has, now
  <2> QED
    BY <1>1, <1>h, <2>4 DEF add, AsComponents!Add
<1>2. ASSUME NEW e \in Entities, NEW t \in [Kinds -> Request \cup {Null}], load(e, t)
      PROVE  \E d \in [Kinds -> Data \cup {Null}] : AsComponents!Load(e, d)
  <2> DEFINE d == [k \in Kinds |-> IF t[k] = Null THEN Null ELSE t[k].data]
             failed == {k \in Kinds : t[k] # Null /\ Seen(e, k) = Null /\ Seen(e, k)' = Null}
             row == [k \in Kinds |-> IF d[k] = Null \/ k \in failed THEN has[e][k] ELSE d[k]]
  <2>1. \A k \in Kinds : t[k] # Null => t[k].data \in Data /\ t[k].data # Null
    BY WorldAssumption DEF Request
  <2>2. d \in [Kinds -> Data \cup {Null}]
    BY <2>1
  <2>3. \A k \in Kinds : d[k] = Null <=> t[k] = Null
    BY <2>1
  <2>4. \A x \in Entities \ {e}, k \in Kinds : Seen(x, k)' = Seen(x, k)
    BY <1>2, LoadSeen
  <2>5. \A k \in Kinds : Seen(e, k)' = row[k]
    <3> TAKE k \in Kinds
    <3>1. /\ t[k] = Null => Seen(e, k)' = Seen(e, k)
          /\ t[k] # Null => \/ Seen(e, k)' = t[k].data
                            \/ Seen(e, k) = Null /\ Seen(e, k)' = Null
      BY <1>2, LoadSeen
    <3>2. has[e][k] = Seen(e, k) /\ (k \in failed <=>
                t[k] # Null /\ Seen(e, k) = Null /\ Seen(e, k)' = Null)
      OBVIOUS
    <3>3. row[k] = IF t[k] = Null \/ k \in failed THEN Seen(e, k) ELSE t[k].data
      BY <2>3, <3>2
    <3> HIDE DEF row, failed, d, has
    <3> QED
      BY <3>1, <3>2, <3>3
  <2>6. now = [has EXCEPT ![e] = row]
    <3>1. [has EXCEPT ![e] = row] =
            [x \in Entities |-> IF x = e THEN row ELSE [k \in Kinds |-> Seen(x, k)]]
      OBVIOUS
    <3>2. row = [k \in Kinds |-> row[k]]
      OBVIOUS
    <3> HIDE DEF row
    <3> QED
      BY <2>4, <2>5, <3>1, <3>2
  <2>7. failed \subseteq {k \in Kinds : has[e][k] = Null}
    OBVIOUS
  <2>8. now = [has EXCEPT ![e] = [k \in Kinds |->
            IF d[k] = Null \/ k \in failed THEN @[k] ELSE d[k]]]
    <3> HIDE DEF has, now, d, failed
    <3> QED
      BY <2>6
  <2>9. e \in alive /\ UNCHANGED alive
    BY <1>2 DEF load
  <2>10. \E f \in SUBSET {k \in Kinds : Has[e][k] = Null} :
            Now = [Has EXCEPT ![e] = [k \in Kinds |->
                    IF d[k] = Null \/ k \in f THEN @[k] ELSE d[k]]]
    <3> HIDE DEF has, now, d, failed, row, Has, Now
    <3>1. failed \in SUBSET {k \in Kinds : Has[e][k] = Null}
      BY <1>h, <2>7
    <3>2. Now = [Has EXCEPT ![e] = [k \in Kinds |->
                    IF d[k] = Null \/ k \in failed THEN @[k] ELSE d[k]]]
      BY <1>h, <2>8, Zenon
    <3> QED
      BY <3>1, <3>2, Zenon
  <2> HIDE DEF has, now, d, failed, row
  <2>11. AsComponents!Load(e, d)
    BY <2>9, <2>10 DEF AsComponents!Load
  <2> QED
    BY <2>2, <2>11
<1>3. ASSUME NEW e \in Entities, remove_entity(e) PROVE AsComponents!Remove(e)
  <2>1. \A k \in Kinds : /\ Seen(e, k)' = Null
                         /\ \A x \in Entities \ {e} : Seen(x, k)' = Seen(x, k)
    BY <1>3, RemoveSeen
  <2>2. now = [has EXCEPT ![e] = [k \in Kinds |-> Null]]
    BY <2>1
  <2> HIDE DEF has, now
  <2> QED
    BY <1>3, <1>h, <2>2 DEF remove_entity, AsComponents!Remove
<1> QED
  BY <1>1, <1>2, <1>3 DEF Next, AsComponents!Next

(* Scripts see what they gave to an entity and nothing else: wherever the  *)
(* components are moved to, whatever is loaded, removed or has no room.    *)
THEOREM IsMap ==
    ASSUME RoomToChange
    PROVE  Spec => ComponentMap
<1>1. Init => AsComponents!Init
  BY DEF Init, AsComponents!Init
<1>2. IInv /\ [Next]_vars => [AsComponents!Next]_(AsComponents!vars)
  <2>1. CASE UNCHANGED vars
    BY <2>1 DEF vars, AsComponents!vars
  <2>2. CASE Next
    BY <2>2, MapStep
  <2> QED
    BY <2>1, <2>2
<1> QED
  BY <1>1, <1>2, Matching, PTL DEF Spec, ComponentMap, AsComponents!Spec

-----------------------------------------------------------------------------
(* Positions (Frame.tla).                                                  *)

LEMMA PlusType ==
    ASSUME NEW x \in Positions, NEW y \in Positions
    PROVE  Plus(x, y) \in Positions
  BY FrameAssumption DEF Plus, Positions

LEMMA StepType == \A x \in Positions : Plus(x, 1) \in Positions
  BY FrameAssumption DEF Plus, Positions

LEMMA PlaceType ==
    ASSUME FrameTypeOK, NEW x \in Positions, NEW q \in Bodies \cup {None}
    PROVE  Place(x, q) \in Positions
<1>1. CASE q = None
  BY <1>1 DEF Place
<1>2. CASE q # None
  <2>1. pos[q] \in Positions
    BY <1>2 DEF FrameTypeOK
  <2> QED
    BY <1>2, <2>1, PlusType DEF Place
<1> QED
  BY <1>1, <1>2

LEMMA PlacedType ==
    ASSUME FrameTypeOK, NEW e \in Bodies, NEW x \in Positions,
           NEW q \in Bodies \cup {None}
    PROVE  /\ Placed(e, x, q) \in [Bodies -> Positions \cup {None}]
           /\ Placed(e, x, q)[e] \in {None, Place(x, q)}
           /\ \A f \in Bodies \ {e} : Placed(e, x, q)[f] = at[f]
  BY PlaceType DEF FrameTypeOK, Placed

(* Whatever moves an entity, from wherever in the loop before they are     *)
(* drawn, leaves only children behind, which update_children() will visit. *)
LEMMA MoveKeeps ==
    ASSUME FrameInv, NEW e \in Bodies, NEW x \in Positions, Move(e, x),
           UNCHANGED parent, phase \notin {"draw", "children"},
           phase' = phase
    PROVE  /\ pos' \in [Bodies -> Positions]
           /\ updated' \subseteq Bodies
           /\ at' \in [Bodies -> Positions \cup {None}]
           /\ Behind'
<1> USE DEF FrameInv
<1>1. parent[e] \in Bodies \cup {None}
  BY DEF FrameTypeOK
<1>2. /\ at' \in [Bodies -> Positions \cup {None}]
      /\ at'[e] \in {None, Place(x, parent[e])}
      /\ \A f \in Bodies \ {e} : at'[f] = at[f]
  BY <1>1, PlacedType DEF Move
<1>3. /\ pos' \in [Bodies -> Positions]
      /\ updated' \subseteq Bodies
      /\ e \in updated'
      /\ updated \subseteq updated'
      /\ pos'[e] = x
      /\ \A f \in Bodies \ {e} : pos'[f] = pos[f]
  BY DEF Move, FrameTypeOK
<1>4. ASSUME NEW f \in Bodies, ~InPlace(f)'
      PROVE  parent[f] # None /\ parent[f] \in updated'
  <2>1. parent[f] \in Bodies \cup {None}
    BY DEF FrameTypeOK
  <2>2. CASE parent[f] = e
    BY <2>2, <1>3, FrameAssumption DEF Bodies
  <2>3. CASE parent[f] # e /\ f = e
    BY <2>1, <2>3, <1>2, <1>3, <1>4 DEF InPlace, Place
  <2>4. CASE parent[f] # e /\ f # e
    <3>1. InPlace(f)' <=> InPlace(f)
      BY <2>1, <2>4, <1>2, <1>3 DEF InPlace, Place
    <3> QED
      BY <3>1, <1>3, <1>4 DEF Behind
  <2> QED
    BY <2>2, <2>3, <2>4
<1>5. Behind'
  BY <1>4 DEF Behind
<1> QED
  BY <1>2, <1>3, <1>5

LEMMA Initially == FrameInit => FrameInv
  BY FrameAssumption DEF FrameInit, FrameInv, FrameTypeOK, Behind, InPlace, Place, Phases,
                         Positions, Bodies

LEMMA FrameInductive == ~LateComponents /\ FrameInv /\ [FrameNext]_placement => FrameInv'
<1> SUFFICES ASSUME ~LateComponents, FrameInv, [FrameNext]_placement PROVE FrameInv'
  OBVIOUS
<1> USE DEF FrameInv
<1>1. ASSUME NEW e \in Bodies, NEW x \in Positions, set_pos(e, x)
      PROVE  FrameInv'
  <2>1. phase \notin {"draw", "children"} /\ phase' = phase /\ parent' = parent
    BY <1>1 DEF set_pos, Scripts
  <2>2. Move(e, x)
    BY <1>1 DEF set_pos
  <2> QED
    BY <1>1, <2>1, <2>2, MoveKeeps DEF set_pos, FrameTypeOK
<1>2. ASSUME NEW e \in Bodies, NEW d \in Positions, resolve_collisions(e, d)
      PROVE  FrameInv'
  <2>1. phase \notin {"draw", "children"} /\ phase' = phase /\ parent' = parent
    BY <1>2 DEF resolve_collisions
  <2>2. Move(e, Plus(pos[e], d)) /\ Plus(pos[e], d) \in Positions
    BY <1>2, PlusType DEF resolve_collisions, FrameTypeOK
  <2> QED
    BY <1>2, <2>1, <2>2, MoveKeeps DEF resolve_collisions, FrameTypeOK
<1>3. ASSUME NEW e \in Bodies, NEW m \in BOOLEAN, set_vel(e, m)
      PROVE  FrameInv'
  BY <1>3 DEF set_vel, FrameTypeOK, Behind, InPlace, Place
<1>4. ASSUME NEW e \in Bodies, NEW q \in Bodies \cup {None},
             set_parent(e, q)
      PROVE  FrameInv'
  <2>1. pos[e] \in Positions
    BY DEF FrameTypeOK
  <2>2. /\ at' \in [Bodies -> Positions \cup {None}]
        /\ at'[e] \in {None, Place(pos[e], q)}
        /\ \A f \in Bodies \ {e} : at'[f] = at[f]
    BY <1>4, <2>1, PlacedType DEF set_parent
  <2>3. /\ parent' \in [Bodies -> Bodies \cup {None}]
        /\ parent'[e] = q
        /\ \A f \in Bodies \ {e} : parent'[f] = parent[f]
    BY <1>4 DEF set_parent, FrameTypeOK
  <2>4. /\ updated \subseteq updated' /\ updated' \subseteq Bodies
        /\ pos' = pos /\ phase' = phase /\ i' = i /\ moving' = moving
        /\ phase \in {"scripts", "callbacks"}
    BY <1>4 DEF set_parent, Scripts, FrameTypeOK
  <2>5. FrameTypeOK'
    BY <2>2, <2>3, <2>4 DEF FrameTypeOK
  <2>6. InPlace(e)'
    BY <2>2, <2>3, <2>4 DEF InPlace, Place
  <2>7. \A f \in Bodies \ {e} : InPlace(f)' <=> InPlace(f)
    BY <2>2, <2>3, <2>4 DEF InPlace, Place
  <2>8. Behind'
    BY <2>3, <2>4, <2>6, <2>7 DEF Behind
  <2> QED
    BY <2>5, <2>8
<1>5. ASSUME NEW e \in Bodies, set_component(e)
      PROVE  FrameInv'
  <2>1. parent[e] = None
    BY <1>5 DEF set_component
  <2> QED
    BY <1>5, <2>1 DEF set_component, FrameTypeOK, Behind, InPlace, Place
<1>6. ASSUME NEW to \in Phases, proceed(to)
      PROVE  FrameInv'
  <2>1. /\ pos' = pos /\ at' = at /\ parent' = parent /\ updated' = updated
        /\ moving' = moving /\ phase' = to /\ i' = 1 /\ Follows(phase, to)
    BY <1>6 DEF proceed
  <2>2. FrameTypeOK'
    BY <2>1, FrameAssumption DEF FrameTypeOK
  <2>3. \A e \in Bodies : InPlace(e)' <=> InPlace(e)
    BY <2>1 DEF InPlace, Place
  <2>4. CASE to = "draw"
    <3>1. phase = "children" /\ i > N
      BY <2>1, <2>4 DEF Follows
    <3>2. \A e \in Bodies : InPlace(e)
      BY <3>1, FrameAssumption DEF Behind, FrameTypeOK, Bodies
    <3> QED
      BY <2>2, <2>3, <3>2 DEF Behind
  <2>5. CASE to # "draw"
    <3>1. \A e \in Bodies : i' <= e
      BY <2>1 DEF Bodies
    <3> QED
      BY <2>1, <2>2, <2>3, <2>5, <3>1 DEF Behind
  <2> QED
    BY <2>4, <2>5
<1>7. ASSUME update
      PROVE  FrameInv'
  <2>1. /\ phase = "update" /\ phase' = phase /\ parent' = parent
        /\ moving' = moving /\ i \in Bodies /\ i' \in 1..(N + 1)
    BY <1>7, FrameAssumption DEF update, FrameTypeOK, Bodies
  <2>2. CASE i \in moving
    <3>1. Move(i, Plus(pos[i], 1)) /\ Plus(pos[i], 1) \in Positions
      BY <1>7, <2>1, <2>2, StepType DEF update, FrameTypeOK
    <3> QED
      BY <2>1, <3>1, MoveKeeps DEF FrameTypeOK
  <2>3. CASE i \notin moving
    <3>1. pos' = pos /\ at' = at /\ updated' = updated
      BY <1>7, <2>3 DEF update
    <3> QED
      BY <2>1, <3>1 DEF FrameTypeOK, Behind, InPlace, Place
  <2> QED
    BY <2>2, <2>3
<1>8. ASSUME update_children
      PROVE  FrameInv'
  <2>1. /\ phase = "children" /\ phase' = phase /\ parent' = parent
        /\ pos' = pos /\ updated' = updated /\ moving' = moving
        /\ i \in Bodies /\ i' = i + 1 /\ i' \in 1..(N + 1)
    BY <1>8, FrameAssumption DEF update_children, FrameTypeOK, Bodies
  <2>2. pos[i] \in Positions /\ parent[i] \in Bodies \cup {None}
    BY <2>1 DEF FrameTypeOK
  <2>3. PICK j \in Bodies : j = i
    BY <2>1
  <2>4. /\ at' \in [Bodies -> Positions \cup {None}]
        /\ InPlace(j)'
        /\ \A f \in Bodies \ {j} : at'[f] = at[f]
    <3>1. CASE parent[j] # None /\ parent[j] \in updated
      <4>1. at' = Placed(j, pos[j], parent[j])
        BY <1>8, <2>3, <3>1 DEF update_children
      <4>2. /\ at' \in [Bodies -> Positions \cup {None}]
            /\ at'[j] \in {None, Place(pos[j], parent[j])}
            /\ \A f \in Bodies \ {j} : at'[f] = at[f]
        BY <2>2, <2>3, <4>1, PlacedType
      <4> QED
        BY <2>1, <4>2 DEF InPlace, Place
    <3>2. CASE ~(parent[j] # None /\ parent[j] \in updated)
      <4>1. at' = at
        BY <1>8, <2>3, <3>2 DEF update_children
      <4>2. InPlace(j)
        BY <2>1, <3>2 DEF Behind
      <4> QED
        BY <2>1, <4>1, <4>2 DEF FrameTypeOK, InPlace, Place
    <3> QED
      BY <3>1, <3>2
  <2>5. ASSUME NEW f \in Bodies \ {j}
        PROVE  \/ InPlace(f)'
               \/ parent[f] # None /\ parent[f] \in updated /\ i' <= f
    <3>1. InPlace(f)' <=> InPlace(f)
      BY <2>1, <2>4 DEF InPlace, Place
    <3>2. i <= f => i' <= f
      BY <2>1, <2>3, FrameAssumption DEF Bodies
    <3> QED
      BY <2>1, <3>1, <3>2 DEF Behind
  <2>6. Behind'
    BY <2>1, <2>4, <2>5 DEF Behind
  <2> QED
    BY <2>1, <2>4, <2>6 DEF FrameTypeOK
<1>9. ASSUME clear_flags
      PROVE  FrameInv'
  <2>1. /\ phase = "draw" /\ phase' = "scripts" /\ i' = 1 /\ updated' = {}
        /\ pos' = pos /\ moving' = moving /\ parent' = parent /\ at' = at
    BY <1>9 DEF clear_flags
  <2>2. \A e \in Bodies : InPlace(e)'
    BY <2>1 DEF Behind, InPlace, Place
  <2> QED
    BY <2>1, <2>2, FrameAssumption DEF FrameTypeOK, Behind, Phases
<1>10. ASSUME end
       PROVE  FrameInv'
  <2>1. /\ phase # "children" /\ phase' = "ended" /\ i' = i
        /\ pos' = pos /\ moving' = moving /\ parent' = parent /\ at' = at
        /\ updated' = updated
    BY <1>10 DEF end
  <2> QED
    BY <2>1 DEF FrameTypeOK, Behind, InPlace, Place, Phases
<1>11. CASE UNCHANGED placement
  BY <1>11 DEF placement, FrameTypeOK, Behind, InPlace, Place
<1> QED
  BY <1>1, <1>2, <1>3, <1>4, <1>5, <1>6, <1>7, <1>8, <1>9, <1>10, <1>11
  DEF FrameNext

(* Positions are only out of date in between: in every state, a component  *)
(* that is out of place belongs to a child that is yet to be visited.      *)
THEOREM ChildrenBehind == ~LateComponents /\ FrameSpec => []FrameInv
<1> SUFFICES ASSUME ~LateComponents PROVE FrameSpec => []FrameInv
  OBVIOUS
<1>1. FrameInit => FrameInv
  BY Initially
<1>2. FrameInv /\ [FrameNext]_placement => FrameInv'
  BY FrameInductive
<1> QED
  BY <1>1, <1>2, PTL DEF FrameSpec

(* When renderers are updated, every component is at the position of its   *)
(* entity and of its parent, whatever moved them: nothing is drawn late.   *)
THEOREM DrawnInPlace == ~LateComponents /\ FrameSpec => []Drawn
<1> SUFFICES ASSUME ~LateComponents PROVE FrameSpec => []Drawn
  OBVIOUS
<1>1. FrameInv => Drawn
  BY DEF FrameInv, Behind, Drawn
<1> QED
  BY <1>1, ChildrenBehind, PTL

-----------------------------------------------------------------------------
(* Entities as a whole (Population.tla).                                   *)

(* A call of Entities is one of the container, one of the components or    *)
(* one of the positions, or of the first two at once.                      *)
THEOREM Parts == PopulationSpec => VectorSpec /\ Spec /\ FrameSpec
<1>1. PopulationInit => VectorInit /\ Init /\ FrameInit
  BY DEF PopulationInit
<1>2. [PopulationNext]_<<vars, vector, placement>>
        => [VectorNext]_vector /\ [Next]_vars /\ [FrameNext]_placement
  <2>1. ASSUME set_max
        PROVE  VectorNext /\ UNCHANGED vars
    BY <2>1 DEF set_max, VectorNext
  <2>2. ASSUME NEW e \in Entities, add_entity(e)
        PROVE  VectorNext /\ Next
    BY <2>2 DEF add_entity, VectorNext, Next
  <2>3. ASSUME NEW e \in Entities, NEW t \in [Kinds -> Request \cup {Null}], load(e, t)
        PROVE  Next
    BY <2>3 DEF Next
  <2>4. ASSUME NEW e \in Entities, erase(e), remove_entity(e)
        PROVE  VectorNext /\ Next
    <3>1. e \in used
      BY <2>4 DEF erase
    <3> QED
      BY <2>4, <3>1 DEF VectorNext, Next
  <2>5. CASE UNCHANGED <<vars, vector, placement>>
    BY <2>5
  <2>6. CASE FrameInit /\ (set_max \/ Population) /\ UNCHANGED placement
    BY <2>6, <2>1, <2>2, <2>3, <2>4 DEF Population
  <2>7. CASE Init /\ VectorInit /\ FrameNext /\ UNCHANGED <<vars, vector>>
    BY <2>7
  <2> QED
    BY <2>5, <2>6, <2>7 DEF PopulationNext
<1> QED
  BY <1>1, <1>2, PTL DEF PopulationSpec, VectorSpec, Spec, FrameSpec

(* What holds of the parts holds of entities as they are used.             *)
THEOREM Together ==
    ASSUME ~ReserveInUse, RoomToChange, ~LateComponents
    PROVE  PopulationSpec => /\ []Inv /\ PoolSpec
                             /\ []IInv /\ ComponentMap
                             /\ []FrameInv /\ []Drawn
  BY Parts, NothingLost, IsPool, Matching, IsMap, ChildrenBehind, DrawnInPlace
=============================================================================
