----------------------------- MODULE GameProofs -----------------------------
(***************************************************************************)
(* Proofs about players, input and maps (Game.tla): what each event, task  *)
(* and collision does to the current player, to what is attached to the    *)
(* players and to the settings of the map, whatever the users, the players *)
(* and the maps are and however many events a frame has.                   *)
(***************************************************************************)
EXTENDS Game, SequenceTheorems, TLAPS

-----------------------------------------------------------------------------
(* Sequences.                                                              *)

LEMMA RemoveAtIs ==
    ASSUME NEW S, NEW s \in Seq(S), NEW l \in Nat, l = Len(s), NEW i \in 1..l
    PROVE  /\ RemoveAt(s, i) \in Seq(S) /\ Len(RemoveAt(s, i)) = l - 1
           /\ \A j \in 1..(l - 1) :
               RemoveAt(s, i)[j] = IF j < i THEN s[j] ELSE s[j + 1]
<1> DEFINE a == SubSeq(s, 1, i - 1)
           b == SubSeq(s, i + 1, l)
<1>1. \A j \in 1..l : s[j] \in S
    BY LenProperties
<1>2. \A j \in 1..(i - 1) : s[j] \in S
    BY <1>1
<1>3. a \in Seq(S) /\ Len(a) = (IF 1 <= i - 1 THEN i - 1 - 1 + 1 ELSE 0)
      /\ \A j \in 1..(i - 1 - 1 + 1) : a[j] = s[1 + j - 1]
    BY <1>2, SubSeqProperties
<1>4. \A j \in (i + 1)..l : s[j] \in S
    BY <1>1
<1>5. b \in Seq(S) /\ Len(b) = (IF i + 1 <= l THEN l - (i + 1) + 1 ELSE 0)
      /\ \A j \in 1..(l - (i + 1) + 1) : b[j] = s[i + 1 + j - 1]
    BY <1>4, SubSeqProperties
<1>6. RemoveAt(s, i) = a \o b
    BY DEF RemoveAt
<1> HIDE DEF a, b
<1>7. Len(a) = i - 1 /\ Len(b) = l - i
    BY <1>3, <1>5
<1>8. a \o b \in Seq(S) /\ Len(a \o b) = Len(a) + Len(b)
      /\ \A j \in 1..(Len(a) + Len(b)) : (a \o b)[j] =
            IF j <= Len(a) THEN a[j] ELSE b[j - Len(a)]
    BY <1>3, <1>5, ConcatProperties
<1>9. Len(a) + Len(b) = l - 1
    BY <1>7
<1>10. ASSUME NEW j \in 1..(l - 1)
       PROVE  (a \o b)[j] = IF j < i THEN s[j] ELSE s[j + 1]
    <2>1. (a \o b)[j] = IF j <= i - 1 THEN a[j] ELSE b[j - (i - 1)]
        BY <1>7, <1>8, <1>9
    <2>2. CASE j < i
        <3>1. j <= i - 1 /\ j \in 1..(i - 1 - 1 + 1) /\ 1 + j - 1 = j
            BY <2>2
        <3> QED
            BY <1>3, <2>1, <2>2, <3>1
    <2>3. CASE ~(j < i)
        <3>1. ~(j <= i - 1) /\ j - (i - 1) \in 1..(l - (i + 1) + 1)
              /\ i + 1 + (j - (i - 1)) - 1 = j + 1
            BY <2>3
        <3> QED
            BY <1>5, <2>1, <2>3, <3>1
    <2> QED
        BY <2>2, <2>3
<1> QED
    BY <1>6, <1>8, <1>9, <1>10

-----------------------------------------------------------------------------
(* The players.                                                            *)

LEMMA ActionsAre ==
    /\ Len(Actions) \in Nat /\ Len(Actions) >= 1 /\ DOMAIN Actions = 1..Len(Actions)
    /\ \A i \in DOMAIN Actions : Actions[i] \in Attached /\ Actions[i] # "menu"
<1>1. Actions \in Seq(Attached \ {"menu"}) /\ Actions # <<>>
    BY PlayersAssumption
<1>2. Len(Actions) \in Nat /\ DOMAIN Actions = 1..Len(Actions)
      /\ Actions \in [1..Len(Actions) -> Attached \ {"menu"}]
    BY <1>1, LenProperties
<1>3. Len(Actions) # 0
    BY <1>1, EmptySeq
<1> QED
    BY <1>2, <1>3

LEMMA CurrentIs ==
    ASSUME PlayersTypeOK
    PROVE  /\ Len(list) \in Nat /\ DOMAIN list = 1..Len(list)
           /\ list = <<>> => Current = Nobody /\ cur = 0
           /\ list # <<>> => /\ cur \in 1..Len(list) /\ Current = list[cur]
                             /\ Current \in Players /\ Current \in ToSet(list)
           /\ Current = Nobody <=> list = <<>>
           /\ ToSet(list) \subseteq Players /\ Nobody \notin Players
<1>1. list \in Seq(Players) /\ cur \in 0..Len(list) /\ (cur = 0 <=> list = <<>>)
    BY DEF PlayersTypeOK
<1>2. Len(list) \in Nat /\ DOMAIN list = 1..Len(list) /\ list \in [1..Len(list) -> Players]
    BY <1>1, LenProperties
<1>3. Nobody \notin Players
    BY PlayersAssumption
<1>4. ToSet(list) \subseteq Players
    BY <1>2 DEF ToSet
<1>5. CASE list = <<>>
    <2>1. cur \notin DOMAIN list
        BY <1>1, <1>5
    <2> QED
        BY <1>1, <1>2, <1>3, <1>4, <1>5, <2>1 DEF Current, At
<1>6. CASE list # <<>>
    <2>1. cur \in 1..Len(list)
        BY <1>1, <1>2, <1>6
    <2> QED
        BY <1>2, <1>3, <1>4, <1>6, <2>1 DEF Current, At, ToSet
<1> QED
    BY <1>5, <1>6

LEMMA SameCurrent ==
    ASSUME UNCHANGED <<list, cur>>
    PROVE  Current' = Current /\ ToSet(list)' = ToSet(list)
  BY DEF Current, At, ToSet

\* The types of what changes without the list.
LEMMA PlayersKept ==
    ASSUME PlayersTypeOK, UNCHANGED <<list, cur>>,
           alive' \subseteq Entities, data' \in [Players -> SUBSET Attached],
           item' \in [Players -> DOMAIN Actions], vel' \in [Players -> Directions],
           running' \subseteq Players, selected' \subseteq Players,
           following' \in Players \cup {Nobody}
    PROVE  PlayersTypeOK'
  BY DEF PlayersTypeOK, Entities, Directions

\* The others stand, and who stands does not run.
StandInv ==
    /\ \A p \in Players : vel[p] # Still => p = Current
    /\ \A p \in running : vel[p] # Still

LEMMA RemoveAtSet ==
    ASSUME NEW S, NEW s \in Seq(S), IsInjective(s), NEW l \in Nat, l = Len(s),
           NEW i \in 1..l
    PROVE  /\ IsInjective(RemoveAt(s, i))
           /\ ToSet(RemoveAt(s, i)) = ToSet(s) \ {s[i]}
<1> DEFINE r == RemoveAt(s, i)
<1>1. r \in Seq(S) /\ Len(r) = l - 1
      /\ \A j \in 1..(l - 1) : r[j] = IF j < i THEN s[j] ELSE s[j + 1]
    BY RemoveAtIs
<1> HIDE DEF r
<1>2. DOMAIN r = 1..(l - 1) /\ DOMAIN s = 1..l
    BY <1>1, LenProperties
<1> DEFINE at(j) == IF j < i THEN j ELSE j + 1
<1>3. ASSUME NEW j \in 1..(l - 1)
      PROVE  at(j) \in 1..l /\ at(j) # i /\ r[j] = s[at(j)]
    BY <1>1
<1>4. ASSUME NEW j \in 1..(l - 1), NEW k \in 1..(l - 1), r[j] = r[k]
      PROVE  j = k
    <2>1. at(j) = at(k)
        <3> HIDE DEF at
        <3> QED
            BY <1>2, <1>3, <1>4 DEF IsInjective
    <2> QED
        BY <2>1
<1>5. ASSUME NEW k \in 1..l, k # i
      PROVE  \E j \in 1..(l - 1) : at(j) = k
    <2>1. CASE k < i
        <3>1. k \in 1..(l - 1) /\ at(k) = k
            BY <2>1
        <3> QED
            BY <3>1
    <2>2. CASE ~(k < i)
        <3>1. k - 1 \in 1..(l - 1) /\ at(k - 1) = k
            BY <1>5, <2>2
        <3> QED
            BY <3>1
    <2> QED
        BY <2>1, <2>2
<1> HIDE DEF at
<1>6. ToSet(r) \subseteq ToSet(s) \ {s[i]}
    BY <1>2, <1>3 DEF ToSet, IsInjective
<1>7. ToSet(s) \ {s[i]} \subseteq ToSet(r)
    <2> SUFFICES ASSUME NEW k \in 1..l, s[k] # s[i] PROVE s[k] \in ToSet(r)
        BY <1>2 DEF ToSet
    <2>1. PICK j \in 1..(l - 1) : at(j) = k
        BY <1>5
    <2> QED
        BY <1>2, <1>3, <2>1 DEF ToSet
<1> QED
    BY <1>2, <1>4, <1>6, <1>7 DEF IsInjective, r

\* What does not make the current player move, or mark another.
Steady ==
    /\ \/ vel' = vel
       \/ Current # Nobody /\ Current' # Current /\ vel' = [vel EXCEPT ![Current] = Still]
    /\ selected' \subseteq selected
    /\ Current' = Current \/ Current \notin selected'

\* Nor makes the camera follow another.
Calm ==
    /\ Steady
    /\ following \in {Current, Nobody} => following' \in {Current', Nobody}

PlayersInv == PlayersTypeOK /\ StandInv

\* What is attached to the current player.
LEMMA Attaches ==
    ASSUME PlayersInv, NEW b \in BOOLEAN,
           menu(b) \/ action(b) \/ show_fairy \/ burn_out
    PROVE  PlayersInv' /\ Calm
<1>1. UNCHANGED <<list, cur, vel, running, following, selected>>
    BY DEF menu, action, show_fairy, burn_out, pvars
<1>2. Current' = Current
    BY <1>1, SameCurrent
<1>3. data \in [Players -> SUBSET Attached] /\ item \in [Players -> DOMAIN Actions]
      /\ alive \subseteq Entities /\ (Current # Nobody => Current \in Players)
    BY CurrentIs DEF PlayersInv, PlayersTypeOK
<1>4. ASSUME NEW p \in Players, NEW role \in Attached, Attach(p, role) \/ Detach(p, role)
      PROVE  data' \in [Players -> SUBSET Attached] /\ alive' \subseteq Entities
    BY <1>3, <1>4 DEF Attach, Detach, Of, Entities
<1>5. ASSUME NEW p \in Players, NEW role \in Attached, use(p, role, b)
      PROVE  data' \in [Players -> SUBSET Attached] /\ alive' \subseteq Entities
    BY <1>3, <1>4, <1>5 DEF use
<1>6. "menu" \in Attached /\ "fairy" \in Attached /\ "fire" \in Attached
    BY DEF Attached
<1>7. /\ data' \in [Players -> SUBSET Attached] /\ alive' \subseteq Entities
      /\ item' \in [Players -> DOMAIN Actions]
    <2>1. CASE menu(b)
        <3>1. CASE Current = Nobody
            BY <1>3, <2>1, <3>1 DEF menu
        <3>2. CASE Current # Nobody /\ "menu" \notin data[Current]
            BY <1>3, <1>4, <1>6, <2>1, <3>2 DEF menu
        <3>3. CASE Current # Nobody /\ "menu" \in data[Current]
            <4> DEFINE n == Len(Actions)
            <4>1. n \in Nat /\ n >= 1 /\ DOMAIN Actions = 1..n
                BY ActionsAre
            <4>2. item' = [item EXCEPT ![Current] =
                    ((IF b THEN @ + n - 2 ELSE @) % n) + 1] /\ UNCHANGED <<data, alive>>
                BY <2>1, <3>3 DEF menu
            <4> HIDE DEF n
            <4>3. item[Current] \in 1..n
                BY <1>3, <3>3, <4>1
            <4>4. ASSUME NEW i \in 1..n
                  PROVE  ((IF b THEN i + n - 2 ELSE i) % n) + 1 \in 1..n
                <5>1. (i + n - 2) % n \in 0..(n - 1) /\ i % n \in 0..(n - 1)
                    BY <4>1
                <5> QED
                    BY <4>1, <5>1
            <4> QED
                BY <1>3, <4>1, <4>2, <4>3, <4>4
        <3> QED
            BY <3>1, <3>2, <3>3
    <2>2. CASE action(b)
        <3>1. Current # Nobody => Actions[item[Current]] \in Attached
            BY <1>3, ActionsAre
        <3> QED
            BY <1>3, <1>4, <1>5, <1>6, <2>2, <3>1 DEF action
    <2>3. CASE show_fairy
        BY <1>3, <1>4, <1>6, <2>3 DEF show_fairy, pvars
    <2>4. CASE burn_out
        BY <1>3, <1>4, <1>6, <2>4 DEF burn_out
    <2> QED
        BY <2>1, <2>2, <2>3, <2>4
<1>8. PlayersTypeOK'
    BY <1>1, <1>7, PlayersKept DEF PlayersInv, PlayersTypeOK
<1>9. StandInv'
    BY <1>1, <1>2 DEF PlayersInv, StandInv
<1> QED
    BY <1>1, <1>2, <1>8, <1>9 DEF PlayersInv, Calm, Steady

\* The renderer of the current player, its mark and the camera.
LEMMA Looks ==
    ASSUME PlayersInv, load \/ unselect \/ \E p \in {Current, Nobody} : Follows(p)
    PROVE  PlayersInv' /\ Calm
<1>1. UNCHANGED <<list, cur, data, item, vel, running>> /\ selected' \subseteq selected
    BY DEF load, unselect, Follows
<1>2. Current' = Current
    BY <1>1, SameCurrent
<1>3. Current \in Players \cup {Nobody}
    BY CurrentIs DEF PlayersInv
<1>4. alive' \subseteq Entities
    BY <1>3 DEF load, unselect, Follows, Of, Entities, PlayersInv, PlayersTypeOK
<1>5. following' \in {following, Current, Nobody}
    BY DEF load, unselect, Follows
<1>6. PlayersTypeOK'
    <2>1. data \in [Players -> SUBSET Attached] /\ item \in [Players -> DOMAIN Actions]
          /\ vel \in [Players -> Directions] /\ running \subseteq Players
          /\ selected \subseteq Players /\ following \in Players \cup {Nobody}
        BY DEF PlayersInv, PlayersTypeOK
    <2> QED
        BY <1>1, <1>3, <1>4, <1>5, <2>1, PlayersKept DEF PlayersInv
<1>7. StandInv'
    BY <1>1, <1>2 DEF PlayersInv, StandInv
<1> QED
    BY <1>1, <1>2, <1>5, <1>6, <1>7 DEF PlayersInv, Calm, Steady

LEMMA Adds ==
    ASSUME PlayersInv, add
    PROVE  PlayersInv' /\ Calm
<1>1. PICK p \in Players :
        /\ p \notin ToSet(list) /\ alive' = alive \cup Of(p, {"self"})
        /\ list' = Append(list, p) /\ following' = IF list = <<>> THEN p ELSE following
    BY DEF add
<1>2. cur' = (IF list = <<>> THEN 1 ELSE cur)
      /\ UNCHANGED <<data, item, vel, running, selected>>
    BY DEF add
<1>3. list \in Seq(Players) /\ IsInjective(list)
    BY DEF PlayersInv, PlayersTypeOK
<1>4. PICK l \in Nat : l = Len(list) /\ DOMAIN list = 1..l
    BY <1>3, LenProperties
<1>5. list' \in Seq(Players) /\ Len(list') = l + 1 /\ list'[l + 1] = p
      /\ list' # <<>> /\ \A i \in 1..l : list'[i] = list[i]
    BY <1>1, <1>3, <1>4, AppendProperties
<1>6. DOMAIN list' = 1..(l + 1)
    BY <1>5, LenProperties
<1>7. IsInjective(list')
    <2> SUFFICES ASSUME NEW i \in 1..(l + 1), NEW j \in 1..(l + 1), list'[i] = list'[j]
                 PROVE  i = j
        BY <1>6 DEF IsInjective
    <2>1. \A k \in 1..l : list[k] # p
        BY <1>1, <1>4 DEF ToSet
    <2>2. (i \in 1..l \/ i = l + 1) /\ (j \in 1..l \/ j = l + 1)
        BY <1>4
    <2> QED
        BY <1>3, <1>4, <1>5, <2>1, <2>2 DEF IsInjective
<1>8. cur \in 0..l /\ (cur = 0 <=> list = <<>>)
    BY <1>4 DEF PlayersInv, PlayersTypeOK
<1>9. cur' \in 0..(l + 1) /\ cur' # 0
    BY <1>2, <1>8
<1>10. alive' \subseteq Entities /\ following' \in Players \cup {Nobody}
    BY <1>1 DEF Of, Entities, PlayersInv, PlayersTypeOK
<1>11. PlayersTypeOK'
    BY <1>2, <1>5, <1>7, <1>9, <1>10
       DEF PlayersInv, PlayersTypeOK, Entities, Directions
<1>12. CASE list = <<>>
    <2>1. Current = Nobody /\ Nobody \notin Players
        BY <1>12, CurrentIs DEF PlayersInv
    <2>2. l = 0
        BY <1>4, <1>12
    <2>3. cur' = 1 /\ 1 \in DOMAIN list' /\ list'[1] = p
        BY <1>2, <1>5, <1>6, <1>12, <2>2
    <2>4. Current' = p
        BY <2>3 DEF Current, At
    <2>5. selected \subseteq Players
        BY DEF PlayersInv, PlayersTypeOK
    <2>6. StandInv'
        BY <1>2, <2>1 DEF PlayersInv, StandInv
    <2> QED
        BY <1>1, <1>2, <1>11, <1>12, <2>1, <2>4, <2>5, <2>6 DEF PlayersInv, Calm, Steady
<1>13. CASE list # <<>>
    <2>1. cur \in 1..l /\ cur \in 1..(l + 1) /\ cur' = cur
        BY <1>2, <1>8, <1>13
    <2>2. Current' = Current
        BY <1>4, <1>5, <1>6, <2>1 DEF Current, At
    <2>3. StandInv'
        BY <1>2, <2>2 DEF PlayersInv, StandInv
    <2> QED
        BY <1>1, <1>2, <1>11, <1>13, <2>2, <2>3 DEF PlayersInv, Calm, Steady
<1> QED
    BY <1>12, <1>13

LEMMA Removes ==
    ASSUME PlayersInv, list # <<>>, remove
    PROVE  /\ PlayersInv' /\ Calm
           /\ ToSet(list)' = ToSet(list) \ {Current} /\ Current \in ToSet(list)
<1> DEFINE p == Current
           rest == RemoveAt(list, cur)
<1>1. PICK l \in Nat : l = Len(list) /\ DOMAIN list = 1..l
    BY LenProperties DEF PlayersInv, PlayersTypeOK
<1>2. list \in Seq(Players) /\ IsInjective(list) /\ cur \in 1..l /\ p = list[cur]
      /\ p \in Players /\ p \in ToSet(list)
    BY <1>1, CurrentIs DEF PlayersInv, PlayersTypeOK
<1>3. rest \in Seq(Players) /\ Len(rest) = l - 1 /\ IsInjective(rest)
      /\ ToSet(rest) = ToSet(list) \ {p}
    <2>1. l \in Nat /\ l = Len(list) /\ list \in Seq(Players) /\ cur \in 1..l
          /\ IsInjective(list)
        BY <1>1, <1>2
    <2>2. RemoveAt(list, cur) \in Seq(Players) /\ Len(RemoveAt(list, cur)) = l - 1
        BY <2>1, RemoveAtIs
    <2>3. IsInjective(RemoveAt(list, cur))
          /\ ToSet(RemoveAt(list, cur)) = ToSet(list) \ {list[cur]}
        BY <2>1, RemoveAtSet
    <2> QED
        BY <1>2, <2>2, <2>3
<1>4. /\ alive' \subseteq alive /\ list' = rest /\ following' = Followed(p, rest)
      /\ cur' = IF cur > Len(rest) THEN Len(rest) ELSE cur
      /\ selected' = selected \ {p} /\ data' = [data EXCEPT ![p] = {}]
      /\ item' = [item EXCEPT ![p] = 1] /\ vel' = [vel EXCEPT ![p] = Still]
      /\ running' = running \ {p}
    BY DEF remove
<1> HIDE DEF rest, p
<1>5. DOMAIN rest = 1..(l - 1)
    BY <1>3, LenProperties
<1>6. cur' \in 0..(l - 1) /\ (cur' = 0 <=> l - 1 = 0) /\ l - 1 \in Nat
      /\ (cur \in 1..(l - 1) => cur' = cur)
    BY <1>2, <1>3, <1>4
<1>7. rest = <<>> <=> l - 1 = 0
    BY <1>3, EmptySeq
<1>8. 1 \in DOMAIN Actions /\ Still \in Directions
    BY ActionsAre DEF Still, Directions
<1>9. following' \in Players \cup {Nobody}
    <2>1. \A i \in DOMAIN rest : rest[i] \in Players
        BY <1>3, <1>5, LenProperties
    <2> QED
        BY <1>4, <2>1 DEF Followed, PlayersInv, PlayersTypeOK
<1>10. PlayersTypeOK'
    BY <1>2, <1>3, <1>4, <1>6, <1>7, <1>8, <1>9
       DEF PlayersInv, PlayersTypeOK, Entities, Directions
<1>11. Current' # p /\ (following \in {p, Nobody} => following' \in {Current', Nobody})
    <2>1. Current' = IF cur' \in DOMAIN rest THEN rest[cur'] ELSE Nobody
        BY <1>4 DEF Current, At
    <2>2. Current' # p
        <3>1. Nobody # p
            BY <1>2, CurrentIs DEF PlayersInv
        <3>2. \A i \in DOMAIN rest : rest[i] # p
            BY <1>3 DEF ToSet
        <3> QED
            BY <2>1, <3>1, <3>2
    <2>3. cur \in DOMAIN rest => cur' = cur
        BY <1>5, <1>6
    <2> QED
        BY <1>4, <2>1, <2>2, <2>3 DEF Followed
<1>12. StandInv'
    <2>1. \A q \in Players : vel'[q] # Still => FALSE
        BY <1>2, <1>4 DEF PlayersInv, PlayersTypeOK, StandInv, p
    <2>2. \A q \in running' : q \in Players /\ q # p /\ vel[q] # Still
        BY <1>4 DEF PlayersInv, PlayersTypeOK, StandInv
    <2> QED
        BY <1>2, <2>1, <2>2 DEF StandInv, PlayersInv, p
<1> QED
    <2>1. p # Nobody
        BY <1>2, CurrentIs DEF PlayersInv
    <2>2. ToSet(list)' = ToSet(list')
        BY DEF ToSet
    <2> QED
        BY <1>2, <1>3, <1>4, <1>10, <1>11, <1>12, <2>1, <2>2 DEF PlayersInv, Calm, Steady, p

\* The one before stops.
LEMMA Stopped ==
    ASSUME PlayersInv, stopped(Current)
    PROVE  /\ vel' \in [Players -> Directions] /\ \A p \in Players : vel'[p] = Still
           /\ running' = {}
<1>1. vel \in [Players -> Directions] /\ running \subseteq Players
      /\ (Current = Nobody \/ Current \in Players) /\ Nobody \notin Players
    BY CurrentIs DEF PlayersInv, PlayersTypeOK
<1>2. Still \in Directions
    BY DEF Still, Directions
<1>3. \A p \in Players : vel[p] # Still => p = Current
    BY DEF PlayersInv, StandInv
<1>4. vel' = (IF Current = Nobody THEN vel ELSE [vel EXCEPT ![Current] = Still])
      /\ running' = running \ {Current}
    BY DEF stopped
<1>5. \A p \in running : p = Current
    BY <1>1, <1>3 DEF PlayersInv, StandInv
<1>6. vel' \in [Players -> Directions]
    BY <1>1, <1>2, <1>4
<1>7. ASSUME NEW p \in Players PROVE vel'[p] = Still
    BY <1>1, <1>3, <1>4
<1> QED
    BY <1>4, <1>5, <1>6, <1>7

LEMMA Nexts ==
    ASSUME PlayersInv, next, list # <<>>
    PROVE  /\ PlayersInv' /\ UNCHANGED <<list, data, alive>>
           /\ Current' \in Players /\ vel'[Current'] = Still
           /\ selected' = selected \cup {Current'}
           /\ following' \in {Current', Nobody}
<1> DEFINE l == Len(list)
           i == (cur % l) + 1
<1>1. l \in Nat /\ DOMAIN list = 1..l /\ cur \in 1..l
    BY CurrentIs DEF PlayersInv
<1>2. i \in 1..l
    <2> HIDE DEF l
    <2> QED
        BY <1>1
<1>3. stopped(Current) /\ cur' = i /\ UNCHANGED <<alive, list, data, item>>
      /\ following' = (IF following = Nobody THEN Nobody ELSE list[i])
      /\ selected' = selected \cup {list[i]}
    BY DEF next
<1> HIDE DEF i, l
<1>4. Current' = list[i]
    BY <1>1, <1>2, <1>3 DEF Current, At
<1>5. list[i] \in Players
    BY <1>1, <1>2, LenProperties DEF PlayersInv, PlayersTypeOK
<1>6. vel' \in [Players -> Directions] /\ \A p \in Players : vel'[p] = Still
    BY <1>3, Stopped
<1>7. running' = {}
    BY <1>3, Stopped
<1>8. PlayersTypeOK'
    BY <1>1, <1>2, <1>3, <1>5, <1>6, <1>7
       DEF PlayersInv, PlayersTypeOK, Entities, Directions
<1>9. StandInv'
    BY <1>6, <1>7 DEF StandInv
<1> QED
    BY <1>3, <1>4, <1>5, <1>6, <1>8, <1>9 DEF PlayersInv

LEMMA Stops ==
    ASSUME PlayersInv, stop, following' = Nobody
    PROVE  /\ PlayersInv' /\ UNCHANGED <<list, cur, selected, data, alive>>
           /\ Current' = Current
           /\ Current # Nobody => vel'[Current] = Still
<1>1. stopped(Current) /\ UNCHANGED <<alive, list, cur, data, item, selected>>
    BY DEF stop
<1>2. vel' \in [Players -> Directions] /\ \A p \in Players : vel'[p] = Still
    BY <1>1, Stopped
<1>3. running' = {}
    BY <1>1, Stopped
<1>4. Current' = Current /\ (Current # Nobody => Current \in Players)
    BY <1>1, SameCurrent, CurrentIs DEF PlayersInv
<1>5. PlayersTypeOK'
    BY <1>1, <1>2, <1>3, PlayersKept DEF PlayersInv, PlayersTypeOK
<1>6. StandInv'
    BY <1>2, <1>3 DEF StandInv
<1> QED
    BY <1>1, <1>2, <1>4, <1>5, <1>6 DEF PlayersInv

LEMMA DirectionIs ==
    ASSUME NEW keys
    PROVE  Direction(keys) \in Directions
  BY DEF Direction, Directions

LEMMA Moves ==
    ASSUME PlayersInv, NEW press \in BOOLEAN, NEW keys, move(press, keys)
    PROVE  /\ PlayersInv' /\ UNCHANGED <<list, cur, following, selected, data, alive>>
           /\ Current' = Current
           /\ Current # Nobody => vel'[Current] = Direction(keys)
<1>1. CASE list = <<>>
    <2>1. UNCHANGED pvars /\ Current = Nobody
        BY <1>1, CurrentIs DEF move, PlayersInv
    <2>2. Current' = Current
        BY <2>1, SameCurrent DEF pvars
    <2>3. PlayersTypeOK'
        BY <2>1, PlayersKept DEF pvars, PlayersInv, PlayersTypeOK
    <2> QED
        BY <2>1, <2>2, <2>3 DEF pvars, PlayersInv, StandInv
<1>2. CASE list # <<>>
    <2> DEFINE p == Current
               dir == Direction(keys)
    <2>1. vel' = [vel EXCEPT ![p] = dir] /\ Runs(p, dir, press)
          /\ UNCHANGED <<alive, list, cur, data, item, following, selected>>
        BY <1>2 DEF move
    <2>2. dir \in Directions
        BY DirectionIs
    <2>3. p \in Players /\ vel \in [Players -> Directions] /\ running \subseteq Players
        BY <1>2, CurrentIs DEF PlayersInv, PlayersTypeOK
    <2>4. Current' = p
        BY <2>1, SameCurrent
    <2> HIDE DEF p, dir
    <2>5. \/ running' = IF dir = Still THEN running \ {p} ELSE running
          \/ dir \in Straight /\ running' = running \cup {p}
        BY <2>1 DEF Runs
    <2>6. dir \in Straight => dir # Still
        BY DEF Straight, Still
    <2>7. PlayersTypeOK'
        BY <2>1, <2>2, <2>3, <2>5, PlayersKept DEF PlayersInv, PlayersTypeOK
    <2>8. \A q \in Players : q # p => vel[q] = Still /\ vel'[q] = Still
        BY <2>1, <2>3 DEF PlayersInv, StandInv, p
    <2>9. \A q \in running : q = p
        BY <2>3, <2>8 DEF PlayersInv, StandInv
    <2>10. vel'[p] = dir
        BY <2>1, <2>3
    <2>11. StandInv'
        <3>1. \A q \in running' : vel'[q] # Still
            BY <2>5, <2>6, <2>9, <2>10
        <3> QED
            BY <2>4, <2>8, <3>1 DEF StandInv
    <2> QED
        BY <2>1, <2>4, <2>7, <2>10, <2>11 DEF PlayersInv, p, dir
<1> QED
    BY <1>1, <1>2

LEMMA PlayersRest ==
    ASSUME PlayersInv, UNCHANGED pvars
    PROVE  PlayersInv' /\ Calm
<1>1. Current' = Current
    BY SameCurrent DEF pvars
<1>2. PlayersTypeOK'
    BY PlayersKept DEF pvars, PlayersInv, PlayersTypeOK
<1> QED
    BY <1>1, <1>2 DEF pvars, PlayersInv, StandInv, Calm, Steady

-----------------------------------------------------------------------------
(* The bindings.                                                           *)

LEMMA FunctionIs ==
    ASSUME NEW g \in Groups, NEW e \in Event, Function(g, e) # "none"
    PROVE  \E b \in Bindings :
               b.key = e.key /\ b.group \in {g, "ctrl"} /\ b.f = Function(g, e)
<1> DEFINE found == {b \in Bindings : Matches(b, e)}
           In_(i) == {b \in found : b.group = Chain(g)[i]}
           is == {i \in DOMAIN Chain(g) : In_(i) # {}}
           first == CHOOSE i \in is : \A j \in is : i <= j
           b_ == CHOOSE b \in In_(first) : TRUE
<1>1. Function(g, e) = IF is = {} THEN "none" ELSE b_.f
    BY DEF Function
<1>2. is # {}
    BY <1>1
<1>3. is \subseteq {1, 2} /\ \A i \in DOMAIN Chain(g) : Chain(g)[i] \in {g, "ctrl"}
    BY DEF Chain
<1>4. \E i \in is : \A j \in is : i <= j
    <2> HIDE DEF is
    <2>1. CASE 1 \in is
        BY <1>3, <2>1
    <2>2. CASE 1 \notin is
        <3>1. \A j \in is : j = 2
            BY <1>3, <2>2
        <3>2. 2 \in is /\ 2 <= 2
            BY <1>2, <3>1
        <3> QED
            BY <3>1, <3>2
    <2> QED
        BY <2>1, <2>2
<1>5. first \in is
    <2> HIDE DEF is
    <2> QED
        BY <1>4
<1>6. In_(first) # {} /\ first \in DOMAIN Chain(g)
    <2> HIDE DEF first
    <2> QED
        BY <1>5
<1>7. b_ \in In_(first)
    <2> HIDE DEF first, found
    <2> QED
        BY <1>6
<1>8. b_ \in Bindings /\ Matches(b_, e) /\ b_.group \in {g, "ctrl"}
    <2> HIDE DEF b_, first
    <2> QED
        BY <1>3, <1>6, <1>7
<1> QED
    BY <1>1, <1>2, <1>8 DEF Matches

LEMMA FunctionKeys ==
    ASSUME NEW g \in Groups, NEW e \in Event, NEW f, f = Function(g, e)
    PROVE  /\ e.key \in MoveKeys => f \in {"none", "move", "settings"}
           /\ f = "move" => e.key \in MoveKeys
           /\ f = "next" => e.key = "TAB"
           /\ f \in {"players", "resume"} => e.key = "P"
           /\ f = "players" => g = "input"
           /\ g = "paused" => f \in {"none", "resume", "settings"}
           /\ f # "map"
<1>1. CASE f = "none"
    BY <1>1
<1>2. CASE f # "none"
    <2>1. PICK b \in Bindings : b.key = e.key /\ b.group \in {g, "ctrl"} /\ b.f = f
        BY <1>2, FunctionIs
    <2>2. CASE b \in {Binding("input", key, {}, "move") : key \in MoveKeys}
        BY <2>1, <2>2 DEF Binding, MoveKeys
    <2>3. CASE b \notin {Binding("input", key, {}, "move") : key \in MoveKeys}
        BY <2>1, <2>3 DEF Bindings, Binding, MoveKeys
    <2> QED
        BY <2>2, <2>3
<1> QED
    BY <1>1, <1>2

LEMMA CalledIs ==
    ASSUME InputTypeOK, events # <<>>
    PROVE  /\ Head(events) \in Event
           /\ Called = "map" \/ Called = Function(group, Head(events))
           /\ group \in Groups
<1>1. events \in Seq(Event) /\ group \in Groups
    BY DEF InputTypeOK
<1> QED
    BY <1>1, HeadTailProperties DEF Called

\* The function of P.
LEMMA PlayersIs ==
    ASSUME NEW mods, players(mods)
    PROVE  \/ add
           \/ list # <<>> /\ MayRemove /\ remove
           \/ MayLoad /\ load
           \/ UNCHANGED pvars
  BY DEF players

LEMMA Calls ==
    ASSUME PlayersInv, NEW e \in Event, NEW f, call(f, e)
    PROVE  /\ CASE f = "move" /\ ~(e.key = "S" /\ "ctrl" \in e.mods) -> move(e.press, held)
                [] f = "next" /\ e.press -> next
                [] OTHER -> PlayersInv' /\ Calm
           /\ f = "next" /\ ~e.press => selected' = selected \ {Current}
<1>1. e.press \in BOOLEAN
    BY DEF Event
<1>2. CASE f = "move"
    BY <1>2, PlayersRest DEF call
<1>3. CASE f = "next"
    BY <1>3, Looks DEF call, unselect
<1>4. CASE f = "follow"
    BY <1>4, Looks, PlayersRest DEF call, toggle_follow
<1>5. CASE f = "menu"
    <2>1. menu("shift" \in e.mods) /\ ("shift" \in e.mods) \in BOOLEAN
        BY <1>5 DEF call
    <2> QED
        BY <1>5, <2>1, Attaches
<1>6. CASE f = "action"
    <2>1. action(e.press)
        BY <1>6 DEF call
    <2> QED
        BY <1>1, <1>6, <2>1, Attaches
<1>7. CASE f = "camera"
    BY <1>7, Looks, PlayersRest DEF call, move_camera
<1>8. CASE f = "players"
    <2>1. players(e.mods)
        BY <1>8 DEF call
    <2>2. PlayersInv' /\ Calm
        BY <2>1, PlayersIs, Adds, Removes, Looks, PlayersRest
    <2> QED
        BY <1>8, <2>2
<1>9. CASE f \in {"none", "map", "settings", "resume"}
    BY <1>9, PlayersRest DEF call
<1> QED
    BY <1>2, <1>3, <1>4, <1>5, <1>6, <1>7, <1>8, <1>9 DEF call

-----------------------------------------------------------------------------
(* Types.                                                                  *)

SavedStates == [setting : Maps \cup {None}, follow : Players \cup {Nobody}]

TypeInv ==
    /\ PlayersInv /\ MapsTypeOK /\ GameTypeOK
    /\ saved \in SavedStates \cup {None}

LEMMA UsersAre ==
    ASSUME TypeInv
    PROVE  user.keys \subseteq Event /\ user.maps \subseteq Maps
<1>1. user \in Users
    BY DEF TypeInv, GameTypeOK
<1>2. user \in [keys : SUBSET Event, players : Nat, maps : SUBSET Maps]
    BY <1>1, GameAssumption
<1> QED
    BY <1>2

LEMMA SceneIs ==
    /\ Over = 7 /\ NotYet = 0 /\ Len(Scene) = 6
    /\ Scene[1] = "pause" /\ Scene[2] = "save" /\ Scene[3] = "stop"
    /\ Scene[4] = "play" /\ Scene[5] = "restore" /\ Scene[6] = "resume"
  BY DEF Over, NotYet, Scene

\* The camera goes to another entity.
LEMMA Refollows ==
    ASSUME PlayersInv, NEW p \in Players \cup {Nobody}, Follows(p)
    PROVE  PlayersInv'
<1>1. UNCHANGED <<alive, list, cur, data, item, vel, running, selected>> /\ following' = p
    BY DEF Follows
<1>2. Current' = Current
    BY <1>1, SameCurrent
<1>3. PlayersTypeOK'
    BY <1>1, PlayersKept DEF PlayersInv, PlayersTypeOK
<1> QED
    BY <1>1, <1>2, <1>3 DEF PlayersInv, StandInv

LEMMA RestoredFollowIs ==
    ASSUME TypeInv
    PROVE  /\ following \in Players \cup {Nobody}
           /\ RestoredFollow(following) \in Players \cup {Nobody}
<1>1. following \in Players \cup {Nobody} /\ saved \in SavedStates \cup {None}
    BY DEF TypeInv, PlayersInv, PlayersTypeOK
<1>2. saved # None => saved.follow \in Players \cup {Nobody}
    BY <1>1 DEF SavedStates
<1> QED
    BY <1>1, <1>2 DEF RestoredFollow

\* The scheduler and collisions.
LEMMA Elsewhere ==
    ASSUME TypeInv, read_map \/ update \/ fire_hits
    PROVE  /\ PlayersInv' /\ Current' = Current
           /\ UNCHANGED <<list, cur, selected, events, held, marked, user>>
           /\ \/ UNCHANGED <<vel, seen>>
              \/ seen' = "nothing" /\ (Current # Nobody => vel'[Current] = Still)
<1>1. PlayersInv /\ kept \in Players \cup {Nobody}
    BY DEF TypeInv, GameTypeOK
<1>2. CASE read_map
    <2>1. UNCHANGED <<ivars, hvars, user>> /\ UNCHANGED <<list, cur, selected, vel>>
        BY <1>2 DEF read_map, Follows, pvars
    <2>2. PlayersInv'
        BY <1>1, <1>2, RestoredFollowIs, Refollows, PlayersRest DEF read_map
    <2> QED
        BY <2>1, <2>2, SameCurrent DEF ivars, hvars
<1>3. CASE fire_hits
    <2>1. UNCHANGED <<ivars, hvars, user>> /\ UNCHANGED <<list, cur, selected, vel>>
        BY <1>3 DEF fire_hits, burn_out, gvars
    <2>2. PlayersInv'
        BY <1>1, <1>3, Attaches DEF fire_hits
    <2> QED
        BY <2>1, <2>2, SameCurrent DEF ivars, hvars
<1>4. CASE update
    <2>1. CASE UNCHANGED <<pvars, ivars, hvars, scene, kept>>
        BY <1>1, <1>4, <2>1, PlayersRest, SameCurrent DEF update, pvars, ivars, hvars
    <2>2. CASE Playing /\ play
        <3> DEFINE step == Scene[scene]
        <3>1. CASE step = "stop"
            <4>1. stop /\ following' = Nobody /\ UNCHANGED <<ivars, marked>>
                  /\ seen' = "nothing"
                BY <2>2, <3>1 DEF play
            <4> QED
                BY <1>1, <1>4, <4>1, Stops DEF ivars, update
        <3>2. CASE step = "restore"
            <4>1. Follows(kept) /\ UNCHANGED <<ivars, hvars>>
                BY <2>2, <3>2 DEF play
            <4> QED
                BY <1>1, <1>4, <4>1, Refollows, SameCurrent DEF Follows, ivars, hvars, update
        <3>3. CASE step = "play"
            <4>1. show_fairy /\ UNCHANGED <<ivars, hvars>>
                BY <2>2, <3>3 DEF play
            <4>2. PlayersInv'
                BY <1>1, <4>1, Attaches
            <4> QED
                BY <1>4, <4>1, <4>2, SameCurrent DEF show_fairy, pvars, ivars, hvars, update
        <3>4. CASE step \in {"pause", "save", "resume"}
            <4>1. UNCHANGED <<pvars, hvars, events, held>>
                BY <2>2, <3>4 DEF play, pause, resume, ivars
            <4> QED
                BY <1>1, <1>4, <4>1, PlayersRest, SameCurrent DEF pvars, hvars, update
        <3>5. scene \in 1..6
            BY <2>2, SceneIs DEF TypeInv, GameTypeOK, Playing
        <3> QED
            BY <3>1, <3>2, <3>3, <3>4, <3>5, SceneIs
    <2> QED
        BY <1>4, <2>1, <2>2 DEF update
<1> QED
    BY <1>2, <1>3, <1>4

LEMMA MapsStep ==
    ASSUME TypeInv,
           \/ \E m \in Maps : next_map(m)
           \/ load_map(following) \/ init_fails \/ load_fails
           \/ UNCHANGED mvars
    PROVE  MapsTypeOK' /\ saved' \in SavedStates \cup {None}
<1>1. {map, beat, setting, theirs} \subseteq Maps \cup {None}
      /\ things \subseteq Maps /\ beats \subseteq Maps /\ saved \in SavedStates \cup {None}
    BY DEF TypeInv, MapsTypeOK
<1>2. loads \in Seq(Maps) /\ Len(loads) <= MaxLoads /\ Len(loads) \in Nat /\ MaxLoads \in Nat
    BY LenProperties, MapsAssumption DEF TypeInv, MapsTypeOK
<1>3. following \in Players \cup {Nobody} /\ RestoredFollow(following) \in Players \cup {Nobody}
    BY RestoredFollowIs
<1>4. HasState \subseteq Maps /\ HasBeat \subseteq Maps
    BY MapsAssumption
<1>5. Restored \in Maps \cup {None}
    <2>1. saved # None => saved.setting \in Maps \cup {None}
        BY <1>1 DEF SavedStates
    <2> QED
        BY <1>1, <2>1 DEF Restored
<1>6. ASSUME loads # <<>>, loads' = Tail(loads)
      PROVE  Head(loads) \in Maps /\ loads' \in Seq(Maps) /\ Len(loads') <= MaxLoads
    <2>1. Head(loads) \in Maps /\ Tail(loads) \in Seq(Maps)
          /\ Len(Tail(loads)) = Len(loads) - 1
        BY <1>2, <1>6, HeadTailProperties
    <2> QED
        BY <1>2, <1>6, <2>1
<1>7. CASE \E m \in Maps : next_map(m)
    <2>1. PICK m \in Maps : next_map(m)
        BY <1>7
    <2>2. Len(loads) < MaxLoads /\ loads' = Append(loads, m) /\ beats' = beats \ {beat}
          /\ beat' = None /\ UNCHANGED <<map, things, theirs, setting, saved>>
        BY <2>1 DEF next_map
    <2>3. loads' \in Seq(Maps) /\ Len(loads') = Len(loads) + 1
        BY <1>2, <2>2, AppendProperties
    <2>4. Len(loads') <= MaxLoads
        BY <1>2, <2>2, <2>3
    <2> QED
        BY <1>1, <2>2, <2>3, <2>4 DEF MapsTypeOK, SavedStates
<1>8. CASE load_map(following)
    <2> DEFINE m == Head(loads)
    <2>1. m \in Maps /\ loads' \in Seq(Maps) /\ Len(loads') <= MaxLoads
        BY <1>6, <1>8 DEF load_map
    <2>2. /\ map' = m /\ theirs' = m /\ things' \subseteq things \cup {m}
          /\ beats' \subseteq beats \cup {m} /\ beat' \in {m, None}
          /\ setting' \in {m, Restored}
          /\ saved' \in {[setting |-> Restored, follow |-> RestoredFollow(following)], None}
        BY <1>8 DEF load_map
    <2>3. saved' \in SavedStates \cup {None}
        BY <1>3, <1>5, <2>2 DEF SavedStates
    <2> HIDE DEF m
    <2> QED
        BY <1>1, <1>5, <2>1, <2>2, <2>3 DEF MapsTypeOK
<1>9. CASE init_fails
    <2>1. Head(loads) \in Maps /\ loads' \in Seq(Maps) /\ Len(loads') <= MaxLoads
        BY <1>6, <1>9 DEF init_fails
    <2>2. /\ map' = map /\ theirs' = None /\ things' \subseteq things \cup {Head(loads)}
          /\ beats' \subseteq beats /\ beat' = None
          /\ setting' \in {Head(loads), Restored} /\ saved' = None
        BY <1>9 DEF init_fails
    <2> QED
        BY <1>1, <1>5, <2>1, <2>2 DEF MapsTypeOK
<1>10. CASE load_fails
    <2>1. loads' \in Seq(Maps) /\ Len(loads') <= MaxLoads
        BY <1>6, <1>10 DEF load_fails
    <2> QED
        BY <1>1, <1>10, <2>1 DEF load_fails, MapsTypeOK, SavedStates
<1>11. CASE UNCHANGED mvars
    BY <1>1, <1>2, <1>11 DEF mvars, MapsTypeOK, SavedStates
<1> QED
    BY <1>7, <1>8, <1>9, <1>10, <1>11

\* An event is collected.
LEMMA Collects ==
    ASSUME InputTypeOK, NEW e \in Event, key_event(e)
    PROVE  /\ InputTypeOK' /\ UNCHANGED <<group, prev>>
           /\ Len(events') = Len(events) + 1 /\ events'[Len(events) + 1] = e
           /\ \A i \in 1..Len(events) : events'[i] = events[i]
           /\ events \in Seq(Event) /\ events' \in Seq(Event)
<1>1. /\ Len(events) < MaxEvents /\ events' = Append(events, e)
      /\ UNCHANGED <<group, prev>>
      /\ held' = IF e.press THEN held \cup ({e.key} \cap Holdable)
                 ELSE held \ {e.key}
    BY DEF key_event
<1>2. events \in Seq(Event) /\ held \subseteq Holdable /\ {group, prev} \subseteq Groups
    BY DEF InputTypeOK
<1>3. events' \in Seq(Event) /\ Len(events') = Len(events) + 1
      /\ events'[Len(events) + 1] = e /\ \A i \in 1..Len(events) : events'[i] = events[i]
    BY <1>1, <1>2, AppendProperties
<1>4. held' \subseteq Holdable
    BY <1>1, <1>2
<1>5. Len(events') <= MaxEvents
    BY <1>1, <1>2, <1>3, LenProperties, InputAssumption
<1> QED
    BY <1>1, <1>2, <1>3, <1>4, <1>5 DEF InputTypeOK

\* The first event is handled.
LEMMA Handles ==
    ASSUME TypeInv, key_callback
    PROVE  /\ events \in Seq(Event) /\ events # <<>> /\ Head(events) = events[1]
           /\ events' \in Seq(Event) /\ Len(events) >= 1 /\ Len(events') = Len(events) - 1
           /\ \A i \in 1..(Len(events) - 1) : events'[i] = events[i + 1]
           /\ Head(events) \in Event
           /\ held' = held /\ InputTypeOK' /\ PlayersInv'
<1>1. InputTypeOK /\ events # <<>> /\ events' = Tail(events) /\ PlayersInv
    BY DEF key_callback, TypeInv, GameTypeOK
<1>2. events \in Seq(Event) /\ held \subseteq Holdable /\ {group, prev} \subseteq Groups
      /\ Len(events) <= MaxEvents
    BY <1>1 DEF InputTypeOK
<1>3. Tail(events) \in Seq(Event) /\ Len(Tail(events)) = Len(events) - 1
      /\ Head(events) \in Event
      /\ \A i \in 1..Len(Tail(events)) : Tail(events)[i] = events[i + 1]
    BY <1>1, <1>2, HeadTailProperties
<1>4. Len(events) # 0 /\ Len(events) \in Nat /\ Len(events) >= 1
    BY <1>1, <1>2, EmptySeq, LenProperties
<1>5. Head(events) = events[1]
    BY <1>2
<1>6. held' = held /\ {group', prev'} \subseteq Groups
    <2>1. "paused" \in Groups
        BY DEF Groups
    <2> QED
        BY <1>2, <2>1 DEF key_callback, pause, resume
<1>7. Len(events') <= MaxEvents
    BY <1>1, <1>2, <1>3, <1>4, InputAssumption
<1>8. PlayersInv'
    <2> DEFINE e == Head(events)
               f == Called
    <2>1. call(f, e) /\ e \in Event
        BY <1>3 DEF key_callback
    <2> HIDE DEF e, f
    <2>2. e.press \in BOOLEAN
        BY <2>1 DEF Event
    <2>3. CASE f = "move" /\ ~(e.key = "S" /\ "ctrl" \in e.mods)
        BY <1>1, <2>1, <2>2, <2>3, Calls, Moves
    <2>4. CASE f = "next" /\ e.press
        <3>1. next
            BY <1>1, <2>1, <2>4, Calls
        <3>2. CASE list = <<>>
            BY <1>1, <3>1, <3>2, PlayersRest DEF next
        <3> QED
            BY <1>1, <3>1, <3>2, Nexts
    <2>5. CASE ~(f = "move" /\ ~(e.key = "S" /\ "ctrl" \in e.mods)) /\ ~(f = "next" /\ e.press)
        BY <1>1, <2>1, <2>5, Calls
    <2> QED
        BY <2>3, <2>4, <2>5
<1> QED
    BY <1>1, <1>2, <1>3, <1>4, <1>5, <1>6, <1>7, <1>8 DEF InputTypeOK

LEMMA InitTypes == Init => TypeInv
<1> SUFFICES ASSUME Init PROVE TypeInv
    OBVIOUS
<1>1. PlayersTypeOK
    <2>1. 1 \in DOMAIN Actions /\ Still \in Directions
        BY ActionsAre DEF Still, Directions
    <2> QED
        BY <2>1 DEF Init, PlayersInit, PlayersTypeOK, IsInjective
<1>2. StandInv
    BY DEF Init, PlayersInit, StandInv
<1>3. InputTypeOK
    BY InputAssumption DEF Init, InputInit, InputTypeOK, Groups
<1>4. MapsTypeOK /\ saved = None
    BY MapsAssumption DEF Init, MapsInit, MapsTypeOK
<1>5. GameTypeOK
    <2>1. user \in Users /\ phase = "user" /\ scene = NotYet /\ kept = Nobody
          /\ seen = "nothing" /\ marked = FALSE
        BY DEF Init
    <2>2. scene \in NotYet..Over
        BY <2>1, SceneIs
    <2> QED
        BY <1>3, <2>1, <2>2 DEF GameTypeOK
<1> QED
    BY <1>1, <1>2, <1>4, <1>5 DEF TypeInv, PlayersInv

LEMMA StepTypes ==
    ASSUME TypeInv, [Next]_vars
    PROVE  TypeInv'
<1>1. PlayersInv /\ MapsTypeOK /\ GameTypeOK /\ InputTypeOK
    BY DEF TypeInv, GameTypeOK
<1>2. ASSUME UNCHANGED ivars PROVE InputTypeOK'
    BY <1>1, <1>2 DEF ivars, InputTypeOK, Event, Keys, Holdable, MoveKeys, Groups
<1>3. ASSUME InputTypeOK', PlayersInv', MapsTypeOK', saved' \in SavedStates \cup {None},
             user' = user, phase' \in {"user", "input", "update"},
             scene' \in NotYet..Over, kept' \in Players \cup {Nobody},
             seen' \in {"keys", "nothing", "wrong"}, marked' \in BOOLEAN
      PROVE  TypeInv'
    BY <1>1, <1>3 DEF TypeInv, GameTypeOK, SavedStates
<1>4. /\ user \in Users /\ phase \in {"user", "input", "update"}
      /\ scene \in NotYet..Over /\ kept \in Players \cup {Nobody}
      /\ seen \in {"keys", "nothing", "wrong"} /\ marked \in BOOLEAN
    BY <1>1 DEF GameTypeOK
<1>5. CASE press_or_release
    <2>1. UNCHANGED <<pvars, mvars, gvars, hvars>> /\ \E e \in Event : key_event(e)
        BY <1>5, UsersAre DEF press_or_release
    <2>2. InputTypeOK'
        BY <1>1, <2>1, Collects
    <2>3. PlayersInv' /\ MapsTypeOK' /\ saved' \in SavedStates \cup {None}
        BY <1>1, <2>1, PlayersRest, MapsStep
    <2> QED
        BY <1>3, <1>4, <2>1, <2>2, <2>3 DEF gvars, hvars
<1>6. CASE poll_events \/ end_frame \/ UNCHANGED vars
    <2>1. UNCHANGED <<pvars, ivars, mvars, user, scene, kept, hvars>>
          /\ phase' \in {"user", "input", "update"}
        BY <1>4, <1>6 DEF poll_events, end_frame, vars, gvars
    <2>2. InputTypeOK' /\ PlayersInv' /\ MapsTypeOK' /\ saved' \in SavedStates \cup {None}
        BY <1>1, <1>2, <2>1, PlayersRest, MapsStep
    <2> QED
        BY <1>3, <1>4, <2>1, <2>2 DEF hvars
<1>7. CASE key_callback
    <2>1. UNCHANGED <<mvars, gvars>> /\ marked' \in BOOLEAN
        BY <1>7 DEF key_callback
    <2>2. seen' \in {"keys", "nothing", "wrong"}
        BY <1>4, <1>7 DEF key_callback, Seen
    <2>3. InputTypeOK' /\ PlayersInv'
        BY <1>7, Handles
    <2>4. MapsTypeOK' /\ saved' \in SavedStates \cup {None}
        BY <2>1, MapsStep
    <2> QED
        BY <1>3, <1>4, <2>1, <2>2, <2>3, <2>4 DEF gvars
<1>8. CASE read_map
    <2>1. UNCHANGED <<ivars, user, phase, kept, hvars>> /\ scene' \in {scene, NotYet}
          /\ (load_map(following) \/ init_fails \/ load_fails)
        BY <1>8 DEF read_map
    <2>2. MapsTypeOK' /\ saved' \in SavedStates \cup {None}
        BY <2>1, MapsStep
    <2>3. PlayersInv'
        BY <1>8, Elsewhere
    <2>4. scene' \in NotYet..Over
        BY <1>4, <2>1, SceneIs
    <2> QED
        BY <1>2, <1>3, <1>4, <2>1, <2>2, <2>3, <2>4 DEF hvars
<1>9. CASE update
    <2>1. UNCHANGED <<mvars, user>> /\ phase' = "update" /\ UNCHANGED <<events, held, marked>>
        BY <1>9, Elsewhere DEF update
    <2>2. PlayersInv'
        BY <1>9, Elsewhere
    <2>3. MapsTypeOK' /\ saved' \in SavedStates \cup {None}
        BY <2>1, MapsStep
    <2>4. InputTypeOK' /\ scene' \in NotYet..Over /\ kept' \in Players \cup {Nobody}
          /\ seen' \in {"keys", "nothing", "wrong"}
        <3>1. CASE UNCHANGED <<pvars, ivars, hvars, scene, kept>>
            BY <1>2, <1>4, <3>1 DEF hvars
        <3>2. CASE Playing /\ play
            <4>1. scene \in 1..6 /\ scene' = scene + 1 /\ scene' \in NotYet..Over
                BY <1>4, <3>2, SceneIs DEF Playing, play
            <4>2. Scene[scene] \in {"pause", "save", "stop", "play", "restore", "resume"}
                BY <4>1, SceneIs
            <4>3. kept' \in {kept, following, Nobody} /\ seen' \in {seen, "nothing"}
                  /\ {group', prev'} \subseteq {group, prev, "paused"}
                BY <3>2, <4>2 DEF play, pause, resume, ivars, hvars
            <4>4. following \in Players \cup {Nobody}
                BY <1>1 DEF PlayersInv, PlayersTypeOK
            <4>5. InputTypeOK'
                BY <1>1, <2>1, <4>3 DEF InputTypeOK, Groups, Event, Keys, Holdable, MoveKeys
            <4> QED
                BY <1>4, <4>1, <4>3, <4>4, <4>5
        <3> QED
            BY <1>9, <3>1, <3>2 DEF update
    <2> QED
        BY <1>3, <1>4, <2>1, <2>2, <2>3, <2>4
<1>10. CASE warp
    <2>1. UNCHANGED <<pvars, ivars, gvars, hvars>> /\ \E m \in Maps : next_map(m)
        BY <1>10, UsersAre DEF warp
    <2>2. InputTypeOK' /\ PlayersInv' /\ MapsTypeOK' /\ saved' \in SavedStates \cup {None}
        BY <1>1, <1>2, <2>1, PlayersRest, MapsStep
    <2> QED
        BY <1>3, <1>4, <2>1, <2>2 DEF gvars, hvars
<1>11. CASE begin_scene
    <2>1. UNCHANGED <<pvars, ivars, mvars, user, phase, kept, hvars>> /\ scene' = NotYet + 1
        BY <1>11 DEF begin_scene
    <2>2. InputTypeOK' /\ PlayersInv' /\ MapsTypeOK' /\ saved' \in SavedStates \cup {None}
        BY <1>1, <1>2, <2>1, PlayersRest, MapsStep
    <2>3. scene' \in NotYet..Over
        BY <2>1, SceneIs
    <2> QED
        BY <1>3, <1>4, <2>1, <2>2, <2>3 DEF hvars
<1>12. CASE fire_hits
    <2>1. UNCHANGED <<ivars, mvars, gvars, hvars>> /\ PlayersInv'
        BY <1>12, Elsewhere DEF fire_hits
    <2>2. MapsTypeOK' /\ saved' \in SavedStates \cup {None}
        BY <2>1, MapsStep
    <2> QED
        BY <1>2, <1>3, <1>4, <2>1, <2>2 DEF gvars, hvars
<1> QED
    BY <1>5, <1>6, <1>7, <1>8, <1>9, <1>10, <1>11, <1>12 DEF Next

-----------------------------------------------------------------------------
(* The current player and the keys.                                        *)

\* The current player is to be told of the keys, by an event that is in the queue,
\* if it does not move as they say.
SteerInv ==
    Current # Nobody =>
        /\ seen = "keys" =>
            \/ vel[Current] = Direction(held)
            \/ \E i \in DOMAIN events : events[i].key \in MoveKeys
        /\ seen = "nothing" => vel[Current] = Still

LEMMA SameDirection ==
    ASSUME NEW k1, NEW k2, \A k \in MoveKeys : k \in k1 <=> k \in k2
    PROVE  Direction(k1) = Direction(k2)
  BY DEF Direction, MoveKeys

\* What key_callback() does to the current player and to marks, in three cases.
LEMMA Responds ==
    ASSUME TypeInv, key_callback, NEW e, e = Head(events), NEW f, f = Called
    PROVE  /\ e \in Event
           /\ \/ /\ f = "move" /\ e.key \in MoveKeys
                 /\ ~(e.key = "S" /\ "ctrl" \in e.mods)
                 /\ UNCHANGED <<list, cur, following, selected>> /\ Current' = Current
                 /\ Current # Nobody => vel'[Current] = Direction(held)
              \/ /\ f = "next" /\ e.key = "TAB" /\ e.press
                 /\ IF list = <<>> THEN UNCHANGED pvars /\ Current = Nobody /\ Current' = Nobody
                    ELSE /\ Current' \in Players /\ vel'[Current'] = Still
                         /\ selected' = selected \cup {Current'}
                         /\ following' \in {Current', Nobody}
              \/ /\ ~(f = "move" /\ ~(e.key = "S" /\ "ctrl" \in e.mods))
                 /\ ~(f = "next" /\ e.press)
                 /\ Calm
                 /\ f = "next" => selected' = selected \ {Current}
<1>1. call(f, e) /\ events # <<>> /\ PlayersInv /\ InputTypeOK
    BY DEF key_callback, TypeInv, GameTypeOK
<1>2. e \in Event /\ group \in Groups /\ (f = "map" \/ f = Function(group, e))
    BY <1>1, CalledIs
<1>3. e.press \in BOOLEAN
    BY <1>2 DEF Event
<1>4. (f = "move" => e.key \in MoveKeys) /\ (f = "next" => e.key = "TAB")
    BY <1>2, FunctionKeys
<1>5. CASE f = "move" /\ ~(e.key = "S" /\ "ctrl" \in e.mods)
    <2>1. move(e.press, held)
        BY <1>1, <1>2, <1>5, Calls
    <2> QED
        BY <1>1, <1>2, <1>3, <1>4, <1>5, <2>1, Moves
<1>6. CASE f = "next" /\ e.press
    <2>1. next
        BY <1>1, <1>2, <1>6, Calls
    <2>2. CASE list = <<>>
        <3>1. UNCHANGED pvars /\ Current = Nobody
            BY <1>1, <2>1, <2>2, CurrentIs DEF next, PlayersInv
        <3>2. Current' = Nobody
            BY <3>1, SameCurrent DEF pvars
        <3> QED
            BY <1>2, <1>4, <1>6, <2>2, <3>1, <3>2
    <2>3. CASE list # <<>>
        BY <1>1, <1>2, <1>4, <1>6, <2>1, <2>3, Nexts
    <2> QED
        BY <2>2, <2>3
<1>7. CASE ~(f = "move" /\ ~(e.key = "S" /\ "ctrl" \in e.mods)) /\ ~(f = "next" /\ e.press)
    BY <1>1, <1>2, <1>3, <1>7, Calls
<1> QED
    BY <1>5, <1>6, <1>7

LEMMA SteersOn ==
    ASSUME TypeInv, SteerInv, key_callback
    PROVE  SteerInv'
<1> DEFINE e == Head(events)
           f == Called
<1>1. /\ events \in Seq(Event) /\ Head(events) = events[1]
      /\ events' \in Seq(Event) /\ Len(events) >= 1 /\ Len(events') = Len(events) - 1
      /\ \A i \in 1..(Len(events) - 1) : events'[i] = events[i + 1]
      /\ held' = held /\ PlayersInv'
    BY Handles
<1>2. seen' = (IF list' = <<>> THEN "nothing" ELSE Seen(f, e))
    BY DEF key_callback
<1>3. PlayersTypeOK' /\ PlayersInv /\ PlayersTypeOK
    BY <1>1 DEF PlayersInv, TypeInv
<1>4. Current' # Nobody => list' # <<>> /\ Current' \in Players
    <2>1. list' \in Seq(Players) /\ cur' \in 0..Len(list') /\ (cur' = 0 <=> list' = <<>>)
        BY <1>3 DEF PlayersTypeOK
    <2>2. list' \in [1..Len(list') -> Players] /\ Len(list') \in Nat
        BY <2>1, LenProperties
    <2>3. ASSUME Current' # Nobody PROVE cur' \in DOMAIN list' /\ Current' = list'[cur']
        BY <2>3 DEF Current, At
    <2> QED
        BY <2>1, <2>2, <2>3
<1>5. \/ /\ f = "move" /\ e.key \in MoveKeys
         /\ ~(e.key = "S" /\ "ctrl" \in e.mods)
         /\ Current' = Current
         /\ Current # Nobody => vel'[Current] = Direction(held)
      \/ /\ f = "next" /\ e.key = "TAB" /\ e.press
         /\ IF list = <<>> THEN Current' = Nobody
            ELSE vel'[Current'] = Still
      \/ /\ ~(f = "move" /\ ~(e.key = "S" /\ "ctrl" \in e.mods))
         /\ ~(f = "next" /\ e.press)
         /\ Steady
    BY Responds DEF Calm
<1> SUFFICES ASSUME Current' # Nobody
             PROVE  /\ seen' = "keys" =>
                        \/ vel'[Current'] = Direction(held')
                        \/ \E i \in DOMAIN events' : events'[i].key \in MoveKeys
                    /\ seen' = "nothing" => vel'[Current'] = Still
    BY DEF SteerInv
<1>6. seen' = Seen(f, e) /\ Current' \in Players
    BY <1>2, <1>4
<1>7. e = events[1]
    BY <1>1
<1> HIDE DEF e, f
<1>8. CASE f = "move" /\ e.key \in MoveKeys /\ ~(e.key = "S" /\ "ctrl" \in e.mods)
           /\ Current' = Current /\ (Current # Nobody => vel'[Current] = Direction(held))
    <2>1. seen' = "keys"
        BY <1>6, <1>8 DEF Seen
    <2> QED
        BY <1>1, <1>8, <2>1
<1>9. CASE f = "next" /\ e.key = "TAB" /\ e.press
           /\ IF list = <<>> THEN Current' = Nobody ELSE vel'[Current'] = Still
    <2>1. seen' = "nothing"
        BY <1>6, <1>9 DEF Seen, MoveKeys
    <2> QED
        BY <1>9, <2>1
<1>10. CASE /\ ~(f = "move" /\ ~(e.key = "S" /\ "ctrl" \in e.mods))
            /\ ~(f = "next" /\ e.press)
            /\ Steady
    <2>1. CASE Current' # Current
        <3>1. vel[Current'] = Still /\ vel \in [Players -> Directions]
            BY <1>3, <1>6, <2>1 DEF PlayersInv, StandInv, PlayersTypeOK
        <3>2. vel'[Current'] = Still
            BY <1>6, <1>10, <2>1, <3>1 DEF Steady
        <3>3. seen' # "keys"
            BY <1>6, <1>10, <2>1 DEF Seen
        <3> QED
            BY <3>2, <3>3
    <2>2. CASE Current' = Current
        <3>1. vel' = vel
            BY <1>10, <2>2 DEF Steady
        <3>2. CASE e.key \in MoveKeys
            <4>1. seen' = IF seen = "keys" THEN "wrong" ELSE seen
                BY <1>6, <1>10, <3>2 DEF Seen
            <4> QED
                BY <2>2, <3>1, <4>1 DEF SteerInv
        <3>3. CASE e.key \notin MoveKeys
            <4>1. seen' = seen
                BY <1>6, <1>10, <2>2, <3>3 DEF Seen
            <4>2. ASSUME NEW i \in DOMAIN events, events[i].key \in MoveKeys
                  PROVE  \E j \in DOMAIN events' : events'[j].key \in MoveKeys
                <5>1. i \in 1..Len(events) /\ DOMAIN events' = 1..Len(events')
                      /\ Len(events) \in Nat
                    BY <1>1, LenProperties
                <5>2. i # 1
                    BY <1>7, <3>3, <4>2
                <5>3. i - 1 \in 1..(Len(events) - 1) /\ (i - 1) + 1 = i
                    BY <5>1, <5>2
                <5>4. i - 1 \in DOMAIN events' /\ events'[i - 1] = events[i]
                    BY <1>1, <5>1, <5>3
                <5> QED
                    BY <4>2, <5>4
            <4> QED
                BY <1>1, <2>2, <3>1, <4>1, <4>2 DEF SteerInv
        <3> QED
            BY <3>2, <3>3
    <2> QED
        BY <2>1, <2>2
<1> QED
    BY <1>5, <1>8, <1>9, <1>10 DEF e, f

\* What is between two frames, and leaves the players and the keys alone.
Rests == warp \/ begin_scene \/ end_frame \/ poll_events \/ UNCHANGED vars

LEMMA RestsAre ==
    ASSUME Rests
    PROVE  UNCHANGED <<pvars, ivars, hvars, user>> /\ Current' = Current
<1>1. UNCHANGED <<pvars, ivars, hvars, user>>
    BY DEF Rests, warp, begin_scene, end_frame, poll_events, vars, gvars
<1> QED
    BY <1>1, SameCurrent DEF pvars

LEMMA SteerStep ==
    ASSUME TypeInv, SteerInv, [Next]_vars
    PROVE  SteerInv'
<1>1. CASE press_or_release
    <2>1. PICK e \in Event : key_event(e)
        BY <1>1, UsersAre DEF press_or_release
    <2>2. UNCHANGED <<pvars, hvars>> /\ InputTypeOK
        BY <1>1 DEF press_or_release, TypeInv, GameTypeOK
    <2>3. /\ events \in Seq(Event) /\ events' \in Seq(Event)
          /\ Len(events') = Len(events) + 1 /\ events'[Len(events) + 1] = e
          /\ \A i \in 1..Len(events) : events'[i] = events[i]
        BY <2>1, <2>2, Collects
    <2>4. DOMAIN events = 1..Len(events) /\ DOMAIN events' = 1..(Len(events) + 1)
          /\ Len(events) \in Nat
        BY <2>3, LenProperties
    <2>5. Current' = Current
        BY <2>2, SameCurrent DEF pvars
    <2>6. CASE e.key \in MoveKeys
        <3>1. \E i \in DOMAIN events' : events'[i].key \in MoveKeys
            BY <2>3, <2>4, <2>6
        <3> QED
            BY <2>2, <2>5, <3>1 DEF SteerInv, pvars, hvars
    <2>7. CASE e.key \notin MoveKeys
        <3>1. \A k \in MoveKeys : k \in held' <=> k \in held
            BY <2>1, <2>7 DEF key_event
        <3>2. Direction(held') = Direction(held)
            BY <3>1, SameDirection
        <3>3. (\E i \in DOMAIN events : events[i].key \in MoveKeys)
              => \E i \in DOMAIN events' : events'[i].key \in MoveKeys
            BY <2>3, <2>4
        <3> QED
            BY <2>2, <2>5, <3>2, <3>3 DEF SteerInv, pvars, hvars
    <2> QED
        BY <2>6, <2>7
<1>2. CASE key_callback
    BY <1>2, SteersOn
<1>3. CASE read_map \/ update \/ fire_hits
    BY <1>3, Elsewhere DEF SteerInv
<1>4. CASE Rests
    BY <1>4, RestsAre DEF SteerInv, pvars, ivars, hvars
<1> QED
    BY <1>1, <1>2, <1>3, <1>4 DEF Next, Rests

THEOREM Types == Spec => []TypeInv
<1>1. TypeInv /\ [Next]_vars => TypeInv'
    BY StepTypes
<1> QED
    BY <1>1, InitTypes, PTL DEF Spec

\* When the events of a frame were handled, the current player moves as the keys that
\* are down say, or stands if it was told of none since it became the current one
\* (player.lua:216-276): however many events a frame has, whatever the bindings of
\* maps take away, and whatever happens to players, maps and scenes meanwhile.
THEOREM SteeredByKeys == Spec => []Steered
<1>1. Init => SteerInv
    BY DEF Init, PlayersInit, SteerInv, Current, At
<1>2. TypeInv /\ SteerInv /\ [Next]_vars => SteerInv'
    BY SteerStep
<1>3. TypeInv /\ SteerInv => Steered
    BY DEF Steered, Quiet, SteerInv
<1> QED
    BY <1>1, <1>2, <1>3, Types, PTL DEF Spec

-----------------------------------------------------------------------------
(* Who is marked.                                                          *)

\* Whether TAB was down before each of the events in the queue, and is now.
TabWas(down, queue, keys) ==
    /\ down \in [0..Len(queue) -> BOOLEAN]
    /\ down[Len(queue)] = ("TAB" \in keys)
    /\ \A i \in 1..Len(queue) :
        /\ queue[i].key = "TAB" =>
            down[i] = queue[i].press /\ down[i - 1] = ~queue[i].press
        /\ queue[i].key # "TAB" => down[i] = down[i - 1]

\* Somebody is marked only while TAB is down, for who sees the events in their order.
MarkInv ==
    \E down : /\ TabWas(down, events, held)
              /\ selected # {} /\ ~marked => down[0] /\ selected = {Current}

LEMMA MarkCollects ==
    ASSUME TypeInv, MarkInv, press_or_release
    PROVE  MarkInv'
<1>1. PICK e \in Event : key_event(e)
    BY UsersAre DEF press_or_release
<1>2. UNCHANGED <<pvars, hvars>> /\ InputTypeOK
    BY DEF press_or_release, TypeInv, GameTypeOK
<1>3. /\ events \in Seq(Event) /\ events' \in Seq(Event)
      /\ Len(events') = Len(events) + 1 /\ events'[Len(events) + 1] = e
      /\ \A i \in 1..Len(events) : events'[i] = events[i]
    BY <1>1, <1>2, Collects
<1>4. Current' = Current /\ e.press \in BOOLEAN
    BY <1>2, SameCurrent DEF pvars, Event
<1>5. PICK was : /\ TabWas(was, events, held)
                 /\ selected # {} /\ ~marked => was[0] /\ selected = {Current}
    BY DEF MarkInv
<1> DEFINE l == Len(events)
           down == [i \in 0..(l + 1) |-> IF i = l + 1 THEN "TAB" \in held' ELSE was[i]]
<1>6. l \in Nat /\ was \in [0..l -> BOOLEAN]
    BY <1>3, <1>5, LenProperties DEF TabWas
<1>7. down[l + 1] = ("TAB" \in held') /\ \A i \in 0..l : down[i] = was[i]
    <2> HIDE DEF l
    <2> QED
        BY <1>6
<1>8. down \in [0..(l + 1) -> BOOLEAN]
    <2> HIDE DEF l
    <2>1. ASSUME NEW i \in 0..(l + 1)
          PROVE  (IF i = l + 1 THEN "TAB" \in held' ELSE was[i]) \in BOOLEAN
        <3>1. i # l + 1 => i \in 0..l
            BY <1>6
        <3>2. i # l + 1 => was[i] \in BOOLEAN
            BY <1>6, <3>1
        <3>3. ("TAB" \in held') \in BOOLEAN
            OBVIOUS
        <3> QED
            BY <3>2, <3>3, Zenon
    <2> QED
        BY <2>1, Zenon
<1>9. was[l] = ("TAB" \in held)
    BY <1>5 DEF TabWas
<1>10. IF e.key = "TAB" THEN ("TAB" \in held') = e.press /\ ("TAB" \in held) = ~e.press
       ELSE ("TAB" \in held') = ("TAB" \in held)
    BY <1>1, <1>4 DEF key_event, Holdable
<1> HIDE DEF down
<1>11. ASSUME NEW i \in 1..(l + 1)
       PROVE  /\ events'[i].key = "TAB" =>
                    down[i] = events'[i].press /\ down[i - 1] = ~events'[i].press
              /\ events'[i].key # "TAB" => down[i] = down[i - 1]
    <2>1. CASE i \in 1..l
        <3>1. i \in 0..l /\ i - 1 \in 0..l
            BY <1>6, <2>1
        <3>2. events'[i] = events[i] /\ down[i] = was[i] /\ down[i - 1] = was[i - 1]
            BY <1>3, <1>7, <2>1, <3>1
        <3> QED
            BY <1>5, <2>1, <3>2 DEF TabWas
    <2>2. CASE i = l + 1
        <3>1. i - 1 = l /\ l \in 0..l
            BY <1>6, <2>2
        <3>2. events'[i] = e /\ down[i] = ("TAB" \in held') /\ down[i - 1] = ("TAB" \in held)
            BY <1>3, <1>7, <1>9, <2>2, <3>1
        <3> QED
            BY <1>10, <3>2, Zenon
    <2>3. i \in 1..l \/ i = l + 1
        BY <1>6
    <2> QED
        BY <2>1, <2>2, <2>3
<1>12. TabWas(down, events', held')
    <2>1. Len(events') = l + 1
        BY <1>3
    <2> QED
        BY <1>7, <1>8, <1>11, <2>1 DEF TabWas
<1>13. down[0] = was[0]
    <2> HIDE DEF l
    <2> QED
        BY <1>6, <1>7
<1> QED
    BY <1>2, <1>4, <1>5, <1>12, <1>13 DEF MarkInv, pvars, hvars

LEMMA MarkHandles ==
    ASSUME TypeInv, MarkInv, key_callback
    PROVE  MarkInv'
<1> DEFINE e == Head(events)
           f == Called
           l == Len(events)
<1>1. /\ events \in Seq(Event) /\ e = events[1]
      /\ events' \in Seq(Event) /\ l >= 1 /\ Len(events') = l - 1
      /\ \A i \in 1..(l - 1) : events'[i] = events[i + 1]
      /\ held' = held /\ e \in Event
    BY Handles
<1>2. l \in Nat /\ e.press \in BOOLEAN /\ DOMAIN events = 1..l
    BY <1>1, LenProperties DEF Event
<1>3. PICK was : /\ TabWas(was, events, held)
                 /\ selected # {} /\ ~marked => was[0] /\ selected = {Current}
    BY DEF MarkInv
<1>4. /\ was \in [0..l -> BOOLEAN] /\ was[l] = ("TAB" \in held)
      /\ \A i \in 1..l :
            /\ events[i].key = "TAB" =>
                was[i] = events[i].press /\ was[i - 1] = ~events[i].press
            /\ events[i].key # "TAB" => was[i] = was[i - 1]
    BY <1>3 DEF TabWas
<1> DEFINE down == [i \in 0..(l - 1) |-> was[i + 1]]
<1>5. marked' = (selected' # {} /\ (marked \/ (e.key = "TAB" /\ ~e.press /\ f # "next")))
    BY DEF key_callback
<1>6. \/ /\ e.key # "TAB"
         /\ selected' = selected /\ Current' = Current
      \/ /\ f = "next" /\ e.key = "TAB" /\ e.press
         /\ IF list = <<>> THEN selected' = selected
            ELSE selected' = selected \cup {Current'}
      \/ /\ ~(f = "next" /\ e.press)
         /\ selected' \subseteq selected /\ (Current' = Current \/ Current \notin selected')
         /\ f = "next" => selected' = selected \ {Current}
    <2>1. e.key \in MoveKeys => e.key # "TAB"
        BY DEF MoveKeys
    <2> QED
        BY <2>1, Responds DEF Calm, Steady, pvars
<1> HIDE DEF e, f, l
<1>7. TabWas(down, events', held')
    <2>1. down \in [0..(l - 1) -> BOOLEAN] /\ \A i \in 0..(l - 1) : down[i] = was[i + 1]
        <3>1. \A i \in 0..(l - 1) : i + 1 \in 0..l
            BY <1>2
        <3> QED
            BY <1>4, <3>1
    <2> HIDE DEF down
    <2>2. l - 1 \in 0..(l - 1) /\ (l - 1) + 1 = l
        BY <1>1, <1>2
    <2>3. down[l - 1] = ("TAB" \in held')
        BY <1>1, <1>4, <2>1, <2>2
    <2>4. ASSUME NEW i \in 1..(l - 1)
          PROVE  /\ events'[i].key = "TAB" =>
                    down[i] = events'[i].press /\ down[i - 1] = ~events'[i].press
                 /\ events'[i].key # "TAB" => down[i] = down[i - 1]
        <3>1. i \in 0..(l - 1) /\ i - 1 \in 0..(l - 1) /\ (i - 1) + 1 = i
              /\ i + 1 \in 1..l /\ (i + 1) - 1 = i
            BY <1>2
        <3>2. down[i] = was[i + 1] /\ down[i - 1] = was[i] /\ events'[i] = events[i + 1]
            BY <1>1, <2>1, <3>1
        <3>3. /\ events[i + 1].key = "TAB" =>
                    was[i + 1] = events[i + 1].press /\ was[i] = ~events[i + 1].press
              /\ events[i + 1].key # "TAB" => was[i + 1] = was[i]
            BY <1>4, <3>1
        <3> QED
            BY <3>2, <3>3
    <2> QED
        BY <1>1, <2>1, <2>3, <2>4 DEF TabWas
<1>8. down[0] = was[1] /\ 1 \in 1..l /\ was[0] \in BOOLEAN /\ was[1] \in BOOLEAN
    <2>1. 0 \in 0..(l - 1) /\ 0 + 1 = 1 /\ 1 \in 1..l /\ 0 \in 0..l /\ 1 \in 0..l
        BY <1>1, <1>2
    <2> QED
        BY <1>4, <2>1
<1>9. IF e.key = "TAB" THEN was[1] = e.press /\ was[0] = ~e.press ELSE was[1] = was[0]
    <2>1. 1 - 1 = 0
        OBVIOUS
    <2> QED
        BY <1>1, <1>4, <1>8, <2>1
<1>10. ASSUME selected' # {}, ~marked'
       PROVE  was[1] /\ selected' = {Current'}
    <2>1. ~marked /\ ~(e.key = "TAB" /\ ~e.press /\ f # "next")
        BY <1>5, <1>10
    <2>2. selected # {} => was[0] /\ selected = {Current}
        BY <1>3, <2>1
    <2>3. CASE e.key # "TAB" /\ selected' = selected /\ Current' = Current
        BY <1>9, <1>10, <2>2, <2>3
    <2>4. CASE /\ f = "next" /\ e.key = "TAB" /\ e.press
               /\ IF list = <<>> THEN selected' = selected
                  ELSE selected' = selected \cup {Current'}
        <3>1. was[1] /\ ~was[0]
            BY <1>8, <1>9, <2>4
        <3>2. selected = {}
            BY <2>2, <3>1
        <3> QED
            BY <1>10, <2>4, <3>1, <3>2
    <2>5. CASE /\ ~(f = "next" /\ e.press)
               /\ selected' \subseteq selected /\ (Current' = Current \/ Current \notin selected')
               /\ f = "next" => selected' = selected \ {Current}
        <3>1. selected # {} /\ was[0] /\ selected = {Current}
            BY <1>10, <2>2, <2>5
        <3>2. selected' = {Current} /\ Current' = Current /\ f # "next"
            BY <1>10, <2>5, <3>1
        <3>3. e.key # "TAB"
            BY <1>2, <1>9, <2>1, <3>1, <3>2
        <3> QED
            BY <1>9, <3>1, <3>2, <3>3
    <2> QED
        BY <1>6, <2>3, <2>4, <2>5
<1> QED
    BY <1>7, <1>8, <1>10 DEF MarkInv

LEMMA MarkStep ==
    ASSUME TypeInv, MarkInv, [Next]_vars
    PROVE  MarkInv'
<1>1. CASE press_or_release
    BY <1>1, MarkCollects
<1>2. CASE key_callback
    BY <1>2, MarkHandles
<1>3. ASSUME UNCHANGED <<selected, events, held, marked>>, Current' = Current
      PROVE  MarkInv'
    BY <1>3 DEF MarkInv, TabWas
<1>4. CASE read_map \/ update \/ fire_hits
    BY <1>3, <1>4, Elsewhere
<1>5. CASE Rests
    BY <1>3, <1>5, RestsAre DEF pvars, ivars, hvars
<1> QED
    BY <1>1, <1>2, <1>4, <1>5 DEF Next, Rests

LEMMA MarkInit == Init => MarkInv
<1> SUFFICES ASSUME Init PROVE MarkInv
    OBVIOUS
<1>1. events = <<>> /\ held = {} /\ selected = {} /\ Len(events) = 0
    BY EmptySeq DEF Init, InputInit, PlayersInit
<1> DEFINE down == [i \in 0..0 |-> FALSE]
<1>2. down \in [0..0 -> BOOLEAN] /\ down[0] = FALSE /\ 1..0 = {}
    OBVIOUS
<1> HIDE DEF down
<1>3. ("TAB" \in held) = FALSE
    BY <1>1
<1>4. TabWas(down, events, held)
    BY <1>1, <1>2, <1>3 DEF TabWas
<1> QED
    BY <1>1, <1>4 DEF MarkInv

-----------------------------------------------------------------------------
(* Pauses, scenes and the camera.                                          *)

\* Who is followed, and what else may happen while a scene is played.
SceneInv ==
    /\ prev = "input" /\ group \in {"input", "paused"}
    /\ phase = "update" => events = <<>>
    /\ Playing => \A i \in 1..Len(events) : events[i].key # "P"
    /\ scene = 1 => group = "input"
    /\ scene \in 2..6 => group = "paused" /\ loads = <<>>
    /\ scene \in 3..5 => kept \in {Current, Nobody}
    /\ following \in {Current, Nobody}

\* While the keys are the scene's, its step is the only one.
LEMMA SceneKeys ==
    ASSUME TypeInv, SceneInv, key_callback
    PROVE  SceneInv'
<1> DEFINE e == Head(events)
           f == Called
<1>1. /\ events \in Seq(Event) /\ Head(events) = events[1]
      /\ events' \in Seq(Event) /\ Len(events) >= 1 /\ Len(events') = Len(events) - 1
      /\ \A i \in 1..(Len(events) - 1) : events'[i] = events[i + 1]
      /\ Len(events) \in Nat
    BY Handles, LenProperties
<1>2. /\ call(f, e) /\ events # <<>> /\ phase = "input"
      /\ UNCHANGED <<loads, phase, scene, kept>>
      /\ CASE f = "players" /\ "ctrl" \notin e.mods -> pause
           [] f = "resume" -> resume
           [] OTHER -> UNCHANGED <<held, group, prev>>
    BY DEF key_callback, mvars, gvars
<1>3. /\ e \in Event /\ group \in Groups /\ (f = "map" \/ f = Function(group, e))
      /\ PlayersInv /\ scene \in 0..7
    BY <1>2, CalledIs, SceneIs DEF TypeInv, GameTypeOK
<1>4. /\ f \in {"players", "resume"} => e.key = "P"
      /\ f = "players" => group = "input"
      /\ group = "paused" => f \in {"none", "resume", "settings", "map"}
    BY <1>3, FunctionKeys
<1>5. /\ prev = "input" /\ group \in {"input", "paused"}
      /\ Playing => \A i \in 1..Len(events) : events[i].key # "P"
      /\ scene = 1 => group = "input"
      /\ scene \in 2..6 => group = "paused" /\ loads = <<>>
      /\ scene \in 3..5 => kept \in {Current, Nobody}
      /\ following \in {Current, Nobody}
    BY DEF SceneInv
<1>6. Playing <=> scene \in 1..6
    BY <1>3, SceneIs DEF Playing
<1>7. Playing => e.key # "P"
    BY <1>1, <1>5
<1>8. following' \in {Current', Nobody}
    <2>1. \/ following' = following /\ Current' = Current
          \/ following' \in {Current', Nobody}
          \/ Calm
        BY Responds DEF pvars
    <2> QED
        BY <1>5, <2>1 DEF Calm
<1> HIDE DEF f, e
<1>9. \/ UNCHANGED <<group, prev>>
      \/ f = "players" /\ group = "input" /\ prev' = group /\ group' = "paused"
      \/ f = "resume" /\ group' = prev /\ prev' = prev
    BY <1>2, <1>4 DEF pause, resume
<1>10. prev' = "input" /\ group' \in {"input", "paused"}
    BY <1>5, <1>9
<1>11. Playing => UNCHANGED <<group, prev>>
    BY <1>4, <1>7, <1>9
<1>12. scene \in 3..5 => Current' = Current
    <2> SUFFICES ASSUME scene \in 3..5 PROVE Current' = Current
        OBVIOUS
    <2>1. group = "paused" /\ Playing
        BY <1>5, <1>6
    <2>2. f \in {"none", "settings", "map"}
        BY <1>4, <1>7, <2>1
    <2>3. UNCHANGED pvars
        BY <1>2, <2>2 DEF call
    <2> QED
        BY <2>3, SameCurrent DEF pvars
<1>13. Playing' => \A i \in 1..Len(events') : events'[i].key # "P"
    <2> SUFFICES ASSUME Playing', NEW i \in 1..Len(events') PROVE events'[i].key # "P"
        OBVIOUS
    <2>1. Playing
        BY <1>2 DEF Playing, NotYet, Over, Scene
    <2>2. i \in 1..(Len(events) - 1) /\ i + 1 \in 1..Len(events)
        BY <1>1
    <2> QED
        BY <1>1, <1>5, <2>1, <2>2
<1> QED
    BY <1>2, <1>5, <1>6, <1>8, <1>10, <1>11, <1>12, <1>13 DEF SceneInv

LEMMA ScenePlays ==
    ASSUME TypeInv, SceneInv, update
    PROVE  SceneInv'
<1>1. /\ prev = "input" /\ group \in {"input", "paused"}
      /\ scene = 1 => group = "input"
      /\ scene \in 2..6 => group = "paused" /\ loads = <<>>
      /\ scene \in 3..5 => kept \in {Current, Nobody}
      /\ following \in {Current, Nobody}
    BY DEF SceneInv
<1>2. events = <<>> /\ events' = <<>> /\ loads = <<>> /\ loads' = <<>>
    BY Elsewhere DEF update, mvars
<1>3. Current' = Current
    BY Elsewhere
<1>4. \A i \in 1..Len(events') : FALSE
    BY <1>2, EmptySeq
<1>5. CASE UNCHANGED <<pvars, ivars, hvars, scene, kept>>
    BY <1>1, <1>2, <1>3, <1>4, <1>5 DEF SceneInv, pvars, ivars
<1>6. CASE Playing /\ play
    <2> DEFINE step == Scene[scene]
    <2>1. scene \in 1..6 /\ scene' = scene + 1
        BY <1>6, SceneIs DEF play, Playing, TypeInv, GameTypeOK
    <2>2. /\ step = "pause" => pause /\ UNCHANGED <<pvars, kept>>
          /\ step = "save" => kept' = following /\ UNCHANGED <<pvars, ivars>>
          /\ step = "stop" => following' = Nobody /\ UNCHANGED <<ivars, kept>>
          /\ step = "play" => show_fairy /\ UNCHANGED <<ivars, kept>>
          /\ step = "restore" => Follows(kept) /\ kept' = Nobody /\ UNCHANGED ivars
          /\ step = "resume" => resume /\ UNCHANGED <<pvars, kept>>
        BY <1>6 DEF play
    <2> HIDE DEF step
    <2>3. CASE scene = 1
        <3>1. prev' = group /\ group' = "paused" /\ UNCHANGED <<pvars, kept>> /\ scene' = 2
            BY <2>1, <2>2, <2>3, SceneIs DEF pause, step
        <3> QED
            BY <1>1, <1>2, <1>3, <1>4, <2>3, <3>1 DEF SceneInv, pvars
    <2>4. CASE scene = 2
        <3>1. kept' = following /\ UNCHANGED <<pvars, ivars>> /\ scene' = 3
            BY <2>1, <2>2, <2>4, SceneIs DEF step
        <3> QED
            BY <1>1, <1>2, <1>3, <1>4, <2>4, <3>1 DEF SceneInv, pvars, ivars
    <2>5. CASE scene = 3
        <3>1. following' = Nobody /\ UNCHANGED <<ivars, kept>> /\ scene' = 4
            BY <2>1, <2>2, <2>5, SceneIs DEF step
        <3> QED
            BY <1>1, <1>2, <1>3, <1>4, <2>5, <3>1 DEF SceneInv, ivars
    <2>6. CASE scene = 4
        <3>1. UNCHANGED <<following, ivars, kept>> /\ scene' = 5
            BY <2>1, <2>2, <2>6, SceneIs DEF step, show_fairy, pvars
        <3> QED
            BY <1>1, <1>2, <1>3, <1>4, <2>6, <3>1 DEF SceneInv, ivars
    <2>7. CASE scene = 5
        <3>1. following' = kept /\ UNCHANGED ivars /\ scene' = 6
            BY <2>1, <2>2, <2>7, SceneIs DEF step, Follows
        <3> QED
            BY <1>1, <1>2, <1>3, <1>4, <2>7, <3>1 DEF SceneInv, ivars
    <2>8. CASE scene = 6
        <3>1. group' = prev /\ prev' = prev /\ UNCHANGED <<pvars, kept>> /\ scene' = 7
            BY <2>1, <2>2, <2>8, SceneIs DEF step, resume
        <3>2. ~Playing'
            BY <3>1, SceneIs DEF Playing, Over, NotYet, Scene
        <3> QED
            BY <1>1, <1>2, <1>3, <1>4, <2>8, <3>1, <3>2 DEF SceneInv, pvars
    <2> QED
        BY <2>1, <2>3, <2>4, <2>5, <2>6, <2>7, <2>8
<1> QED
    BY <1>5, <1>6 DEF update

LEMMA SceneStep ==
    ASSUME HasCamera = {}, ~Hasty, TypeInv, SceneInv, [Next]_vars
    PROVE  SceneInv'
<1>1. /\ prev = "input" /\ group \in {"input", "paused"}
      /\ phase = "update" => events = <<>>
      /\ Playing => \A i \in 1..Len(events) : events[i].key # "P"
      /\ scene = 1 => group = "input"
      /\ scene \in 2..6 => group = "paused" /\ loads = <<>>
      /\ scene \in 3..5 => kept \in {Current, Nobody}
      /\ following \in {Current, Nobody}
    BY DEF SceneInv
<1>2. ASSUME UNCHANGED <<scene, kept, loads>>, UNCHANGED <<group, prev, following>>,
             Current' = Current, phase' = "update" => events' = <<>>,
             Playing => \A i \in 1..Len(events') : events'[i].key # "P"
      PROVE  SceneInv'
    BY <1>1, <1>2 DEF SceneInv, Playing, NotYet, Over, Scene
<1>3. CASE press_or_release
    <2>1. PICK e \in Event : key_event(e) /\ (Playing /\ e.key = "P" => Hasty)
        BY <1>3, UsersAre DEF press_or_release
    <2>2. UNCHANGED <<pvars, mvars, gvars>> /\ phase = "user" /\ InputTypeOK
        BY <1>3 DEF press_or_release, TypeInv, GameTypeOK
    <2>3. /\ UNCHANGED <<group, prev>> /\ events \in Seq(Event)
          /\ Len(events') = Len(events) + 1 /\ events'[Len(events) + 1] = e
          /\ \A i \in 1..Len(events) : events'[i] = events[i]
        BY <2>1, <2>2, Collects
    <2>4. Current' = Current
        BY <2>2, SameCurrent DEF pvars
    <2>5. ASSUME Playing, NEW i \in 1..Len(events') PROVE events'[i].key # "P"
        <3>1. Len(events) \in Nat
            BY <2>3, LenProperties
        <3>2. i \in 1..Len(events) \/ i = Len(events) + 1
            BY <2>3, <3>1
        <3>3. e.key # "P"
            BY <2>1, <2>5
        <3> QED
            BY <1>1, <2>3, <2>5, <3>2, <3>3
    <2> QED
        BY <1>2, <2>2, <2>3, <2>4, <2>5 DEF pvars, mvars, gvars
<1>4. CASE key_callback
    BY <1>4, SceneKeys
<1>5. CASE update
    BY <1>5, ScenePlays
<1>6. CASE read_map
    <2>1. RestoredFollow(following) = following
        BY DEF RestoredFollow
    <2>2. /\ following' = following /\ UNCHANGED <<ivars, phase, kept>> /\ loads # <<>>
          /\ scene' \in {scene, NotYet}
        BY <1>6, <2>1
           DEF read_map, Follows, pvars, load_map, init_fails, load_fails
    <2>3. Current' = Current
        BY <1>6, Elsewhere
    <2>4. scene \notin 2..6
        BY <1>1, <2>2
    <2>5. scene' \notin 2..6 /\ (scene' = 1 => scene = 1) /\ (Playing' => Playing)
        BY <2>2, <2>4, SceneIs DEF Playing, NotYet, Over, Scene
    <2> QED
        BY <1>1, <2>2, <2>3, <2>5 DEF SceneInv, ivars
<1>7. CASE warp
    <2>1. UNCHANGED <<pvars, ivars, gvars>> /\ scene \notin 2..6
        BY <1>7, SceneIs DEF warp
    <2>2. Current' = Current
        BY <2>1, SameCurrent DEF pvars
    <2> QED
        BY <1>1, <2>1, <2>2
           DEF SceneInv, pvars, ivars, gvars, Playing, NotYet, Over, Scene
<1>8. CASE begin_scene
    <2>1. UNCHANGED <<pvars, ivars, mvars, phase, kept>> /\ phase = "update"
          /\ group # "paused" /\ scene' = 1
        BY <1>8, SceneIs DEF begin_scene
    <2>2. Current' = Current
        BY <2>1, SameCurrent DEF pvars
    <2>3. \A i \in 1..Len(events') : FALSE
        BY <1>1, <2>1, EmptySeq DEF ivars
    <2> QED
        BY <1>1, <2>1, <2>2, <2>3 DEF SceneInv, pvars, ivars
<1>9. CASE fire_hits
    <2>1. UNCHANGED <<ivars, mvars, gvars, following>>
        BY <1>9 DEF fire_hits, burn_out
    <2>2. Current' = Current
        BY <1>9, Elsewhere
    <2> QED
        BY <1>1, <1>2, <2>1, <2>2 DEF ivars, mvars, gvars
<1>10. CASE poll_events \/ end_frame \/ UNCHANGED vars
    <2>1. UNCHANGED <<pvars, ivars, mvars, scene, kept>>
          /\ (phase' = "update" => phase = "update")
        BY <1>10 DEF poll_events, end_frame, vars, gvars
    <2>2. Current' = Current
        BY <2>1, SameCurrent DEF pvars
    <2> QED
        BY <1>1, <1>2, <2>1, <2>2 DEF pvars, ivars, mvars
<1> QED
    BY <1>3, <1>4, <1>5, <1>6, <1>7, <1>8, <1>9, <1>10 DEF Next

MarkedNow ==
    Quiet /\ selected # {} /\ ~marked => "TAB" \in held /\ selected = {Current}

LEMMA MarkIsNow == TypeInv /\ MarkInv => MarkedNow
<1> SUFFICES ASSUME MarkInv, Quiet, selected # {}, ~marked
             PROVE  "TAB" \in held /\ selected = {Current}
    BY DEF MarkedNow
<1>1. PICK down : /\ TabWas(down, events, held)
                  /\ down[0] /\ selected = {Current}
    BY DEF MarkInv
<1>2. Len(events) = 0
    BY EmptySeq DEF Quiet
<1> QED
    BY <1>1, <1>2 DEF TabWas

\* Whoever is not the current player stands and does not run, and only the current one
\* is marked, while TAB is down (player.lua:98-128, input.lua:152-161): with maps that
\* restore the camera, with pauses in the way of a scene, whatever else is lost then.
THEOREM OthersAreLeft == Spec => [](StandInv /\ MarkedNow)
<1>1. TypeInv /\ MarkInv /\ [Next]_vars => MarkInv'
    BY MarkStep
<1>2. TypeInv /\ MarkInv => StandInv /\ MarkedNow
    BY MarkIsNow DEF TypeInv, PlayersInv
<1> QED
    BY <1>1, <1>2, MarkInit, Types, PTL DEF Spec

\* One player is controlled, followed and, while TAB is down, marked, for every number
\* of players and of events in a frame: whoever is left stands and is marked no longer
\* (player.lua:98-128, input.lua:152-161), and the group of bindings that pauses does
\* not return to itself (input.lua:28-34).  Maps that restore the camera (state.lua:53)
\* and pauses of the user in the way of a scene are the exceptions.
THEOREM OneIsControlled ==
    ASSUME HasCamera = {}, ~Hasty
    PROVE  Spec => []CurrentOnly
<1>1. Init => SceneInv
    <2> SUFFICES ASSUME Init PROVE SceneInv
        OBVIOUS
    <2>1. /\ events = <<>> /\ group = "input" /\ prev = "input" /\ phase = "user"
          /\ scene = 0 /\ following = Nobody
        BY SceneIs DEF Init, InputInit, PlayersInit
    <2>2. ~Playing
        BY <2>1, SceneIs DEF Playing
    <2> QED
        BY <2>1, <2>2 DEF SceneInv
<1>2. TypeInv /\ SceneInv /\ [Next]_vars => SceneInv'
    BY SceneStep
<1>3. TypeInv /\ MarkInv /\ [Next]_vars => MarkInv'
    BY MarkStep
<1>4. TypeInv /\ MarkInv /\ SceneInv => CurrentOnly
    <2> SUFFICES ASSUME TypeInv, MarkInv, SceneInv PROVE CurrentOnly
        OBVIOUS
    <2>1. GameTypeOK /\ OthersStand
        BY DEF TypeInv, PlayersInv, StandInv, OthersStand, SceneInv
    <2>2. MarkedNow
        BY MarkIsNow
    <2> QED
        BY <2>1, <2>2 DEF CurrentOnly, SceneInv, MarkedNow
<1> QED
    BY <1>1, <1>2, <1>3, <1>4, MarkInit, Types, PTL DEF Spec

-----------------------------------------------------------------------------
(* What belongs to the players.                                            *)

\* An entity exists if and only if a player in the list has it.
OwnedInv ==
    /\ \A p \in Players : p \notin ToSet(list) => data[p] = {}
    /\ \A p \in Players \cup {Nobody}, r \in Attached \cup {"self"} :
        <<p, r>> \in alive <=> p \in ToSet(list) /\ r \in data[p] \cup {"self"}

LEMMA OwnedRest ==
    ASSUME OwnedInv, UNCHANGED <<alive, list, data>>
    PROVE  OwnedInv'
  BY DEF OwnedInv, ToSet

LEMMA OwnedAttaches ==
    ASSUME PlayersInv, OwnedInv, NEW b \in BOOLEAN,
           menu(b) \/ action(b) \/ show_fairy \/ burn_out
    PROVE  OwnedInv'
<1>1. UNCHANGED list /\ ToSet(list)' = ToSet(list)
    BY DEF menu, action, show_fairy, burn_out, pvars, ToSet
<1>2. /\ data \in [Players -> SUBSET Attached] /\ "self" \notin Attached
      /\ Current # Nobody => Current \in Players /\ Current \in ToSet(list)
      /\ Nobody \notin ToSet(list)
    BY CurrentIs DEF PlayersInv, PlayersTypeOK, Attached
<1>3. ASSUME Current # Nobody, NEW role \in Attached,
             Attach(Current, role) \/ Detach(Current, role)
      PROVE  OwnedInv'
    <2> DEFINE c == Current
    <2>1. c \in Players /\ c \in ToSet(list)
        BY <1>2, <1>3
    <2>2. CASE Attach(c, role)
        <3>1. /\ \A p \in Players : data'[p] = IF p = c THEN data[p] \cup {role} ELSE data[p]
              /\ \A p, r : <<p, r>> \in alive' <=> <<p, r>> \in alive \/ (p = c /\ r = role)
            BY <1>2, <2>1, <2>2 DEF Attach, Of
        <3> HIDE DEF c
        <3>9. \A p \in Players : p \notin ToSet(list) => data'[p] = {}
            BY <1>2, <2>1, <3>1 DEF OwnedInv
        <3>10. ASSUME NEW p \in Players \cup {Nobody}, NEW r \in Attached \cup {"self"}
               PROVE  <<p, r>> \in alive' <=> p \in ToSet(list) /\ r \in data'[p] \cup {"self"}
            <4>1. <<p, r>> \in alive <=> p \in ToSet(list) /\ r \in data[p] \cup {"self"}
                BY DEF OwnedInv
            <4>2. CASE p = c
                <5>1. data'[p] = data[p] \cup {role} /\ p \in ToSet(list)
                    BY <2>1, <3>1, <4>2
                <5>2. <<p, r>> \in alive' <=> <<p, r>> \in alive \/ r = role
                    BY <3>1, <4>2
                <5> QED
                    BY <4>1, <5>1, <5>2
            <4>3. CASE p # c
                BY <1>2, <2>1, <3>1, <4>1, <4>3
            <4> QED
                BY <4>2, <4>3
        <3> QED
            BY <1>1, <3>9, <3>10 DEF OwnedInv
    <2>3. CASE Detach(c, role)
        <3>1. /\ \A p \in Players : data'[p] = IF p = c THEN data[p] \ {role} ELSE data[p]
              /\ \A p, r : <<p, r>> \in alive' <=> <<p, r>> \in alive /\ ~(p = c /\ r = role)
            BY <1>2, <2>1, <2>3 DEF Detach, Of
        <3> HIDE DEF c
        <3>2. role # "self"
            BY <1>2
        <3>9. \A p \in Players : p \notin ToSet(list) => data'[p] = {}
            BY <1>2, <2>1, <3>1, <3>2 DEF OwnedInv
        <3>10. ASSUME NEW p \in Players \cup {Nobody}, NEW r \in Attached \cup {"self"}
               PROVE  <<p, r>> \in alive' <=> p \in ToSet(list) /\ r \in data'[p] \cup {"self"}
            <4>1. <<p, r>> \in alive <=> p \in ToSet(list) /\ r \in data[p] \cup {"self"}
                BY DEF OwnedInv
            <4>2. CASE p = c
                BY <1>2, <2>1, <3>1, <3>2, <4>1, <4>2
            <4>3. CASE p # c
                BY <1>2, <2>1, <3>1, <3>2, <4>1, <4>3
            <4> QED
                BY <4>2, <4>3
        <3> QED
            BY <1>1, <3>9, <3>10 DEF OwnedInv
    <2> QED
        BY <1>3, <2>2, <2>3
<1>4. ASSUME UNCHANGED <<data, alive>> PROVE OwnedInv'
    BY <1>1, <1>4, OwnedRest
<1>5. {"menu", "fairy", "fire"} \subseteq Attached
    BY DEF Attached
<1>6. CASE menu(b)
    BY <1>3, <1>4, <1>5, <1>6 DEF menu
<1>7. CASE action(b)
    <2>1. CASE Current = Nobody
        BY <1>4, <1>7, <2>1 DEF action
    <2>2. CASE Current # Nobody /\ "menu" \in data[Current]
        BY <1>3, <1>5, <1>7, <2>2 DEF action
    <2>3. CASE Current # Nobody /\ "menu" \notin data[Current]
        <3>1. use(Current, Actions[item[Current]], b)
            BY <1>7, <2>3 DEF action
        <3>2. Actions[item[Current]] \in Attached
            BY <1>2, <2>3, ActionsAre DEF PlayersInv, PlayersTypeOK
        <3> QED
            BY <1>3, <1>4, <2>3, <3>1, <3>2 DEF use
    <2> QED
        BY <2>1, <2>2, <2>3
<1>8. CASE show_fairy
    BY <1>3, <1>4, <1>5, <1>8 DEF show_fairy, pvars
<1>9. CASE burn_out
    BY <1>3, <1>5, <1>9 DEF burn_out
<1> QED
    BY <1>6, <1>7, <1>8, <1>9

LEMMA OwnedAdds ==
    ASSUME PlayersInv, OwnedInv, add
    PROVE  OwnedInv'
<1>1. PICK p \in Players :
        /\ p \notin ToSet(list) /\ alive' = alive \cup Of(p, {"self"})
        /\ list' = Append(list, p)
    BY DEF add
<1>2. data' = data /\ list \in Seq(Players)
    BY DEF add, PlayersInv, PlayersTypeOK
<1>3. ToSet(list)' = ToSet(list) \cup {p}
    <2> DEFINE l == Len(list)
    <2>1. l \in Nat /\ DOMAIN list = 1..l
        BY <1>2, LenProperties
    <2>2. list' \in Seq(Players) /\ Len(list') = l + 1 /\ list'[l + 1] = p
          /\ \A i \in 1..l : list'[i] = list[i]
        BY <1>1, <1>2, AppendProperties
    <2>3. DOMAIN list' = 1..(l + 1)
        BY <2>2, LenProperties
    <2> HIDE DEF l
    <2>4. \A x : (\E i \in 1..(l + 1) : x = list'[i]) <=> x = p \/ \E i \in 1..l : x = list[i]
        <3>1. \A i : i \in 1..(l + 1) <=> i \in 1..l \/ i = l + 1
            BY <2>1
        <3> QED
            BY <2>2, <3>1
    <2>5. ToSet(list)' = {list'[i] : i \in 1..(l + 1)} /\ ToSet(list) = {list[i] : i \in 1..l}
        BY <2>1, <2>3 DEF ToSet
    <2> QED
        BY <2>4, <2>5
<1>4. \A q, r : <<q, r>> \in alive' <=> <<q, r>> \in alive \/ (q = p /\ r = "self")
    BY <1>1 DEF Of
<1>5. data[p] = {} /\ Nobody # p
    BY <1>1, PlayersAssumption DEF OwnedInv
<1> QED
    BY <1>2, <1>3, <1>4, <1>5 DEF OwnedInv

LEMMA OwnedRemoves ==
    ASSUME PlayersInv, OwnedInv, list # <<>>, remove,
           data[Current] \cap {"fire", "menu"} = {}
    PROVE  OwnedInv'
<1> DEFINE c == Current
<1>1. /\ alive' = alive \ Of(c, Removed \cap (data[c] \cup {"self"}))
      /\ data' = [data EXCEPT ![c] = {}]
    BY DEF remove
<1>2. ToSet(list)' = ToSet(list) \ {c} /\ c \in ToSet(list) /\ c \in Players
    BY Removes, CurrentIs DEF PlayersInv
<1>3. data \in [Players -> SUBSET Attached]
    BY DEF PlayersInv, PlayersTypeOK
<1>4. Removed \cap (data[c] \cup {"self"}) = data[c] \cup {"self"}
    BY <1>2, <1>3 DEF Removed, Attached
<1> HIDE DEF c
<1>5. \A p, r : <<p, r>> \in alive' <=>
                    <<p, r>> \in alive /\ ~(p = c /\ r \in data[c] \cup {"self"})
    BY <1>1, <1>4 DEF Of
<1>6. \A p \in Players : data'[p] = IF p = c THEN {} ELSE data[p]
    BY <1>1, <1>3
<1>7. Nobody \notin ToSet(list)
    BY CurrentIs DEF PlayersInv
<1> QED
    BY <1>2, <1>5, <1>6, <1>7 DEF OwnedInv

LEMMA OwnedStep ==
    ASSUME ~RemovesAll, ~LoadsNobody, TypeInv, OwnedInv, [Next]_vars
    PROVE  OwnedInv'
<1>1. PlayersInv
    BY DEF TypeInv
<1>2. CASE key_callback
    <2> DEFINE e == Head(events)
               f == Called
    <2>1. call(f, e) /\ e \in Event /\ e.press \in BOOLEAN
        BY <1>2, Handles DEF key_callback, Event
    <2> HIDE DEF e, f
    <2>2. CASE f = "move"
        <3>1. move(e.press, held) \/ UNCHANGED pvars
            BY <2>1, <2>2 DEF call
        <3> QED
            BY <1>1, <2>1, <3>1, Moves, OwnedRest DEF pvars
    <2>3. CASE f = "next"
        <3>1. next \/ unselect
            BY <2>1, <2>3 DEF call
        <3>2. UNCHANGED <<alive, list, data>>
            BY <3>1 DEF next, unselect, pvars
        <3> QED
            BY <3>2, OwnedRest
    <2>4. CASE f \in {"follow", "camera", "none", "map", "settings", "resume"}
        <3>1. UNCHANGED <<alive, list, data>>
            BY <2>1, <2>4 DEF call, toggle_follow, move_camera, Follows, pvars
        <3> QED
            BY <3>1, OwnedRest
    <2>5. CASE f = "menu"
        <3>1. menu("shift" \in e.mods) /\ ("shift" \in e.mods) \in BOOLEAN
            BY <2>1, <2>5 DEF call
        <3> QED
            BY <1>1, <3>1, OwnedAttaches
    <2>6. CASE f = "action"
        <3>1. action(e.press)
            BY <2>1, <2>6 DEF call
        <3> QED
            BY <1>1, <2>1, <3>1, OwnedAttaches
    <2>7. CASE f = "players"
        <3>1. players(e.mods)
            BY <2>1, <2>7 DEF call
        <3>2. \/ add
              \/ list # <<>> /\ MayRemove /\ remove
              \/ MayLoad /\ load
              \/ UNCHANGED pvars
            BY <3>1, PlayersIs
        <3>3. CASE add
            BY <1>1, <3>3, OwnedAdds
        <3>4. CASE list # <<>> /\ MayRemove /\ remove
            BY <1>1, <3>4, OwnedRemoves DEF MayRemove
        <3>5. CASE MayLoad /\ load
            <4>1. list # <<>> /\ alive' = alive \cup Of(Current, {"self"})
                  /\ UNCHANGED <<list, data>>
                BY <3>5 DEF MayLoad, load
            <4>2. Current \in Players /\ Current \in ToSet(list)
                BY <1>1, <4>1, CurrentIs DEF PlayersInv
            <4>3. <<Current, "self">> \in alive
                BY <4>2 DEF OwnedInv
            <4>4. alive' = alive
                BY <4>1, <4>3 DEF Of
            <4> QED
                BY <4>1, <4>4, OwnedRest
        <3> QED
            BY <3>2, <3>3, <3>4, <3>5, OwnedRest DEF pvars
    <2> QED
        BY <2>1, <2>2, <2>3, <2>4, <2>5, <2>6, <2>7 DEF call
<1>3. CASE update
    <2>1. CASE UNCHANGED pvars
        BY <2>1, OwnedRest DEF pvars
    <2>2. CASE Playing /\ play
        <3>1. \/ show_fairy \/ stop \/ Follows(kept) \/ UNCHANGED pvars
            <4>1. scene \in 1..6
                BY <2>2, SceneIs DEF TypeInv, GameTypeOK, Playing
            <4>2. Scene[scene] \in {"pause", "save", "stop", "play", "restore", "resume"}
                BY <4>1, SceneIs
            <4> QED
                BY <2>2, <4>2 DEF play
        <3>2. CASE show_fairy
            BY <1>1, <3>2, OwnedAttaches
        <3>3. CASE stop \/ Follows(kept) \/ UNCHANGED pvars
            <4>1. UNCHANGED <<alive, list, data>>
                BY <3>3 DEF stop, Follows, pvars
            <4> QED
                BY <4>1, OwnedRest
        <3> QED
            BY <3>1, <3>2, <3>3
    <2> QED
        BY <1>3, <2>1, <2>2 DEF update
<1>4. CASE fire_hits
    BY <1>1, <1>4, OwnedAttaches DEF fire_hits
<1>5. CASE read_map
    <2>1. UNCHANGED <<alive, list, data>>
        BY <1>5 DEF read_map, Follows, pvars
    <2> QED
        BY <2>1, OwnedRest
<1>6. CASE press_or_release \/ Rests
    <2>1. UNCHANGED pvars
        BY <1>6, RestsAre DEF press_or_release
    <2> QED
        BY <2>1, OwnedRest DEF pvars
<1> QED
    BY <1>2, <1>3, <1>4, <1>5, <1>6 DEF Next, Rests

\* Of each player in the list there are exactly the entities its table refers to, and
\* no others: none stays in the world when a player is removed, hides what it showed
\* or shows another (player.lua:58-96, 138-197, 301-400, menu.lua:70-98).  The
\* exceptions are players removed with a fire or a menu and presets loaded without
\* players.
THEOREM NoneLeftBehind ==
    ASSUME ~RemovesAll, ~LoadsNobody
    PROVE  Spec => []Owned
<1>1. Init => OwnedInv
    BY DEF Init, PlayersInit, OwnedInv, ToSet
<1>2. TypeInv /\ OwnedInv /\ [Next]_vars => OwnedInv'
    BY OwnedStep
<1>3. TypeInv /\ OwnedInv => Owned
    <2> SUFFICES ASSUME TypeInv, OwnedInv PROVE Owned
        OBVIOUS
    <2>1. PlayersTypeOK
        BY DEF TypeInv, PlayersInv
    <2>2. alive \subseteq (Players \cup {Nobody}) \X (Attached \cup {"self"})
          /\ data \in [Players -> SUBSET Attached] /\ ToSet(list) \subseteq Players
        BY <2>1, CurrentIs DEF PlayersTypeOK, Entities
    <2> DEFINE all == UNION {Of(p, data[p] \cup {"self"}) : p \in ToSet(list)}
    <2>3. ASSUME NEW x \in alive PROVE x \in all
        <3>1. PICK p \in Players \cup {Nobody}, r \in Attached \cup {"self"} : x = <<p, r>>
            BY <2>2, <2>3
        <3>2. p \in ToSet(list) /\ r \in data[p] \cup {"self"}
            BY <2>3, <3>1 DEF OwnedInv
        <3>3. x \in Of(p, data[p] \cup {"self"})
            BY <3>1, <3>2 DEF Of
        <3> QED
            BY <3>2, <3>3
    <2>4. ASSUME NEW x \in all PROVE x \in alive
        <3>1. PICK p \in ToSet(list) : x \in Of(p, data[p] \cup {"self"})
            BY <2>4
        <3>2. PICK r \in data[p] \cup {"self"} : x = <<p, r>>
            BY <3>1 DEF Of
        <3>3. r \in Attached \cup {"self"} /\ p \in Players
            BY <2>2
        <3> QED
            BY <3>2, <3>3 DEF OwnedInv
    <2>5. alive = all
        BY <2>3, <2>4
    <2> QED
        BY <2>1, <2>5 DEF Owned
<1> QED
    BY <1>1, <1>2, <1>3, Types, PTL DEF Spec

-----------------------------------------------------------------------------
(* Maps.                                                                   *)

\* What the map that is played made and saved, and nothing else, is there.
MapInv ==
    /\ things = {map} \ {None} /\ theirs = map
    /\ beats = {beat} \ {None} /\ beat \in {map, None}
    /\ map \in HasState => setting = map /\ saved # None /\ saved.setting = None
    /\ map \notin HasState => setting = None /\ saved = None

LEMMA MapStep ==
    ASSUME ~InitFails, TypeInv, MapInv, [Next]_vars
    PROVE  MapInv'
<1>1. /\ things = {map} \ {None} /\ theirs = map
      /\ beats = {beat} \ {None} /\ beat \in {map, None}
      /\ map \in HasState => setting = map /\ saved # None /\ saved.setting = None
      /\ map \notin HasState => setting = None /\ saved = None
    BY DEF MapInv
<1>2. CASE \E m \in Maps : next_map(m)
    BY <1>1, <1>2 DEF next_map, MapInv
<1>3. CASE load_map(following)
    <2> DEFINE m == Head(loads)
    <2>1. m \in Maps
        BY <1>3, HeadTailProperties DEF load_map, TypeInv, MapsTypeOK
    <2>2. m # None
        BY <2>1, MapsAssumption
    <2>3. /\ map' = m /\ things' = (things \ {theirs}) \cup {m} /\ theirs' = m
          /\ beats' = (beats \ {beat}) \cup (HasBeat \cap {m})
          /\ beat' = IF m \in HasBeat THEN m ELSE None
          /\ setting' = IF m \in HasState THEN m ELSE Restored
          /\ m \in HasState =>
                saved' = [setting |-> Restored, follow |-> RestoredFollow(following)]
          /\ m \notin HasState => saved' = None
        BY <1>3 DEF load_map
    <2> HIDE DEF m
    <2>4. Restored = None
        BY <1>1 DEF Restored
    <2>5. m \in HasState => saved' # None /\ saved'.setting = None
        <3>1. RestoredFollow(following) \in Players \cup {Nobody}
            BY RestoredFollowIs
        <3>2. m \in HasState => saved' \in SavedStates /\ saved'.setting = None
            BY <2>3, <2>4, <3>1 DEF SavedStates
        <3> QED
            BY <3>2, GameAssumption DEF SavedStates
    <2> QED
        BY <1>1, <2>2, <2>3, <2>4, <2>5 DEF MapInv
<1>4. CASE UNCHANGED <<map, things, theirs, beats, beat, setting, saved>>
    BY <1>1, <1>4 DEF MapInv
<1>5. CASE read_map
    <2>1. load_map(following) \/ load_fails
        BY <1>5 DEF read_map, init_fails
    <2> QED
        BY <1>3, <1>4, <2>1 DEF load_fails
<1>6. CASE warp
    BY <1>2, <1>6, UsersAre DEF warp
<1>7. CASE \/ press_or_release \/ poll_events \/ key_callback \/ update
           \/ begin_scene \/ fire_hits \/ end_frame \/ UNCHANGED vars
    <2>1. UNCHANGED mvars
        BY <1>7 DEF press_or_release, poll_events, key_callback, update, begin_scene,
                    fire_hits, end_frame, vars
    <2> QED
        BY <1>4, <2>1 DEF mvars
<1> QED
    BY <1>5, <1>6, <1>7 DEF Next

\* Only the map that is played has entities and a heartbeat, and the settings it will
\* restore are those from before the first map, however many maps there are, however
\* often map.next() was called before one was loaded and whichever could not be read
\* (map.lua:9-66, state.lua:36-69).  A map that fails while it is made is the
\* exception.
THEOREM MapsLeaveNothing ==
    ASSUME ~InitFails
    PROVE  Spec => []MapKept
<1>1. Init => MapInv
    BY MapsAssumption DEF Init, MapsInit, MapInv
<1>2. TypeInv /\ MapInv /\ [Next]_vars => MapInv'
    BY MapStep
<1>3. TypeInv /\ MapInv => MapKept
    BY DEF TypeInv, MapInv, MapKept
<1> QED
    BY <1>1, <1>2, <1>3, Types, PTL DEF Spec
=============================================================================
