---------------------------- MODULE RolodexProofs ----------------------------
(* The list of the rolodex stays whole and in order, and the screens show   *)
(* only entries that are in it, whatever scans there are within scans.      *)
EXTENDS Rolodex, SetLemmas

(* Pointers, 0 for NULL, and lists. *)
Pointers == 0..MaxLinks

Lists == [begin : Pointers, end : Pointers,
          next : [Links -> Pointers], prev : [Links -> Pointers]]

LEMMA PointerType == Pointers = Links \cup {0} /\ 0 \notin Links /\ Links \subseteq Nat
BY RolodexAssumption DEF Pointers, Links

-----------------------------------------------------------------------------
(* Following pointers. *)

Walk(f, lst, l, n) ==
  /\ f \in [0..n -> Pointers]
  /\ f[0] = l
  /\ \A k \in 1..n : f[k] = IF f[k - 1] = 0 THEN 0 ELSE lst.next[f[k - 1]]
  /\ \A k \in 0..n : Ahead(lst, l, k) = f[k]

LEMMA AheadRecurrence ==
  ASSUME NEW lst \in Lists, NEW l \in Pointers, NEW n \in Nat
  PROVE  \E f : Walk(f, lst, l, n)
<1>0. lst.next \in [Links -> Pointers] /\ Pointers = Links \cup {0}
  BY PointerType DEF Lists
<1> DEFINE onward == [x \in Pointers |-> IF x = 0 THEN 0 ELSE lst.next[x]]
<1>1. onward \in [Pointers -> Pointers]
  BY <1>0
<1> DEFINE step == [k \in 1..n |-> onward]
<1>2. step \in [1..n -> [Pointers -> Pointers]]
  BY <1>1
<1>3. PICK f \in [0..n -> Pointers] :
        f[0] = l /\ \A k \in 1..n : f[k] = step[k][f[k - 1]]
  <2> HIDE DEF step
  <2>1. PICK f : Iterates(f, Pointers, l, n, step)
    BY <1>2, Recurrence
  <2> QED
    BY <2>1 DEF Iterates
<1>4. \A k \in 1..n : f[k] = IF f[k - 1] = 0 THEN 0 ELSE lst.next[f[k - 1]]
  <2> SUFFICES ASSUME NEW k \in 1..n
               PROVE  f[k] = IF f[k - 1] = 0 THEN 0 ELSE lst.next[f[k - 1]]
    OBVIOUS
  <2>1. k - 1 \in 0..n /\ f[k - 1] \in Pointers
    BY <1>3
  <2> QED
    BY <1>3, <2>1
<1>5. ASSUME NEW k \in 0..n
      PROVE  Ahead(lst, l, k) = f[k]
  <2> DEFINE Body(g) == [i \in 0..k |-> IF i = 0 THEN l
                                        ELSE IF g[i - 1] = 0 THEN 0
                                        ELSE lst.next[g[i - 1]]]
             h == [i \in 0..k |-> f[i]]
  <2>1. h = Body(h)
    <3> SUFFICES ASSUME NEW i \in 0..k
                 PROVE  h[i] = IF i = 0 THEN l ELSE IF h[i - 1] = 0 THEN 0
                                        ELSE lst.next[h[i - 1]]
      OBVIOUS
    <3>1. CASE i = 0
      BY <1>3, <3>1
    <3>2. CASE i # 0
      <4>1. i \in 1..n /\ i - 1 \in 0..k
        BY <3>2
      <4> QED
        BY <1>4, <3>2, <4>1
    <3> QED
      BY <3>1, <3>2
  <2> DEFINE g == CHOOSE x : x = Body(x)
  <2>2. g = Body(g)
    <3> HIDE DEF Body, h
    <3> QED
      BY <2>1
  <2>3. Ahead(lst, l, k) = g[k]
    BY DEF Ahead
  <2> DEFINE same == {i \in 0..k : g[i] = f[i]}
  <2> HIDE DEF g
  <2>4. \A i \in 0..k : g[i] = IF i = 0 THEN l ELSE IF g[i - 1] = 0 THEN 0
                                        ELSE lst.next[g[i - 1]]
    BY <2>2
  <2>5. 0 \in same
    BY <1>3, <2>4
  <2>6. \A i \in 1..k : i - 1 \in same => i \in same
    BY <1>4, <2>4
  <2>7. 0..k \subseteq same
    <3> HIDE DEF same
    <3> QED
      BY <2>5, <2>6, Ascent
  <2> QED
    BY <2>3, <2>7
<1> QED
  BY <1>3, <1>4, <1>5 DEF Walk

LEMMA AheadSteps ==
  ASSUME NEW lst \in Lists, NEW l \in Pointers
  PROVE  /\ Ahead(lst, l, 0) = l
         /\ \A k \in Nat :
              /\ Ahead(lst, l, k) \in Pointers
              /\ Ahead(lst, l, k + 1) = IF Ahead(lst, l, k) = 0 THEN 0
                                        ELSE lst.next[Ahead(lst, l, k)]
<1>1. Ahead(lst, l, 0) = l
  BY AheadRecurrence DEF Walk
<1>2. ASSUME NEW k \in Nat
      PROVE  /\ Ahead(lst, l, k) \in Pointers
             /\ Ahead(lst, l, k + 1) = IF Ahead(lst, l, k) = 0 THEN 0
                                       ELSE lst.next[Ahead(lst, l, k)]
  <2> DEFINE n == k + 1
  <2>0. n \in Nat
    OBVIOUS
  <2> HIDE DEF n
  <2>1. PICK f : Walk(f, lst, l, n)
    BY <2>0, AheadRecurrence
  <2>2. k \in 0..n /\ k + 1 \in 0..n /\ k + 1 \in 1..n /\ (k + 1) - 1 = k
    BY DEF n
  <2> QED
    BY <2>1, <2>2 DEF Walk
<1> QED
  BY <1>1, <1>2

LEMMA AheadBack ==
  ASSUME NEW lst \in Lists, NEW l \in Pointers, NEW k \in Nat \ {0}
  PROVE  Ahead(lst, l, k) = IF Ahead(lst, l, k - 1) = 0 THEN 0
                            ELSE lst.next[Ahead(lst, l, k - 1)]
<1>1. k - 1 \in Nat /\ (k - 1) + 1 = k
  OBVIOUS
<1> QED
  BY <1>1, AheadSteps

(* A set of links that holds with each link the one its pointer leads to. *)
Closed(lst, C) == \A l \in C : lst.next[l] \in C \cup {0}

(* What is reached from a member of a closed set stays in it. *)
LEMMA ChainWithin ==
  ASSUME NEW lst \in Lists, NEW C \in SUBSET Links, Closed(lst, C),
         NEW l \in C \cup {0}
  PROVE  Chain(lst, l) \subseteq C
<1>0. l \in Pointers
  BY PointerType
<1> DEFINE in == {k \in Nat : Ahead(lst, l, k) \in C \cup {0}}
<1>1. 0 \in in
  BY <1>0, AheadSteps
<1>2. ASSUME NEW k \in Nat \ {0}, k - 1 \in in
      PROVE  k \in in
  <2>1. k - 1 \in Nat /\ (k - 1) + 1 = k
    OBVIOUS
  <2>2. Ahead(lst, l, k) = IF Ahead(lst, l, k - 1) = 0 THEN 0
                           ELSE lst.next[Ahead(lst, l, k - 1)]
    BY <1>0, <2>1, AheadSteps
  <2> QED
    BY <1>2, <2>2 DEF Closed
<1>3. \A k \in 0..MaxLinks : k \in in
  <2> HIDE DEF in
  <2>1. 0..MaxLinks \subseteq in
    BY <1>1, <1>2, RolodexAssumption, Ascent
  <2> QED
    BY <2>1
<1> QED
  BY <1>3 DEF Chain

LEMMA ChainStarts ==
  ASSUME NEW lst \in Lists, NEW l \in Links
  PROVE  l \in Chain(lst, l)
<1>1. l \in Pointers /\ l # 0 /\ 0 \in 0..MaxLinks
  BY PointerType, RolodexAssumption
<1>2. Ahead(lst, l, 0) = l
  BY <1>1, AheadSteps
<1> QED
  BY <1>1, <1>2 DEF Chain

LEMMA ChainType ==
  ASSUME NEW lst \in Lists, NEW l \in Pointers
  PROVE  Chain(lst, l) \subseteq Links /\ Chain(lst, 0) = {}
<1>1. Chain(lst, l) \subseteq Links
  BY AheadSteps, PointerType, RolodexAssumption DEF Chain
<1>2. Chain(lst, 0) \subseteq {}
  <2>1. {} \in SUBSET Links /\ Closed(lst, {}) /\ 0 \in {} \cup {0}
    BY DEF Closed
  <2> QED
    BY <2>1, ChainWithin
<1> QED
  BY <1>1, <1>2

(* Where pointers lead to higher and higher ranks nothing comes back, so    *)
(* that the chain from a link is all that can be reached from it.           *)
LEMMA ChainClosed ==
  ASSUME NEW lst \in Lists, NEW D \in SUBSET Links, NEW rank \in [Links -> Links],
         \A x \in D : lst.next[x] # 0 =>
           lst.next[x] \in D /\ rank[x] < rank[lst.next[x]],
         NEW l \in D
  PROVE  Closed(lst, Chain(lst, l))
<1>0. l \in Pointers /\ D \subseteq Links /\ l # 0 /\ 0 \notin D
  BY PointerType
<1> DEFINE far == {k \in Nat : Ahead(lst, l, k) # 0 =>
                     Ahead(lst, l, k) \in D /\ rank[Ahead(lst, l, k)] > k}
<1>1. 0 \in far
  <2>1. rank[l] \in Links
    BY <1>0
  <2>2. rank[l] > 0
    BY <2>1, RolodexAssumption DEF Links
  <2> QED
    BY <1>0, <2>2, AheadSteps
<1>2. ASSUME NEW k \in Nat \ {0}, k - 1 \in far
      PROVE  k \in far
  <2>1. k - 1 \in Nat /\ (k - 1) + 1 = k
    OBVIOUS
  <2> DEFINE a == Ahead(lst, l, k - 1)
             b == Ahead(lst, l, k)
  <2>2. b = IF a = 0 THEN 0 ELSE lst.next[a]
    BY <1>0, <2>1, AheadSteps
  <2>3. ASSUME b # 0 PROVE b \in D /\ rank[b] > k
    <3>1. a # 0 /\ a \in D /\ rank[a] > k - 1 /\ b = lst.next[a]
      BY <1>2, <2>2, <2>3
    <3>2. b \in D /\ rank[a] < rank[b]
      BY <2>3, <3>1
    <3>3. rank[a] \in Nat /\ rank[b] \in Nat
      BY <1>0, <3>1, <3>2, PointerType
    <3> HIDE DEF a, b
    <3> QED
      BY <3>1, <3>2, <3>3
  <2> QED
    BY <2>3
<1>3. ASSUME NEW k \in 0..MaxLinks, Ahead(lst, l, k) # 0
      PROVE  lst.next[Ahead(lst, l, k)] \in Chain(lst, l) \cup {0}
  <2>1. k \in far
    <3> HIDE DEF far
    <3>1. 0..MaxLinks \subseteq far
      BY <1>1, <1>2, RolodexAssumption, Ascent
    <3> QED
      BY <3>1
  <2>2. rank[Ahead(lst, l, k)] > k /\ rank[Ahead(lst, l, k)] \in Links
    BY <1>0, <1>3, <2>1
  <2>3. k + 1 \in 0..MaxLinks /\ k \in Nat
    BY <2>2, RolodexAssumption DEF Links
  <2>4. Ahead(lst, l, k + 1) = lst.next[Ahead(lst, l, k)]
    BY <1>0, <1>3, <2>3, AheadSteps
  <2> QED
    BY <2>3, <2>4 DEF Chain
<1> QED
  BY <1>3 DEF Chain, Closed

-----------------------------------------------------------------------------
(* The list as a whole: L the links of the entries that are in it. *)
Linked(lst, L) ==
  /\ lst.begin \in L \cup {0} /\ (lst.begin = 0 <=> L = {})
  /\ L # {} => lst.end \in L /\ lst.next[lst.end] = 0 /\ lst.prev[lst.begin] = 0
  /\ \A l \in L :
       /\ lst.next[l] \in L \cup {0} /\ lst.prev[l] \in L \cup {0}
       /\ IF lst.next[l] = 0 THEN lst.end = l ELSE lst.prev[lst.next[l]] = l
       /\ IF lst.prev[l] = 0 THEN lst.begin = l ELSE lst.next[lst.prev[l]] = l

(* D: the links of entries that are in the list, or were before they were   *)
(* deleted; from each the pointers lead on to the next that is in the list, *)
(* or to others that were deleted before it.                                *)
Ranked(lst, L, rank, D) ==
  /\ L \subseteq D
  /\ \A x, y \in D : rank[x] = rank[y] => x = y
  /\ \A x \in D : lst.next[x] # 0 =>
       lst.next[x] \in D /\ rank[x] < rank[lst.next[x]]
  /\ \A x \in D : \A y \in L : rank[x] < rank[y] =>
       lst.next[x] # 0 /\ rank[lst.next[x]] <= rank[y]

Sorted(lst, ent, L) ==
  \A l \in L : lst.next[l] # 0 => ent[l].name <= ent[lst.next[l]].name

(* Ranks can always be counted from 1 to the number of links. *)
LEMMA RanksBounded ==
  ASSUME NEW D \in SUBSET Links, NEW rank \in [Links -> Nat]
  PROVE  \E rk \in [Links -> Links] :
           \A x, y \in D : rk[x] < rk[y] <=> rank[x] < rank[y]
<1> DEFINE low(x) == {z \in D : rank[z] <= rank[x]}
<1>1. IsFiniteSet(Links) /\ Cardinality(Links) = MaxLinks
  BY FS_Interval, RolodexAssumption DEF Links
<1>2. ASSUME NEW x \in D
      PROVE  IsFiniteSet(low(x)) /\ Cardinality(low(x)) \in Links
  <2>1. low(x) \subseteq Links /\ x \in low(x) /\ rank[x] \in Nat
    OBVIOUS
  <2>2. IsFiniteSet(low(x)) /\ Cardinality(low(x)) <= MaxLinks
    BY <1>1, <2>1, FS_Subset
  <2>3. Cardinality(low(x)) \in Nat /\ Cardinality(low(x)) # 0
    <3> HIDE DEF low
    <3> QED
      BY <2>1, <2>2, FS_CardinalityType, FS_EmptySet
  <2> QED
    BY <2>2, <2>3 DEF Links
<1>3. ASSUME NEW x \in D, NEW y \in D
      PROVE  Cardinality(low(x)) < Cardinality(low(y)) <=> rank[x] < rank[y]
  <2>0. rank[x] \in Nat /\ rank[y] \in Nat
    OBVIOUS
  <2>1. Cardinality(low(x)) \in Nat /\ Cardinality(low(y)) \in Nat
    BY <1>2, PointerType
  <2>2. CASE rank[x] < rank[y]
    <3>1. low(x) \subseteq low(y) /\ y \in low(y) /\ y \notin low(x)
      BY <2>0, <2>2
    <3>2. low(x) # low(y)
      BY <3>1
    <3>3. Cardinality(low(x)) <= Cardinality(low(y))
          /\ Cardinality(low(x)) # Cardinality(low(y))
      <4> HIDE DEF low
      <4> QED
        BY <1>2, <3>1, <3>2, FS_Subset
    <3> HIDE DEF low
    <3> QED
      BY <2>1, <2>2, <3>3
  <2>3. CASE ~(rank[x] < rank[y])
    <3>1. low(y) \subseteq low(x)
      BY <2>0, <2>3
    <3>2. Cardinality(low(y)) <= Cardinality(low(x))
      <4> HIDE DEF low
      <4> QED
        BY <1>2, <3>1, FS_Subset
    <3> HIDE DEF low
    <3> QED
      BY <2>1, <2>3, <3>2
  <2> QED
    BY <2>2, <2>3
<1> DEFINE rk == [x \in Links |-> IF x \in D THEN Cardinality(low(x)) ELSE x]
<1> HIDE DEF low
<1>4. rk \in [Links -> Links]
  BY <1>2
<1>5. \A x, y \in D : rk[x] < rk[y] <=> rank[x] < rank[y]
  BY <1>3
<1> QED
  BY <1>4, <1>5

LEMMA Reranked ==
  ASSUME NEW lst \in Lists, NEW D \in SUBSET Links, NEW L \in SUBSET D,
         NEW rank \in [Links -> Nat], Ranked(lst, L, rank, D)
  PROVE  \E rk \in [Links -> Links] : Ranked(lst, L, rk, D)
<1>1. PICK rk \in [Links -> Links] :
        \A x, y \in D : rk[x] < rk[y] <=> rank[x] < rank[y]
  BY RanksBounded
<1>2. \A x \in D : rk[x] \in Nat /\ rank[x] \in Nat
  BY <1>1, PointerType
<1>3. \A x, y \in D : /\ rk[x] = rk[y] => x = y
                      /\ rank[x] <= rank[y] => rk[x] <= rk[y]
  BY <1>1, <1>2 DEF Ranked
<1>4. \A x \in D : lst.next[x] # 0 => lst.next[x] \in D /\ rk[x] < rk[lst.next[x]]
  BY <1>1 DEF Ranked
<1>5. \A x \in D : \A y \in L : rk[x] < rk[y] =>
        lst.next[x] # 0 /\ rk[lst.next[x]] <= rk[y]
  BY <1>1, <1>3, <1>4 DEF Ranked
<1> QED
  BY <1>3, <1>4, <1>5 DEF Ranked

-----------------------------------------------------------------------------
(* What the list holds is what the pointers from its begin lead to. *)
LEMMA ChainWhole ==
  ASSUME NEW lst \in Lists, NEW L \in SUBSET Links, Linked(lst, L),
         NEW D \in SUBSET Links, NEW rank \in [Links -> Links],
         Ranked(lst, L, rank, D)
  PROVE  Chain(lst, lst.begin) = L
<1>0. lst.begin \in Pointers /\ 0 \notin L
  BY PointerType DEF Linked
<1>1. Closed(lst, L)
  BY DEF Linked, Closed
<1>2. Chain(lst, lst.begin) \subseteq L
  BY <1>1, ChainWithin DEF Linked
<1> DEFINE missing == L \ Chain(lst, lst.begin)
           ranks == {rank[l] : l \in missing}
<1>3. ASSUME missing # {} PROVE FALSE
  <2>1. ranks \in SUBSET Nat /\ ranks # {}
    BY <1>3, PointerType
  <2>2. PICK l \in missing : \A x \in missing : rank[l] <= rank[x]
    <3>1. PICK least \in ranks : \A r \in ranks : least <= r
      <4> HIDE DEF ranks
      <4> QED
        BY <2>1, MinOfPositions
    <3> QED
      BY <3>1
  <2>3. lst.begin # 0 /\ lst.begin \in L
    BY <2>2 DEF Linked
  <2>4. lst.begin \in Chain(lst, lst.begin)
    BY <2>3, ChainStarts
  <2>5. lst.prev[l] \in L /\ lst.next[lst.prev[l]] = l /\ l # 0
    BY <1>0, <2>2, <2>4 DEF Linked
  <2>6. rank[lst.prev[l]] < rank[l]
    BY <2>5 DEF Ranked
  <2>7. rank[lst.prev[l]] \in Nat /\ rank[l] \in Nat
    BY <2>2, <2>5, PointerType
  <2>8. lst.prev[l] \in Chain(lst, lst.begin)
    BY <2>2, <2>5, <2>6, <2>7
  <2>9. Closed(lst, Chain(lst, lst.begin))
    <3>1. \A x \in L : lst.next[x] # 0 =>
            lst.next[x] \in L /\ rank[x] < rank[lst.next[x]]
      BY DEF Ranked, Linked
    <3> QED
      BY <2>3, <3>1, ChainClosed
  <2> QED
    BY <2>2, <2>5, <2>8, <2>9 DEF Closed
<1> QED
  BY <1>2, <1>3

-----------------------------------------------------------------------------
(* rolo_insert *)

(* Where it puts link: between before and r, either of which may be none. *)
Place(lst, ent, L, link, before, r) ==
  /\ r \in L \cup {0} /\ before \in L \cup {0}
  /\ r # 0 => lst.prev[r] = before /\ ent[link].name < ent[r].name
  /\ r = 0 => (L = {} /\ before = 0) \/ (L # {} /\ before = lst.end)
  /\ before # 0 => lst.next[before] = r /\ ent[before].name <= ent[link].name
  /\ before # 0 /\ r # 0 => before # r
  /\ before = 0 => lst.begin = r

Inserted(lst, link, before, r) ==
  SetPrev(SetNext([lst EXCEPT !.next[link] = r, !.prev[link] = before],
                  before, link),
          r, link)

LEMMA PlaceFound ==
  ASSUME NEW lst \in Lists, NEW ent \in [Links -> Fields], NEW link \in Links,
         NEW L \in SUBSET Links, Linked(lst, L),
         NEW D \in SUBSET Links, NEW rank \in [Links -> Links],
         Ranked(lst, L, rank, D)
  PROVE  \E before, r \in Pointers :
           /\ Place(lst, ent, L, link, before, r)
           /\ rolo_insert(lst, ent, link) = Inserted(lst, link, before, r)
<1>0. /\ lst.begin \in Pointers /\ 0 \notin L /\ L \subseteq Pointers /\ 0 \in Pointers
      /\ \A l \in Links : ent[l].name \in Nat
  <2>1. \A l \in Links : ent[l] \in Fields
    OBVIOUS
  <2> QED
    BY <2>1, PointerType DEF Linked, Fields
<1> DEFINE Here(k) == LET r == Ahead(lst, lst.begin, k)
                      IN r = 0 \/ ent[r].name > ent[link].name
           places == {k \in 0..MaxLinks : Here(k)}
           k == CHOOSE k \in 0..MaxLinks : Here(k) /\ \A i \in 0..k - 1 : ~Here(i)
           r == Ahead(lst, lst.begin, k)
           before == IF lst.begin = 0 THEN 0 ELSE IF r = 0 THEN lst.end ELSE lst.prev[r]
<1>1. rolo_insert(lst, ent, link) = Inserted(lst, link, before, r)
  BY DEF rolo_insert, Inserted
<1>2. \A i \in Nat : Ahead(lst, lst.begin, i) \in L \cup {0}
  <2> DEFINE in == {i \in Nat : Ahead(lst, lst.begin, i) \in L \cup {0}}
  <2>1. 0 \in in
    BY <1>0, AheadSteps DEF Linked
  <2>2. ASSUME NEW i \in Nat \ {0}, i - 1 \in in
        PROVE  i \in in
    <3>1. i - 1 \in Nat /\ (i - 1) + 1 = i
      OBVIOUS
    <3>2. Ahead(lst, lst.begin, i) = IF Ahead(lst, lst.begin, i - 1) = 0 THEN 0
                                     ELSE lst.next[Ahead(lst, lst.begin, i - 1)]
      BY <1>0, <3>1, AheadSteps
    <3> QED
      BY <2>2, <3>2 DEF Linked
  <2>3. ASSUME NEW i \in Nat PROVE i \in in
    <3> HIDE DEF in
    <3>1. 0..i \subseteq in
      BY <2>1, <2>2, Ascent
    <3> QED
      BY <3>1
  <2> QED
    BY <2>3
<1>3. Ahead(lst, lst.begin, MaxLinks) = 0
  <2>1. \A i \in Nat : Ahead(lst, lst.begin, i) # 0 =>
          rank[Ahead(lst, lst.begin, i)] > i
    <3> DEFINE far == {i \in Nat : Ahead(lst, lst.begin, i) # 0 =>
                         rank[Ahead(lst, lst.begin, i)] > i}
    <3>1. 0 \in far
      <4> DEFINE a == Ahead(lst, lst.begin, 0)
      <4>1. a # 0 => rank[a] \in Links
        BY <1>2
      <4> HIDE DEF a
      <4>2. a # 0 => rank[a] > 0
        BY <4>1, RolodexAssumption DEF Links
      <4> QED
        BY <4>2 DEF a
    <3>2. ASSUME NEW i \in Nat \ {0}, i - 1 \in far
          PROVE  i \in far
      <4>1. i - 1 \in Nat /\ (i - 1) + 1 = i
        OBVIOUS
      <4> DEFINE a == Ahead(lst, lst.begin, i - 1)
                 b == Ahead(lst, lst.begin, i)
      <4>2. b = IF a = 0 THEN 0 ELSE lst.next[a]
        BY <1>0, <4>1, AheadSteps
      <4>3. a \in L \cup {0} /\ b \in L \cup {0}
        BY <1>2, <4>1
      <4>4. ASSUME b # 0 PROVE rank[b] > i
        <5>1. a # 0 /\ rank[a] > i - 1 /\ b = lst.next[a]
          BY <3>2, <4>2, <4>4
        <5>2. rank[a] < rank[b]
          BY <4>3, <4>4, <5>1 DEF Ranked
        <5>3. rank[a] \in Nat /\ rank[b] \in Nat
          BY <4>3, <4>4, <5>1, PointerType
        <5> HIDE DEF a, b
        <5> QED
          BY <5>1, <5>2, <5>3
      <4> QED
        BY <4>4
    <3>3. ASSUME NEW i \in Nat PROVE i \in far
      <4> HIDE DEF far
      <4>1. 0..i \subseteq far
        BY <3>1, <3>2, Ascent
      <4> QED
        BY <4>1
    <3> QED
      BY <3>3
  <2>2. ASSUME Ahead(lst, lst.begin, MaxLinks) # 0 PROVE FALSE
    <3>1. Ahead(lst, lst.begin, MaxLinks) \in Links
      BY <1>2, <2>2, RolodexAssumption
    <3>2. rank[Ahead(lst, lst.begin, MaxLinks)] \in 1..MaxLinks
      BY <3>1 DEF Links
    <3> QED
      BY <2>1, <2>2, <3>2, RolodexAssumption
  <2> QED
    BY <2>2
<1>4. /\ k \in 0..MaxLinks /\ Here(k)
      /\ \A i \in 0..k - 1 : ~Here(i)
  <2>1. places \in SUBSET Nat /\ MaxLinks \in places
    BY <1>3, RolodexAssumption
  <2>2. PICK least \in places : \A i \in places : least <= i
    <3> HIDE DEF places
    <3> QED
      BY <2>1, MinOfPositions
  <2>3. least \in 0..MaxLinks /\ Here(least)
    BY <2>2
  <2>4. ASSUME NEW i \in 0..least - 1 PROVE ~Here(i)
    <3> HIDE DEF Here
    <3>1. i \in 0..MaxLinks /\ ~(least <= i)
      BY <2>3, RolodexAssumption
    <3>2. i \notin places
      <4> HIDE DEF places
      <4> QED
        BY <2>2, <3>1
    <3> QED
      BY <3>1, <3>2
  <2> HIDE DEF Here
  <2> QED
    BY <2>3, <2>4
<1>5. r \in L \cup {0}
  BY <1>2, <1>4
<1>6. k = 0 => r = lst.begin
  BY <1>0, AheadSteps
<1>7. ASSUME k # 0
      PROVE  \E a \in L : lst.next[a] = r /\ ent[a].name <= ent[link].name
  <2> DEFINE a == Ahead(lst, lst.begin, k - 1)
  <2>1. k - 1 \in Nat /\ (k - 1) + 1 = k /\ k - 1 \in 0..k - 1
    <3>1. k \in 0..MaxLinks
      BY <1>4
    <3> HIDE DEF k
    <3> QED
      BY <1>7, <3>1, RolodexAssumption
  <2>2. a # 0 /\ ~(ent[a].name > ent[link].name)
    BY <1>4, <2>1
  <2>3. a \in L
    BY <1>2, <2>1, <2>2
  <2>4. r = lst.next[a]
    <3>1. Ahead(lst, lst.begin, (k - 1) + 1)
            = IF a = 0 THEN 0 ELSE lst.next[a]
      <4> HIDE DEF k
      <4> QED
        BY <1>0, <2>1, AheadSteps
    <3> HIDE DEF a, k
    <3> QED
      BY <2>1, <2>2, <3>1
  <2>5. ent[a].name \in Nat /\ ent[link].name \in Nat
    BY <1>0, <2>3
  <2> HIDE DEF a, k
  <2> QED
    BY <2>2, <2>3, <2>4, <2>5
<1>8. ent[link].name \in Nat /\ (r # 0 => ent[link].name < ent[r].name)
  <2>1. r # 0 => ent[r].name \in Nat /\ ent[r].name > ent[link].name
    BY <1>0, <1>4, <1>5
  <2> HIDE DEF r
  <2> QED
    BY <1>0, <2>1
<1> HIDE DEF k, Here, r
<1>9. Place(lst, ent, L, link, before, r)
  <2>1. CASE k = 0
    <3>1. r = lst.begin
      BY <1>6, <2>1
    <3> QED
      BY <1>0, <1>5, <1>8, <3>1 DEF Place, Linked
  <2>2. CASE k # 0
    <3>1. PICK a \in L : lst.next[a] = r /\ ent[a].name <= ent[link].name
      BY <1>7, <2>2
    <3>2. a # 0 /\ lst.begin # 0 /\ L # {}
      BY <1>0, <3>1 DEF Linked
    <3>3. before = a
      BY <3>1, <3>2 DEF Linked
    <3>4. r # 0 => a # r
      <4>1. r # 0 => rank[a] < rank[r] /\ rank[a] \in Nat
        BY <1>5, <3>1, PointerType DEF Ranked
      <4> QED
        BY <4>1
    <3> HIDE DEF before
    <3> QED
      BY <1>5, <1>8, <3>1, <3>2, <3>3, <3>4 DEF Place, Linked
  <2> QED
    BY <2>1, <2>2
<1>10. before \in Pointers /\ r \in Pointers
  BY <1>0, <1>5, <1>9 DEF Place
<1> HIDE DEF before
<1> QED
  BY <1>1, <1>9, <1>10

LEMMA InsertedFields ==
  ASSUME NEW lst \in Lists, NEW link \in Links, NEW before \in Pointers,
         NEW r \in Pointers
  PROVE  LET new == Inserted(lst, link, before, r) IN
         /\ new \in Lists
         /\ new.begin = IF before = 0 THEN link ELSE lst.begin
         /\ new.end = IF r = 0 THEN link ELSE lst.end
         /\ \A l \in Links :
              /\ new.next[l] = IF l = before THEN link
                               ELSE IF l = link THEN r ELSE lst.next[l]
              /\ new.prev[l] = IF l = r THEN link
                               ELSE IF l = link THEN before ELSE lst.prev[l]
<1>0. link \in Pointers /\ 0 \notin Links /\ Pointers = Links \cup {0}
  BY PointerType
<1> DEFINE one == [lst EXCEPT !.next[link] = r, !.prev[link] = before]
           two == SetNext(one, before, link)
           new == SetPrev(two, r, link)
<1>1. /\ one \in Lists /\ one.begin = lst.begin /\ one.end = lst.end
      /\ \A l \in Links :
           /\ one.next[l] = IF l = link THEN r ELSE lst.next[l]
           /\ one.prev[l] = IF l = link THEN before ELSE lst.prev[l]
  BY DEF Lists
<1> HIDE DEF one
<1>2. /\ two \in Lists /\ two.prev = one.prev /\ two.end = one.end
      /\ two.begin = IF before = 0 THEN link ELSE one.begin
      /\ \A l \in Links : two.next[l] = IF l = before THEN link ELSE one.next[l]
  <2>1. CASE before = 0
    BY <1>0, <1>1, <2>1 DEF Lists, SetNext
  <2>2. CASE before # 0
    BY <1>0, <1>1, <2>2 DEF Lists, SetNext
  <2> QED
    BY <2>1, <2>2
<1> HIDE DEF two
<1>3. /\ new \in Lists /\ new.next = two.next /\ new.begin = two.begin
      /\ new.end = IF r = 0 THEN link ELSE two.end
      /\ \A l \in Links : new.prev[l] = IF l = r THEN link ELSE two.prev[l]
  <2>1. CASE r = 0
    BY <1>0, <1>2, <2>1 DEF Lists, SetPrev
  <2>2. CASE r # 0
    BY <1>0, <1>2, <2>2 DEF Lists, SetPrev
  <2> QED
    BY <2>1, <2>2
<1>4. Inserted(lst, link, before, r) = new
  BY DEF Inserted, one, two
<1> HIDE DEF new
<1> QED
  BY <1>1, <1>2, <1>3, <1>4

LEMMA InsertedLinked ==
  ASSUME NEW lst \in Lists, NEW ent, NEW L \in SUBSET Links, Linked(lst, L),
         NEW link \in Links \ L, NEW before \in Pointers, NEW r \in Pointers,
         Place(lst, ent, L, link, before, r)
  PROVE  Linked(Inserted(lst, link, before, r), L \cup {link})
<1> DEFINE new == Inserted(lst, link, before, r)
           M == L \cup {link}
<1>0. link # 0 /\ 0 \notin L /\ link # before /\ link # r
  BY PointerType DEF Place
<1>1. /\ new.begin = IF before = 0 THEN link ELSE lst.begin
      /\ new.end = IF r = 0 THEN link ELSE lst.end
      /\ \A l \in Links :
           /\ new.next[l] = IF l = before THEN link
                            ELSE IF l = link THEN r ELSE lst.next[l]
           /\ new.prev[l] = IF l = r THEN link
                            ELSE IF l = link THEN before ELSE lst.prev[l]
  BY InsertedFields
<1> HIDE DEF new
<1>2. new.begin \in M /\ new.end \in M
  BY <1>1 DEF Linked, Place
<1>3. new.next[new.end] = 0
  BY <1>0, <1>1 DEF Linked, Place
<1>4. new.prev[new.begin] = 0
  BY <1>0, <1>1 DEF Linked, Place
<1>5. ASSUME NEW l \in M
      PROVE  /\ new.next[l] \in M \cup {0}
             /\ IF new.next[l] = 0 THEN new.end = l ELSE new.prev[new.next[l]] = l
  <2>1. CASE l = link
    BY <1>0, <1>1, <2>1 DEF Place
  <2>2. CASE l = before
    BY <1>0, <1>1, <2>2
  <2>3. CASE l # link /\ l # before
    BY <1>0, <1>1, <2>3 DEF Linked, Place
  <2> QED
    BY <2>1, <2>2, <2>3
<1>6. ASSUME NEW l \in M
      PROVE  /\ new.prev[l] \in M \cup {0}
             /\ IF new.prev[l] = 0 THEN new.begin = l ELSE new.next[new.prev[l]] = l
  <2>1. CASE l = link
    BY <1>0, <1>1, <2>1 DEF Place
  <2>2. CASE l = r
    BY <1>0, <1>1, <2>2
  <2>3. CASE l # link /\ l # r
    BY <1>0, <1>1, <2>3 DEF Linked, Place
  <2> QED
    BY <2>1, <2>2, <2>3
<1>7. 0 \notin M /\ M # {}
  BY <1>0
<1> HIDE DEF M
<1>8. Linked(new, M)
  BY <1>2, <1>3, <1>4, <1>5, <1>6, <1>7 DEF Linked
<1> QED
  BY <1>8 DEF new, M

LEMMA InsertedSorted ==
  ASSUME NEW lst \in Lists, NEW ent, NEW L \in SUBSET Links, Linked(lst, L),
         NEW link \in Links \ L, NEW before \in Pointers, NEW r \in Pointers,
         Place(lst, ent, L, link, before, r), ent \in [Links -> Fields],
         Sorted(lst, ent, L)
  PROVE  Sorted(Inserted(lst, link, before, r), ent, L \cup {link})
<1> DEFINE new == Inserted(lst, link, before, r)
<1>0. link # before /\ link # r /\ 0 \notin L
  BY PointerType DEF Place
<1>1. \A l \in Links : new.next[l] = IF l = before THEN link
                                     ELSE IF l = link THEN r ELSE lst.next[l]
  BY InsertedFields
<1> HIDE DEF new
<1>2. \A l \in Links : ent[l].name \in Nat
  <2>1. \A l \in Links : ent[l] \in Fields
    OBVIOUS
  <2> QED
    BY <2>1, RolodexAssumption DEF Fields
<1> SUFFICES ASSUME NEW l \in L \cup {link}, new.next[l] # 0
             PROVE  ent[l].name <= ent[new.next[l]].name
  BY DEF Sorted, new
<1>3. CASE l = link
  BY <1>0, <1>1, <1>2, <1>3 DEF Place
<1>4. CASE l = before
  BY <1>0, <1>1, <1>2, <1>4 DEF Place
<1>5. CASE l # link /\ l # before
  BY <1>0, <1>1, <1>5 DEF Sorted
<1> QED
  BY <1>3, <1>4, <1>5

LEMMA InsertedRanked ==
  ASSUME NEW lst \in Lists, NEW ent, NEW L \in SUBSET Links, Linked(lst, L),
         NEW link \in Links \ L, NEW before \in Pointers, NEW r \in Pointers,
         Place(lst, ent, L, link, before, r),
         NEW D \in SUBSET Links, NEW rank \in [Links -> Links],
         Ranked(lst, L, rank, D)
  PROVE  \E rk \in [Links -> Links] :
           Ranked(Inserted(lst, link, before, r), L \cup {link}, rk, L \cup {link})
<1> DEFINE new == Inserted(lst, link, before, r)
           M == L \cup {link}
           rk == [l \in Links |-> IF l # link THEN 2 * rank[l]
                                  ELSE IF r = 0 THEN 2 * MaxLinks + 1
                                  ELSE 2 * rank[r] - 1]
<1>0. /\ link # before /\ link # r /\ 0 \notin L /\ r \in L \cup {0}
      /\ before \in L \cup {0} /\ L \subseteq D
  BY PointerType DEF Place, Ranked
<1>1. new \in Lists /\ \A l \in Links : new.next[l] = IF l = before THEN link
                                     ELSE IF l = link THEN r ELSE lst.next[l]
  BY InsertedFields
<1>2. \A l \in Links : rank[l] \in Nat /\ rank[l] >= 1 /\ rank[l] <= MaxLinks
  <2>1. \A l \in Links : rank[l] \in Links
    OBVIOUS
  <2> QED
    BY <2>1, RolodexAssumption DEF Links
<1>3. rk \in [Links -> Nat]
  <2>1. ASSUME NEW l \in Links PROVE rk[l] \in Nat
    BY <1>0, <1>2, RolodexAssumption
  <2> QED
    BY <2>1
<1>4. /\ \A l \in L : rk[l] = 2 * rank[l]
      /\ rk[link] = IF r = 0 THEN 2 * MaxLinks + 1 ELSE 2 * rank[r] - 1
  BY <1>0
<1> HIDE DEF new, rk
<1>5. ASSUME NEW l \in L
      PROVE  /\ rk[l] # rk[link]
             /\ r # 0 => (rk[l] < rk[link] <=> rank[l] < rank[r])
             /\ r = 0 => rk[l] < rk[link]
  BY <1>0, <1>2, <1>4, RolodexAssumption
<1>6. \A x, y \in M : rk[x] = rk[y] => x = y
  BY <1>0, <1>2, <1>4, <1>5 DEF Ranked
<1>7. ASSUME NEW x \in M, new.next[x] # 0
      PROVE  new.next[x] \in M /\ rk[x] < rk[new.next[x]]
  <2>1. CASE x = link
    BY <1>0, <1>1, <1>2, <1>4, <1>7, <2>1
  <2>2. CASE x = before
    <3>1. new.next[x] = link /\ x \in L /\ lst.next[x] = r
      BY <1>0, <1>1, <1>7, <2>2 DEF Place
    <3>2. r # 0 => rank[x] < rank[r]
      BY <1>0, <3>1 DEF Ranked
    <3> QED
      BY <1>5, <3>1, <3>2
  <2>3. CASE x # link /\ x # before
    <3>1. new.next[x] = lst.next[x] /\ x \in L /\ lst.next[x] \in L
      BY <1>0, <1>1, <1>7, <2>3 DEF Linked
    <3>2. rank[x] < rank[lst.next[x]]
      BY <1>0, <1>7, <3>1 DEF Ranked
    <3> QED
      BY <1>2, <1>4, <3>1, <3>2
  <2> QED
    BY <2>1, <2>2, <2>3
<1>8. ASSUME NEW x \in M, NEW y \in M, rk[x] < rk[y]
      PROVE  new.next[x] # 0 /\ rk[new.next[x]] <= rk[y]
  <2>1. CASE x = link
    <3>1. y \in L
      BY <1>3, <1>8, <2>1
    <3>2. r # 0 /\ rank[r] <= rank[y]
      BY <1>0, <1>2, <1>3, <1>5, <1>8, <2>1, <3>1
    <3> QED
      BY <1>0, <1>1, <1>2, <1>4, <2>1, <3>1, <3>2
  <2>2. CASE x = before
    <3>1. new.next[x] = link /\ x \in L /\ lst.next[x] = r /\ link # 0
      BY <1>0, <1>1, <2>2, PointerType DEF Place
    <3>2. ASSUME y # link PROVE rk[link] <= rk[y]
      <4>1. y \in L /\ rank[x] < rank[y]
        BY <1>2, <1>4, <1>8, <3>1, <3>2
      <4>2. r # 0 /\ rank[r] <= rank[y]
        BY <1>0, <3>1, <4>1 DEF Ranked
      <4> QED
        BY <1>0, <1>2, <1>4, <4>1, <4>2
    <3>3. rk[link] <= rk[link]
      BY <1>3
    <3> QED
      BY <3>1, <3>2, <3>3
  <2>3. CASE x # link /\ x # before
    <3>1. new.next[x] = lst.next[x] /\ x \in L
      BY <1>0, <1>1, <2>3 DEF Linked
    <3>2. CASE y \in L
      <4>1. rank[x] < rank[y]
        BY <1>2, <1>4, <1>8, <3>1, <3>2
      <4>2. lst.next[x] # 0 /\ rank[lst.next[x]] <= rank[y]
        BY <1>0, <3>1, <3>2, <4>1 DEF Ranked
      <4>3. lst.next[x] \in L
        BY <3>1, <4>2 DEF Linked
      <4> QED
        BY <1>2, <1>4, <3>1, <3>2, <4>2, <4>3
    <3>3. CASE y = link /\ r # 0
      <4>1. rank[x] < rank[r] /\ r \in L
        BY <1>0, <1>5, <1>8, <3>1, <3>3
      <4>2. lst.next[x] # 0 /\ rank[lst.next[x]] <= rank[r]
        BY <1>0, <3>1, <4>1 DEF Ranked
      <4>3. lst.next[x] \in L /\ lst.prev[lst.next[x]] = x
        BY <3>1, <4>2 DEF Linked
      <4>4. lst.next[x] # r
        BY <2>3, <3>3, <4>3 DEF Place
      <4>5. rank[lst.next[x]] # rank[r]
        BY <1>0, <4>1, <4>3, <4>4 DEF Ranked
      <4> QED
        BY <1>2, <1>4, <3>1, <3>3, <4>1, <4>2, <4>3, <4>5
    <3>4. CASE y = link /\ r = 0
      <4>1. before = lst.end
        BY <3>1, <3>4 DEF Place
      <4>2. lst.next[x] # 0 /\ lst.next[x] \in L
        BY <2>3, <3>1, <4>1 DEF Linked
      <4>3. rk[lst.next[x]] < rk[link]
        BY <1>5, <3>4, <4>2
      <4> QED
        BY <1>3, <3>1, <3>4, <4>2, <4>3
    <3> QED
      BY <3>2, <3>3, <3>4
  <2> QED
    BY <2>1, <2>2, <2>3
<1> HIDE DEF M
<1>9. Ranked(new, M, rk, M)
  BY <1>6, <1>7, <1>8 DEF Ranked
<1>10. M \in SUBSET Links /\ M \in SUBSET M
  BY DEF M
<1>11. \E k \in [Links -> Links] : Ranked(new, M, k, M)
  BY <1>1, <1>3, <1>9, <1>10, Reranked
<1> QED
  BY <1>11 DEF new, M

(* The list of L, whole, with nothing else to be reached from it. *)
Whole(lst, L) ==
  Linked(lst, L) /\ \E rank \in [Links -> Links] : Ranked(lst, L, rank, L)

LEMMA InsertWhole ==
  ASSUME NEW lst \in Lists, NEW ent \in [Links -> Fields],
         NEW L \in SUBSET Links, Whole(lst, L), NEW link \in Links \ L
  PROVE  /\ rolo_insert(lst, ent, link) \in Lists
         /\ Whole(rolo_insert(lst, ent, link), L \cup {link})
         /\ Sorted(lst, ent, L) =>
              Sorted(rolo_insert(lst, ent, link), ent, L \cup {link})
<1>1. PICK rank \in [Links -> Links] : Linked(lst, L) /\ Ranked(lst, L, rank, L)
  BY DEF Whole
<1>2. link \in Links /\ L \in SUBSET Links
  OBVIOUS
<1>3. PICK before \in Pointers, r \in Pointers :
        /\ Place(lst, ent, L, link, before, r)
        /\ rolo_insert(lst, ent, link) = Inserted(lst, link, before, r)
  BY <1>1, <1>2, PlaceFound
<1>4. Inserted(lst, link, before, r) \in Lists
  BY <1>2, InsertedFields
<1>5. Linked(Inserted(lst, link, before, r), L \cup {link})
  BY <1>1, <1>3, InsertedLinked
<1>6. \E rk \in [Links -> Links] :
        Ranked(Inserted(lst, link, before, r), L \cup {link}, rk, L \cup {link})
  BY <1>1, <1>3, InsertedRanked
<1>7. Sorted(lst, ent, L) =>
        Sorted(Inserted(lst, link, before, r), ent, L \cup {link})
  BY <1>1, <1>3, InsertedSorted
<1> QED
  BY <1>3, <1>4, <1>5, <1>6, <1>7 DEF Whole

-----------------------------------------------------------------------------
(* rolo_delete *)

LEMMA DeletedFields ==
  ASSUME NEW lst \in Lists, NEW x \in Links
  PROVE  LET new == rolo_delete(lst, x)
             a == lst.prev[x]
             b == lst.next[x]
         IN  /\ new \in Lists
             /\ new.begin = IF a = 0 THEN b ELSE lst.begin
             /\ new.end = IF b = 0 THEN a ELSE lst.end
             /\ \A l \in Links :
                  /\ new.next[l] = IF l = a THEN b ELSE lst.next[l]
                  /\ new.prev[l] = IF l = b THEN a ELSE lst.prev[l]
<1> DEFINE a == lst.prev[x]
           b == lst.next[x]
           one == SetNext(lst, a, b)
           new == SetPrev(one, b, a)
<1>0. 0 \notin Links /\ Pointers = Links \cup {0} /\ a \in Pointers /\ b \in Pointers
  BY PointerType DEF Lists
<1>1. rolo_delete(lst, x) = new
  BY DEF rolo_delete
<1> HIDE DEF a, b
<1>2. /\ one \in Lists /\ one.prev = lst.prev /\ one.end = lst.end
      /\ one.begin = IF a = 0 THEN b ELSE lst.begin
      /\ \A l \in Links : one.next[l] = IF l = a THEN b ELSE lst.next[l]
  <2>1. CASE a = 0
    BY <1>0, <2>1 DEF Lists, SetNext
  <2>2. CASE a # 0
    BY <1>0, <2>2 DEF Lists, SetNext
  <2> QED
    BY <2>1, <2>2
<1> HIDE DEF one
<1>3. /\ new \in Lists /\ new.next = one.next /\ new.begin = one.begin
      /\ new.end = IF b = 0 THEN a ELSE one.end
      /\ \A l \in Links : new.prev[l] = IF l = b THEN a ELSE one.prev[l]
  <2>1. CASE b = 0
    BY <1>0, <1>2, <2>1 DEF Lists, SetPrev
  <2>2. CASE b # 0
    BY <1>0, <1>2, <2>2 DEF Lists, SetPrev
  <2> QED
    BY <2>1, <2>2
<1> HIDE DEF new
<1> QED
  BY <1>1, <1>2, <1>3 DEF a, b

LEMMA DeletedLinked ==
  ASSUME NEW lst \in Lists, NEW L \in SUBSET Links, Linked(lst, L), NEW x \in L,
         NEW D \in SUBSET Links, NEW rank \in [Links -> Links],
         Ranked(lst, L, rank, D)
  PROVE  Linked(rolo_delete(lst, x), L \ {x})
<1> DEFINE new == rolo_delete(lst, x)
           M == L \ {x}
           a == lst.prev[x]
           b == lst.next[x]
<1>1. /\ new.begin = IF a = 0 THEN b ELSE lst.begin
      /\ new.end = IF b = 0 THEN a ELSE lst.end
      /\ \A l \in Links :
           /\ new.next[l] = IF l = a THEN b ELSE lst.next[l]
           /\ new.prev[l] = IF l = b THEN a ELSE lst.prev[l]
  BY DeletedFields
<1>2. /\ a \in L \cup {0} /\ b \in L \cup {0} /\ 0 \notin L /\ x # 0
      /\ a # 0 => lst.next[a] = x
      /\ b # 0 => lst.prev[b] = x
      /\ a = 0 <=> lst.begin = x
      /\ b = 0 <=> lst.end = x
      /\ \A l \in L : lst.next[l] = x <=> l = a
      /\ \A l \in L : lst.prev[l] = x <=> l = b
  BY PointerType DEF Linked
<1>3. a # x /\ b # x /\ (a # 0 => a # b)
  <2>1. \A l \in L : rank[l] \in Nat /\ l \in D
    BY PointerType DEF Ranked
  <2>2. (a # 0 => rank[a] < rank[x]) /\ (b # 0 => rank[x] < rank[b])
    BY <1>2, <2>1 DEF Ranked
  <2> HIDE DEF a, b
  <2> QED
    BY <1>2, <2>1, <2>2
<1>4. ASSUME a = 0, b = 0 PROVE M = {}
  <2>1. Closed(lst, {x}) /\ lst.begin \in {x} \cup {0} /\ {x} \in SUBSET Links
    BY <1>2, <1>4 DEF Closed
  <2>2. Chain(lst, lst.begin) \subseteq {x}
    BY <2>1, ChainWithin
  <2>3. Chain(lst, lst.begin) = L
    BY ChainWhole
  <2> QED
    BY <2>2, <2>3
<1> HIDE DEF new, a, b
<1>5. new.begin \in M \cup {0} /\ (new.begin = 0 <=> M = {})
  BY <1>1, <1>2, <1>3, <1>4 DEF Linked
<1>6. M # {} => new.end \in M /\ new.next[new.end] = 0 /\ new.prev[new.begin] = 0
  <2>1. M # {} => new.end \in M /\ new.next[new.end] = 0
    BY <1>1, <1>2, <1>3, <1>4 DEF Linked
  <2>2. M # {} => new.prev[new.begin] = 0
    BY <1>1, <1>2, <1>3, <1>4 DEF Linked
  <2> QED
    BY <2>1, <2>2
<1>7. ASSUME NEW l \in M
      PROVE  /\ new.next[l] \in M \cup {0}
             /\ IF new.next[l] = 0 THEN new.end = l ELSE new.prev[new.next[l]] = l
  <2>1. CASE l = a
    BY <1>1, <1>2, <1>3, <2>1
  <2>2. CASE l # a
    BY <1>1, <1>2, <1>3, <2>2 DEF Linked
  <2> QED
    BY <2>1, <2>2
<1>8. ASSUME NEW l \in M
      PROVE  /\ new.prev[l] \in M \cup {0}
             /\ IF new.prev[l] = 0 THEN new.begin = l ELSE new.next[new.prev[l]] = l
  <2>1. CASE l = b
    BY <1>1, <1>2, <1>3, <2>1
  <2>2. CASE l # b
    BY <1>1, <1>2, <1>3, <2>2 DEF Linked
  <2> QED
    BY <2>1, <2>2
<1> HIDE DEF M
<1>9. Linked(new, M)
  BY <1>5, <1>6, <1>7, <1>8 DEF Linked
<1> QED
  BY <1>9 DEF new, M

LEMMA DeletedRanked ==
  ASSUME NEW lst \in Lists, NEW L \in SUBSET Links, Linked(lst, L), NEW x \in L,
         NEW D \in SUBSET Links, NEW rank \in [Links -> Links],
         Ranked(lst, L, rank, D)
  PROVE  Ranked(rolo_delete(lst, x), L \ {x}, rank, D)
<1> DEFINE new == rolo_delete(lst, x)
           a == lst.prev[x]
           b == lst.next[x]
<1>1. \A l \in Links : new.next[l] = IF l = a THEN b ELSE lst.next[l]
  BY DeletedFields
<1>2. /\ a \in L \cup {0} /\ b \in L \cup {0} /\ 0 \notin L
      /\ a # 0 => lst.next[a] = x
      /\ L \subseteq D
      /\ \A l \in D : rank[l] \in Nat
  BY PointerType DEF Linked, Ranked
<1>3. (a # 0 => rank[a] < rank[x]) /\ (b # 0 => rank[x] < rank[b])
  BY <1>2, PointerType DEF Ranked
<1> HIDE DEF new, a
<1>4. ASSUME NEW y \in D, new.next[y] # 0
      PROVE  new.next[y] \in D /\ rank[y] < rank[new.next[y]]
  <2>1. CASE y = a
    <3>1. new.next[y] = b /\ b \in D /\ a # 0 /\ x \in D
      BY <1>1, <1>2, <1>4, <2>1, PointerType
    <3> QED
      BY <1>2, <1>3, <1>4, <2>1, <3>1
  <2>2. CASE y # a
    BY <1>1, <1>4, <2>2 DEF Ranked
  <2> QED
    BY <2>1, <2>2
<1>5. ASSUME NEW y \in D, NEW z \in L \ {x}, rank[y] < rank[z]
      PROVE  new.next[y] # 0 /\ rank[new.next[y]] <= rank[z]
  <2>1. CASE y = a
    <3>1. lst.next[y] = x /\ new.next[y] = b /\ x \in D /\ z \in D
      BY <1>1, <1>2, <2>1, PointerType
    <3>2. rank[x] <= rank[z] /\ rank[x] # rank[z]
      BY <1>5, <3>1 DEF Ranked
    <3>3. rank[x] < rank[z]
      BY <1>2, <3>1, <3>2
    <3> QED
      BY <3>1, <3>3 DEF Ranked
  <2>2. CASE y # a
    BY <1>1, <1>5, <2>2 DEF Ranked
  <2> QED
    BY <2>1, <2>2
<1>6. \A y, z \in D : rank[y] = rank[z] => y = z
  BY DEF Ranked
<1>7. Ranked(new, L \ {x}, rank, D)
  BY <1>2, <1>4, <1>5, <1>6 DEF Ranked
<1> QED
  BY <1>7 DEF new

LEMMA RankedWithin ==
  ASSUME NEW lst \in Lists, NEW L \in SUBSET Links, Linked(lst, L),
         NEW D \in SUBSET Links, NEW rank \in [Links -> Links],
         Ranked(lst, L, rank, D)
  PROVE  Whole(lst, L)
<1>1. Ranked(lst, L, rank, L)
  BY DEF Linked, Ranked
<1> QED
  BY <1>1 DEF Whole

LEMMA DeleteWhole ==
  ASSUME NEW lst \in Lists, NEW ent \in [Links -> Fields],
         NEW L \in SUBSET Links, Whole(lst, L), NEW x \in L
  PROVE  /\ rolo_delete(lst, x) \in Lists
         /\ Whole(rolo_delete(lst, x), L \ {x})
         /\ Sorted(lst, ent, L) => Sorted(rolo_delete(lst, x), ent, L \ {x})
<1> DEFINE new == rolo_delete(lst, x)
           a == lst.prev[x]
           b == lst.next[x]
<1>1. PICK rank \in [Links -> Links] : Linked(lst, L) /\ Ranked(lst, L, rank, L)
  BY DEF Whole
<1>2. /\ new \in Lists
      /\ \A l \in Links : new.next[l] = IF l = a THEN b ELSE lst.next[l]
  BY DeletedFields
<1>3. Linked(new, L \ {x}) /\ Ranked(new, L \ {x}, rank, L)
  BY <1>1, DeletedLinked, DeletedRanked
<1> HIDE DEF new
<1>4. Whole(new, L \ {x})
  BY <1>2, <1>3, RankedWithin
<1>5. ASSUME Sorted(lst, ent, L) PROVE Sorted(new, ent, L \ {x})
  <2>1. \A l \in Links : ent[l].name \in Nat
    <3>1. \A l \in Links : ent[l] \in Fields
      OBVIOUS
    <3> QED
      BY <3>1, RolodexAssumption DEF Fields
  <2> SUFFICES ASSUME NEW l \in L \ {x}, new.next[l] # 0
               PROVE  ent[l].name <= ent[new.next[l]].name
    BY DEF Sorted
  <2>2. CASE l = a
    <3>1. new.next[l] = b /\ lst.next[l] = x /\ x # 0 /\ b \in L
      BY <1>1, <1>2, <2>2, PointerType DEF Linked
    <3>2. ent[l].name <= ent[x].name /\ ent[x].name <= ent[b].name
      BY <1>5, <3>1 DEF Sorted
    <3> QED
      BY <2>1, <3>1, <3>2
  <2>3. CASE l # a
    BY <1>2, <1>5, <2>3 DEF Sorted
  <2> QED
    BY <2>2, <2>3
<1> QED
  BY <1>2, <1>4, <1>5 DEF new

-----------------------------------------------------------------------------
(* read_rolodex *)

LEMMA ReorderWhole ==
  ASSUME NEW lst \in Lists, NEW ent \in [Links -> Fields], NEW n \in 0..MaxLinks,
         \A k \in 0..MaxLinks :
           Ahead(lst, lst.begin, k) = IF k < n THEN k + 1 ELSE 0
  PROVE  /\ rolo_reorder(lst, ent) \in Lists
         /\ Whole(rolo_reorder(lst, ent), 1..n)
         /\ Sorted(rolo_reorder(lst, ent), ent, 1..n)
<1>0. MaxLinks \in Nat /\ n \in Nat /\ n <= MaxLinks
  BY RolodexAssumption
<1> DEFINE old == [k \in 0..MaxLinks |-> Ahead(lst, lst.begin, k)]
           none == [lst EXCEPT !.begin = 0]
           Go(k, l) == IF old[k - 1] = 0 THEN l ELSE rolo_insert(l, ent, old[k - 1])
           Body(f) == [k \in 0..MaxLinks |->
                         IF k = 0 THEN none
                         ELSE IF old[k - 1] = 0 THEN f[k - 1]
                         ELSE rolo_insert(f[k - 1], ent, old[k - 1])]
           g == CHOOSE f : f = Body(f)
           First(k) == {i \in 1..n : i <= k}
           Good(k, l) == l \in Lists /\ Whole(l, First(k)) /\ Sorted(l, ent, First(k))
<1>1. rolo_reorder(lst, ent) = g[MaxLinks]
  BY DEF rolo_reorder
<1>2. none \in Lists /\ Good(0, none)
  <2>1. none \in Lists /\ none.begin = 0
    BY PointerType DEF Lists
  <2>2. First(0) = {}
    BY <1>0
  <2>3. [x \in Links |-> x] \in [Links -> Links]
    OBVIOUS
  <2>4. Ranked(none, {}, [x \in Links |-> x], {})
    BY DEF Ranked
  <2>5. Linked(none, {})
    BY <2>1 DEF Linked
  <2>6. Whole(none, {}) /\ Sorted(none, ent, {})
    BY <2>3, <2>4, <2>5 DEF Whole, Sorted
  <2> QED
    BY <2>1, <2>2, <2>6
<1>3. ASSUME NEW k \in 1..MaxLinks, NEW l, Good(k - 1, l)
      PROVE  Good(k, Go(k, l))
  <2>1. k - 1 \in 0..MaxLinks /\ old[k - 1] = IF k - 1 < n THEN (k - 1) + 1 ELSE 0
    BY <1>0
  <2>2. CASE k <= n
    <3>1. old[k - 1] = k /\ k # 0 /\ k \in Links
      BY <1>0, <2>1, <2>2 DEF Links
    <3>2. First(k) = First(k - 1) \cup {k} /\ k \notin First(k - 1)
          /\ First(k - 1) \subseteq Links
      BY <1>0, <2>2 DEF Links
    <3>3. Go(k, l) = rolo_insert(l, ent, k)
      BY <3>1
    <3> HIDE DEF First, Go
    <3>4. /\ rolo_insert(l, ent, k) \in Lists
          /\ Whole(rolo_insert(l, ent, k), First(k - 1) \cup {k})
          /\ Sorted(rolo_insert(l, ent, k), ent, First(k - 1) \cup {k})
      <4>1. k \in Links \ First(k - 1) /\ First(k - 1) \in SUBSET Links
        BY <3>1, <3>2
      <4> QED
        BY ONLY <1>3, <4>1, InsertWhole, ent \in [Links -> Fields]
    <3> QED
      BY <3>2, <3>3, <3>4
  <2>3. CASE ~(k <= n)
    <3>1. old[k - 1] = 0
      BY <1>0, <2>1, <2>3
    <3>2. First(k) = First(k - 1)
      BY <1>0, <2>3
    <3> HIDE DEF First
    <3> QED
      BY <1>3, <3>1, <3>2
  <2> QED
    BY <2>2, <2>3
<1>4. g = Body(g)
  <2> DEFINE step == [k \in 1..MaxLinks |->
                        [l \in Lists |-> IF Go(k, l) \in Lists THEN Go(k, l) ELSE l]]
  <2>1. step \in [1..MaxLinks -> [Lists -> Lists]]
    <3> HIDE DEF Go
    <3> QED
      OBVIOUS
  <2>2. PICK f \in [0..MaxLinks -> Lists] :
          f[0] = none /\ \A k \in 1..MaxLinks : f[k] = step[k][f[k - 1]]
    <3>1. none \in Lists
      BY <1>2
    <3> HIDE DEF step, none
    <3>2. PICK f : Iterates(f, Lists, none, MaxLinks, step)
      BY <1>0, <2>1, <3>1, Recurrence
    <3> QED
      BY <3>2 DEF Iterates
  <2> DEFINE good == {k \in 0..MaxLinks : /\ Good(k, f[k])
                                          /\ k # 0 => f[k] = Go(k, f[k - 1])}
  <2>3. 0 \in good
    <3> HIDE DEF Good, none
    <3> QED
      BY <1>0, <1>2, <2>2
  <2>4. ASSUME NEW k \in 1..MaxLinks, k - 1 \in good
        PROVE  k \in good
    <3>1. k \in 0..MaxLinks /\ k - 1 \in 0..MaxLinks /\ f[k - 1] \in Lists
      BY <1>0, <2>2
    <3>2. Good(k - 1, f[k - 1])
      BY <2>4
    <3> HIDE DEF Good
    <3>3. Good(k, Go(k, f[k - 1]))
      BY <1>3, <3>2
    <3>4. Go(k, f[k - 1]) \in Lists
      BY <3>3 DEF Good
    <3> HIDE DEF Go
    <3>5. f[k] = Go(k, f[k - 1])
      BY <2>2, <3>1, <3>4
    <3> QED
      BY <3>1, <3>3, <3>5
  <2>5. 0..MaxLinks \subseteq good
    <3> HIDE DEF good
    <3> QED
      BY <1>0, <2>3, <2>4, Ascent
  <2>6. f = Body(f)
    <3>1. ASSUME NEW k \in 0..MaxLinks
          PROVE  f[k] = IF k = 0 THEN none ELSE Go(k, f[k - 1])
      <4>1. k # 0 => f[k] = Go(k, f[k - 1])
        <5> HIDE DEF Go, Good
        <5> QED
          BY <2>5
      <4> QED
        BY <2>2, <4>1
    <3>2. Body(f) = [k \in 0..MaxLinks |-> IF k = 0 THEN none ELSE Go(k, f[k - 1])]
      OBVIOUS
    <3> HIDE DEF Go, Body, none
    <3> QED
      BY <3>1, <3>2
  <2> HIDE DEF Body
  <2> QED
    BY <2>6
<1> HIDE DEF g
<1>5. \A k \in 0..MaxLinks : g[k] = IF k = 0 THEN none ELSE Go(k, g[k - 1])
  <2>1. Body(g) = [k \in 0..MaxLinks |-> IF k = 0 THEN none ELSE Go(k, g[k - 1])]
    OBVIOUS
  <2> HIDE DEF Go, Body, none
  <2> QED
    BY <1>4, <2>1
<1> DEFINE fine == {k \in 0..MaxLinks : Good(k, g[k])}
<1>6. MaxLinks \in fine
  <2> HIDE DEF Good, Go, none
  <2>1. 0 \in fine
    BY <1>0, <1>2, <1>5
  <2>2. ASSUME NEW k \in 1..MaxLinks, k - 1 \in fine
        PROVE  k \in fine
    <3>1. k \in 0..MaxLinks /\ k # 0 /\ Good(k - 1, g[k - 1])
      BY <1>0, <2>2
    <3>2. Good(k, Go(k, g[k - 1]))
      BY <1>3, <3>1
    <3> QED
      BY <1>5, <3>1, <3>2
  <2> HIDE DEF fine
  <2>3. 0..MaxLinks \subseteq fine
    BY <1>0, <2>1, <2>2, Ascent
  <2> QED
    BY <1>0, <2>3
<1>7. First(MaxLinks) = 1..n
  BY <1>0
<1>8. Good(MaxLinks, g[MaxLinks])
  BY <1>6
<1> HIDE DEF First
<1> QED
  BY <1>1, <1>7, <1>8

(* The list as read from a file of n entries, before they are ordered. *)
LEMMA FileWhole ==
  ASSUME NEW n \in 0..MaxLinks, NEW lst \in Lists,
         lst.begin = IF n = 0 THEN 0 ELSE 1, lst.end = n,
         \A l \in Links : /\ lst.next[l] = IF l < n THEN l + 1 ELSE 0
                          /\ lst.prev[l] = IF l <= n THEN l - 1 ELSE 0
  PROVE  /\ Whole(lst, 1..n)
         /\ \A k \in 0..MaxLinks :
              Ahead(lst, lst.begin, k) = IF k < n THEN k + 1 ELSE 0
<1>0. MaxLinks \in Nat /\ n \in Nat /\ n <= MaxLinks /\ Links = 1..MaxLinks
  BY RolodexAssumption DEF Links
<1>1. lst \in Lists
  OBVIOUS
<1>2. /\ lst.begin = IF n = 0 THEN 0 ELSE 1
      /\ lst.end = n
      /\ \A l \in Links : /\ lst.next[l] = IF l < n THEN l + 1 ELSE 0
                          /\ lst.prev[l] = IF l <= n THEN l - 1 ELSE 0
  OBVIOUS
<1>3. Linked(lst, 1..n)
  <2>1. lst.begin \in 1..n \cup {0} /\ (lst.begin = 0 <=> 1..n = {})
    BY <1>0, <1>2
  <2>2. 1..n # {} =>
          lst.end \in 1..n /\ lst.next[lst.end] = 0 /\ lst.prev[lst.begin] = 0
    BY <1>0, <1>2
  <2>3. ASSUME NEW l \in 1..n
        PROVE  /\ lst.next[l] \in 1..n \cup {0} /\ lst.prev[l] \in 1..n \cup {0}
               /\ IF lst.next[l] = 0 THEN lst.end = l ELSE lst.prev[lst.next[l]] = l
               /\ IF lst.prev[l] = 0 THEN lst.begin = l ELSE lst.next[lst.prev[l]] = l
    <3>1. l \in Links /\ l <= n /\ l >= 1
      BY <1>0
    <3>2. lst.next[l] = IF l < n THEN l + 1 ELSE 0
      BY <1>2, <3>1
    <3>3. lst.prev[l] = l - 1
      BY <1>2, <3>1
    <3>4. l < n => lst.prev[l + 1] = l
      BY <1>0, <1>2, <3>1
    <3>5. l # 1 => lst.next[l - 1] = l
      BY <1>0, <1>2, <3>1
    <3> QED
      BY <1>0, <1>2, <3>1, <3>2, <3>3, <3>4, <3>5
  <2> QED
    BY <2>1, <2>2, <2>3 DEF Linked
<1>4. Whole(lst, 1..n)
  <2> DEFINE rank == [x \in Links |-> x]
  <2>1. rank \in [Links -> Links]
    OBVIOUS
  <2>2. \A x \in 1..n : rank[x] = x /\ lst.next[x] = IF x < n THEN x + 1 ELSE 0
    BY <1>0, <1>2
  <2> HIDE DEF rank
  <2>3. ASSUME NEW x \in 1..n, lst.next[x] # 0
        PROVE  x < n /\ lst.next[x] = x + 1 /\ rank[lst.next[x]] = x + 1
    <3>1. lst.next[x] = IF x < n THEN x + 1 ELSE 0
      BY <2>2
    <3>2. x < n /\ lst.next[x] = x + 1 /\ x + 1 \in 1..n
      BY ONLY <1>0, <2>3, <3>1, x \in 1..n
    <3> QED
      BY ONLY <2>2, <3>2
  <2>4. ASSUME NEW x \in 1..n, NEW y \in 1..n, rank[x] < rank[y]
        PROVE  lst.next[x] # 0 /\ rank[lst.next[x]] <= rank[y]
    <3>1. x < y /\ lst.next[x] = IF x < n THEN x + 1 ELSE 0
      BY ONLY <2>2, <2>4, x \in 1..n, y \in 1..n
    <3>2. lst.next[x] = x + 1 /\ x + 1 \in 1..n /\ x + 1 <= y
      BY ONLY <1>0, <3>1, x \in 1..n, y \in 1..n
    <3> QED
      BY ONLY <2>2, <3>2, y \in 1..n, <1>0
  <2>5. \A x, y \in 1..n : rank[x] = rank[y] => x = y
    BY ONLY <2>2
  <2>6. \A x \in 1..n : lst.next[x] # 0 =>
          lst.next[x] \in 1..n /\ rank[x] < rank[lst.next[x]]
    <3> SUFFICES ASSUME NEW x \in 1..n, lst.next[x] # 0
                 PROVE  lst.next[x] \in 1..n /\ rank[x] < rank[lst.next[x]]
      OBVIOUS
    <3>1. x < n /\ lst.next[x] = x + 1 /\ rank[lst.next[x]] = x + 1 /\ rank[x] = x
      BY <2>2, <2>3
    <3> QED
      BY ONLY <1>0, <3>1, x \in 1..n
  <2>7. Ranked(lst, 1..n, rank, 1..n)
    BY ONLY <2>4, <2>5, <2>6 DEF Ranked
  <2> QED
    BY <1>3, <2>1, <2>7 DEF Whole
<1>5. \A k \in 0..MaxLinks : Ahead(lst, lst.begin, k) = IF k < n THEN k + 1 ELSE 0
  <2>0. lst.begin \in Pointers
    BY <1>0, <1>2 DEF Pointers
  <2> DEFINE counted == {k \in Nat : Ahead(lst, lst.begin, k) = IF k < n THEN k + 1 ELSE 0}
  <2>1. 0 \in counted
    <3>1. Ahead(lst, lst.begin, 0) = lst.begin
      BY <1>1, <2>0, AheadSteps
    <3> QED
      BY <1>0, <1>2, <3>1
  <2>2. ASSUME NEW k \in Nat \ {0}, k - 1 \in counted
        PROVE  k \in counted
    <3>1. k - 1 \in Nat /\ (k - 1) + 1 = k
      OBVIOUS
    <3>2. Ahead(lst, lst.begin, k) = IF Ahead(lst, lst.begin, k - 1) = 0 THEN 0
                                     ELSE lst.next[Ahead(lst, lst.begin, k - 1)]
      BY <1>1, <2>0, AheadBack
    <3>3. Ahead(lst, lst.begin, k - 1) = IF k - 1 < n THEN k ELSE 0
      BY <2>2, <3>1
    <3>4. k - 1 < n => k \in Links /\ lst.next[k] = IF k < n THEN k + 1 ELSE 0
      BY <1>0, <1>2
    <3> QED
      BY <1>0, <3>2, <3>3, <3>4
  <2>3. 0..MaxLinks \subseteq counted
    <3>1. MaxLinks \in Nat /\ \A k \in 1..MaxLinks : k \in Nat \ {0}
      BY <1>0
    <3> HIDE DEF counted
    <3>2. \A k \in 1..MaxLinks : k - 1 \in counted => k \in counted
      BY ONLY <2>2, <3>1
    <3> QED
      BY ONLY <2>1, <3>1, <3>2, Ascent
  <2> QED
    BY <2>3
<1> QED
  BY <1>4, <1>5

LEMMA LoadedWhole ==
  ASSUME NEW n \in 0..MaxLoaded, NEW ent \in [Links -> Fields]
  PROVE  /\ Loaded(n, ent) \in Lists
         /\ Whole(Loaded(n, ent), 1..n)
         /\ Sorted(Loaded(n, ent), ent, 1..n)
<1> DEFINE file == [begin |-> IF n = 0 THEN 0 ELSE 1, end |-> n,
                    next |-> [l \in Links |-> IF l < n THEN l + 1 ELSE 0],
                    prev |-> [l \in Links |-> IF l <= n THEN l - 1 ELSE 0]]
<1>1. n \in 0..MaxLinks /\ n \in Nat /\ Links = 1..MaxLinks /\ MaxLinks \in Nat
  BY RolodexAssumption DEF Links
<1>2. \A l \in Links : file.next[l] = IF l < n THEN l + 1 ELSE 0
  OBVIOUS
<1>3. Loaded(n, ent) = IF \E l \in 2..n : ent[l - 1].name > ent[l].name
                         THEN rolo_reorder(file, ent) ELSE file
  BY DEF Loaded
<1>4. /\ file \in Lists /\ Whole(file, 1..n)
      /\ \A k \in 0..MaxLinks :
           Ahead(file, file.begin, k) = IF k < n THEN k + 1 ELSE 0
  <2>1. file \in Lists
    BY <1>1 DEF Lists, Pointers
  <2>2. /\ file.begin = IF n = 0 THEN 0 ELSE 1
        /\ file.end = n
        /\ \A l \in Links : /\ file.next[l] = IF l < n THEN l + 1 ELSE 0
                            /\ file.prev[l] = IF l <= n THEN l - 1 ELSE 0
    OBVIOUS
  <2> HIDE DEF file
  <2> QED
    BY <1>1, <2>1, <2>2, FileWhole
<1> HIDE DEF file
<1>5. CASE \E l \in 2..n : ent[l - 1].name > ent[l].name
  BY <1>1, <1>3, <1>4, <1>5, ReorderWhole
<1>6. CASE ~\E l \in 2..n : ent[l - 1].name > ent[l].name
  <2>1. \A l \in Links : ent[l].name \in Nat
    <3>1. \A l \in Links : ent[l] \in Fields
      OBVIOUS
    <3> QED
      BY <3>1, RolodexAssumption DEF Fields
  <2>2. ASSUME NEW l \in 1..n, file.next[l] # 0
        PROVE  ent[l].name <= ent[file.next[l]].name
    <3>1. l \in Links /\ l < n /\ file.next[l] = l + 1
      BY <1>1, <1>2, <2>2
    <3>2. l + 1 \in 2..n /\ l + 1 \in Links /\ (l + 1) - 1 = l
      BY <1>1, <3>1
    <3>3. ~(ent[(l + 1) - 1].name > ent[l + 1].name)
      BY <1>6, <3>2
    <3> QED
      BY <2>1, <3>1, <3>2, <3>3
  <2>3. Sorted(file, ent, 1..n)
    BY <2>2 DEF Sorted
  <2> QED
    BY <1>3, <1>4, <1>6, <2>3
<1> QED
  BY <1>5, <1>6

-----------------------------------------------------------------------------
(* The screens. *)

Kinds == {"scan", "search", "pick", "one"}
Displays == [kind : Kinds, first : Pointers, at : Pointers, shown : BOOLEAN,
             hits : SUBSET Links]

LEMMA FrontFacts ==
  ASSUME NEW stack \in Seq(Displays), stack # <<>>
  PROVE  /\ Len(stack) \in Nat \ {0}
         /\ \A i \in 1..Len(stack) : stack[i] \in Displays
         /\ Front(stack) \in Seq(Displays) /\ Len(Front(stack)) = Len(stack) - 1
         /\ \A i \in 1..Len(stack) - 1 : Front(stack)[i] = stack[i]
<1>1. Len(stack) \in Nat \ {0} /\ \A i \in 1..Len(stack) : stack[i] \in Displays
  OBVIOUS
<1> DEFINE m == Len(stack) - 1
<1>2. m \in Nat /\ m <= Len(stack)
  BY <1>1
<1>3. Front(stack) = SubSeq(stack, 1, m)
  BY DEF Front
<1>4. \A i \in 1..m : i \in 1..Len(stack) /\ stack[i] \in Displays
  BY <1>1, <1>2
<1> HIDE DEF m
<1>5. Len(SubSeq(stack, 1, m)) = m
  BY <1>2
<1>6. \A i \in 1..m : SubSeq(stack, 1, m)[i] = stack[i]
  BY <1>2
<1>7. SubSeq(stack, 1, m) \in Seq(Displays)
  BY <1>2, <1>4
<1> QED
  BY <1>1, <1>3, <1>5, <1>6, <1>7 DEF m

(* What a screen is left with when it is gone on in. *)
GoneOn(s, lst) == [s EXCEPT !.at = lst.next[s.at], !.shown = FALSE]

(* The screen that is gone on in: all the others stay as they are. *)
LEMMA GoOnFacts ==
  ASSUME NEW lst \in Lists, NEW stack \in Seq(Displays), stack # <<>>,
         NEW s \in Displays, s = stack[Len(stack)], s.at \in Links
  PROVE  LET new == GoOn(stack, lst) IN
         /\ new \in Seq(Displays)
         /\ s.kind \in {"scan", "search"} =>
              /\ Len(new) = Len(stack)
              /\ \A i \in 1..Len(stack) - 1 : new[i] = stack[i]
              /\ new[Len(stack)] = GoneOn(s, lst)
         /\ s.kind \notin {"scan", "search"} => new = Front(stack)
<1> DEFINE t == GoneOn(s, lst)
<1>1. t \in Displays
  <2>1. lst.next[s.at] \in Pointers
    BY DEF Lists
  <2> QED
    BY <2>1 DEF Displays, GoneOn
<1>2. GoOn(stack, lst) = IF s.kind \in {"scan", "search"}
                           THEN Front(stack) \o <<t>> ELSE Front(stack)
  BY DEF GoOn, GoneOn
<1> HIDE DEF t
<1>3. /\ Len(stack) \in Nat \ {0}
      /\ Front(stack) \in Seq(Displays) /\ Len(Front(stack)) = Len(stack) - 1
      /\ \A i \in 1..Len(stack) - 1 : Front(stack)[i] = stack[i]
  BY FrontFacts
<1> DEFINE f == Front(stack)
           n == Len(stack)
<1> HIDE DEF f, n
<1>4. f \o <<t>> \in Seq(Displays)
  BY <1>1, <1>3 DEF f
<1>5. /\ Len(f \o <<t>>) = n
      /\ \A i \in 1..n - 1 : (f \o <<t>>)[i] = f[i]
      /\ (f \o <<t>>)[n] = t
  BY <1>1, <1>3 DEF f, n
<1> QED
  BY <1>2, <1>3, <1>4, <1>5 DEF f, n, t

LEMMA GoOnEmpty == \A lst : GoOn(<<>>, lst) = <<>>
BY DEF GoOn

(* Only the innermost screen can be other than a scan, and only that one   *)
(* is not on display.                                                       *)
StackOK(stack) ==
  \A i \in 1..Len(stack) :
    /\ i > 1 => stack[i].kind = "scan"
    /\ i < Len(stack) => stack[i].shown
    /\ stack[i].shown => stack[i].at \in Links
    /\ stack[i].kind = "one" => stack[i].shown

(* What is on display is in the list, and if a search found it, one of the  *)
(* hits; what the scan will come to next is, too, wherever it is flagged,   *)
(* even if the scan is on its way through entries that were deleted.        *)
TopOK(lst, flags, L, stack) ==
  stack # <<>> =>
    LET top == stack[Len(stack)] IN
    /\ top.shown =>
         /\ top.at \in L
         /\ top.kind # "scan" => top.at \in top.hits
         /\ top.kind \in {"search", "pick"} => flags \cap L \subseteq top.hits
    /\ top.kind = "pick" /\ ~top.shown =>
         /\ flags \cap L \subseteq top.hits
         /\ top.at = 0 \/ top.at \in L \cap top.hits
    /\ top.kind \in {"scan", "search"} /\ ~top.shown =>
         \E C \in SUBSET Links :
           /\ Closed(lst, C) /\ top.at \in C \cup {0} /\ C \cap flags \subseteq L
           /\ top.kind = "search" =>
                /\ C \cap flags \subseteq top.hits
                /\ C \cap flags = {} \/ flags \cap L \subseteq top.hits

(* The entry of a screen that another scan covers: that scan began at the   *)
(* next entry, and when it ends the entries from there on are not flagged.  *)
Below(lst, at, first, rank, D) ==
  /\ at \in D
  /\ \/ first = 0 /\ lst.next[at] = 0
     \/ /\ first \in D /\ rank[at] < rank[first]
        /\ lst.next[at] \in Chain(lst, first) \cup {0}

Nested(lst, L, stack, rank, D) ==
  /\ Ranked(lst, L, rank, D)
  /\ \A i \in 1..Len(stack) - 1 :
       Below(lst, stack[i].at, stack[i + 1].first, rank, D)

NestOK(lst, L, stack) ==
  \E rank \in [Links -> Links], D \in SUBSET Links : Nested(lst, L, stack, rank, D)

LEMMA NestWhole ==
  ASSUME NEW lst \in Lists, NEW L \in SUBSET Links, NEW stack \in Seq(Displays),
         Linked(lst, L), NestOK(lst, L, stack)
  PROVE  Whole(lst, L) /\ Chain(lst, lst.begin) = L
<1>1. PICK rank \in [Links -> Links], D \in SUBSET Links : Ranked(lst, L, rank, D)
  BY DEF NestOK, Nested
<1> QED
  BY <1>1, RankedWithin, ChainWhole

(* With one screen at most no scan covers another. *)
LEMMA NestSingle ==
  ASSUME NEW lst \in Lists, NEW L \in SUBSET Links, NEW stack \in Seq(Displays),
         Whole(lst, L), Len(stack) <= 1
  PROVE  NestOK(lst, L, stack)
<1>1. PICK rank \in [Links -> Links] : Ranked(lst, L, rank, L)
  BY DEF Whole
<1>2. 1..Len(stack) - 1 = {}
  OBVIOUS
<1>3. Nested(lst, L, stack, rank, L)
  BY <1>1, <1>2 DEF Nested
<1> QED
  BY <1>3 DEF NestOK

(* The innermost screen may move on, or be left, as far as those below it   *)
(* are concerned.                                                           *)
LEMMA NestSame ==
  ASSUME NEW lst \in Lists, NEW L, NEW stack \in Seq(Displays),
         NestOK(lst, L, stack), NEW new \in Seq(Displays), Len(new) <= Len(stack),
         \A i \in 1..Len(new) - 1 : new[i].at = stack[i].at,
         \A i \in 1..Len(new) : new[i].first = stack[i].first
  PROVE  NestOK(lst, L, new)
<1>1. PICK rank \in [Links -> Links], D \in SUBSET Links :
        Nested(lst, L, stack, rank, D)
  BY DEF NestOK
<1>2. ASSUME NEW i \in 1..Len(new) - 1
      PROVE  Below(lst, new[i].at, new[i + 1].first, rank, D)
  <2>1. i \in 1..Len(stack) - 1 /\ i + 1 \in 1..Len(new)
    OBVIOUS
  <2>2. new[i].at = stack[i].at /\ new[i + 1].first = stack[i + 1].first
    BY <2>1
  <2> QED
    BY <1>1, <2>1, <2>2 DEF Nested
<1>3. Nested(lst, L, new, rank, D)
  BY <1>1, <1>2 DEF Nested
<1> QED
  BY <1>3 DEF NestOK

(* What the screens beneath the innermost one are to the NestOK of both. *)
Under(new, stack) ==
  /\ new \in Seq(Displays) /\ Len(new) <= Len(stack)
  /\ \A i \in 1..Len(new) - 1 : new[i].at = stack[i].at
  /\ \A i \in 1..Len(new) : new[i].first = stack[i].first

LEMMA GoOnType ==
  ASSUME NEW lst \in Lists, NEW stack \in Seq(Displays), stack # <<>>,
         StackOK(stack), NEW top \in Displays, top = stack[Len(stack)],
         top.at \in Links
  PROVE  LET new == GoOn(stack, lst) IN
         /\ StackOK(new) /\ Under(new, stack)
         /\ top.kind \in {"scan", "search"} =>
              Len(new) = Len(stack) /\ new[Len(stack)] = GoneOn(top, lst)
         /\ top.kind \notin {"scan", "search"} => new = <<>>
<1> DEFINE new == GoOn(stack, lst)
           n == Len(stack)
<1>1. n \in Nat \ {0} /\ \A i \in 1..n : stack[i] \in Displays
  OBVIOUS
<1>2. CASE top.kind \in {"scan", "search"}
  <2>1. /\ new \in Seq(Displays) /\ Len(new) = n
        /\ \A i \in 1..n - 1 : new[i] = stack[i]
        /\ new[n] = GoneOn(top, lst)
    BY <1>2, GoOnFacts
  <2>2. /\ GoneOn(top, lst).kind = top.kind /\ GoneOn(top, lst).first = top.first
        /\ GoneOn(top, lst).shown = FALSE /\ top.kind # "one"
    BY <1>2 DEF GoneOn, Displays
  <2> HIDE DEF new, n
  <2>3. \A i \in 1..n : i = n \/ i \in 1..n - 1
    BY <1>1
  <2>4. StackOK(new)
    <3> SUFFICES ASSUME NEW i \in 1..n
                 PROVE  /\ i > 1 => new[i].kind = "scan"
                        /\ i < n => new[i].shown
                        /\ new[i].shown => new[i].at \in Links
                        /\ new[i].kind = "one" => new[i].shown
      BY <2>1 DEF StackOK
    <3>1. CASE i = n
      BY <1>1, <2>1, <2>2, <3>1 DEF StackOK, n
    <3>2. CASE i \in 1..n - 1
      BY <1>1, <2>1, <3>2 DEF StackOK, n
    <3> QED
      BY <2>3, <3>1, <3>2
  <2>5. Under(new, stack)
    BY <1>1, <2>1, <2>2, <2>3 DEF Under, n
  <2> QED
    BY <1>2, <2>1, <2>4, <2>5 DEF new, n
<1>3. CASE top.kind \notin {"scan", "search"}
  <2>1. new = Front(stack)
    BY <1>3, GoOnFacts
  <2>2. n = 1
    <3>1. n \in 1..n /\ (n # 1 => n > 1)
      <4> HIDE DEF n
      <4>1. n \in Nat \ {0}
        BY <1>1
      <4> QED
        BY ONLY <4>1
    <3>2. n > 1 => stack[n].kind = "scan"
      BY <3>1 DEF StackOK
    <3> QED
      BY <1>3, <3>1, <3>2
  <2>3. Front(stack) \in Seq(Displays) /\ Len(Front(stack)) = 0
    BY <2>2, FrontFacts
  <2>4. Front(stack) = <<>>
    BY <2>3
  <2>5. StackOK(<<>>) /\ Under(<<>>, stack)
    BY <1>1 DEF StackOK, Under
  <2> QED
    BY <1>3, <2>1, <2>4, <2>5
<1> QED
  BY <1>2, <1>3

(* A screen that was on display is gone on in. *)
LEMMA GoOnTop ==
  ASSUME NEW lst \in Lists, NEW L \in SUBSET Links, Closed(lst, L),
         NEW flags \in SUBSET Links,
         NEW stack \in Seq(Displays), stack # <<>>, StackOK(stack),
         NEW top \in Displays, top = stack[Len(stack)], top.at \in Links,
         lst.next[top.at] \in L \cup {0},
         top.kind = "search" => flags \cap L \subseteq top.hits
  PROVE  TopOK(lst, flags, L, GoOn(stack, lst))
<1> DEFINE new == GoOn(stack, lst)
           t == GoneOn(top, lst)
<1>1. CASE top.kind \notin {"scan", "search"}
  BY <1>1, GoOnType DEF TopOK
<1>2. CASE top.kind \in {"scan", "search"}
  <2>1. Len(new) = Len(stack) /\ new[Len(stack)] = t
    BY <1>2, GoOnType
  <2>2. /\ t.at = lst.next[top.at] /\ t.shown = FALSE /\ t.kind = top.kind
        /\ t.hits = top.hits
    BY DEF Displays, GoneOn
  <2> HIDE DEF new, t
  <2>3. /\ Closed(lst, L) /\ t.at \in L \cup {0} /\ L \cap flags \subseteq L
        /\ t.kind = "search" =>
             /\ L \cap flags \subseteq t.hits
             /\ L \cap flags = {} \/ flags \cap L \subseteq t.hits
    BY <2>2
  <2>4. t.kind # "pick" /\ ~t.shown
    BY <1>2, <2>2
  <2>5. TopOK(lst, flags, L, new)
    BY <2>1, <2>3, <2>4 DEF TopOK
  <2> QED
    BY <2>5 DEF new
<1> QED
  BY <1>1, <1>2

(* A screen is left for the one beneath it. *)
Left(lst, stack) == GoOn(Front(stack), lst)

Unflagged(lst, flags, stack) ==
  LET top == stack[Len(stack)] IN
  IF top.kind = "scan" THEN flags \ Chain(lst, top.first) ELSE flags

LEMMA LeftType ==
  ASSUME NEW lst \in Lists, NEW stack \in Seq(Displays), stack # <<>>,
         StackOK(stack)
  PROVE  StackOK(Left(lst, stack)) /\ Under(Left(lst, stack), stack)
<1> DEFINE n == Len(stack)
           f == Front(stack)
<1>1. /\ n \in Nat \ {0} /\ \A i \in 1..n : stack[i] \in Displays
      /\ f \in Seq(Displays) /\ Len(f) = n - 1
      /\ \A i \in 1..n - 1 : f[i] = stack[i]
  BY FrontFacts
<1>2. CASE n = 1
  <2>1. f = <<>>
    BY <1>1, <1>2
  <2>2. Left(lst, stack) = <<>>
    BY <2>1, GoOnEmpty DEF Left
  <2> QED
    BY <2>2 DEF StackOK, Under
<1>3. CASE n # 1
  <2>1. n - 1 \in 1..n - 1 /\ n - 1 \in 1..n /\ n - 1 < n
    BY <1>1, <1>3
  <2> DEFINE top == f[n - 1]
  <2>2. top \in Displays /\ top = stack[n - 1] /\ top.shown /\ top.at \in Links
    BY <1>1, <2>1 DEF StackOK
  <2>3. f # <<>>
    BY <1>1, <2>1
  <2>4. StackOK(f)
    <3> HIDE DEF f, n
    <3>1. \A i \in 1..n - 1 : i \in 1..n /\ i < n /\ f[i] = stack[i]
      BY <1>1
    <3> QED
      BY <1>1, <3>1 DEF StackOK, n
  <2>5. top = f[Len(f)]
    BY <1>1
  <2> HIDE DEF f, n
  <2>6. StackOK(GoOn(f, lst)) /\ Under(GoOn(f, lst), f)
    <3> HIDE DEF top
    <3> QED
      BY <1>1, <2>2, <2>3, <2>4, <2>5, GoOnType
  <2>7. Under(GoOn(f, lst), stack)
    <3> DEFINE new == GoOn(f, lst)
    <3>1. /\ new \in Seq(Displays) /\ Len(new) <= n - 1
          /\ \A i \in 1..Len(new) - 1 : new[i].at = f[i].at
          /\ \A i \in 1..Len(new) : new[i].first = f[i].first
      BY <1>1, <2>6 DEF Under
    <3> HIDE DEF new
    <3>2. \A i \in 1..Len(new) : f[i] = stack[i]
      BY <1>1, <3>1
    <3>3. \A i \in 1..Len(new) - 1 : f[i] = stack[i]
      BY <1>1, <3>1
    <3>4. Len(new) <= Len(stack)
      BY <1>1, <3>1 DEF n
    <3>5. Under(new, stack)
      BY <3>1, <3>2, <3>3, <3>4 DEF Under
    <3> QED
      BY <3>5 DEF new
  <2> QED
    BY <2>6, <2>7 DEF Left, f
<1> QED
  BY <1>2, <1>3

LEMMA LeftTop ==
  ASSUME NEW lst \in Lists, NEW L \in SUBSET Links, Linked(lst, L),
         NEW flags \in SUBSET Links, NEW stack \in Seq(Displays), stack # <<>>,
         StackOK(stack), NestOK(lst, L, stack)
  PROVE  TopOK(lst, Unflagged(lst, flags, stack), L, Left(lst, stack))
<1> DEFINE n == Len(stack)
           f == Front(stack)
           new == Left(lst, stack)
           left == Unflagged(lst, flags, stack)
<1>1. /\ n \in Nat \ {0} /\ \A i \in 1..n : stack[i] \in Displays
      /\ f \in Seq(Displays) /\ Len(f) = n - 1
      /\ \A i \in 1..n - 1 : f[i] = stack[i]
  BY FrontFacts
<1>2. CASE n = 1
  <2>1. f = <<>>
    BY <1>1, <1>2
  <2>2. new = <<>>
    BY <2>1, GoOnEmpty DEF Left
  <2> QED
    BY <2>2 DEF TopOK
<1>3. CASE n # 1
  <2>1. n - 1 \in 1..n - 1 /\ n - 1 \in 1..n /\ n - 1 < n /\ n \in 1..n /\ n > 1
        /\ (n - 1) + 1 = n
    BY <1>1, <1>3
  <2> DEFINE top == f[n - 1]
             upper == stack[n]
             t == GoneOn(top, lst)
  <2>2. top \in Displays /\ top = stack[n - 1] /\ top.shown /\ top.at \in Links
    BY <1>1, <2>1 DEF StackOK
  <2>3. upper \in Displays /\ upper.kind = "scan"
    BY <1>1, <2>1 DEF StackOK
  <2>4. f # <<>> /\ top = f[Len(f)]
    BY <1>1, <2>1
  <2>5. StackOK(f)
    <3> HIDE DEF f, n
    <3>1. \A i \in 1..n - 1 : i \in 1..n /\ i < n /\ f[i] = stack[i]
      BY <1>1
    <3> QED
      BY <1>1, <3>1 DEF StackOK, n
  <2>6. left = flags \ Chain(lst, upper.first)
    BY <2>3 DEF Unflagged
  <2>7. PICK rank \in [Links -> Links], D \in SUBSET Links :
          Ranked(lst, L, rank, D) /\ Below(lst, top.at, upper.first, rank, D)
    <3>1. PICK rank \in [Links -> Links], D \in SUBSET Links :
            Nested(lst, L, stack, rank, D)
      BY DEF NestOK
    <3>2. Below(lst, stack[n - 1].at, stack[(n - 1) + 1].first, rank, D)
      BY <2>1, <3>1 DEF Nested
    <3> QED
      BY <2>1, <2>2, <3>1, <3>2 DEF Nested
  <2> HIDE DEF upper, top, f, n, left
  <2>8. CASE top.kind \notin {"scan", "search"}
    <3>1. GoOn(f, lst) = <<>>
      BY <1>1, <2>2, <2>4, <2>5, <2>8, GoOnType
    <3> QED
      BY <3>1 DEF TopOK, Left, f
  <2>9. CASE top.kind \in {"scan", "search"}
    <3>1. /\ Len(GoOn(f, lst)) = Len(f) /\ GoOn(f, lst)[Len(f)] = t
      BY <1>1, <2>2, <2>4, <2>5, <2>9, GoOnType
    <3>2. t.at = lst.next[top.at] /\ t.shown = FALSE /\ t.kind = top.kind
      BY <2>2 DEF Displays, GoneOn
    <3> HIDE DEF t
    <3>3. \E C \in SUBSET Links :
            Closed(lst, C) /\ t.at \in C \cup {0} /\ C \cap left = {}
      <4>1. CASE upper.first = 0 /\ lst.next[top.at] = 0
        <5>1. {} \in SUBSET Links /\ Closed(lst, {}) /\ t.at \in {} \cup {0}
              /\ {} \cap left = {}
          BY <3>2, <4>1 DEF Closed
        <5> QED
          BY <5>1
      <4>2. CASE upper.first \in D /\ lst.next[top.at] \in Chain(lst, upper.first) \cup {0}
        <5> DEFINE C == Chain(lst, upper.first)
        <5>1. Closed(lst, C)
          <6>1. \A x \in D : lst.next[x] # 0 =>
                  lst.next[x] \in D /\ rank[x] < rank[lst.next[x]]
            BY <2>7 DEF Ranked
          <6> QED
            BY <4>2, <6>1, ChainClosed
        <5>2. C \in SUBSET Links
          <6>1. upper.first \in Pointers
            BY <4>2, PointerType
          <6> QED
            BY <6>1, ChainType
        <5>3. C \cap left = {}
          BY <2>6
        <5> HIDE DEF C
        <5> QED
          BY <3>2, <4>2, <5>1, <5>2, <5>3 DEF C
      <4> QED
        BY <2>7, <4>1, <4>2 DEF Below
    <3>4. t.kind # "pick" /\ ~t.shown
      BY <2>9, <3>2
    <3>5. PICK C \in SUBSET Links :
            Closed(lst, C) /\ t.at \in C \cup {0} /\ C \cap left = {}
      BY <3>3
    <3>6. TopOK(lst, left, L, GoOn(f, lst))
      BY <3>1, <3>4, <3>5 DEF TopOK
    <3> QED
      BY <3>6 DEF Left, f, left
  <2> QED
    BY <2>8, <2>9
<1> QED
  BY <1>2, <1>3

-----------------------------------------------------------------------------
(* An entry is deleted while scans cover others. *)

LEMMA ChainAbove ==
  ASSUME NEW lst \in Lists, NEW L, NEW D \in SUBSET Links,
         NEW rank \in [Links -> Links], Ranked(lst, L, rank, D), NEW l \in D
  PROVE  /\ Closed(lst, Chain(lst, l)) /\ Chain(lst, l) \in SUBSET Links
         /\ l \in Chain(lst, l)
         /\ \A x \in Chain(lst, l) : rank[l] <= rank[x]
<1>1. \A x \in D : lst.next[x] # 0 =>
        lst.next[x] \in D /\ rank[x] < rank[lst.next[x]]
  BY DEF Ranked
<1>2. Closed(lst, Chain(lst, l))
  BY <1>1, ChainClosed
<1>3. Chain(lst, l) \in SUBSET Links /\ l \in Chain(lst, l)
  <2>1. l \in Pointers /\ l \in Links
    BY PointerType
  <2> QED
    BY <2>1, ChainType, ChainStarts
<1> DEFINE up == {x \in D : rank[l] <= rank[x]}
<1>4. Chain(lst, l) \subseteq up
  <2>0. \A x \in D : rank[x] \in Nat
    BY PointerType
  <2>1. up \in SUBSET Links /\ l \in up \cup {0}
    BY <2>0
  <2>2. ASSUME NEW x \in up PROVE lst.next[x] \in up \cup {0}
    <3>1. lst.next[x] # 0 => lst.next[x] \in D /\ rank[x] < rank[lst.next[x]]
      BY <1>1
    <3> QED
      BY <2>0, <3>1
  <2>3. Closed(lst, up)
    BY <2>2 DEF Closed
  <2> HIDE DEF up
  <2> QED
    BY <2>1, <2>3, ChainWithin
<1> QED
  BY <1>2, <1>3, <1>4

LEMMA DeletedBelow ==
  ASSUME NEW lst \in Lists, NEW L \in SUBSET Links, Linked(lst, L), NEW x \in L,
         NEW D \in SUBSET Links, NEW rank \in [Links -> Links],
         Ranked(lst, L, rank, D), NEW at, NEW first, Below(lst, at, first, rank, D)
  PROVE  Below(rolo_delete(lst, x), at, first, rank, D)
<1> DEFINE new == rolo_delete(lst, x)
           p == lst.prev[x]
           b == lst.next[x]
<1>1. new \in Lists /\ \A l \in Links : new.next[l] = IF l = p THEN b ELSE lst.next[l]
  BY DeletedFields
<1>2. /\ p \in L \cup {0} /\ 0 \notin L /\ x # 0
      /\ p # 0 => lst.next[p] = x
      /\ L \subseteq D /\ at \in D /\ at \in Links /\ at # 0
  BY PointerType DEF Linked, Ranked, Below
<1>3. Ranked(new, L \ {x}, rank, D)
  BY DeletedRanked
<1>4. \A l \in D : rank[l] \in Nat
  BY PointerType
<1>5. p # 0 => rank[p] < rank[x]
  BY <1>2 DEF Ranked
<1>6. p # x
  BY <1>2, <1>4, <1>5
<1> HIDE DEF new, p
<1>7. CASE first = 0 /\ lst.next[at] = 0
  <2>1. new.next[at] = 0
    BY <1>1, <1>2, <1>7
  <2> QED
    BY <1>2, <1>7, <2>1 DEF Below, new
<1>8. CASE /\ first \in D /\ rank[at] < rank[first]
           /\ lst.next[at] \in Chain(lst, first) \cup {0}
  <2> DEFINE C == Chain(new, first)
             S == IF p \in C THEN C \cup {x} ELSE C
  <2>1. /\ Closed(new, C) /\ C \in SUBSET Links /\ first \in C
        /\ \A l \in C : rank[first] <= rank[l]
    BY <1>1, <1>3, <1>8, ChainAbove
  <2> HIDE DEF C
  <2>2. Closed(lst, S)
    <3>1. ASSUME p \in C PROVE Closed(lst, C \cup {x})
      <4>1. new.next[p] = b /\ b \in C \cup {0} /\ lst.next[p] = x
        BY <1>1, <1>2, <2>1, <3>1, PointerType DEF Closed
      <4> SUFFICES ASSUME NEW l \in C \cup {x}
                   PROVE  lst.next[l] \in C \cup {x} \cup {0}
        BY DEF Closed
      <4>2. CASE l = p
        BY <4>1, <4>2
      <4>3. CASE l = x
        BY <4>1, <4>3
      <4>4. CASE l # p /\ l # x
        BY <1>1, <2>1, <4>4 DEF Closed
      <4> QED
        BY <4>2, <4>3, <4>4
    <3>2. ASSUME p \notin C PROVE Closed(lst, C)
      BY <1>1, <2>1, <3>2 DEF Closed
    <3> QED
      BY <3>1, <3>2
  <2>3. Chain(lst, first) \subseteq S
    <3>1. S \in SUBSET Links /\ first \in S \cup {0}
      BY <2>1
    <3> HIDE DEF S
    <3> QED
      BY <2>2, <3>1, ChainWithin
  <2>4. new.next[at] \in C \cup {0}
    <3>1. CASE at = p
      <4>1. p \notin C
        BY <1>2, <1>4, <1>8, <2>1, <3>1
      <4>2. x \in C
        BY <1>2, <1>8, <2>3, <3>1, <4>1
      <4>3. new.next[x] = b /\ new.next[at] = b
        BY <1>1, <1>2, <1>6, <3>1
      <4> QED
        BY <2>1, <4>2, <4>3 DEF Closed
    <3>2. CASE at # p
      <4>1. new.next[at] = lst.next[at]
        BY <1>1, <1>2, <3>2
      <4>2. ASSUME lst.next[at] = x, p \in C PROVE FALSE
        <5>0. p \in L /\ p \in D /\ first \in D
          BY <1>2, <1>8, <2>1, <4>2, PointerType
        <5>1. rank[at] < rank[p] /\ p \in L
          <6>1. rank[at] < rank[first] /\ rank[first] <= rank[p]
            BY <1>8, <2>1, <4>2
          <6> QED
            BY <1>2, <1>4, <5>0, <6>1
        <5>2. rank[x] <= rank[p]
          BY <1>2, <4>2, <5>1 DEF Ranked
        <5> QED
          BY <1>2, <1>4, <1>5, <5>1, <5>2
      <4> QED
        BY <1>8, <2>3, <4>1, <4>2
    <3> QED
      BY <3>1, <3>2
  <2> QED
    BY <1>2, <1>8, <2>4 DEF Below, new, C
<1> QED
  BY <1>7, <1>8 DEF Below

LEMMA DeleteNest ==
  ASSUME NEW lst \in Lists, NEW L \in SUBSET Links, Linked(lst, L), NEW x \in L,
         NEW stack \in Seq(Displays), NestOK(lst, L, stack)
  PROVE  /\ Linked(rolo_delete(lst, x), L \ {x})
         /\ NestOK(rolo_delete(lst, x), L \ {x}, stack)
<1>1. PICK rank \in [Links -> Links], D \in SUBSET Links :
        Nested(lst, L, stack, rank, D)
  BY DEF NestOK
<1>2. Ranked(lst, L, rank, D)
  BY <1>1 DEF Nested
<1>3. /\ Linked(rolo_delete(lst, x), L \ {x})
      /\ Ranked(rolo_delete(lst, x), L \ {x}, rank, D)
  BY <1>2, DeletedLinked, DeletedRanked
<1>4. ASSUME NEW i \in 1..Len(stack) - 1
      PROVE  Below(rolo_delete(lst, x), stack[i].at, stack[i + 1].first, rank, D)
  <2>1. Below(lst, stack[i].at, stack[i + 1].first, rank, D)
    BY <1>1 DEF Nested
  <2> QED
    BY <1>2, <2>1, DeletedBelow
<1>5. Nested(rolo_delete(lst, x), L \ {x}, stack, rank, D)
  BY <1>3, <1>4 DEF Nested
<1> QED
  BY <1>3, <1>5 DEF NestOK

(* Another scan covers the innermost screen. *)
LEMMA ScanNest ==
  ASSUME NEW lst \in Lists, NEW L \in SUBSET Links, Linked(lst, L),
         NEW stack \in Seq(Displays), stack # <<>>, NestOK(lst, L, stack),
         stack[Len(stack)].at \in L,
         NEW s \in Displays, s.first = lst.next[stack[Len(stack)].at]
  PROVE  NestOK(lst, L, Append(stack, s))
<1> DEFINE n == Len(stack)
           new == Append(stack, s)
           at == stack[n].at
<1>1. /\ n \in Nat \ {0} /\ new \in Seq(Displays) /\ Len(new) = n + 1
      /\ \A i \in 1..n : new[i] = stack[i]
      /\ new[n + 1] = s
  OBVIOUS
<1>2. PICK rank \in [Links -> Links], D \in SUBSET Links :
        Nested(lst, L, stack, rank, D)
  BY DEF NestOK
<1> HIDE DEF new
<1>3. Below(lst, at, s.first, rank, D)
  <2>1. at \in D /\ (lst.next[at] # 0 =>
          lst.next[at] \in D /\ rank[at] < rank[lst.next[at]])
    BY <1>2 DEF Nested, Ranked
  <2>2. lst.next[at] # 0 => lst.next[at] \in Chain(lst, lst.next[at])
    BY <2>1, ChainStarts
  <2> HIDE DEF at
  <2> QED
    BY <2>1, <2>2 DEF Below, at
<1>4. ASSUME NEW i \in 1..Len(new) - 1
      PROVE  Below(lst, new[i].at, new[i + 1].first, rank, D)
  <2>1. CASE i = n
    BY <1>1, <1>3, <2>1
  <2>2. CASE i # n
    <3>1. i \in 1..n - 1 /\ new[i] = stack[i] /\ new[i + 1] = stack[i + 1]
      <4> HIDE DEF n
      <4>1. i \in 1..n - 1 /\ i \in 1..n /\ i + 1 \in 1..n
        BY <1>1, <2>2
      <4> QED
        BY <1>1, <4>1
    <3> QED
      BY <1>2, <3>1 DEF Nested
  <2> QED
    BY <2>1, <2>2
<1>5. Nested(lst, L, new, rank, D)
  BY <1>2, <1>4 DEF Nested
<1> QED
  BY <1>5 DEF NestOK, new

-----------------------------------------------------------------------------
(* The invariant. *)

TypeInv ==
  /\ list \in Lists /\ entry \in [Links -> Fields] /\ matched \in SUBSET Links
  /\ used \in 0..MaxLinks /\ live \in SUBSET (1..used)
  /\ screens \in Seq(Displays) /\ fault \in BOOLEAN /\ calls \in Nat
  /\ past \in SUBSET {"nested", "zero", "unnoticed"}

WholeInv == ~Broken => Linked(list, live) /\ NestOK(list, live, screens)
OrderInv == past = {} => Sorted(list, entry, live)
StackInv == StackOK(screens)
ShownInv == ~Broken => TopOK(list, matched, live, screens)

IInv == TypeInv /\ WholeInv /\ OrderInv /\ StackInv /\ ShownInv

LEMMA LiveLinks ==
  ASSUME TypeInv
  PROVE  live \in SUBSET Links /\ 1..used \subseteq Links /\ used \in Nat
BY RolodexAssumption DEF TypeInv, Links

(* While nothing has gone wrong. *)
LEMMA Sound ==
  ASSUME IInv, ~Broken
  PROVE  /\ Linked(list, live) /\ NestOK(list, live, screens)
         /\ Whole(list, live) /\ Chain(list, list.begin) = live
         /\ Closed(list, live) /\ list.begin \in live \cup {0}
         /\ TopOK(list, matched, live, screens)
<1>1. Linked(list, live) /\ NestOK(list, live, screens)
      /\ TopOK(list, matched, live, screens)
  BY DEF IInv, WholeInv, ShownInv
<1>2. list \in Lists /\ live \in SUBSET Links /\ screens \in Seq(Displays)
  BY LiveLinks DEF IInv, TypeInv
<1>3. Whole(list, live) /\ Chain(list, list.begin) = live
  BY <1>1, <1>2, NestWhole
<1> QED
  BY <1>1, <1>3 DEF Linked, Closed

LEMMA TopFacts ==
  ASSUME IInv, screens # <<>>
  PROVE  /\ Len(screens) \in Nat \ {0} /\ Top = screens[Len(screens)]
         /\ Top \in Displays
         /\ Top.kind \in Kinds /\ Top.first \in Pointers /\ Top.at \in Pointers
         /\ Top.shown \in BOOLEAN /\ Top.hits \in SUBSET Links
         /\ Len(screens) > 1 => Top.kind = "scan"
         /\ Top.shown => Top.at \in Links
         /\ Top.kind = "one" => Top.shown
<1>1. screens \in Seq(Displays) /\ StackOK(screens)
  BY DEF IInv, TypeInv, StackInv
<1>2. Len(screens) \in Nat \ {0} /\ Len(screens) \in 1..Len(screens)
      /\ screens[Len(screens)] \in Displays
  BY <1>1
<1>3. /\ Len(screens) > 1 => screens[Len(screens)].kind = "scan"
      /\ screens[Len(screens)].shown => screens[Len(screens)].at \in Links
      /\ screens[Len(screens)].kind = "one" => screens[Len(screens)].shown
  BY <1>1, <1>2 DEF StackOK
<1>4. Top = screens[Len(screens)]
  BY DEF Top
<1>5. Top \in Displays
  BY <1>2, <1>4
<1> QED
  BY <1>2, <1>3, <1>4, <1>5 DEF Displays

(* Steps that leave the list and the entries alone. *)
LEMMA KeptList ==
  ASSUME IInv, UNCHANGED <<list, entry, used, live, past>>,
         matched' \in SUBSET Links, screens' \in Seq(Displays),
         fault' \in BOOLEAN, calls' \in Nat, StackOK(screens'),
         ~Broken => NestOK(list, live, screens')
                    /\ TopOK(list, matched', live, screens')
  PROVE  IInv'
<1>1. TypeInv'
  BY DEF IInv, TypeInv
<1>2. Broken' <=> Broken
  BY DEF Broken
<1>3. WholeInv'
  BY <1>2 DEF IInv, WholeInv
<1>4. OrderInv'
  BY DEF IInv, OrderInv
<1>5. StackInv'
  BY DEF StackInv
<1>6. ShownInv'
  BY <1>2 DEF ShownInv
<1> QED
  BY <1>1, <1>3, <1>4, <1>5, <1>6 DEF IInv

(* Steps in which, besides, the screens beneath the innermost one stay.     *)
LEMMA KeptUnder ==
  ASSUME IInv, UNCHANGED <<list, entry, used, live, past>>,
         matched' \in SUBSET Links, Under(screens', screens),
         fault' \in BOOLEAN, calls' \in Nat, StackOK(screens'),
         ~Broken => TopOK(list, matched', live, screens')
  PROVE  IInv'
<1>1. screens' \in Seq(Displays)
  BY DEF Under
<1>2. ASSUME ~Broken PROVE NestOK(list, live, screens')
  <2>1. NestOK(list, live, screens) /\ list \in Lists /\ screens \in Seq(Displays)
    BY <1>2, Sound DEF IInv, TypeInv
  <2>2. /\ screens' \in Seq(Displays) /\ Len(screens') <= Len(screens)
        /\ \A i \in 1..Len(screens') - 1 : screens'[i].at = screens[i].at
        /\ \A i \in 1..Len(screens') : screens'[i].first = screens[i].first
    BY DEF Under
  <2> QED
    BY <2>1, <2>2, NestSame
<1> QED
  BY <1>1, <1>2, KeptList

LEMMA ReplaceFacts ==
  ASSUME IInv, screens # <<>>, NEW s \in Displays,
         s.first = Top.first, Len(screens) > 1 => s.kind = "scan",
         s.shown => s.at \in Links, s.kind = "one" => s.shown
  PROVE  /\ StackOK(Replace(s)) /\ Under(Replace(s), screens)
         /\ Len(Replace(s)) = Len(screens) /\ Replace(s)[Len(screens)] = s
<1> DEFINE n == Len(screens)
           new == Replace(s)
<1>1. n \in Nat \ {0} /\ Top = screens[n] /\ screens \in Seq(Displays)
  BY TopFacts DEF IInv, TypeInv
<1>2. /\ new \in Seq(Displays) /\ Len(new) = n /\ new[n] = s
      /\ \A i \in 1..n - 1 : new[i] = screens[i]
  BY <1>1 DEF Replace
<1>3. StackOK(screens)
  BY DEF IInv, StackInv
<1> HIDE DEF new, n
<1>4. \A i \in 1..n : i = n \/ i \in 1..n - 1
  BY <1>1
<1>5. StackOK(new)
  <2> SUFFICES ASSUME NEW i \in 1..n
               PROVE  /\ i > 1 => new[i].kind = "scan"
                      /\ i < n => new[i].shown
                      /\ new[i].shown => new[i].at \in Links
                      /\ new[i].kind = "one" => new[i].shown
    BY <1>2 DEF StackOK
  <2>1. CASE i = n
    BY <1>1, <1>2, <2>1 DEF n
  <2>2. CASE i \in 1..n - 1
    BY <1>1, <1>2, <1>3, <2>2 DEF StackOK, n
  <2> QED
    BY <1>4, <2>1, <2>2
<1>6. Under(new, screens)
  BY <1>1, <1>2, <1>4 DEF Under, n
<1> QED
  BY <1>2, <1>5, <1>6 DEF new, n

-----------------------------------------------------------------------------
LEMMA InitInv == Init => IInv
<1> SUFFICES ASSUME Init PROVE IInv
  OBVIOUS
<1>0. MaxLinks \in Nat /\ MaxLoaded \in 0..MaxLinks /\ used \in 0..MaxLoaded
  BY RolodexAssumption DEF Init
<1>1. entry \in [Links -> Fields]
  <2>1. PICK nm \in [1 .. used -> 1 .. MaxName], o \in {{}, {1}} :
          entry = [l \in Links |-> [name |-> IF l <= used THEN nm[l] ELSE 1,
                                    data |-> IF l \in o THEN "others" ELSE "plain"]]
    BY DEF Init
  <2>2. ASSUME NEW l \in Links
        PROVE  (IF l <= used THEN nm[l] ELSE 1) \in 1..MaxName
    <3>1. l <= used => l \in 1..used
      BY <1>0 DEF Links
    <3> QED
      BY <3>1, RolodexAssumption
  <2> QED
    BY <2>1, <2>2 DEF Fields
<1>2. /\ list \in Lists /\ Whole(list, 1..used) /\ Sorted(list, entry, 1..used)
  BY <1>0, <1>1, LoadedWhole DEF Init
<1>3. /\ live = 1..used /\ screens = <<>> /\ past = {} /\ matched = {}
      /\ calls = 0 /\ fault = FALSE
  BY DEF Init
<1>4. TypeInv
  <2>1. used \in 0..MaxLinks /\ calls \in Nat /\ live \in SUBSET (1..used)
    BY <1>0, <1>3
  <2>2. screens \in Seq(Displays) /\ matched \in SUBSET Links
    BY <1>3
  <2>3. past \in SUBSET {"nested", "zero", "unnoticed"} /\ fault \in BOOLEAN
    BY <1>3, Zenon
  <2> QED
    BY <1>1, <1>2, <2>1, <2>2, <2>3 DEF TypeInv
<1>5. WholeInv
  <2>1. screens \in Seq(Displays) /\ Len(screens) <= 1
    BY <1>3
  <2>2. NestOK(list, live, screens)
    BY <1>2, <1>3, <1>4, <2>1, LiveLinks, NestSingle DEF TypeInv
  <2> QED
    BY <1>2, <1>3, <2>2 DEF WholeInv, Whole
<1>6. OrderInv /\ StackInv /\ ShownInv
  BY <1>2, <1>3 DEF OrderInv, StackInv, ShownInv, StackOK, TopOK
<1> QED
  BY <1>4, <1>5, <1>6 DEF IInv

-----------------------------------------------------------------------------
(* One lemma for each action. *)

LEMMA LeaveKeeps ==
  ASSUME IInv, screens # <<>>, Leave, UNCHANGED <<list, entry, used, live, past>>,
         fault' \in BOOLEAN, calls' \in Nat
  PROVE  IInv'
<1>0. list \in Lists /\ matched \in SUBSET Links /\ screens \in Seq(Displays)
      /\ StackOK(screens) /\ live \in SUBSET Links
  BY LiveLinks DEF IInv, TypeInv, StackInv
<1>1. screens' = Left(list, screens) /\ matched' = Unflagged(list, matched, screens)
  BY DEF Leave, Left, Unflagged, FlagsAfter, Top
<1>2. matched' \in SUBSET Links
  BY <1>0, <1>1 DEF Unflagged
<1>3. StackOK(screens') /\ Under(screens', screens)
  BY <1>0, <1>1, LeftType
<1>4. ASSUME ~Broken PROVE TopOK(list, matched', live, screens')
  <2>1. Linked(list, live) /\ NestOK(list, live, screens)
    BY <1>4, Sound
  <2> QED
    BY <1>0, <1>1, <2>1, LeftTop
<1> QED
  BY <1>2, <1>3, <1>4, KeptUnder

LEMMA NextMatchKeeps ==
  ASSUME IInv, NextMatch
  PROVE  IInv'
<1>0. /\ screens # <<>> /\ Scanning /\ ~Top.shown
      /\ UNCHANGED <<list, entry, used, live, fault, past, calls>>
  BY DEF NextMatch
<1>1. fault' \in BOOLEAN /\ calls' \in Nat /\ list \in Lists
      /\ matched \in SUBSET Links
  BY <1>0 DEF IInv, TypeInv
<1>2. CASE Top.at = 0
  BY <1>0, <1>1, <1>2, LeaveKeeps DEF NextMatch
<1>3. CASE Top.at # 0
  <2> DEFINE s == IF Top.at \in matched THEN [Top EXCEPT !.shown = TRUE]
                  ELSE [Top EXCEPT !.at = list.next[Top.at]]
  <2>1. screens' = Replace(s) /\ matched' = matched
    BY <1>3 DEF NextMatch
  <2>2. Top.at \in Links /\ Top.kind \in {"scan", "search"} /\ Top \in Displays
    BY <1>0, <1>3, TopFacts, PointerType DEF Scanning
  <2>3. list.next[Top.at] \in Pointers
    BY <1>1, <2>2 DEF Lists
  <2>4. /\ s \in Displays /\ s.first = Top.first /\ s.kind = Top.kind
        /\ s.hits = Top.hits
        /\ s.shown = (Top.at \in matched)
        /\ s.at = IF Top.at \in matched THEN Top.at ELSE list.next[Top.at]
    <3>1. CASE Top.at \in matched
      BY <2>2, <3>1 DEF Displays
    <3>2. CASE Top.at \notin matched
      BY <1>0, <2>2, <2>3, <3>2 DEF Displays
    <3> QED
      BY <3>1, <3>2
  <2> HIDE DEF s
  <2>5. StackOK(Replace(s)) /\ Under(Replace(s), screens)
        /\ Len(Replace(s)) = Len(screens) /\ Replace(s)[Len(screens)] = s
    <3>1. /\ Len(screens) > 1 => s.kind = "scan"
          /\ s.shown => s.at \in Links
          /\ s.kind = "one" => s.shown
      BY <1>0, <2>2, <2>4, TopFacts
    <3> QED
      BY <1>0, <2>4, <3>1, ReplaceFacts
  <2>6. ASSUME ~Broken PROVE TopOK(list, matched, live, Replace(s))
    <3>1. PICK C \in SUBSET Links :
            /\ Closed(list, C) /\ Top.at \in C \cup {0} /\ C \cap matched \subseteq live
            /\ Top.kind = "search" =>
                 /\ C \cap matched \subseteq Top.hits
                 /\ C \cap matched = {} \/ matched \cap live \subseteq Top.hits
      <4>1. TopOK(list, matched, live, screens) /\ Top = screens[Len(screens)]
        BY <1>0, <2>6, Sound, TopFacts
      <4> QED
        BY <1>0, <2>2, <4>1 DEF TopOK
    <3>2. CASE Top.at \in matched
      <4>1. s.at \in live /\ (s.kind # "scan" => s.at \in s.hits)
            /\ (s.kind = "search" => matched \cap live \subseteq s.hits)
        BY <1>3, <2>2, <2>4, <3>1, <3>2
      <4>2. s.kind # "pick" /\ s.shown
        BY <2>2, <2>4, <3>2
      <4> QED
        BY <2>5, <4>1, <4>2 DEF TopOK
    <3>3. CASE Top.at \notin matched
      <4>1. s.at \in C \cup {0}
        BY <1>3, <2>4, <3>1, <3>3 DEF Closed
      <4>2. s.kind # "pick" /\ ~s.shown
        BY <2>2, <2>4, <3>3
      <4>3. s.kind = "search" =>
              /\ C \cap matched \subseteq s.hits
              /\ C \cap matched = {} \/ matched \cap live \subseteq s.hits
        BY <2>4, <3>1
      <4> QED
        BY <2>5, <3>1, <4>1, <4>2, <4>3 DEF TopOK
    <3> QED
      BY <3>2, <3>3
  <2> QED
    BY <1>0, <1>1, <2>1, <2>5, <2>6, KeptUnder
<1> QED
  BY <1>2, <1>3

(* The menu's first screen. *)
LEMMA FirstScreen ==
  ASSUME IInv, ~Broken, screens = <<>>, NEW s \in Displays, NEW flags \in SUBSET Links,
         matched' = flags, screens' = <<s>>,
         UNCHANGED <<list, entry, used, live, fault, past>>, calls' \in Nat,
         \/ s.kind \in {"scan", "search"} /\ ~s.shown /\ s.at = list.begin
            /\ (s.kind = "search" => flags \cap live \subseteq s.hits)
         \/ s.kind = "pick" /\ ~s.shown /\ s.at = 0 /\ flags \cap live \subseteq s.hits
         \/ s.kind = "one" /\ s.shown /\ s.at \in live \cap s.hits
  PROVE  IInv'
<1>0. /\ list \in Lists /\ live \in SUBSET Links /\ fault' \in BOOLEAN
      /\ screens' \in Seq(Displays) /\ Len(screens') = 1 /\ screens'[1] = s
      /\ screens' # <<>>
  BY LiveLinks DEF IInv, TypeInv
<1>1. Closed(list, live) /\ list.begin \in live \cup {0} /\ Whole(list, live)
  BY Sound
<1>2. StackOK(screens')
  BY <1>0 DEF StackOK
<1>3. NestOK(list, live, screens')
  <2>1. Len(screens') <= 1
    BY ONLY <1>0
  <2> QED
    BY <1>0, <1>1, <2>1, NestSingle
<1>4. TopOK(list, flags, live, screens')
  <2>1. CASE s.kind \in {"scan", "search"} /\ ~s.shown /\ s.at = list.begin
             /\ (s.kind = "search" => flags \cap live \subseteq s.hits)
    <3>1. /\ Closed(list, live) /\ s.at \in live \cup {0}
          /\ live \cap flags \subseteq live
          /\ s.kind = "search" =>
               /\ live \cap flags \subseteq s.hits
               /\ live \cap flags = {} \/ flags \cap live \subseteq s.hits
      BY <1>1, <2>1
    <3>2. s.kind # "pick" /\ ~s.shown
      BY <2>1
    <3> QED
      BY <1>0, <3>1, <3>2 DEF TopOK
  <2>2. CASE s.kind = "pick" /\ ~s.shown /\ s.at = 0 /\ flags \cap live \subseteq s.hits
    BY <1>0, <2>2 DEF TopOK
  <2>3. CASE s.kind = "one" /\ s.shown /\ s.at \in live \cap s.hits
    BY <1>0, <2>3 DEF TopOK
  <2> QED
    BY <2>1, <2>2, <2>3
<1> QED
  BY <1>0, <1>2, <1>3, <1>4, KeptList

LEMMA PeruseAllKeeps ==
  ASSUME IInv, PeruseAll
  PROVE  IInv'
<1>0. /\ ~Broken /\ screens = <<>> /\ calls' = calls + 1
      /\ Peruse(list.begin, screens)
      /\ UNCHANGED <<list, entry, used, live, fault, past>>
  BY DEF PeruseAll, Call
<1>1. list \in Lists /\ matched \in SUBSET Links /\ calls' \in Nat
      /\ fault' \in BOOLEAN /\ list.begin \in Pointers
  <2>1. list.begin \in live \cup {0} /\ live \in SUBSET Links
    BY <1>0, Sound, LiveLinks DEF IInv
  <2>2. list.begin \in Pointers
    BY <2>1, PointerType
  <2>3. list \in Lists /\ matched \in SUBSET Links /\ calls \in Nat
        /\ fault \in BOOLEAN
    BY DEF IInv, TypeInv
  <2> QED
    BY <1>0, <2>2, <2>3
<1>2. CASE list.begin = 0
  <2>1. screens' = <<>> /\ matched' = matched
    BY <1>0, <1>2, GoOnEmpty DEF Peruse
  <2>2. StackOK(screens') /\ TopOK(list, matched', live, screens')
        /\ Under(screens', screens)
    BY <1>0, <2>1 DEF StackOK, TopOK, Under
  <2> QED
    BY <1>0, <1>1, <2>1, <2>2, KeptUnder
<1>3. CASE list.begin # 0
  <2> DEFINE s == Screen("scan", list.begin, list.begin, FALSE, {})
             flags == matched \cup Chain(list, list.begin)
  <2>1. matched' = flags /\ screens' = <<s>>
    <3>1. matched' = flags /\ screens' = Append(<<>>, s)
      BY <1>0, <1>3 DEF Peruse
    <3> HIDE DEF s
    <3>2. Append(<<>>, s) = <<s>>
      OBVIOUS
    <3> QED
      BY <3>1, <3>2
  <2>2. flags \in SUBSET Links
    BY <1>1, ChainType
  <2>3. s \in Displays /\ s.kind = "scan" /\ ~s.shown /\ s.at = list.begin
    BY <1>1 DEF Screen, Displays, Kinds
  <2> HIDE DEF s, flags
  <2> QED
    BY <1>0, <1>1, <2>1, <2>2, <2>3, FirstScreen
<1> QED
  BY <1>2, <1>3

LEMMA SearchKeeps ==
  ASSUME IInv, Search
  PROVE  IInv'
<1>0. /\ ~Broken /\ screens = <<>> /\ calls' = calls + 1
      /\ UNCHANGED <<list, entry, used, live, past>>
  BY DEF Search, Call
<1>1. /\ list \in Lists /\ matched \in SUBSET Links /\ calls' \in Nat
      /\ fault \in BOOLEAN /\ live \in SUBSET Links
      /\ Chain(list, list.begin) = live /\ list.begin \in live \cup {0}
  BY <1>0, Sound, LiveLinks DEF IInv, TypeInv
<1>2. CASE fault' = TRUE /\ UNCHANGED <<matched, screens>>
  <2>1. StackOK(screens') /\ TopOK(list, matched', live, screens')
        /\ Under(screens', screens)
    BY <1>0, <1>2 DEF StackOK, TopOK, Under
  <2> QED
    BY <1>0, <1>1, <1>2, <2>1, KeptUnder
<1>3. ASSUME NEW hits \in SUBSET live, fault' = fault,
             matched' = (matched \ live) \cup hits,
             LET n == Cardinality(hits) IN
             screens' = IF n = 0 THEN <<>>
                        ELSE IF n = 1
                          THEN <<Screen("one", 0, CHOOSE l \in hits : TRUE, TRUE, hits)>>
                        ELSE IF n > MAXMATCHES
                          THEN <<Screen("search", 0, list.begin, FALSE, hits)>>
                        ELSE <<Screen("pick", 0, 0, FALSE, hits)>>
      PROVE  IInv'
  <2> DEFINE flags == (matched \ live) \cup hits
             one == Screen("one", 0, CHOOSE l \in hits : TRUE, TRUE, hits)
             search == Screen("search", 0, list.begin, FALSE, hits)
             pick == Screen("pick", 0, 0, FALSE, hits)
  <2>1. flags \in SUBSET Links /\ flags \cap live \subseteq hits
    BY <1>1, <1>3
  <2>2. 0 \in Pointers /\ list.begin \in Pointers /\ hits \in SUBSET Links
        /\ Links \subseteq Pointers
    BY <1>1, <1>3, PointerType
  <2>3. \/ screens' = <<>>
        \/ screens' = <<one>> /\ Cardinality(hits) = 1
        \/ screens' = <<search>>
        \/ screens' = <<pick>>
    BY <1>3
  <2>4. CASE screens' = <<>>
    <3>1. StackOK(screens') /\ TopOK(list, matched', live, screens')
          /\ Under(screens', screens)
      BY <1>0, <2>4 DEF StackOK, TopOK, Under
    <3> QED
      BY <1>0, <1>1, <1>3, <2>1, <3>1, KeptUnder
  <2>5. CASE screens' = <<one>> /\ Cardinality(hits) = 1
    <3>1. hits # {}
      BY <2>5, FS_EmptySet
    <3>2. (CHOOSE l \in hits : TRUE) \in hits
      BY <3>1
    <3>3. one \in Displays /\ one.kind = "one" /\ one.shown
          /\ one.at \in live \cap one.hits
      BY <1>3, <2>2, <3>2 DEF Screen, Displays, Kinds
    <3> HIDE DEF one, flags
    <3>4. matched' = flags
      BY <1>3 DEF flags
    <3> QED
      BY <1>0, <1>1, <1>3, <2>1, <2>5, <3>3, <3>4, FirstScreen
  <2>6. CASE screens' = <<search>>
    <3>1. search \in Displays /\ search.kind = "search" /\ ~search.shown
          /\ search.at = list.begin /\ flags \cap live \subseteq search.hits
      BY <2>1, <2>2 DEF Screen, Displays, Kinds
    <3> HIDE DEF search, flags
    <3>2. matched' = flags
      BY <1>3 DEF flags
    <3> QED
      BY <1>0, <1>1, <1>3, <2>1, <2>6, <3>1, <3>2, FirstScreen
  <2>7. CASE screens' = <<pick>>
    <3>1. pick \in Displays /\ pick.kind = "pick" /\ ~pick.shown
          /\ pick.at = 0 /\ flags \cap live \subseteq pick.hits
      BY <2>1, <2>2 DEF Screen, Displays, Kinds
    <3> HIDE DEF pick, flags
    <3>2. matched' = flags
      BY <1>3 DEF flags
    <3> QED
      BY <1>0, <1>1, <1>3, <2>1, <2>7, <3>1, <3>2, FirstScreen
  <2> QED
    BY <2>3, <2>4, <2>5, <2>6, <2>7
<1>4. CASE fault' = fault
  <2>1. \/ fault' = TRUE /\ UNCHANGED <<matched, screens>>
        \/ \E hits \in SUBSET live :
             LET n == Cardinality(hits) IN
             /\ matched' = (matched \ live) \cup hits
             /\ screens' =
                  IF n = 0 THEN <<>>
                  ELSE IF n = 1
                    THEN <<Screen("one", 0, CHOOSE l \in hits : TRUE, TRUE, hits)>>
                  ELSE IF n > MAXMATCHES
                    THEN <<Screen("search", 0, list.begin, FALSE, hits)>>
                  ELSE <<Screen("pick", 0, 0, FALSE, hits)>>
    BY <1>1 DEF Search
  <2> QED
    BY <1>2, <1>3, <1>4, <2>1
<1>5. fault' = fault \/ (fault' = TRUE /\ UNCHANGED <<matched, screens>>)
  BY DEF Search
<1> QED
  BY <1>2, <1>4, <1>5

(* What is on the screen. *)
LEMMA OnScreen ==
  ASSUME IInv, ~Broken, screens # <<>>, Top.shown
  PROVE  /\ Top.at \in live /\ Top.at \in Links /\ Top.at # 0
         /\ list.next[Top.at] \in live \cup {0}
         /\ Top.kind # "scan" => Top.at \in Top.hits
         /\ Top.kind \in {"search", "pick"} => matched \cap live \subseteq Top.hits
<1>1. /\ TopOK(list, matched, live, screens) /\ Top = screens[Len(screens)]
      /\ Closed(list, live) /\ live \in SUBSET Links
  BY Sound, TopFacts, LiveLinks DEF IInv
<1>2. /\ Top.at \in live
      /\ Top.kind # "scan" => Top.at \in Top.hits
      /\ Top.kind \in {"search", "pick"} => matched \cap live \subseteq Top.hits
  BY <1>1 DEF TopOK
<1> QED
  BY <1>1, <1>2, PointerType DEF Closed

LEMMA GoOnKeeps ==
  ASSUME IInv, ~Broken, screens # <<>>, Top.shown, screens' = GoOn(screens, list),
         UNCHANGED <<list, entry, matched, used, live, past>>,
         fault' \in BOOLEAN, calls' \in Nat
  PROVE  IInv'
<1>1. /\ list \in Lists /\ live \in SUBSET Links /\ Closed(list, live)
      /\ matched \in SUBSET Links /\ screens \in Seq(Displays) /\ StackOK(screens)
  BY Sound, LiveLinks DEF IInv, TypeInv, StackInv
<1>2. /\ Top \in Displays /\ Top = screens[Len(screens)] /\ Top.at \in Links
      /\ list.next[Top.at] \in live \cup {0}
      /\ Top.kind = "search" => matched \cap live \subseteq Top.hits
  BY TopFacts, OnScreen
<1>3. StackOK(screens') /\ Under(screens', screens)
  BY <1>1, <1>2, GoOnType
<1>4. TopOK(list, matched, live, screens')
  BY <1>1, <1>2, GoOnTop
<1> QED
  BY <1>1, <1>3, <1>4, KeptUnder

LEMMA PickNoneKeeps ==
  ASSUME IInv, PickNone
  PROVE  IInv'
<1>0. /\ ~Broken /\ screens # <<>> /\ Top.kind = "pick" /\ ~Top.shown
      /\ calls' = calls + 1 /\ UNCHANGED <<list, entry, matched, used, live, fault, past>>
  BY DEF PickNone, Call, Picking
<1>1. /\ list \in Lists /\ live \in SUBSET Links /\ Closed(list, live)
      /\ matched \in SUBSET Links /\ calls \in Nat /\ fault \in BOOLEAN
      /\ list.begin \in live \cup {0} /\ TopOK(list, matched, live, screens)
      /\ screens \in Seq(Displays)
  BY <1>0, Sound, LiveLinks DEF IInv, TypeInv
<1>2. /\ Top \in Displays /\ Top = screens[Len(screens)]
      /\ matched \cap live \subseteq Top.hits
      /\ Len(screens) \in Nat \ {0} /\ ~(Len(screens) > 1)
  BY <1>0, <1>1, TopFacts DEF TopOK
<1>3. CASE screens' = Front(screens)
  <2>1. Len(Front(screens)) = Len(screens) - 1 /\ Front(screens) \in Seq(Displays)
    BY <1>0, <1>1, FrontFacts
  <2>2. Len(Front(screens)) = 0
    BY ONLY <2>1, <1>2
  <2>3. screens' = <<>>
    BY <1>3, <2>1, <2>2
  <2>4. StackOK(screens') /\ TopOK(list, matched', live, screens')
        /\ Under(screens', screens)
    BY <1>2, <2>3 DEF StackOK, TopOK, Under
  <2> QED
    BY <1>0, <1>1, <2>4, KeptUnder
<1>4. CASE screens' = Replace([Top EXCEPT !.kind = "search", !.at = list.begin])
  <2> DEFINE s == [Top EXCEPT !.kind = "search", !.at = list.begin]
  <2>1. /\ s \in Displays /\ s.kind = "search" /\ s.at = list.begin
        /\ s.shown = Top.shown /\ s.hits = Top.hits /\ s.first = Top.first
    BY <1>1, <1>2, PointerType DEF Displays, Kinds
  <2> HIDE DEF s
  <2>2. StackOK(Replace(s)) /\ Under(Replace(s), screens)
        /\ Len(Replace(s)) = Len(screens) /\ Replace(s)[Len(screens)] = s
    BY <1>0, <1>2, <2>1, ReplaceFacts
  <2>3. TopOK(list, matched, live, Replace(s))
    <3>1. /\ Closed(list, live) /\ s.at \in live \cup {0}
          /\ live \cap matched \subseteq live
          /\ s.kind = "search" =>
               /\ live \cap matched \subseteq s.hits
               /\ live \cap matched = {} \/ matched \cap live \subseteq s.hits
      BY <1>1, <1>2, <2>1
    <3>2. s.kind # "pick" /\ ~s.shown
      BY <1>0, <2>1
    <3> QED
      BY <1>1, <2>2, <3>1, <3>2 DEF TopOK
  <2>4. screens' = Replace(s)
    BY <1>4 DEF s
  <2> QED
    BY <1>0, <1>1, <2>2, <2>3, <2>4, KeptUnder
<1> QED
  BY <1>3, <1>4 DEF PickNone

LEMMA PickKeeps ==
  ASSUME IInv, Pick
  PROVE  IInv'
<1>0. /\ ~Broken /\ screens # <<>> /\ Top.kind = "pick" /\ ~Top.shown
      /\ calls' = calls + 1 /\ UNCHANGED <<list, entry, matched, used, live>>
  BY DEF Pick, Call, Picking
<1>1. /\ list \in Lists /\ live \in SUBSET Links
      /\ matched \in SUBSET Links /\ calls' \in Nat /\ fault \in BOOLEAN
      /\ Chain(list, list.begin) = live /\ TopOK(list, matched, live, screens)
      /\ entry \in [Links -> Fields]
  <2>1. calls \in Nat
    BY DEF IInv, TypeInv
  <2> QED
    BY <1>0, <2>1, Sound, LiveLinks DEF IInv, TypeInv
<1>2. /\ Top \in Displays /\ Top = screens[Len(screens)]
      /\ matched \cap live \subseteq Top.hits
      /\ Top.at = 0 \/ Top.at \in live \cap Top.hits
      /\ Len(screens) \in Nat \ {0} /\ ~(Len(screens) > 1)
      /\ Top.shown \in BOOLEAN
  BY <1>0, <1>1, TopFacts DEF TopOK
<1>3. ASSUME NEW l \in Links, screens' = Replace([Top EXCEPT !.at = l, !.shown = TRUE])
      PROVE  /\ StackOK(screens') /\ Under(screens', screens)
             /\ l \in live \cap Top.hits => TopOK(list, matched, live, screens')
  <2> DEFINE s == [Top EXCEPT !.at = l, !.shown = TRUE]
  <2>1. /\ s \in Displays /\ s.kind = "pick" /\ s.at = l
        /\ s.shown /\ s.hits = Top.hits /\ s.first = Top.first
    BY <1>0, <1>2, PointerType DEF Displays
  <2> HIDE DEF s
  <2>2. StackOK(Replace(s)) /\ Under(Replace(s), screens)
        /\ Len(Replace(s)) = Len(screens) /\ Replace(s)[Len(screens)] = s
    BY <1>0, <1>2, <2>1, ReplaceFacts
  <2>3. l \in live \cap Top.hits => TopOK(list, matched, live, Replace(s))
    BY <1>2, <2>1, <2>2 DEF TopOK
  <2>4. screens' = Replace(s)
    BY <1>3 DEF s
  <2> QED
    BY <2>2, <2>3, <2>4
<1>4. CASE \E k \in 0 .. MaxLinks - 1 :
             LET l == Ahead(list, list.begin, k) IN
             /\ l # 0 /\ l \in matched
             /\ screens' = Replace([Top EXCEPT !.at = l, !.shown = TRUE])
             /\ UNCHANGED <<fault, past>>
  <2>1. PICK l : /\ l \in Chain(list, list.begin) /\ l \in matched
                 /\ screens' = Replace([Top EXCEPT !.at = l, !.shown = TRUE])
                 /\ UNCHANGED <<fault, past>>
    <3>1. 0..MaxLinks - 1 \subseteq 0..MaxLinks
      BY RolodexAssumption
    <3> QED
      BY <1>4, <3>1 DEF Chain
  <2>2. l \in live \cap Top.hits /\ l \in Links
    BY <1>1, <1>2, <2>1
  <2>3. StackOK(screens') /\ Under(screens', screens)
        /\ TopOK(list, matched, live, screens')
    BY <1>3, <2>1, <2>2
  <2> QED
    BY <1>0, <1>1, <2>1, <2>3, KeptUnder
<1>5. CASE /\ Top.at # 0
           /\ screens' = Replace([Top EXCEPT !.shown = TRUE])
           /\ UNCHANGED <<fault, past>>
  <2>1. [Top EXCEPT !.shown = TRUE] = [Top EXCEPT !.at = Top.at, !.shown = TRUE]
    BY <1>2 DEF Displays
  <2>2. Top.at \in live \cap Top.hits /\ Top.at \in Links
    BY <1>1, <1>2, <1>5
  <2>3. screens' = Replace([Top EXCEPT !.at = Top.at, !.shown = TRUE])
    BY <1>5, <2>1
  <2>4. StackOK(screens') /\ Under(screens', screens)
        /\ TopOK(list, matched, live, screens')
    BY <1>3, <2>2, <2>3
  <2> QED
    BY <1>0, <1>1, <1>5, <2>4, KeptUnder
<1>6. CASE /\ past' = past \cup {"zero"}
           /\ \/ fault' = TRUE /\ UNCHANGED screens
              \/ /\ UNCHANGED fault
                 /\ \E l \in 1 .. used :
                      screens' = Replace([Top EXCEPT !.at = l, !.shown = TRUE])
  <2>1. /\ StackOK(screens') /\ screens' \in Seq(Displays) /\ fault' \in BOOLEAN
    <3>1. CASE fault' = TRUE /\ UNCHANGED screens
      BY <3>1 DEF IInv, TypeInv, StackInv
    <3>2. ASSUME UNCHANGED fault, NEW l \in 1..used,
                 screens' = Replace([Top EXCEPT !.at = l, !.shown = TRUE])
          PROVE  StackOK(screens') /\ screens' \in Seq(Displays) /\ fault' \in BOOLEAN
      <4>1. l \in Links
        BY <3>2, LiveLinks DEF IInv
      <4> QED
        BY <1>1, <1>3, <3>2, <4>1 DEF Under
    <3> QED
      BY <1>6, <3>1, <3>2
  <2>2. past' \in SUBSET {"nested", "zero", "unnoticed"} /\ past' # {}
    BY <1>6 DEF IInv, TypeInv
  <2>3. TypeInv'
    BY <1>0, <1>1, <2>1, <2>2 DEF IInv, TypeInv
  <2>4. Broken'
    BY <1>6 DEF Broken
  <2> QED
    BY <2>1, <2>2, <2>3, <2>4 DEF IInv, WholeInv, OrderInv, StackInv, ShownInv
<1> QED
  BY <1>4, <1>5, <1>6 DEF Pick

LEMMA ContinueKeeps ==
  ASSUME IInv, Continue
  PROVE  IInv'
<1>0. /\ ~Broken /\ screens # <<>> /\ Top.shown /\ calls' = calls + 1
      /\ UNCHANGED <<list, entry, matched, used, live, fault, past>>
      /\ screens' = IF Top.kind = "pick" THEN Replace([Top EXCEPT !.shown = FALSE])
                    ELSE GoOn(screens, list)
  BY DEF Continue, Call, Showing
<1>1. fault' \in BOOLEAN /\ calls' \in Nat
  BY <1>0 DEF IInv, TypeInv
<1>2. CASE Top.kind # "pick"
  BY <1>0, <1>1, <1>2, GoOnKeeps
<1>3. ASSUME Top.kind = "pick", screens' = Replace([Top EXCEPT !.shown = FALSE])
      PROVE  IInv'
  <2> DEFINE s == [Top EXCEPT !.shown = FALSE]
  <2>1. Top \in Displays /\ Top.at \in live \cap Top.hits
        /\ matched \cap live \subseteq Top.hits /\ matched \in SUBSET Links
        /\ ~(Len(screens) > 1)
    BY <1>0, <1>3, TopFacts, OnScreen DEF IInv, TypeInv
  <2>2. /\ s \in Displays /\ s.kind = "pick" /\ s.at = Top.at
        /\ s.shown = FALSE /\ s.hits = Top.hits /\ s.first = Top.first
    BY <1>3, <2>1 DEF Displays
  <2> HIDE DEF s
  <2>3. StackOK(Replace(s)) /\ Under(Replace(s), screens)
        /\ Len(Replace(s)) = Len(screens) /\ Replace(s)[Len(screens)] = s
    BY <1>0, <2>1, <2>2, ReplaceFacts
  <2>4. TopOK(list, matched, live, Replace(s))
    BY <2>1, <2>2, <2>3 DEF TopOK
  <2>5. screens' = Replace(s)
    BY <1>3 DEF s
  <2> QED
    BY <1>0, <1>1, <2>1, <2>3, <2>4, <2>5, KeptUnder
<1> QED
  BY <1>0, <1>2, <1>3

LEMMA AbortKeeps ==
  ASSUME IInv, Abort
  PROVE  IInv'
<1>1. /\ screens # <<>> /\ Leave /\ UNCHANGED <<list, entry, used, live, past>>
      /\ fault' = fault /\ calls' = calls + 1
  BY DEF Abort, Call, Showing
<1>2. fault' \in BOOLEAN /\ calls' \in Nat
  BY <1>1 DEF IInv, TypeInv
<1> QED
  BY <1>1, <1>2, LeaveKeeps

LEMMA PreviousKeeps ==
  ASSUME IInv, Previous
  PROVE  IInv'
<1> DEFINE back == [list EXCEPT !.next = list.prev]
           found == {k \in 1 .. MaxLinks : Ahead(back, Top.at, k) \in matched}
           k == CHOOSE k \in found : \A i \in found : k <= i
           l == Ahead(back, Top.at, k)
<1>0. /\ ~Broken /\ screens # <<>> /\ Top.shown /\ calls' = calls + 1
      /\ Top.kind # "one"
      /\ UNCHANGED <<list, entry, matched, used, live, fault, past>>
      /\ screens' = IF Top.kind = "pick" THEN Replace([Top EXCEPT !.shown = FALSE])
                    ELSE IF found = {} THEN screens
                    ELSE Replace([Top EXCEPT !.at = l])
  BY DEF Previous, Call, Showing
<1>1. fault' \in BOOLEAN /\ calls' \in Nat /\ matched \in SUBSET Links
  BY <1>0 DEF IInv, TypeInv
<1>2. /\ Top \in Displays /\ Top.at \in live
      /\ Top.kind \in {"search", "pick"} => matched \cap live \subseteq Top.hits
      /\ Len(screens) > 1 => Top.kind = "scan"
  BY <1>0, TopFacts, OnScreen
<1>3. ASSUME Top.kind = "pick", screens' = Replace([Top EXCEPT !.shown = FALSE])
      PROVE  IInv'
  <2> DEFINE s == [Top EXCEPT !.shown = FALSE]
  <2>1. Top.at \in live \cap Top.hits /\ ~(Len(screens) > 1)
    BY <1>0, <1>3, TopFacts, OnScreen
  <2>2. /\ s \in Displays /\ s.kind = "pick" /\ s.at = Top.at
        /\ s.shown = FALSE /\ s.hits = Top.hits /\ s.first = Top.first
    BY <1>2, <1>3 DEF Displays
  <2> HIDE DEF s
  <2>3. StackOK(Replace(s)) /\ Under(Replace(s), screens)
        /\ Len(Replace(s)) = Len(screens) /\ Replace(s)[Len(screens)] = s
    BY <1>0, <2>1, <2>2, ReplaceFacts
  <2>4. TopOK(list, matched, live, Replace(s))
    BY <1>2, <1>3, <2>1, <2>2, <2>3 DEF TopOK
  <2>5. screens' = Replace(s)
    BY <1>3 DEF s
  <2> QED
    BY <1>0, <1>1, <2>3, <2>4, <2>5, KeptUnder
<1>4. ASSUME screens' = screens
      PROVE  IInv'
  <2>1. StackOK(screens) /\ NestOK(list, live, screens)
        /\ TopOK(list, matched, live, screens) /\ screens \in Seq(Displays)
    BY <1>0, Sound DEF IInv, TypeInv, StackInv
  <2> QED
    BY <1>0, <1>1, <1>4, <2>1, KeptList
<1>5. ASSUME Top.kind # "pick", found # {}, screens' = Replace([Top EXCEPT !.at = l])
      PROVE  IInv'
  <2>1. k \in found
    <3>1. found \in SUBSET Nat
      BY RolodexAssumption
    <3>2. \E i \in found : \A j \in found : i <= j
      <4> HIDE DEF found
      <4> QED
        BY <1>5, <3>1, MinOfPositions
    <3> HIDE DEF found
    <3> QED
      BY <3>2
  <2>2. /\ list \in Lists /\ live \in SUBSET Links /\ Linked(list, live)
    BY <1>0, Sound, LiveLinks DEF IInv, TypeInv
  <2>3. l \in live /\ l \in matched
    <3>1. back \in Lists /\ back.next = list.prev
      BY <2>2 DEF Lists
    <3>2. Closed(back, live)
      BY <2>2, <3>1 DEF Linked, Closed
    <3> HIDE DEF back
    <3>3. Chain(back, Top.at) \subseteq live
      BY <1>2, <2>2, <3>1, <3>2, ChainWithin
    <3>4. k \in 0..MaxLinks /\ l \in matched
      BY <2>1, RolodexAssumption
    <3>5. l # 0
      BY <1>1, <3>4, PointerType
    <3>6. l \in Chain(back, Top.at)
      <4> HIDE DEF k
      <4> QED
        BY <3>4, <3>5 DEF Chain
    <3> QED
      BY <3>3, <3>4, <3>6
  <2> HIDE DEF l
  <2> DEFINE s == [Top EXCEPT !.at = l]
  <2>4. /\ s \in Displays /\ s.kind = Top.kind /\ s.at = l
        /\ s.shown = Top.shown /\ s.hits = Top.hits /\ s.first = Top.first
    BY <1>2, <2>2, <2>3, PointerType DEF Displays
  <2> HIDE DEF s
  <2>5. StackOK(Replace(s)) /\ Under(Replace(s), screens)
        /\ Len(Replace(s)) = Len(screens) /\ Replace(s)[Len(screens)] = s
    BY <1>0, <1>2, <2>2, <2>3, <2>4, ReplaceFacts
  <2>6. TopOK(list, matched, live, Replace(s))
    <3>1. Top.kind \in {"scan", "search"}
      BY <1>0, <1>5, TopFacts DEF Kinds
    <3> QED
      BY <1>0, <1>2, <2>3, <2>4, <2>5, <3>1 DEF TopOK
  <2>7. screens' = Replace(s)
    BY <1>5 DEF s
  <2> QED
    BY <1>0, <1>1, <2>5, <2>6, <2>7, KeptUnder
<1> HIDE DEF found, l
<1> QED
  BY <1>0, <1>3, <1>4, <1>5

LEMMA AddKeeps ==
  ASSUME IInv, rolo_add
  PROVE  IInv'
<1>0. /\ ~Broken /\ screens = <<>> /\ used < MaxLinks /\ used' = used + 1
      /\ live' = live \cup {used'} /\ calls' = calls + 1
      /\ UNCHANGED <<matched, screens, fault, past>>
  BY DEF rolo_add, Call
<1>1. PICK f \in Fields : /\ entry' = [entry EXCEPT ![used'] = f]
                          /\ list' = rolo_insert(list, entry', used')
  BY DEF rolo_add
<1>2. /\ list \in Lists /\ entry \in [Links -> Fields] /\ live \in SUBSET Links
      /\ live \in SUBSET (1..used) /\ used \in Nat /\ calls \in Nat
  BY LiveLinks DEF IInv, TypeInv
<1>3. used' \in Links /\ used' \notin live /\ used' \in 0..MaxLinks
      /\ live' \in SUBSET (1..used')
  <2>1. used + 1 \in Links /\ used + 1 \in 0..MaxLinks /\ 1..used \subseteq 1..used + 1
        /\ used + 1 \in 1..used + 1 /\ used + 1 \notin 1..used
    BY <1>0, <1>2, RolodexAssumption DEF Links
  <2> QED
    BY <1>0, <1>2, <2>1
<1>4. entry' \in [Links -> Fields]
  BY <1>1, <1>2
<1>5. Whole(list, live)
  BY <1>0, Sound
<1>6. /\ list' \in Lists /\ Whole(list', live')
      /\ Sorted(list, entry', live) => Sorted(list', entry', live')
  <2>1. used' \in Links \ live
    BY <1>3
  <2> QED
    BY <1>0, <1>1, <1>2, <1>4, <1>5, <2>1, InsertWhole
<1>7. TypeInv'
  BY <1>0, <1>2, <1>3, <1>4, <1>6 DEF IInv, TypeInv
<1>8. live' \in SUBSET Links /\ screens' \in Seq(Displays) /\ Len(screens') <= 1
  BY <1>0, <1>2, <1>3
<1>9. WholeInv'
  <2>1. NestOK(list', live', screens')
    BY <1>6, <1>8, NestSingle
  <2> QED
    BY <1>6, <2>1 DEF WholeInv, Whole
<1>10. OrderInv'
  <2>1. ASSUME past = {} PROVE Sorted(list, entry', live)
    <3>1. Sorted(list, entry, live)
      BY <2>1 DEF IInv, OrderInv
    <3>2. \A l \in live : entry'[l] = entry[l] /\ list.next[l] \in live \cup {0}
      BY <1>1, <1>2, <1>3, <1>5 DEF Whole, Linked
    <3> QED
      BY <3>1, <3>2 DEF Sorted
  <2> QED
    BY <1>0, <1>6, <2>1 DEF OrderInv
<1>11. StackInv' /\ ShownInv'
  BY <1>0 DEF StackInv, ShownInv, StackOK, TopOK
<1> QED
  BY <1>7, <1>9, <1>10, <1>11 DEF IInv

LEMMA DeleteKeeps ==
  ASSUME IInv, Delete
  PROVE  IInv'
<1> DEFINE x == Top.at
           new == rolo_delete(list, x)
           rest == live \ {x}
<1>0. /\ ~Broken /\ screens # <<>> /\ Top.shown /\ list' = new /\ live' = rest
      /\ screens' = GoOn(screens, new) /\ calls' = calls + 1
      /\ UNCHANGED <<entry, matched, used, fault, past>>
  BY DEF Delete, Call, Showing
<1>1. /\ list \in Lists /\ entry \in [Links -> Fields] /\ live \in SUBSET Links
      /\ live \in SUBSET (1..used) /\ matched \in SUBSET Links /\ calls \in Nat
      /\ screens \in Seq(Displays) /\ StackOK(screens)
  BY LiveLinks DEF IInv, TypeInv, StackInv
<1>2. /\ Linked(list, live) /\ NestOK(list, live, screens) /\ Whole(list, live)
  BY <1>0, Sound
<1>3. /\ x \in live /\ x \in Links /\ x # 0 /\ Top \in Displays
      /\ Top = screens[Len(screens)]
      /\ Top.kind \in {"search", "pick"} => matched \cap live \subseteq Top.hits
  BY <1>0, OnScreen, TopFacts
<1>4. new \in Lists /\ Whole(new, rest)
      /\ (Sorted(list, entry, live) => Sorted(new, entry, rest))
  BY <1>1, <1>2, <1>3, DeleteWhole
<1>5. Linked(new, rest) /\ NestOK(new, rest, screens)
  BY <1>1, <1>2, <1>3, DeleteNest
<1>6. new.next[x] \in rest \cup {0}
  <2>1. \A l \in Links : new.next[l] = IF l = list.prev[x] THEN list.next[x]
                                       ELSE list.next[l]
    <3> HIDE DEF x
    <3> QED
      BY <1>1, <1>3, DeletedFields
  <2>2. list.next[x] \in live \cup {0} /\ list.next[x] # x
    <3>1. PICK rank \in [Links -> Links] : Ranked(list, live, rank, live)
      BY <1>2 DEF Whole
    <3>2. list.next[x] \in live \cup {0}
      BY <1>2, <1>3 DEF Linked
    <3>3. rank[x] \in Nat
      BY <1>3, PointerType
    <3>4. list.next[x] # 0 => rank[x] < rank[list.next[x]]
      BY <1>3, <3>1 DEF Ranked
    <3> HIDE DEF x
    <3> QED
      BY <1>3, <3>2, <3>3, <3>4
  <2> QED
    BY <1>3, <2>1, <2>2
<1> HIDE DEF new, x, rest
<1>7. Closed(new, rest) /\ rest \in SUBSET Links /\ rest \in SUBSET (1..used)
  BY <1>1, <1>5 DEF rest, Linked, Closed
<1>8. StackOK(screens') /\ Under(screens', screens)
  <2>1. Top.at \in Links
    BY <1>3 DEF x
  <2> QED
    BY <1>0, <1>1, <1>3, <1>4, <2>1, GoOnType
<1>9. TopOK(new, matched, rest, screens')
  <2>1. /\ Top.at \in Links /\ new.next[Top.at] \in rest \cup {0}
        /\ (Top.kind = "search" => matched \cap rest \subseteq Top.hits)
    BY <1>3, <1>6 DEF x, rest
  <2> QED
    BY <1>0, <1>1, <1>3, <1>4, <1>7, <2>1, GoOnTop
<1>10. NestOK(new, rest, screens')
  <2>1. /\ screens' \in Seq(Displays) /\ Len(screens') <= Len(screens)
        /\ \A i \in 1..Len(screens') - 1 : screens'[i].at = screens[i].at
        /\ \A i \in 1..Len(screens') : screens'[i].first = screens[i].first
    BY <1>8 DEF Under
  <2> QED
    BY <1>1, <1>4, <1>5, <2>1, NestSame
<1>11. TypeInv'
  <2>1. screens' \in Seq(Displays)
    BY <1>8 DEF Under
  <2> QED
    BY <1>0, <1>1, <1>4, <1>7, <2>1 DEF IInv, TypeInv
<1>12. WholeInv' /\ ShownInv' /\ StackInv'
  BY <1>0, <1>5, <1>8, <1>9, <1>10 DEF WholeInv, ShownInv, StackInv
<1>13. OrderInv'
  BY <1>0, <1>4 DEF IInv, OrderInv
<1> QED
  BY <1>11, <1>12, <1>13 DEF IInv

LEMMA ScanKeeps ==
  ASSUME IInv, Scan
  PROVE  IInv'
<1> DEFINE first == list.next[Top.at]
           s == Screen("scan", first, first, FALSE, {})
           flags == matched \cup Chain(list, first)
           new == Append(screens, s)
<1>0. /\ ~Broken /\ screens # <<>> /\ Top.shown /\ calls' = calls + 1
      /\ Peruse(first, screens)
      /\ UNCHANGED <<list, entry, used, live, fault, past>>
  BY DEF Scan, Call, Showing
<1>1. /\ list \in Lists /\ live \in SUBSET Links /\ matched \in SUBSET Links
      /\ screens \in Seq(Displays) /\ StackOK(screens)
      /\ Linked(list, live) /\ NestOK(list, live, screens) /\ Closed(list, live)
  BY <1>0, Sound, LiveLinks DEF IInv, TypeInv, StackInv
<1>2. /\ Top.at \in live /\ first \in live \cup {0} /\ first \in Pointers
      /\ Top = screens[Len(screens)] /\ Len(screens) \in Nat \ {0}
  BY <1>0, <1>1, OnScreen, TopFacts, PointerType
<1>3. fault' \in BOOLEAN /\ calls' \in Nat
  BY <1>0 DEF IInv, TypeInv
<1>4. matched' = flags /\ screens' = new
  <2>1. list.begin # 0
    BY <1>1, <1>2 DEF Linked
  <2> QED
    BY <1>0, <2>1 DEF Peruse
<1>5. flags \in SUBSET Links
  BY <1>1, <1>2, ChainType
<1>6. s \in Displays /\ s.kind = "scan" /\ ~s.shown /\ s.at = first /\ s.first = first
  BY <1>2 DEF Screen, Displays, Kinds
<1> HIDE DEF s, first, flags
<1>7. /\ new \in Seq(Displays) /\ Len(new) = Len(screens) + 1
      /\ \A i \in 1..Len(screens) : new[i] = screens[i]
      /\ new[Len(screens) + 1] = s /\ new # <<>>
  BY <1>1, <1>6
<1> HIDE DEF new
<1>8. \A i \in 1..Len(new) : i = Len(screens) + 1 \/ i \in 1..Len(screens)
  BY <1>2, <1>7
<1>9. StackOK(new)
  <2> SUFFICES ASSUME NEW i \in 1..Len(new)
               PROVE  /\ i > 1 => new[i].kind = "scan"
                      /\ i < Len(new) => new[i].shown
                      /\ new[i].shown => new[i].at \in Links
                      /\ new[i].kind = "one" => new[i].shown
    BY DEF StackOK
  <2>1. CASE i = Len(screens) + 1
    BY <1>2, <1>6, <1>7, <2>1
  <2>2. CASE i \in 1..Len(screens)
    <3>1. i = Len(screens) \/ i < Len(screens)
      BY <1>2, <2>2
    <3>2. new[i] = screens[i]
      BY <1>7, <2>2
    <3>3. screens[i].shown
      BY <1>0, <1>1, <1>2, <2>2, <3>1 DEF StackOK
    <3> QED
      BY <1>1, <2>2, <3>2, <3>3 DEF StackOK
  <2> QED
    BY <1>8, <2>1, <2>2
<1>10. NestOK(list, live, new)
  BY <1>0, <1>1, <1>2, <1>6, ScanNest DEF new, first
<1>11. TopOK(list, flags, live, new)
  <2>1. /\ Closed(list, live) /\ s.at \in live \cup {0}
        /\ live \cap flags \subseteq live
    BY <1>1, <1>2, <1>6
  <2>2. new[Len(new)] = s
    BY <1>7
  <2> QED
    BY <1>1, <1>6, <2>1, <2>2 DEF TopOK
<1> QED
  BY <1>0, <1>3, <1>4, <1>5, <1>7, <1>9, <1>10, <1>11, KeptList

LEMMA UpdateKeeps ==
  ASSUME IInv, Update
  PROVE  IInv'
<1> DEFINE l == Top.at
           e == entry[l]
<1>0. /\ ~Broken /\ screens # <<>> /\ Top.shown /\ calls' = calls + 1
      /\ UNCHANGED <<matched, used>>
  BY DEF Update, Call, Showing
<1>1. /\ list \in Lists /\ entry \in [Links -> Fields] /\ live \in SUBSET Links
      /\ live \in SUBSET (1..used) /\ matched \in SUBSET Links /\ calls' \in Nat
      /\ screens \in Seq(Displays) /\ StackOK(screens) /\ fault \in BOOLEAN
      /\ past \in SUBSET {"nested", "zero", "unnoticed"}
  <2>1. calls \in Nat
    BY DEF IInv, TypeInv
  <2> QED
    BY <1>0, <2>1, LiveLinks DEF IInv, TypeInv, StackInv
<1>2. /\ Linked(list, live) /\ NestOK(list, live, screens) /\ Whole(list, live)
      /\ Closed(list, live) /\ TopOK(list, matched, live, screens)
  BY <1>0, Sound
<1>3. /\ l \in live /\ l \in Links /\ Top \in Displays
      /\ Top = screens[Len(screens)] /\ list.next[l] \in live \cup {0}
      /\ Top.kind \in {"search", "pick"} => matched \cap live \subseteq Top.hits
      /\ Len(screens) \in Nat
  BY <1>0, OnScreen, TopFacts
<1>4. CASE fault' = TRUE /\ UNCHANGED <<list, entry, live, screens, past>>
  BY <1>0, <1>1, <1>2, <1>4, KeptList
<1>5. CASE /\ screens' = GoOn(screens, list)
           /\ UNCHANGED <<list, entry, live, past, fault>>
  BY <1>0, <1>1, <1>5, GoOnKeeps
<1>6. ASSUME NEW nm \in 1..MaxName, NEW d \in {"plain", "others"},
             NEW name_changed \in BOOLEAN,
             entry' = [entry EXCEPT ![l] = [name |-> nm, data |-> d]],
             list' = IF name_changed THEN Refiled(l, entry') ELSE list,
             live' = IF name_changed THEN live \cup {l} ELSE live,
             past' = past
               \cup (IF nm # e.name /\ ~name_changed THEN {"unnoticed"} ELSE {})
               \cup (IF name_changed /\ Len(screens) > 1 THEN {"nested"} ELSE {}),
             screens' = GoOn(screens, list'), UNCHANGED fault
      PROVE  IInv'
  <2>1. /\ entry' \in [Links -> Fields] /\ entry'[l] = [name |-> nm, data |-> d]
        /\ \A x \in Links : x # l => entry'[x] = entry[x]
    <3>1. [name |-> nm, data |-> d] \in Fields
      BY DEF Fields
    <3> HIDE DEF l
    <3> QED
      BY <1>1, <1>3, <1>6, <3>1
  <2>2. live' = live /\ fault' \in BOOLEAN
        /\ past' \in SUBSET {"nested", "zero", "unnoticed"}
    BY <1>1, <1>3, <1>6
  <2>3. /\ list' \in Lists /\ Whole(list', live)
        /\ past' = {} => Sorted(list', entry', live)
    <3>1. CASE name_changed
      <4> DEFINE out == rolo_delete(list, l)
                 rest == live \ {l}
      <4>1. /\ out \in Lists /\ Whole(out, rest)
            /\ Sorted(list, entry, live) => Sorted(out, entry, rest)
        <5> HIDE DEF l
        <5> QED
          BY <1>1, <1>2, <1>3, DeleteWhole
      <4>2. list' = rolo_insert(out, entry', l)
        BY <1>6, <3>1 DEF Refiled
      <4> HIDE DEF out
      <4>3. rest \in SUBSET Links /\ l \in Links \ rest /\ rest \cup {l} = live
        BY <1>1, <1>3
      <4>4. /\ list' \in Lists /\ Whole(list', live)
            /\ Sorted(out, entry', rest) => Sorted(list', entry', live)
        <5> HIDE DEF l, rest
        <5> QED
          BY <2>1, <4>1, <4>2, <4>3, InsertWhole
      <4>5. ASSUME past' = {} PROVE Sorted(out, entry', rest)
        <5>1. Sorted(out, entry, rest)
          BY <1>6, <4>1, <4>5 DEF IInv, OrderInv
        <5>2. \A x \in rest : /\ x \in Links /\ x # l
                              /\ out.next[x] # 0 => out.next[x] \in rest
          <6> HIDE DEF rest, l
          <6>1. \A x \in rest : out.next[x] # 0 => out.next[x] \in rest
            BY <4>1 DEF Whole, Linked
          <6> QED
            BY <4>3, <6>1
        <5> HIDE DEF rest, l
        <5>3. \A x \in rest : entry'[x] = entry[x]
          BY <2>1, <5>2
        <5> QED
          BY <5>1, <5>2, <5>3 DEF Sorted
      <4> QED
        BY <4>4, <4>5
    <3>2. CASE ~name_changed
      <4>1. list' = list
        BY <1>6, <3>2
      <4>2. ASSUME past' = {} PROVE Sorted(list, entry', live)
        <5>1. past = {} /\ nm = entry[l].name
          BY <1>6, <3>2, <4>2
        <5>2. Sorted(list, entry, live)
          BY <5>1 DEF IInv, OrderInv
        <5>3. \A x \in Links : entry'[x].name = entry[x].name
          <6>1. entry'[l].name = nm
            BY <2>1
          <6> HIDE DEF l
          <6> QED
            BY <2>1, <5>1, <6>1
        <5>4. \A x \in live : list.next[x] # 0 => list.next[x] \in live
          BY <1>2 DEF Linked
        <5> QED
          BY <1>1, <5>2, <5>3, <5>4 DEF Sorted
      <4> QED
        BY <1>1, <1>2, <4>1, <4>2
    <3> QED
      BY <3>1, <3>2
  <2>4. StackOK(screens') /\ Under(screens', screens)
    <3>1. Top.at \in Links
      BY <1>3
    <3> QED
      BY <1>0, <1>1, <1>3, <1>6, <2>3, <3>1, GoOnType
  <2>5. TopOK(list', matched, live, screens')
    <3>1. Closed(list', live) /\ list'.next[Top.at] \in live \cup {0}
          /\ Top.at \in Links /\ (Top.kind = "search" => matched \cap live \subseteq Top.hits)
      BY <1>3, <2>3 DEF Whole, Linked, Closed
    <3> QED
      BY <1>0, <1>1, <1>3, <1>6, <2>3, <3>1, GoOnTop
  <2>6. ASSUME ~Broken' PROVE NestOK(list', live, screens')
    <3>1. /\ screens' \in Seq(Displays) /\ Len(screens') <= Len(screens)
          /\ \A i \in 1..Len(screens') - 1 : screens'[i].at = screens[i].at
          /\ \A i \in 1..Len(screens') : screens'[i].first = screens[i].first
      BY <2>4 DEF Under
    <3>2. CASE name_changed
      <4>1. ~(Len(screens) > 1)
        BY <1>6, <2>6, <3>2 DEF Broken
      <4>2. Len(screens') <= 1
        <5>1. Len(screens') \in Nat /\ Len(screens') <= Len(screens)
          BY <3>1
        <5> QED
          BY ONLY <1>3, <4>1, <5>1
      <4> QED
        BY <1>1, <2>3, <3>1, <4>2, NestSingle
    <3>3. CASE ~name_changed
      <4>1. list' = list
        BY <1>6, <3>3
      <4> QED
        BY <1>1, <1>2, <3>1, <4>1, NestSame
    <3> QED
      BY <3>2, <3>3
  <2>7. TypeInv'
    <3>1. screens' \in Seq(Displays)
      BY <2>4 DEF Under
    <3> QED
      BY <1>0, <1>1, <2>1, <2>2, <2>3, <3>1 DEF IInv, TypeInv
  <2>8. WholeInv' /\ OrderInv' /\ StackInv' /\ ShownInv'
    BY <1>0, <2>2, <2>3, <2>4, <2>5, <2>6
       DEF WholeInv, OrderInv, StackInv, ShownInv, Whole
  <2> QED
    BY <2>7, <2>8 DEF IInv
<1>7. \/ fault' = TRUE /\ UNCHANGED <<list, entry, live, screens, past>>
      \/ screens' = GoOn(screens, list) /\ UNCHANGED <<list, entry, live, past, fault>>
      \/ \E nm \in 1 .. MaxName, d \in {"plain", "others"}, name_changed \in BOOLEAN :
           /\ entry' = [entry EXCEPT ![l] = [name |-> nm, data |-> d]]
           /\ list' = IF name_changed THEN Refiled(l, entry') ELSE list
           /\ live' = IF name_changed THEN live \cup {l} ELSE live
           /\ past' = past
                \cup (IF nm # e.name /\ ~name_changed THEN {"unnoticed"} ELSE {})
                \cup (IF name_changed /\ Len(screens) > 1 THEN {"nested"} ELSE {})
           /\ screens' = GoOn(screens, list')
           /\ UNCHANGED fault
  BY DEF Update
<1> HIDE DEF l, e
<1> QED
  BY <1>4, <1>5, <1>6, <1>7

LEMMA StepInv == IInv /\ [Next]_vars => IInv'
<1> SUFFICES ASSUME IInv, [Next]_vars PROVE IInv'
  OBVIOUS
<1>1. CASE NextMatch
  BY <1>1, NextMatchKeeps
<1>2. CASE rolo_add
  BY <1>2, AddKeeps
<1>3. CASE PeruseAll
  BY <1>3, PeruseAllKeeps
<1>4. CASE Search
  BY <1>4, SearchKeeps
<1>5. CASE PickNone
  BY <1>5, PickNoneKeeps
<1>6. CASE Pick
  BY <1>6, PickKeeps
<1>7. CASE Continue
  BY <1>7, ContinueKeeps
<1>8. CASE Abort
  BY <1>8, AbortKeeps
<1>9. CASE Previous
  BY <1>9, PreviousKeeps
<1>10. CASE Delete
  BY <1>10, DeleteKeeps
<1>11. CASE Scan
  BY <1>11, ScanKeeps
<1>12. CASE Update
  BY <1>12, UpdateKeeps
<1>13. CASE UNCHANGED vars
  <2>1. UNCHANGED <<list, entry, matched, used, live, screens, fault, past, calls>>
    BY <1>13 DEF vars
  <2> QED
    BY <2>1 DEF IInv, TypeInv, WholeInv, OrderInv, StackInv, ShownInv, Broken
<1> QED
  BY <1>1, <1>2, <1>3, <1>4, <1>5, <1>6, <1>7, <1>8, <1>9, <1>10, <1>11, <1>12,
     <1>13 DEF Next, Ended

(* What the list, the pointers of links deleted from it, the flags and the  *)
(* screens say of each other holds throughout (rlist.c and the screens of   *)
(* operations.c, search.c and update.c), for any number of links, names,    *)
(* matches, calls and scans within scans.                                   *)
THEOREM Invariance == Spec => []IInv
BY InitInv, StepInv, PTL DEF Spec

-----------------------------------------------------------------------------
(* The types of the variables: whatever the user does on the screens, the   *)
(* pointers that rolo_insert, rolo_delete and rolo_reorder write are to     *)
(* links or NULL, and only links that are in use hold entries.              *)
THEOREM TypeCorrect == Spec => []TypeInv
<1>1. IInv => TypeInv
  BY DEF IInv
<1> QED
  BY <1>1, Invariance, PTL

(* The list is whole (rlist.c): what the pointers lead to from Begin_Rlist  *)
(* are the entries of the rolodex, each once, forward and back, however     *)
(* many scans there are within scans and whatever is deleted there, until   *)
(* an entry is renamed in a scan within a scan or match number 0 is picked. *)
THEOREM WholeList == Spec => []ListWhole
<1>1. IInv => ListWhole
  <2> SUFFICES ASSUME IInv, ~Broken
               PROVE  /\ Chain(list, list.begin) = live
                      /\ \A l \in live :
                           /\ IF list.next[l] = 0 THEN list.end = l
                              ELSE list.prev[list.next[l]] = l
                           /\ IF list.prev[l] = 0 THEN list.begin = l
                              ELSE list.next[list.prev[l]] = l
                      /\ (list.begin = 0) = (live = {})
    BY DEF ListWhole
  <2>1. Chain(list, list.begin) = live /\ Linked(list, live)
    BY Sound
  <2> QED
    BY <2>1 DEF Linked
<1> QED
  BY <1>1, Invariance, PTL

(* The entries are in the order of their names (rolo_insert, rolo_reorder), *)
(* as long as no new name went unnoticed by rolo_update_mode.               *)
THEOREM Ordered == Spec => []InOrder
<1>1. IInv => InOrder
  BY DEF IInv, OrderInv, InOrder, Sorted
<1> QED
  BY <1>1, Invariance, PTL

(* The entry on the screen (rolo_peruse_mode, rolo_search_mode) is in the   *)
(* rolodex and, on the screen of a search, one that was found, whatever was *)
(* deleted and flagged on the screens above; with the same two exceptions.  *)
THEOREM ShownInList == Spec => []ShownBelongs
<1>1. IInv => ShownBelongs
  <2> SUFFICES ASSUME IInv, ~Broken, NEW i \in 1..Len(screens),
                      screens[i].shown, i = Len(screens)
               PROVE  /\ screens[i].at \in live
                      /\ screens[i].kind # "scan" => screens[i].at \in screens[i].hits
    BY DEF ShownBelongs
  <2>1. screens # <<>>
    BY DEF IInv, TypeInv
  <2>2. TopOK(list, matched, live, screens)
    BY Sound
  <2> QED
    BY <2>1, <2>2 DEF TopOK
<1> QED
  BY <1>1, Invariance, PTL
==============================================================================
