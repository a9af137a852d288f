--------------------------- MODULE ExchangeProofs ---------------------------
(* For any traders, word size, requests and bounds: the exchange is         *)
(* type-correct, its semaphore excludes, match_order keeps price priority   *)
(* and loses no wake-up (CoreInv of ExchangeInv is inductive), the books    *)
(* are right, and what they tell is a market: the exchange implements       *)
(* Market.  First, what the helpers of Exchange return.                     *)
EXTENDS ExchangeInv, ExchangeMarket, SequenceTheorems, SetLemmas

(* Results of the C code's unsigned arithmetic are words again. *)
LEMMA WordType ==
  /\ UINT32_MAX \in Nat
  /\ \A x \in Int : x % Word \in 0..UINT32_MAX
BY WordAssumption DEF UINT32_MAX

(* InsertAt shifts the elements from position i on by one. *)
LEMMA InsertAtElements ==
  ASSUME NEW S, NEW s \in Seq(S), NEW i \in 1..Len(s) + 1, NEW e \in S,
         NEW new, new = InsertAt(s, i, e)
  PROVE  /\ new \in Seq(S)
         /\ Len(new) = Len(s) + 1
         /\ \A j \in 1..Len(s) + 1 :
              new[j] = IF j < i THEN s[j] ELSE IF j = i THEN e ELSE s[j - 1]
<1>0. Len(s) \in Nat /\ DOMAIN s = 1..Len(s) /\ \A j \in 1..Len(s) : s[j] \in S
  BY LenProperties
<1> DEFINE a == SubSeq(s, 1, i - 1)
           b == SubSeq(s, i, Len(s))
<1>1. /\ a \in Seq(S) /\ Len(a) = i - 1
      /\ \A j \in 1..i - 1 : a[j] = s[j]
  BY SubSeqProperties, LenProperties
<1>2. /\ b \in Seq(S) /\ Len(b) = Len(s) - i + 1
      /\ \A j \in 1..Len(s) - i + 1 : b[j] = s[i + j - 1]
  BY SubSeqProperties, LenProperties
<1>3. <<e>> \in Seq(S) /\ Len(<<e>>) = 1 /\ <<e>>[1] = e
  OBVIOUS
<1> HIDE DEF a, b
<1>4. /\ a \o <<e>> \in Seq(S) /\ Len(a \o <<e>>) = i
      /\ \A j \in 1..i : (a \o <<e>>)[j] = IF j < i THEN s[j] ELSE e
  BY <1>1, <1>3, ConcatProperties, LenProperties
<1>5. /\ (a \o <<e>>) \o b \in Seq(S)
      /\ Len((a \o <<e>>) \o b) = Len(s) + 1
      /\ \A j \in 1..Len(s) + 1 :
           ((a \o <<e>>) \o b)[j] = IF j <= i THEN (a \o <<e>>)[j] ELSE b[j - i]
  <2> DEFINE c == a \o <<e>>
  <2>1. c \in Seq(S) /\ Len(c) = i
    BY <1>4
  <2> HIDE DEF c
  <2>2. /\ c \o b \in Seq(S) /\ Len(c \o b) = Len(c) + Len(b)
        /\ \A j \in 1..Len(c) + Len(b) :
             (c \o b)[j] = IF j <= Len(c) THEN c[j] ELSE b[j - Len(c)]
    BY <1>2, <2>1, ConcatProperties
  <2>3. Len(c) + Len(b) = Len(s) + 1
    BY <1>0, <1>2, <2>1
  <2>4. /\ c \o b \in Seq(S) /\ Len(c \o b) = Len(s) + 1
        /\ \A j \in 1..Len(s) + 1 :
             (c \o b)[j] = IF j <= i THEN c[j] ELSE b[j - i]
    BY <2>1, <2>2, <2>3
  <2> QED
    BY <2>4 DEF c
<1>6. new = (a \o <<e>>) \o b
  BY DEF InsertAt, a, b
<1>7. ASSUME NEW j \in 1..Len(s) + 1
      PROVE  ((a \o <<e>>) \o b)[j] = IF j < i THEN s[j]
                                      ELSE IF j = i THEN e ELSE s[j - 1]
  <2>0. j <= i \/ j > i
    BY <1>0
  <2>1. CASE j <= i
    BY <1>0, <1>4, <1>5, <2>1
  <2>2. CASE j > i
    <3>1. j - i \in 1..Len(s) - i + 1 /\ i + (j - i) - 1 = j - 1
      BY <1>0, <2>2
    <3> QED
      BY <1>2, <1>5, <2>2, <3>1
  <2> QED
    BY <2>0, <2>1, <2>2
<1> QED
  BY <1>5, <1>6, <1>7

(* RemoveAt shifts the elements after position i back by one. *)
LEMMA RemoveAtElements ==
  ASSUME NEW S, NEW s \in Seq(S), NEW i \in 1..Len(s)
  PROVE  /\ RemoveAt(s, i) \in Seq(S)
         /\ Len(RemoveAt(s, i)) = Len(s) - 1
         /\ \A j \in 1..Len(s) - 1 :
              RemoveAt(s, i)[j] = IF j < i THEN s[j] ELSE s[j + 1]
<1>0. Len(s) \in Nat /\ DOMAIN s = 1..Len(s) /\ \A j \in 1..Len(s) : s[j] \in S
  BY LenProperties
<1> DEFINE a == SubSeq(s, 1, i - 1)
           b == SubSeq(s, i + 1, Len(s))
<1>1. /\ a \in Seq(S) /\ Len(a) = i - 1
      /\ \A j \in 1..i - 1 : a[j] = s[j]
  BY SubSeqProperties, LenProperties
<1>2. /\ b \in Seq(S) /\ Len(b) = Len(s) - i
      /\ \A j \in 1..Len(s) - i : b[j] = s[i + j]
  BY SubSeqProperties, LenProperties
<1> HIDE DEF a, b
<1>3. /\ a \o b \in Seq(S) /\ Len(a \o b) = Len(s) - 1
      /\ \A j \in 1..Len(s) - 1 :
           (a \o b)[j] = IF j < i THEN a[j] ELSE b[j - i + 1]
  <2>1. /\ a \o b \in Seq(S) /\ Len(a \o b) = Len(a) + Len(b)
        /\ \A j \in 1..Len(a) + Len(b) :
             (a \o b)[j] = IF j <= Len(a) THEN a[j] ELSE b[j - Len(a)]
    BY <1>1, <1>2, ConcatProperties
  <2> QED
    BY <1>0, <1>1, <1>2, <2>1
<1>4. RemoveAt(s, i) = a \o b
  BY DEF RemoveAt, a, b
<1>5. ASSUME NEW j \in 1..Len(s) - 1
      PROVE  (a \o b)[j] = IF j < i THEN s[j] ELSE s[j + 1]
  <2>0. j < i \/ j >= i
    BY <1>0
  <2>1. CASE j < i
    BY <1>0, <1>1, <1>3, <2>1
  <2>2. CASE j >= i
    <3>1. j - i + 1 \in 1..Len(s) - i /\ i + (j - i + 1) = j + 1
      BY <1>0, <2>2
    <3> QED
      BY <1>0, <1>2, <1>3, <2>2, <3>1
  <2> QED
    BY <2>0, <2>1, <2>2
<1> QED
  BY <1>3, <1>4, <1>5
-----------------------------------------------------------------------------
(* list_insert puts the order before the dearer ones and after the others. *)
LEMMA ListInsertPlace ==
  ASSUME NEW list \in Seq(Order), NEW node \in Order, Sorted(list)
  PROVE  \E p \in 1..Len(list) + 1 :
           /\ list_insert(list, node) = InsertAt(list, p, node)
           /\ \A i \in DOMAIN list : i < p  => list[i].price <= node.price
           /\ \A i \in DOMAIN list : i >= p => node.price < list[i].price
<1> DEFINE higher == {i \in DOMAIN list : list[i].price > node.price}
<1>0. /\ Len(list) \in Nat /\ DOMAIN list = 1..Len(list)
      /\ \A i \in DOMAIN list : list[i] \in Order
  BY LenProperties
<1>1. node.price \in Nat /\ \A i \in DOMAIN list : list[i].price \in Nat
  BY <1>0, WordType DEF Order
<1>2. CASE higher = {}
  <2>1. list_insert(list, node) = InsertAt(list, Len(list) + 1, node)
    BY <1>2 DEF list_insert
  <2>2. \A i \in DOMAIN list : i < Len(list) + 1 /\ list[i].price <= node.price
    BY <1>0, <1>1, <1>2
  <2> QED
    BY <1>0, <2>1, <2>2
<1>3. CASE higher # {}
  <2>1. list_insert(list, node) = InsertAt(list, Min(higher), node)
    BY <1>3 DEF list_insert
  <2>2. higher \in SUBSET Nat
    BY <1>0
  <2>3. Min(higher) \in higher /\ \A y \in higher : Min(higher) <= y
    BY <1>3, <2>2, MinOfPositions
  <2> DEFINE p == Min(higher)
  <2>4. /\ p \in DOMAIN list /\ list[p].price > node.price
        /\ \A y \in higher : p <= y
    BY <2>3
  <2> HIDE DEF p
  <2>5. ASSUME NEW i \in DOMAIN list, i < p
        PROVE  list[i].price <= node.price
    <3>1. i \notin higher
      BY <1>0, <2>4, <2>5
    <3> QED
      BY <1>1, <3>1
  <2>6. ASSUME NEW i \in DOMAIN list, i >= p
        PROVE  node.price < list[i].price
    <3>1. list[p].price <= list[i].price
      BY <1>0, <2>4, <2>6 DEF Sorted
    <3> QED
      BY <1>1, <2>4, <3>1
  <2>7. p \in 1..Len(list) + 1
    BY <1>0, <2>4
  <2> QED
    BY <2>1, <2>5, <2>6, <2>7 DEF p
<1> QED
  BY <1>2, <1>3

(* The result of list_insert has one order more and is sorted again; its   *)
(* ends are the new order or the old ends.                                 *)
LEMMA ListInsertSorted ==
  ASSUME NEW list \in Seq(Order), NEW node \in Order, Sorted(list)
  PROVE  LET new == list_insert(list, node)
         IN  /\ new \in Seq(Order)
             /\ Len(new) = Len(list) + 1
             /\ Sorted(new)
             /\ new[1].price = IF list = << >> \/ node.price < list[1].price
                                 THEN node.price ELSE list[1].price
             /\ new[Len(new)].price =
                  IF list = << >> \/ list[Len(list)].price <= node.price
                    THEN node.price ELSE list[Len(list)].price
<1> DEFINE new == list_insert(list, node)
<1>0. /\ Len(list) \in Nat /\ DOMAIN list = 1..Len(list)
      /\ \A i \in DOMAIN list : list[i] \in Order
  BY LenProperties
<1>1. node.price \in Nat /\ \A i \in DOMAIN list : list[i].price \in Nat
  BY <1>0, WordType DEF Order
<1>2. PICK p \in 1..Len(list) + 1 :
        /\ new = InsertAt(list, p, node)
        /\ \A i \in DOMAIN list : i < p  => list[i].price <= node.price
        /\ \A i \in DOMAIN list : i >= p => node.price < list[i].price
  BY ListInsertPlace
<1>3. /\ new \in Seq(Order) /\ Len(new) = Len(list) + 1
      /\ \A j \in 1..Len(list) + 1 :
           new[j] = IF j < p THEN list[j] ELSE IF j = p THEN node ELSE list[j - 1]
  <2>1. new = InsertAt(list, p, node)
    BY <1>2
  <2> HIDE DEF new
  <2> QED
    BY ONLY <2>1, list \in Seq(Order), p \in 1..Len(list) + 1, node \in Order,
            InsertAtElements, SMTT(40)
<1> HIDE DEF new
<1>4. DOMAIN new = 1..Len(list) + 1
  BY <1>3, LenProperties
<1>5. ASSUME NEW j \in 1..Len(list) + 1, NEW k \in 1..Len(list) + 1, j <= k
      PROVE  new[j].price <= new[k].price
  <2>1. CASE k < p
    <3>1. j \in DOMAIN list /\ k \in DOMAIN list /\ j < p
      BY <1>0, <1>5, <2>1
    <3>2. list[j].price <= list[k].price
      BY <1>5, <3>1 DEF Sorted
    <3> QED
      BY <1>3, <2>1, <3>1, <3>2
  <2>2. CASE k = p /\ j < p
    <3>1. j \in DOMAIN list
      BY <1>0, <2>2
    <3> QED
      BY <1>2, <1>3, <2>2, <3>1
  <2>3. CASE k = p /\ j = p
    BY <1>1, <1>3, <2>3
  <2>4. CASE k > p /\ j < p
    <3>1. j \in DOMAIN list /\ k - 1 \in DOMAIN list /\ k - 1 >= p
      BY <1>0, <2>4
    <3>2. list[j].price <= list[k - 1].price
      BY <1>0, <1>5, <2>4, <3>1 DEF Sorted
    <3> QED
      BY <1>3, <2>4, <3>2
  <2>5. CASE k > p /\ j = p
    <3>1. k - 1 \in DOMAIN list /\ k - 1 >= p
      BY <1>0, <2>5
    <3> QED
      BY <1>1, <1>2, <1>3, <2>5, <3>1, SMTT(40)
  <2>6. CASE k > p /\ j > p
    <3>1. j - 1 \in DOMAIN list /\ k - 1 \in DOMAIN list /\ j - 1 <= k - 1
      BY <1>0, <1>5, <2>6
    <3>2. list[j - 1].price <= list[k - 1].price
      BY <3>1 DEF Sorted
    <3> QED
      BY <1>3, <2>6, <3>2
  <2>7. \/ k < p \/ (k = p /\ j < p) \/ (k = p /\ j = p)
        \/ (k > p /\ j < p) \/ (k > p /\ j = p) \/ (k > p /\ j > p)
    BY <1>0, <1>5
  <2> QED
    BY <2>1, <2>2, <2>3, <2>4, <2>5, <2>6, <2>7
<1>6. Sorted(new)
  BY <1>4, <1>5 DEF Sorted
<1>7. new[1].price = IF list = << >> \/ node.price < list[1].price
                       THEN node.price ELSE list[1].price
  <2>1. CASE list = << >>
    BY <1>0, <1>3, <2>1
  <2>2. CASE list # << >> /\ p = 1
    <3>1. 1 \in DOMAIN list
      BY <1>0, <2>2, EmptySeq
    <3> QED
      BY <1>0, <1>2, <1>3, <2>2, <3>1
  <2>3. CASE list # << >> /\ p > 1
    <3>1. 1 \in DOMAIN list
      BY <1>0, <2>3, EmptySeq
    <3>2. list[1].price <= node.price /\ new[1] = list[1]
      BY <1>0, <1>2, <1>3, <2>3, <3>1
    <3> QED
      BY <1>1, <2>3, <3>1, <3>2
  <2> QED
    BY <1>0, <2>1, <2>2, <2>3
<1>8. new[Len(new)].price = IF list = << >> \/ list[Len(list)].price <= node.price
                              THEN node.price ELSE list[Len(list)].price
  <2>1. CASE list = << >>
    BY <1>0, <1>3, <2>1
  <2>2. CASE list # << >> /\ p = Len(list) + 1
    <3>1. Len(list) \in DOMAIN list
      BY <1>0, <2>2, EmptySeq
    <3>2. list[Len(list)].price <= node.price /\ new[Len(new)] = node
      BY <1>0, <1>2, <1>3, <2>2, <3>1
    <3> QED
      BY <2>2, <3>2
  <2>3. CASE list # << >> /\ p <= Len(list)
    <3>1. Len(list) \in DOMAIN list
      BY <1>0, <2>3, EmptySeq
    <3>2. node.price < list[Len(list)].price /\ new[Len(new)] = list[Len(list)]
      BY <1>0, <1>2, <1>3, <2>3, <3>1
    <3> QED
      BY <1>1, <2>3, <3>1, <3>2
  <2> QED
    BY <1>0, <2>1, <2>2, <2>3
<1> QED
  BY <1>3, <1>6, <1>7, <1>8 DEF new

(* list_remove leaves the other orders, in their order. *)
LEMMA ListRemoveSorted ==
  ASSUME NEW list \in Seq(Order), NEW p \in 1..Len(list), Sorted(list)
  PROVE  /\ list_remove(list, p) \in Seq(Order)
         /\ Len(list_remove(list, p)) = Len(list) - 1
         /\ Sorted(list_remove(list, p))
         /\ \A j \in DOMAIN list_remove(list, p) :
              list_remove(list, p)[j] = IF j < p THEN list[j] ELSE list[j + 1]
<1> DEFINE new == list_remove(list, p)
<1>0. Len(list) \in Nat /\ DOMAIN list = 1..Len(list)
  BY LenProperties
<1>1. /\ new \in Seq(Order) /\ Len(new) = Len(list) - 1
      /\ \A j \in 1..Len(list) - 1 :
           new[j] = IF j < p THEN list[j] ELSE list[j + 1]
  BY RemoveAtElements DEF list_remove
<1> HIDE DEF new
<1>2. DOMAIN new = 1..Len(list) - 1
  BY <1>1, LenProperties
<1>3. ASSUME NEW j \in 1..Len(list) - 1, NEW k \in 1..Len(list) - 1, j <= k
      PROVE  new[j].price <= new[k].price
  <2>1. PICK a \in {j, j + 1}, b \in {k, k + 1} :
          /\ new[j] = list[a] /\ new[k] = list[b]
          /\ a = (IF j < p THEN j ELSE j + 1) /\ b = (IF k < p THEN k ELSE k + 1)
    BY <1>1
  <2>2. a \in DOMAIN list /\ b \in DOMAIN list /\ a <= b
    BY <1>0, <1>3, <2>1
  <2> QED
    BY <2>1, <2>2 DEF Sorted
<1>4. Sorted(new)
  BY <1>2, <1>3 DEF Sorted
<1> QED
  BY <1>1, <1>2, <1>4 DEF new
-----------------------------------------------------------------------------
(* The sums of the first numbers of a sequence. *)
RunningSums(numbers, f) ==
  /\ f \in [0..Len(numbers) -> Int]
  /\ f[0] = 0
  /\ \A k \in 1..Len(numbers) : f[k] = f[k - 1] + numbers[k]

LEMMA TotalIsSum ==
  ASSUME NEW s \in Seq(Int)
  PROVE  \E f : RunningSums(s, f) /\ Total(s) = f[Len(s)]
<1> DEFINE N == Len(s)
           Body(f) == [n \in 0..N |-> IF n = 0 THEN 0 ELSE f[n - 1] + s[n]]
           good == {m \in 0..N :
                      \E f \in [0..m -> Int] :
                        f[0] = 0 /\ \A k \in 1..m : f[k] = f[k - 1] + s[k]}
<1>0. N \in Nat /\ \A k \in 1..N : s[k] \in Int
  BY LenProperties
<1> HIDE DEF N
<1>1. 0 \in good
  <2> DEFINE f == [k \in 0..0 |-> 0]
  <2>1. f \in [0..0 -> Int] /\ f[0] = 0 /\ \A k \in 1..0 : f[k] = f[k - 1] + s[k]
    OBVIOUS
  <2> HIDE DEF f
  <2>2. 0 \in 0..N
    BY <1>0
  <2> QED
    BY <2>1, <2>2
<1>2. ASSUME NEW k \in 1..N, k - 1 \in good
      PROVE  k \in good
  <2>1. PICK f \in [0..k - 1 -> Int] :
          f[0] = 0 /\ \A j \in 1..k - 1 : f[j] = f[j - 1] + s[j]
    BY <1>2
  <2> DEFINE g == [j \in 0..k |-> IF j = k THEN f[k - 1] + s[k] ELSE f[j]]
  <2>2. g \in [0..k -> Int]
    BY <1>0, <2>1
  <2>3. g[0] = 0
    BY <1>0, <2>1
  <2>4. ASSUME NEW j \in 1..k
        PROVE  g[j] = g[j - 1] + s[j]
    <3>1. j \in 0..k /\ j - 1 \in 0..k /\ j - 1 # k /\ k \in Int
      OBVIOUS
    <3>2. g[j - 1] = f[j - 1]
      BY <3>1
    <3>3. CASE j = k
      BY <3>1, <3>2, <3>3
    <3>4. CASE j # k
      <4>1. j \in 1..k - 1
        BY <3>4
      <4> QED
        BY <2>1, <3>1, <3>2, <3>4, <4>1
    <3> QED
      BY <3>3, <3>4
  <2> HIDE DEF g
  <2>5. k \in 0..N
    BY <1>0
  <2> QED
    BY <2>2, <2>3, <2>4, <2>5
<1>3. N \in good
  <2> HIDE DEF good
  <2>1. 0..N \subseteq good
    BY <1>0, <1>1, <1>2, Ascent
  <2> QED
    BY <1>0, <2>1
<1>4. PICK f \in [0..N -> Int] :
        f[0] = 0 /\ \A k \in 1..N : f[k] = f[k - 1] + s[k]
  BY <1>3
<1>5. f = Body(f)
  <2>1. \A n \in 0..N : f[n] = IF n = 0 THEN 0 ELSE f[n - 1] + s[n]
    BY <1>0, <1>4
  <2> QED
    BY <2>1
<1> DEFINE g == CHOOSE h : h = Body(h)
<1>6. g = Body(g)
  <2> HIDE DEF Body
  <2> QED
    BY <1>5
<1>7. Total(s) = g[N]
  BY DEF Total, N
<1>8. g = f
  <2> DEFINE same == {n \in 0..N : g[n] = f[n]}
  <2> HIDE DEF g
  <2>1. \A n \in 0..N : g[n] = IF n = 0 THEN 0 ELSE g[n - 1] + s[n]
    BY <1>6
  <2>2. DOMAIN g = 0..N /\ g = [n \in 0..N |-> g[n]]
    BY <1>6
  <2>3. 0 \in same
    BY <1>0, <1>4, <2>1
  <2>4. \A k \in 1..N : k - 1 \in same => k \in same
    BY <1>0, <1>4, <2>1
  <2>5. 0..N \subseteq same
    <3> HIDE DEF same
    <3> QED
      BY <1>0, <2>3, <2>4, Ascent
  <2> QED
    BY <2>2, <2>5
<1> QED
  BY <1>4, <1>7, <1>8 DEF RunningSums, N

(* Taking the number at p out of a sequence takes it off the total. *)
LEMMA TotalRemoved ==
  ASSUME NEW s \in Seq(Int), NEW r \in Seq(Int), NEW p \in 1..Len(s),
         Len(r) = Len(s) - 1,
         \A j \in 1..Len(r) : r[j] = IF j < p THEN s[j] ELSE s[j + 1]
  PROVE  Total(s) = Total(r) + s[p]
<1>0. /\ Len(s) \in Nat /\ Len(r) \in Nat
      /\ \A j \in 1..Len(s) : s[j] \in Int
  BY LenProperties
<1>1. PICK f : RunningSums(s, f) /\ Total(s) = f[Len(s)]
  BY TotalIsSum
<1>2. PICK g : RunningSums(r, g) /\ Total(r) = g[Len(r)]
  BY TotalIsSum
<1>3. /\ \A j \in 0..Len(s) : f[j] \in Int
      /\ \A j \in 0..Len(r) : g[j] \in Int
      /\ f[0] = 0 /\ \A j \in 1..Len(s) : f[j] = f[j - 1] + s[j]
      /\ g[0] = 0 /\ \A j \in 1..Len(r) : g[j] = g[j - 1] + r[j]
  BY <1>1, <1>2 DEF RunningSums
<1> DEFINE even == {k \in 0..Len(r) : g[k] = IF k < p THEN f[k]
                                             ELSE f[k + 1] - s[p]}
<1>4. 0 \in even
  BY <1>0, <1>3
<1>5. ASSUME NEW k \in 1..Len(r), k - 1 \in even
      PROVE  k \in even
  <2>0. /\ k \in 1..Len(s) /\ k + 1 \in 1..Len(s) /\ k \in 0..Len(r)
        /\ (k + 1) - 1 = k /\ (k - 1) + 1 = k
    BY <1>0
  <2>1. /\ s[k] \in Int /\ s[k + 1] \in Int /\ s[p] \in Int
        /\ f[k] \in Int /\ f[k - 1] \in Int
    <3>1. k \in 0..Len(s) /\ k - 1 \in 0..Len(s)
      BY <1>0, <2>0
    <3> QED
      BY <1>0, <1>3, <2>0, <3>1
  <2>5. g[k] = g[k - 1] + r[k] /\ f[k] = f[k - 1] + s[k]
    BY <1>3, <2>0
  <2>6. f[k + 1] = f[k] + s[k + 1]
    BY <1>3, <2>0
  <2>2. CASE k < p
    BY <1>5, <2>0, <2>1, <2>2, <2>5
  <2>3. CASE k = p
    <3>1. g[k - 1] = f[k - 1] /\ r[k] = s[k + 1] /\ s[p] = s[k]
      BY <1>5, <2>3
    <3>2. g[k] = f[k - 1] + s[k + 1]
      BY <2>5, <3>1
    <3>3. f[k - 1] = f[k] - s[p]
      BY ONLY <2>1, <2>5, <3>1
    <3>4. g[k] = f[k] - s[p] + s[k + 1]
      BY ONLY <3>2, <3>3
    <3>5. g[k] = f[k + 1] - s[p]
      <4> DEFINE a == f[k]
                 b == s[p]
                 c == s[k + 1]
                 x == g[k]
                 y == f[k + 1]
      <4>1. a \in Int /\ b \in Int /\ c \in Int
        BY <2>1
      <4>2. x = a - b + c /\ y = a + c
        BY <2>6, <3>4
      <4> HIDE DEF a, b, c, x, y
      <4>3. x = y - b
        BY ONLY <4>1, <4>2
      <4> QED
        BY <4>3 DEF a, b, c, x, y
    <3> QED
      BY <2>0, <2>3, <3>5
  <2>4. CASE k > p
    <3>1. g[k - 1] = f[k] - s[p] /\ r[k] = s[k + 1]
      BY <1>5, <2>0, <2>4
    <3>2. g[k] = f[k + 1] - s[p]
      <4> DEFINE a == f[k]
                 b == s[p]
                 c == s[k + 1]
                 x == g[k]
                 y == f[k + 1]
      <4>1. a \in Int /\ b \in Int /\ c \in Int
        BY <2>1
      <4>2. x = a - b + c /\ y = a + c
        BY <2>5, <2>6, <3>1
      <4> HIDE DEF a, b, c, x, y
      <4>3. x = y - b
        BY ONLY <4>1, <4>2
      <4> QED
        BY <4>3 DEF a, b, c, x, y
    <3> QED
      BY <2>0, <2>4, <3>2
  <2> QED
    BY <2>0, <2>2, <2>3, <2>4
<1>6. Len(r) \in even
  <2> HIDE DEF even
  <2>1. 0..Len(r) \subseteq even
    BY <1>0, <1>4, <1>5, Ascent
  <2>2. Len(r) \in 0..Len(r)
    BY ONLY <1>0
  <2> QED
    BY <2>1, <2>2
<1>7. /\ Len(r) + 1 = Len(s) /\ Len(s) \in 1..Len(s) /\ Len(s) - 1 = Len(r)
      /\ IF Len(r) < p THEN p = Len(s) ELSE TRUE
  BY <1>0
<1>8. /\ f[Len(s)] = f[Len(r)] + s[Len(s)]
      /\ f[Len(s)] \in Int /\ f[Len(r)] \in Int /\ s[p] \in Int
  <2>1. /\ Len(s) \in 1..Len(s) /\ Len(s) \in 0..Len(s) /\ Len(r) \in 0..Len(s)
        /\ Len(s) - 1 = Len(r) /\ p \in 1..Len(s)
    BY ONLY <1>0, <1>7, p \in 1..Len(s)
  <2> QED
    BY ONLY <1>0, <1>3, <2>1
<1>9. Total(r) = f[Len(s)] - s[p]
  <2>1. CASE Len(r) < p
    <3>1. p = Len(s) /\ g[Len(r)] = f[Len(r)]
      BY <1>6, <1>7, <2>1
    <3>2. f[Len(s)] = f[Len(r)] + s[p]
      BY <1>8, <3>1
    <3> QED
      BY <1>2, <1>8, <3>1, <3>2
  <2>2. CASE ~ (Len(r) < p)
    BY <1>2, <1>6, <1>7, <2>2
  <2> QED
    BY <2>1, <2>2
<1> QED
  BY <1>1, <1>8, <1>9

(* Changing one number of a sequence changes the total by the difference. *)
LEMMA TotalChanged ==
  ASSUME NEW s \in Seq(Int), NEW r \in Seq(Int), NEW p \in 1..Len(s),
         Len(r) = Len(s), \A j \in 1..Len(s) : j # p => r[j] = s[j]
  PROVE  Total(r) = Total(s) - s[p] + r[p]
<1>0. /\ Len(s) \in Nat
      /\ \A j \in 1..Len(s) : s[j] \in Int /\ r[j] \in Int
  BY LenProperties
<1>1. PICK f : RunningSums(s, f) /\ Total(s) = f[Len(s)]
  BY TotalIsSum
<1>2. PICK g : RunningSums(r, g) /\ Total(r) = g[Len(r)]
  BY TotalIsSum
<1>3. /\ \A j \in 0..Len(s) : f[j] \in Int /\ g[j] \in Int
      /\ f[0] = 0 /\ \A j \in 1..Len(s) : f[j] = f[j - 1] + s[j]
      /\ g[0] = 0 /\ \A j \in 1..Len(s) : g[j] = g[j - 1] + r[j]
  BY <1>1, <1>2 DEF RunningSums
<1> DEFINE even == {k \in 0..Len(s) : g[k] = IF k < p THEN f[k]
                                             ELSE f[k] - s[p] + r[p]}
<1>4. 0 \in even
  BY <1>0, <1>3
<1>5. ASSUME NEW k \in 1..Len(s), k - 1 \in even
      PROVE  k \in even
  <2>0. k - 1 \in 0..Len(s) /\ k \in 0..Len(s)
    BY <1>0
  <2>1. /\ g[k] = g[k - 1] + r[k] /\ f[k] = f[k - 1] + s[k]
        /\ g[k] \in Int /\ f[k] \in Int /\ f[k - 1] \in Int
        /\ s[k] \in Int /\ r[k] \in Int /\ s[p] \in Int /\ r[p] \in Int
    BY <1>0, <1>3, <2>0
  <2>2. CASE k < p
    BY <1>5, <2>0, <2>1, <2>2
  <2>3. CASE k = p
    <3>1. g[k - 1] = f[k - 1] /\ s[p] = s[k] /\ r[p] = r[k]
      BY <1>5, <2>3
    <3>2. g[k] = f[k] - s[p] + r[p]
      <4> DEFINE a == f[k - 1]
                 b == s[k]
                 c == r[k]
                 x == g[k]
                 y == f[k]
      <4>1. a \in Int /\ b \in Int /\ c \in Int
        BY <2>1
      <4>2. x = a + c /\ y = a + b
        BY <2>1, <3>1
      <4> HIDE DEF a, b, c, x, y
      <4>3. x = y - b + c
        BY ONLY <4>1, <4>2
      <4> QED
        BY <3>1, <4>3 DEF a, b, c, x, y
    <3> QED
      BY <2>0, <2>3, <3>2
  <2>4. CASE k > p
    <3>1. g[k - 1] = f[k - 1] - s[p] + r[p] /\ s[k] = r[k]
      BY <1>5, <2>0, <2>4
    <3>2. g[k] = f[k] - s[p] + r[p]
      <4> DEFINE a == f[k - 1]
                 b == s[p]
                 c == r[p]
                 d == s[k]
                 x == g[k]
                 y == f[k]
      <4>1. a \in Int /\ b \in Int /\ c \in Int /\ d \in Int
        BY <2>1
      <4>2. x = (a - b + c) + d /\ y = a + d
        BY <2>1, <3>1
      <4> HIDE DEF a, b, c, d, x, y
      <4>3. x = y - b + c
        BY ONLY <4>1, <4>2
      <4> QED
        BY <4>3 DEF a, b, c, d, x, y
    <3> QED
      BY <2>0, <2>4, <3>2
  <2> QED
    BY <2>0, <2>2, <2>3, <2>4
<1>6. Len(s) \in even
  <2> HIDE DEF even
  <2>1. 0..Len(s) \subseteq even
    BY <1>0, <1>4, <1>5, Ascent
  <2> QED
    BY <1>0, <2>1
<1> QED
  BY <1>0, <1>1, <1>2, <1>3, <1>6

(* The total of a sequence of zeros and ones counts the ones. *)
LEMMA TotalCounts ==
  ASSUME NEW s \in Seq(Int), NEW S \in SUBSET (1..Len(s)),
         \A j \in 1..Len(s) : s[j] = IF j \in S THEN 1 ELSE 0
  PROVE  IsFiniteSet(S) /\ Cardinality(S) = Total(s)
<1>0. Len(s) \in Nat
  BY LenProperties
<1>1. PICK f : RunningSums(s, f) /\ Total(s) = f[Len(s)]
  BY TotalIsSum
<1>2. /\ \A j \in 0..Len(s) : f[j] \in Int
      /\ f[0] = 0 /\ \A j \in 1..Len(s) : f[j] = f[j - 1] + s[j]
  BY <1>1 DEF RunningSums
<1> DEFINE first(k) == S \cap 1..k
           counted == {k \in 0..Len(s) : /\ IsFiniteSet(first(k))
                                         /\ Cardinality(first(k)) = f[k]}
<1>3. 0 \in counted
  <2>1. first(0) = {}
    OBVIOUS
  <2> QED
    BY <1>0, <1>2, <2>1, FS_EmptySet
<1>4. ASSUME NEW k \in 1..Len(s), k - 1 \in counted
      PROVE  k \in counted
  <2>1. first(k) = IF k \in S THEN first(k - 1) \cup {k} ELSE first(k - 1)
    BY <1>0
  <2>2. k \notin first(k - 1)
    OBVIOUS
  <2>3. f[k] = f[k - 1] + s[k] /\ f[k - 1] \in Int /\ k \in 0..Len(s)
    BY <1>0, <1>2
  <2>4. IsFiniteSet(first(k - 1)) /\ Cardinality(first(k - 1)) = f[k - 1]
    BY <1>4
  <2> HIDE DEF first
  <2>5. CASE k \in S
    <3> DEFINE F == first(k - 1)
    <3>1. first(k) = F \cup {k} /\ k \notin F /\ IsFiniteSet(F)
      BY <2>1, <2>2, <2>4, <2>5
    <3> HIDE DEF F
    <3>2. /\ IsFiniteSet(F \cup {k})
          /\ Cardinality(F \cup {k}) = Cardinality(F) + 1
      BY <3>1, FS_AddElement
    <3>3. /\ IsFiniteSet(first(k))
          /\ Cardinality(first(k)) = Cardinality(first(k - 1)) + 1
      BY <3>1, <3>2 DEF F
    <3> QED
      BY <2>3, <2>4, <2>5, <3>3
  <2>6. CASE k \notin S
    BY <2>1, <2>3, <2>4, <2>6
  <2> QED
    BY <2>5, <2>6
<1>5. Len(s) \in counted
  <2> HIDE DEF counted
  <2>1. 0..Len(s) \subseteq counted
    BY <1>0, <1>3, <1>4, Ascent
  <2> QED
    BY <1>0, <2>1
<1>6. first(Len(s)) = S
  BY <1>0
<1> QED
  BY <1>1, <1>5, <1>6
-----------------------------------------------------------------------------
(* What an order sets aside is a number, and so is what a list does. *)
LEMMA CostsTyped ==
  ASSUME NEW list \in Seq(Order), NEW t \in Traders
  PROVE  /\ \A order \in Order : /\ Cost(order, t) \in Int
                                 /\ Units(order, t) \in Int
         /\ Costs(list, t) \in Seq(Int) /\ Len(Costs(list, t)) = Len(list)
         /\ AllUnits(list, t) \in Seq(Int)
         /\ Len(AllUnits(list, t)) = Len(list)
         /\ \A i \in 1..Len(list) : /\ Costs(list, t)[i] = Cost(list[i], t)
                                    /\ AllUnits(list, t)[i] = Units(list[i], t)
<1>1. ASSUME NEW order \in Order
      PROVE  Cost(order, t) \in Int /\ Units(order, t) \in Int
  <2>1. order.quant \in Int /\ order.price \in Int
    BY WordType DEF Order
  <2>2. order.quant * order.price \in Int
    BY <2>1
  <2> QED
    BY <2>1, <2>2 DEF Cost, Units
<1>2. /\ DOMAIN list = 1..Len(list) /\ Len(list) \in Nat
      /\ \A i \in 1..Len(list) : list[i] \in Order
  BY LenProperties
<1>3. ASSUME NEW s, s \in [1..Len(list) -> Int]
      PROVE  s \in Seq(Int) /\ Len(s) = Len(list)
  BY <1>2, <1>3, IsASeq, LenProperties
<1>4. Costs(list, t) \in [1..Len(list) -> Int]
  BY <1>1, <1>2 DEF Costs
<1>5. AllUnits(list, t) \in [1..Len(list) -> Int]
  BY <1>1, <1>2 DEF AllUnits
<1>6. \A i \in 1..Len(list) : /\ Costs(list, t)[i] = Cost(list[i], t)
                              /\ AllUnits(list, t)[i] = Units(list[i], t)
  BY <1>2 DEF Costs, AllUnits
<1> QED
  BY <1>1, <1>3, <1>4, <1>5, <1>6

LEMMA TotalsTyped ==
  ASSUME NEW list \in Seq(Order), NEW t \in Traders
  PROVE  Total(Costs(list, t)) \in Int /\ Total(AllUnits(list, t)) \in Int
<1>1. \A s \in Seq(Int) : Total(s) \in Int
  <2> SUFFICES ASSUME NEW s \in Seq(Int) PROVE Total(s) \in Int
    OBVIOUS
  <2>1. Len(s) \in 0..Len(s)
    BY LenProperties
  <2>2. PICK f : RunningSums(s, f) /\ Total(s) = f[Len(s)]
    BY TotalIsSum
  <2> QED
    BY <2>1, <2>2 DEF RunningSums
<1> QED
  BY <1>1, CostsTyped

(* The number of a trader's orders in a list, as a total. *)
LEMMA OwnedTotal ==
  ASSUME NEW list \in Seq(Order), NEW t \in Traders
  PROVE  LET ones == [i \in 1..Len(list) |->
                        IF list[i].trader = t THEN 1 ELSE 0]
         IN  /\ ones \in Seq(Int) /\ Len(ones) = Len(list)
             /\ Cardinality(Owned(list, t)) = Total(ones)
             /\ Cardinality(Owned(list, t)) \in Nat
<1> DEFINE ones == [i \in 1..Len(list) |-> IF list[i].trader = t THEN 1 ELSE 0]
<1>1. DOMAIN list = 1..Len(list) /\ Len(list) \in Nat
  BY LenProperties
<1>2. ones \in [1..Len(list) -> Int]
  OBVIOUS
<1>3. ones \in Seq(Int) /\ Len(ones) = Len(list)
  BY <1>1, <1>2, IsASeq, LenProperties
<1>4. /\ Owned(list, t) \in SUBSET (1..Len(ones))
      /\ \A j \in 1..Len(ones) :
           ones[j] = IF j \in Owned(list, t) THEN 1 ELSE 0
  BY <1>1, <1>3 DEF Owned
<1> HIDE DEF ones
<1>5. /\ IsFiniteSet(Owned(list, t))
      /\ Cardinality(Owned(list, t)) = Total(ones)
  BY <1>3, <1>4, TotalCounts
<1>6. Cardinality(Owned(list, t)) \in Nat
  BY <1>5, FS_CardinalityType
<1> QED
  BY <1>3, <1>5, <1>6 DEF ones

(* One order more in a list: what it adds to the totals. *)
LEMMA TotalsOneMore ==
  ASSUME NEW list \in Seq(Order), NEW p \in 1..Len(list),
         NEW rest \in Seq(Order), Len(rest) = Len(list) - 1,
         \A j \in 1..Len(rest) :
           rest[j] = IF j < p THEN list[j] ELSE list[j + 1],
         NEW t \in Traders
  PROVE  /\ Total(Costs(list, t)) = Total(Costs(rest, t)) + Cost(list[p], t)
         /\ Total(AllUnits(list, t)) =
              Total(AllUnits(rest, t)) + Units(list[p], t)
         /\ Cardinality(Owned(list, t)) =
              Cardinality(Owned(rest, t)) + IF list[p].trader = t THEN 1 ELSE 0
<1>0. /\ Len(list) \in Nat /\ Len(rest) \in Nat
      /\ \A j \in 1..Len(rest) : j \in 1..Len(list) /\ j + 1 \in 1..Len(list)
  BY LenProperties
<1>1. Total(Costs(list, t)) = Total(Costs(rest, t)) + Cost(list[p], t)
  <2> DEFINE s == Costs(list, t)
             r == Costs(rest, t)
  <2>1. /\ s \in Seq(Int) /\ Len(s) = Len(list)
        /\ \A j \in 1..Len(list) : s[j] = Cost(list[j], t)
    BY CostsTyped
  <2>2. /\ r \in Seq(Int) /\ Len(r) = Len(rest)
        /\ \A j \in 1..Len(rest) : r[j] = Cost(rest[j], t)
    BY CostsTyped
  <2> HIDE DEF s, r
  <2>3. \A j \in 1..Len(r) : r[j] = IF j < p THEN s[j] ELSE s[j + 1]
    BY <1>0, <2>1, <2>2
  <2>4. Total(s) = Total(r) + s[p]
    BY <2>1, <2>2, <2>3, TotalRemoved
  <2> QED
    BY <2>1, <2>4 DEF s, r
<1>2. Total(AllUnits(list, t)) = Total(AllUnits(rest, t)) + Units(list[p], t)
  <2> DEFINE s == AllUnits(list, t)
             r == AllUnits(rest, t)
  <2>1. /\ s \in Seq(Int) /\ Len(s) = Len(list)
        /\ \A j \in 1..Len(list) : s[j] = Units(list[j], t)
    BY CostsTyped
  <2>2. /\ r \in Seq(Int) /\ Len(r) = Len(rest)
        /\ \A j \in 1..Len(rest) : r[j] = Units(rest[j], t)
    BY CostsTyped
  <2> HIDE DEF s, r
  <2>3. \A j \in 1..Len(r) : r[j] = IF j < p THEN s[j] ELSE s[j + 1]
    BY <1>0, <2>1, <2>2
  <2>4. Total(s) = Total(r) + s[p]
    BY <2>1, <2>2, <2>3, TotalRemoved
  <2> QED
    BY <2>1, <2>4 DEF s, r
<1>3. Cardinality(Owned(list, t)) =
        Cardinality(Owned(rest, t)) + IF list[p].trader = t THEN 1 ELSE 0
  <2> DEFINE s == [i \in 1..Len(list) |-> IF list[i].trader = t THEN 1 ELSE 0]
             r == [i \in 1..Len(rest) |-> IF rest[i].trader = t THEN 1 ELSE 0]
  <2>1. /\ s \in Seq(Int) /\ Len(s) = Len(list)
        /\ Cardinality(Owned(list, t)) = Total(s)
    BY OwnedTotal
  <2>2. /\ r \in Seq(Int) /\ Len(r) = Len(rest)
        /\ Cardinality(Owned(rest, t)) = Total(r)
    BY OwnedTotal
  <2>3. /\ \A j \in 1..Len(list) : s[j] = IF list[j].trader = t THEN 1 ELSE 0
        /\ \A j \in 1..Len(rest) : r[j] = IF rest[j].trader = t THEN 1 ELSE 0
    OBVIOUS
  <2> HIDE DEF s, r
  <2>4. \A j \in 1..Len(r) : r[j] = IF j < p THEN s[j] ELSE s[j + 1]
    BY <1>0, <2>2, <2>3
  <2>5. Total(s) = Total(r) + s[p]
    BY <2>1, <2>2, <2>4, TotalRemoved
  <2> QED
    BY <2>1, <2>2, <2>3, <2>5
<1> QED
  BY <1>1, <1>2, <1>3

(* One order more in a list: the orders and the ids. *)
LEMMA OrdersOneMore ==
  ASSUME NEW list \in Seq(Order), NEW p \in 1..Len(list),
         NEW rest \in Seq(Order), Len(rest) = Len(list) - 1,
         \A j \in 1..Len(rest) :
           rest[j] = IF j < p THEN list[j] ELSE list[j + 1]
  PROVE  /\ Range(list) = Range(rest) \cup {list[p]}
         /\ IdsOf(list) = IdsOf(rest) \cup {list[p].id}
         /\ Distinct(list) <=> Distinct(rest) /\ list[p].id \notin IdsOf(rest)
<1>0. /\ Len(list) \in Nat /\ Len(rest) \in Nat /\ DOMAIN list = 1..Len(list)
      /\ DOMAIN rest = 1..Len(rest)
  BY LenProperties
<1>1. \A j \in 1..Len(rest) : \E i \in 1..Len(list) :
        i # p /\ rest[j] = list[i] /\ i = IF j < p THEN j ELSE j + 1
  BY <1>0
<1>2. \A i \in 1..Len(list) : i # p => \E j \in 1..Len(rest) :
        rest[j] = list[i] /\ j = IF i < p THEN i ELSE i - 1
  <2> SUFFICES ASSUME NEW i \in 1..Len(list), i # p
               PROVE  \E j \in 1..Len(rest) :
                        rest[j] = list[i] /\ j = IF i < p THEN i ELSE i - 1
    OBVIOUS
  <2> DEFINE j == IF i < p THEN i ELSE i - 1
  <2>1. j \in 1..Len(rest) /\ (i < p => j < p) /\ (~(i < p) => ~(j < p) /\ j + 1 = i)
    BY <1>0
  <2>2. rest[j] = list[i]
    BY <2>1
  <2> QED
    BY <2>1, <2>2
<1>3. /\ \A i \in DOMAIN list : i # p => \E j \in DOMAIN rest : rest[j] = list[i]
      /\ \A j \in DOMAIN rest : \E i \in DOMAIN list : rest[j] = list[i]
      /\ p \in DOMAIN list
  BY ONLY <1>0, <1>1, <1>2, p \in 1..Len(list)
<1>4. Range(list) = Range(rest) \cup {list[p]}
  <2>1. ASSUME NEW x \in Range(list) PROVE x \in Range(rest) \cup {list[p]}
    <3>1. PICK i \in DOMAIN list : x = list[i]
      BY DEF Range
    <3> QED
      BY ONLY <1>3, <3>1, i \in DOMAIN list DEF Range
  <2>2. ASSUME NEW x \in Range(rest) PROVE x \in Range(list)
    <3>1. PICK j \in DOMAIN rest : x = rest[j]
      BY DEF Range
    <3> QED
      BY ONLY <1>3, <3>1, j \in DOMAIN rest DEF Range
  <2>3. list[p] \in Range(list)
    BY ONLY <1>3 DEF Range
  <2> QED
    BY ONLY <2>1, <2>2, <2>3
<1>7. IdsOf(list) = IdsOf(rest) \cup {list[p].id}
  <2>1. ASSUME NEW x \in IdsOf(list) PROVE x \in IdsOf(rest) \cup {list[p].id}
    <3>1. PICK i \in DOMAIN list : x = list[i].id
      BY DEF IdsOf
    <3> QED
      BY ONLY <1>3, <3>1, i \in DOMAIN list DEF IdsOf
  <2>2. ASSUME NEW x \in IdsOf(rest) PROVE x \in IdsOf(list)
    <3>1. PICK j \in DOMAIN rest : x = rest[j].id
      BY DEF IdsOf
    <3> QED
      BY ONLY <1>3, <3>1, j \in DOMAIN rest DEF IdsOf
  <2>3. list[p].id \in IdsOf(list)
    BY ONLY <1>3 DEF IdsOf
  <2> QED
    BY ONLY <2>1, <2>2, <2>3
<1>5. ASSUME Distinct(list)
      PROVE  Distinct(rest) /\ list[p].id \notin IdsOf(rest)
  <2>1. ASSUME NEW a \in 1..Len(rest), NEW b \in 1..Len(rest),
               rest[a].id = rest[b].id
        PROVE  a = b
    <3>1. PICK i \in 1..Len(list) :
            rest[a] = list[i] /\ i = IF a < p THEN a ELSE a + 1
      BY <1>1
    <3>2. PICK k \in 1..Len(list) :
            rest[b] = list[k] /\ k = IF b < p THEN b ELSE b + 1
      BY <1>1
    <3>3. i = k
      BY <1>0, <1>5, <2>1, <3>1, <3>2 DEF Distinct
    <3> QED
      BY <1>0, <3>1, <3>2, <3>3
  <2>2. \A j \in 1..Len(rest) : rest[j].id # list[p].id
    BY <1>0, <1>1, <1>5 DEF Distinct
  <2> QED
    BY <1>0, <2>1, <2>2 DEF Distinct, IdsOf
<1>6. ASSUME Distinct(rest), list[p].id \notin IdsOf(rest)
      PROVE  Distinct(list)
  <2> SUFFICES ASSUME NEW a \in 1..Len(list), NEW b \in 1..Len(list),
                      list[a].id = list[b].id
               PROVE  a = b
    BY <1>0 DEF Distinct
  <2>1. CASE a = p \/ b = p
    <3>1. \A i \in 1..Len(list) : i # p => list[i].id # list[p].id
      BY <1>0, <1>2, <1>6 DEF IdsOf
    <3> QED
      BY <2>1, <3>1
  <2>2. CASE a # p /\ b # p
    <3>1. PICK i \in 1..Len(rest) :
            rest[i] = list[a] /\ i = IF a < p THEN a ELSE a - 1
      BY <1>2, <2>2
    <3>2. PICK k \in 1..Len(rest) :
            rest[k] = list[b] /\ k = IF b < p THEN b ELSE b - 1
      BY <1>2, <2>2
    <3>3. i = k
      BY <1>0, <1>6, <3>1, <3>2 DEF Distinct
    <3> QED
      BY <1>0, <2>2, <3>1, <3>2, <3>3
  <2> QED
    BY <2>1, <2>2
<1> QED
  BY <1>4, <1>5, <1>6, <1>7

(* Another quantity for one order of a list: what it does to the totals.   *)
LEMMA TotalsChanged ==
  ASSUME NEW list \in Seq(Order), NEW p \in 1..Len(list),
         NEW new \in Seq(Order), Len(new) = Len(list),
         \A j \in 1..Len(list) : j # p => new[j] = list[j],
         new[p].trader = list[p].trader, NEW t \in Traders
  PROVE  /\ Total(Costs(new, t)) =
              Total(Costs(list, t)) - Cost(list[p], t) + Cost(new[p], t)
         /\ Total(AllUnits(new, t)) =
              Total(AllUnits(list, t)) - Units(list[p], t) + Units(new[p], t)
         /\ Owned(new, t) = Owned(list, t)
<1>0. /\ Len(list) \in Nat /\ DOMAIN list = 1..Len(list)
      /\ DOMAIN new = 1..Len(list)
  BY LenProperties
<1>1. Total(Costs(new, t)) =
        Total(Costs(list, t)) - Cost(list[p], t) + Cost(new[p], t)
  <2> DEFINE s == Costs(list, t)
             r == Costs(new, t)
  <2>1. /\ s \in Seq(Int) /\ Len(s) = Len(list)
        /\ \A j \in 1..Len(list) : s[j] = Cost(list[j], t)
    BY CostsTyped
  <2>2. /\ r \in Seq(Int) /\ Len(r) = Len(list)
        /\ \A j \in 1..Len(list) : r[j] = Cost(new[j], t)
    BY CostsTyped
  <2> HIDE DEF s, r
  <2>3. \A j \in 1..Len(s) : j # p => r[j] = s[j]
    BY <2>1, <2>2
  <2>4. Total(r) = Total(s) - s[p] + r[p]
    BY <2>1, <2>2, <2>3, TotalChanged
  <2> QED
    BY <2>1, <2>2, <2>4 DEF s, r
<1>2. Total(AllUnits(new, t)) =
        Total(AllUnits(list, t)) - Units(list[p], t) + Units(new[p], t)
  <2> DEFINE s == AllUnits(list, t)
             r == AllUnits(new, t)
  <2>1. /\ s \in Seq(Int) /\ Len(s) = Len(list)
        /\ \A j \in 1..Len(list) : s[j] = Units(list[j], t)
    BY CostsTyped
  <2>2. /\ r \in Seq(Int) /\ Len(r) = Len(list)
        /\ \A j \in 1..Len(list) : r[j] = Units(new[j], t)
    BY CostsTyped
  <2> HIDE DEF s, r
  <2>3. \A j \in 1..Len(s) : j # p => r[j] = s[j]
    BY <2>1, <2>2
  <2>4. Total(r) = Total(s) - s[p] + r[p]
    BY <2>1, <2>2, <2>3, TotalChanged
  <2> QED
    BY <2>1, <2>2, <2>4 DEF s, r
<1>3. Owned(new, t) = Owned(list, t)
  <2>1. \A j \in 1..Len(list) : new[j].trader = list[j].trader
    OBVIOUS
  <2> QED
    BY <1>0, <2>1 DEF Owned
<1> QED
  BY <1>1, <1>2, <1>3

(* Another quantity for one order of a list: the orders and the ids.       *)
LEMMA OrdersChanged ==
  ASSUME NEW list \in Seq(Order), NEW p \in 1..Len(list),
         NEW new \in Seq(Order), Len(new) = Len(list),
         \A j \in 1..Len(list) : j # p => new[j] = list[j],
         new[p].id = list[p].id, Distinct(list)
  PROVE  /\ Range(new) = (Range(list) \ {list[p]}) \cup {new[p]}
         /\ IdsOf(new) = IdsOf(list)
         /\ Distinct(new)
<1>0. /\ Len(list) \in Nat /\ DOMAIN list = 1..Len(list)
      /\ DOMAIN new = 1..Len(list)
  BY LenProperties
<1>1. \A j \in 1..Len(list) : new[j].id = list[j].id
  OBVIOUS
<1>2. IdsOf(new) = IdsOf(list) /\ Distinct(new)
  BY <1>0, <1>1 DEF IdsOf, Distinct
<1>3. \A j \in 1..Len(list) : j # p => list[j] # list[p]
  BY <1>0 DEF Distinct
<1>4. Range(new) = (Range(list) \ {list[p]}) \cup {new[p]}
  <2>1. \A x \in Range(new) : x \in (Range(list) \ {list[p]}) \cup {new[p]}
    BY <1>0, <1>3 DEF Range
  <2>2. \A x \in Range(list) \ {list[p]} : x \in Range(new)
    BY <1>0 DEF Range
  <2>3. new[p] \in Range(new)
    BY <1>0 DEF Range
  <2> QED
    BY <2>1, <2>2, <2>3
<1> QED
  BY <1>2, <1>4
-----------------------------------------------------------------------------
(* The C code's unsigned arithmetic stays within a word. *)
LEMMA WordArithmetic ==
  \A x, y \in Int : /\ Plus(x, y) \in 0..UINT32_MAX
                    /\ Minus(x, y) \in 0..UINT32_MAX
                    /\ Times(x, y) \in 0..UINT32_MAX
<1> SUFFICES ASSUME NEW x \in Int, NEW y \in Int
             PROVE  /\ Plus(x, y) \in 0..UINT32_MAX
                    /\ Minus(x, y) \in 0..UINT32_MAX
                    /\ Times(x, y) \in 0..UINT32_MAX
  OBVIOUS
<1>1. x + y \in Int /\ x - y \in Int /\ x * y \in Int
  OBVIOUS
<1> QED
  BY <1>1, WordType DEF Plus, Minus, Times

(* A parameter of a request is a word. *)
LEMMA RequestWords ==
  Quantities \subseteq 0..UINT32_MAX /\ Prices \subseteq 0..UINT32_MAX
    /\ Amounts \subseteq 0..UINT32_MAX
BY RequestAssumption

(* What the type invariant says about the orders match_order points at. *)
LEMMA PointersTyped ==
  ASSUME TypeOK, match.sell \in DOMAIN sell_orders, match.buy \in DOMAIN buy_orders
  PROVE  /\ Seller \in Order /\ Buyer \in Order
         /\ TradeQuantity(Seller, Buyer) \in 0..Seller.quant
         /\ TradeQuantity(Seller, Buyer) \in 0..Buyer.quant
         /\ TradeQuantity(Seller, Buyer) \in 0..UINT32_MAX
         /\ TradePrice(Seller, Buyer, last_price) \in 0..UINT32_MAX
         /\ TradeQuantity(Seller, Buyer) # Seller.quant
              => TradeQuantity(Seller, Buyer) = Buyer.quant
<1>1. /\ sell_orders \in Seq(Order) /\ buy_orders \in Seq(Order)
      /\ last_price \in 0..UINT32_MAX
  BY DEF TypeOK, BookOK
<1>2. /\ DOMAIN sell_orders = 1..Len(sell_orders)
      /\ DOMAIN buy_orders = 1..Len(buy_orders)
  BY <1>1, LenProperties
<1>3. Seller \in Order /\ Buyer \in Order
  BY <1>1, <1>2 DEF Seller, Buyer
<1>4. /\ Seller.quant \in 0..UINT32_MAX /\ Buyer.quant \in 0..UINT32_MAX
      /\ Seller.price \in 0..UINT32_MAX /\ Buyer.price \in 0..UINT32_MAX
  BY <1>3 DEF Order
<1> HIDE DEF Seller, Buyer
<1>5. /\ TradeQuantity(Seller, Buyer) \in 0..Seller.quant
      /\ TradeQuantity(Seller, Buyer) \in 0..Buyer.quant
      /\ TradeQuantity(Seller, Buyer) \in 0..UINT32_MAX
      /\ TradeQuantity(Seller, Buyer) # Seller.quant
           => TradeQuantity(Seller, Buyer) = Buyer.quant
  BY <1>4, WordType DEF TradeQuantity
<1>6. TradePrice(Seller, Buyer, last_price) \in 0..UINT32_MAX
  BY <1>1, <1>4, WordType DEF TradePrice
<1> QED
  BY <1>3, <1>5, <1>6

(* Bids and asks are words. *)
LEMMA QuotesTyped ==
  \A list \in Seq(Order) : /\ BidOf(list) \in 0..UINT32_MAX
                           /\ AskOf(list) \in 0..UINT32_MAX
<1> SUFFICES ASSUME NEW list \in Seq(Order)
             PROVE  BidOf(list) \in 0..UINT32_MAX /\ AskOf(list) \in 0..UINT32_MAX
  OBVIOUS
<1>1. CASE list = << >>
  BY <1>1, WordType DEF BidOf, AskOf
<1>2. CASE list # << >>
  <2>1. list[1] \in Order /\ list[Len(list)] \in Order
    BY <1>2, LenProperties, EmptySeq
  <2> QED
    BY <1>2, <2>1 DEF BidOf, AskOf, Order
<1> QED
  BY <1>1, <1>2

(* Taking a traded quantity off an order changes nothing else. *)
LEMMA ShrinkOrder ==
  ASSUME NEW list \in Seq(Order), NEW i \in DOMAIN list,
         NEW quantity \in 0..list[i].quant
  PROVE  LET new == [list EXCEPT ![i].quant = @ - quantity]
         IN  /\ new \in Seq(Order)
             /\ Len(new) = Len(list) /\ DOMAIN new = DOMAIN list
             /\ \A j \in DOMAIN list : new[j].price = list[j].price
             /\ new[i].quant = list[i].quant - quantity
<1> DEFINE new == [list EXCEPT ![i].quant = @ - quantity]
<1>0. DOMAIN list = 1..Len(list) /\ i \in 1..Len(list)
  BY LenProperties
<1>1. \A j \in DOMAIN list : list[j] \in Order
  BY <1>0, LenProperties
<1>2. list[i].quant - quantity \in 0..UINT32_MAX
  <2> DEFINE q == list[i].quant
  <2>1. UINT32_MAX \in Nat
    BY WordType
  <2>2. q \in 0..UINT32_MAX /\ quantity \in 0..q
    BY <1>1 DEF Order
  <2> HIDE DEF q
  <2>3. q - quantity \in 0..UINT32_MAX
    BY <2>1, <2>2
  <2> QED
    BY <2>3 DEF q
<1> DEFINE e == [list[i] EXCEPT !.quant = @ - quantity]
<1>3. /\ e \in Order /\ e.price = list[i].price
      /\ e.quant = list[i].quant - quantity
  BY <1>1, <1>2 DEF Order
<1>4. new = [list EXCEPT ![i] = e]
  OBVIOUS
<1> HIDE DEF e
<1>5. /\ new \in Seq(Order) /\ Len(new) = Len(list)
      /\ \A j \in 1..Len(list) : new[j] = IF j = i THEN e ELSE list[j]
  BY <1>0, <1>3, <1>4, ExceptSeq
<1> HIDE DEF new
<1>6. DOMAIN new = DOMAIN list
  BY <1>0, <1>5, LenProperties
<1>7. \A j \in DOMAIN list : new[j].price = list[j].price
  BY <1>0, <1>3, <1>5
<1> QED
  BY <1>0, <1>3, <1>5, <1>6, <1>7 DEF new

(* Each step of a service thread keeps the types. *)
LEMMA TypeService ==
  ASSUME CoreInv, NEW t \in Traders, Service(t)
  PROVE  TypeOK'
<1>0. SemaphoresOK /\ BookOK /\ AccountsOK /\ ThreadsOK /\ HistoryOK
  BY DEF CoreInv, TypeOK
<1>1. \A amount \in Amounts : amount \in Int
  BY RequestWords, WordType
<1>2. /\ \A u \in Traders : balance[u] \in Int /\ inventory[u] \in Int
      /\ \A u \in Traders : funds[u] \in Int /\ stock[u] \in Int
  BY <1>0, WordType DEF AccountsOK, HistoryOK
<1>3. ASSUME NEW amount \in Amounts, Funding(t)
      PROVE  SemaphoresOK' /\ BookOK' /\ ThreadsOK' /\ fundings' \in Nat
             /\ ref_count' \in [Traders -> Int]
  BY <1>0, <1>3 DEF Funding, SemaphoresOK, BookOK, ThreadsOK, HistoryOK,
       AccountsOK, exchange, book, control, background
<1>4. ASSUME NEW amount \in Amounts, Deposit(t, amount)
      PROVE  TypeOK'
  <2>1. /\ Plus(balance[t], amount) \in 0..UINT32_MAX
        /\ Plus(funds[t], amount) \in 0..UINT32_MAX
    BY <1>1, <1>2, WordArithmetic
  <2>2. AccountsOK' /\ HistoryOK'
    BY <1>0, <1>3, <1>4, <2>1
       DEF Deposit, AccountsOK, HistoryOK, trader_increase_balance
  <2> QED
    BY <1>3, <1>4, <2>2 DEF Deposit, TypeOK
<1>5. ASSUME NEW amount \in Amounts, Withdraw(t, amount)
      PROVE  TypeOK'
  <2>1. /\ Minus(balance[t], amount) \in 0..UINT32_MAX
        /\ Minus(funds[t], amount) \in 0..UINT32_MAX
    BY <1>1, <1>2, WordArithmetic
  <2>2. AccountsOK' /\ HistoryOK'
    BY <1>0, <1>3, <1>5, <2>1
       DEF Withdraw, AccountsOK, HistoryOK, trader_decrease_balance
  <2> QED
    BY <1>3, <1>5, <2>2 DEF Withdraw, TypeOK
<1>6. ASSUME NEW amount \in Amounts, Escrow(t, amount)
      PROVE  TypeOK'
  <2>1. /\ Plus(inventory[t], amount) \in 0..UINT32_MAX
        /\ Plus(stock[t], amount) \in 0..UINT32_MAX
    BY <1>1, <1>2, WordArithmetic
  <2>2. AccountsOK' /\ HistoryOK'
    BY <1>0, <1>3, <1>6, <2>1
       DEF Escrow, AccountsOK, HistoryOK, trader_increase_inventory
  <2> QED
    BY <1>3, <1>6, <2>2 DEF Escrow, TypeOK
<1>7. ASSUME NEW amount \in Amounts, Release(t, amount)
      PROVE  TypeOK'
  <2>1. /\ Minus(inventory[t], amount) \in 0..UINT32_MAX
        /\ Minus(stock[t], amount) \in 0..UINT32_MAX
    BY <1>1, <1>2, WordArithmetic
  <2>2. AccountsOK' /\ HistoryOK'
    BY <1>0, <1>3, <1>7, <2>1
       DEF Release, AccountsOK, HistoryOK, trader_decrease_inventory
  <2> QED
    BY <1>3, <1>7, <2>2 DEF Release, TypeOK
<1>8. ASSUME NEW c \in Call, Request(t, c)
      PROVE  TypeOK'
  <2>1. ThreadsOK'
    BY <1>0, <1>8 DEF Request, Goto, ThreadsOK, ServicePoints, exchange, background
  <2> QED
    BY <1>0, <1>8, <2>1 DEF Request, TypeOK, SemaphoresOK, BookOK, AccountsOK,
       HistoryOK, exchange, book, accounts, history
<1>9. ASSUME NEW op \in {"buy", "sell"}, NEW quantity \in Quantities,
             NEW price \in Prices, RequestPost(t, op, quantity, price)
      PROVE  TypeOK'
  <2> DEFINE c == [NoCall EXCEPT !.op = op, !.quant = quantity, !.price = price]
  <2>1. c \in Call
    BY RequestWords DEF NoCall, Call, Ops
  <2>2. Request(t, c)
    BY <1>9 DEF RequestPost
  <2> QED
    BY <1>8, <2>1, <2>2
<1>10. ASSUME NEW id \in 1..orderid - 1, RequestCancel(t, id)
       PROVE  TypeOK'
  <2> DEFINE c == [NoCall EXCEPT !.op = "cancel", !.id = id]
  <2>1. id \in Nat /\ 0 \in 0..UINT32_MAX
    BY WordType
  <2>2. c \in Call
    BY <2>1 DEF NoCall, Call, Ops
  <2>3. Request(t, c)
    BY <1>10 DEF RequestCancel
  <2> QED
    BY <1>8, <2>2, <2>3
<1>11. CASE Leave(t)
  <2>1. ThreadsOK'
    BY <1>0, <1>11 DEF Leave, Goto, ThreadsOK, ServicePoints, exchange, background
  <2> QED
    BY <1>0, <1>11, <2>1 DEF Leave, TypeOK, SemaphoresOK, BookOK, AccountsOK,
       HistoryOK, exchange, book, accounts, history
<1> QED
  BY <1>4, <1>5, <1>6, <1>7, <1>9, <1>10, <1>11 DEF Service

(* Every step of a service thread inside the exchange keeps the types. *)
LEMMA TypeServiceStep ==
  ASSUME CoreInv, NEW t \in Traders, ServiceStep(t)
  PROVE  TypeOK'
<1>0. /\ SemaphoresOK /\ BookOK /\ AccountsOK /\ ThreadsOK /\ HistoryOK
      /\ MutualExclusion
  BY DEF CoreInv, TypeOK
<1>1. /\ balance[t] \in Int /\ inventory[t] \in Int
      /\ call[t].quant \in 0..UINT32_MAX /\ call[t].price \in 0..UINT32_MAX
      /\ call[t].quant \in Int /\ call[t].price \in Int
      /\ Times(call[t].quant, call[t].price) \in Int
  <2>1. /\ balance[t] \in Int /\ inventory[t] \in Int
        /\ call[t].quant \in 0..UINT32_MAX /\ call[t].price \in 0..UINT32_MAX
    BY <1>0, WordType DEF AccountsOK, ThreadsOK, Call
  <2>2. call[t].quant \in Int /\ call[t].price \in Int
    BY <2>1, WordType
  <2>3. Times(call[t].quant, call[t].price) \in 0..UINT32_MAX
    BY <2>2, WordArithmetic
  <2> QED
    BY <2>1, <2>2, <2>3, WordType
<1>2. CASE Lock(t)
  <2>1. SemaphoresOK' /\ ThreadsOK'
    BY <1>0, <1>2 DEF Lock, Goto, SemaphoresOK, ThreadsOK, ServicePoints,
       ServiceCritical, background
  <2> QED
    BY <1>0, <1>2, <2>1 DEF Lock, TypeOK, BookOK, AccountsOK, HistoryOK, book,
       accounts, history
<1>3. CASE DebitBuy(t)
  <2>1. Minus(balance[t], Times(call[t].quant, call[t].price)) \in 0..UINT32_MAX
    BY <1>1, WordArithmetic
  <2>2. AccountsOK'
    BY <1>0, <1>3, <2>1 DEF DebitBuy, AccountsOK, trader_decrease_balance
  <2>3. ThreadsOK'
    BY <1>0, <1>3 DEF DebitBuy, Goto, ThreadsOK, ServicePoints,
       ServiceCritical, exchange, background
  <2> QED
    BY <1>0, <1>3, <2>2, <2>3 DEF DebitBuy, TypeOK, SemaphoresOK, BookOK,
       HistoryOK, exchange, book, history
<1>4. CASE DebitSell(t)
  <2>1. Minus(inventory[t], call[t].quant) \in 0..UINT32_MAX
    BY <1>1, WordArithmetic
  <2>2. AccountsOK'
    BY <1>0, <1>4, <2>1 DEF DebitSell, AccountsOK, trader_decrease_inventory
  <2>3. ThreadsOK'
    BY <1>0, <1>4 DEF DebitSell, Goto, ThreadsOK, ServicePoints,
       ServiceCritical, exchange, background
  <2> QED
    BY <1>0, <1>4, <2>2, <2>3 DEF DebitSell, TypeOK, SemaphoresOK, BookOK,
       HistoryOK, exchange, book, history
<1>5. CASE Insert(t)
  <2> DEFINE order == [id |-> orderid, trader |-> t,
                       quant |-> call[t].quant, price |-> call[t].price]
  <2>1. order \in Order /\ order.price \in 0..UINT32_MAX
    BY <1>0, <1>1 DEF BookOK, Order
  <2>2. /\ list_insert(buy_orders, order) \in Seq(Order)
        /\ list_insert(sell_orders, order) \in Seq(Order)
    BY <1>0, <2>1, ListInsertSorted DEF BookOK, CoreInv, ListsSorted
  <2>3. buy_orders' \in Seq(Order) /\ sell_orders' \in Seq(Order)
    BY <1>0, <1>5, <2>2 DEF BookOK, Insert
  <2>4. bid' \in 0..UINT32_MAX /\ ask' \in 0..UINT32_MAX
    BY <1>0, <1>5, <2>1 DEF BookOK, Insert
  <2>5. BookOK'
    BY <1>0, <1>5, <2>3, <2>4 DEF Insert, BookOK
  <2>6. SemaphoresOK' /\ AccountsOK' /\ HistoryOK'
    BY <1>0, <1>5 DEF Insert, SemaphoresOK, AccountsOK, HistoryOK, history
  <2>7. ThreadsOK'
    BY <1>0, <1>5 DEF Insert, Goto, ThreadsOK, BookOK, ServicePoints,
       ServiceCritical, Call, background
  <2> QED
    BY <2>5, <2>6, <2>7 DEF TypeOK
<1>6. CASE BroadcastPosted(t)
  <2>1. ThreadsOK'
    BY <1>0, <1>6 DEF BroadcastPosted, Goto, ThreadsOK, ServicePoints,
       ServiceCritical, exchange, background
  <2> QED
    BY <1>0, <1>6, <2>1 DEF BroadcastPosted, TypeOK, SemaphoresOK, BookOK,
       AccountsOK, HistoryOK, exchange, book, accounts
<1>7. CASE CancelFails(t)
  <2>1. ThreadsOK'
    BY <1>0, <1>7 DEF CancelFails, Goto, ThreadsOK, ServicePoints,
       ServiceCritical, exchange, background
  <2> QED
    BY <1>0, <1>7, <2>1 DEF CancelFails, TypeOK, SemaphoresOK, BookOK,
       AccountsOK, HistoryOK, exchange, book, accounts, history
<1>8. CASE CancelFinds(t)
  <2>1. PICK list \in {buy_orders, sell_orders}, op \in {"cancel_buy", "cancel_sell"},
             i \in DOMAIN buy_orders \cup DOMAIN sell_orders :
          /\ i \in DOMAIN list
          /\ call' = [call EXCEPT ![t] = [op |-> op, id |-> call[t].id,
                        quant |-> list[i].quant, price |-> list[i].price]]
          /\ \/ /\ list = buy_orders /\ buy_orders' = list_remove(list, i)
                /\ sell_orders' = sell_orders
             \/ /\ list = sell_orders /\ sell_orders' = list_remove(list, i)
                /\ buy_orders' = buy_orders
    BY <1>8 DEF CancelFinds, Places
  <2>2. list \in Seq(Order) /\ i \in 1..Len(list) /\ list[i] \in Order
        /\ Sorted(list)
    BY <1>0, <2>1, LenProperties DEF BookOK, CoreInv, ListsSorted
  <2>3. list_remove(list, i) \in Seq(Order)
    BY <2>2, ListRemoveSorted
  <2>4. buy_orders' \in Seq(Order) /\ sell_orders' \in Seq(Order)
    BY <1>0, <2>1, <2>3 DEF BookOK
  <2>5. bid' \in 0..UINT32_MAX /\ ask' \in 0..UINT32_MAX
    BY <1>8, <2>4, QuotesTyped DEF CancelFinds, Requote
  <2>6. BookOK'
    BY <1>0, <1>8, <2>4, <2>5 DEF CancelFinds, BookOK
  <2>7. [op |-> op, id |-> call[t].id, quant |-> list[i].quant,
          price |-> list[i].price] \in Call
    BY <1>0, <2>1, <2>2 DEF ThreadsOK, Call, Ops, Order
  <2>8. ThreadsOK'
    BY <1>0, <1>8, <2>1, <2>7 DEF CancelFinds, Goto, ThreadsOK, ServicePoints,
       ServiceCritical, background
  <2> QED
    BY <1>0, <1>8, <2>6, <2>8 DEF CancelFinds, TypeOK, SemaphoresOK,
       AccountsOK, HistoryOK, accounts, history
<1>9. CASE CancelRefund(t)
  <2>1. /\ Plus(balance[t], Times(call[t].quant, call[t].price)) \in 0..UINT32_MAX
        /\ Plus(inventory[t], call[t].quant) \in 0..UINT32_MAX
    BY <1>1, WordArithmetic
  <2>2. AccountsOK'
    BY <1>0, <1>9, <2>1 DEF CancelRefund, AccountsOK, trader_increase_balance,
       trader_increase_inventory
  <2>3. ThreadsOK'
    BY <1>0, <1>9 DEF CancelRefund, Goto, ThreadsOK, ServicePoints,
       ServiceCritical, exchange, background
  <2> QED
    BY <1>0, <1>9, <2>2, <2>3 DEF CancelRefund, TypeOK, SemaphoresOK, BookOK,
       HistoryOK, exchange, book, history
<1>10. CASE BroadcastCanceled(t)
  <2>1. ThreadsOK'
    BY <1>0, <1>10 DEF BroadcastCanceled, Goto, ThreadsOK, ServicePoints,
       ServiceCritical, exchange, background
  <2> QED
    BY <1>0, <1>10, <2>1 DEF BroadcastCanceled, TypeOK, SemaphoresOK, BookOK,
       AccountsOK, HistoryOK, exchange, book, accounts
<1>11. CASE Unlock(t)
  <2>1. mutex = 0
    BY <1>0, <1>11 DEF SemaphoresOK, MutualExclusion, Unlock, Goto, ServiceCritical
  <2>2. SemaphoresOK'
    BY <1>0, <1>11, <2>1 DEF Unlock, SemaphoresOK
  <2>3. NoCall \in Call
    BY WordType DEF NoCall, Call, Ops
  <2>4. ThreadsOK'
    BY <1>0, <1>11, <2>3 DEF Unlock, Goto, ThreadsOK, ServicePoints, background
  <2> QED
    BY <1>0, <1>11, <2>2, <2>4 DEF Unlock, TypeOK, BookOK, AccountsOK,
       HistoryOK, book, accounts, history
<1> QED
  BY <1>2, <1>3, <1>4, <1>5, <1>6, <1>7, <1>8, <1>9, <1>10, <1>11
     DEF ServiceStep

(* Each step of the matchmaker keeps the types. *)
LEMMA TypeMatcher ==
  ASSUME CoreInv, Matcher
  PROVE  TypeOK'
<1>0. /\ SemaphoresOK /\ BookOK /\ AccountsOK /\ ThreadsOK /\ HistoryOK
      /\ MutualExclusion /\ TradeInv /\ PointersInv /\ TypeOK
  BY DEF CoreInv, TypeOK
<1>1. /\ DOMAIN sell_orders = 1..Len(sell_orders) /\ Len(sell_orders) \in Nat
      /\ DOMAIN buy_orders = 1..Len(buy_orders) /\ Len(buy_orders) \in Nat
  BY <1>0, LenProperties DEF BookOK
<1>2. NoMatch \in Match /\ [NoMatch EXCEPT !.sell = 1] \in Match
  BY WordType DEF NoMatch, Match
<1>3. ASSUME mpc \in {"pay", "deliver", "refund", "report", "fill"}
      PROVE  /\ Seller \in Order /\ Buyer \in Order
             /\ Seller.trader \in Traders /\ Buyer.trader \in Traders
             /\ match.quantity \in 0..Seller.quant
             /\ match.quantity \in 0..Buyer.quant
             /\ match.quantity \in Int /\ match.price \in Int
             /\ Times(match.quantity, match.price) \in Int
             /\ Times(match.quantity, Buyer.price - match.price) \in Int
  <2>1. /\ Seller \in Order /\ Buyer \in Order
        /\ match.quantity \in 0..Seller.quant
        /\ match.quantity \in 0..Buyer.quant
        /\ match.quantity \in 0..UINT32_MAX /\ match.price \in 0..UINT32_MAX
    BY <1>0, <1>3, PointersTyped DEF TradeInv
  <2>2. match.quantity \in Int /\ match.price \in Int /\ Buyer.price \in Int
    BY <2>1, WordType DEF Order
  <2>3. Buyer.price - match.price \in Int
    BY <2>2
  <2>4. /\ Times(match.quantity, match.price) \in 0..UINT32_MAX
        /\ Times(match.quantity, Buyer.price - match.price) \in 0..UINT32_MAX
    BY <2>2, <2>3, WordArithmetic
  <2> QED
    BY <2>1, <2>2, <2>4, WordType DEF Order
<1>4. /\ \A u \in Traders : balance[u] \in Int /\ inventory[u] \in Int
      /\ \A u \in Traders : funds[u] \in Int /\ stock[u] \in Int
  BY <1>0, WordType DEF AccountsOK, HistoryOK
<1>5. CASE MatcherWake
  <2>1. SemaphoresOK' /\ ThreadsOK'
    BY <1>0, <1>5 DEF MatcherWake, Step, SemaphoresOK, ThreadsOK, MatcherPoints
  <2> QED
    BY <1>0, <1>5, <2>1 DEF MatcherWake, TypeOK, BookOK, AccountsOK, HistoryOK,
       book, accounts, history
<1>6. CASE MatcherStop
  <2>1. SemaphoresOK' /\ ThreadsOK'
    BY <1>0, <1>6 DEF MatcherStop, Step, SemaphoresOK, ThreadsOK, MatcherPoints,
       MatcherCritical
  <2> QED
    BY <1>0, <1>6, <2>1 DEF MatcherStop, TypeOK, BookOK, AccountsOK, HistoryOK,
       book, accounts, history
<1>7. CASE MatcherStart
  <2>1. SemaphoresOK' /\ ThreadsOK'
    BY <1>0, <1>2, <1>7 DEF MatcherStart, Step, SemaphoresOK, ThreadsOK,
       MatcherPoints, MatcherCritical, MatcherTrading
  <2> QED
    BY <1>0, <1>7, <2>1 DEF MatcherStart, TypeOK, BookOK, AccountsOK, HistoryOK,
       book, accounts, history
<1>8. CASE MatcherSleep
  <2>1. mutex = 0
    BY <1>0, <1>8 DEF SemaphoresOK, MutualExclusion, MatcherSleep, Step,
       MatcherCritical, MatcherTrading
  <2>2. SemaphoresOK' /\ ThreadsOK'
    BY <1>0, <1>2, <1>8, <2>1 DEF MatcherSleep, Step, SemaphoresOK, ThreadsOK,
       MatcherPoints
  <2> QED
    BY <1>0, <1>8, <2>2 DEF MatcherSleep, TypeOK, BookOK, AccountsOK, HistoryOK,
       book, accounts, history
<1>9. CASE MatcherOuter
  <2>1. ThreadsOK'
    BY <1>0, <1>1, <1>9 DEF MatcherOuter, Step, ThreadsOK, Match, MatcherPoints,
       MatcherCritical, MatcherTrading, exchange
  <2> QED
    BY <1>0, <1>9, <2>1 DEF MatcherOuter, TypeOK, SemaphoresOK, BookOK,
       AccountsOK, HistoryOK, exchange, book, accounts, history
<1>10. CASE MatcherInner
  <2>1. ASSUME match.buy # 0, Matches(Seller, Buyer)
        PROVE  match' \in Match /\ mpc' \in MatcherPoints
    <3>1. match.sell \in DOMAIN sell_orders /\ match.buy \in DOMAIN buy_orders
      BY <1>0, <1>1, <1>10, <2>1 DEF PointersInv, MatcherInner
    <3>2. /\ TradeQuantity(Seller, Buyer) \in 0..UINT32_MAX
          /\ TradePrice(Seller, Buyer, last_price) \in 0..UINT32_MAX
      BY <1>0, <3>1, PointersTyped
    <3>3. match' \in Match /\ mpc' \in MatcherPoints
      BY <1>0, <1>10, <2>1, <3>2 DEF MatcherInner, ThreadsOK, Match,
         MatcherPoints, MatcherCritical, MatcherTrading
    <3> QED
      BY <3>3
  <2>2. ASSUME ~ (match.buy # 0 /\ Matches(Seller, Buyer))
        PROVE  match' \in Match /\ mpc' \in MatcherPoints
    <3>1. match' \in Match /\ mpc' \in MatcherPoints
      BY <1>0, <1>2, <1>10, <2>2 DEF MatcherInner, ThreadsOK, Match, NoMatch,
         MatcherPoints, MatcherCritical, MatcherTrading
    <3> QED
      BY <3>1
  <2>3. ThreadsOK'
    BY <1>0, <1>10, <2>1, <2>2 DEF MatcherInner, ThreadsOK, exchange
  <2> QED
    BY <1>0, <1>10, <2>3 DEF MatcherInner, TypeOK, SemaphoresOK, BookOK,
       AccountsOK, HistoryOK, exchange, book, accounts, history
<1>11. CASE MatcherPay
  <2>1. Plus(balance[Seller.trader], Times(match.quantity, match.price))
          \in 0..UINT32_MAX
    BY <1>3, <1>4, <1>11, WordArithmetic DEF MatcherPay, Step
  <2>2. AccountsOK'
    BY <1>0, <1>11, <2>1 DEF MatcherPay, AccountsOK, trader_increase_balance
  <2>3. ThreadsOK'
    BY <1>0, <1>11 DEF MatcherPay, Step, ThreadsOK, MatcherPoints,
       MatcherCritical, MatcherTrading, exchange
  <2> QED
    BY <1>0, <1>11, <2>2, <2>3 DEF MatcherPay, TypeOK, SemaphoresOK, BookOK,
       HistoryOK, exchange, book, history
<1>12. CASE MatcherDeliver
  <2>1. Plus(inventory[Buyer.trader], match.quantity) \in 0..UINT32_MAX
    BY <1>3, <1>4, <1>12, WordArithmetic DEF MatcherDeliver, Step
  <2>2. AccountsOK'
    BY <1>0, <1>12, <2>1 DEF MatcherDeliver, AccountsOK, trader_increase_inventory
  <2>3. ThreadsOK'
    BY <1>0, <1>12 DEF MatcherDeliver, Step, ThreadsOK, MatcherPoints,
       MatcherCritical, MatcherTrading, exchange
  <2> QED
    BY <1>0, <1>12, <2>2, <2>3 DEF MatcherDeliver, TypeOK, SemaphoresOK, BookOK,
       HistoryOK, exchange, book, history
<1>13. CASE MatcherRefund
  <2>1. Plus(balance[Buyer.trader],
             Times(match.quantity, Buyer.price - match.price)) \in 0..UINT32_MAX
    BY <1>3, <1>4, <1>13, WordArithmetic DEF MatcherRefund, Step
  <2>2. AccountsOK'
    BY <1>0, <1>13, <2>1 DEF MatcherRefund, AccountsOK, trader_increase_balance
  <2>3. ThreadsOK'
    BY <1>0, <1>13 DEF MatcherRefund, Step, ThreadsOK, MatcherPoints,
       MatcherCritical, MatcherTrading, exchange
  <2> QED
    BY <1>0, <1>13, <2>2, <2>3 DEF MatcherRefund, TypeOK, SemaphoresOK, BookOK,
       HistoryOK, exchange, book, history
<1>14. CASE MatcherReport
  <2> DEFINE cost == Times(match.quantity, match.price)
             s == Seller.trader
             b == Buyer.trader
  <2>1. /\ cost \in Int /\ match.quantity \in Int
        /\ s \in Traders /\ b \in Traders
    BY <1>3, <1>14 DEF MatcherReport, Step
  <2>2. \A x \in Int : /\ Plus(x, cost) \in 0..UINT32_MAX
                       /\ Minus(x, cost) \in 0..UINT32_MAX
                       /\ Plus(x, match.quantity) \in 0..UINT32_MAX
                       /\ Minus(x, match.quantity) \in 0..UINT32_MAX
    BY <2>1, WordArithmetic
  <2>3. /\ funds' = Passed(funds, b, s, cost)
        /\ stock' = Passed(stock, s, b, match.quantity)
        /\ fundings' = fundings
    BY <1>14 DEF MatcherReport
  <2>4. 0..UINT32_MAX \subseteq Int
    BY WordType
  <2> HIDE DEF cost, s, b
  <2>5. HistoryOK'
    <3>1. funds' \in [Traders -> 0..UINT32_MAX]
      BY <1>0, <2>2, <2>3, <2>4 DEF HistoryOK, Passed
    <3>2. stock' \in [Traders -> 0..UINT32_MAX]
      BY <1>0, <2>2, <2>3, <2>4 DEF HistoryOK, Passed
    <3> QED
      BY <1>0, <1>14, <2>3, <3>1, <3>2 DEF HistoryOK, MatcherReport
  <2>6. ThreadsOK'
    BY <1>0, <1>14 DEF MatcherReport, Step, ThreadsOK, MatcherPoints,
       MatcherCritical, MatcherTrading, exchange
  <2> QED
    BY <1>0, <1>14, <2>5, <2>6 DEF MatcherReport, TypeOK, SemaphoresOK, BookOK,
       AccountsOK, exchange, book, accounts
<1>15. CASE MatcherFill
  <2>0. mpc = "fill" /\ mpc' = "reap"
    BY <1>15 DEF MatcherFill, Step
  <2>1. /\ match.sell \in DOMAIN sell_orders /\ match.buy \in DOMAIN buy_orders
        /\ match.price \in 0..UINT32_MAX
    BY <1>0, <2>0 DEF TradeInv, ThreadsOK, Match
  <2>2. sell_orders' \in Seq(Order)
    BY <1>0, <1>3, <1>15, <2>0, <2>1, ShrinkOrder DEF MatcherFill, BookOK, Seller
  <2>3. buy_orders' \in Seq(Order)
    <3>1. /\ buy_orders \in Seq(Order) /\ Sorted(buy_orders)
          /\ match.buy \in 1..Len(buy_orders)
      BY <1>0, <1>1, <2>1 DEF BookOK, CoreInv, ListsSorted
    <3>2. list_remove(buy_orders, match.buy) \in Seq(Order)
      BY <3>1, ListRemoveSorted
    <3>3. match.quantity \in 0..buy_orders[match.buy].quant
      BY <1>3, <2>0 DEF Buyer
    <3>4. [buy_orders EXCEPT ![match.buy].quant = @ - match.quantity] \in Seq(Order)
      BY <2>1, <3>1, <3>3, ShrinkOrder
    <3> QED
      BY <1>15, <3>2, <3>4 DEF MatcherFill
  <2>4. BookOK'
    BY <1>0, <1>15, <2>1, <2>2, <2>3, QuotesTyped DEF MatcherFill, BookOK
  <2>5. match.buy - 1 \in Nat /\ 0 \in 0..UINT32_MAX
    <3>1. match.buy \in 1..Len(buy_orders)
      BY <1>1, <2>1
    <3>2. UINT32_MAX \in Nat
      BY WordType
    <3>3. match.buy - 1 \in Nat
      BY <1>1, <3>1
    <3> QED
      BY <3>2, <3>3
  <2>6. ThreadsOK'
    BY <1>0, <1>15, <2>0, <2>5 DEF MatcherFill, ThreadsOK, Match, MatcherPoints,
       MatcherCritical, MatcherTrading
  <2>7. AccountsOK'
    BY <1>0, <1>3, <1>15, <2>0 DEF MatcherFill, AccountsOK
  <2> QED
    BY <1>0, <1>15, <2>4, <2>6, <2>7 DEF MatcherFill, TypeOK, SemaphoresOK,
       HistoryOK, history
<1>16. CASE MatcherReap
  <2>0. mpc = "reap" /\ mpc' \in {"outer", "inner"}
    BY <1>16 DEF MatcherReap
  <2>1. match.sell \in DOMAIN sell_orders
    BY <1>0, <2>0 DEF PointersInv
  <2>2. sell_orders' \in Seq(Order)
    BY <1>0, <1>1, <1>16, <2>1, ListRemoveSorted DEF MatcherReap, BookOK, CoreInv,
       ListsSorted
  <2>3. BookOK'
    BY <1>0, <1>16, <2>2, QuotesTyped DEF MatcherReap, BookOK
  <2>4. [NoMatch EXCEPT !.sell = match.sell] \in Match
    BY <1>0, WordType DEF NoMatch, Match, ThreadsOK
  <2>5. ThreadsOK'
    BY <1>0, <1>16, <2>0, <2>4 DEF MatcherReap, ThreadsOK, MatcherPoints,
       MatcherCritical, MatcherTrading
  <2>6. AccountsOK'
    BY <1>0, <1>16 DEF MatcherReap, AccountsOK
  <2> QED
    BY <1>0, <1>16, <2>3, <2>5, <2>6 DEF MatcherReap, TypeOK, SemaphoresOK,
       HistoryOK, history
<1> QED
  BY <1>5, <1>6, <1>7, <1>8, <1>9, <1>10, <1>11, <1>12, <1>13, <1>14, <1>15,
     <1>16 DEF Matcher

(* The steps of exchange_fini, and stuttering, keep the types. *)
LEMMA TypeFini ==
  ASSUME CoreInv, Fini \/ UNCHANGED vars
  PROVE  TypeOK'
<1>0. SemaphoresOK /\ BookOK /\ AccountsOK /\ ThreadsOK /\ HistoryOK
  BY DEF CoreInv, TypeOK
<1>1. CASE FiniFree
  BY <1>0, <1>1 DEF FiniFree, TypeOK, SemaphoresOK, BookOK, AccountsOK,
     ThreadsOK, HistoryOK, FiniPoints, book, accounts, history
<1>2. CASE FiniWake
  BY <1>0, <1>2 DEF FiniWake, TypeOK, SemaphoresOK, BookOK, AccountsOK,
     ThreadsOK, HistoryOK, FiniPoints, book, accounts, history
<1>3. CASE FiniJoin
  BY <1>0, <1>3 DEF FiniJoin, TypeOK, SemaphoresOK, BookOK, AccountsOK,
     ThreadsOK, HistoryOK, FiniPoints, book, accounts, history
<1>4. CASE UNCHANGED vars
  BY <1>0, <1>4 DEF TypeOK, SemaphoresOK, BookOK, AccountsOK, ThreadsOK,
     HistoryOK, vars, exchange, book, accounts, control, background, history
<1> QED
  BY <1>1, <1>2, <1>3, <1>4 DEF Fini

(* Every step keeps the types. *)
LEMMA TypeNext ==
  ASSUME CoreInv, [Next]_vars
  PROVE  TypeOK'
BY TypeService, TypeServiceStep, TypeMatcher, TypeFini DEF Next, Exited
-----------------------------------------------------------------------------
(* A step of service thread t moves that thread alone, inside or outside   *)
(* the critical section, or across its border with the semaphore.          *)
LEMMA ServiceMoves ==
  ASSUME TypeOK, NEW t \in Traders, Service(t) \/ ServiceStep(t)
  PROVE  /\ \A u \in Traders \ {t} : pc'[u] = pc[u]
         /\ mpc' = mpc /\ check' = check /\ fpc' = fpc /\ pc[t] # "gone"
         /\ \/ /\ mutex' = mutex
               /\ pc[t] \in ServiceCritical <=> pc'[t] \in ServiceCritical
            \/ /\ mutex = 1 /\ mutex' = 0
               /\ pc[t] \notin ServiceCritical /\ pc'[t] \in ServiceCritical
            \/ /\ mutex' = mutex + 1
               /\ pc[t] \in ServiceCritical /\ pc'[t] \notin ServiceCritical
<1>0. pc \in [Traders -> ServicePoints]
  BY DEF TypeOK, ThreadsOK
<1>1. ASSUME NEW amount \in Amounts,
             \/ Deposit(t, amount) \/ Withdraw(t, amount)
             \/ Escrow(t, amount)  \/ Release(t, amount)
      PROVE  pc' = pc /\ mpc' = mpc /\ check' = check /\ fpc' = fpc
             /\ mutex' = mutex /\ pc[t] = "idle"
  BY <1>1 DEF Deposit, Withdraw, Escrow, Release, Funding, exchange, control,
     background
<1>2. ASSUME NEW c, Request(t, c)
      PROVE  Goto(t, "idle", "lock") /\ mpc' = mpc /\ check' = check
             /\ fpc' = fpc /\ mutex' = mutex
  BY <1>2 DEF Request, exchange, background
<1>3. CASE Service(t)
  BY <1>0, <1>1, <1>2, <1>3 DEF Service, RequestPost, RequestCancel, Leave,
     Goto, ServiceCritical, exchange, background
<1>4. CASE Lock(t)
  BY <1>0, <1>4 DEF Lock, Goto, ServiceCritical, background
<1>5. CASE DebitBuy(t) \/ DebitSell(t)
  BY <1>0, <1>5 DEF DebitBuy, DebitSell, Goto, ServiceCritical, exchange,
     background
<1>6. CASE Insert(t)
  BY <1>0, <1>6 DEF Insert, Goto, ServiceCritical, background
<1>7. CASE BroadcastPosted(t) \/ CancelFails(t) \/ BroadcastCanceled(t)
  BY <1>0, <1>7 DEF BroadcastPosted, CancelFails, BroadcastCanceled, Goto,
     ServiceCritical, exchange, background
<1>8. CASE CancelFinds(t)
  BY <1>0, <1>8 DEF CancelFinds, Goto, ServiceCritical, background
<1>9. CASE CancelRefund(t)
  BY <1>0, <1>9 DEF CancelRefund, Goto, ServiceCritical, exchange, background
<1>10. CASE Unlock(t)
  BY <1>0, <1>10 DEF Unlock, Goto, ServiceCritical, background
<1> QED
  BY <1>3, <1>4, <1>5, <1>6, <1>7, <1>8, <1>9, <1>10 DEF ServiceStep

(* A step of the matchmaker moves it alone, likewise; it starts to trade   *)
(* only when it has seen `check' down.                                     *)
LEMMA MatcherMoves ==
  ASSUME Matcher
  PROVE  /\ pc' = pc /\ check' = check /\ fpc' = fpc
         /\ \/ /\ mutex' = mutex
               /\ mpc \in MatcherCritical <=> mpc' \in MatcherCritical
               /\ mpc \in MatcherTrading <=> mpc' \in MatcherTrading
            \/ /\ mutex = 1 /\ mutex' = 0
               /\ mpc \notin MatcherCritical /\ mpc' \in MatcherCritical
               /\ mpc' \in MatcherTrading => check = 0
            \/ /\ mutex' = mutex + 1
               /\ mpc \in MatcherCritical /\ mpc' \notin MatcherCritical
<1>1. CASE MatcherWake
  BY <1>1 DEF MatcherWake, Step, MatcherCritical, MatcherTrading
<1>2. CASE MatcherStop
  BY <1>2 DEF MatcherStop, Step, MatcherCritical, MatcherTrading
<1>3. CASE MatcherStart
  BY <1>3 DEF MatcherStart, Step, MatcherCritical, MatcherTrading
<1>4. CASE MatcherSleep
  BY <1>4 DEF MatcherSleep, Step, MatcherCritical, MatcherTrading
<1>5. CASE MatcherOuter \/ MatcherInner
  BY <1>5 DEF MatcherOuter, MatcherInner, Step, MatcherCritical,
     MatcherTrading, exchange
<1>6. CASE MatcherPay \/ MatcherDeliver \/ MatcherRefund \/ MatcherReport
  BY <1>6 DEF MatcherPay, MatcherDeliver, MatcherRefund, MatcherReport, Step,
     MatcherCritical, MatcherTrading, exchange
<1>7. CASE MatcherFill
  BY <1>7 DEF MatcherFill, Step, MatcherCritical, MatcherTrading
<1>8. CASE MatcherReap
  BY <1>8 DEF MatcherReap, MatcherCritical, MatcherTrading
<1> QED
  BY <1>1, <1>2, <1>3, <1>4, <1>5, <1>6, <1>7, <1>8 DEF Matcher

(* The semaphore and the program counters stay in step. *)
LEMMA MutualExclusionNext ==
  ASSUME CoreInv, [Next]_vars
  PROVE  MutualExclusion'
<1>0. TypeOK /\ MutualExclusion /\ mutex \in 0..1
      /\ pc \in [Traders -> ServicePoints]
  BY DEF CoreInv, TypeOK, SemaphoresOK, ThreadsOK
<1>1. ASSUME NEW t \in Traders, Service(t) \/ ServiceStep(t)
      PROVE  MutualExclusion'
  BY <1>0, <1>1, ServiceMoves DEF MutualExclusion
<1>2. CASE Matcher
  BY <1>0, <1>2, MatcherMoves DEF MutualExclusion
<1>3. CASE Fini \/ UNCHANGED vars
  BY <1>0, <1>3 DEF MutualExclusion, Fini, FiniFree, FiniWake, FiniJoin, vars,
     exchange, control, background
<1> QED
  BY <1>1, <1>2, <1>3 DEF Next, Exited

(* Nothing trades after exchange_fini has freed the orders. *)
LEMMA NoUseAfterFreeNext ==
  ASSUME CoreInv, [Next]_vars
  PROVE  NoUseAfterFree'
<1>0. TypeOK /\ MutualExclusion /\ NoUseAfterFree
      /\ pc \in [Traders -> ServicePoints] /\ check \in 0..1
  BY DEF CoreInv, TypeOK, ThreadsOK
<1>1. ASSUME NEW t \in Traders, Service(t) \/ ServiceStep(t)
      PROVE  NoUseAfterFree'
  BY <1>0, <1>1, ServiceMoves DEF NoUseAfterFree
<1>2. CASE Matcher
  BY <1>0, <1>2, MatcherMoves DEF NoUseAfterFree, MatcherCritical
<1>3. CASE FiniFree
  BY <1>0, <1>3 DEF NoUseAfterFree, MutualExclusion, FiniFree, MatcherCritical
<1>4. CASE FiniWake \/ FiniJoin \/ UNCHANGED vars
  BY <1>0, <1>4 DEF NoUseAfterFree, FiniWake, FiniJoin, vars, exchange,
     control, background
<1> QED
  BY <1>1, <1>2, <1>3, <1>4 DEF Next, Fini, Exited
-----------------------------------------------------------------------------
(* Prices decide whether a list is sorted, and what its ends quote. *)
LEMMA SamePrices ==
  ASSUME NEW list \in Seq(Order), NEW new \in Seq(Order),
         Len(new) = Len(list), DOMAIN new = DOMAIN list,
         \A j \in DOMAIN list : new[j].price = list[j].price
  PROVE  /\ Sorted(list) => Sorted(new)
         /\ BidOf(new) = BidOf(list) /\ AskOf(new) = AskOf(list)
<1>1. Sorted(list) => Sorted(new)
  BY DEF Sorted
<1>2. CASE list = << >>
  <2>1. new = << >>
    BY <1>2, EmptySeq
  <2> QED
    BY <1>1, <1>2, <2>1
<1>3. CASE list # << >>
  <2>1. new # << >>
    BY <1>3, EmptySeq
  <2>2. 1 \in DOMAIN list /\ Len(list) \in DOMAIN list
    BY <1>3, LenProperties, EmptySeq
  <2> QED
    BY <1>1, <1>3, <2>1, <2>2 DEF BidOf, AskOf
<1> QED
  BY <1>2, <1>3

(* The quotes that exchange_post_buy and exchange_post_sell adjust are the *)
(* ends of the new list.                                                   *)
LEMMA QuoteAfterInsert ==
  ASSUME NEW list \in Seq(Order), NEW node \in Order, Sorted(list)
  PROVE  LET new == list_insert(list, node)
         IN  /\ BidOf(new) = IF BidOf(list) < node.price THEN node.price
                                                          ELSE BidOf(list)
             /\ AskOf(new) = IF AskOf(list) > node.price THEN node.price
                                                          ELSE AskOf(list)
<1> DEFINE new == list_insert(list, node)
<1>0. UINT32_MAX \in Nat /\ node.price \in 0..UINT32_MAX
  BY WordType DEF Order
<1>1. /\ new \in Seq(Order) /\ Len(new) = Len(list) + 1
      /\ new[1].price = IF list = << >> \/ node.price < list[1].price
                          THEN node.price ELSE list[1].price
      /\ new[Len(new)].price =
           IF list = << >> \/ list[Len(list)].price <= node.price
             THEN node.price ELSE list[Len(list)].price
  BY ListInsertSorted
<1> HIDE DEF new
<1>2. new # << >>
  BY <1>1, LenProperties, EmptySeq
<1>3. CASE list = << >>
  BY <1>0, <1>1, <1>2, <1>3 DEF BidOf, AskOf, new
<1>4. CASE list # << >>
  <2>1. list[1] \in Order /\ list[Len(list)] \in Order
    BY <1>4, LenProperties, EmptySeq
  <2>2. list[1].price \in 0..UINT32_MAX /\ list[Len(list)].price \in 0..UINT32_MAX
    BY <2>1 DEF Order
  <2> QED
    BY <1>0, <1>1, <1>2, <1>4, <2>2 DEF BidOf, AskOf, new
<1> QED
  BY <1>3, <1>4

(* Outside Insert and CancelFinds a service thread leaves the book alone,  *)
(* and those two need the semaphore; it never moves match_order's pointers.*)
LEMMA ServiceBook ==
  ASSUME TypeOK, MutualExclusion, NEW t \in Traders, Service(t) \/ ServiceStep(t)
  PROVE  /\ match' = match /\ mpc' = mpc /\ last_price' = last_price
         /\ \/ /\ UNCHANGED <<buy_orders, sell_orders, bid, ask, matcher_mutex>>
               /\ mpc \in MatcherCritical => mutex' = mutex
            \/ Insert(t) /\ mpc \notin MatcherCritical
            \/ CancelFinds(t) /\ mpc \notin MatcherCritical
<1>1. ASSUME NEW amount \in Amounts,
             \/ Deposit(t, amount) \/ Withdraw(t, amount)
             \/ Escrow(t, amount)  \/ Release(t, amount)
      PROVE  UNCHANGED <<exchange, background>>
  BY <1>1 DEF Deposit, Withdraw, Escrow, Release, Funding, exchange, control,
     background
<1>2. ASSUME NEW c, Request(t, c)
      PROVE  UNCHANGED <<exchange, background>>
  BY <1>2 DEF Request, exchange, background
<1>3. CASE Service(t)
  BY <1>1, <1>2, <1>3 DEF Service, RequestPost, RequestCancel, Leave,
     exchange, book, background
<1>4. CASE Lock(t)
  BY <1>4 DEF Lock, MutualExclusion, book, background
<1>5. CASE Insert(t) \/ CancelFinds(t)
  BY <1>5 DEF Insert, CancelFinds, MutualExclusion, Goto, ServiceCritical,
     background
<1>6. CASE Unlock(t)
  BY <1>6 DEF Unlock, Goto, MutualExclusion, ServiceCritical, book, background
<1>7. CASE \/ DebitBuy(t) \/ DebitSell(t) \/ BroadcastPosted(t) \/ CancelFails(t)
           \/ BroadcastCanceled(t) \/ CancelRefund(t)
  BY <1>7 DEF DebitBuy, DebitSell, BroadcastPosted, CancelFails, CancelRefund,
     BroadcastCanceled, exchange, book, background
<1> QED
  BY <1>3, <1>4, <1>5, <1>6, <1>7 DEF ServiceStep

(* Outside MatcherFill and MatcherReap the matchmaker leaves it alone.     *)
LEMMA MatcherBook ==
  ASSUME Matcher
  PROVE  \/ UNCHANGED <<buy_orders, sell_orders, bid, ask, last_price>>
         \/ MatcherFill
         \/ MatcherReap
BY DEF Matcher, MatcherWake, MatcherStop, MatcherStart, MatcherSleep,
   MatcherOuter, MatcherInner, MatcherPay, MatcherDeliver, MatcherRefund,
   MatcherReport, exchange, book

(* exchange_fini leaves the lists and the quotes of the model alone. *)
LEMMA FiniBook ==
  ASSUME Fini \/ UNCHANGED vars
  PROVE  /\ UNCHANGED <<buy_orders, sell_orders, bid, ask, last_price, mpc, match>>
         /\ matcher_mutex' \in {matcher_mutex, matcher_mutex + 1}
BY DEF Fini, FiniFree, FiniWake, FiniJoin, vars, exchange, book, control,
   background

(* What MatcherFill leaves of the two lists. *)
LEMMA FillBook ==
  ASSUME CoreInv, MatcherFill
  PROVE  /\ sell_orders' \in Seq(Order) /\ Sorted(sell_orders')
         /\ Len(sell_orders') = Len(sell_orders)
         /\ DOMAIN sell_orders' = DOMAIN sell_orders
         /\ \A i \in DOMAIN sell_orders :
              sell_orders'[i].price = sell_orders[i].price
         /\ AskOf(sell_orders') = AskOf(sell_orders)
         /\ sell_orders'[match.sell].quant = Seller.quant - match.quantity
         /\ buy_orders' \in Seq(Order) /\ Sorted(buy_orders')
         /\ \A j \in DOMAIN buy_orders' : \E k \in DOMAIN buy_orders :
              buy_orders'[j].price = buy_orders[k].price
         /\ Len(buy_orders') = IF Buyer.quant = match.quantity
                                 THEN Len(buy_orders) - 1 ELSE Len(buy_orders)
         /\ match.sell \in DOMAIN sell_orders
         /\ match.buy = Len(buy_orders) /\ match.buy \in 1..Len(buy_orders)
         /\ match.quantity # Seller.quant => match.quantity = Buyer.quant
         /\ match.quantity \in 0..Seller.quant
<1>1. /\ TypeOK /\ TradeInv /\ buy_orders \in Seq(Order) /\ sell_orders \in Seq(Order)
      /\ Sorted(buy_orders) /\ Sorted(sell_orders)
  BY DEF CoreInv, TypeOK, BookOK, ListsSorted
<1>2. /\ match.sell \in DOMAIN sell_orders /\ match.buy \in DOMAIN buy_orders
      /\ match.buy = Len(buy_orders)
      /\ match.quantity = TradeQuantity(Seller, Buyer)
  BY <1>1 DEF TradeInv, MatcherFill, Step
<1>3. /\ match.quantity \in 0..Seller.quant /\ match.quantity \in 0..Buyer.quant
      /\ match.quantity # Seller.quant => match.quantity = Buyer.quant
  BY <1>1, <1>2, PointersTyped
<1>4. match.buy \in 1..Len(buy_orders)
  BY <1>1, <1>2, LenProperties
<1>5. sell_orders' =
        [sell_orders EXCEPT ![match.sell].quant = @ - match.quantity]
  BY DEF MatcherFill
<1>6. /\ sell_orders' \in Seq(Order) /\ Len(sell_orders') = Len(sell_orders)
      /\ DOMAIN sell_orders' = DOMAIN sell_orders
      /\ \A i \in DOMAIN sell_orders :
           sell_orders'[i].price = sell_orders[i].price
      /\ sell_orders'[match.sell].quant = Seller.quant - match.quantity
  <2>1. match.quantity \in 0..sell_orders[match.sell].quant
    BY <1>3 DEF Seller
  <2> DEFINE i == match.sell
             q == match.quantity
             new == [sell_orders EXCEPT ![i].quant = @ - q]
  <2>2. i \in DOMAIN sell_orders /\ q \in 0..sell_orders[i].quant
    BY <1>2, <2>1
  <2>3. sell_orders' = new /\ Seller = sell_orders[i] /\ i = match.sell
        /\ q = match.quantity
    BY <1>5 DEF Seller
  <2> HIDE DEF i, q
  <2>4. /\ new \in Seq(Order) /\ Len(new) = Len(sell_orders)
        /\ DOMAIN new = DOMAIN sell_orders
        /\ \A j \in DOMAIN sell_orders : new[j].price = sell_orders[j].price
        /\ new[i].quant = sell_orders[i].quant - q
    BY <1>1, <2>2, ShrinkOrder
  <2> HIDE DEF new
  <2> QED
    BY <2>3, <2>4
<1>7. Sorted(sell_orders') /\ AskOf(sell_orders') = AskOf(sell_orders)
  BY <1>1, <1>6, SamePrices
<1>8. CASE Buyer.quant = match.quantity
  <2>1. buy_orders' = list_remove(buy_orders, match.buy)
    BY <1>8 DEF MatcherFill
  <2>2. /\ buy_orders' \in Seq(Order) /\ Sorted(buy_orders')
        /\ Len(buy_orders') = Len(buy_orders) - 1
        /\ \A j \in DOMAIN buy_orders' :
             buy_orders'[j] = IF j < match.buy THEN buy_orders[j]
                                               ELSE buy_orders[j + 1]
    BY <1>1, <1>4, <2>1, ListRemoveSorted
  <2>3. ASSUME NEW j \in DOMAIN buy_orders'
        PROVE  \E k \in DOMAIN buy_orders : buy_orders'[j].price = buy_orders[k].price
    <3>1. /\ j \in 1..Len(buy_orders) - 1 /\ Len(buy_orders) \in Nat
          /\ DOMAIN buy_orders = 1..Len(buy_orders)
      BY <1>1, <2>2, LenProperties
    <3>2. j \in DOMAIN buy_orders /\ j + 1 \in DOMAIN buy_orders
      BY <3>1
    <3> QED
      BY <2>2, <3>2
  <2> QED
    BY <1>2, <1>3, <1>4, <1>6, <1>7, <1>8, <2>2, <2>3
<1>9. CASE Buyer.quant # match.quantity
  <2>1. buy_orders' = [buy_orders EXCEPT ![match.buy].quant = @ - match.quantity]
    BY <1>9 DEF MatcherFill
  <2>2. /\ buy_orders' \in Seq(Order) /\ Len(buy_orders') = Len(buy_orders)
        /\ DOMAIN buy_orders' = DOMAIN buy_orders
        /\ \A i \in DOMAIN buy_orders : buy_orders'[i].price = buy_orders[i].price
    <3>1. match.quantity \in 0..buy_orders[match.buy].quant
      BY <1>3 DEF Buyer
    <3> DEFINE i == match.buy
               q == match.quantity
               new == [buy_orders EXCEPT ![i].quant = @ - q]
    <3>2. i \in DOMAIN buy_orders /\ q \in 0..buy_orders[i].quant
      BY <1>2, <3>1
    <3>3. buy_orders' = new
      BY <2>1
    <3> HIDE DEF i, q
    <3> buy_orders \in Seq(Order)
      BY <1>1
    <3>4. /\ new \in Seq(Order) /\ Len(new) = Len(buy_orders)
          /\ DOMAIN new = DOMAIN buy_orders
          /\ \A j \in DOMAIN buy_orders : new[j].price = buy_orders[j].price
          /\ new[i].quant = buy_orders[i].quant - q
      BY ONLY buy_orders \in Seq(Order), <3>2, ShrinkOrder
    <3> HIDE DEF new
    <3> QED
      BY <3>3, <3>4
  <2>3. Sorted(buy_orders')
    BY <1>1, <2>2, SamePrices
  <2> QED
    BY <1>2, <1>3, <1>4, <1>6, <1>7, <1>9, <2>2, <2>3
<1> QED
  BY <1>8, <1>9

(* What MatcherReap leaves of the sell orders. *)
LEMMA ReapBook ==
  ASSUME CoreInv, MatcherReap
  PROVE  /\ sell_orders' \in Seq(Order) /\ Sorted(sell_orders')
         /\ match.sell \in 1..Len(sell_orders)
         /\ Len(sell_orders') = IF Seller.quant = 0 THEN Len(sell_orders) - 1
                                                    ELSE Len(sell_orders)
         /\ \A i \in DOMAIN sell_orders' : i < match.sell =>
              i \in DOMAIN sell_orders /\ sell_orders'[i] = sell_orders[i]
<1>1. /\ PointersInv /\ sell_orders \in Seq(Order) /\ Sorted(sell_orders)
  BY DEF CoreInv, TypeOK, BookOK, ListsSorted
<1>2. match.sell \in 1..Len(sell_orders)
  BY <1>1, LenProperties DEF PointersInv, MatcherReap
<1>3. CASE Seller.quant = 0
  <2>1. sell_orders' = list_remove(sell_orders, match.sell)
    BY <1>3 DEF MatcherReap
  <2>2. /\ sell_orders' \in Seq(Order) /\ Sorted(sell_orders')
        /\ Len(sell_orders') = Len(sell_orders) - 1
        /\ \A j \in DOMAIN sell_orders' :
             sell_orders'[j] = IF j < match.sell THEN sell_orders[j]
                                                 ELSE sell_orders[j + 1]
    BY <1>1, <1>2, <2>1, ListRemoveSorted
  <2>3. /\ DOMAIN sell_orders' = 1..Len(sell_orders) - 1
        /\ DOMAIN sell_orders = 1..Len(sell_orders) /\ Len(sell_orders) \in Nat
    BY <1>1, <2>2, LenProperties
  <2>4. DOMAIN sell_orders' \subseteq DOMAIN sell_orders
    BY <2>3
  <2> QED
    BY <1>2, <1>3, <2>2, <2>4
<1>4. CASE Seller.quant # 0
  BY <1>1, <1>2, <1>4 DEF MatcherReap
<1> QED
  BY <1>3, <1>4

(* What CancelFinds leaves: orders of the old lists, in order. *)
LEMMA CancelBook ==
  ASSUME CoreInv, NEW t \in Traders, CancelFinds(t)
  PROVE  /\ buy_orders' \in Seq(Order) /\ Sorted(buy_orders')
         /\ sell_orders' \in Seq(Order) /\ Sorted(sell_orders')
         /\ \A j \in DOMAIN buy_orders' : \E k \in DOMAIN buy_orders :
              buy_orders'[j] = buy_orders[k]
         /\ \A j \in DOMAIN sell_orders' : \E k \in DOMAIN sell_orders :
              sell_orders'[j] = sell_orders[k]
         /\ bid' = BidOf(buy_orders') /\ ask' = AskOf(sell_orders')
         /\ matcher_mutex' = matcher_mutex
<1>1. /\ buy_orders \in Seq(Order) /\ Sorted(buy_orders)
      /\ sell_orders \in Seq(Order) /\ Sorted(sell_orders)
  BY DEF CoreInv, TypeOK, BookOK, ListsSorted
<1>2. ASSUME NEW list \in Seq(Order), Sorted(list), NEW i \in DOMAIN list
      PROVE  /\ list_remove(list, i) \in Seq(Order) /\ Sorted(list_remove(list, i))
             /\ \A j \in DOMAIN list_remove(list, i) :
                  \E k \in DOMAIN list : list_remove(list, i)[j] = list[k]
  <2>1. i \in 1..Len(list) /\ DOMAIN list = 1..Len(list) /\ Len(list) \in Nat
    BY LenProperties
  <2> DEFINE new == list_remove(list, i)
  <2>2. /\ new \in Seq(Order) /\ Sorted(new) /\ Len(new) = Len(list) - 1
        /\ \A j \in DOMAIN new : new[j] = IF j < i THEN list[j] ELSE list[j + 1]
    BY <1>2, <2>1, ListRemoveSorted, Zenon
  <2> HIDE DEF new
  <2>3. ASSUME NEW j \in DOMAIN new
        PROVE  \E k \in DOMAIN list : new[j] = list[k]
    <3>1. j \in 1..Len(list) - 1
      BY <2>2, LenProperties
    <3>2. j \in DOMAIN list /\ j + 1 \in DOMAIN list
      BY <2>1, <3>1
    <3> QED
      BY <2>2, <3>2
  <2> QED
    BY <2>2, <2>3 DEF new
<1>3. \/ /\ \E i \in DOMAIN buy_orders : buy_orders' = list_remove(buy_orders, i)
         /\ sell_orders' = sell_orders
      \/ /\ \E i \in DOMAIN sell_orders : sell_orders' = list_remove(sell_orders, i)
         /\ buy_orders' = buy_orders
  BY DEF CancelFinds, Places
<1>4. bid' = BidOf(buy_orders') /\ ask' = AskOf(sell_orders')
      /\ matcher_mutex' = matcher_mutex
  BY DEF CancelFinds, Requote
<1> QED
  BY <1>1, <1>2, <1>3, <1>4
-----------------------------------------------------------------------------
(* Both lists stay in order of price. *)
LEMMA ListsSortedNext ==
  ASSUME CoreInv, [Next]_vars
  PROVE  ListsSorted'
<1>0. /\ TypeOK /\ MutualExclusion /\ BookOK /\ ThreadsOK
      /\ Sorted(buy_orders) /\ Sorted(sell_orders)
  BY DEF CoreInv, TypeOK, ListsSorted
<1>1. ASSUME NEW t \in Traders, Insert(t)
      PROVE  ListsSorted'
  <2> DEFINE order == [id |-> orderid, trader |-> t,
                       quant |-> call[t].quant, price |-> call[t].price]
  <2>1. order \in Order
    BY <1>0 DEF BookOK, ThreadsOK, Order, Call
  <2>2. /\ Sorted(list_insert(buy_orders, order))
        /\ Sorted(list_insert(sell_orders, order))
    BY <1>0, <2>1, ListInsertSorted DEF BookOK
  <2> QED
    BY <1>0, <1>1, <2>2 DEF Insert, ListsSorted
<1>2. ASSUME NEW t \in Traders, Service(t) \/ ServiceStep(t)
      PROVE  ListsSorted'
  BY <1>0, <1>1, <1>2, ServiceBook, CancelBook DEF ListsSorted
<1>3. CASE Matcher
  <2>1. CASE MatcherFill
    BY <2>1, FillBook DEF ListsSorted
  <2>2. CASE MatcherReap
    <3>1. buy_orders' = buy_orders
      BY <2>2 DEF MatcherReap
    <3> QED
      BY <1>0, <2>2, <3>1, ReapBook DEF ListsSorted
  <2> QED
    BY <1>0, <1>3, <2>1, <2>2, MatcherBook DEF ListsSorted
<1>4. CASE Fini \/ UNCHANGED vars
  BY <1>0, <1>4, FiniBook DEF ListsSorted
<1> QED
  BY <1>2, <1>3, <1>4 DEF Next, Exited

(* The bid and the ask follow the ends of the lists. *)
LEMMA QuotesFollowNext ==
  ASSUME CoreInv, [Next]_vars
  PROVE  QuotesFollow'
<1>0. /\ TypeOK /\ MutualExclusion /\ BookOK /\ ThreadsOK /\ QuotesFollow
      /\ Sorted(buy_orders) /\ Sorted(sell_orders)
  BY DEF CoreInv, TypeOK, ListsSorted
<1>1. ASSUME NEW t \in Traders, Insert(t)
      PROVE  QuotesFollow'
  <2> DEFINE order == [id |-> orderid, trader |-> t,
                       quant |-> call[t].quant, price |-> call[t].price]
  <2>1. order \in Order
    BY <1>0 DEF BookOK, ThreadsOK, Order, Call
  <2>2. /\ BidOf(list_insert(buy_orders, order)) =
             IF bid < order.price THEN order.price ELSE bid
        /\ AskOf(list_insert(sell_orders, order)) =
             IF ask > order.price THEN order.price ELSE ask
    BY <1>0, <2>1, QuoteAfterInsert DEF BookOK, QuotesFollow
  <2> QED
    BY <1>0, <1>1, <2>2 DEF Insert, QuotesFollow
<1>2. ASSUME NEW t \in Traders, Service(t) \/ ServiceStep(t)
      PROVE  QuotesFollow'
  BY <1>0, <1>1, <1>2, ServiceBook, CancelBook DEF QuotesFollow
<1>3. CASE Matcher
  <2>1. CASE MatcherFill
    BY <1>0, <2>1, FillBook DEF MatcherFill, QuotesFollow
  <2>2. CASE MatcherReap
    BY <1>0, <2>2 DEF MatcherReap, QuotesFollow
  <2> QED
    BY <1>0, <1>3, <2>1, <2>2, MatcherBook DEF QuotesFollow
<1>4. CASE Fini \/ UNCHANGED vars
  BY <1>0, <1>4, FiniBook DEF QuotesFollow
<1> QED
  BY <1>2, <1>3, <1>4 DEF Next, Exited

(* The trade in hand stays the one computed for the orders pointed at. *)
LEMMA TradeInvNext ==
  ASSUME CoreInv, [Next]_vars
  PROVE  TradeInv'
<1>0. TypeOK /\ MutualExclusion /\ BookOK /\ TradeInv /\ PointersInv
  BY DEF CoreInv, TypeOK
<1>1. {"pay", "deliver", "refund", "report", "fill"} \subseteq MatcherCritical
  BY DEF MatcherCritical, MatcherTrading
<1>2. ASSUME UNCHANGED <<buy_orders, sell_orders, last_price, mpc, match>>
      PROVE  TradeInv'
  BY <1>0, <1>2 DEF TradeInv, Seller, Buyer
<1>3. ASSUME NEW t \in Traders, Service(t) \/ ServiceStep(t)
      PROVE  TradeInv'
  <2>1. CASE mpc \in MatcherCritical
    BY <1>0, <1>2, <1>3, <2>1, ServiceBook
  <2>2. CASE mpc \notin MatcherCritical
    BY <1>0, <1>1, <1>3, <2>2, ServiceBook DEF TradeInv
  <2> QED
    BY <2>1, <2>2
<1>4. CASE MatcherInner
  <2>1. CASE match.buy # 0 /\ Matches(Seller, Buyer)
    <3>1. match.sell \in DOMAIN sell_orders /\ match.buy = Len(buy_orders)
      BY <1>0, <1>4 DEF PointersInv, MatcherInner
    <3>2. match.buy \in DOMAIN buy_orders
      BY <1>0, <2>1, <3>1, LenProperties DEF BookOK
    <3>3. /\ match' = [match EXCEPT
                         !.price = TradePrice(Seller, Buyer, last_price),
                         !.quantity = TradeQuantity(Seller, Buyer)]
          /\ UNCHANGED <<buy_orders, sell_orders, last_price>>
      BY <1>4, <2>1 DEF MatcherInner, exchange, book
    <3>4. /\ match'.sell = match.sell /\ match'.buy = match.buy
          /\ match'.price = TradePrice(Seller, Buyer, last_price)
          /\ match'.quantity = TradeQuantity(Seller, Buyer)
      BY <1>0, <3>3 DEF TypeOK, ThreadsOK, Match
    <3>5. Seller' = Seller /\ Buyer' = Buyer
      BY <3>3, <3>4 DEF Seller, Buyer
    <3> QED
      BY <2>1, <3>1, <3>2, <3>3, <3>4, <3>5 DEF TradeInv
  <2>2. CASE ~ (match.buy # 0 /\ Matches(Seller, Buyer))
    BY <1>4, <2>2 DEF MatcherInner, TradeInv
  <2> QED
    BY <2>1, <2>2
<1>5. CASE MatcherPay \/ MatcherDeliver \/ MatcherRefund \/ MatcherReport
  BY <1>0, <1>5 DEF MatcherPay, MatcherDeliver, MatcherRefund, MatcherReport,
     Step, exchange, book, TradeInv, Seller, Buyer
<1>6. CASE \/ MatcherWake \/ MatcherStop \/ MatcherStart \/ MatcherSleep
           \/ MatcherOuter \/ MatcherFill \/ MatcherReap
  BY <1>6 DEF MatcherWake, MatcherStop, MatcherStart, MatcherSleep,
     MatcherOuter, MatcherFill, MatcherReap, Step, TradeInv
<1>7. CASE Fini \/ UNCHANGED vars
  BY <1>2, <1>7, FiniBook
<1> QED
  BY <1>3, <1>4, <1>5, <1>6, <1>7 DEF Next, Matcher, Exited

(* match_order's pointers stay within the lists. *)
LEMMA PointersInvNext ==
  ASSUME CoreInv, [Next]_vars
  PROVE  PointersInv'
<1>0. TypeOK /\ MutualExclusion /\ BookOK /\ PointersInv
  BY DEF CoreInv, TypeOK
<1>1. /\ DOMAIN sell_orders = 1..Len(sell_orders) /\ Len(sell_orders) \in Nat
      /\ Len(buy_orders) \in Nat /\ match \in Match
  BY <1>0, LenProperties DEF BookOK, TypeOK, ThreadsOK
<1>2. ASSUME UNCHANGED <<buy_orders, sell_orders, mpc, match>>
      PROVE  PointersInv'
  BY <1>0, <1>2 DEF PointersInv, Seller
<1>3. ASSUME NEW t \in Traders, Service(t) \/ ServiceStep(t)
      PROVE  PointersInv'
  <2>1. CASE mpc \in MatcherCritical
    BY <1>0, <1>2, <1>3, <2>1, ServiceBook
  <2>2. CASE mpc \notin MatcherCritical
    BY <1>0, <1>3, <2>2, ServiceBook DEF PointersInv, MatcherCritical,
       MatcherTrading
  <2> QED
    BY <2>1, <2>2
<1>4. CASE MatcherStart
  BY <1>1, <1>4 DEF MatcherStart, Step, NoMatch, PointersInv, book
<1>5. CASE MatcherOuter
  BY <1>0, <1>1, <1>5 DEF MatcherOuter, Step, PointersInv, Match, exchange, book
<1>6. CASE MatcherInner
  BY <1>0, <1>1, <1>6 DEF MatcherInner, PointersInv, NoMatch, Match, exchange,
     book
<1>7. CASE MatcherFill
  <2>1. mpc' = "reap" /\ match'.sell = match.sell /\ match'.buy = match.buy - 1
    BY <1>1, <1>7 DEF MatcherFill, Step, Match
  <2>2. match'.sell \in DOMAIN sell_orders'
    BY <1>7, <2>1, FillBook
  <2>3. match'.buy \in 0..Len(buy_orders')
    BY <1>1, <1>7, <2>1, FillBook
  <2>4. ASSUME Seller'.quant # 0
        PROVE  match'.buy = Len(buy_orders')
    <3>1. match.quantity # Seller.quant
      BY <1>7, <2>1, <2>4, FillBook DEF Seller
    <3> QED
      BY <1>7, <2>1, <3>1, FillBook
  <2> QED
    BY <2>1, <2>2, <2>3, <2>4 DEF PointersInv
<1>8. CASE MatcherReap
  <2>1. buy_orders' = buy_orders /\ mpc = "reap"
    BY <1>8 DEF MatcherReap
  <2>2. CASE Seller.quant = 0
    <3>1. mpc' = "outer" /\ match'.sell = match.sell
      BY <1>1, <1>8, <2>2 DEF MatcherReap, NoMatch, Match
    <3>2. match'.sell \in 1..Len(sell_orders') + 1
      BY <1>1, <1>8, <2>2, <3>1, ReapBook
    <3> QED
      BY <3>1, <3>2 DEF PointersInv
  <2>3. CASE Seller.quant # 0
    <3>1. mpc' = "inner" /\ match' = match /\ sell_orders' = sell_orders
      BY <1>8, <2>3 DEF MatcherReap
    <3> QED
      BY <1>0, <2>1, <2>3, <3>1 DEF PointersInv
  <2> QED
    BY <2>2, <2>3
<1>9. CASE \/ MatcherWake \/ MatcherStop \/ MatcherSleep \/ MatcherPay
           \/ MatcherDeliver \/ MatcherRefund \/ MatcherReport
  BY <1>9 DEF MatcherWake, MatcherStop, MatcherSleep, MatcherPay,
     MatcherDeliver, MatcherRefund, MatcherReport, Step, PointersInv
<1>10. CASE Fini \/ UNCHANGED vars
  BY <1>2, <1>10, FiniBook
<1> QED
  BY <1>3, <1>4, <1>5, <1>6, <1>7, <1>8, <1>9, <1>10 DEF Next, Matcher, Exited

(* The sell orders already passed still match nothing. *)
LEMMA PassedInvNext ==
  ASSUME CoreInv, [Next]_vars
  PROVE  PassedInv'
<1>0. /\ TypeOK /\ MutualExclusion /\ BookOK /\ PassedInv /\ PointersInv
      /\ Sorted(buy_orders) /\ match \in Match
  BY DEF CoreInv, TypeOK, ThreadsOK, ListsSorted
<1>1. /\ DOMAIN sell_orders = 1..Len(sell_orders) /\ Len(sell_orders) \in Nat
      /\ DOMAIN buy_orders = 1..Len(buy_orders) /\ Len(buy_orders) \in Nat
      /\ \A i \in DOMAIN sell_orders : sell_orders[i].price \in Int
      /\ \A j \in DOMAIN buy_orders : buy_orders[j].price \in Int
  <2>1. /\ \A i \in DOMAIN sell_orders : sell_orders[i] \in Order
        /\ \A j \in DOMAIN buy_orders : buy_orders[j] \in Order
    BY <1>0, LenProperties DEF BookOK
  <2>2. \A order \in Order : order.price \in Int
    BY WordType DEF Order
  <2> QED
    BY <1>0, <2>1, <2>2, LenProperties DEF BookOK
<1>2. ASSUME UNCHANGED <<buy_orders, sell_orders, match>>,
             mpc' \in MatcherTrading => mpc \in MatcherTrading
      PROVE  PassedInv'
  BY <1>0, <1>2 DEF PassedInv, Matches
<1>3. ASSUME NEW t \in Traders, Service(t) \/ ServiceStep(t)
      PROVE  PassedInv'
  <2>1. CASE mpc \in MatcherCritical
    BY <1>0, <1>2, <1>3, <2>1, ServiceBook
  <2>2. CASE mpc \notin MatcherCritical
    BY <1>0, <1>3, <2>2, ServiceBook DEF PassedInv, MatcherCritical
  <2> QED
    BY <2>1, <2>2
<1>4. CASE MatcherStart
  <2>1. match'.sell = 1 /\ sell_orders' = sell_orders
    BY <1>4 DEF MatcherStart, NoMatch, book
  <2> QED
    BY <1>1, <2>1 DEF PassedInv
<1>5. CASE MatcherOuter
  <2>1. match'.sell = match.sell /\ UNCHANGED <<buy_orders, sell_orders>>
        /\ mpc = "outer"
    BY <1>0, <1>5 DEF MatcherOuter, Step, Match, exchange, book
  <2> QED
    BY <1>0, <2>1 DEF PassedInv, MatcherTrading, Matches
<1>6. CASE MatcherInner
  <2>0. UNCHANGED <<buy_orders, sell_orders>> /\ mpc \in MatcherTrading
    BY <1>6 DEF MatcherInner, MatcherTrading, exchange, book
  <2>1. CASE match.buy # 0 /\ Matches(Seller, Buyer)
    <3>1. match'.sell = match.sell
      BY <1>0, <1>6, <2>1 DEF MatcherInner, Match
    <3> QED
      BY <1>0, <2>0, <3>1 DEF PassedInv, Matches
  <2>2. CASE ~ (match.buy # 0 /\ Matches(Seller, Buyer))
    <3>1. match'.sell = match.sell + 1 /\ match.buy = Len(buy_orders)
          /\ match.sell \in 1..Len(sell_orders)
      BY <1>0, <1>1, <1>6, <2>2 DEF MatcherInner, NoMatch, PointersInv
    <3>2. ASSUME NEW j \in DOMAIN buy_orders
          PROVE  ~ Matches(sell_orders[match.sell], buy_orders[j])
      <4>1. /\ match.buy # 0 /\ match.buy \in DOMAIN buy_orders
            /\ j <= match.buy
        BY <1>1, <3>1
      <4>2. ~ (sell_orders[match.sell].price <= buy_orders[match.buy].price)
        BY <2>2, <4>1 DEF Matches, Seller, Buyer
      <4>3. buy_orders[j].price <= buy_orders[match.buy].price
        BY <1>0, <4>1 DEF Sorted
      <4> QED
        BY <1>1, <3>1, <4>1, <4>2, <4>3 DEF Matches
    <3>3. ASSUME NEW i \in DOMAIN sell_orders, i < match'.sell,
                 NEW j \in DOMAIN buy_orders
          PROVE  ~ Matches(sell_orders[i], buy_orders[j])
      <4>1. i = match.sell \/ i < match.sell
        BY <1>1, <3>1, <3>3
      <4> QED
        BY <1>0, <2>0, <3>2, <4>1 DEF PassedInv
    <3> QED
      BY <2>0, <3>3 DEF PassedInv, Matches
  <2> QED
    BY <2>1, <2>2
<1>7. CASE MatcherFill
  <2>1. match'.sell = match.sell /\ mpc \in MatcherTrading
    BY <1>0, <1>7 DEF MatcherFill, Step, Match, MatcherTrading
  <2>2. ASSUME NEW i \in DOMAIN sell_orders', i < match'.sell,
               NEW j \in DOMAIN buy_orders'
        PROVE  ~ Matches(sell_orders'[i], buy_orders'[j])
    <3>1. /\ i \in DOMAIN sell_orders
          /\ sell_orders'[i].price = sell_orders[i].price
      BY <1>7, FillBook
    <3>2. PICK k \in DOMAIN buy_orders : buy_orders'[j].price = buy_orders[k].price
      BY <1>7, FillBook
    <3>3. ~ Matches(sell_orders[i], buy_orders[k])
      BY <1>0, <2>1, <2>2, <3>1 DEF PassedInv
    <3> QED
      BY <3>1, <3>2, <3>3 DEF Matches
  <2> QED
    BY <2>2 DEF PassedInv, Matches
<1>8. CASE MatcherReap
  <2>1. match'.sell = match.sell /\ mpc \in MatcherTrading
        /\ buy_orders' = buy_orders
    BY <1>0, <1>8 DEF MatcherReap, NoMatch, Match, MatcherTrading
  <2>2. \A i \in DOMAIN sell_orders' : i < match.sell =>
          i \in DOMAIN sell_orders /\ sell_orders'[i] = sell_orders[i]
    BY <1>8, ReapBook
  <2> QED
    BY <1>0, <2>1, <2>2 DEF PassedInv, Matches
<1>9. CASE MatcherPay \/ MatcherDeliver \/ MatcherRefund \/ MatcherReport
  BY <1>2, <1>9 DEF MatcherPay, MatcherDeliver, MatcherRefund, MatcherReport,
     Step, MatcherTrading, exchange, book
<1>10. CASE MatcherWake \/ MatcherStop \/ MatcherSleep
  BY <1>10 DEF MatcherWake, MatcherStop, MatcherSleep, Step, PassedInv,
     MatcherTrading
<1>11. CASE Fini \/ UNCHANGED vars
  BY <1>2, <1>11, FiniBook
<1> QED
  BY <1>3, <1>4, <1>5, <1>6, <1>7, <1>8, <1>9, <1>10, <1>11
     DEF Next, Matcher, Exited

(* A matchmaker that waits has a wake-up for any match there is. *)
LEMMA WakeInvNext ==
  ASSUME CoreInv, [Next]_vars
  PROVE  WakeInv'
<1>0. /\ TypeOK /\ MutualExclusion /\ BookOK /\ PassedInv /\ WakeInv
      /\ matcher_mutex \in Nat /\ match \in Match
  BY DEF CoreInv, TypeOK, SemaphoresOK, ThreadsOK
<1>1. ASSUME UNCHANGED <<buy_orders, sell_orders>>, mpc' = mpc,
             matcher_mutex' \in {matcher_mutex, matcher_mutex + 1}
      PROVE  WakeInv'
  BY <1>0, <1>1 DEF WakeInv, Crossed, Matches
<1>2. ASSUME NEW t \in Traders, Insert(t)
      PROVE  WakeInv'
  BY <1>0, <1>2 DEF Insert, WakeInv
<1>3. ASSUME NEW t \in Traders, CancelFinds(t), mpc' = mpc
      PROVE  WakeInv'
  <2>1. Crossed' => Crossed
    BY <1>3, CancelBook DEF Crossed, Matches
  <2>2. matcher_mutex' = matcher_mutex
    BY <1>3, CancelBook
  <2> QED
    BY <1>0, <1>3, <2>1, <2>2 DEF WakeInv
<1>4. ASSUME NEW t \in Traders, Service(t) \/ ServiceStep(t)
      PROVE  WakeInv'
  BY <1>0, <1>1, <1>2, <1>3, <1>4, ServiceBook
<1>5. CASE MatcherSleep
  <2>1. /\ mpc \in MatcherTrading /\ match.sell > Len(sell_orders)
        /\ UNCHANGED <<buy_orders, sell_orders>>
    BY <1>5 DEF MatcherSleep, Step, MatcherTrading, book
  <2>2. \A i \in DOMAIN sell_orders : i < match.sell
    BY <1>0, <2>1, LenProperties DEF BookOK, Match
  <2>3. ~ Crossed
    BY <1>0, <2>1, <2>2 DEF PassedInv, Crossed
  <2>4. ~ Crossed'
    BY <2>1, <2>3 DEF Crossed, Matches
  <2> QED
    BY <2>4 DEF WakeInv
<1>6. CASE \/ MatcherWake \/ MatcherStop \/ MatcherStart \/ MatcherOuter
           \/ MatcherInner \/ MatcherPay \/ MatcherDeliver \/ MatcherRefund
           \/ MatcherReport \/ MatcherFill \/ MatcherReap
  BY <1>6 DEF MatcherWake, MatcherStop, MatcherStart, MatcherOuter,
     MatcherInner, MatcherPay, MatcherDeliver, MatcherRefund, MatcherReport,
     MatcherFill, MatcherReap, Step, WakeInv
<1>7. CASE Fini \/ UNCHANGED vars
  BY <1>1, <1>7, FiniBook
<1> QED
  BY <1>4, <1>5, <1>6, <1>7 DEF Next, Matcher, Exited
-----------------------------------------------------------------------------
(* The exchange exchange_init makes satisfies the invariant. *)
LEMMA InitInv == Init => CoreInv
<1> SUFFICES ASSUME Init PROVE CoreInv
  OBVIOUS
<1>1. UINT32_MAX \in Nat /\ 0 \in 0..UINT32_MAX /\ UINT32_MAX \in 0..UINT32_MAX
  BY WordType
<1>2. << >> \in Seq(Order) /\ DOMAIN << >> = {} /\ Len(<< >>) = 0
  OBVIOUS
<1>3. NoCall \in Call /\ NoMatch \in Match
  BY <1>1 DEF NoCall, Call, Ops, NoMatch, Match
<1>4. TypeOK
  BY <1>1, <1>2, <1>3 DEF Init, TypeOK, SemaphoresOK, BookOK, AccountsOK,
     ThreadsOK, HistoryOK, ServicePoints, MatcherPoints, FiniPoints
<1>5. MutualExclusion /\ NoUseAfterFree
  BY DEF Init, MutualExclusion, NoUseAfterFree, MatcherCritical,
     MatcherTrading, ServiceCritical
<1>6. ListsSorted /\ QuotesFollow
  BY <1>2 DEF Init, ListsSorted, Sorted, QuotesFollow, BidOf, AskOf
<1>7. TradeInv /\ PointersInv /\ PassedInv
  BY DEF Init, TradeInv, PointersInv, PassedInv, MatcherTrading
<1>8. WakeInv
  BY <1>2 DEF Init, WakeInv, Crossed
<1> QED
  BY <1>4, <1>5, <1>6, <1>7, <1>8 DEF CoreInv

(* The invariant is inductive. *)
THEOREM CoreInvariance == Spec => []CoreInv
<1>1. CoreInv /\ [Next]_vars => CoreInv'
  BY TypeNext, MutualExclusionNext, NoUseAfterFreeNext, ListsSortedNext,
     QuotesFollowNext, TradeInvNext, PointersInvNext, PassedInvNext, WakeInvNext
     DEF CoreInv
<1> QED
  BY InitInv, <1>1, PTL DEF Spec

(* Every variable of the exchange, the accounts and the threads keeps its  *)
(* type: `mutex' never exceeds one, match_order's pointers stay valid.     *)
THEOREM TypeCorrect == Spec => []TypeOK
<1>1. CoreInv => TypeOK
  BY DEF CoreInv
<1> QED
  BY CoreInvariance, <1>1, PTL

(* The critical sections of exchange_post_buy, exchange_post_sell,         *)
(* exchange_cancel and the matchmaker exclude each other.                  *)
THEOREM Exclusion == Spec => []MutualExclusion
<1>1. CoreInv => MutualExclusion
  BY DEF CoreInv
<1> QED
  BY CoreInvariance, <1>1, PTL

(* match_order is never entered on the orders exchange_fini has freed.     *)
THEOREM FreedBookUntouched == Spec => []NoUseAfterFree
<1>1. CoreInv => NoUseAfterFree
  BY DEF CoreInv
<1> QED
  BY CoreInvariance, <1>1, PTL

(* Posting an order never loses the wake-up of the matchmaker.             *)
THEOREM MatchesNoticed == Spec => []NoLostMatch
<1>1. CoreInv => NoLostMatch
  BY DEF CoreInv, TypeOK, ThreadsOK, MutualExclusion, WakeInv, NoLostMatch,
     MatcherPoints
<1> QED
  BY CoreInvariance, <1>1, PTL

(* A trade is between the first sell order and the last buy order that     *)
(* match, hence between the best of each.                                  *)
LEMMA BestPrices ==
  ASSUME CoreInv
  PROVE  TradesAtBestPrices
<1> SUFFICES ASSUME mpc = "pay"
             PROVE  LET overlap == Seller.price..Buyer.price
                        Distance(p) == IF p < last_price THEN last_price - p
                                                         ELSE p - last_price
                    IN  /\ \A i \in DOMAIN sell_orders :
                             Seller.price <= sell_orders[i].price
                        /\ \A i \in DOMAIN buy_orders :
                             buy_orders[i].price <= Buyer.price
                        /\ match.price \in overlap
                        /\ \A p \in overlap :
                             Distance(match.price) <= Distance(p)
  BY DEF TradesAtBestPrices
<1>1. /\ TypeOK /\ TradeInv /\ PassedInv /\ BookOK
      /\ Sorted(buy_orders) /\ Sorted(sell_orders)
  BY DEF CoreInv, ListsSorted, TypeOK
<1>2. /\ match.sell \in DOMAIN sell_orders /\ match.buy \in DOMAIN buy_orders
      /\ match.buy = Len(buy_orders) /\ Seller.price <= Buyer.price
      /\ match.price = TradePrice(Seller, Buyer, last_price)
  BY <1>1 DEF TradeInv, Matches
<1>3. /\ Seller.price \in Int /\ Buyer.price \in Int /\ last_price \in Int
  BY <1>1, <1>2, PointersTyped, WordType DEF Order, BookOK
<1>4. /\ DOMAIN sell_orders = 1..Len(sell_orders) /\ Len(sell_orders) \in Nat
      /\ DOMAIN buy_orders = 1..Len(buy_orders) /\ Len(buy_orders) \in Nat
  BY <1>1, LenProperties DEF BookOK
<1>5. ASSUME NEW i \in DOMAIN sell_orders
      PROVE  Seller.price <= sell_orders[i].price
  <2>1. CASE i < match.sell
    <3>1. ~ (sell_orders[i].price <= buy_orders[match.buy].price)
      BY <1>1, <1>2, <2>1 DEF PassedInv, Matches, MatcherTrading
    <3>2. sell_orders[i].price <= sell_orders[match.sell].price
      BY <1>1, <1>2, <1>4, <2>1 DEF Sorted
    <3>3. sell_orders[i] \in Order
      BY <1>1, <1>4, LenProperties DEF BookOK
    <3>4. sell_orders[i].price \in Int
      BY <3>3, WordType DEF Order
    <3> QED
      BY <1>2, <1>3, <3>1, <3>2, <3>4 DEF Seller, Buyer
  <2>2. CASE match.sell <= i
    BY <1>1, <1>2, <2>2 DEF Sorted, Seller
  <2>3. i < match.sell \/ match.sell <= i
    BY <1>2, <1>4
  <2> QED
    BY <2>1, <2>2, <2>3
<1>6. ASSUME NEW i \in DOMAIN buy_orders
      PROVE  buy_orders[i].price <= Buyer.price
  BY <1>1, <1>2, <1>4 DEF Sorted, Buyer
<1> HIDE DEF Seller, Buyer
<1>7. match.price = IF last_price < Seller.price THEN Seller.price
                    ELSE IF Buyer.price < last_price THEN Buyer.price
                    ELSE last_price
  BY <1>2, <1>3 DEF TradePrice
<1> QED
  BY <1>2, <1>3, <1>5, <1>6, <1>7

(* Price priority: match_order trades the cheapest sell order with the     *)
(* dearest buy order, at the price of their overlap nearest the last one.  *)
THEOREM PricePriority == Spec => []TradesAtBestPrices
<1>1. CoreInv => TradesAtBestPrices
  BY BestPrices
<1> QED
  BY CoreInvariance, <1>1, PTL

(* The quotes clients are shown between critical sections are the best     *)
(* prices of the pending orders.                                           *)
THEOREM QuotesBest == Spec => []QuotesAreExtremes
<1>1. CoreInv => QuotesAreExtremes
  <2> SUFFICES ASSUME CoreInv
               PROVE  /\ bid = Max({buy_orders[i].price : i \in DOMAIN buy_orders}
                                     \cup {0})
                      /\ ask = Min({sell_orders[i].price : i \in DOMAIN sell_orders}
                                     \cup {UINT32_MAX})
    BY DEF QuotesAreExtremes
  <2> DEFINE bids == {buy_orders[i].price : i \in DOMAIN buy_orders} \cup {0}
             asks == {sell_orders[i].price : i \in DOMAIN sell_orders}
                       \cup {UINT32_MAX}
  <2>1. /\ BookOK /\ Sorted(buy_orders) /\ Sorted(sell_orders)
        /\ bid = BidOf(buy_orders) /\ ask = AskOf(sell_orders)
        /\ UINT32_MAX \in Nat
    BY WordType DEF CoreInv, TypeOK, ListsSorted, QuotesFollow
  <2>2. /\ DOMAIN sell_orders = 1..Len(sell_orders) /\ Len(sell_orders) \in Nat
        /\ DOMAIN buy_orders = 1..Len(buy_orders) /\ Len(buy_orders) \in Nat
        /\ \A i \in DOMAIN sell_orders : sell_orders[i].price \in 0..UINT32_MAX
        /\ \A i \in DOMAIN buy_orders : buy_orders[i].price \in 0..UINT32_MAX
    <3>1. /\ \A i \in DOMAIN sell_orders : sell_orders[i] \in Order
          /\ \A i \in DOMAIN buy_orders : buy_orders[i] \in Order
      BY <2>1, LenProperties DEF BookOK
    <3> QED
      BY <2>1, <3>1, LenProperties DEF BookOK, Order
  <2>3. bid \in bids /\ \A p \in bids : p <= bid
    <3>1. CASE buy_orders = << >>
      BY <2>1, <2>2, <3>1 DEF BidOf
    <3>2. CASE buy_orders # << >>
      <4>1. Len(buy_orders) \in DOMAIN buy_orders
        BY <2>1, <2>2, <3>2, EmptySeq DEF BookOK
      <4>2. \A i \in DOMAIN buy_orders :
              buy_orders[i].price <= buy_orders[Len(buy_orders)].price
        BY <2>1, <2>2, <4>1 DEF Sorted
      <4>3. bid = buy_orders[Len(buy_orders)].price
        BY <2>1, <3>2 DEF BidOf
      <4> QED
        BY <2>2, <4>1, <4>2, <4>3
    <3> QED
      BY <3>1, <3>2
  <2>4. ask \in asks /\ \A p \in asks : ask <= p
    <3>1. CASE sell_orders = << >>
      BY <2>1, <2>2, <3>1 DEF AskOf
    <3>2. CASE sell_orders # << >>
      <4>1. 1 \in DOMAIN sell_orders
        BY <2>1, <2>2, <3>2, EmptySeq DEF BookOK
      <4>2. \A i \in DOMAIN sell_orders : sell_orders[1].price <= sell_orders[i].price
        BY <2>1, <2>2, <4>1 DEF Sorted
      <4>3. ask = sell_orders[1].price
        BY <2>1, <3>2 DEF AskOf
      <4> QED
        BY <2>1, <2>2, <4>1, <4>2, <4>3
    <3> QED
      BY <3>1, <3>2
  <2>5. bids \subseteq Int /\ asks \subseteq Int
    BY <2>1, <2>2
  <2> HIDE DEF bids, asks
  <2>6. ASSUME NEW x \in bids, \A p \in bids : p <= x
        PROVE  x = bid
    BY <2>3, <2>5, <2>6
  <2>7. ASSUME NEW x \in asks, \A p \in asks : x <= p
        PROVE  x = ask
    BY <2>4, <2>5, <2>7
  <2>8. Max(bids) = bid
    BY <2>3, <2>6 DEF Max
  <2>9. Min(asks) = ask
    BY <2>4, <2>7 DEF Min
  <2> QED
    BY <2>8, <2>9 DEF bids, asks
<1> QED
  BY CoreInvariance, <1>1, PTL
-----------------------------------------------------------------------------
(* The books: references are counted, the packets tell the pending orders, *)
(* and no money or units appear or vanish.                                 *)

(* What list_insert adds. *)
LEMMA ListInserted ==
  ASSUME NEW list \in Seq(Order), Sorted(list), NEW node \in Order
  PROVE  LET new == list_insert(list, node)
         IN  /\ new \in Seq(Order)
             /\ Range(new) = Range(list) \cup {node}
             /\ IdsOf(new) = IdsOf(list) \cup {node.id}
             /\ Distinct(list) /\ node.id \notin IdsOf(list) => Distinct(new)
             /\ \A t \in Traders :
                  /\ Total(Costs(new, t)) = Total(Costs(list, t)) + Cost(node, t)
                  /\ Total(AllUnits(new, t)) =
                       Total(AllUnits(list, t)) + Units(node, t)
                  /\ Cardinality(Owned(new, t)) =
                       Cardinality(Owned(list, t))
                         + IF node.trader = t THEN 1 ELSE 0
<1> DEFINE new == list_insert(list, node)
<1>1. PICK p \in 1..Len(list) + 1 : new = InsertAt(list, p, node)
  BY ListInsertPlace
<1> HIDE DEF new
<1>2. /\ new \in Seq(Order) /\ Len(new) = Len(list) + 1
      /\ \A j \in 1..Len(list) + 1 :
           new[j] = IF j < p THEN list[j] ELSE IF j = p THEN node ELSE list[j - 1]
  BY ONLY <1>1, list \in Seq(Order), p \in 1..Len(list) + 1, node \in Order,
     InsertAtElements, SMTT(40)
<1>3. Len(list) \in Nat /\ p \in 1..Len(new) /\ Len(list) = Len(new) - 1
  BY <1>2, LenProperties
<1>4. /\ new[p] = node
      /\ \A j \in 1..Len(list) : list[j] = IF j < p THEN new[j] ELSE new[j + 1]
  <2>1. new[p] = node
    BY <1>2
  <2>2. ASSUME NEW j \in 1..Len(list)
        PROVE  list[j] = IF j < p THEN new[j] ELSE new[j + 1]
    <3>1. /\ j \in 1..Len(list) + 1 /\ j + 1 \in 1..Len(list) + 1
          /\ (j + 1) - 1 = j /\ (~ (j < p) => ~ (j + 1 < p) /\ j + 1 # p)
      BY <1>3
    <3>2. CASE j < p
      BY <1>2, <3>1, <3>2
    <3>3. CASE ~ (j < p)
      BY <1>2, <3>1, <3>3
    <3> QED
      BY <3>2, <3>3
  <2> QED
    BY <2>1, <2>2
<1>5. /\ Range(new) = Range(list) \cup {node}
      /\ IdsOf(new) = IdsOf(list) \cup {node.id}
      /\ Distinct(new) <=> Distinct(list) /\ node.id \notin IdsOf(list)
  <2>1. /\ Range(new) = Range(list) \cup {new[p]}
        /\ IdsOf(new) = IdsOf(list) \cup {new[p].id}
        /\ Distinct(new) <=> Distinct(list) /\ new[p].id \notin IdsOf(list)
    BY ONLY <1>2, <1>3, <1>4, list \in Seq(Order), OrdersOneMore
  <2> QED
    BY <1>4, <2>1
<1>6. ASSUME NEW t \in Traders
      PROVE  /\ Total(Costs(new, t)) = Total(Costs(list, t)) + Cost(node, t)
             /\ Total(AllUnits(new, t)) = Total(AllUnits(list, t)) + Units(node, t)
             /\ Cardinality(Owned(new, t)) =
                  Cardinality(Owned(list, t)) + IF node.trader = t THEN 1 ELSE 0
  <2>1. /\ Total(Costs(new, t)) = Total(Costs(list, t)) + Cost(new[p], t)
        /\ Total(AllUnits(new, t)) = Total(AllUnits(list, t)) + Units(new[p], t)
        /\ Cardinality(Owned(new, t)) =
             Cardinality(Owned(list, t)) + IF new[p].trader = t THEN 1 ELSE 0
    BY ONLY <1>2, <1>3, <1>4, list \in Seq(Order), t \in Traders, TotalsOneMore
  <2> QED
    BY <1>4, <2>1
<1> QED
  BY <1>2, <1>5, <1>6 DEF new

(* What list_remove takes away. *)
LEMMA ListRemoved ==
  ASSUME NEW list \in Seq(Order), Sorted(list), Distinct(list),
         NEW p \in DOMAIN list
  PROVE  LET new == list_remove(list, p)
         IN  /\ new \in Seq(Order)
             /\ Range(new) = Range(list) \ {list[p]}
             /\ IdsOf(new) = IdsOf(list) \ {list[p].id}
             /\ Distinct(new)
             /\ \A t \in Traders :
                  /\ Total(Costs(list, t)) =
                       Total(Costs(new, t)) + Cost(list[p], t)
                  /\ Total(AllUnits(list, t)) =
                       Total(AllUnits(new, t)) + Units(list[p], t)
                  /\ Cardinality(Owned(list, t)) =
                       Cardinality(Owned(new, t))
                         + IF list[p].trader = t THEN 1 ELSE 0
<1> DEFINE new == list_remove(list, p)
<1>1. p \in 1..Len(list) /\ Len(list) \in Nat
  BY LenProperties
<1>2. /\ new \in Seq(Order) /\ Len(new) = Len(list) - 1
      /\ \A j \in DOMAIN new : new[j] = IF j < p THEN list[j] ELSE list[j + 1]
  BY <1>1, ListRemoveSorted, Zenon
<1> HIDE DEF new
<1>3. \A j \in 1..Len(new) : new[j] = IF j < p THEN list[j] ELSE list[j + 1]
  BY <1>2, LenProperties
<1>4. /\ Range(list) = Range(new) \cup {list[p]}
      /\ IdsOf(list) = IdsOf(new) \cup {list[p].id}
      /\ Distinct(new) /\ list[p].id \notin IdsOf(new)
  BY <1>1, <1>2, <1>3, OrdersOneMore
<1>5. list[p] \notin Range(new)
  BY <1>4 DEF Range, IdsOf
<1>6. ASSUME NEW t \in Traders
      PROVE  /\ Total(Costs(list, t)) = Total(Costs(new, t)) + Cost(list[p], t)
             /\ Total(AllUnits(list, t)) =
                  Total(AllUnits(new, t)) + Units(list[p], t)
             /\ Cardinality(Owned(list, t)) =
                  Cardinality(Owned(new, t))
                    + IF list[p].trader = t THEN 1 ELSE 0
  BY <1>1, <1>2, <1>3, TotalsOneMore
<1>7. /\ Range(new) = Range(list) \ {list[p]}
      /\ IdsOf(new) = IdsOf(list) \ {list[p].id}
  BY <1>4, <1>5
<1> QED
  BY <1>2, <1>4, <1>6, <1>7 DEF new

(* `new' is `list' with a quantity taken off the order at i, now `order'. *)
Shrunk(new, list, i, quantity, order) ==
  /\ new = [list EXCEPT ![i].quant = @ - quantity]
  /\ order = [list[i] EXCEPT !.quant = @ - quantity]

(* What taking a traded quantity off an order takes off the totals. *)
LEMMA ListShrunk ==
  ASSUME NEW list \in Seq(Order), Distinct(list), NEW i \in DOMAIN list,
         NEW quantity \in 0..list[i].quant,
         NEW new, NEW order, Shrunk(new, list, i, quantity, order)
  PROVE  /\ new \in Seq(Order) /\ DOMAIN new = DOMAIN list
         /\ new[i] = order /\ order \in Order
         /\ Range(new) = (Range(list) \ {list[i]}) \cup {order}
         /\ IdsOf(new) = IdsOf(list)
         /\ Distinct(new)
         /\ \A t \in Traders :
              /\ Total(Costs(new, t)) = Total(Costs(list, t))
                   - (IF t = list[i].trader
                        THEN quantity * list[i].price ELSE 0)
              /\ Total(AllUnits(new, t)) = Total(AllUnits(list, t))
                   - (IF t = list[i].trader THEN quantity ELSE 0)
              /\ Owned(new, t) = Owned(list, t)
<1>0. DOMAIN list = 1..Len(list) /\ i \in 1..Len(list) /\ list[i] \in Order
  BY LenProperties
<1>1. new \in Seq(Order) /\ Len(new) = Len(list) /\ DOMAIN new = DOMAIN list
  <2> DEFINE shrunk == [list EXCEPT ![i].quant = @ - quantity]
  <2>1. /\ shrunk \in Seq(Order)
        /\ Len(shrunk) = Len(list) /\ DOMAIN shrunk = DOMAIN list
        /\ \A j \in DOMAIN list : shrunk[j].price = list[j].price
        /\ shrunk[i].quant = list[i].quant - quantity
    BY ONLY list \in Seq(Order), i \in DOMAIN list,
            quantity \in 0..list[i].quant, ShrinkOrder, Zenon
  <2> QED
    BY <2>1 DEF Shrunk
<1>2. new[i] = order /\ \A j \in 1..Len(list) : j # i => new[j] = list[j]
  BY <1>0 DEF Shrunk
<1>3. order \in Order
  BY <1>0, <1>1, <1>2, LenProperties
<1>4. /\ order.id = list[i].id /\ order.trader = list[i].trader
      /\ order.price = list[i].price /\ order.quant = list[i].quant - quantity
  BY <1>0 DEF Order, Shrunk
<1>5. /\ Range(new) = (Range(list) \ {list[i]}) \cup {order}
      /\ IdsOf(new) = IdsOf(list) /\ Distinct(new)
  BY <1>0, <1>1, <1>2, <1>4, OrdersChanged
<1>6. ASSUME NEW t \in Traders
      PROVE  /\ Total(Costs(new, t)) = Total(Costs(list, t))
                  - (IF t = list[i].trader THEN quantity * list[i].price ELSE 0)
             /\ Total(AllUnits(new, t)) = Total(AllUnits(list, t))
                  - (IF t = list[i].trader THEN quantity ELSE 0)
             /\ Owned(new, t) = Owned(list, t)
  <2>1. /\ Total(Costs(new, t)) =
             Total(Costs(list, t)) - Cost(list[i], t) + Cost(order, t)
        /\ Total(AllUnits(new, t)) =
             Total(AllUnits(list, t)) - Units(list[i], t) + Units(order, t)
        /\ Owned(new, t) = Owned(list, t)
    BY <1>0, <1>1, <1>2, <1>4, TotalsChanged
  <2>2. /\ Total(Costs(list, t)) \in Int /\ Total(AllUnits(list, t)) \in Int
    BY TotalsTyped
  <2>3. /\ quantity \in Int /\ list[i].quant \in Int /\ list[i].price \in Int
    BY <1>0, WordType DEF Order
  <2> DEFINE q == list[i].quant
             c == list[i].price
  <2>4. q \in Int /\ c \in Int
    BY <2>3
  <2> HIDE DEF q, c
  <2>5. CASE t = list[i].trader
    <3>1. /\ Cost(list[i], t) = q * c /\ Units(list[i], t) = q
          /\ Cost(order, t) = (q - quantity) * c
          /\ Units(order, t) = q - quantity
      BY <1>4, <2>5 DEF Cost, Units, q, c
    <3>2. (q - quantity) * c = q * c - quantity * c
      BY <2>3, <2>4
    <3>3. q * c \in Int /\ quantity * c \in Int
      BY <2>3, <2>4
    <3>4. /\ Total(Costs(new, t)) = Total(Costs(list, t)) - quantity * c
          /\ Total(AllUnits(new, t)) = Total(AllUnits(list, t)) - quantity
      BY ONLY <2>1, <2>2, <2>3, <2>4, <3>1, <3>2, <3>3
    <3> QED
      BY <2>1, <2>5, <3>4 DEF c
  <2>6. CASE t # list[i].trader
    <3>1. /\ Cost(list[i], t) = 0 /\ Units(list[i], t) = 0
          /\ Cost(order, t) = 0 /\ Units(order, t) = 0
      BY <1>4, <2>6 DEF Cost, Units
    <3> QED
      BY <2>1, <2>2, <2>6, <3>1
  <2> QED
    BY <2>5, <2>6
<1> QED
  BY <1>1, <1>2, <1>3, <1>5, <1>6
-----------------------------------------------------------------------------
(* The books before a step of the invariant. *)
BooksInv == CoreInv /\ CallInv /\ IdsInv

(* A trader's orders, of both kinds. *)
Held(t) ==
  Cardinality(Owned(buy_orders, t)) + Cardinality(Owned(sell_orders, t))

LEMMA BooksTyped ==
  ASSUME CoreInv
  PROVE  /\ buy_orders \in Seq(Order) /\ Sorted(buy_orders)
         /\ sell_orders \in Seq(Order) /\ Sorted(sell_orders)
         /\ orderid \in Nat \ {0} /\ Pending \subseteq Nat
         /\ \A t \in Traders :
              /\ EncumberedFunds(t) \in Int /\ EncumberedUnits(t) \in Int
              /\ Cardinality(Owned(buy_orders, t)) \in Nat
              /\ Cardinality(Owned(sell_orders, t)) \in Nat
<1>1. /\ buy_orders \in Seq(Order) /\ Sorted(buy_orders)
      /\ sell_orders \in Seq(Order) /\ Sorted(sell_orders)
      /\ orderid \in Nat \ {0}
  BY DEF CoreInv, TypeOK, BookOK, ListsSorted
<1>2. /\ \A i \in DOMAIN buy_orders : buy_orders[i].id \in Nat
      /\ \A i \in DOMAIN sell_orders : sell_orders[i].id \in Nat
  <2>1. /\ \A i \in DOMAIN buy_orders : buy_orders[i] \in Order
        /\ \A i \in DOMAIN sell_orders : sell_orders[i] \in Order
    BY <1>1, LenProperties
  <2> QED
    BY <2>1 DEF Order
<1>3. Pending \subseteq Nat
  BY <1>2 DEF Pending, IdsOf
<1> QED
  BY <1>1, <1>3, TotalsTyped, OwnedTotal DEF EncumberedFunds, EncumberedUnits

(* No order is in both lists. *)
LEMMA RangesDisjoint ==
  ASSUME IdsInv
  PROVE  Range(buy_orders) \cap Range(sell_orders) = {}
<1> SUFFICES ASSUME NEW order \in Range(buy_orders),
                    order \in Range(sell_orders)
             PROVE  FALSE
  OBVIOUS
<1>1. PICK i \in DOMAIN buy_orders : order = buy_orders[i]
  BY DEF Range
<1>2. PICK j \in DOMAIN sell_orders : order = sell_orders[j]
  BY DEF Range
<1>3. order.id \in IdsOf(buy_orders) /\ order.id \in IdsOf(sell_orders)
  BY <1>1, <1>2 DEF IdsOf
<1> QED
  BY <1>3 DEF IdsInv

(* The order a post inserts. *)
NewOrder(t) == [id |-> orderid, trader |-> t,
                quant |-> call[t].quant, price |-> call[t].price]

(* What exchange_post_buy and exchange_post_sell do to the books. *)
LEMMA InsertEffect ==
  ASSUME BooksInv, NEW t \in Traders, Insert(t)
  PROVE  /\ NewOrder(t) \in Order
         /\ Book' = Book \cup {NewOrder(t)}
         /\ orderid \notin Pending /\ IdsInv'
         /\ \A u \in Traders :
              /\ EncumberedFunds(u)' = EncumberedFunds(u)
                   + (IF call[t].op = "buy" THEN Cost(NewOrder(t), u) ELSE 0)
              /\ EncumberedUnits(u)' = EncumberedUnits(u)
                   + (IF call[t].op = "buy" THEN 0 ELSE Units(NewOrder(t), u))
              /\ Held(u)' = Held(u) + IF t = u THEN 1 ELSE 0
<1> DEFINE order == NewOrder(t)
<1>0. /\ buy_orders \in Seq(Order) /\ Sorted(buy_orders)
      /\ sell_orders \in Seq(Order) /\ Sorted(sell_orders)
      /\ orderid \in Nat \ {0} /\ IdsInv /\ Pending \subseteq Nat
      /\ \A u \in Traders : /\ EncumberedFunds(u) \in Int
                            /\ EncumberedUnits(u) \in Int
                            /\ Cardinality(Owned(buy_orders, u)) \in Nat
                            /\ Cardinality(Owned(sell_orders, u)) \in Nat
  BY BooksTyped DEF BooksInv
<1>1. order \in Order /\ order.id = orderid /\ order.trader = t
  BY <1>0 DEF BooksInv, CoreInv, TypeOK, ThreadsOK, Call, NewOrder, Order
<1>2. orderid \notin Pending
  BY <1>0 DEF IdsInv
<1>3. orderid' = orderid + 1
  BY DEF Insert
<1> HIDE DEF order
<1>4. CASE call[t].op = "buy"
  <2>1. buy_orders' = list_insert(buy_orders, order) /\ sell_orders' = sell_orders
    BY <1>4 DEF Insert, order, NewOrder
  <2>2. /\ Range(buy_orders') = Range(buy_orders) \cup {order}
        /\ IdsOf(buy_orders') = IdsOf(buy_orders) \cup {orderid}
        /\ Distinct(buy_orders')
        /\ \A u \in Traders :
             /\ Total(Costs(buy_orders', u)) =
                  Total(Costs(buy_orders, u)) + Cost(order, u)
             /\ Cardinality(Owned(buy_orders', u)) =
                  Cardinality(Owned(buy_orders, u)) + IF t = u THEN 1 ELSE 0
    <3>1. Distinct(buy_orders) /\ order.id \notin IdsOf(buy_orders)
      BY <1>0, <1>1, <1>2 DEF IdsInv, Pending
    <3> QED
      BY <1>0, <1>1, <2>1, <3>1, ListInserted
  <2>3. Book' = Book \cup {order}
    BY <2>1, <2>2 DEF Book
  <2>4. IdsInv'
    <3>1. Pending' = Pending \cup {orderid}
      BY <2>1, <2>2 DEF Pending
    <3>2. \A id \in Pending' : id < orderid'
      BY <1>0, <1>3, <3>1 DEF IdsInv
    <3>3. IdsOf(buy_orders') \cap IdsOf(sell_orders') = {}
      BY <1>0, <1>2, <2>1, <2>2 DEF IdsInv, Pending
    <3> QED
      BY <1>0, <2>1, <2>2, <3>2, <3>3 DEF IdsInv
  <2>5. ASSUME NEW u \in Traders
        PROVE  /\ EncumberedFunds(u)' = EncumberedFunds(u) + Cost(order, u)
               /\ EncumberedUnits(u)' = EncumberedUnits(u) + 0
               /\ Held(u)' = Held(u) + IF t = u THEN 1 ELSE 0
    <3>1. EncumberedUnits(u)' = EncumberedUnits(u)
      BY <2>1 DEF EncumberedUnits
    <3>2. EncumberedFunds(u)' = EncumberedFunds(u) + Cost(order, u)
      BY <2>2 DEF EncumberedFunds
    <3>3. Held(u)' = Held(u) + IF t = u THEN 1 ELSE 0
      BY <1>0, <2>1, <2>2 DEF Held
    <3> QED
      BY <1>0, <3>1, <3>2, <3>3
  <2> QED
    BY <1>1, <1>2, <1>4, <2>3, <2>4, <2>5 DEF order
<1>5. CASE call[t].op # "buy"
  <2>1. sell_orders' = list_insert(sell_orders, order) /\ buy_orders' = buy_orders
    BY <1>5 DEF Insert, order, NewOrder
  <2>2. /\ Range(sell_orders') = Range(sell_orders) \cup {order}
        /\ IdsOf(sell_orders') = IdsOf(sell_orders) \cup {orderid}
        /\ Distinct(sell_orders')
        /\ \A u \in Traders :
             /\ Total(AllUnits(sell_orders', u)) =
                  Total(AllUnits(sell_orders, u)) + Units(order, u)
             /\ Cardinality(Owned(sell_orders', u)) =
                  Cardinality(Owned(sell_orders, u)) + IF t = u THEN 1 ELSE 0
    <3>1. Distinct(sell_orders) /\ order.id \notin IdsOf(sell_orders)
      BY <1>0, <1>1, <1>2 DEF IdsInv, Pending
    <3> QED
      BY <1>0, <1>1, <2>1, <3>1, ListInserted
  <2>3. Book' = Book \cup {order}
    BY <2>1, <2>2 DEF Book
  <2>4. IdsInv'
    <3>1. Pending' = Pending \cup {orderid}
      BY <2>1, <2>2 DEF Pending
    <3>2. \A id \in Pending' : id < orderid'
      BY <1>0, <1>3, <3>1 DEF IdsInv
    <3>3. IdsOf(buy_orders') \cap IdsOf(sell_orders') = {}
      BY <1>0, <1>2, <2>1, <2>2 DEF IdsInv, Pending
    <3> QED
      BY <1>0, <2>1, <2>2, <3>2, <3>3 DEF IdsInv
  <2>5. ASSUME NEW u \in Traders
        PROVE  /\ EncumberedFunds(u)' = EncumberedFunds(u) + 0
               /\ EncumberedUnits(u)' = EncumberedUnits(u) + Units(order, u)
               /\ Held(u)' = Held(u) + IF t = u THEN 1 ELSE 0
    <3>1. EncumberedFunds(u)' = EncumberedFunds(u)
      BY <2>1 DEF EncumberedFunds
    <3>2. EncumberedUnits(u)' = EncumberedUnits(u) + Units(order, u)
      BY <2>2 DEF EncumberedUnits
    <3>3. Held(u)' = Held(u) + IF t = u THEN 1 ELSE 0
      BY <1>0, <2>1, <2>2 DEF Held
    <3> QED
      BY <1>0, <3>1, <3>2, <3>3
  <2> QED
    BY <1>1, <1>2, <1>5, <2>3, <2>4, <2>5 DEF order
<1> QED
  BY <1>4, <1>5

(* What exchange_cancel does to the books when it finds the order. *)
LEMMA CancelEffect ==
  ASSUME BooksInv, NEW t \in Traders, CancelFinds(t)
  PROVE  \E order \in Book :
           /\ order \in Order /\ order.trader = t /\ order.id = call[t].id
           /\ Book' = Book \ {order}
           /\ IdsInv'
           /\ \E op \in {"cancel_buy", "cancel_sell"} :
                /\ call' = [call EXCEPT ![t] =
                              [op |-> op, id |-> call[t].id,
                               quant |-> order.quant, price |-> order.price]]
                /\ \A u \in Traders :
                     /\ EncumberedFunds(u) = EncumberedFunds(u)'
                          + (IF op = "cancel_buy" THEN Cost(order, u) ELSE 0)
                     /\ EncumberedUnits(u) = EncumberedUnits(u)'
                          + (IF op = "cancel_sell" THEN Units(order, u) ELSE 0)
                     /\ EncumberedFunds(u)' \in Int
                     /\ EncumberedUnits(u)' \in Int
           /\ \A u \in Traders :
                Held(u)' \in Nat /\ Held(u) = Held(u)' + IF t = u THEN 1 ELSE 0
<1>0. /\ buy_orders \in Seq(Order) /\ Sorted(buy_orders)
      /\ sell_orders \in Seq(Order) /\ Sorted(sell_orders)
      /\ orderid \in Nat \ {0} /\ IdsInv /\ orderid' = orderid
      /\ \A u \in Traders : /\ EncumberedFunds(u) \in Int
                            /\ EncumberedUnits(u) \in Int
                            /\ Cardinality(Owned(buy_orders, u)) \in Nat
                            /\ Cardinality(Owned(sell_orders, u)) \in Nat
  BY BooksTyped DEF BooksInv, CancelFinds
<1>1. CASE \E i \in Places(buy_orders, call[t].id, t) :
             /\ call' = [call EXCEPT ![t] =
                           [op |-> "cancel_buy", id |-> call[t].id,
                            quant |-> buy_orders[i].quant,
                            price |-> buy_orders[i].price]]
             /\ buy_orders' = list_remove(buy_orders, i)
             /\ UNCHANGED sell_orders
  <2>1. PICK i \in DOMAIN buy_orders :
          /\ buy_orders[i].id = call[t].id /\ buy_orders[i].trader = t
          /\ call' = [call EXCEPT ![t] =
                        [op |-> "cancel_buy", id |-> call[t].id,
                         quant |-> buy_orders[i].quant,
                         price |-> buy_orders[i].price]]
          /\ buy_orders' = list_remove(buy_orders, i)
          /\ sell_orders' = sell_orders
    BY <1>1 DEF Places
  <2> DEFINE order == buy_orders[i]
  <2>2. order \in Order /\ order \in Book
    BY <1>0, LenProperties DEF Book, Range
  <2>3. Distinct(buy_orders)
    BY <1>0 DEF IdsInv
  <2>4. /\ buy_orders' \in Seq(Order)
        /\ Range(buy_orders') = Range(buy_orders) \ {order}
        /\ IdsOf(buy_orders') = IdsOf(buy_orders) \ {order.id}
        /\ Distinct(buy_orders')
        /\ \A u \in Traders :
             /\ Total(Costs(buy_orders, u)) =
                  Total(Costs(buy_orders', u)) + Cost(order, u)
             /\ Cardinality(Owned(buy_orders, u)) =
                  Cardinality(Owned(buy_orders', u)) + IF t = u THEN 1 ELSE 0
    BY <1>0, <2>1, <2>3, ListRemoved
  <2>5. /\ order.id = call[t].id /\ order.trader = t
        /\ call' = [call EXCEPT ![t] =
                      [op |-> "cancel_buy", id |-> call[t].id,
                       quant |-> order.quant, price |-> order.price]]
    BY <2>1
  <2>6. order \notin Range(sell_orders)
    BY <1>0, <2>1 DEF IdsInv, IdsOf, Range
  <2> HIDE DEF order
  <2>7. Book' = Book \ {order}
    BY <2>1, <2>4, <2>6 DEF Book
  <2>8. IdsInv'
    BY <1>0, <2>1, <2>4 DEF IdsInv, Pending
  <2>9. ASSUME NEW u \in Traders
        PROVE  /\ EncumberedFunds(u) = EncumberedFunds(u)' + Cost(order, u)
               /\ EncumberedUnits(u) = EncumberedUnits(u)' + 0
               /\ EncumberedFunds(u)' \in Int /\ EncumberedUnits(u)' \in Int
               /\ Held(u)' \in Nat
               /\ Held(u) = Held(u)' + IF t = u THEN 1 ELSE 0
    <3>1. EncumberedFunds(u) = EncumberedFunds(u)' + Cost(order, u)
      BY <2>4 DEF EncumberedFunds
    <3>2. EncumberedUnits(u)' = EncumberedUnits(u)
      BY <2>1 DEF EncumberedUnits
    <3>3. EncumberedFunds(u)' \in Int
      BY <2>4, TotalsTyped DEF EncumberedFunds
    <3>4. /\ Cardinality(Owned(buy_orders', u)) \in Nat
          /\ Cardinality(Owned(sell_orders, u)) \in Nat
      BY <1>0, <2>4, OwnedTotal
    <3>5. /\ Held(u)' \in Nat
          /\ Held(u) = Held(u)' + IF t = u THEN 1 ELSE 0
      BY <2>1, <2>4, <3>4 DEF Held
    <3> QED
      BY <1>0, <3>1, <3>2, <3>3, <3>5
  <2> QED
    BY <2>2, <2>5, <2>7, <2>8, <2>9
<1>2. CASE \E i \in Places(sell_orders, call[t].id, t) :
             /\ call' = [call EXCEPT ![t] =
                           [op |-> "cancel_sell", id |-> call[t].id,
                            quant |-> sell_orders[i].quant,
                            price |-> sell_orders[i].price]]
             /\ sell_orders' = list_remove(sell_orders, i)
             /\ UNCHANGED buy_orders
  <2>1. PICK i \in DOMAIN sell_orders :
          /\ sell_orders[i].id = call[t].id /\ sell_orders[i].trader = t
          /\ call' = [call EXCEPT ![t] =
                        [op |-> "cancel_sell", id |-> call[t].id,
                         quant |-> sell_orders[i].quant,
                         price |-> sell_orders[i].price]]
          /\ sell_orders' = list_remove(sell_orders, i)
          /\ buy_orders' = buy_orders
    BY <1>2 DEF Places
  <2> DEFINE order == sell_orders[i]
  <2>2. order \in Order /\ order \in Book
    BY <1>0, LenProperties DEF Book, Range
  <2>3. Distinct(sell_orders)
    BY <1>0 DEF IdsInv
  <2>4. /\ sell_orders' \in Seq(Order)
        /\ Range(sell_orders') = Range(sell_orders) \ {order}
        /\ IdsOf(sell_orders') = IdsOf(sell_orders) \ {order.id}
        /\ Distinct(sell_orders')
        /\ \A u \in Traders :
             /\ Total(AllUnits(sell_orders, u)) =
                  Total(AllUnits(sell_orders', u)) + Units(order, u)
             /\ Cardinality(Owned(sell_orders, u)) =
                  Cardinality(Owned(sell_orders', u)) + IF t = u THEN 1 ELSE 0
    BY <1>0, <2>1, <2>3, ListRemoved
  <2>5. /\ order.id = call[t].id /\ order.trader = t
        /\ call' = [call EXCEPT ![t] =
                      [op |-> "cancel_sell", id |-> call[t].id,
                       quant |-> order.quant, price |-> order.price]]
    BY <2>1
  <2>6. order \notin Range(buy_orders)
    BY <1>0, <2>1 DEF IdsInv, IdsOf, Range
  <2> HIDE DEF order
  <2>7. Book' = Book \ {order}
    BY <2>1, <2>4, <2>6 DEF Book
  <2>8. IdsInv'
    BY <1>0, <2>1, <2>4 DEF IdsInv, Pending
  <2>9. ASSUME NEW u \in Traders
        PROVE  /\ EncumberedFunds(u) = EncumberedFunds(u)' + 0
               /\ EncumberedUnits(u) = EncumberedUnits(u)' + Units(order, u)
               /\ EncumberedFunds(u)' \in Int /\ EncumberedUnits(u)' \in Int
               /\ Held(u)' \in Nat
               /\ Held(u) = Held(u)' + IF t = u THEN 1 ELSE 0
    <3>1. EncumberedUnits(u) = EncumberedUnits(u)' + Units(order, u)
      BY <2>4 DEF EncumberedUnits
    <3>2. EncumberedFunds(u)' = EncumberedFunds(u)
      BY <2>1 DEF EncumberedFunds
    <3>3. EncumberedUnits(u)' \in Int
      BY <2>4, TotalsTyped DEF EncumberedUnits
    <3>4. /\ Cardinality(Owned(sell_orders', u)) \in Nat
          /\ Cardinality(Owned(buy_orders, u)) \in Nat
      BY <1>0, <2>4, OwnedTotal
    <3>5. /\ Held(u)' \in Nat
          /\ Held(u) = Held(u)' + IF t = u THEN 1 ELSE 0
      BY <2>1, <2>4, <3>4 DEF Held
    <3> QED
      BY <1>0, <3>1, <3>2, <3>3, <3>5
  <2> QED
    BY <2>2, <2>5, <2>7, <2>8, <2>9
<1> QED
  BY <1>1, <1>2 DEF CancelFinds

(* The two orders of a trade, before and after it. *)
LEMMA TradeOrders ==
  ASSUME BooksInv, mpc \in {"pay", "deliver", "refund", "report", "fill"}
  PROVE  /\ match.sell \in DOMAIN sell_orders /\ match.buy \in DOMAIN buy_orders
         /\ Seller \in Order /\ Buyer \in Order
         /\ Seller \in Range(sell_orders) /\ Buyer \in Range(buy_orders)
         /\ Seller.id # Buyer.id
         /\ match.quantity \in 0..Seller.quant
         /\ match.quantity \in 0..Buyer.quant
         /\ match.quantity \in Nat
         /\ match.price \in Seller.price..Buyer.price
<1>1. /\ TypeOK /\ TradeInv /\ IdsInv /\ BookOK
  BY DEF BooksInv, CoreInv, TypeOK
<1>2. /\ match.sell \in DOMAIN sell_orders /\ match.buy \in DOMAIN buy_orders
      /\ match.quantity = TradeQuantity(Seller, Buyer)
      /\ match.price = TradePrice(Seller, Buyer, last_price)
      /\ Seller.price <= Buyer.price
  BY <1>1 DEF TradeInv, Matches
<1>3. /\ Seller \in Order /\ Buyer \in Order
      /\ match.quantity \in 0..Seller.quant /\ match.quantity \in 0..Buyer.quant
  BY <1>1, <1>2, PointersTyped
<1>4. /\ Seller \in Range(sell_orders) /\ Buyer \in Range(buy_orders)
  BY <1>2 DEF Seller, Buyer, Range
<1>5. Seller.id \in IdsOf(sell_orders) /\ Buyer.id \in IdsOf(buy_orders)
  BY <1>2 DEF Seller, Buyer, IdsOf
<1>6. Seller.id # Buyer.id
  BY <1>1, <1>5 DEF IdsInv
<1> HIDE DEF Seller, Buyer
<1>7. match.quantity \in Nat
  BY <1>3, WordType DEF Order
<1>8. Seller.price \in Int /\ Buyer.price \in Int /\ last_price \in Int
  BY <1>1, <1>3, WordType DEF Order, BookOK
<1>9. match.price \in Seller.price..Buyer.price
  BY <1>2, <1>8 DEF TradePrice
<1> QED
  BY <1>2, <1>3, <1>4, <1>6, <1>7, <1>9

Filled == Buyer.quant = match.quantity

(* What a trade does to the books once it is filled. *)
LEMMA FillEffect ==
  ASSUME BooksInv, MatcherFill
  PROVE  /\ Seller' = Reduced(Seller)
         /\ Range(sell_orders') =
              (Range(sell_orders) \ {Seller}) \cup {Reduced(Seller)}
         /\ Range(buy_orders') = (Range(buy_orders) \ {Buyer})
                                   \cup (IF Filled THEN {} ELSE {Reduced(Buyer)})
         /\ Book' = (Book \ {Seller, Buyer}) \cup {Reduced(Seller)}
                      \cup (IF Filled THEN {} ELSE {Reduced(Buyer)})
         /\ IdsInv'
         /\ \A u \in Traders :
              /\ EncumberedFunds(u)' = EncumberedFunds(u)
                   - (IF u = Buyer.trader
                        THEN match.quantity * Buyer.price ELSE 0)
              /\ EncumberedUnits(u)' = EncumberedUnits(u)
                   - (IF u = Seller.trader THEN match.quantity ELSE 0)
              /\ Held(u) = Held(u)'
                   + (IF Filled /\ u = Buyer.trader THEN 1 ELSE 0)
              /\ Held(u)' \in Nat
<1>0. /\ buy_orders \in Seq(Order) /\ Sorted(buy_orders)
      /\ sell_orders \in Seq(Order) /\ Sorted(sell_orders)
      /\ orderid \in Nat \ {0} /\ IdsInv /\ Pending \subseteq Nat
      /\ orderid' = orderid /\ Distinct(buy_orders) /\ Distinct(sell_orders)
      /\ \A u \in Traders : /\ EncumberedFunds(u) \in Int
                            /\ EncumberedUnits(u) \in Int
                            /\ Cardinality(Owned(buy_orders, u)) \in Nat
                            /\ Cardinality(Owned(sell_orders, u)) \in Nat
  BY BooksTyped DEF BooksInv, MatcherFill, IdsInv
<1>1. /\ match.sell \in DOMAIN sell_orders /\ match.buy \in DOMAIN buy_orders
      /\ Seller \in Order /\ Buyer \in Order
      /\ Seller \in Range(sell_orders) /\ Buyer \in Range(buy_orders)
      /\ match.quantity \in 0..Seller.quant
      /\ match.quantity \in 0..Buyer.quant /\ match.quantity \in Nat
  BY TradeOrders DEF MatcherFill, Step
<1> DEFINE i == match.sell
           j == match.buy
           q == match.quantity
<1>2. /\ Seller = sell_orders[i] /\ Buyer = buy_orders[j]
      /\ match'.sell = i
      /\ Seller' = sell_orders'[match'.sell]
      /\ sell_orders' = [sell_orders EXCEPT ![i].quant = @ - q]
      /\ IF Buyer.quant = q
           THEN buy_orders' = list_remove(buy_orders, j)
           ELSE buy_orders' = [buy_orders EXCEPT ![j].quant = @ - q]
      /\ Reduced(Seller) = [Seller EXCEPT !.quant = @ - q]
      /\ Reduced(Buyer) = [Buyer EXCEPT !.quant = @ - q]
  BY DEF Seller, Buyer, MatcherFill, Reduced, BooksInv, CoreInv, TypeOK,
     ThreadsOK, Match
<1>3. i \in DOMAIN sell_orders /\ j \in DOMAIN buy_orders
      /\ q \in 0..sell_orders[i].quant /\ q \in 0..buy_orders[j].quant
      /\ q \in Nat
  BY <1>1, <1>2
<1> HIDE DEF i, j, q, Seller, Buyer, Reduced
<1>4. /\ sell_orders' \in Seq(Order) /\ sell_orders'[i] = Reduced(Seller)
      /\ Range(sell_orders') =
           (Range(sell_orders) \ {Seller}) \cup {Reduced(Seller)}
      /\ IdsOf(sell_orders') = IdsOf(sell_orders) /\ Distinct(sell_orders')
      /\ \A t \in Traders :
           /\ Total(AllUnits(sell_orders', t)) =
                Total(AllUnits(sell_orders, t))
                  - (IF t = Seller.trader THEN q ELSE 0)
           /\ Owned(sell_orders', t) = Owned(sell_orders, t)
  <2>1. /\ sell_orders \in Seq(Order) /\ Distinct(sell_orders)
        /\ i \in DOMAIN sell_orders /\ q \in 0..sell_orders[i].quant
        /\ Shrunk(sell_orders', sell_orders, i, q, Reduced(Seller))
        /\ Seller = sell_orders[i]
    BY <1>0, <1>2, <1>3 DEF Shrunk
  <2> QED
    BY ONLY <2>1, ListShrunk
<1>5. ASSUME Filled
      PROVE  /\ buy_orders' \in Seq(Order)
             /\ Range(buy_orders') = Range(buy_orders) \ {Buyer}
             /\ IdsOf(buy_orders') \subseteq IdsOf(buy_orders)
             /\ Distinct(buy_orders')
             /\ \A t \in Traders :
                  /\ Total(Costs(buy_orders, t)) =
                       Total(Costs(buy_orders', t)) + Cost(Buyer, t)
                  /\ Cardinality(Owned(buy_orders, t)) =
                       Cardinality(Owned(buy_orders', t))
                         + IF Buyer.trader = t THEN 1 ELSE 0
  <2>1. buy_orders' = list_remove(buy_orders, j)
    BY <1>2, <1>5 DEF Filled, q
  <2> QED
    BY <1>0, <1>2, <1>3, <2>1, ListRemoved
<1>6. ASSUME ~ Filled
      PROVE  /\ buy_orders' \in Seq(Order)
             /\ Range(buy_orders') =
                  (Range(buy_orders) \ {Buyer}) \cup {Reduced(Buyer)}
             /\ IdsOf(buy_orders') \subseteq IdsOf(buy_orders)
             /\ Distinct(buy_orders')
             /\ \A t \in Traders :
                  /\ Total(Costs(buy_orders', t)) = Total(Costs(buy_orders, t))
                       - (IF t = Buyer.trader THEN q * Buyer.price ELSE 0)
                  /\ Owned(buy_orders', t) = Owned(buy_orders, t)
  <2>1. buy_orders' = [buy_orders EXCEPT ![j].quant = @ - q]
    BY <1>2, <1>6 DEF Filled, q
  <2>2. /\ buy_orders \in Seq(Order) /\ Distinct(buy_orders)
        /\ j \in DOMAIN buy_orders /\ q \in 0..buy_orders[j].quant
        /\ Shrunk(buy_orders', buy_orders, j, q, Reduced(Buyer))
        /\ Buyer = buy_orders[j]
    BY <1>0, <1>2, <1>3, <2>1 DEF Shrunk
  <2> QED
    BY ONLY <2>2, ListShrunk
<1>7. Seller' = Reduced(Seller)
  BY <1>2, <1>4
<1>8. IdsInv'
  <2>1. /\ Distinct(buy_orders') /\ Distinct(sell_orders')
        /\ IdsOf(buy_orders') \subseteq IdsOf(buy_orders)
        /\ IdsOf(sell_orders') = IdsOf(sell_orders)
    BY <1>4, <1>5, <1>6
  <2> QED
    BY <1>0, <2>1 DEF IdsInv, Pending
<1>9. Book' = (Book \ {Seller, Buyer}) \cup {Reduced(Seller)}
                \cup (IF Filled THEN {} ELSE {Reduced(Buyer)})
  <2>1. Range(buy_orders) \cap Range(sell_orders) = {}
    BY <1>0, RangesDisjoint
  <2>2. /\ Range(sell_orders) \ {Seller} = Range(sell_orders) \ {Seller, Buyer}
        /\ Range(buy_orders) \ {Buyer} = Range(buy_orders) \ {Seller, Buyer}
    BY <1>1, <2>1
  <2>3. CASE Filled
    BY <1>4, <1>5, <2>2, <2>3 DEF Book
  <2>4. CASE ~ Filled
    BY <1>4, <1>6, <2>2, <2>4 DEF Book
  <2> QED
    BY <2>3, <2>4
<1>10. ASSUME NEW u \in Traders
       PROVE  /\ EncumberedUnits(u)' = EncumberedUnits(u)
                   - (IF u = Seller.trader THEN match.quantity ELSE 0)
              /\ Held(u) = Held(u)'
                   + (IF Filled /\ u = Buyer.trader THEN 1 ELSE 0)
              /\ Held(u)' \in Nat
  <2>1. EncumberedUnits(u)' = EncumberedUnits(u)
          - (IF u = Seller.trader THEN match.quantity ELSE 0)
    BY <1>4 DEF EncumberedUnits, q
  <2>2. /\ Cardinality(Owned(buy_orders', u)) \in Nat
        /\ Cardinality(Owned(sell_orders', u)) \in Nat
    BY <1>4, <1>5, <1>6, OwnedTotal
  <2>3. CASE Filled
    BY <1>4, <1>5, <2>1, <2>2, <2>3 DEF Held
  <2>4. CASE ~ Filled
    BY <1>4, <1>6, <2>1, <2>2, <2>4 DEF Held
  <2> QED
    BY <2>3, <2>4
<1>11. ASSUME NEW u \in Traders
       PROVE  EncumberedFunds(u)' = EncumberedFunds(u)
                - (IF u = Buyer.trader THEN match.quantity * Buyer.price ELSE 0)
  <2>1. CASE Filled
    <3>1. Cost(Buyer, u) = IF u = Buyer.trader
                             THEN match.quantity * Buyer.price ELSE 0
      BY <2>1 DEF Cost, Filled
    <3>2. EncumberedFunds(u) = EncumberedFunds(u)' + Cost(Buyer, u)
      BY <1>5, <2>1 DEF EncumberedFunds
    <3>3. EncumberedFunds(u)' \in Int /\ Cost(Buyer, u) \in Int
      <4>1. buy_orders' \in Seq(Order)
        BY <1>5, <2>1
      <4>2. Cost(Buyer, u) \in Int
        BY <1>0, <1>1, CostsTyped
      <4> QED
        BY <4>1, <4>2, TotalsTyped DEF EncumberedFunds
    <3>4. EncumberedFunds(u)' = EncumberedFunds(u) - Cost(Buyer, u)
      BY <1>0, <3>2, <3>3
    <3> QED
      BY <3>1, <3>4
  <2>2. CASE ~ Filled
    BY <1>6, <2>2 DEF EncumberedFunds, q
  <2> QED
    BY <2>1, <2>2
<1>12. Range(buy_orders') = (Range(buy_orders) \ {Buyer})
                              \cup (IF Filled THEN {} ELSE {Reduced(Buyer)})
  BY <1>5, <1>6
<1> QED
  BY <1>4, <1>7, <1>8, <1>9, <1>10, <1>11, <1>12

(* What unlinking a filled sell order does to the books. *)
LEMMA ReapEffect ==
  ASSUME BooksInv, MatcherReap
  PROVE  /\ Seller \in Order /\ Seller \in Book
         /\ Range(sell_orders') =
              Range(sell_orders) \ {order \in {Seller} : order.quant = 0}
         /\ Book' = Unfilled
         /\ IdsInv'
         /\ \A u \in Traders :
              /\ EncumberedFunds(u)' = EncumberedFunds(u)
              /\ EncumberedUnits(u)' = EncumberedUnits(u)
              /\ Held(u) = Held(u)'
                   + (IF Seller.quant = 0 /\ u = Seller.trader THEN 1 ELSE 0)
              /\ Held(u)' \in Nat
<1>0. /\ buy_orders \in Seq(Order) /\ Sorted(buy_orders)
      /\ sell_orders \in Seq(Order) /\ Sorted(sell_orders)
      /\ orderid \in Nat \ {0} /\ IdsInv /\ Pending \subseteq Nat
      /\ orderid' = orderid /\ Distinct(sell_orders)
      /\ buy_orders' = buy_orders
      /\ \A u \in Traders : /\ EncumberedFunds(u) \in Int
                            /\ EncumberedUnits(u) \in Int
                            /\ Cardinality(Owned(buy_orders, u)) \in Nat
                            /\ Cardinality(Owned(sell_orders, u)) \in Nat
  BY BooksTyped DEF BooksInv, MatcherReap, IdsInv
<1>1. match.sell \in DOMAIN sell_orders
  BY DEF BooksInv, CoreInv, PointersInv, MatcherReap
<1>2. Seller \in Order /\ Seller \in Range(sell_orders) /\ Seller \in Book
  BY <1>0, <1>1, LenProperties DEF Seller, Range, Book
<1>3. CASE Seller.quant # 0
  <2>1. sell_orders' = sell_orders
    BY <1>3 DEF MatcherReap
  <2>2. Book' = Book /\ Unfilled = Book
    BY <1>0, <1>3, <2>1 DEF Book, Unfilled
  <2>3. IdsInv'
    BY <1>0, <2>1 DEF IdsInv, Pending
  <2>4. ASSUME NEW u \in Traders
        PROVE  /\ EncumberedFunds(u)' = EncumberedFunds(u)
               /\ EncumberedUnits(u)' = EncumberedUnits(u)
               /\ Held(u) = Held(u)' + 0 /\ Held(u)' \in Nat
    BY <1>0, <2>1 DEF EncumberedFunds, EncumberedUnits, Held
  <2> QED
    BY <1>2, <1>3, <2>1, <2>2, <2>3, <2>4
<1>4. CASE Seller.quant = 0
  <2>1. sell_orders' = list_remove(sell_orders, match.sell)
    BY <1>4 DEF MatcherReap
  <2>2. /\ sell_orders' \in Seq(Order)
        /\ Range(sell_orders') = Range(sell_orders) \ {Seller}
        /\ IdsOf(sell_orders') = IdsOf(sell_orders) \ {Seller.id}
        /\ Distinct(sell_orders')
        /\ \A t \in Traders :
             /\ Total(AllUnits(sell_orders, t)) =
                  Total(AllUnits(sell_orders', t)) + Units(Seller, t)
             /\ Cardinality(Owned(sell_orders, t)) =
                  Cardinality(Owned(sell_orders', t))
                    + IF Seller.trader = t THEN 1 ELSE 0
    BY <1>0, <1>1, <2>1, ListRemoved DEF Seller
  <2>3. Seller \notin Range(buy_orders)
    BY <1>0, <1>2, RangesDisjoint
  <2> HIDE DEF Seller
  <2>4. Book' = Unfilled
    BY <1>0, <1>4, <2>2, <2>3 DEF Book, Unfilled
  <2>5. IdsInv'
    BY <1>0, <2>2 DEF IdsInv, Pending
  <2>6. ASSUME NEW u \in Traders
        PROVE  /\ EncumberedFunds(u)' = EncumberedFunds(u)
               /\ EncumberedUnits(u)' = EncumberedUnits(u)
               /\ Held(u) = Held(u)' + (IF u = Seller.trader THEN 1 ELSE 0)
               /\ Held(u)' \in Nat
    <3>1. Units(Seller, u) = 0
      BY <1>4 DEF Units
    <3>2. Total(AllUnits(sell_orders', u)) \in Int
      BY <2>2, TotalsTyped
    <3>3. /\ EncumberedFunds(u)' = EncumberedFunds(u)
          /\ EncumberedUnits(u)' = EncumberedUnits(u)
      BY <1>0, <2>2, <3>1, <3>2 DEF EncumberedFunds, EncumberedUnits
    <3>4. Cardinality(Owned(sell_orders', u)) \in Nat
      BY <2>2, OwnedTotal
    <3>5. /\ Held(u) = Held(u)' + (IF u = Seller.trader THEN 1 ELSE 0)
          /\ Held(u)' \in Nat
      BY <1>0, <2>2, <3>4 DEF Held
    <3> QED
      BY <3>3, <3>5
  <2> QED
    BY <1>2, <1>4, <2>2, <2>4, <2>5, <2>6
<1> QED
  BY <1>3, <1>4
-----------------------------------------------------------------------------
(* Which steps matter to the books. *)

(* A step of a service thread. *)
LEMMA ServiceQuiet ==
  ASSUME TypeOK, NEW t \in Traders, Service(t) \/ ServiceStep(t)
  PROVE  /\ mpc' = mpc /\ match' = match
         /\ \A u \in Traders \ {t} : pc'[u] = pc[u] /\ call'[u] = call[u]
         /\ \/ Insert(t) \/ BroadcastPosted(t) \/ CancelFinds(t)
            \/ CancelRefund(t) \/ BroadcastCanceled(t)
            \/ /\ UNCHANGED <<buy_orders, sell_orders, orderid, ref_count, feed>>
               /\ pc[t] \notin {"insert", "post_broadcast", "refund",
                                "cancel_broadcast"}
               /\ pc'[t] \notin {"post_broadcast", "refund", "cancel_broadcast"}
               /\ \/ DebitBuy(t) \/ DebitSell(t)
                  \/ /\ UNCHANGED <<balance, inventory, funds, stock>>
                     /\ pc'[t] # "insert"
                  \/ /\ \E amount \in Amounts :
                          \/ Deposit(t, amount) \/ Withdraw(t, amount)
                          \/ Escrow(t, amount)  \/ Release(t, amount)
                     /\ UNCHANGED <<pc, call>>
<1>0. pc \in [Traders -> ServicePoints] /\ call \in [Traders -> Call]
  BY DEF TypeOK, ThreadsOK
<1>1. ASSUME NEW amount \in Amounts,
             \/ Deposit(t, amount) \/ Withdraw(t, amount)
             \/ Escrow(t, amount)  \/ Release(t, amount)
      PROVE  /\ UNCHANGED <<mpc, match, pc, call>>
             /\ UNCHANGED <<buy_orders, sell_orders, orderid, ref_count, feed>>
             /\ pc[t] = "idle"
  BY <1>1 DEF Deposit, Withdraw, Escrow, Release, Funding, exchange, book,
     control, background
<1>2. ASSUME NEW c, Request(t, c)
      PROVE  /\ UNCHANGED <<mpc, match, buy_orders, sell_orders, orderid,
                            ref_count, feed, balance, inventory, funds, stock>>
             /\ Goto(t, "idle", "lock") /\ call' = [call EXCEPT ![t] = c]
  BY <1>2 DEF Request, exchange, book, accounts, background, history
<1>3. CASE Leave(t)
  BY <1>0, <1>3 DEF Leave, Goto, exchange, book, accounts, background, history
<1>4. CASE Service(t)
  <2>1. CASE \E amount \in Amounts :
               \/ Deposit(t, amount) \/ Withdraw(t, amount)
               \/ Escrow(t, amount)  \/ Release(t, amount)
    BY <1>1, <2>1
  <2>2. ASSUME NEW c, Request(t, c)
        PROVE  /\ UNCHANGED <<mpc, match, buy_orders, sell_orders, orderid,
                              ref_count, feed, balance, inventory, funds, stock>>
               /\ \A u \in Traders \ {t} : pc'[u] = pc[u] /\ call'[u] = call[u]
               /\ pc[t] = "idle" /\ pc'[t] = "lock"
    BY <1>0, <1>2, <2>2 DEF Goto
  <2>3. (\E c : Request(t, c))
          \/ Leave(t) \/ \E amount \in Amounts :
               \/ Deposit(t, amount) \/ Withdraw(t, amount)
               \/ Escrow(t, amount)  \/ Release(t, amount)
    BY <1>4 DEF Service, RequestPost, RequestCancel
  <2> QED
    BY <1>3, <2>1, <2>2, <2>3
<1>5. CASE Insert(t) \/ BroadcastPosted(t) \/ CancelFinds(t)
             \/ CancelRefund(t) \/ BroadcastCanceled(t)
  BY <1>0, <1>5 DEF Insert, BroadcastPosted, CancelFinds, CancelRefund,
     BroadcastCanceled, Goto, background
<1>6. CASE DebitBuy(t) \/ DebitSell(t)
  BY <1>0, <1>6 DEF DebitBuy, DebitSell, Goto, exchange, book, background,
     history
<1>7. CASE Lock(t) \/ CancelFails(t) \/ Unlock(t)
  BY <1>0, <1>7 DEF Lock, CancelFails, Unlock, Goto, exchange, book, accounts,
     background, history
<1> QED
  BY <1>4, <1>5, <1>6, <1>7 DEF ServiceStep

(* A step of the matchmaker. *)
LEMMA MatcherQuiet ==
  ASSUME Matcher
  PROVE  /\ UNCHANGED <<pc, call, orderid>>
         /\ \/ MatcherPay \/ MatcherDeliver \/ MatcherRefund \/ MatcherReport
            \/ MatcherFill \/ MatcherReap
            \/ /\ UNCHANGED <<buy_orders, sell_orders, accounts, history>>
               /\ mpc \notin {"deliver", "refund", "report", "fill", "reap"}
               /\ mpc' \notin {"deliver", "refund", "report", "fill", "reap"}
<1>1. CASE MatcherPay \/ MatcherDeliver \/ MatcherRefund \/ MatcherReport
             \/ MatcherFill \/ MatcherReap
  BY <1>1 DEF MatcherPay, MatcherDeliver, MatcherRefund, MatcherReport,
     MatcherFill, MatcherReap, exchange, book
<1>2. CASE MatcherWake \/ MatcherStop \/ MatcherStart \/ MatcherSleep
  BY <1>2 DEF MatcherWake, MatcherStop, MatcherStart, MatcherSleep, Step, book
<1>3. CASE MatcherOuter \/ MatcherInner
  BY <1>3 DEF MatcherOuter, MatcherInner, Step, exchange, book
<1> QED
  BY <1>1, <1>2, <1>3 DEF Matcher

(* A step of exchange_fini. *)
LEMMA FiniQuiet ==
  ASSUME Fini \/ UNCHANGED vars
  PROVE  UNCHANGED <<pc, call, mpc, match, orderid, buy_orders, sell_orders,
                     accounts, history>>
BY DEF Fini, FiniFree, FiniWake, FiniJoin, vars, exchange, book, control,
   background

(* What stays while the lists do. *)
LEMMA SameBooks ==
  ASSUME UNCHANGED <<buy_orders, sell_orders>>
  PROVE  /\ Book' = Book /\ Pending' = Pending
         /\ \A u \in Traders : /\ EncumberedFunds(u)' = EncumberedFunds(u)
                               /\ EncumberedUnits(u)' = EncumberedUnits(u)
                               /\ Held(u)' = Held(u)
BY DEF Book, Pending, EncumberedFunds, EncumberedUnits, Held
-----------------------------------------------------------------------------
(* What a call is about follows its program point. *)
LEMMA CallInvNext ==
  ASSUME TypeOK, CallInv, [Next]_vars
  PROVE  CallInv'
<1>0. /\ pc \in [Traders -> ServicePoints] /\ call \in [Traders -> Call]
  BY DEF TypeOK, ThreadsOK
<1>1. ASSUME NEW t \in Traders, Service(t) \/ ServiceStep(t)
      PROVE  CallInv'
  <2>1. \A u \in Traders \ {t} : pc'[u] = pc[u] /\ call'[u] = call[u]
    BY <1>1, ServiceQuiet
  <2> DEFINE Fitting ==
        /\ pc'[t] = "lock" => call'[t].op \in {"buy", "sell", "cancel"}
        /\ pc'[t] \in {"debit", "insert"} => call'[t].op \in {"buy", "sell"}
        /\ pc'[t] = "refund" => call'[t].op \in {"cancel_buy", "cancel_sell"}
  <2>2. ASSUME Service(t) PROVE Fitting
    <3>1. ASSUME NEW amount \in Amounts,
                 \/ Deposit(t, amount) \/ Withdraw(t, amount)
                 \/ Escrow(t, amount)  \/ Release(t, amount)
          PROVE  UNCHANGED <<pc, call>>
      BY <3>1 DEF Deposit, Withdraw, Escrow, Release, Funding, control
    <3>2. ASSUME NEW op \in {"buy", "sell"}, NEW quantity \in Quantities,
                 NEW price \in Prices, RequestPost(t, op, quantity, price)
          PROVE  Fitting
      BY <1>0, <3>2 DEF RequestPost, Request, Goto, NoCall
    <3>3. ASSUME NEW id, RequestCancel(t, id)
          PROVE  Fitting
      BY <1>0, <3>3 DEF RequestCancel, Request, Goto, NoCall
    <3>4. ASSUME Leave(t) PROVE Fitting
      BY <1>0, <3>4 DEF Leave, Goto
    <3>5. UNCHANGED <<pc, call>> => Fitting
      BY DEF CallInv
    <3> QED
      BY <2>2, <3>1, <3>2, <3>3, <3>4, <3>5 DEF Service
  <2>3. ASSUME ServiceStep(t) PROVE Fitting
    <3>1. ASSUME Lock(t) PROVE Fitting
      BY <1>0, <3>1 DEF CallInv, Lock, Goto
    <3>2. ASSUME DebitBuy(t) \/ DebitSell(t) PROVE Fitting
      BY <1>0, <3>2 DEF CallInv, DebitBuy, DebitSell, Goto
    <3>3. ASSUME CancelFinds(t) PROVE Fitting
      BY <1>0, <3>3 DEF CancelFinds, Goto
    <3>4. ASSUME \/ Insert(t) \/ BroadcastPosted(t) \/ CancelFails(t)
                 \/ CancelRefund(t) \/ BroadcastCanceled(t) \/ Unlock(t)
          PROVE  Fitting
      BY <1>0, <3>4 DEF Insert, BroadcastPosted, CancelFails, CancelRefund,
         BroadcastCanceled, Unlock, Goto
    <3> QED
      BY <2>3, <3>1, <3>2, <3>3, <3>4 DEF ServiceStep
  <2>4. Fitting
    BY <1>1, <2>2, <2>3
  <2> HIDE DEF Fitting
  <2>5. \A u \in Traders \ {t} :
          /\ pc'[u] = "lock" => call'[u].op \in {"buy", "sell", "cancel"}
          /\ pc'[u] \in {"debit", "insert"} => call'[u].op \in {"buy", "sell"}
          /\ pc'[u] = "refund" => call'[u].op \in {"cancel_buy", "cancel_sell"}
    BY <2>1 DEF CallInv
  <2> QED
    BY <2>4, <2>5 DEF CallInv, Fitting
<1>2. CASE Matcher \/ Fini \/ UNCHANGED vars
  <2>1. UNCHANGED <<pc, call>>
    BY <1>2, MatcherQuiet, FiniQuiet
  <2> QED
    BY <2>1 DEF CallInv
<1> QED
  BY <1>1, <1>2 DEF Next, Exited

(* Ids stay distinct. *)
LEMMA IdsInvNext ==
  ASSUME BooksInv, [Next]_vars
  PROVE  IdsInv'
<1>0. TypeOK /\ IdsInv
  BY DEF BooksInv, CoreInv
<1>1. ASSUME UNCHANGED <<buy_orders, sell_orders, orderid>>
      PROVE  IdsInv'
  BY <1>0, <1>1 DEF IdsInv, Pending
<1>2. ASSUME NEW t \in Traders, Service(t) \/ ServiceStep(t)
      PROVE  IdsInv'
  <2>1. CASE Insert(t)
    BY <2>1, InsertEffect
  <2>2. CASE CancelFinds(t)
    BY <2>2, CancelEffect
  <2>3. CASE BroadcastPosted(t) \/ CancelRefund(t) \/ BroadcastCanceled(t)
    BY <1>1, <2>3 DEF BroadcastPosted, CancelRefund, BroadcastCanceled,
       exchange, book
  <2> QED
    BY <1>0, <1>1, <1>2, <2>1, <2>2, <2>3, ServiceQuiet
<1>3. CASE Matcher
  <2>1. CASE MatcherFill
    BY <2>1, FillEffect
  <2>2. CASE MatcherReap
    BY <2>2, ReapEffect
  <2> QED
    BY <1>1, <1>3, <2>1, <2>2, MatcherBook, MatcherQuiet
<1>4. CASE Fini \/ UNCHANGED vars
  BY <1>1, <1>4, FiniQuiet
<1> QED
  BY <1>2, <1>3, <1>4 DEF Next, Exited

(* Every reference is one for an order, or one a cancel is about to drop.  *)
LEMMA RefInvNext ==
  ASSUME BooksInv, RefInv, [Next]_vars, TypeOK'
  PROVE  RefInv'
<1>0. /\ TypeOK /\ pc \in [Traders -> ServicePoints]
      /\ ref_count \in [Traders -> Int]
  BY DEF BooksInv, CoreInv, TypeOK, ThreadsOK, AccountsOK
<1>1. \A u \in Traders :
        /\ Cardinality(Owned(buy_orders, u)) \in Nat
        /\ Cardinality(Owned(sell_orders, u)) \in Nat
        /\ Cardinality(Owned(buy_orders', u)) \in Nat
        /\ Cardinality(Owned(sell_orders', u)) \in Nat
  BY <1>0, OwnedTotal DEF TypeOK, BookOK
<1>2. \A u \in Traders :
        /\ Held(u) \in Nat /\ Held(u)' \in Nat
        /\ ref_count[u] = 2 + Held(u) + IF pc[u] = "refund" THEN 1 ELSE 0
  BY <1>1 DEF RefInv, Held
<1>3. SUFFICES \A u \in Traders :
        ref_count'[u] = 2 + Held(u)' + IF pc'[u] = "refund" THEN 1 ELSE 0
  BY <1>1 DEF RefInv, Held
<1>4. ASSUME UNCHANGED <<buy_orders, sell_orders, ref_count>>,
             \A u \in Traders : pc'[u] = "refund" <=> pc[u] = "refund"
      PROVE  \A u \in Traders :
               ref_count'[u] = 2 + Held(u)' + IF pc'[u] = "refund" THEN 1 ELSE 0
  BY <1>2, <1>4, SameBooks
<1>5. ASSUME NEW t \in Traders, Service(t) \/ ServiceStep(t)
      PROVE  \A u \in Traders :
               ref_count'[u] = 2 + Held(u)' + IF pc'[u] = "refund" THEN 1 ELSE 0
  <2>1. CASE Insert(t)
    <3>1. \A u \in Traders : Held(u)' = Held(u) + IF t = u THEN 1 ELSE 0
      BY <2>1, InsertEffect
    <3>2. /\ ref_count' = [ref_count EXCEPT ![t] = @ + 1]
          /\ pc[t] = "insert" /\ pc' = [pc EXCEPT ![t] = "post_broadcast"]
      BY <2>1 DEF Insert, Goto
    <3>3. \A u \in Traders :
            /\ ref_count'[u] = ref_count[u] + IF t = u THEN 1 ELSE 0
            /\ pc'[u] = "refund" <=> pc[u] = "refund"
      BY <1>0, <3>2
    <3> QED
      BY <1>2, <3>1, <3>3
  <2>2. CASE CancelFinds(t)
    <3>1. \A u \in Traders : Held(u) = Held(u)' + IF t = u THEN 1 ELSE 0
      BY <2>2, CancelEffect
    <3>2. /\ ref_count' = ref_count /\ pc[t] # "refund" /\ pc'[t] = "refund"
          /\ \A u \in Traders \ {t} : pc'[u] = pc[u]
      BY <1>0, <2>2 DEF CancelFinds, Goto, accounts
    <3> QED
      BY <1>2, <3>1, <3>2
  <2>3. CASE CancelRefund(t)
    <3>1. /\ UNCHANGED <<buy_orders, sell_orders>>
          /\ ref_count' = [ref_count EXCEPT ![t] = @ - 1]
          /\ pc[t] = "refund" /\ pc'[t] # "refund"
          /\ \A u \in Traders \ {t} : pc'[u] = pc[u]
      BY <1>0, <2>3 DEF CancelRefund, Goto, exchange, book
    <3>2. \A u \in Traders : Held(u)' = Held(u)
      BY <3>1, SameBooks
    <3> QED
      BY <1>0, <1>2, <3>1, <3>2
  <2>4. CASE BroadcastPosted(t) \/ BroadcastCanceled(t)
    BY <1>0, <1>4, <2>4 DEF BroadcastPosted, BroadcastCanceled, Goto, exchange,
       book, accounts
  <2> QED
    BY <1>0, <1>4, <1>5, <2>1, <2>2, <2>3, <2>4, ServiceQuiet
<1>6. CASE Matcher
  <2>0. pc' = pc
    BY <1>6, MatcherQuiet
  <2>1. CASE MatcherFill
    <3>1. \A u \in Traders :
            Held(u) = Held(u)' + (IF Filled /\ u = Buyer.trader THEN 1 ELSE 0)
      BY <2>1, FillEffect
    <3>2. \A u \in Traders :
            ref_count'[u] =
              ref_count[u] - (IF Filled /\ u = Buyer.trader THEN 1 ELSE 0)
      BY <1>0, <2>1 DEF MatcherFill, Filled
    <3> QED
      BY <1>0, <1>2, <2>0, <3>1, <3>2
  <2>2. CASE MatcherReap
    <3>1. \A u \in Traders :
            Held(u) = Held(u)'
              + (IF Seller.quant = 0 /\ u = Seller.trader THEN 1 ELSE 0)
      BY <2>2, ReapEffect
    <3>2. \A u \in Traders :
            ref_count'[u] = ref_count[u]
              - (IF Seller.quant = 0 /\ u = Seller.trader THEN 1 ELSE 0)
      BY <1>0, <2>2 DEF MatcherReap
    <3> QED
      BY <1>0, <1>2, <2>0, <3>1, <3>2
  <2>3. CASE MatcherPay \/ MatcherDeliver \/ MatcherRefund \/ MatcherReport
    BY <1>4, <2>0, <2>3 DEF MatcherPay, MatcherDeliver, MatcherRefund,
       MatcherReport, exchange, book, accounts
  <2> QED
    BY <1>4, <1>6, <2>0, <2>1, <2>2, <2>3, MatcherQuiet DEF accounts
<1>7. CASE Fini \/ UNCHANGED vars
  BY <1>4, <1>7, FiniQuiet DEF accounts
<1> QED
  BY <1>5, <1>6, <1>7 DEF Next, Exited
-----------------------------------------------------------------------------
(* An order of the book is known by its id. *)
LEMMA BookIds ==
  ASSUME IdsInv
  PROVE  /\ {order.id : order \in Book} = Pending
         /\ \A x, y \in Book : x.id = y.id => x = y
<1>1. /\ Distinct(buy_orders) /\ Distinct(sell_orders)
      /\ IdsOf(buy_orders) \cap IdsOf(sell_orders) = {}
  BY DEF IdsInv
<1>2. ASSUME NEW x \in Book
      PROVE  \/ \E i \in DOMAIN buy_orders : x = buy_orders[i]
             \/ \E i \in DOMAIN sell_orders : x = sell_orders[i]
  BY DEF Book, Range
<1>3. {order.id : order \in Book} = Pending
  BY DEF Pending, IdsOf, Book, Range
<1>4. ASSUME NEW x \in Book, NEW y \in Book, x.id = y.id
      PROVE  x = y
  BY <1>1, <1>2, <1>4 DEF Distinct, IdsOf
<1> QED
  BY <1>3, <1>4

(* What a packet does to what its listener knows: POSTED adds an order, *)
LEMMA ShowsPosted ==
  ASSUME NEW f, NEW orders, NEW order, Shows(f, orders),
         order.id \notin {x.id : x \in orders}
  PROVE  Shows(Posted(f, order.id, order.quant), orders \cup {order})
<1> DEFINE g == Posted(f, order.id, order.quant)
<1>1. DOMAIN g = DOMAIN f \cup {order.id}
  BY DEF Posted
<1>2. \A i \in DOMAIN g : g[i] = IF i = order.id THEN order.quant ELSE f[i]
  BY DEF Posted
<1> HIDE DEF g
<1>3. DOMAIN g = {x.id : x \in orders \cup {order}}
  BY <1>1 DEF Shows
<1>4. \A x \in orders \cup {order} : g[x.id] = x.quant
  BY <1>2, <1>3 DEF Shows
<1> QED
  BY <1>3, <1>4 DEF Shows, g

(* CANCELED removes an order ... *)
LEMMA ShowsGone ==
  ASSUME NEW f, NEW orders, NEW order \in orders, Shows(f, orders),
         \A x \in orders : x.id = order.id => x = order
  PROVE  Shows(Gone(f, {order.id}), orders \ {order})
<1> DEFINE g == Gone(f, {order.id})
<1>1. DOMAIN g = DOMAIN f \ {order.id} /\ \A i \in DOMAIN g : g[i] = f[i]
  BY DEF Gone
<1> HIDE DEF g
<1>2. DOMAIN g = {x.id : x \in orders \ {order}}
  BY <1>1 DEF Shows
<1>3. \A x \in orders \ {order} : g[x.id] = x.quant
  BY <1>1, <1>2 DEF Shows
<1> QED
  BY <1>2, <1>3 DEF Shows, g

(* ... and TRADED reduces two, and removes those it fills. *)
LEMMA ShowsTraded ==
  ASSUME NEW f, NEW orders, NEW s \in orders, NEW b \in orders,
         s \in Order, b \in Order, s.id # b.id, Shows(f, orders),
         \A x, y \in orders : x.id = y.id => x = y
  PROVE  Shows(Traded(f, s.id, b.id, match.quantity),
               (orders \ {s, b})
                 \cup {x \in {Reduced(s), Reduced(b)} : x.quant # 0})
<1> DEFINE q == match.quantity
           left == [i \in DOMAIN f |->
                      IF i \in {s.id, b.id} THEN f[i] - q ELSE f[i]]
           gone == {i \in DOMAIN f \cap {s.id, b.id} : left[i] = 0}
           g == Traded(f, s.id, b.id, q)
           after == (orders \ {s, b})
                      \cup {x \in {Reduced(s), Reduced(b)} : x.quant # 0}
<1>1. /\ Reduced(s).id = s.id /\ Reduced(s).quant = s.quant - q
      /\ Reduced(b).id = b.id /\ Reduced(b).quant = b.quant - q
  BY DEF Reduced, Order
<1>2. /\ DOMAIN left = DOMAIN f
      /\ \A i \in DOMAIN f :
           left[i] = IF i \in {s.id, b.id} THEN f[i] - q ELSE f[i]
  OBVIOUS
<1>3. g = Gone(left, gone)
  BY DEF Traded
<1> HIDE DEF left, g
<1>4. /\ s.id \in DOMAIN f /\ b.id \in DOMAIN f
      /\ left[s.id] = Reduced(s).quant /\ left[b.id] = Reduced(b).quant
  BY <1>1, <1>2 DEF Shows
<1>5. gone = {i \in {s.id, b.id} : left[i] = 0}
  BY <1>4
<1>6. /\ DOMAIN g = DOMAIN f \ gone
      /\ \A i \in DOMAIN g : g[i] = left[i]
  BY <1>2, <1>3 DEF Gone
<1> HIDE DEF gone, q
<1>7. \A x \in orders \ {s, b} : x.id \in DOMAIN f /\ x.id \notin {s.id, b.id}
  BY DEF Shows
<1>8. ASSUME NEW x \in after
      PROVE  x.id \in DOMAIN g /\ g[x.id] = x.quant
  <2>1. CASE x \in orders \ {s, b}
    BY <1>2, <1>5, <1>6, <1>7, <2>1 DEF Shows
  <2>2. CASE x = Reduced(s) /\ x.quant # 0
    BY <1>1, <1>4, <1>5, <1>6, <2>2
  <2>3. CASE x = Reduced(b) /\ x.quant # 0
    BY <1>1, <1>4, <1>5, <1>6, <2>3
  <2> QED
    BY <2>1, <2>2, <2>3
<1>9. ASSUME NEW i \in DOMAIN g
      PROVE  \E x \in after : i = x.id
  <2>1. PICK x \in orders : i = x.id
    BY <1>6 DEF Shows
  <2>2. CASE x = s
    BY <1>1, <1>4, <1>5, <1>6, <2>1, <2>2
  <2>3. CASE x = b
    BY <1>1, <1>4, <1>5, <1>6, <2>1, <2>3
  <2>4. CASE x \notin {s, b}
    BY <2>1, <2>4
  <2> QED
    BY <2>2, <2>3, <2>4
<1> HIDE DEF after
<1>10. DOMAIN g = {x.id : x \in after}
  BY <1>8, <1>9
<1>11. Shows(g, after)
  BY <1>8, <1>10 DEF Shows
<1> QED
  BY <1>11 DEF g, after, q
-----------------------------------------------------------------------------
(* A listener is told of every change of the book. *)
LEMMA FeedInvNext ==
  ASSUME BooksInv, FeedInv, [Next]_vars
  PROVE  FeedInv'
<1>0. /\ TypeOK /\ MutualExclusion /\ IdsInv
      /\ pc \in [Traders -> ServicePoints] /\ call \in [Traders -> Call]
      /\ {order.id : order \in Book} = Pending
      /\ \A x, y \in Book : x.id = y.id => x = y
  BY BookIds DEF BooksInv, CoreInv, TypeOK, ThreadsOK
<1>1. ASSUME UNCHANGED <<buy_orders, sell_orders, match, feed>>,
             mpc \in {"fill", "reap"} \/ mpc' \in {"fill", "reap"} => mpc' = mpc,
             \A u \in Traders :
               \/ pc'[u] = pc[u] /\ call'[u] = call[u]
               \/ {pc[u], pc'[u]} \cap
                    {"post_broadcast", "refund", "cancel_broadcast"} = {}
      PROVE  FeedInv'
  <2>1. /\ Book' = Book /\ Seller' = Seller /\ Buyer' = Buyer
        /\ AfterTrade' = AfterTrade /\ Unfilled' = Unfilled
    BY <1>1 DEF Book, Seller, Buyer, AfterTrade, Unfilled, Reduced
  <2>2. FeedQuiet' => FeedQuiet
    BY <1>1 DEF FeedQuiet
  <2> QED
    BY <1>1, <2>1, <2>2 DEF FeedInv
<1>2. ASSUME NEW t \in Traders, pc[t] \in ServiceCritical
      PROVE  /\ mpc \notin MatcherCritical
             /\ \A u \in Traders \ {t} : pc[u] \notin ServiceCritical
             /\ pc[t] \notin {"post_broadcast", "refund", "cancel_broadcast"}
                  => Shows(feed, Book)
  BY <1>0, <1>2 DEF MutualExclusion, FeedInv, FeedQuiet, ServiceCritical,
     MatcherCritical, MatcherTrading
<1>3. ASSUME NEW t \in Traders, pc[t] \in ServiceCritical, mpc' = mpc,
             \A u \in Traders \ {t} : pc'[u] = pc[u],
             IF pc'[t] \in {"post_broadcast", "refund", "cancel_broadcast"}
               THEN /\ pc'[t] = "post_broadcast" =>
                         Shows(Posted(feed', call'[t].id, call'[t].quant), Book')
                    /\ pc'[t] \in {"refund", "cancel_broadcast"} =>
                         Shows(Gone(feed', {call'[t].id}), Book')
               ELSE Shows(feed', Book')
      PROVE  FeedInv'
  <2>1. /\ mpc' \notin {"fill", "reap"}
        /\ \A u \in Traders \ {t} :
             pc'[u] \notin {"post_broadcast", "refund", "cancel_broadcast"}
    BY <1>2, <1>3 DEF MatcherCritical, MatcherTrading, ServiceCritical
  <2> QED
    BY <1>3, <2>1 DEF FeedInv, FeedQuiet
<1>4. ASSUME NEW t \in Traders, Service(t) \/ ServiceStep(t)
      PROVE  FeedInv'
  <2>0. mpc' = mpc /\ match' = match /\ \A u \in Traders \ {t} : pc'[u] = pc[u]
    BY <1>0, <1>4, ServiceQuiet
  <2>1. CASE Insert(t)
    <3>1. /\ pc[t] = "insert" /\ pc'[t] = "post_broadcast" /\ feed' = feed
          /\ call'[t].id = orderid /\ call'[t].quant = call[t].quant
      BY <1>0, <2>1 DEF Insert, Goto, history, Call
    <3>2. /\ Book' = Book \cup {NewOrder(t)} /\ orderid \notin Pending
          /\ NewOrder(t).id = orderid /\ NewOrder(t).quant = call[t].quant
      BY <2>1, InsertEffect DEF NewOrder
    <3>3. Shows(feed, Book)
      BY <1>2, <3>1 DEF ServiceCritical
    <3>4. Shows(Posted(feed, orderid, call[t].quant), Book \cup {NewOrder(t)})
      BY <1>0, <3>2, <3>3, ShowsPosted
    <3> QED
      BY <1>3, <2>0, <3>1, <3>2, <3>4 DEF ServiceCritical
  <2>2. CASE BroadcastPosted(t)
    <3>1. /\ pc[t] = "post_broadcast" /\ pc'[t] = "unlock"
          /\ feed' = Posted(feed, call[t].id, call[t].quant)
          /\ UNCHANGED <<buy_orders, sell_orders>>
      BY <1>0, <2>2 DEF BroadcastPosted, Goto, exchange, book
    <3>2. Shows(feed', Book')
      BY <3>1, SameBooks DEF FeedInv
    <3> QED
      BY <1>3, <2>0, <3>1, <3>2 DEF ServiceCritical
  <2>3. CASE CancelFinds(t)
    <3>1. PICK order \in Book : order.id = call[t].id /\ Book' = Book \ {order}
      BY <2>3, CancelEffect
    <3>2. /\ pc[t] = "find" /\ pc'[t] = "refund" /\ feed' = feed
          /\ call'[t].id = call[t].id
      <4>1. \E c : call' = [call EXCEPT ![t] = c] /\ c.id = call[t].id
        BY <2>3, CancelEffect
      <4> QED
        BY <1>0, <2>3, <4>1 DEF CancelFinds, Goto, history
    <3>3. Shows(feed, Book)
      BY <1>2, <3>2 DEF ServiceCritical
    <3>4. Shows(Gone(feed, {order.id}), Book \ {order})
      BY <1>0, <3>3, ShowsGone
    <3> QED
      BY <1>3, <2>0, <3>1, <3>2, <3>4 DEF ServiceCritical
  <2>4. CASE CancelRefund(t)
    <3>1. /\ pc[t] = "refund" /\ pc'[t] = "cancel_broadcast" /\ feed' = feed
          /\ call' = call /\ UNCHANGED <<buy_orders, sell_orders>>
      BY <1>0, <2>4 DEF CancelRefund, Goto, exchange, book, history
    <3>2. Shows(Gone(feed, {call[t].id}), Book)
      BY <3>1 DEF FeedInv
    <3> QED
      BY <1>3, <2>0, <3>1, <3>2, SameBooks DEF ServiceCritical
  <2>5. CASE BroadcastCanceled(t)
    <3>1. /\ pc[t] = "cancel_broadcast" /\ pc'[t] = "unlock"
          /\ feed' = Gone(feed, {call[t].id})
          /\ UNCHANGED <<buy_orders, sell_orders>>
      BY <1>0, <2>5 DEF BroadcastCanceled, Goto, exchange, book
    <3>2. Shows(feed', Book')
      BY <3>1, SameBooks DEF FeedInv
    <3> QED
      BY <1>3, <2>0, <3>1, <3>2 DEF ServiceCritical
  <2> QED
    BY <1>0, <1>1, <1>4, <2>1, <2>2, <2>3, <2>4, <2>5, ServiceQuiet
<1>5. ASSUME Matcher, mpc \in MatcherTrading
      PROVE  \A t \in Traders : pc[t] \notin ServiceCritical
  BY <1>0, <1>5 DEF MutualExclusion, MatcherCritical
<1>6. CASE MatcherReport
  <2>1. /\ mpc = "report" /\ mpc' = "fill"
        /\ UNCHANGED <<pc, call, match, buy_orders, sell_orders>>
        /\ feed' = Traded(feed, Seller.id, Buyer.id, match.quantity)
    BY <1>6 DEF MatcherReport, Step, exchange, book
  <2>2. Shows(feed, Book)
    BY <1>5, <1>6, <2>1 DEF FeedInv, FeedQuiet, MatcherTrading, ServiceCritical,
       Matcher
  <2>3. /\ Seller \in Book /\ Buyer \in Book /\ Seller \in Order
        /\ Buyer \in Order /\ Seller.id # Buyer.id
    BY <2>1, TradeOrders DEF Book
  <2>4. Shows(feed', AfterTrade)
    BY <1>0, <2>1, <2>2, <2>3, ShowsTraded DEF AfterTrade
  <2>5. AfterTrade' = AfterTrade
    BY <2>1 DEF AfterTrade, Book, Seller, Buyer, Reduced
  <2>6. \A t \in Traders : pc'[t] \notin ServiceCritical
    BY <1>5, <1>6, <2>1 DEF MatcherTrading, Matcher
  <2> QED
    BY <2>1, <2>4, <2>5, <2>6 DEF FeedInv, FeedQuiet, ServiceCritical
<1>7. CASE MatcherFill
  <2>1. /\ mpc = "fill" /\ mpc' = "reap" /\ feed' = feed /\ pc' = pc
    BY <1>7 DEF MatcherFill, Step, history
  <2>2. /\ Seller \in Book /\ Buyer \in Book /\ Seller \in Order
        /\ Buyer \in Order /\ Seller.id # Buyer.id
    BY <2>1, TradeOrders DEF Book
  <2>3. /\ Seller' = Reduced(Seller)
        /\ Book' = (Book \ {Seller, Buyer}) \cup {Reduced(Seller)}
                     \cup (IF Filled THEN {} ELSE {Reduced(Buyer)})
    BY <1>7, FillEffect
  <2>4. /\ Reduced(Seller).id = Seller.id /\ Reduced(Buyer).id = Buyer.id
        /\ Reduced(Buyer).quant = 0 <=> Filled
    <3>1. /\ Reduced(Seller).id = Seller.id /\ Reduced(Buyer).id = Buyer.id
          /\ Reduced(Buyer).quant = Buyer.quant - match.quantity
      BY <2>2 DEF Reduced, Order
    <3>2. Buyer.quant \in Int /\ match.quantity \in Int
      BY <1>0, <2>2, WordType DEF Order, TypeOK, ThreadsOK, Match
    <3> QED
      BY <3>1, <3>2 DEF Filled
  <2>5. Reduced(Seller) \notin Book \ {Seller, Buyer}
    BY <1>0, <2>2, <2>4
  <2>6. Unfilled' = AfterTrade
    BY <2>2, <2>3, <2>4, <2>5 DEF Unfilled, AfterTrade
  <2>7. \A t \in Traders : pc'[t] \notin ServiceCritical
    BY <1>5, <1>7, <2>1 DEF MatcherTrading, Matcher
  <2> QED
    BY <2>1, <2>6, <2>7 DEF FeedInv, FeedQuiet, ServiceCritical
<1>8. CASE MatcherReap
  <2>1. /\ mpc = "reap" /\ mpc' \in {"outer", "inner"} /\ feed' = feed
        /\ pc' = pc
    BY <1>8 DEF MatcherReap, history
  <2>2. Book' = Unfilled
    BY <1>8, ReapEffect
  <2>3. \A t \in Traders : pc'[t] \notin ServiceCritical
    BY <1>5, <1>8, <2>1 DEF MatcherTrading, Matcher
  <2> QED
    BY <2>1, <2>2, <2>3 DEF FeedInv, FeedQuiet, ServiceCritical
<1>9. CASE \/ MatcherWake \/ MatcherStop \/ MatcherStart \/ MatcherSleep
           \/ MatcherOuter \/ MatcherInner
  <2>1. /\ mpc \notin {"fill", "reap"} /\ mpc' \notin {"fill", "reap"}
        /\ UNCHANGED <<pc, call, buy_orders, sell_orders, feed>>
    BY <1>9 DEF MatcherWake, MatcherStop, MatcherStart, MatcherSleep,
       MatcherOuter, MatcherInner, Step, exchange, book, history
  <2> QED
    BY <2>1 DEF FeedInv, FeedQuiet, Book
<1>10. CASE MatcherPay \/ MatcherDeliver \/ MatcherRefund
  BY <1>1, <1>10 DEF MatcherPay, MatcherDeliver, MatcherRefund, Step, exchange,
     book, history
<1>11. CASE Fini \/ UNCHANGED vars
  BY <1>1, <1>11, FiniQuiet DEF history
<1> QED
  BY <1>4, <1>6, <1>7, <1>8, <1>9, <1>10, <1>11 DEF Next, Matcher, Exited
-----------------------------------------------------------------------------
(* Arithmetic that wraps around at Word. *)
Credit(new, old, amount) == \E k \in Int : new = old + amount + k * Word

(* Words are integers. *)
LEMMA WordsInt ==
  \A x, y \in Int :
    Plus(x, y) \in Int /\ Minus(x, y) \in Int /\ Times(x, y) \in Int
BY WordArithmetic, WordType

(* A remainder differs from its number by whole words. *)
LEMMA RemainderWhole ==
  ASSUME NEW x \in Int
  PROVE  \E k \in Int : x % Word = x + k * Word
<1>1. x \div Word \in Int /\ -(x \div Word) \in Int
  BY WordAssumption
<1>2. x % Word = x + (-(x \div Word)) * Word
  BY WordAssumption
<1> QED
  BY <1>1, <1>2

(* What the account operations credit: nothing ... *)
LEMMA CreditNone ==
  ASSUME NEW old \in Int
  PROVE  Credit(old, old, 0)
<1>1. old = old + 0 + 0 * Word
  BY WordAssumption
<1> QED
  BY <1>1 DEF Credit

(* An amount added or subtracted ... *)
LEMMA CreditWords ==
  ASSUME NEW old \in Int, NEW amount \in Int
  PROVE  /\ Credit(Plus(old, amount), old, amount)
         /\ Credit(Minus(old, amount), old, -amount)
<1>1. PICK k \in Int : (old + amount) % Word = (old + amount) + k * Word
  BY RemainderWhole
<1>2. PICK j \in Int : (old - amount) % Word = (old - amount) + j * Word
  BY RemainderWhole
<1>3. k * Word \in Int /\ j * Word \in Int
  BY WordAssumption
<1>4. /\ (old + amount) % Word = old + amount + k * Word
      /\ (old - amount) % Word = old + (-amount) + j * Word
  BY <1>1, <1>2, <1>3
<1> QED
  BY <1>4 DEF Credit, Plus, Minus

(* ... one after another. *)
LEMMA CreditTwice ==
  ASSUME NEW old \in Int, NEW mid \in Int, NEW new \in Int,
         NEW x \in Int, NEW y \in Int, Credit(mid, old, x), Credit(new, mid, y)
  PROVE  Credit(new, old, x + y)
<1>1. PICK k \in Int : mid = old + x + k * Word
  BY DEF Credit
<1>2. PICK j \in Int : new = mid + y + j * Word
  BY DEF Credit
<1>3. /\ k * Word \in Int /\ j * Word \in Int /\ k + j \in Int
      /\ (k + j) * Word = k * Word + j * Word
  BY WordAssumption
<1>4. new = old + (x + y) + (k + j) * Word
  BY <1>1, <1>2, <1>3
<1> QED
  BY <1>3, <1>4 DEF Credit

(* A product that wraps around before it is credited. *)
LEMMA CreditProduct ==
  ASSUME NEW old \in Int, NEW q \in Int, NEW p \in Int
  PROVE  /\ Credit(Plus(old, Times(q, p)), old, q * p)
         /\ Credit(Minus(old, Times(q, p)), old, -(q * p))
<1> DEFINE cost == q * p
           word == Times(q, p)
<1>1. cost \in Int
  OBVIOUS
<1>2. word = cost % Word
  BY DEF Times
<1>3. word \in Int
  BY WordAssumption, <1>1, <1>2
<1> HIDE DEF cost, word
<1>4. PICK k \in Int : word = cost + k * Word
  BY <1>1, <1>2, RemainderWhole
<1>5. PICK i \in Int : Plus(old, word) = old + word + i * Word
  BY <1>3, CreditWords DEF Credit
<1>6. PICK j \in Int : Minus(old, word) = old + (-word) + j * Word
  BY <1>3, CreditWords DEF Credit
<1>7. /\ k * Word \in Int /\ i * Word \in Int /\ j * Word \in Int
      /\ i + k \in Int /\ j - k \in Int
      /\ (i + k) * Word = i * Word + k * Word
      /\ (j - k) * Word = j * Word - k * Word
  BY WordAssumption
<1>8. /\ Plus(old, word) = old + cost + (i + k) * Word
      /\ Minus(old, word) = old + (-cost) + (j - k) * Word
  BY <1>1, <1>3, <1>4, <1>5, <1>6, <1>7
<1>9. Credit(Plus(old, word), old, cost) /\ Credit(Minus(old, word), old, -cost)
  BY <1>7, <1>8 DEF Credit
<1> QED
  BY <1>9 DEF cost, word

(* An account b and what is set aside and on its way, n, agree with the    *)
(* packets, f, as long as each is credited with what the others lose.      *)
Settled(b, n, f) == (b + n - f) % Word = 0
Shifted(n2, n, x, y) == n2 = n - x + y

LEMMA StillWhole ==
  ASSUME NEW b \in Int, NEW n \in Int, NEW f \in Int,
         NEW b2 \in Int, NEW n2 \in Int, NEW f2 \in Int,
         NEW x \in Int, NEW y \in Int, Credit(b2, b, x), Credit(f2, f, y),
         Shifted(n2, n, x, y), Settled(b, n, f)
  PROVE  Settled(b2, n2, f2)
<1>0. n2 + x - y = n /\ (b + n - f) % Word = 0
  BY DEF Shifted, Settled
<1>1. PICK i \in Int : b2 = b + x + i * Word
  BY DEF Credit
<1>2. PICK j \in Int : f2 = f + y + j * Word
  BY DEF Credit
<1>3. PICK k \in Int : 0 = b + n - f + k * Word
  <2>1. b + n - f \in Int
    OBVIOUS
  <2> QED
    BY <1>0, <2>1, RemainderWhole
<1>4. /\ i * Word \in Int /\ j * Word \in Int /\ k * Word \in Int
      /\ i - j - k \in Int
      /\ (i - j - k) * Word = i * Word - j * Word - k * Word
  BY WordAssumption
<1>5. b2 + n2 - f2 = 0 + (i - j - k) * Word
  BY <1>0, <1>1, <1>2, <1>3, <1>4
<1> DEFINE m == i - j - k
<1>6. m \in Int /\ b2 + n2 - f2 = m * Word
  BY <1>4, <1>5
<1> HIDE DEF m
<1>7. (m * Word) % Word = 0
  BY <1>6, WordAssumption
<1> QED
  BY <1>6, <1>7 DEF Settled
-----------------------------------------------------------------------------
(* A step that credits a trader's account with x and what the packets say  *)
(* it owns with y.                                                         *)
FundsMove(u, x, y) ==
  /\ Credit(balance'[u], balance[u], x) /\ Credit(funds'[u], funds[u], y)
  /\ FundsPledged(u)' = FundsPledged(u) - x + y
UnitsMove(u, x, y) ==
  /\ Credit(inventory'[u], inventory[u], x) /\ Credit(stock'[u], stock[u], y)
  /\ UnitsPledged(u)' = UnitsPledged(u) - x + y

FundsSafe(u) == \E x, y \in Int : FundsMove(u, x, y)
UnitsSafe(u) == \E x, y \in Int : UnitsMove(u, x, y)

(* What a call and a trade set aside are numbers. *)
LEMMA PledgesTyped ==
  ASSUME BooksInv, NEW u \in Traders
  PROVE  /\ PostingFunds(u) \in Int /\ PostingUnits(u) \in Int
         /\ TradingFunds(u) \in Int /\ TradingUnits(u) \in Int
         /\ EncumberedFunds(u) \in Int /\ EncumberedUnits(u) \in Int
         /\ FundsPledged(u) \in Int /\ UnitsPledged(u) \in Int
         /\ balance[u] \in Int /\ inventory[u] \in Int
         /\ funds[u] \in Int /\ stock[u] \in Int
<1>0. TypeOK /\ UINT32_MAX \in Nat
  BY WordType DEF BooksInv, CoreInv
<1>1. /\ balance[u] \in Int /\ inventory[u] \in Int
      /\ funds[u] \in Int /\ stock[u] \in Int
  BY <1>0 DEF TypeOK, AccountsOK, HistoryOK
<1>2. PostingFunds(u) \in Int /\ PostingUnits(u) \in Int
  <2>1. call[u] \in Call
    BY <1>0 DEF TypeOK, ThreadsOK
  <2>2. call[u].quant \in Int /\ call[u].price \in Int
    BY <1>0, <2>1 DEF Call
  <2>3. call[u].quant * call[u].price \in Int
    BY <2>2
  <2> QED
    BY <2>2, <2>3 DEF PostingFunds, PostingUnits
<1>3. TradingFunds(u) \in Int /\ TradingUnits(u) \in Int
  <2>1. CASE mpc \in {"pay", "deliver", "refund", "report", "fill"}
    <3>1. /\ Buyer.price \in Int /\ match.price \in Int
          /\ match.quantity \in Int
      BY <1>0, <2>1, TradeOrders DEF TypeOK, ThreadsOK, Match, Order
    <3>2. /\ match.quantity * match.price \in Int
          /\ match.quantity * (Buyer.price - match.price) \in Int
          /\ match.quantity * Buyer.price \in Int
      BY <3>1
    <3> QED
      BY <3>1, <3>2 DEF TradingFunds, TradingUnits
  <2>2. CASE mpc \notin {"pay", "deliver", "refund", "report", "fill"}
    BY <2>2 DEF TradingFunds, TradingUnits
  <2> QED
    BY <2>1, <2>2
<1>4. EncumberedFunds(u) \in Int /\ EncumberedUnits(u) \in Int
  BY BooksTyped DEF BooksInv
<1> QED
  BY <1>1, <1>2, <1>3, <1>4 DEF FundsPledged, UnitsPledged

(* Nothing moves when no part of it does. *)
LEMMA StandStill ==
  ASSUME BooksInv, NEW u \in Traders
  PROVE  /\ /\ UNCHANGED <<balance[u], funds[u]>>
            /\ FundsPledged(u)' = FundsPledged(u)
            => FundsSafe(u)
         /\ /\ UNCHANGED <<inventory[u], stock[u]>>
            /\ UnitsPledged(u)' = UnitsPledged(u)
            => UnitsSafe(u)
<1>0. /\ balance[u] \in Int /\ inventory[u] \in Int
      /\ funds[u] \in Int /\ stock[u] \in Int
      /\ FundsPledged(u) \in Int /\ UnitsPledged(u) \in Int
  BY PledgesTyped
<1>1. /\ Credit(balance[u], balance[u], 0) /\ Credit(funds[u], funds[u], 0)
      /\ Credit(inventory[u], inventory[u], 0) /\ Credit(stock[u], stock[u], 0)
  BY <1>0, CreditNone
<1>2. /\ FundsPledged(u) - 0 + 0 = FundsPledged(u)
      /\ UnitsPledged(u) - 0 + 0 = UnitsPledged(u)
  BY <1>0
<1>3. ASSUME UNCHANGED <<balance[u], funds[u]>>,
             FundsPledged(u)' = FundsPledged(u)
      PROVE  FundsSafe(u)
  <2>1. FundsMove(u, 0, 0)
    BY <1>1, <1>2, <1>3 DEF FundsMove
  <2> QED
    BY <2>1 DEF FundsSafe
<1>4. ASSUME UNCHANGED <<inventory[u], stock[u]>>,
             UnitsPledged(u)' = UnitsPledged(u)
      PROVE  UnitsSafe(u)
  <2>1. UnitsMove(u, 0, 0)
    BY <1>1, <1>2, <1>4 DEF UnitsMove
  <2> QED
    BY <2>1 DEF UnitsSafe
<1> QED
  BY <1>3, <1>4

(* What a step that moves a trader's money and units safely preserves. *)
LEMMA SafeKeeps ==
  ASSUME BooksInv, TypeOK', NEW u \in Traders, FundsSafe(u), UnitsSafe(u),
         (balance[u] + FundsPledged(u) - funds[u]) % Word = 0,
         (inventory[u] + UnitsPledged(u) - stock[u]) % Word = 0
  PROVE  /\ (balance[u] + FundsPledged(u) - funds[u])' % Word = 0
         /\ (inventory[u] + UnitsPledged(u) - stock[u])' % Word = 0
<1>0. /\ balance[u] \in Int /\ inventory[u] \in Int
      /\ funds[u] \in Int /\ stock[u] \in Int
      /\ FundsPledged(u) \in Int /\ UnitsPledged(u) \in Int
  BY PledgesTyped
<1>1. /\ balance'[u] \in Int /\ inventory'[u] \in Int
      /\ funds'[u] \in Int /\ stock'[u] \in Int
  BY WordType DEF TypeOK, AccountsOK, HistoryOK
<1>2. (balance[u] + FundsPledged(u) - funds[u])' % Word = 0
  <2>1. PICK x \in Int, y \in Int : FundsMove(u, x, y)
    BY DEF FundsSafe
  <2> DEFINE n2 == FundsPledged(u)'
             n == FundsPledged(u)
  <2>2. n \in Int /\ n2 = n - x + y
    BY <1>0, <2>1 DEF FundsMove
  <2>3. Settled(balance[u], n, funds[u])
    BY DEF Settled
  <2> HIDE DEF n, n2
  <2>4. n2 \in Int /\ Shifted(n2, n, x, y)
    BY <2>2 DEF Shifted
  <2>5. Credit(balance'[u], balance[u], x) /\ Credit(funds'[u], funds[u], y)
    BY <2>1 DEF FundsMove
  <2>6. Settled(balance'[u], n2, funds'[u])
    BY ONLY <1>0, <1>1, <2>2, <2>3, <2>4, <2>5, x \in Int, y \in Int,
            StillWhole
  <2> QED
    BY <2>6 DEF n2, Settled
<1>3. (inventory[u] + UnitsPledged(u) - stock[u])' % Word = 0
  <2>1. PICK x \in Int, y \in Int : UnitsMove(u, x, y)
    BY DEF UnitsSafe
  <2> DEFINE n2 == UnitsPledged(u)'
             n == UnitsPledged(u)
  <2>2. n \in Int /\ n2 = n - x + y
    BY <1>0, <2>1 DEF UnitsMove
  <2>3. Settled(inventory[u], n, stock[u])
    BY DEF Settled
  <2> HIDE DEF n, n2
  <2>4. n2 \in Int /\ Shifted(n2, n, x, y)
    BY <2>2 DEF Shifted
  <2>5. Credit(inventory'[u], inventory[u], x) /\ Credit(stock'[u], stock[u], y)
    BY <2>1 DEF UnitsMove
  <2>6. Settled(inventory'[u], n2, stock'[u])
    BY ONLY <1>0, <1>1, <2>2, <2>3, <2>4, <2>5, x \in Int, y \in Int,
            StillWhole
  <2> QED
    BY <2>6 DEF n2, Settled
<1> QED
  BY <1>2, <1>3

(* What a service thread does to the money and units of a trader. *)
LEMMA ServiceSafe ==
  ASSUME BooksInv, NEW t \in Traders, Service(t) \/ ServiceStep(t),
         NEW u \in Traders
  PROVE  FundsSafe(u) /\ UnitsSafe(u)
<1>0. /\ TypeOK /\ MutualExclusion /\ CallInv
      /\ pc \in [Traders -> ServicePoints] /\ call \in [Traders -> Call]
      /\ balance \in [Traders -> 0..UINT32_MAX]
      /\ inventory \in [Traders -> 0..UINT32_MAX]
      /\ funds \in [Traders -> 0..UINT32_MAX]
      /\ stock \in [Traders -> 0..UINT32_MAX] /\ UINT32_MAX \in Nat
  BY WordType DEF BooksInv, CoreInv, TypeOK, ThreadsOK, AccountsOK, HistoryOK
<1>1. /\ PostingFunds(u) \in Int /\ PostingUnits(u) \in Int
      /\ TradingFunds(u) \in Int /\ TradingUnits(u) \in Int
      /\ EncumberedFunds(u) \in Int /\ EncumberedUnits(u) \in Int
      /\ FundsPledged(u) \in Int /\ UnitsPledged(u) \in Int
      /\ balance[u] \in Int /\ inventory[u] \in Int
      /\ funds[u] \in Int /\ stock[u] \in Int
  BY PledgesTyped
<1>2. /\ mpc' = mpc /\ match' = match
      /\ \A v \in Traders \ {t} : pc'[v] = pc[v] /\ call'[v] = call[v]
  BY <1>0, ServiceQuiet
<1>3. TradingFunds(u)' = TradingFunds(u) /\ TradingUnits(u)' = TradingUnits(u)
  <2>1. CASE UNCHANGED <<buy_orders, sell_orders>>
    BY <1>2, <2>1 DEF TradingFunds, TradingUnits, Seller, Buyer
  <2>2. CASE mpc \notin MatcherCritical
    BY <1>2, <2>2 DEF TradingFunds, TradingUnits, MatcherCritical, MatcherTrading
  <2> QED
    BY <1>0, <2>1, <2>2, ServiceBook
<1>4. ASSUME UNCHANGED <<buy_orders, sell_orders>>
      PROVE  /\ FundsPledged(u)' =
                  EncumberedFunds(u) + PostingFunds(u)' - TradingFunds(u)
             /\ UnitsPledged(u)' =
                  EncumberedUnits(u) + PostingUnits(u)' - TradingUnits(u)
  BY <1>3, <1>4, SameBooks DEF FundsPledged, UnitsPledged
<1>5. ASSUME u # t \/ /\ pc[t] \notin {"insert", "refund"}
                       /\ pc'[t] \notin {"insert", "refund"}
      PROVE  /\ PostingFunds(u)' = PostingFunds(u)
             /\ PostingUnits(u)' = PostingUnits(u)
  BY <1>2, <1>5 DEF PostingFunds, PostingUnits
<1>6. ASSUME UNCHANGED <<buy_orders, sell_orders>>,
             PostingFunds(u)' = PostingFunds(u),
             PostingUnits(u)' = PostingUnits(u)
      PROVE  FundsPledged(u)' = FundsPledged(u) /\ UnitsPledged(u)' = UnitsPledged(u)
  BY <1>4, <1>6 DEF FundsPledged, UnitsPledged
<1>7. ASSUME UNCHANGED <<buy_orders, sell_orders, accounts, funds, stock>>,
             pc[t] \notin {"insert", "refund"}, pc'[t] \notin {"insert", "refund"}
      PROVE  FundsSafe(u) /\ UnitsSafe(u)
  BY <1>5, <1>6, <1>7, StandStill DEF accounts
<1>8. ASSUME NEW amount \in Amounts, UNCHANGED <<pc, call>>,
             \/ Deposit(t, amount) \/ Withdraw(t, amount)
             \/ Escrow(t, amount)  \/ Release(t, amount)
      PROVE  FundsSafe(u) /\ UnitsSafe(u)
  <2>1. /\ UNCHANGED <<buy_orders, sell_orders>> /\ amount \in Int
        /\ PostingFunds(u)' = PostingFunds(u)
        /\ PostingUnits(u)' = PostingUnits(u)
    BY <1>0, <1>8, RequestWords DEF Deposit, Withdraw, Escrow, Release, Funding,
       exchange, book, PostingFunds, PostingUnits
  <2>2. FundsPledged(u)' = FundsPledged(u) /\ UnitsPledged(u)' = UnitsPledged(u)
    BY <1>6, <2>1
  <2>3. /\ Credit(Plus(balance[u], amount), balance[u], amount)
        /\ Credit(Minus(balance[u], amount), balance[u], -amount)
        /\ Credit(Plus(funds[u], amount), funds[u], amount)
        /\ Credit(Minus(funds[u], amount), funds[u], -amount)
        /\ Credit(Plus(inventory[u], amount), inventory[u], amount)
        /\ Credit(Minus(inventory[u], amount), inventory[u], -amount)
        /\ Credit(Plus(stock[u], amount), stock[u], amount)
        /\ Credit(Minus(stock[u], amount), stock[u], -amount)
    BY <1>1, <2>1, CreditWords
  <2>4. /\ FundsPledged(u)' = FundsPledged(u) - amount + amount
        /\ FundsPledged(u)' = FundsPledged(u) - (-amount) + (-amount)
        /\ UnitsPledged(u)' = UnitsPledged(u) - amount + amount
        /\ UnitsPledged(u)' = UnitsPledged(u) - (-amount) + (-amount)
        /\ -amount \in Int
    BY <1>1, <2>1, <2>2
  <2>5. \/ UNCHANGED <<balance[u], funds[u]>>
        \/ /\ balance'[u] = Plus(balance[u], amount)
           /\ funds'[u] = Plus(funds[u], amount)
        \/ /\ balance'[u] = Minus(balance[u], amount)
           /\ funds'[u] = Minus(funds[u], amount)
    BY <1>0, <1>8 DEF Deposit, Withdraw, Escrow, Release,
       trader_increase_balance, trader_decrease_balance
  <2>6. \/ UNCHANGED <<inventory[u], stock[u]>>
        \/ /\ inventory'[u] = Plus(inventory[u], amount)
           /\ stock'[u] = Plus(stock[u], amount)
        \/ /\ inventory'[u] = Minus(inventory[u], amount)
           /\ stock'[u] = Minus(stock[u], amount)
    BY <1>0, <1>8 DEF Deposit, Withdraw, Escrow, Release,
       trader_increase_inventory, trader_decrease_inventory
  <2>7. \/ UNCHANGED <<balance[u], funds[u]>>
        \/ FundsMove(u, amount, amount)
        \/ FundsMove(u, -amount, -amount)
    BY <2>3, <2>4, <2>5 DEF FundsMove
  <2>8. \/ UNCHANGED <<inventory[u], stock[u]>>
        \/ UnitsMove(u, amount, amount)
        \/ UnitsMove(u, -amount, -amount)
    BY <2>3, <2>4, <2>6 DEF UnitsMove
  <2>9. FundsSafe(u)
    BY <2>1, <2>2, <2>4, <2>7, StandStill DEF FundsSafe
  <2>10. UnitsSafe(u)
    BY <2>1, <2>2, <2>4, <2>8, StandStill DEF UnitsSafe
  <2> QED
    BY <2>9, <2>10
<1> DEFINE q == call[t].quant
           p == call[t].price
<1>9. q \in Int /\ p \in Int /\ q * p \in Int
  <2>1. q \in Int /\ p \in Int
    BY <1>0 DEF Call
  <2> HIDE DEF q, p
  <2> QED
    BY <2>1
<1>10. CASE DebitBuy(t) \/ DebitSell(t)
  <2>1. UNCHANGED <<buy_orders, sell_orders, call, funds, stock>>
    BY <1>10 DEF DebitBuy, DebitSell, exchange, book, history
  <2>2. CASE u # t
    BY <1>0, <1>5, <1>6, <1>10, <2>1, <2>2, StandStill DEF DebitBuy, DebitSell,
       trader_decrease_balance, trader_decrease_inventory
  <2>3. CASE u = t /\ DebitBuy(t) /\ pc'[t] = "insert"
    <3>1. /\ balance'[t] = Minus(balance[t], Times(q, p))
          /\ pc[t] = "debit" /\ inventory' = inventory /\ call[t].op = "buy"
      BY <1>0, <2>3 DEF DebitBuy, Goto, trader_decrease_balance
    <3>2. /\ PostingFunds(t) = 0 /\ PostingFunds(t)' = q * p
          /\ PostingUnits(t) = 0 /\ PostingUnits(t)' = 0
      BY <2>1, <2>3, <3>1 DEF PostingFunds, PostingUnits
    <3> DEFINE cost == q * p
    <3>3. cost \in Int /\ -cost \in Int
      BY <1>9
    <3>4. /\ Credit(balance'[t], balance[t], -cost)
          /\ Credit(funds'[t], funds[t], 0)
      <4>1. Credit(Minus(balance[t], Times(q, p)), balance[t], -(q * p))
        BY <1>1, <1>9, <2>3, CreditProduct
      <4>2. Credit(funds[t], funds[t], 0)
        BY <1>1, <2>3, CreditNone
      <4> QED
        BY <2>1, <3>1, <4>1, <4>2
    <3>5. PostingFunds(t)' = cost
      BY <3>2
    <3> HIDE DEF cost
    <3>6. FundsPledged(t)' = FundsPledged(t) - (-cost) + 0
      BY <1>1, <1>4, <2>1, <2>3, <3>2, <3>3, <3>5 DEF FundsPledged
    <3>7. FundsMove(t, -cost, 0)
      BY <3>4, <3>6 DEF FundsMove
    <3>8. UnitsPledged(t)' = UnitsPledged(t)
      BY <1>4, <2>1, <2>3, <3>2 DEF UnitsPledged
    <3> QED
      BY <2>1, <2>3, <3>1, <3>3, <3>7, <3>8, StandStill DEF FundsSafe
  <2>4. CASE u = t /\ DebitSell(t) /\ pc'[t] = "insert"
    <3>1. /\ inventory'[t] = Minus(inventory[t], q)
          /\ pc[t] = "debit" /\ balance' = balance /\ call[t].op = "sell"
      BY <1>0, <2>4 DEF DebitSell, Goto, trader_decrease_inventory
    <3>2. /\ PostingFunds(t) = 0 /\ PostingFunds(t)' = 0
          /\ PostingUnits(t) = 0 /\ PostingUnits(t)' = q
      BY <2>1, <2>4, <3>1 DEF PostingFunds, PostingUnits
    <3>3. q \in Int /\ -q \in Int
      BY <1>9
    <3> HIDE DEF q
    <3>4. /\ Credit(inventory'[t], inventory[t], -q)
          /\ Credit(stock'[t], stock[t], 0)
      BY <1>1, <2>1, <2>4, <3>1, <3>3, CreditWords, CreditNone
    <3>5. UnitsPledged(t)' = UnitsPledged(t) - (-q) + 0
      BY <1>1, <1>4, <2>1, <2>4, <3>2, <3>3 DEF UnitsPledged
    <3>6. UnitsMove(t, -q, 0)
      BY <3>4, <3>5 DEF UnitsMove
    <3>7. FundsPledged(t)' = FundsPledged(t)
      BY <1>4, <2>1, <2>4, <3>2 DEF FundsPledged
    <3> QED
      BY <2>1, <2>4, <3>1, <3>3, <3>6, <3>7, StandStill DEF UnitsSafe
  <2>5. CASE pc'[t] # "insert"
    <3>1. pc[t] = "debit" /\ pc'[t] = "unlock" /\ UNCHANGED <<balance, inventory>>
      BY <1>0, <1>10, <2>5 DEF DebitBuy, DebitSell, Goto
    <3> QED
      BY <1>5, <1>6, <2>1, <3>1, StandStill
  <2> QED
    BY <1>10, <2>2, <2>3, <2>4, <2>5
<1>11. CASE Insert(t)
  <2>1. /\ pc[t] = "insert" /\ pc'[t] = "post_broadcast"
        /\ UNCHANGED <<balance, inventory, funds, stock>>
        /\ call[t].op \in {"buy", "sell"}
    BY <1>0, <1>11 DEF Insert, Goto, history, CallInv
  <2>2. /\ EncumberedFunds(u)' = EncumberedFunds(u)
             + (IF call[t].op = "buy" THEN Cost(NewOrder(t), u) ELSE 0)
        /\ EncumberedUnits(u)' = EncumberedUnits(u)
             + (IF call[t].op = "buy" THEN 0 ELSE Units(NewOrder(t), u))
    BY <1>11, InsertEffect
  <2>3. CASE u # t
    <3>1. Cost(NewOrder(t), u) = 0 /\ Units(NewOrder(t), u) = 0
      BY <2>3 DEF Cost, Units, NewOrder
    <3>2. FundsPledged(u)' = FundsPledged(u) /\ UnitsPledged(u)' = UnitsPledged(u)
      BY <1>1, <1>3, <1>5, <2>2, <2>3, <3>1 DEF FundsPledged, UnitsPledged
    <3> QED
      BY <2>1, <3>2, StandStill
  <2>4. CASE u = t
    <3> DEFINE cost == q * p
    <3>1. Cost(NewOrder(t), t) = cost /\ Units(NewOrder(t), t) = q
      BY DEF Cost, Units, NewOrder
    <3>2. /\ PostingFunds(t) = IF call[t].op = "buy" THEN cost ELSE 0
          /\ PostingUnits(t) = IF call[t].op = "sell" THEN q ELSE 0
          /\ PostingFunds(t)' = 0 /\ PostingUnits(t)' = 0
      BY <2>1 DEF PostingFunds, PostingUnits
    <3>3. cost \in Int /\ q \in Int
      BY <1>9
    <3> HIDE DEF cost, q
    <3>4. FundsPledged(t)' = FundsPledged(t) /\ UnitsPledged(t)' = UnitsPledged(t)
      BY <1>1, <1>3, <2>1, <2>2, <2>4, <3>1, <3>2, <3>3
         DEF FundsPledged, UnitsPledged
    <3> QED
      BY <2>1, <2>4, <3>4, StandStill
  <2> QED
    BY <2>3, <2>4
<1>12. CASE CancelFinds(t)
  <2>1. /\ pc[t] = "find" /\ pc'[t] = "refund"
        /\ UNCHANGED <<balance, inventory, funds, stock>>
    BY <1>0, <1>12 DEF CancelFinds, Goto, history, accounts
  <2>2. PICK order \in Order, op \in {"cancel_buy", "cancel_sell"} :
          /\ order.trader = t
          /\ call' = [call EXCEPT ![t] =
                        [op |-> op, id |-> call[t].id,
                         quant |-> order.quant, price |-> order.price]]
          /\ EncumberedFunds(u) = EncumberedFunds(u)'
               + (IF op = "cancel_buy" THEN Cost(order, u) ELSE 0)
          /\ EncumberedUnits(u) = EncumberedUnits(u)'
               + (IF op = "cancel_sell" THEN Units(order, u) ELSE 0)
          /\ EncumberedFunds(u)' \in Int /\ EncumberedUnits(u)' \in Int
    BY <1>12, CancelEffect
  <2>3. CASE u # t
    <3>1. Cost(order, u) = 0 /\ Units(order, u) = 0
      BY <2>2, <2>3 DEF Cost, Units
    <3>2. FundsPledged(u)' = FundsPledged(u) /\ UnitsPledged(u)' = UnitsPledged(u)
      BY <1>1, <1>3, <1>5, <2>2, <2>3, <3>1 DEF FundsPledged, UnitsPledged
    <3> QED
      BY <2>1, <3>2, StandStill
  <2>4. CASE u = t
    <3> DEFINE cost == order.quant * order.price
               units == order.quant
    <3>1. Cost(order, t) = cost /\ Units(order, t) = units
      BY <2>2 DEF Cost, Units
    <3>2. /\ call'[t].op = op /\ call'[t].quant = units
          /\ call'[t].price = order.price
      BY <1>0, <2>2
    <3>3. /\ PostingFunds(t) = 0 /\ PostingUnits(t) = 0
          /\ PostingFunds(t)' = IF op = "cancel_buy" THEN cost ELSE 0
          /\ PostingUnits(t)' = IF op = "cancel_sell" THEN units ELSE 0
      BY <2>1, <3>2 DEF PostingFunds, PostingUnits
    <3>4. cost \in Int /\ units \in Int
      <4>1. units \in Int /\ order.price \in Int
        BY <1>0, <2>2 DEF Order
      <4> QED
        BY <4>1
    <3> HIDE DEF cost, units
    <3>5. FundsPledged(t)' = FundsPledged(t) /\ UnitsPledged(t)' = UnitsPledged(t)
      BY <1>1, <1>3, <2>2, <2>4, <3>1, <3>3, <3>4 DEF FundsPledged, UnitsPledged
    <3> QED
      BY <2>1, <2>4, <3>5, StandStill
  <2> QED
    BY <2>3, <2>4
<1>13. CASE CancelRefund(t)
  <2>1. /\ pc[t] = "refund" /\ pc'[t] = "cancel_broadcast"
        /\ UNCHANGED <<buy_orders, sell_orders, call, funds, stock>>
        /\ call[t].op \in {"cancel_buy", "cancel_sell"}
    BY <1>0, <1>13 DEF CancelRefund, Goto, history, CallInv, exchange, book
  <2>2. CASE u # t
    BY <1>0, <1>5, <1>6, <1>13, <2>1, <2>2, StandStill DEF CancelRefund,
       trader_increase_balance, trader_increase_inventory
  <2>3. CASE u = t /\ call[t].op = "cancel_buy"
    <3>1. balance'[t] = Plus(balance[t], Times(q, p)) /\ inventory' = inventory
      BY <1>0, <1>13, <2>3 DEF CancelRefund, trader_increase_balance
    <3> DEFINE cost == q * p
    <3>2. /\ PostingFunds(t) = cost /\ PostingFunds(t)' = 0
          /\ PostingUnits(t) = 0 /\ PostingUnits(t)' = 0
      BY <2>1, <2>3 DEF PostingFunds, PostingUnits
    <3>3. cost \in Int
      BY <1>9
    <3>4. /\ Credit(balance'[t], balance[t], cost)
          /\ Credit(funds'[t], funds[t], 0)
      BY <1>1, <1>9, <2>1, <2>3, <3>1, CreditProduct, CreditNone
    <3> HIDE DEF cost
    <3>5. FundsPledged(t)' = FundsPledged(t) - cost + 0
      BY <1>1, <1>4, <2>1, <2>3, <3>2, <3>3 DEF FundsPledged
    <3>6. FundsMove(t, cost, 0)
      BY <3>4, <3>5 DEF FundsMove
    <3>7. UnitsPledged(t)' = UnitsPledged(t)
      BY <1>4, <2>1, <2>3, <3>2 DEF UnitsPledged
    <3> QED
      BY <2>1, <2>3, <3>1, <3>3, <3>6, <3>7, StandStill DEF FundsSafe
  <2>4. CASE u = t /\ call[t].op = "cancel_sell"
    <3>1. inventory'[t] = Plus(inventory[t], q) /\ balance' = balance
      BY <1>0, <1>13, <2>4 DEF CancelRefund, trader_increase_inventory
    <3>2. /\ PostingFunds(t) = 0 /\ PostingFunds(t)' = 0
          /\ PostingUnits(t) = q /\ PostingUnits(t)' = 0
      BY <2>1, <2>4 DEF PostingFunds, PostingUnits
    <3>3. q \in Int
      BY <1>9
    <3> HIDE DEF q
    <3>4. /\ Credit(inventory'[t], inventory[t], q)
          /\ Credit(stock'[t], stock[t], 0)
      BY <1>1, <2>1, <2>4, <3>1, <3>3, CreditWords, CreditNone
    <3>5. UnitsPledged(t)' = UnitsPledged(t) - q + 0
      BY <1>1, <1>4, <2>1, <2>4, <3>2, <3>3 DEF UnitsPledged
    <3>6. UnitsMove(t, q, 0)
      BY <3>4, <3>5 DEF UnitsMove
    <3>7. FundsPledged(t)' = FundsPledged(t)
      BY <1>4, <2>1, <2>4, <3>2 DEF FundsPledged
    <3> QED
      BY <2>1, <2>4, <3>1, <3>3, <3>6, <3>7, StandStill DEF UnitsSafe
  <2> QED
    BY <2>1, <2>2, <2>3, <2>4
<1>14. CASE BroadcastPosted(t) \/ BroadcastCanceled(t)
  BY <1>0, <1>7, <1>14 DEF BroadcastPosted, BroadcastCanceled, Goto, exchange,
     book, accounts
<1> QED
  BY <1>0, <1>7, <1>8, <1>10, <1>11, <1>12, <1>13, <1>14, ServiceQuiet
     DEF accounts

(* What the matchmaker does to the money and units of a trader. *)
LEMMA MatcherSafe ==
  ASSUME BooksInv, Matcher, NEW u \in Traders
  PROVE  FundsSafe(u) /\ UnitsSafe(u)
<1>0. /\ TypeOK /\ UINT32_MAX \in Nat
      /\ balance \in [Traders -> 0..UINT32_MAX]
      /\ inventory \in [Traders -> 0..UINT32_MAX]
      /\ funds \in [Traders -> 0..UINT32_MAX]
      /\ stock \in [Traders -> 0..UINT32_MAX]
  BY WordType DEF BooksInv, CoreInv, TypeOK, AccountsOK, HistoryOK
<1>1. /\ PostingFunds(u) \in Int /\ PostingUnits(u) \in Int
      /\ TradingFunds(u) \in Int /\ TradingUnits(u) \in Int
      /\ EncumberedFunds(u) \in Int /\ EncumberedUnits(u) \in Int
      /\ FundsPledged(u) \in Int /\ UnitsPledged(u) \in Int
      /\ balance[u] \in Int /\ inventory[u] \in Int
      /\ funds[u] \in Int /\ stock[u] \in Int
  BY PledgesTyped
<1>2. PostingFunds(u)' = PostingFunds(u) /\ PostingUnits(u)' = PostingUnits(u)
  BY MatcherQuiet DEF PostingFunds, PostingUnits
<1>3. ASSUME UNCHANGED <<buy_orders, sell_orders>>
      PROVE  /\ FundsPledged(u)' =
                  EncumberedFunds(u) + PostingFunds(u) - TradingFunds(u)'
             /\ UnitsPledged(u)' =
                  EncumberedUnits(u) + PostingUnits(u) - TradingUnits(u)'
  BY <1>2, <1>3, SameBooks DEF FundsPledged, UnitsPledged
<1> DEFINE q == match.quantity
           c == match.quantity * match.price
           r == match.quantity * (Buyer.price - match.price)
           d == match.quantity * Buyer.price
           s == Seller.trader
           b == Buyer.trader
<1>4. ASSUME mpc \in {"pay", "deliver", "refund", "report", "fill"}
      PROVE  /\ q \in Int /\ c \in Int /\ r \in Int /\ d \in Int
             /\ -c \in Int /\ -q \in Int /\ c + r = d
             /\ s \in Traders /\ b \in Traders
             /\ ~ (match.price < Buyer.price) => r = 0
  <2> DEFINE m == match.price
             p == Buyer.price
  <2>1. /\ q \in Int /\ m \in Int /\ p \in Int /\ s \in Traders /\ b \in Traders
        /\ ~ (m < p) => m = p
    BY <1>0, <1>4, TradeOrders DEF TypeOK, ThreadsOK, Match, Order
  <2> HIDE DEF q, m, p, s, b
  <2>2. /\ q * m \in Int /\ q * (p - m) \in Int /\ q * p \in Int
        /\ -(q * m) \in Int /\ -q \in Int
        /\ q * m + q * (p - m) = q * p
        /\ ~ (m < p) => q * (p - m) = 0
    BY <2>1
  <2> QED
    BY <2>1, <2>2 DEF q, m, p
<1>5. ASSUME UNCHANGED <<buy_orders, sell_orders, match>>
      PROVE  /\ TradingFunds(u)' =
                  (IF mpc' \in {"deliver", "refund", "report"} /\ u = s
                     THEN c ELSE 0)
                  + (IF mpc' = "report" /\ u = b THEN r ELSE 0)
                  + (IF mpc' = "fill" /\ u = b THEN d ELSE 0)
             /\ TradingUnits(u)' =
                  (IF mpc' \in {"refund", "report"} /\ u = b THEN q ELSE 0)
                  + (IF mpc' = "fill" /\ u = s THEN q ELSE 0)
  BY <1>5 DEF TradingFunds, TradingUnits, Seller, Buyer
<1>6. /\ TradingFunds(u) =
           (IF mpc \in {"deliver", "refund", "report"} /\ u = s THEN c ELSE 0)
           + (IF mpc = "report" /\ u = b THEN r ELSE 0)
           + (IF mpc = "fill" /\ u = b THEN d ELSE 0)
      /\ TradingUnits(u) =
           (IF mpc \in {"refund", "report"} /\ u = b THEN q ELSE 0)
           + (IF mpc = "fill" /\ u = s THEN q ELSE 0)
  BY DEF TradingFunds, TradingUnits
<1>7. ASSUME UNCHANGED <<balance, inventory, funds, stock>>,
             FundsPledged(u)' = FundsPledged(u), UnitsPledged(u)' = UnitsPledged(u)
      PROVE  FundsSafe(u) /\ UnitsSafe(u)
  BY <1>7, StandStill
<1>8. CASE MatcherPay
  <2>1. /\ mpc = "pay" /\ mpc' = "deliver"
        /\ UNCHANGED <<buy_orders, sell_orders, match, inventory, funds, stock>>
        /\ balance' = [balance EXCEPT ![s] = Plus(@, Times(q, match.price))]
    BY <1>8 DEF MatcherPay, Step, exchange, book, history,
       trader_increase_balance
  <2>2. /\ q \in Int /\ match.price \in Int /\ c \in Int
        /\ s \in Traders
    BY <1>0, <1>4, <2>1 DEF TypeOK, ThreadsOK, Match
  <2>3. Credit(Plus(balance[u], Times(q, match.price)), balance[u], c)
    BY <1>1, <2>2, CreditProduct
  <2>4. /\ TradingFunds(u) = 0 /\ TradingFunds(u)' = IF u = s THEN c ELSE 0
        /\ TradingUnits(u) = 0 /\ TradingUnits(u)' = 0
    BY <1>5, <1>6, <2>1, <2>2
  <2>5. balance'[u] = IF u = s THEN Plus(balance[u], Times(q, match.price))
                               ELSE balance[u]
    BY <1>0, <2>1, <2>2
  <2> HIDE DEF c, s, q
  <2>6. /\ FundsPledged(u)' = FundsPledged(u) - (IF u = s THEN c ELSE 0) + 0
        /\ UnitsPledged(u)' = UnitsPledged(u)
    BY <1>1, <1>3, <2>1, <2>2, <2>4 DEF FundsPledged, UnitsPledged
  <2>7. CASE u = s
    <3>1. FundsMove(u, c, 0)
      BY <1>1, <2>1, <2>3, <2>5, <2>6, <2>7, CreditNone DEF FundsMove
    <3> QED
      BY <2>1, <2>2, <2>6, <3>1, StandStill DEF FundsSafe
  <2>8. CASE u # s
    BY <1>1, <2>1, <2>5, <2>6, <2>8, StandStill
  <2> QED
    BY <2>7, <2>8
<1>9. CASE MatcherDeliver
  <2>1. /\ mpc = "deliver" /\ mpc' = "refund"
        /\ UNCHANGED <<buy_orders, sell_orders, match, balance, funds, stock>>
        /\ inventory' = [inventory EXCEPT ![b] = Plus(@, q)]
    BY <1>9 DEF MatcherDeliver, Step, exchange, book, history,
       trader_increase_inventory
  <2>2. q \in Int /\ c \in Int /\ b \in Traders
    BY <1>4, <2>1
  <2>3. Credit(Plus(inventory[u], q), inventory[u], q)
    BY <1>1, <2>2, CreditWords
  <2>4. /\ TradingFunds(u)' = TradingFunds(u)
        /\ TradingUnits(u) = 0 /\ TradingUnits(u)' = IF u = b THEN q ELSE 0
    BY <1>5, <1>6, <2>1, <2>2
  <2>5. inventory'[u] = IF u = b THEN Plus(inventory[u], q) ELSE inventory[u]
    BY <1>0, <2>1, <2>2
  <2> HIDE DEF b, q
  <2>6. /\ UnitsPledged(u)' = UnitsPledged(u) - (IF u = b THEN q ELSE 0) + 0
        /\ FundsPledged(u)' = FundsPledged(u)
    BY <1>1, <1>3, <2>1, <2>2, <2>4 DEF FundsPledged, UnitsPledged
  <2>7. CASE u = b
    <3>1. UnitsMove(u, q, 0)
      BY <1>1, <2>1, <2>3, <2>5, <2>6, <2>7, CreditNone DEF UnitsMove
    <3> QED
      BY <2>1, <2>2, <2>6, <3>1, StandStill DEF UnitsSafe
  <2>8. CASE u # b
    BY <1>1, <2>1, <2>5, <2>6, <2>8, StandStill
  <2> QED
    BY <2>7, <2>8
<1>10. CASE MatcherRefund
  <2>1. /\ mpc = "refund" /\ mpc' = "report"
        /\ UNCHANGED <<buy_orders, sell_orders, match, inventory, funds, stock>>
        /\ balance' = IF match.price < Buyer.price
                        THEN [balance EXCEPT
                               ![b] = Plus(@, Times(q, Buyer.price - match.price))]
                        ELSE balance
    BY <1>10 DEF MatcherRefund, Step, exchange, book, history,
       trader_increase_balance
  <2>2. /\ q \in Int /\ c \in Int /\ r \in Int /\ b \in Traders
        /\ Buyer.price - match.price \in Int
        /\ ~ (match.price < Buyer.price) => r = 0
    <3>1. match.price \in Int /\ Buyer.price \in Int
      BY <1>0, <2>1, TradeOrders DEF TypeOK, ThreadsOK, Match, Order
    <3> QED
      BY <1>4, <2>1, <3>1
  <2>3. Credit(Plus(balance[u], Times(q, Buyer.price - match.price)), balance[u], r)
    BY <1>1, <2>2, CreditProduct
  <2>4. /\ TradingFunds(u)' = TradingFunds(u) + (IF u = b THEN r ELSE 0)
        /\ TradingUnits(u)' = TradingUnits(u)
    BY <1>5, <1>6, <2>1, <2>2
  <2>5. balance'[u] = IF u = b /\ match.price < Buyer.price
                        THEN Plus(balance[u], Times(q, Buyer.price - match.price))
                        ELSE balance[u]
    BY <1>0, <2>1, <2>2
  <2> HIDE DEF b, q, r
  <2>6. /\ FundsPledged(u)' = FundsPledged(u) - (IF u = b THEN r ELSE 0) + 0
        /\ UnitsPledged(u)' = UnitsPledged(u)
    BY <1>1, <1>3, <2>1, <2>2, <2>4 DEF FundsPledged, UnitsPledged
  <2>7. CASE u = b /\ match.price < Buyer.price
    <3>1. FundsMove(u, r, 0)
      BY <1>1, <2>1, <2>3, <2>5, <2>6, <2>7, CreditNone DEF FundsMove
    <3> QED
      BY <2>1, <2>2, <2>6, <3>1, StandStill DEF FundsSafe
  <2>8. CASE ~ (u = b /\ match.price < Buyer.price)
    <3>1. FundsPledged(u)' = FundsPledged(u)
      BY <1>1, <2>2, <2>6, <2>8
    <3> QED
      BY <2>1, <2>5, <2>6, <2>8, <3>1, StandStill
  <2> QED
    BY <2>7, <2>8
<1>11. CASE MatcherReport
  <2> DEFINE word == Times(match.quantity, match.price)
  <2>1. /\ mpc = "report" /\ mpc' = "fill"
        /\ UNCHANGED <<buy_orders, sell_orders, match, balance, inventory>>
        /\ funds' = Passed(funds, b, s, word)
        /\ stock' = Passed(stock, s, b, q)
    BY <1>11 DEF MatcherReport, Step, exchange, book, accounts
  <2>2. /\ q \in Int /\ c \in Int /\ r \in Int /\ d \in Int /\ c + r = d
        /\ s \in Traders /\ b \in Traders /\ match.price \in Int
        /\ -c \in Int /\ -q \in Int
    BY <1>0, <1>4, <2>1 DEF TypeOK, ThreadsOK, Match
  <2>3. /\ funds'[u] = IF u = s
             THEN Plus(IF u = b THEN Minus(funds[u], word) ELSE funds[u], word)
             ELSE IF u = b THEN Minus(funds[u], word) ELSE funds[u]
        /\ stock'[u] = IF u = b
             THEN Plus(IF u = s THEN Minus(stock[u], q) ELSE stock[u], q)
             ELSE IF u = s THEN Minus(stock[u], q) ELSE stock[u]
    BY <2>1 DEF Passed
  <2>4. /\ TradingFunds(u) =
             (IF u = s THEN c ELSE 0) + (IF u = b THEN r ELSE 0)
        /\ TradingFunds(u)' = IF u = b THEN d ELSE 0
        /\ TradingUnits(u) = IF u = b THEN q ELSE 0
        /\ TradingUnits(u)' = IF u = s THEN q ELSE 0
    BY <1>5, <1>6, <2>1, <2>2
  <2>5. ASSUME NEW x \in Int
        PROVE  /\ Credit(Plus(x, word), x, c) /\ Credit(Minus(x, word), x, -c)
               /\ Credit(Plus(x, q), x, q) /\ Credit(Minus(x, q), x, -q)
               /\ Minus(x, word) \in Int /\ Plus(x, word) \in Int
               /\ Minus(x, q) \in Int /\ Plus(x, q) \in Int
    <3>1. word \in Int
      BY <2>2, WordsInt
    <3>2. Credit(Plus(x, word), x, c) /\ Credit(Minus(x, word), x, -c)
      BY <2>2, CreditProduct
    <3> HIDE DEF word, q, c
    <3> QED
      BY <2>2, <3>1, <3>2, CreditWords, WordsInt
  <2> HIDE DEF word, q, c, r, d, s, b
  <2> DEFINE y == (IF u = b THEN -c ELSE 0) + (IF u = s THEN c ELSE 0)
             z == (IF u = s THEN -q ELSE 0) + (IF u = b THEN q ELSE 0)
  <2>6. Credit(funds'[u], funds[u], y)
    <3> DEFINE mid == IF u = b THEN Minus(funds[u], word) ELSE funds[u]
    <3>1. mid \in Int /\ Credit(mid, funds[u], IF u = b THEN -c ELSE 0)
      BY <1>1, <2>5, CreditNone
    <3>2. funds'[u] = IF u = s THEN Plus(mid, word) ELSE mid
      BY <2>3
    <3> HIDE DEF mid
    <3>3. /\ funds'[u] \in Int
          /\ Credit(funds'[u], mid, IF u = s THEN c ELSE 0)
      BY <2>5, <3>1, <3>2, CreditNone
    <3> DEFINE v == IF u = b THEN -c ELSE 0
               w == IF u = s THEN c ELSE 0
    <3>4. v \in Int /\ w \in Int
      BY <2>2
    <3>5. Credit(mid, funds[u], v) /\ Credit(funds'[u], mid, w)
      BY <3>1, <3>3
    <3> HIDE DEF v, w
    <3>6. Credit(funds'[u], funds[u], v + w)
      BY <1>1, <3>1, <3>3, <3>4, <3>5, CreditTwice
    <3> QED
      BY <3>6 DEF v, w
  <2>7. Credit(stock'[u], stock[u], z)
    <3> DEFINE mid == IF u = s THEN Minus(stock[u], q) ELSE stock[u]
    <3>1. mid \in Int /\ Credit(mid, stock[u], IF u = s THEN -q ELSE 0)
      BY <1>1, <2>5, CreditNone
    <3>2. stock'[u] = IF u = b THEN Plus(mid, q) ELSE mid
      BY <2>3
    <3> HIDE DEF mid
    <3>3. /\ stock'[u] \in Int
          /\ Credit(stock'[u], mid, IF u = b THEN q ELSE 0)
      BY <2>5, <3>1, <3>2, CreditNone
    <3> DEFINE v == IF u = s THEN -q ELSE 0
               w == IF u = b THEN q ELSE 0
    <3>4. v \in Int /\ w \in Int
      BY <2>2
    <3>5. Credit(mid, stock[u], v) /\ Credit(stock'[u], mid, w)
      BY <3>1, <3>3
    <3> HIDE DEF v, w
    <3>6. Credit(stock'[u], stock[u], v + w)
      BY <1>1, <3>1, <3>3, <3>4, <3>5, CreditTwice
    <3> QED
      BY <3>6 DEF v, w
  <2>8. /\ y \in Int /\ z \in Int
        /\ FundsPledged(u)' = FundsPledged(u) - 0 + y
        /\ UnitsPledged(u)' = UnitsPledged(u) - 0 + z
    BY <1>1, <1>3, <2>1, <2>2, <2>4 DEF FundsPledged, UnitsPledged
  <2>9. Credit(balance'[u], balance[u], 0) /\ Credit(inventory'[u], inventory[u], 0)
    BY <1>1, <2>1, CreditNone
  <2> HIDE DEF y, z
  <2> QED
    BY <2>6, <2>7, <2>8, <2>9 DEF FundsMove, UnitsMove, FundsSafe, UnitsSafe
<1>12. CASE MatcherFill
  <2>1. /\ mpc = "fill" /\ mpc' = "reap"
        /\ UNCHANGED <<balance, inventory, funds, stock>>
    BY <1>12 DEF MatcherFill, Step, history
  <2>2. /\ EncumberedFunds(u)' = EncumberedFunds(u) - (IF u = b THEN d ELSE 0)
        /\ EncumberedUnits(u)' = EncumberedUnits(u) - (IF u = s THEN q ELSE 0)
    BY <1>12, FillEffect
  <2>3. /\ TradingFunds(u) = IF u = b THEN d ELSE 0
        /\ TradingUnits(u) = IF u = s THEN q ELSE 0
        /\ TradingFunds(u)' = 0 /\ TradingUnits(u)' = 0
    BY <1>4, <1>6, <2>1 DEF TradingFunds, TradingUnits
  <2>4. d \in Int /\ q \in Int
    BY <1>4, <2>1
  <2> HIDE DEF d, q, s, b
  <2>5. FundsPledged(u)' = FundsPledged(u) /\ UnitsPledged(u)' = UnitsPledged(u)
    BY <1>1, <1>2, <2>2, <2>3, <2>4 DEF FundsPledged, UnitsPledged
  <2> QED
    BY <1>7, <2>1, <2>5
<1>13. CASE MatcherReap
  <2>1. /\ mpc = "reap" /\ mpc' \in {"outer", "inner"}
        /\ UNCHANGED <<balance, inventory, funds, stock>>
    BY <1>13 DEF MatcherReap, history
  <2>2. /\ EncumberedFunds(u)' = EncumberedFunds(u)
        /\ EncumberedUnits(u)' = EncumberedUnits(u)
    BY <1>13, ReapEffect
  <2>3. /\ TradingFunds(u) = 0 /\ TradingUnits(u) = 0
        /\ TradingFunds(u)' = 0 /\ TradingUnits(u)' = 0
    BY <2>1 DEF TradingFunds, TradingUnits
  <2> QED
    BY <1>2, <1>7, <2>1, <2>2, <2>3 DEF FundsPledged, UnitsPledged
<1>14. CASE /\ UNCHANGED <<buy_orders, sell_orders, accounts, history>>
            /\ mpc \notin {"deliver", "refund", "report", "fill", "reap"}
            /\ mpc' \notin {"deliver", "refund", "report", "fill", "reap"}
  <2>1. /\ TradingFunds(u) = 0 /\ TradingUnits(u) = 0
        /\ TradingFunds(u)' = 0 /\ TradingUnits(u)' = 0
    BY <1>14 DEF TradingFunds, TradingUnits
  <2> QED
    BY <1>3, <1>7, <1>14, <2>1 DEF FundsPledged, UnitsPledged, accounts, history
<1> QED
  BY <1>8, <1>9, <1>10, <1>11, <1>12, <1>13, <1>14, MatcherQuiet

(* Every step keeps accounts and packets in agreement. *)
LEMMA DriftInvNext ==
  ASSUME BooksInv, DriftInv, [Next]_vars, TypeOK'
  PROVE  DriftInv'
<1>1. ASSUME NEW u \in Traders
      PROVE  FundsSafe(u) /\ UnitsSafe(u)
  <2>1. CASE Fini \/ UNCHANGED vars
    <3>1. UNCHANGED <<pc, call, mpc, match, buy_orders, sell_orders, balance,
                      inventory, funds, stock>>
      BY <2>1, FiniQuiet DEF accounts, history
    <3>2. FundsPledged(u)' = FundsPledged(u) /\ UnitsPledged(u)' = UnitsPledged(u)
      BY <3>1, SameBooks DEF FundsPledged, UnitsPledged, PostingFunds,
         PostingUnits, TradingFunds, TradingUnits, Seller, Buyer
    <3> QED
      BY <3>1, <3>2, StandStill
  <2> QED
    BY <2>1, ServiceSafe, MatcherSafe DEF Next, Exited
<1> QED
  BY <1>1, SafeKeeps DEF DriftInv
-----------------------------------------------------------------------------
(* The rest of the invariant holds of the exchange exchange_init makes. *)
LEMMA InitBooks == Init => CallInv /\ IdsInv /\ RefInv /\ FeedInv /\ DriftInv
<1> SUFFICES ASSUME Init PROVE CallInv /\ IdsInv /\ RefInv /\ FeedInv /\ DriftInv
  OBVIOUS
<1>1. << >> \in Seq(Order) /\ DOMAIN << >> = {} /\ Len(<< >>) = 0
  OBVIOUS
<1>2. buy_orders = << >> /\ sell_orders = << >>
  BY DEF Init
<1>3. CallInv
  BY DEF Init, CallInv
<1>4. IdsInv
  BY <1>1 DEF Init, IdsInv, Distinct, Pending, IdsOf
<1>5. Book = {}
  BY <1>1, <1>2 DEF Book, Range
<1>6. FeedInv
  <2>1. Shows(feed, Book)
    BY <1>1, <1>5 DEF Init, Shows
  <2> QED
    BY <2>1 DEF Init, FeedInv
<1>7. ASSUME NEW t \in Traders
      PROVE  /\ Cardinality(Owned(buy_orders, t)) = 0
             /\ Cardinality(Owned(sell_orders, t)) = 0
  <2>1. Owned(buy_orders, t) = {} /\ Owned(sell_orders, t) = {}
    BY <1>1, <1>2 DEF Owned
  <2> QED
    BY <2>1, FS_EmptySet
<1>8. RefInv
  BY <1>7 DEF Init, RefInv
<1>9. ASSUME NEW t \in Traders
      PROVE  EncumberedFunds(t) = 0 /\ EncumberedUnits(t) = 0
  <2>1. Costs(<< >>, t) = << >> /\ AllUnits(<< >>, t) = << >>
    BY <1>1 DEF Costs, AllUnits
  <2>2. Total(<< >>) = 0
    <3>1. << >> \in Seq(Int) /\ Len(<< >>) = 0
      OBVIOUS
    <3>2. PICK f : RunningSums(<< >>, f) /\ Total(<< >>) = f[Len(<< >>)]
      BY <3>1, TotalIsSum, Zenon
    <3> QED
      BY <3>1, <3>2 DEF RunningSums
  <2> QED
    BY <1>2, <2>1, <2>2 DEF EncumberedFunds, EncumberedUnits
<1>10. DriftInv
  <2>1. ASSUME NEW t \in Traders
        PROVE  /\ balance[t] + FundsPledged(t) - funds[t] = 0
               /\ inventory[t] + UnitsPledged(t) - stock[t] = 0
    BY <1>9 DEF Init, FundsPledged, UnitsPledged, PostingFunds, PostingUnits,
       TradingFunds, TradingUnits
  <2>2. 0 % Word = 0
    BY WordAssumption
  <2> QED
    BY <2>1, <2>2 DEF DriftInv
<1> QED
  BY <1>3, <1>4, <1>6, <1>8, <1>10

(* Inv, all of it, holds in every state of every behaviour of Exchange: of *)
(* exchange.c with the account operations of trader.c.                     *)
THEOREM Invariance == Spec => []Inv
<1> DEFINE Rest == CallInv /\ IdsInv /\ RefInv /\ FeedInv /\ DriftInv
<1>1. Init => Rest
  BY InitBooks
<1>2. CoreInv /\ CoreInv' /\ Rest /\ [Next]_vars => Rest'
  <2> SUFFICES ASSUME CoreInv, CoreInv', Rest, [Next]_vars
               PROVE  Rest'
    OBVIOUS
  <2>1. BooksInv /\ TypeOK /\ TypeOK'
    BY DEF BooksInv, CoreInv
  <2> QED
    BY <2>1, CallInvNext, IdsInvNext, RefInvNext, FeedInvNext, DriftInvNext
<1>3. CoreInv /\ Rest => Inv
  BY DEF Inv
<1> HIDE DEF Rest
<1> QED
  BY CoreInvariance, <1>1, <1>2, <1>3, PTL DEF Spec

(* trader_ref and trader_unref balance: whenever the exchange is unlocked  *)
(* a trader has the references of the map and of its service thread, and   *)
(* one for each order in the lists, whatever was canceled or filled.       *)
THEOREM ReferencesBalance == Spec => []ReferencesCounted
<1>1. Inv => ReferencesCounted
  <2> SUFFICES ASSUME Inv, mutex = 1, NEW t \in Traders
               PROVE  ref_count[t] = 2 + Cardinality(Owned(buy_orders, t))
                                       + Cardinality(Owned(sell_orders, t))
    BY DEF ReferencesCounted
  <2>1. pc[t] # "refund"
    BY DEF Inv, CoreInv, MutualExclusion, ServiceCritical
  <2>2. /\ Cardinality(Owned(buy_orders, t)) \in Nat
        /\ Cardinality(Owned(sell_orders, t)) \in Nat
    BY BooksTyped DEF Inv
  <2>3. ref_count[t] = 2 + Cardinality(Owned(buy_orders, t))
                         + Cardinality(Owned(sell_orders, t)) + 0
    BY <2>1 DEF Inv, RefInv
  <2> QED
    BY <2>2, <2>3
<1> QED
  BY Invariance, <1>1, PTL

(* The POSTED, TRADED and CANCELED packets, in the order they are sent,    *)
(* tell whoever has seen them all exactly the pending orders and what is   *)
(* left of each.                                                           *)
THEOREM PacketsTellBook == Spec => []FeedTellsBook
<1>1. Inv => FeedTellsBook
  <2> SUFFICES ASSUME Inv, mutex = 1
               PROVE  /\ DOMAIN feed = Pending
                      /\ \A i \in DOMAIN buy_orders :
                           feed[buy_orders[i].id] = buy_orders[i].quant
                      /\ \A i \in DOMAIN sell_orders :
                           feed[sell_orders[i].id] = sell_orders[i].quant
    BY DEF FeedTellsBook
  <2>1. FeedQuiet
    BY DEF Inv, CoreInv, MutualExclusion, ServiceCritical, MatcherCritical,
       MatcherTrading, FeedQuiet
  <2>2. Shows(feed, Book)
    BY <2>1 DEF Inv, FeedInv
  <2>3. {order.id : order \in Book} = Pending
    BY BookIds DEF Inv
  <2>4. /\ \A i \in DOMAIN buy_orders : buy_orders[i] \in Book
        /\ \A i \in DOMAIN sell_orders : sell_orders[i] \in Book
    BY DEF Book, Range
  <2> QED
    BY <2>2, <2>3, <2>4 DEF Shows
<1> QED
  BY Invariance, <1>1, PTL

(* Money and units are conserved: in the account and set aside in pending  *)
(* orders, a trader has what its deposits and withdrawals and the trades   *)
(* published say, modulo the word size, however posts, cancels, partial    *)
(* fills, price improvements and account operations interleave.            *)
THEOREM NothingLost == Spec => []AccountsBalance
<1>1. ASSUME NEW x \in Int, NEW y \in 0..UINT32_MAX, (x - y) % Word = 0
      PROVE  x % Word = y
  <2>1. x - y \in Int /\ y \in Int
    BY WordType
  <2>2. PICK k \in Int : (x - y) % Word = (x - y) + k * Word
    BY <2>1, RemainderWhole
  <2> DEFINE kw == k * Word
             mkw == (-k) * Word
  <2>3. kw \in Int /\ mkw = -kw /\ -k \in Int
    BY WordAssumption
  <2>4. (x - y) + kw = 0
    BY <1>1, <2>2
  <2> HIDE DEF kw, mkw
  <2>5. x = y + mkw
    BY ONLY <2>1, <2>3, <2>4, x \in Int
  <2>6. x = y + (-k) * Word
    BY <2>5 DEF mkw
  <2> QED
    BY <2>1, <2>3, <2>6, WordAssumption DEF UINT32_MAX
<1>2. Inv => AccountsBalance
  <2> SUFFICES ASSUME Inv, mutex = 1, NEW t \in Traders
               PROVE  /\ Plus(balance[t], EncumberedFunds(t)) = funds[t]
                      /\ Plus(inventory[t], EncumberedUnits(t)) = stock[t]
    BY DEF AccountsBalance
  <2>1. pc[t] \notin ServiceCritical /\ mpc \notin MatcherCritical
    BY DEF Inv, CoreInv, MutualExclusion
  <2>2. /\ PostingFunds(t) = 0 /\ PostingUnits(t) = 0
        /\ TradingFunds(t) = 0 /\ TradingUnits(t) = 0
    BY <2>1 DEF PostingFunds, PostingUnits, TradingFunds, TradingUnits,
       ServiceCritical, MatcherCritical, MatcherTrading
  <2>3. /\ EncumberedFunds(t) \in Int /\ EncumberedUnits(t) \in Int
        /\ balance[t] \in Int /\ inventory[t] \in Int
        /\ funds[t] \in 0..UINT32_MAX /\ stock[t] \in 0..UINT32_MAX
        /\ funds[t] \in Int /\ stock[t] \in Int
    BY PledgesTyped DEF Inv, BooksInv, CoreInv, TypeOK, HistoryOK
  <2>4. /\ FundsPledged(t) = EncumberedFunds(t)
        /\ UnitsPledged(t) = EncumberedUnits(t)
    BY <2>2, <2>3 DEF FundsPledged, UnitsPledged
  <2>5. /\ (balance[t] + EncumberedFunds(t) - funds[t]) % Word = 0
        /\ (inventory[t] + EncumberedUnits(t) - stock[t]) % Word = 0
    BY <2>4 DEF Inv, DriftInv
  <2>6. /\ (balance[t] + EncumberedFunds(t)) % Word = funds[t]
        /\ (inventory[t] + EncumberedUnits(t)) % Word = stock[t]
    BY <1>1, <2>3, <2>5
  <2> QED
    BY <2>6 DEF Plus
<1> QED
  BY Invariance, <1>2, PTL

-----------------------------------------------------------------------------
(* The exchange implements the market: under the mapping of ExchangeMarket *)
(* every step of Exchange from a state in which its credit fits a word is  *)
(* a step of Market or leaves the market as it is.                         *)


(* Unsigned arithmetic is that of the numbers as long as they are words. *)
LEMMA WordExact ==
  ASSUME NEW x \in Nat, x < Word
  PROVE  x % Word = x
BY WordAssumption

LEMMA PlusExact ==
  ASSUME NEW x \in Nat, NEW y \in Nat, x + y < Word
  PROVE  Plus(x, y) = x + y
BY WordExact DEF Plus

LEMMA MinusExact ==
  ASSUME NEW x \in 0..UINT32_MAX, NEW y \in 0..UINT32_MAX, y <= x
  PROVE  Minus(x, y) = x - y
<1>1. x - y \in Nat /\ x - y < Word
  BY WordAssumption DEF UINT32_MAX
<1> QED
  BY <1>1, WordExact DEF Minus

(* The cost of an order. *)
LEMMA CostExact ==
  ASSUME NEW q \in Nat, NEW p \in Nat
  PROVE  /\ q * p \in Nat
         /\ q * p < Word => Times(q, p) = q * p
<1>1. q * p \in Nat
  OBVIOUS
<1> DEFINE cost == q * p
<1> HIDE DEF cost
<1>2. cost \in Nat /\ cost < Word => cost % Word = cost
  BY WordExact
<1> QED
  BY <1>1, <1>2 DEF cost, Times

LEMMA WordsNat == 0..UINT32_MAX \subseteq Nat
BY WordType

(* What the market sees. *)
view == <<MarketOrders, NextId, LastPrice, FundsOf, UnitsOf, fundings>>

(* What of a state the view depends on, besides the lists. *)
LEMMA SameOrders ==
  ASSUME Buys' = Buys, Sells' = Sells, InHand' = InHand,
         \A t \in InHand : TypeInHand(t)' = TypeInHand(t)
                             /\ OrderInHand(t)' = OrderInHand(t)
  PROVE  MarketOrders' = MarketOrders
BY DEF MarketOrders

(* The threads in the exchange exclude one another. *)
LEMMA Alone ==
  ASSUME Inv, NEW t \in Traders, pc[t] \in ServiceCritical
  PROVE  /\ mpc \notin MatcherCritical /\ ~ TradeInProgress /\ mpc # "reap"
         /\ \A u \in Traders \ {t} : u \notin InHand
         /\ Buys = Range(buy_orders) /\ Sells = Range(sell_orders)
         /\ LastPrice = last_price
         /\ \A u \in Traders : FundsDue(u) = 0 /\ UnitsDue(u) = 0
<1>1. /\ mpc \notin MatcherCritical
      /\ \A u \in Traders \ {t} : pc[u] \notin ServiceCritical
  BY DEF Inv, CoreInv, MutualExclusion
<1>2. mpc \notin {"deliver", "refund", "report", "fill", "reap"}
  BY <1>1 DEF MatcherCritical, MatcherTrading
<1> QED
  BY <1>1, <1>2 DEF TradeInProgress, InHand, ServiceCritical, Buys, Sells,
     LastPrice, FundsDue, UnitsDue

LEMMA NoneInHand ==
  ASSUME Inv, mpc \in MatcherCritical
  PROVE  InHand = {} /\ NextId = orderid
<1>1. \A u \in Traders : pc[u] \notin ServiceCritical
  BY DEF Inv, CoreInv, MutualExclusion
<1> QED
  BY <1>1 DEF InHand, ServiceCritical, NextId

(* A step that changes neither the books nor an operation in progress. *)
LEMMA QuietStep ==
  ASSUME UNCHANGED <<buy_orders, sell_orders, orderid, last_price, balance,
                     inventory, fundings>>,
         \A t \in Traders :
           \/ pc'[t] = pc[t] /\ call'[t] = call[t]
           \/ /\ pc[t] \notin {"insert", "refund"}
              /\ pc'[t] \notin {"insert", "refund"},
         \/ mpc' = mpc /\ match' = match
         \/ /\ mpc \notin {"deliver", "refund", "report", "fill", "reap"}
            /\ mpc' \notin {"deliver", "refund", "report", "fill", "reap"}
  PROVE  UNCHANGED view
<1>1. /\ InHand' = InHand
      /\ \A t \in InHand : pc'[t] = pc[t] /\ call'[t] = call[t]
  BY DEF InHand
<1>2. \A t \in InHand : TypeInHand(t)' = TypeInHand(t)
                          /\ OrderInHand(t)' = OrderInHand(t)
  BY <1>1 DEF TypeInHand, OrderInHand
<1>3. NextId' = NextId
  <2>1. (\E t \in Traders : pc'[t] = "insert")
          <=> \E t \in Traders : pc[t] = "insert"
    OBVIOUS
  <2> QED
    BY <2>1 DEF NextId
<1>4. CASE mpc' = mpc /\ match' = match
  <2>1. Seller' = Seller /\ Buyer' = Buyer
    BY <1>4 DEF Seller, Buyer
  <2>2. \A o : Reduced(o)' = Reduced(o)
    BY <1>4 DEF Reduced
  <2>3. Buys' = Buys /\ Sells' = Sells /\ LastPrice' = LastPrice
    BY <1>4, <2>1, <2>2 DEF Buys, Sells, LastPrice, TradeInProgress, Remaining,
       Reduced
  <2>4. FundsOf' = FundsOf /\ UnitsOf' = UnitsOf
    BY <1>4, <2>1 DEF FundsOf, UnitsOf, FundsDue, UnitsDue
  <2> QED
    BY <1>1, <1>2, <1>3, <2>3, <2>4, SameOrders DEF view
<1>5. CASE /\ mpc \notin {"deliver", "refund", "report", "fill", "reap"}
           /\ mpc' \notin {"deliver", "refund", "report", "fill", "reap"}
  <2>1. Buys' = Buys /\ Sells' = Sells /\ LastPrice' = LastPrice
    BY <1>5 DEF Buys, Sells, LastPrice, TradeInProgress
  <2>2. FundsOf' = FundsOf /\ UnitsOf' = UnitsOf
    BY <1>5 DEF FundsOf, UnitsOf, FundsDue, UnitsDue
  <2> QED
    BY <1>1, <1>2, <1>3, <2>1, <2>2, SameOrders DEF view
<1> QED
  BY <1>4, <1>5
-----------------------------------------------------------------------------
(* What a buyer is still to receive is a number. *)
LEMMA DueTyped ==
  ASSUME Inv, NEW t \in Traders
  PROVE  FundsDue(t) \in Nat /\ UnitsDue(t) \in Nat
<1>1. CASE mpc \in {"deliver", "refund"}
  <2>1. /\ match.quantity \in Nat /\ match.price \in Seller.price..Buyer.price
        /\ Seller \in Order /\ Buyer \in Order
    BY <1>1, TradeOrders DEF Inv, BooksInv
  <2>2. Buyer.price \in Nat /\ Seller.price \in Nat
    BY <2>1, WordsNat DEF Order
  <2>3. Buyer.price - match.price \in Nat
    BY <2>1, <2>2
  <2>4. match.quantity * (Buyer.price - match.price) \in Nat
    BY <2>1, <2>3
  <2> QED
    BY <2>1, <2>4 DEF FundsDue, UnitsDue
<1>2. CASE mpc \notin {"deliver", "refund"}
  BY <1>2 DEF FundsDue, UnitsDue
<1> QED
  BY <1>1, <1>2

(* A deposit, withdrawal, escrow or release moves funds or units of one    *)
(* trader, whatever the matchmaker is doing.                               *)
LEMMA FundingImplements ==
  ASSUME Inv, TypeOK', NEW t \in Traders, NEW amount \in Amounts,
         \/ Deposit(t, amount) \/ Withdraw(t, amount)
         \/ Escrow(t, amount)  \/ Release(t, amount)
  PROVE  M!Fund(t)
<1>1. /\ UNCHANGED <<buy_orders, sell_orders, orderid, last_price, pc, call,
                     mpc, match>>
      /\ fundings' = fundings + 1
  BY DEF Deposit, Withdraw, Escrow, Release, Funding, exchange, book, control,
     background
<1>2. UNCHANGED <<Buys, Sells, InHand, NextId, LastPrice>>
  BY <1>1 DEF Buys, Sells, InHand, NextId, LastPrice, TradeInProgress, Remaining,
     Reduced, Seller, Buyer
<1>3. \A u \in Traders : /\ FundsDue(u)' = FundsDue(u)
                         /\ UnitsDue(u)' = UnitsDue(u)
  BY <1>1 DEF FundsDue, UnitsDue, Buyer
<1>4. MarketOrders' = MarketOrders
  BY <1>1, <1>2 DEF MarketOrders, TypeInHand, OrderInHand
<1>5. /\ balance' \in [Traders -> Nat] /\ inventory' \in [Traders -> Nat]
      /\ balance \in [Traders -> Nat] /\ inventory \in [Traders -> Nat]
  BY WordsNat DEF TypeOK, AccountsOK, Inv, CoreInv
<1>6. FundsOf'[t] \in Nat /\ UnitsOf'[t] \in Nat
  <2>1. FundsDue(t)' \in Nat /\ UnitsDue(t)' \in Nat
    BY <1>3, DueTyped
  <2> QED
    BY <1>5, <2>1 DEF FundsOf, UnitsOf
<1>7. CASE /\ inventory' = inventory
           /\ \A u \in Traders \ {t} : balance'[u] = balance[u]
  <2>1. UnitsOf' = UnitsOf
    BY <1>3, <1>7 DEF UnitsOf
  <2>2. FundsOf' = [FundsOf EXCEPT ![t] = FundsOf'[t]]
    BY <1>3, <1>7 DEF FundsOf
  <2> QED
    BY <1>1, <1>2, <1>4, <1>6, <2>1, <2>2 DEF M!Fund
<1>8. CASE /\ balance' = balance
           /\ \A u \in Traders \ {t} : inventory'[u] = inventory[u]
  <2>1. FundsOf' = FundsOf
    BY <1>3, <1>8 DEF FundsOf
  <2>2. UnitsOf' = [UnitsOf EXCEPT ![t] = UnitsOf'[t]]
    BY <1>3, <1>8 DEF UnitsOf
  <2> QED
    BY <1>1, <1>2, <1>4, <1>6, <2>1, <2>2 DEF M!Fund
<1>9. \/ /\ inventory' = inventory
         /\ \A u \in Traders \ {t} : balance'[u] = balance[u]
      \/ /\ balance' = balance
         /\ \A u \in Traders \ {t} : inventory'[u] = inventory[u]
  BY <1>5 DEF Deposit, Withdraw, Escrow, Release, trader_increase_balance,
     trader_decrease_balance, trader_increase_inventory,
     trader_decrease_inventory
<1> QED
  BY <1>7, <1>8, <1>9
-----------------------------------------------------------------------------
(* The orders in the lists, as orders of the market. *)
InLists == {AsOrder("buy", o) : o \in Range(buy_orders)}
             \cup {AsOrder("sell", o) : o \in Range(sell_orders)}

(* The order service thread t has in hand. *)
Holding(t) ==
  IF pc[t] \in {"insert", "refund"} THEN {AsOrder(TypeInHand(t), OrderInHand(t))}
                                    ELSE {}

(* The market while a service thread is in its critical section. *)
LEMMA ServiceView ==
  ASSUME Inv, NEW t \in Traders, pc[t] \in ServiceCritical
  PROVE  /\ MarketOrders = InLists \cup Holding(t)
         /\ NextId = IF pc[t] = "insert" THEN orderid + 1 ELSE orderid
         /\ LastPrice = last_price /\ FundsOf = balance /\ UnitsOf = inventory
<1>1. /\ Buys = Range(buy_orders) /\ Sells = Range(sell_orders)
      /\ LastPrice = last_price
      /\ \A u \in Traders : FundsDue(u) = 0 /\ UnitsDue(u) = 0
      /\ \A u \in Traders \ {t} : u \notin InHand
  BY Alone
<1>2. InHand = IF pc[t] \in {"insert", "refund"} THEN {t} ELSE {}
  BY <1>1 DEF InHand
<1>3. MarketOrders = InLists \cup Holding(t)
  BY <1>1, <1>2 DEF MarketOrders, InLists, Holding
<1>4. NextId = IF pc[t] = "insert" THEN orderid + 1 ELSE orderid
  BY <1>1 DEF NextId, InHand
<1>5. balance \in [Traders -> Nat] /\ inventory \in [Traders -> Nat]
  BY WordsNat DEF TypeOK, AccountsOK, Inv, CoreInv
<1>6. FundsOf = balance /\ UnitsOf = inventory
  BY <1>1, <1>5 DEF FundsOf, UnitsOf
<1> QED
  BY <1>1, <1>3, <1>4, <1>6

(* The market once that thread has gone on within it. *)
LEMMA ServiceViewNext ==
  ASSUME Inv, TypeOK', NEW t \in Traders, pc[t] \in ServiceCritical,
         \A u \in Traders \ {t} : pc'[u] = pc[u], UNCHANGED <<mpc, last_price>>
  PROVE  /\ MarketOrders' = InLists' \cup Holding(t)'
         /\ NextId' = IF pc'[t] = "insert" THEN orderid' + 1 ELSE orderid'
         /\ LastPrice' = LastPrice /\ FundsOf' = balance' /\ UnitsOf' = inventory'
<1>1. /\ ~ TradeInProgress /\ mpc # "reap" /\ LastPrice = last_price
      /\ \A u \in Traders \ {t} : u \notin InHand
  BY Alone
<1>2. /\ Buys' = Range(buy_orders') /\ Sells' = Range(sell_orders')
      /\ LastPrice' = last_price
      /\ \A u \in Traders : FundsDue(u)' = 0 /\ UnitsDue(u)' = 0
  BY <1>1 DEF Buys, Sells, LastPrice, FundsDue, UnitsDue, TradeInProgress
<1>4. InHand' = IF pc'[t] \in {"insert", "refund"} THEN {t} ELSE {}
  BY <1>1 DEF InHand
<1>5. MarketOrders' = InLists' \cup Holding(t)'
  BY <1>2, <1>4 DEF MarketOrders, InLists, Holding
<1>6. NextId' = IF pc'[t] = "insert" THEN orderid' + 1 ELSE orderid'
  BY <1>1 DEF NextId, InHand
<1>7. balance' \in [Traders -> Nat] /\ inventory' \in [Traders -> Nat]
  BY WordsNat DEF TypeOK, AccountsOK
<1>8. FundsOf' = balance' /\ UnitsOf' = inventory'
  BY <1>2, <1>7 DEF FundsOf, UnitsOf
<1> QED
  BY <1>1, <1>2, <1>5, <1>6, <1>8

(* Orders in the lists have ids below the next one. *)
LEMMA ListedIds ==
  ASSUME Inv
  PROVE  \A o \in InLists : o.id \in Pending /\ o.id < orderid
<1>1. \A o \in Range(buy_orders) \cup Range(sell_orders) : o.id \in Pending
  BY DEF Range, Pending, IdsOf
<1>2. \A o \in InLists : o.id \in Pending
  BY <1>1 DEF InLists, AsOrder
<1> QED
  BY <1>2 DEF Inv, IdsInv

(* The debit of the cost of a buy order, or of the units of a sell order,  *)
(* is the post; without the funds or units nothing is posted.              *)
LEMMA DebitImplements ==
  ASSUME Inv, TypeOK', Fits, NEW t \in Traders, DebitBuy(t) \/ DebitSell(t)
  PROVE  M!Next \/ UNCHANGED view
<1>1. /\ UNCHANGED <<buy_orders, sell_orders, orderid, last_price, call, mpc,
                     match, fundings>>
      /\ pc[t] = "debit" /\ pc[t] \in ServiceCritical
      /\ call[t] \in Call /\ balance[t] \in 0..UINT32_MAX
      /\ inventory[t] \in 0..UINT32_MAX
  BY DEF DebitBuy, DebitSell, exchange, book, background, history, Goto,
     ServiceCritical, Inv, CoreInv, TypeOK, ThreadsOK, AccountsOK
<1>2. /\ MarketOrders = InLists /\ NextId = orderid
      /\ LastPrice = last_price /\ FundsOf = balance /\ UnitsOf = inventory
  BY <1>1, ServiceView DEF Holding
<1>3. CASE pc' = [pc EXCEPT ![t] = "unlock"] /\ UNCHANGED <<balance, inventory>>
  <2>1. \A u \in Traders : \/ pc'[u] = pc[u]
                           \/ /\ pc[u] \notin {"insert", "refund"}
                              /\ pc'[u] \notin {"insert", "refund"}
    BY <1>1, <1>3 DEF Inv, CoreInv, TypeOK, ThreadsOK
  <2> QED
    BY <1>1, <1>3, <2>1, QuietStep
<1> DEFINE o == AsOrder(TypeInHand(t), NewOrder(t))
<1>4. ASSUME pc' = [pc EXCEPT ![t] = "insert"]
      PROVE  /\ o \in MarketOrders' \ MarketOrders
             /\ MarketOrders' = MarketOrders \cup {o}
             /\ o.trader = t /\ o.id = NextId
             /\ o.quant = call[t].quant /\ o.price = call[t].price
             /\ NextId' = NextId + 1 /\ LastPrice' = LastPrice
             /\ FundsOf' = balance' /\ UnitsOf' = inventory'
  <2>3. pc'[t] = "insert" /\ \A u \in Traders \ {t} : pc'[u] = pc[u]
    BY <1>4 DEF Inv, CoreInv, TypeOK, ThreadsOK
  <2>1. /\ MarketOrders' = InLists' \cup Holding(t)'
        /\ NextId' = orderid' + 1
        /\ LastPrice' = LastPrice /\ FundsOf' = balance' /\ UnitsOf' = inventory'
    BY <1>1, <2>3, ServiceViewNext
  <2>2. InLists' = InLists
    BY <1>1 DEF InLists
  <2>4. Holding(t)' = {o}
    BY <1>1, <2>3 DEF Holding, TypeInHand, OrderInHand, NewOrder
  <2>5. /\ o.trader = t /\ o.id = orderid
        /\ o.quant = call[t].quant /\ o.price = call[t].price
    BY DEF AsOrder, NewOrder
  <2>6. o \notin InLists
    <3>1. orderid \in Int
      BY DEF Inv, CoreInv, TypeOK, BookOK
    <3> QED
      BY <2>5, <3>1, ListedIds
  <2> QED
    BY <1>1, <1>2, <2>1, <2>2, <2>4, <2>5, <2>6
<1>5. o.type = TypeInHand(t)
  BY DEF AsOrder
<1>6. call[t].quant \in Nat /\ call[t].price \in Nat
  BY <1>1, WordsNat DEF Call
<1> HIDE DEF o
<1>7. CASE /\ DebitBuy(t) /\ pc' = [pc EXCEPT ![t] = "insert"]
  <2> DEFINE cost == call[t].quant * call[t].price
  <2>1. /\ call[t].op = "buy" /\ o.type = "buy"
        /\ inventory' = inventory /\ cost < Word /\ cost \in Nat
    <3>1. call[t].op = "buy" /\ inventory' = inventory
      BY <1>7 DEF DebitBuy
    <3> QED
      BY <1>1, <1>5, <1>6, <3>1, CostExact DEF Fits, TypeInHand
  <2>2. pc'[t] = "insert"
    BY <1>7 DEF Inv, CoreInv, TypeOK, ThreadsOK
  <2>3. /\ balance[t] >= Times(call[t].quant, call[t].price)
        /\ balance' = [balance EXCEPT
                         ![t] = Minus(@, Times(call[t].quant, call[t].price))]
    <3>1. \/ /\ balance[t] >= Times(call[t].quant, call[t].price)
             /\ balance' = trader_decrease_balance(balance, t,
                              Times(call[t].quant, call[t].price))
          \/ pc' = [pc EXCEPT ![t] = "unlock"]
      BY <1>7 DEF DebitBuy, Goto
    <3>2. pc' # [pc EXCEPT ![t] = "unlock"]
      BY <2>2 DEF Inv, CoreInv, TypeOK, ThreadsOK
    <3> QED
      BY <3>1, <3>2 DEF trader_decrease_balance
  <2>4. Times(call[t].quant, call[t].price) = cost
    BY <1>6, <2>1, CostExact
  <2>5. o.quant * o.price = cost
    BY <1>4, <1>7
  <2> HIDE DEF cost
  <2>6. Minus(balance[t], cost) = balance[t] - cost
    <3>1. cost \in 0..UINT32_MAX /\ cost <= balance[t]
      BY <1>1, <2>1, <2>3, <2>4, WordAssumption DEF UINT32_MAX
    <3> QED
      BY <1>1, <3>1, MinusExact
  <2>7. balance[t] >= cost /\ balance' = [balance EXCEPT ![t] = @ - cost]
    BY <2>3, <2>4, <2>6
  <2>8. M!Post(o.trader, o)
    BY <1>1, <1>2, <1>4, <1>7, <2>1, <2>5, <2>7 DEF M!Post
  <2> QED
    BY <1>4, <1>7, <2>8 DEF M!Next
<1>8. CASE /\ DebitSell(t) /\ pc' = [pc EXCEPT ![t] = "insert"]
  <2>1. call[t].op = "sell" /\ o.type = "sell" /\ balance' = balance
    BY <1>5, <1>8 DEF DebitSell, TypeInHand
  <2>2. pc'[t] = "insert"
    BY <1>8 DEF Inv, CoreInv, TypeOK, ThreadsOK
  <2>3. /\ inventory[t] >= call[t].quant
        /\ inventory' = [inventory EXCEPT ![t] = Minus(@, call[t].quant)]
    <3>1. \/ /\ inventory[t] >= call[t].quant
             /\ inventory' = trader_decrease_inventory(inventory, t,
                                                       call[t].quant)
          \/ pc' = [pc EXCEPT ![t] = "unlock"]
      BY <1>8 DEF DebitSell, Goto
    <3>2. pc' # [pc EXCEPT ![t] = "unlock"]
      BY <2>2 DEF Inv, CoreInv, TypeOK, ThreadsOK
    <3> QED
      BY <3>1, <3>2 DEF trader_decrease_inventory
  <2>4. Minus(inventory[t], call[t].quant) = inventory[t] - call[t].quant
    <3>1. call[t].quant \in 0..UINT32_MAX /\ call[t].quant <= inventory[t]
      BY <1>1, <1>6, <2>3, WordsNat DEF Call
    <3> QED
      BY <1>1, <3>1, MinusExact
  <2>5. inventory' = [inventory EXCEPT ![t] = @ - call[t].quant]
    BY <2>3, <2>4
  <2>6. M!Post(o.trader, o)
    BY <1>1, <1>2, <1>4, <1>8, <2>1, <2>3, <2>5 DEF M!Post
  <2> QED
    BY <1>4, <1>8, <2>6 DEF M!Next
<1>9. \/ pc' = [pc EXCEPT ![t] = "insert"]
      \/ pc' = [pc EXCEPT ![t] = "unlock"] /\ UNCHANGED <<balance, inventory>>
  BY DEF DebitBuy, DebitSell, Goto
<1> QED
  BY <1>3, <1>7, <1>8, <1>9

(* A posted order enters its list as the order in hand leaves it. *)
LEMMA InsertImplements ==
  ASSUME Inv, TypeOK', NEW t \in Traders, Insert(t)
  PROVE  UNCHANGED view
<1>1. /\ UNCHANGED <<last_price, mpc, balance, inventory, fundings>>
      /\ pc[t] = "insert" /\ pc[t] \in ServiceCritical
      /\ pc'[t] = "post_broadcast" /\ \A u \in Traders \ {t} : pc'[u] = pc[u]
      /\ orderid' = orderid + 1 /\ call[t].op \in {"buy", "sell"}
  BY DEF Insert, background, history, Goto, ServiceCritical, Inv, CoreInv, TypeOK,
     ThreadsOK, CallInv
<1>2. /\ MarketOrders = InLists \cup Holding(t)
      /\ NextId = orderid + 1
      /\ LastPrice = last_price /\ FundsOf = balance /\ UnitsOf = inventory
  BY <1>1, ServiceView
<1>3. /\ MarketOrders' = InLists' /\ NextId' = orderid'
      /\ LastPrice' = LastPrice /\ FundsOf' = balance' /\ UnitsOf' = inventory'
  <2>1. /\ MarketOrders' = InLists' \cup Holding(t)'
        /\ NextId' = orderid'
        /\ LastPrice' = LastPrice /\ FundsOf' = balance' /\ UnitsOf' = inventory'
    BY <1>1, ServiceViewNext
  <2>2. Holding(t)' = {}
    BY <1>1 DEF Holding
  <2> QED
    BY <2>1, <2>2
<1>4. Holding(t) = {AsOrder(TypeInHand(t), NewOrder(t))}
  BY <1>1 DEF Holding, OrderInHand, NewOrder
<1>5. /\ buy_orders \in Seq(Order) /\ Sorted(buy_orders)
      /\ sell_orders \in Seq(Order) /\ Sorted(sell_orders)
      /\ NewOrder(t) \in Order
  BY BooksTyped, InsertEffect DEF Inv, BooksInv
<1>6. CASE call[t].op = "buy"
  <2>1. /\ Range(buy_orders') = Range(buy_orders) \cup {NewOrder(t)}
        /\ sell_orders' = sell_orders
    BY <1>5, <1>6, ListInserted DEF Insert, NewOrder
  <2>2. TypeInHand(t) = "buy"
    BY <1>6 DEF TypeInHand
  <2>3. InLists' = InLists \cup Holding(t)
    BY <1>4, <2>1, <2>2 DEF InLists
  <2> QED
    BY <1>1, <1>2, <1>3, <2>3 DEF view
<1>7. CASE call[t].op = "sell"
  <2>1. /\ Range(sell_orders') = Range(sell_orders) \cup {NewOrder(t)}
        /\ buy_orders' = buy_orders
    BY <1>5, <1>7, ListInserted DEF Insert, NewOrder
  <2>2. TypeInHand(t) = "sell"
    BY <1>7 DEF TypeInHand
  <2>3. InLists' = InLists \cup Holding(t)
    BY <1>4, <2>1, <2>2 DEF InLists
  <2> QED
    BY <1>1, <1>2, <1>3, <2>3 DEF view
<1> QED
  BY <1>1, <1>6, <1>7

(* A canceled order leaves its list and is in hand until it is refunded. *)
LEMMA CancelFindsImplements ==
  ASSUME Inv, TypeOK', NEW t \in Traders, CancelFinds(t)
  PROVE  UNCHANGED view
<1>1. /\ UNCHANGED <<last_price, orderid, mpc, balance, inventory, fundings>>
      /\ pc[t] = "find" /\ pc[t] \in ServiceCritical
      /\ pc'[t] = "refund" /\ \A u \in Traders \ {t} : pc'[u] = pc[u]
  BY DEF CancelFinds, background, history, accounts, Goto, ServiceCritical, Inv,
     CoreInv, TypeOK, ThreadsOK
<1>2. /\ MarketOrders = InLists /\ NextId = orderid
      /\ LastPrice = last_price /\ FundsOf = balance /\ UnitsOf = inventory
  BY <1>1, ServiceView DEF Holding
<1>3. /\ MarketOrders' = InLists' \cup Holding(t)'
      /\ NextId' = orderid'
      /\ LastPrice' = LastPrice /\ FundsOf' = balance' /\ UnitsOf' = inventory'
  BY <1>1, ServiceViewNext
<1>4. /\ buy_orders \in Seq(Order) /\ Sorted(buy_orders) /\ Distinct(buy_orders)
      /\ sell_orders \in Seq(Order) /\ Sorted(sell_orders)
      /\ Distinct(sell_orders) /\ call \in [Traders -> Call]
  BY BooksTyped DEF Inv, IdsInv, CoreInv, TypeOK, ThreadsOK
<1>5. ASSUME NEW i \in Places(buy_orders, call[t].id, t),
             call' = [call EXCEPT ![t] =
                        [op |-> "cancel_buy", id |-> call[t].id,
                         quant |-> buy_orders[i].quant,
                         price |-> buy_orders[i].price]],
             buy_orders' = list_remove(buy_orders, i),
             UNCHANGED sell_orders
      PROVE  InLists = InLists' \cup Holding(t)'
  <2> DEFINE order == buy_orders[i]
  <2>1. /\ i \in DOMAIN buy_orders /\ order.id = call[t].id
        /\ order.trader = t
    BY DEF Places
  <2>2. Range(buy_orders') = Range(buy_orders) \ {order}
    BY <1>4, <1>5, <2>1, ListRemoved
  <2>3. order \in Range(buy_orders)
    BY <2>1 DEF Range
  <2>4. Holding(t)' = {AsOrder("buy", order)}
    BY <1>1, <1>4, <1>5, <2>1 DEF Holding, TypeInHand, OrderInHand, AsOrder
  <2> QED
    BY <1>5, <2>2, <2>3, <2>4 DEF InLists
<1>6. ASSUME NEW i \in Places(sell_orders, call[t].id, t),
             call' = [call EXCEPT ![t] =
                        [op |-> "cancel_sell", id |-> call[t].id,
                         quant |-> sell_orders[i].quant,
                         price |-> sell_orders[i].price]],
             sell_orders' = list_remove(sell_orders, i),
             UNCHANGED buy_orders
      PROVE  InLists = InLists' \cup Holding(t)'
  <2> DEFINE order == sell_orders[i]
  <2>1. /\ i \in DOMAIN sell_orders /\ order.id = call[t].id
        /\ order.trader = t
    BY DEF Places
  <2>2. Range(sell_orders') = Range(sell_orders) \ {order}
    BY <1>4, <1>6, <2>1, ListRemoved
  <2>3. order \in Range(sell_orders)
    BY <2>1 DEF Range
  <2>4. Holding(t)' = {AsOrder("sell", order)}
    BY <1>1, <1>4, <1>6, <2>1 DEF Holding, TypeInHand, OrderInHand, AsOrder
  <2> QED
    BY <1>6, <2>2, <2>3, <2>4 DEF InLists
<1>7. InLists = InLists' \cup Holding(t)'
  BY <1>5, <1>6 DEF CancelFinds
<1> QED
  BY <1>1, <1>2, <1>3, <1>7 DEF view

(* The refund is the cancel. *)
LEMMA CancelRefundImplements ==
  ASSUME Inv, TypeOK', Fits, NEW t \in Traders, CancelRefund(t)
  PROVE  M!Next
<1>1. /\ UNCHANGED <<buy_orders, sell_orders, last_price, orderid, mpc, fundings>>
      /\ pc[t] = "refund" /\ pc[t] \in ServiceCritical
      /\ pc'[t] = "cancel_broadcast"
      /\ \A u \in Traders \ {t} : pc'[u] = pc[u]
      /\ call[t] \in Call /\ call[t].op \in {"cancel_buy", "cancel_sell"}
      /\ balance[t] \in Nat /\ inventory[t] \in Nat
  BY WordsNat DEF CancelRefund, background, history, exchange, book, Goto,
     ServiceCritical, Inv, CoreInv, TypeOK, ThreadsOK, AccountsOK, CallInv
<1> DEFINE o == AsOrder(TypeInHand(t), OrderInHand(t))
<1>2. /\ MarketOrders = InLists \cup {o} /\ NextId = orderid
      /\ LastPrice = last_price /\ FundsOf = balance /\ UnitsOf = inventory
  BY <1>1, ServiceView DEF Holding
<1>3. /\ MarketOrders' = InLists' /\ NextId' = orderid'
      /\ LastPrice' = LastPrice /\ FundsOf' = balance' /\ UnitsOf' = inventory'
  <2>1. /\ MarketOrders' = InLists' \cup Holding(t)'
        /\ NextId' = orderid'
        /\ LastPrice' = LastPrice /\ FundsOf' = balance' /\ UnitsOf' = inventory'
    BY <1>1, ServiceViewNext
  <2>2. Holding(t)' = {}
    BY <1>1 DEF Holding
  <2> QED
    BY <2>1, <2>2
<1>4. /\ o.trader = t /\ o.id = call[t].id
      /\ o.quant = call[t].quant /\ o.price = call[t].price
      /\ o.type = IF call[t].op = "cancel_buy" THEN "buy" ELSE "sell"
  BY <1>1 DEF AsOrder, OrderInHand, TypeInHand
<1>5. o \notin InLists
  <2>1. Shows(Gone(feed, {call[t].id}), Book)
    BY <1>1 DEF Inv, FeedInv
  <2>2. call[t].id \notin {order.id : order \in Book}
    BY <2>1 DEF Shows, Gone
  <2>3. {order.id : order \in Book} = Pending
    BY BookIds DEF Inv
  <2> QED
    BY <1>4, <2>2, <2>3, ListedIds
<1>6. InLists' = InLists
  BY <1>1 DEF InLists
<1> HIDE DEF o
<1>7. o \in MarketOrders /\ MarketOrders' = MarketOrders \ {o}
  BY <1>2, <1>3, <1>5, <1>6
<1> DEFINE cost == call[t].quant * call[t].price
<1>8. /\ call[t].quant \in Nat /\ call[t].price \in Nat /\ cost \in Nat
  BY <1>1, WordsNat DEF Call
<1>9. o.quant * o.price = cost
  BY <1>4
<1>10. CASE call[t].op = "cancel_buy"
  <2>1. balance[t] + cost < Word
    BY <1>1, <1>10 DEF Fits
  <2>2. Times(call[t].quant, call[t].price) = cost
    <3>1. cost < Word
      <4> HIDE DEF cost
      <4> QED
        BY <1>1, <1>8, <2>1, WordAssumption
    <3> QED
      BY <1>8, <3>1, CostExact
  <2> HIDE DEF cost
  <2>3. balance' = [balance EXCEPT ![t] = @ + cost] /\ inventory' = inventory
    BY <1>1, <1>8, <1>10, <2>1, <2>2, PlusExact
    DEF CancelRefund, trader_increase_balance
  <2>4. M!Cancel(o)
    BY <1>1, <1>2, <1>3, <1>4, <1>7, <1>9, <1>10, <2>3 DEF M!Cancel
  <2> QED
    BY <1>7, <2>4 DEF M!Next
<1>11. CASE call[t].op = "cancel_sell"
  <2>1. inventory[t] + call[t].quant < Word
    BY <1>1, <1>11 DEF Fits
  <2>2. /\ inventory' = [inventory EXCEPT ![t] = @ + call[t].quant]
        /\ balance' = balance
    BY <1>1, <1>8, <1>11, <2>1, PlusExact
    DEF CancelRefund, trader_increase_inventory
  <2>3. M!Cancel(o)
    BY <1>1, <1>2, <1>3, <1>4, <1>7, <1>11, <2>2 DEF M!Cancel
  <2> QED
    BY <1>7, <2>3 DEF M!Next
<1> QED
  BY <1>1, <1>10, <1>11
-----------------------------------------------------------------------------
(* The market while match_order is trading. *)
LEMMA TradingView ==
  ASSUME Inv, mpc \in MatcherTrading
  PROVE  /\ MarketOrders = {AsOrder("buy", o) : o \in Buys}
                             \cup {AsOrder("sell", o) : o \in Sells}
         /\ NextId = orderid
<1>1. InHand = {} /\ NextId = orderid
  BY NoneInHand DEF MatcherCritical
<1> QED
  BY <1>1 DEF MarketOrders

LEMMA TradingViewNext ==
  ASSUME Inv, mpc \in MatcherTrading, UNCHANGED <<pc, call, orderid>>
  PROVE  /\ MarketOrders' = {AsOrder("buy", o) : o \in Buys'}
                              \cup {AsOrder("sell", o) : o \in Sells'}
         /\ NextId' = NextId
<1>1. InHand = {} /\ NextId = orderid
  BY NoneInHand DEF MatcherCritical
<1>2. InHand' = {} /\ NextId' = NextId
  BY <1>1 DEF InHand, NextId
<1> QED
  BY <1>2 DEF MarketOrders

(* A step of a trade that is in progress before and after it, and does not *)
(* touch the lists, can only be noticed in the accounts.                   *)
LEMMA ProgressStep ==
  ASSUME Inv, TradeInProgress, TradeInProgress',
         UNCHANGED <<pc, call, orderid, buy_orders, sell_orders, match>>
  PROVE  UNCHANGED <<MarketOrders, NextId, LastPrice>>
<1>1. mpc \in MatcherTrading
  BY DEF TradeInProgress, MatcherTrading
<1>2. Buys' = Buys /\ Sells' = Sells /\ LastPrice' = LastPrice
  BY DEF Buys, Sells, LastPrice, Remaining, Reduced, Seller, Buyer
<1> QED
  BY <1>1, <1>2, TradingView, TradingViewNext

LEMMA DeliverImplements ==
  ASSUME Inv, TypeOK', Fits, MatcherDeliver
  PROVE  UNCHANGED view
<1>1. /\ mpc = "deliver" /\ mpc' = "refund"
      /\ UNCHANGED <<pc, call, orderid, buy_orders, sell_orders, match, balance,
                     fundings>>
  BY DEF MatcherDeliver, Step, exchange, book, history
<1>2. UNCHANGED <<MarketOrders, NextId, LastPrice>>
  BY <1>1, ProgressStep DEF TradeInProgress
<1>3. Buyer' = Buyer
  BY <1>1 DEF Buyer
<1>4. Buyer.trader \in Traders /\ match.quantity \in Nat
  BY <1>1, TradeOrders DEF Inv, BooksInv, Order
<1>5. /\ inventory \in [Traders -> Nat] /\ inventory' \in [Traders -> Nat]
      /\ inventory[Buyer.trader] \in Nat
  BY <1>4, WordsNat DEF Inv, CoreInv, TypeOK, AccountsOK
<1>6. inventory' = [inventory EXCEPT ![Buyer.trader] = @ + match.quantity]
  BY <1>1, <1>4, <1>5, PlusExact
     DEF Fits, MatcherDeliver, trader_increase_inventory
<1>7. UnitsOf' = UnitsOf
  <2>1. ASSUME NEW u \in Traders
        PROVE  inventory'[u] + UnitsDue(u)' = inventory[u] + UnitsDue(u)
    <3>1. UnitsDue(u)' = 0
      BY <1>1 DEF UnitsDue
    <3>2. CASE u = Buyer.trader
      BY <1>1, <1>4, <1>5, <1>6, <3>1, <3>2 DEF UnitsDue
    <3>3. CASE u # Buyer.trader
      BY <1>1, <1>5, <1>6, <3>1, <3>3 DEF UnitsDue
    <3> QED
      BY <3>2, <3>3
  <2> QED
    BY <2>1 DEF UnitsOf
<1>8. FundsOf' = FundsOf
  BY <1>1, <1>3 DEF FundsOf, FundsDue
<1> QED
  BY <1>1, <1>2, <1>7, <1>8 DEF view

LEMMA RefundImplements ==
  ASSUME Inv, TypeOK', Fits, MatcherRefund
  PROVE  UNCHANGED view
<1>1. /\ mpc = "refund" /\ mpc' = "report"
      /\ UNCHANGED <<pc, call, orderid, buy_orders, sell_orders, match, inventory,
                     fundings>>
  BY DEF MatcherRefund, Step, exchange, book, history
<1>2. UNCHANGED <<MarketOrders, NextId, LastPrice>>
  BY <1>1, ProgressStep DEF TradeInProgress
<1>3. /\ Seller \in Order /\ Buyer \in Order /\ match.quantity \in Nat
      /\ match.price \in Seller.price..Buyer.price
  BY <1>1, TradeOrders DEF Inv, BooksInv
<1> DEFINE gain == Buyer.price - match.price
           due == match.quantity * gain
<1>4. /\ Buyer.trader \in Traders /\ gain \in Nat
      /\ match.price < Buyer.price <=> gain # 0
  <2>1. /\ Seller.price \in Nat /\ Buyer.price \in Nat
        /\ Buyer.trader \in Traders
    BY <1>3, WordsNat DEF Order
  <2> QED
    BY <1>3, <2>1
<1>5. due \in Nat /\ (gain = 0 => due = 0)
  BY <1>3, <1>4
<1>6. /\ balance \in [Traders -> Nat] /\ balance' \in [Traders -> Nat]
      /\ balance[Buyer.trader] \in Nat
  BY <1>4, WordsNat DEF Inv, CoreInv, TypeOK, AccountsOK
<1>7. balance' = [balance EXCEPT ![Buyer.trader] = @ + due]
  <2>1. balance[Buyer.trader] + due < Word
    BY <1>1 DEF Fits
  <2>2. CASE gain # 0
    <3>1. Times(match.quantity, gain) = due
      <4>1. due < Word
        <5> HIDE DEF due
        <5> QED
          BY <1>5, <1>6, <2>1, WordAssumption
      <4> HIDE DEF gain
      <4> QED
        BY <1>3, <1>4, <4>1, CostExact
    <3>2. balance' = [balance EXCEPT ![Buyer.trader] =
                        Plus(@, Times(match.quantity, gain))]
      BY <1>4, <2>2 DEF MatcherRefund, trader_increase_balance
    <3> HIDE DEF due, gain
    <3> QED
      BY <1>5, <1>6, <2>1, <3>1, <3>2, PlusExact
  <2>3. CASE gain = 0
    <3>1. balance' = balance /\ due = 0
      BY <1>4, <1>5, <2>3 DEF MatcherRefund
    <3> HIDE DEF due, gain
    <3> QED
      BY <1>6, <3>1
  <2> QED
    BY <2>2, <2>3
<1>8. FundsOf' = FundsOf
  <2>1. ASSUME NEW u \in Traders
        PROVE  balance'[u] + FundsDue(u)' = balance[u] + FundsDue(u)
    <3>1. FundsDue(u)' = 0 /\ FundsDue(u) = IF u = Buyer.trader THEN due ELSE 0
      BY <1>1 DEF FundsDue
    <3> HIDE DEF due
    <3> QED
      BY <1>4, <1>5, <1>6, <1>7, <3>1
  <2> QED
    BY <2>1 DEF FundsOf
<1>9. UnitsOf' = UnitsOf
  BY <1>1 DEF UnitsOf, UnitsDue
<1> QED
  BY <1>1, <1>2, <1>8, <1>9 DEF view

LEMMA ReportImplements ==
  ASSUME Inv, MatcherReport
  PROVE  UNCHANGED view
<1>1. /\ mpc = "report" /\ mpc' = "fill"
      /\ UNCHANGED <<pc, call, orderid, buy_orders, sell_orders, match, balance,
                     inventory, fundings>>
  BY DEF MatcherReport, Step, exchange, book, accounts
<1>2. UNCHANGED <<MarketOrders, NextId, LastPrice>>
  BY <1>1, ProgressStep DEF TradeInProgress
<1>3. FundsOf' = FundsOf /\ UnitsOf' = UnitsOf
  BY <1>1 DEF FundsOf, UnitsOf, FundsDue, UnitsDue
<1> QED
  BY <1>1, <1>2, <1>3 DEF view

(* A trade enters the lists as they were seen without its quantity: a      *)
(* filled buy order is gone, a filled sell order seen as gone already.     *)
LEMMA FillImplements ==
  ASSUME Inv, MatcherFill
  PROVE  UNCHANGED view
<1>1. /\ mpc = "fill" /\ mpc' = "reap" /\ last_price' = match.price
      /\ UNCHANGED <<pc, call, orderid, balance, inventory, fundings>>
  BY DEF MatcherFill, Step, history
<1>2. /\ Seller' = Reduced(Seller)
      /\ Range(sell_orders') =
           (Range(sell_orders) \ {Seller}) \cup {Reduced(Seller)}
      /\ Range(buy_orders') = (Range(buy_orders) \ {Buyer})
                                \cup (IF Filled THEN {} ELSE {Reduced(Buyer)})
  BY FillEffect DEF Inv, BooksInv
<1>3. /\ Seller \in Range(sell_orders) /\ Seller \in Book
      /\ Seller \in Order /\ Buyer \in Order
      /\ match.quantity \in 0..Buyer.quant /\ match.quantity \in Nat
  BY <1>1, TradeOrders DEF Inv, BooksInv, Book
<1>4. \A x \in Range(sell_orders) : x.id = Seller.id => x = Seller
  BY <1>3, BookIds DEF Inv, Book
<1>5. /\ Reduced(Seller).id = Seller.id
      /\ Reduced(Buyer).quant = Buyer.quant - match.quantity
      /\ Filled <=> Reduced(Buyer).quant = 0
  <2>1. Buyer.quant \in Nat
    BY <1>3, WordsNat DEF Order
  <2> QED
    BY <1>3, <2>1 DEF Reduced, Order, Filled
<1>6. Buys' = Buys
  BY <1>1, <1>2, <1>5 DEF Buys, TradeInProgress, Remaining
<1>7. Sells' = Sells
  <2>1. Sells = Remaining(sell_orders, Seller)
    BY <1>1 DEF Sells, TradeInProgress
  <2>2. Sells' = Range(sell_orders') \ {o \in {Seller'} : o.quant = 0}
    BY <1>1 DEF Sells, TradeInProgress
  <2>3. Reduced(Seller) \notin Range(sell_orders) \ {Seller}
    BY <1>4, <1>5
  <2> QED
    BY <1>2, <2>1, <2>2, <2>3 DEF Remaining
<1>8. MarketOrders' = MarketOrders /\ NextId' = NextId
  BY <1>1, <1>6, <1>7, TradingView, TradingViewNext DEF MatcherTrading
<1>9. LastPrice' = LastPrice
  BY <1>1 DEF LastPrice, TradeInProgress
<1>10. FundsOf' = FundsOf /\ UnitsOf' = UnitsOf
  BY <1>1 DEF FundsOf, UnitsOf, FundsDue, UnitsDue
<1> QED
  BY <1>1, <1>8, <1>9, <1>10 DEF view

LEMMA ReapImplements ==
  ASSUME Inv, MatcherReap
  PROVE  UNCHANGED view
<1>1. /\ mpc = "reap" /\ mpc' \in {"outer", "inner"}
      /\ UNCHANGED <<pc, call, orderid, balance, inventory, fundings, buy_orders,
                     last_price>>
  BY DEF MatcherReap, history
<1>2. Range(sell_orders') = Range(sell_orders) \ {o \in {Seller} : o.quant = 0}
  BY ReapEffect DEF Inv, BooksInv
<1>3. Buys' = Buys /\ Sells' = Sells /\ LastPrice' = LastPrice
  BY <1>1, <1>2 DEF Buys, Sells, LastPrice, TradeInProgress
<1>4. MarketOrders' = MarketOrders /\ NextId' = NextId
  BY <1>1, <1>3, TradingView, TradingViewNext DEF MatcherTrading
<1>5. FundsOf' = FundsOf /\ UnitsOf' = UnitsOf
  BY <1>1 DEF FundsOf, UnitsOf, FundsDue, UnitsDue
<1> QED
  BY <1>1, <1>3, <1>4, <1>5 DEF view

(* Paying the seller is the trade.  First, what it does to the orders of   *)
(* one list: the order traded is replaced by what is left of it.           *)
LEMMA OrdersLeft ==
  ASSUME NEW list, NEW order \in Range(list), NEW type,
         \A x \in Range(list) : x.id = order.id => x = order
  PROVE  {AsOrder(type, o) : o \in Remaining(list, order)} =
           ({AsOrder(type, o) : o \in Range(list)} \ {AsOrder(type, order)})
             \cup {AsOrder(type, o) :
                     o \in {x \in {Reduced(order)} : x.quant # 0}}
<1>1. \A x, y : AsOrder(type, x) = AsOrder(type, y) => x.id = y.id
  BY DEF AsOrder
<1>2. {AsOrder(type, o) : o \in Range(list) \ {order}} =
        {AsOrder(type, o) : o \in Range(list)} \ {AsOrder(type, order)}
  BY <1>1
<1> QED
  BY <1>2 DEF Remaining

LEMMA PayImplements ==
  ASSUME Inv, Fits, MatcherPay
  PROVE  M!Next
<1> DEFINE s == AsOrder("sell", Seller)
           b == AsOrder("buy", Buyer)
           q == match.quantity
           p == match.price
<1>1. /\ mpc = "pay" /\ mpc' = "deliver"
      /\ UNCHANGED <<pc, call, orderid, buy_orders, sell_orders, match, inventory,
                     fundings, last_price>>
  BY DEF MatcherPay, Step, exchange, book, history
<1>2. /\ Seller \in Order /\ Buyer \in Order
      /\ Seller \in Range(sell_orders) /\ Buyer \in Range(buy_orders)
      /\ q \in 0..Seller.quant /\ q \in 0..Buyer.quant /\ q \in Nat
      /\ p \in Seller.price..Buyer.price
      /\ q = TradeQuantity(Seller, Buyer)
  <2>1. q = TradeQuantity(Seller, Buyer)
    BY <1>1 DEF Inv, CoreInv, TradeInv
  <2> QED
    BY <1>1, <2>1, TradeOrders DEF Inv, BooksInv
<1>3. /\ Seller.quant \in Nat /\ Buyer.quant \in Nat
      /\ Seller.price \in Nat /\ Buyer.price \in Nat /\ p \in Nat
      /\ Seller.trader \in Traders /\ Buyer.trader \in Traders
      /\ Seller.price <= Buyer.price
  <2>1. /\ Seller.quant \in Nat /\ Buyer.quant \in Nat
        /\ Seller.price \in Nat /\ Buyer.price \in Nat
        /\ Seller.trader \in Traders /\ Buyer.trader \in Traders
    BY <1>2, WordsNat DEF Order
  <2> QED
    BY <1>2, <2>1
<1>4. /\ s.type = "sell" /\ s.quant = Seller.quant /\ s.price = Seller.price
      /\ s.trader = Seller.trader
      /\ b.type = "buy" /\ b.quant = Buyer.quant /\ b.price = Buyer.price
      /\ b.trader = Buyer.trader
      /\ [s EXCEPT !.quant = @ - q] = AsOrder("sell", Reduced(Seller))
      /\ [b EXCEPT !.quant = @ - q] = AsOrder("buy", Reduced(Buyer))
  BY <1>2 DEF AsOrder, Reduced, Order
<1>5. Seller' = Seller /\ Buyer' = Buyer /\ \A o : Reduced(o)' = Reduced(o)
  BY <1>1 DEF Seller, Buyer, Reduced
<1> DEFINE AllBuys == {AsOrder("buy", o) : o \in Range(buy_orders)}
           AllSells == {AsOrder("sell", o) : o \in Range(sell_orders)}
           BuyLeft == {AsOrder("buy", o) :
                         o \in {x \in {Reduced(Buyer)} : x.quant # 0}}
           SellLeft == {AsOrder("sell", o) :
                          o \in {x \in {Reduced(Seller)} : x.quant # 0}}
<1>6. MarketOrders = AllBuys \cup AllSells
  BY <1>1, TradingView DEF MatcherTrading, Buys, Sells, TradeInProgress
<1>7. MarketOrders' = ((AllBuys \ {b}) \cup BuyLeft)
                        \cup ((AllSells \ {s}) \cup SellLeft)
  <2>1. /\ MarketOrders' = {AsOrder("buy", o) : o \in Buys'}
                              \cup {AsOrder("sell", o) : o \in Sells'}
    BY <1>1, TradingViewNext DEF MatcherTrading
  <2>2. /\ Buys' = Remaining(buy_orders, Buyer)
        /\ Sells' = Remaining(sell_orders, Seller)
    BY <1>1, <1>5 DEF Buys, Sells, TradeInProgress, Remaining, Reduced
  <2>3. /\ \A x \in Range(buy_orders) : x.id = Buyer.id => x = Buyer
        /\ \A x \in Range(sell_orders) : x.id = Seller.id => x = Seller
    BY <1>2, BookIds DEF Inv, Book
  <2>4. {AsOrder("buy", o) : o \in Remaining(buy_orders, Buyer)} =
          (AllBuys \ {b}) \cup BuyLeft
    BY <1>2, <2>3, OrdersLeft
  <2>5. {AsOrder("sell", o) : o \in Remaining(sell_orders, Seller)} =
          (AllSells \ {s}) \cup SellLeft
    BY <1>2, <2>3, OrdersLeft
  <2> QED
    BY <2>1, <2>2, <2>4, <2>5
<1> DEFINE rest == {[s EXCEPT !.quant = @ - q], [b EXCEPT !.quant = @ - q]}
<1>8. MarketOrders' = (MarketOrders \ {s, b}) \cup {o \in rest : o.quant > 0}
  <2>1. s \notin AllBuys /\ b \notin AllSells
    BY DEF AsOrder
  <2>2. /\ Reduced(Seller).quant = Seller.quant - q
        /\ Reduced(Buyer).quant = Buyer.quant - q
    BY <1>2 DEF Reduced, Order
  <2>3. /\ Reduced(Seller).quant > 0 <=> Reduced(Seller).quant # 0
        /\ Reduced(Buyer).quant > 0 <=> Reduced(Buyer).quant # 0
    BY <1>2, <1>3, <2>2
  <2>4. {o \in rest : o.quant > 0} = BuyLeft \cup SellLeft
    <3>1. /\ AsOrder("sell", Reduced(Seller)).quant = Reduced(Seller).quant
          /\ AsOrder("buy", Reduced(Buyer)).quant = Reduced(Buyer).quant
      BY DEF AsOrder
    <3> QED
      BY <1>4, <2>3, <3>1
  <2> HIDE DEF s, b, rest, AllBuys, AllSells, BuyLeft, SellLeft
  <2> QED
    BY <1>6, <1>7, <2>1, <2>4
<1>9. /\ \A o \in MarketOrders :
           /\ o.type = "sell" => s.price <= o.price
           /\ o.type = "buy" => o.price <= b.price
      /\ \A x \in s.price..b.price :
           M!Distance(p, LastPrice) <= M!Distance(x, LastPrice)
  <2>1. TradesAtBestPrices
    BY BestPrices DEF Inv
  <2>2. /\ \A i \in DOMAIN sell_orders : Seller.price <= sell_orders[i].price
        /\ \A i \in DOMAIN buy_orders : buy_orders[i].price <= Buyer.price
    BY <1>1, <2>1 DEF TradesAtBestPrices
  <2>3. /\ \A o \in Range(sell_orders) : Seller.price <= o.price
        /\ \A o \in Range(buy_orders) : o.price <= Buyer.price
    BY <2>2 DEF Range
  <2>4. \A x \in Seller.price..Buyer.price :
          M!Distance(p, last_price) <= M!Distance(x, last_price)
    BY <1>1, <2>1 DEF TradesAtBestPrices, M!Distance
  <2>5. LastPrice = last_price
    BY <1>1 DEF LastPrice, TradeInProgress
  <2>6. /\ \A o \in AllBuys : o.type = "buy" /\ o.price <= Buyer.price
        /\ \A o \in AllSells : o.type = "sell" /\ Seller.price <= o.price
    BY <2>3 DEF AsOrder
  <2> HIDE DEF s, b, AllBuys, AllSells
  <2> QED
    BY <1>4, <1>6, <2>4, <2>5, <2>6
<1>10. /\ LastPrice' = p /\ NextId' = NextId
       /\ \A u \in Traders : FundsDue(u) = 0 /\ UnitsDue(u) = 0
       /\ \A u \in Traders :
            /\ FundsDue(u)' = IF u = Buyer.trader
                                THEN q * (Buyer.price - p) ELSE 0
            /\ UnitsDue(u)' = IF u = Buyer.trader THEN q ELSE 0
  <2>1. NextId' = NextId
    BY <1>1, TradingViewNext DEF MatcherTrading
  <2> QED
    BY <1>1, <1>5, <2>1 DEF LastPrice, TradeInProgress, FundsDue, UnitsDue
<1> DEFINE cost == q * p
           due == q * (Buyer.price - p)
<1>11. cost \in Nat /\ due \in Int
  BY <1>2, <1>3
<1>12. /\ balance \in [Traders -> Nat] /\ inventory \in [Traders -> Nat]
       /\ balance[Seller.trader] \in Nat
  BY <1>3, WordsNat DEF Inv, CoreInv, TypeOK, AccountsOK
<1>13. balance' = [balance EXCEPT ![Seller.trader] = @ + cost]
  <2>1. balance[Seller.trader] + cost < Word
    BY <1>1 DEF Fits
  <2>2. cost < Word
    <3> HIDE DEF cost
    <3> QED
      BY <1>11, <1>12, <2>1, WordAssumption
  <2>3. Times(q, p) = cost
    BY <1>2, <1>3, <2>2, CostExact
  <2>4. balance' = [balance EXCEPT ![Seller.trader] = Plus(@, Times(q, p))]
    BY DEF MatcherPay, trader_increase_balance
  <2> HIDE DEF cost, q, p
  <2> QED
    BY <1>11, <1>12, <2>1, <2>3, <2>4, PlusExact
<1>14. FundsOf' = [t \in Traders |-> FundsOf[t]
                     + (IF t = s.trader THEN q * p ELSE 0)
                     + (IF t = b.trader THEN q * (b.price - p) ELSE 0)]
  <2>1. ASSUME NEW u \in Traders
        PROVE  balance'[u] + FundsDue(u)' = FundsOf[u]
                 + (IF u = s.trader THEN q * p ELSE 0)
                 + (IF u = b.trader THEN q * (b.price - p) ELSE 0)
    <3>1. FundsOf[u] = balance[u] + 0 /\ balance[u] \in Nat
      BY <1>10, <1>12 DEF FundsOf
    <3>2. balance'[u] = IF u = Seller.trader THEN balance[u] + cost ELSE balance[u]
      <4> HIDE DEF cost
      <4> QED
        BY <1>12, <1>13
    <3>3. FundsDue(u)' = IF u = Buyer.trader THEN due ELSE 0
      BY <1>10
    <3>4. /\ (IF u = s.trader THEN q * p ELSE 0) =
               IF u = Seller.trader THEN cost ELSE 0
          /\ (IF u = b.trader THEN q * (b.price - p) ELSE 0) =
               IF u = Buyer.trader THEN due ELSE 0
      BY <1>4
    <3> HIDE DEF cost, due, s, b, q, p
    <3> QED
      BY <1>11, <3>1, <3>2, <3>3, <3>4
  <2> QED
    BY <2>1 DEF FundsOf
<1>15. UnitsOf' = [UnitsOf EXCEPT ![b.trader] = @ + q]
  <2>1. ASSUME NEW u \in Traders
        PROVE  /\ UnitsOf[u] = inventory[u]
               /\ UnitsOf'[u] = IF u = Buyer.trader THEN inventory[u] + q
                                                    ELSE inventory[u]
    <3>1. inventory[u] \in Nat
      BY <1>12
    <3> QED
      BY <1>1, <1>10, <3>1 DEF UnitsOf
  <2>2. UnitsOf = [u \in Traders |-> UnitsOf[u]]
          /\ UnitsOf' = [u \in Traders |-> UnitsOf'[u]]
    BY DEF UnitsOf
  <2> HIDE DEF b, q
  <2> QED
    BY <1>4, <2>1, <2>2
<1>16. q = M!Quantity(s, b)
  BY <1>2, <1>4 DEF TradeQuantity, M!Quantity
<1>17. s \in MarketOrders /\ b \in MarketOrders /\ p \in s.price..b.price
  BY <1>2, <1>4, <1>6
<1>18. s.price <= b.price
  BY <1>3, <1>4
<1> HIDE DEF s, b, q, p, rest
<1>19. M!Trade(s, b, p)
  <2>1. /\ s.type = "sell" /\ b.type = "buy" /\ s.price <= b.price
        /\ LastPrice' = p /\ UNCHANGED <<NextId, fundings>>
    BY <1>1, <1>4, <1>10, <1>18
  <2>2. {o \in rest : o.quant > 0} = M!Rest(s, b)
    BY <1>16 DEF rest, M!Rest
  <2>3. MarketOrders' = (MarketOrders \ {s, b}) \cup M!Rest(s, b)
    BY <1>8, <2>2
  <2>4. FundsOf' = [t \in Traders |-> FundsOf[t]
               + (IF t = s.trader THEN M!Quantity(s, b) * p ELSE 0)
               + (IF t = b.trader THEN M!Quantity(s, b) * (b.price - p) ELSE 0)]
    BY ONLY <1>14, <1>16
  <2>5. UnitsOf' = [UnitsOf EXCEPT ![b.trader] = @ + M!Quantity(s, b)]
    BY ONLY <1>15, <1>16
  <2> QED
    BY ONLY <1>9, <2>1, <2>3, <2>4, <2>5 DEF M!Trade
<1> QED
  BY <1>17, <1>19 DEF M!Next
-----------------------------------------------------------------------------
(* A step of a service thread. *)
LEMMA ServiceImplements ==
  ASSUME Inv, TypeOK', Fits, NEW t \in Traders, Service(t) \/ ServiceStep(t)
  PROVE  M!Next \/ UNCHANGED view
<1>0. pc \in [Traders -> ServicePoints] /\ call \in [Traders -> Call]
  BY DEF Inv, CoreInv, TypeOK, ThreadsOK
<1>1. CASE \E amount \in Amounts :
             \/ Deposit(t, amount) \/ Withdraw(t, amount)
             \/ Escrow(t, amount)  \/ Release(t, amount)
  <2>1. M!Fund(t)
    BY <1>1, FundingImplements
  <2> QED
    BY <2>1 DEF M!Next
<1>2. CASE DebitBuy(t) \/ DebitSell(t)
  BY <1>2, DebitImplements
<1>3. CASE Insert(t)
  BY <1>3, InsertImplements
<1>4. CASE CancelFinds(t)
  BY <1>4, CancelFindsImplements
<1>5. CASE CancelRefund(t)
  BY <1>5, CancelRefundImplements
<1>6. ASSUME UNCHANGED <<book, balance, inventory, fundings, mpc, match>>,
             pc[t] \notin {"insert", "refund"},
             pc'[t] \notin {"insert", "refund"},
             \A u \in Traders \ {t} : pc'[u] = pc[u] /\ call'[u] = call[u]
      PROVE  UNCHANGED view
  <2>1. \A u \in Traders :
          \/ pc'[u] = pc[u] /\ call'[u] = call[u]
          \/ /\ pc[u] \notin {"insert", "refund"}
             /\ pc'[u] \notin {"insert", "refund"}
    BY <1>6
  <2> QED
    BY <1>6, <2>1, QuietStep DEF book
<1>7. ASSUME NEW c, Request(t, c)
      PROVE  UNCHANGED view
  BY <1>0, <1>6, <1>7 DEF Request, Goto, exchange, accounts, background, history
<1>8. CASE Leave(t)
  BY <1>0, <1>6, <1>8 DEF Leave, Goto, exchange, accounts, background, history
<1>9. CASE Lock(t) \/ CancelFails(t) \/ Unlock(t)
  BY <1>0, <1>6, <1>9 DEF Lock, CancelFails, Unlock, Goto, exchange, accounts,
     background, history
<1>10. CASE BroadcastPosted(t) \/ BroadcastCanceled(t)
  BY <1>0, <1>6, <1>10 DEF BroadcastPosted, BroadcastCanceled, Goto, exchange,
     accounts, background
<1>11. CASE Service(t)
  <2>1. (\E c : Request(t, c))
          \/ Leave(t) \/ \E amount \in Amounts :
               \/ Deposit(t, amount) \/ Withdraw(t, amount)
               \/ Escrow(t, amount)  \/ Release(t, amount)
    BY <1>11 DEF Service, RequestPost, RequestCancel
  <2> QED
    BY <1>1, <1>7, <1>8, <2>1
<1> QED
  BY <1>2, <1>3, <1>4, <1>5, <1>9, <1>10, <1>11 DEF ServiceStep

(* A step of the matchmaker. *)
LEMMA MatcherImplements ==
  ASSUME Inv, TypeOK', Fits, Matcher
  PROVE  M!Next \/ UNCHANGED view
<1>1. CASE MatcherPay
  BY <1>1, PayImplements
<1>2. CASE MatcherDeliver \/ MatcherRefund
  BY <1>2, DeliverImplements, RefundImplements
<1>3. CASE MatcherReport \/ MatcherFill \/ MatcherReap
  BY <1>3, ReportImplements, FillImplements, ReapImplements
<1>4. CASE MatcherWake \/ MatcherStop \/ MatcherStart \/ MatcherSleep
             \/ MatcherOuter \/ MatcherInner
  <2>1. /\ UNCHANGED <<book, accounts, history, pc, call>>
        /\ mpc \notin {"deliver", "refund", "report", "fill", "reap"}
        /\ mpc' \notin {"deliver", "refund", "report", "fill", "reap"}
    BY <1>4 DEF MatcherWake, MatcherStop, MatcherStart, MatcherSleep,
       MatcherOuter, MatcherInner, Step, exchange
  <2> QED
    BY <2>1, QuietStep DEF book, accounts, history
<1> QED
  BY <1>1, <1>2, <1>3, <1>4 DEF Matcher

(* Every step of the exchange is one of the market, or none. *)
LEMMA StepImplements ==
  ASSUME Inv, TypeOK', Fits, [Next]_vars
  PROVE  M!Next \/ UNCHANGED view
<1>1. CASE Fini \/ UNCHANGED vars
  <2>1. UNCHANGED <<pc, call, mpc, match, book, accounts, history>>
    BY <1>1 DEF Fini, FiniFree, FiniWake, FiniJoin, vars, exchange, control,
       background
  <2> QED
    BY <2>1, QuietStep DEF book, accounts, history
<1>2. CASE Exited
  BY <1>1, <1>2 DEF Exited
<1> QED
  BY <1>1, <1>2, ServiceImplements, MatcherImplements DEF Next

(* The exchange opens as an empty market. *)
LEMMA InitImplements == Init => M!Init
<1> SUFFICES ASSUME Init PROVE M!Init
  OBVIOUS
<1>1. Buys = {} /\ Sells = {} /\ InHand = {} /\ LastPrice = 0 /\ NextId = 1
  BY DEF Init, Buys, Sells, InHand, LastPrice, NextId, TradeInProgress, Range
<1>2. MarketOrders = {}
  BY <1>1 DEF MarketOrders
<1>3. \A t \in Traders : FundsDue(t) = 0 /\ UnitsDue(t) = 0
  BY DEF Init, FundsDue, UnitsDue
<1>4. /\ FundsOf = [t \in Traders |-> 0]
      /\ UnitsOf = [t \in Traders |-> 0]
  BY <1>3 DEF Init, FundsOf, UnitsOf
<1> QED
  BY <1>1, <1>2, <1>4 DEF Init, M!Init
-----------------------------------------------------------------------------
(* The exchange starts as an empty market, and each step of a service      *)
(* thread, of the matchmaker or of exchange_fini, whatever the others are  *)
(* doing, funds, posts, cancels or trades as Market allows, or is not      *)
(* seen: an order is traded before it is cancelled or after, never in      *)
(* between, and always with the best counterpart.  This is true of every   *)
(* step whose credit or cost fits a word, even after one whose did not.    *)
THEOREM StepsAreMarketSteps == Spec => M!Init /\ [][Fits => M!Next]_view
<1>1. Init => M!Init
  BY InitImplements
<1>2. Inv /\ Inv' /\ [Next]_vars => [Fits => M!Next]_view
  <2>1. Inv' => TypeOK'
    BY DEF Inv, CoreInv
  <2> QED
    BY <2>1, StepImplements
<1> QED
  BY <1>1, <1>2, Invariance, PTL DEF Spec

(* As long as no account and no cost reaches the word size, the exchange   *)
(* is a market: what its traders can observe of orders and accounts is     *)
(* what they would of exchange_post_buy, exchange_post_sell,               *)
(* exchange_cancel and the trades happening one at a time.                 *)
THEOREM Refinement == Spec /\ []Fits => ImplementsMarket
<1>1. Inv /\ Inv' /\ Fits /\ [Next]_vars => [M!Next]_(M!market)
  <2>1. Inv' => TypeOK'
    BY DEF Inv, CoreInv
  <2>2. UNCHANGED view => UNCHANGED M!market
    BY DEF view, M!market
  <2> QED
    BY <2>1, <2>2, StepImplements
<1> QED
  BY <1>1, InitImplements, Invariance, PTL DEF Spec, ImplementsMarket, M!Spec
=============================================================================
