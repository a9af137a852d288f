-------------------------- MODULE TransplantProofs --------------------------
(* The paths of the serializer and the deserializer, and what becomes of a  *)
(* tree that goes through both.                                             *)
EXTENDS Transplant, SetLemmas

-----------------------------------------------------------------------------
(* Sequences. *)

LEMMA AppendFacts ==
  ASSUME NEW S, NEW s \in Seq(S), NEW x \in S
  PROVE  /\ Append(s, x) \in Seq(S) /\ Append(s, x) # <<>>
         /\ Len(Append(s, x)) = Len(s) + 1 /\ Len(s) \in Nat
         /\ \A i \in 1..Len(s) : Append(s, x)[i] = s[i]
         /\ Append(s, x)[Len(s) + 1] = x
         /\ Front(Append(s, x)) = s /\ Last(Append(s, x)) = x
         /\ SubSeq(Append(s, x), 1, Len(s)) = s
<1>1. /\ Append(s, x) \in Seq(S) /\ Append(s, x) # <<>>
      /\ Len(Append(s, x)) = Len(s) + 1 /\ Len(s) \in Nat
      /\ \A i \in 1..Len(s) : Append(s, x)[i] = s[i]
      /\ Append(s, x)[Len(s) + 1] = x
  OBVIOUS
<1>2. Front(Append(s, x)) = s /\ Last(Append(s, x)) = x
  BY DEF Front, Last
<1>3. SubSeq(Append(s, x), 1, Len(s)) = s
  OBVIOUS
<1> QED
  BY <1>1, <1>2, <1>3

LEMMA FrontLast ==
  ASSUME NEW S, NEW s \in Seq(S), s # <<>>
  PROVE  /\ Front(s) \in Seq(S) /\ Last(s) \in S /\ s = Append(Front(s), Last(s))
         /\ Len(Front(s)) = Len(s) - 1 /\ Len(s) \in Nat \ {0} /\ Last(s) = s[Len(s)]
         /\ \A i \in 1..Len(s) - 1 : Front(s)[i] = s[i]
<1>1. Len(s) \in Nat \ {0} /\ Last(s) = s[Len(s)] /\ Last(s) \in S
  BY DEF Last
<1>2. Front(s) \in Seq(S) /\ s = Append(Front(s), Last(s))
  BY DEF Front, Last
<1> QED
  BY <1>1, <1>2, AppendFacts

-----------------------------------------------------------------------------
(* Where the slashes of a path are. *)

LEMMA SlashFunction ==
  ASSUME NEW at \in Seq(Names)
  PROVE  \E f \in [0..Len(at) -> Int] :
           /\ f[0] = -1
           /\ \A k \in 1..Len(at) : f[k] = f[k - 1] + Length[at[k]] + 1
           /\ \A k \in 1..Len(at) + 1 : Slash(at, k) = f[k - 1]
<1> DEFINE n == Len(at)
           Body(g) == [i \in 0..Len(at) |-> IF i = 0 THEN -1
                                            ELSE g[i - 1] + Length[at[i]] + 1]
           step == [k \in 1..n |-> [x \in Int |-> x + Length[at[k]] + 1]]
<1>1. n \in Nat /\ \A k \in 1..n : Length[at[k]] \in Nat
  BY TransplantAssumption
<1>2. step \in [1..n -> [Int -> Int]]
  BY <1>1
<1>3. PICK f \in [0..n -> Int] : f[0] = -1 /\ \A k \in 1..n : f[k] = step[k][f[k - 1]]
  <2> HIDE DEF step, n
  <2>0. -1 \in Int /\ n \in Nat
    BY <1>1
  <2>1. PICK f : Iterates(f, Int, -1, n, step)
    BY <1>2, <2>0, Recurrence
  <2> QED
    BY <2>1 DEF Iterates
<1>4. ASSUME NEW k \in 1..n PROVE f[k] = f[k - 1] + Length[at[k]] + 1
  <2>1. k - 1 \in 0..n
    BY <1>1
  <2>2. f[k - 1] \in Int
    BY <1>3, <2>1
  <2> QED
    BY <1>3, <2>2
<1>5. f = Body(f)
  <2>1. \A i \in 0..n : f[i] = IF i = 0 THEN -1 ELSE f[i - 1] + Length[at[i]] + 1
    <3>1. \A i \in 0..n : i = 0 \/ i \in 1..n
      BY <1>1
    <3> QED
      BY <1>3, <1>4, <3>1
  <2> QED
    BY <1>3, <2>1
<1> DEFINE g == CHOOSE x : x = Body(x)
<1>6. g = Body(g)
  <2> HIDE DEF Body
  <2> QED
    BY <1>5
<1>7. \A k \in 1..n + 1 : Slash(at, k) = g[k - 1]
  BY DEF Slash
<1> HIDE DEF g
<1>8. /\ g \in [0..n -> Int]
      /\ g[0] = -1 /\ \A k \in 1..n : g[k] = g[k - 1] + Length[at[k]] + 1
  <2>1. \A i \in 0..n : g[i] = IF i = 0 THEN -1 ELSE g[i - 1] + Length[at[i]] + 1
    BY <1>6
  <2> DEFINE same == {i \in 0..n : g[i] \in Int}
  <2>2. 0 \in same
    BY <1>1, <2>1
  <2>3. ASSUME NEW i \in 1..n, i - 1 \in same PROVE i \in same
    <3>1. i \in 0..n /\ i # 0 /\ g[i - 1] \in Int /\ Length[at[i]] \in Nat
      BY <1>1, <2>3
    <3> QED
      BY <2>1, <3>1
  <2>4. 0..n \subseteq same
    <3> HIDE DEF same, n
    <3> QED
      BY <1>1, <2>2, <2>3, Ascent
  <2>5. DOMAIN g = 0..n /\ g = [i \in 0..n |-> g[i]]
    BY <1>6
  <2>6. \A k \in 1..n : k \in 0..n /\ k # 0
    BY <1>1
  <2> QED
    BY SMTT(30), <1>1, <2>1, <2>4, <2>5, <2>6
<1> QED
  BY <1>7, <1>8

LEMMA SlashFirst ==
  ASSUME NEW at \in Seq(Names)
  PROVE  Slash(at, 1) = -1
<1>1. 1 \in 1..Len(at) + 1 /\ 1 - 1 = 0
  OBVIOUS
<1> QED
  BY <1>1, SlashFunction

LEMMA SlashNext ==
  ASSUME NEW at \in Seq(Names), NEW k \in 1..Len(at)
  PROVE  Slash(at, k + 1) = Slash(at, k) + Length[at[k]] + 1
<1>1. k \in 1..Len(at) + 1 /\ k + 1 \in 1..Len(at) + 1 /\ (k + 1) - 1 = k
  OBVIOUS
<1> QED
  BY <1>1, SlashFunction

LEMMA SlashType ==
  ASSUME NEW at \in Seq(Names), NEW k \in 1..Len(at) + 1
  PROVE  Slash(at, k) \in Int
<1>1. k - 1 \in 0..Len(at)
  OBVIOUS
<1>2. PICK f \in [0..Len(at) -> Int] : \A j \in 1..Len(at) + 1 : Slash(at, j) = f[j - 1]
  BY SlashFunction
<1> QED
  BY <1>1, <1>2

(* A slash further on is at a higher position. *)
LEMMA SlashUp ==
  ASSUME NEW at \in Seq(Names), NEW i \in 1..Len(at) + 1, NEW k \in i..Len(at) + 1
  PROVE  Slash(at, i) <= Slash(at, k)
<1> DEFINE n == Len(at) + 1 - i
           up == {j \in 0..n : Slash(at, i) <= Slash(at, i + j)}
<1>0. n \in Nat /\ Len(at) \in Nat /\ i \in Nat
  OBVIOUS
<1>1. 0 \in up
  BY <1>0, SlashType
<1>2. ASSUME NEW j \in 1..n, j - 1 \in up
      PROVE  j \in up
  <2>1. i + (j - 1) \in 1..Len(at) /\ (i + (j - 1)) + 1 = i + j /\ j \in 0..n
        /\ i + (j - 1) \in 1..Len(at) + 1 /\ i + j \in 1..Len(at) + 1
    BY <1>0
  <2>2. Slash(at, i + j) = Slash(at, i + (j - 1)) + Length[at[i + (j - 1)]] + 1
    BY <2>1, SlashNext
  <2>3. Length[at[i + (j - 1)]] \in Nat
    BY <2>1, TransplantAssumption
  <2>4. Slash(at, i) \in Int /\ Slash(at, i + (j - 1)) \in Int /\ Slash(at, i + j) \in Int
    BY <2>1, SlashType
  <2> QED
    BY <1>2, <2>1, <2>2, <2>3, <2>4
<1>3. 0..n \subseteq up
  <2> HIDE DEF up, n
  <2> QED
    BY <1>0, <1>1, <1>2, Ascent
<1>4. k - i \in 0..n /\ i + (k - i) = k
  BY <1>0
<1> QED
  BY <1>3, <1>4

(* It depends only on the components before it. *)
LEMMA SlashSame ==
  ASSUME NEW at \in Seq(Names), NEW new \in Seq(Names), Len(at) <= Len(new),
         \A i \in 1..Len(at) : new[i] = at[i], NEW k \in 1..Len(at) + 1
  PROVE  Slash(new, k) = Slash(at, k)
<1> DEFINE m == Len(at)
           same == {j \in 0..m : Slash(new, j + 1) = Slash(at, j + 1)}
<1>0. m \in Nat /\ Len(new) \in Nat /\ m <= Len(new)
  OBVIOUS
<1>1. 0 \in same
  BY <1>0, SlashFirst
<1>2. ASSUME NEW j \in 1..m, j - 1 \in same
      PROVE  j \in same
  <2>1. j \in 1..Len(new) /\ (j - 1) + 1 = j /\ j \in 0..m
    BY <1>0
  <2>2. Slash(new, j + 1) = Slash(new, j) + Length[new[j]] + 1
    BY <1>0, <2>1, SlashNext
  <2>3. Slash(at, j + 1) = Slash(at, j) + Length[at[j]] + 1
    BY SlashNext
  <2> QED
    BY <1>0, <1>2, <2>1, <2>2, <2>3
<1>3. 0..m \subseteq same
  <2> HIDE DEF same, m
  <2> QED
    BY <1>0, <1>1, <1>2, Ascent
<1>4. k - 1 \in 0..m /\ (k - 1) + 1 = k
  BY <1>0
<1> QED
  BY <1>3, <1>4

-----------------------------------------------------------------------------
(* The components that name a file. *)

LEMMA StepsFunction ==
  ASSUME NEW at \in Seq(Names)
  PROVE  \E f \in [0..Len(at) -> Seq(Names)] :
           /\ f[0] = <<>>
           /\ \A k \in 1..Len(at) :
                f[k] = IF at[k] = Blank THEN f[k - 1] ELSE Append(f[k - 1], at[k])
           /\ Steps(at) = f[Len(at)]
<1> DEFINE n == Len(at)
           T == Seq(Names)
           Body(g) == [i \in 0..Len(at) |-> IF i = 0 THEN <<>>
                                            ELSE IF at[i] = Blank THEN g[i - 1]
                                            ELSE Append(g[i - 1], at[i])]
           step == [k \in 1..n |-> [x \in T |-> IF at[k] = Blank THEN x
                                                ELSE Append(x, at[k])]]
<1>1. n \in Nat /\ \A k \in 1..n : at[k] \in Names
  OBVIOUS
<1>2. step \in [1..n -> [T -> T]]
  BY <1>1
<1>3. PICK f \in [0..n -> T] : f[0] = <<>> /\ \A k \in 1..n : f[k] = step[k][f[k - 1]]
  <2>0. <<>> \in T
    OBVIOUS
  <2> HIDE DEF step, n, T
  <2>1. PICK f : Iterates(f, T, <<>>, n, step)
    BY <1>1, <1>2, <2>0, Recurrence
  <2> QED
    BY <2>1 DEF Iterates
<1>4. ASSUME NEW k \in 1..n
      PROVE  f[k] = IF at[k] = Blank THEN f[k - 1] ELSE Append(f[k - 1], at[k])
  <2>1. k - 1 \in 0..n
    BY <1>1
  <2>2. f[k - 1] \in T
    BY <1>3, <2>1
  <2> HIDE DEF T
  <2> QED
    BY <1>3, <2>2
<1>5. f = Body(f)
  <2>1. \A i \in 0..n : i = 0 \/ i \in 1..n
    BY <1>1
  <2>2. \A i \in 0..n : f[i] = IF i = 0 THEN <<>> ELSE IF at[i] = Blank THEN f[i - 1]
                               ELSE Append(f[i - 1], at[i])
    BY <1>3, <1>4, <2>1
  <2> HIDE DEF T
  <2> QED
    BY <1>3, <2>2
<1> DEFINE g == CHOOSE x : x = Body(x)
<1>6. g = Body(g)
  <2> HIDE DEF Body
  <2> QED
    BY <1>5
<1>7. Steps(at) = g[n]
  BY DEF Steps
<1> HIDE DEF g
<1>8. /\ g \in [0..n -> T] /\ g[0] = <<>>
      /\ \A k \in 1..n : g[k] = IF at[k] = Blank THEN g[k - 1]
                                ELSE Append(g[k - 1], at[k])
  <2>1. \A i \in 0..n : g[i] = IF i = 0 THEN <<>> ELSE IF at[i] = Blank THEN g[i - 1]
                               ELSE Append(g[i - 1], at[i])
    BY <1>6
  <2> DEFINE same == {i \in 0..n : g[i] \in T}
  <2>2. 0 \in same
    <3>1. 0 \in 0..n /\ <<>> \in T
      BY <1>1
    <3> HIDE DEF T
    <3> QED
      BY <2>1, <3>1
  <2>3. ASSUME NEW i \in 1..n, i - 1 \in same PROVE i \in same
    <3>1. i \in 0..n /\ i # 0 /\ g[i - 1] \in T /\ at[i] \in Names
      BY <1>1, <2>3
    <3>2. Append(g[i - 1], at[i]) \in T
      BY <3>1
    <3> QED
      BY <2>1, <3>1, <3>2
  <2>4. 0..n \subseteq same
    <3> HIDE DEF same, n
    <3> QED
      BY <1>1, <2>2, <2>3, Ascent
  <2>5. DOMAIN g = 0..n /\ g = [i \in 0..n |-> g[i]]
    BY <1>6
  <2>6. \A k \in 1..n : k \in 0..n /\ k # 0
    BY <1>1
  <2>7. 0 \in 0..n
    BY <1>1
  <2> HIDE DEF T
  <2> QED
    BY <2>1, <2>4, <2>5, <2>6, <2>7
<1> QED
  BY <1>7, <1>8

LEMMA StepsAppend ==
  ASSUME NEW at \in Seq(Names), NEW n \in Names
  PROVE  /\ Steps(at) \in Seq(Names)
         /\ Steps(Append(at, n)) = IF n = Blank THEN Steps(at) ELSE Append(Steps(at), n)
<1> DEFINE new == Append(at, n)
           m == Len(at)
<1>0. /\ new \in Seq(Names) /\ Len(new) = m + 1 /\ m \in Nat
      /\ \A i \in 1..m : new[i] = at[i]
      /\ new[m + 1] = n
  BY AppendFacts
<1>1. PICK f \in [0..m -> Seq(Names)] :
         /\ f[0] = <<>>
         /\ \A k \in 1..m :
              f[k] = IF at[k] = Blank THEN f[k - 1] ELSE Append(f[k - 1], at[k])
         /\ Steps(at) = f[m]
  BY StepsFunction
<1> HIDE DEF new
<1>2. PICK g \in [0..m + 1 -> Seq(Names)] :
         /\ g[0] = <<>>
         /\ \A k \in 1..m + 1 :
              g[k] = IF new[k] = Blank THEN g[k - 1] ELSE Append(g[k - 1], new[k])
         /\ Steps(new) = g[m + 1]
  BY <1>0, StepsFunction
<1> DEFINE same == {j \in 0..m : g[j] = f[j]}
<1>3. 0 \in same
  BY <1>0, <1>1, <1>2
<1>4. ASSUME NEW j \in 1..m, j - 1 \in same PROVE j \in same
  <2>1. j \in 1..m + 1 /\ j \in 0..m /\ g[j - 1] = f[j - 1] /\ new[j] = at[j]
    BY <1>0, <1>4
  <2> QED
    BY <1>1, <1>2, <2>1
<1>5. 0..m \subseteq same
  <2> HIDE DEF same, m
  <2> QED
    BY <1>0, <1>3, <1>4, Ascent
<1>6. g[m] = f[m] /\ m + 1 \in 1..m + 1 /\ (m + 1) - 1 = m /\ f[m] \in Seq(Names)
  BY <1>0, <1>1, <1>5
<1> QED
  BY <1>0, <1>1, <1>2, <1>6 DEF new

-----------------------------------------------------------------------------
(* path_pop takes off what was pushed last. *)
LEMMA Popped ==
  ASSUME NEW at \in Seq(Names), at # <<>>, NEW n \in Names, n # Blank,
         NEW len \in Int,
         LET i == Slash(at, Len(at) + 1)
         IN i > 2 /\ i < len /\ len <= i + 1 + Length[n]
  PROVE  LET p == [at |-> Append(at, n), len |-> len]
         IN /\ Below(p) # {}
            /\ path_pop(p) = [at |-> at, len |-> Slash(at, Len(at) + 1) - 1]
            /\ Steps(path_pop(p).at) = Front(Steps(p.at))
<1> DEFINE new == Append(at, n)
           p == [at |-> new, len |-> len]
           m == Len(at)
           i == Slash(at, m + 1)
<1>0. /\ new \in Seq(Names) /\ Len(new) = m + 1 /\ m \in Nat \ {0}
      /\ SubSeq(new, 1, m) = at
  BY AppendFacts
<1>1. Slash(new, m + 1) = i /\ i \in Int
  <2>1. m + 1 \in 1..Len(at) + 1 /\ Len(at) <= Len(new)
        /\ \A j \in 1..Len(at) : new[j] = at[j]
    BY <1>0, AppendFacts
  <2> HIDE DEF new
  <2> QED
    BY <1>0, <2>1, SlashSame, SlashType
<1>2. p.at = new /\ p.len = len
  OBVIOUS
<1> HIDE DEF new, p, i
<1>3. m + 1 \in Below(p) /\ Below(p) \subseteq 2..m + 1
  BY <1>0, <1>1, <1>2 DEF Below, i
<1>4. Max(Below(p)) = m + 1
  <2>1. \A y \in Below(p) : m + 1 >= y /\ y \in Int
    BY <1>0, <1>3
  <2>2. \A x \in Below(p) : (\A y \in Below(p) : x >= y) => x = m + 1
    BY <1>0, <1>3, <2>1
  <2> HIDE DEF m
  <2> QED
    BY <1>3, <2>1, <2>2 DEF Max
<1>5. path_pop(p) = [at |-> at, len |-> i - 1]
  <2>1. (m + 1) - 1 = m
    BY <1>0
  <2>2. path_pop(p) = [at |-> SubSeq(new, 1, (m + 1) - 1), len |-> i - 1]
    <3> HIDE DEF m
    <3> QED
      BY <1>1, <1>2, <1>4 DEF path_pop, i, m
  <2> QED
    BY <1>0, <2>1, <2>2
<1>6. Steps(new) = Append(Steps(at), n) /\ Steps(at) \in Seq(Names)
  BY StepsAppend DEF new
<1>7. Front(Steps(new)) = Steps(at)
  BY <1>6, AppendFacts
<1> QED
  BY <1>2, <1>3, <1>5, <1>7 DEF new, p, i

PathBufs == [at : Seq(Names), len : Int]

LEMMA MaxOfPositions ==
  ASSUME NEW n \in Nat, NEW S \in SUBSET (0..n), S # {}
  PROVE  Max(S) \in S /\ \A y \in S : y <= Max(S)
<1> DEFINE R == {n - y : y \in S}
<1>0. \A y \in S : y \in Int /\ n - y \in Nat
  OBVIOUS
<1>1. R \in SUBSET Nat /\ R # {}
  BY <1>0
<1>2. Min(R) \in R /\ \A y \in R : Min(R) <= y
  BY <1>1, MinOfPositions
<1> DEFINE x == n - Min(R)
<1>3. x \in S /\ \A y \in S : x >= y
  <2>1. PICK z \in S : Min(R) = n - z
    BY <1>2
  <2>2. x = z
    BY <1>0, <2>1
  <2>3. \A y \in S : n - z <= n - y
    BY <1>2, <2>1
  <2> QED
    BY <1>0, <2>2, <2>3
<1> HIDE DEF x
<1> QED
  BY <1>3 DEF Max

LEMMA PoppedType ==
  ASSUME NEW p \in PathBufs, Below(p) # {}
  PROVE  path_pop(p) \in PathBufs
<1> DEFINE k == Max(Below(p))
           i == Slash(p.at, k)
           cut == SubSeq(p.at, 1, k - 1)
<1>1. p.at \in Seq(Names) /\ p.len \in Int /\ p = [at |-> p.at, len |-> p.len]
  BY DEF PathBufs
<1>2. k \in 2..Len(p.at)
  <2>1. Len(p.at) \in Nat /\ Below(p) \subseteq 2..Len(p.at)
        /\ Below(p) \subseteq 0..Len(p.at)
    BY <1>1 DEF Below
  <2> QED
    BY <2>1, MaxOfPositions
<1> HIDE DEF k
<1>3. i \in Int
  BY <1>1, <1>2, SlashType
<1>4. cut \in Seq(Names) /\ Append(cut, Blank) \in Seq(Names)
  BY <1>1, <1>2, TransplantAssumption
<1> HIDE DEF cut, i
<1>5. /\ [at |-> cut, len |-> i - 1] \in PathBufs
      /\ [p EXCEPT !.at = Append(cut, Blank)] \in PathBufs
  BY SMTT(30), <1>1, <1>3, <1>4 DEF PathBufs
<1>6. path_pop(p) = IF i > 2 THEN [at |-> cut, len |-> i - 1]
                    ELSE IF p.len - 1 > i THEN [p EXCEPT !.at = Append(cut, Blank)]
                    ELSE p
  BY DEF path_pop, k, i, cut
<1> QED
  BY <1>5, <1>6

-----------------------------------------------------------------------------
(* Reading the stream byte by byte. *)

(* The names of the entries of the tree, and the records there can be.      *)
TreeNames == {Last(p) : p \in DOMAIN tree}
Records ==
  [is : {"sot", "sod", "eod", "eot", "bytes", "text", "junk"}, len : Nat \ {0}, name : {Blank}]
    \cup [is : {"entry"}, len : Nat \ {0}, name : TreeNames]
    \cup [is : {"file"}, len : {16}, size : Nat]

LEMMA RecordFacts ==
  ASSUME NEW r \in Records
  PROVE  /\ r.is \in {"sot", "sod", "eod", "eot", "bytes", "text", "junk", "entry", "file"}
         /\ r.len \in Nat \ {0}
         /\ r.is = "entry" => r.name \in TreeNames
         /\ r.is = "file" => r.size \in Nat
<1>1. CASE r \in [is : {"sot", "sod", "eod", "eot", "bytes", "text", "junk"},
                  len : Nat \ {0}, name : {Blank}]
  BY <1>1
<1>2. CASE r \in [is : {"entry"}, len : Nat \ {0}, name : TreeNames]
  BY <1>2
<1>3. CASE r \in [is : {"file"}, len : {16}, size : Nat]
  BY <1>3
<1> QED
  BY <1>1, <1>2, <1>3 DEF Records

LEMMA HeadTail ==
  ASSUME NEW S, NEW s \in Seq(S), s # <<>>
  PROVE  /\ s[1] \in S /\ Tail(s) \in Seq(S) /\ Len(Tail(s)) = Len(s) - 1
         /\ Len(s) \in Nat \ {0} /\ \A i \in 1..Len(s) - 1 : Tail(s)[i] = s[i + 1]
OBVIOUS

LEMMA SkipByteType ==
  ASSUME NEW s \in Seq(Records)
  PROVE  SkipByte(s) \in Seq(Records)
<1>1. CASE s = <<>>
  BY <1>1 DEF SkipByte
<1>2. CASE s # <<>>
  <2> DEFINE junk == Record(Remnant(s[1].is), s[1].len - 1, Blank)
  <2>1. s[1] \in Records /\ Tail(s) \in Seq(Records) /\ s[1].len \in Nat \ {0}
    BY <1>2, HeadTail, RecordFacts
  <2>2. s[1].len # 1 => junk \in Records
    BY <2>1 DEF Record, Records, Remnant
  <2> HIDE DEF junk
  <2>3. s[1].len # 1 => <<junk>> \o Tail(s) \in Seq(Records)
    BY <2>1, <2>2
  <2>4. SkipByte(s) = IF s[1].len = 1 THEN Tail(s) ELSE <<junk>> \o Tail(s)
    BY <1>2 DEF SkipByte, junk
  <2> QED
    BY <2>1, <2>3, <2>4
<1> QED
  BY <1>1, <1>2

LEMMA SkipFunction ==
  ASSUME NEW s \in Seq(Records), NEW n \in Nat
  PROVE  \E f \in [0..n -> Seq(Records)] :
           /\ f[0] = s
           /\ \A k \in 1..n : f[k] = SkipByte(f[k - 1])
           /\ Skip(s, n) = f[n]
<1> DEFINE T == Seq(Records)
           Body(g) == [i \in 0..n |-> IF i = 0 THEN s ELSE SkipByte(g[i - 1])]
           step == [k \in 1..n |-> [x \in T |-> SkipByte(x)]]
<1>1. \A x \in T : SkipByte(x) \in T
  BY SkipByteType
<1>2. step \in [1..n -> [T -> T]] /\ s \in T
  <2> HIDE DEF T
  <2>1. [x \in T |-> SkipByte(x)] \in [T -> T]
    BY <1>1
  <2>2. s \in T
    BY DEF T
  <2> QED
    BY <2>1, <2>2
<1> HIDE DEF T
<1>3. PICK f \in [0..n -> T] : f[0] = s /\ \A k \in 1..n : f[k] = step[k][f[k - 1]]
  <2> HIDE DEF step
  <2>1. PICK f : Iterates(f, T, s, n, step)
    BY <1>2, Recurrence
  <2> QED
    BY <2>1 DEF Iterates
<1>4. ASSUME NEW k \in 1..n
      PROVE  f[k] = SkipByte(f[k - 1])
  <2>1. k - 1 \in 0..n
    OBVIOUS
  <2>2. f[k - 1] \in T
    BY <1>3, <2>1
  <2> QED
    BY <1>3, <2>2
<1>5. f = Body(f)
  <2>1. \A i \in 0..n : i = 0 \/ i \in 1..n
    OBVIOUS
  <2>2. \A i \in 0..n : f[i] = IF i = 0 THEN s ELSE SkipByte(f[i - 1])
    BY <1>3, <1>4, <2>1
  <2> QED
    BY <1>3, <2>2
<1> DEFINE g == CHOOSE x : x = Body(x)
<1>6. g = Body(g)
  <2> HIDE DEF Body
  <2> QED
    BY <1>5
<1>7. Skip(s, n) = g[n]
  BY DEF Skip
<1> HIDE DEF g
<1>8. /\ g \in [0..n -> T] /\ g[0] = s /\ \A k \in 1..n : g[k] = SkipByte(g[k - 1])
  <2>1. \A i \in 0..n : g[i] = IF i = 0 THEN s ELSE SkipByte(g[i - 1])
    BY <1>6
  <2> DEFINE same == {i \in 0..n : g[i] \in T}
  <2>2. 0 \in same
    BY <1>2, <2>1
  <2>3. ASSUME NEW i \in 1..n, i - 1 \in same PROVE i \in same
    BY <1>1, <2>1, <2>3
  <2>4. 0..n \subseteq same
    <3> HIDE DEF same
    <3> QED
      BY <2>2, <2>3, Ascent
  <2>5. DOMAIN g = 0..n /\ g = [i \in 0..n |-> g[i]]
    BY <1>6
  <2>6. (\A k \in 1..n : k \in 0..n /\ k # 0) /\ 0 \in 0..n
    OBVIOUS
  <2> QED
    BY <2>1, <2>4, <2>5, <2>6
<1> QED
  BY <1>7, <1>8 DEF T

LEMMA SkipType ==
  ASSUME NEW s \in Seq(Records), NEW n \in Nat
  PROVE  Skip(s, n) \in Seq(Records)
<1>1. PICK f \in [0..n -> Seq(Records)] : Skip(s, n) = f[n]
  BY SkipFunction
<1>2. n \in 0..n
  OBVIOUS
<1> QED
  BY <1>1, <1>2

-----------------------------------------------------------------------------
(* The invariant: types, and the directories the serializer is in. *)
TypeInv ==
  /\ base \in Bases /\ tree \in Trees
  /\ phase \in {"ser", "des", "done", "failed", "astray", "overrun", "wild"}
  /\ path \in PathBufs /\ level \in Nat /\ stream \in Seq(Records)

Levels == [dir : Seq(Names), left : SUBSET Names]

(* Each open directory is in the one below it.                              *)
StackOK(s) ==
  /\ s \in Seq(Levels) /\ s # <<>>
  /\ \A i \in 1..Len(s) :
       /\ Len(s[i].dir) = i - 1
       /\ s[i].left \subseteq Children(tree, s[i].dir)
       /\ i > 1 => /\ s[i].dir \in DOMAIN tree /\ tree[s[i].dir] = Dir
                   /\ Front(s[i].dir) = s[i - 1].dir

StackInv == phase = "ser" => StackOK(stack) /\ level = 0

LEMMA TreeFacts ==
  ASSUME TypeInv
  PROVE  /\ base \in Seq(Names) /\ base # <<>>
         /\ tree \in [DOMAIN tree -> {Dir} \cup Contents]
         /\ \A p \in DOMAIN tree :
              /\ p \in Seq(Names) /\ p # <<>> /\ Last(p) # Blank
              /\ Len(p) > 1 => Front(p) \in DOMAIN tree /\ tree[Front(p)] = Dir
              /\ tree[p].good <= tree[p].size /\ (tree[p].magic => tree[p].good >= 3)
         /\ TreeNames \subseteq Names
<1>1. base \in Seq(Names) /\ base # <<>> /\ IsTree(tree)
  BY TransplantAssumption DEF TypeInv
<1>2. \A p \in DOMAIN tree : p \in Seq(Names) /\ p # <<>>
  BY <1>1 DEF IsTree
<1>3. TreeNames \subseteq Names
  BY <1>2, FrontLast DEF TreeNames
<1> QED
  BY <1>1, <1>3 DEF IsTree

(* A child's path is that of the directory with its name at the end. *)
LEMMA ChildFacts ==
  ASSUME TypeInv, NEW d \in Seq(Names), NEW n \in Children(tree, d)
  PROVE  /\ Append(d, n) \in DOMAIN tree /\ n \in Names /\ n # Blank /\ n \in TreeNames
         /\ Append(d, n) \in Seq(Names) /\ Last(Append(d, n)) = n
         /\ Front(Append(d, n)) = d /\ Len(Append(d, n)) = Len(d) + 1
<1>1. PICK p \in DOMAIN tree : p # <<>> /\ Front(p) = d /\ Last(p) = n
  BY DEF Children
<1>2. p \in Seq(Names) /\ Last(p) # Blank
  BY TreeFacts
<1>3. p = Append(d, n) /\ n \in Names
  BY <1>1, <1>2, FrontLast
<1>4. n \in TreeNames
  BY <1>1 DEF TreeNames
<1> QED
  BY <1>1, <1>2, <1>3, <1>4, AppendFacts

LEMMA ChildrenType ==
  ASSUME TypeInv, NEW d \in Seq(Names)
  PROVE  Children(tree, d) \in SUBSET Names
BY ChildFacts

LEMMA RecordTypes ==
  /\ Plain("sot") \in Seq(Records) /\ Plain("sod") \in Seq(Records)
  /\ Plain("eod") \in Seq(Records) /\ Plain("eot") \in Seq(Records)
  /\ \A n \in TreeNames : n \in Names => Named(n) \in Seq(Records)
  /\ \A f \in Contents : FileData(f) \in Seq(Records)
<1>1. \A k \in {"sot", "sod", "eod", "eot"} : Record(k, 16, Blank) \in Records
  BY DEF Record, Records
<1>2. \A k \in {"sot", "sod", "eod", "eot"} : Plain(k) \in Seq(Records)
  BY <1>1 DEF Plain
<1>3. ASSUME NEW n \in TreeNames, n \in Names
      PROVE  Named(n) \in Seq(Records)
  <2>1. Length[n] \in Nat
    BY <1>3, TransplantAssumption
  <2>2. Record("entry", 28 + Length[n], n) \in Records
    BY <2>1 DEF Record, Records
  <2> QED
    BY <2>2 DEF Named
<1>4. ASSUME NEW f \in Contents
      PROVE  FileData(f) \in Seq(Records)
  <2>1. [is |-> "file", len |-> 16, size |-> f.size] \in Records
    BY DEF Records, Contents
  <2>2. f.good # 0 => Record(IF f.magic THEN "text" ELSE "bytes", f.good, Blank) \in Records
    BY DEF Record, Records, Contents
  <2>3. Bytes(f) \in Seq(Records)
    BY <2>2 DEF Bytes
  <2> QED
    BY <2>1, <2>3 DEF FileData
<1> QED
  BY <1>2, <1>3, <1>4

(* The directory in work. *)
LEMMA TopFacts ==
  ASSUME TypeInv, StackInv, phase = "ser"
  PROVE  /\ Len(stack) \in Nat \ {0} /\ Top = stack[Len(stack)] /\ Top \in Levels
         /\ Top.dir \in Seq(Names) /\ Len(Top.dir) = Len(stack) - 1
         /\ Top.left \subseteq Children(tree, Top.dir)
         /\ Len(stack) > 1 => Top.dir \in DOMAIN tree /\ tree[Top.dir] = Dir
                              /\ Front(Top.dir) = stack[Len(stack) - 1].dir
<1>1. stack \in Seq(Levels) /\ stack # <<>>
  BY DEF StackInv, StackOK
<1>2. Top = stack[Len(stack)] /\ Len(stack) \in Nat \ {0} /\ Top \in Levels
  BY <1>1, FrontLast DEF Top
<1>3. Len(stack) \in 1..Len(stack)
  BY <1>2
<1> QED
  BY <1>2, <1>3 DEF StackInv, StackOK, Levels

(* An entry is taken from the directory in work. *)
LEMMA DoneFacts ==
  ASSUME TypeInv, StackInv, phase = "ser", NEW n \in Top.left
  PROVE  /\ StackOK(Done(n)) /\ Len(Done(n)) = Len(stack)
         /\ \A i \in 1..Len(stack) - 1 : Done(n)[i] = stack[i]
         /\ Done(n)[Len(stack)] = [Top EXCEPT !.left = @ \ {n}]
         /\ Last(Done(n)) = [Top EXCEPT !.left = @ \ {n}]
<1> DEFINE m == Len(stack)
           f == Front(stack)
           t == [Top EXCEPT !.left = @ \ {n}]
           s == Append(f, t)
<1>1. /\ m \in Nat \ {0} /\ Top = stack[m] /\ Top \in Levels
      /\ Top.left \subseteq Children(tree, Top.dir)
  BY TopFacts
<1>2. StackOK(stack) /\ stack \in Seq(Levels) /\ stack # <<>>
  BY DEF StackInv, StackOK
<1>3. /\ f \in Seq(Levels) /\ Len(f) = m - 1
      /\ \A i \in 1..m - 1 : f[i] = stack[i]
  BY <1>2, FrontLast
<1>4. t \in Levels /\ t.dir = Top.dir /\ t.left = Top.left \ {n}
  BY <1>1 DEF Levels
<1> HIDE DEF t, f
<1>5. /\ s \in Seq(Levels) /\ s # <<>> /\ Len(s) = (m - 1) + 1
      /\ \A i \in 1..m - 1 : s[i] = f[i]
      /\ s[(m - 1) + 1] = t /\ Last(s) = t
  BY <1>3, <1>4, AppendFacts
<1> HIDE DEF s, m
<1>6. Len(s) = m /\ s[m] = t /\ \A i \in 1..m - 1 : s[i] = stack[i]
  BY <1>1, <1>3, <1>5
<1>7. ASSUME NEW i \in 1..m
      PROVE  s[i].dir = stack[i].dir /\ s[i].left \subseteq stack[i].left
  <2>1. i = m \/ i \in 1..m - 1
    BY <1>1
  <2> QED
    BY <1>1, <1>4, <1>6, <2>1
<1>8. \A i \in 1..m : i > 1 => i - 1 \in 1..m
  BY <1>1
<1>9. StackOK(s)
  <2> SUFFICES ASSUME NEW i \in 1..m
               PROVE  /\ Len(s[i].dir) = i - 1
                      /\ s[i].left \subseteq Children(tree, s[i].dir)
                      /\ i > 1 => /\ s[i].dir \in DOMAIN tree /\ tree[s[i].dir] = Dir
                                  /\ Front(s[i].dir) = s[i - 1].dir
    BY <1>5, <1>6 DEF StackOK
  <2>1. /\ Len(stack[i].dir) = i - 1
        /\ stack[i].left \subseteq Children(tree, stack[i].dir)
        /\ i > 1 => /\ stack[i].dir \in DOMAIN tree /\ tree[stack[i].dir] = Dir
                    /\ Front(stack[i].dir) = stack[i - 1].dir
    BY <1>2 DEF StackOK, m
  <2>2. i > 1 => s[i - 1].dir = stack[i - 1].dir
    BY <1>7, <1>8
  <2> QED
    BY <1>7, <2>1, <2>2
<1> QED
  BY <1>5, <1>6, <1>9 DEF Done, s, f, t, m

(* A directory is opened in the one in work. *)
LEMMA OpenedFacts ==
  ASSUME TypeInv, StackInv, phase = "ser", NEW n \in Top.left,
         tree[Append(Top.dir, n)] = Dir
  PROVE  LET d == Append(Top.dir, n)
             new == [dir |-> d, left |-> Children(tree, d)]
         IN /\ StackOK(Append(Done(n), new)) /\ Last(Append(Done(n), new)) = new
            /\ Len(Append(Done(n), new)) = Len(stack) + 1
            /\ Append(Done(n), new)[Len(stack) + 1] = new
            /\ \A i \in 1..Len(stack) : Append(Done(n), new)[i] = Done(n)[i]
<1> DEFINE d == Append(Top.dir, n)
           new == [dir |-> d, left |-> Children(tree, d)]
           f == Done(n)
           m == Len(stack)
           s == Append(f, new)
<1>1. /\ m \in Nat \ {0} /\ Top.dir \in Seq(Names) /\ Len(Top.dir) = m - 1
      /\ Top.left \subseteq Children(tree, Top.dir) /\ Top \in Levels
  BY TopFacts
<1>2. /\ d \in DOMAIN tree /\ d \in Seq(Names) /\ Front(d) = Top.dir
      /\ Len(d) = m
  BY <1>1, ChildFacts
<1>3. /\ StackOK(f) /\ f \in Seq(Levels) /\ Len(f) = m
      /\ f[m] = [Top EXCEPT !.left = @ \ {n}]
  BY DoneFacts DEF StackOK
<1>4. f[m].dir = Top.dir
  BY <1>1, <1>3 DEF Levels
<1>5. new \in Levels /\ new.dir = d /\ new.left = Children(tree, d)
  BY <1>2, ChildrenType DEF Levels
<1> HIDE DEF new, f
<1>6. /\ s \in Seq(Levels) /\ s # <<>> /\ Len(s) = m + 1
      /\ \A i \in 1..m : s[i] = f[i]
      /\ s[m + 1] = new /\ Last(s) = new
  BY <1>3, <1>5, AppendFacts
<1> HIDE DEF s, m, d
<1>7. StackOK(s)
  <2> SUFFICES ASSUME NEW i \in 1..m + 1
               PROVE  /\ Len(s[i].dir) = i - 1
                      /\ s[i].left \subseteq Children(tree, s[i].dir)
                      /\ i > 1 => /\ s[i].dir \in DOMAIN tree /\ tree[s[i].dir] = Dir
                                  /\ Front(s[i].dir) = s[i - 1].dir
    BY <1>6 DEF StackOK
  <2>1. CASE i = m + 1
    <3>1. i - 1 = m /\ s[i] = new /\ s[m] = f[m]
      BY <1>1, <1>6, <2>1
    <3>2. tree[d] = Dir
      BY DEF d
    <3> QED
      BY <1>2, <1>4, <1>5, <3>1, <3>2
  <2>2. CASE i \in 1..m
    <3>1. s[i] = f[i] /\ (i > 1 => i - 1 \in 1..m /\ s[i - 1] = f[i - 1])
      BY <1>1, <1>6, <2>2
    <3> QED
      BY <1>3, <2>2, <3>1 DEF StackOK
  <2> QED
    BY <1>1, <2>1, <2>2
<1> QED
  BY <1>6, <1>7 DEF s, m, f, new, d

(* The directory in work is closed. *)
LEMMA ClosedFacts ==
  ASSUME TypeInv, StackInv, phase = "ser", Len(stack) > 1
  PROVE  /\ StackOK(Front(stack)) /\ Len(Front(stack)) = Len(stack) - 1
         /\ \A i \in 1..Len(stack) - 1 : Front(stack)[i] = stack[i]
         /\ Last(Front(stack)) = stack[Len(stack) - 1]
<1> DEFINE m == Len(stack)
           f == Front(stack)
<1>1. StackOK(stack) /\ stack \in Seq(Levels) /\ stack # <<>> /\ m \in Nat \ {0}
  BY TopFacts DEF StackInv, StackOK
<1>2. f \in Seq(Levels) /\ Len(f) = m - 1 /\ \A i \in 1..m - 1 : f[i] = stack[i]
  BY <1>1, FrontLast
<1> HIDE DEF f
<1>3. f # <<>> /\ m - 1 \in 1..m - 1
  BY <1>1, <1>2
<1>4. Last(f) = f[m - 1]
  BY <1>2, <1>3, FrontLast
<1>5. StackOK(f)
  <2> SUFFICES ASSUME NEW i \in 1..m - 1
               PROVE  /\ Len(f[i].dir) = i - 1
                      /\ f[i].left \subseteq Children(tree, f[i].dir)
                      /\ i > 1 => /\ f[i].dir \in DOMAIN tree /\ tree[f[i].dir] = Dir
                                  /\ Front(f[i].dir) = f[i - 1].dir
    BY <1>2, <1>3 DEF StackOK
  <2>1. f[i] = stack[i] /\ i \in 1..m /\ (i > 1 => i - 1 \in 1..m - 1)
    BY <1>1, <1>2
  <2>2. i > 1 => f[i - 1] = stack[i - 1]
    BY <1>2, <2>1
  <2> QED
    BY <1>1, <2>1, <2>2 DEF StackOK
<1> QED
  BY <1>2, <1>3, <1>4, <1>5 DEF f

-----------------------------------------------------------------------------
(* Every step keeps the types and the open directories as they should be. *)

Phases == {"ser", "des", "done", "failed", "astray", "overrun", "wild"}

LEMMA PushType ==
  ASSUME NEW p \in PathBufs, NEW n \in Names
  PROVE  /\ path_push(p, n) \in PathBufs /\ dir_name_concat(p, n) \in PathBufs
         /\ Pushed(p, n) => path_push(p, n).at = Append(p.at, n)
         /\ dir_name_concat(p, n).at = Append(p.at, n)
         /\ path_push(p, n).len = p.len + Length[n]
         /\ dir_name_concat(p, n).len = p.len + 1 + Length[n]
<1>1. p.at \in Seq(Names) /\ p.len \in Int /\ Length[n] \in Nat
  BY TransplantAssumption DEF PathBufs
<1>2. Append(p.at, n) \in Seq(Names)
  BY <1>1, AppendFacts
<1> QED
  BY <1>1, <1>2, TransplantAssumption DEF path_push, dir_name_concat, PathBufs, Pushed

LEMMA InitPath ==
  ASSUME NEW b \in Seq(Names)
  PROVE  path_init(b) \in PathBufs
<1>1. Len(b) + 1 \in 1..Len(b) + 1
  OBVIOUS
<1> QED
  BY <1>1, SlashType DEF path_init, PathBufs

LEMMA PopFacts ==
  ASSUME NEW p \in PathBufs, Pop(p), phase \in {"ser", "des"}
  PROVE  /\ path' \in PathBufs /\ phase' \in {phase, "astray"}
         /\ phase' = phase <=>
              Below(p) # {} /\ Steps(path_pop(p).at) = Front(Steps(p.at))
         /\ phase' = phase => path' = path_pop(p)
<1> DEFINE right == Below(p) # {} /\ Steps(path_pop(p).at) = Front(Steps(p.at))
<1>1. path' = IF right THEN path_pop(p) ELSE p
  BY DEF Pop
<1>2. phase' = IF right THEN phase ELSE "astray"
  BY DEF Pop
<1>3. right => path_pop(p) \in PathBufs
  BY PoppedType
<1> HIDE DEF right
<1>4. /\ path' \in PathBufs /\ phase' \in {phase, "astray"}
      /\ phase' = phase <=> right
      /\ phase' = phase => path' = path_pop(p)
  BY <1>1, <1>2, <1>3
<1> QED
  BY <1>4 DEF right

LEMMA SameRecords ==
  ASSUME UNCHANGED tree
  PROVE  Records' = Records
BY DEF Records, TreeNames

LEMMA KeptTypes ==
  ASSUME TypeInv, UNCHANGED <<base, tree>>, phase' \in Phases, path' \in PathBufs,
         level' \in Nat, stream' \in Seq(Records)
  PROVE  TypeInv'
<1>1. Records' = Records
  BY SameRecords
<1> QED
  BY <1>1 DEF TypeInv, Phases

LEMMA SameStack ==
  ASSUME UNCHANGED tree, StackOK(stack')
  PROVE  StackOK(stack)'
BY DEF StackOK, Children

LEMMA SerializeDirectoryShape ==
  ASSUME TypeInv, StackInv, NEW n \in Names, SerializeDirectory(n)
  PROVE  TypeInv' /\ StackInv'
<1> DEFINE d == Append(Top.dir, n)
           new == [dir |-> d, left |-> Children(tree, d)]
<1>0. /\ phase = "ser" /\ n \in Top.left /\ tree[d] = Dir /\ Pushed(path, n)
      /\ path' = path_push(path, n) /\ stack' = Append(Done(n), new)
      /\ stream' = stream \o Named(n) \o Plain("sod")
      /\ UNCHANGED <<base, tree, phase, level>>
  BY DEF SerializeDirectory
<1>1. n \in TreeNames
  BY <1>0, TopFacts, ChildFacts
<1>2. path' \in PathBufs
  BY <1>0, PushType DEF TypeInv
<1>3. stream' \in Seq(Records)
  <2>1. Named(n) \in Seq(Records) /\ Plain("sod") \in Seq(Records)
    BY <1>1, RecordTypes
  <2> QED
    BY <1>0, <2>1 DEF TypeInv
<1>4. TypeInv'
  BY <1>0, <1>2, <1>3, KeptTypes DEF TypeInv, Phases
<1>5. StackOK(Append(Done(n), new))
  BY <1>0, OpenedFacts
<1>6. StackOK(stack)'
  BY <1>0, <1>5, SameStack
<1> QED
  BY <1>0, <1>4, <1>6 DEF StackInv

LEMMA SerializeFileShape ==
  ASSUME TypeInv, StackInv, NEW n \in Names, SerializeFile(n)
  PROVE  TypeInv' /\ StackInv'
<1> DEFINE f == tree[Append(Top.dir, n)]
<1>0. /\ phase = "ser" /\ n \in Top.left /\ f # Dir
      /\ Pop(path_push(path, n)) /\ stack' = Done(n)
      /\ stream' = stream \o Named(n) \o FileData(f)
      /\ UNCHANGED <<base, tree, level>>
  BY DEF SerializeFile
<1>1. n \in TreeNames /\ Append(Top.dir, n) \in DOMAIN tree
  BY <1>0, TopFacts, ChildFacts
<1>2. path' \in PathBufs /\ phase' \in Phases /\ phase' \in {"ser", "astray"}
  BY <1>0, PushType, PopFacts DEF TypeInv, Phases
<1>3. stream' \in Seq(Records)
  <2>1. f \in Contents
    BY <1>0, <1>1, TreeFacts
  <2>2. Named(n) \in Seq(Records) /\ FileData(f) \in Seq(Records)
    BY <1>1, <2>1, RecordTypes
  <2> HIDE DEF f
  <2> QED
    BY <1>0, <2>2 DEF TypeInv
<1>4. TypeInv'
  BY <1>0, <1>2, <1>3, KeptTypes DEF TypeInv
<1>5. StackOK(Done(n))
  BY <1>0, DoneFacts
<1>6. StackOK(stack)'
  BY <1>0, <1>5, SameStack
<1> QED
  BY <1>0, <1>4, <1>6 DEF StackInv

LEMMA EndOfDirectoryShape ==
  ASSUME TypeInv, StackInv, EndOfDirectory
  PROVE  TypeInv' /\ StackInv'
<1>0. /\ phase = "ser" /\ Len(stack) > 1 /\ Pop(path) /\ stack' = Front(stack)
      /\ stream' = stream \o Plain("eod") /\ UNCHANGED <<base, tree, level>>
  BY DEF EndOfDirectory
<1>2. path' \in PathBufs /\ phase' \in Phases
  BY <1>0, PopFacts DEF TypeInv, Phases
<1>3. stream' \in Seq(Records)
  BY <1>0, RecordTypes DEF TypeInv
<1>4. TypeInv'
  BY <1>0, <1>2, <1>3, KeptTypes DEF TypeInv
<1>5. StackOK(Front(stack))
  BY <1>0, ClosedFacts
<1>6. StackOK(stack)'
  BY <1>0, <1>5, SameStack
<1> QED
  BY <1>0, <1>4, <1>6 DEF StackInv

LEMMA EndOfTransmissionShape ==
  ASSUME TypeInv, EndOfTransmission
  PROVE  TypeInv' /\ StackInv'
<1>0. /\ base' \in Bases /\ phase' = "des" /\ path' = path_init(base')
      /\ stream' = Skip(stream \o Plain("eod") \o Plain("eot"), 32)
      /\ UNCHANGED <<tree, level>>
  BY DEF EndOfTransmission
<1>1. stream \o Plain("eod") \o Plain("eot") \in Seq(Records)
  BY RecordTypes DEF TypeInv
<1>2. path' \in PathBufs /\ stream' \in Seq(Records)
  BY <1>0, <1>1, TransplantAssumption, InitPath, SkipType
<1>3. TypeInv'
  BY <1>0, <1>2, SameRecords DEF TypeInv
<1> QED
  BY <1>0, <1>3 DEF StackInv

(* The deserializer has no directories open; only the types matter. *)
LEMMA ErrorShape ==
  ASSUME TypeInv, phase = "des", NEW p \in PathBufs, NEW rest \in Seq(Records),
         Error(p, rest), UNCHANGED <<base, tree>>
  PROVE  TypeInv' /\ StackInv'
<1>1. level' = 0 /\ stream' = rest
  BY DEF Error
<1>2. path' \in PathBufs /\ phase' \in {"des", "failed", "astray"}
  <2>1. CASE level = 0
    BY <2>1 DEF Error
  <2>2. CASE level # 0
    BY <2>2, PopFacts DEF Error
  <2> QED
    BY <2>1, <2>2
<1>3. TypeInv'
  BY <1>1, <1>2, KeptTypes DEF Phases
<1> QED
  BY <1>2, <1>3 DEF StackInv

(* The entry that is read. *)
LEMMA HeadFacts ==
  ASSUME TypeInv, Is(1, {"entry"})
  PROVE  /\ stream[1].name \in TreeNames /\ stream[1].name \in Names
         /\ Into(path) \in PathBufs /\ Into(path).at = Append(path.at, stream[1].name)
         /\ Into(path).len = path.len + 1 + Length[stream[1].name]
<1>1. stream \in Seq(Records) /\ Len(stream) >= 1 /\ stream[1].is = "entry"
  BY DEF Is, TypeInv
<1>2. stream[1] \in Records
  BY <1>1
<1>3. stream[1].name \in TreeNames /\ stream[1].name \in Names
  BY <1>1, <1>2, RecordFacts, TreeFacts
<1> QED
  BY <1>3, PushType DEF Into, TypeInv

(* The record behind the header of an entry. *)
LEMMA EntryFacts ==
  ASSUME TypeInv, Is(1, {"entry"}), NEW kinds, Is(2, kinds)
  PROVE  /\ stream[1].name \in TreeNames /\ stream[1].name \in Names
         /\ stream[2] \in Records /\ stream[2].is \in kinds
         /\ Into(path) \in PathBufs /\ Into(path).at = Append(path.at, stream[1].name)
         /\ Into(path).len = path.len + 1 + Length[stream[1].name]
         /\ Tail(Tail(stream)) \in Seq(Records)
<1>1. stream \in Seq(Records) /\ Len(stream) >= 2 /\ stream[1].is = "entry"
      /\ stream[2].is \in kinds
  BY DEF Is, TypeInv
<1>2. stream[1] \in Records /\ stream[2] \in Records
  BY <1>1
<1>3. stream[1].name \in TreeNames /\ stream[1].name \in Names
  BY <1>1, <1>2, RecordFacts, TreeFacts
<1>4. Tail(Tail(stream)) \in Seq(Records)
  <2> DEFINE rest == Tail(stream)
  <2>1. stream # <<>> /\ rest \in Seq(Records) /\ Len(rest) >= 1
    BY <1>1, HeadTail
  <2> HIDE DEF rest
  <2>2. rest # <<>>
    BY <2>1
  <2>3. Tail(rest) \in Seq(Records)
    BY <2>1, <2>2, HeadTail
  <2> QED
    BY <2>3 DEF rest
<1> QED
  BY <1>1, <1>2, <1>3, <1>4, PushType DEF Into, TypeInv

LEMMA BadMagicShape ==
  ASSUME TypeInv, BadMagic
  PROVE  TypeInv' /\ StackInv'
<1>1. PICK n \in 1..3 : phase = "des" /\ Error(path, Skip(stream, n)) /\ UNCHANGED <<base, tree>>
  BY DEF BadMagic
<1>2. Skip(stream, n) \in Seq(Records) /\ path \in PathBufs
  <2>1. n \in Nat /\ stream \in Seq(Records) /\ path \in PathBufs
    BY DEF TypeInv
  <2> QED
    BY <2>1, SkipType
<1> QED
  BY <1>1, <1>2, ErrorShape

LEMMA MisreadShape ==
  ASSUME TypeInv, Misread
  PROVE  TypeInv' /\ StackInv'
<1>1. /\ phase' \in {"wild", "done"} /\ UNCHANGED <<base, tree, path, level, stream>>
  BY DEF Misread
<1>2. TypeInv'
  BY <1>1, KeptTypes DEF TypeInv, Phases
<1> QED
  BY <1>1, <1>2 DEF StackInv

LEMMA TooLongShape ==
  ASSUME TypeInv, NEW p \in PathBufs, phase' = "overrun", path' = p,
         UNCHANGED <<base, tree, level, stream>>
  PROVE  TypeInv' /\ StackInv'
<1>1. TypeInv'
  BY KeptTypes DEF TypeInv, Phases
<1> QED
  BY <1>1 DEF StackInv

LEMMA WrongRecordShape ==
  ASSUME TypeInv, WrongRecord
  PROVE  TypeInv' /\ StackInv'
<1>1. /\ phase' = "wild" /\ UNCHANGED <<base, tree, path, level, stream>>
  BY DEF WrongRecord
<1>2. TypeInv'
  BY <1>1, KeptTypes DEF TypeInv, Phases
<1> QED
  BY <1>1, <1>2 DEF StackInv

LEMMA FinishShape ==
  ASSUME TypeInv, Finish
  PROVE  TypeInv' /\ StackInv'
<1>1. /\ phase' = "done" /\ UNCHANGED <<base, tree, path, level, stream>>
  BY DEF Finish
<1>2. TypeInv'
  BY <1>1, KeptTypes DEF TypeInv, Phases
<1> QED
  BY <1>1, <1>2 DEF StackInv

LEMMA LeaveDirectoryShape ==
  ASSUME TypeInv, LeaveDirectory
  PROVE  TypeInv' /\ StackInv'
<1>1. /\ phase = "des" /\ level > 0 /\ Pop(path) /\ level' = level - 1
      /\ stream' = Skip(stream, IF level = 1 THEN 16 ELSE 4)
      /\ UNCHANGED <<base, tree>>
  BY DEF LeaveDirectory
<1>2. path' \in PathBufs /\ phase' \in {"des", "astray"}
  BY <1>1, PopFacts DEF TypeInv
<1>3. level' \in Nat /\ stream' \in Seq(Records)
  <2> DEFINE n == IF level = 1 THEN 16 ELSE 4
  <2>1. n \in Nat /\ stream \in Seq(Records) /\ level \in Nat
    BY DEF TypeInv
  <2>2. stream' = Skip(stream, n)
    BY <1>1
  <2> HIDE DEF n
  <2>3. stream' \in Seq(Records)
    BY <2>1, <2>2, SkipType
  <2> QED
    BY <1>1, <2>1, <2>3
<1>4. TypeInv'
  BY <1>1, <1>2, <1>3, KeptTypes DEF Phases
<1> QED
  BY <1>2, <1>4 DEF StackInv

LEMMA EnterDirectoryShape ==
  ASSUME TypeInv, EnterDirectory
  PROVE  TypeInv' /\ StackInv'
<1>1. /\ phase = "des" /\ Is(1, {"entry"}) /\ Is(2, {"sod"})
      /\ path' = Into(path) /\ level' = level + 1 /\ stream' = Tail(Tail(stream))
      /\ UNCHANGED <<base, tree, phase>>
  BY DEF EnterDirectory
<1>2. path' \in PathBufs /\ stream' \in Seq(Records)
  BY <1>1, EntryFacts
<1>3. TypeInv'
  BY <1>1, <1>2, KeptTypes DEF TypeInv, Phases
<1> QED
  BY <1>1, <1>3 DEF StackInv

LEMMA MakeFileShape ==
  ASSUME TypeInv, MakeFile
  PROVE  TypeInv' /\ StackInv'
<1> DEFINE p == Into(path)
           rest == Tail(Tail(stream))
<1>1. /\ phase = "des" /\ Is(1, {"entry"}) /\ Is(2, {"file"})
      /\ \/ Error(p, rest)
         \/ stream' = Skip(rest, stream[2].size) /\ Pop(p) /\ UNCHANGED level
      /\ UNCHANGED <<base, tree>>
  BY DEF MakeFile
<1>2. /\ p \in PathBufs /\ rest \in Seq(Records) /\ stream[2].size \in Nat
  BY <1>1, EntryFacts, RecordFacts
<1>3. CASE Error(p, rest)
  BY <1>1, <1>2, <1>3, ErrorShape
<1>4. CASE stream' = Skip(rest, stream[2].size) /\ Pop(p) /\ UNCHANGED level
  <2>1. path' \in PathBufs /\ phase' \in {"des", "astray"}
    BY <1>1, <1>2, <1>4, PopFacts
  <2>2. stream' \in Seq(Records) /\ level' \in Nat
    BY <1>2, <1>4, SkipType DEF TypeInv
  <2>3. TypeInv'
    BY <1>1, <2>1, <2>2, KeptTypes DEF Phases
  <2> QED
    BY <2>1, <2>3 DEF StackInv
<1> QED
  BY <1>1, <1>3, <1>4

-----------------------------------------------------------------------------
(* path_length against the string.  The serializer's path is that of the    *)
(* directory in work, and path_length is behind the string by at most one   *)
(* for each component pushed, and one after a pop; the deserializer's is    *)
(* behind by at most one.                                                   *)
End(at) == Slash(at, Len(at) + 1)

Fits ==
  /\ End(base) >= 3
  /\ \A p \in DOMAIN tree : Length[Last(p)] > Len(p)

PathInv ==
  Fits =>
    /\ phase # "astray"
    /\ phase = "ser" =>
         /\ path.at = base \o Top.dir
         /\ path.len \in End(path.at) - (Len(Top.dir) + 1)..End(path.at)
    /\ phase = "des" =>
         \E d \in Seq(TreeNames) :
           /\ path.at = base \o d /\ level <= Len(d)
           /\ path.len \in End(path.at) - 1..End(path.at)

LEMMA EndAppend ==
  ASSUME NEW at \in Seq(Names), NEW n \in Names
  PROVE  /\ End(at) \in Int /\ Length[n] \in Nat
         /\ End(Append(at, n)) = End(at) + Length[n] + 1
<1> DEFINE new == Append(at, n)
           m == Len(at)
<1>1. /\ new \in Seq(Names) /\ Len(new) = m + 1 /\ m \in Nat
      /\ \A i \in 1..m : new[i] = at[i]
      /\ new[m + 1] = n
  BY AppendFacts
<1> HIDE DEF new
<1>2. Slash(new, m + 1) = Slash(at, m + 1) /\ Slash(at, m + 1) \in Int
  <2>1. m + 1 \in 1..Len(at) + 1 /\ Len(at) <= Len(new)
    BY <1>1
  <2> QED
    BY <1>1, <2>1, SlashSame, SlashType
<1>3. Slash(new, (m + 1) + 1) = Slash(new, m + 1) + Length[new[m + 1]] + 1
  <2>1. m + 1 \in 1..Len(new)
    BY <1>1
  <2> QED
    BY <1>1, <2>1, SlashNext
<1>4. Length[n] \in Nat
  BY TransplantAssumption
<1> QED
  BY <1>1, <1>2, <1>3, <1>4 DEF End, new

LEMMA EndType ==
  ASSUME NEW at \in Seq(Names)
  PROVE  End(at) \in Int
<1>1. Len(at) + 1 \in 1..Len(at) + 1
  OBVIOUS
<1> QED
  BY <1>1, SlashType DEF End

LEMMA ConcatFacts ==
  ASSUME NEW b \in Seq(Names), NEW d \in Seq(Names)
  PROVE  /\ b \o d \in Seq(Names) /\ Len(b \o d) = Len(b) + Len(d)
         /\ Len(b) \in Nat /\ Len(d) \in Nat
         /\ \A i \in 1..Len(b) : (b \o d)[i] = b[i]
         /\ \A i \in 1..Len(d) : (b \o d)[Len(b) + i] = d[i]
         /\ b \o <<>> = b
         /\ \A n \in Names : b \o Append(d, n) = Append(b \o d, n)
OBVIOUS

LEMMA EndBase ==
  ASSUME NEW b \in Seq(Names), NEW d \in Seq(Names)
  PROVE  End(b) <= End(b \o d)
<1> DEFINE at == b \o d
           m == Len(b)
<1>1. /\ at \in Seq(Names) /\ m \in Nat /\ m + 1 \in 1..Len(b) + 1
      /\ m + 1 \in 1..Len(at) + 1 /\ Len(at) + 1 \in m + 1..Len(at) + 1
      /\ Len(b) <= Len(at) /\ \A i \in 1..m : at[i] = b[i]
  BY ConcatFacts
<1> HIDE DEF at
<1>2. Slash(at, m + 1) = Slash(b, m + 1)
  BY <1>1, SlashSame
<1>3. Slash(at, m + 1) <= Slash(at, Len(at) + 1)
  BY <1>1, SlashUp
<1> QED
  BY <1>2, <1>3 DEF End, at

(* What was pushed on a path below the base is popped. *)
LEMMA Followed ==
  ASSUME NEW b \in Seq(Names), b # <<>>, End(b) >= 3, NEW d \in Seq(Names),
         NEW n \in Names, n # Blank, NEW p \in PathBufs,
         p.at = Append(b \o d, n),
         p.len \in End(p.at) - Length[n]..End(p.at)
  PROVE  /\ Below(p) # {} /\ Steps(path_pop(p).at) = Front(Steps(p.at))
         /\ path_pop(p).at = b \o d
         /\ path_pop(p).len = End(b \o d) - 1
<1> DEFINE at == b \o d
           len == p.len
<1>1. at \in Seq(Names) /\ at # <<>>
  <2>1. at \in Seq(Names) /\ Len(at) = Len(b) + Len(d) /\ Len(b) \in Nat \ {0}
        /\ Len(d) \in Nat
    BY ConcatFacts
  <2> QED
    BY <2>1
<1>2. End(at) >= 3 /\ End(at) \in Int /\ End(b) \in Int
  <2>1. End(b) <= End(at)
    BY EndBase
  <2> HIDE DEF at
  <2>2. End(at) \in Int /\ End(b) \in Int
    BY <1>1, EndType
  <2> QED
    BY <2>1, <2>2
<1>3. p = [at |-> Append(at, n), len |-> len] /\ len \in Int
  BY DEF PathBufs
<1> HIDE DEF at, len
<1>4. End(Append(at, n)) = End(at) + Length[n] + 1 /\ Length[n] \in Nat
  BY <1>1, EndAppend
<1>5. len \in End(Append(at, n)) - Length[n]..End(Append(at, n))
  BY DEF len, at
<1>6. Slash(at, Len(at) + 1) > 2 /\ Slash(at, Len(at) + 1) < len
      /\ len <= Slash(at, Len(at) + 1) + 1 + Length[n]
  <2> DEFINE e == End(at)
             k == Length[n]
             new == End(Append(at, n))
  <2>1. e \in Int /\ k \in Nat /\ new = e + k + 1 /\ len \in new - k..new /\ e >= 3 /\ len \in Int
    BY <1>2, <1>3, <1>4, <1>5
  <2> HIDE DEF e, k, new
  <2>2. e > 2 /\ e < len /\ len <= e + 1 + k
    BY <2>1
  <2> QED
    BY <2>2 DEF End, e, k
<1>7. /\ Below(p) # {}
      /\ path_pop(p) = [at |-> at, len |-> Slash(at, Len(at) + 1) - 1]
      /\ Steps(path_pop(p).at) = Front(Steps(p.at))
  BY <1>1, <1>3, <1>6, Popped
<1> QED
  BY <1>7 DEF End, at

LEMMA SameFits ==
  ASSUME UNCHANGED <<base, tree>>
  PROVE  (Fits' <=> Fits) /\ TreeNames' = TreeNames
BY DEF Fits, TreeNames, End

LEMMA SerializeDirectoryPath ==
  ASSUME TypeInv, StackInv, PathInv, NEW n \in Names, SerializeDirectory(n)
  PROVE  PathInv'
<1> DEFINE d == Append(Top.dir, n)
<1>0. /\ phase = "ser" /\ phase' = "ser" /\ n \in Top.left /\ tree[d] = Dir /\ Pushed(path, n)
      /\ path' = path_push(path, n)
      /\ stack' = Append(Done(n), [dir |-> d, left |-> Children(tree, d)])
      /\ UNCHANGED <<base, tree>>
  BY DEF SerializeDirectory
<1>1. Top.dir \in Seq(Names) /\ d \in Seq(Names) /\ Len(d) = Len(Top.dir) + 1
      /\ Len(Top.dir) \in Nat
  BY <1>0, TopFacts, AppendFacts
<1>2. Top' = [dir |-> d, left |-> Children(tree, d)]
  BY <1>0, OpenedFacts DEF Top
<1>3. SUFFICES ASSUME Fits
               PROVE  /\ path'.at = base \o d
                      /\ path'.len \in End(path'.at) - (Len(d) + 1)..End(path'.at)
  BY <1>0, <1>2, SameFits DEF PathInv, End
<1>4. /\ path.at = base \o Top.dir
      /\ path.len \in End(path.at) - (Len(Top.dir) + 1)..End(path.at)
  BY <1>0, <1>3 DEF PathInv
<1>5. /\ path \in PathBufs /\ path'.at = Append(path.at, n)
      /\ path'.len = path.len + Length[n] /\ path.at \in Seq(Names) /\ path.len \in Int
  BY <1>0, PushType DEF TypeInv, PathBufs
<1>6. path'.at = base \o d
  <2>1. base \in Seq(Names)
    BY TreeFacts
  <2>2. base \o d = Append(base \o Top.dir, n)
    BY <1>1, <2>1, ConcatFacts
  <2> QED
    BY <1>4, <1>5, <2>2
<1>7. /\ End(path'.at) = End(path.at) + Length[n] + 1
      /\ End(path.at) \in Int /\ Length[n] \in Nat
  BY <1>5, EndAppend
<1> HIDE DEF d
<1> QED
  BY SMTT(30), <1>1, <1>4, <1>5, <1>6, <1>7

LEMMA SerializeFilePath ==
  ASSUME TypeInv, StackInv, PathInv, NEW n \in Names, SerializeFile(n)
  PROVE  PathInv'
<1> DEFINE p == path_push(path, n)
           d == Append(Top.dir, n)
<1>0. /\ phase = "ser" /\ n \in Top.left /\ Pushed(path, n) /\ Pop(p) /\ stack' = Done(n)
      /\ UNCHANGED <<base, tree>>
  BY DEF SerializeFile
<1>1. /\ Top.dir \in Seq(Names) /\ Top \in Levels /\ Len(Top.dir) \in Nat
      /\ d \in DOMAIN tree /\ n # Blank /\ Last(d) = n /\ Len(d) = Len(Top.dir) + 1
  BY <1>0, TopFacts, ChildFacts
<1>2. Top'.dir = Top.dir
  BY <1>0, <1>1, DoneFacts DEF Top, Levels
<1>3. SUFFICES ASSUME Fits
               PROVE  /\ phase' = "ser" /\ path'.at = base \o Top.dir
                      /\ path'.len \in End(path'.at) - (Len(Top.dir) + 1)..End(path'.at)
  BY <1>0, <1>2, SameFits DEF PathInv, End
<1>4. /\ path.at = base \o Top.dir
      /\ path.len \in End(path.at) - (Len(Top.dir) + 1)..End(path.at)
  BY <1>0, <1>3 DEF PathInv
<1>5. /\ p \in PathBufs /\ p.at = Append(path.at, n)
      /\ p.len = path.len + Length[n] /\ path.at \in Seq(Names) /\ path.len \in Int
  BY <1>0, PushType DEF TypeInv, PathBufs
<1>6. /\ End(p.at) = End(path.at) + Length[n] + 1
      /\ End(path.at) \in Int /\ Length[n] \in Nat
  BY <1>5, EndAppend
<1>7. Length[n] > Len(d)
  BY <1>1, <1>3 DEF Fits
<1> HIDE DEF p, d
<1>8. p.len \in End(p.at) - Length[n]..End(p.at)
  BY SMTT(30), <1>1, <1>4, <1>5, <1>6, <1>7
<1>9. /\ Below(p) # {} /\ Steps(path_pop(p).at) = Front(Steps(p.at))
      /\ path_pop(p).at = base \o Top.dir
      /\ path_pop(p).len = End(base \o Top.dir) - 1
  <2>1. End(base) >= 3 /\ base \in Seq(Names) /\ base # <<>>
    BY <1>3, TreeFacts DEF Fits
  <2> DEFINE c == Top.dir
  <2>2. p.at = Append(base \o c, n) /\ c \in Seq(Names) /\ p \in PathBufs /\ n # Blank
    BY <1>1, <1>4, <1>5
  <2>3. p.len \in End(p.at) - Length[n]..End(p.at)
    BY <1>8
  <2> HIDE DEF c
  <2>4. /\ Below(p) # {} /\ Steps(path_pop(p).at) = Front(Steps(p.at))
        /\ path_pop(p).at = base \o c
        /\ path_pop(p).len = End(base \o c) - 1
    BY <2>1, <2>2, <2>3, Followed
  <2> QED
    BY <2>4 DEF c
<1>10. phase' = "ser" /\ path' = path_pop(p)
  BY <1>0, <1>5, <1>9, PopFacts
<1>11. path'.at = base \o Top.dir /\ path'.len = End(path'.at) - 1
  BY <1>9, <1>10
<1>12. End(path'.at) \in Int
  BY <1>4, <1>6, <1>11
<1> QED
  BY <1>1, <1>10, <1>11, <1>12

LEMMA EndOfDirectoryPath ==
  ASSUME TypeInv, StackInv, PathInv, EndOfDirectory
  PROVE  PathInv'
<1> DEFINE d == Top.dir
           n == Last(d)
           c == Front(d)
<1>0. /\ phase = "ser" /\ Len(stack) > 1 /\ Pop(path) /\ stack' = Front(stack)
      /\ UNCHANGED <<base, tree>>
  BY DEF EndOfDirectory
<1>1. /\ d \in Seq(Names) /\ d \in DOMAIN tree
      /\ Front(d) = stack[Len(stack) - 1].dir /\ d # <<>> /\ n # Blank
  BY <1>0, TopFacts, TreeFacts
<1>2. /\ c \in Seq(Names) /\ n \in Names /\ d = Append(c, n)
      /\ Len(c) = Len(d) - 1 /\ Len(d) \in Nat \ {0}
  BY <1>1, FrontLast
<1>3. Top'.dir = c
  BY <1>0, <1>1, ClosedFacts DEF Top
<1>4. SUFFICES ASSUME Fits
               PROVE  /\ phase' = "ser" /\ path'.at = base \o c
                      /\ path'.len \in End(path'.at) - (Len(c) + 1)..End(path'.at)
  BY <1>0, <1>3, SameFits DEF PathInv, End
<1>5. /\ path.at = base \o d
      /\ path.len \in End(path.at) - (Len(d) + 1)..End(path.at)
  BY <1>0, <1>4 DEF PathInv
<1>6. Length[n] > Len(d)
  BY <1>1, <1>4 DEF Fits
<1>7. End(base) >= 3 /\ base \in Seq(Names) /\ base # <<>>
  BY <1>4, TreeFacts DEF Fits
<1> HIDE DEF d, n, c
<1>8. path.at = Append(base \o c, n) /\ base \o c \in Seq(Names)
  BY <1>2, <1>5, <1>7, ConcatFacts
<1>9. /\ End(base \o c) \in Int /\ Length[n] \in Nat
      /\ End(path.at) = End(base \o c) + Length[n] + 1
  BY <1>2, <1>8, EndAppend
<1>10. path.len \in End(path.at) - Length[n]..End(path.at)
  BY <1>2, <1>5, <1>6, <1>9 DEF TypeInv, PathBufs
<1>11. /\ Below(path) # {} /\ Steps(path_pop(path).at) = Front(Steps(path.at))
       /\ path_pop(path).at = base \o c
       /\ path_pop(path).len = End(base \o c) - 1
  <2>1. path \in PathBufs /\ n # Blank
    BY <1>1 DEF TypeInv, n, d
  <2> QED
    BY <1>2, <1>7, <1>8, <1>10, <2>1, Followed
<1>12. phase' = "ser" /\ path' = path_pop(path)
  BY <1>0, <1>11, PopFacts DEF TypeInv
<1>13. path'.at = base \o c /\ path'.len = End(path'.at) - 1
  BY <1>11, <1>12
<1>14. End(path'.at) \in Int
  BY <1>9, <1>13
<1>15. Len(c) \in Nat
  BY <1>2
<1> QED
  BY <1>12, <1>13, <1>14, <1>15

LEMMA EndOfTransmissionPath ==
  ASSUME TypeInv, StackInv, PathInv, EndOfTransmission
  PROVE  PathInv'
<1>1. /\ phase' = "des" /\ base' \in Bases /\ path' = path_init(base') /\ level' = level
      /\ UNCHANGED tree
  BY DEF EndOfTransmission
<1>0. base' \in Seq(Names)
  BY <1>1, TransplantAssumption
<1>2. path'.at = base' /\ path'.len = End(base') /\ End(base') \in Int
  BY <1>0, <1>1, EndType DEF path_init, End
<1>3. TreeNames' = TreeNames
  BY <1>1 DEF TreeNames
<1>4. level' = 0
  BY <1>1 DEF EndOfTransmission, StackInv
<1> DEFINE e == <<>>
<1>5. e \in Seq(TreeNames) /\ Len(e) = 0 /\ base' \o e = base'
  BY <1>0, ConcatFacts
<1> HIDE DEF e
<1>6. /\ path'.at = base' \o e /\ level' <= Len(e)
      /\ path'.len \in End(path'.at) - 1..End(path'.at)
  BY <1>2, <1>4, <1>5
<1>7. \E d \in Seq(TreeNames') :
        /\ path'.at = base' \o d /\ level' <= Len(d)
        /\ path'.len \in End(path'.at) - 1..End(path'.at)
  BY <1>3, <1>5, <1>6, Zenon
<1> QED
  BY <1>1, <1>7 DEF PathInv, End

(* The deserializer's pops. *)
LEMMA NamePopped ==
  ASSUME TypeInv, Fits, phase = "des", NEW d \in Seq(TreeNames), NEW n \in TreeNames,
         NEW p \in PathBufs, p.at = Append(base \o d, n),
         p.len \in End(p.at) - 1..End(p.at), Pop(p)
  PROVE  /\ phase' = "des" /\ path'.at = base \o d
         /\ path'.len \in End(path'.at) - 1..End(path'.at)
<1>1. /\ base \in Seq(Names) /\ base # <<>> /\ End(base) >= 3
      /\ n \in Names /\ n # Blank /\ d \in Seq(Names)
  <2>1. PICK q \in DOMAIN tree : n = Last(q)
    BY DEF TreeNames
  <2>2. TreeNames \subseteq Names /\ n # Blank
    BY <2>1, TreeFacts
  <2>3. d \in Seq(Names)
    BY <2>2
  <2> QED
    BY <2>2, <2>3, TreeFacts DEF Fits
<1>2. Length[n] \in Nat /\ Length[n] >= 1
  <2>1. PICK q \in DOMAIN tree : n = Last(q)
    BY DEF TreeNames
  <2>2. q \in Seq(Names) /\ q # <<>>
    BY <2>1, TreeFacts
  <2>3. Len(q) >= 1 /\ Len(q) \in Nat
    BY <2>2
  <2>4. Length[n] > Len(q) /\ Length[n] \in Nat
    BY <1>1, <2>1, TransplantAssumption DEF Fits
  <2> QED
    BY <2>3, <2>4
<1>3. p.at \in Seq(Names) /\ p.len \in Int
  BY DEF PathBufs
<1>4. End(p.at) \in Int
  BY <1>3, EndType
<1>5. p.len \in End(p.at) - Length[n]..End(p.at)
  BY <1>2, <1>3, <1>4
<1>6. /\ Below(p) # {} /\ Steps(path_pop(p).at) = Front(Steps(p.at))
      /\ path_pop(p).at = base \o d
      /\ path_pop(p).len = End(base \o d) - 1
  BY <1>1, <1>5, Followed
<1>7. phase' = "des" /\ path' = path_pop(p)
  BY <1>6, PopFacts
<1>8. path'.at = base \o d /\ path'.len = End(path'.at) - 1
  BY <1>6, <1>7
<1>9. End(path'.at) \in Int
  <2>1. base \o d \in Seq(Names)
    BY <1>1, ConcatFacts
  <2> QED
    BY <1>8, <2>1, EndType
<1> QED
  BY <1>7, <1>8, <1>9

(* What PathInv says of a step of the deserializer. *)
OnPath(p, d) ==
  /\ p.at = base \o d /\ p.len \in End(p.at) - 1..End(p.at)

LEMMA OwnPopped ==
  ASSUME TypeInv, Fits, phase = "des", NEW d \in Seq(TreeNames), d # <<>>,
         OnPath(path, d), Pop(path)
  PROVE  /\ phase' = "des"
         /\ \E c \in Seq(TreeNames) :
              Len(c) = Len(d) - 1 /\ path'.at = base \o c
              /\ path'.len \in End(path'.at) - 1..End(path'.at)
<1> DEFINE c == Front(d)
           n == Last(d)
<1>1. c \in Seq(TreeNames) /\ n \in TreeNames /\ d = Append(c, n) /\ Len(c) = Len(d) - 1
  BY FrontLast
<1>2. c \in Seq(Names) /\ n \in Names
  BY <1>1, TreeFacts
<1> HIDE DEF c, n
<1>3. path.at = Append(base \o c, n)
  BY <1>1, <1>2, TreeFacts, ConcatFacts DEF OnPath
<1>4. path \in PathBufs /\ path.len \in End(path.at) - 1..End(path.at)
  BY DEF TypeInv, OnPath
<1>5. /\ phase' = "des" /\ path'.at = base \o c
      /\ path'.len \in End(path'.at) - 1..End(path'.at)
  BY <1>1, <1>3, <1>4, NamePopped
<1> QED
  BY <1>1, <1>5

(* The path of an entry. *)
LEMMA IntoOnPath ==
  ASSUME TypeInv, NEW d \in Seq(TreeNames), OnPath(path, d),
         Is(1, {"entry"}), NEW kinds, Is(2, kinds)
  PROVE  LET n == stream[1].name IN
         /\ n \in TreeNames /\ Append(d, n) \in Seq(TreeNames)
         /\ Len(Append(d, n)) = Len(d) + 1
         /\ Into(path).at = Append(base \o d, n) /\ Into(path).at = base \o Append(d, n)
         /\ Into(path).len \in End(Into(path).at) - 1..End(Into(path).at)
<1> DEFINE n == stream[1].name
           p == Into(path)
<1>1. /\ n \in TreeNames /\ n \in Names /\ p \in PathBufs /\ p.at = Append(path.at, n)
      /\ p.len = path.len + 1 + Length[n]
  BY EntryFacts
<1>2. d \in Seq(Names) /\ base \in Seq(Names)
  BY TreeFacts
<1> HIDE DEF n, p
<1>3. Append(d, n) \in Seq(TreeNames) /\ Len(Append(d, n)) = Len(d) + 1
  BY <1>1, AppendFacts
<1>4. p.at = Append(base \o d, n) /\ p.at = base \o Append(d, n)
  <2>1. base \o Append(d, n) = Append(base \o d, n)
    BY <1>1, <1>2, ConcatFacts
  <2> QED
    BY <1>1, <2>1 DEF OnPath
<1>5. path.at \in Seq(Names) /\ path.len \in Int
  BY DEF TypeInv, PathBufs
<1>6. /\ End(path.at) \in Int /\ Length[n] \in Nat
      /\ End(p.at) = End(path.at) + Length[n] + 1
  BY <1>1, <1>5, EndAppend
<1>7. path.len \in End(path.at) - 1..End(path.at)
  BY DEF OnPath
<1>8. p.len \in End(p.at) - 1..End(p.at)
  BY SMTT(30), <1>1, <1>5, <1>6, <1>7
<1> QED
  BY <1>1, <1>3, <1>4, <1>8 DEF n, p

(* To keep PathInv in a step of the deserializer. *)
LEMMA DesPath ==
  ASSUME TypeInv, PathInv, phase = "des", UNCHANGED <<base, tree>>, phase' # "ser",
         ASSUME Fits
         PROVE  /\ phase' # "astray"
                /\ phase' = "des" =>
                     \E d \in Seq(TreeNames) :
                       /\ path'.at = base \o d /\ level' <= Len(d)
                       /\ path'.len \in End(path'.at) - 1..End(path'.at)
  PROVE  PathInv'
BY SameFits DEF PathInv, End

LEMMA BadMagicPath ==
  ASSUME TypeInv, PathInv, BadMagic
  PROVE  PathInv'
<1>1. PICK n \in 1..3 : phase = "des" /\ Error(path, Skip(stream, n)) /\ UNCHANGED <<base, tree>>
  BY DEF BadMagic
<1>2. phase' # "ser"
  BY <1>1, PopFacts DEF Error, TypeInv
<1>3. ASSUME Fits
      PROVE  /\ phase' # "astray"
             /\ phase' = "des" =>
                  \E d \in Seq(TreeNames) :
                    /\ path'.at = base \o d /\ level' <= Len(d)
                    /\ path'.len \in End(path'.at) - 1..End(path'.at)
  <2>1. CASE level = 0
    BY <1>1, <2>1 DEF Error
  <2>2. CASE level # 0
    <3>1. PICK d \in Seq(TreeNames) : OnPath(path, d) /\ level <= Len(d)
      BY <1>1, <1>3 DEF PathInv, OnPath
    <3>2. d # <<>> /\ Len(d) - 1 >= 0
      BY <2>2, <3>1 DEF TypeInv
    <3>3. Pop(path) /\ level' = 0
      BY <1>1, <2>2 DEF Error
    <3>4. /\ phase' = "des"
          /\ \E c \in Seq(TreeNames) :
               Len(c) = Len(d) - 1 /\ path'.at = base \o c
               /\ path'.len \in End(path'.at) - 1..End(path'.at)
      BY <1>1, <1>3, <3>1, <3>2, <3>3, OwnPopped
    <3> QED
      BY <3>2, <3>3, <3>4
  <2> QED
    BY <2>1, <2>2
<1> QED
  BY <1>1, <1>2, <1>3, DesPath

LEMMA LeaveDirectoryPath ==
  ASSUME TypeInv, PathInv, LeaveDirectory
  PROVE  PathInv'
<1>1. /\ phase = "des" /\ level > 0 /\ Pop(path) /\ level' = level - 1
      /\ UNCHANGED <<base, tree>>
  BY DEF LeaveDirectory
<1>2. phase' # "ser"
  BY <1>1, PopFacts DEF TypeInv
<1>3. ASSUME Fits
      PROVE  /\ phase' # "astray"
             /\ phase' = "des" =>
                  \E d \in Seq(TreeNames) :
                    /\ path'.at = base \o d /\ level' <= Len(d)
                    /\ path'.len \in End(path'.at) - 1..End(path'.at)
  <2>1. PICK d \in Seq(TreeNames) : OnPath(path, d) /\ level <= Len(d)
    BY <1>1, <1>3 DEF PathInv, OnPath
  <2>2. d # <<>> /\ level' <= Len(d) - 1
    BY <1>1, <2>1 DEF TypeInv
  <2>3. /\ phase' = "des"
        /\ \E c \in Seq(TreeNames) :
             Len(c) = Len(d) - 1 /\ path'.at = base \o c
             /\ path'.len \in End(path'.at) - 1..End(path'.at)
    BY <1>1, <1>3, <2>1, <2>2, OwnPopped
  <2> QED
    BY <2>2, <2>3
<1> QED
  BY <1>1, <1>2, <1>3, DesPath

LEMMA EnterDirectoryPath ==
  ASSUME TypeInv, PathInv, EnterDirectory
  PROVE  PathInv'
<1>1. /\ phase = "des" /\ phase' = "des" /\ Is(1, {"entry"}) /\ Is(2, {"sod"})
      /\ path' = Into(path) /\ level' = level + 1 /\ UNCHANGED <<base, tree>>
  BY DEF EnterDirectory
<1>2. ASSUME Fits
      PROVE  /\ phase' # "astray"
             /\ phase' = "des" =>
                  \E d \in Seq(TreeNames) :
                    /\ path'.at = base \o d /\ level' <= Len(d)
                    /\ path'.len \in End(path'.at) - 1..End(path'.at)
  <2>1. PICK d \in Seq(TreeNames) : OnPath(path, d) /\ level <= Len(d)
    BY <1>1, <1>2 DEF PathInv, OnPath
  <2> DEFINE c == Append(d, stream[1].name)
  <2>2. /\ c \in Seq(TreeNames) /\ Len(c) = Len(d) + 1 /\ path'.at = base \o c
        /\ path'.len \in End(path'.at) - 1..End(path'.at)
    BY <1>1, <2>1, IntoOnPath
  <2> HIDE DEF c
  <2>3. level' <= Len(c)
    BY <1>1, <2>1, <2>2 DEF TypeInv
  <2> QED
    BY <1>1, <2>2, <2>3
<1> QED
  BY <1>1, <1>2, DesPath

LEMMA MakeFilePath ==
  ASSUME TypeInv, PathInv, MakeFile
  PROVE  PathInv'
<1> DEFINE p == Into(path)
           n == stream[1].name
           rest == Tail(Tail(stream))
<1>1. /\ phase = "des" /\ Is(1, {"entry"}) /\ Is(2, {"file"})
      /\ \/ Error(p, rest)
         \/ Pop(p) /\ UNCHANGED level
      /\ UNCHANGED <<base, tree>>
  BY DEF MakeFile
<1>2. p \in PathBufs
  BY <1>1, EntryFacts
<1>3. phase' # "ser"
  BY <1>1, <1>2, PopFacts DEF Error
<1>4. ASSUME Fits
      PROVE  /\ phase' # "astray"
             /\ phase' = "des" =>
                  \E d \in Seq(TreeNames) :
                    /\ path'.at = base \o d /\ level' <= Len(d)
                    /\ path'.len \in End(path'.at) - 1..End(path'.at)
  <2>1. PICK d \in Seq(TreeNames) : OnPath(path, d) /\ level <= Len(d)
    BY <1>1, <1>4 DEF PathInv, OnPath
  <2>2. CASE Error(p, rest) /\ level = 0
    BY <2>2 DEF Error
  <2>3. CASE Pop(p) /\ level' \in {0, level}
    <3>1. /\ n \in TreeNames /\ p.at = Append(base \o d, n)
          /\ p.len \in End(p.at) - 1..End(p.at)
      BY <1>1, <2>1, IntoOnPath
    <3> HIDE DEF p, n
    <3>2. /\ phase' = "des" /\ path'.at = base \o d
          /\ path'.len \in End(path'.at) - 1..End(path'.at)
      BY <1>1, <1>2, <1>4, <2>3, <3>1, NamePopped
    <3>3. level' <= Len(d)
      BY <2>1, <2>3 DEF TypeInv
    <3> QED
      BY <3>2, <3>3
  <2>4. \/ Error(p, rest) /\ level = 0
        \/ Pop(p) /\ level' \in {0, level}
    BY <1>1 DEF Error
  <2> QED
    BY <2>2, <2>3, <2>4
<1> QED
  BY <1>1, <1>3, <1>4, DesPath

LEMMA InitShape ==
  ASSUME Init
  PROVE  TypeInv /\ StackInv /\ PathInv
<1>0. /\ base \in Bases /\ tree \in Trees /\ phase = "ser" /\ path = path_init(base)
      /\ level = 0 /\ stack = <<[dir |-> <<>>, left |-> Children(tree, <<>>)]>>
      /\ stream = Plain("sot") \o Plain("sod")
  BY DEF Init
<1>1. path \in PathBufs /\ path.at = base /\ path.len = End(base) /\ End(base) \in Int
  <2>1. base \in Seq(Names)
    BY <1>0, TransplantAssumption
  <2> QED
    BY <1>0, <2>1, InitPath, EndType DEF path_init, End
<1>2. TypeInv
  <2>1. stream \in Seq(Records)
    BY <1>0, RecordTypes
  <2> QED
    BY <1>0, <1>1, <2>1 DEF TypeInv
<1> DEFINE root == [dir |-> <<>>, left |-> Children(tree, <<>>)]
<1>3. root \in Levels /\ root.dir = <<>> /\ root.left = Children(tree, <<>>)
  <2>1. <<>> \in Seq(Names)
    OBVIOUS
  <2> QED
    BY <1>2, <2>1, ChildrenType DEF Levels
<1> HIDE DEF root
<1>4. /\ stack = <<root>> /\ stack \in Seq(Levels) /\ stack # <<>> /\ Len(stack) = 1
      /\ stack[1] = root
  BY <1>0, <1>3 DEF root
<1>5. StackOK(stack)
  <2>1. \A i \in 1..Len(stack) : i = 1
    BY <1>4
  <2>2. Len(stack[1].dir) = 0
    BY <1>3, <1>4
  <2> QED
    BY <1>3, <1>4, <2>1, <2>2 DEF StackOK
<1>6. StackInv
  BY <1>0, <1>5 DEF StackInv
<1>7. Top.dir = <<>>
  BY <1>3, <1>4, FrontLast DEF Top
<1>8. PathInv
  <2>1. base \o <<>> = base /\ Len(<<>>) = 0
    BY <1>2, TreeFacts, ConcatFacts
  <2> QED
    BY <1>0, <1>1, <1>7, <2>1 DEF PathInv
<1> QED
  BY <1>2, <1>6, <1>8

-----------------------------------------------------------------------------
(* What every step keeps. *)

LEMMA SameShape ==
  ASSUME TypeInv, StackInv, PathInv, UNCHANGED vars
  PROVE  TypeInv' /\ StackInv' /\ PathInv'
<1>1. UNCHANGED <<base, tree, phase, path, stack, level, stream>>
  BY DEF vars
<1>2. TypeInv'
  BY <1>1, KeptTypes DEF TypeInv, Phases
<1>3. StackInv'
  BY <1>1 DEF StackInv, StackOK, Children
<1>4. PathInv'
  BY <1>1 DEF PathInv, Fits, Top, End, TreeNames
<1> QED
  BY <1>2, <1>3, <1>4

LEMMA OverPath ==
  ASSUME UNCHANGED <<base, tree>>, phase' \in {"wild", "done", "overrun"}
  PROVE  PathInv'
BY DEF PathInv

LEMMA NextShape ==
  ASSUME TypeInv, StackInv, PathInv, Next
  PROVE  TypeInv' /\ StackInv' /\ PathInv'
<1>1. ASSUME NEW n \in Names, SerializeDirectory(n)
      PROVE  TypeInv' /\ StackInv' /\ PathInv'
  BY <1>1, SerializeDirectoryShape, SerializeDirectoryPath
<1>2. ASSUME NEW n \in Names, SerializeFile(n)
      PROVE  TypeInv' /\ StackInv' /\ PathInv'
  BY <1>2, SerializeFileShape, SerializeFilePath
<1>2a. ASSUME NEW n \in Names, PushTooLong(n)
       PROVE  TypeInv' /\ StackInv' /\ PathInv'
  <2>1. path_push(path, n) \in PathBufs
    BY PushType DEF TypeInv
  <2> QED
    BY <1>2a, <2>1, TooLongShape, OverPath DEF PushTooLong
<1>3. CASE EndOfDirectory
  BY <1>3, EndOfDirectoryShape, EndOfDirectoryPath
<1>4. CASE EndOfTransmission
  BY <1>4, EndOfTransmissionShape, EndOfTransmissionPath
<1>5. CASE BadMagic
  BY <1>5, BadMagicShape, BadMagicPath
<1>5a. CASE Misread
  BY <1>5a, MisreadShape, OverPath DEF Misread
<1>6. CASE WrongRecord
  BY <1>6, WrongRecordShape, OverPath DEF WrongRecord
<1>7. CASE Finish
  BY <1>7, FinishShape, OverPath DEF Finish
<1>8. CASE LeaveDirectory
  BY <1>8, LeaveDirectoryShape, LeaveDirectoryPath
<1>9. CASE EnterDirectory
  BY <1>9, EnterDirectoryShape, EnterDirectoryPath
<1>10. CASE MakeFile
  BY <1>10, MakeFileShape, MakeFilePath
<1>10a. CASE ConcatTooLong
  <2>1. Into(path) \in PathBufs
    BY <1>10a, HeadFacts DEF ConcatTooLong
  <2> QED
    BY <1>10a, <2>1, TooLongShape, OverPath DEF ConcatTooLong
<1>11. CASE Ended
  BY <1>11, SameShape DEF Ended
<1> QED
  BY <1>1, <1>2, <1>2a, <1>3, <1>4, <1>5, <1>5a, <1>10a, <1>6, <1>7, <1>8, <1>9, <1>10, <1>11 DEF Next

(* The types, the stack of the serializer and the path of both programs hold *)
(* in every reachable state, for every tree, base and table of lengths.      *)
THEOREM Invariance == Spec => [](TypeInv /\ StackInv /\ PathInv)
<1>1. Init => TypeInv /\ StackInv /\ PathInv
  BY InitShape
<1>2. TypeInv /\ StackInv /\ PathInv /\ [Next]_vars => TypeInv' /\ StackInv' /\ PathInv'
  BY NextShape, SameShape
<1> QED
  BY <1>1, <1>2, PTL DEF Spec

-----------------------------------------------------------------------------
(* What is skipped of the stream. *)

LEMMA SkipNothing ==
  ASSUME NEW s \in Seq(Records)
  PROVE  Skip(s, 0) = s
<1>1. PICK f \in [0..0 -> Seq(Records)] : f[0] = s /\ Skip(s, 0) = f[0]
  BY SkipFunction
<1> QED
  BY <1>1

LEMMA SkipOne ==
  ASSUME NEW s \in Seq(Records), NEW n \in Nat
  PROVE  Skip(s, n + 1) = Skip(SkipByte(s), n)
<1> DEFINE t == SkipByte(s)
           m == n + 1
<1>0. t \in Seq(Records) /\ m \in Nat
  BY SkipByteType
<1> HIDE DEF t, m
<1>1. PICK f \in [0..m -> Seq(Records)] :
         /\ f[0] = s
         /\ \A k \in 1..m : f[k] = SkipByte(f[k - 1])
         /\ Skip(s, m) = f[m]
  BY <1>0, SkipFunction
<1>2. PICK g \in [0..n -> Seq(Records)] :
         /\ g[0] = t
         /\ \A k \in 1..n : g[k] = SkipByte(g[k - 1])
         /\ Skip(t, n) = g[n]
  BY <1>0, SkipFunction
<1> DEFINE same == {j \in 0..n : f[j + 1] = g[j]}
<1>3. 0 \in same
  <2>1. 1 \in 1..m /\ 1 - 1 = 0
    BY DEF m
  <2>2. f[1] = SkipByte(s)
    BY <1>1, <2>1
  <2> QED
    BY <1>2, <2>2 DEF t
<1>4. ASSUME NEW j \in 1..n, j - 1 \in same
      PROVE  j \in same
  <2>1. j + 1 \in 1..m /\ (j + 1) - 1 = j /\ (j - 1) + 1 = j /\ j \in 0..n
    BY DEF m
  <2>2. f[j + 1] = SkipByte(f[j])
    BY <1>1, <2>1
  <2>3. g[j] = SkipByte(g[j - 1])
    BY <1>2
  <2> QED
    BY <1>4, <2>1, <2>2, <2>3
<1>5. 0..n \subseteq same
  <2> HIDE DEF same
  <2> QED
    BY <1>3, <1>4, Ascent
<1>6. f[m] = g[n]
  BY <1>5 DEF m
<1> QED
  BY <1>1, <1>2, <1>6 DEF t, m

(* The first record of a stream with l bytes of it left. *)
Left(s, l) == <<Record(Remnant(s[1].is), l, Blank)>> \o Tail(s)

LEMMA LeftFacts ==
  ASSUME NEW s \in Seq(Records), s # <<>>, NEW l \in Nat \ {0}
  PROVE  /\ Left(s, l) \in Seq(Records) /\ Left(s, l) # <<>>
         /\ Left(s, l)[1].is = Remnant(s[1].is) /\ Left(s, l)[1].len = l
         /\ Tail(Left(s, l)) = Tail(s)
<1> DEFINE r == Record(Remnant(s[1].is), l, Blank)
           t == Tail(s)
<1>1. r \in Records /\ r.is = Remnant(s[1].is) /\ r.len = l
  BY DEF Record, Records, Remnant
<1>2. t \in Seq(Records)
  BY HeadTail
<1> HIDE DEF r, t
<1>3. /\ <<r>> \o t \in Seq(Records) /\ <<r>> \o t # <<>> /\ (<<r>> \o t)[1] = r
      /\ Tail(<<r>> \o t) = t
  BY <1>1, <1>2
<1> QED
  BY <1>1, <1>3 DEF Left, r, t

LEMMA SkipWithin ==
  ASSUME NEW s \in Seq(Records), s # <<>>, NEW n \in 1..s[1].len - 1, NEW m \in Nat
  PROVE  Skip(s, n + m) = Skip(Left(s, s[1].len - n), m)
<1> DEFINE l == s[1].len
<1>0. l \in Nat \ {0} /\ n \in Nat \ {0}
  BY HeadTail, RecordFacts
<1> HIDE DEF l
<1> DEFINE good == {j \in 0..n - 1 : Skip(s, n + m) = Skip(Left(s, l - (j + 1)), (n - (j + 1)) + m)}
<1>1. 0 \in good
  <2>1. 0 \in 0..n - 1 /\ (n - 1) + m \in Nat /\ ((n - 1) + m) + 1 = n + m /\ 0 + 1 = 1
    BY <1>0
  <2>2. SkipByte(s) = Left(s, l - 1)
    BY <1>0 DEF SkipByte, Left, l
  <2>3. Skip(s, n + m) = Skip(Left(s, l - 1), (n - 1) + m)
    BY <2>1, <2>2, SkipOne
  <2> QED
    BY <2>1, <2>3
<1>2. ASSUME NEW j \in 1..n - 1, j - 1 \in good
      PROVE  j \in good
  <2>0. /\ (j - 1) + 1 = j /\ l - j \in Nat \ {0} /\ l - j # 1
        /\ l - (j + 1) \in Nat \ {0} /\ (l - j) - 1 = l - (j + 1)
        /\ (n - (j + 1)) + m \in Nat /\ ((n - (j + 1)) + m) + 1 = (n - j) + m /\ j \in 0..n - 1
    BY <1>0 DEF l
  <2> DEFINE t == Left(s, l - j)
  <2>1. /\ t \in Seq(Records) /\ t # <<>> /\ t[1].len = l - j /\ Tail(t) = Tail(s)
        /\ Remnant(t[1].is) = Remnant(s[1].is)
    BY <2>0, LeftFacts DEF Remnant
  <2>2. Skip(s, n + m) = Skip(t, (n - j) + m)
    BY <1>2, <2>0
  <2> HIDE DEF t
  <2>3. SkipByte(t) = Left(s, l - (j + 1))
    BY <2>0, <2>1 DEF SkipByte, Left
  <2>4. Skip(t, (n - j) + m) = Skip(SkipByte(t), (n - (j + 1)) + m)
    BY <2>0, <2>1, SkipOne
  <2> QED
    BY <2>0, <2>2, <2>3, <2>4
<1>3. 0..n - 1 \subseteq good
  <2>1. n - 1 \in Nat
    BY <1>0
  <2> HIDE DEF good
  <2> QED
    BY <1>1, <1>2, <2>1, Ascent
<1>4. n - 1 \in good
  <2>1. n - 1 \in 0..n - 1
    BY <1>0
  <2> HIDE DEF good
  <2> QED
    BY <1>3, <2>1
<1>5. (n - 1) + 1 = n /\ (n - n) + m = m
  BY <1>0
<1> QED
  BY <1>4, <1>5 DEF l

LEMMA SkipSome ==
  ASSUME NEW s \in Seq(Records), s # <<>>, NEW n \in 1..s[1].len - 1
  PROVE  Skip(s, n) = Left(s, s[1].len - n)
<1>1. s[1].len - n \in Nat \ {0} /\ n + 0 = n
  BY HeadTail, RecordFacts
<1>2. Skip(s, n + 0) = Skip(Left(s, s[1].len - n), 0)
  BY SkipWithin
<1>3. Left(s, s[1].len - n) \in Seq(Records)
  BY <1>1, LeftFacts
<1> QED
  BY <1>1, <1>2, <1>3, SkipNothing

(* A whole record and what follows it. *)
LEMMA SkipRecord ==
  ASSUME NEW s \in Seq(Records), s # <<>>, NEW m \in Nat
  PROVE  Skip(s, s[1].len + m) = Skip(Tail(s), m)
<1> DEFINE l == s[1].len
<1>0. l \in Nat \ {0} /\ Tail(s) \in Seq(Records)
  BY HeadTail, RecordFacts
<1>1. CASE l = 1
  <2>1. SkipByte(s) = Tail(s)
    BY <1>1 DEF SkipByte
  <2>2. Skip(s, m + 1) = Skip(Tail(s), m)
    BY <2>1, SkipOne
  <2>3. l + m = m + 1
    BY <1>1
  <2> QED
    BY <2>2, <2>3
<1>2. CASE l # 1
  <2> DEFINE t == Left(s, 1)
  <2>0. l - 1 \in 1..s[1].len - 1 /\ (l - 1) + (m + 1) = l + m /\ l - (l - 1) = 1 /\ m + 1 \in Nat
    BY <1>0, <1>2
  <2>1. /\ t \in Seq(Records) /\ t # <<>> /\ t[1].len = 1 /\ Tail(t) = Tail(s)
    BY LeftFacts
  <2>2. Skip(s, (l - 1) + (m + 1)) = Skip(t, m + 1)
    BY <2>0, SkipWithin
  <2> HIDE DEF t
  <2>3. SkipByte(t) = Tail(s)
    BY <2>1 DEF SkipByte
  <2>4. Skip(t, m + 1) = Skip(Tail(s), m)
    BY <2>1, <2>3, SkipOne
  <2> QED
    BY <2>0, <2>2, <2>4
<1> QED
  BY <1>1, <1>2

-----------------------------------------------------------------------------
(* The text the serializer writes, as the sequence q of the entries it has  *)
(* gone into and, as <<>>, the ends of directories; at[k] is the directory  *)
(* that item k is in, rest[k] what is written from item k on.               *)
Code(p) ==
  IF p = <<>> THEN Plain("eod")
  ELSE Named(Last(p)) \o (IF tree[p] = Dir THEN Plain("sod") ELSE FileData(tree[p]))

After(d, p) == IF p = <<>> THEN Front(d) ELSE IF tree[p] = Dir THEN p ELSE d

Fitting(d, p) == IF p = <<>> THEN d # <<>> ELSE Front(p) = d

Items == DOMAIN tree \cup {<<>>}

Text(q, at, rest, end) ==
  /\ q \in Seq(Items)
  /\ at \in [1..Len(q) + 1 -> Seq(Names)]
  /\ rest \in [1..Len(q) + 1 -> Seq(Records)]
  /\ at[1] = <<>> /\ rest[Len(q) + 1] = end
  /\ \A i \in 1..Len(q) :
       /\ rest[i] = Code(q[i]) \o rest[i + 1]
       /\ Fitting(at[i], q[i]) /\ at[i + 1] = After(at[i], q[i])
  /\ \A i \in 1..Len(q) + 1 :
       at[i] # <<>> => \E j \in 1..i - 1 : q[j] = at[i] /\ tree[at[i]] = Dir
  /\ \A i, j \in 1..Len(q) : i < j /\ q[i] = q[j] => q[i] = <<>>

(* The entries before item k. *)
Seen(q, k) == {q[j] : j \in 1..k - 1} \ {<<>>}

(* The entries, and the directory, at the end of the text. *)
Entered(q) == Seen(q, Len(q) + 1)
Here(q, at) == at[Len(q) + 1]
Whole(rest) == rest[1]

LEMMA CodeType ==
  ASSUME TypeInv, NEW p \in Items
  PROVE  Code(p) \in Seq(Records)
<1>1. CASE p = <<>>
  BY <1>1, RecordTypes DEF Code
<1>2. CASE p # <<>>
  <2>1. p \in DOMAIN tree /\ p \in Seq(Names)
    BY <1>2, TreeFacts DEF Items
  <2>2. Last(p) \in TreeNames /\ Last(p) \in Names
    BY <1>2, <2>1, FrontLast DEF TreeNames
  <2>3. tree[p] = Dir \/ tree[p] \in Contents
    BY <2>1, TreeFacts
  <2>4. Named(Last(p)) \in Seq(Records)
    BY <2>2, RecordTypes
  <2>5. Plain("sod") \in Seq(Records)
    BY RecordTypes
  <2>6. tree[p] # Dir => FileData(tree[p]) \in Seq(Records)
    BY <2>3, RecordTypes
  <2> DEFINE data == IF tree[p] = Dir THEN Plain("sod") ELSE FileData(tree[p])
             name == Named(Last(p))
  <2>7. data \in Seq(Records) /\ name \in Seq(Records)
    BY <2>4, <2>5, <2>6
  <2>8. Code(p) = name \o data
    BY <1>2 DEF Code
  <2> HIDE DEF data, name
  <2> QED
    BY <2>7, <2>8
<1> QED
  BY <1>1, <1>2

(* More is written behind the text. *)
LEMMA TextBehind ==
  ASSUME TypeInv, NEW q, NEW at, NEW rest, Text(q, at, rest, <<>>),
         NEW e \in Seq(Records)
  PROVE  \E more : Text(q, at, more, e) /\ Whole(more) = Whole(rest) \o e
<1> DEFINE more == [i \in 1..Len(q) + 1 |-> rest[i] \o e]
           n == Len(q)
<1>1. /\ q \in Seq(Items)
      /\ at \in [1..n + 1 -> Seq(Names)] /\ rest \in [1..n + 1 -> Seq(Records)]
      /\ at[1] = <<>> /\ rest[n + 1] = <<>>
      /\ \A i \in 1..n : /\ rest[i] = Code(q[i]) \o rest[i + 1]
                         /\ Fitting(at[i], q[i]) /\ at[i + 1] = After(at[i], q[i])
      /\ \A i \in 1..n + 1 :
           at[i] # <<>> => \E j \in 1..i - 1 : q[j] = at[i] /\ tree[at[i]] = Dir
      /\ \A i, j \in 1..n : i < j /\ q[i] = q[j] => q[i] = <<>>
  BY DEF Text
<1>0. n \in Nat
  BY <1>1
<1>2. more \in [1..n + 1 -> Seq(Records)]
  BY <1>1
<1>3. ASSUME NEW i \in 1..n
      PROVE  more[i] = Code(q[i]) \o more[i + 1]
  <2> DEFINE c == Code(q[i])
             r == rest[i + 1]
  <2>1. i \in 1..n + 1 /\ i + 1 \in 1..n + 1 /\ q[i] \in Items
    BY <1>0, <1>1
  <2>2. c \in Seq(Records) /\ r \in Seq(Records)
    BY <1>1, <2>1, CodeType
  <2>3. more[i] = (c \o r) \o e /\ more[i + 1] = r \o e
    BY <1>1, <2>1
  <2> HIDE DEF c, r, more
  <2>4. (c \o r) \o e = c \o (r \o e)
    BY <2>2
  <2> QED
    BY <2>3, <2>4 DEF c
<1>4. 1 \in 1..n + 1 /\ n + 1 \in 1..n + 1 /\ <<>> \o e = e
  BY <1>0
<1>5. more[n + 1] = e /\ more[1] = rest[1] \o e
  BY <1>1, <1>4
<1> HIDE DEF more
<1>6. Text(q, at, more, e)
  BY <1>1, <1>2, <1>3, <1>5 DEF Text
<1> QED
  BY <1>5, <1>6 DEF Whole

(* One more item. *)
LEMMA TextLonger ==
  ASSUME TypeInv, NEW q, NEW at, NEW rest, NEW x \in Items, Text(q, at, rest, Code(x)),
         Fitting(Here(q, at), x), x \notin Entered(q)
  PROVE  \E q2, at2, rest2 :
           /\ Text(q2, at2, rest2, <<>>)
           /\ Whole(rest2) = Whole(rest) /\ Here(q2, at2) = After(Here(q, at), x)
           /\ Entered(q2) = Entered(q) \cup ({x} \ {<<>>})
<1> DEFINE n == Len(q)
           at2 == [i \in 1..n + 2 |-> IF i = n + 2 THEN After(at[n + 1], x) ELSE at[i]]
           rest2 == [i \in 1..n + 2 |-> IF i = n + 2 THEN <<>> ELSE rest[i]]
           q2 == Append(q, x)
           d == at[n + 1]
<1>1. /\ q \in Seq(Items)
      /\ at \in [1..n + 1 -> Seq(Names)] /\ rest \in [1..n + 1 -> Seq(Records)]
      /\ at[1] = <<>> /\ rest[n + 1] = Code(x)
      /\ \A i \in 1..n : /\ rest[i] = Code(q[i]) \o rest[i + 1]
                         /\ Fitting(at[i], q[i]) /\ at[i + 1] = After(at[i], q[i])
      /\ \A i \in 1..n + 1 :
           at[i] # <<>> => \E j \in 1..i - 1 : q[j] = at[i] /\ tree[at[i]] = Dir
      /\ \A i, j \in 1..n : i < j /\ q[i] = q[j] => q[i] = <<>>
  BY DEF Text
<1>0. n \in Nat
  BY <1>1
<1>a. Fitting(d, x) /\ (x # <<>> => \A i \in 1..n : q[i] # x)
  <2>1. (n + 1) - 1 = n
    BY <1>0
  <2> QED
    BY <2>1 DEF Entered, Seen, Here
<1>2. /\ q2 \in Seq(Items) /\ Len(q2) = n + 1 /\ q2[n + 1] = x
      /\ \A i \in 1..n : q2[i] = q[i]
  <2>1. q \in Seq(Items)
    BY <1>1
  <2> QED
    BY <2>1
<1>3. d \in Seq(Names) /\ (x # <<>> => x \in DOMAIN tree /\ x \in Seq(Names))
  <2>1. d \in Seq(Names)
    BY <1>0, <1>1
  <2>2. x # <<>> => x \in DOMAIN tree
    BY DEF Items
  <2> QED
    BY <2>1, <2>2, TreeFacts
<1>4. After(d, x) \in Seq(Names)
  <2>1. CASE x = <<>>
    <3>1. d # <<>>
      BY <1>a, <2>1 DEF Fitting
    <3> QED
      BY <1>3, <2>1, <3>1, FrontLast DEF After
  <2>2. CASE x # <<>>
    BY <1>3, <2>2 DEF After
  <2> QED
    BY <2>1, <2>2
<1>5. /\ at2 \in [1..n + 2 -> Seq(Names)] /\ at2[n + 2] = After(d, x)
      /\ \A i \in 1..n + 1 : at2[i] = at[i]
  <2> HIDE DEF n
  <2>1. \A i \in 1..n + 1 : at[i] \in Seq(Names)
    BY <1>1 DEF n
  <2>2. n + 2 \in 1..n + 2 /\ \A i \in 1..n + 1 : i \in 1..n + 2 /\ i # n + 2
    BY <1>0
  <2>3. \A i \in 1..n + 2 : i = n + 2 \/ i \in 1..n + 1
    BY <1>0
  <2> QED
    BY <1>4, <2>1, <2>2, <2>3
<1>6. /\ rest2 \in [1..n + 2 -> Seq(Records)] /\ rest2[n + 2] = <<>>
      /\ \A i \in 1..n + 1 : rest2[i] = rest[i]
  <2> HIDE DEF n
  <2>1. \A i \in 1..n + 1 : rest[i] \in Seq(Records)
    BY <1>1 DEF n
  <2>2. n + 2 \in 1..n + 2 /\ \A i \in 1..n + 1 : i \in 1..n + 2 /\ i # n + 2
    BY <1>0
  <2>3. \A i \in 1..n + 2 : i = n + 2 \/ i \in 1..n + 1
    BY <1>0
  <2> QED
    BY <2>1, <2>2, <2>3
<1> HIDE DEF at2, rest2, q2, n, d
<1>7. /\ \A i \in 1..n + 1 : i = n + 1 \/ i \in 1..n
      /\ \A i \in 1..n : i \in 1..n + 1 /\ i + 1 \in 1..n + 1
      /\ n + 1 \in 1..n + 1 /\ 1 \in 1..n + 1 /\ (n + 1) + 1 = n + 2
      /\ \A i \in 1..n + 2 : i = n + 2 \/ i \in 1..n + 1
  BY <1>0
<1>8. ASSUME NEW i \in 1..n + 1
      PROVE  /\ rest2[i] = Code(q2[i]) \o rest2[i + 1]
             /\ Fitting(at2[i], q2[i]) /\ at2[i + 1] = After(at2[i], q2[i])
  <2>1. CASE i = n + 1
    <3>1. Code(x) \in Seq(Records)
      BY CodeType
    <3>2. Code(x) = Code(x) \o <<>>
      BY <3>1
    <3>3. rest2[i] = Code(x) /\ rest2[i + 1] = <<>>
      BY <1>1, <1>6, <1>7, <2>1 DEF n
    <3>4. at2[i] = d /\ at2[i + 1] = After(d, x) /\ q2[i] = x
      BY <1>2, <1>5, <1>7, <2>1 DEF d
    <3>5. Fitting(d, x)
      BY <1>a
    <3> QED
      BY <3>2, <3>3, <3>4, <3>5
  <2>2. CASE i \in 1..n
    <3>1. rest2[i] = rest[i] /\ rest2[i + 1] = rest[i + 1] /\ q2[i] = q[i]
          /\ at2[i] = at[i] /\ at2[i + 1] = at[i + 1]
      BY <1>2, <1>5, <1>6, <1>7, <2>2
    <3>2. /\ rest[i] = Code(q[i]) \o rest[i + 1]
          /\ Fitting(at[i], q[i]) /\ at[i + 1] = After(at[i], q[i])
      BY <1>1, <2>2 DEF n
    <3> QED
      BY <3>1, <3>2
  <2> QED
    BY <1>7, <2>1, <2>2
<1>9. ASSUME NEW i \in 1..n + 2, at2[i] # <<>>
      PROVE  \E j \in 1..i - 1 : q2[j] = at2[i] /\ tree[at2[i]] = Dir
  <2>1. ASSUME NEW k \in 1..n + 1, at[k] # <<>>
        PROVE  \E j \in 1..k - 1 : j \in 1..n /\ q[j] = at[k] /\ q2[j] = at[k] /\ tree[at[k]] = Dir
    <3>1. PICK j \in 1..k - 1 : q[j] = at[k] /\ tree[at[k]] = Dir
      BY <1>1, <2>1 DEF n
    <3>2. j \in 1..n
      BY <1>0
    <3> QED
      BY <1>2, <3>1, <3>2
  <2>2. CASE i \in 1..n + 1
    <3>1. at2[i] = at[i]
      BY <1>5, <2>2
    <3> QED
      BY <1>9, <2>1, <2>2, <3>1
  <2>3. CASE i = n + 2 /\ x = <<>>
    <3>1. d # <<>> /\ at2[i] = Front(d)
      BY <1>a, <1>5, <2>3 DEF Fitting, After
    <3>2. PICK k \in 1..(n + 1) - 1 : k \in 1..n /\ q[k] = d /\ tree[d] = Dir
      BY <1>7, <2>1, <3>1 DEF d
    <3>3. at[k] = Front(d)
      <4>1. Fitting(at[k], q[k])
        BY <1>1, <3>2 DEF n
      <4> QED
        BY <3>1, <3>2, <4>1 DEF Fitting
    <3>4. PICK j \in 1..k - 1 : q2[j] = at[k] /\ tree[at[k]] = Dir
      BY <1>7, <1>9, <2>1, <3>1, <3>2, <3>3
    <3>5. j \in 1..i - 1
      BY <1>0, <2>3
    <3> QED
      BY <3>1, <3>3, <3>4, <3>5
  <2>4. CASE i = n + 2 /\ x # <<>>
    <3>1. CASE tree[x] = Dir
      <4>1. at2[i] = x
        BY <1>5, <2>4, <3>1 DEF After
      <4>2. n + 1 \in 1..i - 1 /\ q2[n + 1] = x
        BY <1>0, <1>2, <2>4
      <4> QED
        BY <3>1, <4>1, <4>2
    <3>2. CASE tree[x] # Dir
      <4>1. at2[i] = at[n + 1]
        BY <1>5, <2>4, <3>2 DEF After, d
      <4>2. PICK j \in 1..(n + 1) - 1 : q2[j] = at[n + 1] /\ tree[at[n + 1]] = Dir
        BY <1>7, <1>9, <2>1, <4>1
      <4>3. j \in 1..i - 1
        BY <1>0, <2>4
      <4> QED
        BY <4>1, <4>2, <4>3
    <3> QED
      BY <3>1, <3>2
  <2> QED
    BY <1>7, <2>2, <2>3, <2>4
<1>10. ASSUME NEW i \in 1..n + 1, NEW j \in 1..n + 1, i < j, q2[i] = q2[j]
       PROVE  q2[i] = <<>>
  <2>1. i \in 1..n
    BY <1>0, <1>10
  <2>2. CASE j = n + 1
    BY <1>a, <1>2, <1>10, <2>1, <2>2
  <2>3. CASE j \in 1..n
    BY <1>1, <1>2, <1>10, <2>1, <2>3 DEF n
  <2> QED
    BY <1>7, <2>2, <2>3
<1>11. Text(q2, at2, rest2, <<>>)
  <2>1. Len(q2) = n + 1 /\ Len(q2) + 1 = n + 2
    BY <1>0, <1>2
  <2>2. at2[1] = <<>>
    BY <1>1, <1>5, <1>7
  <2> QED
    BY <1>2, <1>5, <1>6, <1>8, <1>9, <1>10, <2>1, <2>2 DEF Text
<1>12. Seen(q2, n + 2) = Seen(q, n + 1) \cup ({x} \ {<<>>})
  <2>1. (n + 2) - 1 = n + 1 /\ (n + 1) - 1 = n
    BY <1>0
  <2>2. {q2[j] : j \in 1..n + 1} = {q[j] : j \in 1..n} \cup {x}
    BY <1>2, <1>7
  <2> QED
    BY <2>1, <2>2 DEF Seen
<1>13. rest2[1] = rest[1] /\ Len(q2) + 1 = n + 2
  BY <1>0, <1>2, <1>6, <1>7
<1>14. Here(q2, at2) = After(Here(q, at), x)
  BY <1>5, <1>13 DEF Here, d, n
<1>15. Entered(q2) = Entered(q) \cup ({x} \ {<<>>})
  BY <1>12, <1>13 DEF Entered, n
<1>16. Whole(rest2) = Whole(rest)
  BY <1>13 DEF Whole
<1> QED
  BY <1>11, <1>14, <1>15, <1>16

-----------------------------------------------------------------------------
(* Which entries are written: an entry is due while an open directory has   *)
(* its name among those not yet read.                                       *)
Due(s, p) == \E i \in 1..Len(s) : Front(p) = s[i].dir /\ Last(p) \in s[i].left

(* The entries in S are written, and the rest of the directories that are.  *)
Covered(s, S) ==
  /\ S \subseteq DOMAIN tree
  /\ \A p \in S : ~Due(s, p) /\ Front(p) \in S \cup {<<>>}
  /\ \A p \in DOMAIN tree : Front(p) \in S \cup {<<>>} => p \in S \/ Due(s, p)
  /\ \A i \in 1..Len(s) : s[i].dir \in S \cup {<<>>}

LEMMA DueDone ==
  ASSUME TypeInv, StackInv, phase = "ser", NEW n \in Top.left, NEW p \in DOMAIN tree
  PROVE  Due(Done(n), p) <=> Due(stack, p) /\ p # Append(Top.dir, n)
<1> DEFINE m == Len(stack)
           d == Append(Top.dir, n)
           f == Done(n)
<1>1. /\ m \in Nat \ {0} /\ Top = stack[m] /\ Top \in Levels /\ Top.dir \in Seq(Names)
      /\ Top.left \subseteq Children(tree, Top.dir) /\ Len(Top.dir) = m - 1
  BY TopFacts
<1>2. p \in Seq(Names) /\ p # <<>> /\ p = Append(Front(p), Last(p))
  BY TreeFacts, FrontLast
<1>3. Front(d) = Top.dir /\ Last(d) = n
  BY <1>1, ChildFacts
<1>4. Len(f) = m /\ (\A i \in 1..m - 1 : f[i] = stack[i])
      /\ f[m] = [Top EXCEPT !.left = @ \ {n}]
  BY DoneFacts
<1>5. f[m].dir = Top.dir /\ f[m].left = Top.left \ {n}
  BY <1>1, <1>4 DEF Levels
<1>6. m \in 1..m /\ \A i \in 1..m : i = m \/ i \in 1..m - 1
  BY <1>1
<1>7. \A i \in 1..m : stack[i].dir = Top.dir => i = m
  <2>1. \A i \in 1..m : Len(stack[i].dir) = i - 1
    BY DEF StackInv, StackOK
  <2> QED
    BY <1>1, <2>1
<1> HIDE DEF f, m
<1>8. ASSUME Due(f, p)
      PROVE  Due(stack, p) /\ p # d
  <2>1. PICK i \in 1..m : Front(p) = f[i].dir /\ Last(p) \in f[i].left
    BY <1>4, <1>8 DEF Due
  <2>2. CASE i = m
    BY <1>1, <1>3, <1>5, <1>6, <2>1, <2>2 DEF Due, m
  <2>3. CASE i # m
    <3>1. f[i] = stack[i]
      BY <1>4, <1>6, <2>3
    <3>2. Front(p) # Front(d)
      BY <1>3, <1>7, <2>1, <2>3, <3>1
    <3> QED
      BY <2>1, <3>1, <3>2 DEF Due, m
  <2> QED
    BY <2>2, <2>3
<1>9. ASSUME Due(stack, p), p # d
      PROVE  Due(f, p)
  <2>1. PICK i \in 1..m : Front(p) = stack[i].dir /\ Last(p) \in stack[i].left
    BY <1>9 DEF Due, m
  <2>2. CASE i = m
    <3>1. Front(p) = Top.dir /\ Last(p) \in Top.left
      BY <1>1, <2>1, <2>2
    <3>2. Last(p) # n
      BY <1>2, <1>9, <3>1
    <3> QED
      BY <1>4, <1>5, <1>6, <3>1, <3>2 DEF Due
  <2>3. CASE i # m
    <3>1. f[i] = stack[i]
      BY <1>4, <1>6, <2>3
    <3> QED
      BY <1>4, <2>1, <3>1 DEF Due
  <2> QED
    BY <2>2, <2>3
<1> QED
  BY <1>8, <1>9 DEF f

LEMMA DoneDirs ==
  ASSUME TypeInv, StackInv, phase = "ser", NEW n \in Top.left,
         NEW i \in 1..Len(stack)
  PROVE  Done(n)[i].dir = stack[i].dir
<1>1. Len(stack) \in Nat \ {0} /\ Top = stack[Len(stack)] /\ Top \in Levels
  BY TopFacts
<1>2. /\ \A j \in 1..Len(stack) - 1 : Done(n)[j] = stack[j]
      /\ Done(n)[Len(stack)] = [Top EXCEPT !.left = @ \ {n}]
  BY DoneFacts
<1>3. i = Len(stack) \/ i \in 1..Len(stack) - 1
  BY <1>1
<1> QED
  BY <1>1, <1>2, <1>3 DEF Levels

(* The entry that is written next. *)
LEMMA NextEntry ==
  ASSUME TypeInv, StackInv, phase = "ser", NEW S, Covered(stack, S), NEW n \in Top.left
  PROVE  LET d == Append(Top.dir, n)
         IN /\ d \in DOMAIN tree /\ d \notin S /\ d # <<>> /\ Front(d) = Top.dir
            /\ Top.dir \in S \cup {<<>>} /\ Top.dir # d
<1> DEFINE m == Len(stack)
           d == Append(Top.dir, n)
<1>1. /\ m \in Nat \ {0} /\ Top = stack[m] /\ Top \in Levels /\ Top.dir \in Seq(Names)
      /\ Top.left \subseteq Children(tree, Top.dir)
  BY TopFacts
<1>2. /\ d \in DOMAIN tree /\ Front(d) = Top.dir /\ Last(d) = n
      /\ Len(d) = Len(Top.dir) + 1 /\ Len(Top.dir) \in Nat
  BY <1>1, ChildFacts
<1>3. m \in 1..m
  BY <1>1
<1>4. Due(stack, d)
  BY <1>1, <1>2, <1>3 DEF Due
<1>5. d # <<>>
  BY <1>2, TreeFacts
<1>6. Top.dir # d
  BY <1>2
<1> HIDE DEF d, m
<1>7. d \notin S
  BY <1>4 DEF Covered
<1>8. Top.dir \in S \cup {<<>>}
  BY <1>1, <1>3 DEF Covered, m
<1> QED
  BY <1>2, <1>5, <1>6, <1>7, <1>8 DEF d

(* What is in an entry of the tree is in a directory. *)
LEMMA InDirectory ==
  ASSUME TypeInv, NEW p \in DOMAIN tree, Front(p) # <<>>
  PROVE  Front(p) \in DOMAIN tree /\ tree[Front(p)] = Dir
<1>1. p \in Seq(Names) /\ p # <<>>
  BY TreeFacts
<1>2. Len(Front(p)) = Len(p) - 1 /\ Len(p) \in Nat \ {0} /\ Front(p) \in Seq(Names)
  BY <1>1, FrontLast
<1>3. Len(p) > 1
  BY <1>2
<1> QED
  BY <1>3, TreeFacts

LEMMA CoveredFile ==
  ASSUME TypeInv, StackInv, phase = "ser", NEW S, Covered(stack, S), NEW n \in Top.left,
         tree[Append(Top.dir, n)] # Dir
  PROVE  Covered(Done(n), S \cup {Append(Top.dir, n)})
<1> DEFINE d == Append(Top.dir, n)
           f == Done(n)
           new == S \cup {d}
<1>1. /\ d \in DOMAIN tree /\ d \notin S /\ d # <<>> /\ Front(d) = Top.dir
      /\ Top.dir \in S \cup {<<>>} /\ Top.dir # d
  BY NextEntry
<1>2. \A p \in DOMAIN tree : Due(f, p) <=> Due(stack, p) /\ p # d
  BY DueDone
<1>3. Len(f) = Len(stack) /\ \A i \in 1..Len(stack) : f[i].dir = stack[i].dir
  BY DoneFacts, DoneDirs
<1>4. tree[d] # Dir
  OBVIOUS
<1> HIDE DEF d, f
<1>5. ASSUME NEW p \in new
      PROVE  ~Due(f, p) /\ Front(p) \in new \cup {<<>>}
  BY <1>1, <1>2 DEF Covered
<1>6. ASSUME NEW p \in DOMAIN tree, Front(p) \in new \cup {<<>>}
      PROVE  p \in new \/ Due(f, p)
  <2>1. Front(p) # d
    BY <1>1, <1>4, InDirectory
  <2>2. p \in S \/ Due(stack, p)
    BY <1>6, <2>1 DEF Covered
  <2> QED
    BY <1>2, <2>2
<1>7. \A i \in 1..Len(f) : f[i].dir \in new \cup {<<>>}
  BY <1>3 DEF Covered
<1>8. new \subseteq DOMAIN tree
  BY <1>1 DEF Covered
<1> HIDE DEF new
<1>9. Covered(f, new)
  BY <1>5, <1>6, <1>7, <1>8 DEF Covered
<1> QED
  BY <1>9 DEF f, new, d

LEMMA CoveredOpened ==
  ASSUME TypeInv, StackInv, phase = "ser", NEW S, Covered(stack, S), NEW n \in Top.left,
         tree[Append(Top.dir, n)] = Dir
  PROVE  LET d == Append(Top.dir, n)
         IN  Covered(Append(Done(n), [dir |-> d, left |-> Children(tree, d)]), S \cup {d})
<1> DEFINE d == Append(Top.dir, n)
           f == Done(n)
           top == [dir |-> d, left |-> Children(tree, d)]
           s == Append(f, top)
           m == Len(stack)
           new == S \cup {d}
<1>1. /\ d \in DOMAIN tree /\ d \notin S /\ d # <<>> /\ Front(d) = Top.dir
      /\ Top.dir \in S \cup {<<>>} /\ Top.dir # d
  BY NextEntry
<1>2. \A p \in DOMAIN tree : Due(f, p) <=> Due(stack, p) /\ p # d
  BY DueDone
<1>3. Len(f) = m /\ \A i \in 1..m : f[i].dir = stack[i].dir
  BY DoneFacts, DoneDirs
<1>4. Len(s) = m + 1 /\ s[m + 1] = top /\ \A i \in 1..m : s[i] = f[i]
  BY OpenedFacts
<1>5. m \in Nat
  BY TopFacts
<1>6. top.dir = d /\ top.left = Children(tree, d)
  OBVIOUS
<1> HIDE DEF d, f, top, s, m
<1>7. m + 1 \in 1..m + 1 /\ (\A i \in 1..m + 1 : i = m + 1 \/ i \in 1..m)
      /\ 1..m \subseteq 1..m + 1
  BY <1>5
<1>8. ASSUME NEW p \in DOMAIN tree
      PROVE  Due(s, p) <=> Due(f, p) \/ Front(p) = d
  <2>1. p # <<>>
    BY TreeFacts
  <2>2. Front(p) = d => Last(p) \in top.left
    BY <1>6, <2>1 DEF Children
  <2>3. Front(p) = d => Due(s, p)
    BY <1>4, <1>6, <1>7, <2>2 DEF Due
  <2>4. Due(f, p) => Due(s, p)
    BY <1>3, <1>4, <1>7 DEF Due
  <2>5. Due(s, p) => Due(f, p) \/ Front(p) = d
    BY <1>3, <1>4, <1>6, <1>7 DEF Due
  <2> QED
    BY <2>3, <2>4, <2>5
<1>9. ASSUME NEW p \in new
      PROVE  ~Due(s, p) /\ Front(p) \in new \cup {<<>>}
  <2>1. p \in DOMAIN tree /\ ~Due(f, p) /\ Front(p) \in new \cup {<<>>}
    BY <1>1, <1>2 DEF Covered
  <2>2. Front(p) # d
    BY <1>1 DEF Covered
  <2> QED
    BY <1>8, <2>1, <2>2
<1>10. ASSUME NEW p \in DOMAIN tree, Front(p) \in new \cup {<<>>}
       PROVE  p \in new \/ Due(s, p)
  <2>1. CASE Front(p) = d
    BY <1>8, <2>1
  <2>2. CASE Front(p) # d
    <3>1. p \in S \/ Due(stack, p)
      BY <1>10, <2>2 DEF Covered
    <3> QED
      BY <1>2, <1>8, <3>1
  <2> QED
    BY <2>1, <2>2
<1>11. ASSUME NEW i \in 1..Len(s)
       PROVE  s[i].dir \in new \cup {<<>>}
  <2>1. CASE i = m + 1
    BY <1>4, <1>6, <2>1
  <2>2. CASE i \in 1..m
    BY <1>3, <1>4, <2>2 DEF Covered, m
  <2> QED
    BY <1>4, <1>7, <2>1, <2>2
<1>12. new \subseteq DOMAIN tree
  BY <1>1 DEF Covered
<1> HIDE DEF new
<1>13. Covered(s, new)
  BY <1>9, <1>10, <1>11, <1>12 DEF Covered
<1> QED
  BY <1>13 DEF s, f, top, new, d

LEMMA CoveredClosed ==
  ASSUME TypeInv, StackInv, phase = "ser", Len(stack) > 1, Top.left = {},
         NEW S, Covered(stack, S)
  PROVE  Covered(Front(stack), S)
<1> DEFINE m == Len(stack)
           f == Front(stack)
<1>1. m \in Nat /\ Top = stack[m]
  BY TopFacts
<1>2. Len(f) = m - 1 /\ \A i \in 1..m - 1 : f[i] = stack[i]
  BY ClosedFacts
<1>3. (\A i \in 1..m : i = m \/ i \in 1..m - 1) /\ 1..m - 1 \subseteq 1..m
  BY <1>1
<1> HIDE DEF f
<1>4. ASSUME NEW p
      PROVE  Due(f, p) <=> Due(stack, p)
  <2>1. Due(f, p) => Due(stack, p)
    BY <1>2, <1>3 DEF Due
  <2>2. Due(stack, p) => Due(f, p)
    BY <1>1, <1>2, <1>3 DEF Due
  <2> QED
    BY <2>1, <2>2
<1>5. \A i \in 1..Len(f) : f[i].dir \in S \cup {<<>>}
  BY <1>2, <1>3 DEF Covered
<1>6. Covered(f, S)
  BY <1>4, <1>5 DEF Covered
<1> QED
  BY <1>6 DEF f

(* At the end the whole tree is written. *)
LEMMA AllCovered ==
  ASSUME TypeInv, StackInv, phase = "ser", Len(stack) = 1, Top.left = {},
         NEW S, Covered(stack, S)
  PROVE  S = DOMAIN tree
<1>1. Top = stack[1] /\ \A i \in 1..Len(stack) : i = 1
  BY TopFacts
<1>2. \A p : ~Due(stack, p)
  BY <1>1 DEF Due
<1>3. ASSUME NEW p \in DOMAIN tree
      PROVE  p \in S
  <2> DEFINE n == Len(p)
             short == {k \in 0..n : \A r \in DOMAIN tree : Len(r) <= k => r \in S}
  <2>1. \A r \in DOMAIN tree : r \in Seq(Names) /\ r # <<>> /\ Len(r) \in Nat \ {0}
    BY TreeFacts
  <2>2. n \in Nat
    BY <2>1
  <2>3. 0 \in short
    BY <2>1, <2>2
  <2>4. ASSUME NEW k \in 1..n, k - 1 \in short
        PROVE  k \in short
    <3>1. ASSUME NEW r \in DOMAIN tree, Len(r) <= k
          PROVE  r \in S
      <4>1. Len(Front(r)) = Len(r) - 1
        BY <2>1, FrontLast
      <4>2. Len(Front(r)) <= k - 1
        BY <2>1, <3>1, <4>1
      <4>3. Front(r) \in S \cup {<<>>}
        BY <2>4, <4>2, InDirectory
      <4> QED
        BY <1>2, <4>3 DEF Covered
    <3> QED
      BY <3>1
  <2>5. 0..n \subseteq short
    <3> HIDE DEF short, n
    <3> QED
      BY <2>2, <2>3, <2>4, Ascent
  <2>6. n \in short /\ Len(p) <= n
    BY <2>2, <2>5
  <2> QED
    BY <2>6
<1> QED
  BY <1>3 DEF Covered

-----------------------------------------------------------------------------
(* The serializer has written a text of what is covered. *)
Written ==
  \E q, at, rest :
    /\ Text(q, at, rest, <<>>)
    /\ stream = (Plain("sot") \o Plain("sod")) \o Whole(rest)
    /\ Here(q, at) = Top.dir
    /\ Covered(stack, Entered(q))

(* What is at the other end before. *)
ToThere == {SubSeq(there, 1, k) : k \in 1..Len(there)}
Begun == [p \in ToThere |-> IF p = there THEN Other ELSE Dir]

SerInv ==
  /\ there \in {<<>>} \cup {p \in DOMAIN tree : tree[p] # Dir}
  /\ phase = "ser" => Written /\ disk = Begun

LEMMA SameText ==
  ASSUME UNCHANGED tree, NEW q, NEW at, NEW rest, NEW end, Text(q, at, rest, end)
  PROVE  Text(q, at, rest, end)'
<1>1. \A i \in 1..Len(q) : Code(q[i])' = Code(q[i])
  BY DEF Code
<1>2. Items' = Items
  BY DEF Items
<1>3. \A i \in 1..Len(q) : After(at[i], q[i])' = After(at[i], q[i])
  BY DEF After
<1>4. /\ q \in Seq(Items)
      /\ at \in [1..Len(q) + 1 -> Seq(Names)] /\ rest \in [1..Len(q) + 1 -> Seq(Records)]
      /\ at[1] = <<>> /\ rest[Len(q) + 1] = end
      /\ \A i, j \in 1..Len(q) : i < j /\ q[i] = q[j] => q[i] = <<>>
  BY DEF Text
<1>5. \A i \in 1..Len(q) :
        /\ rest[i] = Code(q[i]) \o rest[i + 1]
        /\ Fitting(at[i], q[i]) /\ at[i + 1] = After(at[i], q[i])
  BY DEF Text
<1>6. \A i \in 1..Len(q) + 1 :
        at[i] # <<>> => \E j \in 1..i - 1 : q[j] = at[i] /\ tree[at[i]] = Dir
  BY DEF Text
<1>7. (q \in Seq(Items))'
  BY <1>2, <1>4
<1>8. (at \in [1..Len(q) + 1 -> Seq(Names)] /\ rest \in [1..Len(q) + 1 -> Seq(Records)])'
  BY <1>4, SameRecords
<1>9. (\A i \in 1..Len(q) :
        /\ rest[i] = Code(q[i]) \o rest[i + 1]
        /\ Fitting(at[i], q[i]) /\ at[i + 1] = After(at[i], q[i]))'
  BY <1>1, <1>3, <1>5 DEF Fitting
<1>10. (\A i \in 1..Len(q) + 1 :
        at[i] # <<>> => \E j \in 1..i - 1 : q[j] = at[i] /\ tree[at[i]] = Dir)'
  BY <1>6
<1> QED
  BY <1>4, <1>7, <1>8, <1>9, <1>10 DEF Text

LEMMA TextMore ==
  ASSUME TypeInv, NEW q, NEW at, NEW rest, NEW x \in Items, Text(q, at, rest, <<>>),
         Fitting(Here(q, at), x), x \notin Entered(q)
  PROVE  \E q2, at2, rest2 :
           /\ Text(q2, at2, rest2, <<>>)
           /\ Whole(rest2) = Whole(rest) \o Code(x)
           /\ Here(q2, at2) = After(Here(q, at), x)
           /\ Entered(q2) = Entered(q) \cup ({x} \ {<<>>})
<1>1. Code(x) \in Seq(Records)
  BY CodeType
<1>2. PICK more : Text(q, at, more, Code(x)) /\ Whole(more) = Whole(rest) \o Code(x)
  BY <1>1, TextBehind
<1>3. PICK q2, at2, rest2 :
        /\ Text(q2, at2, rest2, <<>>)
        /\ Whole(rest2) = Whole(more) /\ Here(q2, at2) = After(Here(q, at), x)
        /\ Entered(q2) = Entered(q) \cup ({x} \ {<<>>})
  BY <1>2, TextLonger
<1> QED
  BY <1>2, <1>3

(* The item is written: what follows of the invariant. *)
LEMMA WrittenMore ==
  ASSUME TypeInv, UNCHANGED tree, NEW q, NEW at, NEW rest, Text(q, at, rest, <<>>),
         stream = (Plain("sot") \o Plain("sod")) \o Whole(rest),
         NEW x \in Items, Fitting(Here(q, at), x), x \notin Entered(q),
         stream' = stream \o Code(x),
         NEW s, s = stack', Last(s).dir = After(Here(q, at), x),
         Covered(s, Entered(q) \cup ({x} \ {<<>>}))
  PROVE  Written'
<1>1. PICK q2, at2, rest2 :
           /\ Text(q2, at2, rest2, <<>>)
           /\ Whole(rest2) = Whole(rest) \o Code(x)
           /\ Here(q2, at2) = After(Here(q, at), x)
           /\ Entered(q2) = Entered(q) \cup ({x} \ {<<>>})
  BY ONLY TypeInv, x \in Items, Text(q, at, rest, <<>>), Fitting(Here(q, at), x),
          x \notin Entered(q), TextMore
<1>2. Text(q2, at2, rest2, <<>>)'
  BY <1>1, SameText
<1>3. stream' = (Plain("sot") \o Plain("sod")) \o Whole(rest2)
  <2> DEFINE h == Plain("sot") \o Plain("sod")
             r == Whole(rest)
             c == Code(x)
  <2>1. Plain("sot") \in Seq(Records) /\ Plain("sod") \in Seq(Records)
    BY RecordTypes
  <2>2. h \in Seq(Records)
    <3> HIDE DEF Records
    <3> QED
      BY <2>1
  <2>3. c \in Seq(Records)
    BY CodeType
  <2>4. r \in Seq(Records)
    <3>1. rest \in [1..Len(q) + 1 -> Seq(Records)] /\ Len(q) \in Nat
      BY DEF Text
    <3>2. 1 \in 1..Len(q) + 1
      BY <3>1
    <3> QED
      BY <3>1, <3>2 DEF Whole
  <2>5. stream' = (h \o r) \o c /\ Whole(rest2) = r \o c
    BY <1>1
  <2> HIDE DEF h, r, c
  <2>6. (h \o r) \o c = h \o (r \o c)
    BY <2>2, <2>3, <2>4
  <2> QED
    BY <2>5, <2>6 DEF h
<1>4. Here(q2, at2) = Top'.dir
  BY <1>1 DEF Top
<1>5. Covered(stack, Entered(q2))'
  <2> DEFINE S == Entered(q2)
  <2>1. Covered(s, S)
    BY <1>1
  <2>2. S = Entered(q2)'
    BY DEF Entered, Seen
  <2> HIDE DEF S
  <2> QED
    BY <2>1, <2>2 DEF Covered, Due
<1> QED
  BY <1>2, <1>3, <1>4, <1>5 DEF Written

LEMMA InitText ==
  ASSUME Init, TypeInv, StackInv
  PROVE  SerInv
<1>0. /\ there \in {<<>>} \cup {p \in DOMAIN tree : tree[p] # Dir} /\ disk = Begun
      /\ stack = <<[dir |-> <<>>, left |-> Children(tree, <<>>)]>>
      /\ stream = Plain("sot") \o Plain("sod")
  BY DEF Init, Begun, ToThere
<1> DEFINE q == <<>>
           at == [i \in 1..1 |-> <<>>]
           rest == [i \in 1..1 |-> <<>>]
<1>1. Len(q) = 0 /\ Len(q) + 1 = 1 /\ at[1] = <<>> /\ rest[1] = <<>>
  OBVIOUS
<1>2. Text(q, at, rest, <<>>)
  <2>1. q \in Seq(Items)
    OBVIOUS
  <2>2. at \in [1..1 -> Seq(Names)] /\ rest \in [1..1 -> Seq(Records)]
    <3>1. <<>> \in Seq(Names) /\ <<>> \in Seq(Records)
      OBVIOUS
    <3> QED
      BY <3>1
  <2> HIDE DEF q, at, rest
  <2>3. \A i \in 1..Len(q) + 1 : i = 1
    BY <1>1
  <2>4. 1..Len(q) = {} /\ 1..Len(q) + 1 = 1..1
    BY <1>1
  <2> QED
    BY <1>1, <2>1, <2>2, <2>3, <2>4 DEF Text
<1>3. Whole(rest) = <<>> /\ Here(q, at) = <<>> /\ Entered(q) = {}
  BY <1>1 DEF Whole, Here, Entered, Seen
<1>4. stream = (Plain("sot") \o Plain("sod")) \o Whole(rest)
  <2> DEFINE h == Plain("sot") \o Plain("sod")
  <2>1. Plain("sot") \in Seq(Records) /\ Plain("sod") \in Seq(Records)
    BY RecordTypes
  <2>2. h \in Seq(Records)
    <3> HIDE DEF Records
    <3> QED
      BY <2>1
  <2> HIDE DEF h
  <2>3. h = h \o <<>>
    BY <2>2
  <2> QED
    BY <1>0, <1>3, <2>3 DEF h
<1>5. Len(stack) = 1 /\ stack[1] = [dir |-> <<>>, left |-> Children(tree, <<>>)]
      /\ Top = stack[1]
  BY <1>0 DEF Top, Last
<1>6. \A i \in 1..Len(stack) : i = 1
  BY <1>5
<1>7. Covered(stack, {})
  <2>1. \A p \in DOMAIN tree : Front(p) = <<>> => Due(stack, p)
    <3> SUFFICES ASSUME NEW p \in DOMAIN tree, Front(p) = <<>>
                 PROVE  Due(stack, p)
      OBVIOUS
    <3>1. p # <<>>
      BY TreeFacts
    <3>2. Last(p) \in Children(tree, <<>>)
      BY <3>1 DEF Children
    <3>3. 1 \in 1..Len(stack)
      BY <1>5
    <3> QED
      BY <1>5, <3>2, <3>3 DEF Due
  <2>2. \A i \in 1..Len(stack) : stack[i].dir = <<>>
    BY <1>5, <1>6
  <2> QED
    BY <2>1, <2>2 DEF Covered
<1> HIDE DEF q, at, rest
<1>8. Here(q, at) = Top.dir
  BY <1>3, <1>5
<1> QED
  BY <1>0, <1>2, <1>3, <1>4, <1>7, <1>8 DEF SerInv, Written

(* Writing two pieces is writing them joined. *)
LEMMA Joined ==
  ASSUME NEW S, NEW a \in Seq(S), NEW b \in Seq(S), NEW c \in Seq(S)
  PROVE  (a \o b) \o c = a \o (b \o c)
OBVIOUS

(* What the serializer writes of an entry. *)
LEMMA EntryText ==
  ASSUME TypeInv, StackInv, SerInv, phase = "ser", NEW n \in Top.left,
         UNCHANGED <<tree, there, disk>>,
         NEW data \in Seq(Records),
         data = IF tree[Append(Top.dir, n)] = Dir THEN Plain("sod")
                ELSE FileData(tree[Append(Top.dir, n)]),
         stream' = stream \o Named(n) \o data,
         Last(stack').dir = IF tree[Append(Top.dir, n)] = Dir THEN Append(Top.dir, n) ELSE Top.dir,
         \A S : Covered(stack, S) => Covered(stack', S \cup {Append(Top.dir, n)})
  PROVE  SerInv'
<1> DEFINE d == Append(Top.dir, n)
           m == Named(n)
<1>0. PICK q, at, rest :
        /\ Text(q, at, rest, <<>>)
        /\ stream = (Plain("sot") \o Plain("sod")) \o Whole(rest)
        /\ Here(q, at) = Top.dir
        /\ Covered(stack, Entered(q))
  BY DEF SerInv, Written
<1>1. /\ d \in DOMAIN tree /\ d \notin Entered(q) /\ d # <<>> /\ Front(d) = Top.dir
  BY <1>0, NextEntry
<1>2. Last(d) = n /\ n \in TreeNames /\ n \in Names
  BY TopFacts, ChildFacts
<1>3. m \in Seq(Records) /\ stream \in Seq(Records)
  BY <1>2, RecordTypes DEF TypeInv
<1>4. Code(d) = m \o data
  BY <1>1, <1>2 DEF Code
<1>5. stream' = stream \o Code(d)
  <2>0. stream' = (stream \o m) \o data
    OBVIOUS
  <2> HIDE DEF m, d
  <2>1. (stream \o m) \o data = stream \o (m \o data)
    BY ONLY <1>3, data \in Seq(Records), Joined
  <2> QED
    BY <1>4, <2>0, <2>1
<1>6. Covered(stack', Entered(q) \cup {d})
  BY <1>0
<1>7. Last(stack').dir = After(Here(q, at), d)
  BY <1>0, <1>1 DEF After
<1>8. Fitting(Here(q, at), d) /\ d \in Items
  BY <1>0, <1>1 DEF Fitting, Items
<1> HIDE DEF d, m
<1>9. Entered(q) \cup {d} = Entered(q) \cup ({d} \ {<<>>})
  BY <1>1
<1>10. Written'
  BY <1>0, <1>1, <1>5, <1>6, <1>7, <1>8, <1>9, WrittenMore
<1>11. disk' = Begun' /\ there' \in {<<>>} \cup {p \in DOMAIN tree' : tree'[p] # Dir}
  BY DEF SerInv, Begun, ToThere
<1> QED
  BY <1>10, <1>11 DEF SerInv

LEMMA SerializeDirectoryText ==
  ASSUME TypeInv, StackInv, SerInv, NEW n \in Names, SerializeDirectory(n)
  PROVE  SerInv'
<1> DEFINE d == Append(Top.dir, n)
           new == [dir |-> d, left |-> Children(tree, d)]
<1>0. /\ phase = "ser" /\ n \in Top.left /\ tree[d] = Dir
      /\ stack' = Append(Done(n), new)
      /\ stream' = stream \o Named(n) \o Plain("sod")
      /\ UNCHANGED <<tree, there, disk>>
  BY DEF SerializeDirectory
<1>1. Last(stack').dir = d
  <2>1. Last(Append(Done(n), new)) = new
    BY <1>0, OpenedFacts
  <2>2. new.dir = d
    OBVIOUS
  <2> HIDE DEF new
  <2> QED
    BY <1>0, <2>1, <2>2
<1>2. \A S : Covered(stack, S) => Covered(stack', S \cup {d})
  BY <1>0, CoveredOpened
<1>3. Plain("sod") \in Seq(Records)
  BY RecordTypes
<1> QED
  BY <1>0, <1>1, <1>2, <1>3, EntryText

LEMMA SerializeFileText ==
  ASSUME TypeInv, StackInv, SerInv, NEW n \in Names, SerializeFile(n)
  PROVE  SerInv'
<1> DEFINE d == Append(Top.dir, n)
<1>0. /\ phase = "ser" /\ n \in Top.left /\ tree[d] # Dir
      /\ stack' = Done(n)
      /\ stream' = stream \o Named(n) \o FileData(tree[d])
      /\ UNCHANGED <<tree, there, disk>>
  BY DEF SerializeFile
<1>1. Last(stack').dir = Top.dir
  BY <1>0, DoneFacts, TopFacts DEF Levels
<1>2. \A S : Covered(stack, S) => Covered(stack', S \cup {d})
  BY <1>0, CoveredFile
<1>3. FileData(tree[d]) \in Seq(Records)
  <2>1. d \in DOMAIN tree
    BY <1>0, TopFacts, ChildFacts
  <2> QED
    BY <1>0, <2>1, TreeFacts, RecordTypes
<1> QED
  BY <1>0, <1>1, <1>2, <1>3, EntryText

LEMMA EndOfDirectoryText ==
  ASSUME TypeInv, StackInv, SerInv, EndOfDirectory
  PROVE  SerInv'
<1>0. /\ phase = "ser" /\ Top.left = {} /\ Len(stack) > 1 /\ stack' = Front(stack)
      /\ stream' = stream \o Plain("eod") /\ UNCHANGED <<tree, there, disk>>
  BY DEF EndOfDirectory
<1>1. PICK q, at, rest :
        /\ Text(q, at, rest, <<>>)
        /\ stream = (Plain("sot") \o Plain("sod")) \o Whole(rest)
        /\ Here(q, at) = Top.dir
        /\ Covered(stack, Entered(q))
  BY <1>0 DEF SerInv, Written
<1>2. /\ Top.dir \in DOMAIN tree /\ Front(Top.dir) = stack[Len(stack) - 1].dir
  BY <1>0, TopFacts
<1>3. Top.dir # <<>>
  BY <1>2, TreeFacts
<1>4. Last(stack').dir = After(Here(q, at), <<>>)
  BY <1>0, <1>1, <1>2, ClosedFacts DEF After
<1>5. Fitting(Here(q, at), <<>>) /\ <<>> \in Items
  BY <1>1, <1>3 DEF Fitting, Items
<1>6. Entered(q) \cup ({<<>>} \ {<<>>}) = Entered(q) /\ <<>> \notin Entered(q)
  BY DEF Entered, Seen
<1>7. Covered(stack', Entered(q) \cup ({<<>>} \ {<<>>}))
  BY <1>0, <1>1, <1>6, CoveredClosed
<1>8. stream' = stream \o Code(<<>>)
  BY <1>0 DEF Code
<1>9. Written'
  BY <1>0, <1>1, <1>4, <1>5, <1>6, <1>7, <1>8, WrittenMore
<1>10. disk' = Begun' /\ there' \in {<<>>} \cup {p \in DOMAIN tree' : tree'[p] # Dir}
  BY <1>0 DEF SerInv, Begun, ToThere
<1> QED
  BY <1>9, <1>10 DEF SerInv

-----------------------------------------------------------------------------
(* The directories above the file that is in the way are those of the tree. *)
LEMMA ThereFacts ==
  ASSUME TypeInv, SerInv
  PROVE  /\ there # <<>> => there \in DOMAIN tree /\ tree[there] # Dir
         /\ \A p \in ToThere : p \in DOMAIN tree /\ p # <<>> /\ (p # there => tree[p] = Dir)
<1>1. there # <<>> => there \in DOMAIN tree /\ tree[there] # Dir
  BY DEF SerInv
<1>2. ASSUME NEW p \in ToThere
      PROVE  p \in DOMAIN tree /\ p # <<>> /\ (p # there => tree[p] = Dir)
  <2> DEFINE n == Len(there)
             above(j) == SubSeq(there, 1, n - j)
             good == {j \in 0..n - 1 : above(j) \in DOMAIN tree /\ (j > 0 => tree[above(j)] = Dir)}
  <2>1. PICK k \in 1..n : p = SubSeq(there, 1, k)
    BY DEF ToThere
  <2>2. there \in Seq(Names) /\ n \in Nat /\ there # <<>>
    <3>1. there = <<>> => 1..n = {}
      OBVIOUS
    <3>2. there # <<>>
      BY <2>1, <3>1
    <3> QED
      BY <1>1, <3>2, TreeFacts
  <2>3. SubSeq(there, 1, n) = there /\ n - 0 = n /\ n - 1 \in Nat
    BY <2>1, <2>2
  <2>4. 0 \in good
    <3>1. above(0) = there /\ 0 \in 0..n - 1 /\ ~(0 > 0)
      BY <2>3
    <3> HIDE DEF above, n
    <3> QED
      BY <1>1, <2>2, <3>1
  <2>5. ASSUME NEW j \in 1..n - 1, j - 1 \in good
        PROVE  j \in good
    <3> DEFINE m == n - j
               r == SubSeq(there, 1, m + 1)
               f == SubSeq(there, 1, m)
    <3>1. n - (j - 1) = m + 1 /\ m \in 1..n /\ m + 1 \in 1..n
      BY <2>2
    <3>2. r \in DOMAIN tree
      BY <2>5, <3>1
    <3>3. Front(r) = f /\ f # <<>>
      <4> HIDE DEF m, n
      <4>1. r \in Seq(Names) /\ Len(r) = m + 1 /\ \A i \in 1..m + 1 : r[i] = there[i]
        BY <2>2, <3>1 DEF n
      <4>2. f \in Seq(Names) /\ Len(f) = m /\ \A i \in 1..m : f[i] = there[i]
        BY <2>2, <3>1 DEF n
      <4> HIDE DEF r, f
      <4>3. m \in Nat \ {0}
        BY <2>2, <3>1
      <4>4. r # <<>> /\ f # <<>>
        BY <4>1, <4>2, <4>3
      <4>5. /\ Front(r) \in Seq(Names) /\ Len(Front(r)) = m
            /\ \A i \in 1..m : Front(r)[i] = r[i]
        BY <4>1, <4>3, <4>4, FrontLast
      <4>6. \A i \in 1..m : i \in 1..m + 1
        BY <4>3
      <4> QED
        BY <4>1, <4>2, <4>4, <4>5, <4>6
    <3>4. f \in DOMAIN tree /\ tree[f] = Dir
      BY <3>2, <3>3, InDirectory
    <3> QED
      BY <3>4
  <2>6. 0..n - 1 \subseteq good
    <3> HIDE DEF good, n
    <3> QED
      BY <2>3, <2>4, <2>5, Ascent
  <2>7. n - k \in 0..n - 1 /\ n - (n - k) = k
    BY <2>2
  <2>8. p \in DOMAIN tree /\ (n - k > 0 => tree[p] = Dir)
    <3>1. n - k \in good
      BY <2>6, <2>7, Zenon
    <3> QED
      BY <2>1, <2>7, <3>1
  <2>9. p # there => n - k > 0
    <3>1. k = n \/ n - k > 0
      BY <2>2
    <3> QED
      BY <2>1, <2>3, <3>1, Zenon
  <2> QED
    BY <2>8, <2>9, TreeFacts
<1> QED
  BY <1>1, <1>2

(* The deserializer at item k of the text: it has made the entries before.  *)
Copied(S) ==
  [p \in S \cup ToThere |-> IF p \in S THEN tree[p] ELSE IF p = there THEN Other ELSE Dir]

Ends == Plain("eod") \o Plain("eot")

SyncAt(q, at, rest, k) ==
  /\ Text(q, at, rest, Ends) /\ k \in 1..Len(q) + 1
  /\ Entered(q) = DOMAIN tree /\ Here(q, at) = <<>>
  /\ stream = rest[k] /\ level = Len(at[k])
  /\ Steps(path.at) = Steps(base) \o at[k]
  /\ disk = Copied(Seen(q, k))

Sync == \E q, at, rest : \E k \in Nat : SyncAt(q, at, rest, k)

(* It has lost its place, and fails at this record or the next.             *)
Lost ==
  /\ Nested \/ InTheWay
  /\ stream # <<>>
  /\ \/ stream[1].is = "junk" /\ (stream[1].len >= 4 \/ level = 0)
     \/ stream[1].is = "bytes" /\ level = 0

Promised ==
  /\ ~Truncated
  /\ ~(InTheWay /\ Len(there) > 1 /\ (tree[there].size = 0 \/ tree[there].magic))

CopyInv ==
  /\ phase = "des" /\ Promised => Sync \/ Lost
  /\ phase = "done" /\ Promised => disk = tree
  /\ phase = "failed" /\ Promised => Nested \/ InTheWay
  /\ phase = "wild" => ~Promised

LEMMA OneRecord ==
  ASSUME NEW S, NEW a \in S, NEW c \in Seq(S)
  PROVE  /\ <<a>> \o c \in Seq(S) /\ <<a>> \o c # <<>> /\ Len(<<a>> \o c) >= 1
         /\ (<<a>> \o c)[1] = a /\ Tail(<<a>> \o c) = c
OBVIOUS

LEMMA TwoRecords ==
  ASSUME NEW S, NEW a \in S, NEW b \in S, NEW c \in Seq(S)
  PROVE  LET s == <<a>> \o (<<b>> \o c)
         IN /\ s \in Seq(S) /\ Len(s) >= 2 /\ s[1] = a /\ s[2] = b /\ Tail(Tail(s)) = c
<1> DEFINE t == <<b>> \o c
           s == <<a>> \o t
<1>1. t \in Seq(S) /\ t[1] = b /\ Tail(t) = c /\ Len(t) >= 1 /\ Len(t) \in Nat
  BY OneRecord
<1> HIDE DEF t
<1>2. Tail(s) = t
  BY <1>1, OneRecord
<1>3. s \in Seq(S) /\ s[1] = a /\ Len(s) = Len(t) + 1 /\ s[2] = t[1]
  BY <1>1
<1>4. s \in Seq(S) /\ Len(s) >= 2 /\ s[1] = a /\ s[2] = b /\ Tail(Tail(s)) = c
  BY <1>1, <1>2, <1>3
<1> HIDE DEF s
<1>5. s \in Seq(S) /\ Len(s) >= 2 /\ s[1] = a /\ s[2] = b /\ Tail(Tail(s)) = c
  BY <1>4
<1> QED
  BY <1>5, Zenon DEF s, t

(* What the text is at item k. *)
ItemAt(q, at, rest, k) ==
  /\ k \in 1..Len(q) /\ k + 1 \in 1..Len(q) + 1 /\ q[k] \in Items
  /\ stream = Code(q[k]) \o rest[k + 1] /\ rest[k + 1] \in Seq(Records)
  /\ at[k] \in Seq(Names) /\ Fitting(at[k], q[k]) /\ at[k + 1] = After(at[k], q[k])
  /\ Seen(q, k + 1) = Seen(q, k) \cup ({q[k]} \ {<<>>})
  /\ q[k] \notin Seen(q, k)
  /\ at[k] # <<>> => /\ at[k] \in Seen(q, k) /\ at[k] \in DOMAIN tree
                     /\ tree[at[k]] = Dir

LEMMA ItemFacts ==
  ASSUME TypeInv, NEW q, NEW at, NEW rest, NEW k \in Nat, SyncAt(q, at, rest, k), k <= Len(q)
  PROVE  ItemAt(q, at, rest, k)
<1> DEFINE n == Len(q)
<1>1. /\ Text(q, at, rest, Ends) /\ k \in 1..n + 1 /\ stream = rest[k]
  BY DEF SyncAt
<1>2. /\ q \in Seq(Items)
      /\ at \in [1..n + 1 -> Seq(Names)] /\ rest \in [1..n + 1 -> Seq(Records)]
  BY <1>1 DEF Text
<1>3. n \in Nat
  BY <1>2
<1>4. k \in 1..n /\ k + 1 \in 1..n + 1 /\ (k + 1) - 1 = k
  BY <1>1, <1>3
<1>5. q[k] \in Items
  BY <1>2, <1>4
<1>6. /\ rest[k] = Code(q[k]) \o rest[k + 1]
      /\ Fitting(at[k], q[k]) /\ at[k + 1] = After(at[k], q[k])
  BY <1>1, <1>4 DEF Text
<1>7. at[k] # <<>> => \E j \in 1..k - 1 : q[j] = at[k] /\ tree[at[k]] = Dir
  BY <1>1 DEF Text
<1>8. \A i, j \in 1..n : i < j /\ q[i] = q[j] => q[i] = <<>>
  BY <1>1 DEF Text
<1>9. at[k] \in Seq(Names) /\ rest[k + 1] \in Seq(Records)
  BY <1>1, <1>2, <1>4
<1> HIDE DEF n
<1>10. Seen(q, k + 1) = Seen(q, k) \cup ({q[k]} \ {<<>>})
  <2>1. \A j \in 1..k : j = k \/ j \in 1..k - 1
    BY <1>4
  <2>2. k \in 1..k /\ \A j \in 1..k - 1 : j \in 1..k
    BY <1>4
  <2>3. {q[j] : j \in 1..k} = {q[j] : j \in 1..k - 1} \cup {q[k]}
    BY <2>1, <2>2
  <2> QED
    BY <1>4, <2>3 DEF Seen
<1>11. q[k] \notin Seen(q, k)
  <2> SUFFICES ASSUME NEW j \in 1..k - 1, q[j] = q[k], q[k] # <<>>
               PROVE  FALSE
    BY DEF Seen
  <2>1. j \in 1..n /\ j < k
    BY <1>3, <1>4
  <2> QED
    BY <1>4, <1>8, <2>1
<1>12. at[k] # <<>> => /\ at[k] \in Seen(q, k) /\ at[k] \in DOMAIN tree
                       /\ tree[at[k]] = Dir
  <2> SUFFICES ASSUME at[k] # <<>>
               PROVE  /\ at[k] \in Seen(q, k) /\ at[k] \in DOMAIN tree
                      /\ tree[at[k]] = Dir
    OBVIOUS
  <2>1. PICK j \in 1..k - 1 : q[j] = at[k] /\ tree[at[k]] = Dir
    BY <1>7
  <2>2. j \in 1..n
    BY <1>3, <1>4
  <2>3. q[j] \in Items
    BY <1>2, <2>2 DEF n
  <2> QED
    BY <2>1, <2>3 DEF Seen, Items
<1> QED
  BY <1>1, <1>4, <1>5, <1>6, <1>9, <1>10, <1>11, <1>12 DEF n, ItemAt

(* Behind the last item. *)
LEMMA AtTheEnd ==
  ASSUME TypeInv, NEW q, NEW at, NEW rest, NEW k \in Nat, SyncAt(q, at, rest, k), ~(k <= Len(q))
  PROVE  /\ stream # <<>> /\ stream[1].is = "eod" /\ Seen(q, k) = DOMAIN tree /\ level = 0
<1>1. /\ Text(q, at, rest, Ends) /\ k \in 1..Len(q) + 1 /\ stream = rest[k]
      /\ Entered(q) = DOMAIN tree /\ Here(q, at) = <<>> /\ level = Len(at[k])
  BY DEF SyncAt
<1>2. Len(q) \in Nat /\ rest[Len(q) + 1] = Ends
  BY <1>1 DEF Text
<1>3. k = Len(q) + 1
  BY <1>1, <1>2
<1>4. stream = Ends /\ Seen(q, k) = DOMAIN tree /\ level = 0
  BY <1>1, <1>2, <1>3 DEF Entered, Here
<1>5. Ends # <<>> /\ Ends[1].is = "eod"
  BY DEF Ends, Plain, Record
<1> QED
  BY <1>4, <1>5

(* At the end of a directory. *)
EodAt(q, at, rest, k) ==
  /\ stream # <<>> /\ stream[1].is = "eod" /\ stream[1].len = 16
  /\ Tail(stream) = rest[k + 1]
  /\ at[k] # <<>> /\ at[k + 1] = Front(at[k]) /\ Seen(q, k + 1) = Seen(q, k)

LEMMA AtEndOfDirectory ==
  ASSUME TypeInv, NEW q, NEW at, NEW rest, NEW k \in Nat, SyncAt(q, at, rest, k), k <= Len(q),
         q[k] = <<>>
  PROVE  EodAt(q, at, rest, k)
<1> DEFINE c == rest[k + 1]
<1>a. ItemAt(q, at, rest, k)
  BY ItemFacts
<1>0. /\ stream = Code(q[k]) \o c /\ c \in Seq(Records)
      /\ Fitting(at[k], q[k]) /\ at[k + 1] = After(at[k], q[k])
      /\ Seen(q, k + 1) = Seen(q, k) \cup ({q[k]} \ {<<>>})
  BY <1>a DEF ItemAt
<1>1. /\ stream = Code(<<>>) \o c /\ c \in Seq(Records)
      /\ Fitting(at[k], <<>>) /\ at[k + 1] = After(at[k], <<>>)
      /\ Seen(q, k + 1) = Seen(q, k)
  BY <1>0
<1> HIDE DEF c
<1> DEFINE r == Record("eod", 16, Blank)
<1>2. r \in Records /\ r.is = "eod" /\ r.len = 16
  BY DEF Record, Records
<1>3. Code(<<>>) = <<r>>
  BY DEF Code, Plain
<1> HIDE DEF r
<1>4. stream # <<>> /\ stream[1] = r /\ Tail(stream) = c
  <2>1. stream = <<r>> \o c
    BY <1>1, <1>3
  <2> QED
    BY ONLY <1>1, <1>2, <2>1, OneRecord
<1> QED
  BY <1>1, <1>2, <1>4 DEF Fitting, After, c, EodAt

(* At an entry. *)
EntryAt(q, at, rest, k) ==
  LET e == q[k]
      n == Last(e)
      d == tree[e]
  IN /\ e \in DOMAIN tree /\ e = Append(at[k], n) /\ n \in Names /\ n # Blank
     /\ at[k + 1] = IF d = Dir THEN e ELSE at[k]
     /\ Seen(q, k + 1) = Seen(q, k) \cup {e}
     /\ Len(stream) >= 2 /\ stream[1].is = "entry" /\ stream[1].name = n
     /\ stream[2].is = IF d = Dir THEN "sod" ELSE "file"
     /\ d # Dir => stream[2].size = d.size
     /\ Tail(Tail(stream)) = IF d = Dir THEN rest[k + 1] ELSE Bytes(d) \o rest[k + 1]

LEMMA AtEntry ==
  ASSUME TypeInv, NEW q, NEW at, NEW rest, NEW k \in Nat, SyncAt(q, at, rest, k), k <= Len(q),
         q[k] # <<>>
  PROVE  EntryAt(q, at, rest, k)
<1> DEFINE e == q[k]
           n == Last(e)
           d == tree[e]
           r == rest[k + 1]
<1>a. ItemAt(q, at, rest, k)
  BY ItemFacts
<1>1. /\ e \in Items /\ stream = Code(e) \o r /\ r \in Seq(Records)
      /\ Fitting(at[k], e) /\ at[k + 1] = After(at[k], e)
      /\ Seen(q, k + 1) = Seen(q, k) \cup ({e} \ {<<>>})
  BY <1>a DEF ItemAt
<1>2. e \in DOMAIN tree /\ e \in Seq(Names) /\ n # Blank /\ Front(e) = at[k]
  BY <1>1, TreeFacts DEF Items, Fitting
<1>3. e = Append(at[k], n) /\ n \in Names /\ n \in TreeNames
  BY <1>2, FrontLast DEF TreeNames
<1> DEFINE a == Record("entry", 28 + Length[n], n)
<1>4. a \in Records /\ a.is = "entry" /\ a.name = n
  <2>1. Length[n] \in Nat
    BY <1>3, TransplantAssumption
  <2>2. 28 + Length[n] \in Nat \ {0}
    BY <2>1
  <2> QED
    BY <1>3, <2>2 DEF Record, Records
<1>5. Named(n) = <<a>>
  BY DEF Named
<1> HIDE DEF a
<1>6. CASE d = Dir
  <2> DEFINE b == Record("sod", 16, Blank)
  <2>1. b \in Records /\ b.is = "sod"
    BY DEF Record, Records
  <2>2. Code(e) = <<a>> \o <<b>>
    BY <1>5, <1>6 DEF Code, Plain
  <2> HIDE DEF b, d, e, n, r
  <2>3. (<<a>> \o <<b>>) \o r = <<a>> \o (<<b>> \o r)
    BY <1>1, <1>4, <2>1
  <2>4. Len(stream) >= 2 /\ stream[1] = a /\ stream[2] = b /\ Tail(Tail(stream)) = r
    <3>1. stream = <<a>> \o (<<b>> \o r)
      BY <1>1, <2>2, <2>3
    <3> QED
      BY ONLY <1>1, <1>4, <2>1, <3>1, TwoRecords
  <2> QED
    BY <1>1, <1>2, <1>3, <1>4, <1>6, <2>1, <2>4 DEF After, d, e, n, r, EntryAt
<1>7. CASE d # Dir
  <2> DEFINE b == [is |-> "file", len |-> 16, size |-> d.size]
             c == Bytes(d)
  <2>0. d.size \in Nat /\ d.good \in Nat /\ d \in Contents
    BY <1>2, <1>7, TreeFacts DEF Contents
  <2>1. b \in Records /\ b.is = "file" /\ b.size = d.size
    BY <2>0 DEF Records
  <2>2. Code(e) = <<a>> \o (<<b>> \o c)
    BY <1>5, <1>7 DEF Code, FileData
  <2>3. c \in Seq(Records)
    <3>1. d.good # 0 => Record(IF d.magic THEN "text" ELSE "bytes", d.good, Blank) \in Records
      BY <2>0 DEF Record, Records
    <3> QED
      BY <3>1 DEF Bytes
  <2> HIDE DEF b, c, d, e, n, r
  <2>4. (<<a>> \o (<<b>> \o c)) \o r = <<a>> \o (<<b>> \o (c \o r))
    <3>1. <<a>> \in Seq(Records) /\ <<b>> \in Seq(Records) /\ <<b>> \o c \in Seq(Records)
      BY <1>4, <2>1, <2>3
    <3>2. (<<a>> \o (<<b>> \o c)) \o r = <<a>> \o ((<<b>> \o c) \o r)
      BY ONLY <1>1, <3>1, Joined
    <3>3. (<<b>> \o c) \o r = <<b>> \o (c \o r)
      BY ONLY <1>1, <2>3, <3>1, Joined
    <3> QED
      BY <3>2, <3>3
  <2>5. c \o r \in Seq(Records)
    BY <1>1, <2>3
  <2>6. Len(stream) >= 2 /\ stream[1] = a /\ stream[2] = b /\ Tail(Tail(stream)) = c \o r
    <3>1. stream = <<a>> \o (<<b>> \o (c \o r))
      BY <1>1, <2>2, <2>4
    <3> DEFINE x == c \o r
    <3>2. stream = <<a>> \o (<<b>> \o x) /\ x \in Seq(Records)
      BY <2>5, <3>1
    <3> HIDE DEF x
    <3>3. Len(stream) >= 2 /\ stream[1] = a /\ stream[2] = b /\ Tail(Tail(stream)) = x
      BY ONLY <1>4, <2>1, <3>2, TwoRecords
    <3> QED
      BY <3>3 DEF x
  <2> QED
    BY <1>1, <1>2, <1>3, <1>4, <1>7, <2>1, <2>6 DEF After, c, d, e, n, r, EntryAt
<1> QED
  BY <1>6, <1>7

-----------------------------------------------------------------------------
(* The deserializer's steps. *)
LEMMA PathGrown ==
  ASSUME TypeInv, NEW d \in Seq(Names), Steps(path.at) = Steps(base) \o d,
         NEW n \in Names, n # Blank, NEW p, p.at = Append(path.at, n)
  PROVE  Steps(p.at) = Steps(base) \o Append(d, n) /\ Entry(p) = Append(d, n)
<1> DEFINE b == Steps(base)
           e == Append(d, n)
<1>1. path.at \in Seq(Names) /\ base \in Seq(Names)
  BY TreeFacts DEF TypeInv, PathBufs
<1>2. b \in Seq(Names) /\ Steps(p.at) = Append(b \o d, n)
  <2>1. b \in Seq(Names)
    BY <1>1, StepsAppend
  <2>2. Steps(Append(path.at, n)) = Append(Steps(path.at), n)
    BY <1>1, StepsAppend
  <2> QED
    BY <2>1, <2>2
<1>3. e \in Seq(Names)
  OBVIOUS
<1> HIDE DEF b
<1>4. Append(b \o d, n) = b \o Append(d, n)
  BY ONLY <1>2, d \in Seq(Names), n \in Names, ConcatFacts
<1> HIDE DEF e
<1>5. Steps(p.at) = b \o e
  BY <1>2, <1>4 DEF e
<1>6. SubSeq(b \o e, Len(b) + 1, Len(b \o e)) = e
  BY <1>2, <1>3
<1> QED
  BY <1>5, <1>6 DEF Entry, b, e

LEMMA PathShrunk ==
  ASSUME TypeInv, NEW d \in Seq(Names), d # <<>>
  PROVE  Front(Steps(base) \o d) = Steps(base) \o Front(d)
<1> DEFINE b == Steps(base)
           f == Front(d)
           n == Last(d)
<1>1. b \in Seq(Names) /\ f \in Seq(Names) /\ n \in Names /\ d = Append(f, n)
  <2>1. base \in Seq(Names)
    BY TreeFacts
  <2>2. \E x : x \in Names
    BY TransplantAssumption
  <2> QED
    BY <2>1, <2>2, StepsAppend, FrontLast
<1> HIDE DEF b, f, n
<1>2. b \o d = Append(b \o f, n) /\ b \o f \in Seq(Names)
  BY <1>1, ConcatFacts
<1>3. Front(Append(b \o f, n)) = b \o f
  BY <1>1, <1>2, AppendFacts
<1> QED
  BY <1>2, <1>3 DEF b, f

LEMMA SameCopied ==
  ASSUME UNCHANGED <<tree, there>>, NEW S
  PROVE  Copied(S)' = Copied(S)
BY DEF Copied, ToThere

LEMMA SamePromise ==
  ASSUME UNCHANGED <<tree, there, clobber>>
  PROVE  /\ Promised' <=> Promised
         /\ Nested' <=> Nested
         /\ InTheWay' <=> InTheWay
<1>1. Truncated' <=> Truncated
  BY DEF Truncated
<1>2. Nested' <=> Nested
  BY DEF Nested
<1>3. InTheWay' <=> InTheWay
  BY DEF InTheWay
<1> QED
  BY <1>1, <1>2, <1>3 DEF Promised

(* The next item: what is to be shown for it. *)
LEMMA SyncNext ==
  ASSUME UNCHANGED <<base, tree, there>>,
         NEW q, NEW at, NEW rest, NEW k \in Nat, SyncAt(q, at, rest, k), k <= Len(q),
         stream' = rest[k + 1], level' = Len(at[k + 1]),
         Steps(path'.at) = Steps(base) \o at[k + 1],
         disk' = Copied(Seen(q, k + 1))
  PROVE  Sync'
<1>1. Text(q, at, rest, Ends)'
  BY SameText DEF SyncAt
<1>2. k + 1 \in 1..Len(q) + 1 /\ k + 1 \in Nat
  <2>1. Len(q) \in Nat
    BY DEF SyncAt, Text
  <2> QED
    BY <2>1
<1>3. Entered(q) = DOMAIN tree' /\ Here(q, at) = <<>>
  BY DEF SyncAt
<1>4. disk' = Copied(Seen(q, k + 1))'
  BY SameCopied DEF Seen
<1> DEFINE m == k + 1
<1> HIDE DEF m
<1>5. /\ m \in 1..Len(q) + 1 /\ m \in Nat /\ stream' = rest[m] /\ level' = Len(at[m])
      /\ Steps(path'.at) = Steps(base') \o at[m] /\ disk' = Copied(Seen(q, m))'
  BY <1>2, <1>4, Zenon DEF m
<1>6. SyncAt(q, at, rest, m)'
  BY <1>1, <1>3, <1>5, Zenon DEF SyncAt, Entered, Here, Ends, Seen, Steps
<1> QED
  BY <1>5, <1>6 DEF Sync

LEMMA SyncRecord ==
  ASSUME TypeInv, Sync
  PROVE  Is(1, {"entry", "eod"})
<1>1. PICK q, at, rest : \E k \in Nat : SyncAt(q, at, rest, k)
  BY DEF Sync
<1>2. PICK k \in Nat : SyncAt(q, at, rest, k)
  BY <1>1
<1>3. stream \in Seq(Records)
  BY DEF TypeInv
<1>4. stream # <<>> => Len(stream) >= 1
  BY <1>3
<1>5. CASE ~(k <= Len(q))
  BY <1>2, <1>4, <1>5, AtTheEnd DEF Is
<1>6. CASE k <= Len(q) /\ q[k] = <<>>
  <2>1. EodAt(q, at, rest, k)
    BY <1>2, <1>6, AtEndOfDirectory
  <2> QED
    BY <1>4, <2>1 DEF Is, EodAt
<1>7. CASE k <= Len(q) /\ q[k] # <<>>
  <2>1. EntryAt(q, at, rest, k)
    BY <1>2, <1>7, AtEntry
  <2>2. Len(stream) >= 2 /\ stream[1].is = "entry"
    BY <2>1 DEF EntryAt
  <2>3. Len(stream) >= 1
    BY <1>3, <2>2
  <2> QED
    BY <2>2, <2>3 DEF Is
<1> QED
  BY <1>5, <1>6, <1>7

LEMMA BadMagicCopy ==
  ASSUME TypeInv, CopyInv, BadMagic
  PROVE  CopyInv'
<1>0. /\ phase = "des" /\ ~Is(1, {"entry", "eod", "sod", "file", "eot"})
      /\ UNCHANGED <<tree, there, clobber>>
  BY DEF BadMagic
<1>a. PICK n \in 1..3 : Error(path, Skip(stream, n))
  BY DEF BadMagic
<1>1. /\ Promised' <=> Promised
      /\ Nested' <=> Nested
      /\ InTheWay' <=> InTheWay
  BY <1>0, SamePromise
<1>2. phase' \in {"des", "failed", "astray"}
  <2>1. path \in PathBufs
    BY DEF TypeInv
  <2> QED
    BY <1>0, <1>a, <2>1, PopFacts DEF Error
<1>3. SUFFICES ASSUME Promised
               PROVE  /\ phase' = "des" => Lost'
                      /\ phase' = "failed" => Nested \/ InTheWay
  BY <1>1, <1>2 DEF CopyInv
<1>4. Lost
  <2>1. ~Sync
    BY <1>0, SyncRecord DEF Is
  <2> QED
    BY <1>0, <1>3, <2>1 DEF CopyInv
<1>5. CASE level = 0
  <2>1. phase' = "failed"
    BY <1>0, <1>a, <1>5 DEF Error
  <2> QED
    BY <1>4, <2>1 DEF Lost
<1>6. CASE level # 0
  <2>1. stream # <<>> /\ stream[1].is = "junk" /\ stream[1].len >= 4
    BY <1>4, <1>6 DEF Lost
  <2>2. stream \in Seq(Records) /\ stream[1].len \in Nat
    BY <2>1, HeadTail, RecordFacts DEF TypeInv
  <2>3. Skip(stream, n) = Left(stream, stream[1].len - n)
    <3>1. n \in 1..stream[1].len - 1
      BY <2>1, <2>2
    <3> QED
      BY <2>1, <2>2, <3>1, SkipSome
  <2>4. stream[1].len - n \in Nat \ {0}
    BY <2>1, <2>2
  <2>5. Skip(stream, n) # <<>> /\ Skip(stream, n)[1].is = "junk"
    BY <2>1, <2>2, <2>3, <2>4, LeftFacts DEF Remnant
  <2>6. stream' = Skip(stream, n) /\ level' = 0 /\ phase' # "failed"
    <3>1. stream' = Skip(stream, n) /\ level' = 0 /\ Pop(path)
      BY <1>0, <1>a, <1>6 DEF Error
    <3>2. phase' # "failed"
      BY <1>0, <3>1 DEF Pop
    <3> QED
      BY <3>1, <3>2
  <2>7. Lost'
    BY <1>1, <1>4, <2>5, <2>6 DEF Lost
  <2> QED
    BY <2>6, <2>7
<1> QED
  BY <1>5, <1>6

LEMMA MisreadCopy ==
  ASSUME TypeInv, CopyInv, Misread
  PROVE  CopyInv'
<1>0. /\ phase = "des" /\ Is(1, {"text"}) /\ phase' \in {"wild", "done"}
      /\ UNCHANGED <<tree, there, clobber>>
  BY DEF Misread
<1>1. ~Sync /\ ~Lost
  BY <1>0, SyncRecord DEF Is, Lost
<1>2. ~Promised
  BY <1>0, <1>1 DEF CopyInv
<1> QED
  BY <1>0, <1>2, SamePromise DEF CopyInv

LEMMA WrongRecordCopy ==
  ASSUME TypeInv, CopyInv, WrongRecord
  PROVE  CopyInv'
<1>0. /\ phase = "des" /\ Is(1, {"sod", "file", "eot"}) /\ phase' = "wild"
      /\ UNCHANGED <<tree, there, clobber>>
  BY DEF WrongRecord
<1>1. ~Sync /\ ~Lost
  BY <1>0, SyncRecord DEF Is, Lost
<1>2. ~Promised
  BY <1>0, <1>1 DEF CopyInv
<1> QED
  BY <1>0, <1>2, SamePromise DEF CopyInv

LEMMA FinishCopy ==
  ASSUME TypeInv, SerInv, CopyInv, Finish
  PROVE  CopyInv'
<1>0. /\ phase = "des" /\ Is(1, {"eod"}) /\ level = 0 /\ phase' = "done"
      /\ UNCHANGED <<tree, there, clobber, disk>>
  BY DEF Finish
<1>1. SUFFICES ASSUME Promised
               PROVE  disk = tree
  BY <1>0, SamePromise DEF CopyInv
<1>2. ~Lost
  BY <1>0 DEF Is, Lost
<1>3. PICK q, at, rest : \E k \in Nat : SyncAt(q, at, rest, k)
  BY <1>0, <1>1, <1>2 DEF CopyInv, Sync
<1>4. PICK k \in Nat : SyncAt(q, at, rest, k)
  BY <1>3
<1>5. CASE ~(k <= Len(q))
  <2>1. disk = Copied(DOMAIN tree)
    <3>1. Seen(q, k) = DOMAIN tree
      BY <1>4, <1>5, AtTheEnd
    <3> QED
      BY <1>4, <3>1 DEF SyncAt
  <2>2. ToThere \subseteq DOMAIN tree
    BY ThereFacts
  <2>3. Copied(DOMAIN tree) = [p \in DOMAIN tree |-> tree[p]]
    BY <2>2 DEF Copied
  <2>4. tree = [p \in DOMAIN tree |-> tree[p]]
    BY TreeFacts
  <2> QED
    BY <2>1, <2>3, <2>4
<1>6. CASE k <= Len(q) /\ q[k] = <<>>
  <2>1. EodAt(q, at, rest, k)
    BY <1>4, <1>6, AtEndOfDirectory
  <2>2. ItemAt(q, at, rest, k)
    BY <1>4, <1>6, ItemFacts
  <2>3. at[k] # <<>> /\ at[k] \in Seq(Names)
    BY <2>1, <2>2 DEF EodAt, ItemAt
  <2>4. Len(at[k]) # 0
    BY <2>3
  <2> QED
    BY <1>0, <1>4, <2>4 DEF SyncAt
<1>7. CASE k <= Len(q) /\ q[k] # <<>>
  <2>1. EntryAt(q, at, rest, k)
    BY <1>4, <1>7, AtEntry
  <2> QED
    BY <1>0, <2>1 DEF EntryAt, Is
<1> QED
  BY <1>5, <1>6, <1>7

LEMMA LeaveDirectoryCopy ==
  ASSUME TypeInv, CopyInv, LeaveDirectory
  PROVE  CopyInv'
<1>0. /\ phase = "des" /\ Is(1, {"eod"}) /\ level > 0 /\ Pop(path)
      /\ level' = level - 1
      /\ stream' = Skip(stream, IF level = 1 THEN 16 ELSE 4)
      /\ UNCHANGED <<base, tree, there, clobber, disk>>
  BY DEF LeaveDirectory
<1>1. phase' \in {"des", "astray"} /\ (phase' = "des" => path' = path_pop(path))
      /\ (phase' = "des" => Steps(path_pop(path).at) = Front(Steps(path.at)))
  <2>1. path \in PathBufs
    BY DEF TypeInv
  <2> QED
    BY <1>0, <2>1, PopFacts
<1>2. SUFFICES ASSUME Promised, phase' = "des"
               PROVE  Sync' \/ Lost'
  BY <1>0, <1>1, SamePromise DEF CopyInv
<1>3. ~Lost
  BY <1>0 DEF Is, Lost
<1>4. PICK q, at, rest : \E k \in Nat : SyncAt(q, at, rest, k)
  BY <1>0, <1>2, <1>3 DEF CopyInv, Sync
<1>5. PICK k \in Nat : SyncAt(q, at, rest, k)
  BY <1>4
<1>6. k <= Len(q)
  BY <1>0, <1>5, AtTheEnd
<1>7. q[k] = <<>>
  <2> SUFFICES ASSUME q[k] # <<>>
               PROVE  FALSE
    OBVIOUS
  <2>1. EntryAt(q, at, rest, k)
    BY <1>5, <1>6, AtEntry
  <2> QED
    BY <1>0, <2>1 DEF EntryAt, Is
<1>8. EodAt(q, at, rest, k) /\ ItemAt(q, at, rest, k)
  BY <1>5, <1>6, <1>7, AtEndOfDirectory, ItemFacts
<1>9. /\ stream \in Seq(Records) /\ stream # <<>> /\ stream[1].len = 16
      /\ Tail(stream) = rest[k + 1] /\ rest[k + 1] \in Seq(Records)
      /\ at[k] # <<>> /\ at[k] \in Seq(Names) /\ at[k + 1] = Front(at[k])
      /\ Seen(q, k + 1) = Seen(q, k)
      /\ at[k] \in DOMAIN tree /\ tree[at[k]] = Dir
  BY <1>8 DEF EodAt, ItemAt, TypeInv
<1>10. /\ level = Len(at[k]) /\ Steps(path.at) = Steps(base) \o at[k]
       /\ disk = Copied(Seen(q, k))
  BY <1>5 DEF SyncAt
<1>11. CASE level = 1
  <2>1. stream' = rest[k + 1]
    <3>1. Skip(stream, 16 + 0) = Skip(Tail(stream), 0)
      BY <1>9, SkipRecord
    <3>2. 16 + 0 = 16
      OBVIOUS
    <3>3. Skip(Tail(stream), 0) = rest[k + 1]
      BY <1>9, SkipNothing
    <3> QED
      BY <1>0, <1>11, <3>1, <3>2, <3>3
  <2>2. level' = Len(at[k + 1])
    BY <1>0, <1>9, <1>10, FrontLast
  <2>3. Steps(path'.at) = Steps(base) \o at[k + 1]
    <3>1. Steps(path'.at) = Front(Steps(path.at))
      BY <1>1, <1>2
    <3> QED
      BY <1>9, <1>10, <3>1, PathShrunk
  <2>4. disk' = Copied(Seen(q, k + 1))
    BY <1>0, <1>9, <1>10
  <2>5. Sync'
    BY <1>0, <1>5, <1>6, <2>1, <2>2, <2>3, <2>4, SyncNext
  <2> QED
    BY <2>5
<1>12. CASE level # 1
  <2>1. Skip(stream, 4) = Left(stream, 12)
    <3>1. 4 \in 1..stream[1].len - 1 /\ stream[1].len - 4 = 12
      BY <1>9
    <3> QED
      BY <1>9, <3>1, SkipSome
  <2>2. stream' = Left(stream, 12)
    BY <1>0, <1>12, <2>1
  <2>3. Left(stream, 12) # <<>> /\ Left(stream, 12)[1].is = "junk" /\ Left(stream, 12)[1].len = 12
    <3>1. Remnant(stream[1].is) = "junk"
      BY <1>8 DEF EodAt, Remnant
    <3> QED
      BY <1>9, <3>1, LeftFacts
  <2>4. Nested
    <3> DEFINE n == Len(at[k])
    <3>2. n \in Nat
      BY <1>9
    <3>3. level > 0 /\ level # 1 /\ level = n
      BY <1>0, <1>10, <1>12
    <3> HIDE DEF n
    <3>4. n > 1
      BY <3>2, <3>3
    <3>1. Len(at[k]) > 1
      BY <3>4 DEF n
    <3> QED
      BY <1>9, <3>1 DEF Nested
  <2>5. Nested'
    BY <1>0, <2>4 DEF Nested
  <2>6. Lost'
    BY <2>2, <2>3, <2>5 DEF Lost
  <2> QED
    BY <2>6
<1> QED
  BY <1>11, <1>12

(* The entry in work at the other end: where it goes, and what is there.    *)
EntryPlace(q, k) ==
  LET e == q[k]
      p == Into(path)
  IN /\ p \in PathBufs /\ Entry(p) = e /\ Steps(p.at) = Steps(base) \o e
     /\ Parent(e) /\ (Exists(e) <=> e \in ToThere)
     /\ e \in ToThere => disk[e] = IF e = there THEN Other ELSE Dir
     /\ With(e, tree[e]) = Copied(Seen(q, k + 1))
     /\ e \in ToThere /\ tree[e] = Dir => disk = Copied(Seen(q, k + 1))

LEMMA InPlace ==
  ASSUME TypeInv, SerInv, NEW q, NEW at, NEW rest, NEW k \in Nat, SyncAt(q, at, rest, k),
         k <= Len(q), q[k] # <<>>
  PROVE  EntryPlace(q, k)
<1> DEFINE e == q[k]
           n == Last(e)
           d == at[k]
           p == Into(path)
           S == Seen(q, k)
           T == Seen(q, k + 1)
<1>1. /\ e \in DOMAIN tree /\ e = Append(d, n) /\ n \in Names /\ n # Blank /\ T = S \cup {e}
      /\ stream[1].name = n
  <2>1. EntryAt(q, at, rest, k)
    BY AtEntry
  <2> QED
    BY <2>1 DEF EntryAt
<1>2. /\ d \in Seq(Names) /\ e \notin S
      /\ d # <<>> => d \in S /\ tree[d] = Dir
  <2>1. ItemAt(q, at, rest, k)
    BY ItemFacts
  <2> QED
    BY <2>1 DEF ItemAt
<1>3. Steps(path.at) = Steps(base) \o d /\ disk = Copied(S)
  BY DEF SyncAt
<1>4. p \in PathBufs /\ p.at = Append(path.at, n)
  BY <1>1, PushType DEF TypeInv, Into
<1> HIDE DEF n, d, p, S, T
<1>5. Steps(p.at) = Steps(base) \o Append(d, n) /\ Entry(p) = Append(d, n)
  BY <1>1, <1>2, <1>3, <1>4, PathGrown
<1> HIDE DEF e
<1>6. DOMAIN disk = S \cup ToThere
  BY <1>3 DEF Copied
<1>7. Parent(e)
  <2>1. CASE d = <<>>
    <3>1. Len(e) = 1
      BY <1>1, <1>2, <2>1, AppendFacts
    <3> QED
      BY <3>1 DEF Parent
  <2>2. CASE d # <<>>
    <3>1. Front(e) = d
      BY <1>1, <1>2, AppendFacts
    <3>2. d \in DOMAIN disk /\ disk[d] = Dir
      BY <1>2, <1>3, <1>6, <2>2 DEF Copied
    <3> QED
      BY <3>1, <3>2 DEF Parent, Exists
  <2> QED
    BY <2>1, <2>2
<1>8. Exists(e) <=> e \in ToThere
  BY <1>2, <1>6 DEF Exists
<1>9. e \in ToThere => disk[e] = IF e = there THEN Other ELSE Dir
  BY <1>2, <1>3 DEF Copied
<1>10. With(e, tree[e]) = Copied(T)
  <2> DEFINE D == S \cup ToThere
             f == IF e = there THEN Other ELSE Dir
  <2>1. With(e, tree[e]) = [x \in D \cup {e} |-> IF x = e THEN tree[e] ELSE disk[x]]
    BY <1>6 DEF With
  <2>2. Copied(T) = [x \in D \cup {e} |->
                       IF x \in T THEN tree[x] ELSE IF x = there THEN Other ELSE Dir]
    <3>1. T \cup ToThere = D \cup {e}
      BY <1>1
    <3> QED
      BY <3>1 DEF Copied
  <2>3. \A x \in D \cup {e} :
          (IF x = e THEN tree[e] ELSE disk[x])
            = IF x \in T THEN tree[x] ELSE IF x = there THEN Other ELSE Dir
    BY <1>1, <1>3 DEF Copied
  <2> QED
    BY <2>1, <2>2, <2>3
<1>11. e \in ToThere /\ tree[e] = Dir => disk = Copied(T)
  <2> SUFFICES ASSUME e \in ToThere, tree[e] = Dir
               PROVE  Copied(S) = Copied(T)
    BY <1>3
  <2>1. e # there
    <3>1. there # <<>> => tree[there] # Dir
      BY ThereFacts
    <3>2. e # <<>>
      BY <1>1, TreeFacts
    <3> QED
      BY <3>1, <3>2
  <2>2. T \cup ToThere = S \cup ToThere
    BY <1>1
  <2>3. \A x \in S \cup ToThere :
          (IF x \in S THEN tree[x] ELSE IF x = there THEN Other ELSE Dir)
            = IF x \in T THEN tree[x] ELSE IF x = there THEN Other ELSE Dir
    BY <1>1, <2>1
  <2> QED
    BY <2>2, <2>3 DEF Copied
<1> QED
  BY <1>1, <1>4, <1>5, <1>7, <1>8, <1>9, <1>10, <1>11 DEF EntryPlace, e, p, T

LEMMA EnterDirectoryCopy ==
  ASSUME TypeInv, SerInv, CopyInv, EnterDirectory
  PROVE  CopyInv'
<1> DEFINE p == Into(path)
<1>0. /\ phase = "des" /\ Is(1, {"entry"}) /\ Is(2, {"sod"})
      /\ path' = p /\ level' = level + 1
      /\ disk' = IF ~Exists(Entry(p)) /\ Parent(Entry(p)) THEN With(Entry(p), Dir) ELSE disk
      /\ stream' = Tail(Tail(stream))
      /\ phase' = phase /\ UNCHANGED <<base, tree, there, clobber>>
  BY DEF EnterDirectory
<1> HIDE DEF p
<1>1. SUFFICES ASSUME Promised
               PROVE  Sync'
  BY <1>0, SamePromise DEF CopyInv
<1>2. ~Lost
  BY <1>0 DEF Is, Lost
<1>3. PICK q, at, rest : \E k \in Nat : SyncAt(q, at, rest, k)
  BY <1>0, <1>1, <1>2 DEF CopyInv, Sync
<1>4. PICK k \in Nat : SyncAt(q, at, rest, k)
  BY <1>3
<1>5. k <= Len(q)
  BY <1>0, <1>4, AtTheEnd DEF Is
<1>6. q[k] # <<>>
  <2> SUFFICES ASSUME q[k] = <<>>
               PROVE  FALSE
    OBVIOUS
  <2>1. EodAt(q, at, rest, k)
    BY <1>4, <1>5, AtEndOfDirectory
  <2> QED
    BY <1>0, <2>1 DEF EodAt, Is
<1> DEFINE e == q[k]
           c == at[k + 1]
<1>7. /\ EntryAt(q, at, rest, k) /\ EntryPlace(q, k) /\ ItemAt(q, at, rest, k)
  BY <1>4, <1>5, <1>6, AtEntry, InPlace, ItemFacts
<1>8. tree[e] = Dir /\ stream' = rest[k + 1] /\ c = e /\ e = Append(at[k], Last(e)) /\ Last(e) \in Names
  <2>1. stream[2].is = "sod"
    BY <1>0 DEF Is
  <2> QED
    BY <1>0, <1>7, <2>1 DEF EntryAt
<1>9. at[k] \in Seq(Names) /\ level = Len(at[k])
  BY <1>4, <1>7 DEF ItemAt, SyncAt
<1>10. level' = Len(c)
  BY <1>0, <1>8, <1>9, AppendFacts
<1>11. Steps(path'.at) = Steps(base) \o c
  BY <1>0, <1>7, <1>8 DEF EntryPlace, p
<1>12. disk' = Copied(Seen(q, k + 1))
  <2>1. /\ Entry(p) = e /\ Parent(e) /\ (Exists(e) <=> e \in ToThere)
        /\ With(e, Dir) = Copied(Seen(q, k + 1))
        /\ e \in ToThere => disk = Copied(Seen(q, k + 1))
    BY <1>7, <1>8 DEF EntryPlace, p
  <2> QED
    BY <1>0, <2>1
<1> HIDE DEF e
<1> QED
  BY <1>0, <1>4, <1>5, <1>8, <1>10, <1>11, <1>12, SyncNext

(* A whole file is read, and what follows it is next. *)
LEMMA FileRead ==
  ASSUME NEW f \in Contents, f.good = f.size, f.magic => f.good >= 3, NEW r \in Seq(Records)
  PROVE  LET s == Bytes(f) \o r
         IN /\ Read(f.size, s) = f /\ Skip(s, f.size) = r
            /\ f.size # 0 => s # <<>> /\ s[1].is = IF f.magic THEN "text" ELSE "bytes"
<1> DEFINE s == Bytes(f) \o r
           n == f.size
<1>0. n \in Nat /\ f = [size |-> n, good |-> n, magic |-> f.magic] /\ f.magic \in BOOLEAN
  BY DEF Contents
<1>1. CASE n = 0
  <2>1. Bytes(f) = <<>>
    BY <1>1 DEF Bytes
  <2>2. s = r
    BY <2>1
  <2>3. Read(n, s) = f
    <3>1. f.magic = FALSE
      BY <1>0, <1>1
    <3> QED
      BY <1>0, <1>1, <3>1 DEF Read
  <2>4. Skip(s, n) = r
    BY <1>1, <2>2, SkipNothing
  <2> QED
    BY <1>1, <2>3, <2>4
<1>2. CASE n # 0
  <2> DEFINE b == Record(IF f.magic THEN "text" ELSE "bytes", n, Blank)
  <2>1. b \in Records /\ b.is = (IF f.magic THEN "text" ELSE "bytes") /\ b.len = n
    BY <1>0, <1>2 DEF Record, Records
  <2>2. Bytes(f) = <<b>>
    BY <1>2 DEF Bytes
  <2>3. s = <<b>> \o r
    BY <2>2
  <2> HIDE DEF b, s, n
  <2>4. s \in Seq(Records) /\ s # <<>> /\ s[1] = b /\ Tail(s) = r
    BY ONLY <2>1, <2>3, r \in Seq(Records), OneRecord
  <2>5. Read(n, s) = f
    BY <1>0, <1>2, <2>1, <2>4 DEF Read
  <2>6. Skip(s, n) = r
    <3>1. Skip(s, n + 0) = Skip(Tail(s), 0)
      BY <2>1, <2>4, SkipRecord
    <3>2. n + 0 = n
      BY <1>0
    <3>3. Skip(r, 0) = r
      BY SkipNothing
    <3> QED
      BY <2>4, <3>1, <3>2, <3>3
  <2> QED
    BY <2>1, <2>4, <2>5, <2>6 DEF n, s
<1> QED
  BY <1>1, <1>2

LEMMA MakeFileCopy ==
  ASSUME TypeInv, SerInv, CopyInv, MakeFile
  PROVE  CopyInv'
<1> DEFINE p == Into(path)
           size == stream[2].size
           behind == Tail(Tail(stream))
           refused == ~Parent(Entry(p)) \/ (Exists(Entry(p)) /\ (~clobber \/ disk[Entry(p)] = Dir))
<1>0. /\ phase = "des" /\ Is(1, {"entry"}) /\ Is(2, {"file"})
      /\ refused => Error(p, behind)
      /\ ~refused => /\ disk' = With(Entry(p), Read(size, behind))
                     /\ stream' = Skip(behind, size)
                     /\ Pop(p) /\ level' = level
      /\ UNCHANGED <<base, tree, there, clobber>>
  BY DEF MakeFile
<1>a. p \in PathBufs
  BY <1>0, EntryFacts
<1> HIDE DEF p, size, behind, refused
<1>b. phase' \in {"des", "failed", "astray"}
  <2>1. Error(p, behind) \/ Pop(p)
    BY <1>0
  <2>2. Pop(p) => phase' \in {"des", "astray"}
    BY <1>0, <1>a, PopFacts
  <2> QED
    BY <2>1, <2>2 DEF Error
<1>1. SUFFICES ASSUME Promised
               PROVE  /\ phase' = "des" => Sync' \/ Lost'
                      /\ phase' = "failed" => Nested \/ InTheWay
  BY <1>0, <1>b, SamePromise DEF CopyInv
<1>2. ~Lost
  BY <1>0 DEF Is, Lost
<1>3. PICK q, at, rest : \E k \in Nat : SyncAt(q, at, rest, k)
  BY <1>0, <1>1, <1>2 DEF CopyInv, Sync
<1>4. PICK k \in Nat : SyncAt(q, at, rest, k)
  BY <1>3
<1>5. k <= Len(q)
  BY <1>0, <1>4, AtTheEnd DEF Is
<1>6. q[k] # <<>>
  <2> SUFFICES ASSUME q[k] = <<>>
               PROVE  FALSE
    OBVIOUS
  <2>1. EodAt(q, at, rest, k)
    BY <1>4, <1>5, AtEndOfDirectory
  <2> QED
    BY <1>0, <2>1 DEF EodAt, Is
<1> DEFINE e == q[k]
           d == at[k]
           f == tree[e]
           more == rest[k + 1]
<1>7. /\ EntryAt(q, at, rest, k) /\ EntryPlace(q, k) /\ ItemAt(q, at, rest, k)
  BY <1>4, <1>5, <1>6, AtEntry, InPlace, ItemFacts
<1>8. /\ f # Dir /\ e \in DOMAIN tree /\ at[k + 1] = d /\ size = f.size
      /\ behind = Bytes(f) \o more /\ e = Append(d, Last(e)) /\ Last(e) \in Names
  <2>1. stream[2].is = "file"
    BY <1>0 DEF Is
  <2> QED
    BY <1>7, <2>1 DEF EntryAt, size, behind
<1>9. d \in Seq(Names) /\ more \in Seq(Records) /\ level = Len(d)
  BY <1>4, <1>7 DEF ItemAt, SyncAt
<1>10. f \in Contents /\ f.good = f.size /\ (f.magic => f.good >= 3)
  <2>1. f \in Contents /\ f.good <= f.size /\ (f.magic => f.good >= 3)
        /\ f.good \in Nat /\ f.size \in Nat
    BY <1>8, TreeFacts DEF Contents
  <2>2. ~(f.good < f.size)
    BY <1>1, <1>8 DEF Promised, Truncated
  <2> QED
    BY <2>1, <2>2
<1>11. /\ Read(size, behind) = f /\ Skip(behind, size) = more
       /\ f.size # 0 => behind # <<>> /\ behind[1].is = IF f.magic THEN "text" ELSE "bytes"
  <2> HIDE DEF f, more
  <2> QED
    BY <1>8, <1>9, <1>10, FileRead
<1>12. /\ Entry(p) = e /\ Steps(p.at) = Steps(base) \o e
       /\ Parent(e) /\ (Exists(e) <=> e \in ToThere)
       /\ e \in ToThere => disk[e] = IF e = there THEN Other ELSE Dir
       /\ With(e, f) = Copied(Seen(q, k + 1))
  BY <1>7 DEF EntryPlace, p
<1> HIDE DEF e, d, f, more
<1>13. CASE refused
  <2>1. Error(p, behind)
    BY <1>0, <1>13
  <2>2. e = there /\ there # <<>>
    <3>1. e \in ToThere
      BY <1>12, <1>13 DEF refused
    <3> QED
      BY <1>8, <3>1, ThereFacts DEF f
  <2>3. ~clobber
    <3>1. disk[e] = Other
      BY <1>12, <1>13, <2>2 DEF refused
    <3>2. Other # Dir
      BY DEF Other, Dir
    <3> QED
      BY <1>12, <1>13, <3>1, <3>2 DEF refused
  <2>4. InTheWay
    BY <2>2, <2>3 DEF InTheWay
  <2>5. CASE level = 0
    <3>1. phase' = "failed"
      BY <2>1, <2>5 DEF Error
    <3> QED
      BY <2>4, <3>1
  <2>6. CASE level # 0
    <3>1. level' = 0 /\ stream' = behind /\ phase' # "failed"
      BY <1>0, <2>1, <2>6 DEF Error, Pop
    <3>2. Len(there) > 1
      <4>1. Len(e) = Len(d) + 1 /\ Len(d) \in Nat
        BY <1>8, <1>9, AppendFacts
      <4>2. Len(d) # 0
        BY <1>9, <2>6
      <4> QED
        BY <2>2, <4>1, <4>2
    <3>3. f.size # 0 /\ ~f.magic
      BY <1>1, <2>2, <2>4, <3>2 DEF Promised, f
    <3>4. Lost'
      <4>1. InTheWay'
        BY <1>0, <2>4, SamePromise
      <4> QED
        BY <1>11, <3>1, <3>3, <4>1 DEF Lost
    <3> QED
      BY <3>1, <3>4
  <2> QED
    BY <2>5, <2>6
<1>14. CASE ~refused
  <2>1. /\ disk' = With(e, f) /\ stream' = more /\ Pop(p) /\ level' = level
    BY <1>0, <1>11, <1>12, <1>14
  <2>2. phase' \in {"des", "astray"}
    BY <1>0, <1>a, <2>1, PopFacts
  <2> SUFFICES ASSUME phase' = "des"
               PROVE  Sync'
    BY <2>2
  <2>3. path' = path_pop(p) /\ Steps(path_pop(p).at) = Front(Steps(p.at))
    BY <1>0, <1>a, <2>1, PopFacts
  <2>4. Steps(path'.at) = Steps(base) \o d
    <3>1. e \in Seq(Names) /\ e # <<>> /\ Front(e) = d
      <4> DEFINE n == Last(e)
      <4>1. e = Append(d, n) /\ n \in Names
        BY <1>8
      <4> HIDE DEF n
      <4>2. Front(Append(d, n)) = d
        BY <1>9, <4>1, AppendFacts
      <4> QED
        BY <1>8, <4>1, <4>2, TreeFacts
    <3>2. Front(Steps(base) \o e) = Steps(base) \o d
      BY <3>1, PathShrunk
    <3> QED
      BY <1>12, <2>3, <3>2
  <2>5. stream' = rest[k + 1] /\ level' = Len(at[k + 1]) /\ Steps(path'.at) = Steps(base) \o at[k + 1]
    BY <1>8, <1>9, <2>1, <2>4 DEF more
  <2>6. disk' = Copied(Seen(q, k + 1))
    BY <1>12, <2>1
  <2> QED
    BY <1>0, <1>4, <1>5, <2>5, <2>6, SyncNext
<1> QED
  BY <1>13, <1>14

(* What is behind the first two records. *)
LEMMA SkipTwo ==
  ASSUME NEW a \in Records, NEW b \in Records, a.len = 16, b.len = 16,
         NEW w \in Seq(Records)
  PROVE  Skip(<<a>> \o (<<b>> \o w), 32) = w
<1> DEFINE t == <<b>> \o w
           s == <<a>> \o t
<1>1. t \in Seq(Records) /\ t # <<>> /\ t[1] = b /\ Tail(t) = w
  BY ONLY b \in Records, w \in Seq(Records), OneRecord
<1> HIDE DEF t
<1>2. s \in Seq(Records) /\ s # <<>> /\ s[1] = a /\ Tail(s) = t
  BY ONLY <1>1, a \in Records, OneRecord
<1> HIDE DEF s
<1>3. Skip(s, 16 + 16) = Skip(t, 16)
  BY <1>2, SkipRecord
<1>4. Skip(t, 16 + 0) = Skip(w, 0)
  BY <1>1, SkipRecord
<1>5. Skip(w, 0) = w
  BY SkipNothing
<1>6. 16 + 16 = 32 /\ 16 + 0 = 16
  OBVIOUS
<1> QED
  BY <1>3, <1>4, <1>5, <1>6 DEF s, t

LEMMA EndOfTransmissionCopy ==
  ASSUME TypeInv, StackInv, SerInv, EndOfTransmission
  PROVE  SerInv' /\ CopyInv'
<1>0. /\ phase = "ser" /\ Top.left = {} /\ Len(stack) = 1
      /\ phase' = "des" /\ base' \in Bases /\ path' = path_init(base')
      /\ stream' = Skip(stream \o Plain("eod") \o Plain("eot"), 32)
      /\ level' = level /\ disk' = disk
      /\ UNCHANGED <<tree, there, clobber>>
  BY DEF EndOfTransmission
<1>1. PICK q, at, rest :
        /\ Text(q, at, rest, <<>>)
        /\ stream = (Plain("sot") \o Plain("sod")) \o Whole(rest)
        /\ Here(q, at) = Top.dir
        /\ Covered(stack, Entered(q))
  BY <1>0 DEF SerInv, Written
<1>2. Entered(q) = DOMAIN tree
  BY <1>0, <1>1, AllCovered
<1>3. Here(q, at) = <<>> /\ level = 0
  <2>1. Len(Top.dir) = 0 /\ Top.dir \in Seq(Names)
    <3>1. StackOK(stack) /\ level = 0 /\ Top = stack[1]
      BY <1>0, TopFacts DEF StackInv
    <3>2. 1 \in 1..Len(stack) /\ 1 - 1 = 0
      BY <1>0
    <3>3. stack[1] \in Levels /\ Len(stack[1].dir) = 1 - 1
      BY <3>1, <3>2 DEF StackOK
    <3> QED
      BY <3>1, <3>2, <3>3 DEF Levels
  <2>2. Top.dir = <<>>
    BY <2>1
  <2> QED
    BY <1>0, <1>1, <2>2 DEF StackInv
<1>4. Ends \in Seq(Records)
  <2>1. Plain("eod") \in Seq(Records) /\ Plain("eot") \in Seq(Records)
    BY RecordTypes
  <2> QED
    BY <2>1 DEF Ends
<1>5. PICK more : Text(q, at, more, Ends) /\ Whole(more) = Whole(rest) \o Ends
  BY <1>1, <1>4, TextBehind
<1>6. Len(q) \in Nat /\ at[1] = <<>> /\ Whole(more) \in Seq(Records) /\ Whole(rest) \in Seq(Records)
  <2>1. Len(q) \in Nat /\ 1 \in 1..Len(q) + 1
    BY <1>1 DEF Text
  <2> QED
    BY <1>1, <1>5, <2>1 DEF Text, Whole
<1>7. stream' = Whole(more)
  <2> DEFINE a == Record("sot", 16, Blank)
             b == Record("sod", 16, Blank)
             c == Plain("eod")
             d == Plain("eot")
             w == Whole(rest)
  <2>1. a \in Records /\ b \in Records /\ a.len = 16 /\ b.len = 16
    BY DEF Record, Records
  <2>2. Plain("sot") = <<a>> /\ Plain("sod") = <<b>>
    BY DEF Plain
  <2>3. c \in Seq(Records) /\ d \in Seq(Records) /\ Ends = c \o d
    BY RecordTypes DEF Ends
  <2>4. stream = (<<a>> \o <<b>>) \o w /\ stream' = Skip((stream \o c) \o d, 32)
    BY <1>0, <1>1, <2>2
  <2>5. w \in Seq(Records) /\ Whole(more) = w \o Ends
    BY <1>5, <1>6
  <2> HIDE DEF a, b, c, d, w
  <2>6. <<a>> \in Seq(Records) /\ <<b>> \in Seq(Records) /\ <<a>> \o <<b>> \in Seq(Records)
    BY <2>1
  <2>7. stream \in Seq(Records)
    BY DEF TypeInv
  <2>8. (stream \o c) \o d = stream \o Ends
    BY ONLY <2>3, <2>7, Joined
  <2>9. stream \o Ends = (<<a>> \o <<b>>) \o (w \o Ends)
    BY ONLY <1>4, <2>4, <2>5, <2>6, Joined
  <2>10. (<<a>> \o <<b>>) \o (w \o Ends) = <<a>> \o (<<b>> \o (w \o Ends))
    <3> DEFINE x == w \o Ends
    <3>1. x \in Seq(Records)
      BY <1>4, <2>5
    <3> HIDE DEF x
    <3>2. (<<a>> \o <<b>>) \o x = <<a>> \o (<<b>> \o x)
      BY ONLY <2>6, <3>1, Joined
    <3> QED
      BY <3>2 DEF x
  <2>11. Skip(<<a>> \o (<<b>> \o Whole(more)), 32) = Whole(more)
    BY <1>6, <2>1, SkipTwo
  <2> QED
    BY <2>4, <2>5, <2>8, <2>9, <2>10, <2>11
<1>8. Text(q, at, more, Ends)'
  BY <1>0, <1>5, SameText
<1>9. Steps(path'.at) = Steps(base') \o <<>>
  <2>1. Steps(base') \in Seq(Names)
    BY <1>0, TransplantAssumption, StepsAppend
  <2>2. path'.at = base'
    BY <1>0 DEF path_init
  <2>3. Steps(base') = Steps(base') \o <<>>
    BY <2>1, ConcatFacts
  <2> QED
    BY <2>2, <2>3
<1>10. disk' = Copied(Seen(q, 1))'
  <2>1. Seen(q, 1) = {}
    BY DEF Seen
  <2>2. Copied({}) = Begun
    BY DEF Copied, Begun
  <2>3. Copied(Seen(q, 1))' = Copied(Seen(q, 1))
    BY <1>0, SameCopied DEF Seen
  <2>4. disk = Begun
    BY <1>0 DEF SerInv
  <2> QED
    BY <1>0, <2>1, <2>2, <2>3, <2>4
<1>11. SyncAt(q, at, more, 1)'
  <2> DEFINE m == 1
  <2>1. m \in 1..Len(q) + 1 /\ stream' = more[m]
    BY <1>6, <1>7 DEF Whole
  <2>2. at[m] = <<>> /\ level' = Len(at[m]) /\ Steps(path'.at) = Steps(base') \o at[m]
    BY <1>0, <1>3, <1>6, <1>9
  <2>3. disk' = Copied(Seen(q, m))'
    BY <1>10
  <2>4. Entered(q)' = DOMAIN tree' /\ Here(q, at)' = <<>>
    BY <1>0, <1>2, <1>3 DEF Entered, Seen, Here
  <2> HIDE DEF m
  <2>5. SyncAt(q, at, more, m)'
    BY <1>8, <2>1, <2>2, <2>3, <2>4 DEF SyncAt, Entered, Here, Ends, Seen, Steps
  <2> QED
    BY <2>5 DEF m
<1>12. Sync'
  <2>1. 1 \in Nat
    OBVIOUS
  <2> QED
    BY <1>11, <2>1 DEF Sync
<1>13. SerInv'
  BY <1>0 DEF SerInv
<1> QED
  BY <1>0, <1>12, <1>13 DEF CopyInv

-----------------------------------------------------------------------------
(* The copy as an invariant. *)
LEMMA InitCopy ==
  ASSUME Init
  PROVE  CopyInv
BY DEF Init, CopyInv

(* The serializer's steps do not reach the end. *)
LEMMA StillWriting ==
  ASSUME phase' \in {"ser", "astray", "overrun"}
  PROVE  CopyInv'
BY DEF CopyInv

LEMMA NothingWritten ==
  ASSUME SerInv, phase # "ser", UNCHANGED <<tree, there>>, phase' # "ser"
  PROVE  SerInv'
BY DEF SerInv

LEMMA SameCopy ==
  ASSUME SerInv, CopyInv, UNCHANGED vars
  PROVE  SerInv' /\ CopyInv'
<1>1. UNCHANGED <<base, tree, there, clobber, disk, phase, path, stack, level, stream>>
  BY DEF vars
<1>2. SerInv'
  <2>1. Written => Written'
    <3> SUFFICES ASSUME Written
                 PROVE  Written'
      OBVIOUS
    <3>1. PICK q, at, rest :
            /\ Text(q, at, rest, <<>>)
            /\ stream = (Plain("sot") \o Plain("sod")) \o Whole(rest)
            /\ Here(q, at) = Top.dir
            /\ Covered(stack, Entered(q))
      BY DEF Written
    <3>2. Text(q, at, rest, <<>>)'
      BY <1>1, <3>1, SameText
    <3>3. (stream = (Plain("sot") \o Plain("sod")) \o Whole(rest))'
      BY <1>1, <3>1 DEF Whole, Plain, Record
    <3>4. (Here(q, at) = Top.dir)'
      BY <1>1, <3>1 DEF Here, Top
    <3>5. Covered(stack, Entered(q))'
      BY <1>1, <3>1 DEF Covered, Due, Entered, Seen
    <3> QED
      BY <3>2, <3>3, <3>4, <3>5 DEF Written
  <2> QED
    BY <1>1, <2>1 DEF SerInv, Begun, ToThere
<1>3. CopyInv'
  <2>1. Sync => Sync'
    <3> SUFFICES ASSUME Sync
                 PROVE  Sync'
      OBVIOUS
    <3>1. PICK q, at, rest : \E k \in Nat : SyncAt(q, at, rest, k)
      BY DEF Sync
    <3>2. PICK k \in Nat : SyncAt(q, at, rest, k)
      BY <3>1
    <3>3. Text(q, at, rest, Ends)'
      BY <1>1, <3>2, SameText DEF SyncAt
    <3>4. /\ k \in 1..Len(q) + 1 /\ Entered(q) = DOMAIN tree' /\ Here(q, at) = <<>>
          /\ stream' = rest[k] /\ level' = Len(at[k])
          /\ Steps(path'.at) = Steps(base') \o at[k]
      BY <1>1, <3>2 DEF SyncAt
    <3>5. disk' = Copied(Seen(q, k))'
      <4> DEFINE S == Seen(q, k)
      <4>1. Seen(q, k)' = S
        BY DEF Seen
      <4>2. disk = Copied(S)
        BY <3>2 DEF SyncAt
      <4> HIDE DEF S
      <4>3. Copied(S)' = Copied(S)
        BY <1>1, SameCopied, Zenon
      <4> QED
        BY <1>1, <4>1, <4>2, <4>3 DEF Copied, ToThere, S
    <3>6. SyncAt(q, at, rest, k)'
      BY <3>3, <3>4, <3>5, Zenon DEF SyncAt, Entered, Here, Ends, Seen, Steps
    <3> QED
      BY <3>6 DEF Sync
  <2>2. /\ Promised' <=> Promised
        /\ Nested' <=> Nested
        /\ InTheWay' <=> InTheWay
    BY <1>1, SamePromise
  <2>3. Lost => Lost'
    BY <1>1, <2>2 DEF Lost
  <2> QED
    BY <1>1, <2>1, <2>2, <2>3 DEF CopyInv
<1> QED
  BY <1>2, <1>3

LEMMA NextCopy ==
  ASSUME TypeInv, StackInv, SerInv, CopyInv, Next
  PROVE  SerInv' /\ CopyInv'
<1>1. ASSUME NEW n \in Names, SerializeDirectory(n)
      PROVE  SerInv' /\ CopyInv'
  <2>1. phase' = "ser"
    BY <1>1 DEF SerializeDirectory
  <2> QED
    BY <1>1, <2>1, SerializeDirectoryText, StillWriting
<1>2. ASSUME NEW n \in Names, SerializeFile(n)
      PROVE  SerInv' /\ CopyInv'
  <2>1. phase' \in {"ser", "astray"}
    BY <1>2 DEF SerializeFile, Pop
  <2> QED
    BY <1>2, <2>1, SerializeFileText, StillWriting
<1>2a. ASSUME NEW n \in Names, PushTooLong(n)
       PROVE  SerInv' /\ CopyInv'
  BY <1>2a, StillWriting DEF PushTooLong, SerInv
<1>3. CASE EndOfDirectory
  <2>1. phase' \in {"ser", "astray"}
    BY <1>3 DEF EndOfDirectory, Pop
  <2> QED
    BY <1>3, <2>1, EndOfDirectoryText, StillWriting
<1>4. CASE EndOfTransmission
  BY <1>4, EndOfTransmissionCopy
<1>5. CASE BadMagic
  <2>1. SerInv'
    BY <1>5, NothingWritten DEF BadMagic, Error, Pop
  <2> QED
    BY <1>5, <2>1, BadMagicCopy
<1>5a. CASE Misread
  <2>1. SerInv'
    BY <1>5a, NothingWritten DEF Misread
  <2> QED
    BY <1>5a, <2>1, MisreadCopy
<1>6. CASE WrongRecord
  <2>1. SerInv'
    BY <1>6, NothingWritten DEF WrongRecord
  <2> QED
    BY <1>6, <2>1, WrongRecordCopy
<1>7. CASE Finish
  <2>1. SerInv'
    BY <1>7, NothingWritten DEF Finish
  <2> QED
    BY <1>7, <2>1, FinishCopy
<1>8. CASE LeaveDirectory
  <2>1. SerInv'
    BY <1>8, NothingWritten DEF LeaveDirectory, Pop
  <2> QED
    BY <1>8, <2>1, LeaveDirectoryCopy
<1>9. CASE EnterDirectory
  <2>1. SerInv'
    BY <1>9, NothingWritten DEF EnterDirectory
  <2> QED
    BY <1>9, <2>1, EnterDirectoryCopy
<1>10. CASE MakeFile
  <2>1. SerInv'
    <3>1. phase' # "ser" /\ phase = "des"
      BY <1>10 DEF MakeFile, Error, Pop
    <3>2. UNCHANGED <<tree, there>>
      BY <1>10 DEF MakeFile
    <3> QED
      BY <3>1, <3>2, NothingWritten
  <2> QED
    BY <1>10, <2>1, MakeFileCopy
<1>10a. CASE ConcatTooLong
  <2>1. SerInv'
    BY <1>10a, NothingWritten DEF ConcatTooLong
  <2> QED
    BY <1>10a, <2>1, StillWriting DEF ConcatTooLong
<1>11. CASE Ended
  BY <1>11, SameCopy DEF Ended
<1> QED
  BY <1>1, <1>2, <1>2a, <1>5a, <1>10a, <1>3, <1>4, <1>5, <1>6, <1>7, <1>8, <1>9, <1>10, <1>11 DEF Next

(* For every tree, base and order in which readdir yields the entries: the   *)
(* deserializer is at an item of the text the serializer wrote and has made  *)
(* exactly the entries before it, or it is lost for a reason that is named.  *)
THEOREM CopyInvariance == Spec => [](SerInv /\ CopyInv)
<1>1. Init => SerInv /\ CopyInv
  BY InitShape, InitText, InitCopy
<1>2. /\ TypeInv /\ StackInv /\ PathInv /\ SerInv /\ CopyInv /\ [Next]_vars
      => SerInv' /\ CopyInv'
  BY NextCopy, SameCopy
<1> QED
  BY <1>1, <1>2, Invariance, PTL DEF Spec

(* The deserializer fails, or runs away, only on a tree with a directory     *)
(* inside a directory, with a file cut short, or with a file in the way.     *)
THEOREM FailsForAReason == Spec => []RoundTrip
<1>1. CopyInv => RoundTrip
  <2>1. ~Promised => Truncated \/ InTheWay
    BY DEF Promised
  <2> QED
    BY <2>1 DEF CopyInv, RoundTrip
<1> QED
  BY <1>1, CopyInvariance, PTL

(* When the deserializer reports success the copy is complete, except after  *)
(* a file cut short and after a file in the way inside a directory that is   *)
(* empty or begins with the magic sequence.                                  *)
THEOREM SuccessMeansComplete == Spec => []SuccessIsComplete
<1>1. CopyInv => SuccessIsComplete
  BY DEF CopyInv, Promised, SuccessIsComplete
<1> QED
  BY <1>1, CopyInvariance, PTL

-----------------------------------------------------------------------------
(* The end of the buffer: the path of the serializer is that of an entry,   *)
(* and so is the deserializer's as long as it has not lost its place.       *)
Room == \A p \in DOMAIN tree : InBuffer(base \o p)
Disturbed == Nested \/ Truncated \/ InTheWay

OverInv ==
  /\ phase = "des" => stack = <<>>
  /\ phase = "overrun" => ~Fits \/ ~Room \/ (stack = <<>> /\ Disturbed)

(* No name of an entry is what stands between two slashes. *)
LEMMA StepsBelow ==
  ASSUME TypeInv, NEW d \in Seq(TreeNames)
  PROVE  Steps(base \o d) = Steps(base) \o d
<1> DEFINE b == Steps(base)
           Right(c) == Steps(base \o c) = b \o c
           right == {k \in 0..Len(d) : \A c \in Seq(TreeNames) : Len(c) = k => Right(c)}
<1>1. base \in Seq(Names) /\ b \in Seq(Names)
  BY TreeFacts, StepsAppend
<1>2. TreeNames \subseteq Names /\ Blank \notin TreeNames
  BY TreeFacts DEF TreeNames
<1>3. Len(d) \in Nat
  OBVIOUS
<1> HIDE DEF b
<1>4. 0 \in right
  <2>1. ASSUME NEW c \in Seq(TreeNames), Len(c) = 0
        PROVE  Right(c)
    <3>1. c = <<>>
      BY <2>1
    <3>2. base \o <<>> = base /\ b \o <<>> = b
      BY <1>1
    <3> QED
      BY <3>1, <3>2 DEF b
  <2> HIDE DEF Right
  <2> QED
    BY <1>3, <2>1
<1>5. ASSUME NEW k \in 1..Len(d), k - 1 \in right
      PROVE  k \in right
  <2>1. ASSUME NEW c \in Seq(TreeNames), Len(c) = k
        PROVE  Right(c)
    <3> DEFINE f == Front(c)
               n == Last(c)
    <3>1. c # <<>>
      BY <1>3, <2>1
    <3>2. f \in Seq(TreeNames) /\ n \in TreeNames /\ c = Append(f, n) /\ Len(f) = k - 1
      BY <2>1, <3>1, FrontLast
    <3> HIDE DEF f, n
    <3>3. Right(f)
      <4> HIDE DEF Right
      <4> QED
        BY <1>5, <3>2
    <3>4. f \in Seq(Names) /\ n \in Names /\ n # Blank
      BY <1>2, <3>2
    <3>5. base \o c = Append(base \o f, n) /\ base \o f \in Seq(Names)
      BY <1>1, <3>2, <3>4, ConcatFacts
    <3>6. b \o c = Append(b \o f, n)
      BY <1>1, <3>2, <3>4, ConcatFacts
    <3>7. Steps(Append(base \o f, n)) = Append(Steps(base \o f), n)
      BY <3>4, <3>5, StepsAppend
    <3> QED
      BY <3>3, <3>5, <3>6, <3>7
  <2> HIDE DEF Right
  <2> QED
    BY <1>5, <2>1
<1>6. Len(d) \in right
  <2>1. 0..Len(d) \subseteq right
    <3> HIDE DEF right
    <3> QED
      BY <1>3, <1>4, <1>5, Ascent
  <2> HIDE DEF right
  <2> QED
    BY <1>3, <2>1
<1>7. Right(d)
  BY <1>6
<1> QED
  BY <1>7 DEF b

(* What stands behind the same path is the same. *)
LEMMA SameEnd ==
  ASSUME NEW S, NEW b \in Seq(S), NEW c \in Seq(S), NEW d \in Seq(S), b \o c = b \o d
  PROVE  c = d
<1> DEFINE m == Len(b)
<1>1. Len(c) = Len(d) /\ Len(c) \in Nat /\ m \in Nat
  <2>1. Len(b \o c) = m + Len(c) /\ Len(b \o d) = m + Len(d)
    OBVIOUS
  <2> QED
    BY <2>1
<1>2. \A i \in 1..Len(c) : (b \o c)[m + i] = c[i] /\ (b \o d)[m + i] = d[i]
  BY <1>1
<1>3. \A i \in 1..Len(c) : c[i] = d[i]
  BY <1>2
<1> QED
  BY <1>1, <1>3

LEMMA PushOver ==
  ASSUME TypeInv, StackInv, PathInv, NEW n \in Names, PushTooLong(n)
  PROVE  OverInv'
<1> DEFINE c == Top.dir
           d == Append(c, n)
<1>0. /\ phase = "ser" /\ n \in Top.left /\ ~Pushed(path, n) /\ phase' = "overrun"
      /\ UNCHANGED <<base, tree>>
  BY DEF PushTooLong
<1>1. SUFFICES ASSUME Fits
               PROVE  ~InBuffer(base \o d) /\ d \in DOMAIN tree
  <2>1. (Fits' <=> Fits) /\ (Room' <=> Room)
    BY <1>0, SameFits DEF Room, InBuffer
  <2> HIDE DEF d
  <2> QED
    BY <1>0, <2>1 DEF OverInv, Room
<1>2. c \in Seq(Names) /\ d \in DOMAIN tree /\ n \in Names
  BY <1>0, TopFacts, ChildFacts
<1>3. path.at = base \o c /\ path.len \in End(path.at) - (Len(c) + 1)..End(path.at)
  BY <1>0, <1>1 DEF PathInv
<1>4. base \in Seq(Names) /\ path.at \in Seq(Names) /\ path.len \in Int
  BY TreeFacts DEF TypeInv, PathBufs
<1>5. base \o d = Append(path.at, n)
  BY SMTT(30), <1>2, <1>3, <1>4, ConcatFacts
<1>6. /\ End(path.at) \in Int /\ Length[n] \in Nat
      /\ End(base \o d) = End(path.at) + Length[n] + 1
  BY <1>2, <1>4, <1>5, EndAppend
<1>7. Len(c) \in Nat /\ PATH_MAX \in Nat
  BY <1>2, TransplantAssumption
<1> HIDE DEF c, d
<1>8. path.len <= End(path.at)
  BY <1>3, <1>4, <1>6, <1>7
<1>9. CASE path.len + Length[n] < PATH_MAX
  <2>1. path_push(path, n).at = base \o d
    BY <1>4, <1>5, <1>6, <1>7, <1>9 DEF path_push
  <2> QED
    BY <1>0, <1>2, <1>9, <2>1 DEF Pushed
<1>10. CASE ~(path.len + Length[n] < PATH_MAX)
  <2>1. ~(End(base \o d) < PATH_MAX)
    BY <1>4, <1>6, <1>7, <1>8, <1>10
  <2> QED
    BY <1>2, <2>1 DEF InBuffer, End
<1> QED
  BY <1>9, <1>10

LEMMA ConcatOver ==
  ASSUME TypeInv, PathInv, CopyInv, OverInv, ConcatTooLong
  PROVE  OverInv'
<1>0. /\ phase = "des" /\ Is(1, {"entry"}) /\ ~InBuffer(Into(path).at) /\ phase' = "overrun"
      /\ UNCHANGED <<base, tree, there, clobber, stack>>
  BY DEF ConcatTooLong
<1>1. SUFFICES ASSUME Fits, Room, ~Disturbed
               PROVE  FALSE
  <2>1. (Fits' <=> Fits) /\ (Room' <=> Room)
    BY <1>0, SameFits DEF Room, InBuffer
  <2>2. Disturbed' <=> Disturbed
    <3>1. Truncated' <=> Truncated
      BY <1>0 DEF Truncated
    <3> QED
      BY <1>0, <3>1, SamePromise DEF Disturbed
  <2>3. stack' = <<>>
    BY <1>0 DEF OverInv
  <2> QED
    BY <1>0, <2>1, <2>2, <2>3 DEF OverInv
<1>2. Sync
  BY <1>0, <1>1 DEF CopyInv, Promised, Lost, Disturbed
<1>3. PICK q, at, rest : \E k \in Nat : SyncAt(q, at, rest, k)
  BY <1>2 DEF Sync
<1>4. PICK k \in Nat : SyncAt(q, at, rest, k)
  BY <1>3
<1>5. k <= Len(q)
  BY <1>0, <1>4, AtTheEnd DEF Is
<1>6. q[k] # <<>>
  <2> SUFFICES ASSUME q[k] = <<>>
               PROVE  FALSE
    OBVIOUS
  <2>1. EodAt(q, at, rest, k)
    BY <1>4, <1>5, AtEndOfDirectory
  <2> QED
    BY <1>0, <2>1 DEF EodAt, Is
<1> DEFINE e == q[k]
           c == at[k]
           n == stream[1].name
<1>7. EntryAt(q, at, rest, k) /\ ItemAt(q, at, rest, k)
  BY <1>4, <1>5, <1>6, AtEntry, ItemFacts
<1>8. e \in DOMAIN tree /\ e = Append(c, n) /\ n \in Names /\ c \in Seq(Names)
  BY <1>7 DEF EntryAt, ItemAt
<1>9. PICK d \in Seq(TreeNames) : path.at = base \o d
  BY <1>0, <1>1 DEF PathInv
<1>10. Steps(base) \o d = Steps(base) \o c
  BY <1>4, <1>9, StepsBelow DEF SyncAt
<1>11. /\ d \in Seq(Names) /\ base \in Seq(Names) /\ Steps(base) \in Seq(Names)
       /\ Into(path).at = Append(path.at, n)
  <2>1. TreeNames \subseteq Names
    BY TreeFacts
  <2>2. base \in Seq(Names) /\ d \in Seq(Names)
    BY <2>1, TreeFacts
  <2> QED
    BY <1>0, <2>2, StepsAppend, HeadFacts, <1>8
<1> HIDE DEF e, c, n
<1>12. d = c
  BY ONLY <1>8, <1>10, <1>11, SameEnd
<1>13. Into(path).at = base \o e
  BY SMTT(30), <1>8, <1>9, <1>11, <1>12, ConcatFacts
<1> QED
  BY <1>0, <1>1, <1>8, <1>13 DEF Room

(* Every other step keeps the deserializer without a stack, and in the buffer. *)
LEMMA OtherOver ==
  ASSUME OverInv, phase' # "overrun", phase' = "des" => phase = "des" /\ UNCHANGED stack
  PROVE  OverInv'
BY DEF OverInv

LEMMA SameOver ==
  ASSUME OverInv, UNCHANGED vars
  PROVE  OverInv'
<1>1. UNCHANGED <<base, tree, there, clobber, phase, stack>>
  BY DEF vars
<1>2. (Fits' <=> Fits) /\ (Room' <=> Room) /\ (Truncated' <=> Truncated)
  BY <1>1, SameFits DEF Room, InBuffer, Truncated
<1>3. Disturbed' <=> Disturbed
  BY <1>1, <1>2, SamePromise DEF Disturbed
<1> QED
  BY <1>1, <1>2, <1>3 DEF OverInv

LEMMA NextOver ==
  ASSUME TypeInv, StackInv, PathInv, CopyInv, OverInv, Next
  PROVE  OverInv'
<1>0. \A p : Pop(p) => phase' \in {phase, "astray"}
  BY DEF Pop
<1>1. ASSUME NEW n \in Names, SerializeDirectory(n) \/ SerializeFile(n)
      PROVE  OverInv'
  BY <1>0, <1>1, OtherOver DEF SerializeDirectory, SerializeFile
<1>2. ASSUME NEW n \in Names, PushTooLong(n)
      PROVE  OverInv'
  BY <1>2, PushOver
<1>3. CASE EndOfDirectory
  BY <1>0, <1>3, OtherOver DEF EndOfDirectory
<1>4. CASE EndOfTransmission
  BY <1>4 DEF EndOfTransmission, OverInv
<1>a. \A p, rest : phase = "des" /\ Error(p, rest) => phase' \in {"des", "astray", "failed"}
  BY <1>0 DEF Error
<1>5. CASE BadMagic
  BY <1>a, <1>5, OtherOver DEF BadMagic
<1>6. CASE Misread \/ WrongRecord \/ Finish
  BY <1>6, OtherOver DEF Misread, WrongRecord, Finish
<1>7. CASE LeaveDirectory
  BY <1>0, <1>7, OtherOver DEF LeaveDirectory
<1>8. CASE EnterDirectory
  BY <1>8, OtherOver DEF EnterDirectory
<1>9. CASE MakeFile
  <2>1. phase = "des" /\ UNCHANGED stack /\ phase' \in {"des", "astray", "failed"}
    BY <1>0, <1>a, <1>9 DEF MakeFile
  <2> QED
    BY <2>1, OtherOver
<1>10. CASE ConcatTooLong
  BY <1>10, ConcatOver
<1>11. CASE Ended
  BY <1>11, SameOver DEF Ended
<1> QED
  BY <1>1, <1>2, <1>3, <1>4, <1>5, <1>6, <1>7, <1>8, <1>9, <1>10, <1>11 DEF Next

(* path_buf names the entry in work throughout, for every tree in which each *)
(* name is longer than its depth and every base of three characters or more; *)
(* it is too small only for an entry whose own path is too long, or after an *)
(* error the deserializer has dropped.                                       *)
THEOREM PathStaysRight == Spec => []PathsFollow
<1>1. Init => OverInv
  BY DEF Init, OverInv
<1>2. /\ TypeInv /\ StackInv /\ PathInv /\ CopyInv /\ OverInv /\ [Next]_vars
      => OverInv'
  BY NextOver, SameOver
<1>3. TypeInv /\ PathInv /\ OverInv => PathsFollow
  <2> SUFFICES ASSUME TypeInv, PathInv, OverInv
               PROVE  PathsFollow
    OBVIOUS
  <2>1. ~Fits => Crossed
    <3>1. End(base) \in Int
      BY TreeFacts, EndType
    <3>2. ASSUME NEW p \in DOMAIN tree
          PROVE  Length[Last(p)] \in Nat /\ Len(p) \in Nat
      <4>1. p \in Seq(Names) /\ p # <<>>
        BY TreeFacts
      <4> QED
        BY <4>1, FrontLast, TransplantAssumption
    <3> QED
      BY <3>1, <3>2 DEF Fits, End, Crossed
  <2>2. ~Room => TooLong
    BY DEF Room, TooLong
  <2> QED
    BY <2>1, <2>2 DEF PathInv, OverInv, Disturbed, PathsFollow
<1> QED
  BY <1>1, <1>2, <1>3, Invariance, CopyInvariance, PTL DEF Spec

=============================================================================
