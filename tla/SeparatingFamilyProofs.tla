------------------------ MODULE SeparatingFamilyProofs ------------------------
(***************************************************************************)
(* What the decision tree of Lee and Yannakakis guarantees for every       *)
(* machine, whether or not the splitting tree is complete; and that the    *)
(* family of suffixes, which main makes of it and of the tree of pairwise  *)
(* separating words, is harmonised.                                        *)
(***************************************************************************)
EXTENDS SeparatingFamily, SplittingTreeProofs

-----------------------------------------------------------------------------
(* Sorting.                                                                *)

(* R orders S, and q lists S in this order.                                *)
Orders(R, S) ==
  /\ \A x, y \in S : x # y => <<x, y>> \in R \/ <<y, x>> \in R
  /\ \A x \in S : <<x, x>> \notin R
  /\ \A x, y, z \in S : <<x, y>> \in R /\ <<y, z>> \in R => <<x, z>> \in R

Lists(q, S, R) ==
  /\ q \in [1 .. Cardinality(S) -> S]
  /\ \A i, j \in DOMAIN q : i < j => <<q[i], q[j]>> \in R

(* A finite set that is not empty has a greatest member.                   *)
LEMMA GreatestExists ==
  ASSUME NEW S, NEW R, Orders(R, S), IsFiniteSet(S), S # {}
  PROVE  \E x \in S : \A y \in S : y # x => <<y, x>> \in R
<1> DEFINE K == {n \in Nat : \A T \in SUBSET S :
                   IsFiniteSet(T) /\ Cardinality(T) = n + 1 =>
                     \E x \in T : \A y \in T : y # x => <<y, x>> \in R}
<1>1. 0 \in K
  <2> SUFFICES ASSUME NEW T \in SUBSET S, IsFiniteSet(T), Cardinality(T) = 1
               PROVE  \E x \in T : \A y \in T : y # x => <<y, x>> \in R
    OBVIOUS
  <2>1. PICK x \in T : TRUE
    BY FS_EmptySet
  <2>2. IsFiniteSet({x}) /\ Cardinality({x}) = 1
    BY FS_Singleton
  <2>3. {x} = T
    BY <2>2, FS_Subset
  <2> QED
    BY <2>3
<1>2. ASSUME NEW n \in Nat, n \in K PROVE n + 1 \in K
  <2> SUFFICES ASSUME NEW T \in SUBSET S, IsFiniteSet(T),
                      Cardinality(T) = (n + 1) + 1
               PROVE  \E x \in T : \A y \in T : y # x => <<y, x>> \in R
    OBVIOUS
  <2>1. PICK z \in T : TRUE
    BY FS_EmptySet
  <2>2. IsFiniteSet(T \ {z}) /\ Cardinality(T \ {z}) = n + 1
    BY FS_RemoveElement
  <2>3. PICK x \in T \ {z} : \A y \in T \ {z} : y # x => <<y, x>> \in R
    BY <1>2, <2>2
  <2>4. CASE <<z, x>> \in R
    BY <2>3, <2>4
  <2>5. CASE <<x, z>> \in R
    <3>1. ASSUME NEW y \in T, y # z PROVE <<y, z>> \in R
      BY <2>3, <2>5, <3>1 DEF Orders
    <3> QED
      BY <3>1
  <2> QED
    BY <2>3, <2>4, <2>5 DEF Orders
<1> HIDE DEF K
<1>3. \A n \in Nat : n \in K
  BY <1>1, <1>2, NatSetInduction
<1>4. Cardinality(S) - 1 \in Nat /\ Cardinality(S) = (Cardinality(S) - 1) + 1
  BY FS_CardinalityType, FS_EmptySet
<1>5. Cardinality(S) - 1 \in K
  BY <1>3, <1>4
<1> QED
  BY <1>4, <1>5 DEF K

(* A finite set can be listed in order.                                    *)
LEMMA ListExists ==
  ASSUME NEW S, NEW R, Orders(R, S), IsFiniteSet(S)
  PROVE  \E q : Lists(q, S, R)
<1> DEFINE K == {n \in Nat : \A T \in SUBSET S :
                   IsFiniteSet(T) /\ Cardinality(T) = n => \E q : Lists(q, T, R)}
<1>1. 0 \in K
  <2> SUFFICES ASSUME NEW T \in SUBSET S, IsFiniteSet(T), Cardinality(T) = 0
               PROVE  \E q : Lists(q, T, R)
    OBVIOUS
  <2>1. Lists(<<>>, T, R)
    BY DEF Lists
  <2> QED
    BY <2>1
<1>2. ASSUME NEW n \in Nat, n \in K PROVE n + 1 \in K
  <2> SUFFICES ASSUME NEW T \in SUBSET S, IsFiniteSet(T), Cardinality(T) = n + 1
               PROVE  \E q : Lists(q, T, R)
    OBVIOUS
  <2>1. T # {} /\ Orders(R, T)
    BY FS_EmptySet DEF Orders
  <2>2. PICK x \in T : \A y \in T : y # x => <<y, x>> \in R
    BY <2>1, GreatestExists
  <2>3. IsFiniteSet(T \ {x}) /\ Cardinality(T \ {x}) = n
    <3>1. IsFiniteSet(T \ {x}) /\ Cardinality(T \ {x}) = Cardinality(T) - 1
      BY <2>2, FS_RemoveElement
    <3> QED
      BY <3>1
  <2>4. PICK q : Lists(q, T \ {x}, R)
    BY <1>2, <2>3
  <2>5. /\ q \in [1 .. n -> T \ {x}]
        /\ \A i, j \in 1 .. n : i < j => <<q[i], q[j]>> \in R
    BY <2>3, <2>4 DEF Lists
  <2> DEFINE p == [i \in 1 .. n + 1 |-> IF i = n + 1 THEN x ELSE q[i]]
  <2>6. \A i \in 1 .. n + 1 : \/ i = n + 1 /\ p[i] = x
                              \/ i \in 1 .. n /\ p[i] = q[i] /\ p[i] \in T /\ p[i] # x
    BY <2>5
  <2>7. p \in [1 .. n + 1 -> T]
    BY <2>5
  <2> HIDE DEF p
  <2>8. ASSUME NEW i \in 1 .. n + 1, NEW j \in 1 .. n + 1, i < j
        PROVE  <<p[i], p[j]>> \in R
    <3>1. i \in 1 .. n /\ p[i] = q[i] /\ p[i] \in T /\ p[i] # x
      BY <2>6, <2>8
    <3>2. CASE j = n + 1
      BY <2>2, <2>6, <3>1, <3>2
    <3>3. CASE j # n + 1
      BY <2>5, <2>6, <2>8, <3>1, <3>3
    <3> QED
      BY <3>2, <3>3
  <2>9. Lists(p, T, R)
    BY <2>7, <2>8 DEF Lists
  <2> QED
    BY <2>9
<1> HIDE DEF K
<1>3. \A n \in Nat : n \in K
  BY <1>1, <1>2, NatSetInduction
<1>4. Cardinality(S) \in Nat
  BY FS_CardinalityType
<1> QED
  BY <1>3, <1>4 DEF K

(* Such a list has every member once.                                      *)
LEMMA ListsAll ==
  ASSUME NEW S, NEW R, Orders(R, S), IsFiniteSet(S), NEW q, Lists(q, S, R)
  PROVE  /\ q \in Seq(S) /\ Len(q) = Cardinality(S) /\ DOMAIN q = 1 .. Cardinality(S)
         /\ Cardinality(S) \in Nat
         /\ \A x \in S : \E i \in DOMAIN q : q[i] = x
         /\ \A i, j \in DOMAIN q : q[i] = q[j] => i = j
<1>1. Cardinality(S) \in Nat
  BY FS_CardinalityType
<1>2. q \in [1 .. Cardinality(S) -> S] /\ DOMAIN q = 1 .. Cardinality(S)
  BY DEF Lists
<1>3. ASSUME NEW i \in DOMAIN q, NEW j \in DOMAIN q, q[i] = q[j] PROVE i = j
  <2>1. i \in Int /\ j \in Int /\ q[i] \in S
    BY <1>1, <1>2
  <2>2. ~ (i < j) /\ ~ (j < i)
    BY <1>3, <2>1 DEF Lists, Orders
  <2> QED
    BY <2>1, <2>2
<1>4. q \in Injection(1 .. Cardinality(S), S)
  BY <1>2, <1>3 DEF Injection, IsInjective
<1>5. /\ IsFiniteSet(1 .. Cardinality(S))
      /\ Cardinality(1 .. Cardinality(S)) = Cardinality(S)
  BY <1>1, FS_Interval
<1>6. q \in Surjection(1 .. Cardinality(S), S)
  BY <1>4, <1>5, FS_Injection
<1>7. q \in Seq(S) /\ Len(q) = Cardinality(S)
  BY <1>1, <1>2
<1> QED
  BY <1>1, <1>2, <1>3, <1>6, <1>7 DEF Surjection

(* What increasing returns.                                                *)
LEMMA IncreasingLists ==
  ASSUME NEW S \in SUBSET Int, IsFiniteSet(S)
  PROVE  /\ increasing(S) \in Seq(S)
         /\ \A x \in S : \E i \in DOMAIN increasing(S) : increasing(S)[i] = x
         /\ \A i, j \in DOMAIN increasing(S) :
              i < j => increasing(S)[i] < increasing(S)[j]
<1> DEFINE R == {p \in Int \X Int : p[1] < p[2]}
           Right(q) == /\ q \in [1 .. Cardinality(S) -> S]
                       /\ \A i, j \in DOMAIN q : i < j => q[i] < q[j]
           c == CHOOSE q \in [1 .. Cardinality(S) -> S] :
                  \A i, j \in DOMAIN q : i < j => q[i] < q[j]
<1>1. \A x, y \in Int : <<x, y>> \in R <=> x < y
  OBVIOUS
<1> HIDE DEF R
<1>2. Orders(R, S)
  BY <1>1 DEF Orders
<1>3. \A q : Lists(q, S, R) <=> Right(q)
  BY <1>1 DEF Lists
<1>4. \E q : Right(q)
  BY <1>2, <1>3, ListExists
<1>5. Right(c)
  BY <1>4
<1>6. c = increasing(S)
  BY DEF increasing
<1> HIDE DEF c
<1>7. Lists(c, S, R)
  BY <1>3, <1>5
<1>8. c \in Seq(S) /\ \A x \in S : \E i \in DOMAIN c : c[i] = x
  BY <1>2, <1>7, ListsAll
<1> QED
  BY <1>5, <1>6, <1>8

(* What sorting the pairs of a node returns.                               *)
LEMMA SortedLists ==
  ASSUME NEW pairs \in SUBSET (State \X State)
  PROVE  /\ sorted(pairs) \in Seq(pairs)
         /\ Len(sorted(pairs)) = Cardinality(pairs)
         /\ \A p \in pairs : \E i \in DOMAIN sorted(pairs) : sorted(pairs)[i] = p
         /\ \A i, j \in DOMAIN sorted(pairs) :
              i < j => precedes(sorted(pairs)[i], sorted(pairs)[j])
<1> DEFINE R == {r \in (State \X State) \X (State \X State) : precedes(r[1], r[2])}
           Right(q) == /\ q \in [1 .. Cardinality(pairs) -> pairs]
                       /\ \A i, j \in DOMAIN q : i < j => precedes(q[i], q[j])
           c == CHOOSE q \in [1 .. Cardinality(pairs) -> pairs] :
                  \A i, j \in DOMAIN q : i < j => precedes(q[i], q[j])
<1>1. \A p, q \in State \X State : <<p, q>> \in R <=> precedes(p, q)
  OBVIOUS
<1> HIDE DEF R
<1>2. \A p \in State \X State : p = <<p[1], p[2]>> /\ p[1] \in Int /\ p[2] \in Int
  BY SizesAssumption DEF State
<1>3. Orders(R, pairs)
  <2>1. \A p, q \in State \X State :
          p # q => precedes(p, q) \/ precedes(q, p)
    BY <1>2 DEF precedes
  <2>2. \A p \in State \X State : ~ precedes(p, p)
    BY <1>2 DEF precedes
  <2>3. \A p, q, r \in State \X State :
          precedes(p, q) /\ precedes(q, r) => precedes(p, r)
    BY <1>2 DEF precedes
  <2> HIDE DEF R
  <2> QED
    BY <1>1, <2>1, <2>2, <2>3 DEF Orders
<1>4. \A q : Lists(q, pairs, R) <=> Right(q)
  BY <1>1 DEF Lists
<1>5. IsFiniteSet(pairs)
  <2>1. IsFiniteSet(State)
    BY SizesAssumption, FS_Interval DEF State
  <2>2. IsFiniteSet(State \X State)
    BY <2>1, FS_Product
  <2> QED
    BY <2>2, FS_Subset
<1>6. \E q : Right(q)
  BY <1>3, <1>4, <1>5, ListExists
<1>7. Right(c)
  BY <1>6
<1>8. c = sorted(pairs)
  BY DEF sorted
<1> HIDE DEF c
<1>9. Lists(c, pairs, R)
  BY <1>4, <1>7
<1>10. /\ c \in Seq(pairs) /\ Len(c) = Cardinality(pairs)
       /\ \A p \in pairs : \E i \in DOMAIN c : c[i] = p
  BY <1>3, <1>5, <1>9, ListsAll
<1> QED
  BY <1>7, <1>8, <1>10

-----------------------------------------------------------------------------
(* The merge.                                                              *)

(* The successors of the pairs from i on whose current state is in c from  *)
(* j on.                                                                   *)
MergedFrom(CI, c, row, i, j) ==
  {<<row[CI[k][1]], CI[k][2]>> : k \in
     {k \in i .. Len(CI) : \E l \in j .. Len(c) : c[l] = CI[k][1]}}

(* One turn of the loop of the merge, of what the later turns return.      *)
MergeTurn(CI, c, row, f, i, j) ==
  IF i > Len(CI) \/ j > Len(c) THEN {}
  ELSE IF CI[i][1] < c[j] THEN f[<<i + 1, j>>]
  ELSE IF CI[i][1] > c[j] THEN f[<<i, j + 1>>]
  ELSE {<<row[CI[i][1]], CI[i][2]>>} \cup f[<<i + 1, j + 1>>]

IsMerge(CI, c, row, f) ==
  f = [at \in (1 .. Len(CI) + 1) \X (1 .. Len(c) + 1) |->
         MergeTurn(CI, c, row, f, at[1], at[2])]

(* Both lists are in order, and so a turn skips nothing that is in both.   *)
LEMMA TurnSkipsNothing ==
  ASSUME NEW CI \in Seq(State \X State), NEW c \in Seq(State), NEW row,
         \A k, l \in DOMAIN CI : k < l => CI[k][1] < CI[l][1],
         \A k, l \in DOMAIN c : k < l => c[k] < c[l],
         NEW i \in 1 .. Len(CI) + 1, NEW j \in 1 .. Len(c) + 1, NEW f,
         i <= Len(CI) /\ j <= Len(c) =>
           /\ f[<<i + 1, j>>] = MergedFrom(CI, c, row, i + 1, j)
           /\ f[<<i, j + 1>>] = MergedFrom(CI, c, row, i, j + 1)
           /\ f[<<i + 1, j + 1>>] = MergedFrom(CI, c, row, i + 1, j + 1)
  PROVE  MergeTurn(CI, c, row, f, i, j) = MergedFrom(CI, c, row, i, j)
<1> DEFINE n == Len(CI)
           m == Len(c)
           pair(k) == <<row[CI[k][1]], CI[k][2]>>
           In(k, x, y) == k \in x .. n /\ \E l \in y .. m : c[l] = CI[k][1]
<1>1. /\ n \in Nat /\ m \in Nat /\ DOMAIN CI = 1 .. n /\ DOMAIN c = 1 .. m
      /\ \A k \in 1 .. n : CI[k][1] \in Int
      /\ \A l \in 1 .. m : c[l] \in Int
  <2>1. \A k \in 1 .. n : CI[k] \in State \X State
    BY LenProperties, ElementOfSeq
  <2>2. \A l \in 1 .. m : c[l] \in State
    BY LenProperties, ElementOfSeq
  <2>3. State \subseteq Int
    BY SizesAssumption DEF State
  <2> QED
    BY <2>1, <2>2, <2>3, LenProperties
<1>2. \A x, y : MergedFrom(CI, c, row, x, y) = {pair(k) : k \in {k \in x .. n : In(k, x, y)}}
  BY DEF MergedFrom
<1>0. /\ \A k, l \in 1 .. n : k < l => CI[k][1] < CI[l][1]
      /\ \A k, l \in 1 .. m : k < l => c[k] < c[l]
  BY <1>1
<1> HIDE DEF pair
<1>3. CASE i > n \/ j > m
  <2>1. \A k \in i .. n : ~ In(k, i, j)
    BY <1>1, <1>3
  <2> QED
    BY <1>2, <1>3, <2>1 DEF MergeTurn
<1>4. CASE i <= n /\ j <= m
  <2>1. i \in 1 .. n /\ j \in 1 .. m
    BY <1>1, <1>4
  <2>0. CI[i][1] \in Int /\ c[j] \in Int
    BY <1>1, <2>1
  <2>2. CASE CI[i][1] < c[j]
    <3>1. \A k : In(k, i, j) <=> In(k, i + 1, j)
      <4>1. \A l \in j .. m : c[l] # CI[i][1]
        <5> SUFFICES ASSUME NEW l \in j .. m PROVE c[l] # CI[i][1]
          OBVIOUS
        <5>1. l \in 1 .. m /\ (l = j \/ j < l)
          BY <1>1, <2>1
        <5>2. c[j] <= c[l] /\ c[l] \in Int /\ c[j] \in Int
          BY <1>0, <1>1, <2>1, <5>1
        <5> QED
          BY <2>0, <2>2, <5>2
      <4>2. \A k : k \in i .. n <=> k = i \/ k \in i + 1 .. n
        BY <1>1, <2>1
      <4> QED
        BY <4>1, <4>2
    <3>2. MergedFrom(CI, c, row, i, j) = MergedFrom(CI, c, row, i + 1, j)
      <4>0. \A k, x, y : In(k, x, y) => k \in x .. n
        OBVIOUS
      <4> HIDE DEF In
      <4>1. {k \in i .. n : In(k, i, j)} = {k \in i + 1 .. n : In(k, i + 1, j)}
        BY <3>1, <4>0
      <4> QED
        BY <1>2, <4>1
    <3> QED
      BY <1>4, <2>2, <3>2 DEF MergeTurn
  <2>3. CASE CI[i][1] > c[j]
    <3>1. \A k : In(k, i, j) <=> In(k, i, j + 1)
      <4>1. \A k \in i .. n : c[j] # CI[k][1]
        <5> SUFFICES ASSUME NEW k \in i .. n PROVE c[j] # CI[k][1]
          OBVIOUS
        <5>1. k \in 1 .. n /\ (k = i \/ i < k)
          BY <1>1, <2>1
        <5>2. CI[i][1] <= CI[k][1] /\ CI[k][1] \in Int
          BY <1>0, <1>1, <2>1, <5>1
        <5> QED
          BY <2>0, <2>3, <5>2
      <4>2. \A l : l \in j .. m <=> l = j \/ l \in j + 1 .. m
        BY <1>1, <2>1
      <4> QED
        BY <4>1, <4>2
    <3>2. MergedFrom(CI, c, row, i, j) = MergedFrom(CI, c, row, i, j + 1)
      <4>0. \A k, x, y : In(k, x, y) => k \in x .. n
        OBVIOUS
      <4> HIDE DEF In
      <4>1. {k \in i .. n : In(k, i, j)} = {k \in i .. n : In(k, i, j + 1)}
        BY <3>1, <4>0
      <4> QED
        BY <1>2, <4>1
    <3>3. ~ (CI[i][1] < c[j])
      BY <2>0, <2>3
    <3> QED
      BY <1>4, <2>3, <3>2, <3>3 DEF MergeTurn
  <2>4. CASE CI[i][1] = c[j]
    <3>1. In(i, i, j)
      BY <1>1, <2>1, <2>4
    <3>2. \A k : k # i => (In(k, i, j) <=> In(k, i + 1, j + 1))
      <4> SUFFICES ASSUME NEW k, k # i
                   PROVE  In(k, i, j) <=> In(k, i + 1, j + 1)
        OBVIOUS
      <4>1. k \in i .. n <=> k \in i + 1 .. n
        BY <1>1, <2>1
      <4>2. \A l : l \in j .. m <=> l = j \/ l \in j + 1 .. m
        BY <1>1, <2>1
      <4>3. ASSUME k \in i + 1 .. n PROVE c[j] # CI[k][1]
        <5>1. k \in 1 .. n /\ i < k
          BY <1>1, <2>1, <4>3
        <5>2. CI[i][1] < CI[k][1] /\ CI[k][1] \in Int
          BY <1>0, <1>1, <2>1, <5>1
        <5> QED
          BY <2>0, <2>4, <5>2
      <4> QED
        BY <4>1, <4>2, <4>3
    <3>3. ~ In(i, i + 1, j + 1)
      BY <1>1, <2>1
    <3>4. MergedFrom(CI, c, row, i, j)
            = {pair(i)} \cup MergedFrom(CI, c, row, i + 1, j + 1)
      <4>1. \A k : In(k, i, j) => k \in i .. n
        OBVIOUS
      <4>2. \A k : In(k, i + 1, j + 1) => k \in i + 1 .. n
        OBVIOUS
      <4> HIDE DEF In
      <4>3. \A p : p \in MergedFrom(CI, c, row, i, j)
                     <=> \E k : In(k, i, j) /\ p = pair(k)
        BY <1>2, <4>1
      <4>4. \A p : p \in MergedFrom(CI, c, row, i + 1, j + 1)
                     <=> \E k : In(k, i + 1, j + 1) /\ p = pair(k)
        BY <1>2, <4>2
      <4> QED
        BY <3>1, <3>2, <3>3, <4>3, <4>4
    <3>5. ~ (CI[i][1] < c[j]) /\ ~ (CI[i][1] > c[j])
      BY <1>1, <2>1, <2>4
    <3> QED
      BY <1>4, <3>4, <3>5 DEF MergeTurn, pair
  <2> QED
    BY <1>1, <2>1, <2>2, <2>3, <2>4
<1> QED
  BY <1>1, <1>3, <1>4

(* The merge finds the successors of all pairs whose current state is in c.*)
LEMMA MergeIsRight ==
  ASSUME NEW CI \in Seq(State \X State), NEW c \in Seq(State), NEW row,
         \A k, l \in DOMAIN CI : k < l => CI[k][1] < CI[l][1],
         \A k, l \in DOMAIN c : k < l => c[k] < c[l]
  PROVE  Merge(CI, c, row) = MergedFrom(CI, c, row, 1, 1)
<1> DEFINE n == Len(CI)
           m == Len(c)
           D == (1 .. n + 1) \X (1 .. m + 1)
           h == [at \in D |-> MergedFrom(CI, c, row, at[1], at[2])]
           join == CHOOSE f : IsMerge(CI, c, row, f)
<1>1. n \in Nat /\ m \in Nat
  BY LenProperties
<1>2. \A i \in 1 .. n + 1, j \in 1 .. m + 1 : h[<<i, j>>] = MergedFrom(CI, c, row, i, j)
  OBVIOUS
<1>3. IsMerge(CI, c, row, h)
  <2>1. ASSUME NEW i \in 1 .. n + 1, NEW j \in 1 .. m + 1
        PROVE  MergeTurn(CI, c, row, h, i, j) = MergedFrom(CI, c, row, i, j)
    <3>1. i <= n /\ j <= m => /\ i + 1 \in 1 .. n + 1 /\ j + 1 \in 1 .. m + 1
      BY <1>1
    <3>2. i <= n /\ j <= m =>
            /\ h[<<i + 1, j>>] = MergedFrom(CI, c, row, i + 1, j)
            /\ h[<<i, j + 1>>] = MergedFrom(CI, c, row, i, j + 1)
            /\ h[<<i + 1, j + 1>>] = MergedFrom(CI, c, row, i + 1, j + 1)
      BY <1>2, <3>1
    <3> HIDE DEF h
    <3> QED
      BY <3>2, TurnSkipsNothing
  <2>2. \A at \in D : MergeTurn(CI, c, row, h, at[1], at[2])
                        = MergedFrom(CI, c, row, at[1], at[2])
    BY <2>1
  <2>3. h = [at \in D |-> MergeTurn(CI, c, row, h, at[1], at[2])]
    BY <2>2 DEF h
  <2> QED
    BY <2>3 DEF IsMerge
<1> HIDE DEF h
<1>4. IsMerge(CI, c, row, join)
  BY <1>3
<1>5. Merge(CI, c, row) = join[<<1, 1>>]
  BY DEF Merge, IsMerge, MergeTurn
<1> HIDE DEF join
<1>6. \A i \in 1 .. n + 1, j \in 1 .. m + 1 :
        join[<<i, j>>] = MergeTurn(CI, c, row, join, i, j)
  BY <1>4 DEF IsMerge
<1> DEFINE K == {k \in Nat : \A i \in 1 .. n + 1, j \in 1 .. m + 1 :
                   (n + 1 - i) + (m + 1 - j) <= k =>
                     join[<<i, j>>] = MergedFrom(CI, c, row, i, j)}
<1>7. 0 \in K
  <2> SUFFICES ASSUME NEW i \in 1 .. n + 1, NEW j \in 1 .. m + 1,
                      (n + 1 - i) + (m + 1 - j) <= 0
               PROVE  join[<<i, j>>] = MergedFrom(CI, c, row, i, j)
    OBVIOUS
  <2>1. ~ (i <= n /\ j <= m)
    BY <1>1
  <2>2. MergeTurn(CI, c, row, join, i, j) = MergedFrom(CI, c, row, i, j)
    BY <2>1, TurnSkipsNothing
  <2> QED
    BY <1>6, <2>2
<1>8. ASSUME NEW k \in Nat, k \in K PROVE k + 1 \in K
  <2> SUFFICES ASSUME NEW i \in 1 .. n + 1, NEW j \in 1 .. m + 1,
                      (n + 1 - i) + (m + 1 - j) <= k + 1
               PROVE  join[<<i, j>>] = MergedFrom(CI, c, row, i, j)
    OBVIOUS
  <2>1. ASSUME i <= n, j <= m
        PROVE  /\ join[<<i + 1, j>>] = MergedFrom(CI, c, row, i + 1, j)
               /\ join[<<i, j + 1>>] = MergedFrom(CI, c, row, i, j + 1)
               /\ join[<<i + 1, j + 1>>] = MergedFrom(CI, c, row, i + 1, j + 1)
    <3>1. /\ i + 1 \in 1 .. n + 1 /\ j + 1 \in 1 .. m + 1
          /\ (n + 1 - (i + 1)) + (m + 1 - j) <= k
          /\ (n + 1 - i) + (m + 1 - (j + 1)) <= k
          /\ (n + 1 - (i + 1)) + (m + 1 - (j + 1)) <= k
      BY <1>1, <2>1
    <3> QED
      BY <1>8, <3>1
  <2>2. MergeTurn(CI, c, row, join, i, j) = MergedFrom(CI, c, row, i, j)
    BY <2>1, TurnSkipsNothing
  <2> QED
    BY <1>6, <2>2
<1> HIDE DEF K
<1>9. \A k \in Nat : k \in K
  BY <1>7, <1>8, NatSetInduction
<1>10. n + m \in Nat /\ 1 \in 1 .. n + 1 /\ 1 \in 1 .. m + 1
       /\ (n + 1 - 1) + (m + 1 - 1) <= n + m
  BY <1>1
<1>11. n + m \in K
  BY <1>9, <1>10
<1>12. join[<<1, 1>>] = MergedFrom(CI, c, row, 1, 1)
  BY <1>10, <1>11 DEF K
<1> QED
  BY <1>5, <1>12

-----------------------------------------------------------------------------
(* Words and branches.                                                     *)

(* q lists the nodes above n, from the root down.                          *)
IsBranch(T, n, q) ==
  /\ q \in Seq(DOMAIN T)
  /\ \A k \in DOMAIN q : T[q[k]].depth = k - 1
  /\ \A m \in DOMAIN T : n \subseteq m /\ m # n <=> \E k \in DOMAIN q : q[k] = m

(* The word along a branch.                                                *)
WordAlong(T, n) ==
  LET above == {m \in DOMAIN T : n \subseteq m /\ m # n}
  IN  FlattenSeq([k \in 1 .. Cardinality(above) |->
        LET m == CHOOSE m \in above : T[m].depth = k - 1
        IN  T[m].w])

(* The word along a branch is that of the nodes it lists.                  *)
LEMMA WordAlongBranch ==
  ASSUME NEW T, NEW n, NEW q, IsBranch(T, n, q)
  PROVE  WordAlong(T, n) = FlattenSeq([k \in 1 .. Len(q) |-> T[q[k]].w])
<1> DEFINE above == {m \in DOMAIN T : n \subseteq m /\ m # n}
           at(k) == CHOOSE m \in above : T[m].depth = k - 1
<1>1. /\ q \in Seq(DOMAIN T) /\ DOMAIN q = 1 .. Len(q) /\ Len(q) \in Nat
      /\ \A k \in 1 .. Len(q) : q[k] \in DOMAIN T /\ T[q[k]].depth = k - 1
      /\ \A m \in DOMAIN T : m \in above <=> \E k \in 1 .. Len(q) : q[k] = m
  BY LenProperties, ElementOfSeq DEF IsBranch
<1>2. \A m \in above : m \in DOMAIN T
  OBVIOUS
<1> HIDE DEF above
<1>3. \A k \in 1 .. Len(q) : q[k] \in above
  BY <1>1
<1>4. \A i, j \in 1 .. Len(q) : q[i] = q[j] => i = j
  <2> SUFFICES ASSUME NEW i \in 1 .. Len(q), NEW j \in 1 .. Len(q), q[i] = q[j]
               PROVE  i = j
    OBVIOUS
  <2>1. i - 1 = j - 1
    BY <1>1
  <2> QED
    BY <1>1, <2>1
<1>5. Cardinality(above) = Len(q)
  <2>1. q \in [1 .. Len(q) -> above]
    BY <1>1, <1>3
  <2>2. q \in Bijection(1 .. Len(q), above)
    BY <1>1, <1>2, <1>4, <2>1 DEF Bijection, Injection, Surjection, IsInjective
  <2>3. ExistsBijection(1 .. Len(q), above)
    BY <2>2 DEF ExistsBijection
  <2>4. IsFiniteSet(1 .. Len(q)) /\ Cardinality(1 .. Len(q)) = Len(q)
    BY <1>1, FS_Interval
  <2> QED
    BY <2>3, <2>4, FS_Bijection
<1>6. ASSUME NEW k \in 1 .. Len(q) PROVE at(k) = q[k]
  <2>1. q[k] \in above /\ T[q[k]].depth = k - 1
    BY <1>1, <1>3
  <2>2. at(k) \in above /\ T[at(k)].depth = k - 1
    BY <2>1
  <2> HIDE DEF at
  <2>3. PICK l \in 1 .. Len(q) : q[l] = at(k)
    BY <1>1, <1>2, <2>2
  <2>4. l - 1 = k - 1
    BY <1>1, <2>2, <2>3
  <2>5. l = k
    BY <1>1, <2>4
  <2> QED
    BY <2>3, <2>5
<1>7. WordAlong(T, n) = FlattenSeq([k \in 1 .. Cardinality(above) |-> T[at(k)].w])
  BY DEF WordAlong, above
<1> HIDE DEF at
<1>8. [k \in 1 .. Cardinality(above) |-> T[at(k)].w] = [k \in 1 .. Len(q) |-> T[q[k]].w]
  BY <1>5, <1>6
<1> QED
  BY <1>7, <1>8

-----------------------------------------------------------------------------
(* The children of a node of the decision tree.                            *)

(* A node of the decision tree lists its pairs by current state, and no    *)
(* initial state twice.                                                    *)
WellListed(CI) ==
  /\ CI \in Seq(State \X State)
  /\ \A k, l \in DOMAIN CI : k < l => CI[k][1] < CI[l][1]
  /\ \A k, l \in DOMAIN CI : CI[k][2] = CI[l][2] => k = l

(* The pairs of a node that go on with the states c, moved by row.         *)
Follows(ci, CI, c, row) ==
  /\ ci \in Seq(State \X State)
  /\ \A k, l \in DOMAIN ci : k < l => ci[k][1] < ci[l][1]
  /\ \A k \in DOMAIN ci : \E x \in DOMAIN CI :
       CI[x][1] \in c /\ ci[k] = <<row[CI[x][1]], CI[x][2]>>
  /\ \A x \in DOMAIN CI : CI[x][1] \in c =>
       \E k \in DOMAIN ci : ci[k] = <<row[CI[x][1]], CI[x][2]>>

(* Merging and sorting gives such a list.                                  *)
LEMMA MergeFollows ==
  ASSUME NEW CI, WellListed(CI), NEW c \in SUBSET State, NEW row,
         \A s \in c : row[s] \in State,
         \A s, t \in c : row[s] = row[t] => s = t
  PROVE  Follows(sorted(Merge(CI, increasing(c), row)), CI, c, row)
<1> DEFINE inc == increasing(c)
           pairs == Merge(CI, inc, row)
           ci == sorted(pairs)
<1>1. /\ CI \in Seq(State \X State) /\ DOMAIN CI = 1 .. Len(CI) /\ Len(CI) \in Nat
      /\ \A x \in DOMAIN CI : CI[x][1] \in State /\ CI[x][2] \in State
      /\ \A k, l \in DOMAIN CI : k < l => CI[k][1] < CI[l][1]
      /\ State \in SUBSET Int /\ IsFiniteSet(State)
  <2>1. \A x \in DOMAIN CI : CI[x] \in State \X State
    BY ElementOfSeq, LenProperties DEF WellListed
  <2>2. State \in SUBSET Int /\ IsFiniteSet(State)
    BY SizesAssumption, FS_Interval DEF State
  <2> QED
    BY <2>1, <2>2, LenProperties DEF WellListed
<1>2. c \in SUBSET Int /\ IsFiniteSet(c)
  BY <1>1, FS_Subset
<1>3. /\ inc \in Seq(c)
      /\ \A x \in c : \E i \in DOMAIN inc : inc[i] = x
      /\ \A i, j \in DOMAIN inc : i < j => inc[i] < inc[j]
  BY <1>2, IncreasingLists
<1> HIDE DEF inc
<1>4. inc \in Seq(State) /\ DOMAIN inc = 1 .. Len(inc) /\ Len(inc) \in Nat
      /\ \A i \in DOMAIN inc : inc[i] \in c
  BY <1>3, LenProperties, ElementOfSeq, SeqMonotonic
<1>5. pairs = MergedFrom(CI, inc, row, 1, 1)
  BY <1>1, <1>3, <1>4, MergeIsRight
<1>6. \A p : p \in pairs <=> \E x \in DOMAIN CI :
        CI[x][1] \in c /\ p = <<row[CI[x][1]], CI[x][2]>>
  <2>1. \A x \in DOMAIN CI : (\E l \in 1 .. Len(inc) : inc[l] = CI[x][1]) <=> CI[x][1] \in c
    BY <1>3, <1>4
  <2> HIDE DEF pairs
  <2> QED
    BY <1>1, <1>5, <2>1 DEF MergedFrom
<1> HIDE DEF pairs
<1>7. pairs \in SUBSET (State \X State)
  <2> SUFFICES ASSUME NEW p \in pairs PROVE p \in State \X State
    OBVIOUS
  <2>1. PICK x \in DOMAIN CI : CI[x][1] \in c /\ p = <<row[CI[x][1]], CI[x][2]>>
    BY <1>6
  <2>2. row[CI[x][1]] \in State /\ CI[x][2] \in State
    BY <1>1, <2>1
  <2> QED
    BY <2>1, <2>2
<1>8. /\ ci \in Seq(pairs)
      /\ \A p \in pairs : \E i \in DOMAIN ci : ci[i] = p
      /\ \A i, j \in DOMAIN ci : i < j => precedes(ci[i], ci[j])
  BY <1>7, SortedLists
<1> HIDE DEF ci
<1>9. /\ ci \in Seq(State \X State) /\ DOMAIN ci = 1 .. Len(ci) /\ Len(ci) \in Nat
      /\ \A i \in DOMAIN ci : ci[i] \in pairs
  BY <1>7, <1>8, LenProperties, ElementOfSeq, SeqMonotonic
<1>0. /\ \A x \in DOMAIN CI : x \in Int /\ CI[x][1] \in Int
      /\ \A i \in DOMAIN ci : ci[i][1] \in Int /\ ci[i][2] \in Int
  <2>1. State \subseteq Int
    BY <1>1
  <2>2. \A i \in DOMAIN ci : ci[i] \in State \X State
    BY <1>7, <1>9
  <2>3. \A i \in DOMAIN ci : ci[i][1] \in State /\ ci[i][2] \in State
    BY <2>2
  <2> HIDE DEF State
  <2>4. \A x \in DOMAIN CI : CI[x][1] \in Int
    BY <1>1, <2>1
  <2>5. \A x \in DOMAIN CI : x \in Int
    BY <1>1
  <2> QED
    BY <2>1, <2>3, <2>4, <2>5
<1>10. ASSUME NEW k \in DOMAIN ci, NEW l \in DOMAIN ci, k < l
       PROVE  ci[k][1] < ci[l][1]
  <2>1. precedes(ci[k], ci[l])
    BY <1>8, <1>10
  <2>2. ASSUME ci[k][1] = ci[l][1] PROVE FALSE
    <3>1. PICK x \in DOMAIN CI :
            CI[x][1] \in c /\ ci[k] = <<row[CI[x][1]], CI[x][2]>>
      BY <1>6, <1>9
    <3>2. PICK y \in DOMAIN CI :
            CI[y][1] \in c /\ ci[l] = <<row[CI[y][1]], CI[y][2]>>
      BY <1>6, <1>9
    <3>3. CI[x][1] = CI[y][1]
      BY <2>2, <3>1, <3>2
    <3>4. x = y
      <4>1. x \in Int /\ y \in Int /\ CI[x][1] \in Int
        BY <1>0
      <4>2. ~ (x < y) /\ ~ (y < x)
        BY <1>1, <3>3, <4>1
      <4> QED
        BY <4>1, <4>2
    <3>5. ci[k][2] = ci[l][2]
      BY <3>1, <3>2, <3>4
    <3>6. ci[k][1] \in Int /\ ci[k][2] \in Int
      BY <1>0
    <3> QED
      BY <2>1, <2>2, <3>5, <3>6 DEF precedes
  <2> QED
    BY <2>1, <2>2 DEF precedes
<1>11. \A k \in DOMAIN ci : \E x \in DOMAIN CI :
         CI[x][1] \in c /\ ci[k] = <<row[CI[x][1]], CI[x][2]>>
  BY <1>6, <1>9
<1>12. \A x \in DOMAIN CI : CI[x][1] \in c =>
         \E k \in DOMAIN ci : ci[k] = <<row[CI[x][1]], CI[x][2]>>
  BY <1>6, <1>8
<1>13. Follows(ci, CI, c, row)
  BY <1>9, <1>10, <1>11, <1>12 DEF Follows
<1> QED
  BY <1>13 DEF ci, pairs, inc

(* Pairs of CI in different lists have their current states in different   *)
(* children c.                                                             *)
InDifferent(cis, CI, c) ==
  \A i, j \in DOMAIN cis : i # j =>
    \A x, y \in DOMAIN CI :
      CI[x][2] \in Initials(cis[i]) /\ CI[y][2] \in Initials(cis[j]) =>
        \E a, b \in DOMAIN c : a # b /\ CI[x][1] \in c[a] /\ CI[y][1] \in c[b]

(* cis share out the pairs of CI among at least two lists, by the children *)
(* of oboom, and move them by its separator.                               *)
SharesOut(cis, CI, oboom) ==
  /\ cis \in Seq(Seq(State \X State)) /\ Len(cis) > 1
  /\ \A i \in DOMAIN cis :
       /\ cis[i] # <<>>
       /\ \A k, l \in DOMAIN cis[i] : k < l => cis[i][k][1] < cis[i][l][1]
       /\ \E b \in DOMAIN tree[oboom].children :
            \A k \in DOMAIN cis[i] : \E x \in DOMAIN CI :
              /\ CI[x][1] \in tree[oboom].children[b]
              /\ cis[i][k] = <<to(CI[x][1], tree[oboom].separator), CI[x][2]>>
  /\ \A i, j \in DOMAIN cis : i # j => Initials(cis[i]) \cap Initials(cis[j]) = {}
  /\ InDifferent(cis, CI, tree[oboom].children)
  /\ UNION {Initials(cis[i]) : i \in DOMAIN cis} = Initials(CI)

(* The children that Successors makes share out the pairs.                 *)
LEMMA SuccessorsShareOut ==
  ASSUME IInv, TheoryInv, opt.check_validity,
         NEW CI, WellListed(CI), CI # <<>>, lca_of(CI) \notin Leaves
  PROVE  /\ lca_of(CI) \in Internal
         /\ \A k \in DOMAIN CI : CI[k][1] \in lca_of(CI)
         /\ SharesOut(Successors(CI, lca_of(CI)), CI, lca_of(CI))
<1> DEFINE oboom == lca_of(CI)
           row == succession[tree[oboom].depth + 1]
           w == tree[oboom].separator
           c == tree[oboom].children
           each == [i \in DOMAIN c |-> sorted(Merge(CI, increasing(c[i]), row))]
           Kept == {i \in DOMAIN c : each[i] # <<>>}
           kept == increasing(Kept)
           cis == [k \in DOMAIN kept |-> each[kept[k]]]
<1>1. /\ CI \in Seq(State \X State) /\ DOMAIN CI = 1 .. Len(CI) /\ Len(CI) \in Nat
      /\ Len(CI) > 0
      /\ \A x \in DOMAIN CI : CI[x][1] \in State /\ CI[x][2] \in State
      /\ \A k, l \in DOMAIN CI : CI[k][2] = CI[l][2] => k = l
  <2>1. \A x \in DOMAIN CI : CI[x] \in State \X State
    BY ElementOfSeq, LenProperties DEF WellListed
  <2> QED
    BY <2>1, LenProperties, EmptySeq DEF WellListed
<1>2. Currents(CI) \in Node
  <2>1. 1 \in DOMAIN CI
    BY <1>1
  <2>2. CI[1][1] \in Currents(CI)
    BY <2>1 DEF Currents
  <2> QED
    BY <1>1, <2>2 DEF Currents, Node
<1>3. Lowest(tree, oboom, Currents(CI))
  BY <1>2, LcaIsLowest DEF lca_of, TheoryInv
<1> HIDE DEF oboom
<1>4. oboom \in Internal /\ oboom \in DOMAIN tree /\ oboom \subseteq State
  BY <1>3, NodesFinite DEF Lowest, Internal, IInv, oboom
<1>5. \A k \in DOMAIN CI : CI[k][1] \in oboom
  BY <1>3 DEF Lowest, Currents
<1>6. /\ Len(c) > 1 /\ UNION {c[i] : i \in DOMAIN c} = oboom
      /\ \A i, j \in DOMAIN c : i # j => c[i] \cap c[j] = {}
      /\ DOMAIN c = 1 .. Len(c) /\ Len(c) \in Nat
      /\ \A i \in DOMAIN c : c[i] \in SUBSET State
  <2>1. c \in Seq(Node)
    BY <1>4 DEF IInv, TypeOK, splitting_tree
  <2>2. \A i \in DOMAIN c : c[i] \in Node
    BY <2>1, ElementOfSeq, LenProperties
  <2> QED
    BY <1>4, <2>1, <2>2, LenProperties DEF IInv, ChildrenPartition, Node
<1>7. \A s \in oboom : row[s] = to(s, w) /\ to(s, w) \in State
  <2>1. w \in Word /\ g \in Machine
    BY <1>4 DEF IInv, TypeOK, splitting_tree
  <2>2. \A s \in State : to(s, w) \in State
    BY <2>1, ApplyType DEF to, RunEdge
  <2> QED
    BY <1>4, <2>2 DEF IInv, CacheAgrees
<1>8. \A i \in DOMAIN c : \A s, t \in c[i] : to(s, w) = to(t, w) => s = t
  BY <1>4 DEF TheoryInv, SeparatorsValid
<1> HIDE DEF c, w, row
<1>9. ASSUME NEW i \in DOMAIN c PROVE Follows(each[i], CI, c[i], row)
  <2>1. c[i] \subseteq oboom
    BY <1>6
  <2>2. \A s \in c[i] : row[s] \in State
    BY <1>7, <2>1
  <2>3. \A s, t \in c[i] : row[s] = row[t] => s = t
    BY <1>7, <1>8, <2>1
  <2>4. Follows(sorted(Merge(CI, increasing(c[i]), row)), CI, c[i], row)
    BY <1>6, <2>2, <2>3, MergeFollows
  <2> QED
    BY <2>4
<1>10. DOMAIN each = DOMAIN c
  OBVIOUS
<1>11. Successors(CI, oboom) = cis
  BY DEF Successors, row, c
<1> HIDE DEF each
<1>12. /\ kept \in Seq(Kept)
       /\ \A i \in Kept : \E k \in DOMAIN kept : kept[k] = i
       /\ \A i, j \in DOMAIN kept : i < j => kept[i] < kept[j]
  <2>1. Kept \in SUBSET Int /\ Kept \subseteq DOMAIN c
    BY <1>6
  <2>2. IsFiniteSet(DOMAIN c)
    BY <1>6, FS_Interval
  <2>3. IsFiniteSet(Kept)
    BY <2>1, <2>2, FS_Subset
  <2> QED
    BY <2>1, <2>3, IncreasingLists
<1>13. \A i : i \in Kept <=> i \in DOMAIN c /\ each[i] # <<>>
  OBVIOUS
<1>14. /\ DOMAIN kept = 1 .. Len(kept) /\ Len(kept) \in Nat
       /\ \A k \in DOMAIN kept : kept[k] \in Kept
  <2> HIDE DEF kept, Kept
  <2> QED
    BY <1>12, LenProperties, ElementOfSeq
<1>15. DOMAIN cis = DOMAIN kept /\ \A k \in DOMAIN kept : cis[k] = each[kept[k]]
  OBVIOUS
<1> HIDE DEF kept, Kept
<1>16. \A i, j \in DOMAIN kept : i # j => kept[i] # kept[j]
  <2> SUFFICES ASSUME NEW i \in DOMAIN kept, NEW j \in DOMAIN kept, i # j
               PROVE  kept[i] # kept[j]
    OBVIOUS
  <2>1. i \in Int /\ j \in Int /\ kept[i] \in Int /\ kept[j] \in Int
    BY <1>6, <1>13, <1>14
  <2>2. i < j \/ j < i
    BY <2>1
  <2> QED
    BY <1>12, <2>1, <2>2
<1>17. \A k \in DOMAIN kept : Follows(cis[k], CI, c[kept[k]], row) /\ cis[k] # <<>>
  BY <1>9, <1>13, <1>14, <1>15
<1>18. cis \in Seq(Seq(State \X State)) /\ Len(cis) = Len(kept)
  <2>1. cis = [k \in 1 .. Len(kept) |-> cis[k]]
    BY <1>14
  <2>2. \A k \in 1 .. Len(kept) : cis[k] \in Seq(State \X State)
    BY <1>14, <1>17 DEF Follows
  <2> HIDE DEF cis
  <2> QED
    BY <1>14, <2>1, <2>2, IsASeq
<1> HIDE DEF cis
<1>19. ASSUME NEW x \in DOMAIN CI, NEW i \in DOMAIN c, CI[x][1] \in c[i]
       PROVE  \E k \in DOMAIN kept : kept[k] = i
                /\ \E l \in DOMAIN cis[k] : cis[k][l][2] = CI[x][2]
  <2>1. PICK l \in DOMAIN each[i] : each[i][l] = <<row[CI[x][1]], CI[x][2]>>
    BY <1>9, <1>19 DEF Follows
  <2>2. each[i] # <<>>
    BY <2>1, EmptySeq
  <2>3. PICK k \in DOMAIN kept : kept[k] = i
    BY <1>12, <1>13, <2>2
  <2> QED
    BY <1>15, <2>1, <2>3
<1>20. \A x \in DOMAIN CI : \E i \in DOMAIN c : CI[x][1] \in c[i]
  BY <1>5, <1>6
<1>21. Len(cis) > 1
  <2>1. 1 \in DOMAIN CI
    BY <1>1
  <2>2. PICK i \in DOMAIN c : CI[1][1] \in c[i]
    BY <1>20, <2>1
  <2>3. ~ (Currents(CI) \subseteq c[i])
    BY <1>3 DEF Lowest, c
  <2>4. PICK x \in DOMAIN CI : CI[x][1] \notin c[i]
    BY <2>3 DEF Currents
  <2>5. PICK j \in DOMAIN c : CI[x][1] \in c[j]
    BY <1>20, <2>4
  <2>6. i # j
    BY <2>4, <2>5
  <2>7. PICK k \in DOMAIN kept : kept[k] = i
    BY <1>19, <2>1, <2>2
  <2>8. PICK l \in DOMAIN kept : kept[l] = j
    BY <1>19, <2>4, <2>5
  <2>9. k # l
    BY <2>6, <2>7, <2>8
  <2> QED
    BY <1>14, <1>18, <2>9
<1> DEFINE Reaches(n, k) ==
             \E x \in DOMAIN CI : CI[x][1] \in c[kept[k]] /\ n = CI[x][2]
<1>22. \A k \in DOMAIN kept : \A n : n \in Initials(cis[k]) <=> Reaches(n, k)
  <2> SUFFICES ASSUME NEW k \in DOMAIN kept, NEW n
               PROVE  n \in Initials(cis[k]) <=> Reaches(n, k)
    OBVIOUS
  <2>1. n \in Initials(cis[k]) <=> \E y \in DOMAIN cis[k] : n = cis[k][y][2]
    BY DEF Initials
  <2>2. /\ \A y \in DOMAIN cis[k] : \E x \in DOMAIN CI :
             CI[x][1] \in c[kept[k]] /\ cis[k][y] = <<row[CI[x][1]], CI[x][2]>>
        /\ \A x \in DOMAIN CI : CI[x][1] \in c[kept[k]] =>
             \E y \in DOMAIN cis[k] : cis[k][y] = <<row[CI[x][1]], CI[x][2]>>
    BY <1>17 DEF Follows
  <2>3. \A y \in DOMAIN cis[k] : \E x \in DOMAIN CI :
          CI[x][1] \in c[kept[k]] /\ cis[k][y][2] = CI[x][2]
    BY <2>2
  <2>4. \A x \in DOMAIN CI : CI[x][1] \in c[kept[k]] =>
          \E y \in DOMAIN cis[k] : cis[k][y][2] = CI[x][2]
    BY <2>2
  <2> QED
    BY <2>1, <2>3, <2>4
<1>23. ASSUME NEW i \in DOMAIN kept, NEW j \in DOMAIN kept, i # j
       PROVE  Initials(cis[i]) \cap Initials(cis[j]) = {}
  <2> SUFFICES ASSUME NEW n \in Initials(cis[i]), n \in Initials(cis[j]) PROVE FALSE
    OBVIOUS
  <2>0. Reaches(n, i) /\ Reaches(n, j)
    <3> HIDE DEF Reaches
    <3> QED
      BY <1>22
  <2>1. PICK x \in DOMAIN CI : CI[x][1] \in c[kept[i]] /\ n = CI[x][2]
    BY <2>0
  <2>2. PICK y \in DOMAIN CI : CI[y][1] \in c[kept[j]] /\ n = CI[y][2]
    BY <2>0
  <2>3. x = y /\ kept[i] # kept[j] /\ kept[i] \in DOMAIN c /\ kept[j] \in DOMAIN c
    BY <1>1, <1>13, <1>14, <1>16, <1>23, <2>1, <2>2
  <2> QED
    BY <1>6, <2>1, <2>2, <2>3
<1>24. \A n : (\E k \in DOMAIN kept : n \in Initials(cis[k])) <=> n \in Initials(CI)
  <2>1. ASSUME NEW x \in DOMAIN CI
        PROVE  \E k \in DOMAIN kept : CI[x][2] \in Initials(cis[k])
    <3>1. PICK i \in DOMAIN c : CI[x][1] \in c[i]
      BY <1>20
    <3>2. PICK k \in DOMAIN kept :
            \E l \in DOMAIN cis[k] : cis[k][l][2] = CI[x][2]
      BY <1>19, <3>1
    <3> QED
      BY <3>2 DEF Initials
  <2>2. \A n \in Initials(CI) : \E x \in DOMAIN CI : n = CI[x][2]
    BY DEF Initials
  <2>3. \A x \in DOMAIN CI : CI[x][2] \in Initials(CI)
    BY DEF Initials
  <2>4. \A k, n : Reaches(n, k) => n \in Initials(CI)
    BY <2>3
  <2>5. \A n \in Initials(CI) : \E k \in DOMAIN kept : n \in Initials(cis[k])
    BY <2>1, <2>2
  <2> HIDE DEF Reaches
  <2> QED
    BY <1>22, <2>4, <2>5
<1>25. UNION {Initials(cis[k]) : k \in DOMAIN kept} = Initials(CI)
  BY <1>24
<1>26. ASSUME NEW k \in DOMAIN kept
       PROVE  /\ cis[k] # <<>>
              /\ \A x, y \in DOMAIN cis[k] : x < y => cis[k][x][1] < cis[k][y][1]
              /\ \E b \in DOMAIN c :
                   \A y \in DOMAIN cis[k] : \E x \in DOMAIN CI :
                     CI[x][1] \in c[b] /\ cis[k][y] = <<to(CI[x][1], w), CI[x][2]>>
  <2>1. kept[k] \in DOMAIN c
    BY <1>13, <1>14
  <2>2. \A y \in DOMAIN cis[k] : \E x \in DOMAIN CI :
          CI[x][1] \in c[kept[k]] /\ cis[k][y] = <<to(CI[x][1], w), CI[x][2]>>
    BY <1>5, <1>7, <1>17 DEF Follows
  <2> QED
    BY <1>17, <2>1, <2>2 DEF Follows
<1>27. ASSUME NEW i \in DOMAIN kept, NEW j \in DOMAIN kept, i # j,
              NEW x \in DOMAIN CI, NEW y \in DOMAIN CI,
              CI[x][2] \in Initials(cis[i]), CI[y][2] \in Initials(cis[j])
       PROVE  \E a, b \in DOMAIN c : a # b /\ CI[x][1] \in c[a] /\ CI[y][1] \in c[b]
  <2>1. ASSUME NEW k \in DOMAIN kept, NEW z \in DOMAIN CI, CI[z][2] \in Initials(cis[k])
        PROVE  CI[z][1] \in c[kept[k]]
    <3>1. Reaches(CI[z][2], k)
      <4> HIDE DEF Reaches
      <4> QED
        BY <1>22, <2>1
    <3>2. PICK x2 \in DOMAIN CI : CI[x2][1] \in c[kept[k]] /\ CI[z][2] = CI[x2][2]
      BY <3>1
    <3> QED
      BY <1>1, <3>2
  <2>2. kept[i] # kept[j] /\ kept[i] \in DOMAIN c /\ kept[j] \in DOMAIN c
    BY <1>13, <1>14, <1>16, <1>27
  <2> QED
    BY <1>27, <2>1, <2>2
<1>28. InDifferent(cis, CI, c)
  BY <1>15, <1>27 DEF InDifferent
<1>29. SharesOut(cis, CI, oboom)
  BY <1>15, <1>18, <1>21, <1>23, <1>25, <1>26, <1>28 DEF SharesOut, c, w
<1> QED
  BY <1>4, <1>5, <1>11, <1>29 DEF oboom

-----------------------------------------------------------------------------
(* How the decision tree grows.  T is the tree as the variable sequence    *)
(* keeps it.                                                               *)

(* Nodes that share a state are one inside the other, and nothing is       *)
(* inside a node without children.                                         *)
Nested(T) ==
  /\ State \in DOMAIN T
  /\ \A m, n \in DOMAIN T : m \cap n # {} => m \subseteq n \/ n \subseteq m
  /\ \A m, n \in DOMAIN T : T[n].children = <<>> /\ m \subseteq n => m = n

(* The nodes above a node are as many as its depth says, one per level.    *)
Branched(T) ==
  \A n \in DOMAIN T :
    /\ T[n].depth \in Nat
    /\ \E q : IsBranch(T, n, q) /\ Len(q) = T[n].depth

(* A node is named by the initial states that it lists.                    *)
Listed(T) ==
  \A n \in DOMAIN T :
    n \in Node /\ WellListed(T[n].CI) /\ Initials(T[n].CI) = n

(* cis share out the states of a node among at least two lists.            *)
Divides(cis, node) ==
  /\ cis \in Seq(Seq(State \X State)) /\ Len(cis) > 1
  /\ \A i \in DOMAIN cis : Initials(cis[i]) # {} /\ Initials(cis[i]) \subseteq node
  /\ \A i, j \in DOMAIN cis : i # j => Initials(cis[i]) \cap Initials(cis[j]) = {}
  /\ UNION {Initials(cis[i]) : i \in DOMAIN cis} = node

(* T2 is T after a node without children has got its children and a word.  *)
Grows(T, T2, node, cis, w) ==
  /\ node \in DOMAIN T /\ T[node].children = <<>>
  /\ Divides(cis, node)
  /\ DOMAIN T2 = DOMAIN T \cup {Initials(cis[i]) : i \in DOMAIN cis}
  /\ \A n \in DOMAIN T \ {node} : T2[n] = T[n]
  /\ T2[node].CI = T[node].CI /\ T2[node].depth = T[node].depth
  /\ T2[node].w = w
  /\ T2[node].children = [i \in DOMAIN cis |-> Initials(cis[i])]
  /\ \A i \in DOMAIN cis : /\ Initials(cis[i]) \notin DOMAIN T
                           /\ T2[Initials(cis[i])]
                                = AdsNode(cis[i], T[node].depth + 1)

(* The parts of a node do not hold all of it, and only one holds a state.  *)
LEMMA PartsAreProper ==
  ASSUME NEW cis, NEW node, Divides(cis, node), NEW i \in DOMAIN cis
  PROVE  /\ ~ (node \subseteq Initials(cis[i]))
         /\ \A j \in DOMAIN cis : Initials(cis[i]) \cap Initials(cis[j]) # {} => i = j
<1>1. DOMAIN cis = 1 .. Len(cis) /\ Len(cis) \in Nat /\ Len(cis) > 1
  BY LenProperties DEF Divides
<1>2. PICK j \in DOMAIN cis : j # i
  <2>1. 1 \in DOMAIN cis /\ 2 \in DOMAIN cis
    BY <1>1
  <2> QED
    BY <2>1
<1>3. PICK s \in Initials(cis[j]) : TRUE
  BY DEF Divides
<1>4. s \in node /\ s \notin Initials(cis[i])
  BY <1>2, <1>3 DEF Divides
<1> QED
  BY <1>4 DEF Divides

(* Growth keeps the nodes nested.                                          *)
LEMMA GrowsNested ==
  ASSUME NEW T, NEW T2, NEW node, NEW cis, NEW w, Grows(T, T2, node, cis, w),
         Nested(T)
  PROVE  Nested(T2)
<1> DEFINE part(i) == Initials(cis[i])
<1>1. /\ node \in DOMAIN T /\ T[node].children = <<>> /\ Divides(cis, node)
      /\ \A n \in DOMAIN T : n \in DOMAIN T2
      /\ \A n \in DOMAIN T2 : n \in DOMAIN T \/ \E i \in DOMAIN cis : n = part(i)
      /\ \A n \in DOMAIN T \ {node} : T2[n] = T[n]
  BY DEF Grows
<1>2. /\ \A i \in DOMAIN cis : /\ part(i) # {} /\ part(i) \subseteq node
                               /\ ~ (node \subseteq part(i))
      /\ \A i, j \in DOMAIN cis : part(i) \cap part(j) # {} => part(i) = part(j)
  <2>1. \A i \in DOMAIN cis : part(i) # {} /\ part(i) \subseteq node
    BY <1>1 DEF Divides
  <2>2. \A i \in DOMAIN cis : ~ (node \subseteq part(i))
    BY <1>1, PartsAreProper
  <2>3. ASSUME NEW i \in DOMAIN cis, NEW j \in DOMAIN cis, part(i) \cap part(j) # {}
        PROVE  part(i) = part(j)
    <3>1. i = j
      BY <1>1, <2>3, PartsAreProper
    <3> QED
      BY <3>1
  <2> QED
    BY <2>1, <2>2, <2>3
<1>3. T2[node].children # <<>>
  <2>1. 1 \in DOMAIN cis
    BY <1>1, LenProperties DEF Divides
  <2>2. DOMAIN T2[node].children = DOMAIN cis
    BY DEF Grows
  <2> QED
    BY <2>1, <2>2, EmptySeq
<1> HIDE DEF part
<1>4. State \in DOMAIN T2
  BY <1>1 DEF Nested
<1>5. ASSUME NEW n \in DOMAIN T, NEW i \in DOMAIN cis, n \cap part(i) # {}
      PROVE  part(i) \subseteq n
  <2>1. n \cap node # {} /\ part(i) \subseteq node
    BY <1>2, <1>5
  <2>2. node \subseteq n \/ n = node
    BY <1>1, <2>1 DEF Nested
  <2> QED
    BY <2>1, <2>2
<1>6. ASSUME NEW m \in DOMAIN T2, NEW n \in DOMAIN T2, m \cap n # {}
      PROVE  m \subseteq n \/ n \subseteq m
  <2>1. CASE m \in DOMAIN T /\ n \in DOMAIN T
    BY <1>6, <2>1 DEF Nested
  <2>2. CASE m \in DOMAIN T /\ \E i \in DOMAIN cis : n = part(i)
    BY <1>5, <1>6, <2>2
  <2>3. CASE n \in DOMAIN T /\ \E i \in DOMAIN cis : m = part(i)
    <3>1. n \cap m # {}
      BY <1>6
    <3> QED
      BY <1>5, <2>3, <3>1
  <2>4. CASE (\E i \in DOMAIN cis : m = part(i)) /\ (\E i \in DOMAIN cis : n = part(i))
    BY <1>2, <1>6, <2>4
  <2> QED
    BY <1>1, <2>1, <2>2, <2>3, <2>4
<1>7. ASSUME NEW m \in DOMAIN T2, NEW n \in DOMAIN T2,
             T2[n].children = <<>>, m \subseteq n
      PROVE  m = n
  <2>1. n # node
    BY <1>3, <1>7
  <2>2. CASE n \in DOMAIN T
    <3>1. T[n].children = <<>>
      BY <1>1, <1>7, <2>1, <2>2
    <3>2. CASE m \in DOMAIN T
      BY <1>7, <2>2, <3>1, <3>2 DEF Nested
    <3>3. ASSUME NEW i \in DOMAIN cis, m = part(i) PROVE FALSE
      <4>1. n \cap node # {}
        BY <1>2, <1>7, <3>3
      <4>2. node \subseteq n \/ n \subseteq node
        BY <1>1, <2>2, <4>1 DEF Nested
      <4> QED
        BY <1>1, <2>1, <2>2, <3>1, <4>2 DEF Nested
    <3> QED
      BY <1>1, <3>2, <3>3
  <2>3. ASSUME NEW i \in DOMAIN cis, n = part(i) PROVE m = n
    <3>1. CASE m \in DOMAIN T
      <4>1. m \subseteq node
        BY <1>2, <1>7, <2>3
      <4>2. m = node
        BY <1>1, <3>1, <4>1 DEF Nested
      <4> QED
        BY <1>2, <1>7, <2>3, <4>2
    <3>2. CASE \E j \in DOMAIN cis : m = part(j)
      <4>1. PICK j \in DOMAIN cis : m = part(j)
        BY <3>2
      <4>2. part(j) \cap part(i) # {}
        BY <1>2, <1>7, <2>3, <4>1
      <4> QED
        BY <1>2, <2>3, <4>1, <4>2
    <3> QED
      BY <1>1, <3>1, <3>2
  <2> QED
    BY <1>1, <2>2, <2>3
<1> QED
  BY <1>4, <1>6, <1>7 DEF Nested

(* Old nodes keep their branches and the words along them.                 *)
LEMMA GrowsOldBranch ==
  ASSUME NEW T, NEW T2, NEW node, NEW cis, NEW w, Grows(T, T2, node, cis, w),
         Nested(T), NEW n \in DOMAIN T, NEW q, IsBranch(T, n, q)
  PROVE  IsBranch(T2, n, q) /\ WordAlong(T2, n) = WordAlong(T, n)
<1>1. /\ node \in DOMAIN T /\ T[node].children = <<>> /\ Divides(cis, node)
      /\ DOMAIN T \subseteq DOMAIN T2
      /\ \A m \in DOMAIN T2 : \/ m \in DOMAIN T
                              \/ \E i \in DOMAIN cis : m = Initials(cis[i])
      /\ \A m \in DOMAIN T : /\ m # node => T2[m] = T[m]
                             /\ T2[m].depth = T[m].depth
      /\ \A i \in DOMAIN cis : Initials(cis[i]) \notin DOMAIN T
  BY DEF Grows
<1>2. /\ q \in Seq(DOMAIN T) /\ DOMAIN q = 1 .. Len(q)
      /\ \A k \in DOMAIN q : q[k] \in DOMAIN T /\ T[q[k]].depth = k - 1
      /\ \A m \in DOMAIN T : n \subseteq m /\ m # n <=> \E k \in DOMAIN q : q[k] = m
  BY LenProperties, ElementOfSeq DEF IsBranch
<1>3. q \in Seq(DOMAIN T2)
  BY <1>1, <1>2, SeqMonotonic
<1>4. \A k \in DOMAIN q : T2[q[k]].depth = k - 1
  BY <1>1, <1>2
<1>5. ASSUME NEW m \in DOMAIN T2
      PROVE  n \subseteq m /\ m # n <=> \E k \in DOMAIN q : q[k] = m
  <2>1. CASE m \in DOMAIN T
    BY <1>2, <2>1
  <2>2. ASSUME NEW i \in DOMAIN cis, m = Initials(cis[i])
        PROVE  ~ (n \subseteq m) /\ ~ \E k \in DOMAIN q : q[k] = m
    <3>1. ASSUME n \subseteq m PROVE FALSE
      <4>1. n \subseteq node
        BY <1>1, <2>2, <3>1 DEF Divides
      <4>2. n = node
        BY <1>1, <4>1 DEF Nested
      <4> QED
        BY <1>1, <2>2, <3>1, <4>2, PartsAreProper
    <3>2. m \notin DOMAIN T
      BY <1>1, <2>2
    <3> QED
      BY <1>2, <3>1, <3>2
  <2> QED
    BY <1>1, <2>1, <2>2
<1>6. IsBranch(T2, n, q)
  BY <1>3, <1>4, <1>5 DEF IsBranch
<1>7. ASSUME NEW k \in 1 .. Len(q) PROVE T2[q[k]].w = T[q[k]].w
  <2>1. q[k] \in DOMAIN T /\ n \subseteq q[k] /\ q[k] # n
    BY <1>2
  <2>2. q[k] # node
    BY <1>1, <2>1 DEF Nested
  <2> QED
    BY <1>1, <2>1, <2>2
<1>8. WordAlong(T2, n) = FlattenSeq([k \in 1 .. Len(q) |-> T2[q[k]].w])
  BY <1>6, WordAlongBranch
<1>9. WordAlong(T, n) = FlattenSeq([k \in 1 .. Len(q) |-> T[q[k]].w])
  BY WordAlongBranch
<1>10. [k \in 1 .. Len(q) |-> T2[q[k]].w] = [k \in 1 .. Len(q) |-> T[q[k]].w]
  BY <1>7
<1> QED
  BY <1>6, <1>8, <1>9, <1>10

(* A child has a branch one longer, and its word is one separator longer.  *)
LEMMA GrowsNewBranch ==
  ASSUME NEW T, NEW T2, NEW node, NEW cis, NEW w, Grows(T, T2, node, cis, w),
         Nested(T), w \in Word, \A n \in DOMAIN T : T[n].w \in Word,
         NEW q, IsBranch(T, node, q), Len(q) = T[node].depth,
         NEW i \in DOMAIN cis
  PROVE  /\ IsBranch(T2, Initials(cis[i]), Append(q, node))
         /\ Len(Append(q, node)) = T[node].depth + 1
         /\ WordAlong(T, node) \in Word
         /\ WordAlong(T2, Initials(cis[i])) = WordAlong(T, node) \o w
<1> DEFINE part(j) == Initials(cis[j])
           p == Append(q, node)
<1>1. /\ node \in DOMAIN T /\ T[node].children = <<>> /\ Divides(cis, node)
      /\ DOMAIN T \subseteq DOMAIN T2
      /\ \A m \in DOMAIN T2 : \/ m \in DOMAIN T
                              \/ \E j \in DOMAIN cis : m = part(j)
      /\ \A m \in DOMAIN T : /\ m # node => T2[m] = T[m]
                             /\ T2[m].depth = T[m].depth
      /\ \A j \in DOMAIN cis : part(j) \notin DOMAIN T
      /\ T2[node].w = w
  BY DEF Grows
<1>2. /\ q \in Seq(DOMAIN T) /\ DOMAIN q = 1 .. Len(q) /\ Len(q) \in Nat
      /\ \A k \in 1 .. Len(q) : q[k] \in DOMAIN T /\ T[q[k]].depth = k - 1
      /\ \A m \in DOMAIN T : node \subseteq m /\ m # node
                               <=> \E k \in 1 .. Len(q) : q[k] = m
  BY LenProperties, ElementOfSeq DEF IsBranch
<1>3. /\ p \in Seq(DOMAIN T) /\ Len(p) = Len(q) + 1 /\ DOMAIN p = 1 .. Len(q) + 1
      /\ p[Len(q) + 1] = node /\ \A k \in 1 .. Len(q) : p[k] = q[k]
  BY <1>1, <1>2, AppendProperties, LenProperties
<1> HIDE DEF p
<1>4. part(i) # {} /\ part(i) \subseteq node /\ part(i) \notin DOMAIN T
  BY <1>1 DEF Divides
<1>5. \A j \in DOMAIN cis : part(i) \cap part(j) # {} => part(i) = part(j)
  BY <1>1, PartsAreProper
<1> HIDE DEF part
<1>6. p \in Seq(DOMAIN T2)
  BY <1>1, <1>3, SeqMonotonic
<1>7. \A k \in 1 .. Len(q) + 1 : k \in 1 .. Len(q) \/ k = Len(q) + 1
  BY <1>2
<1>8. ASSUME NEW k \in DOMAIN p PROVE T2[p[k]].depth = k - 1
  <2>1. CASE k \in 1 .. Len(q)
    BY <1>1, <1>2, <1>3, <2>1
  <2>2. CASE k = Len(q) + 1
    <3>1. T2[p[k]].depth = Len(q)
      BY <1>1, <1>3, <2>2
    <3> QED
      BY <1>2, <2>2, <3>1
  <2> QED
    BY <1>3, <1>7, <2>1, <2>2
<1>9. ASSUME NEW m \in DOMAIN T2
      PROVE  part(i) \subseteq m /\ m # part(i) <=> \E k \in DOMAIN p : p[k] = m
  <2>1. (\E k \in DOMAIN p : p[k] = m) <=> m = node \/ \E k \in 1 .. Len(q) : q[k] = m
    <3>1. Len(q) + 1 \in DOMAIN p /\ \A k \in 1 .. Len(q) : k \in DOMAIN p
      BY <1>2, <1>3
    <3> QED
      BY <1>3, <1>7, <3>1
  <2>2. CASE m \in DOMAIN T
    <3>1. part(i) \subseteq m => node \subseteq m
      <4> SUFFICES ASSUME part(i) \subseteq m PROVE node \subseteq m
        OBVIOUS
      <4>1. m \cap node # {}
        BY <1>4
      <4> QED
        BY <1>1, <2>2, <4>1 DEF Nested
    <3>2. m # part(i)
      BY <1>4, <2>2
    <3>3. node \subseteq m <=> m = node \/ \E k \in 1 .. Len(q) : q[k] = m
      BY <1>2, <2>2
    <3> QED
      BY <1>4, <2>1, <3>1, <3>2, <3>3
  <2>3. CASE m \notin DOMAIN T
    <3>1. PICK j \in DOMAIN cis : m = part(j)
      BY <1>1, <2>3
    <3>2. part(i) \subseteq m => m = part(i)
      BY <1>4, <1>5, <3>1
    <3>3. m # node /\ ~ \E k \in 1 .. Len(q) : q[k] = m
      BY <1>1, <1>2, <2>3
    <3> QED
      BY <2>1, <3>2, <3>3
  <2> QED
    BY <2>2, <2>3
<1>10. IsBranch(T2, part(i), p)
  BY <1>6, <1>8, <1>9 DEF IsBranch
<1> DEFINE old == [k \in 1 .. Len(q) |-> T[q[k]].w]
<1>11. old \in Seq(Seq(Input))
  <2>1. \A k \in 1 .. Len(q) : T[q[k]].w \in Seq(Input)
    BY <1>2 DEF Word
  <2> QED
    BY <1>2, <2>1, IsASeq
<1>12. WordAlong(T, node) = FlattenSeq(old)
  BY WordAlongBranch
<1>13. WordAlong(T2, part(i)) = FlattenSeq([k \in 1 .. Len(p) |-> T2[p[k]].w])
  BY <1>10, WordAlongBranch
<1>14. [k \in 1 .. Len(p) |-> T2[p[k]].w] = Append(old, w)
  <2> DEFINE new == [k \in 1 .. Len(p) |-> T2[p[k]].w]
             snoc == Append(old, w)
  <2>1. Len(old) = Len(q)
    BY <1>2
  <2>2. /\ snoc = [k \in 1 .. Len(q) + 1 |-> snoc[k]]
        /\ \A k \in 1 .. Len(q) : snoc[k] = old[k]
        /\ snoc[Len(q) + 1] = w
    <3>1. snoc \in Seq(Seq(Input)) /\ Len(snoc) = Len(q) + 1
      BY <1>11, <2>1, AppendProperties DEF Word
    <3>2. (\A k \in 1 .. Len(q) : snoc[k] = old[k]) /\ snoc[Len(q) + 1] = w
      BY <1>11, <2>1, AppendProperties DEF Word
    <3> HIDE DEF snoc
    <3>3. snoc = [k \in 1 .. Len(snoc) |-> snoc[k]]
      BY <3>1
    <3> QED
      BY <3>1, <3>2, <3>3
  <2>3. \A k \in 1 .. Len(q) : old[k] = T[q[k]].w
    OBVIOUS
  <2> HIDE DEF snoc, old
  <2>4. ASSUME NEW k \in 1 .. Len(q) + 1 PROVE T2[p[k]].w = snoc[k]
    <3>1. CASE k \in 1 .. Len(q)
      <4>1. q[k] \in DOMAIN T /\ node \subseteq q[k] /\ q[k] # node
        BY <1>2, <3>1
      <4> QED
        BY <1>1, <1>3, <2>2, <2>3, <3>1, <4>1, ZenonT(60)
    <3>2. CASE k = Len(q) + 1
      BY <1>1, <1>3, <2>2, <3>2
    <3> QED
      BY <1>7, <3>1, <3>2
  <2>5. [k \in 1 .. Len(q) + 1 |-> T2[p[k]].w] = [k \in 1 .. Len(q) + 1 |-> snoc[k]]
    BY <2>4
  <2> QED
    BY <1>3, <2>2, <2>5 DEF snoc
<1>15. FlattenSeq(Append(old, w)) = FlattenSeq(old) \o w
  <2> HIDE DEF old
  <2>1. w \in Seq(Input)
    BY DEF Word
  <2> QED
    BY <1>11, <2>1, FlattenSnoc
<1>16. FlattenSeq(old) \in Word
  <2> HIDE DEF old
  <2> QED
    BY <1>11, FlattenFacts DEF Word
<1> HIDE DEF old
<1> QED
  BY <1>3, <1>10, <1>12, <1>13, <1>14, <1>15, <1>16 DEF part, p

(* v takes the initial states of a node to the current states it lists     *)
(* with them, and no prefix of v tells the initial states apart.           *)
Tracks(m, n, CI, v) ==
  /\ v \in Word
  /\ \A k \in DOMAIN CI : CI[k][1] = applyWord(m, CI[k][2], v).to
  /\ \A j \in 1 .. Len(v) : \A s, t \in n :
       applyWord(m, s, SubSeq(v, 1, j)).out = applyWord(m, t, SubSeq(v, 1, j)).out

Tracked(m, T) ==
  \A n \in DOMAIN T : T[n].w \in Word /\ Tracks(m, n, T[n].CI, WordAlong(T, n))

(* cis move the pairs of CI by w, each those with current states in a set  *)
(* whose states no prefix of w tells apart.                                *)
Moves(m, cis, CI, w) ==
  /\ w \in Word /\ w # <<>>
  /\ \A i \in DOMAIN cis : \E c :
       /\ \A k \in DOMAIN cis[i] : \E x \in DOMAIN CI :
            CI[x][1] \in c /\ cis[i][k] = <<applyWord(m, CI[x][1], w).to, CI[x][2]>>
       /\ \A j \in 1 .. Len(w) : \A s, t \in c :
            applyWord(m, s, SubSeq(w, 1, j)).out = applyWord(m, t, SubSeq(w, 1, j)).out

(* w tells pairs of CI apart that go to different lists.                   *)
Parts(m, cis, CI, w) ==
  \A i, j \in DOMAIN cis : i # j =>
    \A x, y \in DOMAIN CI :
      CI[x][2] \in Initials(cis[i]) /\ CI[y][2] \in Initials(cis[j]) =>
        applyWord(m, CI[x][1], w).out # applyWord(m, CI[y][1], w).out

(* The word of a child tracks its states, if that of the parent does.      *)
LEMMA ChildTracks ==
  ASSUME NEW m \in Machine, NEW node, NEW CI, WellListed(CI),
         NEW v, Tracks(m, node, CI, v), NEW w, NEW cis, Moves(m, cis, CI, w),
         NEW i \in DOMAIN cis, Initials(cis[i]) \subseteq node
  PROVE  Tracks(m, Initials(cis[i]), cis[i], v \o w)
<1> DEFINE ci == cis[i]
<1>1. /\ v \in Word /\ w \in Word /\ w # <<>> /\ v \o w \in Word
      /\ \A s \in State :
           applyWord(m, s, v \o w) = applyWord(m, applyWord(m, s, v).to, w)
  BY ApplyConcat DEF Tracks, Moves
<1>2. PICK c :
        /\ \A k \in DOMAIN ci : \E x \in DOMAIN CI :
             CI[x][1] \in c /\ ci[k] = <<applyWord(m, CI[x][1], w).to, CI[x][2]>>
        /\ \A j \in 1 .. Len(w) : \A s, t \in c :
             applyWord(m, s, SubSeq(w, 1, j)).out = applyWord(m, t, SubSeq(w, 1, j)).out
  BY DEF Moves
<1>3. \A x \in DOMAIN CI : CI[x][1] \in State /\ CI[x][2] \in State
  <2>1. \A x \in DOMAIN CI : CI[x] \in State \X State
    BY ElementOfSeq, LenProperties DEF WellListed
  <2> QED
    BY <2>1
<1>4. ASSUME NEW k \in DOMAIN ci
      PROVE  /\ ci[k][1] = applyWord(m, ci[k][2], v \o w).to
             /\ ci[k][2] \in State
             /\ applyWord(m, ci[k][2], v).to \in c
  <2>1. PICK x \in DOMAIN CI :
          CI[x][1] \in c /\ ci[k] = <<applyWord(m, CI[x][1], w).to, CI[x][2]>>
    BY <1>2
  <2>2. CI[x][1] = applyWord(m, CI[x][2], v).to
    BY DEF Tracks
  <2>3. ci[k][1] = applyWord(m, CI[x][1], w).to /\ ci[k][2] = CI[x][2]
    BY <2>1
  <2>4. applyWord(m, CI[x][2], v \o w) = applyWord(m, CI[x][1], w)
    BY <1>1, <1>3, <2>2
  <2> QED
    BY <1>3, <2>1, <2>2, <2>3, <2>4
<1>5. \A s \in Initials(ci) : s \in node /\ s \in State /\ applyWord(m, s, v).to \in c
  BY <1>4 DEF Initials
<1> HIDE DEF ci
<1>6. ASSUME NEW j \in 1 .. Len(v \o w), NEW s \in Initials(ci), NEW t \in Initials(ci)
      PROVE  applyWord(m, s, SubSeq(v \o w, 1, j)).out
               = applyWord(m, t, SubSeq(v \o w, 1, j)).out
  <2>1. CASE j <= Len(v)
    <3>1. j \in 1 .. Len(v) /\ SubSeq(v \o w, 1, j) = SubSeq(v, 1, j)
      BY <1>1, <2>1, PrefixConcat
    <3> QED
      BY <1>5, <3>1 DEF Tracks
  <2>2. CASE ~ (j <= Len(v))
    <3> DEFINE y == SubSeq(w, 1, j - Len(v))
    <3>1. /\ j - Len(v) \in 1 .. Len(w) /\ y \in Word /\ y # <<>>
          /\ SubSeq(v \o w, 1, j) = v \o y
      BY <1>1, <2>2, PrefixConcat
    <3>2. applyWord(m, applyWord(m, s, v).to, y).out
            = applyWord(m, applyWord(m, t, v).to, y).out
      BY <1>2, <1>5, <3>1
    <3> HIDE DEF y
    <3>3. \A r \in State : applyWord(m, r, v \o y) = applyWord(m, applyWord(m, r, v).to, y)
      BY <1>1, <3>1, ApplyConcat
    <3> QED
      BY <1>5, <3>1, <3>2, <3>3
  <2> QED
    BY <2>1, <2>2
<1>7. \A k \in DOMAIN ci : ci[k][1] = applyWord(m, ci[k][2], v \o w).to
  BY <1>4
<1>8. Tracks(m, Initials(ci), ci, v \o w)
  BY <1>1, <1>6, <1>7 DEF Tracks
<1> QED
  BY <1>8 DEF ci

(* Growth keeps all that the words and the lists promise.                  *)
LEMMA GrowsTracked ==
  ASSUME NEW m \in Machine,
         NEW T, NEW T2, NEW node, NEW cis, NEW w, Grows(T, T2, node, cis, w),
         Nested(T), Branched(T), Listed(T), Tracked(m, T),
         Moves(m, cis, T[node].CI, w)
  PROVE  Branched(T2) /\ Tracked(m, T2)
<1>1. /\ node \in DOMAIN T /\ Divides(cis, node)
      /\ \A n \in DOMAIN T2 : \/ n \in DOMAIN T
                              \/ \E i \in DOMAIN cis : n = Initials(cis[i])
      /\ \A n \in DOMAIN T : T2[n].depth = T[n].depth /\ T2[n].CI = T[n].CI
      /\ \A n \in DOMAIN T : n # node => T2[n] = T[n]
      /\ T2[node].w = w
      /\ \A i \in DOMAIN cis : T2[Initials(cis[i])] = AdsNode(cis[i], T[node].depth + 1)
  BY DEF Grows
<1>2. w \in Word /\ \A n \in DOMAIN T : T[n].w \in Word
  BY DEF Tracked, Moves
<1>3. ASSUME NEW n \in DOMAIN T
      PROVE  /\ T2[n].depth \in Nat
             /\ \E q : IsBranch(T2, n, q) /\ Len(q) = T2[n].depth
             /\ T2[n].w \in Word
             /\ Tracks(m, n, T2[n].CI, WordAlong(T2, n))
  <2>1. PICK q : IsBranch(T, n, q) /\ Len(q) = T[n].depth
    BY DEF Branched
  <2>2. IsBranch(T2, n, q) /\ WordAlong(T2, n) = WordAlong(T, n)
    BY <2>1, GrowsOldBranch
  <2>3. T[n].depth \in Nat /\ Tracks(m, n, T[n].CI, WordAlong(T, n))
    BY DEF Branched, Tracked
  <2>4. T2[n].w \in Word
    BY <1>1, <1>2
  <2> QED
    BY <1>1, <2>1, <2>2, <2>3, <2>4
<1>4. PICK q : IsBranch(T, node, q) /\ Len(q) = T[node].depth /\ T[node].depth \in Nat
  BY <1>1 DEF Branched
<1>5. ASSUME NEW i \in DOMAIN cis
      PROVE  LET n == Initials(cis[i])
             IN  /\ T2[n].depth \in Nat
                 /\ \E p : IsBranch(T2, n, p) /\ Len(p) = T2[n].depth
                 /\ T2[n].w \in Word
                 /\ Tracks(m, n, T2[n].CI, WordAlong(T2, n))
  <2> DEFINE n == Initials(cis[i])
  <2>1. /\ IsBranch(T2, n, Append(q, node)) /\ Len(Append(q, node)) = T[node].depth + 1
        /\ WordAlong(T2, n) = WordAlong(T, node) \o w
    BY <1>2, <1>4, GrowsNewBranch
  <2>2. /\ T2[n].CI = cis[i] /\ T2[n].w = <<>> /\ T2[n].depth = T[node].depth + 1
    <3>1. T2[n] = AdsNode(cis[i], T[node].depth + 1)
      BY <1>1
    <3> HIDE DEF n
    <3> QED
      BY <3>1 DEF AdsNode
  <2>3. n \subseteq node
    BY <1>1 DEF Divides
  <2>4. WellListed(T[node].CI) /\ Tracks(m, node, T[node].CI, WordAlong(T, node))
    BY <1>1 DEF Listed, Tracked
  <2>5. Tracks(m, n, cis[i], WordAlong(T, node) \o w)
    BY <2>3, <2>4, ChildTracks
  <2>6. <<>> \in Word /\ T[node].depth + 1 \in Nat
    BY <1>4, EmptySeq DEF Word
  <2> HIDE DEF n
  <2>7. /\ T2[n].depth \in Nat
        /\ \E p : IsBranch(T2, n, p) /\ Len(p) = T2[n].depth
        /\ T2[n].w \in Word
        /\ Tracks(m, n, T2[n].CI, WordAlong(T2, n))
    BY <2>1, <2>2, <2>5, <2>6
  <2> QED
    BY <2>7 DEF n
<1>6. ASSUME NEW n \in DOMAIN T2
      PROVE  /\ T2[n].depth \in Nat
             /\ \E p : IsBranch(T2, n, p) /\ Len(p) = T2[n].depth
             /\ T2[n].w \in Word
             /\ Tracks(m, n, T2[n].CI, WordAlong(T2, n))
  <2>1. CASE n \in DOMAIN T
    BY <1>3, <2>1
  <2>2. CASE \E i \in DOMAIN cis : n = Initials(cis[i])
    BY <1>5, <2>2
  <2> QED
    BY <1>1, <2>1, <2>2
<1> QED
  BY <1>6 DEF Branched, Tracked

(* The children of a node, at least two, share out its states.             *)
Shared(T) ==
  \A n \in DOMAIN T :
    /\ T[n].children \in Seq(DOMAIN T)
    /\ T[n].children # <<>> =>
         /\ Len(T[n].children) > 1
         /\ UNION {T[n].children[i] : i \in DOMAIN T[n].children} = n
         /\ \A i, j \in DOMAIN T[n].children :
              i # j => T[n].children[i] \cap T[n].children[j] = {}

(* Growth keeps that the children share out their parents.                 *)
LEMMA GrowsShared ==
  ASSUME NEW T, NEW T2, NEW node, NEW cis, NEW w, Grows(T, T2, node, cis, w),
         Shared(T)
  PROVE  /\ T2[node].children \in Seq(DOMAIN T2)
         /\ Len(T2[node].children) = Len(cis)
         /\ Shared(T2)
<1> DEFINE part(i) == Initials(cis[i])
           parts == [i \in DOMAIN cis |-> part(i)]
<1>1. /\ Divides(cis, node)
      /\ DOMAIN T \subseteq DOMAIN T2
      /\ \A n \in DOMAIN T2 : n \in DOMAIN T \/ \E i \in DOMAIN cis : n = part(i)
      /\ \A n \in DOMAIN T : n # node => T2[n] = T[n]
      /\ T2[node].children = parts
      /\ \A i \in DOMAIN cis : /\ part(i) \in DOMAIN T2
                               /\ T2[part(i)] = AdsNode(cis[i], T[node].depth + 1)
  BY DEF Grows
<1>2. DOMAIN cis = 1 .. Len(cis) /\ Len(cis) \in Nat /\ Len(cis) > 1
  BY <1>1, LenProperties DEF Divides
<1>3. /\ UNION {part(i) : i \in DOMAIN cis} = node
      /\ \A i, j \in DOMAIN cis : i # j => part(i) \cap part(j) = {}
  BY <1>1 DEF Divides
<1> HIDE DEF part
<1>4. parts \in Seq(DOMAIN T2) /\ Len(parts) = Len(cis)
  BY <1>1, <1>2
<1>5. DOMAIN parts = DOMAIN cis /\ \A i \in DOMAIN cis : parts[i] = part(i)
  OBVIOUS
<1> HIDE DEF parts
<1>6. ASSUME NEW n \in DOMAIN T2
      PROVE  /\ T2[n].children \in Seq(DOMAIN T2)
             /\ T2[n].children # <<>> =>
                  /\ Len(T2[n].children) > 1
                  /\ UNION {T2[n].children[i] : i \in DOMAIN T2[n].children} = n
                  /\ \A i, j \in DOMAIN T2[n].children :
                       i # j => T2[n].children[i] \cap T2[n].children[j] = {}
  <2>1. CASE n = node
    <3>1. UNION {parts[i] : i \in DOMAIN parts} = node
      BY <1>3, <1>5
    <3>2. \A i, j \in DOMAIN parts : i # j => parts[i] \cap parts[j] = {}
      BY <1>3, <1>5
    <3> QED
      BY <1>1, <1>2, <1>4, <2>1, <3>1, <3>2
  <2>2. CASE n # node /\ n \in DOMAIN T
    <3>1. T2[n] = T[n]
      BY <1>1, <2>2
    <3>2. T[n].children \in Seq(DOMAIN T2)
      BY <1>1, <2>2, SeqMonotonic DEF Shared
    <3>3. T[n].children # <<>> =>
            /\ Len(T[n].children) > 1
            /\ UNION {T[n].children[i] : i \in DOMAIN T[n].children} = n
            /\ \A i, j \in DOMAIN T[n].children :
                 i # j => T[n].children[i] \cap T[n].children[j] = {}
      BY <2>2 DEF Shared
    <3> QED
      BY <3>1, <3>2, <3>3
  <2>3. CASE n \notin DOMAIN T
    <3>1. PICK i \in DOMAIN cis : n = part(i)
      BY <1>1, <2>3
    <3>2. T2[n] = AdsNode(cis[i], T[node].depth + 1)
      BY <1>1, <3>1
    <3>3. T2[n].children = <<>>
      BY <3>2 DEF AdsNode
    <3> QED
      BY <3>3, EmptySeq
  <2> QED
    BY <2>1, <2>2, <2>3
<1>7. Shared(T2)
  BY <1>6 DEF Shared
<1> QED
  BY <1>1, <1>4, <1>7

(* Growth keeps that a node is named by its list.                          *)
LEMMA GrowsListed ==
  ASSUME NEW T, NEW T2, NEW node, NEW cis, NEW w, Grows(T, T2, node, cis, w),
         Listed(T),
         \A i \in DOMAIN cis : WellListed(cis[i])
  PROVE  Listed(T2)
<1>1. /\ Divides(cis, node) /\ node \in DOMAIN T
      /\ \A n \in DOMAIN T2 : n \in DOMAIN T \/ \E i \in DOMAIN cis : n = Initials(cis[i])
      /\ \A n \in DOMAIN T : T2[n].CI = T[n].CI
      /\ \A i \in DOMAIN cis : T2[Initials(cis[i])] = AdsNode(cis[i], T[node].depth + 1)
  BY DEF Grows
<1>2. ASSUME NEW n \in DOMAIN T
      PROVE  n \in Node /\ WellListed(T2[n].CI) /\ Initials(T2[n].CI) = n
  BY <1>1 DEF Listed
<1>3. ASSUME NEW i \in DOMAIN cis, NEW n, n = Initials(cis[i])
      PROVE  n \in Node /\ WellListed(T2[n].CI) /\ Initials(T2[n].CI) = n
  <2>1. T2[n] = AdsNode(cis[i], T[node].depth + 1)
    BY <1>1, <1>3
  <2>2. T2[n].CI = cis[i]
    BY <2>1 DEF AdsNode
  <2>3. n # {} /\ n \subseteq node /\ node \subseteq State
    BY <1>1, <1>3 DEF Divides, Listed, Node
  <2> QED
    BY <1>3, <2>2, <2>3 DEF Node
<1> QED
  BY <1>1, <1>2, <1>3 DEF Listed

-----------------------------------------------------------------------------
(* What the words along the branches tell apart.                           *)

(* v and w have a common prefix that all states of x answer otherwise than *)
(* all states of y.                                                        *)
Told(m, x, y, v, w) ==
  \E k \in 1 .. Len(v) :
    /\ k <= Len(w)
    /\ SubSeq(v, 1, k) = SubSeq(w, 1, k)
    /\ \A s \in x, t \in y :
         applyWord(m, s, SubSeq(v, 1, k)).out # applyWord(m, t, SubSeq(v, 1, k)).out

(* Nodes without a common state are told apart by the words along their    *)
(* branches.                                                               *)
Apart(m, T) ==
  \A x, y \in DOMAIN T :
    x \cap y = {} => Told(m, x, y, WordAlong(T, x), WordAlong(T, y))

(* The word along the branch to a child is that to its parent, and then    *)
(* the word of the parent.                                                 *)
Linked(T) ==
  \A n \in DOMAIN T : \A i \in DOMAIN T[n].children :
    WordAlong(T, T[n].children[i]) = WordAlong(T, n) \o T[n].w

(* It does not matter which comes first.                                   *)
LEMMA ToldSymmetric ==
  ASSUME NEW m, NEW x, NEW y, NEW v \in Word, NEW w \in Word, Told(m, x, y, v, w)
  PROVE  Told(m, y, x, w, v)
<1>1. PICK k \in 1 .. Len(v) :
        /\ k <= Len(w)
        /\ SubSeq(v, 1, k) = SubSeq(w, 1, k)
        /\ \A s \in x, t \in y :
             applyWord(m, s, SubSeq(v, 1, k)).out # applyWord(m, t, SubSeq(v, 1, k)).out
  BY DEF Told
<1>2. Len(v) \in Nat /\ Len(w) \in Nat
  BY LenProperties DEF Word
<1>3. k \in 1 .. Len(w) /\ k <= Len(v)
  BY <1>1, <1>2
<1>4. \A t \in y, s \in x :
        applyWord(m, t, SubSeq(w, 1, k)).out # applyWord(m, s, SubSeq(w, 1, k)).out
  BY <1>1
<1> QED
  BY <1>1, <1>3, <1>4 DEF Told

(* Longer words and fewer states do no harm.                               *)
LEMMA ToldOn ==
  ASSUME NEW m, NEW x, NEW x2 \in SUBSET x, NEW y, NEW v \in Word, NEW v2 \in Word,
         NEW w \in Word, Told(m, x, y, v, w)
  PROVE  Told(m, x2, y, v \o v2, w)
<1>1. PICK k \in 1 .. Len(v) :
        /\ k <= Len(w)
        /\ SubSeq(v, 1, k) = SubSeq(w, 1, k)
        /\ \A s \in x, t \in y :
             applyWord(m, s, SubSeq(v, 1, k)).out # applyWord(m, t, SubSeq(v, 1, k)).out
  BY DEF Told
<1>2. Len(v) \in Nat /\ Len(v2) \in Nat /\ Len(v \o v2) = Len(v) + Len(v2)
  BY LenProperties, ConcatProperties DEF Word
<1>3. k \in 1 .. Len(v \o v2) /\ k <= Len(v)
  BY <1>2
<1>4. SubSeq(v \o v2, 1, k) = SubSeq(v, 1, k)
  BY <1>3, PrefixConcat
<1> QED
  BY <1>1, <1>3, <1>4 DEF Told

(* The words after a node has got its children.                            *)
LEMMA GrowsWords ==
  ASSUME NEW m, NEW T, NEW T2, NEW node, NEW cis, NEW w, Grows(T, T2, node, cis, w),
         Nested(T), Branched(T), Tracked(m, T), w \in Word
  PROVE  /\ \A n \in DOMAIN T : WordAlong(T2, n) = WordAlong(T, n)
         /\ \A i \in DOMAIN cis :
              WordAlong(T2, Initials(cis[i])) = WordAlong(T, node) \o w
<1>1. ASSUME NEW n \in DOMAIN T PROVE WordAlong(T2, n) = WordAlong(T, n)
  <2>1. PICK q : IsBranch(T, n, q) /\ Len(q) = T[n].depth
    BY DEF Branched
  <2> QED
    BY <2>1, GrowsOldBranch
<1>2. ASSUME NEW i \in DOMAIN cis
      PROVE  WordAlong(T2, Initials(cis[i])) = WordAlong(T, node) \o w
  <2>1. node \in DOMAIN T
    BY DEF Grows
  <2>2. PICK q : IsBranch(T, node, q) /\ Len(q) = T[node].depth
    BY <2>1 DEF Branched
  <2>3. \A n \in DOMAIN T : T[n].w \in Word
    BY DEF Tracked
  <2> QED
    BY <2>2, <2>3, GrowsNewBranch
<1> QED
  BY <1>1, <1>2

(* Growth keeps the words linked.                                          *)
LEMMA GrowsLinked ==
  ASSUME NEW m, NEW T, NEW T2, NEW node, NEW cis, NEW w, Grows(T, T2, node, cis, w),
         Nested(T), Branched(T), Tracked(m, T), w \in Word, Shared(T), Linked(T)
  PROVE  Linked(T2)
<1>1. /\ node \in DOMAIN T
      /\ \A n \in DOMAIN T2 : \/ n \in DOMAIN T
                              \/ \E i \in DOMAIN cis : n = Initials(cis[i])
      /\ \A n \in DOMAIN T : n # node => T2[n] = T[n]
      /\ T2[node].w = w
      /\ T2[node].children = [i \in DOMAIN cis |-> Initials(cis[i])]
      /\ \A i \in DOMAIN cis : T2[Initials(cis[i])] = AdsNode(cis[i], T[node].depth + 1)
  BY DEF Grows
<1>2. /\ \A n \in DOMAIN T : WordAlong(T2, n) = WordAlong(T, n)
      /\ \A i \in DOMAIN cis :
           WordAlong(T2, Initials(cis[i])) = WordAlong(T, node) \o w
  BY GrowsWords
<1> SUFFICES ASSUME NEW n \in DOMAIN T2, NEW i \in DOMAIN T2[n].children
             PROVE  WordAlong(T2, T2[n].children[i]) = WordAlong(T2, n) \o T2[n].w
  BY DEF Linked
<1>3. CASE n \in DOMAIN T /\ n # node
  <2> DEFINE c == T[n].children
  <2>1. T2[n] = T[n] /\ c \in Seq(DOMAIN T) /\ i \in DOMAIN c
    BY <1>1, <1>3 DEF Shared
  <2>2. c[i] \in DOMAIN T
    BY <2>1, LenProperties, ElementOfSeq
  <2> QED
    BY <1>2, <1>3, <2>1, <2>2 DEF Linked
<1>4. CASE n = node
  <2>1. i \in DOMAIN cis /\ T2[n].children[i] = Initials(cis[i]) /\ T2[n].w = w
    BY <1>1, <1>4
  <2> QED
    BY <1>1, <1>2, <1>4, <2>1
<1>5. CASE \E j \in DOMAIN cis : n = Initials(cis[j])
  <2>1. PICK j \in DOMAIN cis : n = Initials(cis[j])
    BY <1>5
  <2>2. T2[n] = AdsNode(cis[j], T[node].depth + 1)
    BY <1>1, <2>1
  <2>3. T2[n].children = <<>>
    BY <2>2 DEF AdsNode
  <2> QED
    BY <2>3, EmptySeq
<1> QED
  BY <1>1, <1>3, <1>4, <1>5

(* Growth keeps the nodes told apart: the children of a node by its word,  *)
(* a child and another node by what told the parent and that node apart.   *)
LEMMA GrowsApart ==
  ASSUME NEW m \in Machine,
         NEW T, NEW T2, NEW node, NEW cis, NEW w, Grows(T, T2, node, cis, w),
         Nested(T), Branched(T), Listed(T), Tracked(m, T),
         Moves(m, cis, T[node].CI, w), Parts(m, cis, T[node].CI, w), Apart(m, T)
  PROVE  Apart(m, T2)
<1> DEFINE part(i) == Initials(cis[i])
           CI == T[node].CI
           v == WordAlong(T, node)
<1>1. /\ node \in DOMAIN T /\ T[node].children = <<>> /\ Divides(cis, node)
      /\ \A n \in DOMAIN T2 : n \in DOMAIN T \/ \E i \in DOMAIN cis : n = part(i)
      /\ \A i \in DOMAIN cis : part(i) \subseteq node /\ part(i) # {}
  BY DEF Grows, Divides
<1>2. w \in Word /\ w # <<>>
  BY DEF Moves
<1>3. /\ \A n \in DOMAIN T : WordAlong(T2, n) = WordAlong(T, n)
      /\ \A i \in DOMAIN cis : WordAlong(T2, part(i)) = v \o w
  BY <1>2, GrowsWords
<1>4. Initials(CI) = node /\ WellListed(CI) /\ Tracks(m, node, CI, v)
  BY <1>1 DEF Listed, Tracked
<1>5. \A n \in DOMAIN T : WordAlong(T, n) \in Word
  BY DEF Tracked, Tracks
<1>6. /\ v \in Word /\ v \o w \in Word
      /\ \A s \in State : applyWord(m, s, v \o w) = applyWord(m, applyWord(m, s, v).to, w)
  BY <1>1, <1>2, <1>5, ApplyConcat
<1> HIDE DEF v, CI, part
<1>7. ASSUME NEW i \in DOMAIN cis, NEW y \in DOMAIN T, part(i) \cap y = {}
      PROVE  Told(m, part(i), y, v \o w, WordAlong(T, y))
  <2>1. node \cap y = {}
    <3> SUFFICES ASSUME node \cap y # {} PROVE FALSE
      OBVIOUS
    <3>1. y \subseteq node \/ node \subseteq y
      BY <1>1 DEF Nested
    <3>2. y \subseteq node => y = node
      BY <1>1 DEF Nested
    <3>3. node \subseteq y
      BY <3>1, <3>2
    <3> QED
      BY <1>1, <1>7, <3>3
  <2>2. Told(m, node, y, v, WordAlong(T, y))
    BY <1>1, <2>1 DEF Apart, v
  <2>3. part(i) \in SUBSET node
    BY <1>1
  <2> QED
    BY <1>2, <1>5, <1>6, <2>2, <2>3, ToldOn
<1>8. ASSUME NEW i \in DOMAIN cis, NEW j \in DOMAIN cis, part(i) \cap part(j) = {}
      PROVE  Told(m, part(i), part(j), v \o w, v \o w)
  <2>1. i # j
    BY <1>1, <1>8
  <2>2. ASSUME NEW n \in node
        PROVE  \E x \in DOMAIN CI : /\ CI[x][2] = n
                                    /\ applyWord(m, n, v \o w) = applyWord(m, CI[x][1], w)
    <3>1. PICK x \in DOMAIN CI : CI[x][2] = n
      BY <1>4 DEF Initials
    <3>2. CI[x][1] = applyWord(m, CI[x][2], v).to
      BY <1>4 DEF Tracks
    <3>3. n \in State
      BY <1>1 DEF Listed, Node
    <3> QED
      BY <1>6, <3>1, <3>2, <3>3
  <2>3. ASSUME NEW s \in part(i), NEW t \in part(j)
        PROVE  applyWord(m, s, v \o w).out # applyWord(m, t, v \o w).out
    <3>1. PICK x \in DOMAIN CI : /\ CI[x][2] = s
                                 /\ applyWord(m, s, v \o w) = applyWord(m, CI[x][1], w)
      BY <1>1, <2>2
    <3>2. PICK y \in DOMAIN CI : /\ CI[y][2] = t
                                 /\ applyWord(m, t, v \o w) = applyWord(m, CI[y][1], w)
      BY <1>1, <2>2
    <3>3. applyWord(m, CI[x][1], w).out # applyWord(m, CI[y][1], w).out
      BY <2>1, <3>1, <3>2 DEF Parts, part, CI
    <3> QED
      BY <3>1, <3>2, <3>3
  <2> DEFINE z == v \o w
  <2>4. /\ Len(v) \in Nat /\ Len(w) \in Nat /\ Len(z) = Len(v) + Len(w)
        /\ Len(w) # 0
    BY <1>2, <1>6, LenProperties, ConcatProperties, EmptySeq DEF Word
  <2>5. z \in Seq(Input)
    BY <1>6 DEF Word
  <2>6. \A s \in part(i), t \in part(j) : applyWord(m, s, z).out # applyWord(m, t, z).out
    BY <2>3
  <2> HIDE DEF z
  <2>7. Len(z) \in 1 .. Len(z)
    BY <2>4
  <2>8. SubSeq(z, 1, Len(z)) = z
    BY <2>5, SubSeqFull
  <2>9. Told(m, part(i), part(j), z, z)
    <3>1. PICK k \in 1 .. Len(z) : k = Len(z)
      BY <2>7
    <3>2. k <= Len(z) /\ SubSeq(z, 1, k) = z
      BY <2>4, <2>8, <3>1
    <3>3. \A s \in part(i), t \in part(j) :
            applyWord(m, s, SubSeq(z, 1, k)).out # applyWord(m, t, SubSeq(z, 1, k)).out
      BY <2>6, <3>2
    <3> QED
      BY <3>2, <3>3 DEF Told
  <2> QED
    BY <2>9 DEF z
<1>9. ASSUME NEW x \in DOMAIN T2, NEW y \in DOMAIN T2, x \cap y = {}
      PROVE  Told(m, x, y, WordAlong(T2, x), WordAlong(T2, y))
  <2>1. CASE x \in DOMAIN T /\ y \in DOMAIN T
    BY <1>3, <1>9, <2>1 DEF Apart
  <2>2. ASSUME NEW i \in DOMAIN cis, x = part(i), y \in DOMAIN T
        PROVE  Told(m, x, y, WordAlong(T2, x), WordAlong(T2, y))
    BY <1>3, <1>7, <1>9, <2>2
  <2>3. ASSUME NEW i \in DOMAIN cis, y = part(i), x \in DOMAIN T
        PROVE  Told(m, x, y, WordAlong(T2, x), WordAlong(T2, y))
    <3>1. part(i) \cap x = {}
      BY <1>9, <2>3
    <3>2. Told(m, y, x, v \o w, WordAlong(T, x))
      BY <1>7, <2>3, <3>1
    <3>3. Told(m, x, y, WordAlong(T, x), v \o w)
      BY <1>5, <1>6, <2>3, <3>2, ToldSymmetric
    <3> QED
      BY <1>3, <2>3, <3>3
  <2>4. ASSUME NEW i \in DOMAIN cis, NEW j \in DOMAIN cis, x = part(i), y = part(j)
        PROVE  Told(m, x, y, WordAlong(T2, x), WordAlong(T2, y))
    <3>0. part(i) \cap part(j) = {}
      BY <1>9, <2>4
    <3>1. Told(m, part(i), part(j), v \o w, v \o w)
      BY <1>8, <3>0
    <3>2. WordAlong(T2, part(i)) = v \o w /\ WordAlong(T2, part(j)) = v \o w
      BY <1>3
    <3> QED
      BY <2>4, <3>1, <3>2
  <2> QED
    BY <1>1, <2>1, <2>2, <2>3, <2>4
<1> QED
  BY <1>9 DEF Apart

-----------------------------------------------------------------------------
(* The queue.                                                              *)

(* The queue holds nodes without children, none twice.                     *)
Waiting(T, q) ==
  /\ q \in Seq(DOMAIN T)
  /\ \A i \in DOMAIN q : T[q[i]].children = <<>>
  /\ \A i, j \in DOMAIN q : q[i] = q[j] => i = j

(* The queue without its head.                                             *)
LEMMA TailWaits ==
  ASSUME NEW T, NEW q, Waiting(T, q), q # <<>>
  PROVE  /\ Waiting(T, Tail(q)) /\ Head(q) \in DOMAIN T
         /\ T[Head(q)].children = <<>>
         /\ \A i \in DOMAIN Tail(q) : Tail(q)[i] # Head(q)
         /\ \A i \in DOMAIN q : q[i] # Head(q) =>
              \E j \in DOMAIN Tail(q) : Tail(q)[j] = q[i]
<1> DEFINE t == Tail(q)
<1>1. /\ q \in Seq(DOMAIN T) /\ DOMAIN q = 1 .. Len(q) /\ Len(q) \in Nat /\ Len(q) > 0
      /\ Head(q) = q[1] /\ 1 \in DOMAIN q
  <2>1. q \in Seq(DOMAIN T) /\ Len(q) > 0 /\ DOMAIN q = 1 .. Len(q) /\ Len(q) \in Nat
    BY LenProperties, EmptySeq DEF Waiting
  <2> QED
    BY <2>1
<1>2. /\ t \in Seq(DOMAIN T) /\ Len(t) = Len(q) - 1 /\ DOMAIN t = 1 .. Len(q) - 1
      /\ \A i \in 1 .. Len(q) - 1 : t[i] = q[i + 1]
  <2>1. t \in Seq(DOMAIN T) /\ Len(t) = Len(q) - 1
        /\ \A i \in 1 .. Len(q) - 1 : t[i] = q[i + 1]
    BY <1>1
  <2> HIDE DEF t
  <2> QED
    BY <2>1, LenProperties
<1> HIDE DEF t
<1>3. \A i \in DOMAIN t : i + 1 \in DOMAIN q /\ i + 1 # 1 /\ t[i] = q[i + 1]
  BY <1>1, <1>2
<1>4. \A i \in DOMAIN t : T[t[i]].children = <<>>
  BY <1>3 DEF Waiting
<1>5. ASSUME NEW i \in DOMAIN t, NEW j \in DOMAIN t, t[i] = t[j] PROVE i = j
  <2>1. i + 1 = j + 1
    BY <1>3, <1>5 DEF Waiting
  <2> QED
    BY <1>2, <2>1
<1>6. \A i \in DOMAIN t : t[i] # Head(q)
  BY <1>1, <1>3 DEF Waiting
<1>7. ASSUME NEW i \in DOMAIN q, q[i] # Head(q)
      PROVE  \E j \in DOMAIN t : t[j] = q[i]
  <2>1. i # 1 /\ i - 1 \in DOMAIN t /\ (i - 1) + 1 = i
    BY <1>1, <1>2, <1>7
  <2> QED
    BY <1>3, <2>1
<1>8. Waiting(T, t)
  BY <1>2, <1>4, <1>5 DEF Waiting
<1> QED
  BY <1>1, <1>6, <1>7, <1>8 DEF t, Waiting

(* The queue after a node has got its children.                            *)
LEMMA GrowsWaiting ==
  ASSUME NEW T, NEW T2, NEW node, NEW cis, NEW w, Grows(T, T2, node, cis, w),
         NEW q, Waiting(T, q), \A i \in DOMAIN q : q[i] # node
  PROVE  LET c == T2[node].children
         IN  /\ c \in Seq(DOMAIN T2) => Waiting(T2, q \o c)
             /\ \A i \in DOMAIN q : \E j \in DOMAIN (q \o c) : (q \o c)[j] = q[i]
             /\ \A i \in DOMAIN cis :
                  \E j \in DOMAIN (q \o c) : (q \o c)[j] = Initials(cis[i])
<1> DEFINE part(i) == Initials(cis[i])
           c == T2[node].children
           p == q \o c
<1>1. /\ Divides(cis, node) /\ node \in DOMAIN T
      /\ DOMAIN T \subseteq DOMAIN T2
      /\ \A n \in DOMAIN T : n # node => T2[n] = T[n]
      /\ c = [i \in DOMAIN cis |-> part(i)]
      /\ \A i \in DOMAIN cis : /\ part(i) \in DOMAIN T2 /\ part(i) \notin DOMAIN T
                               /\ T2[part(i)] = AdsNode(cis[i], T[node].depth + 1)
  BY DEF Grows
<1>2. DOMAIN cis = 1 .. Len(cis) /\ Len(cis) \in Nat
  BY <1>1, LenProperties DEF Divides
<1>3. /\ \A i \in DOMAIN cis : part(i) # {}
      /\ \A i, j \in DOMAIN cis : i # j => part(i) \cap part(j) = {}
  BY <1>1 DEF Divides
<1> HIDE DEF part
<1>4. /\ DOMAIN c = DOMAIN cis /\ \A i \in DOMAIN cis : c[i] = part(i)
      /\ c \in Seq(DOMAIN T2) /\ Len(c) = Len(cis)
  BY <1>1, <1>2
<1> HIDE DEF c
<1>5. /\ q \in Seq(DOMAIN T2) /\ DOMAIN q = 1 .. Len(q) /\ Len(q) \in Nat
      /\ \A i \in DOMAIN q : q[i] \in DOMAIN T
  BY <1>1, LenProperties, ElementOfSeq, SeqMonotonic DEF Waiting
<1>6. /\ p \in Seq(DOMAIN T2) /\ Len(p) = Len(q) + Len(c)
      /\ DOMAIN p = 1 .. Len(q) + Len(c)
      /\ \A i \in 1 .. Len(q) + Len(c) :
           p[i] = IF i <= Len(q) THEN q[i] ELSE c[i - Len(q)]
  BY <1>4, <1>5, ConcatProperties, LenProperties
<1> HIDE DEF p
<1>7. \A i \in 1 .. Len(q) : i \in DOMAIN p /\ p[i] = q[i]
  BY <1>2, <1>4, <1>5, <1>6
<1>8. \A i \in DOMAIN cis : i + Len(q) \in DOMAIN p /\ p[i + Len(q)] = part(i)
  BY <1>2, <1>4, <1>5, <1>6
<1>9. ASSUME NEW i \in DOMAIN p
      PROVE  \/ i \in DOMAIN q /\ p[i] = q[i]
             \/ i - Len(q) \in DOMAIN cis /\ p[i] = part(i - Len(q))
  BY <1>2, <1>4, <1>5, <1>6
<1>10. \A i \in DOMAIN q : T2[q[i]].children = <<>>
  BY <1>1, <1>5 DEF Waiting
<1>11. ASSUME NEW i \in DOMAIN cis PROVE T2[part(i)].children = <<>>
  <2>1. T2[part(i)] = AdsNode(cis[i], T[node].depth + 1)
    BY <1>1
  <2> QED
    BY <2>1 DEF AdsNode
<1>12. \A i \in DOMAIN p : T2[p[i]].children = <<>>
  BY <1>9, <1>10, <1>11
<1>13. ASSUME NEW i \in DOMAIN p, NEW j \in DOMAIN p, p[i] = p[j] PROVE i = j
  <2>1. CASE i \in DOMAIN q /\ j \in DOMAIN q /\ p[i] = q[i] /\ p[j] = q[j]
    BY <1>13, <2>1 DEF Waiting
  <2>2. CASE /\ i - Len(q) \in DOMAIN cis /\ p[i] = part(i - Len(q))
             /\ j - Len(q) \in DOMAIN cis /\ p[j] = part(j - Len(q))
    <3>1. i - Len(q) = j - Len(q)
      BY <1>3, <1>13, <2>2
    <3> QED
      BY <1>2, <1>4, <1>5, <1>6, <3>1
  <2>3. ASSUME NEW x \in DOMAIN q, NEW y \in DOMAIN cis, q[x] = part(y) PROVE FALSE
    BY <1>1, <1>5, <2>3
  <2> QED
    BY <1>9, <1>13, <2>1, <2>2, <2>3
<1>14. Waiting(T2, p)
  BY <1>6, <1>12, <1>13 DEF Waiting
<1>15. \A i \in DOMAIN q : \E j \in DOMAIN p : p[j] = q[i]
  BY <1>5, <1>7
<1>16. \A i \in DOMAIN cis : \E j \in DOMAIN p : p[j] = part(i)
  BY <1>8
<1> QED
  BY <1>14, <1>15, <1>16 DEF p, c, part

-----------------------------------------------------------------------------
(* The invariant.                                                          *)

IsNode(r) ==
  r = [CI |-> r.CI, children |-> r.children, w |-> r.w, depth |-> r.depth]

(* A node without children waits, or nothing tells its states apart.       *)
NoneForgotten ==
  \A n \in DOMAIN sequence :
    sequence[n].children = <<>> =>
      \/ \E i \in DOMAIN ads_work : ads_work[i] = n
      \/ pc = "returned" /\ Unsplittable(sequence[n].CI)

(* The decision tree is not begun before the splitting tree is there, and  *)
(* the queue is empty in the end.                                          *)
InTurn ==
  /\ pc = "loop" => AdsInit
  /\ ads_pc \in {"loop", "returned"}
  /\ ads_pc = "returned" => ads_work = <<>>

AInv ==
  /\ \A n \in DOMAIN sequence : IsNode(sequence[n])
  /\ Nested(sequence)
  /\ Branched(sequence)
  /\ Listed(sequence)
  /\ Shared(sequence)
  /\ Tracked(g, sequence)
  /\ Linked(sequence)
  /\ Apart(g, sequence)
  /\ Waiting(sequence, ads_work)
  /\ NoneForgotten
  /\ InTurn

(* What a decision tree is at any time: nodes inside one another, whose    *)
(* words track the machine and tell apart what is not in the same node.    *)
Decides(m, T) ==
  /\ \A n \in DOMAIN T : IsNode(T[n])
  /\ Nested(T)
  /\ Branched(T)
  /\ Listed(T)
  /\ Shared(T)
  /\ Tracked(m, T)
  /\ Linked(T)
  /\ Apart(m, T)

(* The word along the branch to the root is empty.                         *)
LEMMA RootWord ==
  ASSUME NEW T, \A n \in DOMAIN T : ~ (State \subseteq n /\ n # State)
  PROVE  /\ IsBranch(T, State, <<>>) /\ Len(<<>>) = 0
         /\ WordAlong(T, State) = <<>>
<1>1. PICK q : q = <<>>
  OBVIOUS
<1>2. q \in Seq(DOMAIN T) /\ DOMAIN q = {} /\ Len(q) = 0
  BY <1>1, EmptySeq
<1>3. IsBranch(T, State, q)
  BY <1>2 DEF IsBranch
<1>4. WordAlong(T, State) = FlattenSeq([k \in 1 .. Len(q) |-> T[q[k]].w])
  BY <1>3, WordAlongBranch
<1>5. [k \in 1 .. Len(q) |-> T[q[k]].w] = <<>>
  BY <1>2, SMTT(30)
<1>6. WordAlong(T, State) = <<>>
  BY <1>4, <1>5 DEF FlattenSeq
<1> QED
  BY <1>1, <1>2, <1>3, <1>6

(* The root alone is such a tree: it tracks with the empty word.           *)
LEMMA RootDecides ==
  ASSUME NEW m \in Machine, NEW T,
         T = [n \in {State} |-> AdsNode([k \in 1 .. N |-> <<k - 1, k - 1>>], 0)]
  PROVE  Decides(m, T)
<1> DEFINE CI == [k \in 1 .. N |-> <<k - 1, k - 1>>]
<1>1. DOMAIN T = {State} /\ T[State] = AdsNode(CI, 0)
  OBVIOUS
<1>2. N \in Nat /\ State \in Node
  <2>1. 0 \in State
    BY SizesAssumption DEF State
  <2> QED
    BY <2>1, SizesAssumption DEF Node
<1>3. /\ T[State].CI = CI /\ T[State].children = <<>>
      /\ T[State].w = <<>> /\ T[State].depth = 0
      /\ IsNode(T[State])
  BY <1>1 DEF AdsNode, IsNode
<1>4. /\ \A k \in 1 .. N : k - 1 \in State /\ CI[k] = <<k - 1, k - 1>>
      /\ DOMAIN CI = 1 .. N
      /\ \A s \in State : s + 1 \in 1 .. N /\ (s + 1) - 1 = s
  BY <1>2 DEF State
<1>5. CI \in Seq(State \X State)
  BY <1>2, <1>4
<1> HIDE DEF CI
<1>6. WellListed(CI)
  <2>1. \A k, l \in 1 .. N : k < l => CI[k][1] < CI[l][1]
    BY <1>2, <1>4
  <2>2. \A k, l \in 1 .. N : CI[k][2] = CI[l][2] => k = l
    BY <1>2, <1>4
  <2> QED
    BY <1>4, <1>5, <2>1, <2>2 DEF WellListed
<1>7. Initials(CI) = State
  <2>1. \A s \in Initials(CI) : s \in State
    BY <1>4 DEF Initials
  <2>2. ASSUME NEW s \in State PROVE s \in Initials(CI)
    <3>1. s + 1 \in DOMAIN CI /\ CI[s + 1][2] = s
      BY <1>4
    <3> QED
      BY <3>1 DEF Initials
  <2> QED
    BY <2>1, <2>2
<1>8. Nested(T) /\ Listed(T) /\ Shared(T)
  <2>1. Nested(T)
    BY <1>1 DEF Nested
  <2>2. Listed(T)
    BY <1>1, <1>2, <1>3, <1>6, <1>7 DEF Listed
  <2>3. Shared(T)
    BY <1>1, <1>3, EmptySeq DEF Shared
  <2> QED
    BY <2>1, <2>2, <2>3
<1>9. IsBranch(T, State, <<>>) /\ Len(<<>>) = 0 /\ WordAlong(T, State) = <<>>
  <2>1. \A n \in DOMAIN T : n = State
    BY <1>1
  <2> QED
    BY <2>1, RootWord
<1>10. Branched(T)
  <2>1. T[State].depth \in Nat /\ Len(<<>>) = T[State].depth
    BY <1>3, <1>9
  <2>2. \E q : IsBranch(T, State, q) /\ Len(q) = T[State].depth
    BY <1>9, <2>1, Zenon
  <2>3. \A n \in DOMAIN T : n = State
    BY <1>1
  <2> QED
    BY <2>1, <2>2, <2>3, Zenon DEF Branched
<1>11. Tracks(m, State, CI, <<>>)
  <2>1. <<>> \in Word /\ Len(<<>>) = 0
    BY EmptySeq DEF Word
  <2>2. ASSUME NEW s \in State PROVE applyWord(m, s, <<>>).to = s
    <3>1. PICK f : IsRun(m, s, <<>>, f) /\ applyWord(m, s, <<>>) = f[Len(<<>>)]
      BY <1>2, <2>1, ApplyRun
    <3> QED
      BY <3>1 DEF IsRun
  <2>3. \A k \in DOMAIN CI : CI[k][1] = applyWord(m, CI[k][2], <<>>).to
    BY <1>4, <2>2
  <2> QED
    BY <2>1, <2>3 DEF Tracks
<1>12. Tracked(m, T)
  <2>1. <<>> \in Word
    BY EmptySeq DEF Word
  <2> QED
    BY <1>1, <1>3, <1>9, <1>11, <2>1 DEF Tracked
<1>13. Linked(T) /\ Apart(m, T)
  <2>1. Linked(T)
    BY <1>1, <1>3, EmptySeq DEF Linked
  <2>2. State # {}
    BY <1>2 DEF Node
  <2> QED
    BY <1>1, <2>1, <2>2 DEF Apart
<1> QED
  BY <1>1, <1>3, <1>8, <1>10, <1>12, <1>13 DEF Decides

(* The decision tree is not begun.                                         *)
LEMMA AdsInitAInv == g \in Machine /\ AdsInit => AInv
<1> SUFFICES ASSUME g \in Machine, AdsInit PROVE AInv
  OBVIOUS
<1>1. Decides(g, sequence)
  BY RootDecides DEF AdsInit
<1>2. /\ DOMAIN sequence = {State} /\ sequence[State].children = <<>>
      /\ ads_work \in Seq(DOMAIN sequence) /\ DOMAIN ads_work = {1}
      /\ ads_work[1] = State /\ ads_pc = "loop"
  BY DEF AdsInit, AdsNode
<1>3. Waiting(sequence, ads_work) /\ NoneForgotten
  BY <1>2 DEF Waiting, NoneForgotten
<1>4. InTurn
  BY <1>2 DEF InTurn
<1> QED
  BY <1>1, <1>3, <1>4 DEF Decides, AInv

(* A node is left alone.                                                   *)
LEMMA AdsLeaveAInv ==
  AInv /\ pc = "returned" /\ AdsLeave /\ UNCHANGED vars => AInv'
<1> SUFFICES ASSUME AInv, pc = "returned", AdsLeave, UNCHANGED vars PROVE AInv'
  OBVIOUS
<1>1. PICK node \in DOMAIN sequence :
        /\ ads_pc = "loop" /\ ads_work # <<>> /\ node = Head(ads_work)
        /\ Unsplittable(sequence[node].CI)
        /\ ads_work' = Tail(ads_work)
        /\ sequence' = sequence /\ ads_pc' = ads_pc
  BY DEF AdsLeave, AdsPop
<1>2. pc' = "returned" /\ tree' = tree /\ g' = g
  BY DEF vars, result
<1>3. \A CI : Unsplittable(CI) => Unsplittable(CI)'
  BY <1>2 DEF Unsplittable, lca_of, Leaves
<1>4. /\ Waiting(sequence, Tail(ads_work))
      /\ \A i \in DOMAIN ads_work : ads_work[i] # node =>
           \E j \in DOMAIN Tail(ads_work) : Tail(ads_work)[j] = ads_work[i]
  BY <1>1, TailWaits DEF AInv
<1>5. NoneForgotten'
  <2> SUFFICES ASSUME NEW n \in DOMAIN sequence, sequence[n].children = <<>>
               PROVE  \/ \E i \in DOMAIN ads_work' : ads_work'[i] = n
                      \/ pc' = "returned" /\ Unsplittable(sequence[n].CI)'
    BY <1>1 DEF NoneForgotten
  <2>1. CASE n = node
    BY <1>1, <1>2, <1>3, <2>1
  <2>2. CASE n # node
    <3>1. \/ \E i \in DOMAIN ads_work : ads_work[i] = n
          \/ Unsplittable(sequence[n].CI)
      BY DEF AInv, NoneForgotten
    <3> QED
      BY <1>1, <1>2, <1>3, <1>4, <2>2, <3>1
  <2> QED
    BY <2>1, <2>2
<1>6. InTurn'
  BY <1>1, <1>2 DEF AInv, InTurn
<1>7. /\ Tracked(g', sequence') /\ Apart(g', sequence') /\ Linked(sequence')
      /\ Waiting(sequence', ads_work')
  BY <1>1, <1>2, <1>4 DEF AInv
<1> QED
  BY <1>1, <1>5, <1>6, <1>7 DEF AInv

(* The call returns.                                                       *)
LEMMA AdsFinishAInv ==
  AInv /\ pc = "returned" /\ AdsFinish /\ UNCHANGED vars => AInv'
<1> SUFFICES ASSUME AInv, pc = "returned", AdsFinish, UNCHANGED vars PROVE AInv'
  OBVIOUS
<1>1. /\ ads_work = <<>> /\ ads_pc' = "returned"
      /\ ads_work' = ads_work /\ sequence' = sequence
      /\ pc' = "returned" /\ tree' = tree /\ g' = g
  BY DEF AdsFinish, vars, result
<1>2. \A CI : Unsplittable(CI) => Unsplittable(CI)'
  BY <1>1 DEF Unsplittable, lca_of, Leaves
<1>3. NoneForgotten'
  BY <1>1, <1>2 DEF AInv, NoneForgotten
<1>4. InTurn'
  BY <1>1 DEF InTurn
<1>5. /\ Tracked(g', sequence') /\ Apart(g', sequence') /\ Linked(sequence')
      /\ Waiting(sequence', ads_work')
  BY <1>1 DEF AInv
<1> QED
  BY <1>1, <1>3, <1>4, <1>5 DEF AInv

(* The decision tree after a node has got its children, as the code makes  *)
(* it.                                                                     *)
Grown(T, node, cis, w) ==
  LET children == [i \in DOMAIN cis |-> Initials(cis[i])]
  IN  [n \in DOMAIN T \cup {children[i] : i \in DOMAIN cis} |->
        IF n = node
          THEN [T[n] EXCEPT !.w = w, !.children = children]
        ELSE IF n \in DOMAIN T THEN T[n]
        ELSE AdsNode(CHOOSE ci \in ToSet(cis) : Initials(ci) = n,
                     T[node].depth + 1)]

(* That tree has grown in the sense above.                                 *)
LEMMA SplitGrows ==
  ASSUME NEW T, NEW node \in DOMAIN T, T[node].children = <<>>, Nested(T),
         \A n \in DOMAIN T : IsNode(T[n]),
         NEW cis, Divides(cis, node), NEW w
  PROVE  /\ Grows(T, Grown(T, node, cis, w), node, cis, w)
         /\ \A n \in DOMAIN Grown(T, node, cis, w) :
              IsNode(Grown(T, node, cis, w)[n])
<1> DEFINE part(i) == Initials(cis[i])
           children == [i \in DOMAIN cis |-> part(i)]
           new(n) == CHOOSE ci \in ToSet(cis) : Initials(ci) = n
           T2 == Grown(T, node, cis, w)
<1>1. /\ DOMAIN children = DOMAIN cis
      /\ \A i \in DOMAIN cis : children[i] = part(i)
  OBVIOUS
<1>2. T2 = [n \in DOMAIN T \cup {children[i] : i \in DOMAIN cis} |->
              IF n = node THEN [T[n] EXCEPT !.w = w, !.children = children]
              ELSE IF n \in DOMAIN T THEN T[n]
              ELSE AdsNode(new(n), T[node].depth + 1)]
  BY DEF Grown
<1>3. ASSUME NEW i \in DOMAIN cis PROVE part(i) \notin DOMAIN T
  <2>1. part(i) \subseteq node /\ ~ (node \subseteq part(i))
    BY PartsAreProper DEF Divides
  <2> HIDE DEF part
  <2> QED
    BY <2>1 DEF Nested
<1>4. ASSUME NEW i \in DOMAIN cis PROVE new(part(i)) = cis[i]
  <2>1. cis[i] \in ToSet(cis) /\ Initials(cis[i]) = part(i)
    BY DEF ToSet
  <2>2. new(part(i)) \in ToSet(cis) /\ Initials(new(part(i))) = part(i)
    BY <2>1
  <2>3. PICK j \in DOMAIN cis : new(part(i)) = cis[j]
    BY <2>2 DEF ToSet
  <2>4. part(i) # {}
    BY DEF Divides
  <2>5. Initials(cis[j]) = Initials(cis[i]) /\ Initials(cis[i]) # {}
    BY <2>2, <2>3, <2>4
  <2>6. Initials(cis[i]) \cap Initials(cis[j]) # {}
    BY <2>5
  <2>7. i = j
    BY <2>6, PartsAreProper
  <2> QED
    BY <2>3, <2>7
<1> HIDE DEF T2, new, children
<1>5. DOMAIN T2 = DOMAIN T \cup {part(i) : i \in DOMAIN cis}
  <2>1. {children[i] : i \in DOMAIN cis} = {part(i) : i \in DOMAIN cis}
    BY <1>1
  <2> HIDE DEF part
  <2> QED
    BY <1>2, <2>1
<1>6. \A n \in DOMAIN T \ {node} : T2[n] = T[n]
  BY <1>2
<1>7. T2[node] = [T[node] EXCEPT !.w = w, !.children = children]
  BY <1>2
<1>8. ASSUME NEW i \in DOMAIN cis
      PROVE  T2[part(i)] = AdsNode(cis[i], T[node].depth + 1)
  <2>1. part(i) \in DOMAIN T2 /\ part(i) \notin DOMAIN T /\ part(i) # node
    BY <1>3, <1>5
  <2>2. T2[part(i)] = AdsNode(new(part(i)), T[node].depth + 1)
    <3> DEFINE p == part(i)
    <3> HIDE DEF p, part
    <3>1. p \in DOMAIN T \cup {children[j] : j \in DOMAIN cis}
      BY <1>2, <2>1 DEF p
    <3>2. p \notin DOMAIN T /\ p # node
      BY <2>1 DEF p
    <3>3. T2[p] = AdsNode(new(p), T[node].depth + 1)
      BY <1>2, <3>1, <3>2
    <3> QED
      BY <3>3 DEF p
  <2> QED
    BY <1>4, <2>2
<1>9. T[node] = [CI |-> T[node].CI, children |-> T[node].children,
                 w |-> T[node].w, depth |-> T[node].depth]
  BY DEF IsNode
<1>10. T2[node] = [CI |-> T[node].CI, children |-> children,
                   w |-> w, depth |-> T[node].depth]
  BY <1>7, <1>9
<1>11. /\ T2[node].CI = T[node].CI /\ T2[node].depth = T[node].depth
       /\ T2[node].w = w /\ T2[node].children = children
  BY <1>10
<1>12. IsNode(T2[node])
  BY <1>10 DEF IsNode
<1>13. ASSUME NEW i \in DOMAIN cis PROVE IsNode(T2[part(i)])
  <2>1. AdsNode(cis[i], T[node].depth + 1)
          = [CI |-> cis[i], children |-> <<>>, w |-> <<>>, depth |-> T[node].depth + 1]
    BY DEF AdsNode
  <2> QED
    BY <1>8, <2>1 DEF IsNode
<1>14. \A n \in DOMAIN T2 : IsNode(T2[n])
  <2> SUFFICES ASSUME NEW n \in DOMAIN T2 PROVE IsNode(T2[n])
    OBVIOUS
  <2>1. CASE n \in DOMAIN T
    <3>1. CASE n = node
      BY <1>12, <3>1
    <3>2. CASE n # node
      BY <1>6, <2>1, <3>2
    <3> QED
      BY <3>1, <3>2
  <2>2. CASE n \notin DOMAIN T
    <3>1. PICK i \in DOMAIN cis : n = part(i)
      BY <1>5, <2>2
    <3> QED
      BY <1>13, <3>1
  <2> QED
    BY <2>1, <2>2
<1>15. Grows(T, T2, node, cis, w)
  BY <1>3, <1>5, <1>6, <1>8, <1>11 DEF Grows, children
<1> QED
  BY <1>14, <1>15 DEF T2

(* What SharesOut says of one list: it moves pairs of CI to states that    *)
(* the separator leads to, in one child of oboom.                          *)
MovedFrom(ci, CI, c, w) ==
  \A k \in DOMAIN ci : \E x \in DOMAIN CI :
    CI[x][1] \in c /\ ci[k] = <<to(CI[x][1], w), CI[x][2]>>

(* A list that is shared out has no initial state twice, as CI has none.   *)
LEMMA MovedIsListed ==
  ASSUME NEW CI, WellListed(CI), NEW ci, ci \in Seq(State \X State),
         NEW c, NEW w, MovedFrom(ci, CI, c, w),
         \A k, l \in DOMAIN ci : k < l => ci[k][1] < ci[l][1]
  PROVE  WellListed(ci)
<1>1. ASSUME NEW k \in DOMAIN ci, NEW l \in DOMAIN ci, ci[k][2] = ci[l][2]
      PROVE  k = l
  <2>1. PICK x \in DOMAIN CI : ci[k] = <<to(CI[x][1], w), CI[x][2]>>
    BY DEF MovedFrom
  <2>2. PICK y \in DOMAIN CI : ci[l] = <<to(CI[y][1], w), CI[y][2]>>
    BY DEF MovedFrom
  <2>3. x = y
    <3>1. CI[x][2] = CI[y][2]
      BY <1>1, <2>1, <2>2
    <3> QED
      BY <3>1 DEF WellListed
  <2>4. ci[k][1] = ci[l][1]
    BY <2>1, <2>2, <2>3
  <2>5. /\ DOMAIN ci = 1 .. Len(ci) /\ Len(ci) \in Nat
        /\ ci[k] \in State \X State
    BY LenProperties, ElementOfSeq
  <2>6. ci[k][1] \in Int
    BY <2>5, SizesAssumption DEF State
  <2>7. ~ (k < l) /\ ~ (l < k)
    BY <2>4, <2>6
  <2> QED
    BY <2>5, <2>7
<1> QED
  BY <1>1 DEF WellListed

(* The children of a node that is split divide its states and move its     *)
(* pairs by the separator.                                                 *)
LEMMA SuccessorsDivide ==
  ASSUME IInv, TheoryInv, opt.check_validity, ~ opt.assert_minimal_order,
         NEW CI, WellListed(CI), ~ Unsplittable(CI)
  PROVE  LET cis == Successors(CI, lca_of(CI))
             w   == tree[lca_of(CI)].separator
         IN  /\ Divides(cis, Initials(CI))
             /\ \A i \in DOMAIN cis : WellListed(cis[i])
             /\ Moves(g, cis, CI, w)
             /\ Parts(g, cis, CI, w)
<1> DEFINE oboom == lca_of(CI)
           cis == Successors(CI, oboom)
           w == tree[oboom].separator
           c == tree[oboom].children
<1>1. CI # <<>> /\ oboom \notin Leaves
  <2>1. Len(<<>>) = 0
    BY EmptySeq
  <2> QED
    BY <2>1 DEF Unsplittable
<1>2. oboom \in Internal /\ SharesOut(cis, CI, oboom)
  BY <1>1, SuccessorsShareOut
<1> HIDE DEF oboom, cis
<1>3. /\ cis \in Seq(Seq(State \X State)) /\ Len(cis) > 1
      /\ \A i, j \in DOMAIN cis : i # j => Initials(cis[i]) \cap Initials(cis[j]) = {}
      /\ UNION {Initials(cis[i]) : i \in DOMAIN cis} = Initials(CI)
  BY <1>2 DEF SharesOut
<1>4. ASSUME NEW i \in DOMAIN cis
      PROVE  /\ cis[i] \in Seq(State \X State) /\ cis[i] # <<>>
             /\ \A k, l \in DOMAIN cis[i] : k < l => cis[i][k][1] < cis[i][l][1]
             /\ \E b \in DOMAIN c : MovedFrom(cis[i], CI, c[b], w)
  <2>1. cis[i] \in Seq(State \X State)
    BY <1>3, LenProperties, ElementOfSeq
  <2>2. \E b \in DOMAIN c : MovedFrom(cis[i], CI, c[b], w)
    BY <1>2 DEF SharesOut, MovedFrom
  <2>3. /\ cis[i] # <<>>
        /\ \A k, l \in DOMAIN cis[i] : k < l => cis[i][k][1] < cis[i][l][1]
    BY <1>2 DEF SharesOut
  <2> QED
    BY <2>1, <2>2, <2>3
<1>5. \A i \in DOMAIN cis : WellListed(cis[i])
  <2> HIDE DEF c, w
  <2> QED
    BY <1>4, MovedIsListed
<1>6. \A i \in DOMAIN cis : Initials(cis[i]) # {}
  <2> SUFFICES ASSUME NEW i \in DOMAIN cis PROVE Initials(cis[i]) # {}
    OBVIOUS
  <2>1. 1 \in DOMAIN cis[i]
    <3> DEFINE q == cis[i]
    <3>1. q \in Seq(State \X State) /\ q # <<>>
      BY <1>4
    <3> HIDE DEF q
    <3>2. DOMAIN q = 1 .. Len(q) /\ Len(q) \in Nat /\ Len(q) # 0
      BY <3>1, LenProperties, EmptySeq
    <3>3. 1 \in DOMAIN q
      BY <3>2
    <3> QED
      BY <3>3 DEF q
  <2>2. cis[i][1][2] \in Initials(cis[i])
    BY <2>1 DEF Initials
  <2> QED
    BY <2>2
<1>7. Divides(cis, Initials(CI))
  <2>1. \A i \in DOMAIN cis : Initials(cis[i]) \subseteq Initials(CI)
    BY <1>3
  <2> QED
    BY <1>3, <1>6, <2>1 DEF Divides
<1>8. w \in Word /\ w # <<>>
  BY <1>2 DEF IInv, TypeOK, splitting_tree, Internal, LastOutputSeparates
<1>9. ASSUME NEW b \in DOMAIN c, NEW j \in 1 .. Len(w), NEW s \in c[b], NEW t \in c[b]
      PROVE  applyWord(g, s, SubSeq(w, 1, j)).out = applyWord(g, t, SubSeq(w, 1, j)).out
  <2>1. s \in oboom /\ t \in oboom
    BY <1>2 DEF IInv, ChildrenPartition
  <2>2. CASE j = Len(w)
    <3>1. out(s, w) = out(t, w)
      BY <1>2 DEF IInv, LastOutputSeparates
    <3>2. SubSeq(w, 1, j) = w
      BY <1>8, <2>2 DEF Word
    <3> QED
      BY <3>1, <3>2 DEF out
  <2>3. CASE j # Len(w)
    <3>1. j \in 1 .. Len(w) - 1
      BY <1>8, <2>3, LenProperties DEF Word
    <3>2. out(s, SubSeq(w, 1, j)) = out(t, SubSeq(w, 1, j))
      BY <1>2, <2>1, <3>1 DEF TheoryInv, PrefixesAgree
    <3> QED
      BY <3>2 DEF out
  <2> QED
    BY <2>2, <2>3
<1>10. Moves(g, cis, CI, w)
  <2> HIDE DEF c, w
  <2>1. ASSUME NEW i \in DOMAIN cis
        PROVE  \E d :
          /\ \A k \in DOMAIN cis[i] : \E x \in DOMAIN CI :
               CI[x][1] \in d /\ cis[i][k] = <<applyWord(g, CI[x][1], w).to, CI[x][2]>>
          /\ \A j \in 1 .. Len(w) : \A s, t \in d :
               applyWord(g, s, SubSeq(w, 1, j)).out = applyWord(g, t, SubSeq(w, 1, j)).out
    <3>1. PICK b \in DOMAIN c : MovedFrom(cis[i], CI, c[b], w)
      BY <1>4
    <3>2. \A k \in DOMAIN cis[i] : \E x \in DOMAIN CI :
            CI[x][1] \in c[b] /\ cis[i][k] = <<applyWord(g, CI[x][1], w).to, CI[x][2]>>
      BY <3>1 DEF MovedFrom, to
    <3>3. \A j \in 1 .. Len(w) : \A s, t \in c[b] :
            applyWord(g, s, SubSeq(w, 1, j)).out = applyWord(g, t, SubSeq(w, 1, j)).out
      BY <1>9
    <3> QED
      BY <3>2, <3>3
  <2> QED
    BY <1>8, <2>1 DEF Moves
<1>11. Parts(g, cis, CI, w)
  <2> SUFFICES ASSUME NEW i \in DOMAIN cis, NEW j \in DOMAIN cis, i # j,
                      NEW x \in DOMAIN CI, NEW y \in DOMAIN CI,
                      CI[x][2] \in Initials(cis[i]), CI[y][2] \in Initials(cis[j])
               PROVE  applyWord(g, CI[x][1], w).out # applyWord(g, CI[y][1], w).out
    BY DEF Parts
  <2>1. PICK a \in DOMAIN c, b \in DOMAIN c :
          a # b /\ CI[x][1] \in c[a] /\ CI[y][1] \in c[b]
    BY <1>2 DEF SharesOut, InDifferent
  <2>2. out(CI[x][1], w) # out(CI[y][1], w)
    BY <1>2, <2>1 DEF IInv, LastOutputSeparates
  <2> QED
    BY <2>2 DEF out
<1> QED
  BY <1>5, <1>7, <1>10, <1>11 DEF oboom, cis

(* A node gets its children.                                               *)
LEMMA AdsSplitAInv ==
  ASSUME IInv, TheoryInv, AInv, opt.check_validity, ~ opt.assert_minimal_order,
         pc = "returned", AdsSplit, UNCHANGED vars
  PROVE  AInv'
<1>1. PICK node \in DOMAIN sequence :
        LET oboom    == lca_of(sequence[node].CI)
            cis      == Successors(sequence[node].CI, oboom)
            children == [i \in DOMAIN cis |-> Initials(cis[i])]
        IN  /\ ads_pc = "loop" /\ ads_work # <<>> /\ node = Head(ads_work)
            /\ ~ Unsplittable(sequence[node].CI)
            /\ sequence' = Grown(sequence, node, cis, tree[oboom].separator)
            /\ ads_work' = Tail(ads_work) \o children
            /\ ads_pc' = ads_pc
  BY DEF AdsSplit, AdsPop, Grown
<1> DEFINE T == sequence
           CI == T[node].CI
           cis == Successors(CI, lca_of(CI))
           w == tree[lca_of(CI)].separator
           children == [i \in DOMAIN cis |-> Initials(cis[i])]
           q == Tail(ads_work)
<1>2. /\ ads_pc = "loop" /\ ads_pc' = ads_pc /\ pc' = "returned"
      /\ g' = g /\ tree' = tree
      /\ ads_work # <<>> /\ node = Head(ads_work) /\ ~ Unsplittable(CI)
      /\ sequence' = Grown(T, node, cis, w) /\ ads_work' = q \o children
  BY <1>1 DEF vars, result
<1>3. \A X : Unsplittable(X) => Unsplittable(X)'
  BY <1>2 DEF Unsplittable, lca_of, Leaves
<1>4. /\ \A n \in DOMAIN T : IsNode(T[n])
      /\ Nested(T) /\ Branched(T) /\ Listed(T) /\ Shared(T) /\ Tracked(g, T)
      /\ Linked(T) /\ Apart(g, T)
      /\ Waiting(T, ads_work) /\ NoneForgotten
  BY DEF AInv
<1>5. /\ Waiting(T, q) /\ T[node].children = <<>>
      /\ \A i \in DOMAIN q : q[i] # node
      /\ \A i \in DOMAIN ads_work : ads_work[i] # node =>
           \E j \in DOMAIN q : q[j] = ads_work[i]
  BY <1>2, <1>4, TailWaits
<1>6. /\ Divides(cis, node)
      /\ \A i \in DOMAIN cis : WellListed(cis[i])
      /\ Moves(g, cis, CI, w)
      /\ Parts(g, cis, CI, w)
  <2>1. WellListed(CI) /\ Initials(CI) = node
    BY <1>4 DEF Listed
  <2> QED
    BY <1>2, <2>1, SuccessorsDivide
<1>7. g \in Machine
  BY DEF IInv, TypeOK
<1> HIDE DEF cis, w, q
<1>8. PICK T2 : T2 = sequence'
  OBVIOUS
<1>9. Grows(T, T2, node, cis, w) /\ \A n \in DOMAIN T2 : IsNode(T2[n])
  BY <1>2, <1>4, <1>5, <1>6, <1>8, SplitGrows
<1>10. Nested(T2) /\ Branched(T2) /\ Tracked(g, T2) /\ Listed(T2)
  BY <1>4, <1>6, <1>7, <1>9, GrowsNested, GrowsTracked, GrowsListed
<1>11. /\ Shared(T2) /\ T2[node].children \in Seq(DOMAIN T2)
       /\ Len(T2[node].children) = Len(cis)
  BY <1>4, <1>9, GrowsShared
<1>12. PICK p : p = q \o T2[node].children
  OBVIOUS
<1>13. ads_work' = p
  <2>1. T2[node].children = children
    BY <1>9 DEF Grows
  <2> QED
    BY <1>2, <1>12, <2>1
<1>14. /\ Waiting(T2, p)
       /\ \A i \in DOMAIN q : \E j \in DOMAIN p : p[j] = q[i]
       /\ \A i \in DOMAIN cis : \E j \in DOMAIN p : p[j] = Initials(cis[i])
  <2> DEFINE c == T2[node].children
  <2>1. \A x : x = q \o c =>
          /\ c \in Seq(DOMAIN T2) => Waiting(T2, x)
          /\ \A i \in DOMAIN q : \E j \in DOMAIN x : x[j] = q[i]
          /\ \A i \in DOMAIN cis : \E j \in DOMAIN x : x[j] = Initials(cis[i])
    BY <1>5, <1>9, GrowsWaiting
  <2> QED
    BY <1>11, <1>12, <2>1
<1>15. ASSUME NEW n \in DOMAIN T2, T2[n].children = <<>>
       PROVE  \/ \E j \in DOMAIN p : p[j] = n
              \/ Unsplittable(T2[n].CI)
  <2>1. CASE n \in DOMAIN T /\ n # node
    <3>1. T2[n] = T[n]
      BY <1>9, <2>1 DEF Grows
    <3>2. \/ \E i \in DOMAIN ads_work : ads_work[i] = n
          \/ Unsplittable(T[n].CI)
      BY <1>4, <1>15, <2>1, <3>1 DEF NoneForgotten
    <3> QED
      BY <1>5, <1>14, <2>1, <3>1, <3>2
  <2>2. CASE n = node
    <3>1. Len(cis) > 1
      BY <1>6 DEF Divides
    <3>2. Len(<<>>) = 0
      BY EmptySeq
    <3>3. Len(T2[node].children) = 0
      BY <1>15, <2>2, <3>2
    <3> QED
      BY <1>11, <3>1, <3>3
  <2>3. CASE \E i \in DOMAIN cis : n = Initials(cis[i])
    BY <1>14, <2>3
  <2> QED
    BY <1>9, <2>1, <2>2, <2>3 DEF Grows
<1>16. NoneForgotten'
  <2>1. \A n \in DOMAIN sequence' : sequence'[n].children = <<>> =>
          \/ \E j \in DOMAIN ads_work' : ads_work'[j] = n
          \/ Unsplittable(sequence'[n].CI)
    BY <1>8, <1>13, <1>15
  <2>2. \A n \in DOMAIN sequence' : Unsplittable(sequence'[n].CI) =>
          Unsplittable(sequence[n].CI)'
    <3> SUFFICES ASSUME NEW n \in DOMAIN sequence', Unsplittable(sequence'[n].CI)
                 PROVE  Unsplittable(sequence[n].CI)'
      OBVIOUS
    <3>1. PICK X : X = sequence'[n].CI
      OBVIOUS
    <3>2. Unsplittable(X)'
      BY <1>3, <3>1
    <3> QED
      BY <1>2, <3>1, <3>2 DEF Unsplittable, lca_of, Leaves
  <2> QED
    BY <1>2, <2>1, <2>2 DEF NoneForgotten
<1>17. InTurn'
  BY <1>2 DEF InTurn
<1>18. Linked(T2) /\ Apart(g, T2)
  <2>1. w \in Word
    BY <1>6 DEF Moves
  <2> QED
    BY <1>4, <1>6, <1>7, <1>9, <2>1, GrowsLinked, GrowsApart
<1>19. /\ Tracked(g', sequence') /\ Apart(g', sequence') /\ Linked(sequence')
       /\ Waiting(sequence', ads_work')
  BY <1>2, <1>8, <1>10, <1>13, <1>14, <1>18
<1> QED
  BY <1>8, <1>9, <1>10, <1>11, <1>16, <1>17, <1>19 DEF AInv

-----------------------------------------------------------------------------
(* The whole call.                                                         *)

(* The two option sets with which main.cpp makes the splitting tree that   *)
(* the decision tree is read off.                                          *)
LeeYannakakisStyle ==
  Options \subseteq {lee_yannakakis_style, randomized_lee_yannakakis_style}

(* While the splitting tree is made the decision tree is not begun.        *)
LEMMA SplittingAInv ==
  AInv /\ (IInv' /\ AdsInit' => AInv') /\ IInv' /\ Next /\ UNCHANGED ads_vars
    => AInv'
<1> SUFFICES ASSUME AInv, IInv' /\ AdsInit' => AInv', IInv', Next,
                    UNCHANGED ads_vars
             PROVE  AInv'
  OBVIOUS
<1>1. pc = "loop"
  BY DEF Next, SkipSingleton, SplitOnOutput, SplitOnState, FirstTried,
         OutputSymbols, StateSymbols, ValidStateWords, Requeue, RaiseOrder,
         GiveUp, Finish, Fruitless, Pop
<1>2. AdsInit
  BY <1>1 DEF AInv, InTurn
<1>3. AdsInit'
  BY <1>2 DEF AdsInit, ads_vars
<1> QED
  BY <1>3

(* A step that changes nothing.                                            *)
LEMMA StutterAInv == AInv /\ UNCHANGED <<vars, ads_vars>> => AInv'
<1> SUFFICES ASSUME AInv, UNCHANGED <<vars, ads_vars>> PROVE AInv'
  OBVIOUS
<1>1. /\ sequence' = sequence /\ ads_work' = ads_work /\ ads_pc' = ads_pc
      /\ g' = g /\ tree' = tree /\ pc' = pc
  BY DEF vars, result, ads_vars
<1>2. \A CI : Unsplittable(CI) => Unsplittable(CI)'
  BY <1>1 DEF Unsplittable, lca_of, Leaves
<1>3. NoneForgotten'
  BY <1>1, <1>2 DEF AInv, NoneForgotten
<1>4. InTurn'
  BY <1>1 DEF AInv, InTurn, AdsInit
<1>5. /\ Tracked(g', sequence') /\ Apart(g', sequence') /\ Linked(sequence')
      /\ Waiting(sequence', ads_work')
  BY <1>1 DEF AInv
<1> QED
  BY <1>1, <1>3, <1>4, <1>5 DEF AInv

(* Making the decision tree is a behaviour of the splitting tree that      *)
(* stutters once the tree is there.                                        *)
LEMMA LySpecIsSpec == LySpec => Spec
<1>1. LyInit => Init
  BY DEF LyInit
<1>2. [LyNext]_<<vars, ads_vars>> => [Next]_vars
  BY DEF LyNext
<1> QED
  BY <1>1, <1>2, PTL DEF LySpec, Spec

(* The invariant of the decision tree holds in every state of the call.    *)
THEOREM AdsInvariance ==
  ASSUME LeeYannakakisStyle
  PROVE  LySpec => []AInv
<1>1. LyInit => AInv
  BY MachinesAssumption, AdsInitAInv DEF LyInit, Init
<1>2. TheoryInv => opt.check_validity /\ ~ opt.assert_minimal_order
  BY DEF TheoryInv, LeeYannakakisStyle, lee_yannakakis_style,
         randomized_lee_yannakakis_style
<1>3. (IInv /\ AdsInit => AInv)'
  <2>1. IInv /\ AdsInit => AInv
    BY AdsInitAInv DEF IInv, TypeOK
  <2> QED
    BY <2>1, PTL
<1>4. IInv /\ TheoryInv /\ AInv /\ IInv' /\ [LyNext]_<<vars, ads_vars>> => AInv'
  <2> SUFFICES ASSUME IInv, TheoryInv, AInv, IInv',
                      [LyNext]_<<vars, ads_vars>>
               PROVE  AInv'
    OBVIOUS
  <2>1. CASE Next /\ UNCHANGED ads_vars
    BY <1>3, <2>1, SplittingAInv
  <2>2. CASE pc = "returned" /\ AdsLeave /\ UNCHANGED vars
    BY <2>2, AdsLeaveAInv
  <2>3. CASE pc = "returned" /\ AdsSplit /\ UNCHANGED vars
    BY <1>2, <2>3, AdsSplitAInv
  <2>4. CASE pc = "returned" /\ AdsFinish /\ UNCHANGED vars
    BY <2>4, AdsFinishAInv
  <2>5. CASE UNCHANGED <<vars, ads_vars>>
    BY <2>5, StutterAInv
  <2> QED
    BY <2>1, <2>2, <2>3, <2>4, <2>5 DEF LyNext, AdsNext
<1> QED
  BY <1>1, <1>4, LySpecIsSpec, Invariance, TheoryInvariance, PTL DEF LySpec

(* The decision tree, its lists and its queue keep their types, and every  *)
(* list stays sorted by current state: what the merge of CI relies on.     *)
THEOREM AdsTypeCorrect ==
  ASSUME LeeYannakakisStyle
  PROVE  LySpec => []AdsTypeOK
<1>1. AInv => AdsTypeOK
  <2> SUFFICES ASSUME AInv PROVE AdsTypeOK
    OBVIOUS
  <2>1. DOMAIN sequence \subseteq Node
    BY DEF AInv, Listed
  <2>2. ASSUME NEW n \in DOMAIN sequence
        PROVE  /\ sequence[n].CI \in Seq(State \X State)
               /\ \A k \in 1 .. Len(sequence[n].CI) - 1 :
                    sequence[n].CI[k][1] < sequence[n].CI[k + 1][1]
               /\ sequence[n].children \in Seq(DOMAIN sequence)
               /\ sequence[n].w \in Word
               /\ sequence[n].depth \in Nat
    <3> DEFINE CI == sequence[n].CI
    <3>1. WellListed(CI)
      BY DEF AInv, Listed
    <3> HIDE DEF CI
    <3>2. /\ CI \in Seq(State \X State)
          /\ \A k, l \in DOMAIN CI : k < l => CI[k][1] < CI[l][1]
          /\ DOMAIN CI = 1 .. Len(CI) /\ Len(CI) \in Nat
      BY <3>1, LenProperties DEF WellListed
    <3>3. \A k \in 1 .. Len(CI) - 1 : k \in DOMAIN CI /\ k + 1 \in DOMAIN CI
                                      /\ k < k + 1
      BY <3>2
    <3>4. \A k \in 1 .. Len(CI) - 1 : CI[k][1] < CI[k + 1][1]
      BY <3>2, <3>3
    <3>5. /\ sequence[n].children \in Seq(DOMAIN sequence)
          /\ sequence[n].w \in Word
          /\ sequence[n].depth \in Nat
      BY DEF AInv, Shared, Tracked, Branched
    <3> QED
      BY <3>2, <3>4, <3>5 DEF CI
  <2>3. ads_work \in Seq(DOMAIN sequence) /\ ads_pc \in {"loop", "returned"}
    BY DEF AInv, Waiting, InTurn
  <2> QED
    BY <2>1, <2>2, <2>3 DEF AdsTypeOK
<1> QED
  BY <1>1, AdsInvariance, PTL

(* The children of a node share out its states: the merge that skips ahead *)
(* in both lists loses none, and the assertion that a node gets at least   *)
(* two children holds, whether or not the splitting tree is complete.      *)
THEOREM NoStateIsLost ==
  ASSUME LeeYannakakisStyle
  PROVE  LySpec => []NoStateLost
<1>1. AInv => NoStateLost
  BY DEF AInv, Shared, NoStateLost
<1> QED
  BY <1>1, AdsInvariance, PTL

(* The decision tree tracks the machine: along a branch the initial states *)
(* of a node answer alike and arrive, each at a state of its own, where    *)
(* the list says that they do.                                             *)
THEOREM CurrentsAreTracked ==
  ASSUME LeeYannakakisStyle
  PROVE  LySpec => []CurrentsAreReached
<1>1. AInv => CurrentsAreReached
  <2> SUFFICES ASSUME AInv, NEW n \in DOMAIN sequence
               PROVE  LET w  == BranchWord(n)
                          CI == sequence[n].CI
                      IN  /\ Initials(CI) = n
                          /\ \A k \in DOMAIN CI : CI[k][1] = to(CI[k][2], w)
                          /\ \A k, l \in DOMAIN CI : k # l => CI[k][1] # CI[l][1]
                          /\ \A j \in 1 .. Len(w) : \A s, t \in n :
                               out(s, SubSeq(w, 1, j)) = out(t, SubSeq(w, 1, j))
    BY DEF CurrentsAreReached
  <2> DEFINE w  == BranchWord(n)
             CI == sequence[n].CI
  <2>1. w = WordAlong(sequence, n)
    BY DEF BranchWord, WordAlong
  <2>2. Tracks(g, n, CI, w)
    BY <2>1 DEF AInv, Tracked
  <2>3. WellListed(CI) /\ Initials(CI) = n
    BY DEF AInv, Listed
  <2> HIDE DEF w, CI
  <2>4. ASSUME NEW k \in DOMAIN CI, NEW l \in DOMAIN CI, k # l
        PROVE  CI[k][1] # CI[l][1]
    <3>1. CI \in Seq(State \X State)
      BY <2>3 DEF WellListed
    <3>2. k \in Int /\ l \in Int /\ CI[k] \in State \X State
      BY <3>1, LenProperties, ElementOfSeq
    <3>3. CI[k][1] \in Int
      BY <3>2, SizesAssumption DEF State
    <3>4. k < l \/ l < k
      BY <2>4, <3>2
    <3> QED
      BY <2>3, <3>3, <3>4 DEF WellListed
  <2>5. \A k \in DOMAIN CI : CI[k][1] = to(CI[k][2], w)
    BY <2>2 DEF Tracks, to
  <2>6. \A j \in 1 .. Len(w) : \A s, t \in n :
          out(s, SubSeq(w, 1, j)) = out(t, SubSeq(w, 1, j))
    BY <2>2 DEF Tracks, out
  <2> QED
    BY <2>3, <2>4, <2>5, <2>6 DEF w, CI
<1> QED
  BY <1>1, AdsInvariance, PTL

(* If the splitting tree is complete, the decision tree that is returned   *)
(* has a state of its own in every node without children: the sequence     *)
(* identifies every state.                                                 *)
THEOREM SequenceIdentifies ==
  ASSUME LeeYannakakisStyle
  PROVE  LySpec => []Identifies
<1>1. IInv /\ TheoryInv /\ AInv => Identifies
  <2> SUFFICES ASSUME IInv, TheoryInv, AInv, ads_pc = "returned",
                      \A u \in Leaves : Cardinality(u) = 1,
                      NEW n \in DOMAIN sequence, sequence[n].children = <<>>
               PROVE  Cardinality(n) = 1
    BY DEF Identifies
  <2> DEFINE CI == sequence[n].CI
  <2>1. ads_work = <<>>
    BY DEF AInv, InTurn
  <2>2. Unsplittable(CI)
    BY <2>1, EmptySeq DEF AInv, NoneForgotten
  <2>3. WellListed(CI) /\ Initials(CI) = n /\ n \in Node
    BY DEF AInv, Listed
  <2> HIDE DEF CI
  <2>4. /\ CI \in Seq(State \X State) /\ DOMAIN CI = 1 .. Len(CI) /\ Len(CI) \in Nat
        /\ \A k \in DOMAIN CI : CI[k] \in State \X State
    BY <2>3, LenProperties, ElementOfSeq DEF WellListed
  <2>5. n # {} /\ \A s \in n : \E k \in DOMAIN CI : CI[k][2] = s
    BY <2>3 DEF Node, Initials
  <2>6. PICK k \in DOMAIN CI : TRUE
    BY <2>5
  <2>7. \A l \in DOMAIN CI : l = k
    <3>1. CASE Len(CI) < 2
      BY <2>4, <3>1
    <3>2. CASE lca_of(CI) \in Leaves
      <4> DEFINE v == lca_of(CI)
      <4>1. Currents(CI) \in Node
        <5>1. CI[k][1] \in Currents(CI)
          BY DEF Currents
        <5> QED
          BY <2>4, <5>1 DEF Currents, Node
      <4>2. Lowest(tree, v, Currents(CI))
        BY <4>1, LcaIsLowest DEF lca_of, TheoryInv
      <4>3. Currents(CI) \subseteq v
        BY <4>2 DEF Lowest
      <4>4. PICK x : v = {x}
        <5>1. IsFiniteSet(v) /\ Cardinality(v) = 1
          BY <3>2, NodesFinite DEF IInv, Leaves
        <5> QED
          BY <5>1, FS_Singleton
      <4>5. ASSUME NEW l \in DOMAIN CI PROVE l = k
        <5>1. CI[l][1] = x /\ CI[k][1] = x
          BY <4>3, <4>4 DEF Currents
        <5>2. ~ (l < k) /\ ~ (k < l)
          <6>1. CI[k][1] \in Int
            BY <2>4, SizesAssumption DEF State
          <6> QED
            BY <2>3, <5>1, <6>1 DEF WellListed
        <5>3. l \in Int /\ k \in Int
          BY <2>4
        <5> QED
          BY <5>2, <5>3
      <4> QED
        BY <4>5
    <3> QED
      BY <2>2, <3>1, <3>2 DEF Unsplittable
  <2>8. n = {CI[k][2]}
    BY <2>5, <2>7
  <2> QED
    BY <2>8, FS_Singleton
<1> QED
  BY <1>1, AdsInvariance, LySpecIsSpec, Invariance, TheoryInvariance, PTL

-----------------------------------------------------------------------------
(* The suffixes of a leaf of the decision tree.                            *)

(* A trie of words keeps all of them, or longer words in their place.      *)
LEMMA FlattenedKeeps ==
  ASSUME NEW ws \in Seq(Word)
  PROVE  /\ Flattened(ws) \in Seq(Word)
         /\ ToSet(ws) \subseteq PrefixClosure(ToSet(Flattened(ws)))
<1> DEFINE t == insert_all(ws)
<1>1. Input \in SUBSET Int /\ ws \in Seq(Seq(Input))
  BY SizesAssumption DEF Input, Word
<1>2. IsTrie(t, Input) /\ DOMAIN t = PrefixClosure(ToSet(ws))
  BY <1>1, InsertAllIs
<1> HIDE DEF t
<1>3. /\ flatten(t) \in Seq(Seq(Input)) /\ ToSet(flatten(t)) = TrieLeaves(t)
      /\ DOMAIN t = PrefixClosure(TrieLeaves(t))
  BY <1>1, <1>2, FlattenIs
<1>4. Flattened(ws) = flatten(t)
  BY DEF Flattened, t
<1>5. ASSUME NEW w \in ToSet(ws) PROVE w \in PrefixClosure(ToSet(ws))
  <2>1. PICK i \in DOMAIN ws : w = ws[i]
    BY DEF ToSet
  <2>2. w \in Seq(Input)
    BY <1>1, <2>1, LenProperties, ElementOfSeq
  <2>3. w \in Prefixes(w)
    BY <2>2, PrefixesFacts
  <2> QED
    BY <2>3 DEF PrefixClosure
<1>6. PrefixClosure(ToSet(ws)) = PrefixClosure(ToSet(flatten(t)))
  BY <1>2, <1>3, Zenon
<1> QED
  BY <1>3, <1>4, <1>5, <1>6 DEF Word

(* What a state of a leaf n gets.                                          *)
LeafWords(uio, n, s) == suffixes(uio, multi_lca(h_tree, State, n), s)

(* A state of the leaf keeps the word along the branch, and the separators *)
(* of all nodes with the state that the walk over the leaf passes.         *)
LEMMA SuffixesKeep ==
  ASSUME Shaped(h_tree, State), \A v \in DOMAIN h_tree : h_tree[v].separator \in Word,
         NEW uio \in Word, NEW n, NEW s
  PROVE  /\ LeafWords(uio, n, s) \in Seq(Word)
         /\ uio \in PrefixClosure(ToSet(LeafWords(uio, n, s)))
         /\ \A v \in ToSet(multi_lca(h_tree, State, n)) : s \in v =>
              h_tree[v].separator \in PrefixClosure(ToSet(LeafWords(uio, n, s)))
<1> DEFINE roots == multi_lca(h_tree, State, n)
           ss == [i \in DOMAIN roots |->
                    IF s \in roots[i] THEN << h_tree[roots[i]].separator >> ELSE <<>>]
           ws == <<uio>> \o FlattenSeq(ss)
<1>1. roots \in Seq(DOMAIN h_tree)
  BY WalkIsRight DEF WalkFinds, multi_lca
<1>2. LeafWords(uio, n, s) = Flattened(ws)
  BY DEF suffixes, LeafWords
<1> HIDE DEF roots
<1>3. /\ DOMAIN roots = 1 .. Len(roots) /\ Len(roots) \in Nat
      /\ \A i \in DOMAIN roots : roots[i] \in DOMAIN h_tree
  BY <1>1, LenProperties, ElementOfSeq
<1>4. ss \in Seq(Seq(Word))
  <2>1. ASSUME NEW i \in 1 .. Len(roots)
        PROVE  (IF s \in roots[i] THEN << h_tree[roots[i]].separator >> ELSE <<>>)
                 \in Seq(Word)
    <3>1. h_tree[roots[i]].separator \in Word
      BY <1>3
    <3>2. \A w \in Word : <<w>> \in Seq(Word)
      OBVIOUS
    <3>3. <<>> \in Seq(Word)
      OBVIOUS
    <3> QED
      BY <3>1, <3>2, <3>3
  <2>2. ss = [i \in 1 .. Len(roots) |-> ss[i]]
    BY <1>3
  <2>3. \A i \in 1 .. Len(roots) : ss[i] \in Seq(Word)
    BY <1>3, <2>1
  <2> HIDE DEF ss
  <2> QED
    BY <1>3, <2>2, <2>3, IsASeq
<1>5. /\ DOMAIN ss = DOMAIN roots
      /\ \A i \in DOMAIN roots : s \in roots[i] =>
           h_tree[roots[i]].separator \in ToSet(ss[i])
  <2>1. \A x : x \in ToSet(<<x>>)
    BY DEF ToSet
  <2> QED
    BY <2>1
<1> HIDE DEF ss
<1>6. FlattenSeq(ss) \in Seq(Word) /\ FlattensWell(ss)
  BY <1>4, FlattenFacts
<1>7. ASSUME NEW v \in ToSet(roots), s \in v
      PROVE  h_tree[v].separator \in ToSet(FlattenSeq(ss))
  <2>1. PICK i \in DOMAIN roots : roots[i] = v
    BY DEF ToSet
  <2>2. h_tree[v].separator \in ToSet(ss[i])
    BY <1>5, <1>7, <2>1
  <2> QED
    BY <1>5, <1>6, <2>1, <2>2 DEF FlattensWell
<1>8. PICK r : r = FlattenSeq(ss)
  OBVIOUS
<1>9. ws \in Seq(Word) /\ uio \in ToSet(ws) /\ ToSet(r) \subseteq ToSet(ws)
  <2>1. <<uio>> \in Seq(Word) /\ Len(<<uio>>) = 1 /\ <<uio>>[1] = uio
    OBVIOUS
  <2>2. /\ ws \in Seq(Word) /\ Len(ws) = 1 + Len(r) /\ ws[1] = uio
        /\ \A j \in 1 .. Len(r) : ws[j + 1] = r[j]
    <3>1. r \in Seq(Word) /\ ws = <<uio>> \o r
      BY <1>6, <1>8
    <3> HIDE DEF ws
    <3>2. ws \in Seq(Word) /\ Len(ws) = 1 + Len(r)
      BY <2>1, <3>1, ConcatProperties
    <3>3. Len(r) \in Nat
      BY <3>1, LenProperties
    <3>4. ws[1] = uio
      BY <2>1, <3>1, <3>3, ConcatProperties
    <3>5. \A j \in 1 .. Len(r) : ws[j + 1] = r[j]
      BY <2>1, <3>1, <3>3, ConcatProperties
    <3> QED
      BY <3>2, <3>4, <3>5
  <2> HIDE DEF ws
  <2>3. /\ DOMAIN ws = 1 .. Len(ws) /\ DOMAIN r = 1 .. Len(r) /\ Len(r) \in Nat
    BY <1>6, <1>8, <2>2, LenProperties
  <2>4. 1 \in DOMAIN ws /\ \A j \in DOMAIN r : j + 1 \in DOMAIN ws
    BY <2>2, <2>3
  <2>5. uio \in ToSet(ws)
    BY <2>2, <2>4 DEF ToSet
  <2>6. \A e \in ToSet(r) : e \in ToSet(ws)
    BY <2>2, <2>3, <2>4 DEF ToSet
  <2> QED
    BY <2>2, <2>5, <2>6
<1> HIDE DEF ws
<1>10. /\ Flattened(ws) \in Seq(Word)
       /\ ToSet(ws) \subseteq PrefixClosure(ToSet(Flattened(ws)))
  BY <1>9, FlattenedKeeps, SMTT(30)
<1> QED
  BY <1>2, <1>7, <1>8, <1>9, <1>10 DEF roots

-----------------------------------------------------------------------------
(* The splitting tree of the Hopcroft call, from which the separators come:*)
(* all that is proved of create_splitting_tree holds of this call, too.    *)
HP == INSTANCE SplittingTreeProofs WITH
  Options <- {randomized_hopcroft_style}, opt <- randomized_hopcroft_style,
  tree <- h_tree,
  succession <- h_succession, is_complete <- h_is_complete, work <- h_work,
  days_without_progress <- h_days_without_progress,
  current_order <- h_current_order,
  split_in_current_order <- h_split_in_current_order, pc <- h_pc

(* The operators of SplittingTree mean the same in both instances: first   *)
(* what a word does to a block, and how the block is split by it.          *)
LEMMA SameBlocks ==
  /\ \A u, w : Hopcroft!new_blocks(u, w) = HP!new_blocks(u, w)
  /\ \A u, w : Hopcroft!Split(u, w) => HP!Split(u, w)
<1>1. /\ \A s, w : Hopcroft!to(s, w) = HP!to(s, w)
      /\ \A s, w : Hopcroft!out(s, w) = HP!out(s, w)
  BY DEF Hopcroft!to, HP!to, Hopcroft!out, HP!out, Hopcroft!applyWord, HP!applyWord,
         Hopcroft!NoOutput, HP!NoOutput
<1>2. \A u, w : Hopcroft!new_blocks(u, w) = HP!new_blocks(u, w)
  BY <1>1 DEF Hopcroft!new_blocks, HP!new_blocks
<1>3. \A bs : Hopcroft!InOrder(bs) = HP!InOrder(bs)
  BY DEF Hopcroft!InOrder, HP!InOrder, Hopcroft!Cardinality, HP!Cardinality
<1>4. \A u, w : Hopcroft!update_succession(u, w) => HP!update_succession(u, w)
  BY <1>1 DEF Hopcroft!update_succession, HP!update_succession, Hopcroft!State,
              HP!State, Hopcroft!Undefined, HP!Undefined
<1>5. \A d : Hopcroft!Leaf(d) = HP!Leaf(d)
  BY DEF Hopcroft!Leaf, HP!Leaf
<1> QED
  BY <1>2, <1>3, <1>4, <1>5, ZenonT(60) DEF Hopcroft!Split, HP!Split

(* Then what is tried on a block, and that nothing splits it.              *)
LEMMA SameTries ==
  /\ Hopcroft!Leaves = HP!Leaves
  /\ \A u : Hopcroft!Pop(u) <=> HP!Pop(u)
  /\ \A u : Hopcroft!Cardinality(u) = HP!Cardinality(u)
  /\ \A A : Hopcroft!FirstTried(A) = HP!FirstTried(A)
  /\ \A u : Hopcroft!OutputSymbols(u) = HP!OutputSymbols(u)
  /\ \A u, a : Hopcroft!StateWords(u, a) = HP!StateWords(u, a)
  /\ \A u, a : Hopcroft!ValidStateWords(u, a) = HP!ValidStateWords(u, a)
  /\ \A u : Hopcroft!StateSymbols(u) = HP!StateSymbols(u)
<1>1. Hopcroft!Leaves = HP!Leaves /\ Hopcroft!Internal = HP!Internal
  BY DEF Hopcroft!Leaves, HP!Leaves, Hopcroft!Internal, HP!Internal
<1>2. /\ \A u : Hopcroft!Pop(u) <=> HP!Pop(u)
      /\ \A u : Hopcroft!Cardinality(u) = HP!Cardinality(u)
      /\ \A A : Hopcroft!FirstTried(A) = HP!FirstTried(A)
  BY DEF Hopcroft!Pop, HP!Pop, Hopcroft!Cardinality, HP!Cardinality,
         Hopcroft!FirstTried, HP!FirstTried
<1>3. /\ \A bs, a : Hopcroft!is_valid(bs, a) <=> HP!is_valid(bs, a)
      /\ Hopcroft!OutputStage <=> HP!OutputStage
      /\ Hopcroft!StateStage <=> HP!StateStage
      /\ Hopcroft!Input = HP!Input
  BY DEF Hopcroft!is_valid, HP!is_valid, Hopcroft!OutputStage, HP!OutputStage,
         Hopcroft!StateStage, HP!StateStage, Hopcroft!Input, HP!Input
<1>4. \A u : Hopcroft!OutputSymbols(u) = HP!OutputSymbols(u)
  BY <1>2, <1>3, SameBlocks DEF Hopcroft!OutputSymbols, HP!OutputSymbols,
         Hopcroft!OutputSplits, HP!OutputSplits
<1>5. \A u, a : Hopcroft!StateWords(u, a) = HP!StateWords(u, a)
  BY <1>1, <1>3 DEF Hopcroft!StateWords, HP!StateWords, Hopcroft!IsLca, HP!IsLca,
         Hopcroft!successor_states, HP!successor_states
<1>6. \A u, a : Hopcroft!ValidStateWords(u, a) = HP!ValidStateWords(u, a)
  BY <1>3, <1>5, SameBlocks DEF Hopcroft!ValidStateWords, HP!ValidStateWords
<1>7. \A u : Hopcroft!StateSymbols(u) = HP!StateSymbols(u)
  BY <1>3, <1>6 DEF Hopcroft!StateSymbols, HP!StateSymbols
<1> QED
  BY <1>1, <1>2, <1>4, <1>5, <1>6, <1>7

(* A fruitless visit.                                                      *)
LEMMA SameFruitless ==
  /\ \A u : Hopcroft!Fruitless(u) => HP!Fruitless(u)
  /\ Hopcroft!Exhausted <=> HP!Exhausted
<1>1. \A u : Hopcroft!Stuck(u) <=> HP!Stuck(u)
  BY SameTries DEF Hopcroft!Stuck, HP!Stuck
<1>2. \A u : Hopcroft!LeaveTrace(u) => HP!LeaveTrace(u)
  <2>1. \A u, w : Hopcroft!update_succession(u, w) => HP!update_succession(u, w)
    BY DEF Hopcroft!update_succession, HP!update_succession, Hopcroft!State,
           HP!State, Hopcroft!Undefined, HP!Undefined, Hopcroft!to, HP!to,
           Hopcroft!applyWord, HP!applyWord, Hopcroft!NoOutput, HP!NoOutput
  <2>2. /\ \A A : Hopcroft!LastTried(A) = HP!LastTried(A)
        /\ Hopcroft!OutputStage <=> HP!OutputStage
        /\ Hopcroft!Input = HP!Input
    BY DEF Hopcroft!LastTried, HP!LastTried, Hopcroft!OutputStage, HP!OutputStage,
           Hopcroft!Input, HP!Input
  <2> QED
    BY <2>1, <2>2, SameTries DEF Hopcroft!LeaveTrace, HP!LeaveTrace
<1>3. Hopcroft!Exhausted <=> HP!Exhausted
  BY DEF Hopcroft!Exhausted, HP!Exhausted
<1> QED
  BY <1>1, <1>2, <1>3, SameTries DEF Hopcroft!Fruitless, HP!Fruitless

(* Every step of the call is one of the instance that is proved about.     *)
LEMMA SameSteps ==
  /\ Hopcroft!Init => HP!Init
  /\ Hopcroft!Next => HP!Next
<1>1. Hopcroft!Init => HP!Init
  BY DEF Hopcroft!Init, HP!Init, Hopcroft!Leaf, HP!Leaf, Hopcroft!State, HP!State
<1>2. Hopcroft!SkipSingleton => HP!SkipSingleton
  BY SameTries DEF Hopcroft!SkipSingleton, HP!SkipSingleton,
                   Hopcroft!result, HP!result
<1>3. Hopcroft!SplitOnOutput => HP!SplitOnOutput
  BY SameTries, SameBlocks DEF Hopcroft!SplitOnOutput, HP!SplitOnOutput
<1>4. Hopcroft!SplitOnState => HP!SplitOnState
  BY SameTries, SameBlocks DEF Hopcroft!SplitOnState, HP!SplitOnState
<1>5. Hopcroft!Requeue => HP!Requeue
  BY SameTries, SameFruitless DEF Hopcroft!Requeue, HP!Requeue
<1>6. Hopcroft!RaiseOrder => HP!RaiseOrder
  BY SameTries, SameFruitless DEF Hopcroft!RaiseOrder, HP!RaiseOrder
<1>7. Hopcroft!GiveUp => HP!GiveUp
  BY SameTries, SameFruitless DEF Hopcroft!GiveUp, HP!GiveUp
<1>8. Hopcroft!Finish => HP!Finish
  BY DEF Hopcroft!Finish, HP!Finish, Hopcroft!result, HP!result
<1> QED
  BY <1>1, <1>2, <1>3, <1>4, <1>5, <1>6, <1>7, <1>8
     DEF Hopcroft!Next, HP!Next

(* The tree of that call tells apart what can be told apart, as main uses  *)
(* it.                                                                     *)
LEMMA SeparatorsTell == MainSpec => [](h_pc = "returned" => Tells(g, h_tree))
<1>1. /\ {randomized_hopcroft_style} \subseteq HP!options
      /\ Machines \subseteq HP!Machine
  BY MachinesAssumption
     DEF Machine, HP!Machine, State, HP!State, Input, HP!Input, Edge, HP!Edge,
         Output, HP!Output, randomized_hopcroft_style, hopcroft_style, HP!options
<1>2. HP!Spec => [](h_pc = "returned" /\ ~ randomized_hopcroft_style.check_validity
                      /\ ~ randomized_hopcroft_style.assert_minimal_order
                        => HP!Tells(g, h_tree))
  BY <1>1, SizesAssumption, HP!HopcroftTells
<1>3. /\ ~ randomized_hopcroft_style.check_validity
      /\ ~ randomized_hopcroft_style.assert_minimal_order
  BY DEF randomized_hopcroft_style, hopcroft_style
<1>4. HP!Tells(g, h_tree) => Tells(g, h_tree)
  <2>1. /\ HP!State = State /\ HP!Word = Word
        /\ \A s, w : HP!applyWord(g, s, w) = applyWord(g, s, w)
        /\ HP!Equivalence(g) = Equivalence(g)
    BY DEF HP!State, State, HP!Word, Word, HP!Input, Input, HP!applyWord, applyWord,
           HP!NoOutput, NoOutput, HP!Equivalence, Equivalence, HP!EquivalentUpTo,
           EquivalentUpTo
  <2>2. \A v, Y : HP!Lowest(h_tree, v, Y) <=> Lowest(h_tree, v, Y)
    BY DEF HP!Lowest, Lowest
  <2>3. HP!Shaped(h_tree, State) <=> Shaped(h_tree, State)
    BY DEF HP!Shaped, Shaped, HP!IsFiniteSet, IsFiniteSet
  <2> QED
    BY <2>1, <2>2, <2>3 DEF HP!Tells, Tells
<1>5. MainInit => HP!Init
  BY SameSteps DEF MainInit
<1>6. [MainNext]_main_vars => [HP!Next]_HP!vars
  <2>1. UNCHANGED h_vars /\ UNCHANGED g => UNCHANGED HP!vars
    BY DEF HP!vars, HP!result, h_vars, h_result, randomized_hopcroft_style,
           hopcroft_style
  <2>2. UNCHANGED main_vars => UNCHANGED h_vars /\ UNCHANGED g
    BY DEF main_vars, vars
  <2>3. UNCHANGED vars => UNCHANGED g
    BY SMTT(30) DEF vars
  <2>4. LeeYannakakis \/ SkipLeeYannakakis => UNCHANGED g
    BY DEF LeeYannakakis, SkipLeeYannakakis, Next, SkipSingleton, SplitOnOutput,
           SplitOnState, Split, Requeue, RaiseOrder, GiveUp, Finish, Fruitless
  <2> QED
    BY <2>1, <2>2, <2>3, <2>4, SameSteps DEF MainNext
<1> QED
  BY <1>2, <1>3, <1>4, <1>5, <1>6, PTL DEF MainSpec, HP!Spec

-----------------------------------------------------------------------------
(* The decision tree in main.                                              *)

(* Without HADS both trees keep one node: the splitting tree was never     *)
(* refined, and its only leaf tells nothing apart.                         *)
BothRoots ==
  /\ tree = [v \in {State} |-> Leaf(0)]
  /\ sequence = [n \in {State} |->
                   AdsNode([k \in 1 .. N |-> <<k - 1, k - 1>>], 0)]

(* The lowest node with a set of states of such a splitting tree.          *)
LEMMA RootIsLca ==
  ASSUME tree = [v \in {State} |-> Leaf(0)], NEW X, X \cap State # {}
  PROVE  lca(tree, State, X) \in Leaves
<1>1. /\ DOMAIN tree = {State} /\ tree[State].children = <<>>
      /\ State # {} /\ IsFiniteSet(State)
  <2>1. 0 \in State /\ IsFiniteSet(State)
    <3>1. IsFiniteSet(0 .. N - 1)
      BY SizesAssumption, FS_Interval
    <3> QED
      BY <3>1, SizesAssumption DEF State
  <2> QED
    BY <2>1 DEF Leaf
<1>2. Shaped(tree, State)
  BY <1>1, EmptySeq DEF Shaped
<1> DEFINE r == lca_impl(tree, State, X)
<1>3. WalkFinds(tree, X, State, r)
  BY <1>2, WalkIsRight
<1>4. Lowest(tree, Last(r.store), State \cap X)
  BY <1>3 DEF WalkFinds
<1> QED
  BY <1>1, <1>4 DEF Lowest, lca, Leaves

(* Then the decision tree is not split.                                    *)
LEMMA RootIsLeft == BothRoots => ~ AdsSplit
<1> SUFFICES ASSUME BothRoots, AdsSplit PROVE FALSE
  BY SMTT(30)
<1>1. PICK node \in DOMAIN sequence : ~ Unsplittable(sequence[node].CI)
  BY DEF AdsSplit
<1> DEFINE CI == [k \in 1 .. N |-> <<k - 1, k - 1>>]
<1>2. sequence[node].CI = CI
  BY <1>1 DEF BothRoots, AdsNode
<1>3. 0 \in Currents(CI) /\ 0 \in State
  <2>1. 1 \in DOMAIN CI /\ CI[1][1] = 0
    BY SizesAssumption
  <2> QED
    BY <2>1, SizesAssumption DEF Currents, State
<1> HIDE DEF CI
<1>4. lca_of(CI) \in Leaves
  BY <1>3, RootIsLca DEF BothRoots, lca_of
<1> QED
  BY <1>1, <1>2, <1>4 DEF Unsplittable

(* The steps of main, as the decision tree sees them.                      *)
LEMMA MainSteps ==
  /\ [MainNext]_main_vars =>
       use_distinguishing_sequence' = use_distinguishing_sequence
  /\ use_distinguishing_sequence /\ [MainNext]_main_vars =>
       [LyNext]_<<vars, ads_vars>>
  /\ ~ use_distinguishing_sequence /\ BothRoots /\ [MainNext]_main_vars => BothRoots'
<1>1. [MainNext]_main_vars => use_distinguishing_sequence' = use_distinguishing_sequence
  BY DEF MainNext, main_vars
<1>2. use_distinguishing_sequence /\ [MainNext]_main_vars =>
        [LyNext]_<<vars, ads_vars>>
  BY DEF MainNext, main_vars, LyNext, LeeYannakakis, SkipLeeYannakakis
<1>3. ~ use_distinguishing_sequence /\ BothRoots /\ [MainNext]_main_vars => BothRoots'
  <2> SUFFICES ASSUME ~ use_distinguishing_sequence, BothRoots, [MainNext]_main_vars
               PROVE  tree' = tree /\ sequence' = sequence
    BY DEF BothRoots
  <2>1. CASE AdsNext /\ UNCHANGED vars
    BY <2>1, RootIsLeft DEF AdsNext, AdsLeave, AdsFinish, vars, result
  <2>2. CASE UNCHANGED <<vars, ads_vars>>
    BY <2>2 DEF vars, result, ads_vars
  <2>3. CASE SkipLeeYannakakis /\ UNCHANGED ads_vars
    BY <2>3 DEF SkipLeeYannakakis, result, ads_vars
  <2> QED
    BY <2>1, <2>2, <2>3 DEF MainNext, main_vars, LeeYannakakis
<1> QED
  BY <1>1, <1>2, <1>3

(* Whatever the suffix mode is, the decision tree is one at any time.      *)
LEMMA SequenceDecides ==
  ASSUME LeeYannakakisStyle
  PROVE  MainSpec => []Decides(g, sequence)
<1> DEFINE use == use_distinguishing_sequence
<1>1. use \/ ~ use
  OBVIOUS
<1>2. use /\ MainSpec => []Decides(g, sequence)
  <2>1. use /\ MainInit => LyInit
    BY DEF MainInit, LyInit
  <2>2. [MainNext]_main_vars => (use => use') /\ (use => [LyNext]_<<vars, ads_vars>>)
    BY MainSteps
  <2>3. LySpec => []AInv
    BY AdsInvariance
  <2>4. AInv => Decides(g, sequence)
    BY DEF AInv, Decides
  <2> QED
    BY <2>1, <2>2, <2>3, <2>4, PTL DEF MainSpec, LySpec
<1>3. ~ use /\ MainSpec => []Decides(g, sequence)
  <2>1. ~ use /\ MainInit => BothRoots /\ g \in Machine
    BY MachinesAssumption DEF MainInit, Init, AdsInit, BothRoots
  <2>2. [MainNext]_main_vars => (~ use => ~ use')
    BY MainSteps
  <2>3. ~ use /\ BothRoots /\ g \in Machine /\ [MainNext]_main_vars =>
          BothRoots' /\ (g \in Machine)'
    <3>1. [MainNext]_main_vars => g' = g
      BY DEF MainNext, main_vars, vars, LeeYannakakis, SkipLeeYannakakis, Next,
             SkipSingleton, SplitOnOutput, SplitOnState, Split, Requeue, RaiseOrder,
             GiveUp, Finish, Fruitless
    <3> QED
      BY <3>1, MainSteps, SMTT(30)
  <2>4. BothRoots /\ g \in Machine => Decides(g, sequence)
    BY RootDecides DEF BothRoots
  <2> QED
    BY <2>1, <2>2, <2>3, <2>4, PTL DEF MainSpec
<1> QED
  BY <1>1, <1>2, <1>3, PTL

-----------------------------------------------------------------------------
(* The walk over the decision tree.                                        *)

(* The words of W begin with the word along a branch to a leaf with s, and *)
(* with the separators of the nodes with s that the walk over the leaf     *)
(* passes.                                                                 *)
CoveredBy(s, n, W) ==
  /\ s \in n /\ sequence[n].children = <<>>
  /\ WordAlong(sequence, n) \in PrefixClosure(W)
  /\ \A v \in ToSet(multi_lca(h_tree, State, n)) :
       s \in v => h_tree[v].separator \in PrefixClosure(W)

Covered(s) == \E n \in DOMAIN sequence : CoveredBy(s, n, ToSet(family[s]))

(* Every state waits on the stack or has its words; a node on the stack    *)
(* waits with the word along the branch to it.                             *)
FInv ==
  /\ family \in [State -> Seq(Word)]
  /\ stack \in Seq(Word \X DOMAIN sequence)
  /\ \A i \in DOMAIN stack : stack[i][1] = WordAlong(sequence, stack[i][2])
  /\ \A s \in State : Covered(s) \/ \E i \in DOMAIN stack : s \in stack[i][2]
  /\ fam_pc = "returned" => stack = <<>>

(* main makes the suffixes after both trees, which stay what they are.     *)
FamilyInTurn ==
  /\ ads_pc # "returned" => FamInit
  /\ ads_pc = "returned" => h_pc = "returned"

(* The stack at first.                                                     *)
LEMMA FamInitFInv == Decides(g, sequence) /\ FamInit => FInv
<1> SUFFICES ASSUME Decides(g, sequence), FamInit PROVE FInv
  OBVIOUS
<1>1. /\ stack = << <<(<<>>), State>> >> /\ family = [s \in State |-> <<>>]
      /\ fam_pc = "loop"
  BY DEF FamInit
<1>2. State \in DOMAIN sequence /\ \A n \in DOMAIN sequence : n \in Node
  BY DEF Decides, Nested, Listed
<1>3. WordAlong(sequence, State) = <<>>
  <2>1. \A n \in DOMAIN sequence : ~ (State \subseteq n /\ n # State)
    BY <1>2 DEF Node
  <2> QED
    BY <2>1, RootWord
<1>4. <<>> \in Word /\ <<>> \in Seq(Word)
  BY EmptySeq DEF Word
<1>5. <<(<<>>), State>> \in Word \X DOMAIN sequence
  BY <1>2, <1>4
<1>6. /\ stack \in Seq(Word \X DOMAIN sequence) /\ DOMAIN stack = {1}
      /\ stack[1][1] = <<>> /\ stack[1][2] = State
  BY <1>1, <1>5
<1> QED
  BY <1>1, <1>3, <1>4, <1>6 DEF FInv

(* r has the entries of p and, without its head, those of q.               *)
Pushed(S, q, p, r) ==
  /\ r \in Seq(S)
  /\ \A i \in DOMAIN r : \/ \E j \in DOMAIN p : r[i] = p[j]
                         \/ \E j \in DOMAIN q : r[i] = q[j]
  /\ \A j \in DOMAIN p : \E i \in DOMAIN r : r[i] = p[j]
  /\ \A j \in DOMAIN q : j # 1 => \E i \in DOMAIN r : r[i] = q[j]

(* The stack after a turn.                                                 *)
LEMMA PushedEntries ==
  ASSUME NEW S, NEW q \in Seq(S), q # <<>>, NEW p \in Seq(S)
  PROVE  /\ q[1] \in S /\ 1 \in DOMAIN q
         /\ Pushed(S, q, <<>>, Tail(q))
         /\ Pushed(S, q, p, Reverse(p) \o Tail(q))
<1>1. /\ Len(q) \in Nat /\ DOMAIN q = 1 .. Len(q) /\ Len(q) # 0
      /\ Len(p) \in Nat /\ DOMAIN p = 1 .. Len(p)
      /\ \A j \in 1 .. Len(q) : q[j] \in S
      /\ \A j \in 1 .. Len(p) : p[j] \in S
  BY LenProperties, EmptySeq, ElementOfSeq
<1> DEFINE t == Tail(q)
<1>2. /\ t \in Seq(S) /\ Len(t) = Len(q) - 1
      /\ \A i \in 1 .. Len(t) : t[i] = q[i + 1]
  BY <1>1, HeadTailProperties
<1>3. DOMAIN t = 1 .. Len(t) /\ Len(t) \in Nat
  BY <1>1, <1>2, LenProperties
<1> HIDE DEF t
<1>4. \A i \in DOMAIN t : i + 1 \in DOMAIN q /\ t[i] = q[i + 1]
  BY <1>1, <1>2, <1>3
<1>5. \A j \in DOMAIN q : j # 1 => j - 1 \in DOMAIN t /\ t[j - 1] = q[j]
  BY <1>1, <1>2, <1>3
<1> DEFINE b == Reverse(p)
<1>6. /\ b = [i \in 1 .. Len(p) |-> p[(Len(p) - i) + 1]]
      /\ \A i \in 1 .. Len(p) : (Len(p) - i) + 1 \in 1 .. Len(p)
  BY <1>1 DEF Reverse
<1> HIDE DEF b
<1>7. /\ b \in Seq(S) /\ Len(b) = Len(p) /\ DOMAIN b = 1 .. Len(p)
      /\ \A i \in 1 .. Len(p) : b[i] = p[(Len(p) - i) + 1]
  <2>1. \A i \in 1 .. Len(p) : b[i] \in S
    BY <1>1, <1>6
  <2>2. b \in [1 .. Len(p) -> S]
    BY <1>6, <2>1
  <2>3. b \in Seq(S)
    BY <1>1, <2>2, SeqDef
  <2> QED
    BY <1>1, <1>6, <2>2, <2>3, LenProperties
<1> DEFINE r == b \o t
<1>8. /\ r \in Seq(S) /\ Len(r) = Len(p) + Len(t)
      /\ \A i \in 1 .. Len(p) : r[i] = b[i]
      /\ \A i \in 1 .. Len(t) : r[Len(p) + i] = t[i]
  <2>1. r \in Seq(S) /\ Len(r) = Len(b) + Len(t)
    BY <1>2, <1>7, ConcatProperties
  <2>2. \A i \in 1 .. Len(p) : r[i] = b[i]
    BY <1>1, <1>2, <1>3, <1>7, ConcatProperties
  <2>3. ASSUME NEW i \in 1 .. Len(t) PROVE r[Len(p) + i] = t[i]
    <3>1. /\ Len(p) + i \in 1 .. Len(b) + Len(t) /\ ~ (Len(p) + i <= Len(b))
          /\ (Len(p) + i) - Len(b) = i
      BY <1>1, <1>3, <1>7
    <3> QED
      BY <1>2, <1>7, <3>1, ConcatProperties
  <2> QED
    BY <1>7, <2>1, <2>2, <2>3
<1> HIDE DEF r
<1>9. DOMAIN r = 1 .. Len(p) + Len(t)
  BY <1>8, LenProperties
<1>10. ASSUME NEW i \in DOMAIN r
       PROVE  \/ \E j \in DOMAIN p : r[i] = p[j]
              \/ \E j \in DOMAIN t : r[i] = t[j]
  <2>1. CASE i \in 1 .. Len(p)
    <3>1. r[i] = p[(Len(p) - i) + 1] /\ (Len(p) - i) + 1 \in DOMAIN p
      BY <1>1, <1>6, <1>7, <1>8, <2>1
    <3> QED
      BY <3>1
  <2>2. CASE i \notin 1 .. Len(p)
    <3>1. i - Len(p) \in 1 .. Len(t) /\ Len(p) + (i - Len(p)) = i
      BY <1>1, <1>3, <1>9, <2>2
    <3>2. r[i] = t[i - Len(p)]
      BY <1>8, <3>1
    <3> QED
      BY <1>3, <3>1, <3>2
  <2> QED
    BY <2>1, <2>2
<1>11. ASSUME NEW j \in DOMAIN p PROVE \E i \in DOMAIN r : r[i] = p[j]
  <2> DEFINE i == (Len(p) - j) + 1
  <2>1. i \in 1 .. Len(p) /\ (Len(p) - i) + 1 = j /\ i \in DOMAIN r
    BY <1>1, <1>3, <1>9
  <2> HIDE DEF i
  <2> QED
    BY <1>7, <1>8, <2>1
<1>12. ASSUME NEW j \in DOMAIN t PROVE \E i \in DOMAIN r : r[i] = t[j]
  <2>1. Len(p) + j \in DOMAIN r /\ r[Len(p) + j] = t[j]
    BY <1>1, <1>3, <1>8, <1>9
  <2> QED
    BY <2>1
<1>13. q[1] \in S /\ 1 \in DOMAIN q
  BY <1>1
<1>14. /\ \A i \in DOMAIN t : \E j \in DOMAIN q : t[i] = q[j]
       /\ \A j \in DOMAIN q : j # 1 => \E i \in DOMAIN t : t[i] = q[j]
  BY <1>4, <1>5
<1>15. Pushed(S, q, <<>>, t)
  <2>1. \A j \in DOMAIN <<>> : FALSE
    BY EmptySeq
  <2> QED
    BY <1>2, <1>14, <2>1 DEF Pushed
<1>16. Pushed(S, q, p, r)
  <2>1. \A i \in DOMAIN r : \/ \E j \in DOMAIN p : r[i] = p[j]
                            \/ \E j \in DOMAIN q : r[i] = q[j]
    BY <1>10, <1>14
  <2>2. \A j \in DOMAIN q : j # 1 => \E i \in DOMAIN r : r[i] = q[j]
    BY <1>12, <1>14
  <2> QED
    BY <1>8, <1>11, <2>1, <2>2 DEF Pushed
<1> QED
  BY <1>13, <1>15, <1>16 DEF r, b, t

(* A leaf: its states get their words, the others keep theirs.             *)
LEMMA FamLeafFInv ==
  FInv /\ Decides(g, sequence) /\ Tells(g, h_tree)
    /\ FamLeaf /\ sequence' = sequence /\ h_tree' = h_tree => FInv'
<1> SUFFICES ASSUME FInv, Decides(g, sequence), Tells(g, h_tree), FamLeaf,
                    sequence' = sequence, h_tree' = h_tree
             PROVE  FInv'
  OBVIOUS
<1>1. PICK n \in DOMAIN sequence :
        /\ fam_pc = "loop" /\ stack # <<>> /\ stack[1][2] = n
        /\ sequence[n].children = <<>>
        /\ family' = [s \in State |->
             IF s \in n THEN LeafWords(stack[1][1], n, s) ELSE family[s]]
        /\ stack' = Tail(stack) /\ fam_pc' = fam_pc
  BY DEF FamLeaf, LeafWords
<1> DEFINE S == Word \X DOMAIN sequence
           uio == stack[1][1]
<1>2. /\ stack \in Seq(S) /\ family \in [State -> Seq(Word)]
      /\ \A i \in DOMAIN stack : stack[i][1] = WordAlong(sequence, stack[i][2])
  BY DEF FInv
<1>3. /\ stack[1] \in S /\ Tail(stack) \in Seq(S) /\ 1 \in DOMAIN stack
      /\ \A i \in DOMAIN Tail(stack) : \E j \in DOMAIN stack : Tail(stack)[i] = stack[j]
      /\ \A j \in DOMAIN stack : j # 1 =>
           \E i \in DOMAIN Tail(stack) : Tail(stack)[i] = stack[j]
  <2>1. <<>> \in Seq(S)
    BY EmptySeq
  <2> HIDE DEF S
  <2>2. /\ stack[1] \in S /\ 1 \in DOMAIN stack
        /\ Pushed(S, stack, <<>>, Tail(stack))
    BY <1>1, <1>2, <2>1, PushedEntries
  <2>3. \A j \in DOMAIN <<>> : FALSE
    BY EmptySeq
  <2> QED
    BY <2>2, <2>3 DEF Pushed
<1>4. uio \in Word /\ uio = WordAlong(sequence, n)
  BY <1>1, <1>2, <1>3
<1>5. ASSUME NEW s \in State
      PROVE  /\ LeafWords(uio, n, s) \in Seq(Word)
             /\ uio \in PrefixClosure(ToSet(LeafWords(uio, n, s)))
             /\ \A v \in ToSet(multi_lca(h_tree, State, n)) : s \in v =>
                  h_tree[v].separator \in PrefixClosure(ToSet(LeafWords(uio, n, s)))
  <2>1. Shaped(h_tree, State) /\ \A v \in DOMAIN h_tree : h_tree[v].separator \in Word
    BY DEF Tells
  <2> HIDE DEF uio
  <2> QED
    BY <1>4, <2>1, SuffixesKeep
<1> HIDE DEF uio
<1>6. /\ DOMAIN family' = State
      /\ \A s \in State :
           family'[s] = IF s \in n THEN LeafWords(uio, n, s) ELSE family[s]
  BY <1>1 DEF uio
<1>7. family' \in [State -> Seq(Word)]
  <2>1. \A s \in State : family'[s] \in Seq(Word)
    BY <1>2, <1>5, <1>6
  <2>2. family' = [s \in State |-> family'[s]]
    BY <1>1
  <2> QED
    BY <2>1, <2>2
<1>8. ASSUME NEW s \in State
      PROVE  \/ \E x \in DOMAIN sequence : CoveredBy(s, x, ToSet(family'[s]))
             \/ \E i \in DOMAIN Tail(stack) : s \in Tail(stack)[i][2]
  <2>1. CASE s \in n
    <3>1. family'[s] = LeafWords(uio, n, s)
      BY <1>6, <2>1
    <3>2. CoveredBy(s, n, ToSet(LeafWords(uio, n, s)))
      BY <1>1, <1>4, <1>5, <2>1 DEF CoveredBy
    <3> QED
      BY <3>1, <3>2
  <2>2. CASE s \notin n
    <3>1. family'[s] = family[s]
      BY <1>6, <2>2
    <3>2. CASE Covered(s)
      BY <3>1, <3>2 DEF Covered
    <3>3. CASE \E i \in DOMAIN stack : s \in stack[i][2]
      <4>1. PICK j \in DOMAIN stack : s \in stack[j][2]
        BY <3>3
      <4>2. j # 1
        BY <1>1, <2>2, <4>1
      <4>3. PICK i \in DOMAIN Tail(stack) : Tail(stack)[i] = stack[j]
        BY <1>3, <4>2
      <4> QED
        BY <4>1, <4>3
    <3> QED
      BY <3>2, <3>3 DEF FInv
  <2> QED
    BY <2>1, <2>2
<1>9. \A s, x, W : CoveredBy(s, x, W)' <=> CoveredBy(s, x, W)
  BY DEF CoveredBy
<1>10. \A s \in State : Covered(s)' \/ \E i \in DOMAIN stack' : s \in stack'[i][2]
  BY <1>1, <1>8, <1>9 DEF Covered
<1>11. \A i \in DOMAIN Tail(stack) :
         Tail(stack)[i][1] = WordAlong(sequence, Tail(stack)[i][2])
  BY <1>2, <1>3, SMTT(30)
<1> QED
  BY <1>1, <1>3, <1>7, <1>10, <1>11 DEF FInv

(* An inner node: its children wait in its place, with longer words.       *)
LEMMA FamInnerFInv ==
  FInv /\ Decides(g, sequence)
    /\ FamInner /\ sequence' = sequence /\ h_tree' = h_tree => FInv'
<1> SUFFICES ASSUME FInv, Decides(g, sequence), FamInner,
                    sequence' = sequence, h_tree' = h_tree
             PROVE  FInv'
  OBVIOUS
<1>1. PICK n \in DOMAIN sequence :
        /\ fam_pc = "loop" /\ stack # <<>> /\ stack[1][2] = n
        /\ sequence[n].children # <<>>
        /\ stack' = Reverse([i \in DOMAIN sequence[n].children |->
                      <<stack[1][1] \o sequence[n].w, sequence[n].children[i]>>])
                    \o Tail(stack)
        /\ family' = family /\ fam_pc' = fam_pc
  BY DEF FamInner
<1> DEFINE S == Word \X DOMAIN sequence
           c == sequence[n].children
           v == stack[1][1] \o sequence[n].w
           p == [i \in DOMAIN c |-> <<v, c[i]>>]
           r == Reverse(p) \o Tail(stack)
<1>2. /\ stack \in Seq(S)
      /\ \A i \in DOMAIN stack : stack[i][1] = WordAlong(sequence, stack[i][2])
  BY DEF FInv
<1>3. /\ c \in Seq(DOMAIN sequence) /\ DOMAIN c = 1 .. Len(c) /\ Len(c) \in Nat
      /\ \A i \in DOMAIN c : c[i] \in DOMAIN sequence
      /\ UNION {c[i] : i \in DOMAIN c} = n
  <2>1. /\ c \in Seq(DOMAIN sequence)
        /\ UNION {c[i] : i \in DOMAIN c} = n
    BY <1>1 DEF Decides, Shared
  <2> HIDE DEF c
  <2> QED
    BY <2>1, LenProperties, ElementOfSeq
<1>4. /\ 1 \in DOMAIN stack /\ stack[1] \in S
      /\ \A q \in Seq(S) : Pushed(S, stack, q, Reverse(q) \o Tail(stack))
  <2>1. <<>> \in Seq(S)
    BY EmptySeq
  <2> HIDE DEF S
  <2> QED
    BY <1>1, <1>2, <2>1, PushedEntries
<1>5. v \in Word /\ \A i \in DOMAIN c : v = WordAlong(sequence, c[i])
  <2>1. stack[1][1] \in Word /\ stack[1][1] = WordAlong(sequence, n)
    BY <1>1, <1>2, <1>4
  <2>2. sequence[n].w \in Word
    BY DEF Decides, Tracked
  <2>3. v \in Word
    BY <2>1, <2>2, ConcatProperties DEF Word
  <2>4. \A i \in DOMAIN c : WordAlong(sequence, c[i])
                              = WordAlong(sequence, n) \o sequence[n].w
    BY DEF Decides, Linked
  <2> QED
    BY <2>1, <2>3, <2>4
<1> HIDE DEF c, v
<1>6. p \in Seq(S) /\ DOMAIN p = DOMAIN c /\ \A i \in DOMAIN c : p[i] = <<v, c[i]>>
  <2>1. \A i \in DOMAIN c : <<v, c[i]>> \in S
    BY <1>3, <1>5
  <2>2. p \in [1 .. Len(c) -> S]
    BY <1>3, <2>1
  <2> HIDE DEF p, S
  <2>3. p \in Seq(S)
    BY <1>3, <2>2, SeqDef
  <2> QED
    BY <2>3 DEF p
<1> HIDE DEF p
<1>7. Pushed(S, stack, p, r)
  BY <1>4, <1>6
<1>8. stack' = r
  BY <1>1 DEF p, v, c
<1> HIDE DEF r
<1>9. ASSUME NEW i \in DOMAIN r PROVE r[i][1] = WordAlong(sequence, r[i][2])
  <2>1. CASE \E j \in DOMAIN p : r[i] = p[j]
    BY <1>5, <1>6, <2>1
  <2>2. CASE \E j \in DOMAIN stack : r[i] = stack[j]
    BY <1>2, <2>2
  <2> QED
    BY <1>7, <2>1, <2>2 DEF Pushed
<1>10. ASSUME NEW s \in State, NEW j \in DOMAIN stack, s \in stack[j][2]
       PROVE  \E i \in DOMAIN r : s \in r[i][2]
  <2>1. CASE j = 1
    <3>1. s \in n
      BY <1>1, <1>10, <2>1
    <3>2. PICK k \in DOMAIN c : s \in c[k]
      BY <1>3, <3>1
    <3>3. PICK i \in DOMAIN r : r[i] = p[k]
      BY <1>6, <1>7 DEF Pushed
    <3>4. r[i][2] = c[k]
      BY <1>6, <3>3
    <3> QED
      BY <3>2, <3>4
  <2>2. CASE j # 1
    BY <1>7, <1>10, <2>2 DEF Pushed
  <2> QED
    BY <2>1, <2>2
<1>11. \A s : Covered(s)' <=> Covered(s)
  BY <1>1 DEF Covered, CoveredBy
<1>12. \A s \in State : Covered(s)' \/ \E i \in DOMAIN stack' : s \in stack'[i][2]
  BY <1>8, <1>10, <1>11 DEF FInv
<1> QED
  BY <1>1, <1>7, <1>8, <1>9, <1>12 DEF FInv, Pushed

(* The order of the calls: the walk finds both trees finished.             *)
LEMMA CallsInTurn == MainSpec => []FamilyInTurn
<1>1. MainInit => FamilyInTurn
  BY DEF MainInit, AdsInit, FamilyInTurn
<1>2. FamilyInTurn /\ [MainNext]_main_vars => FamilyInTurn'
  <2> SUFFICES ASSUME FamilyInTurn, [MainNext]_main_vars PROVE FamilyInTurn'
    OBVIOUS
  <2>1. ASSUME UNCHANGED fam_vars, UNCHANGED ads_pc, h_pc' = h_pc PROVE FamilyInTurn'
    BY <2>1 DEF FamilyInTurn, FamInit, fam_vars
  <2>2. CASE Hopcroft!Next /\ UNCHANGED <<vars, ads_vars, fam_vars>>
    <3>1. h_pc = "loop"
      BY <2>2 DEF Hopcroft!Next, Hopcroft!SkipSingleton, Hopcroft!SplitOnOutput,
             Hopcroft!SplitOnState, Hopcroft!FirstTried, Hopcroft!OutputSymbols,
             Hopcroft!StateSymbols, Hopcroft!ValidStateWords, Hopcroft!Requeue,
             Hopcroft!RaiseOrder, Hopcroft!GiveUp, Hopcroft!Finish,
             Hopcroft!Fruitless, Hopcroft!Pop
    <3>2. ads_pc # "returned"
      BY <3>1 DEF FamilyInTurn
    <3> QED
      BY <2>2, <3>2 DEF FamilyInTurn, FamInit, fam_vars, ads_vars
  <2>3. CASE h_pc = "returned" /\ AdsNext /\ UNCHANGED <<h_vars, fam_vars>>
    <3>1. ads_pc # "returned" /\ h_pc' = "returned"
      BY <2>3 DEF AdsNext, AdsLeave, AdsSplit, AdsFinish, AdsPop, h_vars
    <3> QED
      BY <2>3, <3>1, SMTT(30) DEF FamilyInTurn, FamInit, fam_vars
  <2>4. CASE ads_pc = "returned" /\ UNCHANGED <<ads_vars, h_vars>>
    BY <2>4 DEF FamilyInTurn, ads_vars, h_vars
  <2>5. CASE UNCHANGED <<ads_vars, h_vars, fam_vars>>
    BY <2>1, <2>5 DEF ads_vars, h_vars
  <2> QED
    BY <2>2, <2>3, <2>4, <2>5 DEF MainNext, main_vars
<1> QED
  BY <1>1, <1>2, PTL DEF MainSpec

(* The invariant of the walk.                                              *)
LEMMA FamilyInvariance ==
  ASSUME LeeYannakakisStyle
  PROVE  MainSpec => []FInv
<1> DEFINE Facts == /\ Decides(g, sequence) /\ FamilyInTurn
                    /\ h_pc = "returned" => Tells(g, h_tree)
<1>1. MainInit /\ Facts => FInv
  BY FamInitFInv DEF MainInit
<1>2. (Decides(g, sequence) /\ FamInit => FInv)'
  BY FamInitFInv, PTL
<1>3. FInv /\ Facts /\ Facts' /\ [MainNext]_main_vars => FInv'
  <2> SUFFICES ASSUME FInv, Facts, Facts', [MainNext]_main_vars PROVE FInv'
    OBVIOUS
  <2>1. CASE ads_pc' # "returned"
    BY <1>2, <2>1 DEF FamilyInTurn
  <2>2. CASE UNCHANGED <<sequence, h_tree, fam_vars>>
    <3>1. \A s : Covered(s)' <=> Covered(s)
      BY <2>2 DEF Covered, CoveredBy, fam_vars
    <3> QED
      BY <2>2, <3>1 DEF FInv, fam_vars
  <2>3. CASE ads_pc = "returned" /\ FamNext /\ UNCHANGED <<vars, ads_vars, h_vars>>
    <3>1. /\ sequence' = sequence /\ h_tree' = h_tree
          /\ Decides(g, sequence) /\ Tells(g, h_tree)
      BY <2>3 DEF FamilyInTurn, ads_vars, h_vars, h_result
    <3>2. CASE FamLeaf
      BY <3>1, <3>2, FamLeafFInv
    <3>3. CASE FamInner
      BY <3>1, <3>3, FamInnerFInv
    <3>4. CASE FamFinish
      <4>1. \A s : Covered(s)' <=> Covered(s)
        BY <3>1, <3>4 DEF Covered, CoveredBy, FamFinish
      <4> QED
        BY <3>1, <3>4, <4>1 DEF FInv, FamFinish
    <3> QED
      BY <2>3, <3>2, <3>3, <3>4 DEF FamNext
  <2>4. CASE Hopcroft!Next /\ UNCHANGED <<vars, ads_vars, fam_vars>>
    <3>1. h_pc = "loop"
      BY <2>4 DEF Hopcroft!Next, Hopcroft!SkipSingleton, Hopcroft!SplitOnOutput,
             Hopcroft!SplitOnState, Hopcroft!FirstTried, Hopcroft!OutputSymbols,
             Hopcroft!StateSymbols, Hopcroft!ValidStateWords, Hopcroft!Requeue,
             Hopcroft!RaiseOrder, Hopcroft!GiveUp, Hopcroft!Finish,
             Hopcroft!Fruitless, Hopcroft!Pop
    <3>2. ads_pc' # "returned"
      BY <2>4, <3>1 DEF FamilyInTurn, ads_vars
    <3> QED
      BY <2>1, <3>2
  <2>5. CASE AdsNext /\ UNCHANGED <<vars, h_vars, fam_vars>>
    <3>1. CASE AdsFinish \/ AdsLeave
      BY <2>2, <2>5, <3>1 DEF AdsFinish, AdsLeave, h_vars, h_result
    <3>2. CASE AdsSplit
      <4>1. ads_pc' # "returned"
        BY <3>2 DEF AdsSplit, AdsPop
      <4> QED
        BY <2>1, <4>1
    <3> QED
      BY <2>5, <3>1, <3>2 DEF AdsNext
  <2>6. CASE UNCHANGED <<ads_vars, h_vars, fam_vars>>
    BY <2>2, <2>6 DEF ads_vars, h_vars, h_result
  <2> QED
    BY <2>3, <2>4, <2>5, <2>6 DEF MainNext, main_vars
<1>4. MainSpec => []Facts
  BY SequenceDecides, CallsInTurn, SeparatorsTell, PTL
<1> HIDE DEF Facts
<1> QED
  BY <1>1, <1>3, <1>4, PTL DEF MainSpec

(* A beginning of a word is as good as the word.                           *)
LEMMA LongerWord ==
  ASSUME NEW W \in SUBSET Word, NEW p \in PrefixClosure(W)
  PROVE  \E v \in W : /\ v \in Word /\ p \in Word
                      /\ Len(p) \in Nat /\ Len(v) \in Nat /\ Len(p) <= Len(v)
                      /\ \A k \in 1 .. Len(p) : SubSeq(v, 1, k) = SubSeq(p, 1, k)
<1>1. PICK v \in W : p \in Prefixes(v)
  BY DEF PrefixClosure
<1>2. /\ v \in Seq(Input) /\ p \in Seq(Input)
      /\ Len(p) \in 0 .. Len(v) /\ p = SubSeq(v, 1, Len(p))
  <2>1. v \in Seq(Input)
    BY DEF Word
  <2> QED
    BY <1>1, <2>1, PrefixesFacts
<1>3. Len(v) \in Nat /\ Len(p) \in Nat
  BY <1>2, LenProperties, SMTT(30)
<1>4. PICK m \in 0 .. Len(v) : m = Len(p)
  BY <1>2
<1>5. \A k \in 1 .. m : SubSeq(SubSeq(v, 1, m), 1, k) = SubSeq(v, 1, k)
  <2>1. \A k \in 1 .. m : k \in 0 .. m
    BY <1>3, <1>4
  <2> QED
    BY <1>2, <2>1, TakeTake
<1>6. p = SubSeq(v, 1, m)
  BY <1>2, <1>4
<1>7. \A k \in 1 .. Len(p) : SubSeq(v, 1, k) = SubSeq(p, 1, k)
  BY <1>4, <1>5, <1>6
<1> QED
  BY <1>2, <1>3, <1>7 DEF Word

(* The family is harmonised, for every machine, whatever part of the work  *)
(* the decision tree has left to the separators: two states that are not   *)
(* equivalent are in different leaves, and the words along the branches    *)
(* tell them apart, or in one leaf, and then both keep the separator of    *)
(* their lowest node in the tree of the Hopcroft call.                     *)
THEOREM FamilyIsHarmonised ==
  ASSUME LeeYannakakisStyle
  PROVE  MainSpec => []Harmonised
<1>1. FInv /\ FamilyInTurn /\ Decides(g, sequence)
        /\ (h_pc = "returned" => Tells(g, h_tree)) => Harmonised
  <2> SUFFICES ASSUME FInv, FamilyInTurn, Decides(g, sequence),
                      h_pc = "returned" => Tells(g, h_tree),
                      fam_pc = "returned", NEW s \in State, NEW t \in State,
                      <<s, t>> \notin Equivalence(g)
               PROVE  \E v \in ToSet(family[s]), w \in ToSet(family[t]) :
                        SeparatedBy(s, t, v, w)
    BY DEF Harmonised
  <2>1. Tells(g, h_tree)
    <3>1. fam_pc # "loop"
      OBVIOUS
    <3> QED
      BY <3>1 DEF FamilyInTurn, FamInit
  <2> DEFINE W(x) == ToSet(family[x])
  <2>2. \A x \in State : W(x) \in SUBSET Word /\ Covered(x)
    <3>1. \A i \in DOMAIN stack : FALSE
      BY EmptySeq DEF FInv
    <3>2. \A x \in State : family[x] \in Seq(Word)
      BY DEF FInv
    <3>3. \A x \in State : \A i \in DOMAIN family[x] : family[x][i] \in Word
      BY <3>2, LenProperties, ElementOfSeq
    <3> QED
      BY <3>1, <3>3 DEF FInv, ToSet
  <2> HIDE DEF W
  <2>3. PICK n \in DOMAIN sequence : CoveredBy(s, n, W(s))
    BY <2>2 DEF Covered, W
  <2>4. PICK m \in DOMAIN sequence : CoveredBy(t, m, W(t))
    BY <2>2 DEF Covered, W
  <2>5. ASSUME NEW p \in PrefixClosure(W(s)), NEW q \in PrefixClosure(W(t)),
               NEW k \in 1 .. Len(p), k <= Len(q), SubSeq(p, 1, k) = SubSeq(q, 1, k),
               out(s, SubSeq(p, 1, k)) # out(t, SubSeq(p, 1, k))
        PROVE  \E v \in W(s), w \in W(t) : SeparatedBy(s, t, v, w)
    <3>1. PICK v \in W(s) :
            /\ Len(p) \in Nat /\ Len(v) \in Nat /\ Len(p) <= Len(v)
            /\ \A j \in 1 .. Len(p) : SubSeq(v, 1, j) = SubSeq(p, 1, j)
      BY <2>2, LongerWord
    <3>2. PICK w \in W(t) :
            /\ Len(q) \in Nat /\ Len(w) \in Nat /\ Len(q) <= Len(w)
            /\ \A j \in 1 .. Len(q) : SubSeq(w, 1, j) = SubSeq(q, 1, j)
      BY <2>2, LongerWord
    <3>3. k \in 1 .. Len(v) /\ k <= Len(w) /\ k \in 1 .. Len(q)
      BY <2>5, <3>1, <3>2
    <3>4. SubSeq(v, 1, k) = SubSeq(p, 1, k) /\ SubSeq(w, 1, k) = SubSeq(q, 1, k)
      BY <3>1, <3>2, <3>3
    <3>5. SeparatedBy(s, t, v, w)
      BY <2>5, <3>3, <3>4 DEF SeparatedBy
    <3> QED
      BY <3>5
  <2>6. CASE n = m
    <3>1. PICK u \in DOMAIN h_tree :
            /\ h_tree[u].children # <<>> /\ Lowest(h_tree, u, {s, t})
            /\ h_tree[u].separator # <<>>
            /\ applyWord(g, s, h_tree[u].separator).out
                 # applyWord(g, t, h_tree[u].separator).out
      BY <2>1 DEF Tells
    <3> DEFINE p == h_tree[u].separator
    <3>2. u \in ToSet(multi_lca(h_tree, State, n))
      <4>1. Shaped(h_tree, State) /\ u \subseteq State
        BY <2>1 DEF Tells, Shaped
      <4>2. WalkFinds(h_tree, n, State, lca_impl(h_tree, State, n))
        BY <4>1, WalkIsRight
      <4>3. s \in State \cap n /\ t \in State \cap n
        BY <2>3, <2>4, <2>6 DEF CoveredBy
      <4> QED
        BY <3>1, <4>1, <4>2, <4>3 DEF WalkFinds, multi_lca
    <3>3. s \in u /\ t \in u
      BY <3>1 DEF Lowest
    <3>4. p \in PrefixClosure(W(s)) /\ p \in PrefixClosure(W(t))
      BY <2>3, <2>4, <2>6, <3>2, <3>3 DEF CoveredBy
    <3>5. p \in Word
      BY <2>1 DEF Tells
    <3> HIDE DEF p
    <3>6. Len(p) \in 1 .. Len(p) /\ SubSeq(p, 1, Len(p)) = p
      <4>1. Len(p) \in Nat /\ Len(p) # 0
        BY <3>1, <3>5, LenProperties, EmptySeq DEF Word, p
      <4>2. SubSeq(p, 1, Len(p)) = p
        BY <3>5, SubSeqFull DEF Word
      <4> QED
        BY <4>1, <4>2
    <3>7. out(s, SubSeq(p, 1, Len(p))) # out(t, SubSeq(p, 1, Len(p)))
      BY <3>1, <3>6 DEF out, p
    <3>8. Len(p) <= Len(p)
      BY <3>6
    <3>9. \E v \in W(s), w \in W(t) : SeparatedBy(s, t, v, w)
      BY <2>5, <3>4, <3>6, <3>7, <3>8
    <3> QED
      BY <3>9 DEF W
  <2>7. CASE n # m
    <3> DEFINE p == WordAlong(sequence, n)
               q == WordAlong(sequence, m)
    <3>1. n \cap m = {}
      <4>1. sequence[n].children = <<>> /\ sequence[m].children = <<>>
        BY <2>3, <2>4 DEF CoveredBy
      <4>2. ~ (n \subseteq m) /\ ~ (m \subseteq n)
        BY <2>7, <4>1 DEF Decides, Nested
      <4> QED
        BY <4>2 DEF Decides, Nested
    <3>2. Told(g, n, m, p, q)
      BY <3>1 DEF Decides, Apart
    <3>3. p \in PrefixClosure(W(s)) /\ q \in PrefixClosure(W(t)) /\ s \in n /\ t \in m
      BY <2>3, <2>4 DEF CoveredBy
    <3> HIDE DEF p, q
    <3>4. PICK k \in 1 .. Len(p) :
            /\ k <= Len(q) /\ SubSeq(p, 1, k) = SubSeq(q, 1, k)
            /\ \A x \in n, y \in m : applyWord(g, x, SubSeq(p, 1, k)).out
                                       # applyWord(g, y, SubSeq(p, 1, k)).out
      BY <3>2 DEF Told
    <3>5. out(s, SubSeq(p, 1, k)) # out(t, SubSeq(p, 1, k))
      BY <3>3, <3>4 DEF out
    <3>6. \E v \in W(s), w \in W(t) : SeparatedBy(s, t, v, w)
      BY <2>5, <3>3, <3>4, <3>5
    <3> QED
      BY <3>6 DEF W
  <2> QED
    BY <2>6, <2>7
<1> QED
  BY <1>1, FamilyInvariance, CallsInTurn, SequenceDecides, SeparatorsTell, PTL
=============================================================================
