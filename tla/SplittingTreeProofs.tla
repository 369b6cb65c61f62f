------------------------- MODULE SplittingTreeProofs -------------------------
(***************************************************************************)
(* What create_splitting_tree guarantees for every machine, every set of   *)
(* options and every order of the inputs: first that its assertions, its   *)
(* cache and its counter are right, then what the tree is for: the loop    *)
(* refines a partition, the leaves of a Hopcroft tree are the classes of   *)
(* equivalent states, and separators do what their users rely on.          *)
(***************************************************************************)
EXTENDS SplittingTreeTheory, MealyProofs, FiniteSetTheorems

(* Nodes that share a state lie on one branch, the deeper one inside the   *)
(* other, and nothing lies inside a leaf.                                  *)
TreeShape ==
  /\ \A u, v \in DOMAIN tree :
       u \cap v # {} =>
         \/ u = v
         \/ u \subseteq v /\ tree[u].depth > tree[v].depth
         \/ v \subseteq u /\ tree[v].depth > tree[u].depth
  /\ \A u \in Leaves, v \in DOMAIN tree : v \subseteq u => v = u

(* Separators are words of at least one symbol, and children collect the   *)
(* states that answer alike at their end.                                  *)
LastOutputSeparates ==
  \A u \in Internal :
    /\ tree[u].separator # <<>>
    /\ \A i, j \in DOMAIN tree[u].children :
         \A s \in tree[u].children[i], t \in tree[u].children[j] :
           i = j <=> out(s, tree[u].separator) = out(t, tree[u].separator)

(* The cache has a row for every split node.                               *)
CacheIsFilled ==
  \A u \in Internal : tree[u].depth + 1 <= Len(succession)

(* The blocks visited since the last split are stuck, in minimal order only *)
(* as long as the days were counted from a split in the current order.     *)
VisitedAreStuck ==
  pc = "loop" /\ (opt.assert_minimal_order =>
                    split_in_current_order \/ current_order = 0) =>
    \A u \in Leaves : \A i \in DOMAIN work :
      work[i] = u /\ i + days_without_progress > Len(work) => Stuck(u)

IInv ==
  /\ TypeOK
  /\ TreeShape
  /\ ChildrenPartition
  /\ LastOutputSeparates
  /\ CacheIsFilled
  /\ CacheAgrees
  /\ QueueHoldsLeaves
  /\ VisitedAreStuck
  /\ NothingLeftToSplit

Row == [State -> State \cup {Undefined}]

-----------------------------------------------------------------------------
(* Facts about one split.                                                  *)

(* partition_ partitions: the blocks of a set of states are nonempty, do   *)
(* not overlap, cover the set, and collect equal outputs.                  *)
LEMMA BlocksPartition ==
  ASSUME NEW u \in Node, NEW w
  PROVE  /\ \A b \in new_blocks(u, w) : b \in Node /\ b \subseteq u
         /\ \A b, c \in new_blocks(u, w) : b \cap c # {} => b = c
         /\ UNION new_blocks(u, w) = u
         /\ \A b, c \in new_blocks(u, w) : \A s \in b, t \in c :
              b = c <=> out(s, w) = out(t, w)
<1> DEFINE block(s) == {t \in u : out(t, w) = out(s, w)}
<1>0. new_blocks(u, w) = {block(s) : s \in u}
  BY DEF new_blocks
<1>1. \A s \in u : s \in block(s) /\ block(s) \subseteq u
  OBVIOUS
<1>2. \A s, t \in u : out(s, w) = out(t, w) => block(s) = block(t)
  OBVIOUS
<1>3. \A b \in new_blocks(u, w) : \A s \in b : s \in u /\ b = block(s)
  BY <1>0
<1>4. \A s, t \in u : t \in block(s) => out(t, w) = out(s, w)
  OBVIOUS
<1> HIDE DEF block
<1>5. \A b \in new_blocks(u, w) : b \in Node /\ b \subseteq u
  BY <1>0, <1>1 DEF Node
<1>6. \A b, c \in new_blocks(u, w) : b \cap c # {} => b = c
  BY <1>3
<1>7. UNION new_blocks(u, w) = u
  BY <1>0, <1>1
<1>8. \A b, c \in new_blocks(u, w) : \A s \in b, t \in c :
        b = c <=> out(s, w) = out(t, w)
  BY <1>2, <1>3, <1>4
<1> QED
  BY <1>5, <1>6, <1>7, <1>8

(* There are finitely many blocks, and when their number is not one there  *)
(* are at least two of them, all smaller than the set.                     *)
LEMMA BlocksFinite ==
  ASSUME NEW u \in Node, NEW w
  PROVE  /\ IsFiniteSet(new_blocks(u, w))
         /\ Cardinality(new_blocks(u, w)) \in Nat
         /\ Cardinality(new_blocks(u, w)) # 1 =>
              \E b, c \in new_blocks(u, w) : b # c
         /\ (\E b, c \in new_blocks(u, w) : b # c) => u \notin new_blocks(u, w)
<1> DEFINE bs == new_blocks(u, w)
<1>1. IsFiniteSet(State)
  BY SizesAssumption, FS_Interval DEF State
<1>2. IsFiniteSet(SUBSET State)
  BY <1>1, FS_SUBSET
<1>3. bs \subseteq SUBSET State
  BY BlocksPartition DEF Node
<1>4. IsFiniteSet(bs)
  BY <1>2, <1>3, FS_Subset
<1>5. Cardinality(bs) \in Nat
  BY <1>4, FS_CardinalityType
<1>6. ASSUME \A b, c \in bs : b = c PROVE Cardinality(bs) = 1
  <2>1. PICK s \in u : TRUE
    BY DEF Node
  <2>2. PICK b \in bs : s \in b
    BY BlocksPartition
  <2>3. bs = {b}
    BY <1>6, <2>2
  <2> QED
    BY <2>3, FS_Singleton
<1>7. (\E b, c \in bs : b # c) => u \notin bs
  <2> SUFFICES ASSUME NEW b \in bs, NEW c \in bs, b # c, u \in bs
               PROVE  FALSE
    OBVIOUS
  <2>0. \A d \in bs : d \in Node /\ d \subseteq u
    BY BlocksPartition
  <2> HIDE DEF bs
  <2>1. \A d \in bs : d # {} /\ d \subseteq u
    BY <2>0 DEF Node
  <2>2. b \cap u # {} /\ c \cap u # {}
    BY <2>1
  <2>3. b = u /\ c = u
    BY <2>2, BlocksPartition DEF bs
  <2> QED
    BY <2>3
<1> QED
  BY <1>4, <1>5, <1>6, <1>7

(* The children of a node are the blocks, each once.                       *)
LEMMA InOrderIsInjective ==
  ASSUME NEW u \in Node, NEW w, NEW q \in InOrder(new_blocks(u, w))
  PROVE  /\ q \in Seq(new_blocks(u, w))
         /\ Len(q) = Cardinality(new_blocks(u, w))
         /\ \A i, j \in DOMAIN q : i # j => q[i] \cap q[j] = {}
         /\ \A b \in new_blocks(u, w) : \E i \in DOMAIN q : q[i] = b
         /\ (\E b, c \in new_blocks(u, w) : b # c) => Len(q) > 1
<1> DEFINE bs == new_blocks(u, w)
<1>1. /\ q \in [1 .. Cardinality(bs) -> bs]
      /\ \A b \in bs : \E i \in DOMAIN q : q[i] = b
      /\ \A i, j \in DOMAIN q : i < j => \E s \in q[i] : \A t \in q[j] : s < t
  BY DEF InOrder
<1>2. Cardinality(bs) \in Nat
  BY BlocksFinite
<1>3. q \in Seq(bs) /\ Len(q) = Cardinality(bs) /\ DOMAIN q = 1 .. Len(q)
  BY <1>1, <1>2
<1>4. \A i \in DOMAIN q : q[i] \in bs /\ q[i] \subseteq Nat
  <2>1. \A b \in bs : b \subseteq State
    BY BlocksPartition DEF Node
  <2>2. State \subseteq Nat
    BY SizesAssumption DEF State
  <2> HIDE DEF bs
  <2> QED
    BY <1>1, <2>1, <2>2
<1> HIDE DEF bs
<1>5. \A i, j \in DOMAIN q : i < j => q[i] # q[j]
  <2> SUFFICES ASSUME NEW i \in DOMAIN q, NEW j \in DOMAIN q, i < j, q[i] = q[j]
               PROVE  FALSE
    OBVIOUS
  <2>1. PICK s \in q[i] : \A t \in q[j] : s < t
    BY <1>1
  <2>2. s \in Nat /\ s < s
    BY <1>4, <2>1
  <2> QED
    BY <2>2
<1>6. \A i, j \in DOMAIN q : i # j => q[i] # q[j]
  BY <1>2, <1>3, <1>5
<1>7. \A i, j \in DOMAIN q : i # j => q[i] \cap q[j] = {}
  BY <1>4, <1>6, BlocksPartition DEF bs
<1>8. (\E b, c \in bs : b # c) => Len(q) > 1
  BY <1>1, <1>2, <1>3
<1> QED
  BY <1>1, <1>3, <1>7, <1>8 DEF bs

-----------------------------------------------------------------------------
(* The words the loop splits with.                                         *)

(* Both stages try words of inputs, never the empty one.                   *)
LEMMA WordsTried ==
  ASSUME TypeOK, LastOutputSeparates, NEW u \in DOMAIN tree, NEW a \in Input
  PROVE  /\ <<a>> \in Word /\ <<a>> # <<>>
         /\ \A w \in StateWords(u, a) : w \in Word /\ w # <<>>
<1>1. <<a>> \in Word /\ <<a>> # <<>>
  BY DEF Word
<1>2. ASSUME NEW w \in StateWords(u, a) PROVE w \in Word /\ w # <<>>
  <2>1. PICK oboom \in Internal : w = <<a>> \o tree[oboom].separator
    BY DEF StateWords
  <2>2. tree[oboom].separator \in Word
    BY <2>1 DEF TypeOK, splitting_tree, Internal
  <2> QED
    BY <2>1, <2>2 DEF Word
<1> QED
  BY <1>1, <1>2

(* The successors of a block lie in their lowest common ancestor, but in   *)
(* no single child of it: two of them it tells apart.                      *)
LEMMA LcaSeparates ==
  ASSUME TypeOK, ChildrenPartition, LastOutputSeparates,
         NEW u \in DOMAIN tree, NEW a \in Input,
         NEW oboom \in Internal, IsLca(oboom, successor_states(u, a))
  PROVE  \E s, t \in u : out(g[s][a].to, tree[oboom].separator)
                           # out(g[t][a].to, tree[oboom].separator)
<1> DEFINE sep == tree[oboom].separator
           ch  == tree[oboom].children
           X   == successor_states(u, a)
<1>1. PICK s \in u : TRUE
  BY DEF TypeOK, Node
<1>2. /\ X \subseteq oboom
      /\ \A i \in DOMAIN ch : ~ (X \subseteq ch[i])
      /\ \A y \in oboom : \E i \in DOMAIN ch : y \in ch[i]
  <2>1. UNION {ch[i] : i \in DOMAIN ch} = oboom
    BY DEF ChildrenPartition
  <2>2. \A y \in oboom : \E i \in DOMAIN ch : y \in ch[i]
    BY <2>1
  <2> QED
    BY <2>2 DEF IsLca
<1>3. g[s][a].to \in X
  BY <1>1 DEF successor_states
<1>4. PICK i \in DOMAIN ch : g[s][a].to \in ch[i]
  BY <1>2, <1>3
<1>5. PICK y \in X : y \notin ch[i]
  BY <1>2
<1>6. PICK t \in u : y = g[t][a].to
  BY <1>5 DEF successor_states
<1>7. PICK j \in DOMAIN ch : y \in ch[j]
  BY <1>2, <1>5
<1>8. out(g[s][a].to, sep) # out(g[t][a].to, sep)
  BY <1>4, <1>5, <1>6, <1>7 DEF LastOutputSeparates
<1> QED
  BY <1>1, <1>6, <1>8

(* So the separator, after one more symbol, splits the block itself: the   *)
(* assertion new_blocks.size() > 1.                                        *)
LEMMA StateSplitSeparates ==
  ASSUME TypeOK, ChildrenPartition, LastOutputSeparates,
         NEW u \in DOMAIN tree, NEW a \in Input, NEW w \in StateWords(u, a)
  PROVE  \E b, c \in new_blocks(u, w) : b # c
<1>1. PICK oboom \in Internal :
        /\ w = <<a>> \o tree[oboom].separator
        /\ IsLca(oboom, successor_states(u, a))
  BY DEF StateWords
<1> DEFINE sep == tree[oboom].separator
<1>2. /\ u \in Node /\ u \subseteq State
      /\ sep \in Word /\ sep # <<>>
      /\ g \in Machine
  BY <1>1 DEF TypeOK, splitting_tree, Internal, Node, LastOutputSeparates
<1>3. PICK s \in u, t \in u : out(g[s][a].to, sep) # out(g[t][a].to, sep)
  BY <1>1, LcaSeparates
<1>4. out(s, w) = out(g[s][a].to, sep) /\ out(t, w) = out(g[t][a].to, sep)
  BY <1>1, <1>2, <1>3, ApplyCons DEF out
<1>5. PICK b \in new_blocks(u, w), c \in new_blocks(u, w) : s \in b /\ t \in c
  BY <1>2, <1>3, BlocksPartition
<1>6. b # c
  BY <1>2, <1>3, <1>4, <1>5, BlocksPartition
<1> QED
  BY <1>6

-----------------------------------------------------------------------------
(* The successor cache.                                                    *)

(* Filling the row of a leaf's depth leaves the entries of every split     *)
(* node alone: another node of that depth has no state in common with it.  *)
LEMMA CacheUpdate ==
  ASSUME TypeOK, TreeShape, CacheIsFilled, CacheAgrees,
         NEW boom \in Leaves, NEW w \in Word, w # <<>>,
         update_succession(boom, w)
  PROVE  /\ succession' \in Seq(Row)
         /\ tree[boom].depth + 1 <= Len(succession')
         /\ \A s \in boom : succession'[tree[boom].depth + 1][s] = to(s, w)
         /\ \A u \in Internal :
              /\ tree[u].depth + 1 <= Len(succession')
              /\ \A s \in u : succession'[tree[u].depth + 1][s]
                              = to(s, tree[u].separator)
<1> DEFINE d    == tree[boom].depth + 1
           rows == IF Len(succession) < d THEN d ELSE Len(succession)
           entry(k, s) ==
             IF k = d /\ s \in boom THEN to(s, w)
             ELSE IF k <= Len(succession) THEN succession[k][s] ELSE Undefined
<1>1. succession' = [k \in 1 .. rows |-> [s \in State |-> entry(k, s)]]
  BY DEF update_succession
<1>2. /\ boom \in DOMAIN tree /\ boom \subseteq State /\ d \in Nat /\ d >= 1
      /\ succession \in Seq(Row) /\ Len(succession) \in Nat
      /\ g \in Machine
  BY DEF TypeOK, Leaves, Node, splitting_tree, Row
<1>3. rows \in Nat /\ d <= rows /\ Len(succession) <= rows
  BY <1>2
<1>4. \A s \in State : to(s, w) \in State
  BY <1>2, ApplyType DEF to, Edge
<1>5. \A k \in 1 .. rows, s \in State : entry(k, s) \in State \cup {Undefined}
  <2> SUFFICES ASSUME NEW k \in 1 .. rows, NEW s \in State
               PROVE  entry(k, s) \in State \cup {Undefined}
    OBVIOUS
  <2>1. k <= Len(succession) => succession[k] \in Row
    BY <1>2, <1>3
  <2> QED
    BY <1>4, <2>1 DEF Row
<1>6. succession' \in Seq(Row) /\ Len(succession') = rows
  <2> HIDE DEF entry, rows
  <2>1. \A k \in 1 .. rows : [s \in State |-> entry(k, s)] \in Row
    BY <1>5 DEF Row
  <2> QED
    BY <1>1, <1>3, <2>1
<1>7. \A k \in 1 .. rows, s \in State : succession'[k][s] = entry(k, s)
  BY <1>1
<1>8. \A s \in boom : succession'[d][s] = to(s, w)
  BY <1>2, <1>3, <1>7
<1>9. ASSUME NEW u \in Internal
      PROVE  /\ tree[u].depth + 1 <= Len(succession')
             /\ \A s \in u : succession'[tree[u].depth + 1][s]
                             = to(s, tree[u].separator)
  <2>1. /\ u \in DOMAIN tree /\ u \notin Leaves /\ u \subseteq State
        /\ tree[u].depth \in Nat
    BY DEF Internal, TypeOK, Node, splitting_tree
  <2>2. tree[u].depth + 1 <= Len(succession)
    BY DEF CacheIsFilled
  <2>3. ASSUME NEW s \in u PROVE ~ (tree[u].depth + 1 = d /\ s \in boom)
    <3> SUFFICES ASSUME tree[u].depth + 1 = d, s \in boom PROVE FALSE
      OBVIOUS
    <3>1. tree[boom].depth \in Nat
      BY <1>2 DEF TypeOK, splitting_tree
    <3>2. u = boom
      BY <1>2, <2>1, <3>1 DEF TreeShape
    <3> QED
      BY <2>1, <3>2
  <2>4. ASSUME NEW s \in u
        PROVE  succession'[tree[u].depth + 1][s] = to(s, tree[u].separator)
    <3>1. succession'[tree[u].depth + 1][s] = succession[tree[u].depth + 1][s]
      BY <1>3, <1>7, <2>1, <2>2, <2>3
    <3> QED
      BY <3>1 DEF CacheAgrees
  <2> QED
    BY <1>3, <1>6, <2>1, <2>2, <2>4
<1> QED
  BY <1>3, <1>6, <1>8, <1>9

(* So does a visit that splits nothing, whatever it tried.                 *)
LEMMA FruitlessKeepsCache ==
  ASSUME TypeOK, TreeShape, LastOutputSeparates, CacheIsFilled, CacheAgrees,
         NEW boom \in Leaves, LeaveTrace(boom),
         g' = g, opt' = opt, tree' = tree
  PROVE  /\ succession' \in Seq(Row)
         /\ CacheIsFilled'
         /\ CacheAgrees'
<1>1. CASE \E w \in Word : w # <<>> /\ update_succession(boom, w)
  <2>1. PICK w \in Word : w # <<>> /\ update_succession(boom, w)
    BY <1>1
  <2>2. /\ succession' \in Seq(Row)
        /\ \A u \in Internal :
              /\ tree[u].depth + 1 <= Len(succession')
              /\ \A s \in u : succession'[tree[u].depth + 1][s]
                              = to(s, tree[u].separator)
    BY <2>1, CacheUpdate
  <2> QED
    BY <2>2 DEF CacheIsFilled, CacheAgrees, Internal, Leaves, to
<1>2. CASE UNCHANGED succession
  BY <1>2 DEF CacheIsFilled, CacheAgrees, Internal, Leaves, to, TypeOK, Row
<1>3. boom \in DOMAIN tree
  BY DEF Leaves
<1>4. ASSUME ~ UNCHANGED succession
      PROVE  \E w \in Word : w # <<>> /\ update_succession(boom, w)
  <2>1. \/ \E a \in Input : \E w \in StateWords(boom, a) :
             update_succession(boom, w)
        \/ \E a \in Input : update_succession(boom, <<a>>)
    BY <1>4 DEF LeaveTrace, LastTried
  <2> QED
    BY <1>3, <2>1, WordsTried
<1> QED
  BY <1>1, <1>2, <1>4

-----------------------------------------------------------------------------
(* A split preserves the invariant.                                        *)

(* What add_push_new_block does to the tree: the blocks are new nodes, and *)
(* boom gets them as children.                                             *)
LEMMA SplitTree ==
  ASSUME TypeOK, TreeShape, NEW boom \in Leaves, NEW w \in Word,
         \E b, c \in new_blocks(boom, w) : b # c,
         Split(boom, w)
  PROVE  /\ g' = g /\ opt' = opt /\ g \in Machine
         /\ boom \in Node /\ boom \in DOMAIN tree
         /\ DOMAIN tree' = DOMAIN tree \cup new_blocks(boom, w)
         /\ \A b \in new_blocks(boom, w) :
              b \notin DOMAIN tree /\ tree'[b] = Leaf(tree[boom].depth + 1)
         /\ tree'[boom].separator = w
         /\ tree'[boom].depth = tree[boom].depth
         /\ tree'[boom].children \in InOrder(new_blocks(boom, w))
         /\ work' = Tail(work) \o tree'[boom].children
         /\ tree'[boom] \in [children : Seq(new_blocks(boom, w)),
                             separator : Word, depth : Nat]
         /\ \A u \in DOMAIN tree \ {boom} : tree'[u] = tree[u]
         /\ Leaves' = (Leaves \ {boom}) \cup new_blocks(boom, w)
         /\ Internal' = Internal \cup {boom}
<1> DEFINE bs == new_blocks(boom, w)
<1>1. PICK ch \in InOrder(bs) :
        /\ tree' = [u \in DOMAIN tree \cup bs |->
              IF u = boom
                THEN [tree[boom] EXCEPT !.children = ch, !.separator = w]
              ELSE IF u \in DOMAIN tree THEN tree[u]
              ELSE Leaf(tree[boom].depth + 1)]
        /\ work' = Tail(work) \o ch
  BY DEF Split
<1>2. /\ g' = g /\ opt' = opt /\ g \in Machine
      /\ boom \in DOMAIN tree /\ boom \in Node /\ tree[boom] \in splitting_tree
  BY DEF Split, TypeOK, Leaves
<1>3. \A b \in bs : b \subseteq boom /\ b # boom
  BY <1>2, BlocksPartition, BlocksFinite
<1>4. \A b \in bs : b \notin DOMAIN tree
  BY <1>3 DEF TreeShape
<1>5. ch \in Seq(bs) /\ Len(ch) > 1
  BY <1>2, InOrderIsInjective
<1> HIDE DEF bs
<1>6. DOMAIN tree' = DOMAIN tree \cup bs
  BY <1>1
<1>7. tree'[boom] = [tree[boom] EXCEPT !.children = ch, !.separator = w]
  BY <1>1, <1>2
<1>8. /\ tree'[boom].children = ch /\ tree'[boom].separator = w
      /\ tree'[boom].depth = tree[boom].depth
      /\ tree'[boom] \in [children : Seq(bs), separator : Word, depth : Nat]
  BY <1>2, <1>5, <1>7 DEF splitting_tree
<1>9. \A u \in DOMAIN tree \ {boom} : tree'[u] = tree[u]
  BY <1>1
<1>10. \A b \in bs : tree'[b] = Leaf(tree[boom].depth + 1)
  BY <1>1, <1>2, <1>3, <1>4
<1>11. ch # <<>>
  BY <1>5
<1>12. \A b \in bs : tree'[b].children = <<>>
  BY <1>10 DEF Leaf
<1>13. Leaves' = (Leaves \ {boom}) \cup bs
  BY <1>3, <1>4, <1>6, <1>8, <1>9, <1>11, <1>12 DEF Leaves
<1>14. Internal' = Internal \cup {boom}
  <2>1. boom \notin bs
    BY <1>3
  <2> QED
    BY <1>2, <1>4, <1>6, <1>13, <2>1 DEF Internal, Leaves
<1> QED
  BY <1>1, <1>2, <1>4, <1>6, <1>8, <1>9, <1>10, <1>13, <1>14 DEF bs

(* Only the split node and the new leaves are looked at again.             *)
LEMMA SplitPreserves ==
  ASSUME IInv, NEW boom \in Leaves, NEW w \in Word, w # <<>>,
         Pop(boom), \E b, c \in new_blocks(boom, w) : b # c,
         Split(boom, w)
  PROVE  IInv'
<1> DEFINE bs == new_blocks(boom, w)
           ch == tree'[boom].children
           d  == tree[boom].depth
<1>1. /\ g' = g /\ opt' = opt /\ g \in Machine
      /\ boom \in Node /\ boom \in DOMAIN tree
      /\ DOMAIN tree' = DOMAIN tree \cup bs
      /\ \A b \in bs : b \notin DOMAIN tree /\ tree'[b] = Leaf(d + 1)
      /\ tree'[boom].separator = w
      /\ tree'[boom].depth = d
      /\ ch \in InOrder(bs)
      /\ work' = Tail(work) \o ch
      /\ tree'[boom] \in [children : Seq(bs), separator : Word, depth : Nat]
      /\ \A u \in DOMAIN tree \ {boom} : tree'[u] = tree[u]
      /\ Leaves' = (Leaves \ {boom}) \cup bs
      /\ Internal' = Internal \cup {boom}
  BY SplitTree DEF IInv
<1>2. /\ ch \in Seq(bs) /\ Len(ch) > 1
      /\ \A i, j \in DOMAIN ch : i # j => ch[i] \cap ch[j] = {}
      /\ \A b \in bs : \E i \in DOMAIN ch : ch[i] = b
  BY <1>1, InOrderIsInjective
<1>3. /\ \A b \in bs : b \in Node /\ b \subseteq boom /\ b # boom /\ b # {}
      /\ \A b, c \in bs : b \cap c # {} => b = c
  <2>1. /\ \A b \in bs : b \in Node /\ b \subseteq boom
        /\ \A b, c \in bs : b \cap c # {} => b = c
    BY <1>1, BlocksPartition
  <2>2. boom \notin bs
    BY <1>1, BlocksFinite
  <2> HIDE DEF bs
  <2> QED
    BY <2>1, <2>2 DEF Node
<1>4. UNION bs = boom
  BY <1>1, BlocksPartition
<1>5. \A b, c \in bs : \A s \in b, t \in c : b = c <=> out(s, w) = out(t, w)
  BY <1>1, BlocksPartition
<1>6. /\ succession' \in Seq(Row)
      /\ d + 1 <= Len(succession')
      /\ \A s \in boom : succession'[d + 1][s] = to(s, w)
      /\ \A u \in Internal :
           /\ tree[u].depth + 1 <= Len(succession')
           /\ \A s \in u : succession'[tree[u].depth + 1][s]
                           = to(s, tree[u].separator)
  BY CacheUpdate DEF Split, IInv
<1>7. /\ pc = "loop" /\ pc' = pc /\ work # <<>> /\ boom = Head(work)
      /\ days_without_progress' = 0 /\ split_in_current_order' = TRUE
      /\ UNCHANGED <<is_complete, current_order>>
  BY DEF Split, Pop
<1>8. Internal \subseteq DOMAIN tree \ {boom} /\ Leaves \subseteq DOMAIN tree
  BY DEF Internal, Leaves
<1> HIDE DEF bs, ch, d
<1>9. \A u \in Internal : tree'[u] = tree[u]
  BY <1>1, <1>8
<1>10. \A s, v : out(s, v)' = out(s, v) /\ to(s, v)' = to(s, v)
  BY <1>1 DEF out, to
<1>11. /\ work \in Seq(DOMAIN tree) /\ d \in Nat
       /\ Tail(work) \in Seq(DOMAIN tree) /\ Len(Tail(work)) = Len(work) - 1
       /\ \A i \in 1 .. Len(work) - 1 : Tail(work)[i] = work[i + 1]
       /\ Len(ch) \in Nat /\ Len(work) \in Nat \ {0}
  <2>1. work \in Seq(DOMAIN tree) /\ tree[boom] \in splitting_tree
    BY <1>1 DEF IInv, TypeOK
  <2> QED
    BY <1>2, <1>7, <2>1 DEF splitting_tree, d
<1>12. TypeOK'
  <2>1. DOMAIN tree' \subseteq Node
    BY <1>1, <1>3 DEF IInv, TypeOK
  <2>2. \A u \in DOMAIN tree' : tree'[u] \in splitting_tree
    <3>1. tree'[boom] \in splitting_tree
      <4>1. Seq(bs) \subseteq Seq(Node)
        BY <1>3
      <4> QED
        BY <1>1, <4>1 DEF splitting_tree
    <3>2. \A b \in bs : tree'[b] \in splitting_tree
      <4>1. Leaf(d + 1) \in splitting_tree
        BY <1>11 DEF Leaf, splitting_tree, Word
      <4> QED
        BY <1>1, <4>1
    <3>3. \A u \in DOMAIN tree \ {boom} : tree'[u] \in splitting_tree
      BY <1>1 DEF IInv, TypeOK
    <3> QED
      BY <1>1, <3>1, <3>2, <3>3
  <2>3. work' \in Seq(DOMAIN tree')
    BY <1>1, <1>2, <1>11
  <2> QED
    BY <1>1, <1>6, <1>7, <2>1, <2>2, <2>3 DEF IInv, TypeOK, Row
<1>13. TreeShape'
  <2>1. ASSUME NEW u \in DOMAIN tree', NEW v \in DOMAIN tree', u \cap v # {}
        PROVE  \/ u = v
               \/ u \subseteq v /\ tree'[u].depth > tree'[v].depth
               \/ v \subseteq u /\ tree'[v].depth > tree'[u].depth
    <3>1. \A x \in DOMAIN tree : tree'[x].depth = tree[x].depth
      BY <1>1 DEF d
    <3>2. \A b \in bs : tree'[b].depth = d + 1
      BY <1>1 DEF Leaf
    <3>3. ASSUME NEW b \in bs, NEW x \in DOMAIN tree, b \cap x # {}
          PROVE  b \subseteq x /\ d + 1 > tree[x].depth
      <4>1. boom \cap x # {}
        BY <1>3, <3>3
      <4>2. x \subseteq boom => x = boom
        BY DEF IInv, TreeShape
      <4>3. boom \subseteq x /\ (x = boom \/ d > tree[x].depth)
        BY <1>1, <4>1, <4>2 DEF IInv, TreeShape, d
      <4>4. tree[x].depth \in Nat
        BY DEF IInv, TypeOK, splitting_tree
      <4> QED
        BY <1>3, <1>11, <4>3, <4>4 DEF d
    <3>4. CASE u \in DOMAIN tree /\ v \in DOMAIN tree
      BY <2>1, <3>1, <3>4 DEF IInv, TreeShape
    <3>5. CASE u \in bs /\ v \in bs
      BY <1>3, <2>1, <3>5
    <3>6. CASE u \in bs /\ v \in DOMAIN tree
      BY <2>1, <3>1, <3>2, <3>3, <3>6
    <3>7. CASE u \in DOMAIN tree /\ v \in bs
      BY <2>1, <3>1, <3>2, <3>3, <3>7
    <3> QED
      BY <1>1, <3>4, <3>5, <3>6, <3>7
  <2>2. ASSUME NEW u \in Leaves', NEW v \in DOMAIN tree', v \subseteq u
        PROVE  v = u
    <3>1. v # {}
      BY <1>12 DEF TypeOK, Node
    <3>2. CASE u \in bs /\ v \in bs
      BY <1>3, <2>2, <3>1, <3>2
    <3>3. CASE u \in bs /\ v \in DOMAIN tree
      <4>1. v \subseteq boom
        BY <1>3, <2>2, <3>3
      <4>2. v = boom
        BY <3>3, <4>1 DEF IInv, TreeShape
      <4> QED
        BY <1>3, <2>2, <3>3, <4>2
    <3>4. CASE u \in Leaves \ {boom} /\ v \in DOMAIN tree
      BY <2>2, <3>4 DEF IInv, TreeShape
    <3>5. CASE u \in Leaves \ {boom} /\ v \in bs
      <4>1. u \cap boom # {}
        BY <1>3, <2>2, <3>1, <3>5
      <4>2. u \subseteq boom \/ boom \subseteq u
        BY <1>1, <1>8, <3>5, <4>1 DEF IInv, TreeShape
      <4>3. u = boom
        BY <1>1, <1>8, <3>5, <4>2 DEF IInv, TreeShape
      <4> QED
        BY <3>5, <4>3
    <3> QED
      BY <1>1, <3>2, <3>3, <3>4, <3>5
  <2> QED
    BY <2>1, <2>2 DEF TreeShape
<1>14. ChildrenPartition'
  <2>1. ASSUME NEW u \in Internal
        PROVE  /\ Len(tree'[u].children) > 1
               /\ UNION {tree'[u].children[i] : i \in DOMAIN tree'[u].children} = u
               /\ \A i, j \in DOMAIN tree'[u].children : i # j =>
                    tree'[u].children[i] \cap tree'[u].children[j] = {}
               /\ \A i \in DOMAIN tree'[u].children :
                    /\ tree'[u].children[i] \in DOMAIN tree'
                    /\ tree'[tree'[u].children[i]].depth = tree'[u].depth + 1
    <3>1. \A x \in DOMAIN tree : tree'[x].depth = tree[x].depth
      BY <1>1 DEF d
    <3>2. tree'[u] = tree[u]
      BY <1>9
    <3> QED
      BY <1>1, <3>1, <3>2 DEF IInv, ChildrenPartition
  <2>2. UNION {ch[i] : i \in DOMAIN ch} = boom
    <3>1. \A i \in DOMAIN ch : ch[i] \in bs
      BY <1>2
    <3>2. {ch[i] : i \in DOMAIN ch} = bs
      BY <1>2, <3>1
    <3> QED
      BY <1>4, <3>2
  <2>3. \A i \in DOMAIN ch : /\ ch[i] \in DOMAIN tree'
                            /\ tree'[ch[i]].depth = tree'[boom].depth + 1
    BY <1>1, <1>2 DEF Leaf
  <2> QED
    BY <1>1, <1>2, <2>1, <2>2, <2>3 DEF ChildrenPartition, ch
<1>15. LastOutputSeparates'
  <2>1. ASSUME NEW i \in DOMAIN ch, NEW j \in DOMAIN ch,
               NEW s \in ch[i], NEW t \in ch[j]
        PROVE  i = j <=> out(s, w) = out(t, w)
    <3>1. ch[i] \in bs /\ ch[j] \in bs
      BY <1>2
    <3>2. i = j <=> ch[i] = ch[j]
      BY <1>2, <1>3, <3>1
    <3> QED
      BY <1>5, <3>1, <3>2
  <2>2. \A u \in Internal :
          /\ tree'[u].separator # <<>>
          /\ \A i, j \in DOMAIN tree'[u].children :
               \A s \in tree'[u].children[i], t \in tree'[u].children[j] :
                 i = j <=> out(s, tree'[u].separator) = out(t, tree'[u].separator)
    BY <1>9 DEF IInv, LastOutputSeparates
  <2> QED
    BY <1>1, <1>10, <2>1, <2>2 DEF LastOutputSeparates, ch
<1>16. CacheIsFilled' /\ CacheAgrees'
  BY <1>1, <1>6, <1>9, <1>10 DEF CacheIsFilled, CacheAgrees
<1>17. QueueHoldsLeaves'
  <2> DEFINE n == Len(work) - 1
  <2>1. /\ \A i \in DOMAIN work : work[i] \in Leaves
        /\ \A i, j \in DOMAIN work : work[i] = work[j] => i = j
        /\ \A u \in Leaves :
             Cardinality(u) # 1 => \E i \in DOMAIN work : work[i] = u
    BY <1>7 DEF IInv, QueueHoldsLeaves
  <2>2. /\ n \in Nat /\ DOMAIN work = 1 .. n + 1 /\ work[1] = boom
        /\ DOMAIN work' = 1 .. n + Len(ch) /\ DOMAIN ch = 1 .. Len(ch)
        /\ \A i \in 1 .. n : work'[i] = work[i + 1]
        /\ \A i \in n + 1 .. n + Len(ch) : work'[i] = ch[i - n]
    BY <1>1, <1>2, <1>7, <1>11
  <2> HIDE DEF n
  <2>3. ASSUME NEW i \in 1 .. n PROVE work'[i] \in Leaves \ {boom}
    <3>1. i + 1 \in DOMAIN work /\ 1 \in DOMAIN work /\ i + 1 # 1
      BY <2>2
    <3>2. work[i + 1] # work[1]
      BY <2>1, <3>1
    <3>3. work[i + 1] \in Leaves
      BY <2>1, <3>1
    <3>4. work'[i] = work[i + 1] /\ work[1] = boom
      BY <2>2
    <3> QED
      BY <3>2, <3>3, <3>4
  <2>4. \A i \in n + 1 .. n + Len(ch) : i - n \in DOMAIN ch /\ work'[i] \in bs
    BY <1>2, <1>11, <2>2
  <2>5. \A i \in DOMAIN work' : i \in 1 .. n \/ i \in n + 1 .. n + Len(ch)
    BY <1>11, <2>2
  <2>6. \A i \in DOMAIN work' : work'[i] \in Leaves'
    BY <1>1, <2>3, <2>4, <2>5
  <2>7. ASSUME NEW i \in DOMAIN work', NEW j \in DOMAIN work', work'[i] = work'[j]
        PROVE  i = j
    <3>1. CASE i \in 1 .. n /\ j \in 1 .. n
      <4>1. i + 1 \in DOMAIN work /\ j + 1 \in DOMAIN work
        BY <2>2, <3>1
      <4>2. work[i + 1] = work[j + 1]
        BY <2>2, <2>7, <3>1
      <4>3. i + 1 = j + 1
        BY <2>1, <4>1, <4>2
      <4> QED
        BY <2>2, <3>1, <4>3
    <3>2. CASE i \in n + 1 .. n + Len(ch) /\ j \in n + 1 .. n + Len(ch)
      <4>1. ch[i - n] = ch[j - n] /\ ch[i - n] # {}
        BY <1>3, <2>2, <2>4, <2>7, <3>2
      <4>2. i - n = j - n
        BY <1>2, <2>4, <3>2, <4>1
      <4> QED
        BY <1>11, <2>2, <3>2, <4>2
    <3>3. CASE i \in 1 .. n /\ j \in n + 1 .. n + Len(ch)
      BY <1>1, <1>8, <2>3, <2>4, <2>7, <3>3
    <3>4. CASE i \in n + 1 .. n + Len(ch) /\ j \in 1 .. n
      BY <1>1, <1>8, <2>3, <2>4, <2>7, <3>4
    <3> QED
      BY <2>5, <3>1, <3>2, <3>3, <3>4
  <2>8. ASSUME NEW u \in Leaves', Cardinality(u) # 1
        PROVE  \E i \in DOMAIN work' : work'[i] = u
    <3>1. CASE u \in bs
      <4>1. PICK i \in 1 .. Len(ch) : ch[i] = u
        BY <1>2, <2>2, <3>1
      <4>2. i + n \in n + 1 .. n + Len(ch) /\ (i + n) - n = i
        BY <1>11, <2>2
      <4>3. work'[i + n] = u /\ i + n \in DOMAIN work'
        BY <1>11, <2>2, <4>1, <4>2
      <4> QED
        BY <4>3
    <3>2. CASE u \in Leaves \ {boom}
      <4>1. PICK i \in DOMAIN work : work[i] = u
        BY <2>1, <2>8, <3>2
      <4>2. i - 1 \in 1 .. n
        BY <2>2, <3>2, <4>1
      <4>3. work'[i - 1] = u /\ i - 1 \in DOMAIN work'
        BY <1>11, <2>2, <4>1, <4>2
      <4> QED
        BY <4>3
    <3> QED
      BY <1>1, <3>1, <3>2
  <2> QED
    BY <2>6, <2>7, <2>8 DEF QueueHoldsLeaves
<1>18. VisitedAreStuck' /\ NothingLeftToSplit'
  <2>1. work' \in Seq(DOMAIN tree')
    BY <1>12 DEF TypeOK
  <2>2. \A i \in DOMAIN work' : ~ (i + 0 > Len(work'))
    BY <2>1
  <2> QED
    BY <1>7, <2>2 DEF VisitedAreStuck, NothingLeftToSplit
<1> QED
  BY <1>12, <1>13, <1>14, <1>15, <1>16, <1>17, <1>18 DEF IInv

-----------------------------------------------------------------------------
(* A visit that splits nothing.                                            *)

(* The tree decides whether a block is stuck.                              *)
LEMMA StuckDependsOnTree ==
  ASSUME g' = g, opt' = opt, tree' = tree,
         current_order' = current_order, NEW u
  PROVE  Stuck(u)' <=> Stuck(u)
<1>1. \A w : new_blocks(u, w)' = new_blocks(u, w)
  BY DEF new_blocks, out
<1>2. \A bs, a : is_valid(bs, a)' <=> is_valid(bs, a)
  BY DEF is_valid
<1>3. \A a : OutputSplits(u, a)' <=> OutputSplits(u, a)
  BY <1>1, <1>2 DEF OutputSplits, OutputStage
<1>4. \A a : StateWords(u, a)' = StateWords(u, a)
  BY DEF StateWords, StateStage, Internal, Leaves, IsLca, successor_states
<1>5. \A a : ValidStateWords(u, a)' = ValidStateWords(u, a)
  BY <1>1, <1>2, <1>4 DEF ValidStateWords
<1> QED
  BY <1>3, <1>5 DEF Stuck, OutputSymbols, StateSymbols

(* The parts of the invariant that only the tree and the cache are in.     *)
LEMMA FruitlessKeepsTree ==
  ASSUME IInv, NEW boom \in Leaves, Fruitless(boom)
  PROVE  /\ TreeShape' /\ ChildrenPartition' /\ LastOutputSeparates'
         /\ CacheIsFilled' /\ CacheAgrees'
         /\ succession' \in Seq(Row)
         /\ Leaves' = Leaves
<1>1. g' = g /\ opt' = opt /\ tree' = tree /\ LeaveTrace(boom)
  BY DEF Fruitless
<1>2. Leaves' = Leaves /\ Internal' = Internal
  BY <1>1 DEF Leaves, Internal
<1>3. TreeShape' /\ ChildrenPartition'
  BY <1>1, <1>2 DEF IInv, TreeShape, ChildrenPartition
<1>4. LastOutputSeparates'
  BY <1>1, <1>2 DEF IInv, LastOutputSeparates, out
<1> QED
  BY <1>1, <1>2, <1>3, <1>4, FruitlessKeepsCache DEF IInv

(* boom goes from the front of the queue to its end.                       *)
LEMMA Rotation ==
  ASSUME IInv, NEW boom \in Leaves, Pop(boom)
  PROVE  LET q == Append(Tail(work), boom)
         IN  /\ q \in Seq(DOMAIN tree) /\ Len(q) = Len(work)
             /\ Len(work) \in Nat \ {0}
             /\ q[Len(q)] = work[1] /\ work[1] = boom
             /\ \A i \in 1 .. Len(work) - 1 : q[i] = work[i + 1]
<1>1. work \in Seq(DOMAIN tree) /\ work # <<>> /\ boom = Head(work)
      /\ boom \in DOMAIN tree
  BY DEF IInv, TypeOK, Pop, Leaves
<1>2. /\ Tail(work) \in Seq(DOMAIN tree)
      /\ Len(Tail(work)) = Len(work) - 1 /\ Len(work) \in Nat \ {0}
      /\ \A i \in 1 .. Len(work) - 1 : Tail(work)[i] = work[i + 1]
      /\ work[1] = boom
  BY <1>1
<1> QED
  BY <1>1, <1>2

(* Then the queue holds what it held.                                      *)
LEMMA RotationKeepsQueue ==
  ASSUME IInv, NEW boom \in Leaves, Pop(boom),
         work' = Append(Tail(work), boom), Leaves' = Leaves
  PROVE  QueueHoldsLeaves'
<1> DEFINE n == Len(work)
           at(i) == IF i = n THEN 1 ELSE i + 1
<1>1. /\ Len(work') = n /\ DOMAIN work' = 1 .. n /\ DOMAIN work = 1 .. n
      /\ n \in Nat \ {0}
      /\ work'[n] = work[1]
      /\ \A i \in 1 .. n - 1 : work'[i] = work[i + 1]
  BY Rotation DEF IInv, TypeOK
<1>2. /\ \A i \in DOMAIN work : work[i] \in Leaves
      /\ \A i, j \in DOMAIN work : work[i] = work[j] => i = j
      /\ \A u \in Leaves :
           Cardinality(u) # 1 => \E i \in DOMAIN work : work[i] = u
  BY DEF IInv, QueueHoldsLeaves, Pop
<1> HIDE DEF n
<1>3. \A i \in 1 .. n : at(i) \in 1 .. n /\ work'[i] = work[at(i)]
  BY <1>1
<1>4. \A i, j \in 1 .. n : at(i) = at(j) => i = j
  BY <1>1
<1>5. \A k \in 1 .. n : \E i \in 1 .. n : at(i) = k
  <2> SUFFICES ASSUME NEW k \in 1 .. n PROVE \E i \in 1 .. n : at(i) = k
    OBVIOUS
  <2>1. CASE k = 1
    <3>1. n \in 1 .. n /\ at(n) = k
      BY <1>1, <2>1
    <3> QED
      BY <3>1
  <2>2. CASE k # 1
    <3>1. k - 1 \in 1 .. n /\ at(k - 1) = k
      BY <1>1, <2>2
    <3> QED
      BY <3>1
  <2> QED
    BY <2>1, <2>2
<1> HIDE DEF at
<1>6. \A i \in DOMAIN work' : work'[i] \in Leaves'
  <2> SUFFICES ASSUME NEW i \in 1 .. n PROVE work'[i] \in Leaves
    BY <1>1
  <2>1. at(i) \in DOMAIN work /\ work'[i] = work[at(i)]
    BY <1>1, <1>3
  <2> QED
    BY <1>2, <2>1
<1>7. \A i, j \in DOMAIN work' : work'[i] = work'[j] => i = j
  <2> SUFFICES ASSUME NEW i \in 1 .. n, NEW j \in 1 .. n, work'[i] = work'[j]
               PROVE  i = j
    BY <1>1
  <2>1. /\ at(i) \in DOMAIN work /\ work'[i] = work[at(i)]
        /\ at(j) \in DOMAIN work /\ work'[j] = work[at(j)]
    BY <1>1, <1>3
  <2>2. at(i) = at(j)
    BY <1>2, <2>1
  <2> QED
    BY <1>4, <2>2
<1>8. ASSUME NEW u \in Leaves', Cardinality(u) # 1
      PROVE  \E i \in DOMAIN work' : work'[i] = u
  <2>1. PICK k \in 1 .. n : work[k] = u
    BY <1>1, <1>2, <1>8
  <2>2. PICK i \in 1 .. n : at(i) = k
    BY <1>5
  <2> QED
    BY <1>1, <1>3, <2>1, <2>2
<1> QED
  BY <1>6, <1>7, <1>8 DEF QueueHoldsLeaves

-----------------------------------------------------------------------------
(* One lemma per action.                                                   *)

(* The invariant holds of the tree that is only a root.                    *)
LEMMA InitIInv == Init => IInv
<1> SUFFICES ASSUME Init PROVE IInv
  OBVIOUS
<1>1. /\ g \in Machine /\ opt \in options
      /\ State \in Node
      /\ DOMAIN tree = {State} /\ tree[State] = Leaf(0)
      /\ work = <<State>> /\ succession = <<>>
      /\ days_without_progress = 0 /\ current_order = 0
      /\ split_in_current_order = FALSE /\ pc = "loop"
      /\ is_complete \in BOOLEAN
  <2>1. State \in Node
    <3>1. 0 \in State
      BY SizesAssumption DEF State
    <3> QED
      BY <3>1 DEF Node
  <2> QED
    BY <2>1, MachinesAssumption, OptionsAssumption DEF Init
<1>2. Leaves = {State} /\ Internal = {}
  BY <1>1 DEF Leaves, Internal, Leaf
<1>3. Leaf(0) \in splitting_tree
  BY DEF Leaf, splitting_tree, Word
<1>4. TypeOK
  <2>1. work \in Seq(DOMAIN tree) /\ succession \in Seq(Row)
    BY <1>1
  <2>2. DOMAIN tree \subseteq Node /\ \A u \in DOMAIN tree : tree[u] \in splitting_tree
    BY <1>1, <1>3
  <2> QED
    BY <1>1, <2>1, <2>2 DEF TypeOK, Row
<1>5. TreeShape
  BY <1>1, <1>2 DEF TreeShape
<1>6. /\ ChildrenPartition /\ LastOutputSeparates
      /\ CacheIsFilled /\ CacheAgrees
  BY <1>2 DEF ChildrenPartition, LastOutputSeparates, CacheIsFilled, CacheAgrees
<1>7. /\ DOMAIN work = {1} /\ Len(work) = 1 /\ work[1] = State
  BY <1>1
<1>8. QueueHoldsLeaves
  BY <1>2, <1>7 DEF QueueHoldsLeaves
<1>9. VisitedAreStuck /\ NothingLeftToSplit
  BY <1>1, <1>7 DEF VisitedAreStuck, NothingLeftToSplit
<1> QED
  BY <1>4, <1>5, <1>6, <1>8, <1>9 DEF IInv

(* A leaf of one state is dropped from the queue: nothing is asked of it.  *)
LEMMA SkipSingletonIInv == IInv /\ SkipSingleton => IInv'
<1> SUFFICES ASSUME IInv, SkipSingleton PROVE IInv'
  OBVIOUS
<1>1. PICK boom \in Leaves :
        /\ Pop(boom) /\ Cardinality(boom) = 1 /\ work' = Tail(work)
        /\ UNCHANGED <<g, opt, result, days_without_progress, current_order,
                       split_in_current_order, pc>>
  BY DEF SkipSingleton
<1>2. /\ g' = g /\ opt' = opt /\ tree' = tree /\ succession' = succession
      /\ is_complete' = is_complete
      /\ days_without_progress' = days_without_progress
      /\ current_order' = current_order
      /\ split_in_current_order' = split_in_current_order
      /\ pc' = pc /\ pc = "loop" /\ boom = Head(work) /\ work # <<>>
  BY <1>1 DEF result, Pop
<1>3. Leaves' = Leaves /\ Internal' = Internal
  BY <1>2 DEF Leaves, Internal
<1> DEFINE n == Len(work) - 1
<1>4. /\ work \in Seq(DOMAIN tree) /\ work' \in Seq(DOMAIN tree)
      /\ n \in Nat /\ DOMAIN work = 1 .. n + 1
      /\ Len(work') = n /\ DOMAIN work' = 1 .. n /\ work[1] = boom
      /\ \A i \in 1 .. n : work'[i] = work[i + 1]
      /\ days_without_progress \in Nat
  BY <1>1, <1>2 DEF IInv, TypeOK
<1>4a. Len(work) = n + 1
  BY <1>4
<1> HIDE DEF n
<1>5. TypeOK'
  BY <1>2, <1>4 DEF IInv, TypeOK
<1>6. TreeShape' /\ ChildrenPartition' /\ CacheIsFilled'
  BY <1>2, <1>3 DEF IInv, TreeShape, ChildrenPartition, CacheIsFilled
<1>7. LastOutputSeparates' /\ CacheAgrees'
  BY <1>2, <1>3 DEF IInv, LastOutputSeparates, CacheAgrees, out, to
<1>8. QueueHoldsLeaves'
  <2>1. /\ \A i \in DOMAIN work : work[i] \in Leaves
        /\ \A i, j \in DOMAIN work : work[i] = work[j] => i = j
        /\ \A u \in Leaves :
             Cardinality(u) # 1 => \E i \in DOMAIN work : work[i] = u
    BY <1>2 DEF IInv, QueueHoldsLeaves
  <2>2. \A i \in 1 .. n : i + 1 \in DOMAIN work
    BY <1>4
  <2>3. \A i, j \in DOMAIN work' : work'[i] = work'[j] => i = j
    <3> SUFFICES ASSUME NEW i \in 1 .. n, NEW j \in 1 .. n,
                        work'[i] = work'[j]
                 PROVE  i = j
      BY <1>4
    <3>1. work[i + 1] = work[j + 1]
      BY <1>4
    <3>2. i + 1 = j + 1
      BY <2>1, <2>2, <3>1
    <3> QED
      BY <1>4, <3>2
  <2>4. ASSUME NEW u \in Leaves, Cardinality(u) # 1
        PROVE  \E i \in DOMAIN work' : work'[i] = u
    <3>1. PICK k \in DOMAIN work : work[k] = u
      BY <2>1, <2>4
    <3>2. k - 1 \in 1 .. n /\ (k - 1) + 1 = k
      BY <1>1, <1>4, <2>4, <3>1
    <3>3. work'[k - 1] = u
      BY <1>4, <3>1, <3>2
    <3> QED
      BY <1>4, <3>2, <3>3
  <2> QED
    BY <1>3, <1>4, <2>1, <2>2, <2>3, <2>4 DEF QueueHoldsLeaves
<1>9. VisitedAreStuck'
  <2> SUFFICES ASSUME opt.assert_minimal_order =>
                        split_in_current_order \/ current_order = 0,
                      NEW u \in Leaves, NEW i \in 1 .. n, work'[i] = u,
                      i + days_without_progress > n
               PROVE  Stuck(u)'
    BY <1>2, <1>3, <1>4 DEF VisitedAreStuck
  <2>1. /\ i + 1 \in DOMAIN work /\ (i + 1) + days_without_progress > Len(work)
        /\ work[i + 1] = u
    BY <1>4, <1>4a
  <2>2. Stuck(u)
    BY <1>2, <2>1 DEF IInv, VisitedAreStuck
  <2> QED
    BY <1>2, <2>2, StuckDependsOnTree
<1>10. NothingLeftToSplit'
  BY <1>2 DEF NothingLeftToSplit
<1> QED
  BY <1>5, <1>6, <1>7, <1>8, <1>9, <1>10 DEF IInv

(* A split by output keeps the tree a tree and its separators separating.  *)
LEMMA SplitOnOutputIInv == IInv /\ SplitOnOutput => IInv'
<1> SUFFICES ASSUME IInv, SplitOnOutput PROVE IInv'
  OBVIOUS
<1>1. PICK boom \in Leaves, a \in Input :
        Pop(boom) /\ OutputSplits(boom, a) /\ Split(boom, <<a>>)
  BY DEF SplitOnOutput, FirstTried, OutputSymbols
<1>2. boom \in Node
  BY DEF IInv, TypeOK, Leaves
<1>3. \E b, c \in new_blocks(boom, <<a>>) : b # c
  BY <1>1, <1>2, BlocksFinite DEF OutputSplits
<1>4. <<a>> \in Word /\ <<a>> # <<>>
  BY DEF Word
<1> QED
  BY <1>1, <1>3, <1>4, SplitPreserves

(* A split by the states reached does the same, with the longer word.      *)
LEMMA SplitOnStateIInv == IInv /\ SplitOnState => IInv'
<1> SUFFICES ASSUME IInv, SplitOnState PROVE IInv'
  OBVIOUS
<1>1. PICK boom \in Leaves, a \in Input : \E w \in StateWords(boom, a) :
        Pop(boom) /\ Split(boom, w)
  BY DEF SplitOnState, FirstTried, StateSymbols, ValidStateWords
<1>2. PICK w \in StateWords(boom, a) : Pop(boom) /\ Split(boom, w)
  BY <1>1
<1>3. boom \in DOMAIN tree
  BY DEF Leaves
<1>4. \E b, c \in new_blocks(boom, w) : b # c
  BY <1>3, StateSplitSeparates DEF IInv
<1>5. w \in Word /\ w # <<>>
  BY <1>3, WordsTried DEF IInv
<1> QED
  BY <1>2, <1>4, <1>5, SplitPreserves

(* A leaf that cannot be split yet goes to the back of the queue.          *)
LEMMA RequeueIInv == IInv /\ Requeue => IInv'
<1> SUFFICES ASSUME IInv, Requeue PROVE IInv'
  OBVIOUS
<1>1. PICK boom \in Leaves :
        /\ Fruitless(boom)
        /\ work' = Append(Tail(work), boom)
        /\ UNCHANGED <<is_complete, current_order, split_in_current_order, pc>>
  BY DEF Requeue
<1>2. /\ Pop(boom) /\ Stuck(boom) /\ pc = "loop" /\ pc' = pc
      /\ days_without_progress' = days_without_progress + 1
      /\ g' = g /\ opt' = opt /\ tree' = tree /\ current_order' = current_order
      /\ is_complete' = is_complete
      /\ split_in_current_order' = split_in_current_order
  BY <1>1 DEF Fruitless, Pop
<1>3. /\ TreeShape' /\ ChildrenPartition' /\ LastOutputSeparates'
      /\ CacheIsFilled' /\ CacheAgrees'
      /\ succession' \in Seq(Row) /\ Leaves' = Leaves
  BY <1>1, FruitlessKeepsTree
<1>4. QueueHoldsLeaves'
  BY <1>1, <1>2, <1>3, RotationKeepsQueue
<1>5. TypeOK'
  <2>1. work' \in Seq(DOMAIN tree')
    BY <1>1, <1>2, Rotation
  <2> QED
    BY <1>2, <1>3, <2>1 DEF IInv, TypeOK, Row
<1>6. VisitedAreStuck'
  <2> DEFINE n == Len(work)
  <2>1. /\ n \in Nat \ {0} /\ Len(work') = n /\ DOMAIN work' = 1 .. n
        /\ DOMAIN work = 1 .. n /\ days_without_progress \in Nat
        /\ work'[n] = boom /\ \A i \in 1 .. n - 1 : work'[i] = work[i + 1]
    BY <1>1, <1>2, Rotation DEF IInv, TypeOK
  <2> HIDE DEF n
  <2> SUFFICES ASSUME opt.assert_minimal_order =>
                        split_in_current_order \/ current_order = 0,
                      NEW u \in Leaves, NEW i \in 1 .. n, work'[i] = u,
                      i + (days_without_progress + 1) > n
               PROVE  Stuck(u)'
    BY <1>2, <1>3, <2>1 DEF VisitedAreStuck
  <2>2. ASSUME i = n PROVE Stuck(u)
    BY <1>2, <2>1, <2>2
  <2>3. ASSUME i # n PROVE Stuck(u)
    <3>1. i + 1 \in DOMAIN work /\ (i + 1) + days_without_progress > n
          /\ work[i + 1] = u
      BY <2>1, <2>3
    <3> QED
      BY <1>2, <3>1 DEF IInv, VisitedAreStuck, n
  <2> QED
    BY <1>2, <2>2, <2>3, StuckDependsOnTree
<1>7. NothingLeftToSplit'
  BY <1>2 DEF NothingLeftToSplit
<1> QED
  BY <1>3, <1>4, <1>5, <1>6, <1>7 DEF IInv

(* Raising the order begins a new round, of which no turn is over.         *)
LEMMA RaiseOrderIInv == IInv /\ RaiseOrder => IInv'
<1> SUFFICES ASSUME IInv, RaiseOrder PROVE IInv'
  OBVIOUS
<1>1. PICK boom \in Leaves :
        /\ Fruitless(boom) /\ opt.assert_minimal_order
        /\ current_order' = current_order + 1
        /\ split_in_current_order' = FALSE
        /\ work' = Append(Tail(work), boom)
        /\ UNCHANGED <<is_complete, pc>>
  BY DEF RaiseOrder
<1>2. /\ Pop(boom) /\ pc = "loop" /\ pc' = pc
      /\ days_without_progress' = days_without_progress + 1
      /\ g' = g /\ opt' = opt /\ tree' = tree
  BY <1>1 DEF Fruitless, Pop
<1>3. /\ TreeShape' /\ ChildrenPartition' /\ LastOutputSeparates'
      /\ CacheIsFilled' /\ CacheAgrees'
      /\ succession' \in Seq(Row) /\ Leaves' = Leaves
  BY <1>1, FruitlessKeepsTree
<1>4. QueueHoldsLeaves'
  BY <1>1, <1>2, <1>3, RotationKeepsQueue
<1>5. TypeOK'
  <2>1. work' \in Seq(DOMAIN tree')
    BY <1>1, <1>2, Rotation
  <2>2. is_complete' = is_complete /\ current_order' = current_order + 1
    BY <1>1
  <2>3. split_in_current_order' \in BOOLEAN
    BY <1>1
  <2>4. days_without_progress' \in Nat /\ current_order' \in Nat
    BY <1>2, <2>2 DEF IInv, TypeOK
  <2> QED
    BY <1>2, <1>3, <2>1, <2>2, <2>3, <2>4 DEF IInv, TypeOK, Row
<1>6. VisitedAreStuck' /\ NothingLeftToSplit'
  <2>1. current_order' # 0 /\ opt'.assert_minimal_order
    BY <1>1, <1>2 DEF IInv, TypeOK
  <2> QED
    BY <1>1, <1>2, <2>1 DEF VisitedAreStuck, NothingLeftToSplit
<1> QED
  BY <1>3, <1>4, <1>5, <1>6 DEF IInv

(* The loop ends where "we tried all we could": boom and the blocks behind *)
(* it in the queue, as many as there were days without progress, are all.  *)
LEMMA GiveUpIInv == IInv /\ GiveUp => IInv'
<1> SUFFICES ASSUME IInv, GiveUp PROVE IInv'
  OBVIOUS
<1>1. PICK boom \in Leaves :
        /\ Fruitless(boom) /\ Exhausted
        /\ is_complete' = FALSE /\ work' = Tail(work) /\ pc' = "returned"
        /\ UNCHANGED <<current_order, split_in_current_order>>
  BY DEF GiveUp
<1>2. /\ Pop(boom) /\ Stuck(boom) /\ pc = "loop" /\ work # <<>>
      /\ boom = Head(work)
      /\ days_without_progress' = days_without_progress + 1
      /\ g' = g /\ opt' = opt /\ tree' = tree /\ current_order' = current_order
      /\ split_in_current_order' = split_in_current_order
  BY <1>1 DEF Fruitless, Pop
<1>3. /\ TreeShape' /\ ChildrenPartition' /\ LastOutputSeparates'
      /\ CacheIsFilled' /\ CacheAgrees'
      /\ succession' \in Seq(Row) /\ Leaves' = Leaves
  BY <1>1, FruitlessKeepsTree
<1>4. /\ work \in Seq(DOMAIN tree) /\ Tail(work) \in Seq(DOMAIN tree)
      /\ Len(Tail(work)) = Len(work) - 1 /\ Len(work) \in Nat \ {0}
      /\ DOMAIN work = 1 .. Len(work) /\ work[1] = boom
      /\ days_without_progress \in Nat
  BY <1>2 DEF IInv, TypeOK
<1>5. TypeOK'
  <2>1. work' \in Seq(DOMAIN tree')
    BY <1>1, <1>2, <1>4
  <2>2. is_complete' \in BOOLEAN /\ pc' \in {"loop", "returned"}
    BY <1>1
  <2>3. days_without_progress' \in Nat
    BY <1>2, <1>4
  <2> QED
    BY <1>2, <1>3, <2>1, <2>2, <2>3 DEF IInv, TypeOK, Row
<1>6. QueueHoldsLeaves' /\ VisitedAreStuck'
  BY <1>1 DEF QueueHoldsLeaves, VisitedAreStuck
<1>7. NothingLeftToSplit'
  <2> SUFFICES ASSUME ~ opt.assert_minimal_order,
                      NEW u \in Leaves, Cardinality(u) # 1
               PROVE  Stuck(u)'
    BY <1>2, <1>3 DEF NothingLeftToSplit
  <2>1. PICK i \in DOMAIN work : work[i] = u
    BY <1>2 DEF IInv, QueueHoldsLeaves
  <2>2. days_without_progress >= Len(work) - 1
    BY <1>1, <1>4 DEF Exhausted
  <2>3. ASSUME i = 1 PROVE Stuck(u)
    BY <1>2, <1>4, <2>1, <2>3
  <2>4. ASSUME i # 1 PROVE Stuck(u)
    <3>1. i + days_without_progress > Len(work)
      BY <1>4, <2>2, <2>4
    <3> QED
      BY <1>2, <2>1, <3>1 DEF IInv, VisitedAreStuck
  <2> QED
    BY <1>2, <2>3, <2>4, StuckDependsOnTree
<1> QED
  BY <1>3, <1>5, <1>6, <1>7 DEF IInv

(* The end of the loop changes nothing that the invariant is about.        *)
LEMMA FinishIInv == IInv /\ Finish => IInv'
<1> SUFFICES ASSUME IInv, Finish PROVE IInv'
  OBVIOUS
<1>1. /\ pc = "loop" /\ work = <<>> /\ pc' = "returned"
      /\ g' = g /\ opt' = opt /\ tree' = tree /\ succession' = succession
      /\ is_complete' = is_complete /\ work' = work
      /\ days_without_progress' = days_without_progress
      /\ current_order' = current_order
      /\ split_in_current_order' = split_in_current_order
  BY DEF Finish, result
<1>2. Leaves' = Leaves /\ Internal' = Internal
  BY <1>1 DEF Leaves, Internal
<1>3. TypeOK' /\ TreeShape' /\ ChildrenPartition' /\ CacheIsFilled'
  BY <1>1, <1>2 DEF IInv, TypeOK, TreeShape, ChildrenPartition, CacheIsFilled
<1>4. LastOutputSeparates' /\ CacheAgrees'
  BY <1>1, <1>2 DEF IInv, LastOutputSeparates, CacheAgrees, out, to
<1>5. QueueHoldsLeaves' /\ VisitedAreStuck'
  BY <1>1 DEF QueueHoldsLeaves, VisitedAreStuck
<1>6. \A u \in Leaves : Cardinality(u) = 1
  BY <1>1 DEF IInv, QueueHoldsLeaves
<1>7. NothingLeftToSplit'
  BY <1>2, <1>6 DEF NothingLeftToSplit
<1> QED
  BY <1>3, <1>4, <1>5, <1>7 DEF IInv

(* Nor does a step that changes no variable.                               *)
LEMMA StutterIInv == IInv /\ UNCHANGED vars => IInv'
<1> SUFFICES ASSUME IInv, UNCHANGED vars PROVE IInv'
  OBVIOUS
<1>1. /\ pc' = pc /\ g' = g /\ opt' = opt
      /\ tree' = tree /\ succession' = succession
      /\ is_complete' = is_complete /\ work' = work
      /\ days_without_progress' = days_without_progress
      /\ current_order' = current_order
      /\ split_in_current_order' = split_in_current_order
  BY DEF vars, result
<1>2. Leaves' = Leaves /\ Internal' = Internal
  BY <1>1 DEF Leaves, Internal
<1>3. TypeOK' /\ TreeShape' /\ ChildrenPartition' /\ CacheIsFilled'
  BY <1>1, <1>2 DEF IInv, TypeOK, TreeShape, ChildrenPartition, CacheIsFilled
<1>4. LastOutputSeparates' /\ CacheAgrees'
  BY <1>1, <1>2 DEF IInv, LastOutputSeparates, CacheAgrees, out, to
<1>5. QueueHoldsLeaves'
  BY <1>1, <1>2 DEF IInv, QueueHoldsLeaves
<1>6. \A u : Stuck(u)' <=> Stuck(u)
  BY <1>1, StuckDependsOnTree
<1>7. VisitedAreStuck' /\ NothingLeftToSplit'
  BY <1>1, <1>2, <1>6 DEF IInv, VisitedAreStuck, NothingLeftToSplit
<1> QED
  BY <1>3, <1>4, <1>5, <1>7 DEF IInv

-----------------------------------------------------------------------------
(* The theorems.                                                           *)

(* The invariant is inductive and holds in every reachable state.          *)
THEOREM Invariance == Spec => []IInv
<1>1. IInv /\ [Next]_vars => IInv'
  BY SkipSingletonIInv, SplitOnOutputIInv, SplitOnStateIInv, RequeueIInv,
     RaiseOrderIInv, GiveUpIInv, FinishIInv, StutterIInv DEF Next
<1> QED
  BY InitIInv, <1>1, PTL DEF Spec

(* The variables keep their types: in particular every entry of the cache  *)
(* is a state or state(-1).                                                *)
THEOREM TypeCorrect == Spec => []TypeOK
<1>1. IInv => TypeOK
  BY DEF IInv
<1> QED
  BY <1>1, Invariance, PTL

(* The assertions of add_push_new_block and of the second stage never      *)
(* fail: each split makes at least two blocks, which partition the node.   *)
THEOREM AssertionsHold == Spec => []ChildrenPartition
<1>1. IInv => ChildrenPartition
  BY DEF IInv
<1> QED
  BY <1>1, Invariance, PTL

(* The successor cache is right for every split node.                      *)
THEOREM CacheIsRight == Spec => []CacheAgrees
<1>1. IInv => CacheAgrees
  BY DEF IInv
<1> QED
  BY <1>1, Invariance, PTL

(* The queue neither loses nor repeats a leaf.                             *)
THEOREM QueueIsRight == Spec => []QueueHoldsLeaves
<1>1. IInv => QueueHoldsLeaves
  BY DEF IInv
<1> QED
  BY <1>1, Invariance, PTL

(* There are never more days than blocks in the queue.                     *)
DaysFit ==
  pc = "loop" /\ ~ opt.assert_minimal_order =>
    days_without_progress <= Len(work)

(* The turns that split begin to count anew; a singleton in front was not  *)
(* counted, since it is not stuck; and a block is counted only while fewer *)
(* than all have been.                                                     *)
LEMMA DaysFitStep == IInv /\ IInv' /\ DaysFit /\ [Next]_vars => DaysFit'
<1> SUFFICES ASSUME IInv, IInv', DaysFit, [Next]_vars,
                    pc' = "loop", ~ opt'.assert_minimal_order
             PROVE  days_without_progress' <= Len(work')
  BY DEF DaysFit
<1>1. /\ Len(work) \in Nat /\ Len(work') \in Nat /\ DOMAIN work = 1 .. Len(work)
      /\ days_without_progress \in Nat
  BY DEF IInv, TypeOK
<1>2. ASSUME NEW boom \in Leaves, Pop(boom)
      PROVE  /\ Len(Tail(work)) = Len(work) - 1 /\ Len(work) > 0
             /\ boom = work[1] /\ pc = "loop"
             /\ Len(Append(Tail(work), boom)) = Len(work)
  BY <1>1, <1>2 DEF Pop, IInv, TypeOK, Leaves
<1>3. ASSUME opt' = opt, NEW boom \in Leaves, Pop(boom)
      PROVE  days_without_progress <= Len(work)
  BY <1>2, <1>3 DEF DaysFit
<1>4. CASE SkipSingleton
  <2>1. PICK boom \in Leaves :
          /\ Pop(boom) /\ Cardinality(boom) = 1 /\ work' = Tail(work)
          /\ days_without_progress' = days_without_progress /\ opt' = opt
    BY <1>4 DEF SkipSingleton
  <2>2. ~ Stuck(boom)
    BY <2>1 DEF Stuck
  <2>3. ~ (1 + days_without_progress > Len(work))
    BY <1>1, <1>2, <2>1, <2>2 DEF IInv, VisitedAreStuck
  <2> QED
    BY <1>1, <1>2, <2>1, <2>3
<1>5. CASE SplitOnOutput
  <2>1. days_without_progress' = 0
    BY <1>5 DEF SplitOnOutput, Split
  <2> QED
    BY <1>1, <2>1
<1>6. CASE SplitOnState
  <2>1. days_without_progress' = 0
    BY <1>6 DEF SplitOnState, Split
  <2> QED
    BY <1>1, <2>1
<1>7. CASE Requeue
  <2>1. PICK boom \in Leaves :
          /\ Pop(boom) /\ ~ Exhausted /\ work' = Append(Tail(work), boom)
          /\ days_without_progress' = days_without_progress + 1
    BY <1>7 DEF Requeue, Fruitless
  <2>2. days_without_progress < Len(work) - 1
    BY <1>1, <1>2, <2>1 DEF Exhausted
  <2> QED
    BY <1>1, <1>2, <2>1, <2>2
<1>8. CASE RaiseOrder
  BY <1>8 DEF RaiseOrder, Fruitless
<1>9. CASE GiveUp
  BY <1>9 DEF GiveUp
<1>10. CASE Finish
  BY <1>10 DEF Finish
<1>11. CASE UNCHANGED vars
  BY <1>11 DEF vars, DaysFit
<1> QED
  BY <1>4, <1>5, <1>6, <1>7, <1>8, <1>9, <1>10, <1>11 DEF Next

(* The days count blocks at the end of the queue that cannot be split, and *)
(* never more than there are in the queue.                                 *)
THEOREM DaysAreRight == Spec => []DaysAreStuck
<1>1. Init => DaysFit
  <2>1. Init => days_without_progress = 0 /\ Len(work) = 1
    BY DEF Init
  <2> QED
    BY <2>1 DEF DaysFit
<1>2. IInv /\ DaysFit => DaysAreStuck
  BY DEF IInv, VisitedAreStuck, DaysAreStuck, DaysFit
<1> QED
  BY <1>1, <1>2, DaysFitStep, Invariance, PTL DEF Spec

(* Without the order constraint the function never gives up too early.     *)
THEOREM GivesUpOnlyWhenStuck == Spec => []NothingLeftToSplit
<1>1. IInv => NothingLeftToSplit
  BY DEF IInv
<1> QED
  BY <1>1, Invariance, PTL


-----------------------------------------------------------------------------
(* Equivalence up to a length.                                             *)

(* The pairs that one symbol does not tell apart, by the answer or by      *)
(* leading to a pair that is not in E.                                     *)
StepEquivalent(m, E) ==
  {p \in E : \A a \in Input :
     /\ m[p[1]][a].out = m[p[2]][a].out
     /\ <<m[p[1]][a].to, m[p[2]][a].to>> \in E}

(* f is the chain of these relations up to k.                              *)
IsChain(m, k, f) ==
  f = [n \in 0 .. k |-> IF n = 0 THEN State \X State
                                 ELSE StepEquivalent(m, f[n - 1])]

(* The chain of these relations exists for every length.                   *)
LEMMA ChainExists ==
  ASSUME NEW m, NEW k \in Nat
  PROVE  \E f : IsChain(m, k, f)
<1> DEFINE S == {n \in Nat : \E f : IsChain(m, n, f)}
<1>1. 0 \in S
  <2>1. IsChain(m, 0, [n \in 0 .. 0 |-> State \X State])
    BY DEF IsChain
  <2> QED
    BY <2>1
<1>2. ASSUME NEW n \in Nat, n \in S PROVE n + 1 \in S
  <2>1. PICK f : IsChain(m, n, f)
    BY <1>2
  <2> DEFINE h == [i \in 0 .. n + 1 |-> IF i = n + 1 THEN StepEquivalent(m, f[n])
                                                   ELSE f[i]]
  <2>2. /\ DOMAIN f = 0 .. n
        /\ \A i \in 0 .. n : f[i] = IF i = 0 THEN State \X State
                                             ELSE StepEquivalent(m, f[i - 1])
    BY <2>1 DEF IsChain
  <2>3. \A i \in 0 .. n + 1 : h[i] = IF i = n + 1 THEN StepEquivalent(m, f[n])
                                                  ELSE f[i]
    OBVIOUS
  <2>4. DOMAIN h = 0 .. n + 1 /\ h = [i \in 0 .. n + 1 |-> h[i]]
    OBVIOUS
  <2> HIDE DEF h
  <2>5. ASSUME NEW i \in 0 .. n + 1
        PROVE  h[i] = IF i = 0 THEN State \X State ELSE StepEquivalent(m, h[i - 1])
    <3>1. CASE i = n + 1
      <4>1. n \in 0 .. n + 1 /\ n # n + 1 /\ i - 1 = n /\ i # 0
        BY <3>1
      <4>2. h[i] = StepEquivalent(m, f[n]) /\ h[n] = f[n]
        BY <2>3, <3>1, <4>1
      <4> QED
        BY <4>1, <4>2
    <3>2. CASE i # n + 1 /\ i # 0
      <4>1. i \in 0 .. n /\ i - 1 \in 0 .. n + 1 /\ i - 1 # n + 1
        BY <3>2
      <4>2. h[i] = f[i] /\ h[i - 1] = f[i - 1]
        BY <2>3, <3>2, <4>1
      <4> QED
        BY <2>2, <3>2, <4>1, <4>2
    <3>3. CASE i = 0
      <4>1. 0 \in 0 .. n + 1 /\ 0 # n + 1 /\ 0 \in 0 .. n
        OBVIOUS
      <4> QED
        BY <2>2, <2>3, <3>3, <4>1
    <3> QED
      BY <3>1, <3>2, <3>3
  <2>6. IsChain(m, n + 1, h)
    BY <2>4, <2>5 DEF IsChain
  <2> QED
    BY <2>6
<1> HIDE DEF S
<1>3. k \in S
  BY <1>1, <1>2, NatSetInduction
<1> QED
  BY <1>3 DEF S

(* EquivalentUpTo is the last relation of any chain that is long enough.   *)
LEMMA EquivalentIsChain ==
  ASSUME NEW m, NEW k \in Nat, NEW f, IsChain(m, k, f), NEW n \in 0 .. k
  PROVE  EquivalentUpTo(m, n) = f[n]
<1> DEFINE eq == CHOOSE h : IsChain(m, n, h)
<1>1. IsChain(m, n, eq)
  BY ChainExists
<1>2. EquivalentUpTo(m, n) = eq[n]
  BY DEF EquivalentUpTo, IsChain, StepEquivalent
<1> HIDE DEF eq
<1>3. \A i \in 0 .. n : eq[i] = IF i = 0 THEN State \X State
                                         ELSE StepEquivalent(m, eq[i - 1])
  BY <1>1 DEF IsChain
<1>4. \A i \in 0 .. k : f[i] = IF i = 0 THEN State \X State
                                        ELSE StepEquivalent(m, f[i - 1])
  BY DEF IsChain
<1> DEFINE S == {i \in Nat : i <= n => eq[i] = f[i]}
<1>5. 0 \in S
  BY <1>3, <1>4
<1>6. ASSUME NEW i \in Nat, i \in S PROVE i + 1 \in S
  <2> SUFFICES ASSUME i + 1 <= n PROVE eq[i + 1] = f[i + 1]
    OBVIOUS
  <2>1. /\ i + 1 \in 0 .. n /\ i + 1 \in 0 .. k /\ i + 1 # 0
        /\ (i + 1) - 1 = i
    OBVIOUS
  <2>2. eq[i] = f[i]
    BY <1>6
  <2>3. eq[i + 1] = StepEquivalent(m, eq[i]) /\ f[i + 1] = StepEquivalent(m, f[i])
    BY <1>3, <1>4, <2>1
  <2> QED
    BY <2>2, <2>3
<1> HIDE DEF S
<1>7. n \in S
  BY <1>5, <1>6, NatSetInduction
<1> QED
  BY <1>2, <1>7 DEF S

(* With no symbol nothing is told apart, and with one more symbol what     *)
(* that symbol tells apart.                                                *)
LEMMA EquivalentStep ==
  ASSUME NEW m, NEW k \in Nat
  PROVE  /\ EquivalentUpTo(m, 0) = State \X State
         /\ EquivalentUpTo(m, k + 1) = StepEquivalent(m, EquivalentUpTo(m, k))
<1>1. PICK f : IsChain(m, k + 1, f)
  BY ChainExists
<1>2. /\ EquivalentUpTo(m, 0) = f[0]
      /\ EquivalentUpTo(m, k) = f[k]
      /\ EquivalentUpTo(m, k + 1) = f[k + 1]
  BY <1>1, EquivalentIsChain
<1>3. f[0] = State \X State /\ f[k + 1] = StepEquivalent(m, f[k])
  <2>1. /\ 0 \in 0 .. k + 1 /\ k + 1 \in 0 .. k + 1
        /\ k + 1 # 0 /\ (k + 1) - 1 = k
    OBVIOUS
  <2> QED
    BY <1>1, <2>1 DEF IsChain
<1> QED
  BY <1>2, <1>3

(* What is equivalent up to k answers every word of at most k symbols      *)
(* alike.                                                                  *)
LEMMA EquivalentAnswersAlike ==
  ASSUME NEW m \in Machine, NEW k \in Nat
  PROVE  \A s, t \in State : <<s, t>> \in EquivalentUpTo(m, k) =>
           \A w \in Word : w # <<>> /\ Len(w) <= k =>
             applyWord(m, s, w).out = applyWord(m, t, w).out
<1> DEFINE Alike(n) ==
             \A s, t \in State : <<s, t>> \in EquivalentUpTo(m, n) =>
               \A w \in Word : w # <<>> /\ Len(w) <= n =>
                 applyWord(m, s, w).out = applyWord(m, t, w).out
           S == {n \in Nat : Alike(n)}
<1>1. 0 \in S
  BY DEF Word
<1>2. ASSUME NEW n \in Nat, n \in S PROVE n + 1 \in S
  <2> SUFFICES ASSUME NEW s \in State, NEW t \in State,
                      <<s, t>> \in EquivalentUpTo(m, n + 1),
                      NEW w \in Word, w # <<>>, Len(w) <= n + 1
               PROVE  applyWord(m, s, w).out = applyWord(m, t, w).out
    OBVIOUS
  <2> DEFINE a == w[1]
             v == Tail(w)
  <2>1. /\ a \in Input /\ v \in Word /\ Len(v) = Len(w) - 1 /\ w = <<a>> \o v
        /\ Len(w) \in Nat \ {0}
    BY DEF Word
  <2>2. <<s, t>> \in StepEquivalent(m, EquivalentUpTo(m, n))
    BY EquivalentStep
  <2>3. /\ m[s][a].out = m[t][a].out
        /\ <<m[s][a].to, m[t][a].to>> \in EquivalentUpTo(m, n)
    BY <2>1, <2>2 DEF StepEquivalent
  <2>4. m[s][a].to \in State /\ m[t][a].to \in State
    BY <2>1 DEF Machine, Edge
  <2> HIDE DEF a, v
  <2>5. CASE v = <<>>
    <3>1. w = <<a>>
      BY <2>1, <2>5
    <3>2. applyWord(m, s, <<a>>) = m[s][a] /\ applyWord(m, t, <<a>>) = m[t][a]
      BY <2>1, ApplyOne
    <3> QED
      BY <2>3, <3>1, <3>2
  <2>6. CASE v # <<>>
    <3>1. /\ applyWord(m, s, w) = applyWord(m, m[s][a].to, v)
          /\ applyWord(m, t, w) = applyWord(m, m[t][a].to, v)
      BY <2>1, <2>6, ApplyCons
    <3>2. Len(v) <= n
      BY <2>1
    <3>3. Alike(n)
      BY <1>2
    <3> HIDE DEF S
    <3> QED
      BY <2>1, <2>3, <2>4, <2>6, <3>1, <3>2, <3>3
  <2> QED
    BY <2>5, <2>6
<1> HIDE DEF S
<1>3. k \in S
  BY <1>1, <1>2, NatSetInduction
<1> QED
  BY <1>3 DEF S

(* Pairs of states whose successors on every symbol are such pairs again,  *)
(* and answer alike, are equivalent up to every length.                    *)
LEMMA StableIsEquivalent ==
  ASSUME NEW m, NEW E \in SUBSET (State \X State),
         \A p \in E : \A a \in Input :
           /\ m[p[1]][a].out = m[p[2]][a].out
           /\ <<m[p[1]][a].to, m[p[2]][a].to>> \in E,
         NEW k \in Nat
  PROVE  E \subseteq EquivalentUpTo(m, k)
<1> DEFINE S == {n \in Nat : E \subseteq EquivalentUpTo(m, n)}
<1>1. 0 \in S
  BY EquivalentStep
<1>2. ASSUME NEW n \in Nat, n \in S PROVE n + 1 \in S
  BY <1>2, EquivalentStep DEF StepEquivalent
<1> HIDE DEF S
<1>3. k \in S
  BY <1>1, <1>2, NatSetInduction
<1> QED
  BY <1>3 DEF S

(* No word tells a state from itself.                                      *)
LEMMA EquivalentToItself ==
  ASSUME NEW m \in Machine, NEW k \in Nat, NEW s \in State
  PROVE  <<s, s>> \in EquivalentUpTo(m, k)
<1> DEFINE E == {<<t, t>> : t \in State}
<1>1. \A t \in State, a \in Input : m[t][a].to \in State
  BY DEF Machine, Edge
<1>2. \A p \in E : \A a \in Input :
        /\ m[p[1]][a].out = m[p[2]][a].out
        /\ <<m[p[1]][a].to, m[p[2]][a].to>> \in E
  BY <1>1
<1>3. E \in SUBSET (State \X State) /\ <<s, s>> \in E
  OBVIOUS
<1> HIDE DEF E
<1> QED
  BY <1>2, <1>3, StableIsEquivalent

-----------------------------------------------------------------------------
(* Lowest common ancestors and stable leaves.                              *)

(* Nothing is lost: the root stays, and the leaves cover the states.       *)
LeavesCover == State \in DOMAIN tree /\ UNION Leaves = State

(* The nodes of the tree are finitely many finite sets of states.          *)
LEMMA NodesFinite ==
  ASSUME TypeOK
  PROVE  /\ IsFiniteSet(State) /\ Cardinality(State) = N
         /\ IsFiniteSet(DOMAIN tree)
         /\ \A u \in DOMAIN tree : IsFiniteSet(u) /\ u \subseteq State /\ u # {}
<1>1. IsFiniteSet(State) /\ Cardinality(State) = N
  <2>1. 0 \in Int /\ N - 1 \in Int /\ ~ (0 > N - 1) /\ (N - 1) - 0 + 1 = N
    BY SizesAssumption
  <2> QED
    BY <2>1, FS_Interval DEF State
<1>2. IsFiniteSet(SUBSET State)
  BY <1>1, FS_SUBSET
<1>3. DOMAIN tree \subseteq SUBSET State
  BY DEF TypeOK, Node
<1>4. IsFiniteSet(DOMAIN tree)
  BY <1>2, <1>3, FS_Subset
<1>5. \A u \in DOMAIN tree : u \subseteq State /\ u # {}
  BY DEF TypeOK, Node
<1>6. \A u \in DOMAIN tree : IsFiniteSet(u)
  BY <1>1, <1>5, FS_Subset
<1> QED
  BY <1>1, <1>4, <1>5, <1>6

(* What lca returns is there for every set of states.                      *)
LEMMA LcaExists ==
  ASSUME TypeOK, ChildrenPartition, State \in DOMAIN tree, NEW X \in SUBSET State
  PROVE  \E u \in DOMAIN tree : IsLca(u, X)
<1> DEFINE S == {Cardinality(u) : u \in {v \in DOMAIN tree : X \subseteq v}}
<1>1. \A u \in DOMAIN tree : IsFiniteSet(u) /\ Cardinality(u) \in Nat
  BY NodesFinite, FS_CardinalityType
<1>2. S \subseteq Nat /\ S # {}
  BY <1>1
<1>3. PICK c \in S : \A d \in S : ~ (d < c)
  BY <1>2, NatMin
<1>4. PICK u \in DOMAIN tree : X \subseteq u /\ Cardinality(u) = c
  BY <1>3
<1>5. ASSUME NEW i \in DOMAIN tree[u].children, X \subseteq tree[u].children[i]
      PROVE  FALSE
  <2> DEFINE v == tree[u].children[i]
  <2>1. u \in Internal
    BY <1>4, <1>5 DEF Internal, Leaves
  <2>2. v \in DOMAIN tree /\ v \subseteq u /\ tree[v].depth = tree[u].depth + 1
    BY <2>1 DEF ChildrenPartition
  <2>3. v # u
    <3>1. tree[u].depth \in Nat
      BY DEF TypeOK, splitting_tree
    <3> QED
      BY <2>2, <3>1
  <2> HIDE DEF v
  <2>4. /\ Cardinality(v) <= Cardinality(u)
        /\ Cardinality(u) = Cardinality(v) => u = v
    BY <1>1, <2>2, FS_Subset
  <2>5. Cardinality(v) < c
    BY <1>1, <1>4, <2>2, <2>3, <2>4
  <2>6. Cardinality(v) \in S
    BY <1>5, <2>2 DEF v
  <2> QED
    BY <1>3, <2>5, <2>6
<1> QED
  BY <1>4, <1>5 DEF IsLca

(* States in different children of a node are in no common leaf.           *)
LEMMA ChildrenSeparateLeaves ==
  ASSUME TypeOK, TreeShape, ChildrenPartition,
         NEW u \in Internal,
         NEW i \in DOMAIN tree[u].children, NEW j \in DOMAIN tree[u].children,
         i # j, NEW x \in tree[u].children[i], NEW y \in tree[u].children[j],
         NEW l \in Leaves
  PROVE  ~ ({x, y} \subseteq l)
<1> SUFFICES ASSUME x \in l, y \in l PROVE FALSE
  OBVIOUS
<1> DEFINE c == tree[u].children[i]
           d == tree[u].children[j]
<1>1. /\ c \in DOMAIN tree /\ c \subseteq u /\ c \cap d = {}
      /\ d \in DOMAIN tree /\ d \subseteq u
      /\ tree[c].depth = tree[u].depth + 1
  BY DEF ChildrenPartition
<1>2. l \in DOMAIN tree /\ u \in DOMAIN tree
  BY DEF Leaves, Internal
<1> HIDE DEF c, d
<1>3. x \in c /\ y \in d
  BY DEF c, d
<1>4. l \subseteq c \/ c \subseteq l
  BY <1>1, <1>2, <1>3 DEF TreeShape
<1>5. c \subseteq l => c = l
  BY <1>1 DEF TreeShape
<1> QED
  BY <1>1, <1>3, <1>4, <1>5

(* A leaf that nothing splits is stable, when nothing keeps the loop from  *)
(* splitting it.                                                           *)
LEMMA StuckIsStable ==
  ASSUME IInv, LeavesCover,
         ~ opt.check_validity, ~ opt.assert_minimal_order,
         NEW u \in Leaves, Cardinality(u) # 1 => Stuck(u),
         NEW s \in u, NEW t \in u, NEW a \in Input
  PROVE  /\ g[s][a].out = g[t][a].out
         /\ \E b \in Leaves : {g[s][a].to, g[t][a].to} \subseteq b
<1>1. /\ TypeOK /\ ChildrenPartition /\ g \in Machine
      /\ u \in Node /\ u \subseteq State /\ u \in DOMAIN tree /\ IsFiniteSet(u)
  BY NodesFinite DEF IInv, TypeOK, Leaves
<1>2. \A x \in u : g[x][a].to \in State
  BY <1>1 DEF Machine, Edge
<1>3. CASE Cardinality(u) = 1
  <2>1. s = t
    BY <1>1, <1>3, FS_Singleton
  <2>2. PICK b \in Leaves : g[s][a].to \in b
    BY <1>2 DEF LeavesCover
  <2> QED
    BY <2>1, <2>2
<1>4. CASE Stuck(u)
  <2>1. ~ OutputSplits(u, a) /\ ValidStateWords(u, a) = {}
    BY <1>4 DEF Stuck, OutputSymbols, StateSymbols
  <2>2. Cardinality(new_blocks(u, <<a>>)) = 1
    BY <2>1 DEF OutputSplits, OutputStage
  <2>3. PICK b0 : new_blocks(u, <<a>>) = {b0}
    BY <1>1, <2>2, BlocksFinite, FS_Singleton
  <2>4. out(s, <<a>>) = out(t, <<a>>)
    <3>1. s \in b0 /\ t \in b0
      BY <1>1, <2>3, BlocksPartition
    <3> QED
      BY <1>1, <2>3, <3>1, BlocksPartition
  <2>5. applyWord(g, s, <<a>>) = g[s][a] /\ applyWord(g, t, <<a>>) = g[t][a]
    BY <1>1, ApplyOne
  <2>6. g[s][a].out = g[t][a].out
    BY <2>4, <2>5 DEF out
  <2> DEFINE X == successor_states(u, a)
  <2>7. X \in SUBSET State
    BY <1>2 DEF successor_states
  <2>8. PICK v \in DOMAIN tree : IsLca(v, X)
    BY <1>1, <2>7, LcaExists DEF LeavesCover
  <2>9. v \in Leaves
    <3> SUFFICES ASSUME v \in Internal PROVE FALSE
      BY DEF Internal
    <3>1. <<a>> \o tree[v].separator \in StateWords(u, a)
      BY <2>8 DEF StateWords, StateStage
    <3> QED
      BY <2>1, <3>1 DEF ValidStateWords
  <2>10. g[s][a].to \in v /\ g[t][a].to \in v
    BY <2>8 DEF IsLca, successor_states
  <2> QED
    BY <2>6, <2>9, <2>10
<1> QED
  BY <1>3, <1>4

-----------------------------------------------------------------------------
(* The second invariant: what the words in the tree are.                   *)

(* Every split adds one inner node and at least one leaf, and a separator  *)
(* is one symbol longer than that of an inner node that was there before.  *)
SeparatorsShort ==
  /\ Cardinality(Internal) < Cardinality(Leaves)
  /\ \A u \in Internal : Len(tree[u].separator) <= Cardinality(Internal)

(* Before its last symbol a separator tells no states apart.               *)
PrefixesAgree ==
  ~ (opt.check_validity /\ opt.assert_minimal_order) =>
    \A u \in Internal :
      \A k \in 1 .. Len(tree[u].separator) - 1 : \A s, t \in u :
        out(s, SubSeq(tree[u].separator, 1, k))
          = out(t, SubSeq(tree[u].separator, 1, k))

(* In minimal order a block stays together until words of the current      *)
(* order are tried that tell its states apart.                             *)
OrderKept ==
  opt.assert_minimal_order /\ ~ opt.check_validity =>
    /\ \A u \in Leaves : \A s, t \in u :
         <<s, t>> \in EquivalentUpTo(g, current_order)
    /\ \A u \in Internal :
         /\ Len(tree[u].separator) <= current_order + 1
         /\ \A s, t \in u :
              <<s, t>> \in EquivalentUpTo(g, Len(tree[u].separator) - 1)

TheoryInv ==
  /\ opt \in Options
  /\ LeavesCover
  /\ SeparatorsShort
  /\ SeparatorsValid
  /\ OrderKept
  /\ PrefixesAgree

(* The theory holds of the tree that is only a root.                       *)
LEMMA InitTheoryInv == Init => TheoryInv
<1> SUFFICES ASSUME Init PROVE TheoryInv
  OBVIOUS
<1>1. /\ opt \in Options /\ g \in Machine /\ current_order = 0
      /\ DOMAIN tree = {State} /\ tree[State] = Leaf(0)
  BY MachinesAssumption DEF Init
<1>2. Leaves = {State} /\ Internal = {}
  BY <1>1 DEF Leaves, Internal, Leaf
<1>3. LeavesCover
  BY <1>1, <1>2 DEF LeavesCover
<1>4. SeparatorsShort
  <2>1. Cardinality(Internal) = 0 /\ Cardinality(Leaves) = 1
    BY <1>2, FS_EmptySet, FS_Singleton
  <2> QED
    BY <1>2, <2>1 DEF SeparatorsShort
<1>5. SeparatorsValid /\ PrefixesAgree
  BY <1>2 DEF SeparatorsValid, PrefixesAgree
<1>6. OrderKept
  <2>1. EquivalentUpTo(g, 0) = State \X State
    BY EquivalentStep
  <2> QED
    BY <1>1, <1>2, <2>1 DEF OrderKept
<1> QED
  BY <1>1, <1>3, <1>4, <1>5, <1>6 DEF TheoryInv

(* A turn that splits nothing and stays in its order changes none of it.   *)
LEMMA SameTreeSameTheory ==
  ASSUME TheoryInv, g' = g, opt' = opt, tree' = tree
  PROVE  /\ opt' \in Options /\ LeavesCover' /\ SeparatorsShort'
         /\ SeparatorsValid' /\ PrefixesAgree'
         /\ current_order' = current_order => OrderKept'
         /\ Leaves' = Leaves /\ Internal' = Internal
<1>1. Leaves' = Leaves /\ Internal' = Internal
  BY DEF Leaves, Internal
<1>2. opt' \in Options /\ LeavesCover' /\ SeparatorsShort'
  BY <1>1 DEF TheoryInv, LeavesCover, SeparatorsShort
<1>3. SeparatorsValid' /\ PrefixesAgree'
  BY <1>1 DEF TheoryInv, SeparatorsValid, PrefixesAgree, to, out
<1>4. current_order' = current_order => OrderKept'
  BY <1>1 DEF TheoryInv, OrderKept
<1> QED
  BY <1>1, <1>2, <1>3, <1>4

(* What a word must be like for a split with it to keep the invariant.     *)
GoodWord(u, w) ==
  /\ Len(w) <= Cardinality(Internal) + 1
  /\ opt.check_validity =>
       \A s, t \in u : out(s, w) = out(t, w) /\ to(s, w) = to(t, w) => s = t
  /\ opt.assert_minimal_order /\ ~ opt.check_validity =>
       Len(w) = current_order + 1
  /\ ~ (opt.check_validity /\ opt.assert_minimal_order) =>
       \A k \in 1 .. Len(w) - 1 : \A s, t \in u :
         out(s, SubSeq(w, 1, k)) = out(t, SubSeq(w, 1, k))

(* A leaf that is split by a good word keeps the theory.                   *)
LEMMA SplitKeepsTheory ==
  ASSUME IInv, TheoryInv, NEW boom \in Leaves, NEW w \in Word, w # <<>>,
         \E b, c \in new_blocks(boom, w) : b # c,
         GoodWord(boom, w), Split(boom, w)
  PROVE  TheoryInv'
<1> DEFINE bs == new_blocks(boom, w)
           ch == tree'[boom].children
<1>1. /\ g' = g /\ opt' = opt /\ g \in Machine
      /\ boom \in Node /\ boom \in DOMAIN tree
      /\ DOMAIN tree' = DOMAIN tree \cup bs
      /\ \A b \in bs : b \notin DOMAIN tree
      /\ tree'[boom].separator = w
      /\ ch \in InOrder(bs)
      /\ \A u \in DOMAIN tree \ {boom} : tree'[u] = tree[u]
      /\ Leaves' = (Leaves \ {boom}) \cup bs
      /\ Internal' = Internal \cup {boom}
      /\ current_order' = current_order
  BY SplitTree DEF IInv, Split
<1>2. /\ \A b \in bs : b \in Node /\ b \subseteq boom
      /\ \A b, c \in bs : b \cap c # {} => b = c
      /\ UNION bs = boom
      /\ \A b, c \in bs : \A s \in b, t \in c : b = c <=> out(s, w) = out(t, w)
      /\ IsFiniteSet(bs)
      /\ \A i \in DOMAIN ch : ch[i] \in bs
  <2>1. ch \in Seq(bs)
    BY <1>1, InOrderIsInjective
  <2>2. \A i \in DOMAIN ch : ch[i] \in bs
    BY <2>1
  <2> QED
    BY <1>1, <2>2, BlocksPartition, BlocksFinite
<1>3. Internal \subseteq DOMAIN tree \ {boom} /\ Leaves \subseteq DOMAIN tree
  BY DEF Internal, Leaves
<1> HIDE DEF bs, ch
<1>4. /\ \A u \in Internal : tree'[u] = tree[u] /\ u # boom
      /\ boom \notin Internal
  BY <1>1, <1>3
<1>5. \A s, v : out(s, v)' = out(s, v) /\ to(s, v)' = to(s, v)
  BY <1>1 DEF out, to
<1>6. LeavesCover'
  <2>1. UNION Leaves' = UNION Leaves
    BY <1>1, <1>2
  <2> QED
    BY <1>1, <2>1 DEF TheoryInv, LeavesCover
<1>7. SeparatorsShort'
  <2>1. IsFiniteSet(Leaves) /\ IsFiniteSet(Internal) /\ IsFiniteSet(Leaves')
    <3>1. IsFiniteSet(DOMAIN tree)
      BY NodesFinite DEF IInv
    <3>2. IsFiniteSet(Leaves) /\ IsFiniteSet(Internal)
      BY <1>3, <3>1, FS_Subset
    <3>3. IsFiniteSet(Leaves \ {boom})
      BY <3>2, FS_RemoveElement
    <3> QED
      BY <1>1, <1>2, <3>2, <3>3, FS_Union
  <2>2. /\ Cardinality(Leaves) \in Nat /\ Cardinality(Internal) \in Nat
        /\ Cardinality(Leaves') \in Nat
    BY <2>1, FS_CardinalityType
  <2>3. Cardinality(Internal') = Cardinality(Internal) + 1
    BY <1>1, <1>4, <2>1, FS_AddElement
  <2>4. Cardinality(Leaves) + 1 <= Cardinality(Leaves')
    <3>1. PICK b \in bs, c \in bs : b # c
      BY DEF bs
    <3> DEFINE L0 == Leaves \ {boom}
               L1 == L0 \cup {b}
               L2 == L1 \cup {c}
    <3>2. b \notin L0 /\ c \notin L0
      BY <1>1, <1>3, <3>1
    <3>3. IsFiniteSet(L0) /\ Cardinality(L0) = Cardinality(Leaves) - 1
      BY <2>1, FS_RemoveElement
    <3> HIDE DEF L0
    <3>4. IsFiniteSet(L1) /\ Cardinality(L1) = Cardinality(Leaves)
      <4>1. IsFiniteSet(L1) /\ Cardinality(L1) = Cardinality(L0) + 1
        BY <3>2, <3>3, FS_AddElement
      <4> QED
        BY <2>2, <3>3, <4>1
    <3>5. c \notin L1
      BY <3>1, <3>2
    <3> HIDE DEF L1
    <3>6. IsFiniteSet(L2) /\ Cardinality(L2) = Cardinality(Leaves) + 1
      BY <3>4, <3>5, FS_AddElement
    <3>7. L2 \subseteq Leaves'
      BY <1>1, <3>1 DEF L0, L1
    <3> HIDE DEF L2
    <3> QED
      BY <2>1, <3>6, <3>7, FS_Subset
  <2>5. \A u \in Internal : Len(tree[u].separator) \in Nat
    BY DEF IInv, TypeOK, Internal, splitting_tree, Word
  <2>6. Len(w) \in Nat
    BY DEF Word
  <2>7. \A u \in Internal : Len(tree'[u].separator) <= Cardinality(Internal')
    BY <1>4, <2>2, <2>3, <2>5 DEF TheoryInv, SeparatorsShort
  <2>8. Len(tree'[boom].separator) <= Cardinality(Internal')
    BY <1>1, <2>2, <2>3, <2>6 DEF GoodWord
  <2>9. Cardinality(Internal') < Cardinality(Leaves')
    BY <2>2, <2>3, <2>4 DEF TheoryInv, SeparatorsShort
  <2> QED
    BY <1>1, <2>7, <2>8, <2>9 DEF SeparatorsShort
<1>8. SeparatorsValid'
  <2> SUFFICES ASSUME opt.check_validity
               PROVE  \A u \in Internal' : \A i \in DOMAIN tree'[u].children :
                        \A s, t \in tree'[u].children[i] :
                          to(s, tree'[u].separator) = to(t, tree'[u].separator)
                            => s = t
    BY <1>1, <1>5 DEF SeparatorsValid
  <2>1. ASSUME NEW i \in DOMAIN ch, NEW s \in ch[i], NEW t \in ch[i],
               to(s, w) = to(t, w)
        PROVE  s = t
    <3>1. ch[i] \in bs /\ s \in boom /\ t \in boom
      BY <1>2
    <3>2. out(s, w) = out(t, w)
      BY <1>2, <3>1
    <3> QED
      BY <2>1, <3>1, <3>2 DEF GoodWord
  <2>2. \A u \in Internal : \A i \in DOMAIN tree'[u].children :
          \A s, t \in tree'[u].children[i] :
            to(s, tree'[u].separator) = to(t, tree'[u].separator) => s = t
    BY <1>4 DEF TheoryInv, SeparatorsValid
  <2> QED
    BY <1>1, <2>1, <2>2 DEF ch
<1>9. OrderKept'
  <2> SUFFICES ASSUME opt.assert_minimal_order, ~ opt.check_validity
               PROVE  /\ \A u \in Leaves' : \A s, t \in u :
                           <<s, t>> \in EquivalentUpTo(g, current_order)
                      /\ \A u \in Internal' :
                           /\ Len(tree'[u].separator) <= current_order + 1
                           /\ \A s, t \in u : <<s, t>> \in
                                EquivalentUpTo(g, Len(tree'[u].separator) - 1)
    BY <1>1 DEF OrderKept
  <2>1. /\ \A u \in Leaves : \A s, t \in u :
             <<s, t>> \in EquivalentUpTo(g, current_order)
        /\ \A u \in Internal :
             /\ Len(tree[u].separator) <= current_order + 1
             /\ \A s, t \in u : <<s, t>> \in
                  EquivalentUpTo(g, Len(tree[u].separator) - 1)
    BY DEF TheoryInv, OrderKept
  <2>2. Len(w) = current_order + 1 /\ current_order \in Nat
    BY DEF GoodWord, IInv, TypeOK
  <2>3. Len(w) <= current_order + 1 /\ Len(w) - 1 = current_order
    BY <2>2
  <2>4. \A u \in Leaves' : \A s, t \in u :
          <<s, t>> \in EquivalentUpTo(g, current_order)
    BY <1>1, <1>2, <2>1
  <2> QED
    BY <1>1, <1>4, <2>1, <2>3, <2>4
<1>10. PrefixesAgree'
  <2> SUFFICES ASSUME ~ (opt.check_validity /\ opt.assert_minimal_order)
               PROVE  \A u \in Internal' :
                        \A k \in 1 .. Len(tree'[u].separator) - 1 :
                          \A s, t \in u :
                            out(s, SubSeq(tree'[u].separator, 1, k))
                              = out(t, SubSeq(tree'[u].separator, 1, k))
    BY <1>1, <1>5 DEF PrefixesAgree
  <2>1. \A u \in Internal : \A k \in 1 .. Len(tree'[u].separator) - 1 :
          \A s, t \in u : out(s, SubSeq(tree'[u].separator, 1, k))
                            = out(t, SubSeq(tree'[u].separator, 1, k))
    BY <1>4 DEF TheoryInv, PrefixesAgree
  <2>2. \A k \in 1 .. Len(w) - 1 : \A s, t \in boom :
          out(s, SubSeq(w, 1, k)) = out(t, SubSeq(w, 1, k))
    BY DEF GoodWord
  <2> QED
    BY <1>1, <2>1, <2>2
<1> QED
  BY <1>1, <1>6, <1>7, <1>8, <1>9, <1>10 DEF TheoryInv

-----------------------------------------------------------------------------
(* The words of both stages are good.                                      *)

(* The number of inner nodes, which bounds the separators, is a number.    *)
LEMMA InnerNodesFinite ==
  ASSUME TypeOK
  PROVE  Cardinality(Internal) \in Nat
<1>1. IsFiniteSet(Internal)
  BY NodesFinite, FS_Subset DEF Internal
<1> QED
  BY <1>1, FS_CardinalityType

(* A symbol that splits a leaf by its outputs is a good word for it.       *)
LEMMA OutputWordIsGood ==
  ASSUME IInv, TheoryInv, NEW boom \in Leaves, NEW a \in Input,
         OutputSplits(boom, a)
  PROVE  GoodWord(boom, <<a>>)
<1>1. /\ TypeOK /\ g \in Machine /\ boom \in Node /\ boom \subseteq State
      /\ Len(<<a>>) = 1
  BY DEF IInv, TypeOK, Leaves, Node
<1>2. Len(<<a>>) <= Cardinality(Internal) + 1
  BY <1>1, InnerNodesFinite
<1>3. ASSUME opt.check_validity,
             NEW s \in boom, NEW t \in boom,
             out(s, <<a>>) = out(t, <<a>>), to(s, <<a>>) = to(t, <<a>>)
      PROVE  s = t
  <2>1. is_valid(new_blocks(boom, <<a>>), a)
    BY <1>3 DEF OutputSplits
  <2>2. PICK b \in new_blocks(boom, <<a>>), c \in new_blocks(boom, <<a>>) :
          s \in b /\ t \in c
    BY <1>1, BlocksPartition
  <2>3. b = c
    BY <1>1, <1>3, <2>2, BlocksPartition
  <2>4. applyWord(g, s, <<a>>) = g[s][a] /\ applyWord(g, t, <<a>>) = g[t][a]
    BY <1>1, ApplyOne
  <2> QED
    BY <1>3, <2>1, <2>2, <2>3, <2>4 DEF is_valid, to
<1>4. opt.assert_minimal_order => Len(<<a>>) = current_order + 1
  BY <1>1 DEF OutputSplits, OutputStage
<1>5. 1 .. Len(<<a>>) - 1 = {}
  BY <1>1
<1> QED
  BY <1>2, <1>3, <1>4, <1>5 DEF GoodWord

(* A symbol in front of a prefix of the separator.                         *)
LEMMA PrefixCons ==
  ASSUME NEW a \in Input, NEW v \in Word, v # <<>>, NEW k \in 1 .. Len(v)
  PROVE  /\ SubSeq(<<a>> \o v, 1, k) \in Word
         /\ Len(SubSeq(<<a>> \o v, 1, k)) = k
         /\ k = 1 => SubSeq(<<a>> \o v, 1, k) = <<a>>
         /\ k > 1 => /\ SubSeq(v, 1, k - 1) \in Word
                     /\ SubSeq(v, 1, k - 1) # <<>>
                     /\ SubSeq(<<a>> \o v, 1, k) = <<a>> \o SubSeq(v, 1, k - 1)
<1> DEFINE w == <<a>> \o v
           p == SubSeq(w, 1, k)
           q == SubSeq(v, 1, k - 1)
<1>1. /\ w \in Word /\ Len(w) = Len(v) + 1 /\ Len(v) \in Nat /\ w[1] = a
      /\ \A i \in 1 .. Len(v) : w[i + 1] = v[i]
  BY DEF Word
<1> HIDE DEF w
<1>2. /\ p \in Word /\ Len(p) = k /\ \A i \in 1 .. k : p[i] = w[i]
  BY <1>1 DEF Word
<1>3. k = 1 => p = <<a>>
  <2> HIDE DEF p
  <2>1. k = 1 => p[1] = a
    BY <1>1, <1>2
  <2>2. \A r \in Word : Len(r) = 1 => r = <<r[1]>>
    BY DEF Word
  <2> QED
    BY <1>2, <2>1, <2>2
<1>4. ASSUME k > 1 PROVE q \in Word /\ q # <<>> /\ p = <<a>> \o q
  <2>1. /\ q \in Word /\ Len(q) = k - 1 /\ \A i \in 1 .. k - 1 : q[i] = v[i]
        /\ q # <<>>
    BY <1>1, <1>4 DEF Word
  <2> DEFINE r == <<a>> \o q
  <2>2. /\ r \in Word /\ Len(r) = k /\ r[1] = a
        /\ \A i \in 1 .. k - 1 : r[i + 1] = q[i]
    BY <2>1 DEF Word
  <2> HIDE DEF r, p, q
  <2>3. \A i \in 1 .. k : p[i] = r[i]
    <3> SUFFICES ASSUME NEW i \in 1 .. k PROVE p[i] = r[i]
      OBVIOUS
    <3>1. CASE i = 1
      BY <1>1, <1>2, <2>2, <3>1
    <3>2. CASE i # 1
      <4>1. PICK n \in 1 .. k - 1 : i = n + 1
        BY <3>2
      <4>2. p[n + 1] = w[n + 1] /\ w[n + 1] = v[n]
        BY <1>1, <1>2, <4>1
      <4>3. r[n + 1] = q[n] /\ q[n] = v[n]
        BY <2>1, <2>2
      <4> QED
        BY <4>1, <4>2, <4>3
    <3> QED
      BY <3>1, <3>2
  <2>4. p = r
    BY <1>2, <2>2, <2>3 DEF Word
  <2> QED
    BY <2>1, <2>4 DEF r
<1> QED
  BY <1>2, <1>3, <1>4 DEF w

(* A symbol and the separator of the node where its successors part make a *)
(* good word.                                                              *)
LEMMA StateWordIsGood ==
  ASSUME IInv, TheoryInv, NEW boom \in Leaves, OutputSymbols(boom) = {},
         NEW a \in Input, NEW w \in ValidStateWords(boom, a)
  PROVE  GoodWord(boom, w)
<1>1. PICK v \in Internal :
        /\ w = <<a>> \o tree[v].separator
        /\ StateStage
        /\ IsLca(v, successor_states(boom, a))
        /\ opt.assert_minimal_order => Len(tree[v].separator) = current_order
  BY DEF ValidStateWords, StateWords
<1> DEFINE sep == tree[v].separator
           ch  == tree[v].children
<1>2. /\ TypeOK /\ g \in Machine /\ boom \in Node /\ boom \subseteq State
      /\ boom \in DOMAIN tree /\ v \in DOMAIN tree /\ v \subseteq State
      /\ sep \in Word /\ sep # <<>> /\ Len(sep) \in Nat
  <2>1. /\ TypeOK /\ g \in Machine /\ boom \in DOMAIN tree /\ v \in DOMAIN tree
        /\ DOMAIN tree \subseteq Node /\ tree[v] \in splitting_tree
    BY DEF IInv, TypeOK, Leaves, Internal
  <2>2. sep \in Word /\ Len(sep) \in Nat
    BY <2>1 DEF splitting_tree, Word
  <2>3. sep # <<>>
    BY DEF IInv, LastOutputSeparates
  <2> QED
    BY <2>1, <2>2, <2>3 DEF Node
<1>3. \A s \in boom : g[s][a].to \in v /\ g[s][a].to \in State
  BY <1>1, <1>2 DEF IsLca, successor_states
<1>4. w \in Word /\ w # <<>> /\ Len(w) = Len(sep) + 1
  BY <1>1, <1>2 DEF Word
<1>5. \A s \in boom : applyWord(g, s, w) = applyWord(g, g[s][a].to, sep)
  BY <1>1, <1>2, ApplyCons
<1>6. Len(w) <= Cardinality(Internal) + 1
  <2>1. Cardinality(Internal) \in Nat
    BY <1>2, InnerNodesFinite
  <2> QED
    BY <1>2, <1>4, <2>1 DEF TheoryInv, SeparatorsShort
<1>7. ASSUME opt.check_validity, NEW s \in boom, NEW t \in boom,
             out(s, w) = out(t, w), g[s][a].to = g[t][a].to
      PROVE  s = t
  <2>1. is_valid(new_blocks(boom, w), a)
    BY <1>7 DEF ValidStateWords
  <2>2. PICK b \in new_blocks(boom, w), c \in new_blocks(boom, w) :
          s \in b /\ t \in c
    BY <1>2, BlocksPartition
  <2>3. b = c
    BY <1>2, <1>7, <2>2, BlocksPartition
  <2> QED
    BY <1>7, <2>1, <2>2, <2>3 DEF is_valid
<1>8. ASSUME opt.check_validity, NEW s \in boom, NEW t \in boom,
             out(s, w) = out(t, w), to(s, w) = to(t, w)
      PROVE  s = t
  <2> DEFINE x == g[s][a].to
             y == g[t][a].to
  <2>1. out(x, sep) = out(y, sep) /\ to(x, sep) = to(y, sep)
    BY <1>5, <1>8 DEF out, to
  <2>2. x \in v /\ y \in v
    BY <1>3
  <2> HIDE DEF x, y
  <2>3. UNION {ch[i] : i \in DOMAIN ch} = v
    BY DEF IInv, ChildrenPartition
  <2>4. PICK i \in DOMAIN ch, j \in DOMAIN ch : x \in ch[i] /\ y \in ch[j]
    BY <2>2, <2>3
  <2>5. i = j
    BY <2>1, <2>4 DEF IInv, LastOutputSeparates
  <2>6. x = y
    BY <1>8, <2>1, <2>4, <2>5 DEF TheoryInv, SeparatorsValid
  <2> QED
    BY <1>7, <1>8, <2>6 DEF x, y
<1>9. opt.assert_minimal_order => Len(w) = current_order + 1
  BY <1>1, <1>4, <1>2
<1>10. ASSUME ~ (opt.check_validity /\ opt.assert_minimal_order),
              NEW k \in 1 .. Len(w) - 1, NEW s \in boom, NEW t \in boom
       PROVE  out(s, SubSeq(w, 1, k)) = out(t, SubSeq(w, 1, k))
  <2>0. k \in 1 .. Len(sep)
    BY <1>2, <1>4
  <2>1. /\ SubSeq(w, 1, k) \in Word /\ Len(SubSeq(w, 1, k)) = k
        /\ k = 1 => SubSeq(w, 1, k) = <<a>>
        /\ k > 1 => /\ SubSeq(sep, 1, k - 1) \in Word
                    /\ SubSeq(sep, 1, k - 1) # <<>>
                    /\ SubSeq(w, 1, k) = <<a>> \o SubSeq(sep, 1, k - 1)
    BY <1>1, <1>2, <2>0, PrefixCons
  <2>2. CASE opt.assert_minimal_order
    <3>1. <<s, t>> \in EquivalentUpTo(g, current_order)
      BY <1>10, <2>2 DEF TheoryInv, OrderKept
    <3>2. current_order \in Nat /\ k <= current_order
      BY <1>1, <2>0, <2>2 DEF IInv, TypeOK
    <3>3. SubSeq(w, 1, k) # <<>>
      BY <2>1
    <3> QED
      BY <1>2, <2>1, <3>1, <3>2, <3>3, EquivalentAnswersAlike, ZenonT(60) DEF out
  <2>3. CASE ~ opt.assert_minimal_order /\ k > 1
    <3> DEFINE q == SubSeq(sep, 1, k - 1)
    <3>1. /\ applyWord(g, s, <<a>> \o q) = applyWord(g, g[s][a].to, q)
          /\ applyWord(g, t, <<a>> \o q) = applyWord(g, g[t][a].to, q)
      BY <1>2, <2>1, <2>3, ApplyCons
    <3>2. k - 1 \in 1 .. Len(sep) - 1
      BY <1>2, <2>0, <2>3
    <3>3. out(g[s][a].to, q) = out(g[t][a].to, q)
      BY <1>3, <2>3, <3>2 DEF TheoryInv, PrefixesAgree
    <3> QED
      BY <2>1, <2>3, <3>1, <3>3 DEF out
  <2>4. CASE ~ opt.assert_minimal_order /\ k = 1
    <3>1. /\ ~ OutputSplits(boom, a) /\ OutputStage
      BY <2>4 DEF OutputSymbols, OutputStage
    <3>2. ASSUME Cardinality(new_blocks(boom, <<a>>)) = 1
          PROVE  out(s, <<a>>) = out(t, <<a>>)
      <4>1. PICK b : new_blocks(boom, <<a>>) = {b}
        BY <1>2, <3>2, BlocksFinite, FS_Singleton
      <4>2. s \in b /\ t \in b
        BY <1>2, <4>1, BlocksPartition
      <4> QED
        BY <1>2, <4>1, <4>2, BlocksPartition
    <3>3. ASSUME opt.check_validity, ~ is_valid(new_blocks(boom, <<a>>), a)
          PROVE  FALSE
      <4>1. PICK b \in new_blocks(boom, <<a>>) : \E x, y \in b :
              g[x][a].to = g[y][a].to /\ x # y
        BY <3>3 DEF is_valid
      <4>2. PICK x \in b, y \in b : g[x][a].to = g[y][a].to /\ x # y
        BY <4>1
      <4>3. x \in boom /\ y \in boom
        BY <1>2, <4>2, BlocksPartition
      <4>4. out(x, w) = out(y, w)
        BY <1>5, <4>2, <4>3 DEF out
      <4> QED
        BY <1>7, <3>3, <4>2, <4>3, <4>4
    <3> QED
      BY <2>1, <2>4, <3>1, <3>2, <3>3 DEF OutputSplits
  <2> QED
    BY <2>0, <2>2, <2>3, <2>4
<1> QED
  BY <1>6, <1>8, <1>9, <1>10 DEF GoodWord

-----------------------------------------------------------------------------
(* The order is raised.                                                    *)

(* In minimal order a stuck block holds for one symbol more.               *)
LEMMA StuckIsEquivalent ==
  ASSUME IInv, TheoryInv, opt.assert_minimal_order, ~ opt.check_validity,
         NEW u \in Leaves, Cardinality(u) # 1 => Stuck(u),
         NEW s \in u, NEW t \in u
  PROVE  <<s, t>> \in EquivalentUpTo(g, current_order + 1)
<1> DEFINE n == current_order
<1>1. /\ TypeOK /\ ChildrenPartition /\ LastOutputSeparates /\ g \in Machine
      /\ u \in DOMAIN tree /\ u \in Node /\ u \subseteq State /\ IsFiniteSet(u)
      /\ n \in Nat /\ State \in DOMAIN tree
  <2>1. TypeOK /\ u \in DOMAIN tree
    BY DEF IInv, Leaves
  <2>2. u \in Node /\ g \in Machine /\ n \in Nat
    BY <2>1 DEF TypeOK
  <2> QED
    BY <2>1, <2>2, NodesFinite DEF IInv, TheoryInv, LeavesCover
<1>2. \A x \in u, a \in Input : g[x][a].to \in State
  BY <1>1 DEF Machine, Edge
<1>3. /\ \A l \in Leaves : \A x, y \in l : <<x, y>> \in EquivalentUpTo(g, n)
      /\ \A v \in Internal :
           /\ Len(tree[v].separator) <= n + 1
           /\ \A x, y \in v :
                <<x, y>> \in EquivalentUpTo(g, Len(tree[v].separator) - 1)
  BY DEF TheoryInv, OrderKept
<1>4. CASE Cardinality(u) = 1
  <2>1. s = t /\ s \in State /\ n + 1 \in Nat
    BY <1>1, <1>4, FS_Singleton
  <2> QED
    BY <1>1, <2>1, EquivalentToItself
<1>5. CASE Stuck(u)
  <2>1. \A a \in Input : ~ OutputSplits(u, a) /\ ValidStateWords(u, a) = {}
    BY <1>5 DEF Stuck, OutputSymbols, StateSymbols
  <2>2. \A x, y \in u : <<x, y>> \in EquivalentUpTo(g, n)
    BY <1>3
  <2> SUFFICES ASSUME NEW a \in Input
               PROVE  /\ g[s][a].out = g[t][a].out
                      /\ <<g[s][a].to, g[t][a].to>> \in EquivalentUpTo(g, n)
    BY <1>1, <2>2, EquivalentStep DEF StepEquivalent
  <2>3. CASE n = 0
    <3>1. Cardinality(new_blocks(u, <<a>>)) = 1
      BY <2>1, <2>3 DEF OutputSplits, OutputStage
    <3>2. PICK b : new_blocks(u, <<a>>) = {b}
      BY <1>1, <3>1, BlocksFinite, FS_Singleton
    <3>3. s \in b /\ t \in b
      BY <1>1, <3>2, BlocksPartition
    <3>4. out(s, <<a>>) = out(t, <<a>>)
      BY <1>1, <3>2, <3>3, BlocksPartition
    <3>5. applyWord(g, s, <<a>>) = g[s][a] /\ applyWord(g, t, <<a>>) = g[t][a]
      BY <1>1, ApplyOne
    <3>6. EquivalentUpTo(g, 0) = State \X State
      BY EquivalentStep
    <3> QED
      BY <1>2, <2>3, <3>4, <3>5, <3>6 DEF out
  <2>4. CASE n # 0
    <3>1. /\ n - 1 \in Nat /\ (n - 1) + 1 = n
      BY <1>1, <2>4
    <3>2. EquivalentUpTo(g, n) = StepEquivalent(g, EquivalentUpTo(g, n - 1))
      BY <3>1, EquivalentStep
    <3> HIDE DEF n
    <3>3. ASSUME NEW x \in u, NEW y \in u
          PROVE  /\ g[x][a].out = g[y][a].out
                 /\ <<g[x][a].to, g[y][a].to>> \in EquivalentUpTo(g, n - 1)
      <4>1. <<x, y>> \in StepEquivalent(g, EquivalentUpTo(g, n - 1))
        BY <2>2, <3>2
      <4> QED
        BY <4>1 DEF StepEquivalent
    <3> DEFINE X == successor_states(u, a)
    <3>4. X \in SUBSET State
      BY <1>2 DEF successor_states
    <3>5. PICK v \in DOMAIN tree : IsLca(v, X)
      BY <1>1, <3>4, LcaExists
    <3>6. g[s][a].to \in v /\ g[t][a].to \in v
      BY <3>5 DEF IsLca, successor_states
    <3>7. CASE v \in Leaves
      BY <1>3, <3>3, <3>6, <3>7
    <3>8. CASE v \in Internal
      <4> DEFINE sep == tree[v].separator
      <4>1. sep \in Word /\ sep # <<>> /\ Len(sep) \in Nat \ {0}
        <5>1. tree[v] \in splitting_tree /\ sep # <<>>
          BY <1>1, <3>8 DEF TypeOK, LastOutputSeparates, Internal
        <5> QED
          BY <5>1 DEF splitting_tree, Word
      <4>2. Len(sep) # n
        <5> SUFFICES ASSUME Len(sep) = n PROVE FALSE
          OBVIOUS
        <5>1. <<a>> \o sep \in StateWords(u, a)
          BY <1>1, <2>4, <3>5, <3>8 DEF StateWords, StateStage, n
        <5> QED
          BY <2>1, <5>1 DEF ValidStateWords
      <4>3. CASE Len(sep) = n + 1
        <5>1. Len(sep) - 1 = n
          BY <1>1, <4>3
        <5> QED
          BY <1>3, <3>3, <3>6, <3>8, <5>1
      <4>4. CASE Len(sep) <= n - 1
        <5>1. PICK x \in u, y \in u : out(g[x][a].to, sep) # out(g[y][a].to, sep)
          BY <1>1, <3>5, <3>8, LcaSeparates
        <5>2. <<g[x][a].to, g[y][a].to>> \in EquivalentUpTo(g, n - 1)
          BY <3>3
        <5>3. g[x][a].to \in State /\ g[y][a].to \in State
          BY <1>2
        <5> QED
          BY <1>1, <3>1, <4>1, <4>4, <5>1, <5>2, <5>3, EquivalentAnswersAlike
             DEF out
      <4>5. Len(sep) <= n + 1
        BY <1>3, <3>8
      <4>6. Len(sep) = n + 1 \/ Len(sep) <= n - 1
        BY <1>1, <4>1, <4>2, <4>5
      <4> QED
        BY <4>3, <4>4, <4>6
    <3> QED
      BY <3>5, <3>7, <3>8 DEF Internal
  <2> QED
    BY <2>3, <2>4
<1> QED
  BY <1>4, <1>5

(* The order is raised after a whole round without a split: a leaf that is *)
(* left has no separator of the order before, and keeps its states.        *)
LEMMA RaiseOrderKeepsTheory == IInv /\ TheoryInv /\ RaiseOrder => TheoryInv'
<1> SUFFICES ASSUME IInv, TheoryInv, RaiseOrder PROVE TheoryInv'
  OBVIOUS
<1>1. PICK boom \in Leaves :
        /\ Fruitless(boom) /\ Exhausted
        /\ split_in_current_order /\ opt.assert_minimal_order
        /\ current_order' = current_order + 1
  BY DEF RaiseOrder
<1>2. /\ Pop(boom) /\ Stuck(boom) /\ pc = "loop" /\ work # <<>>
      /\ boom = Head(work)
      /\ g' = g /\ opt' = opt /\ tree' = tree
  BY <1>1 DEF Fruitless, Pop
<1>3. /\ opt' \in Options /\ LeavesCover' /\ SeparatorsShort'
      /\ SeparatorsValid' /\ PrefixesAgree'
      /\ Leaves' = Leaves /\ Internal' = Internal
  BY <1>2, SameTreeSameTheory
<1>4. /\ Len(Tail(work)) = Len(work) - 1 /\ Len(work) \in Nat \ {0}
      /\ DOMAIN work = 1 .. Len(work) /\ work[1] = boom
      /\ days_without_progress \in Nat /\ current_order \in Nat
  BY <1>2 DEF IInv, TypeOK
<1>5. ASSUME NEW u \in Leaves, Cardinality(u) # 1 PROVE Stuck(u)
  <2>1. PICK i \in DOMAIN work : work[i] = u
    BY <1>2, <1>5 DEF IInv, QueueHoldsLeaves
  <2>2. days_without_progress >= Len(work) - 1
    BY <1>1, <1>4 DEF Exhausted
  <2>3. CASE i = 1
    BY <1>2, <1>4, <2>1, <2>3
  <2>4. CASE i # 1
    <3>1. i + days_without_progress > Len(work)
      BY <1>4, <2>2, <2>4
    <3> QED
      BY <1>1, <1>2, <2>1, <3>1 DEF IInv, VisitedAreStuck
  <2> QED
    BY <2>3, <2>4
<1>6. OrderKept'
  <2> SUFFICES ASSUME ~ opt.check_validity
               PROVE  /\ \A u \in Leaves : \A s, t \in u :
                           <<s, t>> \in EquivalentUpTo(g, current_order + 1)
                      /\ \A u \in Internal :
                           /\ Len(tree[u].separator) <= (current_order + 1) + 1
                           /\ \A s, t \in u : <<s, t>> \in
                                EquivalentUpTo(g, Len(tree[u].separator) - 1)
    BY <1>1, <1>2, <1>3 DEF OrderKept
  <2>1. \A u \in Leaves : \A s, t \in u :
          <<s, t>> \in EquivalentUpTo(g, current_order + 1)
    BY <1>1, <1>5, StuckIsEquivalent
  <2>2. \A u \in Internal : Len(tree[u].separator) \in Nat
    BY DEF IInv, TypeOK, Internal, splitting_tree, Word
  <2> QED
    BY <1>1, <1>4, <2>1, <2>2 DEF TheoryInv, OrderKept
<1> QED
  BY <1>3, <1>6 DEF TheoryInv

(* The invariant is inductive, together with the first one.                *)
THEOREM TheoryInvariance == Spec => []TheoryInv
<1>1. IInv /\ TheoryInv /\ [Next]_vars => TheoryInv'
  <2> SUFFICES ASSUME IInv, TheoryInv, [Next]_vars PROVE TheoryInv'
    OBVIOUS
  <2>1. ASSUME SplitOnOutput PROVE TheoryInv'
    <3>1. PICK boom \in Leaves, a \in Input :
            OutputSplits(boom, a) /\ Split(boom, <<a>>)
      BY <2>1 DEF SplitOnOutput, FirstTried, OutputSymbols
    <3>2. boom \in Node
      BY DEF IInv, TypeOK, Leaves
    <3>3. \E b, c \in new_blocks(boom, <<a>>) : b # c
      BY <3>1, <3>2, BlocksFinite DEF OutputSplits
    <3>4. <<a>> \in Word /\ <<a>> # <<>>
      BY DEF Word
    <3>5. GoodWord(boom, <<a>>)
      BY <3>1, OutputWordIsGood
    <3> QED
      BY <3>1, <3>3, <3>4, <3>5, SplitKeepsTheory
  <2>2. ASSUME SplitOnState PROVE TheoryInv'
    <3>1. PICK boom \in Leaves, a \in Input :
            /\ OutputSymbols(boom) = {}
            /\ \E w \in ValidStateWords(boom, a) : Split(boom, w)
      BY <2>2 DEF SplitOnState, FirstTried, StateSymbols
    <3>2. PICK w \in ValidStateWords(boom, a) : Split(boom, w)
      BY <3>1
    <3>3. boom \in DOMAIN tree /\ w \in StateWords(boom, a)
      BY DEF Leaves, ValidStateWords
    <3>4. \E b, c \in new_blocks(boom, w) : b # c
      BY <3>3, StateSplitSeparates DEF IInv
    <3>5. w \in Word /\ w # <<>>
      BY <3>3, WordsTried DEF IInv
    <3>6. GoodWord(boom, w)
      BY <3>1, StateWordIsGood
    <3> QED
      BY <3>2, <3>4, <3>5, <3>6, SplitKeepsTheory
  <2>3. ASSUME \/ SkipSingleton \/ Requeue \/ GiveUp \/ Finish \/ UNCHANGED vars
        PROVE  TheoryInv'
    <3>1. g' = g /\ opt' = opt /\ tree' = tree /\ current_order' = current_order
      BY <2>3 DEF SkipSingleton, Requeue, GiveUp, Fruitless, Finish, vars, result
    <3> QED
      BY <3>1, SameTreeSameTheory DEF TheoryInv
  <2> QED
    BY <2>1, <2>2, <2>3, RaiseOrderKeepsTheory DEF Next
<1> QED
  BY InitTheoryInv, Invariance, <1>1, PTL DEF Spec

-----------------------------------------------------------------------------
(* The theorems on separators.                                             *)

(* Under check_validity no split merges two states it does not separate,   *)
(* though is_valid looks at one symbol only.                               *)
THEOREM SplitsAreValid == Spec => []SeparatorsValid
<1>1. TheoryInv => SeparatorsValid
  BY DEF TheoryInv
<1> QED
  BY <1>1, TheoryInvariance, PTL

(* A separator tells the children of its node apart with its last output,  *)
(* and nothing before: for all options of which at most one of the checks  *)
(* is on, as in all six styles of the code.                                *)
THEOREM SeparatorsSeparate ==
  ASSUME \A o \in Options : ~ (o.check_validity /\ o.assert_minimal_order)
  PROVE  Spec => []SeparatorSeparates
<1>1. IInv /\ TheoryInv => SeparatorSeparates
  BY DEF IInv, TheoryInv, LastOutputSeparates, PrefixesAgree, SeparatorSeparates
<1> QED
  BY <1>1, Invariance, TheoryInvariance, PTL

(* In minimal order no shorter word separates the children of a node,      *)
(* although the days are not counted anew when the order is raised.        *)
THEOREM SeparatorsAreMinimal ==
  ASSUME \A o \in Options : ~ (o.check_validity /\ o.assert_minimal_order)
  PROVE  Spec => []SeparatorsMinimal
<1>1. IInv /\ TheoryInv => SeparatorsMinimal
  <2> SUFFICES ASSUME IInv, TheoryInv, opt.assert_minimal_order,
                      NEW u \in Internal,
                      NEW i \in DOMAIN tree[u].children,
                      NEW j \in DOMAIN tree[u].children,
                      NEW s \in tree[u].children[i], NEW t \in tree[u].children[j]
               PROVE  <<s, t>> \in EquivalentUpTo(g, Len(tree[u].separator) - 1)
    BY DEF SeparatorsMinimal
  <2>1. ~ opt.check_validity
    BY DEF TheoryInv
  <2>2. UNION {tree[u].children[k] : k \in DOMAIN tree[u].children} = u
    BY DEF IInv, ChildrenPartition
  <2>3. s \in u /\ t \in u
    BY <2>2
  <2> QED
    BY <2>1, <2>3 DEF TheoryInv, OrderKept
<1> QED
  BY <1>1, Invariance, TheoryInvariance, PTL

-----------------------------------------------------------------------------
(* The leaves of a Hopcroft tree.                                          *)

(* Leaves do not overlap, so there are no more of them than states.        *)
LEMMA FewLeaves ==
  ASSUME TypeOK, TreeShape
  PROVE  /\ \A b, c \in Leaves : b \cap c # {} => b = c
         /\ Cardinality(Leaves) \in Nat /\ Cardinality(Leaves) <= N
<1>1. /\ IsFiniteSet(State) /\ Cardinality(State) = N
      /\ \A b \in Leaves : b # {} /\ b \subseteq State /\ b \in DOMAIN tree
  BY NodesFinite DEF Leaves
<1>2. \A b, c \in Leaves : b \cap c # {} => b = c
  <2> SUFFICES ASSUME NEW b \in Leaves, NEW c \in Leaves, b \cap c # {}
               PROVE  b = c
    OBVIOUS
  <2>1. b \in DOMAIN tree /\ c \in DOMAIN tree
    BY <1>1
  <2>2. b \subseteq c \/ c \subseteq b
    BY <2>1 DEF TreeShape
  <2> QED
    BY <2>1, <2>2 DEF TreeShape
<1> DEFINE f == [b \in Leaves |-> CHOOSE s \in State : s \in b]
<1>3. \A b \in Leaves : f[b] \in State /\ f[b] \in b
  <2> SUFFICES ASSUME NEW b \in Leaves PROVE f[b] \in State /\ f[b] \in b
    OBVIOUS
  <2>1. \E s \in State : s \in b
    BY <1>1
  <2> QED
    BY <2>1
<1>4. f \in Injection(Leaves, State)
  <2>1. f \in [Leaves -> State]
    BY <1>3
  <2> HIDE DEF f
  <2>2. \A b, c \in Leaves : f[b] = f[c] => b = c
    BY <1>2, <1>3
  <2>3. IsInjective(f)
    BY <2>1, <2>2 DEF IsInjective
  <2> QED
    BY <2>1, <2>3 DEF Injection
<1>5. IsFiniteSet(Leaves) /\ Cardinality(Leaves) <= Cardinality(State)
  BY <1>1, <1>4, FS_Injection
<1> QED
  BY <1>1, <1>2, <1>5, FS_CardinalityType

(* Two states in different leaves are told apart by a separator of fewer   *)
(* than N symbols.                                                         *)
LEMMA LeavesToldApart ==
  ASSUME IInv, TheoryInv, NEW b \in Leaves, NEW c \in Leaves, b # c,
         NEW s \in b, NEW t \in c
  PROVE  <<s, t>> \notin EquivalentUpTo(g, N - 1)
<1>1. /\ TypeOK /\ TreeShape /\ ChildrenPartition /\ g \in Machine
      /\ State \in DOMAIN tree
      /\ \A l \in Leaves : l \subseteq State
  BY NodesFinite DEF IInv, TheoryInv, LeavesCover, TypeOK, Leaves
<1>2. \A l, d \in Leaves : l \cap d # {} => l = d
  BY <1>1, FewLeaves
<1>3. s \in State /\ t \in State /\ {s, t} \in SUBSET State
  BY <1>1
<1>4. PICK v \in DOMAIN tree : IsLca(v, {s, t})
  BY <1>1, <1>3, LcaExists
<1>5. v \in Internal
  <2> SUFFICES ASSUME v \in Leaves PROVE FALSE
    BY DEF Internal
  <2>1. s \in v /\ t \in v
    BY <1>4 DEF IsLca
  <2>2. v = b /\ v = c
    BY <1>2, <2>1
  <2> QED
    BY <2>2
<1> DEFINE sep == tree[v].separator
           ch  == tree[v].children
<1>6. UNION {ch[i] : i \in DOMAIN ch} = v
  BY <1>1, <1>5 DEF ChildrenPartition
<1>7. PICK i \in DOMAIN ch, j \in DOMAIN ch : s \in ch[i] /\ t \in ch[j]
  BY <1>4, <1>6 DEF IsLca
<1>8. i # j
  BY <1>4, <1>7 DEF IsLca
<1>9. sep # <<>> /\ out(s, sep) # out(t, sep)
  BY <1>5, <1>7, <1>8 DEF IInv, LastOutputSeparates
<1>10. sep \in Word /\ Len(sep) \in Nat
  <2>1. tree[v] \in splitting_tree
    BY <1>1, <1>4 DEF TypeOK
  <2> QED
    BY <2>1 DEF splitting_tree, Word
<1>11. Len(sep) <= N - 1
  <2>1. Cardinality(Leaves) \in Nat /\ Cardinality(Leaves) <= N
    BY <1>1, FewLeaves
  <2>2. Cardinality(Internal) \in Nat
    BY <1>1, InnerNodesFinite
  <2> QED
    BY <1>5, <1>10, <2>1, <2>2, SizesAssumption DEF TheoryInv, SeparatorsShort
<1>12. N - 1 \in Nat
  BY SizesAssumption
<1> QED
  BY <1>1, <1>3, <1>9, <1>10, <1>11, <1>12, EquivalentAnswersAlike DEF out

(* When nothing is left to split, states in one leaf are equivalent.       *)
LEMMA LeavesAreEquivalent ==
  ASSUME IInv, LeavesCover,
         ~ opt.check_validity, ~ opt.assert_minimal_order,
         \A l \in Leaves : Cardinality(l) # 1 => Stuck(l),
         NEW b \in Leaves, NEW s \in b, NEW t \in b, NEW k \in Nat
  PROVE  <<s, t>> \in EquivalentUpTo(g, k)
<1> DEFINE E == {p \in State \X State : \E l \in Leaves : {p[1], p[2]} \subseteq l}
<1>1. \A l \in Leaves : l \subseteq State
  BY NodesFinite DEF IInv, Leaves
<1>2. ASSUME NEW p \in E, NEW a \in Input
      PROVE  /\ g[p[1]][a].out = g[p[2]][a].out
             /\ <<g[p[1]][a].to, g[p[2]][a].to>> \in E
  <2>1. PICK l \in Leaves : p[1] \in l /\ p[2] \in l
    BY <1>2
  <2>2. /\ g[p[1]][a].out = g[p[2]][a].out
        /\ \E d \in Leaves : {g[p[1]][a].to, g[p[2]][a].to} \subseteq d
    BY <2>1, StuckIsStable
  <2>3. g[p[1]][a].to \in State /\ g[p[2]][a].to \in State
    BY <1>1, <2>2
  <2> QED
    BY <2>2, <2>3
<1>3. E \in SUBSET (State \X State) /\ <<s, t>> \in E
  BY <1>1
<1> HIDE DEF E
<1> QED
  BY <1>2, <1>3, StableIsEquivalent

(* The leaves of a Hopcroft tree are the classes of equivalent states,     *)
(* for every machine and whatever the order of the inputs was.             *)
THEOREM HopcroftLeavesAreClasses == Spec => []LeavesAreClasses
<1>1. IInv /\ TheoryInv => LeavesAreClasses
  <2> SUFFICES ASSUME IInv, TheoryInv, pc = "returned",
                      ~ opt.check_validity, ~ opt.assert_minimal_order
               PROVE  Leaves = Classes(g)
    BY DEF LeavesAreClasses
  <2> DEFINE class(s) == {t \in State : <<s, t>> \in Equivalence(g)}
  <2>1. /\ TypeOK /\ TreeShape /\ LeavesCover /\ N - 1 \in Nat
        /\ \A l \in Leaves : l \subseteq State /\ l # {}
    BY NodesFinite, SizesAssumption DEF IInv, TheoryInv, Leaves
  <2>2. \A l, d \in Leaves : l \cap d # {} => l = d
    BY <2>1, FewLeaves
  <2>3. \A l \in Leaves : Cardinality(l) # 1 => Stuck(l)
    BY DEF IInv, NothingLeftToSplit
  <2>4. \A s \in State : \E b \in Leaves : s \in b
    BY <2>1 DEF LeavesCover
  <2>5. ASSUME NEW b \in Leaves, NEW s \in b PROVE b = class(s)
    <3>1. ASSUME NEW t \in b PROVE t \in class(s)
      <4>1. <<s, t>> \in EquivalentUpTo(g, N - 1)
        BY <2>1, <2>3, LeavesAreEquivalent
      <4> QED
        BY <2>1, <4>1 DEF Equivalence
    <3>2. ASSUME NEW t \in class(s) PROVE t \in b
      <4>1. PICK c \in Leaves : t \in c
        BY <2>4
      <4>2. <<s, t>> \in EquivalentUpTo(g, N - 1)
        BY DEF Equivalence
      <4> QED
        BY <4>1, <4>2, LeavesToldApart
    <3> HIDE DEF class
    <3> QED
      BY <3>1, <3>2
  <2>6. Classes(g) = {class(s) : s \in State}
    BY DEF Classes
  <2> HIDE DEF class
  <2>7. \A b \in Leaves : \E s \in State : b = class(s)
    BY <2>1, <2>5
  <2>8. \A s \in State : \E b \in Leaves : b = class(s)
    BY <2>4, <2>5
  <2> QED
    BY <2>6, <2>7, <2>8
<1> QED
  BY <1>1, Invariance, TheoryInvariance, PTL

-----------------------------------------------------------------------------
(* The refinement.                                                         *)

(* One turn that splits is one division of the partition, by the first     *)
(* symbol of the word.                                                     *)
LEMMA SplitRefines ==
  ASSUME IInv, NEW boom \in Leaves, NEW a \in Input, NEW w \in Word,
         \E b, c \in new_blocks(boom, w) : b # c,
         Split(boom, w), pc = "loop",
         \A s, t \in boom : out(s, w) # out(t, w) =>
           \/ g[s][a].out # g[t][a].out
           \/ \A l \in Leaves : ~ ({g[s][a].to, g[t][a].to} \subseteq l)
  PROVE  Refinement!Refine
<1> DEFINE bs == new_blocks(boom, w)
<1>1. /\ g' = g /\ opt' = opt /\ pc' = pc /\ boom \in Node
      /\ \A b \in bs : b \notin DOMAIN tree
      /\ Leaves' = (Leaves \ {boom}) \cup bs
  BY SplitTree DEF IInv, Split
<1>2. /\ \A b \in bs : b \in Node /\ b \subseteq boom
      /\ \A b, c \in bs : b \cap c # {} => b = c
      /\ UNION bs = boom
      /\ \A b, c \in bs : \A s \in b, t \in c : b = c <=> out(s, w) = out(t, w)
      /\ boom \notin bs
  BY <1>1, BlocksPartition, BlocksFinite
<1> HIDE DEF bs
<1>3. Leaves' \ (Leaves \ {boom}) = bs /\ Leaves \ {boom} \subseteq Leaves'
  BY <1>1 DEF Leaves
<1>4. ASSUME NEW c \in bs, NEW d \in bs, c # d, NEW s \in c, NEW t \in d
      PROVE  Refinement!TellsApart(a, s, t)
  <2>1. s \in boom /\ t \in boom /\ out(s, w) # out(t, w)
    BY <1>2, <1>4
  <2> QED
    BY <2>1 DEF Refinement!TellsApart
<1>5. Refinement!Divides(boom, bs)
  <2>1. {} \notin bs
    BY <1>2 DEF Node
  <2>2. a \in Refinement!Input
    BY DEF Refinement!Input, Input
  <2> QED
    BY <1>2, <1>4, <2>1, <2>2 DEF Refinement!Divides
<1>6. Refinement!Divides(boom, Leaves' \ (Leaves \ {boom}))
  BY <1>3, <1>5
<1>7. pc # "returned" /\ pc' # "returned"
  BY <1>1
<1>8. /\ (opt.check_validity \/ opt.assert_minimal_order)'
         = (opt.check_validity \/ opt.assert_minimal_order)
      /\ (pc = "returned")' = (pc = "returned")
  BY <1>1
<1>9. UNCHANGED <<g, opt.check_validity \/ opt.assert_minimal_order,
                  pc = "returned">>
  BY <1>1, <1>8
<1>10. Leaves \ {boom} \subseteq Leaves'
  BY <1>3
<1> QED
  BY <1>6, <1>7, <1>9, <1>10 DEF Refinement!Refine

(* A split by output is a step of the abstract refinement of a partition.  *)
LEMMA OutputSplitRefines == IInv /\ SplitOnOutput => Refinement!Refine
<1> SUFFICES ASSUME IInv, SplitOnOutput PROVE Refinement!Refine
  OBVIOUS
<1>1. PICK boom \in Leaves, a \in Input :
        Pop(boom) /\ OutputSplits(boom, a) /\ Split(boom, <<a>>)
  BY DEF SplitOnOutput, FirstTried, OutputSymbols
<1>2. boom \in Node /\ boom \subseteq State /\ g \in Machine
  BY DEF IInv, TypeOK, Leaves, Node
<1>3. \E b, c \in new_blocks(boom, <<a>>) : b # c
  BY <1>1, <1>2, BlocksFinite DEF OutputSplits
<1>4. <<a>> \in Word
  BY DEF Word
<1>5. \A s \in boom : applyWord(g, s, <<a>>) = g[s][a]
  BY <1>2, ApplyOne
<1>6. pc = "loop"
  BY <1>1 DEF Pop
<1>7. \A s, t \in boom : out(s, <<a>>) # out(t, <<a>>) =>
        g[s][a].out # g[t][a].out
  BY <1>5 DEF out
<1> QED
  BY <1>1, <1>3, <1>4, <1>6, <1>7, SplitRefines

(* So is a split by the states reached.                                    *)
LEMMA StateSplitRefines == IInv /\ SplitOnState => Refinement!Refine
<1> SUFFICES ASSUME IInv, SplitOnState PROVE Refinement!Refine
  OBVIOUS
<1>1. PICK boom \in Leaves, a \in Input : \E w \in StateWords(boom, a) :
        Pop(boom) /\ Split(boom, w)
  BY DEF SplitOnState, FirstTried, StateSymbols, ValidStateWords
<1>2. PICK w \in StateWords(boom, a) : Pop(boom) /\ Split(boom, w)
  BY <1>1
<1>3. /\ TypeOK /\ TreeShape /\ ChildrenPartition /\ LastOutputSeparates
      /\ boom \in DOMAIN tree /\ pc = "loop"
  BY <1>2 DEF IInv, Leaves, Pop
<1>4. \E b, c \in new_blocks(boom, w) : b # c
  BY <1>3, StateSplitSeparates
<1>5. w \in Word
  BY <1>3, WordsTried
<1>6. PICK v \in Internal :
        w = <<a>> \o tree[v].separator /\ IsLca(v, successor_states(boom, a))
  BY DEF StateWords
<1> DEFINE sep == tree[v].separator
           ch  == tree[v].children
<1>7. /\ g \in Machine /\ boom \subseteq State /\ sep \in Word /\ sep # <<>>
  <2>1. g \in Machine /\ tree[v] \in splitting_tree /\ boom \in Node
    BY <1>3 DEF TypeOK, Internal
  <2>2. sep # <<>>
    BY <1>3 DEF LastOutputSeparates
  <2> QED
    BY <2>1, <2>2 DEF splitting_tree, Node
<1>8. ASSUME NEW s \in boom, NEW t \in boom, out(s, w) # out(t, w),
             NEW l \in Leaves
      PROVE  ~ ({g[s][a].to, g[t][a].to} \subseteq l)
  <2> DEFINE x == g[s][a].to
             y == g[t][a].to
  <2>1. out(x, sep) # out(y, sep)
    BY <1>6, <1>7, <1>8, ApplyCons DEF out
  <2>2. x \in v /\ y \in v
    BY <1>6 DEF IsLca, successor_states
  <2> HIDE DEF x, y
  <2>3. UNION {ch[i] : i \in DOMAIN ch} = v
    BY <1>3 DEF ChildrenPartition
  <2>4. PICK i \in DOMAIN ch, j \in DOMAIN ch : x \in ch[i] /\ y \in ch[j]
    BY <2>2, <2>3
  <2>5. i # j
    BY <1>3, <2>1, <2>4 DEF LastOutputSeparates
  <2>6. ~ ({x, y} \subseteq l)
    BY <1>3, <2>4, <2>5, ChildrenSeparateLeaves
  <2> QED
    BY <2>6 DEF x, y
<1> QED
  BY <1>2, <1>3, <1>4, <1>5, <1>8, SplitRefines

(* The function returns when the partition is stable, or when a constraint *)
(* on the splits was asked for.                                            *)
LEMMA ReturnRefines ==
  IInv /\ TheoryInv /\ IInv' /\ (GiveUp \/ Finish) => Refinement!Stop
<1> SUFFICES ASSUME IInv, TheoryInv, IInv', GiveUp \/ Finish
             PROVE  Refinement!Stop
  OBVIOUS
<1>1. /\ g' = g /\ opt' = opt /\ tree' = tree /\ current_order' = current_order
      /\ pc = "loop" /\ pc' = "returned"
  BY DEF GiveUp, Fruitless, Pop, Finish, result
<1>2. Leaves' = Leaves
  BY <1>1 DEF Leaves
<1>3. ASSUME ~ (opt.check_validity \/ opt.assert_minimal_order)
      PROVE  Refinement!Stable
  <2>1. \A u \in Leaves : Cardinality(u) # 1 => Stuck(u)'
    BY <1>1, <1>2, <1>3 DEF IInv, NothingLeftToSplit
  <2>2. \A u \in Leaves : Cardinality(u) # 1 => Stuck(u)
    BY <1>1, <2>1, StuckDependsOnTree
  <2>3. ASSUME NEW b \in Leaves, NEW s \in b, NEW t \in b, NEW a \in Input
        PROVE  ~ Refinement!TellsApart(a, s, t)
    <3>1. /\ g[s][a].out = g[t][a].out
          /\ \E l \in Leaves : {g[s][a].to, g[t][a].to} \subseteq l
      BY <1>3, <2>2, StuckIsStable DEF TheoryInv
    <3> QED
      BY <3>1 DEF Refinement!TellsApart
  <2> QED
    BY <2>3 DEF Refinement!Stable, Refinement!Input, Input
<1> QED
  BY <1>1, <1>2, <1>3 DEF Refinement!Stop

(* The loop implements the refinement of a partition, whatever the order   *)
(* of queue and inputs, the cache and the counters do.                     *)
THEOREM Implementation == Spec => RefinesPartition
<1>1. Init => Refinement!Init
  <2> SUFFICES ASSUME Init PROVE Refinement!Init
    OBVIOUS
  <2>1. /\ g \in Machines /\ opt \in options /\ pc = "loop"
        /\ DOMAIN tree = {State} /\ tree[State] = Leaf(0)
    BY OptionsAssumption DEF Init
  <2>2. Leaves = {State}
    BY <2>1 DEF Leaves, Leaf
  <2>3. Leaves = {Refinement!State}
    BY <2>2 DEF Refinement!State, State
  <2>4. (opt.check_validity \/ opt.assert_minimal_order) \in BOOLEAN
    OBVIOUS
  <2> QED
    BY <2>1, <2>3, <2>4 DEF Refinement!Init
<1>2. IInv /\ TheoryInv /\ IInv' /\ [Next]_vars =>
        [Refinement!Refine \/ Refinement!Stop]_Refinement!refinement_vars
  <2> SUFFICES ASSUME IInv, TheoryInv, IInv', [Next]_vars
               PROVE  \/ Refinement!Refine \/ Refinement!Stop
                      \/ UNCHANGED Refinement!refinement_vars
    OBVIOUS
  <2>1. ASSUME SkipSingleton \/ Requeue \/ RaiseOrder \/ UNCHANGED vars
        PROVE  UNCHANGED Refinement!refinement_vars
    <3>1. g' = g /\ opt' = opt /\ tree' = tree /\ pc' = pc
      BY <2>1 DEF SkipSingleton, Requeue, RaiseOrder, Fruitless, vars, result
    <3>2. Leaves' = Leaves
      BY <3>1 DEF Leaves
    <3> QED
      BY <3>1, <3>2 DEF Refinement!refinement_vars
  <2> QED
    BY <2>1, OutputSplitRefines, StateSplitRefines, ReturnRefines DEF Next
<1> QED
  BY <1>1, <1>2, Invariance, TheoryInvariance, PTL
     DEF Spec, RefinesPartition, Refinement!Spec

-----------------------------------------------------------------------------
(* Adaptive distinguishing sequences: a complete tree leads to one, and an *)
(* incomplete one means that there is none.                                *)

Singletons == {{}} \cup {{s} : s \in State}

(* f is the chain of the sets that are resolved in up to k symbols.        *)
IsResolution(m, k, f) ==
  f = [n \in 0 .. k |-> IF n = 0 THEN Singletons ELSE StepResolvable(m, f[n - 1])]

(* The chain of these sets exists for every length.                        *)
LEMMA ResolutionExists ==
  ASSUME NEW m, NEW k \in Nat
  PROVE  \E f : IsResolution(m, k, f)
<1> DEFINE S == {n \in Nat : \E f : IsResolution(m, n, f)}
<1>1. 0 \in S
  <2>1. IsResolution(m, 0, [n \in 0 .. 0 |-> Singletons])
    BY DEF IsResolution
  <2> QED
    BY <2>1
<1>2. ASSUME NEW n \in Nat, n \in S PROVE n + 1 \in S
  <2>1. PICK f : IsResolution(m, n, f)
    BY <1>2
  <2> DEFINE h == [i \in 0 .. n + 1 |-> IF i = n + 1 THEN StepResolvable(m, f[n])
                                                     ELSE f[i]]
  <2>2. \A i \in 0 .. n : f[i] = IF i = 0 THEN Singletons
                                          ELSE StepResolvable(m, f[i - 1])
    BY <2>1 DEF IsResolution
  <2>3. \A i \in 0 .. n + 1 : h[i] = IF i = n + 1 THEN StepResolvable(m, f[n])
                                                  ELSE f[i]
    OBVIOUS
  <2>4. DOMAIN h = 0 .. n + 1 /\ h = [i \in 0 .. n + 1 |-> h[i]]
    OBVIOUS
  <2> HIDE DEF h
  <2>5. ASSUME NEW i \in 0 .. n + 1
        PROVE  h[i] = IF i = 0 THEN Singletons ELSE StepResolvable(m, h[i - 1])
    <3>1. CASE i = n + 1
      <4>1. n \in 0 .. n + 1 /\ n # n + 1 /\ i - 1 = n /\ i # 0
        BY <3>1
      <4>2. h[i] = StepResolvable(m, f[n]) /\ h[n] = f[n]
        BY <2>3, <3>1, <4>1
      <4> QED
        BY <4>1, <4>2
    <3>2. CASE i # n + 1 /\ i # 0
      <4>1. i \in 0 .. n /\ i - 1 \in 0 .. n + 1 /\ i - 1 # n + 1
        BY <3>2
      <4>2. h[i] = f[i] /\ h[i - 1] = f[i - 1]
        BY <2>3, <3>2, <4>1
      <4> QED
        BY <2>2, <3>2, <4>1, <4>2
    <3>3. CASE i = 0
      <4>1. 0 \in 0 .. n + 1 /\ 0 # n + 1 /\ 0 \in 0 .. n
        OBVIOUS
      <4> QED
        BY <2>2, <2>3, <3>3, <4>1
    <3> QED
      BY <3>1, <3>2, <3>3
  <2>6. IsResolution(m, n + 1, h)
    BY <2>4, <2>5 DEF IsResolution
  <2> QED
    BY <2>6
<1> HIDE DEF S
<1>3. k \in S
  BY <1>1, <1>2, NatSetInduction
<1> QED
  BY <1>3 DEF S

(* Resolvable is the last set of any chain that is long enough.            *)
LEMMA ResolvableIsChain ==
  ASSUME NEW m, NEW k \in Nat, NEW f, IsResolution(m, k, f), NEW n \in 0 .. k
  PROVE  Resolvable(m, n) = f[n]
<1> DEFINE res == CHOOSE h : IsResolution(m, n, h)
<1>1. IsResolution(m, n, res)
  BY ResolutionExists
<1>2. Resolvable(m, n) = res[n]
  BY DEF Resolvable, IsResolution, Singletons
<1> HIDE DEF res
<1>3. \A i \in 0 .. n : res[i] = IF i = 0 THEN Singletons
                                          ELSE StepResolvable(m, res[i - 1])
  BY <1>1 DEF IsResolution
<1>4. \A i \in 0 .. k : f[i] = IF i = 0 THEN Singletons
                                        ELSE StepResolvable(m, f[i - 1])
  BY DEF IsResolution
<1> DEFINE S == {i \in Nat : i <= n => res[i] = f[i]}
<1>5. 0 \in S
  BY <1>3, <1>4
<1>6. ASSUME NEW i \in Nat, i \in S PROVE i + 1 \in S
  <2> SUFFICES ASSUME i + 1 <= n PROVE res[i + 1] = f[i + 1]
    OBVIOUS
  <2>1. /\ i + 1 \in 0 .. n /\ i + 1 \in 0 .. k /\ i + 1 # 0
        /\ (i + 1) - 1 = i
    OBVIOUS
  <2>2. res[i] = f[i]
    BY <1>6
  <2>3. /\ res[i + 1] = StepResolvable(m, res[i])
        /\ f[i + 1] = StepResolvable(m, f[i])
    BY <1>3, <1>4, <2>1
  <2> QED
    BY <2>2, <2>3
<1> HIDE DEF S
<1>7. n \in S
  BY <1>5, <1>6, NatSetInduction
<1> QED
  BY <1>2, <1>7 DEF S

(* No symbol resolves single states, and one more symbol what it divides.  *)
LEMMA ResolvableStep ==
  ASSUME NEW m, NEW k \in Nat
  PROVE  /\ Resolvable(m, 0) = Singletons
         /\ Resolvable(m, k + 1) = StepResolvable(m, Resolvable(m, k))
<1>1. PICK f : IsResolution(m, k + 1, f)
  BY ResolutionExists
<1>2. /\ Resolvable(m, 0) = f[0]
      /\ Resolvable(m, k) = f[k]
      /\ Resolvable(m, k + 1) = f[k + 1]
  BY <1>1, ResolvableIsChain
<1>3. f[0] = Singletons /\ f[k + 1] = StepResolvable(m, f[k])
  <2>1. /\ 0 \in 0 .. k + 1 /\ k + 1 \in 0 .. k + 1
        /\ k + 1 # 0 /\ (k + 1) - 1 = k
    OBVIOUS
  <2> QED
    BY <1>1, <2>1 DEF IsResolution
<1> QED
  BY <1>2, <1>3

(* More time resolves no fewer sets, single states need no time at all.    *)
LEMMA ResolvableGrows ==
  ASSUME NEW m, NEW k \in Nat, NEW l \in Nat
  PROVE  /\ Singletons \subseteq Resolvable(m, k)
         /\ Resolvable(m, k) \subseteq Resolvable(m, k + l)
<1>1. \A n \in Nat : Resolvable(m, n) \subseteq Resolvable(m, n + 1)
  BY ResolvableStep DEF StepResolvable
<1> DEFINE S == {n \in Nat : Singletons \subseteq Resolvable(m, n)}
           T == {n \in Nat : Resolvable(m, k) \subseteq Resolvable(m, k + n)}
<1>2. 0 \in S
  BY ResolvableStep
<1>3. \A n \in Nat : n \in S => n + 1 \in S
  BY <1>1
<1>4. 0 \in T
  OBVIOUS
<1>5. ASSUME NEW n \in Nat, n \in T PROVE n + 1 \in T
  <2>1. k + n \in Nat /\ (k + n) + 1 = k + (n + 1)
    OBVIOUS
  <2> QED
    BY <1>1, <1>5, <2>1
<1> HIDE DEF S, T
<1>6. k \in S
  BY <1>2, <1>3, NatSetInduction
<1>7. l \in T
  BY <1>4, <1>5, NatSetInduction
<1> QED
  BY <1>6, <1>7 DEF S, T

(* What resolves a set resolves every part of it.                          *)
LEMMA ResolvableParts ==
  ASSUME NEW m, NEW k \in Nat
  PROVE  \A B \in Resolvable(m, k) : \A C \in SUBSET B :
           B \subseteq State /\ C \in Resolvable(m, k)
<1> DEFINE Closed(n) == \A B \in Resolvable(m, n) : \A C \in SUBSET B :
                          B \subseteq State /\ C \in Resolvable(m, n)
           S == {n \in Nat : Closed(n)}
<1>1. 0 \in S
  <2>1. \A B \in Singletons : \A C \in SUBSET B : B \subseteq State /\ C \in Singletons
    BY DEF Singletons
  <2> QED
    BY <2>1, ResolvableStep
<1>2. ASSUME NEW n \in Nat, n \in S PROVE n + 1 \in S
  <2> DEFINE R == Resolvable(m, n)
  <2>1. Closed(n)
    BY <1>2
  <2>2. Resolvable(m, n + 1) = StepResolvable(m, R)
    BY ResolvableStep
  <2>3. ASSUME NEW B \in StepResolvable(m, R), NEW C \in SUBSET B
        PROVE  B \subseteq State /\ C \in StepResolvable(m, R)
    <3>1. CASE B \in R
      BY <2>1, <3>1 DEF StepResolvable
    <3>2. CASE B \notin R
      <4>1. B \subseteq State
        BY <3>2 DEF StepResolvable
      <4>2. PICK a \in Input : ~ Merges(m, B, a) /\ \A y \in Output : After(m, B, a, y) \in R
        BY <3>2 DEF StepResolvable
      <4>3. ~ Merges(m, C, a)
        BY <4>2 DEF Merges
      <4>4. \A y \in Output : After(m, C, a, y) \in SUBSET After(m, B, a, y)
        BY DEF After
      <4>5. \A y \in Output : After(m, C, a, y) \in R
        BY <2>1, <4>2, <4>4
      <4> QED
        BY <4>1, <4>3, <4>5 DEF StepResolvable
    <3> QED
      BY <3>1, <3>2
  <2> HIDE DEF R
  <2>4. Closed(n + 1)
    BY <2>2, <2>3
  <2> HIDE DEF Closed
  <2> QED
    BY <2>4
<1> HIDE DEF S
<1>3. k \in S
  BY <1>1, <1>2, NatSetInduction
<1> QED
  BY <1>3 DEF S

(* A leaf that is stuck under check_validity moves as a whole, by any      *)
(* symbol that merges none of its states, into another leaf.               *)
LEMMA StuckMovesOn ==
  ASSUME IInv, LeavesCover, ~ opt.assert_minimal_order,
         NEW u \in Leaves, Stuck(u), NEW a \in Input, ~ Merges(g, u, a)
  PROVE  /\ \A s, t \in u : g[s][a].out = g[t][a].out
         /\ \A s, t \in u : g[s][a].to = g[t][a].to => s = t
         /\ \E v \in Leaves : successor_states(u, a) \subseteq v
<1>1. /\ TypeOK /\ ChildrenPartition /\ g \in Machine
      /\ u \in Node /\ u \subseteq State /\ u \in DOMAIN tree /\ IsFiniteSet(u)
  BY NodesFinite DEF IInv, TypeOK, Leaves
<1>2. \A x \in u : g[x][a] \in Edge
  BY <1>1 DEF Machine
<1>3. \A s, t \in u : g[s][a].out = g[t][a].out /\ g[s][a].to = g[t][a].to => s = t
  <2> SUFFICES ASSUME NEW s \in u, NEW t \in u,
                      g[s][a].out = g[t][a].out, g[s][a].to = g[t][a].to
               PROVE  s = t
    OBVIOUS
  <2>1. g[s][a] = g[t][a]
    BY <1>2 DEF Edge
  <2> QED
    BY <2>1 DEF Merges
<1>4. \A s \in u : applyWord(g, s, <<a>>) = g[s][a]
  BY <1>1, ApplyOne
<1>5. is_valid(new_blocks(u, <<a>>), a)
  <2> SUFFICES ASSUME NEW b \in new_blocks(u, <<a>>), NEW s \in b, NEW t \in b,
                      g[s][a].to = g[t][a].to
               PROVE  s = t
    BY DEF is_valid
  <2>1. s \in u /\ t \in u /\ out(s, <<a>>) = out(t, <<a>>)
    BY <1>1, BlocksPartition
  <2> QED
    BY <1>3, <1>4, <2>1 DEF out
<1>6. ~ OutputSplits(u, a) /\ ValidStateWords(u, a) = {}
  BY DEF Stuck, OutputSymbols, StateSymbols
<1>7. Cardinality(new_blocks(u, <<a>>)) = 1
  BY <1>5, <1>6 DEF OutputSplits, OutputStage
<1>8. PICK b0 : new_blocks(u, <<a>>) = {b0}
  BY <1>1, <1>7, BlocksFinite, FS_Singleton
<1>9. \A s, t \in u : g[s][a].out = g[t][a].out
  <2> SUFFICES ASSUME NEW s \in u, NEW t \in u PROVE g[s][a].out = g[t][a].out
    OBVIOUS
  <2>1. s \in b0 /\ t \in b0
    BY <1>1, <1>8, BlocksPartition
  <2>2. out(s, <<a>>) = out(t, <<a>>)
    BY <1>1, <1>8, <2>1, BlocksPartition
  <2> QED
    BY <1>4, <2>2 DEF out
<1> DEFINE X == successor_states(u, a)
<1>10. X \in SUBSET State
  BY <1>2 DEF successor_states, Edge
<1>11. PICK v \in DOMAIN tree : IsLca(v, X)
  BY <1>1, <1>10, LcaExists DEF LeavesCover
<1>12. v \in Leaves
  <2> SUFFICES ASSUME v \in Internal PROVE FALSE
    BY DEF Internal
  <2> DEFINE w == <<a>> \o tree[v].separator
  <2>1. w \in StateWords(u, a)
    BY <1>11 DEF StateWords, StateStage
  <2>2. ~ is_valid(new_blocks(u, w), a)
    BY <1>6, <2>1 DEF ValidStateWords
  <2> HIDE DEF w
  <2>3. PICK b \in new_blocks(u, w) : \E s, t \in b : g[s][a].to = g[t][a].to /\ s # t
    BY <2>2 DEF is_valid
  <2>4. b \subseteq u
    BY <1>1, BlocksPartition
  <2> QED
    BY <1>3, <1>9, <2>3, <2>4
<1> QED
  BY <1>3, <1>9, <1>11, <1>12 DEF IsLca

(* If some leaf holds more than one state, no experiment resolves a leaf   *)
(* of the largest size, and so none resolves all states.                   *)
LEMMA IncompleteMeansNone ==
  ASSUME IInv, LeavesCover, ~ opt.assert_minimal_order,
         \A u \in Leaves : Cardinality(u) # 1 => Stuck(u),
         NEW l \in Leaves, Cardinality(l) # 1, NEW k \in Nat
  PROVE  State \notin Resolvable(g, k)
<1>1. /\ TypeOK /\ g \in Machine
      /\ IsFiniteSet(State) /\ Cardinality(State) = N
      /\ \A u \in Leaves : /\ IsFiniteSet(u) /\ u \subseteq State /\ u # {}
                           /\ Cardinality(u) \in Nat /\ Cardinality(u) <= N
  <2>1. TypeOK /\ g \in Machine
    BY DEF IInv, TypeOK
  <2>2. /\ IsFiniteSet(State) /\ Cardinality(State) = N
        /\ \A u \in Leaves : IsFiniteSet(u) /\ u \subseteq State /\ u # {}
    BY <2>1, NodesFinite DEF Leaves
  <2>3. \A u \in Leaves : Cardinality(u) \in Nat /\ Cardinality(u) <= N
    BY <2>2, FS_CardinalityType, FS_Subset
  <2> QED
    BY <2>1, <2>2, <2>3
<1> DEFINE Gap == {N - Cardinality(u) : u \in Leaves}
<1>2. PICK m \in Gap : \A n \in Gap : ~ (n < m)
  <2>1. Gap \subseteq Nat /\ Gap # {}
    BY <1>1, SizesAssumption
  <2> HIDE DEF Gap
  <2> QED
    BY <2>1, NatMin
<1>3. PICK big \in Leaves : m = N - Cardinality(big)
  BY <1>2
<1>4. \A u \in Leaves : Cardinality(u) <= Cardinality(big)
  <2> SUFFICES ASSUME NEW u \in Leaves PROVE Cardinality(u) <= Cardinality(big)
    OBVIOUS
  <2>1. ~ (N - Cardinality(u) < m)
    BY <1>2
  <2> QED
    BY <1>1, <1>3, <2>1, SizesAssumption
<1>5. Cardinality(big) > 1
  <2>1. Cardinality(l) # 0
    BY <1>1, FS_EmptySet
  <2> QED
    BY <1>1, <1>4, <2>1
<1> DEFINE Resolved(n) == \E u \in Leaves : Cardinality(u) = Cardinality(big)
                                             /\ u \in Resolvable(g, n)
           S == {n \in Nat : ~ Resolved(n)}
<1>6. 0 \in S
  <2>1. ASSUME NEW u \in Leaves, Cardinality(u) = Cardinality(big), u \in Singletons
        PROVE  FALSE
    <3>1. Cardinality(u) = 0 \/ Cardinality(u) = 1
      BY <2>1, FS_EmptySet, FS_Singleton DEF Singletons
    <3> QED
      BY <1>5, <2>1, <3>1
  <2> QED
    BY <2>1, ResolvableStep
<1>7. ASSUME NEW n \in Nat, n \in S PROVE n + 1 \in S
  <2> SUFFICES ASSUME NEW u \in Leaves, Cardinality(u) = Cardinality(big),
                      u \in Resolvable(g, n + 1)
               PROVE  FALSE
    OBVIOUS
  <2>1. u \in StepResolvable(g, Resolvable(g, n)) /\ u \notin Resolvable(g, n)
    BY <1>7, ResolvableStep
  <2>2. PICK a \in Input : /\ ~ Merges(g, u, a)
                           /\ \A y \in Output : After(g, u, a, y) \in Resolvable(g, n)
    BY <2>1 DEF StepResolvable
  <2>3. Stuck(u)
    BY <1>5
  <2>4. /\ \A s, t \in u : g[s][a].out = g[t][a].out
        /\ \A s, t \in u : g[s][a].to = g[t][a].to => s = t
        /\ \E v \in Leaves : successor_states(u, a) \subseteq v
    BY <2>2, <2>3, StuckMovesOn
  <2>5. PICK v \in Leaves : successor_states(u, a) \subseteq v
    BY <2>4
  <2> DEFINE X == successor_states(u, a)
  <2>6. X \in Resolvable(g, n)
    <3>1. PICK s \in u : TRUE
      BY <1>1
    <3>2. g[s][a].out \in Output
      BY <1>1 DEF Machine, Edge
    <3>3. X = After(g, u, a, g[s][a].out)
      BY <2>4 DEF successor_states, After
    <3> QED
      BY <2>2, <3>2, <3>3
  <2>7. Cardinality(X) = Cardinality(u)
    <3> DEFINE f == [s \in u |-> g[s][a].to]
    <3>1. /\ DOMAIN f = u /\ \A s \in u : f[s] = g[s][a].to
          /\ f \in [u -> X]
      BY DEF successor_states
    <3> HIDE DEF f
    <3>2. \A s, t \in u : f[s] = f[t] => s = t
      BY <2>4, <3>1
    <3>3. \A x \in X : \E s \in u : x = g[s][a].to
      BY DEF successor_states
    <3> HIDE DEF X
    <3>4. f \in Surjection(u, X)
      BY <3>1, <3>3 DEF Surjection
    <3>5. IsInjective(f)
      BY <3>1, <3>2 DEF IsInjective
    <3>6. f \in Injection(u, X)
      BY <3>1, <3>5 DEF Injection
    <3> QED
      BY <1>1, <3>4, <3>6, FS_Surjection
  <2>8. X = v
    <3>1. /\ IsFiniteSet(v) /\ X \in SUBSET v
          /\ Cardinality(v) \in Nat /\ Cardinality(v) <= Cardinality(u)
          /\ Cardinality(u) \in Nat
      BY <1>1, <1>4, <2>5
    <3> HIDE DEF X
    <3>2. Cardinality(X) <= Cardinality(v) /\ (Cardinality(v) = Cardinality(X) => v = X)
      BY <3>1, FS_Subset
    <3>3. Cardinality(v) = Cardinality(X)
      BY <2>7, <3>1, <3>2
    <3> QED
      BY <3>2, <3>3
  <2> HIDE DEF X
  <2>9. Cardinality(v) = Cardinality(big)
    BY <2>7, <2>8
  <2> QED
    BY <1>7, <2>5, <2>6, <2>8, <2>9
<1> HIDE DEF S
<1>8. k \in S
  BY <1>6, <1>7, NatSetInduction
<1>9. big \in SUBSET State
  BY <1>1
<1> QED
  BY <1>5, <1>8, <1>9, ResolvableParts DEF S

(* The states that a word takes those of B to which answer y at its end.   *)
Onward(m, B, w, y) ==
  {applyWord(m, s, w).to : s \in {t \in B : applyWord(m, t, w).out = y}}

(* The word is an experiment for B: only its last answer may differ, and   *)
(* it merges no two states that answer alike.                              *)
GoodFor(m, B, w) ==
  /\ \A j \in 1 .. Len(w) - 1 : \A s, t \in B :
       applyWord(m, s, SubSeq(w, 1, j)).out = applyWord(m, t, SubSeq(w, 1, j)).out
  /\ \A s, t \in B :
       applyWord(m, s, w).out = applyWord(m, t, w).out /\
       applyWord(m, s, w).to = applyWord(m, t, w).to => s = t

(* The states after one symbol, whatever the answer.                       *)
Moved(m, B, a) == {m[s][a].to : s \in B}

(* Without its first symbol it is one for the states that this leads to.   *)
LEMMA GoodForRest ==
  ASSUME NEW m \in Machine, NEW B \in SUBSET State, NEW a \in Input,
         NEW v \in Word, v # <<>>, GoodFor(m, B, <<a>> \o v), NEW y \in Output
  PROVE  LET C == Moved(m, B, a)
         IN  /\ C \in SUBSET State /\ GoodFor(m, C, v)
             /\ \A s, t \in B : m[s][a].out = m[t][a].out
             /\ \A s, t \in B : m[s][a].to = m[t][a].to => s = t
             /\ Onward(m, C, v, y) = Onward(m, B, <<a>> \o v, y)
<1> DEFINE C == Moved(m, B, a)
           w == <<a>> \o v
<1>1. /\ \A s \in B : s \in State /\ m[s][a] \in Edge /\ m[s][a].to \in State
      /\ C \in SUBSET State
  BY DEF Machine, Edge, Moved
<1>2. \A s \in B : /\ applyWord(m, s, w) = applyWord(m, m[s][a].to, v)
                   /\ applyWord(m, s, <<a>>) = m[s][a]
  BY <1>1, ApplyCons, ApplyOne
<1>3. Len(v) \in Nat \ {0} /\ Len(w) = Len(v) + 1 /\ w \in Word
  BY DEF Word
<1>4. \A s, t \in B : m[s][a].out = m[t][a].out
  <2>1. 1 \in 1 .. Len(w) - 1 /\ 1 \in 1 .. Len(v)
    BY <1>3
  <2>2. SubSeq(w, 1, 1) = <<a>>
    BY <1>3, PrefixCons
  <2> HIDE DEF w
  <2>3. \A s, t \in B : applyWord(m, s, <<a>>).out = applyWord(m, t, <<a>>).out
    BY <2>1, <2>2 DEF GoodFor, w
  <2> QED
    BY <1>2, <2>3
<1>5. \A s, t \in B : m[s][a].to = m[t][a].to => s = t
  BY <1>2 DEF GoodFor
<1>6. ASSUME NEW j \in 1 .. Len(v) - 1, NEW c \in C, NEW d \in C
      PROVE  applyWord(m, c, SubSeq(v, 1, j)).out = applyWord(m, d, SubSeq(v, 1, j)).out
  <2>1. PICK s \in B, t \in B : c = m[s][a].to /\ d = m[t][a].to
    BY DEF Moved
  <2>2. /\ j + 1 \in 1 .. Len(w) - 1 /\ j + 1 > 1
        /\ (j + 1) - 1 = j /\ j + 1 \in 1 .. Len(v)
    BY <1>3
  <2>3. \A i \in 1 .. Len(v) : i > 1 =>
          /\ SubSeq(w, 1, i) = <<a>> \o SubSeq(v, 1, i - 1)
          /\ SubSeq(v, 1, i - 1) \in Word /\ SubSeq(v, 1, i - 1) # <<>>
    BY PrefixCons
  <2>4. PICK i \in 1 .. Len(v) : i = j + 1
    BY <2>2
  <2>5. /\ SubSeq(w, 1, i) = <<a>> \o SubSeq(v, 1, j)
        /\ SubSeq(v, 1, j) \in Word /\ SubSeq(v, 1, j) # <<>>
    BY <2>2, <2>3, <2>4
  <2>6. applyWord(m, s, SubSeq(w, 1, i)) = applyWord(m, c, SubSeq(v, 1, j))
        /\ applyWord(m, t, SubSeq(w, 1, i)) = applyWord(m, d, SubSeq(v, 1, j))
    <3> DEFINE z == SubSeq(v, 1, j)
               x == SubSeq(w, 1, i)
    <3>1. x = <<a>> \o z /\ z \in Word /\ z # <<>>
      BY <2>5
    <3> HIDE DEF z, x
    <3>2. \A r \in B : applyWord(m, r, <<a>> \o z) = applyWord(m, m[r][a].to, z)
      BY <1>1, <3>1, ApplyCons
    <3>3. applyWord(m, s, x) = applyWord(m, c, z) /\ applyWord(m, t, x) = applyWord(m, d, z)
      BY <2>1, <3>1, <3>2
    <3> QED
      BY <3>3 DEF x, z
  <2>7. applyWord(m, s, SubSeq(w, 1, i)).out = applyWord(m, t, SubSeq(w, 1, i)).out
    <3>1. i \in 1 .. Len(w) - 1
      BY <2>2, <2>4
    <3> HIDE DEF w
    <3>2. \A n \in 1 .. Len(w) - 1 : \A x, z \in B :
            applyWord(m, x, SubSeq(w, 1, n)).out = applyWord(m, z, SubSeq(w, 1, n)).out
      BY DEF GoodFor, w
    <3> QED
      BY <3>1, <3>2
  <2> QED
    BY <2>6, <2>7
<1>7. GoodFor(m, C, v)
  <2>1. ASSUME NEW c \in C, NEW d \in C,
               applyWord(m, c, v).out = applyWord(m, d, v).out,
               applyWord(m, c, v).to = applyWord(m, d, v).to
        PROVE  c = d
    <3>1. PICK s \in B, t \in B : c = m[s][a].to /\ d = m[t][a].to
      BY DEF Moved
    <3>2. applyWord(m, s, w) = applyWord(m, c, v) /\ applyWord(m, t, w) = applyWord(m, d, v)
      BY <1>2, <3>1
    <3>3. s = t
      BY <2>1, <3>2 DEF GoodFor
    <3> QED
      BY <3>1, <3>3
  <2> HIDE DEF C
  <2> QED
    BY <1>6, <2>1 DEF GoodFor
<1> HIDE DEF w
<1>8. Onward(m, C, v, y) = Onward(m, B, w, y)
  <2>1. ASSUME NEW x \in Onward(m, C, v, y) PROVE x \in Onward(m, B, w, y)
    <3>1. PICK c \in C : x = applyWord(m, c, v).to /\ applyWord(m, c, v).out = y
      BY DEF Onward
    <3>2. PICK s \in B : c = m[s][a].to
      BY <3>1 DEF Moved
    <3>3. applyWord(m, s, w) = applyWord(m, c, v)
      BY <1>2, <3>2
    <3> QED
      BY <3>1, <3>3 DEF Onward
  <2>2. ASSUME NEW x \in Onward(m, B, w, y) PROVE x \in Onward(m, C, v, y)
    <3>1. PICK s \in B : x = applyWord(m, s, w).to /\ applyWord(m, s, w).out = y
      BY DEF Onward
    <3>2. m[s][a].to \in C /\ applyWord(m, s, w) = applyWord(m, m[s][a].to, v)
      BY <1>2 DEF Moved
    <3> HIDE DEF C
    <3> QED
      BY <3>1, <3>2 DEF Onward
  <2> HIDE DEF C, w
  <2> QED
    BY <2>1, <2>2
<1> QED
  BY <1>1, <1>4, <1>5, <1>7, <1>8 DEF w

(* A word that is an experiment for B resolves B, if for every answer the  *)
(* states that it leads to can be resolved.                                *)
LEMMA WordResolves ==
  ASSUME NEW m \in Machine, NEW k \in Nat, NEW w \in Word, w # <<>>,
         NEW B \in SUBSET State, GoodFor(m, B, w),
         \A y \in Output : Onward(m, B, w, y) \in Resolvable(m, k)
  PROVE  B \in Resolvable(m, k + Len(w))
<1> DEFINE Claim(n) ==
             \A v \in Word : Len(v) = n /\ v # <<>> =>
               \A C \in SUBSET State :
                 /\ GoodFor(m, C, v)
                 /\ \A y \in Output : Onward(m, C, v, y) \in Resolvable(m, k)
                 => C \in Resolvable(m, k + n)
           S == {n \in Nat : Claim(n)}
<1>1. 0 \in S
  BY DEF Word
<1>2. ASSUME NEW n \in Nat, n \in S PROVE n + 1 \in S
  <2> SUFFICES ASSUME NEW v \in Word, Len(v) = n + 1, v # <<>>,
                      NEW C \in SUBSET State, GoodFor(m, C, v),
                      \A y \in Output : Onward(m, C, v, y) \in Resolvable(m, k)
               PROVE  C \in Resolvable(m, k + (n + 1))
    OBVIOUS
  <2>1. Claim(n)
    BY <1>2
  <2> HIDE DEF Claim
  <2> DEFINE R == Resolvable(m, k + n)
  <2>2. Resolvable(m, k + (n + 1)) = StepResolvable(m, R)
    <3>1. k + n \in Nat /\ k + (n + 1) = (k + n) + 1
      OBVIOUS
    <3> QED
      BY <3>1, ResolvableStep
  <2>3. {} \in R
    BY ResolvableGrows DEF Singletons
  <2>4. PICK a \in Input, x \in Word : v = <<a>> \o x /\ Len(v) = Len(x) + 1
    BY ConsForm
  <2>5. \A s \in C : s \in State /\ m[s][a] \in Edge /\ m[s][a].out \in Output
    BY DEF Machine, Edge
  <2>6. CASE x = <<>>
    <3>1. v = <<a>> /\ n = 0
      BY <2>4, <2>6 DEF Word
    <3>2. \A s \in C : applyWord(m, s, v) = m[s][a]
      BY <2>5, <3>1, ApplyOne
    <3>3. ~ Merges(m, C, a)
      BY <3>2 DEF Merges, GoodFor
    <3>4. \A y \in Output : After(m, C, a, y) = Onward(m, C, v, y)
      BY <3>2 DEF After, Onward
    <3>5. \A y \in Output : After(m, C, a, y) \in R
      <4>1. k + n = k
        BY <3>1
      <4> QED
        BY <3>4, <4>1
    <3> QED
      BY <2>2, <3>3, <3>5 DEF StepResolvable
  <2>7. CASE x # <<>>
    <3> DEFINE D == Moved(m, C, a)
    <3>1. PICK y0 \in Output : TRUE
      BY SizesAssumption DEF Output
    <3>2. GoodFor(m, C, <<a>> \o x)
      BY <2>4
    <3>3. /\ D \in SUBSET State
          /\ \A s, t \in C : m[s][a].out = m[t][a].out
          /\ \A s, t \in C : m[s][a].to = m[t][a].to => s = t
          /\ GoodFor(m, D, x)
          /\ \A y \in Output : Onward(m, D, x, y) = Onward(m, C, <<a>> \o x, y)
      <4>1. /\ m \in Machine /\ C \in SUBSET State /\ a \in Input
            /\ x \in Word /\ x # <<>> /\ GoodFor(m, C, <<a>> \o x)
        BY <2>7, <3>2
      <4>2. /\ D \in SUBSET State /\ GoodFor(m, D, x)
            /\ \A s, t \in C : m[s][a].out = m[t][a].out
            /\ \A s, t \in C : m[s][a].to = m[t][a].to => s = t
        BY <3>1, <4>1, GoodForRest
      <4>3. ASSUME NEW y \in Output
            PROVE  Onward(m, D, x, y) = Onward(m, C, <<a>> \o x, y)
        BY <4>1, GoodForRest, SMTT(30)
      <4> QED
        BY <4>2, <4>3
    <3>4. \A y \in Output : Onward(m, D, x, y) \in Resolvable(m, k)
      BY <2>4, <3>3
    <3>5. Len(x) = n
      BY <2>4 DEF Word
    <3>6. \A y \in Output : After(m, C, a, y) = D \/ After(m, C, a, y) = {}
      BY <3>3 DEF After, Moved
    <3>7. ~ Merges(m, C, a)
      BY <3>3 DEF Merges
    <3> HIDE DEF D
    <3>8. D \in R
      BY <2>1, <2>7, <3>3, <3>4, <3>5 DEF Claim
    <3>9. \A y \in Output : After(m, C, a, y) \in R
      BY <2>3, <3>6, <3>8
    <3> QED
      BY <2>2, <3>7, <3>9 DEF StepResolvable
  <2> QED
    BY <2>6, <2>7
<1> HIDE DEF S
<1>3. Len(w) \in S
  <2>1. Len(w) \in Nat
    BY DEF Word
  <2>2. \A n \in Nat : n \in S
    BY <1>1, <1>2, NatSetInduction
  <2> QED
    BY <2>1, <2>2
<1> QED
  BY <1>3 DEF S

(* If every leaf of a tree made under check_validity is a single state,    *)
(* the separators in it resolve any set of states, each of at most N - 1   *)
(* symbols, and each divides the set.                                      *)
LEMMA CompleteResolves ==
  ASSUME IInv, TheoryInv, opt.check_validity, ~ opt.assert_minimal_order,
         \A u \in Leaves : Cardinality(u) = 1,
         NEW B \in SUBSET State, B # {}
  PROVE  /\ Cardinality(B) \in Nat \ {0}
         /\ B \in Resolvable(g, (Cardinality(B) - 1) * (N - 1))
<1>1. /\ TypeOK /\ ChildrenPartition /\ LeavesCover /\ g \in Machine
      /\ IsFiniteSet(State) /\ Cardinality(State) = N
      /\ State \in DOMAIN tree
  BY NodesFinite DEF IInv, TheoryInv, TypeOK, LeavesCover
<1>2. ASSUME NEW C \in SUBSET State, C # {}
      PROVE  IsFiniteSet(C) /\ Cardinality(C) \in Nat \ {0}
  <2>1. IsFiniteSet(C) /\ Cardinality(C) \in Nat
    BY <1>1, FS_Subset, FS_CardinalityType
  <2>2. Cardinality(C) # 0
    BY <1>2, <2>1, FS_EmptySet
  <2> QED
    BY <2>1, <2>2
<1>3. Cardinality(Internal) < N /\ Cardinality(Internal) \in Nat
  <2>1. Cardinality(Leaves) <= N /\ Cardinality(Leaves) \in Nat
    BY <1>1, FewLeaves DEF IInv
  <2> QED
    BY <1>1, <2>1, InnerNodesFinite, SizesAssumption DEF TheoryInv, SeparatorsShort
<1> DEFINE Claim(n) == \A C \in SUBSET State :
                         C # {} /\ Cardinality(C) <= n + 1 => C \in Resolvable(g, n * (N - 1))
           S == {n \in Nat : Claim(n)}
<1>4. 0 \in S
  <2> SUFFICES ASSUME NEW C \in SUBSET State, C # {}, Cardinality(C) <= 0 + 1
               PROVE  C \in Resolvable(g, 0 * (N - 1))
    OBVIOUS
  <2>1. Cardinality(C) = 1 /\ IsFiniteSet(C)
    BY <1>2
  <2>2. PICK s : C = {s}
    BY <2>1, FS_Singleton
  <2>3. C \in Singletons
    BY <2>2 DEF Singletons
  <2>4. 0 * (N - 1) = 0
    BY SizesAssumption
  <2> QED
    BY <2>3, <2>4, ResolvableStep
<1>5. ASSUME NEW n \in Nat, n \in S PROVE n + 1 \in S
  <2> SUFFICES ASSUME NEW C \in SUBSET State, C # {}, Cardinality(C) <= (n + 1) + 1
               PROVE  C \in Resolvable(g, (n + 1) * (N - 1))
    OBVIOUS
  <2>1. Claim(n)
    BY <1>5
  <2> HIDE DEF Claim
  <2>2. n * (N - 1) \in Nat /\ N - 1 \in Nat
        /\ (n + 1) * (N - 1) = n * (N - 1) + (N - 1)
    BY SizesAssumption
  <2> DEFINE k == n * (N - 1)
  <2>3. k \in Nat /\ (n + 1) * (N - 1) = k + (N - 1)
    BY <2>2
  <2>4. \A D \in SUBSET State : D # {} /\ Cardinality(D) <= n + 1 => D \in Resolvable(g, k)
    BY <2>1 DEF Claim
  <2> HIDE DEF k
  <2>5. CASE Cardinality(C) <= n + 1
    <3>1. C \in Resolvable(g, k)
      BY <2>4, <2>5
    <3> QED
      BY <2>2, <2>3, <3>1, ResolvableGrows
  <2>6. CASE ~ (Cardinality(C) <= n + 1)
    <3>1. IsFiniteSet(C) /\ Cardinality(C) = n + 2
      BY <1>2, <2>6
    <3>2. PICK u \in DOMAIN tree : IsLca(u, C)
      BY <1>1, LcaExists
    <3>3. u \in Internal /\ u \subseteq State
      <4>1. u \subseteq State /\ IsFiniteSet(u) /\ C \in SUBSET u
        BY <1>1, <3>2, NodesFinite DEF IsLca
      <4>2. Cardinality(C) <= Cardinality(u)
        BY <4>1, FS_Subset
      <4>3. Cardinality(u) # 1
        BY <3>1, <4>1, <4>2, FS_CardinalityType
      <4> QED
        BY <4>1, <4>3 DEF Internal
    <3> DEFINE w == tree[u].separator
               c == tree[u].children
    <3>4. w \in Word /\ w # <<>> /\ Len(w) <= N - 1 /\ Len(w) \in Nat
      <4>1. tree[u] \in splitting_tree /\ w # <<>>
        BY <3>3 DEF IInv, TypeOK, Internal, LastOutputSeparates
      <4>2. Len(w) <= Cardinality(Internal)
        BY <3>3 DEF TheoryInv, SeparatorsShort
      <4>3. w \in Word /\ Len(w) \in Nat
        BY <4>1 DEF splitting_tree, Word
      <4> HIDE DEF w
      <4> QED
        BY <1>3, <4>1, <4>2, <4>3, SizesAssumption
    <3>5. /\ UNION {c[i] : i \in DOMAIN c} = u
          /\ C \subseteq u
          /\ \A i \in DOMAIN c : ~ (C \subseteq c[i])
          /\ \A i, j \in DOMAIN c : \A s \in c[i], t \in c[j] :
               i = j <=> out(s, w) = out(t, w)
          /\ \A i \in DOMAIN c : \A s, t \in c[i] : to(s, w) = to(t, w) => s = t
          /\ \A j \in 1 .. Len(w) - 1 : \A s, t \in u :
               out(s, SubSeq(w, 1, j)) = out(t, SubSeq(w, 1, j))
      BY <3>2, <3>3 DEF IInv, TheoryInv, ChildrenPartition, IsLca, LastOutputSeparates,
                        SeparatorsValid, PrefixesAgree
    <3> HIDE DEF w, c
    <3>6. \A s \in C : \E i \in DOMAIN c : s \in c[i]
      BY <3>5
    <3>7. GoodFor(g, C, w)
      <4>1. ASSUME NEW s \in C, NEW t \in C, out(s, w) = out(t, w), to(s, w) = to(t, w)
            PROVE  s = t
        <5>1. PICK i \in DOMAIN c, j \in DOMAIN c : s \in c[i] /\ t \in c[j]
          BY <3>6
        <5>2. i = j
          BY <3>5, <4>1, <5>1
        <5> QED
          BY <3>5, <4>1, <5>1, <5>2
      <4>2. \A j \in 1 .. Len(w) - 1 : \A s, t \in C :
              out(s, SubSeq(w, 1, j)) = out(t, SubSeq(w, 1, j))
        BY <3>5
      <4> QED
        BY <4>1, <4>2 DEF GoodFor, out, to
    <3>8. ASSUME NEW y \in Output PROVE Onward(g, C, w, y) \in Resolvable(g, k)
      <4> DEFINE D == Onward(g, C, w, y)
                 E == {t \in C : out(t, w) = y}
      <4>1. D \in SUBSET State
        <5>1. \A s \in C : applyWord(g, s, w) \in RunEdge
          BY <1>1, <3>4, ApplyType
        <5> QED
          BY <5>1 DEF Onward, RunEdge
      <4>2. CASE D = {}
        <5>1. D \in Singletons
          BY <4>2 DEF Singletons
        <5> QED
          BY <2>3, <5>1, ResolvableGrows
      <4>3. CASE D # {}
        <5>1. E # C
          <6>1. PICK s \in C : TRUE
            OBVIOUS
          <6>2. PICK i \in DOMAIN c : s \in c[i]
            BY <3>6
          <6>3. PICK t \in C : t \notin c[i]
            BY <3>5
          <6>4. PICK j \in DOMAIN c : t \in c[j]
            BY <3>6
          <6>5. out(s, w) # out(t, w)
            BY <3>5, <6>2, <6>3, <6>4
          <6> QED
            BY <6>5
        <5>2. IsFiniteSet(E) /\ Cardinality(E) < Cardinality(C) /\ Cardinality(E) \in Nat
          <6>1. E \in SUBSET C
            OBVIOUS
          <6> HIDE DEF E
          <6>2. /\ IsFiniteSet(E) /\ Cardinality(E) <= Cardinality(C)
                /\ Cardinality(C) # Cardinality(E)
            BY <3>1, <5>1, <6>1, FS_Subset
          <6>3. Cardinality(E) \in Nat /\ Cardinality(C) \in Nat
            BY <3>1, <6>2, FS_CardinalityType
          <6> QED
            BY <6>2, <6>3
        <5>3. IsFiniteSet(D) /\ Cardinality(D) <= Cardinality(E)
          <6> DEFINE f == [s \in E |-> to(s, w)]
          <6>1. D = {to(s, w) : s \in E}
            BY DEF Onward, out, to
          <6> HIDE DEF D
          <6>2. f \in [E -> D] /\ \A s \in E : f[s] = to(s, w)
            BY <6>1
          <6> HIDE DEF f
          <6>3. \A x \in D : \E s \in E : f[s] = x
            BY <6>1, <6>2
          <6> HIDE DEF E
          <6>4. f \in Surjection(E, D)
            BY <6>2, <6>3 DEF Surjection
          <6> QED
            BY <5>2, <6>4, FS_Surjection
        <5>4. Cardinality(D) <= n + 1
          <6>1. Cardinality(D) \in Nat
            BY <5>3, FS_CardinalityType
          <6> HIDE DEF D, E
          <6> QED
            BY <3>1, <5>2, <5>3, <6>1
        <5> HIDE DEF D
        <5> QED
          BY <2>4, <4>1, <4>3, <5>4 DEF D
      <4> QED
        BY <4>2, <4>3
    <3>9. C \in Resolvable(g, k + Len(w))
      BY <1>1, <2>3, <3>4, <3>7, <3>8, WordResolves
    <3>10. PICK r \in Nat : N - 1 = Len(w) + r
      <4>1. (N - 1) - Len(w) \in Nat /\ N - 1 = Len(w) + ((N - 1) - Len(w))
        BY <3>4, SizesAssumption
      <4> QED
        BY <4>1
    <3>11. k + Len(w) \in Nat /\ k + (N - 1) = (k + Len(w)) + r
      BY <2>3, <3>4, <3>10
    <3>12. C \in Resolvable(g, (k + Len(w)) + r)
      BY <3>9, <3>11, ResolvableGrows
    <3> QED
      BY <2>3, <3>11, <3>12
  <2> QED
    BY <2>5, <2>6
<1> HIDE DEF S
<1>6. \A n \in Nat : n \in S
  BY <1>4, <1>5, NatSetInduction
<1>7. Cardinality(B) - 1 \in Nat /\ Cardinality(B) \in Nat \ {0}
      /\ Cardinality(B) <= (Cardinality(B) - 1) + 1
  BY <1>2
<1>8. Claim(Cardinality(B) - 1)
  BY <1>6, <1>7 DEF S
<1> QED
  BY <1>7, <1>8

(* The tree of Lee and Yannakakis is complete exactly when the machine has *)
(* an adaptive distinguishing sequence, whatever the order of the inputs   *)
(* and of the queue.                                                       *)
THEOREM CompleteExactlyIfADS ==
  ASSUME \A o \in Options : ~ (o.check_validity /\ o.assert_minimal_order)
  PROVE  Spec => []CompleteIffADS
<1>1. IInv /\ TheoryInv => CompleteIffADS
  <2> SUFFICES ASSUME IInv, TheoryInv, pc = "returned", opt.check_validity
               PROVE  HasADS(g) <=> \A u \in Leaves : Cardinality(u) = 1
    BY DEF CompleteIffADS
  <2>1. ~ opt.assert_minimal_order /\ LeavesCover
    BY DEF TheoryInv
  <2>2. \A u \in Leaves : Cardinality(u) # 1 => Stuck(u)
    BY <2>1 DEF IInv, NothingLeftToSplit
  <2>3. (N - 1) * (N - 1) \in Nat
    BY SizesAssumption
  <2>4. ASSUME HasADS(g) PROVE \A u \in Leaves : Cardinality(u) = 1
    BY <2>1, <2>2, <2>3, <2>4, IncompleteMeansNone DEF HasADS
  <2>5. ASSUME \A u \in Leaves : Cardinality(u) = 1 PROVE HasADS(g)
    <3>1. State # {} /\ State \in SUBSET State
      BY SizesAssumption DEF State
    <3>2. State \in Resolvable(g, (Cardinality(State) - 1) * (N - 1))
      BY <2>1, <2>5, <3>1, CompleteResolves
    <3>3. Cardinality(State) = N
      BY NodesFinite DEF IInv
    <3> QED
      BY <3>2, <3>3 DEF HasADS
  <2> QED
    BY <2>4, <2>5
<1> QED
  BY <1>1, Invariance, TheoryInvariance, PTL

(* Nor would more time help: the tree of Lee and Yannakakis is complete    *)
(* exactly when there is an adaptive distinguishing sequence of any length *)
(* at all, so that nothing is lost by the (N - 1) * (N - 1) symbols of     *)
(* HasADS.                                                                 *)
THEOREM CompleteIfAnyADS ==
  ASSUME \A o \in Options : ~ (o.check_validity /\ o.assert_minimal_order)
  PROVE  Spec => [](pc = "returned" /\ opt.check_validity =>
                      ((\A u \in Leaves : Cardinality(u) = 1) <=>
                         \E k \in Nat : State \in Resolvable(g, k)))
<1>1. IInv /\ TheoryInv /\ CompleteIffADS =>
        (pc = "returned" /\ opt.check_validity =>
           ((\A u \in Leaves : Cardinality(u) = 1) <=>
              \E k \in Nat : State \in Resolvable(g, k)))
  <2> SUFFICES ASSUME IInv, TheoryInv, CompleteIffADS,
                      pc = "returned", opt.check_validity
               PROVE  (\A u \in Leaves : Cardinality(u) = 1) <=>
                        \E k \in Nat : State \in Resolvable(g, k)
    OBVIOUS
  <2>1. ~ opt.assert_minimal_order /\ LeavesCover
    BY DEF TheoryInv
  <2>2. \A u \in Leaves : Cardinality(u) # 1 => Stuck(u)
    BY <2>1 DEF IInv, NothingLeftToSplit
  <2>3. ASSUME NEW k \in Nat, State \in Resolvable(g, k)
        PROVE  \A u \in Leaves : Cardinality(u) = 1
    BY <2>1, <2>2, <2>3, IncompleteMeansNone
  <2>4. (N - 1) * (N - 1) \in Nat
    BY SizesAssumption
  <2>5. ASSUME \A u \in Leaves : Cardinality(u) = 1
        PROVE  State \in Resolvable(g, (N - 1) * (N - 1))
    BY <2>5 DEF CompleteIffADS, HasADS
  <2> QED
    BY <2>3, <2>4, <2>5
<1> QED
  BY <1>1, Invariance, TheoryInvariance, CompleteExactlyIfADS, PTL

-----------------------------------------------------------------------------
(* The walk over a tree.                                                   *)

(* T is a tree of finite sets below root: the children of a node share it  *)
(* out among at least two, and everything inside a node is inside a child. *)
Shaped(T, root) ==
  /\ root \in DOMAIN T
  /\ \A u \in DOMAIN T :
       /\ u # {} /\ u \subseteq root /\ IsFiniteSet(u)
       /\ T[u].children \in Seq(DOMAIN T)
       /\ \A v \in DOMAIN T : v \subseteq u /\ v # u =>
            \E i \in DOMAIN T[u].children : v \subseteq T[u].children[i]
       /\ T[u].children # <<>> =>
            /\ Len(T[u].children) > 1
            /\ UNION {T[u].children[i] : i \in DOMAIN T[u].children} = u
            /\ \A i, j \in DOMAIN T[u].children :
                 i # j => T[u].children[i] \cap T[u].children[j] = {}

(* What lca_impl returns for a node, of what it returns for its children.  *)
VisitWith(T, X, u, inner) ==
  LET count == Quantify(DOMAIN inner, LAMBDA i : inner[i].count > 0)
      below == FlattenSeq([i \in DOMAIN inner |-> inner[i].store])
  IN  IF T[u].children = <<>>
        THEN IF u \cap X # {} THEN [count |-> 1, store |-> <<u>>]
                              ELSE [count |-> 0, store |-> <<>>]
        ELSE [count |-> count,
              store |-> IF count >= 2 THEN Append(below, u) ELSE below]

Visit(T, X, f, u) ==
  VisitWith(T, X, u, [i \in DOMAIN T[u].children |-> f[T[u].children[i]]])

IsWalk(T, X, D, f) == f = [u \in D |-> Visit(T, X, f, u)]

(* Children are smaller than their parents.                                *)
LEMMA ChildSmaller ==
  ASSUME NEW T, NEW root, Shaped(T, root),
         NEW u \in DOMAIN T, NEW i \in DOMAIN T[u].children
  PROVE  /\ T[u].children[i] \in DOMAIN T
         /\ T[u].children[i] \subseteq u
         /\ Cardinality(T[u].children[i]) \in Nat /\ Cardinality(u) \in Nat
         /\ Cardinality(T[u].children[i]) < Cardinality(u)
<1> DEFINE c == T[u].children
<1>1. /\ c \in Seq(DOMAIN T) /\ c # <<>>
      /\ DOMAIN c = 1 .. Len(c) /\ Len(c) \in Nat
      /\ \A k \in DOMAIN c : c[k] \in DOMAIN T
  BY LenProperties, ElementOfSeq DEF Shaped
<1>2. /\ Len(c) > 1 /\ UNION {c[k] : k \in DOMAIN c} = u
      /\ \A k, l \in DOMAIN c : k # l => c[k] \cap c[l] = {}
  BY <1>1 DEF Shaped
<1> DEFINE k == IF i = 1 THEN 2 ELSE 1
<1>3. k \in DOMAIN c /\ k # i
  BY <1>1, <1>2
<1> HIDE DEF k, c
<1>4. c[i] \in DOMAIN T /\ c[i] \subseteq u /\ c[k] \subseteq u
  BY <1>1, <1>2, <1>3 DEF c
<1>5. c[k] # {} /\ IsFiniteSet(u) /\ IsFiniteSet(c[i])
  BY <1>1, <1>3, <1>4 DEF Shaped
<1>6. c[i] # u
  BY <1>2, <1>3, <1>4, <1>5 DEF c
<1>7. /\ Cardinality(c[i]) <= Cardinality(u)
      /\ Cardinality(u) = Cardinality(c[i]) => u = c[i]
  BY <1>4, <1>5, FS_Subset
<1>8. Cardinality(c[i]) \in Nat /\ Cardinality(u) \in Nat
  BY <1>5, FS_CardinalityType
<1> QED
  BY <1>4, <1>6, <1>7, <1>8 DEF c

(* The recursion of lca_impl ends: there is a function that satisfies its  *)
(* equation, and lca_impl returns what it says of the root.                *)
LEMMA WalkExists ==
  ASSUME NEW T, NEW root, Shaped(T, root), NEW X
  PROVE  \E f : /\ DOMAIN f = DOMAIN T
                /\ \A u \in DOMAIN T : f[u] = Visit(T, X, f, u)
                /\ lca_impl(T, root, X) = f[root]
<1> DEFINE D(k) == {u \in DOMAIN T : Cardinality(u) <= k}
           K == {k \in Nat : \E f : IsWalk(T, X, D(k), f)}
<1>1. 0 \in K
  <2>1. D(0) = {}
    <3>1. ASSUME NEW u \in D(0) PROVE FALSE
      <4>1. u # {} /\ IsFiniteSet(u) /\ Cardinality(u) <= 0
        BY DEF Shaped
      <4>2. Cardinality(u) = 0
        BY <4>1, FS_CardinalityType
      <4> QED
        BY <4>1, <4>2, FS_EmptySet
    <3> QED
      BY <3>1
  <2>2. IsWalk(T, X, {}, [u \in {} |-> 0])
    BY DEF IsWalk
  <2> HIDE DEF D
  <2>3. \E e : IsWalk(T, X, D(0), e)
    BY <2>1, <2>2
  <2> QED
    BY <2>3
<1>2. ASSUME NEW k \in Nat, k \in K PROVE k + 1 \in K
  <2>1. PICK f : IsWalk(T, X, D(k), f)
    BY <1>2
  <2>2. \A u \in D(k) : f[u] = Visit(T, X, f, u)
    BY <2>1 DEF IsWalk
  <2>3. ASSUME NEW u \in D(k + 1), NEW i \in DOMAIN T[u].children
        PROVE  T[u].children[i] \in D(k)
    BY ChildSmaller
  <2>4. D(k) \subseteq D(k + 1)
    BY FS_CardinalityType DEF Shaped
  <2> HIDE DEF D
  <2> DEFINE h == [u \in D(k + 1) |-> IF u \in D(k) THEN f[u] ELSE Visit(T, X, f, u)]
  <2>5. \A u \in D(k + 1) : h[u] = Visit(T, X, f, u)
    BY <2>2
  <2>6. \A u \in D(k) : h[u] = f[u]
    BY <2>4
  <2>7. DOMAIN h = D(k + 1) /\ h = [u \in D(k + 1) |-> h[u]]
    OBVIOUS
  <2> HIDE DEF h
  <2>8. ASSUME NEW u \in D(k + 1) PROVE h[u] = Visit(T, X, h, u)
    <3>1. \A i \in DOMAIN T[u].children : f[T[u].children[i]] = h[T[u].children[i]]
      BY <2>3, <2>6
    <3>2. [i \in DOMAIN T[u].children |-> f[T[u].children[i]]]
            = [i \in DOMAIN T[u].children |-> h[T[u].children[i]]]
      BY <3>1
    <3> QED
      BY <2>5, <3>2 DEF Visit
  <2>9. IsWalk(T, X, D(k + 1), h)
    BY <2>7, <2>8 DEF IsWalk
  <2>10. \E e : IsWalk(T, X, D(k + 1), e)
    BY <2>9
  <2> QED
    BY <2>10
<1> HIDE DEF K
<1>3. \A k \in Nat : k \in K
  BY <1>1, <1>2, NatSetInduction
<1>4. /\ root \in DOMAIN T /\ IsFiniteSet(root) /\ Cardinality(root) \in Nat
      /\ \A u \in DOMAIN T : Cardinality(u) <= Cardinality(root)
  BY FS_CardinalityType, FS_Subset DEF Shaped
<1>5. D(Cardinality(root)) = DOMAIN T
  BY <1>4
<1> HIDE DEF D
<1>6. \E f : IsWalk(T, X, DOMAIN T, f)
  BY <1>3, <1>4, <1>5 DEF K
<1> DEFINE c == CHOOSE f : IsWalk(T, X, DOMAIN T, f)
<1>7. IsWalk(T, X, DOMAIN T, c)
  BY <1>6
<1>8. lca_impl(T, root, X) = c[root]
  BY DEF lca_impl, IsWalk, Visit, VisitWith, Quantify
<1> HIDE DEF c
<1> QED
  BY <1>7, <1>8 DEF IsWalk

(* v is the lowest node with all of Y: no child of it has all of Y.        *)
Lowest(T, v, Y) ==
  /\ v \in DOMAIN T
  /\ Y \subseteq v
  /\ \A i \in DOMAIN T[v].children : ~ (Y \subseteq T[v].children[i])

(* What the walk returns for a node: whether a state of X is in it, the    *)
(* lowest node with all of these last, and with it all inner nodes that    *)
(* tell two of them apart.                                                 *)
WalkFinds(T, X, u, r) ==
  /\ r.count \in Nat /\ (r.count > 0 <=> u \cap X # {})
  /\ r.store \in Seq(DOMAIN T)
  /\ u \cap X = {} => r.store = <<>>
  /\ u \cap X # {} => r.store # <<>> /\ Lowest(T, Last(r.store), u \cap X)
  /\ \A s, t \in u \cap X : \A v \in DOMAIN T :
       v \subseteq u /\ T[v].children # <<>> /\ Lowest(T, v, {s, t}) =>
         v \in ToSet(r.store)

(* A leaf.                                                                 *)
LEMMA LeafFinds ==
  ASSUME NEW T, NEW root, Shaped(T, root), NEW X, NEW f,
         NEW u \in DOMAIN T, T[u].children = <<>>
  PROVE  WalkFinds(T, X, u, Visit(T, X, f, u))
<1> DEFINE r == Visit(T, X, f, u)
<1>1. r = IF u \cap X # {} THEN [count |-> 1, store |-> <<u>>]
                           ELSE [count |-> 0, store |-> <<>>]
  BY DEF Visit, VisitWith
<1>2. ASSUME NEW v \in DOMAIN T, v \subseteq u, T[v].children # <<>> PROVE FALSE
  <2>1. v # u
    BY <1>2
  <2>2. PICK i \in DOMAIN T[u].children : v \subseteq T[u].children[i]
    BY <1>2, <2>1 DEF Shaped
  <2> QED
    BY <2>2, EmptySeq
<1>3. CASE u \cap X # {}
  <2>1. r = [count |-> 1, store |-> <<u>>]
    BY <1>1, <1>3
  <2> HIDE DEF r
  <2>2. r.count = 1 /\ r.store = <<u>>
    BY <2>1
  <2>3. /\ r.store \in Seq(DOMAIN T) /\ r.store # <<>>
        /\ Last(r.store) = u
    BY <2>2 DEF Last
  <2>4. Lowest(T, u, u \cap X)
    <3>1. \A i \in DOMAIN T[u].children : FALSE
      BY EmptySeq
    <3> QED
      BY <3>1 DEF Lowest
  <2>5. \A s, t \in u \cap X : \A v \in DOMAIN T :
          v \subseteq u /\ T[v].children # <<>> /\ Lowest(T, v, {s, t}) =>
            v \in ToSet(r.store)
    BY <1>2
  <2>6. r.count \in Nat /\ (r.count > 0 <=> u \cap X # {})
    BY <1>3, <2>2
  <2>7. WalkFinds(T, X, u, r)
    BY <1>3, <2>3, <2>4, <2>5, <2>6 DEF WalkFinds
  <2> QED
    BY <2>7 DEF r
<1>4. CASE u \cap X = {}
  <2>1. r = [count |-> 0, store |-> <<>>]
    BY <1>1, <1>4
  <2> HIDE DEF r
  <2>2. r.count = 0 /\ r.store = <<>>
    BY <2>1
  <2>3. r.store \in Seq(DOMAIN T)
    BY <2>2, EmptySeq
  <2>4. r.count \in Nat /\ (r.count > 0 <=> u \cap X # {})
    BY <1>4, <2>2
  <2>5. \A s, t \in u \cap X : \A v \in DOMAIN T :
          v \subseteq u /\ T[v].children # <<>> /\ Lowest(T, v, {s, t}) =>
            v \in ToSet(r.store)
    BY <1>4
  <2>6. WalkFinds(T, X, u, r)
    BY <1>4, <2>2, <2>3, <2>4, <2>5 DEF WalkFinds
  <2> QED
    BY <2>6 DEF r
<1> QED
  BY <1>3, <1>4

(* An inner node, if the walk is right below it.                           *)
LEMMA InnerFinds ==
  ASSUME NEW T, NEW root, Shaped(T, root), NEW X, NEW f,
         NEW u \in DOMAIN T, T[u].children # <<>>,
         \A i \in DOMAIN T[u].children :
           WalkFinds(T, X, T[u].children[i], f[T[u].children[i]])
  PROVE  WalkFinds(T, X, u, Visit(T, X, f, u))
<1> DEFINE c == T[u].children
           inner == [i \in DOMAIN c |-> f[c[i]]]
           C == {i \in DOMAIN inner : inner[i].count > 0}
           stores == [i \in DOMAIN inner |-> inner[i].store]
           below == FlattenSeq(stores)
           r == Visit(T, X, f, u)
<1>1. r = [count |-> Cardinality(C),
           store |-> IF Cardinality(C) >= 2 THEN Append(below, u) ELSE below]
  BY DEF Visit, VisitWith, Quantify
<1>2. /\ c \in Seq(DOMAIN T) /\ DOMAIN c = 1 .. Len(c) /\ Len(c) \in Nat
      /\ DOMAIN inner = DOMAIN c
      /\ UNION {c[i] : i \in DOMAIN c} = u
      /\ \A i, j \in DOMAIN c : i # j => c[i] \cap c[j] = {}
  BY LenProperties DEF Shaped
<1>3. /\ \A i \in DOMAIN c : i \in C <=> c[i] \cap X # {}
      /\ C \subseteq DOMAIN c
  BY DEF WalkFinds
<1>4. /\ stores \in Seq(Seq(DOMAIN T)) /\ DOMAIN stores = DOMAIN c
      /\ \A i \in DOMAIN c :
           /\ stores[i] = f[c[i]].store
           /\ c[i] \cap X = {} => stores[i] = <<>>
           /\ c[i] \cap X # {} =>
                stores[i] # <<>> /\ Lowest(T, Last(stores[i]), c[i] \cap X)
           /\ \A s, t \in c[i] \cap X : \A v \in DOMAIN T :
                v \subseteq c[i] /\ T[v].children # <<>> /\ Lowest(T, v, {s, t})
                  => v \in ToSet(stores[i])
  <2>1. \A i \in DOMAIN c : stores[i] = f[c[i]].store /\ stores[i] \in Seq(DOMAIN T)
    BY DEF WalkFinds
  <2>2. DOMAIN stores = 1 .. Len(c) /\ DOMAIN stores = DOMAIN c
    BY <1>2
  <2> HIDE DEF stores
  <2>3. stores \in Seq(Seq(DOMAIN T))
    <3>1. stores = [i \in 1 .. Len(c) |-> stores[i]]
      BY <2>2 DEF stores
    <3>2. \A i \in 1 .. Len(c) : stores[i] \in Seq(DOMAIN T)
      BY <1>2, <2>1
    <3> QED
      BY <1>2, <3>1, <3>2, IsASeq
  <2> QED
    BY <2>1, <2>2, <2>3 DEF WalkFinds
<1>5. below \in Seq(DOMAIN T) /\ FlattensWell(stores)
  BY <1>4, FlattenFacts
<1>6. IsFiniteSet(C) /\ Cardinality(C) \in Nat
  <2>1. IsFiniteSet(1 .. Len(c))
    BY <1>2, FS_Interval
  <2> QED
    BY <1>2, <1>3, <2>1, FS_Subset, FS_CardinalityType
<1> HIDE DEF C, below, stores, inner, r
<1>7. u \cap X # {} <=> C # {}
  BY <1>2, <1>3 DEF c
<1>8. r.count = Cardinality(C) /\ (r.count > 0 <=> u \cap X # {})
  <2>1. Cardinality(C) = 0 <=> C = {}
    BY <1>6, FS_EmptySet
  <2> QED
    BY <1>1, <1>6, <1>7, <2>1
<1>9. \A v \in DOMAIN T : v \subseteq u =>
        v = u \/ \E i \in DOMAIN c : v \subseteq c[i]
  BY DEF Shaped, c
<1>10. CASE Cardinality(C) >= 2
  <2>1. r.store = Append(below, u)
    BY <1>1, <1>10
  <2>2. /\ r.store \in Seq(DOMAIN T) /\ r.store # <<>> /\ Last(r.store) = u
        /\ u \in ToSet(r.store)
        /\ \A v \in ToSet(below) : v \in ToSet(r.store)
    <3>1. /\ Append(below, u) \in Seq(DOMAIN T) /\ Len(Append(below, u)) = Len(below) + 1
          /\ \A i \in 1 .. Len(below) : Append(below, u)[i] = below[i]
          /\ Append(below, u)[Len(below) + 1] = u
          /\ DOMAIN Append(below, u) = 1 .. Len(below) + 1
          /\ DOMAIN below = 1 .. Len(below) /\ Len(below) \in Nat
      BY <1>5, AppendProperties, LenProperties
    <3>2. u \in ToSet(Append(below, u))
      BY <3>1 DEF ToSet
    <3>3. ASSUME NEW v \in ToSet(below) PROVE v \in ToSet(Append(below, u))
      <4>1. PICK i \in 1 .. Len(below) : v = below[i]
        BY <3>1 DEF ToSet
      <4>2. i \in DOMAIN Append(below, u) /\ Append(below, u)[i] = v
        BY <3>1, <4>1
      <4> QED
        BY <4>2 DEF ToSet
    <3>4. Last(Append(below, u)) = u /\ Append(below, u) # <<>>
      BY <3>1, EmptySeq DEF Last
    <3> QED
      BY <2>1, <3>1, <3>2, <3>3, <3>4
  <2>3. ASSUME NEW i \in DOMAIN c, u \cap X \subseteq c[i] PROVE FALSE
    <3>1. \E j \in C : j # i
      <4> SUFFICES ASSUME C \subseteq {i} PROVE FALSE
        BY <1>3
      <4>1. IsFiniteSet({i}) /\ Cardinality({i}) = 1
        BY FS_Singleton
      <4>2. Cardinality(C) <= Cardinality({i})
        BY <4>1, FS_Subset
      <4> QED
        BY <1>6, <1>10, <4>1, <4>2
    <3>2. PICK j \in C : j # i
      BY <3>1
    <3> QED
      BY <1>2, <1>3, <2>3, <3>2
  <2>4. Lowest(T, u, u \cap X)
    BY <2>3 DEF Lowest, c
  <2>5. ASSUME NEW s \in u \cap X, NEW t \in u \cap X, NEW v \in DOMAIN T,
               v \subseteq u, T[v].children # <<>>, Lowest(T, v, {s, t})
        PROVE  v \in ToSet(r.store)
    <3>1. CASE v = u
      BY <2>2, <3>1
    <3>2. CASE v # u
      <4>1. PICK i \in DOMAIN c : v \subseteq c[i]
        BY <1>9, <2>5, <3>2
      <4>2. s \in c[i] \cap X /\ t \in c[i] \cap X
        BY <2>5, <4>1 DEF Lowest
      <4>3. v \in ToSet(stores[i])
        BY <1>4, <2>5, <4>1, <4>2
      <4>4. v \in ToSet(below)
        BY <1>4, <1>5, <4>3 DEF FlattensWell, below
      <4> QED
        BY <2>2, <4>4
    <3> QED
      BY <3>1, <3>2
  <2>6. u \cap X # {}
    BY <1>6, <1>8, <1>10
  <2> QED
    BY <1>6, <1>8, <2>2, <2>4, <2>5, <2>6 DEF WalkFinds, r
<1>11. CASE Cardinality(C) < 2 /\ C # {}
  <2>1. PICK i \in C : C = {i}
    <3>1. PICK i \in C : TRUE
      BY <1>11
    <3>2. ASSUME NEW j \in C, j # i PROVE FALSE
      <4>0. IsFiniteSet({i}) /\ Cardinality({i}) = 1
        BY FS_Singleton
      <4>1. Cardinality({i, j}) = 2 /\ {i, j} \subseteq C
        <5>1. Cardinality({i} \cup {j}) = 1 + 1
          BY <3>2, <4>0, FS_AddElement
        <5>2. {i} \cup {j} = {i, j} /\ {i, j} \subseteq C
          BY <3>1, <3>2
        <5>3. Cardinality({i, j}) = 1 + 1
          BY <5>1, <5>2, Zenon
        <5> QED
          BY <5>2, <5>3
      <4>2. Cardinality({i, j}) <= Cardinality(C)
        BY <1>6, <4>1, FS_Subset
      <4> QED
        BY <1>6, <1>11, <4>1, <4>2
    <3> QED
      BY <3>2
  <2>2. i \in DOMAIN c /\ u \cap X = c[i] \cap X /\ c[i] \cap X # {}
    <3>1. i \in DOMAIN c /\ c[i] \cap X # {} /\ c[i] \subseteq u
      BY <1>2, <1>3
    <3>2. ASSUME NEW s \in u \cap X PROVE s \in c[i]
      <4>1. PICK j \in DOMAIN c : s \in c[j]
        BY <1>2
      <4>2. j = i
        BY <1>3, <2>1, <4>1
      <4> QED
        BY <4>1, <4>2
    <3> QED
      BY <3>1, <3>2
  <2>3. \A j \in DOMAIN stores : j # i => stores[j] = <<>>
    BY <1>3, <1>4, <2>1
  <2>4. below = stores[i]
    BY <1>4, <1>5, <2>2, <2>3 DEF FlattensWell, below
  <2>5. r.store = stores[i]
    BY <1>1, <1>6, <1>11, <2>4
  <2>6. /\ r.store \in Seq(DOMAIN T) /\ r.store # <<>>
        /\ Lowest(T, Last(r.store), u \cap X)
    BY <1>4, <1>5, <2>2, <2>4, <2>5
  <2>7. ASSUME NEW s \in u \cap X, NEW t \in u \cap X, NEW v \in DOMAIN T,
               v \subseteq u, T[v].children # <<>>, Lowest(T, v, {s, t})
        PROVE  v \in ToSet(r.store)
    <3>1. v # u
      BY <2>2, <2>7 DEF Lowest, c
    <3>2. PICK j \in DOMAIN c : v \subseteq c[j]
      BY <1>9, <2>7, <3>1
    <3>3. s \in c[j] /\ s \in c[i]
      BY <2>2, <2>7, <3>2 DEF Lowest
    <3>4. j = i
      BY <1>2, <2>2, <3>2, <3>3
    <3> QED
      BY <1>4, <2>2, <2>5, <2>7, <3>2, <3>4
  <2> QED
    BY <1>6, <1>8, <2>2, <2>6, <2>7 DEF WalkFinds, r
<1>12. CASE C = {}
  <2>1. \A j \in DOMAIN stores : stores[j] = <<>>
    BY <1>3, <1>4, <1>12
  <2>2. below = <<>>
    BY <1>5, <2>1 DEF FlattensWell, below
  <2>3. Cardinality(C) = 0
    BY <1>12, FS_EmptySet
  <2>4. r.store = <<>> /\ r.store \in Seq(DOMAIN T)
    BY <1>1, <1>5, <2>2, <2>3
  <2>5. u \cap X = {}
    BY <1>7, <1>12
  <2> QED
    BY <1>6, <1>8, <2>4, <2>5 DEF WalkFinds, r
<1> QED
  BY <1>6, <1>10, <1>11, <1>12

(* The walk from the root.                                                 *)
LEMMA WalkIsRight ==
  ASSUME NEW T, NEW root, Shaped(T, root), NEW X
  PROVE  WalkFinds(T, X, root, lca_impl(T, root, X))
<1>1. PICK f : /\ DOMAIN f = DOMAIN T
               /\ \A u \in DOMAIN T : f[u] = Visit(T, X, f, u)
               /\ lca_impl(T, root, X) = f[root]
  BY WalkExists
<1> DEFINE K == {k \in Nat : \A u \in DOMAIN T :
                   Cardinality(u) <= k => WalkFinds(T, X, u, f[u])}
<1>2. \A u \in DOMAIN T : Cardinality(u) \in Nat /\ Cardinality(u) # 0
  BY FS_CardinalityType, FS_EmptySet DEF Shaped
<1>3. 0 \in K
  BY <1>2
<1>4. ASSUME NEW k \in Nat, k \in K PROVE k + 1 \in K
  <2> SUFFICES ASSUME NEW u \in DOMAIN T, Cardinality(u) <= k + 1
               PROVE  WalkFinds(T, X, u, f[u])
    OBVIOUS
  <2>1. ASSUME NEW i \in DOMAIN T[u].children
        PROVE  WalkFinds(T, X, T[u].children[i], f[T[u].children[i]])
    <3>1. /\ T[u].children[i] \in DOMAIN T
          /\ Cardinality(T[u].children[i]) \in Nat /\ Cardinality(u) \in Nat
          /\ Cardinality(T[u].children[i]) < Cardinality(u)
      BY ChildSmaller
    <3>2. Cardinality(T[u].children[i]) <= k
      BY <3>1
    <3> QED
      BY <1>4, <3>1, <3>2
  <2>2. WalkFinds(T, X, u, Visit(T, X, f, u))
    <3>1. CASE T[u].children = <<>>
      BY <3>1, LeafFinds
    <3>2. CASE T[u].children # <<>>
      BY <2>1, <3>2, InnerFinds
    <3> QED
      BY <3>1, <3>2
  <2> QED
    BY <1>1, <2>2
<1> HIDE DEF K
<1>5. \A k \in Nat : k \in K
  BY <1>3, <1>4, NatSetInduction
<1>6. root \in DOMAIN T
  BY DEF Shaped
<1> QED
  BY <1>1, <1>2, <1>5, <1>6 DEF K


(* The splitting tree has this shape.                                      *)
LEMMA TreeIsShaped ==
  ASSUME IInv, LeavesCover
  PROVE  Shaped(tree, State)
<1>1. /\ TypeOK /\ TreeShape /\ ChildrenPartition /\ State \in DOMAIN tree
      /\ IsFiniteSet(DOMAIN tree)
      /\ \A u \in DOMAIN tree : IsFiniteSet(u) /\ u \subseteq State /\ u # {}
  BY NodesFinite DEF IInv, LeavesCover
<1>2. ASSUME NEW u \in DOMAIN tree
      PROVE  /\ tree[u].children \in Seq(DOMAIN tree)
             /\ \A v \in DOMAIN tree : v \subseteq u /\ v # u =>
                  \E i \in DOMAIN tree[u].children : v \subseteq tree[u].children[i]
             /\ tree[u].children # <<>> =>
                  /\ Len(tree[u].children) > 1
                  /\ UNION {tree[u].children[i] : i \in DOMAIN tree[u].children} = u
                  /\ \A i, j \in DOMAIN tree[u].children :
                       i # j => tree[u].children[i] \cap tree[u].children[j] = {}
  <2> DEFINE c == tree[u].children
  <2>1. c \in Seq(Node)
    BY <1>1 DEF TypeOK, splitting_tree
  <2>2. CASE u \in Leaves
    <3>1. c = <<>> /\ \A v \in DOMAIN tree : v \subseteq u => v = u
      BY <1>1, <2>2 DEF Leaves, TreeShape
    <3>2. c \in Seq(DOMAIN tree)
      BY <3>1, EmptySeq
    <3> QED
      BY <3>1, <3>2
  <2>3. CASE u \notin Leaves
    <3>1. /\ Len(c) > 1
          /\ UNION {c[i] : i \in DOMAIN c} = u
          /\ \A i, j \in DOMAIN c : i # j => c[i] \cap c[j] = {}
          /\ \A i \in DOMAIN c :
               c[i] \in DOMAIN tree /\ tree[c[i]].depth = tree[u].depth + 1
      BY <1>1, <2>3 DEF ChildrenPartition, Internal
    <3>2. c \in Seq(DOMAIN tree)
      <4>1. \A i \in 1 .. Len(c) : c[i] \in DOMAIN tree
        BY <2>1, <3>1, LenProperties
      <4>2. c = [i \in 1 .. Len(c) |-> c[i]] /\ Len(c) \in Nat
        BY <2>1, LenProperties, SeqDef
      <4> HIDE DEF c
      <4> QED
        BY <4>1, <4>2, IsASeq
    <3>3. ASSUME NEW v \in DOMAIN tree, v \subseteq u, v # u
          PROVE  \E i \in DOMAIN c : v \subseteq c[i]
      <4>1. PICK x \in v : TRUE
        BY <1>1
      <4>2. PICK i \in DOMAIN c : x \in c[i]
        BY <3>1, <3>3
      <4>3. /\ tree[v].depth > tree[u].depth
            /\ tree[v].depth \in Nat /\ tree[u].depth \in Nat
        <5>1. u \cap v # {}
          BY <1>1, <3>3
        <5>2. v \subseteq u /\ ~ (u \subseteq v) /\ u # v
          BY <3>3
        <5>3. tree[v].depth \in Nat /\ tree[u].depth \in Nat
          BY <1>1 DEF TypeOK, splitting_tree
        <5> QED
          BY <1>1, <5>1, <5>2, <5>3 DEF TreeShape
      <4>4. c[i] \in DOMAIN tree /\ tree[c[i]].depth = tree[u].depth + 1
        BY <3>1
      <4>5. \/ v = c[i] \/ v \subseteq c[i]
            \/ tree[c[i]].depth > tree[v].depth
        BY <1>1, <4>2, <4>4 DEF TreeShape
      <4> QED
        BY <4>3, <4>4, <4>5
    <3> QED
      BY <3>1, <3>2, <3>3
  <2> QED
    BY <2>2, <2>3
<1> QED
  BY <1>1, <1>2 DEF Shaped

(* There is one lowest node for a set.                                     *)
LEMMA LowestIsUnique ==
  ASSUME IInv, LeavesCover, NEW X \in Node, NEW u, NEW v,
         Lowest(tree, u, X), Lowest(tree, v, X)
  PROVE  u = v
<1>1. TreeShape /\ Shaped(tree, State) /\ u \in DOMAIN tree /\ v \in DOMAIN tree
  BY TreeIsShaped DEF IInv, Lowest
<1>2. X # {} /\ X \subseteq u /\ X \subseteq v
  BY DEF Node, Lowest
<1>3. u \cap v # {}
  BY <1>2
<1>4. ASSUME NEW x \in {u, v}, NEW y \in {u, v}, x \subseteq y, x # y PROVE FALSE
  <2>1. PICK i \in DOMAIN tree[y].children : x \subseteq tree[y].children[i]
    BY <1>1, <1>4, ZenonT(60) DEF Shaped
  <2>2. Lowest(tree, y, X) /\ X \subseteq x
    BY <1>2, <1>4
  <2>3. ~ (X \subseteq tree[y].children[i])
    BY <2>2 DEF Lowest
  <2> QED
    BY <2>1, <2>2, <2>3
<1>5. u \subseteq v \/ v \subseteq u
  BY <1>1, <1>3 DEF TreeShape
<1> QED
  BY <1>4, <1>5

(* What lca and multi_lca find for a set of states.                        *)
LEMMA LcaIsLowest ==
  ASSUME IInv, LeavesCover, NEW X \in Node
  PROVE  /\ Lowest(tree, lca(tree, State, X), X)
         /\ \A s, t \in X : \A v \in Internal :
              Lowest(tree, v, {s, t}) => v \in ToSet(multi_lca(tree, State, X))
<1> DEFINE r == lca_impl(tree, State, X)
<1>1. WalkFinds(tree, X, State, r)
  BY TreeIsShaped, WalkIsRight
<1>2. State \cap X = X /\ X # {}
  BY DEF Node
<1>3. Lowest(tree, Last(r.store), X)
  BY <1>1, <1>2 DEF WalkFinds
<1>4. \A s, t \in X : \A v \in DOMAIN tree :
        v \subseteq State /\ tree[v].children # <<>> /\ Lowest(tree, v, {s, t}) =>
          v \in ToSet(r.store)
  BY <1>1, <1>2 DEF WalkFinds
<1>5. \A v \in Internal : v \in DOMAIN tree /\ v \subseteq State
                          /\ tree[v].children # <<>>
  BY NodesFinite DEF IInv, Internal, Leaves
<1> QED
  BY <1>3, <1>4, <1>5 DEF lca, multi_lca

(* The walks of lca and multi_lca find what they are asked for, in every   *)
(* splitting tree and for every set of states.                             *)
THEOREM LcaIsRight == Spec => []LcaAgrees
<1>1. IInv /\ TheoryInv => LcaAgrees
  <2> SUFFICES ASSUME IInv, TheoryInv PROVE LcaAgrees
    OBVIOUS
  <2>1. LeavesCover
    BY DEF TheoryInv
  <2> SUFFICES ASSUME NEW X \in Node
               PROVE  /\ \A u \in DOMAIN tree :
                           IsLca(u, X) <=> u = lca(tree, State, X)
                      /\ \A s, t \in X : \A u \in Internal :
                           IsLca(u, {s, t}) =>
                             u \in ToSet(multi_lca(tree, State, X))
    BY DEF LcaAgrees
  <2>2. \A u \in DOMAIN tree : \A Y : IsLca(u, Y) <=> Lowest(tree, u, Y)
    BY DEF IsLca, Lowest
  <2>3. /\ Lowest(tree, lca(tree, State, X), X)
        /\ \A s, t \in X : \A v \in Internal :
             Lowest(tree, v, {s, t}) => v \in ToSet(multi_lca(tree, State, X))
    BY <2>1, LcaIsLowest
  <2>4. \A u \in DOMAIN tree : Lowest(tree, u, X) => u = lca(tree, State, X)
    BY <2>1, <2>3, LowestIsUnique
  <2>5. Internal \subseteq DOMAIN tree
    BY DEF Internal
  <2> QED
    BY <2>2, <2>3, <2>4, <2>5
<1> QED
  BY <1>1, Invariance, TheoryInvariance, PTL

-----------------------------------------------------------------------------
(* What the tree of pairwise separating words promises to whoever walks it.*)

(* T is a tree below the set of all states, and two states that are not    *)
(* equivalent are told apart by the separator of the lowest node that has  *)
(* both.                                                                   *)
Tells(m, T) ==
  /\ Shaped(T, State)
  /\ \A u \in DOMAIN T : T[u].separator \in Word
  /\ \A s, t \in State : <<s, t>> \notin Equivalence(m) =>
       \E u \in DOMAIN T :
         /\ T[u].children # <<>> /\ Lowest(T, u, {s, t})
         /\ T[u].separator # <<>>
         /\ applyWord(m, s, T[u].separator).out
              # applyWord(m, t, T[u].separator).out

(* The tree of a Hopcroft call tells all states apart that can be told     *)
(* apart, however the inputs were shuffled.                                *)
THEOREM HopcroftTells ==
  Spec => [](pc = "returned" /\ ~ opt.check_validity /\ ~ opt.assert_minimal_order
               => Tells(g, tree))
<1>1. IInv /\ TheoryInv =>
        (pc = "returned" /\ ~ opt.check_validity /\ ~ opt.assert_minimal_order
           => Tells(g, tree))
  <2> SUFFICES ASSUME IInv, TheoryInv, pc = "returned",
                      ~ opt.check_validity, ~ opt.assert_minimal_order
               PROVE  Tells(g, tree)
    OBVIOUS
  <2>1. /\ LeavesCover /\ Shaped(tree, State) /\ N - 1 \in Nat
        /\ \A l \in Leaves : Cardinality(l) # 1 => Stuck(l)
    BY TreeIsShaped, SizesAssumption DEF TheoryInv, IInv, NothingLeftToSplit
  <2>2. \A u \in DOMAIN tree : tree[u].separator \in Word
    BY DEF IInv, TypeOK, splitting_tree
  <2>3. ASSUME NEW s \in State, NEW t \in State, <<s, t>> \notin Equivalence(g)
        PROVE  \E u \in DOMAIN tree :
                 /\ tree[u].children # <<>> /\ Lowest(tree, u, {s, t})
                 /\ tree[u].separator # <<>>
                 /\ applyWord(g, s, tree[u].separator).out
                      # applyWord(g, t, tree[u].separator).out
    <3> DEFINE u == lca(tree, State, {s, t})
               c == tree[u].children
    <3>1. Lowest(tree, u, {s, t})
      BY <2>1, LcaIsLowest DEF Node
    <3> HIDE DEF u
    <3>2. u \in DOMAIN tree /\ s \in u /\ t \in u
      BY <3>1 DEF Lowest
    <3>3. u \in Internal
      <4>1. ASSUME u \in Leaves PROVE FALSE
        <5>1. <<s, t>> \in EquivalentUpTo(g, N - 1)
          BY <2>1, <3>2, <4>1, LeavesAreEquivalent
        <5> QED
          BY <2>3, <5>1 DEF Equivalence
      <4> QED
        BY <3>2, <4>1 DEF Internal
    <3>4. PICK i \in DOMAIN c : s \in c[i]
      BY <3>2, <3>3 DEF IInv, ChildrenPartition
    <3>5. PICK j \in DOMAIN c : t \in c[j]
      BY <3>2, <3>3 DEF IInv, ChildrenPartition
    <3>6. i # j
      BY <3>1, <3>4, <3>5 DEF Lowest
    <3>7. /\ tree[u].separator # <<>>
          /\ out(s, tree[u].separator) # out(t, tree[u].separator)
      BY <3>3, <3>4, <3>5, <3>6 DEF IInv, LastOutputSeparates
    <3>8. c # <<>>
      BY <3>3 DEF Internal, Leaves
    <3> QED
      BY <3>1, <3>2, <3>7, <3>8 DEF out
  <2> QED
    BY <2>1, <2>2, <2>3 DEF Tells
<1> QED
  BY <1>1, Invariance, TheoryInvariance, PTL

=============================================================================
