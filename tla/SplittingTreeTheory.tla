-------------------------- MODULE SplittingTreeTheory --------------------------
(***************************************************************************)
(* What the splitting tree is for: the abstract specification that the     *)
(* loop implements, and its results measured against equivalence.          *)
(***************************************************************************)
EXTENDS SplittingTree, MachineTheory, Lca

Refinement == INSTANCE PartitionRefinement WITH
  machine <- g,
  constrained <- opt.check_validity \/ opt.assert_minimal_order,
  blocks <- Leaves, done <- pc = "returned"

(* The loop refines a partition: each step divides one leaf by one symbol  *)
(* or divides nothing, and without check_validity and the minimal order    *)
(* the function returns only when no leaf can be divided any more.         *)
RefinesPartition == Refinement!Spec

(* Hopcroft style, in any order: the leaves are the classes of equivalent  *)
(* states when the function returns.                                       *)
LeavesAreClasses ==
  pc = "returned" /\ ~ opt.check_validity /\ ~ opt.assert_minimal_order =>
    Leaves = Classes(g)

(* "If this is too much, there is no complete splitting tree": the tree of *)
(* Lee and Yannakakis is complete exactly when the machine has an adaptive *)
(* distinguishing sequence.                                                *)
CompleteIffADS ==
  pc = "returned" /\ opt.check_validity =>
    (HasADS(g) <=> \A u \in Leaves : Cardinality(u) = 1)

(* "used to produce minimal (pairwise) separating sequences": no shorter   *)
(* word tells apart two states that lie in different children.             *)
SeparatorsMinimal ==
  opt.assert_minimal_order =>
    \A u \in Internal : \A i, j \in DOMAIN tree[u].children :
      i # j => \A s \in tree[u].children[i], t \in tree[u].children[j] :
        <<s, t>> \in EquivalentUpTo(g, Len(tree[u].separator) - 1)

(* The walk of lca finds, for every set of states that could be asked for, *)
(* the one node that contains the set while none of its children does; and *)
(* the walk of multi_lca passes, for any two states of the set that the    *)
(* tree tells apart, the node whose separator tells them apart.            *)
LcaAgrees ==
  pc = "returned" =>
    \A X \in Node :
      LET found  == lca(tree, State, X)
          passed == ToSet(multi_lca(tree, State, X))
      IN  /\ \A u \in DOMAIN tree : IsLca(u, X) <=> u = found
          /\ \A s, t \in X : \A u \in Internal :
               IsLca(u, {s, t}) => u \in passed

=============================================================================
