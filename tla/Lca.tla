--------------------------------- MODULE Lca ---------------------------------
(***************************************************************************)
(* The walk over a splitting tree that finds lowest common ancestors       *)
(* (lca_impl, lca and multi_lca of lib/splitting_tree.hpp).  T is the tree *)
(* as SplittingTree keeps it, root its root, X the states looked for.      *)
(***************************************************************************)
EXTENDS FiniteSetsExt, SequencesExt

(* Mutants: one child with a state is enough to store a node, and a node   *)
(* that is stored takes the place of those below it.                       *)
lca_impl_of_one(T, root, X) ==
  LET visit[u \in DOMAIN T] ==
        LET inner == [i \in DOMAIN T[u].children |-> visit[T[u].children[i]]]
            count == Quantify(DOMAIN inner, LAMBDA i : inner[i].count > 0)
            below == FlattenSeq([i \in DOMAIN inner |-> inner[i].store])
        IN  IF T[u].children = <<>>
              THEN IF u \cap X # {} THEN [count |-> 1, store |-> <<u>>]
                                    ELSE [count |-> 0, store |-> <<>>]
              ELSE [count |-> count,
                    store |-> IF count >= 1 THEN Append(below, u) ELSE below]
  IN  visit[root]
lca_impl_topmost(T, root, X) ==
  LET visit[u \in DOMAIN T] ==
        LET inner == [i \in DOMAIN T[u].children |-> visit[T[u].children[i]]]
            count == Quantify(DOMAIN inner, LAMBDA i : inner[i].count > 0)
            below == FlattenSeq([i \in DOMAIN inner |-> inner[i].store])
        IN  IF T[u].children = <<>>
              THEN IF u \cap X # {} THEN [count |-> 1, store |-> <<u>>]
                                    ELSE [count |-> 0, store |-> <<>>]
              ELSE [count |-> count,
                    store |-> IF count >= 2 THEN <<u>> ELSE below]
  IN  visit[root]

(* The number of children with a state of X, and the nodes stored on the   *)
(* way, children before their parent.                                      *)
lca_impl(T, root, X) ==
  LET visit[u \in DOMAIN T] ==
        LET inner == [i \in DOMAIN T[u].children |-> visit[T[u].children[i]]]
            count == Quantify(DOMAIN inner, LAMBDA i : inner[i].count > 0)
            below == FlattenSeq([i \in DOMAIN inner |-> inner[i].store])
        IN  IF T[u].children = <<>>
              THEN IF u \cap X # {} THEN [count |-> 1, store |-> <<u>>]
                                    ELSE [count |-> 0, store |-> <<>>]
              ELSE [count |-> count,
                    store |-> IF count >= 2 THEN Append(below, u) ELSE below]
  IN  visit[root]

(* The last node stored.                                                   *)
lca(T, root, X) == Last(lca_impl(T, root, X).store)

(* All nodes stored.                                                       *)
multi_lca(T, root, X) == lca_impl(T, root, X).store

=============================================================================
