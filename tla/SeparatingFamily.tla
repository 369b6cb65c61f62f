--------------------------- MODULE SeparatingFamily ---------------------------
(***************************************************************************)
(* The suffixes of the test suite, as main computes them: the splitting    *)
(* tree of pairwise separating words (Hopcroft style), the decision tree   *)
(* of Lee and Yannakakis, and create_separating_family, which takes the    *)
(* words of the decision tree and adds pairwise separating words where two *)
(* states end in the same node.                                            *)
(***************************************************************************)
EXTENDS AdaptiveDistinguishingSequence, Trie, MachineTheory

VARIABLES
  h_tree, h_succession, h_is_complete, h_work,     \* the Hopcroft call
  h_days_without_progress, h_current_order, h_split_in_current_order, h_pc,
  use_distinguishing_sequence,   \* suffix mode HADS, otherwise HSI
  stack,     \* pairs of a word and a node of the decision tree
  family,    \* local_suffixes of every state
  fam_pc     \* "loop" or "returned"

h_result == <<h_tree, h_succession, h_is_complete>>
h_vars == <<h_result, h_work, h_days_without_progress, h_current_order,
            h_split_in_current_order, h_pc>>
fam_vars == <<stack, family, fam_pc>>
main_vars == <<vars, ads_vars, h_vars, fam_vars, use_distinguishing_sequence>>

Hopcroft == INSTANCE SplittingTree WITH
  Options <- {randomized_hopcroft_style}, opt <- randomized_hopcroft_style,
  tree <- h_tree,
  succession <- h_succession, is_complete <- h_is_complete, work <- h_work,
  days_without_progress <- h_days_without_progress,
  current_order <- h_current_order,
  split_in_current_order <- h_split_in_current_order, pc <- h_pc

-----------------------------------------------------------------------------
(* A trie of these words, inserted one after the other, and flattened.     *)
Flattened(ws) == flatten(insert_all(ws))

(* Mutant: the word of the decision tree only.                             *)
suffixes_uio(uio, roots, s) == Flattened(<<uio>>)

(* The word uio, and the separators of those roots that hold s; a root     *)
(* that is a leaf has the empty separator.                                 *)
suffixes(uio, roots, s) ==
  Flattened(<<uio>> \o FlattenSeq([i \in DOMAIN roots |->
    IF s \in roots[i] THEN << h_tree[roots[i]].separator >> ELSE <<>>]))

FamInit ==
  /\ stack = << <<(<<>>), State>> >>
  /\ family = [s \in State |-> <<>>]
  /\ fam_pc = "loop"

(* A leaf: the word that leads here, and words for the pairs that it holds.*)
FamLeaf == \E n \in DOMAIN sequence :
  /\ fam_pc = "loop"
  /\ stack # <<>> /\ stack[1][2] = n
  /\ sequence[n].children = <<>>
  /\ \E roots \in {multi_lca(h_tree, State, n)} :
       family' = [s \in State |->
         IF s \in n THEN suffixes(stack[1][1], roots, s) ELSE family[s]]
  /\ stack' = Tail(stack)
  /\ UNCHANGED fam_pc

(* An inner node: extend the word and visit the children, last one first.  *)
FamInner == \E n \in DOMAIN sequence :
  /\ fam_pc = "loop"
  /\ stack # <<>> /\ stack[1][2] = n
  /\ sequence[n].children # <<>>
  /\ stack' = Reverse([i \in DOMAIN sequence[n].children |->
                <<stack[1][1] \o sequence[n].w, sequence[n].children[i]>>])
              \o Tail(stack)
  /\ UNCHANGED <<family, fam_pc>>

FamFinish ==
  /\ fam_pc = "loop"
  /\ stack = <<>>
  /\ fam_pc' = "returned"
  /\ UNCHANGED <<stack, family>>

FamNext == FamLeaf \/ FamInner \/ FamFinish

-----------------------------------------------------------------------------
(* main: one call after the other.  Without HADS the decision tree is made *)
(* of result(graph_size), a tree of one leaf that was never refined.       *)
MainInit ==
  /\ use_distinguishing_sequence \in BOOLEAN
  /\ Init /\ AdsInit /\ FamInit /\ Hopcroft!Init

SkipLeeYannakakis ==
  /\ ~ use_distinguishing_sequence
  /\ pc = "loop"
  /\ pc' = "returned"
  /\ UNCHANGED <<g, opt, result, work, days_without_progress, current_order,
                 split_in_current_order>>

LeeYannakakis == use_distinguishing_sequence /\ Next

MainNext ==
  \/ /\ Hopcroft!Next
     /\ UNCHANGED <<vars, ads_vars, fam_vars, use_distinguishing_sequence>>
  \/ /\ h_pc = "returned"
     /\ LeeYannakakis \/ SkipLeeYannakakis
     /\ UNCHANGED <<ads_vars, h_vars, fam_vars, use_distinguishing_sequence>>
  \/ /\ h_pc = "returned" /\ pc = "returned"
     /\ AdsNext
     /\ UNCHANGED <<vars, h_vars, fam_vars, use_distinguishing_sequence>>
  \/ /\ ads_pc = "returned"
     /\ FamNext
     /\ UNCHANGED <<vars, ads_vars, h_vars, use_distinguishing_sequence>>

MainSpec == MainInit /\ [][MainNext]_main_vars
MainFairSpec == MainSpec /\ WF_main_vars(MainNext)

-----------------------------------------------------------------------------
(* Properties.                                                             *)

(* The words v and w have a common prefix on which s and t answer          *)
(* differently.                                                            *)
SeparatedBy(s, t, v, w) ==
  \E k \in 1 .. Len(v) :
    /\ k <= Len(w)
    /\ SubSeq(v, 1, k) = SubSeq(w, 1, k)
    /\ out(s, SubSeq(v, 1, k)) # out(t, SubSeq(v, 1, k))

(* "All suffixes are harmonized, meaning that sequences share prefixes     *)
(* among the family": two states that are not equivalent are told apart by *)
(* a common prefix of a word of the one and a word of the other, although  *)
(* each keeps a set of its own and drops the prefixes in it, and whatever  *)
(* part of the work the decision tree has left to the pairwise words.      *)
Harmonised ==
  fam_pc = "returned" =>
    \A s, t \in State :
      <<s, t>> \notin Equivalence(g) =>
        \E v \in ToSet(family[s]), w \in ToSet(family[t]) : SeparatedBy(s, t, v, w)

=============================================================================
