---------------------------- MODULE SplittingTree ----------------------------
(***************************************************************************)
(* create_splitting_tree (lib/splitting_tree.cpp): partition refinement    *)
(* with a FIFO queue of leaves.  The same loop, under different options,   *)
(* builds the tree of pairwise separating words (Hopcroft style, minimal   *)
(* Hopcroft style) and the tree of Lee and Yannakakis from which an        *)
(* adaptive distinguishing sequence is read.                               *)
(*                                                                         *)
(* A node of the tree is named by its set of states: children partition    *)
(* their parent into at least two blocks, so no set occurs twice.          *)
(***************************************************************************)
EXTENDS Mealy

CONSTANTS
  Options,   \* the options the function may be called with
  Machines   \* the machines the function may be called with

options == [check_validity : BOOLEAN, assert_minimal_order : BOOLEAN,
            cache_succesors : BOOLEAN, randomized : BOOLEAN]

ASSUME OptionsAssumption == Options \subseteq options
ASSUME MachinesAssumption == Machines \subseteq Machine

lee_yannakakis_style ==
  [check_validity |-> TRUE, assert_minimal_order |-> FALSE,
   cache_succesors |-> TRUE, randomized |-> FALSE]
hopcroft_style ==
  [check_validity |-> FALSE, assert_minimal_order |-> FALSE,
   cache_succesors |-> FALSE, randomized |-> FALSE]
min_hopcroft_style == [hopcroft_style EXCEPT !.assert_minimal_order = TRUE]
randomized_lee_yannakakis_style ==
  [lee_yannakakis_style EXCEPT !.randomized = TRUE]
randomized_hopcroft_style == [hopcroft_style EXCEPT !.randomized = TRUE]
randomized_min_hopcroft_style ==
  [min_hopcroft_style EXCEPT !.randomized = TRUE]

VARIABLES
  g,                       \* the machine, the same during the whole call
  opt,                     \* the options, the same during the whole call
  tree,                    \* the nodes made so far, root and below
  succession,              \* successor_cache: depth -> state -> state
  is_complete,
  work,                    \* queue of the leaves still to investigate
  days_without_progress,
  current_order,
  split_in_current_order,
  pc                       \* "loop", or "returned" when the call is over

result == <<tree, succession, is_complete>>
vars == <<g, opt, result, work, days_without_progress, current_order,
          split_in_current_order, pc>>

Undefined == N                       \* state(-1): no state of the machine

Node == (SUBSET State) \ {{}}
splitting_tree == [children : Seq(Node), separator : Word, depth : Nat]

Leaf(d) == [children |-> <<>>, separator |-> <<>>, depth |-> d]
Leaves == {u \in DOMAIN tree : tree[u].children = <<>>}
Internal == DOMAIN tree \ Leaves

-----------------------------------------------------------------------------
(* What one word does to a set of states.                                  *)

to(s, w)  == applyWord(g, s, w).to
out(s, w) == applyWord(g, s, w).out

successor_states(u, a) == {g[s][a].to : s \in u}

(* Mutant: a block for every output, those that no state gives included.   *)
BlocksWithEmpty(u, w) == {{t \in u : out(t, w) = y} : y \in Output}

(* partition_: the states of u grouped by an output.                       *)
new_blocks(u, w) == {{t \in u : out(t, w) = out(s, w)} : s \in u}

(* Blocks come in the order of their first states, which are sorted.       *)
InOrder(bs) ==
  {q \in [1 .. Cardinality(bs) -> bs] :
     /\ \A b \in bs : \E i \in DOMAIN q : q[i] = b
     /\ \A i, j \in DOMAIN q :
          i < j => \E s \in q[i] : \A t \in q[j] : s < t}

(* Mutants: no check, and a check of the whole set instead of each block.  *)
AlwaysValid(bs, a) == TRUE
ValidAcrossBlocks(bs, a) ==
  \A s, t \in UNION bs : g[s][a].to = g[t][a].to => s = t

is_valid(bs, a) ==
  \A b \in bs : \A s, t \in b : g[s][a].to = g[t][a].to => s = t

(* The lowest node that contains all of X.                                 *)
IsLca(u, X) ==
  /\ X \subseteq u
  /\ \A i \in DOMAIN tree[u].children : ~ (X \subseteq tree[u].children[i])

-----------------------------------------------------------------------------
(* The two ways to split a block.                                          *)

OutputStage == ~ opt.assert_minimal_order \/ current_order = 0
StateStage  == ~ opt.assert_minimal_order \/ current_order > 0

(* Mutant: a partition of one block counts as a split.                     *)
OutputSplitsOneBlock(u, a) ==
  /\ OutputStage
  /\ opt.check_validity => is_valid(new_blocks(u, <<a>>), a)

OutputSplits(u, a) ==
  /\ OutputStage
  /\ Cardinality(new_blocks(u, <<a>>)) # 1
  /\ opt.check_validity => is_valid(new_blocks(u, <<a>>), a)

(* Mutants: separators of any length, and never the root's separator.      *)
StateWordsOfAnyLength(u, a) ==
  {<<a>> \o tree[oboom].separator : oboom \in
     {v \in Internal : StateStage /\ IsLca(v, successor_states(u, a))}}
StateWordsBelowRoot(u, a) ==
  {<<a>> \o tree[oboom].separator : oboom \in
     {v \in Internal \ {State} :
        StateStage /\ IsLca(v, successor_states(u, a))}}

(* The words stage two tries on symbol a: at most one.                     *)
StateWords(u, a) ==
  {<<a>> \o tree[oboom].separator : oboom \in
     {v \in Internal :
        /\ StateStage
        /\ IsLca(v, successor_states(u, a))
        /\ opt.assert_minimal_order => Len(tree[v].separator) = current_order}}

ValidStateWords(u, a) ==
  {w \in StateWords(u, a) :
     opt.check_validity => is_valid(new_blocks(u, w), a)}

OutputSymbols(u) == {a \in Input : OutputSplits(u, a)}
StateSymbols(u)  == {a \in Input : ValidStateWords(u, a) # {}}

(* all_inputs is in increasing order, or shuffled at every pop: then any   *)
(* of the symbols that qualify may come first, and any may come last.      *)
FirstTried(A) == {a \in A : opt.randomized \/ \A b \in A : a <= b}
LastTried(A)  == {a \in A : opt.randomized \/ \A b \in A : b <= a}

-----------------------------------------------------------------------------
(* Mutant: what a failed attempt has written is not overwritten.           *)
update_succession_once(u, w) ==
  LET d    == tree[u].depth + 1
      rows == IF Len(succession) < d THEN d ELSE Len(succession)
      old(k, s) == IF k <= Len(succession) THEN succession[k][s] ELSE Undefined
  IN  succession' =
        [k \in 1 .. rows |-> [s \in State |->
            IF k = d /\ s \in u /\ old(k, s) = Undefined THEN to(s, w)
            ELSE old(k, s)]]

(* update_succession for all states of u; the rows grow when needed.       *)
update_succession(u, w) ==
  LET d    == tree[u].depth + 1
      rows == IF Len(succession) < d THEN d ELSE Len(succession)
  IN  succession' =
        [k \in 1 .. rows |->
          [s \in State |->
            IF k = d /\ s \in u THEN to(s, w)
            ELSE IF k <= Len(succession) THEN succession[k][s] ELSE Undefined]]

(* The succession row that a fruitless visit leaves behind: every word     *)
(* that was tried has overwritten it, and the last one stays.              *)
LeaveTrace(u) ==
  LET Tried == {a \in Input : StateWords(u, a) # {}}
  IN  \/ /\ Tried # {}
         /\ \E a \in LastTried(Tried) : \E w \in StateWords(u, a) :
              update_succession(u, w)
      \/ /\ Tried = {}
         /\ OutputStage
         /\ \E a \in LastTried(Input) : update_succession(u, <<a>>)
      \/ /\ Tried = {}
         /\ ~ OutputStage
         /\ UNCHANGED succession

(* Mutant: the days go on counting after a split.                          *)
SplitWithoutReset(boom, w) ==
  /\ update_succession(boom, w)
  /\ \E children \in InOrder(new_blocks(boom, w)) :
       /\ tree' = [u \in DOMAIN tree \cup new_blocks(boom, w) |->
            IF u = boom
              THEN [tree[boom] EXCEPT !.children = children, !.separator = w]
            ELSE IF u \in DOMAIN tree THEN tree[u]
            ELSE Leaf(tree[boom].depth + 1)]
       /\ work' = Tail(work) \o children
  /\ split_in_current_order' = TRUE
  /\ UNCHANGED <<g, opt, is_complete, days_without_progress, current_order,
                 pc>>

(* add_push_new_block, after the cache has been filled with this word.     *)
Split(boom, w) ==
  /\ update_succession(boom, w)
  /\ \E children \in InOrder(new_blocks(boom, w)) :
       /\ tree' = [u \in DOMAIN tree \cup new_blocks(boom, w) |->
            IF u = boom
              THEN [tree[boom] EXCEPT !.children = children, !.separator = w]
            ELSE IF u \in DOMAIN tree THEN tree[u]
            ELSE Leaf(tree[boom].depth + 1)]
       /\ work' = Tail(work) \o children
  /\ split_in_current_order' = TRUE
  /\ days_without_progress' = 0
  /\ UNCHANGED <<g, opt, is_complete, current_order, pc>>

-----------------------------------------------------------------------------
Init ==
  /\ g \in Machines
  /\ opt \in Options
  /\ tree = [u \in {State} |-> Leaf(0)]
  /\ succession = <<>>
  /\ is_complete = (N <= 1)
  /\ work = <<State>>
  /\ days_without_progress = 0
  /\ current_order = 0
  /\ split_in_current_order = FALSE
  /\ pc = "loop"

(* One turn of the loop pops boom from the front of the queue.             *)
Pop(boom) ==
  /\ pc = "loop"
  /\ work # <<>>
  /\ boom = Head(work)

SkipSingleton == \E boom \in Leaves :
  /\ Pop(boom)
  /\ Cardinality(boom) = 1
  /\ work' = Tail(work)
  /\ UNCHANGED <<g, opt, result, days_without_progress, current_order,
                 split_in_current_order, pc>>

SplitOnOutput == \E boom \in Leaves :
  /\ Pop(boom)
  /\ Cardinality(boom) # 1
  /\ \E a \in FirstTried(OutputSymbols(boom)) : Split(boom, <<a>>)

(* Mutant: the second stage does not wait for the first to fail.           *)
SplitOnStateFirst == \E boom \in Leaves :
  /\ Pop(boom)
  /\ Cardinality(boom) # 1
  /\ \E a \in FirstTried(StateSymbols(boom)) :
       \E w \in ValidStateWords(boom, a) : Split(boom, w)

SplitOnState == \E boom \in Leaves :
  /\ Pop(boom)
  /\ Cardinality(boom) # 1
  /\ OutputSymbols(boom) = {}
  /\ \E a \in FirstTried(StateSymbols(boom)) :
       \E w \in ValidStateWords(boom, a) : Split(boom, w)

(* Nothing splits this block, for the moment.                              *)
Stuck(u) ==
  /\ Cardinality(u) # 1
  /\ OutputSymbols(u) = {}
  /\ StateSymbols(u) = {}

(* Mutant: the days are not counted.                                       *)
FruitlessUncounted(boom) ==
  /\ Pop(boom)
  /\ Stuck(boom)
  /\ LeaveTrace(boom)
  /\ UNCHANGED <<g, opt, tree, days_without_progress>>

Fruitless(boom) ==
  /\ Pop(boom)
  /\ Stuck(boom)
  /\ LeaveTrace(boom)
  /\ days_without_progress' = days_without_progress + 1
  /\ UNCHANGED <<g, opt, tree>>

(* Mutant: one visit too few.                                              *)
ExhaustedEarly == days_without_progress + 1 >= Len(Tail(work))

(* As many fruitless visits in a row as there are other leaves.            *)
Exhausted == days_without_progress >= Len(Tail(work))

(* Mutant: the block is popped and not pushed again.                       *)
RequeueDrops == \E boom \in Leaves :
  /\ Fruitless(boom)
  /\ ~ Exhausted
  /\ work' = Tail(work)
  /\ UNCHANGED <<is_complete, current_order, split_in_current_order, pc>>

Requeue == \E boom \in Leaves :
  /\ Fruitless(boom)
  /\ ~ Exhausted
  /\ work' = Append(Tail(work), boom)
  /\ UNCHANGED <<is_complete, current_order, split_in_current_order, pc>>

RaiseOrder == \E boom \in Leaves :
  /\ Fruitless(boom)
  /\ Exhausted
  /\ split_in_current_order /\ opt.assert_minimal_order
  /\ current_order' = current_order + 1
  /\ split_in_current_order' = FALSE
  /\ work' = Append(Tail(work), boom)
  /\ UNCHANGED <<is_complete, pc>>

GiveUp == \E boom \in Leaves :
  /\ Fruitless(boom)
  /\ Exhausted
  /\ ~ split_in_current_order \/ ~ opt.assert_minimal_order
  /\ is_complete' = FALSE
  /\ work' = Tail(work)
  /\ pc' = "returned"
  /\ UNCHANGED <<current_order, split_in_current_order>>

(* The queue is empty: every leaf is a singleton.                          *)
Finish ==
  /\ pc = "loop"
  /\ work = <<>>
  /\ pc' = "returned"
  /\ UNCHANGED <<g, opt, result, work, days_without_progress, current_order,
                 split_in_current_order>>

Next == \/ SkipSingleton \/ SplitOnOutput \/ SplitOnState
        \/ Requeue \/ RaiseOrder \/ GiveUp \/ Finish

Spec == Init /\ [][Next]_vars

(* One sequential call: nothing can keep the loop from its next turn.      *)
FairSpec == Spec /\ WF_vars(Next)

-----------------------------------------------------------------------------
(* Properties.                                                             *)

(* The types of the variables.                                             *)
TypeOK ==
  /\ g \in Machine
  /\ opt \in options
  /\ DOMAIN tree \subseteq Node
  /\ \A u \in DOMAIN tree : tree[u] \in splitting_tree
  /\ succession \in Seq([State -> State \cup {Undefined}])
  /\ is_complete \in BOOLEAN
  /\ work \in Seq(DOMAIN tree)
  /\ days_without_progress \in Nat
  /\ current_order \in Nat
  /\ split_in_current_order \in BOOLEAN
  /\ pc \in {"loop", "returned"}

(* The two assertions of the code, over the whole life of the tree: every  *)
(* split makes at least two blocks, and the children of a node are a       *)
(* partition of its states; a child lies one level deeper.                 *)
ChildrenPartition ==
  \A u \in Internal :
    LET c == tree[u].children
    IN  /\ Len(c) > 1
        /\ UNION {c[i] : i \in DOMAIN c} = u
        /\ \A i, j \in DOMAIN c : i # j => c[i] \cap c[j] = {}
        /\ \A i \in DOMAIN c :
             c[i] \in DOMAIN tree /\ tree[c[i]].depth = tree[u].depth + 1

(* The separator of a node tells two of its states apart, by the output    *)
(* it ends with, exactly when they lie in different children; and before   *)
(* its last symbol it tells none of them apart, so that the last output    *)
(* is all that apply has to return.                                        *)
SeparatorSeparates ==
  \A u \in Internal :
    LET w == tree[u].separator
        c == tree[u].children
    IN  /\ \A i, j \in DOMAIN c : \A s \in c[i], t \in c[j] :
             i = j <=> out(s, w) = out(t, w)
        /\ \A k \in 1 .. Len(w) - 1 : \A s, t \in u :
             out(s, SubSeq(w, 1, k)) = out(t, SubSeq(w, 1, k))

(* The successor cache is right where it is read: the row of the depth of  *)
(* a split node maps its states to where the node's separator takes them,  *)
(* whatever failed attempts on this or other nodes have left in that row.  *)
CacheAgrees ==
  \A u \in Internal : \A s \in u :
    succession[tree[u].depth + 1][s] = to(s, tree[u].separator)

(* Under check_validity no split merges two states it does not separate,   *)
(* although is_valid looks at the first symbol of the separator only.      *)
SeparatorsValid ==
  opt.check_validity =>
    \A u \in Internal : \A i \in DOMAIN tree[u].children :
      \A s, t \in tree[u].children[i] :
        to(s, tree[u].separator) = to(t, tree[u].separator) => s = t

(* No leaf is lost and none is queued twice: while the loop runs the queue *)
(* holds every leaf that still can be split exactly once and never a node  *)
(* that has children.                                                      *)
QueueHoldsLeaves ==
  pc = "loop" =>
    /\ \A i \in DOMAIN work : work[i] \in Leaves
    /\ \A i, j \in DOMAIN work : work[i] = work[j] => i = j
    /\ \A u \in Leaves :
         Cardinality(u) # 1 => \E i \in DOMAIN work : work[i] = u

(* The days count what they should: the blocks visited since the last      *)
(* split wait at the end of the queue, so that there are never more days   *)
(* than blocks, and none of them can be split.                             *)
DaysAreStuck ==
  pc = "loop" /\ ~ opt.assert_minimal_order =>
    /\ days_without_progress <= Len(work)
    /\ \A u \in Leaves : \A i \in DOMAIN work :
         work[i] = u /\ i + days_without_progress > Len(work) => Stuck(u)

(* "We tried all we could": without the order constraint the function      *)
(* returns only when no leaf of more than one state can be split.          *)
NothingLeftToSplit ==
  pc = "returned" /\ ~ opt.assert_minimal_order =>
    \A u \in Leaves : Cardinality(u) # 1 => Stuck(u)

(* The call returns on every machine, complete or not, minimal or not.     *)
Terminates == <>(pc = "returned")

=============================================================================
