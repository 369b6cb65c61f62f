------------------- MODULE AdaptiveDistinguishingSequence -------------------
(***************************************************************************)
(* create_adaptive_distinguishing_sequence, run on the result of           *)
(* create_splitting_tree.  The "sequence" is a decision tree.  A node      *)
(* holds the possible current states with the initial states they come     *)
(* from (CI), sorted by current state; it is named by its set of initial   *)
(* states, which shrinks at every step down.                               *)
(***************************************************************************)
EXTENDS SplittingTree, Lca

VARIABLES
  sequence,   \* the nodes made so far
  ads_work,   \* queue of nodes to investigate
  ads_pc      \* "loop" or "returned"

ads_vars == <<sequence, ads_work, ads_pc>>

AdsNode(CI, d) == [CI |-> CI, children |-> <<>>, w |-> <<>>, depth |-> d]

Currents(CI) == {CI[k][1] : k \in DOMAIN CI}
Initials(CI) == {CI[k][2] : k \in DOMAIN CI}

(* Mutant: sorted by initial state.                                        *)
sorted_by_initial(pairs) ==
  CHOOSE q \in [1 .. Cardinality(pairs) -> pairs] :
    \A i, j \in DOMAIN q : i < j => q[i][2] < q[j][2]

(* The order of pairs, and std::sort with it.                              *)
precedes(p, q) == p[1] < q[1] \/ (p[1] = q[1] /\ p[2] < q[2])
sorted(pairs) ==
  CHOOSE q \in [1 .. Cardinality(pairs) -> pairs] :
    \A i, j \in DOMAIN q : i < j => precedes(q[i], q[j])

(* The members of a set of integers, in order: so the states of a node of  *)
(* the splitting tree are kept.                                            *)
increasing(S) ==
  CHOOSE q \in [1 .. Cardinality(S) -> S] :
    \A i, j \in DOMAIN q : i < j => q[i] < q[j]

lca_of(CI) == lca(tree, State, Currents(CI))

(* Mutant: a state that is not in the child skips one of the child's.      *)
MergeSkips(CI, c, row) ==
  LET join[at \in (1 .. Len(CI) + 1) \X (1 .. Len(c) + 1)] ==
        LET i == at[1]
            j == at[2]
        IN  IF i > Len(CI) \/ j > Len(c) THEN {}
            ELSE IF CI[i][1] < c[j] THEN join[<<i + 1, j + 1>>]
            ELSE IF CI[i][1] > c[j] THEN join[<<i, j + 1>>]
            ELSE {<<row[CI[i][1]], CI[i][2]>>} \cup join[<<i + 1, j + 1>>]
  IN  join[<<1, 1>>]

(* Mutant: the current states are not advanced.                            *)
MergeStays(CI, c, row) ==
  LET join[at \in (1 .. Len(CI) + 1) \X (1 .. Len(c) + 1)] ==
        LET i == at[1]
            j == at[2]
        IN  IF i > Len(CI) \/ j > Len(c) THEN {}
            ELSE IF CI[i][1] < c[j] THEN join[<<i + 1, j>>]
            ELSE IF CI[i][1] > c[j] THEN join[<<i, j + 1>>]
            ELSE {CI[i]} \cup join[<<i + 1, j + 1>>]
  IN  join[<<1, 1>>]

(* The merge of CI with the states of a child c of the splitting tree.     *)
Merge(CI, c, row) ==
  LET join[at \in (1 .. Len(CI) + 1) \X (1 .. Len(c) + 1)] ==
        LET i == at[1]
            j == at[2]
        IN  IF i > Len(CI) \/ j > Len(c) THEN {}
            ELSE IF CI[i][1] < c[j] THEN join[<<i + 1, j>>]
            ELSE IF CI[i][1] > c[j] THEN join[<<i, j + 1>>]
            ELSE {<<row[CI[i][1]], CI[i][2]>>} \cup join[<<i + 1, j + 1>>]
  IN  join[<<1, 1>>]

(* The sorted CI's of the children of a node, empty ones dropped.          *)
Successors(CI, oboom) ==
  LET row  == succession[tree[oboom].depth + 1]
      c    == tree[oboom].children
      each == [i \in DOMAIN c |-> sorted(Merge(CI, increasing(c[i]), row))]
      kept == increasing({i \in DOMAIN c : each[i] # <<>>})
  IN  [k \in DOMAIN kept |-> each[kept[k]]]

AdsInit ==
  /\ sequence =
       [n \in {State} |-> AdsNode([k \in 1 .. N |-> <<k - 1, k - 1>>], 0)]
  /\ ads_work = <<State>>
  /\ ads_pc = "loop"

(* Mutant: pairs are left together.                                        *)
UnsplittablePair(CI) == Len(CI) < 3 \/ lca_of(CI) \in Leaves

(* Nothing to tell apart, or nothing that tells it apart.                  *)
Unsplittable(CI) == Len(CI) < 2 \/ lca_of(CI) \in Leaves

AdsPop(node) ==
  /\ ads_pc = "loop"
  /\ ads_work # <<>>
  /\ node = Head(ads_work)

AdsLeave == \E node \in DOMAIN sequence :
  /\ AdsPop(node)
  /\ Unsplittable(sequence[node].CI)
  /\ ads_work' = Tail(ads_work)
  /\ UNCHANGED <<sequence, ads_pc>>

AdsSplit == \E node \in DOMAIN sequence :
  /\ AdsPop(node)
  /\ ~ Unsplittable(sequence[node].CI)
  /\ LET oboom    == lca_of(sequence[node].CI)
         cis      == Successors(sequence[node].CI, oboom)
         children == [i \in DOMAIN cis |-> Initials(cis[i])]
     IN  /\ sequence' =
              [n \in DOMAIN sequence \cup {children[i] : i \in DOMAIN cis} |->
                IF n = node
                  THEN [sequence[n] EXCEPT !.w = tree[oboom].separator,
                                           !.children = children]
                ELSE IF n \in DOMAIN sequence THEN sequence[n]
                ELSE AdsNode(CHOOSE ci \in ToSet(cis) : Initials(ci) = n,
                             sequence[node].depth + 1)]
         /\ ads_work' = Tail(ads_work) \o children
  /\ UNCHANGED ads_pc

AdsFinish ==
  /\ ads_pc = "loop"
  /\ ads_work = <<>>
  /\ ads_pc' = "returned"
  /\ UNCHANGED <<sequence, ads_work>>

AdsNext == AdsLeave \/ AdsSplit \/ AdsFinish

(* "Lee & Yannakakis I", then "Lee & Yannakakis II".                       *)
LyInit == Init /\ AdsInit
LyNext == \/ Next /\ UNCHANGED ads_vars
          \/ pc = "returned" /\ AdsNext /\ UNCHANGED vars

LySpec == LyInit /\ [][LyNext]_<<vars, ads_vars>>

LyFairSpec == LySpec /\ WF_<<vars, ads_vars>>(LyNext)

-----------------------------------------------------------------------------
(* Properties.                                                             *)

(* The word along the branch from the root to a node: the nodes above it   *)
(* are the larger sets of initial states.                                  *)
BranchWord(node) ==
  LET above == {n \in DOMAIN sequence : node \subseteq n /\ n # node}
  IN  FlattenSeq([k \in 1 .. Cardinality(above) |->
        LET n == CHOOSE n \in above : sequence[n].depth = k - 1
        IN  sequence[n].w])

(* The types of the variables, CI's sorted.                                *)
AdsTypeOK ==
  /\ DOMAIN sequence \subseteq Node
  /\ \A n \in DOMAIN sequence :
       /\ sequence[n].CI \in Seq(State \X State)
       /\ \A k \in 1 .. Len(sequence[n].CI) - 1 :
            sequence[n].CI[k][1] < sequence[n].CI[k + 1][1]
       /\ sequence[n].children \in Seq(DOMAIN sequence)
       /\ sequence[n].w \in Word
       /\ sequence[n].depth \in Nat
  /\ ads_work \in Seq(DOMAIN sequence)
  /\ ads_pc \in {"loop", "returned"}

(* The children of a node share out its states: every initial state goes   *)
(* on in exactly one of at least two children.  The merge loses none,      *)
(* although it skips ahead in both lists, and the assertion of the code    *)
(* holds, whether or not the tree is complete.                             *)
NoStateLost ==
  \A n \in DOMAIN sequence :
    LET c == sequence[n].children
    IN  c # <<>> =>
          /\ Len(c) > 1
          /\ UNION {c[i] : i \in DOMAIN c} = n
          /\ \A i, j \in DOMAIN c : i # j => c[i] \cap c[j] = {}

(* The experiment tracks the machine: along the branch to a node all of    *)
(* its initial states answer alike and arrive at the current states that   *)
(* the successor cache predicted, no two at the same.                      *)
CurrentsAreReached ==
  \A n \in DOMAIN sequence :
    LET w  == BranchWord(n)
        CI == sequence[n].CI
    IN  /\ Initials(CI) = n
        /\ \A k \in DOMAIN CI : CI[k][1] = to(CI[k][2], w)
        /\ \A k, l \in DOMAIN CI : k # l => CI[k][1] # CI[l][1]
        /\ \A j \in 1 .. Len(w) : \A s, t \in n :
             out(s, SubSeq(w, 1, j)) = out(t, SubSeq(w, 1, j))

(* If the splitting tree is complete, the decision tree identifies every   *)
(* state: when the call is over, each is alone in its node, although the   *)
(* words it follows were made for other sets of states.                    *)
Identifies ==
  ads_pc = "returned" /\ (\A u \in Leaves : Cardinality(u) = 1) =>
    \A n \in DOMAIN sequence :
      sequence[n].children = <<>> => Cardinality(n) = 1

=============================================================================
