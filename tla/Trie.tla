--------------------------------- MODULE Trie ---------------------------------
(***************************************************************************)
(* The trie that removes prefixes from a set of words (lib/trie.hpp).  A   *)
(* node is named by the word that leads to it; a trie maps its nodes to    *)
(* their data, the letters below them in increasing order.                 *)
(***************************************************************************)
EXTENDS Integers, SequencesExt

clear == <<>>                          \* no root: the null pointer
trie_node == [p \in {<<>>} |-> <<>>]   \* a root and nothing below it

(* std::lower_bound: the letters before the key come first.                *)
lower_bound(data, key) == 1 + Cardinality({j \in DOMAIN data : data[j] < key})

Found(data, key) ==
  LET j == lower_bound(data, key) IN j <= Len(data) /\ data[j] = key

(* How many letters of w insert finds on its way down.                     *)
Depth(t, w) ==
  Cardinality({n \in 1 .. Len(w) :
                 \A m \in 1 .. n : Found(t[SubSeq(w, 1, m - 1)], w[m])})

(* What insert returns: true if the word was inserted, false if it was     *)
(* already there.  The empty word is new to the null pointer only.         *)
IsNew(t, w) == t = clear \/ Depth(t, w) < Len(w)

(* Mutant: new letters come last.                                          *)
emplace_back(data, key) == Append(data, key)

emplace(data, key) == InsertAt(data, lower_bound(data, key), key)

(* The nodes on the way to w, if nothing else is below them.               *)
chain(w) ==
  [p \in Prefixes(w) |-> IF p = w THEN <<>> ELSE <<w[Len(p) + 1]>>]

(* The trie after insert: the last node found gets a letter, and a chain   *)
(* of new nodes takes the rest of the word.                                *)
insert(t, w) ==
  LET root == IF t = clear THEN trie_node ELSE t
      n    == Depth(root, w)
      last == SubSeq(w, 1, n)
  IN  IF n = Len(w) THEN root
      ELSE [p \in DOMAIN root \cup Prefixes(w) |->
              CASE p = last                   -> emplace(root[last], w[n + 1])
                [] p \in DOMAIN root \ {last} -> root[p]
                [] p \notin DOMAIN root        -> chain(w)[p]]

(* The trie of these words, inserted one after the other.                  *)
insert_all(ws) ==
  LET t[n \in 0 .. Len(ws)] == IF n = 0 THEN clear ELSE insert(t[n - 1], ws[n])
  IN  t[Len(ws)]

(* Mutant: the words of inner nodes are visited, too.                      *)
flatten_all(t) ==
  LET for_each_impl[p \in DOMAIN t] ==
        <<p>> \o FlattenSeq([i \in DOMAIN t[p] |-> for_each_impl[Append(p, t[p][i])]])
  IN  IF t = clear THEN <<>> ELSE for_each_impl[<<>>]

(* The words that for_each visits, one after the other.                    *)
flatten(t) ==
  LET for_each_impl[p \in DOMAIN t] ==
        IF t[p] = <<>> THEN <<p>>
        ELSE FlattenSeq([i \in DOMAIN t[p] |-> for_each_impl[Append(p, t[p][i])]])
  IN  IF t = clear THEN <<>> ELSE for_each_impl[<<>>]

(* The words of W and everything they begin with.                          *)
PrefixClosure(W) == UNION {Prefixes(w) : w \in W}

(* What lower_bound and the walk rely on: letters in increasing order, one *)
(* node for each of them, and no other nodes.                              *)
WellFormed(t) ==
  /\ t # clear => <<>> \in DOMAIN t
  /\ \A p \in DOMAIN t :
       /\ \A i, j \in DOMAIN t[p] : i < j => t[p][i] < t[p][j]
       /\ \A j \in DOMAIN t[p] : Append(p, t[p][j]) \in DOMAIN t
       /\ p # <<>> => /\ Front(p) \in DOMAIN t
                      /\ Last(p) \in ToSet(t[Front(p)])

===============================================================================
