--------------------------- MODULE MCSplittingTree ---------------------------
(***************************************************************************)
(* Instances of SplittingTree for TLC, and the results the tree is built   *)
(* for, measured against MachineTheory.                                    *)
(***************************************************************************)
EXTENDS SplittingTreeTheory, MCMachines

MinHopcroft   == {min_hopcroft_style}
Shuffled      == {randomized_hopcroft_style, randomized_lee_yannakakis_style}
Unshuffled    == {hopcroft_style, min_hopcroft_style, lee_yannakakis_style}

(* The larger machines of this shape, to keep the queue busy.              *)
Returning == {m \in OneVoice : \A a \in Input : m[N - 1][a].to = 0}

(* "If this is too much, there is no complete splitting tree", in the      *)
(* minimal order: giving up means that some states are equivalent.         *)
MinimalOrderCompletes ==
  pc = "returned" /\ opt.assert_minimal_order /\ Minimal(g) =>
    \A u \in Leaves : Cardinality(u) = 1

=============================================================================
