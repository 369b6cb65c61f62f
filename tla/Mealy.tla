------------------------------- MODULE Mealy -------------------------------
(***************************************************************************)
(* The Mealy machines every algorithm of the tool works on (lib/mealy.hpp, *)
(* lib/types.hpp).  States, inputs and outputs are integers that index     *)
(* vectors; a machine that reaches the algorithms is complete, so every    *)
(* entry of its graph is a real edge.                                      *)
(***************************************************************************)
EXTENDS Integers, Sequences, FiniteSets

CONSTANTS
  N,   \* graph_size
  P,   \* input_size
  Q    \* output_size, a bound on the outputs

(* reachable_submachine refuses a machine with an empty component.         *)
ASSUME SizesAssumption ==
  /\ N \in Nat \ {0}
  /\ P \in Nat \ {0}
  /\ Q \in Nat \ {0}

State  == 0 .. N - 1
Input  == 0 .. P - 1
Output == 0 .. Q - 1
Word   == Seq(Input)

Edge    == [to : State, out : Output]
Machine == [State -> [Input -> Edge]]

(* output(-1), the output of a default-constructed edge.                   *)
NoOutput == -1

(***************************************************************************)
(* apply on a word: the edge taken last, or a default output at the start  *)
(* state when the word is empty.  Only the last output is returned.        *)
(***************************************************************************)
applyWord(m, s, w) ==
  LET ret[n \in 0 .. Len(w)] ==
        IF n = 0 THEN [to |-> s, out |-> NoOutput]
                 ELSE m[ret[n - 1].to][w[n]]
  IN  ret[Len(w)]

============================================================================
