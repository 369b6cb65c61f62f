----------------------------- MODULE MCMachines -----------------------------
(***************************************************************************)
(* The machines TLC explores: all those of a small size, up to the         *)
(* numbering of the states, and larger ones of a special shape.            *)
(***************************************************************************)
EXTENDS Mealy

(* The machine as reachable_submachine hands it over: state 0 reaches      *)
(* every state, and the states are numbered in the order of a breadth      *)
(* first search, so s is met before s + 1 and from a smaller state.        *)
Entry(m, k) == m[k \div P][k % P]
BreadthFirst(m) ==
  \A s \in State \ {0} : \E k \in 0 .. s * P - 1 :
    /\ Entry(m, k).to = s
    /\ \A j \in 0 .. k - 1 : Entry(m, j).to < s

(* Outputs numbered in the order they are met: no algorithm looks at more  *)
(* than which outputs are equal.                                           *)
OutputsInOrder(m) ==
  \A k \in 0 .. N * P - 1 : \A y \in Output :
    y < Entry(m, k).out => \E j \in 0 .. k - 1 : Entry(m, j).out = y

AllMachines == {m \in Machine : BreadthFirst(m) /\ OutputsInOrder(m)}

(* The graphs of such machines, as lists of the states entered.            *)
Graphs ==
  {t \in [0 .. N * P - 1 -> State] :
     \A s \in State \ {0} : \E k \in 0 .. s * P - 1 :
       t[k] = s /\ \A j \in 0 .. k - 1 : t[j] < s}

(* The machines whose other inputs than 0 are always answered 0: what they *)
(* tell apart they tell by where they go, so blocks of two and more states *)
(* wait for each other.                                                    *)
OneVoice ==
  {[s \in State |-> [a \in Input |->
     [to |-> t[s * P + a], out |-> IF a = 0 THEN y[s] ELSE 0]]] :
   t \in Graphs, y \in {y \in [State -> Output] : y[0] = 0}}

=============================================================================
