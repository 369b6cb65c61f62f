------------------------- MODULE PartitionRefinement -------------------------
(***************************************************************************)
(* What create_splitting_tree promises, whatever its options: the states   *)
(* of a machine, all in one block at first, are divided again and again by *)
(* what can be observed with one more symbol.  There is no queue here, no  *)
(* separator, no order of blocks or symbols and no count of days.          *)
(***************************************************************************)
EXTENDS Mealy

CONSTANT Machines   \* the machines that may be given

VARIABLES
  machine,
  constrained,   \* not every possible division is allowed
  blocks,        \* a partition of the states
  done

refinement_vars == <<machine, constrained, blocks, done>>

Init ==
  /\ machine \in Machines
  /\ constrained \in BOOLEAN
  /\ blocks = {State}
  /\ done = FALSE

(* The symbol a tells s from t: by the answer, or because it leads to      *)
(* states that have been told apart before.                                *)
TellsApart(a, s, t) ==
  \/ machine[s][a].out # machine[t][a].out
  \/ \A b \in blocks : ~ ({machine[s][a].to, machine[t][a].to} \subseteq b)

Stable ==
  \A b \in blocks : \A s, t \in b, a \in Input : ~ TellsApart(a, s, t)

(* One block is divided into two or more, by one symbol.                   *)
Divides(b, parts) ==
  /\ UNION parts = b
  /\ {} \notin parts /\ b \notin parts
  /\ \A c, d \in parts : c # d => c \cap d = {}
  /\ \E a \in Input : \A c, d \in parts : c # d =>
       \A s \in c, t \in d : TellsApart(a, s, t)

Refine ==
  /\ ~ done
  /\ \E b \in blocks :
       /\ blocks \ {b} \subseteq blocks'
       /\ Divides(b, blocks' \ (blocks \ {b}))
  /\ UNCHANGED <<machine, constrained, done>>

(* Without constraints nothing may be left to divide.                      *)
Stop ==
  /\ ~ done
  /\ constrained \/ Stable
  /\ done' = TRUE
  /\ UNCHANGED <<machine, constrained, blocks>>

Spec == Init /\ [][Refine \/ Stop]_refinement_vars

=============================================================================
