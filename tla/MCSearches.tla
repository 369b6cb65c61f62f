------------------------------ MODULE MCSearches ------------------------------
(***************************************************************************)
(* The two searches of main through the graph of the machine, one after    *)
(* the other, for TLC: reachable_submachine and, on the machine it         *)
(* returns, create_transfer_sequences from state 0 (main.cpp:200,258).     *)
(***************************************************************************)
EXTENDS TransferSequences

VARIABLES
  called,   \* the search that main has called last
  given, visited, new_state, out_graph, r_work, r_s, r_i, r_pc

R == INSTANCE Reachability WITH work <- r_work, s <- r_s, i <- r_i, pc <- r_pc

r_vars == <<given, visited, new_state, out_graph, r_work, r_s, r_i, r_pc>>
search_vars == <<vars, called, r_vars>>

-----------------------------------------------------------------------------
(* The machines.  For the first search every edge has an output of its     *)
(* own; the second one does not look at outputs.  The edges of the last    *)
(* state lead to the start.                                                *)
GraphOf(edges) ==
  [t \in State |-> [a \in Input |->
     [to  |-> IF t = N - 1 THEN start ELSE edges[t * P + a],
      out |-> t * P + a]]]

Edges(n) == 0 .. n * P - 1

(* A graph of N - 1 states; the last state is not reachable.               *)
IsSmall(edges) == \A k \in Edges(N - 1) : edges[k] # N - 1

(* The states have the names that a breadth first search gives; the last   *)
(* one need not be reachable.                                              *)
IsNumbered(edges) ==
  \A t \in 1 .. N - 2 : \E k \in Edges(t) :
    edges[k] = t /\ \A j \in 0 .. k - 1 : edges[j] < t

Graphs ==
  {GraphOf(f) :
     f \in {f \in [Edges(N - 1) -> State] : IsSmall(f) \/ IsNumbered(f)}}

(* The machine that is returned, with as many states as the constants say. *)
Returned ==
  [t \in State |-> [a \in Input |->
     [to |-> IF t \in DOMAIN out_graph THEN out_graph[t][a].to ELSE start,
      out |-> 0]]]

NoMachine == [t \in State |-> [a \in Input |-> [to |-> start, out |-> 0]]]

AllOptions ==
  {canonical_transfer_sequences, minimal_transfer_sequences,
   buggy_transfer_sequences, longest_transfer_sequences}

-----------------------------------------------------------------------------
(* A search that has not been called yet, or that is over, rests with the  *)
(* values it has when it is called with NoMachine.                         *)
SearchInit ==
  /\ called = "reachable_submachine"
  /\ given \in Graphs /\ R!Init
  /\ machine = NoMachine /\ opt = canonical_transfer_sequences
  /\ added = {start} /\ words = [s \in State |-> <<>>]
  /\ all_inputs = InOrder /\ work = <<start>> /\ u = start /\ tried = 0
  /\ pc = "pop"

FindReachable ==
  /\ called = "reachable_submachine"
  /\ R!Next
  /\ UNCHANGED <<vars, called>>

CallTransfer ==
  /\ called = "reachable_submachine" /\ r_pc = "returned"
  /\ called' = "create_transfer_sequences"
  /\ machine' = Returned
  /\ opt' \in Options
  /\ UNCHANGED <<added, words, all_inputs, work, u, tried, pc>>
  /\ given' = NoMachine
  /\ visited' = {} /\ new_state' = <<>> /\ out_graph' = <<>>
  /\ r_work' = <<start>> /\ r_s' = start /\ r_i' = 0 /\ r_pc' = "pop"

FindWords ==
  /\ called = "create_transfer_sequences"
  /\ Next
  /\ UNCHANGED <<called, r_vars>>

SearchNext == FindReachable \/ CallTransfer \/ FindWords

SearchSpec == SearchInit /\ [][SearchNext]_search_vars

-----------------------------------------------------------------------------
(* Numbers are given without gaps or repeats, whatever can be reached      *)
(* (reachability.cpp:35); the other types of the first search.             *)
ReachTypeOK == R!ReachTypeOK

(* What the first search returns is the reachable part of its machine, and *)
(* nothing else, under the new names (reachability.cpp:46).                *)
IsReachablePart == R!IsReachablePart

(* Those names are in the order of a breadth first search                  *)
(* (reachability.cpp:20-43).                                               *)
NumberedBreadthFirst == R!NumberedBreadthFirst

=============================================================================
