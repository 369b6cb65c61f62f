----------------------------- MODULE Reachability -----------------------------
(***************************************************************************)
(* reachable_submachine (lib/reachability.cpp): the part of the machine    *)
(* that can be reached from the start, with its states numbered anew in    *)
(* the order in which they are met.  Everything else in the program works  *)
(* on its result.                                                          *)
(*                                                                         *)
(* One step is one turn of a loop: Skip and Visit of the while,            *)
(* FollowInput of the for.                                                 *)
(***************************************************************************)
EXTENDS Mealy, SequencesExt

CONSTANT start   \* the state the search begins with, 0 in main

VARIABLES
  given,       \* the machine called "in"
  visited,
  new_state,   \* state -> number, for the states met so far
  work,        \* a queue, which may hold a state more than once
  out_graph,   \* out.graph: number -> row
  s,           \* the state visited last
  i,           \* the input that is next
  pc           \* "pop", "inputs", then "returned" or "thrown"

vars == <<given, visited, new_state, work, out_graph, s, i, pc>>

NoEdge == [to |-> -1, out |-> NoOutput]     \* a default constructed edge
Unfilled == [a \in Input |-> NoEdge]        \* a row nothing was written to

(* Numbers are given in order: max_state is how many have been given.      *)
max_state(numbers) == Cardinality(DOMAIN numbers)

(* Mutant: a state met again gets a new number.                            *)
RenumberedWith(numbers, t) ==
  [x \in DOMAIN numbers \cup {t} |->
     IF x = t THEN max_state(numbers) ELSE numbers[x]]

NumberedWith(numbers, t) ==
  IF t \in DOMAIN numbers THEN numbers
  ELSE [x \in DOMAIN numbers \cup {t} |->
          IF x = t THEN max_state(numbers) ELSE numbers[x]]

(* Called with a state and with a complete machine: the readers refuse     *)
(* partial ones before.                                                    *)
Init ==
  /\ start \in State
  /\ given \in Machine
  /\ visited = {}
  /\ new_state = <<>>
  /\ work = <<start>>
  /\ out_graph = <<>>
  /\ s = start
  /\ i = 0
  /\ pc = "pop"

(* A state pushed twice is visited once.                                   *)
Skip ==
  /\ pc = "pop" /\ work # <<>>
  /\ Head(work) \in visited
  /\ s' = Head(work)
  /\ work' = Tail(work)
  /\ UNCHANGED <<given, visited, new_state, out_graph, i, pc>>

(* Only the start is without a number here.                                *)
Visit ==
  /\ pc = "pop" /\ work # <<>>
  /\ Head(work) \notin visited
  /\ s' = Head(work)
  /\ work' = Tail(work)
  /\ visited' = visited \cup {s'}
  /\ new_state' = NumberedWith(new_state, s')
  /\ i' = 0
  /\ pc' = "inputs"
  /\ UNCHANGED <<given, out_graph>>

(* The graph with a row for every number that was given.                   *)
Resized(graph, size) ==
  [n \in 0 .. size - 1 |-> IF n \in DOMAIN graph THEN graph[n] ELSE Unfilled]

(* Mutant: the edge keeps the old name of the state it leads to.           *)
EdgeOfOldName(t, y) == [to |-> t, out |-> y]

NewEdge(t, y) == [to |-> new_state'[t], out |-> y]

(* Mutant: only states without a number are pushed, and the number is      *)
(* given before the test.                                                  *)
WorkWithUnnumbered(t) ==
  IF t \in DOMAIN new_state' THEN work ELSE Append(work, t)

(* Mutant: pushed in front.                                                *)
WorkInFront(t) == IF t \in visited THEN work ELSE <<t>> \o work

WorkWith(t) == IF t \in visited THEN work ELSE Append(work, t)

FollowInput ==
  /\ pc = "inputs"
  /\ LET t  == given[s][i].to
         y  == given[s][i].out
     IN  /\ new_state' = NumberedWith(new_state, t)
         /\ out_graph' =
              [Resized(out_graph, max_state(new_state'))
                 EXCEPT ![new_state'[s]][i] = NewEdge(t, y)]
         /\ work' = WorkWith(t)
  /\ i' = i + 1
  /\ pc' = IF i + 1 = P THEN "pop" ELSE "inputs"
  /\ UNCHANGED <<given, visited, s>>

Complete == \A n \in DOMAIN out_graph : \A a \in Input : out_graph[n][a] # NoEdge

(* The other three exceptions need an empty component; SizesAssumption     *)
(* excludes them, since the readers throw them too.                        *)
Return ==
  /\ pc = "pop" /\ work = <<>>
  /\ pc' = IF Complete THEN "returned" ELSE "thrown"
  /\ UNCHANGED <<given, visited, new_state, work, out_graph, s, i>>

Next == Skip \/ Visit \/ FollowInput \/ Return

Spec == Init /\ [][Next]_vars

-----------------------------------------------------------------------------
Met == DOMAIN new_state

(* Types; numbers are given without gaps, and visited states have one.     *)
ReachTypeOK ==
  /\ given \in Machine
  /\ visited \subseteq Met /\ Met \subseteq State
  /\ new_state \in [Met -> 0 .. max_state(new_state) - 1]
  /\ \A t, x \in Met : new_state[t] = new_state[x] => t = x
  /\ work \in Seq(State)
  /\ DOMAIN out_graph \subseteq 0 .. max_state(new_state) - 1
  /\ s \in State
  /\ i \in 0 .. P
  /\ pc \in {"pop", "inputs", "returned", "thrown"}

Closed(S) == start \in S /\ \A t \in S, a \in Input : given[t][a].to \in S
ReachableStates == {t \in State : \A S \in SUBSET State : Closed(S) => t \in S}

(* A complete machine is never refused, and the result is its reachable    *)
(* part and nothing else, under the new names, with the start first; a     *)
(* state has the same behaviour under its new name.                        *)
IsReachablePart ==
  pc \in {"returned", "thrown"} =>
    /\ pc # "thrown"
    /\ Met = ReachableStates
    /\ new_state[start] = 0
    /\ DOMAIN out_graph = {new_state[t] : t \in Met}
    /\ \A t \in Met : \A a \in Input :
         out_graph[new_state[t]][a] =
           [to |-> new_state[given[t][a].to], out |-> given[t][a].out]

(* Input b leads from row q of the new graph to n, and all edges before it *)
(* lead to smaller numbers.                                                *)
FirstMetBy(n, q, b) ==
  /\ out_graph[q][b].to = n
  /\ \A p \in 0 .. q, a \in Input : p < q \/ a < b => out_graph[p][a].to < n

(* The numbers are those of a breadth first search, which every other run  *)
(* assumes of its machines: states are visited in the order of their       *)
(* numbers, so that each is met from one with a smaller number, after all  *)
(* states with smaller numbers.                                            *)
NumberedBreadthFirst ==
  /\ {new_state[t] : t \in visited} = 0 .. Cardinality(visited) - 1
  /\ pc = "returned" =>
       \A n \in DOMAIN out_graph \ {0} :
         \E q \in 0 .. n - 1, a \in Input : FirstMetBy(n, q, a)

=============================================================================
