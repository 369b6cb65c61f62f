------------------------------ MODULE ReadMealy ------------------------------
(***************************************************************************)
(* read_mealy_from_dot and read_mealy_from_txt (lib/read_mealy.cpp): a     *)
(* machine is read line by line, in any order.  In a dot file states,      *)
(* inputs and outputs have names, which get numbers as they are met; in a  *)
(* txt file they are numbers.  All numbers are unsigned and wrap at Count, *)
(* and the largest one marks an edge that is not defined.                  *)
(*                                                                         *)
(* A line is what is found on it between the arrow, the quotes and the     *)
(* slash; names are numbered from 0 here, too.                             *)
(***************************************************************************)
EXTENDS Integers, FiniteSets

CONSTANTS
  Count,   \* 2^16: the values of the types state, input and output
  Files    \* format and number of names that may occur, for each file tried

ASSUME CountAssumption == Count \in Nat /\ Count > 1
(* Numbers that the types do not have are not tried.                       *)
ASSUME FilesAssumption == \A f \in Files :
  /\ f \in [format : {"dot", "txt"}, states : Nat, inputs : Nat, outputs : Nat]
  /\ f.format = "txt" =>
       \A n \in {f.states, f.inputs, f.outputs} : n <= Count

VARIABLES
  file,                      \* the format and the names of the file
  states, inputs, outputs,   \* indices and max_state, max_input, max_output
  graph,                     \* m.graph: rows may be shorter than max_input
  written, count,            \* the lines read so far, and how many they are
  read_pc    \* "lines", then "returned", "thrown", "undefined", "aborted"

read_vars == <<file, states, inputs, outputs, graph, written, count, read_pc>>

None  == Count - 1         \* state(-1) and output(-1)
NoEdge == [to |-> None, out |-> None]

Names(n) == 0 .. n - 1
Line == [from : Names(file.states), in : Names(file.inputs),
         out : Names(file.outputs), to : Names(file.states)]

-----------------------------------------------------------------------------
(* An entry more in a map.                                                 *)
WithEntry(f, x, n) ==
  [y \in DOMAIN f \cup {x} |-> IF y = x THEN n ELSE f[y]]

(* Mutant: the counter has more bits than what it counts.                  *)
WithNameOfWideCounter(t, name) ==
  IF name \in DOMAIN t.indices THEN t
  ELSE [indices |-> WithEntry(t.indices, name, t.max % Count), max |-> t.max + 1]

(* "make fresh indices, if needed".                                        *)
WithName(t, name) ==
  IF name \in DOMAIN t.indices THEN t
  ELSE [indices |-> WithEntry(t.indices, name, t.max),
        max     |-> (t.max + 1) % Count]

(* The numbers of a txt file are kept; the maximum grows.  The indices are *)
(* what create_translation_for_mealy makes of it in the end.               *)
WithNumber(t, n) ==
  IF n < t.max THEN t
  ELSE LET m == (n + 1) % Count IN [indices |-> [x \in Names(m) |-> x], max |-> m]

With(t, name) ==
  IF file.format = "dot" THEN WithName(t, name) ELSE WithNumber(t, name)
Index(t, name) == IF file.format = "dot" THEN t.indices[name] ELSE name

Resized(f, n, default) ==
  [x \in Names(n) |-> IF x \in DOMAIN f THEN f[x] ELSE default]

IsEdge(e) == e.to # None /\ e.out # None

(* Mutant: only a missing row or a short one says that nothing is there.   *)
defined_by_size(s, i) == s \in DOMAIN graph /\ i \in DOMAIN graph[s]

defined(s, i) ==
  s \in DOMAIN graph /\ i \in DOMAIN graph[s] /\ IsEdge(graph[s][i])

Init ==
  /\ file \in Files
  /\ states = [indices |-> <<>>, max |-> 0]
  /\ inputs = states
  /\ outputs = states
  /\ graph = <<>>
  /\ written = {}
  /\ count = 0
  /\ read_pc = "lines"

(* Bound: one line more than there can be edges.  A longer file has a      *)
(* second edge, or its counters have overflowed.                           *)
MaxLines == file.states * file.inputs + 1

(* All counters are brought up to date before anything is looked at.       *)
Read(l) ==
  /\ read_pc = "lines"
  /\ count < MaxLines
  /\ states' = With(With(states, l.from), l.to)
  /\ inputs' = With(inputs, l.in)
  /\ outputs' = With(outputs, l.out)
  /\ written' = written \cup {l}
  /\ count' = count + 1
  /\ UNCHANGED file

(* Where the line puts its edge; outside the graph if a counter overflowed.*)
Source(l) == Index(states', l.from)
Symbol(l) == Index(inputs', l.in)
InBounds(l) == Source(l) < states'.max /\ Symbol(l) < inputs'.max

(* Mutant: the output is taken for the newest one.                         *)
EdgeWithNewestOutput(l) ==
  [to |-> Index(states', l.to), out |-> (outputs'.max - 1) % Count]

EdgeOn(l) == [to |-> Index(states', l.to), out |-> Index(outputs', l.out)]

(* Mutant: the row is made as long as it has to be for this edge.          *)
AddEdgeTightly(l) ==
  LET rows == Resized(graph, states'.max, <<>>)
      row  == Resized(rows[Source(l)], Symbol(l) + 1, NoEdge)
  IN  graph' = [rows EXCEPT ![Source(l)] = [row EXCEPT ![Symbol(l)] = EdgeOn(l)]]

AddEdge(l) ==
  LET rows == Resized(graph, states'.max, <<>>)
      row  == Resized(rows[Source(l)], inputs'.max, NoEdge)
  IN  graph' = [rows EXCEPT ![Source(l)] = [row EXCEPT ![Symbol(l)] = EdgeOn(l)]]

EdgeLine == \E l \in Line :
  /\ Read(l)
  /\ ~ defined(Source(l), Symbol(l))
  /\ InBounds(l)
  /\ file.format = "txt" => IsEdge(EdgeOn(l))
  /\ AddEdge(l)
  /\ UNCHANGED read_pc

(* An edge that carries the mark: only the txt reader asserts that the     *)
(* edge it wrote is there, and only in a build with assertions.            *)
MarkedEdgeLine == \E l \in Line :
  /\ Read(l)
  /\ ~ defined(Source(l), Symbol(l))
  /\ InBounds(l)
  /\ file.format = "txt" /\ ~ IsEdge(EdgeOn(l))
  /\ AddEdge(l)
  /\ read_pc' \in {"lines", "aborted"}

(* "Nondeterministic machine".                                             *)
SecondEdgeLine == \E l \in Line :
  /\ Read(l)
  /\ defined(Source(l), Symbol(l))
  /\ read_pc' = "thrown"
  /\ UNCHANGED graph

(* An edge is written to a row, or to a place in a row, that was resized   *)
(* away: the behaviour is undefined.                                       *)
OverflowLine == \E l \in Line :
  /\ Read(l)
  /\ ~ defined(Source(l), Symbol(l))
  /\ ~ InBounds(l)
  /\ read_pc' = "undefined"
  /\ UNCHANGED graph

(* A line without an arrow, a bracket, quotes or a slash is passed over.   *)
OtherLine == read_pc = "lines" /\ file.format = "dot" /\ UNCHANGED read_vars

(* Mutant: rows of different lengths are not noticed.                      *)
is_complete_by_edge ==
  \A n \in DOMAIN graph : \A a \in DOMAIN graph[n] : IsEdge(graph[n][a])

is_complete ==
  \A n \in DOMAIN graph :
    DOMAIN graph[n] = Names(inputs.max) /\ \A a \in DOMAIN graph[n] : IsEdge(graph[n][a])

NothingEmpty == states.max # 0 /\ inputs.max # 0 /\ outputs.max # 0

(* The end of the file, or a line with a closing brace.                    *)
EndOfFile ==
  /\ read_pc = "lines"
  /\ read_pc' = IF NothingEmpty /\ is_complete THEN "returned" ELSE "thrown"
  /\ UNCHANGED <<file, states, inputs, outputs, graph, written, count>>

Next ==
  \/ EdgeLine \/ MarkedEdgeLine \/ SecondEdgeLine \/ OverflowLine
  \/ OtherLine \/ EndOfFile

Spec == Init /\ [][Next]_read_vars

(* The inverse of a translation, by which main prints the inputs.          *)
create_reverse_map(t) ==
  [n \in Names(Cardinality(DOMAIN t.indices)) |->
     CHOOSE name \in DOMAIN t.indices : t.indices[name] = n]

-----------------------------------------------------------------------------
(* What the file says.                                                     *)
StatesOf(L)  == {l.from : l \in L} \cup {l.to : l \in L}
InputsOf(L)  == {l.in : l \in L}
OutputsOf(L) == {l.out : l \in L}

(* A number below one that is used exists in a txt file.                   *)
Meant(S) == IF file.format = "dot" \/ S = {} THEN S
            ELSE 0 .. CHOOSE n \in S : \A m \in S : m <= n

(* The indices that are given and their number fit, the mark left out.     *)
WithinLimits ==
  \A S \in {StatesOf(written), InputsOf(written), OutputsOf(written)} :
    Cardinality(Meant(S)) < Count

Deterministic == count = Cardinality({<<l.from, l.in>> : l \in written})
IsTotal ==
  \A s \in Meant(StatesOf(written)), i \in Meant(InputsOf(written)) :
    \E l \in written : l.from = s /\ l.in = i

(* The types of the variables; note that rows may be short.                *)
ReadTypeOK ==
  /\ file \in Files
  /\ \A t \in {states, inputs, outputs} :
       t.max \in Names(Count) /\ \A name \in DOMAIN t.indices : t.indices[name] \in Names(Count)
  /\ \A n \in DOMAIN graph : \A a \in DOMAIN graph[n] :
       graph[n][a] \in [to : Names(Count), out : Names(Count)]
  /\ written \subseteq Line /\ count \in Nat
  /\ read_pc \in {"lines", "returned", "thrown", "undefined", "aborted"}

(* Whether a file is accepted does not depend on the order of its lines,   *)
(* although numbers are given, rows and alphabets grow and exceptions are  *)
(* thrown while it is read: exactly the files of a deterministic, complete *)
(* machine are, up to Count - 1 names of a kind.                           *)
AcceptsMachines ==
  WithinLimits =>
    /\ read_pc \notin {"undefined", "aborted"}
    /\ read_pc = "returned" => Deterministic /\ IsTotal /\ written # {}
    /\ read_pc = "thrown" => ~ (Deterministic /\ IsTotal /\ written # {})

(* The machine is the one in the file under other names: every name has    *)
(* its own number, the sizes are those of mealy.hpp ("graph_size ==        *)
(* graph.size()", "output_size bounds the number of outputs"), each line   *)
(* is an edge and nothing else is, and the reverse map gives back the      *)
(* inputs that the tests are printed with.                                 *)
ReadsWhatIsWritten ==
  read_pc = "returned" /\ WithinLimits =>
    /\ \A t \in {states, inputs, outputs} : \A x, y \in DOMAIN t.indices :
         /\ t.indices[x] < t.max
         /\ t.indices[x] = t.indices[y] => x = y
    /\ DOMAIN graph = {Index(states, s) : s \in Meant(StatesOf(written))}
    /\ \A l \in written :
         graph[Index(states, l.from)][Index(inputs, l.in)] =
           [to |-> Index(states, l.to), out |-> Index(outputs, l.out)]
    /\ Cardinality(written) = Cardinality(DOMAIN graph) * inputs.max
    /\ \A l \in written : create_reverse_map(inputs)[Index(inputs, l.in)] = l.in

=============================================================================
