--------------------------- MODULE ReadMealyProofs ---------------------------
(***************************************************************************)
(* What the readers guarantee for files with any number of lines and of    *)
(* names, in any order of the lines, and for numbers of any width.         *)
(***************************************************************************)
EXTENDS ReadMealy, FiniteSetTheorems, FunctionTheorems, WellFoundedInduction, TLAPS

(* A translation is the one of the names S: the names that are meant have  *)
(* the numbers from 0 up, each its own.                                    *)
Translates(t, S) ==
  /\ DOMAIN t.indices = Meant(S)
  /\ t.max = Cardinality(Meant(S))
  /\ \A x \in Meant(S) : t.indices[x] \in Names(t.max)
  /\ \A x, y \in Meant(S) : t.indices[x] = t.indices[y] => x = y
  /\ \A n \in Names(t.max) : \E x \in Meant(S) : t.indices[x] = n
  /\ file.format = "txt" => Meant(S) = Names(t.max)
                          /\ \A x \in Meant(S) : t.indices[x] = x

(* Where the edge of a line is, and what it is.                            *)
Place(l)  == <<states.indices[l.from], inputs.indices[l.in]>>
EdgeOf(l) == [to |-> states.indices[l.to], out |-> outputs.indices[l.out]]

AllTranslated ==
  /\ Translates(states, StatesOf(written))
  /\ Translates(inputs, InputsOf(written))
  /\ Translates(outputs, OutputsOf(written))

(* The reader has seen no second edge.                                     *)
OneEdgeEach ==
  /\ count = Cardinality({<<l.from, l.in>> : l \in written})
  /\ \A l, m \in written : l.from = m.from /\ l.in = m.in => l = m

(* The rows may be short, but have all edges that were read and no other.  *)
GraphIsWritten ==
  /\ DOMAIN graph = Names(states.max)
  /\ \A n \in DOMAIN graph : DOMAIN graph[n] \subseteq Names(inputs.max)
  /\ \A l \in written :
       /\ Place(l)[1] \in DOMAIN graph
       /\ Place(l)[2] \in DOMAIN graph[Place(l)[1]]
       /\ graph[Place(l)[1]][Place(l)[2]] = EdgeOf(l)
       /\ IsEdge(EdgeOf(l))
  /\ \A n \in DOMAIN graph : \A a \in DOMAIN graph[n] :
       IsEdge(graph[n][a]) => \E l \in written : Place(l) = <<n, a>>

Reading == read_pc = "lines" /\ WithinLimits

RInv ==
  /\ ReadTypeOK
  /\ IsFiniteSet(written)
  /\ Reading => AllTranslated /\ OneEdgeEach /\ GraphIsWritten
  /\ AcceptsMachines
  /\ ReadsWhatIsWritten

-----------------------------------------------------------------------------
(* Numbers and names.                                                      *)

(* A bounded set of numbers that is not empty has a largest member.        *)
LEMMA LargestExists ==
  ASSUME NEW b \in Nat, NEW S \in SUBSET (0 .. b), S # {}
  PROVE  \E n \in S : \A m \in S : m <= n
<1> DEFINE T == {b - n : n \in S}
<1>1. T # {} /\ T \subseteq Nat
  OBVIOUS
<1>2. IsWellFoundedOn(OpToRel(<, Nat), Nat)
  BY NatLessThanWellFounded, Zenon
<1> HIDE DEF T
<1>3. \E x \in T : \A y \in T : ~ (<<y, x>> \in OpToRel(<, Nat))
  BY <1>1, <1>2, WFMin, Zenon
<1>4. PICK x \in T : \A y \in T : ~ (y < x)
  BY <1>1, <1>3 DEF OpToRel
<1>5. PICK n \in S : x = b - n
  BY DEF T
<1>6. ASSUME NEW m \in S PROVE m <= n
  <2>1. b - m \in T
    BY DEF T
  <2>2. ~ (b - m < b - n)
    BY <1>4, <1>5, <2>1
  <2> QED
    BY <2>2
<1> QED
  BY <1>6

(* The files of the readers.                                               *)
LEMMA FileType ==
  ASSUME file \in Files
  PROVE  /\ file.format \in {"dot", "txt"}
         /\ file.states \in Nat /\ file.inputs \in Nat /\ file.outputs \in Nat
         /\ file.format = "txt" =>
              file.states <= Count /\ file.inputs <= Count /\ file.outputs <= Count
BY FilesAssumption

(* The names that are meant: those that are used or, in a txt file, all    *)
(* numbers up to the largest one.                                          *)
LEMMA MeantIs ==
  ASSUME NEW b \in Nat, NEW S \in SUBSET (0 .. b), file.format \in {"dot", "txt"}
  PROVE  /\ file.format = "dot" \/ S = {} => Meant(S) = S
         /\ file.format = "txt" /\ S # {} =>
              \E m \in S : (\A x \in S : x <= m) /\ Meant(S) = 0 .. m
         /\ S \subseteq Meant(S)
         /\ IsFiniteSet(Meant(S)) /\ Cardinality(Meant(S)) \in Nat
<1>1. IsFiniteSet(0 .. b)
  BY FS_Interval
<1>2. IsFiniteSet(S)
  BY <1>1, FS_Subset
<1>3. CASE file.format = "dot" \/ S = {}
  <2>1. Meant(S) = S
    BY <1>3 DEF Meant
  <2>2. file.format = "txt" => S = {}
    BY <1>3
  <2> QED
    BY <1>2, <2>1, <2>2, FS_CardinalityType
<1>4. CASE file.format = "txt" /\ S # {}
  <2> DEFINE m == CHOOSE n \in S : \A k \in S : k <= n
  <2>1. m \in S /\ \A k \in S : k <= m
    BY <1>4, LargestExists
  <2>2. Meant(S) = 0 .. m
    <3>1. ~ (file.format = "dot" \/ S = {})
      BY <1>4
    <3> QED
      BY <3>1 DEF Meant
  <2> HIDE DEF m
  <2>3. S \subseteq 0 .. m /\ m \in Int
    BY <2>1
  <2>4. IsFiniteSet(0 .. m)
    BY <2>3, FS_Interval
  <2> QED
    BY <1>4, <2>1, <2>2, <2>3, <2>4, FS_CardinalityType
<1> QED
  BY <1>3, <1>4

(* More names used are more names meant.                                   *)
LEMMA MeantGrows ==
  ASSUME NEW b \in Nat, NEW T \in SUBSET (0 .. b), NEW S \in SUBSET T,
         file.format \in {"dot", "txt"}
  PROVE  /\ Meant(S) \subseteq Meant(T)
         /\ Cardinality(Meant(S)) <= Cardinality(Meant(T))
<1>1. Meant(S) \subseteq Meant(T)
  <2>1. S \in SUBSET (0 .. b)
    OBVIOUS
  <2>2. CASE file.format = "dot" \/ S = {}
    <3>1. Meant(S) = S /\ T \subseteq Meant(T)
      BY <2>1, <2>2, MeantIs
    <3> QED
      BY <3>1
  <2>3. CASE file.format = "txt" /\ S # {}
    <3>1. PICK m \in S : Meant(S) = 0 .. m
      BY <2>1, <2>3, MeantIs
    <3>2. PICK n \in T : (\A x \in T : x <= n) /\ Meant(T) = 0 .. n
      BY <2>3, MeantIs
    <3>3. m <= n /\ m \in Int /\ n \in Int
      BY <2>1, <3>2
    <3> QED
      BY <3>1, <3>2, <3>3
  <2> QED
    BY <2>2, <2>3
<1>2. IsFiniteSet(Meant(T))
  BY MeantIs
<1> QED
  BY <1>1, <1>2, FS_Subset

(* A counter that has not reached the last number does not wrap.           *)
LEMMA NoWrap ==
  ASSUME NEW n \in Nat, n < Count
  PROVE  n % Count = n
BY CountAssumption

-----------------------------------------------------------------------------
(* Translations.                                                           *)

(* Before the first line nothing has a number.                             *)
LEMMA TranslatesNothing ==
  ASSUME file.format \in {"dot", "txt"}
  PROVE  Translates([indices |-> <<>>, max |-> 0], {})
<1>1. {} \in SUBSET (0 .. 0) /\ 0 \in Nat
  OBVIOUS
<1>2. Meant({}) = {}
  BY <1>1, MeantIs
<1>3. Cardinality({}) = 0
  BY FS_EmptySet
<1>4. Names(0) = {} /\ DOMAIN <<>> = {}
  BY DEF Names
<1> QED
  BY <1>2, <1>3, <1>4 DEF Translates

(* A name that is met gets the next number if it has none; names keep      *)
(* theirs.                                                                 *)
LEMMA TranslatesMore ==
  ASSUME file.format \in {"dot", "txt"}, NEW b \in Nat, NEW S \in SUBSET (0 .. b),
         NEW x \in 0 .. b, NEW t, Translates(t, S),
         Cardinality(Meant(S \cup {x})) < Count
  PROVE  /\ Translates(With(t, x), S \cup {x})
         /\ \A y \in Meant(S) : With(t, x).indices[y] = t.indices[y]
         /\ t.max <= With(t, x).max
<1> DEFINE T == S \cup {x}
           r == With(t, x)
<1>1. T \in SUBSET (0 .. b)
  OBVIOUS
<1>2. /\ Cardinality(Meant(S)) \in Nat /\ IsFiniteSet(Meant(S))
      /\ Cardinality(Meant(T)) \in Nat /\ Cardinality(Meant(T)) < Count
  BY <1>1, MeantIs
<1>3. t.max \in Nat /\ t.max = Cardinality(Meant(S)) /\ DOMAIN t.indices = Meant(S)
  BY <1>2 DEF Translates
<1>4. CASE file.format = "dot"
  <2>1. Meant(S) = S /\ Meant(T) = T
    BY <1>1, <1>4, MeantIs
  <2>2. r = WithName(t, x)
    BY <1>4 DEF With
  <2>3. CASE x \in S
    <3>1. T = S /\ r = t
      BY <1>3, <2>1, <2>2, <2>3 DEF WithName
    <3> QED
      BY <1>3, <3>1
  <2>4. CASE x \notin S
    <3> HIDE DEF T
    <3>1. r = [indices |-> WithEntry(t.indices, x, t.max), max |-> (t.max + 1) % Count]
      BY <1>3, <2>1, <2>2, <2>4 DEF WithName
    <3>2. Cardinality(T) = t.max + 1
      <4>1. Cardinality(S \cup {x}) = Cardinality(S) + 1
        BY <1>2, <2>1, <2>4, FS_AddElement, SMTT(30)
      <4> QED
        BY <1>3, <2>1, <4>1 DEF T
    <3>3. r.max = t.max + 1
      BY <1>2, <1>3, <2>1, <3>1, <3>2, NoWrap
    <3>4. /\ DOMAIN r.indices = T /\ r.indices[x] = t.max
          /\ \A y \in S : r.indices[y] = t.indices[y]
      BY <1>3, <2>1, <2>4, <3>1 DEF WithEntry, T
    <3> HIDE DEF r
    <3>5. /\ \A y \in S : t.indices[y] \in 0 .. t.max - 1
          /\ \A y, z \in S : t.indices[y] = t.indices[z] => y = z
          /\ \A n \in 0 .. t.max - 1 : \E y \in S : t.indices[y] = n
      BY <2>1 DEF Translates, Names
    <3>6. \A y \in T : r.indices[y] \in Names(r.max)
      BY <1>3, <3>3, <3>4, <3>5 DEF T, Names
    <3>7. \A y, z \in T : r.indices[y] = r.indices[z] => y = z
      BY <1>3, <3>4, <3>5 DEF T
    <3>8. ASSUME NEW n \in Names(r.max) PROVE \E y \in T : r.indices[y] = n
      <4>1. CASE n = t.max
        BY <3>4, <4>1 DEF T
      <4>2. CASE n # t.max
        <5>1. n \in 0 .. t.max - 1
          BY <1>3, <3>3, <4>2 DEF Names
        <5>2. PICK y \in S : t.indices[y] = n
          BY <3>5, <5>1
        <5> QED
          BY <3>4, <5>2 DEF T
      <4> QED
        BY <4>1, <4>2
    <3>9. Translates(r, T)
      BY <1>4, <2>1, <3>2, <3>3, <3>4, <3>6, <3>7, <3>8 DEF Translates
    <3>10. t.max <= r.max
      BY <1>3, <3>3
    <3> QED
      BY <2>1, <3>4, <3>9, <3>10 DEF r, T
  <2> QED
    BY <2>3, <2>4
<1>5. CASE file.format = "txt"
  <2>1. r = WithNumber(t, x)
    BY <1>5 DEF With
  <2>2. Meant(S) = Names(t.max) /\ \A y \in Meant(S) : t.indices[y] = y
    BY <1>5 DEF Translates
  <2>3. PICK k \in T : (\A y \in T : y <= k) /\ Meant(T) = 0 .. k
    BY <1>1, <1>5, MeantIs
  <2>4. S \subseteq Meant(S)
    BY MeantIs
  <2>5. k \in Nat /\ x \in Nat
    BY <1>1, <2>3
  <2>10. PICK n \in Nat : n = t.max /\ Meant(S) = 0 .. n - 1
    BY <1>3, <2>2, Zenon DEF Names
  <2>8. \A y \in Meant(S) : y \in Nat /\ y < t.max
    BY <2>10
  <2>9. \A y \in Nat : y < t.max => y \in Meant(S)
    BY <2>10
  <2>6. CASE x < t.max
    <3>1. r = t
      BY <2>1, <2>6 DEF WithNumber
    <3>2. x \in Meant(S)
      BY <2>5, <2>6, <2>9
    <3>3. S # {}
      <4>1. S = {} => Meant(S) = S
        BY MeantIs
      <4> QED
        BY <3>2, <4>1
    <3>4. PICK m \in S : (\A y \in S : y <= m) /\ Meant(S) = 0 .. m
      BY <1>5, <3>3, MeantIs
    <3>5. k = m
      <4>1. m \in Int /\ x <= m
        BY <3>2, <3>4
      <4>2. k <= m
        BY <2>3, <3>4, <4>1
      <4>3. m <= k
        BY <2>3
      <4> QED
        BY <2>5, <4>1, <4>2, <4>3
    <3>6. Meant(T) = Meant(S)
      BY <2>3, <3>4, <3>5
    <3>7. Translates(t, T)
      BY <3>6 DEF Translates
    <3> QED
      BY <1>3, <3>1, <3>7
  <2>7. CASE ~ (x < t.max)
    <3> DEFINE m == (x + 1) % Count
    <3>1. r = [indices |-> [y \in Names(m) |-> y], max |-> m]
      BY <2>1, <2>7 DEF WithNumber
    <3>2. k = x
      <4>1. \A y \in S : y <= x
        BY <1>3, <2>4, <2>5, <2>7, <2>8
      <4> QED
        BY <2>3, <2>5, <4>1
    <3>3. Cardinality(Meant(T)) = x + 1
      BY <2>3, <3>2, FS_Interval
    <3>4. m = x + 1
      BY <1>2, <3>3, NoWrap
    <3> HIDE DEF m
    <3>5. Names(m) = 0 .. x
      BY <3>4 DEF Names
    <3>6. /\ r.max = m /\ DOMAIN r.indices = Names(m)
          /\ \A y \in Names(m) : r.indices[y] = y
      BY <3>1
    <3> HIDE DEF r, T
    <3>7. Translates(r, T)
      BY <1>5, <2>3, <3>2, <3>3, <3>4, <3>5, <3>6 DEF Translates
    <3>8. \A y \in Meant(S) : r.indices[y] = t.indices[y]
      <4>1. \A y \in Meant(S) : y \in Names(m)
        BY <1>3, <2>5, <2>7, <2>8, <3>5
      <4> QED
        BY <2>2, <3>6, <4>1
    <3> QED
      BY <1>3, <2>7, <3>4, <3>6, <3>7, <3>8 DEF r, T
  <2> QED
    BY <2>6, <2>7
<1> QED
  BY <1>4, <1>5

(* Whether numbers have wrapped or not, they are numbers of the types.     *)
Typed(t) ==
  /\ t.max \in Names(Count)
  /\ \A name \in DOMAIN t.indices : t.indices[name] \in Names(Count)

(* A name more leaves all numbers in their type and gives the name one.    *)
LEMMA TypedMore ==
  ASSUME NEW t, Typed(t), NEW x \in Nat, file.format \in {"dot", "txt"}
  PROVE  /\ Typed(With(t, x))
         /\ file.format = "dot" =>
              DOMAIN t.indices \cup {x} \subseteq DOMAIN With(t, x).indices
<1>1. CASE file.format = "dot"
  <2>1. With(t, x) = WithName(t, x)
    BY <1>1 DEF With
  <2>2. CASE x \in DOMAIN t.indices
    BY <2>1, <2>2 DEF WithName
  <2>3. CASE x \notin DOMAIN t.indices
    <3> DEFINE f == WithEntry(t.indices, x, t.max)
               m == (t.max + 1) % Count
    <3>1. With(t, x) = [indices |-> f, max |-> m]
      BY <2>1, <2>3 DEF WithName
    <3>2. m \in Names(Count)
      BY CountAssumption DEF Typed, Names
    <3>3. DOMAIN f = DOMAIN t.indices \cup {x}
      BY DEF WithEntry
    <3>4. \A y \in DOMAIN f : f[y] \in Names(Count)
      BY DEF WithEntry, Typed
    <3> HIDE DEF f, m
    <3> QED
      BY <3>1, <3>2, <3>3, <3>4 DEF Typed
  <2> QED
    BY <2>2, <2>3
<1>2. CASE file.format = "txt"
  <2>1. With(t, x) = WithNumber(t, x)
    BY <1>2 DEF With
  <2>2. CASE x < t.max
    BY <1>2, <2>1, <2>2 DEF WithNumber
  <2>3. CASE ~ (x < t.max)
    <3> DEFINE m == (x + 1) % Count
    <3>1. With(t, x) = [indices |-> [y \in Names(m) |-> y], max |-> m]
      BY <2>1, <2>3 DEF WithNumber
    <3>2. m \in 0 .. Count - 1
      BY CountAssumption
    <3> HIDE DEF m
    <3>3. Names(m) \subseteq Names(Count) /\ m \in Names(Count)
      BY <3>2, CountAssumption DEF Names
    <3> QED
      BY <1>2, <3>1, <3>3 DEF Typed
  <2> QED
    BY <2>2, <2>3
<1> QED
  BY <1>1, <1>2
-----------------------------------------------------------------------------
(* One line.                                                               *)

(* The names on a line are numbers below the number of names.              *)
LEMMA LineType ==
  ASSUME file \in Files, NEW l \in Line
  PROVE  /\ l.from \in Nat /\ l.from < file.states
         /\ l.to \in Nat /\ l.to < file.states
         /\ l.in \in Nat /\ l.in < file.inputs
         /\ l.out \in Nat /\ l.out < file.outputs
         /\ l = [from |-> l.from, in |-> l.in, out |-> l.out, to |-> l.to]
BY FileType DEF Line, Names

(* The numbers on a line are numbers of the types.                         *)
LEMMA LineTyped ==
  ASSUME ReadTypeOK, NEW l \in Line, Read(l)
  PROVE  /\ Typed(states') /\ Typed(inputs') /\ Typed(outputs')
         /\ Source(l) \in Names(Count) /\ Symbol(l) \in Names(Count)
         /\ EdgeOn(l) \in [to : Names(Count), out : Names(Count)]
<1>1. /\ file \in Files /\ Typed(states) /\ Typed(inputs) /\ Typed(outputs)
      /\ file.format \in {"dot", "txt"}
  BY FileType DEF ReadTypeOK, Typed
<1>2. /\ states' = With(With(states, l.from), l.to)
      /\ inputs' = With(inputs, l.in) /\ outputs' = With(outputs, l.out)
  BY DEF Read
<1>3. /\ l.from \in Nat /\ l.to \in Nat /\ l.in \in Nat /\ l.out \in Nat
  BY <1>1, LineType
<1>4. /\ Typed(With(states, l.from))
      /\ file.format = "dot" => l.from \in DOMAIN With(states, l.from).indices
  BY <1>1, <1>3, TypedMore
<1>5. /\ Typed(states')
      /\ file.format = "dot" => {l.from, l.to} \subseteq DOMAIN states'.indices
  BY <1>1, <1>2, <1>3, <1>4, TypedMore
<1>6. /\ Typed(inputs')
      /\ file.format = "dot" => l.in \in DOMAIN inputs'.indices
  BY <1>1, <1>2, <1>3, TypedMore
<1>7. /\ Typed(outputs')
      /\ file.format = "dot" => l.out \in DOMAIN outputs'.indices
  BY <1>1, <1>2, <1>3, TypedMore
<1>8. /\ Index(states', l.from) \in Names(Count)
      /\ Index(states', l.to) \in Names(Count)
      /\ Index(inputs', l.in) \in Names(Count)
      /\ Index(outputs', l.out) \in Names(Count)
  <2>1. CASE file.format = "dot"
    BY <1>5, <1>6, <1>7, <2>1 DEF Index, Typed
  <2>2. CASE file.format = "txt"
    <3>1. /\ l.from \in Names(Count) /\ l.to \in Names(Count)
          /\ l.in \in Names(Count) /\ l.out \in Names(Count)
      BY <1>1, <2>2, LineType, FileType, CountAssumption DEF Names
    <3> QED
      BY <2>2, <3>1 DEF Index
  <2> QED
    BY <1>1, <2>1, <2>2
<1> QED
  BY <1>5, <1>6, <1>7, <1>8 DEF Source, Symbol, EdgeOn

(* The edge e put in row s at place i of the graph, which is made to have  *)
(* ns rows, and this row ni places.                                        *)
Put(s, i, ns, ni, e) ==
  /\ DOMAIN graph' = Names(ns)
  /\ \A n \in Names(ns) : n # s =>
       graph'[n] = IF n \in DOMAIN graph THEN graph[n] ELSE <<>>
  /\ DOMAIN graph'[s] = Names(ni)
  /\ graph'[s][i] = e
  /\ \A a \in Names(ni) : a # i =>
       graph'[s][a] = IF s \in DOMAIN graph /\ a \in DOMAIN graph[s]
                        THEN graph[s][a] ELSE NoEdge

(* Resizing the graph and its row and writing the edge puts it there and   *)
(* leaves all other edges in place.                                        *)
LEMMA EdgeIsPut ==
  ASSUME NEW l, AddEdge(l), InBounds(l), Source(l) \in Nat, Symbol(l) \in Nat,
         states'.max \in Nat, inputs'.max \in Nat
  PROVE  Put(Source(l), Symbol(l), states'.max, inputs'.max, EdgeOn(l))
<1>1. PICK s, i, ns, ni, e :
        s = Source(l) /\ i = Symbol(l) /\ ns = states'.max /\ ni = inputs'.max
        /\ e = EdgeOn(l)
  OBVIOUS
<1>2. s \in Names(ns) /\ i \in Names(ni)
  BY <1>1 DEF InBounds, Names
<1> DEFINE rows == Resized(graph, ns, <<>>)
           row  == Resized(rows[s], ni, NoEdge)
<1>3. graph' = [rows EXCEPT ![s] = [row EXCEPT ![i] = e]]
  BY <1>1 DEF AddEdge
<1>4. /\ DOMAIN rows = Names(ns) /\ DOMAIN row = Names(ni)
      /\ \A n \in Names(ns) : rows[n] = IF n \in DOMAIN graph THEN graph[n] ELSE <<>>
      /\ \A a \in Names(ni) :
           row[a] = IF a \in DOMAIN rows[s] THEN rows[s][a] ELSE NoEdge
      /\ DOMAIN <<>> = {}
  BY DEF Resized
<1> HIDE DEF rows, row
<1>5. /\ DOMAIN graph' = Names(ns)
      /\ graph'[s] = [row EXCEPT ![i] = e]
      /\ \A n \in Names(ns) : n # s => graph'[n] = rows[n]
  BY <1>2, <1>3, <1>4
<1>6. /\ DOMAIN graph'[s] = Names(ni) /\ graph'[s][i] = e
      /\ \A a \in Names(ni) : a # i => graph'[s][a] = row[a]
  BY <1>2, <1>4, <1>5
<1>7. ASSUME NEW a \in Names(ni)
      PROVE  row[a] = IF s \in DOMAIN graph /\ a \in DOMAIN graph[s]
                        THEN graph[s][a] ELSE NoEdge
  <2>1. CASE s \in DOMAIN graph
    BY <1>2, <1>4, <2>1
  <2>2. CASE s \notin DOMAIN graph
    BY <1>2, <1>4, <2>2
  <2> QED
    BY <2>1, <2>2
<1>8. Put(s, i, ns, ni, e)
  BY <1>4, <1>5, <1>6, <1>7 DEF Put
<1> QED
  BY <1>1, <1>8

(* The invariant holds before the first line.                              *)
LEMMA InitReads == Init => RInv
<1> SUFFICES ASSUME Init PROVE RInv
  OBVIOUS
<1>1. /\ file \in Files /\ states = [indices |-> <<>>, max |-> 0]
      /\ inputs = states /\ outputs = states /\ graph = <<>> /\ written = {}
      /\ count = 0 /\ read_pc = "lines" /\ DOMAIN <<>> = {}
  BY DEF Init
<1>2. ReadTypeOK
  <2>1. 0 \in Names(Count)
    BY CountAssumption DEF Names
  <2> QED
    BY <1>1, <2>1 DEF ReadTypeOK
<1>3. AllTranslated
  <2>1. StatesOf({}) = {} /\ InputsOf({}) = {} /\ OutputsOf({}) = {}
    BY DEF StatesOf, InputsOf, OutputsOf
  <2> QED
    BY <1>1, <2>1, TranslatesNothing, FileType DEF AllTranslated
<1>4. OneEdgeEach
  <2>1. {<<l.from, l.in>> : l \in written} = {}
    BY <1>1
  <2> QED
    BY <1>1, <2>1, FS_EmptySet DEF OneEdgeEach
<1>5. GraphIsWritten
  BY <1>1 DEF GraphIsWritten, Names
<1>6. IsFiniteSet(written)
  BY <1>1, FS_EmptySet
<1> QED
  BY <1>1, <1>2, <1>3, <1>4, <1>5, <1>6 DEF RInv, AcceptsMachines, ReadsWhatIsWritten

(* A step keeps the types: where an edge is written, every place of the    *)
(* graph has an edge or the mark.                                          *)
LEMMA TypesKept == ReadTypeOK /\ [Next]_read_vars => ReadTypeOK'
<1> SUFFICES ASSUME ReadTypeOK, [Next]_read_vars PROVE ReadTypeOK'
  OBVIOUS
<1> DEFINE Edges == [to : Names(Count), out : Names(Count)]
<1>1. /\ file \in Files /\ written \subseteq Line /\ count \in Nat
      /\ \A n \in DOMAIN graph : \A a \in DOMAIN graph[n] : graph[n][a] \in Edges
      /\ Typed(states) /\ Typed(inputs) /\ Typed(outputs)
      /\ read_pc \in {"lines", "returned", "thrown", "undefined", "aborted"}
  BY DEF ReadTypeOK, Typed
<1>2. ASSUME NEW l \in Line, Read(l), UNCHANGED graph \/ (InBounds(l) /\ AddEdge(l)),
             read_pc' \in {"lines", "returned", "thrown", "undefined", "aborted"}
      PROVE  ReadTypeOK'
  <2>1. /\ Typed(states') /\ Typed(inputs') /\ Typed(outputs')
        /\ Source(l) \in Names(Count) /\ Symbol(l) \in Names(Count)
        /\ EdgeOn(l) \in Edges
    BY <1>2, LineTyped
  <2>2. /\ file' = file /\ written' = written \cup {l} /\ count' = count + 1
    BY <1>2 DEF Read
  <2>3. written' \subseteq Line' /\ count' \in Nat
    BY <1>1, <2>2 DEF Line
  <2>4. \A n \in DOMAIN graph' : \A a \in DOMAIN graph'[n] : graph'[n][a] \in Edges
    <3>1. CASE UNCHANGED graph
      BY <1>1, <3>1
    <3>2. CASE InBounds(l) /\ AddEdge(l)
      <4>1. Source(l) \in Nat /\ Symbol(l) \in Nat /\ states'.max \in Nat /\ inputs'.max \in Nat
        BY <2>1, CountAssumption DEF Names, Typed
      <4>2. PICK s, i, ns, ni, e :
              s = Source(l) /\ i = Symbol(l) /\ ns = states'.max /\ ni = inputs'.max
              /\ e = EdgeOn(l)
        OBVIOUS
      <4>3. Put(s, i, ns, ni, e) /\ e \in Edges
        BY <2>1, <3>2, <4>1, <4>2, EdgeIsPut
      <4>4. NoEdge \in Edges
        BY CountAssumption DEF NoEdge, None, Names
      <4> HIDE DEF Edges
      <4>5. ASSUME NEW n \in Names(ns), NEW a \in DOMAIN graph'[n]
            PROVE  graph'[n][a] \in Edges
        <5>1. CASE n # s
          <6>1. DOMAIN <<>> = {}
            OBVIOUS
          <6> QED
            BY <1>1, <4>3, <4>5, <5>1, <6>1 DEF Put
        <5>2. CASE n = s
          BY <1>1, <4>3, <4>4, <4>5, <5>2 DEF Put
        <5> QED
          BY <5>1, <5>2
      <4> QED
        BY <4>3, <4>5 DEF Put
    <3> QED
      BY <1>2, <3>1, <3>2
  <2> QED
    BY <1>1, <1>2, <2>1, <2>2, <2>3, <2>4 DEF ReadTypeOK, Typed
<1>3. CASE EdgeLine
  BY <1>1, <1>2, <1>3 DEF EdgeLine
<1>4. CASE MarkedEdgeLine
  BY <1>2, <1>4 DEF MarkedEdgeLine
<1>5. CASE SecondEdgeLine
  BY <1>2, <1>5 DEF SecondEdgeLine
<1>6. CASE OverflowLine
  BY <1>2, <1>6 DEF OverflowLine
<1>7. CASE EndOfFile
  BY <1>1, <1>7 DEF EndOfFile, ReadTypeOK, Line, Typed
<1>8. CASE OtherLine \/ UNCHANGED read_vars
  BY <1>1, <1>8 DEF OtherLine, read_vars, ReadTypeOK, Line, Typed
<1> QED
  BY <1>3, <1>4, <1>5, <1>6, <1>7, <1>8 DEF Next
-----------------------------------------------------------------------------
(* Within the limits.                                                      *)

(* The names in use are bounded by those of the file.                      *)
LEMMA NamesInUse ==
  ASSUME file \in Files, NEW L \in SUBSET Line
  PROVE  /\ StatesOf(L) \in SUBSET (0 .. file.states)
         /\ InputsOf(L) \in SUBSET (0 .. file.inputs)
         /\ OutputsOf(L) \in SUBSET (0 .. file.outputs)
<1>1. \A l \in L : /\ l.from \in 0 .. file.states /\ l.to \in 0 .. file.states
                   /\ l.in \in 0 .. file.inputs /\ l.out \in 0 .. file.outputs
  BY LineType, FileType
<1> QED
  BY <1>1 DEF StatesOf, InputsOf, OutputsOf

(* While the file stays the same, so does what is meant by a set of names. *)
LEMMA MeantLater ==
  ASSUME file' = file
  PROVE  /\ Meant(StatesOf(written))' = Meant(StatesOf(written'))
         /\ Meant(InputsOf(written))' = Meant(InputsOf(written'))
         /\ Meant(OutputsOf(written))' = Meant(OutputsOf(written'))
<1>1. Meant(StatesOf(written))' = Meant(StatesOf(written'))
  BY Zenon DEF Meant
<1>2. Meant(InputsOf(written))' = Meant(InputsOf(written'))
  BY Zenon DEF Meant
<1>3. Meant(OutputsOf(written))' = Meant(OutputsOf(written'))
  BY Zenon DEF Meant
<1> QED
  BY <1>1, <1>2, <1>3

(* The primed invariant about translations, in terms of the primed ones.   *)
LEMMA TranslatedLater ==
  ASSUME file' = file
  PROVE  AllTranslated' <=> /\ Translates(states', StatesOf(written'))
                            /\ Translates(inputs', InputsOf(written'))
                            /\ Translates(outputs', OutputsOf(written'))
<1>1. Translates(states, StatesOf(written))' <=> Translates(states', StatesOf(written'))
  BY MeantLater DEF Translates
<1>2. Translates(inputs, InputsOf(written))' <=> Translates(inputs', InputsOf(written'))
  BY MeantLater DEF Translates
<1>3. Translates(outputs, OutputsOf(written))' <=> Translates(outputs', OutputsOf(written'))
  BY MeantLater DEF Translates
<1> QED
  BY <1>1, <1>2, <1>3 DEF AllTranslated

(* The limits after a step, in terms of the names in use after it.         *)
LEMMA LimitsLater ==
  ASSUME file' = file, WithinLimits'
  PROVE  /\ Cardinality(Meant(StatesOf(written'))) < Count
         /\ Cardinality(Meant(InputsOf(written'))) < Count
         /\ Cardinality(Meant(OutputsOf(written'))) < Count
BY DEF WithinLimits, Meant

(* What one more line does to the names in use.                            *)
LEMMA NamesOfLine ==
  ASSUME NEW L, NEW l
  PROVE  /\ StatesOf(L \cup {l}) = (StatesOf(L) \cup {l.from}) \cup {l.to}
         /\ InputsOf(L \cup {l}) = InputsOf(L) \cup {l.in}
         /\ OutputsOf(L \cup {l}) = OutputsOf(L) \cup {l.out}
BY DEF StatesOf, InputsOf, OutputsOf

(* A file within the limits was within them before its last line, all its  *)
(* names have numbers, and those that had one keep it.                     *)
LEMMA LineTranslated ==
  ASSUME ReadTypeOK, Reading => AllTranslated, NEW l \in Line, Read(l), WithinLimits'
  PROVE  /\ Reading
         /\ AllTranslated'
         /\ \A x \in StatesOf(written) : states'.indices[x] = states.indices[x]
         /\ \A x \in InputsOf(written) : inputs'.indices[x] = inputs.indices[x]
         /\ \A x \in OutputsOf(written) : outputs'.indices[x] = outputs.indices[x]
         /\ states.max <= states'.max /\ inputs.max <= inputs'.max
<1> DEFINE S == StatesOf(written)
           I == InputsOf(written)
           O == OutputsOf(written)
           with1 == With(states, l.from)
<1>1. /\ file \in Files /\ file.format \in {"dot", "txt"} /\ written \in SUBSET Line
      /\ file.states \in Nat /\ file.inputs \in Nat /\ file.outputs \in Nat
  BY FileType DEF ReadTypeOK
<1>2. /\ states' = With(with1, l.to)
      /\ inputs' = With(inputs, l.in) /\ outputs' = With(outputs, l.out)
      /\ written' = written \cup {l} /\ file' = file /\ read_pc = "lines"
  BY DEF Read
<1>3. /\ S \in SUBSET (0 .. file.states) /\ I \in SUBSET (0 .. file.inputs)
      /\ O \in SUBSET (0 .. file.outputs)
      /\ l.from \in 0 .. file.states /\ l.to \in 0 .. file.states
      /\ l.in \in 0 .. file.inputs /\ l.out \in 0 .. file.outputs
  BY <1>1, LineType, NamesInUse
<1>4. /\ StatesOf(written') = (S \cup {l.from}) \cup {l.to}
      /\ InputsOf(written') = I \cup {l.in}
      /\ OutputsOf(written') = O \cup {l.out}
  BY <1>2, NamesOfLine
<1> HIDE DEF S, I, O, with1
<1>5. /\ Cardinality(Meant((S \cup {l.from}) \cup {l.to})) < Count
      /\ Cardinality(Meant(I \cup {l.in})) < Count
      /\ Cardinality(Meant(O \cup {l.out})) < Count
  BY <1>2, <1>4, LimitsLater
<1>6. ASSUME NEW b \in Nat, NEW T \in SUBSET (0 .. b), NEW x \in 0 .. b,
             Cardinality(Meant(T \cup {x})) < Count
      PROVE  Cardinality(Meant(T)) < Count
  <2>1. T \cup {x} \in SUBSET (0 .. b) /\ T \in SUBSET (T \cup {x})
    OBVIOUS
  <2>2. Cardinality(Meant(T)) <= Cardinality(Meant(T \cup {x}))
    BY <1>1, <2>1, MeantGrows
  <2>3. Cardinality(Meant(T)) \in Nat /\ Cardinality(Meant(T \cup {x})) \in Nat
    BY <1>1, <2>1, MeantIs
  <2> QED
    BY <1>6, <2>2, <2>3, CountAssumption
<1>7. S \cup {l.from} \in SUBSET (0 .. file.states)
  BY <1>3
<1>8. Cardinality(Meant(S \cup {l.from})) < Count
  BY <1>1, <1>3, <1>5, <1>6, <1>7
<1>9. /\ Cardinality(Meant(S)) < Count /\ Cardinality(Meant(I)) < Count
      /\ Cardinality(Meant(O)) < Count
  BY <1>1, <1>3, <1>5, <1>6, <1>8
<1>10. Reading
  BY <1>2, <1>9 DEF Reading, WithinLimits, S, I, O
<1>11. Translates(states, S) /\ Translates(inputs, I) /\ Translates(outputs, O)
  BY <1>10 DEF AllTranslated, S, I, O
<1>12. /\ Translates(with1, S \cup {l.from})
       /\ \A y \in Meant(S) : with1.indices[y] = states.indices[y]
       /\ states.max <= with1.max
  BY <1>1, <1>3, <1>8, <1>11, TranslatesMore DEF with1
<1>13. /\ Translates(states', (S \cup {l.from}) \cup {l.to})
       /\ \A y \in Meant(S \cup {l.from}) : states'.indices[y] = with1.indices[y]
       /\ with1.max <= states'.max
  BY <1>1, <1>2, <1>3, <1>5, <1>7, <1>12, TranslatesMore
<1>14. /\ Translates(inputs', I \cup {l.in})
       /\ \A y \in Meant(I) : inputs'.indices[y] = inputs.indices[y]
       /\ inputs.max <= inputs'.max
  BY <1>1, <1>2, <1>3, <1>5, <1>11, TranslatesMore, ZenonT(60)
<1>15. /\ Translates(outputs', O \cup {l.out})
       /\ \A y \in Meant(O) : outputs'.indices[y] = outputs.indices[y]
  BY <1>1, <1>2, <1>3, <1>5, <1>11, TranslatesMore, ZenonT(60)
<1>16. AllTranslated'
  BY <1>2, <1>4, <1>13, <1>14, <1>15, TranslatedLater
<1>17. S \subseteq Meant(S) /\ I \subseteq Meant(I) /\ O \subseteq Meant(O)
       /\ S \cup {l.from} \subseteq Meant(S \cup {l.from})
  BY <1>1, <1>3, <1>7, MeantIs
<1>18. states.max <= states'.max
  <2>1. /\ states.max = Cardinality(Meant(S))
        /\ with1.max = Cardinality(Meant(S \cup {l.from}))
        /\ states'.max = Cardinality(Meant((S \cup {l.from}) \cup {l.to}))
    BY <1>11, <1>12, <1>13 DEF Translates
  <2>2. (S \cup {l.from}) \cup {l.to} \in SUBSET (0 .. file.states)
    BY <1>3
  <2>3. /\ Cardinality(Meant(S)) \in Nat /\ Cardinality(Meant(S \cup {l.from})) \in Nat
        /\ Cardinality(Meant((S \cup {l.from}) \cup {l.to})) \in Nat
    BY <1>1, <1>3, <1>7, <2>2, MeantIs
  <2> QED
    BY <1>12, <1>13, <2>1, <2>3
<1>19. \A x \in S : states'.indices[x] = states.indices[x]
  BY <1>12, <1>13, <1>17
<1> QED
  BY <1>10, <1>14, <1>15, <1>16, <1>17, <1>18, <1>19 DEF S, I, O

(* The numbers of a translation within the limits are not the mark.        *)
LEMMA NumbersFit ==
  ASSUME NEW b \in Nat, NEW S \in SUBSET (0 .. b), file.format \in {"dot", "txt"},
         NEW t, Translates(t, S), Cardinality(Meant(S)) < Count
  PROVE  /\ t.max \in Nat /\ t.max < Count
         /\ S \subseteq DOMAIN t.indices
         /\ \A x \in S : /\ t.indices[x] \in Nat /\ t.indices[x] < t.max
                         /\ t.indices[x] # None
                         /\ file.format = "txt" => t.indices[x] = x
         /\ \A x, y \in S : t.indices[x] = t.indices[y] => x = y
<1>1. S \subseteq Meant(S) /\ Cardinality(Meant(S)) \in Nat
  BY MeantIs
<1>2. t.max \in Nat /\ t.max < Count
  BY <1>1 DEF Translates
<1>3. \A x \in S : t.indices[x] \in 0 .. t.max - 1
  BY <1>1 DEF Translates, Names
<1>4. \A x \in S : t.indices[x] # None
  BY <1>2, <1>3, CountAssumption DEF None
<1>5. \A x \in S : file.format = "txt" => t.indices[x] = x
  BY <1>1 DEF Translates
<1>6. \A x \in S : t.indices[x] \in Nat /\ t.indices[x] < t.max
  BY <1>2, <1>3
<1> QED
  BY <1>1, <1>2, <1>4, <1>5, <1>6 DEF Translates

(* Where the edge of a line is put, and that it is one.                    *)
LEMMA LineFits ==
  ASSUME ReadTypeOK, Reading => AllTranslated, NEW l \in Line, Read(l), WithinLimits'
  PROVE  /\ <<Source(l), Symbol(l)>> = Place(l)'
         /\ EdgeOn(l) = EdgeOf(l)'
         /\ InBounds(l) /\ IsEdge(EdgeOn(l))
         /\ \A m \in written : Place(m)' = Place(m) /\ EdgeOf(m)' = EdgeOf(m)
         /\ \A m, k \in written' : Place(m)' = Place(k)' => m.from = k.from /\ m.in = k.in
<1>1. /\ AllTranslated'
      /\ \A x \in StatesOf(written) : states'.indices[x] = states.indices[x]
      /\ \A x \in InputsOf(written) : inputs'.indices[x] = inputs.indices[x]
      /\ \A x \in OutputsOf(written) : outputs'.indices[x] = outputs.indices[x]
  BY LineTranslated
<1>2. /\ file \in Files /\ file.format \in {"dot", "txt"}
      /\ file.states \in Nat /\ file.inputs \in Nat /\ file.outputs \in Nat
      /\ file' = file /\ written' = written \cup {l}
  BY FileType DEF ReadTypeOK, Read
<1>3. written' \in SUBSET Line
  BY <1>2 DEF ReadTypeOK
<1> DEFINE S == StatesOf(written')
           I == InputsOf(written')
           O == OutputsOf(written')
<1>4. /\ S \in SUBSET (0 .. file.states) /\ I \in SUBSET (0 .. file.inputs)
      /\ O \in SUBSET (0 .. file.outputs)
  BY <1>2, <1>3, NamesInUse
<1>5. /\ Translates(states', S) /\ Translates(inputs', I) /\ Translates(outputs', O)
      /\ Cardinality(Meant(S)) < Count /\ Cardinality(Meant(I)) < Count
      /\ Cardinality(Meant(O)) < Count
  BY <1>1, <1>2, TranslatedLater, LimitsLater
<1>6. \A m \in written' : m.from \in S /\ m.to \in S /\ m.in \in I /\ m.out \in O
  BY DEF StatesOf, InputsOf, OutputsOf
<1>7. \A m \in written : /\ m.from \in StatesOf(written) /\ m.to \in StatesOf(written)
                         /\ m.in \in InputsOf(written) /\ m.out \in OutputsOf(written)
  BY DEF StatesOf, InputsOf, OutputsOf
<1> HIDE DEF S, I, O
<1>8. /\ \A x \in S : /\ states'.indices[x] \in Nat /\ states'.indices[x] < states'.max
                      /\ states'.indices[x] # None
                      /\ Index(states', x) = states'.indices[x]
      /\ \A x, y \in S : states'.indices[x] = states'.indices[y] => x = y
  <2>1. PICK r : r = states'
    OBVIOUS
  <2>2. /\ S \in SUBSET (0 .. file.states) /\ file.states \in Nat
        /\ file.format \in {"dot", "txt"}
        /\ Translates(r, S) /\ Cardinality(Meant(S)) < Count
    BY <1>2, <1>4, <1>5, <2>1
  <2>3. /\ \A x \in S : /\ r.indices[x] \in Nat /\ r.indices[x] < r.max
                        /\ r.indices[x] # None
                        /\ file.format = "txt" => r.indices[x] = x
        /\ \A x, y \in S : r.indices[x] = r.indices[y] => x = y
    BY <2>2, NumbersFit
  <2> QED
    BY <2>1, <2>2, <2>3 DEF Index
<1>9. /\ \A x \in I : /\ inputs'.indices[x] \in Nat /\ inputs'.indices[x] < inputs'.max
                      /\ Index(inputs', x) = inputs'.indices[x]
      /\ \A x, y \in I : inputs'.indices[x] = inputs'.indices[y] => x = y
  <2>1. PICK r : r = inputs'
    OBVIOUS
  <2>2. /\ I \in SUBSET (0 .. file.inputs) /\ file.inputs \in Nat
        /\ file.format \in {"dot", "txt"}
        /\ Translates(r, I) /\ Cardinality(Meant(I)) < Count
    BY <1>2, <1>4, <1>5, <2>1
  <2>3. /\ \A x \in I : /\ r.indices[x] \in Nat /\ r.indices[x] < r.max
                        /\ r.indices[x] # None
                        /\ file.format = "txt" => r.indices[x] = x
        /\ \A x, y \in I : r.indices[x] = r.indices[y] => x = y
    BY <2>2, NumbersFit
  <2> QED
    BY <2>1, <2>2, <2>3 DEF Index
<1>10. \A x \in O : outputs'.indices[x] # None /\ Index(outputs', x) = outputs'.indices[x]
  <2>1. PICK r : r = outputs'
    OBVIOUS
  <2>2. /\ O \in SUBSET (0 .. file.outputs) /\ file.outputs \in Nat
        /\ file.format \in {"dot", "txt"}
        /\ Translates(r, O) /\ Cardinality(Meant(O)) < Count
    BY <1>2, <1>4, <1>5, <2>1
  <2>3. /\ \A x \in O : /\ r.indices[x] \in Nat /\ r.indices[x] < r.max
                        /\ r.indices[x] # None
                        /\ file.format = "txt" => r.indices[x] = x
        /\ \A x, y \in O : r.indices[x] = r.indices[y] => x = y
    BY <2>2, NumbersFit
  <2> QED
    BY <2>1, <2>2, <2>3 DEF Index
<1>11. l.from \in S /\ l.to \in S /\ l.in \in I /\ l.out \in O
  BY <1>2, <1>6
<1>12. <<Source(l), Symbol(l)>> = Place(l)' /\ EdgeOn(l) = EdgeOf(l)'
  BY <1>8, <1>9, <1>10, <1>11 DEF Source, Symbol, Place, EdgeOn, EdgeOf
<1>13. InBounds(l) /\ IsEdge(EdgeOn(l))
  BY <1>8, <1>9, <1>10, <1>11 DEF InBounds, Source, Symbol, EdgeOn, IsEdge
<1>14. \A m \in written : Place(m)' = Place(m) /\ EdgeOf(m)' = EdgeOf(m)
  BY <1>1, <1>7 DEF Place, EdgeOf
<1>15. \A m, k \in written' : Place(m)' = Place(k)' => m.from = k.from /\ m.in = k.in
  BY <1>6, <1>8, <1>9 DEF Place
<1> QED
  BY <1>12, <1>13, <1>14, <1>15
(* The places of the edges that were read are finitely many.               *)
Pairs(L) == {<<l.from, l.in>> : l \in L}

(* A file has finitely many places for edges.                              *)
LEMMA PairsFinite ==
  ASSUME file \in Files, NEW L \in SUBSET Line
  PROVE  IsFiniteSet(Pairs(L))
<1>1. IsFiniteSet(0 .. file.states) /\ IsFiniteSet(0 .. file.inputs)
  <2>1. 0 \in Int /\ file.states \in Int /\ file.inputs \in Int
    BY FileType
  <2> QED
    BY <2>1, FS_Interval
<1>2. IsFiniteSet((0 .. file.states) \X (0 .. file.inputs))
  BY <1>1, FS_Product
<1>3. \A l \in L : l.from \in 0 .. file.states /\ l.in \in 0 .. file.inputs
  BY LineType, FileType
<1>4. Pairs(L) \in SUBSET ((0 .. file.states) \X (0 .. file.inputs))
  BY <1>3 DEF Pairs
<1> QED
  BY <1>2, <1>4, FS_Subset

(* A line whose place is free adds its edge.                               *)
LEMMA EdgeLineKeeps ==
  ASSUME RInv, NEW l \in Line, Read(l), ~ defined(Source(l), Symbol(l)), AddEdge(l),
         WithinLimits'
  PROVE  OneEdgeEach' /\ GraphIsWritten'
<1>1. /\ ReadTypeOK /\ (Reading => AllTranslated)
      /\ file \in Files /\ written \in SUBSET Line
  BY DEF RInv, ReadTypeOK
<1>2. /\ Reading /\ states.max <= states'.max /\ inputs.max <= inputs'.max
  BY <1>1, LineTranslated
<1>3. OneEdgeEach /\ GraphIsWritten
  BY <1>2 DEF RInv
<1>4. PICK s, i, ns, ni, e :
        s = Source(l) /\ i = Symbol(l) /\ ns = states'.max /\ ni = inputs'.max
        /\ e = EdgeOn(l)
  OBVIOUS
<1>5. /\ <<s, i>> = Place(l)' /\ e = EdgeOf(l)' /\ InBounds(l) /\ IsEdge(e)
      /\ \A m \in written : Place(m)' = Place(m) /\ EdgeOf(m)' = EdgeOf(m)
      /\ \A m, k \in written' : Place(m)' = Place(k)' => m.from = k.from /\ m.in = k.in
  BY <1>1, <1>4, LineFits
<1>6. /\ s \in Nat /\ i \in Nat /\ ns \in Nat /\ ni \in Nat
      /\ states.max \in Nat /\ inputs.max \in Nat
  BY <1>1, <1>4, LineTyped, CountAssumption DEF Typed, Names, ReadTypeOK
<1>7. Put(s, i, ns, ni, e)
  BY <1>4, <1>5, <1>6, EdgeIsPut
<1>8. s \in Names(ns) /\ i \in Names(ni) /\ Names(states.max) \subseteq Names(ns)
      /\ Names(inputs.max) \subseteq Names(ni)
  BY <1>2, <1>4, <1>5, <1>6 DEF InBounds, Names
<1>9. written' = written \cup {l} /\ count' = count + 1
  BY DEF Read
<1>10. \A m \in written : Place(m) # <<s, i>>
  BY <1>3, <1>4 DEF GraphIsWritten, defined
<1>11. \A m \in written : ~ (m.from = l.from /\ m.in = l.in)
  <2> SUFFICES ASSUME NEW m \in written, m.from = l.from, m.in = l.in PROVE FALSE
    OBVIOUS
  <2>1. Place(m)' = Place(l)'
    BY DEF Place
  <2> QED
    BY <1>5, <1>10, <2>1
<1>12. OneEdgeEach'
  <2>1. <<l.from, l.in>> \notin Pairs(written)
    BY <1>11 DEF Pairs
  <2>2. Pairs(written') = Pairs(written) \cup {<<l.from, l.in>>}
    BY <1>9 DEF Pairs
  <2>3. Cardinality(Pairs(written')) = Cardinality(Pairs(written)) + 1
    BY <1>1, <2>1, <2>2, PairsFinite, FS_AddElement
  <2>4. count = Cardinality(Pairs(written))
    BY <1>3 DEF OneEdgeEach, Pairs
  <2>5. \A m, k \in written' : m.from = k.from /\ m.in = k.in => m = k
    BY <1>3, <1>9, <1>11 DEF OneEdgeEach
  <2> QED
    BY <1>9, <2>3, <2>4, <2>5 DEF OneEdgeEach, Pairs
<1>13. \A n \in Names(ns) : DOMAIN graph'[n] \subseteq Names(ni)
  <2> TAKE n \in Names(ns)
  <2>1. CASE n = s
    BY <1>7, <2>1 DEF Put
  <2>2. CASE n # s /\ n \in DOMAIN graph
    BY <1>3, <1>7, <1>8, <2>2 DEF Put, GraphIsWritten
  <2>3. CASE n # s /\ n \notin DOMAIN graph
    <3>1. DOMAIN <<>> = {}
      OBVIOUS
    <3> QED
      BY <1>7, <2>3, <3>1 DEF Put
  <2> QED
    BY <2>1, <2>2, <2>3
<1>14. ASSUME NEW n \in Names(ns), NEW a \in DOMAIN graph[n], n \in DOMAIN graph,
              <<n, a>> # <<s, i>>
       PROVE  a \in DOMAIN graph'[n] /\ graph'[n][a] = graph[n][a]
  <2>1. a \in Names(ni)
    BY <1>3, <1>8, <1>14 DEF GraphIsWritten
  <2>2. CASE n = s
    BY <1>7, <1>14, <2>1, <2>2 DEF Put
  <2>3. CASE n # s
    BY <1>7, <1>14, <2>3 DEF Put
  <2> QED
    BY <2>2, <2>3
<1>15. ASSUME NEW m \in written'
       PROVE  /\ Place(m)'[1] \in Names(ns)
              /\ Place(m)'[2] \in DOMAIN graph'[Place(m)'[1]]
              /\ graph'[Place(m)'[1]][Place(m)'[2]] = EdgeOf(m)'
              /\ IsEdge(EdgeOf(m)')
  <2>1. CASE m = l
    <3>1. Place(m)' = <<s, i>> /\ EdgeOf(m)' = e
      BY <1>5, <2>1
    <3> QED
      BY <1>5, <1>7, <1>8, <3>1 DEF Put
  <2>2. CASE m \in written
    <3>1. PICK n, a : Place(m) = <<n, a>>
      BY DEF Place
    <3>2. Place(m)' = <<n, a>> /\ EdgeOf(m)' = EdgeOf(m) /\ <<n, a>> # <<s, i>>
      BY <1>5, <1>10, <2>2, <3>1
    <3>3. /\ n \in DOMAIN graph /\ a \in DOMAIN graph[n]
          /\ graph[n][a] = EdgeOf(m) /\ IsEdge(EdgeOf(m))
      BY <1>3, <2>2, <3>1 DEF GraphIsWritten
    <3>4. n \in Names(ns)
      BY <1>3, <1>8, <3>3 DEF GraphIsWritten
    <3>5. a \in DOMAIN graph'[n] /\ graph'[n][a] = graph[n][a]
      BY <1>14, <3>2, <3>3, <3>4
    <3> QED
      BY <3>2, <3>3, <3>4, <3>5
  <2> QED
    BY <1>9, <2>1, <2>2
<1>16. ASSUME NEW n \in Names(ns), NEW a \in DOMAIN graph'[n], IsEdge(graph'[n][a])
       PROVE  \E m \in written' : Place(m)' = <<n, a>>
  <2>1. CASE n = s /\ a = i
    BY <1>5, <1>9, <2>1
  <2>2. CASE ~ (n = s /\ a = i)
    <3>1. n \in DOMAIN graph /\ a \in DOMAIN graph[n] /\ graph'[n][a] = graph[n][a]
      <4>1. CASE n = s
        <5>1. a \in Names(ni) /\ ~ IsEdge(NoEdge)
          BY <1>13 DEF IsEdge, NoEdge
        <5> QED
          BY <1>7, <1>16, <2>2, <4>1, <5>1 DEF Put
      <4>2. CASE n # s
        <5>1. DOMAIN <<>> = {}
          OBVIOUS
        <5> QED
          BY <1>7, <4>2, <5>1 DEF Put
      <4> QED
        BY <4>1, <4>2
    <3>2. PICK m \in written : Place(m) = <<n, a>>
      BY <1>3, <1>16, <3>1 DEF GraphIsWritten
    <3> QED
      BY <1>5, <1>9, <3>2
  <2> QED
    BY <2>1, <2>2
<1>17. DOMAIN graph' = Names(states'.max) /\ ns = states'.max /\ ni = inputs'.max
  BY <1>4, <1>7 DEF Put
<1>18. GraphIsWritten'
  BY <1>13, <1>15, <1>16, <1>17 DEF GraphIsWritten, IsEdge, None
<1> QED
  BY <1>12, <1>18

(* A second edge makes the machine nondeterministic.                       *)
LEMMA SecondLineRefused ==
  ASSUME RInv, NEW l \in Line, Read(l), defined(Source(l), Symbol(l)), WithinLimits'
  PROVE  ~ Deterministic'
<1>1. /\ ReadTypeOK /\ (Reading => AllTranslated)
  BY DEF RInv
<1>2. OneEdgeEach /\ GraphIsWritten
  BY <1>1, LineTranslated DEF RInv
<1>3. /\ <<Source(l), Symbol(l)>> = Place(l)'
      /\ \A m \in written : Place(m)' = Place(m)
      /\ \A m, k \in written' : Place(m)' = Place(k)' => m.from = k.from /\ m.in = k.in
  BY <1>1, LineFits
<1>4. PICK m \in written : Place(m) = <<Source(l), Symbol(l)>>
  BY <1>2 DEF GraphIsWritten, defined
<1>5. written' = written \cup {l} /\ count' = count + 1
  BY DEF Read
<1>6. m.from = l.from /\ m.in = l.in
  BY <1>3, <1>4, <1>5
<1>7. Pairs(written') = Pairs(written)
  BY <1>5, <1>6 DEF Pairs
<1>8. count = Cardinality(Pairs(written)) /\ count \in Nat
  BY <1>1, <1>2 DEF OneEdgeEach, Pairs, ReadTypeOK
<1>9. Deterministic' => count' = Cardinality(Pairs(written'))
  BY DEF Deterministic, Pairs
<1> QED
  BY <1>5, <1>7, <1>8, <1>9
-----------------------------------------------------------------------------
(* The end of the file.                                                    *)

(* What a machine is that was read without a second edge.                  *)
AllRead ==
  /\ ReadTypeOK /\ IsFiniteSet(written) /\ WithinLimits
  /\ AllTranslated /\ OneEdgeEach /\ GraphIsWritten

(* The names of the lines, and their numbers.                              *)
LEMMA NumbersOfLines ==
  ASSUME AllRead
  PROVE  /\ states.max \in Nat /\ inputs.max \in Nat
         /\ \A l \in written :
              /\ l.from \in Meant(StatesOf(written)) /\ l.in \in Meant(InputsOf(written))
              /\ Place(l)[1] \in Names(states.max) /\ Place(l)[2] \in Names(inputs.max)
              /\ outputs.max # 0
         /\ written = {} => states.max = 0
<1>1. /\ file \in Files /\ file.format \in {"dot", "txt"} /\ written \in SUBSET Line
      /\ file.states \in Nat /\ file.inputs \in Nat /\ file.outputs \in Nat
  BY FileType DEF AllRead, ReadTypeOK
<1> DEFINE S == StatesOf(written)
           I == InputsOf(written)
           O == OutputsOf(written)
<1>2. /\ S \in SUBSET (0 .. file.states) /\ I \in SUBSET (0 .. file.inputs)
      /\ O \in SUBSET (0 .. file.outputs)
  BY <1>1, NamesInUse
<1>3. \A l \in written : l.from \in S /\ l.in \in I /\ l.out \in O
  BY DEF StatesOf, InputsOf, OutputsOf
<1>4. written = {} => S = {}
  BY DEF StatesOf
<1>5. Translates(states, S) /\ Translates(inputs, I) /\ Translates(outputs, O)
  BY DEF AllRead, AllTranslated
<1> HIDE DEF S, I, O
<1>6. /\ S \subseteq Meant(S) /\ I \subseteq Meant(I) /\ O \subseteq Meant(O)
      /\ Cardinality(Meant(S)) \in Nat /\ Cardinality(Meant(I)) \in Nat
      /\ Cardinality(Meant(O)) \in Nat
      /\ S = {} => Meant(S) = {}
  BY <1>1, <1>2, MeantIs
<1>7. states.max \in Nat /\ inputs.max \in Nat /\ outputs.max \in Nat
  BY <1>5, <1>6 DEF Translates
<1>8. written = {} => states.max = 0
  BY <1>4, <1>5, <1>6, FS_EmptySet DEF Translates
<1>9. ASSUME NEW l \in written
      PROVE  /\ l.from \in Meant(S) /\ l.in \in Meant(I)
             /\ Place(l)[1] \in Names(states.max) /\ Place(l)[2] \in Names(inputs.max)
             /\ outputs.max # 0
  <2>1. l.from \in Meant(S) /\ l.in \in Meant(I) /\ l.out \in Meant(O)
    BY <1>3, <1>6
  <2>2. /\ states.indices[l.from] \in Names(states.max)
        /\ inputs.indices[l.in] \in Names(inputs.max)
        /\ outputs.indices[l.out] \in Names(outputs.max)
    BY <1>5, <2>1 DEF Translates
  <2>3. Names(0) = {}
    BY DEF Names
  <2> QED
    BY <2>1, <2>2, <2>3 DEF Place
<1> QED
  BY <1>7, <1>8, <1>9 DEF S, I

(* The file is not empty if and only if there is a line.                   *)
LEMMA SomethingRead ==
  ASSUME AllRead
  PROVE  NothingEmpty <=> written # {}
<1>1. Names(0) = {}
  BY DEF Names
<1>2. ASSUME NEW l \in written PROVE NothingEmpty
  <2>1. states.max # 0 /\ inputs.max # 0 /\ outputs.max # 0
    BY <1>1, NumbersOfLines
  <2> QED
    BY <2>1 DEF NothingEmpty
<1> QED
  BY <1>2, NumbersOfLines DEF NothingEmpty

(* The graph has all edges if and only if the file has all lines.          *)
LEMMA CompleteIsTotal ==
  ASSUME AllRead
  PROVE  is_complete <=> IsTotal
<1> DEFINE MS == Meant(StatesOf(written))
           MI == Meant(InputsOf(written))
<1>1. /\ \A x \in MS : states.indices[x] \in Names(states.max)
      /\ \A x, y \in MS : states.indices[x] = states.indices[y] => x = y
      /\ \A n \in Names(states.max) : \E x \in MS : states.indices[x] = n
  BY DEF AllRead, AllTranslated, Translates
<1>2. /\ \A x \in MI : inputs.indices[x] \in Names(inputs.max)
      /\ \A x, y \in MI : inputs.indices[x] = inputs.indices[y] => x = y
      /\ \A n \in Names(inputs.max) : \E x \in MI : inputs.indices[x] = n
  BY DEF AllRead, AllTranslated, Translates
<1>3. \A l \in written : l.from \in MS /\ l.in \in MI
  BY NumbersOfLines
<1> HIDE DEF MS, MI
<1>4. GraphIsWritten
  BY DEF AllRead
<1>5. ASSUME IsTotal PROVE is_complete
  <2>1. ASSUME NEW n \in DOMAIN graph, NEW a \in Names(inputs.max)
        PROVE  a \in DOMAIN graph[n] /\ IsEdge(graph[n][a])
    <3>1. PICK s \in MS : states.indices[s] = n
      BY <1>1, <1>4 DEF GraphIsWritten
    <3>2. PICK i \in MI : inputs.indices[i] = a
      BY <1>2
    <3>3. PICK l \in written : l.from = s /\ l.in = i
      BY <1>5 DEF IsTotal, MS, MI
    <3>4. Place(l)[1] = n /\ Place(l)[2] = a
      BY <3>1, <3>2, <3>3 DEF Place
    <3> QED
      BY <1>4, <3>4 DEF GraphIsWritten
  <2>2. \A n \in DOMAIN graph : DOMAIN graph[n] = Names(inputs.max)
    BY <1>4, <2>1 DEF GraphIsWritten
  <2> QED
    BY <2>1, <2>2 DEF is_complete
<1>6. ASSUME is_complete PROVE IsTotal
  <2> SUFFICES ASSUME NEW s \in MS, NEW i \in MI
               PROVE  \E l \in written : l.from = s /\ l.in = i
    BY DEF IsTotal, MS, MI
  <2>1. PICK n \in Names(states.max), a \in Names(inputs.max) :
          n = states.indices[s] /\ a = inputs.indices[i]
    BY <1>1, <1>2
  <2>2. n \in DOMAIN graph /\ a \in DOMAIN graph[n] /\ IsEdge(graph[n][a])
    BY <1>4, <1>6, <2>1 DEF GraphIsWritten, is_complete
  <2>3. PICK l \in written : Place(l) = <<n, a>>
    BY <1>4, <2>2 DEF GraphIsWritten
  <2>4. states.indices[l.from] = states.indices[s] /\ inputs.indices[l.in] = inputs.indices[i]
    BY <2>1, <2>3 DEF Place
  <2>5. l.from \in MS /\ l.in \in MI
    BY <1>3
  <2>6. l.from = s /\ l.in = i
    BY <1>1, <1>2, <2>4, <2>5
  <2> QED
    BY <2>6
<1> QED
  BY <1>5, <1>6

(* A complete graph has as many edges as there are lines.                  *)
LEMMA LinesAreEdges ==
  ASSUME AllRead, is_complete
  PROVE  Cardinality(written) = Cardinality(DOMAIN graph) * inputs.max
<1>1. states.max \in Nat /\ inputs.max \in Nat
  BY NumbersOfLines
<1>2. /\ DOMAIN graph = Names(states.max)
      /\ \A n \in DOMAIN graph : DOMAIN graph[n] = Names(inputs.max)
                              /\ \A a \in DOMAIN graph[n] : IsEdge(graph[n][a])
      /\ \A n \in DOMAIN graph : \A a \in DOMAIN graph[n] :
           IsEdge(graph[n][a]) => \E l \in written : Place(l) = <<n, a>>
  BY DEF AllRead, GraphIsWritten, is_complete
<1> DEFINE T == Names(states.max) \X Names(inputs.max)
           f == [l \in written |-> Place(l)]
<1>3. /\ IsFiniteSet(Names(states.max)) /\ Cardinality(Names(states.max)) = states.max
      /\ IsFiniteSet(Names(inputs.max)) /\ Cardinality(Names(inputs.max)) = inputs.max
  <2>1. ASSUME NEW n \in Nat PROVE IsFiniteSet(Names(n)) /\ Cardinality(Names(n)) = n
    <3>1. IsFiniteSet(0 .. n - 1) /\ Cardinality(0 .. n - 1) = n
      BY FS_Interval
    <3> QED
      BY <3>1 DEF Names
  <2> QED
    BY <1>1, <2>1
<1>4. IsFiniteSet(T) /\ Cardinality(T) = states.max * inputs.max
  BY <1>3, FS_Product
<1>5. \A l \in written : Place(l) \in T
  <2> TAKE l \in written
  <2>1. Place(l)[1] \in Names(states.max) /\ Place(l)[2] \in Names(inputs.max)
    BY NumbersOfLines
  <2> QED
    BY <2>1 DEF Place
<1>6. \A t \in T : \E l \in written : Place(l) = t
  <2> SUFFICES ASSUME NEW n \in Names(states.max), NEW a \in Names(inputs.max)
               PROVE  \E l \in written : Place(l) = <<n, a>>
    OBVIOUS
  <2> QED
    BY <1>2
<1>7. \A l, m \in written : Place(l) = Place(m) => l = m
  <2> TAKE l, m \in written
  <2> HAVE Place(l) = Place(m)
  <2>1. l.from \in Meant(StatesOf(written)) /\ m.from \in Meant(StatesOf(written))
        /\ l.in \in Meant(InputsOf(written)) /\ m.in \in Meant(InputsOf(written))
    BY NumbersOfLines
  <2>2. states.indices[l.from] = states.indices[m.from]
        /\ inputs.indices[l.in] = inputs.indices[m.in]
    BY DEF Place
  <2>3. l.from = m.from /\ l.in = m.in
    BY <2>1, <2>2 DEF AllRead, AllTranslated, Translates
  <2> QED
    BY <2>3 DEF AllRead, OneEdgeEach
<1> HIDE DEF T
<1>8. f \in Bijection(written, T)
  <2>1. f \in [written -> T]
    BY <1>5
  <2>2. \A l, m \in written : f[l] = f[m] => l = m
    BY <1>7
  <2>3. \A t \in T : \E l \in written : f[l] = t
    BY <1>6
  <2> HIDE DEF f
  <2> QED
    BY <2>1, <2>2, <2>3 DEF Bijection, Injection, Surjection, IsInjective
<1>9. ExistsBijection(written, T)
  BY <1>8 DEF ExistsBijection
<1>10. Cardinality(T) = Cardinality(written)
  <2>1. IsFiniteSet(written)
    BY DEF AllRead
  <2> QED
    BY <1>9, <2>1, FS_Bijection
<1> QED
  BY <1>2, <1>3, <1>4, <1>10
(* Reading the file is undone by the reverse map of a translation.         *)
LEMMA ReverseMap ==
  ASSUME AllRead, NEW l \in written
  PROVE  create_reverse_map(inputs)[Index(inputs, l.in)] = l.in
<1> DEFINE MI == Meant(InputsOf(written))
<1>1. /\ DOMAIN inputs.indices = MI /\ inputs.max = Cardinality(MI)
      /\ \A x \in MI : inputs.indices[x] \in Names(inputs.max)
      /\ \A x, y \in MI : inputs.indices[x] = inputs.indices[y] => x = y
      /\ file.format = "txt" => \A x \in MI : inputs.indices[x] = x
  BY DEF AllRead, AllTranslated, Translates
<1>2. l.in \in MI
  BY NumbersOfLines
<1> HIDE DEF MI
<1>3. PICK n : n = inputs.indices[l.in]
  OBVIOUS
<1>4. Index(inputs, l.in) = n
  <2>1. file.format \in {"dot", "txt"}
    BY FileType DEF AllRead, ReadTypeOK
  <2> QED
    BY <1>1, <1>2, <1>3, <2>1 DEF Index
<1>5. n \in Names(Cardinality(DOMAIN inputs.indices))
  BY <1>1, <1>2, <1>3
<1>6. create_reverse_map(inputs)[n] =
        CHOOSE name \in DOMAIN inputs.indices : inputs.indices[name] = n
  BY <1>5 DEF create_reverse_map
<1>7. (CHOOSE name \in DOMAIN inputs.indices : inputs.indices[name] = n) = l.in
  <2> DEFINE c == CHOOSE name \in DOMAIN inputs.indices : inputs.indices[name] = n
  <2>1. c \in DOMAIN inputs.indices /\ inputs.indices[c] = n
    BY <1>1, <1>2, <1>3
  <2> HIDE DEF c
  <2>2. c = l.in
    BY <1>1, <1>2, <1>3, <2>1
  <2> QED
    BY <2>2 DEF c
<1> QED
  BY <1>4, <1>6, <1>7

(* The promise of ReadsWhatIsWritten, when the file is at its end.         *)
IsWritten ==
  /\ \A t \in {states, inputs, outputs} : \A x, y \in DOMAIN t.indices :
       /\ t.indices[x] < t.max
       /\ t.indices[x] = t.indices[y] => x = y
  /\ DOMAIN graph = {Index(states, s) : s \in Meant(StatesOf(written))}
  /\ \A l \in written :
       graph[Index(states, l.from)][Index(inputs, l.in)] =
         [to |-> Index(states, l.to), out |-> Index(outputs, l.out)]
  /\ Cardinality(written) = Cardinality(DOMAIN graph) * inputs.max
  /\ \A l \in written : create_reverse_map(inputs)[Index(inputs, l.in)] = l.in

(* A graph without a missing edge is the machine that the lines say.       *)
LEMMA MachineIsWritten == AllRead /\ is_complete => IsWritten
<1> SUFFICES ASSUME AllRead, is_complete PROVE IsWritten
  OBVIOUS
<1>1. ASSUME NEW t, NEW S, Translates(t, S), Cardinality(Meant(S)) \in Nat
      PROVE  \A x, y \in DOMAIN t.indices :
               /\ t.indices[x] < t.max
               /\ t.indices[x] = t.indices[y] => x = y
  <2>1. /\ DOMAIN t.indices = Meant(S) /\ t.max \in Nat
        /\ \A x \in Meant(S) : t.indices[x] \in 0 .. t.max - 1
        /\ \A x, y \in Meant(S) : t.indices[x] = t.indices[y] => x = y
    BY <1>1 DEF Translates, Names
  <2> QED
    BY <2>1
<1>2. /\ file \in Files /\ file.format \in {"dot", "txt"} /\ written \in SUBSET Line
      /\ file.states \in Nat /\ file.inputs \in Nat /\ file.outputs \in Nat
  BY FileType DEF AllRead, ReadTypeOK
<1> DEFINE S == StatesOf(written)
           I == InputsOf(written)
           O == OutputsOf(written)
<1>3. /\ S \in SUBSET (0 .. file.states) /\ I \in SUBSET (0 .. file.inputs)
      /\ O \in SUBSET (0 .. file.outputs)
  BY <1>2, NamesInUse
<1>4. Translates(states, S) /\ Translates(inputs, I) /\ Translates(outputs, O)
  BY DEF AllRead, AllTranslated
<1>5. \A l \in written : l.from \in S /\ l.to \in S /\ l.in \in I /\ l.out \in O
  BY DEF StatesOf, InputsOf, OutputsOf
<1> HIDE DEF S, I, O
<1>6. /\ Cardinality(Meant(S)) \in Nat /\ Cardinality(Meant(I)) \in Nat
      /\ Cardinality(Meant(O)) \in Nat
      /\ S \subseteq Meant(S) /\ I \subseteq Meant(I) /\ O \subseteq Meant(O)
  BY <1>2, <1>3, MeantIs
<1>7. \A t \in {states, inputs, outputs} : \A x, y \in DOMAIN t.indices :
        /\ t.indices[x] < t.max
        /\ t.indices[x] = t.indices[y] => x = y
  BY <1>1, <1>4, <1>6
<1>8. /\ \A x \in Meant(S) : Index(states, x) = states.indices[x]
      /\ \A x \in Meant(I) : Index(inputs, x) = inputs.indices[x]
      /\ \A x \in Meant(O) : Index(outputs, x) = outputs.indices[x]
  BY <1>2, <1>4 DEF Translates, Index
<1>9. DOMAIN graph = {Index(states, s) : s \in Meant(S)}
  <2>1. DOMAIN graph = Names(states.max)
    BY DEF AllRead, GraphIsWritten
  <2>2. /\ \A x \in Meant(S) : states.indices[x] \in Names(states.max)
        /\ \A n \in Names(states.max) : \E x \in Meant(S) : states.indices[x] = n
    BY <1>4 DEF Translates
  <2> QED
    BY <1>8, <2>1, <2>2
<1>10. ASSUME NEW l \in written
       PROVE  graph[Index(states, l.from)][Index(inputs, l.in)] =
                [to |-> Index(states, l.to), out |-> Index(outputs, l.out)]
  <2>1. graph[Place(l)[1]][Place(l)[2]] = EdgeOf(l)
    BY DEF AllRead, GraphIsWritten
  <2>2. /\ Index(states, l.from) = Place(l)[1] /\ Index(inputs, l.in) = Place(l)[2]
        /\ [to |-> Index(states, l.to), out |-> Index(outputs, l.out)] = EdgeOf(l)
    BY <1>5, <1>6, <1>8 DEF Place, EdgeOf
  <2> QED
    BY <2>1, <2>2
<1> QED
  BY <1>7, <1>9, <1>10, LinesAreEdges, ReverseMap DEF IsWritten, S

(* What does not depend on read_pc stays the same while the rest does.     *)
LEMMA SameFile ==
  ASSUME UNCHANGED <<file, states, inputs, outputs, graph, written, count>>
  PROVE  /\ WithinLimits' <=> WithinLimits
         /\ Deterministic' <=> Deterministic
         /\ IsTotal' <=> IsTotal
         /\ IsWritten' <=> IsWritten
         /\ AllTranslated' <=> AllTranslated
         /\ OneEdgeEach' <=> OneEdgeEach
         /\ GraphIsWritten' <=> GraphIsWritten
<1>1. WithinLimits' <=> WithinLimits
  BY DEF WithinLimits, Meant
<1>2. IsTotal' <=> IsTotal
  BY DEF IsTotal, Meant
<1>3. IsWritten' <=> IsWritten
  BY MeantLater DEF IsWritten, Index
<1>4. AllTranslated' <=> AllTranslated
  BY TranslatedLater DEF AllTranslated
<1>5. (Deterministic' <=> Deterministic) /\ (OneEdgeEach' <=> OneEdgeEach)
  BY DEF Deterministic, OneEdgeEach
<1>6. GraphIsWritten' <=> GraphIsWritten
  BY DEF GraphIsWritten, Place, EdgeOf
<1> QED
  BY <1>1, <1>2, <1>3, <1>4, <1>5, <1>6

(* The promise in terms of IsWritten.                                      *)
LEMMA PromiseIs ==
  /\ ReadsWhatIsWritten <=> (read_pc = "returned" /\ WithinLimits => IsWritten)
  /\ ReadsWhatIsWritten' <=> (read_pc' = "returned" /\ WithinLimits' => IsWritten')
<1>1. ReadsWhatIsWritten <=> (read_pc = "returned" /\ WithinLimits => IsWritten)
  BY Zenon DEF ReadsWhatIsWritten, IsWritten
<1>2. ReadsWhatIsWritten' <=> (read_pc' = "returned" /\ WithinLimits' => IsWritten')
  BY Zenon DEF ReadsWhatIsWritten, IsWritten
<1> QED
  BY <1>1, <1>2

(* At the end of the file the machine is returned if it is one.            *)
LEMMA EndKeeps == RInv /\ EndOfFile => RInv'
<1> SUFFICES ASSUME RInv, EndOfFile PROVE RInv'
  OBVIOUS
<1>1. /\ UNCHANGED <<file, states, inputs, outputs, graph, written, count>>
      /\ read_pc = "lines" /\ read_pc' \in {"returned", "thrown"}
      /\ read_pc' = "returned" <=> NothingEmpty /\ is_complete
  BY DEF EndOfFile
<1>2. ReadTypeOK'
  BY TypesKept DEF RInv, Next
<1>3. IsFiniteSet(written') /\ ~ Reading'
  BY <1>1 DEF RInv, Reading
<1>4. /\ WithinLimits' <=> WithinLimits
      /\ Deterministic' <=> Deterministic
      /\ IsTotal' <=> IsTotal
      /\ IsWritten' <=> IsWritten
  BY <1>1, SameFile
<1>5. WithinLimits => AllRead
  BY <1>1 DEF RInv, Reading, AllRead
<1>6. AllRead => (NothingEmpty <=> written # {}) /\ (is_complete <=> IsTotal) /\ Deterministic
  BY SomethingRead, CompleteIsTotal DEF AllRead, OneEdgeEach, Deterministic
<1>9. AcceptsMachines'
  BY <1>1, <1>4, <1>5, <1>6 DEF AcceptsMachines
<1>10. ReadsWhatIsWritten'
  <2>1. read_pc' = "returned" /\ WithinLimits' => IsWritten
    BY <1>1, <1>4, <1>5, MachineIsWritten
  <2> QED
    BY <1>4, <2>1, PromiseIs
<1> QED
  BY <1>2, <1>3, <1>9, <1>10 DEF RInv

(* A line keeps what is known, whether it has a place or not.              *)
LEMMA LineKeeps == RInv /\ (EdgeLine \/ MarkedEdgeLine \/ SecondEdgeLine \/ OverflowLine) => RInv'
<1> SUFFICES ASSUME RInv, EdgeLine \/ MarkedEdgeLine \/ SecondEdgeLine \/ OverflowLine
             PROVE  RInv'
  OBVIOUS
<1>1. ReadTypeOK'
  BY TypesKept DEF RInv, Next
<1>2. PICK l \in Line :
        /\ Read(l)
        /\ \/ /\ ~ defined(Source(l), Symbol(l)) /\ InBounds(l) /\ AddEdge(l)
              /\ read_pc' = read_pc
           \/ ~ defined(Source(l), Symbol(l)) /\ InBounds(l) /\ ~ IsEdge(EdgeOn(l))
           \/ defined(Source(l), Symbol(l)) /\ read_pc' = "thrown"
           \/ ~ defined(Source(l), Symbol(l)) /\ ~ InBounds(l)
  BY DEF EdgeLine, MarkedEdgeLine, SecondEdgeLine, OverflowLine
<1>3. IsFiniteSet(written')
  <2>1. written' = written \cup {l} /\ IsFiniteSet(written)
    BY <1>2 DEF Read, RInv
  <2> QED
    BY <2>1, FS_AddElement
<1>4. ASSUME WithinLimits'
      PROVE  \/ read_pc' = "lines" /\ AllTranslated' /\ OneEdgeEach' /\ GraphIsWritten'
             \/ read_pc' = "thrown" /\ ~ Deterministic'
  <2>1. ReadTypeOK /\ (Reading => AllTranslated) /\ read_pc = "lines"
    BY <1>2 DEF RInv, Read
  <2>2. InBounds(l) /\ IsEdge(EdgeOn(l)) /\ AllTranslated'
    BY <1>2, <1>4, <2>1, LineFits, LineTranslated
  <2>3. CASE defined(Source(l), Symbol(l))
    BY <1>2, <1>4, <2>3, SecondLineRefused
  <2>4. CASE ~ defined(Source(l), Symbol(l))
    BY <1>2, <1>4, <2>1, <2>2, <2>4, EdgeLineKeeps
  <2> QED
    BY <2>3, <2>4
<1>5. AcceptsMachines' /\ ReadsWhatIsWritten'
  BY <1>4 DEF AcceptsMachines, ReadsWhatIsWritten
<1>6. Reading' => AllTranslated' /\ OneEdgeEach' /\ GraphIsWritten'
  BY <1>4 DEF Reading
<1> QED
  BY <1>1, <1>3, <1>5, <1>6 DEF RInv

(* The readers keep the invariant.                                         *)
THEOREM ReadInvariance == Spec => []RInv
<1>1. Init => RInv
  BY InitReads
<1>2. RInv /\ [Next]_read_vars => RInv'
  <2> SUFFICES ASSUME RInv, [Next]_read_vars PROVE RInv'
    OBVIOUS
  <2>1. CASE OtherLine \/ UNCHANGED read_vars
    <3>1. UNCHANGED read_vars
      BY <2>1 DEF OtherLine
    <3>2. UNCHANGED <<file, states, inputs, outputs, graph, written, count, read_pc>>
      BY <3>1 DEF read_vars
    <3>3. ReadTypeOK' /\ IsFiniteSet(written')
      BY <3>2, TypesKept DEF RInv
    <3>4. Reading' => AllTranslated' /\ OneEdgeEach' /\ GraphIsWritten'
      BY <3>2, SameFile DEF RInv, Reading
    <3>5. AcceptsMachines'
      BY <3>2, SameFile DEF RInv, AcceptsMachines
    <3>6. ReadsWhatIsWritten'
      BY <3>2, SameFile, PromiseIs DEF RInv
    <3> QED
      BY <3>3, <3>4, <3>5, <3>6 DEF RInv
  <2> QED
    BY <2>1, LineKeeps, EndKeeps DEF Next
<1> QED
  BY <1>1, <1>2, PTL DEF Spec

(* Numbers stay within the values of their types, whatever wraps: no index *)
(* is read of a name that has none.                                        *)
THEOREM ReadTypeCorrect == Spec => []ReadTypeOK
<1>1. RInv => ReadTypeOK
  BY DEF RInv
<1> QED
  BY <1>1, ReadInvariance, PTL

(* Whether a file is accepted depends on what its lines say and not on     *)
(* their order: exactly the files of a deterministic, complete machine     *)
(* are, for every number of names below the number of values of the types. *)
THEOREM AcceptanceIsRight == Spec => []AcceptsMachines
<1>1. RInv => AcceptsMachines
  BY DEF RInv
<1> QED
  BY <1>1, ReadInvariance, PTL

(* The machine that is returned has the lines for edges and no others, and *)
(* the reverse map gives back the inputs.                                  *)
THEOREM MachineIsRead == Spec => []ReadsWhatIsWritten
<1>1. RInv => ReadsWhatIsWritten
  BY DEF RInv
<1> QED
  BY <1>1, ReadInvariance, PTL
=============================================================================
