-------------------------- MODULE ReachabilityProofs --------------------------
(***************************************************************************)
(* Proofs about Reachability, for every machine, every number of states    *)
(* and of inputs, and every start.                                         *)
(***************************************************************************)
EXTENDS Reachability, FiniteSetTheorems, SequenceTheorems, TLAPS

-----------------------------------------------------------------------------
(* The inductive invariant.                                                *)

EdgeEntry == [to : State \cup {-1}, out : Output \cup {NoOutput}]

(* The rows, the numbers and the place in the alphabet; all numbers below  *)
(* max_state are given.                                                    *)
Rows ==
  /\ pc = "inputs" => i < P /\ s \in visited
  /\ \A n \in DOMAIN out_graph : out_graph[n] \in [Input -> EdgeEntry]
  /\ \A n \in 0 .. max_state(new_state) - 1 : \E t \in Met : new_state[t] = n

(* Where the search begins.                                                *)
Beginning ==
  /\ visited = {} => Met = {} /\ work = <<start>> /\ pc = "pop"
  /\ visited # {} =>
       /\ start \in Met /\ new_state[start] = 0
       /\ ToSet(work) \subseteq Met

(* A state with a number is visited or waits to be, and states wait in the *)
(* order of their numbers: before any copy of a state in the queue there   *)
(* is one of each state that got its number before.                        *)
QueueInOrder ==
  /\ Met \ visited \subseteq ToSet(work)
  /\ \A j \in DOMAIN work : \A t \in Met \ visited :
       work[j] \in Met /\ new_state[t] < new_state[work[j]] =>
         \E k \in 1 .. j - 1 : work[k] = t

(* The visited states have the smallest numbers, and the last one visited  *)
(* the largest of them.                                                    *)
VisitedInOrder ==
  /\ {new_state[t] : t \in visited} = 0 .. Cardinality(visited) - 1
  /\ pc = "inputs" => new_state[s] = Cardinality(visited) - 1

(* The edge that the for loop has written.                                 *)
Followed(t, a) == t \in visited /\ ~ (pc = "inputs" /\ t = s /\ a >= i)

EdgesWritten ==
  /\ visited # {} /\ pc # "inputs" =>
       DOMAIN out_graph = 0 .. max_state(new_state) - 1
  /\ \A t \in State, a \in Input : Followed(t, a) =>
       /\ given[t][a].to \in Met
       /\ new_state[t] \in DOMAIN out_graph
       /\ out_graph[new_state[t]][a] =
            [to |-> new_state[given[t][a].to], out |-> given[t][a].out]

(* Only states that can be reached are met.                                *)
OnlyReachable ==
  \A S \in SUBSET State : Closed(S) => Met \subseteq S /\ ToSet(work) \subseteq S

(* Every number but that of the start was given for a followed edge, and   *)
(* the edges that were followed before lead to smaller numbers.            *)
DiscoveredBy(x, t, a) ==
  /\ Followed(t, a) /\ given[t][a].to = x /\ new_state[t] < new_state[x]
  /\ \A y \in visited, b \in Input :
       new_state[y] < new_state[t] \/ (y = t /\ b < a) =>
         new_state[given[y][b].to] < new_state[x]

Discovered ==
  \A x \in Met \ {start} : \E t \in visited, a \in Input : DiscoveredBy(x, t, a)

Ended ==
  /\ pc \in {"returned", "thrown"} => work = <<>>
  /\ pc # "thrown"

RIInv ==
  /\ ReachTypeOK /\ Rows /\ Beginning /\ QueueInOrder /\ VisitedInOrder
  /\ EdgesWritten /\ OnlyReachable /\ Discovered /\ Ended

-----------------------------------------------------------------------------
(* Numbers.                                                                *)

(* The states are finitely many.                                           *)
LEMMA StateFinite == IsFiniteSet(State)
BY FS_Interval, SizesAssumption DEF State

(* How many numbers have been given is a number.                           *)
LEMMA MetFinite ==
  ASSUME ReachTypeOK
  PROVE  /\ IsFiniteSet(Met) /\ max_state(new_state) \in Nat
         /\ IsFiniteSet(visited) /\ Cardinality(visited) \in Nat
         /\ Met = {} => max_state(new_state) = 0
<1>1. IsFiniteSet(Met) /\ IsFiniteSet(visited)
  BY StateFinite, FS_Subset DEF ReachTypeOK
<1>2. Cardinality(Met) \in Nat /\ Cardinality(visited) \in Nat
  BY <1>1, FS_CardinalityType
<1>3. Cardinality({}) = 0
  BY FS_EmptySet
<1> QED
  BY <1>1, <1>2, <1>3 DEF max_state, Met

(* Every number below their count is given, and no two states have one.    *)
Numbers(ns) ==
  /\ ns \in [DOMAIN ns -> 0 .. max_state(ns) - 1]
  /\ \A x, y \in DOMAIN ns : ns[x] = ns[y] => x = y
  /\ \A n \in 0 .. max_state(ns) - 1 : \E x \in DOMAIN ns : ns[x] = n

(* A state that has a number keeps it; another one gets the next number.   *)
LEMMA NumberedFacts ==
  ASSUME ReachTypeOK, Rows, NEW t \in State, NEW ns, ns = NumberedWith(new_state, t)
  PROVE  /\ DOMAIN ns = Met \cup {t} /\ DOMAIN ns \subseteq State
         /\ \A x \in Met : ns[x] = new_state[x]
         /\ t \in Met => ns = new_state
         /\ t \notin Met => ns[t] = max_state(new_state)
         /\ max_state(ns) \in Nat
         /\ max_state(ns) =
              IF t \in Met THEN max_state(new_state) ELSE max_state(new_state) + 1
         /\ Numbers(ns)
<1> DEFINE m == max_state(new_state)
<1>1. IsFiniteSet(Met) /\ m \in Nat
  BY MetFinite
<1>2. /\ Met \subseteq State /\ new_state \in [Met -> 0 .. m - 1]
      /\ \A x, y \in Met : new_state[x] = new_state[y] => x = y
      /\ \A n \in 0 .. m - 1 : \E x \in Met : new_state[x] = n
  BY DEF ReachTypeOK, Rows
<1>3. CASE t \in Met
  <2>1. ns = new_state /\ DOMAIN ns = Met
    BY <1>3 DEF NumberedWith, Met
  <2> QED
    BY <1>1, <1>2, <1>3, <2>1 DEF Numbers
<1>4. CASE t \notin Met
  <2>1. ns = [x \in Met \cup {t} |-> IF x = t THEN m ELSE new_state[x]]
    BY <1>4 DEF NumberedWith, Met
  <2>2. DOMAIN ns = Met \cup {t}
    BY <2>1
  <2>3. Cardinality(Met \cup {t}) = Cardinality(Met) + 1
    BY <1>1, <1>4, FS_AddElement
  <2>4. max_state(ns) = m + 1
    BY <2>2, <2>3 DEF max_state, Met
  <2> HIDE DEF m
  <2>5. ns[t] = m /\ \A x \in Met : ns[x] = new_state[x] /\ new_state[x] \in 0 .. m - 1
    BY <1>2, <1>4, <2>1
  <2>6. ns \in [DOMAIN ns -> 0 .. m]
    BY <1>1, <1>2, <2>1, <2>5
  <2>7. \A x, y \in DOMAIN ns : ns[x] = ns[y] => x = y
    BY <1>1, <1>2, <2>2, <2>5
  <2>8. \A n \in 0 .. m : \E x \in DOMAIN ns : ns[x] = n
    BY <1>1, <1>2, <2>2, <2>5
  <2>9. DOMAIN ns \subseteq State
    BY <1>2, <2>2
  <2>10. (m + 1) - 1 = m /\ m + 1 \in Nat
    BY <1>1
  <2>11. m = max_state(new_state)
    BY DEF m
  <2> HIDE DEF NumberedWith, max_state
  <2> QED
    BY <1>4, <2>2, <2>4, <2>5, <2>6, <2>7, <2>8, <2>9, <2>10, <2>11 DEF Numbers
<1> QED
  BY <1>3, <1>4

(* Taking the first state from the queue.                                  *)
LEMMA Popped ==
  ASSUME ReachTypeOK, work # <<>>, work' = Tail(work)
  PROVE  /\ Head(work) \in State /\ Head(work) = work[1]
         /\ work' \in Seq(State) /\ Len(work') = Len(work) - 1
         /\ Len(work) \in Nat /\ Len(work) > 0
         /\ \A j \in DOMAIN work' : j + 1 \in DOMAIN work /\ work'[j] = work[j + 1]
         /\ \A j \in DOMAIN work : j # 1 => j - 1 \in DOMAIN work'
         /\ ToSet(work) = ToSet(work') \cup {Head(work)}
<1>1. work \in Seq(State)
  BY DEF ReachTypeOK
<1>2. /\ Head(work) \in State /\ Head(work) = work[1]
      /\ work' \in Seq(State) /\ Len(work') = Len(work) - 1
      /\ Len(work) \in Nat /\ Len(work) > 0
      /\ DOMAIN work = 1 .. Len(work) /\ DOMAIN work' = 1 .. Len(work) - 1
      /\ \A j \in 1 .. Len(work) - 1 : work'[j] = work[j + 1]
  BY <1>1, HeadTailProperties
<1>3. ASSUME NEW j \in DOMAIN work' PROVE j + 1 \in DOMAIN work /\ work'[j] = work[j + 1]
  BY <1>2
<1>4. ASSUME NEW j \in DOMAIN work, j # 1 PROVE j - 1 \in DOMAIN work' /\ work'[j - 1] = work[j]
  BY <1>2, <1>4
<1>5. 1 \in DOMAIN work
  BY <1>2
<1>6. ToSet(work) = ToSet(work') \cup {Head(work)}
  <2>1. \A j \in DOMAIN work : work[j] \in ToSet(work') \cup {Head(work)}
    <3> TAKE j \in DOMAIN work
    <3>1. CASE j = 1
      BY <1>2, <3>1
    <3>2. CASE j # 1
      BY <1>4, <3>2 DEF ToSet
    <3> QED
      BY <3>1, <3>2
  <2>2. \A j \in DOMAIN work' : work'[j] \in ToSet(work)
    BY <1>3 DEF ToSet
  <2>3. Head(work) \in ToSet(work)
    BY <1>2, <1>5 DEF ToSet
  <2>4. ToSet(work) \subseteq ToSet(work') \cup {Head(work)}
    BY <2>1 DEF ToSet
  <2>5. ToSet(work') \subseteq ToSet(work)
    BY <2>2 DEF ToSet
  <2> QED
    BY <2>3, <2>4, <2>5
<1> QED
  BY <1>2, <1>3, <1>4, <1>6

-----------------------------------------------------------------------------
(* The invariant holds at first.                                           *)
LEMMA RInitIInv == Init => RIInv
<1> SUFFICES ASSUME Init PROVE RIInv
  OBVIOUS
<1>1. Met = {} /\ visited = {} /\ max_state(new_state) = 0 /\ DOMAIN out_graph = {}
  BY FS_EmptySet DEF Init, Met, max_state
<1>2. /\ given \in Machine /\ work = <<start>> /\ s = start /\ i = 0 /\ pc = "pop"
      /\ start \in State
  BY DEF Init
<1>3. work \in Seq(State) /\ ToSet(work) = {start} /\ DOMAIN work = {1}
  BY <1>2 DEF ToSet
<1>4. ReachTypeOK
  <2>1. new_state \in [Met -> 0 .. max_state(new_state) - 1]
    BY <1>1 DEF Init, Met
  <2> QED
    BY <1>1, <1>2, <1>3, <2>1, SizesAssumption DEF ReachTypeOK
<1>5. Rows /\ Beginning /\ QueueInOrder /\ Discovered /\ Ended
  BY <1>1, <1>2, <1>3 DEF Rows, Beginning, QueueInOrder, Discovered, Ended
<1>6. VisitedInOrder
  BY <1>1, <1>2, FS_EmptySet DEF VisitedInOrder
<1>7. EdgesWritten
  BY <1>1 DEF EdgesWritten, Followed
<1>8. OnlyReachable
  BY <1>1, <1>3 DEF OnlyReachable, Closed
<1> QED
  BY <1>4, <1>5, <1>6, <1>7, <1>8 DEF RIInv

-----------------------------------------------------------------------------
(* The turns of the while loop.                                            *)

(* Taking a state that is, or will be, visited keeps the queue in order.    *)
LEMMA PoppedInOrder ==
  ASSUME ReachTypeOK, QueueInOrder, work # <<>>, work' = Tail(work),
         new_state' = new_state,
         visited \subseteq visited', Head(work) \in visited'
  PROVE  QueueInOrder'
<1>1. /\ Head(work) = work[1]
      /\ work' \in Seq(State) /\ Len(work') = Len(work) - 1
      /\ Len(work) \in Nat /\ Len(work) > 0
      /\ \A j \in DOMAIN work' : j + 1 \in DOMAIN work /\ work'[j] = work[j + 1]
      /\ \A j \in DOMAIN work : j # 1 => j - 1 \in DOMAIN work'
      /\ ToSet(work) = ToSet(work') \cup {Head(work)}
  BY Popped
<1>2. Met' = Met
  BY DEF Met
<1>3. Met \ visited' \subseteq ToSet(work')
  BY <1>1 DEF QueueInOrder
<1>4. ASSUME NEW j \in DOMAIN work', NEW t \in Met \ visited',
             work'[j] \in Met, new_state[t] < new_state[work'[j]]
      PROVE  \E k \in 1 .. j - 1 : work'[k] = t
  <2>1. j + 1 \in DOMAIN work /\ work[j + 1] = work'[j]
    BY <1>1
  <2>2. PICK k \in 1 .. (j + 1) - 1 : work[k] = t
    BY <1>4, <2>1 DEF QueueInOrder
  <2>3. k # 1
    BY <1>1, <2>2
  <2>4. j \in 1 .. Len(work') /\ Len(work') \in Nat
    BY <1>1
  <2>5. k \in DOMAIN work /\ k - 1 \in 1 .. j - 1
    BY <1>1, <2>2, <2>3, <2>4
  <2>6. k - 1 \in DOMAIN work' /\ work'[k - 1] = work[(k - 1) + 1]
    BY <1>1, <2>3, <2>5
  <2>7. (k - 1) + 1 = k
    BY <2>2
  <2> QED
    BY <2>2, <2>5, <2>6, <2>7
<1> QED
  BY <1>2, <1>3, <1>4 DEF QueueInOrder

(* A state that was visited before leaves the queue.                       *)
LEMMA SkipKeepsIInv == RIInv /\ Skip => RIInv'
<1> SUFFICES ASSUME RIInv, Skip PROVE RIInv'
  OBVIOUS
<1> USE DEF RIInv
<1>1. /\ pc = "pop" /\ pc' = pc /\ work # <<>> /\ Head(work) \in visited
      /\ s' = Head(work) /\ work' = Tail(work)
      /\ given' = given /\ visited' = visited /\ new_state' = new_state
      /\ out_graph' = out_graph /\ i' = i /\ Met' = Met
      /\ max_state(new_state)' = max_state(new_state)
  BY DEF Skip, Met, max_state
<1>2. /\ Head(work) \in State /\ Head(work) = work[1]
      /\ work' \in Seq(State) /\ Len(work') = Len(work) - 1
      /\ Len(work) \in Nat /\ Len(work) > 0
      /\ \A j \in DOMAIN work' : j + 1 \in DOMAIN work /\ work'[j] = work[j + 1]
      /\ \A j \in DOMAIN work : j # 1 => j - 1 \in DOMAIN work'
      /\ ToSet(work) = ToSet(work') \cup {Head(work)}
  BY <1>1, Popped
<1>3. ReachTypeOK'
  BY <1>1, <1>2 DEF ReachTypeOK, Met
<1>4. Rows' /\ VisitedInOrder' /\ Ended'
  BY <1>1 DEF Rows, VisitedInOrder, Ended
<1>5. Beginning' /\ OnlyReachable'
  BY <1>1, <1>2 DEF Beginning, OnlyReachable, Closed
<1>6. EdgesWritten' /\ Discovered'
  BY <1>1 DEF EdgesWritten, Discovered, DiscoveredBy, Followed
<1>7. QueueInOrder'
  BY <1>1, PoppedInOrder
<1> QED
  BY <1>3, <1>4, <1>5, <1>6, <1>7

(* The state in front that is not visited has the smallest number of those *)
(* that are not, if it is not the start, which has none yet.               *)
LEMMA NextInOrder ==
  ASSUME RIInv, work # <<>>, Head(work) \notin visited, visited # {}
  PROVE  /\ Head(work) \in Met
         /\ new_state[Head(work)] = Cardinality(visited)
<1> USE DEF RIInv
<1> DEFINE h == Head(work)
           c == Cardinality(visited)
<1>1. /\ h \in Met /\ h = work[1] /\ 1 \in DOMAIN work
  <2>1. work \in Seq(State) /\ work # <<>>
    BY DEF ReachTypeOK
  <2>2. h = work[1] /\ 1 \in DOMAIN work
    BY <2>1
  <2> QED
    BY <2>2 DEF Beginning, ToSet
<1>2. /\ visited \subseteq Met /\ c \in Nat /\ max_state(new_state) \in Nat
      /\ \A x \in Met : new_state[x] \in 0 .. max_state(new_state) - 1
      /\ \A x, y \in Met : new_state[x] = new_state[y] => x = y
  BY MetFinite DEF ReachTypeOK
<1>3. {new_state[t] : t \in visited} = 0 .. c - 1
  BY DEF VisitedInOrder
<1> HIDE DEF c, h
<1>4. ~ (new_state[h] \in 0 .. c - 1)
  <2> SUFFICES ASSUME new_state[h] \in 0 .. c - 1 PROVE FALSE
    OBVIOUS
  <2>1. PICK t \in visited : new_state[t] = new_state[h]
    BY <1>3
  <2> QED
    BY <1>1, <1>2, <2>1 DEF h
<1>5. ~ (new_state[h] > c)
  <2> SUFFICES ASSUME new_state[h] > c PROVE FALSE
    OBVIOUS
  <2>1. PICK t \in Met : new_state[t] = c
    BY <1>1, <1>2 DEF Rows
  <2>2. t \notin visited
    BY <1>2, <1>3, <2>1
  <2>3. \E k \in 1 .. 1 - 1 : work[k] = t
    BY <1>1, <2>1, <2>2 DEF QueueInOrder
  <2> QED
    BY <2>3
<1>6. new_state[h] \in Nat
  BY <1>1, <1>2
<1> QED
  BY <1>1, <1>2, <1>4, <1>5, <1>6 DEF c, h

(* The start is visited first.                                             *)
LEMMA FirstVisitKeepsIInv == RIInv /\ Visit /\ visited = {} => RIInv'
<1> SUFFICES ASSUME RIInv, Visit, visited = {} PROVE RIInv'
  OBVIOUS
<1> USE DEF RIInv
<1>1. work = <<start>> /\ Met = {} /\ pc = "pop" /\ start \in State
  <2>1. work = <<start>> /\ Met = {} /\ pc = "pop" /\ work \in Seq(State)
    BY DEF Beginning, ReachTypeOK
  <2>2. 1 \in DOMAIN work /\ work[1] = start
    BY <2>1
  <2>3. work[1] \in State
    BY <2>1, <2>2, ElementOfSeq
  <2> QED
    BY <2>1, <2>2, <2>3
<1>2. /\ s' = start /\ work' = <<>> /\ visited' = {start} /\ i' = 0
      /\ pc' = "inputs" /\ given' = given /\ out_graph' = out_graph
      /\ new_state' = NumberedWith(new_state, start)
  BY <1>1 DEF Visit
<1>3. max_state(new_state) = 0
  BY <1>1, MetFinite
<1>4. /\ Met' = {start} /\ new_state'[start] = 0 /\ max_state(new_state)' = 1
      /\ new_state' \in [Met' -> 0 .. max_state(new_state)' - 1]
  <2> DEFINE ns == new_state'
  <2>1. ns = NumberedWith(new_state, start)
    BY <1>2
  <2> HIDE DEF ns
  <2>2. /\ DOMAIN ns = Met \cup {start} /\ ns[start] = max_state(new_state)
        /\ max_state(ns) = max_state(new_state) + 1
        /\ ns \in [DOMAIN ns -> 0 .. max_state(ns) - 1]
    BY <1>1, <2>1, NumberedFacts DEF Numbers
  <2>3. Met' = DOMAIN ns /\ max_state(new_state)' = max_state(ns)
    BY DEF Met, ns
  <2> QED
    BY <1>1, <1>3, <2>2, <2>3 DEF ns
<1>5. DOMAIN out_graph = {}
  <2>1. DOMAIN out_graph \subseteq 0 .. 0 - 1
    BY <1>3 DEF ReachTypeOK
  <2>2. 0 .. 0 - 1 = {}
    OBVIOUS
  <2> QED
    BY <2>1, <2>2
<1>6. ToSet(work') = {} /\ work' \in Seq(State)
  BY <1>2 DEF ToSet
<1>7. P \in Nat \ {0}
  BY SizesAssumption
<1>8. ReachTypeOK'
  BY <1>1, <1>2, <1>4, <1>5, <1>6, <1>7 DEF ReachTypeOK
<1>9. Rows' /\ Beginning' /\ QueueInOrder' /\ Discovered' /\ Ended'
  BY <1>2, <1>4, <1>5, <1>6, <1>7
     DEF Rows, Beginning, QueueInOrder, Discovered, Ended
<1>10. VisitedInOrder'
  <2>1. Cardinality({start}) = 1
    BY FS_Singleton
  <2> QED
    BY <1>2, <1>4, <2>1 DEF VisitedInOrder
<1>11. EdgesWritten'
  BY <1>2 DEF EdgesWritten, Followed, Input
<1>12. OnlyReachable'
  BY <1>2, <1>4, <1>6 DEF OnlyReachable, Closed
<1> QED
  BY <1>8, <1>9, <1>10, <1>11, <1>12

(* Any other state has its number when it is visited.                      *)
LEMMA VisitKeepsIInv == RIInv /\ Visit /\ visited # {} => RIInv'
<1> SUFFICES ASSUME RIInv, Visit, visited # {} PROVE RIInv'
  OBVIOUS
<1> USE DEF RIInv
<1> DEFINE h == Head(work)
<1>1. /\ pc = "pop" /\ pc' = "inputs" /\ work # <<>> /\ h \notin visited
      /\ s' = h /\ work' = Tail(work) /\ visited' = visited \cup {h}
      /\ i' = 0 /\ given' = given /\ out_graph' = out_graph
      /\ new_state' = NumberedWith(new_state, h)
  BY DEF Visit
<1>2. h \in Met /\ new_state[h] = Cardinality(visited) /\ h \in State
  BY <1>1, NextInOrder DEF ReachTypeOK
<1>3. /\ new_state' = new_state /\ Met' = Met
      /\ max_state(new_state)' = max_state(new_state)
  BY <1>1, <1>2 DEF NumberedWith, Met, max_state
<1>4. /\ work' \in Seq(State) /\ ToSet(work') \subseteq ToSet(work)
  BY <1>1, Popped
<1>5. /\ IsFiniteSet(visited) /\ Cardinality(visited) \in Nat
      /\ Cardinality(visited') = Cardinality(visited) + 1
  BY <1>1, MetFinite, FS_AddElement
<1>6. QueueInOrder'
  BY <1>1, <1>3, PoppedInOrder
<1> HIDE DEF h
<1>7. P \in Nat \ {0}
  BY SizesAssumption
<1>8. ReachTypeOK'
  BY <1>1, <1>2, <1>3, <1>4, <1>7 DEF ReachTypeOK
<1>9. Rows' /\ Beginning' /\ OnlyReachable' /\ Ended'
  BY <1>1, <1>3, <1>4, <1>7 DEF Rows, Beginning, OnlyReachable, Closed, Ended
<1>10. VisitedInOrder'
  <2>1. {new_state[t] : t \in visited'}
          = {new_state[t] : t \in visited} \cup {Cardinality(visited)}
    BY <1>1, <1>2
  <2>2. {new_state[t] : t \in visited} = 0 .. Cardinality(visited) - 1
    BY DEF VisitedInOrder
  <2>3. {new_state[t] : t \in visited'} = 0 .. Cardinality(visited') - 1
    <3> DEFINE c == Cardinality(visited)
    <3>1. c \in Nat /\ Cardinality(visited') = c + 1
      BY <1>5
    <3> HIDE DEF c
    <3>2. (0 .. c - 1) \cup {c} = 0 .. (c + 1) - 1
      BY <3>1
    <3> QED
      BY <2>1, <2>2, <3>1, <3>2 DEF c
  <2>4. new_state[s'] = Cardinality(visited') - 1
    BY <1>1, <1>2, <1>5
  <2> QED
    BY <1>3, <2>3, <2>4 DEF VisitedInOrder
<1>11. \A t \in State, a \in Input : Followed(t, a)' <=> Followed(t, a)
  BY <1>1 DEF Followed, Input
<1>12. EdgesWritten'
  BY <1>1, <1>3, <1>11 DEF EdgesWritten
<1>13. Discovered'
  <2>1. ASSUME NEW x \in Met \ {start}
        PROVE  \E t \in visited', a \in Input : DiscoveredBy(x, t, a)'
    <3>1. PICK t \in visited, a \in Input : DiscoveredBy(x, t, a)
      BY DEF Discovered
    <3>2. /\ t \in State /\ new_state[t] \in 0 .. Cardinality(visited) - 1
      BY DEF VisitedInOrder, ReachTypeOK
    <3>3. ASSUME NEW y \in visited', NEW b \in Input,
                 new_state[y] < new_state[t] \/ (y = t /\ b < a)
          PROVE  new_state[given[y][b].to] < new_state[x]
      <4>1. y # h
        BY <1>1, <1>2, <1>5, <3>2, <3>3
      <4>2. y \in visited
        BY <1>1, <4>1
      <4> QED
        BY <3>1, <3>3, <4>2 DEF DiscoveredBy
    <3>4. DiscoveredBy(x, t, a)'
      BY <1>1, <1>3, <1>11, <3>1, <3>2, <3>3, SMTT(30) DEF DiscoveredBy
    <3> QED
      BY <1>1, <3>4
  <2> QED
    BY <1>3, <2>1 DEF Discovered
<1> QED
  BY <1>6, <1>8, <1>9, <1>10, <1>12, <1>13

-----------------------------------------------------------------------------
(* The turn of the for loop.                                               *)

(* What FollowInput does, when everything is in bounds.                    *)
LEMMA FollowFacts ==
  ASSUME RIInv, FollowInput
  PROVE  LET t == given[s][i].to
             m == max_state(new_state')
         IN  /\ i \in Input /\ s \in visited /\ s \in Met /\ t \in State
             /\ given[s][i] \in Edge
             /\ new_state' = NumberedWith(new_state, t)
             /\ Met' = Met \cup {t}
             /\ \A x \in Met : new_state'[x] = new_state[x]
             /\ DOMAIN out_graph' = 0 .. m - 1
             /\ \A n \in DOMAIN out_graph' : \A a \in Input :
                  out_graph'[n][a] =
                    IF n = new_state[s] /\ a = i
                      THEN [to |-> new_state'[t], out |-> given[s][i].out]
                      ELSE IF n \in DOMAIN out_graph THEN out_graph[n][a]
                      ELSE NoEdge
             /\ \A n \in DOMAIN out_graph' : out_graph'[n] \in [Input -> EdgeEntry]
<1> USE DEF RIInv
<1> DEFINE t == given[s][i].to
           m == max_state(new_state')
           y == given[s][i].out
<1>1. i \in Input /\ s \in visited /\ s \in Met /\ s \in State
  BY SizesAssumption DEF FollowInput, Rows, ReachTypeOK, Input
<1>2. given[s][i] \in Edge /\ t \in State /\ y \in Output
  BY <1>1 DEF ReachTypeOK, Machine, Edge
<1>3. /\ new_state' = NumberedWith(new_state, t)
      /\ out_graph' = [Resized(out_graph, m) EXCEPT ![new_state'[s]][i] = NewEdge(t, y)]
  BY DEF FollowInput
<1> HIDE DEF t, y
<1>4. /\ DOMAIN new_state' = Met \cup {t} /\ \A x \in Met : new_state'[x] = new_state[x]
      /\ m \in Nat /\ m >= max_state(new_state)
      /\ new_state'[t] \in 0 .. m - 1 /\ new_state'[s] \in 0 .. m - 1
  <2> DEFINE ns == new_state'
  <2> HIDE DEF ns
  <2>1. ns = NumberedWith(new_state, t)
    BY <1>3 DEF ns
  <2>2. /\ DOMAIN ns = Met \cup {t} /\ \A x \in Met : ns[x] = new_state[x]
        /\ max_state(ns) \in Nat
        /\ max_state(ns) =
              IF t \in Met THEN max_state(new_state) ELSE max_state(new_state) + 1
        /\ ns \in [DOMAIN ns -> 0 .. max_state(ns) - 1]
    BY <1>2, <2>1, NumberedFacts DEF Numbers
  <2>3. max_state(ns) >= max_state(new_state)
    BY <2>2, MetFinite
  <2> QED
    BY <1>1, <2>2, <2>3 DEF ns
<1>5. Met' = Met \cup {t}
  BY <1>4 DEF Met
<1> HIDE DEF m
<1> DEFINE rs == Resized(out_graph, m)
<1>6. /\ DOMAIN rs = 0 .. m - 1
      /\ \A n \in 0 .. m - 1 :
            rs[n] = IF n \in DOMAIN out_graph THEN out_graph[n] ELSE Unfilled
  BY DEF Resized
<1> HIDE DEF rs
<1>7. Unfilled \in [Input -> EdgeEntry] /\ \A a \in Input : Unfilled[a] = NoEdge
  BY DEF Unfilled, NoEdge, EdgeEntry
<1>8. \A n \in 0 .. m - 1 : rs[n] \in [Input -> EdgeEntry]
  BY <1>6, <1>7 DEF Rows
<1>9. out_graph' = [rs EXCEPT ![new_state[s]][i] = [to |-> new_state'[t], out |-> y]]
  BY <1>1, <1>3, <1>4 DEF rs, NewEdge
<1>10. DOMAIN out_graph' = 0 .. m - 1
  BY <1>6, <1>9
<1>11. ASSUME NEW n \in DOMAIN out_graph'
       PROVE  out_graph'[n] = IF n = new_state[s]
                THEN [rs[n] EXCEPT ![i] = [to |-> new_state'[t], out |-> y]]
                ELSE rs[n]
  BY <1>6, <1>9, <1>10
<1>12. [to |-> new_state'[t], out |-> y] \in EdgeEntry
  <2>1. m - 1 <= N - 1
    <3>1. Met' \subseteq State
      BY <1>2, <1>5 DEF ReachTypeOK
    <3>2. Cardinality(Met') <= Cardinality(State)
      BY <3>1, StateFinite, FS_Subset
    <3>3. Cardinality(State) = N
      BY FS_Interval, SizesAssumption DEF State
    <3>4. m = Cardinality(Met')
      BY DEF m, max_state, Met
    <3> QED
      BY <3>2, <3>3, <3>4, <1>4, SizesAssumption
  <2>2. new_state'[t] \in State
    BY <1>4, <2>1, SizesAssumption DEF State
  <2> QED
    BY <1>2, <2>2 DEF EdgeEntry
<1>13. \A n \in DOMAIN out_graph' : out_graph'[n] \in [Input -> EdgeEntry]
  BY <1>1, <1>8, <1>10, <1>11, <1>12
<1>14. ASSUME NEW n \in DOMAIN out_graph', NEW a \in Input
       PROVE  out_graph'[n][a] =
                    IF n = new_state[s] /\ a = i
                      THEN [to |-> new_state'[t], out |-> y]
                      ELSE IF n \in DOMAIN out_graph THEN out_graph[n][a]
                      ELSE NoEdge
  <2>1. rs[n][a] = IF n \in DOMAIN out_graph THEN out_graph[n][a] ELSE NoEdge
    BY <1>6, <1>7, <1>10
  <2>2. rs[n] \in [Input -> EdgeEntry]
    BY <1>8, <1>10
  <2> QED
    BY <1>1, <1>11, <2>1, <2>2
<1> QED
  BY <1>1, <1>2, <1>3, <1>4, <1>5, <1>10, <1>13, <1>14 DEF t, m, y

(* The queue when a state is pushed.                                       *)
LEMMA Pushed ==
  ASSUME NEW q \in Seq(State), NEW t \in State
  PROVE  /\ Append(q, t) \in Seq(State)
         /\ ToSet(Append(q, t)) = ToSet(q) \cup {t}
         /\ \A j \in DOMAIN q : j \in DOMAIN Append(q, t) /\ Append(q, t)[j] = q[j]
         /\ \A j \in DOMAIN Append(q, t) \ DOMAIN q :
               Append(q, t)[j] = t /\ DOMAIN q = 1 .. j - 1
<1>1. /\ Append(q, t) \in Seq(State) /\ Len(q) \in Nat
      /\ \A j \in 1 .. Len(q) : Append(q, t)[j] = q[j]
      /\ Append(q, t)[Len(q) + 1] = t
      /\ DOMAIN q = 1 .. Len(q) /\ DOMAIN Append(q, t) = 1 .. Len(q) + 1
  BY AppendProperties
<1>2. 1 .. Len(q) + 1 = (1 .. Len(q)) \cup {Len(q) + 1}
  BY <1>1
<1>3. ToSet(Append(q, t)) = ToSet(q) \cup {t}
  BY <1>1, <1>2 DEF ToSet
<1> QED
  BY <1>1, <1>2, <1>3

(* The loop over the inputs meets states in the order of their numbers.    *)
LEMMA FollowKeepsIInv == RIInv /\ FollowInput => RIInv'
<1> SUFFICES ASSUME RIInv, FollowInput PROVE RIInv'
  OBVIOUS
<1> USE DEF RIInv
<1> DEFINE t == given[s][i].to
           y == given[s][i].out
           m == max_state(new_state)'
<1>1. /\ i \in Input /\ s \in visited /\ s \in Met /\ t \in State
      /\ given[s][i] \in Edge
      /\ new_state' = NumberedWith(new_state, t)
      /\ Met' = Met \cup {t}
      /\ \A x \in Met : new_state'[x] = new_state[x]
      /\ DOMAIN out_graph' = 0 .. m - 1
      /\ \A n \in DOMAIN out_graph' : \A a \in Input :
           out_graph'[n][a] =
             IF n = new_state[s] /\ a = i THEN [to |-> new_state'[t], out |-> y]
             ELSE IF n \in DOMAIN out_graph THEN out_graph[n][a]
             ELSE NoEdge
      /\ \A n \in DOMAIN out_graph' : out_graph'[n] \in [Input -> EdgeEntry]
  BY FollowFacts
<1>2. /\ pc = "inputs" /\ i' = i + 1 /\ pc' = IF i + 1 = P THEN "pop" ELSE "inputs"
      /\ given' = given /\ visited' = visited /\ s' = s
      /\ work' = IF t \in visited THEN work ELSE Append(work, t)
  BY DEF FollowInput, WorkWith
<1> HIDE DEF t, y
<1>3. /\ Met' \subseteq State /\ m \in Nat
      /\ t \in Met => new_state' = new_state /\ Met' = Met
      /\ t \notin Met => new_state'[t] = max_state(new_state)
      /\ m = IF t \in Met THEN max_state(new_state) ELSE max_state(new_state) + 1
      /\ new_state' \in [Met' -> 0 .. m - 1]
      /\ \A x, z \in Met' : new_state'[x] = new_state'[z] => x = z
      /\ \A n \in 0 .. m - 1 : \E x \in Met' : new_state'[x] = n
  <2> DEFINE ns == new_state'
  <2> HIDE DEF ns
  <2>1. ns = NumberedWith(new_state, t)
    BY <1>1 DEF ns
  <2>2. /\ DOMAIN ns \subseteq State
        /\ t \in Met => ns = new_state
        /\ t \notin Met => ns[t] = max_state(new_state)
        /\ max_state(ns) \in Nat
        /\ max_state(ns) =
              IF t \in Met THEN max_state(new_state) ELSE max_state(new_state) + 1
        /\ ns \in [DOMAIN ns -> 0 .. max_state(ns) - 1]
        /\ \A x, z \in DOMAIN ns : ns[x] = ns[z] => x = z
        /\ \A n \in 0 .. max_state(ns) - 1 : \E x \in DOMAIN ns : ns[x] = n
    <3>1. ReachTypeOK /\ Rows /\ t \in State
      BY <1>1
    <3>2. /\ DOMAIN ns \subseteq State
          /\ t \in Met => ns = new_state
          /\ t \notin Met => ns[t] = max_state(new_state)
          /\ max_state(ns) \in Nat
          /\ max_state(ns) =
               IF t \in Met THEN max_state(new_state) ELSE max_state(new_state) + 1
          /\ Numbers(ns)
      BY <2>1, <3>1, NumberedFacts
    <3> QED
      BY <3>2 DEF Numbers
  <2>3. Met' = DOMAIN ns /\ m = max_state(ns)
    BY DEF ns, Met
  <2>4. t \in Met => Met' = Met
    BY <1>1
  <2> QED
    BY <2>2, <2>3, <2>4 DEF ns
<1>4. /\ max_state(new_state) \in Nat
      /\ \A x \in Met : new_state[x] \in 0 .. max_state(new_state) - 1
  BY MetFinite DEF ReachTypeOK
<1>5. /\ work' \in Seq(State)
      /\ ToSet(work') = IF t \in visited THEN ToSet(work) ELSE ToSet(work) \cup {t}
      /\ \A j \in DOMAIN work : j \in DOMAIN work' /\ work'[j] = work[j]
      /\ \A j \in DOMAIN work' \ DOMAIN work :
            /\ work'[j] = t /\ t \notin visited
            /\ DOMAIN work = 1 .. j - 1
  <2>1. work \in Seq(State) /\ t \in State
    BY <1>1 DEF ReachTypeOK
  <2>2. work' = IF t \in visited THEN work ELSE Append(work, t)
    BY <1>2
  <2>3. CASE t \in visited
    BY <2>1, <2>2, <2>3
  <2>4. CASE t \notin visited
    BY <2>1, <2>2, <2>4, Pushed
  <2> QED
    BY <2>3, <2>4
<1> HIDE DEF m
<1>6. ReachTypeOK'
  <2>1. i' \in 0 .. P /\ pc' \in {"pop", "inputs", "returned", "thrown"}
    BY <1>1, <1>2, SizesAssumption DEF Input
  <2>2. visited \subseteq Met
    BY DEF ReachTypeOK
  <2> QED
    BY <1>1, <1>2, <1>3, <1>5, <2>1, <2>2 DEF ReachTypeOK, m
<1>7. Rows'
  BY <1>1, <1>2, <1>3, SizesAssumption DEF Rows, Input, m
<1>8. Beginning'
  BY <1>1, <1>2, <1>5 DEF Beginning
<1>9. QueueInOrder'
  <2>1. Met' \ visited' \subseteq ToSet(work')
    BY <1>1, <1>2, <1>5 DEF QueueInOrder
  <2>2. ASSUME NEW j \in DOMAIN work', NEW x \in Met' \ visited',
               new_state'[x] < new_state'[work'[j]]
        PROVE  \E k \in 1 .. j - 1 : work'[k] = x
    <3>1. CASE j \in DOMAIN work
      <4>1. work[j] \in Met /\ work'[j] = work[j]
        BY <1>1, <1>5, <3>1 DEF Beginning, ToSet
      <4>2. x \in Met
        <5>1. new_state'[work'[j]] \in 0 .. max_state(new_state) - 1
          BY <1>1, <1>4, <4>1
        <5> QED
          BY <1>1, <1>3, <1>4, <2>2, <5>1
      <4>3. new_state[x] < new_state[work[j]]
        BY <1>1, <2>2, <4>1, <4>2
      <4>4. PICK k \in 1 .. j - 1 : work[k] = x
        BY <1>2, <2>2, <3>1, <4>1, <4>2, <4>3 DEF QueueInOrder
      <4>5. k \in DOMAIN work
        <5>1. work \in Seq(State)
          BY DEF ReachTypeOK
        <5> QED
          BY <3>1, <4>4, <5>1
      <4> QED
        BY <1>5, <4>4, <4>5
    <3>2. CASE j \notin DOMAIN work
      <4>1. work'[j] = t /\ DOMAIN work = 1 .. j - 1
        BY <1>5, <3>2
      <4>2. x # t /\ x \in Met
        <5>1. x # t
          BY <1>3, <2>2, <4>1
        <5> QED
          BY <1>1, <5>1
      <4>3. x \in ToSet(work)
        BY <1>2, <2>2, <4>2 DEF QueueInOrder
      <4> QED
        BY <1>5, <4>1, <4>3 DEF ToSet
    <3> QED
      BY <3>1, <3>2
  <2> QED
    BY <2>1, <2>2 DEF QueueInOrder
<1>10. VisitedInOrder'
  <2>1. {new_state'[x] : x \in visited} = {new_state[x] : x \in visited}
    BY <1>1 DEF ReachTypeOK
  <2> QED
    BY <1>1, <1>2, <2>1 DEF VisitedInOrder
<1>11. \A x \in State, a \in Input :
          Followed(x, a)' <=> Followed(x, a) \/ (x = s /\ a = i)
  BY <1>1, <1>2, SizesAssumption DEF Followed, Input
<1>12. EdgesWritten'
  <2>1. ASSUME NEW x \in State, NEW a \in Input, Followed(x, a)'
        PROVE  /\ given[x][a].to \in Met'
               /\ new_state'[x] \in DOMAIN out_graph'
               /\ out_graph'[new_state'[x]][a] =
                    [to |-> new_state'[given[x][a].to], out |-> given[x][a].out]
    <3>1. x \in Met /\ new_state'[x] = new_state[x] /\ new_state'[x] \in 0 .. m - 1
      BY <1>1, <1>2, <1>3, <2>1 DEF Followed, ReachTypeOK
    <3>2. CASE x = s /\ a = i
      BY <1>1, <3>1, <3>2 DEF t, y
    <3>3. CASE ~ (x = s /\ a = i)
      <4>1. Followed(x, a)
        BY <1>11, <2>1, <3>3
      <4>2. /\ given[x][a].to \in Met /\ new_state[x] \in DOMAIN out_graph
            /\ out_graph[new_state[x]][a] =
                 [to |-> new_state[given[x][a].to], out |-> given[x][a].out]
        BY <4>1 DEF EdgesWritten
      <4>3. ~ (new_state[x] = new_state[s] /\ a = i)
        BY <1>1, <3>1, <3>3 DEF ReachTypeOK
      <4>4. out_graph'[new_state[x]][a] = out_graph[new_state[x]][a]
        BY <1>1, <3>1, <4>2, <4>3
      <4> QED
        BY <1>1, <3>1, <4>2, <4>4
    <3> QED
      BY <3>2, <3>3
  <2> QED
    BY <1>1, <1>2, <2>1 DEF EdgesWritten, m
<1>13. OnlyReachable'
  BY <1>1, <1>2, <1>5 DEF OnlyReachable, Closed, t
<1>14. Discovered'
  <2>1. ASSUME NEW x \in Met' \ {start}
        PROVE  \E z \in visited', a \in Input : DiscoveredBy(x, z, a)'
    <3>0. visited \subseteq Met /\ Met \subseteq State
      BY DEF ReachTypeOK
    <3>1. CASE x \in Met
      <4>1. PICK z \in visited, a \in Input : DiscoveredBy(x, z, a)
        BY <2>1, <3>1 DEF Discovered
      <4>2. ASSUME NEW x1 \in visited, NEW b \in Input,
                   new_state[x1] < new_state[z] \/ (x1 = z /\ b < a)
            PROVE  /\ given[x1][b].to \in Met
                   /\ new_state[given[x1][b].to] < new_state[x]
        <5>1. Followed(x1, b)
          <6>1. CASE x1 = z /\ b < a
            BY <4>1, <6>1, <1>1, SizesAssumption DEF DiscoveredBy, Followed, Input
          <6>2. CASE new_state[x1] < new_state[z]
            <7>1. /\ new_state[z] \in 0 .. Cardinality(visited) - 1
                  /\ new_state[s] = Cardinality(visited) - 1
                  /\ Cardinality(visited) \in Nat
              BY <1>2, MetFinite DEF VisitedInOrder
            <7>2. x1 # s
              BY <6>2, <7>1
            <7> QED
              BY <7>2 DEF Followed
          <6> QED
            BY <4>2, <6>1, <6>2
        <5> QED
          BY <3>0, <4>1, <4>2, <5>1 DEF EdgesWritten, DiscoveredBy
      <4>3. DiscoveredBy(x, z, a)'
        BY <1>1, <1>2, <1>11, <3>0, <3>1, <4>1, <4>2 DEF DiscoveredBy
      <4> QED
        BY <1>2, <4>3
    <3>2. CASE x \notin Met
      <4>1. x = t /\ new_state'[x] = max_state(new_state)
        BY <1>1, <1>3, <2>1, <3>2
      <4>2. ASSUME NEW x1 \in visited, NEW b \in Input,
                   new_state[x1] < new_state[s] \/ (x1 = s /\ b < i)
            PROVE  /\ given[x1][b].to \in Met
                   /\ new_state[given[x1][b].to] < max_state(new_state)
        <5>1. Followed(x1, b)
          BY <1>1, <1>4, <3>0, <4>2, SizesAssumption DEF Followed, Input
        <5>2. given[x1][b].to \in Met
          BY <3>0, <5>1 DEF EdgesWritten
        <5> QED
          BY <1>4, <5>2
      <4>3. new_state[s] < max_state(new_state)
        BY <1>1, <1>4
      <4>4. PICK z \in State, a \in Input : z = s /\ a = i
        BY <1>1, <3>0
      <4>5. Followed(z, a)' /\ given[z][a].to = t
        BY <1>11, <4>4 DEF t
      <4>6. DiscoveredBy(x, z, a)'
        BY <1>1, <1>2, <3>0, <4>1, <4>2, <4>3, <4>4, <4>5 DEF DiscoveredBy
      <4> QED
        BY <1>1, <1>2, <4>4, <4>6
    <3> QED
      BY <3>1, <3>2
  <2> QED
    BY <2>1 DEF Discovered
<1>15. Ended'
  BY <1>2 DEF Ended
<1> QED
  BY <1>6, <1>7, <1>8, <1>9, <1>10, <1>12, <1>13, <1>14, <1>15

-----------------------------------------------------------------------------
(* The end.                                                                *)

(* With an empty queue, the visited states are all states that can be      *)
(* reached, and each number has its row.                                   *)
LEMMA NothingWaits ==
  ASSUME RIInv, pc \in {"pop", "returned"}, work = <<>>
  PROVE  /\ visited = Met /\ start \in Met
         /\ \A t \in Met, a \in Input : Followed(t, a)
         /\ Met = ReachableStates
         /\ DOMAIN out_graph = 0 .. max_state(new_state) - 1
<1> USE DEF RIInv
<1>1. visited = Met /\ Met \subseteq State
  <2>1. ToSet(work) = {}
    BY DEF ToSet
  <2>2. Met \ visited \subseteq ToSet(work) /\ visited \subseteq Met
    BY DEF QueueInOrder, ReachTypeOK
  <2> QED
    BY <2>1, <2>2 DEF ReachTypeOK
<1>2. visited # {}
  <2>1. work # <<start>>
    OBVIOUS
  <2> QED
    BY <2>1 DEF Beginning
<1>3. start \in Met
  BY <1>2 DEF Beginning
<1>4. \A t \in Met, a \in Input : Followed(t, a)
  BY <1>1 DEF Followed
<1>5. Closed(Met)
  BY <1>1, <1>3, <1>4 DEF Closed, EdgesWritten
<1>6. Met = ReachableStates
  BY <1>1, <1>5 DEF ReachableStates, OnlyReachable
<1> QED
  BY <1>1, <1>2, <1>3, <1>4, <1>6 DEF EdgesWritten

(* The graph is complete then: the function never throws.                  *)
LEMMA ReturnKeepsIInv == RIInv /\ Return => RIInv'
<1> SUFFICES ASSUME RIInv, Return PROVE RIInv'
  OBVIOUS
<1>1. /\ pc = "pop" /\ work = <<>>
      /\ UNCHANGED <<given, visited, new_state, work, out_graph, s, i>>
  BY DEF Return
<1>2. Complete
  <2>1. ASSUME NEW n \in DOMAIN out_graph, NEW a \in Input
        PROVE  out_graph[n][a] # NoEdge
    <3>1. PICK t \in Met : new_state[t] = n
      BY <1>1, NothingWaits DEF RIInv, Rows
    <3>2. t \in State /\ Followed(t, a)
      BY <1>1, NothingWaits DEF RIInv, ReachTypeOK
    <3>3. /\ given[t][a].to \in Met
          /\ out_graph[n][a] =
               [to |-> new_state[given[t][a].to], out |-> given[t][a].out]
      BY <3>1, <3>2 DEF RIInv, EdgesWritten
    <3>4. new_state[given[t][a].to] \in 0 .. max_state(new_state) - 1
      BY <3>3 DEF RIInv, ReachTypeOK
    <3>5. out_graph[n][a].to \in 0 .. max_state(new_state) - 1
      BY <3>3, <3>4
    <3>6. max_state(new_state) \in Nat
      BY MetFinite DEF RIInv
    <3> QED
      BY <3>5, <3>6 DEF NoEdge
  <2> QED
    BY <2>1 DEF Complete
<1>3. pc' = "returned"
  BY <1>2 DEF Return
<1>4. /\ Met' = Met /\ max_state(new_state)' = max_state(new_state)
      /\ \A t \in State, a \in Input : Followed(t, a)' <=> Followed(t, a)
  BY <1>1, <1>3 DEF Met, max_state, Followed
<1> USE DEF RIInv
<1>5. ReachTypeOK' /\ Rows' /\ Beginning' /\ QueueInOrder' /\ VisitedInOrder'
  <2>1. visited # {}
    BY <1>1, NothingWaits
  <2> QED
    BY <1>1, <1>3, <1>4, <2>1
       DEF ReachTypeOK, Rows, Beginning, QueueInOrder, VisitedInOrder
<1>6. EdgesWritten' /\ OnlyReachable' /\ Ended'
  BY <1>1, <1>3, <1>4 DEF EdgesWritten, OnlyReachable, Closed, Ended
<1>7. Discovered'
  <2>1. ASSUME NEW x \in State, NEW t \in State, NEW a \in Input
        PROVE  DiscoveredBy(x, t, a)' <=> DiscoveredBy(x, t, a)
    BY <1>1, <1>4 DEF DiscoveredBy
  <2> QED
    BY <1>1, <1>4, <2>1 DEF Discovered, ReachTypeOK
<1> QED
  BY <1>5, <1>6, <1>7

(* Nothing changes in a stuttering step.                                   *)
LEMMA StutterKeepsIInv == RIInv /\ UNCHANGED vars => RIInv'
<1> SUFFICES ASSUME RIInv, UNCHANGED vars PROVE RIInv'
  OBVIOUS
<1> USE DEF RIInv, vars
<1>1. /\ Met' = Met /\ max_state(new_state)' = max_state(new_state)
      /\ \A t \in State, a \in Input : Followed(t, a)' <=> Followed(t, a)
  BY DEF Met, max_state, Followed
<1>2. ReachTypeOK' /\ Rows' /\ Beginning' /\ QueueInOrder' /\ VisitedInOrder'
  BY <1>1 DEF ReachTypeOK, Rows, Beginning, QueueInOrder, VisitedInOrder
<1>3. EdgesWritten' /\ OnlyReachable' /\ Ended'
  BY <1>1 DEF EdgesWritten, OnlyReachable, Closed, Ended
<1>4. Discovered'
  <2>1. ASSUME NEW x \in State, NEW t \in State, NEW a \in Input
        PROVE  DiscoveredBy(x, t, a)' <=> DiscoveredBy(x, t, a)
    BY <1>1 DEF DiscoveredBy
  <2> QED
    BY <1>1, <2>1 DEF Discovered, ReachTypeOK
<1> QED
  BY <1>2, <1>3, <1>4

-----------------------------------------------------------------------------
(* Theorems.                                                               *)

(* The inductive invariant holds in every state.                           *)
THEOREM ReachabilityInvariance == Spec => []RIInv
<1>1. RIInv /\ [Next]_vars => RIInv'
  BY SkipKeepsIInv, FirstVisitKeepsIInv, VisitKeepsIInv, FollowKeepsIInv,
     ReturnKeepsIInv, StutterKeepsIInv DEF Next
<1> QED
  BY <1>1, RInitIInv, PTL DEF Spec

(* Numbers are given without gaps and never twice, visited states have     *)
(* one, and every edge is written to a row that exists: the vectors of     *)
(* the function are never indexed out of their bounds.                     *)
THEOREM NumberingIsSound == Spec => []ReachTypeOK
<1>1. RIInv => ReachTypeOK
  BY DEF RIInv
<1> QED
  BY <1>1, ReachabilityInvariance, PTL

(* A complete machine of any size is never refused, and the result is its  *)
(* reachable part, no more and no less, with the same edges under the new  *)
(* names.                                                                  *)
THEOREM ResultIsReachablePart == Spec => []IsReachablePart
<1>1. RIInv => IsReachablePart
  <2> SUFFICES ASSUME RIInv, pc \in {"returned", "thrown"}
               PROVE  /\ pc # "thrown"
                      /\ Met = ReachableStates
                      /\ new_state[start] = 0
                      /\ DOMAIN out_graph = {new_state[t] : t \in Met}
                      /\ \A t \in Met : \A a \in Input :
                           out_graph[new_state[t]][a] =
                             [to |-> new_state[given[t][a].to],
                              out |-> given[t][a].out]
    BY DEF IsReachablePart
  <2> USE DEF RIInv
  <2>1. pc = "returned" /\ work = <<>>
    BY DEF Ended
  <2>2. /\ visited = Met /\ start \in Met
        /\ \A t \in Met, a \in Input : Followed(t, a)
        /\ Met = ReachableStates
        /\ DOMAIN out_graph = 0 .. max_state(new_state) - 1
    BY <2>1, NothingWaits
  <2>3. new_state[start] = 0
    BY <2>2 DEF Beginning
  <2>4. DOMAIN out_graph = {new_state[t] : t \in Met}
    BY <2>2 DEF Rows, ReachTypeOK
  <2>5. \A t \in Met : \A a \in Input :
          out_graph[new_state[t]][a] =
            [to |-> new_state[given[t][a].to], out |-> given[t][a].out]
    BY <2>2 DEF EdgesWritten, ReachTypeOK
  <2> QED
    BY <2>1, <2>2, <2>3, <2>4, <2>5
<1> QED
  BY <1>1, ReachabilityInvariance, PTL

(* The numbers are those of a breadth first search, which every run about  *)
(* another part of the program assumes of its machines.                    *)
THEOREM NumberingIsBreadthFirst == Spec => []NumberedBreadthFirst
<1>1. RIInv => NumberedBreadthFirst
  <2> SUFFICES ASSUME RIInv, pc = "returned", NEW n \in DOMAIN out_graph \ {0}
               PROVE  \E q \in 0 .. n - 1, a \in Input : FirstMetBy(n, q, a)
    BY DEF NumberedBreadthFirst, RIInv, VisitedInOrder
  <2> USE DEF RIInv
  <2>1. /\ visited = Met /\ Met \subseteq State
        /\ \A t \in Met, a \in Input : Followed(t, a)
        /\ DOMAIN out_graph = 0 .. max_state(new_state) - 1
        /\ max_state(new_state) \in Nat
    BY NothingWaits, MetFinite DEF Ended, ReachTypeOK
  <2>2. \A t \in Met : new_state[t] \in 0 .. max_state(new_state) - 1
    BY DEF ReachTypeOK
  <2>3. PICK x \in Met : new_state[x] = n
    BY <2>1 DEF Rows
  <2>4. x # start
    BY <2>1, <2>3 DEF Beginning
  <2>5. PICK t \in visited, a \in Input : DiscoveredBy(x, t, a)
    BY <2>3, <2>4 DEF Discovered
  <2>6. \A y \in Met, b \in Input :
          /\ given[y][b].to \in Met
          /\ out_graph[new_state[y]][b].to = new_state[given[y][b].to]
    <3> TAKE y \in Met, b \in Input
    <3>1. y \in State /\ Followed(y, b)
      BY <2>1
    <3>2. /\ given[y][b].to \in Met
          /\ out_graph[new_state[y]][b] =
               [to |-> new_state[given[y][b].to], out |-> given[y][b].out]
      BY <3>1 DEF EdgesWritten
    <3> QED
      BY <3>2
  <2>7. new_state[t] \in 0 .. n - 1
    BY <2>1, <2>2, <2>3, <2>5 DEF DiscoveredBy
  <2>8. out_graph[new_state[t]][a].to = n
    BY <2>1, <2>3, <2>5, <2>6 DEF DiscoveredBy
  <2>9. ASSUME NEW p \in 0 .. new_state[t], NEW b \in Input,
               p < new_state[t] \/ b < a
        PROVE  out_graph[p][b].to < n
    <3>1. p \in 0 .. max_state(new_state) - 1
      BY <2>1, <2>2, <2>5
    <3>2. PICK y \in Met : new_state[y] = p
      BY <3>1 DEF Rows
    <3>3. new_state[y] < new_state[t] \/ (y = t /\ b < a)
      <4>1. new_state[y] = new_state[t] => y = t
        BY <2>1, <2>5, <3>2 DEF ReachTypeOK
      <4> QED
        BY <2>2, <2>1, <2>5, <2>9, <3>2, <4>1
    <3>4. new_state[given[y][b].to] < new_state[x]
      BY <2>1, <2>5, <3>2, <3>3 DEF DiscoveredBy
    <3> QED
      BY <2>3, <2>6, <3>2, <3>4
  <2>10. FirstMetBy(n, new_state[t], a)
    BY <2>8, <2>9 DEF FirstMetBy
  <2> QED
    BY <2>7, <2>10
<1> QED
  BY <1>1, ReachabilityInvariance, PTL

=============================================================================
