----------------------- MODULE TransferSequencesProofs -----------------------
(***************************************************************************)
(* What create_transfer_sequences guarantees for every machine, every      *)
(* range of places and every order of the inputs.                          *)
(***************************************************************************)
EXTENDS TransferSequences, MealyProofs

(* What is known of the states with a word before the function returns.    *)
OnlyReachable == start \in added /\ added \subseteq Reachable

(* The function returns with no work left.                                 *)
NothingLeft   == pc = "returned" => work = <<>>

IInv ==
  /\ TypeOK
  /\ WorkIsFrontier
  /\ WordsLeadThere
  /\ WordsFormTree
  /\ OnlyReachable
  /\ NothingLeft

-----------------------------------------------------------------------------
(* Facts about one step.                                                   *)

(* Erasing a place moves those behind it one place forward.                *)
LEMMA ErasePlace ==
  ASSUME work \in Seq(State), NEW k \in 1 .. Len(work)
  PROVE  /\ Erase(k) \in Seq(State) /\ DOMAIN Erase(k) = 1 .. Len(work) - 1
         /\ \A i \in 1 .. Len(work) - 1 :
              Erase(k)[i] = work[IF i < k THEN i ELSE i + 1]
<1> DEFINE e == Erase(k)
           at(i) == IF i < k THEN i ELSE i + 1
<1>1. /\ e \in Seq(State) /\ DOMAIN e = 1 .. Len(work) - 1
      /\ \A i \in 1 .. Len(work) - 1 : e[i] = work[at(i)]
  <2> DEFINE l == SubSeq(work, 1, k - 1)
             r == SubSeq(work, k + 1, Len(work))
  <2>1. l \in Seq(State) /\ Len(l) = k - 1 /\ \A i \in 1 .. k - 1 : l[i] = work[i]
    OBVIOUS
  <2>2. /\ r \in Seq(State) /\ Len(r) = Len(work) - k
        /\ \A i \in 1 .. Len(work) - k : r[i] = work[k + i]
    OBVIOUS
  <2>3. e = l \o r
    BY DEF Erase, RemoveAt
  <2> HIDE DEF l, r, e
  <2>4. e \in Seq(State) /\ Len(e) = Len(work) - 1 /\ DOMAIN e = 1 .. Len(e)
    <3>1. Len(l) + Len(r) = Len(work) - 1
      BY <2>1, <2>2
    <3>2. l \o r \in Seq(State) /\ Len(l \o r) = Len(l) + Len(r)
      <4>1. l \in Seq(State) /\ r \in Seq(State)
        BY <2>1, <2>2
      <4> QED
        BY <4>1, ConcatProperties, SMTT(30)
    <3> QED
      BY <2>3, <3>1, <3>2, LenProperties
  <2>5. ASSUME NEW i \in 1 .. Len(work) - 1 PROVE e[i] = work[at(i)]
    <3>1. CASE i < k
      BY <2>1, <2>2, <2>3, <3>1
    <3>2. CASE i >= k
      <4>1. i - (k - 1) \in 1 .. Len(work) - k
        BY <3>2
      <4>2. e[i] = r[i - (k - 1)]
        BY <2>1, <2>2, <2>3, <3>2
      <4> QED
        BY <2>2, <3>2, <4>1, <4>2
    <3> QED
      BY <3>1, <3>2
  <2> QED
    BY <2>4, <2>5
<1> QED
  BY <1>1

(* Erasing a place of the list takes away that state and no other.         *)
LEMMA EraseOne ==
  ASSUME work \in Seq(State), NEW k \in 1 .. Len(work),
         \A i, j \in DOMAIN work : work[i] = work[j] => i = j
  PROVE  /\ Erase(k) \in Seq(State)
         /\ ToSet(Erase(k)) = ToSet(work) \ {work[k]}
         /\ \A i, j \in DOMAIN Erase(k) : Erase(k)[i] = Erase(k)[j] => i = j
<1> DEFINE e == Erase(k)
           at(i) == IF i < k THEN i ELSE i + 1
<1>1. /\ e \in Seq(State) /\ DOMAIN e = 1 .. Len(work) - 1
      /\ \A i \in 1 .. Len(work) - 1 : e[i] = work[at(i)]
  BY ErasePlace
<1> HIDE DEF e
<1>2. DOMAIN work = 1 .. Len(work) /\ Len(work) \in Nat
  OBVIOUS
<1>3. ToSet(e) = ToSet(work) \ {work[k]}
  <2>1. ASSUME NEW i \in DOMAIN e PROVE e[i] \in ToSet(work) \ {work[k]}
    <3>1. at(i) \in DOMAIN work /\ at(i) # k /\ e[i] = work[at(i)]
      BY <1>1, <1>2
    <3>2. work[at(i)] # work[k] /\ work[at(i)] \in ToSet(work)
      BY <1>2, <3>1 DEF ToSet
    <3> QED
      BY <3>1, <3>2
  <2>2. ASSUME NEW j \in DOMAIN work, j # k PROVE work[j] \in ToSet(e)
    <3>1. CASE j < k
      BY <1>1, <1>2, <3>1 DEF ToSet
    <3>2. CASE j > k
      <4>1. j - 1 \in DOMAIN e /\ e[j - 1] = work[j]
        BY <1>1, <1>2, <3>2
      <4> QED
        BY <4>1 DEF ToSet
    <3> QED
      BY <1>2, <2>2, <3>1, <3>2
  <2> QED
    BY <2>1, <2>2 DEF ToSet
<1>4. \A i, j \in DOMAIN e : e[i] = e[j] => i = j
  BY <1>1, <1>2
<1> QED
  BY <1>1, <1>3, <1>4 DEF e

(* The places the sample can select are places of the list.                *)
LEMMA PlacesExist ==
  ASSUME work \in Seq(State), work # <<>>, opt \in transfer_options
  PROVE  Places \subseteq 1 .. Len(work)
<1>1. Len(work) \in Nat \ {0}
  OBVIOUS
<1>2. opt.q_min \in 0 .. 1 /\ opt.q_max \in 0 .. 1
  BY DEF transfer_options
<1>3. Len(work) * opt.q_min \in Int
  BY <1>1, <1>2
<1>4. \A x \in Int : 1 + clamp(x, 0, Len(work) - 1) \in 1 .. Len(work)
  BY <1>1 DEF clamp
<1> QED
  BY <1>1, <1>2, <1>3, <1>4 DEF Places

(* Pushing a state behind adds that state.                                 *)
LEMMA PushOne ==
  ASSUME work \in Seq(State), NEW s \in State, s \notin ToSet(work),
         \A i, j \in DOMAIN work : work[i] = work[j] => i = j
  PROVE  /\ Append(work, s) \in Seq(State)
         /\ ToSet(Append(work, s)) = ToSet(work) \cup {s}
         /\ \A i, j \in DOMAIN Append(work, s) :
              Append(work, s)[i] = Append(work, s)[j] => i = j
<1> DEFINE e == Append(work, s)
<1>1. /\ e \in Seq(State) /\ Len(e) = Len(work) + 1 /\ e[Len(work) + 1] = s
      /\ \A i \in 1 .. Len(work) : e[i] = work[i]
      /\ Len(work) \in Nat /\ DOMAIN work = 1 .. Len(work)
      /\ DOMAIN e = 1 .. Len(work) + 1
  OBVIOUS
<1> HIDE DEF e
<1>2. ToSet(e) = ToSet(work) \cup {s}
  BY <1>1 DEF ToSet
<1>3. \A i, j \in DOMAIN e : e[i] = e[j] => i = j
  BY <1>1 DEF ToSet
<1> QED
  BY <1>1, <1>2, <1>3 DEF e

(* Every order of the inputs has every input.                              *)
LEMMA OrdersHold ==
  InOrder \in Orders
<1>1. P \in Nat \ {0}
  BY SizesAssumption
<1>2. InOrder \in [1 .. P -> Input]
  BY <1>1 DEF InOrder, Input
<1>3. ASSUME NEW a \in Input PROVE \E k \in 1 .. P : InOrder[k] = a
  <2>1. a + 1 \in 1 .. P /\ InOrder[a + 1] = a
    BY <1>1 DEF InOrder, Input
  <2> QED
    BY <2>1
<1> QED
  BY <1>2, <1>3 DEF Orders

-----------------------------------------------------------------------------
(* The invariant.                                                          *)

(* The invariant holds when the search begins.                             *)
LEMMA InitEstablishes == Init => IInv
<1> SUFFICES ASSUME Init PROVE IInv
  OBVIOUS
<1>1. <<>> \in Word
  BY DEF Word
<1>2. TypeOK
  BY <1>1, OrdersHold, StartAssumption, MachinesAssumption, OptionsAssumption,
     SizesAssumption
  DEF Init, TypeOK
<1>3. ToSet(work) = {start}
  BY DEF Init, ToSet
<1>4. WorkIsFrontier
  BY <1>3 DEF Init, WorkIsFrontier, Done
<1>5. WordsLeadThere
  <2>1. machine \in Machine /\ words[start] = <<>>
    BY <1>2, StartAssumption DEF Init, TypeOK
  <2>2. PICK f : IsRun(machine, start, <<>>, f) /\ applyWord(machine, start, <<>>) = f[0]
    BY <1>1, <2>1, ApplyRun, StartAssumption
  <2>3. f[0].to = start
    BY <2>2 DEF IsRun
  <2> QED
    BY <2>1, <2>2, <2>3 DEF Init, WordsLeadThere
<1>6. WordsFormTree
  BY StartAssumption DEF Init, WordsFormTree
<1>7. OnlyReachable
  BY StartAssumption DEF Init, OnlyReachable, Reachable, Closed
<1>8. NothingLeft
  BY DEF Init, NothingLeft
<1> QED
  BY <1>2, <1>4, <1>5, <1>6, <1>7, <1>8 DEF IInv

(* Taking a state from any place of the list moves it from the frontier to *)
(* the state whose inputs are tried.                                       *)
LEMMA PopPreserves == IInv /\ Pop => IInv'
<1> SUFFICES ASSUME IInv, Pop PROVE IInv'
  OBVIOUS
<1>1. work \in Seq(State) /\ \A i, j \in DOMAIN work : work[i] = work[j] => i = j
  BY DEF IInv, TypeOK, WorkIsFrontier
<1>2. PICK k \in 1 .. Len(work) : u' = work[k] /\ work' = Erase(k)
  BY <1>1, PlacesExist DEF Pop, IInv, TypeOK
<1>3. /\ work' \in Seq(State)
      /\ ToSet(work') = ToSet(work) \ {u'}
      /\ \A i, j \in DOMAIN work' : work'[i] = work'[j] => i = j
  BY <1>1, <1>2, EraseOne
<1>4. u' \in State /\ u' \in ToSet(work)
  BY <1>1, <1>2 DEF ToSet
<1>5. /\ machine' = machine /\ opt' = opt /\ added' = added /\ words' = words
      /\ pc = "pop" /\ pc' = "inputs" /\ tried' = 0
  BY DEF Pop
<1>6. all_inputs' \in Orders
  BY DEF Pop, NextOrder, IInv, TypeOK
<1>7. TypeOK'
  BY <1>3, <1>4, <1>5, <1>6, SizesAssumption DEF IInv, TypeOK
<1>8. WorkIsFrontier'
  <2>1. ToSet(work') \subseteq added' /\ u' \in added'
    BY <1>3, <1>4, <1>5 DEF IInv, WorkIsFrontier
  <2>2. Done' = Done
    BY <1>3, <1>4, <1>5 DEF Done
  <2>3. \A s \in Done' : \A a \in Input : machine'[s][a].to \in added'
    BY <1>5, <2>2 DEF IInv, WorkIsFrontier
  <2> QED
    BY <1>3, <1>5, <2>1, <2>3 DEF WorkIsFrontier
<1>9. WordsLeadThere'
  BY <1>5 DEF IInv, WordsLeadThere
<1>10. WordsFormTree'
  BY <1>3, <1>5 DEF IInv, WordsFormTree
<1>11. OnlyReachable'
  BY <1>5 DEF IInv, OnlyReachable, Reachable, Closed
<1>12. NothingLeft'
  BY <1>5 DEF NothingLeft
<1> QED
  BY <1>7, <1>8, <1>9, <1>10, <1>11, <1>12 DEF IInv

(* Trying an input gives at most one state a word, which leads to it.      *)
LEMMA TryInputPreserves == IInv /\ TryInput => IInv'
<1> SUFFICES ASSUME IInv, TryInput PROVE IInv'
  OBVIOUS
<1>1. /\ machine' = machine /\ opt' = opt /\ all_inputs' = all_inputs /\ u' = u
      /\ pc = "inputs" /\ tried' = tried + 1
      /\ pc' = IF tried + 1 = P THEN "pop" ELSE "inputs"
  BY DEF TryInput, IsLast
<1>2. /\ tried \in Nat /\ tried < P /\ P \in Nat \ {0}
      /\ u \in State /\ u \in added /\ u \notin ToSet(work)
      /\ machine \in Machine
  BY <1>1, SizesAssumption DEF IInv, TypeOK, WorkIsFrontier
<1>3. input \in Input
  BY <1>2 DEF input, IInv, TypeOK, Orders
<1>4. v \in State
  BY <1>2, <1>3 DEF v, Machine, Edge
<1>5. v \in added' /\ added \subseteq added' /\ added' \subseteq added \cup {v}
  BY DEF TryInput
<1>6. /\ work' \in Seq(State)
      /\ ToSet(work') = ToSet(work) \cup (added' \ added)
      /\ \A i, j \in DOMAIN work' : work'[i] = work'[j] => i = j
  <2>1. CASE v \in added
    BY <2>1, <1>5 DEF TryInput, IInv, TypeOK, WorkIsFrontier
  <2>2. CASE v \notin added
    <3>1. v \notin ToSet(work) /\ work' = Append(work, v) /\ added' = added \cup {v}
      BY <2>2 DEF TryInput, IInv, WorkIsFrontier
    <3>2. /\ work \in Seq(State)
          /\ \A i, j \in DOMAIN work : work[i] = work[j] => i = j
      BY DEF IInv, TypeOK, WorkIsFrontier
    <3> QED
      BY <1>4, <2>2, <3>1, <3>2, PushOne
  <2> QED
    BY <2>1, <2>2
<1>7. /\ Append(words[u], input) \in Word
      /\ applyWord(machine, start, Append(words[u], input)).to = v
  <2>1. words[u] \in Word /\ applyWord(machine, start, words[u]).to = u
    BY <1>2 DEF IInv, TypeOK, WordsLeadThere
  <2> QED
    BY <1>2, <1>3, <2>1, ApplySnoc, StartAssumption DEF v
<1>8. /\ words' \in [State -> Word]
      /\ \A s \in added : words'[s] = words[s]
      /\ v \notin added => words'[v] = Append(words[u], input)
  <2>1. words \in [State -> Word]
    BY DEF IInv, TypeOK
  <2>2. CASE v \in added
    <3>1. words' = words
      BY <2>2 DEF TryInput
    <3> QED
      BY <2>1, <2>2, <3>1
  <2>3. CASE v \notin added
    <3>1. words' = [words EXCEPT ![v] = Append(words[u], input)]
      BY <2>3 DEF TryInput, Extended
    <3>2. words' \in [State -> Word] /\ words'[v] = Append(words[u], input)
      BY <1>4, <1>7, <2>1, <3>1
    <3>3. \A s \in added : words'[s] = words[s]
      <4>1. \A s \in added : s \in State /\ s # v
        BY <2>3 DEF IInv, TypeOK
      <4> QED
        BY <2>1, <3>1, <4>1
    <3> QED
      BY <3>2, <3>3
  <2> QED
    BY <2>2, <2>3
<1>9. TypeOK'
  <2>1. added' \in SUBSET State
    BY <1>4, <1>5 DEF IInv, TypeOK
  <2>2. tried' \in 0 .. P /\ (pc' = "inputs" => tried' < P)
    BY <1>1, <1>2
  <2> QED
    BY <1>1, <1>6, <1>8, <2>1, <2>2 DEF IInv, TypeOK
<1>10. WorkIsFrontier'
  <2>1. ToSet(work') \subseteq added'
    BY <1>5, <1>6 DEF IInv, WorkIsFrontier
  <2>2. u' \in added' /\ u' \notin ToSet(work')
    BY <1>1, <1>2, <1>5, <1>6
  <2>3. \A k \in 1 .. tried' : machine'[u'][all_inputs'[k]].to \in added'
    <3> SUFFICES ASSUME NEW k \in 1 .. tried + 1
                 PROVE  machine[u][all_inputs[k]].to \in added'
      BY <1>1
    <3>1. CASE k = tried + 1
      BY <3>1, <1>5 DEF v, input
    <3>2. CASE k # tried + 1
      BY <3>2, <1>1, <1>2, <1>5 DEF IInv, WorkIsFrontier
    <3> QED
      BY <3>1, <3>2
  <2>4. ASSUME NEW s \in Done', NEW a \in Input
        PROVE  machine'[s][a].to \in added'
    <3>1. s \in added /\ s \notin ToSet(work)
      BY <1>6, <2>1 DEF Done
    <3>2. CASE s # u
      <4>1. s \in Done
        BY <3>1, <3>2 DEF Done
      <4> QED
        BY <1>1, <1>5, <4>1 DEF IInv, WorkIsFrontier
    <3>3. CASE s = u
      <4>1. tried + 1 = P
        BY <1>1, <3>3 DEF Done
      <4>2. PICK k \in 1 .. P : all_inputs[k] = a
        BY DEF IInv, TypeOK, Orders
      <4>3. k \in 1 .. tried'
        BY <1>1, <1>2, <4>1
      <4> QED
        BY <1>1, <2>3, <3>3, <4>2, <4>3
    <3> QED
      BY <3>2, <3>3
  <2>5. \A i, j \in DOMAIN work' : work'[i] = work'[j] => i = j
    BY <1>6
  <2>6. \A s \in Done', a \in Input : machine'[s][a].to \in added'
    BY <2>4
  <2> QED
    BY <2>1, <2>2, <2>3, <2>5, <2>6, Zenon DEF WorkIsFrontier
<1>11. WordsLeadThere'
  <2>1. \A s \in added : applyWord(machine, start, words[s]).to = s
    BY DEF IInv, WordsLeadThere
  <2>2. ASSUME NEW s \in added'
        PROVE  applyWord(machine, start, words'[s]).to = s
    <3>1. CASE s \in added
      BY <1>8, <2>1, <3>1
    <3>2. CASE s \notin added
      <4>1. s = v /\ words'[s] = Append(words[u], input)
        BY <1>5, <1>8, <2>2, <3>2
      <4> QED
        BY <1>7, <4>1
    <3> QED
      BY <3>1, <3>2
  <2> QED
    BY <1>1, <2>2 DEF WordsLeadThere
<1>12. WordsFormTree'
  <2>1. start \in added
    BY DEF IInv, OnlyReachable
  <2>2. words'[start] = <<>>
    BY <1>8, <2>1 DEF IInv, WordsFormTree
  <2>3. ASSUME NEW s \in added' \ {start}
        PROVE  \E t \in added' \ ToSet(work') : \E a \in Input :
                 words'[s] = Append(words'[t], a)
    <3>1. CASE s \in added
      <4>1. PICK t \in added \ ToSet(work), a \in Input :
              words[s] = Append(words[t], a)
        BY <2>3, <3>1 DEF IInv, WordsFormTree
      <4>2. t \in added' \ ToSet(work') /\ words'[t] = words[t] /\ words'[s] = words[s]
        BY <1>5, <1>6, <1>8, <3>1
      <4> QED
        BY <4>1, <4>2
    <3>2. CASE s \notin added
      <4>1. s = v /\ words'[s] = Append(words[u], input)
        BY <1>5, <1>8, <2>3, <3>2
      <4>2. u \in added' \ ToSet(work') /\ words'[u] = words[u]
        BY <1>2, <1>5, <1>6, <1>8
      <4> QED
        BY <1>3, <4>1, <4>2
    <3> QED
      BY <3>1, <3>2
  <2> QED
    BY <2>2, <2>3 DEF WordsFormTree
<1>13. OnlyReachable'
  <2>1. v \in Reachable
    BY <1>2, <1>3, <1>4 DEF IInv, OnlyReachable, Reachable, Closed, v
  <2>2. Reachable' = Reachable
    BY <1>1 DEF Reachable, Closed
  <2> QED
    BY <1>5, <2>1, <2>2 DEF IInv, OnlyReachable
<1>14. NothingLeft'
  BY <1>1 DEF NothingLeft
<1> QED
  BY <1>9, <1>10, <1>11, <1>12, <1>13, <1>14 DEF IInv

(* The end of the search finds the list empty.                             *)
LEMMA FinishPreserves == IInv /\ Finish => IInv'
<1> SUFFICES ASSUME IInv, Finish PROVE IInv'
  OBVIOUS
<1>1. /\ UNCHANGED <<machine, opt, added, words, all_inputs, work, u, tried>>
      /\ pc = "pop" /\ pc' = "returned" /\ work = <<>>
  BY DEF Finish
<1>2. TypeOK'
  BY <1>1 DEF IInv, TypeOK
<1>3. WorkIsFrontier'
  <2>1. Done' = Done
    BY <1>1 DEF Done
  <2> QED
    BY <1>1, <2>1 DEF IInv, WorkIsFrontier
<1>4. WordsLeadThere' /\ WordsFormTree'
  BY <1>1 DEF IInv, WordsLeadThere, WordsFormTree
<1>5. OnlyReachable' /\ NothingLeft'
  BY <1>1 DEF IInv, OnlyReachable, NothingLeft, Reachable, Closed
<1> QED
  BY <1>2, <1>3, <1>4, <1>5 DEF IInv

(* All that holds while the search runs: the invariant is inductive.       *)
THEOREM Invariance == Spec => []IInv
<1>1. Init => IInv
  BY InitEstablishes
<1>2. IInv /\ [Next]_vars => IInv'
  <2> SUFFICES ASSUME IInv, [Next]_vars PROVE IInv'
    OBVIOUS
  <2>1. CASE Pop
    BY <2>1, PopPreserves
  <2>2. CASE TryInput
    BY <2>2, TryInputPreserves
  <2>3. CASE Finish
    BY <2>3, FinishPreserves
  <2>4. CASE UNCHANGED vars
    BY <2>4 DEF vars, IInv, TypeOK, WorkIsFrontier, WordsLeadThere,
      WordsFormTree, OnlyReachable, NothingLeft, Done, Reachable, Closed
  <2> QED
    BY <2>1, <2>2, <2>3, <2>4 DEF Next
<1> QED
  BY <1>1, <1>2, PTL DEF Spec

(* The word of a state leads to it.                                        *)
THEOREM WordsAreRight == Spec => []WordsLeadThere
<1>1. IInv => WordsLeadThere
  BY DEF IInv
<1> QED
  BY <1>1, Invariance, PTL

(* The words form a tree.                                                  *)
THEOREM WordsMakeATree == Spec => []WordsFormTree
<1>1. IInv => WordsFormTree
  BY DEF IInv
<1> QED
  BY <1>1, Invariance, PTL

(* When the function returns, the states that have a word are those that   *)
(* can be reached: nothing is left in the list, so the states with a word  *)
(* are closed under all inputs.                                            *)
THEOREM CoversReachable == Spec => []EveryStateHasWord
<1>1. IInv => EveryStateHasWord
  <2> SUFFICES ASSUME IInv, pc = "returned" PROVE added = Reachable
    BY DEF EveryStateHasWord
  <2>1. Done = added
    BY DEF IInv, NothingLeft, Done, ToSet
  <2>2. Closed(added)
    BY <2>1 DEF IInv, OnlyReachable, WorkIsFrontier, Closed
  <2>3. added \in SUBSET State
    BY DEF IInv, TypeOK
  <2> QED
    BY <2>2, <2>3 DEF IInv, OnlyReachable, Reachable
<1> QED
  BY <1>1, Invariance, PTL

-----------------------------------------------------------------------------
(* Least words.                                                            *)

(* The order in which words are found when the list is a queue: by length, *)
(* and by the order of the alphabet if the inputs are not shuffled.        *)
Earlier(x, y) ==
  \/ Len(x) < Len(y)
  \/ Len(x) = Len(y) /\ ~ opt.randomized /\ Before(x, y)

(* The word that is looked at next.                                        *)
Searching == pc = "inputs" \/ (pc = "pop" /\ work # <<>>)
NextWord  == IF pc = "inputs" THEN Append(words[u], tried)
                              ELSE Append(words[work[1]], 0)

(* The queue is in the order of the words; no word that was found comes    *)
(* after the next one, and all earlier ones have been looked at.           *)
QueueOrdered ==
  /\ \A j, k \in DOMAIN work : j < k => ~ Earlier(words[work[k]], words[work[j]])
  /\ pc = "inputs" => \A k \in DOMAIN work : ~ Earlier(words[work[k]], words[u])

NoneLater == Searching => \A s \in added : ~ Earlier(NextWord, words[s])

EarlierFound ==
  Searching => \A w \in Word :
    Earlier(w, NextWord) => applyWord(machine, start, w).to \in added

LInv ==
  /\ opt \in Options
  /\ ~ opt.randomized => all_inputs = InOrder
  /\ opt.q_max = 0 => QueueOrdered /\ NoneLater /\ EarlierFound
  /\ WordsAreLeast

(* The order of words of the same length is a strict and total order.      *)
LEMMA BeforeLaws ==
  ASSUME NEW x \in Word, NEW y \in Word, NEW z \in Word,
         Len(x) = Len(y), Len(y) = Len(z)
  PROVE  /\ ~ Before(x, x)
         /\ Before(x, y) /\ Before(y, z) => Before(x, z)
         /\ x = y \/ Before(x, y) \/ Before(y, x)
<1>1. /\ Len(x) \in Nat
      /\ x \in [1 .. Len(x) -> Input]
      /\ y \in [1 .. Len(x) -> Input]
      /\ z \in [1 .. Len(x) -> Input]
  BY DEF Word
<1>2. /\ \A k \in 1 .. Len(x) : x[k] \in Int /\ y[k] \in Int /\ z[k] \in Int
      /\ DOMAIN x = 1 .. Len(x) /\ DOMAIN y = 1 .. Len(x)
  BY <1>1 DEF Input
<1>3. ~ Before(x, x)
  BY <1>2 DEF Before
<1>4. ASSUME Before(x, y), Before(y, z) PROVE Before(x, z)
  <2>1. PICK k \in 1 .. Len(x) : x[k] < y[k] /\ \A j \in 1 .. k - 1 : x[j] = y[j]
    BY <1>2, <1>4 DEF Before
  <2>2. PICK l \in 1 .. Len(x) : y[l] < z[l] /\ \A j \in 1 .. l - 1 : y[j] = z[j]
    BY <1>2, <1>4 DEF Before
  <2>3. CASE k <= l
    <3>1. x[k] < z[k]
      BY <1>1, <1>2, <2>1, <2>2, <2>3
    <3>2. \A j \in 1 .. k - 1 : x[j] = z[j]
      BY <2>1, <2>2, <2>3
    <3> QED
      BY <1>2, <3>1, <3>2 DEF Before
  <2>4. CASE l < k
    <3>1. x[l] < z[l]
      BY <1>1, <1>2, <2>1, <2>2, <2>4
    <3>2. \A j \in 1 .. l - 1 : x[j] = z[j]
      BY <2>1, <2>2, <2>4
    <3> QED
      BY <1>2, <3>1, <3>2 DEF Before
  <2> QED
    BY <1>1, <2>3, <2>4
<1>5. ASSUME x # y PROVE Before(x, y) \/ Before(y, x)
  <2> DEFINE D == {k \in 1 .. Len(x) : x[k] # y[k]}
  <2>1. D # {} /\ D \subseteq Nat
    BY <1>1, <1>5
  <2> HIDE DEF D
  <2>2. PICK k \in D : \A j \in D : ~ (j < k)
    BY <2>1, NatMin
  <2>3. k \in 1 .. Len(x) /\ x[k] # y[k]
    BY DEF D
  <2>4. \A j \in 1 .. k - 1 : x[j] = y[j]
    BY <1>1, <2>2, <2>3 DEF D
  <2>5. x[k] < y[k] \/ y[k] < x[k]
    BY <1>2, <2>3
  <2> QED
    BY <1>2, <2>3, <2>4, <2>5 DEF Before
<1> QED
  BY <1>3, <1>4, <1>5

(* Earlier is a strict order, and so is its negation, but for equals.      *)
LEMMA EarlierLaws ==
  ASSUME NEW x \in Word, NEW y \in Word, NEW z \in Word
  PROVE  /\ ~ Earlier(x, x)
         /\ Earlier(x, y) /\ Earlier(y, z) => Earlier(x, z)
         /\ ~ Earlier(x, y) /\ ~ Earlier(y, z) => ~ Earlier(x, z)
<1>1. Len(x) \in Nat /\ Len(y) \in Nat /\ Len(z) \in Nat
  BY DEF Word
<1>2. ~ Earlier(x, x)
  BY <1>1, BeforeLaws DEF Earlier
<1>3. ASSUME Earlier(x, y), Earlier(y, z) PROVE Earlier(x, z)
  BY <1>1, <1>3, BeforeLaws DEF Earlier
<1>4. ASSUME ~ Earlier(x, y), ~ Earlier(y, z), Earlier(x, z) PROVE FALSE
  <2>1. Len(x) = Len(y) /\ Len(y) = Len(z)
    BY <1>1, <1>4 DEF Earlier
  <2>2. ~ opt.randomized /\ Before(x, z) /\ ~ Before(x, y) /\ ~ Before(y, z)
    BY <1>1, <1>4, <2>1 DEF Earlier
  <2>3. x = y \/ Before(y, x)
    BY <2>1, <2>2, BeforeLaws
  <2>4. Before(y, z)
    BY <2>1, <2>2, <2>3, BeforeLaws
  <2> QED
    BY <2>2, <2>4
<1> QED
  BY <1>2, <1>3, <1>4

(* With one symbol more, the order is that of the shorter words, or that   *)
(* of the symbols.                                                         *)
LEMMA BeforeSnoc ==
  ASSUME NEW x \in Word, NEW y \in Word, NEW a \in Input, NEW b \in Input,
         Len(x) = Len(y)
  PROVE  Before(Append(x, a), Append(y, b)) <=> Before(x, y) \/ (x = y /\ a < b)
<1> DEFINE n == Len(x)
           xa == Append(x, a)
           yb == Append(y, b)
<1>1. /\ n \in Nat /\ xa[n + 1] = a /\ yb[n + 1] = b
      /\ \A k \in 1 .. n : xa[k] = x[k] /\ yb[k] = y[k]
      /\ DOMAIN xa = 1 .. n + 1 /\ DOMAIN x = 1 .. n
      /\ x \in [1 .. n -> Input] /\ y \in [1 .. n -> Input]
  BY DEF Word
<1> HIDE DEF xa, yb, n
<1>2. ASSUME Before(xa, yb) PROVE Before(x, y) \/ (x = y /\ a < b)
  <2>1. PICK k \in 1 .. n + 1 : xa[k] < yb[k] /\ \A j \in 1 .. k - 1 : xa[j] = yb[j]
    BY <1>1, <1>2 DEF Before
  <2>2. CASE k = n + 1
    BY <1>1, <2>1, <2>2
  <2>3. CASE k # n + 1
    <3>1. k \in 1 .. n
      BY <1>1, <2>3
    <3>2. x[k] < y[k] /\ \A j \in 1 .. k - 1 : x[j] = y[j]
      BY <1>1, <2>1, <3>1
    <3> QED
      BY <1>1, <3>1, <3>2 DEF Before
  <2> QED
    BY <2>2, <2>3
<1>3. ASSUME Before(x, y) PROVE Before(xa, yb)
  <2>1. PICK k \in 1 .. n : x[k] < y[k] /\ \A j \in 1 .. k - 1 : x[j] = y[j]
    BY <1>1, <1>3 DEF Before
  <2>2. xa[k] < yb[k] /\ \A j \in 1 .. k - 1 : xa[j] = yb[j]
    BY <1>1, <2>1
  <2>3. k \in DOMAIN xa
    BY <1>1
  <2> QED
    BY <2>2, <2>3 DEF Before
<1>4. ASSUME x = y, a < b PROVE Before(xa, yb)
  <2>1. xa[n + 1] < yb[n + 1] /\ \A j \in 1 .. (n + 1) - 1 : xa[j] = yb[j]
    BY <1>1, <1>4
  <2>2. n + 1 \in DOMAIN xa
    BY <1>1
  <2> QED
    BY <2>1, <2>2 DEF Before
<1> QED
  BY <1>2, <1>3, <1>4 DEF xa, yb

(* The search begins with the empty word.                                  *)
LEMMA InitLeast == Init => LInv
<1> SUFFICES ASSUME Init PROVE LInv
  OBVIOUS
<1>1. /\ machine \in Machine /\ added = {start} /\ words[start] = <<>>
      /\ work = <<start>> /\ pc = "pop" /\ start \in State
      /\ all_inputs = InOrder /\ opt \in Options
  BY StartAssumption, MachinesAssumption DEF Init
<1>2. /\ <<>> \in Word /\ Len(<<>>) = 0 /\ 0 \in Input
      /\ \A w \in Word : Len(w) = 0 => w = <<>>
  BY SizesAssumption DEF Word, Input
<1>3. applyWord(machine, start, <<>>).to = start
  BY <1>1, InitEstablishes DEF IInv, WordsLeadThere
<1>4. NextWord = Append(<<>>, 0) /\ Len(NextWord) = 1 /\ NextWord \in Word
  <2>1. words[work[1]] = <<>>
    BY <1>1
  <2>2. NextWord = Append(<<>>, 0)
    BY <1>1, <2>1 DEF NextWord
  <2>3. Append(<<>>, 0) \in Seq(Input) /\ Len(Append(<<>>, 0)) = 0 + 1
    BY <1>2, AppendProperties DEF Word
  <2> QED
    BY <2>2, <2>3 DEF Word
<1>5. QueueOrdered
  BY <1>1 DEF QueueOrdered
<1>6. NoneLater
  BY <1>1, <1>2, <1>4 DEF NoneLater, Earlier
<1>7. EarlierFound
  <2> SUFFICES ASSUME NEW w \in Word, Earlier(w, NextWord)
               PROVE  w = <<>>
    BY <1>1, <1>3 DEF EarlierFound
  <2> SUFFICES ASSUME w # <<>> PROVE FALSE
    OBVIOUS
  <2>1. PICK y \in Word, a \in Input : w = Append(y, a)
    BY SequenceEmptyOrAppend DEF Word
  <2>2. Len(w) = Len(y) + 1 /\ Len(y) \in Nat
    BY <2>1 DEF Word
  <2>3. Len(y) = 0 /\ Before(w, NextWord)
    BY <1>4, <2>2 DEF Earlier
  <2>4. Before(y, <<>>) \/ a < 0
    BY <1>2, <1>4, <2>1, <2>3, BeforeSnoc
  <2>5. ~ Before(y, <<>>)
    BY <1>2, <2>3, BeforeLaws
  <2> QED
    BY <2>4, <2>5 DEF Input
<1>8. WordsAreLeast
  BY <1>1, <1>2 DEF WordsAreLeast, Before
<1> QED
  BY <1>1, <1>5, <1>6, <1>7, <1>8 DEF LInv

(* With [0,0] the state in front is taken.                                 *)
LEMMA FrontPlace ==
  ASSUME opt \in Options, opt.q_max = 0, work \in Seq(State), work # <<>>
  PROVE  Places = {1}
<1>1. opt.q_min = 0
  BY OptionsAssumption DEF transfer_options
<1>2. Len(work) \in Nat \ {0}
  OBVIOUS
<1>3. Len(work) * 0 = 0
  BY <1>2
<1>4. Len(work) * opt.q_min .. Len(work) * opt.q_max = {0}
  BY <1>1, <1>3
<1>5. clamp(0, 0, Len(work) - 1) = 0
  <2>1. PICK n \in Nat : n = Len(work) - 1
    BY <1>2
  <2>2. clamp(0, 0, n) = 0
    BY DEF clamp
  <2> QED
    BY <2>1, <2>2
<1> QED
  BY <1>4, <1>5 DEF Places

(* Taking the state in front leaves the next word what it was.             *)
LEMMA PopLeast == IInv /\ LInv /\ Pop => LInv'
<1> SUFFICES ASSUME IInv, LInv, Pop PROVE LInv'
  OBVIOUS
<1>1. /\ UNCHANGED <<machine, opt, added, words>> /\ pc = "pop" /\ work # <<>>
      /\ pc' = "inputs" /\ tried' = 0 /\ work \in Seq(State)
  BY DEF Pop, IInv, TypeOK
<1>2. opt' \in Options /\ (~ opt'.randomized => all_inputs' = InOrder)
  BY <1>1 DEF Pop, NextOrder, LInv
<1>3. WordsAreLeast'
  BY <1>1 DEF LInv, WordsAreLeast, Before
<1>4. ASSUME opt.q_max = 0 PROVE QueueOrdered' /\ NoneLater' /\ EarlierFound'
  <2>1. u' = work[1] /\ work' = Erase(1)
    BY <1>1, <1>4, FrontPlace DEF Pop, LInv
  <2>2. 1 \in 1 .. Len(work) /\ DOMAIN work = 1 .. Len(work) /\ Len(work) \in Nat
    BY <1>1
  <2>3. /\ DOMAIN work' = 1 .. Len(work) - 1
        /\ \A j \in DOMAIN work' : work'[j] = work[j + 1]
    BY <1>1, <2>1, <2>2, ErasePlace
  <2>5. QueueOrdered /\ NoneLater /\ EarlierFound
    BY <1>4 DEF LInv
  <2>6. \A j, k \in DOMAIN work' : j < k => ~ Earlier(words[work'[k]], words[work'[j]])
    <3> TAKE j, k \in DOMAIN work'
    <3>1. j + 1 \in DOMAIN work /\ k + 1 \in DOMAIN work
      BY <2>2, <2>3
    <3>2. j \in Int /\ k \in Int
      BY <2>3
    <3> QED
      BY <2>3, <2>5, <3>1, <3>2 DEF QueueOrdered
  <2>7. \A k \in DOMAIN work' : ~ Earlier(words[work'[k]], words[u'])
    <3> TAKE k \in DOMAIN work'
    <3>1. k + 1 \in DOMAIN work /\ 1 \in DOMAIN work /\ 1 < k + 1
      BY <2>2, <2>3
    <3> QED
      BY <2>1, <2>3, <2>5, <3>1 DEF QueueOrdered
  <2>8. QueueOrdered'
    BY <1>1, <2>6, <2>7 DEF QueueOrdered, Earlier, Before
  <2>9. NextWord' = NextWord /\ Searching
    BY <1>1, <2>1 DEF NextWord, Searching
  <2>10. NoneLater' /\ EarlierFound'
    BY <1>1, <2>5, <2>9 DEF NoneLater, EarlierFound, Earlier, Before
  <2> QED
    BY <2>8, <2>10
<1> QED
  BY <1>1, <1>2, <1>3, <1>4 DEF LInv

(* The word of a state that is met is the next word: it is not earlier, it *)
(* is not later, and without shuffling it is that word.                    *)
LEMMA TryInputFacts ==
  ASSUME IInv, LInv, TryInput
  PROVE  /\ UNCHANGED <<machine, opt, all_inputs, u>> /\ tried' = tried + 1
         /\ pc = "inputs" /\ pc' = IF tried + 1 = P THEN "pop" ELSE "inputs"
         /\ u \in added /\ u \notin ToSet(work') /\ words[u] \in Word
         /\ words'[u] = words[u]
         /\ tried \in Input /\ input \in Input
         /\ NextWord = Append(words[u], tried) /\ NextWord \in Word
         /\ Len(NextWord) = Len(words[u]) + 1
         /\ Append(words[u], input) \in Word
         /\ Len(Append(words[u], input)) = Len(words[u]) + 1
         /\ ~ opt.randomized => Append(words[u], input) = NextWord
         /\ applyWord(machine, start, Append(words[u], input)).to = v
         /\ added' = added \cup {v}
         /\ \A s \in added : words'[s] = words[s]
         /\ v \notin added => /\ words'[v] = Append(words[u], input)
                            /\ work' = Append(work, v)
         /\ v \in added => work' = work
         /\ \A s \in added' : words'[s] \in Word
<1>1. /\ UNCHANGED <<machine, opt, all_inputs, u>> /\ tried' = tried + 1
      /\ pc = "inputs" /\ pc' = IF tried + 1 = P THEN "pop" ELSE "inputs"
  BY DEF TryInput, IsLast
<1>2. /\ u \in added /\ u \notin ToSet(work) /\ words \in [State -> Word]
      /\ u \in State /\ machine \in Machine /\ added \subseteq State
      /\ all_inputs \in Orders /\ work \in Seq(State)
      /\ tried \in 0 .. P /\ tried < P
  BY <1>1 DEF IInv, TypeOK, WorkIsFrontier
<1>3. tried \in Input /\ tried + 1 \in 1 .. P /\ P \in Nat
  BY <1>2, SizesAssumption DEF Input
<1>4. input \in Input /\ (~ opt.randomized => input = tried)
  <2>1. input \in Input
    BY <1>2, <1>3 DEF input, Orders
  <2>2. ~ opt.randomized => input = InOrder[tried + 1]
    BY DEF LInv, input
  <2>3. InOrder[tried + 1] = tried
    BY <1>3 DEF InOrder, Input
  <2> QED
    BY <2>1, <2>2, <2>3
<1>5. v \in State
  BY <1>2, <1>4 DEF v, Machine, Edge
<1>6. words[u] \in Word
  BY <1>2
<1>7. /\ Append(words[u], input) \in Word
      /\ Len(Append(words[u], input)) = Len(words[u]) + 1
      /\ Append(words[u], tried) \in Word
      /\ Len(Append(words[u], tried)) = Len(words[u]) + 1
  BY <1>3, <1>4, <1>6, AppendProperties DEF Word
<1>8. NextWord = Append(words[u], tried)
  BY <1>1 DEF NextWord
<1>9. applyWord(machine, start, Append(words[u], input)).to = v
  <2>1. applyWord(machine, start, words[u]).to = u
    BY <1>2 DEF IInv, WordsLeadThere
  <2> QED
    BY <1>2, <1>4, <1>6, <2>1, ApplySnoc, StartAssumption DEF v
<1>10. /\ added' = added \cup {v}
       /\ v \in added => words' = words /\ work' = work
       /\ v \notin added => /\ words' = [words EXCEPT ![v] = Append(words[u], input)]
                          /\ work' = Append(work, v)
  BY DEF TryInput, Extended
<1>11. /\ \A s \in added : words'[s] = words[s]
       /\ v \notin added => words'[v] = Append(words[u], input)
       /\ \A s \in State : words'[s] \in Word
  BY <1>2, <1>5, <1>7, <1>10
<1>12. u \notin ToSet(work')
  <2>1. CASE v \in added
    BY <1>2, <1>10, <2>1
  <2>2. CASE v \notin added
    <3>1. v \notin ToSet(work)
      BY <2>2 DEF IInv, WorkIsFrontier
    <3>2. ToSet(work') = ToSet(work) \cup {v}
      BY <1>2, <1>5, <1>10, <2>2, <3>1, PushOne DEF IInv, WorkIsFrontier
    <3> QED
      BY <1>2, <2>2, <3>2
  <2> QED
    BY <2>1, <2>2
<1> QED
  BY <1>1, <1>2, <1>3, <1>4, <1>5, <1>6, <1>7, <1>8, <1>9, <1>10, <1>11, <1>12

(* Trying an input with [0,0]: what is true of the words and of the list   *)
(* after it, in terms of the word that was looked at.                      *)
LEMMA TryInputOrder ==
  ASSUME IInv, LInv, IInv', TryInput, opt.q_max = 0
  PROVE  /\ WordsAreLeast'
         /\ \A j, k \in DOMAIN work' :
              j < k => ~ Earlier(words'[work'[k]], words'[work'[j]])
         /\ \A k \in DOMAIN work' : ~ Earlier(words'[work'[k]], words[u])
         /\ \A x \in added' : ~ Earlier(NextWord, words'[x])
         /\ \A w \in Word :
              Earlier(w, NextWord) \/ (~ opt.randomized /\ w = NextWord)
                => applyWord(machine, start, w).to \in added'
<1> DEFINE nw == Append(words[u], input)
           nx == NextWord
<1>1. /\ UNCHANGED <<machine, opt, all_inputs, u>> /\ pc = "inputs"
      /\ u \in added /\ words[u] \in Word
      /\ nx \in Word /\ Len(nx) = Len(words[u]) + 1
      /\ nw \in Word /\ Len(nw) = Len(words[u]) + 1
      /\ ~ opt.randomized => nw = nx
      /\ applyWord(machine, start, nw).to = v
      /\ added' = added \cup {v}
      /\ \A s \in added : words'[s] = words[s]
      /\ v \notin added => words'[v] = nw /\ work' = Append(work, v)
      /\ v \in added => work' = work
      /\ \A s \in added' : words'[s] \in Word
  BY TryInputFacts
<1>2. /\ QueueOrdered /\ NoneLater /\ EarlierFound /\ WordsAreLeast
      /\ work \in Seq(State) /\ ToSet(work) \subseteq added
  BY DEF LInv, IInv, TypeOK, WorkIsFrontier
<1> HIDE DEF nw, nx
<1>3. Len(words[u]) \in Nat /\ Len(nw) \in Nat /\ Len(nx) \in Nat
  BY <1>1 DEF Word
<1>4. ~ Earlier(nw, nx) /\ ~ Earlier(nx, nw)
  <2>1. CASE opt.randomized
    BY <1>1, <1>3, <2>1 DEF Earlier
  <2>2. CASE ~ opt.randomized
    BY <1>1, <2>2, EarlierLaws
  <2> QED
    BY <2>1, <2>2
<1>5. \A x \in added : ~ Earlier(nx, words'[x])
  BY <1>1, <1>2 DEF NoneLater, Searching, nx
<1>6. ASSUME NEW x \in added' PROVE ~ Earlier(nx, words'[x])
  BY <1>1, <1>4, <1>5
<1>7. ASSUME NEW w \in Word, Earlier(w, nx)
      PROVE  applyWord(machine, start, w).to \in added
  BY <1>1, <1>2, <1>7 DEF EarlierFound, Searching, nx
<1>8. ASSUME NEW w \in Word, ~ opt.randomized, w = nx
      PROVE  applyWord(machine, start, w).to \in added'
  BY <1>1, <1>8
<1>9. \A k \in DOMAIN work : work[k] \in added /\ words'[work[k]] = words[work[k]]
  BY <1>1, <1>2 DEF ToSet
<1>10. ASSUME NEW j \in DOMAIN work', NEW k \in DOMAIN work', j < k
       PROVE  ~ Earlier(words'[work'[k]], words'[work'[j]])
  <2>1. CASE v \in added
    BY <1>1, <1>2, <1>9, <1>10, <2>1 DEF QueueOrdered
  <2>2. CASE v \notin added
    <3>1. /\ DOMAIN work = 1 .. Len(work) /\ DOMAIN work' = 1 .. Len(work) + 1
          /\ Len(work) \in Nat /\ work'[Len(work) + 1] = v
          /\ \A i \in 1 .. Len(work) : work'[i] = work[i]
      <4>1. v \in State
        BY <1>1 DEF IInv, TypeOK
      <4>2. work' = Append(work, v)
        BY <1>1, <2>2
      <4> QED
        BY <1>2, <4>1, <4>2
    <3>2. CASE k \in 1 .. Len(work)
      <4>1. j \in 1 .. Len(work)
        BY <1>10, <3>1, <3>2
      <4> QED
        BY <1>2, <1>9, <1>10, <3>1, <3>2, <4>1 DEF QueueOrdered
    <3>3. CASE k = Len(work) + 1
      <4>1. j \in 1 .. Len(work)
        BY <1>10, <3>1, <3>3
      <4>2. work'[j] \in added
        BY <1>9, <3>1, <4>1
      <4>3. ~ Earlier(nx, words'[work'[j]]) /\ words'[work'[j]] \in Word
        BY <1>1, <1>5, <4>2
      <4>4. words'[work'[k]] = nw
        BY <1>1, <2>2, <3>1, <3>3
      <4> QED
        BY <1>1, <1>4, <4>3, <4>4, EarlierLaws
    <3> QED
      BY <3>1, <3>2, <3>3
  <2> QED
    BY <2>1, <2>2
<1>11. ASSUME NEW k \in DOMAIN work' PROVE ~ Earlier(words'[work'[k]], words[u])
  <2>1. \A i \in DOMAIN work : ~ Earlier(words'[work[i]], words[u])
    BY <1>1, <1>2, <1>9 DEF QueueOrdered
  <2>2. ~ Earlier(nw, words[u])
    BY <1>1, <1>3 DEF Earlier
  <2>3. \/ k \in DOMAIN work /\ work'[k] = work[k]
        \/ v \notin added /\ work'[k] = v
    <3>1. CASE v \in added
      <4>1. work' = work
        BY <1>1, <3>1
      <4> QED
        BY <4>1
    <3>2. CASE v \notin added
      <4>1. v \in State /\ work' = Append(work, v)
        BY <1>1, <3>2 DEF IInv, TypeOK
      <4>2. PICK a : a = v
        OBVIOUS
      <4>3. /\ DOMAIN Append(work, a) = 1 .. Len(work) + 1
            /\ Append(work, a)[Len(work) + 1] = a
            /\ \A i \in 1 .. Len(work) : Append(work, a)[i] = work[i]
            /\ DOMAIN work = 1 .. Len(work) /\ Len(work) \in Nat
        BY <1>2, <4>1, <4>2
      <4>4. k = Len(work) + 1 => work'[k] = v
        BY <4>1, <4>2, <4>3
      <4>5. k # Len(work) + 1 => k \in DOMAIN work /\ work'[k] = work[k]
        BY <4>1, <4>2, <4>3
      <4> QED
        BY <3>2, <4>4, <4>5
    <3> QED
      BY <3>1, <3>2
  <2> QED
    BY <1>1, <2>1, <2>2, <2>3
<1>12. WordsAreLeast'
  <2> SUFFICES ASSUME NEW s \in added', NEW n \in 0 .. Len(words'[s]),
                      NEW w \in [1 .. n -> Input],
                      applyWord(machine, start, w).to = s
               PROVE  /\ n = Len(words'[s])
                      /\ ~ opt.randomized => ~ Before(w, words'[s])
    BY <1>1 DEF WordsAreLeast, Before
  <2>1. CASE s \in added
    BY <1>1, <1>2, <2>1 DEF WordsAreLeast
  <2>2. CASE s \notin added
    <3>1. s = v /\ words'[s] = nw
      BY <1>1, <2>2
    <3>2. w \in Word /\ Len(w) = n /\ n \in Nat
      <4>1. n \in Nat
        BY <1>1, <1>3, <3>1
      <4> QED
        BY <4>1 DEF Word
    <3>3. ~ Earlier(w, nx)
      BY <1>7, <2>2, <3>2
    <3>4. n = Len(nw)
      BY <1>1, <1>3, <3>1, <3>2, <3>3 DEF Earlier
    <3>5. ~ opt.randomized => ~ Before(w, nw)
      BY <1>1, <3>2, <3>3, <3>4 DEF Earlier
    <3> QED
      BY <3>1, <3>4, <3>5
  <2> QED
    BY <2>1, <2>2
<1>13. \A w \in Word :
         Earlier(w, nx) \/ (~ opt.randomized /\ w = nx)
           => applyWord(machine, start, w).to \in added'
  BY <1>1, <1>7, <1>8
<1> QED
  BY <1>6, <1>10, <1>11, <1>12, <1>13 DEF nx
(* The next input of the same state comes next in the order.               *)
LEMMA NextInputLeast ==
  ASSUME IInv, LInv, IInv', TryInput, opt.q_max = 0, pc' = "inputs"
  PROVE  NoneLater' /\ EarlierFound'
<1> DEFINE nx == NextWord
           nn == Append(words[u], tried + 1)
<1>1. /\ UNCHANGED <<machine, opt, u>> /\ tried' = tried + 1
      /\ words[u] \in Word /\ words'[u] = words[u]
      /\ tried \in Input /\ nx \in Word /\ Len(nx) = Len(words[u]) + 1
      /\ nx = Append(words[u], tried)
      /\ \A s \in added' : words'[s] \in Word
  BY TryInputFacts
<1>2. tried + 1 \in Input /\ tried \in Nat
  <2>1. tried' < P /\ tried' \in 0 .. P /\ P \in Nat
    BY SizesAssumption DEF IInv, TypeOK
  <2> QED
    BY <1>1, <2>1 DEF Input
<1>3. nn \in Word /\ Len(nn) = Len(words[u]) + 1
  BY <1>1, <1>2, AppendProperties DEF Word
<1>4. NextWord' = nn
  BY <1>1 DEF NextWord
<1>5. Len(words[u]) \in Nat
  BY <1>1 DEF Word
<1>6. ~ Earlier(nn, nx)
  <2>1. ~ Before(words[u], words[u])
    BY <1>1, BeforeLaws
  <2>2. ~ Before(nn, nx)
    BY <1>1, <1>2, <2>1, BeforeSnoc
  <2> QED
    BY <1>1, <1>3, <1>5, <2>2 DEF Earlier
<1>7. ASSUME NEW w \in Word, Earlier(w, nn)
      PROVE  Earlier(w, nx) \/ (~ opt.randomized /\ w = nx)
  <2>1. CASE Len(w) < Len(nn)
    BY <1>1, <1>3, <2>1 DEF Earlier
  <2>2. CASE Len(w) = Len(nn) /\ ~ opt.randomized /\ Before(w, nn)
    <3>1. w # <<>>
      BY <1>3, <1>5, <2>2
    <3>2. PICK y \in Word, b \in Input : w = Append(y, b) /\ Len(w) = Len(y) + 1
      BY <3>1, SnocForm
    <3>3. Len(y) = Len(words[u])
      BY <1>3, <1>5, <2>2, <3>2 DEF Word
    <3>4. Before(y, words[u]) \/ (y = words[u] /\ b < tried + 1)
      BY <1>1, <1>2, <2>2, <3>2, <3>3, BeforeSnoc
    <3>5. CASE y = words[u] /\ b = tried
      BY <1>1, <2>2, <3>2, <3>5
    <3>6. CASE Before(y, words[u]) \/ (y = words[u] /\ b < tried)
      <4>1. Before(w, nx)
        BY <1>1, <3>2, <3>3, <3>6, BeforeSnoc
      <4> QED
        BY <1>1, <1>3, <2>2, <4>1 DEF Earlier
    <3>7. b < tried + 1 => b < tried \/ b = tried
      BY <1>2 DEF Input
    <3> QED
      BY <3>4, <3>5, <3>6, <3>7
  <2> QED
    BY <1>7, <2>1, <2>2 DEF Earlier
<1> HIDE DEF nn, nx
<1>8. ASSUME NEW x \in added' PROVE ~ Earlier(nn, words'[x])
  <2>1. ~ Earlier(nx, words'[x])
    BY TryInputOrder DEF nx
  <2> QED
    BY <1>1, <1>3, <1>6, <2>1, EarlierLaws
<1>9. NoneLater'
  BY <1>1, <1>4, <1>8 DEF NoneLater, Earlier, Before
<1>10. ASSUME NEW w \in Word, Earlier(w, nn)
       PROVE  applyWord(machine, start, w).to \in added'
  BY <1>7, <1>10, TryInputOrder DEF nx
<1>11. EarlierFound'
  BY <1>1, <1>4, <1>10 DEF EarlierFound, Earlier, Before
<1> QED
  BY <1>9, <1>11

(* After the last input, the state in front comes next: a state without a  *)
(* word would be entered from a state that is not in the list, and those   *)
(* have been looked at.                                                    *)
LEMMA NextStateLeast ==
  ASSUME IInv, LInv, IInv', TryInput, opt.q_max = 0, pc' = "pop", work' # <<>>
  PROVE  NoneLater' /\ EarlierFound'
<1> DEFINE nx == NextWord
           c  == work'[1]
           wc == words'[c]
           nn == Append(wc, 0)
<1>1. /\ UNCHANGED <<machine, opt, u>> /\ tried' = tried + 1
      /\ tried + 1 = P
      /\ u \in added /\ u \notin ToSet(work')
      /\ words[u] \in Word /\ words'[u] = words[u]
      /\ tried \in Input /\ nx \in Word /\ Len(nx) = Len(words[u]) + 1
      /\ nx = Append(words[u], tried)
      /\ added' = added \cup {v}
      /\ \A s \in added' : words'[s] \in Word
  BY TryInputFacts
<1>2. /\ work' \in Seq(State) /\ ToSet(work') \subseteq added'
      /\ DOMAIN work' = 1 .. Len(work') /\ Len(work') \in Nat \ {0}
      /\ machine' \in Machine /\ added' \subseteq State
  BY DEF IInv, TypeOK, WorkIsFrontier
<1>3. 1 \in DOMAIN work' /\ c \in ToSet(work') /\ c \in added' /\ c # u
  BY <1>1, <1>2 DEF ToSet
<1>4. wc \in Word /\ 0 \in Input
  BY <1>1, <1>3, SizesAssumption DEF Input
<1>5. nn \in Word /\ Len(nn) = Len(wc) + 1
  BY <1>4, AppendProperties DEF Word
<1>6. NextWord' = nn
  BY DEF NextWord
<1>7. Len(wc) \in Nat /\ Len(words[u]) \in Nat
  BY <1>1, <1>4 DEF Word
<1>8. ~ Earlier(wc, words[u])
  BY <1>3, TryInputOrder
<1>9. wc # words[u]
  <2>1. /\ applyWord(machine', start, words'[c]).to = c
        /\ applyWord(machine', start, words'[u]).to = u
    BY <1>1, <1>3 DEF IInv, WordsLeadThere
  <2> QED
    BY <1>1, <1>3, <2>1
<1>10. ~ Earlier(nn, nx)
  <2> SUFFICES ASSUME Earlier(nn, nx) PROVE FALSE
    OBVIOUS
  <2>1. ~ (Len(wc) < Len(words[u]))
    BY <1>8 DEF Earlier
  <2>2. Len(wc) = Len(words[u]) /\ ~ opt.randomized /\ Before(nn, nx)
    BY <1>1, <1>5, <1>7, <2>1 DEF Earlier
  <2>3. Before(wc, words[u])
    BY <1>1, <1>4, <1>9, <2>2, BeforeSnoc
  <2> QED
    BY <1>8, <2>2, <2>3 DEF Earlier
<1> HIDE DEF nx, nn
<1>11. ASSUME NEW x \in added' PROVE ~ Earlier(nn, words'[x])
  <2>1. ~ Earlier(nx, words'[x])
    BY TryInputOrder DEF nx
  <2> QED
    BY <1>1, <1>5, <1>10, <2>1, EarlierLaws
<1>12. NoneLater'
  BY <1>1, <1>6, <1>11 DEF NoneLater, Earlier, Before
<1>13. ASSUME NEW y \in Word, NEW b \in Input, Earlier(y, wc)
       PROVE  applyWord(machine, start, Append(y, b)).to \in added'
  <2> DEFINE t == applyWord(machine, start, y).to
  <2>1. Earlier(y, nx)
    <3>1. ~ Earlier(nx, wc)
      BY <1>3, TryInputOrder DEF nx
    <3> QED
      BY <1>1, <1>4, <1>13, <3>1, EarlierLaws
  <2>2. t \in added'
    BY <2>1, TryInputOrder DEF nx
  <2>3. ~ Earlier(y, words'[t])
    <3>1. WordsAreLeast' /\ opt' = opt /\ machine' = machine
      BY <1>1, TryInputOrder
    <3>2. y \in [1 .. Len(y) -> Input] /\ Len(y) \in Nat /\ Len(words'[t]) \in Nat
      BY <1>1, <2>2 DEF Word
    <3>3. Len(y) <= Len(words'[t]) =>
            /\ Len(y) = Len(words'[t])
            /\ ~ opt.randomized => ~ Before(y, words'[t])
      <4> SUFFICES ASSUME Len(y) <= Len(words'[t])
                   PROVE  /\ Len(y) = Len(words'[t])
                          /\ ~ opt.randomized => ~ Before(y, words'[t])
        OBVIOUS
      <4>1. Len(y) \in 0 .. Len(words'[t])
        BY <3>2
      <4>2. \A n \in 0 .. Len(words'[t]) : \A w \in [1 .. n -> Input] :
              applyWord(machine, start, w).to = t =>
                /\ n = Len(words'[t])
                /\ ~ opt.randomized => ~ Before(w, words'[t])
        BY <2>2, <3>1 DEF WordsAreLeast, Before
      <4> QED
        BY <3>2, <4>1, <4>2
    <3> QED
      BY <3>2, <3>3 DEF Earlier
  <2> HIDE DEF t
  <2>4. t \notin ToSet(work')
    <3> SUFFICES ASSUME t \in ToSet(work') PROVE FALSE
      OBVIOUS
    <3>1. PICK j \in DOMAIN work' : work'[j] = t
      BY DEF ToSet
    <3>2. ~ Earlier(words'[t], wc)
      <4>1. CASE j = 1
        BY <1>4, <3>1, <4>1, EarlierLaws
      <4>2. CASE j # 1
        <5>1. 1 < j
          BY <1>2, <4>2
        <5> QED
          BY <1>3, <3>1, <5>1, TryInputOrder
      <4> QED
        BY <4>1, <4>2
    <3>3. words'[t] \in Word
      BY <1>1, <2>2
    <3> QED
      BY <1>4, <1>13, <2>3, <3>2, <3>3, EarlierLaws
  <2>5. t \in Done'
    BY <2>2, <2>4 DEF Done
  <2>6. machine'[t][b].to \in added'
    BY <2>5 DEF IInv, WorkIsFrontier
  <2>7. applyWord(machine', start, Append(y, b)) = machine'[t][b]
    BY <1>1, <1>2, ApplySnoc, StartAssumption DEF t
  <2> QED
    BY <1>1, <2>6, <2>7
<1>14. ASSUME NEW w \in Word, Earlier(w, nn)
       PROVE  applyWord(machine, start, w).to \in added'
  <2>1. CASE w = <<>>
    <3>1. start \in added' /\ words'[start] = <<>>
      BY DEF IInv, OnlyReachable, WordsFormTree
    <3>2. applyWord(machine', start, words'[start]).to = start
      BY <3>1 DEF IInv, WordsLeadThere
    <3> QED
      BY <1>1, <2>1, <3>1, <3>2
  <2>2. CASE w # <<>>
    <3>1. PICK y \in Word, b \in Input : w = Append(y, b) /\ Len(w) = Len(y) + 1
      BY <2>2, SnocForm
    <3>2. Len(y) \in Nat
      BY DEF Word
    <3>3. Earlier(y, wc)
      <4>1. CASE Len(w) < Len(nn)
        BY <1>5, <1>7, <3>1, <3>2, <4>1 DEF Earlier
      <4>2. CASE Len(w) = Len(nn) /\ ~ opt.randomized /\ Before(w, nn)
        <5>1. Len(y) = Len(wc)
          BY <1>5, <1>7, <3>1, <3>2, <4>2
        <5>2. Before(y, wc) \/ b < 0
          BY <1>4, <3>1, <4>2, <5>1, BeforeSnoc DEF nn
        <5>3. ~ (b < 0)
          BY DEF Input
        <5> QED
          BY <4>2, <5>1, <5>2, <5>3 DEF Earlier
      <4> QED
        BY <1>14, <4>1, <4>2 DEF Earlier
    <3> QED
      BY <1>13, <3>1, <3>3
  <2> QED
    BY <2>1, <2>2
<1>15. EarlierFound'
  BY <1>1, <1>6, <1>14 DEF EarlierFound, Earlier, Before
<1> QED
  BY <1>12, <1>15

(* Trying an input keeps the order.                                        *)
LEMMA TryInputLeast == IInv /\ LInv /\ IInv' /\ TryInput => LInv'
<1> SUFFICES ASSUME IInv, LInv, IInv', TryInput PROVE LInv'
  OBVIOUS
<1>1. UNCHANGED <<machine, opt, all_inputs, u>> /\ pc' \in {"inputs", "pop"}
  BY TryInputFacts
<1>2. opt' \in Options /\ (~ opt'.randomized => all_inputs' = InOrder)
  BY <1>1 DEF LInv
<1>3. ASSUME opt.q_max = 0
      PROVE  QueueOrdered' /\ NoneLater' /\ EarlierFound' /\ WordsAreLeast'
  <2>1. QueueOrdered'
    <3>1. /\ u' = u /\ opt' = opt /\ words'[u] = words[u]
          /\ \A j, k \in DOMAIN work' :
               j < k => ~ Earlier(words'[work'[k]], words'[work'[j]])
          /\ \A k \in DOMAIN work' : ~ Earlier(words'[work'[k]], words[u])
      BY <1>1, <1>3, TryInputOrder, TryInputFacts
    <3> QED
      BY <3>1 DEF QueueOrdered, Earlier, Before
  <2>2. CASE pc' = "inputs"
    BY <1>3, <2>1, <2>2, NextInputLeast, TryInputOrder
  <2>3. CASE pc' = "pop" /\ work' # <<>>
    BY <1>3, <2>1, <2>3, NextStateLeast, TryInputOrder
  <2>4. CASE pc' = "pop" /\ work' = <<>>
    <3>1. ~ Searching'
      BY <2>4 DEF Searching
    <3> QED
      BY <1>3, <2>1, <3>1, TryInputOrder DEF NoneLater, EarlierFound
  <2> QED
    BY <1>1, <2>2, <2>3, <2>4
<1>4. WordsAreLeast'
  BY <1>1, <1>3 DEF WordsAreLeast
<1> QED
  BY <1>1, <1>2, <1>3, <1>4 DEF LInv

(* The end of the search changes no word.                                  *)
LEMMA FinishLeast == LInv /\ (Finish \/ UNCHANGED vars) => LInv'
<1> SUFFICES ASSUME LInv, Finish \/ UNCHANGED vars PROVE LInv'
  OBVIOUS
<1>1. /\ UNCHANGED <<machine, opt, added, words, all_inputs, work, u, tried>>
      /\ Searching' => Searching /\ pc' = pc
      /\ pc' = "inputs" => pc = "inputs"
  BY DEF Finish, vars, Searching
<1>2. WordsAreLeast' /\ opt' \in Options /\ (~ opt'.randomized => all_inputs' = InOrder)
  BY <1>1 DEF LInv, WordsAreLeast, Before
<1>3. ASSUME opt.q_max = 0 PROVE QueueOrdered' /\ NoneLater' /\ EarlierFound'
  <2>1. QueueOrdered /\ NoneLater /\ EarlierFound
    BY <1>3 DEF LInv
  <2>2. QueueOrdered'
    BY <1>1, <2>1 DEF QueueOrdered, Earlier, Before
  <2>3. ASSUME Searching' PROVE NextWord' = NextWord
    BY <1>1, <2>3 DEF NextWord
  <2>4. NoneLater' /\ EarlierFound'
    BY <1>1, <2>1, <2>3 DEF NoneLater, EarlierFound, Earlier, Before
  <2> QED
    BY <2>2, <2>4
<1> QED
  BY <1>1, <1>2, <1>3 DEF LInv

(* With [0,0] the list is a queue in the order in which words are found.   *)
THEOREM LeastInvariance == Spec => []LInv
<1>1. Init => LInv
  BY InitLeast
<1>2. IInv /\ IInv' /\ LInv /\ [Next]_vars => LInv'
  BY PopLeast, TryInputLeast, FinishLeast DEF Next
<1> QED
  BY <1>1, <1>2, Invariance, PTL DEF Spec

(* The words of [0,0] are as short as any that lead to the same states,    *)
(* and without shuffling they are the least of these in the order of the   *)
(* alphabet: the tests of the options `minimal` and `lexmin` rest on it.   *)
THEOREM WordsAreLeastPossible == Spec => []WordsAreLeast
<1>1. LInv => WordsAreLeast
  BY DEF LInv
<1> QED
  BY <1>1, LeastInvariance, PTL

(* The variables keep their types, and the for loop ends with the inputs;  *)
(* every state is in the list of work at most once, no state whose         *)
(* successors were looked at is left with one that has no word, and the    *)
(* sampled place, clamped as it is, is always a place of the list: the     *)
(* list is never read or erased behind its end.                            *)
THEOREM TransferTypeCorrect ==
  Spec => [](/\ TypeOK
             /\ WorkIsFrontier
             /\ work # <<>> => Places \subseteq DOMAIN work)
<1>1. IInv => /\ TypeOK
              /\ WorkIsFrontier
              /\ work # <<>> => Places \subseteq DOMAIN work
  <2> SUFFICES ASSUME IInv
               PROVE  /\ TypeOK
                      /\ WorkIsFrontier
                      /\ work # <<>> => Places \subseteq DOMAIN work
    OBVIOUS
  <2>1. TypeOK /\ WorkIsFrontier
    BY DEF IInv
  <2>2. /\ work \in Seq(State) /\ opt \in transfer_options
        /\ DOMAIN work = 1 .. Len(work)
    BY <2>1 DEF TypeOK
  <2> QED
    BY <2>1, <2>2, PlacesExist
<1> QED
  BY <1>1, Invariance, PTL

=============================================================================
