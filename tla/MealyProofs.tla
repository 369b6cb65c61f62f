----------------------------- MODULE MealyProofs -----------------------------
(***************************************************************************)
(* Facts about words: apply on them, for machines of every size, sequences *)
(* of them, and the trie, for every set of words.                          *)
(***************************************************************************)
EXTENDS Mealy, Trie, SequenceTheorems, FiniteSetTheorems, WellFoundedInduction,
        TLAPS

RunEdge == [to : State, out : Output \cup {NoOutput}]

(* f lists the edges that m takes from s when it reads w.                  *)
IsRun(m, s, w, f) ==
  /\ f \in [0 .. Len(w) -> RunEdge]
  /\ f[0] = [to |-> s, out |-> NoOutput]
  /\ \A n \in 1 .. Len(w) : f[n] = m[f[n - 1].to][w[n]]

(* A nonempty set of naturals has a least element; the code relies on it   *)
(* wherever it loops over a word.                                          *)
LEMMA NatMin ==
  ASSUME NEW S, S \subseteq Nat, S # {}
  PROVE  \E x \in S : \A y \in S : ~ (y < x)
<1>1. IsWellFoundedOn(OpToRel(<, Nat), Nat)
  BY NatLessThanWellFounded, Zenon
<1>2. \E x \in S : \A y \in S : ~ (<<y, x>> \in OpToRel(<, Nat))
  BY <1>1, WFMin, Zenon
<1> QED
  BY <1>2 DEF OpToRel

(* Induction over the naturals, for a property given as a set.             *)
LEMMA NatSetInduction ==
  ASSUME NEW S, 0 \in S, \A n \in Nat : n \in S => n + 1 \in S
  PROVE  \A n \in Nat : n \in S
<1> SUFFICES ASSUME Nat \ S # {} PROVE FALSE
  OBVIOUS
<1>1. PICK x \in Nat \ S : \A y \in Nat \ S : ~ (y < x)
  BY NatMin
<1>2. x # 0 /\ x - 1 \in Nat /\ x - 1 \in S
  BY <1>1
<1> QED
  BY <1>1, <1>2

(* A complete machine on any set of states: what may be tested, too.       *)
MachineOn(S) == [S -> [Input -> [to : S, out : Output]]]
RunEdgeOn(S) == [to : S, out : Output \cup {NoOutput}]

(* f is the run of such a machine over w from s, edge by edge.             *)
IsRunOn(S, m, s, w, f) ==
  /\ f \in [0 .. Len(w) -> RunEdgeOn(S)]
  /\ f[0] = [to |-> s, out |-> NoOutput]
  /\ \A n \in 1 .. Len(w) : f[n] = m[f[n - 1].to][w[n]]

(* A complete machine has a run over every word: no symbol of a word is    *)
(* ever looked up outside the rows of the graph.                           *)
LEMMA RunOnExists ==
  ASSUME NEW T, NEW m \in MachineOn(T), NEW s \in T, NEW w \in Word
  PROVE  \E f : IsRunOn(T, m, s, w, f)
<1> DEFINE start == [to |-> s, out |-> NoOutput]
           Upto(k, f) == /\ f \in [0 .. k -> RunEdgeOn(T)]
                         /\ f[0] = start
                         /\ \A n \in 1 .. k : f[n] = m[f[n - 1].to][w[n]]
           S == {k \in Nat : k <= Len(w) => \E f : Upto(k, f)}
<1>0. start \in RunEdgeOn(T)
  BY DEF RunEdgeOn
<1>1. 0 \in S
  <2>1. Upto(0, [n \in 0 .. 0 |-> start])
    BY <1>0
  <2> QED
    BY <2>1
<1>2. ASSUME NEW k \in Nat, k \in S PROVE k + 1 \in S
  <2>1. CASE k + 1 > Len(w)
    BY <2>1 DEF Word
  <2>2. CASE k + 1 <= Len(w)
    <3>1. PICK f : Upto(k, f)
      BY <1>2, <2>2 DEF Word
    <3> DEFINE e == m[f[k].to][w[k + 1]]
               h == [n \in 0 .. k + 1 |-> IF n = k + 1 THEN e ELSE f[n]]
    <3>2. e \in RunEdgeOn(T)
      <4>1. f[k].to \in T
        BY <3>1 DEF RunEdgeOn
      <4>2. w[k + 1] \in Input
        BY <2>2 DEF Word
      <4> QED
        BY <4>1, <4>2 DEF MachineOn, RunEdgeOn
    <3>3. h \in [0 .. k + 1 -> RunEdgeOn(T)] /\ h[0] = start
      BY <3>1, <3>2
    <3>4. \A n \in 1 .. k + 1 : h[n] = m[h[n - 1].to][w[n]]
      <4> SUFFICES ASSUME NEW n \in 1 .. k + 1
                   PROVE  h[n] = m[h[n - 1].to][w[n]]
        OBVIOUS
      <4>1. \A j \in 0 .. k + 1 : h[j] = IF j = k + 1 THEN e ELSE f[j]
        OBVIOUS
      <4> HIDE DEF h
      <4>2. CASE n = k + 1
        <5>1. h[n] = e /\ h[n - 1] = f[k]
          BY <4>1, <4>2
        <5> QED
          BY <4>2, <5>1
      <4>3. CASE n \in 1 .. k
        <5>1. n \in 0 .. k + 1 /\ n - 1 \in 0 .. k + 1 /\ n # k + 1 /\ n - 1 # k + 1
          BY <4>3
        <5>2. h[n] = f[n] /\ h[n - 1] = f[n - 1]
          BY <4>1, <5>1
        <5> QED
          BY <3>1, <4>3, <5>2, SMTT(30)
      <4>4. n = k + 1 \/ n \in 1 .. k
        OBVIOUS
      <4> QED
        BY <4>2, <4>3, <4>4, SMTT(30)
    <3>5. \E f1 : Upto(k + 1, f1)
      BY <3>3, <3>4
    <3> HIDE DEF Upto
    <3> QED
      BY <3>5
  <2> HIDE DEF S
  <2>3. Len(w) \in Nat
    BY DEF Word
  <2> QED
    BY <2>1, <2>2, <2>3
<1>3. \A k \in Nat : k \in S
  <2> HIDE DEF S
  <2> QED
    BY <1>1, <1>2, NatSetInduction
<1>4. Len(w) \in Nat
  BY DEF Word
<1>5. \E f : Upto(Len(w), f)
  <2>1. Len(w) \in S
    BY <1>3, <1>4, SMTT(30)
  <2>2. Len(w) <= Len(w)
    BY <1>4
  <2> HIDE DEF Upto
  <2> QED
    BY <2>1, <2>2
<1> QED
  BY <1>5 DEF IsRunOn

(* apply on a word returns the last edge of the run.                       *)
LEMMA ApplyRunOn ==
  ASSUME NEW T, NEW m \in MachineOn(T), NEW s \in T, NEW w \in Word
  PROVE  \E f : IsRunOn(T, m, s, w, f) /\ applyWord(m, s, w) = f[Len(w)]
<1> DEFINE start == [to |-> s, out |-> NoOutput]
           Eq(f) == f = [n \in 0 .. Len(w) |->
                           IF n = 0 THEN start ELSE m[f[n - 1].to][w[n]]]
           ret == CHOOSE f : Eq(f)
<1>0. Len(w) \in Nat
  BY DEF Word
<1>1. PICK f : IsRunOn(T, m, s, w, f)
  BY RunOnExists
<1>2. f = [n \in 0 .. Len(w) |-> IF n = 0 THEN start ELSE m[f[n - 1].to][w[n]]]
  BY <1>0, <1>1 DEF IsRunOn
<1>3. Eq(ret)
  BY <1>2, ZenonT(60)
<1>4. applyWord(m, s, w) = ret[Len(w)]
  BY DEF applyWord
<1>5. \A n \in 0 .. Len(w) : ret[n] = IF n = 0 THEN start ELSE m[ret[n - 1].to][w[n]]
  BY <1>3, ZenonT(60)
<1>6. DOMAIN ret = 0 .. Len(w)
  BY <1>3
<1> HIDE DEF ret
<1> DEFINE S == {n \in Nat : n <= Len(w) => ret[n] = f[n]}
<1>7. \A n \in Nat : n \in S
  <2>1. 0 \in S
    BY <1>0, <1>1, <1>5 DEF IsRunOn
  <2>2. ASSUME NEW n \in Nat, n \in S PROVE n + 1 \in S
    BY <1>0, <1>1, <1>5, <2>2 DEF IsRunOn
  <2> HIDE DEF S
  <2> QED
    BY <2>1, <2>2, NatSetInduction
<1> QED
  BY <1>0, <1>1, <1>4, <1>7

(* The same of a machine on the states of the specification.               *)
LEMMA ApplyRun ==
  ASSUME NEW m \in Machine, NEW s \in State, NEW w \in Word
  PROVE  \E f : IsRun(m, s, w, f) /\ applyWord(m, s, w) = f[Len(w)]
<1>1. m \in MachineOn(State)
  BY DEF Machine, Edge, MachineOn
<1> QED
  BY <1>1, ApplyRunOn DEF IsRun, IsRunOn, RunEdge, RunEdgeOn

(* Reading nothing stays where it is, in a state of the machine.           *)
LEMMA ApplyTypeOn ==
  ASSUME NEW T, NEW m \in MachineOn(T), NEW s \in T, NEW w \in Word
  PROVE  /\ applyWord(m, s, w).to \in T
         /\ applyWord(m, s, <<>>).to = s
<1>1. <<>> \in Word /\ Len(<<>>) = 0 /\ Len(w) \in Nat
  BY EmptySeq, LenProperties DEF Word
<1>2. applyWord(m, s, w).to \in T
  <2>1. PICK f : IsRunOn(T, m, s, w, f) /\ applyWord(m, s, w) = f[Len(w)]
    BY ApplyRunOn
  <2> QED
    BY <1>1, <2>1 DEF IsRunOn, RunEdgeOn
<1>3. applyWord(m, s, <<>>).to = s
  <2>1. PICK e \in Word : e = <<>>
    BY <1>1
  <2>2. PICK f : IsRunOn(T, m, s, e, f) /\ applyWord(m, s, e) = f[Len(e)]
    BY ApplyRunOn
  <2>3. applyWord(m, s, e).to = s
    BY <1>1, <2>1, <2>2 DEF IsRunOn
  <2> QED
    BY <2>1, <2>3
<1> QED
  BY <1>2, <1>3

(* The state and the output that apply returns are those of the machine.   *)
LEMMA ApplyType ==
  ASSUME NEW m \in Machine, NEW s \in State, NEW w \in Word
  PROVE  /\ applyWord(m, s, w) \in RunEdge
         /\ w # <<>> => applyWord(m, s, w) \in Edge
<1>1. PICK f : IsRun(m, s, w, f) /\ applyWord(m, s, w) = f[Len(w)]
  BY ApplyRun
<1>2. f[Len(w)] \in RunEdge
  BY <1>1 DEF IsRun, Word
<1>3. ASSUME w # <<>> PROVE f[Len(w)] \in Edge
  <2>1. Len(w) \in 1 .. Len(w) /\ w[Len(w)] \in Input
    BY <1>3 DEF Word
  <2>2. f[Len(w) - 1].to \in State
    BY <1>1, <2>1 DEF IsRun, RunEdge
  <2> QED
    BY <1>1, <2>1, <2>2 DEF IsRun, Machine
<1> QED
  BY <1>1, <1>2, <1>3

(* A word of one symbol takes one edge.                                    *)
LEMMA ApplyOne ==
  ASSUME NEW m \in Machine, NEW s \in State, NEW a \in Input
  PROVE  applyWord(m, s, <<a>>) = m[s][a]
<1>1. <<a>> \in Word /\ Len(<<a>>) = 1 /\ <<a>>[1] = a
  BY DEF Word
<1>2. PICK f : IsRun(m, s, <<a>>, f) /\ applyWord(m, s, <<a>>) = f[1]
  BY <1>1, ApplyRun
<1> QED
  BY <1>1, <1>2 DEF IsRun

(* Reading a nonempty word after a symbol is reading it from the symbol's  *)
(* successor: what makes a separator of the successors, with the symbol in *)
(* front, a separator of the states.                                       *)
LEMMA ApplyCons ==
  ASSUME NEW m \in Machine, NEW s \in State, NEW a \in Input,
         NEW w \in Word, w # <<>>
  PROVE  /\ <<a>> \o w \in Word
         /\ <<a>> \o w # <<>>
         /\ applyWord(m, s, <<a>> \o w) = applyWord(m, m[s][a].to, w)
<1> DEFINE v == <<a>> \o w
           t == m[s][a].to
<1>1. /\ v \in Word /\ Len(v) = Len(w) + 1 /\ v[1] = a
      /\ \A n \in 1 .. Len(w) : v[n + 1] = w[n]
      /\ Len(w) \in Nat \ {0}
  BY DEF Word
<1>2. t \in State
  BY DEF Machine, Edge
<1> HIDE DEF v
<1>3. PICK f : IsRun(m, s, v, f) /\ applyWord(m, s, v) = f[Len(v)]
  BY <1>1, ApplyRun
<1>4. PICK h : IsRun(m, t, w, h) /\ applyWord(m, t, w) = h[Len(w)]
  BY <1>2, ApplyRun
<1> DEFINE S == {n \in Nat : n <= Len(w) =>
                   f[n + 1].to = h[n].to /\ (n > 0 => f[n + 1] = h[n])}
<1>5. \A n \in Nat : n \in S
  <2>1. 0 \in S
    BY <1>1, <1>3, <1>4 DEF IsRun
  <2>2. ASSUME NEW n \in Nat, n \in S PROVE n + 1 \in S
    <3> SUFFICES ASSUME n + 1 <= Len(w)
                 PROVE  f[n + 2] = h[n + 1]
      BY <1>1
    <3>1. f[n + 1].to = h[n].to
      BY <1>1, <2>2
    <3>2. f[n + 2] = m[f[n + 1].to][v[n + 2]]
      BY <1>1, <1>3 DEF IsRun
    <3>3. h[n + 1] = m[h[n].to][w[n + 1]]
      BY <1>1, <1>4 DEF IsRun
    <3>4. v[n + 2] = w[n + 1]
      BY <1>1
    <3> QED
      BY <3>1, <3>2, <3>3, <3>4
  <2> HIDE DEF S
  <2> QED
    BY <2>1, <2>2, NatSetInduction
<1>6. f[Len(w) + 1] = h[Len(w)]
  BY <1>1, <1>5
<1> QED
  BY <1>1, <1>3, <1>4, <1>6 DEF v

(* Reading one symbol more is one edge more: what a loop over a word does  *)
(* in its last turn.                                                       *)
LEMMA ApplySnocOn ==
  ASSUME NEW T, NEW m \in MachineOn(T), NEW s \in T, NEW w \in Word, NEW a \in Input
  PROVE  /\ Append(w, a) \in Word
         /\ applyWord(m, s, Append(w, a)) = m[applyWord(m, s, w).to][a]
<1> DEFINE x == Append(w, a)
<1>1. /\ x \in Word /\ Len(x) = Len(w) + 1 /\ x[Len(w) + 1] = a
      /\ \A n \in 1 .. Len(w) : x[n] = w[n]
      /\ Len(w) \in Nat
  BY DEF Word
<1> HIDE DEF x
<1>2. PICK f : IsRunOn(T, m, s, x, f) /\ applyWord(m, s, x) = f[Len(x)]
  BY <1>1, ApplyRunOn
<1>3. PICK h : IsRunOn(T, m, s, w, h) /\ applyWord(m, s, w) = h[Len(w)]
  BY ApplyRunOn
<1> DEFINE S == {n \in Nat : n <= Len(w) => f[n] = h[n]}
<1>4. \A n \in Nat : n \in S
  <2>1. 0 \in S
    BY <1>2, <1>3 DEF IsRunOn
  <2>2. ASSUME NEW n \in Nat, n \in S PROVE n + 1 \in S
    <3> SUFFICES ASSUME n + 1 <= Len(w)
                 PROVE  f[n + 1] = h[n + 1]
      OBVIOUS
    <3>1. f[n] = h[n]
      BY <1>1, <2>2
    <3>2. f[n + 1] = m[f[n].to][x[n + 1]]
      BY <1>1, <1>2 DEF IsRunOn
    <3>3. h[n + 1] = m[h[n].to][w[n + 1]]
      BY <1>1, <1>3 DEF IsRunOn
    <3> QED
      BY <1>1, <3>1, <3>2, <3>3
  <2> HIDE DEF S
  <2> QED
    BY <2>1, <2>2, NatSetInduction
<1>5. f[Len(w)] = h[Len(w)]
  BY <1>1, <1>4
<1>6. f[Len(w) + 1] = m[f[Len(w)].to][a]
  BY <1>1, <1>2 DEF IsRunOn
<1> QED
  BY <1>1, <1>2, <1>3, <1>5, <1>6 DEF x

(* The same of a machine on the states of the specification.               *)
LEMMA ApplySnoc ==
  ASSUME NEW m \in Machine, NEW s \in State, NEW w \in Word, NEW a \in Input
  PROVE  /\ Append(w, a) \in Word
         /\ applyWord(m, s, Append(w, a)) = m[applyWord(m, s, w).to][a]
<1>1. m \in MachineOn(State)
  BY DEF Machine, Edge, MachineOn
<1> QED
  BY <1>1, ApplySnocOn

(* A word longer than the empty one is a shorter word and a symbol.        *)
LEMMA SnocForm ==
  ASSUME NEW w \in Word, w # <<>>
  PROVE  \E y \in Word, b \in Input : w = Append(y, b) /\ Len(w) = Len(y) + 1
<1>1. PICK y \in Seq(Input), b \in Input : w = Append(y, b)
  BY SequenceEmptyOrAppend DEF Word
<1> QED
  BY <1>1, AppendProperties DEF Word

(* A word of at least one symbol has a first one.                          *)
LEMMA ConsForm ==
  ASSUME NEW w \in Word, w # <<>>
  PROVE  \E b \in Input, y \in Word : w = <<b>> \o y /\ Len(w) = Len(y) + 1
<1>1. /\ Head(w) \in Input /\ Tail(w) \in Word /\ Len(w) = Len(Tail(w)) + 1
  BY DEF Word
<1> DEFINE r == <<Head(w)>> \o Tail(w)
<1>2. w = r
  <2>1. /\ r \in Word /\ Len(r) = Len(w) /\ r[1] = w[1]
        /\ \A i \in 1 .. Len(Tail(w)) : r[i + 1] = Tail(w)[i] /\ Tail(w)[i] = w[i + 1]
    BY <1>1 DEF Word
  <2>2. ASSUME NEW i \in 1 .. Len(w) PROVE r[i] = w[i]
    <3>1. CASE i = 1
      BY <2>1, <3>1
    <3>2. CASE i # 1
      <4>1. i - 1 \in 1 .. Len(Tail(w)) /\ i = (i - 1) + 1
        BY <1>1, <3>2 DEF Word
      <4> HIDE DEF r
      <4> QED
        BY <2>1, <4>1, SMTT(30)
    <3> QED
      BY <3>1, <3>2
  <2> HIDE DEF r
  <2> QED
    BY <2>1, <2>2 DEF Word
<1> QED
  <2>1. PICK b \in Input, y \in Word : b = Head(w) /\ y = Tail(w)
    BY <1>1
  <2>2. w = <<b>> \o y /\ Len(w) = Len(y) + 1
    BY <1>1, <1>2, <2>1, Zenon
  <2> QED
    BY <2>2, Zenon

(* apply on two words, one after the other.                                *)
LEMMA ApplyConcatOn ==
  ASSUME NEW T, NEW m \in MachineOn(T), NEW v \in Word, NEW w \in Word
  PROVE  /\ v \o w \in Word
         /\ \A s \in T :
              applyWord(m, s, v \o w).to = applyWord(m, applyWord(m, s, v).to, w).to
         /\ w # <<>> => \A s \in T :
              applyWord(m, s, v \o w) = applyWord(m, applyWord(m, s, v).to, w)
<1>1. \A y \in Word : v \o y \in Word
  BY ConcatProperties DEF Word
<1> DEFINE Same(y) == \A s \in T :
             applyWord(m, s, v \o y).to = applyWord(m, applyWord(m, s, v).to, y).to
           K == {n \in Nat : \A y \in Word : Len(y) = n => Same(y)}
<1>2. ASSUME NEW y \in Word, NEW b \in Input, NEW s \in T, Same(y)
      PROVE  applyWord(m, s, v \o Append(y, b))
               = applyWord(m, applyWord(m, s, v).to, Append(y, b))
  <2>1. v \o Append(y, b) = Append(v \o y, b)
    <3>1. /\ v \in Seq(Input) /\ y \in Seq(Input)
      BY DEF Word
    <3> QED
      BY <3>1
  <2>2. applyWord(m, s, v).to \in T
    BY ApplyTypeOn
  <2>3. applyWord(m, s, Append(v \o y, b)) = m[applyWord(m, s, v \o y).to][b]
    BY <1>1, ApplySnocOn
  <2>4. applyWord(m, applyWord(m, s, v).to, Append(y, b))
          = m[applyWord(m, applyWord(m, s, v).to, y).to][b]
    BY <2>2, ApplySnocOn
  <2> QED
    BY <1>2, <2>1, <2>3, <2>4
<1>3. 0 \in K
  <2> SUFFICES ASSUME NEW y \in Word, Len(y) = 0, NEW s \in T
               PROVE  applyWord(m, s, v \o y).to
                        = applyWord(m, applyWord(m, s, v).to, y).to
    OBVIOUS
  <2>1. y = <<>> /\ v \o y = v
    BY EmptySeq, ConcatEmptySeq DEF Word
  <2>2. applyWord(m, s, v).to \in T
    BY ApplyTypeOn
  <2>3. applyWord(m, applyWord(m, s, v).to, <<>>).to = applyWord(m, s, v).to
    BY <2>2, ApplyTypeOn
  <2> QED
    BY <2>1, <2>3
<1>4. ASSUME NEW n \in Nat, n \in K PROVE n + 1 \in K
  <2> SUFFICES ASSUME NEW x \in Word, Len(x) = n + 1 PROVE Same(x)
    OBVIOUS
  <2>1. x # <<>>
    BY EmptySeq
  <2>2. PICK y \in Word, b \in Input : x = Append(y, b) /\ Len(x) = Len(y) + 1
    BY <2>1, SnocForm
  <2>3. Len(y) = n
    BY <2>2, LenProperties DEF Word
  <2>4. Same(y)
    BY <1>4, <2>3
  <2> HIDE DEF Same
  <2>5. \A s \in T : applyWord(m, s, v \o x)
                           = applyWord(m, applyWord(m, s, v).to, x)
    BY <1>2, <2>2, <2>4
  <2> QED
    BY <2>5 DEF Same
<1> HIDE DEF K, Same
<1>5. \A n \in Nat : n \in K
  BY <1>3, <1>4, NatSetInduction
<1>6. \A y \in Word : Same(y)
  BY <1>5, LenProperties DEF K, Word
<1>7. ASSUME w # <<>>
      PROVE  \A s \in T :
               applyWord(m, s, v \o w) = applyWord(m, applyWord(m, s, v).to, w)
  <2>1. PICK y \in Word, b \in Input : w = Append(y, b)
    BY <1>7, SnocForm
  <2> QED
    BY <1>2, <1>6, <2>1
<1> QED
  BY <1>1, <1>6, <1>7 DEF Same

(* The same of a machine on the states of the specification.               *)
LEMMA ApplyConcat ==
  ASSUME NEW m \in Machine, NEW v \in Word, NEW w \in Word
  PROVE  /\ v \o w \in Word
         /\ w # <<>> => \A s \in State :
              applyWord(m, s, v \o w) = applyWord(m, applyWord(m, s, v).to, w)
<1>1. m \in MachineOn(State)
  BY DEF Machine, Edge, MachineOn
<1> QED
  BY <1>1, ApplyConcatOn

(* Its prefixes.                                                           *)
LEMMA PrefixConcat ==
  ASSUME NEW v \in Word, NEW w \in Word, NEW j \in 1 .. Len(v \o w)
  PROVE  /\ Len(v \o w) = Len(v) + Len(w)
         /\ j <= Len(v) => /\ j \in 1 .. Len(v)
                           /\ SubSeq(v \o w, 1, j) = SubSeq(v, 1, j)
         /\ ~ (j <= Len(v)) =>
              /\ j - Len(v) \in 1 .. Len(w)
              /\ SubSeq(w, 1, j - Len(v)) \in Word
              /\ SubSeq(w, 1, j - Len(v)) # <<>>
              /\ SubSeq(v \o w, 1, j) = v \o SubSeq(w, 1, j - Len(v))
<1>1. /\ v \in Seq(Input) /\ w \in Seq(Input) /\ v \o w \in Seq(Input)
      /\ Len(v) \in Nat /\ Len(w) \in Nat /\ Len(v \o w) = Len(v) + Len(w)
  BY ConcatProperties, LenProperties DEF Word
<1>2. CASE j <= Len(v)
  <2>1. j \in 1 .. Len(v)
    BY <1>1, <1>2
  <2>2. SubSeq(v \o w, 1, j) = SubSeq(v, 1, j)
    BY <1>1, <2>1
  <2> QED
    BY <1>1, <1>2, <2>1, <2>2
<1>3. CASE ~ (j <= Len(v))
  <2> DEFINE l == j - Len(v)
  <2>1. l \in 1 .. Len(w) /\ l \in Nat /\ j = Len(v) + l
    BY <1>1, <1>3
  <2> HIDE DEF l
  <2>2. SubSeq(w, 1, l) \in Seq(Input) /\ Len(SubSeq(w, 1, l)) = l
    BY <1>1, <2>1
  <2>3. SubSeq(v \o w, 1, j) = v \o SubSeq(w, 1, l)
    BY <1>1, <2>1, <2>2
  <2>4. SubSeq(w, 1, l) # <<>>
    BY <2>1, <2>2, EmptySeq
  <2> QED
    BY <1>1, <1>3, <2>1, <2>2, <2>3, <2>4 DEF Word, l
<1> QED
  BY <1>2, <1>3

-----------------------------------------------------------------------------
(* Flattening, one sequence at a time.                                     *)

(* f lists what flattening the first sequences gives.                      *)
IsFlattening(ss, f) ==
  f = [i \in 1 .. Len(ss) |-> IF i = 1 THEN ss[i] ELSE f[i - 1] \o ss[i]]

(* It exists for all but the empty sequence, and its end is FlattenSeq.    *)
LEMMA FlatteningExists ==
  ASSUME NEW S, NEW ss \in Seq(Seq(S)), ss # <<>>
  PROVE  \E f : IsFlattening(ss, f) /\ FlattenSeq(ss) = f[Len(ss)]
<1> DEFINE Upto(k, f) ==
             f = [i \in 1 .. k |-> IF i = 1 THEN ss[i] ELSE f[i - 1] \o ss[i]]
           K == {k \in Nat : \E f : Upto(k, f)}
<1>1. 0 \in K
  <2>1. Upto(0, [i \in 1 .. 0 |-> <<>>])
    OBVIOUS
  <2> QED
    BY <2>1
<1>2. ASSUME NEW n \in Nat, n \in K PROVE n + 1 \in K
  <2>1. PICK f : Upto(n, f)
    BY <1>2
  <2> DEFINE x == IF n = 0 THEN ss[1] ELSE f[n] \o ss[n + 1]
             h == [i \in 1 .. n + 1 |-> IF i = n + 1 THEN x ELSE f[i]]
  <2>2. \A i \in 1 .. n : f[i] = IF i = 1 THEN ss[i] ELSE f[i - 1] \o ss[i]
    BY <2>1
  <2>3. DOMAIN h = 1 .. n + 1 /\ h = [i \in 1 .. n + 1 |-> h[i]]
    OBVIOUS
  <2>4. \A i \in 1 .. n + 1 : h[i] = IF i = n + 1 THEN x ELSE f[i]
    OBVIOUS
  <2> HIDE DEF h
  <2>5. ASSUME NEW i \in 1 .. n + 1
        PROVE  h[i] = IF i = 1 THEN ss[i] ELSE h[i - 1] \o ss[i]
    <3>1. CASE i = n + 1 /\ i = 1
      BY <2>4, <3>1
    <3>2. CASE i = n + 1 /\ i # 1
      <4>1. n \in 1 .. n + 1 /\ n # n + 1 /\ n # 0 /\ i - 1 = n
        BY <3>2
      <4> QED
        BY <2>4, <3>2, <4>1
    <3>3. CASE i # n + 1 /\ i = 1
      <4>1. i \in 1 .. n
        BY <3>3
      <4> QED
        BY <2>2, <2>4, <3>3, <4>1
    <3>4. CASE i # n + 1 /\ i # 1
      <4>1. i \in 1 .. n /\ i - 1 \in 1 .. n + 1 /\ i - 1 # n + 1
        BY <3>4
      <4> QED
        BY <2>2, <2>4, <3>4, <4>1
    <3> QED
      BY <3>1, <3>2, <3>3, <3>4
  <2>6. Upto(n + 1, h)
    BY <2>3, <2>5
  <2> HIDE DEF Upto
  <2>7. \E e : Upto(n + 1, e)
    BY <2>6
  <2> QED
    BY <2>7
<1> HIDE DEF K
<1>3. \A n \in Nat : n \in K
  BY <1>1, <1>2, NatSetInduction
<1>4. Len(ss) \in Nat /\ Len(ss) # 0
  OBVIOUS
<1>5. \E f : IsFlattening(ss, f)
  BY <1>3, <1>4 DEF K, IsFlattening
<1> DEFINE c == CHOOSE f : IsFlattening(ss, f)
<1>6. IsFlattening(ss, c)
  BY <1>5
<1>7. FlattenSeq(ss) = c[Len(ss)]
  BY <1>4 DEF FlattenSeq, IsFlattening
<1> QED
  BY <1>6, <1>7

(* One sequence more is appended.                                          *)
LEMMA FlattenSnoc ==
  ASSUME NEW S, NEW ss \in Seq(Seq(S)), NEW x \in Seq(S)
  PROVE  FlattenSeq(Append(ss, x)) = FlattenSeq(ss) \o x
<1> DEFINE n == Len(ss)
           sx == Append(ss, x)
<1>1. /\ sx \in Seq(Seq(S)) /\ Len(sx) = n + 1 /\ sx[n + 1] = x /\ sx # <<>>
      /\ \A i \in 1 .. n : sx[i] = ss[i]
      /\ n \in Nat
  BY AppendProperties, LenProperties
<1> HIDE DEF sx
<1>2. PICK h : IsFlattening(sx, h) /\ FlattenSeq(sx) = h[Len(sx)]
  BY <1>1, FlatteningExists
<1>3. \A i \in 1 .. n + 1 : h[i] = IF i = 1 THEN sx[i] ELSE h[i - 1] \o sx[i]
  BY <1>1, <1>2 DEF IsFlattening
<1>4. CASE ss = <<>>
  <2>1. n = 0 /\ h[1] = x
    BY <1>1, <1>3, <1>4
  <2>2. FlattenSeq(ss) = <<>>
    BY <1>4 DEF FlattenSeq
  <2> QED
    BY <1>1, <1>2, <1>4, <2>1, <2>2 DEF sx
<1>5. CASE ss # <<>>
  <2>1. PICK f : IsFlattening(ss, f) /\ FlattenSeq(ss) = f[n]
    BY <1>5, FlatteningExists
  <2>2. \A i \in 1 .. n : f[i] = IF i = 1 THEN ss[i] ELSE f[i - 1] \o ss[i]
    BY <2>1 DEF IsFlattening
  <2> DEFINE K == {k \in Nat : k \in 1 .. n => h[k] = f[k]}
  <2>3. 0 \in K
    OBVIOUS
  <2>4. ASSUME NEW k \in Nat, k \in K PROVE k + 1 \in K
    <3> SUFFICES ASSUME k + 1 \in 1 .. n PROVE h[k + 1] = f[k + 1]
      OBVIOUS
    <3>1. CASE k = 0
      BY <1>1, <1>3, <2>2, <3>1
    <3>2. CASE k # 0
      <4>1. k \in 1 .. n /\ k + 1 # 1 /\ (k + 1) - 1 = k /\ k + 1 \in 1 .. n + 1
        BY <3>2
      <4>2. h[k] = f[k]
        BY <2>4, <4>1
      <4> QED
        BY <1>1, <1>3, <2>2, <4>1, <4>2
    <3> QED
      BY <3>1, <3>2
  <2> HIDE DEF K
  <2>5. \A k \in Nat : k \in K
    BY <2>3, <2>4, NatSetInduction
  <2>6. n \in 1 .. n /\ n # 0
    BY <1>1, <1>5
  <2>7. h[n] = f[n]
    BY <1>1, <2>5, <2>6 DEF K
  <2>8. n + 1 \in 1 .. n + 1 /\ n + 1 # 1 /\ (n + 1) - 1 = n
    BY <1>1, <2>6
  <2>9. h[n + 1] = h[n] \o x
    BY <1>1, <1>3, <2>8
  <2> QED
    BY <1>1, <1>2, <2>1, <2>7, <2>9 DEF sx
<1> QED
  BY <1>4, <1>5

(* What is in a flattened sequence, and what is left of it if only one of  *)
(* the sequences is not empty.                                             *)
FlattensWell(ss) ==
  /\ \A e : e \in ToSet(FlattenSeq(ss)) <=> \E i \in DOMAIN ss : e \in ToSet(ss[i])
  /\ (\A j \in DOMAIN ss : ss[j] = <<>>) => FlattenSeq(ss) = <<>>
  /\ \A i \in DOMAIN ss :
       (\A j \in DOMAIN ss : j # i => ss[j] = <<>>) => FlattenSeq(ss) = ss[i]

(* What FlattenSeq returns for such a sequence of words.                   *)
LEMMA FlattenFacts ==
  ASSUME NEW S
  PROVE  \A ss \in Seq(Seq(S)) : FlattenSeq(ss) \in Seq(S) /\ FlattensWell(ss)
<1> DEFINE K == {n \in Nat : \A ss \in Seq(Seq(S)) : Len(ss) = n =>
                   FlattenSeq(ss) \in Seq(S) /\ FlattensWell(ss)}
<1>1. 0 \in K
  <2> SUFFICES ASSUME NEW ss \in Seq(Seq(S)), Len(ss) = 0
               PROVE  FlattenSeq(ss) \in Seq(S) /\ FlattensWell(ss)
    OBVIOUS
  <2>1. ss = <<>> /\ DOMAIN ss = {}
    BY EmptySeq
  <2>2. FlattenSeq(ss) = <<>>
    BY <2>1 DEF FlattenSeq
  <2>3. \A e : e \notin ToSet(FlattenSeq(ss))
    BY <2>1, <2>2 DEF ToSet
  <2>4. FlattensWell(ss)
    BY <2>1, <2>2, <2>3 DEF FlattensWell
  <2> QED
    BY <2>2, <2>4
<1>2. ASSUME NEW n \in Nat, n \in K PROVE n + 1 \in K
  <2> SUFFICES ASSUME NEW sx \in Seq(Seq(S)), Len(sx) = n + 1
               PROVE  FlattenSeq(sx) \in Seq(S) /\ FlattensWell(sx)
    OBVIOUS
  <2>1. sx # <<>>
    BY EmptySeq
  <2>2. PICK ss \in Seq(Seq(S)), x \in Seq(S) : sx = Append(ss, x)
    BY <2>1, SequenceEmptyOrAppend
  <2>3. /\ Len(ss) = n /\ DOMAIN ss = 1 .. n /\ DOMAIN sx = 1 .. n + 1
        /\ sx[n + 1] = x /\ \A i \in 1 .. n : sx[i] = ss[i]
    BY <2>2, AppendProperties, LenProperties
  <2>4. FlattenSeq(ss) \in Seq(S) /\ FlattensWell(ss)
    BY <1>2, <2>3
  <2>5. FlattenSeq(sx) = FlattenSeq(ss) \o x
    BY <2>2, FlattenSnoc
  <2> DEFINE y == FlattenSeq(ss)
  <2>6. /\ y \o x \in Seq(S)
        /\ y = <<>> => y \o x = x
        /\ x = <<>> => y \o x = y
    BY <2>4, ConcatProperties, ConcatEmptySeq
  <2>7. ToSet(y \o x) = ToSet(y) \cup ToSet(x)
    <3>1. /\ DOMAIN (y \o x) = 1 .. Len(y) + Len(x)
          /\ \A i \in 1 .. Len(y) + Len(x) :
               (y \o x)[i] = IF i <= Len(y) THEN y[i] ELSE x[i - Len(y)]
          /\ DOMAIN y = 1 .. Len(y) /\ DOMAIN x = 1 .. Len(x)
          /\ Len(y) \in Nat /\ Len(x) \in Nat
      BY <2>4, ConcatProperties, LenProperties
    <3> HIDE DEF y
    <3>2. \A i \in 1 .. Len(y) : i \in 1 .. Len(y) + Len(x) /\ (y \o x)[i] = y[i]
      BY <3>1
    <3>3. \A i \in 1 .. Len(x) : /\ i + Len(y) \in 1 .. Len(y) + Len(x)
                                 /\ (y \o x)[i + Len(y)] = x[i]
      BY <3>1
    <3>4. \A i \in 1 .. Len(y) + Len(x) :
            \/ i \in 1 .. Len(y) /\ (y \o x)[i] = y[i]
            \/ i - Len(y) \in 1 .. Len(x) /\ (y \o x)[i] = x[i - Len(y)]
      BY <3>1
    <3>5. \A e \in ToSet(y \o x) : e \in ToSet(y) \cup ToSet(x)
      BY <3>1, <3>4 DEF ToSet
    <3>6. \A e \in ToSet(y) : e \in ToSet(y \o x)
      BY <3>1, <3>2 DEF ToSet
    <3>7. \A e \in ToSet(x) : e \in ToSet(y \o x)
      <4> SUFFICES ASSUME NEW i \in 1 .. Len(x) PROVE x[i] \in ToSet(y \o x)
        BY <3>1 DEF ToSet
      <4>1. i + Len(y) \in DOMAIN (y \o x) /\ (y \o x)[i + Len(y)] = x[i]
        BY <3>1, <3>3
      <4> QED
        BY <4>1 DEF ToSet
    <3> QED
      BY <3>5, <3>6, <3>7
  <2> HIDE DEF y
  <2>8. \A e : (\E i \in DOMAIN sx : e \in ToSet(sx[i]))
                 <=> (\E i \in DOMAIN ss : e \in ToSet(ss[i])) \/ e \in ToSet(x)
    <3>1. \A i \in 1 .. n + 1 : i \in 1 .. n \/ i = n + 1
      OBVIOUS
    <3>2. n + 1 \in 1 .. n + 1 /\ \A i \in 1 .. n : i \in 1 .. n + 1
      OBVIOUS
    <3> QED
      BY <2>3, <3>1, <3>2
  <2>9. \A e : e \in ToSet(FlattenSeq(sx)) <=> \E i \in DOMAIN sx : e \in ToSet(sx[i])
    <3>1. \A e : e \in ToSet(y) <=> \E i \in DOMAIN ss : e \in ToSet(ss[i])
      BY <2>4 DEF FlattensWell, y
    <3>2. FlattenSeq(sx) = y \o x
      BY <2>5 DEF y
    <3>3. \A e : e \in ToSet(y \o x) <=> e \in ToSet(y) \/ e \in ToSet(x)
      BY <2>7
    <3> QED
      BY <2>8, <3>1, <3>2, <3>3
  <2>10. ASSUME \A j \in DOMAIN sx : sx[j] = <<>> PROVE FlattenSeq(sx) = <<>>
    <3>1. x = <<>> /\ \A j \in DOMAIN ss : ss[j] = <<>>
      BY <2>3, <2>10, SMTT(30)
    <3> QED
      BY <2>4, <2>5, <2>6, <3>1 DEF FlattensWell, y
  <2>11. ASSUME NEW i \in DOMAIN sx, \A j \in DOMAIN sx : j # i => sx[j] = <<>>
         PROVE  FlattenSeq(sx) = sx[i]
    <3>1. CASE i = n + 1
      <4>1. \A j \in DOMAIN ss : ss[j] = <<>>
        BY <2>3, <2>11, <3>1
      <4> QED
        BY <2>3, <2>4, <2>5, <2>6, <3>1, <4>1 DEF FlattensWell, y
    <3>2. CASE i # n + 1
      <4>1. i \in DOMAIN ss /\ sx[i] = ss[i] /\ x = <<>>
        BY <2>3, <2>11, <3>2
      <4>2. \A j \in DOMAIN ss : j # i => ss[j] = <<>>
        BY <2>3, <2>11
      <4> QED
        BY <2>4, <2>5, <2>6, <4>1, <4>2 DEF FlattensWell, y
    <3> QED
      BY <3>1, <3>2
  <2> QED
    BY <2>5, <2>6, <2>9, <2>10, <2>11 DEF FlattensWell, y
<1> HIDE DEF K
<1>3. \A n \in Nat : n \in K
  BY <1>1, <1>2, NatSetInduction
<1> QED
  BY <1>3, LenProperties DEF K

-----------------------------------------------------------------------------
(* Sorted letters.                                                         *)

(* A set of numbers from 1 on without gaps is as long as it is large.      *)
LEMMA InitialSegment ==
  ASSUME NEW L \in Nat, NEW S \in SUBSET (1 .. L),
         \A i \in S : \A j \in 1 .. i : j \in S
  PROVE  Cardinality(S) \in 0 .. L /\ S = 1 .. Cardinality(S)
<1> DEFINE R == (1 .. L + 1) \ S
<1>1. PICK m \in R : \A y \in R : ~ (y < m)
  <2>1. R \subseteq Nat /\ L + 1 \in R
    OBVIOUS
  <2> HIDE DEF R
  <2> QED
    BY <2>1, NatMin
<1>2. m \in 1 .. L + 1 /\ m \notin S /\ \A j \in 1 .. L + 1 : j < m => j \in S
  BY <1>1
<1> HIDE DEF R
<1>3. S = 1 .. m - 1
  <2>1. ASSUME NEW i \in S, ~ (i < m) PROVE FALSE
    BY <1>2, <2>1
  <2>2. \A i \in 1 .. L : i \in S <=> i \in 1 .. m - 1
    BY <1>2, <2>1
  <2>3. \A i \in 1 .. m - 1 : i \in 1 .. L
    BY <1>2
  <2> QED
    BY <2>2, <2>3
<1>4. Cardinality(1 .. m - 1) = m - 1
  BY <1>2, FS_Interval
<1> QED
  BY <1>2, <1>3, <1>4

(* The letters of a node are in increasing order.                          *)
Increasing(d) == \A i, j \in DOMAIN d : i < j => d[i] < d[j]

(* lower_bound finds the place of the first letter that is not less.       *)
LEMMA LowerBound ==
  ASSUME NEW A \in SUBSET Int, NEW d \in Seq(A), Increasing(d), NEW key \in A
  PROVE  /\ lower_bound(d, key) \in 1 .. Len(d) + 1
         /\ \A i \in DOMAIN d : d[i] < key <=> i < lower_bound(d, key)
         /\ Found(d, key) <=> key \in ToSet(d)
<1> DEFINE S == {j \in DOMAIN d : d[j] < key}
           b == lower_bound(d, key)
<1>1. DOMAIN d = 1 .. Len(d) /\ Len(d) \in Nat /\ key \in Int
      /\ \A i \in DOMAIN d : d[i] \in Int
  BY LenProperties, ElementOfSeq
<1>2. \A i \in S : \A j \in 1 .. i : j \in S
  <2> SUFFICES ASSUME NEW i \in S, NEW j \in 1 .. i PROVE j \in S
    OBVIOUS
  <2>1. i \in DOMAIN d /\ j \in DOMAIN d /\ d[i] < key
    BY <1>1
  <2>2. CASE j = i
    BY <2>2
  <2>3. CASE j # i
    <3>1. d[j] < d[i]
      BY <1>1, <2>1, <2>3 DEF Increasing
    <3>2. d[j] < key
      BY <1>1, <2>1, <3>1
    <3> QED
      BY <2>1, <3>2
  <2> QED
    BY <2>2, <2>3
<1>3. S \in SUBSET (1 .. Len(d)) /\ \A i \in DOMAIN d : i \in S <=> d[i] < key
  BY <1>1
<1>4. b = 1 + Cardinality(S)
  BY DEF lower_bound
<1> HIDE DEF S, b
<1>5. Cardinality(S) \in 0 .. Len(d) /\ S = 1 .. Cardinality(S)
  BY <1>1, <1>2, <1>3, InitialSegment
<1>6. b \in 1 .. Len(d) + 1
  BY <1>1, <1>4, <1>5
<1>7. ASSUME NEW i \in DOMAIN d PROVE d[i] < key <=> i < b
  <2>1. i \in S <=> i < b
    BY <1>1, <1>4, <1>5
  <2> QED
    BY <1>3, <2>1
<1>8. Found(d, key) <=> b <= Len(d) /\ d[b] = key
  BY DEF Found, b
<1>9. ASSUME key \in ToSet(d) PROVE b <= Len(d) /\ d[b] = key
  <2>1. PICK i \in DOMAIN d : d[i] = key
    BY <1>9 DEF ToSet
  <2>2. ~ (i < b) /\ b \in DOMAIN d /\ ~ (d[b] < key)
    BY <1>1, <1>6, <1>7, <2>1
  <2>3. ~ (b < i)
    BY <1>1, <2>1, <2>2 DEF Increasing
  <2> QED
    BY <1>1, <1>6, <2>1, <2>2, <2>3
<1>10. b <= Len(d) => b \in DOMAIN d
  BY <1>1, <1>6
<1> QED
  BY <1>6, <1>7, <1>8, <1>9, <1>10 DEF b, ToSet

(* A new letter is put where it belongs.                                   *)
LEMMA EmplaceIsRight ==
  ASSUME NEW A \in SUBSET Int, NEW d \in Seq(A), Increasing(d), NEW key \in A,
         key \notin ToSet(d)
  PROVE  /\ emplace(d, key) \in Seq(A)
         /\ Increasing(emplace(d, key))
         /\ ToSet(emplace(d, key)) = ToSet(d) \cup {key}
<1> DEFINE b == lower_bound(d, key)
           e == emplace(d, key)
<1>1. /\ DOMAIN d = 1 .. Len(d) /\ Len(d) \in Nat /\ key \in Int
      /\ \A i \in DOMAIN d : d[i] \in Int /\ d[i] \in A /\ d[i] # key
  BY LenProperties, ElementOfSeq DEF ToSet
<1>2. b \in 1 .. Len(d) + 1 /\ \A i \in DOMAIN d : d[i] < key <=> i < b
  BY LowerBound
<1>3. e = SubSeq(d, 1, b - 1) \o <<key>> \o SubSeq(d, b, Len(d))
  BY DEF emplace, InsertAt
<1> HIDE DEF b, e
<1>4. /\ e \in Seq(A) /\ Len(e) = Len(d) + 1
      /\ \A i \in 1 .. Len(d) + 1 :
           e[i] = IF i < b THEN d[i] ELSE IF i = b THEN key ELSE d[i - 1]
  <2> DEFINE x == SubSeq(d, 1, b - 1)
             y == SubSeq(d, b, Len(d))
             o == <<key>>
             xk == x \o o
  <2>1. /\ x \in Seq(A) /\ Len(x) = b - 1
        /\ \A i \in 1 .. b - 1 : x[i] = d[i]
    <3>1. \A i \in 1 .. b - 1 : d[i] \in A
      BY <1>1, <1>2
    <3>2. 1 \in Int /\ b - 1 \in Int
      BY <1>2
    <3>3. /\ x \in Seq(A)
          /\ Len(x) = IF 1 <= b - 1 THEN (b - 1) - 1 + 1 ELSE 0
          /\ \A i \in 1 .. (b - 1) - 1 + 1 : x[i] = d[1 + i - 1]
      BY <3>1, <3>2, SubSeqProperties
    <3> HIDE DEF x
    <3> QED
      BY <1>2, <3>3
  <2>2. /\ y \in Seq(A) /\ Len(y) = Len(d) - b + 1
        /\ \A i \in 1 .. Len(d) - b + 1 : y[i] = d[b + i - 1]
    <3>1. \A i \in b .. Len(d) : d[i] \in A
      BY <1>1, <1>2
    <3>2. b \in Int /\ Len(d) \in Int
      BY <1>1, <1>2
    <3>3. /\ y \in Seq(A)
          /\ Len(y) = IF b <= Len(d) THEN Len(d) - b + 1 ELSE 0
          /\ \A i \in 1 .. Len(d) - b + 1 : y[i] = d[b + i - 1]
      BY <3>1, <3>2, SubSeqProperties
    <3> HIDE DEF y
    <3> QED
      BY <1>1, <1>2, <3>3
  <2>3. o \in Seq(A) /\ Len(o) = 1 /\ o[1] = key
    OBVIOUS
  <2> HIDE DEF x, y, o
  <2>4. /\ xk \in Seq(A) /\ Len(xk) = b
        /\ \A i \in 1 .. b : xk[i] = IF i < b THEN d[i] ELSE key
    <3>1. /\ xk \in Seq(A) /\ Len(xk) = Len(x) + Len(o)
          /\ \A i \in 1 .. Len(x) + Len(o) :
               xk[i] = IF i <= Len(x) THEN x[i] ELSE o[i - Len(x)]
      BY <2>1, <2>3, ConcatProperties
    <3> HIDE DEF xk
    <3>2. \A i \in 1 .. b : xk[i] = IF i <= b - 1 THEN x[i] ELSE o[i - (b - 1)]
      BY <1>2, <2>1, <2>3, <3>1
    <3>3. \A i \in 1 .. b : i <= b - 1 \/ i - (b - 1) = 1
      BY <1>2
    <3> QED
      BY <1>2, <2>1, <2>3, <3>1, <3>2, <3>3
  <2> HIDE DEF xk
  <2>5. /\ xk \o y \in Seq(A) /\ Len(xk \o y) = Len(xk) + Len(y)
        /\ \A i \in 1 .. Len(xk) + Len(y) :
             (xk \o y)[i] = IF i <= Len(xk) THEN xk[i] ELSE y[i - Len(xk)]
    BY <2>2, <2>4, ConcatProperties
  <2>6. e = xk \o y
    BY <1>3 DEF x, y, xk, o
  <2>7. Len(xk) + Len(y) = Len(d) + 1
    BY <1>1, <1>2, <2>2, <2>4
  <2>8. ASSUME NEW i \in 1 .. Len(d) + 1
        PROVE  e[i] = IF i < b THEN d[i] ELSE IF i = b THEN key ELSE d[i - 1]
    <3>1. e[i] = IF i <= b THEN xk[i] ELSE y[i - b]
      BY <2>4, <2>5, <2>6, <2>7
    <3>2. CASE i <= b
      <4>1. i \in 1 .. b
        BY <1>2, <3>2
      <4> QED
        BY <1>2, <2>4, <3>1, <3>2, <4>1
    <3>3. CASE i > b
      <4>1. i - b \in 1 .. Len(d) - b + 1 /\ b + (i - b) - 1 = i - 1
        BY <1>1, <1>2, <3>3
      <4>2. y[i - b] = d[i - 1]
        BY <2>2, <4>1
      <4> QED
        BY <1>2, <3>1, <3>3, <4>2
    <3> QED
      BY <1>2, <3>2, <3>3
  <2> QED
    BY <2>5, <2>6, <2>7, <2>8
<1>5. DOMAIN e = 1 .. Len(d) + 1
  BY <1>4, LenProperties
<1>6. Increasing(e)
  <2> SUFFICES ASSUME NEW i \in 1 .. Len(d) + 1, NEW j \in 1 .. Len(d) + 1, i < j
               PROVE  e[i] < e[j]
    BY <1>5 DEF Increasing
  <2>1. CASE j < b
    <3>1. i \in DOMAIN d /\ j \in DOMAIN d /\ e[i] = d[i] /\ e[j] = d[j]
      BY <1>1, <1>2, <1>4, <2>1
    <3> QED
      BY <3>1 DEF Increasing
  <2>2. CASE j = b
    <3>1. i \in DOMAIN d /\ e[i] = d[i] /\ e[j] = key /\ i < b
      BY <1>1, <1>2, <1>4, <2>2
    <3> QED
      BY <1>2, <3>1
  <2>3. CASE i = b
    <3>1. j - 1 \in DOMAIN d /\ e[i] = key /\ e[j] = d[j - 1] /\ ~ (j - 1 < b)
      BY <1>1, <1>2, <1>4, <2>3
    <3> QED
      BY <1>1, <1>2, <3>1
  <2>4. CASE i < b /\ j > b
    <3>1. /\ i \in DOMAIN d /\ j - 1 \in DOMAIN d /\ i < j - 1
          /\ e[i] = d[i] /\ e[j] = d[j - 1]
      BY <1>1, <1>2, <1>4, <2>4
    <3> QED
      BY <3>1 DEF Increasing
  <2>5. CASE i > b
    <3>1. /\ i - 1 \in DOMAIN d /\ j - 1 \in DOMAIN d /\ i - 1 < j - 1
          /\ e[i] = d[i - 1] /\ e[j] = d[j - 1]
      BY <1>1, <1>2, <1>4, <2>5
    <3> QED
      BY <3>1 DEF Increasing
  <2> QED
    BY <1>2, <2>1, <2>2, <2>3, <2>4, <2>5
<1>7. ToSet(e) = ToSet(d) \cup {key}
  <2>1. ASSUME NEW i \in DOMAIN e PROVE e[i] \in ToSet(d) \cup {key}
    <3>1. \/ i \in DOMAIN d /\ e[i] = d[i]
          \/ e[i] = key
          \/ i - 1 \in DOMAIN d /\ e[i] = d[i - 1]
      BY <1>1, <1>2, <1>4, <1>5
    <3> QED
      BY <3>1 DEF ToSet
  <2>2. key \in ToSet(e)
    <3>1. b \in DOMAIN e /\ e[b] = key
      BY <1>2, <1>4, <1>5
    <3> QED
      BY <3>1 DEF ToSet
  <2>3. ASSUME NEW i \in DOMAIN d PROVE d[i] \in ToSet(e)
    <3>1. CASE i < b
      <4>1. i \in DOMAIN e /\ e[i] = d[i]
        BY <1>1, <1>4, <1>5, <3>1
      <4> QED
        BY <4>1 DEF ToSet
    <3>2. CASE ~ (i < b)
      <4>1. i + 1 \in DOMAIN e /\ e[i + 1] = d[i]
        <5>1. i + 1 \in 1 .. Len(d) + 1 /\ ~ (i + 1 < b) /\ i + 1 # b /\ (i + 1) - 1 = i
          BY <1>1, <1>2, <3>2
        <5> QED
          BY <1>4, <1>5, <5>1
      <4> QED
        BY <4>1 DEF ToSet
    <3> QED
      BY <3>1, <3>2
  <2> QED
    BY <2>1, <2>2, <2>3 DEF ToSet
<1> QED
  BY <1>4, <1>6, <1>7 DEF e

-----------------------------------------------------------------------------
(* Beginnings of words.                                                    *)

(* The first letters of a word, and one letter more.                       *)
LEMMA TakeFacts ==
  ASSUME NEW A, NEW w \in Seq(A), NEW m \in 0 .. Len(w)
  PROVE  /\ SubSeq(w, 1, m) \in Seq(A) /\ Len(SubSeq(w, 1, m)) = m
         /\ \A i \in 1 .. m : SubSeq(w, 1, m)[i] = w[i]
         /\ SubSeq(w, 1, 0) = <<>> /\ SubSeq(w, 1, Len(w)) = w
<1>1. Len(w) \in Nat /\ m \in Int /\ 1 \in Int /\ 0 \in Int /\ \A i \in 1 .. m : w[i] \in A
  BY LenProperties, ElementOfSeq
<1> DEFINE x == SubSeq(w, 1, m)
<1>2. /\ x \in Seq(A) /\ Len(x) = IF 1 <= m THEN m - 1 + 1 ELSE 0
      /\ \A i \in 1 .. m - 1 + 1 : x[i] = w[1 + i - 1]
  BY <1>1, SubSeqProperties
<1> HIDE DEF x
<1>3. x \in Seq(A) /\ Len(x) = m /\ \A i \in 1 .. m : x[i] = w[i]
  BY <1>1, <1>2
<1>4. SubSeq(w, 1, Len(w)) = w /\ SubSeq(w, 1, 0) = <<>>
  BY SubSeqFull, SubSeqEmpty
<1> QED
  BY <1>3, <1>4 DEF x

(* One letter more of a word.                                              *)
LEMMA TakeSnoc ==
  ASSUME NEW A, NEW w \in Seq(A), NEW m \in 0 .. Len(w) - 1
  PROVE  /\ m + 1 \in 1 .. Len(w) /\ w[m + 1] \in A
         /\ Append(SubSeq(w, 1, m), w[m + 1]) = SubSeq(w, 1, m + 1)
<1>1. Len(w) \in Nat /\ m \in 0 .. Len(w) /\ m + 1 \in 1 .. Len(w) /\ m + 1 \in 0 .. Len(w)
  BY LenProperties
<1>2. w[m + 1] \in A
  BY <1>1, ElementOfSeq
<1> DEFINE x == SubSeq(w, 1, m)
           y == SubSeq(w, 1, m + 1)
           z == Append(x, w[m + 1])
<1>3. x \in Seq(A) /\ Len(x) = m /\ \A i \in 1 .. m : x[i] = w[i]
  BY <1>1, TakeFacts
<1>4. y \in Seq(A) /\ Len(y) = m + 1 /\ \A i \in 1 .. m + 1 : y[i] = w[i]
  BY <1>1, TakeFacts
<1> HIDE DEF x, y
<1>5. /\ z \in Seq(A) /\ Len(z) = m + 1 /\ z[m + 1] = w[m + 1]
      /\ \A i \in 1 .. m : z[i] = x[i]
  BY <1>2, <1>3, AppendProperties
<1> HIDE DEF z
<1>6. \A i \in 1 .. m + 1 : z[i] = y[i]
  BY <1>1, <1>3, <1>4, <1>5
<1>7. z = y
  BY <1>4, <1>5, <1>6, SeqEqual
<1> QED
  BY <1>1, <1>2, <1>7 DEF x, y, z

(* A beginning of a beginning.                                             *)
LEMMA TakeTake ==
  ASSUME NEW A, NEW w \in Seq(A), NEW m \in 0 .. Len(w), NEW n \in 0 .. m
  PROVE  SubSeq(SubSeq(w, 1, m), 1, n) = SubSeq(w, 1, n)
<1>1. Len(w) \in Nat /\ n \in 0 .. Len(w)
  BY LenProperties
<1> DEFINE x == SubSeq(w, 1, m)
           y == SubSeq(x, 1, n)
           z == SubSeq(w, 1, n)
<1>2. x \in Seq(A) /\ Len(x) = m /\ \A i \in 1 .. m : x[i] = w[i]
  BY TakeFacts
<1>3. z \in Seq(A) /\ Len(z) = n /\ \A i \in 1 .. n : z[i] = w[i]
  BY <1>1, TakeFacts
<1> HIDE DEF x, z
<1>4. y \in Seq(A) /\ Len(y) = n /\ \A i \in 1 .. n : y[i] = x[i]
  BY <1>2, TakeFacts
<1> HIDE DEF y
<1>5. y = z
  BY <1>2, <1>3, <1>4, SeqEqual
<1> QED
  BY <1>5 DEF x, y, z

(* A beginning of a word with a letter is one of the word, or all of it.   *)
LEMMA PrefixesFacts ==
  ASSUME NEW A, NEW w \in Seq(A)
  PROVE  /\ Prefixes(w) \in SUBSET Seq(A) /\ w \in Prefixes(w) /\ <<>> \in Prefixes(w)
         /\ \A m \in 0 .. Len(w) : SubSeq(w, 1, m) \in Prefixes(w)
         /\ \A p \in Prefixes(w) : /\ Len(p) \in 0 .. Len(w)
                                   /\ p = SubSeq(w, 1, Len(p))
         /\ \A p \in Prefixes(w) : Prefixes(p) \subseteq Prefixes(w)
         /\ \A p \in Seq(A), a \in A :
              Append(p, a) \in Prefixes(w) <=>
                p \in Prefixes(w) /\ Len(p) < Len(w) /\ a = w[Len(p) + 1]
<1>1. Len(w) \in Nat /\ 0 \in 0 .. Len(w) /\ Len(w) \in 0 .. Len(w)
  BY LenProperties
<1>2. \A m \in 0 .. Len(w) : SubSeq(w, 1, m) \in Seq(A) /\ Len(SubSeq(w, 1, m)) = m
  BY TakeFacts
<1>3. \A m \in 0 .. Len(w) : SubSeq(w, 1, m) \in Prefixes(w)
  BY DEF Prefixes
<1>4. \A p \in Prefixes(w) : Len(p) \in 0 .. Len(w) /\ p = SubSeq(w, 1, Len(p)) /\ p \in Seq(A)
  BY <1>2 DEF Prefixes
<1>5. SubSeq(w, 1, Len(w)) = w /\ SubSeq(w, 1, 0) = <<>>
  BY <1>1, TakeFacts
<1>6. ASSUME NEW p \in Prefixes(w), NEW x \in Prefixes(p) PROVE x \in Prefixes(w)
  <2>1. PICK m \in 0 .. Len(w) : p = SubSeq(w, 1, m)
    BY DEF Prefixes
  <2>2. Len(p) = m
    BY <1>2, <2>1
  <2>3. PICK n \in 0 .. m : x = SubSeq(p, 1, n)
    BY <2>2 DEF Prefixes
  <2>4. x = SubSeq(w, 1, n)
    BY <2>1, <2>3, TakeTake
  <2>5. n \in 0 .. Len(w)
    BY <1>1
  <2> QED
    BY <1>3, <2>4, <2>5
<1>7. ASSUME NEW p \in Seq(A), NEW a \in A
      PROVE  Append(p, a) \in Prefixes(w) <=>
               p \in Prefixes(w) /\ Len(p) < Len(w) /\ a = w[Len(p) + 1]
  <2>1. Append(p, a) \in Seq(A) /\ Len(Append(p, a)) = Len(p) + 1 /\ Len(p) \in Nat
    BY AppendProperties, LenProperties
  <2>2. ASSUME NEW m \in 0 .. Len(w) - 1
        PROVE  /\ Append(SubSeq(w, 1, m), w[m + 1]) = SubSeq(w, 1, m + 1)
               /\ m + 1 \in 0 .. Len(w) /\ m \in 0 .. Len(w) /\ w[m + 1] \in A
    BY <1>1, TakeSnoc
  <2>3. ASSUME Append(p, a) \in Prefixes(w)
        PROVE  p \in Prefixes(w) /\ Len(p) < Len(w) /\ a = w[Len(p) + 1]
    <3>1. PICK y \in Prefixes(w) : y = Append(p, a)
      BY <2>3
    <3>2. Len(y) \in 0 .. Len(w) /\ y = SubSeq(w, 1, Len(y)) /\ Len(y) = Len(p) + 1
      BY <1>4, <2>1, <3>1
    <3>3. PICK m \in 0 .. Len(w) - 1 : m = Len(p)
      BY <1>1, <2>1, <3>2
    <3>4. PICK x \in Seq(A), b \in A : /\ Append(x, b) = SubSeq(w, 1, m + 1)
                                       /\ x = SubSeq(w, 1, m) /\ b = w[m + 1]
      BY <1>2, <2>2
    <3>5. Append(x, b) = Append(p, a)
      BY <3>1, <3>2, <3>3, <3>4
    <3>6. x = p /\ b = a
      BY <3>5, AppendInjective
    <3>7. x \in Prefixes(w) /\ m < Len(w)
      BY <1>1, <1>3, <2>2, <3>4
    <3> QED
      BY <3>3, <3>4, <3>6, <3>7
  <2>4. ASSUME p \in Prefixes(w), Len(p) < Len(w), a = w[Len(p) + 1]
        PROVE  Append(p, a) \in Prefixes(w)
    <3>1. Len(p) \in 0 .. Len(w) - 1 /\ p = SubSeq(w, 1, Len(p))
      BY <1>1, <1>4, <2>1, <2>4
    <3> QED
      BY <1>3, <2>2, <2>4, <3>1
  <2> QED
    BY <2>3, <2>4
<1>8. w \in Prefixes(w) /\ <<>> \in Prefixes(w)
  <2>1. SubSeq(w, 1, Len(w)) \in Prefixes(w) /\ SubSeq(w, 1, 0) \in Prefixes(w)
    BY <1>1, <1>3
  <2> QED
    BY <1>5, <2>1, Zenon
<1>9. Prefixes(w) \in SUBSET Seq(A) /\ \A p \in Prefixes(w) : Prefixes(p) \subseteq Prefixes(w)
  BY <1>4, <1>6
<1> QED
  BY <1>3, <1>4, <1>7, <1>8, <1>9

-----------------------------------------------------------------------------
(* Tries.                                                                  *)

(* A trie with a root: finitely high, with the nodes on the way to every   *)
(* node, and with a letter in a node for each of the nodes below it.       *)
IsTree(t, A) ==
  /\ DOMAIN t \in SUBSET Seq(A) /\ t \in [DOMAIN t -> Seq(A)]
  /\ <<>> \in DOMAIN t
  /\ \E L \in Nat : \A p \in DOMAIN t : Len(p) <= L
  /\ \A p \in Seq(A), a \in A : Append(p, a) \in DOMAIN t => p \in DOMAIN t
  /\ \A p \in DOMAIN t : Increasing(t[p])
  /\ \A p \in DOMAIN t, a \in A : a \in ToSet(t[p]) <=> Append(p, a) \in DOMAIN t

IsTrie(t, A) == t = clear \/ IsTree(t, A)

(* The null pointer has no nodes.                                          *)
LEMMA ClearIs == DOMAIN clear = {}
BY DEF clear

(* The beginnings of a node are nodes.                                     *)
LEMMA NodeHasPrefixes ==
  ASSUME NEW A, NEW t, IsTree(t, A), NEW p \in DOMAIN t
  PROVE  Prefixes(p) \subseteq DOMAIN t
<1>1. p \in Seq(A) /\ Len(p) \in Nat
  BY LenProperties DEF IsTree
<1> DEFINE K == {j \in Nat : j <= Len(p) => SubSeq(p, 1, Len(p) - j) \in DOMAIN t}
<1>2. 0 \in K
  <2>1. SubSeq(p, 1, Len(p)) = p
    BY <1>1, SubSeqFull
  <2>2. Len(p) - 0 = Len(p)
    BY <1>1
  <2>3. SubSeq(p, 1, Len(p) - 0) \in DOMAIN t
    BY <2>1, <2>2, Zenon
  <2> QED
    BY <2>3
<1>3. ASSUME NEW j \in Nat, j \in K PROVE j + 1 \in K
  <2> SUFFICES ASSUME j + 1 <= Len(p)
               PROVE  SubSeq(p, 1, Len(p) - (j + 1)) \in DOMAIN t
    OBVIOUS
  <2> DEFINE m == Len(p) - (j + 1)
  <2>1. m \in 0 .. Len(p) - 1 /\ m \in 0 .. Len(p) /\ m + 1 = Len(p) - j
    BY <1>1
  <2>2. SubSeq(p, 1, m + 1) \in DOMAIN t
    BY <1>1, <1>3, <2>1
  <2> HIDE DEF m
  <2>3. Append(SubSeq(p, 1, m), p[m + 1]) = SubSeq(p, 1, m + 1) /\ p[m + 1] \in A
    BY <1>1, <2>1, TakeSnoc
  <2>4. SubSeq(p, 1, m) \in Seq(A)
    BY <1>1, <2>1, TakeFacts
  <2>5. SubSeq(p, 1, m) \in DOMAIN t
    BY <2>2, <2>3, <2>4, ZenonT(60) DEF IsTree
  <2> QED
    BY <2>5 DEF m
<1> HIDE DEF K
<1>4. \A j \in Nat : j \in K
  BY <1>2, <1>3, NatSetInduction
<1>5. ASSUME NEW m \in 0 .. Len(p) PROVE SubSeq(p, 1, m) \in DOMAIN t
  <2>1. Len(p) - m \in K /\ Len(p) - m \in Nat /\ Len(p) - m <= Len(p) /\ Len(p) - (Len(p) - m) = m
    BY <1>1, <1>4
  <2> QED
    BY <2>1 DEF K
<1> QED
  BY <1>5 DEF Prefixes

(* What lower_bound and the walk rely on follows.                          *)
LEMMA TrieIsWellFormed ==
  ASSUME NEW A \in SUBSET Int, NEW t, IsTrie(t, A)
  PROVE  DOMAIN t \subseteq Seq(A) /\ WellFormed(t)
<1>1. CASE t = clear
  BY <1>1, ClearIs DEF WellFormed
<1>2. CASE IsTree(t, A)
  <2>1. DOMAIN t \subseteq Seq(A) /\ <<>> \in DOMAIN t
    BY <1>2 DEF IsTree
  <2>2. ASSUME NEW p \in DOMAIN t
        PROVE  \A i, j \in DOMAIN t[p] : i < j => t[p][i] < t[p][j]
    BY <1>2 DEF IsTree, Increasing
  <2>3. ASSUME NEW p \in DOMAIN t, NEW j \in DOMAIN t[p]
        PROVE  Append(p, t[p][j]) \in DOMAIN t
    <3>1. t[p] \in Seq(A)
      BY <1>2 DEF IsTree
    <3>2. t[p][j] \in A /\ t[p][j] \in ToSet(t[p])
      BY <3>1, ElementOfSeq, LenProperties DEF ToSet
    <3> QED
      BY <1>2, <3>2 DEF IsTree
  <2>4. ASSUME NEW p \in DOMAIN t, p # <<>>
        PROVE  Front(p) \in DOMAIN t /\ Last(p) \in ToSet(t[Front(p)])
    <3>1. p \in Seq(A)
      BY <2>1
    <3>2. Len(p) \in Nat \ {0}
      BY <2>4, <3>1, EmptySeq
    <3> DEFINE m == Len(p) - 1
    <3>3. m \in 0 .. Len(p) - 1 /\ m \in 0 .. Len(p) /\ m + 1 = Len(p)
      BY <3>2
    <3>4. Front(p) = SubSeq(p, 1, m) /\ Last(p) = p[m + 1]
      BY <3>3 DEF Front, Last
    <3> HIDE DEF m
    <3>5. Append(SubSeq(p, 1, m), p[m + 1]) = SubSeq(p, 1, m + 1) /\ p[m + 1] \in A
      BY <3>1, <3>3, TakeSnoc
    <3>6. SubSeq(p, 1, m) \in Prefixes(p) /\ SubSeq(p, 1, m + 1) = p
      BY <3>1, <3>3, PrefixesFacts, TakeFacts
    <3>7. SubSeq(p, 1, m) \in DOMAIN t
      BY <1>2, <3>6, NodeHasPrefixes
    <3>8. p[m + 1] \in ToSet(t[SubSeq(p, 1, m)])
      BY <1>2, <3>5, <3>6, <3>7 DEF IsTree
    <3> QED
      BY <3>4, <3>7, <3>8
  <2> QED
    BY <2>1, <2>2, <2>3, <2>4 DEF WellFormed
<1> QED
  BY <1>1, <1>2 DEF IsTrie

(* On its way down, insert meets all beginnings that are nodes.            *)
LEMMA DepthIs ==
  ASSUME NEW A \in SUBSET Int, NEW t, IsTree(t, A), NEW w \in Seq(A)
  PROVE  /\ Depth(t, w) \in 0 .. Len(w)
         /\ \A m \in 0 .. Len(w) : SubSeq(w, 1, m) \in DOMAIN t <=> m <= Depth(t, w)
<1> DEFINE S == {n \in 1 .. Len(w) : \A m \in 1 .. n : Found(t[SubSeq(w, 1, m - 1)], w[m])}
<1>1. Len(w) \in Nat
  BY LenProperties
<1>2. ASSUME NEW n \in 1 .. Len(w), SubSeq(w, 1, n - 1) \in DOMAIN t
      PROVE  Found(t[SubSeq(w, 1, n - 1)], w[n]) <=> SubSeq(w, 1, n) \in DOMAIN t
  <2> DEFINE x == SubSeq(w, 1, n - 1)
  <2>1. n - 1 \in 0 .. Len(w) - 1 /\ (n - 1) + 1 = n
    BY <1>1
  <2>2. Append(x, w[n]) = SubSeq(w, 1, n) /\ w[n] \in A
    BY <2>1, TakeSnoc
  <2>3. t[x] \in Seq(A) /\ Increasing(t[x])
    BY <1>2 DEF IsTree
  <2>4. Found(t[x], w[n]) <=> w[n] \in ToSet(t[x])
    BY <2>2, <2>3, LowerBound
  <2>5. w[n] \in ToSet(t[x]) <=> Append(x, w[n]) \in DOMAIN t
    BY <1>2, <2>2 DEF IsTree
  <2> QED
    BY <2>2, <2>4, <2>5
<1>3. ASSUME NEW n \in 0 .. Len(w), SubSeq(w, 1, n) \in DOMAIN t, NEW m \in 0 .. n
      PROVE  SubSeq(w, 1, m) \in DOMAIN t
  <2>1. Prefixes(SubSeq(w, 1, n)) \subseteq DOMAIN t
    BY <1>3, NodeHasPrefixes
  <2>2. SubSeq(w, 1, n) \in Seq(A) /\ Len(SubSeq(w, 1, n)) = n
    BY TakeFacts
  <2>3. SubSeq(SubSeq(w, 1, n), 1, m) \in Prefixes(SubSeq(w, 1, n))
    BY <2>2, PrefixesFacts
  <2>4. SubSeq(SubSeq(w, 1, n), 1, m) = SubSeq(w, 1, m)
    BY TakeTake
  <2> QED
    BY <2>1, <2>3, <2>4
<1>4. ASSUME NEW n \in 1 .. Len(w), SubSeq(w, 1, n) \in DOMAIN t PROVE n \in S
  <2> SUFFICES ASSUME NEW m \in 1 .. n PROVE Found(t[SubSeq(w, 1, m - 1)], w[m])
    OBVIOUS
  <2>1. n \in 0 .. Len(w) /\ m \in 0 .. n /\ m - 1 \in 0 .. n /\ m \in 1 .. Len(w)
    BY <1>1
  <2>2. SubSeq(w, 1, m) \in DOMAIN t
    BY <1>3, <1>4, <2>1
  <2>3. SubSeq(w, 1, m - 1) \in DOMAIN t
    BY <1>3, <1>4, <2>1
  <2> QED
    BY <1>2, <2>1, <2>2, <2>3
<1> DEFINE K == {n \in Nat : n \in S => SubSeq(w, 1, n) \in DOMAIN t}
<1>5. \A n \in Nat : n \in K
  <2>1. 0 \in K
    OBVIOUS
  <2>2. ASSUME NEW n \in Nat, n \in K PROVE n + 1 \in K
    <3> SUFFICES ASSUME n + 1 \in S PROVE SubSeq(w, 1, n + 1) \in DOMAIN t
      OBVIOUS
    <3>1. n + 1 \in 1 .. Len(w) /\ \A m \in 1 .. n + 1 : Found(t[SubSeq(w, 1, m - 1)], w[m])
      OBVIOUS
    <3>2. SubSeq(w, 1, n) \in DOMAIN t
      <4>1. CASE n = 0
        <5>1. SubSeq(w, 1, 0) = <<>>
          BY <1>1, TakeFacts
        <5> QED
          BY <4>1, <5>1 DEF IsTree
      <4>2. CASE n # 0
        <5>1. n \in 1 .. Len(w) /\ \A m \in 1 .. n : m \in 1 .. n + 1
          BY <1>1, <3>1, <4>2
        <5>2. n \in S
          BY <3>1, <5>1
        <5> QED
          BY <2>2, <5>2
      <4> QED
        BY <4>1, <4>2
    <3>3. (n + 1) - 1 = n /\ n + 1 \in 1 .. n + 1
      OBVIOUS
    <3>4. Found(t[SubSeq(w, 1, n)], w[n + 1])
      BY <3>1, <3>3
    <3> QED
      BY <1>2, <3>1, <3>2, <3>3, <3>4
  <2> HIDE DEF K
  <2> QED
    BY <2>1, <2>2, NatSetInduction
<1>6. S \in SUBSET (1 .. Len(w)) /\ \A i \in S : \A j \in 1 .. i : j \in S
  <2> SUFFICES ASSUME NEW i \in S, NEW j \in 1 .. i PROVE j \in S
    OBVIOUS
  <2>1. j \in 1 .. Len(w) /\ \A m \in 1 .. j : m \in 1 .. i
    BY <1>1
  <2> QED
    BY <2>1
<1>7. Depth(t, w) = Cardinality(S)
  BY DEF Depth
<1>8. \A n \in 1 .. Len(w) : n \in S <=> SubSeq(w, 1, n) \in DOMAIN t
  BY <1>4, <1>5
<1>9. SubSeq(w, 1, 0) \in DOMAIN t
  <2>1. 0 \in 0 .. Len(w)
    BY <1>1
  <2>2. SubSeq(w, 1, 0) = <<>>
    BY <2>1, TakeFacts
  <2> QED
    BY <2>2, Zenon DEF IsTree
<1> HIDE DEF S
<1>10. Cardinality(S) \in 0 .. Len(w) /\ S = 1 .. Cardinality(S)
  BY <1>1, <1>6, InitialSegment
<1>11. ASSUME NEW m \in 0 .. Len(w)
       PROVE  SubSeq(w, 1, m) \in DOMAIN t <=> m <= Cardinality(S)
  <2>1. CASE m = 0
    BY <1>9, <1>10, <2>1
  <2>2. CASE m # 0
    <3>1. m \in 1 .. Len(w)
      BY <1>1, <2>2
    <3>2. m \in S <=> m <= Cardinality(S)
      BY <1>10, <3>1
    <3> QED
      BY <1>8, <3>1, <3>2
  <2> QED
    BY <2>1, <2>2
<1> QED
  BY <1>7, <1>10, <1>11

(* insert adds the word and the nodes on the way to it, and tells whether  *)
(* the word was there.                                                     *)
LEMMA InsertIs ==
  ASSUME NEW A \in SUBSET Int, NEW t, IsTrie(t, A), NEW w \in Seq(A)
  PROVE  /\ IsTree(insert(t, w), A)
         /\ DOMAIN insert(t, w) = DOMAIN t \cup Prefixes(w)
         /\ IsNew(t, w) <=> w \notin DOMAIN t
<1> DEFINE root == IF t = clear THEN trie_node ELSE t
           n == Depth(root, w)
           last == SubSeq(w, 1, n)
           D == DOMAIN root \cup Prefixes(w)
           r == [p \in D |->
                   CASE p = last                   -> emplace(root[last], w[n + 1])
                     [] p \in DOMAIN root \ {last} -> root[p]
                     [] p \notin DOMAIN root        -> chain(w)[p]]
<1>1. IsTree(root, A) /\ DOMAIN root = DOMAIN t \cup {<<>>}
  <2>1. CASE t = clear
    <3>1. DOMAIN trie_node = {<<>>} /\ trie_node[<<>>] = <<>>
          /\ trie_node = [p \in {<<>>} |-> <<>>]
      BY DEF trie_node
    <3>2. root = trie_node
      BY <2>1
    <3>3. /\ <<>> \in Seq(A) /\ Len(<<>>) = 0 /\ 0 \in Nat /\ DOMAIN <<>> = {}
          /\ \A p \in Seq(A), a \in A : Append(p, a) # <<>>
      BY EmptySeq, AppendProperties
    <3>4. trie_node \in [DOMAIN trie_node -> Seq(A)] /\ DOMAIN trie_node \in SUBSET Seq(A)
      BY <3>1, <3>3
    <3>5. Increasing(<<>>) /\ ToSet(<<>>) = {}
      BY <3>3 DEF Increasing, ToSet
    <3>6. \E L \in Nat : \A p \in DOMAIN trie_node : Len(p) <= L
      BY <3>1, <3>3
    <3>7. \A p \in Seq(A), a \in A : Append(p, a) \notin DOMAIN trie_node
      BY <3>1, <3>3
    <3>8. \A p \in DOMAIN trie_node : Increasing(trie_node[p]) /\ ToSet(trie_node[p]) = {}
      BY <3>1, <3>5
    <3> HIDE DEF root
    <3>9. IsTree(trie_node, A)
      BY <3>1, <3>4, <3>6, <3>7, <3>8 DEF IsTree
    <3> QED
      BY <2>1, <3>1, <3>2, <3>9, ClearIs
  <2>2. CASE t # clear
    <3>1. root = t /\ IsTree(t, A)
      BY <2>2 DEF IsTrie
    <3>2. <<>> \in DOMAIN t
      BY <3>1 DEF IsTree
    <3> QED
      BY <3>1, <3>2
  <2> QED
    BY <2>1, <2>2
<1>2. insert(t, w) = IF n = Len(w) THEN root ELSE r
  BY DEF insert
<1>3. IsNew(t, w) <=> t = clear \/ Depth(t, w) < Len(w)
  BY DEF IsNew
<1>4. t # clear => root = t
  OBVIOUS
<1> HIDE DEF root
<1>5. /\ n \in 0 .. Len(w) /\ Len(w) \in Nat
      /\ \A m \in 0 .. Len(w) : SubSeq(w, 1, m) \in DOMAIN root <=> m <= n
  BY <1>1, DepthIs, LenProperties
<1>6. /\ Prefixes(w) \in SUBSET Seq(A) /\ w \in Prefixes(w) /\ <<>> \in Prefixes(w)
      /\ \A p \in Prefixes(w) : Len(p) \in 0 .. Len(w) /\ p = SubSeq(w, 1, Len(p))
      /\ \A m \in 0 .. Len(w) : SubSeq(w, 1, m) \in Prefixes(w)
  BY PrefixesFacts
<1>7. /\ last \in Seq(A) /\ Len(last) = n /\ last \in DOMAIN root /\ last \in Prefixes(w)
  <2>1. n <= n
    BY <1>5
  <2> QED
    BY <1>5, <1>6, <2>1, TakeFacts
<1>8. SubSeq(w, 1, Len(w)) = w /\ Len(w) \in 0 .. Len(w)
  BY <1>5, SubSeqFull
<1>9. w \in DOMAIN root <=> n = Len(w)
  <2>1. SubSeq(w, 1, Len(w)) \in DOMAIN root <=> Len(w) <= n
    BY <1>5, <1>8
  <2>2. w \in DOMAIN root <=> Len(w) <= n
    BY <1>8, <2>1, Zenon
  <2> QED
    BY <1>5, <2>2
<1>10. DOMAIN t \cup Prefixes(w) = D
  BY <1>1, <1>6
<1>11. IsNew(t, w) <=> w \notin DOMAIN t
  <2>1. CASE t = clear
    BY <1>3, <2>1, ClearIs
  <2>2. CASE t # clear
    BY <1>3, <1>4, <1>5, <1>9, <2>2
  <2> QED
    BY <2>1, <2>2
<1>12. CASE n = Len(w)
  <2>1. insert(t, w) = root
    BY <1>2, <1>12
  <2>2. Prefixes(w) \subseteq DOMAIN root
    BY <1>1, <1>9, <1>12, NodeHasPrefixes
  <2> QED
    BY <1>1, <1>10, <1>11, <2>1, <2>2
<1>13. CASE n # Len(w)
  <2>1. insert(t, w) = r
    BY <1>2, <1>13
  <2>2. n \in 0 .. Len(w) - 1 /\ n + 1 \in 1 .. Len(w) /\ w[n + 1] \in A
    <3>1. n \in 0 .. Len(w) - 1
      BY <1>5, <1>13
    <3> QED
      BY <3>1, TakeSnoc
  <2> DEFINE key == w[n + 1]
             e == emplace(root[last], key)
  <2>3. root[last] \in Seq(A) /\ Increasing(root[last])
    BY <1>1, <1>7 DEF IsTree
  <2>4. Append(last, key) \in Prefixes(w) /\ Append(last, key) \notin DOMAIN root
    <3>1. Append(last, key) = SubSeq(w, 1, n + 1)
      BY <2>2, TakeSnoc
    <3>2. n + 1 \in 0 .. Len(w) /\ ~ (n + 1 <= n)
      BY <2>2
    <3> HIDE DEF n, last, key
    <3> QED
      BY <1>5, <1>6, <3>1, <3>2
  <2>5. key \notin ToSet(root[last])
    BY <1>1, <1>7, <2>2, <2>4 DEF IsTree
  <2>6. e \in Seq(A) /\ Increasing(e) /\ ToSet(e) = ToSet(root[last]) \cup {key}
    BY <2>2, <2>3, <2>5, EmplaceIsRight, ZenonT(60)
  <2>7. /\ DOMAIN r = D /\ r = [p \in D |-> r[p]]
        /\ r[last] = e
        /\ \A p \in DOMAIN root : p # last => r[p] = root[p]
        /\ \A p \in D : p \notin DOMAIN root => r[p] = chain(w)[p]
    <3>1. DOMAIN r = D /\ r = [p \in D |-> r[p]]
      OBVIOUS
    <3>2. r[last] = e
      BY <1>7
    <3>3. ASSUME NEW p \in DOMAIN root, p # last PROVE r[p] = root[p]
      BY <3>3
    <3>4. ASSUME NEW p \in D, p \notin DOMAIN root PROVE r[p] = chain(w)[p]
      <4>1. p # last
        BY <1>7, <3>4
      <4> QED
        BY <3>4, <4>1
    <3> QED
      BY <3>1, <3>2, <3>3, <3>4
  <2>8. ASSUME NEW p \in Prefixes(w), p \notin DOMAIN root
        PROVE  chain(w)[p] = IF p = w THEN <<>> ELSE <<w[Len(p) + 1]>>
    BY DEF chain
  <2> HIDE DEF r, e, last, n, key
  <2>9. ASSUME NEW p \in D, p \notin DOMAIN root
        PROVE  /\ p \in Prefixes(w) /\ p \in Seq(A) /\ Len(p) \in n + 1 .. Len(w)
               /\ r[p] \in Seq(A) /\ Increasing(r[p])
               /\ ToSet(r[p]) = {a \in A : Len(p) < Len(w) /\ a = w[Len(p) + 1]}
    <3>1. p \in Prefixes(w) /\ p \in Seq(A) /\ Len(p) \in 0 .. Len(w) /\ p = SubSeq(w, 1, Len(p))
      BY <1>6, <2>9
    <3>2. ~ (Len(p) <= n)
      BY <1>5, <2>9, <3>1
    <3>3. Len(p) \in n + 1 .. Len(w)
      BY <1>5, <3>1, <3>2
    <3>4. CASE p = w
      <4>1. r[p] = <<>>
        BY <2>7, <2>8, <2>9, <3>1, <3>4
      <4>2. DOMAIN <<>> = {} /\ <<>> \in Seq(A)
        OBVIOUS
      <4>3. ToSet(r[p]) = {} /\ Increasing(r[p])
        BY <4>1, <4>2 DEF ToSet, Increasing
      <4>4. ~ (Len(p) < Len(w))
        BY <1>5, <3>4
      <4> QED
        BY <3>1, <3>3, <4>1, <4>2, <4>3, <4>4
    <3>5. CASE p # w
      <4>1. Len(p) # Len(w)
        BY <1>8, <3>1, <3>5
      <4>2. Len(p) < Len(w) /\ Len(p) + 1 \in 1 .. Len(w)
        BY <1>5, <3>1, <4>1
      <4>3. w[Len(p) + 1] \in A
        BY <4>2, ElementOfSeq
      <4> DEFINE b == w[Len(p) + 1]
      <4>4. r[p] = <<b>>
        BY <2>7, <2>8, <2>9, <3>1, <3>5
      <4> HIDE DEF b
      <4>5. <<b>> \in Seq(A) /\ DOMAIN <<b>> = {1} /\ <<b>>[1] = b
        BY <4>3 DEF b
      <4>6. ToSet(r[p]) = {b} /\ Increasing(r[p])
        BY <4>4, <4>5 DEF ToSet, Increasing
      <4> QED
        BY <3>1, <3>3, <4>2, <4>3, <4>4, <4>5, <4>6 DEF b
    <3> QED
      BY <3>4, <3>5
  <2>10. /\ DOMAIN root \in SUBSET Seq(A) /\ <<>> \in DOMAIN root
         /\ \A p \in DOMAIN root : root[p] \in Seq(A) /\ Increasing(root[p])
         /\ \A p \in DOMAIN root, a \in A :
              a \in ToSet(root[p]) <=> Append(p, a) \in DOMAIN root
         /\ \A p \in Seq(A), a \in A : Append(p, a) \in DOMAIN root => p \in DOMAIN root
    BY <1>1 DEF IsTree
  <2>11. \A p \in Seq(A), a \in A :
           Append(p, a) \in Prefixes(w) <=>
             p \in Prefixes(w) /\ Len(p) < Len(w) /\ a = w[Len(p) + 1]
    BY PrefixesFacts
  <2>12. ASSUME NEW p \in D
         PROVE  r[p] \in Seq(A) /\ Increasing(r[p])
    <3>1. CASE p \notin DOMAIN root
      BY <2>9, <3>1
    <3>2. CASE p = last
      BY <2>6, <2>7, <3>2
    <3>3. CASE p \in DOMAIN root /\ p # last
      BY <2>7, <2>10, <3>3
    <3> QED
      BY <3>1, <3>2, <3>3
  <2>13. D \in SUBSET Seq(A) /\ <<>> \in D
    BY <1>6, <2>10
  <2>14. \E L \in Nat : \A p \in D : Len(p) <= L
    <3>1. PICK L \in Nat : \A p \in DOMAIN root : Len(p) <= L
      BY <1>1 DEF IsTree
    <3>2. ASSUME NEW p \in D PROVE Len(p) <= L + Len(w)
      <4>1. Len(p) \in Nat
        BY <2>13, LenProperties
      <4> QED
        BY <1>5, <1>6, <3>1, <4>1, SMTT(30)
    <3> QED
      BY <1>5, <3>2, SMTT(30)
  <2>15. ASSUME NEW p \in Seq(A), NEW a \in A, Append(p, a) \in D PROVE p \in D
    BY <2>10, <2>11, <2>15
  <2>16. ASSUME NEW p \in D, NEW a \in A
         PROVE  a \in ToSet(r[p]) <=> Append(p, a) \in D
    <3>1. p \in Seq(A)
      BY <2>13
    <3>2. CASE p \notin DOMAIN root
      <4>1. Append(p, a) \notin DOMAIN root
        BY <2>10, <3>1, <3>2
      <4>2. /\ p \in Prefixes(w)
            /\ ToSet(r[p]) = {b \in A : Len(p) < Len(w) /\ b = w[Len(p) + 1]}
        BY <2>9, <3>2
      <4> QED
        BY <2>11, <3>1, <4>1, <4>2
    <3>3. CASE p = last
      <4>1. a \in ToSet(r[p]) <=> a \in ToSet(root[last]) \/ a = key
        BY <2>6, <2>7, <3>3
      <4>2. a \in ToSet(root[last]) <=> Append(p, a) \in DOMAIN root
        BY <1>7, <2>10, <3>3
      <4>3. Append(p, a) \in Prefixes(w) <=> a = key
        <5>1. Len(p) = n /\ n < Len(w) /\ p \in Prefixes(w)
          BY <1>5, <1>7, <2>2, <3>3
        <5> QED
          BY <2>11, <3>1, <5>1 DEF key
      <4> QED
        BY <4>1, <4>2, <4>3
    <3>4. CASE p \in DOMAIN root /\ p # last
      <4>1. r[p] = root[p]
        BY <2>7, <3>4
      <4>2. a \in ToSet(root[p]) <=> Append(p, a) \in DOMAIN root
        BY <2>10, <3>4
      <4>3. ASSUME Append(p, a) \in Prefixes(w) PROVE Append(p, a) \in DOMAIN root
        <5>1. p \in Prefixes(w) /\ Len(p) < Len(w)
          BY <2>11, <3>1, <4>3
        <5>2. Len(p) \in 0 .. Len(w) /\ p = SubSeq(w, 1, Len(p))
          BY <1>6, <5>1
        <5>3. Len(p) <= n
          BY <1>5, <3>4, <5>2
        <5>4. Len(p) # n
          BY <3>4, <5>2 DEF last
        <5>5. Len(p) \in 0 .. Len(w) - 1 /\ Len(p) + 1 \in 0 .. Len(w) /\ Len(p) + 1 <= n
          <6>1. Len(w) \in Nat /\ n \in Int /\ Len(p) \in Nat
            BY <1>5, <5>2
          <6> HIDE DEF n
          <6> QED
            BY <5>1, <5>3, <5>4, <6>1
        <5>6. Append(SubSeq(w, 1, Len(p)), w[Len(p) + 1]) = SubSeq(w, 1, Len(p) + 1)
          BY <5>5, TakeSnoc
        <5>7. a = w[Len(p) + 1]
          BY <2>11, <3>1, <4>3
        <5>8. Append(p, a) = SubSeq(w, 1, Len(p) + 1)
          BY <5>2, <5>6, <5>7, Zenon
        <5> QED
          BY <1>5, <5>5, <5>8
      <4> QED
        BY <4>1, <4>2, <4>3
    <3> QED
      BY <3>2, <3>3, <3>4
  <2>17. r \in [D -> Seq(A)]
    BY <2>7, <2>12
  <2> HIDE DEF D
  <2>18. IsTree(r, A)
    BY <2>7, <2>12, <2>13, <2>14, <2>15, <2>16, <2>17 DEF IsTree
  <2> QED
    BY <1>10, <1>11, <2>1, <2>7, <2>18
<1> QED
  BY <1>12, <1>13

-----------------------------------------------------------------------------
(* The words of a trie.                                                    *)

(* Sequences without repetitions and without common elements, one after    *)
(* the other, do not repeat anything.                                      *)
LEMMA ConcatInjective ==
  ASSUME NEW S, NEW x \in Seq(S), NEW y \in Seq(S), IsInjective(x), IsInjective(y),
         ToSet(x) \cap ToSet(y) = {}
  PROVE  IsInjective(x \o y)
<1> DEFINE z == x \o y
<1>1. /\ DOMAIN x = 1 .. Len(x) /\ DOMAIN y = 1 .. Len(y)
      /\ Len(x) \in Nat /\ Len(y) \in Nat
  BY LenProperties
<1>2. /\ z \in Seq(S) /\ Len(z) = Len(x) + Len(y)
      /\ \A i \in 1 .. Len(x) + Len(y) : z[i] = IF i <= Len(x) THEN x[i] ELSE y[i - Len(x)]
  BY ConcatProperties
<1>3. DOMAIN z = 1 .. Len(x) + Len(y)
  BY <1>2, LenProperties
<1> HIDE DEF z
<1>4. ASSUME NEW i \in 1 .. Len(x) + Len(y)
      PROVE  \/ i \in DOMAIN x /\ z[i] = x[i] /\ z[i] \in ToSet(x)
             \/ i - Len(x) \in DOMAIN y /\ z[i] = y[i - Len(x)] /\ z[i] \in ToSet(y)
  <2>1. \/ i \in 1 .. Len(x) /\ z[i] = x[i]
        \/ i - Len(x) \in 1 .. Len(y) /\ z[i] = y[i - Len(x)]
    BY <1>1, <1>2
  <2> QED
    BY <1>1, <2>1 DEF ToSet
<1>5. ASSUME NEW i \in 1 .. Len(x) + Len(y), NEW j \in 1 .. Len(x) + Len(y), z[i] = z[j]
      PROVE  i = j
  <2>1. CASE z[i] \in ToSet(x)
    <3>1. i \in DOMAIN x /\ j \in DOMAIN x /\ x[i] = x[j]
      BY <1>4, <1>5, <2>1
    <3> QED
      BY <3>1 DEF IsInjective
  <2>2. CASE z[i] \notin ToSet(x)
    <3>1. /\ i - Len(x) \in DOMAIN y /\ j - Len(x) \in DOMAIN y
          /\ y[i - Len(x)] = y[j - Len(x)]
      BY <1>4, <1>5, <2>2
    <3>2. i - Len(x) = j - Len(x)
      BY <3>1 DEF IsInjective
    <3> QED
      BY <1>1, <3>2
  <2> QED
    BY <2>1, <2>2
<1> QED
  BY <1>3, <1>5 DEF IsInjective, z

(* No element is in two of the sequences, and none twice in one.           *)
DisjointLists(ss) ==
  /\ \A i \in DOMAIN ss : IsInjective(ss[i])
  /\ \A i, j \in DOMAIN ss : i # j => ToSet(ss[i]) \cap ToSet(ss[j]) = {}

(* Lists without common elements and without repetitions, put together.    *)
LEMMA FlattenInjective ==
  ASSUME NEW S
  PROVE  \A ss \in Seq(Seq(S)) : DisjointLists(ss) => IsInjective(FlattenSeq(ss))
<1> DEFINE K == {n \in Nat : \A ss \in Seq(Seq(S)) :
                   Len(ss) = n /\ DisjointLists(ss) => IsInjective(FlattenSeq(ss))}
<1>1. 0 \in K
  <2> SUFFICES ASSUME NEW ss \in Seq(Seq(S)), Len(ss) = 0
               PROVE  IsInjective(FlattenSeq(ss))
    OBVIOUS
  <2>1. ss = <<>> /\ DOMAIN <<>> = {}
    BY EmptySeq
  <2>2. FlattenSeq(ss) = <<>>
    BY <2>1 DEF FlattenSeq
  <2> QED
    BY <2>1, <2>2 DEF IsInjective
<1>2. ASSUME NEW n \in Nat, n \in K PROVE n + 1 \in K
  <2> SUFFICES ASSUME NEW sx \in Seq(Seq(S)), Len(sx) = n + 1, DisjointLists(sx)
               PROVE  IsInjective(FlattenSeq(sx))
    OBVIOUS
  <2>1. sx # <<>>
    BY EmptySeq
  <2>2. PICK ss \in Seq(Seq(S)), x \in Seq(S) : sx = Append(ss, x)
    BY <2>1, SequenceEmptyOrAppend
  <2>3. /\ Len(ss) = n /\ DOMAIN ss = 1 .. n /\ DOMAIN sx = 1 .. n + 1
        /\ sx[n + 1] = x /\ \A i \in 1 .. n : sx[i] = ss[i]
    BY <2>2, AppendProperties, LenProperties
  <2>4. \A i \in 1 .. n : i \in 1 .. n + 1 /\ i # n + 1
    OBVIOUS
  <2>5. n + 1 \in 1 .. n + 1
    OBVIOUS
  <2>6. DisjointLists(ss)
    BY <2>3, <2>4 DEF DisjointLists
  <2>7. IsInjective(FlattenSeq(ss))
    BY <1>2, <2>3, <2>6
  <2>8. FlattenSeq(ss) \in Seq(S) /\ FlattensWell(ss)
    BY FlattenFacts
  <2>9. IsInjective(x) /\ \A i \in DOMAIN ss : ToSet(ss[i]) \cap ToSet(x) = {}
    BY <2>3, <2>4, <2>5 DEF DisjointLists
  <2>10. ToSet(FlattenSeq(ss)) \cap ToSet(x) = {}
    BY <2>8, <2>9 DEF FlattensWell
  <2>11. FlattenSeq(sx) = FlattenSeq(ss) \o x
    BY <2>2, FlattenSnoc
  <2> QED
    BY <2>7, <2>8, <2>9, <2>10, <2>11, ConcatInjective
<1> HIDE DEF K
<1>3. \A n \in Nat : n \in K
  BY <1>1, <1>2, NatSetInduction
<1> QED
  BY <1>3, LenProperties DEF K

TrieLeaves(t) == {p \in DOMAIN t : t[p] = <<>>}

(* A node below another one is the other one, or below one of its letters. *)
LEMMA BelowNode ==
  ASSUME NEW A, NEW t, IsTree(t, A), NEW p \in DOMAIN t, NEW v \in DOMAIN t
  PROVE  /\ p \in Prefixes(v) <=>
              v = p \/ \E a \in ToSet(t[p]) : Append(p, a) \in Prefixes(v)
         /\ \A a, b \in ToSet(t[p]) :
              Append(p, a) \in Prefixes(v) /\ Append(p, b) \in Prefixes(v) => a = b
<1>1. p \in Seq(A) /\ v \in Seq(A) /\ t[p] \in Seq(A)
  BY DEF IsTree
<1>2. /\ v \in Prefixes(v)
      /\ \A x \in Prefixes(v) : Len(x) \in 0 .. Len(v) /\ x = SubSeq(v, 1, Len(x))
      /\ \A x \in Seq(A), a \in A : Append(x, a) \in Prefixes(v) <=>
           x \in Prefixes(v) /\ Len(x) < Len(v) /\ a = v[Len(x) + 1]
  BY <1>1, PrefixesFacts
<1>3. ToSet(t[p]) \subseteq A
  BY <1>1, ElementOfSeq, LenProperties DEF ToSet
<1>4. ASSUME p \in Prefixes(v), v # p
      PROVE  \E a \in ToSet(t[p]) : Append(p, a) \in Prefixes(v)
  <2>1. Len(p) \in 0 .. Len(v) /\ p = SubSeq(v, 1, Len(p)) /\ Len(v) \in Nat
    BY <1>1, <1>2, <1>4, LenProperties
  <2>2. SubSeq(v, 1, Len(v)) = v
    BY <1>1, SubSeqFull, SMTT(30)
  <2>3. Len(p) # Len(v)
    BY <1>4, <2>1, <2>2
  <2>4. Len(p) < Len(v) /\ Len(p) + 1 \in 1 .. Len(v)
    BY <2>1, <2>3
  <2> DEFINE a == v[Len(p) + 1]
  <2>5. a \in A
    BY <1>1, <2>4, ElementOfSeq
  <2>6. Append(p, a) \in Prefixes(v)
    BY <1>1, <1>2, <1>4, <2>4, <2>5
  <2>7. Append(p, a) \in DOMAIN t
    BY <2>6, NodeHasPrefixes
  <2> HIDE DEF a
  <2>8. a \in ToSet(t[p])
    BY <2>5, <2>7 DEF IsTree
  <2> QED
    BY <2>6, <2>8
<1>5. \A a \in ToSet(t[p]) : Append(p, a) \in Prefixes(v) =>
        p \in Prefixes(v) /\ a = v[Len(p) + 1]
  BY <1>1, <1>2, <1>3
<1>6. v = p => p \in Prefixes(v)
  BY <1>2
<1> QED
  BY <1>4, <1>5, <1>6

(* What for_each visits below a node, if f tells what it visits below the  *)
(* next ones.                                                              *)
TrieVisit(t, f, p) ==
  IF t[p] = <<>> THEN <<p>>
  ELSE FlattenSeq([i \in DOMAIN t[p] |-> f[Append(p, t[p][i])]])

IsListing(t, f) == f = [p \in DOMAIN t |-> TrieVisit(t, f, p)]

(* The recursion of for_each ends: no trie is infinitely high.             *)
LEMMA ListingExists ==
  ASSUME NEW A, NEW t, IsTree(t, A)
  PROVE  \E f : IsListing(t, f)
<1>1. PICK L \in Nat : \A p \in DOMAIN t : Len(p) <= L
  BY DEF IsTree
<1>2. \A p \in DOMAIN t : p \in Seq(A) /\ t[p] \in Seq(A) /\ Len(p) \in Nat
  BY LenProperties DEF IsTree
<1>3. ASSUME NEW p \in DOMAIN t, NEW i \in DOMAIN t[p]
      PROVE  /\ Append(p, t[p][i]) \in DOMAIN t
             /\ Len(Append(p, t[p][i])) = Len(p) + 1
  <2>1. t[p][i] \in A /\ t[p][i] \in ToSet(t[p])
    BY <1>2, ElementOfSeq, LenProperties DEF ToSet
  <2>2. Append(p, t[p][i]) \in DOMAIN t
    BY <2>1 DEF IsTree
  <2>3. Len(Append(p, t[p][i])) = Len(p) + 1
    BY <1>2, <2>1, AppendProperties
  <2> QED
    BY <2>2, <2>3
<1> DEFINE Upto(d, f) == /\ f = [p \in DOMAIN t |-> f[p]]
                         /\ \A p \in DOMAIN t : Len(p) + d > L => f[p] = TrieVisit(t, f, p)
           K == {d \in Nat : \E f : Upto(d, f)}
<1>4. 0 \in K
  <2> DEFINE f == [p \in DOMAIN t |-> <<>>]
  <2>1. f = [p \in DOMAIN t |-> f[p]]
    OBVIOUS
  <2>2. \A p \in DOMAIN t : ~ (Len(p) + 0 > L)
    BY <1>1, <1>2
  <2> HIDE DEF f
  <2>3. Upto(0, f)
    BY <2>1, <2>2
  <2> QED
    BY <2>3
<1>5. ASSUME NEW d \in Nat, d \in K PROVE d + 1 \in K
  <2>1. PICK f : Upto(d, f)
    BY <1>5
  <2> DEFINE h == [p \in DOMAIN t |-> TrieVisit(t, f, p)]
  <2>2. h = [p \in DOMAIN t |-> h[p]] /\ \A p \in DOMAIN t : h[p] = TrieVisit(t, f, p)
    OBVIOUS
  <2> HIDE DEF h
  <2>3. ASSUME NEW p \in DOMAIN t, Len(p) + (d + 1) > L
        PROVE  h[p] = TrieVisit(t, h, p)
    <3>1. CASE t[p] = <<>>
      BY <2>2, <3>1 DEF TrieVisit
    <3>2. CASE t[p] # <<>>
      <4>1. ASSUME NEW i \in DOMAIN t[p]
            PROVE  h[Append(p, t[p][i])] = f[Append(p, t[p][i])]
        <5> DEFINE q == Append(p, t[p][i])
        <5>1. q \in DOMAIN t /\ Len(q) = Len(p) + 1
          BY <1>3
        <5>2. Len(q) + d > L
          BY <1>1, <1>2, <2>3, <5>1
        <5> HIDE DEF q
        <5>3. f[q] = TrieVisit(t, f, q)
          BY <2>1, <5>1, <5>2
        <5>4. h[q] = f[q]
          BY <2>2, <5>1, <5>3
        <5> QED
          BY <5>4 DEF q
      <4>2. [i \in DOMAIN t[p] |-> h[Append(p, t[p][i])]]
              = [i \in DOMAIN t[p] |-> f[Append(p, t[p][i])]]
        BY <4>1
      <4>3. TrieVisit(t, h, p) = TrieVisit(t, f, p)
        BY <3>2, <4>2 DEF TrieVisit
      <4> QED
        BY <2>2, <4>3
    <3> QED
      BY <3>1, <3>2
  <2>4. Upto(d + 1, h)
    BY <2>2, <2>3
  <2> HIDE DEF Upto
  <2> QED
    BY <2>4
<1> HIDE DEF K
<1>6. \A d \in Nat : d \in K
  BY <1>4, <1>5, NatSetInduction
<1>7. PICK f : Upto(L + 1, f)
  <2>1. L + 1 \in K
    BY <1>6
  <2> HIDE DEF Upto
  <2> QED
    BY <2>1 DEF K
<1>8. \A p \in DOMAIN t : Len(p) + (L + 1) > L
  BY <1>1, <1>2
<1>9. \A p \in DOMAIN t : f[p] = TrieVisit(t, f, p)
  BY <1>7, <1>8
<1>10. f = [p \in DOMAIN t |-> TrieVisit(t, f, p)]
  BY <1>7, <1>9
<1> QED
  BY <1>10 DEF IsListing

(* It visits every leaf below the node once, and nothing else.             *)
LEMMA ListingFacts ==
  ASSUME NEW A \in SUBSET Int, NEW t, IsTree(t, A), NEW f, IsListing(t, f),
         NEW x \in DOMAIN t
  PROVE  /\ f[x] \in Seq(Seq(A)) /\ f[x] # <<>> /\ IsInjective(f[x])
         /\ \A v : v \in ToSet(f[x]) <=> v \in TrieLeaves(t) /\ x \in Prefixes(v)
<1>1. PICK L \in Nat : \A p \in DOMAIN t : Len(p) <= L
  BY DEF IsTree
<1>2. \A p \in DOMAIN t : /\ p \in Seq(A) /\ t[p] \in Seq(A) /\ Len(p) \in Nat
                          /\ DOMAIN t[p] = 1 .. Len(t[p]) /\ Len(t[p]) \in Nat
                          /\ Increasing(t[p])
  BY LenProperties DEF IsTree
<1>3. ASSUME NEW p \in DOMAIN t, NEW i \in DOMAIN t[p]
      PROVE  /\ t[p][i] \in A /\ t[p][i] \in ToSet(t[p])
             /\ Append(p, t[p][i]) \in DOMAIN t
             /\ Len(Append(p, t[p][i])) = Len(p) + 1
  <2>1. t[p][i] \in A /\ t[p][i] \in ToSet(t[p])
    BY <1>2, ElementOfSeq DEF ToSet
  <2>2. Append(p, t[p][i]) \in DOMAIN t
    BY <2>1 DEF IsTree
  <2>3. Len(Append(p, t[p][i])) = Len(p) + 1
    BY <1>2, <2>1, AppendProperties
  <2> QED
    BY <2>1, <2>2, <2>3
<1>4. \A p \in DOMAIN t : f[p] = TrieVisit(t, f, p)
  BY DEF IsListing
<1> DEFINE Good(p) == /\ f[p] \in Seq(Seq(A)) /\ f[p] # <<>> /\ IsInjective(f[p])
                      /\ \A v : v \in ToSet(f[p]) <=> v \in TrieLeaves(t) /\ p \in Prefixes(v)
           K == {d \in Nat : \A p \in DOMAIN t : Len(p) + d > L => Good(p)}
<1>5. 0 \in K
  <2>1. \A p \in DOMAIN t : ~ (Len(p) + 0 > L)
    BY <1>1, <1>2
  <2> HIDE DEF Good
  <2> QED
    BY <2>1
<1>6. ASSUME NEW d \in Nat, d \in K PROVE d + 1 \in K
  <2> SUFFICES ASSUME NEW p \in DOMAIN t, Len(p) + (d + 1) > L PROVE Good(p)
    OBVIOUS
  <2>1. CASE t[p] = <<>>
    <3>1. f[p] = <<p>>
      BY <1>4, <2>1 DEF TrieVisit
    <3>2. <<p>> \in Seq(Seq(A)) /\ <<p>> # <<>> /\ DOMAIN <<p>> = {1} /\ <<p>>[1] = p
      BY <1>2
    <3>3. IsInjective(<<p>>) /\ ToSet(<<p>>) = {p}
      BY <3>2 DEF IsInjective, ToSet
    <3>4. ASSUME NEW v PROVE v = p <=> v \in TrieLeaves(t) /\ p \in Prefixes(v)
      <4>1. ToSet(t[p]) = {}
        BY <2>1 DEF ToSet
      <4>2. ASSUME v \in TrieLeaves(t) PROVE p \in Prefixes(v) <=> v = p
        <5>1. v \in DOMAIN t
          BY <4>2 DEF TrieLeaves
        <5> QED
          BY <4>1, <5>1, BelowNode
      <4>3. p \in TrieLeaves(t)
        BY <2>1 DEF TrieLeaves
      <4> QED
        BY <4>2, <4>3
    <3> QED
      BY <3>1, <3>2, <3>3, <3>4
  <2>2. CASE t[p] # <<>>
    <3> DEFINE c == [i \in DOMAIN t[p] |-> f[Append(p, t[p][i])]]
    <3>1. f[p] = FlattenSeq(c)
      BY <1>4, <2>2 DEF TrieVisit
    <3>2. DOMAIN c = DOMAIN t[p] /\ \A i \in DOMAIN t[p] : c[i] = f[Append(p, t[p][i])]
      OBVIOUS
    <3>3. ASSUME NEW i \in DOMAIN t[p]
          PROVE  /\ c[i] \in Seq(Seq(A)) /\ c[i] # <<>> /\ IsInjective(c[i])
                 /\ \A v : v \in ToSet(c[i]) <=>
                      v \in TrieLeaves(t) /\ Append(p, t[p][i]) \in Prefixes(v)
      <4> DEFINE q == Append(p, t[p][i])
      <4>1. q \in DOMAIN t /\ Len(q) + d > L
        BY <1>1, <1>2, <1>3
      <4>2. c[i] = f[q]
        OBVIOUS
      <4> HIDE DEF q, c, Good
      <4>3. Good(q)
        BY <1>6, <4>1
      <4> QED
        BY <4>2, <4>3 DEF Good, q
    <3>4. c \in Seq(Seq(Seq(A)))
      <4>1. c \in [1 .. Len(t[p]) -> Seq(Seq(A))]
        BY <1>2, <3>2, <3>3
      <4> QED
        BY <1>2, <4>1, SeqDef
    <3> HIDE DEF c
    <3>5. f[p] \in Seq(Seq(A)) /\ FlattensWell(c)
      BY <3>1, <3>4, FlattenFacts
    <3>6. DisjointLists(c)
      <4>1. ASSUME NEW i \in DOMAIN c, NEW j \in DOMAIN c, NEW v,
                   v \in ToSet(c[i]), v \in ToSet(c[j])
            PROVE  i = j
        <5>1. /\ v \in DOMAIN t /\ i \in DOMAIN t[p] /\ j \in DOMAIN t[p]
              /\ Append(p, t[p][i]) \in Prefixes(v)
              /\ Append(p, t[p][j]) \in Prefixes(v)
          BY <3>2, <3>3, <4>1 DEF TrieLeaves
        <5>2. t[p][i] \in ToSet(t[p]) /\ t[p][j] \in ToSet(t[p])
          BY <5>1 DEF ToSet
        <5>3. t[p][i] = t[p][j]
          BY <5>1, <5>2, BelowNode
        <5>4. i \in Int /\ j \in Int
          BY <1>2, <5>1
        <5>5. t[p][i] \in Int /\ t[p][j] \in Int
          BY <1>3, <5>1
        <5>6. ~ (t[p][i] < t[p][j]) /\ ~ (t[p][j] < t[p][i])
          BY <5>3, <5>5
        <5>7. ~ (i < j) /\ ~ (j < i)
          BY <1>2, <5>1, <5>6 DEF Increasing
        <5> QED
          BY <5>4, <5>7
      <4>2. \A i \in DOMAIN c : IsInjective(c[i])
        BY <3>2, <3>3
      <4>3. ASSUME NEW i \in DOMAIN c, NEW j \in DOMAIN c, i # j
            PROVE  ToSet(c[i]) \cap ToSet(c[j]) = {}
        BY <4>1, <4>3
      <4> QED
        BY <4>2, <4>3 DEF DisjointLists
    <3>7. IsInjective(f[p])
      BY <3>1, <3>4, <3>6, FlattenInjective
    <3>8. ASSUME NEW v PROVE v \in ToSet(f[p]) <=> v \in TrieLeaves(t) /\ p \in Prefixes(v)
      <4>1. v \in ToSet(f[p]) <=> \E i \in DOMAIN c : v \in ToSet(c[i])
        BY <3>1, <3>5 DEF FlattensWell
      <4>2. v \in ToSet(f[p]) <=>
              v \in TrieLeaves(t) /\ \E i \in DOMAIN t[p] : Append(p, t[p][i]) \in Prefixes(v)
        BY <3>2, <3>3, <4>1
      <4>3. (\E i \in DOMAIN t[p] : Append(p, t[p][i]) \in Prefixes(v))
              <=> \E a \in ToSet(t[p]) : Append(p, a) \in Prefixes(v)
        BY DEF ToSet
      <4>4. ASSUME v \in TrieLeaves(t)
            PROVE  p \in Prefixes(v) <=> \E a \in ToSet(t[p]) : Append(p, a) \in Prefixes(v)
        <5>1. v \in DOMAIN t /\ v # p
          BY <2>2, <4>4 DEF TrieLeaves
        <5> QED
          BY <5>1, BelowNode
      <4> QED
        BY <4>2, <4>3, <4>4
    <3>9. f[p] # <<>>
      <4>1. 1 \in DOMAIN t[p]
        BY <1>2, <2>2, EmptySeq
      <4>2. c[1] \in Seq(Seq(A)) /\ c[1] # <<>>
        BY <3>3, <4>1
      <4>3. Len(c[1]) \in Nat \ {0} /\ DOMAIN c[1] = 1 .. Len(c[1])
        BY <4>2, EmptySeq, LenProperties
      <4>4. c[1][1] \in ToSet(c[1])
        BY <4>3 DEF ToSet
      <4>5. c[1][1] \in ToSet(f[p])
        BY <3>1, <3>2, <3>5, <4>1, <4>4 DEF FlattensWell
      <4> QED
        BY <4>5 DEF ToSet
    <3> QED
      BY <3>5, <3>7, <3>8, <3>9
  <2> QED
    BY <2>1, <2>2
<1>7. L + 1 \in K
  <2> HIDE DEF K
  <2>1. \A d \in Nat : d \in K
    BY <1>5, <1>6, NatSetInduction
  <2> QED
    BY <1>1, <2>1
<1>8. Len(x) + (L + 1) > L
  BY <1>1, <1>2
<1>9. Good(x)
  <2> HIDE DEF Good
  <2> QED
    BY <1>7, <1>8
<1> QED
  BY <1>9

(* flatten lists every leaf once: it "is used to remove prefixes in a set  *)
(* of words", and removes nothing else.                                    *)
LEMMA FlattenIs ==
  ASSUME NEW A \in SUBSET Int, NEW t, IsTrie(t, A)
  PROVE  /\ flatten(t) \in Seq(Seq(A)) /\ IsInjective(flatten(t))
         /\ ToSet(flatten(t)) = TrieLeaves(t)
         /\ DOMAIN t = PrefixClosure(TrieLeaves(t))
         /\ \A v, w \in TrieLeaves(t) : IsPrefix(v, w) => v = w
<1>1. CASE t = clear
  <2>1. flatten(t) = <<>> /\ TrieLeaves(t) = {} /\ DOMAIN t = {}
    BY <1>1, ClearIs DEF flatten, TrieLeaves
  <2>2. <<>> \in Seq(Seq(A)) /\ DOMAIN <<>> = {}
    OBVIOUS
  <2>3. IsInjective(<<>>) /\ ToSet(<<>>) = {}
    BY <2>2 DEF IsInjective, ToSet
  <2>4. PrefixClosure({}) = {}
    BY DEF PrefixClosure
  <2> QED
    BY <2>1, <2>2, <2>3, <2>4
<1>2. CASE t # clear
  <2>1. IsTree(t, A)
    BY <1>2 DEF IsTrie
  <2> DEFINE Eq(g) == g = [p \in DOMAIN t |->
                             IF t[p] = <<>> THEN <<p>>
                             ELSE FlattenSeq([i \in DOMAIN t[p] |-> g[Append(p, t[p][i])]])]
             f == CHOOSE g : Eq(g)
  <2>2. \A g : Eq(g) <=> IsListing(t, g)
    BY DEF IsListing, TrieVisit
  <2>3. flatten(t) = f[<<>>]
    BY <1>2 DEF flatten
  <2> HIDE DEF Eq
  <2>4. Eq(f)
    BY <2>1, <2>2, ListingExists
  <2> HIDE DEF f
  <2>5. <<>> \in DOMAIN t /\ DOMAIN t \in SUBSET Seq(A)
    BY <2>1 DEF IsTree
  <2>6. IsListing(t, f)
    BY <2>2, <2>4
  <2>7. \A v \in DOMAIN t : /\ <<>> \in Prefixes(v) /\ v \in Prefixes(v)
                            /\ Prefixes(v) \subseteq DOMAIN t
    BY <2>1, <2>5, PrefixesFacts, NodeHasPrefixes
  <2>8. /\ flatten(t) \in Seq(Seq(A)) /\ IsInjective(flatten(t))
        /\ \A v : v \in ToSet(flatten(t)) <=> v \in TrieLeaves(t) /\ <<>> \in Prefixes(v)
    BY <2>1, <2>3, <2>5, <2>6, ListingFacts
  <2>9. \A v \in TrieLeaves(t) : v \in DOMAIN t
    BY DEF TrieLeaves
  <2>10. ToSet(flatten(t)) = TrieLeaves(t)
    BY <2>7, <2>8, <2>9
  <2>11. ASSUME NEW p \in DOMAIN t PROVE \E v \in TrieLeaves(t) : p \in Prefixes(v)
    <3>1. /\ f[p] \in Seq(Seq(A)) /\ f[p] # <<>>
          /\ \A v : v \in ToSet(f[p]) <=> v \in TrieLeaves(t) /\ p \in Prefixes(v)
      BY <2>1, <2>6, ListingFacts
    <3>2. Len(f[p]) \in Nat \ {0} /\ DOMAIN f[p] = 1 .. Len(f[p])
      BY <3>1, EmptySeq, LenProperties
    <3>3. f[p][1] \in ToSet(f[p])
      BY <3>2 DEF ToSet
    <3> QED
      BY <3>1, <3>3
  <2>12. DOMAIN t = PrefixClosure(TrieLeaves(t))
    BY <2>7, <2>9, <2>11 DEF PrefixClosure
  <2>13. ASSUME NEW v \in TrieLeaves(t), NEW w \in TrieLeaves(t), IsPrefix(v, w) PROVE v = w
    <3>1. v \in Seq(A) /\ w \in Seq(A) /\ v \in DOMAIN t /\ w \in DOMAIN t /\ t[v] = <<>>
      BY <2>5 DEF TrieLeaves
    <3>2. Len(v) <= Len(w) /\ SubSeq(v, 1, Len(v)) = SubSeq(w, 1, Len(v))
      BY <2>13 DEF IsPrefix
    <3>3. SubSeq(v, 1, Len(v)) = v /\ Len(v) \in Nat /\ Len(w) \in Nat
      BY <3>1, SubSeqFull, LenProperties
    <3>4. Len(v) \in 0 .. Len(w)
      BY <3>2, <3>3
    <3>5. v \in Prefixes(w)
      <4>1. SubSeq(w, 1, Len(v)) \in Prefixes(w)
        BY <3>1, <3>4, PrefixesFacts
      <4> QED
        BY <3>2, <3>3, <4>1, Zenon
    <3>6. ToSet(t[v]) = {}
      BY <3>1 DEF ToSet
    <3> QED
      BY <2>1, <3>1, <3>5, <3>6, BelowNode
  <2> QED
    BY <2>8, <2>10, <2>12, <2>13
<1> QED
  BY <1>1, <1>2

(* The trie of some words has their beginnings as its nodes.               *)
LEMMA InsertAllIs ==
  ASSUME NEW A \in SUBSET Int, NEW ws \in Seq(Seq(A))
  PROVE  /\ IsTrie(insert_all(ws), A)
         /\ DOMAIN insert_all(ws) = PrefixClosure(ToSet(ws))
<1> DEFINE Upto(d, f) == f = [n \in 0 .. d |-> IF n = 0 THEN clear ELSE insert(f[n - 1], ws[n])]
           K == {d \in Nat : \E f : Upto(d, f)}
<1>1. 0 \in K
  <2>1. Upto(0, [n \in 0 .. 0 |-> clear])
    OBVIOUS
  <2> QED
    BY <2>1
<1>2. ASSUME NEW d \in Nat, d \in K PROVE d + 1 \in K
  <2>1. PICK f : Upto(d, f)
    BY <1>2
  <2> DEFINE x == insert(f[d], ws[d + 1])
             h == [n \in 0 .. d + 1 |-> IF n = d + 1 THEN x ELSE f[n]]
  <2>2. \A n \in 0 .. d : f[n] = IF n = 0 THEN clear ELSE insert(f[n - 1], ws[n])
    BY <2>1
  <2>3. h = [n \in 0 .. d + 1 |-> h[n]] /\ \A n \in 0 .. d + 1 : h[n] = IF n = d + 1 THEN x ELSE f[n]
    OBVIOUS
  <2> HIDE DEF h
  <2>4. ASSUME NEW n \in 0 .. d + 1
        PROVE  h[n] = IF n = 0 THEN clear ELSE insert(h[n - 1], ws[n])
    <3>1. CASE n = d + 1
      <4>1. n = d + 1
        BY <3>1
      <4> HIDE DEF x
      <4>2. n - 1 = d /\ d \in 0 .. d + 1 /\ d # d + 1 /\ n # 0
        BY <4>1
      <4>3. h[n - 1] = f[d]
        BY <2>3, <4>2
      <4>4. x = insert(f[d], ws[d + 1])
        BY DEF x
      <4> QED
        BY <2>3, <4>1, <4>2, <4>3, <4>4
    <3>2. CASE n # d + 1 /\ n = 0
      BY <2>2, <2>3, <3>2
    <3>3. CASE n # d + 1 /\ n # 0
      <4>1. n \in 0 .. d /\ n - 1 \in 0 .. d + 1 /\ n - 1 # d + 1
        BY <3>3
      <4>2. h[n] = f[n] /\ h[n - 1] = f[n - 1]
        BY <2>3, <3>3, <4>1
      <4> QED
        BY <2>2, <3>3, <4>1, <4>2
    <3> QED
      BY <3>1, <3>2, <3>3
  <2>5. Upto(d + 1, h)
    BY <2>3, <2>4
  <2> HIDE DEF Upto
  <2> QED
    BY <2>5
<1>3. Len(ws) \in Nat /\ DOMAIN ws = 1 .. Len(ws) /\ \A n \in 1 .. Len(ws) : ws[n] \in Seq(A)
  BY LenProperties, ElementOfSeq
<1>4. Len(ws) \in K
  <2> HIDE DEF K
  <2> QED
    BY <1>1, <1>2, <1>3, NatSetInduction
<1> DEFINE t == CHOOSE f : Upto(Len(ws), f)
<1>5. insert_all(ws) = t[Len(ws)]
  BY DEF insert_all
<1>6. Upto(Len(ws), t)
  BY <1>4
<1> HIDE DEF t, K
<1>7. \A n \in 0 .. Len(ws) : t[n] = IF n = 0 THEN clear ELSE insert(t[n - 1], ws[n])
  BY <1>6
<1> DEFINE C(n) == UNION {Prefixes(ws[i]) : i \in 1 .. n}
           J == {n \in Nat : n <= Len(ws) => IsTrie(t[n], A) /\ DOMAIN t[n] = C(n)}
<1>8. 0 \in J
  <2>1. t[0] = clear
    BY <1>3, <1>7
  <2>2. IsTrie(clear, A)
    BY DEF IsTrie
  <2>3. C(0) = {}
    OBVIOUS
  <2> HIDE DEF C
  <2> QED
    BY <2>1, <2>2, <2>3, ClearIs
<1>9. ASSUME NEW n \in Nat, n \in J PROVE n + 1 \in J
  <2> SUFFICES ASSUME n + 1 <= Len(ws)
               PROVE  IsTrie(t[n + 1], A) /\ DOMAIN t[n + 1] = C(n + 1)
    OBVIOUS
  <2>1. n + 1 \in 1 .. Len(ws) /\ n + 1 \in 0 .. Len(ws) /\ n + 1 # 0 /\ (n + 1) - 1 = n
    BY <1>3
  <2>2. t[n + 1] = insert(t[n], ws[n + 1])
    BY <1>7, <2>1
  <2>3. IsTrie(t[n], A) /\ DOMAIN t[n] = C(n)
    BY <1>3, <1>9
  <2>4. C(n + 1) = C(n) \cup Prefixes(ws[n + 1])
    <3>1. \A i \in 1 .. n + 1 : i \in 1 .. n \/ i = n + 1
      OBVIOUS
    <3>2. n + 1 \in 1 .. n + 1 /\ \A i \in 1 .. n : i \in 1 .. n + 1
      OBVIOUS
    <3> QED
      BY <3>1, <3>2
  <2> HIDE DEF C
  <2>5. IsTree(t[n + 1], A) /\ DOMAIN t[n + 1] = DOMAIN t[n] \cup Prefixes(ws[n + 1])
    <3>1. PICK y \in Seq(A) : y = ws[n + 1]
      BY <1>3, <2>1
    <3>2. IsTree(insert(t[n], y), A) /\ DOMAIN insert(t[n], y) = DOMAIN t[n] \cup Prefixes(y)
      BY <2>3, InsertIs
    <3> QED
      BY <2>2, <3>1, <3>2
  <2> QED
    BY <2>3, <2>4, <2>5 DEF IsTrie
<1>10. Len(ws) \in J
  <2> HIDE DEF J
  <2> QED
    BY <1>3, <1>8, <1>9, NatSetInduction
<1>11. IsTrie(t[Len(ws)], A) /\ DOMAIN t[Len(ws)] = C(Len(ws))
  <2>1. Len(ws) <= Len(ws)
    BY <1>3
  <2> HIDE DEF C
  <2> QED
    BY <1>10, <2>1
<1>12. C(Len(ws)) = PrefixClosure(ToSet(ws))
  <2>1. ASSUME NEW p PROVE p \in C(Len(ws)) <=> \E i \in DOMAIN ws : p \in Prefixes(ws[i])
    BY <1>3
  <2>2. ASSUME NEW p
        PROVE  p \in PrefixClosure(ToSet(ws)) <=> \E i \in DOMAIN ws : p \in Prefixes(ws[i])
    BY DEF PrefixClosure, ToSet
  <2> HIDE DEF C
  <2> QED
    BY <2>1, <2>2
<1> QED
  BY <1>5, <1>11, <1>12

=============================================================================
