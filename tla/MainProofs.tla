------------------------------ MODULE MainProofs ------------------------------
(***************************************************************************)
(* What the calls of test and randomized_test make of any machine, prefixes*)
(* and suffixes; that an implementation which answers such tests right is  *)
(* equivalent to the machine or has more states; and that the calls of     *)
(* main, one after the other, keep that promise.                           *)
(***************************************************************************)
EXTENDS Main, SeparatingFamilyProofs

-----------------------------------------------------------------------------
(* The tests.                                                              *)

(* All infixes of a length.                                                *)
Middles(n) == [1 .. n -> Input]

(* The infixes grow by one letter, and none is forgotten.                  *)
LEMMA AllSeqsAre ==
  ASSUME NEW seqs \in Seq(Word)
  PROVE  /\ all_seqs(seqs) \in Seq(Word)
         /\ \A n \in Nat : ToSet(seqs) = Middles(n) => ToSet(all_seqs(seqs)) = Middles(n + 1)
<1> DEFINE ss == [n \in DOMAIN seqs |-> [a \in 1 .. P |-> Append(seqs[n], a - 1)]]
<1>1. P \in Nat /\ \A a \in 1 .. P : a - 1 \in Input
  BY SizesAssumption DEF Input
<1>2. /\ DOMAIN seqs = 1 .. Len(seqs) /\ Len(seqs) \in Nat
      /\ \A n \in DOMAIN seqs : seqs[n] \in Seq(Input)
  BY LenProperties, ElementOfSeq DEF Word
<1>3. /\ DOMAIN ss = DOMAIN seqs
      /\ \A n \in DOMAIN seqs : ss[n] = [a \in 1 .. P |-> Append(seqs[n], a - 1)]
  OBVIOUS
<1>4. \A n \in DOMAIN seqs, a \in 1 .. P : Append(seqs[n], a - 1) \in Seq(Input)
  BY <1>1, <1>2, AppendProperties
<1>5. ss \in Seq(Seq(Word))
  <2>1. ASSUME NEW n \in DOMAIN seqs PROVE ss[n] \in Seq(Word)
    <3>1. ss[n] \in [1 .. P -> Seq(Input)]
      BY <1>3, <1>4
    <3> QED
      BY <1>1, <3>1, SeqDef DEF Word
  <2>2. ss \in [1 .. Len(seqs) -> Seq(Word)]
    BY <1>2, <1>3, <2>1
  <2> QED
    BY <1>2, <2>2, SeqDef
<1>6. all_seqs(seqs) = FlattenSeq(ss)
  BY DEF all_seqs
<1>7. \A n \in DOMAIN seqs : ToSet(ss[n]) = {Append(seqs[n], a - 1) : a \in 1 .. P}
  BY <1>3 DEF ToSet
<1> HIDE DEF ss
<1>8. /\ FlattenSeq(ss) \in Seq(Word)
      /\ \A v : v \in ToSet(FlattenSeq(ss)) <=> \E n \in DOMAIN ss : v \in ToSet(ss[n])
  BY <1>5, FlattenFacts DEF FlattensWell
<1>9. \A v : v \in ToSet(all_seqs(seqs)) <=>
               \E n \in DOMAIN seqs, a \in 1 .. P : v = Append(seqs[n], a - 1)
  BY <1>3, <1>6, <1>7, <1>8
<1>10. ASSUME NEW v
       PROVE  v \in ToSet(all_seqs(seqs)) <=>
                \E m \in ToSet(seqs), b \in Input : v = Append(m, b)
  <2>1. \A b \in Input : b + 1 \in 1 .. P /\ (b + 1) - 1 = b
    BY <1>1 DEF Input
  <2>2. ASSUME NEW m \in ToSet(seqs), NEW b \in Input, v = Append(m, b)
        PROVE  \E n \in DOMAIN seqs, a \in 1 .. P : v = Append(seqs[n], a - 1)
    <3>1. PICK n \in DOMAIN seqs : m = seqs[n]
      BY DEF ToSet
    <3>2. v = Append(seqs[n], (b + 1) - 1) /\ b + 1 \in 1 .. P
      BY <2>1, <2>2, <3>1
    <3> QED
      BY <3>2
  <2>3. ASSUME NEW n \in DOMAIN seqs, NEW a \in 1 .. P, v = Append(seqs[n], a - 1)
        PROVE  \E m \in ToSet(seqs), b \in Input : v = Append(m, b)
    <3>1. seqs[n] \in ToSet(seqs) /\ a - 1 \in Input
      BY <1>1 DEF ToSet
    <3> QED
      BY <2>3, <3>1
  <2> QED
    BY <1>9, <2>2, <2>3
<1>11. ASSUME NEW n \in Nat, ToSet(seqs) = Middles(n)
       PROVE  ToSet(all_seqs(seqs)) = Middles(n + 1)
  <2>1. ASSUME NEW m \in Middles(n), NEW b \in Input PROVE Append(m, b) \in Middles(n + 1)
    <3>1. m \in Seq(Input) /\ Len(m) = n /\ \A i \in 1 .. n : m[i] \in Input
      BY DEF Middles
    <3>2. Append(m, b) \in Seq(Input) /\ Len(Append(m, b)) = n + 1
      BY <3>1, AppendProperties
    <3> QED
      BY <3>2, LenProperties DEF Middles
  <2>2. ASSUME NEW v \in Middles(n + 1)
        PROVE  \E m \in Middles(n), b \in Input : v = Append(m, b)
    <3>1. v \in Seq(Input) /\ Len(v) = n + 1
      BY DEF Middles
    <3>2. v # <<>>
      BY <3>1, EmptySeq
    <3>3. PICK m \in Seq(Input), b \in Input : v = Append(m, b)
      BY <3>1, <3>2, SequenceEmptyOrAppend
    <3>4. Len(v) = Len(m) + 1 /\ Len(m) \in Nat
      BY <3>3, AppendProperties, LenProperties
    <3>5. Len(m) = n
      BY <3>1, <3>4
    <3>6. m \in Middles(n)
      BY <3>5, LenProperties DEF Middles
    <3> QED
      BY <3>3, <3>6
  <2>3. \A v : v \in ToSet(all_seqs(seqs)) <=> \E m \in Middles(n), b \in Input : v = Append(m, b)
    BY <1>10, <1>11
  <2>4. ASSUME NEW v \in ToSet(all_seqs(seqs)) PROVE v \in Middles(n + 1)
    <3>1. PICK m \in Middles(n), b \in Input : v = Append(m, b)
      BY <2>3
    <3> HIDE DEF Middles
    <3> QED
      BY <2>1, <3>1, Zenon
  <2>5. ASSUME NEW v \in Middles(n + 1) PROVE v \in ToSet(all_seqs(seqs))
    BY <2>2, <2>3, Zenon
  <2> QED
    BY <2>4, <2>5, Zenon
<1> QED
  BY <1>6, <1>8, <1>11

(* A word is a test of an infix if it has the right prefix and suffix.     *)
IsTestOf(m, v) ==
  \E s \in State : \E w \in ToSet(separating_family[state_after(s, m)]) :
    v = prefixes[s] \o m \o w

(* The tests with the infixes of a length, and of all lengths up to one.   *)
TestsOf(n) == {v \in Word : \E m \in Middles(n) : IsTestOf(m, v)}
TestsUpTo(n) == UNION {TestsOf(i) : i \in 0 .. n}

(* An infix leads from every state to a state, whose suffixes are words.   *)
LEMMA TestsAreWords ==
  ASSUME SuiteArguments, NEW m \in Word
  PROVE  /\ \A s \in State : state_after(s, m) \in State
         /\ \A s \in State : separating_family[state_after(s, m)] \in Seq(Word)
         /\ \A s \in State : prefixes[s] \in Word
         /\ \A v : IsTestOf(m, v) => v \in Word
<1>1. ASSUME NEW s \in State PROVE state_after(s, m) \in State
  <2>1. applyWord(specification, s, m) \in RunEdge
    BY ApplyType DEF SuiteArguments
  <2> QED
    BY <2>1 DEF RunEdge, state_after
<1>2. /\ \A s \in State : prefixes[s] \in Seq(Input)
      /\ \A s \in State : separating_family[s] \in Seq(Seq(Input))
  BY DEF SuiteArguments, Word
<1>3. ASSUME NEW v, IsTestOf(m, v) PROVE v \in Word
  <2>1. PICK s \in State : \E w \in ToSet(separating_family[state_after(s, m)]) :
                             v = prefixes[s] \o m \o w
    BY <1>3 DEF IsTestOf
  <2>2. PICK w \in ToSet(separating_family[state_after(s, m)]) : v = prefixes[s] \o m \o w
    BY <2>1
  <2>3. separating_family[state_after(s, m)] \in Seq(Seq(Input))
    BY <1>1, <1>2
  <2>4. w \in Seq(Input)
    BY <2>3, ElementOfSeq, LenProperties DEF ToSet
  <2>5. prefixes[s] \o m \in Seq(Input)
    BY <1>2, ConcatProperties DEF Word
  <2>6. prefixes[s] \o m \o w \in Seq(Input)
    BY <2>4, <2>5, ConcatProperties
  <2> QED
    BY <2>2, <2>6 DEF Word
<1> QED
  BY <1>1, <1>2, <1>3 DEF Word

(* A turn of the loop makes the tests of its infixes.                      *)
LEMMA TestsAre ==
  ASSUME SuiteArguments, NEW seqs \in Seq(Word)
  PROVE  /\ Tests(seqs) \in Seq(Word)
         /\ \A n \in Nat : ToSet(seqs) = Middles(n) => ToSet(Tests(seqs)) = TestsOf(n)
<1> DEFINE suf(n, m) == separating_family[state_after(n - 1, seqs[m])]
           test(n, m, j) == prefixes[n - 1] \o seqs[m] \o suf(n, m)[j]
           row(n) == [m \in DOMAIN seqs |-> [j \in DOMAIN suf(n, m) |-> test(n, m, j)]]
           ss == [n \in 1 .. N |-> FlattenSeq(row(n))]
<1>1. /\ DOMAIN seqs = 1 .. Len(seqs) /\ Len(seqs) \in Nat
      /\ \A m \in DOMAIN seqs : seqs[m] \in Word
  BY LenProperties, ElementOfSeq
<1>2. N \in Nat /\ \A n \in 1 .. N : n - 1 \in State
  BY SizesAssumption DEF State
<1>3. Tests(seqs) = FlattenSeq(ss)
  BY DEF Tests
<1>4. ASSUME NEW n \in 1 .. N, NEW m \in DOMAIN seqs
      PROVE  /\ suf(n, m) \in Seq(Word)
             /\ \A j \in DOMAIN suf(n, m) : IsTestOf(seqs[m], test(n, m, j))
             /\ \A j \in DOMAIN suf(n, m) : test(n, m, j) \in Word
  <2>1. n - 1 \in State /\ seqs[m] \in Word
    BY <1>1, <1>2
  <2>2. suf(n, m) \in Seq(Word)
    BY <2>1, TestsAreWords
  <2>3. ASSUME NEW j \in DOMAIN suf(n, m) PROVE IsTestOf(seqs[m], test(n, m, j))
    <3>1. suf(n, m)[j] \in ToSet(suf(n, m))
      BY DEF ToSet
    <3> QED
      BY <2>1, <3>1 DEF IsTestOf
  <2>4. ASSUME NEW j \in DOMAIN suf(n, m) PROVE test(n, m, j) \in Word
    <3> HIDE DEF test, suf
    <3> QED
      BY <2>1, <2>3, TestsAreWords
  <2> QED
    BY <2>2, <2>3, <2>4
<1>5. ASSUME NEW n \in 1 .. N
      PROVE  /\ row(n) \in Seq(Seq(Word)) /\ DOMAIN row(n) = DOMAIN seqs
             /\ \A m \in DOMAIN seqs : ToSet(row(n)[m]) = {test(n, m, j) : j \in DOMAIN suf(n, m)}
  <2>1. /\ DOMAIN row(n) = DOMAIN seqs
        /\ row(n) = [m \in DOMAIN seqs |-> row(n)[m]]
        /\ \A m \in DOMAIN seqs : row(n)[m] = [j \in DOMAIN suf(n, m) |-> test(n, m, j)]
    OBVIOUS
  <2> HIDE DEF row
  <2>2. ASSUME NEW m \in DOMAIN seqs PROVE row(n)[m] \in Seq(Word)
    <3>1. suf(n, m) \in Seq(Word) /\ \A j \in DOMAIN suf(n, m) : test(n, m, j) \in Word
      BY <1>4
    <3> HIDE DEF suf, test
    <3>2. DOMAIN suf(n, m) = 1 .. Len(suf(n, m)) /\ Len(suf(n, m)) \in Nat
      BY <3>1, LenProperties
    <3>3. row(n)[m] \in [1 .. Len(suf(n, m)) -> Word]
      BY <2>1, <3>1, <3>2
    <3> QED
      BY <3>2, <3>3, SeqDef
  <2>3. row(n) \in [1 .. Len(seqs) -> Seq(Word)]
    BY <1>1, <2>1, <2>2
  <2>4. row(n) \in Seq(Seq(Word))
    BY <1>1, <2>3, SeqDef
  <2> HIDE DEF suf, test
  <2>5. \A m \in DOMAIN seqs : ToSet(row(n)[m]) = {test(n, m, j) : j \in DOMAIN suf(n, m)}
    BY <2>1 DEF ToSet
  <2> QED
    BY <2>1, <2>4, <2>5
<1>6. ASSUME NEW n \in 1 .. N
      PROVE  /\ FlattenSeq(row(n)) \in Seq(Word)
             /\ \A v : v \in ToSet(FlattenSeq(row(n))) <=>
                  \E m \in DOMAIN seqs : \E j \in DOMAIN suf(n, m) : v = test(n, m, j)
  <2> HIDE DEF row, suf, test
  <2>1. /\ FlattenSeq(row(n)) \in Seq(Word)
        /\ \A v : v \in ToSet(FlattenSeq(row(n))) <=>
             \E m \in DOMAIN row(n) : v \in ToSet(row(n)[m])
    BY <1>5, FlattenFacts DEF FlattensWell
  <2>2. \A v : \A m \in DOMAIN seqs :
          v \in ToSet(row(n)[m]) <=> \E j \in DOMAIN suf(n, m) : v = test(n, m, j)
    BY <1>5
  <2>3. DOMAIN row(n) = DOMAIN seqs
    BY <1>5
  <2> QED
    BY <2>1, <2>2, <2>3, Zenon
<1>7. /\ ss \in Seq(Seq(Word)) /\ DOMAIN ss = 1 .. N
      /\ \A n \in 1 .. N : ss[n] = FlattenSeq(row(n))
  <2> HIDE DEF row
  <2>1. ss \in [1 .. N -> Seq(Word)]
    BY <1>6
  <2> QED
    BY <1>2, <2>1, SeqDef
<1> HIDE DEF ss, row, suf, test
<1>8. /\ FlattenSeq(ss) \in Seq(Word)
      /\ \A v : v \in ToSet(FlattenSeq(ss)) <=> \E n \in DOMAIN ss : v \in ToSet(ss[n])
  BY <1>7, FlattenFacts DEF FlattensWell
<1>9. \A v : v \in ToSet(Tests(seqs)) <=>
         \E n \in 1 .. N : \E m \in DOMAIN seqs : \E j \in DOMAIN suf(n, m) : v = test(n, m, j)
  <2>1. \A v : v \in ToSet(Tests(seqs)) <=> \E n \in 1 .. N : v \in ToSet(ss[n])
    BY <1>3, <1>7, <1>8
  <2>2. \A v : \A n \in 1 .. N : v \in ToSet(ss[n]) <=>
          \E m \in DOMAIN seqs : \E j \in DOMAIN suf(n, m) : v = test(n, m, j)
    <3> SUFFICES ASSUME NEW v, NEW n \in 1 .. N
                 PROVE  v \in ToSet(ss[n]) <=>
                          \E m \in DOMAIN seqs : \E j \in DOMAIN suf(n, m) : v = test(n, m, j)
      OBVIOUS
    <3>1. ss[n] = FlattenSeq(row(n))
      BY <1>7
    <3> QED
      BY <1>6, <3>1
  <2> DEFINE Gives(n, v) == v \in ToSet(ss[n])
             Asks(n, v) == \E m \in DOMAIN seqs : \E j \in DOMAIN suf(n, m) : v = test(n, m, j)
  <2>3. \A v : \A n \in 1 .. N : Gives(n, v) <=> Asks(n, v)
    BY <2>2
  <2>4. \A v : v \in ToSet(Tests(seqs)) <=> \E n \in 1 .. N : Gives(n, v)
    BY <2>1
  <2> HIDE DEF Gives, Asks
  <2>5. \A v : v \in ToSet(Tests(seqs)) <=> \E n \in 1 .. N : Asks(n, v)
    BY <2>3, <2>4
  <2> QED
    BY <2>5 DEF Asks
<1>10. ASSUME NEW v
       PROVE  v \in ToSet(Tests(seqs)) <=> \E x \in ToSet(seqs) : IsTestOf(x, v)
  <2>1. ASSUME v \in ToSet(Tests(seqs)) PROVE \E x \in ToSet(seqs) : IsTestOf(x, v)
    <3>1. PICK n \in 1 .. N, m \in DOMAIN seqs : \E j \in DOMAIN suf(n, m) : v = test(n, m, j)
      BY <1>9, <2>1
    <3>2. IsTestOf(seqs[m], v)
      BY <1>4, <3>1
    <3> QED
      BY <3>2 DEF ToSet
  <2>2. ASSUME NEW x \in ToSet(seqs), IsTestOf(x, v) PROVE v \in ToSet(Tests(seqs))
    <3>1. PICK m \in DOMAIN seqs : x = seqs[m]
      BY DEF ToSet
    <3>2. PICK s \in State : \E w \in ToSet(separating_family[state_after(s, x)]) :
                               v = prefixes[s] \o x \o w
      BY <2>2 DEF IsTestOf
    <3>3. PICK w \in ToSet(separating_family[state_after(s, x)]) : v = prefixes[s] \o x \o w
      BY <3>2
    <3>4. s + 1 \in 1 .. N /\ (s + 1) - 1 = s
      BY <1>2 DEF State
    <3>5. suf(s + 1, m) = separating_family[state_after(s, x)]
      BY <3>1, <3>4 DEF suf
    <3>6. PICK j \in DOMAIN suf(s + 1, m) : w = suf(s + 1, m)[j]
      BY <3>5 DEF ToSet
    <3>7. v = test(s + 1, m, j)
      BY <3>1, <3>3, <3>4, <3>6 DEF test
    <3> QED
      BY <1>9, <3>4, <3>6, <3>7
  <2> QED
    BY <2>1, <2>2
<1>11. ASSUME NEW n \in Nat, ToSet(seqs) = Middles(n) PROVE ToSet(Tests(seqs)) = TestsOf(n)
  <2>1. \A m \in Middles(n) : m \in Word
    BY DEF Middles, Word
  <2>2. \A v : v \in ToSet(Tests(seqs)) <=> \E m \in Middles(n) : IsTestOf(m, v)
    BY <1>10, <1>11
  <2>3. \A v : v \in ToSet(Tests(seqs)) => v \in Word
    BY <2>1, <2>2, TestsAreWords
  <2>4. \A v : v \in TestsOf(n) <=> v \in Word /\ \E m \in Middles(n) : IsTestOf(m, v)
    BY DEF TestsOf
  <2> HIDE DEF IsTestOf
  <2> QED
    BY <2>2, <2>3, <2>4
<1> QED
  BY <1>3, <1>8, <1>11

(* All of them are the tests of the method.                                *)
LEMMA AllTestsAre ==
  ASSUME SuiteArguments PROVE AllTests = TestsUpTo(args.k_max)
<1>1. \A n \in Nat : \A m \in Middles(n) : m \in Word
  BY DEF Middles, Word
<1>2. \A v : v \in AllTests <=> \E n \in 0 .. args.k_max : \E m \in Middles(n) : IsTestOf(m, v)
  <2> DEFINE M == UNION {[1 .. n -> Input] : n \in 0 .. args.k_max}
             T(s, m) == {prefixes[s] \o m \o w : w \in ToSet(separating_family[state_after(s, m)])}
  <2>1. AllTests = UNION {T(s, m) : s \in State, m \in M}
    BY DEF AllTests
  <2>2. \A m : m \in M <=> \E n \in 0 .. args.k_max : m \in Middles(n)
    BY DEF Middles
  <2>3. \A v, m : IsTestOf(m, v) <=> \E s \in State : v \in T(s, m)
    BY DEF IsTestOf
  <2> HIDE DEF M, T
  <2>4. \A v : v \in AllTests <=> \E s \in State, m \in M : v \in T(s, m)
    BY <2>1
  <2> QED
    BY <2>2, <2>3, <2>4
<1>3. \A v : v \in TestsUpTo(args.k_max) <=>
         v \in Word /\ \E n \in 0 .. args.k_max : \E m \in Middles(n) : IsTestOf(m, v)
  BY DEF TestsUpTo, TestsOf
<1>4. ASSUME NEW n \in 0 .. args.k_max, NEW m \in Middles(n), NEW v, IsTestOf(m, v)
      PROVE  v \in Word
  <2>1. n \in Nat
    BY DEF SuiteArguments, main_options
  <2> QED
    BY <1>1, <1>4, <2>1, TestsAreWords
<1> QED
  BY <1>2, <1>3, <1>4

-----------------------------------------------------------------------------
(* Words that are printed.                                                 *)

(* Beginnings of the words of a set, one word after the other.             *)
LEMMA PrefixClosureFacts ==
  /\ PrefixClosure({}) = {}
  /\ \A V, W : PrefixClosure(V \cup W) = PrefixClosure(V) \cup PrefixClosure(W)
  /\ \A w : PrefixClosure({w}) = Prefixes(w)
<1>1. PrefixClosure({}) = {}
  BY DEF PrefixClosure
<1>2. \A V, x : x \in PrefixClosure(V) <=> \E v \in V : x \in Prefixes(v)
  BY DEF PrefixClosure
<1>3. ASSUME NEW V, NEW W
      PROVE  PrefixClosure(V \cup W) = PrefixClosure(V) \cup PrefixClosure(W)
  <2>1. \A x : x \in PrefixClosure(V \cup W) <=> x \in PrefixClosure(V) \/ x \in PrefixClosure(W)
    BY <1>2
  <2> QED
    BY <2>1
<1>4. ASSUME NEW w PROVE PrefixClosure({w}) = Prefixes(w)
  <2>1. \A x : x \in PrefixClosure({w}) <=> x \in Prefixes(w)
    BY <1>2
  <2> QED
    BY <2>1
<1> QED
  BY <1>1, <1>3, <1>4

(* A sequence without repetitions is as long as the set of its elements.   *)
LEMMA CountSeq ==
  ASSUME NEW S, NEW s \in Seq(S), IsInjective(s)
  PROVE  IsFiniteSet(ToSet(s)) /\ Cardinality(ToSet(s)) = Len(s)
<1>1. Len(s) \in Nat /\ DOMAIN s = 1 .. Len(s) /\ s \in [1 .. Len(s) -> S]
  BY LenProperties
<1>2. s \in [1 .. Len(s) -> ToSet(s)]
  BY <1>1 DEF ToSet
<1>3. s \in Injection(1 .. Len(s), ToSet(s)) /\ s \in Surjection(1 .. Len(s), ToSet(s))
  BY <1>1, <1>2 DEF Injection, Surjection, IsInjective, ToSet
<1>4. ExistsBijection(1 .. Len(s), ToSet(s))
  BY <1>3 DEF ExistsBijection, Bijection
<1>5. Cardinality(ToSet(s)) = Len(s)
  BY <1>1, <1>4, FS_CountingElements
<1>6. IsFiniteSet(ToSet(s))
  BY <1>1, <1>4, FS_NatBijection, SMTT(30)
<1> QED
  BY <1>5, <1>6

(* A word that is taken out is the only one that may be missing.           *)
LEMMA RemoveAtFacts ==
  ASSUME NEW S, NEW s \in Seq(S), NEW n \in DOMAIN s
  PROVE  /\ RemoveAt(s, n) \in Seq(S) /\ Len(RemoveAt(s, n)) = Len(s) - 1
         /\ s[n] \in S
         /\ ToSet(s) = ToSet(RemoveAt(s, n)) \cup {s[n]}
<1>1. Len(s) \in Nat /\ DOMAIN s = 1 .. Len(s) /\ n \in 1 .. Len(s)
      /\ \A i \in 1 .. Len(s) : s[i] \in S
  BY LenProperties, ElementOfSeq
<1> DEFINE x == SubSeq(s, 1, n - 1)
           y == SubSeq(s, n + 1, Len(s))
           z == x \o y
<1>2. x \in Seq(S) /\ Len(x) = n - 1 /\ \A i \in 1 .. n - 1 : x[i] = s[i]
  <2>1. 1 \in Int /\ n - 1 \in Int /\ \A i \in 1 .. n - 1 : s[i] \in S
    BY <1>1
  <2>2. /\ x \in Seq(S) /\ Len(x) = IF 1 <= n - 1 THEN (n - 1) - 1 + 1 ELSE 0
        /\ \A i \in 1 .. (n - 1) - 1 + 1 : x[i] = s[1 + i - 1]
    BY <2>1, SubSeqProperties
  <2> HIDE DEF x
  <2>3. /\ (n - 1) - 1 + 1 = n - 1 /\ (IF 1 <= n - 1 THEN (n - 1) - 1 + 1 ELSE 0) = n - 1
        /\ \A i \in 1 .. n - 1 : 1 + i - 1 = i
    BY <1>1
  <2>4. Len(x) = n - 1
    BY <2>2, <2>3
  <2>5. ASSUME NEW i \in 1 .. n - 1 PROVE x[i] = s[i]
    <3>1. i \in 1 .. (n - 1) - 1 + 1 /\ 1 + i - 1 = i
      BY <2>3
    <3> QED
      BY <2>2, <3>1
  <2> QED
    BY <2>2, <2>4, <2>5
<1>3. y \in Seq(S) /\ Len(y) = Len(s) - n /\ \A i \in 1 .. Len(s) - n : y[i] = s[n + i]
  <2>1. n + 1 \in Int /\ Len(s) \in Int /\ \A i \in n + 1 .. Len(s) : s[i] \in S
    BY <1>1
  <2>2. /\ y \in Seq(S) /\ Len(y) = IF n + 1 <= Len(s) THEN Len(s) - (n + 1) + 1 ELSE 0
        /\ \A i \in 1 .. Len(s) - (n + 1) + 1 : y[i] = s[(n + 1) + i - 1]
    BY <2>1, SubSeqProperties
  <2> HIDE DEF y
  <2>3. Len(y) = Len(s) - n
    BY <1>1, <2>2
  <2>4. ASSUME NEW i \in 1 .. Len(s) - n PROVE y[i] = s[n + i]
    <3>1. i \in 1 .. Len(s) - (n + 1) + 1 /\ (n + 1) + i - 1 = n + i
      BY <1>1
    <3> QED
      BY <2>2, <3>1
  <2> QED
    BY <2>2, <2>3, <2>4
<1>4. RemoveAt(s, n) = z
  BY DEF RemoveAt
<1> HIDE DEF x, y
<1>5. /\ z \in Seq(S) /\ Len(z) = Len(x) + Len(y)
      /\ \A i \in 1 .. Len(x) + Len(y) : z[i] = IF i <= Len(x) THEN x[i] ELSE y[i - Len(x)]
  BY <1>2, <1>3, ConcatProperties
<1> HIDE DEF z
<1>6. Len(z) = Len(s) - 1 /\ DOMAIN z = 1 .. Len(s) - 1
  BY <1>1, <1>2, <1>3, <1>5, LenProperties
<1>7. ASSUME NEW i \in 1 .. Len(s) - 1
      PROVE  z[i] = IF i < n THEN s[i] ELSE s[i + 1]
  <2>1. z[i] = IF i <= n - 1 THEN x[i] ELSE y[i - (n - 1)]
    BY <1>1, <1>2, <1>3, <1>5
  <2>2. CASE i < n
    BY <1>1, <1>2, <2>1, <2>2
  <2>3. CASE ~ (i < n)
    <3>1. i - (n - 1) \in 1 .. Len(s) - n /\ n + (i - (n - 1)) = i + 1 /\ ~ (i <= n - 1)
      BY <1>1, <2>3
    <3>2. y[i - (n - 1)] = s[i + 1]
      BY <1>3, <3>1
    <3> QED
      BY <2>1, <2>3, <3>1, <3>2
  <2> QED
    BY <2>2, <2>3
<1>8. ASSUME NEW i \in DOMAIN z PROVE z[i] \in ToSet(s)
  <2>1. i \in 1 .. Len(s) - 1 /\ i \in DOMAIN s /\ i + 1 \in DOMAIN s
    BY <1>1, <1>6
  <2> QED
    BY <1>7, <2>1 DEF ToSet
<1>9. ASSUME NEW i \in DOMAIN s, i # n PROVE s[i] \in ToSet(z)
  <2>1. CASE i < n
    <3>1. i \in DOMAIN z /\ z[i] = s[i]
      BY <1>1, <1>6, <1>7, <2>1
    <3> QED
      BY <3>1 DEF ToSet
  <2>2. CASE ~ (i < n)
    <3>1. i - 1 \in 1 .. Len(s) - 1 /\ ~ (i - 1 < n) /\ (i - 1) + 1 = i
      BY <1>1, <1>9, <2>2
    <3>2. i - 1 \in DOMAIN z /\ z[i - 1] = s[i]
      BY <1>6, <1>7, <3>1
    <3> QED
      BY <3>2 DEF ToSet
  <2> QED
    BY <2>1, <2>2
<1>10. ToSet(s) = ToSet(z) \cup {s[n]}
  <2>1. \A v \in ToSet(z) : v \in ToSet(s)
    BY <1>8 DEF ToSet
  <2>2. s[n] \in ToSet(s)
    BY DEF ToSet
  <2>3. \A v \in ToSet(s) : v \in ToSet(z) \cup {s[n]}
    BY <1>9 DEF ToSet
  <2> QED
    BY <2>1, <2>2, <2>3
<1> QED
  BY <1>1, <1>4, <1>5, <1>6, <1>10

(* What the trie holds after it has met a word that is printed if it is    *)
(* new.                                                                    *)
LEMMA InsertPrinted ==
  ASSUME NEW t, IsTrie(t, Input), NEW w \in Word, NEW pr, DOMAIN t = PrefixClosure(pr)
  PROVE  /\ IsNew(t, w) => w \notin pr /\ DOMAIN insert(t, w) = PrefixClosure(pr \cup {w})
         /\ ~ IsNew(t, w) => /\ DOMAIN insert(t, w) = PrefixClosure(pr)
                             /\ Prefixes(w) \subseteq PrefixClosure(pr)
         /\ IsTrie(insert(t, w), Input)
<1>1. Input \in SUBSET Int /\ w \in Seq(Input)
  BY DEF Input, Word
<1>2. /\ IsTree(insert(t, w), Input) /\ DOMAIN insert(t, w) = DOMAIN t \cup Prefixes(w)
      /\ IsNew(t, w) <=> w \notin DOMAIN t
  BY <1>1, InsertIs
<1>3. IsTrie(insert(t, w), Input)
  BY <1>2 DEF IsTrie
<1>4. w \in Prefixes(w)
  BY <1>1, PrefixesFacts
<1>5. w \in pr => w \in PrefixClosure(pr)
  BY <1>4 DEF PrefixClosure
<1>6. PrefixClosure(pr \cup {w}) = PrefixClosure(pr) \cup Prefixes(w)
  <2>1. PrefixClosure(pr \cup {w}) = PrefixClosure(pr) \cup PrefixClosure({w})
    BY PrefixClosureFacts, Zenon
  <2>2. PrefixClosure({w}) = Prefixes(w)
    BY PrefixClosureFacts, Zenon
  <2> QED
    BY <2>1, <2>2
<1>7. ASSUME w \in DOMAIN t PROVE Prefixes(w) \subseteq DOMAIN t
  <2>1. IsTree(t, Input)
    BY <1>7, ClearIs DEF IsTrie
  <2> QED
    BY <1>7, <2>1, NodeHasPrefixes
<1> QED
  BY <1>2, <1>3, <1>5, <1>6, <1>7

-----------------------------------------------------------------------------
(* The inductive invariant.                                                *)

(* A trie that knows what was printed and what will be, a line for each.   *)
OutputIs(t, pr, fs, n) ==
  /\ DOMAIN t = PrefixClosure(pr \cup ToSet(fs))
  /\ n + Len(fs) = Cardinality(pr \cup ToSet(fs))

NoPrefixes(W) == \A v, w \in W : IsPrefix(v, w) => v = w

ListsTyped ==
  /\ all_sequences \in Seq(Word) /\ todo \in Seq(Word) /\ first_suite \in Seq(Word)
  /\ k \in 0 .. args.k_max + 1
  /\ suite_pc \in {"first", "second"} => k <= Limit
  /\ suite_pc = "start" => k = 0
  /\ random_tests \in 0 .. MaxRandomTests
  /\ cout_ok \in BOOLEAN /\ reader_open \in BOOLEAN
  /\ suite_pc \in {"start", "first", "print", "second", "random", "returned"}

Collected == args.skip_dup /\ cout_ok /\ suite_pc \notin {"start", "first"}

OutputTyped ==
  /\ IsTrie(test_suite, Input)
  /\ printed \in SUBSET Word /\ IsFiniteSet(printed) /\ lines \in Nat
  /\ suite_pc # "print" => first_suite = <<>>
  /\ suite_pc \in {"start", "first"} => printed = {} /\ lines = 0 /\ cout_ok = TRUE
  /\ suite_pc = "start" => test_suite = clear

OutputAgrees ==
  /\ Collected => OutputIs(test_suite, printed, first_suite, lines)
  /\ Collected /\ suite_pc = "print" => NoPrefixes(printed \cup ToSet(first_suite))

SuiteInv == SuiteArguments /\ ListsTyped /\ OutputTyped /\ OutputAgrees

(* It implies the two invariants of the runs.                              *)
LEMMA SuiteInvImplies ==
  ASSUME SuiteInv PROVE SuiteTypeOK /\ TrieIsOutput
<1>1. Input \in SUBSET Int
  BY DEF Input
<1>2. DOMAIN test_suite \subseteq Word /\ WellFormed(test_suite)
  BY <1>1, TrieIsWellFormed DEF SuiteInv, OutputTyped, Word
<1>3. SuiteTypeOK
  BY <1>2 DEF SuiteInv, SuiteArguments, ListsTyped, OutputTyped, SuiteTypeOK
<1>4. TrieIsOutput
  BY DEF SuiteInv, OutputAgrees, Collected, OutputIs, NoPrefixes, TrieIsOutput
<1> QED
  BY <1>3, <1>4

(* Nothing is printed and nothing is known.                                *)
LEMMA NothingIsOutput == OutputIs(clear, {}, <<>>, 0)
<1>1. ToSet(<<>>) = {} /\ Len(<<>>) = 0
  BY DEF ToSet
<1>2. Cardinality({}) = 0 /\ {} \cup {} = {}
  BY FS_EmptySet
<1> QED
  BY <1>1, <1>2, ClearIs, PrefixClosureFacts DEF OutputIs

(* The collected tests before the first one is printed.                    *)
LEMMA FlattenIsOutput ==
  ASSUME NEW t, IsTrie(t, Input)
  PROVE  /\ flatten(t) \in Seq(Word)
         /\ OutputIs(t, {}, flatten(t), 0)
         /\ NoPrefixes({} \cup ToSet(flatten(t)))
<1>1. Input \in SUBSET Int
  BY DEF Input
<1>2. /\ flatten(t) \in Seq(Word) /\ IsInjective(flatten(t))
      /\ ToSet(flatten(t)) = TrieLeaves(t) /\ DOMAIN t = PrefixClosure(TrieLeaves(t))
      /\ \A v, w \in TrieLeaves(t) : IsPrefix(v, w) => v = w
  BY <1>1, FlattenIs DEF Word
<1>3. Cardinality(ToSet(flatten(t))) = Len(flatten(t)) /\ Len(flatten(t)) \in Nat
  BY <1>2, CountSeq, LenProperties
<1>4. {} \cup ToSet(flatten(t)) = ToSet(flatten(t))
  OBVIOUS
<1>5. OutputIs(t, {}, flatten(t), 0)
  BY <1>2, <1>3, <1>4 DEF OutputIs
<1> QED
  BY <1>2, <1>4, <1>5 DEF NoPrefixes

(* One of the collected tests is printed.                                  *)
LEMMA PrintOne ==
  ASSUME NEW fs \in Seq(Word), NEW n \in DOMAIN fs, NEW pr
  PROVE  /\ RemoveAt(fs, n) \in Seq(Word) /\ fs[n] \in Word
         /\ (pr \cup {fs[n]}) \cup ToSet(RemoveAt(fs, n)) = pr \cup ToSet(fs)
         /\ \A t : \A m \in Nat : OutputIs(t, pr, fs, m) =>
              OutputIs(t, pr \cup {fs[n]}, RemoveAt(fs, n), m + 1)
<1>1. /\ RemoveAt(fs, n) \in Seq(Word) /\ Len(RemoveAt(fs, n)) = Len(fs) - 1
      /\ fs[n] \in Word /\ ToSet(fs) = ToSet(RemoveAt(fs, n)) \cup {fs[n]}
      /\ Len(fs) \in Nat
  BY RemoveAtFacts, LenProperties
<1>2. (pr \cup {fs[n]}) \cup ToSet(RemoveAt(fs, n)) = pr \cup ToSet(fs)
  BY <1>1
<1>3. ASSUME NEW t, NEW m \in Nat, OutputIs(t, pr, fs, m)
      PROVE  OutputIs(t, pr \cup {fs[n]}, RemoveAt(fs, n), m + 1)
  <2>1. (m + 1) + Len(RemoveAt(fs, n)) = m + Len(fs)
    BY <1>1
  <2> QED
    BY <1>2, <1>3, <2>1 DEF OutputIs
<1> QED
  BY <1>1, <1>2, <1>3

(* Nothing is left to be printed.                                          *)
LEMMA NothingIsLeft ==
  ASSUME NEW t, NEW pr, NEW n \in Nat
  PROVE  OutputIs(t, pr, <<>>, n) <=> DOMAIN t = PrefixClosure(pr) /\ n = Cardinality(pr)
<1>1. ToSet(<<>>) = {}
  BY DEF ToSet
<1>2. n + Len(<<>>) = n
  OBVIOUS
<1>3. pr \cup ToSet(<<>>) = pr
  BY <1>1
<1> QED
  BY <1>2, <1>3, Zenon DEF OutputIs

(* The writer that prints what is new.                                     *)
LEMMA PrintUnlessOldFacts ==
  ASSUME SuiteInv, suite_pc \in {"second", "random"}, NEW w \in Word, PrintUnlessOld(w)
  PROVE  /\ IsTrie(test_suite', Input)
         /\ printed' \in SUBSET Word /\ IsFiniteSet(printed') /\ lines' \in Nat
         /\ cout_ok' \in BOOLEAN /\ (cout_ok' => cout_ok)
         /\ args.skip_dup /\ cout_ok' => OutputIs(test_suite', printed', <<>>, lines')
         /\ cout_ok' => PrefixClosure(printed') = PrefixClosure(printed) \cup Prefixes(w)
<1>1. /\ IsTrie(test_suite, Input) /\ printed \in SUBSET Word /\ IsFiniteSet(printed)
      /\ lines \in Nat /\ cout_ok \in BOOLEAN /\ reader_open \in BOOLEAN /\ first_suite = <<>>
      /\ args.skip_dup \in BOOLEAN
      /\ args.skip_dup /\ cout_ok => OutputIs(test_suite, printed, <<>>, lines)
  BY DEF SuiteInv, ListsTyped, OutputTyped, OutputAgrees, Collected, SuiteArguments, main_options
<1>2. /\ test_suite' = IF args.skip_dup THEN insert(test_suite, w) ELSE test_suite
      /\ ~ args.skip_dup \/ IsNew(test_suite, w) => Write(w)
      /\ args.skip_dup /\ ~ IsNew(test_suite, w) =>
           printed' = printed /\ lines' = lines /\ cout_ok' = cout_ok
  BY <1>1 DEF PrintUnlessOld, output
<1>4. IsTrie(insert(test_suite, w), Input)
  <2>1. Input \in SUBSET Int /\ w \in Seq(Input)
    BY DEF Input, Word
  <2> QED
    BY <1>1, <2>1, InsertIs DEF IsTrie
<1>5. ASSUME Write(w)
      PROVE  /\ printed' \in SUBSET Word /\ IsFiniteSet(printed') /\ lines' \in Nat
             /\ cout_ok' \in BOOLEAN /\ (cout_ok' => cout_ok)
             /\ cout_ok' => printed' = printed \cup {w} /\ lines' = lines + 1
  <2>1. /\ cout_ok' = (cout_ok /\ reader_open)
        /\ cout_ok' => printed' = printed \cup {w} /\ lines' = lines + 1
        /\ ~ cout_ok' => printed' = printed /\ lines' = lines
    BY <1>5 DEF Write
  <2>2. IsFiniteSet(printed \cup {w}) /\ printed \cup {w} \in SUBSET Word
    BY <1>1, FS_AddElement
  <2>3. cout_ok' \in BOOLEAN /\ (cout_ok' => cout_ok)
    BY <1>1, <2>1, Zenon
  <2>4. CASE cout_ok'
    <3>1. printed' = printed \cup {w} /\ lines' = lines + 1
      BY <2>1, <2>4
    <3>2. IsFiniteSet(printed') /\ printed' \in SUBSET Word
      BY <2>2, <3>1, Zenon
    <3>3. lines' \in Nat
      BY <1>1, <3>1
    <3> QED
      BY <2>3, <3>1, <3>2, <3>3, Zenon
  <2>5. CASE ~ cout_ok'
    BY <1>1, <2>1, <2>3, <2>5
  <2> QED
    BY <2>4, <2>5
<1>6. PrefixClosure(printed \cup {w}) = PrefixClosure(printed) \cup Prefixes(w)
  <2>1. PrefixClosure(printed \cup {w}) = PrefixClosure(printed) \cup PrefixClosure({w})
    BY PrefixClosureFacts, Zenon
  <2>2. PrefixClosure({w}) = Prefixes(w)
    BY PrefixClosureFacts, Zenon
  <2> QED
    BY <2>1, <2>2
<1>7. args.skip_dup /\ cout_ok =>
        DOMAIN test_suite = PrefixClosure(printed) /\ lines = Cardinality(printed)
  BY <1>1, NothingIsLeft
<1>8. CASE ~ args.skip_dup
  BY <1>1, <1>2, <1>5, <1>6, <1>8
<1>9. CASE args.skip_dup /\ IsNew(test_suite, w)
  <2>1. Write(w) /\ test_suite' = insert(test_suite, w)
    BY <1>2, <1>9
  <2>2. ASSUME cout_ok' PROVE OutputIs(test_suite', printed', <<>>, lines')
    <3>1. cout_ok /\ printed' = printed \cup {w} /\ lines' = lines + 1
      BY <1>5, <2>1, <2>2
    <3>2. DOMAIN test_suite = PrefixClosure(printed) /\ lines = Cardinality(printed)
      BY <1>7, <1>9, <3>1
    <3>3. w \notin printed /\ DOMAIN insert(test_suite, w) = PrefixClosure(printed \cup {w})
      BY <1>1, <1>9, <3>2, InsertPrinted
    <3>4. Cardinality(printed \cup {w}) = Cardinality(printed) + 1
      BY <1>1, <3>3, FS_AddElement
    <3>5. DOMAIN test_suite' = PrefixClosure(printed')
      BY <2>1, <3>1, <3>3
    <3>6. lines' \in Nat /\ lines' = Cardinality(printed')
      BY <1>1, <3>1, <3>2, <3>4
    <3> QED
      BY <3>5, <3>6, NothingIsLeft
  <2> QED
    BY <1>4, <1>5, <1>6, <2>1, <2>2
<1>10. CASE args.skip_dup /\ ~ IsNew(test_suite, w)
  <2>1. /\ printed' = printed /\ lines' = lines /\ cout_ok' = cout_ok
        /\ test_suite' = insert(test_suite, w)
    BY <1>2, <1>10
  <2>2. ASSUME cout_ok
        PROVE  /\ OutputIs(test_suite', printed', <<>>, lines')
               /\ Prefixes(w) \subseteq PrefixClosure(printed)
    <3>1. DOMAIN test_suite = PrefixClosure(printed) /\ lines = Cardinality(printed)
      BY <1>7, <1>10, <2>2
    <3>2. /\ DOMAIN insert(test_suite, w) = PrefixClosure(printed)
          /\ Prefixes(w) \subseteq PrefixClosure(printed)
      BY <1>1, <1>10, <3>1, InsertPrinted
    <3>3. DOMAIN test_suite' = PrefixClosure(printed')
      BY <2>1, <3>2
    <3>4. lines' \in Nat /\ lines' = Cardinality(printed')
      BY <1>1, <2>1, <3>1
    <3> QED
      BY <3>2, <3>3, <3>4, NothingIsLeft
  <2> QED
    BY <1>1, <1>4, <2>1, <2>2
<1> QED
  BY <1>1, <1>8, <1>9, <1>10

(* The arguments stay the same; so does what is derived from them.         *)
LEMMA ArgumentsStay ==
  ASSUME SuiteArguments, UNCHANGED arguments
  PROVE  /\ SuiteArguments' /\ args' = args
         /\ args.k_max \in Nat /\ args.l \in Nat /\ args.l <= args.k_max
<1>1. SuiteArguments' /\ args' = args
  BY DEF SuiteArguments, arguments
<1>2. args.k_max \in Nat /\ args.l \in Nat /\ args.l <= args.k_max
  BY DEF SuiteArguments, main_options
<1> QED
  BY <1>1, <1>2

(* The program starts with nothing printed.                                *)
LEMMA SuiteInvInit ==
  ASSUME MaxRandomTests \in Nat, SuiteInit, SuiteArguments PROVE SuiteInv
<1>1. all_sequences \in Seq(Word) /\ <<>> \in Seq(Word)
  BY DEF SuiteInit, Word
<1>2. ListsTyped
  <2>1. args.k_max \in Nat /\ args.l \in Nat
    BY DEF SuiteArguments, main_options
  <2> QED
    BY <1>1, <2>1 DEF SuiteInit, ListsTyped
<1>3. OutputTyped
  BY FS_EmptySet DEF SuiteInit, OutputTyped, IsTrie
<1>4. OutputAgrees
  BY DEF SuiteInit, OutputAgrees, Collected
<1> QED
  BY <1>2, <1>3, <1>4 DEF SuiteInv

(* The first call of test, or the random tests, start with nothing known.  *)
LEMMA StartTestsInv ==
  ASSUME SuiteInv, StartTests PROVE SuiteInv'
<1>1. /\ SuiteArguments' /\ args' = args
      /\ args.k_max \in Nat /\ args.l \in Nat /\ args.l <= args.k_max
  BY ArgumentsStay DEF SuiteInv, StartTests
<1>2. /\ suite_pc = "start" /\ suite_pc' \in {"first", "random"}
      /\ todo' = Tests(all_sequences) \/ todo' = todo
      /\ UNCHANGED <<all_sequences, k, test_suite, first_suite, printed, lines, cout_ok,
                     random_tests, reader_open>>
  BY DEF StartTests, output
<1>3. Tests(all_sequences) \in Seq(Word)
  BY TestsAre DEF SuiteInv, ListsTyped
<1>4. ListsTyped'
  BY <1>1, <1>2, <1>3 DEF SuiteInv, ListsTyped, Limit
<1>5. OutputTyped'
  BY <1>2 DEF SuiteInv, OutputTyped
<1>6. OutputAgrees'
  <2>1. test_suite' = clear /\ printed' = {} /\ first_suite' = <<>> /\ lines' = 0
    BY <1>2 DEF SuiteInv, OutputTyped
  <2>2. OutputIs(test_suite', printed', first_suite', lines')
    BY <2>1, NothingIsOutput, Zenon
  <2>3. suite_pc' # "print"
    BY <1>2
  <2> QED
    BY <2>2, <2>3 DEF OutputAgrees
<1> QED
  BY <1>1, <1>4, <1>5, <1>6 DEF SuiteInv

(* Mode wset prints the suffixes, through the trie.                        *)
LEMMA StartWsetInv ==
  ASSUME SuiteInv, StartWset PROVE SuiteInv'
<1>1. /\ SuiteArguments' /\ args' = args
      /\ args.k_max \in Nat /\ args.l \in Nat /\ args.l <= args.k_max
  BY ArgumentsStay DEF SuiteInv, StartWset
<1> DEFINE ss == [n \in 1 .. N |-> separating_family[n - 1]]
<1>2. /\ suite_pc = "start" /\ suite_pc' = "print"
      /\ test_suite' = insert_all(FlattenSeq(ss))
      /\ first_suite' = flatten(test_suite')
      /\ UNCHANGED <<all_sequences, k, todo, printed, lines, cout_ok, random_tests, reader_open>>
  BY DEF StartWset, output
<1>3. FlattenSeq(ss) \in Seq(Seq(Input))
  <2>1. N \in Nat /\ \A n \in 1 .. N : n - 1 \in State
    BY SizesAssumption DEF State
  <2>2. ss \in [1 .. N -> Seq(Seq(Input))]
    BY <2>1 DEF SuiteInv, SuiteArguments, Word
  <2>3. ss \in Seq(Seq(Seq(Input)))
    BY <2>1, <2>2, SeqDef
  <2> HIDE DEF ss
  <2> QED
    BY <2>3, FlattenFacts
<1> HIDE DEF ss
<1>4. IsTrie(test_suite', Input)
  <2>1. Input \in SUBSET Int
    BY DEF Input
  <2> QED
    BY <1>2, <1>3, <2>1, InsertAllIs
<1>5. /\ first_suite' \in Seq(Word)
      /\ OutputIs(test_suite', {}, first_suite', 0)
      /\ NoPrefixes({} \cup ToSet(first_suite'))
  <2> DEFINE t == test_suite'
  <2>1. IsTrie(t, Input)
    BY <1>4
  <2> HIDE DEF t
  <2>2. /\ flatten(t) \in Seq(Word) /\ OutputIs(t, {}, flatten(t), 0)
        /\ NoPrefixes({} \cup ToSet(flatten(t)))
    BY <2>1, FlattenIsOutput
  <2> QED
    BY <1>2, <2>2 DEF t
<1>6. ListsTyped'
  BY <1>1, <1>2, <1>5 DEF SuiteInv, ListsTyped
<1>7. printed' = {} /\ lines' = 0
  BY <1>2 DEF SuiteInv, OutputTyped
<1>8. OutputTyped'
  BY <1>2, <1>4, <1>7 DEF SuiteInv, OutputTyped
<1>9. OutputAgrees'
  BY <1>5, <1>7 DEF OutputAgrees
<1> QED
  BY <1>1, <1>6, <1>8, <1>9 DEF SuiteInv

(* A test is collected: the trie stays one.                                *)
LEMMA CollectTestInv ==
  ASSUME SuiteInv, CollectTest PROVE SuiteInv'
<1>1. /\ SuiteArguments' /\ args' = args
      /\ args.k_max \in Nat /\ args.l \in Nat /\ args.l <= args.k_max
  BY ArgumentsStay DEF SuiteInv, CollectTest
<1>2. /\ suite_pc = "first" /\ suite_pc' = "first" /\ todo # <<>>
      /\ test_suite' = insert(test_suite, Head(todo)) /\ todo' = Tail(todo)
      /\ UNCHANGED <<all_sequences, k, first_suite, printed, lines, cout_ok, random_tests,
                     reader_open>>
  BY DEF CollectTest, output
<1>3. Head(todo) \in Word /\ Tail(todo) \in Seq(Word)
  BY <1>2, HeadTailProperties DEF SuiteInv, ListsTyped
<1>4. IsTrie(test_suite', Input)
  <2>1. Input \in SUBSET Int
    BY DEF Input
  <2>2. PICK w \in Seq(Input) : w = Head(todo)
    BY <1>3 DEF Word
  <2>3. IsTree(insert(test_suite, w), Input)
    BY <2>1, InsertIs DEF SuiteInv, OutputTyped
  <2> QED
    BY <1>2, <2>2, <2>3 DEF IsTrie
<1>5. ListsTyped'
  BY <1>1, <1>2, <1>3 DEF SuiteInv, ListsTyped, Limit
<1>6. OutputTyped'
  BY <1>2, <1>4 DEF SuiteInv, OutputTyped
<1>7. OutputAgrees'
  BY <1>2 DEF OutputAgrees, Collected
<1> QED
  BY <1>1, <1>5, <1>6, <1>7 DEF SuiteInv

(* The infixes grow.                                                       *)
LEMMA NextLengthInv ==
  ASSUME SuiteInv, NextLength PROVE SuiteInv'
<1>1. /\ SuiteArguments' /\ args' = args
      /\ args.k_max \in Nat /\ args.l \in Nat /\ args.l <= args.k_max
  BY ArgumentsStay DEF SuiteInv, NextLength
<1>2. /\ suite_pc \in {"first", "second"} /\ suite_pc' = suite_pc /\ k < Limit
      /\ all_sequences' = all_seqs(all_sequences) /\ k' = k + 1
      /\ todo' = Tests(all_sequences') \/ todo' = <<>>
      /\ UNCHANGED <<test_suite, first_suite, printed, lines, cout_ok, random_tests,
                     reader_open>>
  BY DEF NextLength, output
<1>3. PICK seqs \in Seq(Word) : seqs = all_sequences'
  BY <1>2, AllSeqsAre DEF SuiteInv, ListsTyped
<1>4. Tests(seqs) \in Seq(Word)
  BY TestsAre DEF SuiteInv
<1>5. todo' \in Seq(Word)
  <2>1. CASE todo' = Tests(all_sequences')
    BY <1>3, <1>4, <2>1, Zenon
  <2>2. CASE todo' = <<>>
    BY <2>2
  <2> QED
    BY <1>2, <2>1, <2>2
<1>6. Limit' = Limit
  BY <1>1, <1>2 DEF Limit
<1>7. k' \in 0 .. args.k_max + 1 /\ k' <= Limit
  BY <1>1, <1>2, SMTT(30) DEF SuiteInv, ListsTyped, Limit
<1>8. ListsTyped'
  BY <1>1, <1>2, <1>3, <1>5, <1>6, <1>7 DEF SuiteInv, ListsTyped
<1>9. OutputTyped'
  BY <1>2 DEF SuiteInv, OutputTyped
<1>10. OutputAgrees'
  BY <1>1, <1>2 DEF SuiteInv, OutputAgrees, Collected
<1> QED
  BY <1>1, <1>8, <1>9, <1>10 DEF SuiteInv

(* The collected tests are listed: a line will be printed for each.        *)
LEMMA LeaveFirstInv ==
  ASSUME SuiteInv, LeaveFirst PROVE SuiteInv'
<1>1. /\ SuiteArguments' /\ args' = args
      /\ args.k_max \in Nat /\ args.l \in Nat /\ args.l <= args.k_max
  BY ArgumentsStay DEF SuiteInv, LeaveFirst
<1>2. /\ suite_pc = "first" /\ suite_pc' = "print"
      /\ first_suite' = flatten(test_suite)
      /\ UNCHANGED <<all_sequences, k, todo, test_suite, printed, lines, cout_ok, random_tests,
                     reader_open>>
  BY DEF LeaveFirst, output
<1>3. /\ first_suite' \in Seq(Word)
      /\ OutputIs(test_suite', {}, first_suite', 0)
      /\ NoPrefixes({} \cup ToSet(first_suite'))
  <2>1. IsTrie(test_suite, Input)
    BY DEF SuiteInv, OutputTyped
  <2>2. /\ flatten(test_suite) \in Seq(Word)
        /\ OutputIs(test_suite, {}, flatten(test_suite), 0)
        /\ NoPrefixes({} \cup ToSet(flatten(test_suite)))
    BY <2>1, FlattenIsOutput
  <2> QED
    BY <1>2, <2>2
<1>4. ListsTyped'
  BY <1>1, <1>2, <1>3 DEF SuiteInv, ListsTyped
<1>5. printed' = {} /\ lines' = 0
  BY <1>2 DEF SuiteInv, OutputTyped
<1>6. OutputTyped'
  BY <1>2, <1>5 DEF SuiteInv, OutputTyped
<1>7. OutputAgrees'
  BY <1>3, <1>5 DEF OutputAgrees
<1> QED
  BY <1>1, <1>4, <1>6, <1>7 DEF SuiteInv

(* A collected test goes from the list to the output.                      *)
LEMMA PrintCollectedInv ==
  ASSUME SuiteInv, PrintCollected PROVE SuiteInv'
<1>1. /\ SuiteArguments' /\ args' = args
      /\ args.k_max \in Nat /\ args.l \in Nat /\ args.l <= args.k_max
  BY ArgumentsStay DEF SuiteInv, PrintCollected
<1>2. PICK n \in DOMAIN first_suite :
        /\ Write(first_suite[n])
        /\ first_suite' = RemoveAt(first_suite, n)
  BY DEF PrintCollected
<1>3. /\ suite_pc = "print" /\ suite_pc' = "print"
      /\ UNCHANGED <<all_sequences, k, todo, test_suite, random_tests, reader_open>>
  BY DEF PrintCollected
<1>4. /\ first_suite \in Seq(Word) /\ printed \in SUBSET Word /\ IsFiniteSet(printed)
      /\ lines \in Nat /\ cout_ok \in BOOLEAN /\ reader_open \in BOOLEAN
  BY DEF SuiteInv, ListsTyped, OutputTyped
<1> DEFINE w == first_suite[n]
<1>5. /\ RemoveAt(first_suite, n) \in Seq(Word) /\ w \in Word
      /\ (printed \cup {w}) \cup ToSet(RemoveAt(first_suite, n)) = printed \cup ToSet(first_suite)
      /\ \A t : \A m \in Nat : OutputIs(t, printed, first_suite, m) =>
           OutputIs(t, printed \cup {w}, RemoveAt(first_suite, n), m + 1)
  BY <1>4, PrintOne
<1>6. /\ cout_ok' = (cout_ok /\ reader_open)
      /\ cout_ok' => printed' = printed \cup {w} /\ lines' = lines + 1
      /\ ~ cout_ok' => printed' = printed /\ lines' = lines
  BY <1>2 DEF Write
<1> HIDE DEF w
<1>7. cout_ok' \in BOOLEAN /\ (cout_ok' => cout_ok)
  BY <1>4, <1>6, Zenon
<1>8. printed' \in SUBSET Word /\ IsFiniteSet(printed') /\ lines' \in Nat
  <2>1. IsFiniteSet(printed \cup {w}) /\ printed \cup {w} \in SUBSET Word
    BY <1>4, <1>5, FS_AddElement
  <2>2. CASE cout_ok'
    <3>1. IsFiniteSet(printed') /\ printed' \in SUBSET Word
      BY <1>6, <2>1, <2>2, Zenon
    <3> QED
      BY <1>4, <1>6, <2>2, <3>1
  <2>3. CASE ~ cout_ok'
    BY <1>4, <1>6, <2>3
  <2> QED
    BY <2>2, <2>3
<1>9. ListsTyped'
  BY <1>1, <1>2, <1>3, <1>5, <1>7 DEF SuiteInv, ListsTyped
<1>10. OutputTyped'
  BY <1>3, <1>8 DEF SuiteInv, OutputTyped
<1>11. ASSUME Collected'
       PROVE  /\ OutputIs(test_suite', printed', first_suite', lines')
              /\ NoPrefixes(printed' \cup ToSet(first_suite'))
  <2>1. cout_ok' /\ Collected
    BY <1>1, <1>3, <1>7, <1>11 DEF Collected
  <2>2. /\ OutputIs(test_suite, printed, first_suite, lines)
        /\ NoPrefixes(printed \cup ToSet(first_suite))
    BY <1>3, <2>1 DEF SuiteInv, OutputAgrees
  <2>3. printed' = printed \cup {w} /\ lines' = lines + 1
    BY <1>6, <2>1
  <2>4. OutputIs(test_suite, printed \cup {w}, RemoveAt(first_suite, n), lines + 1)
    BY <1>4, <1>5, <2>2
  <2>5. OutputIs(test_suite', printed', first_suite', lines')
    BY <1>2, <1>3, <2>3, <2>4
  <2>6. printed' \cup ToSet(first_suite') = printed \cup ToSet(first_suite)
    BY <1>2, <1>5, <2>3
  <2> QED
    BY <2>2, <2>5, <2>6
<1>12. OutputAgrees'
  BY <1>11 DEF OutputAgrees
<1> QED
  BY <1>1, <1>9, <1>10, <1>12 DEF SuiteInv

(* The second call starts when the list is empty.                          *)
LEMMA LeavePrintInv ==
  ASSUME SuiteInv, LeavePrint PROVE SuiteInv'
<1>1. /\ SuiteArguments' /\ args' = args
      /\ args.k_max \in Nat /\ args.l \in Nat /\ args.l <= args.k_max
  BY ArgumentsStay DEF SuiteInv, LeavePrint
<1>2. /\ suite_pc = "print" /\ suite_pc' \in {"returned", "second"} /\ first_suite = <<>> /\ k' = 0
      /\ todo' = Tests(all_sequences) \/ todo' = <<>>
      /\ UNCHANGED <<all_sequences, test_suite, first_suite, printed, lines, cout_ok,
                     random_tests, reader_open>>
  BY DEF LeavePrint, output
<1>3. Tests(all_sequences) \in Seq(Word) /\ <<>> \in Seq(Word)
  BY TestsAre DEF SuiteInv, ListsTyped
<1>4. ListsTyped'
  <2>1. suite_pc' \in {"first", "second"} => k' <= Limit'
    BY <1>1, <1>2 DEF Limit
  <2>2. todo' \in Seq(Word)
    BY <1>2, <1>3
  <2>3. k' \in 0 .. args'.k_max + 1
    BY <1>1, <1>2
  <2> QED
    BY <1>2, <2>1, <2>2, <2>3 DEF SuiteInv, ListsTyped
<1>5. OutputTyped'
  BY <1>2 DEF SuiteInv, OutputTyped
<1>6. OutputAgrees'
  BY <1>1, <1>2 DEF SuiteInv, OutputAgrees, Collected
<1> QED
  BY <1>1, <1>4, <1>5, <1>6 DEF SuiteInv

(* A test of the second call is printed unless it is old.                  *)
LEMMA StreamTestInv ==
  ASSUME SuiteInv, StreamTest PROVE SuiteInv'
<1>1. /\ SuiteArguments' /\ args' = args
      /\ args.k_max \in Nat /\ args.l \in Nat /\ args.l <= args.k_max
  BY ArgumentsStay DEF SuiteInv, StreamTest
<1>2. /\ suite_pc = "second" /\ suite_pc' \in {"second", "random", "returned"} /\ todo # <<>>
      /\ todo' = Tail(todo) /\ PrintUnlessOld(Head(todo))
      /\ UNCHANGED <<all_sequences, k, first_suite, random_tests, reader_open>>
  BY DEF StreamTest, AfterFixed
<1>3. Head(todo) \in Word /\ Tail(todo) \in Seq(Word) /\ first_suite = <<>>
  BY <1>2, HeadTailProperties DEF SuiteInv, ListsTyped, OutputTyped
<1>4. PICK w \in Word : w = Head(todo)
  BY <1>3
<1>5. /\ IsTrie(test_suite', Input)
      /\ printed' \in SUBSET Word /\ IsFiniteSet(printed') /\ lines' \in Nat
      /\ cout_ok' \in BOOLEAN
      /\ args.skip_dup /\ cout_ok' => OutputIs(test_suite', printed', <<>>, lines')
  BY <1>2, <1>4, PrintUnlessOldFacts
<1>6. ListsTyped'
  <2>1. suite_pc' = "second" => Limit' = Limit
    BY <1>1, <1>2 DEF Limit
  <2> QED
    BY <1>1, <1>2, <1>3, <1>5, <2>1 DEF SuiteInv, ListsTyped
<1>7. OutputTyped'
  BY <1>2, <1>3, <1>5 DEF OutputTyped
<1>8. OutputAgrees'
  BY <1>1, <1>2, <1>3, <1>5 DEF OutputAgrees, Collected
<1> QED
  BY <1>1, <1>6, <1>7, <1>8 DEF SuiteInv

(* The second call ends.                                                   *)
LEMMA LeaveSecondInv ==
  ASSUME SuiteInv, LeaveSecond PROVE SuiteInv'
<1>1. /\ SuiteArguments' /\ args' = args
      /\ args.k_max \in Nat /\ args.l \in Nat /\ args.l <= args.k_max
  BY ArgumentsStay DEF SuiteInv, LeaveSecond
<1>2. /\ suite_pc = "second" /\ suite_pc' \in {"random", "returned"}
      /\ UNCHANGED <<all_sequences, k, todo, test_suite, first_suite, printed, lines, cout_ok,
                     random_tests, reader_open>>
  BY DEF LeaveSecond, AfterFixed, output
<1>3. ListsTyped'
  BY <1>1, <1>2 DEF SuiteInv, ListsTyped
<1>4. OutputTyped'
  BY <1>2 DEF SuiteInv, OutputTyped
<1>5. OutputAgrees'
  BY <1>1, <1>2 DEF SuiteInv, OutputAgrees, Collected
<1> QED
  BY <1>1, <1>3, <1>4, <1>5 DEF SuiteInv

(* Random tests are words, whatever the infix.                             *)
LEMMA RandomTestsAreWords ==
  ASSUME SuiteArguments, MaxExtra \in Nat, NEW w \in RandomTests
  PROVE  w \in Word
<1>1. PICK s \in State, middle \in Infixes :
        w \in {prefixes[s] \o middle \o suffix :
                 suffix \in ToSet(separating_family[
                   state_after(state_after(0, prefixes[s]), middle)])}
  BY DEF RandomTests
<1>2. middle \in Word
  <2>1. args.k_max \in Nat
    BY DEF SuiteArguments, main_options
  <2>2. min_k \in Nat
    BY <2>1 DEF min_k
  <2>3. PICK n \in min_k .. max_length : middle \in [1 .. n -> Input]
    BY <1>1 DEF Infixes
  <2>4. max_length \in {min_k, min_k + MaxExtra}
    BY DEF max_length
  <2>5. n \in Nat
    BY <2>2, <2>3, <2>4
  <2> QED
    BY <2>3, <2>5 DEF Word
<1>3. 0 \in State /\ prefixes[s] \in Word
  BY SizesAssumption DEF State, SuiteArguments
<1>4. state_after(0, prefixes[s]) \in State
  BY <1>3, TestsAreWords
<1>5. separating_family[state_after(state_after(0, prefixes[s]), middle)] \in Seq(Word)
  BY <1>2, <1>4, TestsAreWords
<1> DEFINE suf == separating_family[state_after(state_after(0, prefixes[s]), middle)]
<1>6. PICK suffix \in ToSet(suf) : w = prefixes[s] \o middle \o suffix
  BY <1>1
<1>7. suf \in Seq(Seq(Input))
  BY <1>5 DEF Word
<1> HIDE DEF suf
<1>8. suffix \in Seq(Input)
  BY <1>6, <1>7, ElementOfSeq, LenProperties DEF ToSet
<1>9. prefixes[s] \o middle \in Seq(Input)
  BY <1>2, <1>3, ConcatProperties DEF Word
<1>10. (prefixes[s] \o middle) \o suffix \in Seq(Input)
  BY <1>8, <1>9, ConcatProperties
<1> QED
  BY <1>6, <1>10 DEF Word

(* A random test is printed unless it is old.                              *)
LEMMA RandomTestInv ==
  ASSUME MaxExtra \in Nat, MaxRandomTests \in Nat, SuiteInv, RandomTest PROVE SuiteInv'
<1>1. /\ SuiteArguments' /\ args' = args
      /\ args.k_max \in Nat /\ args.l \in Nat /\ args.l <= args.k_max
  BY ArgumentsStay DEF SuiteInv, RandomTest
<1>2. /\ suite_pc = "random" /\ suite_pc' \in {"random", "returned"}
      /\ reader_open => random_tests < MaxRandomTests
      /\ random_tests' = IF reader_open THEN random_tests + 1 ELSE random_tests
      /\ UNCHANGED <<all_sequences, k, todo, first_suite, reader_open>>
  BY DEF RandomTest
<1>3. PICK w \in RandomTests : PrintUnlessOld(w)
  BY DEF RandomTest
<1>4. w \in Word
  BY RandomTestsAreWords DEF SuiteInv
<1>5. /\ IsTrie(test_suite', Input)
      /\ printed' \in SUBSET Word /\ IsFiniteSet(printed') /\ lines' \in Nat
      /\ cout_ok' \in BOOLEAN
      /\ args.skip_dup /\ cout_ok' => OutputIs(test_suite', printed', <<>>, lines')
  BY <1>2, <1>3, <1>4, PrintUnlessOldFacts
<1>6. first_suite' = <<>>
  BY <1>2 DEF SuiteInv, OutputTyped
<1>7. random_tests' \in 0 .. MaxRandomTests
  BY <1>2 DEF SuiteInv, ListsTyped
<1>8. ListsTyped'
  BY <1>1, <1>2, <1>5, <1>7 DEF SuiteInv, ListsTyped
<1>9. OutputTyped'
  BY <1>2, <1>5, <1>6 DEF OutputTyped
<1>10. OutputAgrees'
  BY <1>1, <1>2, <1>5, <1>6 DEF OutputAgrees, Collected
<1> QED
  BY <1>1, <1>8, <1>9, <1>10 DEF SuiteInv

(* The reader leaves: nothing that the program knows changes.              *)
LEMMA CloseOutputInv ==
  ASSUME SuiteInv, CloseOutput PROVE SuiteInv'
<1>1. /\ SuiteArguments' /\ args' = args
      /\ args.k_max \in Nat /\ args.l \in Nat /\ args.l <= args.k_max
  BY ArgumentsStay DEF SuiteInv, CloseOutput
<1>2. /\ reader_open' = FALSE
      /\ UNCHANGED <<all_sequences, k, todo, test_suite, first_suite, printed, lines, cout_ok,
                     random_tests, suite_pc>>
  BY DEF CloseOutput, output
<1>3. ListsTyped'
  BY <1>1, <1>2 DEF SuiteInv, ListsTyped, Limit
<1>4. OutputTyped'
  BY <1>2 DEF SuiteInv, OutputTyped
<1>5. OutputAgrees'
  BY <1>1, <1>2 DEF SuiteInv, OutputAgrees, Collected
<1> QED
  BY <1>1, <1>3, <1>4, <1>5 DEF SuiteInv

(* Nothing happens.                                                        *)
LEMMA SuiteStutterInv ==
  ASSUME SuiteInv, UNCHANGED suite_vars PROVE SuiteInv'
<1>1. /\ SuiteArguments' /\ args' = args
      /\ args.k_max \in Nat /\ args.l \in Nat /\ args.l <= args.k_max
  BY ArgumentsStay DEF SuiteInv, suite_vars
<1>2. UNCHANGED <<all_sequences, k, todo, test_suite, first_suite, printed, lines, cout_ok,
                  random_tests, reader_open, suite_pc>>
  BY DEF suite_vars, output
<1>3. ListsTyped'
  BY <1>1, <1>2 DEF SuiteInv, ListsTyped, Limit
<1>4. OutputTyped'
  BY <1>2 DEF SuiteInv, OutputTyped
<1>5. OutputAgrees'
  BY <1>1, <1>2 DEF SuiteInv, OutputAgrees, Collected
<1> QED
  BY <1>1, <1>3, <1>4, <1>5 DEF SuiteInv

(* All steps of the calls keep it.                                         *)
LEMMA SuiteNextInv ==
  ASSUME MaxExtra \in Nat, MaxRandomTests \in Nat, SuiteInv, [SuiteNext]_suite_vars
  PROVE  SuiteInv'
<1>1. CASE StartTests      BY <1>1, StartTestsInv
<1>2. CASE StartWset       BY <1>2, StartWsetInv
<1>3. CASE CollectTest     BY <1>3, CollectTestInv
<1>4. CASE NextLength      BY <1>4, NextLengthInv
<1>5. CASE LeaveFirst      BY <1>5, LeaveFirstInv
<1>6. CASE PrintCollected  BY <1>6, PrintCollectedInv
<1>7. CASE LeavePrint      BY <1>7, LeavePrintInv
<1>8. CASE StreamTest      BY <1>8, StreamTestInv
<1>9. CASE LeaveSecond     BY <1>9, LeaveSecondInv
<1>10. CASE RandomTest      BY <1>10, RandomTestInv
<1>11. CASE CloseOutput     BY <1>11, CloseOutputInv
<1>12. CASE UNCHANGED suite_vars
  BY <1>12, SuiteStutterInv
<1> QED
  BY <1>1, <1>2, <1>3, <1>4, <1>5, <1>6, <1>7, <1>8, <1>9, <1>10, <1>11, <1>12
     DEF SuiteNext, Step

(* The invariant of both calls of test and of the random tests.            *)
THEOREM SuiteInvariance ==
  ASSUME MaxExtra \in Nat, MaxRandomTests \in Nat
  PROVE  SuiteSpec => []SuiteInv
<1>1. SuiteInit /\ SuiteArguments => SuiteInv
  BY SuiteInvInit
<1>2. SuiteInv /\ [SuiteNext]_suite_vars => SuiteInv'
  BY SuiteNextInv
<1> QED
  BY <1>1, <1>2, PTL DEF SuiteSpec

(* The types of the variables of the tests, and the order of the letters   *)
(* in the trie that lower_bound relies on (test_suite.cpp, trie.hpp).      *)
THEOREM SuiteTypeCorrect ==
  ASSUME MaxExtra \in Nat, MaxRandomTests \in Nat
  PROVE  SuiteSpec => []SuiteTypeOK
<1>1. SuiteInv => SuiteTypeOK
  BY SuiteInvImplies
<1> QED
  BY <1>1, SuiteInvariance, PTL

(* The filter never takes a test for a duplicate that nobody saw, no line  *)
(* is printed twice, and no collected test is the beginning of another, as *)
(* long as the output can be written (the writers in main.cpp).            *)
THEOREM TrieHoldsTheOutput ==
  ASSUME MaxExtra \in Nat, MaxRandomTests \in Nat
  PROVE  SuiteSpec => []TrieIsOutput
<1>1. SuiteInv => TrieIsOutput
  BY SuiteInvImplies
<1> QED
  BY <1>1, SuiteInvariance, PTL

-----------------------------------------------------------------------------
(* The fixed part.                                                         *)

(* What has to be the beginning of a line when infixes up to this length   *)
(* are dealt with.                                                         *)
Required == [n \in Nat |-> PrefixClosure(TestsUpTo(n))]

(* What is required depends on the arguments only.                         *)
LEMMA RequiredStays ==
  ASSUME UNCHANGED arguments PROVE Required' = Required
<1>1. /\ specification' = specification /\ prefixes' = prefixes
      /\ separating_family' = separating_family
  BY DEF arguments
<1>2. ASSUME NEW m, NEW v PROVE IsTestOf(m, v)' <=> IsTestOf(m, v)
  BY <1>1 DEF IsTestOf, state_after
<1>3. ASSUME NEW n PROVE TestsOf(n)' = TestsOf(n)
  <2>1. \A v : v \in TestsOf(n)' <=> v \in Word /\ \E m \in Middles(n) : IsTestOf(m, v)'
    BY DEF TestsOf
  <2>2. \A v : v \in TestsOf(n) <=> v \in Word /\ \E m \in Middles(n) : IsTestOf(m, v)
    BY DEF TestsOf
  <2>3. \A v : v \in TestsOf(n)' <=> v \in TestsOf(n)
    BY <1>2, <2>1, <2>2
  <2> HIDE DEF TestsOf
  <2> QED
    BY <2>3
<1>4. ASSUME NEW n PROVE TestsUpTo(n)' = TestsUpTo(n)
  BY <1>3 DEF TestsUpTo
<1> QED
  BY <1>4 DEF Required

(* One length more.                                                        *)
LEMMA RequiredGrows ==
  ASSUME NEW n \in Nat
  PROVE  /\ Required[0] = PrefixClosure(TestsOf(0))
         /\ Required[n + 1] = Required[n] \cup PrefixClosure(TestsOf(n + 1))
<1>1. \A i \in Nat : Required[i] = PrefixClosure(TestsUpTo(i))
  BY DEF Required
<1>2. TestsUpTo(0) = TestsOf(0)
  <2>1. 0 .. 0 = {0}
    OBVIOUS
  <2> QED
    BY <2>1 DEF TestsUpTo
<1>3. TestsUpTo(n + 1) = TestsUpTo(n) \cup TestsOf(n + 1)
  <2>1. \A i \in 0 .. n + 1 : i \in 0 .. n \/ i = n + 1
    OBVIOUS
  <2>2. n + 1 \in 0 .. n + 1 /\ \A i \in 0 .. n : i \in 0 .. n + 1
    OBVIOUS
  <2>3. \A v : v \in TestsUpTo(n + 1) <=> \E i \in 0 .. n + 1 : v \in TestsOf(i)
    BY DEF TestsUpTo
  <2>4. \A v : v \in TestsUpTo(n) <=> \E i \in 0 .. n : v \in TestsOf(i)
    BY DEF TestsUpTo
  <2>5. \A v : v \in TestsUpTo(n + 1) <=> v \in TestsUpTo(n) \/ v \in TestsOf(n + 1)
    BY <2>1, <2>2, <2>3, <2>4
  <2> HIDE DEF TestsUpTo, TestsOf
  <2> QED
    BY <2>5
<1>4. Required[0] = PrefixClosure(TestsOf(0))
  BY <1>1, <1>2
<1>5. PrefixClosure(TestsUpTo(n) \cup TestsOf(n + 1))
        = PrefixClosure(TestsUpTo(n)) \cup PrefixClosure(TestsOf(n + 1))
  BY PrefixClosureFacts, Zenon
<1>6. Required[n + 1] = PrefixClosure(TestsUpTo(n + 1)) /\ Required[n] = PrefixClosure(TestsUpTo(n))
  BY <1>1
<1> QED
  BY <1>3, <1>4, <1>5, <1>6, Zenon

InPrint == suite_pc = "print" /\ fixed_part

(* How long the infixes are: the second call goes on where the first one   *)
(* stopped.                                                                *)
LengthsAreRight ==
  /\ suite_pc \in {"first", "second"} => fixed_part
  /\ suite_pc = "print" => fixed_part \/ args.mode = "wset"
  /\ suite_pc = "start" => k = 0
  /\ InPrint => k = args.l + 1
  /\ suite_pc \in {"start", "first"} \/ InPrint => ToSet(all_sequences) = Middles(k)
  /\ suite_pc = "second" => ToSet(all_sequences) = Middles(args.l + 1 + k)

(* The tests up to the length of the current infixes are in the trie, were *)
(* printed, or are still to be made, and no others.                        *)
TestsAreCovered ==
  /\ suite_pc = "first" =>
       DOMAIN test_suite \cup PrefixClosure(ToSet(todo))
         = Required[IF k <= args.l THEN k ELSE args.l]
  /\ InPrint /\ cout_ok => PrefixClosure(printed \cup ToSet(first_suite)) = Required[args.l]
  /\ suite_pc = "second" /\ cout_ok =>
       PrefixClosure(printed) \cup PrefixClosure(ToSet(todo))
         = Required[IF args.l + 1 + k <= args.k_max THEN args.l + 1 + k ELSE args.k_max]
  /\ suite_pc = "returned" /\ args.mode = "fixed" /\ cout_ok =>
       PrefixClosure(printed) = Required[args.k_max]

FixedInv == LengthsAreRight /\ TestsAreCovered

(* When the calls are over, everything required was printed.               *)
LEMMA FixedInvImplies ==
  ASSUME SuiteInv, FixedInv PROVE FixedPartIsWhole
<1>1. AllTests = TestsUpTo(args.k_max) /\ args.k_max \in Nat
  BY AllTestsAre DEF SuiteInv, SuiteArguments, main_options
<1>2. Required[args.k_max] = PrefixClosure(AllTests)
  BY <1>1 DEF Required
<1> QED
  BY <1>2 DEF FixedInv, TestsAreCovered, FixedPartIsWhole

(* The empty infix is the only one of its length.                          *)
LEMMA FixedInvInit ==
  ASSUME SuiteInit, SuiteArguments PROVE FixedInv
<1>1. ToSet(<< <<>> >>) = Middles(0)
  <2>1. ToSet(<< <<>> >>) = {<<>>}
    BY DEF ToSet
  <2>2. \A m : m \in Middles(0) <=> m = <<>>
    <3>1. ASSUME NEW m \in Middles(0) PROVE m = <<>>
      <4>1. m \in Seq(Input) /\ Len(m) = 0
        BY DEF Middles
      <4> QED
        BY <4>1, EmptySeq
    <3>2. <<>> \in Middles(0)
      BY DEF Middles
    <3> QED
      BY <3>1, <3>2
  <2> QED
    BY <2>1, <2>2
<1>2. LengthsAreRight
  BY <1>1 DEF SuiteInit, LengthsAreRight, InPrint
<1>3. TestsAreCovered
  BY DEF SuiteInit, TestsAreCovered, InPrint
<1> QED
  BY <1>2, <1>3 DEF FixedInv

(* The first test that is still to be made, and the others.                *)
LEMMA FirstOfTodo ==
  ASSUME NEW S, NEW s \in Seq(S), s # <<>>
  PROVE  /\ Head(s) \in S /\ Tail(s) \in Seq(S)
         /\ ToSet(s) = {Head(s)} \cup ToSet(Tail(s))
<1>1. /\ Head(s) \in S /\ Tail(s) \in Seq(S) /\ Len(s) \in Nat /\ Len(s) >= 1
      /\ Len(Tail(s)) = Len(s) - 1 /\ Head(s) = s[1]
      /\ \A i \in 1 .. Len(Tail(s)) : Tail(s)[i] = s[i + 1]
  BY HeadTailProperties, LenProperties, EmptySeq
<1>2. DOMAIN s = 1 .. Len(s) /\ DOMAIN Tail(s) = 1 .. Len(s) - 1
  BY <1>1, LenProperties
<1>3. \A v : v \in ToSet(s) <=> \E i \in 1 .. Len(s) : v = s[i]
  BY <1>2 DEF ToSet
<1>4. \A v : v \in ToSet(Tail(s)) <=> \E i \in 1 .. Len(s) - 1 : v = s[i + 1]
  BY <1>1, <1>2 DEF ToSet
<1>5. \A i \in 1 .. Len(s) : i = 1 \/ (i - 1 \in 1 .. Len(s) - 1 /\ i = (i - 1) + 1)
  BY <1>1
<1>6. 1 \in 1 .. Len(s) /\ \A i \in 1 .. Len(s) - 1 : i + 1 \in 1 .. Len(s)
  BY <1>1
<1>7. ASSUME NEW v \in ToSet(s) PROVE v = Head(s) \/ v \in ToSet(Tail(s))
  <2>1. PICK i \in 1 .. Len(s) : v = s[i]
    BY <1>3
  <2>2. CASE i = 1
    BY <1>1, <2>1, <2>2
  <2>3. CASE i - 1 \in 1 .. Len(s) - 1 /\ i = (i - 1) + 1
    BY <1>4, <2>1, <2>3
  <2> QED
    BY <1>5, <2>2, <2>3
<1>8. Head(s) \in ToSet(s) /\ \A v \in ToSet(Tail(s)) : v \in ToSet(s)
  BY <1>1, <1>3, <1>4, <1>6
<1>9. \A v : v \in ToSet(s) <=> v \in {Head(s)} \cup ToSet(Tail(s))
  BY <1>7, <1>8
<1> QED
  BY <1>1, <1>9

(* What the beginnings of one word are among those of others.              *)
LEMMA OneMoreTest ==
  ASSUME NEW w, NEW W
  PROVE  PrefixClosure({w} \cup W) = Prefixes(w) \cup PrefixClosure(W)
<1>1. PrefixClosure({w} \cup W) = PrefixClosure({w}) \cup PrefixClosure(W)
  BY PrefixClosureFacts, Zenon
<1>2. PrefixClosure({w}) = Prefixes(w)
  BY PrefixClosureFacts, Zenon
<1> QED
  BY <1>1, <1>2

(* What an action that does not change the arguments finds.                *)
LEMMA FixedFrame ==
  ASSUME SuiteInv, UNCHANGED arguments
  PROVE  /\ args' = args /\ Required' = Required /\ (fixed_part' <=> fixed_part)
         /\ args.k_max \in Nat /\ args.l \in Nat /\ args.l <= args.k_max /\ k \in Nat
         /\ all_sequences \in Seq(Word) /\ todo \in Seq(Word) /\ first_suite \in Seq(Word)
         /\ IsTrie(test_suite, Input) /\ Input \in SUBSET Int /\ SuiteArguments
         /\ cout_ok \in BOOLEAN
         /\ suite_pc \in {"start", "first", "print", "second", "random", "returned"}
<1>1. args' = args /\ args.k_max \in Nat /\ args.l \in Nat /\ args.l <= args.k_max
  BY ArgumentsStay DEF SuiteInv
<1>2. Required' = Required
  BY RequiredStays
<1>3. fixed_part' <=> fixed_part
  BY <1>1 DEF fixed_part
<1>4. Input \in SUBSET Int
  BY DEF Input
<1> QED
  BY <1>1, <1>2, <1>3, <1>4 DEF SuiteInv, ListsTyped, OutputTyped

(* The tests of one length more, after those of the lengths before.        *)
LEMMA TestsOfLength ==
  ASSUME SuiteArguments, NEW n \in Nat, NEW seqs \in Seq(Word), ToSet(seqs) = Middles(n)
  PROVE  /\ n = 0 => PrefixClosure(ToSet(Tests(seqs))) = Required[n]
         /\ n > 0 => Required[n - 1] \cup PrefixClosure(ToSet(Tests(seqs))) = Required[n]
<1>1. ToSet(Tests(seqs)) = TestsOf(n)
  BY TestsAre
<1>2. PrefixClosure(ToSet(Tests(seqs))) = PrefixClosure(TestsOf(n))
  BY <1>1, Zenon
<1>3. CASE n = 0
  <2>1. Required[0] = PrefixClosure(TestsOf(0))
    BY RequiredGrows
  <2>2. Required[n] = PrefixClosure(TestsOf(n))
    BY <1>3, <2>1, Zenon
  <2> QED
    BY <1>2, <1>3, <2>2
<1>4. CASE n > 0
  <2>1. PICK m \in Nat : n = m + 1
    <3>1. n - 1 \in Nat /\ n = (n - 1) + 1
      BY <1>4
    <3> QED
      BY <3>1
  <2>2. Required[m + 1] = Required[m] \cup PrefixClosure(TestsOf(m + 1))
    BY RequiredGrows
  <2>3. Required[n] = Required[m] \cup PrefixClosure(TestsOf(n))
    BY <2>1, <2>2, Zenon
  <2>4. n - 1 = m
    BY <2>1
  <2> QED
    BY <1>2, <1>4, <2>3, <2>4
<1> QED
  BY <1>3, <1>4

(* Nothing is to be made any more.                                         *)
LEMMA NothingToMake ==
  /\ ToSet(<<>>) = {} /\ PrefixClosure(ToSet(<<>>)) = {}
  /\ \A S : S \cup PrefixClosure(ToSet(<<>>)) = S
<1>1. ToSet(<<>>) = {}
  BY DEF ToSet
<1>2. PrefixClosure(ToSet(<<>>)) = PrefixClosure({})
  BY <1>1, Zenon
<1> QED
  BY <1>1, <1>2, PrefixClosureFacts

(* The tests of the empty infix are to be made.                            *)
LEMMA StartTestsFixed ==
  ASSUME SuiteInv, FixedInv, StartTests PROVE FixedInv'
<1>1. /\ args' = args /\ Required' = Required /\ (fixed_part' <=> fixed_part)
      /\ all_sequences \in Seq(Word) /\ SuiteArguments /\ args.l \in Nat
  BY FixedFrame DEF StartTests
<1>2. CASE fixed_part
  <2>1. /\ suite_pc = "start" /\ suite_pc' = "first" /\ todo' = Tests(all_sequences)
        /\ k' = k /\ all_sequences' = all_sequences /\ test_suite' = test_suite
    BY <1>2 DEF StartTests
  <2>2. k = 0 /\ ToSet(all_sequences) = Middles(k) /\ test_suite = clear
    BY <2>1 DEF FixedInv, LengthsAreRight, SuiteInv, OutputTyped
  <2>3. PrefixClosure(ToSet(Tests(all_sequences))) = Required[0]
    BY <1>1, <2>2, TestsOfLength
  <2>4. DOMAIN test_suite' = {}
    BY <2>1, <2>2, ClearIs
  <2>5. DOMAIN test_suite' \cup PrefixClosure(ToSet(todo')) = Required[0]
    BY <2>1, <2>3, <2>4
  <2>6. LengthsAreRight'
    BY <1>1, <1>2, <2>1, <2>2 DEF LengthsAreRight, InPrint
  <2>7. TestsAreCovered'
    BY <1>1, <2>1, <2>2, <2>5 DEF TestsAreCovered, InPrint
  <2> QED
    BY <2>6, <2>7 DEF FixedInv
<1>3. CASE ~ fixed_part
  <2>1. suite_pc' = "random"
    BY <1>3 DEF StartTests
  <2> QED
    BY <2>1 DEF FixedInv, LengthsAreRight, TestsAreCovered, InPrint
<1> QED
  BY <1>2, <1>3

(* Mode wset has no fixed part.                                            *)
LEMMA StartWsetFixed ==
  ASSUME SuiteInv, FixedInv, StartWset PROVE FixedInv'
<1>1. args' = args
  BY FixedFrame DEF StartWset
<1>2. suite_pc' = "print" /\ args'.mode = "wset" /\ ~ fixed_part'
  BY <1>1 DEF StartWset, fixed_part
<1> QED
  BY <1>2 DEF FixedInv, LengthsAreRight, TestsAreCovered, InPrint

(* A test goes from the list into the trie, with its beginnings.           *)
LEMMA CollectTestFixed ==
  ASSUME SuiteInv, FixedInv, CollectTest PROVE FixedInv'
<1>1. /\ args' = args /\ Required' = Required /\ (fixed_part' <=> fixed_part)
      /\ todo \in Seq(Word) /\ IsTrie(test_suite, Input) /\ Input \in SUBSET Int
  BY FixedFrame DEF CollectTest
<1>2. /\ suite_pc = "first" /\ suite_pc' = "first" /\ todo # <<>> /\ k' = k
      /\ test_suite' = insert(test_suite, Head(todo)) /\ todo' = Tail(todo)
      /\ all_sequences' = all_sequences
  BY DEF CollectTest
<1>3. Head(todo) \in Word /\ ToSet(todo) = {Head(todo)} \cup ToSet(todo')
  BY <1>1, <1>2, FirstOfTodo
<1>4. PICK w \in Seq(Input) : w = Head(todo)
  BY <1>3 DEF Word
<1>5. DOMAIN test_suite' = DOMAIN test_suite \cup Prefixes(w)
  <2>1. DOMAIN insert(test_suite, w) = DOMAIN test_suite \cup Prefixes(w)
    <3>1. \A v \in Seq(Input) :
            DOMAIN insert(test_suite, v) = DOMAIN test_suite \cup Prefixes(v)
      BY <1>1, InsertIs
    <3> QED
      BY <1>4, <3>1
  <2>2. test_suite' = insert(test_suite, w)
    BY <1>2, <1>4
  <2> QED
    BY <2>1, <2>2
<1>6. PrefixClosure(ToSet(todo)) = Prefixes(w) \cup PrefixClosure(ToSet(todo'))
  <2>1. ToSet(todo) = {w} \cup ToSet(todo')
    BY <1>3, <1>4
  <2>2. PrefixClosure({w} \cup ToSet(todo')) = Prefixes(w) \cup PrefixClosure(ToSet(todo'))
    BY OneMoreTest
  <2> QED
    BY <2>1, <2>2, Zenon
<1>7. DOMAIN test_suite' \cup PrefixClosure(ToSet(todo'))
        = DOMAIN test_suite \cup PrefixClosure(ToSet(todo))
  BY <1>5, <1>6
<1>8. LengthsAreRight'
  BY <1>1, <1>2 DEF FixedInv, LengthsAreRight, InPrint
<1>9. TestsAreCovered'
  BY <1>1, <1>2, <1>7 DEF FixedInv, TestsAreCovered, InPrint
<1> QED
  BY <1>8, <1>9 DEF FixedInv

(* The next length: its tests are what is missing, unless it is too long.  *)
LEMMA NextLengthFixed ==
  ASSUME SuiteInv, FixedInv, NextLength PROVE FixedInv'
<1>1. /\ args' = args /\ Required' = Required /\ (fixed_part' <=> fixed_part)
      /\ all_sequences \in Seq(Word) /\ SuiteArguments /\ k \in Nat
      /\ args.l \in Nat /\ args.k_max \in Nat /\ args.l <= args.k_max
      /\ cout_ok' = cout_ok
  BY FixedFrame DEF NextLength, output
<1>2. /\ suite_pc \in {"first", "second"} /\ suite_pc' = suite_pc /\ todo = <<>>
      /\ k < Limit /\ k' = k + 1 /\ all_sequences' = all_seqs(all_sequences)
      /\ todo' = IF k' < Limit THEN Tests(all_sequences') ELSE <<>>
      /\ test_suite' = test_suite /\ printed' = printed
  BY DEF NextLength, output
<1>3. all_sequences' \in Seq(Word)
  BY <1>1, <1>2, AllSeqsAre
<1>4. \A n \in Nat : ToSet(all_sequences) = Middles(n) => ToSet(all_sequences') = Middles(n + 1)
  BY <1>1, <1>2, AllSeqsAre
<1>5. \A S : S \cup PrefixClosure(ToSet(todo)) = S
  BY <1>2, NothingToMake
<1>6. PICK seqs \in Seq(Word) : seqs = all_sequences'
  BY <1>3
<1>7. CASE suite_pc = "first"
  <2>1. k <= args.l /\ (k' < Limit <=> k + 1 <= args.l) /\ k' = k + 1
    BY <1>1, <1>2, <1>7 DEF Limit
  <2>2. fixed_part /\ ToSet(seqs) = Middles(k + 1)
    BY <1>1, <1>2, <1>4, <1>6, <1>7 DEF FixedInv, LengthsAreRight
  <2>3. DOMAIN test_suite = Required[k]
    BY <1>5, <1>7, <2>1 DEF FixedInv, TestsAreCovered
  <2>4. Required[k] \cup PrefixClosure(ToSet(Tests(seqs))) = Required[k + 1]
    <3>1. k + 1 \in Nat /\ k + 1 > 0 /\ (k + 1) - 1 = k
      BY <1>1
    <3> QED
      BY <1>1, <2>2, <3>1, TestsOfLength
  <2>5. DOMAIN test_suite' \cup PrefixClosure(ToSet(todo'))
          = Required[IF k + 1 <= args.l THEN k + 1 ELSE args.l]
    <3>1. CASE k + 1 <= args.l
      <4>1. todo' = Tests(seqs)
        BY <1>2, <1>6, <2>1, <3>1
      <4> QED
        BY <1>2, <2>3, <2>4, <3>1, <4>1
    <3>2. CASE ~ k + 1 <= args.l
      <4>1. todo' = <<>> /\ k = args.l
        BY <1>1, <1>2, <2>1, <3>2
      <4>2. PrefixClosure(ToSet(todo')) = {}
        BY <4>1, NothingToMake
      <4> QED
        BY <1>2, <2>3, <3>2, <4>1, <4>2
    <3> QED
      BY <3>1, <3>2
  <2>6. LengthsAreRight'
    BY <1>1, <1>2, <1>6, <1>7, <2>1, <2>2 DEF LengthsAreRight, InPrint
  <2>7. TestsAreCovered'
    BY <1>1, <1>2, <1>7, <2>1, <2>5 DEF TestsAreCovered, InPrint
  <2> QED
    BY <2>6, <2>7 DEF FixedInv
<1>8. CASE suite_pc = "second"
  <2> DEFINE n == args.l + 1 + k
  <2>1. n \in Nat /\ n <= args.k_max /\ (k' < Limit <=> n + 1 <= args.k_max) /\ k' = k + 1
        /\ args.l + 1 + k' = n + 1
    <3>1. Limit = args.k_max - args.l
      BY <1>8 DEF Limit
    <3> HIDE DEF Limit
    <3>2. k < args.k_max - args.l /\ k' = k + 1
      BY <1>2, <3>1
    <3>3. n \in Nat /\ n <= args.k_max /\ args.l + 1 + k' = n + 1
      BY <1>1, <3>2, SMTT(30)
    <3>4. k' < args.k_max - args.l <=> n + 1 <= args.k_max
      BY <1>1, <3>2
    <3> QED
      BY <3>1, <3>2, <3>3, <3>4
  <2>2. fixed_part /\ ToSet(all_sequences) = Middles(n)
    BY <1>8 DEF FixedInv, LengthsAreRight
  <2>3. cout_ok => PrefixClosure(printed) = Required[n]
    BY <1>5, <1>8, <2>1 DEF FixedInv, TestsAreCovered
  <2> HIDE DEF n
  <2>4. ToSet(seqs) = Middles(n + 1)
    BY <1>4, <1>6, <2>1, <2>2
  <2>5. Required[n] \cup PrefixClosure(ToSet(Tests(seqs))) = Required[n + 1]
    <3>1. n + 1 \in Nat /\ n + 1 > 0 /\ (n + 1) - 1 = n
      BY <2>1
    <3> QED
      BY <1>1, <2>4, <3>1, TestsOfLength
  <2>6. cout_ok => PrefixClosure(printed') \cup PrefixClosure(ToSet(todo'))
                     = Required[IF n + 1 <= args.k_max THEN n + 1 ELSE args.k_max]
    <3>1. CASE n + 1 <= args.k_max
      <4>1. todo' = Tests(seqs)
        BY <1>2, <1>6, <2>1, <3>1
      <4> QED
        BY <1>2, <2>3, <2>5, <3>1, <4>1
    <3>2. CASE ~ n + 1 <= args.k_max
      <4>1. todo' = <<>> /\ n = args.k_max
        BY <1>1, <1>2, <2>1, <3>2
      <4>2. PrefixClosure(ToSet(todo')) = {}
        BY <4>1, NothingToMake
      <4> QED
        BY <1>2, <2>3, <3>2, <4>1, <4>2
    <3> QED
      BY <3>1, <3>2
  <2>7. LengthsAreRight'
    BY <1>1, <1>2, <1>6, <1>8, <2>1, <2>2, <2>4 DEF LengthsAreRight, InPrint
  <2>8. TestsAreCovered'
    BY <1>1, <1>2, <1>8, <2>1, <2>6 DEF TestsAreCovered, InPrint
  <2> QED
    BY <2>7, <2>8 DEF FixedInv
<1> QED
  BY <1>2, <1>7, <1>8

(* What is listed has the beginnings that are nodes of the trie.           *)
LEMMA LeaveFirstFixed ==
  ASSUME SuiteInv, FixedInv, LeaveFirst PROVE FixedInv'
<1>1. /\ args' = args /\ Required' = Required /\ (fixed_part' <=> fixed_part)
      /\ IsTrie(test_suite, Input) /\ Input \in SUBSET Int /\ args.l \in Nat
  BY FixedFrame DEF LeaveFirst
<1>2. /\ suite_pc = "first" /\ suite_pc' = "print" /\ todo = <<>> /\ k = args.l + 1
      /\ k' = k /\ all_sequences' = all_sequences /\ printed' = printed
      /\ first_suite' = flatten(test_suite)
  BY DEF LeaveFirst, Limit, output
<1>3. DOMAIN test_suite = Required[args.l]
  <2>1. \A S : S \cup PrefixClosure(ToSet(todo)) = S
    BY <1>2, NothingToMake
  <2>2. ~ k <= args.l
    BY <1>1, <1>2
  <2> QED
    BY <1>2, <2>1, <2>2 DEF FixedInv, TestsAreCovered
<1>4. PrefixClosure(printed' \cup ToSet(first_suite')) = Required[args.l]
  <2>1. ToSet(first_suite') = TrieLeaves(test_suite) /\ DOMAIN test_suite = PrefixClosure(TrieLeaves(test_suite))
    BY <1>1, <1>2, FlattenIs
  <2>2. printed' \cup ToSet(first_suite') = TrieLeaves(test_suite)
    BY <1>2, <2>1 DEF SuiteInv, OutputTyped
  <2> QED
    BY <1>3, <2>1, <2>2, Zenon
<1>5. LengthsAreRight'
  BY <1>1, <1>2 DEF FixedInv, LengthsAreRight, InPrint
<1>6. TestsAreCovered'
  BY <1>1, <1>2, <1>4 DEF TestsAreCovered, InPrint
<1> QED
  BY <1>5, <1>6 DEF FixedInv

(* Printed or still listed: nothing is lost, in whatever order.            *)
LEMMA PrintCollectedFixed ==
  ASSUME SuiteInv, FixedInv, PrintCollected PROVE FixedInv'
<1>1. /\ args' = args /\ Required' = Required /\ (fixed_part' <=> fixed_part)
      /\ first_suite \in Seq(Word) /\ cout_ok \in BOOLEAN
  BY FixedFrame DEF PrintCollected
<1>2. /\ suite_pc = "print" /\ suite_pc' = "print"
      /\ k' = k /\ all_sequences' = all_sequences
  BY DEF PrintCollected
<1>3. PICK n \in DOMAIN first_suite : /\ Write(first_suite[n])
                                      /\ first_suite' = RemoveAt(first_suite, n)
  BY DEF PrintCollected
<1>4. cout_ok' => cout_ok /\ printed' = printed \cup {first_suite[n]}
  BY <1>3 DEF Write
<1>5. (printed \cup {first_suite[n]}) \cup ToSet(first_suite') = printed \cup ToSet(first_suite)
  BY <1>1, <1>3, PrintOne
<1>6. cout_ok' => cout_ok /\ printed' \cup ToSet(first_suite') = printed \cup ToSet(first_suite)
  BY <1>4, <1>5
<1>7. LengthsAreRight'
  BY <1>1, <1>2 DEF FixedInv, LengthsAreRight, InPrint
<1>8. TestsAreCovered'
  <2>1. ASSUME InPrint', cout_ok'
        PROVE  PrefixClosure(printed' \cup ToSet(first_suite')) = Required'[args'.l]
    <3>1. InPrint /\ cout_ok
      BY <1>1, <1>2, <1>6, <2>1 DEF InPrint
    <3>2. PrefixClosure(printed \cup ToSet(first_suite)) = Required[args.l]
      BY <3>1 DEF FixedInv, TestsAreCovered
    <3>3. PrefixClosure(printed' \cup ToSet(first_suite')) = Required[args.l]
      BY <1>6, <2>1, <3>2, Zenon
    <3> QED
      BY <1>1, <3>3
  <2> QED
    BY <1>2, <2>1 DEF TestsAreCovered
<1> QED
  BY <1>7, <1>8 DEF FixedInv

(* The second call goes on with the infixes of the length l + 1.           *)
LEMMA LeavePrintFixed ==
  ASSUME SuiteInv, FixedInv, LeavePrint PROVE FixedInv'
<1>1. /\ args' = args /\ Required' = Required /\ (fixed_part' <=> fixed_part)
      /\ all_sequences \in Seq(Word) /\ SuiteArguments
      /\ args.l \in Nat /\ args.k_max \in Nat /\ args.l <= args.k_max
  BY FixedFrame DEF LeavePrint
<1>2. /\ suite_pc = "print" /\ first_suite = <<>> /\ k' = 0
      /\ suite_pc' = IF args.mode = "wset" THEN "returned" ELSE "second"
      /\ todo' = IF suite_pc' = "second" /\ args.l < args.k_max
                   THEN Tests(all_sequences) ELSE <<>>
      /\ all_sequences' = all_sequences /\ printed' = printed /\ cout_ok' = cout_ok
  BY DEF LeavePrint, output
<1>3. CASE args.mode = "wset"
  <2>1. suite_pc' = "returned" /\ args'.mode # "fixed"
    BY <1>1, <1>2, <1>3
  <2> QED
    BY <2>1 DEF FixedInv, LengthsAreRight, TestsAreCovered, InPrint
<1>4. CASE args.mode # "wset"
  <2>1. suite_pc' = "second" /\ fixed_part /\ InPrint
    BY <1>2, <1>4 DEF FixedInv, LengthsAreRight, InPrint
  <2>2. ToSet(all_sequences) = Middles(args.l + 1)
    BY <2>1, Zenon DEF FixedInv, LengthsAreRight
  <2>3. cout_ok => PrefixClosure(printed) = Required[args.l]
    <3>1. printed \cup ToSet(first_suite) = printed
      BY <1>2, NothingToMake
    <3>2. cout_ok => PrefixClosure(printed \cup ToSet(first_suite)) = Required[args.l]
      BY <2>1 DEF FixedInv, TestsAreCovered
    <3> QED
      BY <3>1, <3>2, Zenon
  <2>4. Required[args.l] \cup PrefixClosure(ToSet(Tests(all_sequences))) = Required[args.l + 1]
    <3>1. args.l + 1 \in Nat /\ args.l + 1 > 0 /\ (args.l + 1) - 1 = args.l
      BY <1>1
    <3> QED
      BY <1>1, <2>2, <3>1, TestsOfLength
  <2>5. args'.l + 1 + k' = args.l + 1
    BY <1>1, <1>2
  <2>6. cout_ok => PrefixClosure(printed') \cup PrefixClosure(ToSet(todo'))
                     = Required[IF args.l + 1 <= args.k_max THEN args.l + 1 ELSE args.k_max]
    <3>1. CASE args.l < args.k_max
      <4>1. todo' = Tests(all_sequences) /\ args.l + 1 <= args.k_max
        BY <1>1, <1>2, <2>1, <3>1
      <4> QED
        BY <1>2, <2>3, <2>4, <4>1
    <3>2. CASE ~ args.l < args.k_max
      <4>1. todo' = <<>> /\ args.l = args.k_max /\ ~ args.l + 1 <= args.k_max
        BY <1>1, <1>2, <3>2
      <4>2. PrefixClosure(ToSet(todo')) = {}
        BY <4>1, NothingToMake
      <4> QED
        BY <1>2, <2>3, <4>1, <4>2
    <3> QED
      BY <3>1, <3>2
  <2>7. LengthsAreRight'
    BY <1>1, <1>2, <2>1, <2>2, <2>5 DEF LengthsAreRight, InPrint
  <2>8. TestsAreCovered'
    BY <1>1, <1>2, <2>1, <2>5, <2>6 DEF TestsAreCovered, InPrint
  <2> QED
    BY <2>7, <2>8 DEF FixedInv
<1> QED
  BY <1>3, <1>4

(* A test that is filtered out is the beginning of a printed one.          *)
LEMMA StreamTestFixed ==
  ASSUME SuiteInv, FixedInv, StreamTest PROVE FixedInv'
<1>1. /\ args' = args /\ Required' = Required /\ (fixed_part' <=> fixed_part)
      /\ todo \in Seq(Word) /\ cout_ok \in BOOLEAN
  BY FixedFrame DEF StreamTest
<1>2. /\ suite_pc = "second" /\ suite_pc' = (IF cout_ok' THEN suite_pc ELSE AfterFixed)
      /\ todo # <<>> /\ PrintUnlessOld(Head(todo)) /\ todo' = Tail(todo)
      /\ k' = k /\ all_sequences' = all_sequences
  BY DEF StreamTest
<1>3. Head(todo) \in Word /\ ToSet(todo) = {Head(todo)} \cup ToSet(todo')
  BY <1>1, <1>2, FirstOfTodo
<1>4. PICK w \in Word : w = Head(todo)
  BY <1>3
<1>5. /\ cout_ok' \in BOOLEAN /\ (cout_ok' => cout_ok)
      /\ cout_ok' => PrefixClosure(printed') = PrefixClosure(printed) \cup Prefixes(w)
  BY <1>2, <1>4, PrintUnlessOldFacts
<1>6. CASE cout_ok'
  <2>1. suite_pc' = "second" /\ cout_ok
    BY <1>2, <1>5, <1>6
  <2>2. PrefixClosure(ToSet(todo)) = Prefixes(w) \cup PrefixClosure(ToSet(todo'))
    <3>1. ToSet(todo) = {w} \cup ToSet(todo')
      BY <1>3, <1>4
    <3>2. PrefixClosure({w} \cup ToSet(todo')) = Prefixes(w) \cup PrefixClosure(ToSet(todo'))
      BY OneMoreTest
    <3> QED
      BY <3>1, <3>2, Zenon
  <2>3. PrefixClosure(printed') \cup PrefixClosure(ToSet(todo'))
          = PrefixClosure(printed) \cup PrefixClosure(ToSet(todo))
    BY <1>5, <1>6, <2>2
  <2>4. LengthsAreRight'
    BY <1>1, <1>2, <2>1 DEF FixedInv, LengthsAreRight, InPrint
  <2>5. TestsAreCovered'
    BY <1>1, <1>2, <2>1, <2>3 DEF FixedInv, TestsAreCovered, InPrint
  <2> QED
    BY <2>4, <2>5 DEF FixedInv
<1>7. CASE ~ cout_ok'
  <2>1. suite_pc' \in {"random", "returned"}
    BY <1>2, <1>7 DEF AfterFixed
  <2> QED
    BY <1>7, <2>1 DEF FixedInv, LengthsAreRight, TestsAreCovered, InPrint
<1> QED
  BY <1>6, <1>7

(* After the last length nothing is missing.                               *)
LEMMA LeaveSecondFixed ==
  ASSUME SuiteInv, FixedInv, LeaveSecond PROVE FixedInv'
<1>1. /\ args' = args /\ Required' = Required /\ (fixed_part' <=> fixed_part)
      /\ args.l \in Nat /\ args.k_max \in Nat /\ args.l <= args.k_max
  BY FixedFrame DEF LeaveSecond
<1>2. /\ suite_pc = "second" /\ suite_pc' \in {"random", "returned"} /\ todo = <<>>
      /\ k = args.k_max - args.l /\ printed' = printed /\ cout_ok' = cout_ok
  BY DEF LeaveSecond, Limit, AfterFixed, output
<1>3. cout_ok => PrefixClosure(printed) = Required[args.k_max]
  <2>1. \A S : S \cup PrefixClosure(ToSet(todo)) = S
    BY <1>2, NothingToMake
  <2>2. ~ args.l + 1 + k <= args.k_max
    BY <1>1, <1>2
  <2> QED
    BY <1>2, <2>1, <2>2 DEF FixedInv, TestsAreCovered
<1> QED
  BY <1>1, <1>2, <1>3 DEF FixedInv, LengthsAreRight, TestsAreCovered, InPrint

(* The random tests return only when the output is gone.                   *)
LEMMA RandomTestFixed ==
  ASSUME MaxExtra \in Nat, SuiteInv, FixedInv, RandomTest PROVE FixedInv'
<1>1. PICK w \in RandomTests : PrintUnlessOld(w)
  BY DEF RandomTest
<1>2. w \in Word
  BY RandomTestsAreWords DEF SuiteInv
<1>3. suite_pc = "random" /\ suite_pc' = IF cout_ok' THEN suite_pc ELSE "returned"
  BY DEF RandomTest
<1>4. cout_ok' \in BOOLEAN
  BY <1>1, <1>2, <1>3, PrintUnlessOldFacts
<1>5. suite_pc' = "random" \/ (suite_pc' = "returned" /\ ~ cout_ok')
  BY <1>3, <1>4
<1> QED
  BY <1>5 DEF FixedInv, LengthsAreRight, TestsAreCovered, InPrint

(* The reader leaves, or nothing happens.                                  *)
LEMMA OthersFixed ==
  ASSUME SuiteInv, FixedInv, CloseOutput \/ UNCHANGED suite_vars PROVE FixedInv'
<1>1. UNCHANGED arguments
  BY DEF CloseOutput, suite_vars
<1>2. args' = args /\ Required' = Required /\ (fixed_part' <=> fixed_part)
  BY <1>1, FixedFrame
<1>3. UNCHANGED <<all_sequences, k, todo, test_suite, first_suite, printed, cout_ok, suite_pc>>
  BY DEF CloseOutput, suite_vars, output
<1>4. InPrint' <=> InPrint
  BY <1>2, <1>3 DEF InPrint
<1>5. LengthsAreRight'
  BY <1>2, <1>3, <1>4 DEF FixedInv, LengthsAreRight
<1>6. TestsAreCovered'
  BY <1>2, <1>3, <1>4 DEF FixedInv, TestsAreCovered
<1> QED
  BY <1>5, <1>6 DEF FixedInv

(* All steps of the calls keep it.                                         *)
LEMMA FixedNextInv ==
  ASSUME MaxExtra \in Nat, SuiteInv, FixedInv, [SuiteNext]_suite_vars
  PROVE  FixedInv'
<1>1. CASE StartTests      BY <1>1, StartTestsFixed
<1>2. CASE StartWset       BY <1>2, StartWsetFixed
<1>3. CASE CollectTest     BY <1>3, CollectTestFixed
<1>4. CASE NextLength      BY <1>4, NextLengthFixed
<1>5. CASE LeaveFirst      BY <1>5, LeaveFirstFixed
<1>6. CASE PrintCollected  BY <1>6, PrintCollectedFixed
<1>7. CASE LeavePrint      BY <1>7, LeavePrintFixed
<1>8. CASE StreamTest      BY <1>8, StreamTestFixed
<1>9. CASE LeaveSecond     BY <1>9, LeaveSecondFixed
<1>10. CASE RandomTest      BY <1>10, RandomTestFixed
<1>11. CASE CloseOutput \/ UNCHANGED suite_vars
  BY <1>11, OthersFixed
<1> QED
  BY <1>1, <1>2, <1>3, <1>4, <1>5, <1>6, <1>7, <1>8, <1>9, <1>10, <1>11
     DEF SuiteNext, Step

(* The fixed part is the same wherever l cuts it in two and whether tests  *)
(* are filtered or not (the two calls of test in main.cpp).                *)
THEOREM FixedPartIsComplete ==
  ASSUME MaxExtra \in Nat, MaxRandomTests \in Nat
  PROVE  SuiteSpec => []FixedPartIsWhole
<1>1. SuiteInit /\ SuiteArguments => FixedInv
  BY FixedInvInit
<1>2. SuiteInv /\ FixedInv /\ [SuiteNext]_suite_vars => FixedInv'
  BY FixedNextInv
<1>3. SuiteInv /\ FixedInv => FixedPartIsWhole
  BY FixedInvImplies
<1>4. SuiteSpec => []SuiteInv
  BY SuiteInvariance
<1> QED
  BY <1>1, <1>2, <1>3, <1>4, PTL DEF SuiteSpec

-----------------------------------------------------------------------------
(* Complete tests.                                                         *)

(* The state after a word.                                                 *)
At(m, x) == applyWord(m, 0, x).to

(* The implementation answers w as the machine does.                       *)
Agree(impl, m, w) ==
  \A j \in 1 .. Len(w) :
    applyWord(impl, 0, SubSeq(w, 1, j)).out = applyWord(m, 0, SubSeq(w, 1, j)).out

(* The word of a state, and at most i symbols after it.                    *)
Access(pre, i) ==
  {x \in Word : \E s \in State, y \in Word : Len(y) <= i /\ x = pre[s] \o y}

LeadsThere(m, pre) ==
  /\ pre \in [State -> Word] /\ pre[0] = <<>>
  /\ \A s \in State : At(m, pre[s]) = s

(* Every state has words, and those of two states tell them apart.         *)
TellsAll(m, F) ==
  /\ F \in [State -> SUBSET Word] /\ \A s \in State : F[s] # {}
  /\ \A s, t \in State : s # t =>
       \E v \in F[s], w \in F[t] : \E j \in 1 .. Len(v) :
         /\ j <= Len(w) /\ SubSeq(v, 1, j) = SubSeq(w, 1, j)
         /\ applyWord(m, s, SubSeq(v, 1, j)).out # applyWord(m, t, SubSeq(v, 1, j)).out

(* The implementation answers all tests with infixes up to the length i.   *)
Survives(impl, m, pre, F, i) ==
  \A x \in Access(pre, i) : \A w \in F[At(m, x)] : Agree(impl, m, x \o w)

(* After the first part of a test the two answer the second part alike.    *)
LEMMA AgreeRest ==
  ASSUME NEW m \in Machine, NEW T, 0 \in T, NEW impl \in MachineOn(T),
         NEW x \in Word, NEW w \in Word, Agree(impl, m, x \o w), NEW j \in 1 .. Len(w)
  PROVE  applyWord(impl, At(impl, x), SubSeq(w, 1, j)).out
           = applyWord(m, At(m, x), SubSeq(w, 1, j)).out
<1> DEFINE i == Len(x) + j
           p == SubSeq(w, 1, j)
<1>1. Len(x) \in Nat /\ Len(w) \in Nat /\ Len(x \o w) = Len(x) + Len(w)
  BY ConcatProperties, LenProperties DEF Word
<1>2. i \in 1 .. Len(x \o w) /\ ~ (i <= Len(x)) /\ i - Len(x) = j
  BY <1>1
<1> HIDE DEF i
<1>3. p \in Word /\ p # <<>> /\ SubSeq(x \o w, 1, i) = x \o p
  BY <1>2, PrefixConcat
<1> HIDE DEF p
<1>4. applyWord(impl, 0, x \o p).out = applyWord(m, 0, x \o p).out
  BY <1>2, <1>3 DEF Agree
<1>5. applyWord(impl, 0, x \o p) = applyWord(impl, applyWord(impl, 0, x).to, p)
  BY <1>3, ApplyConcatOn
<1>6. 0 \in State
  BY SizesAssumption DEF State
<1>7. applyWord(m, 0, x \o p) = applyWord(m, applyWord(m, 0, x).to, p)
  BY <1>3, <1>6, ApplyConcat
<1> QED
  BY <1>4, <1>5, <1>7 DEF At, p

(* And the first part, too.                                                *)
LEMMA AgreeFirst ==
  ASSUME NEW m, NEW impl, NEW x \in Word, NEW w \in Word, Agree(impl, m, x \o w)
  PROVE  Agree(impl, m, x)
<1> SUFFICES ASSUME NEW j \in 1 .. Len(x)
             PROVE  applyWord(impl, 0, SubSeq(x, 1, j)).out
                      = applyWord(m, 0, SubSeq(x, 1, j)).out
  BY DEF Agree
<1>1. Len(x) \in Nat /\ Len(w) \in Nat /\ Len(x \o w) = Len(x) + Len(w)
  BY ConcatProperties, LenProperties DEF Word
<1>2. j \in 1 .. Len(x \o w) /\ j <= Len(x)
  BY <1>1
<1>3. SubSeq(x \o w, 1, j) = SubSeq(x, 1, j)
  BY <1>2, PrefixConcat
<1> QED
  BY <1>2, <1>3 DEF Agree

(* A symbol behind two words.                                              *)
LEMMA AppendLast ==
  ASSUME NEW v \in Word, NEW y \in Word, NEW a \in Input
  PROVE  Append(v \o y, a) = v \o Append(y, a)
<1>1. v \in Seq(Input) /\ y \in Seq(Input)
  BY DEF Word
<1> QED
  BY <1>1

(* One symbol more.                                                        *)
LEMMA AccessFacts ==
  ASSUME NEW pre \in [State -> Word], NEW i \in Nat
  PROVE  /\ \A s \in State : pre[s] \in Access(pre, i)
         /\ \A x \in Access(pre, i), a \in Input : Append(x, a) \in Access(pre, i + 1)
         /\ \A j \in Nat : i <= j => Access(pre, i) \subseteq Access(pre, j)
<1>1. ASSUME NEW s \in State PROVE pre[s] \in Access(pre, i)
  <2>1. /\ <<>> \in Word /\ Len(<<>>) = 0 /\ pre[s] \in Word
        /\ pre[s] \o <<>> = pre[s]
    BY EmptySeq, ConcatEmptySeq DEF Word
  <2>2. Len(<<>>) <= i
    BY <2>1
  <2> QED
    BY <2>1, <2>2 DEF Access
<1>2. ASSUME NEW x \in Access(pre, i), NEW a \in Input
      PROVE  Append(x, a) \in Access(pre, i + 1)
  <2>1. PICK s \in State, y \in Word : Len(y) <= i /\ x = pre[s] \o y
    BY DEF Access
  <2>2. /\ pre[s] \in Seq(Input) /\ y \in Seq(Input)
        /\ x \in Seq(Input)
    BY DEF Access, Word
  <2>3. Append(pre[s] \o y, a) = pre[s] \o Append(y, a)
    BY AppendLast
  <2>4. /\ Append(y, a) \in Seq(Input) /\ Len(Append(y, a)) = Len(y) + 1
        /\ Append(x, a) \in Seq(Input) /\ Len(y) \in Nat
    BY <2>2, AppendProperties, LenProperties
  <2>5. Len(Append(y, a)) <= i + 1
    BY <2>1, <2>4
  <2> QED
    BY <2>1, <2>3, <2>4, <2>5 DEF Access, Word
<1>3. ASSUME NEW j \in Nat, i <= j PROVE Access(pre, i) \subseteq Access(pre, j)
  <2>1. \A y \in Word : Len(y) <= i => Len(y) <= j
    BY <1>3, LenProperties DEF Word
  <2> QED
    BY <2>1 DEF Access
<1> QED
  BY <1>1, <1>2, <1>3

(* States of the specification that are told apart are so there.           *)
LEMMA ApartThere ==
  ASSUME NEW m \in Machine, NEW T, 0 \in T, NEW impl \in MachineOn(T),
         NEW pre, NEW F, NEW i \in Nat, TellsAll(m, F), Survives(impl, m, pre, F, i),
         NEW x \in Access(pre, i), NEW y \in Access(pre, i), At(m, x) # At(m, y)
  PROVE  At(impl, x) # At(impl, y)
<1>1. /\ x \in Word /\ y \in Word /\ 0 \in State
      /\ \A s \in State : F[s] \subseteq Word
  BY SizesAssumption DEF Access, TellsAll, State
<1>2. At(m, x) \in State /\ At(m, y) \in State
  BY <1>1, ApplyType DEF At, RunEdge
<1>3. PICK v \in F[At(m, x)], w \in F[At(m, y)] : \E j \in 1 .. Len(v) :
         /\ j <= Len(w) /\ SubSeq(v, 1, j) = SubSeq(w, 1, j)
         /\ applyWord(m, At(m, x), SubSeq(v, 1, j)).out
              # applyWord(m, At(m, y), SubSeq(v, 1, j)).out
  BY <1>2 DEF TellsAll
<1>4. v \in Word /\ w \in Word /\ Len(v) \in Nat /\ Len(w) \in Nat
  BY <1>1, <1>2, LenProperties DEF Word
<1>5. PICK j \in 1 .. Len(v) :
         /\ j <= Len(w) /\ SubSeq(v, 1, j) = SubSeq(w, 1, j)
         /\ applyWord(m, At(m, x), SubSeq(v, 1, j)).out
              # applyWord(m, At(m, y), SubSeq(v, 1, j)).out
  BY <1>3
<1>6. Agree(impl, m, x \o v) /\ Agree(impl, m, y \o w)
  BY <1>3 DEF Survives
<1>7. applyWord(impl, At(impl, x), SubSeq(v, 1, j)).out
        = applyWord(m, At(m, x), SubSeq(v, 1, j)).out
  BY <1>1, <1>4, <1>6, AgreeRest
<1>8. j \in 1 .. Len(w)
  BY <1>4, <1>5
<1>9. applyWord(impl, At(impl, y), SubSeq(w, 1, j)).out
        = applyWord(m, At(m, y), SubSeq(w, 1, j)).out
  BY <1>1, <1>4, <1>6, <1>8, AgreeRest
<1> QED
  BY <1>5, <1>7, <1>9

(* Where a further symbol is still part of a test, both answer it alike.   *)
LEMMA AnswersThere ==
  ASSUME NEW m \in Machine, NEW T, 0 \in T, NEW impl \in MachineOn(T),
         NEW pre \in [State -> Word], NEW F, NEW i \in Nat,
         TellsAll(m, F), Survives(impl, m, pre, F, i + 1),
         NEW x \in Access(pre, i), NEW a \in Input
  PROVE  /\ impl[At(impl, x)][a].out = m[At(m, x)][a].out
         /\ At(impl, Append(x, a)) = impl[At(impl, x)][a].to
         /\ At(m, Append(x, a)) = m[At(m, x)][a].to
<1> DEFINE y == Append(x, a)
<1>1. /\ x \in Word /\ y \in Word /\ 0 \in State /\ y \in Access(pre, i + 1)
      /\ Len(y) \in Nat /\ Len(y) >= 1
  <2>1. x \in Word /\ y \in Access(pre, i + 1)
    BY AccessFacts DEF Access
  <2>2. x \in Seq(Input)
    BY <2>1 DEF Word
  <2>3. y \in Seq(Input) /\ Len(y) = Len(x) + 1 /\ Len(x) \in Nat
    BY <2>2, AppendProperties, LenProperties
  <2> QED
    BY <2>1, <2>3, SizesAssumption DEF State, Word
<1>2. /\ applyWord(impl, 0, y) = impl[At(impl, x)][a]
      /\ applyWord(m, 0, y) = m[At(m, x)][a]
  BY <1>1, ApplySnoc, ApplySnocOn DEF At
<1> HIDE DEF y
<1>3. At(m, y) \in State
  BY <1>1, ApplyType DEF At, RunEdge
<1>4. PICK w \in F[At(m, y)] : w \in Word
  BY <1>3 DEF TellsAll
<1>5. Agree(impl, m, y \o w)
  BY <1>1, <1>4 DEF Survives
<1>6. Agree(impl, m, y)
  BY <1>1, <1>4, <1>5, AgreeFirst
<1>7. SubSeq(y, 1, Len(y)) = y /\ Len(y) \in 1 .. Len(y)
  BY <1>1, SubSeqFull DEF Word
<1>8. applyWord(impl, 0, y).out = applyWord(m, 0, y).out
  BY <1>6, <1>7 DEF Agree
<1> QED
  BY <1>2, <1>8 DEF At, y

(* The states of the implementation that the first parts of tests reach.   *)
Met(impl, pre, i) == {At(impl, x) : x \in Access(pre, i)}

(* An implementation of fewer states than the specification and the length *)
(* of the infixes together: at some length nothing new is met.             *)
LEMMA NothingNew ==
  ASSUME NEW m \in Machine, NEW n \in Nat \ {0}, NEW impl \in MachineOn(0 .. n - 1),
         NEW pre, LeadsThere(m, pre), NEW F, TellsAll(m, F),
         NEW K \in Nat, n < N + K, Survives(impl, m, pre, F, K)
  PROVE  \E i \in Nat : i + 1 <= K /\ Met(impl, pre, i + 1) \subseteq Met(impl, pre, i)
<1> SUFFICES ASSUME \A i \in Nat : i + 1 <= K =>
                      ~ (Met(impl, pre, i + 1) \subseteq Met(impl, pre, i))
             PROVE  FALSE
  OBVIOUS
<1> DEFINE T == 0 .. n - 1
           M(i) == Met(impl, pre, i)
           S == {i \in Nat : i <= K => Cardinality(M(i)) >= N + i}
<1>1. /\ 0 \in T /\ IsFiniteSet(T) /\ Cardinality(T) = n
      /\ IsFiniteSet(State) /\ Cardinality(State) = N
  <2>1. /\ N \in Nat \ {0} /\ 0 \in Int /\ n - 1 \in Int /\ N - 1 \in Int
        /\ ~ (0 > n - 1) /\ ~ (0 > N - 1)
        /\ (n - 1) - 0 + 1 = n /\ (N - 1) - 0 + 1 = N
    BY SizesAssumption
  <2>2. IsFiniteSet(T) /\ Cardinality(T) = n
    BY <2>1, FS_Interval
  <2>3. IsFiniteSet(State) /\ Cardinality(State) = N
    BY <2>1, FS_Interval DEF State
  <2> QED
    BY <2>1, <2>2, <2>3
<1>2. pre \in [State -> Word]
  BY DEF LeadsThere
<1>3. \A i \in Nat : M(i) \subseteq T /\ IsFiniteSet(M(i)) /\ Cardinality(M(i)) \in Nat
                     /\ Cardinality(M(i)) <= n
  <2> TAKE i \in Nat
  <2>1. \A x \in Access(pre, i) : At(impl, x) \in T
    BY <1>1, ApplyTypeOn DEF Access, At
  <2>2. M(i) \in SUBSET T
    BY <2>1 DEF Met
  <2> HIDE DEF M
  <2> QED
    BY <1>1, <2>2, FS_Subset, FS_CardinalityType
<1>4. 0 \in S
  <2> DEFINE f == [s \in State |-> At(impl, pre[s])]
  <2>1. \A s \in State : pre[s] \in Access(pre, 0)
    BY <1>2, AccessFacts
  <2>2. Survives(impl, m, pre, F, 0)
    <3>1. Access(pre, 0) \subseteq Access(pre, K)
      BY <1>2, AccessFacts
    <3> QED
      BY <3>1 DEF Survives
  <2>3. ASSUME NEW s \in State, NEW t \in State, s # t
        PROVE  At(impl, pre[s]) # At(impl, pre[t])
    <3>1. At(m, pre[s]) # At(m, pre[t])
      BY <2>3 DEF LeadsThere
    <3> QED
      BY <1>1, <2>1, <2>2, <3>1, ApartThere
  <2>4. f \in Injection(State, M(0))
    <3>1. f \in [State -> M(0)]
      BY <2>1 DEF Met
    <3>2. \A s, t \in State : f[s] = f[t] => s = t
      BY <2>3
    <3> QED
      BY <3>1, <3>2 DEF Injection, IsInjective
  <2> HIDE DEF f, M
  <2>5. Cardinality(State) <= Cardinality(M(0))
    BY <1>3, <2>4, FS_Injection
  <2> QED
    BY <1>1, <1>3, <2>5, SizesAssumption
<1>5. ASSUME NEW i \in Nat, i \in S PROVE i + 1 \in S
  <2> SUFFICES ASSUME i + 1 <= K PROVE Cardinality(M(i + 1)) >= N + (i + 1)
    OBVIOUS
  <2>1. M(i) \in SUBSET M(i + 1) /\ M(i) # M(i + 1)
    <3>1. Access(pre, i) \subseteq Access(pre, i + 1)
      BY <1>2, AccessFacts
    <3>2. M(i) \subseteq M(i + 1)
      BY <3>1 DEF Met
    <3> QED
      BY <3>2
  <2> HIDE DEF M
  <2>2. Cardinality(M(i)) <= Cardinality(M(i + 1)) /\ Cardinality(M(i)) # Cardinality(M(i + 1))
    <3>1. IsFiniteSet(M(i + 1))
      BY <1>3
    <3> QED
      BY <2>1, <3>1, FS_Subset
  <2> QED
    BY <1>3, <1>5, <2>2, SizesAssumption
<1> HIDE DEF S
<1>6. K \in S
  BY <1>4, <1>5, NatSetInduction
<1> HIDE DEF M
<1>7. Cardinality(M(K)) >= N + K
  BY <1>6 DEF S
<1> QED
  BY <1>3, <1>7, SizesAssumption

(* An implementation that survives and is not too large is equivalent: the *)
(* pairs of states met after the same words, up to the length at which     *)
(* nothing new is met.                                                     *)
LEMMA SurvivorsAreEquivalent ==
  ASSUME NEW m \in Machine, NEW n \in Nat \ {0}, NEW impl \in MachineOn(0 .. n - 1),
         NEW pre, LeadsThere(m, pre), NEW F, TellsAll(m, F),
         NEW K \in Nat, n < N + K, Survives(impl, m, pre, F, K)
  PROVE  \E R \in SUBSET ((0 .. n - 1) \X State) :
           /\ <<0, 0>> \in R
           /\ \A p \in R, a \in Input :
                /\ impl[p[1]][a].out = m[p[2]][a].out
                /\ <<impl[p[1]][a].to, m[p[2]][a].to>> \in R
<1> DEFINE T == 0 .. n - 1
<1>1. PICK i \in Nat : i + 1 <= K /\ Met(impl, pre, i + 1) \subseteq Met(impl, pre, i)
  BY NothingNew
<1> DEFINE R == {<<At(impl, x), At(m, x)>> : x \in Access(pre, i)}
<1>2. /\ 0 \in T /\ 0 \in State /\ pre \in [State -> Word] /\ pre[0] = <<>>
  BY SizesAssumption DEF LeadsThere, State
<1>3. Survives(impl, m, pre, F, i + 1)
  <2>1. Access(pre, i + 1) \subseteq Access(pre, K)
    BY <1>1, <1>2, AccessFacts
  <2> QED
    BY <2>1 DEF Survives
<1>4. ASSUME NEW x \in Access(pre, i)
      PROVE  /\ At(impl, x) \in T /\ At(m, x) \in State
  <2>1. x \in Word
    BY DEF Access
  <2> QED
    BY <1>2, <2>1, ApplyTypeOn, ApplyType DEF At, RunEdge
<1>5. <<0, 0>> \in R
  <2>1. <<>> \in Access(pre, i)
    <3>1. pre[0] \in Access(pre, i)
      BY <1>2, AccessFacts
    <3> QED
      BY <1>2, <3>1
  <2>2. At(impl, <<>>) = 0 /\ At(m, <<>>) = 0
    <3>1. m \in MachineOn(State) /\ <<>> \in Word
      BY EmptySeq DEF Machine, Edge, MachineOn, Word
    <3> QED
      BY <1>2, <3>1, ApplyTypeOn DEF At
  <2>3. PICK e : e = <<>>
    OBVIOUS
  <2>4. e \in Access(pre, i) /\ At(impl, e) = 0 /\ At(m, e) = 0
    BY <2>1, <2>2, <2>3
  <2> QED
    BY <2>4
<1>6. ASSUME NEW x \in Access(pre, i), NEW a \in Input
      PROVE  /\ impl[At(impl, x)][a].out = m[At(m, x)][a].out
             /\ <<impl[At(impl, x)][a].to, m[At(m, x)][a].to>> \in R
  <2>1. /\ impl[At(impl, x)][a].out = m[At(m, x)][a].out
        /\ At(impl, Append(x, a)) = impl[At(impl, x)][a].to
        /\ At(m, Append(x, a)) = m[At(m, x)][a].to
    BY <1>2, <1>3, AnswersThere
  <2>2. Append(x, a) \in Access(pre, i + 1)
    BY <1>2, AccessFacts
  <2>3. PICK y \in Access(pre, i) : At(impl, y) = At(impl, Append(x, a))
    BY <1>1, <2>2 DEF Met
  <2>4. y \in Access(pre, i + 1)
    BY <1>2, AccessFacts
  <2>5. At(m, y) = At(m, Append(x, a))
    BY <1>2, <1>3, <2>2, <2>3, <2>4, ApartThere
  <2> QED
    BY <2>1, <2>3, <2>5
<1>7. R \in SUBSET (T \X State)
  BY <1>4
<1>8. ASSUME NEW p \in R, NEW a \in Input
      PROVE  /\ impl[p[1]][a].out = m[p[2]][a].out
             /\ <<impl[p[1]][a].to, m[p[2]][a].to>> \in R
  <2>1. PICK x \in Access(pre, i) : p = <<At(impl, x), At(m, x)>>
    OBVIOUS
  <2>2. p[1] = At(impl, x) /\ p[2] = At(m, x)
    BY <2>1
  <2> HIDE DEF R
  <2> QED
    BY <1>6, <2>2
<1> HIDE DEF R
<1> QED
  BY <1>5, <1>7, <1>8

-----------------------------------------------------------------------------
(* The calls of main, one after the other.                                 *)

(* No step of a call changes the machine.                                  *)
LEMMA MachineStays == [MainNext]_main_vars => g' = g
<1>1. UNCHANGED vars => g' = g
  BY DEF vars
<1>2. UNCHANGED main_vars => g' = g
  BY SMTT(30) DEF main_vars, vars
<1>3. LeeYannakakis \/ SkipLeeYannakakis => g' = g
  BY DEF LeeYannakakis, SkipLeeYannakakis, Next, SkipSingleton, SplitOnOutput,
         SplitOnState, Split, Requeue, RaiseOrder, GiveUp, Finish, Fruitless
<1> QED
  BY <1>1, <1>2, <1>3 DEF MainNext

(* A step of the tests changes none of their arguments, and does not keep  *)
(* the reader.                                                             *)
LEMMA StepStays ==
  Step => /\ UNCHANGED arguments /\ reader_open' = reader_open
          /\ UNCHANGED output \/ \E w : Write(w)
<1>1. StartTests \/ StartWset \/ CollectTest \/ NextLength \/ LeaveFirst \/ LeavePrint
        \/ LeaveSecond => UNCHANGED <<arguments, reader_open, output>>
  BY DEF StartTests, StartWset, CollectTest, NextLength, LeaveFirst, LeavePrint, LeaveSecond
<1>2. PrintCollected \/ StreamTest \/ RandomTest =>
        /\ UNCHANGED <<arguments, reader_open>>
        /\ UNCHANGED output \/ \E w : Write(w)
  BY DEF PrintCollected, StreamTest, RandomTest, PrintUnlessOld
<1> QED
  BY <1>1, <1>2 DEF Step

(* Nothing changes the command line.                                       *)
LEMMA CommandLineStays == [ProgramNext]_program_vars => args' = args
<1>1. MakeSuffixes \/ MakePrefixes \/ EmptySuffixes => args' = args
  BY DEF MakeSuffixes, MakePrefixes, EmptySuffixes
<1>2. MakeTests \/ ReaderLeaves \/ UNCHANGED program_vars => UNCHANGED arguments
  BY StepStays DEF MakeTests, ReaderLeaves, CloseOutput, program_vars, suite_vars
<1> QED
  BY <1>1, <1>2 DEF ProgramNext, Program, arguments

(* The machine of all parts is one of those that main may be given.        *)
LEMMA MachineIsGiven == MainSpec => [](g \in Machines)
<1>1. MainInit => g \in Machines
  BY DEF MainInit, Init
<1>2. g \in Machines /\ [MainNext]_main_vars => (g \in Machines)'
  BY MachineStays
<1> QED
  BY <1>1, <1>2, PTL DEF MainSpec

(* With suffixes, what main does before the tests is the chain of calls    *)
(* that makes the family.                                                  *)
LEMMA ProgramIsMain == ProgramSpec /\ ~ no_suffix => MainSpec /\ [](~ no_suffix)
<1>1. ProgramInit => MainInit
  BY DEF ProgramInit
<1>2. ~ no_suffix /\ [ProgramNext]_program_vars => [MainNext]_main_vars /\ ~ no_suffix'
  <2>1. [ProgramNext]_program_vars /\ ~ no_suffix => [MainNext]_main_vars
    BY DEF ProgramNext, Program, MakeSuffixes, MakePrefixes, EmptySuffixes, MakeTests,
           ReaderLeaves, program_vars
  <2> QED
    BY <2>1, CommandLineStays DEF no_suffix
<1> QED
  BY <1>1, <1>2, PTL DEF ProgramSpec, MainSpec

(* All that is proved of create_transfer_sequences holds of the call that  *)
(* main makes.                                                             *)
TP == INSTANCE TransferSequencesProofs WITH
  start <- 0, Options <- Range(prefix_option),
  machine <- g, opt <- prefix_option[args.prefix_mode],
  work <- transfer_work, pc <- transfer_pc

(* The call does what its specification says, as nothing else touches its  *)
(* variables, and the machine and the option stay the same.                *)
LEMMA ProgramIsTransfer == ProgramSpec => TP!Spec
<1>1. ProgramInit => TP!Init
  BY DEF ProgramInit, Transfer!Init, TP!Init, Transfer!State, TP!State, 
         Transfer!InOrder, TP!InOrder
<1>2. UNCHANGED transfer_vars /\ UNCHANGED args /\ UNCHANGED g => UNCHANGED TP!vars
  BY DEF transfer_vars, TP!vars
<1>3. Transfer!Next => TP!Next
  <2>1. Transfer!Pop => TP!Pop
    <3>1. /\ Transfer!Places = TP!Places /\ Transfer!NextOrder = TP!NextOrder
          /\ \A i : Transfer!Erase(i) = TP!Erase(i)
      BY DEF Transfer!Places, TP!Places, Transfer!clamp, TP!clamp,
             Transfer!NextOrder, TP!NextOrder, Transfer!Orders, TP!Orders,
             Transfer!Input, TP!Input, Transfer!Erase, TP!Erase,
             Transfer!RemoveAt, TP!RemoveAt
    <3> QED
      BY <3>1 DEF Transfer!Pop, TP!Pop
  <2>2. Transfer!TryInput => TP!TryInput
    <3>1. /\ Transfer!input = TP!input /\ Transfer!v = TP!v
          /\ Transfer!Extended = TP!Extended /\ (Transfer!IsLast <=> TP!IsLast)
      BY DEF Transfer!input, TP!input, Transfer!v, TP!v, Transfer!Extended,
             TP!Extended, Transfer!IsLast, TP!IsLast
    <3> QED
      BY <3>1 DEF Transfer!TryInput, TP!TryInput
  <2>3. Transfer!Finish => TP!Finish
    BY DEF Transfer!Finish, TP!Finish
  <2> QED
    BY <2>1, <2>2, <2>3 DEF Transfer!Next, TP!Next
<1>4. [ProgramNext]_program_vars => [TP!Next]_TP!vars
  <2> SUFFICES ASSUME [ProgramNext]_program_vars
               PROVE  Transfer!Next \/ UNCHANGED <<transfer_vars, args, g>>
    BY <1>2, <1>3
  <2>1. CASE MakeSuffixes
    BY <2>1, MachineStays DEF MakeSuffixes
  <2>2. CASE MakePrefixes
    BY <2>2 DEF MakePrefixes
  <2>3. CASE EmptySuffixes
    BY <2>3 DEF EmptySuffixes, vars
  <2>4. CASE MakeTests
    BY <2>4, CommandLineStays DEF MakeTests, main_vars, vars
  <2>5. CASE ReaderLeaves
    BY <2>5, CommandLineStays DEF ReaderLeaves, main_vars, vars
  <2>6. CASE UNCHANGED program_vars
    BY <2>6, CommandLineStays DEF program_vars, main_vars, vars
  <2> QED
    BY <2>1, <2>2, <2>3, <2>4, <2>5, <2>6 DEF ProgramNext, Program
<1> QED
  BY <1>1, <1>4, PTL DEF ProgramSpec, TP!Spec

(* The words lead to the states, when the call is over.                    *)
WordsLead ==
  /\ g \in Machine
  /\ words \in [State -> Word]
  /\ transfer_pc = "returned" /\ ReachesAll(g) => LeadsThere(g, words)

(* They do, whatever becomes of the suffixes.                              *)
LEMMA ProgramWordsLead == ProgramSpec => []WordsLead
<1>1. /\ Range(prefix_option) \subseteq {o \in TP!transfer_options : o.q_min <= o.q_max}
      /\ Machines \subseteq TP!Machine /\ 0 \in TP!State
  <2>1. ASSUME NEW o \in Range(prefix_option)
        PROVE  o \in TP!transfer_options /\ o.q_min <= o.q_max
    <3>1. PICK x \in DOMAIN prefix_option : o = prefix_option[x]
      BY DEF Range
    <3>2. DOMAIN prefix_option = {"minimal", "lexmin", "buggy", "longest"}
      BY DEF prefix_option
    <3>3. PICK a \in 0 .. 1, b \in 0 .. 1, r \in {TRUE, FALSE} :
            a <= b /\ o = [q_min |-> a, q_max |-> b, randomized |-> r]
      <4>1. CASE x = "minimal"
        BY <3>1, <4>1 DEF prefix_option
      <4>2. CASE x = "lexmin"
        BY <3>1, <4>2 DEF prefix_option
      <4>3. CASE x = "buggy"
        BY <3>1, <4>3 DEF prefix_option
      <4>4. CASE x = "longest"
        BY <3>1, <4>4 DEF prefix_option
      <4> QED
        BY <3>2, <4>1, <4>2, <4>3, <4>4
    <3>4. o \in TP!transfer_options
      BY <3>3 DEF TP!transfer_options
    <3>5. o.q_min <= o.q_max
      BY <3>3
    <3> QED
      BY <3>4, <3>5
  <2>2. Machines \subseteq TP!Machine
    BY MachinesAssumption, Zenon
       DEF Machine, TP!Machine, State, TP!State, Input, TP!Input, Edge, TP!Edge,
           Output, TP!Output
  <2>3. 0 \in TP!State
    BY SizesAssumption DEF TP!State
  <2> QED
    BY <2>1, <2>2, <2>3
<1>2. TP!Spec => [](TP!TypeOK /\ TP!WordsLeadThere /\ TP!WordsFormTree /\ TP!EveryStateHasWord)
  <2>1. /\ TP!Spec => [](/\ TP!TypeOK
                         /\ TP!WorkIsFrontier
                         /\ transfer_work # <<>> =>
                              TP!Places \subseteq DOMAIN transfer_work)
        /\ TP!Spec => []TP!WordsLeadThere
        /\ TP!Spec => []TP!WordsFormTree
        /\ TP!Spec => []TP!EveryStateHasWord
    BY <1>1, SizesAssumption, TP!TransferTypeCorrect, TP!WordsAreRight,
       TP!WordsMakeATree, TP!CoversReachable
  <2> QED
    BY <2>1, PTL
<1>3. TP!TypeOK /\ TP!WordsLeadThere /\ TP!WordsFormTree /\ TP!EveryStateHasWord => WordsLead
  <2> SUFFICES ASSUME TP!TypeOK, TP!WordsLeadThere, TP!WordsFormTree, TP!EveryStateHasWord
               PROVE  WordsLead
    OBVIOUS
  <2>1. /\ TP!State = State /\ TP!Input = Input /\ TP!Word = Word
        /\ \A s, w : TP!applyWord(g, s, w) = applyWord(g, s, w)
    BY DEF TP!State, State, TP!Word, Word, TP!Input, Input, TP!applyWord, applyWord,
           TP!NoOutput, NoOutput
  <2>2. words \in [State -> Word] /\ words[0] = <<>>
    BY <2>1 DEF TP!TypeOK, TP!WordsFormTree
  <2>5. g \in Machine
    <3>1. TP!Machine = Machine
      BY <2>1, Zenon DEF TP!Machine, Machine, TP!Edge, Edge, TP!Output, Output
    <3> QED
      BY <3>1 DEF TP!TypeOK
  <2>3. \A s \in added : At(g, words[s]) = s
    BY <2>1 DEF TP!WordsLeadThere, At
  <2>4. ASSUME transfer_pc = "returned", ReachesAll(g) PROVE added = State
    <3>1. added = TP!Reachable
      BY <2>4 DEF TP!EveryStateHasWord
    <3>2. \A S \in SUBSET State : TP!Closed(S) => S = State
      BY <2>1, <2>4 DEF TP!Closed, ReachesAll
    <3> QED
      BY <2>1, <3>1, <3>2 DEF TP!Reachable
  <2> QED
    BY <2>2, <2>3, <2>4, <2>5 DEF WordsLead, LeadsThere
<1> QED
  BY <1>2, <1>3, ProgramIsTransfer, PTL

(* Every state has words, when the family is made.                         *)
LEMMA FamilyIsFilled ==
  ASSUME FInv
  PROVE  /\ family \in [State -> Seq(Word)]
         /\ fam_pc = "returned" => \A s \in State : ToSet(family[s]) # {}
<1>1. family \in [State -> Seq(Word)]
  BY DEF FInv
<1>2. ASSUME fam_pc = "returned", NEW s \in State PROVE ToSet(family[s]) # {}
  <2>1. stack = <<>>
    BY <1>2 DEF FInv
  <2>2. \A i \in DOMAIN stack : FALSE
    BY <2>1, EmptySeq
  <2>3. PICK n \in DOMAIN sequence : CoveredBy(s, n, ToSet(family[s]))
    BY <2>2 DEF FInv, Covered
  <2> QED
    BY <2>3 DEF CoveredBy, PrefixClosure
<1> QED
  BY <1>1, <1>2

(* What the tests are given is what the calls before them have returned,   *)
(* or the empty suffix, and the tests begin when all of it is there.       *)
ArgumentsInTurn ==
  /\ specification = g
  /\ args \in main_options /\ args.l <= args.k_max
  /\ prefixes = IF transfer_pc = "returned" THEN words ELSE [s \in State |-> <<>>]
  /\ separating_family = IF fam_pc # "returned" THEN [s \in State |-> <<>>]
                         ELSE IF no_suffix THEN [s \in State |-> << <<>> >>] ELSE family
  /\ fam_pc = "returned" => PrefixesReady
  /\ fam_pc # "returned" => SuiteInit
  /\ reader_open => cout_ok

(* A step is one of the tests, or the tests have not begun.                *)
LEMMA TestsWaitForArguments ==
  ASSUME ArgumentsInTurn, [ProgramNext]_program_vars
  PROVE  ArgumentsInTurn' /\ (SuiteInit' \/ [SuiteNext]_suite_vars)
<1> DEFINE nothing == [s \in State |-> <<>>]
<1>1. ASSUME SuiteInit, UNCHANGED own_suite_vars PROVE SuiteInit'
  BY <1>1 DEF SuiteInit, own_suite_vars, output
<1>2. /\ UNCHANGED own_suite_vars => UNCHANGED <<reader_open, cout_ok>>
      /\ no_suffix' <=> no_suffix
  BY CommandLineStays DEF own_suite_vars, output, no_suffix
<1>3. CASE MakeSuffixes
  <2>1. /\ ~ no_suffix /\ ads_pc = "returned" => PrefixesReady
        /\ ~ no_suffix /\ MainNext
        /\ separating_family' = IF fam_pc' = "returned" THEN family' ELSE separating_family
        /\ UNCHANGED <<specification, prefixes, args, transfer_vars, own_suite_vars>>
    BY <1>3 DEF MakeSuffixes
  <2>2. g' = g
    BY <2>1, MachineStays
  <2>3. PrefixesReady' <=> PrefixesReady
    BY <2>1 DEF PrefixesReady, transfer_vars
  <2>4. transfer_pc' = transfer_pc /\ words' = words
    BY <2>1 DEF transfer_vars
  <2>5. \/ UNCHANGED fam_vars
        \/ ads_pc = "returned" /\ fam_pc = "loop"
    BY <2>1 DEF MainNext, FamNext, FamLeaf, FamInner, FamFinish
  <2>6. CASE fam_pc = "returned"
    <3>1. family' = family /\ fam_pc' = fam_pc
      BY <2>5, <2>6 DEF fam_vars
    <3>2. UNCHANGED suite_vars
      BY <2>1, <2>6, <3>1 DEF ArgumentsInTurn, suite_vars, arguments, own_suite_vars
    <3> QED
      BY <1>2, <2>1, <2>2, <2>3, <2>4, <2>6, <3>1, <3>2 DEF ArgumentsInTurn
  <2>7. CASE fam_pc # "returned"
    <3>1. SuiteInit'
      BY <1>1, <2>1, <2>7 DEF ArgumentsInTurn
    <3>2. fam_pc' = "returned" => PrefixesReady'
      BY <2>1, <2>3, <2>5, <2>7 DEF fam_vars
    <3>3. separating_family = nothing
      BY <2>7 DEF ArgumentsInTurn
    <3> QED
      BY <1>2, <2>1, <2>2, <2>4, <3>1, <3>2, <3>3 DEF ArgumentsInTurn
  <2> QED
    BY <2>6, <2>7
<1>4. CASE MakePrefixes
  <2>1. /\ args.mode # "wset" /\ Transfer!Next
        /\ UNCHANGED <<specification, separating_family, args, main_vars, own_suite_vars>>
        /\ prefixes' = IF transfer_pc' = "returned" THEN words' ELSE prefixes
    BY <1>4 DEF MakePrefixes
  <2>2. transfer_pc # "returned"
    BY <2>1 DEF Transfer!Next, Transfer!Pop, Transfer!TryInput, Transfer!Finish
  <2>3. g' = g /\ fam_pc' = fam_pc /\ family' = family
    BY <2>1 DEF main_vars, vars, fam_vars
  <2>4. fam_pc # "returned"
    BY <2>1, <2>2 DEF ArgumentsInTurn, PrefixesReady
  <2>5. SuiteInit'
    BY <1>1, <2>1, <2>4 DEF ArgumentsInTurn
  <2>6. prefixes = nothing
    BY <2>2 DEF ArgumentsInTurn
  <2> QED
    BY <1>2, <2>1, <2>3, <2>4, <2>5, <2>6 DEF ArgumentsInTurn
<1>5. CASE MakeTests
  <2>1. fam_pc = "returned" /\ Step /\ UNCHANGED <<main_vars, transfer_vars>>
    BY <1>5 DEF MakeTests
  <2>2. UNCHANGED arguments /\ reader_open' = reader_open
    BY <2>1, StepStays
  <2>3. UNCHANGED output \/ \E w : Write(w)
    BY <2>1, StepStays
  <2>4. reader_open' => cout_ok'
    <3>1. CASE UNCHANGED output
      BY <2>2, <3>1 DEF output, ArgumentsInTurn
    <3>2. CASE \E w : Write(w)
      BY <2>2, <3>2 DEF Write, ArgumentsInTurn
    <3> QED
      BY <2>3, <3>1, <3>2
  <2>5. /\ g' = g /\ fam_pc' = fam_pc /\ family' = family
        /\ transfer_pc' = transfer_pc /\ words' = words
    BY <2>1 DEF main_vars, vars, fam_vars, transfer_vars
  <2>6. /\ specification' = specification /\ prefixes' = prefixes
        /\ separating_family' = separating_family /\ args' = args
    BY <2>2 DEF arguments
  <2>7. SuiteNext
    BY <2>1 DEF SuiteNext
  <2>8. PrefixesReady'
    BY <2>1, <2>5, <2>6 DEF ArgumentsInTurn, PrefixesReady
  <2> QED
    BY <1>2, <2>1, <2>4, <2>5, <2>6, <2>7, <2>8 DEF ArgumentsInTurn
<1>6. CASE ReaderLeaves
  <2>1. CloseOutput /\ UNCHANGED <<main_vars, transfer_vars>>
    BY <1>6 DEF ReaderLeaves
  <2>2. UNCHANGED arguments /\ reader_open' = FALSE /\ suite_pc # "start"
    BY <2>1 DEF CloseOutput
  <2>3. fam_pc = "returned"
    BY <2>2 DEF ArgumentsInTurn, SuiteInit
  <2>4. /\ g' = g /\ fam_pc' = fam_pc /\ family' = family
        /\ transfer_pc' = transfer_pc /\ words' = words
    BY <2>1 DEF main_vars, vars, fam_vars, transfer_vars
  <2>5. /\ specification' = specification /\ prefixes' = prefixes
        /\ separating_family' = separating_family /\ args' = args
    BY <2>2 DEF arguments
  <2>6. PrefixesReady'
    BY <2>3, <2>4, <2>5 DEF ArgumentsInTurn, PrefixesReady
  <2> QED
    BY <1>2, <2>1, <2>2, <2>3, <2>4, <2>5, <2>6 DEF ArgumentsInTurn, SuiteNext
<1>7. CASE UNCHANGED program_vars
  <2>1. UNCHANGED suite_vars /\ UNCHANGED <<main_vars, transfer_vars>>
    BY <1>7 DEF program_vars
  <2>2. /\ g' = g /\ fam_pc' = fam_pc /\ family' = family
        /\ transfer_pc' = transfer_pc /\ words' = words
    BY <2>1 DEF main_vars, vars, fam_vars, transfer_vars
  <2>3. /\ specification' = specification /\ prefixes' = prefixes
        /\ separating_family' = separating_family /\ args' = args
        /\ reader_open' = reader_open /\ cout_ok' = cout_ok
    BY <2>1 DEF suite_vars, arguments, output
  <2>4. PrefixesReady' <=> PrefixesReady
    BY <2>2, <2>3 DEF PrefixesReady
  <2>5. SuiteInit => SuiteInit'
    BY <1>1, <2>1 DEF suite_vars, own_suite_vars
  <2> QED
    BY <1>2, <2>1, <2>2, <2>3, <2>4, <2>5 DEF ArgumentsInTurn
<1>8. CASE EmptySuffixes
  <2>1. /\ no_suffix /\ PrefixesReady /\ fam_pc # "returned"
        /\ separating_family' = [s \in State |-> << <<>> >>] /\ fam_pc' = "returned"
        /\ UNCHANGED <<vars, specification, prefixes, args, transfer_vars, own_suite_vars>>
    BY <1>8 DEF EmptySuffixes
  <2>2. SuiteInit'
    BY <1>1, <2>1 DEF ArgumentsInTurn
  <2>3. g' = g /\ transfer_pc' = transfer_pc /\ words' = words
    BY <2>1 DEF vars, transfer_vars
  <2>4. PrefixesReady'
    BY <2>1, <2>3 DEF PrefixesReady
  <2> QED
    BY <1>2, <2>1, <2>2, <2>3, <2>4 DEF ArgumentsInTurn
<1> QED
  BY <1>3, <1>4, <1>5, <1>6, <1>7, <1>8 DEF ProgramNext, Program

(* Then the arguments are those that the tests need.                       *)
LEMMA ArgumentsFit ==
  ASSUME ArgumentsInTurn, WordsLead, no_suffix \/ FInv PROVE SuiteArguments
<1> DEFINE nothing == [s \in State |-> <<>>]
           empty   == [s \in State |-> << <<>> >>]
<1>1. /\ nothing \in [State -> Word] /\ nothing \in [State -> Seq(Word)]
      /\ empty \in [State -> Seq(Word)]
  BY EmptySeq DEF Word
<1>2. words \in [State -> Word] /\ g \in Machine
  BY DEF WordsLead
<1>3. prefixes = words \/ prefixes = nothing
  BY DEF ArgumentsInTurn
<1>4. \/ separating_family = nothing \/ separating_family = empty
      \/ ~ no_suffix /\ separating_family = family
  BY DEF ArgumentsInTurn
<1>5. ~ no_suffix => family \in [State -> Seq(Word)]
  BY DEF FInv
<1> HIDE DEF nothing, empty
<1> QED
  BY <1>1, <1>2, <1>3, <1>4, <1>5 DEF ArgumentsInTurn, SuiteArguments

(* All that is proved of the tests holds of those that main makes.         *)
LEMMA ProgramSuite ==
  ASSUME LeeYannakakisStyle
  PROVE  ProgramSpec => [](/\ ArgumentsInTurn /\ WordsLead /\ SuiteInv /\ FixedInv
                           /\ no_suffix \/ (FInv /\ Harmonised /\ g \in Machines))
<1> DEFINE Given == FInv /\ Harmonised /\ g \in Machines
           Fits == ArgumentsInTurn /\ WordsLead /\ (no_suffix \/ Given)
           Kept == SuiteInv /\ FixedInv
<1>1. no_suffix /\ [ProgramNext]_program_vars => no_suffix'
  BY CommandLineStays DEF no_suffix
<1>2. ProgramSpec /\ ~ no_suffix => []Given
  BY ProgramIsMain, FamilyInvariance, FamilyIsHarmonised, MachineIsGiven, PTL
<1>3. ProgramInit => ArgumentsInTurn /\ SuiteInit
  <2> SUFFICES ASSUME ProgramInit PROVE ArgumentsInTurn /\ SuiteInit
    OBVIOUS
  <2>1. SuiteInit /\ cout_ok
    BY DEF ProgramInit, SuiteInit
  <2>2. fam_pc # "returned" /\ transfer_pc # "returned"
    BY DEF ProgramInit, MainInit, FamInit, Transfer!Init
  <2> QED
    BY <2>1, <2>2, ArgumentsAssumption DEF ProgramInit, ArgumentsInTurn
<1>4. ArgumentsInTurn /\ [ProgramNext]_program_vars =>
        ArgumentsInTurn' /\ (SuiteInit' \/ [SuiteNext]_suite_vars)
  BY TestsWaitForArguments
<1>5. Fits /\ SuiteInit => Kept
  BY ArgumentsFit, BoundsAssumption, SuiteInvInit, FixedInvInit
<1>6. Kept /\ [SuiteNext]_suite_vars => Kept'
  BY BoundsAssumption, SuiteNextInv, FixedNextInv
<1> HIDE DEF Kept, Given
<1>7. ProgramSpec => [](no_suffix \/ Given)
  BY <1>1, <1>2, PTL DEF ProgramSpec
<1>8. ProgramSpec => []ArgumentsInTurn
  BY <1>3, <1>4, PTL DEF ProgramSpec
<1>9. ProgramSpec => []Fits
  BY <1>7, <1>8, ProgramWordsLead, PTL
<1> HIDE DEF Fits
<1>10. ProgramSpec => []Kept
  BY <1>3, <1>4, <1>5, <1>6, <1>8, <1>9, PTL DEF ProgramSpec
<1> QED
  BY <1>9, <1>10, PTL DEF Fits, Kept, Given

(* The tests that main makes are those of the functions on their own: what *)
(* the functions before them return are such arguments, and they do not    *)
(* begin sooner, whatever the modes are (main.cpp).                        *)
THEOREM TestsAreRightInMain ==
  ASSUME LeeYannakakisStyle
  PROVE  ProgramSpec => [](SuiteTypeOK /\ TrieIsOutput /\ FixedPartIsWhole)
<1>1. SuiteInv /\ FixedInv => SuiteTypeOK /\ TrieIsOutput /\ FixedPartIsWhole
  BY SuiteInvImplies, FixedInvImplies
<1> QED
  BY <1>1, ProgramSuite, PTL

-----------------------------------------------------------------------------
(* What all parts together are for.                                        *)

(* The words that the family keeps for the states.                         *)
KeptWords == [s \in State |-> ToSet(family[s])]

(* Two states that are not the same are not equivalent, and so the family  *)
(* tells all states apart.                                                 *)
LEMMA FamilyTells ==
  ASSUME FInv, g \in Machine, Harmonised, Minimal(g), fam_pc = "returned"
  PROVE  TellsAll(g, KeptWords)
<1>1. /\ family \in [State -> Seq(Word)]
      /\ \A s \in State : ToSet(family[s]) # {}
  BY FamilyIsFilled
<1>2. ASSUME NEW s \in State PROVE ToSet(family[s]) \in SUBSET Word
  <2>1. family[s] \in Seq(Word)
    BY <1>1
  <2>2. \A i \in DOMAIN family[s] : family[s][i] \in Word
    BY <2>1, LenProperties, ElementOfSeq
  <2> QED
    BY <2>2 DEF ToSet
<1>3. ASSUME NEW s \in State, NEW t \in State, s # t
      PROVE  <<s, t>> \notin Equivalence(g)
  <2> DEFINE class == {x \in State : <<s, x>> \in Equivalence(g)}
  <2>1. class \in Classes(g)
    BY DEF Classes
  <2>2. PICK x \in State : class = {x}
    BY <2>1 DEF Minimal
  <2>3. N - 1 \in Nat
    BY SizesAssumption
  <2>4. s \in class
    BY <2>3, EquivalentToItself DEF Equivalence
  <2>5. t \notin class
    BY <1>3, <2>2, <2>4
  <2> QED
    BY <2>5
<1>4. ASSUME NEW s \in State, NEW t \in State, s # t
      PROVE  \E v \in KeptWords[s], w \in KeptWords[t] : \E j \in 1 .. Len(v) :
               /\ j <= Len(w) /\ SubSeq(v, 1, j) = SubSeq(w, 1, j)
               /\ applyWord(g, s, SubSeq(v, 1, j)).out # applyWord(g, t, SubSeq(v, 1, j)).out
  <2>1. PICK v \in ToSet(family[s]), w \in ToSet(family[t]) : SeparatedBy(s, t, v, w)
    BY <1>3, <1>4 DEF Harmonised
  <2> QED
    BY <2>1 DEF SeparatedBy, out, KeptWords
<1> QED
  BY <1>1, <1>2, <1>4 DEF TellsAll, KeptWords

(* An implementation that passes what was printed answers all tests of the *)
(* method as the specification does.                                       *)
LEMMA PassingSurvives ==
  ASSUME SuiteArguments, specification = g, LeadsThere(g, prefixes),
         printed \subseteq Word, PrefixClosure(printed) = PrefixClosure(AllTests),
         NEW impl, \A w \in printed : Passes(impl, w)
  PROVE  Survives(impl, g, prefixes, [s \in State |-> ToSet(separating_family[s])], args.k_max)
<1>1. /\ g \in Machine /\ g \in MachineOn(State) /\ 0 \in State
      /\ args.k_max \in Nat /\ prefixes \in [State -> Word]
  BY SizesAssumption DEF SuiteArguments, main_options, Machine, Edge, MachineOn, State
<1>2. ASSUME NEW x \in Access(prefixes, args.k_max)
      PROVE  \E s \in State, y \in Word :
               /\ Len(y) \in 0 .. args.k_max /\ x = prefixes[s] \o y
               /\ state_after(s, y) = At(g, x) /\ At(g, x) \in State
  <2>1. PICK s \in State, y \in Word : Len(y) <= args.k_max /\ x = prefixes[s] \o y
    BY DEF Access
  <2>2. Len(y) \in Nat
    BY LenProperties DEF Word
  <2>3. applyWord(g, 0, x).to = applyWord(g, applyWord(g, 0, prefixes[s]).to, y).to
    BY <1>1, <2>1, ApplyConcatOn
  <2>4. applyWord(g, 0, prefixes[s]).to = s
    BY DEF LeadsThere, At
  <2>5. state_after(s, y) = At(g, x)
    BY <2>3, <2>4 DEF state_after, At
  <2>6. state_after(s, y) \in State
    BY TestsAreWords
  <2>7. Len(y) \in 0 .. args.k_max
    BY <1>1, <2>1, <2>2
  <2>8. At(g, x) \in State
    BY <2>5, <2>6
  <2> QED
    BY <2>1, <2>5, <2>7, <2>8, Zenon
<1>3. ASSUME NEW v \in AllTests, v \in Word PROVE Agree(impl, g, v)
  <2>1. v \in PrefixClosure(printed)
    BY <1>3, PrefixesFacts DEF PrefixClosure, Word
  <2>2. PICK w \in printed :
          /\ w \in Word /\ Len(v) \in Nat /\ Len(w) \in Nat /\ Len(v) <= Len(w)
          /\ \A j \in 1 .. Len(v) : SubSeq(w, 1, j) = SubSeq(v, 1, j)
    BY <2>1, LongerWord
  <2>3. Passes(impl, w)
    OBVIOUS
  <2>4. ASSUME NEW j \in 1 .. Len(v)
        PROVE  applyWord(impl, 0, SubSeq(v, 1, j)).out = applyWord(g, 0, SubSeq(v, 1, j)).out
    <3>1. j \in 1 .. Len(w) /\ SubSeq(w, 1, j) = SubSeq(v, 1, j)
      BY <2>2
    <3> QED
      BY <2>3, <3>1 DEF Passes, out
  <2> QED
    BY <2>4 DEF Agree
<1>4. ASSUME NEW x \in Access(prefixes, args.k_max),
             NEW w \in ToSet(separating_family[At(g, x)])
      PROVE  Agree(impl, g, x \o w)
  <2>1. PICK s \in State, y \in Word :
          /\ Len(y) \in 0 .. args.k_max /\ x = prefixes[s] \o y
          /\ state_after(s, y) = At(g, x) /\ At(g, x) \in State
    BY <1>2
  <2>2. IsTestOf(y, x \o w)
    BY <2>1 DEF IsTestOf
  <2>3. y \in Middles(Len(y))
    BY LenProperties DEF Middles, Word
  <2>4. x \o w \in Word
    BY <2>2, TestsAreWords
  <2>5. x \o w \in TestsOf(Len(y))
    BY <2>2, <2>3, <2>4 DEF TestsOf
  <2>6. x \o w \in AllTests
    BY <2>1, <2>5, AllTestsAre DEF TestsUpTo
  <2> QED
    BY <1>3, <2>4, <2>6
<1>5. \A x \in Access(prefixes, args.k_max) : At(g, x) \in State
  BY <1>2
<1> QED
  BY <1>4, <1>5 DEF Survives

(* The promise of the README: an implementation that passes the tests of   *)
(* the fixed part is equivalent to the specification or has at least k_max *)
(* more states, for every minimal machine of whose states each can be      *)
(* reached, every command line, and every order in which the calls draw    *)
(* their random choices.                                                   *)
THEOREM SuiteIsAlwaysComplete ==
  ASSUME LeeYannakakisStyle, \A m \in Machines : ReachesAll(m)
  PROVE  ProgramSpec => []SuiteIsComplete
<1> DEFINE Known == /\ ArgumentsInTurn /\ WordsLead /\ SuiteInv /\ FixedInv
                    /\ no_suffix \/ (FInv /\ Harmonised /\ g \in Machines)
<1>1. Known => SuiteIsComplete
  <2> SUFFICES ASSUME Known, FixedPartDelivered, Minimal(g),
                      NEW n \in 1 .. N + args.k_max - 1, NEW impl \in Implementations(n),
                      \A w \in printed : Passes(impl, w)
               PROVE  EquivalentTo(impl)
    BY DEF SuiteIsComplete, Guarantee
  <2>1. SuiteArguments /\ g \in Machine /\ specification = g
    BY ArgumentsFit DEF WordsLead, ArgumentsInTurn
  <2>2. /\ suite_pc = "returned" /\ args.mode = "fixed" /\ cout_ok
        /\ ~ no_suffix /\ FInv /\ Harmonised /\ g \in Machines
    BY DEF FixedPartDelivered, ArgumentsInTurn
  <2>3. fam_pc = "returned" /\ transfer_pc = "returned"
    BY <2>2 DEF ArgumentsInTurn, SuiteInit, PrefixesReady
  <2>4. prefixes = words /\ separating_family = family
    BY <2>2, <2>3 DEF ArgumentsInTurn
  <2>5. LeadsThere(g, prefixes)
    BY <2>2, <2>3, <2>4 DEF WordsLead
  <2>6. TellsAll(g, KeptWords)
    BY <2>1, <2>2, <2>3, FamilyTells
  <2>7. PrefixClosure(printed) = PrefixClosure(AllTests)
    BY <2>2, FixedInvImplies DEF FixedPartIsWhole
  <2>8. printed \subseteq Word
    BY DEF SuiteInv, OutputTyped
  <2>9. Survives(impl, g, prefixes, [s \in State |-> ToSet(separating_family[s])], args.k_max)
    BY <2>1, <2>5, <2>7, <2>8, PassingSurvives
  <2>10. Survives(impl, g, prefixes, KeptWords, args.k_max)
    BY <2>4, <2>9 DEF KeptWords
  <2>11. /\ args.k_max \in Nat /\ n \in Nat \ {0} /\ n < N + args.k_max
    BY <2>1, SizesAssumption DEF SuiteArguments, main_options
  <2>12. impl \in MachineOn(0 .. n - 1)
    BY DEF Implementations, MachineOn
  <2>13. DOMAIN impl = 0 .. n - 1
    BY DEF Implementations
  <2>14. \E R \in SUBSET ((0 .. n - 1) \X State) :
           /\ <<0, 0>> \in R
           /\ \A p \in R, a \in Input :
                /\ impl[p[1]][a].out = g[p[2]][a].out
                /\ <<impl[p[1]][a].to, g[p[2]][a].to>> \in R
    BY <2>1, <2>5, <2>6, <2>10, <2>11, <2>12, SurvivorsAreEquivalent
  <2> QED
    BY <2>13, <2>14 DEF EquivalentTo
<1>2. ProgramSpec => []Known
  BY ProgramSuite
<1> HIDE DEF Known
<1> QED
  BY <1>1, <1>2, PTL
=============================================================================
