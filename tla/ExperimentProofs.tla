--------------------------- MODULE ExperimentProofs ---------------------------
(***************************************************************************)
(* Proofs about Experiment: the safety properties of the experiment hold   *)
(* for every suite, every size of the pipe and of the buffer, every        *)
(* number of threads and every way the bound grows.                        *)
(***************************************************************************)
EXTENDS Experiment, FiniteSetTheorems, SequenceTheorems, WellFoundedInduction,
        TLAPS

-----------------------------------------------------------------------------
(* The inductive invariant.                                                *)

(* What the program has not printed, what is in the pipe and what was read *)
(* are together no more tests than a suite has.                            *)
TestsAreCounted ==
  /\ IsFiniteSet(remaining)
  /\ queryCount + Cardinality(remaining) + Len(pipe) <= MaxBound

(* A thread of the stream has a query of the buffer, which nobody else     *)
(* has, and only while java_pc waits for the answers.                      *)
StreamOnBuffer ==
  /\ oracle_pc \in {"idle", "counting", "answered"}
  /\ oracle_pc # "idle" <=> java_pc \in {"check", "check_rest"}
  /\ loaded \in [DOMAIN loaded -> 0 .. MaxCount]
  /\ oracle_pc # "counting" => waiting = {} /\ DOMAIN loaded = {}

(* An alphabet is in use while the program runs or its tests are checked.  *)
AlphabetInUse ==
  /\ java_pc \in {"log", "alphabet", "write", "read", "ended", "check",
                  "check_rest", "unrefuted", "returned", "done", "thrown"}
  /\ java_pc \in {"write", "read", "ended", "check", "check_rest", "unrefuted"}
       => currentAlphabet < Len(Suites)
  /\ java_pc = "read" => Len(buffer) < bufferSize

(* A counterexample is one; and the last hypothesis has none.              *)
CounterexampleRefutes ==
  /\ counterexample # NoTest => counterexample \in wrong
  /\ stage = LastStage => wrong = {}

EIInv ==
  /\ ExperimentTypeOK
  /\ TestsAreCounted /\ StreamOnBuffer /\ AlphabetInUse
  /\ CounterexampleRefutes
  /\ EveryTestCompared /\ NoProcessLeft

-----------------------------------------------------------------------------
(* Facts about the data.                                                   *)

(* What a suite is.                                                        *)
LEMMA SuiteSize ==
  ASSUME NEW n \in 1 .. Len(Suites)
  PROVE  /\ Suites[n] \subseteq Tests /\ IsFiniteSet(Suites[n])
         /\ Cardinality(Suites[n]) \in Nat /\ Cardinality(Suites[n]) <= MaxBound
<1>1. n \in DOMAIN Suites /\ Suites[n] \in SUBSET Tests
  BY SuitesAssumption
<1>2. IsFiniteSet(Suites[n]) /\ Cardinality(Suites[n]) <= MaxBound
  BY <1>1, SuitesAssumption, BoundAssumption
<1> QED
  BY <1>1, <1>2, FS_CardinalityType

(* A query that is added to a buffer.                                      *)
LEMMA Appended ==
  ASSUME NEW S, NEW b \in Seq(S), NEW q \in S
  PROVE  /\ Append(b, q) \in Seq(S) /\ Len(Append(b, q)) = Len(b) + 1
         /\ DOMAIN b \subseteq DOMAIN Append(b, q)
         /\ ToSet(Append(b, q)) = ToSet(b) \cup {q}
<1>1. /\ Append(b, q) \in Seq(S) /\ Len(Append(b, q)) = Len(b) + 1
      /\ \A i \in 1 .. Len(b) : Append(b, q)[i] = b[i]
      /\ Append(b, q)[Len(b) + 1] = q
      /\ Len(b) \in Nat
      /\ DOMAIN b = 1 .. Len(b)
      /\ DOMAIN Append(b, q) = 1 .. Len(b) + 1
  BY AppendProperties
<1>2. 1 .. Len(b) + 1 = (1 .. Len(b)) \cup {Len(b) + 1}
  BY <1>1
<1> QED
  BY <1>1, <1>2 DEF ToSet

(* A buffer that was emptied.                                              *)
LEMMA Emptied == ToSet(<<>>) = {} /\ Len(<<>>) = 0 /\ DOMAIN <<>> = {}
BY DEF ToSet

(* inspectBuffer stops at the first query that is answered differently: if *)
(* it stops nowhere, no query is.                                          *)
LEMMA NothingDiffers ==
  ASSUME buffer \in Seq(Tests), inspectBuffer({})
  PROVE  \A q \in DOMAIN buffer : buffer[q] \notin wrong
<1> DEFINE bad == {q \in DOMAIN buffer : buffer[q] \in wrong}
<1> SUFFICES ASSUME bad # {} PROVE FALSE
  OBVIOUS
<1>1. IsWellFoundedOn(OpToRel(<, Nat), Nat)
  BY NatLessThanWellFounded, Zenon
<1>2. bad \subseteq Nat
  OBVIOUS
<1> HIDE DEF bad
<1>3. PICK q \in bad : \A p \in bad : ~ (<<p, q>> \in OpToRel(<, Nat))
  BY <1>1, <1>2, WFMin, Zenon
<1>4. \A p \in bad : ~ (p < q)
  BY <1>2, <1>3 DEF OpToRel
<1>5. q \in DOMAIN buffer /\ Differs(q)
  BY DEF bad, Differs
<1>6. \A p \in 1 .. q - 1 : ~ Differs(p)
  <2> SUFFICES ASSUME NEW p \in 1 .. q - 1, Differs(p) PROVE FALSE
    OBVIOUS
  <2>1. p \in bad /\ p < q
    BY <1>5 DEF bad, Differs
  <2> QED
    BY <2>1, <1>4
<1> QED
  BY <1>5, <1>6 DEF inspectBuffer

-----------------------------------------------------------------------------
(* The invariant holds at first.                                           *)
LEMMA EInitIInv == ExperimentInit => EIInv
<1> SUFFICES ASSUME ExperimentInit PROVE EIInv
  OBVIOUS
<1> USE Emptied DEF ExperimentInit, EqInit, OracleInit, NoProgram
<1>1. wrong \subseteq Tests /\ (0 >= LastStage => wrong = {})
  BY DEF Hypothesis
<1>2. ExperimentTypeOK
  BY <1>1, StageAssumption, BoundAssumption, SuitesAssumption, PipeAssumption,
     MaxCountAssumption DEF ExperimentTypeOK
<1>3. TestsAreCounted
  BY FS_EmptySet, BoundAssumption DEF TestsAreCounted
<1>4. StreamOnBuffer
  BY DEF StreamOnBuffer
<1>5. AlphabetInUse /\ EveryTestCompared /\ NoProcessLeft
  BY DEF AlphabetInUse, EveryTestCompared, NoProcessLeft
<1>6. CounterexampleRefutes
  BY <1>1, StageAssumption DEF CounterexampleRefutes
<1> QED
  BY <1>2, <1>3, <1>4, <1>5, <1>6 DEF EIInv

-----------------------------------------------------------------------------
(* The external program keeps the invariant, whatever java_pc is.          *)
LEMMA ProgramKeepsIInv ==
  EIInv /\ (ProgramStep \/ (Crash /\ UNCHANGED <<stage, wrong, eq_vars, oracle_vars>>))
    => EIInv'
<1> SUFFICES ASSUME EIInv, ProgramProgress \/ Crash,
                    UNCHANGED <<stage, wrong, eq_vars, oracle_vars>>
             PROVE  EIInv'
  BY DEF ProgramStep
<1> USE DEF EIInv
<1>1. UNCHANGED <<stage, wrong, currentAlphabet, bound, buffer, queryCount,
                  counterexample, heard, java_pc, queries, symbols, waiting,
                  loaded, oracle_pc>>
  BY DEF eq_vars, oracle_vars, counters
<1>2. /\ program' \in {"none", "reading", "printing", "closed", "exited"}
      /\ program \in {"none", "exited"} => program' \in {"none", "exited"}
      /\ remaining' \subseteq Tests /\ pipe' \in Seq(Tests)
      /\ Len(pipe') <= PipeSize
      /\ IsFiniteSet(remaining')
      /\ queryCount + Cardinality(remaining') + Len(pipe') <= MaxBound
  <2>1. CASE PrintTest
    <3>1. PICK w \in remaining :
             /\ program = "printing" /\ Len(pipe) < PipeSize
             /\ pipe' = Append(pipe, w) /\ remaining' = remaining \ {w}
             /\ UNCHANGED <<program, exit_value>>
      BY <2>1 DEF PrintTest
    <3>2. /\ IsFiniteSet(remaining') /\ Cardinality(remaining) \in Nat
          /\ Cardinality(remaining') = Cardinality(remaining) - 1
      BY <3>1, FS_RemoveElement, FS_CardinalityType DEF TestsAreCounted
    <3>3. pipe \in Seq(Tests) /\ w \in Tests
      BY <3>1 DEF ExperimentTypeOK
    <3>4. pipe' \in Seq(Tests) /\ Len(pipe') = Len(pipe) + 1 /\ Len(pipe) \in Nat
      BY <3>1, <3>3, Appended
    <3>5. Len(pipe') <= PipeSize
      BY <3>1, <3>4, PipeAssumption
    <3>6. queryCount + Cardinality(remaining') + Len(pipe') <= MaxBound
      <4>1. queryCount \in Int /\ MaxBound \in Int
        BY BoundAssumption DEF ExperimentTypeOK
      <4>2. queryCount + Cardinality(remaining) + Len(pipe) <= MaxBound
        BY DEF TestsAreCounted
      <4> QED
        BY <3>2, <3>4, <4>1, <4>2
    <3>7. /\ program = "printing" /\ program' = program
          /\ remaining' \subseteq Tests
      BY <3>1 DEF ExperimentTypeOK
    <3> QED
      BY <3>2, <3>4, <3>5, <3>6, <3>7
  <2>2. CASE CloseStream \/ Exit \/ Crash
    BY <2>2 DEF CloseStream, Exit, Crash, ExperimentTypeOK, TestsAreCounted
  <2> QED
    BY <2>1, <2>2 DEF ProgramProgress
<1>3. ExperimentTypeOK'
  BY <1>1, <1>2 DEF ExperimentTypeOK
<1>4. TestsAreCounted'
  BY <1>1, <1>2 DEF TestsAreCounted
<1>5. StreamOnBuffer' /\ AlphabetInUse' /\ CounterexampleRefutes'
  BY <1>1 DEF StreamOnBuffer, AlphabetInUse, CounterexampleRefutes
<1>6. EveryTestCompared' /\ NoProcessLeft'
  BY <1>1, <1>2 DEF EveryTestCompared, NoProcessLeft
<1> QED
  BY <1>3, <1>4, <1>5, <1>6

(* So does the stream that counts the symbols.                             *)
LEMMA OracleKeepsIInv ==
  EIInv /\ OracleStep /\ UNCHANGED <<stage, wrong, eq_vars, program_vars>> => EIInv'
<1> SUFFICES ASSUME EIInv, OracleStep,
                    UNCHANGED <<stage, wrong, eq_vars, program_vars>>
             PROVE  EIInv'
  OBVIOUS
<1> USE DEF EIInv
<1>1. UNCHANGED <<stage, wrong, currentAlphabet, bound, buffer, queryCount,
                  counterexample, heard, java_pc, program, remaining, pipe>>
  BY DEF eq_vars, program_vars
<1>2. /\ queries' \in 0 .. MaxCount /\ symbols' \in 0 .. MaxCount
      /\ waiting' \cup DOMAIN loaded' \subseteq DOMAIN buffer
      /\ StreamOnBuffer'
  <2> USE DEF ExperimentTypeOK, StreamOnBuffer, counters
  <2>1. CASE LoadSymbols
    <3>1. PICK q \in waiting :
             /\ oracle_pc = "counting" /\ waiting' = waiting \ {q}
             /\ loaded' = [r \in DOMAIN loaded \cup {q} |->
                         IF r = q THEN symbols ELSE loaded[r]]
             /\ UNCHANGED <<queries, symbols, oracle_pc>>
      BY <2>1 DEF LoadSymbols
    <3>2. DOMAIN loaded' = DOMAIN loaded \cup {q}
      BY <3>1
    <3>3. loaded' \in [DOMAIN loaded' -> 0 .. MaxCount]
      BY <3>1, <3>2
    <3> QED
      BY <1>1, <3>1, <3>2, <3>3
  <2>2. CASE StoreSymbols
    <3>1. PICK q \in DOMAIN loaded :
             /\ oracle_pc = "counting"
             /\ symbols' = Capped(loaded[q] + 1)
             /\ loaded' = Restrict(loaded, DOMAIN loaded \ {q})
             /\ UNCHANGED <<queries, waiting, oracle_pc>>
      BY <2>2 DEF StoreSymbols
    <3>2. symbols' \in 0 .. MaxCount
      BY <3>1, MaxCountAssumption DEF Capped
    <3>3. /\ DOMAIN loaded' = DOMAIN loaded \ {q}
          /\ loaded' \in [DOMAIN loaded' -> 0 .. MaxCount]
      BY <3>1 DEF Restrict
    <3> QED
      BY <1>1, <3>1, <3>2, <3>3
  <2>3. CASE Delegate
    BY <1>1, <2>3 DEF Delegate
  <2> QED
    BY <2>1, <2>2, <2>3 DEF OracleStep
<1>3. ExperimentTypeOK'
  BY <1>1, <1>2 DEF ExperimentTypeOK
<1>4. TestsAreCounted' /\ AlphabetInUse' /\ CounterexampleRefutes'
  BY <1>1 DEF TestsAreCounted, AlphabetInUse, CounterexampleRefutes
<1>5. EveryTestCompared' /\ NoProcessLeft'
  BY <1>1 DEF EveryTestCompared, NoProcessLeft
<1> QED
  BY <1>2, <1>3, <1>4, <1>5

-----------------------------------------------------------------------------
(* The steps of main and of findCounterExample.                            *)

(* Main prints the counters, and refines the hypothesis.                   *)
LEMMA MainKeepsIInv == EIInv /\ (LogStage \/ Refine) => EIInv'
<1> USE DEF EIInv
<1>1. ASSUME EIInv, LogStage PROVE EIInv'
  <2> USE <1>1 DEF LogStage, logAndReset, program_vars
  <2>1. ExperimentTypeOK'
    BY MaxCountAssumption DEF ExperimentTypeOK
  <2>2. /\ TestsAreCounted' /\ StreamOnBuffer' /\ AlphabetInUse'
        /\ CounterexampleRefutes' /\ EveryTestCompared' /\ NoProcessLeft'
    BY DEF TestsAreCounted, StreamOnBuffer, AlphabetInUse,
           CounterexampleRefutes, EveryTestCompared, NoProcessLeft
  <2> QED
    BY <2>1, <2>2
<1>2. ASSUME EIInv, Refine PROVE EIInv'
  <2> USE <1>2 DEF Refine, program_vars, oracle_vars, counters
  <2>1. /\ stage' \in 0 .. LastStage /\ wrong' \subseteq Tests
        /\ CounterexampleRefutes'
    <3>1. CASE counterexample = NoTest
      BY <3>1 DEF ExperimentTypeOK, CounterexampleRefutes
    <3>2. CASE counterexample # NoTest
      <4>1. stage # LastStage /\ stage \in 0 .. LastStage
        BY <3>2 DEF CounterexampleRefutes, ExperimentTypeOK
      <4>2. stage' = stage + 1 /\ wrong' \in Hypothesis(stage')
        BY <3>2
      <4>3. stage' \in 0 .. LastStage
        BY <4>1, <4>2, StageAssumption
      <4>4. wrong' \subseteq Tests /\ (stage' >= LastStage => wrong' = {})
        BY <4>2 DEF Hypothesis
      <4> QED
        BY <4>3, <4>4, StageAssumption DEF CounterexampleRefutes
    <3> QED
      BY <3>1, <3>2
  <2>2. java_pc' \in {"done", "log"} /\ heard' \subseteq Tests
    BY DEF ExperimentTypeOK
  <2>3. ExperimentTypeOK'
    BY <2>1, <2>2 DEF ExperimentTypeOK
  <2>4. TestsAreCounted' /\ StreamOnBuffer' /\ AlphabetInUse'
    BY <2>2 DEF TestsAreCounted, StreamOnBuffer, AlphabetInUse
  <2>5. EveryTestCompared' /\ NoProcessLeft'
    BY <2>2 DEF EveryTestCompared, NoProcessLeft
  <2> QED
    BY <2>1, <2>3, <2>4, <2>5
<1> QED
  BY <1>1, <1>2

(* The loop over the alphabets.                                            *)
LEMMA AlphabetsKeepIInv ==
  /\ EIInv /\ UNCHANGED stage
  /\ SetUp \/ SetUpFails \/ RaiseBound \/ CheckRest \/ NextAlphabet
  => EIInv'
<1> USE DEF EIInv, oracle_vars, counters, program_vars
<1> DEFINE Rest == /\ TestsAreCounted' /\ StreamOnBuffer' /\ AlphabetInUse'
                   /\ CounterexampleRefutes' /\ EveryTestCompared'
                   /\ NoProcessLeft'
<1>0. Len(Suites) \in Nat /\ Len(Suites) > 0
  BY SuitesAssumption
<1>1. ASSUME EIInv, UNCHANGED stage, SetUp PROVE EIInv'
  <2> USE <1>1 DEF SetUp, Start
  <2>1. currentAlphabet + 1 \in 1 .. Len(Suites)
    BY <1>0 DEF ExperimentTypeOK
  <2>2. /\ remaining' \subseteq Tests /\ IsFiniteSet(remaining')
        /\ Cardinality(remaining') \in Nat /\ Cardinality(remaining') <= MaxBound
    BY <2>1, SuiteSize
  <2>3. ExperimentTypeOK'
    BY <2>2, Emptied, PipeAssumption, BoundAssumption DEF ExperimentTypeOK
  <2>4. TestsAreCounted' /\ AlphabetInUse' /\ NoProcessLeft'
    BY <2>2, Emptied DEF TestsAreCounted, AlphabetInUse, NoProcessLeft
  <2>5. StreamOnBuffer' /\ CounterexampleRefutes' /\ EveryTestCompared'
    BY DEF StreamOnBuffer, CounterexampleRefutes, EveryTestCompared
  <2> QED
    BY <2>3, <2>4, <2>5
<1>2. ASSUME EIInv, UNCHANGED stage, SetUpFails PROVE EIInv'
  <2> USE <1>2 DEF SetUpFails
  <2>1. ExperimentTypeOK'
    BY DEF ExperimentTypeOK
  <2>2. Rest
    BY DEF TestsAreCounted, StreamOnBuffer, AlphabetInUse,
           CounterexampleRefutes, EveryTestCompared, NoProcessLeft
  <2> QED
    BY <2>1, <2>2
<1>3. ASSUME EIInv, UNCHANGED stage, RaiseBound PROVE EIInv'
  <2> USE <1>3 DEF RaiseBound
  <2>1. bound' \in Nat
    BY BoundAssumption DEF Raised, ExperimentTypeOK
  <2>2. ExperimentTypeOK'
    BY <1>0, <2>1 DEF ExperimentTypeOK
  <2>3. Rest
    BY DEF TestsAreCounted, StreamOnBuffer, AlphabetInUse,
           CounterexampleRefutes, EveryTestCompared, NoProcessLeft
  <2> QED
    BY <2>2, <2>3
<1>4. ASSUME EIInv, UNCHANGED stage, CheckRest PROVE EIInv'
  <2> USE <1>4 DEF CheckRest, BeginQueries
  <2>1. queries' \in 0 .. MaxCount
    BY MaxCountAssumption DEF Capped, ExperimentTypeOK
  <2>2. waiting' \cup DOMAIN loaded' \subseteq DOMAIN buffer'
    BY DEF ExperimentTypeOK
  <2>3. ExperimentTypeOK'
    BY <2>1, <2>2 DEF ExperimentTypeOK
  <2>4. Rest
    BY DEF TestsAreCounted, StreamOnBuffer, AlphabetInUse,
           CounterexampleRefutes, EveryTestCompared, NoProcessLeft
  <2> QED
    BY <2>3, <2>4
<1>5. ASSUME EIInv, UNCHANGED stage, NextAlphabet PROVE EIInv'
  <2> USE <1>5 DEF NextAlphabet
  <2>1. currentAlphabet' \in 0 .. Len(Suites)
    BY <1>0 DEF ExperimentTypeOK, AlphabetInUse
  <2>2. ExperimentTypeOK'
    BY <2>1 DEF ExperimentTypeOK
  <2>3. Rest
    BY DEF TestsAreCounted, StreamOnBuffer, AlphabetInUse,
           CounterexampleRefutes, EveryTestCompared, NoProcessLeft
  <2> QED
    BY <2>2, <2>3
<1> QED
  BY <1>1, <1>2, <1>3, <1>4, <1>5

(* A line is read: one test less in the pipe, one more in the buffer.      *)
LEMMA ReadKeeps ==
  ASSUME EIInv, ReadQuery
  PROVE  /\ buffer' \in Seq(Tests) /\ Len(buffer') = Len(buffer) + 1
         /\ Len(buffer') <= bufferSize
         /\ ToSet(buffer') = ToSet(buffer) \cup {Head(pipe)}
         /\ DOMAIN buffer \subseteq DOMAIN buffer'
         /\ heard' \subseteq Tests /\ heard' \cap wrong \subseteq ToSet(buffer')
         /\ queryCount' \in 0 .. MaxBound
         /\ Tail(pipe) \in Seq(Tests) /\ Len(Tail(pipe)) = Len(pipe) - 1
         /\ queryCount' + Cardinality(remaining) + Len(Tail(pipe)) <= MaxBound
         /\ Cardinality(remaining) \in Nat /\ Len(pipe) \in Nat
<1> USE DEF EIInv
<1>1. /\ pipe \in Seq(Tests) /\ pipe # <<>> /\ buffer \in Seq(Tests)
      /\ java_pc = "read"
  BY DEF ReadQuery, ExperimentTypeOK
<1>2. /\ Head(pipe) \in Tests /\ Tail(pipe) \in Seq(Tests)
      /\ Len(Tail(pipe)) = Len(pipe) - 1 /\ Len(pipe) \in Nat
      /\ Len(pipe) # 0
  BY <1>1, HeadTailProperties
<1>3. /\ buffer' \in Seq(Tests) /\ Len(buffer') = Len(buffer) + 1
      /\ DOMAIN buffer \subseteq DOMAIN buffer'
      /\ ToSet(buffer') = ToSet(buffer) \cup {Head(pipe)}
      /\ Len(buffer) \in Nat
  BY <1>1, <1>2, Appended DEF ReadQuery
<1>4. Len(buffer') <= bufferSize
  BY <1>1, <1>3, BoundAssumption DEF AlphabetInUse
<1>5. /\ heard' \subseteq Tests
      /\ heard' \cap wrong \subseteq ToSet(buffer')
  BY <1>1, <1>2, <1>3 DEF ReadQuery, ExperimentTypeOK, EveryTestCompared
<1>6. Cardinality(remaining) \in Nat
  BY FS_CardinalityType DEF TestsAreCounted
<1>7. /\ queryCount' \in 0 .. MaxBound
      /\ queryCount' + Cardinality(remaining) + Len(Tail(pipe)) <= MaxBound
  BY <1>2, <1>6, BoundAssumption, SMTT(30) DEF ReadQuery, TestsAreCounted, ExperimentTypeOK
<1> QED
  BY <1>2, <1>3, <1>4, <1>5, <1>6, <1>7

(* findCounterExampleImpl reads on, or stops to check the buffer.          *)
LEMMA ReadingKeepsIInv ==
  EIInv /\ UNCHANGED stage /\ (BoundReached \/ FillBuffer \/ CheckBuffer) => EIInv'
<1> SUFFICES ASSUME EIInv, UNCHANGED stage,
                    BoundReached \/ FillBuffer \/ CheckBuffer
             PROVE  EIInv'
  OBVIOUS
<1> USE DEF EIInv
<1>1. /\ ReadQuery
      /\ UNCHANGED <<stage, wrong, currentAlphabet, bound, counterexample>>
      /\ java_pc = "read"
  BY DEF BoundReached, FillBuffer, CheckBuffer, ReadQuery
<1>2. /\ oracle_pc = "idle" /\ waiting = {} /\ DOMAIN loaded = {}
      /\ program \in {"none", "reading", "printing", "closed", "exited"}
      /\ currentAlphabet < Len(Suites)
  BY <1>1 DEF ExperimentTypeOK, StreamOnBuffer, AlphabetInUse
<1>3. CounterexampleRefutes'
  BY <1>1 DEF CounterexampleRefutes
<1>4. CASE BoundReached
  <2> USE <1>4 DEF BoundReached, Destroy, oracle_vars, counters
  <2>1. ExperimentTypeOK'
    BY <1>1, <1>2, ReadKeeps, Emptied, PipeAssumption, SMTT(30) DEF ExperimentTypeOK
  <2>2. TestsAreCounted'
    BY <1>1, ReadKeeps, Emptied, FS_EmptySet DEF TestsAreCounted
  <2>3. StreamOnBuffer' /\ AlphabetInUse' /\ NoProcessLeft'
    BY <1>1, <1>2 DEF StreamOnBuffer, AlphabetInUse, NoProcessLeft
  <2>4. EveryTestCompared'
    BY <1>1, ReadKeeps DEF EveryTestCompared
  <2> QED
    BY <1>3, <2>1, <2>2, <2>3, <2>4
<1>5. CASE FillBuffer
  <2> USE <1>5 DEF FillBuffer, ReadLine, oracle_vars, counters
  <2>1. Len(buffer') < bufferSize
    BY <1>1, ReadKeeps, BoundAssumption DEF BufferFull, ExperimentTypeOK
  <2>2. ExperimentTypeOK'
    BY <1>1, <1>2, ReadKeeps, PipeAssumption, SMTT(30) DEF ExperimentTypeOK
  <2>3. TestsAreCounted'
    BY <1>1, ReadKeeps DEF TestsAreCounted
  <2>4. StreamOnBuffer' /\ AlphabetInUse' /\ NoProcessLeft'
    BY <1>1, <1>2, <2>1 DEF StreamOnBuffer, AlphabetInUse, NoProcessLeft
  <2>5. EveryTestCompared'
    BY <1>1, ReadKeeps DEF EveryTestCompared
  <2> QED
    BY <1>3, <2>2, <2>3, <2>4, <2>5
<1>6. CASE CheckBuffer
  <2> USE <1>6 DEF CheckBuffer, ReadLine, BeginQueries
  <2>1. queries' \in 0 .. MaxCount /\ symbols' \in 0 .. MaxCount
    BY <1>1, ReadKeeps, MaxCountAssumption DEF Capped, ExperimentTypeOK
  <2>2. /\ waiting' \cup DOMAIN loaded' \subseteq DOMAIN buffer'
        /\ pipe' \in Seq(Tests) /\ Len(pipe') <= PipeSize
        /\ remaining' \subseteq Tests /\ program' = program
    BY <1>1, <1>2, ReadKeeps, PipeAssumption, SMTT(30) DEF ExperimentTypeOK
  <2> HIDE DEF CheckBuffer
  <2>6. ExperimentTypeOK'
    BY <1>1, <1>2, <2>1, <2>2, ReadKeeps DEF ExperimentTypeOK
  <2> USE DEF CheckBuffer
  <2>3. TestsAreCounted'
    BY <1>1, ReadKeeps DEF TestsAreCounted
  <2>4. StreamOnBuffer' /\ AlphabetInUse' /\ NoProcessLeft'
    BY <1>1, <1>2 DEF StreamOnBuffer, AlphabetInUse, NoProcessLeft
  <2>5. EveryTestCompared'
    BY <1>1, ReadKeeps DEF EveryTestCompared
  <2> QED
    BY <1>3, <2>6, <2>3, <2>4, <2>5
<1> QED
  BY <1>4, <1>5, <1>6

(* It writes the hypothesis, and looks at how the program has ended.       *)
LEMMA EndsKeepIInv ==
  /\ EIInv /\ UNCHANGED stage
  /\ \/ WriteHypothesis \/ WriteToNobody
     \/ EndOfStream \/ ExitedNormally \/ ExitedBadly
  => EIInv'
<1> SUFFICES ASSUME EIInv, UNCHANGED stage,
                    \/ WriteHypothesis \/ WriteToNobody
                    \/ EndOfStream \/ ExitedNormally \/ ExitedBadly
             PROVE  EIInv'
  OBVIOUS
<1> USE DEF EIInv
<1>1. /\ UNCHANGED <<stage, wrong, queries, symbols, waiting, loaded, oracle_pc,
                     currentAlphabet, bound, buffer, queryCount,
                     counterexample, heard>>
      /\ java_pc \in {"write", "read", "ended"}
      /\ java_pc' \in {"read", "ended", "unrefuted", "thrown"}
      /\ java_pc' = "read" => java_pc = "write"
      /\ java_pc' = "unrefuted" => program' = "exited"
  BY DEF WriteHypothesis, WriteToNobody, EndOfStream, ExitedNormally,
         ExitedBadly, oracle_vars, counters, program_vars
<1>2. \/ UNCHANGED <<remaining, pipe>> /\ program' \in {program, "printing"}
      \/ program' = "none" /\ remaining' = {} /\ pipe' = <<>>
  BY DEF WriteHypothesis, WriteToNobody, EndOfStream, ExitedNormally,
         ExitedBadly, Receive, Destroy, program_vars
<1>3. ExperimentTypeOK'
  <2>1. /\ program' \in {"none", "reading", "printing", "closed", "exited"}
        /\ remaining' \subseteq Tests
        /\ pipe' \in Seq(Tests) /\ Len(pipe') <= PipeSize
    <3>1. CASE UNCHANGED <<remaining, pipe>> /\ program' \in {program, "printing"}
      BY <3>1 DEF ExperimentTypeOK
    <3>2. CASE program' = "none" /\ remaining' = {} /\ pipe' = <<>>
      <4>1. pipe' \in Seq(Tests) /\ Len(pipe') <= PipeSize
        BY <3>2, PipeAssumption
      <4> QED
        BY <3>2, <4>1
    <3> QED
      BY <1>2, <3>1, <3>2
  <2> QED
    BY <1>1, <2>1 DEF ExperimentTypeOK
<1>4. TestsAreCounted'
  <2>1. CASE UNCHANGED <<remaining, pipe>>
    BY <1>1, <2>1 DEF TestsAreCounted
  <2>2. CASE remaining' = {} /\ pipe' = <<>>
    BY <1>1, <2>2, Emptied, FS_EmptySet DEF TestsAreCounted, ExperimentTypeOK
  <2> QED
    BY <1>2, <2>1, <2>2
<1>5. AlphabetInUse'
  BY <1>1, Emptied, BoundAssumption DEF AlphabetInUse, EveryTestCompared
<1>6. StreamOnBuffer' /\ CounterexampleRefutes' /\ NoProcessLeft'
  BY <1>1 DEF StreamOnBuffer, CounterexampleRefutes, NoProcessLeft
<1>7. EveryTestCompared'
  BY <1>1 DEF EveryTestCompared
<1> QED
  BY <1>3, <1>4, <1>5, <1>6, <1>7

(* checkAndEmptyBuffer finds nothing, and nothing is lost with the buffer; *)
(* or it finds a counterexample.                                           *)
LEMMA CheckKeepsIInv == EIInv /\ UNCHANGED stage /\ (NothingFound \/ Found) => EIInv'
<1> USE DEF EIInv
<1>1. ASSUME EIInv, EmptyBuffer
      PROVE  /\ waiting' = {} /\ DOMAIN loaded' = {} /\ oracle_pc' = "idle"
             /\ loaded' \in [DOMAIN loaded' -> 0 .. MaxCount]
             /\ buffer' \in Seq(Tests) /\ Len(buffer') = 0
             /\ buffer' = <<>> /\ ToSet(buffer') = {}
             /\ UNCHANGED <<queries, symbols, wrong, currentAlphabet, bound,
                            queryCount, heard>>
  BY <1>1, Emptied DEF EmptyBuffer, QueriesReturn, StreamOnBuffer, counters
<1>2. ASSUME EIInv, UNCHANGED stage, NothingFound PROVE EIInv'
  <2>1. /\ EmptyBuffer /\ inspectBuffer({})
        /\ UNCHANGED <<stage, counterexample, program, remaining, pipe>>
        /\ \/ java_pc = "check" /\ java_pc' = "read"
           \/ java_pc = "check_rest" /\ java_pc' = "unrefuted"
    BY <1>2 DEF NothingFound, program_vars
  <2>2. heard \cap wrong = {}
    <3>1. heard \cap wrong \subseteq ToSet(buffer)
      BY <1>2, <2>1 DEF EveryTestCompared
    <3>2. \A q \in DOMAIN buffer : buffer[q] \notin wrong
      BY <1>2, <2>1, NothingDiffers DEF ExperimentTypeOK
    <3> QED
      BY <3>1, <3>2 DEF ToSet
  <2>3. ExperimentTypeOK'
    BY <1>1, <1>2, <2>1, BoundAssumption DEF ExperimentTypeOK
  <2>4. TestsAreCounted' /\ StreamOnBuffer' /\ CounterexampleRefutes'
    BY <1>1, <1>2, <2>1 DEF TestsAreCounted, StreamOnBuffer, CounterexampleRefutes
  <2>5. AlphabetInUse' /\ NoProcessLeft'
    BY <1>1, <1>2, <2>1, BoundAssumption DEF AlphabetInUse, NoProcessLeft
  <2>6. EveryTestCompared'
    BY <1>1, <1>2, <2>1, <2>2 DEF EveryTestCompared
  <2> QED
    BY <2>3, <2>4, <2>5, <2>6
<1>3. ASSUME EIInv, UNCHANGED stage, Found PROVE EIInv'
  <2>1. PICK q \in DOMAIN buffer :
          /\ java_pc \in {"check", "check_rest"} /\ EmptyBuffer
          /\ inspectBuffer({q}) /\ counterexample' = buffer[q]
          /\ java_pc' = "returned"
          /\ IF java_pc = "check" THEN Destroy ELSE UNCHANGED program_vars
    BY <1>3 DEF Found
  <2>2. counterexample' \in wrong /\ counterexample' \in Tests
    <3>1. Differs(q)
      BY <2>1 DEF inspectBuffer
    <3> QED
      BY <1>3, <2>1, <3>1 DEF Differs, ExperimentTypeOK
  <2>3. /\ program' \in {"none", "exited"}
        /\ remaining' \subseteq Tests /\ pipe' \in Seq(Tests)
        /\ Len(pipe') <= PipeSize
        /\ TestsAreCounted'
    <3>1. CASE java_pc = "check"
      <4>1. program' = "none" /\ remaining' = {} /\ pipe' = <<>>
        BY <2>1, <3>1 DEF Destroy
      <4>2. queryCount' = queryCount /\ queryCount \in 0 .. MaxBound
        BY <1>1, <1>3, <2>1 DEF ExperimentTypeOK
      <4>3. TestsAreCounted'
        BY <4>1, <4>2, Emptied, FS_EmptySet DEF TestsAreCounted
      <4> QED
        BY <4>1, <4>3, Emptied, PipeAssumption
    <3>2. CASE java_pc = "check_rest"
      BY <1>1, <1>3, <2>1, <3>2
         DEF program_vars, ExperimentTypeOK, TestsAreCounted, NoProcessLeft
    <3> QED
      BY <2>1, <3>1, <3>2
  <2>4. ExperimentTypeOK'
    <3>1. waiting' \cup DOMAIN loaded' \subseteq DOMAIN buffer'
      BY <1>1, <1>3, <2>1
    <3>2. Len(buffer') <= bufferSize
      BY <1>1, <1>3, <2>1, BoundAssumption
    <3>3. buffer' \in Seq(Tests) /\ queries' = queries /\ symbols' = symbols
      BY <1>1, <1>3, <2>1
    <3>4. UNCHANGED <<stage, wrong, currentAlphabet, bound, queryCount, heard>>
      BY <1>1, <1>3, <2>1
    <3> QED
      BY <1>3, <2>2, <2>3, <3>1, <3>2, <3>3, <3>4 DEF ExperimentTypeOK
  <2>5. StreamOnBuffer' /\ AlphabetInUse' /\ CounterexampleRefutes'
    BY <1>1, <1>3, <2>1, <2>2 DEF StreamOnBuffer, AlphabetInUse, CounterexampleRefutes
  <2>6. EveryTestCompared' /\ NoProcessLeft'
    BY <1>1, <1>3, <2>1, <2>3 DEF EveryTestCompared, NoProcessLeft
  <2> QED
    BY <2>3, <2>4, <2>5, <2>6
<1> QED
  BY <1>2, <1>3

-----------------------------------------------------------------------------
(* Theorems.                                                               *)

(* Every step of the experiment keeps the invariant.                       *)
LEMMA ENextIInv == EIInv /\ [ExperimentNext]_experiment_vars => EIInv'
<1> SUFFICES ASSUME EIInv, [ExperimentNext]_experiment_vars PROVE EIInv'
  OBVIOUS
<1>1. CASE JavaStep
  BY <1>1, MainKeepsIInv, AlphabetsKeepIInv, ReadingKeepsIInv, EndsKeepIInv,
     CheckKeepsIInv, OracleKeepsIInv DEF JavaStep, EqStep
<1>2. CASE ProgramStep
  BY <1>2, ProgramKeepsIInv DEF ProgramStep
<1>3. CASE Failure
  BY <1>3, AlphabetsKeepIInv, ProgramKeepsIInv DEF Failure
<1>4. CASE UNCHANGED experiment_vars
  BY <1>4 DEF experiment_vars, eq_vars, oracle_vars, counters, program_vars,
     EIInv, ExperimentTypeOK, TestsAreCounted, StreamOnBuffer, AlphabetInUse,
     CounterexampleRefutes, EveryTestCompared, NoProcessLeft
<1> QED
  BY <1>1, <1>2, <1>3, <1>4 DEF ExperimentNext, Over

(* The inductive invariant holds in every state.                           *)
THEOREM ExperimentInvariance == ExperimentSpec => []EIInv
<1> QED
  BY EInitIInv, ENextIInv, PTL DEF ExperimentSpec

(* The variables keep their types: no alphabet beyond the last is used,    *)
(* the buffer and the pipe stay within their sizes, no more lines are read *)
(* than a suite has tests, and the threads that count symbols only hold    *)
(* queries of the buffer, which is not emptied under them.                 *)
THEOREM ExperimentTypeCorrect == ExperimentSpec => []ExperimentTypeOK
<1>1. EIInv => ExperimentTypeOK
  BY DEF EIInv
<1> QED
  BY <1>1, ExperimentInvariance, PTL

(* Every test that was read, and is refuted by the system, waits in the    *)
(* buffer until it is compared, whatever the suites and the sizes are and  *)
(* wherever a bound, a full buffer or a crash interrupts the reading.      *)
THEOREM TestsAreCompared == ExperimentSpec => []EveryTestCompared
<1>1. EIInv => EveryTestCompared
  BY DEF EIInv
<1> QED
  BY <1>1, ExperimentInvariance, PTL

(* A process is started only when the last one has exited or has been      *)
(* destroyed, and a counterexample is returned only then.                  *)
THEOREM NoProcessIsLeft == ExperimentSpec => []NoProcessLeft
<1>1. EIInv => NoProcessLeft
  BY DEF EIInv
<1> QED
  BY <1>1, ExperimentInvariance, PTL

=============================================================================
