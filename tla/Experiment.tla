----------------------------- MODULE Experiment -----------------------------
(***************************************************************************)
(* The experiment of java/Main.java: a learner makes hypotheses, and the   *)
(* equivalence oracle looks for counterexamples with the help of the       *)
(* external program and of the oracle that counts.                         *)
(***************************************************************************)
EXTENDS EquivalenceOracle

CONSTANT LastStage   \* bound: the learner has the right hypothesis then

ASSUME StageAssumption == LastStage \in Nat

VARIABLE stage

experiment_vars == <<stage, wrong, eq_vars, oracle_vars, program_vars>>

(* What the learner comes up with, at first and after a counterexample.    *)
Hypothesis(n) == IF n >= LastStage THEN {{}} ELSE SUBSET Tests

ExperimentInit ==
  /\ stage = 0
  /\ wrong \in Hypothesis(0)
  /\ EqInit /\ OracleInit /\ NoProgram
  /\ java_pc = "log"

(* The counters are printed and reset; findCounterExample is called.       *)
LogStage ==
  /\ java_pc = "log"
  /\ logAndReset
  /\ java_pc' = "alphabet"
  /\ UNCHANGED <<stage, wrong, currentAlphabet, bound, buffer, queryCount,
                 counterexample, heard, program_vars>>

(* findCounterExample has returned.                                        *)
Refine ==
  /\ java_pc = "returned"
  /\ IF counterexample = NoTest
       THEN java_pc' = "done" /\ UNCHANGED <<stage, wrong, heard>>
       ELSE /\ stage' = stage + 1
            /\ wrong' \in Hypothesis(stage')
            /\ heard' = {}
            /\ java_pc' = "log"
  /\ counterexample' = NoTest
  /\ UNCHANGED <<currentAlphabet, bound, buffer, queryCount, oracle_vars,
                 program_vars>>

(* The thread of main, and those of the stream while it waits for them.    *)
JavaStep ==
  \/ LogStage \/ Refine
  \/ EqStep /\ UNCHANGED stage
  \/ OracleStep /\ UNCHANGED <<stage, wrong, eq_vars, program_vars>>

ProgramStep ==
  ProgramProgress /\ UNCHANGED <<stage, wrong, eq_vars, oracle_vars>>

(* What may go wrong, and need not.                                        *)
Failure ==
  \/ SetUpFails /\ UNCHANGED stage
  \/ Crash /\ UNCHANGED <<stage, wrong, eq_vars, oracle_vars>>

Over == java_pc = "thrown" /\ UNCHANGED experiment_vars

ExperimentNext == JavaStep \/ ProgramStep \/ Failure \/ Over

ExperimentSpec ==
  /\ ExperimentInit /\ [][ExperimentNext]_experiment_vars
  /\ WF_experiment_vars(JavaStep) /\ WF_experiment_vars(ProgramStep)

-----------------------------------------------------------------------------
(* The types of the variables.                                             *)
ExperimentTypeOK ==
  /\ stage \in 0 .. LastStage /\ wrong \subseteq Tests
  /\ currentAlphabet \in 0 .. Len(Suites)
  /\ bound \in Nat /\ queryCount \in 0 .. MaxBound
  /\ buffer \in Seq(Tests) /\ Len(buffer) <= bufferSize
  /\ counterexample \in Tests \cup {NoTest}
  /\ heard \subseteq Tests
  /\ queries \in 0 .. MaxCount /\ symbols \in 0 .. MaxCount
  /\ waiting \cup DOMAIN loaded \subseteq DOMAIN buffer
  /\ program \in {"none", "reading", "printing", "closed", "exited"}
  /\ remaining \subseteq Tests /\ pipe \in Seq(Tests) /\ Len(pipe) <= PipeSize

(* "We want to process the buffer": a test that was read and refutes the   *)
(* hypothesis waits in the buffer until it is found, whether the bound was *)
(* reached, the buffer was full or the program ended; nothing is left in   *)
(* the buffer for another alphabet, another bound or another hypothesis.   *)
EveryTestCompared ==
  /\ java_pc \notin {"returned", "done", "thrown"} =>
       heard \cap wrong \subseteq ToSet(buffer)
  /\ java_pc \in {"log", "alphabet", "write", "returned"} => buffer = <<>>

(* No process runs on without anybody looking at it: a process is started, *)
(* and a counterexample returned, only after the last process has exited   *)
(* or was destroyed.                                                       *)
NoProcessLeft ==
  java_pc \in {"log", "alphabet", "unrefuted", "check_rest", "returned"} =>
    program \in {"none", "exited"}

(* A wrong hypothesis is refuted, unless something fails: whatever the     *)
(* order of the tests, the alphabets are tried again with bounds that grow *)
(* until all tests of one that refutes it have been asked.                 *)
EventuallyRefuted ==
  (java_pc = "alphabet" /\ wrong # {}) ~> java_pc \in {"returned", "thrown"}

(* "This method might throw a RuntimeException if the external program     *)
(* crashes (which it shouldn't of course), or if the communication went    *)
(* wrong": a program that ends normally is no reason to.                   *)
ThrowsOnlyOnFailure ==
  [][java_pc = "ended" /\ java_pc' = "thrown" => exit_value # 0]_experiment_vars

(* "An membership oracle which maintains a count of the number of queries  *)
(* (and symbols)": with queries of one symbol the two are equal when they  *)
(* are printed.                                                            *)
SymbolsCounted == java_pc = "log" => symbols = queries

(* "If the external program exits (with value 0), then no counterexample   *)
(* is found, and the hypothesis is correct": main then leaves its loop     *)
(* ("Done with learning, no counter example found").                       *)
DoneWhenCorrect == wrong = {} ~> java_pc \in {"done", "thrown"}

=============================================================================
