-------------------------- MODULE EquivalenceOracle --------------------------
(***************************************************************************)
(* YannakakisEQOracle (java/YannakakisEQOracle.java): findCounterExample   *)
(* runs the external program for one alphabet after the other, with a      *)
(* bound on the number of tests that grows, and compares what the system   *)
(* answers to these tests with the hypothesis.                             *)
(*                                                                         *)
(* All of the hypothesis that matters is the set of tests it is wrong on.  *)
(***************************************************************************)
EXTENDS ExternalProgram, CountingOracle

CONSTANTS
  FirstBound, boundFactor, bufferSize,   \* 100, 10 and 100
  MaxBound    \* bound: no suite is larger, and bound is not raised any more

ASSUME BoundAssumption ==
  /\ FirstBound \in Nat \ {0} /\ boundFactor \in Nat /\ boundFactor > 1
  /\ bufferSize \in Nat \ {0} /\ MaxBound \in Nat
  /\ \A n \in DOMAIN Suites : Cardinality(Suites[n]) <= MaxBound

NoTest == "none"    \* null

VARIABLES
  wrong,             \* the tests on which machine and system differ
  currentAlphabet, bound, buffer, queryCount,
  counterexample,
  heard,             \* history: the tests read since the hypothesis is there
  java_pc            \* where the only thread is, see the actions

eq_vars == <<currentAlphabet, bound, buffer, queryCount, counterexample, heard,
             java_pc>>

EqInit ==
  /\ currentAlphabet = 0
  /\ bound = FirstBound
  /\ buffer = <<>>
  /\ queryCount = 0
  /\ counterexample = NoTest
  /\ heard = {}

-----------------------------------------------------------------------------
(* The loop over the alphabets.                                            *)
SetUp ==
  /\ java_pc = "alphabet" /\ currentAlphabet < Len(Suites)
  /\ Start(currentAlphabet + 1)
  /\ queryCount' = 0
  /\ java_pc' = "write"
  /\ UNCHANGED <<wrong, oracle_vars, currentAlphabet, bound, buffer,
                 counterexample, heard>>

SetUpFails ==
  /\ java_pc = "alphabet" /\ currentAlphabet < Len(Suites)
  /\ java_pc' = "thrown"
  /\ UNCHANGED <<wrong, oracle_vars, program_vars, currentAlphabet, bound,
                 buffer, queryCount, counterexample, heard>>

(* Mutant: the next round is no longer than this one.                      *)
RaiseNothing == bound

Raised == IF bound >= MaxBound THEN bound ELSE bound * boundFactor

RaiseBound ==
  /\ java_pc = "alphabet" /\ currentAlphabet = Len(Suites)
  /\ currentAlphabet' = 0
  /\ bound' = Raised
  /\ UNCHANGED <<wrong, oracle_vars, program_vars, buffer, queryCount,
                 counterexample, heard, java_pc>>

(* findCounterExampleImpl has returned null: the rest of the buffer is     *)
(* checked before the alphabet changes.                                    *)
CheckRest ==
  /\ java_pc = "unrefuted" /\ buffer # <<>>
  /\ BeginQueries(buffer)
  /\ java_pc' = "check_rest"
  /\ UNCHANGED <<wrong, program_vars, currentAlphabet, bound, buffer, queryCount,
                 counterexample, heard>>

(* Mutant: the rest of the buffer is left for later.                       *)
NextAlphabetAtOnce ==
  /\ java_pc = "unrefuted"
  /\ currentAlphabet' = currentAlphabet + 1
  /\ java_pc' = "alphabet"
  /\ UNCHANGED <<wrong, oracle_vars, program_vars, bound, buffer, queryCount,
                 counterexample, heard>>

NextAlphabet ==
  /\ java_pc = "unrefuted" /\ buffer = <<>>
  /\ currentAlphabet' = currentAlphabet + 1
  /\ java_pc' = "alphabet"
  /\ UNCHANGED <<wrong, oracle_vars, program_vars, bound, buffer, queryCount,
                 counterexample, heard>>

-----------------------------------------------------------------------------
(* findCounterExampleImpl.                                                 *)
WriteHypothesis ==
  /\ java_pc = "write"
  /\ Receive
  /\ java_pc' = "read"
  /\ UNCHANGED <<wrong, oracle_vars, currentAlphabet, bound, buffer, queryCount,
                 counterexample, heard>>

(* The program has crashed: the pipe to it is broken, or took everything   *)
(* before.                                                                 *)
WriteToNobody ==
  /\ java_pc = "write" /\ program # "reading"
  /\ java_pc' \in {"thrown", "read"}
  /\ UNCHANGED <<wrong, oracle_vars, program_vars, currentAlphabet, bound,
                 buffer, queryCount, counterexample, heard>>

(* One line is read and becomes a query.                                   *)
ReadQuery ==
  /\ java_pc = "read" /\ pipe # <<>>
  /\ buffer' = Append(buffer, Head(pipe))
  /\ heard' = heard \cup {Head(pipe)}
  /\ queryCount' = queryCount + 1
  /\ UNCHANGED <<wrong, currentAlphabet, bound, counterexample>>

ReadLine == pipe' = Tail(pipe) /\ UNCHANGED <<program, remaining, exit_value>>

(* Mutant: the process is left behind.                                     *)
BoundReachedLeaving ==
  /\ ReadQuery
  /\ queryCount' > bound
  /\ ReadLine
  /\ java_pc' = "unrefuted"
  /\ UNCHANGED oracle_vars

(* "Bound is reached": this query is still in the buffer.                  *)
BoundReached ==
  /\ ReadQuery
  /\ queryCount' > bound
  /\ Destroy
  /\ java_pc' = "unrefuted"
  /\ UNCHANGED oracle_vars

(* Mutant: the size of the buffer is not looked at.                        *)
NeverFull == bound <= bufferSize

BufferFull == Len(buffer') >= bufferSize \/ bound <= bufferSize

FillBuffer ==
  /\ ReadQuery
  /\ queryCount' <= bound /\ ~ BufferFull
  /\ ReadLine
  /\ UNCHANGED <<oracle_vars, java_pc>>

CheckBuffer ==
  /\ ReadQuery
  /\ queryCount' <= bound /\ BufferFull
  /\ ReadLine
  /\ BeginQueries(buffer')
  /\ java_pc' = "check"

EndOfStream ==
  /\ java_pc = "read" /\ pipe = <<>>
  /\ program \in {"closed", "exited"}
  /\ java_pc' = "ended"
  /\ UNCHANGED <<wrong, oracle_vars, program_vars, currentAlphabet, bound,
                 buffer, queryCount, counterexample, heard>>

(* The program ended normally.                                             *)
ExitedNormally ==
  /\ java_pc = "ended"
  /\ program = "exited" /\ exit_value = 0
  /\ java_pc' = "unrefuted"
  /\ UNCHANGED <<wrong, oracle_vars, program_vars, currentAlphabet, bound,
                 buffer, queryCount, counterexample, heard>>

(* isAlive() still holds, or the exit value is not 0.                      *)
ExitedBadly ==
  /\ java_pc = "ended"
  /\ program # "exited" \/ exit_value # 0
  /\ Destroy
  /\ java_pc' = "thrown"
  /\ UNCHANGED <<wrong, oracle_vars, currentAlphabet, bound, buffer, queryCount,
                 counterexample, heard>>

-----------------------------------------------------------------------------
(* checkAndEmptyBuffer, when the oracle has answered all queries.          *)
Differs(q) == buffer[q] \in wrong

(* Mutant: only the first query of the buffer is looked at.                *)
InspectFirst(found) == found = IF Differs(1) THEN {1} ELSE {}

(* The place of the first query that is answered differently.              *)
inspectBuffer(found) ==
  found = {q \in DOMAIN buffer : Differs(q) /\ \A p \in 1 .. q - 1 : ~ Differs(p)}

EmptyBuffer ==
  /\ QueriesReturn
  /\ buffer' = <<>>
  /\ UNCHANGED <<wrong, currentAlphabet, bound, queryCount, heard>>

NothingFound ==
  /\ java_pc \in {"check", "check_rest"}
  /\ EmptyBuffer
  /\ inspectBuffer({})
  /\ java_pc' = IF java_pc = "check" THEN "read" ELSE "unrefuted"
  /\ UNCHANGED <<counterexample, program_vars>>

(* While the program runs everything is closed, afterwards it is already.  *)
Found == \E q \in DOMAIN buffer :
  /\ java_pc \in {"check", "check_rest"}
  /\ EmptyBuffer
  /\ inspectBuffer({q})
  /\ counterexample' = buffer[q]
  /\ java_pc' = "returned"
  /\ IF java_pc = "check" THEN Destroy ELSE UNCHANGED program_vars

EqStep ==
  \/ SetUp \/ RaiseBound \/ CheckRest \/ NextAlphabet
  \/ WriteHypothesis \/ WriteToNobody
  \/ BoundReached \/ FillBuffer \/ CheckBuffer \/ EndOfStream
  \/ ExitedNormally \/ ExitedBadly
  \/ NothingFound \/ Found

=============================================================================
