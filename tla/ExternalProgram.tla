--------------------------- MODULE ExternalProgram ---------------------------
(***************************************************************************)
(* The external program that the equivalence oracle starts, seen through   *)
(* java.lang.Process: it reads a hypothesis, prints its tests into a pipe, *)
(* and ends.  Which program it is does not matter here; it may crash, and  *)
(* between the end of its output and its own end some time may pass.       *)
(***************************************************************************)
EXTENDS Integers, SequencesExt

CONSTANTS
  Suites,     \* the tests it prints, for each of the alphabets
  PipeSize    \* how many lines the pipe holds

Tests == UNION Range(Suites)

ASSUME SuitesAssumption ==
  /\ Suites \in Seq(SUBSET Tests) /\ Len(Suites) > 0
  /\ \A n \in DOMAIN Suites : IsFiniteSet(Suites[n])
ASSUME PipeAssumption == PipeSize \in Nat \ {0}

VARIABLES
  program,     \* "none", "reading", "printing", "closed", "exited"
  remaining,   \* the tests that are not printed yet
  pipe,        \* printed, and not read
  exit_value

program_vars == <<program, remaining, pipe, exit_value>>

NoProgram ==
  /\ program = "none"
  /\ remaining = {}
  /\ pipe = <<>>
  /\ exit_value = 0

(* pb.start().                                                             *)
Start(alphabet) ==
  /\ program' = "reading"
  /\ remaining' = Suites[alphabet]
  /\ pipe' = <<>>
  /\ exit_value' = 0

(* process.destroy(), and nobody looks at the process any more.            *)
Destroy ==
  /\ program' = "none"
  /\ remaining' = {}
  /\ pipe' = <<>>
  /\ exit_value' = 0

(* It has read the hypothesis.                                             *)
Receive ==
  /\ program = "reading"
  /\ program' = "printing"
  /\ UNCHANGED <<remaining, pipe, exit_value>>

PrintTest == \E w \in remaining :
  /\ program = "printing"
  /\ Len(pipe) < PipeSize
  /\ pipe' = Append(pipe, w)
  /\ remaining' = remaining \ {w}
  /\ UNCHANGED <<program, exit_value>>

(* All is printed: the output is closed on the way out.                    *)
CloseStream ==
  /\ program = "printing"
  /\ remaining = {}
  /\ program' = "closed"
  /\ UNCHANGED <<remaining, pipe, exit_value>>

Crash ==
  /\ program \in {"reading", "printing"}
  /\ program' = "closed"
  /\ exit_value' = 1
  /\ UNCHANGED <<remaining, pipe>>

Exit ==
  /\ program = "closed"
  /\ program' = "exited"
  /\ UNCHANGED <<remaining, pipe, exit_value>>

ProgramProgress == PrintTest \/ CloseStream \/ Exit

=============================================================================
