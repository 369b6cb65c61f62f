-------------------------------- MODULE MCMain --------------------------------
(***************************************************************************)
(* Instances of Main for TLC.                                              *)
(***************************************************************************)
EXTENDS Main, MCMachines

(* The machines are such as reachable_submachine hands over.               *)
ASSUME ReachedAssumption == \A m \in Machines : ReachesAll(m)

RandomizedLeeYannakakis == {randomized_lee_yannakakis_style}

(* With random infixes that grow, without them, and with a number of which *)
(* an int keeps nothing.                                                   *)
RandomLine(m, p, f, e, i, r, d) ==
  [mode |-> m, prefix_mode |-> p, suffix_mode |-> f, k_max |-> e, l |-> i,
   rnd_length |-> r, skip_dup |-> d]
CommandLine(m, p, f, e, i, d) == RandomLine(m, p, f, e, i, 1, d)

(* Machines that answer something else to the first input only.            *)
OneVoiceOnly(m) == \A s \in State, a \in Input \ {0} : m[s][a].out = 0

(* And only in the last state, which goes back to the start.               *)
OneVoiceAtTheEnd(m) ==
  /\ OneVoiceOnly(m)
  /\ \A s \in State : m[s][0].out = 1 <=> s = N - 1
  /\ \A a \in Input : m[N - 1][a].to = 0

(* The fixed part with ways to cut it in two, with and without the filter, *)
(* and up to one state more, for all machines; the other modes for a few   *)
(* machines, and with a reader that may stop.                              *)
FixedArguments ==
  {CommandLine("fixed", "minimal", "hads", 0, 0, TRUE),
   CommandLine("fixed", "minimal", "hads", 1, 0, TRUE),
   CommandLine("fixed", "minimal", "hsi", 2, 1, TRUE),
   CommandLine("fixed", "minimal", "hsi", 2, 0, FALSE)}
OtherArguments ==
  {CommandLine("all", "longest", "hads", 1, 0, TRUE),
   CommandLine("all", "longest", "hsi", 1, 0, FALSE),
   CommandLine("all", "buggy", "none", 0, 0, FALSE),
   CommandLine("random", "lexmin", "hsi", 1, 0, TRUE),
   RandomLine("random", "minimal", "hsi", 1, 0, 0, TRUE),
   RandomLine("random", "minimal", "none", 1, 0, IntValues, TRUE),
   CommandLine("wset", "minimal", "hads", 1, 0, TRUE)}
AllModes == FixedArguments \cup OtherArguments

(* The reader stops, and fairness is needed, with the other arguments only.*)
Other(A) == args \in OtherArguments /\ A
ModesInit == ProgramInit /\ (Other(TRUE) => OneVoiceAtTheEnd(g))
ModesNext == Program \/ Other(ReaderLeaves)
ModesSpec ==
  /\ ModesInit
  /\ [][ModesNext]_program_vars
  /\ WF_program_vars(Other(Program)) /\ SF_program_vars(FailingRandomTest)

(* Random tests of one length, for the machines of the other modes.        *)
WithoutCoin == {RandomLine("random", "minimal", "hsi", 1, 0, 0, TRUE)}
EndingMachines == {m \in AllMachines : OneVoiceAtTheEnd(m)}

(* The last state can go back to the start.                                *)
GoesBack(m) == \E a \in Input : m[N - 1][a].to = 0

(* The family with the decision tree for these machines and those with one *)
(* voice, without it for the latter; all tests for a few; and a reader     *)
(* that stays.                                                             *)
FamilyArguments ==
  {CommandLine("wset", "minimal", "hsi", 1, 0, TRUE),
   CommandLine("wset", "minimal", "hads", 1, 0, TRUE),
   CommandLine("fixed", "minimal", "hads", 1, 0, TRUE)}

FamilyInit ==
  /\ ProgramInit
  /\ OneVoiceOnly(g) \/ (GoesBack(g) /\ args.suffix_mode = "hads")
  /\ args.mode = "fixed" => OneVoiceAtTheEnd(g) /\ Minimal(g)
FamilyNext ==
  MakeSuffixes \/ MakePrefixes \/ (args.mode = "fixed" /\ MakeTests)
FamilySpec == FamilyInit /\ [][FamilyNext]_program_vars

=============================================================================
