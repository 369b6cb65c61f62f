--------------------------------- MODULE Main ---------------------------------
(***************************************************************************)
(* main (src/main.cpp): the suffixes of SeparatingFamily, the prefixes of  *)
(* TransferSequences and the tests of TestSuite, one after the other, for  *)
(* the machine that reachable_submachine hands over.                       *)
(***************************************************************************)
EXTENDS SeparatingFamily, TestSuite

CONSTANT Arguments   \* the command lines that are tried

VARIABLES
  added, words, all_inputs, transfer_work, u, tried, transfer_pc

transfer_vars == <<added, words, all_inputs, transfer_work, u, tried, transfer_pc>>
own_suite_vars == <<all_sequences, k, todo, test_suite, first_suite, output,
                    random_tests, reader_open, suite_pc>>
program_vars == <<main_vars, transfer_vars, suite_vars>>

ASSUME BoundsAssumption == MaxExtra \in Nat /\ MaxRandomTests \in Nat
ASSUME ArgumentsAssumption ==
  \A a \in Arguments : a \in main_options /\ a.l <= a.k_max

prefix_option ==
  [minimal |-> [q_min |-> 0, q_max |-> 0, randomized |-> TRUE],
   lexmin  |-> [q_min |-> 0, q_max |-> 0, randomized |-> FALSE],
   buggy   |-> [q_min |-> 0, q_max |-> 1, randomized |-> TRUE],
   longest |-> [q_min |-> 1, q_max |-> 1, randomized |-> TRUE]]

Transfer == INSTANCE TransferSequences WITH
  start <- 0, Options <- Range(prefix_option),
  machine <- g, opt <- prefix_option[args.prefix_mode],
  work <- transfer_work, pc <- transfer_pc

no_suffix == args.suffix_mode = "none"

ProgramInit ==
  /\ args \in Arguments
  /\ MainInit /\ use_distinguishing_sequence = (args.suffix_mode = "hads")
  /\ Transfer!Init
  /\ SuiteInit
  /\ specification = g
  /\ prefixes = [s \in State |-> <<>>] /\ separating_family = [s \in State |-> <<>>]

(* What the prefixes wait for, and the family.                             *)
SuffixesReady == no_suffix \/ ads_pc = "returned"
PrefixesReady == transfer_pc = "returned" \/ args.mode = "wset"

(* Without suffixes the two trees are not made at all.                     *)
MakeSuffixes ==
  /\ ~ no_suffix
  /\ ads_pc = "returned" => PrefixesReady
  /\ MainNext
  /\ separating_family' = IF fam_pc' = "returned" THEN family' ELSE separating_family
  /\ UNCHANGED <<specification, prefixes, args, transfer_vars, own_suite_vars>>

MakePrefixes ==
  /\ SuffixesReady /\ args.mode # "wset"
  /\ UNCHANGED <<specification, separating_family, args, main_vars, own_suite_vars>>
  /\ Transfer!Next
  /\ prefixes' = IF transfer_pc' = "returned" THEN words' ELSE prefixes

EmptySuffixes ==
  /\ no_suffix /\ PrefixesReady
  /\ fam_pc = "loop"
  /\ separating_family' = [s \in State |-> << <<>> >>]
  /\ fam_pc' = "returned"
  /\ UNCHANGED <<vars, ads_vars, h_vars, use_distinguishing_sequence, stack, family,
                 specification, prefixes, args, transfer_vars, own_suite_vars>>

MakeTests ==
  /\ fam_pc = "returned"
  /\ Step
  /\ UNCHANGED <<main_vars, transfer_vars>>

ReaderLeaves ==
  /\ CloseOutput
  /\ UNCHANGED <<main_vars, transfer_vars>>

Program == MakeSuffixes \/ MakePrefixes \/ EmptySuffixes \/ MakeTests

ProgramNext == Program \/ ReaderLeaves

ProgramSpec == ProgramInit /\ [][ProgramNext]_program_vars

(* A random test that meets the closed output.  Every word that is not in  *)
(* the trie is drawn again and again with some probability.                *)
FailingRandomTest ==
  /\ fam_pc = "returned" /\ ~ reader_open
  /\ RandomTest /\ ~ cout_ok'
  /\ UNCHANGED <<main_vars, transfer_vars>>

ProgramFairness ==
  WF_program_vars(Program) /\ SF_program_vars(FailingRandomTest)

ProgramFairSpec == ProgramSpec /\ ProgramFairness

-----------------------------------------------------------------------------
(* What all parts together are for.                                        *)

(* Implementations of n states: complete and deterministic, with the       *)
(* alphabets of the specification.                                         *)
Implementations(n) == [0 .. n - 1 -> [Input -> [to : 0 .. n - 1, out : Output]]]

(* The implementation answers the test as the specification does.          *)
Passes(impl, w) ==
  \A j \in 1 .. Len(w) : applyWord(impl, 0, SubSeq(w, 1, j)).out = out(0, SubSeq(w, 1, j))

(* A relation that holds at the start, and that no input leaves or tells.  *)
EquivalentTo(impl) ==
  \E R \in SUBSET ((DOMAIN impl) \X State) :
    /\ <<0, 0>> \in R
    /\ \A p \in R, a \in Input :
         /\ impl[p[1]][a].out = g[p[2]][a].out
         /\ <<impl[p[1]][a].to, g[p[2]][a].to>> \in R

(* The program ended by itself and gave all tests that belong to k_max.    *)
FixedPartDelivered ==
  args.mode = "fixed" /\ ~ no_suffix /\ suite_pc = "returned" /\ reader_open

(* An implementation that passes is equivalent to the specification or has *)
(* at least k_max more states.                                             *)
Guarantee ==
  \A n \in 1 .. N + args.k_max - 1 : \A impl \in Implementations(n) :
    (\A w \in printed : Passes(impl, w)) => EquivalentTo(impl)

(* "If the implementation passes the test suite, then it is guaranteed to  *)
(* be equivalent or to have at least k more states", for a specification   *)
(* without equivalent states.                                              *)
SuiteIsComplete == FixedPartDelivered /\ Minimal(g) => Guarantee

=============================================================================
