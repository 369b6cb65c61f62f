------------------------------ MODULE TestSuite ------------------------------
(***************************************************************************)
(* test and randomized_test (lib/test_suite.cpp) with the writers main     *)
(* gives them: a finite part, of which the tests up to an infix of length  *)
(* l are collected in a trie first and the others are printed as they are  *)
(* made, and an infinite part of random tests.                             *)
(*                                                                         *)
(* A test is a word: a prefix that leads to a state, an infix, and a       *)
(* suffix of the family of the state they lead to.  One step deals with    *)
(* one test.  Whoever reads the output may stop reading at any time.       *)
(***************************************************************************)
EXTENDS Mealy, Trie

CONSTANTS
  IntValues,       \* how many values an int has
  MaxExtra,        \* bound: symbols of a random infix beyond min_k
  MaxRandomTests   \* bound: random tests while somebody reads

ASSUME IntAssumption == IntValues \in Nat \ {0}

VARIABLES
  specification, prefixes, separating_family, args,   \* the arguments
  all_sequences,   \* mid_sequences in main: all infixes of the length k
  k,               \* the loop variable of the current call of test
  todo,            \* the tests of this k that are still to be made, in order
  test_suite,      \* the trie
  first_suite,     \* its words that are still to be printed
  printed,         \* the lines that were printed, and
  lines,           \* how many these were
  random_tests,    \* how many random tests were made, for the bound
  cout_ok,         \* bool(cout)
  reader_open,     \* somebody still reads the output
  suite_pc         \* "start", "first", "print", "second", "random", "returned"

arguments == <<specification, prefixes, separating_family, args>>
output    == <<printed, lines, cout_ok>>
suite_vars == <<arguments, all_sequences, k, todo, test_suite, first_suite,
                output, random_tests, reader_open, suite_pc>>

(* The options of the command line; parse_options lowers l to k_max.       *)
main_options ==
  [mode : {"all", "fixed", "random", "wset"},
   prefix_mode : {"minimal", "lexmin", "buggy", "longest"},
   suffix_mode : {"hsi", "hads", "none"},
   k_max : Nat, l : Nat, rnd_length : Nat, skip_dup : BOOLEAN]

fixed_part  == args.mode \in {"all", "fixed"}
random_part == args.mode \in {"all", "random"}

-----------------------------------------------------------------------------
(* "extends all words in seqs by all input symbols".                       *)
all_seqs(seqs) ==
  FlattenSeq([n \in DOMAIN seqs |-> [a \in 1 .. P |-> Append(seqs[n], a - 1)]])

state_after(s, w) == applyWord(specification, s, w).to

(* Mutant: the suffixes of the state the prefix leads to.                  *)
TestsOfPrefix(seqs) ==
  FlattenSeq([n \in 1 .. N |-> FlattenSeq([m \in DOMAIN seqs |->
    LET suffixes == separating_family[n - 1]
    IN  [j \in DOMAIN suffixes |-> prefixes[n - 1] \o seqs[m] \o suffixes[j]]])])

(* The tests of one turn of the loop over k, in the order of the loops.    *)
Tests(seqs) ==
  FlattenSeq([n \in 1 .. N |-> FlattenSeq([m \in DOMAIN seqs |->
    LET suffixes == separating_family[state_after(n - 1, seqs[m])]
    IN  [j \in DOMAIN suffixes |-> prefixes[n - 1] \o seqs[m] \o suffixes[j]]])])

-----------------------------------------------------------------------------
(* output_word: endl flushes, so a failure shows with the line it hits.    *)
Write(w) ==
  /\ cout_ok' = (cout_ok /\ reader_open)
  /\ IF cout_ok'
       THEN printed' = printed \cup {w} /\ lines' = lines + 1
       ELSE UNCHANGED <<printed, lines>>

(* Mutant: what is printed does not go into the trie.                      *)
PrintIfNewOnly(w) ==
  /\ UNCHANGED test_suite
  /\ IF ~ args.skip_dup \/ IsNew(test_suite, w) THEN Write(w) ELSE UNCHANGED output

(* The writer of the second call and of the random part.                   *)
PrintUnlessOld(w) ==
  /\ test_suite' = IF args.skip_dup THEN insert(test_suite, w) ELSE test_suite
  /\ IF ~ args.skip_dup \/ IsNew(test_suite, w) THEN Write(w) ELSE UNCHANGED output

-----------------------------------------------------------------------------
SuiteInit ==
  /\ all_sequences = << <<>> >>
  /\ k = 0
  /\ todo = <<>>
  /\ test_suite = clear
  /\ first_suite = <<>>
  /\ printed = {}
  /\ lines = 0
  /\ random_tests = 0
  /\ cout_ok = TRUE
  /\ reader_open = TRUE
  /\ suite_pc = "start"

(* Mutant: the lengths of the first call are not taken off.                *)
FullLimit == IF suite_pc = "first" THEN args.l + 1 ELSE args.k_max

(* k_max of the first call of test, and of the second.                     *)
Limit == IF suite_pc = "first" THEN args.l + 1 ELSE args.k_max - args.l

AfterFixed == IF random_part THEN "random" ELSE "returned"

StartTests ==
  /\ suite_pc = "start"
  /\ args.mode # "wset"
  /\ IF fixed_part
       THEN suite_pc' = "first" /\ todo' = Tests(all_sequences)
       ELSE suite_pc' = "random" /\ UNCHANGED todo
  /\ UNCHANGED <<arguments, all_sequences, k, test_suite, first_suite, output,
                 random_tests, reader_open>>

(* Mode wset: all suffixes of all states, without prefixes of others.      *)
StartWset ==
  /\ suite_pc = "start"
  /\ args.mode = "wset"
  /\ test_suite' = insert_all(
                     FlattenSeq([n \in 1 .. N |-> separating_family[n - 1]]))
  /\ first_suite' = flatten(test_suite')
  /\ suite_pc' = "print"
  /\ UNCHANGED <<arguments, all_sequences, k, todo, output, random_tests,
                 reader_open>>

(* The writer of the first call never fails.                               *)
CollectTest ==
  /\ suite_pc = "first"
  /\ todo # <<>>
  /\ test_suite' = insert(test_suite, Head(todo))
  /\ todo' = Tail(todo)
  /\ UNCHANGED <<arguments, all_sequences, k, first_suite, output, random_tests,
                 reader_open, suite_pc>>

(* The end of a turn of the loop over k: the infixes grow, also after the  *)
(* last turn, and the second call goes on with them.                       *)
NextLength ==
  /\ suite_pc \in {"first", "second"}
  /\ todo = <<>>
  /\ k < Limit
  /\ all_sequences' = all_seqs(all_sequences)
  /\ k' = k + 1
  /\ todo' = IF k' < Limit THEN Tests(all_sequences') ELSE <<>>
  /\ UNCHANGED <<arguments, test_suite, first_suite, output, random_tests,
                 reader_open, suite_pc>>

LeaveFirst ==
  /\ suite_pc = "first"
  /\ todo = <<>> /\ k = Limit
  /\ first_suite' = flatten(test_suite)
  /\ suite_pc' = "print"
  /\ UNCHANGED <<arguments, all_sequences, k, todo, test_suite, output,
                 random_tests, reader_open>>

(* The collected tests are shuffled, but for wset; whether they arrive is  *)
(* not looked at.                                                          *)
PrintCollected ==
  /\ suite_pc = "print"
  /\ \E n \in DOMAIN first_suite :
       /\ args.mode = "wset" => n = 1
       /\ Write(first_suite[n])
       /\ first_suite' = RemoveAt(first_suite, n)
  /\ UNCHANGED <<arguments, all_sequences, k, todo, test_suite, random_tests,
                 reader_open, suite_pc>>

LeavePrint ==
  /\ suite_pc = "print"
  /\ first_suite = <<>>
  /\ k' = 0
  /\ suite_pc' = IF args.mode = "wset" THEN "returned" ELSE "second"
  /\ todo' = IF suite_pc' = "second" /\ args.l < args.k_max
               THEN Tests(all_sequences) ELSE <<>>
  /\ UNCHANGED <<arguments, all_sequences, test_suite, first_suite, output,
                 random_tests, reader_open>>

(* The function returns at once when the output is gone.                   *)
StreamTest ==
  /\ suite_pc = "second"
  /\ todo # <<>>
  /\ PrintUnlessOld(Head(todo))
  /\ todo' = Tail(todo)
  /\ suite_pc' = IF cout_ok' THEN suite_pc ELSE AfterFixed
  /\ UNCHANGED <<arguments, all_sequences, k, first_suite, random_tests,
                 reader_open>>

LeaveSecond ==
  /\ suite_pc = "second"
  /\ todo = <<>> /\ k = Limit
  /\ suite_pc' = AfterFixed
  /\ UNCHANGED <<arguments, all_sequences, k, todo, test_suite, first_suite,
                 output, random_tests, reader_open>>

(* Random infixes start where those of the fixed part end.                 *)
min_k == IF fixed_part THEN args.k_max + 1 ELSE 0

(* The sides of the coin; its parameter is an int, so the length loses its *)
(* higher bits.                                                            *)
unfair_coin == 0 .. args.rnd_length % IntValues

(* An infix goes on as long as the coin shows another side than 0.  If it  *)
(* has none, all infixes are of the same length; otherwise there is no     *)
(* longest one, but for the bound.                                         *)
max_length == IF unfair_coin = {0} THEN min_k ELSE min_k + MaxExtra

Infixes == UNION {[1 .. n -> Input] : n \in min_k .. max_length}

(* Any prefix, any infix, and any suffix of the state that they lead to.   *)
RandomTests ==
  UNION {LET t == state_after(state_after(0, prefixes[s]), middle)
         IN  {prefixes[s] \o middle \o suffix : suffix \in ToSet(separating_family[t])} :
           s \in State, middle \in Infixes}

(* Mutant: the result of reset is not looked at.                           *)
RandomTestForEver ==
  /\ suite_pc = "random"
  /\ reader_open => random_tests < MaxRandomTests
  /\ \E w \in RandomTests : PrintUnlessOld(w)
  /\ random_tests' = IF reader_open THEN random_tests + 1 ELSE random_tests
  /\ UNCHANGED <<arguments, all_sequences, k, todo, first_suite, reader_open,
                 suite_pc>>

RandomTest ==
  /\ suite_pc = "random"
  /\ reader_open => random_tests < MaxRandomTests
  /\ \E w \in RandomTests : PrintUnlessOld(w)
  /\ random_tests' = IF reader_open THEN random_tests + 1 ELSE random_tests
  /\ suite_pc' = IF cout_ok' THEN suite_pc ELSE "returned"
  /\ UNCHANGED <<arguments, all_sequences, k, todo, first_suite, reader_open>>

(* The reader: in use, the learner that has found a counterexample.  That  *)
(* it stops before the tests are started is the same as right after.       *)
CloseOutput ==
  /\ reader_open
  /\ suite_pc \notin {"start", "returned"}
  /\ reader_open' = FALSE
  /\ UNCHANGED <<arguments, all_sequences, k, todo, test_suite, first_suite,
                 output, random_tests, suite_pc>>

Step ==
  \/ StartTests \/ StartWset \/ CollectTest \/ NextLength \/ LeaveFirst
  \/ PrintCollected \/ LeavePrint \/ StreamTest \/ LeaveSecond \/ RandomTest

SuiteNext == Step \/ CloseOutput

(* The calls, with the arguments that main passes to them.                 *)
SuiteArguments ==
  /\ specification \in Machine
  /\ prefixes \in [State -> Word]
  /\ separating_family \in [State -> Seq(Word)]
  /\ args \in main_options /\ args.l <= args.k_max

SuiteSpec == SuiteInit /\ SuiteArguments /\ [][SuiteNext]_suite_vars

-----------------------------------------------------------------------------
(* Types.                                                                  *)
SuiteTypeOK ==
  /\ SuiteArguments
  /\ all_sequences \in Seq(Word) /\ todo \in Seq(Word)
  /\ k \in 0 .. args.k_max + 1
  /\ suite_pc \in {"first", "second"} => k <= Limit
  /\ DOMAIN test_suite \subseteq Word /\ WellFormed(test_suite)
  /\ first_suite \in Seq(Word)
  /\ printed \subseteq Word /\ lines \in Nat
  /\ random_tests \in 0 .. MaxRandomTests
  /\ cout_ok \in BOOLEAN /\ reader_open \in BOOLEAN
  /\ suite_pc \in {"start", "first", "print", "second", "random", "returned"}

(* The tests of the HSI method: everything up to the length k_max.         *)
AllTests ==
  UNION {{prefixes[s] \o m \o w : w \in ToSet(separating_family[state_after(s, m)])} :
           s \in State, m \in UNION {[1 .. n -> Input] : n \in 0 .. args.k_max}}

(* The fixed part is the same wherever l cuts it in two and whether tests  *)
(* are filtered or not: no length of infixes is left out between the two   *)
(* calls of test, none is tested beyond k_max, and no test is dropped that *)
(* is not the beginning of one that is printed.                            *)
FixedPartIsWhole ==
  args.mode = "fixed" /\ suite_pc = "returned" /\ cout_ok =>
    PrefixClosure(printed) = PrefixClosure(AllTests)

(* What the trie knows is what was or will be printed, as long as that is  *)
(* possible: the filter never takes a test for a duplicate that nobody     *)
(* saw, no line is printed twice, and no collected test is the beginning   *)
(* of another ("used to remove prefixes in a set of words").               *)
TrieIsOutput ==
  args.skip_dup /\ cout_ok /\ suite_pc \notin {"start", "first"} =>
    LET given == printed \cup ToSet(first_suite)
    IN  /\ DOMAIN test_suite = PrefixClosure(given)
        /\ lines + Len(first_suite) = Cardinality(given)
        /\ suite_pc = "print" => \A v, w \in given : IsPrefix(v, w) => v = w

(* The filter knows all random tests there are.                            *)
AllKnown ==
  /\ suite_pc = "random" /\ args.skip_dup /\ unfair_coin = {0}
  /\ \A w \in RandomTests : ~ IsNew(test_suite, w)

(* The program ends after its output was closed, although it finds out     *)
(* only when it prints, and does not look at all while it prints the       *)
(* collected tests.  Only if infixes cannot grow may it miss the closing,  *)
(* and only by having made all random tests before.                        *)
StopsWhenClosed == ~ reader_open ~> suite_pc = "returned" \/ AllKnown

(* "Note that this part terminates when the stream is closed."             *)
RandomPartTerminates ==
  suite_pc = "random" /\ ~ reader_open ~> suite_pc = "returned"

=============================================================================
