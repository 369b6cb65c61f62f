# Hybrid adaptive distinguishing sequences: the TLA+ development

This directory holds the specification of the algorithms of *hybrid-ads*, a
tool that reads a finite state machine and writes a test suite for it, and of
the learning experiment in Java that runs this tool as a process.  The
algorithms of the tool are sequential; what makes them hard is that their correctness is
global.  A splitting tree is refined in an order nobody controls (a queue, a
shuffled alphabet), a cache with shared rows is written by attempts that fail,
the decision to give up is taken from a counter, and three structures that are
built in different ways must fit together in the end.  None of that shows in a
unit test of one machine, and all of it is a statement about every machine of
a given size: what a model checker and a prover are for.

## The system

| Component | State it keeps | Operations | Module |
|---|---|---|---|
| Mealy machines (`lib/mealy.hpp`, `types.hpp`) | the graph: state, input -> state, output | `apply` on a symbol and on a word, `defined`, `is_complete`, `concat`, `all_seqs` | `Mealy`, `ReadMealy`, `Reachability`, `TestSuite` |
| machine readers (`lib/read_mealy.*`) | numbers of the names, counters of 16 bits, the graph | `read_mealy_from_dot`, `read_mealy_from_txt`, `create_reverse_map` | `ReadMealy` |
| `partition_` (`lib/partition.hpp`) | blocks in the order of their first element | group a list by a function | in `SplittingTree` |
| splitting tree (`lib/splitting_tree.*`) | the tree, the successor cache, `is_complete`, the queue, three counters of the loop | `create_splitting_tree`, six sets of options | `SplittingTree`, abstract: `PartitionRefinement` |
| lowest common ancestors (`lib/splitting_tree.hpp`) | none | `lca_impl`, `lca`, `multi_lca` | `Lca` |
| adaptive distinguishing sequence | the decision tree, a queue | `create_adaptive_distinguishing_sequence` | `AdaptiveDistinguishingSequence` |
| separating family | suffixes of every state, a stack | `create_separating_family` | `SeparatingFamily` |
| trie (`lib/trie.hpp`) | a prefix tree | `insert`, `for_each`, `flatten`, `clear` | `Trie` |
| transfer sequences | a word per state, a work list | `create_transfer_sequences`, four sets of options | `TransferSequences` |
| reachability | numbering of the reachable states, a queue, the new graph | `reachable_submachine` | `Reachability` |
| test suite | middle words, a buffer, the trie | `test`, `randomized_test`, `randomized_test_suffix` (not called) | `TestSuite` |
| `main` | the above, one after the other, the state of the output | options, modes | `Main` |
| equivalence oracle (`java/YannakakisEQOracle.java`) | the external process, a buffer of queries, alphabet and bound | `findCounterExample` | `EquivalenceOracle`, with `ExternalProgram` |
| counting oracle, experiment (`java/Main.java`) | two counters; the hypothesis | `processQueries`, `logAndReset`; the loop | `CountingOracle`, `Experiment` |

`main` calls the parts in this order, each reading the results of the earlier
ones and changing none of them:

    read -> reachable_submachine -> splitting tree (Hopcroft)      \
                                 -> splitting tree (Lee, Yannakakis) -> decision tree \
                                 -> transfer sequences                                 -> family -> tests

The Java side starts the program as a process, writes a hypothesis to it and
reads words from it: the oracle collects the words in a buffer, lets the
counting oracle ask the system under learning about all of them in parallel,
and compares the answers with the hypothesis.  It kills the process when it has
found a difference or when the number of words exceeds the bound, and otherwise
waits for the end of its output.

Where the behaviour is hard:

* **Order.** The queue of leaves and the shuffled alphabet decide which
  separator a node gets.  The leaves must be the same whatever happens.
* **Waiting.** A block that cannot be split now may be splittable later, so it
  goes back to the end of the queue.  The only thing that ends the loop is a
  counter of fruitless visits.
* **Failed attempts.** `update_succession` writes into the cache while the
  blocks are computed, before the code knows that they are of any use.
* **Sharing.** The cache has one row per depth, not per node, and it is read
  after the tree is complete, for sets of states that are parts of the sets it
  was written for.
* **Harmony.** Words for one state are worthless unless the other state keeps
  the same prefix; each state keeps its own set and drops prefixes in it.
* **Two halves of one suite.** The finite part is made by two calls that share
  the infixes, the trie and the buffer, and are written by two writers; the
  output may be closed in the middle, and nobody notices before the next line.
* **Reading in any order.** Numbers are given to names while the lines are
  read, rows and alphabets grow at different times, and a machine is refused in
  the middle of it or at its end; the counters have 16 bits.
* **Two processes.** The external program prints while the oracle compares, may
  crash at any time, and ends a little later than its output; the queries that
  were read and not compared yet must survive every way out of the loop.
* **Threads.** The queries of a buffer are counted by the threads of a
  parallel stream.

What makes each part correct is in the section on properties below.
`PROJECT.json` lists the hazards at their lines, with the properties that
cover them.

## The modules

**`Mealy`**: N states, P inputs, Q outputs, complete machines, and
`applyWord`, the loop of `apply` on a word, which returns the *last* edge only.
The empty word returns `output(-1)` (`NoOutput`).

**`SplittingTree`**: `create_splitting_tree`.  One step of the model is
one turn of the `while` loop.  The turn has six outcomes, and each is an
action: `SkipSingleton`, `SplitOnOutput`, `SplitOnState`, `Requeue`,
`RaiseOrder`, `GiveUp`; `Finish` is the end of the loop.

* A node of the tree is named by its set of states.  That is sound because the
  children of a node are at least two nonempty disjoint sets, so no set occurs
  twice (theorem `AssertionsHold`).  `tree` maps a node to its
  children, separator and depth.  The references that the queue holds become
  names.
* `new_blocks` and `InOrder` are `partition_`: the blocks by output, in the
  order of their first states.  The states of a node are kept in increasing
  order (the root is filled by `iota` and a partition keeps the order), so the
  sequence of blocks is determined by the set of blocks.
* A shuffle of the alphabet is modelled by its effects, of which there are
  three: which of the symbols that succeed is tried first (`FirstTried`), which
  of the symbols is tried last when none succeeds (`LastTried`, it decides what
  stays in the cache), and nothing else, because a failed attempt before a
  successful one is overwritten for all states of the node by the latter.
* `succession` keeps one row per depth, grows when a deeper node is visited,
  and holds `state(-1)` (`Undefined`) where nothing was written.
  `LeaveTrace` is what a visit that splits nothing leaves behind in it.
* `IsLca` says which node the walk over the tree finds; `Lca` is the walk
  itself, and `LcaAgrees` says that they agree.
* The field `cache_succesors` of the options is never read by the code, and
  not by the model either; the cache is always kept.

**`Lca`**: the recursive walk, written as a recursive function over the nodes
of a tree: the count that it returns and the nodes that it stores.

**`AdaptiveDistinguishingSequence`**: extends the two, and runs after them
on the result, as `main` does ("Lee & Yannakakis I" and "II").  A node
holds `CI`, pairs of a current and an initial state, sorted; it is named
by its set of initial states.  `Merge` is the loop over the two sorted
lists, a recursive function of its two indices; `sorted` is `std::sort` with the
order of pairs (`precedes`).  The states of a node of the splitting tree are
kept in order, so the list of them is determined by the set (`increasing`).

**`SeparatingFamily`**: the whole chain of `main` up to
`create_separating_family`.  It has two instances of the splitting tree, the
one of Hopcroft style by `INSTANCE` with variables of its own.  The suffix mode
(`hads` or `hsi`) is chosen at the start; in the second the decision tree is
made from `result(graph_size)`, a tree that was never refined.  The suffixes of
a state are inserted into a trie one after the other and flattened.

**`PartitionRefinement`** is the abstract specification of
`create_splitting_tree`: a partition of the states that is divided, block by
block and each time by what one symbol shows, until it stops; without
`check_validity` and minimal order it may stop only when no symbol divides a
block any more.  There is no queue, no separator and no count of days in it.

**`SplittingTreeTheory`** says what the tree is for: it maps the leaves of the
tree to that partition (`Refinement`), and measures leaves and separators
against the equivalence of `MachineTheory`.

**`Trie`**: operators, no state: a trie is a function from its nodes, named by
the words that lead to them, to the letters below them in increasing order;
`clear` is the null pointer.  `insert` walks down as far as letters are found by
`lower_bound` and adds a chain of nodes, `IsNew` is what it returns, and
`flatten` visits the leaves in the order of the letters.  `WellFormed` is what
`lower_bound` relies on.

**`ReadMealy`**: both readers, one step per line.  A line is what stands on it,
not its characters; a name is a small number, which in a dot file gets an index
when it is first met (`WithName`) and in a txt file is the index
(`WithNumber`).  Indices and counters have `Count` values (2^16 in
the code), they wrap around after the last, and that one is `state(-1)`, the
mark of a missing edge.  A line that writes outside the
graph, which happens only after a counter has overflowed, ends in
`"undefined"`; the assertion of the txt reader ends in `"aborted"` in a build
that has it.

**`Reachability`**: `reachable_submachine`, one step per turn of its two
loops (`Skip` and `Visit` of the `while`, `FollowInput` of the `for`,
`Return` for the checks at the end).  `max_state` is the number of states that
have a number.  It is called with a state and a complete machine
(`Init`).  A row that was not resized yet and a row of default edges
are not told apart, since `is_complete` refuses both.

**`TransferSequences`**: `create_transfer_sequences`, one step per turn of its
loops.  The sample is any number of the range, so the place that is popped is
any of `Places`; all option sets of the program have 0 or 1 as the ends of the
range.  A shuffle may give any order of the inputs.

**`TestSuite`**: `test` and `randomized_test` with the writers that `main`
passes to them.  One step deals with one test, from the call of `apply` for
the prefix to `reset`, so the buffer is empty between steps.  `todo` holds
the tests of the current turn of the loop over `k` in the order of the three
inner loops (`Tests`).  The trie is one of `Trie`, which the module extends.
`SuiteSpec` is the module alone, for all arguments that `main` may pass
(`SuiteArguments`).  `cout_ok` is
`bool(cout)`; it changes when a line meets a closed output.  Where the operating
system kills the program instead, it ends earlier.  A random infix has `min_k`
symbols and grows as long as the coin shows another side than 0
(`unfair_coin`, `max_length`): with `-r 0` the coin has one side, and so it
has with a number of which the `int` it is cast to keeps nothing (`IntValues`,
2^32 in the code).  Where the cast makes a negative bound, which the library does not
allow, the coin is taken to have other sides.  `MaxExtra` and `MaxRandomTests`
bound the random part, the first only if infixes can grow, the second only as
long as somebody reads.

**`Main`**: the composition, `SeparatingFamily` and `TestSuite` by EXTENDS,
`TransferSequences` by INSTANCE.  `prefixes` and `separating_family`, the
arguments of the tests, are set when the functions that compute them return.
The prefixes are made after the decision tree and before the family, as `main`
does it.  The module ends with what all parts together are for: implementations,
what it means that one passes a test or is equivalent, and `SuiteIsComplete`.

**`ExternalProgram`** is what `java.lang.Process` shows of the program that
the oracle starts, whichever it is.  It reads a hypothesis, prints the
tests of the suite in any order into a pipe of bounded size, closes its output
and exits, and it may crash before.  Killing it, forgetting it and the end of
its stream are the only ways the Java side touches it.

**`CountingOracle`**: `processQueries` adds the number of queries, and each
thread of the stream adds the symbols of a query in two steps, a read and a
write (`LoadSymbols`, `StoreSymbols`); `symbols` is a plain field.  Every query has
one symbol in the model, so the two counters can be compared.

**`EquivalenceOracle`**: `findCounterExample`.  `java_pc` says where the thread
is; each way to go on from a line that was read is an action (`BoundReached`,
`FillBuffer`, `CheckBuffer`), and so is each way to leave the loop.  Of the
hypothesis only the set of tests that it answers wrongly is kept (`wrong`).
`heard` is a history variable: the tests that were read since the hypothesis
was made.  The threads of the stream run while the oracle waits in `check`.

**`Experiment`**: the loop of `main` in `java/Main.java`.  The learner is
external: its next hypothesis is wrong on any set of tests, and right from
`LastStage` on.  An `IOException` is possible when the process is started, and
when the hypothesis is written to a program that has crashed.

**`MachineTheory`** is not code: equivalence of states up to a length,
the classes of equivalent states, the sets of states that an adaptive
experiment can resolve, and that all states can be reached.  Results of the code are measured against these.

**`MC*`**: the instances for TLC.  `MCMachines` has the sets of machines.
`MCSearches` runs `Reachability` (an INSTANCE) and then, on the machine it
returns, `TransferSequences` (EXTENDS), as `main` does (`main.cpp:200` and `258`);
the properties of `Reachability`, about which its theorems are, have the same
names there.

**`MealyProofs`**, **`SplittingTreeProofs`** (with `SplittingTreeTheory`, which
only states properties), **`SeparatingFamilyProofs`**,
**`TransferSequencesProofs`**, **`ReachabilityProofs`**, **`ReadMealyProofs`**,
**`ExperimentProofs`**, **`MainProofs`**: the proofs, each about the
module of its name.  `MealyProofs` has the facts on words and on `Trie` that
the others share; the walks of `Lca` are in `SplittingTreeProofs`, the
decision tree in `SeparatingFamilyProofs`, `TestSuite` in `MainProofs`.

Operators whose comment begins with "Mutant" are not part of any model.  Each
is a plausible mistake in the definition that follows it, and replacing that
definition by it makes one of the properties fail: they document that the
property can see the mistake.

## What is checked

The machines of a run on a tree are *all* those of a size up to renaming: complete, all
states reachable from state 0, numbered breadth first as
`reachable_submachine` numbers them, outputs numbered as they are met (no
algorithm looks at more than the equality of outputs).  Every machine is an
initial state, so a run is a statement about all of them.  That the function
really numbers them so is what the run `searches` shows.

| Run | Instance | Properties |
|---|---|---|
| `shuffled` | Hopcroft style and Lee and Yannakakis style, both shuffled, all machines with N=3, P=2, Q=3 | `TypeOK`, `ChildrenPartition`, `SeparatorSeparates`, `SeparatorsValid`, `QueueHoldsLeaves`, `LeavesAreClasses`, `CompleteIffADS`, `RefinesPartition` |
| `waiting` | the three styles unshuffled, N=4, P=2, the second input silent, the last state goes back to the start | `CacheAgrees`, `DaysAreStuck`, `NothingLeftToSplit`, `SeparatorsMinimal`, `LcaAgrees`, `CompleteIffADS`, `Terminates` |
| `family` | the chain of `main` from the first tree to the family, N=3, P=2, Q=2: with the decision tree for all machines whose last state can go back to the start and for all with one voice (`OneVoiceOnly`) and without it for the latter; for a few of them also the tests with k=1 | `AdsTypeOK`, `NoStateLost`, `CurrentsAreReached`, `Identifies`, `Harmonised`, `SuiteIsComplete` |
| `modes` | the whole program in all modes, N=2, P=2, Q=2; the finite part for all machines with k up to 2, the other modes for three machines with a reader that may stop, with `-r` 1, 0 and `IntValues` | `SuiteTypeOK`, `FixedPartIsWhole`, `TrieIsOutput`, `StopsWhenClosed` |
| `searches` | all graphs of 4 states and the numbered ones of N=5, P=2, whose last state goes back to the start and may be unreachable, with outputs all different; the words of what is returned with all four options | `ReachTypeOK`, `IsReachablePart`, `NumberedBreadthFirst`, `TypeOK`, `WordsLeadThere`, `WordsFormTree`, `EveryStateHasWord`, `WordsAreLeast` |
| `reader` | both formats, numbers of 2 bits (`Count` = 4), files of up to 3 states, inputs or outputs, and files with one or two names of a kind too many; every order of the lines, complete or not, with second edges | `ReadTypeOK`, `AcceptsMachines`, `ReadsWhatIsWritten` |
| `learning` | two alphabets with 1 and 4 tests, bound 1, 3, 9, a buffer and a pipe of 2, two threads, two hypotheses to refute; crashes | `ExperimentTypeOK`, `EveryTestCompared`, `NoProcessLeft`, `EventuallyRefuted` |
| `min_gives_up` | minimal order, N=4, P=1, Q=2 | `MinimalOrderCompletes` is violated |
| `never_done` | one alphabet with 2 tests | `DoneWhenCorrect` is violated |
| `still_active` | the same | `ThrowsOnlyOnFailure` is violated |
| `symbols` | the same, a buffer of 2 | `SymbolsCounted` is violated |
| `no_coin` | mode `random` with `-r 0` and the filter, N=2, P=2, Q=2, up to four random tests while somebody reads | `RandomPartTerminates` is violated |

What they show:

* **The result does not depend on the order.** Whatever the shuffles, the
  Hopcroft leaves are the classes of equivalent states (`LeavesAreClasses`),
  and the tree of Lee and Yannakakis is complete exactly for the machines that
  have an adaptive distinguishing sequence (`CompleteIffADS`), although
  `is_valid` looks at the first symbol of a word only and greedily takes
  the first valid split.
* **A queue, a counter and a cache make a refinement** (`RefinesPartition`):
  every turn of the loop divides one leaf by one symbol or nothing, and the
  function returns in Hopcroft style only when the partition is stable.
* **Separators work at their last symbol** (`SeparatorSeparates`) and, under
  `check_validity`, never merge states (`SeparatorsValid`).  In minimal order
  no separator is longer than it has to be (`SeparatorsMinimal`).
* **The loop ends at the right time**: it returns (`Terminates`), its count of
  days is the number of blocks at the end of the queue that are stuck, and never
  more than there are blocks (`DaysAreStuck`), and it does not give up before all are
  (`NothingLeftToSplit`).
* **The cache is right where it is read** (`CacheAgrees`), and the decision
  tree made from it knows where the machine is (`CurrentsAreReached`), loses no
  state in its merges (`NoStateLost`) and tells all states apart when the
  splitting tree does (`Identifies`).
* **The search for prefixes** gives right words in any order, shortest ones
  and lexicographically least ones where it says so, and a word to each state
  that can be reached and to no other.
* **The family is harmonised** (`Harmonised`): any two inequivalent states
  have words with a common prefix that separates them, in both suffix modes
  and for any combination of the two trees.
* **The suite keeps its promise** (`SuiteIsComplete`): *every* implementation
  with at most k - 1 states more than the specification that passes all printed
  tests is equivalent to it, if the specification is minimal.  This is measured
  on all implementations of that size, with the families and prefixes that the
  modelled algorithms made, in the order they made them.
* **The two calls make one suite** (`FixedPartIsWhole`), the nodes of the trie
  are exactly the prefixes of the lines, so that the filter neither repeats a
  line nor drops a test (`TrieIsOutput`), and the program ends after the output
  was closed (`StopsWhenClosed`), except when it has made all random tests
  there are (`AllKnown`).
* **Reading does not depend on the order of the lines.** A file is accepted if
  and only if it describes a deterministic, complete machine
  (`AcceptsMachines`), as long as it has at most Count - 1 names of a kind,
  and the machine in memory is the one in the file, with every output below
  `output_size` as `partition_` needs it (`ReadsWhatIsWritten`).  With more
  names nothing is promised, and the model shows why: the counter wraps, an
  edge gets the mark of a missing one or is written outside the graph.
* **No test that was read is forgotten** (`EveryTestCompared`): at the bound, at
  the end of the program and at a full buffer, the tests that refute the
  hypothesis are in the buffer until they are found, and the buffer is empty
  when the alphabet or the hypothesis changes.
* **No process is left behind** (`NoProcessLeft`) when the next one is started
  or a counterexample is returned.
* **A wrong hypothesis is refuted** (`EventuallyRefuted`), unless the program
  crashes or an exception is thrown, because the bound outgrows every suite.

### Where the sources say something else

Five runs are expected to find a violation; the entries under `findings` in
`PROJECT.json` quote the lines.

* `min_gives_up`: in minimal order the count of fruitless days is not reset
  when the order is raised, and the function gives up on the machine
  0 -0-> 1, 1 -1-> 2, 2 -0-> 3, 3 -1-> 1 (one input, outputs on the arrows)
  although it is minimal and a separator of the current order was there for the
  block behind in the queue.
* `never_done`: `findCounterExample` promises "no counterexample ... the
  hypothesis is correct", and the experiment waits for `null`, but the loop
  raises the bound and starts again for ever.
* `still_active`: `isAlive()` is asked right after the end of the output,
  without waiting for the process, and a program that ends normally is reported
  as a failure when it is slow to exit.
* `symbols`: the threads of the parallel stream increase `symbols` without
  synchronisation.  With two threads an increment is lost.
* `no_coin`: "there is no way of collecting an infinite set first... this part
  terminates when the stream is closed" (`main.cpp:346`), but with `-r 0` the
  coin always shows 0, every infix has `min_k` symbols and the random tests are
  finitely many.  When the trie has all of them nothing is printed any more,
  `bool(cout)` stays true whatever happens to the reader, and `while (true)`
  goes on for ever.

Four more were seen while modelling and are not kept as runs.
`result::is_complete` is documented as "false <-> no adaptive distinguishing
sequence", and stays false for machines of more than one state; nothing reads
it.  The option `longest` of the prefixes is commented as a depth first search
and is not one: a state is marked when it is pushed, so with edges from 0 to 1
and 2 and from 2 to 1 the search visits 2 before 1, and yet 1 is not below 2 in
the tree.  The guarantee of the README ("equivalent or ... at least k more
states") fails for a specification with equivalent states, which nothing
refuses or merges, hence `Minimal` in `SuiteIsComplete`.  And the comment of
`closeAll` on exceptions holds only inside it: when the hypothesis cannot be
written, the exception leaves without `closeAll`.

### Bounds, and why they are enough

* Three states and two inputs are the least for which a separator of two
  symbols is found through another node and a shuffle matters.  Three outputs
  allow a split in three.
* Two blocks of *two* states each, which wait for each other, need four
  states; only then can the loop give up too early or turn for ever, and only
  then is a row of the cache left by a visit in vain and written again.
  Separators of three symbols need four states too; hence `waiting`.
  All machines of that size are too many; the ones with a silent second input,
  whose last state returns to the start, keep the interesting part, since what
  is not seen in the outputs of one input must be found by following
  transitions.
* `family` repeats the splitting of `shuffled`, which covers all machines, and
  adds what comes after it.  Machines whose last state cannot go back to the
  start, such as those with a sink, are represented by those with one voice.
* The prefixes depend on the graph alone.  A search that takes states from the
  wrong end finds longer words only from 5 states on (two successors of the
  start, a path of two from the second, a short cut from the first).  The last
  state needs no edges of its own for that, so it goes back to the start, and
  all graphs of 4 states are among those of `searches`.  Those that
  are not numbered breadth first, or have states that cannot be reached, are for
  the numbering.
* Completeness of the suite quantifies over all implementations: 46916 with up
  to 3 states, 2 inputs and 2 outputs.  With 3 states of the specification the
  suffixes of different states differ, which a suite with the wrong suffixes
  needs to fail; k = 1 then has infixes of both lengths, 0 and 1.  The few
  machines have one telling state at the end of all paths.  For larger k there
  is the theorem.
* One random test before the reader stops and infixes of up to one symbol more
  than `min_k` leave a new test to be drawn, which is what ends the program.
  Where infixes cannot grow this bound hides nothing; in `no_coin` four tests
  are enough to have made them all while somebody reads.
* With 2 bits a counter overflows at 4 names, and the mark is 3: every file of
  the run `reader` that is too large is so in one dimension only, by one name or
  by two.  A file may have one line more than edges (`MaxLines`); a longer one
  has a second edge, which is refused at once.
* In `learning` the bound starts below the size of the larger suite and below
  that of the buffer, is then between them, and in the end above both, so every
  branch of the loop is taken; beyond the largest suite (`MaxBound`) a larger
  bound changes nothing, and it is not raised any more.  Suites are finite,
  and each test of a suite is printed once: an endless random suite is cut off
  by every bound, and what it then finds is a matter of probability.  The counters stop at
  `MaxCount`, which no property of that run is about.
* `still_active` and `symbols` need one program that exits and two threads.
* No counter of the tree needs a bound: the queue, the tree, the cache and the
  days are bounded by the algorithm.  `MachineTheory` uses known bounds: N - 1 symbols
  separate two states, (N - 1)² suffice for an adaptive distinguishing
  sequence (`CompleteIfAnyADS`).

Deadlock is not checked where a function returns and then nothing happens.  It is
checked in the runs of `MCExperiment`, where the pipe may be full while the
oracle compares, or empty while it reads; only an exception ends the experiment
there.

### Fairness

There is one sequential caller.  A turn of the loop that can be taken is
taken, so weak fairness of the whole next-state relation is all that is
assumed (`FairSpec`) for `Terminates`.

For `StopsWhenClosed` the same is assumed of the program (not of the reader,
who may read for ever), and strong fairness of a random test that fails to
print: every word has a positive probability in each turn, so a word that is
not in the trie is drawn at some time.  Without it the program could draw
old words for ever.  When no test is new any more such a print is never possible
again, strong fairness asks nothing, and the program does go on: that is
`no_coin`, and the second case of `StopsWhenClosed`.  In `modes` both are asked of the command lines with a reader
that may stop only (`ModesSpec`); for the others the property says nothing.

For `EventuallyRefuted` the steps of the Java side and those of the external
program are weakly fair, each taken together: two processes that the operating
system schedules.  A crash and a failing start are never forced.  The threads of
the stream belong to the Java side, which waits for them.

## What is proved

By TLAPS, for every N, P and Q, every set of machines and of options, every
order of a shuffle or a queue; and for the others for every number of names and
lines, every suite, buffer, pipe and number of threads, every k and l, all
prefixes and every family:

| Module | Theorem | Statement |
|---|---|---|
| `SplittingTree` | `TypeCorrect` | `Spec => []TypeOK` |
| | `AssertionsHold` | `Spec => []ChildrenPartition`: the two assertions in the code never fail |
| | `CacheIsRight` | `Spec => []CacheAgrees` |
| | `QueueIsRight` | `Spec => []QueueHoldsLeaves` |
| | `DaysAreRight` | `Spec => []DaysAreStuck` |
| | `GivesUpOnlyWhenStuck` | `Spec => []NothingLeftToSplit` |
| `SplittingTreeTheory` | `SplitsAreValid` | `Spec => []SeparatorsValid` |
| | `SeparatorsSeparate` | `Spec => []SeparatorSeparates`, if no option record asks for both checks |
| | `SeparatorsAreMinimal` | `Spec => []SeparatorsMinimal`, if no option record asks for both checks |
| | `HopcroftLeavesAreClasses` | `Spec => []LeavesAreClasses` |
| | `Implementation` | `Spec => RefinesPartition`: the loop implements `PartitionRefinement` |
| | `CompleteExactlyIfADS` | `Spec => []CompleteIffADS`: a greedy search finds what there is |
| | `CompleteIfAnyADS` | the tree is complete exactly if there is an adaptive distinguishing sequence of any length, so none need be longer than (N - 1)² |
| | `HopcroftTells` | lowest nodes of the Hopcroft tree separate what is not equivalent |
| `Lca` | `LcaIsRight` | `Spec => []LcaAgrees` |
| `AdaptiveDistinguishingSequence` | `AdsInvariance` | `LySpec => []AInv`, the inductive invariant |
| | `AdsTypeCorrect` | `LySpec => []AdsTypeOK` |
| | `NoStateIsLost` | `LySpec => []NoStateLost` |
| | `CurrentsAreTracked` | `LySpec => []CurrentsAreReached` |
| | `SequenceIdentifies` | `LySpec => []Identifies` |
| `SeparatingFamily` | `FamilyIsHarmonised` | `MainSpec => []Harmonised` |
| `Reachability` | `NumberingIsSound` | `Spec => []ReachTypeOK` |
| | `ResultIsReachablePart` | `Spec => []IsReachablePart` |
| | `NumberingIsBreadthFirst` | `Spec => []NumberedBreadthFirst` |
| `TransferSequences` | `TransferTypeCorrect` | `TypeOK`, `WorkIsFrontier`, and every sampled place is one of the list |
| | `WordsAreRight` | `Spec => []WordsLeadThere` |
| | `WordsMakeATree` | `Spec => []WordsFormTree` |
| | `CoversReachable` | `Spec => []EveryStateHasWord` |
| | `WordsAreLeastPossible` | `Spec => []WordsAreLeast` |
| `ReadMealy` | `ReadTypeCorrect` | `Spec => []ReadTypeOK` |
| | `AcceptanceIsRight` | `Spec => []AcceptsMachines` |
| | `MachineIsRead` | `Spec => []ReadsWhatIsWritten` |
| `Experiment` | `ExperimentTypeCorrect` | `ExperimentSpec => []ExperimentTypeOK` |
| | `TestsAreCompared` | `ExperimentSpec => []EveryTestCompared` |
| | `NoProcessIsLeft` | `ExperimentSpec => []NoProcessLeft` |
| `TestSuite`, `Trie` | `SuiteInvariance` | `SuiteSpec => []SuiteInv`, the inductive invariant |
| | `SuiteTypeCorrect` | `SuiteSpec => []SuiteTypeOK` |
| | `TrieHoldsTheOutput` | `SuiteSpec => []TrieIsOutput` |
| | `FixedPartIsComplete` | `SuiteSpec => []FixedPartIsWhole` |
| `Main` | `TestsAreRightInMain` | `ProgramSpec => [](SuiteTypeOK /\ TrieIsOutput /\ FixedPartIsWhole)`: the calls fit together |
| | `SuiteIsAlwaysComplete` | `ProgramSpec => []SuiteIsComplete`: the promise of the program |

None of the properties is inductive alone.  Each module of proofs begins with
its inductive invariant, which TLC has checked on the instances of the runs
before.

### Assumptions

They are those of the modules.  N, P and Q are positive
(`reachable_submachine` refuses anything else), the options are records of the
modelled kind, the machines are complete, the start is a state, and `IntValues`
is positive.  `Count` is at least 2, and a txt file has no number that its type cannot
hold.  There is at
least one suite, suites are finite and no larger than `MaxBound`, and the sizes
are positive.

Two theorems ask that no option record has both `check_validity` and
`assert_minimal_order`.  None of the six styles has both.  With both, a
symbol that is not valid for a block may become valid for a part of it when the
order has been raised already; then only longer words that begin with it are
tried, and these tell states apart before their last symbol.

The theorems on the decision tree, the family and `Main` ask that the options are
`lee_yannakakis_style` or its shuffled form (`LeeYannakakisStyle`), the two with
which `main` makes the tree for it (`main.cpp:237`).  For a tree whose separators merge
states the lists would not stay strictly sorted.

The theorems on the suite are about `SuiteSpec`: any complete machine, any word
per state as its prefix, any list of words per state as its suffixes, any
options with l at most k (`parse_options` sees to that, `main.cpp:144`), and any
bounds `MaxExtra` and `MaxRandomTests`.  They are therefore stronger in the
arguments than what `Main` needs; that `Main` calls the tests with such
arguments is part of `TestsAreRightInMain`.  The numbers
are not those of 64 bits: with a k and an l of 2^64 - 1 the code would call `test`
with the limit l + 1 = 0.

`SuiteIsAlwaysComplete` asks in addition that from state 0 of the machines all
states can be reached (`ReachesAll`).  `main` passes every machine through
`reachable_submachine`, whose result is of this kind (`IsReachablePart`); TLC
evaluates the same of the machines of `family` and `modes`
(`ReachedAssumption`).  The property itself asks that no two states are
equivalent, that the mode is `fixed` with suffixes, and that the program came to
its end with somebody reading: without any of these the code promises nothing.
Implementations are complete and have the alphabets of the specification.

### The splitting tree

`IInv` is the invariant of `SplittingTreeProofs`.

* `ChildrenPartition` needs that the second stage always splits.  The
  successors of the block lie in an inner node but in no single child of it, so
  two of them lie in different children, whose states answer the separator of
  that node differently (`LastOutputSeparates`), and therefore two states of
  the block answer the symbol followed by the separator differently (lemma
  `StateSplitSeparates`).  That last step is a fact about `apply` on words:
  reading a nonempty word after a symbol is reading it from the successor
  (`ApplyCons` in `MealyProofs`).
* `CacheAgrees` needs that two nodes of the same depth share no state
  (`TreeShape`), so that an attempt on one does not disturb the other, and
  that the row exists (`CacheIsFilled`).
* `DaysAreStuck` and `NothingLeftToSplit` need that the blocks at the end of the
  queue, as many as there are days, are stuck (`VisitedAreStuck`), that there
  are no more days than blocks (`DaysFit`: a singleton, which is dropped, is not
  stuck and was not counted), and `QueueHoldsLeaves`; since nothing was split in these days, they still are
  (`StuckDependsOnTree`).  In minimal order this is only so when the days were
  counted from a split in the current order, which is what the finding
  `min_gives_up` is about.

`TheoryInv` is the second invariant, of what the words in the tree are.  It
uses the first.

* A split is by a *good word* (`GoodWord`), which both stages make: it is
  short, it separates what it merges if validity is asked for, it has the
  length of the current order in minimal order, and before its last symbol it
  tells nothing apart.  For the last two, and for a word that was found through
  another node, the separator of that node must be good for the successors, so
  `SeparatorsValid`, `OrderKept` and `PrefixesAgree` are kept together.  That a
  look at the first symbol is enough for `is_valid` is the step from there.
* `SeparatorsMinimal` needs that in order k the blocks are still contained in
  the relation of equivalence up to k symbols (`OrderKept`).  When the order is
  raised, all blocks must be stuck in the current one: it is raised only after
  a split in it, and the days were counted from the last one
  (`VisitedAreStuck`).  So the days that are not counted anew make the
  function give up too early, but never make a separator too long.
* `LeavesAreClasses` needs, in one direction, that equivalent states are never
  parted: a separator of a node has fewer than N symbols (`SeparatorsShort`
  counts inner nodes and leaves), so it is too short to tell states apart which
  are equivalent up to N - 1.  In the other direction a stable partition is
  contained in equivalence up to any length (`StableIsEquivalent`), by
  induction on the length.  The chain of relations is a recursive function in
  `MachineTheory`; that it has the values its equation says is `ChainExists`.
* `Implementation`: the initial partition is the root; a turn that splits with
  an output or through another node divides its leaf by *one* symbol in the
  abstract specification, because the successors of the block lie in different
  blocks, and the other turns stutter; `Finish` in Hopcroft style needs that
  nothing can be divided any more, which is `NothingLeftToSplit` in terms of
  blocks.
* `CompleteIffADS` is two proofs.  If a leaf has two states, take one of the
  largest leaves.  It is stuck, so a symbol that merges none of its states takes
  it as a whole, with one answer, into a leaf that is as large and just as stuck
  (`StuckMovesOn`); no experiment of any length ever resolves it, nor a set
  with it inside (`ResolvableParts`, `IncompleteMeansNone`).  If all leaves
  have one state, the lowest node of any set of states has a word that is
  an experiment for it, which divides it and merges nothing; each part needs
  one word less than it has states (`WordResolves`, `CompleteResolves`, by
  induction on the size).  The set of resolvable sets is defined from below,
  by a recursive function whose values are `ResolutionExists`.
* `HopcroftTells`: inequivalent states are in different leaves
  (`LeavesAreClasses`), so the lowest node of both has them in different
  children, and its separator tells them apart.  This is the form in which the
  family uses the tree.

### The walks over the splitting tree

A splitting tree is *shaped* (`Shaped`, from `IInv` and `LeavesCover`): the
children of a node are smaller and share it out, and a node inside another one
is inside one of its children.  The walk is a recursive function over the nodes,
so first it is shown to have the values its equation says (`WalkExists`), and
then what it returns for a node (`WalkIsRight`): the number of states of the set
that the node holds, and a store that ends with the lowest node for these.  Both
are inductions on the size of a node.  `FlattenFacts` says what flattening the
stores of the children returns.

### The decision tree

`AInv` is the first invariant of `SeparatingFamilyProofs`.  The four
properties need each other: that the children share out the states needs that the
current states of a list are different, which needs that the words track the
machine, which needs that the branch to a node can be read off the tree.

* `Nested` and `Branched`: nodes that share a state are one inside the other,
  and above a node there is exactly one node per level.  So the word along a
  branch, which the property reads off the sets, is the word of the parent
  followed by a separator (`GrowsNewBranch`), and old branches do not change
  (`GrowsOldBranch`).
* `Listed`: the pairs of a node are strictly sorted by current state, no initial
  state occurs twice, and the initial states are the name of the node.
* `Tracked`: reading the word along the branch leads from the initial to the
  current states and no prefix of it tells the initial states apart.  A child
  reads a separator more; its pairs had current states in one child of the
  node `lca` found, so the last output of the separator is the same
  (`LastOutputSeparates`) and so are the earlier ones (`PrefixesAgree`)
  (`ChildTracks`).
* `Shared`: the children share out a node.  The merge skips in both lists, but
  never a pair whose state the other list has still to come, because both are
  sorted (`TurnSkipsNothing`, `MergeIsRight`); what it returns may be out of
  order and is sorted again, strictly, because a valid separator merges no two
  states of a child (`SeparatorsValid`, `MergeFollows`).  That at least two
  lists are not empty is where `LcaIsRight` comes in: no single child holds all
  current states (`SuccessorsShareOut`).
* `Waiting`, `NoneForgotten`, `InTurn`: the queue holds nodes without children,
  none twice; a node without children is in it or cannot be split.  When it is
  empty and the splitting tree is complete, the current states of such a node
  lie in a leaf of one state, so the node has one state (`Identifies`).

`AInv` uses `IInv` and `TheoryInv`: the call is a behaviour of the splitting
tree that stutters once the tree is returned (`LySpecIsSpec`).

### The family

`Harmonised` is about all of `main` before the tests, `MainSpec`: two calls of
`create_splitting_tree`, of which the second may be skipped, the decision tree
and the family.

* The Hopcroft call is an instance of `SplittingTreeProofs` (`HP`), so all its
  theorems hold of the variables `h_...`; operators that do not depend on
  variables are shown to be the same in the instance (`SameBlocks`,
  `SameTries`).  That gives `SeparatorsTell`, from `HopcroftTells`.
* `Decides` is what the decision tree is at any time: the parts of `AInv` that
  do not speak of the call, with `Linked`, which says what the word along
  the branch to a child is, and `Apart`: nodes without a common state are told
  apart by a common prefix of the words along their branches.  `Apart` is kept
  because the current states of two children lie in different children of the
  lowest node, whose separator is the next word on both branches
  (`GrowsApart`).  With the mode HADS it follows from `AInv`; without it the
  decision tree is made of a splitting tree of one leaf and stays a root
  (`BothRoots`, `RootIsLeft`, `SequenceDecides`).
* `FInv` is the invariant of the walk: a node on the stack waits with the word
  along the branch to it (`Pushed`, from `Linked`), and every state is in such
  a node or has its words: they begin with the word of a leaf with the state, and
  with the separators of all nodes with it that `multi_lca` passes
  (`CoveredBy`).  Flattening loses only beginnings (`FlattenedKeeps`).
* Then two inequivalent states are in different leaves, and `Apart` tells them
  apart, or in one leaf, and then `LcaIsRight`'s walk passes their lowest
  node in the Hopcroft tree for both of them.

The theorem assumes nothing of the machine.  The two states need not be told
apart by the decision tree, which may have been abandoned anywhere.

### The search for prefixes and the numbering

The invariant of `TransferSequences` says that the list and the state in hand
are the frontier of the search (`WorkIsFrontier`): all other states that have a
word have only successors with a word.  When the list is empty the states with a
word are closed under all inputs, and `OnlyReachable` says that they are no more
than that.  `WordsFormTree` needs that a word is extended only when its state has
left the list.  The lemmas are about popping at a place (`EraseOne`), the
clamped sample (`PlacesExist`), and reading one symbol more (`ApplySnoc`).

`WordsAreLeast` has an invariant of its own, `LInv`, on words ordered by
length and, without shuffling, by the alphabet (`Earlier`): the list is
in that order (`QueueOrdered`), no word was found that is later than the next
one to be tried (`NoneLater`), and every state that an earlier word leads to has
a word (`EarlierFound`).  The last one moves on from one state to the next
because all successors of a finished state have a word.

`Reachability` visits states in the order of their numbers
(`VisitedInOrder`) although a state may wait several times in the queue; the
reason is that before any copy of a state there is one of each state that was
numbered before (`QueueInOrder`).  `EdgesWritten` says which edges of the new
graph are final, `OnlyReachable` that the states met are in every
closed set with the start, and `Discovered` remembers for each number the edge
it was given for.

### The readers

While lines are read, and the names fit (`Reading`), each of the three
translations numbers exactly the names on the lines read so far, without gaps
(`AllTranslated`), the counter of edges is the number of different places and
no place was used twice (`OneEdgeEach`), and the rows, which may be too short,
hold these edges and no other (`GraphIsWritten`).  At the end the counting
argument is that as many different edges as there are places fill them all.
Nothing is proved about files with too many names but the types.

### The experiment

What was not printed, what is in the pipe and what was read are together no
more than a suite (`TestsAreCounted`), so a bound at `MaxBound` cuts nothing
off; the threads work on queries of a buffer that nobody empties under them
(`StreamOnBuffer`).  With `AlphabetInUse` and `CounterexampleRefutes` this makes
`EveryTestCompared` and `NoProcessLeft` inductive.

### The trie and the suite

`IsTree` is what a trie is: its nodes are words, every node but the root has its
parent with its letter, every letter has its node, and the letters are in
increasing order.  On it rest the lemmas about the operators of `Trie`:

* `LowerBound`, `EmplaceIsRight`: counting the letters before the key finds the
  place of the key if it is there, and where it belongs if it is not.
* `DepthIs`, `InsertIs`: the walk ends at the longest beginning of the word that
  is a node; `insert` adds exactly the beginnings of the word and the
  letters stay sorted; it returns true exactly for a word that was no node.
* `ListingExists`, `ListingFacts`, `FlattenIs`: `for_each` visits each leaf once,
  by induction on the length of the longest node below; the leaves are not
  beginnings of each other, and every node is the beginning of a leaf.
* `InsertAllIs`: the nodes of a trie of some words are their beginnings.

`SuiteInv` has the types, and that while the output can be written the nodes
are the beginnings of the words that were printed or are listed
(`OutputAgrees`), with a line for each.  The two writers keep it for different
reasons: the collected tests are in the trie before the first of them is
printed, so the list must have no repetitions (`FlattenIs`, `CountSeq`); a test
of the second call is inserted when it is printed, and what is filtered out was
a node already (`InsertPrinted`).

`FixedInv` says for `FixedPartIsWhole` how long the infixes are and what is
still missing.  In the first call these are the words of length k, in the
second of length l + 1 + k, because the turn after the last one of the first
call has let them grow (`LengthsAreRight`).  What is in the trie, listed or
printed has, with what is still to be made, the same beginnings as all tests up
to that length, cut off at l and at k_max (`TestsAreCovered`); `RequiredGrows`
adds one length.  A test that the filter drops takes nothing away, because
it is the beginning of a line.

### The composition

The invariants of the parts are carried over to `Main`, not proved again:

* `ProgramIsMain`: with suffixes, a behaviour of the program is one of
  `MainSpec`, so `FInv` and `Harmonised` hold of it.
* `ProgramIsTransfer`: it is a behaviour of an instance of
  `TransferSequencesProofs` (`TP`) that stutters during the other calls, so the
  theorems on the words hold of it (`ProgramWordsLead`).
* `ArgumentsInTurn`: the arguments of the tests are what the calls before have
  returned, or empty words as long as they have not; `k`, `todo`, the trie and the
  output stay as they were at first until then.  A step is therefore a step of
  `TestSuite`, or the tests are where they begin (`TestsWaitForArguments`), and
  `SuiteInv` and `FixedInv` hold all the time (`ProgramSuite`).

### The promise

`SuiteIsComplete` needs all of this.  Let an implementation of n < N + k states
answer all lines right.

* Every test of the method is the beginning of a line (`FixedPartIsComplete`),
  so the implementation answers it right, symbol by symbol: after the word of
  any state, any infix of at most k symbols and any suffix that the
  family keeps for the state reached (`PassingSurvives`).
* `Met(impl, pre, i)` are the states of the implementation that are met after
  the word of a state and at most i symbols.  If the specification is in
  different states after two such words, the implementation is, too
  (`ApartThere`): the suffixes of the two states have a common prefix that tells
  them apart, which is where `Harmonised` is needed, and both are tested
  there.  So at least N states are met with no infix at all.
* Each symbol more meets a new state or nothing new ever after; since there are
  fewer than N + k states, nothing new is met at some length i < k
  (`NothingNew`, by counting).
* The pairs of states that the two are in after the words of that length are
  then a relation that no input leaves: the state after one symbol more was met
  before, and by `ApartThere` the specification was then in the same state as now.
  Nor does an input tell the two apart, since every state keeps a suffix and the
  first k symbols are tested with it (`AnswersThere`).  That is
  `SurvivorsAreEquivalent`.

### What is only model-checked

`applyWord` is a recursive function; what it returns is derived from its
definition by induction on the length of the word, where the induction is over
a *set* of numbers (`NatSetInduction`), which keeps it first order.  The
library's induction over an operator is out of the provers' reach, and so are
liveness and ENABLED.  Therefore `Terminates`, `StopsWhenClosed` and
`EventuallyRefuted`, which are liveness, are left to TLC, and so are the five
violations.  Every safety property of a passing run is stated by a theorem.

## Plan

1. Done: `Mealy`, `SplittingTree`, `Lca`, `AdaptiveDistinguishingSequence`,
   `SeparatingFamily`, their runs, the invariance proof.
2. Done: `Reachability`, `TransferSequences` with its proof.
3. Done: `TestSuite` and `Main`, with the promise of the suite (an implementation
   that passes is equivalent or has more states).  Left of `test_suite.cpp`:
   `randomized_test_suffix` and `default_writer`, which no program of the
   repository calls.
4. Done: `Trie` with its nodes, in the place of the set of words that
   `TestSuite` and `SeparatingFamily` used before; `ReadMealy`;
   `EquivalenceOracle`, `CountingOracle`, `ExternalProgram` and `Experiment`.
5. Done: `PartitionRefinement`, which `SplittingTree` implements.
6. Done, proofs: every safety property of `SplittingTree`, `Reachability`,
   `TransferSequences`, `ReadMealy`, `Experiment`, `Lca`,
   `AdaptiveDistinguishingSequence`, `SeparatingFamily`, `Trie`, `TestSuite` and
   `Main` that the runs check, with the promise of the suite; the refinement of `PartitionRefinement`, and that a stable
   partition is the one into classes of equivalent states.
7. Next: `partition_`: the two lists and the table of blocks, as a refinement of
   `new_blocks`.

## Not modelled

* Splitting lines and options into words, malformed numbers (a txt line without
  its fields reads variables that were never written, `read_mealy.cpp:46`), the
  readers with `check = false`, which no program asks for.
* File and console output, layout of trees (`write_tree_to_dot`, which no program
  calls), timers, `windows_getopt.h`, `GraphvizParser` (reads a file into a
  library's data structure), `trie_test` and `total_size`, which only it calls.
* `randomized_test_suffix` and `default_writer` of `test_suite.cpp`: no program of
  the repository calls them, so there is no run they could be part of.
* The inner lists of `partition_`.
* In Java: the learners and LearnLib's oracles, the thread that copies the
  standard error (nothing depends on it), the two other test methods, which are
  LearnLib's, and an `IOException` while reading.

The pseudo random generators are abstracted: every order
that a shuffle can produce is explored.
