-------------------------- MODULE TransferSequences --------------------------
(***************************************************************************)
(* create_transfer_sequences (lib/transfer_sequences.cpp): a word for      *)
(* every state that leads to it.  The search takes states from a list of   *)
(* work at a place drawn at random from [q_min, q_max] of its length, and  *)
(* goes through the inputs in an order that may be shuffled each time.     *)
(*                                                                         *)
(* One step is one turn of a loop: Pop of the while, TryInput of the for.  *)
(***************************************************************************)
EXTENDS Mealy, SequencesExt

CONSTANTS
  start,     \* the state the words start from, 0 in main
  Options,   \* the options the function may be called with
  Machines   \* the machines the function may be called with

(* All options of the program have ends of the range for q_min and q_max.  *)
transfer_options == [q_min : 0 .. 1, q_max : 0 .. 1, randomized : BOOLEAN]

ASSUME StartAssumption == start \in State
ASSUME OptionsAssumption ==
  Options \subseteq {o \in transfer_options : o.q_min <= o.q_max}
ASSUME MachinesAssumption == Machines \subseteq Machine

canonical_transfer_sequences ==
  [q_min |-> 0, q_max |-> 0, randomized |-> FALSE]
minimal_transfer_sequences ==
  [q_min |-> 0, q_max |-> 0, randomized |-> TRUE]
buggy_transfer_sequences ==
  [q_min |-> 0, q_max |-> 1, randomized |-> TRUE]
longest_transfer_sequences ==
  [q_min |-> 1, q_max |-> 1, randomized |-> TRUE]

VARIABLES
  machine,      \* the same during the whole call
  opt,          \* the options, the same during the whole call
  added,        \* the states that have a word
  words,        \* state -> word
  all_inputs,   \* the inputs, in the order they are tried
  work,         \* the states whose successors are still to be looked at
  u,            \* the state popped last
  tried,        \* how many inputs have been tried for u
  pc            \* "pop", "inputs", or "returned" when the call is over

vars == <<machine, opt, added, words, all_inputs, work, u, tried, pc>>

InOrder == [k \in 1 .. P |-> k - 1]
Orders  == {f \in [1 .. P -> Input] : \A a \in Input : \E k \in 1 .. P : f[k] = a}

Init ==
  /\ machine \in Machines
  /\ opt \in Options
  /\ added = {start}
  /\ words = [s \in State |-> <<>>]
  /\ all_inputs = InOrder
  /\ work = <<start>>
  /\ u = start
  /\ tried = 0
  /\ pc = "pop"

(* clamp_to_size_t, which keeps the place below the length of the list     *)
(* when the sample is 1.                                                   *)
clamp(x, min, max) == IF x >= max THEN max ELSE IF x <= min THEN min ELSE x

(* Mutant: the last place whatever the options are.                        *)
PlacesBack == {Len(work)}

(* The places the sample can select, counted from 1.                       *)
Places ==
  {1 + clamp(x, 0, Len(work) - 1) :
     x \in Len(work) * opt.q_min .. Len(work) * opt.q_max}

(* Mutant: the states before the place are lost with it.                   *)
EraseUpTo(k) == SubSeq(work, k + 1, Len(work))

Erase(k) == RemoveAt(work, k)

(* Mutant: the inputs are shuffled whatever the options are.               *)
AnyOrder == Orders

NextOrder == IF opt.randomized THEN Orders ELSE {all_inputs}

Pop ==
  /\ pc = "pop" /\ work # <<>>
  /\ \E k \in Places : u' = work[k] /\ work' = Erase(k)
  /\ all_inputs' \in NextOrder
  /\ tried' = 0
  /\ pc' = "inputs"
  /\ UNCHANGED <<machine, opt, added, words>>

(* The input whose turn it is, and the state it leads to.                  *)
input == all_inputs[tried + 1]
v     == machine[u][input].to

(* Mutant: one turn too many.                                              *)
IsPastLast == tried = P

IsLast == tried + 1 = P

(* Mutant: the place of the input in the shuffled list, not the input.     *)
ExtendByPlace == [words EXCEPT ![v] = Append(words[u], tried)]

Extended == [words EXCEPT ![v] = Append(words[u], input)]

(* Mutant: the word is written before the state is looked up.              *)
TryInputOverwriting ==
  /\ pc = "inputs"
  /\ words' = Extended
  /\ IF v \in added
       THEN UNCHANGED <<added, work>>
       ELSE /\ work' = Append(work, v)
            /\ added' = added \cup {v}
  /\ tried' = tried + 1
  /\ pc' = IF IsLast THEN "pop" ELSE "inputs"
  /\ UNCHANGED <<machine, opt, all_inputs, u>>

TryInput ==
  /\ pc = "inputs"
  /\ IF v \in added
       THEN UNCHANGED <<added, words, work>>
       ELSE /\ work' = Append(work, v)
            /\ added' = added \cup {v}
            /\ words' = Extended
  /\ tried' = tried + 1
  /\ pc' = IF IsLast THEN "pop" ELSE "inputs"
  /\ UNCHANGED <<machine, opt, all_inputs, u>>

Finish ==
  /\ pc = "pop" /\ work = <<>>
  /\ pc' = "returned"
  /\ UNCHANGED <<machine, opt, added, words, all_inputs, work, u, tried>>

Next == Pop \/ TryInput \/ Finish

Spec == Init /\ [][Next]_vars

-----------------------------------------------------------------------------
(* The variables keep their types; the for loop never runs past the        *)
(* alphabet.                                                               *)
TypeOK ==
  /\ machine \in Machine
  /\ opt \in transfer_options
  /\ added \in SUBSET State
  /\ words \in [State -> Word]
  /\ all_inputs \in Orders
  /\ work \in Seq(State)
  /\ u \in State
  /\ tried \in 0 .. P
  /\ pc \in {"pop", "inputs", "returned"}
  /\ pc = "inputs" => tried < P

(* States whose successors have all been looked at.                        *)
Done == {s \in added : s \notin ToSet(work) /\ ~ (pc = "inputs" /\ s = u)}

(* Popping at any place and pushing behind loses no state and looks at     *)
(* none twice: whatever was not popped is in the list once, and what was   *)
(* popped has only successors with a word.                                 *)
WorkIsFrontier ==
  /\ ToSet(work) \subseteq added
  /\ \A j, k \in DOMAIN work : work[j] = work[k] => j = k
  /\ pc = "inputs" => u \in added /\ u \notin ToSet(work)
  /\ \A s \in Done : \A a \in Input : machine[s][a].to \in added
  /\ pc = "inputs" =>
       \A k \in 1 .. tried : machine[u][all_inputs[k]].to \in added

(* "state -> sequence going to that state": the word of a state leads to   *)
(* it, in whatever order the states and the inputs were taken.             *)
WordsLeadThere ==
  \A s \in added : applyWord(machine, start, words[s]).to = s

(* "forming a tree": the word of a state extends the final word of another *)
(* state by one symbol, so no word changes after it has been extended.     *)
WordsFormTree ==
  /\ words[start] = <<>>
  /\ \A s \in added \ {start} : \E t \in added \ ToSet(work) : \E a \in Input :
       words[s] = Append(words[t], a)

Closed(S) == start \in S /\ \A s \in S, a \in Input : machine[s][a].to \in S
Reachable == {s \in State : \A S \in SUBSET State : Closed(S) => s \in S}

(* The function gives every state that can be reached a word, and no other *)
(* state: the tests index the result by all states of the machine.         *)
EveryStateHasWord == pc = "returned" => added = Reachable

-----------------------------------------------------------------------------
(* The order of the alphabet, on words of the same length.                 *)
Before(x, y) ==
  \E k \in DOMAIN x : x[k] < y[k] /\ \A j \in 1 .. k - 1 : x[j] = y[j]

(* "[0,0] is a bfs (minimal)": no shorter word leads to the state; and with *)
(* the option lexmin of main, canonical_transfer_sequences, no word of the *)
(* same length that comes before it in the order of the alphabet.          *)
WordsAreLeast ==
  opt.q_max = 0 =>
    \A s \in added : \A n \in 0 .. Len(words[s]) : \A w \in [1 .. n -> Input] :
      applyWord(machine, start, w).to = s =>
        /\ n = Len(words[s])
        /\ ~ opt.randomized => ~ Before(w, words[s])

=============================================================================
