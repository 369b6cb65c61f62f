---------------------------- MODULE MachineTheory ----------------------------
(***************************************************************************)
(* What the results of the algorithms are measured against: equivalence of *)
(* states, the existence of an adaptive distinguishing sequence, and that  *)
(* all states can be reached.  None of this is in the code.                *)
(***************************************************************************)
EXTENDS Mealy

(* Pairs of states that no word of length k or less tells apart.           *)
EquivalentUpTo(m, k) ==
  LET eq[n \in 0 .. k] ==
        IF n = 0 THEN State \X State
        ELSE {p \in eq[n - 1] : \A a \in Input :
                /\ m[p[1]][a].out = m[p[2]][a].out
                /\ <<m[p[1]][a].to, m[p[2]][a].to>> \in eq[n - 1]}
  IN  eq[k]

(* N - 1 symbols suffice to tell any two inequivalent states apart.        *)
Equivalence(m) == EquivalentUpTo(m, N - 1)
Classes(m) == {{t \in State : <<s, t>> \in Equivalence(m)} : s \in State}
Minimal(m) == Classes(m) = {{s} : s \in State}

(* Two states of B that answer a alike and go to the same state.           *)
Merges(m, B, a) == \E s, t \in B : s # t /\ m[s][a] = m[t][a]

(* The states after a, of those states of B that answer y.                 *)
After(m, B, a, y) == {m[t][a].to : t \in {s \in B : m[s][a].out = y}}

(* The sets that one symbol divides into sets of R, and those of R.        *)
StepResolvable(m, R) ==
  R \cup {B \in SUBSET State : \E a \in Input :
            ~ Merges(m, B, a) /\ \A y \in Output : After(m, B, a, y) \in R}

(* The sets of states that an adaptive experiment of at most k symbols     *)
(* resolves: some symbol merges no two states that answer it alike, and    *)
(* every answer leaves a set that can be resolved in the rest of the time. *)
Resolvable(m, k) ==
  LET res[n \in 0 .. k] ==
        IF n = 0 THEN {{}} \cup {{s} : s \in State}
                 ELSE StepResolvable(m, res[n - 1])
  IN  res[k]

(* An experiment that resolves all states is an adaptive distinguishing    *)
(* sequence.  N - 1 times N - 1 symbols are enough, if any number is.      *)
HasADS(m) == State \in Resolvable(m, (N - 1) * (N - 1))

(* From the start every state can be reached, as reachable_submachine sees *)
(* to: no smaller set of states with the start is closed under all inputs. *)
ReachesAll(m) ==
  \A S \in SUBSET State :
    0 \in S /\ (\A s \in S, a \in Input : m[s][a].to \in S) => S = State

=============================================================================
