---------------------------- MODULE CountingOracle ----------------------------
(***************************************************************************)
(* CountingMembershipOracle (java/Main.java): counts queries and symbols,  *)
(* the latter in a parallel stream, and passes the queries on to an oracle *)
(* of LearnLib that answers them.  Every query has one symbol here.        *)
(***************************************************************************)
EXTENDS Integers, SequencesExt

CONSTANTS
  Threads,    \* how many queries the stream works on at the same time
  MaxCount    \* bound: the counters stay there

ASSUME ThreadsAssumption == Threads \in Nat \ {0}
ASSUME MaxCountAssumption == MaxCount \in Nat

VARIABLES
  queries, symbols,
  waiting,     \* queries of the collection the stream has not taken yet
  loaded,      \* query -> the value of symbols that its thread has read
  oracle_pc    \* "idle", "counting", "answered"

counters == <<queries, symbols>>
oracle_vars == <<counters, waiting, loaded, oracle_pc>>

Capped(n) == IF n < MaxCount THEN n ELSE MaxCount

OracleInit ==
  /\ queries = 0 /\ symbols = 0
  /\ waiting = {} /\ loaded = <<>>
  /\ oracle_pc = "idle"

(* processQueries is called: the first line of it.                         *)
BeginQueries(collection) ==
  /\ queries' = Capped(queries + Len(collection))
  /\ waiting' = DOMAIN collection
  /\ oracle_pc' = "counting"
  /\ UNCHANGED <<symbols, loaded>>

(* symbols += ... of one thread: it reads,                                 *)
LoadSymbols == \E q \in waiting :
  /\ oracle_pc = "counting"
  /\ Cardinality(DOMAIN loaded) < Threads
  /\ waiting' = waiting \ {q}
  /\ loaded' = [r \in DOMAIN loaded \cup {q} |->
                IF r = q THEN symbols ELSE loaded[r]]
  /\ UNCHANGED <<counters, oracle_pc>>

(* and writes.                                                             *)
StoreSymbols == \E q \in DOMAIN loaded :
  /\ oracle_pc = "counting"
  /\ symbols' = Capped(loaded[q] + 1)
  /\ loaded' = Restrict(loaded, DOMAIN loaded \ {q})
  /\ UNCHANGED <<queries, waiting, oracle_pc>>

(* forEach waits for all threads; then the delegate answers all queries.   *)
Delegate ==
  /\ oracle_pc = "counting"
  /\ waiting = {} /\ loaded = <<>>
  /\ oracle_pc' = "answered"
  /\ UNCHANGED <<counters, waiting, loaded>>

QueriesReturn ==
  /\ oracle_pc = "answered"
  /\ oracle_pc' = "idle"
  /\ UNCHANGED <<counters, waiting, loaded>>

logAndReset ==
  /\ queries' = 0 /\ symbols' = 0
  /\ UNCHANGED <<waiting, loaded, oracle_pc>>

OracleStep == LoadSymbols \/ StoreSymbols \/ Delegate

===============================================================================
