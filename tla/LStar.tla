---- MODULE LStar ----
(***************************************************************************)
(* The learning loop of quicLearner/aalpy: run_Lstar for a Mealy machine,  *)
(* with the observation table, Rivest-Schapire counterexample processing,  *)
(* the query cache and the random-walk equivalence oracle, as              *)
(* quicLearner/learner.py:597 calls it.  What a query does on its way to   *)
(* the server is the subject of LearnerMapper; here the system under       *)
(* learning is a Mealy machine that may now and then give a wrong answer.  *)
(*                                                                         *)
(* A row of the table is a word; T maps it to the outputs of the suffixes  *)
(* E, in the order of E.  The order of the rows is left out, since it only *)
(* decides which queries the cache saves: S and SDotA are sets.  The       *)
(* hypothesis is not stored either: it is a function of a table that does  *)
(* not change while the hypothesis is in use.                              *)
(***************************************************************************)
EXTENDS Integers, SequencesExt

CONSTANTS
  Alphabet,   \* the input letters, in the order of the list
  Outputs,    \* the output letters
  States,     \* the states of the machines that may be under learning
  Start,      \* their initial state
  Machines,   \* the machines, with fields "to" and "out"
  Flaky,      \* bound: wrong answers of the system under learning
  StepLimit   \* bound: num_steps of the oracle

Letters == ToSet(Alphabet)
Words == Seq(Letters)

ASSUME LStarAssumption ==
  /\ Alphabet \in Seq(Letters) \ {<<>>}
  /\ IsFiniteSet(States) /\ Start \in States /\ Flaky \in Nat /\ StepLimit \in Nat
  /\ Machines \subseteq [to : [States \X Letters -> States],
                         out : [States \X Letters -> Outputs]]

VARIABLES
  machine,    \* the system under learning
  flaky,      \* wrong answers it may still give
  cache,      \* CacheTree: the output at the end of every path of the tree
  S, E, T,    \* the observation table
  todo,       \* the rows update_obs_table has yet to fill,
  suffixes,   \* the suffixes it asks of each,
  col,        \* and the suffix it is at
  rounds,     \* learning_rounds
  phase,      \* where run_Lstar is
  walk,       \* inputs of the oracle's walk, then the counterexample
  at,         \* the hypothesis's current state, by its prefix
  walked,     \* random_steps_done
  bounds      \* lower and upper of the search in the counterexample

table == <<S, E, T, todo, suffixes, col, rounds>>
oracle == <<walk, at, walked, bounds>>
vars == <<machine, flaky, cache, table, phase, oracle>>

----------------------------------------------------------------------------
\* The system under learning

\* The states a word leads to from q, letter by letter, and the last of them.
Visits(to, q, w) ==
  LET visit[i \in Nat] == IF i = 0 THEN q ELSE to[<<visit[i - 1], w[i]>>] IN visit
RunFrom(to, q, w) == Visits(to, q, w)[Len(w)]

\* The outputs on the way, from q and from the initial state.
OutputsFrom(q, w) ==
  [i \in DOMAIN w |-> machine.out[<<RunFrom(machine.to, q, SubSeq(w, 1, i - 1)), w[i]>>]]
TrueAnswer(w) == OutputsFrom(Start, w)

\* One run of the system: the answers of the machine, with one of them wrong
\* if it may be.
Answers(w) ==
  {TrueAnswer(w)} \cup
  (IF flaky = 0 THEN {}
   ELSE {[TrueAnswer(w) EXCEPT ![i] = o] : i \in DOMAIN w, o \in Outputs})
FlakyAfter(w, out) == IF out = TrueAnswer(w) THEN flaky ELSE flaky - 1

----------------------------------------------------------------------------
\* The cache

Paths(w) == {SubSeq(w, 1, i) : i \in DOMAIN w}
InCache(w) == Paths(w) \subseteq DOMAIN cache
Conflict(w, out) == \E v \in Paths(w) \cap DOMAIN cache : cache[v] # out[Len(v)]
CacheWithLast(w, out) ==    \* (mutant)
  [v \in DOMAIN cache \cup Paths(w) |->
     IF v \in DOMAIN cache THEN cache[v] ELSE out[Len(w)]]
CacheWith(w, out) ==
  [v \in DOMAIN cache \cup Paths(w) |->
     IF v \in DOMAIN cache THEN cache[v] ELSE out[Len(v)]]

\* The last output of CacheSUL.query(w) is o: from the tree, or from the
\* system if its answer does not contradict the tree.
Query(w, o) ==
  \/ /\ InCache(w)
     /\ o = cache[w]
     /\ UNCHANGED <<flaky, cache>>
  \/ /\ ~InCache(w)
     /\ \E out \in Answers(w) :
          /\ ~Conflict(w, out)
          /\ o = out[Len(w)]
          /\ flaky' = FlakyAfter(w, out)
          /\ cache' = CacheWith(w, out)

\* A contradiction raises SystemExit, which nothing catches.
QueryExits(w) ==
  /\ ~InCache(w)
  /\ \E out \in Answers(w) : Conflict(w, out) /\ flaky' = FlakyAfter(w, out)
  /\ phase' = "aborted"
  /\ UNCHANGED <<machine, cache, table, oracle>>

----------------------------------------------------------------------------
\* The observation table

Row(w) == IF w \in DOMAIN T THEN T[w] ELSE <<>>

\* s_dot_a: the extensions of S that are not in S.
Extensions(rows) == {Append(s, a) : s \in rows, a \in Letters}
SDotA == Extensions(S) \ S

\* The row values of S.A that S lacks: the table is closed if there is none.
MissingRows == {Row(w) : w \in SDotA} \ {Row(s) : s \in S}

\* get_rows_to_close: an extension for every row value S lacks.
RowsToClose(new) ==
  \E pick \in [MissingRows -> SDotA] :
    /\ \A r \in MissingRows : Row(pick[r]) = r
    /\ new = {pick[r] : r \in MissingRows}

\* update_obs_table for a set of rows and the suffixes es.
UpdateObsTableReversed(rows, es) ==    \* (mutant)
  /\ todo' = rows
  /\ suffixes' = Reverse(es)
  /\ col' = 1
UpdateObsTable(rows, es) ==
  /\ todo' = rows
  /\ suffixes' = es
  /\ col' = 1

\* gen_hypothesis: the states are S, told apart by their rows.
HypStep(s, a) == CHOOSE v \in S : Row(v) = Row(Append(s, a))
IndexOf(a) == CHOOSE i \in DOMAIN E : E[i] = <<a>>
HypOut(s, a) == Row(s)[IndexOf(a)]
HypAfter(w) == RunFrom([x \in S \X Letters |-> HypStep(x[1], x[2])], <<>>, w)

----------------------------------------------------------------------------
Init ==
  /\ machine \in Machines
  /\ flaky = Flaky
  /\ cache = <<>> /\ T = <<>>
  /\ S = {<<>>}
  /\ E = [j \in DOMAIN Alphabet |-> <<Alphabet[j]>>]
  /\ todo = S \cup SDotA /\ suffixes = E /\ col = 1
  /\ rounds = 1
  /\ phase = "table"
  /\ walk = <<>> /\ at = <<>> /\ walked = 0 /\ bounds = <<0, 0>>

\* update_obs_table asks the next suffix of a row that is shorter than E, and
\* appends the answer to the row.
FillCell ==
  /\ phase = "table" /\ todo # {}
  /\ LET s == CHOOSE r \in todo : TRUE
         w == s \o suffixes[col]
         isFull == Len(Row(s)) = Len(E)
     IN  \/ /\ IF isFull
               THEN UNCHANGED <<flaky, cache, T>>
               ELSE \E o \in Outputs :
                      /\ Query(w, o)
                      /\ T' = [v \in DOMAIN T \cup {s} |->
                                 IF v = s THEN Append(Row(s), o) ELSE T[v]]
            /\ IF col < Len(suffixes)
               THEN col' = col + 1 /\ todo' = todo
               ELSE col' = 1 /\ todo' = todo \ {s}
            /\ UNCHANGED <<machine, S, E, suffixes, rounds, phase, oracle>>
         \/ ~isFull /\ QueryExits(w)

\* A table that is not closed: the rows it lacks join S.
CloseTable ==
  /\ phase = "table" /\ todo = {}
  /\ MissingRows # {}
  /\ \E new \in SUBSET SDotA :
       /\ RowsToClose(new)
       /\ S' = S \cup new
       /\ UpdateObsTable(Extensions(new), E)
  /\ UNCHANGED <<machine, flaky, cache, E, T, rounds, phase, oracle>>

\* A closed table gives a hypothesis, and the oracle starts its walk.
GenHypothesis ==
  /\ phase = "table" /\ todo = {}
  /\ MissingRows = {}
  /\ phase' = "oracle"
  /\ UNCHANGED <<machine, flaky, cache, table, oracle>>

\* A step of find_cex, after a reset or not.
OracleStep ==
  /\ phase = "oracle" /\ walked < StepLimit
  /\ \E reset \in BOOLEAN, a \in Letters :
       LET w == IF reset THEN <<a>> ELSE Append(walk, a)
           s == IF reset THEN <<>> ELSE at
       IN  \E out \in Answers(w) :
             /\ Front(out) = Front(TrueAnswer(w))
             /\ flaky' = FlakyAfter(w, out)
             /\ IF w \in DOMAIN cache /\ cache[w] # Last(out)
                THEN /\ phase' = "aborted"
                     /\ UNCHANGED <<cache, oracle>>
                ELSE /\ cache' = [v \in DOMAIN cache \cup {w} |->
                                    IF v \in DOMAIN cache THEN cache[v] ELSE Last(out)]
                     /\ walk' = w
                     /\ IF Last(out) # HypOut(s, a)
                        THEN /\ phase' = "split"
                             /\ bounds' = <<1, Len(w) - 2>>
                             /\ walked' = 0
                             /\ at' = <<>>
                        ELSE /\ walked' = walked + 1
                             /\ at' = HypStep(s, a)
                             /\ UNCHANGED <<phase, bounds>>
  /\ UNCHANGED <<machine, table>>

\* num_steps without a difference: find_cex returns None and learning ends.
OracleEndsLate ==    \* (mutant)
  /\ phase = "oracle" /\ walked > StepLimit
  /\ phase' = "done"
  /\ UNCHANGED <<machine, flaky, cache, table, oracle>>
OracleEnds ==
  /\ phase = "oracle" /\ walked = StepLimit
  /\ phase' = "done"
  /\ UNCHANGED <<machine, flaky, cache, table, oracle>>

\* The suffixes of d that are not in E yet, longest first.
NewSuffixes(d) ==
  LET fresh == {SubSeq(d, i, Len(d)) : i \in DOMAIN d} \ ToSet(E)
  IN  {new \in [1..Cardinality(fresh) -> fresh] :
         \A i, j \in DOMAIN new : i < j => Len(new[i]) > Len(new[j])}

\* The access word of the state the hypothesis is in after mid letters.
Bracket(mid) == HypAfter(SubSeq(walk, 1, mid))

\* The search of rs_cex_processing goes on between lower and upper, or ends:
\* the new suffixes of the one found join E.
Narrow(lower, upper, suffix) ==
  IF lower <= upper
  THEN /\ bounds' = <<lower, upper>>
       /\ UNCHANGED <<table, phase, walk>>
  ELSE /\ \E new \in NewSuffixes(suffix) :
            /\ E' = E \o new
            /\ UpdateObsTable(S \cup SDotA, IF new = <<>> THEN E ELSE new)
       /\ rounds' = rounds + 1
       /\ phase' = "table"
       /\ walk' = <<>> /\ bounds' = <<0, 0>>
       /\ UNCHANGED <<S, T>>

\* One halving of the counterexample.
SplitStep ==
  /\ phase = "split"
  /\ LET mid == (bounds[1] + bounds[2]) \div 2
         d == SubSeq(walk, mid + 1, Len(walk))
         w == Bracket(mid) \o d
     IN  \/ /\ \E o \in Outputs :
                 /\ Query(w, o)
                 /\ IF o = cache[walk]
                    THEN Narrow(mid + 1, bounds[2], Tail(d))
                    ELSE Narrow(bounds[1], mid - 1, d)
            /\ UNCHANGED <<machine, at, walked>>
         \/ QueryExits(w)

Next == FillCell \/ CloseTable \/ GenHypothesis \/ OracleStep \/ OracleEnds \/ SplitStep

Spec == Init /\ [][Next]_vars

\* run_Lstar is one thread that waits for nothing but the answers of its
\* queries, and LearnerMapper's StepReturns says that these come.
FairSpec == Spec /\ WF_vars(Next)

----------------------------------------------------------------------------
\* Properties

TypeOK ==
  /\ machine \in Machines /\ flaky \in 0..Flaky
  /\ DOMAIN cache \subseteq Words \ {<<>>} /\ Range(cache) \subseteq Outputs
  /\ S \in SUBSET Words /\ E \in Seq(Words \ {<<>>})
  /\ DOMAIN T \subseteq Words /\ Range(T) \subseteq Seq(Outputs)
  /\ todo \in SUBSET Words /\ suffixes \in Seq(Words) /\ col \in 1..Len(suffixes)
  /\ rounds \in Nat \ {0}
  /\ phase \in {"table", "oracle", "split", "done", "aborted"}
  /\ walk \in Words /\ at \in S
  /\ walked \in 0..StepLimit /\ bounds \in Int \X Int

\* Each output of the table is the one the system gave after exactly the row
\* and the suffix it stands under: update_obs_table appends outputs by their
\* place in E, and only queries while a row is shorter than E
\* (ObservationTable.py:143-145).
TableMatchesCache ==
  \A s \in DOMAIN T : \A i \in DOMAIN T[s] :
    LET w == s \o E[i] IN w \in DOMAIN cache /\ cache[w] = T[s][i]

\* No two rows of S are the same, which gen_hypothesis relies on when it is
\* told not to look for duplicates: "it ensures that no two rows in the S set
\* are the same" (ObservationTable.py:167-168).
RowsOfSDiffer ==
  todo = {} => \A s, t \in S : s # t => Row(s) # Row(t)

\* A hypothesis answers every cell of the table as the table does: every row,
\* also of S.A, leads to the state of its value (gen_hypothesis).
HypothesisFitsTable ==
  phase \in {"oracle", "split", "done"} =>
    \A s \in DOMAIN T : \A i \in DOMAIN E :
      LET w == s \o E[i] IN HypOut(HypAfter(Front(w)), Last(w)) = T[s][i]

\* The search of rs_cex_processing starts at one and ends two letters before
\* the end (CounterExampleProcessing.py:62-63): no counterexample is too short
\* for it, however the oracle walks and whatever the system answers.
CexIsLongEnough == phase = "split" => Len(walk) >= 3 /\ bounds[1] <= bounds[2]

\* Every counterexample adds a state: a round never repeats the hypothesis of
\* the round before it, even if an answer was wrong.
RoundsGrow == phase \in {"oracle", "split", "done"} => Cardinality(S) >= rounds

\* The states of the machine that some word tells apart, for words as long as
\* it has states.
Distinguishable ==
  {[w \in SeqOf(Letters, Cardinality(States)) |-> OutputsFrom(q, w)] : q \in States}

\* With right answers S never has more rows than the smallest machine of the
\* same behaviour has states, and a hypothesis of that size is that machine.
HypothesisIsMinimal ==
  flaky = Flaky =>
    /\ Cardinality(S) <= Cardinality(Distinguishable)
    /\ phase \in {"oracle", "split", "done"} /\ Cardinality(S) = Cardinality(Distinguishable) =>
         \A w \in SeqOf(Letters, 2 * Cardinality(States) - 1) \ {<<>>} :
           HypOut(HypAfter(Front(w)), Last(w)) = Last(TrueAnswer(w))

\* Learning is given up only because of an answer that was wrong: a
\* deterministic server is never reported as non-deterministic
\* (CacheTree.py:57).
OnlyFlakyAborts == phase = "aborted" => flaky < Flaky

\* run_Lstar ends.
Ends == <>(phase \in {"done", "aborted"})
====
