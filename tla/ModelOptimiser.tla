---- MODULE ModelOptimiser ----
\* Post-processing of a learned model (optimiseModel.py, S&P'24 version): transitions that stay
\* where they are go, transitions that differ only in how long the mapper waits are drawn once,
\* and the Client Hellos of all three cipher suites are drawn as one.
EXTENDS Naturals, FiniteSets

CONSTANTS
  Suites,    \* the cipher suites a Client Hello is sent with (three in the dictionaries)
  AnySuite,  \* the suite of a Client Hello that stands for all of them
  NoSuite,   \* the suite of every other letter
  AnyWait    \* the wait of a letter without a suffix; the others are "short" and "long"

ASSUME SuitesAssumption ==
  /\ {AnySuite, NoSuite} \cap Suites = {} /\ AnySuite # NoSuite
  /\ IsFiniteSet(Suites) /\ Cardinality(Suites) = 3
ASSUME WaitAssumption == AnyWait \notin {"short", "long"}

\* The transition [from, in, out, to] is a line of the .dot file; in = [type, suite, wait] is a
\* letter. The type of a letter says whether it has a suite and whether it has a suffix, which all
\* letters but those for the mapper itself get (generateInputDictionary). The arrow from __start0
\* to the first state and the lines of the states pass untouched.
LearnedModel(lines) ==
  /\ IsFiniteSet(lines)
  /\ \A l \in lines :
       /\ l = [from |-> l.from, in |-> l.in, out |-> l.out, to |-> l.to]
       /\ l.in = [type |-> l.in.type, suite |-> l.in.suite, wait |-> l.in.wait]
       /\ l.in.suite \in Suites \cup {NoSuite} /\ l.in.wait \in {"short", "long", AnyWait}
       /\ \A m \in lines : l.in.type = m.in.type =>
            /\ l.in.suite \in Suites <=> m.in.suite \in Suites
            /\ l.in.wait = AnyWait <=> m.in.wait = AnyWait

Same(l, m) == l.from = m.from /\ l.to = m.to /\ l.out = m.out

OtherWait(lines, l) ==
  \E m \in lines : Same(l, m) /\ m.in # l.in /\ m.in.type = l.in.type /\ m.in.suite = l.in.suite

MergeWaits(lines) ==
  {IF OtherWait(lines, l) THEN [l EXCEPT !.in.wait = AnyWait] ELSE l :
     l \in {m \in lines : m.from # m.to}}

\* The Client Hellos of the other suites that do the same as l.
OtherSuites(lines, l) ==
  {m \in lines : Same(l, m) /\ m.in.type = l.in.type /\ m.in.suite \in Suites \ {l.in.suite}}

\* A mutant of AllSame: two suites are enough.
CountsTwo(lines, l) == l.in.suite \in Suites /\ Cardinality(OtherSuites(lines, l)) >= 1

\* The counting stops at three: l and two more.
AllSame(lines, l) == l.in.suite \in Suites /\ Cardinality(OtherSuites(lines, l)) >= 2

MergeSuites(lines) ==
  {IF AllSame(lines, l) THEN [l EXCEPT !.in.suite = AnySuite] ELSE l : l \in lines}

OptimiseDotFile(lines) == MergeSuites(MergeWaits(lines))

----------------------------------------------------------------------------
\* The letters a line of the optimised model stands for.
Covers(in, letter) ==
  /\ letter.type = in.type
  /\ in.suite \in {letter.suite, AnySuite}
  /\ in.wait \in {letter.wait, AnyWait}

\* What the merging of suites may add: lines of which some were drawn without a wait and some
\* with one.
MixedWaits(lines, l) ==
  \E m \in MergeWaits(lines) :
    Same(l, m) /\ m.in.type = l.in.type /\ m.in.suite \in Suites /\ m.in.wait # l.in.wait

\* No step to another state is lost by the optimiser, and none is invented, with one exception: a
\* Client Hello whose three suites were merged over the waits to a different extent (MixedWaits;
\* then MergedIsLearned fails).
IsFaithful(lines) ==
  /\ \A l \in lines : l.from # l.to =>
       \E m \in OptimiseDotFile(lines) : Same(l, m) /\ Covers(m.in, l.in)
  /\ \A m \in OptimiseDotFile(lines), letter \in {l.in : l \in lines} :
       Covers(m.in, letter) /\ ~MixedWaits(lines, m) => \E l \in lines : Same(l, m) /\ l.in = letter

\* What the comment on the merging of suites says, "if 3 of the ciphger suite lead to same nextState
\* from same previousState and have same output, merge them": a merged Client Hello does what is
\* drawn with each of the suites.
MergedIsLearned(lines) ==
  \A m \in OptimiseDotFile(lines), letter \in {l.in : l \in lines} :
    m.in.suite = AnySuite /\ Covers(m.in, letter) => \E l \in lines : Same(l, m) /\ l.in = letter
====
