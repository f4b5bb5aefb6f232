---- MODULE FsmDiff ----
\* The comparison of two learned models: compareTwoModels.sh takes the waits and the outputs off
\* the optimised models, scripts/ltsDiff (the FSM_diff algorithm) matches their states and draws
\* what was added and removed, and extractDeviations.py looks for input sequences that lead there.
\* The scores are abstract: the linear equations are not solved, a pair gets any score its
\* equations leave it.
EXTENDS ModelOptimiser, SequencesExt

CONSTANTS
  Cases,       \* pairs [ref, upd] of learned models that are compared
  Solvers,     \* "umfpack" (the default) and "smt" (what the scripts ask for)
  StartNode,   \* __start0
  First,       \* s0, the first state of either model
  Blank,       \* the (empty) label of the arrow from StartNode to First
  Threshold, TopScore,   \* 0.2 on a scale of 0 .. TopScore; the ratio is 1
  None

ASSUME ScoreAssumption == Threshold \in 1 .. TopScore
ASSUME CasesAssumption == \A c \in Cases : LearnedModel(c.ref) /\ LearnedModel(c.upd)
ASSUME ColorAssumption == None \notin {"green", "red"}

VARIABLES
  pc,          \* "score", "seed", "match", "draw", "extract", "done" or "failed"
  case, solver,
  fsm1, fsm2,  \* reference and updated model: sets of [from, label, to, line]
  scores,      \* pairs_to_scores
  landmarks,   \* (history) the pairs the matching started with
  kPairs, nPairs,
  graph,       \* the result: a set of [from, label, to, color, of]
  flat,        \* the DiGraph of extractDeviations: one label per pair of adjacent nodes
  coloured,    \* the coloured edges not looked at yet
  found        \* (coloured edge, deviating_input_seq)
diff == <<fsm1, fsm2, case, solver>>
diffVars == <<pc, diff, scores, landmarks, kPairs, nPairs, graph, flat, coloured, found>>

----------------------------------------------------------------------------
\* The models as they are compared: suffixes and outputs are gone from the labels, and the arrow from
\* StartNode is an edge like the others. read_dot makes a MultiDiGraph: lines that only differed in
\* what is gone stay as many edges, and line, which no part of the algorithm looks at, says which
\* one an edge is.
Stripped(lines) ==
  {[from |-> l.from, label |-> <<l.in.type, l.in.suite>>, to |-> l.to, line |-> <<l.in.wait, l.out>>] :
     l \in lines}
    \cup {[from |-> StartNode, label |-> Blank, to |-> First, line |-> <<>>]}

StatesOf(fsm) == {e.from : e \in fsm} \cup {e.to : e \in fsm}
Out(fsm, s) == {e \in fsm : e.from = s}
In(fsm, s) == {e \in fsm : e.to = s}
Pairs == StatesOf(fsm1) \X StatesOf(fsm2)

\* pair_matching_transition, for two sets of edges that leave (or enter) two states.
Matching(es1, es2) == {m \in es1 \X es2 : m[1].label = m[2].label}
OutMatching(p) == Matching(Out(fsm1, p[1]), Out(fsm2, p[2]))
InMatching(p) == Matching(In(fsm1, p[1]), In(fsm2, p[2]))

Labels(es) == {e.label : e \in es}

\* An equation without a coefficient: neither state has an edge in this direction.
Idle(p) ==
  \/ Out(fsm1, p[1]) = {} /\ Out(fsm2, p[2]) = {}
  \/ In(fsm1, p[1]) = {} /\ In(fsm2, p[2]) = {}
Matched(p) == OutMatching(p) # {} \/ InMatching(p) # {}
\* Every edge in one direction has its match: at least half of the points there, a quarter in all.
Full(p) ==
  \/ OutMatching(p) # {} /\ Labels(Out(fsm1, p[1])) = Labels(Out(fsm2, p[2]))
  \/ InMatching(p) # {} /\ Labels(In(fsm1, p[1])) = Labels(In(fsm2, p[2]))

\* The scores the equations leave a pair.
MayScore(p) ==
  IF Full(p) THEN Threshold .. TopScore
  ELSE IF Matched(p) THEN 1 .. TopScore
  ELSE IF Idle(p) THEN 0 .. TopScore
  ELSE {0}

\* Not a number: spsolve has no solution for a singular matrix, and every comparison is false.
NaN == 0 - 1
AtLeast(a, b) == a # NaN /\ b # NaN /\ a >= b

----------------------------------------------------------------------------
SurroundingPairs(p) ==
  {<<m[1].to, m[2].to>> : m \in OutMatching(p)}
    \cup {<<m[1].from, m[2].from>> : m \in InMatching(p)}

RemoveConflicts(ns, ks) == {n \in ns : \A k \in ks : n[1] # k[1] /\ n[2] # k[2]}

Around(ks) == RemoveConflicts(UNION {SurroundingPairs(k) : k \in ks}, ks)

IdentifyLandmarks ==
  {p \in Pairs : \A q \in Pairs : q[1] = p[1] /\ q # p =>
     AtLeast(scores[p], scores[q]) /\ AtLeast(scores[p], Threshold)}

Highest(ns) == {n \in ns : AtLeast(scores[n], 0) /\ \A m \in ns : ~(scores[m] > scores[n])}

----------------------------------------------------------------------------
\* added_transitions and removed_transitions.
Common(e1, e2) ==
  e1.label = e2.label /\ <<e1.from, e2.from>> \in kPairs /\ <<e1.to, e2.to>> \in kPairs
Added == {e2 \in fsm2 : ~\E e1 \in fsm1 : Common(e1, e2)}
Removed == {e1 \in fsm1 : ~\E e2 \in fsm2 : Common(e1, e2)}

\* A node is the number fresh_var makes its name from.
Position(seq, x) == CHOOSE i \in DOMAIN seq : seq[i] = x
Fresh(es, order, side) ==
  SetToSeq({s \in StatesOf(es) : \A i \in DOMAIN order : order[i][side] # s})
Node(s, fresh, order, side, count) ==
  LET named == {i \in DOMAIN order : order[i][side] = s}
  IN  IF named = {} THEN count + Position(fresh, s) ELSE Max(named)

AnnotadeEdges(es, order, side, count, color) ==
  LET fresh == Fresh(es, order, side)
  IN  {[from |-> Node(e.from, fresh, order, side, count), label |-> e.label,
        to |-> Node(e.to, fresh, order, side, count), color |-> color, of |-> <<e>>] : e \in es}

\* One edge for every pair of edges: of, which nothing reads, tells parallel ones apart.
MatchedTransitions(order) ==
  {[from |-> Position(order, <<e[1].from, e[2].from>>), label |-> e[1].label,
    to |-> Position(order, <<e[1].to, e[2].to>>), color |-> None, of |-> e] :
      e \in {f \in fsm1 \X fsm2 : Common(f[1], f[2])}}

\* A mutant of AnnotadeGraph: the red nodes are numbered from where the green ones are.
AnnotadeOver(order) ==
  MatchedTransitions(order)
    \cup AnnotadeEdges(Added, order, 2, Len(order), "green")
    \cup AnnotadeEdges(Removed, order, 1, Len(order), "red")

AnnotadeGraph(order) ==
  LET count == Len(order)
      green == Len(Fresh(Added, order, 2))
  IN  MatchedTransitions(order)
        \cup AnnotadeEdges(Added, order, 2, count, "green")
        \cup AnnotadeEdges(Removed, order, 1, count + green, "red")

----------------------------------------------------------------------------
DiffInit ==
  /\ pc = "score"
  /\ case \in Cases /\ solver \in Solvers
  /\ fsm1 = Stripped(OptimiseDotFile(case.ref)) /\ fsm2 = Stripped(OptimiseDotFile(case.upd))
  /\ scores = <<>> /\ landmarks = {} /\ kPairs = {} /\ nPairs = {}
  /\ graph = {} /\ flat = <<>> /\ coloured = {} /\ found = {}

\* compute_scores: one pair that is Idle makes the matrix singular, and umfpack gives no scores.
ComputeScores ==
  /\ pc = "score" /\ pc' = "seed"
  /\ IF solver = "umfpack" /\ \E p \in Pairs : Idle(p)
     THEN scores' = [p \in Pairs |-> NaN]
     ELSE \E open \in [{p \in Pairs : MayScore(p) # {0}} -> 0 .. TopScore] :
            /\ \A p \in DOMAIN open : open[p] \in MayScore(p)
            /\ scores' = [p \in Pairs |-> IF p \in DOMAIN open THEN open[p] ELSE 0]
  /\ UNCHANGED <<diff, landmarks, kPairs, nPairs, graph, flat, coloured, found>>

\* Lines 2-6 of the algorithm.
Seed ==
  /\ pc = "seed" /\ pc' = "match"
  /\ landmarks' = IdentifyLandmarks
  /\ LET key == <<First, First>>
     IN  kPairs' = IF landmarks' = {} /\ AtLeast(scores[key], 0) THEN {key} ELSE landmarks'
  /\ nPairs' = Around(kPairs')
  /\ UNCHANGED <<diff, scores, graph, flat, coloured, found>>

\* Lines 9-13: the best of the candidates; when none is left, those around all pairs.
Pick ==
  /\ pc = "match"
  /\ \E p \in Highest(nPairs) :
       LET rest == RemoveConflicts(nPairs, {p})
       IN  /\ kPairs' = kPairs \cup {p}
           /\ nPairs' = IF rest # {} THEN rest ELSE Around(kPairs \cup {p})
  /\ UNCHANGED <<pc, diff, scores, landmarks, graph, flat, coloured, found>>

\* The result is drawn, and extractDeviations reads it: of parallel edges the last is kept.
Draw ==
  /\ pc = "match" /\ nPairs = {} /\ pc' = "extract"
  /\ graph' = AnnotadeGraph(SetToSeq(kPairs))
  /\ coloured' = {e \in graph' : e.color # None}
  /\ LET adjacent == {<<e.from, e.to>> : e \in graph'}
     IN  flat' \in {f \in [adjacent -> {e.label : e \in graph'}] :
            \A a \in adjacent : \E e \in graph' :
              <<e.from, e.to>> = a /\ f[a] = e.label}
  /\ UNCHANGED <<diff, scores, landmarks, kPairs, nPairs, found>>

\* A node nothing leads to, with an arrow that has neither label nor colour.
StartingStates ==
  {e.from : e \in {f \in graph : f.label = Blank /\ f.color = None /\ In(graph, f.from) = {}}}

\* The walks of n steps from s.
Walks(s) ==
  LET walks[n \in 0 .. Cardinality(graph)] ==
        IF n = 0 THEN {<<s>>}
        ELSE {Append(x[1], x[2][2]) :
                x \in {y \in walks[n - 1] \X DOMAIN flat : Last(y[1]) = y[2][1]}}
  IN  walks

ShortestPaths(s, t) ==
  LET lengths == {n \in 0 .. Cardinality(graph) : \E w \in Walks(s)[n] : Last(w) = t}
  IN  IF lengths = {} THEN {} ELSE {w \in Walks(s)[Min(lengths)] : Last(w) = t}

\* The labels on the way and that of the edge, without the first blank one.
InputSeq(path, e) ==
  SelectSeq([i \in 1 .. Len(path) - 1 |-> flat[<<path[i], path[i + 1]>>]] \o <<e.label>>,
            LAMBDA label : label # Blank)

Extract ==
  /\ pc = "extract" /\ StartingStates # {}
  /\ \E e \in coloured, s \in StartingStates :
       /\ coloured' = coloured \ {e}
       /\ \/ ShortestPaths(s, e.from) = {} /\ UNCHANGED found
          \/ \E path \in ShortestPaths(s, e.from) : found' = found \cup {<<e, InputSeq(path, e)>>}
  /\ UNCHANGED <<pc, diff, scores, landmarks, kPairs, nPairs, graph, flat>>

\* Without a starting state all the paths to the edge come back, which the code does not expect;
\* only the arrow out of StartNode passes.
ExtractNoStart ==
  /\ pc = "extract" /\ StartingStates = {}
  /\ \E e \in coloured :
       /\ coloured' = coloured \ {e}
       /\ IF e.label = Blank /\ In(graph, e.from) = {}
          THEN found' = found \cup {<<e, <<>>>>} /\ UNCHANGED pc
          ELSE pc' = "failed" /\ UNCHANGED found
  /\ UNCHANGED <<diff, scores, landmarks, kPairs, nPairs, graph, flat>>

Finish ==
  /\ pc = "extract" /\ coloured = {} /\ pc' = "done"
  /\ UNCHANGED <<diff, scores, landmarks, kPairs, nPairs, graph, flat, coloured, found>>

Stop == pc \in {"done", "failed"} /\ UNCHANGED diffVars

DiffNext == ComputeScores \/ Seed \/ Pick \/ Draw \/ Extract \/ ExtractNoStart \/ Finish \/ Stop
DiffSpec == DiffInit /\ [][DiffNext]_diffVars /\ WF_diffVars(DiffNext)

----------------------------------------------------------------------------
Rivals(p, q) == p # q /\ (p[1] = q[1] \/ p[2] = q[2])
OneToOne == ~\E p, q \in kPairs : Rivals(p, q)

\* What a comparison starts from has exactly the steps to other states the learned models have,
\* but for the mixed waits.
OptimisedIsLearned == IsFaithful(case.ref) /\ IsFaithful(case.upd)

\* A merged Client Hello stands for steps that were learned; with mixed waits it does not.
SuitesMerged == MergedIsLearned(case.ref) /\ MergedIsLearned(case.upd)

\* Two pairs that share a state are both landmarks: the matching itself never gives a state a
\* second partner, and the arrows out of StartNode are matched.
MatchedOnce ==
  \A p, q \in kPairs : Rivals(p, q) => {p, q} \subseteq landmarks /\ StartNode \notin {p[1], p[2]}

\* Edges that others are parallel to, with the same label.
Twins(es) ==
  {e \in es : \E f \in es : e # f /\ <<f.from, f.label, f.to>> = <<e.from, e.label, e.to>>}

\* When no state has two partners, the result without its red edges is the updated model and
\* without its green ones the reference model, and they share the nodes of the matched states
\* only: nothing is left out, bent or taken for something else. Nothing is drawn twice but what
\* one of the models has twice.
Nodes == {e.from : e \in graph} \cup {e.to : e \in graph}
Without(color) ==
  {[from |-> e.from, label |-> e.label, to |-> e.to] : e \in {f \in graph : f.color # color}}
Renamed(fsm, name) ==
  {[from |-> name[e.from], label |-> e.label, to |-> name[e.to]] : e \in fsm}
DiffIsExact ==
  pc = "extract" /\ found = {} /\ OneToOne =>
    /\ \E name1 \in [StatesOf(fsm1) -> Nodes] :
         /\ Renamed(fsm1, name1) = Without("green")
         /\ \E name2 \in [StatesOf(fsm2) -> Nodes] :
              /\ Renamed(fsm2, name2) = Without("red")
              /\ \A p \in Pairs : p \in kPairs <=> name1[p[1]] = name2[p[2]]
         /\ \A s, t \in StatesOf(fsm1) : s # t => name1[s] # name1[t]
    /\ \A e \in Twins(graph) : \E i \in DOMAIN e.of : e.of[i] \in Twins(fsm1) \cup Twins(fsm2)

\* What the docstring of matched_k_pairs_transitions promises, "the set of transitions of the
\* k_pairs which are matched": it adds an edge for every pair of equal ones.
MatchedDrawnOnce ==
  OneToOne => \A e, f \in graph : e.color = None /\ f.color = None /\ e # f => e.of[1] # f.of[1]

\* What the docstring of remove_conflicts promises, "Prevent duplication in the list by removing a
\* pair if one of the states is already matched", holds of the candidates only: the landmarks are
\* compared by their first states, and ties all stay.
MatchedByOne == pc = "extract" => OneToOne

\* Every difference of two such models gets an input sequence, which ends with it; the extraction
\* only fails when the two first states are not each other's partners.
DifferencesFound ==
  /\ pc = "done" /\ OneToOne =>
       \A e \in graph : e.color # None => \E f \in found : f[1] = e
  /\ \A f \in found : f[2] # <<>> => Last(f[2]) = f[1].label
  /\ pc = "failed" => <<First, First>> \notin kPairs

\* The comparison ends.
Finishes == <>(pc \in {"done", "failed"})
====
