---- MODULE ModelProofs ----
(***************************************************************************)
(* Learned models.  The observation table of L* holds what the system      *)
(* answered, and its rows tell the states of the hypothesis apart,         *)
(* whatever the alphabet, the machine, the oracle's walks and the wrong    *)
(* answers; learning is given up only after a wrong answer, and a          *)
(* hypothesis with as many states as the machine has different ones        *)
(* answers every word as the machine does.  What is done with two learned  *)
(* models afterwards, the merging of transitions and the drawing of their  *)
(* differences, neither loses nor invents anything, whatever the models    *)
(* and the scores by which their states are matched.                       *)
(***************************************************************************)
EXTENDS LStar, FsmDiff, SequenceTheorems, FiniteSetTheorems,
        WellFoundedInduction, TLAPS

----------------------------------------------------------------------------
\* The inductive invariant.

\* The row being filled, and the suffixes the rows to do already have.
Current == CHOOSE r \in todo : TRUE
Base == Len(E) - Len(suffixes)

Types ==
  /\ S \subseteq Words /\ todo \subseteq Words
  /\ E \in Seq(Words \ {<<>>}) /\ suffixes \in Seq(Words \ {<<>>})
  /\ \A s \in DOMAIN T : T[s] \in Seq(Outputs)
  /\ col \in 1..Len(suffixes)
  /\ phase \in {"table", "oracle", "split", "done", "aborted"}
  /\ phase \in {"oracle", "split", "done"} => todo = {}

\* The suffixes asked for are the last ones of E.
SuffixesAreLast ==
  /\ Len(suffixes) <= Len(E)
  /\ \A j \in 1..Len(suffixes) : suffixes[j] = E[Base + j]

\* How long the rows are: full, or as the loop of update_obs_table has them.
RowLengths ==
  /\ \A r \in todo : r # Current => Len(Row(r)) \in {Base, Len(E)}
  /\ todo # {} => Len(Row(Current)) \in {Base + col - 1, Len(E)}
  /\ \A r \in DOMAIN T \ todo : Len(T[r]) = Len(E)

\* The rows are S and its extensions, and no others.
RowsAreTable ==
  /\ S \cup Extensions(S) \subseteq todo \cup DOMAIN T
  /\ todo \cup DOMAIN T \subseteq S \cup Extensions(S)

\* Two rows of S differ in an output both have.
RowsDifferSomewhere ==
  \A s, t \in S : s # t =>
    \E i \in DOMAIN Row(s) \cap DOMAIN Row(t) : Row(s)[i] # Row(t)[i]

\* The counterexample and the search in it.
SearchOK ==
  /\ walk \in Words
  /\ phase = "split" =>
       /\ walk # <<>>
       /\ bounds \in Int \X Int
       /\ bounds[1] >= 1 /\ bounds[2] >= -1 /\ bounds[2] <= Len(walk) - 2
       /\ bounds[1] = 1 \/ bounds[1] <= bounds[2]

IInv ==
  /\ Types /\ SuffixesAreLast /\ RowLengths /\ RowsAreTable
  /\ RowsDifferSomewhere /\ SearchOK /\ TableMatchesCache

----------------------------------------------------------------------------
\* Words and queries.

\* A word and a suffix make a word, which is one of its own paths.
LEMMA WordWithSuffix ==
  ASSUME NEW s \in Words, NEW e \in Words \ {<<>>}
  PROVE  /\ s \o e \in Words /\ s \o e # <<>>
         /\ s \o e \in Paths(s \o e)
<1>. DEFINE w == s \o e
<1>1. w \in Seq(Letters) /\ Len(w) = Len(s) + Len(e)
  BY ConcatProperties DEF Words
<1>2. Len(e) \in Nat \ {0} /\ Len(s) \in Nat
  BY EmptySeq, LenProperties DEF Words
<1>3. Len(w) \in Nat \ {0} /\ DOMAIN w = 1..Len(w)
  BY <1>1, <1>2, LenProperties
<1>4. w = SubSeq(w, 1, Len(w))
  BY <1>1, SubSeqFull
<1>5. w # <<>>
  BY <1>3, EmptySeq
<1>6. SubSeq(w, 1, Len(w)) \in Paths(w)
  <2>1. Len(w) \in DOMAIN w
    BY <1>3
  <2>2. QED
    BY <2>1 DEF Paths
<1>7. QED
  BY <1>1, <1>4, <1>5, <1>6 DEF Words

\* What the cache holds it keeps.
CacheKept == \A v \in DOMAIN cache : v \in DOMAIN cache' /\ cache'[v] = cache[v]

\* A query leaves its answer in the cache, and the cache keeps what it held.
LEMMA QueryAnswers ==
  ASSUME NEW w, w \in Paths(w), NEW o, Query(w, o)
  PROVE  /\ CacheKept
         /\ w \in DOMAIN cache' /\ cache'[w] = o
<1>1. CASE InCache(w) /\ o = cache[w] /\ UNCHANGED <<flaky, cache>>
  BY <1>1 DEF CacheKept, InCache
<1>2. ASSUME NEW out \in Answers(w), ~Conflict(w, out),
             o = out[Len(w)], cache' = CacheWith(w, out)
      PROVE  /\ CacheKept
             /\ w \in DOMAIN cache' /\ cache'[w] = o
  <2>1. /\ DOMAIN cache' = DOMAIN cache \cup Paths(w)
        /\ \A v \in DOMAIN cache \cup Paths(w) :
             cache'[v] = IF v \in DOMAIN cache THEN cache[v] ELSE out[Len(v)]
    BY <1>2 DEF CacheWith
  <2>2. CacheKept
    BY <2>1 DEF CacheKept
  <2>3. w \in DOMAIN cache => cache[w] = out[Len(w)]
    BY <1>2 DEF Conflict
  <2>4. QED
    BY <1>2, <2>1, <2>2, <2>3
<1>3. QED
  BY <1>1, <1>2 DEF Query

\* A query of any word keeps the cache.
LEMMA QueryKeeps ==
  ASSUME NEW w, NEW o, Query(w, o)
  PROVE  CacheKept
<1>1. ASSUME NEW out, cache' = CacheWith(w, out) PROVE CacheKept
  BY <1>1 DEF CacheWith, CacheKept
<1>2. QED
  BY <1>1 DEF Query, CacheKept

\* A table that stays, or only gets more suffixes, still matches.
LEMMA KeptTableMatches ==
  ASSUME Types, TableMatchesCache, CacheKept, UNCHANGED T,
         \A s \in DOMAIN T : Len(T[s]) <= Len(E),
         \A i \in 1..Len(E) : E'[i] = E[i]
  PROVE  TableMatchesCache'
<1>. SUFFICES ASSUME NEW s \in DOMAIN T, NEW i \in DOMAIN T[s]
              PROVE  /\ s \o E'[i] \in DOMAIN cache'
                     /\ cache'[s \o E'[i]] = T[s][i]
  BY DEF TableMatchesCache
<1>1. i \in 1..Len(E)
  <2>1. Len(T[s]) \in Nat /\ DOMAIN T[s] = 1..Len(T[s])
    BY LenProperties DEF Types
  <2>2. Len(E) \in Nat
    BY LenProperties DEF Types
  <2>3. QED
    BY <2>1, <2>2
<1>2. QED
  BY <1>1 DEF TableMatchesCache, CacheKept

\* No row is longer than E.
LEMMA RowsFit ==
  ASSUME Types, SuffixesAreLast, RowLengths
  PROVE  /\ Len(E) \in Nat \ {0} /\ Len(suffixes) \in Nat /\ Base \in Nat
         /\ \A s \in DOMAIN T : Len(T[s]) <= Len(E)
<1>1. Len(E) \in Nat /\ Len(suffixes) \in Nat
  BY LenProperties DEF Types
<1>2. /\ col \in Nat /\ 1 <= col /\ col <= Len(suffixes)
      /\ Len(suffixes) <= Len(E)
  BY <1>1 DEF Types, SuffixesAreLast
<1>3. Base \in Nat /\ Base <= Len(E) /\ Base + col - 1 <= Len(E)
  BY <1>1, <1>2 DEF Base
<1>4. ASSUME NEW s \in DOMAIN T PROVE Len(T[s]) <= Len(E)
  <2>1. Len(T[s]) = Len(Row(s))
    BY DEF Row
  <2>2. CASE s \notin todo
    BY <1>1, <2>2 DEF RowLengths
  <2>3. CASE s \in todo /\ s # Current
    BY <1>1, <1>3, <2>1, <2>3 DEF RowLengths
  <2>4. CASE s \in todo /\ s = Current
    BY <1>1, <1>3, <2>1, <2>4 DEF RowLengths
  <2>5. QED
    BY <2>2, <2>3, <2>4
<1>5. QED
  BY <1>1, <1>2, <1>3, <1>4

----------------------------------------------------------------------------
\* The invariant holds at first, and every action keeps it.

LEMMA AlphabetWords ==
  /\ [j \in DOMAIN Alphabet |-> <<Alphabet[j]>>] \in Seq(Words \ {<<>>})
  /\ Len([j \in DOMAIN Alphabet |-> <<Alphabet[j]>>]) \in Nat \ {0}
<1>1. /\ Alphabet \in Seq(Letters) /\ Len(Alphabet) \in Nat \ {0}
      /\ DOMAIN Alphabet = 1..Len(Alphabet)
  BY LStarAssumption, LenProperties, EmptySeq
<1>2. ASSUME NEW j \in DOMAIN Alphabet
      PROVE  <<Alphabet[j]>> \in Words \ {<<>>}
  <2>1. Alphabet[j] \in Letters
    BY <1>1, ElementOfSeq
  <2>2. QED
    BY <2>1 DEF Words
<1>3. QED
  BY <1>1, <1>2

\* A letter after a word is a word.
LEMMA ExtensionsAreWords ==
  ASSUME NEW rows \in SUBSET Words
  PROVE  Extensions(rows) \subseteq Words
BY AppendProperties DEF Extensions, Words

LEMMA InitIInv == Init => IInv
<1>. SUFFICES ASSUME Init PROVE IInv
  OBVIOUS
<1>. USE DEF Init
<1>1. /\ E \in Seq(Words \ {<<>>}) /\ Len(E) \in Nat \ {0} /\ suffixes = E
      /\ Base = 0
  BY AlphabetWords DEF Base
<1>2. S \subseteq Words /\ <<>> \in Words
  BY DEF Words
<1>3. DOMAIN T = {} /\ \A r : Row(r) = <<>> /\ Len(Row(r)) = 0
  BY DEF Row
<1>4. Types
  BY <1>1, <1>2, <1>3, ExtensionsAreWords DEF Types, SDotA
<1>5. SuffixesAreLast
  BY <1>1 DEF SuffixesAreLast
<1>6. RowLengths
  BY <1>1, <1>3 DEF RowLengths
<1>7. RowsAreTable
  BY <1>3 DEF RowsAreTable, SDotA
<1>8. RowsDifferSomewhere /\ SearchOK /\ TableMatchesCache
  BY <1>2, <1>3 DEF RowsDifferSomewhere, SearchOK, TableMatchesCache
<1>9. QED
  BY <1>4, <1>5, <1>6, <1>7, <1>8 DEF IInv

\* The answer to a query of the loop goes where its suffix stands in E.
LEMMA FillMatches ==
  ASSUME IInv, phase = "table", todo # {}, Len(Row(Current)) # Len(E),
         NEW o \in Outputs, Query(Current \o suffixes[col], o),
         T' = [v \in DOMAIN T \cup {Current} |->
                 IF v = Current THEN Append(Row(Current), o) ELSE T[v]],
         UNCHANGED E
  PROVE  /\ TableMatchesCache'
         /\ T'[Current] \in Seq(Outputs) /\ Len(T'[Current]) = Base + col
         /\ \A i \in DOMAIN Row(Current) : T'[Current][i] = Row(Current)[i]
         /\ DOMAIN Row(Current) \subseteq DOMAIN T'[Current]
<1>. DEFINE s == Current
            w == s \o suffixes[col]
<1>1. /\ s \in todo /\ s \in Words
      /\ col \in 1..Len(suffixes) /\ suffixes[col] \in Words \ {<<>>}
      /\ suffixes[col] = E[Base + col]
      /\ Len(Row(s)) = Base + col - 1
      /\ Base \in Nat /\ Len(E) \in Nat /\ col \in Nat
  <2>1. s \in todo
    BY DEF Current
  <2>2. Len(Row(s)) \in {Base + col - 1, Len(E)}
    BY <2>1 DEF IInv, RowLengths
  <2>3. Base \in Nat /\ Len(E) \in Nat /\ Len(suffixes) \in Nat
    BY RowsFit DEF IInv
  <2>4. col \in 1..Len(suffixes) /\ suffixes[col] = E[Base + col]
    BY DEF IInv, Types, SuffixesAreLast
  <2>5. suffixes[col] \in Words \ {<<>>}
    BY <2>4, ElementOfSeq DEF IInv, Types
  <2>6. QED
    BY <2>1, <2>2, <2>3, <2>4, <2>5 DEF IInv, Types
<1>2. CacheKept /\ w \in DOMAIN cache' /\ cache'[w] = o
  BY <1>1, WordWithSuffix, QueryAnswers
<1>3. Row(s) \in Seq(Outputs)
  BY <1>1 DEF Row, IInv, Types
<1>4. /\ T'[s] = Append(Row(s), o) /\ T'[s] \in Seq(Outputs)
      /\ Len(T'[s]) = Base + col
      /\ \A i \in 1..(Base + col - 1) : T'[s][i] = Row(s)[i]
      /\ T'[s][Base + col] = o
  BY <1>1, <1>3, AppendProperties
<1>5. /\ DOMAIN T'[s] = 1..(Base + col) /\ DOMAIN Row(s) = 1..(Base + col - 1)
  BY <1>1, <1>3, <1>4, LenProperties
<1>6. ASSUME NEW v \in DOMAIN T', NEW i \in DOMAIN T'[v]
      PROVE  /\ v \o E'[i] \in DOMAIN cache'
             /\ cache'[v \o E'[i]] = T'[v][i]
  <2>1. CASE v # s
    <3>1. v \in DOMAIN T /\ T'[v] = T[v]
      BY <2>1
    <3>2. QED
      BY <1>2, <3>1 DEF IInv, TableMatchesCache, CacheKept
  <2>2. CASE v = s /\ i = Base + col
    BY <1>1, <1>2, <1>4, <2>2
  <2>3. CASE v = s /\ i # Base + col
    <3>1. i \in 1..(Base + col - 1) /\ i \in DOMAIN Row(s)
      <4>1. i \in 1..(Base + col) /\ i # Base + col
        BY <1>5, <2>3
      <4>2. i \in 1..(Base + col - 1)
        <5>1. Base \in Nat /\ col \in Nat
          BY <1>1
        <5>2. QED
          BY <4>1, <5>1
      <4>3. QED
        BY <1>5, <4>2
    <3>2. s \in DOMAIN T /\ Row(s) = T[s]
      BY <1>1, <3>1 DEF Row
    <3>3. QED
      BY <1>2, <1>4, <2>3, <3>1, <3>2 DEF IInv, TableMatchesCache, CacheKept
  <2>4. QED
    BY <2>1, <2>2, <2>3
<1>7. TableMatchesCache'
  BY <1>6 DEF TableMatchesCache
<1>8. QED
  BY <1>1, <1>4, <1>5, <1>7

LEMMA FillCellKeeps == IInv /\ FillCell => IInv'
<1>. SUFFICES ASSUME IInv, FillCell PROVE IInv'
  OBVIOUS
<1>0. PICK s : s = Current
  OBVIOUS
<1>. DEFINE isFull == Len(Row(s)) = Len(E)
<1>1. /\ phase = "table" /\ todo # {} /\ s \in todo /\ s \in Words
      /\ machine' = machine
  BY <1>0 DEF FillCell, Current, IInv, Types, QueryExits
<1>2. /\ Base \in Nat /\ Len(E) \in Nat \ {0} /\ Len(suffixes) \in Nat
      /\ col \in 1..Len(suffixes) /\ Base + Len(suffixes) = Len(E)
      /\ Len(suffixes) >= 1 /\ col \in Nat /\ col <= Len(suffixes)
  <2>1. Base \in Nat /\ Len(E) \in Nat \ {0} /\ Len(suffixes) \in Nat
    BY RowsFit DEF IInv
  <2>2. QED
    BY <2>1 DEF Base, IInv, Types
<1>3. CASE ~isFull /\ QueryExits(s \o suffixes[col])
  <2>1. /\ UNCHANGED <<table, oracle, cache>> /\ phase' = "aborted"
    BY <1>3 DEF QueryExits
  <2>2. UNCHANGED <<S, E, T, todo, suffixes, col, walk, at, walked, bounds, cache>>
    BY <2>1 DEF table, oracle
  <2>3. Types' /\ SearchOK'
    BY <2>1, <2>2 DEF IInv, Types, SearchOK
  <2>4. SuffixesAreLast' /\ RowLengths' /\ RowsAreTable' /\ RowsDifferSomewhere'
    BY <2>2 DEF IInv, SuffixesAreLast, RowLengths, RowsAreTable,
                RowsDifferSomewhere, Base, Current, Row
  <2>5. TableMatchesCache'
    BY <2>2 DEF IInv, TableMatchesCache
  <2>6. QED
    BY <2>3, <2>4, <2>5 DEF IInv
<1>4. ASSUME \/ isFull /\ UNCHANGED <<flaky, cache, T>>
             \/ /\ ~isFull
                /\ \E o \in Outputs :
                     /\ Query(s \o suffixes[col], o)
                     /\ T' = [v \in DOMAIN T \cup {s} |->
                                IF v = s THEN Append(Row(s), o) ELSE T[v]],
             IF col < Len(suffixes)
             THEN col' = col + 1 /\ todo' = todo
             ELSE col' = 1 /\ todo' = todo \ {s},
             UNCHANGED <<machine, S, E, suffixes, rounds, phase, oracle>>
      PROVE  IInv'
  <2>1. /\ UNCHANGED <<S, E, suffixes, phase>> /\ Base' = Base
        /\ UNCHANGED <<walk, bounds>>
    BY <1>4 DEF oracle, Base
  <2>2. /\ \A r \in DOMAIN T : r # s => r \in DOMAIN T' /\ T'[r] = T[r]
        /\ DOMAIN T' = DOMAIN T \cup {s}
        /\ T'[s] \in Seq(Outputs)
        /\ Len(T'[s]) \in {Base + col, Len(E)}
        /\ TableMatchesCache'
        /\ \A i \in DOMAIN Row(s) : i \in DOMAIN T'[s] /\ T'[s][i] = Row(s)[i]
    <3>1. CASE isFull /\ UNCHANGED <<flaky, cache, T>>
      <4>1. s \in DOMAIN T /\ Row(s) = T[s] /\ T[s] \in Seq(Outputs)
        BY <1>2, <3>1 DEF Row, IInv, Types
      <4>2. TableMatchesCache'
        BY <2>1, <3>1 DEF IInv, TableMatchesCache
      <4>3. QED
        BY <3>1, <4>1, <4>2
    <3>2. ASSUME ~isFull, NEW o \in Outputs, Query(s \o suffixes[col], o),
                 T' = [v \in DOMAIN T \cup {s} |->
                         IF v = s THEN Append(Row(s), o) ELSE T[v]]
          PROVE  /\ \A r \in DOMAIN T : r # s => r \in DOMAIN T' /\ T'[r] = T[r]
                 /\ DOMAIN T' = DOMAIN T \cup {s}
                 /\ T'[s] \in Seq(Outputs)
                 /\ Len(T'[s]) \in {Base + col, Len(E)}
                 /\ TableMatchesCache'
                 /\ \A i \in DOMAIN Row(s) : i \in DOMAIN T'[s] /\ T'[s][i] = Row(s)[i]
      <4>1. /\ TableMatchesCache'
            /\ T'[s] \in Seq(Outputs) /\ Len(T'[s]) = Base + col
            /\ \A i \in DOMAIN Row(s) : T'[s][i] = Row(s)[i]
            /\ DOMAIN Row(s) \subseteq DOMAIN T'[s]
        BY <1>0, <1>1, <2>1, <3>2, FillMatches
      <4>2. QED
        BY <3>2, <4>1
    <3>3. QED
      BY <1>4, <3>1, <3>2
  <2>3. /\ \A r : r # s => Row(r)' = Row(r)
        /\ Row(s)' = T'[s]
    <3>1. ASSUME NEW r, r # s PROVE Row(r)' = Row(r)
      <4>1. r \in DOMAIN T' <=> r \in DOMAIN T
        BY <2>2, <3>1
      <4>2. r \in DOMAIN T => T'[r] = T[r]
        BY <2>2, <3>1
      <4>3. QED
        BY <4>1, <4>2 DEF Row
    <3>2. s \in DOMAIN T'
      BY <2>2
    <3>3. QED
      BY <3>1, <3>2 DEF Row
  <2>8. RowsDifferSomewhere'
    <3>1. ASSUME NEW u \in S, NEW v \in S, u # v
          PROVE  \E i \in DOMAIN Row(u)' \cap DOMAIN Row(v)' : Row(u)'[i] # Row(v)'[i]
      <4>1. PICK i \in DOMAIN Row(u) \cap DOMAIN Row(v) : Row(u)[i] # Row(v)[i]
        BY <3>1 DEF IInv, RowsDifferSomewhere
      <4>2. \A r : i \in DOMAIN Row(r) => i \in DOMAIN Row(r)' /\ Row(r)'[i] = Row(r)[i]
        BY <2>2, <2>3
      <4>3. QED
        BY <4>1, <4>2
    <3>2. QED
      BY <2>1, <3>1 DEF RowsDifferSomewhere
  <2>9. SuffixesAreLast' /\ SearchOK'
    BY <2>1 DEF IInv, SuffixesAreLast, SearchOK
  <2>4. CASE col < Len(suffixes)
    <3>1. col' = col + 1 /\ todo' = todo /\ Current' = Current
      BY <1>0, <1>4, <2>4 DEF Current
    <3>2. Types'
      BY <1>2, <2>1, <2>2, <2>4, <3>1 DEF IInv, Types
    <3>3. RowLengths'
      <4>1. \A r \in todo' : r # s => Len(Row(r)') \in {Base', Len(E')}
        BY <1>0, <2>1, <2>3, <3>1 DEF IInv, RowLengths
      <4>2. Len(Row(s)') \in {Base' + col' - 1, Len(E')}
        BY <1>2, <2>1, <2>2, <2>3, <3>1
      <4>3. \A r \in DOMAIN T' \ todo' : Len(T'[r]) = Len(E')
        BY <1>1, <2>1, <2>2, <3>1 DEF IInv, RowLengths
      <4>4. QED
        BY <1>0, <3>1, <4>1, <4>2, <4>3 DEF RowLengths
    <3>4. RowsAreTable'
      BY <1>1, <2>1, <2>2, <3>1 DEF IInv, RowsAreTable, Extensions
    <3>5. QED
      BY <2>2, <2>8, <2>9, <3>2, <3>3, <3>4 DEF IInv
  <2>5. CASE ~(col < Len(suffixes))
    <3>1. col' = 1 /\ todo' = todo \ {s} /\ col = Len(suffixes)
      BY <1>2, <1>4, <2>5
    <3>2. Len(T'[s]) = Len(E)
      BY <1>2, <2>2, <3>1
    <3>3. Types'
      BY <1>2, <2>1, <2>2, <3>1 DEF IInv, Types
    <3>4. RowLengths'
      <4>1. \A r \in todo' : Len(Row(r)') \in {Base', Len(E')}
        BY <1>0, <2>1, <2>3, <3>1 DEF IInv, RowLengths
      <4>2. todo' # {} => Current' \in todo'
        BY DEF Current
      <4>3. Base' + col' - 1 = Base'
        BY <1>2, <2>1, <3>1
      <4>4. \A r \in DOMAIN T' \ todo' : Len(T'[r]) = Len(E')
        BY <1>1, <2>1, <2>2, <3>1, <3>2 DEF IInv, RowLengths
      <4>5. QED
        BY <4>1, <4>2, <4>3, <4>4 DEF RowLengths
    <3>5. RowsAreTable'
      BY <1>1, <2>1, <2>2, <3>1 DEF IInv, RowsAreTable, Extensions
    <3>6. QED
      BY <2>2, <2>8, <2>9, <3>3, <3>4, <3>5 DEF IInv
  <2>6. QED
    BY <2>4, <2>5
<1>5. QED
  BY <1>0, <1>3, <1>4 DEF FillCell, Current

\* The rows that close the table differ from those of S and from each other.
LEMMA CloseTableKeeps == IInv /\ CloseTable => IInv'
<1>. SUFFICES ASSUME IInv, CloseTable PROVE IInv'
  OBVIOUS
<1>1. /\ phase = "table" /\ todo = {}
      /\ UNCHANGED <<machine, flaky, cache, E, T, rounds, phase, oracle>>
  BY DEF CloseTable
<1>2. PICK new \in SUBSET SDotA :
        /\ RowsToClose(new)
        /\ S' = S \cup new
        /\ UpdateObsTable(Extensions(new), E)
  BY DEF CloseTable
<1>3. /\ todo' = Extensions(new) /\ suffixes' = E /\ col' = 1
      /\ UNCHANGED <<E, T, phase, walk, bounds, cache>>
      /\ \A r : Row(r)' = Row(r)
  BY <1>1, <1>2 DEF UpdateObsTable, oracle, Row
<1>4. /\ Len(E) \in Nat \ {0} /\ Base' = 0
      /\ S \subseteq Words /\ new \subseteq Words /\ Extensions(new) \subseteq Words
  <2>1. Len(E) \in Nat \ {0}
    BY RowsFit DEF IInv
  <2>2. S \subseteq Words
    BY DEF IInv, Types
  <2>3. new \subseteq Words
    BY <1>2, <2>2, ExtensionsAreWords DEF SDotA
  <2>4. QED
    BY <1>3, <2>1, <2>2, <2>3, ExtensionsAreWords DEF Base
<1>5. /\ \A r \in DOMAIN T : Len(T[r]) = Len(E) /\ T[r] \in Seq(Outputs)
      /\ S \cup Extensions(S) = DOMAIN T
  BY <1>1 DEF IInv, RowLengths, RowsAreTable, Types
<1>6. Types'
  BY <1>1, <1>2, <1>3, <1>4 DEF IInv, Types
<1>7. SuffixesAreLast'
  <2>1. \A j \in 1..Len(E) : j = Base' + j
    BY <1>4
  <2>2. QED
    BY <1>3, <1>4, <2>1 DEF SuffixesAreLast
<1>8. RowLengths'
  <2>1. ASSUME NEW r \in todo' PROVE Len(Row(r)') \in {0, Len(E)}
    <3>1. CASE r \in DOMAIN T
      BY <1>3, <1>5, <3>1 DEF Row
    <3>2. CASE r \notin DOMAIN T
      BY <1>3, <3>2 DEF Row
    <3>3. QED
      BY <3>1, <3>2
  <2>2. todo' # {} => Current' \in todo'
    BY DEF Current
  <2>3. Base' + col' - 1 = 0
    BY <1>3, <1>4
  <2>4. QED
    BY <1>3, <1>4, <1>5, <2>1, <2>2, <2>3 DEF RowLengths
<1>9. RowsAreTable'
  <2>1. Extensions(S \cup new) = Extensions(S) \cup Extensions(new)
    BY DEF Extensions
  <2>2. new \subseteq DOMAIN T
    BY <1>2, <1>5 DEF SDotA
  <2>3. Extensions(S)' = Extensions(S \cup new)
    BY <1>2 DEF Extensions
  <2>4. QED
    BY <1>2, <1>3, <1>5, <2>1, <2>2, <2>3 DEF RowsAreTable
<1>10. RowsDifferSomewhere'
  <2>1. ASSUME NEW u \in DOMAIN T, NEW v \in DOMAIN T, Row(u) # Row(v)
        PROVE  \E i \in DOMAIN Row(u) \cap DOMAIN Row(v) : Row(u)[i] # Row(v)[i]
    <3>1. /\ Row(u) \in Seq(Outputs) /\ Row(v) \in Seq(Outputs)
          /\ Len(Row(u)) = Len(Row(v))
      BY <1>5 DEF Row
    <3>2. PICK i \in 1..Len(Row(u)) : Row(u)[i] # Row(v)[i]
      BY <2>1, <3>1, SeqEqual
    <3>3. QED
      BY <3>1, <3>2, LenProperties
  <2>2. PICK pick \in [MissingRows -> SDotA] :
          /\ \A r \in MissingRows : Row(pick[r]) = r
          /\ new = {pick[r] : r \in MissingRows}
    BY <1>2 DEF RowsToClose
  <2>3. ASSUME NEW u \in new, NEW v \in S PROVE Row(u) # Row(v)
    <3>1. PICK r \in MissingRows : u = pick[r]
      BY <2>2
    <3>2. Row(u) = r
      BY <2>2, <3>1
    <3>3. QED
      BY <3>2 DEF MissingRows
  <2>4. ASSUME NEW u \in new, NEW v \in new, u # v PROVE Row(u) # Row(v)
    <3>1. PICK r \in MissingRows, q \in MissingRows : u = pick[r] /\ v = pick[q]
      BY <2>2
    <3>2. r # q /\ Row(u) = r /\ Row(v) = q
      BY <2>2, <2>4, <3>1
    <3>3. QED
      BY <3>2
  <2>5. ASSUME NEW u \in S', NEW v \in S', u # v
        PROVE  \E i \in DOMAIN Row(u)' \cap DOMAIN Row(v)' : Row(u)'[i] # Row(v)'[i]
    <3>1. u \in DOMAIN T /\ v \in DOMAIN T
      BY <1>2, <1>5 DEF SDotA
    <3>2. CASE u \in S /\ v \in S
      BY <1>3, <2>5, <3>2 DEF IInv, RowsDifferSomewhere
    <3>3. CASE ~(u \in S /\ v \in S)
      <4>1. Row(u) # Row(v)
        BY <1>2, <2>3, <2>4, <2>5, <3>3
      <4>2. QED
        BY <1>3, <2>1, <3>1, <4>1
    <3>4. QED
      BY <3>2, <3>3
  <2>6. QED
    BY <2>5 DEF RowsDifferSomewhere
<1>11. SearchOK' /\ TableMatchesCache'
  BY <1>3 DEF IInv, SearchOK, TableMatchesCache
<1>12. QED
  BY <1>6, <1>7, <1>8, <1>9, <1>10, <1>11 DEF IInv

\* A step that leaves the table alone keeps all but the search.
LEMMA TableUnchanged ==
  ASSUME IInv, CacheKept, UNCHANGED <<S, E, T, todo, suffixes, col>>,
         todo = {}, phase' \in {"table", "oracle", "split", "done", "aborted"},
         SearchOK'
  PROVE  IInv'
<1>1. Types' /\ SuffixesAreLast' /\ RowsAreTable' /\ RowsDifferSomewhere'
  BY DEF IInv, Types, SuffixesAreLast, RowsAreTable, RowsDifferSomewhere, Base, Row
<1>2. RowLengths'
  BY DEF IInv, RowLengths, Current, Base, Row
<1>3. TableMatchesCache'
  BY DEF IInv, TableMatchesCache, CacheKept
<1>4. QED
  BY <1>1, <1>2, <1>3 DEF IInv

LEMMA GenHypothesisKeeps == IInv /\ GenHypothesis => IInv'
<1>. SUFFICES ASSUME IInv, GenHypothesis PROVE IInv'
  OBVIOUS
<1>1. /\ UNCHANGED <<S, E, T, todo, suffixes, col>> /\ CacheKept /\ todo = {}
      /\ phase' = "oracle" /\ UNCHANGED <<walk, bounds>>
  BY DEF GenHypothesis, table, oracle, CacheKept
<1>2. SearchOK'
  BY <1>1 DEF IInv, SearchOK
<1>3. QED
  BY <1>1, <1>2, TableUnchanged

LEMMA OracleEndsKeeps == IInv /\ OracleEnds => IInv'
<1>. SUFFICES ASSUME IInv, OracleEnds PROVE IInv'
  OBVIOUS
<1>1. /\ UNCHANGED <<S, E, T, todo, suffixes, col>> /\ CacheKept /\ todo = {}
      /\ phase' = "done" /\ UNCHANGED <<walk, bounds>>
  BY DEF OracleEnds, table, oracle, CacheKept, IInv, Types
<1>2. SearchOK'
  BY <1>1 DEF IInv, SearchOK
<1>3. QED
  BY <1>1, <1>2, TableUnchanged

LEMMA OracleStepKeeps == IInv /\ OracleStep => IInv'
<1>. SUFFICES ASSUME IInv, OracleStep PROVE IInv'
  OBVIOUS
<1>1. /\ UNCHANGED <<S, E, T, todo, suffixes, col>> /\ todo = {}
      /\ walk \in Words /\ phase = "oracle"
  BY DEF OracleStep, table, IInv, Types, SearchOK
<1>2. PICK reset \in BOOLEAN, a \in Letters :
        LET w == IF reset THEN <<a>> ELSE Append(walk, a)
            s == IF reset THEN <<>> ELSE at
        IN  \E out \in Answers(w) :
              /\ Front(out) = Front(TrueAnswer(w))
              /\ flaky' = FlakyAfter(w, out)
              /\ IF w \in DOMAIN cache /\ cache[w] # Last(out)
                 THEN /\ phase' = "aborted"
                      /\ UNCHANGED <<cache, oracle>>
                 ELSE /\ cache' = [v \in DOMAIN cache \cup {w} |->
                                     IF v \in DOMAIN cache THEN cache[v] ELSE Last(out)]
                      /\ walk' = w
                      /\ IF Last(out) # HypOut(s, a)
                         THEN /\ phase' = "split"
                              /\ bounds' = <<1, Len(w) - 2>>
                              /\ walked' = 0
                              /\ at' = <<>>
                         ELSE /\ walked' = walked + 1
                              /\ at' = HypStep(s, a)
                              /\ UNCHANGED <<phase, bounds>>
  BY DEF OracleStep
<1>. DEFINE w == IF reset THEN <<a>> ELSE Append(walk, a)
<1>3. w \in Words /\ w # <<>> /\ Len(w) \in Nat \ {0}
  <2>1. Append(walk, a) \in Seq(Letters) /\ Len(Append(walk, a)) = Len(walk) + 1
        /\ Len(walk) \in Nat
    BY <1>1, AppendProperties, LenProperties DEF Words
  <2>2. <<a>> \in Seq(Letters) /\ Len(<<a>>) = 1
    OBVIOUS
  <2>3. QED
    BY <2>1, <2>2, EmptySeq DEF Words
<1>. HIDE DEF w
<1>4. CASE phase' = "aborted" /\ UNCHANGED <<cache, oracle>>
  <2>1. UNCHANGED <<walk, bounds>> /\ CacheKept
    BY <1>4 DEF oracle, CacheKept
  <2>2. SearchOK'
    BY <1>1, <1>4, <2>1 DEF SearchOK
  <2>3. QED
    BY <1>1, <1>4, <2>1, <2>2, TableUnchanged
<1>5. ASSUME NEW o,
             cache' = [v \in DOMAIN cache \cup {w} |->
                         IF v \in DOMAIN cache THEN cache[v] ELSE o],
             walk' = w,
             \/ phase' = "split" /\ bounds' = <<1, Len(w) - 2>>
             \/ UNCHANGED <<phase, bounds>>
      PROVE  IInv'
  <2>1. CacheKept
    BY <1>5 DEF CacheKept
  <2>2. phase' \in {"oracle", "split"}
    BY <1>1, <1>5
  <2>3. SearchOK'
    BY <1>1, <1>3, <1>5 DEF SearchOK
  <2>4. QED
    BY <1>1, <2>1, <2>2, <2>3, TableUnchanged
<1>6. QED
  BY <1>2, <1>4, <1>5 DEF w

\* The new suffixes of a word are a sequence of words.
LEMMA NewSuffixesAreWords ==
  ASSUME NEW d \in Words, NEW new \in NewSuffixes(d)
  PROVE  new \in Seq(Words \ {<<>>})
<1>. DEFINE all == {SubSeq(d, i, Len(d)) : i \in DOMAIN d}
            f == [i \in DOMAIN d |-> SubSeq(d, i, Len(d))]
            fresh == all \ ToSet(E)
<1>1. Len(d) \in Nat /\ DOMAIN d = 1..Len(d) /\ d \in Seq(Letters)
  BY LenProperties DEF Words
<1>2. all \subseteq Words \ {<<>>}
  <2>1. ASSUME NEW i \in DOMAIN d PROVE SubSeq(d, i, Len(d)) \in Words \ {<<>>}
    <3>1. i \in Int /\ Len(d) \in Int /\ i <= Len(d) /\ 1 <= i
      BY <1>1
    <3>2. \A j \in i..Len(d) : d[j] \in Letters
      BY <1>1, <3>1, ElementOfSeq
    <3>3. /\ SubSeq(d, i, Len(d)) \in Seq(Letters)
          /\ Len(SubSeq(d, i, Len(d))) = Len(d) - i + 1
      BY <3>1, <3>2, SubSeqProperties
    <3>4. Len(SubSeq(d, i, Len(d))) # 0
      BY <3>1, <3>3
    <3>5. QED
      BY <3>3, <3>4, EmptySeq DEF Words
  <2>2. QED
    BY <2>1
<1>3. Cardinality(fresh) \in Nat
  <2>1. f \in Surjection(DOMAIN d, all)
    BY DEF Surjection
  <2>2. IsFiniteSet(DOMAIN d)
    BY <1>1, FS_Interval
  <2>3. IsFiniteSet(all)
    BY <2>1, <2>2, FS_Surjection
  <2>4. IsFiniteSet(fresh)
    BY <2>3, FS_Subset
  <2>5. QED
    BY <2>4, FS_CardinalityType
<1>4. new \in [1..Cardinality(fresh) -> fresh]
  BY DEF NewSuffixes
<1>5. PICK n \in Nat : n = Cardinality(fresh)
  BY <1>3
<1>6. new \in [1..n -> Words \ {<<>>}]
  <2>1. fresh \subseteq Words \ {<<>>}
    BY <1>2
  <2>. HIDE DEF fresh
  <2>2. QED
    BY <1>4, <1>5, <2>1
<1>7. QED
  BY <1>6

\* One halving keeps the cache, and the suffix it may end with is a word.
LEMMA NarrowKeeps ==
  ASSUME IInv, phase = "split", CacheKept, UNCHANGED <<machine, at, walked>>,
         NEW lower \in Int, NEW upper \in Int, NEW suffix \in Words,
         lower >= 1, upper <= Len(walk) - 2,
         Narrow(lower, upper, suffix)
  PROVE  IInv'
<1>1. todo = {} /\ walk \in Words
  BY DEF IInv, Types, SearchOK
<1>2. CASE lower <= upper
  <2>1. /\ bounds' = <<lower, upper>> /\ UNCHANGED <<table, phase, walk>>
    BY <1>2 DEF Narrow
  <2>2. UNCHANGED <<S, E, T, todo, suffixes, col>> /\ phase' = "split"
    BY <2>1 DEF table
  <2>3. SearchOK'
    BY <1>2, <2>1 DEF IInv, SearchOK
  <2>4. QED
    BY <1>1, <2>2, <2>3, TableUnchanged
<1>3. CASE ~(lower <= upper)
  <2>1. PICK new \in NewSuffixes(suffix) :
          /\ E' = E \o new
          /\ UpdateObsTable(S \cup SDotA, IF new = <<>> THEN E ELSE new)
    BY <1>3 DEF Narrow
  <2>2. /\ UNCHANGED <<S, T>> /\ phase' = "table" /\ walk' = <<>>
    BY <1>3 DEF Narrow
  <2>3. /\ new \in Seq(Words \ {<<>>}) /\ E \in Seq(Words \ {<<>>})
        /\ Len(E) \in Nat \ {0} /\ Len(new) \in Nat
        /\ \A s \in DOMAIN T : Len(T[s]) = Len(E)
    <3>1. \A s \in DOMAIN T : Len(T[s]) = Len(E)
      BY <1>1 DEF IInv, RowLengths
    <3>2. new \in Seq(Words \ {<<>>})
      BY NewSuffixesAreWords
    <3>3. E \in Seq(Words \ {<<>>})
      BY DEF IInv, Types
    <3>4. QED
      BY <3>1, <3>2, <3>3, RowsFit, LenProperties DEF IInv
  <2>4. /\ E' \in Seq(Words \ {<<>>}) /\ Len(E') = Len(E) + Len(new)
        /\ \A i \in 1..Len(E) : E'[i] = E[i]
        /\ \A i \in 1..Len(new) : E'[Len(E) + i] = new[i]
    BY <2>1, <2>3, ConcatProperties
  <2>5. /\ todo' = S \cup Extensions(S) /\ col' = 1
        /\ suffixes' = IF new = <<>> THEN E ELSE new
        /\ S \cup Extensions(S) = DOMAIN T
    BY <1>1, <2>1 DEF UpdateObsTable, SDotA, IInv, RowsAreTable
  <2>6. /\ suffixes' \in Seq(Words \ {<<>>}) /\ Len(suffixes') \in Nat \ {0}
        /\ Len(suffixes') <= Len(E')
        /\ \A j \in 1..Len(suffixes') : suffixes'[j] = E'[Base' + j]
        /\ Base' \in {0, Len(E)} /\ (Base' = 0 => Len(E) = Len(E'))
    <3>1. CASE new = <<>>
      <4>1. Len(new) = 0 /\ E' = E /\ suffixes' = E /\ Base' = 0
        BY <2>1, <2>3, <2>4, <2>5, <3>1, ConcatEmptySeq, EmptySeq DEF Base
      <4>2. \A j \in 1..Len(E) : 0 + j = j
        OBVIOUS
      <4>3. QED
        BY <2>3, <4>1, <4>2
    <3>2. CASE new # <<>>
      <4>1. Len(new) \in Nat \ {0} /\ suffixes' = new
        BY <2>3, <2>5, <3>2, EmptySeq
      <4>2. Base' = Len(E)
        BY <2>3, <2>4, <4>1 DEF Base
      <4>3. QED
        BY <2>3, <2>4, <4>1, <4>2
    <3>3. QED
      BY <3>1, <3>2
  <2>7. Types'
    <3>1. S \cup Extensions(S) \subseteq Words
      BY ExtensionsAreWords DEF IInv, Types
    <3>2. QED
      BY <2>2, <2>4, <2>5, <2>6, <3>1 DEF IInv, Types
  <2>8. SuffixesAreLast'
    BY <2>6 DEF SuffixesAreLast
  <2>9. RowLengths'
    <3>1. \A r \in todo' : Len(Row(r)') \in {Base', Len(E')}
      BY <2>2, <2>3, <2>5, <2>6 DEF Row
    <3>2. todo' # {} => Current' \in todo'
      BY DEF Current
    <3>3. Base' + col' - 1 = Base'
      <4>1. Base' \in Nat /\ col' = 1
        BY <2>3, <2>5, <2>6
      <4>2. \A b \in Nat : b + 1 - 1 = b
        OBVIOUS
      <4>3. QED
        BY <4>1, <4>2, Zenon
    <3>4. DOMAIN T' \ todo' = {}
      BY <2>2, <2>5
    <3>5. QED
      BY <3>1, <3>2, <3>3, <3>4 DEF RowLengths
  <2>10. RowsAreTable'
    BY <2>2, <2>5 DEF RowsAreTable, Extensions
  <2>11. RowsDifferSomewhere'
    BY <2>2 DEF IInv, RowsDifferSomewhere, Row
  <2>12. SearchOK'
    BY <2>2 DEF SearchOK, Words
  <2>13. TableMatchesCache'
    BY <2>2, <2>3, <2>4, KeptTableMatches DEF IInv
  <2>14. QED
    BY <2>7, <2>8, <2>9, <2>10, <2>11, <2>12, <2>13 DEF IInv
<1>4. QED
  BY <1>2, <1>3

\* The search in the counterexample stays inside of it.
LEMMA SearchFits ==
  ASSUME IInv, phase = "split", NEW mid, mid = (bounds[1] + bounds[2]) \div 2,
         NEW d, d = SubSeq(walk, mid + 1, Len(walk))
  PROVE  /\ todo = {}
         /\ walk \in Words /\ walk # <<>> /\ Len(walk) \in Nat \ {0}
         /\ bounds[1] \in Int /\ bounds[2] \in Int /\ bounds[1] >= 1 /\ bounds[2] >= -1
         /\ bounds[2] <= Len(walk) - 2
         /\ bounds[1] = 1 \/ bounds[1] <= bounds[2]
         /\ mid \in Nat /\ mid + 1 <= Len(walk) /\ mid - 1 <= Len(walk) - 2
         /\ d \in Words /\ d # <<>> /\ Tail(d) \in Words
<1>1. /\ todo = {}
      /\ walk \in Words /\ walk # <<>> /\ Len(walk) \in Nat \ {0}
      /\ bounds[1] \in Int /\ bounds[2] \in Int /\ bounds[1] >= 1 /\ bounds[2] >= -1
      /\ bounds[2] <= Len(walk) - 2
      /\ bounds[1] = 1 \/ bounds[1] <= bounds[2]
  <2>1. Len(walk) \in Nat \ {0}
    BY EmptySeq DEF IInv, SearchOK, Words
  <2>2. QED
    BY <2>1 DEF IInv, Types, SearchOK
<1>2. mid \in Nat /\ mid + 1 <= Len(walk) /\ mid - 1 <= Len(walk) - 2
  <2>1. \A l, u \in Int, n \in Nat :
          l >= 1 /\ u >= -1 /\ u <= n - 2 /\ (l = 1 \/ l <= u) =>
            /\ (l + u) \div 2 \in Nat /\ (l + u) \div 2 + 1 <= n
            /\ (l + u) \div 2 - 1 <= n - 2
    OBVIOUS
  <2>2. QED
    BY <1>1, <2>1
<1>3. d \in Words /\ d # <<>> /\ Tail(d) \in Words
  <2>1. \A i \in (mid + 1)..Len(walk) : walk[i] \in Letters
    BY <1>1, <1>2, ElementOfSeq DEF Words
  <2>2. ASSUME NEW m \in Nat, m + 1 <= Len(walk), NEW n \in Nat, n = Len(walk),
               \A i \in (m + 1)..n : walk[i] \in Letters
        PROVE  /\ SubSeq(walk, m + 1, n) \in Seq(Letters)
               /\ Len(SubSeq(walk, m + 1, n)) # 0
    <3>1. m + 1 <= n + 1 /\ m + 1 \in Int /\ n \in Int
      BY <2>2
    <3>2. /\ SubSeq(walk, m + 1, n) \in Seq(Letters)
          /\ Len(SubSeq(walk, m + 1, n)) = n - (m + 1) + 1
      BY <2>2, <3>1, SubSeqProperties
    <3>3. QED
      BY <2>2, <3>2
  <2>3. d \in Seq(Letters) /\ Len(d) # 0
    BY <1>1, <1>2, <2>1, <2>2
  <2>4. d # <<>>
    BY <2>3, EmptySeq
  <2>5. QED
    BY <2>3, <2>4, HeadTailProperties DEF Words
<1>4. QED
  BY <1>1, <1>2, <1>3

LEMMA SplitStepKeeps == IInv /\ SplitStep => IInv'
<1>. SUFFICES ASSUME IInv, SplitStep PROVE IInv'
  OBVIOUS
<1>. DEFINE lower == bounds[1]
            upper == bounds[2]
            mid == (lower + upper) \div 2
            d == SubSeq(walk, mid + 1, Len(walk))
            w == Bracket(mid) \o d
<1>1. /\ phase = "split" /\ todo = {}
      /\ walk \in Words /\ walk # <<>> /\ Len(walk) \in Nat \ {0}
      /\ lower \in Int /\ upper \in Int /\ lower >= 1 /\ upper >= -1
      /\ upper <= Len(walk) - 2
      /\ lower = 1 \/ lower <= upper
  BY SearchFits DEF SplitStep
<1>2. mid \in Nat /\ mid + 1 <= Len(walk) /\ mid - 1 <= Len(walk) - 2
  BY SearchFits DEF SplitStep
<1>3. d \in Words /\ d # <<>> /\ Tail(d) \in Words
  BY SearchFits DEF SplitStep
<1>. HIDE DEF mid, d, w
<1>4. CASE QueryExits(w)
  <2>1. UNCHANGED <<table, oracle, cache>> /\ phase' = "aborted"
    BY <1>4 DEF QueryExits
  <2>2. UNCHANGED <<S, E, T, todo, suffixes, col, walk>> /\ CacheKept
    BY <2>1 DEF table, oracle, CacheKept
  <2>3. SearchOK'
    BY <1>1, <2>1, <2>2 DEF SearchOK
  <2>4. QED
    BY <1>1, <2>1, <2>2, <2>3, TableUnchanged
<1>5. ASSUME NEW o \in Outputs, Query(w, o),
             IF o = cache[walk] THEN Narrow(mid + 1, upper, Tail(d))
                                ELSE Narrow(lower, mid - 1, d),
             UNCHANGED <<machine, at, walked>>
      PROVE  IInv'
  <2>1. CacheKept
    BY <1>5, QueryKeeps
  <2>2. CASE Narrow(mid + 1, upper, Tail(d))
    <3>1. mid + 1 \in Int /\ mid + 1 >= 1
      BY <1>2
    <3>2. QED
      BY <1>1, <1>3, <1>5, <2>1, <2>2, <3>1, NarrowKeeps
  <2>3. CASE Narrow(lower, mid - 1, d)
    <3>1. mid - 1 \in Int
      BY <1>2
    <3>2. QED
      BY <1>1, <1>2, <1>3, <1>5, <2>1, <2>3, <3>1, NarrowKeeps
  <2>4. QED
    BY <1>5, <2>2, <2>3
<1>6. QED
  BY <1>4, <1>5 DEF SplitStep, mid, d, w

LEMMA NextKeeps == IInv /\ [Next]_vars => IInv'
<1>. SUFFICES ASSUME IInv, [Next]_vars PROVE IInv'
  OBVIOUS
<1>1. CASE UNCHANGED vars
  <2>1. UNCHANGED <<S, E, T, todo, suffixes, col, phase, walk, bounds, cache>>
    BY <1>1 DEF vars, table, oracle
  <2>2. Types' /\ SuffixesAreLast' /\ RowLengths' /\ RowsAreTable' /\ RowsDifferSomewhere'
    BY <2>1 DEF IInv, Types, SuffixesAreLast, RowLengths, RowsAreTable,
                RowsDifferSomewhere, Base, Current, Row
  <2>3. SearchOK' /\ TableMatchesCache'
    BY <2>1 DEF IInv, SearchOK, TableMatchesCache
  <2>4. QED
    BY <2>2, <2>3 DEF IInv
<1>2. QED
  BY <1>1, FillCellKeeps, CloseTableKeeps, GenHypothesisKeeps, OracleStepKeeps,
     OracleEndsKeeps, SplitStepKeeps DEF Next

----------------------------------------------------------------------------
\* The inductive invariant holds of every behaviour.
THEOREM IInvHolds == Spec => []IInv
BY InitIInv, NextKeeps, PTL DEF Spec

\* Every output in the table is the one the system gave to that row and that
\* suffix (ObservationTable.py:143-145), for every machine and alphabet, and
\* even if the system gives wrong answers.
THEOREM TableMatchesCacheHolds == Spec => []TableMatchesCache
<1>1. IInv => TableMatchesCache
  BY DEF IInv
<1>2. QED
  BY <1>1, IInvHolds, PTL

\* gen_hypothesis never meets two rows of S that are the same
\* (ObservationTable.py:167-168).
THEOREM RowsOfSDifferHolds == Spec => []RowsOfSDiffer
<1>1. IInv => RowsOfSDiffer
  BY DEF IInv, RowsDifferSomewhere, RowsOfSDiffer
<1>2. QED
  BY <1>1, IInvHolds, PTL

----------------------------------------------------------------------------
\* Counterexamples are long enough to search in.

\* The hypothesis is closed, knows every letter, and is where the first
\* letters of the walk lead.
WalkOK ==
  /\ <<>> \in S
  /\ \A a \in Letters : \E i \in DOMAIN E : E[i] = <<a>>
  /\ phase \in {"oracle", "split"} =>
       \A w \in Extensions(S) : \E s \in S : Row(s) = Row(w)
  /\ phase \in {"table", "split"} => at = <<>>
  /\ phase = "table" => walk = <<>>
  /\ phase = "oracle" => /\ walk = <<>> => at = <<>>
                         /\ Len(walk) = 1 => at \in S /\ Row(at) = Row(walk)
  /\ CexIsLongEnough

\* The place of a letter in E.
LEMMA LetterIndex ==
  ASSUME WalkOK, NEW a \in Letters
  PROVE  IndexOf(a) \in DOMAIN E /\ E[IndexOf(a)] = <<a>>
BY DEF WalkOK, IndexOf

\* In a full table the hypothesis answers a letter after a row as the cache
\* does after that row.
LEMMA HypAnswers ==
  ASSUME IInv, WalkOK, todo = {}, NEW r \in S \cup Extensions(S), NEW s,
         Row(s) = Row(r), NEW a \in Letters
  PROVE  Append(r, a) \in DOMAIN cache /\ cache[Append(r, a)] = HypOut(s, a)
<1>. DEFINE k == IndexOf(a)
<1>1. k \in DOMAIN E /\ E[k] = <<a>>
  BY LetterIndex
<1>2. /\ r \in DOMAIN T /\ T[r] \in Seq(Outputs) /\ Len(T[r]) = Len(E)
      /\ E \in Seq(Words \ {<<>>})
  BY DEF IInv, RowsAreTable, RowLengths, Types
<1>3. k \in DOMAIN T[r]
  BY <1>1, <1>2, LenProperties
<1>4. r \o <<a>> \in DOMAIN cache /\ cache[r \o <<a>>] = T[r][k]
  BY <1>1, <1>2, <1>3 DEF IInv, TableMatchesCache
<1>5. HypOut(s, a) = T[r][k]
  BY <1>2 DEF HypOut, Row
<1>6. Append(r, a) = r \o <<a>>
  <2>1. r \in Seq(Letters)
    BY ExtensionsAreWords DEF IInv, Types, Words
  <2>2. QED
    BY <2>1, AppendIsConcat
<1>7. QED
  BY <1>4, <1>5, <1>6

\* In a closed table the hypothesis goes to the state of the row it reads.
LEMMA HypGoes ==
  ASSUME WalkOK, phase = "oracle", NEW s \in S, NEW a \in Letters
  PROVE  HypStep(s, a) \in S /\ Row(HypStep(s, a)) = Row(Append(s, a))
<1>1. Append(s, a) \in Extensions(S)
  BY DEF Extensions
<1>2. \E v \in S : Row(v) = Row(Append(s, a))
  BY <1>1 DEF WalkOK
<1>3. QED
  BY <1>2 DEF HypStep

LEMMA WalkInit == Init => WalkOK
<1>. SUFFICES ASSUME Init PROVE WalkOK
  OBVIOUS
<1>1. \A a \in Letters : \E i \in DOMAIN E : E[i] = <<a>>
  BY DEF Letters, ToSet, Init
<1>2. QED
  BY <1>1 DEF Init, WalkOK, CexIsLongEnough

\* A step that leaves the search and the suffixes alone.
LEMMA WalkStays ==
  ASSUME WalkOK, UNCHANGED <<E, oracle>>, S \subseteq S',
         \/ phase' \in {"aborted", "done"}
         \/ phase = "table" /\ phase' = "table"
  PROVE  WalkOK'
<1>1. UNCHANGED <<E, walk, at, bounds>>
  BY DEF oracle
<1>2. QED
  BY <1>1 DEF WalkOK, CexIsLongEnough

\* The hypothesis that is built is closed.
LEMMA WalkGenHypothesis == WalkOK /\ GenHypothesis => WalkOK'
<1>. SUFFICES ASSUME WalkOK, GenHypothesis PROVE WalkOK'
  OBVIOUS
<1>1. /\ UNCHANGED <<S, E, T, walk, at, bounds>>
      /\ phase = "table" /\ phase' = "oracle"
  BY DEF GenHypothesis, table, oracle
<1>2. \A w \in Extensions(S) : \E s \in S : Row(s) = Row(w)
  BY DEF GenHypothesis, MissingRows, SDotA
<1>3. (\A w \in Extensions(S) : \E s \in S : Row(s) = Row(w))'
  BY <1>1, <1>2 DEF Extensions, Row
<1>4. at' = <<>> /\ walk' = <<>>
  BY <1>1 DEF WalkOK
<1>5. Len(<<>>) # 1
  OBVIOUS
<1>6. QED
  BY <1>1, <1>3, <1>4, <1>5 DEF WalkOK, CexIsLongEnough

\* The first two letters of a walk never show a difference: the hypothesis
\* answers them from the rows the cache was asked for.
LEMMA WalkOracleStep == IInv /\ WalkOK /\ OracleStep => WalkOK'
<1>. SUFFICES ASSUME IInv, WalkOK, OracleStep PROVE WalkOK'
  OBVIOUS
<1>1. /\ UNCHANGED <<S, E, T>> /\ todo = {}
      /\ walk \in Words /\ phase = "oracle"
  BY DEF OracleStep, table, IInv, Types, SearchOK
<1>2. PICK reset \in BOOLEAN, a \in Letters :
        LET w == IF reset THEN <<a>> ELSE Append(walk, a)
            s == IF reset THEN <<>> ELSE at
        IN  \E out \in Answers(w) :
              /\ Front(out) = Front(TrueAnswer(w))
              /\ flaky' = FlakyAfter(w, out)
              /\ IF w \in DOMAIN cache /\ cache[w] # Last(out)
                 THEN /\ phase' = "aborted"
                      /\ UNCHANGED <<cache, oracle>>
                 ELSE /\ cache' = [v \in DOMAIN cache \cup {w} |->
                                     IF v \in DOMAIN cache THEN cache[v] ELSE Last(out)]
                      /\ walk' = w
                      /\ IF Last(out) # HypOut(s, a)
                         THEN /\ phase' = "split"
                              /\ bounds' = <<1, Len(w) - 2>>
                              /\ walked' = 0
                              /\ at' = <<>>
                         ELSE /\ walked' = walked + 1
                              /\ at' = HypStep(s, a)
                              /\ UNCHANGED <<phase, bounds>>
  BY DEF OracleStep
<1>. DEFINE w == IF reset THEN <<a>> ELSE Append(walk, a)
            s == IF reset THEN <<>> ELSE at
<1>3. \/ /\ s = <<>> /\ w = Append(<<>>, a) /\ Len(w) = 1
      \/ /\ Len(walk) = 1 /\ w = Append(walk, a) /\ Len(w) = 2
         /\ s \in S /\ Row(s) = Row(walk) /\ walk \in Extensions(S)
      \/ Len(w) \in Nat /\ Len(w) >= 3
  <2>1. /\ Len(walk) \in Nat /\ Len(Append(walk, a)) = Len(walk) + 1
    BY <1>1, AppendProperties, LenProperties DEF Words
  <2>2. <<a>> = Append(<<>>, a) /\ Len(<<a>>) = 1
    OBVIOUS
  <2>3. CASE reset
    BY <2>2, <2>3
  <2>4. CASE ~reset /\ Len(walk) = 0
    <3>1. walk = <<>>
      BY <1>1, <2>4, EmptySeq DEF Words
    <3>2. s = <<>> /\ w = Append(<<>>, a)
      BY <1>1, <2>4, <3>1 DEF WalkOK
    <3>3. QED
      BY <2>2, <3>2
  <2>5. CASE ~reset /\ Len(walk) = 1
    <3>1. walk[1] \in Letters /\ walk = Append(<<>>, walk[1])
      BY <1>1, <2>5 DEF Words
    <3>2. walk \in Extensions(S)
      BY <3>1 DEF Extensions, WalkOK
    <3>3. s \in S /\ Row(s) = Row(walk)
      BY <1>1, <2>5 DEF WalkOK
    <3>4. w = Append(walk, a) /\ Len(w) = 2
      BY <2>1, <2>5
    <3>5. QED
      BY <2>5, <3>2, <3>3, <3>4
  <2>6. CASE ~reset /\ Len(walk) >= 2
    BY <2>1, <2>6
  <2>. HIDE DEF w, s
  <2>7. Len(walk) = 0 \/ Len(walk) = 1 \/ Len(walk) >= 2
    BY <2>1
  <2>8. QED
    BY <2>3, <2>4, <2>5, <2>6, <2>7, Zenon
<1>4. Len(w) < 3 => w \in DOMAIN cache /\ cache[w] = HypOut(s, a)
  <2>1. CASE s = <<>> /\ w = Append(<<>>, a)
    <3>1. <<>> \in S \cup Extensions(S)
      BY DEF WalkOK
    <3>2. /\ Append(<<>>, a) \in DOMAIN cache
          /\ cache[Append(<<>>, a)] = HypOut(<<>>, a)
      BY <1>1, <3>1, HypAnswers
    <3>. HIDE DEF w, s
    <3>3. QED
      BY <2>1, <3>2
  <2>2. CASE w = Append(walk, a) /\ Row(s) = Row(walk) /\ walk \in Extensions(S)
    <3>. HIDE DEF w, s
    <3>1. QED
      BY <1>1, <2>2, HypAnswers
  <2>. HIDE DEF w, s
  <2>3. QED
    BY <1>3, <2>1, <2>2
<1>5. Len(w) = 1 => /\ HypStep(s, a) \in S /\ Row(HypStep(s, a)) = Row(w)
  <2>. HIDE DEF w, s
  <2>1. SUFFICES ASSUME Len(w) = 1
                 PROVE  HypStep(s, a) \in S /\ Row(HypStep(s, a)) = Row(w)
    OBVIOUS
  <2>2. s = <<>> /\ w = Append(<<>>, a)
    BY <1>3, <2>1
  <2>3. <<>> \in S
    BY DEF WalkOK
  <2>4. QED
    BY <1>1, <2>2, <2>3, HypGoes
<1>6. /\ <<>> \in S' /\ \A b \in Letters : \E i \in DOMAIN E' : E'[i] = <<b>>
      /\ (\A v \in Extensions(S) : \E t \in S : Row(t) = Row(v))'
  BY <1>1 DEF WalkOK, Extensions, Row
<1>7. w # <<>> /\ Len(w) \in Nat
  <2>. HIDE DEF w, s
  <2>1. Len(<<>>) = 0
    OBVIOUS
  <2>2. QED
    BY <1>3, <2>1
<1>8. CASE phase' = "aborted"
  BY <1>6, <1>8 DEF WalkOK, CexIsLongEnough
<1>9. ASSUME NEW o, ~ (w \in DOMAIN cache /\ cache[w] # o), walk' = w,
             o # HypOut(s, a), phase' = "split",
             bounds' = <<1, Len(w) - 2>>, at' = <<>>
      PROVE  WalkOK'
  <2>. HIDE DEF w, s
  <2>1. Len(w) >= 3
    BY <1>4, <1>7, <1>9
  <2>2. 1 <= Len(w) - 2
    BY <1>7, <2>1
  <2>3. QED
    BY <1>6, <1>9, <2>1, <2>2 DEF WalkOK, CexIsLongEnough
<1>10. ASSUME walk' = w, phase' = phase, at' = HypStep(s, a)
       PROVE  WalkOK'
  <2>. HIDE DEF w, s
  <2>1. Len(walk') = 1 => at' \in S' /\ Row(at)' = Row(walk)'
    BY <1>1, <1>5, <1>10 DEF Row
  <2>2. QED
    BY <1>1, <1>6, <1>7, <1>10, <2>1 DEF WalkOK, CexIsLongEnough
<1>11. PICK out \in Answers(w) :
         IF w \in DOMAIN cache /\ cache[w] # Last(out)
         THEN phase' = "aborted"
         ELSE /\ walk' = w
              /\ IF Last(out) # HypOut(s, a)
                 THEN /\ phase' = "split"
                      /\ bounds' = <<1, Len(w) - 2>>
                      /\ at' = <<>>
                 ELSE /\ at' = HypStep(s, a)
                      /\ phase' = phase
  BY <1>2
<1>. HIDE DEF w, s
<1>12. QED
  BY <1>8, <1>9, <1>10, <1>11

\* The search stays between its bounds, or hands over to the table.
LEMMA WalkSplitStep == IInv /\ WalkOK /\ SplitStep => WalkOK'
<1>. SUFFICES ASSUME IInv, WalkOK, SplitStep PROVE WalkOK'
  OBVIOUS
<1>. DEFINE mid == (bounds[1] + bounds[2]) \div 2
            d == SubSeq(walk, mid + 1, Len(walk))
            w == Bracket(mid) \o d
<1>1. phase = "split" /\ at = <<>> /\ Len(walk) >= 3
  BY DEF SplitStep, WalkOK, CexIsLongEnough
<1>2. CASE QueryExits(w)
  <2>1. UNCHANGED <<E, S, oracle>> /\ phase' = "aborted"
    BY <1>2 DEF QueryExits, table
  <2>2. QED
    BY <2>1, WalkStays
<1>3. ASSUME NEW l, NEW u, NEW x \in Words, Narrow(l, u, x), UNCHANGED at
      PROVE  WalkOK'
  <2>1. CASE l <= u
    <3>1. /\ UNCHANGED <<S, E, T, phase, walk, at>> /\ bounds' = <<l, u>>
      BY <1>3, <2>1 DEF Narrow, table
    <3>2. (\A v \in Extensions(S) : \E t \in S : Row(t) = Row(v))'
      BY <1>1, <3>1 DEF WalkOK, Extensions, Row
    <3>3. QED
      BY <1>1, <2>1, <3>1, <3>2 DEF WalkOK, CexIsLongEnough
  <2>2. CASE ~ (l <= u)
    <3>1. PICK new \in NewSuffixes(x) : E' = E \o new
      BY <1>3, <2>2 DEF Narrow
    <3>2. S' = S /\ phase' = "table" /\ walk' = <<>> /\ at' = <<>>
      BY <1>1, <1>3, <2>2 DEF Narrow
    <3>3. new \in Seq(Words \ {<<>>}) /\ E \in Seq(Words \ {<<>>})
      BY NewSuffixesAreWords DEF IInv, Types
    <3>4. \A i \in DOMAIN E : i \in DOMAIN E' /\ E'[i] = E[i]
      BY <3>1, <3>3, ConcatProperties, LenProperties
    <3>5. \A a \in Letters : \E i \in DOMAIN E' : E'[i] = <<a>>
      BY <3>4 DEF WalkOK
    <3>6. QED
      BY <3>2, <3>5 DEF WalkOK, CexIsLongEnough
  <2>3. QED
    BY <2>1, <2>2
<1>4. CASE /\ \E o \in Outputs :
                IF o = cache[walk]
                THEN Narrow(mid + 1, bounds[2], Tail(d))
                ELSE Narrow(bounds[1], mid - 1, d)
           /\ UNCHANGED at
  <2>1. d \in Words /\ Tail(d) \in Words
    BY <1>1, SearchFits
  <2>. HIDE DEF mid, d
  <2>2. QED
    BY <1>3, <1>4, <2>1
<1>5. \/ QueryExits(w)
      \/ /\ \E o \in Outputs :
              IF o = cache[walk]
              THEN Narrow(mid + 1, bounds[2], Tail(d))
              ELSE Narrow(bounds[1], mid - 1, d)
         /\ UNCHANGED at
  BY DEF SplitStep
<1>6. QED
  BY <1>2, <1>4, <1>5

LEMMA WalkNext == IInv /\ WalkOK /\ [Next]_vars => WalkOK'
<1>. SUFFICES ASSUME IInv, WalkOK, [Next]_vars PROVE WalkOK'
  OBVIOUS
<1>1. CASE FillCell
  <2>1. UNCHANGED <<E, oracle>> /\ S' = S /\ phase = "table"
        /\ phase' \in {"table", "aborted"}
    BY <1>1 DEF FillCell, QueryExits, table
  <2>2. QED
    BY <2>1, WalkStays
<1>2. CASE CloseTable
  <2>1. UNCHANGED <<E, oracle>> /\ S \subseteq S' /\ phase = "table"
        /\ phase' = "table"
    BY <1>2 DEF CloseTable
  <2>2. QED
    BY <2>1, WalkStays
<1>3. CASE OracleEnds
  <2>1. UNCHANGED <<E, S, oracle>> /\ phase' = "done"
    BY <1>3 DEF OracleEnds, table
  <2>2. QED
    BY <2>1, WalkStays
<1>4. CASE UNCHANGED vars
  <2>1. UNCHANGED <<S, E, T, phase, walk, at, bounds>>
    BY <1>4 DEF vars, table, oracle
  <2>2. QED
    BY <2>1 DEF WalkOK, CexIsLongEnough, Extensions, Row
<1>5. QED
  BY <1>1, <1>2, <1>3, <1>4, WalkGenHypothesis, WalkOracleStep, WalkSplitStep
     DEF Next

\* No counterexample is too short for the search of rs_cex_processing
\* (CounterExampleProcessing.py:62-63), whatever the walk and the answers.
THEOREM CexIsLongEnoughHolds == Spec => []CexIsLongEnough
<1>1. WalkOK => CexIsLongEnough
  BY DEF WalkOK
<1>2. QED
  BY <1>1, IInvHolds, WalkInit, WalkNext, PTL DEF Spec

----------------------------------------------------------------------------
(***************************************************************************)
(* Where words lead in a machine.                                          *)
(***************************************************************************)
\* A set of numbers that is not empty has a least one.
LEMMA HasLeast ==
  ASSUME NEW A \in SUBSET Nat, A # {}
  PROVE  \E x \in A : \A y \in A : x <= y
<1>1. PICK x \in A : \A y \in A : ~ (<<y, x>> \in OpToRel(<, Nat))
  BY NatLessThanWellFounded, WFMin
<1>2. ASSUME NEW y \in A PROVE x <= y
  <2>1. y \in Nat /\ x \in Nat /\ <<y, x>> \in Nat \X Nat
    OBVIOUS
  <2>2. ~ (y < x)
    BY <1>1, <2>1 DEF OpToRel
  <2>3. QED
    BY <2>1, <2>2
<1>3. QED
  BY <1>2

\* The first n states of a run.
FirstVisits(to, q, w, n, g) ==
  g = [m \in 0..n |-> IF m = 0 THEN q ELSE to[<<g[m - 1], w[m]>>]]

LEMMA FirstVisitsExist ==
  ASSUME NEW to, NEW q, NEW w
  PROVE  \A n \in Nat : \E g : FirstVisits(to, q, w, n, g)
<1>. DEFINE Bad == {n \in Nat : ~ \E g : FirstVisits(to, q, w, n, g)}
<1>1. SUFFICES ASSUME Bad # {} PROVE FALSE
  OBVIOUS
<1>2. PICK b \in Bad : \A y \in Bad : b <= y
  BY <1>1, HasLeast
<1>3. b # 0
  <2>1. FirstVisits(to, q, w, 0, [m \in 0..0 |-> q])
    BY DEF FirstVisits
  <2>2. QED
    BY <2>1
<1>4. b - 1 \in Nat /\ b - 1 \notin Bad
  BY <1>2, <1>3
<1>5. PICK g : FirstVisits(to, q, w, b - 1, g)
  BY <1>4
<1>. DEFINE h == [m \in 0..b |-> IF m = b THEN to[<<g[b - 1], w[b]>>] ELSE g[m]]
<1>6. \A m \in 0..(b - 1) : g[m] = IF m = 0 THEN q ELSE to[<<g[m - 1], w[m]>>]
  BY <1>5, <1>4 DEF FirstVisits
<1>7. ASSUME NEW m \in 0..b PROVE h[m] = IF m = 0 THEN q ELSE to[<<h[m - 1], w[m]>>]
  <2>1. CASE m = 0
    <3>1. 0 \in 0..(b - 1) /\ 0 \in 0..b
      BY <1>4
    <3>2. h[0] = g[0]
      BY <1>3, <3>1
    <3>3. QED
      BY <1>6, <2>1, <3>1, <3>2
  <2>2. CASE m = b
    <3>1. h[b] = to[<<g[b - 1], w[b]>>] /\ h[b - 1] = g[b - 1]
      BY <1>3, <1>4
    <3>2. QED
      BY <1>3, <2>2, <3>1
  <2>3. CASE m # 0 /\ m # b
    <3>1. m \in 0..(b - 1) /\ m - 1 \in 0..b /\ m - 1 # b
      BY <1>4, <2>3
    <3>2. h[m] = g[m] /\ h[m - 1] = g[m - 1]
      BY <2>3, <3>1
    <3>3. QED
      BY <1>6, <2>3, <3>1, <3>2
  <2>4. QED
    BY <2>1, <2>2, <2>3
<1>8. FirstVisits(to, q, w, b, h)
  <2>. HIDE DEF h
  <2>1. h = [m \in 0..b |-> h[m]]
    BY DEF h
  <2>2. QED
    BY <1>7, <2>1 DEF FirstVisits
<1>9. QED
  BY <1>8

LEMMA FirstVisitsAgree ==
  ASSUME NEW to, NEW q, NEW w, NEW n \in Nat, NEW m \in Nat, n <= m,
         NEW g, FirstVisits(to, q, w, n, g), NEW h, FirstVisits(to, q, w, m, h)
  PROVE  \A k \in 0..n : g[k] = h[k]
<1>. DEFINE Bad == {k \in 0..n : g[k] # h[k]}
<1>1. SUFFICES ASSUME Bad # {} PROVE FALSE
  OBVIOUS
<1>2. PICK b \in Bad : \A y \in Bad : b <= y
  <2>1. Bad \in SUBSET Nat
    OBVIOUS
  <2>2. QED
    BY <1>1, <2>1, HasLeast
<1>3. /\ g[b] = IF b = 0 THEN q ELSE to[<<g[b - 1], w[b]>>]
      /\ h[b] = IF b = 0 THEN q ELSE to[<<h[b - 1], w[b]>>]
  BY <1>2 DEF FirstVisits
<1>4. b # 0
  BY <1>2, <1>3
<1>5. b - 1 \in 0..n /\ b - 1 \notin Bad
  BY <1>2, <1>4
<1>6. QED
  BY <1>2, <1>3, <1>4, <1>5

\* The recursion of a run.
LEMMA VisitSteps ==
  ASSUME NEW to, NEW q, NEW w
  PROVE  /\ Visits(to, q, w)[0] = q
         /\ \A n \in Nat : Visits(to, q, w)[n + 1] = to[<<Visits(to, q, w)[n], w[n + 1]>>]
<1>. DEFINE G(n) == CHOOSE g : FirstVisits(to, q, w, n, g)
            V == [n \in Nat |-> G(n)[n]]
            Step(v) == [n \in Nat |-> IF n = 0 THEN q ELSE to[<<v[n - 1], w[n]>>]]
<1>1. \A n \in Nat : FirstVisits(to, q, w, n, G(n))
  BY FirstVisitsExist
<1>. HIDE DEF G
<1>2. ASSUME NEW n \in Nat PROVE V[n] = IF n = 0 THEN q ELSE to[<<V[n - 1], w[n]>>]
  <2>1. G(n)[n] = IF n = 0 THEN q ELSE to[<<G(n)[n - 1], w[n]>>]
    BY <1>1 DEF FirstVisits
  <2>2. CASE n = 0
    BY <2>1, <2>2
  <2>3. CASE n # 0
    <3>1. n - 1 \in Nat /\ n - 1 <= n /\ n - 1 \in 0..(n - 1)
      BY <2>3
    <3>2. G(n - 1)[n - 1] = G(n)[n - 1]
      BY <1>1, <3>1, FirstVisitsAgree
    <3>3. QED
      BY <2>1, <2>3, <3>1, <3>2
  <2>4. QED
    BY <2>2, <2>3
<1>3. V = Step(V)
  BY <1>2
<1>4. Visits(to, q, w) = CHOOSE v : v = Step(v)
  BY Zenon DEF Visits
<1>5. Visits(to, q, w) = Step(Visits(to, q, w))
  <2>. HIDE DEF V, Step
  <2>1. QED
    BY <1>3, <1>4
<1>6. \A n \in Nat : Visits(to, q, w)[n]
                       = IF n = 0 THEN q ELSE to[<<Visits(to, q, w)[n - 1], w[n]>>]
  BY <1>5
<1>7. ASSUME NEW n \in Nat
      PROVE  Visits(to, q, w)[n + 1] = to[<<Visits(to, q, w)[n], w[n + 1]>>]
  <2>1. n + 1 \in Nat /\ n + 1 # 0 /\ (n + 1) - 1 = n
    OBVIOUS
  <2>2. Visits(to, q, w)[n + 1] = to[<<Visits(to, q, w)[(n + 1) - 1], w[n + 1]>>]
    BY <1>6, <2>1
  <2>3. QED
    BY <2>1, <2>2
<1>8. QED
  BY <1>6, <1>7

\* A run stays among the states.
LEMMA VisitsType ==
  ASSUME NEW Q, NEW to \in [Q \X Letters -> Q], NEW q \in Q, NEW w \in Words
  PROVE  \A n \in 0..Len(w) : Visits(to, q, w)[n] \in Q
<1>. DEFINE Bad == {n \in 0..Len(w) : Visits(to, q, w)[n] \notin Q}
<1>1. SUFFICES ASSUME Bad # {} PROVE FALSE
  OBVIOUS
<1>2. Len(w) \in Nat /\ w \in Seq(Letters)
  BY LenProperties DEF Words
<1>3. PICK b \in Bad : \A y \in Bad : b <= y
  <2>1. Bad \in SUBSET Nat
    BY <1>2
  <2>2. QED
    BY <1>1, <2>1, HasLeast
<1>4. b # 0
  BY <1>3, VisitSteps
<1>5. b - 1 \in 0..Len(w) /\ b - 1 \notin Bad /\ b - 1 \in Nat /\ b \in 1..Len(w)
  BY <1>2, <1>3, <1>4
<1>6. Visits(to, q, w)[b] = to[<<Visits(to, q, w)[b - 1], w[b]>>]
  BY <1>5, VisitSteps
<1>7. w[b] \in Letters
  BY <1>2, <1>5
<1>8. Visits(to, q, w)[b - 1] \in Q
  BY <1>5
<1>9. QED
  BY <1>3, <1>6, <1>7, <1>8

\* Runs that meet and read the same letters stay together.
LEMMA VisitsMeet ==
  ASSUME NEW to, NEW p, NEW w, NEW q, NEW v, NEW j \in Nat, NEW n \in Nat,
         Visits(to, q, v)[j] = p, \A i \in 1..n : w[i] = v[j + i]
  PROVE  \A k \in 0..n : Visits(to, p, w)[k] = Visits(to, q, v)[j + k]
<1>. DEFINE Bad == {k \in 0..n : Visits(to, p, w)[k] # Visits(to, q, v)[j + k]}
<1>1. SUFFICES ASSUME Bad # {} PROVE FALSE
  OBVIOUS
<1>2. PICK b \in Bad : \A y \in Bad : b <= y
  <2>1. Bad \in SUBSET Nat
    OBVIOUS
  <2>2. QED
    BY <1>1, <2>1, HasLeast
<1>3. b # 0
  BY <1>2, VisitSteps
<1>4. b - 1 \in 0..n /\ b - 1 \notin Bad /\ b - 1 \in Nat /\ b \in 1..n
  BY <1>2, <1>3
<1>5. Visits(to, p, w)[b] = to[<<Visits(to, p, w)[b - 1], w[b]>>]
  BY <1>4, VisitSteps
<1>6. Visits(to, q, v)[j + b] = to[<<Visits(to, q, v)[j + (b - 1)], v[j + b]>>]
  <2>1. j + (b - 1) \in Nat /\ (j + (b - 1)) + 1 = j + b
    BY <1>4
  <2>2. QED
    BY <2>1, VisitSteps
<1>7. QED
  BY <1>2, <1>4, <1>5, <1>6

LEMMA VisitsAgree ==
  ASSUME NEW to, NEW q, NEW w, NEW v, NEW n \in Nat, \A i \in 1..n : w[i] = v[i]
  PROVE  \A k \in 0..n : Visits(to, q, w)[k] = Visits(to, q, v)[k]
<1>1. Visits(to, q, v)[0] = q
  BY VisitSteps
<1>2. \A i \in 1..n : w[i] = v[0 + i]
  OBVIOUS
<1>3. \A k \in 0..n : Visits(to, q, w)[k] = Visits(to, q, v)[0 + k]
  BY ONLY <1>1, <1>2, VisitsMeet
<1>4. QED
  BY <1>3

LEMMA RunOfPrefix ==
  ASSUME NEW to, NEW q, NEW w \in Words, NEW k \in 0..Len(w)
  PROVE  /\ SubSeq(w, 1, k) \in Words /\ Len(SubSeq(w, 1, k)) = k
         /\ RunFrom(to, q, SubSeq(w, 1, k)) = Visits(to, q, w)[k]
<1>1. Len(w) \in Nat /\ w \in Seq(Letters) /\ k \in Nat /\ k <= Len(w)
  BY LenProperties DEF Words
<1>2. \A i \in 1..k : w[i] \in Letters
  BY <1>1
<1>3. /\ SubSeq(w, 1, k) \in Seq(Letters) /\ Len(SubSeq(w, 1, k)) = k
      /\ \A i \in 1..k : SubSeq(w, 1, k)[i] = w[i]
  <2>1. /\ SubSeq(w, 1, k) \in Seq(Letters)
        /\ Len(SubSeq(w, 1, k)) = IF 1 <= k THEN k - 1 + 1 ELSE 0
        /\ \A i \in 1..(k - 1 + 1) : SubSeq(w, 1, k)[i] = w[1 + i - 1]
    BY <1>1, <1>2, SubSeqProperties
  <2>2. QED
    BY <1>1, <2>1
<1>5. \A m \in 0..k : Visits(to, q, SubSeq(w, 1, k))[m] = Visits(to, q, w)[m]
  <2>. DEFINE v == SubSeq(w, 1, k)
  <2>1. \A i \in 1..k : v[i] = w[i]
    BY <1>3
  <2>. HIDE DEF v
  <2>2. \A m \in 0..k : Visits(to, q, v)[m] = Visits(to, q, w)[m]
    BY <2>1, VisitsAgree
  <2>3. QED
    BY <2>2 DEF v
<1>6. Visits(to, q, SubSeq(w, 1, k))[k] = Visits(to, q, w)[k]
  BY <1>1, <1>5
<1>7. QED
  BY <1>3, <1>6 DEF RunFrom, Words

\* The first run goes on where the second word begins.
LEMMA RunOfConcat ==
  ASSUME NEW to, NEW q, NEW s \in Words, NEW e \in Words
  PROVE  /\ s \o e \in Words /\ Len(s \o e) = Len(s) + Len(e)
         /\ \A i \in 1..Len(e) : (s \o e)[Len(s) + i] = e[i]
         /\ \A k \in 0..Len(e) : Visits(to, q, s \o e)[Len(s) + k]
                                   = Visits(to, RunFrom(to, q, s), e)[k]
<1>1. Len(s) \in Nat /\ Len(e) \in Nat /\ s \in Seq(Letters) /\ e \in Seq(Letters)
  BY LenProperties DEF Words
<1>2. /\ s \o e \in Seq(Letters) /\ Len(s \o e) = Len(s) + Len(e)
      /\ \A i \in 1..(Len(s) + Len(e)) : (s \o e)[i] = IF i <= Len(s) THEN s[i] ELSE e[i - Len(s)]
  BY <1>1, ConcatProperties
<1>3. /\ \A i \in 1..Len(s) : s[i] = (s \o e)[i]
      /\ \A i \in 1..Len(e) : e[i] = (s \o e)[Len(s) + i]
  BY <1>1, <1>2
<1>. DEFINE w == s \o e
            p == RunFrom(to, q, s)
<1>4. PICK n \in Nat : n = Len(s)
  BY <1>1
<1>5. PICK m \in Nat : m = Len(e)
  BY <1>1
<1>6. /\ \A i \in 1..n : s[i] = w[i]
      /\ \A i \in 1..m : e[i] = w[n + i]
  BY <1>3, <1>4, <1>5
<1>. HIDE DEF w, p
<1>7. \A k \in 0..n : Visits(to, q, s)[k] = Visits(to, q, w)[k]
  BY <1>6, VisitsAgree
<1>8. Visits(to, q, w)[n] = p
  BY <1>4, <1>7 DEF RunFrom, p
<1>9. \A k \in 0..m : Visits(to, p, e)[k] = Visits(to, q, w)[n + k]
  <2>1. \A i \in 1..m : e[i] = w[n + i]
    BY <1>6
  <2>. QED
    BY ONLY <1>8, <2>1, VisitsMeet, n \in Nat, m \in Nat
<1>10. \A k \in 0..m : Visits(to, q, w)[n + k] = Visits(to, p, e)[k]
  BY <1>9
<1>11. QED
  BY <1>2, <1>3, <1>4, <1>5, <1>10 DEF Words, w, p

LEMMA RunSteps ==
  ASSUME NEW to, NEW q, NEW w \in Words, NEW a \in Letters
  PROVE  /\ RunFrom(to, q, <<>>) = q
         /\ RunFrom(to, q, Append(w, a)) = to[<<RunFrom(to, q, w), a>>]
<1>1. RunFrom(to, q, <<>>) = q
  <2>1. Len(<<>>) = 0
    OBVIOUS
  <2>2. QED
    BY <2>1, VisitSteps DEF RunFrom
<1>2. Len(w) \in Nat /\ w \in Seq(Letters)
  BY LenProperties DEF Words
<1>. DEFINE v == Append(w, a)
<1>3. /\ Len(v) = Len(w) + 1 /\ v[Len(w) + 1] = a
      /\ \A i \in 1..Len(w) : w[i] = v[i]
  BY <1>2, AppendProperties
<1>. HIDE DEF v
<1>4. \A k \in 0..Len(w) : Visits(to, q, w)[k] = Visits(to, q, v)[k]
  BY <1>2, <1>3, VisitsAgree
<1>5. Visits(to, q, v)[Len(w) + 1] = to[<<Visits(to, q, v)[Len(w)], v[Len(w) + 1]>>]
  BY <1>2, VisitSteps
<1>6. Visits(to, q, v)[Len(w)] = Visits(to, q, w)[Len(w)]
  BY <1>2, <1>4
<1>7. QED
  BY <1>1, <1>3, <1>5, <1>6 DEF RunFrom, v

----------------------------------------------------------------------------
(***************************************************************************)
(* What the machine answers.                                               *)
(***************************************************************************)
MachineOK ==
  /\ machine.to \in [States \X Letters -> States]
  /\ machine.out \in [States \X Letters -> Outputs]

LEMMA MachineFields == machine \in Machines => MachineOK
BY LStarAssumption DEF MachineOK

\* The state after a word, and the last output of one.
After(q, w) == RunFrom(machine.to, q, w)
LastOut(q, w) == OutputsFrom(q, w)[Len(w)]

LEMMA OutputsAre ==
  ASSUME NEW q, NEW w \in Words
  PROVE  /\ DOMAIN OutputsFrom(q, w) = 1..Len(w) /\ Len(w) \in Nat
         /\ OutputsFrom(q, w) = [i \in 1..Len(w) |-> OutputsFrom(q, w)[i]]
         /\ \A i \in 1..Len(w) :
              OutputsFrom(q, w)[i] = machine.out[<<Visits(machine.to, q, w)[i - 1], w[i]>>]
<1>1. DOMAIN w = 1..Len(w) /\ Len(w) \in Nat
  BY LenProperties DEF Words
<1>2. ASSUME NEW i \in 1..Len(w)
      PROVE  OutputsFrom(q, w)[i] = machine.out[<<Visits(machine.to, q, w)[i - 1], w[i]>>]
  <2>1. i - 1 \in 0..Len(w)
    BY <1>1
  <2>2. OutputsFrom(q, w)[i] = machine.out[<<RunFrom(machine.to, q, SubSeq(w, 1, i - 1)), w[i]>>]
    BY <1>1 DEF OutputsFrom
  <2>3. QED
    BY <2>1, <2>2, RunOfPrefix
<1>3. OutputsFrom(q, w) = [i \in 1..Len(w) |-> OutputsFrom(q, w)[i]]
  BY <1>1 DEF OutputsFrom
<1>4. QED
  BY <1>1, <1>2, <1>3

\* The output of a path is that of the word.
LEMMA OutputOfPath ==
  ASSUME NEW q, NEW w \in Words, NEW v \in Paths(w)
  PROVE  /\ v \in Words /\ v # <<>> /\ Len(v) \in 1..Len(w)
         /\ LastOut(q, v) = OutputsFrom(q, w)[Len(v)]
<1>1. Len(w) \in Nat /\ DOMAIN w = 1..Len(w) /\ w \in Seq(Letters)
  BY LenProperties DEF Words
<1>2. PICK n \in 1..Len(w) : v = SubSeq(w, 1, n)
  BY <1>1 DEF Paths
<1>3. n \in 0..Len(w) /\ n \in Nat /\ n >= 1
  BY <1>1
<1>4. v \in Words /\ Len(v) = n
  BY <1>2, <1>3, RunOfPrefix
<1>5. v # <<>>
  <2>1. Len(<<>>) = 0
    OBVIOUS
  <2>2. QED
    BY <1>3, <1>4, <2>1
<1>6. \A i \in 1..n : v[i] = w[i]
  <2>1. \A i \in 1..n : w[i] \in Letters
    BY <1>1
  <2>2. \A i \in 1..(n - 1 + 1) : SubSeq(w, 1, n)[i] = w[1 + i - 1]
    BY <1>3, <2>1, SubSeqProperties
  <2>3. QED
    BY <1>2, <1>3, <2>2
<1>8. \A k \in 0..n : Visits(machine.to, q, v)[k] = Visits(machine.to, q, w)[k]
  BY <1>3, <1>6, VisitsAgree
<1>9. n - 1 \in 0..n /\ n \in 1..n
  BY <1>3
<1>10. /\ OutputsFrom(q, v)[n] = machine.out[<<Visits(machine.to, q, v)[n - 1], v[n]>>]
       /\ OutputsFrom(q, w)[n] = machine.out[<<Visits(machine.to, q, w)[n - 1], w[n]>>]
  BY <1>4, <1>9, OutputsAre
<1>11. Visits(machine.to, q, v)[n - 1] = Visits(machine.to, q, w)[n - 1] /\ v[n] = w[n]
  BY <1>6, <1>8, <1>9
<1>12. QED
  BY <1>4, <1>5, <1>10, <1>11 DEF LastOut

\* After a word the answers are those of the state it leads to.
LEMMA OutputsOfConcat ==
  ASSUME NEW q, NEW s \in Words, NEW e \in Words
  PROVE  \A i \in 1..Len(e) : OutputsFrom(q, s \o e)[Len(s) + i] = OutputsFrom(After(q, s), e)[i]
<1>1. Len(s) \in Nat /\ Len(e) \in Nat
  BY LenProperties DEF Words
<1>2. /\ s \o e \in Words /\ Len(s \o e) = Len(s) + Len(e)
      /\ \A i \in 1..Len(e) : (s \o e)[Len(s) + i] = e[i]
      /\ \A k \in 0..Len(e) : Visits(machine.to, q, s \o e)[Len(s) + k]
                                = Visits(machine.to, After(q, s), e)[k]
  <2>1. /\ s \o e \in Words /\ Len(s \o e) = Len(s) + Len(e)
        /\ \A i \in 1..Len(e) : (s \o e)[Len(s) + i] = e[i]
    BY RunOfConcat
  <2>2. \A k \in 0..Len(e) : Visits(machine.to, q, s \o e)[Len(s) + k]
                                = Visits(machine.to, RunFrom(machine.to, q, s), e)[k]
    BY RunOfConcat
  <2>3. QED
    BY <2>1, <2>2 DEF After
<1>3. ASSUME NEW i \in 1..Len(e)
      PROVE  OutputsFrom(q, s \o e)[Len(s) + i] = OutputsFrom(After(q, s), e)[i]
  <2>1. Len(s) + i \in 1..Len(s \o e) /\ i - 1 \in 0..Len(e) /\ (Len(s) + i) - 1 = Len(s) + (i - 1)
    BY <1>1, <1>2
  <2>2. OutputsFrom(q, s \o e)[Len(s) + i]
          = machine.out[<<Visits(machine.to, q, s \o e)[(Len(s) + i) - 1], (s \o e)[Len(s) + i]>>]
    BY <1>2, <2>1, OutputsAre
  <2>3. OutputsFrom(After(q, s), e)[i]
          = machine.out[<<Visits(machine.to, After(q, s), e)[i - 1], e[i]>>]
    BY OutputsAre
  <2>4. QED
    BY <1>2, <2>1, <2>2, <2>3
<1>4. QED
  BY <1>3

----------------------------------------------------------------------------
(***************************************************************************)
(* Only a wrong answer makes learning give up.                             *)
(***************************************************************************)
\* The cache holds what the machine answers to every word it knows.
CacheIsTrue ==
  \A v \in DOMAIN cache : v \in Words /\ v # <<>> /\ cache[v] = LastOut(Start, v)

\* As long as no answer was wrong the cache is right and learning goes on.
FlakyInv ==
  /\ machine \in Machines /\ flaky \in 0..Flaky
  /\ flaky = Flaky => phase # "aborted" /\ CacheIsTrue

LEMMA SameMachine ==
  ASSUME UNCHANGED machine, NEW q, NEW w
  PROVE  LastOut(q, w)' = LastOut(q, w)
BY DEF LastOut, OutputsFrom

\* An answer that costs no wrong answer is the machine's.
LEMMA AnswerIsTrue ==
  ASSUME flaky \in 0..Flaky, NEW w, NEW out \in Answers(w), flaky' = FlakyAfter(w, out)
  PROVE  /\ flaky' \in 0..Flaky
         /\ flaky' = Flaky => flaky = Flaky /\ out = TrueAnswer(w)
<1>1. Flaky \in Nat
  BY LStarAssumption
<1>2. CASE out = TrueAnswer(w)
  BY <1>2 DEF FlakyAfter
<1>3. CASE out # TrueAnswer(w)
  <2>1. flaky # 0
    BY <1>3 DEF Answers
  <2>2. flaky' = flaky - 1
    BY <1>3 DEF FlakyAfter
  <2>3. QED
    BY <1>1, <2>1, <2>2
<1>4. QED
  BY <1>2, <1>3

\* What a true answer adds to the cache is true.
LEMMA QueryKeepsTruth ==
  ASSUME FlakyInv, NEW w \in Words, NEW o, Query(w, o), UNCHANGED machine
  PROVE  /\ flaky' \in 0..Flaky
         /\ flaky' = Flaky => flaky = Flaky /\ CacheIsTrue'
<1>1. CASE UNCHANGED <<flaky, cache>>
  BY <1>1, SameMachine DEF FlakyInv, CacheIsTrue
<1>2. ASSUME NEW out \in Answers(w), flaky' = FlakyAfter(w, out),
             cache' = CacheWith(w, out)
      PROVE  /\ flaky' \in 0..Flaky
             /\ flaky' = Flaky => flaky = Flaky /\ CacheIsTrue'
  <2>1. /\ flaky' \in 0..Flaky
        /\ flaky' = Flaky => flaky = Flaky /\ out = TrueAnswer(w)
    BY <1>2, AnswerIsTrue DEF FlakyInv
  <2>2. ASSUME flaky' = Flaky, NEW v \in DOMAIN cache'
        PROVE  v \in Words /\ v # <<>> /\ cache'[v] = LastOut(Start, v)
    <3>1. v \in DOMAIN cache \cup Paths(w)
          /\ cache'[v] = IF v \in DOMAIN cache THEN cache[v] ELSE out[Len(v)]
      BY <1>2, <2>2 DEF CacheWith
    <3>2. CASE v \in DOMAIN cache
      BY <2>1, <2>2, <3>1, <3>2 DEF FlakyInv, CacheIsTrue
    <3>3. CASE v \notin DOMAIN cache
      <4>1. v \in Paths(w) /\ cache'[v] = OutputsFrom(Start, w)[Len(v)]
        BY <2>1, <2>2, <3>1, <3>3 DEF TrueAnswer
      <4>2. QED
        BY <4>1, OutputOfPath
    <3>4. QED
      BY <3>2, <3>3
  <2>3. QED
    BY <2>1, <2>2, SameMachine DEF CacheIsTrue
<1>3. QED
  BY <1>1, <1>2 DEF Query

\* A true answer contradicts no true cache.
LEMMA ExitIsFlaky ==
  ASSUME FlakyInv, NEW w \in Words, QueryExits(w)
  PROVE  FlakyInv'
<1>1. PICK out \in Answers(w) : Conflict(w, out) /\ flaky' = FlakyAfter(w, out)
  BY DEF QueryExits
<1>2. /\ flaky' \in 0..Flaky
      /\ flaky' = Flaky => flaky = Flaky /\ out = TrueAnswer(w)
  BY <1>1, AnswerIsTrue DEF FlakyInv
<1>3. ASSUME flaky = Flaky, out = TrueAnswer(w) PROVE FALSE
  <2>1. PICK v \in Paths(w) \cap DOMAIN cache : cache[v] # OutputsFrom(Start, w)[Len(v)]
    BY <1>1, <1>3 DEF Conflict, TrueAnswer
  <2>2. cache[v] = LastOut(Start, v)
    BY <1>3, <2>1 DEF FlakyInv, CacheIsTrue
  <2>3. QED
    BY <2>1, <2>2, OutputOfPath
<1>4. machine' = machine
  BY DEF QueryExits
<1>5. QED
  BY <1>2, <1>3, <1>4 DEF FlakyInv

LEMMA TruthStays ==
  ASSUME FlakyInv, UNCHANGED <<machine, flaky, cache>>,
         phase' = phase \/ phase' # "aborted"
  PROVE  FlakyInv'
<1>1. CacheIsTrue => CacheIsTrue'
  BY SameMachine DEF CacheIsTrue
<1>2. QED
  BY <1>1 DEF FlakyInv

LEMMA TruthAfterQuery ==
  ASSUME FlakyInv, NEW w \in Words, NEW o, Query(w, o), UNCHANGED machine,
         phase' # "aborted"
  PROVE  FlakyInv'
BY QueryKeepsTruth DEF FlakyInv

LEMMA TruthFillCell == IInv /\ FlakyInv /\ FillCell => FlakyInv'
<1>. SUFFICES ASSUME IInv, FlakyInv, FillCell PROVE FlakyInv'
  OBVIOUS
<1>. DEFINE w == Current \o suffixes[col]
<1>1. w \in Words /\ phase = "table"
  <2>1. Current \in Words
    BY DEF FillCell, Current, IInv, Types
  <2>2. suffixes[col] \in Words \ {<<>>}
    BY ElementOfSeq DEF IInv, Types
  <2>3. QED
    BY <2>1, <2>2, WordWithSuffix DEF FillCell
<1>. HIDE DEF w
<1>2. CASE QueryExits(w)
  BY <1>1, <1>2, ExitIsFlaky
<1>3. CASE \E o \in Outputs : Query(w, o) /\ UNCHANGED <<machine, phase>>
  BY <1>1, <1>3, TruthAfterQuery
<1>4. CASE UNCHANGED <<machine, flaky, cache, phase>>
  BY <1>4, TruthStays
<1>5. \/ QueryExits(w)
      \/ \E o \in Outputs : Query(w, o) /\ UNCHANGED <<machine, phase>>
      \/ UNCHANGED <<machine, flaky, cache, phase>>
  BY DEF FillCell, w, Current
<1>6. QED
  BY <1>2, <1>3, <1>4, <1>5

LEMMA TruthOracleStep == IInv /\ FlakyInv /\ OracleStep => FlakyInv'
<1>. SUFFICES ASSUME IInv, FlakyInv, OracleStep PROVE FlakyInv'
  OBVIOUS
<1>1. UNCHANGED machine /\ walk \in Words /\ phase = "oracle"
  BY DEF OracleStep, IInv, SearchOK
<1>2. PICK reset \in BOOLEAN, a \in Letters :
        LET w == IF reset THEN <<a>> ELSE Append(walk, a)
            s == IF reset THEN <<>> ELSE at
        IN  \E out \in Answers(w) :
              /\ Front(out) = Front(TrueAnswer(w))
              /\ flaky' = FlakyAfter(w, out)
              /\ IF w \in DOMAIN cache /\ cache[w] # Last(out)
                 THEN /\ phase' = "aborted"
                      /\ UNCHANGED <<cache, oracle>>
                 ELSE /\ cache' = [v \in DOMAIN cache \cup {w} |->
                                     IF v \in DOMAIN cache THEN cache[v] ELSE Last(out)]
                      /\ walk' = w
                      /\ IF Last(out) # HypOut(s, a)
                         THEN /\ phase' = "split"
                              /\ bounds' = <<1, Len(w) - 2>>
                              /\ walked' = 0
                              /\ at' = <<>>
                         ELSE /\ walked' = walked + 1
                              /\ at' = HypStep(s, a)
                              /\ UNCHANGED <<phase, bounds>>
  BY DEF OracleStep
<1>. DEFINE w == IF reset THEN <<a>> ELSE Append(walk, a)
<1>3. w \in Words /\ Len(w) \in Nat \ {0}
  <2>1. Append(walk, a) \in Seq(Letters) /\ Len(Append(walk, a)) = Len(walk) + 1
        /\ Len(walk) \in Nat
    BY <1>1, AppendProperties, LenProperties DEF Words
  <2>2. <<a>> \in Seq(Letters) /\ Len(<<a>>) = 1
    OBVIOUS
  <2>3. QED
    BY <2>1, <2>2 DEF Words
<1>. HIDE DEF w
<1>4. PICK out \in Answers(w) :
        /\ flaky' = FlakyAfter(w, out)
        /\ IF w \in DOMAIN cache /\ cache[w] # Last(out)
           THEN phase' = "aborted"
           ELSE /\ cache' = [v \in DOMAIN cache \cup {w} |->
                               IF v \in DOMAIN cache THEN cache[v] ELSE Last(out)]
                /\ phase' \in {"split", "oracle"}
  BY <1>1, <1>2 DEF w
<1>5. /\ flaky' \in 0..Flaky
      /\ flaky' = Flaky => flaky = Flaky /\ out = TrueAnswer(w)
  BY <1>4, AnswerIsTrue DEF FlakyInv
<1>6. ASSUME flaky' = Flaky PROVE phase' # "aborted" /\ CacheIsTrue'
  <2>1. Last(out) = LastOut(Start, w)
    <3>1. Len(OutputsFrom(Start, w)) = Len(w)
      <4>. DEFINE g == OutputsFrom(Start, w)
      <4>1. g = [i \in 1..Len(w) |-> g[i]] /\ Len(w) \in Nat
        BY <1>3, OutputsAre
      <4>. HIDE DEF g
      <4>2. Len(g) = Len(w)
        BY <4>1
      <4>3. QED
        BY <4>2 DEF g
    <3>2. QED
      BY <1>5, <1>6, <3>1 DEF Last, LastOut, TrueAnswer
  <2>2. CacheIsTrue /\ w # <<>>
    <3>1. Len(<<>>) = 0
      OBVIOUS
    <3>2. QED
      BY <1>3, <1>5, <1>6, <3>1 DEF FlakyInv
  <2>3. ~ (w \in DOMAIN cache /\ cache[w] # Last(out))
    BY <2>1, <2>2 DEF CacheIsTrue
  <2>4. \A v \in DOMAIN cache' : v \in Words /\ v # <<>> /\ cache'[v] = LastOut(Start, v)
    BY <1>3, <1>4, <2>1, <2>2, <2>3 DEF CacheIsTrue
  <2>5. CacheIsTrue'
    BY <1>1, <2>4, SameMachine DEF CacheIsTrue
  <2>6. QED
    BY <1>4, <2>3, <2>5
<1>7. QED
  BY <1>1, <1>5, <1>6 DEF FlakyInv

\* A closed table has a state for every extension, so that the hypothesis
\* leads every word to a state.
Closed == \A w \in Extensions(S) : \E s \in S : Row(s) = Row(w)
HypTo == [x \in S \X Letters |-> HypStep(x[1], x[2])]

LEMMA HypToType ==
  ASSUME Closed
  PROVE  /\ HypTo \in [S \X Letters -> S]
         /\ \A s \in S, a \in Letters :
              HypTo[<<s, a>>] = HypStep(s, a) /\ Row(HypStep(s, a)) = Row(Append(s, a))
<1>1. ASSUME NEW s \in S, NEW a \in Letters
      PROVE  HypStep(s, a) \in S /\ Row(HypStep(s, a)) = Row(Append(s, a))
  <2>1. Append(s, a) \in Extensions(S)
    BY DEF Extensions
  <2>2. \E v \in S : Row(v) = Row(Append(s, a))
    BY <2>1 DEF Closed
  <2>3. QED
    BY <2>2 DEF HypStep
<1>2. \A x \in S \X Letters : HypTo[x] = HypStep(x[1], x[2])
  BY DEF HypTo
<1>3. \A x \in S \X Letters : x[1] \in S /\ x[2] \in Letters
  OBVIOUS
<1>4. \A s \in S, a \in Letters : <<s, a>> \in S \X Letters /\ <<s, a>>[1] = s /\ <<s, a>>[2] = a
  OBVIOUS
<1>5. HypTo = [x \in S \X Letters |-> HypTo[x]]
  BY DEF HypTo
<1>6. \A x \in S \X Letters : HypTo[x] \in S
  BY <1>1, <1>2, <1>3
<1>. HIDE DEF HypTo
<1>7. HypTo \in [S \X Letters -> S]
  BY <1>5, <1>6
<1>8. \A s \in S, a \in Letters : HypTo[<<s, a>>] = HypStep(s, a)
  BY <1>2, <1>4
<1>9. QED
  BY <1>1, <1>7, <1>8

LEMMA HypAfterType ==
  ASSUME Closed, <<>> \in S, NEW w \in Words
  PROVE  HypAfter(w) \in S
<1>1. HypTo \in [S \X Letters -> S]
  BY HypToType
<1>2. Len(w) \in 0..Len(w)
  BY LenProperties DEF Words
<1>3. Visits(HypTo, <<>>, w)[Len(w)] \in S
  BY <1>1, <1>2, VisitsType
<1>4. QED
  BY <1>3 DEF HypAfter, HypTo, RunFrom

LEMMA TruthSplitStep == IInv /\ WalkOK /\ FlakyInv /\ SplitStep => FlakyInv'
<1>. SUFFICES ASSUME IInv, WalkOK, FlakyInv, SplitStep PROVE FlakyInv'
  OBVIOUS
<1>. DEFINE mid == (bounds[1] + bounds[2]) \div 2
            d == SubSeq(walk, mid + 1, Len(walk))
            w == Bracket(mid) \o d
<1>1. phase = "split"
  BY DEF SplitStep
<1>2. mid \in 0..Len(walk) /\ walk \in Words /\ d \in Words \ {<<>>}
  <2>1. /\ mid \in Nat /\ mid + 1 <= Len(walk) /\ Len(walk) \in Nat
        /\ walk \in Words /\ d \in Words /\ d # <<>>
    BY <1>1, SearchFits
  <2>. HIDE DEF mid, d
  <2>2. QED
    BY <2>1
<1>3. Bracket(mid) \in Words
  <2>1. SubSeq(walk, 1, mid) \in Words
    <3>. HIDE DEF mid
    <3>1. QED
      BY <1>2, RunOfPrefix
  <2>2. Closed /\ <<>> \in S
    BY <1>1 DEF WalkOK, Closed
  <2>. DEFINE v == SubSeq(walk, 1, mid)
  <2>. HIDE DEF v
  <2>3. HypAfter(v) \in S
    BY <2>1, <2>2, HypAfterType DEF v
  <2>4. QED
    BY <2>3 DEF v, Bracket, IInv, Types
<1>. HIDE DEF mid, d
<1>4. w \in Words
  BY <1>2, <1>3, WordWithSuffix
<1>5. \/ QueryExits(w)
      \/ \E o \in Outputs :
           /\ Query(w, o)
           /\ UNCHANGED machine /\ phase' # "aborted"
  <2>1. ASSUME NEW l, NEW u, NEW x, Narrow(l, u, x) PROVE phase' # "aborted"
    BY <1>1, <2>1 DEF Narrow
  <2>2. \/ QueryExits(w)
        \/ \E o \in Outputs :
             /\ Query(w, o)
             /\ UNCHANGED machine
             /\ \E l, u, x : Narrow(l, u, x)
    BY DEF SplitStep, w, d, mid
  <2>3. QED
    BY <2>1, <2>2
<1>. HIDE DEF w
<1>6. QED
  BY <1>4, <1>5, ExitIsFlaky, TruthAfterQuery

LEMMA TruthNext == IInv /\ WalkOK /\ FlakyInv /\ [Next]_vars => FlakyInv'
<1>. SUFFICES ASSUME IInv, WalkOK, FlakyInv, [Next]_vars PROVE FlakyInv'
  OBVIOUS
<1>1. CASE CloseTable \/ GenHypothesis \/ OracleEnds \/ UNCHANGED vars
  <2>1. UNCHANGED <<machine, flaky, cache>> /\ (phase' = phase \/ phase' # "aborted")
    BY <1>1 DEF CloseTable, GenHypothesis, OracleEnds, vars
  <2>2. QED
    BY <2>1, TruthStays
<1>2. QED
  BY <1>1, TruthFillCell, TruthOracleStep, TruthSplitStep DEF Next

LEMMA TruthInit == Init => FlakyInv
<1>. SUFFICES ASSUME Init PROVE FlakyInv
  OBVIOUS
<1>1. DOMAIN cache = {}
  BY DEF Init
<1>2. Flaky \in Nat
  BY LStarAssumption
<1>3. QED
  BY <1>1, <1>2 DEF Init, FlakyInv, CacheIsTrue

\* Learning is given up only because of a wrong answer (CacheTree.py:57): a
\* server that answers like one Mealy machine never makes the cache
\* contradict itself, for every machine, alphabet and walk of the oracle.
THEOREM OnlyFlakyAbortsHolds == Spec => []OnlyFlakyAborts
<1>1. Spec => []FlakyInv
  BY TruthInit, TruthNext, IInvHolds, WalkInit, WalkNext, PTL DEF Spec
<1>2. FlakyInv => OnlyFlakyAborts
  <2>1. Flaky \in Nat
    BY LStarAssumption
  <2>2. QED
    BY <2>1 DEF FlakyInv, OnlyFlakyAborts
<1>3. QED
  BY <1>1, <1>2, PTL

----------------------------------------------------------------------------
(***************************************************************************)
(* Words as long as the machine has states tell all its states apart that  *)
(* any word tells apart.                                                   *)
(***************************************************************************)
\* Two states that no word, or no word of at most k letters, tells apart.
SameAnswers(q, p) == \A w \in Words : OutputsFrom(q, w) = OutputsFrom(p, w)
Alike(q, p, k) == \A w \in Words : Len(w) <= k => OutputsFrom(q, w) = OutputsFrom(p, w)

\* What the words of at most k letters show of a state, and of all of them.
Behaviour(q, k) == [w \in SeqOf(Letters, k) |-> OutputsFrom(q, w)]
Behaviours(k) == {Behaviour(q, k) : q \in States}

LEMMA ShortWords ==
  ASSUME NEW k \in Nat
  PROVE  \A w : w \in SeqOf(Letters, k) <=> w \in Words /\ Len(w) <= k
<1>1. ASSUME NEW w \in SeqOf(Letters, k) PROVE w \in Words /\ Len(w) <= k
  <2>1. PICK m \in 0..k : w \in [1..m -> Letters]
    BY DEF SeqOf
  <2>2. w \in Seq(Letters) /\ Len(w) = m
    BY <2>1
  <2>3. QED
    BY <2>1, <2>2 DEF Words
<1>2. ASSUME NEW w \in Words, Len(w) <= k PROVE w \in SeqOf(Letters, k)
  <2>1. w \in [1..Len(w) -> Letters] /\ Len(w) \in 0..k
    BY <1>2, LenProperties DEF Words
  <2>2. QED
    BY <2>1 DEF SeqOf
<1>3. QED
  BY <1>1, <1>2

LEMMA AlikeIsBehaviour ==
  ASSUME NEW k \in Nat, NEW q, NEW p
  PROVE  Alike(q, p, k) <=> Behaviour(q, k) = Behaviour(p, k)
<1>1. ASSUME Alike(q, p, k) PROVE Behaviour(q, k) = Behaviour(p, k)
  BY <1>1, ShortWords DEF Alike, Behaviour
<1>2. ASSUME Behaviour(q, k) = Behaviour(p, k),
             NEW w \in Words, Len(w) <= k
      PROVE  OutputsFrom(q, w) = OutputsFrom(p, w)
  <2>1. w \in SeqOf(Letters, k)
    BY <1>2, ShortWords
  <2>2. Behaviour(q, k)[w] = OutputsFrom(q, w) /\ Behaviour(p, k)[w] = OutputsFrom(p, w)
    BY <2>1 DEF Behaviour
  <2>3. QED
    BY <1>2, <2>2
<1>3. QED
  BY <1>1, <1>2 DEF Alike

\* The output of one letter.
LEMMA OneLetter ==
  ASSUME NEW q, NEW a \in Letters
  PROVE  /\ <<a>> \in Words /\ Len(<<a>>) = 1
         /\ OutputsFrom(q, <<a>>)[1] = machine.out[<<q, a>>]
         /\ After(q, <<a>>) = machine.to[<<q, a>>]
<1>. DEFINE v == <<a>>
<1>1. v \in Words /\ Len(v) = 1 /\ v[1] = a
  BY DEF Words
<1>. HIDE DEF v
<1>2. 1 \in 1..Len(v)
  BY <1>1
<1>3. OutputsFrom(q, v)[1] = machine.out[<<Visits(machine.to, q, v)[1 - 1], v[1]>>]
  BY <1>1, <1>2, OutputsAre
<1>4. Visits(machine.to, q, v)[0] = q
  BY VisitSteps
<1>5. Visits(machine.to, q, v)[0 + 1] = machine.to[<<Visits(machine.to, q, v)[0], v[0 + 1]>>]
  BY VisitSteps
<1>6. After(q, v) = machine.to[<<q, a>>]
  BY <1>1, <1>4, <1>5 DEF After, RunFrom
<1>7. QED
  BY <1>1, <1>3, <1>4, <1>6 DEF v

\* States that are alike answer a letter alike and go to states that are.
LEMMA AlikeGoes ==
  ASSUME NEW k \in Nat, NEW q, NEW p, Alike(q, p, k + 1), NEW a \in Letters
  PROVE  /\ machine.out[<<q, a>>] = machine.out[<<p, a>>]
         /\ Alike(machine.to[<<q, a>>], machine.to[<<p, a>>], k)
<1>. DEFINE v == <<a>>
<1>1. v \in Words /\ Len(v) = 1
      /\ \A r : /\ OutputsFrom(r, v)[1] = machine.out[<<r, a>>]
                /\ After(r, v) = machine.to[<<r, a>>]
  BY OneLetter
<1>. HIDE DEF v
<1>2. OutputsFrom(q, v) = OutputsFrom(p, v)
  BY <1>1 DEF Alike
<1>3. ASSUME NEW w \in Words, Len(w) <= k
      PROVE  OutputsFrom(machine.to[<<q, a>>], w) = OutputsFrom(machine.to[<<p, a>>], w)
  <2>1. v \o w \in Words /\ Len(v \o w) = 1 + Len(w) /\ Len(w) \in Nat
    BY <1>1, ConcatProperties, LenProperties DEF Words
  <2>2. OutputsFrom(q, v \o w) = OutputsFrom(p, v \o w)
    <3>1. Len(v \o w) <= k + 1
      BY <1>3, <2>1
    <3>2. QED
      BY <2>1, <3>1 DEF Alike
  <2>3. ASSUME NEW r, NEW i \in 1..Len(w)
        PROVE  OutputsFrom(r, v \o w)[1 + i] = OutputsFrom(machine.to[<<r, a>>], w)[i]
    <3>1. OutputsFrom(r, v \o w)[Len(v) + i] = OutputsFrom(After(r, v), w)[i]
      BY <1>1, OutputsOfConcat
    <3>2. QED
      BY <1>1, <3>1
  <2>4. \A i \in 1..Len(w) : OutputsFrom(machine.to[<<q, a>>], w)[i]
                               = OutputsFrom(machine.to[<<p, a>>], w)[i]
    BY <2>2, <2>3
  <2>5. \A r : OutputsFrom(r, w) = [i \in 1..Len(w) |-> OutputsFrom(r, w)[i]]
    BY OutputsAre
  <2>6. QED
    BY <2>4, <2>5
<1>4. QED
  BY <1>1, <1>2, <1>3 DEF Alike

\* No pair of states is told apart only by words of k + 1 letters: then
\* longer words tell none apart either.
Stable(k) == \A q, p \in States : Alike(q, p, k) => Alike(q, p, k + 1)

LEMMA StableForever ==
  ASSUME MachineOK, NEW k \in Nat, Stable(k), NEW q \in States, NEW p \in States,
         Alike(q, p, k)
  PROVE  SameAnswers(q, p)
<1>. SUFFICES ASSUME NEW w \in Words
              PROVE  OutputsFrom(q, w) = OutputsFrom(p, w)
  BY DEF SameAnswers
<1>. DEFINE Q(i) == Visits(machine.to, q, w)[i]
            P(i) == Visits(machine.to, p, w)[i]
            Bad == {i \in 0..Len(w) : ~Alike(Q(i), P(i), k)}
<1>1. Len(w) \in Nat /\ w \in [1..Len(w) -> Letters]
  BY LenProperties DEF Words
<1>2. \A i \in 0..Len(w) : Q(i) \in States /\ P(i) \in States
  BY VisitsType DEF MachineOK
<1>3. /\ Q(0) = q /\ P(0) = p
      /\ \A i \in Nat : /\ Q(i + 1) = machine.to[<<Q(i), w[i + 1]>>]
                        /\ P(i + 1) = machine.to[<<P(i), w[i + 1]>>]
  BY VisitSteps
<1>. HIDE DEF Q, P
<1>4. Bad = {}
  <2>1. SUFFICES ASSUME Bad # {} PROVE FALSE
    OBVIOUS
  <2>2. PICK b \in Bad : \A y \in Bad : b <= y
    <3>1. Bad \in SUBSET Nat
      BY <1>1
    <3>2. QED
      BY <2>1, <3>1, HasLeast
  <2>3. b # 0
    BY <1>3, <2>2
  <2>4. b - 1 \in 0..Len(w) /\ b - 1 \notin Bad /\ b - 1 \in Nat /\ (b - 1) + 1 = b /\ b \in 1..Len(w)
    BY <1>1, <2>2, <2>3
  <2>5. Alike(Q(b - 1), P(b - 1), k + 1)
    BY <1>2, <2>4 DEF Stable
  <2>6. Alike(machine.to[<<Q(b - 1), w[b]>>], machine.to[<<P(b - 1), w[b]>>], k)
    BY <1>1, <2>4, <2>5, AlikeGoes
  <2>7. Q(b) = machine.to[<<Q(b - 1), w[b]>>] /\ P(b) = machine.to[<<P(b - 1), w[b]>>]
    BY <1>3, <2>4
  <2>8. QED
    BY <2>2, <2>6, <2>7
<1>5. ASSUME NEW i \in 1..Len(w)
      PROVE  OutputsFrom(q, w)[i] = OutputsFrom(p, w)[i]
  <2>1. i - 1 \in 0..Len(w) /\ w[i] \in Letters
    BY <1>1
  <2>2. Alike(Q(i - 1), P(i - 1), k + 1)
    BY <1>2, <1>4, <2>1 DEF Stable
  <2>3. machine.out[<<Q(i - 1), w[i]>>] = machine.out[<<P(i - 1), w[i]>>]
    BY <2>1, <2>2, AlikeGoes
  <2>4. /\ OutputsFrom(q, w)[i] = machine.out[<<Q(i - 1), w[i]>>]
        /\ OutputsFrom(p, w)[i] = machine.out[<<P(i - 1), w[i]>>]
    BY OutputsAre DEF Q, P
  <2>5. QED
    BY <2>3, <2>4
<1>6. /\ OutputsFrom(q, w) = [i \in 1..Len(w) |-> OutputsFrom(q, w)[i]]
      /\ OutputsFrom(p, w) = [i \in 1..Len(w) |-> OutputsFrom(p, w)[i]]
  BY OutputsAre
<1>7. QED
  BY <1>5, <1>6

LEMMA BehavioursFinite ==
  ASSUME NEW k \in Nat
  PROVE  /\ IsFiniteSet(Behaviours(k)) /\ Cardinality(Behaviours(k)) \in Nat
         /\ Cardinality(Behaviours(k)) >= 1
         /\ Cardinality(Behaviours(k)) <= Cardinality(States)
<1>. DEFINE f == [q \in States |-> Behaviour(q, k)]
<1>1. f \in Surjection(States, Behaviours(k))
  <2>1. f \in [States -> Behaviours(k)]
    BY DEF Behaviours
  <2>2. \A t \in Behaviours(k) : \E q \in States : f[q] = t
    BY DEF Behaviours
  <2>. HIDE DEF f
  <2>3. QED
    BY <2>1, <2>2 DEF Surjection
<1>2. IsFiniteSet(Behaviours(k)) /\ Cardinality(Behaviours(k)) <= Cardinality(States)
  BY <1>1, FS_Surjection, LStarAssumption
<1>3. Behaviours(k) # {}
  BY LStarAssumption DEF Behaviours
<1>4. Cardinality(Behaviours(k)) \in Nat /\ Cardinality(Behaviours(k)) # 0
  BY <1>2, <1>3, FS_CardinalityType, FS_EmptySet
<1>5. QED
  BY <1>2, <1>4

\* Longer words show at least as much, and all there is once they show no
\* more than shorter ones.
LEMMA BehavioursGrow ==
  ASSUME NEW k \in Nat
  PROVE  /\ Cardinality(Behaviours(k)) <= Cardinality(Behaviours(k + 1))
         /\ Cardinality(Behaviours(k)) = Cardinality(Behaviours(k + 1)) => Stable(k)
<1>. DEFINE f == [g \in Behaviours(k + 1) |-> [w \in SeqOf(Letters, k) |-> g[w]]]
<1>1. \A q \in States : /\ Behaviour(q, k + 1) \in Behaviours(k + 1)
                        /\ Behaviour(q, k) \in Behaviours(k)
  BY DEF Behaviours
<1>2. \A q \in States : f[Behaviour(q, k + 1)] = Behaviour(q, k)
  <2>1. ASSUME NEW q \in States PROVE f[Behaviour(q, k + 1)] = Behaviour(q, k)
    <3>1. \A w \in SeqOf(Letters, k) : w \in SeqOf(Letters, k + 1)
      BY ShortWords, LenProperties DEF Words
    <3>2. \A w \in SeqOf(Letters, k) : Behaviour(q, k + 1)[w] = OutputsFrom(q, w)
      BY <3>1 DEF Behaviour
    <3>3. f[Behaviour(q, k + 1)] = [w \in SeqOf(Letters, k) |-> Behaviour(q, k + 1)[w]]
      BY <1>1
    <3>4. QED
      BY <3>2, <3>3 DEF Behaviour
  <2>2. QED
    BY <2>1
<1>3. DOMAIN f = Behaviours(k + 1) /\ f = [g \in Behaviours(k + 1) |-> f[g]]
  OBVIOUS
<1>. HIDE DEF f
<1>4. f \in Surjection(Behaviours(k + 1), Behaviours(k))
  <2>1. \A g \in Behaviours(k + 1) : \E q \in States : g = Behaviour(q, k + 1)
    BY DEF Behaviours
  <2>2. \A g \in Behaviours(k + 1) : f[g] \in Behaviours(k)
    BY <1>1, <1>2, <2>1
  <2>3. f \in [Behaviours(k + 1) -> Behaviours(k)]
    BY <1>3, <2>2
  <2>4. \A t \in Behaviours(k) : \E g \in Behaviours(k + 1) : f[g] = t
    <3>1. \A t \in Behaviours(k) : \E q \in States : t = Behaviour(q, k)
      BY DEF Behaviours
    <3>2. QED
      BY <1>1, <1>2, <3>1
  <2>5. QED
    BY <2>3, <2>4 DEF Surjection
<1>5. IsFiniteSet(Behaviours(k + 1))
  BY BehavioursFinite
<1>6. Cardinality(Behaviours(k)) <= Cardinality(Behaviours(k + 1))
  BY <1>4, <1>5, FS_Surjection
<1>7. ASSUME Cardinality(Behaviours(k)) = Cardinality(Behaviours(k + 1)) PROVE Stable(k)
  <2>1. f \in Injection(Behaviours(k + 1), Behaviours(k))
    BY <1>4, <1>5, <1>7, FS_Surjection
  <2>2. \A g, h \in Behaviours(k + 1) : f[g] = f[h] => g = h
    BY <1>3, <2>1 DEF Injection, IsInjective
  <2>3. ASSUME NEW q \in States, NEW p \in States, Alike(q, p, k)
        PROVE  Alike(q, p, k + 1)
    <3>1. Behaviour(q, k) = Behaviour(p, k)
      BY <2>3, AlikeIsBehaviour
    <3>2. Behaviour(q, k + 1) = Behaviour(p, k + 1)
      BY <1>1, <1>2, <2>2, <3>1
    <3>3. QED
      BY <3>2, AlikeIsBehaviour
  <2>4. QED
    BY <2>3 DEF Stable
<1>8. QED
  BY <1>6, <1>7

\* Words as long as there are states show all there is to see of a state.
LEMMA ShortWordsTellApart ==
  ASSUME MachineOK, NEW q \in States, NEW p \in States,
         Alike(q, p, Cardinality(States))
  PROVE  SameAnswers(q, p)
<1>1. PICK n \in Nat : n = Cardinality(States)
  BY FS_CardinalityType, LStarAssumption
<1>. DEFINE c(k) == Cardinality(Behaviours(k))
<1>2. \A k \in Nat : c(k) \in Nat /\ c(k) >= 1 /\ c(k) <= n
  BY <1>1, BehavioursFinite
<1>3. \A k \in Nat : c(k) <= c(k + 1) /\ (c(k) = c(k + 1) => Stable(k))
  BY BehavioursGrow
<1>. HIDE DEF c
<1>4. \E k \in 0..n : Stable(k)
  <2>1. SUFFICES ASSUME \A k \in 0..n : ~Stable(k) PROVE FALSE
    OBVIOUS
  <2>2. \A k \in 0..n : c(k) + 1 <= c(k + 1)
    <3>1. ASSUME NEW k \in 0..n PROVE c(k) + 1 <= c(k + 1)
      <4>1. k \in Nat /\ k + 1 \in Nat
        OBVIOUS
      <4>2. c(k) \in Nat /\ c(k + 1) \in Nat
        BY <1>2, <4>1
      <4>3. c(k) <= c(k + 1) /\ c(k) # c(k + 1)
        BY <1>3, <2>1, <4>1
      <4>4. QED
        BY <4>2, <4>3
    <3>2. QED
      BY <3>1
  <2>. DEFINE Bad == {k \in 0..n : c(k) < k + 1}
  <2>3. Bad = {}
    <3>1. SUFFICES ASSUME Bad # {} PROVE FALSE
      OBVIOUS
    <3>2. PICK b \in Bad : \A y \in Bad : b <= y
      <4>1. Bad \in SUBSET Nat
        OBVIOUS
      <4>2. QED
        BY <3>1, <4>1, HasLeast
    <3>3. b # 0
      BY <1>2, <3>2
    <3>4. b - 1 \in 0..n /\ b - 1 \notin Bad /\ (b - 1) + 1 = b /\ b \in Nat /\ b - 1 \in Nat
      BY <3>2, <3>3
    <3>5. c(b - 1) + 1 <= c(b)
      BY <2>2, <3>4
    <3>6. c(b - 1) \in Nat /\ c(b) \in Nat
      BY <1>2, <3>4
    <3>7. ~ (c(b - 1) < (b - 1) + 1) /\ c(b) < b + 1
      BY <3>2, <3>4
    <3>8. QED
      BY <3>4, <3>5, <3>6, <3>7
  <2>4. n \in 0..n /\ n \notin Bad
    BY <2>3
  <2>5. c(n) \in Nat /\ c(n) <= n
    BY <1>2
  <2>6. QED
    BY <2>4, <2>5
<1>5. PICK k \in 0..n : Stable(k)
  BY <1>4
<1>6. Alike(q, p, k)
  BY <1>1, LenProperties DEF Alike, Words
<1>7. QED
  BY <1>5, <1>6, StableForever

----------------------------------------------------------------------------
(***************************************************************************)
(* The rows of S are states of the machine, and when they are all of them  *)
(* the hypothesis is the machine.                                          *)
(***************************************************************************)
\* What a row says of a word of the table.
LEMMA RowOutput ==
  ASSUME IInv, CacheIsTrue, NEW s \in Words, NEW i \in DOMAIN Row(s)
  PROVE  /\ E[i] \in Words
         /\ Row(s)[i] = LastOut(After(Start, s), E[i])
<1>1. s \in DOMAIN T /\ Row(s) = T[s]
  BY DEF Row
<1>2. /\ T[s] \in Seq(Outputs) /\ Len(T[s]) <= Len(E)
      /\ E \in Seq(Words \ {<<>>}) /\ Len(E) \in Nat
  BY <1>1, RowsFit DEF IInv, Types
<1>3. i \in 1..Len(E)
  BY <1>1, <1>2, LenProperties
<1>4. E[i] \in Words \ {<<>>}
  BY <1>2, <1>3, ElementOfSeq
<1>. DEFINE e == E[i]
            m == Len(e)
<1>5. s \o e \in DOMAIN cache /\ cache[s \o e] = Row(s)[i]
  BY <1>1 DEF IInv, TableMatchesCache
<1>6. e \in Words /\ e # <<>>
  BY <1>4
<1>. HIDE DEF e
<1>7. m \in Nat \ {0} /\ Len(s) \in Nat /\ Len(s \o e) = Len(s) + m
  BY <1>6, EmptySeq, LenProperties, ConcatProperties DEF Words
<1>8. Row(s)[i] = OutputsFrom(Start, s \o e)[Len(s) + m]
  BY <1>5, <1>7 DEF CacheIsTrue, LastOut
<1>9. m \in 1..Len(e)
  BY <1>7
<1>10. OutputsFrom(Start, s \o e)[Len(s) + m] = OutputsFrom(After(Start, s), e)[m]
  BY <1>6, <1>9, OutputsOfConcat
<1>11. Row(s)[i] = LastOut(After(Start, s), e)
  BY <1>8, <1>10 DEF LastOut
<1>12. QED
  BY <1>6, <1>11 DEF e

\* A row says the same of states that are the same.
LEMMA SameSaysSame ==
  ASSUME IInv, CacheIsTrue, NEW s \in Words, NEW t \in Words,
         SameAnswers(After(Start, s), After(Start, t)),
         NEW i \in DOMAIN Row(s) \cap DOMAIN Row(t)
  PROVE  Row(s)[i] = Row(t)[i]
<1>1. /\ E[i] \in Words
      /\ Row(s)[i] = LastOut(After(Start, s), E[i])
      /\ Row(t)[i] = LastOut(After(Start, t), E[i])
  BY RowOutput
<1>2. OutputsFrom(After(Start, s), E[i]) = OutputsFrom(After(Start, t), E[i])
  BY <1>1 DEF SameAnswers
<1>3. QED
  BY <1>1, <1>2 DEF LastOut

\* Different rows of S lead to states that some word tells apart.
LEMMA RowsAreStates ==
  ASSUME IInv, CacheIsTrue, NEW s \in S, NEW t \in S,
         SameAnswers(After(Start, s), After(Start, t))
  PROVE  s = t
<1>1. s \in Words /\ t \in Words
  BY DEF IInv, Types
<1>2. SUFFICES ASSUME s # t PROVE FALSE
  OBVIOUS
<1>3. PICK i \in DOMAIN Row(s) \cap DOMAIN Row(t) : Row(s)[i] # Row(t)[i]
  BY <1>2 DEF IInv, RowsDifferSomewhere
<1>4. QED
  BY <1>1, <1>3, SameSaysSame

LEMMA AfterType ==
  ASSUME MachineOK, NEW w \in Words
  PROVE  After(Start, w) \in States
<1>1. Len(w) \in 0..Len(w)
  BY LenProperties DEF Words
<1>2. Start \in States
  BY LStarAssumption
<1>3. Visits(machine.to, Start, w)[Len(w)] \in States
  BY <1>1, <1>2, VisitsType DEF MachineOK
<1>4. QED
  BY <1>3 DEF After, RunFrom

\* S maps into the behaviours of the states, one to one: it has no more rows
\* than there are behaviours, and every behaviour is one of a row if it has as
\* many.
LEMMA RowsFitStates ==
  ASSUME IInv, CacheIsTrue, MachineOK
  PROVE  /\ Cardinality(S) <= Cardinality(Distinguishable)
         /\ Cardinality(S) = Cardinality(Distinguishable) =>
              \A q \in States : \E s \in S : SameAnswers(After(Start, s), q)
<1>1. PICK n \in Nat : n = Cardinality(States)
  BY FS_CardinalityType, LStarAssumption
<1>2. Distinguishable = Behaviours(n)
  BY <1>1 DEF Distinguishable, Behaviours, Behaviour
<1>. DEFINE f == [s \in S |-> Behaviour(After(Start, s), n)]
<1>3. \A s \in S : s \in Words /\ After(Start, s) \in States
  BY AfterType DEF IInv, Types
<1>4. \A q, p \in States : Behaviour(q, n) = Behaviour(p, n) => SameAnswers(q, p)
  BY <1>1, AlikeIsBehaviour, ShortWordsTellApart
<1>5. f \in Injection(S, Behaviours(n))
  <2>1. f \in [S -> Behaviours(n)]
    BY <1>3 DEF Behaviours
  <2>2. \A s, t \in S : f[s] = f[t] => s = t
    BY <1>3, <1>4, RowsAreStates
  <2>3. DOMAIN f = S
    OBVIOUS
  <2>. HIDE DEF f
  <2>4. QED
    BY <2>1, <2>2, <2>3 DEF Injection, IsInjective
<1>6. IsFiniteSet(Behaviours(n))
  BY BehavioursFinite
<1>7. Cardinality(S) <= Cardinality(Behaviours(n))
  BY <1>5, <1>6, FS_Injection
<1>8. ASSUME Cardinality(S) = Cardinality(Behaviours(n)), NEW q \in States
      PROVE  \E s \in S : SameAnswers(After(Start, s), q)
  <2>1. f \in Surjection(S, Behaviours(n))
    BY <1>5, <1>6, <1>8, FS_Injection
  <2>2. Behaviour(q, n) \in Behaviours(n)
    BY DEF Behaviours
  <2>3. PICK s \in S : f[s] = Behaviour(q, n)
    <3>. HIDE DEF f
    <3>1. QED
      BY <2>1, <2>2 DEF Surjection
  <2>4. QED
    BY <1>3, <1>4, <2>3
<1>9. QED
  BY <1>2, <1>7, <1>8

LEMMA SameGoes ==
  ASSUME NEW q, NEW p, SameAnswers(q, p), NEW a \in Letters
  PROVE  /\ machine.out[<<q, a>>] = machine.out[<<p, a>>]
         /\ SameAnswers(machine.to[<<q, a>>], machine.to[<<p, a>>])
<1>1. \A k \in Nat : Alike(q, p, k)
  BY DEF SameAnswers, Alike
<1>2. \A k \in Nat : Alike(machine.to[<<q, a>>], machine.to[<<p, a>>], k)
  <2>1. ASSUME NEW k \in Nat PROVE Alike(machine.to[<<q, a>>], machine.to[<<p, a>>], k)
    <3>1. Alike(q, p, k + 1)
      BY <1>1
    <3>2. QED
      BY <3>1, AlikeGoes
  <2>2. QED
    BY <2>1
<1>3. machine.out[<<q, a>>] = machine.out[<<p, a>>]
  <2>1. Alike(q, p, 0 + 1)
    BY <1>1
  <2>2. QED
    BY <2>1, AlikeGoes
<1>4. ASSUME NEW w \in Words
      PROVE  OutputsFrom(machine.to[<<q, a>>], w) = OutputsFrom(machine.to[<<p, a>>], w)
  <2>1. Len(w) \in Nat /\ Len(w) <= Len(w)
    BY LenProperties DEF Words
  <2>2. Alike(machine.to[<<q, a>>], machine.to[<<p, a>>], Len(w))
    BY <1>2, <2>1
  <2>3. QED
    BY <2>1, <2>2 DEF Alike
<1>5. QED
  BY <1>3, <1>4 DEF SameAnswers

\* A hypothesis with a state for every behaviour goes where the machine goes.
LEMMA HypothesisFollows ==
  ASSUME IInv, WalkOK, CacheIsTrue, MachineOK, Closed, todo = {},
         \A q \in States : \E s \in S : SameAnswers(After(Start, s), q),
         NEW s \in S, NEW q \in States, SameAnswers(After(Start, s), q), NEW a \in Letters
  PROVE  /\ HypOut(s, a) = machine.out[<<q, a>>]
         /\ SameAnswers(After(Start, HypStep(s, a)), machine.to[<<q, a>>])
<1>. DEFINE r == Append(s, a)
            h == HypStep(s, a)
<1>1. s \in Words /\ r \in Words /\ r \in Extensions(S)
  <2>1. s \in Words /\ r \in Extensions(S)
    BY DEF IInv, Types, Extensions
  <2>2. QED
    BY <2>1, ExtensionsAreWords DEF IInv, Types
<1>2. After(Start, r) = machine.to[<<After(Start, s), a>>]
  BY <1>1, RunSteps DEF After
<1>3. h \in S /\ Row(h) = Row(r) /\ h \in Words
  BY HypToType DEF IInv, Types
<1>4. SameAnswers(After(Start, r), machine.to[<<q, a>>])
  BY <1>2, SameGoes
<1>5. After(Start, r) \in States
  BY <1>1, AfterType
<1>6. PICK t \in S : SameAnswers(After(Start, t), After(Start, r))
  BY <1>5
<1>7. t = h
  <2>1. SUFFICES ASSUME t # h PROVE FALSE
    OBVIOUS
  <2>2. PICK i \in DOMAIN Row(t) \cap DOMAIN Row(h) : Row(t)[i] # Row(h)[i]
    BY <1>3, <2>1 DEF IInv, RowsDifferSomewhere
  <2>3. i \in DOMAIN Row(t) \cap DOMAIN Row(r) /\ t \in Words
    BY <1>3, <2>2 DEF IInv, Types
  <2>4. Row(t)[i] = Row(r)[i]
    BY <1>1, <1>6, <2>3, SameSaysSame
  <2>5. QED
    BY <1>3, <2>2, <2>4
<1>8. SameAnswers(After(Start, h), machine.to[<<q, a>>])
  BY <1>4, <1>6, <1>7 DEF SameAnswers
<1>9. HypOut(s, a) = machine.out[<<q, a>>]
  <2>1. r \in DOMAIN cache /\ cache[r] = HypOut(s, a)
    BY HypAnswers
  <2>2. cache[r] = LastOut(Start, r)
    BY <2>1 DEF CacheIsTrue
  <2>. DEFINE v == <<a>>
  <2>3. r = s \o v
    BY <1>1, AppendIsConcat DEF Words
  <2>4. /\ v \in Words /\ Len(v) = 1
        /\ \A x : OutputsFrom(x, v)[1] = machine.out[<<x, a>>]
    BY OneLetter
  <2>. HIDE DEF v, r
  <2>5. Len(r) = Len(s) + 1
    <3>1. s \in Seq(Letters) /\ v \in Seq(Letters)
      BY <1>1, <2>4 DEF Words
    <3>2. Len(s \o v) = Len(s) + Len(v)
      BY <3>1, ConcatProperties
    <3>3. QED
      BY <2>3, <2>4, <3>2
  <2>6. 1 \in 1..Len(v)
    BY <2>4
  <2>7. OutputsFrom(Start, s \o v)[Len(s) + 1] = OutputsFrom(After(Start, s), v)[1]
    BY <1>1, <2>4, <2>6, OutputsOfConcat
  <2>8. LastOut(Start, r) = machine.out[<<After(Start, s), a>>]
    BY <2>3, <2>4, <2>5, <2>7 DEF LastOut
  <2>9. machine.out[<<After(Start, s), a>>] = machine.out[<<q, a>>]
    BY SameGoes
  <2>10. QED
    BY <2>1, <2>2, <2>8, <2>9
<1>10. QED
  BY <1>8, <1>9

\* It then answers every word as the machine does.
LEMMA HypothesisIsMachine ==
  ASSUME IInv, WalkOK, CacheIsTrue, MachineOK, Closed, todo = {},
         \A q \in States : \E s \in S : SameAnswers(After(Start, s), q),
         NEW w \in Words, w # <<>>
  PROVE  HypOut(HypAfter(Front(w)), Last(w)) = Last(TrueAnswer(w))
<1>. DEFINE H(i) == Visits(HypTo, <<>>, w)[i]
            Q(i) == Visits(machine.to, Start, w)[i]
            Bad == {i \in 0..Len(w) : ~SameAnswers(After(Start, H(i)), Q(i))}
<1>1. Len(w) \in Nat \ {0} /\ w \in [1..Len(w) -> Letters] /\ w \in Seq(Letters)
  BY LenProperties, EmptySeq DEF Words
<1>2. <<>> \in S /\ Start \in States
  BY LStarAssumption DEF WalkOK
<1>3. \A i \in 0..Len(w) : H(i) \in S /\ Q(i) \in States
  <2>1. HypTo \in [S \X Letters -> S]
    BY HypToType
  <2>2. QED
    BY <1>2, <2>1, VisitsType DEF MachineOK
<1>4. /\ H(0) = <<>> /\ Q(0) = Start
      /\ \A i \in Nat : /\ H(i + 1) = HypTo[<<H(i), w[i + 1]>>]
                        /\ Q(i + 1) = machine.to[<<Q(i), w[i + 1]>>]
  BY VisitSteps
<1>. HIDE DEF H, Q
<1>5. Bad = {}
  <2>1. SUFFICES ASSUME Bad # {} PROVE FALSE
    OBVIOUS
  <2>2. PICK b \in Bad : \A y \in Bad : b <= y
    <3>1. Bad \in SUBSET Nat
      BY <1>1
    <3>2. QED
      BY <2>1, <3>1, HasLeast
  <2>3. b # 0
    <3>1. After(Start, <<>>) = Start
      <4>1. Len(<<>>) = 0
        OBVIOUS
      <4>2. QED
        BY <4>1, VisitSteps DEF After, RunFrom
    <3>2. SameAnswers(Start, Start)
      BY DEF SameAnswers
    <3>3. QED
      BY <1>4, <2>2, <3>1, <3>2
  <2>4. b - 1 \in 0..Len(w) /\ b - 1 \notin Bad /\ b - 1 \in Nat /\ (b - 1) + 1 = b /\ b \in 1..Len(w)
    BY <1>1, <2>2, <2>3
  <2>5. H(b - 1) \in S /\ Q(b - 1) \in States /\ SameAnswers(After(Start, H(b - 1)), Q(b - 1))
        /\ w[b] \in Letters
    BY <1>1, <1>3, <2>4
  <2>6. SameAnswers(After(Start, HypStep(H(b - 1), w[b])), machine.to[<<Q(b - 1), w[b]>>])
    BY <2>5, HypothesisFollows
  <2>7. H(b) = HypStep(H(b - 1), w[b])
    <3>1. H(b) = HypTo[<<H(b - 1), w[b]>>]
      BY <1>4, <2>4
    <3>2. QED
      BY <2>5, <3>1, HypToType
  <2>8. Q(b) = machine.to[<<Q(b - 1), w[b]>>]
    BY <1>4, <2>4
  <2>9. QED
    BY <2>2, <2>6, <2>7, <2>8
<1>. DEFINE n == Len(w) - 1
<1>6. n \in 0..Len(w) /\ n \in Nat /\ n + 1 = Len(w) /\ w[Len(w)] \in Letters
      /\ Len(w) \in 1..Len(w)
  BY <1>1
<1>7. HypAfter(Front(w)) = H(n)
  <2>1. RunFrom(HypTo, <<>>, SubSeq(w, 1, n)) = Visits(HypTo, <<>>, w)[n]
    BY <1>6, RunOfPrefix
  <2>2. QED
    BY <2>1 DEF HypAfter, HypTo, Front, H
<1>8. SameAnswers(After(Start, H(n)), Q(n)) /\ H(n) \in S /\ Q(n) \in States
  BY <1>3, <1>5, <1>6
<1>9. HypOut(H(n), w[Len(w)]) = machine.out[<<Q(n), w[Len(w)]>>]
  BY <1>6, <1>8, HypothesisFollows
<1>10. OutputsFrom(Start, w)[Len(w)] = machine.out[<<Q(n), w[Len(w)]>>]
  BY <1>6, OutputsAre DEF Q
<1>11. Len(TrueAnswer(w)) = Len(w)
  <2>. DEFINE g == OutputsFrom(Start, w)
  <2>1. g = [i \in 1..Len(w) |-> g[i]] /\ Len(w) \in Nat
    BY OutputsAre
  <2>. HIDE DEF g
  <2>2. Len(g) = Len(w)
    BY <2>1
  <2>3. QED
    BY <2>2 DEF g, TrueAnswer
<1>12. QED
  BY <1>7, <1>9, <1>10, <1>11 DEF Last, TrueAnswer

\* The table stays closed when learning is done.
DoneClosed == phase = "done" => Closed

LEMMA DoneNext == IInv /\ WalkOK /\ DoneClosed /\ [Next]_vars => DoneClosed'
<1>. SUFFICES ASSUME IInv, WalkOK, DoneClosed, [Next]_vars, phase' = "done"
              PROVE  Closed'
  BY DEF DoneClosed
<1>1. Closed /\ UNCHANGED <<S, E, T>>
  <2>1. CASE OracleEnds
    BY <2>1 DEF OracleEnds, table, WalkOK, Closed
  <2>2. CASE UNCHANGED vars
    BY <2>2 DEF vars, table, DoneClosed
  <2>3. CASE FillCell \/ SplitStep \/ CloseTable \/ GenHypothesis \/ OracleStep
    <3>1. phase' # "done"
      BY <2>3 DEF FillCell, SplitStep, CloseTable, GenHypothesis, OracleStep,
                  QueryExits, Narrow
    <3>2. QED
      BY <3>1
  <2>4. QED
    BY <2>1, <2>2, <2>3 DEF Next
<1>2. QED
  BY <1>1 DEF Closed, Extensions, Row

\* With right answers S never has more rows than the smallest machine of the
\* same behaviour has states (only rows that differ join S, get_rows_to_close),
\* and a hypothesis of that size (gen_hypothesis) answers every word as the
\* machine does.
THEOREM HypothesisIsMinimalHolds == Spec => []HypothesisIsMinimal
<1>. DEFINE Inv == IInv /\ WalkOK /\ FlakyInv /\ DoneClosed
<1>1. Spec => []Inv
  <2>1. Init => DoneClosed
    BY DEF Init, DoneClosed
  <2>2. Init => IInv /\ WalkOK /\ FlakyInv
    BY InitIInv, WalkInit, TruthInit
  <2>3. Inv /\ [Next]_vars => Inv'
    BY NextKeeps, WalkNext, TruthNext, DoneNext
  <2>4. Init => Inv
    BY <2>1, <2>2
  <2>. HIDE DEF Inv
  <2>5. QED
    BY <2>3, <2>4, PTL DEF Spec
<1>2. Inv => HypothesisIsMinimal
  <2>1. SUFFICES ASSUME Inv, flaky = Flaky PROVE
          /\ Cardinality(S) <= Cardinality(Distinguishable)
          /\ phase \in {"oracle", "split", "done"}
             /\ Cardinality(S) = Cardinality(Distinguishable) =>
               \A w \in SeqOf(Letters, 2 * Cardinality(States) - 1) \ {<<>>} :
                 HypOut(HypAfter(Front(w)), Last(w)) = Last(TrueAnswer(w))
    BY DEF HypothesisIsMinimal
  <2>2. MachineOK /\ CacheIsTrue /\ IInv /\ WalkOK
    BY <2>1, MachineFields DEF FlakyInv
  <2>3. /\ Cardinality(S) <= Cardinality(Distinguishable)
        /\ Cardinality(S) = Cardinality(Distinguishable) =>
             \A q \in States : \E s \in S : SameAnswers(After(Start, s), q)
    BY <2>2, RowsFitStates
  <2>4. ASSUME phase \in {"oracle", "split", "done"},
               Cardinality(S) = Cardinality(Distinguishable),
               NEW w \in SeqOf(Letters, 2 * Cardinality(States) - 1) \ {<<>>}
        PROVE  HypOut(HypAfter(Front(w)), Last(w)) = Last(TrueAnswer(w))
    <3>1. Closed /\ todo = {}
      BY <2>1, <2>4 DEF WalkOK, DoneClosed, Closed, IInv, Types
    <3>2. w \in Words
      <4>1. PICK m \in 0..(2 * Cardinality(States) - 1) : w \in [1..m -> Letters]
        BY <2>4 DEF SeqOf
      <4>2. QED
        BY <4>1 DEF Words
    <3>3. QED
      BY <2>2, <2>3, <2>4, <3>1, <3>2, HypothesisIsMachine
  <2>5. QED
    BY <2>3, <2>4
<1>3. QED
  BY <1>1, <1>2, PTL

----------------------------------------------------------------------------
\* The optimiser and the comparison of two models.


\* A line of MergeWaits comes from a learned one.
LEMMA MergedFrom ==
  ASSUME NEW lines, LearnedModel(lines), NEW w \in MergeWaits(lines)
  PROVE  \E v \in lines :
           /\ v.from # v.to /\ Same(v, w) /\ w.in.type = v.in.type /\ w.in.suite = v.in.suite
           /\ w = [from |-> w.from, in |-> w.in, out |-> w.out, to |-> w.to]
           /\ w.in = [type |-> w.in.type, suite |-> w.in.suite, wait |-> w.in.wait]
           /\ w.in.wait = (IF OtherWait(lines, v) THEN AnyWait ELSE v.in.wait)
           /\ ~OtherWait(lines, v) => w = v
<1>1. PICK v \in lines :
        v.from # v.to /\ w = (IF OtherWait(lines, v) THEN [v EXCEPT !.in.wait = AnyWait] ELSE v)
  BY DEF MergeWaits
<1>2. /\ v = [from |-> v.from, in |-> v.in, out |-> v.out, to |-> v.to]
      /\ v.in = [type |-> v.in.type, suite |-> v.in.suite, wait |-> v.in.wait]
  BY DEF LearnedModel
<1>3. CASE OtherWait(lines, v)
  <2>1. w = [from |-> v.from, in |-> [type |-> v.in.type, suite |-> v.in.suite, wait |-> AnyWait],
             out |-> v.out, to |-> v.to]
    BY <1>1, <1>2, <1>3
  <2>2. /\ Same(v, w) /\ w.in.type = v.in.type /\ w.in.suite = v.in.suite
        /\ w = [from |-> w.from, in |-> w.in, out |-> w.out, to |-> w.to]
        /\ w.in = [type |-> w.in.type, suite |-> w.in.suite, wait |-> w.in.wait]
        /\ w.in.wait = AnyWait
    BY <2>1 DEF Same
  <2>3. QED
    BY <1>1, <1>3, <2>2
<1>4. CASE ~OtherWait(lines, v)
  BY <1>1, <1>2, <1>4 DEF Same
<1>5. QED
  BY <1>3, <1>4

\* Of the letters of one type and suite, a line that has another wait is the only other one.
LEMMA WaitsOfType ==
  ASSUME NEW lines, LearnedModel(lines), NEW v \in lines, OtherWait(lines, v)
  PROVE  /\ v.in.wait \in {"short", "long"}
         /\ \A wait \in {"short", "long"} :
              \E l \in lines :
                Same(l, v) /\ l.in = [type |-> v.in.type, suite |-> v.in.suite, wait |-> wait]
<1>1. PICK m \in lines : /\ Same(v, m) /\ m.in # v.in
                         /\ m.in.type = v.in.type /\ m.in.suite = v.in.suite
  BY DEF OtherWait
<1>2. /\ v.in = [type |-> v.in.type, suite |-> v.in.suite, wait |-> v.in.wait]
      /\ m.in = [type |-> v.in.type, suite |-> v.in.suite, wait |-> m.in.wait]
      /\ v.in.wait \in {"short", "long", AnyWait} /\ m.in.wait \in {"short", "long", AnyWait}
      /\ v.in.wait = AnyWait <=> m.in.wait = AnyWait
  BY <1>1 DEF LearnedModel
<1>3. v.in.wait # m.in.wait
  BY <1>1, <1>2
<1>4. {v.in.wait, m.in.wait} = {"short", "long"}
  BY <1>2, <1>3, WaitAssumption
<1>5. /\ v.in = [type |-> v.in.type, suite |-> v.in.suite, wait |-> v.in.wait]
      /\ m.in = [type |-> v.in.type, suite |-> v.in.suite, wait |-> m.in.wait]
  BY <1>2
<1>6. QED
  BY <1>1, <1>4, <1>5 DEF Same

\* What a merged line says of a letter of its suite, some learned line said.
LEMMA ByWaits ==
  ASSUME NEW lines, LearnedModel(lines), NEW w \in MergeWaits(lines), NEW l0 \in lines,
         l0.in.type = w.in.type, l0.in.suite = w.in.suite, w.in.wait \in {l0.in.wait, AnyWait}
  PROVE  \E l \in lines : Same(l, w) /\ l.in = l0.in
<1>1. PICK v \in lines :
        /\ Same(v, w) /\ w.in.type = v.in.type /\ w.in.suite = v.in.suite
        /\ w.in.wait = (IF OtherWait(lines, v) THEN AnyWait ELSE v.in.wait)
  BY MergedFrom
<1>2. /\ v.in = [type |-> v.in.type, suite |-> v.in.suite, wait |-> v.in.wait]
      /\ l0.in = [type |-> v.in.type, suite |-> v.in.suite, wait |-> l0.in.wait]
      /\ l0.in.wait \in {"short", "long", AnyWait}
      /\ v.in.wait = AnyWait <=> l0.in.wait = AnyWait
  BY <1>1 DEF LearnedModel
<1>3. CASE OtherWait(lines, v)
  <2>1. l0.in.wait \in {"short", "long"}
    BY <1>2, <1>3, WaitsOfType, WaitAssumption
  <2>2. PICK l \in lines :
          Same(l, v) /\ l.in = [type |-> v.in.type, suite |-> v.in.suite, wait |-> l0.in.wait]
    <3>1. \A wait \in {"short", "long"} :
            \E l \in lines :
              Same(l, v) /\ l.in = [type |-> v.in.type, suite |-> v.in.suite, wait |-> wait]
      BY <1>3, WaitsOfType
    <3>2. QED
      BY <2>1, <3>1
  <2>3. l.in = l0.in
    BY <1>2, <2>2
  <2>4. QED
    BY <1>1, <2>2, <2>3 DEF Same
<1>4. CASE ~OtherWait(lines, v)
  <2>1. v.in.wait = l0.in.wait
    BY <1>1, <1>2, <1>4
  <2>2. QED
    BY <1>1, <1>2, <2>1
<1>5. QED
  BY <1>3, <1>4

\* After the waits are merged, two lines that do the same have another type or suite.
LEMMA OneLineEach ==
  ASSUME NEW lines, LearnedModel(lines), NEW x \in MergeWaits(lines), NEW y \in MergeWaits(lines),
         Same(x, y), x.in.type = y.in.type, x.in.suite = y.in.suite
  PROVE  x = y
<1>1. PICK v \in lines :
        /\ Same(v, x) /\ x.in.type = v.in.type /\ x.in.suite = v.in.suite
        /\ x = [from |-> x.from, in |-> x.in, out |-> x.out, to |-> x.to]
        /\ x.in = [type |-> x.in.type, suite |-> x.in.suite, wait |-> x.in.wait]
        /\ x.in.wait = (IF OtherWait(lines, v) THEN AnyWait ELSE v.in.wait)
  BY MergedFrom
<1>2. PICK u \in lines :
        /\ Same(u, y) /\ y.in.type = u.in.type /\ y.in.suite = u.in.suite
        /\ y = [from |-> y.from, in |-> y.in, out |-> y.out, to |-> y.to]
        /\ y.in = [type |-> y.in.type, suite |-> y.in.suite, wait |-> y.in.wait]
        /\ y.in.wait = (IF OtherWait(lines, u) THEN AnyWait ELSE u.in.wait)
  BY MergedFrom
<1>3. Same(u, v) /\ u.in.type = v.in.type /\ u.in.suite = v.in.suite
  BY <1>1, <1>2 DEF Same
<1>4. x.in.wait = y.in.wait
  <2>1. CASE u.in = v.in
    <3>1. OtherWait(lines, u) <=> OtherWait(lines, v)
      BY <1>3, <2>1 DEF OtherWait, Same
    <3>2. QED
      BY <1>1, <1>2, <2>1, <3>1
  <2>2. CASE u.in # v.in
    <3>1. OtherWait(lines, u) /\ OtherWait(lines, v)
      BY <1>3, <2>2 DEF OtherWait, Same
    <3>2. QED
      BY <1>1, <1>2, <3>1
  <2>3. QED
    BY <2>1, <2>2
<1>5. x.in = y.in
  BY <1>1, <1>2, <1>4
<1>6. QED
  BY <1>1, <1>2, <1>5 DEF Same

\* When two other lines do the same, all three suites do.
LEMMA AllSuites ==
  ASSUME NEW lines, LearnedModel(lines), NEW w \in MergeWaits(lines),
         AllSame(MergeWaits(lines), w), NEW suite \in Suites
  PROVE  \E x \in MergeWaits(lines) : Same(x, w) /\ x.in.type = w.in.type /\ x.in.suite = suite
<1>. DEFINE others == OtherSuites(MergeWaits(lines), w)
<1>1. w.in.suite \in Suites /\ Cardinality(others) >= 2
  BY DEF AllSame
<1>2. PICK x \in others, y \in others : x # y
  <2>1. others # {}
    BY <1>1, FS_EmptySet
  <2>2. PICK x \in others : TRUE
    BY <2>1
  <2>3. others # {x}
    BY <1>1, FS_Singleton
  <2>4. QED
    BY <2>2, <2>3
<1>3. \A z \in others : /\ z \in MergeWaits(lines) /\ Same(w, z) /\ z.in.type = w.in.type
                        /\ z.in.suite \in Suites /\ z.in.suite # w.in.suite
  BY DEF OtherSuites
<1>4. x.in.suite # y.in.suite
  <2>1. Same(x, y) /\ x.in.type = y.in.type
    BY <1>3 DEF Same
  <2>2. QED
    BY <1>2, <1>3, <2>1, OneLineEach
<1>. DEFINE three == {w.in.suite, x.in.suite, y.in.suite}
<1>5. three = Suites
  <2>. DEFINE one == {w.in.suite}
              two == one \cup {x.in.suite}
  <2>1. IsFiniteSet(one) /\ Cardinality(one) = 1
    BY FS_Singleton
  <2>2. IsFiniteSet(two) /\ Cardinality(two) = 2
    <3>1. x.in.suite \notin one
      BY <1>3
    <3>. HIDE DEF one
    <3>2. /\ IsFiniteSet(one \cup {x.in.suite})
          /\ Cardinality(one \cup {x.in.suite}) = Cardinality(one) + 1
      BY <2>1, <3>1, FS_AddElement
    <3>3. QED
      BY <2>1, <3>2
  <2>3. Cardinality(two \cup {y.in.suite}) = 3
    <3>1. y.in.suite \notin two
      BY <1>3, <1>4
    <3>. HIDE DEF two
    <3>2. Cardinality(two \cup {y.in.suite}) = Cardinality(two) + 1
      BY <2>2, <3>1, FS_AddElement
    <3>3. QED
      BY <2>2, <3>2
  <2>4. three = two \cup {y.in.suite}
    OBVIOUS
  <2>5. three \in SUBSET Suites
    BY <1>1, <1>3
  <2>. HIDE DEF three
  <2>6. Cardinality(Suites) = Cardinality(three)
    BY <2>3, <2>4, SuitesAssumption
  <2>7. QED
    BY <2>5, <2>6, FS_Subset, SuitesAssumption
<1>6. QED
  <2>1. suite \in three
    BY <1>5
  <2>2. Same(w, w)
    BY DEF Same
  <2>3. \A z \in {w, x, y} : z \in MergeWaits(lines) /\ Same(z, w) /\ z.in.type = w.in.type
    BY <1>3, <2>2 DEF Same
  <2>4. QED
    BY <2>1, <2>3

\* The optimiser is faithful to every learned model.
LEMMA OptimiserIsFaithful == ASSUME NEW lines, LearnedModel(lines) PROVE IsFaithful(lines)
<1>. DEFINE merged == MergeWaits(lines)
            drawn == OptimiseDotFile(lines)
<1>1. \A w \in merged :
        (IF AllSame(merged, w) THEN [w EXCEPT !.in.suite = AnySuite] ELSE w) \in drawn
  BY DEF OptimiseDotFile, MergeSuites
<1>2. ASSUME NEW w \in merged
      PROVE  LET m == [w EXCEPT !.in.suite = AnySuite]
             IN  /\ Same(m, w) /\ m.in.type = w.in.type /\ m.in.suite = AnySuite
                 /\ m.in.wait = w.in.wait
  <2>1. /\ w = [from |-> w.from, in |-> w.in, out |-> w.out, to |-> w.to]
        /\ w.in = [type |-> w.in.type, suite |-> w.in.suite, wait |-> w.in.wait]
    BY MergedFrom
  <2>2. [w EXCEPT !.in.suite = AnySuite] =
          [from |-> w.from, in |-> [type |-> w.in.type, suite |-> AnySuite, wait |-> w.in.wait],
           out |-> w.out, to |-> w.to]
    BY <2>1
  <2>3. QED
    BY <2>2 DEF Same
<1>3. ASSUME NEW l \in lines, l.from # l.to
      PROVE  \E m \in drawn : Same(l, m) /\ Covers(m.in, l.in)
  <2>1. /\ l = [from |-> l.from, in |-> l.in, out |-> l.out, to |-> l.to]
        /\ l.in = [type |-> l.in.type, suite |-> l.in.suite, wait |-> l.in.wait]
    BY DEF LearnedModel
  <2>. DEFINE w == IF OtherWait(lines, l) THEN [l EXCEPT !.in.wait = AnyWait] ELSE l
  <2>2. w \in merged
    BY <1>3 DEF MergeWaits
  <2>3. /\ Same(l, w) /\ w.in.type = l.in.type /\ w.in.suite = l.in.suite
        /\ w.in.wait \in {l.in.wait, AnyWait}
    BY <2>1 DEF Same
  <2>. HIDE DEF w
  <2>4. CASE AllSame(merged, w)
    <3>1. [w EXCEPT !.in.suite = AnySuite] \in drawn
      BY <1>1, <2>2, <2>4
    <3>2. QED
      BY <1>2, <2>2, <2>3, <3>1 DEF Same, Covers
  <2>5. CASE ~AllSame(merged, w)
    BY <1>1, <2>2, <2>3, <2>5 DEF Covers
  <2>6. QED
    BY <2>4, <2>5
<1>4. ASSUME NEW m \in drawn, NEW l0 \in lines, Covers(m.in, l0.in), ~MixedWaits(lines, m)
      PROVE  \E l \in lines : Same(l, m) /\ l.in = l0.in
  <2>1. PICK w \in merged :
          m = (IF AllSame(merged, w) THEN [w EXCEPT !.in.suite = AnySuite] ELSE w)
    BY DEF OptimiseDotFile, MergeSuites
  <2>2. PICK v \in lines : w.in.type = v.in.type /\ w.in.suite = v.in.suite
    BY <2>1, MergedFrom
  <2>3. /\ w.in.suite \in Suites \cup {NoSuite}
        /\ l0.in.type = w.in.type => (l0.in.suite \in Suites <=> w.in.suite \in Suites)
    BY <2>2 DEF LearnedModel
  <2>4. CASE AllSame(merged, w)
    <3>1. /\ Same(m, w) /\ m.in.type = w.in.type /\ m.in.wait = w.in.wait
      BY <1>2, <2>1, <2>4
    <3>2. l0.in.type = w.in.type /\ w.in.wait \in {l0.in.wait, AnyWait}
      BY <1>4, <3>1 DEF Covers
    <3>3. l0.in.suite \in Suites
      BY <2>3, <2>4, <3>2 DEF AllSame
    <3>4. PICK x \in merged : Same(x, w) /\ x.in.type = w.in.type /\ x.in.suite = l0.in.suite
      BY <2>4, <3>3, AllSuites
    <3>5. x.in.wait = w.in.wait
      BY <1>4, <3>1, <3>3, <3>4 DEF MixedWaits, Same
    <3>6. PICK l \in lines : Same(l, x) /\ l.in = l0.in
      BY <3>2, <3>4, <3>5, ByWaits
    <3>7. QED
      BY <3>1, <3>4, <3>6 DEF Same
  <2>5. CASE ~AllSame(merged, w)
    <3>1. m = w
      BY <2>1, <2>5
    <3>2. w.in.suite # AnySuite
      BY <2>3, SuitesAssumption
    <3>3. /\ l0.in.type = w.in.type /\ l0.in.suite = w.in.suite
          /\ w.in.wait \in {l0.in.wait, AnyWait}
      BY <1>4, <3>1, <3>2 DEF Covers
    <3>4. QED
      BY <3>1, <3>3, ByWaits
  <2>6. QED
    BY <2>4, <2>5
<1>5. QED
  BY <1>3, <1>4 DEF IsFaithful

\* OptimisedIsLearned: for every pair of learned models, what optimiseModel.py draws has
\* all steps to other states that were learned, and for the letters a line stands for no others,
\* unless the suites of a Client Hello were merged over the waits to a different extent.
THEOREM OptimisedIsAlwaysLearned == DiffSpec => []OptimisedIsLearned
<1>. DEFINE Inv == case \in Cases
<1>1. DiffInit => Inv
  BY DEF DiffInit
<1>2. Inv /\ [DiffNext]_diffVars => Inv'
  <2>1. DiffNext => UNCHANGED case
    BY DEF DiffNext, ComputeScores, Seed, Pick, Draw, Extract, ExtractNoStart, Finish, Stop, diff,
           diffVars
  <2>2. QED
    BY <2>1 DEF diffVars, diff
<1>3. Inv => OptimisedIsLearned
  BY CasesAssumption, OptimiserIsFaithful DEF OptimisedIsLearned
<1>4. QED
  BY <1>1, <1>2, <1>3, PTL DEF DiffSpec

\* What a function makes of a finite set is finite.
LEMMA ImageIsFinite ==
  ASSUME NEW f, IsFiniteSet(DOMAIN f) PROVE IsFiniteSet({f[x] : x \in DOMAIN f})
<1>. DEFINE image == {f[x] : x \in DOMAIN f}
            g == [x \in DOMAIN f |-> f[x]]
<1>1. g \in Surjection(DOMAIN f, image)
  BY DEF Surjection
<1>. HIDE DEF g, image
<1>2. QED
  BY <1>1, FS_Surjection DEF image

\* A set as a list without repetitions.
LEMMA SetToSeqIs ==
  ASSUME NEW K, IsFiniteSet(K)
  PROVE  /\ Cardinality(K) \in Nat /\ SetToSeq(K) \in [1..Cardinality(K) -> K]
         /\ Len(SetToSeq(K)) = Cardinality(K)
         /\ \A i, j \in 1..Cardinality(K) : SetToSeq(K)[i] = SetToSeq(K)[j] => i = j
         /\ \A x \in K : \E i \in 1..Cardinality(K) : SetToSeq(K)[i] = x
<1>. DEFINE n == Cardinality(K)
            q == SetToSeq(K)
<1>1. n \in Nat /\ ExistsBijection(1..n, K)
  BY FS_CardinalityType
<1>2. \E f \in [1..n -> K] : IsInjective(f)
  BY <1>1 DEF ExistsBijection, Bijection, Injection
<1>3. q \in [1..n -> K] /\ IsInjective(q)
  BY <1>2 DEF SetToSeq
<1>. HIDE DEF q, n
<1>4. \A i, j \in 1..n : q[i] = q[j] => i = j
  BY <1>3 DEF IsInjective
<1>5. q \in Seq(K) /\ Len(q) = n
  BY <1>1, <1>3
<1>6. q \in Surjection(1..n, K)
  <2>1. q \in Injection(1..n, K)
    BY <1>3 DEF Injection
  <2>2. Cardinality(1..n) = n
    BY <1>1, FS_Interval
  <2>3. QED
    BY <2>1, <2>2, FS_Injection DEF n
<1>7. \A x \in K : \E i \in 1..n : q[i] = x
  BY <1>6 DEF Surjection
<1>8. QED
  BY <1>1, <1>3, <1>4, <1>5, <1>7 DEF q, n

\* The place of a member in the list of a set.
LEMMA PositionIs ==
  ASSUME NEW K, IsFiniteSet(K), NEW x \in K
  PROVE  /\ Position(SetToSeq(K), x) \in 1..Len(SetToSeq(K))
         /\ SetToSeq(K)[Position(SetToSeq(K), x)] = x
<1>. DEFINE q == SetToSeq(K)
<1>1. /\ DOMAIN q = 1..Len(q)
      /\ \E i \in DOMAIN q : q[i] = x
  BY SetToSeqIs
<1>. HIDE DEF q
<1>2. QED
  BY <1>1 DEF Position, q

\* The node of a state that has one partner, and of one that has none.
LEMMA NamedNode ==
  ASSUME NEW K, IsFiniteSet(K), NEW p \in K, NEW side, \A q \in K : q[side] = p[side] => q = p,
         NEW fresh, NEW count
  PROVE  Node(p[side], fresh, SetToSeq(K), side, count) = Position(SetToSeq(K), p)
<1>. DEFINE order == SetToSeq(K)
            i == Position(order, p)
            named == {k \in DOMAIN order : order[k][side] = p[side]}
<1>1. /\ DOMAIN order = 1..Cardinality(K) /\ Cardinality(K) \in Nat
      /\ Len(order) = Cardinality(K)
      /\ \A k \in DOMAIN order : order[k] \in K
      /\ \A k, l \in DOMAIN order : order[k] = order[l] => k = l
  BY SetToSeqIs
<1>2. i \in DOMAIN order /\ order[i] = p
  BY <1>1, PositionIs
<1>. HIDE DEF order, i
<1>3. named = {i}
  BY <1>1, <1>2
<1>4. i \in Nat
  BY <1>1, <1>2
<1>5. Max({i}) = i
  BY <1>4 DEF Max
<1>6. Node(p[side], fresh, order, side, count)
        = (IF named = {} THEN count + Position(fresh, p[side]) ELSE Max(named))
  BY DEF Node
<1>. HIDE DEF named
<1>7. QED
  BY <1>3, <1>5, <1>6 DEF order, i

\* A state without a partner has the number of its place in the list of new states.
LEMMA FreshNode ==
  ASSUME NEW K, IsFiniteSet(K), NEW es, IsFiniteSet(StatesOf(es)), NEW s \in StatesOf(es),
         NEW side, \A q \in K : q[side] # s, NEW count
  PROVE  LET fresh == Fresh(es, SetToSeq(K), side)
         IN  /\ Node(s, fresh, SetToSeq(K), side, count) = count + Position(fresh, s)
             /\ Len(fresh) \in Nat /\ Position(fresh, s) \in 1..Len(fresh)
             /\ fresh[Position(fresh, s)] = s
<1>. DEFINE order == SetToSeq(K)
            left == {t \in StatesOf(es) : \A i \in DOMAIN order : order[i][side] # t}
            fresh == Fresh(es, order, side)
<1>1. \A k \in DOMAIN order : order[k] \in K
  BY SetToSeqIs
<1>. HIDE DEF order
<1>2. s \in left
  BY <1>1
<1>3. IsFiniteSet(left)
  BY FS_Subset
<1>4. fresh = SetToSeq(left)
  BY DEF Fresh
<1>5. {i \in DOMAIN order : order[i][side] = s} = {}
  BY <1>1
<1>6. Node(s, fresh, order, side, count) = count + Position(fresh, s)
  BY <1>5 DEF Node
<1>. HIDE DEF left, fresh
<1>7. Position(fresh, s) \in 1..Len(fresh) /\ fresh[Position(fresh, s)] = s /\ Len(fresh) \in Nat
  <2>1. /\ Position(SetToSeq(left), s) \in 1..Len(SetToSeq(left))
        /\ SetToSeq(left)[Position(SetToSeq(left), s)] = s
    BY <1>2, <1>3, PositionIs
  <2>2. Len(SetToSeq(left)) \in Nat
    BY <1>3, SetToSeqIs
  <2>3. QED
    BY <1>4, <2>1, <2>2
<1>8. QED
  BY <1>6, <1>7 DEF order, fresh

\* The lists and numbers a result is drawn with.
EdgesOf(fsm) ==
  IsFiniteSet(fsm) /\ \A e \in fsm : e = [from |-> e.from, label |-> e.label, to |-> e.to, line |-> e.line]
Order == SetToSeq(kPairs)
GreenFresh == Fresh(Added, Order, 2)
RedFresh == Fresh(Removed, Order, 1)
GreenNode(s) == Node(s, GreenFresh, Order, 2, Len(Order))
RedNode(s) == Node(s, RedFresh, Order, 1, Len(Order) + Len(GreenFresh))

DiffInv ==
  /\ EdgesOf(fsm1) /\ EdgesOf(fsm2)
  /\ \A fsm \in {fsm1, fsm2} : [from |-> StartNode, label |-> Blank, to |-> First, line |-> <<>>] \in fsm
  /\ kPairs \subseteq Pairs /\ nPairs \subseteq Pairs
  /\ pc = "extract" => graph = AnnotadeGraph(Order)

\* A finite model has finitely many states.
LEMMA StatesAreFinite == ASSUME NEW fsm, IsFiniteSet(fsm) PROVE IsFiniteSet(StatesOf(fsm))
<1>1. IsFiniteSet({e.from : e \in fsm})
  <2>. DEFINE f == [e \in fsm |-> e.from]
  <2>1. {f[e] : e \in DOMAIN f} = {e.from : e \in fsm}
    OBVIOUS
  <2>2. DOMAIN f = fsm
    OBVIOUS
  <2>. HIDE DEF f
  <2>3. QED
    BY <2>1, <2>2, ImageIsFinite
<1>2. IsFiniteSet({e.to : e \in fsm})
  <2>. DEFINE f == [e \in fsm |-> e.to]
  <2>1. {f[e] : e \in DOMAIN f} = {e.to : e \in fsm}
    OBVIOUS
  <2>2. DOMAIN f = fsm
    OBVIOUS
  <2>. HIDE DEF f
  <2>3. QED
    BY <2>1, <2>2, ImageIsFinite
<1>3. QED
  BY <1>1, <1>2, FS_Union DEF StatesOf

\* So there are finitely many pairs and new states.
LEMMA PairsAreFinite ==
  ASSUME DiffInv
  PROVE  /\ IsFiniteSet(kPairs)
         /\ IsFiniteSet(StatesOf(Added)) /\ IsFiniteSet(StatesOf(Removed))
<1>1. IsFiniteSet(StatesOf(fsm1)) /\ IsFiniteSet(StatesOf(fsm2))
  BY StatesAreFinite DEF DiffInv, EdgesOf
<1>2. IsFiniteSet(Pairs)
  BY <1>1, FS_Product DEF Pairs
<1>3. IsFiniteSet(kPairs)
  BY <1>2, FS_Subset DEF DiffInv
<1>4. Added \in SUBSET fsm2 /\ Removed \in SUBSET fsm1
  BY DEF Added, Removed
<1>5. IsFiniteSet(Added) /\ IsFiniteSet(Removed)
  BY <1>4, FS_Subset DEF DiffInv, EdgesOf
<1>6. QED
  BY <1>3, <1>5, StatesAreFinite

\* A matched state is drawn at the place of its pair, another one at a place of its own.
LEMMA GreenNodeIs ==
  ASSUME DiffInv, OneToOne, NEW s \in StatesOf(fsm2)
  PROVE  \/ \E p \in kPairs : p[2] = s /\ GreenNode(s) = Position(Order, p)
         \/ /\ \A q \in kPairs : q[2] # s
            /\ \E k \in 1..Len(GreenFresh) : GreenNode(s) = Len(Order) + k /\ GreenFresh[k] = s
<1>1. CASE \E p \in kPairs : p[2] = s
  <2>1. PICK p \in kPairs : p[2] = s
    BY <1>1
  <2>2. \A q \in kPairs : q[2] = p[2] => q = p
    BY DEF OneToOne, Rivals
  <2>3. GreenNode(s) = Position(Order, p)
    BY <2>1, <2>2, PairsAreFinite, NamedNode DEF GreenNode, Order
  <2>4. QED
    BY <2>1, <2>3
<1>2. CASE \A q \in kPairs : q[2] # s
  <2>1. PICK e \in fsm2 : s \in {e.from, e.to}
    BY DEF StatesOf
  <2>2. e \in Added
    BY <1>2, <2>1 DEF Added, Common
  <2>3. s \in StatesOf(Added)
    BY <2>1, <2>2 DEF StatesOf
  <2>. DEFINE k == Position(GreenFresh, s)
  <2>4. /\ GreenNode(s) = Len(Order) + k
        /\ k \in 1..Len(GreenFresh) /\ GreenFresh[k] = s
    BY <1>2, <2>3, PairsAreFinite, FreshNode DEF GreenNode, GreenFresh, Order
  <2>. HIDE DEF k
  <2>5. QED
    BY <1>2, <2>4
<1>3. QED
  BY <1>1, <1>2

\* The same of the states of the reference model.
LEMMA RedNodeIs ==
  ASSUME DiffInv, OneToOne, NEW s \in StatesOf(fsm1)
  PROVE  \/ \E p \in kPairs : p[1] = s /\ RedNode(s) = Position(Order, p)
         \/ /\ \A q \in kPairs : q[1] # s
            /\ \E k \in 1..Len(RedFresh) : /\ RedNode(s) = (Len(Order) + Len(GreenFresh)) + k
                                           /\ RedFresh[k] = s
<1>1. CASE \E p \in kPairs : p[1] = s
  <2>1. PICK p \in kPairs : p[1] = s
    BY <1>1
  <2>2. \A q \in kPairs : q[1] = p[1] => q = p
    BY DEF OneToOne, Rivals
  <2>3. RedNode(s) = Position(Order, p)
    BY <2>1, <2>2, PairsAreFinite, NamedNode DEF RedNode, Order
  <2>4. QED
    BY <2>1, <2>3
<1>2. CASE \A q \in kPairs : q[1] # s
  <2>1. PICK e \in fsm1 : s \in {e.from, e.to}
    BY DEF StatesOf
  <2>2. e \in Removed
    BY <1>2, <2>1 DEF Removed, Common
  <2>3. s \in StatesOf(Removed)
    BY <2>1, <2>2 DEF StatesOf
  <2>. DEFINE k == Position(RedFresh, s)
  <2>4. /\ RedNode(s) = (Len(Order) + Len(GreenFresh)) + k
        /\ k \in 1..Len(RedFresh) /\ RedFresh[k] = s
    BY <1>2, <2>3, PairsAreFinite, FreshNode DEF RedNode, RedFresh, Order
  <2>. HIDE DEF k
  <2>5. QED
    BY <1>2, <2>4
<1>3. QED
  BY <1>1, <1>2

\* The node of a pair is its place in the list.
LEMMA PlaceOfPair ==
  ASSUME DiffInv, NEW p \in kPairs
  PROVE  Position(Order, p) \in 1..Len(Order) /\ Order[Position(Order, p)] = p
BY PairsAreFinite, PositionIs DEF Order

\* The lists the nodes are counted in are finite.
LEMMA LengthsAreNat ==
  ASSUME DiffInv
  PROVE  Len(Order) \in Nat /\ Len(GreenFresh) \in Nat /\ Len(RedFresh) \in Nat
<1>. DEFINE left(es, side) ==
              {t \in StatesOf(es) : \A i \in DOMAIN Order : Order[i][side] # t}
<1>1. left(Added, 2) \in SUBSET StatesOf(Added) /\ left(Removed, 1) \in SUBSET StatesOf(Removed)
  OBVIOUS
<1>2. IsFiniteSet(left(Added, 2)) /\ IsFiniteSet(left(Removed, 1))
  BY <1>1, PairsAreFinite, FS_Subset
<1>3. GreenFresh = SetToSeq(left(Added, 2)) /\ RedFresh = SetToSeq(left(Removed, 1))
  BY DEF GreenFresh, RedFresh, Fresh
<1>. HIDE DEF left
<1>4. QED
  BY <1>2, <1>3, PairsAreFinite, SetToSeqIs DEF Order

\* The edges that two models share are drawn where the nodes of both are.
LEMMA SharedEdge ==
  ASSUME DiffInv, OneToOne, NEW e1 \in fsm1, NEW e2 \in fsm2, Common(e1, e2)
  PROVE  /\ Position(Order, <<e1.from, e2.from>>) = RedNode(e1.from)
         /\ Position(Order, <<e1.from, e2.from>>) = GreenNode(e2.from)
         /\ Position(Order, <<e1.to, e2.to>>) = RedNode(e1.to)
         /\ Position(Order, <<e1.to, e2.to>>) = GreenNode(e2.to)
<1>. DEFINE p == <<e1.from, e2.from>>
            q == <<e1.to, e2.to>>
<1>1. /\ p \in kPairs /\ q \in kPairs
      /\ p[1] = e1.from /\ p[2] = e2.from /\ q[1] = e1.to /\ q[2] = e2.to
  BY DEF Common
<1>. HIDE DEF p, q
<1>2. IsFiniteSet(kPairs)
  BY PairsAreFinite
<1>3. \A r \in {p, q} :
        /\ \A t \in kPairs : t[1] = r[1] => t = r
        /\ \A t \in kPairs : t[2] = r[2] => t = r
  BY <1>1 DEF OneToOne, Rivals
<1>4. ASSUME NEW r \in kPairs, r \in {p, q}
      PROVE  /\ RedNode(r[1]) = Position(Order, r)
             /\ GreenNode(r[2]) = Position(Order, r)
  <2>1. /\ \A t \in kPairs : t[1] = r[1] => t = r
        /\ \A t \in kPairs : t[2] = r[2] => t = r
    BY <1>3, <1>4
  <2>2. \A fresh, count : Node(r[1], fresh, SetToSeq(kPairs), 1, count) = Position(Order, r)
    BY <1>2, <2>1, NamedNode DEF Order
  <2>3. \A fresh, count : Node(r[2], fresh, SetToSeq(kPairs), 2, count) = Position(Order, r)
    BY <1>2, <2>1, NamedNode DEF Order
  <2>4. RedNode(r[1]) = Position(Order, r)
    BY <2>2 DEF RedNode, Order
  <2>5. GreenNode(r[2]) = Position(Order, r)
    BY <2>3 DEF GreenNode, Order
  <2>6. QED
    BY <2>4, <2>5
<1>5. QED
  BY <1>1, <1>4 DEF p, q

\* Nodes of different states differ, and two models share those of matched states only.
LEMMA NodesTellApart ==
  ASSUME DiffInv, OneToOne
  PROVE  /\ \A s, t \in StatesOf(fsm1) : RedNode(s) = RedNode(t) => s = t
         /\ \A s, t \in StatesOf(fsm2) : GreenNode(s) = GreenNode(t) => s = t
         /\ \A p \in Pairs : p \in kPairs <=> RedNode(p[1]) = GreenNode(p[2])
<1>1. /\ Len(Order) \in Nat /\ Len(GreenFresh) \in Nat /\ Len(RedFresh) \in Nat
      /\ \A p \in kPairs : Position(Order, p) \in 1..Len(Order) /\ Order[Position(Order, p)] = p
  BY LengthsAreNat, PlaceOfPair
<1>2. ASSUME NEW s \in StatesOf(fsm1), NEW t \in StatesOf(fsm1), RedNode(s) = RedNode(t) PROVE s = t
  BY <1>1, <1>2, RedNodeIs
<1>5. ASSUME NEW s \in StatesOf(fsm2), NEW t \in StatesOf(fsm2), GreenNode(s) = GreenNode(t)
      PROVE  s = t
  BY <1>1, <1>5, GreenNodeIs
<1>3. ASSUME NEW p \in Pairs PROVE p \in kPairs <=> RedNode(p[1]) = GreenNode(p[2])
  <2>1. p[1] \in StatesOf(fsm1) /\ p[2] \in StatesOf(fsm2) /\ p = <<p[1], p[2]>>
    BY DEF Pairs
  <2>2. \A q \in kPairs : q = <<q[1], q[2]>>
    BY DEF DiffInv, Pairs
  <2>3. ASSUME p \in kPairs PROVE RedNode(p[1]) = GreenNode(p[2])
    <3>1. \A q \in kPairs : (q[1] = p[1] \/ q[2] = p[2]) => q = p
      BY <2>3 DEF OneToOne, Rivals
    <3>2. RedNode(p[1]) = Position(Order, p)
      BY <2>1, <2>3, <3>1, RedNodeIs
    <3>3. GreenNode(p[2]) = Position(Order, p)
      BY <2>1, <2>3, <3>1, GreenNodeIs
    <3>4. QED
      BY <3>2, <3>3
  <2>4. ASSUME RedNode(p[1]) = GreenNode(p[2]) PROVE p \in kPairs
    <3>1. \/ \E q \in kPairs : q[1] = p[1] /\ RedNode(p[1]) = Position(Order, q)
          \/ \E k \in 1..Len(RedFresh) : RedNode(p[1]) = (Len(Order) + Len(GreenFresh)) + k
      BY <2>1, RedNodeIs
    <3>2. \/ \E q \in kPairs : q[2] = p[2] /\ GreenNode(p[2]) = Position(Order, q)
          \/ \E k \in 1..Len(GreenFresh) : GreenNode(p[2]) = Len(Order) + k
      BY <2>1, GreenNodeIs
    <3>3. PICK q \in kPairs, r \in kPairs : /\ q[1] = p[1] /\ r[2] = p[2]
                                            /\ Position(Order, q) = Position(Order, r)
      BY <1>1, <2>4, <3>1, <3>2
    <3>4. q = r
      BY <1>1, <3>3
    <3>5. QED
      BY <2>1, <2>2, <3>3, <3>4
  <2>5. QED
    BY <2>3, <2>4
<1>4. QED
  BY <1>2, <1>3, <1>5

\* An edge of the result.
Drawn(from, label, to, color, of) ==
  [from |-> from, label |-> label, to |-> to, color |-> color, of |-> of]

\* The edges of the result: those of both models, green ones and red ones.
LEMMA ResultIs ==
  ASSUME DiffInv, OneToOne, pc = "extract"
  PROVE  /\ \A g \in graph :
              \/ /\ g.color = None
                 /\ \E e1 \in fsm1, e2 \in fsm2 : Common(e1, e2)
                      /\ g = Drawn(RedNode(e1.from), e1.label, RedNode(e1.to), None, <<e1, e2>>)
                      /\ g = Drawn(GreenNode(e2.from), e2.label, GreenNode(e2.to), None, <<e1, e2>>)
              \/ /\ g.color = "green"
                 /\ \E e2 \in Added :
                      g = Drawn(GreenNode(e2.from), e2.label, GreenNode(e2.to), "green", <<e2>>)
              \/ /\ g.color = "red"
                 /\ \E e1 \in Removed : g = Drawn(RedNode(e1.from), e1.label, RedNode(e1.to), "red", <<e1>>)
         /\ \A e1 \in fsm1, e2 \in fsm2 : Common(e1, e2) =>
              /\ Drawn(RedNode(e1.from), e1.label, RedNode(e1.to), None, <<e1, e2>>) \in graph
              /\ Drawn(GreenNode(e2.from), e2.label, GreenNode(e2.to), None, <<e1, e2>>) \in graph
         /\ \A e2 \in Added :
              Drawn(GreenNode(e2.from), e2.label, GreenNode(e2.to), "green", <<e2>>) \in graph
         /\ \A e1 \in Removed :
              Drawn(RedNode(e1.from), e1.label, RedNode(e1.to), "red", <<e1>>) \in graph
<1>. DEFINE shared == MatchedTransitions(Order)
            green == AnnotadeEdges(Added, Order, 2, Len(Order), "green")
            red == AnnotadeEdges(Removed, Order, 1, Len(Order) + Len(GreenFresh), "red")
<1>1. graph = shared \cup green \cup red
  BY DEF DiffInv, AnnotadeGraph, GreenFresh
<1>2. green = {Drawn(GreenNode(e.from), e.label, GreenNode(e.to), "green", <<e>>) : e \in Added}
  BY DEF AnnotadeEdges, GreenNode, GreenFresh, Drawn
<1>3. red = {Drawn(RedNode(e.from), e.label, RedNode(e.to), "red", <<e>>) : e \in Removed}
  BY DEF AnnotadeEdges, RedNode, RedFresh, Drawn
<1>4. ASSUME NEW e1 \in fsm1, NEW e2 \in fsm2, Common(e1, e2)
      PROVE  /\ Drawn(RedNode(e1.from), e1.label, RedNode(e1.to), None, <<e1, e2>>)
                  = Drawn(Position(Order, <<e1.from, e2.from>>), e1.label,
                          Position(Order, <<e1.to, e2.to>>), None, <<e1, e2>>)
             /\ Drawn(GreenNode(e2.from), e2.label, GreenNode(e2.to), None, <<e1, e2>>)
                  = Drawn(Position(Order, <<e1.from, e2.from>>), e1.label,
                          Position(Order, <<e1.to, e2.to>>), None, <<e1, e2>>)
  <2>1. e1.label = e2.label
    BY <1>4 DEF Common
  <2>2. QED
    BY <1>4, <2>1, SharedEdge
<1>. DEFINE Place(e1, e2) == Drawn(Position(Order, <<e1.from, e2.from>>), e1.label,
                                   Position(Order, <<e1.to, e2.to>>), None, <<e1, e2>>)
<1>5. /\ \A g \in shared : \E e1 \in fsm1, e2 \in fsm2 : Common(e1, e2) /\ g = Place(e1, e2)
      /\ \A e1 \in fsm1, e2 \in fsm2 : Common(e1, e2) => Place(e1, e2) \in shared
  <2>. DEFINE both == {f \in fsm1 \X fsm2 : Common(f[1], f[2])}
  <2>4. \A e \in both : e = <<e[1], e[2]>>
    OBVIOUS
  <2>5. ASSUME NEW e \in both
        PROVE  Place(e[1], e[2])
            = [from |-> Position(Order, <<e[1].from, e[2].from>>), label |-> e[1].label,
               to |-> Position(Order, <<e[1].to, e[2].to>>), color |-> None, of |-> e]
    <3>1. <<e[1], e[2]>> = e
      BY <2>4
    <3>2. Place(e[1], e[2])
            = [from |-> Position(Order, <<e[1].from, e[2].from>>), label |-> e[1].label,
               to |-> Position(Order, <<e[1].to, e[2].to>>), color |-> None, of |-> <<e[1], e[2]>>]
      BY DEF Drawn
    <3>3. QED
      BY <3>1, <3>2
  <2>. DEFINE Way(e) == [from |-> Position(Order, <<e[1].from, e[2].from>>), label |-> e[1].label,
                         to |-> Position(Order, <<e[1].to, e[2].to>>), color |-> None, of |-> e]
  <2>7. shared = {Way(e) : e \in both} /\ \A e \in both : Place(e[1], e[2]) = Way(e)
    BY <2>5 DEF MatchedTransitions
  <2>. HIDE DEF shared, Place, Way, both
  <2>1. shared = {Place(e[1], e[2]) : e \in both}
    BY <2>7
  <2>. USE DEF both
  <2>. HIDE DEF shared, Place
  <2>2. ASSUME NEW g \in shared
        PROVE  \E e1 \in fsm1, e2 \in fsm2 : Common(e1, e2) /\ g = Place(e1, e2)
    BY <2>1
  <2>3. ASSUME NEW e1 \in fsm1, NEW e2 \in fsm2, Common(e1, e2) PROVE Place(e1, e2) \in shared
    <3>. DEFINE e == <<e1, e2>>
    <3>1. e \in fsm1 \X fsm2 /\ e[1] = e1 /\ e[2] = e2
      OBVIOUS
    <3>. HIDE DEF e
    <3>2. QED
      BY <2>1, <2>3, <3>1
  <2>6. QED
    BY <2>2, <2>3
<1>6. \A from, label, to, color, of : Drawn(from, label, to, color, of).color = color
  BY DEF Drawn
<1>. HIDE DEF shared, green, red
<1>7. \A g \in shared :
        /\ g.color = None
        /\ \E e1 \in fsm1, e2 \in fsm2 : Common(e1, e2)
             /\ g = Drawn(RedNode(e1.from), e1.label, RedNode(e1.to), None, <<e1, e2>>)
             /\ g = Drawn(GreenNode(e2.from), e2.label, GreenNode(e2.to), None, <<e1, e2>>)
  <2>1. SUFFICES ASSUME NEW g \in shared, NEW e1 \in fsm1, NEW e2 \in fsm2, Common(e1, e2),
                        g = Place(e1, e2)
                 PROVE  /\ g.color = None
                        /\ g = Drawn(RedNode(e1.from), e1.label, RedNode(e1.to), None, <<e1, e2>>)
                        /\ g = Drawn(GreenNode(e2.from), e2.label, GreenNode(e2.to), None, <<e1, e2>>)
    BY <1>5
  <2>2. QED
    BY <1>4, <1>6, <2>1
<1>8. \A e1 \in fsm1, e2 \in fsm2 : Common(e1, e2) =>
        /\ Drawn(RedNode(e1.from), e1.label, RedNode(e1.to), None, <<e1, e2>>) \in shared
        /\ Drawn(GreenNode(e2.from), e2.label, GreenNode(e2.to), None, <<e1, e2>>) \in shared
  BY <1>4, <1>5
<1>9. /\ \A g \in green : /\ g.color = "green"
                          /\ \E e2 \in Added : g = Drawn(GreenNode(e2.from), e2.label,
                                                         GreenNode(e2.to), "green", <<e2>>)
      /\ \A e2 \in Added :
           Drawn(GreenNode(e2.from), e2.label, GreenNode(e2.to), "green", <<e2>>) \in green
  <2>. DEFINE One(e) == Drawn(GreenNode(e.from), e.label, GreenNode(e.to), "green", <<e>>)
  <2>1. green = {One(e) : e \in Added} /\ \A e : One(e).color = "green"
    BY <1>2, <1>6
  <2>. HIDE DEF One
  <2>2. /\ \A g \in green : g.color = "green" /\ \E e \in Added : g = One(e)
        /\ \A e \in Added : One(e) \in green
    BY <2>1
  <2>3. QED
    BY <2>2 DEF One
<1>10. /\ \A g \in red : /\ g.color = "red"
                         /\ \E e1 \in Removed : g = Drawn(RedNode(e1.from), e1.label,
                                                          RedNode(e1.to), "red", <<e1>>)
       /\ \A e1 \in Removed :
            Drawn(RedNode(e1.from), e1.label, RedNode(e1.to), "red", <<e1>>) \in red
  <2>. DEFINE One(e) == Drawn(RedNode(e.from), e.label, RedNode(e.to), "red", <<e>>)
  <2>1. red = {One(e) : e \in Removed} /\ \A e : One(e).color = "red"
    BY <1>3, <1>6
  <2>. HIDE DEF One
  <2>2. /\ \A g \in red : g.color = "red" /\ \E e \in Removed : g = One(e)
        /\ \A e \in Removed : One(e) \in red
    BY <2>1
  <2>3. QED
    BY <2>2 DEF One
<1>11. /\ shared \subseteq graph /\ green \subseteq graph /\ red \subseteq graph
       /\ \A g \in graph : g \in shared \/ g \in green \/ g \in red
  BY <1>1
<1>12. /\ \A e1 \in fsm1, e2 \in fsm2 : Common(e1, e2) =>
            /\ Drawn(RedNode(e1.from), e1.label, RedNode(e1.to), None, <<e1, e2>>) \in graph
            /\ Drawn(GreenNode(e2.from), e2.label, GreenNode(e2.to), None, <<e1, e2>>) \in graph
       /\ \A e2 \in Added :
            Drawn(GreenNode(e2.from), e2.label, GreenNode(e2.to), "green", <<e2>>) \in graph
       /\ \A e1 \in Removed :
            Drawn(RedNode(e1.from), e1.label, RedNode(e1.to), "red", <<e1>>) \in graph
  BY <1>8, <1>9, <1>10, <1>11
<1>13. QED
  BY <1>7, <1>9, <1>10, <1>11, <1>12

\* The names of the states, as functions.
RedNames == [s \in StatesOf(fsm1) |-> RedNode(s)]
GreenNames == [s \in StatesOf(fsm2) |-> GreenNode(s)]

\* Without its green edges the result is the reference model.
LEMMA WithoutGreen ==
  ASSUME DiffInv, OneToOne, pc = "extract"
  PROVE  /\ Renamed(fsm1, RedNames) = Without("green")
         /\ RedNames \in [StatesOf(fsm1) -> Nodes]
<1>. DEFINE Edge(from, label, to) == [from |-> from, label |-> label, to |-> to]
<1>1. \A e \in fsm1 : e.from \in StatesOf(fsm1) /\ e.to \in StatesOf(fsm1)
  BY DEF StatesOf
<1>2. Renamed(fsm1, RedNames) = {Edge(RedNode(e.from), e.label, RedNode(e.to)) : e \in fsm1}
  BY <1>1 DEF Renamed, RedNames
<1>3. Without("green") = {Edge(g.from, g.label, g.to) : g \in {f \in graph : f.color # "green"}}
  BY DEF Without
<1>4. \A from, label, to, color, of :
        LET g == Drawn(from, label, to, color, of)
        IN  g.from = from /\ g.label = label /\ g.to = to /\ g.color = color
  BY DEF Drawn
<1>5. ASSUME NEW e \in fsm1
      PROVE  \E g \in graph : /\ g.color # "green" /\ g.from = RedNode(e.from) /\ g.label = e.label
                              /\ g.to = RedNode(e.to)
  <2>1. CASE e \in Removed
    <3>1. Drawn(RedNode(e.from), e.label, RedNode(e.to), "red", <<e>>) \in graph
      BY <2>1, ResultIs
    <3>2. QED
      BY <1>4, <3>1
  <2>2. CASE e \notin Removed
    <3>1. PICK e2 \in fsm2 : Common(e, e2)
      BY <2>2 DEF Removed
    <3>2. Drawn(RedNode(e.from), e.label, RedNode(e.to), None, <<e, e2>>) \in graph
      BY <3>1, ResultIs
    <3>3. QED
      BY <1>4, <3>2, ColorAssumption
  <2>3. QED
    BY <2>1, <2>2
<1>6. ASSUME NEW g \in graph, g.color # "green"
      PROVE  \E e \in fsm1 : /\ g.from = RedNode(e.from) /\ g.label = e.label
                             /\ g.to = RedNode(e.to)
  <2>1. \/ \E e \in fsm1, e2 \in fsm2 :
             g = Drawn(RedNode(e.from), e.label, RedNode(e.to), None, <<e, e2>>)
        \/ \E e \in Removed : g = Drawn(RedNode(e.from), e.label, RedNode(e.to), "red", <<e>>)
    BY <1>6, ResultIs
  <2>2. Removed \subseteq fsm1
    BY DEF Removed
  <2>3. PICK e \in fsm1 : \E color, of :
          g = Drawn(RedNode(e.from), e.label, RedNode(e.to), color, of)
    BY <2>1, <2>2
  <2>4. QED
    BY <1>4, <2>3
<1>7. Renamed(fsm1, RedNames) = Without("green")
  BY <1>2, <1>3, <1>5, <1>6
<1>8. ASSUME NEW s \in StatesOf(fsm1) PROVE RedNode(s) \in Nodes
  <2>1. PICK e \in fsm1 : s \in {e.from, e.to}
    BY DEF StatesOf
  <2>2. PICK g \in graph : g.from = RedNode(e.from) /\ g.to = RedNode(e.to)
    BY <1>5
  <2>3. QED
    BY <2>1, <2>2 DEF Nodes
<1>9. QED
  BY <1>7, <1>8 DEF RedNames

\* Without its red edges the result is the updated model.
LEMMA WithoutRed ==
  ASSUME DiffInv, OneToOne, pc = "extract"
  PROVE  /\ Renamed(fsm2, GreenNames) = Without("red")
         /\ GreenNames \in [StatesOf(fsm2) -> Nodes]
<1>. DEFINE Edge(from, label, to) == [from |-> from, label |-> label, to |-> to]
<1>1. \A e \in fsm2 : e.from \in StatesOf(fsm2) /\ e.to \in StatesOf(fsm2)
  BY DEF StatesOf
<1>2. Renamed(fsm2, GreenNames) = {Edge(GreenNode(e.from), e.label, GreenNode(e.to)) : e \in fsm2}
  BY <1>1 DEF Renamed, GreenNames
<1>3. Without("red") = {Edge(g.from, g.label, g.to) : g \in {f \in graph : f.color # "red"}}
  BY DEF Without
<1>4. \A from, label, to, color, of :
        LET g == Drawn(from, label, to, color, of)
        IN  g.from = from /\ g.label = label /\ g.to = to /\ g.color = color
  BY DEF Drawn
<1>5. ASSUME NEW e \in fsm2
      PROVE  \E g \in graph : /\ g.color # "red" /\ g.from = GreenNode(e.from) /\ g.label = e.label
                              /\ g.to = GreenNode(e.to)
  <2>1. CASE e \in Added
    <3>1. Drawn(GreenNode(e.from), e.label, GreenNode(e.to), "green", <<e>>) \in graph
      BY <2>1, ResultIs
    <3>2. QED
      BY <1>4, <3>1
  <2>2. CASE e \notin Added
    <3>1. PICK e1 \in fsm1 : Common(e1, e)
      BY <2>2 DEF Added
    <3>2. Drawn(GreenNode(e.from), e.label, GreenNode(e.to), None, <<e1, e>>) \in graph
      BY <3>1, ResultIs
    <3>3. QED
      BY <1>4, <3>2, ColorAssumption
  <2>3. QED
    BY <2>1, <2>2
<1>6. ASSUME NEW g \in graph, g.color # "red"
      PROVE  \E e \in fsm2 : /\ g.from = GreenNode(e.from) /\ g.label = e.label
                             /\ g.to = GreenNode(e.to)
  <2>1. \/ \E e \in fsm2, e1 \in fsm1 :
             g = Drawn(GreenNode(e.from), e.label, GreenNode(e.to), None, <<e1, e>>)
        \/ \E e \in Added : g = Drawn(GreenNode(e.from), e.label, GreenNode(e.to), "green", <<e>>)
    BY <1>6, ResultIs
  <2>2. Added \subseteq fsm2
    BY DEF Added
  <2>3. PICK e \in fsm2 : \E color, of :
          g = Drawn(GreenNode(e.from), e.label, GreenNode(e.to), color, of)
    BY <2>1, <2>2
  <2>4. QED
    BY <1>4, <2>3
<1>7. Renamed(fsm2, GreenNames) = Without("red")
  BY <1>2, <1>3, <1>5, <1>6
<1>8. ASSUME NEW s \in StatesOf(fsm2) PROVE GreenNode(s) \in Nodes
  <2>1. PICK e \in fsm2 : s \in {e.from, e.to}
    BY DEF StatesOf
  <2>2. PICK g \in graph : g.from = GreenNode(e.from) /\ g.to = GreenNode(e.to)
    BY <1>5
  <2>3. QED
    BY <2>1, <2>2 DEF Nodes
<1>9. QED
  BY <1>7, <1>8 DEF GreenNames

\* An edge of each model drawn between the same nodes goes between matched states.
LEMMA SharedNodes ==
  ASSUME DiffInv, OneToOne
  PROVE  \A e \in fsm1, d \in fsm2 :
           RedNode(e.from) = GreenNode(d.from) /\ RedNode(e.to) = GreenNode(d.to) =>
             <<e.from, d.from>> \in kPairs /\ <<e.to, d.to>> \in kPairs
<1>1. ASSUME NEW s \in StatesOf(fsm1), NEW t \in StatesOf(fsm2), RedNode(s) = GreenNode(t)
      PROVE  <<s, t>> \in kPairs
  <2>. DEFINE p == <<s, t>>
  <2>1. p \in Pairs /\ p[1] = s /\ p[2] = t
    BY DEF Pairs
  <2>. HIDE DEF p
  <2>2. p \in kPairs
    BY <1>1, <2>1, NodesTellApart
  <2>3. QED
    BY <2>2 DEF p
<1>2. /\ \A e \in fsm1 : e.from \in StatesOf(fsm1) /\ e.to \in StatesOf(fsm1)
      /\ \A e \in fsm2 : e.from \in StatesOf(fsm2) /\ e.to \in StatesOf(fsm2)
  BY DEF StatesOf
<1>3. QED
  BY <1>1, <1>2

\* What is drawn twice, one of the models has twice.
LEMMA TwinsAreOfTwins ==
  ASSUME DiffInv, OneToOne, pc = "extract", NEW g \in Twins(graph)
  PROVE  \E i \in DOMAIN g.of : g.of[i] \in Twins(fsm1) \cup Twins(fsm2)
<1>. DEFINE Red(x, c, e, of) == x = Drawn(RedNode(e.from), e.label, RedNode(e.to), c, of)
            Green(x, c, e, of) == x = Drawn(GreenNode(e.from), e.label, GreenNode(e.to), c, of)
            Black(x, e1, e2) == /\ Common(e1, e2) /\ Red(x, None, e1, <<e1, e2>>)
                                /\ Green(x, None, e2, <<e1, e2>>)
<1>1. PICK h \in graph : h # g /\ <<h.from, h.label, h.to>> = <<g.from, g.label, g.to>>
  BY DEF Twins
<1>2. g \in graph
  BY DEF Twins
<1>3. \A x \in graph :
        \/ x.color = None /\ \E e1 \in fsm1, e2 \in fsm2 : Black(x, e1, e2)
        \/ x.color = "green" /\ \E e \in Added : Green(x, "green", e, <<e>>)
        \/ x.color = "red" /\ \E e \in Removed : Red(x, "red", e, <<e>>)
  BY ResultIs
<1>4. \A from, label, to, color, of :
        LET x == Drawn(from, label, to, color, of)
        IN  x.from = from /\ x.label = label /\ x.to = to /\ x.color = color /\ x.of = of
  BY DEF Drawn
<1>5. /\ \A x, c, e, of : Red(x, c, e, of) =>
            x.from = RedNode(e.from) /\ x.label = e.label /\ x.to = RedNode(e.to) /\ x.of = of
      /\ \A x, c, e, of : Green(x, c, e, of) =>
            x.from = GreenNode(e.from) /\ x.label = e.label /\ x.to = GreenNode(e.to) /\ x.of = of
  BY <1>4
<1>6. /\ \A e \in fsm1 : e.from \in StatesOf(fsm1) /\ e.to \in StatesOf(fsm1)
      /\ \A e \in fsm2 : e.from \in StatesOf(fsm2) /\ e.to \in StatesOf(fsm2)
      /\ Added \subseteq fsm2 /\ Removed \subseteq fsm1
  BY DEF StatesOf, Added, Removed
<1>7. /\ \A x, y, c, d, e, f, v, w :
            e \in fsm1 /\ f \in fsm1 /\ e # f /\ Red(x, c, e, v) /\ Red(y, d, f, w)
              /\ <<y.from, y.label, y.to>> = <<x.from, x.label, x.to>> => e \in Twins(fsm1)
      /\ \A x, y, c, d, e, f, v, w :
            e \in fsm2 /\ f \in fsm2 /\ e # f /\ Green(x, c, e, v) /\ Green(y, d, f, w)
              /\ <<y.from, y.label, y.to>> = <<x.from, x.label, x.to>> => e \in Twins(fsm2)
  <2>. HIDE DEF Red, Green
  <2>1. ASSUME NEW x, NEW y, NEW c, NEW d, NEW e \in fsm1, NEW f \in fsm1, NEW v, NEW w,
               e # f, Red(x, c, e, v), Red(y, d, f, w),
               <<y.from, y.label, y.to>> = <<x.from, x.label, x.to>>
        PROVE  e \in Twins(fsm1)
    <3>1. /\ RedNode(e.from) = RedNode(f.from) /\ RedNode(e.to) = RedNode(f.to)
          /\ e.label = f.label
      BY <1>5, <2>1
    <3>2. e.from = f.from /\ e.to = f.to
      BY <1>6, <3>1, NodesTellApart
    <3>3. QED
      BY <2>1, <3>1, <3>2 DEF Twins
  <2>2. ASSUME NEW x, NEW y, NEW c, NEW d, NEW e \in fsm2, NEW f \in fsm2, NEW v, NEW w,
               e # f, Green(x, c, e, v), Green(y, d, f, w),
               <<y.from, y.label, y.to>> = <<x.from, x.label, x.to>>
        PROVE  e \in Twins(fsm2)
    <3>1. /\ GreenNode(e.from) = GreenNode(f.from) /\ GreenNode(e.to) = GreenNode(f.to)
          /\ e.label = f.label
      BY <1>5, <2>2
    <3>2. e.from = f.from /\ e.to = f.to
      BY <1>6, <3>1, NodesTellApart
    <3>3. QED
      BY <2>2, <3>1, <3>2 DEF Twins
  <2>3. QED
    BY <2>1, <2>2
<1>. HIDE DEF Red, Green
<1>8. \A x, e1, e2 : Black(x, e1, e2) => x.of = <<e1, e2>>
  BY <1>5
<1>9. CASE \E e1 \in fsm1, e2 \in fsm2 : Black(g, e1, e2)
  <2>1. PICK e1 \in fsm1, e2 \in fsm2 : Black(g, e1, e2)
    BY <1>9
  <2>2. g.of = <<e1, e2>>
    BY <1>8, <2>1
  <2>3. SUFFICES e1 \in Twins(fsm1) \/ e2 \in Twins(fsm2)
    BY <2>2
  <2>4. CASE \E d1 \in fsm1, d2 \in fsm2 : Black(h, d1, d2)
    <3>1. PICK d1 \in fsm1, d2 \in fsm2 : Black(h, d1, d2)
      BY <2>4
    <3>2. <<e1, e2>> # <<d1, d2>>
      BY <1>1, <2>1, <3>1 DEF Red
    <3>3. QED
      BY <1>1, <1>7, <2>1, <3>1, <3>2
  <2>5. CASE \E d \in Added : Green(h, "green", d, <<d>>)
    <3>1. PICK d \in Added : Green(h, "green", d, <<d>>)
      BY <2>5
    <3>2. d # e2 /\ d \in fsm2
      BY <1>6, <2>1 DEF Added
    <3>3. QED
      BY <1>1, <1>7, <2>1, <3>1, <3>2
  <2>6. CASE \E d \in Removed : Red(h, "red", d, <<d>>)
    <3>1. PICK d \in Removed : Red(h, "red", d, <<d>>)
      BY <2>6
    <3>2. d # e1 /\ d \in fsm1
      BY <1>6, <2>1 DEF Removed
    <3>3. QED
      BY <1>1, <1>7, <2>1, <3>1, <3>2
  <2>7. QED
    BY <1>1, <1>3, <2>4, <2>5, <2>6
<1>10. CASE \E e \in Added : Green(g, "green", e, <<e>>)
  <2>1. PICK e \in Added : Green(g, "green", e, <<e>>)
    BY <1>10
  <2>2. g.of = <<e>> /\ e \in fsm2
    BY <1>5, <1>6, <2>1
  <2>3. SUFFICES e \in Twins(fsm2)
    BY <2>2
  <2>4. CASE \E d1 \in fsm1, d2 \in fsm2 : Black(h, d1, d2)
    <3>1. PICK d1 \in fsm1, d2 \in fsm2 : Black(h, d1, d2)
      BY <2>4
    <3>2. d2 # e
      BY <2>1, <3>1 DEF Added
    <3>3. QED
      BY <1>1, <1>7, <2>1, <2>2, <3>1, <3>2
  <2>5. CASE \E d \in Added : Green(h, "green", d, <<d>>)
    <3>1. PICK d \in Added : Green(h, "green", d, <<d>>)
      BY <2>5
    <3>2. d # e /\ d \in fsm2
      BY <1>1, <1>6, <2>1, <3>1 DEF Green
    <3>3. QED
      BY <1>1, <1>7, <2>1, <2>2, <3>1, <3>2
  <2>6. CASE \E d \in Removed : Red(h, "red", d, <<d>>)
    <3>1. PICK d \in Removed : Red(h, "red", d, <<d>>)
      BY <2>6
    <3>2. d \in fsm1
      BY <1>6
    <3>3. /\ RedNode(d.from) = GreenNode(e.from) /\ RedNode(d.to) = GreenNode(e.to)
          /\ d.label = e.label
      BY <1>1, <1>5, <2>1, <3>1
    <3>4. Common(d, e)
      BY <2>2, <3>2, <3>3, SharedNodes DEF Common
    <3>5. QED
      BY <2>1, <3>2, <3>4 DEF Added
  <2>7. QED
    BY <1>1, <1>3, <2>4, <2>5, <2>6
<1>11. CASE \E e \in Removed : Red(g, "red", e, <<e>>)
  <2>1. PICK e \in Removed : Red(g, "red", e, <<e>>)
    BY <1>11
  <2>2. g.of = <<e>> /\ e \in fsm1
    BY <1>5, <1>6, <2>1
  <2>3. SUFFICES e \in Twins(fsm1)
    BY <2>2
  <2>4. CASE \E d1 \in fsm1, d2 \in fsm2 : Black(h, d1, d2)
    <3>1. PICK d1 \in fsm1, d2 \in fsm2 : Black(h, d1, d2)
      BY <2>4
    <3>2. d1 # e
      BY <2>1, <3>1 DEF Removed
    <3>3. QED
      BY <1>1, <1>7, <2>1, <2>2, <3>1, <3>2
  <2>5. CASE \E d \in Added : Green(h, "green", d, <<d>>)
    <3>1. PICK d \in Added : Green(h, "green", d, <<d>>)
      BY <2>5
    <3>2. d \in fsm2
      BY <1>6
    <3>3. /\ RedNode(e.from) = GreenNode(d.from) /\ RedNode(e.to) = GreenNode(d.to)
          /\ e.label = d.label
      BY <1>1, <1>5, <2>1, <3>1
    <3>4. Common(e, d)
      BY <2>2, <3>2, <3>3, SharedNodes DEF Common
    <3>5. QED
      BY <2>1, <3>2, <3>4 DEF Removed
  <2>6. CASE \E d \in Removed : Red(h, "red", d, <<d>>)
    <3>1. PICK d \in Removed : Red(h, "red", d, <<d>>)
      BY <2>6
    <3>2. d # e /\ d \in fsm1
      BY <1>1, <1>6, <2>1, <3>1 DEF Red
    <3>3. QED
      BY <1>1, <1>7, <2>1, <2>2, <3>1, <3>2
  <2>7. QED
    BY <1>1, <1>3, <2>4, <2>5, <2>6
<1>12. QED
  BY <1>2, <1>3, <1>9, <1>10, <1>11

\* So the result is exact when no state has two partners.
LEMMA ResultIsExact == ASSUME DiffInv PROVE DiffIsExact
<1>1. SUFFICES ASSUME pc = "extract", OneToOne
               PROVE  \E name1 \in [StatesOf(fsm1) -> Nodes] :
                        /\ Renamed(fsm1, name1) = Without("green")
                        /\ \E name2 \in [StatesOf(fsm2) -> Nodes] :
                             /\ Renamed(fsm2, name2) = Without("red")
                             /\ \A p \in Pairs : p \in kPairs <=> name1[p[1]] = name2[p[2]]
                        /\ \A s, t \in StatesOf(fsm1) : s # t => name1[s] # name1[t]
  BY TwinsAreOfTwins DEF DiffIsExact
<1>2. /\ \A s \in StatesOf(fsm1) : RedNames[s] = RedNode(s)
      /\ \A s \in StatesOf(fsm2) : GreenNames[s] = GreenNode(s)
  BY DEF RedNames, GreenNames
<1>3. \A p \in Pairs : p[1] \in StatesOf(fsm1) /\ p[2] \in StatesOf(fsm2)
  BY DEF Pairs
<1>4. \A p \in Pairs : p \in kPairs <=> RedNames[p[1]] = GreenNames[p[2]]
  BY <1>1, <1>2, <1>3, NodesTellApart
<1>5. \A s, t \in StatesOf(fsm1) : s # t => RedNames[s] # RedNames[t]
  BY <1>1, <1>2, NodesTellApart
<1>6. \E name2 \in [StatesOf(fsm2) -> Nodes] :
        /\ Renamed(fsm2, name2) = Without("red")
        /\ \A p \in Pairs : p \in kPairs <=> RedNames[p[1]] = name2[p[2]]
  BY <1>1, <1>4, WithoutRed
<1>7. QED
  BY <1>1, <1>5, <1>6, WithoutGreen

\* The optimised and stripped models are finite, and their edges have four parts.
LEMMA OptimisedIsFinite ==
  ASSUME NEW lines, LearnedModel(lines) PROVE IsFiniteSet(OptimiseDotFile(lines))
<1>. DEFINE kept == {m \in lines : m.from # m.to}
            f == [l \in kept |-> IF OtherWait(lines, l) THEN [l EXCEPT !.in.wait = AnyWait] ELSE l]
            merged == MergeWaits(lines)
            g == [l \in merged |->
                    IF AllSame(merged, l) THEN [l EXCEPT !.in.suite = AnySuite] ELSE l]
<1>1. IsFiniteSet(kept)
  BY FS_Subset DEF LearnedModel
<1>2. merged = {f[l] : l \in DOMAIN f} /\ DOMAIN f = kept
  BY DEF MergeWaits
<1>. HIDE DEF f, kept
<1>3. IsFiniteSet(merged)
  BY <1>1, <1>2, ImageIsFinite
<1>. HIDE DEF merged
<1>4. OptimiseDotFile(lines) = {g[l] : l \in DOMAIN g} /\ DOMAIN g = merged
  BY DEF OptimiseDotFile, MergeSuites, merged
<1>. HIDE DEF g
<1>5. QED
  BY <1>3, <1>4, ImageIsFinite

\* What is compared is finite and has the arrow out of __start0.
LEMMA StrippedIs ==
  ASSUME NEW lines, LearnedModel(lines)
  PROVE  /\ EdgesOf(Stripped(OptimiseDotFile(lines)))
         /\ [from |-> StartNode, label |-> Blank, to |-> First, line |-> <<>>] \in Stripped(OptimiseDotFile(lines))
<1>. DEFINE drawn == OptimiseDotFile(lines)
            f == [l \in drawn |->
                    [from |-> l.from, label |-> <<l.in.type, l.in.suite>>, to |-> l.to,
                     line |-> <<l.in.wait, l.out>>]]
            first == [from |-> StartNode, label |-> Blank, to |-> First, line |-> <<>>]
<1>1. IsFiniteSet(drawn)
  BY OptimisedIsFinite
<1>. HIDE DEF drawn
<1>2. Stripped(drawn) = {f[l] : l \in DOMAIN f} \cup {first} /\ DOMAIN f = drawn
  BY DEF Stripped
<1>3. \A e \in Stripped(drawn) :
        e = [from |-> e.from, label |-> e.label, to |-> e.to, line |-> e.line]
  BY DEF Stripped
<1>. HIDE DEF f, first
<1>4. IsFiniteSet({f[l] : l \in DOMAIN f})
  BY <1>1, <1>2, ImageIsFinite
<1>5. IsFiniteSet(Stripped(drawn))
  BY <1>2, <1>4, FS_AddElement
<1>6. QED
  BY <1>2, <1>3, <1>5 DEF EdgesOf, drawn, first

\* Candidates are pairs of states.
LEMMA AroundPairs == ASSUME NEW ks PROVE Around(ks) \subseteq Pairs
<1>1. \A p : SurroundingPairs(p) \subseteq Pairs
  BY DEF SurroundingPairs, OutMatching, InMatching, Matching, Out, In, Pairs, StatesOf
<1>2. QED
  BY <1>1 DEF Around, RemoveConflicts

\* Before the comparison nothing is matched.
LEMMA DiffStart == DiffInit => DiffInv
<1>1. SUFFICES ASSUME DiffInit PROVE DiffInv
  OBVIOUS
<1>2. LearnedModel(case.ref) /\ LearnedModel(case.upd)
  BY <1>1, CasesAssumption DEF DiffInit
<1>3. /\ fsm1 = Stripped(OptimiseDotFile(case.ref)) /\ fsm2 = Stripped(OptimiseDotFile(case.upd))
      /\ pc = "score" /\ kPairs = {} /\ nPairs = {}
  BY <1>1 DEF DiffInit
<1>4. QED
  BY <1>2, <1>3, StrippedIs DEF DiffInv

\* The result only depends on the two models and their matching.
LEMMA SameModels ==
  ASSUME DiffInv, UNCHANGED <<fsm1, fsm2>>
  PROVE  /\ EdgesOf(fsm1)' /\ EdgesOf(fsm2)'
         /\ \A fsm \in {fsm1', fsm2'} : [from |-> StartNode, label |-> Blank, to |-> First, line |-> <<>>] \in fsm
         /\ Pairs' = Pairs
BY DEF DiffInv, Pairs, EdgesOf

\* The result is a function of the two models and the matching.
LEMMA SameResult ==
  ASSUME UNCHANGED <<fsm1, fsm2, kPairs>>
  PROVE  AnnotadeGraph(Order)' = AnnotadeGraph(Order)
<1>1. Added' = Added /\ Removed' = Removed /\ Order' = Order
  BY DEF Added, Removed, Common, Order
<1>2. \A order : MatchedTransitions(order)' = MatchedTransitions(order)
  BY DEF MatchedTransitions, Common
<1>3. QED
  BY <1>1, <1>2 DEF AnnotadeGraph, MatchedTransitions, Common

\* Every step keeps to pairs of states, and the result is drawn from the final matching.
LEMMA DiffStep == ASSUME DiffInv, [DiffNext]_diffVars PROVE DiffInv'
<1>1. CASE ComputeScores
  <2>1. UNCHANGED <<fsm1, fsm2, kPairs, nPairs>> /\ pc' = "seed"
    BY <1>1 DEF ComputeScores, diff
  <2>2. QED
    BY <2>1, SameModels DEF DiffInv
<1>2. CASE Seed
  <2>1. UNCHANGED <<fsm1, fsm2>> /\ pc' = "match"
    BY <1>2 DEF Seed, diff
  <2>2. <<First, First>> \in Pairs
    BY DEF DiffInv, Pairs, StatesOf
  <2>3. IdentifyLandmarks \subseteq Pairs
    BY DEF IdentifyLandmarks
  <2>4. kPairs' \subseteq Pairs /\ nPairs' \subseteq Pairs
    BY <1>2, <2>2, <2>3, AroundPairs DEF Seed
  <2>5. QED
    BY <2>1, <2>4, SameModels DEF DiffInv
<1>3. CASE Pick
  <2>1. UNCHANGED <<fsm1, fsm2>> /\ pc' = "match"
    BY <1>3 DEF Pick, diff
  <2>2. kPairs' \subseteq Pairs /\ nPairs' \subseteq Pairs
    BY <1>3, AroundPairs DEF Pick, Highest, RemoveConflicts, DiffInv
  <2>3. QED
    BY <2>1, <2>2, SameModels DEF DiffInv
<1>4. CASE Draw
  <2>1. UNCHANGED <<fsm1, fsm2, kPairs, nPairs>> /\ graph' = AnnotadeGraph(Order)
    BY <1>4 DEF Draw, diff, Order
  <2>2. graph' = AnnotadeGraph(Order)'
    BY <2>1, SameResult
  <2>3. QED
    BY <2>1, <2>2, SameModels DEF DiffInv
<1>5. CASE Extract \/ ExtractNoStart \/ Finish \/ Stop \/ UNCHANGED diffVars
  <2>1. /\ UNCHANGED <<fsm1, fsm2, kPairs, nPairs, graph>>
        /\ pc' = "extract" => pc = "extract"
    BY <1>5 DEF Extract, ExtractNoStart, Finish, Stop, diff, diffVars
  <2>2. pc' = "extract" => graph' = AnnotadeGraph(Order)'
    BY <2>1, SameResult DEF DiffInv
  <2>3. QED
    BY <2>1, <2>2, SameModels DEF DiffInv
<1>6. QED
  BY <1>1, <1>2, <1>3, <1>4, <1>5 DEF DiffNext

\* DiffInv: the two models are finite and keep the arrow out of __start0, the matching
\* consists of pairs of their states, and the result is drawn from it.
THEOREM DiffInvHolds == DiffSpec => []DiffInv
BY DiffStart, DiffStep, PTL DEF DiffSpec

\* DiffIsExact: whatever scores the solver finds and whichever candidates are picked, when
\* no state got two partners the result of FSM_diff holds each model exactly.
THEOREM DiffIsAlwaysExact == DiffSpec => []DiffIsExact
BY DiffInvHolds, ResultIsExact, PTL
====
