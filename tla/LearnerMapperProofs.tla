---- MODULE LearnerMapperProofs ----
(***************************************************************************)
(* The answers the learner gets are right for every alphabet, every set of *)
(* words, every script and any number of mapper crashes, provided that a   *)
(* mapper which dies within startMapper's 0.5 s has written nothing.  IInv *)
(* says what the two files hold: the input file is the word so far, the    *)
(* output file a prefix of the script that ends with an answer, and the    *)
(* learner's line counter stands in the answer it is collecting.           *)
(***************************************************************************)
EXTENDS LearnerMapper, SequenceTheorems, TLAPS

\* The marks of a word's script are ordered and lie within the script.
LEMMA EndsOrdered ==
  ASSUME NEW w \in Words, NEW i \in 0..Len(w), NEW j \in 0..Len(w), i <= j
  PROVE  /\ Len(w) \in Nat
         /\ Script[w] \in Seq(STRING)
         /\ Ends[w][i] \in Nat /\ Ends[w][j] \in Nat
         /\ Ends[w][i] <= Ends[w][j]
         /\ i < j => Ends[w][i] < Ends[w][j]
         /\ Ends[w][j] <= Len(Script[w])
         /\ Ends[w][0] = 0
<1>1. w \in Seq(Letters) /\ Len(w) \in Nat
  BY ScriptAssumption
<1>2. Ends[w] \in [0..Len(w) -> Nat] /\ Script[w] \in Seq(STRING)
  BY ScriptAssumption
<1>3. \A a, b \in 0..Len(w) : a < b => Ends[w][a] < Ends[w][b]
  BY ScriptAssumption
<1>4. Len(Script[w]) = Ends[w][Len(w)] /\ Ends[w][0] = 0
  BY ScriptAssumption
<1>. Len(w) \in 0..Len(w)
  BY <1>1
<1>a. Ends[w][i] \in Nat /\ Ends[w][j] \in Nat /\ Ends[w][Len(w)] \in Nat
  BY <1>2
<1>5. Ends[w][j] <= Ends[w][Len(w)]
  <2>1. CASE j = Len(w)
    BY <2>1, <1>a
  <2>2. CASE j # Len(w)
    <3>1. j < Len(w)
      BY <2>2, <1>1
    <3>2. Ends[w][j] < Ends[w][Len(w)]
      BY <3>1, <1>3
    <3>3. QED BY <3>2, <1>a
  <2>3. QED BY <2>1, <2>2
<1>6. Ends[w][i] <= Ends[w][j] /\ (i < j => Ends[w][i] < Ends[w][j])
  <2>1. i < j => Ends[w][i] < Ends[w][j]
    BY <1>3
  <2>2. i = j => Ends[w][i] <= Ends[w][j]
    BY <1>a
  <2>3. i < j \/ i = j
    BY <1>1
  <2>4. QED BY <2>1, <2>2, <2>3, <1>a
<1>7. QED
  BY <1>1, <1>2, <1>3, <1>4, <1>5, <1>6

\* Any stretch of a script is a sequence of lines of the length one expects.
LEMMA ScriptStretch ==
  ASSUME NEW w \in Words, NEW a \in Nat, NEW b \in Nat,
         a <= b, b <= Len(Script[w])
  PROVE  /\ SubSeq(Script[w], a + 1, b) \in Seq(STRING)
         /\ Len(SubSeq(Script[w], a + 1, b)) = b - a
         /\ \A k \in 1..(b - a) : SubSeq(Script[w], a + 1, b)[k] = Script[w][a + k]
<1>1. Script[w] \in Seq(STRING)
  BY ScriptAssumption
<1>2. \A k \in (a + 1)..b : Script[w][k] \in STRING
  BY <1>1
<1>3. QED
  BY <1>1, <1>2, SubSeqProperties

\* A stretch grows by the line that follows it, and by the stretch that does.
LEMMA ScriptGrows ==
  ASSUME NEW w \in Words, NEW a \in Nat, NEW b \in Nat, NEW c \in Nat,
         a <= b, b <= c, c <= Len(Script[w])
  PROVE  /\ SubSeq(Script[w], a + 1, b) \o SubSeq(Script[w], b + 1, c)
              = SubSeq(Script[w], a + 1, c)
         /\ b < c => Append(SubSeq(Script[w], a + 1, b), Script[w][b + 1])
                       = SubSeq(Script[w], a + 1, b + 1)
<1>1. Script[w] \in Seq(STRING)
  BY ScriptAssumption
<1>2. SubSeq(Script[w], a + 1, b) \o SubSeq(Script[w], b + 1, c)
        = SubSeq(Script[w], a + 1, c)
  BY <1>1, ConcatAdjacentSubSeq
<1>3. ASSUME b < c
      PROVE  Append(SubSeq(Script[w], a + 1, b), Script[w][b + 1])
               = SubSeq(Script[w], a + 1, b + 1)
  <2>1. SubSeq(Script[w], a + 1, b + 1)
          = SubSeq(Script[w], a + 1, b) \o << Script[w][b + 1] >>
    BY <1>1, <1>3, SubSeqRecursiveSecond
  <2>2. SubSeq(Script[w], a + 1, b) \in Seq(STRING) /\ Script[w][b + 1] \in STRING
    BY <1>1, <1>3, ScriptStretch
  <2>3. QED
    BY <2>1, <2>2, AppendIsConcat
<1>4. QED
  BY <1>2, <1>3
----
(* Steps that leave the files alone. *)

LEMMA PreTicketInv ==
  ASSUME IInv, PreTicket
  PROVE  IInv'
<1>. USE DEF IInv, Asked, Asking, Waiting, Sent, Answered, learnerVars, mapperVars,
             fileVars, serverVars, bounds
<1>1. TypeOK'
  BY ParameterAssumption DEF TypeOK, PreTicket, Tickets, Alive
<1>2. QuietBetween' /\ InputIsWord' /\ MapperBehind'
  BY DEF TypeOK, PreTicket, Alive, QuietBetween, InputIsWord, MapperBehind
<1>3. OutputIsScript' /\ CursorInAnswer' /\ AnswersCorrect'
  BY DEF TypeOK, PreTicket, Alive, QuietBetween, InputIsWord, MapperBehind,
         OutputIsScript, CursorInAnswer, AnswersCorrect
<1>4. QED
  BY <1>1, <1>2, <1>3

LEMMA LaunchMapperInv ==
  ASSUME IInv, LaunchMapper
  PROVE  IInv'
<1>. USE DEF IInv, Asked, Asking, Waiting, Sent, Answered, learnerVars, mapperVars,
             fileVars, serverVars, bounds
<1>1. TypeOK'
  BY DEF TypeOK, LaunchMapper, Tickets, Alive
<1>2. QuietBetween' /\ InputIsWord' /\ MapperBehind'
  BY DEF TypeOK, LaunchMapper, Alive, QuietBetween, InputIsWord, MapperBehind
<1>3. OutputIsScript' /\ CursorInAnswer' /\ AnswersCorrect'
  BY DEF TypeOK, LaunchMapper, Alive, QuietBetween, InputIsWord, MapperBehind,
         OutputIsScript, CursorInAnswer, AnswersCorrect
<1>4. QED
  BY <1>1, <1>2, <1>3

LEMMA MapperSeenAliveInv ==
  ASSUME IInv, MapperSeenAlive
  PROVE  IInv'
<1>. USE DEF IInv, Asked, Asking, Waiting, Sent, Answered, learnerVars, mapperVars,
             fileVars, serverVars, bounds
<1>1. TypeOK'
  BY DEF TypeOK, MapperSeenAlive, Tickets, Alive
<1>2. QuietBetween' /\ InputIsWord' /\ MapperBehind'
  BY DEF TypeOK, MapperSeenAlive, Alive, QuietBetween, InputIsWord, MapperBehind
<1>3. OutputIsScript' /\ CursorInAnswer' /\ AnswersCorrect'
  BY DEF TypeOK, MapperSeenAlive, Alive, QuietBetween, InputIsWord, MapperBehind,
         OutputIsScript, CursorInAnswer, AnswersCorrect
<1>4. QED
  BY <1>1, <1>2, <1>3

LEMMA MapperBootInv ==
  ASSUME IInv, MapperBoot
  PROVE  IInv'
<1>. USE DEF IInv, Asked, Asking, Waiting, Sent, Answered, learnerVars, mapperVars,
             fileVars, serverVars, bounds
<1>1. TypeOK'
  BY DEF TypeOK, MapperBoot, Tickets, Alive
<1>2. QuietBetween' /\ InputIsWord' /\ MapperBehind'
  BY DEF TypeOK, MapperBoot, Alive, QuietBetween, InputIsWord, MapperBehind
<1>3. OutputIsScript'
  BY ScriptAssumption
  DEF TypeOK, MapperBoot, Alive, InputIsWord, MapperBehind, OutputIsScript
<1>4. CursorInAnswer' /\ AnswersCorrect'
  BY DEF TypeOK, MapperBoot, CursorInAnswer, AnswersCorrect
<1>5. QED
  BY <1>1, <1>2, <1>3, <1>4

LEMMA MapperTakeInv ==
  ASSUME IInv, MapperTake
  PROVE  IInv'
<1>. USE DEF IInv, Asked, Asking, Waiting, Sent, Answered, learnerVars, mapperVars,
             fileVars, serverVars, bounds
<1>1. TypeOK'
  BY DEF TypeOK, MapperTake, Tickets, Alive
<1>2. QuietBetween' /\ InputIsWord' /\ MapperBehind'
  BY DEF TypeOK, MapperTake, Alive, QuietBetween, InputIsWord, MapperBehind
<1>3. OutputIsScript' /\ CursorInAnswer' /\ AnswersCorrect'
  BY DEF TypeOK, MapperTake, Alive, QuietBetween, InputIsWord, MapperBehind,
         OutputIsScript, CursorInAnswer, AnswersCorrect
<1>4. QED
  BY <1>1, <1>2, <1>3

LEMMA MapperFinishInv ==
  ASSUME IInv, MapperFinish
  PROVE  IInv'
<1>. USE DEF IInv, Asked, Asking, Waiting, Sent, Answered, learnerVars, mapperVars,
             fileVars, serverVars, bounds
<1>1. TypeOK'
  BY DEF TypeOK, MapperFinish, Tickets, Alive
<1>2. QuietBetween' /\ InputIsWord' /\ MapperBehind'
  BY DEF TypeOK, MapperFinish, Alive, QuietBetween, InputIsWord, MapperBehind
<1>3. OutputIsScript' /\ CursorInAnswer' /\ AnswersCorrect'
  BY DEF TypeOK, MapperFinish, Alive, QuietBetween, InputIsWord, MapperBehind,
         OutputIsScript, CursorInAnswer, AnswersCorrect
<1>4. QED
  BY <1>1, <1>2, <1>3

LEMMA MapperExitInv ==
  ASSUME IInv, MapperExit
  PROVE  IInv'
<1>. USE DEF IInv, Asked, Asking, Waiting, Sent, Answered, learnerVars, mapperVars,
             fileVars, serverVars, bounds
<1>1. TypeOK'
  BY DEF TypeOK, MapperExit, Tickets, Alive
<1>2. QuietBetween' /\ InputIsWord' /\ MapperBehind'
  BY DEF TypeOK, MapperExit, Alive, QuietBetween, InputIsWord, MapperBehind
<1>3. OutputIsScript' /\ CursorInAnswer' /\ AnswersCorrect'
  BY DEF TypeOK, MapperExit, Alive, QuietBetween, InputIsWord, MapperBehind,
         OutputIsScript, CursorInAnswer, AnswersCorrect
<1>4. QED
  BY <1>1, <1>2, <1>3

LEMMA MapperCrashInv ==
  ASSUME IInv, MapperCrash, "earlyDeath" \notin Races
  PROVE  IInv'
<1>. USE DEF IInv, Asked, Asking, Waiting, Sent, Answered, learnerVars, mapperVars,
             fileVars, serverVars, bounds
<1>1. TypeOK'
  BY ParameterAssumption DEF TypeOK, MapperCrash, Tickets, Alive
<1>2. QuietBetween' /\ InputIsWord' /\ MapperBehind'
  BY DEF TypeOK, MapperCrash, Alive, QuietBetween, InputIsWord, MapperBehind
<1>3. OutputIsScript' /\ CursorInAnswer' /\ AnswersCorrect'
  BY DEF TypeOK, MapperCrash, Alive, QuietBetween, InputIsWord, MapperBehind,
         OutputIsScript, CursorInAnswer, AnswersCorrect
<1>4. QED
  BY <1>1, <1>2, <1>3

LEMMA ServerCrashInv ==
  ASSUME IInv, ServerCrash
  PROVE  IInv'
<1>. USE DEF IInv, Asked, Asking, Waiting, Sent, Answered, learnerVars, mapperVars,
             fileVars, serverVars, bounds
<1>1. TypeOK'
  <2>1. serverCrashes' \in 0..MaxServerCrashes
    BY ParameterAssumption DEF TypeOK, ServerCrash
  <2>2. QED
    BY <2>1 DEF TypeOK, ServerCrash
<1>2. QuietBetween' /\ InputIsWord' /\ MapperBehind'
  BY DEF TypeOK, ServerCrash, Alive, QuietBetween, InputIsWord, MapperBehind
<1>3. OutputIsScript' /\ CursorInAnswer' /\ AnswersCorrect'
  BY DEF TypeOK, ServerCrash, Alive, QuietBetween, InputIsWord, MapperBehind,
         OutputIsScript, CursorInAnswer, AnswersCorrect
<1>4. QED
  BY <1>1, <1>2, <1>3

LEMMA PostKillInv ==
  ASSUME IInv, PostKill
  PROVE  IInv'
<1>. USE DEF IInv, Asked, Asking, Waiting, Sent, Answered, learnerVars, mapperVars,
             fileVars, serverVars, bounds
<1>1. SequenceAtPost \in Seq(Letters)
  BY ScriptAssumption DEF PostKill, SequenceAtPost, InputIsWord
<1>2. TypeOK'
  BY <1>1 DEF TypeOK, PostKill, Tickets, Alive
<1>3. QuietBetween' /\ InputIsWord' /\ MapperBehind'
  BY DEF TypeOK, PostKill, Alive, QuietBetween, InputIsWord, MapperBehind
<1>4. OutputIsScript' /\ CursorInAnswer' /\ AnswersCorrect'
  BY DEF TypeOK, PostKill, Alive, QuietBetween, InputIsWord, MapperBehind,
         OutputIsScript, CursorInAnswer, AnswersCorrect
<1>5. QED
  BY <1>2, <1>3, <1>4
----
(* Steps that change the files, the word or the answers. *)

LEMMA PreStartInv ==
  ASSUME IInv, NEW w \in Words, PreStart(w)
  PROVE  IInv'
<1>. USE DEF IInv, Asked, Asking, Waiting, Sent, Answered, learnerVars, mapperVars,
             fileVars, serverVars, bounds
<1>1. w \in Seq(Letters) /\ Ends[w][0] = 0
  BY ScriptAssumption
<1>2. Script[w] \in Seq(STRING) /\ SubSeq(Script[w], 1, 0) = << >>
  BY ScriptAssumption, SubSeqEmpty
<1>3. TypeOK'
  BY <1>1 DEF TypeOK, PreStart, Tickets, Alive
<1>4. QuietBetween' /\ InputIsWord' /\ MapperBehind'
  BY <1>1 DEF TypeOK, PreStart, Alive, QuietBetween, InputIsWord, MapperBehind
<1>5. OutputIsScript'
  BY <1>1, <1>2 DEF TypeOK, PreStart, Alive, QuietBetween, OutputIsScript
<1>6. CursorInAnswer' /\ AnswersCorrect'
  BY <1>1 DEF TypeOK, PreStart, CursorInAnswer, AnswersCorrect
<1>7. QED
  BY <1>3, <1>4, <1>5, <1>6

LEMMA StepSendInv ==
  ASSUME IInv, StepSend
  PROVE  IInv'
<1>. USE DEF IInv, Asked, Asking, Waiting, Sent, Answered, learnerVars, mapperVars,
             fileVars, serverVars, bounds
<1>. DEFINE n == Len(replies)
            letter == word[n + 1]
<1>1. word \in Words /\ word \in Seq(Letters) /\ n \in Nat /\ n < Len(word)
      /\ n + 1 \in 1..Len(word) /\ Len(inFile) = n
  BY ScriptAssumption DEF TypeOK, StepSend, InputIsWord
<1>2. letter \in Letters /\ letter # End
  BY <1>1, ScriptAssumption
<1>3. /\ inFile' \in Seq(Letters \cup {End})
      /\ Len(inFile') = n + 1
      /\ \A k \in 1..n : inFile'[k] = inFile[k]
      /\ inFile'[n + 1] = letter
  BY <1>1, <1>2, AppendProperties DEF TypeOK, StepSend
<1>4. /\ Ends[word][n] \in Nat /\ Ends[word][n + 1] \in Nat
      /\ Ends[word][n] < Ends[word][n + 1]
  BY <1>1, EndsOrdered
<1>5. TypeOK'
  BY <1>3 DEF TypeOK, StepSend, Tickets, Alive
<1>6. QuietBetween' /\ MapperBehind'
  BY <1>1, <1>3 DEF TypeOK, StepSend, Alive, QuietBetween, MapperBehind
<1>7. InputIsWord'
  <2>1. \A k \in 1..Len(inFile') :
          inFile'[k] # End /\ k <= Len(word) /\ inFile'[k] = word[k]
    BY <1>1, <1>2, <1>3 DEF TypeOK, StepSend, InputIsWord
  <2>2. QED
    BY <1>1, <1>3, <2>1 DEF TypeOK, StepSend, InputIsWord
<1>8. OutputIsScript'
  <2>1. phase = "ready" /\ phase' = "poll" /\ Len(inFile) = n /\ Len(inFile') = n + 1
    BY <1>1, <1>3 DEF StepSend
  <2>2. /\ survived' = survived /\ word' = word /\ mapper' = mapper
        /\ outFile' = outFile /\ inCount' = inCount /\ replies' = replies
    BY DEF StepSend
  <2>3. Asking /\ Sent = n /\ Asking' /\ Sent' = n + 1 /\ Answered' = Answered
    BY <2>1, <2>2
  <2>4. SUFFICES ASSUME survived
                 PROVE  /\ Len(outFile) <= Ends[word][n + 1]
                        /\ outFile = SubSeq(Script[word], 1, Len(outFile))
                        /\ mapper \in {"idle", "busy"} => Len(outFile) = Ends[word][Answered]
                        /\ mapper \in {"boot", "dying"} => outFile = << >>
    BY <2>1, <2>2, <2>3 DEF OutputIsScript
  <2>5. /\ Len(outFile) <= Ends[word][n]
        /\ outFile = SubSeq(Script[word], 1, Len(outFile))
        /\ mapper \in {"idle", "busy"} => Len(outFile) = Ends[word][Answered]
        /\ mapper \in {"boot", "dying"} => outFile = << >>
    BY <2>3, <2>4 DEF OutputIsScript
  <2>6. Len(outFile) \in Nat
    BY DEF TypeOK
  <2>7. \A x, y, z \in Nat : x <= y /\ y < z => x <= z
    OBVIOUS
  <2>8. QED
    BY <1>4, <2>5, <2>6, <2>7
<1>9. CursorInAnswer'
  <2>1. SubSeq(Script[word], Ends[word][n] + 1, Ends[word][n]) = << >>
    BY <1>1, <1>4, SubSeqEmpty
  <2>2. survived => outputCount = Ends[word][n]
    BY DEF StepSend, CursorInAnswer
  <2>3. /\ phase' = "poll" /\ replies' = replies /\ word' = word /\ got' = << >>
        /\ outputCount' = outputCount /\ survived' = survived
    BY DEF StepSend
  <2>4. \A x, y \in Nat : x < y => x \in x..(y - 1)
    OBVIOUS
  <2>5. Ends[word][n] \in Ends[word][n]..(Ends[word][n + 1] - 1)
    BY <1>4, <2>4
  <2>6. Sent' = n + 1 /\ Len(replies') = n
    BY <2>3
  <2>7. QED
    BY <2>1, <2>2, <2>3, <2>5, <2>6 DEF CursorInAnswer
<1>10. AnswersCorrect'
  BY DEF StepSend, AnswersCorrect
<1>11. QED
  BY <1>5, <1>6, <1>7, <1>8, <1>9, <1>10

LEMMA StepPollInv ==
  ASSUME IInv, StepPoll
  PROVE  IInv'
<1>. USE DEF IInv, Asked, Asking, Waiting, Sent, Answered, learnerVars, mapperVars,
             fileVars, serverVars, bounds
<1>. DEFINE n == Len(replies)
<1>1. word \in Words /\ n \in Nat /\ n + 1 \in 0..Len(word)
  BY ScriptAssumption DEF TypeOK, StepPoll, InputIsWord
<1>2. Ends[word][n + 1] \in Nat /\ Script[word] \in Seq(STRING)
  BY <1>1, EndsOrdered
<1>3. SubSeq(Script[word], 1, 0) = << >>
  BY <1>2, SubSeqEmpty
<1>4. TypeOK'
  <2>1. outFile' \in Seq(STRING)
    BY EmptySeq DEF TypeOK, StepPoll
  <2>2. QED
    BY <2>1 DEF TypeOK, StepPoll, Alive
<1>5. QuietBetween' /\ InputIsWord' /\ MapperBehind'
  BY DEF TypeOK, StepPoll, Alive, QuietBetween, InputIsWord, MapperBehind
<1>6. OutputIsScript'
  <2>1. CASE mapper = "dead"
    BY <1>1, <1>2, <1>3, <2>1 DEF TypeOK, StepPoll, OutputIsScript
  <2>2. CASE mapper # "dead"
    BY <2>2 DEF TypeOK, StepPoll, OutputIsScript
  <2>3. QED BY <2>1, <2>2
<1>7. CursorInAnswer' /\ AnswersCorrect'
  BY DEF TypeOK, StepPoll, CursorInAnswer, AnswersCorrect
<1>8. QED
  BY <1>4, <1>5, <1>6, <1>7

LEMMA StepReadInv ==
  ASSUME IInv, StepRead
  PROVE  IInv'
<1>. USE DEF IInv, Asked, Asking, Waiting, Sent, Answered, learnerVars, mapperVars,
             fileVars, serverVars, bounds
<1>. DEFINE n == Len(replies)
            line == outFile[outputCount + 1]
            a == Ends[word][n]
            b == Ends[word][n + 1]
<1>1. /\ word \in Words /\ n \in Nat /\ n + 1 \in 1..Len(word)
      /\ n \in 0..Len(word) /\ n + 1 \in 0..Len(word)
      /\ outputCount \in Nat /\ outFile \in Seq(STRING) /\ got \in Seq(STRING)
      /\ replies \in Seq(Seq(STRING))
  <2>1. word \in Words /\ n + 1 <= Len(word)
    BY DEF TypeOK, StepRead, InputIsWord
  <2>2. Len(word) \in Nat
    BY <2>1, ScriptAssumption
  <2>3. /\ outputCount \in Nat /\ outFile \in Seq(STRING) /\ got \in Seq(STRING)
        /\ replies \in Seq(Seq(STRING)) /\ n \in Nat
    BY DEF TypeOK
  <2>4. \A x, y \in Nat : x + 1 <= y => x + 1 \in 1..y /\ x \in 0..y /\ x + 1 \in 0..y
    OBVIOUS
  <2>5. QED
    BY <2>1, <2>2, <2>3, <2>4
<1>2. /\ a \in Nat /\ b \in Nat /\ a < b /\ b <= Len(Script[word])
      /\ Script[word] \in Seq(STRING) /\ Len(Script[word]) \in Nat
  <2>1. /\ word \in Words /\ n \in 0..Len(word) /\ n + 1 \in 0..Len(word)
        /\ n <= n + 1 /\ n < n + 1
    BY <1>1
  <2>2. QED
    BY <2>1, EndsOrdered
<1>. HIDE DEF a, b
<1>3. CASE Len(outFile) > outputCount
  <2>1. line \in STRING
    BY <1>1, <1>3
  <2>2. ASSUME survived
        PROVE  /\ outputCount \in a..(b - 1)
               /\ got = SubSeq(Script[word], a + 1, outputCount)
               /\ outputCount + 1 <= Len(outFile)
               /\ Len(outFile) <= b
               /\ outFile = SubSeq(Script[word], 1, Len(outFile))
    BY <1>1, <1>3, <2>2 DEF StepRead, OutputIsScript, CursorInAnswer, a, b
  <2>3. ASSUME survived
        PROVE  line = Script[word][outputCount + 1]
    <3>1. \A k \in 1..Len(outFile) :
            SubSeq(Script[word], 1, Len(outFile))[k] = Script[word][k]
      <4>1. Len(outFile) \in Nat /\ Len(outFile) <= Len(Script[word])
        BY <1>1, <1>2, <2>2, <2>3
      <4>2. \A x \in Nat : x - 0 = x /\ 0 + x = x /\ 0 <= x
        OBVIOUS
      <4>3. \A k \in 1..(Len(outFile) - 0) :
              SubSeq(Script[word], 0 + 1, Len(outFile))[k] = Script[word][0 + k]
        BY <1>1, <4>1, <4>2, ScriptStretch
      <4>4. QED
        BY <4>1, <4>2, <4>3
    <3>2. outputCount + 1 \in 1..Len(outFile)
      BY <1>1, <2>2, <2>3
    <3>3. QED
      BY <2>2, <2>3, <3>1, <3>2
  <2>4. ASSUME survived
        PROVE  line = End <=> outputCount + 1 = b
    <3>1. \A p \in (Ends[word][n + 1 - 1] + 1)..Ends[word][n + 1] :
            Script[word][p] = End <=> p = Ends[word][n + 1]
      BY <1>1, ScriptAssumption
    <3>2. outputCount + 1 \in (a + 1)..b /\ n + 1 - 1 = n
      <4>1. outputCount \in a..(b - 1)
        BY <2>2, <2>4
      <4>2. QED
        BY <1>1, <1>2, <4>1
    <3>3. QED
      BY <2>3, <2>4, <3>1, <3>2 DEF a, b
  <2>5. CASE line # End
    <3>1. /\ outputCount' = outputCount + 1 /\ got' = Append(got, line)
          /\ phase' = "poll" /\ replies' = replies
          /\ UNCHANGED <<resume, word, crashCount, crashInputs, mapperVars,
                         fileVars, serverVars, bounds>>
      BY <1>3, <2>5 DEF StepRead
    <3>2. got' \in Seq(STRING)
      BY <1>1, <2>1, <3>1, AppendProperties
    <3>3. TypeOK'
      BY <3>1, <3>2 DEF TypeOK
    <3>4. QuietBetween' /\ InputIsWord' /\ MapperBehind' /\ OutputIsScript'
      BY <3>1 DEF StepRead, QuietBetween, InputIsWord, MapperBehind, OutputIsScript
    <3>5. CursorInAnswer'
      <4>1. ASSUME survived
            PROVE  Append(got, line) = SubSeq(Script[word], a + 1, outputCount + 1)
        <5>1. /\ outputCount \in Nat /\ a <= outputCount
              /\ outputCount <= b /\ outputCount < b
          <6>1. outputCount \in a..(b - 1)
            BY <2>2, <4>1
          <6>2. QED
            BY <1>1, <1>2, <6>1
        <5>2. Append(SubSeq(Script[word], a + 1, outputCount),
                     Script[word][outputCount + 1])
                = SubSeq(Script[word], a + 1, outputCount + 1)
          BY <1>1, <1>2, <5>1, ScriptGrows
        <5>3. QED
          BY <2>2, <2>3, <4>1, <5>2
      <4>2. ASSUME survived
            PROVE  outputCount + 1 \in a..(b - 1)
        <5>1. outputCount \in a..(b - 1) /\ outputCount + 1 # b
          BY <2>2, <2>4, <2>5, <4>2
        <5>2. QED
          BY <1>1, <1>2, <5>1
      <4>3. QED
        BY <3>1, <4>1, <4>2 DEF CursorInAnswer, a, b
    <3>6. AnswersCorrect'
      BY <3>1 DEF AnswersCorrect
    <3>7. QED BY <3>3, <3>4, <3>5, <3>6
  <2>6. CASE line = End
    <3>1. /\ outputCount' = outputCount + 1 /\ got' = got
          /\ phase' = "ready" /\ replies' = Append(replies, got)
          /\ UNCHANGED <<resume, word, crashCount, crashInputs, mapperVars,
                         fileVars, serverVars, bounds>>
      BY <1>3, <2>6 DEF StepRead
    <3>2. /\ replies' \in Seq(Seq(STRING)) /\ Len(replies') = n + 1
          /\ \A i \in 1..n : replies'[i] = replies[i]
          /\ replies'[n + 1] = got
      BY <1>1, <3>1, AppendProperties
    <3>3. TypeOK'
      BY <3>1, <3>2 DEF TypeOK
    <3>4. QuietBetween' /\ InputIsWord' /\ MapperBehind' /\ OutputIsScript'
      BY <1>1, <3>1, <3>2
      DEF StepRead, QuietBetween, InputIsWord, MapperBehind, OutputIsScript
    <3>5. CursorInAnswer'
      <4>1. ASSUME survived PROVE outputCount + 1 = Ends[word][n + 1]
        BY <2>4, <2>6, <4>1 DEF b
      <4>2. QED
        BY <3>1, <3>2, <4>1 DEF CursorInAnswer
    <3>6. AnswersCorrect'
      <4>1. SUFFICES ASSUME survived, NEW i \in 1..(n + 1)
                     PROVE  replies'[i] = Answer(word, i)
        BY <3>1, <3>2 DEF AnswersCorrect, Answer
      <4>2. CASE i = n + 1
        <5>1. outputCount + 1 = b
          BY <2>4, <2>6, <4>1
        <5>2. outputCount = b - 1 /\ i - 1 = n
          <6>1. outputCount \in Nat /\ b \in Nat /\ n \in Nat
            BY <1>1, <1>2
          <6>2. QED
            BY <4>2, <5>1, <6>1
        <5>3. got = SubSeq(Script[word], a + 1, b - 1)
          BY <2>2, <4>1, <5>2
        <5>4. QED
          BY <3>2, <4>2, <5>2, <5>3 DEF Answer, a, b
      <4>3. CASE i # n + 1
        <5>1. i \in 1..n
          BY <1>1, <4>3
        <5>2. replies[i] = Answer(word, i)
          BY <4>1, <5>1 DEF AnswersCorrect
        <5>3. QED
          BY <3>2, <5>1, <5>2
      <4>4. QED BY <4>2, <4>3
    <3>7. QED BY <3>3, <3>4, <3>5, <3>6
  <2>7. QED BY <2>5, <2>6
<1>4. CASE ~(Len(outFile) > outputCount)
  <2>1. /\ phase' = "poll" /\ UNCHANGED <<outputCount, got, replies>>
        /\ UNCHANGED <<resume, word, crashCount, crashInputs, mapperVars,
                       fileVars, serverVars, bounds>>
    BY <1>4 DEF StepRead
  <2>2. TypeOK'
    BY <2>1 DEF TypeOK
  <2>3. QuietBetween' /\ InputIsWord' /\ MapperBehind' /\ OutputIsScript'
    BY <2>1 DEF StepRead, QuietBetween, InputIsWord, MapperBehind, OutputIsScript
  <2>4. CursorInAnswer' /\ AnswersCorrect'
    BY <2>1 DEF StepRead, CursorInAnswer, AnswersCorrect
  <2>5. QED BY <2>2, <2>3, <2>4
<1>5. QED
  BY <1>3, <1>4

LEMMA PostEndInv ==
  ASSUME IInv, PostEnd
  PROVE  IInv'
<1>. USE DEF IInv, Asked, Asking, Waiting, Sent, Answered, learnerVars, mapperVars,
             fileVars, serverVars, bounds
<1>1. /\ inFile \in Seq(Letters \cup {End})
      /\ inFile' \in Seq(Letters \cup {End})
      /\ Len(inFile') = Len(inFile) + 1
      /\ \A k \in 1..Len(inFile) : inFile'[k] = inFile[k]
      /\ inFile'[Len(inFile) + 1] = End
  BY AppendProperties DEF TypeOK, PostEnd
<1>2. TypeOK'
  BY <1>1 DEF TypeOK, PostEnd, Tickets, Alive
<1>3. QuietBetween' /\ MapperBehind'
  BY <1>1 DEF TypeOK, PostEnd, Alive, QuietBetween, MapperBehind
<1>4. InputIsWord'
  BY <1>1 DEF TypeOK, PostEnd, InputIsWord
<1>5. OutputIsScript' /\ CursorInAnswer' /\ AnswersCorrect'
  BY DEF TypeOK, PostEnd, OutputIsScript, CursorInAnswer, AnswersCorrect
<1>6. QED
  BY <1>2, <1>3, <1>4, <1>5

LEMMA MapperReplyInv ==
  ASSUME IInv, MapperReply
  PROVE  IInv'
<1>. USE DEF IInv, Asked, Asking, Waiting, Sent, Answered, learnerVars, mapperVars,
             fileVars, serverVars, bounds
<1>. DEFINE a == Ends[word][inCount - 1]
            b == Ends[word][inCount]
            piece == SubSeq(Script[word], a + 1, b)
<1>1. /\ word \in Words /\ inCount \in 1..Len(word)
      /\ inCount - 1 \in 0..Len(word) /\ inCount \in 0..Len(word)
      /\ outFile \in Seq(STRING)
  <2>1. word \in Words /\ inCount \in 1..Len(word)
    BY DEF TypeOK, MapperReply, MapperBehind, InputIsWord, QuietBetween
  <2>2. Len(word) \in Nat
    BY <2>1, ScriptAssumption
  <2>3. QED
    BY <2>1, <2>2 DEF TypeOK
<1>2. /\ a \in Nat /\ b \in Nat /\ a <= b /\ b <= Len(Script[word])
      /\ Script[word] \in Seq(STRING)
  BY <1>1, EndsOrdered
<1>3. piece \in Seq(STRING) /\ Len(piece) = b - a
  BY <1>1, <1>2, ScriptStretch
<1>4. TypeOK'
  <2>1. outFile' \in Seq(STRING)
    BY <1>1, <1>3, ParameterAssumption, ConcatProperties DEF MapperReply
  <2>2. ticket' \in Tickets /\ zrtt' \in {"NOT_READY", "READY", "TOO_LATE"}
        /\ loaded' \in Tickets /\ canDisconnect' \in BOOLEAN
    BY DEF TypeOK, MapperReply, TicketEffect, Tickets
  <2>3. QED
    BY <2>1, <2>2 DEF TypeOK, MapperReply, Alive
<1>5. QuietBetween' /\ InputIsWord' /\ MapperBehind'
  BY DEF TypeOK, MapperReply, Alive, QuietBetween, InputIsWord, MapperBehind
<1>6. OutputIsScript'
  <2>1. SUFFICES ASSUME Asking, survived
                 PROVE  /\ Len(outFile') <= Ends[word][Sent]
                        /\ outFile' = SubSeq(Script[word], 1, Len(outFile'))
                        /\ Len(outFile') = b
    BY DEF MapperReply, OutputIsScript
  <2>2. outFile = SubSeq(Script[word], 1, a) /\ Len(outFile) = a
    BY <2>1 DEF MapperReply, OutputIsScript
  <2>3. outFile' = outFile \o piece
    BY <2>1 DEF MapperReply
  <2>4. outFile' = SubSeq(Script[word], 1, b)
    <3>1. 1 \in 1..(Len(Script[word]) + 1) /\ a \in (1 - 1)..Len(Script[word])
          /\ b \in a..Len(Script[word])
      BY <1>2
    <3>2. SubSeq(Script[word], 1, a) \o piece = SubSeq(Script[word], 1, b)
      BY <1>2, <3>1, ConcatAdjacentSubSeq
    <3>3. outFile' = SubSeq(Script[word], 1, a) \o piece
      BY <2>2, <2>3
    <3>4. QED
      BY <3>2, <3>3
  <2>5. Len(outFile') = b
    <3>1. Len(outFile \o piece) = Len(outFile) + Len(piece)
      BY <1>1, <1>3, ConcatProperties
    <3>2. \A x, y \in Nat : x + (y - x) = y
      OBVIOUS
    <3>3. a \in Nat /\ b \in Nat /\ Len(outFile) = a /\ Len(piece) = b - a
      BY <1>2, <1>3, <2>2
    <3>. HIDE DEF a, b, piece
    <3>4. QED
      BY <2>3, <3>1, <3>2, <3>3
  <2>6. Sent \in 0..Len(word) /\ inCount <= Sent
    <3>1. Len(inFile) = Sent /\ Sent <= Len(word) /\ mapper = "busy"
      BY <2>1 DEF MapperReply, InputIsWord
    <3>2. inCount <= Len(inFile)
      BY <3>1 DEF MapperBehind
    <3>3. Len(inFile) \in Nat /\ Len(word) \in Nat
      BY <1>1, ScriptAssumption DEF TypeOK
    <3>4. \A x, y \in Nat : x <= y => x \in 0..y
      OBVIOUS
    <3>5. QED
      BY <3>1, <3>2, <3>3, <3>4
  <2>7. b <= Ends[word][Sent]
    BY <1>1, <2>6, EndsOrdered
  <2>8. QED
    BY <2>4, <2>5, <2>7
<1>7. CursorInAnswer' /\ AnswersCorrect'
  BY DEF TypeOK, MapperReply, CursorInAnswer, AnswersCorrect
<1>8. QED
  BY <1>4, <1>5, <1>6, <1>7
----
(* The theorems. *)

LEMMA InitInv == Init => IInv
<1>. SUFFICES ASSUME Init PROVE IInv
  OBVIOUS
<1>. USE DEF Init, Asked, Asking, Waiting, Sent
<1>1. TypeOK
  <2>1. /\ << >> \in Seq(STRING) /\ << >> \in Seq(Seq(STRING))
        /\ << >> \in Seq(Letters \cup {End})
    BY EmptySeq
  <2>2. 0 \in 0..MaxMapperCrashes /\ 0 \in 0..MaxServerCrashes /\ 0 \in 0..MaxQueries
    BY ParameterAssumption
  <2>3. QED
    BY <2>1, <2>2 DEF TypeOK, Tickets, Alive
<1>2. QuietBetween /\ InputIsWord /\ MapperBehind
  BY DEF QuietBetween, InputIsWord, MapperBehind
<1>3. OutputIsScript /\ CursorInAnswer /\ AnswersCorrect
  BY DEF OutputIsScript, CursorInAnswer, AnswersCorrect
<1>4. QED
  BY <1>1, <1>2, <1>3 DEF IInv

LEMMA NextInv ==
  ASSUME "earlyDeath" \notin Races, IInv, [Next]_vars
  PROVE  IInv'
<1>1. CASE PreTicket
  BY <1>1, PreTicketInv
<1>2. CASE \E w \in Words : PreStart(w)
  BY <1>2, PreStartInv
<1>3. CASE LaunchMapper
  BY <1>3, LaunchMapperInv
<1>4. CASE MapperSeenAlive
  BY <1>4, MapperSeenAliveInv
<1>5. CASE StepSend
  BY <1>5, StepSendInv
<1>6. CASE StepPoll
  BY <1>6, StepPollInv
<1>7. CASE StepRead
  BY <1>7, StepReadInv
<1>8. CASE PostEnd
  BY <1>8, PostEndInv
<1>9. CASE PostKill
  BY <1>9, PostKillInv
<1>10. CASE MapperBoot
  BY <1>10, MapperBootInv
<1>11. CASE MapperTake
  BY <1>11, MapperTakeInv
<1>12. CASE MapperReply
  BY <1>12, MapperReplyInv
<1>13. CASE MapperFinish
  BY <1>13, MapperFinishInv
<1>14. CASE MapperExit
  BY <1>14, MapperExitInv
<1>15. CASE MapperCrash
  BY <1>15, MapperCrashInv
<1>16. CASE ServerCrash
  BY <1>16, ServerCrashInv
<1>17. CASE UNCHANGED vars
  BY <1>17 DEF IInv, TypeOK, QuietBetween, InputIsWord, MapperBehind, OutputIsScript,
     CursorInAnswer, AnswersCorrect, Asked, Asking, Waiting, Sent, Answered, vars,
     learnerVars, mapperVars, fileVars, serverVars, bounds
<1>18. QED
  BY <1>1, <1>2, <1>3, <1>4, <1>5, <1>6, <1>7, <1>8, <1>9, <1>10, <1>11, <1>12,
     <1>13, <1>14, <1>15, <1>16, <1>17 DEF Next, Learner, Mapper

\* The inductive invariant holds when no mapper dies within startMapper's 0.5 s
\* with output already written.
THEOREM InvariantHolds ==
  ASSUME "earlyDeath" \notin Races
  PROVE  Spec => []IInv
<1>1. IInv /\ [Next]_vars => IInv'
  BY NextInv
<1>2. QED
  BY InitInv, <1>1, PTL DEF Spec

\* However often the mapper dies and is restarted, every answer that step()
\* returned is the server's answer to that letter, while the server lives.
THEOREM AnswersAlwaysCorrect ==
  ASSUME "earlyDeath" \notin Races
  PROVE  Spec => []AnswersCorrect
<1>1. IInv => AnswersCorrect
  BY DEF IInv
<1>2. QED
  BY InvariantHolds, <1>1, PTL

\* The variables keep their types.
THEOREM TypesHold ==
  ASSUME "earlyDeath" \notin Races
  PROVE  Spec => []TypeOK
<1>1. IInv => TypeOK
  BY DEF IInv
<1>2. QED
  BY InvariantHolds, <1>1, PTL
----
(* The refinement: what learner and mapper do together is LearnerQuery. *)

LEMMA AppendKeeps ==
  ASSUME NEW S, NEW s \in Seq(S), NEW e \in S
  PROVE  SubSeq(Append(s, e), 1, Len(s)) = s
<1>1. Append(s, e) \in Seq(S) /\ Len(s) \in Nat /\ Len(Append(s, e)) = Len(s) + 1
      /\ \A i \in 1..Len(s) : Append(s, e)[i] = s[i]
  BY AppendProperties
<1>2. \A i \in 1..Len(s) : Append(s, e)[i] \in S
  BY <1>1
<1>3. /\ SubSeq(Append(s, e), 1, Len(s)) \in Seq(S)
      /\ Len(SubSeq(Append(s, e), 1, Len(s))) = Len(s)
      /\ \A i \in 1..Len(s) : SubSeq(Append(s, e), 1, Len(s))[i] = Append(s, e)[i]
  BY <1>1, <1>2, SubSeqProperties
<1>4. QED
  BY <1>1, <1>3, SeqEqual

LEMMA StepReadReplies ==
  ASSUME IInv, IInv', StepRead
  PROVE  Query!Reply \/ UNCHANGED Query!qvars
<1>. USE DEF Query!Reply, Query!qvars, fileVars, serverVars, bounds
<1>1. replies \in Seq(Seq(STRING)) /\ got \in Seq(STRING) /\ phase = "read"
      /\ Len(replies) \in Nat
  BY DEF IInv, TypeOK, StepRead
<1>2. Len(replies) < Len(word) /\ Len(word) \in Nat
  BY <1>1, ScriptAssumption
  DEF IInv, InputIsWord, Asked, Asking, Sent, Waiting
<1>3. CASE replies' = Append(replies, got) /\ phase' = "ready"
  <2>1. Len(replies') = Len(replies) + 1 /\ replies' \in Seq(Seq(STRING))
    BY <1>1, <1>3, AppendProperties
  <2>2. SubSeq(replies', 1, Len(replies)) = replies
    BY <1>1, <1>3, AppendKeeps
  <2>3. UNCHANGED <<word, survived>>
    BY DEF StepRead
  <2>4. survived => replies'[Len(replies')] = Query!Answer(word, Len(replies'))
    <3>1. Len(replies') \in 1..Len(replies')
      BY <1>1, <2>1
    <3>2. QED
      BY <2>3, <3>1 DEF IInv, AnswersCorrect, Answer, Query!Answer
  <2>5. /\ phase \in {"starting", "ready", "poll", "read"}
        /\ (phase \in {"starting", "ready", "poll", "read"})'
             = (phase \in {"starting", "ready", "poll", "read"})
    BY <1>1, <1>3
  <2>6. QED
    BY <1>2, <2>1, <2>2, <2>3, <2>4, <2>5, Zenon
<1>4. CASE ~(replies' = Append(replies, got) /\ phase' = "ready")
  BY <1>1, <1>4 DEF StepRead
<1>5. QED
  BY <1>3, <1>4

LEMMA NextQueries ==
  ASSUME IInv, IInv', [Next]_vars
  PROVE  [Query!QNext]_Query!qvars
<1>. USE DEF Query!QNext, Query!qvars, learnerVars, mapperVars, fileVars, serverVars,
             bounds
<1>1. CASE \E w \in Words : PreStart(w)
  BY <1>1 DEF PreStart, Query!Ask
<1>2. CASE StepRead
  BY <1>2, StepReadReplies
<1>3. CASE PostEnd
  BY <1>3 DEF PostEnd, Query!Done
<1>4. CASE ServerCrash
  BY <1>4 DEF ServerCrash, Query!ServerGone
<1>5. CASE MapperSeenAlive
  BY <1>5 DEF MapperSeenAlive, IInv, TypeOK
<1>6. CASE PreTicket \/ LaunchMapper \/ StepSend \/ StepPoll \/ PostKill
  BY <1>6 DEF PreTicket, LaunchMapper, StepSend, StepPoll, PostKill
<1>7. CASE Mapper \/ MapperCrash
  BY <1>7 DEF Mapper, MapperBoot, MapperTake, MapperReply, MapperFinish, MapperExit,
     MapperCrash
<1>8. CASE UNCHANGED vars
  BY <1>8 DEF vars
<1>9. QED
  BY <1>1, <1>2, <1>3, <1>4, <1>5, <1>6, <1>7, <1>8 DEF Next, Learner

\* Learner and mapper together, files, crashes, replays and all, answer words
\* the way LearnerQuery says, which is what the learning algorithm assumes.
THEOREM LearnerMapperRefines ==
  ASSUME "earlyDeath" \notin Races
  PROVE  Spec => AnswersQueries
<1>1. Init => Query!QInit
  BY DEF Init, Query!QInit
<1>2. QED
  BY <1>1, InvariantHolds, NextQueries, PTL DEF Spec, AnswersQueries, Query!QSpec
====
