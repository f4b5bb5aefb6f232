---- MODULE LearnerQuery ----
(***************************************************************************)
(* What the learning algorithm relies on when it puts a word to QUIC_SUL   *)
(* (quicLearner/learner.py): the words are answered one at a time, letter  *)
(* by letter, and as long as the server process survives the query the     *)
(* answer to the i-th letter is the slice of the server's script for that  *)
(* word that belongs to that letter.  Nothing is said here of files,       *)
(* processes or restarts.                                                  *)
(***************************************************************************)
EXTENDS Integers, Sequences

CONSTANTS
  Words,    \* the words the learner may ask
  Script,   \* Script[w]: every output line for w on a fresh connection
  Ends      \* Ends[w][i]: the index in Script[w] of the "end" of letter i

VARIABLES
  open,      \* a query is in progress
  word,      \* the word of the current (or last) query
  replies,   \* the answers given so far
  survived   \* the server has been up since the query began

qvars == <<open, word, replies, survived>>

\* The lines of the i-th answer, without the "end" that closes them.
Answer(w, i) == SubSeq(Script[w], Ends[w][i - 1] + 1, Ends[w][i] - 1)

QInit ==
  /\ ~open
  /\ word = << >>
  /\ replies = << >>
  /\ survived = TRUE

Ask(w) ==
  /\ ~open
  /\ open' = TRUE
  /\ word' = w
  /\ replies' = << >>
  /\ survived' = TRUE

\* One more answer; once the server has gone it may be anything.
Reply ==
  /\ open
  /\ Len(replies) < Len(word)
  /\ Len(replies') = Len(replies) + 1
  /\ replies = SubSeq(replies', 1, Len(replies))
  /\ survived => replies'[Len(replies')] = Answer(word, Len(replies'))
  /\ UNCHANGED <<open, word, survived>>

Done ==
  /\ open
  /\ Len(replies) = Len(word)
  /\ open' = FALSE
  /\ UNCHANGED <<word, replies, survived>>

ServerGone ==
  /\ survived' = FALSE
  /\ UNCHANGED <<open, word, replies>>

QNext ==
  \/ \E w \in Words : Ask(w)
  \/ Reply
  \/ Done
  \/ ServerGone

QSpec == QInit /\ [][QNext]_qvars
====
