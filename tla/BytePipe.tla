---- MODULE BytePipe ----
(***************************************************************************)
(* What one direction of a QUIC stream promises the two applications: the  *)
(* bytes written come out once, in order, and the end of the stream after  *)
(* the last of them.  Nothing is said of frames, loss or retransmission.   *)
(* A stream that is aborted may end early; what came out stays in order.   *)
(***************************************************************************)
EXTENDS Integers, Sequences

VARIABLES
  written,   \* bytes written
  closed,    \* the writer has ended the stream
  out,       \* the bytes the reader was given
  ended,     \* the reader was told that this is the end
  aborted    \* the writer or the reader has given up the stream

pipeVars == <<written, closed, out, ended, aborted>>

PipeInit == written = 0 /\ ~closed /\ out = << >> /\ ~ended /\ ~aborted

PipeAbort == aborted' /\ UNCHANGED <<written, closed, out, ended>>

PipeWrite ==
  /\ ~closed
  /\ written' >= written
  /\ closed' \in BOOLEAN
  /\ UNCHANGED <<out, ended, aborted>>

\* The reader is given the next bytes, and the end once there are no more.
PipeRead ==
  /\ Len(out') \in Len(out)..written
  /\ \A k \in 1..Len(out') : out'[k] = k - 1
  /\ ended' => aborted \/ (closed /\ Len(out') = written)
  /\ ended => ended' /\ out' = out
  /\ UNCHANGED <<written, closed, aborted>>

PipeSpec == PipeInit /\ [][PipeAbort \/ PipeWrite \/ PipeRead]_pipeVars
====
