---- MODULE StreamReceiver ----
(***************************************************************************)
(* The receive part of one QUIC stream: QuicStreamReceiver in              *)
(* quic/stream.py, with the frames of connection.py that reach it.  Frames *)
(* may come in any order, more than once, and cut the stream at other      *)
(* offsets each time the sender repeats them.                              *)
(*                                                                         *)
(* A RangeSet is the set of the offsets it covers.  Bytes are told apart   *)
(* by their offset: the byte at offset k of the stream is k.               *)
(***************************************************************************)
EXTENDS Integers, Sequences

CONSTANTS
  MaxSize   \* bound: the longest stream the environment sends

ASSUME ReceiverAssumption == MaxSize \in Nat

VARIABLES
  rStart,            \* _buffer_start: bytes handed to the application
  rBuffer,           \* _buffer, with Hole where nothing was received
  ranges,            \* the offsets received out of order
  finalSize,         \* or NoSize
  receiverFinished,
  stopPending,
  receiverGone,      \* the connection has discarded the stream
  delivered,         \* the data of all StreamDataReceived events
  ended              \* one of them had end_stream set

receiverVars == <<rStart, rBuffer, ranges, finalSize, receiverFinished, stopPending,
                  receiverGone, delivered, ended>>

NoSize == -1
Hole == -1

ReceiverTypeOK ==
  /\ rStart \in Nat
  /\ rBuffer \in Seq(Nat \cup {Hole})
  /\ ranges \subseteq Nat
  /\ finalSize \in Nat \cup {NoSize}
  /\ receiverFinished \in BOOLEAN /\ stopPending \in BOOLEAN /\ receiverGone \in BOOLEAN
  /\ delivered \in Seq(Nat \cup {Hole})
  /\ ended \in BOOLEAN

ReceiverInit ==
  /\ rStart = 0 /\ rBuffer = << >> /\ ranges = {} /\ finalSize = NoSize
  /\ receiverFinished = FALSE /\ stopPending = FALSE /\ receiverGone = FALSE
  /\ delivered = << >> /\ ended = FALSE
----
(* Python's slices on a bytearray. *)

From(s, n) == SubSeq(s, n + 1, Len(s))          \* s[n:]
UpTo(s, n) == SubSeq(s, 1, n)                   \* s[:n] for n <= len(s)
Padded(s, n) == s \o [k \in 1..(n - Len(s)) |-> Hole]
Overwrite(s, n, data) == UpTo(s, n) \o data \o From(s, n + Len(data))
----
(* handle_frame *)

\* The two FinalSizeErrors.  The connection logs them and ignores the frame.
BreaksFinalSize(stop, fin) ==
  /\ finalSize # NoSize
  /\ stop > finalSize \/ (fin /\ stop # finalSize)

\* The last byte has been handed over.
AtEndOnceKnown(next, size) == size # NoSize   \* (mutant)
AtEnd(next, size) == next = size

\* Fast path: the next bytes in order, and nothing is buffered.
ReceiveInOrder(start, data, fin) ==
  LET stop == start + Len(data) IN
  /\ ~receiverGone /\ ~BreaksFinalSize(stop, fin)
  /\ start = rStart /\ data # << >> /\ rBuffer = << >>
  /\ finalSize' = IF fin THEN stop ELSE finalSize
  /\ rStart' = stop
  /\ receiverFinished' = (receiverFinished \/ fin)
  /\ delivered' = delivered \o data
  /\ ended' = (ended \/ fin)
  /\ UNCHANGED <<rBuffer, ranges, stopPending, receiverGone>>

\* Otherwise: drop what was delivered before, put the rest in its place, and
\* pull the first range if it has become the next one.
ReceiveBuffered(start, data, fin) ==
  LET stop == start + Len(data)
      drop == IF start < rStart THEN rStart - start ELSE 0
      fresh == From(data, drop)
      pos == start + drop - rStart
      known == ranges \cup (start + drop)..(stop - 1)
      filled == Overwrite(Padded(rBuffer, pos), pos, fresh)
      next == IF rStart \in known
              THEN CHOOSE k \in (rStart + 1)..(rStart + Len(filled)) :
                     rStart..(k - 1) \subseteq known /\ k \notin known
              ELSE rStart
      size == IF fin THEN stop ELSE finalSize
  IN
  /\ ~receiverGone /\ ~BreaksFinalSize(stop, fin)
  /\ ~(start = rStart /\ data # << >> /\ rBuffer = << >>)
  /\ finalSize' = size
  /\ rStart' = next
  /\ rBuffer' = From(filled, next - rStart)
  /\ ranges' = known \ rStart..(next - 1)
  /\ delivered' = delivered \o UpTo(filled, next - rStart)
  /\ receiverFinished' = (receiverFinished \/ AtEnd(next, size))
  /\ ended' = (ended \/ AtEnd(next, size))
  /\ UNCHANGED <<stopPending, receiverGone>>

ReceiveIgnored(start, data, fin) ==
  /\ receiverGone \/ BreaksFinalSize(start + Len(data), fin)
  /\ UNCHANGED receiverVars

ReceiveData(start, data, fin) ==
  \/ ReceiveInOrder(start, data, fin)
  \/ ReceiveBuffered(start, data, fin)
  \/ ReceiveIgnored(start, data, fin)

\* handle_reset; a RESET_STREAM that changes the final size is ignored too.
ReceiveReset(size) ==
  IF receiverGone \/ (finalSize # NoSize /\ finalSize # size)
  THEN UNCHANGED receiverVars
  ELSE /\ finalSize' = size
       /\ receiverFinished' = TRUE
       /\ UNCHANGED <<rStart, rBuffer, ranges, stopPending, receiverGone, delivered, ended>>

\* A finished stream is discarded when its send part is finished as well.
DiscardReceiver ==
  /\ receiverFinished /\ ~receiverGone
  /\ receiverGone' = TRUE
  /\ UNCHANGED <<rStart, rBuffer, ranges, finalSize, receiverFinished, stopPending,
                 delivered, ended>>

\* stop(): the application wants no more.
Stop ==
  /\ ~receiverGone
  /\ stopPending' = TRUE
  /\ UNCHANGED <<rStart, rBuffer, ranges, finalSize, receiverFinished, receiverGone,
                 delivered, ended>>

\* get_stop_frame()
SendStop ==
  /\ ~receiverGone /\ stopPending
  /\ stopPending' = FALSE
  /\ UNCHANGED <<rStart, rBuffer, ranges, finalSize, receiverFinished, receiverGone,
                 delivered, ended>>

\* on_stop_sending_delivery(LOST)
StopLost ==
  /\ stopPending' = TRUE
  /\ UNCHANGED <<rStart, rBuffer, ranges, finalSize, receiverFinished, receiverGone,
                 delivered, ended>>
----
(* A sender of MaxSize bytes that cuts and repeats them at will. *)

Stretch(start, stop) == [k \in 1..(stop - start) |-> start + k - 1]

ReceiverNext ==
  \/ \E start \in 0..MaxSize : \E stop \in start..MaxSize : \E fin \in BOOLEAN :
       /\ fin => stop = MaxSize
       /\ ReceiveData(start, Stretch(start, stop), fin)
  \/ ReceiveReset(MaxSize)
  \/ DiscardReceiver
  \/ Stop \/ SendStop \/ StopLost

----
(* What must hold of the receiver. *)

\* The application gets the bytes of the stream from the first on, in order,
\* each once, and no hole of the buffer among them.
DeliveredInOrder ==
  /\ Len(delivered) = rStart
  /\ \A k \in 1..Len(delivered) : delivered[k] = k - 1

\* The buffer and the ranges agree on what has been received out of order, and
\* the gap in front of it is real: what can be delivered has been.
BufferMatchesRanges ==
  /\ rStart \notin ranges
  /\ \A r \in ranges : r > rStart /\ r - rStart < Len(rBuffer) /\ rBuffer[r - rStart + 1] = r

\* The fast path needs an empty buffer: with the end known and bytes still
\* missing there is always something in the buffer, so that the path that looks
\* for the end is taken.
EndKnownIsBuffered ==
  finalSize # NoSize /\ ~receiverFinished => rStart + Len(rBuffer) = finalSize
====
